-------------------------------- MODULE Rows --------------------------------
(***************************************************************************)
(* Requests as transactions under READ COMMITTED, as SQLAlchemy writes     *)
(* them: a request reads what is committed, decides what it will write,    *)
(* and commits later.  Only the constraints of the database and the ORM's  *)
(* count of updated rows can stop it then.                                 *)
(***************************************************************************)
EXTENDS Integers, FiniteSets, TLC

CONSTANTS
  Session,
  Ids,             \* table -> ids of its rows
  None,
  MaxRequests      \* bound on the requests

VARIABLES
  db,         \* table -> id -> row
  given,      \* table -> ids that its sequence has given away
  request,    \* session -> what it will write, or None
  requests    \* begun so far

rows == <<db, given, request, requests>>

(* new: rows to insert; set: fields of rows to update; drop: rows to       *)
(* delete; seen: what the decision depends on; fresh: none of it has       *)
(* changed since.                                                          *)
Nothing ==
  LET none == [t \in DOMAIN db |-> << >>]
  IN  [op |-> "none", new |-> none, set |-> none, drop |-> [t \in DOMAIN db |-> {}],
       seen |-> {}, fresh |-> TRUE]

(* One function over another one; a function with one more value *)
Over(f, g)   == [x \in DOMAIN f \cup DOMAIN g |-> IF x \in DOMAIN f THEN f[x] ELSE g[x]]
Put(f, x, v) == [o \in DOMAIN f \cup {x} |-> IF o = x THEN v ELSE f[o]]

InsertAll(r, t, more)   == [r EXCEPT !.new = Put(r.new, t, Over(more, r.new[t]))]
Insert(r, t, id, row)   == InsertAll(r, t, [x \in {id} |-> row])
Delete(r, t, ids)       == [r EXCEPT !.drop[t] = @ \cup ids]

Update(r, t, id, fields) ==    \* only what differs is written
  LET differs == {f \in DOMAIN fields : fields[f] # db[t][id][f]}
      before  == IF id \in DOMAIN r.set[t] THEN r.set[t][id] ELSE << >>
      row     == Over([f \in differs |-> fields[f]], before)
  IN  IF differs = {} THEN r ELSE [r EXCEPT !.set = Put(r.set, t, Put(r.set[t], id, row))]

(* Update of each of some rows *)
UpdateAll(r, t, ids, fields) ==
  LET changed == {id \in ids : \E f \in DOMAIN fields : fields[f] # db[t][id][f]}
  IN  [r EXCEPT !.set = Put(r.set, t, Over([id \in changed |-> Update(r, t, id, fields).set[t][id]], r.set[t]))]

(* A row as the request leaves it *)
RowIn(r, t, id) ==
  IF id \in DOMAIN r.new[t] THEN r.new[t][id]
  ELSE IF id \in DOMAIN r.set[t] THEN Over(r.set[t][id], db[t][id]) ELSE db[t][id]

WrittenRows(r, t, gone) ==
  [id \in (DOMAIN db[t] \ gone) \cup DOMAIN r.new[t] |-> RowIn(r, t, id)]

(* An UPDATE that finds no row is a StaleDataError, a DELETE is not; what  *)
(* is inserted must not be there yet.                                      *)
UpdatesFindRows(r) == \A t \in DOMAIN db : DOMAIN r.set[t] \subseteq DOMAIN db[t]
InsertsAreNew(r)   == \A t \in DOMAIN db : DOMAIN r.new[t] \cap DOMAIN db[t] = {}

(* NULL is not equal to NULL. *)
UniqueIn(table, field) ==
  \A x, y \in DOMAIN table : x # y /\ table[x][field] = table[y][field] => table[x][field] = None

----------------------------------------------------------------------------

NewIds(t) == Ids[t] \ given[t]
NewId(t)  == CHOOSE id \in NewIds(t) : TRUE

Pending(s, op, seen, r) ==
  /\ request' = [request EXCEPT ![s] = [r EXCEPT !.op = op, !.seen = seen]]
  /\ given' = [t \in DOMAIN db |-> given[t] \cup (DOMAIN r.new[t] \cap Ids[t])]

Decide(s, op, seen, r) ==
  /\ requests < MaxRequests /\ requests' = requests + 1
  /\ Pending(s, op, seen, r)
  /\ UNCHANGED db

(* Others' requests are not fresh any more if their keys are among these. *)
Overtaken(s, keys) ==
  [o \in Session |->
     IF o = s \/ request[o] = None THEN None
     ELSE [request[o] EXCEPT !.fresh = @ /\ request[o].seen \cap keys = {}]]

(* The connection or the process is lost, or an error is raised. *)
Abandon(s) ==
  /\ request[s] # None
  /\ request' = [request EXCEPT ![s] = None]
  /\ UNCHANGED <<db, given, requests>>

(* A request of one of these kinds commits something, and nothing that it  *)
(* saw has changed since.                                                  *)
Fresh(ops, s) ==
  /\ request[s] # None /\ request[s].fresh /\ request[s].op \in ops
  /\ request'[s] \notin {request[s], [request[s] EXCEPT !.fresh = FALSE]}    \* it is not pending any more
  /\ db' # db
=============================================================================
