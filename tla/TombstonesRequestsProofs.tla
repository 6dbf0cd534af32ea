---------------------- MODULE TombstonesRequestsProofs ----------------------
(***************************************************************************)
(* Proofs about what must happen once: a login and an address.             *)
(*                                                                         *)
(* MemberRequests, for any applications, accounts, ids and sessions: an    *)
(* address becomes a confirmed one only if a mail about it was answered,   *)
(* and a request for membership ends once, as does what a mail is good     *)
(* for.                                                                    *)
(*                                                                         *)
(* Tombstones, for any users, accounts, logins and sessions: the triggers  *)
(* alone keep every login and uid in one tombstone.  That nothing is       *)
(* forgotten and no login goes to a second user holds as long as nobody    *)
(* inserts a user with an account that had another one.                    *)
(***************************************************************************)
EXTENDS Tombstones, MemberRequests, FiniteSetTheorems, TLAPS
----------------------------------------------------------------------------
(* Requests for membership. *)

RequestShape(r) ==
  /\ r = [op |-> r.op, new |-> r.new, set |-> r.set, drop |-> r.drop, seen |-> r.seen, fresh |-> r.fresh]
  /\ r.fresh \in BOOLEAN

(* What a request writes: rows with all their columns, and values for some *)
Draft(r) ==
  /\ RequestShape(r)
  /\ DOMAIN r.new = Table /\ DOMAIN r.set = Table /\ DOMAIN r.drop = Table /\ r.drop["user"] = {}
  /\ \A t \in Table : DOMAIN r.new[t] \subseteq Ids[t]
  /\ \A t \in Table : \A id \in DOMAIN r.new[t] : DOMAIN r.new[t][id] = Columns[t]
  /\ \A t \in Table : \A id \in DOMAIN r.set[t] : DOMAIN r.set[t][id] \subseteq Columns[t]
  /\ \A id \in DOMAIN r.new["prm"] : r.new["prm"][id]["email"] \in Email
  /\ \A id \in DOMAIN r.set["prm"] : "email" \in DOMAIN r.set["prm"][id] => r.set["prm"][id]["email"] \in Email

RequestsInv ==
  /\ RequestTypes /\ DOMAIN request = Session /\ \A t \in Table : given[t] \subseteq Ids[t]
  /\ \A s \in Session : request[s] # None =>
       Draft(request[s]) /\ \A t \in Table : DOMAIN request[s].new[t] \subseteq given[t]

(* The columns that it sets, and what a row has in one once it has         *)
(* committed                                                               *)
Sets(r, t, id, c) == id \in DOMAIN r.set[t] /\ c \in DOMAIN r.set[t][id]

Value(r, t, id, c) ==
  IF id \in DOMAIN r.new[t] THEN r.new[t][id][c]
  ELSE IF Sets(r, t, id, c) THEN r.set[t][id][c] ELSE db[t][id][c]

----------------------------------------------------------------------------
(* A request that ends one deletes it, and whose confirmation ends it      *)
(* updates it, too.                                                        *)
Ends(r, id) ==
  /\ id \in given["prm"] /\ id \in r.drop["prm"]
  /\ r.fresh => id \in Prms /\ <<"prm", id>> \in r.seen
  /\ r.op = "confirm" => id \in DOMAIN r.set["prm"]

EndInv ==
  /\ DOMAIN ended = Ids["prm"]
  /\ \A id \in Ids["prm"] :
       /\ ended[id] \in Nat
       /\ ended[id] # 0 =>
            /\ id \in given["prm"] \ Prms
            /\ \A s \in Session : request[s] # None => id \notin DOMAIN request[s].new["prm"]
  /\ \A s \in Session : request[s] # None => \A id : <<"end", id>> \in request[s].seen =>
       /\ Ends(request[s], id)
       /\ \A o \in Session : request[o] # None => id \notin DOMAIN request[o].new["prm"]

----------------------------------------------------------------------------
(* Where codes are: in rows, and in what requests are going to write       *)
Slots == {<<"prm", "key">>, <<"user", "key">>, <<"user", "token">>}
Sent  == {m.code : m \in mails}

Holds(t, id, c, v) == <<t, c>> \in Slots /\ id \in DOMAIN db[t] /\ db[t][id][c] = v

Gives(r, t, id, c, v) ==
  /\ <<t, c>> \in Slots
  /\ \/ id \in DOMAIN r.new[t] /\ r.new[t][id][c] = v
     \/ Sets(r, t, id, c) /\ r.set[t][id][c] = v

Answers(r, v) ==
  /\ v \in Sent
  /\ \A t, id, c : Holds(t, id, c, v) => Sets(r, t, id, c) /\ r.set[t][id][c] = None
  /\ r.fresh => \E t, id, c : Holds(t, id, c, v) /\ <<t, id>> \in r.seen

CodeInv ==
  /\ IsFiniteSet(mails) /\ answered \subseteq Sent
  /\ \A m \in mails : m.code \in 1 .. Cardinality(mails)
  /\ \A m, n \in mails : m.code = n.code => m = n
  /\ \A t, id, c, v : Holds(t, id, c, v) /\ v # None =>
       /\ v \in Sent \ answered
       /\ \A o, i, d : Holds(o, i, d, v) => <<o, i, d>> = <<t, id, c>>
  /\ \A s \in Session : request[s] # None => \A t, id, c, v : Gives(request[s], t, id, c, v) /\ v # None =>
       /\ v \in Sent \ answered
       /\ \A o, i, d : ~ Holds(o, i, d, v)
       /\ \A u \in Session : \A o, i, d : request[u] # None /\ Gives(request[u], o, i, d, v) =>
            <<u, o, i, d>> = <<s, t, id, c>>
       /\ \A u \in Session : request[u] # None => <<"code", v>> \notin request[u].seen
  /\ \A s \in Session : request[s] # None => \A v : <<"code", v>> \in request[s].seen => Answers(request[s], v)

----------------------------------------------------------------------------
(* Keys are those of mails about the addresses they stand by, that went to *)
(* them or to the internal mailbox of the account.                         *)
Concerns(m, t, id, e) == m.about = e /\ m.to \in Mailboxes(t, id, e)
Mailed(t, id, v, e) == v = None \/ \E m \in mails : m.code = v /\ Concerns(m, t, id, e)

Mails(r) ==
  /\ \A t \in Table : \A id \in DOMAIN r.new[t] : Mailed(t, id, r.new[t][id]["key"], r.new[t][id]["email"])
  /\ r.fresh /\ r.op # "edit" => \A t \in Table : \A id \in DOMAIN r.set[t] :
       /\ <<t, id>> \in r.seen /\ id \in DOMAIN db[t] \ DOMAIN r.new[t]
       /\ Sets(r, t, id, "key") \/ Sets(r, t, id, "email") =>
            Mailed(t, id, Value(r, t, id, "key"), Value(r, t, id, "email"))

MailsInv ==
  /\ \A t \in Table : \A id \in DOMAIN db[t] :
       <<t, id>> \notin mixed => Mailed(t, id, db[t][id]["key"], db[t][id]["email"])
  /\ \A s \in Session : request[s] # None => Mails(request[s])

----------------------------------------------------------------------------
(* What lets an address be confirmed: a request that is taken over, or a   *)
(* mail that was answered                                                  *)
Lends(id, e) == e \in {db["prm"][id]["email"], Lower[db["prm"][id]["email"]]} /\ db["prm"][id]["confirmed"]

Taken(r, e) ==
  \E id \in r.drop["prm"] : <<"prm", id>> \in r.seen /\ id \in Prms /\ Lends(id, e)
Proved(r, t, id, e) ==
  \E o \in Table : \E i \in DOMAIN db[o] :
    /\ <<o, i>> \in r.seen /\ db[o][i]["email"] = e /\ (o = "prm" \/ <<o, i>> = <<t, id>>)
    /\ \E m \in mails : m.code = db[o][i]["key"] /\ m \in proven

ConfirmingOps == {"register", "confirm", "finish", "merge", "deny", "resend", "edit_email", "edit_user",
                  "request_reset"}

Confirms(r) ==
  /\ \A t \in Table : \A id \in DOMAIN r.new[t] :
       r.new[t][id]["confirmed"] => Taken(r, r.new[t][id]["email"]) \/ Proved(r, t, id, r.new[t][id]["email"])
  /\ \A t \in Table : \A id \in DOMAIN r.set[t] :
       LET e == Value(r, t, id, "email") IN
       \/ Value(r, t, id, "confirmed") = FALSE
       \/ Value(r, t, id, "confirmed") = db[t][id]["confirmed"] /\ db[t][id]["email"] = e
       \/ Taken(r, e) \/ Proved(r, t, id, e)

ConfirmInv ==
  \A s \in Session :
    request[s] # None /\ request[s].fresh /\ request[s].op \in ConfirmingOps => Confirms(request[s])

----------------------------------------------------------------------------
(* Requests, put together. *)

LEMMA NoRows == DOMAIN << >> = {}
OBVIOUS

LEMMA TheTables == /\ Table = {"prm", "user"} /\ "prm" \in Table /\ "user" \in Table
                   /\ Columns["prm"] = Field \cup {"confirmed", "key"}
                   /\ Columns["user"] = {"name", "login", "email", "person", "room", "confirmed", "key", "token"}
BY DEF Table, Columns

LEMMA OverFacts ==
  ASSUME NEW f, NEW g
  PROVE  /\ DOMAIN Over(f, g) = DOMAIN f \cup DOMAIN g
         /\ \A x \in DOMAIN f : Over(f, g)[x] = f[x]
         /\ \A x \in DOMAIN g \ DOMAIN f : Over(f, g)[x] = g[x]
BY DEF Over

Decided(r, op, seen) == [r EXCEPT !.op = op, !.seen = seen]

LEMMA ShapeDecided ==
  ASSUME NEW r, RequestShape(r), NEW op, NEW seen
  PROVE  LET q == Decided(r, op, seen)
         IN  /\ RequestShape(q) /\ q.new = r.new /\ q.set = r.set /\ q.drop = r.drop
             /\ q.op = op /\ q.seen = seen /\ q.fresh = r.fresh
<1> DEFINE a == [r EXCEPT !.op = op]
           b == [a EXCEPT !.seen = seen]
<1>1. RequestShape(a) /\ a.new = r.new /\ a.set = r.set /\ a.drop = r.drop /\ a.op = op /\ a.fresh = r.fresh
  BY DEF RequestShape
<1>2. /\ RequestShape(b) /\ b.new = r.new /\ b.set = r.set /\ b.drop = r.drop
      /\ b.op = op /\ b.seen = seen /\ b.fresh = r.fresh
  <2> HIDE DEF a
  <2> QED
    BY <1>1 DEF RequestShape
<1>3. b = Decided(r, op, seen)
  BY DEF Decided
<1> HIDE DEF a, b
<1> QED
  BY <1>2, <1>3

LEMMA ShapeFresh ==
  ASSUME NEW r, RequestShape(r), NEW b \in BOOLEAN
  PROVE  LET q == [r EXCEPT !.fresh = b]
         IN  /\ RequestShape(q) /\ q.new = r.new /\ q.set = r.set /\ q.drop = r.drop
             /\ q.op = r.op /\ q.seen = r.seen /\ q.fresh = b
BY DEF RequestShape

(* Nothing is nothing. *)
LEMMA NothingIs ==
  ASSUME DOMAIN db = Table
  PROVE  /\ Draft(Nothing) /\ Nothing.fresh = TRUE
         /\ \A t \in Table : DOMAIN Nothing.new[t] = {} /\ DOMAIN Nothing.set[t] = {} /\ Nothing.drop[t] = {}
<1> DEFINE none  == [t \in DOMAIN db |-> << >>]
           empty == [t \in DOMAIN db |-> {}]
<1>1. Nothing = [op |-> "none", new |-> none, set |-> none, drop |-> empty, seen |-> {}, fresh |-> TRUE]
  BY DEF Nothing
<1>2. /\ DOMAIN none = Table /\ DOMAIN empty = Table
      /\ \A t \in Table : DOMAIN none[t] = {} /\ empty[t] = {}
  BY NoRows
<1> HIDE DEF none, empty
<1>3. RequestShape(Nothing) /\ Nothing.new = none /\ Nothing.set = none /\ Nothing.drop = empty /\ Nothing.fresh = TRUE
  BY <1>1 DEF RequestShape
<1> QED
  BY <1>2, <1>3, TheTables DEF Draft

(* A request that sets columns of one row, to x, but for those that are    *)
(* so already                                                              *)
OneRow(r, t, id, x) ==
  /\ \A o \in Table : \A i \in DOMAIN r.set[o] : o = t /\ i = id
  /\ \A c : Sets(r, t, id, c) => c \in DOMAIN x /\ r.set[t][id][c] = x[c]
  /\ \A c \in DOMAIN x : ~ Sets(r, t, id, c) => x[c] = db[t][id][c]

Settable(t, fields) ==
  /\ DOMAIN fields \subseteq Columns[t]
  /\ t = "prm" /\ "email" \in DOMAIN fields => fields["email"] \in Email

LEMMA NothingSets ==
  ASSUME DOMAIN db = Table, NEW t \in Table, NEW id, NEW x, DOMAIN x = {}
  PROVE  OneRow(Nothing, t, id, x)
<1>1. \A o \in Table : DOMAIN Nothing.set[o] = {}
  BY NothingIs
<1>2. ASSUME NEW c
      PROVE  ~ Sets(Nothing, t, id, c)
  BY <1>1 DEF Sets
<1> QED
  BY <1>1, <1>2 DEF OneRow

Same(q, r) == q.new = r.new /\ q.drop = r.drop /\ q.fresh = r.fresh

(* An UPDATE of more columns of this row                                   *)
LEMMA UpdateSets ==
  ASSUME NEW r, Draft(r), NEW t \in Table, NEW id, NEW x, OneRow(r, t, id, x),
         NEW fields, Settable(t, fields), DOMAIN fields \cap DOMAIN x = {},
         NEW y, DOMAIN y = DOMAIN fields \cup DOMAIN x,
         \A c \in DOMAIN fields : y[c] = fields[c], \A c \in DOMAIN x : y[c] = x[c]
  PROVE  LET q == Update(r, t, id, fields) IN Draft(q) /\ OneRow(q, t, id, y) /\ Same(q, r)
<1> DEFINE differs == {f \in DOMAIN fields : fields[f] # db[t][id][f]}
           before  == IF id \in DOMAIN r.set[t] THEN r.set[t][id] ELSE << >>
           part    == [f \in differs |-> fields[f]]
           row     == Over(part, before)
           table   == Put(r.set[t], id, row)
           q       == [r EXCEPT !.set = Put(r.set, t, table)]
<1>1. Update(r, t, id, fields) = IF differs = {} THEN r ELSE q
  BY DEF Update
<1>2. CASE differs = {}
  <2>1. OneRow(r, t, id, y)
    <3>1. \A c \in DOMAIN fields : fields[c] = db[t][id][c]
      BY <1>2
    <3>2. \A c \in DOMAIN y : ~ Sets(r, t, id, c) => y[c] = db[t][id][c]
      BY <3>1 DEF OneRow
    <3>3. \A c : Sets(r, t, id, c) => c \in DOMAIN y /\ r.set[t][id][c] = y[c]
      BY DEF OneRow
    <3> QED
      BY <3>2, <3>3 DEF OneRow
  <2> QED
    BY <1>1, <1>2, <2>1 DEF Same
<1>3. CASE differs # {}
  <2>1. DOMAIN part = differs /\ \A c \in differs : part[c] = fields[c]
    OBVIOUS
  <2>2. \A c : c \in DOMAIN before <=> Sets(r, t, id, c)
    BY NoRows DEF Sets
  <2>3. \A c \in DOMAIN before : before[c] = r.set[t][id][c]
    BY NoRows
  <2>4. differs \subseteq DOMAIN fields /\ \A c \in DOMAIN fields \ differs : fields[c] = db[t][id][c]
    OBVIOUS
  <2> HIDE DEF part, before, differs
  <2>5. /\ DOMAIN row = differs \cup DOMAIN before
        /\ \A c \in differs : row[c] = fields[c]
        /\ \A c \in DOMAIN before \ differs : row[c] = before[c]
    BY <2>1 DEF Over, row
  <2> HIDE DEF row
  <2>6. /\ DOMAIN table = DOMAIN r.set[t] \cup {id} /\ table[id] = row
        /\ \A i \in DOMAIN r.set[t] \ {id} : table[i] = r.set[t][i]
    BY DEF Put, table
  <2> HIDE DEF table
  <2>7. /\ DOMAIN Put(r.set, t, table) = Table /\ Put(r.set, t, table)[t] = table
        /\ \A o \in Table \ {t} : Put(r.set, t, table)[o] = r.set[o]
    <3>1. DOMAIN r.set = Table
      BY DEF Draft
    <3> QED
      BY <3>1 DEF Put
  <2>8. /\ RequestShape(q) /\ q.set = Put(r.set, t, table)
        /\ q.new = r.new /\ q.drop = r.drop /\ q.fresh = r.fresh
    BY DEF Draft, RequestShape
  <2>9. DOMAIN q.set = Table /\ q.set[t] = table /\ \A o \in Table \ {t} : q.set[o] = r.set[o]
    BY <2>7, <2>8
  <2> HIDE DEF q
  <2>10. DOMAIN row \subseteq Columns[t] /\ (t = "prm" /\ "email" \in DOMAIN row => row["email"] \in Email)
    <3>1. DOMAIN before \subseteq Columns[t]
      BY NoRows DEF Draft, before
    <3>2. t = "prm" /\ "email" \in DOMAIN before => before["email"] \in Email
      BY NoRows DEF Draft, before
    <3> QED
      BY <2>4, <2>5, <3>1, <3>2 DEF Settable
  <2>11. Draft(q)
    <3>1. ASSUME NEW o \in Table, NEW i \in DOMAIN q.set[o]
          PROVE  DOMAIN q.set[o][i] \subseteq Columns[o] /\
                   (o = "prm" /\ "email" \in DOMAIN q.set[o][i] => q.set[o][i]["email"] \in Email)
      <4>1. CASE o = t /\ i = id
        BY <4>1, <2>6, <2>9, <2>10
      <4>2. CASE ~ (o = t /\ i = id)
        <5>1. i \in DOMAIN r.set[o] /\ q.set[o][i] = r.set[o][i]
          BY <4>2, <2>6, <2>9
        <5> QED
          BY <5>1 DEF Draft
      <4> QED
        BY <4>1, <4>2
    <3> QED
      BY <2>8, <2>9, <3>1, TheTables DEF Draft
  <2>12. OneRow(q, t, id, y)
    <3>1. \A o \in Table : \A i \in DOMAIN q.set[o] : o = t /\ i = id
      BY <2>6, <2>9 DEF OneRow
    <3>2. \A c : Sets(q, t, id, c) <=> c \in differs \/ Sets(r, t, id, c)
      BY <2>2, <2>5, <2>6, <2>9 DEF Sets
    <3>3. \A c : Sets(r, t, id, c) => c \notin differs /\ q.set[t][id][c] = x[c] /\ c \in DOMAIN x
      BY <2>2, <2>3, <2>4, <2>5, <2>6, <2>9 DEF OneRow
    <3>4. \A c \in differs : q.set[t][id][c] = fields[c] /\ c \in DOMAIN fields
      BY <2>4, <2>5, <2>6, <2>9
    <3>5. \A c : Sets(q, t, id, c) => c \in DOMAIN y /\ q.set[t][id][c] = y[c]
      BY <3>2, <3>3, <3>4
    <3>6. \A c \in DOMAIN y : ~ Sets(q, t, id, c) => y[c] = db[t][id][c]
      BY <2>4, <3>2 DEF OneRow
    <3> QED
      BY <3>1, <3>5, <3>6 DEF OneRow
  <2> QED
    BY <1>1, <1>3, <2>8, <2>11, <2>12 DEF Same
<1> HIDE DEF q, differs
<1> QED
  BY <1>2, <1>3

(* ... of a row that the request has not touched before                    *)
LEMMA UpdateNothing ==
  ASSUME DOMAIN db = Table, NEW t \in Table, NEW id, NEW fields, Settable(t, fields)
  PROVE  LET q == Update(Nothing, t, id, fields) IN Draft(q) /\ OneRow(q, t, id, fields) /\ Same(q, Nothing)
<1>1. OneRow(Nothing, t, id, << >>) /\ Draft(Nothing)
  BY NothingSets, NothingIs, NoRows
<1> QED
  BY <1>1, UpdateSets, NoRows

LEMMA DeleteDrops ==
  ASSUME NEW r, Draft(r), NEW id
  PROVE  LET q == Delete(r, "prm", {id})
         IN  Draft(q) /\ q.new = r.new /\ q.set = r.set /\ q.fresh = r.fresh /\ id \in q.drop["prm"]
<1> DEFINE q == Delete(r, "prm", {id})
<1>1. /\ RequestShape(q) /\ q.new = r.new /\ q.set = r.set /\ q.fresh = r.fresh
      /\ q.drop = [r.drop EXCEPT !["prm"] = r.drop["prm"] \cup {id}]
  <2>1. RequestShape(r)
    BY DEF Draft
  <2> QED
    BY <2>1 DEF Delete, RequestShape
<1>2. DOMAIN q.drop = Table /\ id \in q.drop["prm"] /\ q.drop["user"] = {}
  <2>1. DOMAIN r.drop = Table /\ r.drop["user"] = {}
    BY DEF Draft
  <2> HIDE DEF q
  <2> QED
    BY <1>1, <2>1, TheTables
<1> HIDE DEF q
<1>3. Draft(q)
  BY <1>1, <1>2 DEF Draft
<1> QED
  BY <1>1, <1>2, <1>3 DEF q

LEMMA InsertAdds ==
  ASSUME NEW r, Draft(r), NEW t \in Table, NEW id \in Ids[t], DOMAIN r.new[t] = {},
         NEW row, DOMAIN row = Columns[t], t = "prm" => row["email"] \in Email
  PROVE  LET q == Insert(r, t, id, row)
         IN  /\ Draft(q) /\ q.set = r.set /\ q.drop = r.drop /\ q.fresh = r.fresh
             /\ DOMAIN q.new[t] = {id} /\ q.new[t][id] = row
             /\ \A o \in Table \ {t} : q.new[o] = r.new[o]
<1> DEFINE q   == Insert(r, t, id, row)
           one == [x \in {id} |-> row]
           f   == Over(one, r.new[t])
<1>1. q = [r EXCEPT !.new = Put(r.new, t, f)]
  BY DEF Insert, InsertAll
<1>2. DOMAIN one = {id} /\ one[id] = row
  OBVIOUS
<1> HIDE DEF one
<1>3. DOMAIN f = {id} /\ f[id] = row
  BY <1>2 DEF Over, f
<1> HIDE DEF f
<1>4. RequestShape(q) /\ q.new = Put(r.new, t, f) /\ q.set = r.set /\ q.drop = r.drop /\ q.fresh = r.fresh
  <2>1. RequestShape(r)
    BY DEF Draft
  <2> HIDE DEF q
  <2> QED
    BY <1>1, <2>1 DEF RequestShape
<1> HIDE DEF q
<1>5. DOMAIN q.new = Table /\ q.new[t] = f /\ \A o \in Table \ {t} : q.new[o] = r.new[o]
  <2>1. DOMAIN r.new = Table
    BY DEF Draft
  <2> QED
    BY <1>4, <2>1 DEF Put
<1>6. Draft(q)
  <2>1. ASSUME NEW o \in Table, NEW i \in DOMAIN q.new[o]
        PROVE  /\ i \in Ids[o] /\ DOMAIN q.new[o][i] = Columns[o]
               /\ o = "prm" => q.new[o][i]["email"] \in Email
    <3>1. CASE o = t
      BY <3>1, <1>3, <1>5
    <3>2. CASE o # t
      BY <3>2, <1>5 DEF Draft
    <3> QED
      BY <3>1, <3>2
  <2> QED
    BY <1>4, <1>5, <2>1, TheTables DEF Draft
<1> QED
  BY <1>3, <1>4, <1>5, <1>6 DEF q

----------------------------------------------------------------------------
(* What a request decides, sending the mails M and having received A. *)

MailTo(e, box) == [code |-> Code, about |-> e, to |-> box]

Sends(M, t, id, v, e) == \E box \in Mailboxes(t, id, e) : [code |-> v, about |-> e, to |-> box] \in M

LEMMA SendsNew ==
  ASSUME NEW t, NEW id, NEW e, NEW box \in Mailboxes(t, id, e)
  PROVE  Sends({MailTo(e, box)}, t, id, Code, e)
BY DEF Sends, MailTo

Ending(w) ==
  \A id : <<"end", id>> \in w.seen =>
    /\ id \in Prms /\ <<"prm", id>> \in w.seen /\ id \in w.drop["prm"]
    /\ w.op = "confirm" => id \in DOMAIN w.set["prm"]

Coding(w, M) ==
  \A t, id, c, v : Gives(w, t, id, c, v) /\ v # None =>
    /\ v = Code /\ M # {}
    /\ \A o, i, d : Gives(w, o, i, d, v) => <<o, i, d>> = <<t, id, c>>

Answering(w) ==
  \A v : <<"code", v>> \in w.seen =>
    /\ v \in Sent
    /\ \E t, id, c : Holds(t, id, c, v) /\ <<t, id>> \in w.seen /\ Sets(w, t, id, c) /\ w.set[t][id][c] = None

Mailing(w, M) ==
  /\ \A t \in Table : \A id \in DOMAIN w.new[t] :
       w.new[t][id]["key"] = None \/ Sends(M, t, id, w.new[t][id]["key"], w.new[t][id]["email"])
  /\ w.op # "edit" => \A t \in Table : \A id \in DOMAIN w.set[t] :
       /\ <<t, id>> \in w.seen /\ id \in DOMAIN db[t] \ DOMAIN w.new[t]
       /\ Sets(w, t, id, "key") \/ Sets(w, t, id, "email") =>
            Value(w, t, id, "key") = None
            \/ Sends(M, t, id, Value(w, t, id, "key"), Value(w, t, id, "email"))

ProvedBy(w, A, t, id, e) ==
  \E o \in Table : \E i \in DOMAIN db[o] :
    /\ <<o, i>> \in w.seen /\ db[o][i]["email"] = e /\ (o = "prm" \/ <<o, i>> = <<t, id>>)
    /\ \E m \in A : m.code = db[o][i]["key"]

Confirming(w, A) ==
  /\ \A t \in Table : \A id \in DOMAIN w.new[t] :
       w.new[t][id]["confirmed"] => Taken(w, w.new[t][id]["email"]) \/ ProvedBy(w, A, t, id, w.new[t][id]["email"])
  /\ \A t \in Table : \A id \in DOMAIN w.set[t] :
       LET e == Value(w, t, id, "email") IN
       \/ Value(w, t, id, "confirmed") = FALSE
       \/ Value(w, t, id, "confirmed") = db[t][id]["confirmed"] /\ db[t][id]["email"] = e
       \/ Taken(w, e) \/ ProvedBy(w, A, t, id, e)

Good(w, M, A) ==
  /\ Draft(w) /\ w.fresh = TRUE
  /\ \A t \in Table : DOMAIN w.new[t] \subseteq NewIds(t)
  /\ Ending(w) /\ Coding(w, M) /\ Answering(w) /\ Mailing(w, M)
  /\ w.op \in ConfirmingOps => Confirming(w, A)

Does(s, w, M, A) ==
  /\ requests' = requests \/ (requests < MaxRequests /\ requests' = requests + 1)
  /\ request' = [request EXCEPT ![s] = w]
  /\ given' = [t \in DOMAIN db |-> given[t] \cup (DOMAIN w.new[t] \cap Ids[t])]
  /\ mails' = mails \cup M /\ proven' = proven \cup A
  /\ M = {} \/ \E e, box : M = {MailTo(e, box)}
  /\ A \subseteq mails
  /\ UNCHANGED <<db, answered, ended, mixed>>

Decides(s) == \E w, M, A : Good(w, M, A) /\ Does(s, w, M, A)

LEMMA DecidedIs ==
  ASSUME NEW r, Draft(r), NEW op, NEW seen
  PROVE  LET w == Decided(r, op, seen)
         IN  /\ Draft(w) /\ w.new = r.new /\ w.set = r.set /\ w.drop = r.drop
             /\ w.op = op /\ w.seen = seen /\ w.fresh = r.fresh
             /\ \A t, id, x : OneRow(r, t, id, x) => OneRow(w, t, id, x)
<1> DEFINE w == Decided(r, op, seen)
<1>1. RequestShape(r)
  BY DEF Draft
<1>2. /\ RequestShape(w) /\ w.new = r.new /\ w.set = r.set /\ w.drop = r.drop
      /\ w.op = op /\ w.seen = seen /\ w.fresh = r.fresh
  BY <1>1, ShapeDecided
<1> HIDE DEF w
<1>3. Draft(w)
  BY <1>2 DEF Draft
<1>4. \A t, id, x : OneRow(r, t, id, x) => OneRow(w, t, id, x)
  BY <1>2 DEF OneRow, Sets
<1> QED
  BY <1>2, <1>3, <1>4 DEF w

LEMMA PendingIs ==
  ASSUME NEW s, NEW op, NEW seen, NEW r, Draft(r), Pending(s, op, seen, r)
  PROVE  LET w == Decided(r, op, seen)
         IN  /\ request' = [request EXCEPT ![s] = w]
             /\ given' = [t \in DOMAIN db |-> given[t] \cup (DOMAIN w.new[t] \cap Ids[t])]
<1> DEFINE w == Decided(r, op, seen)
<1>1. w.new = r.new
  BY DecidedIs
<1>2. request' = [request EXCEPT ![s] = w]
  BY DEF Pending, Decided
<1>3. given' = [t \in DOMAIN db |-> given[t] \cup (DOMAIN r.new[t] \cap Ids[t])]
  BY DEF Pending
<1> HIDE DEF w
<1>4. given' = [t \in DOMAIN db |-> given[t] \cup (DOMAIN w.new[t] \cap Ids[t])]
  BY <1>1, <1>3
<1> QED
  BY <1>2, <1>4 DEF w

LEMMA BeginDoes ==
  ASSUME NEW s, NEW op, NEW seen, NEW r, Draft(r)
  PROVE  /\ Begin(s, op, seen, r) => Does(s, Decided(r, op, seen), {}, {})
         /\ \A e, boxes : BeginMailing(s, op, seen, r, e, boxes) =>
              \E box \in boxes : Does(s, Decided(r, op, seen), {MailTo(e, box)}, {})
         /\ \A mail \in mails : BeginAnswering(s, op, mail, seen, r) =>
              Does(s, Decided(r, op, seen \cup {<<"code", mail.code>>}), {}, {mail})
<1>1. ASSUME NEW more, Decide(s, op, more, r)
      PROVE  LET w == Decided(r, op, more)
             IN  /\ requests < MaxRequests /\ requests' = requests + 1 /\ UNCHANGED db
                 /\ request' = [request EXCEPT ![s] = w]
                 /\ given' = [t \in DOMAIN db |-> given[t] \cup (DOMAIN w.new[t] \cap Ids[t])]
  <2>1. Pending(s, op, more, r) /\ requests < MaxRequests /\ requests' = requests + 1 /\ UNCHANGED db
    BY <1>1 DEF Decide
  <2> QED
    BY <2>1, PendingIs
<1>2. ASSUME Begin(s, op, seen, r)
      PROVE  Does(s, Decided(r, op, seen), {}, {})
  <2>1. Decide(s, op, seen, r) /\ UNCHANGED <<mails, proven, answered, ended, mixed>>
    BY <1>2 DEF Begin
  <2>2. mails' = mails \cup {} /\ proven' = proven \cup {}
    BY <2>1
  <2> QED
    BY <1>1, <2>1, <2>2 DEF Does
<1>3. ASSUME NEW e, NEW boxes, BeginMailing(s, op, seen, r, e, boxes)
      PROVE  \E box \in boxes : Does(s, Decided(r, op, seen), {MailTo(e, box)}, {})
  <2>3. PICK box \in boxes : mails' = mails \cup {MailTo(e, box)}
    BY <1>3 DEF BeginMailing, MailTo
  <2>1. Decide(s, op, seen, r) /\ mails' = mails \cup {MailTo(e, box)} /\ UNCHANGED <<proven, answered, ended, mixed>>
    BY <1>3, <2>3 DEF BeginMailing
  <2>2. proven' = proven \cup {}
    BY <2>1
  <2> QED
    BY <1>1, <2>1, <2>2 DEF Does
<1>4. ASSUME NEW mail \in mails, BeginAnswering(s, op, mail, seen, r)
      PROVE  Does(s, Decided(r, op, seen \cup {<<"code", mail.code>>}), {}, {mail})
  <2>1. /\ Decide(s, op, seen \cup {<<"code", mail.code>>}, r)
        /\ proven' = proven \cup {mail} /\ UNCHANGED <<mails, answered, ended, mixed>>
    BY <1>4 DEF BeginAnswering
  <2>2. mails' = mails \cup {} /\ proven' = proven \cup {mail}
    BY <2>1
  <2> QED
    BY <1>1, <2>1, <2>2 DEF Does
<1> QED
  BY <1>2, <1>3, <1>4

LEMMA BeginsMailing ==
  ASSUME NEW s, NEW op, NEW seen, NEW r, Draft(r), NEW e, BeginMailing(s, op, seen, r, e, {e})
  PROVE  Does(s, Decided(r, op, seen), {MailTo(e, e)}, {})
<1>1. \E box \in {e} : Does(s, Decided(r, op, seen), {MailTo(e, box)}, {})
  <2> DEFINE boxes == {e}
  <2>1. BeginMailing(s, op, seen, r, e, boxes)
    OBVIOUS
  <2> HIDE DEF boxes
  <2>2. \E box \in boxes : Does(s, Decided(r, op, seen), {MailTo(e, box)}, {})
    BY <2>1, BeginDoes
  <2> QED
    BY <2>2 DEF boxes
<1> QED
  BY <1>1, Zenon

(* A column of a row, after x has been set                                 *)
After(t, id, x, c) == IF c \in DOMAIN x THEN x[c] ELSE db[t][id][c]

LEMMA ValueAfter ==
  ASSUME NEW w, NEW t \in Table, NEW id, NEW x, OneRow(w, t, id, x), DOMAIN w.new[t] = {}, NEW c
  PROVE  Value(w, t, id, c) = After(t, id, x, c)
BY DEF Value, After, OneRow

(* Requests that set columns of one row                                    *)
LEMMA OneRowGood ==
  ASSUME NEW w, Draft(w), w.fresh = TRUE, \A o \in Table : DOMAIN w.new[o] = {},
         NEW t \in Table, NEW id \in DOMAIN db[t], <<t, id>> \in w.seen, NEW x, OneRow(w, t, id, x),
         NEW M, NEW A, Ending(w), Answering(w),
         \A c \in DOMAIN x : <<t, c>> \in Slots => x[c] = None \/ (M # {} /\ x[c] = Code),
         ~ ("key" \in DOMAIN x /\ "token" \in DOMAIN x),
         w.op # "edit" =>
           /\ "email" \in DOMAIN x => "key" \in DOMAIN x
           /\ "key" \in DOMAIN x => \/ x["key"] = None
                                    \/ Sends(M, t, id, x["key"], After(t, id, x, "email")),
         w.op \in ConfirmingOps =>
           LET e == After(t, id, x, "email") IN
           \/ After(t, id, x, "confirmed") = FALSE
           \/ After(t, id, x, "confirmed") = db[t][id]["confirmed"] /\ db[t][id]["email"] = e
           \/ Taken(w, e) \/ ProvedBy(w, A, t, id, e)
  PROVE  Good(w, M, A)
<1>1. \A c : Value(w, t, id, c) = After(t, id, x, c)
  BY ValueAfter
<1>2. Coding(w, M)
  <2> SUFFICES ASSUME NEW o, NEW i, NEW c, NEW v, Gives(w, o, i, c, v), v # None
               PROVE  /\ v = Code /\ M # {}
                      /\ \A p, j, d : Gives(w, p, j, d, v) => <<p, j, d>> = <<o, i, c>>
    BY DEF Coding
  <2>1. ASSUME NEW p, NEW j, NEW d, Gives(w, p, j, d, v)
        PROVE  /\ p = t /\ j = id /\ d \in DOMAIN x /\ <<t, d>> \in Slots /\ x[d] = v
    <3>1. p \in Table
      BY <2>1 DEF Gives, Slots, Table
    <3>2. Sets(w, p, j, d) /\ w.set[p][j][d] = v /\ <<p, d>> \in Slots
      BY <2>1, <3>1 DEF Gives
    <3>3. p = t /\ j = id
      BY <3>1, <3>2 DEF OneRow, Sets
    <3> QED
      BY <3>2, <3>3 DEF OneRow
  <2>2. \A d : <<t, d>> \in Slots => d \in {"key", "token"}
    BY DEF Slots
  <2>3. o = t /\ i = id /\ c \in DOMAIN x /\ <<t, c>> \in Slots /\ x[c] = v
    BY <2>1
  <2>4. v = Code /\ M # {}
    BY <2>3
  <2>5. ASSUME NEW p, NEW j, NEW d, Gives(w, p, j, d, v)
        PROVE  <<p, j, d>> = <<o, i, c>>
    <3>1. p = t /\ j = id /\ d \in DOMAIN x /\ <<t, d>> \in Slots
      BY <2>1, <2>5
    <3>2. d = c
      BY <2>2, <2>3, <3>1
    <3> QED
      BY <2>3, <3>1, <3>2
  <2> QED
    BY <2>4, <2>5
<1>3. Mailing(w, M)
  <2> SUFFICES ASSUME w.op # "edit", NEW o \in Table, NEW i \in DOMAIN w.set[o]
               PROVE  /\ <<o, i>> \in w.seen /\ i \in DOMAIN db[o] \ DOMAIN w.new[o]
                      /\ Sets(w, o, i, "key") \/ Sets(w, o, i, "email") =>
                           Value(w, o, i, "key") = None
                           \/ Sends(M, o, i, Value(w, o, i, "key"), Value(w, o, i, "email"))
    BY DEF Mailing
  <2>1. o = t /\ i = id
    BY DEF OneRow
  <2>2. Sets(w, t, id, "key") \/ Sets(w, t, id, "email") => "key" \in DOMAIN x
    BY DEF OneRow
  <2>3. "key" \in DOMAIN x => After(t, id, x, "key") = x["key"]
    BY DEF After
  <2> QED
    BY <1>1, <2>1, <2>2, <2>3
<1>4. w.op \in ConfirmingOps => Confirming(w, A)
  <2> SUFFICES ASSUME w.op \in ConfirmingOps, NEW o \in Table, NEW i \in DOMAIN w.set[o]
               PROVE  LET e == Value(w, o, i, "email") IN
                      \/ Value(w, o, i, "confirmed") = FALSE
                      \/ Value(w, o, i, "confirmed") = db[o][i]["confirmed"] /\ db[o][i]["email"] = e
                      \/ Taken(w, e) \/ ProvedBy(w, A, o, i, e)
    BY DEF Confirming
  <2>1. o = t /\ i = id
    BY DEF OneRow
  <2> QED
    BY <1>1, <2>1
<1> QED
  BY <1>2, <1>3, <1>4 DEF Good

----------------------------------------------------------------------------
(* Each request decides so. *)

LEMMA TheRows ==
  ASSUME RequestsInv
  PROVE  /\ DOMAIN db = Table /\ DOMAIN request = Session
         /\ \A t \in Table : /\ DOMAIN db[t] \subseteq given[t] /\ given[t] \subseteq Ids[t]
                             /\ \A id \in DOMAIN db[t] : DOMAIN db[t][id] = Columns[t]
         /\ \A id \in Prms : db.prm[id].email \in Email
         /\ None \notin Email /\ None \notin Nat
         /\ \A e \in Email : e # None /\ Lowered(e) = Lower[e] /\ Lower[e] # None
<1>1. ASSUME NEW e \in Email
      PROVE  e # None /\ Lowered(e) = Lower[e] /\ Lower[e] # None
  <2>1. e # None
    BY RequestsAssumption
  <2>2. Lower[e] \in Email
    BY RequestsAssumption DEF Email
  <2> QED
    BY <2>1, <2>2, RequestsAssumption DEF Lowered
<1> QED
  BY <1>1, RequestsAssumption DEF RequestsInv, RequestTypes

LEMMA NoEnd ==
  ASSUME NEW w, \A id : <<"end", id>> \notin w.seen
  PROVE  Ending(w)
BY DEF Ending

LEMMA NoCode ==
  ASSUME NEW w, \A v : <<"code", v>> \notin w.seen
  PROVE  Answering(w)
BY DEF Answering

LEMMA NewIdIs ==
  ASSUME NEW t, NewIds(t) # {}
  PROVE  NewId(t) \in NewIds(t) /\ NewId(t) \in Ids[t]
BY DEF NewId, NewIds

(* Applying sends a mail to the address entered.                           *)
LEMMA RegisterDecides ==
  ASSUME RequestsInv, NEW s \in Session, NEW a \in Application, Register(s, a)
  PROVE  Decides(s)
<1> DEFINE id  == NewId("prm")
           row == Over([confirmed |-> FALSE, key |-> Code], a)
           r   == Insert(Nothing, "prm", id, row)
           w   == Decided(r, "register", {})
<1>1. NewIds("prm") # {} /\ BeginMailing(s, "register", {}, r, a.email, {a.email})
  BY DEF Register, NewRequest
<1>2. id \in NewIds("prm") /\ id \in Ids["prm"]
  BY <1>1, NewIdIs
<1>3. DOMAIN row = Columns["prm"] /\ row["email"] = a.email /\ row["confirmed"] = FALSE /\ row["key"] = Code
  <2>1. DOMAIN a = Field
    BY RequestsAssumption
  <2> QED
    BY <2>1 DEF Over, Field, Columns
<1>4. a.email \in Email
  BY DEF Email
<1>5. Draft(Nothing) /\ Nothing.fresh = TRUE /\ \A t \in Table : DOMAIN Nothing.new[t] = {} /\ DOMAIN Nothing.set[t] = {}
  BY NothingIs, TheRows
<1> HIDE DEF id, row
<1>6. /\ Draft(r) /\ r.set = Nothing.set /\ r.fresh = TRUE
      /\ DOMAIN r.new["prm"] = {id} /\ r.new["prm"][id] = row /\ DOMAIN r.new["user"] = {}
  <2>1. row["email"] \in Email
    BY <1>3, <1>4
  <2>3. "prm" \in Table /\ DOMAIN Nothing.new["prm"] = {} /\ DOMAIN row = Columns["prm"]
    BY <1>3, <1>5, TheTables
  <2>2. /\ Draft(r) /\ r.set = Nothing.set /\ r.fresh = Nothing.fresh
        /\ DOMAIN r.new["prm"] = {id} /\ r.new["prm"][id] = row
        /\ \A o \in Table \ {"prm"} : r.new[o] = Nothing.new[o]
    BY <1>2, <1>5, <2>1, <2>3, InsertAdds
  <2> HIDE DEF r
  <2> QED
    BY <1>5, <2>2, TheTables
<1> DEFINE M == {MailTo(a.email, a.email)}
<1>7. Does(s, w, M, {}) /\ M # {} /\ Sends(M, "prm", id, Code, a.email)
  <2>1. Does(s, w, M, {}) /\ M # {}
    BY <1>1, <1>6, BeginsMailing
  <2>2. a.email \in Mailboxes("prm", id, a.email)
    BY DEF Mailboxes
  <2> QED
    BY <2>1, <2>2, SendsNew
<1>8. /\ Draft(w) /\ w.new = r.new /\ w.set = r.set /\ w.op = "register" /\ w.seen = {} /\ w.fresh = r.fresh
  BY <1>6, DecidedIs
<1> HIDE DEF w, r, M
<1>9. Ending(w) /\ Answering(w)
  BY <1>8, NoEnd, NoCode
<1>10. \A t \in Table : DOMAIN w.set[t] = {}
  BY <1>5, <1>6, <1>8
<1>11. Coding(w, M)
  <2>1. ASSUME NEW o, NEW i, NEW c, NEW v, Gives(w, o, i, c, v)
        PROVE  o = "prm" /\ i = id /\ c = "key" /\ v = Code
    <3>1. o \in Table /\ (o = "prm" => c = "key")
      BY <2>1 DEF Gives, Slots, Table
    <3>2. i \in DOMAIN w.new[o] /\ w.new[o][i][c] = v
      BY <1>10, <2>1, <3>1 DEF Gives, Sets
    <3> QED
      BY <1>3, <1>6, <1>8, <3>1, <3>2, TheTables
  <2> QED
    BY <1>7, <2>1 DEF Coding
<1>12. Mailing(w, M) /\ Confirming(w, {})
  <2>1. \A t \in Table : \A i \in DOMAIN w.new[t] : t = "prm" /\ i = id /\ w.new[t][i] = row
    BY <1>6, <1>8, TheTables
  <2> QED
    BY <1>3, <1>7, <1>10, <2>1 DEF Mailing, Confirming
<1>13. \A t \in Table : DOMAIN w.new[t] \subseteq NewIds(t)
  BY <1>2, <1>6, <1>8, TheTables
<1> QED
  BY <1>6, <1>7, <1>8, <1>9, <1>11, <1>12, <1>13 DEF Decides, Good

(* One UPDATE of a row                                                     *)
LEMMA UpdateDecides ==
  ASSUME RequestsInv, NEW s \in Session, NEW t \in Table, NEW id \in DOMAIN db[t],
         NEW x, Settable(t, x), NEW op, NEW seen, NEW M, NEW A,
         Does(s, Decided(Update(Nothing, t, id, x), op, seen), M, A),
         <<t, id>> \in seen, \A i : <<"end", i>> \notin seen,
         \A v : <<"code", v>> \in seen =>
           v \in Sent /\ \E c : Holds(t, id, c, v) /\ v # None /\ c \in DOMAIN x /\ x[c] = None,
         \A c \in DOMAIN x : <<t, c>> \in Slots => x[c] = None \/ (M # {} /\ x[c] = Code),
         ~ ("key" \in DOMAIN x /\ "token" \in DOMAIN x),
         op # "edit" =>
           /\ "email" \in DOMAIN x => "key" \in DOMAIN x
           /\ "key" \in DOMAIN x => \/ x["key"] = None
                                    \/ Sends(M, t, id, x["key"], After(t, id, x, "email")),
         op \in ConfirmingOps =>
           LET e == After(t, id, x, "email") IN
           \/ After(t, id, x, "confirmed") = FALSE
           \/ After(t, id, x, "confirmed") = db[t][id]["confirmed"] /\ db[t][id]["email"] = e
           \/ \E m \in A : m.code = db[t][id]["key"] /\ db[t][id]["email"] = e
  PROVE  Decides(s)
<1> DEFINE r == Update(Nothing, t, id, x)
           w == Decided(r, op, seen)
<1>1. /\ Draft(Nothing) /\ Nothing.fresh = TRUE /\ DOMAIN db = Table
      /\ \A o \in Table : DOMAIN Nothing.new[o] = {}
  BY NothingIs, TheRows
<1>2. Draft(r) /\ OneRow(r, t, id, x) /\ Same(r, Nothing)
  BY <1>1, UpdateNothing
<1> HIDE DEF r
<1>3. /\ Draft(w) /\ OneRow(w, t, id, x) /\ w.new = r.new /\ w.op = op /\ w.seen = seen /\ w.fresh = r.fresh
  BY <1>2, DecidedIs
<1>4. Does(s, w, M, A)
  BY DEF r
<1> HIDE DEF w
<1>5. w.fresh = TRUE /\ \A o \in Table : DOMAIN w.new[o] = {}
  BY <1>1, <1>2, <1>3 DEF Same
<1>6. Ending(w)
  BY <1>3, NoEnd
<1>7. Answering(w)
  <2> SUFFICES ASSUME NEW v, <<"code", v>> \in w.seen
               PROVE  /\ v \in Sent
                      /\ \E p, i, c : Holds(p, i, c, v) /\ <<p, i>> \in w.seen /\ Sets(w, p, i, c) /\ w.set[p][i][c] = None
    BY DEF Answering
  <2>1. PICK c : v \in Sent /\ Holds(t, id, c, v) /\ v # None /\ c \in DOMAIN x /\ x[c] = None
    BY <1>3
  <2>2. Sets(w, t, id, c) /\ w.set[t][id][c] = None
    BY <1>3, <2>1 DEF OneRow, Holds
  <2> QED
    BY <1>3, <2>1, <2>2
<1>8. w.op \in ConfirmingOps =>
        LET e == After(t, id, x, "email") IN
        \/ After(t, id, x, "confirmed") = FALSE
        \/ After(t, id, x, "confirmed") = db[t][id]["confirmed"] /\ db[t][id]["email"] = e
        \/ Taken(w, e) \/ ProvedBy(w, A, t, id, e)
  BY <1>3 DEF ProvedBy
<1>10. w.op # "edit" =>
         /\ "email" \in DOMAIN x => "key" \in DOMAIN x
         /\ "key" \in DOMAIN x => \/ x["key"] = None
                                  \/ Sends(M, t, id, x["key"], After(t, id, x, "email"))
  BY <1>3
<1>11. <<t, id>> \in w.seen
  BY <1>3
<1>9. Good(w, M, A)
  BY <1>10, <1>11, <1>3, <1>5, <1>6, <1>7, <1>8, OneRowGood
<1> QED
  BY <1>4, <1>9 DEF Decides

(* A new key, by mail,                                                     *)
LEMMA UnconfirmedDecides ==
  ASSUME RequestsInv, NEW s \in Session, NEW t \in Table, NEW id \in DOMAIN db[t], NEW seen, seen = {<<t, id>>},
         NEW box \in Mailboxes(t, id, db[t][id].email),
         Does(s, Decided(Unconfirmed(Nothing, t, id, Code), "resend", seen), {MailTo(db[t][id].email, box)}, {})
  PROVE  Decides(s)
<1> DEFINE x == [confirmed |-> FALSE, key |-> Code]
           M == {MailTo(db[t][id].email, box)}
<1>1. Unconfirmed(Nothing, t, id, Code) = Update(Nothing, t, id, x)
  BY DEF Unconfirmed
<1>2. DOMAIN x = {"confirmed", "key"} /\ x["key"] = Code /\ x["confirmed"] = FALSE
  OBVIOUS
<1> HIDE DEF x
<1>3. Settable(t, x)
  BY <1>2, TheTables DEF Settable
<1>4. After(t, id, x, "email") = db[t][id]["email"] /\ After(t, id, x, "confirmed") = FALSE
  BY <1>2 DEF After
<1>5. Sends(M, t, id, x["key"], After(t, id, x, "email")) /\ M # {}
  BY <1>2, <1>4, SendsNew
<1> HIDE DEF M
<1>6. Does(s, Decided(Update(Nothing, t, id, x), "resend", seen), M, {})
  BY <1>1 DEF M
<1>7. \A c \in DOMAIN x : <<t, c>> \in Slots => x[c] = None \/ (M # {} /\ x[c] = Code)
  BY <1>2, <1>5 DEF Slots
<1>8. (\A i : <<"end", i>> \notin seen) /\ (\A v : <<"code", v>> \notin seen) /\ <<t, id>> \in seen
  BY TheTables
<1> QED
  BY <1>2, <1>3, <1>4, <1>5, <1>6, <1>7, <1>8, UpdateDecides

LEMMA ResendDecides ==
  ASSUME RequestsInv, NEW s \in Session
  PROVE  /\ \A t \in Table : \A id \in DOMAIN db[t] : Resend(s, t, id) => Decides(s)
         /\ \A u \in AllUsers : ResendByApi(s, u) => Decides(s)
<1>1. ASSUME NEW t \in Table, NEW id \in DOMAIN db[t],
             BeginMailing(s, "resend", {<<t, id>>}, Unconfirmed(Nothing, t, id, Code),
                          db[t][id].email, Mailboxes(t, id, db[t][id].email))
      PROVE  Decides(s)
  <2> DEFINE r == Unconfirmed(Nothing, t, id, Code)
  <2>1. Draft(r)
    <3> DEFINE x == [confirmed |-> FALSE, key |-> Code]
    <3>1. Settable(t, x)
      BY TheTables DEF Settable
    <3> HIDE DEF x
    <3> QED
      BY <3>1, UpdateNothing, TheRows DEF Unconfirmed, x
  <2>2. PICK box \in Mailboxes(t, id, db[t][id].email) :
          Does(s, Decided(r, "resend", {<<t, id>>}), {MailTo(db[t][id].email, box)}, {})
    BY <1>1, <2>1, BeginDoes
  <2> QED
    BY <2>2, UnconfirmedDecides
<1> QED
  BY <1>1, TheTables DEF Resend, ResendByApi, AllUsers, UserKey

(* and a token.                                                            *)
LEMMA ResetDecides ==
  ASSUME RequestsInv, NEW s \in Session, NEW u \in AllUsers, RequestReset(s, u)
  PROVE  Decides(s)
<1> DEFINE x == [token |-> Code]
           M == {MailTo(db.user[u].email, db.user[u].email)}
           seen == {UserKey(u)}
<1>1. Tokened(u) = Update(Nothing, "user", u, x)
  BY DEF Tokened
<1>2. DOMAIN x = {"token"} /\ x["token"] = Code
  OBVIOUS
<1> HIDE DEF x
<1>3. Settable("user", x)
  BY <1>2, TheTables DEF Settable
<1>4. Draft(Update(Nothing, "user", u, x))
  BY <1>3, UpdateNothing, TheRows, TheTables
<1>5. BeginMailing(s, "request_reset", seen, Update(Nothing, "user", u, x), db.user[u].email, {db.user[u].email})
  BY <1>1 DEF RequestReset
<1>6. Does(s, Decided(Update(Nothing, "user", u, x), "request_reset", seen), M, {})
  BY <1>4, <1>5, BeginsMailing
<1>7. M # {}
  OBVIOUS
<1>8. /\ (\A i : <<"end", i>> \notin seen) /\ (\A v : <<"code", v>> \notin seen)
      /\ <<"user", u>> \in seen /\ "user" \in Table /\ u \in DOMAIN db["user"]
  BY TheTables DEF UserKey, AllUsers
<1> HIDE DEF M, seen
<1>9. \A c \in DOMAIN x : <<"user", c>> \in Slots => x[c] = None \/ (M # {} /\ x[c] = Code)
  BY <1>2, <1>7
<1>10. /\ After("user", u, x, "confirmed") = db["user"][u]["confirmed"]
       /\ After("user", u, x, "email") = db["user"][u]["email"]
  BY <1>2 DEF After
<1> QED
  BY <1>2, <1>3, <1>6, <1>8, <1>9, <1>10, UpdateDecides

(* A code that is answered                                                 *)
LEMMA AnswerDecides ==
  ASSUME RequestsInv, NEW s \in Session, NEW t \in Table, NEW id \in DOMAIN db[t], NEW mail \in mails,
         mail.code # None, NEW op, NEW c, <<t, c>> \in Slots, db[t][id][c] = mail.code,
         NEW x, DOMAIN x = {"confirmed", c}, x["confirmed"] = TRUE, x[c] = None,
         op \in ConfirmingOps => c = "key",
         BeginAnswering(s, op, mail, {<<t, id>>}, Update(Nothing, t, id, x))
  PROVE  Decides(s)
<1> DEFINE r    == Update(Nothing, t, id, x)
           seen == {<<t, id>>} \cup {<<"code", mail.code>>}
<1>1. c \in {"key", "token"} /\ (c = "token" => t = "user") /\ "confirmed" # c
  BY DEF Slots
<1>2. Settable(t, x)
  BY <1>1, TheTables DEF Settable
<1>3. Draft(r)
  BY <1>2, UpdateNothing, TheRows
<1>4. Does(s, Decided(r, op, seen), {}, {mail})
  BY <1>3, BeginDoes
<1>5. (\A i : <<"end", i>> \notin seen) /\ <<t, id>> \in seen
  BY TheTables
<1>6. ASSUME NEW v, <<"code", v>> \in seen
      PROVE  v \in Sent /\ \E d : Holds(t, id, d, v) /\ v # None /\ d \in DOMAIN x /\ x[d] = None
  <2>1. v = mail.code
    BY <1>6, TheTables
  <2> QED
    BY <2>1 DEF Sent, Holds
<1>7. \A d \in DOMAIN x : <<t, d>> \in Slots => x[d] = None \/ ({} # {} /\ x[d] = Code)
  BY <1>1 DEF Slots
<1>8. After(t, id, x, "email") = db[t][id]["email"]
  BY <1>1 DEF After
<1>9. "key" \in DOMAIN x => x["key"] = None
  BY <1>1
<1>10. "email" \notin DOMAIN x /\ ~ ("key" \in DOMAIN x /\ "token" \in DOMAIN x)
  BY <1>1
<1>11. op \in ConfirmingOps =>
         LET e == After(t, id, x, "email") IN
         \/ After(t, id, x, "confirmed") = FALSE
         \/ After(t, id, x, "confirmed") = db[t][id]["confirmed"] /\ db[t][id]["email"] = e
         \/ \E m \in {mail} : m.code = db[t][id]["key"] /\ db[t][id]["email"] = e
  BY <1>8
<1> HIDE DEF seen
<1> QED
  BY <1>2, <1>4, <1>5, <1>6, <1>7, <1>9, <1>10, <1>11, UpdateDecides

LEMMA AnswersDecide ==
  ASSUME RequestsInv, \A m \in mails : m.code # None, NEW s \in Session, NEW mail \in mails
  PROVE  /\ UseToken(s, mail) => Decides(s)
         /\ \A u \in AllUsers :
              db.user[u].key = mail.code /\ BeginAnswering(s, "confirm", mail, {UserKey(u)}, ConfirmedUser(u)) => Decides(s)
         /\ \A id \in Prms :
              LET r == Update(Nothing, "prm", id, [confirmed |-> TRUE, key |-> None])
              IN  db.prm[id].key = mail.code /\ BeginAnswering(s, "confirm", mail, {PrmKey(id)}, r) => Decides(s)
<1> DEFINE x == [confirmed |-> TRUE, key |-> None]
           y == [token |-> None, confirmed |-> TRUE]
<1>1. DOMAIN x = {"confirmed", "key"} /\ x["confirmed"] = TRUE /\ x["key"] = None
  OBVIOUS
<1>2. DOMAIN y = {"confirmed", "token"} /\ y["confirmed"] = TRUE /\ y["token"] = None
  OBVIOUS
<1> HIDE DEF x, y
<1>3. ASSUME NEW t \in Table, NEW id \in DOMAIN db[t], db[t][id]["key"] = mail.code,
             BeginAnswering(s, "confirm", mail, {<<t, id>>}, Update(Nothing, t, id, x))
      PROVE  Decides(s)
  <2>1. <<t, "key">> \in Slots
    BY TheTables DEF Slots
  <2> QED
    BY <1>1, <1>3, <2>1, AnswerDecides
<1>4. ASSUME UseToken(s, mail)
      PROVE  Decides(s)
  <2>1. PICK u \in AllUsers : /\ db["user"][u]["token"] = mail.code
                              /\ BeginAnswering(s, "use_token", mail, {UserKey(u)}, PasswordChanged(u))
    BY <1>4 DEF UseToken
  <2>2. BeginAnswering(s, "use_token", mail, {<<"user", u>>}, Update(Nothing, "user", u, y))
    BY <2>1 DEF PasswordChanged, UserKey, y
  <2>3. "use_token" \notin ConfirmingOps /\ <<"user", "token">> \in Slots /\ u \in DOMAIN db["user"]
    BY DEF ConfirmingOps, Slots, AllUsers
  <2> QED
    BY <1>2, <2>1, <2>2, <2>3, TheTables, AnswerDecides
<1>5. ASSUME NEW u \in AllUsers, db.user[u].key = mail.code,
             BeginAnswering(s, "confirm", mail, {UserKey(u)}, ConfirmedUser(u))
      PROVE  Decides(s)
  <2>1. BeginAnswering(s, "confirm", mail, {<<"user", u>>}, Update(Nothing, "user", u, x))
    BY <1>5 DEF ConfirmedUser, UserKey, x
  <2> QED
    BY <1>3, <1>5, <2>1, TheTables DEF AllUsers
<1>6. ASSUME NEW id \in Prms, db.prm[id].key = mail.code,
             BeginAnswering(s, "confirm", mail, {PrmKey(id)}, Update(Nothing, "prm", id, x))
      PROVE  Decides(s)
  BY <1>3, <1>6, TheTables DEF Prms, PrmKey
<1> QED
  BY <1>4, <1>5, <1>6 DEF x

(* The pages' edits of a request                                           *)
LEMMA EditsDecide ==
  ASSUME RequestsInv, NEW s \in Session, NEW id \in Prms, NEW a \in Application, EditRequest(s, id, a)
  PROVE  Decides(s)
<1> DEFINE x == [f \in Field \ {"dorm"} |-> a[f]]
           seen == {PrmKey(id), <<"was", id, db.prm[id].email>>}
<1>1. DOMAIN x = Field \ {"dorm"} /\ x["email"] = a.email
  BY DEF Field
<1>2. a.email \in Email
  BY DEF Email
<1> HIDE DEF x
<1>3. Settable("prm", x)
  BY <1>1, <1>2, TheTables DEF Settable
<1>4. Draft(Update(Nothing, "prm", id, x))
  BY <1>3, UpdateNothing, TheRows, TheTables
<1>5. Begin(s, "edit", seen, Update(Nothing, "prm", id, x))
  BY DEF EditRequest, x
<1>6. Does(s, Decided(Update(Nothing, "prm", id, x), "edit", seen), {}, {})
  BY <1>4, <1>5, BeginDoes
<1>7. /\ (\A i : <<"end", i>> \notin seen) /\ (\A v : <<"code", v>> \notin seen) /\ <<"prm", id>> \in seen
  BY DEF PrmKey
<1> HIDE DEF seen
<1>8. \A c \in DOMAIN x : <<"prm", c>> \notin Slots
  BY <1>1 DEF Slots, Field
<1>9. "key" \notin DOMAIN x /\ "edit" \notin ConfirmingOps /\ "prm" \in Table /\ id \in DOMAIN db["prm"]
  BY <1>1, TheTables DEF Field, ConfirmingOps, Prms
<1> QED
  BY <1>3, <1>6, <1>7, <1>8, <1>9, UpdateDecides

(* The account that a request becomes                                      *)
LEMMA FinishedIs ==
  ASSUME RequestsInv, NEW id \in Prms, NEW r, Draft(r), NEW x, OneRow(r, "prm", id, x),
         \A t \in Table : DOMAIN r.new[t] = {}, NEW ignore, NEW f \in Finished(r, id, ignore)
  PROVE  \E n \in NewIds("user") :
           /\ Draft(f) /\ f.set = r.set /\ f.fresh = r.fresh /\ id \in f.drop["prm"]
           /\ DOMAIN f.new["user"] = {n} /\ DOMAIN f.new["prm"] = {}
           /\ f.new["user"][n]["key"] = None /\ f.new["user"][n]["token"] = None
           /\ f.new["user"][n]["email"] = After("prm", id, x, "email")
           /\ f.new["user"][n]["confirmed"] = After("prm", id, x, "confirmed")
<1> DEFINE n == NewId("user")
           p == RowIn(r, "prm", id)
           d == Delete(r, "prm", {id})
<1>1. NewIds("user") # {} /\ f = Insert(d, "user", n, AccountOf(p))
  BY DEF Finished
<1>2. n \in NewIds("user") /\ n \in Ids["user"]
  BY <1>1, NewIdIs
<1>3. p["email"] = After("prm", id, x, "email") /\ p["confirmed"] = After("prm", id, x, "confirmed")
  <2>1. DOMAIN db["prm"][id] = Columns["prm"]
    BY TheRows, TheTables DEF Prms
  <2>2. "email" \in Columns["prm"] /\ "confirmed" \in Columns["prm"]
    BY TheTables DEF Field
  <2>3. p = IF id \in DOMAIN r.set["prm"] THEN Over(r.set["prm"][id], db["prm"][id]) ELSE db["prm"][id]
    BY TheTables DEF RowIn
  <2> HIDE DEF p
  <2>4. ASSUME NEW c \in Columns["prm"]
        PROVE  p[c] = After("prm", id, x, c)
    <3>1. CASE id \notin DOMAIN r.set["prm"]
      BY <3>1, <2>3 DEF After, OneRow, Sets
    <3>2. CASE id \in DOMAIN r.set["prm"]
      <4>1. p[c] = IF c \in DOMAIN r.set["prm"][id] THEN r.set["prm"][id][c] ELSE db["prm"][id][c]
        BY <3>2, <2>1, <2>3 DEF Over
      <4> QED
        BY <3>2, <4>1 DEF After, OneRow, Sets
    <3> QED
      BY <3>1, <3>2
  <2> QED
    BY <2>2, <2>4
<1> HIDE DEF n, p
<1>4. Draft(d) /\ d.new = r.new /\ d.set = r.set /\ d.fresh = r.fresh /\ id \in d.drop["prm"]
  BY DeleteDrops
<1> HIDE DEF d
<1>5. /\ DOMAIN AccountOf(p) = Columns["user"] /\ AccountOf(p)["key"] = None /\ AccountOf(p)["token"] = None
      /\ AccountOf(p)["email"] = p["email"] /\ AccountOf(p)["confirmed"] = p["confirmed"]
  BY TheTables DEF AccountOf
<1>6. DOMAIN d.new["user"] = {} /\ "user" \in Table
  BY <1>4, TheTables
<1>7. /\ Draft(f) /\ f.set = d.set /\ f.drop = d.drop /\ f.fresh = d.fresh
      /\ DOMAIN f.new["user"] = {n} /\ f.new["user"][n] = AccountOf(p)
      /\ \A o \in Table \ {"user"} : f.new[o] = d.new[o]
  BY <1>1, <1>2, <1>4, <1>5, <1>6, InsertAdds
<1> QED
  BY <1>2, <1>3, <1>4, <1>5, <1>7, TheTables

LEMMA FinishedDecides ==
  ASSUME RequestsInv, NEW s \in Session, NEW id \in Prms, NEW r, Draft(r), r.fresh = TRUE,
         NEW x, OneRow(r, "prm", id, x), DOMAIN x \subseteq {"confirmed", "key"},
         "key" \in DOMAIN x => x["key"] = None,
         \A t \in Table : DOMAIN r.new[t] = {}, NEW ignore, NEW f \in Finished(r, id, ignore),
         NEW op \in {"finish", "confirm"}, op = "confirm" => id \in DOMAIN r.set["prm"],
         NEW seen, NEW A, Does(s, Decided(f, op, seen), {}, A),
         <<"prm", id>> \in seen, \A i : <<"end", i>> \in seen => i = id,
         \A v : <<"code", v>> \in seen =>
           v \in Sent /\ \E c : Holds("prm", id, c, v) /\ v # None /\ c \in DOMAIN x,
         "confirmed" \in DOMAIN x => \E m \in A : m.code = db["prm"][id]["key"]
  PROVE  Decides(s)
<1> DEFINE w == Decided(f, op, seen)
           e == db["prm"][id]["email"]
<1>1. PICK n \in NewIds("user") :
        /\ Draft(f) /\ f.set = r.set /\ f.fresh = r.fresh /\ id \in f.drop["prm"]
        /\ DOMAIN f.new["user"] = {n} /\ DOMAIN f.new["prm"] = {}
        /\ f.new["user"][n]["key"] = None /\ f.new["user"][n]["token"] = None
        /\ f.new["user"][n]["email"] = After("prm", id, x, "email")
        /\ f.new["user"][n]["confirmed"] = After("prm", id, x, "confirmed")
  BY FinishedIs
<1>2. /\ Draft(w) /\ w.new = f.new /\ w.set = r.set /\ w.drop = f.drop
      /\ w.op = op /\ w.seen = seen /\ w.fresh = TRUE
  BY <1>1, DecidedIs
<1>3. OneRow(w, "prm", id, x)
  BY <1>2 DEF OneRow, Sets
<1>4. Does(s, w, {}, A)
  OBVIOUS
<1> HIDE DEF w
<1>5. Ending(w)
  BY <1>1, <1>2 DEF Ending
<1>6. \A t, i, c, v : Gives(w, t, i, c, v) => v = None
  <2> SUFFICES ASSUME NEW t, NEW i, NEW c, NEW v, Gives(w, t, i, c, v) PROVE v = None
    OBVIOUS
  <2>1. t \in Table /\ c \in {"key", "token"}
    BY DEF Gives, Slots, Table
  <2>2. CASE i \in DOMAIN w.new[t] /\ w.new[t][i][c] = v
    BY <1>1, <1>2, <2>1, <2>2, TheTables
  <2>3. CASE Sets(w, t, i, c) /\ w.set[t][i][c] = v
    <3>1. t = "prm" /\ i = id
      BY <1>3, <2>1, <2>3 DEF OneRow, Sets
    <3>2. c \in DOMAIN x /\ x[c] = v
      BY <1>3, <2>3, <3>1 DEF OneRow
    <3> QED
      BY <2>1, <3>2
  <2> QED
    BY <2>2, <2>3 DEF Gives
<1>7. Coding(w, {})
  BY <1>6 DEF Coding
<1>8. Answering(w)
  <2> SUFFICES ASSUME NEW v, <<"code", v>> \in w.seen
               PROVE  /\ v \in Sent
                      /\ \E t, i, c : Holds(t, i, c, v) /\ <<t, i>> \in w.seen /\ Sets(w, t, i, c) /\ w.set[t][i][c] = None
    BY DEF Answering
  <2>1. PICK c : v \in Sent /\ Holds("prm", id, c, v) /\ v # None /\ c \in DOMAIN x
    BY <1>2
  <2>2. c = "key" /\ x[c] = None
    BY <2>1 DEF Holds, Slots
  <2>3. Sets(w, "prm", id, c) /\ w.set["prm"][id][c] = None
    BY <1>3, <2>1, <2>2 DEF OneRow, Holds
  <2> QED
    BY <1>2, <2>1, <2>3
<1>9. \A t \in Table : \A i \in DOMAIN w.set[t] : t = "prm" /\ i = id
  BY <1>3 DEF OneRow
<1>10. \A c : Value(w, "prm", id, c) = After("prm", id, x, c)
  <2>1. DOMAIN w.new["prm"] = {}
    BY <1>1, <1>2
  <2>2. "prm" \in Table
    BY TheTables
  <2>3. ASSUME NEW c
        PROVE  Value(w, "prm", id, c) = After("prm", id, x, c)
    BY <1>3, <2>1, <2>2, ValueAfter
  <2> QED
    BY <2>3
<1>11. Mailing(w, {})
  <2>1. \A t \in Table : \A i \in DOMAIN w.new[t] : w.new[t][i]["key"] = None
    BY <1>1, <1>2, TheTables
  <2>2. ~ Sets(w, "prm", id, "email") /\ (Sets(w, "prm", id, "key") => Value(w, "prm", id, "key") = None)
    BY <1>3, <1>10 DEF OneRow, After
  <2>3. <<"prm", id>> \in w.seen /\ id \in DOMAIN db["prm"] \ DOMAIN w.new["prm"]
    BY <1>1, <1>2 DEF Prms
  <2> QED
    BY <1>9, <2>1, <2>2, <2>3 DEF Mailing
<1>12. After("prm", id, x, "email") = e
  BY DEF After
<1>13. \A t, i : After("prm", id, x, "confirmed") = db["prm"][id]["confirmed"] \/ ProvedBy(w, A, t, i, e)
  BY <1>2, TheTables DEF After, ProvedBy, Prms
<1>14. Confirming(w, A)
  <2>1. \A t, i : After("prm", id, x, "confirmed") => Taken(w, e) \/ ProvedBy(w, A, t, i, e)
    BY <1>1, <1>2, <1>13 DEF Taken, Lends
  <2>2. \A t \in Table : \A i \in DOMAIN w.new[t] :
          /\ w.new[t][i]["email"] = e
          /\ w.new[t][i]["confirmed"] = After("prm", id, x, "confirmed")
    BY <1>1, <1>2, <1>12, TheTables
  <2> QED
    BY <1>9, <1>10, <1>12, <1>13, <2>1, <2>2 DEF Confirming
<1>15. \A t \in Table : DOMAIN w.new[t] \subseteq NewIds(t)
  BY <1>1, <1>2, TheTables
<1> QED
  BY <1>2, <1>4, <1>5, <1>7, <1>8, <1>11, <1>14, <1>15 DEF Decides, Good

LEMMA FinishDecides ==
  ASSUME RequestsInv, NEW s \in Session, NEW id \in Prms, Finish(s, id)
  PROVE  Decides(s)
<1> DEFINE seen == {PrmKey(id), <<"end", id>>}
<1>1. PICK f \in Finished(Nothing, id, TRUE) : Begin(s, "finish", seen, f)
  BY DEF Finish
<1>2. Draft(Nothing) /\ Nothing.fresh = TRUE /\ \A t \in Table : DOMAIN Nothing.new[t] = {}
  BY NothingIs, TheRows
<1>3. OneRow(Nothing, "prm", id, << >>)
  BY NothingSets, TheRows, NoRows, TheTables
<1>4. Draft(f)
  BY <1>2, <1>3, FinishedIs
<1>5. Does(s, Decided(f, "finish", seen), {}, {})
  BY <1>1, <1>4, BeginDoes
<1>6. /\ <<"prm", id>> \in seen /\ (\A i : <<"end", i>> \in seen => i = id) /\ (\A v : <<"code", v>> \notin seen)
  BY DEF PrmKey
<1> HIDE DEF seen
<1> QED
  BY <1>1, <1>2, <1>3, <1>5, <1>6, NoRows, FinishedDecides

(* A confirmation that is all a request waits for                          *)
LEMMA ConfirmDecides ==
  ASSUME RequestsInv, \A m \in mails : m.code # None, NEW s \in Session, NEW mail \in mails, Confirm(s, mail)
  PROVE  Decides(s)
<1> DEFINE x == [confirmed |-> TRUE, key |-> None]
<1>1. DOMAIN x = {"confirmed", "key"} /\ x["confirmed"] = TRUE /\ x["key"] = None
  OBVIOUS
<1> HIDE DEF x
<1>2. ASSUME NEW u \in AllUsers, db.user[u].key = mail.code,
             BeginAnswering(s, "confirm", mail, {UserKey(u)}, ConfirmedUser(u))
      PROVE  Decides(s)
  BY <1>2, AnswersDecide
<1>3. ASSUME NEW id \in Prms, db.prm[id].key = mail.code, ~ db.prm[id].confirmed,
             NEW c \in ConfirmedRequest(id),
             BeginAnswering(s, "confirm", mail, {PrmKey(id)} \cup c[2], c[1])
      PROVE  Decides(s)
  <2> DEFINE r == Update(Nothing, "prm", id, x)
  <2>1. \/ c[1] = r /\ c[2] = {}
        \/ c[1] \in Finished(r, id, FALSE) /\ c[2] = {<<"end", id>>}
    <3> DEFINE p == db.prm[id]
               b == p.person # None /\ p.room # None /\ ~ p.dorm /\ p.adult
               S == {<<f, {<<"end", id>>}>> : f \in Finished(r, id, FALSE)}
               T == {<<r, {}>>}
    <3>2. ConfirmedRequest(id) = IF b THEN S ELSE T
      BY Zenon DEF ConfirmedRequest, x
    <3>1. c \in S \/ c \in T
      <4> HIDE DEF b, S, T
      <4> QED
        BY <3>2, <1>3
    <3>3. CASE c \in T
      <4>1. c = <<r, {}>>
        BY <3>3
      <4> HIDE DEF r
      <4> QED
        BY <4>1
    <3>4. CASE c \in S
      <4>1. PICK f \in Finished(r, id, FALSE) : c = <<f, {<<"end", id>>}>>
        BY <3>4
      <4> HIDE DEF r
      <4> QED
        BY <4>1
    <3> QED
      BY <3>1, <3>3, <3>4
  <2>2. CASE c[1] = r /\ c[2] = {}
    <3>1. {PrmKey(id)} \cup c[2] = {PrmKey(id)}
      BY <2>2
    <3>2. BeginAnswering(s, "confirm", mail, {PrmKey(id)}, r)
      BY <1>3, <2>2, <3>1
    <3> QED
      BY <1>3, <3>2, AnswersDecide DEF x
  <2>3. CASE c[1] \in Finished(r, id, FALSE) /\ c[2] = {<<"end", id>>}
    <3> DEFINE f == c[1]
               seen == ({PrmKey(id)} \cup c[2]) \cup {<<"code", mail.code>>}
    <3>1. Settable("prm", x)
      BY <1>1, TheTables DEF Settable
    <3>2. /\ Draft(Nothing) /\ Nothing.fresh = TRUE /\ DOMAIN db = Table
          /\ \A t \in Table : DOMAIN Nothing.new[t] = {}
      BY NothingIs, TheRows
    <3>3. Draft(r) /\ OneRow(r, "prm", id, x) /\ Same(r, Nothing)
      BY <3>1, <3>2, UpdateNothing, TheTables
    <3> HIDE DEF r
    <3>4. r.fresh = TRUE /\ \A t \in Table : DOMAIN r.new[t] = {}
      BY <3>2, <3>3 DEF Same
    <3>5. f \in Finished(r, id, FALSE)
      BY <2>3
    <3>6. Draft(f)
      BY <3>3, <3>4, <3>5, FinishedIs
    <3>7. Does(s, Decided(f, "confirm", seen), {}, {mail})
      BY <1>3, <3>6, BeginDoes
    <3>8. id \in DOMAIN r.set["prm"]
      <4>1. Sets(r, "prm", id, "confirmed")
        BY <1>1, <1>3, <3>3 DEF OneRow
      <4> QED
        BY <4>1 DEF Sets
    <3>9. <<"prm", id>> \in seen /\ \A i : <<"end", i>> \in seen => i = id
      BY <2>3 DEF PrmKey
    <3>10. ASSUME NEW v, <<"code", v>> \in seen
           PROVE  v \in Sent /\ \E d : Holds("prm", id, d, v) /\ v # None /\ d \in DOMAIN x
      <4>1. v = mail.code
        BY <2>3, <3>10 DEF PrmKey
      <4>2. Holds("prm", id, "key", v)
        BY <1>3, <4>1 DEF Holds, Slots, Prms
      <4> QED
        BY <1>1, <4>1, <4>2 DEF Sent
    <3>11. \E m \in {mail} : m.code = db["prm"][id]["key"]
      BY <1>3
    <3> HIDE DEF seen, f
    <3> QED
      BY <1>1, <3>3, <3>4, <3>5, <3>7, <3>8, <3>9, <3>10, <3>11, FinishedDecides
  <2> QED
    BY <2>1, <2>2, <2>3
<1> QED
  BY <1>2, <1>3 DEF Confirm

----------------------------------------------------------------------------
(* What is written of one row, and deleted *)
(* What a request that writes one row x, and deletes the requests it says  *)
(* it ends, may write of the key and the address of the row.               *)
EndsDropped(r, seen) ==
  \A i : <<"end", i>> \in seen => i \in Prms /\ <<"prm", i>> \in seen /\ i \in r.drop["prm"]

KeyFits(t, id, x, M) ==
  /\ \A c \in DOMAIN x : <<t, c>> \in Slots => x[c] = None \/ (M # {} /\ x[c] = Code)
  /\ ~ ("key" \in DOMAIN x /\ "token" \in DOMAIN x)
  /\ "email" \in DOMAIN x => "key" \in DOMAIN x
  /\ "key" \in DOMAIN x => \/ x["key"] = None
                           \/ Sends(M, t, id, x["key"], After(t, id, x, "email"))

StaysProven(r, seen, t, id, x) ==
  LET e == After(t, id, x, "email") IN
  \/ After(t, id, x, "confirmed") = FALSE
  \/ After(t, id, x, "confirmed") = db[t][id]["confirmed"] /\ db[t][id]["email"] = e
  \/ \E i \in r.drop["prm"] :
       <<"prm", i>> \in seen /\ i \in Prms /\ Lends(i, e)

LEMMA RowDecides ==
  ASSUME RequestsInv, NEW s \in Session, NEW r, Draft(r), r.fresh = TRUE, \A o \in Table : DOMAIN r.new[o] = {},
         NEW t \in Table, NEW id \in DOMAIN db[t], NEW x, OneRow(r, t, id, x),
         NEW op, op \notin {"confirm", "edit"}, NEW seen, <<t, id>> \in seen, \A v : <<"code", v>> \notin seen,
         EndsDropped(r, seen), NEW M, Does(s, Decided(r, op, seen), M, {}),
         KeyFits(t, id, x, M), StaysProven(r, seen, t, id, x)
  PROVE  Decides(s)
<1> DEFINE w == Decided(r, op, seen)
<1>1. /\ Draft(w) /\ OneRow(w, t, id, x) /\ w.new = r.new /\ w.drop = r.drop
      /\ w.op = op /\ w.seen = seen /\ w.fresh = r.fresh
  BY DecidedIs
<1>2. Does(s, w, M, {})
  OBVIOUS
<1> HIDE DEF w
<1>3. w.fresh = TRUE /\ <<t, id>> \in w.seen /\ \A o \in Table : DOMAIN w.new[o] = {}
  BY <1>1
<1>4. Ending(w)
  BY <1>1 DEF Ending, EndsDropped
<1>5. Answering(w)
  BY <1>1, NoCode
<1>6. LET e == After(t, id, x, "email") IN
      \/ After(t, id, x, "confirmed") = FALSE
      \/ After(t, id, x, "confirmed") = db[t][id]["confirmed"] /\ db[t][id]["email"] = e
      \/ Taken(w, e) \/ ProvedBy(w, {}, t, id, e)
  BY <1>1 DEF Taken, StaysProven
<1>7. w.op # "edit" =>
        /\ "email" \in DOMAIN x => "key" \in DOMAIN x
        /\ "key" \in DOMAIN x => \/ x["key"] = None
                                 \/ Sends(M, t, id, x["key"], After(t, id, x, "email"))
  BY DEF KeyFits
<1>8. w.op \in ConfirmingOps =>
        LET e == After(t, id, x, "email") IN
        \/ After(t, id, x, "confirmed") = FALSE
        \/ After(t, id, x, "confirmed") = db[t][id]["confirmed"] /\ db[t][id]["email"] = e
        \/ Taken(w, e) \/ ProvedBy(w, {}, t, id, e)
  BY <1>6
<1>9. /\ Draft(w) /\ OneRow(w, t, id, x)
      /\ \A c \in DOMAIN x : <<t, c>> \in Slots => x[c] = None \/ (M # {} /\ x[c] = Code)
      /\ ~ ("key" \in DOMAIN x /\ "token" \in DOMAIN x)
  BY <1>1 DEF KeyFits
<1>10. Good(w, M, {})
  BY <1>3, <1>4, <1>5, <1>7, <1>8, <1>9, OneRowGood
<1> QED
  BY <1>2, <1>10 DEF Decides

(* Nothing is left of a request that is denied.                            *)
LEMMA DenyDecides ==
  ASSUME RequestsInv, NEW s \in Session, NEW id \in Prms, Deny(s, id)
  PROVE  Decides(s)
<1> DEFINE r    == Delete(Nothing, "prm", {id})
           seen == {PrmKey(id), <<"end", id>>}
           x    == << >>
<1>1. /\ Draft(Nothing) /\ Nothing.fresh = TRUE /\ DOMAIN db = Table
      /\ \A t \in Table : DOMAIN Nothing.new[t] = {}
  BY NothingIs, TheRows
<1>2. Draft(r) /\ r.new = Nothing.new /\ r.set = Nothing.set /\ r.fresh = Nothing.fresh /\ id \in r.drop["prm"]
  BY <1>1, DeleteDrops
<1>3. Begin(s, "deny", seen, r)
  BY DEF Deny, Denied
<1> HIDE DEF r
<1>4. Does(s, Decided(r, "deny", seen), {}, {})
  BY <1>2, <1>3, BeginDoes
<1>5. DOMAIN x = {}
  BY NoRows
<1> HIDE DEF x
<1>6. OneRow(r, "prm", id, x)
  <2>1. OneRow(Nothing, "prm", id, x)
    BY <1>1, <1>5, NothingSets, TheTables
  <2> QED
    BY <1>2, <2>1 DEF OneRow, Sets
<1>7. /\ <<"prm", id>> \in seen /\ (\A v : <<"code", v>> \notin seen)
      /\ \A i : <<"end", i>> \in seen => i = id
  BY DEF PrmKey
<1>8. /\ After("prm", id, x, "confirmed") = db["prm"][id]["confirmed"]
      /\ db["prm"][id]["email"] = After("prm", id, x, "email")
  BY <1>5 DEF After
<1>9. /\ r.fresh = TRUE /\ \A o \in Table : DOMAIN r.new[o] = {}
      /\ "prm" \in Table /\ id \in DOMAIN db["prm"]
  BY <1>1, <1>2, TheTables DEF Prms
<1>10. EndsDropped(r, seen)
  BY <1>2, <1>7 DEF EndsDropped
<1>11. "deny" \notin {"confirm", "edit"}
  OBVIOUS
<1> HIDE DEF seen
<1>12. KeyFits("prm", id, x, {}) /\ StaysProven(r, seen, "prm", id, x)
  BY <1>5, <1>8 DEF KeyFits, StaysProven
<1> QED
  BY <1>2, <1>4, <1>6, <1>7, <1>9, <1>10, <1>11, <1>12, RowDecides

----------------------------------------------------------------------------
(* What is written of an account when its address is edited: a mail is     *)
(* sent to e, or e is taken over                                           *)
EmailFits(u, x, sent, e, sure) ==
  /\ "token" \notin DOMAIN x /\ ("email" \in DOMAIN x => "key" \in DOMAIN x)
  /\ "key" \in DOMAIN x => \/ x["key"] = None
                           \/ sent /\ x["key"] = Code /\ After("user", u, x, "email") = e
  /\ LET a == After("user", u, x, "email") IN
     \/ After("user", u, x, "confirmed") = FALSE
     \/ After("user", u, x, "confirmed") = db["user"][u]["confirmed"] /\ db["user"][u]["email"] = a
     \/ sure /\ a = e

LEMMA MoreSets ==
  ASSUME NEW r, Draft(r), NEW t \in Table, NEW id, NEW x, OneRow(r, t, id, x),
         NEW fields, Settable(t, fields), DOMAIN fields \cap DOMAIN x = {}
  PROVE  LET q == Update(r, t, id, fields)
         IN  Draft(q) /\ OneRow(q, t, id, Over(fields, x)) /\ Same(q, r)
<1> DEFINE y == Over(fields, x)
<1>1. /\ DOMAIN y = DOMAIN fields \cup DOMAIN x
      /\ \A c \in DOMAIN fields : y[c] = fields[c]
      /\ \A c \in DOMAIN x \ DOMAIN fields : y[c] = x[c]
  BY OverFacts
<1> HIDE DEF y
<1>2. \A c \in DOMAIN x : y[c] = x[c]
  BY <1>1
<1>3. LET q == Update(r, t, id, fields) IN Draft(q) /\ OneRow(q, t, id, y) /\ Same(q, r)
  BY <1>1, <1>2, UpdateSets
<1> QED
  BY <1>3 DEF y

Personal == {"name", "person", "room"}

LEMMA FitsStill ==
  ASSUME NEW u, NEW x, NEW sent, NEW e, NEW sure, NEW fields, DOMAIN fields \subseteq Personal
  PROVE  /\ EmailFits(u, x, sent, e, sure) => EmailFits(u, Over(fields, x), sent, e, sure)
         /\ EmailFits(u, fields, sent, e, sure)
<1> DEFINE y == Over(fields, x)
<1>1. /\ DOMAIN y = DOMAIN fields \cup DOMAIN x
      /\ \A c \in DOMAIN x \ DOMAIN fields : y[c] = x[c]
  BY OverFacts
<1> HIDE DEF y
<1>2. \A c \in {"email", "confirmed", "key", "token"} :
        c \notin DOMAIN fields /\ (c \in DOMAIN y <=> c \in DOMAIN x) /\ (c \in DOMAIN x => y[c] = x[c])
  BY <1>1 DEF Personal
<1>3. \A c \in {"email", "confirmed", "key"} :
        After("user", u, y, c) = After("user", u, x, c) /\ After("user", u, fields, c) = db["user"][u][c]
  BY <1>2 DEF After
<1>4. EmailFits(u, x, sent, e, sure) => EmailFits(u, y, sent, e, sure)
  BY <1>2, <1>3 DEF EmailFits
<1>5. EmailFits(u, fields, sent, e, sure)
  BY <1>2, <1>3 DEF EmailFits
<1> QED
  BY <1>4, <1>5 DEF y


LEMMA Pairs ==
  ASSUME NEW a, NEW v
  PROVE  <<a, v>>[1] = a /\ <<a, v>>[2] = v
OBVIOUS

LEMMA EmailEdits ==
  ASSUME NEW r, Draft(r), NEW u, NEW x, OneRow(r, "user", u, x), DOMAIN x \subseteq Personal,
         NEW entered, NEW e, e = Lowered(entered), NEW b, b => e # None
  PROVE  LET q == EditedEmail(r, u, entered, b)
         IN  \E y : /\ Draft(q[1]) /\ OneRow(q[1], "user", u, y) /\ Same(q[1], r)
                    /\ DOMAIN y \subseteq DOMAIN x \cup {"email", "confirmed", "key"}
                    /\ EmailFits(u, y, q[2], e, b) /\ q[2] \in BOOLEAN
<1> DEFINE c    == [confirmed |-> TRUE, key |-> None]
           d    == [confirmed |-> FALSE, key |-> None]
           f    == [confirmed |-> FALSE, key |-> Code]
           m    == [email |-> e]
           q    == EditedEmail(r, u, entered, b)
           sure == Update(r, "user", u, c)
           base == IF b THEN sure ELSE r
           new  == Update(base, "user", u, m)
           none == Update(new, "user", u, d)
           sent == Update(new, "user", u, f)
           xc   == Over(c, x)
           xb   == IF b THEN xc ELSE x
           xm   == Over(m, xb)
           xd   == Over(d, xm)
           xf   == Over(f, xm)
<1>1. /\ e = db.user[u].email => q = <<base, FALSE>>
      /\ e # db.user[u].email /\ e = None => q = <<none, FALSE>>
      /\ e # db.user[u].email /\ e # None /\ b => q = <<new, FALSE>>
      /\ e # db.user[u].email /\ e # None /\ ~ b => q = <<sent, TRUE>>
  BY DEF EditedEmail, Unconfirmed
<1>2. /\ DOMAIN c = {"confirmed", "key"} /\ c["confirmed"] = TRUE /\ c["key"] = None
      /\ DOMAIN d = {"confirmed", "key"} /\ d["confirmed"] = FALSE /\ d["key"] = None
      /\ DOMAIN f = {"confirmed", "key"} /\ f["confirmed"] = FALSE /\ f["key"] = Code
      /\ DOMAIN m = {"email"} /\ m["email"] = e
  OBVIOUS
<1> HIDE DEF c, d, f, m, q
<1>3. Settable("user", c) /\ Settable("user", d) /\ Settable("user", f) /\ Settable("user", m) /\ "user" \in Table
  BY <1>2, TheTables DEF Settable
<1>4. /\ DOMAIN xc = DOMAIN x \cup {"confirmed", "key"} /\ xc["confirmed"] = TRUE /\ xc["key"] = None
  BY <1>2 DEF Over
<1>5. Draft(sure) /\ OneRow(sure, "user", u, xc) /\ Same(sure, r)
  BY <1>2, <1>3, MoreSets DEF Personal
<1> HIDE DEF sure, xc
<1>6. Draft(base) /\ OneRow(base, "user", u, xb) /\ Same(base, r)
  BY <1>5 DEF Same
<1>7. /\ b => DOMAIN xb = DOMAIN x \cup {"confirmed", "key"} /\ xb["confirmed"] = TRUE /\ xb["key"] = None
      /\ ~ b => xb = x
  BY <1>4
<1> HIDE DEF base, xb
<1>8. Draft(new) /\ OneRow(new, "user", u, xm) /\ Same(new, r)
  <2>1. DOMAIN m \cap DOMAIN xb = {}
    BY <1>2, <1>7 DEF Personal
  <2>2. Draft(new) /\ OneRow(new, "user", u, xm) /\ Same(new, base)
    BY <1>3, <1>6, <2>1, MoreSets
  <2> QED
    BY <1>6, <2>2 DEF Same
<1>9. /\ DOMAIN xm = DOMAIN xb \cup {"email"} /\ xm["email"] = e
      /\ \A k \in DOMAIN xb \ {"email"} : xm[k] = xb[k]
  BY <1>2 DEF Over
<1> HIDE DEF new, xm
<1>10. ASSUME ~ b
       PROVE  /\ Draft(none) /\ OneRow(none, "user", u, xd) /\ Same(none, r)
              /\ Draft(sent) /\ OneRow(sent, "user", u, xf) /\ Same(sent, r)
  <2>1. DOMAIN d \cap DOMAIN xm = {} /\ DOMAIN f \cap DOMAIN xm = {}
    BY <1>2, <1>7, <1>9, <1>10 DEF Personal
  <2>2. Draft(none) /\ OneRow(none, "user", u, xd) /\ Same(none, new)
    BY <1>3, <1>8, <2>1, MoreSets
  <2>3. Draft(sent) /\ OneRow(sent, "user", u, xf) /\ Same(sent, new)
    BY <1>3, <1>8, <2>1, MoreSets
  <2> QED
    BY <1>8, <2>2, <2>3 DEF Same
<1>11. /\ DOMAIN xd = DOMAIN xm \cup {"confirmed", "key"} /\ xd["confirmed"] = FALSE /\ xd["key"] = None
       /\ DOMAIN xf = DOMAIN xm \cup {"confirmed", "key"} /\ xf["confirmed"] = FALSE /\ xf["key"] = Code
       /\ xf["email"] = e
  BY <1>2, <1>9 DEF Over
<1> HIDE DEF none, sent, xd, xf
<1>12. /\ e = db["user"][u]["email"] => EmailFits(u, xb, FALSE, e, b)
       /\ ~ b => EmailFits(u, xd, FALSE, e, b) /\ EmailFits(u, xf, TRUE, e, b)
       /\ b => EmailFits(u, xm, FALSE, e, b)
  <2>1. ASSUME e = db["user"][u]["email"]
        PROVE  EmailFits(u, xb, FALSE, e, b)
    <3>1. "email" \notin DOMAIN xb /\ "token" \notin DOMAIN xb /\ ("key" \in DOMAIN xb => xb["key"] = None)
      BY <1>7 DEF Personal
    <3>2. After("user", u, xb, "email") = e
      BY <2>1, <3>1 DEF After
    <3>3. b \/ After("user", u, xb, "confirmed") = db["user"][u]["confirmed"]
      BY <1>7 DEF After, Personal
    <3> QED
      BY <2>1, <3>1, <3>2, <3>3 DEF EmailFits
  <2>2. ASSUME ~ b
        PROVE  EmailFits(u, xd, FALSE, e, b) /\ EmailFits(u, xf, TRUE, e, b)
    <3>1. "token" \notin DOMAIN xd /\ "token" \notin DOMAIN xf
      BY <1>7, <1>9, <1>11, <2>2 DEF Personal
    <3>2. /\ After("user", u, xd, "confirmed") = FALSE /\ After("user", u, xf, "confirmed") = FALSE
          /\ After("user", u, xf, "email") = e
      BY <1>9, <1>11 DEF After
    <3> QED
      BY <1>11, <3>1, <3>2 DEF EmailFits
  <2>3. ASSUME b
        PROVE  EmailFits(u, xm, FALSE, e, b)
    <3>1. "token" \notin DOMAIN xm /\ "key" \in DOMAIN xm /\ xm["key"] = None
      BY <1>7, <1>9, <2>3 DEF Personal
    <3>2. After("user", u, xm, "email") = e
      BY <1>9 DEF After
    <3> QED
      BY <2>3, <3>1, <3>2 DEF EmailFits
  <2> QED
    BY <2>1, <2>2, <2>3
<1>13. /\ DOMAIN xb \subseteq DOMAIN x \cup {"email", "confirmed", "key"}
       /\ DOMAIN xm \subseteq DOMAIN x \cup {"email", "confirmed", "key"}
       /\ DOMAIN xd \subseteq DOMAIN x \cup {"email", "confirmed", "key"}
       /\ DOMAIN xf \subseteq DOMAIN x \cup {"email", "confirmed", "key"}
  BY <1>7, <1>9, <1>11
<1> DEFINE Fit(y) == /\ Draft(q[1]) /\ OneRow(q[1], "user", u, y) /\ Same(q[1], r)
                     /\ DOMAIN y \subseteq DOMAIN x \cup {"email", "confirmed", "key"}
                     /\ EmailFits(u, y, q[2], e, b) /\ q[2] \in BOOLEAN
<1>14. ASSUME e = db.user[u].email
       PROVE  \E y : Fit(y)
  <2>1. q[1] = base /\ q[2] = FALSE
    <3>1. q = <<base, FALSE>>
      BY <1>1, <1>14
    <3> QED
      BY <3>1, Pairs
  <2>2. Fit(xb)
    BY <1>6, <1>12, <1>13, <1>14, <2>1
  <2> QED
    BY <2>2
<1>15. ASSUME e # db.user[u].email /\ e = None
       PROVE  \E y : Fit(y)
  <2>1. q[1] = none /\ q[2] = FALSE /\ ~ b
    <3>1. q = <<none, FALSE>>
      BY <1>1, <1>15
    <3> QED
      BY <3>1, Pairs, <1>15
  <2>2. Fit(xd)
    BY <1>10, <1>12, <1>13, <2>1
  <2> QED
    BY <2>2
<1>16. ASSUME e # db.user[u].email /\ e # None /\ b
       PROVE  \E y : Fit(y)
  <2>1. q[1] = new /\ q[2] = FALSE
    <3>1. q = <<new, FALSE>>
      BY <1>1, <1>16
    <3> QED
      BY <3>1, Pairs
  <2>2. Fit(xm)
    BY <1>8, <1>12, <1>13, <1>16, <2>1
  <2> QED
    BY <2>2
<1>17. ASSUME e # db.user[u].email /\ e # None /\ ~ b
       PROVE  \E y : Fit(y)
  <2>1. q[1] = sent /\ q[2] = TRUE
    <3>1. q = <<sent, TRUE>>
      BY <1>1, <1>17
    <3> QED
      BY <3>1, Pairs
  <2>2. Fit(xf)
    BY <1>10, <1>12, <1>13, <1>17, <2>1
  <2> QED
    BY <2>2
<1>18. \E y : Fit(y)
  <2> HIDE DEF Fit
  <2> QED
    BY <1>14, <1>15, <1>16, <1>17
<1> QED
  BY <1>18 DEF q


LEMMA FitDecides ==
  ASSUME RequestsInv, NEW s \in Session, NEW r, Draft(r), r.fresh = TRUE, \A o \in Table : DOMAIN r.new[o] = {},
         NEW u \in AllUsers, NEW y, OneRow(r, "user", u, y), NEW sent \in BOOLEAN, NEW e, NEW sure,
         EmailFits(u, y, sent, e, sure),
         NEW op, op \notin {"confirm", "edit"}, NEW seen, UserKey(u) \in seen, \A v : <<"code", v>> \notin seen,
         \A i : <<"end", i>> \in seen => i \in Prms /\ <<"prm", i>> \in seen /\ i \in r.drop["prm"],
         sure => \E i \in r.drop["prm"] :
                   <<"prm", i>> \in seen /\ i \in Prms /\ Lends(i, e),
         IF sent THEN BeginMailing(s, op, seen, r, e, Mailboxes("user", u, e)) ELSE Begin(s, op, seen, r)
  PROVE  Decides(s)
<1>1. PICK M : Does(s, Decided(r, op, seen), M, {}) /\ (sent => M # {} /\ Sends(M, "user", u, Code, e))
  <2>1. CASE sent
    <3>1. PICK box \in Mailboxes("user", u, e) : Does(s, Decided(r, op, seen), {MailTo(e, box)}, {})
      BY <2>1, BeginDoes
    <3>2. Sends({MailTo(e, box)}, "user", u, Code, e)
      BY SendsNew
    <3> QED
      BY <3>1, <3>2
  <2>2. CASE ~ sent
    BY <2>2, BeginDoes
  <2> QED
    BY <2>1, <2>2
<1>2. KeyFits("user", u, y, M)
  <2>1. \A c : <<"user", c>> \in Slots => c \in {"key", "token"}
    BY DEF Slots
  <2>2. \A c \in DOMAIN y : <<"user", c>> \in Slots => y[c] = None \/ (M # {} /\ y[c] = Code)
    BY <1>1, <2>1 DEF EmailFits
  <2>3. "key" \in DOMAIN y => \/ y["key"] = None
                              \/ Sends(M, "user", u, y["key"], After("user", u, y, "email"))
    BY <1>1 DEF EmailFits
  <2>4. ~ ("key" \in DOMAIN y /\ "token" \in DOMAIN y) /\ ("email" \in DOMAIN y => "key" \in DOMAIN y)
    BY DEF EmailFits
  <2> QED
    BY <2>2, <2>3, <2>4 DEF KeyFits
<1>3. StaysProven(r, seen, "user", u, y)
  BY DEF EmailFits, StaysProven
<1>4. EndsDropped(r, seen)
  BY DEF EndsDropped
<1>5. <<"user", u>> \in seen
  BY DEF UserKey
<1>6. "user" \in Table /\ u \in DOMAIN db["user"]
  BY TheTables DEF AllUsers
<1> QED
  BY <1>1, <1>2, <1>3, <1>4, <1>5, <1>6, RowDecides

(* The edits of an account                                                 *)
LEMMA ChangeDecides ==
  ASSUME RequestsInv, NEW s \in Session, NEW u \in AllUsers, NEW entered, ChangeEmail(s, u, entered)
  PROVE  Decides(s)
<1> DEFINE q == EditedEmail(Nothing, u, entered, FALSE)
           e == Lowered(entered)
           x == << >>
           seen == {UserKey(u)}
<1>1. /\ Draft(Nothing) /\ Nothing.fresh = TRUE /\ DOMAIN db = Table
      /\ \A t \in Table : DOMAIN Nothing.new[t] = {}
  BY NothingIs, TheRows
<1>2. OneRow(Nothing, "user", u, x) /\ DOMAIN x \subseteq Personal
  BY <1>1, NothingSets, NoRows, TheTables
<1>3. PICK y : /\ Draft(q[1]) /\ OneRow(q[1], "user", u, y) /\ Same(q[1], Nothing)
               /\ EmailFits(u, y, q[2], e, FALSE) /\ q[2] \in BOOLEAN
  <2> HIDE DEF x
  <2> QED
    BY <1>1, <1>2, EmailEdits
<1>4. IF q[2] THEN BeginMailing(s, "edit_email", seen, q[1], e, Mailboxes("user", u, e))
      ELSE Begin(s, "edit_email", seen, q[1])
  BY DEF ChangeEmail
<1> HIDE DEF q, e
<1>5. q[1].fresh = TRUE /\ \A t \in Table : DOMAIN q[1].new[t] = {}
  BY <1>1, <1>3 DEF Same
<1>6. UserKey(u) \in seen /\ (\A v : <<"code", v>> \notin seen) /\ (\A i : <<"end", i>> \notin seen)
  BY DEF UserKey
<1> HIDE DEF seen
<1>7. "edit_email" \notin {"confirm", "edit"}
  OBVIOUS
<1> QED
  BY <1>3, <1>4, <1>5, <1>6, <1>7, FitDecides

LEMMA EditUserDecides ==
  ASSUME RequestsInv, NEW s \in Session, NEW u \in AllUsers, NEW name, NEW entered, NEW p, EditUser(s, u, name, entered, p)
  PROVE  Decides(s)
<1> DEFINE n == [name |-> name]
           h == [person |-> p]
           a == Renamed(Nothing, u, name)
           b == Identified(a, u, p)
           q == EditedEmail(b, u, entered, FALSE)
           e == Lowered(entered)
           x == Over(h, n)
           seen == {UserKey(u)}
<1>1. /\ Draft(Nothing) /\ Nothing.fresh = TRUE /\ DOMAIN db = Table
      /\ \A t \in Table : DOMAIN Nothing.new[t] = {}
  BY NothingIs, TheRows
<1>2. DOMAIN n = {"name"} /\ DOMAIN h = {"person"}
  OBVIOUS
<1>3. a = Update(Nothing, "user", u, n) /\ b = Update(a, "user", u, h)
  BY DEF Renamed, Identified
<1>11. IF q[2] THEN BeginMailing(s, "edit_user", seen, q[1], e, Mailboxes("user", u, e)) ELSE Begin(s, "edit_user", seen, q[1])
  BY DEF EditUser
<1> HIDE DEF n, h, a, b
<1>4. Settable("user", n) /\ Settable("user", h) /\ "user" \in Table
  BY <1>2, TheTables DEF Settable
<1>5. Draft(a) /\ OneRow(a, "user", u, n) /\ Same(a, Nothing)
  BY <1>1, <1>3, <1>4, UpdateNothing
<1>6. Draft(b) /\ OneRow(b, "user", u, x) /\ Same(b, a)
  <2>1. DOMAIN h \cap DOMAIN n = {}
    BY <1>2
  <2> QED
    BY <1>3, <1>4, <1>5, <2>1, MoreSets
<1>7. DOMAIN x \subseteq Personal
  BY <1>2 DEF Over, Personal
<1> HIDE DEF x
<1>8. PICK y : /\ Draft(q[1]) /\ OneRow(q[1], "user", u, y) /\ Same(q[1], b)
               /\ EmailFits(u, y, q[2], e, FALSE) /\ q[2] \in BOOLEAN
  BY <1>6, <1>7, EmailEdits
<1> HIDE DEF q, e
<1>9. q[1].fresh = TRUE /\ \A t \in Table : DOMAIN q[1].new[t] = {}
  BY <1>1, <1>5, <1>6, <1>8 DEF Same
<1>10. UserKey(u) \in seen /\ (\A v : <<"code", v>> \notin seen) /\ (\A i : <<"end", i>> \notin seen)
  BY DEF UserKey
<1> HIDE DEF seen
<1>12. "edit_user" \notin {"confirm", "edit"}
  OBVIOUS
<1> QED
  BY <1>8, <1>9, <1>10, <1>11, <1>12, FitDecides


(* A request that is merged into an account, step by step *)
Merging(q, u, id, y, names) ==
  /\ Draft(q) /\ OneRow(q, "user", u, y) /\ q.fresh = TRUE /\ id \in q.drop["prm"]
  /\ (\A t \in Table : DOMAIN q.new[t] = {}) /\ DOMAIN y \subseteq names

LEMMA MergeStep ==
  ASSUME NEW q, NEW u, NEW id, NEW y, NEW names, Merging(q, u, id, y, names),
         NEW fields, NEW c \in Personal \ names, DOMAIN fields = {c}
  PROVE  Merging(Update(q, "user", u, fields), u, id, Over(fields, y), names \cup {c})
<1>1. Settable("user", fields) /\ "user" \in Table /\ DOMAIN fields \cap DOMAIN y = {}
  BY TheTables DEF Settable, Personal, Merging
<1>2. Draft(q) /\ OneRow(q, "user", u, y)
  BY DEF Merging
<1> DEFINE n == Update(q, "user", u, fields)
           z == Over(fields, y)
<1>3. Draft(n) /\ OneRow(n, "user", u, z) /\ Same(n, q)
  BY <1>1, <1>2, MoreSets
<1>4. DOMAIN z = DOMAIN fields \cup DOMAIN y
  BY OverFacts
<1> HIDE DEF n, z
<1>5. Merging(n, u, id, z, names \cup {c})
  BY <1>3, <1>4 DEF Merging, Same
<1> QED
  BY <1>5 DEF n, z

LEMMA MergeDecides ==
  ASSUME RequestsInv, NEW s \in Session, NEW id \in Prms, NEW u \in AllUsers,
         NEW what \in SUBSET {"name", "email", "person", "room"}, Merge(s, id, u, what)
  PROVE  Decides(s)
<1> DEFINE p     == db.prm[id]
           r     == Delete(Nothing, "prm", {id})
           named == IF "name" \in what THEN Renamed(r, u, p.name) ELSE r
           mail  == IF "email" \in what THEN EditedEmail(named, u, p.email, p.confirmed) ELSE <<named, FALSE>>
           known == IF "person" \in what THEN Identified(mail[1], u, p.person) ELSE mail[1]
           last  == IF "room" \in what THEN MergedRoom(known, u, p) ELSE known
           seen  == {PrmKey(id), UserKey(u), <<"end", id>>}
           sure  == "email" \in what /\ p.confirmed
           e     == Lowered(p.email)
<1>1. Merged(id, u, what) = <<last, mail[2]>>
  BY DEF Merged
<1>2. IF mail[2] THEN BeginMailing(s, "merge", seen, last, e, Mailboxes("user", u, e)) ELSE Begin(s, "merge", seen, last)
  <2> DEFINE q == Merged(id, u, what)
  <2>1. IF q[2] THEN BeginMailing(s, "merge", seen, q[1], e, Mailboxes("user", u, e)) ELSE Begin(s, "merge", seen, q[1])
    BY DEF Merge
  <2> HIDE DEF last, mail, seen, p, e
  <2>2. q[1] = last /\ q[2] = mail[2]
    BY <1>1, Pairs
  <2> HIDE DEF q
  <2> QED
    BY <2>1, <2>2
<1>3. /\ Draft(Nothing) /\ Nothing.fresh = TRUE /\ DOMAIN db = Table
      /\ \A t \in Table : DOMAIN Nothing.new[t] = {}
  BY NothingIs, TheRows
<1>4. Merging(r, u, id, << >>, {})
  <2> DEFINE x == << >>
  <2>1. OneRow(Nothing, "user", u, x) /\ DOMAIN x = {}
    BY <1>3, NothingSets, NoRows, TheTables
  <2>2. Draft(r) /\ r.new = Nothing.new /\ r.set = Nothing.set /\ r.fresh = Nothing.fresh /\ id \in r.drop["prm"]
    BY <1>3, DeleteDrops
  <2> HIDE DEF r, x
  <2>3. OneRow(r, "user", u, x)
    BY <2>1, <2>2 DEF OneRow, Sets
  <2>4. Merging(r, u, id, x, {})
    BY <1>3, <2>1, <2>2, <2>3 DEF Merging
  <2> QED
    BY <2>4 DEF x
<1>5. e # None /\ Lends(id, e) = (p.confirmed = TRUE)
  BY TheRows DEF Lends
<1> HIDE DEF r
<1>6. PICK a : Merging(named, u, id, a, {"name"})
  <2>1. CASE "name" \in what
    <3> DEFINE f == [name |-> p.name]
    <3>1. DOMAIN f = {"name"} /\ "name" \in Personal \ {}
      BY DEF Personal
    <3>2. named = Update(r, "user", u, f)
      BY <2>1 DEF Renamed
    <3> HIDE DEF f, named
    <3>3. Merging(Update(r, "user", u, f), u, id, Over(f, << >>), {} \cup {"name"})
      BY <1>4, <3>1, MergeStep
    <3>4. {} \cup {"name"} = {"name"}
      OBVIOUS
    <3> QED
      BY <3>2, <3>3, <3>4
  <2>2. CASE "name" \notin what
    <3>1. Merging(r, u, id, << >>, {"name"})
      BY <1>4, NoRows DEF Merging
    <3> QED
      BY <2>2, <3>1
  <2> QED
    BY <2>1, <2>2
<1> HIDE DEF named
<1>7. PICK b : /\ Merging(mail[1], u, id, b, {"name", "email", "confirmed", "key"})
               /\ EmailFits(u, b, mail[2], e, sure) /\ mail[2] \in BOOLEAN
  <2>1. Draft(named) /\ OneRow(named, "user", u, a) /\ DOMAIN a \subseteq Personal
    BY <1>6 DEF Merging, Personal
  <2>2. CASE "email" \in what
    <3> DEFINE c == p.confirmed
               q == EditedEmail(named, u, p.email, c)
    <3>1. c => e # None
      BY <1>5
    <3>5. mail = q
      BY <2>2
    <3> HIDE DEF c
    <3>2. PICK y : /\ Draft(q[1]) /\ OneRow(q[1], "user", u, y) /\ Same(q[1], named)
                   /\ DOMAIN y \subseteq DOMAIN a \cup {"email", "confirmed", "key"}
                   /\ EmailFits(u, y, q[2], e, c) /\ q[2] \in BOOLEAN
      BY <2>1, <3>1, EmailEdits
    <3> HIDE DEF q
    <3>3. Merging(q[1], u, id, y, {"name", "email", "confirmed", "key"})
      BY <1>6, <3>2 DEF Merging, Same
    <3>4. EmailFits(u, y, q[2], e, sure)
      BY <2>2, <3>2 DEF EmailFits, c
    <3> HIDE DEF mail
    <3> QED
      BY <3>2, <3>3, <3>4, <3>5
  <2>3. CASE "email" \notin what
    <3>1. mail[1] = named /\ mail[2] = FALSE
      <4>1. mail = <<named, FALSE>>
        BY <2>3
      <4> HIDE DEF mail
      <4> QED
        BY <4>1, Pairs
    <3> HIDE DEF mail, p, sure
    <3>2. EmailFits(u, a, FALSE, e, sure)
      BY <2>1, FitsStill
    <3>3. Merging(named, u, id, a, {"name", "email", "confirmed", "key"})
      BY <1>6 DEF Merging
    <3> QED
      BY <3>1, <3>2, <3>3
  <2> QED
    BY <2>2, <2>3
<1> DEFINE N == {"name", "email", "confirmed", "key"}
<1> HIDE DEF mail, sure
<1>8. PICK c : Merging(known, u, id, c, N \cup {"person"}) /\ EmailFits(u, c, mail[2], e, sure)
  <2>1. CASE "person" \in what
    <3> DEFINE f == [person |-> p.person]
    <3>1. DOMAIN f = {"person"} /\ "person" \in Personal \ N
      BY DEF Personal
    <3>2. known = Update(mail[1], "user", u, f)
      BY <2>1 DEF Identified
    <3> HIDE DEF f, known, p
    <3>3. Merging(Update(mail[1], "user", u, f), u, id, Over(f, b), N \cup {"person"})
      BY <1>7, <3>1, MergeStep
    <3>4. EmailFits(u, Over(f, b), mail[2], e, sure)
      BY <1>7, <3>1, FitsStill
    <3> QED
      BY <3>2, <3>3, <3>4
  <2>2. CASE "person" \notin what
    BY <1>7, <2>2 DEF Merging
  <2> QED
    BY <2>1, <2>2
<1> HIDE DEF known
<1>9. PICK d : Merging(last, u, id, d, (N \cup {"person"}) \cup {"room"}) /\ EmailFits(u, d, mail[2], e, sure)
  <2>1. CASE "room" \in what /\ ~ p.soon
    <3> DEFINE f == [room |-> p.room]
    <3>1. DOMAIN f = {"room"} /\ "room" \in Personal \ (N \cup {"person"})
      BY DEF Personal
    <3>2. last = Update(known, "user", u, f)
      BY <2>1 DEF MergedRoom
    <3> HIDE DEF f, last, p
    <3>3. Merging(Update(known, "user", u, f), u, id, Over(f, c), (N \cup {"person"}) \cup {"room"})
      BY <1>8, <3>1, MergeStep
    <3>4. EmailFits(u, Over(f, c), mail[2], e, sure)
      BY <1>8, <3>1, FitsStill
    <3> QED
      BY <3>2, <3>3, <3>4
  <2>2. CASE ~ ("room" \in what /\ ~ p.soon)
    <3>1. last = known
      BY <2>2 DEF MergedRoom
    <3> QED
      BY <1>8, <3>1 DEF Merging
  <2> QED
    BY <2>1, <2>2
<1> HIDE DEF last, N
<1>10. Draft(last) /\ OneRow(last, "user", u, d) /\ last.fresh = TRUE /\ id \in last.drop["prm"]
       /\ \A t \in Table : DOMAIN last.new[t] = {}
  BY <1>9 DEF Merging
<1>11. /\ UserKey(u) \in seen /\ (\A v : <<"code", v>> \notin seen)
       /\ \A i : <<"end", i>> \in seen => i \in Prms /\ <<"prm", i>> \in seen /\ i \in last.drop["prm"]
  BY <1>10 DEF UserKey, PrmKey
<1> DEFINE sent == mail[2]
<1>12. sure => \E i \in last.drop["prm"] :
                 <<"prm", i>> \in seen /\ i \in Prms /\ Lends(i, e)
  BY <1>5, <1>10, <1>11 DEF sure, PrmKey
<1>13. "merge" \notin {"confirm", "edit"}
  OBVIOUS
<1>14. EmailFits(u, d, sent, e, sure) /\ sent \in BOOLEAN
  BY <1>7, <1>9
<1>15. IF sent THEN BeginMailing(s, "merge", seen, last, e, Mailboxes("user", u, e)) ELSE Begin(s, "merge", seen, last)
  BY <1>2
<1> HIDE DEF seen, p, e, sent
<1> QED
  BY <1>10, <1>11, <1>12, <1>13, <1>14, <1>15, FitDecides


(* The second transaction of an edit                                       *)
Loses(s) ==
  /\ request' = [request EXCEPT ![s] = None]
  /\ UNCHANGED <<db, given, requests, mails, proven, answered, ended, mixed>>

LEMMA EditResendDecides ==
  ASSUME RequestsInv, NEW s \in Session, EditResend(s)
  PROVE  Decides(s) \/ Loses(s)
<1>1. PICK id \in Prms, e \in Email :
        /\ IF db.prm[id].email = e
           THEN request' = [request EXCEPT ![s] = None] /\ UNCHANGED <<given, mails>>
           ELSE /\ Pending(s, "resend", {PrmKey(id)}, Unconfirmed(Nothing, "prm", id, Code))
                /\ mails' = mails \cup {[code |-> Code, about |-> db.prm[id].email, to |-> db.prm[id].email]}
        /\ UNCHANGED <<db, requests, proven, answered, ended, mixed>>
  BY DEF EditResend
<1>2. CASE db.prm[id].email = e
  BY <1>1, <1>2 DEF Loses
<1>3. CASE db.prm[id].email # e
  <2> DEFINE r == Unconfirmed(Nothing, "prm", id, Code)
             x == [confirmed |-> FALSE, key |-> Code]
             M == {MailTo(db["prm"][id]["email"], db["prm"][id]["email"])}
             seen == {<<"prm", id>>}
  <2>1. Settable("prm", x)
    BY TheTables DEF Settable
  <2>2. Draft(r)
    <3>1. r = Update(Nothing, "prm", id, x)
      BY DEF Unconfirmed
    <3> HIDE DEF x
    <3> QED
      BY <2>1, <3>1, UpdateNothing, TheRows, TheTables
  <2>3. Pending(s, "resend", seen, r) /\ mails' = mails \cup M
    BY <1>1, <1>3 DEF PrmKey, MailTo
  <2>4. proven' = proven \cup {} /\ UNCHANGED <<db, requests, answered, ended, mixed>>
    BY <1>1
  <2>5. \E a, box : M = {MailTo(a, box)}
    OBVIOUS
  <2> HIDE DEF r, M, seen
  <2> DEFINE w == Decided(r, "resend", seen)
  <2>6. /\ request' = [request EXCEPT ![s] = w]
        /\ given' = [t \in DOMAIN db |-> given[t] \cup (DOMAIN w.new[t] \cap Ids[t])]
    BY <2>2, <2>3, PendingIs
  <2> HIDE DEF w
  <2>7. Does(s, w, M, {})
    BY <2>3, <2>4, <2>5, <2>6 DEF Does
  <2>8. "prm" \in Table /\ id \in DOMAIN db["prm"] /\ seen = {<<"prm", id>>}
    BY TheTables DEF Prms, seen
  <2>10. db["prm"][id]["email"] \in Mailboxes("prm", id, db["prm"][id]["email"])
    BY DEF Mailboxes
  <2>9. Decides(s)
    BY <2>7, <2>8, <2>10, UnconfirmedDecides DEF w, r, M
  <2> QED
    BY <2>9
<1> QED
  BY <1>2, <1>3

LEMMA StartDecides ==
  ASSUME RequestsInv, \A m \in mails : m.code # None, NEW s \in Session, Start(s)
  PROVE  Decides(s)
<1>1. CASE Applying(s)
  <2>1. ASSUME NEW a \in Application, Register(s, a)
        PROVE  Decides(s)
    BY <2>1, RegisterDecides
  <2>2. ASSUME NEW a \in Application, NEW id \in Prms, EditRequest(s, id, a)
        PROVE  Decides(s)
    BY <2>2, EditsDecide
  <2>3. ASSUME NEW id \in Prms, Finish(s, id) \/ Deny(s, id)
        PROVE  Decides(s)
    BY <2>3, FinishDecides, DenyDecides
  <2>4. ASSUME NEW id \in Prms, Resend(s, "prm", id)
        PROVE  Decides(s)
    BY <2>4, ResendDecides, TheTables DEF Prms
  <2>5. ASSUME NEW id \in Prms, NEW u \in AllUsers,
               NEW what \in SUBSET {"name", "email", "person", "room"}, Merge(s, id, u, what)
        PROVE  Decides(s)
    BY <2>5, MergeDecides
  <2> QED
    BY <1>1, <2>1, <2>2, <2>3, <2>4, <2>5 DEF Applying
<1>2. CASE OfUsers(s)
  <2>1. ASSUME NEW u \in AllUsers, Resend(s, "user", u)
        PROVE  Decides(s)
    BY <2>1, ResendDecides, TheTables DEF AllUsers
  <2>2. ASSUME NEW u \in AllUsers, ResendByApi(s, u)
        PROVE  Decides(s)
    BY <2>2, ResendDecides
  <2>3. ASSUME NEW u \in AllUsers, RequestReset(s, u)
        PROVE  Decides(s)
    BY <2>3, ResetDecides
  <2>4. ASSUME NEW u \in AllUsers, NEW e, ChangeEmail(s, u, e)
        PROVE  Decides(s)
    BY <2>4, ChangeDecides
  <2>5. ASSUME NEW u \in AllUsers, NEW n, NEW e, NEW p, EditUser(s, u, n, e, p)
        PROVE  Decides(s)
    BY <2>5, EditUserDecides
  <2> QED
    BY <1>2, <2>1, <2>2, <2>3, <2>4, <2>5 DEF OfUsers
<1>3. ASSUME NEW mail \in mails, Confirm(s, mail) \/ UseToken(s, mail)
      PROVE  Decides(s)
  BY <1>3, ConfirmDecides, AnswersDecide
<1> QED
  BY <1>1, <1>2, <1>3 DEF Start

----------------------------------------------------------------------------
(* What a commit leaves *)

Committed(s, r) ==
  /\ r = request[s] /\ r # None /\ r.op # "edited" /\ DOMAIN db' = Table
  /\ \A t \in Table :
       /\ DOMAIN db'[t] = (DOMAIN db[t] \ r.drop[t]) \cup DOMAIN r.new[t]
       /\ DOMAIN r.set[t] \subseteq DOMAIN db[t]
       /\ \A id \in DOMAIN db'[t] :
            DOMAIN db'[t][id] = Columns[t] /\ \A c \in Columns[t] : db'[t][id][c] = Value(r, t, id, c)
  /\ UniqueIn(db'.user, "login") /\ UniqueIn(db'.user, "person")
  /\ answered' = answered \cup {m.code : m \in {m \in mails : <<"code", m.code>> \in r.seen}}
  /\ ended' = [id \in Ids["prm"] |-> ended[id] + IF <<"end", id>> \in r.seen THEN 1 ELSE 0]
  /\ UNCHANGED <<given, requests, mails, proven>>

LEMMA CommitWrites ==
  ASSUME RequestsInv, NEW s \in Session, Commit(s)
  PROVE  Committed(s, request[s])
<1> DEFINE r == request[s]
<1>1. /\ r # None /\ r.op # "edited" /\ Accepted(r)
      /\ db' = [t \in Table |-> WrittenRows(r, t, r.drop[t])]
      /\ answered' = answered \cup {m.code : m \in {m \in mails : <<"code", m.code>> \in r.seen}}
      /\ ended' = [id \in Ids["prm"] |-> ended[id] + IF <<"end", id>> \in r.seen THEN 1 ELSE 0]
      /\ UNCHANGED <<given, requests, mails, proven>>
  BY DEF Commit
<1>2. Draft(r)
  BY <1>1 DEF RequestsInv
<1> HIDE DEF r
<1>3. DOMAIN db = Table /\ \A t \in Table : \A id \in DOMAIN db[t] : DOMAIN db[t][id] = Columns[t]
  BY TheRows
<1>4. \A t \in Table : DOMAIN r.set[t] \subseteq DOMAIN db[t]
  BY <1>1, <1>3 DEF Accepted, UpdatesFindRows
<1>5. ASSUME NEW t \in Table
      PROVE  /\ DOMAIN db'[t] = (DOMAIN db[t] \ r.drop[t]) \cup DOMAIN r.new[t]
             /\ \A id \in DOMAIN db'[t] : db'[t][id] = RowIn(r, t, id)
  BY <1>1 DEF WrittenRows
<1>6. ASSUME NEW t \in Table, NEW id \in DOMAIN db'[t]
      PROVE  DOMAIN db'[t][id] = Columns[t] /\ \A c \in Columns[t] : db'[t][id][c] = Value(r, t, id, c)
  <2>1. db'[t][id] = RowIn(r, t, id) /\ id \in DOMAIN db[t] \cup DOMAIN r.new[t]
    BY <1>5
  <2>2. CASE id \in DOMAIN r.new[t]
    <3>1. db'[t][id] = r.new[t][id]
      BY <2>1, <2>2 DEF RowIn
    <3>2. DOMAIN r.new[t][id] = Columns[t]
      BY <1>2, <2>2 DEF Draft
    <3> QED
      BY <2>2, <3>1, <3>2 DEF Value
  <2>3. CASE id \notin DOMAIN r.new[t] /\ id \in DOMAIN r.set[t]
    <3>1. db'[t][id] = Over(r.set[t][id], db[t][id])
      BY <2>1, <2>3 DEF RowIn
    <3>2. DOMAIN r.set[t][id] \subseteq Columns[t] /\ DOMAIN db[t][id] = Columns[t]
      BY <1>2, <1>3, <2>1, <2>3 DEF Draft
    <3> QED
      BY <2>3, <3>1, <3>2 DEF Value, Sets, Over
  <2>4. CASE id \notin DOMAIN r.new[t] /\ id \notin DOMAIN r.set[t]
    <3>1. db'[t][id] = db[t][id]
      BY <2>1, <2>4 DEF RowIn
    <3>2. DOMAIN db[t][id] = Columns[t]
      BY <1>3, <2>1, <2>4
    <3> QED
      BY <2>4, <3>1, <3>2 DEF Value, Sets
  <2> QED
    BY <2>2, <2>3, <2>4
<1>7. DOMAIN db' = Table
  BY <1>1
<1>8. UniqueIn(db'.user, "login") /\ UniqueIn(db'.user, "person")
  <2>1. db'.user = WrittenRows(r, "user", {})
    <3>1. r.drop["user"] = {} /\ "user" \in Table
      BY <1>2, TheTables DEF Draft
    <3> QED
      BY <1>1, <3>1
  <2> QED
    BY <1>1, <2>1 DEF Accepted
<1> QED
  BY <1>1, <1>4, <1>5, <1>6, <1>7, <1>8 DEF Committed, r

(* The others' requests: they stay, and if they are still fresh, so do the *)
(* rows that they saw.                                                     *)
Stays(t, id) ==
  /\ id \in DOMAIN db'[t] <=> id \in DOMAIN db[t]
  /\ id \in DOMAIN db[t] => db'[t][id] = db[t][id]

StillPending(o) ==
  /\ request[o] # None /\ RequestShape(request'[o])
  /\ request'[o].new = request[o].new /\ request'[o].set = request[o].set /\ request'[o].drop = request[o].drop
  /\ request'[o].op = request[o].op /\ request'[o].seen = request[o].seen
  /\ request'[o].fresh => /\ request[o].fresh
                          /\ \A t \in Table : \A id \in Ids[t] : <<t, id>> \in request[o].seen => Stays(t, id)

Others(s) ==
  /\ DOMAIN request' = Session
  /\ \A o \in Session \ {s} :
       /\ request'[o] # None => StillPending(o)
       /\ request[o] # None => request'[o] \in {request[o], [request[o] EXCEPT !.fresh = FALSE]}

More(w, r) ==
  /\ r.op = "edit" /\ Draft(w) /\ w.op = "edited" /\ w.seen = {k \in r.seen : k[1] = "was"}
  /\ \A t \in Table : DOMAIN w.new[t] = {} /\ DOMAIN w.set[t] = {} /\ w.drop[t] = {}

LEMMA CommitRequests ==
  ASSUME RequestsInv, NEW s \in Session, Commit(s)
  PROVE  Others(s) /\ (request'[s] # None => More(request'[s], request[s]))
<1> DEFINE r    == request[s]
           S    == {k \in r.seen : k[1] = "was"}
           more == [Nothing EXCEPT !.op = "edited", !.seen = S]
           K    == {k \in Keys : Image(k)' # Image(k)}
<1>1. r # None /\ request' = [Overtaken(s, K) EXCEPT ![s] = IF r.op = "edit" THEN more ELSE None]
  BY DEF Commit
<1>2. more = Decided(Nothing, "edited", S)
  BY DEF Decided
<1>3. /\ Draft(Nothing) /\ DOMAIN db = Table /\ DOMAIN request = Session
      /\ \A t \in Table : DOMAIN Nothing.new[t] = {} /\ DOMAIN Nothing.set[t] = {} /\ Nothing.drop[t] = {}
  BY NothingIs, TheRows
<1>4. \A k \in Keys \ K : Image(k)' = Image(k)
  OBVIOUS
<1> HIDE DEF S, K, more
<1>5. /\ Draft(more) /\ more.op = "edited" /\ more.seen = S
      /\ \A t \in Table : DOMAIN more.new[t] = {} /\ DOMAIN more.set[t] = {} /\ more.drop[t] = {}
  BY <1>2, <1>3, DecidedIs
<1>6. request'[s] # None => More(request'[s], request[s])
  <2>1. request'[s] = IF r.op = "edit" THEN more ELSE None
    BY <1>1 DEF Overtaken
  <2> QED
    BY <1>5, <2>1 DEF More, S
<1>7. ASSUME NEW t \in Table, NEW id \in Ids[t], <<t, id>> \notin K
      PROVE  Stays(t, id)
  <2>1. <<t, id>> \in Keys
    BY TheTables DEF Keys
  <2>2. Image(<<t, id>>)' = Image(<<t, id>>)
    BY <1>4, <1>7, <2>1
  <2>3. /\ Image(<<t, id>>) = IF id \in DOMAIN db[t] THEN db[t][id] ELSE << >>
        /\ Image(<<t, id>>)' = IF id \in DOMAIN db'[t] THEN db'[t][id] ELSE << >>
    BY DEF Image
  <2>4. /\ id \in DOMAIN db[t] => DOMAIN db[t][id] = Columns[t]
        /\ id \in DOMAIN db'[t] => DOMAIN db'[t][id] = Columns[t]
    BY CommitWrites, TheRows DEF Committed
  <2>5. Columns[t] # DOMAIN << >>
    BY NoRows, TheTables
  <2> QED
    BY <2>2, <2>3, <2>4, <2>5 DEF Stays
<1>8. ASSUME NEW o \in Session \ {s}
      PROVE  /\ request'[o] # None => StillPending(o)
             /\ request[o] # None => request'[o] \in {request[o], [request[o] EXCEPT !.fresh = FALSE]}
  <2> DEFINE b == request[o].fresh /\ request[o].seen \cap K = {}
  <2>1. request'[o] = IF request[o] = None THEN None ELSE [request[o] EXCEPT !.fresh = b]
    BY <1>1 DEF Overtaken
  <2>2. request[o] # None => RequestShape(request[o]) /\ request[o].fresh \in BOOLEAN
    BY DEF RequestsInv, Draft, RequestShape
  <2>3. b \in BOOLEAN
    OBVIOUS
  <2>4. b => request[o].fresh /\ \A t \in Table : \A id \in Ids[t] : <<t, id>> \in request[o].seen => Stays(t, id)
    BY <1>7
  <2>7. b => request[o].fresh
    OBVIOUS
  <2> HIDE DEF b
  <2>5. request'[o] # None => StillPending(o)
    <3>1. SUFFICES ASSUME request'[o] # None PROVE StillPending(o)
      OBVIOUS
    <3> DEFINE q == request[o]
               p == [q EXCEPT !.fresh = b]
    <3>2. q # None /\ request'[o] = p /\ RequestShape(q)
      BY <2>1, <2>2, <3>1
    <3> HIDE DEF q
    <3>3. RequestShape(p) /\ p.new = q.new /\ p.set = q.set /\ p.drop = q.drop /\ p.op = q.op /\ p.seen = q.seen /\ p.fresh = b
      BY <2>3, <3>2, ShapeFresh
    <3> HIDE DEF p
    <3> QED
      BY <2>4, <3>2, <3>3 DEF StillPending, q
  <2>6. request[o] # None => request'[o] \in {request[o], [request[o] EXCEPT !.fresh = FALSE]}
    <3>1. SUFFICES ASSUME request[o] # None PROVE request'[o] \in {request[o], [request[o] EXCEPT !.fresh = FALSE]}
      OBVIOUS
    <3>2. CASE b = FALSE
      BY <2>1, <3>1, <3>2
    <3>3. CASE b = TRUE
      <4> DEFINE q == request[o]
      <4>1. q.fresh = TRUE /\ RequestShape(q) /\ request'[o] = [q EXCEPT !.fresh = TRUE]
        BY <2>1, <2>2, <2>7, <3>1, <3>3
      <4> HIDE DEF q
      <4>2. [q EXCEPT !.fresh = TRUE] = q
        BY <4>1 DEF RequestShape
      <4> QED
        BY <4>1, <4>2 DEF q
    <3> QED
      BY <2>3, <3>2, <3>3
  <2> QED
    BY <2>5, <2>6
<1>9. DOMAIN request' = Session
  BY <1>1 DEF Overtaken
<1> QED
  BY <1>6, <1>8, <1>9 DEF Others


LEMMA QuietOthers ==
  ASSUME RequestsInv, NEW s \in Session, NEW w, request' = [request EXCEPT ![s] = w], UNCHANGED db
  PROVE  Others(s) /\ request'[s] = w
<1>1. DOMAIN request = Session
  BY TheRows
<1>2. ASSUME NEW o \in Session \ {s}
      PROVE  /\ request'[o] # None => StillPending(o)
             /\ request[o] # None => request'[o] \in {request[o], [request[o] EXCEPT !.fresh = FALSE]}
  <2>1. request'[o] = request[o]
    BY <1>1
  <2>2. request[o] # None => RequestShape(request[o])
    BY DEF RequestsInv, Draft
  <2>3. \A t, id : Stays(t, id)
    BY DEF Stays
  <2> QED
    BY <2>1, <2>2, <2>3 DEF StillPending
<1> QED
  BY <1>1, <1>2 DEF Others

----------------------------------------------------------------------------
(* TheRows and requests are of the right kind. *)

LEMMA KindsKept ==
  ASSUME RequestsInv, NEW s \in Session, Others(s), RequestTypes',
         \A t \in Table : given[t] \subseteq given'[t] /\ given'[t] \subseteq Ids[t],
         request'[s] # None => Draft(request'[s]) /\ \A t \in Table : DOMAIN request'[s].new[t] \subseteq given'[t]
  PROVE  RequestsInv'
<1>1. ASSUME NEW o \in Session, request'[o] # None
      PROVE  Draft(request'[o]) /\ \A t \in Table : DOMAIN request'[o].new[t] \subseteq given'[t]
  <2>1. CASE o = s
    BY <1>1, <2>1
  <2>2. CASE o # s
    <3>1. StillPending(o)
      BY <1>1, <2>2 DEF Others
    <3>2. Draft(request[o]) /\ \A t \in Table : DOMAIN request[o].new[t] \subseteq given[t]
      BY <3>1 DEF StillPending, RequestsInv
    <3>3. Draft(request'[o])
      BY <3>1, <3>2 DEF StillPending, Draft
    <3> QED
      BY <3>1, <3>2, <3>3 DEF StillPending
  <2> QED
    BY <2>1, <2>2
<1> QED
  BY <1>1 DEF Others, RequestsInv

(* What a step of requests changes, stated once for the proofs below *)
LEMMA DecidesInv ==
  ASSUME RequestsInv, NEW s \in Session, NEW w, NEW M, NEW A, Good(w, M, A), Does(s, w, M, A)
  PROVE  /\ Others(s) /\ request'[s] = w /\ RequestsInv'
         /\ \A t \in Table : given'[t] = given[t] \cup DOMAIN w.new[t]
<1>1. Others(s) /\ request'[s] = w
  BY QuietOthers DEF Does
<1>2. Draft(w) /\ \A t \in Table : DOMAIN w.new[t] \subseteq Ids[t]
  BY DEF Good, Draft
<1>3. \A t \in Table : given'[t] = given[t] \cup DOMAIN w.new[t]
  BY <1>2, TheRows DEF Does
<1>4. RequestTypes'
  <2>1. requests \in 0 .. MaxRequests /\ requests' \in 0 .. MaxRequests
    BY RequestsAssumption DEF Does, RequestsInv, RequestTypes
  <2>2. db' = db
    BY DEF Does
  <2>3. \A t \in Table : DOMAIN db'[t] \subseteq given'[t] /\ given'[t] \subseteq Ids[t]
    BY <1>2, <1>3, <2>2, TheRows
  <2> QED
    BY <2>1, <2>2, <2>3 DEF RequestsInv, RequestTypes, Prms
<1>5. \A t \in Table : given[t] \subseteq given'[t] /\ given'[t] \subseteq Ids[t]
  BY <1>2, <1>3, TheRows
<1>6. RequestsInv'
  BY <1>1, <1>2, <1>3, <1>4, <1>5, KindsKept
<1> QED
  BY <1>1, <1>3, <1>6

LEMMA LosesInv ==
  ASSUME RequestsInv, NEW s \in Session, Loses(s)
  PROVE  Others(s) /\ request'[s] = None /\ RequestsInv'
<1>1. Others(s) /\ request'[s] = None
  BY QuietOthers DEF Loses
<1>2. RequestTypes'
  BY DEF Loses, RequestsInv, RequestTypes, Prms
<1>3. \A t \in Table : given[t] \subseteq given'[t] /\ given'[t] \subseteq Ids[t]
  BY TheRows DEF Loses
<1> QED
  BY <1>1, <1>2, <1>3, KindsKept

LEMMA CommitInv ==
  ASSUME RequestsInv, NEW s \in Session, Commit(s)
  PROVE  /\ Others(s) /\ Committed(s, request[s]) /\ RequestsInv'
         /\ request'[s] # None => More(request'[s], request[s])
<1> DEFINE r == request[s]
<1>1. /\ Committed(s, r) /\ Others(s)
      /\ request'[s] # None => More(request'[s], request[s])
  BY CommitWrites, CommitRequests
<1>2. Draft(r) /\ \A t \in Table : DOMAIN r.new[t] \subseteq given[t]
  BY <1>1 DEF Committed, RequestsInv
<1>6. request'[s] # None => Draft(request'[s]) /\ \A t \in Table : DOMAIN request'[s].new[t] = {}
  BY <1>1 DEF More
<1> HIDE DEF r
<1>3. RequestTypes'
  <2>1. requests' \in 0 .. MaxRequests /\ given' = given /\ DOMAIN db' = Table
    BY <1>1 DEF Committed, RequestsInv, RequestTypes
  <2>2. \A t \in Table : DOMAIN db'[t] \subseteq given[t] /\ given[t] \subseteq Ids[t]
    BY <1>1, <1>2, TheRows DEF Committed
  <2>3. \A t \in Table : \A id \in DOMAIN db'[t] : DOMAIN db'[t][id] = Columns[t]
    BY <1>1 DEF Committed
  <2>4. ASSUME NEW id \in DOMAIN db'["prm"]
        PROVE  db'["prm"][id]["email"] \in Email
    <3>1. "email" \in Columns["prm"] /\ "prm" \in Table
      BY TheTables DEF Field
    <3>2. db'["prm"][id]["email"] = Value(r, "prm", id, "email") /\ id \in DOMAIN db["prm"] \cup DOMAIN r.new["prm"]
      BY <1>1, <3>1 DEF Committed
    <3>3. Value(r, "prm", id, "email") \in Email
      BY <1>2, <3>2, TheRows DEF Value, Sets, Draft, Prms
    <3> QED
      BY <3>2, <3>3
  <2>5. UniqueIn(db'.user, "login") /\ UniqueIn(db'.user, "person")
    BY <1>1 DEF Committed
  <2> QED
    BY <2>1, <2>2, <2>3, <2>4, <2>5 DEF RequestTypes, Prms
<1>4. \A t \in Table : given[t] \subseteq given'[t] /\ given'[t] \subseteq Ids[t]
  BY <1>1, TheRows DEF Committed
<1>5. RequestsInv'
  BY <1>1, <1>3, <1>4, <1>6, KindsKept
<1> QED
  BY <1>1, <1>5 DEF r


----------------------------------------------------------------------------
(* An id that is to be inserted is nobody else's. *)
NewInv ==
  \A s \in Session : request[s] # None => \A t \in Table : \A id \in DOMAIN request[s].new[t] :
    /\ id \notin DOMAIN db[t]
    /\ \A o \in Session \ {s} : request[o] # None => id \notin DOMAIN request[o].new[t]

LEMMA NewsKept ==
  ASSUME RequestsInv, NewInv, NEW s \in Session, Others(s),
         NEW N, \A t \in Table : N[t] \cap DOMAIN db[t] = {},
         \A t \in Table : \A o \in Session \ {s} : request[o] # None => N[t] \cap DOMAIN request[o].new[t] = {},
         request'[s] # None => \A t \in Table : DOMAIN request'[s].new[t] \subseteq N[t],
         \/ UNCHANGED db
         \/ /\ request'[s] # None => \A t \in Table : DOMAIN request'[s].new[t] = {}
            /\ \A t \in Table : DOMAIN db'[t] \subseteq DOMAIN db[t] \cup N[t]
  PROVE  NewInv'
<1> SUFFICES ASSUME NEW u \in Session, request'[u] # None, NEW t \in Table, NEW id \in DOMAIN request'[u].new[t]
             PROVE  /\ id \notin DOMAIN db'[t]
                    /\ \A o \in Session \ {u} : request'[o] # None => id \notin DOMAIN request'[o].new[t]
  BY DEF NewInv
<1>1. \A o \in Session \ {s} : request'[o] # None =>
        request[o] # None /\ DOMAIN request'[o].new[t] = DOMAIN request[o].new[t]
  BY DEF Others, StillPending
<1>2. CASE u = s
  <2>1. id \in N[t] /\ UNCHANGED db
    BY <1>2
  <2> QED
    BY <1>1, <1>2, <2>1
<1>3. CASE u # s
  <2>1. id \in DOMAIN request[u].new[t] /\ request[u] # None
    BY <1>1, <1>3
  <2>2. id \notin DOMAIN db[t] /\ id \notin N[t]
    BY <1>3, <2>1 DEF NewInv
  <2>3. id \notin DOMAIN db'[t]
    BY <2>2
  <2>4. \A o \in Session \ {u, s} : request'[o] # None => id \notin DOMAIN request'[o].new[t]
    BY <1>1, <2>1 DEF NewInv
  <2>5. request'[s] # None => id \notin DOMAIN request'[s].new[t]
    BY <2>2
  <2> QED
    BY <2>3, <2>4, <2>5
<1> QED
  BY <1>2, <1>3

----------------------------------------------------------------------------
(* Requests end once. *)

LEMMA EndsKept ==
  ASSUME RequestsInv, EndInv, NEW s \in Session, Others(s),
         given["prm"] \subseteq given'["prm"],
         DOMAIN ended' = Ids["prm"],
         \A id \in Ids["prm"] : /\ ended'[id] \in Nat
                                /\ ended'[id] # 0 =>
                                     /\ id \in given["prm"] \ DOMAIN db'["prm"]
                                     /\ \A o \in Session : request[o] # None => id \notin DOMAIN request[o].new["prm"],
         request'[s] # None =>
           /\ \A id \in given["prm"] : id \notin DOMAIN request'[s].new["prm"]
           /\ \A id : <<"end", id>> \in request'[s].seen =>
                /\ Ends(request[s], id)' /\ id \in given["prm"]
                /\ \A o \in Session \ {s} : request[o] # None => id \notin DOMAIN request[o].new["prm"]
  PROVE  EndInv'
<1>1. \A o \in Session \ {s} : request'[o] # None => StillPending(o)
  BY DEF Others
<1>2. ASSUME NEW id \in Ids["prm"], ended'[id] # 0
      PROVE  /\ id \in given'["prm"] \ DOMAIN db'["prm"]
             /\ \A o \in Session : request'[o] # None => id \notin DOMAIN request'[o].new["prm"]
  BY <1>1, <1>2 DEF StillPending
<1>3. ASSUME NEW u \in Session, request'[u] # None, NEW id, <<"end", id>> \in request'[u].seen
      PROVE  /\ Ends(request[u], id)'
             /\ \A o \in Session : request'[o] # None => id \notin DOMAIN request'[o].new["prm"]
  <2>1. CASE u = s
    BY <1>1, <1>3, <2>1 DEF StillPending
  <2>2. CASE u # s
    <3>1. StillPending(u)
      BY <1>1, <1>3, <2>2
    <3>2. /\ Ends(request[u], id)
          /\ \A o \in Session : request[o] # None => id \notin DOMAIN request[o].new["prm"]
      BY <1>3, <3>1 DEF StillPending, EndInv
    <3>3. id \in given["prm"] /\ id \in Ids["prm"]
      BY <3>2, TheRows, TheTables DEF Ends
    <3>4. request'[u].fresh => id \in DOMAIN db'["prm"] /\ <<"prm", id>> \in request'[u].seen
      <4>1. SUFFICES ASSUME request'[u].fresh
                     PROVE  id \in DOMAIN db'["prm"] /\ <<"prm", id>> \in request'[u].seen
        OBVIOUS
      <4>2. id \in Prms /\ <<"prm", id>> \in request[u].seen
        BY <3>1, <3>2, <4>1 DEF Ends, StillPending
      <4>3. Stays("prm", id)
        BY <3>1, <3>3, <4>1, <4>2, TheTables DEF StillPending
      <4> QED
        BY <3>1, <4>2, <4>3 DEF StillPending, Stays, Prms
    <3>5. Ends(request[u], id)'
      BY <3>1, <3>2, <3>3, <3>4 DEF Ends, StillPending, Prms
    <3>6. \A o \in Session : request'[o] # None => id \notin DOMAIN request'[o].new["prm"]
      BY <1>1, <3>2, <3>3 DEF StillPending
    <3> QED
      BY <3>5, <3>6
  <2> QED
    BY <2>1, <2>2
<1> QED
  BY <1>2, <1>3 DEF EndInv, Prms


LEMMA EndsInv ==
  ASSUME RequestsInv, NewInv, EndInv, NEW s \in Session
  PROVE  /\ Decides(s) => NewInv' /\ EndInv'
         /\ Loses(s) => NewInv' /\ EndInv'
         /\ Commit(s) => NewInv' /\ EndInv'
<1>1. ASSUME NEW w, NEW M, NEW A, Good(w, M, A), Does(s, w, M, A)
      PROVE  NewInv' /\ EndInv'
  <2>1. /\ Others(s) /\ request'[s] = w /\ RequestsInv' /\ UNCHANGED <<db, ended>>
        /\ \A t \in Table : given[t] \subseteq given'[t]
    <3>1. /\ Others(s) /\ request'[s] = w /\ RequestsInv'
          /\ \A t \in Table : given'[t] = given[t] \cup DOMAIN w.new[t]
      BY <1>1, DecidesInv
    <3>2. UNCHANGED <<db, ended>>
      BY <1>1 DEF Does
    <3> QED
      BY <3>1, <3>2
  <2>2. \A t \in Table : DOMAIN w.new[t] \cap given[t] = {}
    BY <1>1 DEF Good, NewIds
  <2>3. NewInv'
    <3> DEFINE N == [t \in Table |-> DOMAIN w.new[t]]
    <3>1. \A t \in Table : N[t] \cap DOMAIN db[t] = {}
      BY <2>2, TheRows
    <3>2. \A t \in Table : \A o \in Session \ {s} : request[o] # None => N[t] \cap DOMAIN request[o].new[t] = {}
      BY <2>2 DEF RequestsInv
    <3>3. request'[s] # None => \A t \in Table : DOMAIN request'[s].new[t] \subseteq N[t]
      BY <2>1
    <3> HIDE DEF N
    <3> QED
      BY <2>1, <3>1, <3>2, <3>3, NewsKept
  <2>4. EndInv'
    <3>1. \A id \in given["prm"] : id \notin DOMAIN request'[s].new["prm"]
      BY <2>1, <2>2, TheTables
    <3>2. ASSUME NEW id, <<"end", id>> \in request'[s].seen
          PROVE  /\ Ends(request[s], id)' /\ id \in given["prm"]
                 /\ \A o \in Session \ {s} : request[o] # None => id \notin DOMAIN request[o].new["prm"]
      <4>1. /\ id \in Prms /\ <<"prm", id>> \in w.seen /\ id \in w.drop["prm"]
            /\ w.op = "confirm" => id \in DOMAIN w.set["prm"]
        BY <1>1, <2>1, <3>2 DEF Good, Ending
      <4>2. id \in given["prm"] /\ id \in given'["prm"] /\ id \in DOMAIN db'["prm"]
        BY <2>1, <4>1, TheRows, TheTables DEF Prms
      <4>3. \A o \in Session \ {s} : request[o] # None => id \notin DOMAIN request[o].new["prm"]
        BY <4>1, TheTables DEF NewInv, Prms
      <4>4. Ends(request[s], id)'
        BY <2>1, <4>1, <4>2 DEF Ends, Prms
      <4> QED
        BY <4>2, <4>3, <4>4
    <3>3. /\ DOMAIN ended' = Ids["prm"]
          /\ \A id \in Ids["prm"] : /\ ended'[id] \in Nat
                                    /\ ended'[id] # 0 =>
                                         /\ id \in given["prm"] \ DOMAIN db'["prm"]
                                         /\ \A o \in Session : request[o] # None => id \notin DOMAIN request[o].new["prm"]
      BY <2>1 DEF EndInv, Prms
    <3> QED
      BY <2>1, <3>1, <3>2, <3>3, TheTables, EndsKept
  <2> QED
    BY <2>3, <2>4
<1>2. ASSUME Loses(s)
      PROVE  NewInv' /\ EndInv'
  <2>1. Others(s) /\ request'[s] = None /\ UNCHANGED <<db, ended, given>>
    BY <1>2, LosesInv DEF Loses
  <2>2. NewInv'
    <3> DEFINE N == [t \in Table |-> {}]
    <3>1. \A t \in Table : N[t] = {}
      OBVIOUS
    <3> HIDE DEF N
    <3> QED
      BY <2>1, <3>1, NewsKept
  <2>3. /\ DOMAIN ended' = Ids["prm"]
        /\ \A id \in Ids["prm"] : /\ ended'[id] \in Nat
                                  /\ ended'[id] # 0 =>
                                       /\ id \in given["prm"] \ DOMAIN db'["prm"]
                                       /\ \A o \in Session : request[o] # None => id \notin DOMAIN request[o].new["prm"]
    BY <2>1 DEF EndInv, Prms
  <2>4. EndInv'
    BY <2>1, <2>3, EndsKept
  <2> QED
    BY <2>2, <2>4
<1>3. ASSUME Commit(s)
      PROVE  NewInv' /\ EndInv'
  <2> DEFINE r == request[s]
  <2>1. /\ Others(s) /\ Committed(s, r) /\ UNCHANGED given
        /\ request'[s] # None => More(request'[s], r)
    BY <1>3, CommitInv DEF Committed
  <2>2. request'[s] # None => \A t \in Table : DOMAIN request'[s].new[t] = {}
    BY <2>1 DEF More
  <2>3. NewInv'
    <3> DEFINE N == [t \in Table |-> DOMAIN r.new[t]]
    <3>1. \A t \in Table : N[t] \cap DOMAIN db[t] = {}
      BY <2>1 DEF NewInv, Committed
    <3>2. \A t \in Table : \A o \in Session \ {s} : request[o] # None => N[t] \cap DOMAIN request[o].new[t] = {}
      BY <2>1 DEF NewInv, Committed
    <3>3. \A t \in Table : DOMAIN db'[t] \subseteq DOMAIN db[t] \cup N[t]
      BY <2>1 DEF Committed
    <3> HIDE DEF N, r
    <3> QED
      BY <2>1, <2>2, <3>1, <3>2, <3>3, NewsKept
  <2>4. ASSUME NEW id \in Ids["prm"]
        PROVE  /\ ended'[id] \in Nat
               /\ ended'[id] # 0 =>
                    /\ id \in given["prm"] \ DOMAIN db'["prm"]
                    /\ \A o \in Session : request[o] # None => id \notin DOMAIN request[o].new["prm"]
    <3>1. ended'[id] = ended[id] + IF <<"end", id>> \in r.seen THEN 1 ELSE 0
      BY <2>1 DEF Committed
    <3>2. ended[id] \in Nat
      BY DEF EndInv
    <3>5. DOMAIN db'["prm"] = (Prms \ r.drop["prm"]) \cup DOMAIN r.new["prm"] /\ r # None
      BY <2>1, TheTables DEF Committed, Prms
    <3>3. CASE <<"end", id>> \in r.seen
      <4>1. /\ Ends(r, id)
            /\ \A o \in Session : request[o] # None => id \notin DOMAIN request[o].new["prm"]
        BY <3>3, <3>5 DEF EndInv
      <4>2. id \in given["prm"] \ DOMAIN db'["prm"]
        BY <3>5, <4>1 DEF Ends
      <4> QED
        BY <3>1, <3>2, <4>1, <4>2
    <3>4. CASE <<"end", id>> \notin r.seen
      <4>1. ended'[id] = ended[id]
        BY <3>1, <3>2, <3>4
      <4>2. ended[id] # 0 => /\ id \in given["prm"] \ Prms
                             /\ \A o \in Session : request[o] # None => id \notin DOMAIN request[o].new["prm"]
        BY DEF EndInv
      <4> QED
        BY <3>2, <3>5, <4>1, <4>2
    <3> QED
      BY <3>3, <3>4
  <2>5. DOMAIN ended' = Ids["prm"]
    BY <2>1 DEF Committed
  <2>6. request'[s] # None => \A id : <<"end", id>> \notin request'[s].seen
    BY <2>1 DEF More
  <2> HIDE DEF r
  <2>7. EndInv'
    BY <2>1, <2>2, <2>4, <2>5, <2>6, TheTables, EndsKept
  <2> QED
    BY <2>3, <2>7
<1> QED
  BY <1>1, <1>2, <1>3 DEF Decides


----------------------------------------------------------------------------
(* Codes *)

LEMMA CodeFacts ==
  ASSUME CodeInv, None \notin Nat
  PROVE  /\ None \notin Sent /\ Code \notin Sent /\ Code # None /\ Code \in Nat
         /\ \A v \in Sent : v \in Nat /\ v # None
         /\ \A m \in mails : m.code # None
         /\ \A t, id, c, v, o, i, d : Holds(t, id, c, v) /\ Holds(o, i, d, v) /\ v # None => t = o /\ id = i /\ c = d
<1>1. Cardinality(mails) \in Nat
  BY FS_CardinalityType DEF CodeInv
<1>2. \A v \in Sent : v \in 1 .. Cardinality(mails)
  BY DEF CodeInv, Sent
<1>3. \A m \in mails : m.code \in Sent
  BY DEF Sent
<1>4. \A t, id, c, v, o, i, d : Holds(t, id, c, v) /\ Holds(o, i, d, v) /\ v # None => t = o /\ id = i /\ c = d
  <2> SUFFICES ASSUME NEW t, NEW id, NEW c, NEW v, NEW o, NEW i, NEW d,
                      Holds(t, id, c, v), Holds(o, i, d, v), v # None
               PROVE  t = o /\ id = i /\ c = d
    OBVIOUS
  <2>1. <<o, i, d>> = <<t, id, c>>
    BY DEF CodeInv
  <2> QED
    BY <2>1
<1> QED
  BY <1>1, <1>2, <1>3, <1>4 DEF Code

(* A mail with a new code                                                  *)
LEMMA MailsGrow ==
  ASSUME CodeInv, None \notin Nat, NEW M, M = {} \/ \E e, box : M = {MailTo(e, box)}, mails' = mails \cup M
  PROVE  /\ IsFiniteSet(mails') /\ \A m \in mails' : m.code \in 1 .. Cardinality(mails')
         /\ \A m, n \in mails' : m.code = n.code => m = n
         /\ Sent \subseteq Sent' /\ (M # {} => Code \in Sent')
<1>1. IsFiniteSet(mails) /\ Cardinality(mails) \in Nat
  BY FS_CardinalityType DEF CodeInv
<1>2. CASE M = {}
  <2>1. mails' = mails
    BY <1>2
  <2> QED
    BY <1>2, <2>1 DEF CodeInv, Sent
<1>3. CASE M # {}
  <2>1. PICK e, box : M = {MailTo(e, box)}
    BY <1>3
  <2> DEFINE n == MailTo(e, box)
  <2>2. n.code = Code /\ n \notin mails
    <3>1. n.code = Code
      BY DEF MailTo
    <3> HIDE DEF n
    <3> QED
      BY <3>1, CodeFacts DEF Sent
  <2> HIDE DEF n
  <2>3. mails' = mails \cup {n}
    BY <2>1 DEF n
  <2>4. IsFiniteSet(mails') /\ Cardinality(mails') = Cardinality(mails) + 1
    <3>1. IsFiniteSet(mails \cup {n}) /\ Cardinality(mails \cup {n}) = Cardinality(mails) + 1
      BY <1>1, <2>2, FS_AddElement
    <3> QED
      BY <2>3, <3>1
  <2>5. \A m \in mails : m.code \in 1 .. Cardinality(mails) /\ m.code # Code
    BY CodeFacts DEF CodeInv, Sent
  <2>6. ASSUME NEW m \in mails'
        PROVE  m.code \in 1 .. Cardinality(mails')
    BY <1>1, <2>2, <2>3, <2>4, <2>5 DEF Code
  <2>7. ASSUME NEW m \in mails', NEW k \in mails', m.code = k.code
        PROVE  m = k
    BY <2>2, <2>3, <2>5, <2>7 DEF CodeInv
  <2>8. Sent \subseteq Sent' /\ Code \in Sent'
    BY <2>2, <2>3 DEF Sent
  <2> QED
    BY <2>4, <2>6, <2>7, <2>8
<1> QED
  BY <1>2, <1>3

(* The parts of CodeInv, by one session *)
HeldWell ==
  \A t, id, c, v : Holds(t, id, c, v) /\ v # None =>
    /\ v \in Sent \ answered
    /\ \A o, i, d : Holds(o, i, d, v) => <<o, i, d>> = <<t, id, c>>

GivenWell(s) ==
  \A t, id, c, v : Gives(request[s], t, id, c, v) /\ v # None =>
    /\ v \in Sent \ answered
    /\ \A o, i, d : ~ Holds(o, i, d, v)
    /\ \A u \in Session : \A o, i, d : request[u] # None /\ Gives(request[u], o, i, d, v) =>
         <<u, o, i, d>> = <<s, t, id, c>>
    /\ \A u \in Session : request[u] # None => <<"code", v>> \notin request[u].seen

AnsweredWell(s) == \A v : <<"code", v>> \in request[s].seen => Answers(request[s], v)

LEMMA CodeParts ==
  CodeInv <=> /\ IsFiniteSet(mails) /\ answered \subseteq Sent
              /\ \A m \in mails : m.code \in 1 .. Cardinality(mails)
              /\ \A m, n \in mails : m.code = n.code => m = n
              /\ HeldWell
              /\ \A s \in Session : request[s] # None => GivenWell(s) /\ AnsweredWell(s)
BY DEF CodeInv, HeldWell, GivenWell, AnsweredWell

LEMMA OthersGive ==
  ASSUME NEW s \in Session, Others(s), NEW o \in Session \ {s}, request'[o] # None
  PROVE  /\ request[o] # None /\ request'[o].seen = request[o].seen
         /\ \A t, id, c, v : Gives(request'[o], t, id, c, v) <=> Gives(request[o], t, id, c, v)
         /\ \A t, id, c : Sets(request'[o], t, id, c) <=> Sets(request[o], t, id, c)
         /\ request'[o].set = request[o].set
BY DEF Others, StillPending, Gives, Sets


LEMMA CodesDecide ==
  ASSUME RequestsInv, CodeInv, NEW s \in Session, NEW w, NEW M, NEW A, Good(w, M, A), Does(s, w, M, A)
  PROVE  CodeInv'
<1>1. Others(s) /\ request'[s] = w
  BY DecidesInv
<1>2. UNCHANGED <<db, answered>> /\ mails' = mails \cup M /\ (M = {} \/ \E e, box : M = {MailTo(e, box)})
  BY DEF Does
<1>3. None \notin Nat
  BY TheRows
<1>4. /\ IsFiniteSet(mails') /\ \A m \in mails' : m.code \in 1 .. Cardinality(mails')
      /\ \A m, n \in mails' : m.code = n.code => m = n
      /\ Sent \subseteq Sent' /\ (M # {} => Code \in Sent')
  BY <1>2, <1>3, MailsGrow
<1>5. \A t, id, c, v : Holds(t, id, c, v)' <=> Holds(t, id, c, v)
  BY <1>2 DEF Holds
<1>6. /\ answered \subseteq Sent /\ HeldWell
      /\ \A u \in Session : request[u] # None => GivenWell(u) /\ AnsweredWell(u)
  BY CodeParts
<1>7. answered' \subseteq Sent' /\ HeldWell'
  BY <1>2, <1>4, <1>5, <1>6 DEF HeldWell
<1>8. Code \notin Sent /\ \A v \in Sent : v # None
  BY <1>3, CodeFacts
<1>9. \A t, id, c, v : Holds(t, id, c, v) /\ v # None => v \in Sent
  BY <1>6 DEF HeldWell
<1>10. ASSUME NEW u \in Session \ {s}, request'[u] # None
       PROVE  /\ request[u] # None /\ request'[u].seen = request[u].seen
              /\ \A t, id, c, v : Gives(request'[u], t, id, c, v) <=> Gives(request[u], t, id, c, v)
              /\ \A v : <<"code", v>> \in request[u].seen => v \in Sent
              /\ \A t, id, c, v : Gives(request[u], t, id, c, v) /\ v # None => v \in Sent \ answered
  <2>1. request[u] # None
    BY <1>1, <1>10, OthersGive
  <2> QED
    BY <1>1, <1>6, <1>10, <2>1, OthersGive DEF GivenWell, AnsweredWell, Answers
<1>11. /\ \A v : <<"code", v>> \in w.seen => v \in Sent
       /\ \A t, id, c, v : Gives(w, t, id, c, v) /\ v # None =>
            v = Code /\ M # {} /\ \A o, i, d : Gives(w, o, i, d, v) => <<o, i, d>> = <<t, id, c>>
  BY DEF Good, Answering, Coding
<1>12. ASSUME request'[s] # None
       PROVE  GivenWell(s)' /\ AnsweredWell(s)'
  <2>1. GivenWell(s)'
    <3> SUFFICES ASSUME NEW t, NEW id, NEW c, NEW v, Gives(w, t, id, c, v), v # None
                 PROVE  /\ v \in Sent' \ answered'
                        /\ \A o, i, d : ~ Holds(o, i, d, v)'
                        /\ \A u \in Session : \A o, i, d : request'[u] # None /\ Gives(request'[u], o, i, d, v) =>
                             <<u, o, i, d>> = <<s, t, id, c>>
                        /\ \A u \in Session : request'[u] # None => <<"code", v>> \notin request'[u].seen
      BY <1>1 DEF GivenWell
    <3>1. v = Code /\ M # {} /\ \A o, i, d : Gives(w, o, i, d, v) => <<o, i, d>> = <<t, id, c>>
      BY <1>11
    <3>2. v \in Sent' \ answered' /\ v \notin Sent
      BY <1>2, <1>4, <1>6, <1>8, <3>1
    <3>3. \A o, i, d : ~ Holds(o, i, d, v)'
      BY <1>5, <1>9, <3>2
    <3>4. ASSUME NEW u \in Session, NEW o, NEW i, NEW d, request'[u] # None, Gives(request'[u], o, i, d, v)
          PROVE  <<u, o, i, d>> = <<s, t, id, c>>
      <4>1. u = s
        BY <1>10, <3>2, <3>4
      <4> QED
        BY <1>1, <3>1, <3>4, <4>1
    <3>5. \A u \in Session : request'[u] # None => <<"code", v>> \notin request'[u].seen
      BY <1>1, <1>10, <1>11, <3>2
    <3> QED
      BY <3>2, <3>3, <3>4, <3>5
  <2>2. AnsweredWell(s)'
    <3> SUFFICES ASSUME NEW v, <<"code", v>> \in w.seen
                 PROVE  Answers(request[s], v)'
      BY <1>1 DEF AnsweredWell
    <3>1. PICK t, id, c : Holds(t, id, c, v) /\ <<t, id>> \in w.seen /\ Sets(w, t, id, c) /\ w.set[t][id][c] = None
      BY DEF Good, Answering
    <3>2. v \in Sent /\ v # None
      BY <1>8, <1>11
    <3>3. \A o, i, d : Holds(o, i, d, v) => Sets(w, o, i, d) /\ w.set[o][i][d] = None
      BY <1>3, <3>1, <3>2, CodeFacts
    <3> QED
      BY <1>1, <1>4, <1>5, <3>1, <3>2, <3>3 DEF Answers
  <2> QED
    BY <2>1, <2>2
<1>13. ASSUME NEW u \in Session \ {s}, request'[u] # None
       PROVE  GivenWell(u)' /\ AnsweredWell(u)'
  <2>1. request[u] # None /\ GivenWell(u) /\ AnsweredWell(u)
    BY <1>6, <1>10, <1>13
  <2>2. GivenWell(u)'
    <3> SUFFICES ASSUME NEW t, NEW id, NEW c, NEW v, Gives(request'[u], t, id, c, v), v # None
                 PROVE  /\ v \in Sent' \ answered'
                        /\ \A o, i, d : ~ Holds(o, i, d, v)'
                        /\ \A x \in Session : \A o, i, d : request'[x] # None /\ Gives(request'[x], o, i, d, v) =>
                             <<x, o, i, d>> = <<u, t, id, c>>
                        /\ \A x \in Session : request'[x] # None => <<"code", v>> \notin request'[x].seen
      BY DEF GivenWell
    <3>1. Gives(request[u], t, id, c, v)
      BY <1>10, <1>13
    <3>2. /\ v \in Sent \ answered /\ \A o, i, d : ~ Holds(o, i, d, v)
          /\ \A x \in Session : \A o, i, d : request[x] # None /\ Gives(request[x], o, i, d, v) =>
               <<x, o, i, d>> = <<u, t, id, c>>
          /\ \A x \in Session : request[x] # None => <<"code", v>> \notin request[x].seen
      BY <2>1, <3>1 DEF GivenWell
    <3>3. ASSUME NEW x \in Session, NEW o, NEW i, NEW d, request'[x] # None, Gives(request'[x], o, i, d, v)
          PROVE  <<x, o, i, d>> = <<u, t, id, c>>
      <4>1. x # s
        BY <1>1, <1>8, <1>11, <3>2, <3>3
      <4> QED
        BY <1>10, <3>2, <3>3, <4>1
    <3>4. <<"code", v>> \notin w.seen
      BY <3>2 DEF Good, Answering
    <3>5. \A x \in Session : request'[x] # None => <<"code", v>> \notin request'[x].seen
      BY <1>1, <1>10, <3>2, <3>4
    <3> QED
      BY <1>2, <1>4, <1>5, <3>2, <3>3, <3>5
  <2>3. AnsweredWell(u)'
    <3> SUFFICES ASSUME NEW v, <<"code", v>> \in request'[u].seen
                 PROVE  Answers(request[u], v)'
      BY DEF AnsweredWell
    <3>1. Answers(request[u], v)
      BY <1>10, <1>13, <2>1 DEF AnsweredWell
    <3>2. /\ request'[u].set = request[u].set /\ request'[u].seen = request[u].seen
          /\ request'[u].fresh => request[u].fresh
      BY <1>1, <1>13 DEF Others, StillPending
    <3> QED
      BY <1>4, <1>5, <3>1, <3>2 DEF Answers, Sets
  <2> QED
    BY <2>2, <2>3
<1>14. \A u \in Session : request'[u] # None => GivenWell(u)' /\ AnsweredWell(u)'
  BY <1>12, <1>13
<1> QED
  BY <1>4, <1>7, <1>14 DEF CodeInv, HeldWell, GivenWell, AnsweredWell


LEMMA GivenIs ==
  ASSUME NEW s, GivenWell(s), NEW t, NEW id, NEW c, NEW v, Gives(request[s], t, id, c, v), v # None
  PROVE  /\ v \in Sent /\ v \notin answered
         /\ \A o, i, d : ~ Holds(o, i, d, v)
         /\ \A u \in Session : \A o, i, d : request[u] # None /\ Gives(request[u], o, i, d, v) =>
              u = s /\ o = t /\ i = id /\ d = c
         /\ \A u \in Session : request[u] # None => <<"code", v>> \notin request[u].seen
<1>1. /\ v \in Sent \ answered
      /\ \A o, i, d : ~ Holds(o, i, d, v)
      /\ \A u \in Session : \A o, i, d : request[u] # None /\ Gives(request[u], o, i, d, v) =>
           <<u, o, i, d>> = <<s, t, id, c>>
      /\ \A u \in Session : request[u] # None => <<"code", v>> \notin request[u].seen
  BY DEF GivenWell
<1>2. ASSUME NEW u \in Session, NEW o, NEW i, NEW d, request[u] # None, Gives(request[u], o, i, d, v)
      PROVE  u = s /\ o = t /\ i = id /\ d = c
  <2>1. <<u, o, i, d>> = <<s, t, id, c>>
    BY <1>1, <1>2
  <2> QED
    BY <2>1
<1> QED
  BY <1>1, <1>2

(* A commit writes what the request gives, and keeps what it does not set. *)
LEMMA HoldsAfter ==
  ASSUME RequestsInv, NEW s \in Session, Committed(s, request[s]), NEW t, NEW id, NEW c, NEW v, Holds(t, id, c, v)'
  PROVE  \/ Gives(request[s], t, id, c, v)
         \/ Holds(t, id, c, v) /\ ~ Sets(request[s], t, id, c)
<1> DEFINE r == request[s]
<1>1. <<t, c>> \in Slots /\ id \in DOMAIN db'[t] /\ db'[t][id][c] = v
  BY DEF Holds
<1>2. t \in Table /\ c \in Columns[t]
  BY <1>1, TheTables DEF Slots
<1>3. db'[t][id][c] = Value(r, t, id, c) /\ id \in DOMAIN db[t] \cup DOMAIN r.new[t]
  BY <1>1, <1>2 DEF Committed
<1> HIDE DEF r
<1>4. Gives(r, t, id, c, v) \/ (Holds(t, id, c, v) /\ ~ Sets(r, t, id, c))
  BY <1>1, <1>3 DEF Value, Gives, Holds
<1> QED
  BY <1>4 DEF r

LEMMA OneGiver ==
  ASSUME NEW s, GivenWell(s), NEW t, NEW id, NEW c, NEW v, Gives(request[s], t, id, c, v), v # None
  PROVE  \A u \in Session : \A o, i, d : request[u] # None /\ Gives(request[u], o, i, d, v) =>
           u = s /\ o = t /\ i = id /\ d = c
<1>1. /\ v \in Sent /\ v \notin answered
      /\ \A o, i, d : ~ Holds(o, i, d, v)
      /\ \A u \in Session : \A o, i, d : request[u] # None /\ Gives(request[u], o, i, d, v) =>
           u = s /\ o = t /\ i = id /\ d = c
      /\ \A u \in Session : request[u] # None => <<"code", v>> \notin request[u].seen
  BY GivenIs
<1> QED
  BY <1>1

LEMMA CodesLose ==
  ASSUME RequestsInv, CodeInv, NEW s \in Session, Loses(s)
  PROVE  CodeInv'
<1>1. Others(s) /\ request'[s] = None /\ UNCHANGED <<db, mails, answered>>
  BY LosesInv DEF Loses
<1>2. /\ IsFiniteSet(mails') /\ answered' \subseteq Sent' /\ Sent' = Sent
      /\ \A m \in mails' : m.code \in 1 .. Cardinality(mails')
      /\ \A m, n \in mails' : m.code = n.code => m = n
  BY <1>1 DEF CodeInv, Sent
<1>3. \A t, id, c, v : Holds(t, id, c, v)' <=> Holds(t, id, c, v)
  BY <1>1 DEF Holds
<1>4. HeldWell /\ \A u \in Session : request[u] # None => GivenWell(u) /\ AnsweredWell(u)
  BY CodeParts
<1>5. HeldWell'
  BY <1>1, <1>2, <1>3, <1>4 DEF HeldWell
<1>6. ASSUME NEW u \in Session, request'[u] # None
      PROVE  /\ request[u] # None /\ request'[u].seen = request[u].seen /\ request'[u].set = request[u].set
             /\ request'[u].fresh => request[u].fresh
             /\ \A t, id, c, v : Gives(request'[u], t, id, c, v) <=> Gives(request[u], t, id, c, v)
  <2>1. u # s
    BY <1>1, <1>6
  <2> QED
    BY <1>1, <1>6, <2>1, OthersGive DEF Others, StillPending
<1>7. ASSUME NEW u \in Session, request'[u] # None
      PROVE  GivenWell(u)' /\ AnsweredWell(u)'
  <2>1. GivenWell(u) /\ AnsweredWell(u)
    BY <1>4, <1>6, <1>7
  <2>2. GivenWell(u)'
    <3> SUFFICES ASSUME NEW t, NEW id, NEW c, NEW v, Gives(request'[u], t, id, c, v), v # None
                 PROVE  /\ v \in Sent' \ answered'
                        /\ \A o, i, d : ~ Holds(o, i, d, v)'
                        /\ \A x \in Session : \A o, i, d : request'[x] # None /\ Gives(request'[x], o, i, d, v) =>
                             <<x, o, i, d>> = <<u, t, id, c>>
                        /\ \A x \in Session : request'[x] # None => <<"code", v>> \notin request'[x].seen
      BY DEF GivenWell
    <3>1. Gives(request[u], t, id, c, v)
      BY <1>6, <1>7
    <3>2. /\ v \in Sent /\ v \notin answered
          /\ \A o, i, d : ~ Holds(o, i, d, v)
          /\ \A x \in Session : \A o, i, d : request[x] # None /\ Gives(request[x], o, i, d, v) =>
               x = u /\ o = t /\ i = id /\ d = c
          /\ \A x \in Session : request[x] # None => <<"code", v>> \notin request[x].seen
      BY <2>1, <3>1, GivenIs
    <3>3. ASSUME NEW x \in Session, NEW o, NEW i, NEW d, request'[x] # None, Gives(request'[x], o, i, d, v)
          PROVE  <<x, o, i, d>> = <<u, t, id, c>>
      BY <1>6, <3>2, <3>3, ZenonT(30)
    <3>4. \A x \in Session : request'[x] # None => <<"code", v>> \notin request'[x].seen
      BY <1>6, <3>2
    <3> QED
      BY <1>1, <1>2, <1>3, <3>2, <3>3, <3>4
  <2>3. AnsweredWell(u)'
    BY <1>2, <1>3, <1>6, <1>7, <2>1 DEF AnsweredWell, Answers, Sets
  <2> QED
    BY <2>2, <2>3
<1> QED
  BY <1>2, <1>5, <1>7 DEF CodeInv, HeldWell, GivenWell, AnsweredWell

LEMMA CodesCommit ==
  ASSUME RequestsInv, CodeInv, NEW s \in Session, Commit(s)
  PROVE  CodeInv'
<1> DEFINE r == request[s]
<1>1. /\ Others(s) /\ Committed(s, r)
      /\ request'[s] # None => More(request'[s], r)
  BY CommitInv
<1>2. /\ mails' = mails /\ r # None
      /\ answered' = answered \cup {m.code : m \in {m \in mails : <<"code", m.code>> \in r.seen}}
  BY <1>1 DEF Committed
<1>3. /\ IsFiniteSet(mails') /\ answered' \subseteq Sent' /\ Sent' = Sent
      /\ \A m \in mails' : m.code \in 1 .. Cardinality(mails')
      /\ \A m, n \in mails' : m.code = n.code => m = n
  <2>1. IsFiniteSet(mails) /\ answered \subseteq Sent /\ (\A m \in mails : m.code \in 1 .. Cardinality(mails))
        /\ \A m, n \in mails : m.code = n.code => m = n
    BY DEF CodeInv
  <2>2. Sent' = Sent
    BY <1>2 DEF Sent
  <2>3. answered' \subseteq Sent
    BY <1>2, <2>1 DEF Sent
  <2> QED
    BY <1>2, <2>1, <2>2, <2>3
<1>4. HeldWell /\ (\A u \in Session : request[u] # None => GivenWell(u) /\ AnsweredWell(u)) /\ GivenWell(s) /\ AnsweredWell(s)
  BY <1>2, CodeParts
<1>5. \A v : v \in answered' => v \in answered \/ <<"code", v>> \in r.seen
  BY <1>2
<1> HIDE DEF r
<1>6. \A t, id, c, v : Holds(t, id, c, v)' =>
        Gives(r, t, id, c, v) \/ (Holds(t, id, c, v) /\ ~ Sets(r, t, id, c))
  BY <1>1, HoldsAfter DEF r
<1>7. ASSUME NEW t, NEW id, NEW c, NEW v, Gives(r, t, id, c, v), v # None
      PROVE  /\ v \in Sent /\ v \notin answered
             /\ \A o, i, d : ~ Holds(o, i, d, v)
             /\ \A u \in Session : \A o, i, d : request[u] # None /\ Gives(request[u], o, i, d, v) =>
                  u = s /\ o = t /\ i = id /\ d = c
             /\ \A u \in Session : request[u] # None => <<"code", v>> \notin request[u].seen
  <2>1. GivenWell(s) /\ Gives(request[s], t, id, c, v)
    BY <1>4, <1>7 DEF r
  <2> QED
    BY <1>7, <2>1, GivenIs
<1>8. \A t, id, c, v : Holds(t, id, c, v) /\ ~ Sets(r, t, id, c) => <<"code", v>> \notin r.seen
  BY <1>4 DEF AnsweredWell, Answers, r
<1>9. request[s] = r /\ r # None
  BY <1>2 DEF r
<1>10. HeldWell'
  <2> SUFFICES ASSUME NEW t, NEW id, NEW c, NEW v, Holds(t, id, c, v)', v # None
               PROVE  /\ v \in Sent' \ answered'
                      /\ \A o, i, d : Holds(o, i, d, v)' => <<o, i, d>> = <<t, id, c>>
    BY DEF HeldWell
  <2>1. CASE Gives(r, t, id, c, v)
    <3>3. GivenWell(s) /\ Gives(request[s], t, id, c, v)
      BY <1>4, <2>1 DEF r
    <3>4. \A u \in Session : \A p, j, k : request[u] # None /\ Gives(request[u], p, j, k, v) =>
            u = s /\ p = t /\ j = id /\ k = c
      BY <3>3, OneGiver
    <3>1. v \in Sent' \ answered'
      BY <1>3, <1>5, <1>7, <1>9, <2>1
    <3>2. ASSUME NEW o, NEW i, NEW d, Holds(o, i, d, v)'
          PROVE  <<o, i, d>> = <<t, id, c>>
      <4>1. Gives(r, o, i, d, v)
        BY <1>6, <1>7, <2>1, <3>2
      <4>4. request[s] # None /\ Gives(request[s], o, i, d, v)
        BY <1>9, <4>1
      <4>2. o = t /\ i = id /\ d = c
        BY <3>4, <4>4
      <4> QED
        BY <4>2
    <3> QED
      BY <3>1, <3>2
  <2>2. CASE Holds(t, id, c, v) /\ ~ Sets(r, t, id, c)
    <3>1. v \in Sent \ answered /\ \A o, i, d : Holds(o, i, d, v) => <<o, i, d>> = <<t, id, c>>
      BY <1>4, <2>2 DEF HeldWell
    <3>2. v \in Sent' \ answered'
      BY <1>3, <1>5, <1>8, <2>2, <3>1
    <3>3. \A o, i, d : Holds(o, i, d, v)' => Holds(o, i, d, v)
      BY <1>6, <1>7, <2>2
    <3> QED
      BY <3>1, <3>2, <3>3
  <2> QED
    BY <1>6, <2>1, <2>2
<1>11. ASSUME NEW u \in Session, request'[u] # None
       PROVE  \A t, id, c, v : Gives(request'[u], t, id, c, v) => u # s
  <2>1. SUFFICES ASSUME u = s, NEW t, NEW id, NEW c, NEW v, Gives(request'[u], t, id, c, v)
                 PROVE  FALSE
    OBVIOUS
  <2>2. t \in Table
    BY <2>1 DEF Gives, Slots, Table
  <2>3. DOMAIN request'[u].new[t] = {} /\ DOMAIN request'[u].set[t] = {}
    BY <1>1, <1>11, <2>1, <2>2 DEF More
  <2> QED
    BY <2>1, <2>3 DEF Gives, Sets
<1>12. request'[s] # None => \A v : <<"code", v>> \notin request'[s].seen
  BY <1>1 DEF More
<1>13. ASSUME NEW u \in Session \ {s}, request'[u] # None
       PROVE  /\ request[u] # None /\ request'[u].seen = request[u].seen /\ request'[u].set = request[u].set
              /\ \A t, id, c, v : Gives(request'[u], t, id, c, v) <=> Gives(request[u], t, id, c, v)
  BY <1>1, <1>13, OthersGive
<1>14. ASSUME NEW u \in Session, request'[u] # None
       PROVE  GivenWell(u)'
  <2> SUFFICES ASSUME NEW t, NEW id, NEW c, NEW v, Gives(request'[u], t, id, c, v), v # None
               PROVE  /\ v \in Sent' \ answered'
                      /\ \A o, i, d : ~ Holds(o, i, d, v)'
                      /\ \A x \in Session : \A o, i, d : request'[x] # None /\ Gives(request'[x], o, i, d, v) =>
                           <<x, o, i, d>> = <<u, t, id, c>>
                      /\ \A x \in Session : request'[x] # None => <<"code", v>> \notin request'[x].seen
    BY DEF GivenWell
  <2>1. u # s
    BY <1>11, <1>14
  <2>2. request[u] # None /\ Gives(request[u], t, id, c, v)
    BY <1>13, <1>14, <2>1
  <2>3. /\ v \in Sent /\ v \notin answered
        /\ \A o, i, d : ~ Holds(o, i, d, v)
        /\ \A x \in Session : \A o, i, d : request[x] # None /\ Gives(request[x], o, i, d, v) =>
             x = u /\ o = t /\ i = id /\ d = c
        /\ \A x \in Session : request[x] # None => <<"code", v>> \notin request[x].seen
    <3>1. GivenWell(u)
      BY <1>4, <2>2
    <3> QED
      BY <2>2, <3>1, GivenIs
  <2>4. v \in Sent' \ answered'
    BY <1>3, <1>5, <1>9, <2>3
  <2>5. \A o, i, d : ~ Holds(o, i, d, v)'
    <3>1. ASSUME NEW o, NEW i, NEW d, Gives(r, o, i, d, v)
          PROVE  FALSE
      <4>1. s = u
        BY <1>9, <2>3, <3>1
      <4> QED
        BY <2>1, <4>1
    <3> QED
      BY <1>6, <2>3, <3>1
  <2>6. ASSUME NEW x \in Session, NEW o, NEW i, NEW d, request'[x] # None, Gives(request'[x], o, i, d, v)
        PROVE  <<x, o, i, d>> = <<u, t, id, c>>
    <3>1. x # s
      BY <1>11, <2>6
    <3> QED
      BY <1>13, <2>3, <2>6, <3>1
  <2>7. \A x \in Session : request'[x] # None => <<"code", v>> \notin request'[x].seen
    BY <1>12, <1>13, <2>3
  <2> QED
    BY <2>4, <2>5, <2>6, <2>7
<1>15. ASSUME NEW u \in Session, request'[u] # None
       PROVE  AnsweredWell(u)'
  <2> SUFFICES ASSUME NEW v, <<"code", v>> \in request'[u].seen
               PROVE  Answers(request[u], v)'
    BY DEF AnsweredWell
  <2>1. u # s
    BY <1>12, <1>15
  <2>2. Answers(request[u], v) /\ <<"code", v>> \in request[u].seen /\ request[u] # None
    BY <1>4, <1>13, <1>15, <2>1 DEF AnsweredWell
  <2>3. request'[u].set = request[u].set /\ request'[u].seen = request[u].seen
    BY <1>13, <1>15, <2>1
  <2>4. v \in Sent' /\ v # None
    BY <1>3, <2>2, CodeFacts, TheRows DEF Answers
  <2>5. ASSUME NEW t, NEW id, NEW c, Holds(t, id, c, v)'
        PROVE  Sets(request'[u], t, id, c) /\ request'[u].set[t][id][c] = None
    <3>1. ~ Gives(r, t, id, c, v)
      BY <1>7, <2>2, <2>4
    <3>2. Holds(t, id, c, v)
      BY <1>6, <2>5, <3>1
    <3> QED
      BY <2>2, <2>3, <3>2 DEF Answers, Sets
  <2>6. request'[u].fresh => \E t, id, c : Holds(t, id, c, v)' /\ <<t, id>> \in request'[u].seen
    <3>1. SUFFICES ASSUME request'[u].fresh
                   PROVE  \E t, id, c : Holds(t, id, c, v)' /\ <<t, id>> \in request'[u].seen
      OBVIOUS
    <3>2. StillPending(u)
      BY <1>1, <1>15, <2>1 DEF Others
    <3>3. request[u].fresh
      BY <3>1, <3>2 DEF StillPending
    <3>4. PICK t, id, c : Holds(t, id, c, v) /\ <<t, id>> \in request[u].seen
      BY <2>2, <3>3 DEF Answers
    <3>5. t \in Table /\ id \in Ids[t]
      <4>1. t \in Table /\ id \in DOMAIN db[t]
        BY <3>4 DEF Holds, Slots, Table
      <4> QED
        BY <4>1, TheRows
    <3>6. Stays(t, id)
      BY <3>1, <3>2, <3>4, <3>5 DEF StillPending
    <3>7. Holds(t, id, c, v)'
      BY <3>4, <3>6 DEF Stays, Holds
    <3> QED
      BY <2>3, <3>4, <3>7
  <2> QED
    BY <2>4, <2>5, <2>6 DEF Answers
<1> QED
  BY <1>3, <1>10, <1>14, <1>15 DEF CodeInv, HeldWell, GivenWell, AnsweredWell


----------------------------------------------------------------------------
(* Keys stand by the addresses to which they went. *)

LEMMA MixedAfter ==
  ASSUME RequestsInv, NEW s \in Session, Commit(s), NEW t \in Table, NEW id \in DOMAIN db'[t], <<t, id>> \notin mixed'
  PROVE  \/ <<t, id>> \notin mixed /\ ~ Sets(request[s], t, id, "key") /\ ~ Sets(request[s], t, id, "email")
         \/ /\ request[s].fresh /\ request[s].op # "edit"
            /\ <<t, id>> \notin mixed \/ Sets(request[s], t, id, "key")
<1> DEFINE r == request[s]
<1>1. mixed' = {k \in Keys : Image(k)' # << >>} \cap
        IF r.op = "edit" \/ ~ r.fresh THEN mixed \cup Writes(r, {"email", "key"}) ELSE mixed \ Writes(r, {"key"})
  BY DEF Commit
<1>2. id \in Ids[t] /\ DOMAIN db'[t][id] = Columns[t]
  BY CommitInv DEF RequestsInv, RequestTypes
<1> HIDE DEF r
<1>3. <<t, id>> \in Keys
  BY <1>2, TheTables DEF Keys
<1>4. Image(<<t, id>>)' # << >>
  <2>1. Image(<<t, id>>)' = db'[t][id]
    BY DEF Image
  <2>2. Columns[t] # {}
    BY TheTables
  <2> QED
    BY <1>2, <2>1, <2>2, NoRows
<1>5. \A fields : <<t, id>> \in Writes(r, fields) <=> \E c \in fields : Sets(r, t, id, c)
  BY <1>3 DEF Writes, Sets
<1>6. CASE r.op = "edit" \/ ~ r.fresh
  <2>1. <<t, id>> \notin mixed \cup Writes(r, {"email", "key"})
    BY <1>1, <1>3, <1>4, <1>6
  <2> QED
    BY <1>5, <2>1 DEF r
<1>7. CASE ~ (r.op = "edit" \/ ~ r.fresh)
  <2>1. <<t, id>> \notin mixed \ Writes(r, {"key"})
    BY <1>1, <1>3, <1>4, <1>7
  <2> QED
    BY <1>5, <1>7, <2>1 DEF r
<1> QED
  BY <1>6, <1>7

LEMMA MailsDecide ==
  ASSUME RequestsInv, MailsInv, NEW s \in Session, NEW w, NEW M, NEW A, Good(w, M, A), Does(s, w, M, A)
  PROVE  MailsInv'
<1>1. Others(s) /\ request'[s] = w
  BY DecidesInv
<1>2. UNCHANGED <<db, mixed>> /\ mails' = mails \cup M
  BY DEF Does
<1>3. \A t, id, v, e : Mailed(t, id, v, e) => Mailed(t, id, v, e)'
  BY <1>2 DEF Mailed, Concerns
<1>4. \A t, id, v, e : v = None \/ Sends(M, t, id, v, e) => Mailed(t, id, v, e)'
  <2> SUFFICES ASSUME NEW t, NEW id, NEW v, NEW e, Sends(M, t, id, v, e)
               PROVE  Mailed(t, id, v, e)'
    BY DEF Mailed
  <2>1. PICK box \in Mailboxes(t, id, e) : [code |-> v, about |-> e, to |-> box] \in M
    BY DEF Sends
  <2>2. PICK m \in M : m.code = v /\ m.about = e /\ m.to \in Mailboxes(t, id, e)
    BY <2>1
  <2>3. m \in mails' /\ Mailboxes(t, id, e)' = Mailboxes(t, id, e)
    BY <1>2, <2>2 DEF Mailboxes, InternalMailbox
  <2> QED
    BY <2>2, <2>3 DEF Mailed, Concerns
<1>5. \A r, t, id, c : Value(r, t, id, c)' = Value(r, t, id, c)
  BY <1>2 DEF Value
<1>6. \A t \in Table : \A id \in DOMAIN db'[t] :
        <<t, id>> \notin mixed' => Mailed(t, id, db[t][id]["key"], db[t][id]["email"])'
  BY <1>2, <1>3 DEF MailsInv
<1>7. request'[s] # None => Mails(request[s])'
  <2>1. Mailing(w, M)
    BY DEF Good
  <2>2. \A t \in Table : \A id \in DOMAIN w.new[t] : Mailed(t, id, w.new[t][id]["key"], w.new[t][id]["email"])'
    BY <1>4, <2>1 DEF Mailing
  <2>3. ASSUME w.op # "edit", NEW t \in Table, NEW id \in DOMAIN w.set[t]
        PROVE  /\ <<t, id>> \in w.seen /\ id \in DOMAIN db'[t] \ DOMAIN w.new[t]
               /\ Sets(w, t, id, "key") \/ Sets(w, t, id, "email") =>
                    Mailed(t, id, Value(w, t, id, "key"), Value(w, t, id, "email"))'
    <3>1. /\ <<t, id>> \in w.seen /\ id \in DOMAIN db[t] \ DOMAIN w.new[t]
          /\ Sets(w, t, id, "key") \/ Sets(w, t, id, "email") =>
               Value(w, t, id, "key") = None
               \/ Sends(M, t, id, Value(w, t, id, "key"), Value(w, t, id, "email"))
      BY <2>1, <2>3 DEF Mailing
    <3> QED
      BY <1>2, <1>4, <1>5, <3>1
  <2> QED
    BY <1>1, <2>2, <2>3 DEF Mails
<1>8. ASSUME NEW o \in Session \ {s}, request'[o] # None
      PROVE  Mails(request[o])'
  <2>1. request[o] # None /\ StillPending(o) /\ Mails(request[o])
    BY <1>1, <1>8 DEF Others, StillPending, MailsInv
  <2> DEFINE q == request[o]
             p == request'[o]
  <2>2. p.new = q.new /\ p.set = q.set /\ p.op = q.op /\ p.seen = q.seen /\ (p.fresh => q.fresh)
    BY <2>1 DEF StillPending
  <2>6. Mails(q)
    BY <2>1
  <2> HIDE DEF q
  <2>3. ASSUME NEW t \in Table, NEW id \in DOMAIN p.new[t]
        PROVE  Mailed(t, id, request[o].new[t][id]["key"], request[o].new[t][id]["email"])'
    <3> DEFINE k == q.new[t][id]["key"]
               e == q.new[t][id]["email"]
    <3>1. Mailed(t, id, k, e)
      BY <2>2, <2>6 DEF Mails
    <3>2. p.new[t][id]["key"] = k /\ p.new[t][id]["email"] = e
      BY <2>2
    <3> HIDE DEF k, e
    <3> QED
      BY <1>2, <3>1, <3>2 DEF Mailed, Concerns
  <2>4. ASSUME p.fresh, p.op # "edit", NEW t \in Table, NEW id \in DOMAIN p.set[t]
        PROVE  /\ <<t, id>> \in p.seen /\ id \in DOMAIN db'[t] \ DOMAIN p.new[t]
               /\ Sets(p, t, id, "key") \/ Sets(p, t, id, "email") =>
                    Mailed(t, id, Value(request[o], t, id, "key"), Value(request[o], t, id, "email"))'
    <3>1. /\ <<t, id>> \in q.seen /\ id \in DOMAIN db[t] \ DOMAIN q.new[t]
          /\ Sets(q, t, id, "key") \/ Sets(q, t, id, "email") =>
               Mailed(t, id, Value(q, t, id, "key"), Value(q, t, id, "email"))
      BY <2>2, <2>4, <2>6 DEF Mails
    <3>2. \A c : Sets(p, t, id, c) <=> Sets(q, t, id, c)
      BY <2>2 DEF Sets
    <3>3. \A c : Value(request[o], t, id, c)' = Value(q, t, id, c)
      BY <1>2, <2>2 DEF Value, Sets
    <3> DEFINE k == Value(q, t, id, "key")
               e == Value(q, t, id, "email")
    <3>4. Value(request[o], t, id, "key")' = k /\ Value(request[o], t, id, "email")' = e
      BY <3>3
    <3>5. Sets(p, t, id, "key") \/ Sets(p, t, id, "email") => Mailed(t, id, k, e)
      BY <3>1, <3>2
    <3> HIDE DEF k, e
    <3>6. Mailed(t, id, k, e) => Mailed(t, id, Value(request[o], t, id, "key"), Value(request[o], t, id, "email"))'
      BY <1>2, <3>4 DEF Mailed
    <3> QED
      BY <1>2, <2>2, <3>1, <3>5, <3>6
  <2> QED
    BY <2>3, <2>4 DEF Mails
<1> QED
  BY <1>6, <1>7, <1>8 DEF MailsInv


LEMMA MailsLose ==
  ASSUME RequestsInv, MailsInv, NEW s \in Session, Loses(s)
  PROVE  MailsInv'
<1>1. request'[s] = None /\ (\A o \in Session \ {s} : request'[o] = request[o]) /\ UNCHANGED <<db, mails, mixed>>
  BY TheRows DEF Loses
<1>2. ASSUME NEW o \in Session, request'[o] # None
      PROVE  Mails(request[o])'
  <2>1. request'[o] = request[o] /\ Mails(request[o])
    BY <1>1, <1>2 DEF MailsInv
  <2> QED
    BY <1>1, <2>1 DEF Mails, Mailed, Value
<1>3. \A t \in Table : \A id \in DOMAIN db'[t] :
        <<t, id>> \notin mixed' => Mailed(t, id, db[t][id]["key"], db[t][id]["email"])'
  BY <1>1 DEF MailsInv, Mailed
<1> QED
  BY <1>2, <1>3 DEF MailsInv

(* A row of a request that is still fresh is as it was.                    *)
LEMMA FreshRows ==
  ASSUME RequestsInv, MailsInv, NEW s \in Session, Others(s), NEW o \in Session \ {s}, request'[o] # None,
         request'[o].fresh, request'[o].op # "edit", NEW t \in Table, NEW id \in DOMAIN request'[o].set[t]
  PROVE  /\ <<t, id>> \in request[o].seen /\ id \in DOMAIN db[t] \ DOMAIN request[o].new[t]
         /\ id \in DOMAIN db'[t] /\ db'[t][id] = db[t][id]
         /\ \A c : Value(request[o], t, id, c)' = Value(request[o], t, id, c)
<1> DEFINE q == request[o]
           p == request'[o]
<1>1. StillPending(o)
  BY DEF Others
<1>2. p.new = q.new /\ p.set = q.set /\ p.op = q.op /\ p.seen = q.seen /\ p.fresh /\ q.fresh /\ q # None
  BY <1>1 DEF StillPending
<1>3. Mails(q)
  BY <1>2 DEF MailsInv
<1>4. <<t, id>> \in q.seen /\ id \in DOMAIN db[t] \ DOMAIN q.new[t]
  <2> HIDE DEF q
  <2> QED
    BY <1>2, <1>3 DEF Mails
<1>5. id \in Ids[t]
  BY <1>4, TheRows
<1>6. Stays(t, id)
  BY <1>1, <1>2, <1>4, <1>5 DEF StillPending
<1>7. id \in DOMAIN db'[t] /\ db'[t][id] = db[t][id]
  BY <1>4, <1>6 DEF Stays
<1>8. \A c : Value(q, t, id, c)' = Value(q, t, id, c)
  BY <1>2, <1>7 DEF Value, Sets
<1> QED
  BY <1>4, <1>7, <1>8

LEMMA MailsCommit ==
  ASSUME RequestsInv, MailsInv, NEW s \in Session, Commit(s)
  PROVE  MailsInv'
<1> DEFINE r == request[s]
<1>1. /\ Others(s) /\ Committed(s, r) /\ mails' = mails /\ r # None
      /\ request'[s] # None => More(request'[s], r)
  BY CommitInv DEF Committed
<1>2. Mails(r)
  BY <1>1 DEF MailsInv
<1>3. ASSUME NEW t \in Table, NEW id \in DOMAIN db'[t], <<t, id>> \notin mixed'
      PROVE  Mailed(t, id, db[t][id]["key"], db[t][id]["email"])'
  <2> DEFINE k == Value(r, t, id, "key")
             e == Value(r, t, id, "email")
  <2>1. \/ <<t, id>> \notin mixed /\ ~ Sets(r, t, id, "key") /\ ~ Sets(r, t, id, "email")
        \/ r.fresh /\ r.op # "edit" /\ (<<t, id>> \notin mixed \/ Sets(r, t, id, "key"))
    BY <1>3, MixedAfter
  <2>2. {"key", "email"} \subseteq Columns[t]
    BY TheTables DEF Field
  <2>3. db'[t][id]["key"] = k /\ db'[t][id]["email"] = e /\ id \in DOMAIN db[t] \cup DOMAIN r.new[t]
    BY <1>1, <2>2 DEF Committed
  <2> HIDE DEF r
  <2>4. CASE id \in DOMAIN r.new[t]
    <3>1. k = r.new[t][id]["key"] /\ e = r.new[t][id]["email"]
      BY <2>4 DEF Value
    <3>2. Mailed(t, id, k, e)
      BY <1>2, <2>4, <3>1 DEF Mails
    <3> HIDE DEF k, e
    <3> QED
      BY <1>1, <2>3, <3>2 DEF Mailed
  <2>5. CASE id \notin DOMAIN r.new[t] /\ ~ Sets(r, t, id, "key") /\ ~ Sets(r, t, id, "email")
    <3>1. k = db[t][id]["key"] /\ e = db[t][id]["email"] /\ id \in DOMAIN db[t]
      BY <2>3, <2>5 DEF Value
    <3>2. Mailed(t, id, k, e)
      BY <2>1, <2>5, <3>1 DEF MailsInv
    <3> HIDE DEF k, e
    <3> QED
      BY <1>1, <2>3, <3>2 DEF Mailed
  <2>6. CASE id \notin DOMAIN r.new[t] /\ (Sets(r, t, id, "key") \/ Sets(r, t, id, "email"))
    <3>1. r.fresh /\ r.op # "edit" /\ id \in DOMAIN r.set[t]
      BY <2>1, <2>6 DEF Sets
    <3>2. Mailed(t, id, k, e)
      BY <1>2, <2>6, <3>1 DEF Mails
    <3> HIDE DEF k, e
    <3> QED
      BY <1>1, <2>3, <3>2 DEF Mailed
  <2> QED
    BY <2>4, <2>5, <2>6
<1>4. ASSUME request'[s] # None
      PROVE  Mails(request[s])'
  <2>1. \A t \in Table : DOMAIN request'[s].new[t] = {} /\ DOMAIN request'[s].set[t] = {}
    BY <1>1, <1>4 DEF More
  <2> QED
    BY <2>1 DEF Mails
<1>5. ASSUME NEW o \in Session \ {s}, request'[o] # None
      PROVE  Mails(request[o])'
  <2> DEFINE q == request[o]
             p == request'[o]
  <2>1. q # None /\ p.new = q.new /\ p.set = q.set /\ p.op = q.op /\ p.seen = q.seen /\ (p.fresh => q.fresh)
    BY <1>1, <1>5 DEF Others, StillPending
  <2>2. Mails(q)
    BY <2>1 DEF MailsInv
  <2>4. ASSUME p.fresh, p.op # "edit", NEW t \in Table, NEW id \in DOMAIN p.set[t]
        PROVE  /\ <<t, id>> \in p.seen /\ id \in DOMAIN db'[t] \ DOMAIN p.new[t]
               /\ Sets(p, t, id, "key") \/ Sets(p, t, id, "email") =>
                    Mailed(t, id, Value(request[o], t, id, "key"), Value(request[o], t, id, "email"))'
    <3>1. /\ <<t, id>> \in q.seen /\ id \in DOMAIN db[t] \ DOMAIN q.new[t]
          /\ id \in DOMAIN db'[t]
          /\ \A c : Value(request[o], t, id, c)' = Value(q, t, id, c)
      BY <1>1, <1>5, <2>4, FreshRows
    <3> DEFINE k == Value(q, t, id, "key")
               e == Value(q, t, id, "email")
    <3>4. Value(request[o], t, id, "key")' = k /\ Value(request[o], t, id, "email")' = e
      BY <3>1
    <3> HIDE DEF q
    <3>5. Sets(p, t, id, "key") \/ Sets(p, t, id, "email") => Mailed(t, id, k, e)
      BY <2>1, <2>2, <2>4 DEF Mails, Sets
    <3> HIDE DEF k, e
    <3>6. Mailed(t, id, k, e) => Mailed(t, id, Value(request[o], t, id, "key"), Value(request[o], t, id, "email"))'
      BY <1>1, <3>4 DEF Mailed
    <3> QED
      BY <2>1, <3>1, <3>5, <3>6
  <2> HIDE DEF q
  <2>3. ASSUME NEW t \in Table, NEW id \in DOMAIN p.new[t]
        PROVE  Mailed(t, id, request[o].new[t][id]["key"], request[o].new[t][id]["email"])'
    <3> DEFINE k == q.new[t][id]["key"]
               e == q.new[t][id]["email"]
    <3>1. Mailed(t, id, k, e)
      BY <2>1, <2>2 DEF Mails
    <3>2. p.new[t][id]["key"] = k /\ p.new[t][id]["email"] = e
      BY <2>1
    <3> HIDE DEF k, e
    <3> QED
      BY <1>1, <3>1, <3>2 DEF Mailed
  <2> QED
    BY <2>3, <2>4 DEF Mails
<1> QED
  BY <1>3, <1>4, <1>5 DEF MailsInv


----------------------------------------------------------------------------
(* What confirms an address still does when others commit. *)

LEMMA OthersConfirm ==
  ASSUME RequestsInv, MailsInv, ConfirmInv, NEW s \in Session, Others(s), DOMAIN db' = Table,
         mails \subseteq mails', proven \subseteq proven',
         NEW o \in Session \ {s}, request'[o] # None, request'[o].fresh, request'[o].op \in ConfirmingOps
  PROVE  Confirms(request[o])'
<1>0. ASSUME request'[o].op # "edit", NEW t \in Table, NEW id \in DOMAIN request'[o].set[t]
      PROVE  /\ <<t, id>> \in request[o].seen /\ id \in DOMAIN db[t] \ DOMAIN request[o].new[t]
             /\ id \in DOMAIN db'[t] /\ db'[t][id] = db[t][id]
             /\ \A c : Value(request[o], t, id, c)' = Value(request[o], t, id, c)
  <2>1. request'[o] # None /\ request'[o].fresh /\ request'[o].op # "edit" /\ id \in DOMAIN request'[o].set[t]
    BY <1>0
  <2>2. Others(s) /\ RequestsInv /\ MailsInv
    OBVIOUS
  <2> QED
    BY <2>1, <2>2, FreshRows
<1> DEFINE q == request[o]
           p == request'[o]
<1>1. StillPending(o)
  BY DEF Others
<1>2. /\ q # None /\ p.new = q.new /\ p.set = q.set /\ p.drop = q.drop /\ p.op = q.op /\ p.seen = q.seen /\ q.fresh
      /\ \A t \in Table : \A id \in Ids[t] : <<t, id>> \in q.seen => Stays(t, id)
  BY <1>1 DEF StillPending
<1>3. Confirms(q) /\ p.op # "edit"
  BY <1>2 DEF ConfirmInv, ConfirmingOps
<1>4. ASSUME NEW t \in Table, NEW id \in DOMAIN db[t], <<t, id>> \in q.seen
      PROVE  id \in DOMAIN db'[t] /\ db'[t][id] = db[t][id]
  <2>1. id \in Ids[t]
    BY TheRows
  <2> QED
    BY <1>2, <1>4, <2>1 DEF Stays
<1>5. ASSUME NEW e, Taken(q, e)
      PROVE  Taken(request[o], e)'
  <2>1. PICK id \in q.drop["prm"] : <<"prm", id>> \in q.seen /\ id \in Prms /\ Lends(id, e)
    BY <1>5 DEF Taken
  <2>2. id \in DOMAIN db'["prm"] /\ db'["prm"][id] = db["prm"][id]
    BY <1>4, <2>1, TheTables DEF Prms
  <2> QED
    BY <1>2, <2>1, <2>2 DEF Taken, Prms, Lends
<1>6. ASSUME NEW t, NEW id, NEW e, Proved(q, t, id, e)
      PROVE  Proved(request[o], t, id, e)'
  <2>1. PICK k \in Table : \E i \in DOMAIN db[k] :
          /\ <<k, i>> \in q.seen /\ db[k][i]["email"] = e /\ (k = "prm" \/ <<k, i>> = <<t, id>>)
          /\ \E m \in mails : m.code = db[k][i]["key"] /\ m \in proven
    BY <1>6 DEF Proved
  <2>2. PICK i \in DOMAIN db[k] :
          /\ <<k, i>> \in q.seen /\ db[k][i]["email"] = e /\ (k = "prm" \/ <<k, i>> = <<t, id>>)
          /\ \E m \in mails : m.code = db[k][i]["key"] /\ m \in proven
    BY <2>1
  <2>3. i \in DOMAIN db'[k] /\ db'[k][i] = db[k][i]
    BY <1>4, <2>2
  <2> QED
    BY <1>2, <2>2, <2>3 DEF Proved
<1>7. ASSUME NEW t \in Table, NEW id \in DOMAIN p.new[t], p.new[t][id]["confirmed"]
      PROVE  Taken(request[o], request[o].new[t][id]["email"])' \/ Proved(request[o], t, id, request[o].new[t][id]["email"])'
  <2>4. PICK e : e = q.new[t][id]["email"]
    OBVIOUS
  <2>1. p.new[t][id]["email"] = e
    BY <1>2, <2>4
  <2>5. e = q.new[t][id]["email"]
    BY <2>4
  <2>2. Taken(q, e) \/ Proved(q, t, id, e)
    <3>1. id \in DOMAIN q.new[t] /\ q.new[t][id]["confirmed"]
      BY <1>2, <1>7
    <3> HIDE DEF q
    <3> QED
      BY <1>3, <2>5, <3>1 DEF Confirms
  <2>3. Taken(request[o], e)' \/ Proved(request[o], t, id, e)'
    BY <1>5, <1>6, <2>2
  <2> QED
    BY <2>1, <2>3 DEF Taken, Proved
<1>8. ASSUME NEW t \in Table, NEW id \in DOMAIN p.set[t]
      PROVE  \/ Value(request[o], t, id, "confirmed")' = FALSE
             \/ Value(request[o], t, id, "confirmed")' = db'[t][id]["confirmed"] /\ db'[t][id]["email"] = Value(request[o], t, id, "email")'
             \/ Taken(request[o], Value(request[o], t, id, "email"))'
             \/ Proved(request[o], t, id, Value(request[o], t, id, "email"))'
  <2>7. PICK e, b : e = Value(q, t, id, "email") /\ b = Value(q, t, id, "confirmed")
    OBVIOUS
  <2>8. /\ db'[t][id] = db[t][id]
        /\ \A c : Value(request[o], t, id, c)' = Value(request[o], t, id, c)
    BY <1>0, <1>3, <1>8
  <2>1. Value(request[o], t, id, "email")' = e /\ Value(request[o], t, id, "confirmed")' = b /\ db'[t][id] = db[t][id]
    BY <2>7, <2>8
  <2>2. \/ b = FALSE
        \/ b = db[t][id]["confirmed"] /\ db[t][id]["email"] = e
        \/ Taken(q, e) \/ Proved(q, t, id, e)
    <3>1. id \in DOMAIN q.set[t]
      BY <1>2, <1>8
    <3> HIDE DEF q
    <3> QED
      BY <1>3, <2>7, <3>1 DEF Confirms
  <2>3. Taken(q, e) => Taken(request[o], e)'
    BY <1>5
  <2>4. Proved(q, t, id, e) => Proved(request[o], t, id, e)'
    BY <1>6
  <2>5. Taken(request[o], e)' => Taken(request[o], Value(request[o], t, id, "email"))'
    BY <2>1 DEF Taken
  <2>6. Proved(request[o], t, id, e)' => Proved(request[o], t, id, Value(request[o], t, id, "email"))'
    BY <2>1 DEF Proved
  <2> QED
    BY <2>1, <2>2, <2>3, <2>4, <2>5, <2>6
<1> QED
  BY <1>7, <1>8 DEF Confirms

LEMMA ConfirmsKept ==
  ASSUME RequestsInv, MailsInv, ConfirmInv, NEW s \in Session, Others(s), DOMAIN db' = Table,
         mails \subseteq mails', proven \subseteq proven',
         \A o \in Session : o = s /\ request'[o] # None /\ request'[o].fresh /\ request'[o].op \in ConfirmingOps =>
           Confirms(request[o])'
  PROVE  ConfirmInv'
<1>1. ASSUME NEW o \in Session, request'[o] # None, request'[o].fresh, request'[o].op \in ConfirmingOps
      PROVE  Confirms(request[o])'
  <2>1. CASE o = s
    BY <1>1, <2>1
  <2>2. CASE o # s
    BY <1>1, <2>2, OthersConfirm
  <2> QED
    BY <2>1, <2>2
<1> QED
  BY <1>1 DEF ConfirmInv

LEMMA ConfirmsDecide ==
  ASSUME RequestsInv, MailsInv, ConfirmInv, NEW s \in Session, NEW w, NEW M, NEW A, Good(w, M, A), Does(s, w, M, A)
  PROVE  ConfirmInv'
<1>1. /\ Others(s) /\ request'[s] = w /\ db' = db /\ DOMAIN db' = Table
      /\ mails \subseteq mails' /\ proven \subseteq proven'
      /\ A \subseteq mails' /\ A \subseteq proven'
  BY DecidesInv, TheRows DEF Does
<1>4. ASSUME NEW o \in Session, o = s, w.op \in ConfirmingOps
      PROVE  Confirms(request[o])'
  <2>8. ASSUME NEW e, Taken(w, e)
        PROVE  Taken(request[o], e)'
    BY <1>1, <1>4, <2>8 DEF Taken, Prms, Lends
  <2>9. ASSUME NEW t, NEW id, NEW e, ProvedBy(w, A, t, id, e)
        PROVE  Proved(request[o], t, id, e)'
    <3>1. PICK k \in Table : \E i \in DOMAIN db[k] :
            /\ <<k, i>> \in w.seen /\ db[k][i]["email"] = e /\ (k = "prm" \/ <<k, i>> = <<t, id>>)
            /\ \E m \in A : m.code = db[k][i]["key"]
      BY <2>9 DEF ProvedBy
    <3>2. PICK i \in DOMAIN db[k] :
            /\ <<k, i>> \in w.seen /\ db[k][i]["email"] = e /\ (k = "prm" \/ <<k, i>> = <<t, id>>)
            /\ \E m \in A : m.code = db[k][i]["key"]
      BY <3>1
    <3>3. PICK m \in A : m.code = db[k][i]["key"]
      BY <3>2
    <3>4. m \in mails' /\ m \in proven' /\ m.code = db'[k][i]["key"]
      BY <1>1, <3>3
    <3>5. /\ i \in DOMAIN db'[k] /\ <<k, i>> \in request'[o].seen /\ db'[k][i]["email"] = e
          /\ (k = "prm" \/ <<k, i>> = <<t, id>>) /\ \E n \in mails' : n.code = db'[k][i]["key"] /\ n \in proven'
      BY <1>1, <1>4, <3>2, <3>4
    <3> QED
      BY <3>5 DEF Proved
  <2>1. Confirming(w, A)
    BY <1>4 DEF Good
  <2>2. ASSUME NEW t \in Table, NEW id \in DOMAIN w.new[t], w.new[t][id]["confirmed"], NEW e, e = w.new[t][id]["email"]
        PROVE  Taken(request[o], e)' \/ Proved(request[o], t, id, e)'
    <3>1. Taken(w, e) \/ ProvedBy(w, A, t, id, e)
      BY <2>1, <2>2 DEF Confirming
    <3> QED
      BY <2>8, <2>9, <3>1
  <2>3. ASSUME NEW t \in Table, NEW id \in DOMAIN request'[o].new[t], request'[o].new[t][id]["confirmed"]
        PROVE  \/ Taken(request[o], request[o].new[t][id]["email"])'
               \/ Proved(request[o], t, id, request[o].new[t][id]["email"])'
    <3>1. PICK e : e = w.new[t][id]["email"]
      OBVIOUS
    <3>2. Taken(request[o], e)' \/ Proved(request[o], t, id, e)'
      <4>1. id \in DOMAIN w.new[t] /\ w.new[t][id]["confirmed"]
        BY <1>1, <1>4, <2>3
      <4> QED
        BY <2>2, <3>1, <4>1
    <3>3. request'[o].new[t][id]["email"] = e
      BY <1>1, <1>4, <3>1
    <3> QED
      BY <3>2, <3>3 DEF Taken, Proved
  <2>5. ASSUME NEW t \in Table, NEW id \in DOMAIN request'[o].set[t]
        PROVE  \/ Value(request[o], t, id, "confirmed")' = FALSE
               \/ /\ Value(request[o], t, id, "confirmed")' = db'[t][id]["confirmed"]
                  /\ db'[t][id]["email"] = Value(request[o], t, id, "email")'
               \/ Taken(request[o], Value(request[o], t, id, "email"))'
               \/ Proved(request[o], t, id, Value(request[o], t, id, "email"))'
    <3>1. PICK e, b : e = Value(w, t, id, "email") /\ b = Value(w, t, id, "confirmed")
      OBVIOUS
    <3>2. Value(request[o], t, id, "email")' = e /\ Value(request[o], t, id, "confirmed")' = b
      BY <1>1, <1>4, <3>1 DEF Value, Sets
    <3>3. \/ b = FALSE \/ (b = db[t][id]["confirmed"] /\ db[t][id]["email"] = e)
          \/ Taken(request[o], e)' \/ Proved(request[o], t, id, e)'
      <4>1. id \in DOMAIN w.set[t]
        BY <1>1, <1>4, <2>5
      <4>2. \/ b = FALSE \/ (b = db[t][id]["confirmed"] /\ db[t][id]["email"] = e)
            \/ Taken(w, e) \/ ProvedBy(w, A, t, id, e)
        BY <2>1, <3>1, <4>1 DEF Confirming
      <4>3. (Taken(w, e) => Taken(request[o], e)') /\ (ProvedBy(w, A, t, id, e) => Proved(request[o], t, id, e)')
        BY <2>8, <2>9
      <4> QED
        BY <4>2, <4>3
    <3>4. Taken(request[o], e)' => Taken(request[o], Value(request[o], t, id, "email"))'
      BY <3>2 DEF Taken
    <3>5. Proved(request[o], t, id, e)' => Proved(request[o], t, id, Value(request[o], t, id, "email"))'
      BY <3>2 DEF Proved
    <3>6. db'[t][id] = db[t][id]
      BY <1>1
    <3> QED
      BY <3>2, <3>3, <3>4, <3>5, <3>6
  <2> QED
    BY <2>3, <2>5 DEF Confirms
<1>5. \A o \in Session : o = s /\ request'[o] # None /\ request'[o].fresh /\ request'[o].op \in ConfirmingOps =>
        Confirms(request[o])'
  <2> SUFFICES ASSUME NEW o \in Session, o = s, request'[o].op \in ConfirmingOps
               PROVE  Confirms(request[o])'
    OBVIOUS
  <2>1. w.op \in ConfirmingOps
    BY <1>1
  <2> QED
    BY <1>4, <2>1
<1> QED
  BY <1>1, <1>5, ConfirmsKept

LEMMA ConfirmsLose ==
  ASSUME RequestsInv, MailsInv, ConfirmInv, NEW s \in Session, Loses(s)
  PROVE  ConfirmInv'
<1>1. Others(s) /\ request'[s] = None /\ db' = db /\ DOMAIN db' = Table /\ mails' = mails /\ proven' = proven
  BY LosesInv, TheRows DEF Loses
<1>2. \A o \in Session : o = s /\ request'[o] # None /\ request'[o].fresh /\ request'[o].op \in ConfirmingOps =>
        Confirms(request[o])'
  BY <1>1
<1> QED
  BY <1>1, <1>2, ConfirmsKept

LEMMA ConfirmsCommit ==
  ASSUME RequestsInv, MailsInv, ConfirmInv, NEW s \in Session, Commit(s)
  PROVE  ConfirmInv'
<1>1. /\ Others(s) /\ DOMAIN db' = Table /\ mails' = mails /\ proven' = proven
      /\ request'[s] # None => More(request'[s], request[s])
  BY CommitInv DEF Committed
<1>2. \A o \in Session : o = s /\ request'[o] # None /\ request'[o].fresh /\ request'[o].op \in ConfirmingOps =>
        Confirms(request[o])'
  BY <1>1 DEF More, ConfirmingOps
<1> QED
  BY <1>1, <1>2, ConfirmsKept

----------------------------------------------------------------------------
(* All of it is an invariant. *)

RequestsIInv == RequestsInv /\ NewInv /\ EndInv /\ CodeInv /\ MailsInv /\ ConfirmInv

LEMMA RequestStepKeeps ==
  ASSUME RequestsIInv, NEW s \in Session
  PROVE  /\ Decides(s) => RequestsIInv'
         /\ Loses(s) => RequestsIInv'
         /\ Commit(s) => RequestsIInv'
<1>1. RequestsInv /\ NewInv /\ EndInv /\ CodeInv /\ MailsInv /\ ConfirmInv
  BY DEF RequestsIInv
<1>2. ASSUME Decides(s)
      PROVE  RequestsIInv'
  <2>1. PICK w, M, A : Good(w, M, A) /\ Does(s, w, M, A)
    BY <1>2 DEF Decides
  <2>2. RequestsInv'
    BY <1>1, <2>1, DecidesInv
  <2>3. NewInv' /\ EndInv'
    BY <1>1, <1>2, EndsInv
  <2>4. CodeInv' /\ MailsInv' /\ ConfirmInv'
    BY <1>1, <2>1, CodesDecide, MailsDecide, ConfirmsDecide
  <2> QED
    BY <2>2, <2>3, <2>4 DEF RequestsIInv
<1>3. ASSUME Loses(s)
      PROVE  RequestsIInv'
  BY <1>1, <1>3, LosesInv, EndsInv, CodesLose, MailsLose, ConfirmsLose DEF RequestsIInv
<1>4. ASSUME Commit(s)
      PROVE  RequestsIInv'
  BY <1>1, <1>4, CommitInv, EndsInv, CodesCommit, MailsCommit, ConfirmsCommit DEF RequestsIInv
<1> QED
  BY <1>2, <1>3, <1>4

LEMMA RequestStepIs ==
  ASSUME RequestsIInv, NEW s \in Session, Start(s) \/ EditResend(s) \/ Commit(s) \/ Lose(s)
  PROVE  Decides(s) \/ Loses(s) \/ Commit(s)
<1>1. RequestsInv /\ \A m \in mails : m.code # None
  BY CodeFacts, RequestsAssumption DEF RequestsIInv
<1>2. Start(s) => Decides(s)
  BY <1>1, StartDecides
<1>3. EditResend(s) => Decides(s) \/ Loses(s)
  BY <1>1, EditResendDecides
<1>4. Lose(s) => Loses(s)
  BY DEF Lose, Abandon, Loses
<1> QED
  BY <1>2, <1>3, <1>4

LEMMA RequestsStutter ==
  RequestsIInv /\ UNCHANGED requestVars => RequestsIInv'
<1> SUFFICES ASSUME RequestsIInv, UNCHANGED requestVars
             PROVE  RequestsIInv'
  OBVIOUS
<1>0. /\ db' = db /\ given' = given /\ request' = request /\ requests' = requests /\ mails' = mails
      /\ proven' = proven /\ answered' = answered /\ ended' = ended /\ mixed' = mixed
  BY DEF requestVars, rows
<1>1. RequestsInv'
  BY <1>0 DEF RequestsIInv, RequestsInv, RequestTypes, Prms
<1>2. NewInv'
  BY <1>0 DEF RequestsIInv, NewInv
<1>3. EndInv'
  BY <1>0 DEF RequestsIInv, EndInv, Ends, Prms
<1>4. CodeInv'
  <2>1. /\ HeldWell /\ \A s \in Session : request[s] # None => GivenWell(s) /\ AnsweredWell(s)
        /\ IsFiniteSet(mails) /\ answered \subseteq Sent
        /\ \A m \in mails : m.code \in 1 .. Cardinality(mails)
        /\ \A m, n \in mails : m.code = n.code => m = n
    BY CodeParts DEF RequestsIInv
  <2>2. HeldWell'
    BY <1>0, <2>1 DEF HeldWell, Holds, Sent
  <2>3. ASSUME NEW s \in Session, request'[s] # None
        PROVE  GivenWell(s)' /\ AnsweredWell(s)'
    <3>1. GivenWell(s) /\ AnsweredWell(s)
      BY <1>0, <2>1, <2>3
    <3>2. GivenWell(s)'
      BY <1>0, <3>1 DEF GivenWell, Gives, Sets, Holds, Sent
    <3>3. AnsweredWell(s)'
      <4>1. \A t, id, c, v : Holds(t, id, c, v)' <=> Holds(t, id, c, v)
        BY <1>0 DEF Holds
      <4>2. Sent' = Sent /\ request'[s] = request[s]
        BY <1>0 DEF Sent
      <4> QED
        BY <3>1, <4>1, <4>2 DEF AnsweredWell, Answers, Sets
    <3> QED
      BY <3>2, <3>3
  <2> QED
    BY <1>0, <2>1, <2>2, <2>3 DEF CodeInv, HeldWell, GivenWell, AnsweredWell, Sent
<1>5. MailsInv'
  <2>1. /\ \A t, id, v, e : Mailed(t, id, v, e)' = Mailed(t, id, v, e)
        /\ \A r, t, id, c : Value(r, t, id, c)' = Value(r, t, id, c)
    BY <1>0 DEF Mailed, Concerns, Mailboxes, InternalMailbox, Value, Sets
  <2>2. ASSUME NEW s \in Session, request[s] # None
        PROVE  Mails(request[s])'
    <3>1. Mails(request[s]) /\ request'[s] = request[s]
      BY <1>0, <2>2 DEF RequestsIInv, MailsInv
    <3> QED
      BY <1>0, <2>1, <3>1 DEF Mails, Sets
  <2>3. \A t \in Table : \A id \in DOMAIN db'[t] :
          <<t, id>> \notin mixed' => Mailed(t, id, db[t][id]["key"], db[t][id]["email"])'
    BY <1>0, <2>1 DEF RequestsIInv, MailsInv
  <2> QED
    BY <1>0, <2>2, <2>3 DEF MailsInv
<1>6. ConfirmInv'
  <2>1. ASSUME NEW s \in Session, request'[s] # None, request'[s].fresh, request'[s].op \in ConfirmingOps
        PROVE  Confirms(request[s])'
    <3>1. Confirms(request[s])
      BY <1>0, <2>1 DEF RequestsIInv, ConfirmInv
    <3>2. ASSUME NEW t, NEW id, NEW e
          PROVE  /\ Taken(request[s], e) => Taken(request[s], e)'
                 /\ Proved(request[s], t, id, e) => Proved(request[s], t, id, e)'
      BY <1>0 DEF Taken, Proved, Prms, Lends
    <3>3. ASSUME NEW t \in Table, NEW id \in DOMAIN request'[s].new[t], request'[s].new[t][id]["confirmed"]
          PROVE  \/ Taken(request[s], request[s].new[t][id]["email"])'
                 \/ Proved(request[s], t, id, request[s].new[t][id]["email"])'
      <4>1. PICK e : e = request[s].new[t][id]["email"]
        OBVIOUS
      <4>2. Taken(request[s], e) \/ Proved(request[s], t, id, e)
        BY <1>0, <3>1, <3>3, <4>1 DEF Confirms
      <4>3. Taken(request[s], e)' \/ Proved(request[s], t, id, e)'
        BY <3>2, <4>2
      <4>4. request'[s].new[t][id]["email"] = e
        BY <1>0, <4>1
      <4> QED
        BY <4>3, <4>4 DEF Taken, Proved
    <3>4. ASSUME NEW t \in Table, NEW id \in DOMAIN request'[s].set[t]
          PROVE  \/ Value(request[s], t, id, "confirmed")' = FALSE
                 \/ /\ Value(request[s], t, id, "confirmed")' = db'[t][id]["confirmed"]
                    /\ db'[t][id]["email"] = Value(request[s], t, id, "email")'
                 \/ Taken(request[s], Value(request[s], t, id, "email"))'
                 \/ Proved(request[s], t, id, Value(request[s], t, id, "email"))'
      <4>1. PICK e, b : e = Value(request[s], t, id, "email") /\ b = Value(request[s], t, id, "confirmed")
        OBVIOUS
      <4>2. Value(request[s], t, id, "email")' = e /\ Value(request[s], t, id, "confirmed")' = b
        BY <1>0, <4>1 DEF Value, Sets
      <4>3. \/ b = FALSE \/ (b = db[t][id]["confirmed"] /\ db[t][id]["email"] = e)
            \/ Taken(request[s], e) \/ Proved(request[s], t, id, e)
        BY <1>0, <3>1, <3>4, <4>1 DEF Confirms
      <4>4. Taken(request[s], e)' => Taken(request[s], Value(request[s], t, id, "email"))'
        BY <4>2 DEF Taken
      <4>5. Proved(request[s], t, id, e)' => Proved(request[s], t, id, Value(request[s], t, id, "email"))'
        BY <4>2 DEF Proved
      <4>6. (Taken(request[s], e) => Taken(request[s], e)') /\ (Proved(request[s], t, id, e) => Proved(request[s], t, id, e)')
        BY <3>2
      <4>7. db'[t][id] = db[t][id]
        BY <1>0
      <4> QED
        BY <4>2, <4>3, <4>4, <4>5, <4>6, <4>7
    <3> QED
      BY <3>3, <3>4 DEF Confirms
  <2> QED
    BY <2>1 DEF ConfirmInv
<1> QED
  BY <1>1, <1>2, <1>3, <1>4, <1>5, <1>6 DEF RequestsIInv

LEMMA RequestsStart ==
  RequestsInit => RequestsIInv
<1> SUFFICES ASSUME RequestsInit
             PROVE  RequestsIInv
  OBVIOUS
<1>1. /\ DOMAIN db = Table /\ DOMAIN db["prm"] = {} /\ db["user"] = FirstUsers
      /\ given["prm"] = {} /\ given["user"] = DOMAIN FirstUsers
      /\ \A s \in Session : request[s] = None
      /\ DOMAIN request = Session /\ requests = 0 /\ mails = {} /\ answered = {} /\ mixed = {}
      /\ ended = [id \in Ids["prm"] |-> 0]
  BY NoRows DEF RequestsInit, Table
<1>2. RequestsInv
  <2>1. \A t \in Table : DOMAIN db[t] \subseteq given[t] /\ given[t] \subseteq Ids[t]
    BY <1>1, TheTables, RequestsAssumption
  <2>2. \A t \in Table : \A id \in DOMAIN db[t] : DOMAIN db[t][id] = Columns[t]
    BY <1>1, TheTables, FirstUsersAssumption
  <2>3. Prms = {} /\ UniqueIn(db.user, "login") /\ UniqueIn(db.user, "person")
    BY <1>1, FirstUsersAssumption DEF Prms
  <2> QED
    BY <1>1, <2>1, <2>2, <2>3, RequestsAssumption DEF RequestsInv, RequestTypes
<1>3. NewInv /\ EndInv /\ ConfirmInv
  BY <1>1 DEF NewInv, EndInv, ConfirmInv
<1>4. CodeInv
  <2>1. \A t, id, c, v : Holds(t, id, c, v) => v = None
    BY <1>1, FirstUsersAssumption DEF Holds, Slots
  <2> QED
    BY <1>1, <2>1, FS_EmptySet DEF CodeInv
<1>5. MailsInv
  BY <1>1, TheTables, FirstUsersAssumption DEF MailsInv, Mailed
<1> QED
  BY <1>2, <1>3, <1>4, <1>5 DEF RequestsIInv

LEMMA RequestsKeepIInv ==
  RequestsSpec => []RequestsIInv
<1>1. ASSUME RequestsIInv, [RequestsNext]_requestVars
      PROVE  RequestsIInv'
  <2>1. CASE UNCHANGED requestVars
    BY <1>1, <2>1, RequestsStutter
  <2>2. ASSUME NEW s \in Session, Start(s) \/ EditResend(s) \/ Commit(s) \/ Lose(s)
        PROVE  RequestsIInv'
    BY <1>1, <2>2, RequestStepIs, RequestStepKeeps
  <2> QED
    BY <1>1, <2>1, <2>2 DEF RequestsNext
<1> QED
  BY <1>1, RequestsStart, PTL DEF RequestsSpec

----------------------------------------------------------------------------
(* What a step does, then. *)

LEMMA WhoCommits ==
  ASSUME RequestsIInv, [RequestsNext]_requestVars, NEW s \in Session, request[s] # None,
         request'[s] \notin {request[s], [request[s] EXCEPT !.fresh = FALSE]},
         db' # db \/ ended' # ended
  PROVE  Commit(s)
<1>1. PICK u \in Session : Start(u) \/ EditResend(u) \/ Commit(u) \/ Lose(u)
  BY DEF RequestsNext, requestVars, rows
<1>2. Decides(u) \/ Loses(u) \/ Commit(u)
  BY <1>1, RequestStepIs
<1>3. Commit(u)
  BY <1>2 DEF Decides, Does, Loses
<1>4. Others(u)
  BY <1>3, CommitInv DEF RequestsIInv
<1>5. u = s
  BY <1>4 DEF Others
<1> QED
  BY <1>3, <1>5

LEMMA FreshCommits ==
  ASSUME RequestsIInv, [RequestsNext]_requestVars, NEW s \in Session, NEW ops, Fresh(ops, s)
  PROVE  Commit(s) /\ request[s].fresh /\ request[s].op \in ops
BY WhoCommits DEF Fresh

(* That an address e is confirmed in a row                                 *)
Justified(s, t, id, e) == TakenOver(s, e) \/ \E m \in proven : Concerns(m, t, id, e)

LEMMA AnsweredMail ==
  ASSUME RequestsIInv, NEW s \in Session, request[s].seen \cap mixed = {}, NEW t, NEW id, NEW e,
         Proved(request[s], t, id, e)
  PROVE  Justified(s, t, id, e)
<1>1. PICK o \in Table : \E i \in DOMAIN db[o] :
        /\ <<o, i>> \in request[s].seen /\ db[o][i]["email"] = e /\ (o = "prm" \/ <<o, i>> = <<t, id>>)
        /\ \E m \in mails : m.code = db[o][i]["key"] /\ m \in proven
  BY DEF Proved
<1>2. PICK i \in DOMAIN db[o] :
        /\ <<o, i>> \in request[s].seen /\ db[o][i]["email"] = e /\ (o = "prm" \/ <<o, i>> = <<t, id>>)
        /\ \E m \in mails : m.code = db[o][i]["key"] /\ m \in proven
  BY <1>1
<1>3. PICK m \in mails : m.code = db[o][i]["key"] /\ m \in proven
  BY <1>2
<1>4. Mailed(o, i, db[o][i]["key"], e)
  BY <1>2 DEF RequestsIInv, MailsInv
<1>5. m.code # None
  BY CodeFacts, RequestsAssumption DEF RequestsIInv
<1>6. PICK n \in mails : n.code = db[o][i]["key"] /\ Concerns(n, o, i, e)
  BY <1>3, <1>4, <1>5 DEF Mailed
<1>7. n = m
  BY <1>3, <1>6 DEF RequestsIInv, CodeInv
<1>8. Mailboxes(o, i, e) \subseteq Mailboxes(t, id, e)
  BY <1>2 DEF Mailboxes
<1> QED
  BY <1>3, <1>6, <1>7, <1>8 DEF Justified, Concerns

LEMMA WhatConfirms ==
  ASSUME RequestsIInv, NEW s \in Session, Commit(s), request[s].fresh, request[s].op \in ConfirmingOps,
         request[s].seen \cap mixed = {},
         NEW t \in Table, NEW id \in DOMAIN db'[t], db'[t][id].confirmed,
         ~ (id \in DOMAIN db[t] /\ db[t][id].confirmed /\ db[t][id].email = db'[t][id].email)
  PROVE  Justified(s, t, id, db'[t][id].email)
<1> DEFINE r == request[s]
           new == db'[t][id]
<1>1. Committed(s, r) /\ r # None
  BY CommitInv DEF RequestsIInv, Committed
<1>2. Confirms(r)
  BY <1>1 DEF RequestsIInv, ConfirmInv
<1>3. "confirmed" \in Columns[t] /\ "email" \in Columns[t]
  BY TheTables DEF Field
<1>4. PICK e, b : e = Value(r, t, id, "email") /\ b = Value(r, t, id, "confirmed")
  OBVIOUS
<1>5. new["email"] = e /\ new["confirmed"] = b /\ (id \in DOMAIN r.new[t] \/ id \in DOMAIN db[t])
  BY <1>1, <1>3, <1>4 DEF Committed
<1>6. Taken(r, e) \/ Proved(r, t, id, e)
  <2> HIDE DEF r, new
  <2>1. CASE id \in DOMAIN r.new[t]
    <3>1. r.new[t][id]["email"] = e /\ r.new[t][id]["confirmed"]
      BY <1>4, <1>5, <2>1 DEF Value, new
    <3> QED
      BY <1>2, <2>1, <3>1 DEF Confirms
  <2>2. CASE id \notin DOMAIN r.new[t] /\ id \in DOMAIN r.set[t]
    <3>1. \/ b = FALSE \/ (b = db[t][id]["confirmed"] /\ db[t][id]["email"] = e)
          \/ Taken(r, e) \/ Proved(r, t, id, e)
      BY <1>2, <1>4, <2>2 DEF Confirms
    <3>2. b # FALSE
      BY <1>5 DEF new
    <3>3. ~ (b = db[t][id]["confirmed"] /\ db[t][id]["email"] = e)
      BY <1>5, <2>2 DEF new
    <3> QED
      BY <3>1, <3>2, <3>3
  <2>3. CASE id \notin DOMAIN r.new[t] /\ id \notin DOMAIN r.set[t]
    <3>1. e = db[t][id]["email"] /\ b = db[t][id]["confirmed"]
      BY <1>4, <2>3 DEF Value, Sets
    <3> QED
      BY <1>5, <2>3, <3>1 DEF new
  <2> QED
    BY <2>1, <2>2, <2>3
<1>7. Proved(r, t, id, e) => Justified(s, t, id, e)
  BY AnsweredMail
<1>8. Taken(r, e) => Justified(s, t, id, e)
  BY DEF Taken, TakenOver, Justified, Lends
<1> QED
  BY <1>5, <1>6, <1>7, <1>8

LEMMA EndsOnce ==
  ASSUME RequestsIInv, NEW s \in Session, Commit(s), request[s].fresh \/ request[s].op = "confirm",
         NEW id \in Ids["prm"], <<"end", id>> \in request[s].seen
  PROVE  ended[id] = 0
<1>1. Committed(s, request[s]) /\ request[s] # None
  BY CommitInv DEF RequestsIInv, Committed
<1>2. Ends(request[s], id)
  BY <1>1 DEF RequestsIInv, EndInv
<1>3. id \in Prms
  BY <1>1, <1>2, TheTables DEF Ends, Committed, Prms
<1> QED
  BY <1>3 DEF RequestsIInv, EndInv

LEMMA WorksOnce ==
  ASSUME RequestsIInv, NEW s \in Session, request[s] # None, request[s].fresh,
         NEW v, <<"code", v>> \in request[s].seen
  PROVE  v \notin answered
<1>1. Answers(request[s], v)
  BY DEF RequestsIInv, CodeInv
<1>2. PICK t, id, c : Holds(t, id, c, v)
  BY <1>1 DEF Answers
<1>3. v # None
  BY <1>1, CodeFacts, RequestsAssumption DEF RequestsIInv, Answers
<1> QED
  BY <1>2, <1>3, CodeParts DEF RequestsIInv, HeldWell

(* Whatever is entered, and in whatever order requests for membership are  *)
(* answered, edited, taken over and overtaken: an address becomes a        *)
(* confirmed one only if a mail about it was answered that went to it or   *)
(* to the internal mailbox of the account, or with a request in which it   *)
(* is confirmed (send_confirmation_email, user_send_mails,                 *)
(* confirm_mail_address, edit_email, finish_ and merge_member_request).    *)
THEOREM ConfirmedMailsAreProven ==
  RequestsSpec => ConfirmedIsProven
<1> DEFINE Step(s) ==
             /\ Fresh({"register", "confirm", "finish", "merge", "deny", "resend", "edit_email", "edit_user",
                       "request_reset"}, s)
             /\ request[s].seen \cap mixed = {}
             => \A t \in Table : \A id \in DOMAIN db'[t] :
                 LET new == db'[t][id]
                     was == id \in DOMAIN db[t] /\ db[t][id].confirmed /\ db[t][id].email = new.email
                 IN  new.confirmed /\ ~ was =>
                       \/ TakenOver(s, new.email)
                       \/ \E m \in proven : m.about = new.email /\ m.to \in Mailboxes(t, id, new.email)
<1>1. ASSUME RequestsIInv, [RequestsNext]_requestVars, NEW s \in Session
      PROVE  Step(s)
  <2> SUFFICES ASSUME Fresh(ConfirmingOps, s), request[s].seen \cap mixed = {},
                      NEW t \in Table, NEW id \in DOMAIN db'[t], db'[t][id].confirmed,
                      ~ (id \in DOMAIN db[t] /\ db[t][id].confirmed /\ db[t][id].email = db'[t][id].email)
               PROVE  Justified(s, t, id, db'[t][id].email)
    BY DEF ConfirmingOps, Justified, Concerns
  <2>1. Commit(s) /\ request[s].fresh /\ request[s].op \in ConfirmingOps
    BY <1>1, FreshCommits
  <2> QED
    BY <1>1, <2>1, WhatConfirms
<1>2. RequestsIInv /\ [RequestsNext]_requestVars => [\A s \in Session : Step(s)]_requestVars
  BY <1>1
<1> QED
  BY <1>2, RequestsKeepIInv, PTL DEF RequestsSpec, ConfirmedIsProven

(* The rows are always of the right kind; a request becomes one account,   *)
(* is merged once or is denied once, and what is sent by mail works once   *)
(* (finish_, merge_ and delete_member_request, confirm_mail_address,       *)
(* change_password_from_token).                                            *)
THEOREM RequestsAreInOrder ==
  RequestsSpec => RequestsKeepOrder
<1> DEFINE EndedOnce(s) ==
             /\ request[s] # None /\ request'[s] \notin {request[s], [request[s] EXCEPT !.fresh = FALSE]}
             /\ ended' # ended /\ (request[s].fresh \/ request[s].op = "confirm")
             =>
               \A id \in Ids["prm"] : <<"end", id>> \in request[s].seen => ended[id] = 0
           Working(s) ==
             Fresh({"confirm", "use_token"}, s) =>
               \A m \in mails : <<"code", m.code>> \in request[s].seen => m.code \notin answered
<1>1. RequestsIInv => RequestTypes
  BY DEF RequestsIInv, RequestsInv
<1>2. ASSUME RequestsIInv, [RequestsNext]_requestVars, NEW s \in Session
      PROVE  EndedOnce(s)
  <2> SUFFICES ASSUME request[s] # None, request'[s] \notin {request[s], [request[s] EXCEPT !.fresh = FALSE]},
                      ended' # ended, request[s].fresh \/ request[s].op = "confirm",
                      NEW id \in Ids["prm"], <<"end", id>> \in request[s].seen
               PROVE  ended[id] = 0
    OBVIOUS
  <2>1. Commit(s)
    BY <1>2, WhoCommits
  <2> QED
    BY <1>2, <2>1, EndsOnce
<1>3. ASSUME RequestsIInv, [RequestsNext]_requestVars, NEW s \in Session
      PROVE  Working(s)
  <2> SUFFICES ASSUME Fresh({"confirm", "use_token"}, s),
                      NEW m \in mails, <<"code", m.code>> \in request[s].seen
               PROVE  m.code \notin answered
    OBVIOUS
  <2>1. request[s] # None /\ request[s].fresh
    BY DEF Fresh
  <2> QED
    BY <1>3, <2>1, WorksOnce
<1>4. RequestsIInv /\ [RequestsNext]_requestVars =>
        [\A s \in Session : EndedOnce(s)]_requestVars /\ [\A s \in Session : Working(s)]_requestVars
  BY <1>2, <1>3
<1> QED
  BY <1>1, <1>4, RequestsKeepIInv, PTL DEF RequestsSpec, RequestsKeepOrder, RequestEndsOnce, CodesWorkOnce

----------------------------------------------------------------------------
(* Tombstones. *)

USE IdAssumption, UidAssumption, AdoptAssumption

(* The unique columns of the two tables; every uid came from the sequence. *)
KeysUnique ==
  /\ \A a, b \in Accounts : accounts[a] = accounts[b] => a = b
  /\ \A u, v \in Users : users[u].account = users[v].account /\ users[u].account # Null => u = v
  /\ \A u \in Users : users[u].account # Null => users[u].account \in Accounts

UidsDrawn ==
  /\ \A a \in Accounts : accounts[a] < nextUid
  /\ \A s \in stones : s.uid # Null => s.uid < nextUid

(* The inductive invariant, as far as the triggers alone go. *)
IInv == TypeOK /\ KeysUnique /\ UidsDrawn /\ TombstonesUnique /\ TombstonesCover

LEMMA InitIInv == Init => IInv
BY DEF Init, IInv, TypeOK, KeysUnique, UidsDrawn, TombstonesUnique, TombstonesCover, Consistent,
       Users, Accounts, Stone, Uid

(* What the tombstone of a uid becomes, and what it leaves alone. *)
LEMMA BoundFacts ==
  ASSUME TypeOK, NEW x \in Uid, NEW l \in Login
  PROVE  /\ Bound(x, l) \subseteq Stone
         /\ [uid |-> x, login |-> l] \in Bound(x, l)
         /\ \A s \in stones : s.uid # x => s \in Bound(x, l)
         /\ \A s \in Bound(x, l) : \/ s \in stones /\ s.uid # x
                                   \/ s = [uid |-> x, login |-> l]
         /\ \A s \in Bound(x, l) : s \in stones \/ s.uid = x
BY DEF Bound, TypeOK, Stone, Uid

LEMMA RowTypes ==
  ASSUME TypeOK
  PROVE  /\ \A u \in Users : users[u] \in UserRow
         /\ \A a \in Accounts : accounts[a] \in Uid /\ accounts[a] # Null
         /\ nextUid <= MaxUid => nextUid \in Uid /\ nextUid # Null
         /\ \A w \in Web : checked[w] # Null => checked[w] \in Login
BY DEF TypeOK, Users, Accounts, Uid

----------------------------------------------------------------------------
(* Type correctness. *)
LEMMA TypeInductive ==
  ASSUME TypeOK, [Next]_vars
  PROVE  TypeOK'
<1> USE RowTypes
<1>1. ASSUME NEW w \in Web, NEW l \in Login, CheckLogin(w, l)
      PROVE  TypeOK'
  BY <1>1 DEF CheckLogin, TypeOK
<1>2. ASSUME NEW w \in Web, NEW u \in User, NEW a \in Account, CreateUser(w, u, a)
      PROVE  TypeOK'
  <2>1. nextUid \in Uid /\ checked[w] \in Login
    BY <1>2 DEF CreateUser
  <2>2. stones' \subseteq Stone
    BY <1>2, <2>1, BoundFacts DEF CreateUser
  <2>3. users' \in [User -> UserRow \cup {Null}] /\ owner' \in [Login -> User \cup {Null}]
    BY <1>2, <2>1 DEF CreateUser, Assign, UserRow, TypeOK
  <2> QED
    BY <1>2, <2>1, <2>2, <2>3 DEF CreateUser, TypeOK, Uid
<1>3. ASSUME NEW w \in Web, AbortCreate(w)
      PROVE  TypeOK'
  BY <1>3 DEF AbortCreate, TypeOK
<1>4. ASSUME NEW a \in Account, InsertAccount(a)
      PROVE  TypeOK'
  <2>1. nextUid \in Uid
    BY <1>4 DEF InsertAccount
  <2>2. [uid |-> nextUid, login |-> Null] \in Stone
    BY <2>1 DEF Stone, Uid
  <2> QED
    BY <1>4, <2>1, <2>2 DEF InsertAccount, TypeOK, Uid
<1>5. ASSUME NEW a \in Account, DeleteAccount(a)
      PROVE  TypeOK'
  <2>1. users' \in [User -> UserRow \cup {Null}]
    BY <1>5 DEF DeleteAccount, UserRow, TypeOK
  <2> QED
    BY <1>5, <2>1 DEF DeleteAccount, TypeOK
<1>6. ASSUME NEW u \in User, NEW l \in Login, InsertUser(u, l)
      PROVE  TypeOK'
  <2>1. [uid |-> Null, login |-> l] \in Stone
    BY DEF Stone
  <2> QED
    BY <1>6, <2>1 DEF InsertUser, Assign, UserRow, TypeOK
<1>7. ASSUME NEW u \in User, NEW l \in Login, NEW a \in Account, InsertUserWithAccount(u, l, a)
      PROVE  TypeOK'
  <2>1. stones' \subseteq Stone
    BY <1>7, BoundFacts DEF InsertUserWithAccount
  <2> QED
    BY <1>7, <2>1 DEF InsertUserWithAccount, Assign, UserRow, TypeOK
<1>8. ASSUME NEW u \in User, NEW a \in Account, Couple(u, a)
      PROVE  TypeOK'
  <2>1. users[u].login \in Login
    BY <1>8 DEF Couple, UserRow
  <2>2. stones' \subseteq Stone
    <3>1. stones' \subseteq Bound(accounts[a], users[u].login) /\ accounts[a] \in Uid
      BY <1>8 DEF Couple
    <3>2. Bound(accounts[a], users[u].login) \subseteq Stone
      BY <2>1, <3>1, BoundFacts
    <3> QED
      BY <3>1, <3>2
  <2>3. users' \in [User -> UserRow \cup {Null}]
    BY <1>8 DEF Couple, UserRow, TypeOK
  <2> QED
    BY <1>8, <2>2, <2>3 DEF Couple, TypeOK
<1>9. ASSUME NEW u \in User, Decouple(u)
      PROVE  TypeOK'
  BY <1>9 DEF Decouple, UserRow, TypeOK
<1>10. ASSUME NEW u \in User, DeleteUser(u)
       PROVE  TypeOK'
  BY <1>10 DEF DeleteUser, TypeOK
<1>11. CASE UNCHANGED vars
  BY <1>11 DEF vars, TypeOK
<1> QED
  BY <1>1, <1>2, <1>3, <1>4, <1>5, <1>6, <1>7, <1>8, <1>9, <1>10, <1>11 DEF Next

----------------------------------------------------------------------------
(* The keys stay unique, and the uids of the tables below the sequence. *)
LEMMA KeysInductive ==
  ASSUME TypeOK, KeysUnique, UidsDrawn, [Next]_vars
  PROVE  KeysUnique'
<1> USE RowTypes DEF KeysUnique, Users, Accounts
<1>1. ASSUME UNCHANGED <<users, accounts>>
      PROVE  KeysUnique'
  BY <1>1
<1>2. ASSUME NEW w \in Web, NEW u \in User, NEW a \in Account, CreateUser(w, u, a)
      PROVE  KeysUnique'
  <2>1. /\ users' = [users EXCEPT ![u] = [login |-> checked[w], account |-> a]]
        /\ accounts' = [accounts EXCEPT ![a] = nextUid]
        /\ users[u] = Null /\ accounts[a] = Null
        /\ nextUid \in Uid
    BY <1>2 DEF CreateUser, NewUser, Assign
  <2>2. \A b \in Accounts : accounts[b] # nextUid
    BY <2>1 DEF UidsDrawn, Uid
  <2>3. \A v \in Users : users[v].account # a
    BY <2>1, IdAssumption
  <2>4. \A v \in Users' : v # u => v \in Users /\ users'[v] = users[v]
    BY <2>1 DEF TypeOK
  <2>5. users'[u].account = a /\ accounts'[a] = nextUid
    BY <2>1 DEF TypeOK
  <2>6. \A b \in Accounts' : b # a => b \in Accounts /\ accounts'[b] = accounts[b]
    BY <2>1 DEF TypeOK
  <2>7. \A b \in Accounts : b # a /\ b \in Accounts' /\ accounts'[b] = accounts[b]
    BY <2>1 DEF TypeOK
  <2>8. a \in Accounts'
    BY <1>2, <2>5 DEF CreateUser
  <2>9. \A v \in Users' : users'[v].account # Null => users'[v].account \in Accounts'
    BY <2>4, <2>5, <2>7, <2>8
  <2>10. \A b, c \in Accounts' : accounts'[b] = accounts'[c] => b = c
    BY <2>2, <2>5, <2>6
  <2>11. \A v, x \in Users' : users'[v].account = users'[x].account /\ users'[v].account # Null => v = x
    BY <2>3, <2>4, <2>5
  <2> QED
    BY <2>9, <2>10, <2>11
<1>3. ASSUME NEW a \in Account, InsertAccount(a)
      PROVE  KeysUnique'
  <2>1. /\ accounts' = [accounts EXCEPT ![a] = nextUid]
        /\ accounts[a] = Null /\ nextUid \in Uid /\ users' = users
    BY <1>3 DEF InsertAccount
  <2>2. \A b \in Accounts : accounts[b] # nextUid
    BY <2>1 DEF UidsDrawn, Uid
  <2>3. \A b \in Accounts : b \in Accounts' /\ accounts'[b] = accounts[b]
    BY <2>1 DEF TypeOK
  <2>4. \A b \in Accounts' : b # a => b \in Accounts /\ accounts'[b] = accounts[b]
    BY <2>1 DEF TypeOK
  <2>5. accounts'[a] = nextUid
    BY <2>1 DEF TypeOK
  <2> QED
    BY <2>1, <2>2, <2>3, <2>4, <2>5
<1>4. ASSUME NEW a \in Account, DeleteAccount(a)
      PROVE  KeysUnique'
  <2>1. accounts' = [accounts EXCEPT ![a] = Null]
    BY <1>4 DEF DeleteAccount
  <2>2. \A v \in Users' : /\ v \in Users
                          /\ users'[v].account # Null =>
                               users'[v].account = users[v].account /\ users[v].account # a
    BY <1>4 DEF DeleteAccount, UserRow, TypeOK
  <2>3. \A b \in Accounts' : b \in Accounts /\ accounts'[b] = accounts[b]
    BY <2>1 DEF TypeOK
  <2>4. \A b \in Accounts : b # a => b \in Accounts'
    BY <2>1 DEF TypeOK
  <2> QED
    BY <2>2, <2>3, <2>4
<1>5. ASSUME NEW u \in User, NEW l \in Login, InsertUser(u, l)
      PROVE  KeysUnique'
  BY <1>5 DEF InsertUser, Assign, TypeOK
<1>6. ASSUME NEW u \in User, NEW l \in Login, NEW a \in Account, InsertUserWithAccount(u, l, a)
      PROVE  KeysUnique'
  BY <1>6 DEF InsertUserWithAccount, Assign, Unclaimed, TypeOK
<1>7. ASSUME NEW u \in User, NEW a \in Account, Couple(u, a)
      PROVE  KeysUnique'
  <2>1. \A v \in Users' : v \in Users /\ users'[v].account = IF v = u THEN a ELSE users[v].account
    BY <1>7 DEF Couple, UserRow, TypeOK
  <2> QED
    BY <1>7, <2>1 DEF Couple, Unclaimed
<1>8. ASSUME NEW u \in User, Decouple(u)
      PROVE  KeysUnique'
  <2>1. \A v \in Users' : v \in Users /\ users'[v].account = IF v = u THEN Null ELSE users[v].account
    BY <1>8 DEF Decouple, UserRow, TypeOK
  <2> QED
    BY <1>8, <2>1 DEF Decouple
<1>9. ASSUME NEW u \in User, DeleteUser(u)
      PROVE  KeysUnique'
  <2>1. \A v \in Users' : v # u /\ v \in Users /\ users'[v] = users[v]
    BY <1>9 DEF DeleteUser, TypeOK
  <2>2. \A b \in Accounts' : b \in Accounts /\ accounts'[b] = accounts[b]
    BY <1>9 DEF DeleteUser
  <2>3. \A b \in Accounts : b # users[u].account => b \in Accounts'
    BY <1>9 DEF DeleteUser
  <2>4. \A v \in Users' : users'[v].account # Null => users'[v].account \in Accounts'
    BY <1>9, <2>1, <2>3 DEF DeleteUser
  <2> QED
    BY <2>1, <2>2, <2>4
<1> QED
  BY <1>1, <1>2, <1>3, <1>4, <1>5, <1>6, <1>7, <1>8, <1>9
  DEF Next, vars, CheckLogin, AbortCreate

LEMMA UidsInductive ==
  ASSUME TypeOK, UidsDrawn, [Next]_vars
  PROVE  UidsDrawn'
<1> USE RowTypes DEF UidsDrawn, Accounts
<1>1. ASSUME NEW w \in Web, NEW u \in User, NEW a \in Account, CreateUser(w, u, a)
      PROVE  UidsDrawn'
  <2>1. nextUid \in Uid /\ nextUid \in Int /\ checked[w] \in Login
    BY <1>1 DEF CreateUser, Uid
  <2>2. \A b \in Accounts' : accounts'[b] = nextUid \/ (b \in Accounts /\ accounts'[b] = accounts[b])
    <3>1. accounts' = [accounts EXCEPT ![a] = nextUid]
      BY <1>1 DEF CreateUser
    <3> QED
      BY <3>1 DEF TypeOK
  <2>3. \A s \in stones' : s.uid = nextUid \/ s \in stones
    BY <1>1, <2>1, BoundFacts DEF CreateUser
  <2> QED
    BY <1>1, <2>1, <2>2, <2>3 DEF CreateUser, TypeOK, Stone, Uid
<1>2. ASSUME NEW w \in Web, AbortCreate(w)
      PROVE  UidsDrawn'
  BY <1>2 DEF AbortCreate, TypeOK, Stone, Uid
<1>3. ASSUME NEW a \in Account, InsertAccount(a)
      PROVE  UidsDrawn'
  BY <1>3 DEF InsertAccount, TypeOK, Stone, Uid
<1>4. ASSUME NEW a \in Account, DeleteAccount(a)
      PROVE  UidsDrawn'
  BY <1>4 DEF DeleteAccount, TypeOK
<1>5. ASSUME NEW u \in User, NEW l \in Login, InsertUser(u, l)
      PROVE  UidsDrawn'
  BY <1>5 DEF InsertUser
<1>6. ASSUME NEW u \in User, NEW l \in Login, NEW a \in Account, InsertUserWithAccount(u, l, a)
      PROVE  UidsDrawn'
  <2>1. \A s \in stones' : s.uid = accounts[a] \/ s \in stones
    BY <1>6, BoundFacts DEF InsertUserWithAccount
  <2> QED
    BY <1>6, <2>1 DEF InsertUserWithAccount
<1>7. ASSUME NEW u \in User, NEW a \in Account, Couple(u, a)
      PROVE  UidsDrawn'
  <2>1. \A s \in stones' : s.uid = accounts[a] \/ s \in stones
    BY <1>7, BoundFacts DEF Couple, UserRow
  <2> QED
    BY <1>7, <2>1 DEF Couple
<1>8. ASSUME NEW u \in User, DeleteUser(u)
      PROVE  UidsDrawn'
  BY <1>8 DEF DeleteUser
<1>9. ASSUME UNCHANGED <<accounts, stones, nextUid>>
      PROVE  UidsDrawn'
  BY <1>9
<1> QED
  BY <1>1, <1>2, <1>3, <1>4, <1>5, <1>6, <1>7, <1>8, <1>9 DEF Next, vars, CheckLogin, Decouple

----------------------------------------------------------------------------
(* uid and login stay unique among the tombstones.                         *)
LEMMA BoundUnique ==
  ASSUME TypeOK, TombstonesUnique, NEW x \in Uid, NEW l \in Login,
         \A s \in stones : s.login = l => s.uid \in {Null, x}
  PROVE  \A s, t \in Bound(x, l) \ {[uid |-> Null, login |-> l]} :
           s # t => /\ s.uid # t.uid \/ s.uid = Null
                    /\ s.login # t.login \/ s.login = Null
<1> DEFINE new == [uid |-> x, login |-> l]
<1> DEFINE old == [uid |-> Null, login |-> l]
<1>1. \A s \in Bound(x, l) \ {old} : s = new \/ (s \in stones /\ s.uid # x /\ s.login # l)
  <2> SUFFICES ASSUME NEW s \in Bound(x, l) \ {old}, s # new
               PROVE  s \in stones /\ s.uid # x /\ s.login # l
    OBVIOUS
  <2>1. s \in stones /\ s.uid # x
    BY BoundFacts
  <2>2. s.login = l => s.uid = Null
    BY <2>1
  <2>3. s.uid = Null /\ s.login = l => s = old
    BY <2>1 DEF TypeOK, Stone
  <2> QED
    BY <2>1, <2>2, <2>3
<1> QED
  BY <1>1 DEF TombstonesUnique, Uid

LEMMA UniqueInductive ==
  ASSUME TypeOK, UidsDrawn, TombstonesUnique, [Next]_vars
  PROVE  TombstonesUnique'
<1> USE RowTypes
<1>1. ASSUME UNCHANGED stones
      PROVE  TombstonesUnique'
  BY <1>1 DEF TombstonesUnique
<1>2. ASSUME NEW w \in Web, NEW u \in User, NEW a \in Account, CreateUser(w, u, a)
      PROVE  TombstonesUnique'
  <2>1. /\ nextUid \in Uid /\ checked[w] \in Login
        /\ stones' = Bound(nextUid, checked[w])
        /\ \A s \in stones : s.login # checked[w]
    BY <1>2 DEF CreateUser
  <2>2. [uid |-> Null, login |-> checked[w]] \notin stones'
    BY <2>1 DEF Bound, Uid
  <2> QED
    BY <2>1, <2>2, BoundUnique DEF TombstonesUnique
<1>3. ASSUME NEW a \in Account, InsertAccount(a)
      PROVE  TombstonesUnique'
  <2>1. \A s \in stones : s.uid # nextUid
    BY <1>3 DEF InsertAccount, UidsDrawn, TypeOK, Stone, Uid
  <2> QED
    BY <1>3, <2>1 DEF InsertAccount, TombstonesUnique
<1>4. ASSUME NEW u \in User, NEW l \in Login, InsertUser(u, l)
      PROVE  TombstonesUnique'
  BY <1>4 DEF InsertUser, TombstonesUnique
<1>5. ASSUME NEW u \in User, NEW l \in Login, NEW a \in Account, InsertUserWithAccount(u, l, a)
      PROVE  TombstonesUnique'
  <2>1. /\ accounts[a] \in Uid
        /\ stones' = Bound(accounts[a], l)
        /\ \A s \in stones : s.login = l => s.uid = accounts[a]
    BY <1>5 DEF InsertUserWithAccount
  <2>2. [uid |-> Null, login |-> l] \notin stones'
    BY <2>1 DEF Bound, Uid
  <2> QED
    BY <2>1, <2>2, BoundUnique DEF TombstonesUnique
<1>6. ASSUME NEW u \in User, NEW a \in Account, Couple(u, a)
      PROVE  TombstonesUnique'
  <2>1. users[u].login \in Login /\ accounts[a] \in Uid
    BY <1>6 DEF Couple, UserRow
  <2>2. /\ \A s \in stones : s.login = users[u].login => s.uid \in {Null, accounts[a]}
        /\ stones' = Bound(accounts[a], users[u].login) \ {[uid |-> Null, login |-> users[u].login]}
    BY <1>6 DEF Couple
  <2> QED
    BY <2>1, <2>2, BoundUnique DEF TombstonesUnique
<1> QED
  BY <1>1, <1>2, <1>3, <1>4, <1>5, <1>6
  DEF Next, vars, CheckLogin, AbortCreate, DeleteAccount, Decouple, DeleteUser

----------------------------------------------------------------------------
(* Every login and uid in use keeps its tombstone.                         *)
LEMMA CoverInductive ==
  ASSUME TypeOK, KeysUnique, UidsDrawn, TombstonesCover, [Next]_vars
  PROVE  TombstonesCover'
<1> USE RowTypes
<1>1. ASSUME UNCHANGED <<users, accounts, stones>>
      PROVE  TombstonesCover'
  BY <1>1 DEF TombstonesCover, Consistent, Users, Accounts
<1>2. ASSUME NEW w \in Web, NEW u \in User, NEW a \in Account, CreateUser(w, u, a)
      PROVE  TombstonesCover'
  <2> DEFINE l == checked[w]
  <2>1. /\ nextUid \in Uid /\ l \in Login
        /\ stones' = Bound(nextUid, l)
        /\ users' = [users EXCEPT ![u] = [login |-> l, account |-> a]]
        /\ accounts' = [accounts EXCEPT ![a] = nextUid]
        /\ accounts[a] = Null
    BY <1>2 DEF CreateUser, Assign, Accounts
  <2>2. /\ [uid |-> nextUid, login |-> l] \in stones'
        /\ \A s \in stones : s \in stones'
    <3>1. \A s \in stones : s.uid # nextUid
      BY <2>1 DEF UidsDrawn, Uid
    <3> QED
      BY <2>1, <3>1, BoundFacts
  <2>3. accounts'[a] = nextUid /\ users'[u] = [login |-> l, account |-> a] /\ a \in Accounts'
    BY <2>1 DEF TypeOK, Accounts
  <2>4. \A v \in Users' : v # u => v \in Users /\ users'[v] = users[v]
    BY <2>1 DEF TypeOK, Users
  <2>5. \A b \in Accounts' : b # a => b \in Accounts /\ accounts'[b] = accounts[b]
    BY <2>1 DEF TypeOK, Accounts
  <2>6. \A b \in Accounts : b # a /\ b \in Accounts' /\ accounts'[b] = accounts[b]
    BY <2>1 DEF TypeOK, Accounts
  <2>7. \A v \in Users' : \E s \in stones' : s.login = users'[v].login
    BY <2>2, <2>3, <2>4 DEF TombstonesCover, Consistent
  <2>8. \A b \in Accounts' : \E s \in stones' : s.uid = accounts'[b]
    BY <2>2, <2>3, <2>5 DEF TombstonesCover, Consistent
  <2>9. ASSUME NEW v \in Users', users'[v].account # Null
        PROVE  /\ users'[v].account \in Accounts'
               /\ [uid |-> accounts'[users'[v].account], login |-> users'[v].login] \in stones'
    <3>1. CASE v = u
      BY <2>2, <2>3, <3>1
    <3>2. CASE v # u
      BY <2>2, <2>4, <2>6, <2>9, <3>2, ZenonT(30) DEF TombstonesCover, Consistent
    <3> QED
      BY <3>1, <3>2
  <2> QED
    BY <2>7, <2>8, <2>9 DEF TombstonesCover, Consistent
<1>3. ASSUME NEW a \in Account, InsertAccount(a)
      PROVE  TombstonesCover'
  <2>1. /\ accounts' = [accounts EXCEPT ![a] = nextUid]
        /\ accounts[a] = Null /\ nextUid # Null /\ users' = users
        /\ stones' = stones \cup {[uid |-> nextUid, login |-> Null]}
    BY <1>3 DEF InsertAccount, Accounts
  <2>2. \A b \in Accounts' : b # a => b \in Accounts /\ accounts'[b] = accounts[b]
    BY <2>1 DEF TypeOK, Accounts
  <2>3. \A b \in Accounts : b \in Accounts' /\ accounts'[b] = accounts[b]
    BY <2>1 DEF TypeOK, Accounts
  <2>4. accounts'[a] = nextUid
    BY <2>1 DEF TypeOK
  <2>5. \A b \in Accounts' : \E s \in stones' : s.uid = accounts'[b]
    <3>1. [uid |-> nextUid, login |-> Null].uid = nextUid
      OBVIOUS
    <3> QED
      BY <2>1, <2>2, <2>4, <3>1, ZenonT(30) DEF TombstonesCover, Consistent
  <2>6. Users' = Users /\ \A s \in stones : s \in stones'
    BY <2>1 DEF Users
  <2>7. \A v \in Users : \E s \in stones' : s.login = users[v].login
    BY <2>6 DEF TombstonesCover, Consistent
  <2>8. \A v \in Users : users[v].account # Null =>
          /\ users[v].account \in Accounts'
          /\ [uid |-> accounts'[users[v].account], login |-> users[v].login] \in stones'
    BY <2>3, <2>6 DEF TombstonesCover, Consistent
  <2> QED
    BY <2>1, <2>5, <2>6, <2>7, <2>8 DEF TombstonesCover, Consistent
<1>4. ASSUME NEW a \in Account, DeleteAccount(a)
      PROVE  TombstonesCover'
  <2>1. \A v \in Users' : /\ v \in Users /\ users'[v].login = users[v].login
                          /\ users'[v].account # Null =>
                               users'[v].account = users[v].account /\ users[v].account # a
    BY <1>4 DEF DeleteAccount, UserRow, TypeOK, Users
  <2>2. \A b \in Accounts' : b \in Accounts /\ accounts'[b] = accounts[b]
    BY <1>4 DEF DeleteAccount, TypeOK, Accounts
  <2>3. \A b \in Accounts : b # a => b \in Accounts' /\ accounts'[b] = accounts[b]
    BY <1>4 DEF DeleteAccount, TypeOK, Accounts
  <2>4. stones' = stones
    BY <1>4 DEF DeleteAccount
  <2> QED
    BY <2>1, <2>2, <2>3, <2>4, ZenonT(30) DEF TombstonesCover, Consistent
<1>5. ASSUME NEW u \in User, NEW l \in Login, InsertUser(u, l)
      PROVE  TombstonesCover'
  <2>1. /\ users' = [users EXCEPT ![u] = [login |-> l, account |-> Null]]
        /\ stones' = stones \cup {[uid |-> Null, login |-> l]}
        /\ accounts' = accounts
    BY <1>5 DEF InsertUser, Assign
  <2>2. \A v \in Users' : v # u => v \in Users /\ users'[v] = users[v]
    BY <2>1 DEF TypeOK, Users
  <2>3. users'[u] = [login |-> l, account |-> Null]
    BY <2>1 DEF TypeOK
  <2> QED
    BY <2>1, <2>2, <2>3 DEF TombstonesCover, Consistent, Accounts
<1>6. ASSUME NEW u \in User, NEW l \in Login, NEW a \in Account, InsertUserWithAccount(u, l, a)
      PROVE  TombstonesCover'
  <2>1. /\ users' = [users EXCEPT ![u] = [login |-> l, account |-> a]]
        /\ stones' = Bound(accounts[a], l) /\ accounts' = accounts
        /\ a \in Accounts /\ Unclaimed(a) /\ accounts[a] \in Uid
    BY <1>6 DEF InsertUserWithAccount, Assign
  <2>2. \A s \in stones : s.uid = accounts[a] =>
          s.login = Null \/ \A v \in Users : users[v].login # s.login
    BY <1>6 DEF InsertUserWithAccount
  <2>3. \A v \in Users' : v # u => v \in Users /\ users'[v] = users[v]
    BY <2>1 DEF TypeOK, Users
  <2>4. users'[u] = [login |-> l, account |-> a]
    BY <2>1 DEF TypeOK
  <2>5. /\ [uid |-> accounts[a], login |-> l] \in stones'
        /\ \A s \in stones : s.uid # accounts[a] => s \in stones'
    BY <2>1, BoundFacts
  <2>6. \A v \in Users : \E s \in stones' : s.login = users[v].login
    BY <2>2, <2>5 DEF TombstonesCover, Consistent, UserRow
  <2>7. \A b \in Accounts : \E s \in stones' : s.uid = accounts[b]
    BY <2>5 DEF TombstonesCover, Consistent
  <2>8. \A v \in Users : users[v].account # Null =>
          [uid |-> accounts[users[v].account], login |-> users[v].login] \in stones'
    BY <2>1, <2>5 DEF TombstonesCover, Consistent, KeysUnique, Unclaimed
  <2> QED
    BY <2>1, <2>3, <2>4, <2>5, <2>6, <2>7, <2>8 DEF TombstonesCover, Consistent, Accounts
<1>7. ASSUME NEW u \in User, NEW a \in Account, Couple(u, a)
      PROVE  TombstonesCover'
  <2> DEFINE l == users[u].login
  <2>1. /\ users' = [users EXCEPT ![u].account = a] /\ accounts' = accounts
        /\ stones' = Bound(accounts[a], l) \ {[uid |-> Null, login |-> l]}
        /\ u \in Users /\ a \in Accounts /\ Unclaimed(a) /\ accounts[a] \in Uid /\ l \in Login
        /\ \A s \in stones : s.uid = accounts[a] => s.login \in {Null, l}
    BY <1>7 DEF Couple, UserRow
  <2>2. \A v \in Users' : /\ v \in Users /\ users'[v].login = users[v].login
                          /\ users'[v].account = IF v = u THEN a ELSE users[v].account
    BY <2>1 DEF TypeOK, Users, UserRow
  <2>3. [uid |-> accounts[a], login |-> l] \in stones'
    BY <2>1, BoundFacts DEF Uid
  <2>4. ASSUME NEW s \in stones, s.uid # accounts[a], s.login # l \/ s.uid # Null
        PROVE  s \in stones'
    <3>1. s # [uid |-> Null, login |-> l]
      BY <2>4
    <3>2. s \in Bound(accounts[a], l)
      BY <2>1, <2>4, BoundFacts
    <3> QED
      BY <2>1, <3>1, <3>2
  <2>5. \A s \in stones : s.uid # accounts[a] /\ s.uid # Null => s \in stones'
    BY <2>4
  <2>6. \A v \in Users : \E s \in stones' : s.login = users[v].login
    BY <2>1, <2>3, <2>4 DEF TombstonesCover, Consistent, UserRow
  <2>7. \A b \in Accounts : \E s \in stones' : s.uid = accounts[b]
    BY <2>3, <2>5 DEF TombstonesCover, Consistent
  <2>8. \A v \in Users : users[v].account # Null =>
          [uid |-> accounts[users[v].account], login |-> users[v].login] \in stones'
    BY <2>1, <2>5 DEF TombstonesCover, Consistent, KeysUnique, Unclaimed
  <2>9. Accounts' = Accounts
    BY <2>1 DEF Accounts
  <2>10. ASSUME NEW v \in Users', users'[v].account # Null
         PROVE  /\ users'[v].account \in Accounts'
                /\ [uid |-> accounts'[users'[v].account], login |-> users'[v].login] \in stones'
    <3>1. CASE v = u
      BY <2>1, <2>2, <2>3, <2>9, <3>1
    <3>2. CASE v # u
      BY <2>1, <2>2, <2>8, <2>9, <2>10, <3>2 DEF TombstonesCover, Consistent
    <3> QED
      BY <3>1, <3>2
  <2> QED
    BY <2>1, <2>2, <2>6, <2>7, <2>9, <2>10 DEF TombstonesCover, Consistent
<1>8. ASSUME NEW u \in User, Decouple(u)
      PROVE  TombstonesCover'
  <2>1. \A v \in Users' : /\ v \in Users /\ users'[v].login = users[v].login
                          /\ users'[v].account = IF v = u THEN Null ELSE users[v].account
    BY <1>8 DEF Decouple, TypeOK, Users, UserRow
  <2> QED
    BY <1>8, <2>1 DEF Decouple, TombstonesCover, Consistent, Accounts
<1>9. ASSUME NEW u \in User, DeleteUser(u)
      PROVE  TombstonesCover'
  <2>1. \A v \in Users' : v # u /\ v \in Users /\ users'[v] = users[v]
    BY <1>9 DEF DeleteUser, TypeOK, Users
  <2>2. \A b \in Accounts' : b \in Accounts /\ accounts'[b] = accounts[b]
    BY <1>9 DEF DeleteUser, Accounts
  <2>3. \A b \in Accounts : b # users[u].account => b \in Accounts' /\ accounts'[b] = accounts[b]
    BY <1>9 DEF DeleteUser, Accounts
  <2>4. \A v \in Users' : users[v].account # Null =>
          users[v].account \in Accounts /\ users[v].account # users[u].account
    BY <1>9, <2>1 DEF DeleteUser, KeysUnique
  <2>5. stones' = stones
    BY <1>9 DEF DeleteUser
  <2> QED
    BY <2>1, <2>2, <2>3, <2>4, <2>5 DEF TombstonesCover, Consistent
<1> QED
  BY <1>1, <1>2, <1>3, <1>4, <1>5, <1>6, <1>7, <1>8, <1>9
  DEF Next, vars, CheckLogin, AbortCreate

----------------------------------------------------------------------------
(* What is not yet inductive without an assumption on who takes an         *)
(* account: the tombstones keep what they say, hence also every login that *)
(* somebody has had.                                                       *)
LoginsKept == \A l \in Login : owner[l] # Null => \E s \in stones : s.login = l

LEMMA StepKeeps ==
  ASSUME TypeOK, UidsDrawn, ~AdoptOrphans, [Next]_vars
  PROVE  \A s \in stones : \E t \in stones' : Keeps(s, t)
<1> USE RowTypes
<1>1. ASSUME \A s \in stones : s \in stones'
      PROVE  \A s \in stones : \E t \in stones' : Keeps(s, t)
  BY <1>1 DEF Keeps
<1>2. ASSUME NEW w \in Web, NEW u \in User, NEW a \in Account, CreateUser(w, u, a)
      PROVE  \A s \in stones : s \in stones'
  <2>1. nextUid \in Uid /\ checked[w] \in Login /\ stones' = Bound(nextUid, checked[w])
    BY <1>2 DEF CreateUser
  <2>2. \A s \in stones : s.uid # nextUid
    BY <2>1 DEF UidsDrawn, Uid
  <2> QED
    BY <2>1, <2>2, BoundFacts
<1>3. ASSUME NEW u \in User, NEW l \in Login, NEW a \in Account, InsertUserWithAccount(u, l, a)
      PROVE  \A s \in stones : \E t \in stones' : Keeps(s, t)
  <2> DEFINE new == [uid |-> accounts[a], login |-> l]
  <2>1. /\ accounts[a] \in Uid /\ stones' = Bound(accounts[a], l)
        /\ \A s \in stones : s.uid = accounts[a] => s.login = Null
    BY <1>3 DEF InsertUserWithAccount
  <2>2. new \in stones' /\ \A s \in stones : s.uid # accounts[a] => s \in stones'
    BY <2>1, BoundFacts
  <2>3. \A s \in stones : s.uid = accounts[a] => Keeps(s, new)
    BY <2>1 DEF Keeps
  <2> QED
    BY <2>2, <2>3 DEF Keeps
<1>4. ASSUME NEW u \in User, NEW a \in Account, Couple(u, a)
      PROVE  \A s \in stones : \E t \in stones' : Keeps(s, t)
  <2> DEFINE l == users[u].login
             old == [uid |-> Null, login |-> l]
             new == [uid |-> accounts[a], login |-> l]
  <2>1. /\ accounts[a] \in Uid /\ l \in Login /\ stones' = Bound(accounts[a], l) \ {old}
        /\ \A s \in stones : s.uid = accounts[a] => s.login \in {Null, l}
    BY <1>4 DEF Couple, UserRow
  <2>2. new \in stones'
    BY <2>1, BoundFacts DEF Uid
  <2>3. \A s \in stones : s.uid # accounts[a] /\ s # old => s \in stones'
    BY <2>1, BoundFacts
  <2>4. \A s \in stones : s.uid = accounts[a] \/ s = old => Keeps(s, new)
    BY <2>1 DEF Keeps
  <2> QED
    BY <2>2, <2>3, <2>4 DEF Keeps
<1> QED
  BY <1>1, <1>2, <1>3, <1>4
  DEF Next, vars, CheckLogin, AbortCreate, InsertAccount, InsertUser, DeleteAccount, Decouple, DeleteUser

(* Whoever gets a login is its first owner. *)
LEMMA NoLoginTwiceStep ==
  ASSUME TypeOK, UidsDrawn, LoginsKept, NoLoginTwice, ~AdoptOrphans, [Next]_vars
  PROVE  LoginsKept' /\ NoLoginTwice'
<1> USE RowTypes
<1>1. ASSUME NEW l \in Login, \E s \in stones : s.login = l
      PROVE  \E s \in stones' : s.login = l
  BY <1>1, StepKeeps, IdAssumption DEF Keeps
<1>2. ASSUME NEW u \in User, NEW l \in Login, NEW a \in Account \cup {Null},
             NewUser(u), Assign(u, l, a),
             \A s \in stones : s.login # l,
             \E s \in stones' : s.login = l
      PROVE  LoginsKept' /\ NoLoginTwice'
  <2>1. owner[l] = Null
    BY <1>2 DEF LoginsKept
  <2>2. owner' = [owner EXCEPT ![l] = u] /\ u # Null
    BY <1>2, <2>1, IdAssumption DEF Assign
  <2>3. \A x \in Login : owner'[x] = IF x = l THEN u ELSE owner[x]
    BY <2>2 DEF TypeOK
  <2>4. LoginsKept'
    BY <1>1, <1>2, <2>3 DEF LoginsKept
  <2>5. users' = [users EXCEPT ![u] = [login |-> l, account |-> a]]
    BY <1>2 DEF Assign
  <2>6. \A v \in Users' : v # u => v \in Users /\ users'[v] = users[v]
    BY <2>5 DEF TypeOK, Users
  <2>7. users'[u].login = l
    BY <2>5 DEF TypeOK
  <2>8. \A v \in Users : users[v].login \in Login /\ users[v].login # l
    BY <2>1, IdAssumption DEF NoLoginTwice, UserRow, Users
  <2> QED
    BY <2>3, <2>4, <2>6, <2>7, <2>8 DEF NoLoginTwice
<1>3. ASSUME UNCHANGED owner, \A v \in Users' : v \in Users /\ users'[v].login = users[v].login
      PROVE  LoginsKept' /\ NoLoginTwice'
  BY <1>1, <1>3 DEF LoginsKept, NoLoginTwice
<1>4. ASSUME NEW w \in Web, NEW u \in User, NEW a \in Account, CreateUser(w, u, a)
      PROVE  LoginsKept' /\ NoLoginTwice'
  <2>1. nextUid \in Uid /\ checked[w] \in Login
    BY <1>4 DEF CreateUser
  <2>2. [uid |-> nextUid, login |-> checked[w]] \in stones'
    BY <1>4, <2>1, BoundFacts DEF CreateUser
  <2> QED
    BY <1>2, <1>4, <2>1, <2>2 DEF CreateUser
<1>5. ASSUME NEW u \in User, NEW l \in Login, InsertUser(u, l)
      PROVE  LoginsKept' /\ NoLoginTwice'
  <2>1. [uid |-> Null, login |-> l] \in stones'
    BY <1>5 DEF InsertUser
  <2> QED
    BY <1>2, <1>5, <2>1 DEF InsertUser
<1>6. ASSUME NEW u \in User, NEW l \in Login, NEW a \in Account, InsertUserWithAccount(u, l, a)
      PROVE  LoginsKept' /\ NoLoginTwice'
  <2>1. accounts[a] \in Uid
    BY <1>6 DEF InsertUserWithAccount
  <2>2. [uid |-> accounts[a], login |-> l] \in stones'
    BY <1>6, <2>1, BoundFacts DEF InsertUserWithAccount
  <2>3. \A s \in stones : s.login # l
    BY <1>6, IdAssumption DEF InsertUserWithAccount
  <2> QED
    BY <1>2, <1>6, <2>2, <2>3 DEF InsertUserWithAccount
<1>7. ASSUME NEW a \in Account, DeleteAccount(a)
      PROVE  LoginsKept' /\ NoLoginTwice'
  <2>1. \A v \in Users' : v \in Users /\ users'[v].login = users[v].login
    BY <1>7 DEF DeleteAccount, UserRow, TypeOK, Users
  <2> QED
    BY <1>3, <1>7, <2>1 DEF DeleteAccount
<1>8. ASSUME NEW u \in User, NEW a \in Account, Couple(u, a)
      PROVE  LoginsKept' /\ NoLoginTwice'
  <2>1. \A v \in Users' : v \in Users /\ users'[v].login = users[v].login
    BY <1>8 DEF Couple, UserRow, TypeOK, Users
  <2> QED
    BY <1>3, <1>8, <2>1 DEF Couple
<1>9. ASSUME NEW u \in User, Decouple(u)
      PROVE  LoginsKept' /\ NoLoginTwice'
  <2>1. \A v \in Users' : v \in Users /\ users'[v].login = users[v].login
    BY <1>9 DEF Decouple, UserRow, TypeOK, Users
  <2> QED
    BY <1>3, <1>9, <2>1 DEF Decouple
<1>10. ASSUME NEW u \in User, DeleteUser(u)
       PROVE  LoginsKept' /\ NoLoginTwice'
  <2>1. \A v \in Users' : v \in Users /\ users'[v].login = users[v].login
    BY <1>10 DEF DeleteUser, TypeOK, Users
  <2> QED
    BY <1>3, <1>10, <2>1 DEF DeleteUser
<1>11. ASSUME UNCHANGED <<users, owner>>
       PROVE  LoginsKept' /\ NoLoginTwice'
  BY <1>3, <1>11 DEF Users
<1> QED
  BY <1>4, <1>5, <1>6, <1>7, <1>8, <1>9, <1>10, <1>11
  DEF Next, vars, CheckLogin, AbortCreate, InsertAccount

----------------------------------------------------------------------------
LEMMA IInvInductive == IInv /\ [Next]_vars => IInv'
BY TypeInductive, KeysInductive, UidsInductive, UniqueInductive, CoverInductive DEF IInv

LEMMA IInvHolds == Spec => []IInv
BY InitIInv, IInvInductive, PTL DEF Spec

(* Every reachable state is well typed (TypeOK).                           *)
THEOREM TypeCorrect == Spec => []TypeOK
<1>1. IInv => TypeOK
  BY DEF IInv
<1> QED
  BY <1>1, IInvHolds, PTL

(* The triggers alone give every login and uid in use its tombstone, one   *)
(* for both where a user has an account: what the foreign keys and the     *)
(* constraint trigger of unix_account.py check can never fail at a commit. *)
THEOREM TombstonesAlwaysCover == Spec => []TombstonesCover
<1>1. IInv => TombstonesCover
  BY DEF IInv
<1> QED
  BY <1>1, IInvHolds, PTL

(* No two tombstones ever have the same uid or the same login.             *)
THEOREM TombstonesAlwaysUnique == Spec => []TombstonesUnique
<1>1. IInv => TombstonesUnique
  BY DEF IInv
<1> QED
  BY <1>1, IInvHolds, PTL

(* As long as no user is inserted with somebody else's old account, no     *)
(* tombstone forgets its uid or its login.                                 *)
THEOREM TombstonesNeverForget == ASSUME ~AdoptOrphans PROVE Spec => TombstonesMonotonous
<1>1. IInv /\ [Next]_vars => \A s \in stones : \E t \in stones' : Keeps(s, t)
  BY StepKeeps DEF IInv
<1> QED
  BY <1>1, IInvHolds, PTL DEF Spec, TombstonesMonotonous

(* ... and no login is given to a second user, also long after its first   *)
(* user is gone and however the requests for it overlap.                   *)
THEOREM NoLoginEverTwice == ASSUME ~AdoptOrphans PROVE Spec => []NoLoginTwice
<1> DEFINE Inv == IInv /\ LoginsKept /\ NoLoginTwice
<1>1. Init => Inv
  BY InitIInv DEF Init, LoginsKept, NoLoginTwice, Users
<1>2. Inv /\ [Next]_vars => Inv'
  BY IInvInductive, NoLoginTwiceStep DEF IInv
<1>3. Inv => NoLoginTwice
  OBVIOUS
<1> QED
  BY <1>1, <1>2, <1>3, PTL DEF Spec

=============================================================================
