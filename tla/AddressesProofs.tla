-------------------------- MODULE AddressesProofs --------------------------
(***************************************************************************)
(* Proofs about Addresses, for any sessions, rows and requests: locks,     *)
(* unique indexes and foreign keys, each of which looks at two requests    *)
(* at most, keep the whole table in order however many of them overlap; a  *)
(* fresh request leaves no orphan, and tenants have their room's address.  *)
(***************************************************************************)
EXTENDS Addresses, FiniteSetTheorems, TLAPS

Row         == UNION {[F -> Entry] : F \in SUBSET Field}
RowsOf      == UNION {[I -> Row] : I \in SUBSET AllIds}
RequestType == Requests(RowsOf)

(* What is None is no request.                                             *)
LEMMA NoneIsNoRequest == None \notin RequestType
BY NoneAssumption DEF RequestType, RowsOf, Row, RowsWith

USE AddressesAssumption, NoneIsNoRequest

Types ==
  /\ requests \in 0 .. MaxRequests
  /\ DOMAIN db = Table /\ DOMAIN given = Table
  /\ \A t \in Table : DOMAIN db[t] \subseteq given[t] /\ given[t] \subseteq Ids[t]
  /\ request \in [Session -> RequestType \cup {None}]
  /\ flushed \subseteq {s \in Session : request[s] # None}

Refers(t) == \A x \in DOMAIN db[t] : db[t][x].address \in DOMAIN db["address"]

TableInv == UniqueIn(db["address"], "value") /\ Refers("room") /\ Refers("user")

(* What a request is going to write, from its decision on: it updates and  *)
(* deletes no rows but those that there are, and inserts under new ids.    *)
Sound(r) ==
  /\ \A t \in Table : DOMAIN r.new[t] \subseteq given[t]
  /\ DOMAIN r.set["address"] = {}
  /\ \A t \in {"room", "user"} : DOMAIN r.set[t] \subseteq DOMAIN db[t] /\ r.drop[t] = {}

(* What may be committed whenever it comes to that *)
Fitting(r) ==
  /\ \A a \in DOMAIN r.new["address"] :
       /\ \A b \in DOMAIN r.new["address"] :
            a # b /\ r.new["address"][a]["value"] = r.new["address"][b]["value"] =>
              r.new["address"][a]["value"] = None
       /\ \A b \in DOMAIN db["address"] \ DOMAIN r.new["address"] :
            r.new["address"][a]["value"] = db["address"][b]["value"] => r.new["address"][a]["value"] = None
  /\ Chosen(r) \subseteq DOMAIN db["address"] \cup DOMAIN r.new["address"]
  /\ Chosen(r) \cap r.drop["address"] = {}
  /\ \A t \in {"room", "user"} : \A x \in DOMAIN db[t] \ Written(r, t) :
       db[t][x].address \notin r.drop["address"]

PendingSound ==
  \A s \in Session : request[s] # None =>
    /\ Sound(request[s])
    /\ s \notin flushed => request[s].drop["address"] = {}

FlushedFit == \A s \in flushed : Fitting(request[s])

(* The locks that are held exclude each other. *)
Locks == \A s, o \in flushed : s # o => ~ Exclude(request[s], request[o])

IInv == Types /\ TableInv /\ PendingSound /\ FlushedFit /\ Locks

LEMMA InitIInv == Init => IInv
<1> SUFFICES ASSUME Init PROVE IInv
  OBVIOUS
<1>1. Types
  BY DEF Init, Types, Table
<1>2. TableInv
  BY DEF Init, TableInv, Refers, UniqueIn
<1>3. PendingSound /\ FlushedFit /\ Locks
  BY DEF Init, PendingSound, FlushedFit, Locks
<1> QED
  BY <1>1, <1>2, <1>3 DEF IInv

----------------------------------------------------------------------------
(* Functions over others, and what decisions are put together from *)

LEMMA PutIsOver ==
  ASSUME NEW f, NEW x, NEW v
  PROVE  Put(f, x, v) = Over([o \in {x} |-> v], f)
BY DEF Put, Over

LEMMA PutIsTyped ==
  ASSUME NEW f \in [Table -> RowsOf], NEW t \in Table, NEW v
  PROVE  /\ DOMAIN Put(f, t, v) = Table /\ Put(f, t, v)[t] = v
         /\ \A o \in Table : o # t => Put(f, t, v)[o] = f[o]
         /\ v \in RowsOf => Put(f, t, v) \in [Table -> RowsOf]
BY DEF Put

LEMMA RowsOfMeans ==
  \A f : f \in RowsOf <=> \E I \in SUBSET AllIds : f \in [I -> Row]
BY DEF RowsOf

LEMMA RowsOfOver ==
  ASSUME NEW f \in RowsOf, NEW g \in RowsOf
  PROVE  Over(f, g) \in RowsOf /\ DOMAIN Over(f, g) = DOMAIN f \cup DOMAIN g
<1>1. PICK I \in SUBSET AllIds : f \in [I -> Row]
  BY RowsOfMeans
<1>2. PICK J \in SUBSET AllIds : g \in [J -> Row]
  BY RowsOfMeans
<1>3. Over(f, g) \in [I \cup J -> Row]
  BY <1>1, <1>2 DEF Over
<1> QED
  BY <1>1, <1>2, <1>3, RowsOfMeans

LEMMA RowsOfSingle ==
  ASSUME NEW t \in Table, NEW id \in Ids[t], NEW row \in Row
  PROVE  [x \in {id} |-> row] \in RowsOf
<1>1. [x \in {id} |-> row] \in [{id} -> Row] /\ {id} \in SUBSET AllIds
  BY DEF AllIds
<1> QED
  BY <1>1, RowsOfMeans

LEMMA RowsOfEmpty == << >> \in RowsOf /\ DOMAIN << >> = {}
<1>1. << >> \in [{} -> Row]
  OBVIOUS
<1> QED
  BY <1>1 DEF RowsOf

(* A decision before it is made: like a request, but it deletes nothing,   *)
(* and the ids that it inserts are not given away yet.                     *)
Draft(r) ==
  /\ r \in RequestType
  /\ \A t \in Table : DOMAIN r.new[t] \subseteq Ids[t] /\ r.drop[t] = {}
  /\ DOMAIN r.set["address"] = {}
  /\ \A t \in {"room", "user"} : DOMAIN r.set[t] \subseteq DOMAIN db[t]

LEMMA DraftNothing ==
  ASSUME Types
  PROVE  Draft(Nothing)
<1> DEFINE none  == [t \in DOMAIN db |-> << >>]
           empty == [t \in DOMAIN db |-> {}]
<1>1. none \in [Table -> RowsOf]
  BY RowsOfEmpty DEF Types
<1>2. empty \in [Table -> SUBSET AllIds]
  BY DEF Types
<1>3. Nothing = [op |-> "none", new |-> none, set |-> none, drop |-> empty, seen |-> {}, fresh |-> TRUE]
  BY DEF Nothing
<1>4. \A t \in Table : DOMAIN none[t] = {} /\ empty[t] = {}
  BY RowsOfEmpty DEF Types
<1> HIDE DEF none, empty
<1>5. Nothing \in RequestType
  <2>2. [op |-> "none", new |-> none, set |-> none, drop |-> empty, seen |-> {}, fresh |-> TRUE] \in RequestType
    BY <1>1, <1>2 DEF RequestType, Requests, Op
  <2> QED
    BY <1>3, <2>2
<1> QED
  BY <1>3, <1>4, <1>5 DEF Types, Draft, Table

LEMMA DraftInsert ==
  ASSUME NEW r, Draft(r), NEW t \in Table, NEW id \in Ids[t], NEW row \in Row
  PROVE  Draft(Insert(r, t, id, row))
<1> DEFINE one == [x \in {id} |-> row]
           f   == Over(one, r.new[t])
<1>1. r.new[t] \in RowsOf
  BY DEF Draft, RequestType, Requests
<1>2. f \in RowsOf /\ DOMAIN f = {id} \cup DOMAIN r.new[t]
  <2>1. one \in RowsOf /\ DOMAIN one = {id}
    BY RowsOfSingle
  <2> HIDE DEF one
  <2> QED
    BY <1>1, <2>1, RowsOfOver
<1>3. Insert(r, t, id, row) = [r EXCEPT !.new = Put(r.new, t, f)]
  BY DEF Insert, InsertAll
<1> HIDE DEF f
<1> QED
  BY <1>2, <1>3, PutIsTyped DEF Draft, RequestType, Requests, Table

LEMMA RowMeans == \A f : f \in Row <=> \E F \in SUBSET Field : f \in [F -> Entry]
BY DEF Row

LEMMA RowOver ==
  ASSUME NEW f \in Row, NEW g \in Row
  PROVE  Over(f, g) \in Row
<1>1. PICK F \in SUBSET Field : f \in [F -> Entry]
  BY RowMeans
<1>2. PICK G \in SUBSET Field : g \in [G -> Entry]
  BY RowMeans
<1>3. Over(f, g) \in [F \cup G -> Entry]
  BY <1>1, <1>2 DEF Over
<1> QED
  BY <1>3, RowMeans

LEMMA RowPart ==
  ASSUME NEW f \in Row, NEW D \in SUBSET DOMAIN f
  PROVE  [x \in D |-> f[x]] \in Row
<1>1. PICK F \in SUBSET Field : f \in [F -> Entry]
  BY RowMeans
<1>2. [x \in D |-> f[x]] \in [D -> Entry] /\ D \in SUBSET Field
  BY <1>1
<1> QED
  BY <1>2, RowMeans

LEMMA RowEmpty == << >> \in Row
<1>1. << >> \in [{} -> Entry]
  OBVIOUS
<1> QED
  BY <1>1 DEF Row

LEMMA RowsOfRow ==
  ASSUME NEW f \in RowsOf, NEW x \in DOMAIN f
  PROVE  f[x] \in Row
BY RowsOfMeans

LEMMA DraftUpdate ==
  ASSUME Types, NEW r, Draft(r), NEW t \in {"room", "user"}, NEW id \in DOMAIN db[t], NEW fields \in Row
  PROVE  Draft(Update(r, t, id, fields))
<1> DEFINE differs == {f \in DOMAIN fields : fields[f] # db[t][id][f]}
           before  == IF id \in DOMAIN r.set[t] THEN r.set[t][id] ELSE << >>
           part    == [f \in differs |-> fields[f]]
           row     == Over(part, before)
           one     == [x \in {id} |-> row]
           all     == Over(one, r.set[t])
<1>1. r.set[t] \in RowsOf /\ t \in Table /\ id \in Ids[t]
  BY DEF Draft, RequestType, Requests, Types, Table
<1>2. before \in Row
  BY <1>1, RowsOfRow, RowEmpty
<1>3. part \in Row
  <2>1. differs \in SUBSET DOMAIN fields
    OBVIOUS
  <2> HIDE DEF differs
  <2> QED
    BY <2>1, RowPart
<1>4. row \in Row
  <2> HIDE DEF part, before
  <2> QED
    BY <1>2, <1>3, RowOver
<1>5. one \in RowsOf /\ DOMAIN one = {id}
  <2> HIDE DEF row
  <2> QED
    BY <1>1, <1>4, RowsOfSingle
<1>6. all \in RowsOf /\ DOMAIN all = {id} \cup DOMAIN r.set[t]
  <2> HIDE DEF one
  <2> QED
    BY <1>1, <1>5, RowsOfOver
<1>7. Update(r, t, id, fields) = IF differs = {} THEN r ELSE [r EXCEPT !.set = Put(r.set, t, all)]
  <2>1. Update(r, t, id, fields) =
          IF differs = {} THEN r ELSE [r EXCEPT !.set = Put(r.set, t, Put(r.set[t], id, row))]
    BY DEF Update
  <2> HIDE DEF row, differs
  <2>2. Put(r.set[t], id, row) = all
    BY PutIsOver
  <2> QED
    BY <2>1, <2>2
<1> HIDE DEF all, differs
<1>8. CASE differs = {}
  BY <1>7, <1>8
<1>9. CASE differs # {}
  BY <1>1, <1>6, <1>7, <1>9, PutIsTyped DEF Draft, RequestType, Requests, Table
<1> QED
  BY <1>8, <1>9

(* Rows as they are entered *)
LEMMA EntryRows ==
  ASSUME NEW v \in Entry, NEW n \in Entry, NEW o \in Entry, NEW a \in Entry
  PROVE  /\ [value |-> v] \in Row /\ [address |-> a] \in Row /\ [room |-> o] \in Row
         /\ [room |-> o, address |-> a] \in Row
         /\ [number |-> n, vo |-> o, address |-> a] \in Row
<1>1. [value |-> v] \in [{"value"} -> Entry] /\ {"value"} \in SUBSET Field
  BY DEF Field
<1>2. [address |-> a] \in [{"address"} -> Entry] /\ {"address"} \in SUBSET Field
  BY DEF Field
<1>3. [room |-> o] \in [{"room"} -> Entry] /\ {"room"} \in SUBSET Field
  BY DEF Field
<1>4. [room |-> o, address |-> a] \in [{"room", "address"} -> Entry] /\ {"room", "address"} \in SUBSET Field
  BY DEF Field
<1>5. /\ [number |-> n, vo |-> o, address |-> a] \in [{"number", "vo", "address"} -> Entry]
      /\ {"number", "vo", "address"} \in SUBSET Field
  BY DEF Field
<1> QED
  BY <1>1, <1>2, <1>3, <1>4, <1>5, RowMeans

LEMMA AddressTaken ==
  ASSUME Types, NEW v \in Value, CanHave(v)
  PROVE  /\ AddressOf(v) \in Ids["address"] /\ AddressOf(v) \in Entry
         /\ Draft(WithAddress(Nothing, v))
<1>1. CASE AddressesWith(v) # {}
  BY <1>1, DraftNothing DEF AddressOf, WithAddress, AddressesWith, Types, Table, Entry
<1>2. CASE AddressesWith(v) = {}
  <2>1. NewId("address") \in Ids["address"]
    BY <1>2 DEF CanHave, NewId, NewIds
  <2>2. [value |-> v] \in Row
    BY EntryRows DEF Entry
  <2>3. Draft(Insert(Nothing, "address", NewId("address"), [value |-> v]))
    BY <2>1, <2>2, DraftInsert, DraftNothing DEF Table
  <2> QED
    BY <1>2, <2>1, <2>3 DEF AddressOf, WithAddress, Entry
<1> QED
  BY <1>1, <1>2

(* Addresses of rooms and users are ids of addresses. *)
LEMMA AddressIds ==
  ASSUME Types, TableInv, NEW t \in {"room", "user"}, NEW x \in DOMAIN db[t]
  PROVE  db[t][x].address \in Entry /\ x \in Ids[t]
BY DEF Types, TableInv, Refers, Table, Entry

(* A request whose rows are those of another one before has its locks. *)
LEMMA SameWrites ==
  ASSUME NEW s \in Session, NEW q,
         request'[s].new = q.new, request'[s].set = q.set,
         \A t \in {"room", "user"} : \A x \in Written(q, t) : RowIn(request[s], t, x)' = RowIn(q, t, x)
  PROVE  /\ \A t : Written(request[s], t)' = Written(q, t)
         /\ Values(request[s])' = Values(q)
         /\ Vos(request[s])' = Vos(q)
         /\ Chosen(request[s])' = Chosen(q)
<1>1. \A t : Written(request[s], t)' = Written(q, t)
  BY DEF Written
<1>2. Values(request[s])' = Values(q)
  BY DEF Values
<1>3. Vos(request[s])' = Vos(q)
  BY <1>1 DEF Vos
<1>4. Chosen(request[s])' = Chosen(q)
  BY <1>1 DEF Chosen
<1> QED
  BY <1>1, <1>2, <1>3, <1>4

(* What is fitting stays so in a step that changes neither it nor the db.  *)
LEMMA StillFitting ==
  ASSUME UNCHANGED db, NEW s \in Session, request'[s] = request[s], Fitting(request[s])
  PROVE  Fitting(request[s])'
<1>1. \A t \in {"room", "user"} : \A x \in Written(request[s], t) :
        RowIn(request[s], t, x)' = RowIn(request[s], t, x)
  BY DEF RowIn
<1>2. /\ Chosen(request[s])' = Chosen(request[s])
      /\ \A t : Written(request[s], t)' = Written(request[s], t)
  BY <1>1, SameWrites
<1> QED
  BY <1>2 DEF Fitting

LEMMA BeginKeepsIInv ==
  ASSUME IInv, NEW s \in Session, request[s] = None, NEW op \in Op, NEW r, Draft(r), Begin(s, op, r)
  PROVE  IInv'
<1> DEFINE r1 == [r EXCEPT !.op = op, !.seen = {"db"}]
<1>1. /\ requests' \in 0 .. MaxRequests /\ UNCHANGED <<db, flushed>>
      /\ request' = [request EXCEPT ![s] = r1]
      /\ given' = [t \in DOMAIN db |-> given[t] \cup (DOMAIN r.new[t] \cap Ids[t])]
  BY DEF Begin, Decide, Pending, IInv, Types
<1>2. /\ r1 \in RequestType /\ r1.new = r.new /\ r1.set = r.set /\ r1.drop = r.drop
  BY DEF Draft, RequestType, Requests
<1>3. /\ request'[s] = r1 /\ r1 # None
      /\ \A o \in Session \ {s} : request'[o] = request[o]
      /\ s \notin flushed
      /\ \A t \in Table : given[t] \subseteq given'[t] /\ given'[t] \subseteq Ids[t] /\ DOMAIN r.new[t] \subseteq given'[t]
  <2>1. \A t \in Table : DOMAIN r.new[t] \subseteq Ids[t]
    BY DEF Draft
  <2> HIDE DEF r1
  <2> QED
    BY <1>1, <1>2, <2>1 DEF IInv, Types
<1> HIDE DEF r1
<1>4. Types'
  BY <1>1, <1>2, <1>3 DEF IInv, Types
<1>5. TableInv'
  BY <1>1 DEF IInv, TableInv, Refers, UniqueIn
<1>6. PendingSound'
  <2>1. Sound(r1)'
    BY <1>1, <1>2, <1>3 DEF Draft, Sound, Table
  <2>2. r1.drop["address"] = {}
    BY <1>2 DEF Draft, Table
  <2>3. ASSUME NEW o \in Session \ {s}, request[o] # None
        PROVE  Sound(request[o])'
    <3>1. Sound(request[o])
      BY <2>3 DEF IInv, PendingSound
    <3> QED
      BY <1>1, <1>3, <3>1, <2>3 DEF Sound
  <2> QED
    BY <1>1, <1>3, <2>1, <2>2, <2>3 DEF IInv, PendingSound
<1>7. FlushedFit'
  <2>1. ASSUME NEW o \in flushed PROVE Fitting(request[o])'
    <3>1. o \in Session /\ Fitting(request[o]) /\ request'[o] = request[o]
      BY <1>3 DEF IInv, FlushedFit, Types
    <3> QED
      BY <1>1, <3>1, StillFitting
  <2> QED
    BY <1>1, <2>1 DEF FlushedFit
<1>8. Locks'
  <2>1. ASSUME NEW p \in flushed, NEW q \in flushed, p # q
        PROVE  ~ Exclude(request[p], request[q])'
    <3>1. ~ Exclude(request[p], request[q]) /\ request'[p] = request[p] /\ request'[q] = request[q]
      BY <1>3, <2>1 DEF IInv, Locks, Types
    <3>2. \A o \in {p, q} : \A t \in {"room", "user"} : \A x \in Written(request[o], t) :
            RowIn(request[o], t, x)' = RowIn(request[o], t, x)
      BY <1>1, <3>1 DEF RowIn, Written
    <3>3. ASSUME NEW o \in {p, q}
          PROVE  /\ \A t : Written(request[o], t)' = Written(request[o], t)
                 /\ Values(request[o])' = Values(request[o])
                 /\ Vos(request[o])' = Vos(request[o])
                 /\ Chosen(request[o])' = Chosen(request[o])
                 /\ request'[o].drop = request[o].drop
      BY <3>1, <3>2, SameWrites DEF IInv, Types
    <3> QED
      BY <3>1, <3>3 DEF Exclude
  <2> QED
    BY <1>1, <2>1 DEF Locks
<1> QED
  BY <1>4, <1>5, <1>6, <1>7, <1>8 DEF IInv

LEMMA DraftSharers ==
  ASSUME Types, NEW r, Draft(r), NEW x, NEW a \in Entry
  PROVE  Draft([r EXCEPT !.set["user"] = AddressFields(Sharers(x), a)])
<1> DEFINE moved == AddressFields(Sharers(x), a)
<1>1. Sharers(x) \subseteq DOMAIN db["user"] /\ DOMAIN db["user"] \subseteq Ids["user"]
  BY DEF Sharers, Types, Table
<1>2. moved \in RowsOf /\ DOMAIN moved = Sharers(x)
  <2>1. [address |-> a] \in Row
    BY EntryRows
  <2>2. moved \in [Sharers(x) -> Row] /\ Sharers(x) \in SUBSET AllIds
    BY <1>1, <2>1 DEF AddressFields, AllIds, Table
  <2> QED
    BY <2>2, RowsOfMeans
<1> DEFINE all == [r EXCEPT !.set = [@ EXCEPT !["user"] = moved]]
<1>3. [r EXCEPT !.set["user"] = AddressFields(Sharers(x), a)] = all
  OBVIOUS
<1> HIDE DEF moved
<1>4. all.set = [r.set EXCEPT !["user"] = moved] /\ all.new = r.new /\ all.drop = r.drop /\ all \in RequestType
  BY <1>2 DEF Draft, RequestType, Requests, Table
<1>5. Draft(all)
  <2> HIDE DEF all
  <2> QED
    BY <1>1, <1>2, <1>4 DEF Draft, RequestType, Requests, Table
<1> QED
  BY <1>3, <1>5

(* Requests that update a room or a user if they write anything at all.    *)
(* An address that they create is one that they refer to.                  *)
Sweeper == {"room_edit", "edit_address", "create_user", "move_in", "move", "move_out"}

WritesNothing(r) == \A t \in Table : DOMAIN r.new[t] = {}

SweepsAs(op, r) ==
  /\ op = "create_user" \/ \A t \in {"room", "user"} : DOMAIN r.new[t] = {}
  /\ DOMAIN r.new["address"] \subseteq Chosen(r)

Sweeps(r) == SweepsAs(r.op, r)

LEMMA NothingIsWritten ==
  ASSUME Types
  PROVE  WritesNothing(Nothing)
BY RowsOfEmpty DEF Nothing, WritesNothing, Types

LEMMA UpdateWrites ==
  ASSUME NEW r \in RequestType, NEW t \in {"room", "user"}, NEW id, NEW fields
  PROVE  /\ Update(r, t, id, fields).new = r.new
         /\ /\ "address" \in DOMAIN fields /\ fields.address # db[t][id].address
            /\ id \notin DOMAIN r.new[t]
            => /\ id \in DOMAIN Update(r, t, id, fields).set[t]
               /\ RowIn(Update(r, t, id, fields), t, id).address = fields.address
<1> DEFINE differs == {f \in DOMAIN fields : fields[f] # db[t][id][f]}
           before  == IF id \in DOMAIN r.set[t] THEN r.set[t][id] ELSE << >>
           part    == [f \in differs |-> fields[f]]
           row     == Over(part, before)
           one     == [x \in {id} |-> row]
           all     == Over(one, r.set[t])
           u       == Update(r, t, id, fields)
<1>1. u = IF differs = {} THEN r ELSE [r EXCEPT !.set = Put(r.set, t, all)]
  <2>1. u = IF differs = {} THEN r ELSE [r EXCEPT !.set = Put(r.set, t, Put(r.set[t], id, row))]
    BY DEF Update
  <2> HIDE DEF row, differs, u
  <2>2. Put(r.set[t], id, row) = all
    BY PutIsOver
  <2> QED
    BY <2>1, <2>2
<1>2. u.new = r.new
  <2> HIDE DEF all, differs, u
  <2> QED
    BY <1>1 DEF RequestType, Requests
<1>3. ASSUME "address" \in DOMAIN fields, fields.address # db[t][id].address,
             id \notin DOMAIN r.new[t]
      PROVE  id \in DOMAIN u.set[t] /\ RowIn(u, t, id).address = fields.address
  <2>1. "address" \in differs
    BY <1>3
  <2>2. u.set[t] = all
    <3> HIDE DEF all, differs, u
    <3> QED
      BY <1>1, <2>1, PutIsTyped DEF RequestType, Requests, Table
  <2>3. id \in DOMAIN all /\ all[id] = row
    <3> HIDE DEF row
    <3> QED
      BY DEF Over
  <2>4. "address" \in DOMAIN row /\ row["address"] = fields["address"]
    <3>1. "address" \in DOMAIN part /\ part["address"] = fields["address"]
      BY <2>1
    <3> HIDE DEF part, before
    <3> QED
      BY <3>1 DEF Over
  <2>5. RowIn(u, t, id) = Over(row, db[t][id])
    <3> HIDE DEF u, all, row
    <3> QED
      BY <1>2, <1>3, <2>2, <2>3 DEF RowIn
  <2>6. RowIn(u, t, id)["address"] = row["address"]
    <3> HIDE DEF u, row
    <3> QED
      BY <2>4, <2>5 DEF Over
  <2> HIDE DEF u, all, row
  <2> QED
    BY <2>2, <2>3, <2>4, <2>6
<1> HIDE DEF u, differs, all
<1> QED
  BY <1>2, <1>3 DEF u

(* An address that has to be created is not that of a room or a user yet. *)
LEMMA AddressIsNew ==
  ASSUME Types, TableInv, NEW v \in Value, CanHave(v), ~ WritesNothing(WithAddress(Nothing, v)),
         NEW t \in {"room", "user"}, NEW x \in DOMAIN db[t]
  PROVE  AddressOf(v) # db[t][x].address
<1>1. AddressesWith(v) = {}
  BY NothingIsWritten DEF WithAddress
<1>2. AddressOf(v) \in Ids["address"] \ given["address"]
  BY <1>1 DEF CanHave, AddressOf, NewId, NewIds
<1>3. db[t][x].address \in given["address"]
  BY DEF Types, TableInv, Refers, Table
<1> QED
  BY <1>2, <1>3

LEMMA AddressIsInserted ==
  ASSUME Types, NEW v \in Value
  PROVE  /\ DOMAIN WithAddress(Nothing, v).new["address"] \subseteq {AddressOf(v)}
         /\ \A t \in {"room", "user"} : DOMAIN WithAddress(Nothing, v).new[t] = {}
<1>1. CASE AddressesWith(v) # {}
  BY <1>1, NothingIsWritten DEF WithAddress, WritesNothing, Table
<1>2. CASE AddressesWith(v) = {}
  <2> DEFINE one == [x \in {NewId("address")} |-> [value |-> v]]
             f   == Over(one, Nothing.new["address"])
  <2>1. Nothing \in RequestType
    BY DraftNothing DEF Draft
  <2>2. WithAddress(Nothing, v) = [Nothing EXCEPT !.new = Put(Nothing.new, "address", f)]
    BY <1>2 DEF WithAddress, Insert, InsertAll
  <2>3. DOMAIN f = {AddressOf(v)} \cup DOMAIN Nothing.new["address"]
    BY <1>2 DEF Over, AddressOf
  <2> HIDE DEF f
  <2>4. /\ WithAddress(Nothing, v).new["address"] = f
        /\ \A t \in {"room", "user"} : WithAddress(Nothing, v).new[t] = Nothing.new[t]
    BY <2>1, <2>2, PutIsTyped DEF RequestType, Requests, Table
  <2> QED
    BY <2>3, <2>4, NothingIsWritten DEF WritesNothing, Table
<1> QED
  BY <1>1, <1>2

----------------------------------------------------------------------------
(* What requests leave of rooms and users *)

Columns(t) == IF t = "room" THEN {"number", "vo", "address"} ELSE {"room", "address"}

(* Rows have all their columns, and a user's room is one that there is.    *)
RowsWhole ==
  /\ \A t \in {"room", "user"} : \A x \in DOMAIN db[t] : Columns(t) \subseteq DOMAIN db[t][x]
  /\ \A u \in DOMAIN db["user"] : db["user"][u]["room"] \in DOMAIN db["room"] \cup {None}
  /\ IsFiniteSet(DOMAIN db["room"])

WholeIn(r) ==
  /\ \A t \in {"room", "user"} : \A x \in DOMAIN r.new[t] : Columns(t) \subseteq DOMAIN r.new[t][x]
  /\ \A u \in DOMAIN r.new["user"] : r.new["user"][u]["room"] \in DOMAIN db["room"] \cup {None}
  /\ \A u \in DOMAIN r.set["user"] : "room" \in DOMAIN r.set["user"][u] =>
       r.set["user"][u]["room"] \in DOMAIN db["room"] \cup {None}
  /\ IsFiniteSet(DOMAIN r.new["room"])

(* The rows of a user and of the user's room, as a request leaves them     *)
FollowsIn(r) ==
  \A u \in DOMAIN db["user"] :
    IF HasCustomAddress(db, u) THEN RowIn(r, "user", u)["address"] = db["user"][u]["address"]
    ELSE db["user"][u]["room"] # None /\ RowIn(r, "user", u)["room"] # None =>
           RowIn(r, "user", u)["address"] = RowIn(r, "room", RowIn(r, "user", u)["room"])["address"]

NamedIn(r, n) == {x \in DOMAIN db["room"] \cup DOMAIN r.new["room"] : RowIn(r, "room", x)["number"] = n}

NamesKept(r) ==
  \A n \in Number : NamedIn(r, n) \subseteq RoomsNamed(n) \/ \E x : NamedIn(r, n) = {x}

Keeps(op, r) ==
  /\ op \in {"room_edit", "move", "move_in", "room_create", "create_user", "create_unmailed"} => FollowsIn(r)
  /\ op \in {"room_create", "room_edit"} => NamesKept(r)

(* Neither rooms nor users are written yet. *)
Blank(r) ==
  /\ r \in RequestType
  /\ \A t \in {"room", "user"} : DOMAIN r.new[t] = {} /\ DOMAIN r.set[t] = {}

LEMMA NothingIsBlank ==
  ASSUME Types
  PROVE  Blank(Nothing)
<1>1. \A t \in Table : DOMAIN Nothing.new[t] = {} /\ DOMAIN Nothing.set[t] = {}
  BY RowsOfEmpty DEF Nothing, Types
<1> QED
  BY <1>1, DraftNothing DEF Blank, Draft, Table

LEMMA AddressIsBlank ==
  ASSUME Types, NEW v \in Value, CanHave(v)
  PROVE  Blank(WithAddress(Nothing, v))
<1>1. WithAddress(Nothing, v) \in RequestType
  BY AddressTaken DEF Draft
<1>2. WithAddress(Nothing, v).set = Nothing.set
  <2>1. Nothing \in RequestType
    BY DraftNothing DEF Draft
  <2> QED
    BY <2>1 DEF WithAddress, Insert, InsertAll, RequestType
<1>3. \A t \in {"room", "user"} : DOMAIN Nothing.set[t] = {}
  BY NothingIsBlank DEF Blank
<1> QED
  BY <1>1, <1>2, <1>3, AddressIsInserted DEF Blank

(* An UPDATE writes what differs. *)
LEMMA UpdateIs ==
  ASSUME Types, NEW w, Blank(w), NEW t \in {"room", "user"}, NEW id \in DOMAIN db[t],
         NEW fields, DOMAIN fields \subseteq DOMAIN db[t][id],
         NEW r, r = Update(w, t, id, fields)
  PROVE  /\ r.new = w.new
         /\ \A o \in Table \ {t} : r.set[o] = w.set[o]
         /\ DOMAIN r.set[t] \subseteq {id}
         /\ \A x \in DOMAIN r.set[t] : DOMAIN r.set[t][x] \subseteq DOMAIN fields
         /\ \A x \in DOMAIN r.set[t] : \A f \in DOMAIN r.set[t][x] : r.set[t][x][f] = fields[f]
         /\ \A f \in DOMAIN db[t][id] :
              RowIn(r, t, id)[f] = IF f \in DOMAIN fields THEN fields[f] ELSE db[t][id][f]
<1> DEFINE differs == {f \in DOMAIN fields : fields[f] # db[t][id][f]}
           part    == [f \in differs |-> fields[f]]
           row     == Over(part, << >>)
           all     == Put(w.set[t], id, row)
<1>1. /\ w \in RequestType /\ id \notin DOMAIN w.set[t] /\ DOMAIN w.set[t] = {} /\ id \notin DOMAIN w.new[t]
  BY DEF Blank
<1>2. r = IF differs = {} THEN w ELSE [w EXCEPT !.set = Put(w.set, t, all)]
  BY <1>1 DEF Update
<1>3. DOMAIN row = differs /\ \A f \in differs : row[f] = fields[f]
  BY RowsOfEmpty DEF Over
<1> HIDE DEF row
<1>4. DOMAIN all = {id} /\ all[id] = row
  BY <1>1 DEF Put
<1> HIDE DEF all
<1>5. CASE differs = {}
  <2>1. r = w
    BY <1>2, <1>5
  <2>2. RowIn(r, t, id) = db[t][id]
    BY <1>1, <2>1 DEF RowIn
  <2>3. \A f \in DOMAIN fields : fields[f] = db[t][id][f]
    BY <1>5
  <2> QED
    BY <1>1, <2>1, <2>2, <2>3
<1>6. CASE differs # {}
  <2>1. r = [w EXCEPT !.set = Put(w.set, t, all)]
    BY <1>2, <1>6
  <2>2. r.new = w.new /\ r.set[t] = all /\ \A o \in Table \ {t} : r.set[o] = w.set[o]
    BY <1>1, <2>1, PutIsTyped DEF RequestType, Requests, Table
  <2>3. RowIn(r, t, id) = Over(row, db[t][id])
    BY <1>1, <1>4, <2>2 DEF RowIn
  <2>4. ASSUME NEW f \in DOMAIN db[t][id]
        PROVE  Over(row, db[t][id])[f] = IF f \in DOMAIN fields THEN fields[f] ELSE db[t][id][f]
    <3>1. Over(row, db[t][id])[f] = IF f \in differs THEN fields[f] ELSE db[t][id][f]
      BY <1>3 DEF Over
    <3> QED
      BY <3>1
  <2>5. differs \subseteq DOMAIN fields
    OBVIOUS
  <2> HIDE DEF differs
  <2> QED
    BY <1>3, <1>4, <2>2, <2>3, <2>4, <2>5
<1> QED
  BY <1>5, <1>6

(* Rows of which a request writes nothing *)
LEMMA UnwrittenRow ==
  ASSUME NEW r, NEW t, NEW x, x \notin DOMAIN r.new[t], x \notin DOMAIN r.set[t]
  PROVE  RowIn(r, t, x) = db[t][x]
BY DEF RowIn

LEMMA InsertKeeps ==
  ASSUME Types, RowsWhole, NEW w, Blank(w), NEW t \in {"room", "user"}, NEW id \in Ids[t] \ given[t],
         NEW row, Columns(t) \subseteq DOMAIN row,
         t = "user" => row["room"] \in DOMAIN db["room"] \cup {None},
         NEW r, r = Insert(w, t, id, row)
  PROVE  /\ WholeIn(r) /\ FollowsIn(r)
         /\ t = "room" /\ RoomsNamed(row["number"]) = {} => NamesKept(r)
<1> DEFINE one == [x \in {id} |-> row]
           all == Over(one, w.new[t])
<1>1. w \in RequestType /\ DOMAIN w.new["room"] = {} /\ DOMAIN w.new["user"] = {} /\ DOMAIN w.new[t] = {}
  BY DEF Blank
<1>2. r = [w EXCEPT !.new = Put(w.new, t, all)]
  BY DEF Insert, InsertAll
<1>3. DOMAIN all = {id} /\ all[id] = row
  BY <1>1 DEF Over
<1> HIDE DEF all
<1>4. r.set = w.set /\ r.new[t] = all /\ \A o \in Table \ {t} : r.new[o] = w.new[o]
  BY <1>1, <1>2, PutIsTyped DEF RequestType, Requests, Table
<1>5. \A o \in {"room", "user"} :
        /\ DOMAIN r.set[o] = {}
        /\ DOMAIN r.new[o] = IF o = t THEN {id} ELSE {}
  BY <1>1, <1>3, <1>4 DEF Blank, Table
<1>6. id \notin DOMAIN db[t]
  BY DEF Types, Table
<1>7. \A o \in {"room", "user"} : \A x \in DOMAIN db[o] : RowIn(r, o, x) = db[o][x]
  BY <1>5, <1>6, UnwrittenRow
<1>8. RowIn(r, t, id) = row
  BY <1>3, <1>4 DEF RowIn
<1>9. WholeIn(r)
  <2>1. IsFiniteSet(DOMAIN r.new["room"])
    <3>1. DOMAIN r.new["room"] = {} \/ DOMAIN r.new["room"] = {id}
      BY <1>5
    <3> DEFINE D == DOMAIN r.new["room"]
    <3>2. D = {} => IsFiniteSet(D)
      BY FS_EmptySet
    <3>5. IsFiniteSet({id})
      BY FS_Singleton
    <3> HIDE DEF D
    <3>3. D = {id} => IsFiniteSet(D)
      BY <3>5
    <3>4. IsFiniteSet(D)
      BY <3>1, <3>2, <3>3 DEF D
    <3> QED
      BY <3>4 DEF D
  <2>2. \A o \in {"room", "user"} : \A x \in DOMAIN r.new[o] : o = t /\ r.new[o][x] = row
    BY <1>3, <1>4, <1>5
  <2> QED
    BY <1>5, <2>1, <2>2 DEF WholeIn
<1>10. FollowsIn(r)
  BY <1>7 DEF FollowsIn, HasCustomAddress, RowsWhole
<1>11. ASSUME t = "room", RoomsNamed(row["number"]) = {}
       PROVE  NamesKept(r)
  <2>1. DOMAIN r.new["room"] = {id} /\ RowIn(r, "room", id) = row
    BY <1>5, <1>8, <1>11
  <2>2. ASSUME NEW n \in Number, n # row["number"]
        PROVE  NamedIn(r, n) \subseteq RoomsNamed(n)
    BY <1>7, <2>1, <2>2 DEF NamedIn, RoomsNamed
  <2>3. NamedIn(r, row["number"]) = {id}
    BY <1>7, <1>11, <2>1 DEF NamedIn, RoomsNamed
  <2> QED
    BY <2>2, <2>3 DEF NamesKept
<1> QED
  BY <1>9, <1>10, <1>11

LEMMA UpdateUserIsWhole ==
  ASSUME Types, RowsWhole, NEW w, Blank(w), NEW u \in DOMAIN db["user"],
         NEW fields, DOMAIN fields \subseteq Columns("user"),
         "room" \in DOMAIN fields => fields["room"] \in DOMAIN db["room"] \cup {None},
         NEW r, r = Update(w, "user", u, fields)
  PROVE  /\ WholeIn(r)
         /\ \A x \in DOMAIN db["room"] : RowIn(r, "room", x) = db["room"][x]
         /\ \A x \in DOMAIN db["user"] \ {u} : RowIn(r, "user", x) = db["user"][x]
         /\ \A f \in Columns("user") :
              RowIn(r, "user", u)[f] = IF f \in DOMAIN fields THEN fields[f] ELSE db["user"][u][f]
<1>1. DOMAIN fields \subseteq DOMAIN db["user"][u] /\ Columns("user") \subseteq DOMAIN db["user"][u]
  BY DEF RowsWhole
<1>2. /\ r.new = w.new /\ \A o \in Table \ {"user"} : r.set[o] = w.set[o]
      /\ DOMAIN r.set["user"] \subseteq {u}
      /\ \A x \in DOMAIN r.set["user"] : DOMAIN r.set["user"][x] \subseteq DOMAIN fields
      /\ \A x \in DOMAIN r.set["user"] : \A f \in DOMAIN r.set["user"][x] : r.set["user"][x][f] = fields[f]
      /\ \A f \in DOMAIN db["user"][u] :
           RowIn(r, "user", u)[f] = IF f \in DOMAIN fields THEN fields[f] ELSE db["user"][u][f]
  BY <1>1, UpdateIs
<1>3. DOMAIN r.new["room"] = {} /\ DOMAIN r.new["user"] = {} /\ DOMAIN r.set["room"] = {}
  BY <1>2 DEF Blank, Table
<1>4. WholeIn(r)
  <2>1. IsFiniteSet(DOMAIN r.new["room"])
    BY <1>3, FS_EmptySet
  <2>2. ASSUME NEW x \in DOMAIN r.set["user"], "room" \in DOMAIN r.set["user"][x]
        PROVE  r.set["user"][x]["room"] \in DOMAIN db["room"] \cup {None}
    <3>1. "room" \in DOMAIN fields /\ r.set["user"][x]["room"] = fields["room"]
      BY <1>2, <2>2
    <3> QED
      BY <3>1
  <2> QED
    BY <1>3, <2>1, <2>2 DEF WholeIn
<1> QED
  BY <1>1, <1>2, <1>3, <1>4, UnwrittenRow

(* edit_room: the sharers of the old address are those of the new one. *)
LEMMA RoomEditKeeps ==
  ASSUME Types, RowsWhole, NEW w, Blank(w), NEW x \in DOMAIN db["room"],
         NEW n, NEW vo, NEW a,
         n # db["room"][x]["number"] => ~ RoomAlreadyExists(n, DOMAIN db["room"] \ {x}),
         NEW q, q = Update(w, "room", x, [number |-> n, vo |-> vo, address |-> a]), q \in RequestType,
         NEW r, r = IF a = db["room"][x]["address"] THEN q
                    ELSE [q EXCEPT !.set = [@ EXCEPT !["user"] = AddressFields(Sharers(x), a)]]
  PROVE  WholeIn(r) /\ FollowsIn(r) /\ NamesKept(r)
<1> DEFINE row == [number |-> n, vo |-> vo, address |-> a]
<1>1. DOMAIN row \subseteq DOMAIN db["room"][x] /\ DOMAIN row = Columns("room")
  BY DEF RowsWhole, Columns
<1>2. /\ q.new = w.new /\ q.set["user"] = w.set["user"]
      /\ DOMAIN q.set["room"] \subseteq {x}
      /\ \A f \in DOMAIN db["room"][x] :
           RowIn(q, "room", x)[f] = IF f \in DOMAIN row THEN row[f] ELSE db["room"][x][f]
  <2> HIDE DEF row
  <2> QED
    BY <1>1, UpdateIs DEF row, Table
<1>3. /\ DOMAIN q.new["room"] = {} /\ DOMAIN q.new["user"] = {} /\ DOMAIN q.set["user"] = {}
      /\ RowIn(q, "room", x)["number"] = n /\ RowIn(q, "room", x)["address"] = a
  BY <1>1, <1>2 DEF Blank
<1>4. /\ r.new = q.new /\ r.set["room"] = q.set["room"]
      /\ r.set["user"] = IF a = db["room"][x]["address"] THEN q.set["user"] ELSE AddressFields(Sharers(x), a)
  BY DEF RequestType, Requests, Table
<1>5. /\ RowIn(r, "room", x) = RowIn(q, "room", x)
      /\ \A o \in DOMAIN db["room"] \ {x} : RowIn(r, "room", o) = db["room"][o]
  BY <1>2, <1>3, <1>4 DEF RowIn
<1>6. ASSUME NEW u \in DOMAIN db["user"]
      PROVE  /\ RowIn(r, "user", u)["room"] = db["user"][u]["room"]
             /\ RowIn(r, "user", u)["address"] =
                  IF a # db["room"][x]["address"] /\ u \in Sharers(x) THEN a ELSE db["user"][u]["address"]
  <2>1. CASE a # db["room"][x]["address"] /\ u \in Sharers(x)
    <3>1. u \in DOMAIN r.set["user"] /\ r.set["user"][u] = [address |-> a]
      BY <1>4, <2>1 DEF AddressFields
    <3>2. RowIn(r, "user", u) = Over([address |-> a], db["user"][u])
      BY <1>3, <1>4, <3>1 DEF RowIn
    <3>3. {"room", "address"} \subseteq DOMAIN db["user"][u]
      BY DEF RowsWhole, Columns
    <3> QED
      BY <2>1, <3>2, <3>3 DEF Over
  <2>2. CASE ~ (a # db["room"][x]["address"] /\ u \in Sharers(x))
    <3>1. u \notin DOMAIN r.set["user"]
      BY <1>3, <1>4, <2>2 DEF AddressFields
    <3>2. u \notin DOMAIN r.new["user"]
      BY <1>3, <1>4
    <3>3. RowIn(r, "user", u) = db["user"][u]
      BY <3>1, <3>2 DEF RowIn
    <3> QED
      BY <2>2, <3>3
  <2> QED
    BY <2>1, <2>2
<1>7. WholeIn(r)
  <2>1. IsFiniteSet(DOMAIN r.new["room"])
    BY <1>3, <1>4, FS_EmptySet
  <2>2. \A u \in DOMAIN r.set["user"] : "room" \notin DOMAIN r.set["user"][u]
    BY <1>3, <1>4 DEF AddressFields
  <2> QED
    BY <1>3, <1>4, <2>1, <2>2 DEF WholeIn
<1>8. FollowsIn(r)
  <2> SUFFICES ASSUME NEW u \in DOMAIN db["user"]
               PROVE  IF HasCustomAddress(db, u)
                      THEN RowIn(r, "user", u)["address"] = db["user"][u]["address"]
                      ELSE db["user"][u]["room"] # None /\ RowIn(r, "user", u)["room"] # None =>
                             RowIn(r, "user", u)["address"] = RowIn(r, "room", RowIn(r, "user", u)["room"])["address"]
    BY DEF FollowsIn
  <2>1. CASE HasCustomAddress(db, u)
    <3>1. u \notin Sharers(x)
      BY <2>1 DEF HasCustomAddress, Sharers
    <3> QED
      BY <1>6, <2>1, <3>1
  <2>2. CASE ~ HasCustomAddress(db, u) /\ db["user"][u]["room"] # None
    <3>1. db["user"][u]["room"] \in DOMAIN db["room"]
      BY <2>2 DEF RowsWhole
    <3>2. db["user"][u]["address"] = db["room"][db["user"][u]["room"]]["address"]
      BY <2>2 DEF HasCustomAddress
    <3>3. CASE db["user"][u]["room"] = x
      <4>1. u \in Sharers(x)
        BY <3>2, <3>3 DEF Sharers
      <4> QED
        BY <1>3, <1>5, <1>6, <2>2, <3>2, <3>3, <4>1
    <3>4. CASE db["user"][u]["room"] # x
      <4>1. u \notin Sharers(x)
        BY <3>4 DEF Sharers
      <4> QED
        BY <1>5, <1>6, <2>2, <3>1, <3>2, <3>4, <4>1
    <3> QED
      BY <3>3, <3>4
  <2> QED
    BY <2>1, <2>2
<1>9. NamesKept(r)
  <2>1. \A m : NamedIn(r, m) = {o \in DOMAIN db["room"] : RowIn(r, "room", o)["number"] = m}
    BY <1>3, <1>4 DEF NamedIn
  <2>2. ASSUME NEW m \in Number, m # n
        PROVE  NamedIn(r, m) \subseteq RoomsNamed(m)
    BY <1>3, <1>5, <2>1, <2>2 DEF RoomsNamed
  <2>3. CASE n = db["room"][x]["number"]
    <3>1. NamedIn(r, n) \subseteq RoomsNamed(n)
      BY <1>3, <1>5, <2>1, <2>3, SMTT(30) DEF RoomsNamed
    <3> QED
      BY <2>2, <3>1 DEF NamesKept
  <2>4. CASE n # db["room"][x]["number"]
    <3>1. NamedIn(r, n) = {x}
      BY <1>3, <1>5, <2>1, <2>4 DEF RoomsNamed, RoomAlreadyExists
    <3> QED
      BY <2>2, <3>1 DEF NamesKept
  <2> QED
    BY <2>3, <2>4
<1> QED
  BY <1>7, <1>8, <1>9

(* move_in and move: a custom address stays, any other is the new room's.  *)
LEMMA MoveKeeps ==
  ASSUME Types, RowsWhole, NEW u \in DOMAIN db["user"], NEW x \in DOMAIN db["room"], NEW a,
         a = MovedAddress(u, x) \/ (a = db["room"][x]["address"] /\ db["user"][u]["room"] = None),
         NEW r, r = Update(Nothing, "user", u, [room |-> x, address |-> a])
  PROVE  WholeIn(r) /\ FollowsIn(r)
<1> DEFINE fields == [room |-> x, address |-> a]
<1>1. DOMAIN fields \subseteq Columns("user") /\ fields["room"] \in DOMAIN db["room"] \cup {None}
  BY DEF Columns
<1>2. Blank(Nothing) /\ r = Update(Nothing, "user", u, fields)
  BY NothingIsBlank
<1>3. /\ WholeIn(r)
      /\ \A y \in DOMAIN db["room"] : RowIn(r, "room", y) = db["room"][y]
      /\ \A y \in DOMAIN db["user"] \ {u} : RowIn(r, "user", y) = db["user"][y]
      /\ \A f \in Columns("user") :
           RowIn(r, "user", u)[f] = IF f \in DOMAIN fields THEN fields[f] ELSE db["user"][u][f]
  <2> HIDE DEF fields
  <2> QED
    BY <1>1, <1>2, UpdateUserIsWhole
<1>4. RowIn(r, "user", u)["room"] = x /\ RowIn(r, "user", u)["address"] = a
  BY <1>3 DEF Columns
<1>5. FollowsIn(r)
  <2> SUFFICES ASSUME NEW y \in DOMAIN db["user"]
               PROVE  IF HasCustomAddress(db, y)
                      THEN RowIn(r, "user", y)["address"] = db["user"][y]["address"]
                      ELSE db["user"][y]["room"] # None /\ RowIn(r, "user", y)["room"] # None =>
                             RowIn(r, "user", y)["address"] = RowIn(r, "room", RowIn(r, "user", y)["room"])["address"]
    BY DEF FollowsIn
  <2>1. CASE y = u
    <3>1. RowIn(r, "room", x) = db["room"][x]
      BY <1>3
    <3> QED
      BY <1>4, <2>1, <3>1 DEF MovedAddress, HasCustomAddress
  <2>2. CASE y # u
    <3>1. RowIn(r, "user", y) = db["user"][y]
      BY <1>3, <2>2
    <3> QED
      BY <1>3, <3>1 DEF HasCustomAddress, RowsWhole
  <2> QED
    BY <2>1, <2>2
<1> QED
  BY <1>3, <1>5

Starts(s, op, r) ==
  /\ Draft(r) /\ Begin(s, op, r)
  /\ op \in Sweeper => SweepsAs(op, r)
  /\ RowsWhole => WholeIn(r) /\ Keeps(op, r)

(* What updates a room or a user to an address that it creates refers to it. *)
LEMMA UpdateSweeps ==
  ASSUME Types, TableInv, NEW v \in Value, CanHave(v),
         NEW t \in {"room", "user"}, NEW id \in DOMAIN db[t],
         NEW fields \in Row, "address" \in DOMAIN fields, fields.address = AddressOf(v)
  PROVE  LET u == Update(WithAddress(Nothing, v), t, id, fields)
         IN  /\ u \in RequestType /\ u.new = WithAddress(Nothing, v).new
             /\ ~ WritesNothing(u) => id \in DOMAIN u.set[t] /\ RowIn(u, t, id).address = AddressOf(v)
<1> DEFINE w == WithAddress(Nothing, v)
           u == Update(w, t, id, fields)
<1>1. Draft(w) /\ Draft(u)
  BY AddressTaken, DraftUpdate
<1>2. u \in RequestType /\ w \in RequestType /\ id \notin DOMAIN w.new[t]
  BY <1>1, AddressIsInserted DEF Draft
<1>3. u.new = w.new
  BY <1>2, UpdateWrites
<1>4. ASSUME ~ WritesNothing(u)
      PROVE  id \in DOMAIN u.set[t] /\ RowIn(u, t, id).address = AddressOf(v)
  <2>1. AddressOf(v) # db[t][id].address
    <3> HIDE DEF u, w
    <3>1. ~ WritesNothing(w)
      BY <1>3, <1>4 DEF WritesNothing
    <3> QED
      BY <3>1, AddressIsNew DEF w
  <2> QED
    BY <1>2, <2>1, UpdateWrites
<1> HIDE DEF u, w
<1> QED
  BY <1>2, <1>3, <1>4 DEF u, w

(* Whoever is created refers to the address that is created with them. *)
LEMMA NewUserSweeps ==
  ASSUME NEW w \in RequestType, NEW id, NEW row, DOMAIN w.new["address"] \subseteq {row.address}
  PROVE  SweepsAs("create_user", Insert(w, "user", id, row))
<1> DEFINE one == [x \in {id} |-> row]
           all == Over(one, w.new["user"])
<1>1. PICK r : r = Insert(w, "user", id, row)
  OBVIOUS
<1>2. r = [w EXCEPT !.new = Put(w.new, "user", all)]
  BY <1>1 DEF Insert, InsertAll
<1>3. id \in DOMAIN all /\ all[id] = row
  BY DEF Over
<1> HIDE DEF all
<1>4. DOMAIN w.new = Table
  BY DEF RequestType, Requests
<1>5. r.new = Put(w.new, "user", all)
  BY <1>2 DEF RequestType, Requests
<1>6. r.new["user"] = all /\ r.new["address"] = w.new["address"]
  BY <1>4, <1>5 DEF Put, Table
<1>7. id \in Written(r, "user") /\ RowIn(r, "user", id) = row
  BY <1>3, <1>6 DEF Written, RowIn
<1>8. row.address \in Chosen(r)
  BY <1>7 DEF Chosen
<1> QED
  BY <1>1, <1>6, <1>8 DEF SweepsAs

LEMMA StartDrafts ==
  ASSUME IInv, NEW s \in Session, Start(s)
  PROVE  request[s] = None /\ \E op \in Op : \E r : Starts(s, op, r)
<1> SUFFICES \E op \in Op : \E r : Starts(s, op, r)
  BY DEF Start
<1>1. request[s] = None /\ Types /\ TableInv
  BY DEF Start, IInv
<1>2. None \in Entry
  BY DEF Entry
<1>3. CASE \E n \in Number, v \in Value : RoomCreate(s, n, v)
  <2>1. PICK n \in Number, v \in Value : RoomCreate(s, n, v)
    BY <1>3
  <2> DEFINE r   == WithAddress(Nothing, v)
             row == [number |-> n, vo |-> None, address |-> AddressOf(v)]
  <2>2. Draft(r) /\ AddressOf(v) \in Entry /\ n \in Entry /\ NewId("room") \in Ids["room"]
    BY <1>1, <2>1, AddressTaken DEF RoomCreate, NewId, NewIds, Entry
  <2>3. row \in Row
    BY <1>2, <2>2, EntryRows
  <2>4. Begin(s, "room_create", Insert(r, "room", NewId("room"), row))
    BY <2>1 DEF RoomCreate
  <2>5. Draft(Insert(r, "room", NewId("room"), row))
    <3> HIDE DEF r, row
    <3> QED
      BY <2>2, <2>3, DraftInsert DEF Table
  <2>6. ASSUME RowsWhole PROVE WholeIn(Insert(r, "room", NewId("room"), row))
                             /\ Keeps("room_create", Insert(r, "room", NewId("room"), row))
    <3>1. Blank(r) /\ NewId("room") \in Ids["room"] \ given["room"]
      BY <1>1, <2>1, AddressIsBlank DEF RoomCreate, NewId, NewIds
    <3>2. Columns("room") \subseteq DOMAIN row /\ RoomsNamed(row["number"]) = {}
      BY <2>1 DEF Columns, RoomCreate, RoomAlreadyExists, RoomsNamed
    <3> HIDE DEF r, row
    <3> QED
      BY <1>1, <2>6, <3>1, <3>2, InsertKeeps DEF Keeps
  <2> QED
    BY <2>4, <2>5, <2>6 DEF Starts, Op, Sweeper
<1>4. CASE \E x \in DOMAIN db.room, n \in Number, vo \in Vo \cup {None}, v \in Value : RoomEdit(s, x, n, vo, v)
  <2>1. PICK x \in DOMAIN db.room, n \in Number, vo \in Vo \cup {None}, v \in Value : RoomEdit(s, x, n, vo, v)
    BY <1>4
  <2> DEFINE a   == AddressOf(v)
             row == [number |-> n, vo |-> vo, address |-> a]
             r   == Update(WithAddress(Nothing, v), "room", x, row)
             all == [r EXCEPT !.set["user"] = AddressFields(Sharers(x), a)]
  <2>2. Draft(WithAddress(Nothing, v)) /\ a \in Entry /\ n \in Entry /\ vo \in Entry /\ x \in DOMAIN db["room"]
    BY <1>1, <2>1, AddressTaken DEF RoomEdit, Entry
  <2>3. row \in Row
    <3> HIDE DEF a
    <3> QED
      BY <1>2, <2>2, EntryRows
  <2>4. Draft(r)
    <3> HIDE DEF row
    <3> QED
      BY <1>1, <2>2, <2>3, DraftUpdate
  <2>5. Draft(all)
    <3> HIDE DEF r, a
    <3> QED
      BY <1>1, <2>2, <2>4, DraftSharers
  <2>7. /\ r \in RequestType /\ r.new = WithAddress(Nothing, v).new
        /\ ~ WritesNothing(r) => x \in DOMAIN r.set["room"] /\ RowIn(r, "room", x).address = a
    BY <1>1, <2>1, <2>2, <2>3, UpdateSweeps DEF RoomEdit
  <2>8. all.new = r.new /\ all.set["room"] = r.set["room"]
    <3>1. all = [r EXCEPT !.set = [@ EXCEPT !["user"] = AddressFields(Sharers(x), a)]]
      OBVIOUS
    <3> HIDE DEF r, a
    <3> QED
      BY <2>7, <3>1 DEF RequestType, Requests, Table
  <2>9. /\ DOMAIN r.new["address"] \subseteq {a}
        /\ \A t \in {"room", "user"} : DOMAIN r.new[t] = {}
    <3> HIDE DEF r
    <3> QED
      BY <1>1, <2>1, <2>7, AddressIsInserted
  <2>12. ASSUME RowsWhole
         PROVE  IF a = db["room"][x]["address"] THEN WholeIn(r) /\ Keeps("room_edit", r)
                ELSE WholeIn(all) /\ Keeps("room_edit", all)
    <3>1. Blank(WithAddress(Nothing, v)) /\ (n # db["room"][x]["number"] => ~ RoomAlreadyExists(n, DOMAIN db["room"] \ {x}))
      BY <1>1, <2>1, AddressIsBlank DEF RoomEdit
    <3>2. all = [r EXCEPT !.set = [@ EXCEPT !["user"] = AddressFields(Sharers(x), a)]]
      OBVIOUS
    <3>3. r = Update(WithAddress(Nothing, v), "room", x, [number |-> n, vo |-> vo, address |-> a])
      OBVIOUS
    <3> HIDE DEF r, all, a
    <3>4. LET q == IF a = db["room"][x]["address"] THEN r ELSE all
          IN  WholeIn(q) /\ FollowsIn(q) /\ NamesKept(q)
      BY <1>1, <2>7, <2>12, <3>1, <3>2, <3>3, RoomEditKeeps, ZenonT(30)
    <3> QED
      BY <3>4 DEF Keeps
  <2>13. IF a = db["room"][x]["address"] THEN Begin(s, "room_edit", r) ELSE Begin(s, "room_edit", all)
    BY <2>1 DEF RoomEdit
  <2> HIDE DEF r, all, a
  <2>10. SweepsAs("room_edit", r)
    BY <2>7, <2>9 DEF SweepsAs, WritesNothing, Chosen, Written, Table
  <2>11. SweepsAs("room_edit", all)
    <3>1. RowIn(all, "room", x) = RowIn(r, "room", x)
      BY <2>8 DEF RowIn
    <3> QED
      BY <2>7, <2>8, <2>9, <3>1 DEF SweepsAs, WritesNothing, Chosen, Written, Table
  <2> QED
    BY <2>4, <2>5, <2>10, <2>11, <2>12, <2>13 DEF Starts, Op
<1>5. CASE \E u \in DOMAIN db.user, v \in Value : EditAddress(s, u, v)
  <2>1. PICK u \in DOMAIN db.user, v \in Value : EditAddress(s, u, v)
    BY <1>5
  <2> DEFINE r == Update(WithAddress(Nothing, v), "user", u, [address |-> AddressOf(v)])
  <2>2. Draft(WithAddress(Nothing, v)) /\ AddressOf(v) \in Entry
    BY <1>1, <2>1, AddressTaken DEF EditAddress
  <2>3. Draft(r)
    BY <1>1, <2>1, <2>2, EntryRows, DraftUpdate
  <2>4. Begin(s, "edit_address", r)
    BY <2>1 DEF EditAddress
  <2> QED
    <3>1. /\ r \in RequestType /\ r.new = WithAddress(Nothing, v).new
          /\ ~ WritesNothing(r) => u \in DOMAIN r.set["user"] /\ RowIn(r, "user", u).address = AddressOf(v)
      BY <1>1, <2>1, <2>2, EntryRows, UpdateSweeps DEF EditAddress
    <3> HIDE DEF r
    <3>2. /\ DOMAIN r.new["address"] \subseteq {AddressOf(v)}
          /\ \A t \in {"room", "user"} : DOMAIN r.new[t] = {}
      BY <1>1, <2>1, <3>1, AddressIsInserted
    <3>3. SweepsAs("edit_address", r)
      BY <3>1, <3>2 DEF SweepsAs, WritesNothing, Chosen, Written, Table
    <3>4. RowsWhole => WholeIn(r)
      <4>1. Blank(WithAddress(Nothing, v))
        BY <1>1, <2>1, AddressIsBlank DEF EditAddress
      <4> QED
        BY <1>1, <4>1, UpdateUserIsWhole DEF Columns, r
    <3> QED
      BY <2>3, <2>4, <3>3, <3>4 DEF Starts, Keeps, Op
<1>6. CASE \E n \in Number : \E x \in TheRooms(n) : CreateUser(s, x)
  <2>1. PICK n \in Number : \E x \in TheRooms(n) : CreateUser(s, x)
    BY <1>6
  <2>2. PICK x \in DOMAIN db["room"] : CreateUser(s, x)
    BY <2>1 DEF TheRooms, RoomsNamed
  <2> DEFINE row == [room |-> x, address |-> db.room[x].address]
             r   == Insert(Nothing, "user", NewId("user"), row)
  <2>3. x \in Entry /\ db.room[x].address \in Entry
    BY <1>1, AddressIds DEF Entry
  <2>4. row \in Row /\ NewId("user") \in Ids["user"]
    BY <2>2, <2>3, EntryRows DEF CreateUser, NewId, NewIds
  <2>5. Draft(r)
    <3> HIDE DEF row
    <3> QED
      BY <1>1, <2>4, DraftInsert, DraftNothing DEF Table
  <2>6. Begin(s, "create_user", r)
    BY <2>2 DEF CreateUser
  <2>7. RowsWhole => WholeIn(r) /\ FollowsIn(r)
    <3>1. Blank(Nothing) /\ NewId("user") \in Ids["user"] \ given["user"]
      BY <1>1, <2>2, NothingIsBlank DEF CreateUser, NewId, NewIds
    <3>2. Columns("user") \subseteq DOMAIN row /\ row["room"] \in DOMAIN db["room"] \cup {None}
      BY DEF Columns
    <3> HIDE DEF row
    <3> QED
      BY <1>1, <3>1, <3>2, InsertKeeps
  <2>8. SweepsAs("create_user", r)
    <3>1. Nothing \in RequestType /\ DOMAIN Nothing.new["address"] = {}
      BY <1>1, DraftNothing, NothingIsWritten DEF Draft, WritesNothing, Table
    <3> HIDE DEF row
    <3> QED
      BY <3>1, NewUserSweeps
  <2> HIDE DEF r
  <2> QED
    BY <2>5, <2>6, <2>7, <2>8 DEF Starts, Keeps, Op, Sweeper
<1>7. CASE \E v \in Value : CreateNonResident(s, v)
  <2>1. PICK v \in Value : CreateNonResident(s, v)
    BY <1>7
  <2> DEFINE row == [room |-> None, address |-> AddressOf(v)]
             r   == Insert(WithAddress(Nothing, v), "user", NewId("user"), row)
  <2>2. Draft(WithAddress(Nothing, v)) /\ AddressOf(v) \in Entry /\ NewId("user") \in Ids["user"]
    BY <1>1, <2>1, AddressTaken DEF CreateNonResident, NewId, NewIds
  <2>3. row \in Row
    BY <1>2, <2>2, EntryRows
  <2>4. Draft(r)
    <3> HIDE DEF row
    <3> QED
      BY <2>2, <2>3, DraftInsert DEF Table
  <2>5. PICK op \in {"create_user", "create_unmailed"} : Begin(s, op, r)
    BY <2>1 DEF CreateNonResident
  <2>6. RowsWhole => WholeIn(r) /\ FollowsIn(r)
    <3>1. Blank(WithAddress(Nothing, v)) /\ NewId("user") \in Ids["user"] \ given["user"]
      BY <1>1, <2>1, AddressIsBlank DEF CreateNonResident, NewId, NewIds
    <3>2. Columns("user") \subseteq DOMAIN row /\ row["room"] \in DOMAIN db["room"] \cup {None}
      BY DEF Columns
    <3> HIDE DEF row
    <3> QED
      BY <1>1, <3>1, <3>2, InsertKeeps
  <2>7. SweepsAs("create_user", r)
    <3>1. row.address = AddressOf(v)
      OBVIOUS
    <3> HIDE DEF row
    <3> QED
      BY <1>1, <2>2, <3>1, AddressIsInserted, NewUserSweeps DEF Draft
  <2> HIDE DEF r
  <2> QED
    BY <2>4, <2>5, <2>6, <2>7 DEF Starts, Keeps, Op, Sweeper
<1>8. CASE \E u \in DOMAIN db.user, n \in Number : \E x \in TheRooms(n) : MoveIn(s, u, x) \/ Move(s, u, x)
  <2>1. PICK u \in DOMAIN db["user"], n \in Number : \E x \in TheRooms(n) : MoveIn(s, u, x) \/ Move(s, u, x)
    BY <1>8
  <2>2. PICK x \in DOMAIN db["room"] : MoveIn(s, u, x) \/ Move(s, u, x)
    BY <2>1 DEF TheRooms, RoomsNamed
  <2>3. x \in Entry /\ db["room"][x].address \in Entry /\ db["user"][u].address \in Entry
    BY <1>1, AddressIds DEF Entry
  <2>4. \A a \in Entry : Draft(Update(Nothing, "user", u, [room |-> x, address |-> a]))
    BY <1>1, <2>3, EntryRows, DraftNothing, DraftUpdate
  <2>5. \A op, fields : SweepsAs(op, Update(Nothing, "user", u, fields))
    BY <1>1, DraftNothing, NothingIsWritten, UpdateWrites DEF Draft, WritesNothing, SweepsAs, Table
  <2>6. CASE MoveIn(s, u, x)
    <3> DEFINE r == Update(Nothing, "user", u, [room |-> x, address |-> db["room"][x].address])
    <3>1. RowsWhole => WholeIn(r) /\ FollowsIn(r)
      BY <1>1, <2>6, MoveKeeps DEF MoveIn
    <3>2. Draft(r) /\ SweepsAs("move_in", r) /\ Begin(s, "move_in", r)
      BY <2>3, <2>4, <2>5, <2>6 DEF MoveIn
    <3> HIDE DEF r
    <3> QED
      BY <3>1, <3>2 DEF Starts, Keeps, Op
  <2>7. CASE Move(s, u, x)
    <3>1. MovedAddress(u, x) \in Entry
      BY <2>3 DEF MovedAddress
    <3> DEFINE r == Update(Nothing, "user", u, [room |-> x, address |-> MovedAddress(u, x)])
    <3>2. RowsWhole => WholeIn(r) /\ FollowsIn(r)
      BY <1>1, MoveKeeps
    <3>3. Draft(r) /\ SweepsAs("move", r) /\ Begin(s, "move", r)
      BY <2>4, <2>5, <2>7, <3>1 DEF Move
    <3> HIDE DEF r
    <3> QED
      BY <3>2, <3>3 DEF Starts, Keeps, Op
  <2> QED
    BY <2>2, <2>6, <2>7
<1>9. CASE \E u \in DOMAIN db.user : MoveOut(s, u)
  <2>1. PICK u \in DOMAIN db["user"] : MoveOut(s, u)
    BY <1>9
  <2>2. Draft(Update(Nothing, "user", u, [room |-> None]))
    BY <1>1, <1>2, EntryRows, DraftNothing, DraftUpdate
  <2>3. SweepsAs("move_out", Update(Nothing, "user", u, [room |-> None]))
    BY <1>1, DraftNothing, NothingIsWritten, UpdateWrites DEF Draft, WritesNothing, SweepsAs, Table
  <2> DEFINE r == Update(Nothing, "user", u, [room |-> None])
  <2>4. RowsWhole => WholeIn(r)
    BY <1>1, NothingIsBlank, UpdateUserIsWhole DEF Columns
  <2>5. Begin(s, "move_out", r)
    BY <2>1 DEF MoveOut
  <2> HIDE DEF r
  <2>6. Draft(r) /\ SweepsAs("move_out", r)
    BY <2>2, <2>3 DEF r
  <2> QED
    BY <2>4, <2>5, <2>6 DEF Starts, Keeps, Op
<1> QED
  BY <1>1, <1>3, <1>4, <1>5, <1>6, <1>7, <1>8, <1>9 DEF Start

LEMMA StartKeepsIInv ==
  ASSUME IInv, NEW s \in Session, Start(s)
  PROVE  IInv'
BY StartDrafts, BeginKeepsIInv DEF Starts


----------------------------------------------------------------------------
(* The statements of a request *)

LEMMA AfterIs ==
  ASSUME Types, NEW p \in RequestType, NEW t \in Table
  PROVE  /\ DOMAIN After(p)[t] = (DOMAIN db[t] \ p.drop[t]) \cup DOMAIN p.new[t]
         /\ \A x \in DOMAIN After(p)[t] : After(p)[t][x] = RowIn(p, t, x)
BY DEF After, WrittenRows

LEMMA AcceptedFits ==
  ASSUME Types, NEW p \in RequestType, Sound(p), p.drop["address"] = {}, Accepted(p),
         NEW r, r.new = p.new, r.set = p.set, r.drop["address"] = Orphans(p)
  PROVE  Fitting(r)
<1>1. /\ \A t \in Table : DOMAIN After(p)[t] = DOMAIN db[t] \cup DOMAIN p.new[t]
      /\ \A t \in Table : \A x \in DOMAIN After(p)[t] : After(p)[t][x] = RowIn(p, t, x)
  BY AfterIs DEF Sound, Table
<1>2. \A t \in {"room", "user"} : Written(p, t) \subseteq DOMAIN After(p)[t]
  BY <1>1 DEF Written, Sound, Table
<1>3. /\ \A t : Written(r, t) = Written(p, t)
      /\ \A t \in Table : \A x : RowIn(r, t, x) = RowIn(p, t, x)
  BY DEF Written, RowIn
<1>4. Chosen(r) = Chosen(p)
  BY <1>3 DEF Chosen, Table
<1>5. ASSUME NEW c \in Chosen(p)
      PROVE  c \in DOMAIN After(p)["address"] /\ Referenced(After(p), c)
  <2>1. PICK t \in {"room", "user"} : \E x \in Written(p, t) : c = RowIn(p, t, x).address
    BY <1>5 DEF Chosen
  <2>2. PICK x \in Written(p, t) : c = RowIn(p, t, x).address
    BY <2>1
  <2>3. x \in DOMAIN After(p)[t] /\ c = After(p)[t][x].address
    BY <1>1, <1>2, <2>2 DEF Table
  <2> QED
    BY <2>3 DEF Accepted, AddressesExist, Referenced
<1>6. \A a : a \in r.drop["address"] => ~ Referenced(After(p), a)
  BY DEF Orphans
<1>7. ASSUME NEW a \in DOMAIN r.new["address"], NEW b \in DOMAIN r.new["address"], a # b,
             r.new["address"][a]["value"] = r.new["address"][b]["value"]
      PROVE  r.new["address"][a]["value"] = None
  <2>1. After(p)["address"][a] = r.new["address"][a] /\ After(p)["address"][b] = r.new["address"][b]
    BY <1>1 DEF RowIn, Table
  <2> QED
    BY <1>1, <1>7, <2>1 DEF Accepted, UniqueIn, Table
<1>8. ASSUME NEW a \in DOMAIN r.new["address"], NEW b \in DOMAIN db["address"] \ DOMAIN r.new["address"],
             r.new["address"][a]["value"] = db["address"][b]["value"]
      PROVE  r.new["address"][a]["value"] = None
  <2>1. After(p)["address"][a] = r.new["address"][a] /\ After(p)["address"][b] = db["address"][b] /\ a # b
    BY <1>1 DEF RowIn, Table, Sound
  <2> QED
    BY <1>1, <1>8, <2>1 DEF Accepted, UniqueIn, Table
<1>9. Chosen(r) \subseteq DOMAIN db["address"] \cup DOMAIN r.new["address"]
  BY <1>1, <1>4, <1>5 DEF Table
<1>10. Chosen(r) \cap r.drop["address"] = {}
  BY <1>4, <1>5, <1>6
<1>11. ASSUME NEW t \in {"room", "user"}, NEW x \in DOMAIN db[t] \ Written(r, t)
       PROVE  db[t][x].address \notin r.drop["address"]
  <2>1. x \in DOMAIN After(p)[t] /\ After(p)[t][x] = db[t][x]
    BY <1>1 DEF Written, RowIn, Table
  <2>2. Referenced(After(p), db[t][x].address)
    BY <2>1 DEF Referenced
  <2> QED
    BY <1>6, <2>2
<1> QED
  BY <1>7, <1>8, <1>9, <1>10, <1>11 DEF Fitting

LEMMA FlushKeepsIInv ==
  ASSUME IInv, NEW s \in Session, Flush(s)
  PROVE  IInv'
<1> DEFINE p == request[s]
<1>0. PICK r : r = [p EXCEPT !.drop["address"] = Orphans(p)]
  OBVIOUS
<1>1. /\ p # None /\ s \notin flushed /\ Accepted(p)
      /\ \A o \in flushed : ~ Exclude(r, request[o])
      /\ request' = [request EXCEPT ![s] = r]
      /\ flushed' = flushed \cup {s}
      /\ UNCHANGED <<db, given, requests>>
  BY <1>0 DEF Flush
<1>2. p \in RequestType /\ Sound(p) /\ p.drop["address"] = {}
  BY <1>1 DEF IInv, Types, PendingSound
<1>3. Orphans(p) \in SUBSET AllIds
  <2>1. \A t \in Table : DOMAIN db[t] \subseteq Ids[t] /\ DOMAIN p.new[t] \subseteq Ids[t]
    BY <1>2 DEF IInv, Types, Sound
  <2>2. DOMAIN After(p)["address"] \subseteq Ids["address"]
    BY <1>2, <2>1, AfterIs DEF IInv, Table
  <2> QED
    BY <2>2 DEF Orphans, AllIds, Table
<1>4. r = [p EXCEPT !.drop = [@ EXCEPT !["address"] = Orphans(p)]]
  BY <1>0
<1>5. /\ r \in RequestType /\ r.new = p.new /\ r.set = p.set
      /\ r.drop = [p.drop EXCEPT !["address"] = Orphans(p)]
  BY <1>2, <1>3, <1>4 DEF RequestType, Requests
<1>6. r.drop["address"] = Orphans(p) /\ \A t \in {"room", "user"} : r.drop[t] = p.drop[t]
  BY <1>2, <1>5 DEF RequestType, Requests, Table
<1>7. Fitting(r)
  BY <1>1, <1>2, <1>5, <1>6, AcceptedFits DEF IInv
<1> HIDE DEF p
<1>8. request'[s] = r /\ r # None /\ \A o \in Session \ {s} : request'[o] = request[o]
  BY <1>1, <1>5 DEF IInv, Types
<1>9. Types'
  BY <1>1, <1>5, <1>8 DEF IInv, Types
<1>10. TableInv'
  BY <1>1 DEF IInv, TableInv, Refers, UniqueIn
<1>11. PendingSound'
  <2>1. Sound(r)'
    BY <1>1, <1>2, <1>5, <1>6 DEF Sound
  <2>2. ASSUME NEW o \in Session \ {s}, request[o] # None
        PROVE  Sound(request[o])'
    <3>1. Sound(request[o])
      BY <2>2 DEF IInv, PendingSound
    <3> QED
      BY <1>1, <1>8, <3>1, <2>2 DEF Sound
  <2> QED
    BY <1>1, <1>8, <2>1, <2>2 DEF IInv, PendingSound
<1>12. FlushedFit'
  <2>1. Fitting(r)'
    BY <1>1, <1>7 DEF Fitting, Chosen, Written, RowIn
  <2>2. ASSUME NEW o \in flushed PROVE Fitting(request[o])'
    <3>1. o \in Session /\ Fitting(request[o]) /\ request'[o] = request[o]
      BY <1>1, <1>8 DEF IInv, FlushedFit, Types
    <3> QED
      BY <1>1, <3>1, StillFitting
  <2> QED
    BY <1>1, <1>8, <2>1, <2>2 DEF FlushedFit
<1>13. Locks'
  <2>1. \A q, t, x : RowIn(q, t, x)' = RowIn(q, t, x)
    BY <1>1 DEF RowIn
  <2>2. /\ \A t : Written(request[s], t)' = Written(r, t)
        /\ Values(request[s])' = Values(r) /\ Vos(request[s])' = Vos(r)
        /\ Chosen(request[s])' = Chosen(r)
    <3>1. \A t \in {"room", "user"} : \A x \in Written(r, t) : RowIn(request[s], t, x)' = RowIn(r, t, x)
      BY <1>1, <1>8 DEF RowIn
    <3> QED
      BY <1>8, <3>1, SameWrites
  <2>3. ASSUME NEW o \in flushed
        PROVE  /\ request'[o] = request[o] /\ o \in Session
               /\ \A t : Written(request[o], t)' = Written(request[o], t)
               /\ Values(request[o])' = Values(request[o]) /\ Vos(request[o])' = Vos(request[o])
               /\ Chosen(request[o])' = Chosen(request[o])
    <3>1. request'[o] = request[o] /\ o \in Session
      BY <1>1, <1>8 DEF IInv, Types
    <3>2. \A t \in {"room", "user"} : \A x \in Written(request[o], t) :
            RowIn(request[o], t, x)' = RowIn(request[o], t, x)
      BY <1>1, <3>1 DEF RowIn
    <3> QED
      BY <3>1, <3>2, SameWrites
  <2>4. ASSUME NEW o \in flushed, NEW q \in flushed, o # q
        PROVE  ~ Exclude(request[o], request[q])'
    <3>1. ~ Exclude(request[o], request[q])
      BY <2>4 DEF IInv, Locks
    <3> QED
      BY <2>3, <3>1 DEF Exclude
  <2>5. ASSUME NEW o \in flushed
        PROVE  ~ Exclude(request[s], request[o])' /\ ~ Exclude(request[o], request[s])'
    <3>1. ~ Exclude(r, request[o])
      BY <1>1
    <3> QED
      BY <1>8, <2>2, <2>3, <3>1 DEF Exclude
  <2> QED
    BY <1>1, <2>4, <2>5 DEF Locks
<1> QED
  BY <1>9, <1>10, <1>11, <1>12, <1>13 DEF IInv

----------------------------------------------------------------------------
(* The end of a request *)

LEMMA CommitKeepsIInv ==
  ASSUME IInv, NEW s \in Session, Commit(s)
  PROVE  IInv'
<1> DEFINE p == request[s]
<1>1. /\ s \in flushed /\ flushed' = flushed \ {s}
      /\ db' = After(p) /\ UNCHANGED <<given, requests>>
  BY DEF Commit
<1>2. p \in RequestType /\ Sound(p) /\ Fitting(p)
  BY <1>1 DEF IInv, Types, PendingSound, FlushedFit
<1>3. /\ DOMAIN db' = Table
      /\ \A t \in Table : DOMAIN db'[t] = (DOMAIN db[t] \ p.drop[t]) \cup DOMAIN p.new[t]
      /\ \A t \in Table : \A x \in DOMAIN db'[t] : db'[t][x] = RowIn(p, t, x)
  BY <1>1, <1>2, AfterIs DEF IInv, After
<1>4. \A t \in Table : \A x \in DOMAIN db'[t] \ Written(p, t) : x \in DOMAIN db[t] /\ db'[t][x] = db[t][x]
  BY <1>3 DEF Written, RowIn
<1>5. \A t \in {"room", "user"} :
        /\ DOMAIN db[t] \subseteq DOMAIN db'[t]
        /\ Written(p, t) \subseteq DOMAIN db'[t]
        /\ \A x \in Written(p, t) : db'[t][x].address \in Chosen(p)
  <2>1. ASSUME NEW t \in {"room", "user"}
        PROVE  DOMAIN db[t] \subseteq DOMAIN db'[t] /\ Written(p, t) \subseteq DOMAIN db'[t]
    BY <1>2, <1>3 DEF Sound, Written, Table
  <2>2. ASSUME NEW t \in {"room", "user"}, NEW x \in Written(p, t)
        PROVE  db'[t][x].address \in Chosen(p)
    BY <1>3, <2>1 DEF Chosen, Table
  <2> QED
    BY <2>1, <2>2
<1>6. request'[s] = None
  BY DEF Commit, Overtaken
<1>7. ASSUME NEW o \in Session
      PROVE  \/ (o = s \/ request[o] = None) /\ request'[o] = None
             \/ /\ o # s /\ request[o] # None /\ request'[o] # None /\ request'[o] \in RequestType
                /\ request'[o].new = request[o].new /\ request'[o].set = request[o].set
                /\ request'[o].drop = request[o].drop
  <2>1. CASE o = s \/ request[o] = None
    BY <2>1 DEF Commit, Overtaken
  <2>2. CASE o # s /\ request[o] # None
    <3>1. request[o] \in RequestType
      BY <2>2 DEF IInv, Types
    <3>2. PICK k : request'[o] = [request[o] EXCEPT !.fresh = @ /\ request[o].seen \cap k = {}]
      BY <2>2 DEF Commit, Overtaken
    <3>3. (request[o].fresh /\ request[o].seen \cap k = {}) \in BOOLEAN
      OBVIOUS
    <3>4. PICK b \in BOOLEAN : request'[o] = [request[o] EXCEPT !.fresh = b]
      BY <3>2, <3>3
    <3>5. request'[o] \in RequestType
      BY <3>1, <3>4 DEF RequestType, Requests
    <3> QED
      BY <2>2, <3>1, <3>4, <3>5 DEF RequestType, Requests
  <2> QED
    BY <2>1, <2>2
<1>8. \A o \in flushed' : /\ o \in flushed /\ o # s /\ o \in Session
                          /\ request'[o] # None /\ request'[o].new = request[o].new
                          /\ request'[o].set = request[o].set /\ request'[o].drop = request[o].drop
  BY <1>1, <1>7 DEF IInv, Types
<1> HIDE DEF p
<1>9. Types'
  <2>1. request' \in [Session -> RequestType \cup {None}]
    <3>1. DOMAIN request' = Session /\ request' = [o \in Session |-> request'[o]]
      BY DEF Commit, Overtaken
    <3> QED
      BY <1>7, <3>1
  <2>2. \A t \in Table : DOMAIN db'[t] \subseteq given[t]
    BY <1>2, <1>3 DEF IInv, Types, Sound
  <2> QED
    BY <1>1, <1>3, <1>8, <2>1, <2>2 DEF IInv, Types
<1>10. TableInv'
  <2>1. \A x \in DOMAIN db'["address"] :
          db'["address"][x] = IF x \in DOMAIN p.new["address"] THEN p.new["address"][x] ELSE db["address"][x]
    BY <1>2, <1>3 DEF RowIn, Sound, Table
  <2>2. UniqueIn(db'["address"], "value")
    BY <1>2, <1>3, <2>1 DEF UniqueIn, Fitting, IInv, TableInv, Table
  <2>3. ASSUME NEW t \in {"room", "user"}, NEW x \in DOMAIN db'[t]
        PROVE  db'[t][x].address \in DOMAIN db'["address"]
    <3>1. CASE x \in Written(p, t)
      BY <1>2, <1>3, <1>5, <3>1 DEF Fitting, Table
    <3>2. CASE x \notin Written(p, t)
      <4>1. x \in DOMAIN db[t] /\ db'[t][x] = db[t][x]
        BY <1>4, <3>2 DEF Table
      <4>2. db[t][x].address \in DOMAIN db["address"] /\ db[t][x].address \notin p.drop["address"]
        BY <1>2, <3>2, <4>1 DEF Fitting, IInv, TableInv, Refers
      <4> QED
        BY <1>3, <4>1, <4>2 DEF Table
    <3> QED
      BY <3>1, <3>2
  <2> QED
    BY <2>2, <2>3 DEF TableInv, Refers
<1>11. PendingSound'
  <2>1. ASSUME NEW o \in Session, request'[o] # None
        PROVE  Sound(request[o])' /\ (o \notin flushed' => request'[o].drop["address"] = {})
    <3>1. o # s /\ request[o] # None /\ request'[o].new = request[o].new /\ request'[o].set = request[o].set
          /\ request'[o].drop = request[o].drop
      BY <1>7, <2>1
    <3>2. Sound(request[o]) /\ (o \notin flushed => request[o].drop["address"] = {})
      BY <3>1 DEF IInv, PendingSound
    <3> QED
      BY <1>1, <1>5, <3>1, <3>2 DEF Sound
  <2> QED
    BY <2>1 DEF PendingSound
<1>12. ASSUME NEW o \in flushed'
       PROVE  /\ Sound(request[o]) /\ Fitting(request[o]) /\ ~ Exclude(p, request[o])
              /\ \A t : Written(request[o], t)' = Written(request[o], t)
              /\ Values(request[o])' = Values(request[o]) /\ Vos(request[o])' = Vos(request[o])
              /\ Chosen(request[o])' = Chosen(request[o])
  <2>1. Sound(request[o]) /\ Fitting(request[o]) /\ ~ Exclude(p, request[o])
    BY <1>1, <1>8 DEF IInv, Types, PendingSound, FlushedFit, Locks, p
  <2>2. ASSUME NEW t \in {"room", "user"}, NEW x \in Written(request[o], t)
        PROVE  RowIn(request[o], t, x)' = RowIn(request[o], t, x)
    <3>1. CASE x \in DOMAIN request[o].new[t]
      BY <1>8, <3>1 DEF RowIn
    <3>2. CASE x \notin DOMAIN request[o].new[t]
      <4>1. x \in DOMAIN request[o].set[t] /\ x \in DOMAIN db[t]
        BY <2>1, <2>2, <3>2 DEF Written, Sound
      <4>2. x \notin Written(p, t)
        BY <2>1, <2>2 DEF Exclude, Table
      <4>3. db'[t][x] = db[t][x]
        BY <1>4, <1>5, <4>1, <4>2 DEF Table
      <4> QED
        BY <1>8, <3>2, <4>1, <4>3 DEF RowIn
    <3> QED
      BY <3>1, <3>2
  <2>3. o \in Session /\ request'[o].new = request[o].new /\ request'[o].set = request[o].set
    BY <1>8
  <2> QED
    BY <2>1, <2>2, <2>3, SameWrites
<1>13. FlushedFit'
  <2>1. ASSUME NEW o \in flushed'
        PROVE  Fitting(request[o])'
    <3> DEFINE q == request[o]
    <3>1. /\ Fitting(q) /\ ~ Exclude(p, q)
          /\ request'[o].new = q.new /\ request'[o].drop = q.drop
          /\ Chosen(request[o])' = Chosen(q) /\ \A t : Written(request[o], t)' = Written(q, t)
      BY <1>8, <1>12
    <3>2. \A a \in DOMAIN q.new["address"] : \A b \in DOMAIN q.new["address"] :
            a # b /\ q.new["address"][a]["value"] = q.new["address"][b]["value"] =>
              q.new["address"][a]["value"] = None
      BY <3>1 DEF Fitting
    <3>3. ASSUME NEW a \in DOMAIN q.new["address"], NEW b \in DOMAIN db'["address"] \ DOMAIN q.new["address"],
                 q.new["address"][a]["value"] = db'["address"][b]["value"]
          PROVE  q.new["address"][a]["value"] = None
      <4>1. CASE b \in DOMAIN p.new["address"]
        <5>1. db'["address"][b] = p.new["address"][b]
          BY <1>3, <4>1 DEF RowIn, Table
        <5>2. p.new["address"][b]["value"] \in Values(p) /\ q.new["address"][a]["value"] \in Values(q)
          BY <4>1 DEF Values
        <5> QED
          BY <3>1, <3>3, <5>1, <5>2 DEF Exclude
      <4>2. CASE b \notin DOMAIN p.new["address"]
        <5>1. b \notin Written(p, "address")
          BY <1>2, <4>2 DEF Written, Sound
        <5>2. b \in DOMAIN db["address"] /\ db'["address"][b] = db["address"][b]
          BY <1>4, <5>1 DEF Table
        <5> QED
          BY <3>1, <3>3, <5>2 DEF Fitting
      <4> QED
        BY <4>1, <4>2
    <3>4. Chosen(q) \subseteq DOMAIN db'["address"] \cup DOMAIN q.new["address"]
      BY <1>3, <3>1 DEF Fitting, Exclude, Table
    <3>5. Chosen(q) \cap q.drop["address"] = {}
      BY <3>1 DEF Fitting
    <3>6. ASSUME NEW t \in {"room", "user"}, NEW x \in DOMAIN db'[t] \ Written(q, t)
          PROVE  db'[t][x].address \notin q.drop["address"]
      <4>1. CASE x \in Written(p, t)
        BY <1>5, <3>1, <4>1 DEF Exclude
      <4>2. CASE x \notin Written(p, t)
        BY <1>4, <3>1, <4>2 DEF Fitting, Table
      <4> QED
        BY <4>1, <4>2
    <3> HIDE DEF q
    <3> QED
      BY <3>1, <3>2, <3>3, <3>4, <3>5, <3>6 DEF Fitting
  <2> QED
    BY <2>1 DEF FlushedFit
<1>14. Locks'
  <2>1. ASSUME NEW o \in flushed', NEW q \in flushed', o # q
        PROVE  ~ Exclude(request[o], request[q])'
    <3>1. ~ Exclude(request[o], request[q])
      BY <1>8, <2>1 DEF IInv, Locks
    <3> QED
      BY <1>8, <1>12, <3>1 DEF Exclude
  <2> QED
    BY <2>1 DEF Locks
<1> QED
  BY <1>9, <1>10, <1>11, <1>13, <1>14 DEF IInv

LEMMA LoseKeepsIInv ==
  ASSUME IInv, NEW s \in Session, Lose(s)
  PROVE  IInv'
<1>1. /\ request' = [request EXCEPT ![s] = None] /\ flushed' = flushed \ {s}
      /\ UNCHANGED <<db, given, requests>>
  BY DEF Lose, Abandon
<1>2. request'[s] = None /\ \A o \in Session \ {s} : request'[o] = request[o]
  BY <1>1 DEF IInv, Types
<1>3. Types'
  BY <1>1, <1>2 DEF IInv, Types
<1>4. TableInv'
  BY <1>1 DEF IInv, TableInv, Refers, UniqueIn
<1>5. PendingSound'
  <2>1. ASSUME NEW o \in Session \ {s}, request[o] # None
        PROVE  Sound(request[o])'
    <3>1. Sound(request[o])
      BY <2>1 DEF IInv, PendingSound
    <3> QED
      BY <1>1, <1>2, <3>1, <2>1 DEF Sound
  <2> QED
    BY <1>1, <1>2, <2>1 DEF IInv, PendingSound
<1>6. FlushedFit'
  <2>1. ASSUME NEW o \in flushed \ {s} PROVE Fitting(request[o])'
    <3>1. o \in Session /\ Fitting(request[o]) /\ request'[o] = request[o]
      BY <1>2 DEF IInv, FlushedFit, Types
    <3> QED
      BY <1>1, <3>1, StillFitting
  <2> QED
    BY <1>1, <2>1 DEF FlushedFit
<1>7. Locks'
  <2>1. ASSUME NEW o \in flushed'
        PROVE  /\ o \in flushed \ {s} /\ request'[o] = request[o]
               /\ \A t : Written(request[o], t)' = Written(request[o], t)
               /\ Values(request[o])' = Values(request[o]) /\ Vos(request[o])' = Vos(request[o])
               /\ Chosen(request[o])' = Chosen(request[o])
    <3>1. o \in Session /\ o \in flushed \ {s} /\ request'[o] = request[o]
      BY <1>1, <1>2 DEF IInv, Types
    <3>2. \A t \in {"room", "user"} : \A x \in Written(request[o], t) :
            RowIn(request[o], t, x)' = RowIn(request[o], t, x)
      BY <1>1, <3>1 DEF RowIn
    <3> QED
      BY <3>1, <3>2, SameWrites
  <2>2. ASSUME NEW o \in flushed', NEW q \in flushed', o # q
        PROVE  ~ Exclude(request[o], request[q])'
    <3>1. ~ Exclude(request[o], request[q])
      BY <2>1, <2>2 DEF IInv, Locks
    <3> QED
      BY <2>1, <3>1 DEF Exclude
  <2> QED
    BY <2>2 DEF Locks
<1> QED
  BY <1>3, <1>4, <1>5, <1>6, <1>7 DEF IInv

LEMMA StutterKeepsIInv ==
  ASSUME IInv, UNCHANGED vars
  PROVE  IInv'
<1>1. UNCHANGED <<db, given, request, requests, flushed>>
  BY DEF vars, rows
<1>3. \A q, t, x : RowIn(q, t, x)' = RowIn(q, t, x)
  BY <1>1 DEF RowIn
<1>4. Types' /\ TableInv' /\ PendingSound'
  BY <1>1 DEF IInv, Types, TableInv, Refers, UniqueIn, PendingSound, Sound
<1>5. FlushedFit'
  <2>1. ASSUME NEW o \in flushed PROVE Fitting(request[o])'
    <3>1. o \in Session /\ Fitting(request[o]) /\ request'[o] = request[o]
      BY <1>1 DEF IInv, FlushedFit, Types
    <3> QED
      BY <1>1, <3>1, StillFitting
  <2> QED
    BY <1>1, <2>1 DEF FlushedFit
<1>6. Locks'
  <2>1. ASSUME NEW o \in flushed
        PROVE  /\ request'[o] = request[o]
               /\ \A t : Written(request[o], t)' = Written(request[o], t)
               /\ Values(request[o])' = Values(request[o]) /\ Vos(request[o])' = Vos(request[o])
               /\ Chosen(request[o])' = Chosen(request[o])
    BY <1>1, <1>3, SameWrites DEF IInv, Types
  <2>2. ASSUME NEW o \in flushed, NEW q \in flushed, o # q
        PROVE  ~ Exclude(request[o], request[q])'
    <3>1. ~ Exclude(request[o], request[q])
      BY <2>2 DEF IInv, Locks
    <3> QED
      BY <2>1, <3>1 DEF Exclude
  <2> QED
    BY <1>1, <2>2 DEF Locks
<1> QED
  BY <1>4, <1>5, <1>6 DEF IInv

(* Two addresses never have the same value, and every room and every user  *)
(* refers to an address that there is: whatever requests overlap, look up  *)
(* or create addresses, move them or sweep them away (lib/address,         *)
(* model/address).                                                         *)
THEOREM AddressesStaySound == Spec => []AddressInv
<1>1. Init => IInv
  BY InitIInv
<1>2. IInv /\ [Next]_vars => IInv'
  BY StartKeepsIInv, FlushKeepsIInv, CommitKeepsIInv, LoseKeepsIInv, StutterKeepsIInv DEF Next
<1>3. IInv => AddressInv
  BY DEF IInv, Types, TableInv, Refers, AddressInv, Table
<1> QED
  BY <1>1, <1>2, <1>3, PTL DEF Spec

----------------------------------------------------------------------------
(* The trigger *)

WellSwept(r) == After(r) = db \/ \A a \in DOMAIN After(r)["address"] : Referenced(After(r), a)

(* What a request has decided, and what it is going to leave, as long as   *)
(* nobody overtakes it                                                     *)
SweepInv ==
  /\ db = [t \in Table |-> [x \in DOMAIN db[t] |-> db[t][x]]]
  /\ \A s \in Session : request[s] # None =>
       /\ request[s].seen = {"db"}
       /\ request[s].fresh /\ request[s].op \in Sweeper => Sweeps(request[s])
  /\ \A s \in flushed : request[s].fresh /\ request[s].op \in Sweeper => WellSwept(request[s])

LEMMA InitSweepInv == Init => SweepInv
BY DEF Init, SweepInv, Table

(* What the trigger leaves behind has references. *)
LEMMA FlushSweeps ==
  ASSUME IInv, SweepInv, NEW s \in Session, request[s] # None, s \notin flushed,
         Accepted(request[s]), Sweeps(request[s]),
         NEW r, r = [request[s] EXCEPT !.drop["address"] = Orphans(request[s])]
  PROVE  WellSwept(r)
<1> DEFINE p == request[s]
<1>1. p \in RequestType /\ Sound(p) /\ p.drop["address"] = {} /\ Types
  BY DEF IInv, Types, PendingSound
<1>2. r = [p EXCEPT !.drop = [@ EXCEPT !["address"] = Orphans(p)]]
  OBVIOUS
<1>3. /\ r.new = p.new /\ r.set = p.set
      /\ r.drop["address"] = Orphans(p) /\ \A t \in {"room", "user"} : r.drop[t] = p.drop[t]
  BY <1>1, <1>2 DEF RequestType, Requests, Table
<1>4. /\ \A t \in Table : DOMAIN After(r)[t] = (DOMAIN db[t] \ r.drop[t]) \cup DOMAIN p.new[t]
      /\ \A t \in Table : \A x \in DOMAIN After(r)[t] : After(r)[t][x] = RowIn(p, t, x)
  BY <1>1, <1>3 DEF After, WrittenRows, RowIn, Types
<1>5. /\ \A t \in Table : DOMAIN After(p)[t] = DOMAIN db[t] \cup DOMAIN p.new[t]
      /\ \A t \in Table : \A x \in DOMAIN After(p)[t] : After(p)[t][x] = RowIn(p, t, x)
  BY <1>1, AfterIs DEF Sound, Table
<1>6. Fitting(r) /\ Chosen(r) = Chosen(p)
  <2>1. Fitting(r)
    BY <1>1, <1>3, AcceptedFits
  <2> QED
    BY <1>3, <2>1 DEF Chosen, Written, RowIn
<1>7. CASE p.set["room"] = << >> /\ p.set["user"] = << >> /\ p.op # "create_user"
  <2>1. \A t \in Table : DOMAIN p.set[t] = {}
    BY <1>1, <1>7, RowsOfEmpty DEF Sound, Table
  <2>2. DOMAIN p.new["room"] = {} /\ DOMAIN p.new["user"] = {} /\ DOMAIN p.new["address"] \subseteq Chosen(p)
    BY <1>7 DEF Sweeps, SweepsAs
  <2>3. Chosen(p) = {}
    BY <2>1, <2>2 DEF Chosen, Written, Table
  <2>4. \A t \in Table : DOMAIN p.new[t] = {} /\ r.drop[t] = {}
    BY <1>1, <1>3, <1>7, <2>2, <2>3 DEF Orphans, Sound, Table
  <2>5. \A t \in Table : After(r)[t] = [x \in DOMAIN db[t] |-> db[t][x]]
    <3>1. ASSUME NEW t \in Table
          PROVE  /\ After(r)[t] = [x \in DOMAIN After(r)[t] |-> After(r)[t][x]]
                 /\ DOMAIN After(r)[t] = DOMAIN db[t]
                 /\ \A x \in DOMAIN db[t] : After(r)[t][x] = db[t][x]
      <4>1. After(r)[t] = [x \in DOMAIN After(r)[t] |-> After(r)[t][x]]
        BY DEF After, WrittenRows
      <4>2. DOMAIN After(r)[t] = DOMAIN db[t]
        BY <1>4, <2>4
      <4>3. \A x \in DOMAIN db[t] : RowIn(p, t, x) = db[t][x]
        BY <2>1, <2>4 DEF RowIn
      <4> QED
        BY <1>4, <4>1, <4>2, <4>3
    <3> QED
      BY <3>1
  <2>6. After(r) = [t \in Table |-> After(r)[t]]
    BY DEF After
  <2>7. After(r) = [t \in Table |-> [x \in DOMAIN db[t] |-> db[t][x]]]
    BY <2>5, <2>6
  <2> QED
    BY <2>7 DEF WellSwept, SweepInv
<1>8. CASE ~ (p.set["room"] = << >> /\ p.set["user"] = << >> /\ p.op # "create_user")
  <2>1. ASSUME NEW a \in DOMAIN After(r)["address"]
        PROVE  Referenced(After(r), a)
    <3>1. a \notin Orphans(p)
      BY <1>3, <1>4, <1>6, SMTT(30) DEF Sweeps, SweepsAs, Fitting, Table
    <3>2. a \in DOMAIN After(p)["address"]
      BY <1>4, <1>5 DEF Table
    <3>3. Referenced(After(p), a)
      BY <1>8, <3>1, <3>2 DEF Orphans
    <3>4. PICK t \in {"room", "user"} : \E x \in DOMAIN After(p)[t] : After(p)[t][x].address = a
      BY <3>3 DEF Referenced
    <3>5. PICK x \in DOMAIN After(p)[t] : After(p)[t][x].address = a
      BY <3>4
    <3>6. x \in DOMAIN After(r)[t] /\ After(r)[t][x] = After(p)[t][x]
      BY <1>1, <1>3, <1>4, <1>5 DEF Sound, Table
    <3> QED
      BY <3>5, <3>6 DEF Referenced
  <2> QED
    BY <2>1 DEF WellSwept
<1> QED
  BY <1>7, <1>8

(* As long as the table is the same *)
LEMMA SameSweeps ==
  ASSUME UNCHANGED db, NEW s \in Session, NEW q,
         request'[s].new = q.new, request'[s].set = q.set, request'[s].op = q.op
  PROVE  /\ Sweeps(request[s])' <=> Sweeps(q)
         /\ request'[s].drop = q.drop => (WellSwept(request[s])' <=> WellSwept(q))
<1>1. Chosen(request[s])' = Chosen(q)
  BY SameWrites DEF RowIn
<1>2. Sweeps(request[s])' <=> Sweeps(q)
  BY <1>1 DEF Sweeps, SweepsAs
<1>3. ASSUME request'[s].drop = q.drop
      PROVE  After(request[s])' = After(q)
  BY <1>3 DEF After, WrittenRows, RowIn
<1> QED
  BY <1>2, <1>3 DEF WellSwept, Referenced

LEMMA StartKeepsSweepInv ==
  ASSUME IInv, SweepInv, NEW s \in Session, Start(s)
  PROVE  SweepInv'
<1>0. PICK op \in Op : \E r : Starts(s, op, r)
  BY StartDrafts
<1>1. PICK r : Starts(s, op, r)
  BY <1>0
<1>2. request[s] = None
  BY StartDrafts
<1> DEFINE r1 == [r EXCEPT !.op = op, !.seen = {"db"}]
<1>3. /\ UNCHANGED <<db, flushed>> /\ request' = [request EXCEPT ![s] = r1]
      /\ op \in Sweeper => SweepsAs(op, r)
      /\ r \in RequestType
  BY <1>1 DEF Starts, Begin, Decide, Pending, Draft
<1>4. r1.op = op /\ r1.seen = {"db"} /\ r1.new = r.new /\ r1.set = r.set
  BY <1>3 DEF RequestType, Requests
<1> HIDE DEF r1
<1>5. request'[s] = r1 /\ s \notin flushed /\ \A o \in Session \ {s} : request'[o] = request[o]
  BY <1>2, <1>3 DEF IInv, Types
<1>6. op \in Sweeper => Sweeps(request[s])'
  <2>1. Chosen(r1) = Chosen(r)
    BY <1>4 DEF Chosen, Written, RowIn
  <2>2. SweepsAs(op, r) => Sweeps(r1)
    BY <1>4, <2>1 DEF Sweeps, SweepsAs
  <2> QED
    BY <1>3, <1>5, <2>2, SameSweeps
<1>7. ASSUME NEW o \in Session \ {s}
      PROVE  /\ Sweeps(request[o])' <=> Sweeps(request[o])
             /\ WellSwept(request[o])' <=> WellSwept(request[o])
  BY <1>3, <1>5, SameSweeps
<1>8. \A o \in flushed : o \in Session \ {s}
  BY <1>5 DEF IInv, Types
<1> QED
  BY <1>3, <1>4, <1>5, <1>6, <1>7, <1>8 DEF SweepInv

LEMMA FlushKeepsSweepInv ==
  ASSUME IInv, SweepInv, NEW s \in Session, Flush(s)
  PROVE  SweepInv'
<1>1. PICK r : r = [request[s] EXCEPT !.drop["address"] = Orphans(request[s])]
  OBVIOUS
<1>2. /\ request[s] # None /\ s \notin flushed /\ Accepted(request[s])
      /\ request' = [request EXCEPT ![s] = r]
      /\ flushed' = flushed \cup {s} /\ UNCHANGED db
  BY <1>1 DEF Flush
<1>3. r = [request[s] EXCEPT !.drop = [@ EXCEPT !["address"] = Orphans(request[s])]]
  BY <1>1
<1>4. r.new = request[s].new /\ r.set = request[s].set /\ r.fresh = request[s].fresh
      /\ r.op = request[s].op /\ r.seen = request[s].seen
  BY <1>2, <1>3 DEF IInv, Types, RequestType
<1>5. request'[s] = r /\ \A o \in Session \ {s} : request'[o] = request[o]
  BY <1>2 DEF IInv, Types
<1>6. ASSUME NEW o \in Session \ {s}
      PROVE  /\ Sweeps(request[o])' <=> Sweeps(request[o])
             /\ WellSwept(request[o])' <=> WellSwept(request[o])
  BY <1>2, <1>5, SameSweeps
<1>7. Sweeps(request[s])' <=> Sweeps(request[s])
  BY <1>2, <1>4, <1>5, SameSweeps
<1>8. WellSwept(request[s])' <=> WellSwept(r)
  BY <1>2, <1>5, SameSweeps
<1>9. Sweeps(request[s]) => WellSwept(r)
  BY <1>1, <1>2, FlushSweeps
<1>10. \A o \in Session : request'[o] # None =>
         /\ request'[o].seen = {"db"}
         /\ request'[o].fresh /\ request'[o].op \in Sweeper => Sweeps(request[o])'
  BY <1>2, <1>4, <1>5, <1>6, <1>7 DEF SweepInv
<1>11. \A o \in flushed' : request'[o].fresh /\ request'[o].op \in Sweeper => WellSwept(request[o])'
  <2>1. \A o \in flushed : o \in Session \ {s}
    BY <1>2 DEF IInv, Types
  <2>2. \A o \in flushed : request'[o].fresh /\ request'[o].op \in Sweeper => WellSwept(request[o])'
    BY <1>5, <1>6, <2>1 DEF SweepInv
  <2>3. request'[s].fresh /\ request'[s].op \in Sweeper => WellSwept(request[s])'
    BY <1>2, <1>4, <1>5, <1>8, <1>9 DEF SweepInv
  <2> QED
    BY <1>2, <2>2, <2>3
<1> QED
  BY <1>2, <1>10, <1>11 DEF SweepInv

(* The requests that others have begun, after a commit *)
LEMMA CommitLeaves ==
  ASSUME IInv, SweepInv, NEW s \in Session, Commit(s), NEW o \in Session, request'[o] # None
  PROVE  /\ o # s /\ request[o] # None
         /\ request'[o].new = request[o].new /\ request'[o].set = request[o].set
         /\ request'[o].drop = request[o].drop /\ request'[o].seen = request[o].seen
         /\ request'[o].op = request[o].op
         /\ request'[o].fresh => request[o].fresh /\ db' = db
<1>1. o # s /\ request[o] # None
  BY DEF Commit, Overtaken
<1> DEFINE keys == IF db' = db THEN {} ELSE {"db"}
<1>2. request'[o] = [request[o] EXCEPT !.fresh = @ /\ request[o].seen \cap keys = {}]
  BY <1>1 DEF Commit, Overtaken
<1>3. request[o] \in RequestType /\ request[o].seen = {"db"}
  BY <1>1 DEF IInv, Types, SweepInv
<1>4. request[o].seen \cap keys = {} => db' = db
  BY <1>3
<1> HIDE DEF keys
<1>5. /\ request'[o].new = request[o].new /\ request'[o].set = request[o].set
      /\ request'[o].drop = request[o].drop /\ request'[o].seen = request[o].seen
      /\ request'[o].op = request[o].op
  BY <1>2, <1>3 DEF RequestType, Requests
<1>6. request'[o].fresh = (request[o].fresh /\ request[o].seen \cap keys = {})
  BY <1>2, <1>3 DEF RequestType, Requests
<1> QED
  BY <1>1, <1>4, <1>5, <1>6

LEMMA CommitKeepsSweepInv ==
  ASSUME IInv, SweepInv, NEW s \in Session, Commit(s)
  PROVE  SweepInv'
<1>1. s \in flushed /\ flushed' = flushed \ {s} /\ db' = After(request[s])
  BY DEF Commit
<1>2. db' = [t \in Table |-> [x \in DOMAIN db'[t] |-> db'[t][x]]]
  BY <1>1 DEF After, WrittenRows
<1>3. ASSUME NEW o \in Session, request'[o] # None
      PROVE  /\ o # s /\ request[o] # None
             /\ request'[o].new = request[o].new /\ request'[o].set = request[o].set
             /\ request'[o].drop = request[o].drop /\ request'[o].seen = request[o].seen
             /\ request'[o].op = request[o].op
             /\ request'[o].fresh => request[o].fresh /\ db' = db
  BY <1>3, CommitLeaves
<1>4. ASSUME NEW o \in Session, request'[o] # None
      PROVE  /\ request'[o].seen = {"db"}
             /\ request'[o].fresh /\ request'[o].op \in Sweeper => Sweeps(request[o])'
  BY <1>3, <1>4, SameSweeps DEF SweepInv
<1>5. ASSUME NEW o \in flushed', request'[o].fresh, request'[o].op \in Sweeper
      PROVE  WellSwept(request[o])'
  <2>1. o \in Session /\ o \in flushed /\ request'[o] # None
    BY <1>1, CommitKeepsIInv DEF IInv, Types
  <2> QED
    BY <1>3, <1>5, <2>1, SameSweeps DEF SweepInv
<1> QED
  BY <1>2, <1>4, <1>5 DEF SweepInv

LEMMA OthersKeepSweepInv ==
  ASSUME IInv, SweepInv, (\E s \in Session : Lose(s)) \/ UNCHANGED vars
  PROVE  SweepInv'
<1>1. UNCHANGED db /\ flushed' \subseteq flushed
  BY DEF Lose, Abandon, vars, rows
<1>2. \A o \in Session : request'[o] = None \/ request'[o] = request[o]
  BY DEF Lose, Abandon, vars, rows, IInv, Types
<1>3. \A o \in flushed' : o \in Session /\ o \in flushed /\ request'[o] = request[o]
  BY <1>1 DEF Lose, Abandon, vars, rows, IInv, Types
<1>4. ASSUME NEW o \in Session, request'[o] = request[o]
      PROVE  /\ Sweeps(request[o])' <=> Sweeps(request[o])
             /\ WellSwept(request[o])' <=> WellSwept(request[o])
  BY <1>1, <1>4, SameSweeps
<1> QED
  BY <1>1, <1>2, <1>3, <1>4 DEF SweepInv

(* What others have not changed is written by the commit of a request. *)
LEMMA FreshCommits ==
  ASSUME IInv, [Next]_vars, NEW s \in Session, NEW ops, Fresh(ops, s)
  PROVE  Commit(s)
<1>1. db' # db /\ request[s] # None /\ request[s].fresh /\ request[s].op \in ops
  BY DEF Fresh
<1>2. PICK o \in Session : Commit(o)
  <2>1. ASSUME NEW q \in Session, Start(q) PROVE UNCHANGED db
    BY <2>1, StartDrafts DEF Starts, Begin, Decide
  <2>2. ASSUME NEW q \in Session, Flush(q) \/ Lose(q) PROVE UNCHANGED db
    BY <2>2 DEF Flush, Lose, Abandon
  <2>3. UNCHANGED vars => UNCHANGED db
    BY DEF vars, rows
  <2> QED
    BY <1>1, <2>1, <2>2, <2>3 DEF Next
<1>3. o = s
  <2> SUFFICES ASSUME o # s PROVE FALSE
    OBVIOUS
  <2>1. request[s] \in RequestType
    BY <1>1 DEF IInv, Types
  <2> DEFINE keys == IF db' = db THEN {} ELSE {"db"}
             r == request[s]
             b == r.seen \cap keys = {}
  <2>2. request'[s] = [r EXCEPT !.fresh = b]
    BY <1>1, <1>2 DEF Commit, Overtaken
  <2>3. r = [r EXCEPT !.fresh = TRUE]
    <3> HIDE DEF r
    <3> QED
      BY <1>1, <2>1 DEF RequestType, Requests, r
  <2>4. request'[s] \notin {r, [r EXCEPT !.fresh = FALSE]}
    BY DEF Fresh
  <2>5. CASE b
    BY <2>2, <2>3, <2>4, <2>5
  <2>6. CASE ~ b
    BY <2>2, <2>4, <2>6
  <2> QED
    BY <2>5, <2>6
<1> QED
  BY <1>2, <1>3

LEMMA NextSweeps ==
  ASSUME IInv, SweepInv, [Next]_vars, NEW s \in Session, Fresh(Sweeper, s)
  PROVE  \A a \in DOMAIN db'["address"] : Referenced(db', a)
<1>1. db' # db /\ request[s].fresh /\ request[s].op \in Sweeper
  BY DEF Fresh
<1>4. s \in flushed /\ db' = After(request[s])
  BY FreshCommits DEF Commit
<1>5. WellSwept(request[s])
  BY <1>1, <1>4 DEF SweepInv
<1> QED
  BY <1>1, <1>4, <1>5 DEF WellSwept

(* After a request that updates a room or a user no address is left that   *)
(* nobody refers to, unless the request was overtaken: what others left    *)
(* behind is swept with what it takes away itself                          *)
(* (address_remove_orphans).                                               *)
THEOREM OrphansAreAlwaysSwept == Spec => OrphansAreSwept
<1>1. Init => IInv /\ SweepInv
  BY InitIInv, InitSweepInv
<1>2. IInv /\ SweepInv /\ [Next]_vars => IInv' /\ SweepInv'
  <2>1. IInv /\ [Next]_vars => IInv'
    BY StartKeepsIInv, FlushKeepsIInv, CommitKeepsIInv, LoseKeepsIInv, StutterKeepsIInv DEF Next
  <2>2. IInv /\ SweepInv /\ [Next]_vars => SweepInv'
    BY StartKeepsSweepInv, FlushKeepsSweepInv, CommitKeepsSweepInv, OthersKeepSweepInv DEF Next
  <2> QED
    BY <2>1, <2>2
<1>3. IInv /\ SweepInv /\ [Next]_vars =>
        [\A s \in Session :
           Fresh({"room_edit", "edit_address", "create_user", "move_in", "move", "move_out"}, s) =>
             \A a \in DOMAIN db'.address : Referenced(db', a)]_vars
  BY NextSweeps DEF Sweeper
<1> QED
  BY <1>1, <1>2, <1>3, PTL DEF Spec, OrphansAreSwept

----------------------------------------------------------------------------
(* Rooms and their tenants *)

KeepInv ==
  /\ RowsWhole
  /\ \A s \in Session : request[s] # None =>
       /\ WholeIn(request[s])
       /\ request[s].fresh => Keeps(request[s].op, request[s])

LEMMA InitKeepInv == Init => KeepInv
BY FirstAssumption, ZenonT(30) DEF Init, KeepInv, RowsWhole, Columns

(* As long as the table is the same *)
LEMMA SameKeeps ==
  ASSUME UNCHANGED db, NEW s \in Session, NEW q,
         request'[s].new = q.new, request'[s].set = q.set
  PROVE  /\ WholeIn(request[s])' <=> WholeIn(q)
         /\ FollowsIn(request[s])' <=> FollowsIn(q)
         /\ NamesKept(request[s])' <=> NamesKept(q)
<1>1. \A t, x : RowIn(request[s], t, x)' = RowIn(q, t, x)
  BY DEF RowIn
<1>2. FollowsIn(request[s])' <=> FollowsIn(q)
  BY <1>1 DEF FollowsIn, HasCustomAddress
<1>3. \A n : NamedIn(request[s], n)' = NamedIn(q, n) /\ RoomsNamed(n)' = RoomsNamed(n)
  BY <1>1 DEF NamedIn, RoomsNamed
<1> QED
  BY <1>2, <1>3 DEF WholeIn, NamesKept

(* Steps after which the table is the same *)
LEMMA QuietKeepsKeepInv ==
  ASSUME KeepInv, UNCHANGED db,
         \A o \in Session : request'[o] # None =>
           \/ /\ request[o] # None
              /\ request'[o].new = request[o].new /\ request'[o].set = request[o].set
              /\ request'[o].op = request[o].op /\ (request'[o].fresh => request[o].fresh)
           \/ \E op, r : /\ request'[o].new = r.new /\ request'[o].set = r.set /\ request'[o].op = op
                          /\ WholeIn(r) /\ Keeps(op, r)
  PROVE  KeepInv'
<1>1. RowsWhole'
  BY DEF KeepInv, RowsWhole
<1>2. ASSUME NEW o \in Session, request'[o] # None
      PROVE  WholeIn(request[o])' /\ (request'[o].fresh => Keeps(request[o].op, request[o])')
  <2>1. CASE /\ request[o] # None
             /\ request'[o].new = request[o].new /\ request'[o].set = request[o].set
             /\ request'[o].op = request[o].op /\ (request'[o].fresh => request[o].fresh)
    BY <2>1, SameKeeps DEF KeepInv, Keeps
  <2>2. CASE \E op, r : /\ request'[o].new = r.new /\ request'[o].set = r.set /\ request'[o].op = op
                        /\ WholeIn(r) /\ Keeps(op, r)
    BY <2>2, SameKeeps DEF Keeps
  <2> QED
    BY <1>2, <2>1, <2>2
<1> QED
  BY <1>1, <1>2 DEF KeepInv

LEMMA StartKeepsKeepInv ==
  ASSUME IInv, KeepInv, NEW s \in Session, Start(s)
  PROVE  KeepInv'
<1>0. PICK op \in Op : \E r : Starts(s, op, r)
  BY StartDrafts
<1>1. PICK r : Starts(s, op, r)
  BY <1>0
<1> DEFINE r1 == [r EXCEPT !.op = op, !.seen = {"db"}]
<1>2. /\ UNCHANGED db /\ request' = [request EXCEPT ![s] = r1]
      /\ r \in RequestType /\ WholeIn(r) /\ Keeps(op, r)
  BY <1>1 DEF Starts, Begin, Decide, Pending, Draft, KeepInv
<1>3. r1.op = op /\ r1.new = r.new /\ r1.set = r.set
  BY <1>2 DEF RequestType, Requests
<1> HIDE DEF r1
<1>4. request'[s] = r1 /\ \A o \in Session \ {s} : request'[o] = request[o]
  BY <1>2 DEF IInv, Types
<1> QED
  BY <1>2, <1>3, <1>4, QuietKeepsKeepInv

LEMMA FlushKeepsKeepInv ==
  ASSUME IInv, KeepInv, NEW s \in Session, Flush(s)
  PROVE  KeepInv'
<1>1. PICK r : r = [request[s] EXCEPT !.drop["address"] = Orphans(request[s])]
  OBVIOUS
<1>2. request[s] # None /\ request' = [request EXCEPT ![s] = r] /\ UNCHANGED db
  BY <1>1 DEF Flush
<1>3. r = [request[s] EXCEPT !.drop = [@ EXCEPT !["address"] = Orphans(request[s])]]
  BY <1>1
<1>4. r.new = request[s].new /\ r.set = request[s].set /\ r.fresh = request[s].fresh /\ r.op = request[s].op
  BY <1>2, <1>3 DEF IInv, Types, RequestType
<1>5. request'[s] = r /\ \A o \in Session \ {s} : request'[o] = request[o]
  BY <1>2 DEF IInv, Types
<1> QED
  BY <1>2, <1>4, <1>5, QuietKeepsKeepInv

(* What a transaction leaves of rooms and users *)
LEMMA CommitWrites ==
  ASSUME IInv, NEW s \in Session, Commit(s), NEW t \in {"room", "user"}
  PROVE  /\ request[s] # None /\ request[s] \in RequestType
         /\ DOMAIN db'[t] = DOMAIN db[t] \cup DOMAIN request[s].new[t]
         /\ \A x \in DOMAIN db'[t] : db'[t][x] = RowIn(request[s], t, x)
<1>1. request[s] # None /\ request[s] \in RequestType /\ Sound(request[s]) /\ Types /\ db' = After(request[s])
  BY DEF Commit, IInv, Types, PendingSound
<1> QED
  BY <1>1, AfterIs DEF Sound, Table

LEMMA CommitKeepsKeepInv ==
  ASSUME IInv, SweepInv, KeepInv, NEW s \in Session, Commit(s)
  PROVE  KeepInv'
<1>1. PICK q : q = request[s]
  OBVIOUS
<1>2. /\ q \in RequestType /\ WholeIn(q) /\ RowsWhole
      /\ \A t \in {"room", "user"} : DOMAIN db'[t] = DOMAIN db[t] \cup DOMAIN q.new[t]
      /\ \A t \in {"room", "user"} : \A x \in DOMAIN db'[t] : db'[t][x] = RowIn(q, t, x)
  BY <1>1, CommitWrites DEF KeepInv
<1>3. RowsWhole'
  <2>1. ASSUME NEW t \in {"room", "user"}, NEW x \in DOMAIN db'[t]
        PROVE  Columns(t) \subseteq DOMAIN db'[t][x]
    <3>1. CASE x \in DOMAIN q.new[t]
      BY <1>2, <3>1 DEF RowIn, WholeIn
    <3>2. CASE x \notin DOMAIN q.new[t]
      <4>1. Columns(t) \subseteq DOMAIN db[t][x] /\ db'[t][x] = RowIn(q, t, x)
        BY <1>2, <3>2 DEF RowsWhole
      <4>2. DOMAIN db[t][x] \subseteq DOMAIN RowIn(q, t, x)
        BY <3>2 DEF RowIn, Over
      <4> QED
        BY <4>1, <4>2
    <3> QED
      BY <3>1, <3>2
  <2>2. ASSUME NEW u \in DOMAIN db'["user"]
        PROVE  db'["user"][u]["room"] \in DOMAIN db'["room"] \cup {None}
    <3>1. CASE u \in DOMAIN q.new["user"]
      BY <1>2, <3>1 DEF RowIn, WholeIn
    <3>2. CASE u \notin DOMAIN q.new["user"] /\ u \in DOMAIN q.set["user"]
      <4>1. "room" \in DOMAIN db["user"][u] /\ db["user"][u]["room"] \in DOMAIN db["room"] \cup {None}
        BY <1>2, <3>2 DEF RowsWhole, Columns
      <4>2. db'["user"][u] = Over(q.set["user"][u], db["user"][u])
        BY <1>2, <3>2 DEF RowIn
      <4>3. db'["user"][u]["room"] = IF "room" \in DOMAIN q.set["user"][u] THEN q.set["user"][u]["room"]
                                    ELSE db["user"][u]["room"]
        BY <4>1, <4>2 DEF Over
      <4> QED
        BY <1>2, <3>2, <4>1, <4>3 DEF WholeIn
    <3>3. CASE u \notin DOMAIN q.new["user"] /\ u \notin DOMAIN q.set["user"]
      BY <1>2, <3>3 DEF RowIn, RowsWhole
    <3> QED
      BY <3>1, <3>2, <3>3
  <2>3. IsFiniteSet(DOMAIN db'["room"])
    <3>1. IsFiniteSet(DOMAIN db["room"]) /\ IsFiniteSet(DOMAIN q.new["room"])
      BY <1>2 DEF WholeIn, RowsWhole
    <3>2. IsFiniteSet(DOMAIN db["room"] \cup DOMAIN q.new["room"])
      BY <3>1, FS_Union
    <3> QED
      BY <1>2, <3>2
  <2> QED
    BY <2>1, <2>2, <2>3 DEF RowsWhole, Columns
<1>4. ASSUME NEW o \in Session, request'[o] # None
      PROVE  /\ request[o] # None
             /\ request'[o].new = request[o].new /\ request'[o].set = request[o].set
             /\ request'[o].op = request[o].op
             /\ request'[o].fresh => request[o].fresh /\ db' = db
  BY <1>4, CommitLeaves
<1>5. ASSUME NEW o \in Session, request'[o] # None
      PROVE  WholeIn(request[o])'
  <2>1. WholeIn(request[o]) /\ request'[o].new = request[o].new /\ request'[o].set = request[o].set
    BY <1>4, <1>5 DEF KeepInv
  <2> QED
    BY <1>2, <2>1 DEF WholeIn, Columns
<1>6. ASSUME NEW o \in Session, request'[o] # None, request'[o].fresh
      PROVE  Keeps(request[o].op, request[o])'
  <2>1. UNCHANGED db /\ Keeps(request[o].op, request[o])
    BY <1>4, <1>6 DEF KeepInv
  <2> QED
    BY <1>4, <1>6, <2>1, SameKeeps DEF Keeps
<1> QED
  BY <1>3, <1>5, <1>6 DEF KeepInv

LEMMA OthersKeepKeepInv ==
  ASSUME IInv, KeepInv, (\E s \in Session : Lose(s)) \/ UNCHANGED vars
  PROVE  KeepInv'
<1>1. UNCHANGED db
  BY DEF Lose, Abandon, vars, rows
<1>2. \A o \in Session : request'[o] = None \/ request'[o] = request[o]
  BY DEF Lose, Abandon, vars, rows, IInv, Types
<1> QED
  BY <1>1, <1>2, QuietKeepsKeepInv

(* What the commit of a request that nobody has overtaken does *)
LEMMA NextFollows ==
  ASSUME IInv, SweepInv, KeepInv, [Next]_vars, NEW s \in Session, NEW ops, Fresh(ops, s)
  PROVE  /\ \A t \in {"room", "user"} : DOMAIN db'[t] = DOMAIN db[t] \cup DOMAIN request[s].new[t]
         /\ \A t \in {"room", "user"} : \A x \in DOMAIN db'[t] : db'[t][x] = RowIn(request[s], t, x)
         /\ Keeps(request[s].op, request[s]) /\ request[s].op \in ops
         /\ RowsWhole' /\ RowsWhole
<1>1. request[s] # None /\ request[s].fresh /\ request[s].op \in ops
  BY DEF Fresh
<1>2. Commit(s)
  BY FreshCommits
<1>3. RowsWhole' /\ RowsWhole /\ Keeps(request[s].op, request[s])
  BY <1>1, <1>2, CommitKeepsKeepInv DEF KeepInv
<1> QED
  BY <1>1, <1>2, <1>3, CommitWrites

LEMMA NextKeepsAddresses ==
  ASSUME IInv, SweepInv, KeepInv, [Next]_vars, NEW s \in Session,
         Fresh({"room_edit", "move", "move_in", "room_create", "create_user", "create_unmailed"}, s),
         NEW u \in DOMAIN db["user"]
  PROVE  IF HasCustomAddress(db, u) THEN db'["user"][u].address = db["user"][u].address
         ELSE db["user"][u].room # None => ~ HasCustomAddress(db', u)
<1>1. PICK q : q = request[s]
  OBVIOUS
<1>2. /\ DOMAIN db["user"] \subseteq DOMAIN db'["user"]
      /\ \A t \in {"room", "user"} : \A x \in DOMAIN db'[t] : db'[t][x] = RowIn(q, t, x)
      /\ Keeps(q.op, q) /\ q.op \in {"room_edit", "move", "move_in", "room_create", "create_user", "create_unmailed"}
      /\ RowsWhole'
  BY <1>1, NextFollows
<1>3. db'["user"][u] = RowIn(q, "user", u) /\ FollowsIn(q)
  BY <1>2 DEF Keeps
<1>4. db'["user"][u]["room"] \in DOMAIN db'["room"] \cup {None}
  BY <1>2 DEF RowsWhole
<1>5. db'["user"][u]["room"] # None =>
        db'["room"][db'["user"][u]["room"]] = RowIn(q, "room", RowIn(q, "user", u)["room"])
  BY <1>2, <1>3, <1>4
<1> QED
  BY <1>3, <1>5 DEF FollowsIn, HasCustomAddress

LEMMA NextKeepsNames ==
  ASSUME IInv, SweepInv, KeepInv, [Next]_vars, NEW s \in Session,
         Fresh({"room_create", "room_edit"}, s),
         NEW n \in Number, Cardinality(RoomsNamed(n)) <= 1
  PROVE  Cardinality(RoomsNamed(n)') <= 1
<1>1. PICK q : q = request[s]
  OBVIOUS
<1>2. /\ DOMAIN db'["room"] = DOMAIN db["room"] \cup DOMAIN q.new["room"]
      /\ \A x \in DOMAIN db'["room"] : db'["room"][x] = RowIn(q, "room", x)
      /\ Keeps(q.op, q) /\ q.op \in {"room_create", "room_edit"}
      /\ RowsWhole
  BY <1>1, NextFollows
<1>3. RoomsNamed(n)' = NamedIn(q, n)
  BY <1>2 DEF RoomsNamed, NamedIn
<1>4. NamedIn(q, n) \subseteq RoomsNamed(n) \/ \E x : NamedIn(q, n) = {x}
  BY <1>2 DEF Keeps, NamesKept
<1>5. IsFiniteSet(RoomsNamed(n))
  BY <1>2, FS_Subset DEF RowsWhole, RoomsNamed
<1>6. CASE NamedIn(q, n) \subseteq RoomsNamed(n)
  <2>1. Cardinality(NamedIn(q, n)) <= Cardinality(RoomsNamed(n))
    BY <1>5, <1>6, FS_Subset
  <2>2. Cardinality(NamedIn(q, n)) \in Nat /\ Cardinality(RoomsNamed(n)) \in Nat
    BY <1>5, <1>6, FS_Subset, FS_CardinalityType
  <2> QED
    BY <1>3, <2>1, <2>2
<1>7. CASE \E x : NamedIn(q, n) = {x}
  <2>1. Cardinality(NamedIn(q, n)) = 1
    BY <1>7, FS_Singleton
  <2> QED
    BY <1>3, <2>1
<1> QED
  BY <1>4, <1>6, <1>7

(* A request that is not overtaken leaves every tenant at the address of   *)
(* the room who had it, leaves custom addresses alone, and makes no room   *)
(* that has the name of another (edit_room, move, create_room).            *)
THEOREM RoomsAreAlwaysKept == Spec => FreshKeepsRooms
<1>1. Init => IInv /\ SweepInv /\ KeepInv
  BY InitIInv, InitSweepInv, InitKeepInv
<1>2. IInv /\ SweepInv /\ KeepInv /\ [Next]_vars => IInv' /\ SweepInv' /\ KeepInv'
  <2>1. IInv /\ [Next]_vars => IInv'
    BY StartKeepsIInv, FlushKeepsIInv, CommitKeepsIInv, LoseKeepsIInv, StutterKeepsIInv DEF Next
  <2>2. IInv /\ SweepInv /\ [Next]_vars => SweepInv'
    BY StartKeepsSweepInv, FlushKeepsSweepInv, CommitKeepsSweepInv, OthersKeepSweepInv DEF Next
  <2>3. IInv /\ SweepInv /\ KeepInv /\ [Next]_vars => KeepInv'
    BY StartKeepsKeepInv, FlushKeepsKeepInv, CommitKeepsKeepInv, OthersKeepKeepInv DEF Next
  <2> QED
    BY <2>1, <2>2, <2>3
<1>3. IInv /\ SweepInv /\ KeepInv /\ [Next]_vars =>
        [\A s \in Session : Fresh({"room_edit", "move", "move_in", "room_create", "create_user", "create_unmailed"}, s) =>
           \A u \in DOMAIN db.user :
             IF HasCustomAddress(db, u) THEN db'.user[u].address = db.user[u].address
             ELSE db.user[u].room # None => ~ HasCustomAddress(db', u)]_vars
  BY NextKeepsAddresses
<1>4. IInv /\ SweepInv /\ KeepInv /\ [Next]_vars =>
        [\A s \in Session : Fresh({"room_create", "room_edit"}, s) =>
           \A n \in Number : Cardinality(RoomsNamed(n)) <= 1 => Cardinality(RoomsNamed(n)') <= 1]_vars
  BY NextKeepsNames
<1> QED
  BY <1>1, <1>2, <1>3, <1>4, PTL DEF Spec, FreshKeepsRooms, AddressesFollowRooms, RoomsStayFindable
=============================================================================
