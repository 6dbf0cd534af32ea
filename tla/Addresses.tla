----------------------------- MODULE Addresses -----------------------------
(***************************************************************************)
(* Addresses are shared by value: rooms and users refer to rows that are   *)
(* looked up or created, and a trigger deletes those that nobody refers to *)
(* any more (lib/address, model/address, lib/facilities, and the pages     *)
(* that create rooms and users, edit addresses and move users).            *)
(*                                                                         *)
(* Left out: the parts of an address, buildings and levels (rooms are of   *)
(* one level), whether a room is inhabitable, logs.                        *)
(***************************************************************************)
EXTENDS Rows

CONSTANTS
  Number,       \* names of rooms
  Value,        \* addresses as they are entered
  Vo,           \* ids of rooms at the dormitories' owner
  First         \* table -> rows at the beginning

VARIABLE flushed     \* requests whose statements are executed but not committed

vars == <<rows, flushed>>

(* address: value; room: number, vo, address; user: room, address *)
Table == {"address", "room", "user"}
Field == {"value", "number", "vo", "address", "room"}

(* Fields, of a row or of those that are updated in one; rows by their ids *)
Entry  == Value \cup Number \cup Vo \cup Ids["address"] \cup Ids["room"] \cup {None}
Op     == {"none", "room_create", "room_edit", "edit_address", "create_user", "create_unmailed",
           "move_in", "move", "move_out"}
AllIds == UNION {Ids[t] : t \in Table}
RowsWith(E) == UNION {[I -> UNION {[F -> E] : F \in SUBSET Field}] : I \in SUBSET AllIds}

Requests(all) ==
  [op: Op, new: [Table -> all], set: [Table -> all],
   drop: [Table -> SUBSET AllIds], seen: SUBSET {"db"}, fresh: BOOLEAN]

(* Values are entered and rows refer to addresses from the beginning on. *)
ASSUME AddressesAssumption ==
  /\ DOMAIN Ids = Table /\ First = [t \in Table |-> [x \in DOMAIN First[t] |-> First[t][x]]]
  /\ \A t \in Table : DOMAIN First[t] \subseteq Ids[t]
  /\ UniqueIn(First["address"], "value")
  /\ \A t \in {"room", "user"} : \A x \in DOMAIN First[t] : First[t][x].address \in DOMAIN First["address"]
  /\ MaxRequests \in Nat

(* Rows have their columns, and users live in rooms that there are. *)
ASSUME FirstAssumption ==
  /\ IsFiniteSet(DOMAIN First["room"])
  /\ \A x \in DOMAIN First["room"] : {"number", "vo", "address"} \subseteq DOMAIN First["room"][x]
  /\ \A u \in DOMAIN First["user"] :
       {"room", "address"} \subseteq DOMAIN First["user"][u] /\ First["user"][u].room \in DOMAIN First["room"] \cup {None}
ASSUME NoneAssumption == None \notin Requests(RowsWith(Entry))

----------------------------------------------------------------------------
(* What is looked up. *)

AddressesWith(v)   == {a \in DOMAIN db.address : db.address[a].value = v}
Referenced(d, a)   == \E t \in {"room", "user"} : \E x \in DOMAIN d[t] : d[t][x].address = a
RoomsNamed(n)      == {x \in DOMAIN db.room : db.room[x].number = n}

(* get_room and Query.one: with two rooms of this name both raise *)
TheRooms(n) == IF Cardinality(RoomsNamed(n)) = 1 THEN RoomsNamed(n) ELSE {}

HasCustomAddress(d, u) ==
  d.user[u].room # None /\ d.user[u].address # d.room[d.user[u].room].address

(* get_or_create_address: what is created is flushed at once, but no       *)
(* trigger listens to that.                                                *)
CanHave(v)        == AddressesWith(v) # {} \/ NewIds("address") # {}
AddressOf(v)      == IF AddressesWith(v) # {} THEN CHOOSE a \in AddressesWith(v) : TRUE ELSE NewId("address")
WithAddress(r, v) ==
  IF AddressesWith(v) # {} THEN r ELSE Insert(r, "address", NewId("address"), [value |-> v])

RoomAlreadyExists(n, others) == RoomsNamed(n) \cap others # {}

----------------------------------------------------------------------------
(* The requests.  What they decide depends on all the rows. *)

Begin(s, op, r) == Decide(s, op, {"db"}, r) /\ UNCHANGED flushed

(* create_room by the page room_create *)
RoomCreate(s, n, v) ==
  /\ ~ RoomAlreadyExists(n, DOMAIN db.room)
  /\ NewIds("room") # {} /\ CanHave(v)
  /\ Begin(s, "room_create",
           Insert(WithAddress(Nothing, v), "room", NewId("room"),
                  [number |-> n, vo |-> None, address |-> AddressOf(v)]))

MutSharers(x) == {}    \* mutation: looked up by the new address

(* users_sharing_address: the row of the room is not loaded again before,  *)
(* it is the old address that is shared                                    *)
Sharers(x) == {u \in DOMAIN db.user : db.user[u].room = x /\ db.user[u].address = db.room[x].address}

(* edit_room: to compare the addresses, the old one is loaded, and the     *)
(* room is updated before if another field differs.  The trigger then      *)
(* deletes the new address as long as nobody refers to it, and the request *)
(* fails.                                                                  *)
LosesAddress(x, n, vo, v) ==
  /\ db.room[x].number # n \/ db.room[x].vo # vo
  /\ ~ Referenced(db, AddressOf(v))

AddressFields(users, a) == [u \in users |-> [address |-> a]]

RoomEdit(s, x, n, vo, v) ==
  /\ n # db.room[x].number => ~ RoomAlreadyExists(n, DOMAIN db.room \ {x})
  /\ CanHave(v) /\ ~ LosesAddress(x, n, vo, v)
  /\ LET a == AddressOf(v)
         r == Update(WithAddress(Nothing, v), "room", x, [number |-> n, vo |-> vo, address |-> a])
     IN  Begin(s, "room_edit",
               IF a = db.room[x].address THEN r
               ELSE [r EXCEPT !.set["user"] = AddressFields(Sharers(x), a)])

(* edit_address by the page edit_user_address *)
EditAddress(s, u, v) ==
  /\ CanHave(v)
  /\ Begin(s, "edit_address", Update(WithAddress(Nothing, v), "user", u, [address |-> AddressOf(v)]))

(* create_user: with the address of the room, into which the user moves    *)
(* in by an UPDATE.                                                        *)
CreateUser(s, x) ==
  /\ NewIds("user") # {}
  /\ Begin(s, "create_user",
           Insert(Nothing, "user", NewId("user"), [room |-> x, address |-> db.room[x].address]))

(* The new row is updated as well if a confirmation mail has to be sent.   *)
CreateNonResident(s, v) ==
  /\ NewIds("user") # {} /\ CanHave(v)
  /\ LET row == [room |-> None, address |-> AddressOf(v)]
     IN  \E op \in {"create_user", "create_unmailed"} :
           Begin(s, op, Insert(WithAddress(Nothing, v), "user", NewId("user"), row))

MoveIn(s, u, x) ==
  /\ db.user[u].room = None
  /\ Begin(s, "move_in", Update(Nothing, "user", u, [room |-> x, address |-> db.room[x].address]))

(* move: also of a user who has no room *)
MovedAddress(u, x) == IF HasCustomAddress(db, u) THEN db.user[u].address ELSE db.room[x].address

Move(s, u, x) ==
  /\ db.user[u].room # x
  /\ Begin(s, "move", Update(Nothing, "user", u, [room |-> x, address |-> MovedAddress(u, x)]))

MoveOut(s, u) ==
  /\ db.user[u].room # None
  /\ Begin(s, "move_out", Update(Nothing, "user", u, [room |-> None]))

Start(s) ==
  /\ request[s] = None
  /\ \/ \E n \in Number, v \in Value : RoomCreate(s, n, v)
     \/ \E x \in DOMAIN db.room, n \in Number, vo \in Vo \cup {None}, v \in Value : RoomEdit(s, x, n, vo, v)
     \/ \E u \in DOMAIN db.user, v \in Value : EditAddress(s, u, v)
     \/ \E n \in Number : \E x \in TheRooms(n) : CreateUser(s, x)
     \/ \E v \in Value : CreateNonResident(s, v)
     \/ \E u \in DOMAIN db.user, n \in Number : \E x \in TheRooms(n) : MoveIn(s, u, x) \/ Move(s, u, x)
     \/ \E u \in DOMAIN db.user : MoveOut(s, u)

----------------------------------------------------------------------------
(* The statements and the end of a request. *)

After(r) == [t \in Table |-> WrittenRows(r, t, r.drop[t])]

MutOrphans(r) ==    \* mutation: no trigger on users
  IF r.set["room"] = << >> THEN {}
  ELSE {a \in DOMAIN After(r).address : ~ Referenced(After(r), a)}

(* address_remove_orphans, after an UPDATE of a room or a user, be it a    *)
(* new one: it sees what is committed and what its transaction has written. *)
Orphans(r) ==
  IF r.set["room"] = << >> /\ r.set["user"] = << >> /\ r.op # "create_user" THEN {}
  ELSE {a \in DOMAIN After(r).address : ~ Referenced(After(r), a)}

AddressesExist(r) ==
  \A t \in {"room", "user"} : \A x \in DOMAIN After(r)[t] : After(r)[t][x].address \in DOMAIN After(r).address

MutAccepted(r) ==    \* mutation: no unique constraint on the values
  /\ UniqueIn(After(r).room, "vo")
  /\ AddressesExist(r)

(* The constraints: values and vo ids are unique, addresses exist. *)
Accepted(r) ==
  /\ UniqueIn(After(r).address, "value") /\ UniqueIn(After(r).room, "vo")
  /\ AddressesExist(r)

Written(r, t) == DOMAIN r.set[t] \cup DOMAIN r.new[t]
Chosen(r)     == UNION {{RowIn(r, t, x).address : x \in Written(r, t)} : t \in {"room", "user"}}
Values(r)     == {r.new["address"][a].value : a \in DOMAIN r.new["address"]}
Vos(r)        == {RowIn(r, "room", x).vo : x \in Written(r, "room")} \ {None}

(* Two transactions that one of the locks keeps apart: rows, keys of       *)
(* unique indexes, a row that one deletes and the other refers to.         *)
Exclude(p, q) ==
  \/ \E t \in Table : Written(p, t) \cap Written(q, t) # {}
  \/ Values(p) \cap Values(q) # {} \/ Vos(p) \cap Vos(q) # {}
  \/ p.drop["address"] \cap Chosen(q) # {} \/ q.drop["address"] \cap Chosen(p) # {}

(* The statements wait for the locks of others. *)
Flush(s) ==
  /\ request[s] # None /\ s \notin flushed
  /\ Accepted(request[s])
  /\ LET r == [request[s] EXCEPT !.drop["address"] = Orphans(request[s])]
     IN  /\ \A o \in flushed : ~ Exclude(r, request[o])
         /\ request' = [request EXCEPT ![s] = r]
  /\ flushed' = flushed \cup {s}
  /\ UNCHANGED <<db, given, requests>>

Commit(s) ==
  /\ s \in flushed /\ flushed' = flushed \ {s}
  /\ db' = After(request[s])
  /\ request' = Overtaken(s, IF db' = db THEN {} ELSE {"db"})
  /\ UNCHANGED <<given, requests>>

Lose(s) == Abandon(s) /\ flushed' = flushed \ {s}

Init ==
  /\ db = First
  /\ given = [t \in Table |-> DOMAIN First[t]]
  /\ request = [s \in Session |-> None]
  /\ requests = 0 /\ flushed = {}

Next == \E s \in Session : Start(s) \/ Flush(s) \/ Commit(s) \/ Lose(s)

Spec == Init /\ [][Next]_vars

----------------------------------------------------------------------------
(* Two addresses never have the same value, whoever creates them at a time *)
(* (model/address: "if two addresses have equal values, they should be     *)
(* identical"), and nobody refers to one that the trigger has deleted.     *)
AddressInv ==
  /\ requests \in 0 .. MaxRequests /\ flushed \subseteq {s \in Session : request[s] # None}
  /\ \A t \in Table : DOMAIN db[t] \subseteq given[t]
  /\ UniqueIn(db.address, "value")
  /\ \A t \in {"room", "user"} : \A x \in DOMAIN db[t] : db[t][x].address \in DOMAIN db.address

(* Two requests may each take away one of the last two references and      *)
(* leave the address behind; every later one that updates a room or a user *)
(* and is not overtaken sweeps all of them (address_remove_orphans).       *)
OrphansAreSwept ==
  [][\A s \in Session :
       Fresh({"room_edit", "edit_address", "create_user", "move_in", "move", "move_out"}, s) =>
         \A a \in DOMAIN db'.address : Referenced(db', a)]_vars

(* A user who has the address of the room keeps having the address of the  *)
(* room, whoever edits the room or moves the user, and a custom address    *)
(* stays (edit_room, move), unless requests overtake each other.           *)
AddressesFollowRooms ==
  [][\A s \in Session :
       Fresh({"room_edit", "move", "move_in", "room_create", "create_user", "create_unmailed"}, s) =>
       \A u \in DOMAIN db.user :
         IF HasCustomAddress(db, u) THEN db'.user[u].address = db.user[u].address
         ELSE db.user[u].room # None => ~ HasCustomAddress(db', u)]_vars

(* As long as nobody overtakes a request, it makes no two rooms of the     *)
(* same name: they could not be found any more (create_room, edit_room).   *)
RoomsStayFindable ==
  [][\A s \in Session : Fresh({"room_create", "room_edit"}, s) =>
       \A n \in Number : Cardinality(RoomsNamed(n)) <= 1 => Cardinality(RoomsNamed(n)') <= 1]_vars

(* What requests that nobody overtakes keep of rooms: tenants have their   *)
(* address, and their names are theirs alone.                              *)
FreshKeepsRooms == AddressesFollowRooms /\ RoomsStayFindable
=============================================================================
