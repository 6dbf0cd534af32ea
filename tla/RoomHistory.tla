---------------------------- MODULE RoomHistory ----------------------------
(***************************************************************************)
(* The room of one user and the history that the database trigger          *)
(* user_room_change_update_history keeps of it (pycroft/model/user.py),    *)
(* under transactions that set user.room (move_in, move, move_out).        *)
(*                                                                         *)
(* The trigger stamps what it writes with CURRENT_TIMESTAMP, the beginning *)
(* of its transaction, but it runs against what is committed by the time   *)
(* of the UPDATE.  Web sessions (READ COMMITTED) overwrite a room that has *)
(* changed in between; Celery workers (SERIALIZABLE) fail.                 *)
(***************************************************************************)
EXTENDS Integers

CONSTANTS
  Room, NoRoom,
  Web,        \* web sessions
  Worker,     \* sessions of Celery workers
  MaxTime     \* bound on the clock

ASSUME RoomAssumption == NoRoom \notin Room
ASSUME SessionAssumption == Web \cap Worker = {}
ASSUME TimeAssumption == MaxTime \in Nat \ {0}

VARIABLES
  room,       \* user.room_id, committed
  entries,    \* room_history_entry of the user
  now,        \* the database clock
  tx          \* session -> its transaction, or Idle

vars == <<room, entries, now, tx>>

Session    == Web \cup Worker
Time       == 1 .. MaxTime
Forever    == MaxTime + 1
RoomOrNone == Room \cup {NoRoom}

(* [from, to), with to = Forever while it is open.  PostgreSQL forgets the *)
(* position of an empty range: from = to = 0.                              *)
Entry == {e \in [room: Room, from: 0 .. MaxTime, to: 0 .. Forever] : e.from <= e.to}

(* start is the transaction's CURRENT_TIMESTAMP, target the room it is     *)
(* going to set; fresh says that nobody wrote the user's row since.        *)
Transaction == [start: Time, target: RoomOrNone, fresh: BOOLEAN]
Idle == [start |-> 0, target |-> NoRoom, fresh |-> TRUE]

TypeOK ==
  /\ room \in RoomOrNone
  /\ entries \subseteq Entry
  /\ now \in Time
  /\ tx \in [Session -> Transaction \cup {Idle}]
  /\ \A s \in Session : tx[s].start <= now

OpenSince(r, t) == [room |-> r, from |-> t, to |-> Forever]

(* A user is created with or without a room: the trigger is also AFTER     *)
(* INSERT, where old is null.                                              *)
Init ==
  /\ room \in RoomOrNone
  /\ entries = IF room = NoRoom THEN {} ELSE {OpenSince(room, 1)}
  /\ now = 1
  /\ tx = [s \in Session |-> Idle]

----------------------------------------------------------------------------
(* The lifecycle operations differ in the rooms they accept: move_in wants *)
(* no room, move another one, move_out some room.                          *)
Begin(s, r) ==
  /\ tx[s] = Idle
  /\ r # room
  /\ tx' = [tx EXCEPT ![s] = [start |-> now, target |-> r, fresh |-> TRUE]]
  /\ UNCHANGED <<room, entries, now>>

(* && on ranges; an empty range overlaps nothing. *)
Overlapping(e, f) == e.from < f.to /\ f.from < e.to

(* active_during - [t, infinity) *)
Ended(e, t) == IF e.from < t THEN [e EXCEPT !.to = t]
               ELSE [e EXCEPT !.from = 0, !.to = 0]

MutAfterEnd(t) ==    \* mutation: the entries are deleted
  {e \in entries : ~(e.room = room /\ t < e.to)}

(* The first half of the trigger: the entries of the old room that reach   *)
(* into [t, infinity) are cut off.                                         *)
AfterEnd(t) ==
  {IF e.room = room /\ t < e.to THEN Ended(e, t) ELSE e : e \in entries}

MutHistory(r, t) ==    \* mutation: a move does not end the old entry
  IF r = NoRoom THEN AfterEnd(t) ELSE entries \cup {OpenSince(r, t)}

History(r, t) == AfterEnd(t) \cup (IF r = NoRoom THEN {} ELSE {OpenSince(r, t)})

(* UPDATE "user" SET room_id, with its trigger: nothing if old and new are *)
(* the same; the exclude constraint refuses a second entry for a room and  *)
(* a time.                                                                 *)
SetRoom(s) ==
  /\ tx[s] # Idle
  /\ s \in Worker => tx[s].fresh
  /\ room' = tx[s].target
  /\ IF tx[s].target = room THEN UNCHANGED entries
     ELSE LET new == OpenSince(tx[s].target, tx[s].start)
          IN  /\ \A e \in AfterEnd(tx[s].start) :
                   e.room = tx[s].target => ~Overlapping(e, new)
              /\ entries' = History(tx[s].target, tx[s].start)
  /\ tx' = [x \in Session |->
              IF x = s \/ tx[x] = Idle THEN Idle
              ELSE [tx[x] EXCEPT !.fresh = @ /\ tx[s].target = room]]
  /\ UNCHANGED now

(* An error of any kind, the two above included. *)
Abort(s) ==
  /\ tx[s] # Idle
  /\ tx' = [tx EXCEPT ![s] = Idle]
  /\ UNCHANGED <<room, entries, now>>

Tick ==
  /\ now < MaxTime
  /\ now' = now + 1
  /\ UNCHANGED <<room, entries, tx>>

Next ==
  \/ \E s \in Session : (\E r \in RoomOrNone : Begin(s, r)) \/ SetRoom(s) \/ Abort(s)
  \/ Tick

Spec == Init /\ [][Next]_vars
----------------------------------------------------------------------------
(* Properties. *)

(* However transactions overlap, the entry that is open is the one of the  *)
(* room the user has, and there is none without a room: test_room_history  *)
(* checks it for one operation at a time.                                  *)
OpenEntryIsRoom ==
  {e.room : e \in {x \in entries : x.to = Forever}} =
    IF room = NoRoom THEN {} ELSE {room}

(* The rooms of the user at an instant, as the fee query finds them.       *)
RoomsAt(t) == {e.room : e \in {x \in entries : x.from <= t /\ t < x.to}}

(* What the history says of the time before a transaction began, the       *)
(* transaction does not change: at most its own duration is rewritten.     *)
PastIsFixed ==
  [][\A s \in Session : tx[s] # Idle /\ tx'[s] = Idle =>
       \A t \in Time : t < tx[s].start => RoomsAt(t)' = RoomsAt(t)]_vars

(* "... so that the user doesn't have two entries for the same timestamp"  *)
(* (model/user.py:525; no second is added): a user lives in one room at a  *)
(* time, which is also what charges a user once per fee.                   *)
OneRoomAtATime ==
  \A t \in Time : \A q, r \in RoomsAt(t) : q = r

(* A transaction that nobody has overtaken leaves the user in one room at  *)
(* a time, if the user was: only an overlap of transactions breaks it.     *)
FreshKeepsOneRoom ==
  [][\A s \in Session : tx[s] # Idle /\ tx'[s] = Idle /\ tx[s].fresh
       => (OneRoomAtATime => OneRoomAtATime')]_vars

=============================================================================
