----------------------------- MODULE Residence -----------------------------
(***************************************************************************)
(* What moving in, moving and moving out do to one user                    *)
(* (pycroft/lib/user/lifecycle.py), as functions from the user's rows as a *)
(* transaction read them to the rows it wants to write.  The three task    *)
(* implementations of pycroft/lib/task.py wrap these operations with a     *)
(* precondition of their own.                                              *)
(*                                                                         *)
(* A user is abstracted to three things: the room, the groups the user is  *)
(* in from now on, and the room of the user's host.  Each user owns one    *)
(* device, so there is at most one host and a MAC is registered iff that   *)
(* host exists.                                                            *)
(***************************************************************************)
CONSTANTS
  Room,     \* rooms that get_room finds
  NoRoom    \* no room: user.room is None, no host, or get_room found nothing

ASSUME NoRoomAssumption == NoRoom \notin Room

RoomOrNone == Room \cup {NoRoom}

(* The groups that config names and the lifecycle reads or writes. *)
Group == {"member", "network_access", "external", "pre_member"}

UserRows == [room: RoomOrNone, groups: SUBSET Group, host: RoomOrNone]

TaskType == {"USER_MOVE_IN", "USER_MOVE", "USER_MOVE_OUT"}

(* The parameters of a task.  membership is begin_membership of a move-in  *)
(* and end_membership of a move-out; mac says whether a move-in registers  *)
(* the user's device, and how ("annex" is host_annex=True).                *)
JobParams ==
  [type: TaskType, room: RoomOrNone, membership: BOOLEAN,
   mac: {"none", "new", "annex"}]

----------------------------------------------------------------------------
(* move_in: the immediate branch.  Memberships first, then room and host.  *)
MoveIn(row, j) ==
  [room   |-> IF j.room = NoRoom THEN row.room ELSE j.room,
   groups |-> IF j.membership
              THEN (row.groups \ {"external", "pre_member"})
                     \cup {"member", "network_access"}
              ELSE row.groups,
   host   |-> IF j.room = NoRoom \/ j.mac = "none" THEN row.host ELSE j.room]

(* move: a host standing in the old room is migrated with its owner. *)
Move(row, j) ==
  [row EXCEPT !.room = j.room,
              !.host = IF row.host # NoRoom /\ row.host = row.room
                       THEN j.room ELSE row.host]

(* move_out: the immediate branch.  The host goes if it stands in the room *)
(* that is left or the membership ends.                                    *)
MoveOut(row, j) ==
  [room   |-> NoRoom,
   groups |-> IF j.membership
              THEN row.groups \ {"member", "external", "network_access"}
              ELSE row.groups,
   host   |-> IF row.host = row.room \/ j.membership THEN NoRoom ELSE row.host]

Applied(row, j) ==
  CASE j.type = "USER_MOVE_IN"  -> MoveIn(row, j)
    [] j.type = "USER_MOVE"     -> Move(row, j)
    [] j.type = "USER_MOVE_OUT" -> MoveOut(row, j)

(* The operation leaves by an exception of its own: "user is already       *)
(* living in a room.", MacExistsException, the query for the new room that *)
(* finds none, and the assertion that the new room differs from the old.   *)
Raises(row, j) ==
  \/ /\ j.type = "USER_MOVE_IN"
     /\ \/ row.room # NoRoom
        \/ j.room # NoRoom /\ j.mac = "new" /\ row.host # NoRoom
  \/ j.type = "USER_MOVE" /\ j.room \in {NoRoom, row.room}

(* The precondition of the task implementation (_execute): when it fails,  *)
(* an error is noted and the implementation returns with status FAILED.    *)
ImplError(row, j) ==
  \/ j.type = "USER_MOVE_IN"  /\ (row.room # NoRoom \/ j.room = NoRoom)
  \/ j.type = "USER_MOVE"     /\ (row.room = NoRoom \/ j.room = NoRoom)
  \/ j.type = "USER_MOVE_OUT" /\ row.room = NoRoom

============================================================================
