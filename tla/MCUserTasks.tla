---------------------------- MODULE MCUserTasks ----------------------------
(* A small instance of UserTasks for TLC. *)
EXTENDS UserTasks

CONSTANTS r1, r2

MoveInJob  == [type |-> "USER_MOVE_IN", room |-> r1, membership |-> TRUE, mac |-> "new"]
MoveJob    == [type |-> "USER_MOVE", room |-> r2, membership |-> FALSE, mac |-> "none"]
MoveOutEnd == [type |-> "USER_MOVE_OUT", room |-> NoRoom, membership |-> TRUE, mac |-> "none"]

JobsDef == {MoveInJob, MoveJob, MoveOutEnd}
=============================================================================
