------------------------------ MODULE TaskLife ------------------------------
(***************************************************************************)
(* What the task list promises, whatever the sessions do: every task is    *)
(* scheduled once and closed once.  A commit schedules or closes at most   *)
(* one task, and nothing ever reopens one.                                 *)
(***************************************************************************)
CONSTANT Task

VARIABLE life    \* per task: not scheduled, pending, or done with

Init == life = [t \in Task |-> "unscheduled"]

Schedule(t) ==
  /\ life[t] = "unscheduled"
  /\ life' = [life EXCEPT ![t] = "pending"]

Close(t) ==
  /\ life[t] = "pending"
  /\ life' = [life EXCEPT ![t] = "closed"]

Next == \E t \in Task : Schedule(t) \/ Close(t)

Spec == Init /\ [][Next]_life
=============================================================================
