-------------------------- MODULE MCMemberRequests --------------------------
EXTENDS MemberRequests

CONSTANTS na, nb, la, lb, ea, eA, eb, pa, r1, q1, q2, u1, u2, u3

(* Ada has a tenancy and needs nobody's help, and writes a capital in the   *)
(* address.  Bob gives a previous dorm, moves in later, and has an account  *)
(* already.                                                                 *)
Ada == [name |-> na, login |-> la, email |-> eA, person |-> pa, room |-> r1,
        adult |-> TRUE, dorm |-> FALSE, soon |-> FALSE]
Bob == [name |-> nb, login |-> lb, email |-> eb, person |-> None, room |-> None,
        adult |-> TRUE, dorm |-> TRUE, soon |-> TRUE]

ApplicationDef == {Ada, Bob}
TenancyDef     == {<<pa, r1>>}
IdsDef         == [prm |-> {q1, q2}, user |-> {u1, u2, u3}]
LowerDef       == ea :> ea @@ eA :> ea @@ eb :> eb
FirstUsersDef  == u1 :> [name |-> nb, login |-> lb, email |-> eb, person |-> None, room |-> None,
                         confirmed |-> TRUE, key |-> None, token |-> None]
=============================================================================
