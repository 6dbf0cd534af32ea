------------------------------ MODULE MCLedger ------------------------------
(* A small instance of Ledger for TLC. *)
EXTENDS Ledger

CONSTANTS u1, house, common, a1, a2, c1, c2

(* u1 pays in two parts; the second can also be sent back. *)
MCAmount      == [a \in {a1, a2} |-> 1]
MCValidOn     == [a \in {a1, a2} |-> 2]
MCUserId      == 0 .. 300 \cup 1230 .. 1300 \cup {1729} \cup 12340 .. 12400
MCUserOf      == 1729 :> u1
MCTeam        == [a \in {a1, a2} |-> None]

(* The first is mistyped, then right; the second has lost its dash. *)
MCReference ==
  (a1 :> <<[uid |-> <<1, 7, 2, 8>>, code |-> <<9>>], encode_type1_user_id(1729)>>)
  @@ (a2 :> <<WithoutDash(encode_type2_user_id(1729))>>)
MCFee         == {[begins |-> 1, ends |-> 2, amount |-> 2]}

(* A charge by hand in the span of the fee, and one that does not balance. *)
MCBooking ==
  {[splits |-> (u1 :> 2) @@ (common :> -2), valid |-> 1],
   [splits |-> (u1 :> 2) @@ (common :> -1), valid |-> 1]}

Clerks == Permutations(Clerk)
=============================================================================
