----------------------------- MODULE MCDefaults -----------------------------
EXTENDS Defaults

(* Two fees that overlap on a day, with different deadlines, and one whose *)
(* deadlines are out of order.                                             *)
FeeFormDef ==
  {[begins |-> 0, ends |-> 3, deadline |-> 1, final |-> 2],
   [begins |-> 2, ends |-> 5, deadline |-> 2, final |-> 3],
   [begins |-> 0, ends |-> 3, deadline |-> 3, final |-> 1]}
=============================================================================
