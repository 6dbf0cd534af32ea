--------------------------- MODULE MCMemberships ---------------------------
(* Small instances of Memberships for TLC. *)
EXTENDS Memberships

(* closed(b, e) and closed(b, None) that overlap one another; the edit     *)
(* form makes [b, e), which touches the second one and overlaps the first, *)
(* and the empty range when both days are the same.                        *)
FewGrants == {Closed(1, 3), Closed(2, PosInf)}
FewEdits  == {ClosedOpen(1, 2), ClosedOpen(2, 2)}

Admins == Permutations(Admin)
=============================================================================
