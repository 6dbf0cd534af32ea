---------------------------- MODULE MCAddresses ----------------------------
EXTENDS Addresses

CONSTANTS s1, s2, a1, a2, a3, a4, r1, r2, r3, u1, u2, u3, n1, n2, n3, va, vb, vc, o1

(* Two rooms at one address.  One user shares it, the other lives elsewhere *)
(* officially.                                                              *)
FirstDef ==
  [address |-> a1 :> [value |-> va] @@ a2 :> [value |-> vb],
   room    |-> r1 :> [number |-> n1, vo |-> o1, address |-> a1] @@ r2 :> [number |-> n2, vo |-> None, address |-> a1],
   user    |-> u1 :> [room |-> r1, address |-> a1] @@ u2 :> [room |-> r1, address |-> a2]]

IdsDef   == [address |-> {a1, a2, a3, a4}, room |-> {r1, r2, r3}, user |-> {u1, u2, u3}]
Sessions == Permutations(Session)
=============================================================================
