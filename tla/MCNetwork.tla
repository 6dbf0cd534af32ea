------------------------------ MODULE MCNetwork ------------------------------
EXTENDS Hades

CONSTANTS ra, rb, rx, ada, bob, root, m1, m2, na, nb, h1, h2, h3, hw, i1, i2, i3, c1, c2, c3,
          pa, pb, pc, qa, qb, qc, n1, n2,
          ext, acc, vio, blk, s1, s2

UsableDef == na :> {1, 2} @@ nb :> {3}

IdsDef ==
  [user |-> {ada, bob, root}, membership |-> {ada, bob, root} \X {ext, acc, vio, blk},
   host |-> {h1, h2, h3, hw}, switch |-> {h1, h2, h3, hw},
   interface |-> {i1, i2, i3}, ip |-> 1 .. 3, mpsk |-> {c1, c2, c3}, switch_port |-> {pa, pb, pc},
   patch_port |-> {qa, qb, qc}]

Sessions == Permutations({s1, s2})

(* external (not blocking), network_access, violation (blocking, but not   *)
(* denying network access), blocked (denying it)                           *)
GrantsDef ==
  ext :> [external |-> TRUE] @@ acc :> [network_access |-> TRUE] @@
  vio :> [violation |-> TRUE] @@ blk :> [network_access |-> FALSE]

RadiusDef == [violation |-> TRUE, external |-> FALSE]

ConfigDef ==
  [former |-> {ext}, begun |-> {acc}, left |-> {ext, acc}, barred |-> {vio, blk},
   violation |-> vio, blocked |-> blk]

(* Two rooms on different subnets, behind one switch in a third one; Ada    *)
(* lives in the first room with a device, Bob has not moved in yet.         *)
OneSwitch ==
  [user |-> ada :> [room |-> ra] @@ bob :> [room |-> None] @@ root :> [room |-> None],
   membership |-> <<ada, acc>> :> [ends |-> FALSE] @@ <<bob, ext>> :> [ends |-> FALSE],
   host |-> h1 :> [owner |-> ada, room |-> ra] @@ hw :> [owner |-> root, room |-> rx],
   switch |-> hw :> [host |-> hw],
   interface |-> i1 :> [host |-> h1, mac |-> m1],
   ip |-> 1 :> [interface |-> i1],
   mpsk |-> << >>,
   switch_port |-> pa :> [switch |-> hw, subnets |-> <<na>>] @@ pb :> [switch |-> hw, subnets |-> <<nb>>],
   patch_port |-> qa :> [name |-> n1, room |-> ra, switch_room |-> rx, switch_port |-> pa]
               @@ qb :> [name |-> n2, room |-> rb, switch_room |-> rx, switch_port |-> pb]]

(* Two switches, one of them in a room where users live.  Ada's host is not *)
(* where she lives and has no interface; Bob has a device and an MPSK       *)
(* client.                                                                  *)
TwoSwitches ==
  [user |-> ada :> [room |-> rb] @@ bob :> [room |-> ra] @@ root :> [room |-> None],
   membership |-> <<ada, acc>> :> [ends |-> FALSE] @@ <<bob, acc>> :> [ends |-> FALSE]
               @@ <<bob, vio>> :> [ends |-> TRUE],
   host |-> h1 :> [owner |-> ada, room |-> ra] @@ h2 :> [owner |-> root, room |-> rb]
         @@ h3 :> [owner |-> bob, room |-> ra] @@ hw :> [owner |-> root, room |-> rx],
   switch |-> hw :> [host |-> hw] @@ h2 :> [host |-> h2],
   interface |-> i1 :> [host |-> h3, mac |-> m1],
   ip |-> 2 :> [interface |-> i1],
   mpsk |-> c1 :> [owner |-> bob, mac |-> m2],
   switch_port |-> pa :> [switch |-> hw, subnets |-> <<na, nb>>] @@ pb :> [switch |-> h2, subnets |-> <<nb>>],
   patch_port |-> qa :> [name |-> n1, room |-> ra, switch_room |-> rx, switch_port |-> pa]
               @@ qb :> [name |-> n1, room |-> rb, switch_room |-> rb, switch_port |-> pb]
               @@ qc :> [name |-> n2, room |-> rb, switch_room |-> rx, switch_port |-> None]]

FirstDbsDef == {OneSwitch, TwoSwitches}
=============================================================================
