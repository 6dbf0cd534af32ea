------------------------------- MODULE Hades -------------------------------
(***************************************************************************)
(* What the network access server Hades reads (model/hades.py): views of   *)
(* the hosts, the patch panel and the memberships.  RADIUS asks with the   *)
(* MAC of a device and the switch port it is plugged into; DHCP with the   *)
(* MAC alone.                                                              *)
(***************************************************************************)
EXTENDS Network

CONSTANTS
  Radius,    \* radius_property: property -> is_blocking_group
  Unauth     \* the VLAN "2hades-unauth"

ASSUME HadesAssumption ==
  /\ Radius \in [DOMAIN Radius -> BOOLEAN] /\ Unauth \notin Subnet
  /\ Subnet \cap DOMAIN Radius = {} /\ "no_network_access" \notin Subnet \cup DOMAIN Radius

(* The device i at the port p: p is connected to the room of its host. *)
At(i, p) ==
  \E q \in Connected(db.host[db.interface[i].host].room) : db.patch_port[q].switch_port = p

OwnerOf(i)  == db.host[db.interface[i].host].owner
VlansOf(i)  == {n \in Subnet : AddressesOf(i) \cap Usable[n] # {}}

(* radusergroup: the groups of a device at a port, with their priorities.  *)
(* The group of a VLAN is the VLAN, and a subnet stands for its VLAN.      *)
AccessRows(i, p)  == {<<20, n>> : n \in IF MayUse(OwnerOf(i)) THEN VlansOf(i) ELSE {}}

CustomRows(i, p)  ==
  {<<IF Radius[x] THEN -10 ELSE 10, x>> : x \in {y \in DOMAIN Radius : Has(OwnerOf(i), y)}}

MutRefusalRows(i, p) ==    \* mutation: a denied property counts as well
  IF P!Listed(Grants, GroupsOf(OwnerOf(i)), "network_access") THEN {} ELSE {<<0, "no_network_access">>}

RefusalRows(i, p) == IF MayUse(OwnerOf(i)) THEN {} ELSE {<<0, "no_network_access">>}

radusergroup(i, p) ==
  IF At(i, p) THEN AccessRows(i, p) \cup CustomRows(i, p) \cup RefusalRows(i, p) ELSE {}

(* radcheck: whom RADIUS knows at a port; the others are "unknown". *)
radcheck(i, p) == At(i, p)

(* radgroupreply: the VLANs of a group, and whether the next one is asked; *)
(* radgroupreply_base is taken to say so of the groups that do not block.  *)
Custom             == {x \in DOMAIN Radius : ~ Radius[x]}
Vlans(group)       == IF group \in Subnet THEN {group}
                      ELSE IF group \in Custom THEN {} ELSE {Unauth}
FallThrough(group) == group \in Subnet \cup Custom
Replaces(group)    == Vlans(group) = {Unauth}      \* ":=", not "+="

(* The answer: the groups in the order of their priorities, until one does *)
(* not fall through.                                                       *)
Answer(i, p) ==
  LET rows_    == radusergroup(i, p)
      read     == {r \in rows_ : \A o \in rows_ : o[1] < r[1] => FallThrough(o[2])}
      replaced == \E r \in read : Replaces(r[2])
  IN  IF replaced THEN {Unauth} ELSE UNION {Vlans(r[2]) : r \in read}

(* dhcphost: the addresses of a device, wherever it is plugged in *)
dhcphost(i) == IF MayUse(OwnerOf(i)) THEN AddressesOf(i) ELSE {}

(* alternative_dns: what it says of cache_access being denied is said of   *)
(* network_access, so a denied cache_access counts.                        *)
alternative_dns(i) ==
  IF MayUse(OwnerOf(i)) /\ P!Listed(Grants, GroupsOf(OwnerOf(i)), "cache_access")
  THEN AddressesOf(i) ELSE {}

----------------------------------------------------------------------------
Devices == DOMAIN db.interface
Ports   == DOMAIN db.switch_port

Blocked(u) == \E x \in DOMAIN Radius : Radius[x] /\ Has(u, x)

(* RADIUS: whoever is not granted network access, or has a property that   *)
(* blocks, gets "2hades-unauth" at every port of the rooms of their        *)
(* devices, and nobody else does.                                          *)
BlockedAreCutOff ==
  \A i \in Devices, p \in Ports :
    At(i, p) => (~ MayUse(OwnerOf(i)) \/ Blocked(OwnerOf(i)) <=> Answer(i, p) = {Unauth})

(* RADIUS and DHCP, wherever a device is plugged into a port of its room:  *)
(* it is let only into VLANs in which it is given an address, and into all *)
(* of these unless a property blocks its owner.  DHCP does not ask for     *)
(* such properties: a device of such an owner is given its address.        *)
ServedByBoth ==
  \A i \in Devices, p \in Ports :
    At(i, p) =>
      LET into == Answer(i, p) \cap Subnet
          at   == {n \in Subnet : dhcphost(i) \cap Usable[n] # {}}
      IN  into = at \/ (into = {} /\ Blocked(OwnerOf(i)))

(* Whatever requests overlap, rows are of the right kind, keys lead        *)
(* somewhere and unique columns are unique; and RADIUS and DHCP, reading   *)
(* these rows each in its own way, agree on whom they serve, but for those *)
(* whom only a property blocks.                                            *)
NetworkInv == TypeOK /\ BlockedAreCutOff /\ ServedByBoth

(* RADIUS leads all devices of a user away; DHCP has no address for them.  *)
LedAway(u)  == \A i \in DevicesOf(u), p \in Ports : At(i, p) => Answer(i, p) = {Unauth}
Unserved(u) == \A i \in DevicesOf(u) : dhcphost(i) = {} /\ alternative_dns(i) = {}

Denies(g) == "network_access" \in DOMAIN Grants[g] /\ Grants[g]["network_access"] = FALSE

(* Groups whose members are barred, unless moving ends their memberships   *)
Barring == Config.barred \ (Config.former \cup Config.left)

(* Somebody unblocks this user.                                            *)
Unblocks(u) ==
  \E s \in Session : /\ request[s] # None /\ request'[s] = None
                     /\ request[s].op = "unblock" /\ UserKey(u) \in request[s].seen

(* No request ends: time goes by.                                          *)
NobodyCommits ==
  \A s \in Session :
    request[s] # None => request'[s] \in {request[s], [request[s] EXCEPT !.fresh = FALSE]}

(* A block (lib.user.block) lasts until somebody unblocks this very user   *)
(* or, if it has an end, until then: no request on rooms, hosts, devices   *)
(* or other users lifts it, whatever it had read before the block came.    *)
(* As long as it lasts, RADIUS leads every device away that the user has   *)
(* or is given, by moving, annexing, transferring or activating, at every  *)
(* port; and if the group denies network access, DHCP has no address for   *)
(* any of them, whatever other groups grant.                               *)
BlocksHold ==
  [][\A u \in User, g \in Barring : <<u, g>> \in DOMAIN db.membership =>
       \/ /\ <<u, g>> \in DOMAIN db'.membership
          /\ Denies(g) \/ Blocked(u)' => LedAway(u)'
          /\ Denies(g) => Unserved(u)'
       \/ Unblocks(u)
       \/ db.membership[<<u, g>>].ends /\ NobodyCommits]_rows
=============================================================================
