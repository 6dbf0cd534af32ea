------------------------------ MODULE Network ------------------------------
(***************************************************************************)
(* Rooms, the patch panel, the hosts of users with their interfaces and    *)
(* addresses, and MPSK clients (lib/host, lib/net, lib/infrastructure,     *)
(* lib/mpsk_client, the host part of lib/user/lifecycle and the pages and  *)
(* API calls on top of them).                                              *)
(*                                                                         *)
(* A request reads what is committed, decides what it will write, and      *)
(* commits later (READ COMMITTED); the constraints of the database and the *)
(* ORM's count of updated rows are all that can stop it then.              *)
(*                                                                         *)
(* Which addresses a host may have depends on where it is: the subnets of  *)
(* a room are those of the switch ports that its patch ports lead to.      *)
(***************************************************************************)
EXTENDS Rows, Sequences, SequencesExt

CONSTANTS
  Room, User, Mac, PortName,
  Root,            \* the user 0, who owns the switches
  Subnet,
  Usable,          \* subnet -> addresses that are not reserved, as integers
  Grants,          \* property group -> property -> granted or denied
  Config,          \* the groups that the configuration names
  FirstDbs,        \* databases at the beginning
  MaxMpsks         \* MAX_MPSKS

(* Config: move_in ends .former and begins .begun, move_out ends .left,    *)
(* block begins .violation or .blocked, unblock ends all of .barred.       *)

(* The tables and their columns.  The id of a membership is user and group, *)
(* and only those are kept that are active now; the id of an ip is its     *)
(* address; a switch is also a host.                                       *)
Columns ==
  [user |-> {"room"}, membership |-> {"ends"}, host |-> {"owner", "room"}, switch |-> {"host"},
   interface |-> {"host", "mac"}, ip |-> {"interface"}, mpsk |-> {"owner", "mac"},
   switch_port |-> {"switch", "subnets"},
   patch_port |-> {"name", "room", "switch_room", "switch_port"}]

Table == {"user", "membership", "host", "switch", "interface", "ip", "mpsk", "switch_port", "patch_port"}

(* The values of a column: everybody but a user is somewhere.              *)
IsValue(t, column, v) ==
  /\ column = "subnets" => v \in Seq(Subnet)
  /\ column \in {"room", "switch_room"} => v \in IF t = "user" THEN Room \cup {None} ELSE Room

IsRow(t, x) == DOMAIN x = Columns[t] /\ \A column \in DOMAIN x : IsValue(t, column, x[column])

Address == UNION {Usable[n] : n \in Subnet}

ASSUME NetworkAssumption ==
  /\ Usable \in [Subnet -> SUBSET Int]
  /\ \A m, n \in Subnet : m # n => Usable[m] \cap Usable[n] = {}
  /\ DOMAIN Ids = Table /\ \A t \in Table : IsFiniteSet(Ids[t])
  /\ Ids["user"] = User \cup {Root} /\ Ids["ip"] = Address /\ Ids["switch"] = Ids["host"]
  /\ Ids["membership"] = Ids["user"] \X DOMAIN Grants
  /\ Config.former \cup Config.begun \cup Config.left \cup Config.barred \cup
       {Config.violation, Config.blocked} \subseteq DOMAIN Grants
  /\ None \notin Room \cup Mac \cup Session
  /\ {MaxMpsks, MaxRequests} \subseteq Nat

----------------------------------------------------------------------------
(* What the queries find. *)

GroupsOf(u)        == {g \in DOMAIN Grants : <<u, g>> \in DOMAIN db.membership}
HostsOf(u)         == {h \in DOMAIN db.host : db.host[h].owner = u}
InterfacesOf(h)    == {i \in DOMAIN db.interface : db.interface[i].host = h}
AddressesOf(i)     == {a \in DOMAIN db.ip : db.ip[a].interface = i}
MpsksOf(u)         == {c \in DOMAIN db.mpsk : db.mpsk[c].owner = u}
PortsOf(w)         == {p \in DOMAIN db.switch_port : db.switch_port[p].switch = w}
PatchesOf(x)       == {q \in DOMAIN db.patch_port : db.patch_port[q].switch_room = x}
IsSwitchRoom(x)    == \E w \in DOMAIN db.switch : db.host[w].room = x
Connected(x)       == {q \in DOMAIN db.patch_port :
                         db.patch_port[q].room = x /\ db.patch_port[q].switch_port # None}

P == INSTANCE Properties

(* has_property, current_properties without what is denied *)
Has(u, property) == P!Granted(Grants, GroupsOf(u), property)

MayUse(u) == Has(u, "network_access")

(* get_subnets_for_room: no order is asked for, and a subnet that two      *)
(* ports offer is listed twice.                                            *)
SubnetLists(x) ==
  LET offered(q) == db.switch_port[db.patch_port[q].switch_port].subnets
  IN  {FlattenSeq([n \in DOMAIN qs |-> offered(qs[n])]) : qs \in SetToSeqs(Connected(x))}

SubnetsOf(x) ==
  UNION {ToSet(db.switch_port[db.patch_port[q].switch_port].subnets) : q \in Connected(x)}

Unused(n) == Usable[n] \ DOMAIN db.ip

(* The first k addresses that get_free_ip finds, one after the other; less *)
(* than k of them if the subnets are full (SubnetFullException).           *)
FirstFree(list, k) ==
  LET place(n)     == CHOOSE j \in DOMAIN list : list[j] = n /\ \A l \in 1 .. j - 1 : list[l] # n
      home(a)      == CHOOSE n \in ToSet(list) : a \in Usable[n]
      before(a, b) == \/ place(home(a)) < place(home(b))
                      \/ home(a) = home(b) /\ a < b
      free         == UNION {Unused(n) : n \in ToSet(list)}
  IN  {a \in free : Cardinality({b \in free : before(b, a)}) < k}

----------------------------------------------------------------------------
(* Writing. *)

(* The foreign keys: ON DELETE CASCADE, and SET NULL for patch ports. *)
Gone(r) ==
  LET hosts      == r.drop.host
      interfaces == r.drop.interface \cup UNION {InterfacesOf(h) : h \in hosts}
  IN  [t \in Table |->
         CASE t = "interface"   -> interfaces
           [] t = "ip"          -> r.drop.ip \cup UNION {AddressesOf(i) : i \in interfaces}
           [] t = "switch_port" -> r.drop.switch_port \cup UNION {PortsOf(w) : w \in r.drop.switch}
           [] OTHER             -> r.drop[t]]

Written(r) ==
  LET gone == Gone(r)
      cut(x) == IF x.switch_port \in gone.switch_port THEN [x EXCEPT !.switch_port = None] ELSE x
  IN  [t \in Table |->
         LET left == WrittenRows(r, t, gone[t])
         IN  IF t # "patch_port" THEN left ELSE [q \in DOMAIN left |-> cut(left[q])]]

References(d) ==
  /\ \A m \in DOMAIN d.membership : m[1] \in DOMAIN d.user
  /\ \A h \in DOMAIN d.host : d.host[h].owner \in DOMAIN d.user
  /\ \A w \in DOMAIN d.switch : w \in DOMAIN d.host
  /\ \A i \in DOMAIN d.interface : d.interface[i].host \in DOMAIN d.host
  /\ \A a \in DOMAIN d.ip : d.ip[a].interface \in DOMAIN d.interface
  /\ \A c \in DOMAIN d.mpsk : d.mpsk[c].owner \in DOMAIN d.user
  /\ \A p \in DOMAIN d.switch_port : d.switch_port[p].switch \in DOMAIN d.switch
  /\ \A q \in DOMAIN d.patch_port :
       d.patch_port[q].switch_port \in DOMAIN d.switch_port \cup {None}

Uniques(d) ==
  /\ UniqueIn(d.interface, "mac") /\ UniqueIn(d.mpsk, "mac")
  /\ UniqueIn(d.patch_port, "switch_port")

(* Rows of the right kind *)
WellTyped(d) ==
  /\ DOMAIN d = Table
  /\ \A t \in Table : DOMAIN d[t] \subseteq Ids[t] /\ \A id \in DOMAIN d[t] : IsRow(t, d[t][id])

ASSUME FirstAssumption == \A d \in FirstDbs : WellTyped(d) /\ References(d) /\ Uniques(d)

InSwitchRoom(d, q) ==
  LET p == d.patch_port[q].switch_port
  IN  p # None => d.host[d.switch_port[p].switch].room = d.patch_port[q].switch_room

MutTrigger(d, r) == TRUE    \* mutation: the trigger is forgotten

(* patch_port_switch_in_switch_room, of the patch ports that are written *)
Trigger(d, r) ==
  \A q \in DOMAIN r.new.patch_port \cup DOMAIN r.set.patch_port : InSwitchRoom(d, q)

Accepted(r) ==
  LET d == Written(r)
  IN  UpdatesFindRows(r) /\ InsertsAreNew(r) /\ References(d) /\ Uniques(d) /\ Trigger(d, r)

(* What can be seen through a key: a user with hosts and clients, a host   *)
(* with its interfaces and addresses, the subnets of a room, a switch room *)
(* with its panel, a port.                                                 *)
Keys == ({"user"} \X Ids["user"]) \cup ({"host"} \X Ids["host"]) \cup ({"room", "panel"} \X Room)

Image(k) ==
  LET id == k[2] IN
  CASE k[1] = "user"  -> <<db.user[id], GroupsOf(id), HostsOf(id), MpsksOf(id)>>
    [] k[1] = "host"  -> IF id \notin DOMAIN db.host THEN << >> ELSE
         <<db.host[id], InterfacesOf(id), {<<i, AddressesOf(i)>> : i \in InterfacesOf(id)}>>
    [] k[1] = "room"  -> {<<q, db.switch_port[db.patch_port[q].switch_port].subnets>> : q \in Connected(id)}
    [] k[1] = "panel" -> <<{<<q, db.patch_port[q]>> : q \in PatchesOf(id)},
                           {w \in DOMAIN db.switch : db.host[w].room = id}>>
----------------------------------------------------------------------------
(* Requests. *)

UserKey(u) == <<"user", u>>
HostKey(h) == <<"host", h>>
RoomKey(x) == <<"room", x>>
PanelKey(x) == <<"panel", x>>

Moved(r, H, x) == UpdateAll(r, "host", H, [room |-> x])

Readdressed(r, olds, news) ==
  {[r EXCEPT !.drop["ip"] = @ \cup olds,
             !.new["ip"] = Over([a \in news |-> [interface |-> db.ip[f[a]].interface]], @)] :
     f \in {g \in [news -> olds] : \A a, b \in news : a # b => g[a] # g[b]}}

OldAddresses(H) == UNION {AddressesOf(i) : i \in UNION {InterfacesOf(h) : h \in H}}

MutMigrated(r, H, x) ==    \* mutation: the old subnets are asked for after the move
  {Moved(r, H, x)}

(* migrate_host, of the hosts H that are in one room: they get new         *)
(* addresses where the lists of subnets differ, if only in their order.    *)
(* None of them if the subnets are full.                                   *)
Migrated(r, H, x) ==
  LET old == OldAddresses(H)
      Addressed(from, to) ==
        IF from = to \/ \A h \in H : db.host[h].room = x THEN {Moved(r, H, x)}
        ELSE LET news == FirstFree(to, Cardinality(old))
             IN  IF Cardinality(news) < Cardinality(old) THEN {}
                 ELSE Readdressed(Moved(r, H, x), old, news)
  IN  UNION {UNION {Addressed(from, to) : from \in SubnetLists(db.host[h].room), to \in SubnetLists(x)} :
               h \in H}

(* move: the user's hosts that are in the old room go along. *)
Move(s, u, x) ==
  LET from == db.user[u].room
      H    == {h \in HostsOf(u) : db.host[h].room = from}
      r    == Update(Nothing, "user", u, [room |-> x])
  IN
  /\ from # None /\ from # x
  /\ \E w \in IF H = {} THEN {r} ELSE Migrated(r, H, x) :
       Decide(s, "move", {UserKey(u), RoomKey(from), RoomKey(x)} \cup {HostKey(h) : h \in H}, w)

(* get_conflicting_interface, UniqueMac *)
MacFree(mac, i) == \A j \in DOMAIN db.interface \ {i} : db.interface[j].mac # mac

(* lib: host_create, host_delete *)
WithHost(r, h, u, x) == Insert(r, "host", h, [owner |-> u, room |-> x])
WithoutHost(h)       == Delete(Nothing, "host", {h})

(* lib: interface_create *)
WithInterface(r, h, i, mac) == Insert(r, "interface", i, [host |-> h, mac |-> mac])
WithAddresses(r, i, A)      == InsertAll(r, "ip", [a \in A |-> [interface |-> i]])

(* A new interface of h, which is in room x, with the first free address *)
Addressed(r, h, x, mac) ==
  LET i == NewId("interface") IN
  {WithAddresses(WithInterface(r, h, i, mac), i, A) :
     A \in {FirstFree(list, 1) : list \in SubnetLists(x)} \ {{}}}

(* make_member_of, remove_member_of, from now on *)
MutParted(r, u, G) ==    \* mutation: of whatever group
  Delete(r, "membership", {u} \X GroupsOf(u))

Joined(r, u, G, ends) == InsertAll(r, "membership", [m \in {u} \X G |-> [ends |-> ends]])
Parted(r, u, G)       == Delete(r, "membership", {u} \X (G \cap GroupsOf(u)))

(* lib.user.block and unblock *)
Suspended(u, violation, ends) ==
  Joined(Nothing, u, {IF violation THEN Config.violation ELSE Config.blocked}, ends)

Resumed(u) == Parted(Nothing, u, Config.barred)

(* The page: for a time, or until further notice; fails if it overlaps     *)
Block(s, u, violation, ends) ==
  Decide(s, "block", {UserKey(u)}, Suspended(u, violation, ends))

Unblock(s, u) == Decide(s, "unblock", {UserKey(u)}, Resumed(u))

(* What move_in writes before it comes to the device *)
Housed(u, x, begin_membership) ==
  LET r == Update(Nothing, "user", u, [room |-> x])
  IN  IF begin_membership
      THEN Joined(Parted(r, u, Config.former), u, Config.begun \ GroupsOf(u), FALSE)
      ELSE r

(* move_in without a device *)
MoveIn(s, u, x, begin_membership) ==
  /\ db.user[u].room = None
  /\ Decide(s, "move_in", {UserKey(u)}, Housed(u, x, begin_membership))

(* move_in with a MAC that nobody has: setup_ipv4_networking *)
MoveInWithDevice(s, u, x, begin_membership, mac) ==
  /\ db.user[u].room = None
  /\ MacFree(mac, None)
  /\ NewIds("host") # {} /\ NewIds("interface") # {}
  /\ LET h == NewId("host")
         r == WithHost(Housed(u, x, begin_membership), h, u, x)
     IN  \E w \in Addressed(r, h, x, mac) : Decide(s, "move_in", {UserKey(u), RoomKey(x)}, w)

(* move_in with host_annex: the device of another user *)
MoveInAnnexing(s, u, x, begin_membership, i) ==
  LET h == db.interface[i].host
      r == Update(Housed(u, x, begin_membership), "host", h, [owner |-> u])
  IN
  /\ db.user[u].room = None
  /\ \E w \in Migrated(r, {h}, x) :
       Decide(s, "move_in", {UserKey(u), HostKey(h), RoomKey(db.host[h].room), RoomKey(x)}, w)

(* move_out: switches stay *)
MoveOut(s, u, end_membership) ==
  LET H == {h \in HostsOf(u) : /\ h \notin DOMAIN db.switch
                               /\ db.host[h].room = db.user[u].room \/ end_membership}
      r == Delete(Nothing, "host", H)
      o == IF db.user[u].room = None THEN r ELSE Update(r, "user", u, [room |-> None])
  IN  Decide(s, "move_out", {UserKey(u)} \cup {HostKey(h) : h \in H},
             IF end_membership THEN Parted(o, u, Config.left) ELSE o)

(* host_create *)
HostCreate(s, u, x) ==
  /\ NewIds("host") # {}
  /\ Decide(s, "host_create", {UserKey(u), RoomKey(x)},
            WithHost(Nothing, NewId("host"), u, x))

(* lib: host_edit, transferred, moved, or both *)
EditedHost(h, u, x) ==
  LET r == Update(Nothing, "host", h, [owner |-> u])
  IN  IF db.host[h].room = x THEN {r} ELSE Migrated(r, {h}, x)

(* host_edit *)
HostEdit(s, h, u, x) ==
  \E w \in EditedHost(h, u, x) :
    Decide(s, "host_edit", {UserKey(u), HostKey(h), RoomKey(db.host[h].room), RoomKey(x)}, w)

(* host_delete *)
HostDelete(s, h) ==
  Decide(s, "host_delete", {HostKey(h)}, WithoutHost(h))

(* interface_create in the form, which offers the unused addresses of the  *)
(* room and refuses a MAC in use                                           *)
InterfaceCreate(s, h, mac, A) ==
  LET x == db.host[h].room
      i == NewId("interface")
  IN
  /\ NewIds("interface") # {}
  /\ A \subseteq UNION {Unused(n) : n \in SubnetsOf(x)}
  /\ MacFree(mac, None)
  /\ Decide(s, "interface_create", {HostKey(h), RoomKey(x)},
            WithAddresses(WithInterface(Nothing, h, i, mac), i, A))

(* lib: interface_edit; addresses that are not chosen any more are deleted, *)
(* new ones only added if a subnet of the room has them                     *)
EditedInterface(i, mac, A) ==
  LET old == AddressesOf(i)
      in  == UNION {Usable[n] : n \in SubnetsOf(db.host[db.interface[i].host].room)}
  IN  WithAddresses(Delete(Update(Nothing, "interface", i, [mac |-> mac]), "ip", old \ A),
                    i, (A \ old) \cap in)

(* interface_edit *)
InterfaceEdit(s, i, mac, A) ==
  LET h   == db.interface[i].host
      x   == db.host[h].room
      old == AddressesOf(i)
  IN
  /\ A \subseteq old \cup UNION {Unused(n) : n \in SubnetsOf(x)}
  /\ MacFree(mac, i)
  /\ Decide(s, "interface_edit", {HostKey(h), RoomKey(x)}, EditedInterface(i, mac, A))

(* lib: change_mac, interface_delete *)
WithMac(i, mac)     == Update(Nothing, "interface", i, [mac |-> mac])
WithoutInterface(i) == Delete(Nothing, "interface", {i})

(* UserInterfaceResource: only the constraint knows whose MAC it is *)
ChangeMac(s, i, mac) ==
  Decide(s, "change_mac", {HostKey(db.interface[i].host)}, WithMac(i, mac))

(* interface_delete *)
InterfaceDelete(s, i) ==
  Decide(s, "interface_delete", {HostKey(db.interface[i].host)}, WithoutInterface(i))

(* ActivateNetworkAccessResource: for a user with network access, no        *)
(* interface and at most one host, which is moved to the user's room or     *)
(* made there.                                                             *)
Activate(s, u, mac) ==
  LET x    == db.user[u].room
      seen == {UserKey(u), RoomKey(x)} \cup {HostKey(h) : h \in HostsOf(u)}
  IN
  /\ x # None /\ MayUse(u)
  /\ \A h \in HostsOf(u) : InterfacesOf(h) = {}
  /\ NewIds("interface") # {}
  /\ \/ /\ HostsOf(u) = {} /\ NewIds("host") # {}
        /\ LET h == NewId("host")
               r == WithHost(Nothing, h, u, x)
           IN  \E w \in Addressed(r, h, x, mac) : Decide(s, "activate", seen, w)
     \/ \E h \in HostsOf(u) :
          /\ HostsOf(u) = {h}
          /\ \E r \in EditedHost(h, u, x) :
               \E w \in Addressed(r, h, x, mac) :
                 Decide(s, "activate", seen \cup {RoomKey(db.host[h].room)}, w)

----------------------------------------------------------------------------
(* MPSK clients.  The limit is the API's: the form has none. *)

(* lib: mpsk_client_create, mpsk_edit, mpsk_delete *)
WithMpsk(u, mac)   == Insert(Nothing, "mpsk", NewId("mpsk"), [owner |-> u, mac |-> mac])
EditedMpsk(c, mac) == Update(Nothing, "mpsk", c, [mac |-> mac])
WithoutMpsk(c)     == Delete(Nothing, "mpsk", {c})

MutMpskAdd(s, u, mac) ==    \* mutation: off by one
  /\ Cardinality(MpsksOf(u)) <= MaxMpsks /\ MayUse(u)
  /\ NewIds("mpsk") # {}
  /\ Decide(s, "mpsk_add", {UserKey(u)}, WithMpsk(u, mac))

(* MPSKSClientAddResource, of a user who has a wifi password *)
MpskAdd(s, u, mac) ==
  /\ Cardinality(MpsksOf(u)) < MaxMpsks /\ MayUse(u)
  /\ NewIds("mpsk") # {}
  /\ Decide(s, "mpsk_add", {UserKey(u)}, WithMpsk(u, mac))

(* host_create of the blueprint mpskclient *)
MpskCreate(s, u, mac) ==
  /\ NewIds("mpsk") # {}
  /\ Decide(s, "mpsk_create", {UserKey(u)}, WithMpsk(u, mac))

(* mpsk_edit *)
MpskEdit(s, c, mac) ==
  Decide(s, "mpsk_edit", {UserKey(db.mpsk[c].owner)}, EditedMpsk(c, mac))

(* MPSKSClientChangeResource *)
MpskChange(s, c, mac) ==
  /\ MayUse(db.mpsk[c].owner)
  /\ Decide(s, "mpsk_edit", {UserKey(db.mpsk[c].owner)}, EditedMpsk(c, mac))

(* mpsk_delete *)
MpskDelete(s, c) ==
  Decide(s, "mpsk_delete", {UserKey(db.mpsk[c].owner)}, WithoutMpsk(c))

(* MPSKSClientDeleteResource *)
MpskRemove(s, c) ==
  Decide(s, "mpsk_delete", {UserKey(db.mpsk[c].owner)}, WithoutMpsk(c))

----------------------------------------------------------------------------
(* The patch panel. *)

NameTaken(name, x) == \E q \in PatchesOf(x) : db.patch_port[q].name = name

(* lib: create_patch_port, edit_patch_port, delete_patch_port *)
NewPatchPort(name, x, switch_room) ==
  Insert(Nothing, "patch_port", NewId("patch_port"),
         [name |-> name, room |-> x, switch_room |-> switch_room, switch_port |-> None])
EditedPatchPort(q, name, x) == Update(Nothing, "patch_port", q, [name |-> name, room |-> x])
WithoutPatchPort(q)         == Delete(Nothing, "patch_port", {q})

(* patch_port_create *)
PatchPortCreate(s, name, x, switch_room) ==
  /\ IsSwitchRoom(switch_room) /\ ~ NameTaken(name, switch_room)
  /\ NewIds("patch_port") # {}
  /\ Decide(s, "patch_port_create", {PanelKey(switch_room)}, NewPatchPort(name, x, switch_room))

(* patch_port_edit *)
PatchPortEdit(s, q, name, x) ==
  LET old == db.patch_port[q] IN
  /\ IsSwitchRoom(old.switch_room)
  /\ name # old.name => ~ NameTaken(name, old.switch_room)
  /\ Decide(s, "patch_port_edit", {PanelKey(old.switch_room)},
            EditedPatchPort(q, name, x))

(* patch_port_delete *)
PatchPortDelete(s, q) ==
  /\ IsSwitchRoom(db.patch_port[q].switch_room)
  /\ Decide(s, "patch_port_delete", {PanelKey(db.patch_port[q].switch_room)},
            WithoutPatchPort(q))

(* patch_switch_port_to_patch_port; q is None or one that the form offers *)
Patched(r, p, q) ==
  IF q = None THEN r ELSE Update(r, "patch_port", q, [switch_port |-> p])

MayPatch(q, switch_room) ==
  q # None => db.patch_port[q].switch_room = switch_room /\ db.patch_port[q].switch_port = None

(* lib: remove_patch_to_patch_port, create_, edit_ and delete_switch_port,  *)
(* create_, edit_ and delete_switch                                         *)
Unpatched(r, Q)  == UpdateAll(r, "patch_port", Q, [switch_port |-> None])
NewPort(p, w, subnets) == Insert(Nothing, "switch_port", p, [switch |-> w, subnets |-> subnets])
EditedPort(p, subnets) == Update(Nothing, "switch_port", p, [subnets |-> subnets])
WithoutPort(p)   == Delete(Nothing, "switch_port", {p})
NewSwitch(w, x)  == Insert(WithHost(Nothing, w, Root, x), "switch", w, [host |-> w])
EditedSwitch(w, x) == Update(Nothing, "host", w, [room |-> x])
WithoutSwitch(w) == Delete(Delete(Nothing, "switch", {w}), "host", {w})

(* switch_port_create: rolled back if q is patched already *)
SwitchPortCreate(s, w, subnets, q) ==
  LET x == db.host[w].room IN
  /\ NewIds("switch_port") # {}
  /\ MayPatch(q, x)
  /\ LET p == NewId("switch_port")
     IN  Decide(s, "switch_port_create", {PanelKey(x)}, Patched(NewPort(p, w, subnets), p, q))

(* switch_port_edit: the old patch is removed, the new one made *)
SwitchPortEdit(s, p, subnets, q) ==
  LET x   == db.host[db.switch_port[p].switch].room
      old == {o \in DOMAIN db.patch_port : db.patch_port[o].switch_port = p}
      r   == EditedPort(p, subnets)
  IN
  \/ /\ IF old = {} THEN q = None ELSE q \in old \cap PatchesOf(x)
     /\ Decide(s, "switch_port_edit", {PanelKey(x)}, r)
  \/ /\ q \notin old /\ (q = None => old # {})
     /\ MayPatch(q, x)
     /\ Decide(s, "switch_port_edit", {PanelKey(x)}, Patched(Unpatched(r, old), p, q))

(* switch_port_delete *)
SwitchPortDelete(s, p) ==
  Decide(s, "switch_port_delete", {PanelKey(db.host[db.switch_port[p].switch].room)},
         WithoutPort(p))

(* switch_create: a host of the user 0 *)
SwitchCreate(s, x) ==
  /\ NewIds("host") # {}
  /\ LET w == NewId("host")
     IN  Decide(s, "switch_create", {PanelKey(x)}, NewSwitch(w, x))

(* edit_switch: the switch is carried to another room, its ports patched *)
SwitchEdit(s, w, x) ==
  Decide(s, "switch_edit", {PanelKey(x), PanelKey(db.host[w].room)}, EditedSwitch(w, x))

(* delete_switch, with its host *)
SwitchDelete(s, w) ==
  Decide(s, "switch_delete", {PanelKey(db.host[w].room)}, WithoutSwitch(w))

----------------------------------------------------------------------------
(* What a session may begin.  Who may is decided elsewhere: for everything *)
(* here there is somebody who may.                                         *)

(* The users that there are, without the one who owns the switches *)
Users == User \cap DOMAIN db.user

Hosting(s) ==
  \/ \E u \in Users, x \in Room :
       \/ Move(s, u, x) \/ HostCreate(s, u, x)
       \/ \E begin_membership \in BOOLEAN :
            \/ MoveIn(s, u, x, begin_membership)
            \/ \E mac \in Mac : MoveInWithDevice(s, u, x, begin_membership, mac)
            \/ \E i \in DOMAIN db.interface : MoveInAnnexing(s, u, x, begin_membership, i)
  \/ \E u \in Users : \/ Unblock(s, u)
                      \/ \E violation, ends \in BOOLEAN : Block(s, u, violation, ends)
                      \/ \E end_membership \in BOOLEAN : MoveOut(s, u, end_membership)
                      \/ \E mac \in Mac : Activate(s, u, mac)
  \/ \E h \in DOMAIN db.host :
       \/ HostDelete(s, h)
       \/ \E u \in Users \cup {db.host[h].owner}, x \in Room : HostEdit(s, h, u, x)

Interfacing(s) ==
  \/ \E h \in DOMAIN db.host, mac \in Mac, A \in SUBSET Address : InterfaceCreate(s, h, mac, A)
  \/ \E i \in DOMAIN db.interface :
       \/ InterfaceDelete(s, i)
       \/ \E mac \in Mac : \/ ChangeMac(s, i, mac)
                           \/ \E A \in SUBSET Address : InterfaceEdit(s, i, mac, A)

Mpsk(s) ==
  \/ \E u \in Users, mac \in Mac : MpskAdd(s, u, mac) \/ MpskCreate(s, u, mac)
  \/ \E c \in DOMAIN db.mpsk : \/ MpskDelete(s, c) \/ MpskRemove(s, c)
                            \/ \E mac \in Mac : MpskEdit(s, c, mac) \/ MpskChange(s, c, mac)

Patching(s) ==
  \/ \E name \in PortName, x, y \in Room : PatchPortCreate(s, name, x, y)
  \/ \E q \in DOMAIN db.patch_port :
       PatchPortDelete(s, q) \/ \E name \in PortName, x \in Room : PatchPortEdit(s, q, name, x)

Switching(s) ==
  \/ \E x \in Room : SwitchCreate(s, x) \/ \E w \in DOMAIN db.switch : SwitchEdit(s, w, x)
  \/ \E w \in DOMAIN db.switch : SwitchDelete(s, w)
  \/ \E subnets \in {<< >>} \cup {<<n>> : n \in Subnet}, q \in DOMAIN db.patch_port \cup {None} :
       \/ \E w \in DOMAIN db.switch : SwitchPortCreate(s, w, subnets, q)
       \/ \E p \in DOMAIN db.switch_port : SwitchPortEdit(s, p, subnets, q)
  \/ \E p \in DOMAIN db.switch_port : SwitchPortDelete(s, p)

Begin(s) ==
  /\ request[s] = None
  /\ Hosting(s) \/ Interfacing(s) \/ Mpsk(s) \/ Patching(s) \/ Switching(s)

Commit(s) ==
  /\ request[s] # None /\ Accepted(request[s])
  /\ db' = Written(request[s])
  /\ request' = Overtaken(s, {k \in Keys : Image(k)' # Image(k)})
  /\ UNCHANGED <<given, requests>>

(* The end of a membership comes, with no request. *)
Expire(m) ==
  /\ db.membership[m].ends
  /\ db' = [db EXCEPT !.membership = [o \in DOMAIN @ \ {m} |-> @[o]]]
  /\ request' = Overtaken(None, {UserKey(m[1])})
  /\ UNCHANGED <<given, requests>>

Init ==
  /\ db \in FirstDbs /\ given = [t \in Table |-> DOMAIN db[t]]
  /\ request = [s \in Session |-> None] /\ requests = 0

Next ==
  \/ \E s \in Session : Begin(s) \/ Commit(s) \/ Abandon(s)
  \/ \E m \in DOMAIN db.membership : Expire(m)

Spec == Init /\ [][Next]_rows

----------------------------------------------------------------------------
(* Ids are unique, references lead somewhere and addresses are ones that   *)
(* the program may give away.                                              *)
TypeOK ==
  /\ requests \in 0 .. MaxRequests
  /\ WellTyped(db) /\ \A t \in Table : DOMAIN db[t] \subseteq given[t] /\ given[t] \subseteq Ids[t]
  /\ References(db) /\ Uniques(db)

Allowed(h) == UNION {Usable[n] : n \in SubnetsOf(db.host[h].room)}
Fits(h)    == OldAddresses({h}) \subseteq Allowed(h)

DevicesOf(u) == UNION {InterfacesOf(h) : h \in HostsOf(u)}

HostOps == {"move", "move_in", "host_create", "host_edit", "interface_create",
            "interface_edit", "activate"}

(* Moving a user, a host or a device, annexing and activating leave every  *)
(* host with addresses of the subnets of the room it is then in, if it had *)
(* such addresses before or is new (migrate_host, setup_ipv4_networking),  *)
(* as long as neither the host nor the rooms changed in between.           *)
HostsKeepFitting ==
  [][\A s \in Session : Fresh(HostOps, s) =>
       \A h \in DOMAIN db'.host : (h \in DOMAIN db.host => Fits(h)) => Fits(h)']_rows

(* A patch port that is patched to a switch in its switch room stays so,   *)
(* whatever commits in between, unless the switch itself is carried away:  *)
(* the trigger of the patch ports looks at nothing else.                   *)
PatchesStayInRoom ==
  [][\A q \in DOMAIN db.patch_port \cap DOMAIN db'.patch_port :
       InSwitchRoom(db, q) =>
         \/ InSwitchRoom(db', q)
         \/ \E w \in DOMAIN db.switch \cap DOMAIN db'.switch : db.host[w].room # db'.host[w].room]_rows

(* Names are unique in a switch room, and nobody takes a patch port that   *)
(* is in use, as long as nobody else works on the same panel.              *)
PanelsKeepOrder ==
  [][\A s \in Session : Fresh({"patch_port_create", "patch_port_edit", "switch_port_create",
                               "switch_port_edit"}, s) =>
       \A q \in DOMAIN db'.patch_port :
         LET new == db'.patch_port[q] IN
         /\ \/ q \in DOMAIN db.patch_port /\ db.patch_port[q].name = new.name
            \/ \A o \in DOMAIN db'.patch_port \ {q} :
                 <<db'.patch_port[o].switch_room, db'.patch_port[o].name>> # <<new.switch_room, new.name>>
         /\ q \in DOMAIN db.patch_port /\ db.patch_port[q].switch_port # None =>
              new.switch_port \in {db.patch_port[q].switch_port, None}]_rows

(* The API adds an MPSK client only below the limit, and activates network *)
(* access once, with one interface and one address, as long as nothing of  *)
(* the user changed in between.                                            *)
WithinLimits ==
  [][\A s \in Session :
       /\ Fresh({"mpsk_add"}, s) => \A u \in User :
            Cardinality(MpsksOf(u)') <= MaxMpsks \/ MpsksOf(u)' = MpsksOf(u)
       /\ Fresh({"activate"}, s) => \A u \in User :
            \/ DevicesOf(u)' = DevicesOf(u)
            \/ /\ Cardinality(HostsOf(u)') = 1 /\ Cardinality(DevicesOf(u)') = 1
               /\ Cardinality(OldAddresses(HostsOf(u))') = 1]_rows

(* Patches stay in their rooms, and panels in order. *)
PanelsHold == PatchesStayInRoom /\ PanelsKeepOrder
=============================================================================
