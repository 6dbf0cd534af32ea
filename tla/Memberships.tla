---------------------------- MODULE Memberships ----------------------------
(***************************************************************************)
(* The memberships of one user in one group (pycroft/lib/membership.py,    *)
(* pycroft/model/user.py) under the web requests that add, end, edit and   *)
(* delete them (web/blueprints/user).  A request reads the rows in one     *)
(* step (view) and writes and commits in a second one; the engine of the   *)
(* web server is READ COMMITTED, so that only the exclude constraint and   *)
(* an UPDATE that finds no row stop a request that decided on stale rows.  *)
(***************************************************************************)
EXTENDS IntervalSets

CONSTANTS
  Admin,      \* web sessions
  Grant,      \* intervals passed to make_member_of
  Edit,       \* intervals entered in the edit form
  MaxRows,    \* bound on the rows of the table
  None        \* no request, no view

ASSUME GrantAssumption == Grant \subseteq IntervalType /\ Edit \subseteq IntervalType
ASSUME MaxRowsAssumption == MaxRows \in Nat
ASSUME NoneAssumption == None \notin {"make", "remove", "edit", "delete"}

VARIABLES
  rows,      \* membership id -> tstzrange, for the rows there are
  clock,     \* the database clock
  pc,        \* session -> "idle" or in a "tx"
  op,        \* session -> its request
  view       \* session -> rows as it read them

memberVars == <<rows, clock, pc, op, view>>

RowId == 1 .. MaxRows

(* PostgreSQL keeps no position of an empty range: one value, that is no   *)
(* interval and contains no point.                                         *)
Empty == Ival(Bnd(PosInf, FALSE), Bnd(NegInf, FALSE))
DbRange == {i \in IntervalType : ~IsEmpty(i)} \cup {Empty}

(* TsTzRange.process_bind_param and process_result_value: the bounds of an *)
(* empty range are None, which from_explicit_data takes for infinite.      *)
Stored(i) == IF IsEmpty(i) THEN Empty ELSE i
Loaded(r) == IF r = Empty THEN Unbounded ELSE r

IsTable(t) == DOMAIN t \subseteq RowId /\ \A k \in DOMAIN t : t[k] \in DbRange

Request ==
       [kind: {"make"}, during: Grant]
  \cup [kind: {"remove"}, from: Instant]
  \cup [kind: {"edit"}, id: RowId, during: Edit]
  \cup [kind: {"delete"}, id: RowId]

MemberTypes ==
  /\ IsTable(rows)
  /\ clock \in Instant
  /\ pc \in [Admin -> {"idle", "tx"}]
  /\ op \in [Admin -> Request \cup {None}]
  /\ \A a \in Admin : pc[a] = "tx" => op[a] \in Request /\ IsTable(view[a])

MemberInit ==
  /\ rows = <<>>
  /\ clock = NegInf + 1
  /\ pc = [a \in Admin |-> "idle"]
  /\ op = [a \in Admin |-> None]
  /\ view = [a \in Admin |-> None]

----------------------------------------------------------------------------
(* When the user is a member, as the queries on active_during see it. *)
MemberAt(t) == UNION {PointsOf(t[k]) : k \in DOMAIN t}

(* User.active_memberships(when=during): the closures decide. *)
Selected(t, during) == {k \in DOMAIN t : Overlaps(during, Closure(Loaded(t[k])))}

Closures(t, during) == FromIntervals({Closure(Loaded(t[k])) : k \in Selected(t, during)})

MutMade(t, during) ==    \* mutation: the end of the granted interval is lost
  UnionOf(Closures(t, during), <<StartingFrom(during.lower.value)>>)

MutRemoved(t, during) == IntersectionOf(Closures(t, during), <<during>>)    \* mutation

Made(t, during)    == UnionOf(Closures(t, during), <<during>>)
Removed(t, during) == Difference(Closures(t, during), <<during>>)

(* Ids for n new rows.  The sequence never repeats one: they differ from   *)
(* the ids in the table and from those that a transaction has read.        *)
UsedIds == DOMAIN rows \cup UNION {DOMAIN view[a] : a \in {x \in Admin : pc[x] = "tx"}}
FreeIds == SetToSeq(RowId \ UsedIds)

MutFits(kept, new) == TRUE    \* mutation: no exclude constraint

(* The exclude constraint, for the rows that stay and the new ones. *)
Fits(kept, new) ==
  /\ \A k \in DOMAIN kept : PointsOf(kept[k]) \cap Covered(ToSet(new)) = {}
  /\ \A m, n \in DOMAIN new : m # n => PointsOf(new[m]) \cap PointsOf(new[n]) = {}

Replaced(t, old, new) ==
  LET kept == Restrict(t, DOMAIN t \ old)
      ids  == SubSeq(FreeIds, 1, Len(new))
      key(k) == CHOOSE n \in DOMAIN ids : ids[n] = k
  IN  [k \in DOMAIN kept \cup ToSet(ids) |->
         IF k \in DOMAIN kept THEN kept[k] ELSE Stored(new[key(k)])]

(* The rows old are deleted, which is no error for one that is gone, and   *)
(* the intervals new inserted.                                             *)
Replace(old, new) ==
  /\ Fits(Restrict(rows, DOMAIN rows \ old), new)
  /\ Len(new) <= Len(FreeIds)
  /\ rows' = Replaced(rows, old, new)

----------------------------------------------------------------------------
(* edit_membership: the membership is there. *)
MayEdit(id) == id \in DOMAIN rows

(* membership_delete: it is there and has not begun. *)
MayDelete(id) ==
  /\ id \in DOMAIN rows
  /\ LET begin == Loaded(rows[id]).lower.value IN begin # NegInf /\ clock < begin

BeginRequest(a, r) ==
  /\ pc[a] = "idle"
  /\ r.kind = "edit" => MayEdit(r.id)
  /\ r.kind = "delete" => MayDelete(r.id)
  /\ r.kind = "remove" => r.from <= clock
  /\ pc' = [pc EXCEPT ![a] = "tx"]
  /\ op' = [op EXCEPT ![a] = r]
  /\ view' = [view EXCEPT ![a] = rows]
  /\ UNCHANGED <<rows, clock>>

End(a, kind) ==
  /\ pc[a] = "tx" /\ op[a].kind \in kind
  /\ pc' = [pc EXCEPT ![a] = "idle"]
  /\ op' = [op EXCEPT ![a] = None]
  /\ view' = [view EXCEPT ![a] = None]
  /\ UNCHANGED clock

MakeMemberOf(a) ==
  /\ End(a, {"make"})
  /\ Replace(Selected(view[a], op[a].during), Made(view[a], op[a].during))

(* Every caller ends a membership from some moment on. *)
RemoveMemberOf(a) ==
  /\ End(a, {"remove"})
  /\ Replace(Selected(view[a], StartingFrom(op[a].from)),
             Removed(view[a], StartingFrom(op[a].from)))

(* An UPDATE by id: it overwrites what others made of the row, and fails   *)
(* when the row is gone.                                                   *)
ChangeActiveDuring(a) ==
  /\ End(a, {"edit"})
  /\ op[a].id \in DOMAIN rows
  /\ Fits(Restrict(rows, DOMAIN rows \ {op[a].id}), <<op[a].during>>)
  /\ rows' = [rows EXCEPT ![op[a].id] = Stored(op[a].during)]

DeleteMembership(a) ==
  /\ End(a, {"delete"})
  /\ rows' = Restrict(rows, DOMAIN rows \ {op[a].id})

(* The constraint, the database or the permission check refuses. *)
Abandon(a) ==
  /\ End(a, {"make", "remove", "edit", "delete"})
  /\ UNCHANGED rows

ClockTicks ==
  /\ clock + 1 \in Instant
  /\ clock' = clock + 1
  /\ UNCHANGED <<rows, pc, op, view>>

MemberNext ==
  \/ \E a \in Admin :
       \/ \E r \in Request : BeginRequest(a, r)
       \/ MakeMemberOf(a) \/ RemoveMemberOf(a)
       \/ ChangeActiveDuring(a) \/ DeleteMembership(a)
       \/ Abandon(a)
  \/ ClockTicks

MemberSpec == MemberInit /\ [][MemberNext]_memberVars
----------------------------------------------------------------------------
(* Properties. *)

Committed(a, kind) == pc[a] = "tx" /\ op[a].kind = kind /\ pc'[a] = "idle" /\ rows' # rows

(* Whatever others do, a committed make_member_of leaves the user a member *)
(* during the whole interval, although it has deleted rows that it read    *)
(* and may have missed others.                                             *)
MadeIsMember ==
  [][\A a \in Admin : Committed(a, "make") => PointsOf(op[a].during) \subseteq MemberAt(rows')]_memberVars

(* "... so that there will be at most one membership for particular user   *)
(* in particular group at any given point in time" (lib/membership.py:90), *)
(* also when two requests decide on the same rows.                         *)
AtMostOneMembership ==
  \A j, k \in DOMAIN rows : j # k => PointsOf(rows[j]) \cap PointsOf(rows[k]) = {}

(* A request is undisturbed when the table is still as it has read it.     *)
Undisturbed(a) == view[a] = rows

(* When the user is a member, as the program reads the table: an empty row *)
(* counts for all time.                                                    *)
TakenAt(t) == UNION {PointsOf(Loaded(t[k])) : k \in DOMAIN t}

(* An undisturbed remove_member_of ends all of what it was asked to end    *)
(* and leaves what came before as it has read it: a row that was edited to *)
(* the empty range becomes all of the past.  The very instant it ends at   *)
(* is left out: intersect resolves a tie of bounds by the order of its     *)
(* operands, so that a closure that ends there keeps its last point.       *)
RemovalIsExact ==
  [][\A a \in Admin : Committed(a, "remove") /\ Undisturbed(a) =>
       LET instant == {2 * op[a].from}
       IN  MemberAt(rows') \ instant =
             (TakenAt(rows) \ PointsOf(StartingFrom(op[a].from))) \ instant]_memberVars

(* In an undisturbed make_member_of a user gains what was granted, loses   *)
(* nothing and gains nothing else, but for what a row edited to the empty  *)
(* range counts for.  Left out are the instants at which memberships end:  *)
(* a closure takes its end in, and join resolves a tie of bounds by the    *)
(* order of its operands.                                                  *)
MakeGrantsOnly ==
  [][\A a \in Admin : Committed(a, "make") /\ Undisturbed(a) =>
       LET ends == {2 * rows[k].upper.value : k \in DOMAIN rows}
       IN  MemberAt(rows') \ ends = (TakenAt(rows) \cup PointsOf(op[a].during)) \ ends]_memberVars

(* The rows are of the right kind and never overlap. *)
MembershipInv == MemberTypes /\ AtMostOneMembership

(* A grant gives all that it was asked for, and, undisturbed, it changes   *)
(* nothing else.                                                           *)
GrantIsExact == MadeIsMember /\ MakeGrantsOnly

(* Nobody is a member for longer or shorter than was asked for, by grants  *)
(* that somebody may have overtaken or by removals that nobody has.        *)
RequestsAreExact == GrantIsExact /\ RemovalIsExact

(* Whatever intervals memberships consist of, the operations on them and   *)
(* on sets of them do with the points what they should (helpers/interval). *)
(* This does not depend on the state and is looked at once.                *)
IntervalsDenote == MemberInit => Denotations
=============================================================================
