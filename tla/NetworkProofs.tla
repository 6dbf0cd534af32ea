--------------------------- MODULE NetworkProofs ---------------------------
(***************************************************************************)
(* Proofs about Network and Hades, for any rooms, users, devices, subnets  *)
(* and requests: rows stay of the right kind, unique and without dangling  *)
(* references, what RADIUS and DHCP read of them agrees; the patch panel   *)
(* stays in order, the limits of the API hold, and hosts keep addresses of *)
(* the rooms they are in.                                                  *)
(***************************************************************************)
EXTENDS Hades, FiniteSetTheorems, SequenceTheorems, WellFoundedInduction, TLAPS

Shape(r) ==
  /\ r = [op |-> r.op, new |-> r.new, set |-> r.set, drop |-> r.drop, seen |-> r.seen, fresh |-> r.fresh]
  /\ r.fresh \in BOOLEAN

(* The columns that are ever updated *)
Changing ==
  [user |-> {"room"}, membership |-> {}, host |-> {"owner", "room"}, switch |-> {},
   interface |-> {"mac"}, ip |-> {}, mpsk |-> {"mac"}, switch_port |-> {"subnets"},
   patch_port |-> {"name", "room", "switch_port"}]

IsChange(t, x) ==
  DOMAIN x \subseteq Changing[t] /\ \A column \in DOMAIN x : IsValue(t, column, x[column])

(* What a request may be going to write: rows of the right kind under ids  *)
(* of the right kind.                                                      *)
Draft(r) ==
  /\ Shape(r)
  /\ DOMAIN r.new = Table /\ DOMAIN r.set = Table /\ DOMAIN r.drop = Table
  /\ \A t \in Table : DOMAIN r.new[t] \subseteq Ids[t]
  /\ \A t \in Table : \A id \in DOMAIN r.new[t] : IsRow(t, r.new[t][id])
  /\ \A t \in Table : \A id \in DOMAIN r.set[t] : IsChange(t, r.set[t][id])

(* Once the request has decided, its ids are given away. *)
Sound(r) == Draft(r) /\ \A t \in Table : DOMAIN r.new[t] \subseteq given[t]

PendingSound == \A s \in Session : request[s] # None => Sound(request[s])

IInv == TypeOK /\ DOMAIN request = Session /\ PendingSound

----------------------------------------------------------------------------
(* Decisions, put together. *)

LEMMA ShapeNew ==
  ASSUME NEW r, Shape(r), NEW v
  PROVE  LET q == [r EXCEPT !.new = v]
         IN  /\ Shape(q) /\ q.new = v /\ q.set = r.set /\ q.drop = r.drop
             /\ q.op = r.op /\ q.seen = r.seen /\ q.fresh = r.fresh
BY DEF Shape

LEMMA ShapeSet ==
  ASSUME NEW r, Shape(r), NEW v
  PROVE  LET q == [r EXCEPT !.set = v]
         IN  /\ Shape(q) /\ q.set = v /\ q.new = r.new /\ q.drop = r.drop
             /\ q.op = r.op /\ q.seen = r.seen /\ q.fresh = r.fresh
BY DEF Shape

LEMMA ShapeDrop ==
  ASSUME NEW r, Shape(r), NEW t \in DOMAIN r.drop, NEW S
  PROVE  LET q == [r EXCEPT !.drop[t] = @ \cup S]
         IN  /\ Shape(q) /\ q.new = r.new /\ q.set = r.set
             /\ q.drop = [r.drop EXCEPT ![t] = r.drop[t] \cup S]
             /\ q.op = r.op /\ q.seen = r.seen /\ q.fresh = r.fresh
BY DEF Shape

Decided(r, op, seen) == [r EXCEPT !.op = op, !.seen = seen]

LEMMA ShapeDecided ==
  ASSUME NEW r, Shape(r), NEW op, NEW seen
  PROVE  LET q == Decided(r, op, seen)
         IN  /\ Shape(q) /\ q.new = r.new /\ q.set = r.set /\ q.drop = r.drop
             /\ q.op = op /\ q.seen = seen /\ q.fresh = r.fresh
<1> DEFINE a == [r EXCEPT !.op = op]
           b == [a EXCEPT !.seen = seen]
<1>1. Shape(a) /\ a.new = r.new /\ a.set = r.set /\ a.drop = r.drop /\ a.op = op /\ a.fresh = r.fresh
  BY DEF Shape
<1>2. /\ Shape(b) /\ b.new = r.new /\ b.set = r.set /\ b.drop = r.drop
      /\ b.op = op /\ b.seen = seen /\ b.fresh = r.fresh
  <2> HIDE DEF a
  <2> QED
    BY <1>1 DEF Shape
<1>3. b = Decided(r, op, seen)
  BY DEF Decided
<1> HIDE DEF a, b
<1> QED
  BY <1>2, <1>3

LEMMA ShapeFresh ==
  ASSUME NEW r, Shape(r), NEW b \in BOOLEAN
  PROVE  LET q == [r EXCEPT !.fresh = b]
         IN  /\ Shape(q) /\ q.new = r.new /\ q.set = r.set /\ q.drop = r.drop
             /\ q.op = r.op /\ q.seen = r.seen /\ q.fresh = b
BY DEF Shape

LEMMA PutFacts ==
  ASSUME NEW f, NEW x, NEW v
  PROVE  /\ x \in DOMAIN f => DOMAIN Put(f, x, v) = DOMAIN f
         /\ Put(f, x, v)[x] = v
         /\ \A o \in DOMAIN f \ {x} : Put(f, x, v)[o] = f[o]
BY DEF Put

LEMMA OverFacts ==
  ASSUME NEW f, NEW g
  PROVE  /\ DOMAIN Over(f, g) = DOMAIN f \cup DOMAIN g
         /\ \A x \in DOMAIN f : Over(f, g)[x] = f[x]
         /\ \A x \in DOMAIN g \ DOMAIN f : Over(f, g)[x] = g[x]
BY DEF Over

LEMMA OverFirst ==
  ASSUME NEW f, NEW g, NEW x \in DOMAIN f
  PROVE  Over(f, g)[x] = f[x]
BY DEF Over

LEMMA NoRows == DOMAIN << >> = {}
OBVIOUS

LEMMA DraftNothing ==
  ASSUME WellTyped(db)
  PROVE  Draft(Nothing)
<1> DEFINE none  == [t \in DOMAIN db |-> << >>]
           empty == [t \in DOMAIN db |-> {}]
<1>1. Nothing = [op |-> "none", new |-> none, set |-> none, drop |-> empty, seen |-> {}, fresh |-> TRUE]
  BY DEF Nothing
<1>2. DOMAIN none = Table /\ DOMAIN empty = Table /\ \A t \in Table : DOMAIN none[t] = {}
  BY NoRows DEF WellTyped
<1> HIDE DEF none, empty
<1>3. Shape(Nothing) /\ Nothing.new = none /\ Nothing.set = none /\ Nothing.drop = empty
  BY <1>1 DEF Shape
<1> QED
  BY <1>2, <1>3 DEF Draft

LEMMA DraftInsertAll ==
  ASSUME NEW r, Draft(r), NEW t \in Table, NEW more, DOMAIN more \subseteq Ids[t],
         \A id \in DOMAIN more : IsRow(t, more[id])
  PROVE  Draft(InsertAll(r, t, more))
<1> DEFINE q == InsertAll(r, t, more)
           f == Over(more, r.new[t])
<1>1. q = [r EXCEPT !.new = Put(r.new, t, f)]
  BY DEF InsertAll
<1>2. /\ Shape(q) /\ q.new = Put(r.new, t, f) /\ q.set = r.set /\ q.drop = r.drop
  <2>1. Shape(r)
    BY DEF Draft
  <2> HIDE DEF f, q
  <2> QED
    BY <1>1, <2>1, ShapeNew
<1>3. DOMAIN f \subseteq Ids[t] /\ \A id \in DOMAIN f : IsRow(t, f[id])
  <2>1. DOMAIN r.new[t] \subseteq Ids[t] /\ \A id \in DOMAIN r.new[t] : IsRow(t, r.new[t][id])
    BY DEF Draft
  <2>2. /\ DOMAIN f = DOMAIN more \cup DOMAIN r.new[t]
        /\ \A x \in DOMAIN more : f[x] = more[x]
        /\ \A x \in DOMAIN r.new[t] \ DOMAIN more : f[x] = r.new[t][x]
    BY OverFacts
  <2> HIDE DEF f
  <2> QED
    BY <2>1, <2>2
<1>4. DOMAIN q.new = Table /\ q.new[t] = f /\ \A o \in Table \ {t} : q.new[o] = r.new[o]
  <2> HIDE DEF f, q
  <2>1. DOMAIN r.new = Table /\ t \in DOMAIN r.new
    BY DEF Draft
  <2>2. DOMAIN Put(r.new, t, f) = DOMAIN r.new
    BY <2>1, PutFacts
  <2>3. Put(r.new, t, f)[t] = f
    BY PutFacts
  <2>4. \A o \in DOMAIN r.new \ {t} : Put(r.new, t, f)[o] = r.new[o]
    BY PutFacts
  <2> QED
    BY <1>2, <2>1, <2>2, <2>3, <2>4
<1> HIDE DEF f, q
<1>5. \A o \in Table : DOMAIN q.new[o] \subseteq Ids[o] /\ \A id \in DOMAIN q.new[o] : IsRow(o, q.new[o][id])
  <2> TAKE o \in Table
  <2>1. CASE o = t
    BY <2>1, <1>3, <1>4
  <2>2. CASE o # t
    BY <2>2, <1>4 DEF Draft
  <2> QED
    BY <2>1, <2>2
<1>6. Draft(q)
  BY <1>2, <1>4, <1>5 DEF Draft
<1> QED
  BY <1>6 DEF q

LEMMA DraftInsert ==
  ASSUME NEW r, Draft(r), NEW t \in Table, NEW id \in Ids[t], NEW row, IsRow(t, row)
  PROVE  Draft(Insert(r, t, id, row))
<1> DEFINE one == [x \in {id} |-> row]
<1>1. DOMAIN one \subseteq Ids[t] /\ \A x \in DOMAIN one : IsRow(t, one[x])
  OBVIOUS
<1>2. Insert(r, t, id, row) = InsertAll(r, t, one)
  BY DEF Insert
<1> HIDE DEF one
<1> QED
  BY <1>1, <1>2, DraftInsertAll

LEMMA DraftDelete ==
  ASSUME NEW r, Draft(r), NEW t \in Table, NEW S
  PROVE  Draft(Delete(r, t, S))
<1> DEFINE q == Delete(r, t, S)
<1>1. /\ Shape(q) /\ q.new = r.new /\ q.set = r.set
      /\ q.drop = [r.drop EXCEPT ![t] = r.drop[t] \cup S]
  BY ShapeDrop DEF Draft, Delete
<1>2. DOMAIN q.drop = Table
  BY <1>1 DEF Draft
<1> HIDE DEF q
<1>3. Draft(q)
  BY <1>1, <1>2 DEF Draft
<1> QED
  BY <1>3 DEF q

(* The changes of one row *)
LEMMA ChangedRow ==
  ASSUME NEW t, NEW f, IsChange(t, f), NEW g, IsChange(t, g), NEW D \in SUBSET DOMAIN f
  PROVE  IsChange(t, Over([x \in D |-> f[x]], g))
<1> DEFINE part == [x \in D |-> f[x]]
<1>1. DOMAIN part = D /\ \A x \in D : part[x] = f[x]
  OBVIOUS
<1> HIDE DEF part
<1>2. /\ DOMAIN Over(part, g) = D \cup DOMAIN g
      /\ \A x \in D : Over(part, g)[x] = f[x]
      /\ \A x \in DOMAIN g \ D : Over(part, g)[x] = g[x]
  BY <1>1, OverFacts
<1>3. DOMAIN Over(part, g) \subseteq Changing[t]
  BY <1>2 DEF IsChange
<1>4. ASSUME NEW column \in DOMAIN Over(part, g)
      PROVE  IsValue(t, column, Over(part, g)[column])
  BY <1>2, <1>4 DEF IsChange
<1>5. IsChange(t, Over(part, g))
  BY <1>3, <1>4 DEF IsChange
<1> QED
  BY <1>5 DEF part

LEMMA DraftChange ==
  ASSUME NEW r, Draft(r), NEW t \in Table, NEW more, \A id \in DOMAIN more : IsChange(t, more[id])
  PROVE  Draft([r EXCEPT !.set = Put(r.set, t, Over(more, r.set[t]))])
<1> DEFINE f == Over(more, r.set[t])
           q == [r EXCEPT !.set = Put(r.set, t, f)]
<1>1. \A id \in DOMAIN f : IsChange(t, f[id])
  <2>1. \A id \in DOMAIN r.set[t] : IsChange(t, r.set[t][id])
    BY DEF Draft
  <2>2. /\ DOMAIN f = DOMAIN more \cup DOMAIN r.set[t]
        /\ \A x \in DOMAIN more : f[x] = more[x]
        /\ \A x \in DOMAIN r.set[t] \ DOMAIN more : f[x] = r.set[t][x]
    BY OverFacts
  <2> HIDE DEF f
  <2> QED
    BY <2>1, <2>2
<1>2. /\ Shape(q) /\ q.set = Put(r.set, t, f) /\ q.new = r.new /\ q.drop = r.drop
  <2>1. Shape(r)
    BY DEF Draft
  <2> HIDE DEF f
  <2> QED
    BY <2>1, ShapeSet
<1>3. DOMAIN q.set = Table /\ q.set[t] = f /\ \A o \in Table \ {t} : q.set[o] = r.set[o]
  <2> HIDE DEF f, q
  <2>1. DOMAIN r.set = Table /\ t \in DOMAIN r.set
    BY DEF Draft
  <2>2. DOMAIN Put(r.set, t, f) = DOMAIN r.set
    BY <2>1, PutFacts
  <2>3. Put(r.set, t, f)[t] = f
    BY PutFacts
  <2>4. \A o \in DOMAIN r.set \ {t} : Put(r.set, t, f)[o] = r.set[o]
    BY PutFacts
  <2> QED
    BY <1>2, <2>1, <2>2, <2>3, <2>4
<1>4. Draft(q)
  <2> HIDE DEF f, q
  <2>1. \A o \in Table : \A id \in DOMAIN q.set[o] : IsChange(o, q.set[o][id])
    BY <1>1, <1>3 DEF Draft
  <2> QED
    BY <1>2, <1>3, <2>1 DEF Draft
<1> QED
  BY <1>4 DEF q, f

(* What an UPDATE writes to a row that differs *)
Differs(t, id, fields) == {f \in DOMAIN fields : fields[f] # db[t][id][f]}
Before(r, t, id)       == IF id \in DOMAIN r.set[t] THEN r.set[t][id] ELSE << >>
One(id, row)           == [x \in {id} |-> row]
RowOf(r, t, id, fields) == Over([f \in Differs(t, id, fields) |-> fields[f]], Before(r, t, id))

LEMMA UpdateIs ==
  ASSUME NEW r, NEW t, NEW id, NEW fields
  PROVE  /\ Differs(t, id, fields) = {} => Update(r, t, id, fields) = r
         /\ Differs(t, id, fields) # {} =>
              Update(r, t, id, fields) =
                [r EXCEPT !.set = Put(r.set, t, Over(One(id, RowOf(r, t, id, fields)), r.set[t]))]
<1>1. Update(r, t, id, fields) =
        IF Differs(t, id, fields) = {} THEN r
        ELSE [r EXCEPT !.set = Put(r.set, t, Put(r.set[t], id, RowOf(r, t, id, fields)))]
  BY DEF Update, Differs, Before, RowOf
<1>2. Put(r.set[t], id, RowOf(r, t, id, fields)) = Over(One(id, RowOf(r, t, id, fields)), r.set[t])
  BY DEF Put, Over, One
<1> QED
  BY <1>1, <1>2

LEMMA DraftUpdate ==
  ASSUME NEW r, Draft(r), NEW t \in Table, NEW id, NEW fields, IsChange(t, fields)
  PROVE  /\ Draft(Update(r, t, id, fields))
         /\ (\E f \in DOMAIN fields : fields[f] # db[t][id][f]) =>
              IsChange(t, Update(r, t, id, fields).set[t][id])
<1> DEFINE differs == Differs(t, id, fields)
           before  == Before(r, t, id)
           row     == RowOf(r, t, id, fields)
           one     == One(id, row)
           q       == [r EXCEPT !.set = Put(r.set, t, Over(one, r.set[t]))]
<1>1. /\ differs = {} => Update(r, t, id, fields) = r
      /\ differs # {} => Update(r, t, id, fields) = q
  BY UpdateIs
<1>2. IsChange(t, row)
  <2>1. IsChange(t, before)
    <3>1. IsChange(t, << >>)
      BY NoRows DEF IsChange
    <3>2. \A x \in DOMAIN r.set[t] : IsChange(t, r.set[t][x])
      BY DEF Draft
    <3> QED
      BY <3>1, <3>2 DEF Before
  <2>2. differs \in SUBSET DOMAIN fields
    BY DEF Differs
  <2>3. row = Over([f \in differs |-> fields[f]], before)
    BY DEF RowOf
  <2> HIDE DEF before, differs, row
  <2> QED
    BY <2>1, <2>2, <2>3, ChangedRow
<1> HIDE DEF row
<1>3. DOMAIN one = {id} /\ one[id] = row
  BY DEF One
<1> HIDE DEF one
<1>4. Draft(q)
  BY <1>2, <1>3, DraftChange
<1>5. q.set[t][id] = row
  <2>1. Shape(r)
    BY DEF Draft
  <2>2. q.set = Put(r.set, t, Over(one, r.set[t]))
    BY <2>1, ShapeSet
  <2>3. Over(one, r.set[t])[id] = one[id]
    BY <1>3, OverFirst
  <2>4. Put(r.set, t, Over(one, r.set[t]))[t] = Over(one, r.set[t])
    BY PutFacts
  <2> QED
    BY <1>3, <2>2, <2>3, <2>4
<1>6. differs # {} <=> \E f \in DOMAIN fields : fields[f] # db[t][id][f]
  BY DEF Differs
<1> HIDE DEF differs, q
<1> QED
  BY <1>1, <1>2, <1>4, <1>5, <1>6

LEMMA DraftUpdateAll ==
  ASSUME NEW r, Draft(r), NEW t \in Table, NEW S, NEW fields, IsChange(t, fields)
  PROVE  Draft(UpdateAll(r, t, S, fields))
<1> DEFINE changed == {id \in S : \E f \in DOMAIN fields : fields[f] # db[t][id][f]}
           more    == [id \in changed |-> Update(r, t, id, fields).set[t][id]]
<1>1. DOMAIN more = changed /\ \A id \in changed : more[id] = Update(r, t, id, fields).set[t][id]
  OBVIOUS
<1>2. UpdateAll(r, t, S, fields) = [r EXCEPT !.set = Put(r.set, t, Over(more, r.set[t]))]
  BY DEF UpdateAll
<1>3. ASSUME NEW id \in changed PROVE IsChange(t, Update(r, t, id, fields).set[t][id])
  BY DraftUpdate
<1> HIDE DEF changed, more
<1>4. \A id \in DOMAIN more : IsChange(t, more[id])
  BY <1>1, <1>3
<1> QED
  BY <1>2, <1>4, DraftChange

----------------------------------------------------------------------------
(* Lists of subnets, and the addresses that are found in them. *)

(* A set of natural numbers has a least one.                               *)
LEMMA LeastNumber ==
  ASSUME NEW T \in SUBSET Nat, T # {}
  PROVE  \E m \in T : \A n \in T : m <= n
<1>1. PICK m \in T : \A n \in T : ~(<<n, m>> \in OpToRel(<, Nat))
  BY WFMin, NatLessThanWellFounded, Zenon
<1>2. ASSUME NEW n \in T
      PROVE  m <= n
  <2>1. n \in Nat /\ m \in Nat
    OBVIOUS
  <2>2. n < m => <<n, m>> \in OpToRel(<, Nat)
    BY <2>1, Zenon DEF OpToRel
  <2>3. ~(n < m)
    BY <2>2, <1>1, Zenon
  <2> QED
    BY <2>1, <2>3
<1> QED
  BY <1>2

(* Induction up to N, over a set.                                          *)
LEMMA UpTo ==
  ASSUME NEW N \in Nat, NEW T,
         0 \in T, \A n \in 0 .. N : n + 1 \in 0 .. N /\ n \in T => n + 1 \in T
  PROVE  0 .. N \subseteq T
<1>1. SUFFICES ASSUME (0 .. N) \ T # {}
               PROVE  FALSE
  OBVIOUS
<1>2. PICK m \in (0 .. N) \ T : \A n \in (0 .. N) \ T : m <= n
  <2>1. (0 .. N) \ T \in SUBSET Nat
    OBVIOUS
  <2> HIDE <1>1
  <2> QED
    BY <2>1, <1>1, LeastNumber, Zenon
<1>3. m # 0 /\ m - 1 \in 0 .. N /\ (m - 1) + 1 = m
  BY <1>2
<1>4. m - 1 \in T
  BY <1>2, <1>3
<1> QED
  BY <1>2, <1>3, <1>4

(* g is computed from e in N steps, and stays within D.                    *)
Computes(g, N, e, F) == g = [n \in 0 .. N |-> IF n = 0 THEN e ELSE F[n][g[n - 1]]]
Stays(g, N, D)       == \A n \in 0 .. N : g[n] \in D[n]

(* What is defined step by step exists, if every step stays in its set.    *)
LEMMA StepByStep ==
  ASSUME NEW N \in Nat, NEW D, NEW F, NEW e,
         e \in D[0],
         \A k \in 1 .. N : \A x \in D[k - 1] : F[k][x] \in D[k]
  PROVE  \E g : Computes(g, N, e, F) /\ Stays(g, N, D)
<1> DEFINE IsUpTo(g, n) == /\ g = [k \in 0 .. n |-> IF k = 0 THEN e ELSE F[k][g[k - 1]]]
                           /\ \A k \in 0 .. n : g[k] \in D[k]
           T == {n \in 0 .. N : \E g : IsUpTo(g, n)}
<1>1. 0 \in T
  <2> DEFINE g == [k \in 0 .. 0 |-> e]
  <2>1. IsUpTo(g, 0)
    OBVIOUS
  <2>2. \E f : IsUpTo(f, 0)
    BY <2>1
  <2>3. 0 \in 0 .. N
    OBVIOUS
  <2> QED
    BY <2>2, <2>3
<1>2. ASSUME NEW n \in 0 .. N, n + 1 \in 0 .. N, n \in T
      PROVE  n + 1 \in T
  <2>1. PICK g : IsUpTo(g, n)
    BY <1>2
  <2> DEFINE h == [k \in 0 .. n + 1 |-> IF k = n + 1 THEN F[n + 1][g[n]] ELSE g[k]]
  <2>2. g[n] \in D[n]
    BY <2>1
  <2>3. F[n + 1][g[n]] \in D[n + 1]
    <3>1. n + 1 \in 1 .. N /\ (n + 1) - 1 = n
      BY <1>2
    <3> QED
      BY <3>1, <2>2
  <2>4. \A k \in 0 .. n + 1 : h[k] \in D[k]
    <3>1. ASSUME NEW k \in 0 .. n
          PROVE  h[k] \in D[k]
      BY <2>1
    <3>2. h[n + 1] \in D[n + 1]
      BY <2>3
    <3> QED
      BY <3>1, <3>2
  <2>5. \A k \in 0 .. n + 1 : h[k] = IF k = 0 THEN e ELSE F[k][h[k - 1]]
    <3>1. ASSUME NEW k \in 0 .. n
          PROVE  h[k] = IF k = 0 THEN e ELSE F[k][h[k - 1]]
      <4>1. h[k] = g[k]
        OBVIOUS
      <4>2. k # 0 => k - 1 \in 0 .. n /\ h[k - 1] = g[k - 1]
        OBVIOUS
      <4>3. g[k] = IF k = 0 THEN e ELSE F[k][g[k - 1]]
        BY <2>1
      <4> QED
        BY <4>1, <4>2, <4>3
    <3>2. h[n + 1] = F[n + 1][h[(n + 1) - 1]]
      OBVIOUS
    <3> QED
      BY <3>1, <3>2, SMTT(30)
  <2>6. IsUpTo(h, n + 1)
    BY <2>4, <2>5
  <2> QED
    BY <2>6, <1>2
<1>3. N \in T
  <2> HIDE DEF T
  <2>1. 0 .. N \subseteq T
    BY <1>1, <1>2, UpTo, Zenon
  <2> QED
    BY <2>1
<1> QED
  BY <1>3 DEF Computes, Stays

(* ... and then it does stay there.                                        *)
LEMMA StepsStay ==
  ASSUME NEW N \in Nat, NEW D, NEW g,
         g[0] \in D[0],
         \A n \in 1 .. N : g[n - 1] \in D[n - 1] => g[n] \in D[n]
  PROVE  \A n \in 0 .. N : g[n] \in D[n]
<1> DEFINE T == {n \in 0 .. N : g[n] \in D[n]}
<1>1. 0 \in T
  <2>1. 0 \in 0 .. N
    OBVIOUS
  <2> QED
    BY <2>1
<1>2. \A n \in 0 .. N : n + 1 \in 0 .. N /\ n \in T => n + 1 \in T
  <2>1. ASSUME NEW n \in 0 .. N, n + 1 \in 0 .. N, n \in T
        PROVE  n + 1 \in T
    <3>1. n + 1 \in 1 .. N /\ (n + 1) - 1 = n
      BY <2>1
    <3> QED
      BY <3>1, <2>1
  <2> QED
    BY <2>1
<1>3. 0 .. N \subseteq T
  <2> HIDE DEF T
  <2> QED
    BY <1>1, <1>2, UpTo, Zenon
<1> QED
  BY <1>3

(* What sequences put together hold, one after the other                   *)
LEMMA FlattenSteps ==
  ASSUME NEW S, NEW seqs \in Seq(Seq(S)), Len(seqs) # 0
  PROVE  \E flat :
           /\ \A i \in 1 .. Len(seqs) : flat[i] = IF i = 1 THEN seqs[i] ELSE flat[i - 1] \o seqs[i]
           /\ \A i \in 1 .. Len(seqs) : flat[i] \in Seq(S)
           /\ FlattenSeq(seqs) = flat[Len(seqs)]
<1> DEFINE N == Len(seqs)
           Eq(f) == f = [i \in 1 .. N |-> IF i = 1 THEN seqs[i] ELSE f[i - 1] \o seqs[i]]
           flat == CHOOSE f : Eq(f)
<1>1. N \in Nat \ {0} /\ \A i \in 1 .. N : seqs[i] \in Seq(S)
  OBVIOUS
<1>2. \E f : Eq(f)
  <2> DEFINE F == [i \in 1 .. N |-> [x \in Seq(S) |-> x \o seqs[i]]]
             D == [i \in 0 .. N |-> Seq(S)]
  <2>1. \A k \in 1 .. N : \A x \in D[k - 1] : F[k][x] \in D[k]
    <3>1. ASSUME NEW k \in 1 .. N, NEW x \in D[k - 1]
          PROVE  F[k][x] \in D[k]
      <4>1. k \in 0 .. N /\ k - 1 \in 0 .. N
        BY <1>1
      <4>2. x \in Seq(S) /\ D[k] = Seq(S)
        BY <4>1, <3>1
      <4>3. F[k][x] = x \o seqs[k]
        BY <4>2
      <4>4. x \o seqs[k] \in Seq(S)
        <5>1. seqs[k] \in Seq(S)
          BY <1>1
        <5> QED
          BY <5>1, <4>2, ConcatProperties
      <4> QED
        BY <4>2, <4>3, <4>4
    <3> QED
      BY <3>1
  <2>2. << >> \in D[0] /\ N \in Nat
    BY <1>1
  <2>3. PICK g : Computes(g, N, << >>, F) /\ Stays(g, N, D)
    <3> HIDE DEF F, D, N
    <3> QED
      BY <2>1, <2>2, StepByStep
  <2> DEFINE h == [i \in 1 .. N |-> g[i]]
  <2>4. /\ \A i \in 1 .. N : g[i] = g[i - 1] \o seqs[i] /\ g[i - 1] \in Seq(S)
        /\ g[0] = << >>
    <3>1. ASSUME NEW i \in 1 .. N
          PROVE  g[i] = g[i - 1] \o seqs[i] /\ g[i - 1] \in Seq(S)
      <4>1. i \in 0 .. N /\ i # 0 /\ i - 1 \in 0 .. N
        BY <1>1
      <4>2. g[i - 1] \in Seq(S)
        <5>1. g[i - 1] \in D[i - 1]
          BY <2>3, <4>1 DEF Stays
        <5> QED
          BY <5>1, <4>1
      <4>3. g[i] = F[i][g[i - 1]]
        <5> HIDE DEF F
        <5> QED
          BY <2>3, <4>1 DEF Computes
      <4> QED
        BY <4>2, <4>3
    <3>2. g[0] = << >>
      BY <1>1, <2>3 DEF Computes
    <3> QED
      BY <3>1, <3>2
  <2>5. ASSUME NEW i \in 1 .. N
        PROVE  h[i] = IF i = 1 THEN seqs[i] ELSE h[i - 1] \o seqs[i]
    <3>0. h[i] = g[i - 1] \o seqs[i]
      BY <2>4
    <3>1. CASE i = 1
      <4>1. i - 1 = 0 /\ g[i - 1] = << >> /\ seqs[i] \in Seq(S)
        BY <3>1, <2>4, <1>1
      <4>2. << >> \o seqs[i] = seqs[i]
        BY <4>1, ConcatEmptySeq
      <4> QED
        BY <3>0, <3>1, <4>1, <4>2, Zenon
    <3>2. CASE i # 1
      <4>1. i - 1 \in 1 .. N
        BY <3>2, <1>1
      <4>2. h[i - 1] = g[i - 1]
        BY <4>1
      <4> QED
        BY <3>0, <3>2, <4>2, Zenon
    <3> QED
      BY <3>1, <3>2, Zenon
  <2>6. Eq(h)
    BY <2>5
  <2> QED
    BY <2>6
<1>3. Eq(flat)
  BY <1>2
<1>4. \A i \in 0 .. N : (IF i = 0 THEN << >> ELSE flat[i]) \in Seq(S)
  <2> DEFINE g == [i \in 0 .. N |-> IF i = 0 THEN << >> ELSE flat[i]]
             D == [i \in 0 .. N |-> Seq(S)]
  <2>1. ASSUME NEW n \in 1 .. N, g[n - 1] \in D[n - 1]
        PROVE  g[n] \in D[n]
    <3>1. n - 1 \in 0 .. N /\ n \in 0 .. N /\ n # 0
      BY <1>1
    <3>2. g[n] = flat[n] /\ g[n - 1] \in Seq(S)
      BY <2>1, <3>1
    <3>3. CASE n = 1
      <4>1. flat[n] = seqs[n]
        BY <3>3, <1>3
      <4> QED
        BY <4>1, <3>1, <3>2, <1>1
    <3>4. CASE n # 1
      <4>1. n - 1 # 0
        BY <3>4
      <4>2. flat[n] = flat[n - 1] \o seqs[n]
        BY <3>4, <1>3
      <4>3. g[n - 1] = flat[n - 1]
        BY <4>1, <3>1
      <4>4. flat[n - 1] \o seqs[n] \in Seq(S)
        <5>1. flat[n - 1] \in Seq(S) /\ seqs[n] \in Seq(S)
          BY <4>3, <3>2, <1>1
        <5> QED
          BY <5>1, ConcatProperties
      <4> QED
        BY <4>2, <4>4, <3>1, <3>2
    <3> QED
      BY <3>3, <3>4
  <2>2. g[0] \in D[0] /\ N \in Nat
    BY <1>1
  <2>3. \A n \in 0 .. N : g[n] \in D[n]
    <3> HIDE DEF g, D, N
    <3> QED
      BY <2>1, <2>2, StepsStay
  <2> QED
    BY <2>3
<1>5. FlattenSeq(seqs) = flat[N]
  BY <1>1 DEF FlattenSeq
<1>6. \A i \in 1 .. N : flat[i] = IF i = 1 THEN seqs[i] ELSE flat[i - 1] \o seqs[i]
  <2> HIDE DEF flat, N
  <2> QED
    BY <1>3
<1>7. \A i \in 1 .. N : flat[i] \in Seq(S)
  <2> HIDE DEF flat
  <2> QED
    BY <1>1, <1>4
<1> HIDE DEF flat
<1> QED
  BY <1>5, <1>6, <1>7

(* Sequences put together are one sequence.                                *)
LEMMA FlattenTyped ==
  ASSUME NEW S, NEW seqs \in Seq(Seq(S))
  PROVE  FlattenSeq(seqs) \in Seq(S)
<1>1. CASE Len(seqs) = 0
  <2>1. seqs = << >>
    BY <1>1
  <2> QED
    BY <1>1, <2>1 DEF FlattenSeq
<1>2. CASE Len(seqs) # 0
  BY <1>2, FlattenSteps
<1> QED
  BY <1>1, <1>2

(* The subnets that the ports of a room offer, one port after the other.   *)
Offered(qs) == [n \in DOMAIN qs |-> db.switch_port[db.patch_port[qs[n]].switch_port].subnets]

LEMMA ListsTyped ==
  ASSUME WellTyped(db), References(db), NEW x
  PROVE  SubnetLists(x) \subseteq Seq(Subnet)
<1>1. SubnetLists(x) = {FlattenSeq(Offered(qs)) : qs \in SetToSeqs(Connected(x))}
  BY DEF SubnetLists, Offered
<1>2. Cardinality(Connected(x)) \in Nat
  <2>1. Connected(x) \subseteq Ids["patch_port"] /\ IsFiniteSet(Ids["patch_port"])
    BY NetworkAssumption DEF Connected, WellTyped, Table
  <2> QED
    BY <2>1, FS_Subset, FS_CardinalityType
<1>3. ASSUME NEW qs \in SetToSeqs(Connected(x))
      PROVE  FlattenSeq(Offered(qs)) \in Seq(Subnet)
  <2> DEFINE N == Cardinality(Connected(x))
  <2>1. qs \in [1 .. N -> Connected(x)]
    BY DEF SetToSeqs
  <2>2. ASSUME NEW n \in 1 .. N
        PROVE  Offered(qs)[n] \in Seq(Subnet)
    <3>1. qs[n] \in Connected(x) /\ n \in DOMAIN qs
      BY <2>1
    <3>2. /\ qs[n] \in DOMAIN db.patch_port
          /\ db.patch_port[qs[n]].switch_port # None
      BY <3>1 DEF Connected
    <3>3. db.patch_port[qs[n]].switch_port \in DOMAIN db.switch_port
      BY <3>2 DEF References
    <3>4. db.switch_port[db.patch_port[qs[n]].switch_port].subnets \in Seq(Subnet)
      BY <3>3 DEF WellTyped, IsRow, IsValue, Columns, Table
    <3> QED
      BY <3>1, <3>4 DEF Offered
  <2>3. Offered(qs) \in [1 .. N -> Seq(Subnet)]
    BY <2>1, <2>2 DEF Offered
  <2>4. Offered(qs) \in Seq(Seq(Subnet))
    <3> HIDE DEF N
    <3> QED
      BY <2>3, <1>2 DEF N
  <2> QED
    BY <2>4, FlattenTyped
<1> QED
  BY <1>1, <1>3

LEMMA FirstFreeTyped ==
  ASSUME NEW list \in Seq(Subnet), NEW k
  PROVE  FirstFree(list, k) \subseteq Address
<1>1. FirstFree(list, k) \subseteq UNION {Unused(n) : n \in ToSet(list)}
  BY DEF FirstFree
<1>2. ToSet(list) \subseteq Subnet
  BY DEF ToSet
<1> QED
  BY <1>1, <1>2 DEF Unused, Address

(* The id that a sequence gives *)
LEMMA NewIdTyped ==
  ASSUME NEW t, NewIds(t) # {}
  PROVE  NewId(t) \in Ids[t]
BY DEF NewIds, NewId

----------------------------------------------------------------------------
(* Every operation decides on rows of the right kind. *)

LEMMA KindsOfRows ==
  ASSUME NEW a, NEW b, NEW c, NEW d
  PROVE  /\ IsRow("membership", [ends |-> a])
         /\ b \in Room => IsRow("host", [owner |-> a, room |-> b])
         /\ IsRow("switch", [host |-> a])
         /\ IsRow("interface", [host |-> a, mac |-> b])
         /\ IsRow("ip", [interface |-> a])
         /\ IsRow("mpsk", [owner |-> a, mac |-> b])
         /\ b \in Seq(Subnet) => IsRow("switch_port", [switch |-> a, subnets |-> b])
         /\ {b, c} \subseteq Room => IsRow("patch_port", [name |-> a, room |-> b, switch_room |-> c, switch_port |-> d])
BY DEF IsRow, IsValue, Columns

LEMMA KindsOfChanges ==
  ASSUME NEW a, NEW b
  PROVE  /\ a \in Room \cup {None} => IsChange("user", [room |-> a])
         /\ a \in Room => IsChange("host", [room |-> a])
         /\ IsChange("host", [owner |-> a])
         /\ IsChange("interface", [mac |-> a]) /\ IsChange("mpsk", [mac |-> a])
         /\ a \in Seq(Subnet) => IsChange("switch_port", [subnets |-> a])
         /\ IsChange("patch_port", [switch_port |-> a])
         /\ b \in Room => IsChange("patch_port", [name |-> a, room |-> b])
BY DEF IsChange, IsValue, Changing

LEMMA Tables ==
  {"user", "membership", "host", "switch", "interface", "ip", "mpsk", "switch_port", "patch_port"}
    \subseteq Table
BY DEF Table

LEMMA DraftWithHost ==
  ASSUME NEW r, Draft(r), NEW h \in Ids["host"], NEW u, NEW x \in Room
  PROVE  Draft(WithHost(r, h, u, x))
BY DraftInsert, KindsOfRows, Tables DEF WithHost

LEMMA DraftWithInterface ==
  ASSUME NEW r, Draft(r), NEW h, NEW i \in Ids["interface"], NEW mac
  PROVE  Draft(WithInterface(r, h, i, mac))
BY DraftInsert, KindsOfRows, Tables DEF WithInterface

LEMMA DraftWithAddresses ==
  ASSUME NEW r, Draft(r), NEW i, NEW A \in SUBSET Address
  PROVE  Draft(WithAddresses(r, i, A))
<1> DEFINE more == [a \in A |-> [interface |-> i]]
<1>1. DOMAIN more \subseteq Ids["ip"] /\ \A id \in DOMAIN more : IsRow("ip", more[id])
  BY KindsOfRows, NetworkAssumption
<1>2. WithAddresses(r, i, A) = InsertAll(r, "ip", more)
  BY DEF WithAddresses
<1> HIDE DEF more
<1> QED
  BY <1>1, <1>2, DraftInsertAll, Tables

LEMMA DraftAddressed ==
  ASSUME WellTyped(db), References(db), NEW r, Draft(r), NEW h, NEW x, NEW mac,
         NewIds("interface") # {}
  PROVE  \A w \in Addressed(r, h, x, mac) : Draft(w)
<1> DEFINE i == NewId("interface")
<1>1. i \in Ids["interface"]
  BY NewIdTyped
<1> HIDE DEF i
<1>2. Draft(WithInterface(r, h, i, mac))
  BY <1>1, DraftWithInterface
<1>3. ASSUME NEW list \in SubnetLists(x)
      PROVE  Draft(WithAddresses(WithInterface(r, h, i, mac), i, FirstFree(list, 1)))
  <2>1. FirstFree(list, 1) \in SUBSET Address
    BY ListsTyped, FirstFreeTyped
  <2> QED
    BY <1>2, <2>1, DraftWithAddresses
<1>4. \A w \in Addressed(r, h, x, mac) : \E list \in SubnetLists(x) :
        w = WithAddresses(WithInterface(r, h, i, mac), i, FirstFree(list, 1))
  BY DEF Addressed, i
<1> QED
  BY <1>3, <1>4

LEMMA DraftMoved ==
  ASSUME NEW r, Draft(r), NEW H, NEW x \in Room
  PROVE  Draft(Moved(r, H, x))
BY DraftUpdateAll, KindsOfChanges, Tables DEF Moved

LEMMA DraftReaddressed ==
  ASSUME NEW r, Draft(r), NEW olds, NEW news \in SUBSET Address
  PROVE  \A w \in Readdressed(r, olds, news) : Draft(w)
<1> DEFINE row(f)  == [a \in news |-> [interface |-> db.ip[f[a]].interface]]
           over(f) == Over(row(f), r.new["ip"])
           made(f) == [r EXCEPT !.drop["ip"] = @ \cup olds, !.new["ip"] = over(f)]
<1>1. \A w \in Readdressed(r, olds, news) : \E f : w = made(f)
  BY DEF Readdressed
<1>2. ASSUME NEW f
      PROVE  Draft(made(f))
  <2> DEFINE q == Delete(r, "ip", olds)
             w == InsertAll(q, "ip", row(f))
  <2>1. Draft(w)
    <3>1. Draft(q)
      BY DraftDelete, Tables
    <3>2. DOMAIN row(f) \subseteq Ids["ip"] /\ \A id \in DOMAIN row(f) : IsRow("ip", row(f)[id])
      BY KindsOfRows, NetworkAssumption
    <3> HIDE DEF q, row
    <3> QED
      BY <3>1, <3>2, DraftInsertAll, Tables
  <2>2. /\ Shape(r) /\ DOMAIN r.drop = Table /\ DOMAIN r.new = Table /\ "ip" \in Table
    BY Tables DEF Draft
  <2>3. q.new = r.new /\ q = [r EXCEPT !.drop["ip"] = @ \cup olds]
    BY <2>2, ShapeDrop DEF Delete
  <2>4. Put(r.new, "ip", over(f)) = [r.new EXCEPT !["ip"] = over(f)]
    BY <2>2 DEF Put
  <2>5. w = [q EXCEPT !.new = [r.new EXCEPT !["ip"] = over(f)]]
    BY <2>3, <2>4 DEF InsertAll
  <2>6. w = made(f)
    <3> HIDE DEF over, w
    <3> QED
      BY <2>2, <2>3, <2>5 DEF Shape
  <2> QED
    BY <2>1, <2>6
<1> HIDE DEF made
<1> QED
  BY <1>1, <1>2

LEMMA DraftMigrated ==
  ASSUME WellTyped(db), References(db), NEW r, Draft(r), NEW H, NEW x \in Room
  PROVE  \A w \in Migrated(r, H, x) : Draft(w)
<1>1. ASSUME NEW w \in Migrated(r, H, x)
      PROVE  \/ w = Moved(r, H, x)
             \/ \E to \in SubnetLists(x) :
                  w \in Readdressed(Moved(r, H, x), OldAddresses(H),
                                    FirstFree(to, Cardinality(OldAddresses(H))))
  BY DEF Migrated
<1>2. Draft(Moved(r, H, x))
  BY DraftMoved
<1>3. \A to \in SubnetLists(x) : FirstFree(to, Cardinality(OldAddresses(H))) \in SUBSET Address
  BY ListsTyped, FirstFreeTyped
<1> QED
  BY <1>1, <1>2, <1>3, DraftReaddressed

(* A session decides on such rows. *)
Decides(s) == \E op, seen, r : Draft(r) /\ Decide(s, op, seen, r)

LEMMA DraftJoined ==
  ASSUME NEW r, Draft(r), NEW u \in User, NEW G \in SUBSET DOMAIN Grants, NEW ends
  PROVE  Draft(Joined(r, u, G, ends))
<1> DEFINE more == [m \in {u} \X G |-> [ends |-> ends]]
<1>1. DOMAIN more \subseteq Ids["membership"] /\ \A id \in DOMAIN more : IsRow("membership", more[id])
  BY KindsOfRows, NetworkAssumption
<1>2. Joined(r, u, G, ends) = InsertAll(r, "membership", more)
  BY DEF Joined
<1> HIDE DEF more
<1> QED
  BY <1>1, <1>2, DraftInsertAll, Tables

LEMMA DraftParted ==
  ASSUME NEW r, Draft(r), NEW u, NEW G
  PROVE  Draft(Parted(r, u, G))
BY DraftDelete, Tables DEF Parted

LEMMA DraftHoused ==
  ASSUME WellTyped(db), NEW u \in User, NEW x \in Room, NEW begin_membership
  PROVE  Draft(Housed(u, x, begin_membership))
<1> DEFINE r == Update(Nothing, "user", u, [room |-> x])
<1>1. Draft(r)
  BY DraftNothing, DraftUpdate, KindsOfChanges, Tables
<1> HIDE DEF r
<1>2. Draft(Joined(Parted(r, u, Config.former), u, Config.begun \ GroupsOf(u), FALSE))
  BY <1>1, DraftParted, DraftJoined, NetworkAssumption
<1>3. Housed(u, x, begin_membership) \in
        {r, Joined(Parted(r, u, Config.former), u, Config.begun \ GroupsOf(u), FALSE)}
  BY DEF Housed, r
<1> QED
  BY <1>1, <1>2, <1>3

LEMMA DraftEditedHost ==
  ASSUME WellTyped(db), References(db), NEW h, NEW u, NEW x \in Room
  PROVE  \A w \in EditedHost(h, u, x) : Draft(w)
<1> DEFINE r == Update(Nothing, "host", h, [owner |-> u])
<1>1. Draft(r)
  BY DraftNothing, DraftUpdate, KindsOfChanges, Tables
<1> HIDE DEF r
<1>2. EditedHost(h, u, x) \in {{r}, Migrated(r, {h}, x)}
  BY DEF EditedHost, r
<1> QED
  BY <1>1, <1>2, DraftMigrated

LEMMA MoveDecides ==
  ASSUME WellTyped(db), References(db), NEW s, NEW u, NEW x \in Room, Move(s, u, x)
  PROVE  Decides(s)
<1> DEFINE H == {h \in HostsOf(u) : db.host[h].room = db.user[u].room}
           r == Update(Nothing, "user", u, [room |-> x])
<1>1. Draft(r)
  BY DraftNothing, DraftUpdate, KindsOfChanges, Tables
<1>2. PICK w \in IF H = {} THEN {r} ELSE Migrated(r, H, x) : \E op, seen : Decide(s, op, seen, w)
  BY DEF Move
<1> HIDE DEF r, H
<1>3. Draft(w)
  BY <1>1, <1>2, DraftMigrated
<1> QED
  BY <1>2, <1>3 DEF Decides

LEMMA MovingInDecides ==
  ASSUME WellTyped(db), References(db), NEW s, NEW u \in User, NEW x \in Room, NEW begin_membership
  PROVE  /\ MoveIn(s, u, x, begin_membership) => Decides(s)
         /\ \A mac : MoveInWithDevice(s, u, x, begin_membership, mac) => Decides(s)
         /\ \A i : MoveInAnnexing(s, u, x, begin_membership, i) => Decides(s)
<1> DEFINE r == Housed(u, x, begin_membership)
<1>1. Draft(r)
  BY DraftHoused
<1>2. ASSUME MoveIn(s, u, x, begin_membership)
      PROVE  Decides(s)
  BY <1>1, <1>2 DEF MoveIn, Decides
<1>3. ASSUME NEW mac, MoveInWithDevice(s, u, x, begin_membership, mac)
      PROVE  Decides(s)
  <2> DEFINE h == NewId("host")
             q == WithHost(r, h, u, x)
  <2>1. NewIds("host") # {} /\ NewIds("interface") # {}
    BY <1>3 DEF MoveInWithDevice
  <2>2. PICK w \in Addressed(q, h, x, mac) : \E op, seen : Decide(s, op, seen, w)
    BY <1>3 DEF MoveInWithDevice
  <2>3. h \in Ids["host"]
    BY <2>1, NewIdTyped
  <2> HIDE DEF r, h
  <2>4. Draft(q)
    BY <1>1, <2>3, DraftWithHost
  <2> HIDE DEF q
  <2>5. Draft(w)
    BY <2>1, <2>2, <2>4, DraftAddressed
  <2> QED
    BY <2>2, <2>5 DEF Decides
<1>4. ASSUME NEW i, MoveInAnnexing(s, u, x, begin_membership, i)
      PROVE  Decides(s)
  <2> DEFINE h == db.interface[i].host
             q == Update(r, "host", h, [owner |-> u])
  <2>1. PICK w \in Migrated(q, {h}, x) : \E op, seen : Decide(s, op, seen, w)
    BY <1>4 DEF MoveInAnnexing
  <2> HIDE DEF r, h
  <2>2. Draft(q)
    BY <1>1, DraftUpdate, KindsOfChanges, Tables
  <2> HIDE DEF q
  <2>3. Draft(w)
    BY <2>1, <2>2, DraftMigrated
  <2> QED
    BY <2>1, <2>3 DEF Decides
<1> QED
  BY <1>2, <1>3, <1>4

LEMMA LeavingDecides ==
  ASSUME WellTyped(db), NEW s, NEW u \in User
  PROVE  /\ Unblock(s, u) => Decides(s)
         /\ \A violation, ends : Block(s, u, violation, ends) => Decides(s)
         /\ \A end_membership : MoveOut(s, u, end_membership) => Decides(s)
<1>1. ASSUME Unblock(s, u)
      PROVE  Decides(s)
  <2>1. Draft(Resumed(u))
    BY DraftNothing, DraftParted DEF Resumed
  <2> QED
    BY <1>1, <2>1 DEF Unblock, Decides
<1>2. ASSUME NEW violation, NEW ends, Block(s, u, violation, ends)
      PROVE  Decides(s)
  <2>1. {IF violation THEN Config.violation ELSE Config.blocked} \in SUBSET DOMAIN Grants
    BY NetworkAssumption
  <2>2. Draft(Suspended(u, violation, ends))
    BY <2>1, DraftNothing, DraftJoined DEF Suspended
  <2> QED
    BY <1>2, <2>2 DEF Block, Decides
<1>3. ASSUME NEW end_membership, MoveOut(s, u, end_membership)
      PROVE  Decides(s)
  <2> DEFINE H == {h \in HostsOf(u) : /\ h \notin DOMAIN db.switch
                                      /\ db.host[h].room = db.user[u].room \/ end_membership}
             r == Delete(Nothing, "host", H)
             o == IF db.user[u].room = None THEN r ELSE Update(r, "user", u, [room |-> None])
             w == IF end_membership THEN Parted(o, u, Config.left) ELSE o
  <2>1. Draft(r)
    BY DraftNothing, DraftDelete, Tables
  <2>2. Draft(o)
    <3> HIDE DEF r
    <3> QED
      BY <2>1, DraftUpdate, KindsOfChanges, Tables
  <2>3. Draft(w)
    <3> HIDE DEF o
    <3> QED
      BY <2>2, DraftParted
  <2>4. \E op, seen : Decide(s, op, seen, w)
    BY <1>3 DEF MoveOut
  <2> HIDE DEF w
  <2> QED
    BY <2>3, <2>4 DEF Decides
<1> QED
  BY <1>1, <1>2, <1>3

LEMMA HostsDecide ==
  ASSUME WellTyped(db), References(db), NEW s
  PROVE  /\ \A u : \A x \in Room : HostCreate(s, u, x) => Decides(s)
         /\ \A h : HostDelete(s, h) => Decides(s)
         /\ \A h, u : \A x \in Room : HostEdit(s, h, u, x) => Decides(s)
         /\ \A u \in Users : \A mac : Activate(s, u, mac) => Decides(s)
<1>1. ASSUME NEW u, NEW x \in Room, HostCreate(s, u, x)
      PROVE  Decides(s)
  <2>1. NewId("host") \in Ids["host"]
    BY <1>1, NewIdTyped DEF HostCreate
  <2>2. Draft(WithHost(Nothing, NewId("host"), u, x))
    BY <2>1, DraftNothing, DraftWithHost
  <2> QED
    BY <1>1, <2>2 DEF HostCreate, Decides
<1>2. ASSUME NEW h, HostDelete(s, h)
      PROVE  Decides(s)
  <2>1. Draft(WithoutHost(h))
    BY DraftNothing, DraftDelete, Tables DEF WithoutHost
  <2> QED
    BY <1>2, <2>1 DEF HostDelete, Decides
<1>3. ASSUME NEW h, NEW u, NEW x \in Room, HostEdit(s, h, u, x)
      PROVE  Decides(s)
  BY <1>3, DraftEditedHost DEF HostEdit, Decides
<1>4. ASSUME NEW u \in Users, NEW mac, Activate(s, u, mac)
      PROVE  Decides(s)
  <2> DEFINE x == db.user[u].room
  <2>1. NewIds("interface") # {} /\ x # None
    BY <1>4 DEF Activate
  <2>6. x \in Room
    BY <2>1, Tables DEF Users, WellTyped, IsRow, IsValue, Columns
  <2> HIDE DEF x
  <2>2. \E h, r : Draft(r) /\ \E w \in Addressed(r, h, x, mac) : \E op, seen : Decide(s, op, seen, w)
    <3>1. ASSUME NewIds("host") # {},
                 \E w \in Addressed(WithHost(Nothing, NewId("host"), u, x), NewId("host"), x, mac) :
                   \E op, seen : Decide(s, op, seen, w)
          PROVE  \E h, r : Draft(r) /\ \E w \in Addressed(r, h, x, mac) : \E op, seen : Decide(s, op, seen, w)
      <4>1. NewId("host") \in Ids["host"]
        BY <3>1, NewIdTyped
      <4>2. Draft(WithHost(Nothing, NewId("host"), u, x))
        BY <2>6, <4>1, DraftNothing, DraftWithHost
      <4> QED
        BY <3>1, <4>2
    <3>2. ASSUME NEW h, NEW r \in EditedHost(h, u, x),
                 \E w \in Addressed(r, h, x, mac) : \E op, seen : Decide(s, op, seen, w)
          PROVE  \E g, q : Draft(q) /\ \E w \in Addressed(q, g, x, mac) : \E op, seen : Decide(s, op, seen, w)
      <4>1. Draft(r)
        BY <2>6, DraftEditedHost
      <4> QED
        BY <3>2, <4>1
    <3> QED
      BY <1>4, <3>1, <3>2 DEF Activate, x
  <2>3. PICK h, r : Draft(r) /\ \E w \in Addressed(r, h, x, mac) : \E op, seen : Decide(s, op, seen, w)
    BY <2>2
  <2>4. PICK w \in Addressed(r, h, x, mac) : \E op, seen : Decide(s, op, seen, w)
    BY <2>3
  <2>5. Draft(w)
    BY <2>1, <2>3, <2>4, DraftAddressed
  <2> QED
    BY <2>4, <2>5 DEF Decides
<1> QED
  BY <1>1, <1>2, <1>3, <1>4

LEMMA HostingDecides ==
  ASSUME WellTyped(db), References(db), NEW s, Hosting(s)
  PROVE  Decides(s)
BY MoveDecides, MovingInDecides, LeavingDecides, HostsDecide DEF Hosting, Users

LEMMA InterfacingDecides ==
  ASSUME WellTyped(db), References(db), NEW s, Interfacing(s)
  PROVE  Decides(s)
<1>1. ASSUME NEW h, NEW mac, NEW A \in SUBSET Address, InterfaceCreate(s, h, mac, A)
      PROVE  Decides(s)
  <2> DEFINE i == NewId("interface")
             w == WithAddresses(WithInterface(Nothing, h, i, mac), i, A)
  <2>1. i \in Ids["interface"]
    BY <1>1, NewIdTyped DEF InterfaceCreate
  <2>2. \E op, seen : Decide(s, op, seen, w)
    BY <1>1 DEF InterfaceCreate
  <2> HIDE DEF i
  <2>3. Draft(w)
    BY <2>1, DraftNothing, DraftWithInterface, DraftWithAddresses
  <2> HIDE DEF w
  <2> QED
    BY <2>2, <2>3 DEF Decides
<1>2. ASSUME NEW i, NEW mac, NEW A \in SUBSET Address, InterfaceEdit(s, i, mac, A)
      PROVE  Decides(s)
  <2> DEFINE r   == Update(Nothing, "interface", i, [mac |-> mac])
             old == AddressesOf(i)
             in  == UNION {Usable[n] : n \in SubnetsOf(db.host[db.interface[i].host].room)}
  <2>1. Draft(r)
    BY DraftNothing, DraftUpdate, KindsOfChanges, Tables
  <2>2. EditedInterface(i, mac, A) = WithAddresses(Delete(r, "ip", old \ A), i, (A \ old) \cap in)
    BY DEF EditedInterface
  <2>3. (A \ old) \cap in \in SUBSET Address
    OBVIOUS
  <2> HIDE DEF r, old, in
  <2>4. Draft(EditedInterface(i, mac, A))
    BY <2>1, <2>2, <2>3, DraftDelete, DraftWithAddresses, Tables
  <2> QED
    BY <1>2, <2>4 DEF InterfaceEdit, Decides
<1>3. ASSUME NEW i, NEW mac, ChangeMac(s, i, mac)
      PROVE  Decides(s)
  <2>1. Draft(WithMac(i, mac))
    BY DraftNothing, DraftUpdate, KindsOfChanges, Tables DEF WithMac
  <2> QED
    BY <1>3, <2>1 DEF ChangeMac, Decides
<1>4. ASSUME NEW i, InterfaceDelete(s, i)
      PROVE  Decides(s)
  <2>1. Draft(WithoutInterface(i))
    BY DraftNothing, DraftDelete, Tables DEF WithoutInterface
  <2> QED
    BY <1>4, <2>1 DEF InterfaceDelete, Decides
<1> QED
  BY <1>1, <1>2, <1>3, <1>4 DEF Interfacing

LEMMA MpskDecides ==
  ASSUME WellTyped(db), NEW s, Mpsk(s)
  PROVE  Decides(s)
<1>1. ASSUME NEW u, NEW mac, NewIds("mpsk") # {}
      PROVE  Draft(WithMpsk(u, mac))
  <2>1. NewId("mpsk") \in Ids["mpsk"]
    BY <1>1, NewIdTyped
  <2> QED
    BY <2>1, DraftNothing, DraftInsert, KindsOfRows, Tables DEF WithMpsk
<1>2. ASSUME NEW c, NEW mac
      PROVE  Draft(EditedMpsk(c, mac)) /\ Draft(WithoutMpsk(c))
  BY DraftNothing, DraftUpdate, DraftDelete, KindsOfChanges, Tables DEF EditedMpsk, WithoutMpsk
<1>3. ASSUME NEW u, NEW mac, MpskAdd(s, u, mac) \/ MpskCreate(s, u, mac)
      PROVE  Decides(s)
  BY <1>1, <1>3 DEF MpskAdd, MpskCreate, Decides
<1>4. ASSUME NEW c, NEW mac, MpskEdit(s, c, mac) \/ MpskChange(s, c, mac)
      PROVE  Decides(s)
  BY <1>2, <1>4 DEF MpskEdit, MpskChange, Decides
<1>5. ASSUME NEW c, MpskDelete(s, c) \/ MpskRemove(s, c)
      PROVE  Decides(s)
  BY <1>2, <1>5 DEF MpskDelete, MpskRemove, Decides
<1> QED
  BY <1>3, <1>4, <1>5 DEF Mpsk

LEMMA PatchingDecides ==
  ASSUME WellTyped(db), NEW s, Patching(s)
  PROVE  Decides(s)
<1>1. ASSUME NEW name, NEW x \in Room, NEW y \in Room, PatchPortCreate(s, name, x, y)
      PROVE  Decides(s)
  <2>1. NewId("patch_port") \in Ids["patch_port"]
    BY <1>1, NewIdTyped DEF PatchPortCreate
  <2>2. Draft(NewPatchPort(name, x, y))
    BY <2>1, DraftNothing, DraftInsert, KindsOfRows, Tables DEF NewPatchPort
  <2> QED
    BY <1>1, <2>2 DEF PatchPortCreate, Decides
<1>2. ASSUME NEW q, PatchPortDelete(s, q)
      PROVE  Decides(s)
  <2>1. Draft(WithoutPatchPort(q))
    BY DraftNothing, DraftDelete, Tables DEF WithoutPatchPort
  <2> QED
    BY <1>2, <2>1 DEF PatchPortDelete, Decides
<1>3. ASSUME NEW q, NEW name, NEW x \in Room, PatchPortEdit(s, q, name, x)
      PROVE  Decides(s)
  <2>1. Draft(EditedPatchPort(q, name, x))
    BY DraftNothing, DraftUpdate, KindsOfChanges, Tables DEF EditedPatchPort
  <2> QED
    BY <1>3, <2>1 DEF PatchPortEdit, Decides
<1> QED
  BY <1>1, <1>2, <1>3 DEF Patching

LEMMA DraftPatched ==
  ASSUME NEW r, Draft(r), NEW p, NEW q
  PROVE  Draft(Patched(r, p, q))
BY DraftUpdate, KindsOfChanges, Tables DEF Patched

LEMMA PortsDecide ==
  ASSUME WellTyped(db), NEW s, NEW subnets \in Seq(Subnet), NEW q
  PROVE  /\ \A w : SwitchPortCreate(s, w, subnets, q) => Decides(s)
         /\ \A p : SwitchPortEdit(s, p, subnets, q) => Decides(s)
<1>1. ASSUME NEW w, SwitchPortCreate(s, w, subnets, q)
      PROVE  Decides(s)
  <2> DEFINE p == NewId("switch_port")
             r == NewPort(p, w, subnets)
  <2>1. p \in Ids["switch_port"]
    BY <1>1, NewIdTyped DEF SwitchPortCreate
  <2>2. \E op, seen : Decide(s, op, seen, Patched(r, p, q))
    BY <1>1 DEF SwitchPortCreate
  <2> HIDE DEF p
  <2>3. Draft(r)
    BY <2>1, DraftNothing, DraftInsert, KindsOfRows, Tables DEF NewPort
  <2> HIDE DEF r
  <2> QED
    BY <2>2, <2>3, DraftPatched DEF Decides
<1>2. ASSUME NEW p, SwitchPortEdit(s, p, subnets, q)
      PROVE  Decides(s)
  <2> DEFINE old == {o \in DOMAIN db.patch_port : db.patch_port[o].switch_port = p}
             r   == EditedPort(p, subnets)
             w   == Patched(Unpatched(r, old), p, q)
  <2>1. (\E op, seen : Decide(s, op, seen, r)) \/ (\E op, seen : Decide(s, op, seen, w))
    BY <1>2 DEF SwitchPortEdit
  <2>2. Draft(r)
    BY DraftNothing, DraftUpdate, KindsOfChanges, Tables DEF EditedPort
  <2> HIDE DEF r, old
  <2>3. Draft(w)
    <3>1. Draft(Unpatched(r, old))
      BY <2>2, DraftUpdateAll, KindsOfChanges, Tables DEF Unpatched
    <3> QED
      BY <3>1, DraftPatched
  <2> HIDE DEF w
  <2> QED
    BY <2>1, <2>2, <2>3 DEF Decides
<1> QED
  BY <1>1, <1>2

LEMMA SwitchingDecides ==
  ASSUME WellTyped(db), NEW s, Switching(s)
  PROVE  Decides(s)
<1>1. ASSUME NEW x \in Room, SwitchCreate(s, x)
      PROVE  Decides(s)
  <2> DEFINE w == NewId("host")
  <2>1. w \in Ids["host"] /\ w \in Ids["switch"]
    BY <1>1, NewIdTyped, NetworkAssumption DEF SwitchCreate
  <2>2. \E op, seen : Decide(s, op, seen, NewSwitch(w, x))
    BY <1>1 DEF SwitchCreate
  <2> HIDE DEF w
  <2>3. Draft(NewSwitch(w, x))
    BY <2>1, DraftNothing, DraftWithHost, DraftInsert, KindsOfRows, Tables DEF NewSwitch
  <2> QED
    BY <2>2, <2>3 DEF Decides
<1>2. ASSUME NEW w, NEW x \in Room, SwitchEdit(s, w, x)
      PROVE  Decides(s)
  <2>1. Draft(EditedSwitch(w, x))
    BY DraftNothing, DraftUpdate, KindsOfChanges, Tables DEF EditedSwitch
  <2> QED
    BY <1>2, <2>1 DEF SwitchEdit, Decides
<1>3. ASSUME NEW w, SwitchDelete(s, w)
      PROVE  Decides(s)
  <2>1. Draft(WithoutSwitch(w))
    BY DraftNothing, DraftDelete, Tables DEF WithoutSwitch
  <2> QED
    BY <1>3, <2>1 DEF SwitchDelete, Decides
<1>4. ASSUME NEW p, SwitchPortDelete(s, p)
      PROVE  Decides(s)
  <2>1. Draft(WithoutPort(p))
    BY DraftNothing, DraftDelete, Tables DEF WithoutPort
  <2> QED
    BY <1>4, <2>1 DEF SwitchPortDelete, Decides
<1>5. \A subnets \in {<< >>} \cup {<<n>> : n \in Subnet} : subnets \in Seq(Subnet)
  <2>1. << >> \in Seq(Subnet)
    OBVIOUS
  <2>2. ASSUME NEW n \in Subnet
        PROVE  <<n>> \in Seq(Subnet)
    OBVIOUS
  <2> QED
    BY <2>1, <2>2
<1> QED
  BY <1>1, <1>2, <1>3, <1>4, <1>5, PortsDecide DEF Switching

----------------------------------------------------------------------------
(* Steps keep the invariant. *)

LEMMA InitEstablishes == Init => IInv
BY FirstAssumption, NetworkAssumption DEF Init, IInv, TypeOK, PendingSound, WellTyped

LEMMA DecisionKeeps ==
  ASSUME IInv, NEW s \in Session, Decides(s)
  PROVE  IInv'
<1>1. PICK op, seen, r : Draft(r) /\ Decide(s, op, seen, r)
  BY DEF Decides
<1> DEFINE w == Decided(r, op, seen)
<1>2. /\ requests < MaxRequests /\ requests' = requests + 1 /\ db' = db
      /\ request' = [request EXCEPT ![s] = w]
      /\ given' = [t \in DOMAIN db |-> given[t] \cup (DOMAIN r.new[t] \cap Ids[t])]
  BY <1>1 DEF Decide, Pending, Decided
<1>3. DOMAIN db = Table /\ \A t \in Table : given[t] \subseteq Ids[t]
  BY DEF IInv, TypeOK, WellTyped
<1>4. \A t \in Table : given'[t] = given[t] \cup (DOMAIN r.new[t] \cap Ids[t])
  BY <1>2, <1>3
<1>5. TypeOK'
  <2>1. requests' \in 0 .. MaxRequests
    BY <1>2, NetworkAssumption DEF IInv, TypeOK
  <2>2. (WellTyped(db) /\ References(db) /\ Uniques(db))'
    BY <1>2 DEF IInv, TypeOK
  <2>3. \A t \in Table : DOMAIN db'[t] \subseteq given'[t] /\ given'[t] \subseteq Ids[t]
    BY <1>2, <1>3, <1>4 DEF IInv, TypeOK
  <2> QED
    BY <2>1, <2>2, <2>3 DEF TypeOK
<1>6. Sound(w)'
  <2>1. Draft(w) /\ w.new = r.new
    <3>1. Shape(r)
      BY <1>1 DEF Draft
    <3>2. Shape(w) /\ w.new = r.new /\ w.set = r.set /\ w.drop = r.drop
      BY <3>1, ShapeDecided
    <3> HIDE DEF w
    <3> QED
      BY <1>1, <3>2 DEF Draft
  <2>2. \A t \in Table : DOMAIN r.new[t] \subseteq given'[t]
    BY <1>1, <1>4 DEF Draft
  <2> HIDE DEF w
  <2> QED
    BY <2>1, <2>2 DEF Sound
<1> HIDE DEF w
<1>7. ASSUME NEW o \in Session, request'[o] # None
      PROVE  Sound(request[o])'
  <2>1. CASE o = s
    <3>1. request'[o] = w
      BY <1>2, <2>1 DEF IInv
    <3> QED
      BY <3>1, <1>6 DEF Sound
  <2>2. CASE o # s
    <3>1. request'[o] = request[o]
      BY <1>2, <2>2 DEF IInv
    <3>2. Sound(request[o])
      BY <3>1, <1>7 DEF IInv, PendingSound
    <3> QED
      BY <3>1, <3>2, <1>4 DEF Sound
  <2> QED
    BY <2>1, <2>2
<1>8. DOMAIN request' = Session
  BY <1>2 DEF IInv
<1> QED
  BY <1>5, <1>7, <1>8 DEF IInv, PendingSound

(* The requests of others are still sound when they have been overtaken.   *)
LEMMA OvertakenSound ==
  ASSUME IInv, NEW s, NEW keys
  PROVE  /\ DOMAIN Overtaken(s, keys) = Session
         /\ \A o \in Session : Overtaken(s, keys)[o] # None => Sound(Overtaken(s, keys)[o])
<1>1. ASSUME NEW o \in Session, Overtaken(s, keys)[o] # None
      PROVE  Sound(Overtaken(s, keys)[o])
  <2>1. /\ request[o] # None
        /\ Overtaken(s, keys)[o] =
             [request[o] EXCEPT !.fresh = request[o].fresh /\ request[o].seen \cap keys = {}]
    BY <1>1 DEF Overtaken
  <2>2. Sound(request[o])
    BY <2>1 DEF IInv, PendingSound
  <2> DEFINE fresh == request[o].fresh /\ request[o].seen \cap keys = {}
             r == request[o]
             q == [r EXCEPT !.fresh = fresh]
  <2>3. Shape(r)
    BY <2>2 DEF Sound, Draft
  <2>4. Shape(q) /\ q.new = r.new /\ q.set = r.set /\ q.drop = r.drop
    <3>1. fresh \in BOOLEAN
      OBVIOUS
    <3> HIDE DEF fresh, r
    <3> QED
      BY <2>3, <3>1, ShapeFresh
  <2>5. Sound(q)
    <3> HIDE DEF q
    <3> QED
      BY <2>2, <2>4 DEF Sound, Draft
  <2> QED
    BY <2>1, <2>5
<1> QED
  BY <1>1 DEF Overtaken

(* A row as a sound request leaves it *)
LEMMA RowTyped ==
  ASSUME WellTyped(db), NEW r, Draft(r), NEW t \in Table, NEW id,
         id \in DOMAIN db[t] \/ id \in DOMAIN r.new[t]
  PROVE  IsRow(t, RowIn(r, t, id))
<1>1. CASE id \in DOMAIN r.new[t]
  BY <1>1 DEF RowIn, Draft
<1>2. CASE id \notin DOMAIN r.new[t] /\ id \in DOMAIN r.set[t]
  <2> DEFINE f == r.set[t][id]
             g == db[t][id]
  <2>1. RowIn(r, t, id) = Over(f, g)
    BY <1>2 DEF RowIn
  <2>2. IsChange(t, f) /\ IsRow(t, g)
    BY <1>2 DEF Draft, WellTyped
  <2> HIDE DEF f, g
  <2>3. /\ DOMAIN Over(f, g) = DOMAIN f \cup DOMAIN g
        /\ \A x \in DOMAIN f : Over(f, g)[x] = f[x]
        /\ \A x \in DOMAIN g \ DOMAIN f : Over(f, g)[x] = g[x]
    BY OverFacts
  <2>4. Changing[t] \subseteq Columns[t]
    BY DEF Changing, Columns, Table
  <2>5. DOMAIN Over(f, g) = Columns[t]
    BY <2>2, <2>3, <2>4 DEF IsChange, IsRow
  <2>6. ASSUME NEW column \in DOMAIN Over(f, g)
        PROVE  IsValue(t, column, Over(f, g)[column])
    BY <2>2, <2>3 DEF IsRow, IsChange
  <2> QED
    BY <2>1, <2>5, <2>6 DEF IsRow
<1>3. CASE id \notin DOMAIN r.new[t] /\ id \notin DOMAIN r.set[t]
  BY <1>3 DEF RowIn, WellTyped
<1> QED
  BY <1>1, <1>2, <1>3

LEMMA CommitKeeps ==
  ASSUME IInv, NEW s \in Session, Commit(s)
  PROVE  IInv'
<1> DEFINE r == request[s]
           gone == Gone(r)
<1>1. /\ r # None /\ Accepted(r)
      /\ db' = Written(r) /\ UNCHANGED <<given, requests>>
      /\ \E keys : request' = Overtaken(s, keys)
  BY DEF Commit
<1>2. Draft(r) /\ \A t \in Table : DOMAIN r.new[t] \subseteq given[t]
  BY <1>1 DEF IInv, PendingSound, Sound
<1>3. /\ WellTyped(db) /\ requests \in 0 .. MaxRequests
      /\ \A t \in Table : DOMAIN db[t] \subseteq given[t] /\ given[t] \subseteq Ids[t]
  BY DEF IInv, TypeOK
<1> HIDE DEF r
<1>4. DOMAIN Written(r) = Table
  BY DEF Written
<1>5. ASSUME NEW t \in Table
      PROVE  /\ DOMAIN Written(r)[t] \subseteq given[t]
             /\ \A id \in DOMAIN Written(r)[t] : IsRow(t, Written(r)[t][id])
  <2> DEFINE left == WrittenRows(r, t, gone[t])
             cut(x) == IF x.switch_port \in gone.switch_port THEN [x EXCEPT !.switch_port = None] ELSE x
             cuts == [q \in DOMAIN left |-> cut(left[q])]
  <2>1. Written(r)[t] = IF t # "patch_port" THEN left ELSE cuts
    BY DEF Written
  <2>2. /\ DOMAIN left \subseteq DOMAIN db[t] \cup DOMAIN r.new[t]
        /\ \A id \in DOMAIN left : left[id] = RowIn(r, t, id)
    BY DEF WrittenRows
  <2>3. DOMAIN left \subseteq given[t] /\ \A id \in DOMAIN left : IsRow(t, left[id])
    <3> HIDE DEF left
    <3> QED
      BY <1>2, <1>3, <2>2, RowTyped
  <2>4. CASE t # "patch_port"
    BY <2>1, <2>3, <2>4
  <2>5. CASE t = "patch_port"
    <3> HIDE DEF left, gone
    <3>1. DOMAIN cuts = DOMAIN left /\ \A id \in DOMAIN left : cuts[id] = cut(left[id])
      OBVIOUS
    <3>2. ASSUME NEW id \in DOMAIN left
          PROVE  IsRow(t, cut(left[id]))
      <4>1. /\ DOMAIN cut(left[id]) = DOMAIN left[id]
            /\ \A column \in DOMAIN left[id] : column # "switch_port" => cut(left[id])[column] = left[id][column]
        OBVIOUS
      <4>2. \A v : IsValue(t, "switch_port", v)
        BY DEF IsValue
      <4> HIDE DEF cut
      <4> QED
        BY <2>3, <2>5, <4>1, <4>2 DEF IsRow
    <3> HIDE DEF cuts, cut
    <3>3. Written(r)[t] = cuts
      BY <2>1, <2>5
    <3> QED
      BY <2>3, <3>1, <3>2, <3>3
  <2> QED
    BY <2>4, <2>5
<1>6. WellTyped(Written(r))
  BY <1>3, <1>4, <1>5 DEF WellTyped
<1>7. References(Written(r)) /\ Uniques(Written(r))
  BY <1>1 DEF Accepted
<1>8. TypeOK'
  <2>1. (WellTyped(db) /\ References(db) /\ Uniques(db))'
    BY <1>1, <1>6, <1>7
  <2>2. requests' \in 0 .. MaxRequests
    BY <1>1, <1>3
  <2>3. \A t \in Table : DOMAIN db'[t] \subseteq given'[t] /\ given'[t] \subseteq Ids[t]
    BY <1>1, <1>3, <1>5
  <2> QED
    BY <2>1, <2>2, <2>3 DEF TypeOK
<1>9. DOMAIN request' = Session /\ PendingSound'
  <2>1. PICK keys : request' = Overtaken(s, keys)
    BY <1>1
  <2>2. DOMAIN request' = Session /\ \A o \in Session : request'[o] # None => Sound(request'[o])
    BY <2>1, OvertakenSound
  <2>3. ASSUME NEW o \in Session, request'[o] # None
        PROVE  Sound(request[o])'
    BY <2>2, <2>3, <1>1 DEF Sound
  <2> QED
    BY <2>2, <2>3 DEF PendingSound
<1> QED
  BY <1>8, <1>9 DEF IInv

LEMMA AbandonKeeps ==
  ASSUME IInv, NEW s \in Session, Abandon(s)
  PROVE  IInv'
<1>1. request' = [request EXCEPT ![s] = None] /\ UNCHANGED <<db, given, requests>>
  BY DEF Abandon
<1>2. TypeOK'
  BY <1>1 DEF IInv, TypeOK
<1>3. ASSUME NEW o \in Session, request'[o] # None
      PROVE  Sound(request[o])'
  <2>1. request'[o] = request[o] /\ given' = given
    BY <1>1, <1>3 DEF IInv
  <2> QED
    BY <2>1, <1>3 DEF IInv, PendingSound, Sound
<1>4. DOMAIN request' = Session
  BY <1>1 DEF IInv
<1> QED
  BY <1>2, <1>3, <1>4 DEF IInv, PendingSound

LEMMA ExpireKeeps ==
  ASSUME IInv, NEW m \in DOMAIN db.membership, Expire(m)
  PROVE  IInv'
<1>1. /\ db' = [db EXCEPT !.membership = [o \in DOMAIN @ \ {m} |-> @[o]]]
      /\ request' = Overtaken(None, {UserKey(m[1])}) /\ UNCHANGED <<given, requests>>
  BY DEF Expire
<1>2. DOMAIN db = Table
  BY DEF IInv, TypeOK, WellTyped
<1>3. /\ DOMAIN db' = Table
      /\ \A t \in Table \ {"membership"} : db'[t] = db[t]
      /\ db'["membership"] = [o \in DOMAIN db.membership \ {m} |-> db.membership[o]]
  BY <1>1, <1>2, Tables
<1>4. /\ DOMAIN db'["membership"] = DOMAIN db.membership \ {m}
      /\ \A o \in DOMAIN db'["membership"] : db'["membership"][o] = db["membership"][o]
  BY <1>3
<1>5. \A t \in Table : /\ DOMAIN db'[t] \subseteq DOMAIN db[t]
                       /\ \A id \in DOMAIN db'[t] : db'[t][id] = db[t][id]
  BY <1>3, <1>4, Tables
<1>6. TypeOK'
  <2>1. WellTyped(db)'
    BY <1>3, <1>5 DEF IInv, TypeOK, WellTyped
  <2>2. References(db)'
    <3>1. \A o \in DOMAIN db'["membership"] : o[1] \in DOMAIN db'["user"]
      BY <1>3, <1>4, Tables DEF IInv, TypeOK, References
    <3> QED
      BY <1>3, <3>1, Tables DEF IInv, TypeOK, References
  <2>3. Uniques(db)'
    BY <1>3, Tables DEF IInv, TypeOK, Uniques, UniqueIn
  <2>4. requests' \in 0 .. MaxRequests
    BY <1>1 DEF IInv, TypeOK
  <2>5. \A t \in Table : DOMAIN db'[t] \subseteq given'[t] /\ given'[t] \subseteq Ids[t]
    BY <1>1, <1>5 DEF IInv, TypeOK
  <2> QED
    BY <2>1, <2>2, <2>3, <2>4, <2>5 DEF TypeOK
<1>7. DOMAIN request' = Session /\ \A o \in Session : request'[o] # None => Sound(request'[o])
  BY <1>1, OvertakenSound
<1>8. PendingSound'
  BY <1>1, <1>7 DEF PendingSound, Sound
<1> QED
  BY <1>6, <1>7, <1>8 DEF IInv

LEMMA NextKeeps ==
  ASSUME IInv, [Next]_rows
  PROVE  IInv'
<1>1. WellTyped(db) /\ References(db)
  BY DEF IInv, TypeOK
<1>2. ASSUME NEW s \in Session, Begin(s)
      PROVE  IInv'
  BY <1>1, <1>2, DecisionKeeps, HostingDecides, InterfacingDecides, MpskDecides,
     PatchingDecides, SwitchingDecides DEF Begin
<1>3. CASE UNCHANGED rows
  BY <1>3 DEF IInv, TypeOK, PendingSound, Sound, rows
<1> QED
  BY <1>2, <1>3, CommitKeeps, AbandonKeeps, ExpireKeeps DEF Next

----------------------------------------------------------------------------
(* RADIUS and DHCP. *)

(* The groups of a device at a port of its room.                           *)
LEMMA GroupsAtPort ==
  ASSUME NEW i, NEW p, At(i, p)
  PROVE  radusergroup(i, p) = AccessRows(i, p) \cup CustomRows(i, p) \cup RefusalRows(i, p)
BY DEF radusergroup

(* What is asked of the groups that a row can name.                        *)
LEMMA GroupFacts ==
  /\ \A n \in Subnet : FallThrough(n) /\ Vlans(n) = {n} /\ ~ Replaces(n)
  /\ \A x \in DOMAIN Radius : ~ Radius[x] => FallThrough(x) /\ Vlans(x) = {} /\ ~ Replaces(x)
  /\ \A x \in DOMAIN Radius : Radius[x] => ~ FallThrough(x) /\ Vlans(x) = {Unauth} /\ Replaces(x)
  /\ LET x == "no_network_access" IN ~ FallThrough(x) /\ Vlans(x) = {Unauth} /\ Replaces(x)
BY HadesAssumption DEF FallThrough, Vlans, Replaces, Custom

(* Blocked at a port: the group that blocks comes first.                   *)
LEMMA BlockedAnswer ==
  ASSUME NEW i, NEW p, At(i, p), Blocked(OwnerOf(i))
  PROVE  Answer(i, p) = {Unauth}
<1> DEFINE all  == radusergroup(i, p)
           read == {r \in all : \A o \in all : o[1] < r[1] => FallThrough(o[2])}
<1>1. PICK x \in DOMAIN Radius : Radius[x] /\ Has(OwnerOf(i), x)
  BY DEF Blocked
<1>2. <<-10, x>> \in all
  BY <1>1, GroupsAtPort DEF CustomRows
<1>3. \A o \in all : o[1] \in {-10, 0, 10, 20}
  BY GroupsAtPort DEF AccessRows, CustomRows, RefusalRows
<1>4. <<-10, x>> \in read
  <2> HIDE DEF all
  <2> QED
    BY <1>2, <1>3
<1>5. \E r \in read : Replaces(r[2])
  <2> HIDE DEF read
  <2> QED
    BY <1>1, <1>4, GroupFacts
<1>6. Answer(i, p) = IF \E r \in read : Replaces(r[2]) THEN {Unauth} ELSE UNION {Vlans(r[2]) : r \in read}
  BY DEF Answer
<1> HIDE DEF read
<1> QED
  BY <1>5, <1>6

(* Not blocked, and not granted network access: refused.                   *)
LEMMA RefusedAnswer ==
  ASSUME NEW i, NEW p, At(i, p), ~ Blocked(OwnerOf(i)), ~ MayUse(OwnerOf(i))
  PROVE  Answer(i, p) = {Unauth}
<1> DEFINE all  == radusergroup(i, p)
           read == {r \in all : \A o \in all : o[1] < r[1] => FallThrough(o[2])}
<1>1. <<0, "no_network_access">> \in all
  BY GroupsAtPort DEF RefusalRows
<1>2. \A o \in all : o[1] \in {0, 10}
  BY GroupsAtPort DEF AccessRows, CustomRows, RefusalRows, Blocked
<1>3. <<0, "no_network_access">> \in read
  <2> HIDE DEF all
  <2> QED
    BY <1>1, <1>2
<1>4. \E r \in read : Replaces(r[2])
  <2> HIDE DEF read
  <2> QED
    BY <1>3, GroupFacts
<1>5. Answer(i, p) = IF \E r \in read : Replaces(r[2]) THEN {Unauth} ELSE UNION {Vlans(r[2]) : r \in read}
  BY DEF Answer
<1> HIDE DEF read
<1> QED
  BY <1>4, <1>5

(* Not blocked, and granted network access: the VLANs of the device.       *)
LEMMA ServedAnswer ==
  ASSUME NEW i, NEW p, At(i, p), ~ Blocked(OwnerOf(i)), MayUse(OwnerOf(i))
  PROVE  Answer(i, p) = VlansOf(i)
<1> DEFINE all  == radusergroup(i, p)
           read == {r \in all : \A o \in all : o[1] < r[1] => FallThrough(o[2])}
           custom == {x \in DOMAIN Radius : ~ Radius[x]}
<1>1. \A o \in all : \/ \E n \in VlansOf(i) : o = <<20, n>>
                     \/ \E x \in custom : o = <<10, x>>
  BY GroupsAtPort DEF AccessRows, CustomRows, RefusalRows, Blocked
<1>2. \A n \in VlansOf(i) : <<20, n>> \in all
  BY GroupsAtPort DEF AccessRows
<1>3. VlansOf(i) \subseteq Subnet
  BY DEF VlansOf
<1>4. \A o \in all : FallThrough(o[2]) /\ ~ Replaces(o[2])
  <2> HIDE DEF all
  <2> QED
    BY <1>1, <1>3, GroupFacts
<1>5. read = all
  <2> HIDE DEF all
  <2> QED
    BY <1>4
<1>6. UNION {Vlans(r[2]) : r \in read} = VlansOf(i)
  <2>1. ASSUME NEW r \in all
        PROVE  Vlans(r[2]) \subseteq VlansOf(i)
    <3> HIDE DEF all
    <3> QED
      BY <1>1, <1>3, GroupFacts
  <2>2. ASSUME NEW n \in VlansOf(i)
        PROVE  \E r \in all : n \in Vlans(r[2])
    <3> HIDE DEF all
    <3> QED
      BY <1>2, <1>3, GroupFacts
  <2> HIDE DEF all, read
  <2> QED
    BY <1>5, <2>1, <2>2
<1>7. Answer(i, p) = IF \E r \in read : Replaces(r[2]) THEN {Unauth} ELSE UNION {Vlans(r[2]) : r \in read}
  BY DEF Answer
<1> HIDE DEF all, read
<1> QED
  BY <1>4, <1>5, <1>6, <1>7

(* Whoever is blocked or not granted network access is cut off, whatever   *)
(* the rows are, and nobody else.                                          *)
LEMMA CutOff == BlockedAreCutOff
<1>1. ASSUME NEW i \in Devices, NEW p \in Ports, At(i, p)
      PROVE  ~ MayUse(OwnerOf(i)) \/ Blocked(OwnerOf(i)) <=> Answer(i, p) = {Unauth}
  <2>1. CASE Blocked(OwnerOf(i))
    BY <1>1, <2>1, BlockedAnswer
  <2>2. CASE ~ Blocked(OwnerOf(i)) /\ ~ MayUse(OwnerOf(i))
    BY <1>1, <2>2, RefusedAnswer
  <2>3. CASE ~ Blocked(OwnerOf(i)) /\ MayUse(OwnerOf(i))
    <3>1. Answer(i, p) = VlansOf(i) /\ VlansOf(i) \subseteq Subnet
      BY <1>1, <2>3, ServedAnswer DEF VlansOf
    <3> QED
      BY <3>1, <2>3, HadesAssumption
  <2> QED
    BY <2>1, <2>2, <2>3
<1> QED
  BY <1>1 DEF BlockedAreCutOff

(* RADIUS serves those whom DHCP serves, but for those who are blocked.    *)
LEMMA Served == ServedByBoth
<1>1. ASSUME NEW i \in Devices, NEW p \in Ports, At(i, p)
      PROVE  LET into == Answer(i, p) \cap Subnet
                 at   == {n \in Subnet : dhcphost(i) \cap Usable[n] # {}}
             IN  into = at \/ (into = {} /\ Blocked(OwnerOf(i)))
  <2>1. CASE Blocked(OwnerOf(i))
    <3>1. Answer(i, p) = {Unauth}
      BY <1>1, <2>1, BlockedAnswer
    <3> QED
      BY <3>1, <2>1, HadesAssumption
  <2>2. CASE ~ Blocked(OwnerOf(i)) /\ MayUse(OwnerOf(i))
    <3>1. Answer(i, p) = VlansOf(i)
      BY <1>1, <2>2, ServedAnswer
    <3> QED
      BY <3>1, <2>2 DEF VlansOf, dhcphost
  <2>3. CASE ~ Blocked(OwnerOf(i)) /\ ~ MayUse(OwnerOf(i))
    <3>1. Answer(i, p) = {Unauth}
      BY <1>1, <2>3, RefusedAnswer
    <3> QED
      BY <3>1, <2>3, HadesAssumption DEF dhcphost
  <2> QED
    BY <2>1, <2>2, <2>3
<1> QED
  BY <1>1 DEF ServedByBoth

(* Whatever requests are begun, interleave, commit or are abandoned: rows  *)
(* are of the right kind, keys lead somewhere, MACs and patches are unique *)
(* and addresses are ones of the subnets; and RADIUS and DHCP, reading     *)
(* such rows, agree on whom they serve, but for those whom only a property *)
(* blocks and whom DHCP does not know to be blocked (model/hades.py).      *)
THEOREM NetworkStaysSound == Spec => []NetworkInv
<1>1. Init => IInv
  BY InitEstablishes
<1>2. IInv /\ [Next]_rows => IInv'
  BY NextKeeps
<1>3. IInv => NetworkInv
  BY CutOff, Served DEF IInv, NetworkInv
<1> QED
  BY <1>1, <1>2, <1>3, PTL DEF Spec

----------------------------------------------------------------------------
(* What a commit writes *)

(* What a commit leaves of a request: the value of a column of a row.      *)
Sets(r, t, id, c) == id \in DOMAIN r.set[t] /\ c \in DOMAIN r.set[t][id]

Value(r, t, id, c) ==
  IF id \in DOMAIN r.new[t] THEN r.new[t][id][c]
  ELSE IF Sets(r, t, id, c) THEN r.set[t][id][c] ELSE db[t][id][c]

(* Deleting a switch port leaves its patch port without a patch.           *)
IsCut(r, t, id, c) ==
  /\ t = "patch_port" /\ c = "switch_port"
  /\ Value(r, t, id, c) \in Gone(r).switch_port /\ db'[t][id][c] = None

Writes(r) ==
  \A t \in Table :
    /\ DOMAIN db'[t] = (DOMAIN db[t] \ Gone(r)[t]) \cup DOMAIN r.new[t]
    /\ DOMAIN r.new[t] \cap DOMAIN db[t] = {}
    /\ DOMAIN r.set[t] \subseteq DOMAIN db[t]
    /\ \A id \in DOMAIN db'[t] : \A c \in Columns[t] :
         db'[t][id][c] = Value(r, t, id, c) \/ IsCut(r, t, id, c)

(* A row as the request leaves it, column by column                        *)
LEMMA ValueIs ==
  ASSUME WellTyped(db), NEW r, Draft(r), NEW t \in Table, NEW id, NEW c \in Columns[t],
         id \in DOMAIN db[t] \/ id \in DOMAIN r.new[t]
  PROVE  RowIn(r, t, id)[c] = Value(r, t, id, c)
<1>1. CASE id \in DOMAIN r.new[t] \/ id \notin DOMAIN r.set[t]
  BY <1>1 DEF RowIn, Value, Sets
<1>2. CASE id \notin DOMAIN r.new[t] /\ id \in DOMAIN r.set[t]
  <2> DEFINE f == r.set[t][id]
             g == db[t][id]
  <2>1. RowIn(r, t, id) = Over(f, g) /\ DOMAIN g = Columns[t]
    BY <1>2 DEF RowIn, WellTyped, IsRow
  <2>2. Value(r, t, id, c) = IF c \in DOMAIN f THEN f[c] ELSE g[c]
    BY <1>2 DEF Value, Sets
  <2> HIDE DEF f, g
  <2>3. /\ \A x \in DOMAIN f : Over(f, g)[x] = f[x]
        /\ \A x \in DOMAIN g \ DOMAIN f : Over(f, g)[x] = g[x]
    BY OverFacts
  <2> QED
    BY <2>1, <2>2, <2>3
<1> QED
  BY <1>1, <1>2

(* A commit writes what the request says, and deletes what is gone.        *)
LEMMA CommitWrites ==
  ASSUME IInv, NEW s \in Session, Commit(s)
  PROVE  Draft(request[s]) /\ Writes(request[s])
<1> DEFINE r == request[s]
           gone == Gone(r)
<1>1. r # None /\ Accepted(r) /\ db' = Written(r)
  BY DEF Commit
<1>2. Draft(r) /\ WellTyped(db)
  BY <1>1 DEF IInv, PendingSound, Sound, TypeOK
<1> HIDE DEF r
<1>3. ASSUME NEW t \in Table
      PROVE  /\ DOMAIN db'[t] = (DOMAIN db[t] \ gone[t]) \cup DOMAIN r.new[t]
             /\ \A id \in DOMAIN db'[t] : \A c \in Columns[t] :
                  db'[t][id][c] = Value(r, t, id, c) \/ IsCut(r, t, id, c)
  <2> DEFINE left == WrittenRows(r, t, gone[t])
             cut(x) == IF x.switch_port \in gone.switch_port THEN [x EXCEPT !.switch_port = None] ELSE x
             cuts == [q \in DOMAIN left |-> cut(left[q])]
  <2>1. db'[t] = IF t # "patch_port" THEN left ELSE cuts
    BY <1>1 DEF Written
  <2>2. /\ DOMAIN left = (DOMAIN db[t] \ gone[t]) \cup DOMAIN r.new[t]
        /\ \A id \in DOMAIN left : left[id] = RowIn(r, t, id)
    BY DEF WrittenRows
  <2>3. DOMAIN cuts = DOMAIN left /\ \A id \in DOMAIN left : cuts[id] = cut(left[id])
    OBVIOUS
  <2> HIDE DEF left, cuts, gone
  <2>4. ASSUME NEW id \in DOMAIN left
        PROVE  IsRow(t, left[id]) /\ \A c \in Columns[t] : left[id][c] = Value(r, t, id, c)
    BY <1>2, <2>2, RowTyped, ValueIs
  <2>5. CASE t # "patch_port"
    BY <2>1, <2>2, <2>4, <2>5
  <2>6. CASE t = "patch_port"
    <3>1. db'[t] = cuts
      BY <2>1, <2>6
    <3>2. ASSUME NEW id \in DOMAIN left, NEW c \in Columns[t]
          PROVE  db'[t][id][c] = Value(r, t, id, c) \/ IsCut(r, t, id, c)
      <4>1. db'[t][id] = cut(left[id]) /\ left[id][c] = Value(r, t, id, c) /\ DOMAIN left[id] = Columns[t]
        BY <2>3, <2>4, <3>1 DEF IsRow
      <4>2. CASE c = "switch_port" /\ left[id].switch_port \in gone.switch_port
        BY <4>1, <4>2, <2>6 DEF IsCut, gone
      <4>3. CASE ~ (c = "switch_port" /\ left[id].switch_port \in gone.switch_port)
        BY <4>1, <4>3
      <4> QED
        BY <4>2, <4>3
    <3> QED
      BY <2>2, <2>3, <3>1, <3>2
  <2> QED
    BY <2>5, <2>6
<1>4. ASSUME NEW t \in Table
      PROVE  DOMAIN r.new[t] \cap DOMAIN db[t] = {} /\ DOMAIN r.set[t] \subseteq DOMAIN db[t]
  BY <1>1, <1>2 DEF Accepted, UpdatesFindRows, InsertsAreNew, WellTyped
<1> QED
  BY <1>2, <1>3, <1>4 DEF Writes, r

(* Who is asked for, whom the others have left alone, has committed.       *)
LEMMA FreshCommits ==
  ASSUME IInv, [Next]_rows, NEW s \in Session, NEW ops, Fresh(ops, s)
  PROVE  Commit(s) /\ request[s].fresh /\ request[s].op \in ops
<1> DEFINE r == request[s]
           lost == [r EXCEPT !.fresh = FALSE]
<1>1. db' # db /\ r # None /\ r.fresh /\ r.op \in ops /\ request'[s] \notin {r, lost}
  BY DEF Fresh
<1>2. Shape(r)
  BY <1>1 DEF IInv, PendingSound, Sound, Draft
<1>3. ASSUME NEW o, NEW keys, request' = Overtaken(o, keys)
      PROVE  o = s
  <2> SUFFICES ASSUME o # s PROVE FALSE
    OBVIOUS
  <2> DEFINE b == r.seen \cap keys = {}
  <2>1. request'[s] = [r EXCEPT !.fresh = b]
    BY <1>1, <1>3 DEF Overtaken
  <2>2. r = [r EXCEPT !.fresh = TRUE]
    <3> HIDE DEF r
    <3> QED
      BY <1>1, <1>2 DEF Shape
  <2>3. CASE b
    BY <1>1, <2>1, <2>2, <2>3
  <2>4. CASE ~ b
    BY <1>1, <2>1, <2>4
  <2> QED
    BY <2>3, <2>4
<1>4. ASSUME NEW o \in Session, Begin(o)
      PROVE  UNCHANGED db
  <2>1. WellTyped(db) /\ References(db)
    BY DEF IInv, TypeOK
  <2>2. Decides(o)
    BY <1>4, <2>1, HostingDecides, InterfacingDecides, MpskDecides, PatchingDecides,
       SwitchingDecides DEF Begin
  <2> QED
    BY <2>2 DEF Decides, Decide
<1>5. PICK o \in Session : Commit(o)
  <2>1. ASSUME NEW m \in DOMAIN db.membership, Expire(m)
        PROVE  FALSE
    BY <2>1, <1>3, NetworkAssumption DEF Expire
  <2> QED
    BY <1>1, <1>4, <2>1 DEF Next, Abandon, rows
<1>6. o = s
  BY <1>3, <1>5 DEF Commit
<1> QED
  BY <1>1, <1>5, <1>6

(* The patch panel *)
LEMMA CommitKeepsPatches ==
  ASSUME IInv, NEW s \in Session, Commit(s), NEW q \in DOMAIN db.patch_port \cap DOMAIN db'.patch_port,
         InSwitchRoom(db, q),
         \A w \in DOMAIN db.switch \cap DOMAIN db'.switch : db.host[w].room = db'.host[w].room
  PROVE  InSwitchRoom(db', q)
<1> DEFINE r == request[s]
<1>1. Draft(r) /\ Writes(r)
  BY CommitWrites
<1>2. Trigger(db', r)
  BY DEF Commit, Accepted
<1>3. IInv'
  BY CommitKeeps
<1> HIDE DEF r
<1>4. CASE q \in DOMAIN r.set["patch_port"]
  BY <1>2, <1>4 DEF Trigger
<1>5. CASE q \notin DOMAIN r.set["patch_port"]
  <2> DEFINE p == db'["patch_port"][q].switch_port
  <2> SUFFICES ASSUME p # None
               PROVE  db'["host"][db'["switch_port"][p].switch].room = db'["patch_port"][q].switch_room
    BY DEF InSwitchRoom
  <2>1. q \notin DOMAIN r.new["patch_port"]
    BY <1>1, Tables DEF Writes
  <2>2. db["patch_port"][q].switch_port = p /\ db'["patch_port"][q].switch_room = db["patch_port"][q].switch_room
    BY <1>1, <1>5, <2>1, Tables DEF Writes, Value, Sets, IsCut, Columns
  <2>3. p \in DOMAIN db["switch_port"] /\ p \in DOMAIN db'["switch_port"]
    BY <1>3, <2>2 DEF IInv, TypeOK, References
  <2> HIDE DEF p
  <2>4. p \notin DOMAIN r.new["switch_port"]
    BY <1>1, <2>3, Tables DEF Writes
  <2>5. ~ Sets(r, "switch_port", p, "switch")
    <3>1. p \in DOMAIN r.set["switch_port"] => DOMAIN r.set["switch_port"][p] \subseteq {"subnets"}
      BY <1>1, Tables DEF Draft, IsChange, Changing
    <3> QED
      BY <3>1 DEF Sets
  <2>6. db'["switch_port"][p].switch = db["switch_port"][p].switch
    BY <1>1, <2>3, <2>4, <2>5, Tables DEF Writes, Value, IsCut, Columns
  <2> DEFINE w == db["switch_port"][p].switch
  <2>7. w \in DOMAIN db["switch"] /\ w \in DOMAIN db'["switch"]
    BY <1>3, <2>3, <2>6 DEF IInv, TypeOK, References
  <2>8. db["host"][w].room = db["patch_port"][q].switch_room
    BY <2>2 , p # None DEF InSwitchRoom
  <2> QED
    BY <2>2, <2>6, <2>7, <2>8
<1> QED
  BY <1>4, <1>5

(* What an UPDATE adds to a request.                                       *)
Adds(t, S, fields, o, i, c) ==
  o = t /\ i \in S /\ c \in DOMAIN fields /\ fields[c] # db[t][i][c]

SetsMore(q, r, t, S, fields) ==
  /\ Draft(q) /\ q.new = r.new /\ q.drop = r.drop
  /\ \A o \in Table : \A i, c :
       /\ Sets(q, o, i, c) <=> Sets(r, o, i, c) \/ Adds(t, S, fields, o, i, c)
       /\ Adds(t, S, fields, o, i, c) => q.set[o][i][c] = fields[c]
       /\ ~ Adds(t, S, fields, o, i, c) /\ Sets(r, o, i, c) => q.set[o][i][c] = r.set[o][i][c]

(* The fields of an update: those that differ, and those there before      *)
LEMMA RowOfIs ==
  ASSUME NEW r, NEW t, NEW id, NEW fields
  PROVE  /\ DOMAIN RowOf(r, t, id, fields) = Differs(t, id, fields) \cup DOMAIN Before(r, t, id)
         /\ \A c : RowOf(r, t, id, fields)[c] =
                    IF c \in Differs(t, id, fields) THEN fields[c]
                    ELSE IF c \in DOMAIN Before(r, t, id) THEN r.set[t][id][c]
                    ELSE RowOf(r, t, id, fields)[c]
<1> DEFINE part == [f \in Differs(t, id, fields) |-> fields[f]]
<1>1. RowOf(r, t, id, fields) = Over(part, Before(r, t, id))
  BY DEF RowOf
<1>2. DOMAIN part = Differs(t, id, fields) /\ \A c \in DOMAIN part : part[c] = fields[c]
  OBVIOUS
<1>3. \A c \in DOMAIN Before(r, t, id) : Before(r, t, id)[c] = r.set[t][id][c]
  BY NoRows DEF Before
<1> HIDE DEF part
<1>4. /\ DOMAIN Over(part, Before(r, t, id)) = DOMAIN part \cup DOMAIN Before(r, t, id)
      /\ \A c \in DOMAIN part : Over(part, Before(r, t, id))[c] = part[c]
      /\ \A c \in DOMAIN Before(r, t, id) \ DOMAIN part :
           Over(part, Before(r, t, id))[c] = Before(r, t, id)[c]
  BY OverFacts
<1> QED
  BY <1>1, <1>2, <1>3, <1>4

WithSet(r, t, more) == [r EXCEPT !.set = Put(r.set, t, Over(more, r.set[t]))]

(* The rows that it sets, put over those that were set before              *)
LEMMA PutOver ==
  ASSUME NEW r, Draft(r), NEW t \in Table, NEW S, NEW fields, IsChange(t, fields), NEW more,
         DOMAIN more = {id \in S : Differs(t, id, fields) # {}},
         \A id \in DOMAIN more : more[id] = RowOf(r, t, id, fields)
  PROVE  SetsMore(WithSet(r, t, more), r, t, S, fields)
<1> DEFINE f == Over(more, r.set[t])
           q == [r EXCEPT !.set = Put(r.set, t, f)]
<1>1. Shape(r) /\ DOMAIN r.set = Table
  BY DEF Draft
<1>2. q.set = Put(r.set, t, f) /\ q.new = r.new /\ q.drop = r.drop
  <2> HIDE DEF f
  <2> QED
    BY <1>1, ShapeSet
<1>3. q.set[t] = f /\ \A o \in Table \ {t} : q.set[o] = r.set[o]
  <2> HIDE DEF f, q
  <2>1. Put(r.set, t, f)[t] = f
    BY PutFacts
  <2>2. \A o \in DOMAIN r.set \ {t} : Put(r.set, t, f)[o] = r.set[o]
    BY PutFacts
  <2> QED
    BY <1>1, <1>2, <2>1, <2>2
<1>4. /\ DOMAIN f = DOMAIN more \cup DOMAIN r.set[t]
      /\ \A x \in DOMAIN more : f[x] = more[x]
      /\ \A x \in DOMAIN r.set[t] \ DOMAIN more : f[x] = r.set[t][x]
  BY OverFacts
<1>5. Draft(q)
  <2>1. ASSUME NEW id \in DOMAIN more
        PROVE  IsChange(t, more[id])
    <3>1. PICK c \in Differs(t, id, fields) : TRUE
      OBVIOUS
    <3>2. IsChange(t, Update(r, t, id, fields).set[t][id])
      BY <3>1, DraftUpdate DEF Differs
    <3>3. Update(r, t, id, fields).set[t][id] = more[id]
      <4> DEFINE one == One(id, RowOf(r, t, id, fields))
      <4>1. Update(r, t, id, fields) = [r EXCEPT !.set = Put(r.set, t, Over(one, r.set[t]))]
        BY <3>1, UpdateIs
      <4>2. DOMAIN one = {id} /\ one[id] = RowOf(r, t, id, fields)
        BY DEF One
      <4> HIDE DEF one
      <4>3. Update(r, t, id, fields).set = Put(r.set, t, Over(one, r.set[t]))
        BY <1>1, <4>1, ShapeSet
      <4>4. Over(one, r.set[t])[id] = RowOf(r, t, id, fields)
        BY <4>2, OverFirst
      <4>5. Put(r.set, t, Over(one, r.set[t]))[t] = Over(one, r.set[t])
        BY PutFacts
      <4> QED
        BY <4>3, <4>4, <4>5
    <3> QED
      BY <3>2, <3>3
  <2> HIDE DEF f
  <2> QED
    BY <2>1, DraftChange DEF f
<1> HIDE DEF f, q
<1>6. ASSUME NEW o \in Table, NEW i, NEW c
      PROVE  /\ Sets(q, o, i, c) <=> Sets(r, o, i, c) \/ Adds(t, S, fields, o, i, c)
             /\ Adds(t, S, fields, o, i, c) => q.set[o][i][c] = fields[c]
             /\ ~ Adds(t, S, fields, o, i, c) /\ Sets(r, o, i, c) => q.set[o][i][c] = r.set[o][i][c]
  <2>1. CASE o # t
    BY <2>1, <1>3 DEF Sets, Adds
  <2>2. CASE o = t /\ i \in DOMAIN more
    <3>1. q.set[o][i] = RowOf(r, t, i, fields) /\ i \in DOMAIN q.set[o] /\ i \in S
      BY <2>2, <1>3, <1>4
    <3>2. \A x : x \in DOMAIN Before(r, t, i) <=> Sets(r, t, i, x)
      BY NoRows DEF Before, Sets
    <3>3. \A x : x \in Differs(t, i, fields) <=> Adds(t, S, fields, t, i, x)
      BY <3>1 DEF Differs, Adds
    <3>4. DOMAIN RowOf(r, t, i, fields) = Differs(t, i, fields) \cup DOMAIN Before(r, t, i)
      BY RowOfIs
    <3>6. RowOf(r, t, i, fields)[c] =
            IF c \in Differs(t, i, fields) THEN fields[c]
            ELSE IF c \in DOMAIN Before(r, t, i) THEN r.set[t][i][c] ELSE RowOf(r, t, i, fields)[c]
      BY RowOfIs
    <3>5. Sets(q, t, i, c) <=> c \in DOMAIN RowOf(r, t, i, fields)
      BY <2>2, <3>1 DEF Sets
    <3> QED
      BY <2>2, <3>1, <3>2, <3>3, <3>4, <3>5, <3>6
  <2>3. CASE o = t /\ i \notin DOMAIN more
    <3>1. ~ Adds(t, S, fields, t, i, c)
      BY <2>3 DEF Differs, Adds
    <3>2. i \in DOMAIN q.set[t] <=> i \in DOMAIN r.set[t]
      BY <2>3, <1>3, <1>4
    <3>3. i \in DOMAIN r.set[t] => q.set[t][i] = r.set[t][i]
      BY <2>3, <1>3, <1>4
    <3> QED
      BY <2>3, <3>1, <3>2, <3>3 DEF Sets
  <2> QED
    BY <2>1, <2>2, <2>3
<1> QED
  BY <1>2, <1>5, <1>6 DEF SetsMore, WithSet, q, f

(* Updating sets fields of one row,                                        *)
LEMMA UpdateSets ==
  ASSUME NEW r, Draft(r), NEW t \in Table, NEW id, NEW fields, IsChange(t, fields)
  PROVE  SetsMore(Update(r, t, id, fields), r, t, {id}, fields)
<1>1. CASE Differs(t, id, fields) = {}
  <2>1. Update(r, t, id, fields) = r
    BY <1>1, UpdateIs
  <2>2. \A o, i, c : ~ Adds(t, {id}, fields, o, i, c)
    BY <1>1 DEF Adds, Differs
  <2> QED
    BY <2>1, <2>2 DEF SetsMore
<1>2. CASE Differs(t, id, fields) # {}
  <2> DEFINE one == One(id, RowOf(r, t, id, fields))
  <2>1. Update(r, t, id, fields) = WithSet(r, t, one)
    BY <1>2, UpdateIs DEF WithSet
  <2>2. DOMAIN one = {id} /\ one[id] = RowOf(r, t, id, fields)
    BY DEF One
  <2>3. DOMAIN one = {i \in {id} : Differs(t, i, fields) # {}}
    BY <1>2, <2>2
  <2>4. \A i \in DOMAIN one : one[i] = RowOf(r, t, i, fields)
    BY <2>2
  <2> HIDE DEF one
  <2> QED
    BY <2>1, <2>3, <2>4, PutOver
<1> QED
  BY <1>1, <1>2

(* or of several.                                                          *)
LEMMA UpdateAllSets ==
  ASSUME NEW r, Draft(r), NEW t \in Table, NEW S, NEW fields, IsChange(t, fields)
  PROVE  SetsMore(UpdateAll(r, t, S, fields), r, t, S, fields)
<1> DEFINE changed == {id \in S : \E f \in DOMAIN fields : fields[f] # db[t][id][f]}
           more    == [id \in changed |-> Update(r, t, id, fields).set[t][id]]
<1>1. DOMAIN more = changed /\ \A id \in changed : more[id] = Update(r, t, id, fields).set[t][id]
  OBVIOUS
<1>2. UpdateAll(r, t, S, fields) = WithSet(r, t, more)
  BY DEF UpdateAll, WithSet
<1>3. ASSUME NEW id \in changed
      PROVE  Update(r, t, id, fields).set[t][id] = RowOf(r, t, id, fields)
  <2> DEFINE one == One(id, RowOf(r, t, id, fields))
  <2>1. Update(r, t, id, fields) = [r EXCEPT !.set = Put(r.set, t, Over(one, r.set[t]))]
    BY UpdateIs DEF Differs
  <2>2. DOMAIN one = {id} /\ one[id] = RowOf(r, t, id, fields)
    BY DEF One
  <2> HIDE DEF one
  <2>3. Update(r, t, id, fields).set = Put(r.set, t, Over(one, r.set[t]))
    BY <2>1, ShapeSet DEF Draft
  <2>4. Over(one, r.set[t])[id] = RowOf(r, t, id, fields)
    BY <2>2, OverFirst
  <2>5. Put(r.set, t, Over(one, r.set[t]))[t] = Over(one, r.set[t])
    BY PutFacts
  <2> QED
    BY <2>3, <2>4, <2>5
<1>4. changed = {id \in S : Differs(t, id, fields) # {}}
  BY DEF Differs
<1> HIDE DEF changed, more
<1>5. \A id \in DOMAIN more : more[id] = RowOf(r, t, id, fields)
  BY <1>1, <1>3
<1> QED
  BY <1>1, <1>2, <1>4, <1>5, PutOver

(* What an INSERT adds to a request.                                       *)
Inserts(q, r, t, more) ==
  /\ q.set = r.set /\ q.drop = r.drop
  /\ \A o \in Table \ {t} : q.new[o] = r.new[o]
  /\ DOMAIN q.new[t] = DOMAIN more \cup DOMAIN r.new[t]
  /\ \A x \in DOMAIN more : q.new[t][x] = more[x]
  /\ \A x \in DOMAIN r.new[t] \ DOMAIN more : q.new[t][x] = r.new[t][x]

(* Inserting adds rows,                                                    *)
LEMMA InsertAllInserts ==
  ASSUME NEW r, Draft(r), NEW t \in Table, NEW more
  PROVE  Inserts(InsertAll(r, t, more), r, t, more)
<1> DEFINE q == InsertAll(r, t, more)
           f == Over(more, r.new[t])
<1>1. q = [r EXCEPT !.new = Put(r.new, t, f)]
  BY DEF InsertAll
<1>2. /\ q.new = Put(r.new, t, f) /\ q.set = r.set /\ q.drop = r.drop
  <2>1. Shape(r)
    BY DEF Draft
  <2> HIDE DEF f, q
  <2> QED
    BY <1>1, <2>1, ShapeNew
<1>3. q.new[t] = f /\ \A o \in Table \ {t} : q.new[o] = r.new[o]
  <2> HIDE DEF f, q
  <2>1. DOMAIN r.new = Table
    BY DEF Draft
  <2>2. Put(r.new, t, f)[t] = f
    BY PutFacts
  <2>3. \A o \in DOMAIN r.new \ {t} : Put(r.new, t, f)[o] = r.new[o]
    BY PutFacts
  <2> QED
    BY <1>2, <2>1, <2>2, <2>3
<1>4. /\ DOMAIN f = DOMAIN more \cup DOMAIN r.new[t]
      /\ \A x \in DOMAIN more : f[x] = more[x]
      /\ \A x \in DOMAIN r.new[t] \ DOMAIN more : f[x] = r.new[t][x]
  BY OverFacts
<1> HIDE DEF f, q
<1> QED
  BY <1>2, <1>3, <1>4 DEF Inserts, q

(* or one.                                                                 *)
LEMMA InsertInserts ==
  ASSUME NEW r, Draft(r), NEW t \in Table, NEW id, NEW row
  PROVE  Inserts(Insert(r, t, id, row), r, t, One(id, row)) /\ DOMAIN One(id, row) = {id} /\ One(id, row)[id] = row
<1>1. Insert(r, t, id, row) = InsertAll(r, t, One(id, row))
  BY DEF Insert, One
<1>2. DOMAIN One(id, row) = {id} /\ One(id, row)[id] = row
  BY DEF One
<1> QED
  BY <1>1, <1>2, InsertAllInserts

(* A request begins with nothing.                                          *)
LEMMA NothingIsSet ==
  ASSUME WellTyped(db), NEW t \in Table
  PROVE  /\ DOMAIN Nothing.new[t] = {} /\ DOMAIN Nothing.set[t] = {} /\ Nothing.drop[t] = {}
         /\ \A i, c : ~ Sets(Nothing, t, i, c)
BY NoRows DEF Nothing, Sets, WellTyped

(* A request that nobody has overtaken has seen what there is still.       *)
SameRequest(s) ==
  /\ request[s] # None /\ request[s].fresh
  /\ request'[s].op = request[s].op /\ request'[s].seen = request[s].seen
  /\ request'[s].new = request[s].new /\ request'[s].set = request[s].set
  /\ request'[s].drop = request[s].drop
  /\ \A k \in request[s].seen \cap Keys : Image(k)' = Image(k)

(* Images are taken of rows, but for memberships of these tables.          *)
LEMMA ImageOfTables ==
  ASSUME NEW k \in Keys, k[1] # "user",
         \A t \in Table \ {"membership"} : db'[t] = db[t]
  PROVE  Image(k)' = Image(k)
<1>1. /\ db'["host"] = db["host"] /\ db'["interface"] = db["interface"] /\ db'["ip"] = db["ip"]
      /\ db'["switch_port"] = db["switch_port"] /\ db'["patch_port"] = db["patch_port"]
      /\ db'["switch"] = db["switch"]
  BY Tables
<1>2. k[1] = "host" \/ k[1] = "room" \/ k[1] = "panel"
  BY DEF Keys
<1>3. CASE k[1] = "host"
  <2>1. InterfacesOf(k[2])' = InterfacesOf(k[2])
    BY <1>1 DEF InterfacesOf
  <2>2. \A i : AddressesOf(i)' = AddressesOf(i)
    BY <1>1 DEF AddressesOf
  <2>3. {<<i, AddressesOf(i)>> : i \in InterfacesOf(k[2])}' = {<<i, AddressesOf(i)>> : i \in InterfacesOf(k[2])}
    BY <2>1, <2>2
  <2>4. db.host' = db.host
    BY <1>1
  <2> QED
    BY <1>3, <2>1, <2>3, <2>4 DEF Image
<1>4. CASE k[1] = "room"
  BY <1>1, <1>4 DEF Image, Connected
<1>5. CASE k[1] = "panel"
  BY <1>1, <1>5 DEF Image, PatchesOf
<1> QED
  BY <1>2, <1>3, <1>4, <1>5

(* A user looks the same while his tables and groups are.                  *)
LEMMA ImageOfUser ==
  ASSUME NEW k \in Keys, k[1] = "user",
         \A t \in Table \ {"membership"} : db'[t] = db[t],
         \A g : <<k[2], g>> \in DOMAIN db'["membership"] <=> <<k[2], g>> \in DOMAIN db["membership"]
  PROVE  Image(k)' = Image(k)
<1>1. db'["user"] = db["user"] /\ db'["host"] = db["host"] /\ db'["mpsk"] = db["mpsk"]
  BY Tables
<1>2. GroupsOf(k[2])' = GroupsOf(k[2])
  BY DEF GroupsOf
<1>3. HostsOf(k[2])' = HostsOf(k[2])
  BY <1>1 DEF HostsOf
<1>4. MpsksOf(k[2])' = MpsksOf(k[2])
  BY <1>1 DEF MpsksOf
<1>5. db.user[k[2]]' = db.user[k[2]]
  BY <1>1
<1> QED
  BY <1>2, <1>3, <1>4, <1>5 DEF Image

(* Nothing looks different while nothing is written.                       *)
LEMMA ImageSame ==
  ASSUME NEW k \in Keys, db' = db
  PROVE  Image(k)' = Image(k)
BY ImageOfTables, ImageOfUser

(* A request that is still pending and fresh was so before.                *)
LEMMA OldRequest ==
  ASSUME IInv, [Next]_rows, NEW s \in Session, request'[s] # None, request'[s].fresh, ~ Begin(s)
  PROVE  SameRequest(s)
<1>1. ASSUME NEW o, NEW keys, request' = Overtaken(o, keys)
      PROVE  /\ o # s /\ request[s] # None /\ request[s].fresh /\ request[s].seen \cap keys = {}
             /\ request'[s].op = request[s].op /\ request'[s].seen = request[s].seen
             /\ request'[s].new = request[s].new /\ request'[s].set = request[s].set
             /\ request'[s].drop = request[s].drop
  <2> DEFINE b == request[s].fresh /\ request[s].seen \cap keys = {}
             r == request[s]
  <2>1. o # s /\ r # None /\ request'[s] = [r EXCEPT !.fresh = b]
    BY <1>1 DEF Overtaken
  <2>2. Shape(r)
    BY <2>1 DEF IInv, PendingSound, Sound, Draft
  <2>3. b \in BOOLEAN
    OBVIOUS
  <2>4. /\ request'[s].fresh = b /\ request'[s].op = r.op /\ request'[s].seen = r.seen
        /\ request'[s].new = r.new /\ request'[s].set = r.set /\ request'[s].drop = r.drop
    <3> HIDE DEF r, b
    <3> QED
      BY <2>1, <2>2, <2>3, ShapeFresh
  <2>5. b
    BY <2>4
  <2> QED
    BY <2>1, <2>4, <2>5
<1>2. ASSUME request'[s] = request[s], db' = db
      PROVE  SameRequest(s)
  BY <1>2, ImageSame DEF SameRequest
<1>3. ASSUME NEW o \in Session, Begin(o)
      PROVE  SameRequest(s)
  <2>1. o # s
    BY <1>3
  <2>2. Decides(o)
    BY <1>3, HostingDecides, InterfacingDecides, MpskDecides, PatchingDecides,
       SwitchingDecides DEF Begin, IInv, TypeOK
  <2>3. db' = db /\ \E r : request' = [request EXCEPT ![o] = r]
    BY <2>2 DEF Decides, Decide, Pending
  <2> QED
    BY <1>2, <2>1, <2>3 DEF IInv
<1>4. ASSUME NEW o \in Session, Abandon(o)
      PROVE  SameRequest(s)
  BY <1>2, <1>4 DEF Abandon, IInv
<1>5. ASSUME NEW o \in Session, Commit(o)
      PROVE  SameRequest(s)
  <2> DEFINE keys == {k \in Keys : Image(k)' # Image(k)}
  <2>1. request' = Overtaken(o, keys)
    BY <1>5 DEF Commit
  <2> HIDE DEF keys
  <2>2. /\ o # s /\ request[s] # None /\ request[s].fresh /\ request[s].seen \cap keys = {}
        /\ request'[s].op = request[s].op /\ request'[s].seen = request[s].seen
        /\ request'[s].new = request[s].new /\ request'[s].set = request[s].set
        /\ request'[s].drop = request[s].drop
    BY <1>1, <2>1
  <2>3. \A k \in request[s].seen \cap Keys : Image(k)' = Image(k)
    BY <2>2 DEF keys
  <2> QED
    BY <2>2, <2>3 DEF SameRequest
<1>6. ASSUME NEW m \in DOMAIN db.membership, Expire(m)
      PROVE  SameRequest(s)
  <2>1. /\ request' = Overtaken(None, {UserKey(m[1])})
        /\ db' = [db EXCEPT !.membership = [o \in DOMAIN @ \ {m} |-> @[o]]]
        /\ DOMAIN db = Table
    BY <1>6 DEF Expire, IInv, TypeOK, WellTyped
  <2>2. /\ request[s] # None /\ request[s].fresh /\ request[s].seen \cap {UserKey(m[1])} = {}
        /\ request'[s].op = request[s].op /\ request'[s].seen = request[s].seen
        /\ request'[s].new = request[s].new /\ request'[s].set = request[s].set
        /\ request'[s].drop = request[s].drop
    BY <1>1, <2>1
  <2>3. \A t \in Table \ {"membership"} : db'[t] = db[t]
    BY <2>1
  <2>4. DOMAIN db'["membership"] = DOMAIN db["membership"] \ {m}
    BY <2>1, Tables
  <2>5. ASSUME NEW k \in request[s].seen \cap Keys
        PROVE  Image(k)' = Image(k)
    <3>1. CASE k[1] = "user"
      <4>1. k = <<"user", k[2]>>
        BY <3>1 DEF Keys
      <4>2. k[2] # m[1]
        BY <2>2, <4>1 DEF UserKey
      <4> QED
        BY <2>3, <2>4, <3>1, <4>2, ImageOfUser
    <3> QED
      BY <3>1, <2>3, ImageOfTables
  <2> QED
    BY <2>2, <2>5 DEF SameRequest
<1> QED
  BY <1>2, <1>3, <1>4, <1>5, <1>6 DEF Next, rows

----------------------------------------------------------------------------
(* The patch panel keeps its order. *)

PanelOps == {"patch_port_create", "patch_port_edit", "switch_port_create", "switch_port_edit"}

(* The patch ports that get a name, and those that get a patch             *)
Names(r, q) == q \in DOMAIN r.new["patch_port"] \/ Sets(r, "patch_port", q, "name")

(* What a request does to the panel x, as it found it: one name at most,   *)
(* which nobody has, and patches for nothing that is patched.              *)
Orderly(r, x) ==
  /\ \A q \in DOMAIN r.new["patch_port"] :
       r.new["patch_port"][q].switch_room = x /\ ~ NameTaken(r.new["patch_port"][q].name, x)
  /\ \A q : Sets(r, "patch_port", q, "name") =>
       q \in PatchesOf(x) /\ ~ NameTaken(r.set["patch_port"][q].name, x)
  /\ \A q : Sets(r, "patch_port", q, "switch_port") =>
       \/ r.set["patch_port"][q].switch_port = None
       \/ q \in PatchesOf(x) /\ db["patch_port"][q].switch_port = None
  /\ \A q, o : Names(r, q) /\ Names(r, o) => q = o

PanelRequest(r) == \E x \in Room : PanelKey(x) \in r.seen /\ Orderly(r, x)

PanelInv ==
  \A s \in Session :
    request[s] # None /\ request[s].fresh /\ request[s].op \in PanelOps => PanelRequest(request[s])

(* Two requests that write the same to the patch ports                     *)
LEMMA OrderlySame ==
  ASSUME NEW r, NEW q, q.new["patch_port"] = r.new["patch_port"],
         q.set["patch_port"] = r.set["patch_port"], NEW x, Orderly(r, x)
  PROVE  Orderly(q, x)
<1>1. \A i, c : Sets(q, "patch_port", i, c) <=> Sets(r, "patch_port", i, c)
  BY DEF Sets
<1> QED
  BY <1>1 DEF Orderly, Names

(* As long as the panel looks the same, so does what is decided about it.  *)
LEMMA PanelImage ==
  ASSUME NEW x \in Room, Image(PanelKey(x))' = Image(PanelKey(x))
  PROVE  /\ PatchesOf(x)' = PatchesOf(x)
         /\ \A q \in PatchesOf(x) : db'["patch_port"][q] = db["patch_port"][q]
<1> DEFINE pairs == {<<q, db["patch_port"][q]>> : q \in PatchesOf(x)}
           more  == {w \in DOMAIN db.switch : db.host[w].room = x}
<1>1. Image(PanelKey(x)) = <<pairs, more>>
  BY DEF Image, PanelKey
<1>2. Image(PanelKey(x))' = <<pairs', more'>>
  BY DEF Image, PanelKey
<1> HIDE DEF more
<1>3. pairs' = pairs
  <2> HIDE DEF pairs
  <2> QED
    BY <1>1, <1>2
<1>4. \A q, v : <<q, v>> \in pairs <=> q \in PatchesOf(x) /\ v = db["patch_port"][q]
  OBVIOUS
<1>5. \A q, v : <<q, v>> \in pairs' <=> q \in PatchesOf(x)' /\ v = db'["patch_port"][q]
  OBVIOUS
<1>6. \A q : q \in PatchesOf(x)' <=> q \in PatchesOf(x)
  <2> HIDE DEF pairs
  <2> QED
    BY <1>3, <1>4, <1>5
<1>7. \A q \in PatchesOf(x) : db'["patch_port"][q] = db["patch_port"][q]
  <2> HIDE DEF pairs
  <2> QED
    BY <1>3, <1>4, <1>5
<1> QED
  BY <1>6, <1>7

(* An orderly request stays one while its panel looks the same.            *)
LEMMA OrderlyStays ==
  ASSUME NEW x \in Room, Image(PanelKey(x))' = Image(PanelKey(x)), NEW r, Orderly(r, x)
  PROVE  Orderly(r, x)'
<1>1. /\ PatchesOf(x)' = PatchesOf(x)
      /\ \A q \in PatchesOf(x) : db'["patch_port"][q] = db["patch_port"][q]
  BY PanelImage
<1>2. \A name : NameTaken(name, x)' <=> NameTaken(name, x)
  BY <1>1, Tables DEF NameTaken
<1>3. \A q : PatchesOf(x)' = PatchesOf(x)
  BY <1>1
<1> QED
  BY <1>1, <1>2 DEF Orderly, Names, Sets

(* The operations on the panel.                                            *)
PanelDecides(s) ==
  \E op, seen, r : Draft(r) /\ PanelRequest([r EXCEPT !.seen = seen]) /\ Decide(s, op, seen, r)

(* What is orderly may be decided.                                         *)
LEMMA PanelDecided ==
  ASSUME NEW s, NEW op, NEW seen, NEW x \in Room, PanelKey(x) \in seen,
         NEW r, Draft(r), Orderly(r, x), Decide(s, op, seen, r)
  PROVE  PanelDecides(s)
<1> DEFINE q == [r EXCEPT !.seen = seen]
<1>1. q.seen = seen /\ q.new = r.new /\ q.set = r.set
  BY DEF Draft, Shape
<1>2. Orderly(q, x)
  <2> HIDE DEF q
  <2> QED
    BY <1>1, OrderlySame
<1>3. PanelRequest(q)
  BY <1>1, <1>2 DEF PanelRequest
<1> QED
  BY <1>3 DEF PanelDecides

(* Creating and editing patch ports is orderly,                            *)
LEMMA PatchPortOrder ==
  ASSUME WellTyped(db), NEW s, NEW name, NEW x \in Room
  PROVE  /\ \A y \in Room : PatchPortCreate(s, name, x, y) => PanelDecides(s)
         /\ \A q \in DOMAIN db.patch_port : PatchPortEdit(s, q, name, x) => PanelDecides(s)
<1>1. ASSUME NEW y \in Room, PatchPortCreate(s, name, x, y)
      PROVE  PanelDecides(s)
  <2> DEFINE r == NewPatchPort(name, x, y)
             row == [name |-> name, room |-> x, switch_room |-> y, switch_port |-> None]
  <2>1. PICK id : id = NewId("patch_port")
    OBVIOUS
  <2>2. id \in Ids["patch_port"]
    BY <1>1, <2>1, NewIdTyped DEF PatchPortCreate
  <2>3. r = Insert(Nothing, "patch_port", id, row)
    BY <2>1 DEF NewPatchPort
  <2>4. row.switch_room = y /\ row.name = name
    OBVIOUS
  <2> HIDE DEF row, r
  <2>5. Draft(r)
    <3>1. Draft(NewPatchPort(name, x, y))
      BY <2>1, <2>2, DraftNothing, DraftInsert, KindsOfRows, Tables DEF NewPatchPort
    <3> QED
      BY <3>1 DEF r
  <2>6. Draft(Nothing) /\ "patch_port" \in Table
    BY DraftNothing, Tables
  <2>7. /\ DOMAIN Nothing.new["patch_port"] = {} /\ \A i, c : ~ Sets(Nothing, "patch_port", i, c)
    BY <2>6, NothingIsSet
  <2>8. Inserts(r, Nothing, "patch_port", One(id, row)) /\ DOMAIN One(id, row) = {id} /\ One(id, row)[id] = row
    BY <2>3, <2>6, InsertInserts
  <2>9. DOMAIN r.new["patch_port"] = {id} /\ r.new["patch_port"][id] = row /\ r.set = Nothing.set
    BY <2>7, <2>8 DEF Inserts
  <2>10. \A i, c : ~ Sets(r, "patch_port", i, c)
    BY <2>7, <2>9 DEF Sets
  <2>11. ~ NameTaken(name, y) /\ Decide(s, "patch_port_create", {PanelKey(y)}, r)
    BY <1>1 DEF PatchPortCreate, r
  <2>12. Orderly(r, y)
    BY <2>4, <2>9, <2>10, <2>11 DEF Orderly, Names
  <2> QED
    BY <2>5, <2>11, <2>12, PanelDecided
<1>2. ASSUME NEW q \in DOMAIN db.patch_port, PatchPortEdit(s, q, name, x)
      PROVE  PanelDecides(s)
  <2> DEFINE r == EditedPatchPort(q, name, x)
             fields == [name |-> name, room |-> x]
             y == db["patch_port"][q].switch_room
  <2>1. y \in Room
    BY Tables DEF WellTyped, IsRow, IsValue, Columns
  <2>2. /\ name # db["patch_port"][q].name => ~ NameTaken(name, y)
        /\ Decide(s, "patch_port_edit", {PanelKey(y)}, r)
    BY <1>2 DEF PatchPortEdit
  <2>3. Draft(Nothing) /\ "patch_port" \in Table /\ IsChange("patch_port", fields)
    BY DraftNothing, Tables, KindsOfChanges
  <2>4. /\ DOMAIN Nothing.new["patch_port"] = {} /\ \A i, c : ~ Sets(Nothing, "patch_port", i, c)
    BY <2>3, NothingIsSet
  <2>5. DOMAIN fields = {"name", "room"} /\ fields["name"] = name
    OBVIOUS
  <2>6. r = Update(Nothing, "patch_port", q, fields)
    BY DEF EditedPatchPort
  <2>7. q \in PatchesOf(y)
    BY DEF PatchesOf
  <2> HIDE DEF fields, r
  <2>8. SetsMore(r, Nothing, "patch_port", {q}, fields)
    BY <2>3, <2>6, UpdateSets
  <2>9. Draft(r) /\ DOMAIN r.new["patch_port"] = {}
    BY <2>4, <2>8 DEF SetsMore
  <2>10. \A i, c : /\ Sets(r, "patch_port", i, c) => Adds("patch_port", {q}, fields, "patch_port", i, c)
                   /\ Adds("patch_port", {q}, fields, "patch_port", i, c) =>
                        r.set["patch_port"][i][c] = fields[c]
    BY <2>3, <2>4, <2>8 DEF SetsMore
  <2>11. \A i, c : Sets(r, "patch_port", i, c) =>
           /\ i = q /\ c \in {"name", "room"} /\ fields[c] # db["patch_port"][i][c]
           /\ r.set["patch_port"][i][c] = fields[c]
    BY <2>5, <2>10 DEF Adds
  <2>12. Orderly(r, y)
    BY <2>2, <2>5, <2>7, <2>9, <2>11 DEF Orderly, Names
  <2> QED
    BY <2>1, <2>2, <2>9, <2>12, PanelDecided
<1> QED
  BY <1>1, <1>2

(* Of a request that gives no name, and changes patches                    *)
LEMMA PatchedOrder ==
  ASSUME WellTyped(db), NEW r, Draft(r), DOMAIN r.new["patch_port"] = {}, NEW x,
         NEW p, NEW q, MayPatch(q, x), q \in DOMAIN db.patch_port \cup {None},
         \A i, c : Sets(r, "patch_port", i, c) => c = "switch_port" /\ r.set["patch_port"][i][c] = None
  PROVE  Orderly(Patched(r, p, q), x)
<1>1. CASE q = None
  <2>1. Patched(r, p, q) = r
    BY <1>1 DEF Patched
  <2> QED
    BY <2>1 DEF Orderly, Names
<1>2. CASE q # None
  <2> DEFINE w == Patched(r, p, q)
             fields == [switch_port |-> p]
  <2>1. w = Update(r, "patch_port", q, fields)
    BY <1>2 DEF Patched
  <2>2. IsChange("patch_port", fields) /\ "patch_port" \in Table /\ DOMAIN fields = {"switch_port"}
    BY KindsOfChanges, Tables
  <2> HIDE DEF w, fields
  <2>3. SetsMore(w, r, "patch_port", {q}, fields)
    BY <2>1, <2>2, UpdateSets
  <2>4. DOMAIN w.new["patch_port"] = {}
    BY <2>3 DEF SetsMore
  <2>5. q \in PatchesOf(x) /\ db["patch_port"][q].switch_port = None
    BY <1>2 DEF MayPatch, PatchesOf
  <2>6. ASSUME NEW i, NEW c, Sets(w, "patch_port", i, c)
        PROVE  /\ c = "switch_port"
               /\ i = q \/ w.set["patch_port"][i][c] = None
    <3>1. /\ Sets(w, "patch_port", i, c) <=> Sets(r, "patch_port", i, c) \/ Adds("patch_port", {q}, fields, "patch_port", i, c)
          /\ ~ Adds("patch_port", {q}, fields, "patch_port", i, c) /\ Sets(r, "patch_port", i, c) =>
               w.set["patch_port"][i][c] = r.set["patch_port"][i][c]
      BY <2>2, <2>3 DEF SetsMore
    <3> QED
      BY <3>1, <2>2, <2>6 DEF Adds
  <2>7. Orderly(w, x)
    BY <2>4, <2>5, <2>6 DEF Orderly, Names
  <2> QED
    BY <2>7 DEF w
<1> QED
  BY <1>1, <1>2

(* and so is creating and editing switch ports.                            *)
LEMMA SwitchPortOrder ==
  ASSUME WellTyped(db), References(db), NEW s, NEW subnets \in Seq(Subnet),
         NEW q \in DOMAIN db.patch_port \cup {None}
  PROVE  /\ \A w \in DOMAIN db.switch : SwitchPortCreate(s, w, subnets, q) => PanelDecides(s)
         /\ \A p \in DOMAIN db.switch_port : SwitchPortEdit(s, p, subnets, q) => PanelDecides(s)
<1>1. ASSUME NEW w \in DOMAIN db.switch
      PROVE  db.host[w].room \in Room
  <2>1. w \in DOMAIN db["host"]
    BY DEF References
  <2> QED
    BY <2>1, Tables DEF WellTyped, IsRow, IsValue, Columns
<1>2. /\ Draft(Nothing) /\ DOMAIN Nothing.new["patch_port"] = {}
      /\ \A i, c : ~ Sets(Nothing, "patch_port", i, c)
  BY DraftNothing, NothingIsSet, Tables
<1>3. ASSUME NEW w \in DOMAIN db.switch, SwitchPortCreate(s, w, subnets, q)
      PROVE  PanelDecides(s)
  <2> DEFINE p == NewId("switch_port")
             r == NewPort(p, w, subnets)
             x == db.host[w].room
             row == [switch |-> w, subnets |-> subnets]
  <2>1. p \in Ids["switch_port"]
    BY <1>3, NewIdTyped DEF SwitchPortCreate
  <2>2. MayPatch(q, x) /\ Decide(s, "switch_port_create", {PanelKey(x)}, Patched(r, p, q))
    BY <1>3 DEF SwitchPortCreate
  <2> HIDE DEF p, x
  <2>3. Draft(r)
    BY <2>1, DraftNothing, DraftInsert, KindsOfRows, Tables DEF NewPort
  <2>4. Inserts(r, Nothing, "switch_port", One(p, row))
    BY <1>2, InsertInserts, Tables DEF NewPort
  <2> HIDE DEF r, row
  <2>5. r.set = Nothing.set /\ r.new["patch_port"] = Nothing.new["patch_port"]
    BY <2>4, Tables DEF Inserts
  <2>6. DOMAIN r.new["patch_port"] = {} /\ \A i, c : ~ Sets(r, "patch_port", i, c)
    BY <1>2, <2>5 DEF Sets
  <2>7. Orderly(Patched(r, p, q), x)
    BY <2>2, <2>3, <2>6, PatchedOrder
  <2>8. Draft(Patched(r, p, q))
    BY <2>3, DraftPatched
  <2>9. x \in Room
    BY <1>1 DEF x
  <2>10. PanelKey(x) \in {PanelKey(x)}
    OBVIOUS
  <2> HIDE DEF PanelDecides
  <2> QED
    BY <2>2, <2>7, <2>8, <2>9, <2>10, PanelDecided
<1>4. ASSUME NEW p \in DOMAIN db.switch_port, SwitchPortEdit(s, p, subnets, q)
      PROVE  PanelDecides(s)
  <2> DEFINE x == db.host[db.switch_port[p].switch].room
             old == {o \in DOMAIN db.patch_port : db.patch_port[o].switch_port = p}
             r == EditedPort(p, subnets)
             u == Unpatched(r, old)
             fields == [switch_port |-> None]
             seen == {PanelKey(x)}
  <2>1. \/ Decide(s, "switch_port_edit", seen, r)
        \/ MayPatch(q, x) /\ Decide(s, "switch_port_edit", seen, Patched(u, p, q))
    BY <1>4 DEF SwitchPortEdit
  <2>2. x \in Room
    BY <1>1 DEF References
  <2>3. PanelKey(x) \in seen
    OBVIOUS
  <2>4. SetsMore(r, Nothing, "switch_port", {p}, [subnets |-> subnets])
    BY <1>2, UpdateSets, KindsOfChanges, Tables DEF EditedPort
  <2>5. u = UpdateAll(r, "patch_port", old, fields)
    BY DEF Unpatched
  <2>6. DOMAIN fields = {"switch_port"} /\ fields["switch_port"] = None /\ IsChange("patch_port", fields)
    BY KindsOfChanges
  <2> HIDE DEF x, old, r, u, fields, seen
  <2>7. Draft(r) /\ DOMAIN r.new["patch_port"] = {}
    BY <1>2, <2>4 DEF SetsMore
  <2>8. \A i, c : ~ Sets(r, "patch_port", i, c)
    BY <1>2, <2>4, Tables DEF SetsMore, Adds
  <2>9. SetsMore(u, r, "patch_port", old, fields)
    BY <2>5, <2>6, <2>7, UpdateAllSets, Tables
  <2>10. Draft(u) /\ DOMAIN u.new["patch_port"] = {}
    BY <2>7, <2>9 DEF SetsMore
  <2>11. ASSUME NEW i, NEW c, Sets(u, "patch_port", i, c)
         PROVE  c = "switch_port" /\ u.set["patch_port"][i][c] = None
    <3>1. /\ Adds("patch_port", old, fields, "patch_port", i, c)
          /\ u.set["patch_port"][i][c] = fields[c]
      BY <2>8, <2>9, <2>11, Tables DEF SetsMore
    <3> QED
      BY <2>6, <3>1 DEF Adds
  <2>12. Orderly(r, x)
    BY <2>7, <2>8 DEF Orderly, Names
  <2>13. MayPatch(q, x) => Orderly(Patched(u, p, q), x)
    BY <2>10, <2>11, PatchedOrder
  <2>14. Draft(Patched(u, p, q))
    BY <2>10, DraftPatched
  <2>15. CASE Decide(s, "switch_port_edit", seen, r)
    BY <2>2, <2>3, <2>7, <2>12, <2>15, PanelDecided
  <2>16. CASE MayPatch(q, x) /\ Decide(s, "switch_port_edit", seen, Patched(u, p, q))
    BY <2>2, <2>3, <2>13, <2>14, <2>16, PanelDecided
  <2> QED
    BY <2>1, <2>15, <2>16
<1> QED
  BY <1>3, <1>4

(* What it calls itself                                                    *)
Does(s, ops) == \E op \in ops : \E seen, r : Decide(s, op, seen, r)

(* The pages of users and hosts                                            *)
LEMMA HostingDoes ==
  ASSUME NEW s, Hosting(s)
  PROVE  \/ Does(s, {"move", "move_in", "host_create", "host_edit",
                     "block", "unblock", "move_out", "host_delete"})
         \/ \E u \in Users, mac \in Mac : Activate(s, u, mac) /\ Does(s, {"activate"})
<1> DEFINE ops == {"move", "move_in", "host_create", "host_edit",
                   "block", "unblock", "move_out", "host_delete"}
<1>1. ASSUME NEW u, NEW x, Move(s, u, x) \/ HostCreate(s, u, x)
      PROVE  Does(s, ops)
  BY <1>1 DEF Does, Move, HostCreate
<1>2. ASSUME NEW u, NEW x, NEW b, NEW mac, NEW i,
             MoveIn(s, u, x, b) \/ MoveInWithDevice(s, u, x, b, mac) \/ MoveInAnnexing(s, u, x, b, i)
      PROVE  Does(s, ops)
  BY <1>2 DEF Does, MoveIn, MoveInWithDevice, MoveInAnnexing
<1>3. ASSUME NEW u, NEW a, NEW b, Unblock(s, u) \/ Block(s, u, a, b) \/ MoveOut(s, u, a)
      PROVE  Does(s, ops)
  BY <1>3 DEF Does, Unblock, Block, MoveOut
<1>4. ASSUME NEW u, NEW mac, Activate(s, u, mac)
      PROVE  Does(s, {"activate"})
  BY <1>4 DEF Does, Activate
<1>5. ASSUME NEW h, NEW u, NEW x, HostDelete(s, h) \/ HostEdit(s, h, u, x)
      PROVE  Does(s, ops)
  BY <1>5 DEF Does, HostDelete, HostEdit
<1> HIDE DEF ops
<1>6. Does(s, ops) \/ \E u \in Users, mac \in Mac : Activate(s, u, mac) /\ Does(s, {"activate"})
  BY <1>1, <1>2, <1>3, <1>4, <1>5 DEF Hosting
<1> QED
  BY <1>6 DEF ops

(* The pages of interfaces                                                 *)
LEMMA InterfacingDoes ==
  ASSUME NEW s, Interfacing(s)
  PROVE  Does(s, {"interface_create", "interface_edit", "change_mac", "interface_delete"})
<1>1. ASSUME NEW h, NEW i, NEW mac, NEW A,
             InterfaceCreate(s, h, mac, A) \/ InterfaceEdit(s, i, mac, A)
      PROVE  Does(s, {"interface_create", "interface_edit", "change_mac", "interface_delete"})
  BY <1>1 DEF Does, InterfaceCreate, InterfaceEdit
<1>2. ASSUME NEW i, NEW mac, InterfaceDelete(s, i) \/ ChangeMac(s, i, mac)
      PROVE  Does(s, {"interface_create", "interface_edit", "change_mac", "interface_delete"})
  BY <1>2 DEF Does, InterfaceDelete, ChangeMac
<1> QED
  BY <1>1, <1>2 DEF Interfacing

(* The MPSK clients                                                        *)
LEMMA MpskDoes ==
  ASSUME NEW s, Mpsk(s)
  PROVE  \/ Does(s, {"mpsk_create", "mpsk_edit", "mpsk_delete"})
         \/ \E u \in Users, mac \in Mac : MpskAdd(s, u, mac) /\ Does(s, {"mpsk_add"})
<1>1. ASSUME NEW u, NEW mac, MpskAdd(s, u, mac)
      PROVE  Does(s, {"mpsk_add"})
  BY <1>1 DEF Does, MpskAdd
<1>2. ASSUME NEW u, NEW mac, MpskCreate(s, u, mac)
      PROVE  Does(s, {"mpsk_create", "mpsk_edit", "mpsk_delete"})
  BY <1>2 DEF Does, MpskCreate
<1>3. ASSUME NEW c, NEW mac, MpskEdit(s, c, mac) \/ MpskChange(s, c, mac)
      PROVE  Does(s, {"mpsk_create", "mpsk_edit", "mpsk_delete"})
  BY <1>3 DEF Does, MpskEdit, MpskChange
<1>4. ASSUME NEW c, MpskDelete(s, c) \/ MpskRemove(s, c)
      PROVE  Does(s, {"mpsk_create", "mpsk_edit", "mpsk_delete"})
  BY <1>4 DEF Does, MpskDelete, MpskRemove
<1> QED
  BY <1>1, <1>2, <1>3, <1>4 DEF Mpsk

PanelNames == PanelOps \cup {"patch_port_delete", "switch_create", "switch_edit", "switch_delete",
                             "switch_port_delete"}

(* The patch panel                                                         *)
LEMMA PanelsDo ==
  ASSUME NEW s, Patching(s) \/ Switching(s)
  PROVE  Does(s, PanelNames)
<1>1. ASSUME NEW name, NEW x, NEW y, NEW q,
             PatchPortCreate(s, name, x, y) \/ PatchPortEdit(s, q, name, x) \/ PatchPortDelete(s, q)
      PROVE  Does(s, PanelNames)
  BY <1>1 DEF Does, PanelNames, PanelOps, PatchPortCreate, PatchPortEdit, PatchPortDelete
<1>2. ASSUME NEW w, NEW x, SwitchCreate(s, x) \/ SwitchEdit(s, w, x) \/ SwitchDelete(s, w)
      PROVE  Does(s, PanelNames)
  BY <1>2 DEF Does, PanelNames, SwitchCreate, SwitchEdit, SwitchDelete
<1>3. ASSUME NEW w, NEW p, NEW q, NEW subnets,
             SwitchPortCreate(s, w, subnets, q) \/ SwitchPortEdit(s, p, subnets, q) \/ SwitchPortDelete(s, p)
      PROVE  Does(s, PanelNames)
  BY <1>3 DEF Does, PanelNames, PanelOps, SwitchPortCreate, SwitchPortEdit, SwitchPortDelete
<1> QED
  BY <1>1, <1>2, <1>3 DEF Patching, Switching

(* What is decided at the patch panel is orderly or has another name.      *)
LEMMA PanelsDecide ==
  ASSUME WellTyped(db), References(db), NEW s, Patching(s) \/ Switching(s)
  PROVE  PanelDecides(s) \/ Does(s, PanelNames \ PanelOps)
<1>1. ASSUME NEW q, PatchPortDelete(s, q)
      PROVE  Does(s, PanelNames \ PanelOps)
  BY <1>1 DEF Does, PanelNames, PanelOps, PatchPortDelete
<1>2. ASSUME NEW w, NEW x, SwitchCreate(s, x) \/ SwitchEdit(s, w, x) \/ SwitchDelete(s, w)
      PROVE  Does(s, PanelNames \ PanelOps)
  BY <1>2 DEF Does, PanelNames, PanelOps, SwitchCreate, SwitchEdit, SwitchDelete
<1>3. ASSUME NEW p, SwitchPortDelete(s, p)
      PROVE  Does(s, PanelNames \ PanelOps)
  BY <1>3 DEF Does, PanelNames, PanelOps, SwitchPortDelete
<1>4. \A subnets \in {<< >>} \cup {<<n>> : n \in Subnet} : subnets \in Seq(Subnet)
  <2>1. << >> \in Seq(Subnet)
    OBVIOUS
  <2>2. ASSUME NEW n \in Subnet
        PROVE  <<n>> \in Seq(Subnet)
    OBVIOUS
  <2> QED
    BY <2>1, <2>2
<1>5. CASE Patching(s)
  BY <1>1, <1>5, PatchPortOrder DEF Patching
<1>6. CASE Switching(s)
  BY <1>2, <1>3, <1>4, <1>6, SwitchPortOrder DEF Switching
<1> QED
  BY <1>5, <1>6

(* What is pending once something is decided                               *)
LEMMA DecidedIs ==
  ASSUME DOMAIN request = Session, NEW s \in Session, NEW op, NEW seen, NEW r, Draft(r), Decide(s, op, seen, r)
  PROVE  /\ request'[s].op = op /\ request'[s].seen = seen
         /\ request'[s].new = r.new /\ request'[s].set = r.set /\ request'[s].drop = r.drop
         /\ db' = db
<1>1. request'[s] = Decided(r, op, seen) /\ db' = db
  BY DEF Decide, Pending, Decided
<1> QED
  BY <1>1, ShapeDecided DEF Draft

(* A decision has one name only.                                           *)
LEMMA DoesIs ==
  ASSUME DOMAIN request = Session, NEW s \in Session, Decides(s), NEW ops, Does(s, ops)
  PROVE  request'[s].op \in ops
<1>1. PICK op, seen, r : Draft(r) /\ Decide(s, op, seen, r)
  BY DEF Decides
<1>2. PICK o \in ops : \E more, q : Decide(s, o, more, q)
  BY DEF Does
<1>7. PICK more, q : Decide(s, o, more, q)
  BY <1>2
<1>3. request'[s] = Decided(r, op, seen) /\ request'[s] = Decided(q, o, more)
  BY <1>1, <1>7 DEF Decide, Pending, Decided
<1>4. "op" \in DOMAIN Decided(r, op, seen)
  BY <1>1 DEF Draft, Shape, Decided
<1>5. DOMAIN Decided(q, o, more) = DOMAIN q
  BY DEF Decided
<1>6. Decided(q, o, more).op = o
  BY <1>3, <1>4, <1>5 DEF Decided
<1> QED
  BY <1>2, <1>3, <1>6

(* A panel request is orderly when it begins,                              *)
LEMMA BeginKeepsPanels ==
  ASSUME IInv, NEW s \in Session, Begin(s), request'[s].op \in PanelOps
  PROVE  PanelRequest(request[s])'
<1>1. WellTyped(db) /\ References(db) /\ DOMAIN request = Session
  BY DEF IInv, TypeOK
<1>2. PanelDecides(s) \/ \E ops : Does(s, ops) /\ ops \cap PanelOps = {}
  BY <1>1, HostingDoes, InterfacingDoes, MpskDoes, PanelsDecide DEF Begin, PanelOps
<1>3. Decides(s)
  BY <1>1, HostingDecides, InterfacingDecides, MpskDecides, PatchingDecides, SwitchingDecides DEF Begin
<1>4. PICK op, seen, r : Draft(r) /\ PanelRequest([r EXCEPT !.seen = seen]) /\ Decide(s, op, seen, r)
  BY <1>1, <1>2, <1>3, DoesIs DEF PanelDecides
<1> DEFINE q == [r EXCEPT !.seen = seen]
<1>5. q.seen = seen /\ q.new = r.new /\ q.set = r.set
  BY <1>4 DEF Draft, Shape
<1>6. PanelRequest(q)
  BY <1>4
<1> HIDE DEF q
<1>7. PICK x \in Room : PanelKey(x) \in q.seen /\ Orderly(q, x)
  BY <1>6 DEF PanelRequest
<1>8. request'[s].seen = seen /\ request'[s].new = r.new /\ request'[s].set = r.set /\ db' = db
  BY <1>1, <1>4, DecidedIs
<1>9. Image(PanelKey(x))' = Image(PanelKey(x))
  <2>1. PanelKey(x) \in Keys
    BY DEF PanelKey, Keys
  <2> QED
    BY <1>8, <2>1, ImageSame
<1>10. PICK w : w = request'[s]
  OBVIOUS
<1>11. Orderly(w, x)
  BY <1>5, <1>7, <1>8, <1>10, OrderlySame
<1>12. Orderly(w, x)'
  BY <1>9, <1>11, OrderlyStays
<1>13. PanelKey(x) \in w.seen /\ PanelKey(x)' = PanelKey(x)
  BY <1>5, <1>7, <1>8, <1>10 DEF PanelKey
<1>14. Orderly(request[s], x)'
  BY <1>10, <1>12
<1> QED
  BY <1>10, <1>13, <1>14 DEF PanelRequest

(* and as long as it is pending and fresh.                                 *)
LEMMA PanelsKeep ==
  ASSUME IInv, PanelInv, [Next]_rows
  PROVE  PanelInv'
<1>1. SUFFICES ASSUME NEW s \in Session, request'[s] # None, request'[s].fresh, request'[s].op \in PanelOps
               PROVE  PanelRequest(request[s])'
  BY DEF PanelInv, PanelOps
<1>2. CASE Begin(s)
  BY <1>1, <1>2, BeginKeepsPanels
<1>3. CASE ~ Begin(s)
  <2>1. SameRequest(s)
    BY <1>1, <1>3, OldRequest
  <2>2. PanelRequest(request[s])
    BY <1>1, <2>1 DEF SameRequest, PanelInv
  <2>3. PICK x \in Room : PanelKey(x) \in request[s].seen /\ Orderly(request[s], x)
    BY <2>2 DEF PanelRequest
  <2>4. PICK r, w : r = request[s] /\ w = request'[s]
    OBVIOUS
  <2>5. w.new = r.new /\ w.set = r.set /\ w.seen = r.seen
    BY <2>1, <2>4 DEF SameRequest
  <2>6. Image(PanelKey(x))' = Image(PanelKey(x))
    <3>1. PanelKey(x) \in Keys
      BY DEF PanelKey, Keys
    <3> QED
      BY <2>1, <2>3, <3>1 DEF SameRequest
  <2>7. Orderly(w, x)
    BY <2>3, <2>4, <2>5, OrderlySame
  <2>8. Orderly(w, x)'
    BY <2>6, <2>7, OrderlyStays
  <2>9. PanelKey(x) \in w.seen /\ PanelKey(x)' = PanelKey(x)
    BY <2>3, <2>4, <2>5 DEF PanelKey
  <2>10. Orderly(request[s], x)'
    BY <2>4, <2>8
  <2> QED
    BY <2>4, <2>9, <2>10 DEF PanelRequest
<1> QED
  BY <1>2, <1>3

(* A request that is still right about the panel writes in order.          *)
LEMMA CommitKeepsOrder ==
  ASSUME IInv, NEW s \in Session, Commit(s), NEW x, Orderly(request[s], x), NEW q \in DOMAIN db'["patch_port"]
  PROVE  /\ \/ q \in DOMAIN db["patch_port"] /\ db["patch_port"][q].name = db'["patch_port"][q].name
            \/ \A o \in DOMAIN db'["patch_port"] \ {q} :
                 \/ db'["patch_port"][o].switch_room # db'["patch_port"][q].switch_room
                 \/ db'["patch_port"][o].name # db'["patch_port"][q].name
         /\ q \in DOMAIN db["patch_port"] /\ db["patch_port"][q].switch_port # None =>
              db'["patch_port"][q].switch_port \in {db["patch_port"][q].switch_port, None}
<1> DEFINE r == request[s]
           t == "patch_port"
<1>1. Draft(r) /\ Writes(r) /\ Orderly(r, x)
  BY CommitWrites
<1> HIDE DEF r
<1>2. /\ DOMAIN db'[t] \subseteq DOMAIN db[t] \cup DOMAIN r.new[t]
      /\ DOMAIN r.new[t] \cap DOMAIN db[t] = {} /\ DOMAIN r.set[t] \subseteq DOMAIN db[t]
  BY <1>1, Tables DEF Writes
<1>3. ASSUME NEW o \in DOMAIN db'[t], NEW c \in {"name", "switch_room", "switch_port"}
      PROVE  db'[t][o][c] = Value(r, t, o, c) \/ (c = "switch_port" /\ db'[t][o][c] = None)
  <2>1. c \in Columns[t]
    BY DEF Columns
  <2>2. \A i \in DOMAIN db'[t] : \A e \in Columns[t] :
          db'[t][i][e] = Value(r, t, i, e) \/ IsCut(r, t, i, e)
    BY <1>1, Tables DEF Writes
  <2> QED
    BY <1>1, <2>1, <2>2, Tables DEF IsCut
<1>4. \A o : ~ Sets(r, t, o, "switch_room")
  <2>1. \A o \in DOMAIN r.set[t] : DOMAIN r.set[t][o] \subseteq {"name", "room", "switch_port"}
    BY <1>1, Tables DEF Draft, IsChange, Changing
  <2> QED
    BY <2>1 DEF Sets
<1>5. ASSUME NEW o \in DOMAIN db'[t], ~ Names(r, o)
      PROVE  /\ o \in DOMAIN db[t] /\ db'[t][o].name = db[t][o].name
             /\ db'[t][o].switch_room = db[t][o].switch_room
  BY <1>2, <1>3, <1>4, <1>5 DEF Names, Value
<1>6. ASSUME Names(r, q)
      PROVE  db'[t][q].switch_room = x /\ ~ NameTaken(db'[t][q].name, x)
  <2>1. CASE q \in DOMAIN r.new[t]
    BY <1>1, <1>3, <2>1 DEF Orderly, Value
  <2>2. CASE q \notin DOMAIN r.new[t]
    <3>1. Sets(r, t, q, "name")
      BY <1>6, <2>2 DEF Names
    <3>2. q \in PatchesOf(x) /\ ~ NameTaken(r.set[t][q].name, x)
      BY <1>1, <3>1 DEF Orderly
    <3>3. db'[t][q].name = r.set[t][q].name
      BY <1>3, <2>2, <3>1 DEF Value
    <3>4. db'[t][q].switch_room = db[t][q].switch_room
      BY <1>3, <1>4, <2>2 DEF Value
    <3> QED
      BY <3>2, <3>3, <3>4 DEF PatchesOf
  <2> QED
    BY <2>1, <2>2
<1>7. ASSUME Names(r, q)
      PROVE  \A o \in DOMAIN db'[t] \ {q} :
               \/ db'[t][o].switch_room # db'[t][q].switch_room
               \/ db'[t][o].name # db'[t][q].name
  <2>1. ASSUME NEW o \in DOMAIN db'[t] \ {q}, db'[t][o].switch_room = db'[t][q].switch_room
        PROVE  db'[t][o].name # db'[t][q].name
    <3>1. ~ Names(r, o)
      BY <1>1, <1>7 DEF Orderly
    <3>2. o \in DOMAIN db[t] /\ db'[t][o].name = db[t][o].name /\ db[t][o].switch_room = x
      BY <1>5, <1>6, <1>7, <2>1, <3>1
    <3>3. o \in PatchesOf(x)
      BY <3>2 DEF PatchesOf
    <3>4. ~ NameTaken(db'[t][q].name, x)
      BY <1>6, <1>7
    <3>5. db[t][o].name # db'[t][q].name
      BY <3>3, <3>4 DEF NameTaken
    <3> QED
      BY <3>2, <3>5
  <2> QED
    BY <2>1
<1>8. ASSUME q \in DOMAIN db[t], db[t][q].switch_port # None
      PROVE  db'[t][q].switch_port \in {db[t][q].switch_port, None}
  <2>1. q \notin DOMAIN r.new[t]
    BY <1>2, <1>8
  <2>2. Sets(r, t, q, "switch_port") => r.set[t][q].switch_port = None
    BY <1>1, <1>8 DEF Orderly
  <2> QED
    BY <1>3, <2>1, <2>2 DEF Value
<1> QED
  BY <1>5, <1>7, <1>8

(* Patches stay in their rooms, in every step,                             *)
LEMMA NextKeepsPatches ==
  ASSUME IInv, [Next]_rows
  PROVE  [\A q \in DOMAIN db.patch_port \cap DOMAIN db'.patch_port :
            InSwitchRoom(db, q) =>
              \/ InSwitchRoom(db', q)
              \/ \E w \in DOMAIN db.switch \cap DOMAIN db'.switch : db.host[w].room # db'.host[w].room]_rows
<1> SUFFICES ASSUME NEW q \in DOMAIN db.patch_port \cap DOMAIN db'.patch_port, InSwitchRoom(db, q),
                    \A w \in DOMAIN db.switch \cap DOMAIN db'.switch : db.host[w].room = db'.host[w].room
             PROVE  InSwitchRoom(db', q)
  OBVIOUS
<1>1. CASE db' = db
  BY <1>1
<1>2. ASSUME NEW s \in Session, Commit(s)
      PROVE  InSwitchRoom(db', q)
  BY <1>2, CommitKeepsPatches
<1>3. ASSUME NEW s \in Session, Begin(s)
      PROVE  db' = db
  <2>1. Decides(s)
    BY <1>3, HostingDecides, InterfacingDecides, MpskDecides, PatchingDecides,
       SwitchingDecides DEF Begin, IInv, TypeOK
  <2> QED
    BY <2>1 DEF Decides, Decide
<1>4. ASSUME NEW m \in DOMAIN db.membership, Expire(m)
      PROVE  InSwitchRoom(db', q)
  <2>1. \A t \in Table \ {"membership"} : db'[t] = db[t]
    BY <1>4 DEF Expire, IInv, TypeOK, WellTyped
  <2>2. db'["patch_port"] = db["patch_port"] /\ db'["host"] = db["host"] /\ db'["switch_port"] = db["switch_port"]
    BY <2>1, Tables
  <2> QED
    BY <2>2 DEF InSwitchRoom
<1> QED
  BY <1>1, <1>2, <1>3, <1>4 DEF Next, Abandon, rows

(* and panels in order.                                                    *)
LEMMA NextKeepsOrder ==
  ASSUME IInv, PanelInv, [Next]_rows
  PROVE  [\A s \in Session : Fresh({"patch_port_create", "patch_port_edit", "switch_port_create",
                                    "switch_port_edit"}, s) =>
            \A q \in DOMAIN db'.patch_port :
              LET new == db'.patch_port[q] IN
              /\ \/ q \in DOMAIN db.patch_port /\ db.patch_port[q].name = new.name
                 \/ \A o \in DOMAIN db'.patch_port \ {q} :
                      <<db'.patch_port[o].switch_room, db'.patch_port[o].name>> # <<new.switch_room, new.name>>
              /\ q \in DOMAIN db.patch_port /\ db.patch_port[q].switch_port # None =>
                   new.switch_port \in {db.patch_port[q].switch_port, None}]_rows
<1> SUFFICES ASSUME NEW s \in Session, Fresh(PanelOps, s), NEW q \in DOMAIN db'.patch_port
             PROVE  /\ \/ q \in DOMAIN db.patch_port /\ db.patch_port[q].name = db'.patch_port[q].name
                       \/ \A o \in DOMAIN db'.patch_port \ {q} :
                            <<db'.patch_port[o].switch_room, db'.patch_port[o].name>>
                              # <<db'.patch_port[q].switch_room, db'.patch_port[q].name>>
                    /\ q \in DOMAIN db.patch_port /\ db.patch_port[q].switch_port # None =>
                         db'.patch_port[q].switch_port \in {db.patch_port[q].switch_port, None}
  BY DEF PanelOps
<1>1. Commit(s) /\ request[s].fresh /\ request[s].op \in PanelOps
  BY FreshCommits
<1>2. PanelRequest(request[s])
  BY <1>1 DEF PanelInv, Commit
<1>3. PICK x \in Room : Orderly(request[s], x)
  BY <1>2 DEF PanelRequest
<1> QED
  BY <1>1, <1>3, CommitKeepsOrder

(* A patch port stays patched to a switch of its own switch room, whatever *)
(* requests commit between (the trigger of model/port.py); its name is the *)
(* only one there, and nobody takes a port in use, unless somebody else    *)
(* worked on the same panel meanwhile (lib/infrastructure.py).             *)
THEOREM PanelsAlwaysHold == Spec => PanelsHold
<1>1. Init => IInv /\ PanelInv
  BY InitEstablishes DEF Init, PanelInv
<1>2. IInv /\ PanelInv /\ [Next]_rows => IInv' /\ PanelInv'
  BY NextKeeps, PanelsKeep
<1>3. IInv /\ [Next]_rows =>
        [\A q \in DOMAIN db.patch_port \cap DOMAIN db'.patch_port :
           InSwitchRoom(db, q) =>
             \/ InSwitchRoom(db', q)
             \/ \E w \in DOMAIN db.switch \cap DOMAIN db'.switch : db.host[w].room # db'.host[w].room]_rows
  BY NextKeepsPatches
<1>4. IInv /\ PanelInv /\ [Next]_rows =>
        [\A s \in Session : Fresh({"patch_port_create", "patch_port_edit", "switch_port_create",
                                   "switch_port_edit"}, s) =>
           \A q \in DOMAIN db'.patch_port :
             LET new == db'.patch_port[q] IN
             /\ \/ q \in DOMAIN db.patch_port /\ db.patch_port[q].name = new.name
                \/ \A o \in DOMAIN db'.patch_port \ {q} :
                     <<db'.patch_port[o].switch_room, db'.patch_port[o].name>> # <<new.switch_room, new.name>>
             /\ q \in DOMAIN db.patch_port /\ db.patch_port[q].switch_port # None =>
                  new.switch_port \in {db.patch_port[q].switch_port, None}]_rows
  BY NextKeepsOrder
<1> QED
  BY <1>1, <1>2, <1>3, <1>4, PTL DEF Spec, PanelsHold, PatchesStayInRoom, PanelsKeepOrder

----------------------------------------------------------------------------
(* The addresses that are free *)

(* Everything in a list has a first place there.                           *)
LEMMA EveryOneIsPlaced ==
  ASSUME NEW S, NEW list \in Seq(S), NEW n \in ToSet(list),
         NEW j, j = CHOOSE k \in DOMAIN list : list[k] = n /\ \A l \in 1 .. k - 1 : list[l] # n
  PROVE  j \in DOMAIN list /\ list[j] = n
<1> DEFINE T == {k \in DOMAIN list : list[k] = n}
<1>1. T \in SUBSET Nat /\ T # {}
  BY DEF ToSet
<1> HIDE DEF T
<1>2. PICK m \in T : \A k \in T : m <= k
  BY <1>1, LeastNumber
<1>3. m \in DOMAIN list /\ list[m] = n
  BY <1>2 DEF T
<1>4. \A l \in 1 .. m - 1 : list[l] # n
  <2> SUFFICES ASSUME NEW l \in 1 .. m - 1, list[l] = n PROVE FALSE
    OBVIOUS
  <2>1. l \in DOMAIN list /\ l < m
    BY <1>3
  <2>2. l \in T
    BY <2>1 DEF T
  <2> QED
    BY <1>2, <1>3, <2>1, <2>2
<1> QED
  BY <1>3, <1>4

(* Of all that are free, only one is the first.                            *)
LEMMA FirstFreeIsOne ==
  ASSUME WellTyped(db), NEW list \in Seq(Subnet), FirstFree(list, 1) # {}
  PROVE  \E a \in UNION {Unused(n) : n \in ToSet(list)} : FirstFree(list, 1) = {a}
<1> DEFINE place(n)     == CHOOSE j \in DOMAIN list : list[j] = n /\ \A l \in 1 .. j - 1 : list[l] # n
           home(a)      == CHOOSE n \in ToSet(list) : a \in Usable[n]
           before(a, b) == \/ place(home(a)) < place(home(b))
                           \/ home(a) = home(b) /\ a < b
           free         == UNION {Unused(n) : n \in ToSet(list)}
           earlier(a)   == {b \in free : before(b, a)}
<1>1. FirstFree(list, 1) = {a \in free : Cardinality(earlier(a)) < 1}
  BY DEF FirstFree
<1>2. free \subseteq Address /\ free \subseteq Int
  <2>1. ToSet(list) \subseteq Subnet
    BY DEF ToSet
  <2> QED
    BY <2>1, NetworkAssumption DEF Unused, Address
<1>3. IsFiniteSet(free)
  BY <1>2, NetworkAssumption, Tables, FS_Subset
<1>4. ASSUME NEW a \in free
      PROVE  place(home(a)) \in Int /\ home(a) \in ToSet(list) /\ list[place(home(a))] = home(a)
  <2>1. \E n \in ToSet(list) : a \in Usable[n]
    BY <1>4 DEF Unused
  <2>2. home(a) \in ToSet(list)
    BY <2>1
  <2> HIDE DEF home
  <2>3. place(home(a)) \in DOMAIN list /\ list[place(home(a))] = home(a)
    BY <2>2, EveryOneIsPlaced
  <2> HIDE DEF place
  <2> QED
    BY <2>2, <2>3
<1>5. ASSUME NEW a \in free, NEW b \in free, a # b
      PROVE  before(a, b) \/ before(b, a)
  <2>1. a \in Int /\ b \in Int
    BY <1>2
  <2>2. /\ place(home(a)) \in Int /\ place(home(b)) \in Int
        /\ place(home(a)) = place(home(b)) => home(a) = home(b)
    <3> HIDE DEF free, place, home
    <3> QED
      BY <1>4
  <2> HIDE DEF home, place
  <2> QED
    BY <1>5, <2>1, <2>2
<1> HIDE DEF before, free
<1>6. ASSUME NEW a \in free, Cardinality(earlier(a)) < 1
      PROVE  \A b \in free : ~ before(b, a)
  <2>1. IsFiniteSet(earlier(a))
    <3>1. earlier(a) \subseteq free
      OBVIOUS
    <3> QED
      BY <1>3, <3>1, FS_Subset
  <2>2. Cardinality(earlier(a)) = 0
    BY <1>6, <2>1, FS_CardinalityType
  <2>3. earlier(a) = {}
    BY <2>1, <2>2, FS_EmptySet
  <2> QED
    BY <2>3
<1>7. PICK a \in free : Cardinality(earlier(a)) < 1
  BY <1>1
<1>8. \A b \in free : Cardinality(earlier(b)) < 1 => b = a
  BY <1>5, <1>6, <1>7
<1>9. FirstFree(list, 1) = {a}
  <2> HIDE DEF earlier
  <2> QED
    BY <1>1, <1>7, <1>8
<1> QED
  BY <1>9 DEF free

----------------------------------------------------------------------------
(* What the operations on hosts write *)

(* Deleting only deletes.                                                  *)
LEMMA DeleteIs ==
  ASSUME NEW r, Draft(r), NEW t \in Table, NEW S, NEW q, q = Delete(r, t, S)
  PROVE  /\ Draft(q) /\ q.new = r.new /\ q.set = r.set /\ q.drop[t] = r.drop[t] \cup S
         /\ \A o \in Table \ {t} : q.drop[o] = r.drop[o]
<1>1. /\ q.new = r.new /\ q.set = r.set
      /\ q.drop = [r.drop EXCEPT ![t] = r.drop[t] \cup S]
  BY ShapeDrop DEF Draft, Delete
<1>2. DOMAIN r.drop = Table
  BY DEF Draft
<1> QED
  BY <1>1, <1>2, DraftDelete

(* Another request as r, but for the tables T, in which only it inserts    *)
Beyond(q, r, T) ==
  /\ Draft(q) /\ q.set = r.set /\ q.drop = r.drop
  /\ \A o \in Table \ T : q.new[o] = r.new[o]

(* One host more,                                                          *)
LEMMA WithHostIs ==
  ASSUME NEW r, Draft(r), NEW h \in Ids["host"], NEW u, NEW x \in Room, NEW q, q = WithHost(r, h, u, x)
  PROVE  /\ Beyond(q, r, {"host"}) /\ DOMAIN q.new["host"] = {h} \cup DOMAIN r.new["host"]
         /\ q.new["host"][h].owner = u /\ q.new["host"][h].room = x
<1> DEFINE row == [owner |-> u, room |-> x]
<1>1. row.owner = u /\ row.room = x
  OBVIOUS
<1>2. q = Insert(r, "host", h, row)
  BY DEF WithHost
<1> HIDE DEF row
<1>3. Inserts(q, r, "host", One(h, row)) /\ DOMAIN One(h, row) = {h} /\ One(h, row)[h] = row
  <2>1. "host" \in Table
    BY Tables
  <2>2. /\ Inserts(Insert(r, "host", h, row), r, "host", One(h, row))
        /\ DOMAIN One(h, row) = {h} /\ One(h, row)[h] = row
    BY <2>1, InsertInserts
  <2> QED
    BY <1>2, <2>2
<1>4. Draft(q)
  BY DraftWithHost
<1> QED
  BY <1>1, <1>3, <1>4 DEF Beyond, Inserts

(* one interface more,                                                     *)
LEMMA WithInterfaceIs ==
  ASSUME NEW r, Draft(r), NEW h, NEW i \in Ids["interface"], NEW mac, NEW q, q = WithInterface(r, h, i, mac)
  PROVE  /\ Beyond(q, r, {"interface"}) /\ DOMAIN q.new["interface"] = {i} \cup DOMAIN r.new["interface"]
         /\ q.new["interface"][i].host = h
<1> DEFINE row == [host |-> h, mac |-> mac]
<1>1. row.host = h
  OBVIOUS
<1>2. q = Insert(r, "interface", i, row)
  BY DEF WithInterface
<1> HIDE DEF row
<1>3. Inserts(q, r, "interface", One(i, row)) /\ DOMAIN One(i, row) = {i} /\ One(i, row)[i] = row
  <2>1. "interface" \in Table
    BY Tables
  <2>2. /\ Inserts(Insert(r, "interface", i, row), r, "interface", One(i, row))
        /\ DOMAIN One(i, row) = {i} /\ One(i, row)[i] = row
    BY <2>1, InsertInserts
  <2> QED
    BY <1>2, <2>2
<1>4. Draft(q)
  BY DraftWithInterface
<1> QED
  BY <1>1, <1>3, <1>4 DEF Beyond, Inserts

(* some addresses more.                                                    *)
LEMMA WithAddressesIs ==
  ASSUME NEW r, Draft(r), NEW i, NEW A \in SUBSET Address, NEW q, q = WithAddresses(r, i, A)
  PROVE  /\ Beyond(q, r, {"ip"}) /\ DOMAIN q.new["ip"] = A \cup DOMAIN r.new["ip"]
         /\ \A a \in A : q.new["ip"][a].interface = i
         /\ \A a \in DOMAIN r.new["ip"] \ A : q.new["ip"][a] = r.new["ip"][a]
<1> DEFINE more == [a \in A |-> [interface |-> i]]
<1>1. q = InsertAll(r, "ip", more)
  BY DEF WithAddresses
<1>2. DOMAIN more = A /\ \A a \in A : more[a].interface = i
  OBVIOUS
<1> HIDE DEF more
<1>3. Inserts(q, r, "ip", more)
  BY <1>1, InsertAllInserts, Tables
<1>4. Draft(q)
  BY DraftWithAddresses
<1> QED
  BY <1>2, <1>3, <1>4 DEF Beyond, Inserts

(* What a concatenation holds                                              *)
LEMMA ConcatHolds ==
  ASSUME NEW S, NEW s \in Seq(S), NEW t \in Seq(S)
  PROVE  ToSet(s \o t) = ToSet(s) \cup ToSet(t)
<1>1. /\ DOMAIN (s \o t) = 1 .. Len(s) + Len(t)
      /\ \A i \in 1 .. Len(s) : (s \o t)[i] = s[i]
      /\ \A i \in 1 .. Len(t) : (s \o t)[Len(s) + i] = t[i]
      /\ \A i \in 1 .. Len(s) + Len(t) : i > Len(s) => (s \o t)[i] = t[i - Len(s)]
  BY ConcatProperties
<1>2. ASSUME NEW v \in ToSet(s \o t)
      PROVE  v \in ToSet(s) \cup ToSet(t)
  <2>1. PICK i \in 1 .. Len(s) + Len(t) : (s \o t)[i] = v
    BY <1>1 DEF ToSet
  <2>2. CASE i <= Len(s)
    BY <1>1, <2>1, <2>2 DEF ToSet
  <2>3. CASE i > Len(s)
    <3>1. i - Len(s) \in DOMAIN t /\ t[i - Len(s)] = v
      BY <1>1, <2>1, <2>3
    <3> QED
      BY <3>1 DEF ToSet
  <2> QED
    BY <2>2, <2>3
<1>3. ASSUME NEW i \in DOMAIN s
      PROVE  s[i] \in ToSet(s \o t)
  BY <1>1 DEF ToSet
<1>4. ASSUME NEW i \in DOMAIN t
      PROVE  t[i] \in ToSet(s \o t)
  <2>1. Len(s) + i \in DOMAIN (s \o t) /\ (s \o t)[Len(s) + i] = t[i]
    BY <1>1
  <2> QED
    BY <2>1 DEF ToSet
<1> QED
  BY <1>2, <1>3, <1>4 DEF ToSet

(* Sequences put together hold what each of them holds.                    *)
LEMMA FlattenHolds ==
  ASSUME NEW S, NEW seqs \in Seq(Seq(S))
  PROVE  ToSet(FlattenSeq(seqs)) = UNION {ToSet(seqs[i]) : i \in DOMAIN seqs}
<1>1. CASE Len(seqs) = 0
  <2>1. seqs = << >>
    BY <1>1
  <2>2. FlattenSeq(seqs) = << >> /\ DOMAIN seqs = {}
    BY <1>1, <2>1 DEF FlattenSeq
  <2> QED
    BY <2>2 DEF ToSet
<1>2. CASE Len(seqs) # 0
  <2> DEFINE N == Len(seqs)
             Upto(n) == UNION {ToSet(seqs[i]) : i \in 1 .. n}
             D == [n \in 0 .. N |-> {s \in Seq(S) : ToSet(s) = Upto(n)}]
  <2>1. PICK flat :
          /\ \A i \in 1 .. N : flat[i] = IF i = 1 THEN seqs[i] ELSE flat[i - 1] \o seqs[i]
          /\ \A i \in 1 .. N : flat[i] \in Seq(S)
          /\ FlattenSeq(seqs) = flat[N]
    BY <1>2, FlattenSteps
  <2> DEFINE g == [n \in 0 .. N |-> IF n = 0 THEN << >> ELSE flat[n]]
  <2>2. N \in Nat \ {0} /\ \A i \in 1 .. N : seqs[i] \in Seq(S)
    BY <1>2
  <2>3. g[0] \in D[0]
    <3>1. g[0] = << >> /\ D[0] = {s \in Seq(S) : ToSet(s) = Upto(0)}
      BY <2>2
    <3>2. Upto(0) = {} /\ ToSet(<< >>) = {} /\ << >> \in Seq(S)
      BY DEF ToSet
    <3> QED
      BY <3>1, <3>2
  <2>4. ASSUME NEW n \in 1 .. N, g[n - 1] \in D[n - 1]
        PROVE  g[n] \in D[n]
    <3>1. n - 1 \in 0 .. N /\ n \in 0 .. N /\ n # 0 /\ n - 1 \in Nat
      BY <2>2
    <3>2. g[n] = flat[n] /\ g[n - 1] \in Seq(S) /\ ToSet(g[n - 1]) = Upto(n - 1)
      BY <2>4, <3>1
    <3>3. Upto(n) = Upto(n - 1) \cup ToSet(seqs[n])
      <4>1. 1 .. n = (1 .. n - 1) \cup {n}
        BY <3>1
      <4> QED
        BY <4>1
    <3>4. flat[n] \in Seq(S) /\ seqs[n] \in Seq(S)
      BY <2>1, <2>2
    <3>5. ToSet(flat[n]) = ToSet(g[n - 1]) \cup ToSet(seqs[n])
      <4>1. CASE n = 1
        <5>1. flat[n] = seqs[n] /\ g[n - 1] = << >>
          BY <2>1, <3>1, <4>1, SMTT(30)
        <5>2. ToSet(<< >>) = {}
          BY DEF ToSet
        <5> QED
          BY <5>1, <5>2
      <4>2. CASE n # 1
        <5>1. n - 1 # 0
          BY <4>2
        <5>2. flat[n] = flat[n - 1] \o seqs[n] /\ g[n - 1] = flat[n - 1]
          BY <2>1, <3>1, <4>2, <5>1
        <5> HIDE DEF g
        <5> QED
          BY <3>2, <3>4, <5>2, ConcatHolds
      <4> QED
        BY <4>1, <4>2
    <3>6. D[n] = {s \in Seq(S) : ToSet(s) = Upto(n)}
      BY <3>1
    <3> HIDE DEF Upto, D, g
    <3> QED
      BY <3>2, <3>3, <3>4, <3>5, <3>6
  <2>5. \A n \in 0 .. N : g[n] \in D[n]
    <3>1. N \in Nat
      BY <2>2
    <3> HIDE DEF g, D, N
    <3> QED
      BY <3>1, <2>3, <2>4, StepsStay
  <2>6. g[N] = flat[N] /\ g[N] \in D[N] /\ D[N] = {s \in Seq(S) : ToSet(s) = Upto(N)}
    <3>1. N \in 0 .. N /\ N # 0
      BY <2>2
    <3>2. g[N] = flat[N]
      BY <3>1
    <3>3. D[N] = {s \in Seq(S) : ToSet(s) = Upto(N)}
      BY <3>1
    <3>4. g[N] \in D[N]
      <4> HIDE DEF g, D, N
      <4> QED
        BY <2>5, <3>1
    <3> QED
      BY <3>2, <3>3, <3>4
  <2>7. DOMAIN seqs = 1 .. N
    OBVIOUS
  <2> HIDE DEF D, g, N
  <2> QED
    BY <2>1, <2>6, <2>7
<1> QED
  BY <1>1, <1>2

(* A list of as many different ones as there are holds them all.           *)
LEMMA EveryOneIsListed ==
  ASSUME NEW C, IsFiniteSet(C), NEW f \in SetToSeqs(C)
  PROVE  {f[n] : n \in 1 .. Cardinality(C)} = C
<1> DEFINE N == Cardinality(C)
<1>1. N \in Nat
  BY FS_CardinalityType
<1>2. Cardinality(1 .. N) = N
  BY <1>1, FS_Interval
<1>3. f \in Injection(1 .. N, C)
  BY DEF SetToSeqs, Injection, IsInjective
<1> HIDE DEF N
<1>4. f \in Surjection(1 .. N, C)
  BY <1>2, <1>3, FS_Injection DEF N
<1>5. f \in [1 .. N -> C] /\ \A c \in C : \E n \in 1 .. N : f[n] = c
  BY <1>4 DEF Surjection
<1>6. {f[n] : n \in 1 .. N} = C
  BY <1>5
<1> QED
  BY <1>6 DEF N

(* The lists of subnets of a room hold the subnets of the room.            *)
LEMMA ListsHold ==
  ASSUME WellTyped(db), References(db), NEW x, NEW list \in SubnetLists(x)
  PROVE  list \in Seq(Subnet) /\ ToSet(list) = SubnetsOf(x)
<1> DEFINE N == Cardinality(Connected(x))
           offered(q) == db.switch_port[db.patch_port[q].switch_port].subnets
<1>1. PICK qs \in SetToSeqs(Connected(x)) : list = FlattenSeq(Offered(qs))
  BY DEF SubnetLists, Offered
<1>2. N \in Nat /\ IsFiniteSet(Connected(x))
  <2>1. Connected(x) \subseteq Ids["patch_port"] /\ IsFiniteSet(Ids["patch_port"])
    BY NetworkAssumption DEF Connected, WellTyped, Table
  <2> QED
    BY <2>1, FS_Subset, FS_CardinalityType
<1>3. qs \in [1 .. N -> Connected(x)]
  BY <1>1 DEF SetToSeqs
<1>4. \A q \in Connected(x) : offered(q) \in Seq(Subnet)
  <2> SUFFICES ASSUME NEW q \in Connected(x) PROVE offered(q) \in Seq(Subnet)
    OBVIOUS
  <2>1. db.patch_port[q].switch_port \in DOMAIN db.switch_port
    BY DEF Connected, References
  <2> QED
    BY <2>1 DEF WellTyped, IsRow, IsValue, Columns, Table
<1>5. Offered(qs) = [n \in 1 .. N |-> offered(qs[n])]
  BY <1>3 DEF Offered
<1>6. Offered(qs) \in Seq(Seq(Subnet))
  <2>1. Offered(qs) \in [1 .. N -> Seq(Subnet)]
    <3> HIDE DEF offered
    <3> QED
      BY <1>3, <1>4, <1>5
  <2> HIDE DEF N
  <2> QED
    BY <1>2, <2>1
<1>7. ToSet(list) = UNION {ToSet(Offered(qs)[n]) : n \in DOMAIN Offered(qs)}
  BY <1>1, <1>6, FlattenHolds
<1>8. {qs[n] : n \in 1 .. N} = Connected(x)
  BY <1>1, <1>2, EveryOneIsListed
<1>9. UNION {ToSet(Offered(qs)[n]) : n \in DOMAIN Offered(qs)} = UNION {ToSet(offered(q)) : q \in Connected(x)}
  <2> HIDE DEF offered, N
  <2> QED
    BY <1>5, <1>8
<1> QED
  BY <1>1, <1>6, <1>7, <1>9, FlattenTyped DEF SubnetsOf

(* The addresses of the subnets of a room                                  *)
Offers(x) == UNION {Usable[n] : n \in SubnetsOf(x)}

(* The first free addresses are some of the room's.                        *)
LEMMA FirstFreeOffers ==
  ASSUME WellTyped(db), References(db), NEW x, NEW list \in SubnetLists(x), NEW k
  PROVE  FirstFree(list, k) \subseteq Offers(x) \cap Address
<1>1. list \in Seq(Subnet) /\ ToSet(list) = SubnetsOf(x)
  BY ListsHold
<1>2. FirstFree(list, k) \subseteq UNION {Unused(n) : n \in ToSet(list)}
  BY DEF FirstFree
<1>3. \A n : Unused(n) \subseteq Usable[n]
  BY DEF Unused
<1>4. FirstFree(list, k) \subseteq Address
  BY <1>1, FirstFreeTyped
<1>5. UNION {Unused(n) : n \in ToSet(list)} \subseteq Offers(x)
  BY <1>1, <1>3 DEF Offers
<1> QED
  BY <1>2, <1>4, <1>5

(* One interface more, i, and one address, a                               *)
OneMore(w, r, h, i, a) ==
  /\ Beyond(w, r, {"interface", "ip"})
  /\ DOMAIN w.new["interface"] = {i} \cup DOMAIN r.new["interface"] /\ w.new["interface"][i].host = h
  /\ DOMAIN w.new["ip"] = {a} \cup DOMAIN r.new["ip"] /\ w.new["ip"][a].interface = i
  /\ \A b \in DOMAIN r.new["ip"] \ {a} : w.new["ip"][b] = r.new["ip"][b]

(* A new interface gets one address of the room.                           *)
LEMMA AddressedIs ==
  ASSUME WellTyped(db), References(db), NEW r, Draft(r), NEW h, NEW x, NEW mac,
         NewIds("interface") # {}, NEW w \in Addressed(r, h, x, mac)
  PROVE  \E a \in Offers(x) : OneMore(w, r, h, NewId("interface"), a)
<1>1. PICK i : i = NewId("interface") /\ i \in Ids["interface"]
  BY NewIdTyped
<1> DEFINE q == WithInterface(r, h, i, mac)
<1>2. PICK list \in SubnetLists(x) :
        w = WithAddresses(q, i, FirstFree(list, 1)) /\ FirstFree(list, 1) # {}
  BY <1>1 DEF Addressed
<1>3. list \in Seq(Subnet)
  BY ListsHold
<1>4. PICK a : FirstFree(list, 1) = {a}
  BY <1>2, <1>3, FirstFreeIsOne
<1>5. a \in Offers(x) /\ {a} \in SUBSET Address
  BY <1>4, FirstFreeOffers
<1>6. /\ Beyond(q, r, {"interface"}) /\ DOMAIN q.new["interface"] = {i} \cup DOMAIN r.new["interface"]
      /\ q.new["interface"][i].host = h
  BY <1>1, WithInterfaceIs
<1> HIDE DEF q
<1>7. w = WithAddresses(q, i, {a}) /\ Draft(q)
  BY <1>2, <1>4, <1>6 DEF Beyond
<1>8. /\ Beyond(w, q, {"ip"}) /\ DOMAIN w.new["ip"] = {a} \cup DOMAIN q.new["ip"]
      /\ \A b \in {a} : w.new["ip"][b].interface = i
      /\ \A b \in DOMAIN q.new["ip"] \ {a} : w.new["ip"][b] = q.new["ip"][b]
  BY <1>5, <1>7, WithAddressesIs
<1>9. w.new["interface"] = q.new["interface"] /\ q.new["ip"] = r.new["ip"]
  BY <1>6, <1>8, Tables DEF Beyond
<1>10. Beyond(w, r, {"interface", "ip"})
  BY <1>6, <1>8 DEF Beyond
<1>11. OneMore(w, r, h, i, a)
  BY <1>6, <1>8, <1>9, <1>10 DEF OneMore
<1> QED
  BY <1>1, <1>5, <1>11

(* The addresses olds are given up for news, on the same interfaces.       *)
Exchanged(w, r, olds, news) ==
  /\ Draft(w) /\ w.set = r.set
  /\ \A o \in Table \ {"ip"} : w.new[o] = r.new[o] /\ w.drop[o] = r.drop[o]
  /\ w.drop["ip"] = r.drop["ip"] \cup olds
  /\ DOMAIN w.new["ip"] = news \cup DOMAIN r.new["ip"]
  /\ \A a \in news : \E o \in olds : w.new["ip"][a].interface = db.ip[o].interface

(* New addresses are exchanged for the old ones.                           *)
LEMMA ReaddressedIs ==
  ASSUME NEW r, Draft(r), NEW olds, NEW news \in SUBSET Address, NEW w \in Readdressed(r, olds, news)
  PROVE  Exchanged(w, r, olds, news)
<1>1. PICK f \in [news -> olds] :
        w = [r EXCEPT !.drop["ip"] = @ \cup olds,
                      !.new["ip"] = Over([a \in news |-> [interface |-> db.ip[f[a]].interface]], @)]
  BY DEF Readdressed
<1> DEFINE more == [a \in news |-> [interface |-> db.ip[f[a]].interface]]
           f2 == Over(more, r.new["ip"])
<1>2. DOMAIN more = news /\ \A a \in news : more[a].interface = db.ip[f[a]].interface
  OBVIOUS
<1>3. w = [r EXCEPT !.drop["ip"] = @ \cup olds, !.new["ip"] = f2]
  BY <1>1
<1> HIDE DEF more
<1>4. /\ DOMAIN f2 = DOMAIN more \cup DOMAIN r.new["ip"]
      /\ \A a \in DOMAIN more : f2[a] = more[a]
  BY OverFacts
<1> HIDE DEF f2
<1>5. /\ w.set = r.set /\ w.new = [r.new EXCEPT !["ip"] = f2]
      /\ w.drop = [r.drop EXCEPT !["ip"] = r.drop["ip"] \cup olds]
  BY <1>3 DEF Draft, Shape
<1>6. /\ w.new["ip"] = f2 /\ w.drop["ip"] = r.drop["ip"] \cup olds
      /\ \A o \in Table \ {"ip"} : w.new[o] = r.new[o] /\ w.drop[o] = r.drop[o]
  BY <1>5, Tables DEF Draft
<1>7. Draft(w)
  BY DraftReaddressed
<1>8. \A a \in news : \E o \in olds : w.new["ip"][a].interface = db.ip[o].interface
  BY <1>2, <1>4, <1>6
<1> QED
  BY <1>2, <1>4, <1>5, <1>6, <1>7, <1>8 DEF Exchanged

(* The hosts are moved, and keep their addresses only if the rooms have    *)
(* the same subnets.                                                       *)
MovedHosts(q, r, H, x) == SetsMore(q, r, "host", H, [room |-> x])

(* Migrating moves the hosts, and readdresses them if it has to.           *)
LEMMA MigratedIs ==
  ASSUME WellTyped(db), References(db), NEW r, Draft(r), NEW H, NEW x \in Room, NEW y,
         \A h \in H : db.host[h].room = y, NEW w \in Migrated(r, H, x)
  PROVE  \E q : /\ MovedHosts(q, r, H, x)
                /\ \/ w = q /\ SubnetsOf(y) = SubnetsOf(x)
                   \/ \E news \in SUBSET Offers(x) : Exchanged(w, q, OldAddresses(H), news)
<1> DEFINE q == Moved(r, H, x)
           old == OldAddresses(H)
<1>1. MovedHosts(q, r, H, x) /\ Draft(q)
  <2>1. IsChange("host", [room |-> x]) /\ "host" \in Table
    BY KindsOfChanges, Tables
  <2> QED
    BY <2>1, UpdateAllSets DEF Moved, MovedHosts, SetsMore
<1>2. PICK from \in SubnetLists(y), to \in SubnetLists(x) :
        \/ w = q /\ (from = to \/ y = x)
        \/ w \in Readdressed(q, old, FirstFree(to, Cardinality(old)))
  <2>1. PICK h \in H : \E a \in SubnetLists(db.host[h].room), b \in SubnetLists(x) :
          w \in IF a = b \/ \A g \in H : db.host[g].room = x THEN {q}
                ELSE LET news == FirstFree(b, Cardinality(old))
                     IN  IF Cardinality(news) < Cardinality(old) THEN {}
                         ELSE Readdressed(q, old, news)
    <3> HIDE DEF q, old
    <3> QED
      BY DEF Migrated, q, old
  <2>2. db.host[h].room = y
    OBVIOUS
  <2>3. \E a \in SubnetLists(y), b \in SubnetLists(x) :
          \/ w = q /\ (a = b \/ y = x)
          \/ w \in Readdressed(q, old, FirstFree(b, Cardinality(old)))
    <3> HIDE DEF q, old
    <3> QED
      BY <2>1, <2>2
  <2> QED
    BY <2>3
<1> HIDE DEF q, old
<1>3. CASE w = q /\ (from = to \/ y = x)
  <2>1. SubnetsOf(y) = SubnetsOf(x)
    BY <1>3, ListsHold
  <2> QED
    BY <1>1, <1>3, <2>1
<1>4. CASE w \in Readdressed(q, old, FirstFree(to, Cardinality(old)))
  <2>1. FirstFree(to, Cardinality(old)) \subseteq Offers(x) \cap Address
    BY FirstFreeOffers
  <2>2. Exchanged(w, q, old, FirstFree(to, Cardinality(old)))
    BY <1>1, <1>4, <2>1, ReaddressedIs
  <2> QED
    BY <1>1, <2>1, <2>2 DEF old
<1> QED
  BY <1>2, <1>3, <1>4

----------------------------------------------------------------------------
(* The limits of the API *)

LimitOps == {"mpsk_add", "activate"}

(* One client more, of a user who may have another                         *)
AddsClient(r, u) ==
  /\ r.drop["mpsk"] = {} /\ Cardinality(MpsksOf(u)) < MaxMpsks
  /\ \E c : DOMAIN r.new["mpsk"] = {c} /\ r.new["mpsk"][c].owner = u

(* One interface and one address, on the only host                         *)
Activates(r, u, h) ==
  /\ r.drop["host"] = {} /\ r.drop["interface"] = {} /\ r.drop["ip"] = {}
  /\ \A k : ~ Sets(r, "host", k, "owner")
  /\ \/ HostsOf(u) = {} /\ DOMAIN r.new["host"] = {h} /\ r.new["host"][h].owner = u
     \/ /\ HostsOf(u) = {h} /\ InterfacesOf(h) = {} /\ DOMAIN r.new["host"] = {}
        /\ HostKey(h) \in r.seen
  /\ \E i : DOMAIN r.new["interface"] = {i} /\ r.new["interface"][i].host = h /\
       \E a : DOMAIN r.new["ip"] = {a} /\ r.new["ip"][a].interface = i

LimitRequest(r) ==
  \E u \in User :
    /\ UserKey(u) \in r.seen
    /\ r.op = "mpsk_add" => AddsClient(r, u)
    /\ r.op = "activate" => \E h : Activates(r, u, h)

LimitInv ==
  \A s \in Session :
    request[s] # None /\ request[s].fresh /\ request[s].op \in LimitOps => LimitRequest(request[s])

(* As long as the user looks the same                                      *)
LEMMA UserImage ==
  ASSUME NEW u \in User, Image(UserKey(u))' = Image(UserKey(u))
  PROVE  /\ UserKey(u) \in Keys
         /\ HostsOf(u)' = HostsOf(u) /\ MpsksOf(u)' = MpsksOf(u)
<1>1. Image(UserKey(u)) = <<db.user[u], GroupsOf(u), HostsOf(u), MpsksOf(u)>>
  BY DEF Image, UserKey
<1>2. Image(UserKey(u))' = <<db.user[u]', GroupsOf(u)', HostsOf(u)', MpsksOf(u)'>>
  BY DEF Image, UserKey
<1>3. UserKey(u) \in Keys
  BY NetworkAssumption DEF UserKey, Keys
<1> QED
  BY <1>1, <1>2, <1>3

(* As long as the host looks the same                                      *)
LEMMA HostImage ==
  ASSUME NEW h, h \in DOMAIN db["host"], Image(HostKey(h))' = Image(HostKey(h))
  PROVE  /\ h \in DOMAIN db'["host"] /\ db'["host"][h] = db["host"][h]
         /\ InterfacesOf(h)' = InterfacesOf(h)
         /\ {<<i, AddressesOf(i)>> : i \in InterfacesOf(h)}' = {<<i, AddressesOf(i)>> : i \in InterfacesOf(h)}
<1> DEFINE pairs == {<<i, AddressesOf(i)>> : i \in InterfacesOf(h)}
<1>1. Image(HostKey(h)) = <<db["host"][h], InterfacesOf(h), pairs>>
  BY DEF Image, HostKey
<1>2. Image(HostKey(h))' = IF h \notin DOMAIN db'["host"] THEN << >>
                           ELSE <<db'["host"][h], InterfacesOf(h)', pairs'>>
  BY DEF Image, HostKey
<1> HIDE DEF pairs
<1>3. h \in DOMAIN db'["host"]
  BY <1>1, <1>2
<1>4. db'["host"][h] = db["host"][h] /\ InterfacesOf(h)' = InterfacesOf(h) /\ pairs' = pairs
  BY <1>1, <1>2, <1>3
<1> QED
  BY <1>3, <1>4 DEF pairs

(* A request that writes the same, once it has the same name               *)
Alike(q, r) == q.op = r.op /\ q.seen = r.seen /\ q.new = r.new /\ q.set = r.set /\ q.drop = r.drop

(* Requests that write the same are within the same limits.                *)
LEMMA LimitSame ==
  ASSUME NEW r, NEW q, Alike(q, r), LimitRequest(r)
  PROVE  LimitRequest(q)
<1>1. ASSUME NEW u, AddsClient(r, u)
      PROVE  AddsClient(q, u)
  BY <1>1 DEF AddsClient, Alike
<1>2. ASSUME NEW u, NEW h, Activates(r, u, h)
      PROVE  Activates(q, u, h)
  <2>1. \A k, c : Sets(q, "host", k, c) <=> Sets(r, "host", k, c)
    BY DEF Sets, Alike
  <2> QED
    BY <1>2, <2>1 DEF Activates, Alike
<1> QED
  BY <1>1, <1>2 DEF LimitRequest, Alike

(* A request stays within its limits while what it saw looks the same.     *)
LEMMA LimitStays ==
  ASSUME WellTyped(db), NEW r, LimitRequest(r), \A k \in r.seen \cap Keys : Image(k)' = Image(k)
  PROVE  LimitRequest(r)'
<1>1. PICK u \in User :
        /\ UserKey(u) \in r.seen
        /\ r.op = "mpsk_add" => AddsClient(r, u)
        /\ r.op = "activate" => \E h : Activates(r, u, h)
  BY DEF LimitRequest
<1>2. UserKey(u) \in Keys
  BY NetworkAssumption DEF UserKey, Keys
<1>3. HostsOf(u)' = HostsOf(u) /\ MpsksOf(u)' = MpsksOf(u)
  BY <1>1, <1>2, UserImage
<1>4. AddsClient(r, u) => AddsClient(r, u)'
  BY <1>3 DEF AddsClient
<1>5. ASSUME NEW h, Activates(r, u, h)
      PROVE  Activates(r, u, h)'
  <2>1. HostsOf(u) = {h} /\ HostKey(h) \in r.seen => InterfacesOf(h)' = InterfacesOf(h)
    <3> SUFFICES ASSUME HostsOf(u) = {h}, HostKey(h) \in r.seen PROVE InterfacesOf(h)' = InterfacesOf(h)
      OBVIOUS
    <3>1. h \in DOMAIN db["host"]
      BY DEF HostsOf
    <3>2. HostKey(h) \in Keys
      BY <3>1, Tables DEF WellTyped, HostKey, Keys
    <3> QED
      BY <3>1, <3>2, HostImage
  <2>2. HostKey(h)' = HostKey(h) /\ \A k : Sets(r, "host", k, "owner")' <=> Sets(r, "host", k, "owner")
    BY DEF HostKey, Sets
  <2>3. CASE HostsOf(u) = {} /\ DOMAIN r.new["host"] = {h} /\ r.new["host"][h].owner = u
    BY <1>3, <1>5, <2>2, <2>3 DEF Activates
  <2>4. CASE HostsOf(u) = {h} /\ InterfacesOf(h) = {} /\ DOMAIN r.new["host"] = {} /\ HostKey(h) \in r.seen
    BY <1>3, <1>5, <2>1, <2>2, <2>4 DEF Activates
  <2> QED
    BY <1>5, <2>3, <2>4 DEF Activates
<1>6. UserKey(u)' = UserKey(u)
  BY DEF UserKey
<1> QED
  BY <1>1, <1>4, <1>5, <1>6 DEF LimitRequest

(* Nothing of the patch panel is touched.                                  *)
Aloof(r) ==
  /\ r.drop["switch"] = {}
  /\ \A t \in {"switch_port", "patch_port"} :
       DOMAIN r.new[t] = {} /\ r.drop[t] = {} /\ \A k, c : ~ Sets(r, t, k, c)

(* A request so far: no host is moved, nothing is made or deleted on one.  *)
Base(r) ==
  /\ Draft(r) /\ Aloof(r)
  /\ \A t \in {"host", "interface", "ip"} : DOMAIN r.new[t] = {} /\ r.drop[t] = {}
  /\ \A k : ~ Sets(r, "host", k, "room")

(* Hosts of the room y are moved to x: they keep their addresses only if   *)
(* the rooms have the same subnets.                                        *)
Moves(w, r, H, y, x) ==
  /\ Draft(w)
  /\ \A o \in Table \ {"ip"} : w.new[o] = r.new[o] /\ w.drop[o] = r.drop[o]
  /\ \A k, c : Sets(w, "host", k, c) <=> Sets(r, "host", k, c) \/ Adds("host", H, [room |-> x], "host", k, c)
  /\ \A k, c : Adds("host", H, [room |-> x], "host", k, c) => w.set["host"][k][c] = x
  /\ \A o \in Table \ {"host"} : \A k, c : Sets(w, o, k, c) <=> Sets(r, o, k, c)
  /\ \/ /\ w.new["ip"] = r.new["ip"] /\ w.drop["ip"] = r.drop["ip"]
        /\ SubnetsOf(y) = SubnetsOf(x)
     \/ /\ w.drop["ip"] = r.drop["ip"] \cup OldAddresses(H)
        /\ \E news \in SUBSET Offers(x) :
             /\ DOMAIN w.new["ip"] = news \cup DOMAIN r.new["ip"]
             /\ \A a \in news : \E o \in OldAddresses(H) : w.new["ip"][a].interface = db.ip[o].interface

(* That is what migrating does.                                            *)
LEMMA MigratedMoves ==
  ASSUME WellTyped(db), References(db), NEW r, Draft(r), NEW H, NEW x \in Room, NEW y,
         \A h \in H : db.host[h].room = y, NEW w \in Migrated(r, H, x)
  PROVE  Moves(w, r, H, y, x)
<1> DEFINE fields == [room |-> x]
<1>1. PICK q : /\ MovedHosts(q, r, H, x)
               /\ \/ w = q /\ SubnetsOf(y) = SubnetsOf(x)
                  \/ \E news \in SUBSET Offers(x) : Exchanged(w, q, OldAddresses(H), news)
  BY MigratedIs
<1>2. DOMAIN fields = {"room"} /\ fields["room"] = x
  OBVIOUS
<1>3. SetsMore(q, r, "host", H, fields)
  BY <1>1 DEF MovedHosts
<1> HIDE DEF fields
<1>4. /\ Draft(q) /\ q.new = r.new /\ q.drop = r.drop
      /\ \A k, c : Sets(q, "host", k, c) <=> Sets(r, "host", k, c) \/ Adds("host", H, fields, "host", k, c)
      /\ \A k, c : Adds("host", H, fields, "host", k, c) => q.set["host"][k][c] = fields[c]
  BY <1>3, Tables DEF SetsMore
<1>8. \A o \in Table \ {"host"} : \A k, c : Sets(q, o, k, c) <=> Sets(r, o, k, c)
  BY <1>3 DEF SetsMore, Adds
<1>5. \A k, c : Adds("host", H, fields, "host", k, c) => q.set["host"][k][c] = x
  BY <1>2, <1>4 DEF Adds
<1>6. CASE w = q /\ SubnetsOf(y) = SubnetsOf(x)
  BY <1>4, <1>5, <1>6, <1>8, Tables DEF Moves, fields
<1>7. ASSUME NEW news \in SUBSET Offers(x), Exchanged(w, q, OldAddresses(H), news)
      PROVE  Moves(w, r, H, y, x)
  <2>1. /\ Draft(w) /\ w.set = q.set
        /\ \A o \in Table \ {"ip"} : w.new[o] = r.new[o] /\ w.drop[o] = r.drop[o]
        /\ w.drop["ip"] = r.drop["ip"] \cup OldAddresses(H)
        /\ DOMAIN w.new["ip"] = news \cup DOMAIN r.new["ip"]
        /\ \A a \in news : \E o \in OldAddresses(H) : w.new["ip"][a].interface = db.ip[o].interface
    BY <1>4, <1>7 DEF Exchanged
  <2>2. \A o, k, c : Sets(w, o, k, c) <=> Sets(q, o, k, c)
    BY <2>1 DEF Sets
  <2>3. \A k, c : Adds("host", H, fields, "host", k, c) => w.set["host"][k][c] = x
    BY <1>5, <2>1
  <2> QED
    BY <1>4, <1>8, <2>1, <2>2, <2>3 DEF Moves, fields
<1> QED
  BY <1>1, <1>6, <1>7

(* Requests that insert and delete nothing                                 *)
Empty(r) == \A o \in Table : DOMAIN r.new[o] = {} /\ r.drop[o] = {}

(* The host h is moved to x, and given to u.                               *)
Edits(w, h, u, x) ==
  \E r : /\ Base(r) /\ Empty(r) /\ Moves(w, r, {h}, db.host[h].room, x)
         /\ \A k, c : Sets(r, "host", k, c) => k = h /\ c = "owner" /\ u # db["host"][h].owner

(* That is what editing does.                                              *)
LEMMA EditedMoves ==
  ASSUME WellTyped(db), References(db), NEW h, NEW u, NEW x \in Room, NEW w \in EditedHost(h, u, x)
  PROVE  Edits(w, h, u, x)
<1> DEFINE r == Update(Nothing, "host", h, [owner |-> u])
           fields == [owner |-> u]
           y == db.host[h].room
<1>1. Draft(Nothing) /\ "host" \in Table /\ IsChange("host", fields)
  BY DraftNothing, Tables, KindsOfChanges
<1>2. DOMAIN fields = {"owner"} /\ fields["owner"] = u
  OBVIOUS
<1>3. w \in IF y = x THEN {r} ELSE Migrated(r, {h}, x)
  <2> HIDE DEF r, y
  <2> QED
    BY DEF EditedHost, r, y
<1> HIDE DEF y
<1>4. SetsMore(r, Nothing, "host", {h}, fields)
  BY <1>1, UpdateSets
<1> HIDE DEF r, fields
<1>5. /\ Draft(r) /\ r.new = Nothing.new /\ r.drop = Nothing.drop
      /\ \A k, c : Sets(r, "host", k, c) <=> Sets(Nothing, "host", k, c) \/ Adds("host", {h}, fields, "host", k, c)
  BY <1>1, <1>4 DEF SetsMore
<1>6. Empty(r)
  BY <1>5, NothingIsSet DEF Empty
<1>7. \A k, c : Sets(r, "host", k, c) => k = h /\ c = "owner" /\ u # db["host"][h].owner
  BY <1>1, <1>2, <1>5, NothingIsSet DEF Adds
<1>10. Base(r)
  <2>1. \A t \in Table \ {"host"} : \A k, c : ~ Sets(r, t, k, c)
    BY <1>1, <1>4, NothingIsSet DEF SetsMore, Adds
  <2> QED
    BY <1>5, <1>6, <1>7, <2>1, Tables DEF Base, Aloof, Empty
<1>8. CASE y = x
  <2>1. w = r
    BY <1>3, <1>8
  <2>2. \A k, c : ~ Adds("host", {h}, [room |-> x], "host", k, c)
    BY <1>8 DEF Adds, y
  <2>3. Moves(w, r, {h}, y, x)
    BY <1>5, <1>8, <2>1, <2>2, Tables DEF Moves
  <2> QED
    BY <1>6, <1>7, <1>10, <2>3 DEF y, Edits
<1>9. CASE y # x
  <2>1. w \in Migrated(r, {h}, x) /\ \A k \in {h} : db.host[k].room = y
    BY <1>3, <1>9 DEF y
  <2>2. Moves(w, r, {h}, y, x)
    BY <1>5, <2>1, MigratedMoves
  <2> QED
    BY <1>6, <1>7, <1>10, <2>2 DEF y, Edits
<1> QED
  BY <1>8, <1>9

(* What the API decides stays below its limits.                            *)
LimitDecides(s) ==
  \E op, seen, r : Draft(r) /\ LimitRequest(Decided(r, op, seen)) /\ Decide(s, op, seen, r)

(* A client is only added below the limit.                                 *)
LEMMA MpskLimits ==
  ASSUME WellTyped(db), NEW s, NEW u \in User, NEW mac, MpskAdd(s, u, mac)
  PROVE  LimitDecides(s)
<1> DEFINE r == WithMpsk(u, mac)
           row == [owner |-> u, mac |-> mac]
           seen == {UserKey(u)}
           q == Decided(r, "mpsk_add", seen)
<1>1. Cardinality(MpsksOf(u)) < MaxMpsks /\ NewIds("mpsk") # {} /\ Decide(s, "mpsk_add", seen, r)
  BY DEF MpskAdd
<1>2. PICK c : c = NewId("mpsk") /\ c \in Ids["mpsk"]
  BY <1>1, NewIdTyped
<1>3. r = Insert(Nothing, "mpsk", c, row) /\ row.owner = u
  BY <1>2 DEF WithMpsk
<1>4. Draft(Nothing) /\ "mpsk" \in Table /\ IsRow("mpsk", row)
  BY DraftNothing, Tables, KindsOfRows
<1> HIDE DEF row, r
<1>5. Draft(r)
  BY <1>2, <1>3, <1>4, DraftInsert
<1>6. Inserts(r, Nothing, "mpsk", One(c, row)) /\ DOMAIN One(c, row) = {c} /\ One(c, row)[c] = row
  BY <1>3, <1>4, InsertInserts
<1>7. /\ DOMAIN Nothing.new["mpsk"] = {} /\ Nothing.drop["mpsk"] = {}
  BY <1>4, NothingIsSet
<1>8. /\ DOMAIN r.new["mpsk"] = {c} /\ r.new["mpsk"][c].owner = u /\ r.drop["mpsk"] = {}
  BY <1>3, <1>6, <1>7 DEF Inserts
<1>9. q.op = "mpsk_add" /\ q.seen = seen /\ q.new = r.new /\ q.drop = r.drop
  BY <1>5, ShapeDecided DEF Draft
<1>10. UserKey(u) \in seen
  OBVIOUS
<1> HIDE DEF q, seen
<1>11. AddsClient(q, u)
  BY <1>1, <1>8, <1>9 DEF AddsClient
<1>12. LimitRequest(q)
  BY <1>9, <1>10, <1>11 DEF LimitRequest
<1> QED
  BY <1>1, <1>5, <1>12 DEF LimitDecides, q

(* What activates may be decided.                                          *)
LEMMA ActivatesDecided ==
  ASSUME NEW s, NEW u \in User, NEW h, NEW r, Draft(r), NEW seen, UserKey(u) \in seen,
         Decide(s, "activate", seen, r), Activates([r EXCEPT !.seen = seen], u, h)
  PROVE  LimitDecides(s)
<1> DEFINE q == Decided(r, "activate", seen)
           p == [r EXCEPT !.seen = seen]
<1>1. /\ q.op = "activate" /\ q.seen = seen /\ q.new = r.new /\ q.drop = r.drop /\ q.set = r.set
  BY ShapeDecided DEF Draft
<1>2. p.seen = seen /\ p.new = r.new /\ p.drop = r.drop /\ p.set = r.set
  BY DEF Draft, Shape
<1>3. Activates(p, u, h)
  OBVIOUS
<1> HIDE DEF p, q
<1>4. \A k, c : Sets(q, "host", k, c) <=> Sets(p, "host", k, c)
  BY <1>1, <1>2 DEF Sets
<1>5. Activates(q, u, h)
  BY <1>1, <1>2, <1>3, <1>4 DEF Activates
<1>6. LimitRequest(q)
  BY <1>1, <1>5 DEF LimitRequest
<1> QED
  BY <1>6 DEF LimitDecides, q

(* One interface and one address on an empty host activate it.             *)
LEMMA OneMoreActivates ==
  ASSUME NEW u, NEW h, NEW i, NEW a, NEW r, NEW w, OneMore(w, r, h, i, a), NEW seen,
         DOMAIN r.new["interface"] = {}, DOMAIN r.new["ip"] = {},
         r.drop["host"] = {}, r.drop["interface"] = {}, r.drop["ip"] = {},
         \A k : ~ Sets(r, "host", k, "owner"),
         \/ HostsOf(u) = {} /\ DOMAIN r.new["host"] = {h} /\ r.new["host"][h].owner = u
         \/ /\ HostsOf(u) = {h} /\ InterfacesOf(h) = {} /\ DOMAIN r.new["host"] = {}
            /\ HostKey(h) \in seen
  PROVE  Draft(w) /\ Activates([w EXCEPT !.seen = seen], u, h)
<1> DEFINE p == [w EXCEPT !.seen = seen]
<1>1. /\ Draft(w) /\ w.set = r.set /\ w.drop = r.drop /\ w.new["host"] = r.new["host"]
      /\ DOMAIN w.new["interface"] = {i} /\ w.new["interface"][i].host = h
      /\ DOMAIN w.new["ip"] = {a} /\ w.new["ip"][a].interface = i
  BY Tables DEF OneMore, Beyond
<1>2. p.seen = seen /\ p.new = w.new /\ p.drop = w.drop /\ p.set = w.set
  BY <1>1 DEF Draft, Shape
<1> HIDE DEF p
<1>3. \A k : ~ Sets(p, "host", k, "owner")
  BY <1>1, <1>2 DEF Sets
<1>4. \E j : DOMAIN p.new["interface"] = {j} /\ p.new["interface"][j].host = h /\
        \E b : DOMAIN p.new["ip"] = {b} /\ p.new["ip"][b].interface = j
  BY <1>1, <1>2
<1>5. Activates(p, u, h)
  BY <1>1, <1>2, <1>3, <1>4 DEF Activates
<1> QED
  BY <1>1, <1>5 DEF p

(* Activating ends with one host, one interface and one address.           *)
LEMMA ActivateLimits ==
  ASSUME WellTyped(db), References(db), NEW s, NEW u \in User \cap DOMAIN db["user"], NEW mac, Activate(s, u, mac)
  PROVE  LimitDecides(s)
<1> DEFINE x == db["user"][u].room
           seen == {UserKey(u), RoomKey(x)} \cup {HostKey(h) : h \in HostsOf(u)}
<1>1. /\ x # None /\ NewIds("interface") # {}
      /\ \A h \in HostsOf(u) : InterfacesOf(h) = {}
      /\ \/ /\ HostsOf(u) = {} /\ NewIds("host") # {}
            /\ \E w \in Addressed(WithHost(Nothing, NewId("host"), u, x), NewId("host"), x, mac) :
                 Decide(s, "activate", seen, w)
         \/ \E h \in HostsOf(u) :
              /\ HostsOf(u) = {h}
              /\ \E r \in EditedHost(h, u, x) : \E w \in Addressed(r, h, x, mac) :
                   Decide(s, "activate", seen \cup {RoomKey(db.host[h].room)}, w)
  BY DEF Activate
<1>2. x \in Room
  BY <1>1, Tables DEF WellTyped, IsRow, IsValue, Columns
<1>3. UserKey(u) \in seen /\ \A h \in HostsOf(u) : HostKey(h) \in seen
  OBVIOUS
<1> HIDE DEF x, seen
<1>4. CASE HostsOf(u) = {} /\ NewIds("host") # {} /\
           \E w \in Addressed(WithHost(Nothing, NewId("host"), u, x), NewId("host"), x, mac) :
             Decide(s, "activate", seen, w)
  <2>1. PICK h : h = NewId("host") /\ h \in Ids["host"]
    BY <1>4, NewIdTyped
  <2>2. PICK r : r = WithHost(Nothing, h, u, x)
    OBVIOUS
  <2>3. PICK w \in Addressed(r, h, x, mac) : Decide(s, "activate", seen, w)
    BY <1>4, <2>1, <2>2
  <2>4. /\ Beyond(r, Nothing, {"host"}) /\ DOMAIN r.new["host"] = {h} \cup DOMAIN Nothing.new["host"]
        /\ r.new["host"][h].owner = u
    BY <1>2, <2>1, <2>2, DraftNothing, WithHostIs
  <2>5. PICK i, a : OneMore(w, r, h, i, a)
    BY <1>1, <2>3, <2>4, AddressedIs DEF Beyond
  <2>6. /\ DOMAIN r.new["host"] = {h} /\ DOMAIN r.new["interface"] = {} /\ DOMAIN r.new["ip"] = {}
        /\ r.drop["host"] = {} /\ r.drop["interface"] = {} /\ r.drop["ip"] = {}
        /\ \A k : ~ Sets(r, "host", k, "owner")
    <3>1. \A t \in Table : /\ DOMAIN Nothing.new[t] = {} /\ Nothing.drop[t] = {}
                           /\ \A i2, c : ~ Sets(Nothing, t, i2, c)
      BY NothingIsSet
    <3>2. /\ DOMAIN r.new["host"] = {h} /\ DOMAIN r.new["interface"] = {} /\ DOMAIN r.new["ip"] = {}
          /\ r.drop["host"] = {} /\ r.drop["interface"] = {} /\ r.drop["ip"] = {} /\ r.set = Nothing.set
      BY <2>4, <3>1, Tables DEF Beyond
    <3> QED
      BY <3>1, <3>2, Tables DEF Sets
  <2>7. Draft(w) /\ Activates([w EXCEPT !.seen = seen], u, h)
    BY <1>4, <2>4, <2>5, <2>6, OneMoreActivates
  <2> QED
    BY <1>3, <2>3, <2>7, ActivatesDecided
<1>5. ASSUME NEW h \in HostsOf(u), HostsOf(u) = {h}, NEW r \in EditedHost(h, u, x), NEW w \in Addressed(r, h, x, mac),
             Decide(s, "activate", seen \cup {RoomKey(db.host[h].room)}, w)
      PROVE  LimitDecides(s)
  <2> DEFINE more == seen \cup {RoomKey(db.host[h].room)}
  <2>1. PICK e : /\ Base(e) /\ Empty(e) /\ Moves(r, e, {h}, db.host[h].room, x)
                 /\ \A k, c : Sets(e, "host", k, c) => k = h /\ c = "owner" /\ u # db["host"][h].owner
    <3>1. Edits(r, h, u, x)
      BY <1>2, EditedMoves
    <3> QED
      BY <3>1 DEF Edits
  <2>2. InterfacesOf(h) = {} /\ OldAddresses({h}) = {}
    BY <1>1 DEF OldAddresses
  <2>3. db["host"][h].owner = u
    BY DEF HostsOf
  <2>4. PICK i, a : OneMore(w, r, h, i, a)
    BY <1>1, <2>1, AddressedIs DEF Moves
  <2>5. /\ DOMAIN r.new["host"] = {} /\ DOMAIN r.new["interface"] = {}
        /\ r.drop["host"] = {} /\ r.drop["interface"] = {}
    BY <2>1, Tables DEF Moves, Empty
  <2>6. DOMAIN r.new["ip"] = {} /\ r.drop["ip"] = {}
    BY <2>1, <2>2, Tables DEF Moves, Empty
  <2>7. \A k : ~ Sets(r, "host", k, "owner")
    BY <2>1, <2>3 DEF Moves, Adds
  <2>8. HostKey(h) \in more /\ UserKey(u) \in more
    BY <1>3
  <2> HIDE DEF more
  <2>9. Draft(w) /\ Activates([w EXCEPT !.seen = more], u, h)
    BY <1>5, <2>2, <2>4, <2>5, <2>6, <2>7, <2>8, OneMoreActivates
  <2>10. Decide(s, "activate", more, w)
    BY <1>5 DEF more
  <2> QED
    BY <2>8, <2>9, <2>10, ActivatesDecided
<1> QED
  BY <1>1, <1>4, <1>5

(* A request is within its limits when it begins,                          *)
LEMMA BeginKeepsLimits ==
  ASSUME IInv, NEW s \in Session, Begin(s), request'[s].op \in LimitOps
  PROVE  LimitRequest(request[s])'
<1>1. WellTyped(db) /\ References(db) /\ DOMAIN request = Session
  BY DEF IInv, TypeOK
<1>2. LimitDecides(s) \/ \E ops : Does(s, ops) /\ ops \cap LimitOps = {}
  <2>1. \A u \in Users : u \in User /\ u \in User \cap DOMAIN db["user"]
    BY DEF Users
  <2>2. CASE Hosting(s)
    BY <1>1, <2>1, <2>2, HostingDoes, ActivateLimits DEF LimitOps
  <2>3. CASE Mpsk(s)
    BY <1>1, <2>1, <2>3, MpskDoes, MpskLimits DEF LimitOps
  <2>4. CASE Interfacing(s) \/ Patching(s) \/ Switching(s)
    BY <2>4, InterfacingDoes, PanelsDo DEF LimitOps, PanelNames, PanelOps
  <2> QED
    BY <2>2, <2>3, <2>4 DEF Begin
<1>3. Decides(s)
  BY <1>1, HostingDecides, InterfacingDecides, MpskDecides, PatchingDecides, SwitchingDecides DEF Begin
<1>4. LimitDecides(s)
  BY <1>1, <1>2, <1>3, DoesIs
<1>5. PICK op, seen, r : Draft(r) /\ LimitRequest(Decided(r, op, seen)) /\ Decide(s, op, seen, r)
  BY <1>4 DEF LimitDecides
<1>6. PICK w : w = request'[s]
  OBVIOUS
<1>7. w = Decided(r, op, seen) /\ db' = db
  BY <1>1, <1>5, <1>6 DEF Decide, Pending, Decided
<1>8. \A k \in w.seen \cap Keys : Image(k)' = Image(k)
  BY <1>7, ImageSame
<1>9. LimitRequest(w)'
  BY <1>1, <1>5, <1>7, <1>8, LimitStays
<1> QED
  BY <1>6, <1>9

(* and as long as it is pending and fresh.                                 *)
LEMMA LimitsKeep ==
  ASSUME IInv, LimitInv, [Next]_rows
  PROVE  LimitInv'
<1>1. SUFFICES ASSUME NEW s \in Session, request'[s] # None, request'[s].fresh, request'[s].op \in LimitOps
               PROVE  LimitRequest(request[s])'
  BY DEF LimitInv, LimitOps
<1>2. CASE Begin(s)
  BY <1>1, <1>2, BeginKeepsLimits
<1>3. CASE ~ Begin(s)
  <2>1. SameRequest(s)
    BY <1>1, <1>3, OldRequest
  <2>2. LimitRequest(request[s])
    BY <1>1, <2>1 DEF SameRequest, LimitInv
  <2>3. PICK r, w : r = request[s] /\ w = request'[s]
    OBVIOUS
  <2>4. Alike(w, r) /\ \A k \in r.seen \cap Keys : Image(k)' = Image(k)
    BY <2>1, <2>3 DEF SameRequest, Alike
  <2>5. LimitRequest(w)
    BY <2>2, <2>3, <2>4, LimitSame
  <2>6. \A k \in w.seen \cap Keys : Image(k)' = Image(k)
    BY <2>4 DEF Alike
  <2>7. LimitRequest(w)'
    BY <2>5, <2>6, LimitStays DEF IInv, TypeOK
  <2> QED
    BY <2>3, <2>7
<1> QED
  BY <1>2, <1>3

(* A client more, and still not more than there may be.                    *)
LEMMA CommitKeepsClients ==
  ASSUME IInv, NEW s \in Session, Commit(s), NEW u, AddsClient(request[s], u), NEW v
  PROVE  Cardinality(MpsksOf(v)') <= MaxMpsks \/ MpsksOf(v)' = MpsksOf(v)
<1> DEFINE r == request[s]
<1>1. Draft(r) /\ Writes(r)
  BY CommitWrites
<1>2. AddsClient(r, u)
  OBVIOUS
<1>3. IsFiniteSet(MpsksOf(v)) /\ IsFiniteSet(MpsksOf(u))
  <2>1. MpsksOf(v) \subseteq Ids["mpsk"] /\ MpsksOf(u) \subseteq Ids["mpsk"] /\ IsFiniteSet(Ids["mpsk"])
    BY NetworkAssumption, Tables DEF IInv, TypeOK, WellTyped, MpsksOf
  <2> QED
    BY <2>1, FS_Subset
<1> HIDE DEF r
<1>4. PICK c : DOMAIN r.new["mpsk"] = {c} /\ r.new["mpsk"][c].owner = u
  BY <1>2 DEF AddsClient
<1>5. Gone(r)["mpsk"] = {}
  BY <1>2, Tables DEF Gone, AddsClient
<1>6. /\ DOMAIN db'["mpsk"] = DOMAIN db["mpsk"] \cup {c} /\ c \notin DOMAIN db["mpsk"]
      /\ \A id \in DOMAIN db'["mpsk"] : db'["mpsk"][id].owner = Value(r, "mpsk", id, "owner")
  <2>1. "owner" \in Columns["mpsk"] /\ "mpsk" \in Table
    BY Tables DEF Columns
  <2>2. \A id \in DOMAIN db'["mpsk"] : \A e \in Columns["mpsk"] :
          db'["mpsk"][id][e] = Value(r, "mpsk", id, e) \/ IsCut(r, "mpsk", id, e)
    BY <1>1, <2>1 DEF Writes
  <2>3. /\ DOMAIN db'["mpsk"] = (DOMAIN db["mpsk"] \ Gone(r)["mpsk"]) \cup DOMAIN r.new["mpsk"]
        /\ DOMAIN r.new["mpsk"] \cap DOMAIN db["mpsk"] = {}
    BY <1>1, <2>1 DEF Writes
  <2> QED
    BY <1>4, <1>5, <2>1, <2>2, <2>3 DEF IsCut
<1>7. \A id : ~ Sets(r, "mpsk", id, "owner")
  <2>1. \A id \in DOMAIN r.set["mpsk"] : DOMAIN r.set["mpsk"][id] \subseteq {"mac"}
    BY <1>1, Tables DEF Draft, IsChange, Changing
  <2> QED
    BY <2>1 DEF Sets
<1>8. \A id \in DOMAIN db["mpsk"] : db'["mpsk"][id].owner = db["mpsk"][id].owner
  BY <1>4, <1>6, <1>7 DEF Value
<1>9. db'["mpsk"][c].owner = u
  BY <1>4, <1>6 DEF Value
<1>10. MpsksOf(v)' = IF v = u THEN MpsksOf(u) \cup {c} ELSE MpsksOf(v)
  BY <1>6, <1>8, <1>9 DEF MpsksOf
<1>11. CASE v = u
  <2>1. Cardinality(MpsksOf(u) \cup {c}) <= Cardinality(MpsksOf(u)) + 1
    <3>1. PICK S : S = MpsksOf(u)
      OBVIOUS
    <3>2. IsFiniteSet(S)
      BY <1>3, <3>1
    <3>3. Cardinality(S \cup {c}) = IF c \in S THEN Cardinality(S) ELSE Cardinality(S) + 1
      BY <3>2, FS_AddElement
    <3>4. Cardinality(S) \in Nat
      BY <3>2, FS_CardinalityType
    <3>5. Cardinality(S \cup {c}) <= Cardinality(S) + 1
      BY <3>3, <3>4
    <3> QED
      BY <3>1, <3>5
  <2>2. Cardinality(MpsksOf(u)) < MaxMpsks /\ Cardinality(MpsksOf(u)) \in Nat /\ MaxMpsks \in Nat
    BY <1>2, <1>3, NetworkAssumption, FS_CardinalityType DEF AddsClient
  <2>3. IsFiniteSet(MpsksOf(u) \cup {c})
    BY <1>3, FS_AddElement
  <2>4. Cardinality(MpsksOf(u) \cup {c}) \in Nat
    BY <2>3, FS_CardinalityType
  <2>5. Cardinality(MpsksOf(u) \cup {c}) <= MaxMpsks
    BY <2>1, <2>2, <2>4
  <2> QED
    BY <1>10, <1>11, <2>5
<1> QED
  BY <1>10, <1>11

(* What a row is after a commit, of the tables where nothing is cut.       *)
LEMMA WritesRow ==
  ASSUME NEW r, Writes(r), NEW t \in Table, t # "patch_port", NEW c \in Columns[t], NEW id \in DOMAIN db'[t]
  PROVE  /\ id \in DOMAIN r.new[t] => id \notin DOMAIN db[t] /\ db'[t][id][c] = r.new[t][id][c]
         /\ id \notin DOMAIN r.new[t] =>
              /\ id \in DOMAIN db[t]
              /\ db'[t][id][c] = IF Sets(r, t, id, c) THEN r.set[t][id][c] ELSE db[t][id][c]
<1>1. db'[t][id][c] = Value(r, t, id, c)
  BY DEF Writes, IsCut
<1>2. /\ DOMAIN db'[t] = (DOMAIN db[t] \ Gone(r)[t]) \cup DOMAIN r.new[t]
      /\ DOMAIN r.new[t] \cap DOMAIN db[t] = {}
  BY DEF Writes
<1> QED
  BY <1>1, <1>2 DEF Value

(* No request changes where an interface, an address or a port belongs.    *)
LEMMA NeverSet ==
  ASSUME NEW r, Draft(r), NEW id
  PROVE  /\ ~ Sets(r, "interface", id, "host") /\ ~ Sets(r, "ip", id, "interface")
         /\ ~ Sets(r, "switch_port", id, "switch")
<1>1. \A t \in Table : \A k \in DOMAIN r.set[t] : DOMAIN r.set[t][k] \subseteq Changing[t]
  BY DEF Draft, IsChange
<1>2. /\ "host" \notin Changing["interface"] /\ "interface" \notin Changing["ip"]
      /\ "switch" \notin Changing["switch_port"]
  BY DEF Changing
<1> QED
  BY <1>1, <1>2, Tables DEF Sets

(* Interfaces and addresses, when nothing is deleted                       *)
LEMMA CommitAddsDevices ==
  ASSUME WellTyped(db), NEW r, Draft(r), Writes(r), r.drop["host"] = {}, r.drop["interface"] = {}, r.drop["ip"] = {}
  PROVE  /\ DOMAIN db'["host"] = DOMAIN db["host"] \cup DOMAIN r.new["host"]
         /\ \A k : InterfacesOf(k)' =
              InterfacesOf(k) \cup {i \in DOMAIN r.new["interface"] : r.new["interface"][i].host = k}
         /\ \A i : AddressesOf(i)' =
              AddressesOf(i) \cup {a \in DOMAIN r.new["ip"] : r.new["ip"][a].interface = i}
<1>1. Gone(r)["host"] = {} /\ Gone(r)["interface"] = {} /\ Gone(r)["ip"] = {}
  BY Tables DEF Gone
<1>2. \A t \in {"host", "interface", "ip"} :
        /\ DOMAIN db'[t] = DOMAIN db[t] \cup DOMAIN r.new[t]
        /\ DOMAIN r.new[t] \cap DOMAIN db[t] = {}
  BY <1>1, Tables DEF Writes
<1>3. ASSUME NEW i \in DOMAIN db'["interface"]
      PROVE  /\ i \in DOMAIN r.new["interface"] => db'["interface"][i].host = r.new["interface"][i].host
             /\ i \notin DOMAIN r.new["interface"] => db'["interface"][i].host = db["interface"][i].host
  <2>1. "host" \in Columns["interface"] /\ "interface" \in Table /\ ~ Sets(r, "interface", i, "host")
    BY Tables, NeverSet DEF Columns
  <2> QED
    BY <2>1, WritesRow
<1>4. ASSUME NEW a \in DOMAIN db'["ip"]
      PROVE  /\ a \in DOMAIN r.new["ip"] => db'["ip"][a].interface = r.new["ip"][a].interface
             /\ a \notin DOMAIN r.new["ip"] => db'["ip"][a].interface = db["ip"][a].interface
  <2>1. "interface" \in Columns["ip"] /\ "ip" \in Table /\ ~ Sets(r, "ip", a, "interface")
    BY Tables, NeverSet DEF Columns
  <2> QED
    BY <2>1, WritesRow
<1>5. ASSUME NEW k
      PROVE  InterfacesOf(k)' =
               InterfacesOf(k) \cup {i \in DOMAIN r.new["interface"] : r.new["interface"][i].host = k}
  BY <1>2, <1>3 DEF InterfacesOf
<1>6. ASSUME NEW i
      PROVE  AddressesOf(i)' = AddressesOf(i) \cup {a \in DOMAIN r.new["ip"] : r.new["ip"][a].interface = i}
  BY <1>2, <1>4 DEF AddressesOf
<1> QED
  BY <1>2, <1>5, <1>6

(* The host with one interface and one address is then the only one.       *)
LEMMA CommitActivates ==
  ASSUME IInv, NEW s \in Session, Commit(s), NEW u, NEW h, Activates(request[s], u, h), NEW v
  PROVE  \/ DevicesOf(v)' = DevicesOf(v)
         \/ /\ Cardinality(HostsOf(v)') = 1 /\ Cardinality(DevicesOf(v)') = 1
            /\ Cardinality(OldAddresses(HostsOf(v))') = 1
<1> DEFINE r == request[s]
<1>1. Draft(r) /\ Writes(r) /\ WellTyped(db) /\ References(db)
  BY CommitWrites DEF IInv, TypeOK
<1>2. Activates(r, u, h)
  OBVIOUS
<1> HIDE DEF r
<1>3. PICK i, a : /\ DOMAIN r.new["interface"] = {i} /\ r.new["interface"][i].host = h
                  /\ DOMAIN r.new["ip"] = {a} /\ r.new["ip"][a].interface = i
  BY <1>2 DEF Activates
<1>4. /\ DOMAIN db'["host"] = DOMAIN db["host"] \cup DOMAIN r.new["host"]
      /\ \A k : InterfacesOf(k)' = IF k = h THEN InterfacesOf(h) \cup {i} ELSE InterfacesOf(k)
      /\ \A j : AddressesOf(j)' = IF j = i THEN AddressesOf(i) \cup {a} ELSE AddressesOf(j)
  <2>1. r.drop["host"] = {} /\ r.drop["interface"] = {} /\ r.drop["ip"] = {}
    BY <1>2 DEF Activates
  <2>2. /\ DOMAIN db'["host"] = DOMAIN db["host"] \cup DOMAIN r.new["host"]
        /\ \A k : InterfacesOf(k)' =
             InterfacesOf(k) \cup {j \in DOMAIN r.new["interface"] : r.new["interface"][j].host = k}
        /\ \A j : AddressesOf(j)' =
             AddressesOf(j) \cup {b \in DOMAIN r.new["ip"] : r.new["ip"][b].interface = j}
    BY <1>1, <2>1, CommitAddsDevices
  <2>3. \A k : {j \in DOMAIN r.new["interface"] : r.new["interface"][j].host = k} = IF k = h THEN {i} ELSE {}
    BY <1>3
  <2>4. \A j : {b \in DOMAIN r.new["ip"] : r.new["ip"][b].interface = j} = IF j = i THEN {a} ELSE {}
    BY <1>3
  <2>5. ASSUME NEW k
        PROVE  InterfacesOf(k)' = IF k = h THEN InterfacesOf(h) \cup {i} ELSE InterfacesOf(k)
    BY <2>2, <2>3
  <2>6. ASSUME NEW j
        PROVE  AddressesOf(j)' = IF j = i THEN AddressesOf(i) \cup {a} ELSE AddressesOf(j)
    BY <2>2, <2>4
  <2> QED
    BY <2>2, <2>5, <2>6
<1>5. \A k \in DOMAIN db'["host"] :
        /\ k \in DOMAIN r.new["host"] => k \notin DOMAIN db["host"] /\ db'["host"][k].owner = r.new["host"][k].owner
        /\ k \notin DOMAIN r.new["host"] => k \in DOMAIN db["host"] /\ db'["host"][k].owner = db["host"][k].owner
  <2>1. "owner" \in Columns["host"] /\ "host" \in Table /\ \A k : ~ Sets(r, "host", k, "owner")
    BY <1>2, Tables DEF Columns, Activates
  <2> QED
    BY <1>1, <2>1, WritesRow
<1>6. InterfacesOf(h) = {} /\ HostsOf(u)' = {h} /\ \A o : o # u => HostsOf(o)' = HostsOf(o) /\ h \notin HostsOf(o)
  <2>1. CASE HostsOf(u) = {} /\ DOMAIN r.new["host"] = {h} /\ r.new["host"][h].owner = u
    <3>1. h \in DOMAIN db'["host"] /\ h \notin DOMAIN db["host"]
      BY <1>4, <1>5, <2>1
    <3>2. InterfacesOf(h) = {}
      BY <1>1, <3>1 DEF References, InterfacesOf
    <3>3. \A o : HostsOf(o)' = IF o = u THEN HostsOf(u) \cup {h} ELSE HostsOf(o)
      BY <1>4, <1>5, <2>1, <3>1 DEF HostsOf
    <3> QED
      BY <2>1, <3>1, <3>2, <3>3 DEF HostsOf
  <2>2. CASE HostsOf(u) = {h} /\ InterfacesOf(h) = {} /\ DOMAIN r.new["host"] = {}
    <3>1. \A o : HostsOf(o)' = HostsOf(o)
      BY <1>4, <1>5, <2>2 DEF HostsOf
    <3>2. db["host"][h].owner = u
      BY <2>2 DEF HostsOf
    <3> QED
      BY <2>2, <3>1, <3>2, ZenonT(30) DEF HostsOf
  <2> QED
    BY <1>2, <2>1, <2>2 DEF Activates
<1>7. CASE v # u
  BY <1>4, <1>6, <1>7 DEF DevicesOf
<1>8. CASE v = u
  <2>1. AddressesOf(i) = {}
    <3>1. DOMAIN r.new["interface"] \cap DOMAIN db["interface"] = {}
      BY <1>1, Tables DEF Writes
    <3>2. i \notin DOMAIN db["interface"]
      BY <1>3, <3>1
    <3> QED
      BY <1>1, <3>2 DEF References, AddressesOf
  <2>2. HostsOf(u)' = {h} /\ InterfacesOf(h)' = {i} /\ AddressesOf(i)' = {a}
    BY <1>4, <1>6, <2>1
  <2>3. DevicesOf(u)' = {i}
    BY <2>2 DEF DevicesOf
  <2>4. OldAddresses(HostsOf(u))' = {a}
    BY <2>2 DEF OldAddresses
  <2>5. \A x : Cardinality({x}) = 1
    BY FS_Singleton
  <2> QED
    BY <1>8, <2>2, <2>3, <2>4, <2>5
<1> QED
  BY <1>7, <1>8

(* The limits hold in every step.                                          *)
LEMMA NextKeepsLimits ==
  ASSUME IInv, LimitInv, [Next]_rows
  PROVE  [\A s \in Session :
            /\ Fresh({"mpsk_add"}, s) => \A u \in User :
                 Cardinality(MpsksOf(u)') <= MaxMpsks \/ MpsksOf(u)' = MpsksOf(u)
            /\ Fresh({"activate"}, s) => \A u \in User :
                 \/ DevicesOf(u)' = DevicesOf(u)
                 \/ /\ Cardinality(HostsOf(u)') = 1 /\ Cardinality(DevicesOf(u)') = 1
                    /\ Cardinality(OldAddresses(HostsOf(u))') = 1]_rows
<1>1. ASSUME NEW s \in Session, NEW op \in LimitOps, Fresh({op}, s)
      PROVE  Commit(s) /\ request[s].op = op /\ LimitRequest(request[s])
  <2>1. Commit(s) /\ request[s].fresh /\ request[s].op \in {op}
    BY <1>1, FreshCommits
  <2> QED
    BY <1>1, <2>1 DEF LimitInv, Commit, LimitOps
<1>2. ASSUME NEW s \in Session, Fresh({"mpsk_add"}, s), NEW u \in User
      PROVE  Cardinality(MpsksOf(u)') <= MaxMpsks \/ MpsksOf(u)' = MpsksOf(u)
  <2>1. Commit(s) /\ request[s].op = "mpsk_add" /\ LimitRequest(request[s])
    BY <1>1, <1>2 DEF LimitOps
  <2>2. PICK v \in User : AddsClient(request[s], v)
    BY <2>1 DEF LimitRequest
  <2> QED
    BY <2>1, <2>2, CommitKeepsClients
<1>3. ASSUME NEW s \in Session, Fresh({"activate"}, s), NEW u \in User
      PROVE  \/ DevicesOf(u)' = DevicesOf(u)
             \/ /\ Cardinality(HostsOf(u)') = 1 /\ Cardinality(DevicesOf(u)') = 1
                /\ Cardinality(OldAddresses(HostsOf(u))') = 1
  <2>1. Commit(s) /\ request[s].op = "activate" /\ LimitRequest(request[s])
    BY <1>1, <1>3 DEF LimitOps
  <2>2. PICK v \in User : \E h : Activates(request[s], v, h)
    BY <2>1 DEF LimitRequest
  <2>3. PICK h : Activates(request[s], v, h)
    BY <2>2
  <2> QED
    BY <2>1, <2>3, CommitActivates
<1> QED
  BY <1>2, <1>3

(* The API adds a client only below the limit and activates network access *)
(* only where it ends with one host, one interface and one address, unless *)
(* something of the user changed since it looked.                          *)
THEOREM LimitsAlwaysHold == Spec => WithinLimits
<1>1. Init => IInv /\ LimitInv
  BY InitEstablishes DEF Init, LimitInv
<1>2. IInv /\ LimitInv /\ [Next]_rows => IInv' /\ LimitInv'
  BY NextKeeps, LimitsKeep
<1>3. IInv /\ LimitInv /\ [Next]_rows =>
        [\A s \in Session :
           /\ Fresh({"mpsk_add"}, s) => \A u \in User :
                Cardinality(MpsksOf(u)') <= MaxMpsks \/ MpsksOf(u)' = MpsksOf(u)
           /\ Fresh({"activate"}, s) => \A u \in User :
                \/ DevicesOf(u)' = DevicesOf(u)
                \/ /\ Cardinality(HostsOf(u)') = 1 /\ Cardinality(DevicesOf(u)') = 1
                   /\ Cardinality(OldAddresses(HostsOf(u))') = 1]_rows
  BY NextKeepsLimits
<1> QED
  BY <1>1, <1>2, <1>3, PTL DEF Spec, WithinLimits

----------------------------------------------------------------------------
(* Hosts and the addresses of their rooms *)

(* Nothing yet                                                             *)
LEMMA BaseNothing ==
  ASSUME WellTyped(db)
  PROVE  Base(Nothing)
BY DraftNothing, NothingIsSet, Tables DEF Base, Aloof

(* Users are moved and hosts transferred, but not moved.                   *)
LEMMA BaseUpdate ==
  ASSUME NEW r, Base(r), NEW t \in {"user", "host"}, NEW id, NEW fields, IsChange(t, fields),
         t = "host" => "room" \notin DOMAIN fields
  PROVE  Base(Update(r, t, id, fields))
<1>1. PICK q : q = Update(r, t, id, fields)
  OBVIOUS
<1>2. SetsMore(q, r, t, {id}, fields)
  BY <1>1, UpdateSets, Tables DEF Base
<1>3. /\ Draft(q) /\ q.new = r.new /\ q.drop = r.drop
      /\ \A o \in Table : \A i, c :
           Sets(q, o, i, c) <=> Sets(r, o, i, c) \/ Adds(t, {id}, fields, o, i, c)
  BY <1>2 DEF SetsMore
<1>4. \A i, c : /\ ~ Adds(t, {id}, fields, "switch_port", i, c)
                /\ ~ Adds(t, {id}, fields, "patch_port", i, c)
                /\ ~ Adds(t, {id}, fields, "host", i, "room")
  BY DEF Adds
<1>5. Base(q)
  BY <1>3, <1>4, Tables DEF Base, Aloof
<1> QED
  BY <1>1, <1>5

(* What moving in does to the user                                         *)
LEMMA BaseHoused ==
  ASSUME WellTyped(db), NEW u \in User, NEW x \in Room, NEW begin_membership
  PROVE  Base(Housed(u, x, begin_membership))
<1> DEFINE r == Update(Nothing, "user", u, [room |-> x])
           p == Parted(r, u, Config.former)
           more == [m \in {u} \X (Config.begun \ GroupsOf(u)) |-> [ends |-> FALSE]]
           j == InsertAll(p, "membership", more)
<1>1. Base(r)
  <2>1. IsChange("user", [room |-> x])
    BY KindsOfChanges
  <2> QED
    BY <2>1, BaseNothing, BaseUpdate
<1>2. Housed(u, x, begin_membership) \in {r, j}
  BY DEF Housed, Joined
<1>3. Draft(Housed(u, x, begin_membership))
  BY DraftHoused
<1> HIDE DEF r, more
<1>4. /\ Draft(p) /\ p.new = r.new /\ p.set = r.set
      /\ \A o \in Table \ {"membership"} : p.drop[o] = r.drop[o]
  <2>1. p = Delete(r, "membership", {u} \X (Config.former \cap GroupsOf(u)))
    BY DEF Parted
  <2> HIDE DEF p
  <2> QED
    BY <1>1, <2>1, DeleteIs, Tables DEF Base
<1> HIDE DEF p
<1>5. Inserts(j, p, "membership", more)
  BY <1>4, InsertAllInserts, Tables
<1> HIDE DEF j
<1>6. ASSUME Draft(j)
      PROVE  Base(j)
  <2>1. /\ j.set = r.set
        /\ \A o \in Table \ {"membership"} : j.new[o] = r.new[o] /\ j.drop[o] = r.drop[o]
    BY <1>4, <1>5 DEF Inserts
  <2>2. \A o, k, c : Sets(j, o, k, c) <=> Sets(r, o, k, c)
    BY <2>1 DEF Sets
  <2> QED
    BY <1>1, <1>6, <2>1, <2>2, Tables DEF Base, Aloof
<1> QED
  BY <1>1, <1>2, <1>3, <1>6

(* The request leaves hosts in the room x, those of H were in y before; it *)
(* gives them addresses of x and, if the rooms differ in their subnets,    *)
(* takes those that they had.                                              *)
Serves(r, i, H) ==
  \/ i \in DOMAIN r.new["interface"] /\ r.new["interface"][i].host \in H \cup DOMAIN r.new["host"]
  \/ \E h \in H : i \in InterfacesOf(h)

FitsIn(r, H, y, x) ==
  /\ \A h \in H : h \in DOMAIN db.host /\ db.host[h].room = y
  /\ \A k : Sets(r, "host", k, "room") => k \in H /\ r.set["host"][k]["room"] = x
  /\ \A h \in H : y = x \/ Sets(r, "host", h, "room")
  /\ SubnetsOf(y) = SubnetsOf(x) \/ OldAddresses(H) \subseteq r.drop["ip"]
  /\ \A k \in DOMAIN r.new["host"] : r.new["host"][k].room = x
  /\ \A a \in DOMAIN r.new["ip"] : a \in Offers(x) /\ Serves(r, r.new["ip"][a].interface, H)

(* Hosts that are moved fit,                                               *)
LEMMA MovesFit ==
  ASSUME NEW r, Base(r), NEW w, NEW H, NEW y, NEW x, Moves(w, r, H, y, x),
         \A h \in H : h \in DOMAIN db.host /\ db.host[h].room = y
  PROVE  /\ Draft(w) /\ Aloof(w) /\ FitsIn(w, H, y, x)
         /\ DOMAIN w.new["interface"] = {} /\ DOMAIN w.new["host"] = {}
<1>1. /\ Draft(w)
      /\ \A o \in Table \ {"ip"} : w.new[o] = r.new[o] /\ w.drop[o] = r.drop[o]
      /\ \A k, c : Sets(w, "host", k, c) <=> Sets(r, "host", k, c) \/ Adds("host", H, [room |-> x], "host", k, c)
      /\ \A k, c : Adds("host", H, [room |-> x], "host", k, c) => w.set["host"][k][c] = x
      /\ \A o \in Table \ {"host"} : \A k, c : Sets(w, o, k, c) <=> Sets(r, o, k, c)
  BY DEF Moves
<1>2. Aloof(w)
  BY <1>1, Tables DEF Base, Aloof
<1>3. DOMAIN w.new["interface"] = {} /\ DOMAIN w.new["host"] = {}
  BY <1>1, Tables DEF Base
<1>4. \A k : Sets(w, "host", k, "room") <=> k \in H /\ x # db["host"][k].room
  <2>1. \A k : Adds("host", H, [room |-> x], "host", k, "room") <=> k \in H /\ x # db["host"][k].room
    BY DEF Adds
  <2> QED
    BY <1>1, <2>1 DEF Base
<1>5. \A k : Sets(w, "host", k, "room") => w.set["host"][k]["room"] = x
  <2>1. \A k : Sets(w, "host", k, "room") => Adds("host", H, [room |-> x], "host", k, "room")
    BY <1>1 DEF Base
  <2> QED
    BY <1>1, <2>1
<1>6. SubnetsOf(y) = SubnetsOf(x) \/ OldAddresses(H) \subseteq w.drop["ip"]
  BY DEF Moves
<1>7. ASSUME NEW a \in DOMAIN w.new["ip"]
      PROVE  a \in Offers(x) /\ Serves(w, w.new["ip"][a].interface, H)
  <2>1. DOMAIN r.new["ip"] = {}
    BY DEF Base
  <2>2. PICK news \in SUBSET Offers(x) :
          /\ DOMAIN w.new["ip"] = news \cup DOMAIN r.new["ip"]
          /\ \A b \in news : \E o \in OldAddresses(H) : w.new["ip"][b].interface = db.ip[o].interface
    BY <1>7, <2>1 DEF Moves
  <2>3. PICK o \in OldAddresses(H) : w.new["ip"][a].interface = db.ip[o].interface
    BY <2>1, <2>2
  <2>4. \E h \in H : db.ip[o].interface \in InterfacesOf(h)
    BY DEF OldAddresses, AddressesOf
  <2> QED
    BY <2>1, <2>2, <2>3, <2>4 DEF Serves
<1> QED
  BY <1>1, <1>2, <1>3, <1>4, <1>5, <1>6, <1>7 DEF FitsIn

(* also with one interface and one address more.                           *)
LEMMA OneMoreFits ==
  ASSUME NEW r, Aloof(r), NEW H, NEW y, NEW x, FitsIn(r, H, y, x), DOMAIN r.new["interface"] = {},
         NEW w, NEW h \in H \cup DOMAIN r.new["host"], NEW i, NEW a \in Offers(x), OneMore(w, r, h, i, a)
  PROVE  Aloof(w) /\ FitsIn(w, H, y, x)
<1>1. /\ w.set = r.set /\ w.drop = r.drop /\ \A o \in Table \ {"interface", "ip"} : w.new[o] = r.new[o]
      /\ DOMAIN w.new["interface"] = {i} /\ w.new["interface"][i].host = h
      /\ DOMAIN w.new["ip"] = {a} \cup DOMAIN r.new["ip"] /\ w.new["ip"][a].interface = i
      /\ \A b \in DOMAIN r.new["ip"] \ {a} : w.new["ip"][b] = r.new["ip"][b]
  BY DEF OneMore, Beyond
<1>2. \A o, k, c : Sets(w, o, k, c) <=> Sets(r, o, k, c)
  BY <1>1 DEF Sets
<1>3. Aloof(w)
  BY <1>1, <1>2, Tables DEF Aloof
<1>4. w.new["host"] = r.new["host"]
  BY <1>1, Tables
<1>5. \A b \in DOMAIN w.new["ip"] : b \in Offers(x) /\ Serves(w, w.new["ip"][b].interface, H)
  BY <1>1, <1>4 DEF FitsIn, Serves
<1> QED
  BY <1>1, <1>2, <1>3, <1>4, <1>5 DEF FitsIn

(* A request of an operation on hosts                                      *)
Plain(r) == DOMAIN r.new["ip"] = {} /\ \A k : ~ Sets(r, "host", k, "room")

HostRequest(r) ==
  /\ Aloof(r)
  /\ \/ Plain(r)
     \/ \E x, y \in Room : \E H :
          /\ \A h \in H : HostKey(h) \in r.seen
          /\ {RoomKey(x), RoomKey(y)} \subseteq r.seen
          /\ FitsIn(r, H, y, x)

HostInv ==
  \A s \in Session :
    request[s] # None /\ request[s].fresh /\ request[s].op \in HostOps => HostRequest(request[s])

(* As long as the room looks the same, so do its subnets;                  *)
LEMMA RoomImage ==
  ASSUME NEW x \in Room, Image(RoomKey(x))' = Image(RoomKey(x))
  PROVE  SubnetsOf(x)' = SubnetsOf(x)
<1> DEFINE C == Connected(x)
           offered(q) == db.switch_port[db.patch_port[q].switch_port].subnets
           pairs == {<<q, offered(q)>> : q \in C}
<1>1. Image(RoomKey(x)) = pairs /\ Image(RoomKey(x))' = pairs'
  BY DEF Image, RoomKey
<1>2. pairs' = pairs
  BY <1>1
<1> HIDE DEF C
<1>3. \A q, v : <<q, v>> \in pairs <=> q \in C /\ v = offered(q)
  OBVIOUS
<1>4. \A q, v : <<q, v>> \in pairs' <=> q \in C' /\ v = offered(q)'
  OBVIOUS
<1>5. SubnetsOf(x) = UNION {ToSet(offered(q)) : q \in C}
  BY DEF SubnetsOf, C
<1>6. SubnetsOf(x)' = UNION {ToSet(offered(q)') : q \in C'}
  BY DEF SubnetsOf, C
<1> HIDE DEF pairs, offered
<1>7. C' = C /\ \A q \in C : offered(q)' = offered(q)
  BY <1>2, <1>3, <1>4
<1> QED
  BY <1>5, <1>6, <1>7

(* as long as the host looks the same, so do its addresses.                *)
LEMMA HostAddresses ==
  ASSUME NEW h, h \in DOMAIN db["host"], Image(HostKey(h))' = Image(HostKey(h))
  PROVE  OldAddresses({h})' = OldAddresses({h})
<1> DEFINE I == InterfacesOf(h)
           pairs == {<<i, AddressesOf(i)>> : i \in I}
<1>1. pairs' = pairs
  BY HostImage
<1> HIDE DEF I
<1>2. \A i, v : <<i, v>> \in pairs <=> i \in I /\ v = AddressesOf(i)
  OBVIOUS
<1>3. \A i, v : <<i, v>> \in pairs' <=> i \in I' /\ v = AddressesOf(i)'
  OBVIOUS
<1>4. OldAddresses({h}) = UNION {AddressesOf(i) : i \in I}
  BY DEF OldAddresses, I
<1>5. OldAddresses({h})' = UNION {AddressesOf(i)' : i \in I'}
  BY DEF OldAddresses, I
<1> HIDE DEF pairs
<1>6. I' = I /\ \A i \in I : AddressesOf(i)' = AddressesOf(i)
  BY <1>1, <1>2, <1>3
<1> QED
  BY <1>4, <1>5, <1>6

(* What a request writes says all of it.                                   *)
LEMMA FitsSame ==
  ASSUME NEW r, NEW q, q.new = r.new, q.set = r.set, q.drop = r.drop
  PROVE  /\ Aloof(r) => Aloof(q)
         /\ Plain(r) => Plain(q)
         /\ \A H, x, y : FitsIn(r, H, y, x) => FitsIn(q, H, y, x)
<1>1. \A o, k, c : Sets(q, o, k, c) <=> Sets(r, o, k, c)
  BY DEF Sets
<1>2. Aloof(r) => Aloof(q)
  BY <1>1 DEF Aloof
<1>3. Plain(r) => Plain(q)
  BY <1>1 DEF Plain
<1>4. ASSUME NEW H, NEW x, NEW y, FitsIn(r, H, y, x)
      PROVE  FitsIn(q, H, y, x)
  <2>1. \A i : Serves(r, i, H) => Serves(q, i, H)
    BY DEF Serves
  <2> QED
    BY <1>1, <1>4, <2>1 DEF FitsIn
<1> QED
  BY <1>2, <1>3, <1>4

(* Requests that write the same fit in the same rooms.                     *)
LEMMA HostSame ==
  ASSUME NEW r, NEW q, Alike(q, r), HostRequest(r)
  PROVE  HostRequest(q)
<1>1. q.new = r.new /\ q.set = r.set /\ q.drop = r.drop /\ q.seen = r.seen
  BY DEF Alike
<1>2. /\ Aloof(r) => Aloof(q)
      /\ Plain(r) => Plain(q)
      /\ \A H, x, y : FitsIn(r, H, y, x) => FitsIn(q, H, y, x)
  BY <1>1, FitsSame
<1> QED
  BY <1>1, <1>2 DEF HostRequest

(* A request fits while the hosts and rooms that it saw look the same.     *)
LEMMA HostStays ==
  ASSUME WellTyped(db), NEW r, HostRequest(r), \A k \in r.seen \cap Keys : Image(k)' = Image(k)
  PROVE  HostRequest(r)'
<1>1. \A o, k, c : Sets(r, o, k, c)' <=> Sets(r, o, k, c)
  BY DEF Sets
<1>2. Aloof(r)'
  BY <1>1 DEF HostRequest, Aloof
<1>3. CASE Plain(r)
  <2>1. Plain(r)'
    BY <1>1, <1>3 DEF Plain
  <2> QED
    BY <1>2, <2>1 DEF HostRequest
<1>4. ASSUME NEW x \in Room, NEW y \in Room, NEW H, \A h \in H : HostKey(h) \in r.seen,
             {RoomKey(x), RoomKey(y)} \subseteq r.seen, FitsIn(r, H, y, x)
      PROVE  FitsIn(r, H, y, x)'
  <2>1. RoomKey(x) \in Keys /\ RoomKey(y) \in Keys
    BY DEF RoomKey, Keys
  <2>2. SubnetsOf(x)' = SubnetsOf(x) /\ SubnetsOf(y)' = SubnetsOf(y)
    BY <1>4, <2>1, RoomImage
  <2>3. ASSUME NEW h \in H
        PROVE  /\ h \in DOMAIN db["host"] /\ h \in DOMAIN db'["host"] /\ db'["host"][h] = db["host"][h]
               /\ InterfacesOf(h)' = InterfacesOf(h) /\ OldAddresses({h})' = OldAddresses({h})
    <3>1. h \in DOMAIN db["host"]
      BY <1>4 DEF FitsIn
    <3>2. HostKey(h) \in Keys
      BY <3>1, Tables DEF WellTyped, HostKey, Keys
    <3> QED
      BY <1>4, <3>1, <3>2, HostImage, HostAddresses
  <2>4. OldAddresses(H)' = OldAddresses(H)
    <3>1. OldAddresses(H) = UNION {OldAddresses({h}) : h \in H}
      BY DEF OldAddresses
    <3>2. OldAddresses(H)' = UNION {OldAddresses({h})' : h \in H}
      BY DEF OldAddresses
    <3>3. {OldAddresses({h})' : h \in H} = {OldAddresses({h}) : h \in H}
      BY <2>3
    <3> QED
      BY <3>1, <3>2, <3>3
  <2>5. Offers(x)' = Offers(x)
    BY <2>2 DEF Offers
  <2>6. \A i : Serves(r, i, H) => Serves(r, i, H)'
    BY <2>3 DEF Serves
  <2>7. \A h \in H : h \in DOMAIN db'["host"] /\ db'["host"][h].room = y
    BY <1>4, <2>3 DEF FitsIn
  <2> QED
    BY <1>1, <1>4, <2>2, <2>4, <2>5, <2>6, <2>7 DEF FitsIn
<1>5. \A x, h : RoomKey(x)' = RoomKey(x) /\ HostKey(h)' = HostKey(h)
  BY DEF RoomKey, HostKey
<1>6. ASSUME NEW x \in Room, NEW y \in Room, NEW H, \A h \in H : HostKey(h) \in r.seen,
             {RoomKey(x), RoomKey(y)} \subseteq r.seen, FitsIn(r, H, y, x)
      PROVE  HostRequest(r)'
  <2>1. FitsIn(r, H, y, x)'
    BY <1>4, <1>6
  <2> QED
    BY <1>2, <1>5, <1>6, <2>1 DEF HostRequest
<1> QED
  BY <1>3, <1>6 DEF HostRequest

(* The operations on hosts.                                                *)
HostDecides(s) ==
  \E op, seen, r : Draft(r) /\ HostRequest(Decided(r, op, seen)) /\ Decide(s, op, seen, r)

(* What gives no addresses may be decided,                                 *)
LEMMA PlainDecided ==
  ASSUME NEW s, NEW op, NEW seen, NEW r, Draft(r), Aloof(r), Plain(r), Decide(s, op, seen, r)
  PROVE  HostDecides(s)
<1>1. PICK q : q = Decided(r, op, seen)
  OBVIOUS
<1>2. q.new = r.new /\ q.set = r.set /\ q.drop = r.drop
  BY <1>1, ShapeDecided DEF Draft
<1>3. Aloof(q) /\ Plain(q)
  BY <1>2, FitsSame
<1> QED
  BY <1>1, <1>3 DEF HostDecides, HostRequest

(* and what fits.                                                          *)
LEMMA FitDecided ==
  ASSUME NEW s, NEW op, NEW seen, NEW H, NEW x \in Room, NEW y \in Room,
         \A h \in H : HostKey(h) \in seen, {RoomKey(x), RoomKey(y)} \subseteq seen,
         NEW r, Draft(r), Aloof(r), FitsIn(r, H, y, x), Decide(s, op, seen, r)
  PROVE  HostDecides(s)
<1>1. PICK q : q = Decided(r, op, seen)
  OBVIOUS
<1>2. q.new = r.new /\ q.set = r.set /\ q.drop = r.drop /\ q.seen = seen
  BY <1>1, ShapeDecided DEF Draft
<1>3. Aloof(q) /\ FitsIn(q, H, y, x)
  BY <1>2, FitsSame
<1>4. HostRequest(q)
  BY <1>2, <1>3 DEF HostRequest
<1> QED
  BY <1>1, <1>4 DEF HostDecides

(* A request without hosts is plain.                                       *)
LEMMA BasePlain ==
  ASSUME NEW r, Base(r)
  PROVE  Draft(r) /\ Aloof(r) /\ Plain(r)
BY DEF Base, Plain

(* Moving a user fits,                                                     *)
LEMMA MoveFits ==
  ASSUME WellTyped(db), References(db), NEW s, NEW u \in User \cap DOMAIN db["user"], NEW x \in Room, Move(s, u, x)
  PROVE  HostDecides(s)
<1> DEFINE from == db["user"][u].room
           H == {h \in HostsOf(u) : db.host[h].room = from}
           r == Update(Nothing, "user", u, [room |-> x])
           seen == {UserKey(u), RoomKey(from), RoomKey(x)} \cup {HostKey(h) : h \in H}
<1>1. PICK w \in IF H = {} THEN {r} ELSE Migrated(r, H, x) : Decide(s, "move", seen, w)
  BY DEF Move
<1>2. from \in Room
  BY Tables DEF Move, WellTyped, IsRow, IsValue, Columns
<1>3. Base(r)
  <2>1. IsChange("user", [room |-> x])
    BY KindsOfChanges
  <2> QED
    BY <2>1, BaseNothing, BaseUpdate
<1>4. \A h \in H : h \in DOMAIN db.host /\ db.host[h].room = from
  BY DEF HostsOf
<1>5. (\A h \in H : HostKey(h) \in seen) /\ {RoomKey(x), RoomKey(from)} \subseteq seen
  OBVIOUS
<1> HIDE DEF r, H, from, seen
<1>6. CASE w = r
  BY <1>1, <1>3, <1>6, BasePlain, PlainDecided
<1>7. CASE w \in Migrated(r, H, x)
  <2>1. Draft(r)
    BY <1>3 DEF Base
  <2>2. Moves(w, r, H, from, x)
    BY <1>4, <1>7, <2>1, MigratedMoves
  <2>3. Aloof(w) /\ FitsIn(w, H, from, x) /\ Draft(w)
    BY <1>3, <1>4, <2>2, MovesFit
  <2> QED
    BY <1>1, <1>2, <1>5, <2>3, FitDecided
<1> QED
  BY <1>1, <1>6, <1>7

(* annexing a device fits,                                                 *)
LEMMA AnnexingFits ==
  ASSUME WellTyped(db), References(db), NEW s, NEW u \in User, NEW x \in Room, NEW begin_membership,
         NEW i \in DOMAIN db.interface, MoveInAnnexing(s, u, x, begin_membership, i)
  PROVE  HostDecides(s)
<1> DEFINE h == db.interface[i].host
           y == db.host[h].room
           b == Housed(u, x, begin_membership)
           r == Update(b, "host", h, [owner |-> u])
           seen == {UserKey(u), HostKey(h), RoomKey(y), RoomKey(x)}
<1>1. PICK w \in Migrated(r, {h}, x) : Decide(s, "move_in", seen, w)
  BY DEF MoveInAnnexing
<1>2. h \in DOMAIN db.host
  BY DEF References
<1>3. y \in Room
  BY <1>2, Tables DEF WellTyped, IsRow, IsValue, Columns
<1>4. Base(b)
  BY BaseHoused
<1>5. Base(r)
  <2> DEFINE fields == [owner |-> u]
  <2>1. IsChange("host", fields) /\ "room" \notin DOMAIN fields
    BY KindsOfChanges
  <2> HIDE DEF b, h, fields
  <2>2. Base(Update(b, "host", h, fields))
    BY <1>4, <2>1, BaseUpdate
  <2> QED
    BY <2>2 DEF fields
<1>6. (\A k \in {h} : HostKey(k) \in seen) /\ {RoomKey(x), RoomKey(y)} \subseteq seen
  OBVIOUS
<1>7. \A k \in {h} : k \in DOMAIN db.host /\ db.host[k].room = y
  BY <1>2
<1> HIDE DEF r, h, y, seen
<1>8. Moves(w, r, {h}, y, x)
  BY <1>5, <1>7, MigratedMoves DEF Base
<1>9. Aloof(w) /\ FitsIn(w, {h}, y, x) /\ Draft(w)
  BY <1>5, <1>7, <1>8, MovesFit
<1> QED
  BY <1>1, <1>3, <1>6, <1>9, FitDecided

(* editing a host fits,                                                    *)
LEMMA HostEditFits ==
  ASSUME WellTyped(db), References(db), NEW s, NEW u, NEW x \in Room,
         NEW h \in DOMAIN db.host, HostEdit(s, h, u, x)
  PROVE  HostDecides(s)
<1> DEFINE y == db.host[h].room
           seen == {UserKey(u), HostKey(h), RoomKey(y), RoomKey(x)}
<1>1. PICK w \in EditedHost(h, u, x) : Decide(s, "host_edit", seen, w)
  BY DEF HostEdit
<1>2. y \in Room
  BY Tables DEF WellTyped, IsRow, IsValue, Columns
<1>3. (\A k \in {h} : HostKey(k) \in seen) /\ {RoomKey(x), RoomKey(y)} \subseteq seen
  OBVIOUS
<1>4. \A k \in {h} : k \in DOMAIN db.host /\ db.host[k].room = y
  OBVIOUS
<1>5. Edits(w, h, u, x)
  BY EditedMoves
<1>6. PICK r : Base(r) /\ Moves(w, r, {h}, y, x)
  BY <1>5 DEF Edits
<1> HIDE DEF y, seen
<1>7. Aloof(w) /\ FitsIn(w, {h}, y, x) /\ Draft(w)
  BY <1>4, <1>6, MovesFit
<1> QED
  BY <1>1, <1>2, <1>3, <1>7, FitDecided

(* a new host fits,                                                        *)
LEMMA NewHostFits ==
  ASSUME NEW r, Base(r), NEW h \in Ids["host"], NEW u, NEW x \in Room, NEW q, q = WithHost(r, h, u, x)
  PROVE  /\ Draft(q) /\ Aloof(q) /\ Plain(q) /\ FitsIn(q, {}, x, x)
         /\ DOMAIN q.new["interface"] = {} /\ h \in DOMAIN q.new["host"]
<1>1. /\ Draft(q) /\ q.set = r.set /\ q.drop = r.drop /\ \A o \in Table \ {"host"} : q.new[o] = r.new[o]
      /\ DOMAIN q.new["host"] = {h} /\ q.new["host"][h].room = x
  <2>1. Draft(r) /\ DOMAIN r.new["host"] = {}
    BY DEF Base
  <2> QED
    BY <2>1, WithHostIs DEF Beyond
<1>2. \A o, k, c : Sets(q, o, k, c) <=> Sets(r, o, k, c)
  BY <1>1 DEF Sets
<1>3. Aloof(q)
  BY <1>1, <1>2, Tables DEF Base, Aloof
<1>4. DOMAIN q.new["interface"] = {} /\ DOMAIN q.new["ip"] = {} /\ \A k : ~ Sets(q, "host", k, "room")
  BY <1>1, <1>2, Tables DEF Base
<1> QED
  BY <1>1, <1>3, <1>4 DEF Plain, FitsIn

(* moving in fits,                                                         *)
LEMMA MovingInFits ==
  ASSUME WellTyped(db), References(db), NEW s, NEW u \in User, NEW x \in Room, NEW begin_membership
  PROVE  /\ MoveIn(s, u, x, begin_membership) => HostDecides(s)
         /\ \A mac : MoveInWithDevice(s, u, x, begin_membership, mac) => HostDecides(s)
<1>1. PICK r : r = Housed(u, x, begin_membership)
  OBVIOUS
<1>2. Base(r)
  BY <1>1, BaseHoused
<1>3. ASSUME MoveIn(s, u, x, begin_membership)
      PROVE  HostDecides(s)
  BY <1>1, <1>2, <1>3, BasePlain, PlainDecided DEF MoveIn
<1>4. ASSUME NEW mac, MoveInWithDevice(s, u, x, begin_membership, mac)
      PROVE  HostDecides(s)
  <2> DEFINE seen == {UserKey(u), RoomKey(x)}
  <2>1. PICK h : h = NewId("host") /\ h \in Ids["host"]
    BY <1>4, NewIdTyped DEF MoveInWithDevice
  <2>2. PICK q : q = WithHost(r, h, u, x)
    OBVIOUS
  <2>3. PICK w \in Addressed(q, h, x, mac) : NewIds("interface") # {} /\ Decide(s, "move_in", seen, w)
    BY <1>1, <1>4, <2>1, <2>2 DEF MoveInWithDevice
  <2>4. /\ Draft(q) /\ Aloof(q) /\ FitsIn(q, {}, x, x)
        /\ DOMAIN q.new["interface"] = {} /\ h \in DOMAIN q.new["host"]
    BY <1>2, <2>1, <2>2, NewHostFits
  <2>5. PICK i, a : a \in Offers(x) /\ OneMore(w, q, h, i, a)
    BY <2>3, <2>4, AddressedIs
  <2>6. Aloof(w) /\ FitsIn(w, {}, x, x)
    BY <2>4, <2>5, OneMoreFits
  <2>7. Draft(w)
    BY <2>5 DEF OneMore, Beyond
  <2>8. {RoomKey(x), RoomKey(x)} \subseteq seen
    OBVIOUS
  <2> HIDE DEF seen
  <2> QED
    BY <2>3, <2>6, <2>7, <2>8, FitDecided
<1> QED
  BY <1>3, <1>4

(* creating a host fits,                                                   *)
LEMMA HostCreateFits ==
  ASSUME WellTyped(db), NEW s, NEW u, NEW x \in Room, HostCreate(s, u, x)
  PROVE  HostDecides(s)
<1>1. PICK h : h = NewId("host") /\ h \in Ids["host"]
  BY NewIdTyped DEF HostCreate
<1>2. PICK q : q = WithHost(Nothing, h, u, x)
  OBVIOUS
<1>3. Draft(q) /\ Aloof(q) /\ Plain(q)
  BY <1>1, <1>2, BaseNothing, NewHostFits
<1>4. Decide(s, "host_create", {UserKey(u), RoomKey(x)}, q)
  BY <1>1, <1>2 DEF HostCreate
<1> QED
  BY <1>3, <1>4, PlainDecided

(* creating an interface fits,                                             *)
LEMMA InterfaceCreateFits ==
  ASSUME WellTyped(db), References(db), NEW s, NEW h \in DOMAIN db.host, NEW mac, NEW A \in SUBSET Address,
         InterfaceCreate(s, h, mac, A)
  PROVE  HostDecides(s)
<1> DEFINE x == db.host[h].room
           seen == {HostKey(h), RoomKey(x)}
<1>1. PICK i : i = NewId("interface") /\ i \in Ids["interface"]
  BY NewIdTyped DEF InterfaceCreate
<1>2. PICK q : q = WithInterface(Nothing, h, i, mac)
  OBVIOUS
<1>3. PICK w : w = WithAddresses(q, i, A)
  OBVIOUS
<1>4. A \subseteq UNION {Unused(n) : n \in SubnetsOf(x)} /\ Decide(s, "interface_create", seen, w)
  BY <1>1, <1>2, <1>3 DEF InterfaceCreate
<1>5. x \in Room
  BY Tables DEF WellTyped, IsRow, IsValue, Columns
<1>6. A \subseteq Offers(x)
  BY <1>4 DEF Offers, Unused
<1>7. /\ Beyond(q, Nothing, {"interface"}) /\ DOMAIN q.new["interface"] = {i} \cup DOMAIN Nothing.new["interface"]
      /\ q.new["interface"][i].host = h
  BY <1>1, <1>2, DraftNothing, WithInterfaceIs
<1>8. /\ Beyond(w, q, {"ip"}) /\ DOMAIN w.new["ip"] = A \cup DOMAIN q.new["ip"]
      /\ \A a \in A : w.new["ip"][a].interface = i
  BY <1>3, <1>7, WithAddressesIs DEF Beyond
<1>9. /\ Draft(w) /\ w.set = Nothing.set /\ w.drop = Nothing.drop
      /\ \A o \in Table \ {"interface", "ip"} : w.new[o] = Nothing.new[o]
      /\ w.new["interface"] = q.new["interface"] /\ q.new["ip"] = Nothing.new["ip"]
  BY <1>7, <1>8, Tables DEF Beyond
<1>10. Base(Nothing)
  BY BaseNothing
<1>11. \A o, k, c : Sets(w, o, k, c) <=> Sets(Nothing, o, k, c)
  BY <1>9 DEF Sets
<1>12. Aloof(w)
  BY <1>9, <1>10, <1>11, Tables DEF Base, Aloof
<1>13. FitsIn(w, {h}, x, x)
  <2>1. DOMAIN w.new["host"] = {} /\ \A k : ~ Sets(w, "host", k, "room")
    BY <1>9, <1>10, <1>11, Tables DEF Base
  <2>2. DOMAIN w.new["ip"] = A
    BY <1>8, <1>9, <1>10, Tables DEF Base
  <2>3. Serves(w, i, {h})
    BY <1>7, <1>9 DEF Serves
  <2> QED
    BY <1>6, <1>8, <2>1, <2>2, <2>3 DEF FitsIn
<1>14. (\A k \in {h} : HostKey(k) \in seen) /\ {RoomKey(x), RoomKey(x)} \subseteq seen
  OBVIOUS
<1> HIDE DEF x, seen
<1> QED
  BY <1>4, <1>5, <1>9, <1>12, <1>13, <1>14, FitDecided

(* editing one fits,                                                       *)
LEMMA InterfaceEditFits ==
  ASSUME WellTyped(db), References(db), NEW s, NEW i \in DOMAIN db.interface, NEW mac, NEW A \in SUBSET Address,
         InterfaceEdit(s, i, mac, A)
  PROVE  HostDecides(s)
<1> DEFINE h == db.interface[i].host
           x == db.host[h].room
           old == AddressesOf(i)
           more == (A \ old) \cap Offers(x)
           fields == [mac |-> mac]
           seen == {HostKey(h), RoomKey(x)}
<1>1. PICK q : q = Update(Nothing, "interface", i, fields)
  OBVIOUS
<1>2. PICK d : d = Delete(q, "ip", old \ A)
  OBVIOUS
<1>3. PICK w : w = WithAddresses(d, i, more)
  OBVIOUS
<1>4. Decide(s, "interface_edit", seen, w)
  BY <1>1, <1>2, <1>3 DEF InterfaceEdit, EditedInterface, Offers
<1>5. h \in DOMAIN db.host /\ i \in InterfacesOf(h)
  BY DEF References, InterfacesOf
<1>6. x \in Room
  BY <1>5, Tables DEF WellTyped, IsRow, IsValue, Columns
<1>7. more \in SUBSET Address /\ more \subseteq Offers(x)
  OBVIOUS
<1>8. (\A k \in {h} : HostKey(k) \in seen) /\ {RoomKey(x), RoomKey(x)} \subseteq seen
  OBVIOUS
<1>9. Base(Nothing)
  BY BaseNothing
<1>10. IsChange("interface", fields)
  BY KindsOfChanges
<1> HIDE DEF h, x, old, more, fields, seen
<1>11. SetsMore(q, Nothing, "interface", {i}, fields)
  BY <1>1, <1>9, <1>10, UpdateSets, Tables DEF Base
<1>12. /\ Draft(q) /\ q.new = Nothing.new /\ q.drop = Nothing.drop
       /\ \A o \in Table \ {"interface"} : \A k, c : Sets(q, o, k, c) <=> Sets(Nothing, o, k, c)
  BY <1>11 DEF SetsMore, Adds
<1>13. /\ Draft(d) /\ d.new = q.new /\ d.set = q.set
       /\ \A o \in Table \ {"ip"} : d.drop[o] = q.drop[o]
  BY <1>2, <1>12, DeleteIs, Tables
<1>14. /\ Beyond(w, d, {"ip"}) /\ DOMAIN w.new["ip"] = more \cup DOMAIN d.new["ip"]
       /\ \A a \in more : w.new["ip"][a].interface = i
  BY <1>3, <1>7, <1>13, WithAddressesIs
<1>15. /\ Draft(w) /\ w.set = q.set /\ \A o \in Table \ {"ip"} : w.new[o] = Nothing.new[o] /\ w.drop[o] = Nothing.drop[o]
       /\ DOMAIN w.new["ip"] = more
  BY <1>9, <1>12, <1>13, <1>14, Tables DEF Beyond, Base
<1>16. \A o \in Table \ {"interface"} : \A k, c : Sets(w, o, k, c) <=> Sets(Nothing, o, k, c)
  BY <1>12, <1>15 DEF Sets
<1>17. Aloof(w)
  BY <1>9, <1>15, <1>16, Tables DEF Base, Aloof
<1>18. FitsIn(w, {h}, x, x)
  <2>1. DOMAIN w.new["host"] = {} /\ \A k : ~ Sets(w, "host", k, "room")
    BY <1>9, <1>15, <1>16, Tables DEF Base
  <2>2. Serves(w, i, {h})
    BY <1>5 DEF Serves
  <2>3. db.host[h].room = x
    BY DEF x
  <2> QED
    BY <1>5, <1>7, <1>14, <1>15, <2>1, <2>2, <2>3 DEF FitsIn
<1> QED
  BY <1>4, <1>6, <1>8, <1>15, <1>17, <1>18, FitDecided

(* and activating does.                                                    *)
LEMMA ActivateFits ==
  ASSUME WellTyped(db), References(db), NEW s, NEW u \in User \cap DOMAIN db["user"], NEW mac, Activate(s, u, mac)
  PROVE  HostDecides(s)
<1> DEFINE x == db["user"][u].room
           seen == {UserKey(u), RoomKey(x)} \cup {HostKey(h) : h \in HostsOf(u)}
<1>1. /\ x # None /\ NewIds("interface") # {}
      /\ \/ /\ HostsOf(u) = {} /\ NewIds("host") # {}
            /\ \E w \in Addressed(WithHost(Nothing, NewId("host"), u, x), NewId("host"), x, mac) :
                 Decide(s, "activate", seen, w)
         \/ \E h \in HostsOf(u) :
              /\ HostsOf(u) = {h}
              /\ \E r \in EditedHost(h, u, x) : \E w \in Addressed(r, h, x, mac) :
                   Decide(s, "activate", seen \cup {RoomKey(db.host[h].room)}, w)
  BY DEF Activate
<1>2. x \in Room
  BY <1>1, Tables DEF WellTyped, IsRow, IsValue, Columns
<1>3. RoomKey(x) \in seen /\ \A h \in HostsOf(u) : HostKey(h) \in seen
  OBVIOUS
<1> HIDE DEF x, seen
<1>4. CASE HostsOf(u) = {} /\ NewIds("host") # {} /\
           \E w \in Addressed(WithHost(Nothing, NewId("host"), u, x), NewId("host"), x, mac) :
             Decide(s, "activate", seen, w)
  <2>1. PICK h : h = NewId("host") /\ h \in Ids["host"]
    BY <1>4, NewIdTyped
  <2>2. PICK q : q = WithHost(Nothing, h, u, x)
    OBVIOUS
  <2>3. PICK w \in Addressed(q, h, x, mac) : Decide(s, "activate", seen, w)
    BY <1>4, <2>1, <2>2
  <2>4. /\ Draft(q) /\ Aloof(q) /\ FitsIn(q, {}, x, x)
        /\ DOMAIN q.new["interface"] = {} /\ h \in DOMAIN q.new["host"]
    BY <1>2, <2>1, <2>2, BaseNothing, NewHostFits
  <2>5. PICK i, a : a \in Offers(x) /\ OneMore(w, q, h, i, a)
    BY <1>1, <2>3, <2>4, AddressedIs
  <2>6. Aloof(w) /\ FitsIn(w, {}, x, x)
    BY <2>4, <2>5, OneMoreFits
  <2>7. Draft(w)
    BY <2>5 DEF OneMore, Beyond
  <2> QED
    BY <1>2, <1>3, <2>3, <2>6, <2>7, FitDecided
<1>5. ASSUME NEW h \in HostsOf(u), NEW r \in EditedHost(h, u, x), NEW w \in Addressed(r, h, x, mac),
             Decide(s, "activate", seen \cup {RoomKey(db.host[h].room)}, w)
      PROVE  HostDecides(s)
  <2> DEFINE y == db.host[h].room
             more == seen \cup {RoomKey(y)}
  <2>1. h \in DOMAIN db.host
    BY DEF HostsOf
  <2>2. y \in Room
    BY <2>1, Tables DEF WellTyped, IsRow, IsValue, Columns
  <2>3. (\A k \in {h} : HostKey(k) \in more) /\ {RoomKey(x), RoomKey(y)} \subseteq more
    BY <1>3
  <2>4. Decide(s, "activate", more, w)
    BY <1>5
  <2>5. Edits(r, h, u, x)
    BY <1>2, EditedMoves
  <2>6. PICK e : Base(e) /\ Moves(r, e, {h}, y, x)
    BY <2>5 DEF Edits
  <2>7. \A k \in {h} : k \in DOMAIN db.host /\ db.host[k].room = y
    BY <2>1
  <2> HIDE DEF y, more
  <2>8. Draft(r) /\ Aloof(r) /\ FitsIn(r, {h}, y, x) /\ DOMAIN r.new["interface"] = {}
    BY <2>6, <2>7, MovesFit
  <2>9. PICK i, a : a \in Offers(x) /\ OneMore(w, r, h, i, a)
    BY <1>1, <1>5, <2>8, AddressedIs
  <2>10. Aloof(w) /\ FitsIn(w, {h}, y, x)
    <3>1. h \in {h} \cup DOMAIN r.new["host"]
      OBVIOUS
    <3> QED
      BY <2>8, <2>9, <3>1, OneMoreFits
  <2>11. Draft(w)
    BY <2>9 DEF OneMore, Beyond
  <2> QED
    BY <1>2, <2>2, <2>3, <2>4, <2>10, <2>11, FitDecided
<1> QED
  BY <1>1, <1>4, <1>5

(* So every page of users and hosts fits, or is of another kind,           *)
LEMMA HostingFits ==
  ASSUME WellTyped(db), References(db), NEW s, Hosting(s)
  PROVE  HostDecides(s) \/ Does(s, {"block", "unblock", "move_out", "host_delete"})
<1>1. ASSUME NEW u, NEW a, NEW b, Unblock(s, u) \/ Block(s, u, a, b) \/ MoveOut(s, u, a)
      PROVE  Does(s, {"block", "unblock", "move_out", "host_delete"})
  BY <1>1 DEF Does, Unblock, Block, MoveOut
<1>2. ASSUME NEW h, HostDelete(s, h)
      PROVE  Does(s, {"block", "unblock", "move_out", "host_delete"})
  BY <1>2 DEF Does, HostDelete
<1>3. \A u \in Users : u \in User /\ u \in User \cap DOMAIN db["user"]
  BY DEF Users
<1>4. ASSUME NEW u \in Users, NEW x \in Room, Move(s, u, x) \/ HostCreate(s, u, x)
      PROVE  HostDecides(s)
  BY <1>3, <1>4, MoveFits, HostCreateFits
<1>5. ASSUME NEW u \in Users, NEW x \in Room, NEW b, NEW mac, NEW i \in DOMAIN db.interface,
             MoveIn(s, u, x, b) \/ MoveInWithDevice(s, u, x, b, mac) \/ MoveInAnnexing(s, u, x, b, i)
      PROVE  HostDecides(s)
  BY <1>3, <1>5, MovingInFits, AnnexingFits
<1>6. ASSUME NEW u \in Users, NEW x \in Room, NEW b, NEW mac,
             MoveIn(s, u, x, b) \/ MoveInWithDevice(s, u, x, b, mac)
      PROVE  HostDecides(s)
  BY <1>3, <1>6, MovingInFits
<1>7. ASSUME NEW u \in Users, NEW mac, Activate(s, u, mac)
      PROVE  HostDecides(s)
  BY <1>3, <1>7, ActivateFits
<1>8. ASSUME NEW h \in DOMAIN db.host, NEW u, NEW x \in Room, HostEdit(s, h, u, x)
      PROVE  HostDecides(s)
  BY <1>8, HostEditFits
<1> QED
  BY <1>1, <1>2, <1>4, <1>5, <1>6, <1>7, <1>8 DEF Hosting

(* and every page of interfaces.                                           *)
LEMMA InterfacingFits ==
  ASSUME WellTyped(db), References(db), NEW s, Interfacing(s)
  PROVE  HostDecides(s) \/ Does(s, {"change_mac", "interface_delete"})
<1>1. ASSUME NEW i, NEW mac, InterfaceDelete(s, i) \/ ChangeMac(s, i, mac)
      PROVE  Does(s, {"change_mac", "interface_delete"})
  BY <1>1 DEF Does, InterfaceDelete, ChangeMac
<1> QED
  BY <1>1, InterfaceCreateFits, InterfaceEditFits DEF Interfacing

(* A request fits when it begins,                                          *)
LEMMA BeginKeepsHosts ==
  ASSUME IInv, NEW s \in Session, Begin(s), request'[s].op \in HostOps
  PROVE  HostRequest(request[s])'
<1>1. WellTyped(db) /\ References(db) /\ DOMAIN request = Session
  BY DEF IInv, TypeOK
<1>2. HostDecides(s) \/ \E ops : Does(s, ops) /\ ops \cap HostOps = {}
  <2>1. CASE Hosting(s)
    BY <1>1, <2>1, HostingFits DEF HostOps
  <2>2. CASE Interfacing(s)
    BY <1>1, <2>2, InterfacingFits DEF HostOps
  <2>3. CASE Mpsk(s)
    <3>1. Does(s, {"mpsk_create", "mpsk_edit", "mpsk_delete"}) \/ Does(s, {"mpsk_add"})
      BY <2>3, MpskDoes
    <3> QED
      BY <3>1 DEF HostOps
  <2>4. CASE Patching(s) \/ Switching(s)
    BY <2>4, PanelsDo DEF HostOps, PanelNames, PanelOps
  <2> QED
    BY <2>1, <2>2, <2>3, <2>4 DEF Begin
<1>3. Decides(s)
  BY <1>1, HostingDecides, InterfacingDecides, MpskDecides, PatchingDecides, SwitchingDecides DEF Begin
<1>4. HostDecides(s)
  BY <1>1, <1>2, <1>3, DoesIs
<1>5. PICK op, seen, r : Draft(r) /\ HostRequest(Decided(r, op, seen)) /\ Decide(s, op, seen, r)
  BY <1>4 DEF HostDecides
<1>6. PICK w : w = request'[s]
  OBVIOUS
<1>7. w = Decided(r, op, seen) /\ db' = db
  BY <1>1, <1>5, <1>6 DEF Decide, Pending, Decided
<1>8. \A k \in w.seen \cap Keys : Image(k)' = Image(k)
  BY <1>7, ImageSame
<1>9. HostRequest(w)'
  BY <1>1, <1>5, <1>7, <1>8, HostStays
<1> QED
  BY <1>6, <1>9

(* and as long as it is pending and fresh.                                 *)
LEMMA HostsKeep ==
  ASSUME IInv, HostInv, [Next]_rows
  PROVE  HostInv'
<1>1. SUFFICES ASSUME NEW s \in Session, request'[s] # None, request'[s].fresh, request'[s].op \in HostOps
               PROVE  HostRequest(request[s])'
  BY DEF HostInv, HostOps
<1>2. CASE Begin(s)
  BY <1>1, <1>2, BeginKeepsHosts
<1>3. CASE ~ Begin(s)
  <2>1. SameRequest(s)
    BY <1>1, <1>3, OldRequest
  <2>2. HostRequest(request[s])
    BY <1>1, <2>1 DEF SameRequest, HostInv
  <2>3. PICK r, w : r = request[s] /\ w = request'[s]
    OBVIOUS
  <2>4. Alike(w, r) /\ \A k \in r.seen \cap Keys : Image(k)' = Image(k)
    BY <2>1, <2>3 DEF SameRequest, Alike
  <2>5. HostRequest(w)
    BY <2>2, <2>3, <2>4, HostSame
  <2>6. \A k \in w.seen \cap Keys : Image(k)' = Image(k)
    BY <2>4 DEF Alike
  <2>7. HostRequest(w)'
    BY <2>5, <2>6, HostStays DEF IInv, TypeOK
  <2> QED
    BY <2>3, <2>7
<1> QED
  BY <1>2, <1>3

(* A commit that leaves the panel alone leaves the subnets of rooms alone. *)
LEMMA CommitKeepsSubnets ==
  ASSUME IInv, NEW r, Draft(r), Writes(r), Aloof(r), NEW x
  PROVE  SubnetsOf(x)' = SubnetsOf(x)
<1>1. WellTyped(db) /\ References(db)
  BY DEF IInv, TypeOK
<1>2. Gone(r)["switch_port"] = {} /\ Gone(r)["patch_port"] = {}
  BY Tables DEF Gone, Aloof
<1>3. /\ DOMAIN db'["switch_port"] = DOMAIN db["switch_port"]
      /\ \A p \in DOMAIN db["switch_port"] : db'["switch_port"][p].subnets = db["switch_port"][p].subnets
  <2>1. "subnets" \in Columns["switch_port"] /\ "switch_port" \in Table
    BY Tables DEF Columns
  <2>2. DOMAIN db'["switch_port"] = DOMAIN db["switch_port"]
    BY <1>2, <2>1 DEF Writes, Aloof
  <2> QED
    BY <2>1, <2>2, WritesRow DEF Aloof
<1>4. /\ DOMAIN db'["patch_port"] = DOMAIN db["patch_port"]
      /\ \A q \in DOMAIN db["patch_port"] :
           /\ db'["patch_port"][q].room = db["patch_port"][q].room
           /\ db'["patch_port"][q].switch_port = db["patch_port"][q].switch_port
  <2>1. {"room", "switch_port"} \subseteq Columns["patch_port"] /\ "patch_port" \in Table
    BY Tables DEF Columns
  <2>2. DOMAIN db'["patch_port"] = DOMAIN db["patch_port"]
    BY <1>2, <2>1 DEF Writes, Aloof
  <2>3. ASSUME NEW q \in DOMAIN db["patch_port"], NEW c \in {"room", "switch_port"}
        PROVE  db'["patch_port"][q][c] = db["patch_port"][q][c]
    <3>1. \/ db'["patch_port"][q][c] = Value(r, "patch_port", q, c)
          \/ IsCut(r, "patch_port", q, c)
      BY <2>1, <2>2 DEF Writes
    <3>2. ~ IsCut(r, "patch_port", q, c)
      BY <1>2 DEF IsCut
    <3>3. Value(r, "patch_port", q, c) = db["patch_port"][q][c]
      BY DEF Value, Aloof
    <3> QED
      BY <3>1, <3>2, <3>3
  <2> QED
    BY <2>2, <2>3
<1>5. Connected(x)' = Connected(x)
  BY <1>4 DEF Connected
<1>6. \A q \in Connected(x) : db["patch_port"][q].switch_port \in DOMAIN db["switch_port"]
  BY <1>1 DEF Connected, References
<1>7. \A q \in Connected(x) :
        db'["switch_port"][db'["patch_port"][q].switch_port].subnets
          = db["switch_port"][db["patch_port"][q].switch_port].subnets
  BY <1>3, <1>4, <1>6 DEF Connected
<1> QED
  BY <1>5, <1>7 DEF SubnetsOf

(* What fits when it commits leaves every host fitting,                    *)
LEMMA CommitKeepsFitting ==
  ASSUME IInv, NEW s \in Session, Commit(s), HostRequest(request[s]), NEW k \in DOMAIN db'["host"],
         k \in DOMAIN db["host"] => Fits(k)
  PROVE  Fits(k)'
<1>1. PICK r : r = request[s]
  OBVIOUS
<1>2. Draft(r) /\ Writes(r) /\ HostRequest(r) /\ References(db)
  BY <1>1, CommitWrites DEF IInv, TypeOK
<1>3. \A x : Offers(x)' = Offers(x)
  BY <1>2, CommitKeepsSubnets DEF Offers, HostRequest
<1>4. Allowed(k)' = Offers(db'["host"][k].room)
  <2>1. PICK x : x = db'["host"][k].room
    OBVIOUS
  <2>2. Connected(db.host[k].room)' = Connected(x)'
    BY <2>1 DEF Connected
  <2>3. SubnetsOf(db.host[k].room)' = SubnetsOf(x)'
    BY <2>2 DEF SubnetsOf
  <2>4. SubnetsOf(x)' = SubnetsOf(x)
    BY <1>2, CommitKeepsSubnets DEF HostRequest
  <2>5. Allowed(k)' = UNION {Usable[n] : n \in SubnetsOf(db.host[k].room)'}
    BY DEF Allowed
  <2> QED
    BY <2>1, <2>3, <2>4, <2>5 DEF Offers
<1>5. Fits(k)' = (OldAddresses({k})' \subseteq Allowed(k)')
  BY DEF Fits
<1>6. ASSUME NEW a \in OldAddresses({k})'
      PROVE  a \in Offers(db'["host"][k].room)
  <2>1. PICK i : /\ i \in DOMAIN db'["interface"] /\ db'["interface"][i].host = k
                 /\ a \in DOMAIN db'["ip"] /\ db'["ip"][a].interface = i
    BY <1>6 DEF OldAddresses, InterfacesOf, AddressesOf
  <2>2. /\ "host" \in Columns["interface"] /\ "interface" \in Columns["ip"] /\ "room" \in Columns["host"]
        /\ "interface" \in Table /\ "ip" \in Table /\ "host" \in Table
    BY Tables DEF Columns
  <2>3. /\ i \in DOMAIN r.new["interface"] => i \notin DOMAIN db["interface"] /\ r.new["interface"][i].host = k
        /\ i \notin DOMAIN r.new["interface"] => i \in DOMAIN db["interface"] /\ db["interface"][i].host = k
    BY <1>2, <2>1, <2>2, WritesRow, NeverSet
  <2>4. /\ a \in DOMAIN r.new["ip"] => a \notin DOMAIN db["ip"] /\ r.new["ip"][a].interface = i
        /\ a \notin DOMAIN r.new["ip"] =>
             a \in DOMAIN db["ip"] /\ db["ip"][a].interface = i /\ a \notin r.drop["ip"]
    <3>1. /\ a \in DOMAIN r.new["ip"] => a \notin DOMAIN db["ip"] /\ r.new["ip"][a].interface = i
          /\ a \notin DOMAIN r.new["ip"] => a \in DOMAIN db["ip"] /\ db["ip"][a].interface = i
      BY <1>2, <2>1, <2>2, WritesRow, NeverSet
    <3>2. DOMAIN db'["ip"] = (DOMAIN db["ip"] \ Gone(r)["ip"]) \cup DOMAIN r.new["ip"]
      BY <1>2, <2>2 DEF Writes
    <3>3. r.drop["ip"] \subseteq Gone(r)["ip"]
      BY <2>2 DEF Gone
    <3> QED
      BY <2>1, <3>1, <3>2, <3>3
  <2>5. /\ k \in DOMAIN r.new["host"] => k \notin DOMAIN db["host"] /\ db'["host"][k].room = r.new["host"][k].room
        /\ k \notin DOMAIN r.new["host"] =>
             /\ k \in DOMAIN db["host"]
             /\ db'["host"][k].room = IF Sets(r, "host", k, "room") THEN r.set["host"][k]["room"]
                                      ELSE db["host"][k].room
    BY <1>2, <2>2, WritesRow
  <2>6. ASSUME NEW H, NEW x, NEW y, FitsIn(r, H, y, x)
        PROVE  a \in Offers(db'["host"][k].room)
    <3>1. k \in H \cup DOMAIN r.new["host"] => db'["host"][k].room = x
      BY <2>5, <2>6 DEF FitsIn
    <3>2. CASE a \in DOMAIN r.new["ip"]
      <4>1. a \in Offers(x) /\ Serves(r, i, H)
        BY <2>4, <2>6, <3>2 DEF FitsIn
      <4>2. k \in H \cup DOMAIN r.new["host"]
        BY <2>3, <4>1 DEF Serves, InterfacesOf
      <4> QED
        BY <3>1, <4>1, <4>2
    <3>3. CASE a \notin DOMAIN r.new["ip"]
      <4>1. i \in DOMAIN db["interface"] /\ db["interface"][i].host = k
        BY <1>2, <2>3, <2>4, <3>3 DEF References
      <4>2. k \in DOMAIN db["host"]
        BY <1>2, <4>1 DEF References
      <4>3. a \in OldAddresses({k})
        BY <2>4, <3>3, <4>1 DEF OldAddresses, InterfacesOf, AddressesOf
      <4>4. a \in Offers(db["host"][k].room)
        BY <4>2, <4>3 DEF Fits, Allowed, Offers
      <4>5. CASE k \in H
        <5>1. a \in OldAddresses(H) /\ a \notin r.drop["ip"]
          BY <2>4, <3>3, <4>3, <4>5 DEF OldAddresses
        <5>2. SubnetsOf(y) = SubnetsOf(x) /\ db["host"][k].room = y
          BY <2>6, <4>5, <5>1 DEF FitsIn
        <5> QED
          BY <3>1, <4>4, <4>5, <5>2 DEF Offers
      <4>6. CASE k \notin H
        BY <2>5, <2>6, <4>2, <4>4, <4>6 DEF FitsIn
      <4> QED
        BY <4>5, <4>6
    <3> QED
      BY <3>2, <3>3
  <2>7. CASE Plain(r)
    <3>1. a \notin DOMAIN r.new["ip"]
      BY <2>7 DEF Plain
    <3>2. i \in DOMAIN db["interface"] /\ db["interface"][i].host = k
      BY <1>2, <2>3, <2>4, <3>1 DEF References
    <3>3. k \in DOMAIN db["host"]
      BY <1>2, <3>2 DEF References
    <3>4. a \in OldAddresses({k})
      BY <2>4, <3>1, <3>2 DEF OldAddresses, InterfacesOf, AddressesOf
    <3>5. a \in Offers(db["host"][k].room)
      BY <3>3, <3>4 DEF Fits, Allowed, Offers
    <3> QED
      BY <2>5, <2>7, <3>3, <3>5 DEF Plain
  <2> QED
    BY <1>2, <2>6, <2>7 DEF HostRequest
<1> QED
  BY <1>4, <1>5, <1>6

(* in every step.                                                          *)
LEMMA NextKeepsFitting ==
  ASSUME IInv, HostInv, [Next]_rows
  PROVE  [\A s \in Session : Fresh(HostOps, s) =>
            \A h \in DOMAIN db'.host : (h \in DOMAIN db.host => Fits(h)) => Fits(h)']_rows
<1>1. ASSUME NEW s \in Session, Fresh(HostOps, s), NEW h \in DOMAIN db'.host, h \in DOMAIN db.host => Fits(h)
      PROVE  Fits(h)'
  <2>1. Commit(s) /\ request[s].fresh /\ request[s].op \in HostOps
    BY <1>1, FreshCommits
  <2>2. HostRequest(request[s])
    BY <2>1 DEF HostInv, Commit
  <2> QED
    BY <1>1, <2>1, <2>2, CommitKeepsFitting
<1> QED
  BY <1>1

(* Moving, annexing, activating and every other operation on hosts leaves  *)
(* the hosts with addresses of the rooms they are in, new ones and those   *)
(* that had such addresses before, unless the hosts or the rooms changed   *)
(* since it looked.                                                        *)
THEOREM HostsAlwaysFit == Spec => HostsKeepFitting
<1>1. Init => IInv /\ HostInv
  BY InitEstablishes DEF Init, HostInv
<1>2. IInv /\ HostInv /\ [Next]_rows => IInv' /\ HostInv'
  BY NextKeeps, HostsKeep
<1>3. IInv /\ HostInv /\ [Next]_rows =>
        [\A s \in Session : Fresh(HostOps, s) =>
           \A h \in DOMAIN db'.host : (h \in DOMAIN db.host => Fits(h)) => Fits(h)']_rows
  BY NextKeepsFitting
<1> QED
  BY <1>1, <1>2, <1>3, PTL DEF Spec, HostsKeepFitting

----------------------------------------------------------------------------
(* Blocks *)

(* The memberships that bar somebody, and requests that end none of them   *)
Blocks == {m \in Ids["membership"] : m[2] \in Barring}

Spares(r)  == r.drop["membership"] \cap Blocks = {}
Sparing(r) == Draft(r) /\ Spares(r)

SparingDecides(s) == \E op, seen, r : Sparing(r) /\ Decide(s, op, seen, r)

LEMMA SparingNothing ==
  ASSUME WellTyped(db)
  PROVE  Sparing(Nothing)
BY DraftNothing, NothingIsSet, Tables DEF Sparing, Spares

(* Inserting and updating end no membership,                               *)
LEMMA SparingWrites ==
  ASSUME NEW r, Sparing(r), NEW q, Draft(q), q.drop = r.drop
  PROVE  Sparing(q)
BY DEF Sparing, Spares

LEMMA SparingUpdate ==
  ASSUME NEW r, Sparing(r), NEW t \in Table, NEW id, NEW fields, IsChange(t, fields)
  PROVE  Sparing(Update(r, t, id, fields))
<1>1. SetsMore(Update(r, t, id, fields), r, t, {id}, fields)
  BY UpdateSets DEF Sparing
<1> QED
  BY <1>1, SparingWrites DEF SetsMore

LEMMA SparingUpdateAll ==
  ASSUME NEW r, Sparing(r), NEW t \in Table, NEW S, NEW fields, IsChange(t, fields)
  PROVE  Sparing(UpdateAll(r, t, S, fields))
<1>1. SetsMore(UpdateAll(r, t, S, fields), r, t, S, fields)
  BY UpdateAllSets DEF Sparing
<1> QED
  BY <1>1, SparingWrites DEF SetsMore

LEMMA SparingInsert ==
  ASSUME NEW r, Sparing(r), NEW t \in Table, NEW id \in Ids[t], NEW row, IsRow(t, row)
  PROVE  Sparing(Insert(r, t, id, row))
<1>1. Inserts(Insert(r, t, id, row), r, t, One(id, row))
  BY InsertInserts DEF Sparing
<1>2. Draft(Insert(r, t, id, row))
  BY DraftInsert DEF Sparing
<1> QED
  BY <1>1, <1>2, SparingWrites DEF Inserts

LEMMA SparingJoined ==
  ASSUME NEW r, Sparing(r), NEW u \in User, NEW G \in SUBSET DOMAIN Grants, NEW ends
  PROVE  Sparing(Joined(r, u, G, ends))
<1>1. PICK more : Joined(r, u, G, ends) = InsertAll(r, "membership", more)
  BY DEF Joined
<1>2. Inserts(InsertAll(r, "membership", more), r, "membership", more)
  BY InsertAllInserts, Tables DEF Sparing
<1>3. Draft(Joined(r, u, G, ends))
  BY DraftJoined DEF Sparing
<1> QED
  BY <1>1, <1>2, <1>3, SparingWrites DEF Inserts

(* and so does deleting something else,                                    *)
LEMMA SparingDelete ==
  ASSUME NEW r, Sparing(r), NEW t \in Table, NEW S, t = "membership" => S \cap Blocks = {}
  PROVE  Sparing(Delete(r, t, S))
<1>1. PICK q : q = Delete(r, t, S)
  OBVIOUS
<1>2. /\ Draft(q) /\ q.drop[t] = r.drop[t] \cup S
      /\ \A o \in Table \ {t} : q.drop[o] = r.drop[o]
  BY <1>1, DeleteIs DEF Sparing
<1>3. Spares(q)
  BY <1>2, Tables DEF Sparing, Spares
<1> QED
  BY <1>1, <1>2, <1>3 DEF Sparing

(* or memberships that moving ends.                                        *)
LEMMA SparingParted ==
  ASSUME NEW r, Sparing(r), NEW u, NEW G \in SUBSET (Config.former \cup Config.left)
  PROVE  Sparing(Parted(r, u, G))
<1>1. ({u} \X (G \cap GroupsOf(u))) \cap Blocks = {}
  BY DEF Blocks, Barring
<1> QED
  BY <1>1, SparingDelete, Tables DEF Parted

LEMMA SparingMigrated ==
  ASSUME WellTyped(db), References(db), NEW r, Sparing(r), NEW H, NEW x \in Room, NEW y,
         \A h \in H : db.host[h].room = y, NEW w \in Migrated(r, H, x)
  PROVE  Sparing(w)
<1>1. Moves(w, r, H, y, x)
  BY MigratedMoves DEF Sparing
<1> QED
  BY <1>1, Tables DEF Moves, Sparing, Spares

LEMMA SparingEdited ==
  ASSUME WellTyped(db), References(db), NEW h, NEW u, NEW x \in Room, NEW w \in EditedHost(h, u, x)
  PROVE  Sparing(w)
<1>1. PICK e : Base(e) /\ Empty(e) /\ Moves(w, e, {h}, db.host[h].room, x)
  BY EditedMoves DEF Edits
<1> QED
  BY <1>1, Tables DEF Empty, Moves, Sparing, Spares

LEMMA SparingAddressed ==
  ASSUME WellTyped(db), References(db), NEW r, Sparing(r), NEW h, NEW x, NEW mac,
         NewIds("interface") # {}, NEW w \in Addressed(r, h, x, mac)
  PROVE  Sparing(w)
<1>1. PICK a : OneMore(w, r, h, NewId("interface"), a)
  BY AddressedIs DEF Sparing
<1> QED
  BY <1>1, SparingWrites DEF OneMore, Beyond

LEMMA SparingWithHost ==
  ASSUME NEW r, Sparing(r), NEW h \in Ids["host"], NEW u, NEW x \in Room
  PROVE  Sparing(WithHost(r, h, u, x))
BY WithHostIs, SparingWrites DEF Sparing, Beyond

LEMMA SparingHoused ==
  ASSUME WellTyped(db), NEW u \in User, NEW x \in Room, NEW begin_membership
  PROVE  Sparing(Housed(u, x, begin_membership))
<1> DEFINE r == Update(Nothing, "user", u, [room |-> x])
           j == Joined(Parted(r, u, Config.former), u, Config.begun \ GroupsOf(u), FALSE)
<1>1. Sparing(r)
  BY SparingNothing, SparingUpdate, KindsOfChanges, Tables
<1> HIDE DEF r
<1>2. Sparing(j)
  BY <1>1, SparingParted, SparingJoined, NetworkAssumption
<1>3. Housed(u, x, begin_membership) \in {r, j}
  BY DEF Housed, r
<1> QED
  BY <1>1, <1>2, <1>3

(* Moving a user,                                                          *)
LEMMA MoveSpares ==
  ASSUME WellTyped(db), References(db), NEW s, NEW u, NEW x \in Room, Move(s, u, x)
  PROVE  SparingDecides(s)
<1> DEFINE from == db.user[u].room
           H == {h \in HostsOf(u) : db.host[h].room = from}
           r == Update(Nothing, "user", u, [room |-> x])
<1>1. Sparing(r)
  BY SparingNothing, SparingUpdate, KindsOfChanges, Tables
<1>2. PICK w \in IF H = {} THEN {r} ELSE Migrated(r, H, x) : \E op, seen : Decide(s, op, seen, w)
  BY DEF Move
<1>3. \A h \in H : db.host[h].room = from
  OBVIOUS
<1> HIDE DEF r, H, from
<1>4. Sparing(w)
  BY <1>1, <1>2, <1>3, SparingMigrated
<1> QED
  BY <1>2, <1>4 DEF SparingDecides

(* moving in,                                                              *)
LEMMA MovingInSpares ==
  ASSUME WellTyped(db), References(db), NEW s, NEW u \in User, NEW x \in Room, NEW begin_membership
  PROVE  /\ MoveIn(s, u, x, begin_membership) => SparingDecides(s)
         /\ \A mac : MoveInWithDevice(s, u, x, begin_membership, mac) => SparingDecides(s)
         /\ \A i : MoveInAnnexing(s, u, x, begin_membership, i) => SparingDecides(s)
<1>1. PICK r : r = Housed(u, x, begin_membership)
  OBVIOUS
<1>2. Sparing(r)
  BY <1>1, SparingHoused
<1>3. ASSUME MoveIn(s, u, x, begin_membership)
      PROVE  SparingDecides(s)
  BY <1>1, <1>2, <1>3 DEF MoveIn, SparingDecides
<1>4. ASSUME NEW mac, MoveInWithDevice(s, u, x, begin_membership, mac)
      PROVE  SparingDecides(s)
  <2>1. PICK h : h = NewId("host") /\ h \in Ids["host"]
    BY <1>4, NewIdTyped DEF MoveInWithDevice
  <2>2. PICK q : q = WithHost(r, h, u, x)
    OBVIOUS
  <2>3. PICK w \in Addressed(q, h, x, mac) : NewIds("interface") # {} /\ \E op, seen : Decide(s, op, seen, w)
    BY <1>1, <1>4, <2>1, <2>2 DEF MoveInWithDevice
  <2>4. Sparing(q)
    BY <1>2, <2>1, <2>2, SparingWithHost
  <2>5. Sparing(w)
    BY <2>3, <2>4, SparingAddressed
  <2> QED
    BY <2>3, <2>5 DEF SparingDecides
<1>5. ASSUME NEW i, MoveInAnnexing(s, u, x, begin_membership, i)
      PROVE  SparingDecides(s)
  <2>1. PICK h : h = db.interface[i].host
    OBVIOUS
  <2>2. PICK q : q = Update(r, "host", h, [owner |-> u])
    OBVIOUS
  <2>3. PICK w \in Migrated(q, {h}, x) : \E op, seen : Decide(s, op, seen, w)
    BY <1>1, <1>5, <2>1, <2>2 DEF MoveInAnnexing
  <2>4. Sparing(q)
    BY <1>2, <2>2, SparingUpdate, KindsOfChanges, Tables
  <2>5. Sparing(w)
    <3>1. \A k \in {h} : db.host[k].room = db.host[h].room
      OBVIOUS
    <3> QED
      BY <2>3, <2>4, <3>1, SparingMigrated
  <2> QED
    BY <2>3, <2>5 DEF SparingDecides
<1> QED
  BY <1>3, <1>4, <1>5

(* blocking and moving out spare those who are blocked,                    *)
LEMMA LeavingSpares ==
  ASSUME WellTyped(db), NEW s, NEW u \in User
  PROVE  /\ \A violation, ends : Block(s, u, violation, ends) => SparingDecides(s)
         /\ \A end_membership : MoveOut(s, u, end_membership) => SparingDecides(s)
<1>1. ASSUME NEW violation, NEW ends, Block(s, u, violation, ends)
      PROVE  SparingDecides(s)
  <2>1. {IF violation THEN Config.violation ELSE Config.blocked} \in SUBSET DOMAIN Grants
    BY NetworkAssumption
  <2>2. Sparing(Suspended(u, violation, ends))
    BY <2>1, SparingNothing, SparingJoined DEF Suspended
  <2> QED
    BY <1>1, <2>2 DEF Block, SparingDecides
<1>2. ASSUME NEW end_membership, MoveOut(s, u, end_membership)
      PROVE  SparingDecides(s)
  <2> DEFINE H == {h \in HostsOf(u) : /\ h \notin DOMAIN db.switch
                                      /\ db.host[h].room = db.user[u].room \/ end_membership}
             r == Delete(Nothing, "host", H)
             o == IF db.user[u].room = None THEN r ELSE Update(r, "user", u, [room |-> None])
             w == IF end_membership THEN Parted(o, u, Config.left) ELSE o
  <2>1. Sparing(r)
    BY SparingNothing, SparingDelete, Tables
  <2>2. Sparing(o)
    <3> HIDE DEF r
    <3> QED
      BY <2>1, SparingUpdate, KindsOfChanges, Tables
  <2>3. Sparing(w)
    <3> HIDE DEF o
    <3> QED
      BY <2>2, SparingParted
  <2>4. \E op, seen : Decide(s, op, seen, w)
    BY <1>2 DEF MoveOut
  <2> HIDE DEF w
  <2> QED
    BY <2>3, <2>4 DEF SparingDecides
<1> QED
  BY <1>1, <1>2

(* and so do the pages of hosts,                                           *)
LEMMA HostsSpare ==
  ASSUME WellTyped(db), References(db), NEW s
  PROVE  /\ \A u : \A x \in Room : HostCreate(s, u, x) => SparingDecides(s)
         /\ \A h : HostDelete(s, h) => SparingDecides(s)
         /\ \A h, u : \A x \in Room : HostEdit(s, h, u, x) => SparingDecides(s)
         /\ \A u \in Users : \A mac : Activate(s, u, mac) => SparingDecides(s)
<1>1. ASSUME NEW u, NEW x \in Room, HostCreate(s, u, x)
      PROVE  SparingDecides(s)
  <2>1. NewId("host") \in Ids["host"]
    BY <1>1, NewIdTyped DEF HostCreate
  <2>2. Sparing(WithHost(Nothing, NewId("host"), u, x))
    BY <2>1, SparingNothing, SparingWithHost
  <2> QED
    BY <1>1, <2>2 DEF HostCreate, SparingDecides
<1>2. ASSUME NEW h, HostDelete(s, h)
      PROVE  SparingDecides(s)
  <2>1. Sparing(WithoutHost(h))
    BY SparingNothing, SparingDelete, Tables DEF WithoutHost
  <2> QED
    BY <1>2, <2>1 DEF HostDelete, SparingDecides
<1>3. ASSUME NEW h, NEW u, NEW x \in Room, HostEdit(s, h, u, x)
      PROVE  SparingDecides(s)
  BY <1>3, SparingEdited DEF HostEdit, SparingDecides
<1>4. ASSUME NEW u \in Users, NEW mac, Activate(s, u, mac)
      PROVE  SparingDecides(s)
  <2> DEFINE x == db.user[u].room
  <2>1. NewIds("interface") # {} /\ x # None
    BY <1>4 DEF Activate
  <2>2. x \in Room
    BY <2>1, Tables DEF Users, WellTyped, IsRow, IsValue, Columns
  <2> HIDE DEF x
  <2>3. \E h, r : Sparing(r) /\ \E w \in Addressed(r, h, x, mac) : \E op, seen : Decide(s, op, seen, w)
    <3>1. ASSUME NewIds("host") # {},
                 \E w \in Addressed(WithHost(Nothing, NewId("host"), u, x), NewId("host"), x, mac) :
                   \E op, seen : Decide(s, op, seen, w)
          PROVE  \E h, r : Sparing(r) /\ \E w \in Addressed(r, h, x, mac) : \E op, seen : Decide(s, op, seen, w)
      <4>1. NewId("host") \in Ids["host"]
        BY <3>1, NewIdTyped
      <4>2. Sparing(WithHost(Nothing, NewId("host"), u, x))
        BY <2>2, <4>1, SparingNothing, SparingWithHost
      <4> QED
        BY <3>1, <4>2
    <3>2. ASSUME NEW h, NEW r \in EditedHost(h, u, x),
                 \E w \in Addressed(r, h, x, mac) : \E op, seen : Decide(s, op, seen, w)
          PROVE  \E g, q : Sparing(q) /\ \E w \in Addressed(q, g, x, mac) : \E op, seen : Decide(s, op, seen, w)
      <4>1. Sparing(r)
        BY <2>2, SparingEdited
      <4> QED
        BY <3>2, <4>1
    <3> QED
      BY <1>4, <3>1, <3>2 DEF Activate, x
  <2>4. PICK h, r : Sparing(r) /\ \E w \in Addressed(r, h, x, mac) : \E op, seen : Decide(s, op, seen, w)
    BY <2>3
  <2>5. PICK w \in Addressed(r, h, x, mac) : \E op, seen : Decide(s, op, seen, w)
    BY <2>4
  <2>6. Sparing(w)
    BY <2>1, <2>4, <2>5, SparingAddressed
  <2> QED
    BY <2>5, <2>6 DEF SparingDecides
<1> QED
  BY <1>1, <1>2, <1>3, <1>4

(* So does everything else.                                                *)
LEMMA InterfacesSpare ==
  ASSUME WellTyped(db), NEW s, Interfacing(s)
  PROVE  SparingDecides(s)
<1>1. ASSUME NEW h, NEW mac, NEW A \in SUBSET Address, InterfaceCreate(s, h, mac, A)
      PROVE  SparingDecides(s)
  <2>1. PICK i : i = NewId("interface") /\ i \in Ids["interface"]
    BY <1>1, NewIdTyped DEF InterfaceCreate
  <2>2. PICK q : q = WithInterface(Nothing, h, i, mac)
    OBVIOUS
  <2>3. PICK w : w = WithAddresses(q, i, A)
    OBVIOUS
  <2>4. \E op, seen : Decide(s, op, seen, w)
    BY <1>1, <2>1, <2>2, <2>3 DEF InterfaceCreate
  <2>5. Sparing(q)
    <3>1. Draft(Nothing) /\ Sparing(Nothing)
      BY SparingNothing DEF Sparing
    <3>2. Beyond(q, Nothing, {"interface"})
      BY <2>1, <2>2, <3>1, WithInterfaceIs
    <3>3. Draft(q) /\ q.drop = Nothing.drop
      BY <3>2 DEF Beyond
    <3> QED
      BY <3>1, <3>3, SparingWrites
  <2>6. Sparing(w)
    <3>1. Draft(w) /\ w.drop = q.drop
      BY <2>3, <2>5, WithAddressesIs DEF Sparing, Beyond
    <3> QED
      BY <2>5, <3>1, SparingWrites
  <2> QED
    BY <2>4, <2>6 DEF SparingDecides
<1>2. ASSUME NEW i, NEW mac, NEW A \in SUBSET Address, InterfaceEdit(s, i, mac, A)
      PROVE  SparingDecides(s)
  <2> DEFINE r   == Update(Nothing, "interface", i, [mac |-> mac])
             old == AddressesOf(i)
             in  == UNION {Usable[n] : n \in SubnetsOf(db.host[db.interface[i].host].room)}
  <2>1. Sparing(r)
    BY SparingNothing, SparingUpdate, KindsOfChanges, Tables
  <2>2. PICK w : w = WithAddresses(Delete(r, "ip", old \ A), i, (A \ old) \cap in)
    OBVIOUS
  <2>3. \E op, seen : Decide(s, op, seen, w)
    BY <1>2, <2>2 DEF InterfaceEdit, EditedInterface
  <2>4. (A \ old) \cap in \in SUBSET Address
    OBVIOUS
  <2> HIDE DEF r, old, in
  <2>5. Sparing(Delete(r, "ip", old \ A))
    BY <2>1, SparingDelete, Tables
  <2>6. Sparing(w)
    <3>1. PICK d : d = Delete(r, "ip", old \ A)
      OBVIOUS
    <3>2. Draft(w) /\ w.drop = d.drop
      BY <2>2, <2>4, <2>5, <3>1, WithAddressesIs DEF Sparing, Beyond
    <3> QED
      BY <2>5, <3>1, <3>2, SparingWrites
  <2> QED
    BY <2>3, <2>6 DEF SparingDecides
<1>3. ASSUME NEW i, NEW mac, ChangeMac(s, i, mac)
      PROVE  SparingDecides(s)
  <2>1. Sparing(WithMac(i, mac))
    BY SparingNothing, SparingUpdate, KindsOfChanges, Tables DEF WithMac
  <2> QED
    BY <1>3, <2>1 DEF ChangeMac, SparingDecides
<1>4. ASSUME NEW i, InterfaceDelete(s, i)
      PROVE  SparingDecides(s)
  <2>1. Sparing(WithoutInterface(i))
    BY SparingNothing, SparingDelete, Tables DEF WithoutInterface
  <2> QED
    BY <1>4, <2>1 DEF InterfaceDelete, SparingDecides
<1> QED
  BY <1>1, <1>2, <1>3, <1>4 DEF Interfacing

LEMMA MpsksSpare ==
  ASSUME WellTyped(db), NEW s, Mpsk(s)
  PROVE  SparingDecides(s)
<1>1. ASSUME NEW u, NEW mac, NewIds("mpsk") # {}
      PROVE  Sparing(WithMpsk(u, mac))
  <2>1. NewId("mpsk") \in Ids["mpsk"]
    BY <1>1, NewIdTyped
  <2> QED
    BY <2>1, SparingNothing, SparingInsert, KindsOfRows, Tables DEF WithMpsk
<1>2. ASSUME NEW c, NEW mac
      PROVE  Sparing(EditedMpsk(c, mac)) /\ Sparing(WithoutMpsk(c))
  BY SparingNothing, SparingUpdate, SparingDelete, KindsOfChanges, Tables DEF EditedMpsk, WithoutMpsk
<1>3. ASSUME NEW u, NEW mac, MpskAdd(s, u, mac) \/ MpskCreate(s, u, mac)
      PROVE  SparingDecides(s)
  BY <1>1, <1>3 DEF MpskAdd, MpskCreate, SparingDecides
<1>4. ASSUME NEW c, NEW mac, MpskEdit(s, c, mac) \/ MpskChange(s, c, mac)
      PROVE  SparingDecides(s)
  BY <1>2, <1>4 DEF MpskEdit, MpskChange, SparingDecides
<1>5. ASSUME NEW c, MpskDelete(s, c) \/ MpskRemove(s, c)
      PROVE  SparingDecides(s)
  BY <1>2, <1>5 DEF MpskDelete, MpskRemove, SparingDecides
<1> QED
  BY <1>3, <1>4, <1>5 DEF Mpsk

LEMMA PatchesSpare ==
  ASSUME WellTyped(db), NEW s, Patching(s)
  PROVE  SparingDecides(s)
<1>1. ASSUME NEW name, NEW x \in Room, NEW y \in Room, PatchPortCreate(s, name, x, y)
      PROVE  SparingDecides(s)
  <2>1. NewId("patch_port") \in Ids["patch_port"]
    BY <1>1, NewIdTyped DEF PatchPortCreate
  <2>2. Sparing(NewPatchPort(name, x, y))
    BY <2>1, SparingNothing, SparingInsert, KindsOfRows, Tables DEF NewPatchPort
  <2> QED
    BY <1>1, <2>2 DEF PatchPortCreate, SparingDecides
<1>2. ASSUME NEW q, PatchPortDelete(s, q)
      PROVE  SparingDecides(s)
  <2>1. Sparing(WithoutPatchPort(q))
    BY SparingNothing, SparingDelete, Tables DEF WithoutPatchPort
  <2> QED
    BY <1>2, <2>1 DEF PatchPortDelete, SparingDecides
<1>3. ASSUME NEW q, NEW name, NEW x \in Room, PatchPortEdit(s, q, name, x)
      PROVE  SparingDecides(s)
  <2>1. Sparing(EditedPatchPort(q, name, x))
    BY SparingNothing, SparingUpdate, KindsOfChanges, Tables DEF EditedPatchPort
  <2> QED
    BY <1>3, <2>1 DEF PatchPortEdit, SparingDecides
<1> QED
  BY <1>1, <1>2, <1>3 DEF Patching

LEMMA SparingPatched ==
  ASSUME NEW r, Sparing(r), NEW p, NEW q
  PROVE  Sparing(Patched(r, p, q))
BY SparingUpdate, KindsOfChanges, Tables DEF Patched

LEMMA PortsSpare ==
  ASSUME WellTyped(db), NEW s, NEW subnets \in Seq(Subnet), NEW q
  PROVE  /\ \A w : SwitchPortCreate(s, w, subnets, q) => SparingDecides(s)
         /\ \A p : SwitchPortEdit(s, p, subnets, q) => SparingDecides(s)
<1>1. ASSUME NEW w, SwitchPortCreate(s, w, subnets, q)
      PROVE  SparingDecides(s)
  <2>1. PICK p : p = NewId("switch_port") /\ p \in Ids["switch_port"]
    BY <1>1, NewIdTyped DEF SwitchPortCreate
  <2>2. PICK r : r = NewPort(p, w, subnets)
    OBVIOUS
  <2>3. \E op, seen : Decide(s, op, seen, Patched(r, p, q))
    BY <1>1, <2>1, <2>2 DEF SwitchPortCreate
  <2>4. Sparing(r)
    BY <2>1, <2>2, SparingNothing, SparingInsert, KindsOfRows, Tables DEF NewPort
  <2> QED
    BY <2>3, <2>4, SparingPatched DEF SparingDecides
<1>2. ASSUME NEW p, SwitchPortEdit(s, p, subnets, q)
      PROVE  SparingDecides(s)
  <2> DEFINE old == {o \in DOMAIN db.patch_port : db.patch_port[o].switch_port = p}
             r   == EditedPort(p, subnets)
             w   == Patched(Unpatched(r, old), p, q)
  <2>1. (\E op, seen : Decide(s, op, seen, r)) \/ (\E op, seen : Decide(s, op, seen, w))
    BY <1>2 DEF SwitchPortEdit
  <2>2. Sparing(r)
    BY SparingNothing, SparingUpdate, KindsOfChanges, Tables DEF EditedPort
  <2> HIDE DEF r, old
  <2>3. Sparing(w)
    <3>1. Sparing(Unpatched(r, old))
      BY <2>2, SparingUpdateAll, KindsOfChanges, Tables DEF Unpatched
    <3> QED
      BY <3>1, SparingPatched
  <2> HIDE DEF w
  <2> QED
    BY <2>1, <2>2, <2>3 DEF SparingDecides
<1> QED
  BY <1>1, <1>2

LEMMA SwitchesSpare ==
  ASSUME WellTyped(db), NEW s, Switching(s)
  PROVE  SparingDecides(s)
<1>1. ASSUME NEW x \in Room, SwitchCreate(s, x)
      PROVE  SparingDecides(s)
  <2>1. PICK w : w = NewId("host") /\ w \in Ids["host"] /\ w \in Ids["switch"]
    BY <1>1, NewIdTyped, NetworkAssumption DEF SwitchCreate
  <2>2. \E op, seen : Decide(s, op, seen, NewSwitch(w, x))
    BY <1>1, <2>1 DEF SwitchCreate
  <2>3. Sparing(NewSwitch(w, x))
    BY <2>1, SparingNothing, SparingWithHost, SparingInsert, KindsOfRows, Tables DEF NewSwitch
  <2> QED
    BY <2>2, <2>3 DEF SparingDecides
<1>2. ASSUME NEW w, NEW x \in Room, SwitchEdit(s, w, x)
      PROVE  SparingDecides(s)
  <2>1. Sparing(EditedSwitch(w, x))
    BY SparingNothing, SparingUpdate, KindsOfChanges, Tables DEF EditedSwitch
  <2> QED
    BY <1>2, <2>1 DEF SwitchEdit, SparingDecides
<1>3. ASSUME NEW w, SwitchDelete(s, w)
      PROVE  SparingDecides(s)
  <2>1. Sparing(WithoutSwitch(w))
    BY SparingNothing, SparingDelete, Tables DEF WithoutSwitch
  <2> QED
    BY <1>3, <2>1 DEF SwitchDelete, SparingDecides
<1>4. ASSUME NEW p, SwitchPortDelete(s, p)
      PROVE  SparingDecides(s)
  <2>1. Sparing(WithoutPort(p))
    BY SparingNothing, SparingDelete, Tables DEF WithoutPort
  <2> QED
    BY <1>4, <2>1 DEF SwitchPortDelete, SparingDecides
<1>5. \A subnets \in {<< >>} \cup {<<n>> : n \in Subnet} : subnets \in Seq(Subnet)
  <2>1. << >> \in Seq(Subnet)
    OBVIOUS
  <2>2. ASSUME NEW n \in Subnet
        PROVE  <<n>> \in Seq(Subnet)
    OBVIOUS
  <2> QED
    BY <2>1, <2>2
<1> QED
  BY <1>1, <1>2, <1>3, <1>4, <1>5, PortsSpare DEF Switching

(* A pending request spares the blocked, or unblocks the one it saw.       *)
Frees(r) ==
  /\ r.op = "unblock"
  /\ \E u \in User : UserKey(u) \in r.seen /\ \A m \in r.drop["membership"] : m[1] = u

BlockInv == \A s \in Session : request[s] # None => Spares(request[s]) \/ Frees(request[s])

LEMMA HostingSpares ==
  ASSUME WellTyped(db), References(db), NEW s, Hosting(s)
  PROVE  SparingDecides(s) \/ \E u \in User : Unblock(s, u)
<1>1. \A u \in Users : u \in User
  BY DEF Users
<1>2. ASSUME NEW u \in Users, NEW x \in Room, NEW b, NEW mac, NEW i, NEW a,
             \/ Move(s, u, x) \/ MoveIn(s, u, x, b) \/ MoveInWithDevice(s, u, x, b, mac)
             \/ MoveInAnnexing(s, u, x, b, i) \/ HostCreate(s, u, x)
      PROVE  SparingDecides(s)
  BY <1>1, <1>2, MoveSpares, MovingInSpares, HostsSpare
<1>3. ASSUME NEW u \in Users, NEW a, NEW b, NEW mac,
             Block(s, u, a, b) \/ MoveOut(s, u, a) \/ Activate(s, u, mac)
      PROVE  SparingDecides(s)
  BY <1>1, <1>3, LeavingSpares, HostsSpare
<1>4. ASSUME NEW h, NEW u, NEW x \in Room, HostDelete(s, h) \/ HostEdit(s, h, u, x)
      PROVE  SparingDecides(s)
  BY <1>4, HostsSpare
<1>5. ASSUME NEW h, HostDelete(s, h)
      PROVE  SparingDecides(s)
  BY <1>5, HostsSpare
<1> QED
  BY <1>1, <1>2, <1>3, <1>4, <1>5 DEF Hosting

(* So it is when it begins,                                                *)
LEMMA BeginSpares ==
  ASSUME IInv, NEW s \in Session, Begin(s)
  PROVE  Spares(request'[s]) \/ Frees(request'[s])
<1>1. WellTyped(db) /\ References(db) /\ DOMAIN request = Session
  BY DEF IInv, TypeOK
<1>2. SparingDecides(s) \/ \E u \in User : Unblock(s, u)
  BY <1>1, HostingSpares, InterfacesSpare, MpsksSpare, PatchesSpare, SwitchesSpare DEF Begin
<1>3. CASE SparingDecides(s)
  <2>1. PICK op, seen, r : Sparing(r) /\ Decide(s, op, seen, r)
    BY <1>3 DEF SparingDecides
  <2>2. request'[s].drop = r.drop
    BY <1>1, <2>1, DecidedIs DEF Sparing
  <2> QED
    BY <2>1, <2>2 DEF Sparing, Spares
<1>4. ASSUME NEW u \in User, Unblock(s, u)
      PROVE  Frees(request'[s])
  <2> DEFINE S == {u} \X (Config.barred \cap GroupsOf(u))
  <2>1. PICK r : r = Delete(Nothing, "membership", S)
    OBVIOUS
  <2>2. Decide(s, "unblock", {UserKey(u)}, r)
    BY <1>4, <2>1 DEF Unblock, Resumed, Parted
  <2>3. \A m \in S : m[1] = u
    OBVIOUS
  <2> HIDE DEF S
  <2>4. Draft(r) /\ r.drop["membership"] = S
    <3>1. Nothing.drop["membership"] = {} /\ Draft(Nothing) /\ "membership" \in Table
      BY <1>1, DraftNothing, NothingIsSet, Tables
    <3>2. PICK n : n = Nothing
      OBVIOUS
    <3>3. PICK T : T = S
      OBVIOUS
    <3>4. PICK t \in Table : t = "membership"
      BY <3>1
    <3>5. Draft(n)
      BY <3>1, <3>2
    <3>6. r = Delete(n, t, T)
      BY <2>1, <3>2, <3>3, <3>4
    <3>7. Draft(r) /\ r.drop[t] = n.drop[t] \cup T
      BY <3>5, <3>6, DeleteIs
    <3> QED
      BY <3>1, <3>2, <3>3, <3>4, <3>7
  <2>5. /\ request'[s].op = "unblock" /\ request'[s].seen = {UserKey(u)}
        /\ request'[s].drop = r.drop
    BY <1>1, <2>2, <2>4, DecidedIs
  <2> QED
    BY <2>3, <2>4, <2>5 DEF Frees
<1> QED
  BY <1>2, <1>3, <1>4

(* and as long as it is pending.                                           *)
LEMMA BlocksKeep ==
  ASSUME IInv, BlockInv, [Next]_rows
  PROVE  BlockInv'
<1>1. SUFFICES ASSUME NEW s \in Session, request'[s] # None
               PROVE  (Spares(request[s]) \/ Frees(request[s]))'
  BY DEF BlockInv
<1>2. PICK w : w = request'[s]
  OBVIOUS
<1>3. SUFFICES Spares(w) \/ Frees(w)
  <2>1. Blocks' = Blocks /\ \A u : UserKey(u)' = UserKey(u)
    BY DEF Blocks, Barring, UserKey
  <2> QED
    BY <1>2, <2>1 DEF Spares, Frees
<1>4. ASSUME request[s] # None, w.op = request[s].op, w.seen = request[s].seen, w.drop = request[s].drop
      PROVE  Spares(w) \/ Frees(w)
  BY <1>4 DEF BlockInv, Spares, Frees
<1>5. ASSUME NEW o, NEW keys, request' = Overtaken(o, keys)
      PROVE  Spares(w) \/ Frees(w)
  <2> DEFINE b == request[s].fresh /\ request[s].seen \cap keys = {}
             r == request[s]
  <2>1. r # None /\ w = [r EXCEPT !.fresh = b]
    BY <1>1, <1>2, <1>5 DEF Overtaken
  <2>2. Shape(r) /\ b \in BOOLEAN
    BY <2>1 DEF IInv, PendingSound, Sound, Draft
  <2>3. w.op = r.op /\ w.seen = r.seen /\ w.drop = r.drop
    <3> HIDE DEF r, b
    <3> QED
      BY <2>1, <2>2, ShapeFresh
  <2> QED
    BY <1>4, <2>1, <2>3
<1>6. ASSUME NEW o \in Session, Begin(o)
      PROVE  Spares(w) \/ Frees(w)
  <2>1. CASE o = s
    BY <1>2, <1>6, <2>1, BeginSpares
  <2>2. CASE o # s
    <3>1. Decides(o)
      BY <1>6, HostingDecides, InterfacingDecides, MpskDecides, PatchingDecides,
         SwitchingDecides DEF Begin, IInv, TypeOK
    <3>2. request'[s] = request[s]
      BY <2>2, <3>1 DEF Decides, Decide, Pending, IInv
    <3> QED
      BY <1>1, <1>2, <1>4, <3>2
  <2> QED
    BY <2>1, <2>2
<1>7. ASSUME NEW o \in Session, Abandon(o)
      PROVE  Spares(w) \/ Frees(w)
  BY <1>1, <1>2, <1>4, <1>7 DEF Abandon, IInv
<1>8. ASSUME NEW o \in Session, Commit(o)
      PROVE  Spares(w) \/ Frees(w)
  BY <1>5, <1>8 DEF Commit
<1>9. ASSUME NEW m \in DOMAIN db.membership, Expire(m)
      PROVE  Spares(w) \/ Frees(w)
  BY <1>5, <1>9 DEF Expire
<1>10. CASE UNCHANGED rows
  BY <1>1, <1>2, <1>4, <1>10 DEF rows
<1> QED
  BY <1>6, <1>7, <1>8, <1>9, <1>10 DEF Next

(* Who is in a group that denies network access is cut off by both, who    *)
(* has a property that blocks by RADIUS.                                   *)
Cuts ==
  \A u \in User, g \in DOMAIN Grants : <<u, g>> \in DOMAIN db["membership"] =>
    /\ Denies(g) \/ Blocked(u) => LedAway(u)
    /\ Denies(g) => Unserved(u)

LEMMA MembersAreCut == Cuts
<1>1. ASSUME NEW u \in User, NEW g \in DOMAIN Grants, <<u, g>> \in DOMAIN db["membership"]
      PROVE  /\ Denies(g) \/ Blocked(u) => LedAway(u)
             /\ Denies(g) => Unserved(u)
  <2>1. Denies(g) => ~ MayUse(u)
    <3>1. SUFFICES ASSUME Denies(g) PROVE P!Flags(Grants, GroupsOf(u), "network_access") # {TRUE}
      BY DEF MayUse, Has, P!Granted
    <3>2. g \in GroupsOf(u)
      BY <1>1 DEF GroupsOf
    <3>3. FALSE \in P!Flags(Grants, GroupsOf(u), "network_access")
      BY <3>1, <3>2 DEF Denies, P!Flags
    <3> QED
      BY <3>3
  <2>2. \A i \in DevicesOf(u) : OwnerOf(i) = u
    BY DEF DevicesOf, InterfacesOf, HostsOf, OwnerOf
  <2>3. ASSUME ~ MayUse(u) \/ Blocked(u), NEW i \in DevicesOf(u), NEW p \in Ports, At(i, p)
        PROVE  Answer(i, p) = {Unauth}
    BY <2>2, <2>3, BlockedAnswer, RefusedAnswer
  <2>4. ~ MayUse(u) => Unserved(u)
    BY <2>2 DEF Unserved, dhcphost, alternative_dns
  <2> QED
    BY <2>1, <2>3, <2>4 DEF LedAway
<1> QED
  BY <1>1 DEF Cuts

(* What a step leaves of a block                                           *)
LEMMA NextKeepsBlocks ==
  ASSUME IInv, BlockInv, [Next]_rows, Cuts'
  PROVE  [\A u \in User, g \in Barring : <<u, g>> \in DOMAIN db.membership =>
            \/ /\ <<u, g>> \in DOMAIN db'.membership
               /\ Denies(g) \/ Blocked(u)' => LedAway(u)'
               /\ Denies(g) => Unserved(u)'
            \/ Unblocks(u)
            \/ db.membership[<<u, g>>].ends /\ NobodyCommits]_rows
<1>1. SUFFICES ASSUME NEW u \in User, NEW g \in Barring, <<u, g>> \in DOMAIN db.membership
               PROVE  \/ <<u, g>> \in DOMAIN db'.membership
                      \/ Unblocks(u)
                      \/ db.membership[<<u, g>>].ends /\ NobodyCommits
  <2>1. ASSUME NEW u \in User, NEW g \in Barring, <<u, g>> \in DOMAIN db'.membership
        PROVE  /\ Denies(g) \/ Blocked(u)' => LedAway(u)'
               /\ Denies(g) => Unserved(u)'
    <3>1. g \in DOMAIN Grants
      BY NetworkAssumption DEF Barring
    <3>2. (DOMAIN Grants)' = DOMAIN Grants /\ Denies(g)' = Denies(g)
      BY DEF Denies
    <3> QED
      BY <2>1, <3>1, <3>2 DEF Cuts
  <2> QED
    BY <2>1
<1> DEFINE m == <<u, g>>
<1>2. m \in Blocks /\ m[1] = u
  BY <1>1, NetworkAssumption, Tables DEF Blocks, IInv, TypeOK, WellTyped
<1>3. ASSUME NEW s \in Session, Commit(s)
      PROVE  m \in DOMAIN db'.membership \/ Unblocks(u)
  <2>1. PICK r : r = request[s]
    OBVIOUS
  <2>2. r # None /\ Writes(r)
    BY <1>3, <2>1, CommitWrites DEF Commit
  <2>3. DOMAIN db'["membership"] = (DOMAIN db["membership"] \ r.drop["membership"]) \cup DOMAIN r.new["membership"]
    BY <2>2, Tables DEF Writes, Gone
  <2>4. CASE Spares(r)
    BY <1>1, <1>2, <2>3, <2>4 DEF Spares
  <2>5. CASE Frees(r)
    <3>1. PICK v \in User : UserKey(v) \in r.seen /\ \A o \in r.drop["membership"] : o[1] = v
      BY <2>5 DEF Frees
    <3>2. CASE v = u
      <4>1. request'[s] = None
        BY <1>3 DEF Commit, Overtaken
      <4> QED
        BY <2>1, <2>2, <2>5, <3>1, <3>2, <4>1 DEF Unblocks, Frees
    <3>3. CASE v # u
      BY <1>1, <1>2, <2>3, <3>1, <3>3
    <3> QED
      BY <3>2, <3>3
  <2> QED
    BY <2>1, <2>2, <2>4, <2>5 DEF BlockInv
<1>4. ASSUME NEW o \in DOMAIN db.membership, Expire(o)
      PROVE  m \in DOMAIN db'.membership \/ (db.membership[m].ends /\ NobodyCommits)
  <2>1. /\ db' = [db EXCEPT !.membership = [k \in DOMAIN @ \ {o} |-> @[k]]]
        /\ db.membership[o].ends /\ request' = Overtaken(None, {UserKey(o[1])})
    BY <1>4 DEF Expire
  <2>2. DOMAIN db'["membership"] = DOMAIN db["membership"] \ {o}
    BY <2>1, Tables DEF IInv, TypeOK, WellTyped
  <2>3. NobodyCommits
    <3>1. ASSUME NEW s \in Session, request[s] # None
          PROVE  request'[s] \in {request[s], [request[s] EXCEPT !.fresh = FALSE]}
      <4> DEFINE r == request[s]
                 b == r.fresh /\ r.seen \cap {UserKey(o[1])} = {}
      <4>1. s # None
        BY NetworkAssumption
      <4>2. request'[s] = [r EXCEPT !.fresh = b]
        BY <2>1, <3>1, <4>1 DEF Overtaken
      <4>3. Shape(r)
        BY <3>1 DEF IInv, PendingSound, Sound, Draft
      <4>4. CASE b
        <5>1. r = [r EXCEPT !.fresh = TRUE]
          <6> HIDE DEF r
          <6> QED
            BY <4>3, <4>4 DEF Shape, b
        <5> QED
          BY <4>2, <4>4, <5>1
      <4>5. CASE ~ b
        BY <4>2, <4>5
      <4> QED
        BY <4>4, <4>5
    <3> QED
      BY <3>1 DEF NobodyCommits
  <2> QED
    BY <1>1, <2>1, <2>2, <2>3
<1>5. ASSUME db' = db
      PROVE  m \in DOMAIN db'.membership
  BY <1>1, <1>5
<1>6. ASSUME NEW s \in Session, Begin(s)
      PROVE  db' = db
  <2>1. Decides(s)
    BY <1>6, HostingDecides, InterfacingDecides, MpskDecides, PatchingDecides,
       SwitchingDecides DEF Begin, IInv, TypeOK
  <2> QED
    BY <2>1 DEF Decides, Decide
<1> QED
  BY <1>3, <1>4, <1>5, <1>6 DEF Next, Abandon, rows

(* A block lasts until somebody unblocks this very user or its time has    *)
(* come, however requests overlap; until then RADIUS leads the devices of  *)
(* the user away, and DHCP has no address for them if the group denies     *)
(* network access.                                                         *)
THEOREM BlocksAlwaysHold == Spec => BlocksHold
<1>1. Init => IInv /\ BlockInv
  BY InitEstablishes DEF Init, BlockInv
<1>2. IInv /\ BlockInv /\ [Next]_rows => IInv' /\ BlockInv'
  BY NextKeeps, BlocksKeep
<1>3. IInv /\ BlockInv /\ [Next]_rows /\ Cuts' =>
        [\A u \in User, g \in Barring : <<u, g>> \in DOMAIN db.membership =>
           \/ /\ <<u, g>> \in DOMAIN db'.membership
              /\ Denies(g) \/ Blocked(u)' => LedAway(u)'
              /\ Denies(g) => Unserved(u)'
           \/ Unblocks(u)
           \/ db.membership[<<u, g>>].ends /\ NobodyCommits]_rows
  BY NextKeepsBlocks
<1>4. Cuts
  BY MembersAreCut
<1> QED
  BY <1>1, <1>2, <1>3, <1>4, PTL DEF Spec, BlocksHold
=============================================================================
