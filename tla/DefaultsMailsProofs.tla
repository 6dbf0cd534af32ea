------------------------ MODULE DefaultsMailsProofs ------------------------
(***************************************************************************)
(* The block comes before the end of the membership, and the week of grace *)
(* is kept, whatever the fees, the days and the bookings are; and both are *)
(* as late as the deadlines of the fees say, since a debt is as old as the *)
(* sum of the account is positive, which is computed day by day.           *)
(* A mail goes out once however often its task is tried, and a scrubbing   *)
(* spares whoever has come back as a member.                               *)
(***************************************************************************)
EXTENDS Defaults, Mails, FiniteSetTheorems, WellFoundedInduction, TLAPS

(* The fees are what was entered, and the day is a day.                    *)
FeesEntered == fees \subseteq FeeForm /\ today \in Day

(* Fees come from the forms (create and edit) and are never anything else. *)
LEMMA FeesStayEntered == Spec => []FeesEntered
<1>1. Init => FeesEntered
  BY DayAssumption DEF Init, FeesEntered, Day
<1>2. FeesEntered /\ [Next]_vars => FeesEntered'
  <2> SUFFICES ASSUME FeesEntered, [Next]_vars PROVE FeesEntered'
    OBVIOUS
  <2>1. CASE \E f \in FeeForm : CreateFee(f) \/ \E g \in FeeForm : EditFee(g, f)
    BY <2>1 DEF FeesEntered, CreateFee, EditFee
  <2>2. CASE UNCHANGED vars
    BY <2>2 DEF FeesEntered, vars
  <2>3. CASE NextDay
    BY <2>3, DayAssumption DEF FeesEntered, NextDay, account, Day
  <2>6. CASE Unblock \/ MoveIn \/ MoveOut
    BY <2>6 DEF FeesEntered, Unblock, MoveIn, MoveOut, account
  <2>4. CASE \E d \in Day : Charge(d) \/ \E amount \in 1 .. 2 : Pay(d, amount)
    BY <2>4 DEF FeesEntered, Charge, Pay
  <2>5. CASE \E ticked \in SUBSET {"block", "end"} : HandleDefaults(ticked)
    BY <2>5 DEF FeesEntered, HandleDefaults, account
  <2> QED
    BY <2>1, <2>2, <2>3, <2>4, <2>5, <2>6 DEF Next
<1> QED
  BY <1>1, <1>2, PTL DEF Spec

(* What the page may find for a debt is one of the fees. *)
LEMMA DefaultFee ==
  ASSUME NEW since, NEW fee \in FeesOfDefault(since) PROVE fee \in fees
  BY DEF FeesOfDefault, FeesFor, LastApplied

(* Only a request that handles defaults logs the end of a membership. *)
LEMMA OnlyHandlingEnds ==
  ASSUME [Next]_vars, ended' # ended
  PROVE  \E ticked \in SUBSET {"block", "end"} : HandleDefaults(ticked)
  BY DEF Next, vars, groups, NextDay, Unblock, MoveIn, MoveOut, Charge, Pay, CreateFee, EditFee

(* Only a request that handles defaults opens an interval of the group. *)
LEMMA OnlyHandlingBlocks ==
  ASSUME [Next]_vars, ~ InPid, InPid'
  PROVE  \E ticked \in SUBSET {"block", "end"} : HandleDefaults(ticked)
  BY DEF Next, vars, groups, NextDay, Unblock, MoveIn, MoveOut, Charge, Pay, CreateFee, EditFee, InPid

(* What a request ends or begins was offered by the same request. *)
LEMMA TakenIsOffered ==
  ASSUME NEW ticked \in SUBSET {"block", "end"}, HandleDefaults(ticked),
         ended' # ended \/ (~ InPid /\ InPid')
  PROVE  \E since \in Day \cap OverdueSince[LastDay] : \E fee \in FeesOfDefault(since), grace \in InGrace :
           TakeActions(since, fee, grace, ticked)
<1>1. CASE Negative
  BY <1>1 DEF HandleDefaults
<1>2. CASE ~ Negative
  <2>1. pid' = Settled /\ ended' = ended
    BY <1>2 DEF HandleDefaults
  <2>2. ~ InPid => pid' = pid
    BY <2>1 DEF Settled
  <2> QED
    BY <2>1, <2>2 DEF InPid
<1> QED
  BY <1>1, <1>2

LEMMA DaysAreDays ==
  ASSUME FeesEntered, NEW since \in Day PROVE InDefaultDays(since) \in Nat
  BY DayAssumption DEF FeesEntered, InDefaultDays, Day

(* The end is logged only when it is ticked; then it was offered, and the  *)
(* same request blocks nobody.                                             *)
LEMMA EndIsOffered ==
  ASSUME FeesEntered, NEW since \in Day \cap OverdueSince[LastDay], NEW fee \in FeesOfDefault(since),
         NEW grace, NEW ticked, TakeActions(since, fee, grace, ticked), ended' # ended
  PROVE  /\ pid' = pid
         /\ (~ grace /\ InPid) \/ \E f \in fees : EndsUnannounced(f)
<1>1. fee \in fees /\ fee.deadline \in Nat /\ fee.final \in Nat
  BY DefaultFee, FeeAssumption DEF FeesEntered
<1>2. "end" \in ticked
  BY DEF TakeActions
<1>3. ToEnd(InDefaultDays(since), fee, grace)
  BY <1>2 DEF TakeActions
<1>4. ~ ToBlock(InDefaultDays(since), fee, grace) /\ InDefaultDays(since) >= fee.final
  BY <1>3 DEF ToEnd
<1>5. pid' = pid
  <2>1. "block" \notin ticked
    BY <1>4 DEF TakeActions
  <2> QED
    BY <2>1 DEF TakeActions
<1>6. CASE InDefaultDays(since) >= fee.deadline
  BY <1>3, <1>4, <1>5, <1>6 DEF ToEnd, ToBlock
<1>7. CASE ~ (InDefaultDays(since) >= fee.deadline)
  <2>1. fee.final <= InDefaultDays(since) /\ InDefaultDays(since) < fee.deadline
    BY <1>1, <1>4, <1>7, DaysAreDays
  <2>2. since # None
    BY NoneAssumption, DayAssumption DEF Day
  <2>3. EndsUnannounced(fee)
    BY <2>1, <2>2 DEF EndsUnannounced
  <2> QED
    BY <1>1, <1>5, <2>3
<1> QED
  BY <1>6, <1>7

(* A membership ends for a debt only while the member is blocked for it,   *)
(* or where the deadlines of a fee are out of order: for all fees, in      *)
(* every state (get_users_with_payment_in_default).                        *)
THEOREM EndsAfterNotice == Spec => EndedAfterNotice
<1>1. FeesEntered /\ [Next]_vars =>
        (ended' # ended => (InPid /\ InPid') \/ \E f \in fees : EndsUnannounced(f))
  <2> SUFFICES ASSUME FeesEntered, [Next]_vars, ended' # ended
               PROVE  (InPid /\ InPid') \/ \E f \in fees : EndsUnannounced(f)
    OBVIOUS
  <2>1. PICK ticked \in SUBSET {"block", "end"} : HandleDefaults(ticked)
    BY OnlyHandlingEnds
  <2>2. PICK since \in Day \cap OverdueSince[LastDay] : \E fee \in FeesOfDefault(since), grace \in InGrace :
          TakeActions(since, fee, grace, ticked)
    BY <2>1, TakenIsOffered
  <2>3. PICK fee \in FeesOfDefault(since), grace \in InGrace : TakeActions(since, fee, grace, ticked)
    BY <2>2
  <2>4. pid' = pid /\ (InPid \/ \E f \in fees : EndsUnannounced(f))
    BY <2>3, EndIsOffered
  <2>5. InPid => InPid'
    BY <2>4 DEF InPid
  <2> QED
    BY <2>4, <2>5
<1> QED
  BY <1>1, FeesStayEntered, PTL DEF Spec, EndedAfterNotice

(* In the week of grace nobody is blocked, and no membership ends but      *)
(* where the deadlines of a fee are out of order, whatever the fees are.   *)
THEOREM GraceStays == Spec => GraceIsKept
<1>1. FeesEntered /\ [Next]_vars =>
        (pid # None /\ pid.until # Open /\ pid.until > today - Grace =>
           ~ InPid' /\ (ended' = ended \/ \E f \in fees : EndsUnannounced(f)))
  <2> SUFFICES ASSUME FeesEntered, [Next]_vars,
                      pid # None, pid.until # Open, pid.until > today - Grace
               PROVE  ~ InPid' /\ (ended' = ended \/ \E f \in fees : EndsUnannounced(f))
    OBVIOUS
  <2>1. ~ InPid
    BY DEF InPid
  <2>2. CASE ended' = ended /\ ~ InPid'
    BY <2>2
  <2>3. CASE ended' # ended \/ InPid'
    <3>1. PICK ticked \in SUBSET {"block", "end"} : HandleDefaults(ticked)
      BY <2>1, <2>3, OnlyHandlingEnds, OnlyHandlingBlocks
    <3>2. PICK since \in Day \cap OverdueSince[LastDay] : \E fee \in FeesOfDefault(since), grace \in InGrace :
            TakeActions(since, fee, grace, ticked)
      BY <2>1, <2>3, <3>1, TakenIsOffered
    <3>3. PICK fee \in FeesOfDefault(since), grace \in InGrace : TakeActions(since, fee, grace, ticked)
      BY <3>2
    <3>4. grace
      BY <3>3 DEF InGrace
    <3>5. ~ InPid'
      <4>1. "block" \notin ticked
        BY <3>3, <3>4 DEF TakeActions, ToBlock
      <4>2. pid' = pid
        BY <3>3, <4>1 DEF TakeActions
      <4> QED
        BY <2>1, <4>2 DEF InPid
    <3>6. ended' # ended => \E f \in fees : EndsUnannounced(f)
      BY <3>3, <3>4, EndIsOffered
    <3> QED
      BY <3>5, <3>6
  <2> QED
    BY <2>2, <2>3
<1> QED
  BY <1>1, FeesStayEntered, PTL DEF Spec, GraceIsKept

(* Whoever loses the membership for a debt is blocked for it before and    *)
(* after, and neither happens in the week after a block has ended, unless  *)
(* the fee ends memberships at an age of the debt at which it does not     *)
(* block yet.                                                              *)
THEOREM DebtorsAlwaysWarned == Spec => DebtorsAreWarned
BY EndsAfterNotice, GraceStays DEF DebtorsAreWarned

----------------------------------------------------------------------------
(* What is computed day by day. *)

(* A set of natural numbers has a least one. *)
LEMMA LeastNumber ==
  ASSUME NEW T \in SUBSET Nat, T # {}
  PROVE  \E m \in T : \A n \in T : m <= n
<1>1. PICK m \in T : \A n \in T : ~(<<n, m>> \in OpToRel(<, Nat))
  BY WFMin, NatLessThanWellFounded, Zenon
<1>2. ASSUME NEW n \in T
      PROVE  m <= n
  <2>1. n \in Nat /\ m \in Nat
    OBVIOUS
  <2>2. n < m => <<n, m>> \in OpToRel(<, Nat)
    BY <2>1, Zenon DEF OpToRel
  <2>3. ~(n < m)
    BY <2>2, <1>1, Zenon
  <2> QED
    BY <2>1, <2>3
<1> QED
  BY <1>2

(* Induction over the days. *)
LEMMA DayByDay ==
  ASSUME NEW T, -1 \in T, \A d \in Day : d - 1 \in T => d \in T
  PROVE  -1 .. LastDay \subseteq T
<1> USE DayAssumption DEF Day
<1> DEFINE M == {n \in 0 .. LastDay + 1 : n - 1 \notin T}
<1> SUFFICES ASSUME NEW b \in -1 .. LastDay, b \notin T
             PROVE  FALSE
  OBVIOUS
<1>1. M # {} /\ M \in SUBSET Nat
  <2>1. b + 1 \in 0 .. LastDay + 1 /\ (b + 1) - 1 = b
    OBVIOUS
  <2> QED
    BY <2>1
<1>2. PICK m \in M : \A n \in M : m <= n
  <2> HIDE DEF M
  <2> QED
    BY <1>1, LeastNumber
<1>3. m # 0 /\ m - 1 \in Day /\ (m - 1) - 1 \in -1 .. LastDay
  OBVIOUS
<1>4. (m - 1) - 1 \in T
  <2>1. m - 1 \in 0 .. LastDay + 1 /\ ~ (m <= m - 1)
    BY <1>3
  <2> QED
    BY <1>2, <2>1
<1> QED
  BY <1>3, <1>4

(* g begins with e, and F says how a day follows from the day before. *)
Computed(g, e, F) == g = [d \in -1 .. LastDay |-> IF d = -1 THEN e ELSE F[d][g[d - 1]]]

LEMMA ComputedExists ==
  ASSUME NEW D, NEW e \in D, NEW F, \A d \in Day : \A x \in D : F[d][x] \in D
  PROVE  \E g \in [-1 .. LastDay -> D] : Computed(g, e, F)
<1> USE DayAssumption DEF Day
<1> DEFINE IsUpTo(g, n) == /\ g \in [-1 .. n -> D] /\ g[-1] = e
                           /\ \A d \in 0 .. n : g[d] = F[d][g[d - 1]]
           T == {n \in -1 .. LastDay : \E g : IsUpTo(g, n)}
<1>1. -1 \in T
  <2> DEFINE g == [d \in -1 .. -1 |-> e]
  <2>1. IsUpTo(g, -1)
    OBVIOUS
  <2>2. \E f : IsUpTo(f, -1)
    BY <2>1
  <2>3. -1 \in -1 .. LastDay
    OBVIOUS
  <2> QED
    BY <2>2, <2>3
<1>2. ASSUME NEW n \in Day, n - 1 \in T
      PROVE  n \in T
  <2>1. PICK g : IsUpTo(g, n - 1)
    BY <1>2
  <2> DEFINE h == [d \in -1 .. n |-> IF d = n THEN F[n][g[n - 1]] ELSE g[d]]
  <2>2. g[n - 1] \in D
    BY <2>1
  <2>3. h \in [-1 .. n -> D]
    <3>1. ASSUME NEW d \in -1 .. n PROVE (IF d = n THEN F[n][g[n - 1]] ELSE g[d]) \in D
      BY <2>1, <2>2
    <3> QED
      BY <3>1
  <2>4. h[-1] = e
    BY <2>1
  <2>5. \A d \in 0 .. n : h[d] = F[d][h[d - 1]]
    <3>1. ASSUME NEW d \in 0 .. n - 1 PROVE h[d] = F[d][h[d - 1]]
      <4>1. h[d] = g[d] /\ h[d - 1] = g[d - 1]
        OBVIOUS
      <4>2. g[d] = F[d][g[d - 1]]
        BY <2>1
      <4> QED
        BY <4>1, <4>2
    <3>2. h[n] = F[n][h[n - 1]]
      <4>1. n \in -1 .. n /\ n - 1 \in -1 .. n /\ n - 1 # n
        BY <1>2
      <4>2. h[n] = F[n][g[n - 1]] /\ h[n - 1] = g[n - 1]
        BY <4>1
      <4> QED
        BY <4>2
    <3>3. \A d \in 0 .. n : d = n \/ d \in 0 .. n - 1
      BY <1>2
    <3> QED
      BY <3>1, <3>2, <3>3
  <2>6. IsUpTo(h, n)
    <3> HIDE DEF h
    <3> QED
      BY <2>3, <2>4, <2>5
  <2>7. \E f : IsUpTo(f, n)
    BY <2>6
  <2>8. n \in -1 .. LastDay
    BY <1>2
  <2> QED
    BY <2>7, <2>8
<1>3. LastDay \in T
  <2> HIDE DEF T
  <2>1. -1 .. LastDay \subseteq T
    BY <1>1, <1>2, DayByDay
  <2> QED
    BY <2>1
<1>4. PICK g : IsUpTo(g, LastDay)
  BY <1>3
<1>5. Computed(g, e, F)
  <2> DEFINE h == [d \in -1 .. LastDay |-> IF d = -1 THEN e ELSE F[d][g[d - 1]]]
  <2>1. \A d \in -1 .. LastDay : g[d] = h[d]
    <3>1. \A d \in -1 .. LastDay : d = -1 \/ d \in 0 .. LastDay
      OBVIOUS
    <3> QED
      BY <1>4, <3>1
  <2>2. g = [d \in -1 .. LastDay |-> g[d]] /\ h = [d \in -1 .. LastDay |-> h[d]]
    BY <1>4
  <2>3. g = h
    <3> HIDE DEF h
    <3> QED
      BY <2>1, <2>2
  <2> QED
    BY <2>3 DEF Computed
<1> QED
  BY <1>4, <1>5

Booking == charges \in [Day -> Nat] /\ payments \in [Day -> Nat]

(* The sum of an account, out of the recursion that defines it. *)
LEMMA TotalIs ==
  ASSUME Booking
  PROVE  /\ Total \in [-1 .. LastDay -> Int] /\ Total[-1] = 0
         /\ \A d \in Day : Total[d] = Total[d - 1] + charges[d] - payments[d]
<1> USE DayAssumption DEF Day
<1> DEFINE F == [d \in Day |-> [x \in Int |-> x + charges[d] - payments[d]]]
           Is(g) == g = [d \in -1 .. LastDay |-> IF d = -1 THEN 0 ELSE g[d - 1] + charges[d] - payments[d]]
<1>1. \A d \in Day : \A x \in Int : F[d][x] = x + charges[d] - payments[d] /\ F[d][x] \in Int
  BY DEF Booking
<1>2. PICK g \in [-1 .. LastDay -> Int] : Computed(g, 0, F)
  <2>1. 0 \in Int /\ \A d \in Day : \A x \in Int : F[d][x] \in Int
    BY <1>1
  <2> HIDE DEF F
  <2>2. \E g \in [-1 .. LastDay -> Int] : Computed(g, 0, F)
    BY <2>1, ComputedExists
  <2> QED
    BY <2>2
<1>3. Is(g)
  <2>1. \A d \in -1 .. LastDay : g[d] = IF d = -1 THEN 0 ELSE F[d][g[d - 1]]
    BY <1>2 DEF Computed
  <2>2. ASSUME NEW d \in -1 .. LastDay
        PROVE  g[d] = IF d = -1 THEN 0 ELSE g[d - 1] + charges[d] - payments[d]
    <3>1. d # -1 => d \in Day /\ d - 1 \in -1 .. LastDay
      OBVIOUS
    <3> HIDE DEF F
    <3> QED
      BY <1>1, <1>2, <2>1, <3>1
  <2> QED
    BY <2>2
<1>4. Is(Total)
  <2>1. Total = CHOOSE h : Is(h)
    BY DEF Total
  <2> HIDE DEF Is
  <2> QED
    BY <1>3, <2>1
<1>5. DOMAIN Total = -1 .. LastDay /\ Total[-1] = 0
      /\ \A d \in Day : Total[d] = Total[d - 1] + charges[d] - payments[d]
  BY <1>4
<1>6. \A d \in -1 .. LastDay : Total[d] \in Int
  <2> DEFINE T == {d \in -1 .. LastDay : Total[d] \in Int}
  <2>1. -1 \in T
    BY <1>5
  <2>2. \A d \in Day : d - 1 \in T => d \in T
    BY <1>5, SMTT(30) DEF Booking
  <2>3. -1 .. LastDay \subseteq T
    <3> HIDE DEF T
    <3> QED
      BY <2>1, <2>2, DayByDay
  <2> QED
    BY <2>3
<1> QED
  <2> HIDE DEF Is
  <2>1. Total = [d \in -1 .. LastDay |-> Total[d]]
    BY <1>4 DEF Is
  <2> QED
    BY <1>5, <1>6, <2>1

(* A day of the account, for what is known of the day before. *)
OverdueOn(d, X) ==
  IF charges[d] + payments[d] = 0 THEN X
  ELSE IF Paid(d) THEN {None}
  ELSE {IF x = None THEN d ELSE x : x \in X} \cup {x \in {d} : payments[d] >= Total[d - 1]}

MaybeDay == Day \cup {None}

LEMMA OverdueIs ==
  ASSUME Booking
  PROVE  /\ OverdueSince \in [-1 .. LastDay -> SUBSET MaybeDay] /\ OverdueSince[-1] = {None}
         /\ \A d \in Day : OverdueSince[d] = OverdueOn(d, OverdueSince[d - 1])
<1> USE DayAssumption DEF Day
<1> DEFINE F == [d \in Day |-> [X \in SUBSET MaybeDay |-> OverdueOn(d, X)]]
           On(g, d) == IF d = -1 THEN {None} ELSE OverdueOn(d, g[d - 1])
           Is(g) == g = [d \in -1 .. LastDay |-> On(g, d)]
<1>1. \A d \in Day : \A X \in SUBSET MaybeDay : F[d][X] = OverdueOn(d, X) /\ F[d][X] \in SUBSET MaybeDay
  <2>1. ASSUME NEW d \in Day, NEW X \in SUBSET MaybeDay
        PROVE  OverdueOn(d, X) \in SUBSET MaybeDay
    BY DEF OverdueOn, MaybeDay
  <2> QED
    BY <2>1
<1>2. PICK g \in [-1 .. LastDay -> SUBSET MaybeDay] : Computed(g, {None}, F)
  <2>1. {None} \in SUBSET MaybeDay /\ \A d \in Day : \A x \in SUBSET MaybeDay : F[d][x] \in SUBSET MaybeDay
    BY <1>1 DEF MaybeDay
  <2> HIDE DEF F
  <2>2. \E g \in [-1 .. LastDay -> SUBSET MaybeDay] : Computed(g, {None}, F)
    BY <2>1, ComputedExists
  <2> QED
    BY <2>2
<1>3. Is(g)
  <2>1. \A d \in -1 .. LastDay : g[d] = IF d = -1 THEN {None} ELSE F[d][g[d - 1]]
    BY <1>2 DEF Computed
  <2>2. ASSUME NEW d \in -1 .. LastDay
        PROVE  g[d] = On(g, d)
    <3>1. d # -1 => d \in Day /\ d - 1 \in -1 .. LastDay
      OBVIOUS
    <3>2. d # -1 => g[d - 1] \in SUBSET MaybeDay
      BY <1>2, <3>1
    <3> HIDE DEF F
    <3> QED
      BY <1>1, <2>1, <3>1, <3>2
  <2> DEFINE h == [d \in -1 .. LastDay |-> On(g, d)]
  <2>3. \A d \in -1 .. LastDay : g[d] = h[d]
    <3> HIDE DEF On
    <3> QED
      BY <2>2
  <2>4. g = [d \in -1 .. LastDay |-> g[d]] /\ h = [d \in -1 .. LastDay |-> h[d]]
    BY <1>2
  <2>5. g = h
    <3> HIDE DEF h
    <3> QED
      BY <2>3, <2>4
  <2> QED
    BY <2>5
<1>4. Is(OverdueSince)
  <2>1. OverdueSince = CHOOSE h : Is(h)
    BY DEF OverdueSince, OverdueOn
  <2> HIDE DEF Is
  <2> QED
    BY <1>3, <2>1
<1>5. /\ DOMAIN OverdueSince = -1 .. LastDay /\ OverdueSince[-1] = {None}
      /\ \A d \in Day : OverdueSince[d] = OverdueOn(d, OverdueSince[d - 1])
  <2> HIDE DEF F
  <2>1. DOMAIN OverdueSince = -1 .. LastDay /\ \A d \in -1 .. LastDay : OverdueSince[d] = On(OverdueSince, d)
    <3> HIDE DEF On
    <3> QED
      BY <1>4
  <2> QED
    BY <2>1
<1>6. \A d \in -1 .. LastDay : OverdueSince[d] \in SUBSET MaybeDay
  <2> DEFINE T == {d \in -1 .. LastDay : OverdueSince[d] \in SUBSET MaybeDay}
  <2>1. -1 \in T
    BY <1>5 DEF MaybeDay
  <2>2. ASSUME NEW d \in Day, d - 1 \in T
        PROVE  d \in T
    <3>1. OverdueSince[d - 1] \in SUBSET MaybeDay
      BY <2>2
    <3> HIDE DEF F
    <3>2. OverdueSince[d] \in SUBSET MaybeDay
      BY <1>1, <1>5, <3>1
    <3> QED
      BY <3>2
  <2>3. -1 .. LastDay \subseteq T
    <3> HIDE DEF T
    <3> QED
      BY <2>1, <2>2, DayByDay
  <2> QED
    BY <2>3
<1>7. OverdueSince = [d \in -1 .. LastDay |-> OverdueSince[d]]
  <2> HIDE DEF On
  <2> QED
    BY <1>4
<1> QED
  <2> HIDE DEF Is, F
  <2> QED
    BY <1>5, <1>6, <1>7

(* Who is overdue since a day has owed something on every day since. *)
LEMMA OverdueOwes ==
  ASSUME Booking, NEW d \in -1 .. LastDay, NEW x \in OverdueSince[d] \ {None}
  PROVE  x \in 0 .. d /\ \A e \in x .. d : Total[e] > 0
<1> USE DayAssumption DEF Day
<1> DEFINE Owes(y, b) == y \in 0 .. b /\ \A e \in y .. b : Total[e] > 0
           T == {b \in -1 .. LastDay : \A y \in OverdueSince[b] \ {None} : Owes(y, b)}
<1>1. -1 \in T
  BY OverdueIs
<1>2. ASSUME NEW b \in Day, b - 1 \in T
      PROVE  b \in T
  <2> SUFFICES ASSUME NEW y \in OverdueSince[b], y # None
               PROVE  Owes(y, b)
    OBVIOUS
  <2>1. y \in OverdueOn(b, OverdueSince[b - 1]) /\ \A z \in OverdueSince[b - 1] \ {None} : Owes(z, b - 1)
    <3>1. y \in OverdueOn(b, OverdueSince[b - 1])
      <4> HIDE DEF Owes, T
      <4> QED
        BY OverdueIs
    <3>2. \A z \in OverdueSince[b - 1] \ {None} : Owes(z, b - 1)
      <4> HIDE DEF Owes
      <4> QED
        BY <1>2
    <3> HIDE DEF Owes
    <3> QED
      BY <3>1, <3>2
  <2>2. Total[b] \in Int /\ Total[b - 1] \in Int /\ Total[b] = Total[b - 1] + charges[b] - payments[b]
        /\ charges[b] \in Nat /\ payments[b] \in Nat
    <3>1. Total \in [-1 .. LastDay -> Int] /\ \A e \in Day : Total[e] = Total[e - 1] + charges[e] - payments[e]
      <4> HIDE DEF Day
      <4> QED
        BY TotalIs
    <3>2. b \in -1 .. LastDay /\ b - 1 \in -1 .. LastDay
      OBVIOUS
    <3> HIDE DEF Owes, T
    <3> QED
      BY <3>1, <3>2 DEF Booking
  <2>3. ASSUME Owes(y, b - 1), Total[b] > 0
        PROVE  Owes(y, b)
    <3>1. \A e \in y .. b : e = b \/ e \in y .. b - 1
      BY <2>3
    <3> QED
      BY <2>3, <3>1
  <2>4. CASE charges[b] + payments[b] = 0
    <3>1. y \in OverdueSince[b - 1]
      BY <2>1, <2>4 DEF OverdueOn
    <3>2. Owes(y, b - 1)
      BY <2>1, <3>1
    <3>3. Total[b] = Total[b - 1] /\ Total[b - 1] > 0
      BY <2>2, <2>4, <3>2
    <3> QED
      BY <2>3, <3>2, <3>3
  <2>5. CASE charges[b] + payments[b] # 0
    <3>1. ~ Paid(b) /\ (y = b \/ y \in OverdueSince[b - 1])
      BY <2>1, <2>5 DEF OverdueOn
    <3>2. Total[b] > 0
      BY <2>2, <3>1 DEF Paid
    <3>3. CASE y = b
      BY <3>2, <3>3
    <3>4. CASE y \in OverdueSince[b - 1]
      <4>1. Owes(y, b - 1)
        BY <2>1, <3>4
      <4> QED
        BY <2>3, <3>2, <4>1
    <3> QED
      BY <3>1, <3>3, <3>4
  <2> QED
    BY <2>4, <2>5
<1>3. -1 .. LastDay \subseteq T
  <2> HIDE DEF T
  <2> QED
    BY <1>1, <1>2, DayByDay
<1> QED
  BY <1>3

(* What is booked is a number, nothing is paid for a day to come (the      *)
(* match of payments), and the membership lies in the days that there are. *)
Accounted ==
  /\ FeesEntered /\ Booking /\ member \in Interval \cup {None}
  /\ \A d \in Day : d > today => payments[d] = 0

LEMMA EndIsADay ==
  ASSUME FeesEntered, NEW since \in Day, NEW fee \in FeesOfDefault(since), NEW grace,
         NEW ticked, TakeActions(since, fee, grace, ticked), "end" \in ticked
  PROVE  /\ fee \in fees /\ fee.final \in Nat /\ InDefaultDays(since) >= fee.final
         /\ EndOfMembership(InDefaultDays(since), fee) \in Int
         /\ EndOfMembership(InDefaultDays(since), fee) <= today
         /\ member' = CutAt(member, EndOfMembership(InDefaultDays(since), fee))
<1>1. fee \in fees /\ fee.final \in Nat
  BY DefaultFee, FeeAssumption DEF FeesEntered
<1>2. InDefaultDays(since) >= fee.final
  BY DEF TakeActions, ToEnd
<1>3. InDefaultDays(since) \in Nat /\ today \in Nat
  BY DaysAreDays DEF FeesEntered, Day
<1>4. member' = CutAt(member, EndOfMembership(InDefaultDays(since), fee))
  BY DEF TakeActions
<1> HIDE DEF TakeActions
<1> QED
  BY <1>1, <1>2, <1>3, <1>4 DEF EndOfMembership

LEMMA CutIsInterval ==
  ASSUME FeesEntered, member \in Interval \cup {None}, NEW day \in Int, day <= today
  PROVE  CutAt(member, day) \in Interval \cup {None}
<1> USE DayAssumption, NoneAssumption DEF Day
<1>1. CASE member = None \/ day <= member.from
  BY <1>1 DEF CutAt
<1>2. CASE member # None /\ ~ (day <= member.from) /\ member.until # Open /\ member.until <= day
  BY <1>2 DEF CutAt
<1>3. CASE member # None /\ ~ (day <= member.from) /\ ~ (member.until # Open /\ member.until <= day)
  <2>1. CutAt(member, day) = [member EXCEPT !.until = day]
    BY <1>3 DEF CutAt
  <2>2. member \in Interval /\ member.from \in Day /\ day \in Day
    BY <1>3 DEF Interval, FeesEntered
  <2> QED
    BY <2>1, <2>2 DEF Interval
<1> QED
  BY <1>1, <1>2, <1>3

LEMMA AccountKept == Spec => []Accounted
<1> USE DayAssumption, NoneAssumption DEF Day
<1>1. Init => Accounted
  BY DEF Init, Accounted, FeesEntered, Booking, Interval
<1>2. Accounted /\ FeesEntered' /\ [Next]_vars => Accounted'
  <2> SUFFICES ASSUME Accounted, FeesEntered', [Next]_vars PROVE Accounted'
    OBVIOUS
  <2>1. FeesEntered /\ Booking /\ member \in Interval \cup {None} /\ \A d \in Day : d > today => payments[d] = 0
    BY DEF Accounted
  <2>2. CASE UNCHANGED <<charges, payments>> /\ member' = member /\ today' >= today
    <3>1. today \in Int /\ today' \in Int
      BY <2>1 DEF FeesEntered
    <3> QED
      BY <2>1, <2>2, <3>1 DEF Accounted, Booking
  <2>3. CASE UNCHANGED vars
    <3>1. today' >= today
      BY <2>1, <2>3 DEF vars, FeesEntered
    <3> QED
      BY <2>2, <2>3, <3>1 DEF vars
  <2>4. CASE NextDay \/ Unblock
    <3>1. today' >= today
      BY <2>1, <2>4 DEF NextDay, Unblock, FeesEntered
    <3> QED
      BY <2>2, <2>4, <3>1 DEF NextDay, Unblock, account, groups
  <2>5. CASE \E f \in FeeForm : CreateFee(f) \/ \E g \in FeeForm : EditFee(g, f)
    <3>1. today' >= today
      BY <2>1, <2>5 DEF CreateFee, EditFee, FeesEntered
    <3> QED
      BY <2>2, <2>5, <3>1 DEF CreateFee, EditFee, groups
  <2>6. CASE MoveIn
    <3>1. today' = today /\ charges' = charges /\ payments' = payments /\ member' = [from |-> today, until |-> Open]
      BY <2>6 DEF MoveIn, account
    <3> QED
      BY <2>1, <3>1 DEF Accounted, Booking, Interval, FeesEntered
  <2>7. ASSUME today' = today, charges' = charges, payments' = payments,
               NEW day \in Int, day <= today, member' = CutAt(member, day)
        PROVE  Accounted'
    <3>1. member' \in Interval \cup {None}
      BY <2>1, <2>7, CutIsInterval
    <3> QED
      BY <2>1, <2>7, <3>1 DEF Accounted, Booking
  <2>8. CASE MoveOut
    <3>1. today \in Int /\ today <= today
      BY <2>1 DEF FeesEntered
    <3> QED
      BY <2>7, <2>8, <3>1 DEF MoveOut, account
  <2>9. CASE \E d \in Day : Charge(d)
    <3>1. PICK d \in Day : Charge(d)
      BY <2>9
    <3>2. charges' \in [Day -> Nat]
      BY <2>1, <3>1 DEF Charge, Booking
    <3> QED
      BY <2>1, <3>1, <3>2 DEF Accounted, Booking, Charge, groups
  <2>10. CASE \E d \in Day : \E amount \in 1 .. 2 : Pay(d, amount)
    <3>1. PICK d \in Day, amount \in 1 .. 2 : Pay(d, amount)
      BY <2>10
    <3>2. payments' \in [Day -> Nat]
      BY <2>1, <3>1 DEF Pay, Booking
    <3>3. \A e \in Day : e > today => payments'[e] = 0
      BY <2>1, <3>1 DEF Pay, Booking, FeesEntered
    <3> QED
      BY <2>1, <3>1, <3>2, <3>3 DEF Accounted, Booking, Pay
  <2>11. CASE \E ticked \in SUBSET {"block", "end"} : HandleDefaults(ticked)
    <3>1. PICK ticked \in SUBSET {"block", "end"} : HandleDefaults(ticked)
      BY <2>11
    <3>2. today' = today /\ charges' = charges /\ payments' = payments
      BY <3>1 DEF HandleDefaults, account
    <3>3. CASE member' = member
      BY <2>1, <2>2, <3>2, <3>3 DEF FeesEntered
    <3>4. CASE member' # member
      <4>1. Negative
        BY <3>1, <3>4 DEF HandleDefaults
      <4>2. PICK since \in Day \cap OverdueSince[LastDay] : \E fee \in FeesOfDefault(since), grace \in InGrace :
              TakeActions(since, fee, grace, ticked)
        BY <3>1, <4>1 DEF HandleDefaults
      <4>3. PICK fee \in FeesOfDefault(since), grace \in InGrace : TakeActions(since, fee, grace, ticked)
        BY <4>2
      <4>4. "end" \in ticked
        BY <3>4, <4>3 DEF TakeActions
      <4>5. /\ EndOfMembership(InDefaultDays(since), fee) \in Int
            /\ EndOfMembership(InDefaultDays(since), fee) <= today
            /\ member' = CutAt(member, EndOfMembership(InDefaultDays(since), fee))
        <5>1. since \in Day
          OBVIOUS
        <5> HIDE DEF Day
        <5> QED
          BY <2>1, <4>3, <4>4, <5>1, EndIsADay
      <4> QED
        BY <2>7, <3>2, <4>5
    <3> QED
      BY <3>3, <3>4
  <2> QED
    BY <2>3, <2>4, <2>5, <2>6, <2>8, <2>9, <2>10, <2>11 DEF Next
<1> QED
  BY <1>1, <1>2, FeesStayEntered, PTL DEF Spec

(* Nothing to come: the days ahead change nothing. *)
LEMMA OverdueToday ==
  ASSUME Accounted, NothingToCome
  PROVE  OverdueSince[LastDay] = OverdueSince[today]
<1> DEFINE T == {d \in -1 .. LastDay : today <= d => OverdueSince[d] = OverdueSince[today]}
<1>0. today \in Day /\ Booking /\ (\A d \in Day : d > today => charges[d] = 0 /\ payments[d] = 0)
  BY DEF Accounted, FeesEntered, NothingToCome
<1>1. -1 \in T
  BY <1>0, DayAssumption DEF Day
<1>2. ASSUME NEW d \in Day, d - 1 \in T
      PROVE  d \in T
  <2>1. CASE d <= today
    BY <1>0, <2>1, DayAssumption DEF Day
  <2>2. CASE d > today
    <3>1. OverdueSince[d] = OverdueOn(d, OverdueSince[d - 1])
      BY <1>0, OverdueIs
    <3>2. OverdueSince[d] = OverdueSince[d - 1]
      BY <1>0, <2>2, <3>1 DEF OverdueOn
    <3>3. OverdueSince[d - 1] = OverdueSince[today] /\ d \in -1 .. LastDay
      BY <1>0, <1>2, <2>2, DayAssumption DEF Day
    <3> QED
      BY <3>2, <3>3
  <2> QED
    BY <1>0, <2>1, <2>2, DayAssumption DEF Day
<1>3. -1 .. LastDay \subseteq T
  <2> HIDE DEF T
  <2> QED
    BY <1>1, <1>2, DayByDay
<1>4. LastDay \in T
  <2> HIDE DEF T
  <2> QED
    BY <1>3, DayAssumption
<1> QED
  BY <1>0, <1>4 DEF Day

(* So a debt is as old as what is owed. *)
LEMMA OwesToday ==
  ASSUME Accounted, NothingToCome, NEW since \in Day \cap OverdueSince[LastDay]
  PROVE  since <= today /\ Owed(since, today)
<1>1. Booking /\ today \in -1 .. LastDay /\ since \in Day
  BY DayAssumption DEF Accounted, FeesEntered, Day
<1>2. since \in OverdueSince[today] \ {None}
  BY <1>1, OverdueToday, NoneAssumption DEF Day
<1>3. since \in 0 .. today /\ \A e \in since .. today : Total[e] > 0
  BY <1>1, <1>2, OverdueOwes
<1> QED
  BY <1>1, <1>3 DEF Owed, Day

(* The fee by which a debt of today is handled is the one of its first day. *)
LEMMA FeeOfThatDay ==
  ASSUME FeesEntered, NEW since \in Day, since <= today, NEW fee \in FeesOfDefault(since)
  PROVE  fee \in IF FeesFor(since) = {} THEN fees ELSE FeesFor(since)
<1>1. today - InDefaultDays(since) = since
  BY DEF InDefaultDays, FeesEntered, Day
<1> QED
  BY <1>1 DEF FeesOfDefault, LastApplied

(* Nobody is blocked before the deadline of the fee has passed in debt,    *)
(* however the bookings, the fees and the days come (in_default_days).     *)
THEOREM NeverBlockedEarly == Spec => NotBlockedEarly
<1> DEFINE Late == \E d \in Day : \E f \in IF FeesFor(d) = {} THEN fees ELSE FeesFor(d) :
                     d + f.deadline <= today /\ Owed(d, today)
<1>1. Accounted /\ [Next]_vars => (InPid' /\ ~ InPid /\ NothingToCome => Late)
  <2> SUFFICES ASSUME Accounted, [Next]_vars, InPid', ~ InPid, NothingToCome PROVE Late
    OBVIOUS
  <2>1. PICK ticked \in SUBSET {"block", "end"} : HandleDefaults(ticked)
    BY OnlyHandlingBlocks
  <2>2. PICK since \in Day \cap OverdueSince[LastDay] : \E fee \in FeesOfDefault(since), grace \in InGrace :
          TakeActions(since, fee, grace, ticked)
    BY <2>1, TakenIsOffered
  <2>3. PICK fee \in FeesOfDefault(since), grace \in InGrace : TakeActions(since, fee, grace, ticked)
    BY <2>2
  <2>4. "block" \in ticked
    BY <2>3 DEF TakeActions, InPid
  <2>5. InDefaultDays(since) >= fee.deadline
    BY <2>3, <2>4 DEF TakeActions, ToBlock
  <2>6. since <= today /\ Owed(since, today)
    BY OwesToday
  <2>7. FeesEntered /\ since \in Day
    BY DEF Accounted
  <2>8. fee \in IF FeesFor(since) = {} THEN fees ELSE FeesFor(since)
    BY <2>3, <2>6, <2>7, FeeOfThatDay
  <2>9. fee.deadline \in Nat /\ today \in Int /\ since \in Int
    BY <2>3, <2>7, DefaultFee, FeeAssumption DEF FeesEntered, Day
  <2>10. since + fee.deadline <= today
    BY <2>5, <2>6, <2>9 DEF InDefaultDays
  <2> QED
    BY <2>6, <2>7, <2>8, <2>10
<1>2. Accounted /\ [Next]_vars => [InPid' /\ ~ InPid /\ NothingToCome => Late]_vars
  BY <1>1
<1> QED
  <2>1. Spec => [][InPid' /\ ~ InPid /\ NothingToCome => Late]_vars
    <3> HIDE DEF Late
    <3> QED
      BY <1>2, AccountKept, PTL DEF Spec
  <2> QED
    BY <2>1 DEF NotBlockedEarly

(* However far the end is backdated, the final deadline before it was      *)
(* spent in debt, and so was every day since.                              *)
THEOREM EndsAreDue == Spec => EndsAtFinalDeadline
<1> DEFINE Due == \E f \in fees :
                    IF member' = None THEN Owed(member.from - f.final, today)
                    ELSE member'.until <= today /\ Owed(member'.until - f.final, today)
<1>1. Accounted /\ [Next]_vars => (ended' # ended /\ NothingToCome => Due)
  <2> SUFFICES ASSUME Accounted, [Next]_vars, ended' # ended, NothingToCome PROVE Due
    OBVIOUS
  <2>1. PICK ticked \in SUBSET {"block", "end"} : HandleDefaults(ticked)
    BY OnlyHandlingEnds
  <2>2. PICK since \in Day \cap OverdueSince[LastDay] : \E fee \in FeesOfDefault(since), grace \in InGrace :
          TakeActions(since, fee, grace, ticked)
    BY <2>1, TakenIsOffered
  <2>3. PICK fee \in FeesOfDefault(since), grace \in InGrace : TakeActions(since, fee, grace, ticked)
    BY <2>2
  <2>4. "end" \in ticked
    BY <2>3 DEF TakeActions
  <2>5. since <= today /\ Owed(since, today)
    BY OwesToday
  <2>6. FeesEntered /\ since \in Day /\ member \in Interval \cup {None} /\ today \in Int /\ since \in Int
    BY DEF Accounted, FeesEntered, Day
  <2> DEFINE day == EndOfMembership(InDefaultDays(since), fee)
  <2>7. fee \in fees /\ fee.final \in Nat /\ InDefaultDays(since) >= fee.final
        /\ day \in Int /\ day <= today /\ member' = CutAt(member, day)
    BY <2>3, <2>4, <2>6, EndIsADay
  <2>8. day = since + fee.final
    BY <2>5, <2>6, <2>7 DEF EndOfMembership, InDefaultDays
  <2>9. IsMember
    BY <2>1 DEF HandleDefaults, Negative
  <2>10. member \in Interval /\ member.from \in Int /\ (member.until # Open => member.until \in Int /\ member.until > today)
    BY <2>6, <2>9 DEF IsMember, During, Interval, Day
  <2> HIDE DEF day
  <2>11. ASSUME NEW e \in Int, since <= e PROVE Owed(e, today)
    BY <2>5, <2>6, <2>11 DEF Owed, Day
  <2>12. CASE day <= member.from
    <3>1. member' = None
      BY <2>7, <2>12 DEF CutAt
    <3>2. member.from - fee.final \in Int /\ since <= member.from - fee.final
      BY <2>6, <2>7, <2>8, <2>10, <2>12
    <3> QED
      BY <2>7, <2>11, <3>1, <3>2
  <2>13. CASE ~ (day <= member.from)
    <3>1. member' = [member EXCEPT !.until = day]
      <4>1. member # None /\ ~ (member.until # Open /\ member.until <= day)
        BY <2>6, <2>7, <2>10, NoneAssumption
      <4> QED
        BY <2>7, <2>13, <4>1 DEF CutAt
    <3>4. day \in Day
      BY <2>6, <2>7, <2>8, DayAssumption DEF Day, FeesEntered
    <3>2. member' # None /\ member'.until = day
      BY <2>10, <3>1, <3>4, NoneAssumption DEF Interval
    <3>3. member'.until - fee.final = since
      BY <2>6, <2>7, <2>8, <3>2
    <3> QED
      BY <2>5, <2>7, <3>2, <3>3
  <2> QED
    BY <2>12, <2>13
<1>2. Accounted /\ [Next]_vars => [ended' # ended /\ NothingToCome => Due]_vars
  BY <1>1
<1> QED
  <2>1. Spec => [][ended' # ended /\ NothingToCome => Due]_vars
    <3> HIDE DEF Due
    <3> QED
      BY <1>2, AccountKept, PTL DEF Spec
  <2> QED
    BY <2>1 DEF EndsAtFinalDeadline
----------------------------------------------------------------------------
(* Mails: what is sent to whom, one mail for each.                         *)

Letters == UNION {[U -> Address] : U \in SUBSET User}

(* Users, tasks, and what the server has taken of them, are of their kinds. *)
KnownTask(t) ==
  /\ tasks[t] \in [to: Letters, tries: 0 .. MaxRetries, at: Worker \cup {"broker"}]
  /\ sent[t] \in [DOMAIN tasks[t].to -> {0, 1}]

Known ==
  /\ user \in [User -> UserRow] /\ year \in 0 .. LastYear /\ changes \in 0 .. MaxChanges
  /\ queued \in 0 .. MaxTasks /\ Task \subseteq 1 .. queued /\ DOMAIN sent = Task
  /\ DOMAIN rest = Worker
  /\ \A t \in Task : KnownTask(t)

(* A worker holds one task, and has mails left only of this one. *)
OneTaskEach ==
  /\ \A t, o \in Task : tasks[t].at = tasks[o].at /\ tasks[t].at # "broker" => t = o
  /\ \A t \in Task : tasks[t].at # "broker" => rest[tasks[t].at] \subseteq DOMAIN tasks[t].to
  /\ \A w \in Worker : rest[w] # {} => \E t \in Task : tasks[t].at = w

(* What the broker has, and what a worker has left, nobody has sent yet. *)
LeftIsUnsent ==
  \A t \in Task : \A u \in DOMAIN tasks[t].to :
    tasks[t].at = "broker" \/ u \in rest[tasks[t].at] => sent[t][u] = 0

DeliveryInv == Known /\ OneTaskEach /\ LeftIsUnsent

LEMMA DeliveryBegins == MailInit => DeliveryInv
BY MailsAssumption DEF MailInit, DeliveryInv, Known, KnownTask, OneTaskEach, LeftIsUnsent, Task

(* All mails of a task go to users, and each has an address. *)
LEMMA WritingQueues ==
  ASSUME Known, Write
  PROVE  \E to \in Letters : Queue(to) /\ UNCHANGED <<user, year, rest, scrubbing, changes>>
<1> DEFINE Written(to) == Queue(to) /\ UNCHANGED <<user, year, rest, scrubbing, changes>>
<1>1. << >> \in Letters
  <2>1. << >> = [u \in {} |-> 0]
    OBVIOUS
  <2>2. << >> \in [{} -> Address]
    BY <2>1
  <2> QED
    BY <2>2 DEF Letters
<1>2. ASSUME NEW U \in SUBSET User, NEW use_internal, UserSendMails(U, use_internal),
             UNCHANGED <<user, year, rest, scrubbing, changes>>
      PROVE  \E to \in Letters : Written(to)
  <2>1. \A u \in U : Contact(u, use_internal) \in Address
    BY <1>2 DEF UserSendMails, Contact, Address
  <2>2. [u \in U |-> Contact(u, use_internal)] \in Letters
    BY <2>1 DEF Letters
  <2> QED
    BY <1>2, <2>2 DEF UserSendMails
<1>3. NegativeMembers \in SUBSET User /\ \A only, U : Selected(only, U) \subseteq U
  BY DEF NegativeMembers, Selected
<1>4. CASE \E only \in BOOLEAN, U \in SUBSET User : GroupMail(only, U)
  <2>1. PICK only \in BOOLEAN, U \in SUBSET User : GroupMail(only, U)
    BY <1>4
  <2>2. Selected(only, U) \in SUBSET User
    BY <1>3
  <2> QED
    BY <1>2, <2>1, <2>2 DEF GroupMail
<1>5. CASE \E imported \in {"lately", "long ago", "never"} :
             PaymentReminderMail(imported) \/ MailNegativeMembers(imported)
  BY <1>1, <1>2, <1>3, <1>5 DEF PaymentReminderMail, MailNegativeMembers
<1>6. CASE \E u \in User, use_internal \in BOOLEAN : UserSendMail(u, use_internal)
  BY <1>2, <1>6 DEF UserSendMail
<1>7. CASE SendTemplateMails
  BY <1>1, <1>7 DEF SendTemplateMails
<1> QED
  BY <1>4, <1>5, <1>6, <1>7 DEF Write

LEMMA QueueDelivers ==
  ASSUME DeliveryInv, NEW to \in Letters, Queue(to),
         UNCHANGED <<user, year, rest, scrubbing, changes>>
  PROVE  DeliveryInv'
<1>1. PICK new : new = queued + 1
  OBVIOUS
<1>a. queued \in Nat /\ queued' = new /\ new \in 1 .. MaxTasks /\ new \notin Task
  BY <1>1, MailsAssumption DEF DeliveryInv, Known, Queue
<1>2. /\ Task' = Task \cup {new} /\ DOMAIN sent' = Task \cup {new}
      /\ tasks'[new] = [to |-> to, tries |-> 0, at |-> "broker"]
      /\ sent'[new] = [u \in DOMAIN to |-> 0]
      /\ \A t \in Task : tasks'[t] = tasks[t] /\ sent'[t] = sent[t]
  BY <1>1, <1>a DEF Queue, With, Task, DeliveryInv, Known
<1>3. UNCHANGED <<user, year, changes, rest>>
  OBVIOUS
<1>4. Known'
  <2>1. KnownTask(new)'
    BY <1>2, MailsAssumption DEF KnownTask
  <2>2. \A t \in Task : KnownTask(t)'
    BY <1>2 DEF DeliveryInv, Known, KnownTask
  <2>3. Task' \subseteq 1 .. queued'
    <3>1. 1 .. queued \subseteq 1 .. new /\ new \in 1 .. new
      BY <1>1, <1>a
    <3>2. Task \subseteq 1 .. queued
      BY DEF DeliveryInv, Known
    <3> QED
      BY <1>2, <1>a, <3>1, <3>2
  <2> QED
    BY <1>a, <1>2, <1>3, <2>1, <2>2, <2>3 DEF DeliveryInv, Known
<1>5. OneTaskEach'
  BY <1>2, <1>3, MailsAssumption DEF DeliveryInv, OneTaskEach
<1>6. LeftIsUnsent'
  BY <1>2, <1>3 DEF DeliveryInv, LeftIsUnsent
<1> QED
  BY <1>4, <1>5, <1>6 DEF DeliveryInv

LEMMA ConnectDelivers ==
  ASSUME DeliveryInv, NEW w \in Worker, NEW t \in Task, Connect(w, t)
  PROVE  DeliveryInv'
<1>1. tasks[t].at = "broker" /\ w # "broker" /\ \A o \in Task : tasks[o].at # w
  BY MailsAssumption DEF Connect, Held
<1>a. /\ Task' = Task
      /\ tasks'[t] = [to |-> tasks[t].to, tries |-> tasks[t].tries, at |-> w]
      /\ \A o \in Task : o # t => tasks'[o] = tasks[o]
  BY DEF Connect, Task, DeliveryInv, Known, KnownTask
<1>2. /\ DOMAIN rest' = Worker /\ rest'[w] = DOMAIN tasks[t].to
      /\ \A v \in Worker \ {w} : rest'[v] = rest[v]
      /\ UNCHANGED <<user, year, queued, changes, sent>>
  BY DEF Connect, DeliveryInv, Known
<1>3. Known'
  <2>1. KnownTask(t)'
    <3>1. /\ tasks[t].to \in Letters /\ tasks[t].tries \in 0 .. MaxRetries
          /\ sent'[t] \in [DOMAIN tasks[t].to -> {0, 1}]
      BY <1>2 DEF DeliveryInv, Known, KnownTask
    <3> QED
      BY <1>a, <3>1 DEF KnownTask
  <2>2. \A o \in Task : o # t => KnownTask(o)'
    BY <1>a, <1>2 DEF DeliveryInv, Known, KnownTask
  <2> QED
    BY <1>a, <1>2, <2>1, <2>2 DEF DeliveryInv, Known
<1>4. OneTaskEach'
  <2>1. /\ Task' = Task /\ tasks'[t].at = w /\ tasks'[t].to = tasks[t].to
        /\ \A o \in Task : o # t => tasks'[o] = tasks[o] /\ tasks[o].at # w
    BY <1>1, <1>a
  <2>2. \A o \in Task : tasks[o].at # "broker" => tasks[o].at \in Worker
    BY DEF DeliveryInv, Known, KnownTask
  <2>3. \A x, o \in Task : tasks'[x].at = tasks'[o].at /\ tasks'[x].at # "broker" => x = o
    BY <2>1 DEF DeliveryInv, OneTaskEach
  <2>4. \A o \in Task : tasks'[o].at # "broker" => rest'[tasks'[o].at] \subseteq DOMAIN tasks'[o].to
    <3> SUFFICES ASSUME NEW o \in Task, tasks'[o].at # "broker"
                 PROVE  rest'[tasks'[o].at] \subseteq DOMAIN tasks'[o].to
      OBVIOUS
    <3>1. CASE o = t
      BY <1>2, <2>1, <3>1
    <3>2. CASE o # t
      <4>1. tasks[o].at \in Worker \ {w} /\ rest[tasks[o].at] \subseteq DOMAIN tasks[o].to
        BY <2>1, <2>2, <3>2 DEF DeliveryInv, OneTaskEach
      <4> QED
        BY <1>2, <2>1, <3>2, <4>1
    <3> QED
      BY <3>1, <3>2
  <2>5. \A v \in Worker : rest'[v] # {} => \E o \in Task : tasks'[o].at = v
    <3> SUFFICES ASSUME NEW v \in Worker, rest'[v] # {} PROVE \E o \in Task : tasks'[o].at = v
      OBVIOUS
    <3>1. CASE v = w
      BY <2>1, <3>1
    <3>2. CASE v # w
      <4>1. PICK o \in Task : tasks[o].at = v
        BY <1>2, <3>2 DEF DeliveryInv, OneTaskEach
      <4>2. o # t
        BY <1>1, <4>1, MailsAssumption
      <4> QED
        BY <2>1, <4>1, <4>2
    <3> QED
      BY <3>1, <3>2
  <2> QED
    BY <2>1, <2>3, <2>4, <2>5 DEF OneTaskEach
<1>5. LeftIsUnsent'
  BY <1>1, <1>a, <1>2 DEF DeliveryInv, LeftIsUnsent, Known, KnownTask
<1> QED
  BY <1>3, <1>4, <1>5 DEF DeliveryInv

(* A task leaves the broker and its worker with all mails that are left. *)
LEMMA DropDelivers ==
  ASSUME DeliveryInv, NEW t \in Task, Dropped(t), UNCHANGED <<user, year, queued, changes>>,
         \/ tasks[t].at = "broker" /\ UNCHANGED rest
         \/ tasks[t].at # "broker" /\ rest' = [rest EXCEPT ![tasks[t].at] = {}]
  PROVE  DeliveryInv'
<1>1. /\ Task' = Task \ {t} /\ DOMAIN sent' = Task \ {t}
      /\ \A o \in Task \ {t} : tasks'[o] = tasks[o] /\ sent'[o] = sent[o]
  BY DEF Dropped, Without, Task, DeliveryInv, Known
<1>2. /\ DOMAIN rest' = Worker
      /\ \A v \in Worker : rest'[v] = IF v = tasks[t].at THEN {} ELSE rest[v]
  BY MailsAssumption DEF DeliveryInv, Known
<1>3. Known'
  BY <1>1, <1>2 DEF DeliveryInv, Known, KnownTask
<1>4. OneTaskEach'
  <2>1. \A o \in Task \ {t} : tasks[o].at # "broker" =>
          tasks[o].at \in Worker /\ tasks[o].at # tasks[t].at
    BY DEF DeliveryInv, OneTaskEach, Known, KnownTask
  <2>2. \A v \in Worker : rest'[v] # {} => \E o \in Task \ {t} : tasks'[o].at = v
    BY <1>1, <1>2 DEF DeliveryInv, OneTaskEach
  <2> QED
    BY <1>1, <1>2, <2>1, <2>2 DEF DeliveryInv, OneTaskEach
<1>5. LeftIsUnsent'
  <2>1. \A o \in Task : tasks[o].at = "broker" \/ rest'[tasks[o].at] \subseteq rest[tasks[o].at]
    BY <1>2 DEF DeliveryInv, Known, KnownTask
  <2> QED
    BY <1>1, <2>1 DEF DeliveryInv, LeftIsUnsent
<1> QED
  BY <1>3, <1>4, <1>5 DEF DeliveryInv

LEMMA FailingDelivers ==
  ASSUME DeliveryInv, NEW w \in Worker, NEW t \in Task, FailToConnect(w, t)
  PROVE  DeliveryInv'
<1>1. tasks[t].at = "broker" /\ UNCHANGED <<user, year, queued, rest, changes>>
  BY DEF FailToConnect
<1>2. CASE Dropped(t)
  BY <1>1, <1>2, DropDelivers
<1>3. CASE ~ Dropped(t)
  <2>1. /\ Task' = Task /\ UNCHANGED sent
        /\ tasks'[t] = [to |-> tasks[t].to, tries |-> tasks[t].tries + 1, at |-> "broker"]
        /\ tasks[t].tries < MaxRetries
        /\ \A o \in Task : o # t => tasks'[o] = tasks[o]
    BY <1>3 DEF FailToConnect, Retry, Task
  <2>2. Known'
    BY <1>1, <2>1, MailsAssumption DEF DeliveryInv, Known, KnownTask
  <2>3. OneTaskEach'
    BY <1>1, <2>1 DEF DeliveryInv, OneTaskEach
  <2>4. LeftIsUnsent'
    BY <1>1, <2>1 DEF DeliveryInv, LeftIsUnsent
  <2> QED
    BY <2>2, <2>3, <2>4 DEF DeliveryInv
<1> QED
  BY <1>2, <1>3

(* The mail that the server takes, or may have taken, is not left. *)
LEMMA HandingOverDelivers ==
  ASSUME DeliveryInv, NEW w \in Worker, NEW t \in Task, NEW u \in User, HandOver(w, t, u)
  PROVE  DeliveryInv'
<1>1. /\ tasks[t].at = w /\ w # "broker" /\ u \in rest[w] /\ u \in DOMAIN tasks[t].to
      /\ UNCHANGED <<user, year, queued, changes, tasks>>
  BY MailsAssumption DEF HandOver, Refused, DeliveryInv, OneTaskEach
<1>2. /\ DOMAIN rest' = Worker /\ rest'[w] = rest[w] \ {u}
      /\ \A v \in Worker \ {w} : rest'[v] = rest[v]
  BY DEF HandOver, Refused, DeliveryInv, Known
<1>3. sent[t][u] = 0
  BY <1>1 DEF DeliveryInv, LeftIsUnsent
<1>4. /\ DOMAIN sent' = Task /\ sent'[t] \in [DOMAIN tasks[t].to -> {0, 1}]
      /\ \A o \in Task : o # t => sent'[o] = sent[o]
      /\ \A v \in DOMAIN tasks[t].to : v # u => sent'[t][v] = sent[t][v]
  <2>1. CASE sent' = sent
    BY <2>1 DEF DeliveryInv, Known, KnownTask
  <2>2. CASE sent' = Taken(t, u)
    BY <1>1, <1>3, <2>2 DEF Taken, DeliveryInv, Known, KnownTask
  <2> QED
    BY <2>1, <2>2 DEF HandOver, Refused
<1>5. Known'
  BY <1>1, <1>2, <1>4 DEF DeliveryInv, Known, KnownTask, Task
<1>6. OneTaskEach'
  BY <1>1, <1>2 DEF DeliveryInv, OneTaskEach, Known, KnownTask, Task
<1>7. LeftIsUnsent'
  BY <1>1, <1>2, <1>4 DEF DeliveryInv, LeftIsUnsent, OneTaskEach, Known, KnownTask, Task
<1> QED
  BY <1>5, <1>6, <1>7 DEF DeliveryInv

LEMMA FinishDelivers ==
  ASSUME DeliveryInv, NEW w \in Worker, NEW t \in Task, Finish(w, t)
  PROVE  DeliveryInv'
BY DropDelivers, MailsAssumption DEF Finish

(* What becomes of users leaves the tasks alone. *)
LEMMA OthersDeliver ==
  ASSUME DeliveryInv, UNCHANGED <<tasks, queued, rest, sent>>,
         user' \in [User -> UserRow], year' \in 0 .. LastYear, changes' \in 0 .. MaxChanges
  PROVE  DeliveryInv'
BY DEF DeliveryInv, Known, KnownTask, OneTaskEach, LeftIsUnsent, Task

LEMMA ChangesAreKnown ==
  ASSUME Known, NEW u \in User, Change(u)
  PROVE  user' \in [User -> UserRow] /\ changes' \in 0 .. MaxChanges
<1>1. changes' \in 0 .. MaxChanges
  BY MailsAssumption DEF Change, Known
<1>2. user[u] \in UserRow /\ year \in 0 .. LastYear
  BY DEF Known
<1>3. CASE Edit(u)
  <2>1. PICK email, forwarded \in BOOLEAN : user' = [user EXCEPT ![u].email = email, ![u].forwarded = forwarded]
    BY <1>3 DEF Edit
  <2>2. [user[u] EXCEPT !.email = email, !.forwarded = forwarded] \in UserRow
    BY <1>2 DEF UserRow
  <2>3. user' = [user EXCEPT ![u] = [user[u] EXCEPT !.email = email, !.forwarded = forwarded]]
    BY <2>1
  <2>4. user \in [User -> UserRow]
    BY DEF Known
  <2> QED
    BY <1>1, <2>2, <2>3, <2>4
<1>4. CASE Owe(u)
  BY <1>1, <1>2, <1>4 DEF Owe, Known, UserRow
<1>5. CASE Regroup(u)
  <2>1. CASE user' = [user EXCEPT ![u].keep = ~ @]
    BY <1>1, <1>2, <2>1 DEF Known, UserRow
  <2>2. CASE user' # [user EXCEPT ![u].keep = ~ @]
    <3>1. PICK left \in (0 .. LastYear) \cup {Null, Never}, mailbox \in BOOLEAN :
            user' = [user EXCEPT ![u].left = left, ![u].mailbox = mailbox]
      <4> DEFINE until == IF user[u].left = Null THEN year ELSE Null
                 has   == user[u].left # Null
      <4>1. user' = [user EXCEPT ![u].left = until, ![u].mailbox = has]
        BY <1>5, <2>2 DEF Regroup
      <4>2. until \in (0 .. LastYear) \cup {Null, Never} /\ has \in BOOLEAN
        BY <1>2
      <4> HIDE DEF until, has
      <4> QED
        BY <4>1, <4>2
    <3> QED
      BY <1>1, <1>2, <3>1 DEF Known, UserRow
  <2> QED
    BY <2>1, <2>2
<1> QED
  BY <1>3, <1>4, <1>5 DEF Change

LEMMA ScrubbingIsKnown ==
  ASSUME Known, NEW s \in Session, ScrubMails(s)
  PROVE  user' \in [User -> UserRow]
BY DEF ScrubMails, Known, UserRow

LEMMA NextDelivers == DeliveryInv /\ [MailNext]_mailVars => DeliveryInv'
<1> SUFFICES ASSUME DeliveryInv, [MailNext]_mailVars PROVE DeliveryInv'
  OBVIOUS
<1>1. Known
  BY DEF DeliveryInv
<1>2. CASE Write
  BY <1>1, <1>2, WritingQueues, QueueDelivers
<1>3. CASE NewYear
  BY <1>1, <1>3, OthersDeliver, MailsAssumption DEF NewYear, Known
<1>4. ASSUME NEW w \in Worker, NEW t \in Task, Work(w, t) PROVE DeliveryInv'
  BY <1>4, ConnectDelivers, FailingDelivers, FinishDelivers, HandingOverDelivers DEF Work
<1>5. ASSUME NEW s \in Session, ScrubAllMails(s) \/ ScrubMails(s) \/ Abandon(s) PROVE DeliveryInv'
  <2>1. user' \in [User -> UserRow]
    BY <1>1, <1>5, ScrubbingIsKnown DEF ScrubAllMails, Abandon, Known
  <2> QED
    BY <1>1, <1>5, <2>1, OthersDeliver DEF ScrubAllMails, ScrubMails, Abandon, Known
<1>6. ASSUME NEW u \in User, Change(u) PROVE DeliveryInv'
  BY <1>1, <1>6, ChangesAreKnown, OthersDeliver DEF Change, Known
<1>7. CASE UNCHANGED mailVars
  BY <1>1, <1>7, OthersDeliver DEF mailVars, Known
<1> QED
  BY <1>2, <1>3, <1>4, <1>5, <1>6, <1>7 DEF MailNext

LEMMA AtMostOne ==
  ASSUME NEW S, \A x, y \in S : x = y
  PROVE  Cardinality(S) <= 1
<1>1. CASE S = {}
  BY <1>1, FS_EmptySet
<1>2. CASE S # {}
  <2>1. PICK x : S = {x}
    BY <1>2
  <2> QED
    BY <2>1, FS_Singleton
<1> QED
  BY <1>1, <1>2

LEMMA DeliveryImpliesInv == DeliveryInv => MailInv
<1> SUFFICES ASSUME DeliveryInv PROVE MailInv
  OBVIOUS
<1>1. ASSUME NEW t \in Task
      PROVE  /\ tasks[t].tries \in 0 .. MaxRetries
             /\ tasks[t].at \in Worker \cup {"broker"}
             /\ tasks[t].to \in [DOMAIN tasks[t].to -> Address]
             /\ \A u \in DOMAIN tasks[t].to : sent[t][u] <= 1
  <2>1. KnownTask(t)
    BY DEF DeliveryInv, Known
  <2>2. PICK U \in SUBSET User : tasks[t].to \in [U -> Address]
    BY <2>1 DEF KnownTask, Letters
  <2> QED
    BY <2>1, <2>2 DEF KnownTask
<1>2. ASSUME NEW w \in Worker PROVE Cardinality(Held(w)) <= 1
  <2>1. \A t, o \in Held(w) : t = o
    BY MailsAssumption DEF Held, DeliveryInv, OneTaskEach
  <2> QED
    BY <2>1, AtMostOne
<1>3. ASSUME NEW w \in Worker PROVE rest[w] \subseteq UNION {DOMAIN tasks[t].to : t \in Held(w)}
  <2> SUFFICES ASSUME NEW u \in rest[w] PROVE \E t \in Held(w) : u \in DOMAIN tasks[t].to
    OBVIOUS
  <2> QED
    BY MailsAssumption DEF Held, DeliveryInv, OneTaskEach
<1> QED
  BY <1>1, <1>2, <1>3 DEF MailInv, MailTypes, SentAtMostOnce, DeliveryInv, Known

(* A worker holds one task at a time and tries nobody in vain or twice: a  *)
(* task is put back only before its first mail (send_mails_async), so that *)
(* the mail server takes every mail at most once.                          *)
THEOREM MailsGoOnce == MailSpec => []MailInv
<1>1. MailSpec => []DeliveryInv
  BY DeliveryBegins, NextDelivers, PTL DEF MailSpec
<1> QED
  BY <1>1, DeliveryImpliesInv, PTL
----------------------------------------------------------------------------
(* Scrubbing: what a statement will delete is of somebody who is gone,     *)
(* unless that has changed since its snapshot.                             *)

Gone(u) == user[u].left \in Int /\ user[u].left < year - 1 /\ ~ user[u].keep

ScrubbedAreGone ==
  /\ DOMAIN scrub = Session /\ DOMAIN meanwhile = Session /\ scrubbed \in [User -> Nat]
  /\ \A s \in Session : scrub[s] # Null => \A u \in scrub[s] \cap User : u \in meanwhile[s] \/ Gone(u)

ScrubInv == Known /\ ScrubbedAreGone

LEMMA ScrubbingBegins == MailInit => ScrubbedAreGone
BY DEF MailInit, ScrubbedAreGone

LEMMA SnapshotsAreGone ==
  ASSUME ScrubInv, NEW s \in Session, ScrubAllMails(s)
  PROVE  ScrubbedAreGone'
<1>1. \A u \in Scrubbable : Gone(u)'
  BY DEF ScrubAllMails, Scrubbable, Archivable, Gone, ScrubInv, Known
<1>2. \A u \in User : Gone(u)' <=> Gone(u)
  BY DEF ScrubAllMails, Gone
<1>3. /\ DOMAIN scrub' = Session /\ DOMAIN meanwhile' = Session /\ UNCHANGED scrubbed
      /\ scrub'[s] = Scrubbable
      /\ \A o \in Session \ {s} : scrub'[o] = scrub[o] /\ meanwhile'[o] = meanwhile[o]
  BY DEF ScrubAllMails, ScrubInv, ScrubbedAreGone
<1> QED
  BY <1>1, <1>2, <1>3 DEF ScrubInv, ScrubbedAreGone

LEMMA CommitsKeepGone ==
  ASSUME ScrubInv, NEW s \in Session, ScrubMails(s)
  PROVE  ScrubbedAreGone'
<1>1. \A u \in User : Gone(u) => Gone(u)'
  BY DEF ScrubMails, Gone, ScrubInv, Known, UserRow
<1>2. /\ DOMAIN scrub' = Session /\ UNCHANGED meanwhile /\ scrub'[s] = Null
      /\ \A o \in Session \ {s} : scrub'[o] = scrub[o]
  BY DEF ScrubMails, ScrubInv, ScrubbedAreGone
<1>3. scrubbed' \in [User -> Nat]
  <2>1. scrubbed' = [u \in User |-> scrubbed[u] + IF u \in scrub[s] THEN 1 ELSE 0]
    BY DEF ScrubMails
  <2>2. \A u \in User : scrubbed[u] \in Nat
    BY DEF ScrubInv, ScrubbedAreGone
  <2> QED
    BY <2>1, <2>2
<1> QED
  BY <1>1, <1>2, <1>3 DEF ScrubInv, ScrubbedAreGone

(* A change of the membership is noted by all statements under way. *)
LEMMA ChangesAreNoted ==
  ASSUME ScrubInv, NEW u \in User, Change(u)
  PROVE  ScrubbedAreGone'
<1>1. UNCHANGED <<year, scrub, scrubbed>>
  BY DEF Change
<1>2. \A o \in User \ {u} : Gone(o)' <=> Gone(o)
  <2>1. \A o \in User \ {u} : user'[o] = user[o]
    BY DEF Change, Edit, Owe, Regroup, ScrubInv, Known
  <2> QED
    BY <1>1, <2>1 DEF Gone
<1>3. CASE (Edit(u) \/ Owe(u)) /\ UNCHANGED meanwhile
  <2>1. Gone(u)' <=> Gone(u)
    <3>1. user'[u].left = user[u].left /\ user'[u].keep = user[u].keep
      BY <1>3 DEF Edit, Owe, ScrubInv, Known, UserRow
    <3> QED
      BY <1>1, <3>1 DEF Gone
  <2> QED
    BY <1>1, <1>2, <1>3, <2>1 DEF ScrubInv, ScrubbedAreGone
<1>4. CASE meanwhile' = [s \in Session |-> IF scrub[s] = Null THEN {} ELSE meanwhile[s] \cup {u}]
  BY <1>1, <1>2, <1>4 DEF ScrubInv, ScrubbedAreGone
<1> QED
  BY <1>3, <1>4 DEF Change

LEMMA NextKeepsGone == ScrubInv /\ [MailNext]_mailVars => ScrubbedAreGone'
<1> SUFFICES ASSUME ScrubInv, [MailNext]_mailVars PROVE ScrubbedAreGone'
  OBVIOUS
<1> DEFINE Idle == UNCHANGED <<user, year, scrub, meanwhile, scrubbed>>
<1>1. ASSUME Idle PROVE ScrubbedAreGone'
  BY <1>1 DEF ScrubInv, ScrubbedAreGone, Gone
<1>2. CASE Write
  <2>1. Idle
    BY <1>2, WritingQueues DEF ScrubInv, scrubbing
  <2> QED
    BY <1>1, <2>1
<1>3. CASE NewYear
  <2>1. \A u \in User : Gone(u) => Gone(u)'
    BY <1>3, MailsAssumption DEF NewYear, Gone, ScrubInv, Known
  <2>2. UNCHANGED <<scrub, meanwhile, scrubbed>>
    BY <1>3 DEF NewYear, scrubbing
  <2> QED
    BY <2>1, <2>2 DEF ScrubInv, ScrubbedAreGone
<1>4. ASSUME NEW w \in Worker, NEW t \in Task, Work(w, t) PROVE ScrubbedAreGone'
  <2>1. Idle
    BY <1>4 DEF Work, Connect, FailToConnect, Finish, HandOver, scrubbing
  <2> QED
    BY <1>1, <2>1
<1>5. ASSUME NEW s \in Session, Abandon(s) PROVE ScrubbedAreGone'
  BY <1>5 DEF Abandon, ScrubInv, ScrubbedAreGone, Gone
<1>6. CASE UNCHANGED mailVars
  BY <1>1, <1>6 DEF mailVars
<1> QED
  BY <1>2, <1>3, <1>4, <1>5, <1>6, SnapshotsAreGone, CommitsKeepGone, ChangesAreNoted DEF MailNext

(* What scrub_all_mails takes was somebody's who is gone, and is logged. *)
LEMMA CommitSpares ==
  ASSUME ScrubInv, [MailNext]_mailVars, NEW s \in Session, scrub[s] # Null, user' # user, scrub'[s] = Null,
         NEW u \in User, user[u].email, ~ user'[u].email
  PROVE  scrubbed'[u] > scrubbed[u] /\ (u \in meanwhile[s] \/ Gone(u))
<1>1. ScrubMails(s)
  <2>1. PICK o \in Session : ScrubMails(o)
    <3>1. ~ Write
      BY WritingQueues DEF ScrubInv
    <3>2. ~ UNCHANGED mailVars /\ ~ NewYear
      BY DEF mailVars, NewYear
    <3>3. ~ \E w \in Worker, t \in Task : Work(w, t)
      BY DEF Work, Connect, FailToConnect, Finish, HandOver
    <3>4. ~ \E o \in User : Change(o)
      BY DEF Change
    <3>5. \A o \in Session : ~ ScrubAllMails(o) /\ ~ Abandon(o)
      BY DEF ScrubAllMails, Abandon
    <3> QED
      BY <3>1, <3>2, <3>3, <3>4, <3>5 DEF MailNext
  <2>2. o = s
    BY <2>1 DEF ScrubMails, ScrubInv, ScrubbedAreGone
  <2> QED
    BY <2>1, <2>2
<1>2. u \in scrub[s]
  BY <1>1 DEF ScrubMails
<1>3. scrubbed'[u] = scrubbed[u] + 1 /\ scrubbed[u] \in Nat
  BY <1>1, <1>2 DEF ScrubMails, ScrubInv, ScrubbedAreGone
<1> QED
  BY <1>2, <1>3 DEF ScrubInv, ScrubbedAreGone

(* Scrubbing takes an address only from somebody who left before the last  *)
(* year began and may be archived, unless that changed while it was under  *)
(* way, and always leaves an entry in the log (scrub_all_mails).           *)
THEOREM MembersAreSpared == MailSpec => ScrubbingSparesMembers
<1>1. MailSpec => []DeliveryInv
  BY DeliveryBegins, NextDelivers, PTL DEF MailSpec
<1>2. MailInit => ScrubInv
  BY DeliveryBegins, ScrubbingBegins DEF ScrubInv, DeliveryInv
<1>3. DeliveryInv' /\ ScrubInv /\ [MailNext]_mailVars => ScrubInv'
  BY NextKeepsGone DEF ScrubInv, DeliveryInv
<1>4. MailSpec => []ScrubInv
  BY <1>1, <1>2, <1>3, PTL DEF MailSpec
<1>5. ScrubInv /\ [MailNext]_mailVars =>
        [\A s \in Session : scrub[s] # Null /\ user' # user /\ scrub'[s] = Null =>
           \A u \in User : user[u].email /\ ~ user'[u].email =>
             /\ scrubbed'[u] > scrubbed[u]
             /\ \/ u \in meanwhile[s]
                \/ user[u].left \in Int /\ user[u].left < year - 1 /\ ~ user[u].keep]_mailVars
  BY CommitSpares DEF Gone
<1> QED
  BY <1>4, <1>5, PTL DEF MailSpec, ScrubbingSparesMembers
=============================================================================
