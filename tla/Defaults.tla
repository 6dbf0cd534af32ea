------------------------------ MODULE Defaults ------------------------------
(***************************************************************************)
(* Payment in default of one member, day by day: the days since the        *)
(* account has been overdue, the deadlines of the membership fees, the     *)
(* group payment_in_default with its week of grace, and the end of the     *)
(* membership (lib/finance/payment_in_default, unblock, and their pages).  *)
(*                                                                         *)
(* Left out: requests at the same time, see Ledger; active members, who    *)
(* are only not ticked by default; rooms and hosts, see UserTasks; and the *)
(* other groups of blocked users, which unblock ends as well.              *)
(***************************************************************************)
EXTENDS Integers, FiniteSets

CONSTANTS
  LastDay,         \* bound on the days
  MaxSplits,       \* bound on what is booked
  MaxFees,         \* bound on the membership fees
  MaxEnds,         \* bound on the memberships that end for a debt
  FeeForm,         \* what is entered: [begins, ends, deadline, final]
  Grace,           \* the week after payment_in_default, in days: 7 in the code
  None, Open       \* no interval; an interval without an end

Day      == 0 .. LastDay
Interval == [from : Day, until : Day \cup {Open}]

ASSUME DayAssumption  == LastDay \in Nat /\ MaxEnds \in Nat /\ MaxSplits \in Nat /\ MaxFees \in Nat /\ Grace \in Nat
ASSUME FeeAssumption  ==
  \A f \in FeeForm : /\ f.begins \in Nat /\ f.ends \in Nat /\ f.begins <= f.ends
                     /\ f.deadline \in Nat /\ f.final \in Nat    \* in any order
ASSUME NoneAssumption == None \notin Int /\ Open \notin Int /\ None # Open /\ None \notin Interval

VARIABLES
  today,
  fees,            \* the table membership_fee
  charges,         \* day -> what is charged to the account, valid on that day
  payments,        \* day -> what is paid
  member,          \* the last membership in the member group: [from, until]
  pid,             \* the last one in the payment_in_default group
  ended            \* log entries "Mitgliedschaftsende wegen Zahlungsrueckstand"

vars == <<today, fees, charges, payments, member, pid, ended>>

account == <<fees, charges, payments>>
groups  == <<member, pid, ended>>

----------------------------------------------------------------------------
(* The account. *)

Total[d \in -1 .. LastDay] ==
  IF d = -1 THEN 0 ELSE Total[d - 1] + charges[d] - payments[d]

Balance == Total[LastDay]    \* of what is booked, today or later

MutPaid(d) == Total[d] < 0    \* mutation: zero is still a debt

Paid(d) == Total[d] <= 0

(* in_default_days, the day it counts from: the first split that made the  *)
(* sum positive for good.  Splits of a day come in any order, so that a    *)
(* payment may reach zero for a moment.                                    *)
OverdueSince[d \in -1 .. LastDay] ==
  IF d = -1 THEN {None}
  ELSE IF charges[d] + payments[d] = 0 THEN OverdueSince[d - 1]
  ELSE IF Paid(d) THEN {None}
  ELSE {IF x = None THEN d ELSE x : x \in OverdueSince[d - 1]}
         \cup {x \in {d} : payments[d] >= Total[d - 1]}

(* fabs: a day to come counts as well *)
InDefaultDays(since) == IF since > today THEN since - today ELSE today - since

(* get_membership_fee_for_date asks with a time of day, which the midnight *)
(* that begins the last day of a fee precedes.                             *)
FeesFor(day) == {f \in fees : f.begins <= day /\ day < f.ends}

(* get_last_applied_membership_fee *)
LastApplied ==
  {f \in fees : f.ends <= today /\ \A g \in fees : g.ends <= today => g.ends <= f.ends}

(* None is found, or more than one: the page fails. *)
FeesOfDefault(since) ==
  LET found == FeesFor(today - InDefaultDays(since))
  IN  IF found = {} THEN LastApplied ELSE {f \in found : Cardinality(found) = 1}

----------------------------------------------------------------------------
(* Memberships. *)

During(interval) ==
  interval # None /\ interval.from <= today /\ (interval.until # Open => interval.until > today)

IsMember == During(member)
InPid    == pid # None /\ pid.until = Open

(* remove_member_of, starting from a day that may be in the past *)
CutAt(interval, day) ==
  IF interval = None \/ day <= interval.from THEN None
  ELSE IF interval.until # Open /\ interval.until <= day THEN interval
  ELSE [interval EXCEPT !.until = day]

EndedToday(interval) == [interval EXCEPT !.until = today]

(* end_payment_in_default_memberships *)
Settled == IF InPid /\ Balance <= 0 THEN EndedToday(pid) ELSE pid

(* get_negative_members *)
Negative == IsMember /\ Balance > 0

(* It ended less than a week ago; after exactly a week the time of day     *)
(* decides.                                                                *)
InGrace ==
  IF pid = None \/ pid.until = Open THEN {FALSE}
  ELSE IF pid.until > today - Grace THEN {TRUE}
  ELSE IF pid.until = today - Grace THEN BOOLEAN ELSE {FALSE}

ToBlock(days, fee, grace) == days >= fee.deadline /\ ~ grace /\ ~ InPid

MutToEnd(days, fee, grace) ==    \* mutation: blocked and ended at once
  days >= fee.final /\ ~ grace

(* users_membership_terminated without users_pid_membership *)
ToEnd(days, fee, grace) ==
  days >= fee.final /\ ~ (days >= fee.deadline /\ grace) /\ ~ ToBlock(days, fee, grace)

MutEndOfMembership(days, fee) == today - days    \* mutation: when the debt began

EndOfMembership(days, fee) == today - (days - fee.final)

----------------------------------------------------------------------------

NextDay ==
  /\ today < LastDay /\ today' = today + 1
  /\ UNCHANGED <<account, groups>>

Booked ==
  LET N[d \in -1 .. LastDay] == IF d = -1 THEN 0 ELSE N[d - 1] + charges[d] + payments[d]
  IN  N[LastDay]

(* transactions_create and post_transactions_for_membership_fee, which     *)
(* books on the last day of a fee                                          *)
Charge(d) ==
  /\ Booked < MaxSplits
  /\ charges' = [charges EXCEPT ![d] = @ + 1]
  /\ UNCHANGED <<today, fees, payments, groups>>

(* bank_account_activities_do_match: payments are of today or before, and  *)
(* who has paid is free.                                                   *)
Pay(d, amount) ==
  /\ d <= today /\ Booked + amount <= MaxSplits
  /\ payments' = [payments EXCEPT ![d] = @ + amount]
  /\ pid' = IF InPid /\ Balance <= amount THEN EndedToday(pid) ELSE pid
  /\ UNCHANGED <<today, fees, charges, member, ended>>

(* membership_fee_create *)
CreateFee(f) ==
  /\ Cardinality(fees) < MaxFees
  /\ fees' = fees \cup {f}
  /\ UNCHANGED <<today, charges, payments, groups>>

(* membership_fee_edit *)
EditFee(f, g) ==
  /\ f \in fees
  /\ fees' = (fees \ {f}) \cup {g}
  /\ UNCHANGED <<today, charges, payments, groups>>

(* take_actions_for_payment_in_default_users, for what is ticked and is    *)
(* still offered *)
TakeActions(since, fee, grace, ticked) ==
  LET days == InDefaultDays(since) IN
  /\ "block" \in ticked => ToBlock(days, fee, grace)
  /\ "end" \in ticked => ToEnd(days, fee, grace)
  /\ pid' = IF "block" \notin ticked THEN pid
            ELSE IF pid # None /\ pid.until = today THEN [pid EXCEPT !.until = Open]
            ELSE [from |-> today, until |-> Open]
  /\ member' = IF "end" \in ticked THEN CutAt(member, EndOfMembership(days, fee)) ELSE member
  /\ ended' = IF "end" \in ticked THEN ended + 1 ELSE ended

(* handle_payments_in_default; who owes something is overdue since a day  *)
HandleDefaults(ticked) ==
  /\ IF Negative
     THEN \E since \in Day \cap OverdueSince[LastDay] : \E fee \in FeesOfDefault(since), grace \in InGrace :
            TakeActions(since, fee, grace, ticked)
     ELSE ticked = {} /\ pid' = Settled /\ UNCHANGED <<member, ended>>
  /\ UNCHANGED <<today, account>>

(* unblock *)
Unblock ==
  /\ pid' = IF InPid THEN EndedToday(pid) ELSE pid
  /\ UNCHANGED <<today, account, member, ended>>

(* move_in, with the member group *)
MoveIn ==
  /\ ~ IsMember /\ ended < MaxEnds
  /\ member' = [from |-> today, until |-> Open]
  /\ UNCHANGED <<today, account, pid, ended>>

(* move_out, without a debt *)
MoveOut ==
  /\ IsMember
  /\ member' = CutAt(member, today)
  /\ UNCHANGED <<today, account, pid, ended>>

Init ==
  /\ today = 0 /\ fees = {} /\ ended = 0
  /\ charges = [d \in Day |-> 0] /\ payments = [d \in Day |-> 0]
  /\ member = [from |-> 0, until |-> Open] /\ pid = None

Next ==
  \/ NextDay \/ Unblock \/ MoveIn \/ MoveOut
  \/ \E d \in Day : Charge(d) \/ \E amount \in 1 .. 2 : Pay(d, amount)
  \/ \E f \in FeeForm : CreateFee(f) \/ \E g \in FeeForm : EditFee(g, f)
  \/ \E ticked \in SUBSET {"block", "end"} : HandleDefaults(ticked)

Spec == Init /\ [][Next]_vars

----------------------------------------------------------------------------
IsInterval(i) ==
  i # None => i.from \in Day /\ (i.until # Open => i.until \in Day /\ i.from <= i.until)

(* Intervals lie in the days that there are, and none ends before it       *)
(* begins, however far an end is backdated (remove_member_of, move_out).   *)
TypeOK ==
  /\ today \in Day /\ fees \subseteq FeeForm /\ Cardinality(fees) <= MaxFees
  /\ charges \in [Day -> Nat] /\ payments \in [Day -> Nat] /\ Booked <= MaxSplits
  /\ IsInterval(member) /\ IsInterval(pid)
  /\ ended \in Nat

Owed(from, to) == \A d \in Day : from <= d /\ d <= to => Total[d] > 0

NothingToCome == \A d \in Day : d > today => charges[d] = 0

(* Who is blocked for a debt has owed something on every day since a day   *)
(* that lies the deadline of a fee back, and the fee is the one of that    *)
(* day if there is one.  (A charge that is valid on a day to come counts   *)
(* by the distance of that day: in_default_days.)                          *)
NotBlockedEarly ==
  [][InPid' /\ ~ InPid /\ NothingToCome =>
       \E d \in Day : \E f \in IF FeesFor(d) = {} THEN fees ELSE FeesFor(d) :
         d + f.deadline <= today /\ Owed(d, today)]_vars

(* A debt has the age at which a fee ends the membership, but not yet the  *)
(* age at which it blocks: its deadlines are entered one by one, and       *)
(* neither the form nor the table puts them in order.                      *)
EndsUnannounced(f) ==
  \E since \in OverdueSince[LastDay] \ {None} :
    f.final <= InDefaultDays(since) /\ InDefaultDays(since) < f.deadline

(* A membership ends for a debt only in a request that finds the member    *)
(* blocked for it, never in the one that blocks, unless the fee ends it    *)
(* unannounced (get_users_with_payment_in_default).                        *)
EndedAfterNotice ==
  [][ended' # ended => (InPid /\ InPid') \/ \E f \in fees : EndsUnannounced(f)]_vars

(* In the week after a block for a debt was lifted, by a payment or by     *)
(* hand, nobody is blocked for a debt again; nor does a membership end for *)
(* it, unless the fee ends it unannounced.                                 *)
GraceIsKept ==
  [][pid # None /\ pid.until # Open /\ pid.until > today - Grace =>
       ~ InPid' /\ (ended' = ended \/ \E f \in fees : EndsUnannounced(f))]_vars

(* A membership ends, with hindsight, on a day before which the member has *)
(* owed something throughout the final deadline, and ever since.           *)
EndsAtFinalDeadline ==
  [][ended' # ended /\ NothingToCome =>
       \E f \in fees :
         IF member' = None THEN Owed(member.from - f.final, today)
         ELSE member'.until <= today /\ Owed(member'.until - f.final, today)]_vars

(* A debtor is told before the membership ends, and has a week to explain, *)
(* but where the deadlines of a fee are out of order.                      *)
DebtorsAreWarned == EndedAfterNotice /\ GraceIsKept
=============================================================================
