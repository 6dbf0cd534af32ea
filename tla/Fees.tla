-------------------------------- MODULE Fees --------------------------------
(***************************************************************************)
(* Who is charged a month's membership fee, and the balance that a member  *)
(* is told to expect who asks to leave (lib/finance/membership_fee.py,     *)
(* shown by the API before a membership is terminated).                    *)
(*                                                                         *)
(* Days are numbered, a month has MonthLength days, and an instant is a    *)
(* day and an hour: its first minute, some time of it, or its last.        *)
(***************************************************************************)
EXTENDS Integers, FiniteSets

CONSTANTS
  MonthLength,
  BookingBegin, BookingEnd    \* days of the month that a fee goes by

ASSUME MonthAssumption == MonthLength \in Nat \ {0, 1}
ASSUME BookingAssumption ==
  BookingBegin \in 1 .. MonthLength /\ BookingEnd \in BookingBegin .. MonthLength

with_min_time(day) == 3 * day
During(day)        == 3 * day + 1
with_max_time(day) == 3 * day + 2

Month(day)    == day \div MonthLength
DayOf(m, nth) == m * MonthLength + nth - 1

diff_month(d1, d2) == Month(d1) - Month(d2)

(* A membership with the property membership_fee, from some time of the    *)
(* day joins to some time of the day leaves: the task that ends it is due  *)
(* at its first minute and runs later.                                     *)
HasFeeProperty(joins, leaves, t) == During(joins) <= t /\ t < During(leaves)

MutHasToPay(joins, leaves, m) ==    \* mutation: the grace is forgotten
  \/ HasFeeProperty(joins, leaves, with_min_time(DayOf(m, 1)))
  \/ HasFeeProperty(joins, leaves, with_max_time(DayOf(m, BookingEnd)))

(* users_eligible_for_fee_query: on the first day of booking, or the last. *)
HasToPay(joins, leaves, m) ==
  \/ HasFeeProperty(joins, leaves, with_min_time(DayOf(m, BookingBegin)))
  \/ HasFeeProperty(joins, leaves, with_max_time(DayOf(m, BookingEnd)))

(* fee_from_valid_date, of the months that have been booked. *)
Outstanding(m, booked) == m \notin booked

One(P) == IF P THEN 1 ELSE 0

(* User.has_property, of the property membership_fee of a member who has   *)
(* not left.                                                               *)
has_property(joins, t) == During(joins) <= t

(* The months that estimate_balance takes off the balance, for a member of *)
(* today without an end, from the day now, for a membership that would end *)
(* on the day leaves.                                                      *)
MonthsToPay(joins, leaves, now, booked) ==
  LET tomorrow  == now + 1
      this      == Month(tomorrow)
      justified == leaves - (BookingBegin - 1)
      Pays(m)   == has_property(joins, with_min_time(DayOf(m, BookingEnd)))
  IN diff_month(justified, tomorrow)
     + One(Pays(this))
     + One(Outstanding(this - 1, booked) /\ Pays(this - 1))
     - One(~Outstanding(this, booked))

----------------------------------------------------------------------------
(* What is booked until the estimate: of the last and of this month, where *)
(* the member had to pay.                                                  *)
Bookings(joins, now) ==
  LET this == Month(now + 1)
      Due  == {m \in {this - 1, this} : During(joins) <= with_max_time(DayOf(m, BookingEnd))}
  IN {B \in SUBSET Due : this \in B /\ this - 1 \in Due => this - 1 \in B}

WillBeCharged(joins, leaves, now, booked) ==
  {m \in Month(now + 1) - 1 .. Month(leaves) : m \notin booked /\ HasToPay(joins, leaves, m)}

(* Where the estimate is off by a month.  It looks at the first minute of  *)
(* the last day of booking, and misses one who joined later that day; it   *)
(* gives back a month that is booked already to one who leaves in its      *)
(* grace; and it counts a month in which a member comes and goes between   *)
(* the days of booking.                                                    *)
JoinedOnLastDay(joins, now, booked) ==
  \E m \in {Month(now + 1) - 1, Month(now + 1)} :
    joins = DayOf(m, BookingEnd) /\ (m = Month(now + 1) - 1 => Outstanding(m, booked))

GivesBack(joins, leaves, now, booked) ==
  LET this == Month(now + 1) IN
  this \in booked /\ leaves < DayOf(this, BookingBegin)

ComesAndGoes(joins, leaves, now) ==
  LET this == Month(now + 1) IN
  joins >= DayOf(this, BookingBegin) /\ leaves <= DayOf(this, BookingEnd)

(* A member who means to leave one of these days is told what will be      *)
(* charged, else.                                                          *)
EstimateIsRightFor(days, ends) ==
  \A now \in days : \A joins \in 0 .. now, leaves \in {day \in ends : day > now} :
  \A booked \in Bookings(joins, now) :
    \/ MonthsToPay(joins, leaves, now, booked)
       = Cardinality(WillBeCharged(joins, leaves, now, booked))
    \/ JoinedOnLastDay(joins, now, booked)
    \/ GivesBack(joins, leaves, now, booked)
    \/ ComesAndGoes(joins, leaves, now)
=============================================================================
