------------------------------- MODULE Ledger -------------------------------
(***************************************************************************)
(* The books: transactions of splits, the bank account activities that are *)
(* booked by them, membership fees, and the group payment_in_default       *)
(* (model/finance.py, lib/finance, web/blueprints/finance).                *)
(*                                                                         *)
(* A request of a clerk reads and decides (AssignActivity, BookFee, ...),  *)
(* executes its statements (Flush: it waits for the rows that others have  *)
(* written) and commits.  Everything runs READ COMMITTED, so that only a   *)
(* lock, a missing row or a constraint stops a request that was overtaken. *)
(***************************************************************************)
EXTENDS Integers, FiniteSets, SequencesExt, UserIds, Fees

CONSTANTS
  User,            \* users, who stand for their accounts
  FeeAccount,      \* fee accounts of the buildings, and the default one
  Bank,            \* the account of the one bank account
  Unattributed,    \* config.non_attributable_transactions_account
  Activity,        \* the imported bank account activities
  Amount, ValidOn, \* of an activity
  Reference,       \* of an activity: what in its text looks like a user id
  UserId, UserOf,  \* the ids there are; id -> the user with this id
  Team,            \* of an activity: the account of a pattern that fits, or None
  Returnable,      \* positive, with the payer's account, imported 14 days ago
  Fee,             \* membership fees: [begins, ends, amount]
  Booking,         \* what may be filled in as a transaction: [splits, valid]
  Payable,         \* bound on the accounts that payments are assigned to
  Clerk, Treasurer,
  None,
  MaxTransaction   \* bound on the transactions ever made

Account == User \cup FeeAccount \cup {Bank, Unattributed}
Id      == 1 .. MaxTransaction

ASSUME ActivityAssumption ==
  /\ Amount \in [Activity -> Int]
  /\ ValidOn \in [Activity -> Nat]
  /\ DOMAIN Reference = Activity
  /\ DOMAIN UserOf \subseteq UserId /\ \A n \in DOMAIN UserOf : UserOf[n] \in User
  /\ Team \in [Activity -> (Account \ {Bank}) \cup {None}]
  /\ Returnable \subseteq {a \in Activity : Amount[a] > 0}
  /\ Payable \subseteq Account
\* [\d]{4,6}: of a longer id, only a part would be looked at.
ASSUME UserIdAssumption == UserId \subseteq Nat /\ \A n \in UserId : n < 1000000
ASSUME FeeAssumption ==
  /\ Fee \subseteq [begins: Nat, ends: Nat, amount: Nat \ {0}]
  /\ \A f \in Fee : f.begins <= f.ends
ASSUME BookingsAssumption ==
  \A b \in Booking :
    DOMAIN b.splits \subseteq Account /\ b.splits \in [DOMAIN b.splits -> Int] /\ b.valid \in Nat
ASSUME AccountAssumption == User \cap FeeAccount = {} /\ Bank \notin User \cup {Unattributed}
ASSUME FiniteAssumption == IsFiniteSet(User) /\ IsFiniteSet(Activity)

(* The transactions with splits on the accounts C *)
Transaction(C) ==
  [splits: [C -> Int], valid: Nat, confirmed: BOOLEAN, origin: Activity \cup {None}]

ASSUME NoneAssumption ==
  /\ None \notin Account \cup Activity
  /\ \A C \in SUBSET Account : None \notin Transaction(C)
ASSUME TreasurerAssumption == Treasurer \subseteq Clerk
ASSUME BoundAssumption == MaxTransaction \in Nat

VARIABLES
  ledger,      \* id -> the transaction, or None before and after its life
  last,        \* the id sequence
  assigned,    \* bank_account_activity.transaction_id, 0 for null
  blocked,     \* members of config.payment_in_default_group
  request      \* clerk -> the request at work, or None

vars == <<ledger, last, assigned, blocked, request>>

(* splits is a function on the accounts of a transaction: the constraint   *)
(* UNIQUE (transaction_id, account_id).  origin is the activity that it    *)
(* was made for, which the code does not remember.                         *)
IsTransaction(x) == DOMAIN x.splits \subseteq Account /\ x \in Transaction(DOMAIN x.splits)

(* What a request is going to write; unlink are the activities whose split *)
(* the ORM has found before deleting it.  settles: it calls                *)
(* end_payment_in_default_memberships.  fresh, alone: no conflicting       *)
(* request, no request at all has committed since it began.                *)
Nothing ==
  [op |-> "none", insert |-> {}, confirm |-> {}, delete |-> {}, unlink |-> {},
   block |-> {}, unblock |-> {}, settles |-> FALSE, flushed |-> FALSE,
   fresh |-> TRUE, alone |-> TRUE]

IsRequest(r) ==
  /\ DOMAIN r = DOMAIN Nothing
  /\ r.op \in {"assign", "match", "return", "create", "fee", "confirm", "delete", "default"}
  /\ \A x \in r.insert : IsTransaction(x)
  /\ r.confirm \cup r.delete \subseteq 1 .. last
  /\ r.unlink \subseteq Activity
  /\ r.block \cup r.unblock \subseteq User
  /\ {r.settles, r.flushed, r.fresh, r.alone} \subseteq BOOLEAN

Living == {i \in Id : ledger[i] # None}

TypeOK ==
  /\ DOMAIN ledger = Id
  /\ last \in 0 .. MaxTransaction
  /\ \A i \in Living : IsTransaction(ledger[i]) /\ i <= last
  /\ assigned \in [Activity -> {0} \cup Living]
  /\ blocked \subseteq User
  /\ DOMAIN request = Clerk
  /\ \A s \in Clerk : request[s] = None \/ IsRequest(request[s])

Init ==
  /\ ledger = [i \in Id |-> None]
  /\ last = 0
  /\ assigned = [a \in Activity |-> 0]
  /\ blocked = {}
  /\ request = [s \in Clerk |-> None]

----------------------------------------------------------------------------
Total(S, f(_)) == MapThenSumSet(f, S)

Balanced(splits) == Total(DOMAIN splits, LAMBDA c : splits[c]) = 0

(* check_transaction_on_save and the deferred trigger on splits. *)
Legal(splits) == Balanced(splits) /\ Cardinality(DOMAIN splits) >= 2

InAccount(x, c) == IF c \in DOMAIN x.splits THEN x.splits[c] ELSE 0

(* Account.balance: of a user, what the user owes. *)
Balance(c) == Total(Living, LAMBDA i : InAccount(ledger[i], c))

(* simple_transaction; always legal for two accounts. *)
Transfer(debit, credit, amount) ==
  [c \in {debit, credit} |-> IF c = debit THEN -amount ELSE amount]

Payment(a, account, confirmed) ==
  [splits |-> Transfer(account, Bank, Amount[a]), valid |-> ValidOn[a],
   confirmed |-> confirmed, origin |-> a]

Unassigned == {a \in Activity : assigned[a] = 0}

Decide(s, op, r) ==
  /\ request' = [request EXCEPT ![s] = [r EXCEPT !.op = op]]
  /\ UNCHANGED <<ledger, last, assigned, blocked>>

(* bank_account_activities_edit *)
AssignActivity(s, a, account) ==
  /\ a \in Unassigned
  /\ account # Bank
  /\ Decide(s, "assign",
       [Nothing EXCEPT !.insert = {Payment(a, account, s \in Treasurer)}, !.settles = TRUE])

(* match_activities: the user whose id the reference has, or a team.  If   *)
(* there is no user with the first id that passes, no other id is tried.   *)
Beneficiary ==
  [a \in Activity |->
     LET n == MatchPycroftReference(Reference[a])
     IN IF n \in DOMAIN UserOf THEN UserOf[n] ELSE Team[a]]

(* What the page offers to be checked, and builds again when it is sent. *)
Matchable == {a \in Unassigned : Beneficiary[a] # None}

(* bank_account_activities_do_match, for the activities that are checked *)
MatchActivities(s, A) ==
  /\ A \subseteq Matchable
  /\ Decide(s, "match",
       [Nothing EXCEPT !.insert = {Payment(a, Beneficiary[a], TRUE) : a \in A},
                       !.settles = TRUE])

(* attribute_activities_as_returned *)
AttributedAsReturned(A) ==
  [Nothing EXCEPT !.insert = {Payment(a, Unattributed, FALSE) : a \in A}]

MutReturnActivities(s, A) ==    \* mutation: of any old payment, booked or not
  /\ A \subseteq Returnable
  /\ Decide(s, "return", AttributedAsReturned(A))

(* bank_account_activities_return_do: the file that sends the money back   *)
(* is handed out after the commit.                                         *)
ReturnActivities(s, A) ==
  /\ A \subseteq Returnable \cap Unassigned
  /\ Decide(s, "return", AttributedAsReturned(A))

ComplexTransaction(b, confirmed) ==
  [Nothing EXCEPT !.insert = {[splits |-> b.splits, valid |-> b.valid,
                               confirmed |-> confirmed, origin |-> None]}]

MutCreateTransaction(s, b) ==    \* mutation: nothing checks the splits
  Decide(s, "create", [ComplexTransaction(b, s \in Treasurer) EXCEPT !.settles = TRUE])

(* transactions_create *)
CreateTransaction(s, b) ==
  /\ Legal(b.splits)
  /\ Decide(s, "create", [ComplexTransaction(b, s \in Treasurer) EXCEPT !.settles = TRUE])

(* The transactions by which a user is charged for a fee, as               *)
(* users_eligible_for_fee_query recognises them: with any fee account.     *)
ChargesIn(xs, u, f) ==
  {x \in xs : /\ u \in DOMAIN x.splits
              /\ f.begins <= x.valid /\ x.valid <= f.ends
              /\ \E c \in FeeAccount \cap DOMAIN x.splits : c # u /\ x.splits[c] < 0}

Charges(u, f) == {i \in Living : ChargesIn({ledger[i]}, u, f) # {}}

PostFees(f, home) ==
  [Nothing EXCEPT !.insert = {[splits |-> Transfer(home[u], u, f.amount), valid |-> f.ends,
                               confirmed |-> TRUE, origin |-> None] : u \in DOMAIN home}]

(* membership_fee_book; home maps the users that have the property         *)
(* membership_fee on one of the two days to the account of their building. *)
BookFee(s, f, home) ==
  /\ \A u \in DOMAIN home : Charges(u, f) = {}
  /\ Decide(s, "fee", PostFees(f, home))

Unconfirmed == {i \in Living : ~ledger[i].confirmed}

(* lib.finance.transaction_confirm and transaction_delete; the splits of a *)
(* transaction go with it.                                                 *)
Confirmation(T) == [Nothing EXCEPT !.confirm = T]
Deletion(i)     ==
  [Nothing EXCEPT !.delete = {i}, !.unlink = {a \in Activity : assigned[a] = i}]

(* transaction_confirm, and every step of transactions_confirm_selected,   *)
(* which commits one by one.                                               *)
ConfirmTransaction(s, i) ==
  /\ i \in Unconfirmed
  /\ Decide(s, "confirm", Confirmation({i}))

(* transaction_confirm_all; T are those older than one hour. *)
ConfirmAll(s, T) ==
  /\ T \subseteq Unconfirmed
  /\ Decide(s, "confirm", Confirmation(T))

MutDeleteTransaction(s, i) ==    \* mutation: without the check of confirmed
  /\ i \in Living
  /\ Decide(s, "delete", Deletion(i))

(* transaction_delete *)
DeleteTransaction(s, i) ==
  /\ i \in Unconfirmed
  /\ Decide(s, "delete", Deletion(i))

(* handle_payments_in_default: B are those in debt whose deadline has      *)
(* passed and who are checked in the form.                                 *)
HandleDefaults(s, B) ==
  /\ B \subseteq {u \in User \ blocked : Balance(u) > 0}
  /\ Decide(s, "default",
       [Nothing EXCEPT !.block = B, !.unblock = {u \in blocked : Balance(u) <= 0}])

----------------------------------------------------------------------------
Origins(r) == {x.origin : x \in r.insert} \ {None}

(* The rows that a request updates or deletes. *)
WritesTogether(r, q) ==
  \/ (Origins(r) \cup r.unlink) \cap (Origins(q) \cup q.unlink) # {}
  \/ (r.confirm \cup r.delete) \cap (q.confirm \cup q.delete) # {}

MutSettled(r) == {u \in blocked : Balance(u) <= 0}    \* mutation: before its own flush

(* Users whom their payments have brought out of debt, as this request     *)
(* sees it: what is committed, and its own splits.                         *)
Settled(r) ==
  {u \in blocked : Balance(u) + Total(r.insert, LAMBDA x : InAccount(x, u)) <= 0}

(* The statements of a request.  An UPDATE of a transaction that is gone   *)
(* is a StaleDataError (then only Abandon is left); a DELETE is not, nor   *)
(* is an UPDATE of an activity that has been assigned since.  The ORM may  *)
(* look for the activities to unlink before it has to wait, or after.      *)
Flush(s) ==
  LET r == request[s] IN
  /\ r # None /\ ~r.flushed
  /\ \A o \in Clerk \ {s} :
       request[o] # None /\ request[o].flushed => ~WritesTogether(r, request[o])
  /\ r.confirm \subseteq Living
  /\ \E found \in {r.unlink, {a \in r.unlink : assigned[a] \in r.delete}} :
       request' = [request EXCEPT ![s] =
         [r EXCEPT !.flushed = TRUE, !.unlink = found,
                   !.unblock = IF r.settles THEN Settled(r) ELSE @]]
  /\ UNCHANGED <<ledger, last, assigned, blocked>>

(* Requests whose decisions depend on each other. *)
Conflict(r, q) ==
  \/ WritesTogether(r, q)
  \/ r.op = "fee" /\ \E f \in Fee, u \in User :
       ChargesIn(r.insert, u, f) # {} /\ ChargesIn(q.insert, u, f) # {}

Settles(r) == r.settles \/ r.op = "default"

Overtaken(q, r) ==
  IF q = None THEN None
  ELSE [q EXCEPT !.alone = @ /\ ~Settles(q), !.fresh = @ /\ ~Conflict(q, r)]

(* transaction_id of an activity, with the new transactions in a sequence: *)
(* the foreign keys take it away with the split.                           *)
Link(r, new, a) ==
  IF a \in Origins(r) THEN CHOOSE i \in last + 1 .. last + Len(new) : new[i - last].origin = a
  ELSE IF a \in r.unlink \/ assigned[a] \in r.delete THEN 0
  ELSE assigned[a]

(* The exclude constraint on memberships refuses a user who is blocked     *)
(* already.                                                                *)
Commit(s) ==
  LET r   == request[s]
      new == SetToSeq(r.insert)
  IN
  /\ r # None /\ r.flushed
  /\ last + Len(new) <= MaxTransaction
  /\ r.block \cap blocked = {}
  /\ last' = last + Len(new)
  /\ ledger' = [i \in Id |->
       IF i \in last + 1 .. last' THEN new[i - last]
       ELSE IF i \in r.delete THEN None
       ELSE IF i \in r.confirm THEN [ledger[i] EXCEPT !.confirmed = TRUE]
       ELSE ledger[i]]
  /\ assigned' = [a \in Activity |-> Link(r, new, a)]
  /\ blocked' = (blocked \ r.unblock) \cup r.block
  /\ request' = [o \in Clerk |-> IF o = s THEN None ELSE Overtaken(request[o], r)]

(* An error of any kind, or the request was never sent. *)
Abandon(s) ==
  /\ request[s] # None
  /\ request' = [request EXCEPT ![s] = None]
  /\ UNCHANGED <<ledger, last, assigned, blocked>>

Homes == UNION {[U -> FeeAccount] : U \in SUBSET User \ {{}}}

(* A clerk's next request. *)
Begin(s) ==
  /\ request[s] = None
  /\ \/ \E a \in Activity, account \in Payable : AssignActivity(s, a, account)
     \/ \E A \in SUBSET Activity \ {{}} : MatchActivities(s, A) \/ ReturnActivities(s, A)
     \/ \E b \in Booking : CreateTransaction(s, b)
     \/ \E f \in Fee, home \in Homes : BookFee(s, f, home)
     \/ \E T \in SUBSET Unconfirmed \ {{}} : ConfirmAll(s, T)
     \/ \E i \in Id : ConfirmTransaction(s, i) \/ DeleteTransaction(s, i)
     \/ \E B \in SUBSET User : HandleDefaults(s, B)

Next == \E s \in Clerk : Begin(s) \/ Flush(s) \/ Commit(s) \/ Abandon(s)

Spec == Init /\ [][Next]_vars

----------------------------------------------------------------------------
(* Properties. *)

Commits(s) == request'[s] = None /\ Commit(s)

(* However requests overlap, every transaction is legal, and an activity   *)
(* that is assigned is so to a transaction that exists, was made for it    *)
(* and moves its amount on the bank's account: the deferred triggers have  *)
(* nothing to refuse, and what was deleted is open to be assigned again.   *)
BooksHold ==
  /\ \A i \in Living : Legal(ledger[i].splits)
  /\ \A a \in Activity : assigned[a] # 0 =>
       /\ ledger[assigned[a]].origin = a
       /\ InAccount(ledger[assigned[a]], Bank) = Amount[a]

(* The invariants that the run checks: well typed, and BooksHold. *)
LedgerInv == TypeOK /\ BooksHold

(* Every movement on the bank account is booked, or sent back, once: the   *)
(* transaction that was made for an activity is the one it is assigned to. *)
PaymentsOnce == \A i \in Living :
  ledger[i].origin # None => assigned[ledger[i].origin] = i

(* Only requests about the same activity or transaction that overlap can   *)
(* book a payment twice, or leave a booked one open to be booked again.    *)
FreshKeepsPaymentsOnce ==
  [][\A s \in Clerk : Commits(s) /\ request[s].fresh
       => (PaymentsOnce => PaymentsOnce')]_vars

(* "Posts transactions ... for users where the specified membership fee    *)
(* was not posted yet" (membership_fee.py:225): whatever was booked, by    *)
(* hand too, and with whatever building, a user is charged once, unless    *)
(* another booking of the fee was under way.                               *)
FeeChargedOnce ==
  [][\A s \in Clerk : Commits(s) /\ request[s].fresh /\ request[s].op = "fee" =>
       \E f \in Fee : \A u \in User :
         (\E x \in request[s].insert : u \in DOMAIN x.splits) => Cardinality(Charges(u, f)') = 1]_vars

(* A transaction that is confirmed stays as it is, unless it was confirmed *)
(* while the request was under way that deletes it.                        *)
ConfirmedIsFinal ==
  [][\A s \in Clerk : Commits(s) /\ request[s].fresh =>
       \A i \in Living : ledger[i].confirmed => ledger'[i] = ledger[i]]_vars

(* Whoever has paid is not blocked after a request that books payments, or *)
(* the handling of defaults, if nothing else was booked meanwhile.         *)
PaidIsUnblocked ==
  [][\A s \in Clerk :
       Commits(s) /\ request[s].alone /\ Settles(request[s]) =>
         \A u \in blocked' : Balance(u)' > 0]_vars

(* A request that no conflicting one has overtaken books a payment once    *)
(* and a fee once.                                                         *)
FreshBooksOnce == FreshKeepsPaymentsOnce /\ FeeChargedOnce

(* On every day of a month: estimate_balance says what                     *)
(* post_transactions_for_membership_fee will charge until the membership   *)
(* ends, in the two months after it at the latest, but in the three cases  *)
(* of Fees.                                                                *)
EstimateIsRight ==
  Init => EstimateIsRightFor(MonthLength .. 2 * MonthLength - 1, 0 .. 4 * MonthLength - 1)

(* A mistyped user id in a reference pays for nobody, and one that lost    *)
(* its dash for the user it is the id of (errorcode.py, matching.py:95).   *)
TyposAreCaught == Init => TyposAreCaughtIn(UserId)
=============================================================================
