----------------------------- MODULE BankImport -----------------------------
(***************************************************************************)
(* The import of a bank account's statement into bank_account_activity     *)
(* (bank_accounts_import_run, process_transactions).  Movements carry no   *)
(* number: two that agree in every column and were booked on one day are   *)
(* alike, and whether one has been imported is asked by its columns.       *)
(***************************************************************************)
EXTENDS Integers

CONSTANTS
  Kind,        \* what alike movements agree in, but for the day
  Session,
  Null,
  MaxDay,      \* bound on the days
  MaxCopies    \* bound on the alike movements of one day

ASSUME DayAssumption == MaxDay \in Nat \ {0} /\ MaxCopies \in Nat

VARIABLES
  today,
  bank,        \* kind -> day -> how many there are at the bank
  stored,      \* kind -> day -> how many activities there are
  imported,    \* BankAccount.last_imported_at, 0 before the first import
  dialog,      \* session -> its dialog with the bank: none, one that waits
               \* for a TAN, or an open one that forms carry along
  session,     \* session -> its import, or Null
  seamless     \* every import reached from the last one to the day before

bankVars == <<today, bank, stored, imported, dialog, session, seamless>>

Day == 1 .. MaxDay

(* began is the day that the request began, which becomes imported_at;     *)
(* statement is what the bank answered, new what is going to be stored.    *)
(* covers: the days that were asked for reach from the last import, or the *)
(* first day, to yesterday, as the form proposes.  fresh: midnight did not *)
(* fall between the answer and its classification, nor has another import  *)
(* been stored after that.                                                 *)
Import ==
  [began: Day, phase: {"fetched", "classified"}, covers: BOOLEAN, fresh: BOOLEAN,
   statement: [Kind -> [Day -> 0 .. MaxCopies]], new: [Kind -> [Day -> 0 .. MaxCopies]]]

BankTypeOK ==
  /\ today \in Day
  /\ bank \in [Kind -> [Day -> 0 .. MaxCopies]]
  /\ stored \in [Kind -> [Day -> Nat]]
  /\ imported \in 0 .. today
  /\ dialog \in [Session -> {"none", "challenged", "open"}]
  /\ session \in [Session -> Import \cup {Null}]
  /\ seamless \in BOOLEAN
  /\ \A k \in Kind, d \in Day : d > today => bank[k][d] = 0
  /\ \A k \in Kind, d \in Day : d >= today => stored[k][d] = 0

Empty == [k \in Kind |-> [d \in Day |-> 0]]

BankInit ==
  /\ today = 1
  /\ bank = Empty /\ stored = Empty
  /\ imported = 0
  /\ dialog = [s \in Session |-> "none"]
  /\ session = [s \in Session |-> Null]
  /\ seamless = TRUE

----------------------------------------------------------------------------
(* The bank books a movement, on the day it does so. *)
BankBooks(k) ==
  /\ bank[k][today] < MaxCopies
  /\ bank' = [bank EXCEPT ![k][today] = @ + 1]
  /\ UNCHANGED <<today, stored, imported, dialog, session, seamless>>

NextDay ==
  /\ today < MaxDay
  /\ today' = today + 1
  /\ session' = [s \in Session |->
       IF session[s] # Null /\ session[s].phase = "fetched"
       THEN [session[s] EXCEPT !.fresh = FALSE] ELSE session[s]]
  /\ UNCHANGED <<bank, stored, imported, dialog, seamless>>

(* bank_accounts_login: the bank answers the PIN by asking for a TAN. *)
Login(s) ==
  /\ session[s] = Null
  /\ dialog' = [dialog EXCEPT ![s] = "challenged"]
  /\ UNCHANGED <<today, bank, stored, imported, session, seamless>>

(* complete_fints_challenge, by which bank_accounts_import gets to its form. *)
SendTan(s) ==
  /\ dialog[s] = "challenged"
  /\ dialog' = [dialog EXCEPT ![s] = "open"]
  /\ UNCHANGED <<today, bank, stored, imported, session, seamless>>

(* get_fints_transactions *)
Answer(from, to) ==
  [k \in Kind |-> [d \in Day |-> IF d \in from .. to THEN bank[k][d] ELSE 0]]

(* The days that the form proposes (bank_accounts_import) are those from   *)
(* the last import, or from the first day, to yesterday.  A form that was  *)
(* shown before midnight and is sent after it does not cover them.         *)
Covers(from, to) == (from = 1 \/ from <= imported) /\ today - 1 <= to

(* The request is sent, for whatever days are in the form. *)
Fetch(s, from, to) ==
  /\ session[s] = Null /\ dialog[s] = "open"
  /\ session' = [session EXCEPT ![s] =
       [began |-> today, phase |-> "fetched", fresh |-> TRUE,
        covers |-> Covers(from, to), statement |-> Answer(from, to), new |-> Empty]]
  /\ UNCHANGED <<today, bank, stored, imported, dialog, seamless>>

MutNewOnce(statement) ==    \* mutation: the second of two alike ones is taken for old
  [k \in Kind |-> [d \in Day |->
     IF d < today /\ stored[k][d] = 0 /\ statement[k][d] # 0 THEN 1 ELSE 0]]

(* process_transactions: movements of today and later are doubtful, those  *)
(* that are like a stored activity are old, and the others, all of them,   *)
(* are new.                                                                *)
NewIn(statement) ==
  [k \in Kind |-> [d \in Day |->
     IF d < today /\ stored[k][d] = 0 THEN statement[k][d] ELSE 0]]

Classify(s) ==
  /\ session[s] # Null /\ session[s].phase = "fetched"
  /\ session' = [session EXCEPT
       ![s].phase = "classified", ![s].new = NewIn(session[s].statement)]
  /\ UNCHANGED <<today, bank, stored, imported, dialog, seamless>>

MutImportedAt(r) == today    \* mutation: the time of the insert

(* imported_at is CURRENT_TIMESTAMP, the begin of the request. *)
ImportedAt(r) == r.began

(* The end of bank_accounts_import_run, if something is new. *)
Store(s) ==
  LET r == session[s] IN
  /\ r # Null /\ r.phase = "classified" /\ r.new # Empty
  /\ stored' = [k \in Kind |-> [d \in Day |-> stored[k][d] + r.new[k][d]]]
  /\ imported' = IF imported < ImportedAt(r) THEN ImportedAt(r) ELSE imported
  /\ seamless' = (seamless /\ r.covers)
  /\ dialog' = [dialog EXCEPT ![s] = "none"]
  /\ session' = [x \in Session |->
       IF x = s \/ session[x] = Null THEN Null
       ELSE [session[x] EXCEPT !.fresh = @ /\ session[x].phase = "fetched"]]
  /\ UNCHANGED <<today, bank>>

(* A preview, an error, or nothing new: the form is shown again. *)
Discard(s) ==
  /\ session[s] # Null
  /\ session' = [session EXCEPT ![s] = Null]
  /\ UNCHANGED <<today, bank, stored, imported, dialog, seamless>>

BankNext ==
  \/ \E k \in Kind : BankBooks(k)
  \/ NextDay
  \/ \E s \in Session :
       \/ Login(s) \/ SendTan(s) \/ \E from, to \in Day : Fetch(s, from, to)
       \/ Classify(s) \/ Store(s) \/ Discard(s)

BankSpec == BankInit /\ [][BankNext]_bankVars
----------------------------------------------------------------------------
(* Properties. *)

(* All the alike movements of a day are stored, once each, or none of them *)
(* is yet.                                                                 *)
EachMovementOnce == \A k \in Kind, d \in Day : stored[k][d] \in {0, bank[k][d]}

(* Whatever ranges of days are imported, in whatever order, with whatever  *)
(* overlap, an import keeps that; only two imports at once, or midnight    *)
(* between the answer of the bank and its classification, can break it.    *)
FreshImportsOnce ==
  [][\A s \in Session : session[s] # Null /\ session[s].fresh /\ Store(s)
       => (EachMovementOnce => EachMovementOnce')]_bankVars

(* As long as every import covers the days that the form proposes, nothing *)
(* that was booked before the day of the last import is missing, however   *)
(* imports overlap and whichever are discarded.                            *)
NothingMissed ==
  seamless => \A k \in Kind, d \in Day :
    d < imported /\ bank[k][d] # 0 => stored[k][d] # 0
=============================================================================
