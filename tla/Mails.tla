------------------------------- MODULE Mails -------------------------------
(***************************************************************************)
(* Mails to users, and the scrubbing of their addresses (lib/mail,         *)
(* lib/user/mail, task.send_mails_async, lib/user_deletion).               *)
(*                                                                         *)
(* Whoever writes to users renders all mails first and leaves them with    *)
(* the broker as one task.  A worker takes the task away, connects to the  *)
(* mail server and hands over mail after mail; only if it cannot connect   *)
(* the task is put back.  Long after they left, members' addresses are     *)
(* deleted, by one statement for all of them.                              *)
(***************************************************************************)
EXTENDS Integers, FiniteSets

CONSTANTS
  User, Session, Worker,
  Null,            \* NULL in the database; no statement
  Never,           \* no membership yet
  LastYear,        \* bound on the years
  FirstUsers,      \* users at the beginning
  MaxRetries,      \* 96
  MaxTasks,        \* bound on the tasks
  MaxChanges       \* bound on what becomes of the users

UserRow ==
  [email: BOOLEAN, forwarded: BOOLEAN, mailbox: BOOLEAN, keep: BOOLEAN, owes: BOOLEAN,
   left: (0 .. LastYear) \cup {Null, Never}]

ASSUME MailsAssumption ==
  /\ {LastYear, MaxRetries, MaxTasks, MaxChanges} \subseteq Nat
  /\ FirstUsers \subseteq [User -> UserRow]
  /\ {Null, Never} \cap (0 .. LastYear) = {} /\ Null # Never
  /\ Null \notin {"internal", "external"}
  /\ "broker" \notin Worker

VARIABLES
  user,      \* user -> [email, forwarded: external address, and mails forwarded to it;
             \*   mailbox: property mail; left: year of the end of the last membership, Null
             \*   if there is no end; keep: do-not-archive; owes: fee due, balance > 0]
  year,
  tasks,     \* task -> [to: user -> address, tries, at: a worker or "broker"]
  queued,    \* tasks so far
  rest,      \* worker -> users whose mails it still has to hand over
  sent,      \* task -> user -> how often the mail server took the mail
  scrub,     \* session -> users whose address its statement deletes, or Null
  meanwhile, \* session -> users whose memberships have changed since
  scrubbed,  \* user -> entries in the scrub log
  changes    \* so far

mailVars == <<user, year, tasks, queued, rest, sent, scrub, meanwhile, scrubbed, changes>>
scrubbing == <<scrub, meanwhile, scrubbed>>

Address == {"internal", "external"}
Task    == DOMAIN tasks

----------------------------------------------------------------------------
(* Writing mails. *)

(* The address that user_send_mails chooses *)
Contact(u, use_internal) ==
  IF use_internal /\ ~ (user[u].forwarded /\ user[u].email) /\ user[u].mailbox THEN "internal"
  ELSE IF user[u].email THEN "external" ELSE Null

With(f, t, x) == [o \in DOMAIN f \cup {t} |-> IF o = t THEN x ELSE f[o]]

(* send_mails_async.delay *)
Queue(to) ==
  /\ queued < MaxTasks /\ queued' = queued + 1
  /\ tasks' = With(tasks, queued', [to |-> to, tries |-> 0, at |-> "broker"])
  /\ sent' = With(sent, queued', [u \in DOMAIN to |-> 0])

(* user_send_mails: one user without an address, and nobody gets a mail:   *)
(* an error is raised or, with soft_fail, passed over in silence.          *)
UserSendMails(U, use_internal) ==
  /\ \A u \in U : Contact(u, use_internal) # Null
  /\ Queue([u \in U |-> Contact(u, use_internal)])

(* get_active_users_with_building: of the groups or all, of the buildings  *)
Selected(groups, U) == {u \in U : groups => user[u].left = Null}

(* mail_group, group_send_mail *)
GroupMail(groups, U) ==
  /\ UserSendMails(Selected(groups, U), TRUE)
  /\ UNCHANGED <<user, year, rest, scrubbing, changes>>

(* get_negative_members *)
NegativeMembers == {u \in User : user[u].owes /\ user[u].left = Null}

(* payment_reminder_mail: if the last import is not older than three days  *)
PaymentReminderMail(imported) ==
  /\ imported = "lately"
  /\ UserSendMails(NegativeMembers, TRUE)
  /\ UNCHANGED <<user, year, rest, scrubbing, changes>>

(* mail_negative_members: monthly; the treasurer hears of an old import. *)
MailNegativeMembers(imported) ==
  /\ IF imported = "lately" THEN UserSendMails(NegativeMembers, TRUE) ELSE Queue(<< >>)
  /\ UNCHANGED <<user, year, rest, scrubbing, changes>>

(* user_send_mail; password reset mails do not use internal addresses.     *)
UserSendMail(u, use_internal) ==
  /\ UserSendMails({u}, use_internal)
  /\ UNCHANGED <<user, year, rest, scrubbing, changes>>

(* send_template_mails: to addresses that are no user's *)
SendTemplateMails ==
  /\ Queue(<< >>)
  /\ UNCHANGED <<user, year, rest, scrubbing, changes>>

----------------------------------------------------------------------------
(* A worker: a task that it takes is acknowledged at once. *)

Without(f, t) == [o \in DOMAIN f \ {t} |-> f[o]]

Held(w) == {t \in Task : tasks[t].at = w}

(* send_mails: the connection *)
Connect(w, t) ==
  /\ Held(w) = {} /\ tasks[t].at = "broker"
  /\ tasks' = [tasks EXCEPT ![t].at = w]
  /\ rest' = [rest EXCEPT ![w] = DOMAIN tasks[t].to]
  /\ UNCHANGED <<user, year, queued, sent, scrubbing, changes>>

(* No worker has it any more, nor the broker. *)
Dropped(t) == tasks' = Without(tasks, t) /\ sent' = Without(sent, t)

MutRetry(t) ==    \* mutation: queued anew, and counted from the beginning
  /\ tasks' = [tasks EXCEPT ![t] =
                 [to |-> @.to, tries |-> (@.tries + 1) % (MaxRetries + 1), at |-> "broker"]]
  /\ UNCHANGED sent

(* self.retry(countdown=1800, max_retries=96) *)
Retry(t) ==
  \/ /\ tasks[t].tries < MaxRetries
     /\ tasks' = [tasks EXCEPT ![t] = [to |-> @.to, tries |-> @.tries + 1, at |-> "broker"]]
     /\ UNCHANGED sent
  \/ tasks[t].tries = MaxRetries /\ Dropped(t)

(* RetryableException: no TLS, no connection, no login *)
FailToConnect(w, t) ==
  /\ Held(w) = {} /\ tasks[t].at = "broker"
  /\ Retry(t)
  /\ UNCHANGED <<user, year, queued, rest, scrubbing, changes>>

Taken(t, u) == [sent EXCEPT ![t][u] = @ + 1]

MutRefused(w, t, u) ==    \* mutation: a refused mail makes the task retryable
  Retry(t) /\ rest' = [rest EXCEPT ![w] = {}]

(* SMTPException: counted, and never tried again; the server may have      *)
(* taken the mail all the same.                                            *)
Refused(w, t, u) ==
  /\ rest' = [rest EXCEPT ![w] = @ \ {u}]
  /\ sent' \in {sent, Taken(t, u)} /\ UNCHANGED tasks

(* smtp.sendmail *)
HandOver(w, t, u) ==
  /\ tasks[t].at = w /\ u \in rest[w]
  /\ \/ sent' = Taken(t, u) /\ rest' = [rest EXCEPT ![w] = @ \ {u}] /\ UNCHANGED tasks
     \/ Refused(w, t, u)
  /\ UNCHANGED <<user, year, queued, scrubbing, changes>>

(* Every mail was tried; or the server has closed the connection and each  *)
(* of the others fails; or another exception, or the end of the process,   *)
(* keeps it from trying them.                                              *)
Finish(w, t) ==
  /\ tasks[t].at = w
  /\ Dropped(t)
  /\ rest' = [rest EXCEPT ![w] = {}]
  /\ UNCHANGED <<user, year, queued, scrubbing, changes>>

Work(w, t) ==
  \/ Connect(w, t) \/ FailToConnect(w, t) \/ Finish(w, t)
  \/ \E u \in User : HandOver(w, t, u)

----------------------------------------------------------------------------
(* Scrubbing. *)

(* select_archivable_members: nulls are last, and no year of theirs is     *)
(* early enough.                                                           *)
Archivable(u, years_following_eom) ==
  /\ user[u].left \in Int
  /\ ~ user[u].keep
  /\ user[u].left + 1 + years_following_eom <= year

MutScrubbable == {u \in User : Archivable(u, 0) /\ user[u].email}    \* mutation: a year early

(* scrubbable_mails_stmt *)
Scrubbable == {u \in User : Archivable(u, 1) /\ user[u].email}

(* scrub_all_mails: one UPDATE of the rows that its snapshot has; for a    *)
(* row that another transaction is updating it waits, and deletes what     *)
(* that one has written.                                                   *)
ScrubAllMails(s) ==
  /\ scrub[s] = Null /\ Scrubbable # {}
  /\ scrub' = [scrub EXCEPT ![s] = Scrubbable]
  /\ meanwhile' = [meanwhile EXCEPT ![s] = {}]
  /\ UNCHANGED <<user, year, tasks, queued, rest, sent, scrubbed, changes>>

(* scrub_mails: the commit, with an entry in the scrub log for everybody   *)
ScrubMails(s) ==
  /\ scrub[s] # Null
  /\ user' = [u \in User |-> IF u \in scrub[s] THEN [user[u] EXCEPT !.email = FALSE] ELSE user[u]]
  /\ scrubbed' = [u \in User |-> scrubbed[u] + IF u \in scrub[s] THEN 1 ELSE 0]
  /\ scrub' = [scrub EXCEPT ![s] = Null]
  /\ UNCHANGED <<year, tasks, queued, rest, sent, meanwhile, changes>>

(* The connection is lost. *)
Abandon(s) ==
  /\ scrub[s] # Null
  /\ scrub' = [scrub EXCEPT ![s] = Null]
  /\ UNCHANGED <<user, year, tasks, queued, rest, sent, meanwhile, scrubbed, changes>>

----------------------------------------------------------------------------
(* What else becomes of a user: an edit of the address or of forwarding; a *)
(* membership that begins or ends, and the mailbox with it; do-not-archive *)
(* granted or not; a fee or a payment.                                     *)
Edit(u) ==
  \E email, forwarded \in BOOLEAN :
    user' = [user EXCEPT ![u].email = email, ![u].forwarded = forwarded]

Owe(u) == user' = [user EXCEPT ![u].owes = ~ @]

Regroup(u) ==
  \/ user' = [user EXCEPT ![u].left = IF @ = Null THEN year ELSE Null,
                          ![u].mailbox = user[u].left # Null]
  \/ user' = [user EXCEPT ![u].keep = ~ @]

Change(u) ==
  /\ changes < MaxChanges /\ changes' = changes + 1
  /\ \/ (Edit(u) \/ Owe(u)) /\ UNCHANGED meanwhile
     \/ Regroup(u) /\ meanwhile' = [s \in Session |-> IF scrub[s] = Null THEN {} ELSE meanwhile[s] \cup {u}]
  /\ UNCHANGED <<year, tasks, queued, rest, sent, scrub, scrubbed>>

NewYear ==
  /\ year < LastYear /\ year' = year + 1
  /\ UNCHANGED <<user, tasks, queued, rest, sent, scrubbing, changes>>

MailInit ==
  /\ user \in FirstUsers /\ year = 0 /\ tasks = << >> /\ queued = 0 /\ sent = << >>
  /\ rest = [w \in Worker |-> {}] /\ scrub = [s \in Session |-> Null]
  /\ meanwhile = [s \in Session |-> {}]
  /\ scrubbed = [u \in User |-> 0] /\ changes = 0

Write ==
  \/ \E groups \in BOOLEAN, U \in SUBSET User : GroupMail(groups, U)
  \/ \E imported \in {"lately", "long ago", "never"} :
       PaymentReminderMail(imported) \/ MailNegativeMembers(imported)
  \/ \E u \in User, use_internal \in BOOLEAN : UserSendMail(u, use_internal)
  \/ SendTemplateMails

MailNext ==
  \/ Write \/ NewYear
  \/ \E w \in Worker, t \in Task : Work(w, t)
  \/ \E s \in Session : ScrubAllMails(s) \/ ScrubMails(s) \/ Abandon(s)
  \/ \E u \in User : Change(u)

MailSpec == MailInit /\ [][MailNext]_mailVars

(* Some worker is running, and an idle one takes what the broker has. *)
FairSpec == MailSpec /\ \A t \in 1 .. MaxTasks : WF_mailVars(\E w \in Worker : t \in Task /\ Work(w, t))

----------------------------------------------------------------------------
(* A worker has mails left to send only of the task that it holds, and     *)
(* nobody is tried more often than the retries allow.                      *)
MailTypes ==
  /\ user \in [User -> UserRow]
  /\ year \in 0 .. LastYear /\ changes \in 0 .. MaxChanges
  /\ queued \in 0 .. MaxTasks /\ Task \subseteq 1 .. queued /\ DOMAIN sent = Task
  /\ \A t \in Task : /\ tasks[t].tries \in 0 .. MaxRetries
                     /\ tasks[t].at \in Worker \cup {"broker"}
                     /\ tasks[t].to \in [DOMAIN tasks[t].to -> Address]
  /\ \A w \in Worker : /\ Cardinality(Held(w)) <= 1
                       /\ rest[w] \subseteq UNION {DOMAIN tasks[t].to : t \in Held(w)}

(* However often a task is tried again, the mail server takes each of its  *)
(* mails at most once (send_mails raises RetryableException only before    *)
(* the first mail).                                                        *)
SentAtMostOnce == \A t \in Task : \A u \in DOMAIN tasks[t].to : sent[t][u] <= 1

MailInv == MailTypes /\ SentAtMostOnce

(* A task leaves the broker and the workers in the end: its mails were     *)
(* sent, refused, or given up after the last retry.                        *)
EveryTaskEnds == \A t \in 1 .. MaxTasks : t \in Task ~> t \notin Task

(* Scrubbing takes an address only from somebody whose last membership     *)
(* ended before the last calendar year began, and who may be archived,     *)
(* unless that changed while the scrubbing was under way; and there is an  *)
(* entry in the scrub log for every address that it took.                  *)
ScrubbingSparesMembers ==
  [][\A s \in Session : scrub[s] # Null /\ user' # user /\ scrub'[s] = Null =>
       \A u \in User : user[u].email /\ ~ user'[u].email =>
         /\ scrubbed'[u] > scrubbed[u]
         /\ \/ u \in meanwhile[s]
            \/ user[u].left \in Int /\ user[u].left < year - 1 /\ ~ user[u].keep]_mailVars
=============================================================================
