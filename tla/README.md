# Pycroft in TLA+

Pycroft is the user management of a dormitory network: a Flask web interface
and an API for administrators and members, Celery workers for what is due later,
an exporter to LDAP, and a PostgreSQL database that all of them share. A good
part of the program's logic sits in that database: exclude constraints on time
ranges, and triggers that keep histories and tombstones.

Almost everything that is hard here comes from one arrangement, which most
modules share. Each web request and each task of a worker is a transaction
that first reads, decides on what it has read, and then writes and commits,
while others do the same.

- The web server's engine (`scripts/server_run.py:45`) is READ COMMITTED. A
  decision on rows that have changed since is not noticed; only constraints, and
  an UPDATE by id that finds no row, stop it.
- Celery workers (`pycroft/model/__init__.py:58-63`) are SERIALIZABLE. Because
  the web requests are not, PostgreSQL sees a conflict only where both wrote
  one row.
- `with_transaction` (`pycroft/model/session.py:65-74`) is a savepoint; `utcnow()`
  is `CURRENT_TIMESTAMP`, the beginning of the outer transaction.

In the modules a transaction is therefore several actions: one that reads, and
decides on that `view`, and one that writes and commits what was decided.

## 1. Inventory

| Part | State | Operations | Hard behaviour | What makes it correct |
|---|---|---|---|---|
| Task scheduling (`pycroft/task.py`, `lib/task.py`, `web/blueprints/task`, API) | `task` rows: status, due date, parameters | schedule, execute when due, execute by hand, cancel, reschedule | a run reads its list once and commits per task; web requests close tasks meanwhile; implementations fail half-way; workers die | a task is scheduled once and closed once, verdicts are final, a failure leaves no trace, a due task is processed |
| User lifecycle (`lib/user/lifecycle.py`) | room, memberships, hosts, login | create, move in, move, move out, block | called by web requests and by task implementations at the same time | room, groups and host agree with the operation that was confirmed |
| Room history (trigger in `model/user.py`) | `room_history_entry` ranges | trigger on every change of `user.room_id` | stamps are transaction begins, writes happen later | the open entry is the room; the past is fixed; one room at a time |
| Memberships (`lib/membership.py`) | ranges per user and group | grant, end, edit, delete | delete-and-insert of joined intervals on stale rows | at most one membership at a time; exactly the time asked for is given or taken |
| Properties (`model/property.py`) | derived | `evaluate_properties` | denying groups against granting ones | a denied property is not granted |
| Intervals (`helpers/interval.py`) | none | union, intersection, difference, complement, join | infinite and equal bounds, closedness | a set of intervals contains the points it should |
| Unix accounts, tombstones (`model/unix_account.py`) | tombstones of uid and login hash | triggers on users and accounts | coupling, deletion, two requests for one login | no login or uid is given out twice |
| Finance (`model/finance.py`, `lib/finance`) | accounts, transactions, splits, bank activities | book fees, import, match, confirm, delete, payment in default | bookings and imports that overlap; check-then-act on `confirmed` | every fee once per user; every activity once; balanced transactions |
| LDAP export (`ldap_sync`) | records on the server | read the database, read the directory, diff, execute | an operation that fails is only logged; a search that fails yields nothing; ppolicy changes entries on its own; the process dies | a suspended user gets no usable entry; a clean run exports what it read; repeated runs converge |
| Member requests (`lib/user/member_request.py`, `mail_confirmation.py`, `edit.py`, `passwords.py`) | pre-members, keys and tokens, accounts | register, confirm, finish, merge, deny, edit, resend, reset | finishing long after the check; mails answered late; a page of two transactions | a confirmed address is one whose mail was answered; a request ends once; a code works once |
| Hosts, addresses, MPSK clients (`lib/host.py`, `lib/net.py`, `lib/mpsk_client.py`) | hosts, interfaces, IPs, clients | create, edit, move, delete, by page and by API | choosing a free IP and checking a limit before the insert | no IP or MAC twice; IPs fit the room; limits hold |
| Facilities, infrastructure (`lib/facilities.py`, `lib/infrastructure.py`, `model/port.py`) | rooms, switches, ports, patches | create, edit, delete, patch | a deferred trigger on one of four tables that its rule is about | patches stay in their switch room; rooms can be found |
| Hades (`model/hades.py`) | views | RADIUS and DHCP read them | several views judge the same user | both serve the same devices, but for those whom only a property blocks; a block lasts and no device gets past it |
| Addresses (`lib/address.py`, `model/address.py`) | one row per value | look up or create, trigger on orphans | the trigger of one transaction deletes what another looks up | unique, never dangling, swept |
| Mail (`lib/mail.py`, `lib/user/mail.py`, `send_mails_async`) | tasks at the broker | collect, queue, connect, hand over, retry | a retry repeats the whole list | no mail twice by a retry; every task ends |
| Deletion, scrubbing (`lib/user_deletion.py`) | scrub log | select, null | members who come back | only members that are long gone lose their address |
| Bank access (`lib/finance/fints.py`) | dialogue (external) | log in, TAN, fetch | a dialogue that is not open any more | statements only from an open dialogue |
| User ids (`lib/user/user_id.py`, `helpers/errorcode.py`) | none | encode, check, find in a reference | two kinds of id that look alike | a digit typed wrong is nobody's payment |
| Everything else | | queries, views, plain forms | | |

How they interact: the web handlers call `pycroft.lib` functions inside one
session per request. `lib/task.py` either schedules a task or wraps a lifecycle
function when it is executed. The lifecycle calls `make_member_of` and
`remove_member_of`, which compute on interval sets, sets `user.room`, which
fires the history trigger and, with the address, the orphan trigger, and moves
hosts. `create_user` inserts an account and a user, which fires the tombstone
triggers; finishing a member request calls it. The finance pages change the books
in one request each; whatever books a payment also calls
`end_payment_in_default_memberships`. Memberships decide properties, and
properties whom `ldap_sync` exports and Hades serves. Mails go to the queue inside
the transaction.

## 2. The modules

| Module | Models | State and actions |
|---|---|---|
| `Residence` | what `move_in`, `move` and `move_out` do to one user, and when they refuse | operators on a user's room, groups and host |
| `UserTasks` (uses `Residence`) | `lib/task.py`, `execute_scheduled_tasks`, task views, API termination | rows (`status`, `due`, `job`, `users`), sessions (`pc`, `queue`, `op`, `view`, `missed`); `LoadTasks`, `BeginNext`, `ExecuteTask`, `AbortRun`, `CrashWorker` for a run, `BeginRequest`, `ManualExecute`, `CancelTask`, `RescheduleTask`, `ScheduleTask`, `ApplyNow`, `AbandonRequest` for a request |
| `TaskLife` | the promise: scheduled once, closed once | refined by `UserTasks` through `LifeOf` |
| `Intervals` | bounds, intervals and lists of intervals of `helpers/interval.py` | operators, the loops as recursive functions over the length of a list; `PointsOf` and `Covered` are the reference meaning |
| `IntervalSets` | the meaning of `Intervals` | `Denotations`: every relation and operation over all half-open intervals against the sets of their points |
| `Memberships` (uses `IntervalSets`) | the memberships of one user in one group | `rows`, sessions with `op` and `view`; `MakeMemberOf`, `RemoveMemberOf`, `ChangeActiveDuring`, `DeleteMembership`, `Abandon` |
| `RoomHistory` | the history trigger under overlapping transactions | `room`, `entries`, the clock, `tx`; `Begin`, `SetRoom` (UPDATE, trigger and commit), `Abort` |
| `Tombstones` | the triggers of `unix_account.py` with `create_user` and deletions on top | `users`, `accounts`, `stones`, the uid sequence, `checked` (logins that `login_available` accepted), `owner` (history); one action per kind of transaction |
| `Ledger` | the books: `lib/finance`, the finance pages and the constraints and deferred triggers of `model/finance.py` | `ledger` (transactions with their splits), the id sequence, `assigned` (activity to transaction), `blocked`, one `request` per clerk; `Begin` chooses among `AssignActivity`, `MatchActivities`, `ReturnActivities`, `CreateTransaction`, `BookFee`, `ConfirmTransactions`, `DeleteTransaction`, `HandleDefaults`, which read and decide; then `Flush`, `Commit` or `Abandon` |
| `UserIds`, `Fees` (extended by `Ledger`) | both kinds of user id and how a reference is searched; who is charged a month and `estimate_balance` | operators |
| `BankImport` | `bank_accounts_import_run` and `process_transactions` | what the bank has and what is `stored`, per kind of movement and day, `imported` (`last_imported_at`), `session`; and the `dialog` with the bank; `Login`, `SendTan`, `BankBooks`, `NextDay`, `Fetch`, `Classify`, `Store`, `Discard` |
| `Defaults` | one member in debt over days: `lib/finance/payment_in_default.py`, `in_default_days`, the pages of fees | `today`, `fees`, `charges` and `payments` per day, `member` and `pid` intervals; `NextDay`, `Charge`, `Pay`, `CreateFee`, `EditFee`, `HandleDefaults`, `Unblock`, `MoveIn`, `MoveOut` |
| `Properties` | `evaluate_properties` and the operations on groups | operators, used by `LdapSync`, `Network` and `Hades` |
| `LdapSync` (extends `Properties`) | `ldap_sync` and a directory with ppolicy | the database (`memberOf`, `password`, `grants`), the directory (`entry`), a run (`phase`, `desired`, `plan`, `clean`); `FetchDb`, `FetchLdap`, `Execute`, `Refuse`, `Abort`, `Finish`, and the changes of the database |
| `Rows` | what the modules below share: a request that reads, decides which rows to insert, update and delete, and commits later | `db`, `given` (ids of the sequences), `request`; `seen` and `fresh` say whether what a request saw has changed since |
| `MemberRequests` (extends `Rows`) | registration, confirmation, tokens | rows of requests and accounts, `mails`, `proven`, `answered`, `ended`, `mixed`; one operator per page or call, `Commit`, `EditResend` (the second transaction of an edit), `Lose` |
| `Network` (extends `Rows`) | hosts, interfaces, IPs, MPSK clients, switches, ports and patches; suspending and moving as they change them | nine tables; one operator per page or call, `Commit`, `Abandon`, `Expire` |
| `Hades` (extends `Network`) | the views that RADIUS and DHCP read | operators on `db` |
| `Addresses` (extends `Rows`) | rooms, users and the addresses they share, with the orphan trigger | `flushed`, the transactions whose statements hold locks; `Start`, `Flush`, `Commit`, `Lose` |
| `Mails` | circulars, reminders, single mails, the worker that delivers them, scrubbing | `user`, `tasks`, `rest`, `sent`, `scrub`; `GroupMail`, `PaymentReminderMail`, `UserSendMail`, `Connect`, `FailToConnect`, `HandOver`, `ScrubAllMails`, `ScrubMails` and others |

`MC*` modules hold the values of constants for TLC, `*Proofs` the theorems.
Definitions named `Mut...` are deliberate mistakes next to the definition they
replace, and serve to show that a property notices them; nothing uses them.

Some choices that a reader should know:

- `UserTasks`: a user has one device, so that there is at most one host. `broken`
  stands for the failures that do not depend on the modelled state. `missed` is
  the set of rows that others have committed since a transaction read: it
  decides what a SERIALIZABLE worker fails on (`WorkerConflict`, `AbortRun`) and
  what the constraints refuse to a web request (`WebConflict`).
- `Intervals`: instants are even numbers among the points, and odd points stand
  for the open stretch between two neighbouring instants, so that closedness
  shows. Sets are sorted sequences, as in the code.
- `Memberships`: PostgreSQL forgets the bounds of an empty range, and the program
  reads it back as unbounded (`Stored`, `Loaded`).
- `RoomHistory`: an entry ended in the instant it began becomes the empty range,
  written `from = to = 0`. `fresh` records that nobody has written the user's row
  since the transaction began, which is what a SERIALIZABLE transaction needs.
- `Tombstones`: the foreign keys onto tombstones and `check_tombstone_consistency`
  are not guards but properties: the other triggers suffice without them. The
  constant `AdoptOrphans` says whether somebody may insert a user with an account
  whose former user is gone; the program never does.
- `Ledger`: a user stands for the account of the user. `Flush` waits for rows that
  another request has written and not committed; an UPDATE of a transaction that
  is gone stops the request (`StaleDataError`), a DELETE does not. `fresh` records
  that no conflicting request (the same activity or transaction, or the same fee
  of the same user) has committed since a request began, `alone` that none at all
  has. `origin`, the activity a transaction was made for, is remembered for the
  properties only. Fees are not zero: a fee of zero is never recognised as booked
  (`FeeAssumption`).
- `BankImport`: movements that agree in every column but the day are one kind.
  `fresh` records that midnight did not come between the answer of the bank and its
  classification, nor another import after that; `covers` that the range of days
  reaches from the last import, or the first day, to yesterday, as the form
  proposes.
- `Memberships`: a form enters a range as it is typed, the empty one included.
- `Rows`: a request is decided in one action, on what is committed then, and
  applied in another, if constraints and the ORM's count of updated rows allow it.
  A request is `fresh` as long as no row it has read has changed. Many properties
  are about fresh requests: that is what the code promises under READ COMMITTED,
  and section 5 says what the others can do.
- `MemberRequests`: a mail has a code, the address it is about and the mailbox it went
  to: to that address, or to the internal mailbox of an account. Which of the two depends
  on a property of the account and on whether it has its mail forwarded, so that either
  may be chosen each time (`Mailboxes`). `proven` are the mails that somebody answered,
  whatever became of the row meanwhile. `Lower` is lower case as far as addresses are told
  apart: `edit_email` applies it, an application does not. `mixed` marks the rows whose
  address and key were written by requests that overtook each other.
- `Network`: the subnets of a room are those of the switch ports its patch ports
  lead to, so that patching changes which addresses a host may have. A subnet
  stands for its VLAN. Members have a wifi password, which adding an MPSK client asks
  for beside network access.
- `LdapSync`: an entry is a record of the attributes the diff tells apart;
  `password` and `disabled` are the one attribute `userPassword`. `Usable` is what
  lets a user log in. The policy overlay lifts a lock when the password changes.
- `Defaults`: one member; days are numbered, and the week of grace and the forms of
  fees are constants. The two deadlines of a fee may come in any order, as neither the
  form nor the table compares them.
- `Memberships`, `BankImport` and `Mails` put their component into the names that all
  modules have (`MemberInit`, `BankNext`, `mailVars`, and `Null` for `None` in the last
  two), because a module of proofs extends each of them together with another component.
- `Mails`: what users are is a record of the facts the queries ask for, and time
  counts years, since scrubbing asks for calendar years.

## 3. What is checked

| Run | Bounds | Shows |
|---|---|---|
| `tasks_sessions` | 1 worker, 2 web sessions, 2 tasks, 1 user, 2 rooms, 3 jobs, 3 requests, 1 crash; weak fairness of the worker | `UserTasks` implements `TaskLife`; a failed task leaves the user alone and a worker overwrites nothing it has not read (`RunsAreSerial`); a settled verdict is final; a due task is ended or postponed |
| `memberships` | 2 web sessions, 3 instants, two grants that overlap, two edits, one that touches one of them and one to the empty range, 3 rows; all pairs of sets of half-open intervals over those instants | at most one membership; what is granted is there; an undisturbed request gives and takes exactly what was asked and loses nothing, but that an emptied row counts for all time; the interval operations beneath are right |
| `rooms_sessions` | 2 web sessions, 1 worker, 2 rooms, 4 instants | the open entry is the room; no transaction rewrites the time before it began; a transaction that was not overtaken keeps one room at a time |
| `tombstones` | 3 users, 2 accounts, 3 logins, 4 uids, 2 sessions | every login and uid in use has its one tombstone, nothing is forgotten, no login goes to a second user |
| `ledger` | 2 clerks, 1 user who owes one fee and pays it in 2 parts, a charge by hand, 2 fee accounts, 3 transactions; ids of 1 to 5 digits; months of 6 days | the books hold however requests overlap; only conflicting ones that overlap book a payment or a fee twice, delete what was confirmed or keep somebody blocked who has paid; a mistyped id pays for nobody; the estimated balance is what is charged, but in three named cases |
| `bank_import` | 2 sessions, 1 kind, 2 alike movements a day, 3 days, any ranges, logins that may fail | alike movements are imported all or none, and once; imports over the proposed days leave no gap |
| `defaults` | 6 days, 3 splits, 2 of 3 fees with different deadlines, one of which has them out of order, 2 ends of a membership | nobody is blocked or ended early; the block comes first and the week of grace is kept, except at the ages of a debt that lie between two deadlines out of order |
| `requests` | 2 sessions, 4 requests, 2 requests for membership, one of them by somebody who has an account with that name, login and address, the other with a capital in the address; mails to an address or to an internal mailbox | for a confirmed address somebody answered a mail about it that went to it or to the account's internal mailbox; a request ends once; keys and tokens work once |
| `network` | 2 sessions, 2 requests from each of 2 databases: 3 rooms, 2 subnets, 3 addresses, up to 4 hosts, 3 interfaces, 2 switches, 3 patch ports | no request lifts a block of somebody else, and RADIUS leads away every device of who is blocked; RADIUS and DHCP agree but for those whom only a property blocks; hosts keep addresses that fit; patches stay in their switch room; limits hold for calls that nothing overtakes |
| `addresses` | 2 sessions, 3 requests, 3 rooms, 3 users, 3 values | unique and never dangling, whoever commits; orphans swept, rooms found and tenants' addresses kept by requests that nothing overtakes |
| `ldap` | 1 user, 2 groups, 2 properties, 4 changes of the database, 1 fault; weak fairness of the run | a suspended user gets no usable entry; a clean run exports what it read; the directory converges |
| `mails` | 2 users, 1 worker, 2 sessions that scrub, 2 tasks, 1 retry, 3 years; weak fairness of delivery | no mail is sent twice by a retry; every task ends; scrubbing spares members |

Why these bounds are enough to be interesting: two tasks are needed so that a run
commits between them and reads again; two sessions are the least that can decide
on the same rows, and a third adds no new kind of overlap, since what a
transaction misses is a set of rows whoever wrote them. The three jobs are one
that needs a room, one that needs a resident and one that ends a membership.
Three instants give memberships that touch and overlap, and sets of intervals with
gaps among those that `IntervalsDenote` goes through. Three users, two accounts and
four uids let an account be deleted and made again, and a login outlive its user.
Three transactions let a payment be booked, deleted and booked again, or booked twice
beside a fee. Three days give one that is imported, one that the next import must add
and one that is not over. In `defaults` six days hold a debt, a deadline of one or two
days, a payment, the days of grace and the final deadline. In `ldap` four changes let
a user join, be blocked, change the password and be unblocked while one fault leaves a
run half done. In `network` and `addresses` the databases at the beginning hold what
several requests would have to build first: a switch carried into a room of users, a
patch port without a patch, a user of each kind; a request of each of two sessions is
then enough to overtake. Of the two groups that block in `network`, one denies network
access and the other has only a property that RADIUS asks for. In `mails` two users
are one who gets a mail and one at whom the list stops.

`CHECK_DEADLOCK FALSE` is set because the counters that bound the runs stop the
models; the program does not stop.

Fairness, stated where a liveness property needs it and for nothing else:

- `UserTasks.FairSpec`: each worker's steps. Beat starts `execute_scheduled_tasks`
  every hour (`pycroft/task.py:224-231`) and a run that has begun goes on until its
  list is empty, it is aborted or it crashes. Web requests, the clock and crashes
  are not fair. Crashes are bounded: a system in which every run dies processes
  nothing, and the code does not claim it.
- `LdapSync.FairSpec`: the steps of a run, and that a next run is started. The
  exporter is a program of its own (`pyproject.toml:109`) that makes one run and
  ends; what starts it is outside the repository, so that convergence is a promise
  to whoever starts it again and again. Changes of the database and faults are
  bounded; convergence is about the time when they are at rest.
- `Mails.FairSpec`: that some worker serves every task that the broker has, and that
  a task that is put back is tried again after its countdown. Whether the server
  can be reached is not fair: a task ends by its last retry as well.

## 4. What is proved

TLAPS proves the following for any number of tasks, users, sessions, rooms, hosts,
accounts, logins, activities, mails and days, and for any bounds; the assumptions are
the named `ASSUME`s on the constants, mostly that identifiers are distinct and that
the first rows are in order. A module of proofs may be about two components; these
then have names of their own (`MemberInit`, `BankSpec`, `mailVars`) and write
`Null` where the other one has `None`.

- `UserTasksProofs`. The invariant is `TypeOK /\ SessionInv`: types alone are not
  inductive, because what a session writes is computed from its view, so that a
  session in a transaction must be known to hold a view and a request.
  `SessionsImplementTaskLife` maps every step to a step of `TaskLife` or a
  stutter; `StatusStep` says which steps change a status. For
  `SettledTasksAreFinal` one shows that a session that starts to read when a task
  has ended does not read it as open. `RunsAreAlwaysSerial` rests on
  `MissedIsComplete`: whatever of a user's rows is not as a transaction saw it has
  been committed by others since, so that a worker which writes it finds a conflict.
- `RoomHistoryMembershipsProofs`, about the trigger. `OpenEntryAlwaysRoom` needs that
  it ends every open entry, `PastAlwaysFixed` that cutting off an entry at t keeps its
  points before t. `FreshAlwaysKeepsOneRoom` rests on `FreshInv`: no entry begins or
  ends after the begin of a transaction that is still fresh, since whoever commits a
  change takes that freshness from all others.
- `RoomHistoryMembershipsProofs`, about memberships. `MembershipInv` is nearly
  inductive, since the exclude constraint looks at every commit; `MemberInv` adds that
  there is a view per session. Most of the proof is about the interval operations
  that a request computes with, for sequences of any length: what they return is
  typed (`JoinedTyped`, `CutFacts`), sorted (`ChainFacts`), without two intervals that
  meet (`JoinedSeparate`), and denotes the right points (`JoinedClosed`, `CutFacts`,
  `RemovedFacts`). `GrantsReachAll` needs no more. The other two, that a grant gives
  and a removal takes no more than was asked for and neither loses anything, are proved
  (`MembershipsAreExact`) under `ClosedInputs`, that nobody grants or enters an interval
  that is open where it begins, as is so of all callers; the invariant then keeps all
  rows so (`ClosedRows`), of which a join loses at most the end (`JoinedKeeps`), and the
  merge drops none (`ChainTakesAll`). Empty intervals are not excluded: the form that edits a membership
  can enter one, which the program reads back as unbounded (section 5). The properties
  compare with the rows as they are read (`TakenAt`) and so say what then becomes of
  the user: a member for all time by the next grant, of all the past by the next
  removal. The run has such an edit too.
- `RoomHistoryMembershipsProofs`, about `IntervalSets`. Here intervals are half-open, also
  empty or unbounded, as the database keeps them, and one is its two ends (`HalfOpenIs`,
  `HalfOpenPoints`, `TwoHalfOpen`), from which `Relates` follows by cases
  (`RelatesHolds`). A set is a sequence in which no interval ends after the next begins
  (`Lined`), which is stronger than `Ordered` and holds of all results. Union: the merge
  of two such sequences begins in order and has taken all that lies before its two places
  (`MergedAfter`), and joining what begins in order leaves no empty interval and no
  overlap (`JoinSortedLined`). Intersection: what `_intersect` has yielded covers what
  both cover before its places, and the side it leaves behind meets nothing that is
  left of the other (`CommonAfter`, `NothingBeyond`). Complement: its members are the
  gaps (`ComplementIs`), and a point outside lies in one (`GapAround`). The result
  (`IntervalSetsAreExact`) is for sets of any length, of which `IntervalsDenote` is the
  case of those made of two intervals. Members may touch or be empty: `meets` looks at
  the lower bound of the first, so that an interval without begin is not joined to the
  one it touches, and the complement has an empty member between them.
- `TombstonesRequestsProofs`, about `Tombstones`. `IInv` adds to the properties that keys
  are unique (`KeysUnique`) and that every uid is below the sequence (`UidsDrawn`). Coverage
  and uniqueness then hold whatever accounts users are inserted with.
  `TombstonesNeverForget` and `NoLoginEverTwice` assume `~AdoptOrphans`; the
  second adds that a login somebody has had is still on a tombstone (`LoginsKept`).
- `TombstonesRequestsProofs`, about `MemberRequests`. Nobody locks anything here, so that
  the invariant is about what pending requests are going to write. `RequestsInv` has it of
  the right kind, `NewInv` under ids nobody else has. `EndInv`: who means to end a request
  for membership deletes it, and the confirmation updates it too, which is why an UPDATE
  that finds no row stops it. `CodeInv`: a code is that of one mail, lies in one
  column of one row or of one pending request, and is not one of those that were answered;
  who answers it clears it. `MailsInv`: a key beside an address is that of a mail about it,
  sent to one of the mailboxes of that row, but
  for the rows in `mixed`. `ConfirmInv`: what a request that is still fresh confirms has
  been answered by mail or is taken over; an account that is made of a request inherits its
  mail, which can only have gone to the address itself. Each has a lemma for deciding, for losing a
  connection, for a commit of its own and for commits of others. All 20 operations decide
  in one form (`Good`, with a lemma each: `RegisterDecides`, `MergeDecides`, ...), so that
  invariants are looked at once for deciding, and not once for each operation. They rest on
  no assumption but that applications have an address and a login, that lower case is
  lower case already, and that the first
  accounts are unique and hold no codes, since no mail has been sent.
- `FinanceProofs`, about `Ledger`. The books hold because of locks as much as of
  decisions: `IInv` adds to `BooksHold` that no two requests have both flushed
  something about one activity or transaction (`Locks`), and that what a request is going to insert is
  balanced and made of its activities (`Sound`). `FreshInv` says what a request that
  no conflicting one has overtaken still knows: its activities are not assigned, what
  it deletes is not confirmed, and whom it charges has not been charged.
  `ConfirmedStays` and `NothingIsBookedTwice` follow. `PaidAreUnblocked` rests on
  `AloneInv`: whom a request is going to unblock are all those, and only those, whom its
  own bookings bring out of debt, as long as nothing is committed in between. That the
  balances then come out as it reckoned (`CommitAdds`) needs lemmas about sums over any
  finite set: they exist, whatever the order (`SumExists`, by induction over the set), are
  what the community modules compute (`SumsIsSum`), and add up over what there was and
  what is new (`SumOfBoth`).
- `FinanceProofs`, about `BankImport`. `NothingMissed` is not inductive: an import in
  progress may be stored later and moves `imported` on. `ImportInv` adds that it holds
  every day before its own that has a movement, or finds it stored, and nothing of a day
  that is not over; `FetchKeeps` uses `NothingMissed` for the days before the range.
  `FreshAlwaysImportsOnce` rests on `FreshImportInv`: what an import holds that nothing
  has overtaken is all the bank has of a day, and is not stored yet.
- `FinanceProofs`, about `UserIds`. `TyposAlwaysCaught` holds for every natural number.
  Dividing by 10 again and again ends in 0 (`DigitsRunOut`), the digits read one after
  the other give the number back (`ReadBack`), and so what passes `check_user_id` has the
  code of its digits (`CheckIs`). Two sequences that differ in one digit
  differ by 1 to 9 when that digit is read; what is read after it multiplies the
  difference by 10 each time, which 97 does not divide (`ReadsApart`, `OneWrong`). Two
  neighbours swapped leave 9 times the difference of the digits (`TwoSwapped`), and
  across the dash 90 times (`AcrossTheDash`). That the digits of the checked id are those
  written is a fact about sequences cut at the dash (`WrittenIs`, `OneDigitWrongIs`,
  `NeighboursSwappedIs`). `UserIdsAreSafe` states it of the ids that the regular
  expression in `matching.py` finds, of up to six digits (`UserIdAssumption`).
- `FinanceProofs`, about `Fees`. `EstimateIsExact` is about every day, whenever a
  membership begins and ends, and any length of a month and days of booking. Who is
  charged a month depends on where the membership begins and ends among the days of
  booking (`DaysOfBooking`, `HasToPayIs`), so that a month after the current one counts
  when both days lie in the membership (`LaterMonths`); what is charged is then counted
  month by month up to the last (`OneMonthMore`, `ChargedMonths`), and the current and
  the previous month are compared case by case: the three exceptions are all there are.
- `NetworkProofs`. References and unique columns are looked at by every commit; that rows
  are of the right kind is not, and rests on `PendingSound`: whatever a request has
  decided writes rows of the right kind under ids of its own (`Draft`, with a lemma per
  operation), and updates only columns that are ever updated (`Changing`). Addresses
  come from lists of subnets put together (`FlattenTyped`, by induction along the list)
  and from the first free one (`FirstFreeTyped`). That the views of RADIUS and DHCP
  agree is a fact about the views and not about the history of the tables: `CutOff` and
  `Served` hold of any rows, as long as the VLAN groups, the properties that cut
  somebody off and `no_network_access` are different names (`HadesAssumption`).
  That a block lasts is one about the history (`BlocksAlwaysHold`): by `BlockInv`
  whatever a request is going to delete spares the memberships of blocking groups
  (`Spares`, with a lemma per operation), or it is an unblocking and deletes only ones of
  its user (`Frees`); `MembersAreCut` then says what the views make of such a member.
  What requests keep among them rests on three more invariants, all of one form: as long
  as no commit has touched what a request has seen (`Image` of its keys), what it is going
  to write fits the database as it is, and not only as it was. `PanelInv` says it of the
  patch panel (`PanelsAlwaysHold`: in addition, the trigger looks at the columns that
  `PatchesStayInRoom` is about, so that this part needs no freshness), `LimitInv` of
  clients and devices of a member (`LimitsAlwaysHold`), `HostInv` of hosts and the
  subnets of their rooms (`HostsAlwaysFit`, for hosts a request creates as for those it
  finds). Each has one lemma per operation for the decision, one that commits of others
  either change the image or leave the statement true, and `CommitWrites`, which says of
  every table what a commit leaves in it.
- `AddressesProofs`. The unique index and the foreign keys hold because of what locks
  exclude: `IInv` says that the flushed requests exclude each other (`Locks`) and that
  each fits the committed rows (`FlushedFit`), so that a commit is right whatever
  was committed between. `OrphansAreAlwaysSwept` adds `SweepInv`: as long as nobody
  has overtaken it, a request that has flushed leaves either the table or one
  without orphans. `RoomsAreAlwaysKept` adds `KeepInv`: a
  request that nobody has overtaken gives the tenants of its room the address it
  gives the room.
- `LdapSyncProofs`. `ExportInv` says what a plan is about: every action not yet
  executed was computed from the entry as it still is, since a run is the only
  writer, and what is no longer in the plan of a clean run is as desired.
  `SuspendedAlwaysStayOut` needs of it that a modification carries the differing
  attributes of exactly this entry, so that a disabled password stays disabled
  where the overlay lifts the lock.
- `DefaultsMailsProofs`, about `Defaults`. `DebtorsAlwaysWarned` assumes nothing of the
  deadlines but that they are not negative, as the form does: an end that is offered to
  somebody who is not blocked, or in the week of grace, is one at an age of the debt that
  reaches the final deadline and not yet the one that blocks (`EndIsOffered`,
  `EndsUnannounced`). `OnlyHandlingEnds` and `OnlyHandlingBlocks` leave `HandleDefaults`
  as the one action to look at.
  `NeverBlockedEarly` and `EndsAreDue` are about what that action computes: `TotalIs` and
  `OverdueIs` unfold the sum of the account and the day it has been overdue since, for
  any number of days, and `OverdueOwes` says of the two, by induction over the days, that
  something was owed on every day since. The invariant `Accounted` adds that nothing is
  paid for a day to come, so that a debt of today is as old as it looks (`OverdueToday`).
- `DefaultsMailsProofs`, about `Mails`. `MailsGoOnce` rests on `DeliveryInv`: a worker holds
  one task and has mails left only of this one (`OneTaskEach`), and what the broker has,
  or a worker has left, nobody has sent (`LeftIsUnsent`); a task put back for a retry
  therefore carries only what is left. `MembersAreSpared` adds `ScrubbedAreGone`: whom a
  scrubbing has selected may still be scrubbed, or has changed since.

Some theorems state what no run lists as a property of its own: the type invariants
(`TypeCorrect`, `ExportTypeCorrect`), the strengthenings (`SessionsConsistent`,
`ExportInvHolds`), `TombstonesAlwaysUnique`, and a part of a property that is worth a
name (`GrantsReachAll`).

Only model-checked:

- the liveness properties (`DueTaskIsProcessed`, `ExportConverges`, `EveryTaskEnds`),
  which need fairness and ENABLED.

Induction goes as far as this: the theorems of the library that take an operator as a
parameter cannot be used, but `NatLessThanWellFounded` and `WFMin` can, which is how a
recursive function over the length of a given sequence is unfolded and reasoned about
(`UpTo`, `StepByStep`, `StepsStay`), one over days (`ComputedExists`, `DayByDay`), or a fold
over a finite set (`SetBySet`, `SumsIsSum`). What a `RECURSIVE` operator computes is out of
reach, and no module with a theorem uses one.

## 5. Where the code does not do what it says

No run is kept for these; the properties of section 3 name them as exceptions where
they touch them.

Tasks and the lifecycle

- A worker executes a task that was cancelled after the run read its list, and
  writes EXECUTED or FAILED over CANCELLED (`pycroft/task.py:150`), although the
  page has said "Aufgabe erfolgreich abgebrochen".
- `manually_execute_task` writes EXECUTED also when the implementation noted an
  error and did nothing (`lib/task.py:254`).
- A task postponed after the list was read is executed on its old date
  (`pycroft/task.py:138`).
- Two API calls that overlap schedule two terminations (`web/api/v0/__init__.py:618`).
- A move-in by a worker that finds the member group while a web request ends it
  leaves a resident who is no member (`lifecycle.py:196`).
- Two overlapping transactions, committed in the opposite order of their
  beginning, leave the user in two rooms for some time (`model/user.py:525-527`).

Intervals and memberships

- A membership edited to an empty interval (`web/blueprints/user/__init__.py:888-895`
  accepts two equal days) is read back as unbounded (`model/types.py:167`): the next
  grant makes the user a member for all time, the next removal of all the past.
- With closed and open bounds mixed, `intersect` and `join` decide a tie by the
  order of their operands (`interval.py:434`, `:450`), `meets` looks at the wrong
  pair of bounds (`:358`), and `map`, which nothing uses, takes the upper bound from
  the lower (`:503`). An infinite bound is less than itself (`:110-114`), so that
  "strictly during" holds of the unbounded interval and itself.
- After an edit that leaves two memberships touching, a grant that meets only one of
  them is refused by the exclude constraint (`lib/membership.py:104`); a grant
  that deletes a row shortened meanwhile brings the time back (`:111`).
- A user inserted with the account of a former user takes over the tombstone, and
  the former login becomes available again: the INSERT branch never loads
  `v_ua_ts` (`unix_account.py:268`), against "no login is doubly assigned"
  (`doc/arch/adr-006.rst:31`). Only hand-made rows can do it; with
  `AdoptOrphans = TRUE` TLC finds it in a few steps.

Finance

- Two bookings of one fee that overlap charge everybody twice
  (`membership_fee.py:246`), and an activity that two clerks assign at once is booked
  twice: the second UPDATE of the activity leaves the first transaction without
  one (`web/blueprints/finance/__init__.py:842`).
- A transaction confirmed while another request deletes it is deleted
  (`transaction_crud.py:98`), although the page says that confirmed transactions
  cannot be (`web/blueprints/finance/__init__.py:1275`); `transactions_confirm_selected`
  does not look at `confirmed` at all.
- Two payments that together settle a debt, booked at once, leave the payer blocked
  until the next payment or the handling of defaults (`payment_in_default.py:39`).
- Two imports at once, or midnight between the answer of the bank and its
  classification, double a movement or lose one (`transaction_crud.py:236`). A range
  typed by hand, or a form shown before midnight and sent after it, leaves days out
  for good (`web/blueprints/finance/__init__.py:364-367`, `:417`).
- `bank_accounts_login` uses `challenge` and `qrcode` also when the bank asks for no
  TAN, which leaves them unbound (`web/blueprints/finance/__init__.py:272-291`), and
  errors of the bank are caught neither there nor in `complete_fints_challenge`.
- The page that sends money back calls the form it has made when the input is not
  valid (`:641`).
- A charge that is valid on a day to come counts as overdue by the distance of that
  day (`fabs`, `model/finance.py:167`). On the last day of a fee no fee is found for
  the date, and the one applied last is taken; where fees overlap, the page of the
  defaults fails with MultipleResultsFound. `get_first_applied_membership_fee` takes
  the last one (`membership_fee.py:78-82`).
- The form of a fee asks for the deadline that blocks and the final one and compares
  them nowhere, nor does the table (`web/blueprints/finance/forms.py:57-70`). With the
  final one first, the page offers to end the membership of somebody who was never
  blocked, and does so in the week of grace as well, which is asked about only after the
  deadline that blocks (`payment_in_default.py:105-120`).
- The end of a membership may be backdated before a rejoin and then deletes that
  membership; a debtor who has joined again is ended again.
- `estimate_balance` is off by a month for one who joined on the last day of booking,
  for one who leaves in the grace of a month that is booked, and for a month in
  which a member comes and goes; `replace(day=...)` raises ValueError in a month
  that is shorter than the day of booking (`membership_fee.py:365-424`).
- An id of five digits that lost its dash may be read as another's id of the other
  kind, and when the first id that passes belongs to nobody, no other is tried
  (`matching.py:52-71`, `:84-108`).

Requests, mails and addresses

- `member_request_edit` commits the new address before the key: the old key confirms
  it meanwhile, and for good if the process dies in between
  (`web/blueprints/user/__init__.py:1291`). A resend that a change of address overtakes
  leaves the new address with the key that was mailed to the old one
  (`lib/user/mail.py:174`).
- A confirmation mail may go to the internal mailbox: `send_confirmation_email` leaves
  `use_internal` at its default (`lib/user/mail.py:174-187`), so that an account with the
  property `mail` that does not forward its mail gets the key there (`:74-78`). An address
  to which nothing was ever sent is confirmed then; `send_password_reset_mail` excludes
  the internal mailbox (`:202`).
- `edit_email` compares the address in lower case with the stored one, which an
  application may have entered with capitals (`lib/user/edit.py:64-66`): saving the page
  of an account unchanged takes the confirmation back and sends a new mail.
- A reset token mailed to an old address confirms the new one, and the reset does
  not check the code of the id (`member_request.py:398-404`).
- An administrator can finish a request that was never confirmed, whose key is then
  lost; an automatic finish that fails takes the confirmation back; merging asserts
  the date of the move also when the room is not merged (`member_request.py:247`).
- `user_send_mails` with `soft_fail` returns at the first user without an address, so
  that nobody gets the circular although the page says "Rundmail versendet!"
  (`lib/user/mail.py:84`); without it, one debtor without an address stops all
  reminders. Mails leave before the commit (`:116`).
- Two scrubbings that overlap log everybody twice, and a mail that is queued is sent
  to an address scrubbed meanwhile.
- "At no point in time" should there be an address that nobody refers to
  (`model/address.py`): two requests that each take away one of the last two
  references leave one. Editing a room's address and another of its fields at once
  always fails when the address is new: the flush for the log entry fires the
  trigger (`lib/facilities.py:162`; the docstring in `lib/address.py` asks for
  `no_autoflush`).
- Two rooms of one name can be created at once (`lib/facilities.py:106`), and
  `get_room` raises for both then.

Network and export

- Two requests at the limit of MPSK clients both pass (`web/api/v0/__init__.py:383`);
  the page has no limit, and its check for unique MACs looks at interfaces.
- `migrate_host` fails for a host without a room (`lib/host.py:133`), and compares
  lists of subnets, so that two rooms with the same subnets in another order change
  the addresses (`:116`, `lib/net.py:41-48`).
- Moving a switch to another room breaks the rule that the trigger on patch ports
  checks (`model/port.py:71-72`); two patches of one port overwrite each other, and
  names of patch ports are unique only as long as nobody overlaps (`:43`).
- `alternative_dns` tests `denied` of the wrong alias (`model/hades.py:334-336`). Whoever
  has network access and a property that blocks is cut off by RADIUS and still has
  an address by DHCP (`:297-315` asks for network access only), which is why
  `ServedByBoth` and `BlocksHold` except them.
- `_fetch_db_properties` does not filter by `denied` although its docstring says so
  (`ldap_sync/sources/db.py:203`, `:237`): members of a group that denies a property
  are exported as having it.

## 6. Plan

What would come next, in this order:

1. `Residence` refined by `Network`: that the host the scheduler speaks of is the
   one that moving creates and migrates.
2. Several members in `Defaults`, with the active members that the page leaves out,
   composed with `Ledger`.
3. User sheets with their expiry.

## 7. Not modelled, and why

- Rendering, forms, tables, translation, documents and permissions of pages have no
  state of their own, or none that another request decides on; read-only endpoints,
  statistics, search and the student union's views are queries, traffic is one
  DELETE by age.
- Schema emission and migrations run offline.
- The bank, the SMTP server, the message broker, the LDAP server, Hades and its log
  servers are external; only their answers are modelled, where the code acts on them.
  `hades_logs` is a remote procedure call with a timeout that stores nothing.
- `Ledger` leaves out creating accounts and bank accounts, and amounts other than those
  of the instance; the end of memberships for debt is in `Defaults`, for one member
  who is not an active member.
- `Memberships` has one user and one group, `RoomHistory` one user: memberships of
  different users or groups share no row and no constraint.
- `Interval.map`, the string forms and the sequence protocol of `IntervalSet`.
- Passwords are versions or left out; a login is never changed by the program.
- In `Mails` the text of a mail and the broker's own losses: a task that a worker took
  and lost is not delivered again (`acks_late` is not set), which is one way for it
  to end.
