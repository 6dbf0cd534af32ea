----------------------------- MODULE UserTasks -----------------------------
(***************************************************************************)
(* Scheduled move-ins, moves and move-outs, and the sessions that touch    *)
(* them at the same time: web requests of admins and of the API            *)
(* (web/blueprints/task, web/blueprints/user, web/api/v0) and runs of the  *)
(* Celery task execute_scheduled_tasks (pycroft/task.py), all of them over *)
(* pycroft/lib/task.py and pycroft/lib/user/lifecycle.py.                  *)
(*                                                                         *)
(* A database transaction is two steps: the first one reads (view is what  *)
(* it saw, and everything it decides is decided from there), the second    *)
(* one writes and commits.  missed is what others committed in between.    *)
(* The two kinds of sessions differ in what they do about it:              *)
(*   - web sessions use the engine of scripts/server_run.py, which leaves  *)
(*     PostgreSQL at READ COMMITTED: their UPDATEs go through, and only    *)
(*     the constraints and a vanished host row stop them;                  *)
(*   - workers use the engine of pycroft/model/__init__.py, which is       *)
(*     SERIALIZABLE: writing a row that others changed is an error.        *)
(***************************************************************************)
EXTENDS Residence, Integers, FiniteSets

CONSTANTS
  Task,          \* task ids
  User,
  Worker,        \* Celery worker processes
  Admin,         \* web sessions
  Jobs,          \* the parameters offered to the user interface
  MaxTime,       \* bound on the clock
  MaxRequests,   \* bound on web requests
  MaxCrashes,    \* bound on crashes of workers
  None           \* no job, no request, no view

ASSUME SessionAssumption == Worker \cap Admin = {}
ASSUME JobsAssumption == Jobs \subseteq JobParams
ASSUME NoneAssumption == None \notin [user: User, params: JobParams]
ASSUME BoundsAssumption == MaxTime \in Nat /\ MaxRequests \in Nat /\ MaxCrashes \in Nat

Session == Worker \cup Admin
Time == 0 .. MaxTime

VARIABLES
  status,    \* task -> status; "NONE" while there is no such task
  due,       \* task -> due date
  job,       \* task -> user and parameters
  users,     \* user -> committed rows
  now,       \* the database clock
  pc,        \* session -> "idle", "between" transactions, or in a "tx"
  queue,     \* worker -> the tasks of its list it has not come to yet
  op,        \* web session -> the request it is serving
  view,      \* session -> the database as its transaction read it
  missed,    \* session -> the rows others committed since
  requests,  \* number of web requests so far
  crashes    \* number of worker crashes so far

db   == <<status, due, job, users>>
vars == <<status, due, job, users, now, pc, queue, op, view, missed, requests, crashes>>

Ended  == {"EXECUTED", "FAILED", "CANCELLED"}
Status == {"NONE", "OPEN"} \cup Ended

TaskJob == [user: User, params: JobParams]

Request ==
       [kind: {"manual", "cancel"}, task: Task]
  \cup [kind: {"reschedule"}, task: Task, due: Time]
  \cup [kind: {"apply"}, user: User, params: Jobs, when: Time]
  \cup [kind: {"terminate"}, user: User, when: Time]
  \cup [kind: {"revoke"}, user: User]

Row == ({"task"} \X Task) \cup (({"room", "host", "gone"} \cup Group) \X User)

View   == [status: [Task -> Status], due: [Task -> Time],
           users: [User -> UserRows], now: Time]

TypeOK ==
  /\ status \in [Task -> Status]
  /\ due \in [Task -> Time]
  /\ job \in [Task -> TaskJob \cup {None}]
  /\ \A t \in Task : status[t] = "NONE" <=> job[t] = None
  /\ users \in [User -> UserRows]
  /\ now \in Time
  /\ pc \in [Session -> {"idle", "between", "tx"}]
  /\ queue \in [Worker -> SUBSET Task]
  /\ op \in [Admin -> Request \cup {None}]
  /\ view \in [Session -> View \cup {None}]
  /\ missed \in [Session -> SUBSET Row]
  /\ requests \in 0 .. MaxRequests
  /\ crashes \in 0 .. MaxCrashes

Init ==
  /\ status = [t \in Task |-> "NONE"]
  /\ due = [t \in Task |-> 0]
  /\ job = [t \in Task |-> None]
  /\ users \in [User -> {[room |-> NoRoom, groups |-> {"pre_member"}, host |-> NoRoom]}
                     \cup {[room |-> r, groups |-> {"member", "network_access"}, host |-> r]
                             : r \in Room}]
  /\ now = 0
  /\ pc = [s \in Session |-> "idle"]
  /\ queue = [w \in Worker |-> {}]
  /\ op = [a \in Admin |-> None]
  /\ view = [s \in Session |-> None]
  /\ missed = [s \in Session |-> {}]
  /\ requests = 0
  /\ crashes = 0

----------------------------------------------------------------------------
(* Transactions. *)

Snapshot == [status |-> status, due |-> due, users |-> users, now |-> now]

(* Rows of one user that differ between two images of them. *)
UserDiff(u, old, new) ==
       (IF old.room # new.room THEN {<<"room", u>>} ELSE {})
  \cup (IF old.host # new.host THEN {<<"host", u>>} ELSE {})
  \cup (IF old.host # NoRoom /\ new.host = NoRoom THEN {<<"gone", u>>} ELSE {})
  \cup {<<g, u>> : g \in (old.groups \ new.groups) \cup (new.groups \ old.groups)}

Touched ==
       {<<"task", t>> : t \in {x \in Task : status[x] # status'[x] \/ due[x] # due'[x]}}
  \cup UNION {UserDiff(u, users[u], users'[u]) : u \in User}

(* Session s ends its transaction; the others in one miss what it wrote. *)
Commit(s) ==
  /\ view' = [view EXCEPT ![s] = None]
  /\ missed' = [x \in Session |-> IF x = s \/ pc[x] # "tx"
                                  THEN {} ELSE missed[x] \cup Touched]

Rollback(s) ==
  /\ view' = [view EXCEPT ![s] = None]
  /\ missed' = [missed EXCEPT ![s] = {}]
  /\ UNCHANGED db

----------------------------------------------------------------------------
(* A lifecycle operation j on user u, decided on the view of session s. *)

Before(s, u) == view[s].users[u]
After(s, u, j) == Applied(Before(s, u), j)

MutWorkerConflict(w, u, j) == FALSE    \* mutation: as if READ COMMITTED

(* What a SERIALIZABLE transaction fails on: a row it writes was written.  *)
WorkerConflict(w, u, j) ==
  UserDiff(u, Before(w, u), After(w, u, j)) \cap missed[w] # {}

(* What stops a READ COMMITTED one: a membership that others replaced (the *)
(* new row overlaps theirs, which the exclude constraint refuses), a host  *)
(* to migrate that is gone, or a MAC address registered in the meantime.   *)
WebConflict(a, u, j) ==
  LET old == Before(a, u)
      new == After(a, u, j)
  IN  \/ \E g \in (old.groups \ new.groups) \cup (new.groups \ old.groups) :
           <<g, u>> \in missed[a]
      \/ old.host # NoRoom /\ new.host \notin {NoRoom, old.host}
           /\ <<"gone", u>> \in missed[a]
      \/ old.host = NoRoom /\ new.host # NoRoom /\ users[u].host # NoRoom

(* The ORM writes what the operation changed in the view over whatever is  *)
(* committed by now; deleting a host that is gone already deletes nothing. *)
Written(s, u, j) ==
  LET old == Before(s, u)
      new == After(s, u, j)
  IN  [room   |-> IF new.room = old.room THEN users[u].room ELSE new.room,
       groups |-> (users[u].groups \ (old.groups \ new.groups))
                    \cup (new.groups \ old.groups),
       host   |-> IF \/ new.host = old.host
                     \/ new.host = NoRoom /\ <<"gone", u>> \in missed[s]
                  THEN users[u].host ELSE new.host]

----------------------------------------------------------------------------
(* Runs of execute_scheduled_tasks. *)

MutDueTasks == {t \in Task : status[t] # "NONE" /\ due[t] <= now}    \* mutation

DueTasks == {t \in Task : status[t] = "OPEN" /\ due[t] <= now}

(* get_scheduled_tasks: the list is read once, in the transaction that     *)
(* goes on to execute the first task.                                      *)
LoadTasks(w) ==
  /\ pc[w] = "idle"
  /\ DueTasks # {}
  /\ pc' = [pc EXCEPT ![w] = "tx"]
  /\ queue' = [queue EXCEPT ![w] = DueTasks]
  /\ view' = [view EXCEPT ![w] = Snapshot]
  /\ missed' = [missed EXCEPT ![w] = {}]
  /\ UNCHANGED <<status, due, job, users, now, op, requests, crashes>>

(* The commit expired every object; touching the next task of the list     *)
(* begins a transaction and reads its row again.                           *)
BeginNext(w) ==
  /\ pc[w] = "between"
  /\ pc' = [pc EXCEPT ![w] = "tx"]
  /\ view' = [view EXCEPT ![w] = Snapshot]
  /\ missed' = [missed EXCEPT ![w] = {}]
  /\ UNCHANGED <<status, due, job, users, now, queue, op, requests, crashes>>

(* TaskImpl.execute on the view: it notes an error or raises, in which     *)
(* case its savepoint is rolled back and new_status is still FAILED.       *)
(* broken stands for what may go wrong besides: parameters that do not     *)
(* parse, a full subnet, a broker that does not take the mail.             *)
ExecutionFails(w, t, broken) ==
  LET u == job[t].user
      j == job[t].params
  IN  \/ ImplError(Before(w, u), j)
      \/ Raises(Before(w, u), j)
      \/ broken
      \/ WorkerConflict(w, u, j)

MutNewStatus(fails) == IF fails THEN "OPEN" ELSE "EXECUTED"    \* mutation

NewStatus(fails) == IF fails THEN "FAILED" ELSE "EXECUTED"

(* A failed execution leaves nothing: with_transaction rolls it back. *)
AfterFailure(w, u, j) == users

(* One iteration of the loop: execute, write the new status whatever the   *)
(* old one is, commit.                                                     *)
ExecuteTask(w, t) ==
  /\ pc[w] = "tx"
  /\ t \in queue[w]
  /\ <<"task", t>> \notin missed[w]
  /\ \E broken \in BOOLEAN :
       LET u == job[t].user
           j == job[t].params
           fails == ExecutionFails(w, t, broken)
       IN  /\ status' = [status EXCEPT ![t] = NewStatus(fails)]
           /\ users' = IF fails THEN AfterFailure(w, u, j)
                       ELSE [users EXCEPT ![u] = Written(w, u, j)]
  /\ queue' = [queue EXCEPT ![w] = @ \ {t}]
  /\ pc' = [pc EXCEPT ![w] = IF queue[w] = {t} THEN "idle" ELSE "between"]
  /\ UNCHANGED <<due, job, now, op, requests, crashes>>
  /\ Commit(w)

(* Writing the status fails because the task's row was written by others:  *)
(* nothing catches the error and the rest of the list is dropped.          *)
AbortRun(w, t) ==
  /\ pc[w] = "tx"
  /\ t \in queue[w]
  /\ <<"task", t>> \in missed[w]
  /\ queue' = [queue EXCEPT ![w] = {}]
  /\ pc' = [pc EXCEPT ![w] = "idle"]
  /\ UNCHANGED <<now, op, requests, crashes>>
  /\ Rollback(w)

(* A worker dies, or the failure mail after a commit cannot be queued. *)
CrashWorker(w) ==
  /\ pc[w] # "idle"
  /\ crashes < MaxCrashes
  /\ crashes' = crashes + 1
  /\ queue' = [queue EXCEPT ![w] = {}]
  /\ pc' = [pc EXCEPT ![w] = "idle"]
  /\ UNCHANGED <<now, op, requests>>
  /\ Rollback(w)

----------------------------------------------------------------------------
(* Web requests. *)

(* membership_ending_task looks among these, as the view v shows them. *)
EndingTasks(v, u) ==
  {t \in Task : /\ v.status[t] = "OPEN"
                /\ job[t].user = u
                /\ job[t].params.type = "USER_MOVE_OUT"
                /\ job[t].params.membership}

(* cancel_task, manually_execute_task and reschedule_task all begin by it. *)
IsOpen(t) == status[t] = "OPEN"

(* The handler's and the library's checks, made on what the request reads. *)
Accepts(r) ==
  \/ r.kind \in {"manual", "cancel", "reschedule"} /\ IsOpen(r.task)
  \/ /\ r.kind = "apply"
     /\ CASE r.params.type = "USER_MOVE_IN"  -> users[r.user].room = NoRoom
          [] r.params.type = "USER_MOVE"     -> users[r.user].room # r.params.room
          [] r.params.type = "USER_MOVE_OUT" -> users[r.user].room # NoRoom
  \/ /\ r.kind = "terminate"
     /\ EndingTasks(Snapshot, r.user) = {}
     /\ "member" \in users[r.user].groups
  \/ /\ r.kind = "revoke"
     /\ EndingTasks(Snapshot, r.user) # {}
     /\ "member" \in users[r.user].groups

BeginRequest(a, r) ==
  /\ pc[a] = "idle"
  /\ requests < MaxRequests
  /\ Accepts(r)
  /\ requests' = requests + 1
  /\ pc' = [pc EXCEPT ![a] = "tx"]
  /\ op' = [op EXCEPT ![a] = r]
  /\ view' = [view EXCEPT ![a] = Snapshot]
  /\ missed' = [missed EXCEPT ![a] = {}]
  /\ UNCHANGED <<status, due, job, users, now, queue, crashes>>

Finish(a) ==
  /\ pc[a] = "tx"
  /\ pc' = [pc EXCEPT ![a] = "idle"]
  /\ op' = [op EXCEPT ![a] = None]
  /\ UNCHANGED <<now, queue, requests, crashes>>

(* manually_execute_task: the status becomes EXECUTED when the             *)
(* implementation returns, also when it returned with an error.            *)
ManualExecute(a) ==
  /\ pc[a] = "tx" /\ op[a].kind = "manual"
  /\ LET t == op[a].task
         u == job[t].user
         j == job[t].params
     IN  /\ IF ImplError(Before(a, u), j)
            THEN UNCHANGED users
            ELSE /\ ~Raises(Before(a, u), j) /\ ~WebConflict(a, u, j)
                 /\ users' = [users EXCEPT ![u] = Written(a, u, j)]
         /\ status' = [status EXCEPT ![t] = "EXECUTED"]
         /\ due' = [due EXCEPT ![t] = view[a].now]
  /\ UNCHANGED job
  /\ Finish(a)
  /\ Commit(a)

(* TerminateMembershipResource.delete takes the next ending task. *)
Revoked(a, t) ==
  /\ t \in EndingTasks(view[a], op[a].user)
  /\ \A x \in EndingTasks(view[a], op[a].user) : view[a].due[t] <= view[a].due[x]

(* cancel_task *)
CancelTask(a) ==
  /\ pc[a] = "tx" /\ op[a].kind \in {"cancel", "revoke"}
  /\ \E t \in Task :
       /\ IF op[a].kind = "cancel" THEN t = op[a].task ELSE Revoked(a, t)
       /\ status' = [status EXCEPT ![t] = "CANCELLED"]
  /\ UNCHANGED <<due, job, users>>
  /\ Finish(a)
  /\ Commit(a)

MutRescheduleTask(a) ==    \* mutation: a postponed task is made open again
  /\ pc[a] = "tx" /\ op[a].kind = "reschedule"
  /\ due' = [due EXCEPT ![op[a].task] = op[a].due]
  /\ status' = [status EXCEPT ![op[a].task] = "OPEN"]
  /\ UNCHANGED <<job, users>>
  /\ Finish(a)
  /\ Commit(a)

RescheduleTask(a) ==
  /\ pc[a] = "tx" /\ op[a].kind = "reschedule"
  /\ due' = [due EXCEPT ![op[a].task] = op[a].due]
  /\ UNCHANGED <<status, job, users>>
  /\ Finish(a)
  /\ Commit(a)

(* The operation a request asks for, and when: the API's termination is a  *)
(* move-out that ends the membership.                                      *)
AskedFor(r) ==
  IF r.kind = "apply" THEN r.params
  ELSE [type |-> "USER_MOVE_OUT", room |-> NoRoom, membership |-> TRUE, mac |-> "none"]

(* schedule_user_task, for a date in the future. *)
ScheduleTask(a, t) ==
  /\ pc[a] = "tx" /\ op[a].kind \in {"apply", "terminate"}
  /\ op[a].when > view[a].now
  /\ status[t] = "NONE"
  /\ status' = [status EXCEPT ![t] = "OPEN"]
  /\ due' = [due EXCEPT ![t] = op[a].when]
  /\ job' = [job EXCEPT ![t] = [user |-> op[a].user, params |-> AskedFor(op[a])]]
  /\ UNCHANGED users
  /\ Finish(a)
  /\ Commit(a)

(* The operation itself, for a date that is not. *)
ApplyNow(a) ==
  /\ pc[a] = "tx" /\ op[a].kind \in {"apply", "terminate"}
  /\ op[a].when <= view[a].now
  /\ LET u == op[a].user
         j == AskedFor(op[a])
     IN  /\ ~Raises(Before(a, u), j) /\ ~WebConflict(a, u, j)
         /\ users' = [users EXCEPT ![u] = Written(a, u, j)]
  /\ UNCHANGED <<status, due, job>>
  /\ Finish(a)
  /\ Commit(a)

(* The request ends in an error page, whatever the reason. *)
AbandonRequest(a) ==
  /\ Finish(a)
  /\ Rollback(a)

----------------------------------------------------------------------------
Tick ==
  /\ now < MaxTime
  /\ now' = now + 1
  /\ UNCHANGED <<status, due, job, users, pc, queue, op, view, missed, requests, crashes>>

WorkerStep(w) ==
  \/ LoadTasks(w)
  \/ BeginNext(w)
  \/ \E t \in Task : ExecuteTask(w, t) \/ AbortRun(w, t)

AdminStep(a) ==
  \/ \E r \in Request : BeginRequest(a, r)
  \/ ManualExecute(a)
  \/ CancelTask(a)
  \/ RescheduleTask(a)
  \/ \E t \in Task : ScheduleTask(a, t)
  \/ ApplyNow(a)
  \/ AbandonRequest(a)

Next ==
  \/ \E w \in Worker : WorkerStep(w) \/ CrashWorker(w)
  \/ \E a \in Admin : AdminStep(a)
  \/ Tick

Spec == Init /\ [][Next]_vars

(* Beat starts a run every hour, and a run that has begun goes on. *)
FairSpec == Spec /\ \A w \in Worker : WF_vars(WorkerStep(w))
----------------------------------------------------------------------------
(* Properties. *)

(* The detailed sessions implement the life of a task: see TaskLife.  It   *)
(* covers pycroft/lib/task.py's status checks together with the blind      *)
(* status write of pycroft/task.py:150.                                    *)
LifeOf == [t \in Task |-> CASE status[t] = "NONE" -> "unscheduled"
                            [] status[t] = "OPEN" -> "pending"
                            [] OTHER -> "closed"]
Life == INSTANCE TaskLife WITH life <- LifeOf
LifeSpec == Life!Spec

(* What a transaction in progress may rely on: it has a view, its request  *)
(* is about a task that the view shows as OPEN, and neither its view nor a *)
(* worker's list knows a task that does not exist.                         *)
SessionInv ==
  /\ \A s \in Session : pc[s] = "tx" =>
       /\ view[s] \in View
       /\ \A t \in Task : view[s].status[t] # "NONE" => status[t] # "NONE"
  /\ \A a \in Admin : pc[a] = "tx" =>
       /\ op[a] \in Request
       /\ op[a].kind \in {"manual", "cancel", "reschedule"}
            => view[a].status[op[a].task] = "OPEN"
  /\ \A w \in Worker : \A t \in queue[w] : status[t] # "NONE"

(* A task is settled when it has ended and nobody is at work who still     *)
(* took it for open: no run has it in its list, no open transaction read   *)
(* it as OPEN.                                                             *)
Settled(t) ==
  /\ status[t] \in Ended
  /\ \A w \in Worker : t \notin queue[w]
  /\ \A a \in Admin : pc[a] = "tx" => view[a].status[t] # "OPEN"

(* A settled task stays settled, with its outcome and its date: a verdict  *)
(* can be overwritten only by a session that was under way when it fell    *)
(* (get_scheduled_tasks filters on OPEN, and each of cancel_task,          *)
(* manually_execute_task and reschedule_task refuses other tasks).         *)
SettledIsFinal ==
  [][\A t \in Task : Settled(t) =>
       Settled(t)' /\ status'[t] = status[t] /\ due'[t] = due[t]]_vars

WorkerRan(w, t) == t \in queue[w] /\ t \notin queue'[w] /\ status'[t] # status[t]

(* A run that records FAILED leaves the user as the last commit left them, *)
(* also when the implementation broke half-way: the savepoint of           *)
(* TaskImpl.execute takes the memberships, room and host back together.    *)
FailureLeavesNoTrace ==
  [][\A t \in Task : status[t] # "FAILED" /\ status'[t] = "FAILED"
       => users' = users]_vars

(* What a run writes over a user's room, host or memberships is what it    *)
(* had read of them: a web request that commits in between is never        *)
(* overwritten, the task fails instead (SERIALIZABLE on the worker's side).*)
WorkerSeesWhatItWrites ==
  [][\A w \in Worker, t \in Task : WorkerRan(w, t) =>
       \A u \in User : users'[u] # users[u] =>
         /\ users'[u].room # users[u].room => view[w].users[u].room = users[u].room
         /\ users'[u].host # users[u].host => view[w].users[u].host = users[u].host
         /\ \A g \in Group : g \in (users'[u].groups \ users[u].groups)
                                     \cup (users[u].groups \ users'[u].groups)
              => (g \in view[w].users[u].groups <=> g \in users[u].groups)]_vars

(* Every due task is eventually ended or postponed, over crashes, aborted  *)
(* runs and any interference: beat starts the next run and the list is     *)
(* read anew.                                                              *)
DueTaskIsProcessed ==
  \A t \in Task : (status[t] = "OPEN" /\ due[t] <= now)
                    ~> (status[t] # "OPEN" \/ due[t] > now)

(* What a run leaves behind: nothing where it records a failure, and else  *)
(* only what it had read as it was.                                        *)
RunsAreSerial == FailureLeavesNoTrace /\ WorkerSeesWhatItWrites
=============================================================================
