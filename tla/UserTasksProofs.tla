-------------------------- MODULE UserTasksProofs --------------------------
(***************************************************************************)
(* Proofs about UserTasks, for any number of tasks, users, workers and web *)
(* sessions: type correctness together with SessionInv, which is what makes *)
(* it inductive; that settled tasks are final; that the sessions implement *)
(* TaskLife; and that the runs of a user's tasks are serial.               *)
(***************************************************************************)
EXTENDS UserTasks, TLAPS

USE NoRoomAssumption, SessionAssumption, JobsAssumption, NoneAssumption, BoundsAssumption

IInv == TypeOK /\ SessionInv

----------------------------------------------------------------------------
(* The operators. *)

(* A lifecycle operation makes rows of a user from rows of a user. *)
LEMMA AppliedType ==
  ASSUME NEW row \in UserRows, NEW j \in JobParams
  PROVE  Applied(row, j) \in UserRows
<1>1. MoveIn(row, j) \in UserRows
  BY DEF MoveIn, UserRows, JobParams, RoomOrNone, Group
<1>2. Move(row, j) \in UserRows
  BY DEF Move, UserRows, JobParams, RoomOrNone
<1>3. MoveOut(row, j) \in UserRows
  BY DEF MoveOut, UserRows, JobParams, RoomOrNone
<1>4. j.type \in {"USER_MOVE_IN", "USER_MOVE", "USER_MOVE_OUT"}
  BY DEF JobParams, TaskType
<1> QED
  BY <1>1, <1>2, <1>3, <1>4 DEF Applied

(* What a session writes over the committed rows is again rows of a user. *)
LEMMA WrittenType ==
  ASSUME NEW s, NEW u \in User, NEW j \in JobParams,
         users \in [User -> UserRows], view[s] \in View
  PROVE  Written(s, u, j) \in UserRows
<1>1. Before(s, u) \in UserRows
  BY DEF Before, View
<1>2. After(s, u, j) \in UserRows
  BY <1>1, AppliedType DEF After
<1>3. users[u] \in UserRows
  OBVIOUS
<1> QED
  BY <1>1, <1>2, <1>3 DEF Written, UserRows

LEMMA SnapshotType ==
  TypeOK => Snapshot \in View
BY DEF TypeOK, Snapshot, View

(* The rows in which two images of the database differ are rows. *)
LEMMA TouchedType ==
  ASSUME users \in [User -> UserRows], users' \in [User -> UserRows]
  PROVE  Touched \subseteq Row
<1>1. ASSUME NEW u \in User, NEW old \in UserRows, NEW new \in UserRows
      PROVE  UserDiff(u, old, new) \subseteq Row
  <2>1. old.groups \subseteq Group /\ new.groups \subseteq Group
    BY DEF UserRows
  <2> QED
    BY <2>1 DEF UserDiff, Row
<1>2. ASSUME NEW u \in User
      PROVE  UserDiff(u, users[u], users'[u]) \subseteq Row
  <2>1. users[u] \in UserRows /\ users'[u] \in UserRows
    OBVIOUS
  <2> QED
    BY <2>1, <1>1
<1>3. {<<"task", t>> : t \in {x \in Task : status[x] # status'[x] \/ due[x] # due'[x]}} \subseteq Row
  BY DEF Row
<1>4. UNION {UserDiff(u, users[u], users'[u]) : u \in User} \subseteq Row
  BY <1>2
<1> QED
  BY <1>3, <1>4 DEF Touched

(* Both ends of a transaction keep view and missed in their types. *)
LEMMA CommitType ==
  ASSUME TypeOK, users' \in [User -> UserRows], NEW s \in Session, Commit(s)
  PROVE  /\ view' \in [Session -> View \cup {None}]
         /\ missed' \in [Session -> SUBSET Row]
<1>1. Touched \subseteq Row
  BY TouchedType DEF TypeOK
<1>2. view' \in [Session -> View \cup {None}]
  BY DEF Commit, TypeOK
<1>3. ASSUME NEW x \in Session
      PROVE  (IF x = s \/ pc[x] # "tx" THEN {} ELSE missed[x] \cup Touched) \in SUBSET Row
  BY <1>1 DEF TypeOK
<1>4. missed' \in [Session -> SUBSET Row]
  BY <1>3 DEF Commit
<1> QED
  BY <1>2, <1>4

LEMMA RollbackType ==
  ASSUME TypeOK, NEW s \in Session, Rollback(s)
  PROVE  /\ view' \in [Session -> View \cup {None}]
         /\ missed' \in [Session -> SUBSET Row]
         /\ status' = status /\ due' = due /\ job' = job /\ users' = users
BY DEF Rollback, TypeOK, db

----------------------------------------------------------------------------
(* The invariant. *)

(* Sessions other than s keep what SessionInv says of them when s ends its *)
(* transaction, as long as no task disappears and no list grows.           *)
LEMMA EndKeepsSessionInv ==
  ASSUME IInv, NEW s \in Session,
         view' = [view EXCEPT ![s] = None],
         NEW next, next # "tx", pc' = [pc EXCEPT ![s] = next],
         \A t \in Task : status[t] # "NONE" => status'[t] # "NONE",
         \A a \in Admin : a # s => op'[a] = op[a],
         \A w \in Worker : queue'[w] \subseteq queue[w]
  PROVE  SessionInv'
<1>1. ASSUME NEW x \in Session, pc'[x] = "tx"
      PROVE  x # s /\ pc[x] = "tx" /\ view'[x] = view[x]
  BY <1>1 DEF IInv, TypeOK
<1>2. \A x \in Session : pc'[x] = "tx" =>
        /\ view'[x] \in View
        /\ \A t \in Task : view'[x].status[t] # "NONE" => status'[t] # "NONE"
  BY <1>1 DEF IInv, SessionInv
<1>3. \A a \in Admin : pc'[a] = "tx" =>
        /\ op'[a] \in Request
        /\ op'[a].kind \in {"manual", "cancel", "reschedule"}
             => view'[a].status[op'[a].task] = "OPEN"
  BY <1>1 DEF IInv, SessionInv, Session
<1>4. \A w \in Worker : \A t \in queue'[w] : status'[t] # "NONE"
  BY DEF IInv, TypeOK, SessionInv
<1> QED
  BY <1>2, <1>3, <1>4 DEF SessionInv

(* The same when s begins one. *)
LEMMA BeginKeepsSessionInv ==
  ASSUME IInv, NEW s \in Session,
         view' = [view EXCEPT ![s] = Snapshot],
         pc' = [pc EXCEPT ![s] = "tx"],
         status' = status,
         \A a \in Admin : a # s => op'[a] = op[a],
         s \in Admin => /\ op'[s] \in Request
                        /\ op'[s].kind \in {"manual", "cancel", "reschedule"}
                             => status[op'[s].task] = "OPEN",
         \A w \in Worker : queue'[w] \subseteq queue[w] \cup DueTasks
  PROVE  SessionInv'
<1>1. Snapshot \in View
  BY SnapshotType DEF IInv
<1>2. view'[s] = Snapshot /\ Snapshot.status = status
  BY DEF IInv, TypeOK, Snapshot
<1>3. ASSUME NEW x \in Session, x # s
      PROVE  pc'[x] = pc[x] /\ view'[x] = view[x]
  BY <1>3 DEF IInv, TypeOK
<1>4. \A x \in Session : pc'[x] = "tx" =>
        /\ view'[x] \in View
        /\ \A t \in Task : view'[x].status[t] # "NONE" => status'[t] # "NONE"
  BY <1>1, <1>2, <1>3 DEF IInv, SessionInv
<1>5. ASSUME NEW a \in Admin, pc'[a] = "tx"
      PROVE  /\ op'[a] \in Request
             /\ op'[a].kind \in {"manual", "cancel", "reschedule"}
                  => view'[a].status[op'[a].task] = "OPEN"
  <2>1. CASE a = s
    BY <2>1, <1>2
  <2>2. CASE a # s
    BY <2>2, <1>3, <1>5 DEF IInv, SessionInv, Session
  <2> QED
    BY <2>1, <2>2
<1>6. \A w \in Worker : \A t \in queue'[w] : status'[t] # "NONE"
  BY DEF IInv, SessionInv, DueTasks
<1> QED
  BY <1>4, <1>5, <1>6 DEF SessionInv

(* A begun job is a job: what the columns of an existing task hold. *)
LEMMA JobType ==
  ASSUME TypeOK, NEW t \in Task, status[t] # "NONE"
  PROVE  job[t].user \in User /\ job[t].params \in JobParams
BY DEF TypeOK, TaskJob

LEMMA WebWriteType ==
  ASSUME TypeOK, NEW s \in Session, view[s] \in View, NEW u \in User, NEW j \in JobParams,
         users' = [users EXCEPT ![u] = Written(s, u, j)]
  PROVE  users' \in [User -> UserRows]
<1>1. Written(s, u, j) \in UserRows
  BY WrittenType DEF TypeOK
<1> QED
  BY <1>1 DEF TypeOK

(* What a web request may ask for are tasks, users and jobs. *)
LEMMA RequestType ==
  ASSUME NEW r \in Request
  PROVE  /\ r.kind \in {"manual", "cancel", "reschedule"} => r.task \in Task
         /\ r.kind = "reschedule" => r.due \in Time
         /\ r.kind \in {"apply", "terminate", "revoke"} => r.user \in User
         /\ r.kind \in {"apply", "terminate"} => r.when \in Time /\ AskedFor(r) \in JobParams
BY DEF Request, AskedFor, JobParams, TaskType, RoomOrNone

LEMMA InitIInv ==
  Init => IInv
<1> SUFFICES ASSUME Init PROVE IInv
  OBVIOUS
<1>1. users \in [User -> UserRows]
  BY DEF Init, UserRows, Group, RoomOrNone
<1>2. TypeOK
  BY <1>1 DEF Init, TypeOK, Status, Time
<1>3. SessionInv
  BY DEF Init, SessionInv, Session
<1> QED
  BY <1>2, <1>3 DEF IInv

LEMMA WorkerPreserves ==
  ASSUME IInv, NEW w \in Worker, WorkerStep(w) \/ CrashWorker(w)
  PROVE  IInv'
<1> USE DEF Session
<1>0. w \in Session /\ w \notin Admin
  OBVIOUS
<1>1. CASE LoadTasks(w)
  <2>1. TypeOK'
    BY <1>1, SnapshotType DEF LoadTasks, IInv, TypeOK, DueTasks
  <2>2. SessionInv'
    BY <1>1, BeginKeepsSessionInv DEF LoadTasks, IInv, TypeOK
  <2> QED
    BY <2>1, <2>2 DEF IInv
<1>2. CASE BeginNext(w)
  <2>1. TypeOK'
    BY <1>2, SnapshotType DEF BeginNext, IInv, TypeOK
  <2>2. SessionInv'
    BY <1>2, BeginKeepsSessionInv DEF BeginNext
  <2> QED
    BY <2>1, <2>2 DEF IInv
<1>3. ASSUME NEW t \in Task, ExecuteTask(w, t)
      PROVE  IInv'
  <2>1. PICK broken \in BOOLEAN :
          LET u == job[t].user
              j == job[t].params
              fails == ExecutionFails(w, t, broken)
          IN  /\ status' = [status EXCEPT ![t] = NewStatus(fails)]
              /\ users' = IF fails THEN AfterFailure(w, u, j)
                          ELSE [users EXCEPT ![u] = Written(w, u, j)]
    BY <1>3 DEF ExecuteTask
  <2>2. status[t] # "NONE" /\ view[w] \in View /\ TypeOK
    BY <1>3 DEF ExecuteTask, IInv, SessionInv
  <2>3. users' \in [User -> UserRows]
    BY <2>1, <2>2, JobType, WebWriteType DEF AfterFailure, TypeOK
  <2>4. NewStatus(ExecutionFails(w, t, broken)) \in {"FAILED", "EXECUTED"}
    BY DEF NewStatus
  <2>5. TypeOK'
    <3>1. status' \in [Task -> Status] /\ \A x \in Task : status'[x] = "NONE" <=> status[x] = "NONE"
      BY <2>1, <2>2, <2>4 DEF TypeOK, Status, Ended
    <3>2. Commit(w) /\ due' = due /\ job' = job
      BY <1>3 DEF ExecuteTask
    <3>3. /\ view' \in [Session -> View \cup {None}]
          /\ missed' \in [Session -> SUBSET Row]
      BY <2>2, <2>3, <3>2, CommitType
    <3>4. /\ pc' \in [Session -> {"idle", "between", "tx"}]
          /\ queue' \in [Worker -> SUBSET Task]
      BY <1>3, <2>2 DEF ExecuteTask, TypeOK
    <3> QED
      BY <1>3, <2>2, <2>3, <3>1, <3>2, <3>3, <3>4 DEF ExecuteTask, TypeOK
  <2>6. SessionInv'
    <3>1. \A x \in Task : status[x] # "NONE" => status'[x] # "NONE"
      BY <2>1, <2>2, <2>4 DEF TypeOK
    <3> QED
      BY <1>3, <2>2, <3>1, EndKeepsSessionInv DEF ExecuteTask, Commit, TypeOK
  <2> QED
    BY <2>5, <2>6 DEF IInv
<1>4. ASSUME Rollback(w), pc' = [pc EXCEPT ![w] = "idle"], queue' = [queue EXCEPT ![w] = {}],
             now' = now, op' = op, requests' = requests, crashes' \in 0 .. MaxCrashes
      PROVE  IInv'
  <2>1. TypeOK'
    BY <1>4, RollbackType DEF IInv, TypeOK
  <2>2. SessionInv'
    BY <1>4, EndKeepsSessionInv DEF IInv, TypeOK, Rollback, db
  <2> QED
    BY <2>1, <2>2 DEF IInv
<1>5. ASSUME NEW t \in Task, AbortRun(w, t)
      PROVE  IInv'
  BY <1>4, <1>5 DEF AbortRun, IInv, TypeOK
<1>6. CASE CrashWorker(w)
  BY <1>4, <1>6 DEF CrashWorker, IInv, TypeOK
<1> QED
  BY <1>1, <1>2, <1>3, <1>5, <1>6 DEF WorkerStep

(* A web transaction that commits typed rows preserves the invariant. *)
LEMMA FinishPreserves ==
  ASSUME IInv, NEW a \in Admin, Finish(a), Commit(a),
         status' \in [Task -> Status],
         \A t \in Task : status[t] # "NONE" => status'[t] # "NONE",
         due' \in [Task -> Time],
         job' \in [Task -> TaskJob \cup {None}],
         \A t \in Task : status'[t] = "NONE" <=> job'[t] = None,
         users' \in [User -> UserRows]
  PROVE  IInv'
<1>0. a \in Session
  BY DEF Session
<1>1. TypeOK'
  <2>1. /\ view' \in [Session -> View \cup {None}]
        /\ missed' \in [Session -> SUBSET Row]
    BY <1>0, CommitType DEF IInv
  <2> QED
    BY <2>1 DEF Finish, IInv, TypeOK
<1>2. SessionInv'
  BY <1>0, EndKeepsSessionInv DEF Finish, Commit, IInv, TypeOK
<1> QED
  BY <1>1, <1>2 DEF IInv

(* What SessionInv gives a web request about to commit. *)
LEMMA InTransaction ==
  ASSUME IInv, NEW a \in Admin, pc[a] = "tx"
  PROVE  /\ op[a] \in Request
         /\ view[a] \in View
         /\ op[a].kind \in {"manual", "cancel", "reschedule"}
              => /\ op[a].task \in Task
                 /\ view[a].status[op[a].task] = "OPEN"
                 /\ status[op[a].task] # "NONE"
BY RequestType DEF IInv, SessionInv, Session

LEMMA AdminPreserves ==
  ASSUME IInv, NEW a \in Admin, AdminStep(a)
  PROVE  IInv'
<1>0. a \in Session /\ TypeOK
  BY DEF Session, IInv
<1>1. ASSUME NEW r \in Request, BeginRequest(a, r)
      PROVE  IInv'
  <2>1. TypeOK'
    BY <1>0, <1>1, SnapshotType DEF BeginRequest, TypeOK
  <2>2. r.kind \in {"manual", "cancel", "reschedule"} => status[r.task] = "OPEN"
    BY <1>1 DEF BeginRequest, Accepts, IsOpen
  <2>3. SessionInv'
    BY <1>0, <1>1, <2>2, BeginKeepsSessionInv DEF BeginRequest, TypeOK
  <2> QED
    BY <2>1, <2>3 DEF IInv
<1>2. CASE ManualExecute(a)
  <2>1. /\ op[a].task \in Task
        /\ status[op[a].task] # "NONE"
        /\ view[a] \in View
    BY <1>2, InTransaction DEF ManualExecute
  <2>2. users' \in [User -> UserRows]
    BY <1>0, <1>2, <2>1, JobType, WebWriteType DEF ManualExecute, TypeOK
  <2>3. /\ status' \in [Task -> Status]
        /\ \A t \in Task : status'[t] = "NONE" <=> status[t] = "NONE"
    BY <1>0, <1>2, <2>1 DEF ManualExecute, TypeOK, Status, Ended
  <2>4. due' \in [Task -> Time]
    BY <1>0, <1>2, <2>1 DEF ManualExecute, TypeOK, View
  <2> QED
    BY <1>0, <1>2, <2>2, <2>3, <2>4, FinishPreserves DEF ManualExecute, TypeOK
<1>3. CASE CancelTask(a)
  <2>1. PICK t \in Task :
          /\ IF op[a].kind = "cancel" THEN t = op[a].task
             ELSE t \in EndingTasks(view[a], op[a].user)
          /\ status' = [status EXCEPT ![t] = "CANCELLED"]
    BY <1>3 DEF CancelTask, Revoked
  <2>2. status[t] # "NONE"
    BY <1>0, <1>3, <2>1, InTransaction DEF CancelTask, EndingTasks, IInv, SessionInv
  <2>3. /\ status' \in [Task -> Status]
        /\ \A x \in Task : status'[x] = "NONE" <=> status[x] = "NONE"
    BY <1>0, <2>1, <2>2 DEF TypeOK, Status, Ended
  <2> QED
    BY <1>0, <1>3, <2>3, FinishPreserves DEF CancelTask, TypeOK
<1>4. CASE RescheduleTask(a)
  <2>1. op[a].task \in Task /\ op[a].due \in Time
    BY <1>4, InTransaction, RequestType DEF RescheduleTask
  <2> QED
    BY <1>0, <1>4, <2>1, FinishPreserves DEF RescheduleTask, TypeOK
<1>5. ASSUME NEW t \in Task, ScheduleTask(a, t)
      PROVE  IInv'
  <2>1. /\ op[a].when \in Time
        /\ [user |-> op[a].user, params |-> AskedFor(op[a])] \in TaskJob
    BY <1>5, InTransaction, RequestType DEF ScheduleTask, TaskJob
  <2>2. /\ job' \in [Task -> TaskJob \cup {None}]
        /\ \A x \in Task : status'[x] = "NONE" <=> job'[x] = None
    BY <1>0, <1>5, <2>1 DEF ScheduleTask, TypeOK, TaskJob
  <2> QED
    BY <1>0, <1>5, <2>1, <2>2, FinishPreserves DEF ScheduleTask, TypeOK, Status
<1>6. CASE ApplyNow(a)
  <2>1. op[a].user \in User /\ AskedFor(op[a]) \in JobParams /\ view[a] \in View
    BY <1>6, InTransaction, RequestType DEF ApplyNow
  <2>2. users' \in [User -> UserRows]
    BY <1>0, <1>6, <2>1, WebWriteType DEF ApplyNow
  <2> QED
    BY <1>0, <1>6, <2>2, FinishPreserves DEF ApplyNow, TypeOK
<1>7. CASE AbandonRequest(a)
  <2>1. TypeOK'
    BY <1>0, <1>7, RollbackType DEF AbandonRequest, Finish, TypeOK
  <2>2. SessionInv'
    BY <1>0, <1>7, EndKeepsSessionInv DEF AbandonRequest, Finish, Rollback, TypeOK, db
  <2> QED
    BY <2>1, <2>2 DEF IInv
<1> QED
  BY <1>1, <1>2, <1>3, <1>4, <1>5, <1>6, <1>7 DEF AdminStep

LEMMA StepPreserves ==
  IInv /\ [Next]_vars => IInv'
<1> SUFFICES ASSUME IInv, [Next]_vars
             PROVE  IInv'
  OBVIOUS
<1>1. CASE Tick
  <2>1. TypeOK'
    BY <1>1 DEF Tick, IInv, TypeOK, Time
  <2>2. SessionInv'
    BY <1>1 DEF Tick, IInv, SessionInv
  <2> QED
    BY <2>1, <2>2 DEF IInv
<1>2. CASE UNCHANGED vars
  BY <1>2 DEF vars, IInv, TypeOK, SessionInv
<1> QED
  BY <1>1, <1>2, WorkerPreserves, AdminPreserves DEF Next

LEMMA Invariance ==
  Spec => []IInv
<1> QED
  BY InitIInv, StepPreserves, PTL DEF Spec

----------------------------------------------------------------------------
(* The results. *)

(* Whatever the sessions do, every variable keeps its type: in particular  *)
(* a task that exists has a user and parameters of its type.               *)
THEOREM TypeCorrect ==
  Spec => []TypeOK
<1>1. IInv => TypeOK
  BY DEF IInv
<1> QED
  BY <1>1, Invariance, PTL

(* A transaction in progress knows existing tasks only, and its request is *)
(* about a task that was open when it was read.                            *)
THEOREM SessionsConsistent ==
  Spec => []SessionInv
<1>1. IInv => SessionInv
  BY DEF IInv
<1> QED
  BY <1>1, Invariance, PTL

(* A step writes the status of at most one task, and only to schedule it   *)
(* or to record how it ended.                                              *)
LEMMA StatusStep ==
  ASSUME IInv, [Next]_vars
  PROVE  \/ status' = status
         \/ \E t \in Task : status[t] = "NONE" /\ status' = [status EXCEPT ![t] = "OPEN"]
         \/ \E t \in Task, v \in Ended :
              status[t] # "NONE" /\ status' = [status EXCEPT ![t] = v]
<1> DEFINE Closing == \E t \in Task, v \in Ended :
                        status[t] # "NONE" /\ status' = [status EXCEPT ![t] = v]
<1>1. ASSUME NEW w \in Worker, NEW t \in Task, ExecuteTask(w, t)
      PROVE  Closing
  <2>1. status[t] # "NONE"
    BY <1>1 DEF ExecuteTask, IInv, SessionInv
  <2>2. PICK f \in BOOLEAN : status' = [status EXCEPT ![t] = NewStatus(f)]
    BY <1>1 DEF ExecuteTask, ExecutionFails
  <2> QED
    BY <2>1, <2>2 DEF NewStatus, Ended
<1>2. ASSUME NEW a \in Admin, ManualExecute(a)
      PROVE  Closing
  BY <1>2, InTransaction DEF ManualExecute, Ended
<1>3. ASSUME NEW a \in Admin, CancelTask(a)
      PROVE  Closing
  <2>1. pc[a] = "tx" /\ a \in Session
    BY <1>3 DEF CancelTask, Session
  <2> QED
    BY <1>3, <2>1, InTransaction DEF CancelTask, Revoked, EndingTasks, Ended, IInv, SessionInv
<1>4. ASSUME NEW a \in Admin, NEW t \in Task, ScheduleTask(a, t)
      PROVE  \E x \in Task : status[x] = "NONE" /\ status' = [status EXCEPT ![x] = "OPEN"]
  BY <1>4 DEF ScheduleTask
<1>5. ASSUME NEW w \in Worker, \/ LoadTasks(w) \/ BeginNext(w) \/ CrashWorker(w)
                               \/ \E t \in Task : AbortRun(w, t)
      PROVE  status' = status
  BY <1>5 DEF LoadTasks, BeginNext, CrashWorker, AbortRun, Rollback, db
<1>6. ASSUME NEW a \in Admin, \/ RescheduleTask(a) \/ ApplyNow(a) \/ AbandonRequest(a)
                              \/ \E r \in Request : BeginRequest(a, r)
      PROVE  status' = status
  BY <1>6 DEF RescheduleTask, ApplyNow, AbandonRequest, BeginRequest, Rollback, db
<1>7. Tick \/ UNCHANGED vars => status' = status
  BY DEF Tick, vars
<1> QED
  BY <1>1, <1>2, <1>3, <1>4, <1>5, <1>6, <1>7 DEF Next, WorkerStep, AdminStep

(* The sessions implement the life of a task: whatever the interleaving of *)
(* runs and requests, a task is scheduled once, closed once, and is never  *)
(* open again.                                                             *)
THEOREM SessionsImplementTaskLife ==
  Spec => LifeSpec
<1>1. Init => Life!Init
  BY DEF Init, Life!Init, LifeOf
<1>2. IInv /\ [Next]_vars => [Life!Next]_LifeOf
  <2> SUFFICES ASSUME IInv, [Next]_vars
               PROVE  [Life!Next]_LifeOf
    OBVIOUS
  <2>0. status \in [Task -> Status]
    BY DEF IInv, TypeOK
  <2>1. CASE status' = status
    BY <2>1 DEF LifeOf
  <2>2. ASSUME NEW t \in Task, status[t] = "NONE", status' = [status EXCEPT ![t] = "OPEN"]
        PROVE  Life!Schedule(t)
    BY <2>0, <2>2 DEF Life!Schedule, LifeOf
  <2>3. ASSUME NEW t \in Task, NEW v \in Ended, status[t] # "NONE",
               status' = [status EXCEPT ![t] = v]
        PROVE  Life!Close(t) \/ UNCHANGED LifeOf
    <3>1. CASE status[t] = "OPEN"
      BY <2>0, <2>3, <3>1 DEF Life!Close, LifeOf, Ended
    <3>2. CASE status[t] # "OPEN"
      BY <2>0, <2>3, <3>2 DEF LifeOf, Ended
    <3> QED
      BY <3>1, <3>2
  <2> QED
    BY <2>1, <2>2, <2>3, StatusStep DEF Life!Next
<1> QED
  BY <1>1, <1>2, Invariance, PTL DEF Spec, LifeSpec, Life!Spec

(* The same step, seen from one settled task. *)
LEMMA SettledStep ==
  ASSUME IInv, [Next]_vars, NEW t \in Task, Settled(t)
  PROVE  Settled(t)' /\ status'[t] = status[t] /\ due'[t] = due[t]
<1>0. /\ status[t] \in Ended /\ status \in [Task -> Status] /\ due \in [Task -> Time]
      /\ \A w \in Worker : t \notin queue[w]
      /\ \A a \in Admin : pc[a] = "tx" => view[a].status[t] # "OPEN"
      /\ TypeOK
  BY DEF IInv, TypeOK, Settled
<1>1. ASSUME status'[t] = status[t],
             \A w \in Worker : queue'[w] \subseteq queue[w] \cup DueTasks,
             \A a \in Admin : pc'[a] = "tx" => \/ pc[a] = "tx" /\ view'[a] = view[a]
                                               \/ view'[a] = Snapshot
      PROVE  Settled(t)'
  BY <1>0, <1>1 DEF Settled, DueTasks, Snapshot, Ended
<1>2. ASSUME NEW w \in Worker, LoadTasks(w) \/ BeginNext(w)
      PROVE  Settled(t)' /\ status'[t] = status[t] /\ due'[t] = due[t]
  BY <1>0, <1>1, <1>2 DEF LoadTasks, BeginNext, TypeOK, Session
<1>3. ASSUME NEW w \in Worker, NEW x \in Task, ExecuteTask(w, x)
      PROVE  Settled(t)' /\ status'[t] = status[t] /\ due'[t] = due[t]
  <2>1. x # t /\ w \notin Admin
    BY <1>0, <1>3 DEF ExecuteTask
  <2>2. status'[t] = status[t] /\ due' = due
    BY <1>0, <1>3, <2>1 DEF ExecuteTask
  <2> QED
    BY <1>0, <1>1, <1>3, <2>1, <2>2 DEF ExecuteTask, Commit, TypeOK, Session
<1>4. ASSUME NEW w \in Worker, CrashWorker(w) \/ \E x \in Task : AbortRun(w, x)
      PROVE  Settled(t)' /\ status'[t] = status[t] /\ due'[t] = due[t]
  BY <1>0, <1>1, <1>4 DEF CrashWorker, AbortRun, Rollback, db, TypeOK, Session
<1>5. ASSUME NEW a \in Admin, NEW r \in Request, BeginRequest(a, r)
      PROVE  Settled(t)' /\ status'[t] = status[t] /\ due'[t] = due[t]
  BY <1>0, <1>1, <1>5 DEF BeginRequest, TypeOK, Session
<1>6. ASSUME NEW a \in Admin, Finish(a), view' = [view EXCEPT ![a] = None],
             status'[t] = status[t], due'[t] = due[t]
      PROVE  Settled(t)' /\ status'[t] = status[t] /\ due'[t] = due[t]
  BY <1>0, <1>1, <1>6 DEF Finish, TypeOK, Session
<1>7. ASSUME NEW a \in Admin, ManualExecute(a) \/ RescheduleTask(a)
      PROVE  Settled(t)' /\ status'[t] = status[t] /\ due'[t] = due[t]
  <2>1. op[a].task \in Task /\ op[a].task # t
    BY <1>0, <1>7, InTransaction DEF ManualExecute, RescheduleTask
  <2> QED
    BY <1>0, <1>6, <1>7, <2>1 DEF ManualExecute, RescheduleTask, Commit
<1>8. ASSUME NEW a \in Admin, CancelTask(a)
      PROVE  Settled(t)' /\ status'[t] = status[t] /\ due'[t] = due[t]
  <2>1. PICK x \in Task :
          /\ IF op[a].kind = "cancel" THEN x = op[a].task
             ELSE x \in EndingTasks(view[a], op[a].user)
          /\ status' = [status EXCEPT ![x] = "CANCELLED"]
    BY <1>8 DEF CancelTask, Revoked
  <2>2. x # t
    BY <1>0, <1>8, <2>1, InTransaction DEF CancelTask, EndingTasks
  <2> QED
    BY <1>0, <1>6, <1>8, <2>1, <2>2 DEF CancelTask, Commit
<1>9. ASSUME NEW a \in Admin, \/ ApplyNow(a) \/ AbandonRequest(a)
                              \/ \E x \in Task : ScheduleTask(a, x)
      PROVE  Settled(t)' /\ status'[t] = status[t] /\ due'[t] = due[t]
  BY <1>0, <1>6, <1>9 DEF ApplyNow, AbandonRequest, ScheduleTask, Commit, Rollback, db, Ended
<1>10. CASE Tick \/ UNCHANGED vars
  BY <1>0, <1>1, <1>10 DEF Tick, vars
<1> QED
  BY <1>2, <1>3, <1>4, <1>5, <1>7, <1>8, <1>9, <1>10 DEF Next, WorkerStep, AdminStep

(* A verdict is final once every session that was under way when it fell   *)
(* has ended: lists are built from open tasks, and cancelling, executing   *)
(* and postponing insist on an open one.                                   *)
THEOREM SettledTasksAreFinal ==
  Spec => SettledIsFinal
<1>1. IInv /\ [Next]_vars =>
        \A t \in Task : Settled(t) =>
          Settled(t)' /\ status'[t] = status[t] /\ due'[t] = due[t]
  BY SettledStep
<1> QED
  BY <1>1, Invariance, PTL DEF Spec, SettledIsFinal

----------------------------------------------------------------------------
(* Runs are serial.  A transaction that does not see a row of a user as it *)
(* is now knows that others have committed it in between.                  *)
MissedIsComplete ==
  \A s \in Session : pc[s] = "tx" =>
    \A u \in User :
      /\ users[u].room # view[s].users[u].room => <<"room", u>> \in missed[s]
      /\ users[u].host # view[s].users[u].host => <<"host", u>> \in missed[s]
      /\ \A g \in Group : g \in users[u].groups /\ g \notin view[s].users[u].groups => <<g, u>> \in missed[s]
      /\ \A g \in Group : g \notin users[u].groups /\ g \in view[s].users[u].groups => <<g, u>> \in missed[s]

(* What a commit changes is among the rows that it touches. *)
LEMMA TouchedShows ==
  ASSUME NEW u \in User
  PROVE  /\ users[u].room # users'[u].room => <<"room", u>> \in Touched
         /\ users[u].host # users'[u].host => <<"host", u>> \in Touched
         /\ \A g \in Group : g \in users[u].groups /\ g \notin users'[u].groups => <<g, u>> \in Touched
         /\ \A g \in Group : g \notin users[u].groups /\ g \in users'[u].groups => <<g, u>> \in Touched
<1>1. UserDiff(u, users[u], users'[u]) \subseteq Touched
  BY DEF Touched
<1>2. /\ users[u].room # users'[u].room => <<"room", u>> \in UserDiff(u, users[u], users'[u])
      /\ users[u].host # users'[u].host => <<"host", u>> \in UserDiff(u, users[u], users'[u])
      /\ \A g \in Group : g \in users[u].groups /\ g \notin users'[u].groups
           => <<g, u>> \in UserDiff(u, users[u], users'[u])
      /\ \A g \in Group : g \notin users[u].groups /\ g \in users'[u].groups
           => <<g, u>> \in UserDiff(u, users[u], users'[u])
  BY DEF UserDiff
<1> QED
  BY <1>1, <1>2

LEMMA CommitKeepsMissed ==
  ASSUME IInv, MissedIsComplete, NEW s \in Session, Commit(s),
         NEW next, next # "tx", pc' = [pc EXCEPT ![s] = next]
  PROVE  MissedIsComplete'
<1> SUFFICES ASSUME NEW x \in Session, pc'[x] = "tx", NEW u \in User
             PROVE  /\ users'[u].room # view'[x].users[u].room => <<"room", u>> \in missed'[x]
                    /\ users'[u].host # view'[x].users[u].host => <<"host", u>> \in missed'[x]
                    /\ \A g \in Group : g \in users'[u].groups /\ g \notin view'[x].users[u].groups
                         => <<g, u>> \in missed'[x]
                    /\ \A g \in Group : g \notin users'[u].groups /\ g \in view'[x].users[u].groups
                         => <<g, u>> \in missed'[x]
  BY DEF MissedIsComplete
<1>1. x # s /\ pc[x] = "tx" /\ view'[x] = view[x] /\ missed'[x] = missed[x] \cup Touched
  BY DEF IInv, TypeOK, Commit
<1> QED
  BY <1>1, TouchedShows DEF MissedIsComplete

LEMMA RollbackKeepsMissed ==
  ASSUME IInv, MissedIsComplete, NEW s \in Session, Rollback(s),
         NEW next, next # "tx", pc' = [pc EXCEPT ![s] = next]
  PROVE  MissedIsComplete'
BY DEF IInv, TypeOK, Rollback, db, MissedIsComplete

LEMMA BeginKeepsMissed ==
  ASSUME IInv, MissedIsComplete, NEW s \in Session, users' = users,
         view' = [view EXCEPT ![s] = Snapshot], missed' = [missed EXCEPT ![s] = {}],
         pc' = [pc EXCEPT ![s] = "tx"]
  PROVE  MissedIsComplete'
<1>1. view'[s].users = users /\ \A x \in Session : x # s =>
        pc'[x] = pc[x] /\ view'[x] = view[x] /\ missed'[x] = missed[x]
  BY DEF IInv, TypeOK, Snapshot
<1> QED
  BY <1>1 DEF MissedIsComplete

LEMMA StepKeepsMissed ==
  IInv /\ MissedIsComplete /\ [Next]_vars => MissedIsComplete'
<1> SUFFICES ASSUME IInv, MissedIsComplete, [Next]_vars PROVE MissedIsComplete'
  OBVIOUS
<1> USE DEF Session
<1>1. ASSUME NEW w \in Worker, LoadTasks(w) \/ BeginNext(w) PROVE MissedIsComplete'
  BY <1>1, BeginKeepsMissed DEF LoadTasks, BeginNext
<1>2. ASSUME NEW w \in Worker, NEW t \in Task, ExecuteTask(w, t) PROVE MissedIsComplete'
  <2>1. PICK next : next # "tx" /\ pc' = [pc EXCEPT ![w] = next]
    BY <1>2 DEF ExecuteTask
  <2> QED
    BY <1>2, <2>1, CommitKeepsMissed DEF ExecuteTask
<1>3. ASSUME NEW w \in Worker, CrashWorker(w) \/ \E t \in Task : AbortRun(w, t) PROVE MissedIsComplete'
  BY <1>3, RollbackKeepsMissed DEF CrashWorker, AbortRun
<1>4. ASSUME NEW a \in Admin, NEW r \in Request, BeginRequest(a, r) PROVE MissedIsComplete'
  BY <1>4, BeginKeepsMissed DEF BeginRequest
<1>5. ASSUME NEW a \in Admin, Finish(a), Commit(a) PROVE MissedIsComplete'
  BY <1>5, CommitKeepsMissed DEF Finish
<1>6. ASSUME NEW a \in Admin, AbandonRequest(a) PROVE MissedIsComplete'
  BY <1>6, RollbackKeepsMissed DEF AbandonRequest, Finish
<1>7. CASE Tick \/ UNCHANGED vars
  BY <1>7 DEF Tick, vars, MissedIsComplete
<1> QED
  BY <1>1, <1>2, <1>3, <1>4, <1>5, <1>6, <1>7
  DEF Next, WorkerStep, AdminStep, ManualExecute, CancelTask, RescheduleTask, ScheduleTask, ApplyNow

(* FAILED is written by a run alone, and with it nothing else. *)
LEMMA FailureStep ==
  ASSUME IInv, [Next]_vars, NEW t \in Task, status[t] # "FAILED", status'[t] = "FAILED"
  PROVE  users' = users
<1>1. ASSUME NEW w \in Worker, NEW x \in Task, ExecuteTask(w, x) PROVE users' = users
  <2>1. PICK broken \in BOOLEAN :
          LET u == job[x].user
              j == job[x].params
              fails == ExecutionFails(w, x, broken)
          IN  /\ status' = [status EXCEPT ![x] = NewStatus(fails)]
              /\ users' = IF fails THEN AfterFailure(w, u, j)
                          ELSE [users EXCEPT ![u] = Written(w, u, j)]
    BY <1>1 DEF ExecuteTask
  <2>2. NewStatus(ExecutionFails(w, x, broken)) = "FAILED"
    BY <2>1 DEF IInv, TypeOK
  <2>3. ExecutionFails(w, x, broken)
    BY <2>2 DEF NewStatus
  <2> QED
    BY <2>1, <2>3 DEF AfterFailure
<1>2. ASSUME NEW a \in Admin, AdminStep(a) PROVE users' = users
  <2>1. ~ ManualExecute(a)
    BY DEF ManualExecute, IInv, TypeOK
  <2>2. ~ ApplyNow(a)
    BY DEF ApplyNow
  <2> QED
    BY <1>2, <2>1, <2>2
    DEF AdminStep, BeginRequest, CancelTask, RescheduleTask, ScheduleTask, AbandonRequest, Rollback, db
<1>3. ASSUME NEW w \in Worker, \/ LoadTasks(w) \/ BeginNext(w) \/ CrashWorker(w)
                               \/ \E x \in Task : AbortRun(w, x)
      PROVE  users' = users
  BY <1>3 DEF LoadTasks, BeginNext, CrashWorker, AbortRun, Rollback, db
<1>4. Tick \/ UNCHANGED vars => users' = users
  BY DEF Tick, vars
<1> QED
  BY <1>1, <1>2, <1>3, <1>4 DEF Next, WorkerStep

(* A task leaves the list of a run with a new status only when the run     *)
(* executes it.                                                            *)
LEMMA RanExecuted ==
  ASSUME IInv, [Next]_vars, NEW w \in Worker, NEW t \in Task, WorkerRan(w, t)
  PROVE  ExecuteTask(w, t)
<1>1. queue' # queue /\ status' # status
  BY DEF WorkerRan
<1>2. ASSUME NEW v \in Worker, NEW x \in Task, ExecuteTask(v, x) PROVE ExecuteTask(w, t)
  <2>1. queue' = [queue EXCEPT ![v] = @ \ {x}]
    BY <1>2 DEF ExecuteTask
  <2>2. v = w /\ x = t
    BY <2>1 DEF WorkerRan, IInv, TypeOK
  <2> QED
    BY <1>2, <2>2
<1>3. ASSUME NEW a \in Admin PROVE ~ AdminStep(a)
  BY <1>1 DEF AdminStep, BeginRequest, ManualExecute, CancelTask, RescheduleTask, ScheduleTask,
              ApplyNow, AbandonRequest, Finish
<1>4. ASSUME NEW v \in Worker
      PROVE  ~ LoadTasks(v) /\ ~ BeginNext(v) /\ ~ CrashWorker(v) /\ \A x \in Task : ~ AbortRun(v, x)
  BY <1>1 DEF LoadTasks, BeginNext, CrashWorker, AbortRun, Rollback, db
<1>5. ~ Tick /\ ~ UNCHANGED vars
  BY <1>1 DEF Tick, vars
<1> QED
  BY <1>2, <1>3, <1>4, <1>5 DEF Next, WorkerStep

(* A run writes a row over one that it has seen. *)
LEMMA RunSees ==
  ASSUME IInv, MissedIsComplete, [Next]_vars, NEW w \in Worker, NEW t \in Task, WorkerRan(w, t),
         NEW u \in User, users'[u] # users[u]
  PROVE  /\ users'[u].room # users[u].room => view[w].users[u].room = users[u].room
         /\ users'[u].host # users[u].host => view[w].users[u].host = users[u].host
         /\ \A g \in Group : g \in (users'[u].groups \ users[u].groups)
                                     \cup (users[u].groups \ users'[u].groups)
              => (g \in view[w].users[u].groups <=> g \in users[u].groups)
<1>1. ExecuteTask(w, t) /\ w \in Session /\ pc[w] = "tx"
  BY RanExecuted DEF ExecuteTask, Session
<1>2. PICK j : /\ users' = [users EXCEPT ![u] = Written(w, u, j)]
               /\ ~ WorkerConflict(w, u, j)
  <2>1. PICK broken \in BOOLEAN :
          users' = IF ExecutionFails(w, t, broken) THEN AfterFailure(w, job[t].user, job[t].params)
                   ELSE [users EXCEPT ![job[t].user] = Written(w, job[t].user, job[t].params)]
    BY <1>1 DEF ExecuteTask
  <2>2. ~ ExecutionFails(w, t, broken)
    BY <2>1 DEF AfterFailure
  <2>3. job[t].user = u
    BY <2>1, <2>2 DEF IInv, TypeOK
  <2>4. ~ WorkerConflict(w, job[t].user, job[t].params)
    BY <2>2 DEF ExecutionFails
  <2> QED
    BY <2>1, <2>2, <2>3, <2>4
<1> DEFINE old == Before(w, u)
           new == After(w, u, j)
<1>3. users'[u] = Written(w, u, j) /\ old = view[w].users[u]
  BY <1>2 DEF IInv, TypeOK, Before
<1>4. /\ users'[u].room # users[u].room => new.room # old.room
      /\ users'[u].host # users[u].host => new.host # old.host
      /\ \A g \in users'[u].groups \ users[u].groups : g \in new.groups \ old.groups
      /\ \A g \in users[u].groups \ users'[u].groups : g \in old.groups \ new.groups
  BY <1>3 DEF Written
<1>5. /\ new.room # old.room => <<"room", u>> \notin missed[w]
      /\ new.host # old.host => <<"host", u>> \notin missed[w]
      /\ \A g \in new.groups \ old.groups : <<g, u>> \notin missed[w]
      /\ \A g \in old.groups \ new.groups : <<g, u>> \notin missed[w]
  BY <1>2 DEF WorkerConflict, UserDiff
<1> HIDE DEF old, new
<1> QED
  BY <1>1, <1>3, <1>4, <1>5 DEF MissedIsComplete

(* A run that records a failure leaves nothing else, and what a run writes *)
(* over rows of users is what it had read of them, whatever web requests   *)
(* commit in between: rows that others wrote fail the task.                *)
THEOREM RunsAreAlwaysSerial ==
  Spec => RunsAreSerial
<1>1. Init => MissedIsComplete
  BY DEF Init, MissedIsComplete, Session
<1>2. Spec => []MissedIsComplete
  BY <1>1, StepKeepsMissed, Invariance, PTL DEF Spec
<1>3. IInv /\ [Next]_vars =>
        [\A t \in Task : status[t] # "FAILED" /\ status'[t] = "FAILED" => users' = users]_vars
  BY FailureStep
<1>4. IInv /\ MissedIsComplete /\ [Next]_vars =>
        [\A w \in Worker, t \in Task : WorkerRan(w, t) =>
           \A u \in User : users'[u] # users[u] =>
             /\ users'[u].room # users[u].room => view[w].users[u].room = users[u].room
             /\ users'[u].host # users[u].host => view[w].users[u].host = users[u].host
             /\ \A g \in Group : g \in (users'[u].groups \ users[u].groups)
                                         \cup (users[u].groups \ users'[u].groups)
                  => (g \in view[w].users[u].groups <=> g \in users[u].groups)]_vars
  BY RunSees
<1> QED
  BY <1>2, <1>3, <1>4, Invariance, PTL
  DEF Spec, RunsAreSerial, FailureLeavesNoTrace, WorkerSeesWhatItWrites

============================================================================
