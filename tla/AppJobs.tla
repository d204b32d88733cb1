------------------------------- MODULE AppJobs -------------------------------
(***************************************************************************)
(* FirmwareApplicationJobs, the bounded executor of background jobs: the   *)
(* UI task starts, stops and quiesces it and submits jobs, other tasks may *)
(* submit too; each successful start makes a worker task.                  *)
(* A step ends where another task can observe or disturb what follows: at  *)
(* an atomic, a queue or semaphore call, or the deletion of one.           *)
(***************************************************************************)
EXTENDS Integers, Sequences, FiniteSets, Lifecycle

CONSTANTS
  Jobs,            \* the job objects
  QueueLength,     \* xQueueCreate(8, ...)
  CounterSize,     \* pending_ is a size_t: it counts modulo this
  Environments     \* what may surround the executor: the submitters (the tasks other
                   \* than the UI task that call submit), starts (bound: the calls of
                   \* start that reach the allocation) and timeout (may the 5 s wait
                   \* for the worker expire?)

ASSUME JobsAssumption ==
  /\ QueueLength \in Nat \ {0}
  /\ CounterSize \in Nat
  /\ \A e \in Environments :
       /\ "ui" \notin e.submitters /\ IsFiniteSet(e.submitters)
       /\ CounterSize > Cardinality(e.submitters) + QueueLength + 3
       /\ e.starts \in Nat \ {0}
       /\ e.timeout \in BOOLEAN
  /\ "pill" \notin Jobs

Tasks   == {"ui"} \cup UNION {e.submitters : e \in Environments}
Workers == UNION {1 .. e.starts : e \in Environments}
Kinds   == {"queue", "worker_stopped", "idle"}

VARIABLES
  env,      \* the environment of this behaviour
  life,     \* lifecycle_
  obj,      \* queue_, worker_stopped_ and idle_: null, live, or a handle to a deleted object
  items,    \* the contents of queue_
  token,    \* the two binary semaphores: is the token there?
  pending,  \* pending_
  worker,   \* worker_task_: a worker or 0 for nullptr
  made,     \* how many workers were created
  pc,       \* where each task is in start, submit, quiesce or stop
  wpc,      \* where each worker is
  job       \* the job each worker runs

vars == <<env, life, obj, items, token, pending, worker, made, pc, wpc, job>>
rtos == <<obj, items, token>>
wvars == <<worker, made, wpc, job>>

UiPc == {"Idle", "Create", "Spawn", "Publish", "Quiesce", "QuiesceWait", "Drain",
         "DrainWait", "Pill", "JoinCheck", "Join", "Kill", "Delete", "Clear", "Deleted"}
SubmitPc == {"Idle", "Count", "Recheck", "Send", "Give"}
WorkerPc == {"None", "Receive", "Run", "Give", "Bye", "Forget", "Gone"}

NoJob == "pill"  \* the null pointer: nothing to run, or the request to stop

TypeOK ==
  /\ env \in Environments
  /\ life \in LifecycleState
  /\ obj \in [Kinds -> {"null", "live", "freed"}]
  /\ items \in Seq(Jobs \cup {NoJob}) /\ Len(items) <= QueueLength
  /\ token \in [{"worker_stopped", "idle"} -> BOOLEAN]
  /\ pending \in 0 .. CounterSize - 1
  /\ worker \in Workers \cup {0}
  /\ made \in {0} \cup Workers
  /\ pc \in [Tasks -> UiPc \cup SubmitPc]
  /\ wpc \in [Workers -> WorkerPc]
  /\ job \in [Workers -> Jobs \cup {NoJob}]

Init ==
  /\ env \in Environments
  /\ life = "stopped"
  /\ obj = [k \in Kinds |-> "null"]
  /\ items = <<>>
  /\ token = [k \in {"worker_stopped", "idle"} |-> FALSE]
  /\ pending = 0
  /\ worker = 0
  /\ made = 0
  /\ pc = [t \in Tasks |-> "Idle"]
  /\ wpc = [w \in Workers |-> "None"]
  /\ job = [w \in Workers |-> NoJob]

Goto(t, from, to) == pc[t] = from /\ pc' = [pc EXCEPT ![t] = to]
WorkerGoto(w, from, to) == wpc[w] = from /\ wpc' = [wpc EXCEPT ![w] = to]

-----------------------------------------------------------------------------
(***************************************************************************)
(* complete_pending: the decrement; who takes the count to zero goes on to *)
(* give idle_ (GiveIdle), if the member is not null by then.  Of what the  *)
(* give of a deleted semaphore may do, the model has the outcome in which  *)
(* the program goes on.                                                    *)
(***************************************************************************)
Decrement == pending' = (pending - 1) % CounterSize
(* Mutant: the count is compared after the decrement.                      *)
LastOneLate == pending = 0
LastOne   == pending = 1

GiveIdle ==
  /\ token' = IF obj["idle"] = "live" THEN [token EXCEPT !["idle"] = TRUE] ELSE token
  /\ UNCHANGED <<obj, items>>

-----------------------------------------------------------------------------
(***************************************************************************)
(* start, on the UI task.                                                  *)
(***************************************************************************)
StartCall ==
  /\ Goto("ui", "Idle", "Create")
  /\ made < env.starts
  /\ BeginStart(life).acquire
  /\ life' = BeginStart(life).state
  /\ UNCHANGED <<env, rtos, pending, wvars>>

StartCreate ==
  /\ Goto("ui", "Create", "Spawn")
  /\ obj' = [k \in Kinds |-> "live"]
  /\ items' = <<>>
  /\ token' = [k \in {"worker_stopped", "idle"} |-> FALSE]
  /\ UNCHANGED <<env, life, pending, wvars>>

(* At least one allocation failed; the stop it leads to finds starting.    *)
StartCreateFails ==
  /\ Goto("ui", "Create", "Drain")
  /\ obj' \in {o \in [Kinds -> {"null", "live"}] : \E k \in Kinds : o[k] = "null"}
  /\ items' = <<>>
  /\ token' = [k \in {"worker_stopped", "idle"} |-> FALSE]
  /\ AtomicBeginStop(life).release
  /\ life' = AtomicBeginStop(life).state
  /\ UNCHANGED <<env, pending, wvars>>

(* xTaskCreate: the worker runs at once, before worker_task_ is assigned.  *)
StartSpawn ==
  /\ Goto("ui", "Spawn", "Publish")
  /\ WorkerGoto(made + 1, "None", "Receive")
  /\ made' = made + 1
  /\ UNCHANGED <<env, life, rtos, pending, worker, job>>

StartSpawnFails ==
  /\ Goto("ui", "Spawn", "Drain")
  /\ AtomicBeginStop(life).release
  /\ life' = AtomicBeginStop(life).state
  /\ UNCHANGED <<env, rtos, pending, wvars>>

StartPublish ==
  /\ Goto("ui", "Publish", "Idle")
  /\ worker' = made
  /\ life' = "running"
  /\ UNCHANGED <<env, rtos, pending, made, wpc, job>>

-----------------------------------------------------------------------------
(***************************************************************************)
(* submit, on any task: admission is checked, the count joined, and        *)
(* admission checked again before the queue is touched.                    *)
(***************************************************************************)
SubmitCall(t) ==
  /\ t \in {"ui"} \cup env.submitters
  /\ Goto(t, "Idle", "Count")
  /\ life = "running"
  /\ UNCHANGED <<env, life, rtos, pending, wvars>>

(* Mutant: the submission does not join the count.                         *)
SubmitCountForgotten(t) ==
  /\ Goto(t, "Count", "Recheck")
  /\ UNCHANGED <<env, life, rtos, pending, wvars>>

SubmitCount(t) ==
  /\ Goto(t, "Count", "Recheck")
  /\ pending' = (pending + 1) % CounterSize
  /\ UNCHANGED <<env, life, rtos, wvars>>

Withdraw(t, from) ==
  /\ Goto(t, from, IF LastOne THEN "Give" ELSE "Idle")
  /\ Decrement
  /\ UNCHANGED <<env, life, rtos, wvars>>

(* Mutant: admission is not checked again.                                 *)
SubmitNoRecheck(t) ==
  /\ Goto(t, "Recheck", "Send")
  /\ UNCHANGED <<env, life, rtos, pending, wvars>>

SubmitRecheck(t) ==
  \/ /\ life = "running"
     /\ Goto(t, "Recheck", "Send")
     /\ UNCHANGED <<env, life, rtos, pending, wvars>>
  \/ /\ life # "running"
     /\ Withdraw(t, "Recheck")

SubmitSend(t) ==
  /\ Goto(t, "Send", "Idle")
  /\ obj["queue"] = "live"
  /\ Len(items) < QueueLength
  /\ \E j \in Jobs : items' = Append(items, j)
  /\ UNCHANGED <<env, life, obj, token, pending, wvars>>

SubmitFull(t) ==
  /\ obj["queue"] = "live"
  /\ Len(items) = QueueLength
  /\ Withdraw(t, "Send")

SubmitGive(t) ==
  /\ Goto(t, "Give", "Idle")
  /\ GiveIdle
  /\ UNCHANGED <<env, life, pending, wvars>>

-----------------------------------------------------------------------------
(***************************************************************************)
(* quiesce, called by AppManager (Quiesce) and by stop (Drain).            *)
(***************************************************************************)
CheckPending(check, wait, done) ==
  /\ Goto("ui", check, IF pending # 0 /\ obj["idle"] # "null" THEN wait ELSE done)
  /\ UNCHANGED <<env, life, rtos, pending, wvars>>

TakeIdle(wait, check) ==
  /\ Goto("ui", wait, check)
  /\ token["idle"]
  /\ token' = [token EXCEPT !["idle"] = FALSE]
  /\ UNCHANGED <<env, life, obj, items, pending, wvars>>

QuiesceCall ==
  /\ Goto("ui", "Idle", "Quiesce")
  /\ UNCHANGED <<env, life, rtos, pending, wvars>>

QuiesceCheck == CheckPending("Quiesce", "QuiesceWait", "Idle")
QuiesceTake  == TakeIdle("QuiesceWait", "Quiesce")

-----------------------------------------------------------------------------
(***************************************************************************)
(* stop, on the UI task.                                                   *)
(***************************************************************************)
StopCall ==
  /\ Goto("ui", "Idle", IF AtomicBeginStop(life).release THEN "Drain" ELSE "Idle")
  /\ life' = AtomicBeginStop(life).state
  /\ UNCHANGED <<env, rtos, pending, wvars>>

(* Mutant: stop does not wait for the count.                               *)
StopNoDrain ==
  /\ Goto("ui", "Drain", "Pill")
  /\ UNCHANGED <<env, life, rtos, pending, wvars>>

StopCheck == CheckPending("Drain", "DrainWait", "Pill")
StopTake  == TakeIdle("DrainWait", "Drain")

(* The null pointer tells the worker to leave; the send may block.         *)
StopPill ==
  /\ Goto("ui", "Pill", "JoinCheck")
  /\ obj["queue"] = "live" /\ worker # 0
  /\ Len(items) < QueueLength
  /\ items' = Append(items, NoJob)
  /\ UNCHANGED <<env, life, obj, token, pending, wvars>>

StopNoWorker ==
  /\ Goto("ui", "Pill", "Delete")
  /\ obj["queue"] = "null" \/ worker = 0
  /\ UNCHANGED <<env, life, rtos, pending, wvars>>

StopJoinCheck ==
  /\ Goto("ui", "JoinCheck",
          IF worker = 0 \/ obj["worker_stopped"] = "null" THEN "Delete" ELSE "Join")
  /\ UNCHANGED <<env, life, rtos, pending, wvars>>

(* Mutant: stop does not wait for the worker.                              *)
StopNoJoin ==
  /\ Goto("ui", "Join", "Delete")
  /\ UNCHANGED <<env, life, rtos, pending, wvars>>

StopJoin ==
  /\ Goto("ui", "Join", "Delete")
  /\ token["worker_stopped"]
  /\ token' = [token EXCEPT !["worker_stopped"] = FALSE]
  /\ UNCHANGED <<env, life, obj, items, pending, wvars>>

(* The wait expires.  Before the next step the worker may still report and *)
(* clear worker_task_.                                                     *)
StopJoinTimeout ==
  /\ Goto("ui", "Join", "Kill")
  /\ env.timeout
  /\ ~token["worker_stopped"]
  /\ UNCHANGED <<env, life, rtos, pending, wvars>>

(* vTaskDelete(worker_task_): the worker is deleted where it stands, or,   *)
(* when the handle is null by now, the caller.                             *)
StopKill ==
  /\ \/ /\ worker # 0
        /\ wpc' = [wpc EXCEPT ![worker] = "Gone"]
        /\ Goto("ui", "Kill", "Delete")
     \/ /\ worker = 0
        /\ Goto("ui", "Kill", "Deleted")
        /\ UNCHANGED wpc
  /\ worker' = 0
  /\ UNCHANGED <<env, life, rtos, pending, made, job>>

StopDelete ==
  /\ Goto("ui", "Delete", "Clear")
  /\ obj' = [k \in Kinds |-> IF obj[k] = "live" THEN "freed" ELSE obj[k]]
  /\ items' = <<>>
  /\ token' = [k \in {"worker_stopped", "idle"} |-> FALSE]
  /\ UNCHANGED <<env, life, pending, wvars>>

StopClear ==
  /\ Goto("ui", "Clear", "Idle")
  /\ obj' = [k \in Kinds |-> "null"]
  /\ pending' = 0
  /\ life' = "stopped"
  /\ UNCHANGED <<env, items, token, wvars>>

-----------------------------------------------------------------------------
(***************************************************************************)
(* worker.                                                                 *)
(***************************************************************************)
Receive(w) ==
  /\ obj["queue"] = "live" /\ w = made
  /\ items # <<>>
  /\ WorkerGoto(w, "Receive", IF Head(items) = NoJob THEN "Bye" ELSE "Run")
  /\ items' = Tail(items)
  /\ job' = [job EXCEPT ![w] = Head(items)]
  /\ UNCHANGED <<env, life, obj, token, pending, worker, made, pc>>

(* run returns and the count is decremented.                               *)
RunJob(w) ==
  /\ WorkerGoto(w, "Run", IF LastOne THEN "Give" ELSE "Receive")
  /\ Decrement
  /\ job' = [job EXCEPT ![w] = NoJob]
  /\ UNCHANGED <<env, life, rtos, worker, made, pc>>

WorkerGive(w) ==
  /\ WorkerGoto(w, "Give", "Receive")
  /\ GiveIdle
  /\ UNCHANGED <<env, life, pending, worker, made, pc, job>>

(* Mutant: the worker leaves without reporting.                            *)
WorkerByeSilent(w) ==
  /\ WorkerGoto(w, "Bye", "Forget")
  /\ UNCHANGED <<env, life, rtos, pending, worker, made, pc, job>>

WorkerBye(w) ==
  /\ WorkerGoto(w, "Bye", "Forget")
  /\ obj["worker_stopped"] = "live"
  /\ token' = [token EXCEPT !["worker_stopped"] = TRUE]
  /\ UNCHANGED <<env, life, obj, items, pending, worker, made, pc, job>>

WorkerForget(w) ==
  /\ WorkerGoto(w, "Forget", "Gone")
  /\ worker' = 0
  /\ UNCHANGED <<env, life, rtos, pending, made, pc, job>>

-----------------------------------------------------------------------------
Submit(t) == \/ SubmitCall(t) \/ SubmitCount(t) \/ SubmitRecheck(t)
             \/ SubmitSend(t) \/ SubmitFull(t) \/ SubmitGive(t)

Ui == \/ StartCall \/ StartCreate \/ StartCreateFails
      \/ StartSpawn \/ StartSpawnFails \/ StartPublish
      \/ QuiesceCall \/ QuiesceCheck \/ QuiesceTake
      \/ StopCall \/ StopCheck \/ StopTake \/ StopPill \/ StopNoWorker
      \/ StopJoinCheck \/ StopJoin \/ StopJoinTimeout \/ StopKill \/ StopDelete \/ StopClear

Work(w) == Receive(w) \/ RunJob(w) \/ WorkerGive(w) \/ WorkerBye(w) \/ WorkerForget(w)

Next == \/ Ui
        \/ \E t \in Tasks : Submit(t)
        \/ \E w \in Workers : Work(w)

Spec == Init /\ [][Next]_vars

(***************************************************************************)
(* A task that entered an operation goes on with it, and a worker with its *)
(* loop: FreeRTOS schedules every ready task and jobs return.  Nobody has  *)
(* to call anything.                                                       *)
(***************************************************************************)
SubmitStep(t) == Submit(t) /\ pc[t] # "Idle"
UiStep == Ui /\ pc["ui"] # "Idle"

FairSpec == /\ Spec
            /\ WF_vars(UiStep)
            /\ \A t \in Tasks : WF_vars(SubmitStep(t))
            /\ \A w \in Workers : WF_vars(Work(w))

-----------------------------------------------------------------------------
(***************************************************************************)
(* Properties.                                                             *)
(***************************************************************************)
\* A request to stop can only be the last item.
Accepted == IF items # <<>> /\ items[Len(items)] = NoJob
            THEN SubSeq(items, 1, Len(items) - 1) ELSE items

Unfinished == (IF made > 0 /\ wpc[made] = "Run" THEN <<job[made]>> ELSE <<>>) \o Accepted

Drained == {"Pill", "JoinCheck", "Join", "Kill", "Delete", "Clear"}

(* Once stop has drained the executor nothing accepted is queued or        *)
(* running, and it stays so until the RTOS objects are gone: stop closes   *)
(* admission before it reads the count, submit joins the count before it   *)
(* reads admission again.                                                  *)
DrainedBeforeDelete ==
  pc["ui"] \in Drained =>
    /\ \A i \in DOMAIN items : items[i] = NoJob
    /\ \A w \in Workers : wpc[w] # "Run"

(* No submission sends to a queue that stop deleted; and, until the        *)
(* executor is started a second time, no worker receives from a queue or   *)
(* gives a semaphore that stop deleted, also when a join times out.  (A    *)
(* worker of an earlier start may clear the handle of a later one, and     *)
(* that stop then deletes the queue under it; and a submission may give    *)
(* idle_ too late, for it takes the count to zero before.)                 *)
ObjectsOutliveUsers ==
  /\ \A t \in Tasks : pc[t] = "Send" => obj["queue"] = "live"
  /\ made <= 1 => \A w \in Workers :
       /\ wpc[w] = "Receive" => obj["queue"] = "live" /\ w = made
       /\ wpc[w] = "Give" => obj["idle"] # "freed"
       /\ wpc[w] = "Bye" => obj["worker_stopped"] = "live"

(* quiesce returns to its caller only when no job it accepted is queued or *)
(* running, if the UI task is the only one to submit: this is what lets    *)
(* AppManager stop the application that owns the jobs.                     *)
QuiesceMeansIdle ==
  [][QuiesceCheck /\ env.submitters = {} /\ pc'["ui"] = "Idle" /\ obj["idle"] = "live" => Unfinished = <<>>]_vars

(* The executor implements the promise of IApplicationJobs.                *)
Executor == INSTANCE JobExecutor WITH
  Capacity <- QueueLength + 1,
  up <- obj["queue"] = "live",
  outstanding <- Unfinished
ImplementsExecutor == Executor!Spec

(* quiesce and stop return: the wait for idle_ cannot miss the give of     *)
(* whoever took the count to zero, whatever token was left, and the worker *)
(* takes the null job and reports before it goes.  quiesce leaves          *)
(* admission open, so others that submit may keep it.  Where joins may     *)
(* time out, stop may delete its own task instead of returning: the worker *)
(* clears its handle after the wait has expired and before vTaskDelete     *)
(* reads it, or a worker of an earlier start has cleared it.               *)
CallsReturn ==
  /\ env.submitters = {} /\ pc["ui"] \in {"Quiesce", "QuiesceWait"} ~> pc["ui"] = "Idle"
  /\ pc["ui"] \in Drained \cup {"Drain", "DrainWait"}
       ~> pc["ui"] \in (IF env.timeout THEN {"Idle", "Deleted"} ELSE {"Idle"})

(* A job whose submission succeeded runs.                                  *)
AcceptedJobRuns ==
  \A j \in Jobs : (\E i \in DOMAIN items : items[i] = j) ~> (\E w \in Workers : job[w] = j)
=============================================================================
