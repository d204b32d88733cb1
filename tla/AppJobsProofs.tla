--------------------------- MODULE AppJobsProofs ---------------------------
(***************************************************************************)
(* What the executor of background jobs keeps, for any number of starts,   *)
(* failed allocations and expired joins, when only the UI task submits;    *)
(* and for any number of submitters in the life of one worker.             *)
(***************************************************************************)
EXTENDS AppJobs, FiniteSetTheorems, SequenceTheorems, TLAPS

(***************************************************************************)
(* A submission that stop overtakes and start lets in again is counted     *)
(* against a counter stop has set to 0 in between: other submitters need   *)
(* an executor that is not started again.                                  *)
(***************************************************************************)
NoLateSubmitter == \A e \in Environments : e.submitters = {} \/ e.starts = 1

-----------------------------------------------------------------------------
(* The inductive invariant                                                  *)

Up == obj = [k \in Kinds |-> "live"]
Draining == {"Drain", "DrainWait"}
Ending == {"JoinCheck", "Join", "Kill", "Delete", "Deleted"}

\* Jobs are accepted, queued and run only now.
Serving == Up /\ (life = "running" \/ pc["ui"] \in Draining)

\* The lifecycle follows the UI task, the only one to change it.
LifeInv ==
  /\ pc["ui"] \in {"Create", "Spawn", "Publish"} <=> life = "starting"
  /\ pc["ui"] \in Draining \cup Drained \cup {"Deleted"} => life = "stopping"
  /\ pc["ui"] \in {"Count", "Recheck", "Send", "Give"} => life = "running"
  /\ pc["ui"] \in {"Spawn", "Publish"} \/ life = "running" => Up
  /\ \A k \in Kinds : obj[k] = "freed" => pc["ui"] = "Clear"
  /\ worker <= made /\ made <= env.starts
  /\ pc["ui"] \in {"Create", "Spawn"} => made < env.starts
  /\ pc["ui"] = "Publish" \/ life = "running" => made > 0
  /\ pc["ui"] = "Create" \/ life = "stopped" => obj = [k \in Kinds |-> "null"]
  /\ pc["ui"] = "Clear" => \A k \in Kinds : obj[k] # "live"

\* Who submits, and until when
SubmitInv ==
  \A t \in Tasks :
    /\ t # "ui" => pc[t] \in SubmitPc
    /\ pc[t] # "Idle" => t \in {"ui"} \cup env.submitters
    /\ pc[t] = "Send" => Serving
    /\ pc[t] \in {"Count", "Recheck", "Send"} => made > 0

\* What is in the queue, and which worker runs a job
WorkInv ==
  /\ Serving => items \in Seq(Jobs)
  /\ ~Serving => \/ items = <<>>
                 \/ items = <<NoJob>> /\ pc["ui"] \in Ending
  /\ \A w \in Workers :
       /\ wpc[w] # "None" => w <= made
       /\ wpc[w] = "Run" => w = made /\ Serving /\ job[w] \in Jobs

\* pending_ counts the jobs, and the submissions between their count and the
\* queue.  Once a stop of the only worker has reset it, it counts nothing.
Joined == {t \in Tasks : pc[t] \in {"Recheck", "Send"}}
Queued == IF Serving THEN Len(items) ELSE 0
Runs == IF made > 0 /\ wpc[made] = "Run" THEN 1 ELSE 0

Over ==
  /\ env.starts = 1 /\ made = 1 /\ life \in {"stopped", "stopping"}
  /\ pc["ui"] \in {"Idle", "Quiesce", "QuiesceWait"}

CountInv == pending = Cardinality(Joined) + Queued + Runs \/ Over

\* The first worker is where stop looks for it as long as it uses the objects.
Active(w) == wpc[w] \in {"Receive", "Run", "Give", "Bye"}

WorkerInv ==
  made <= 1 => \A w \in Workers : Active(w) =>
    /\ w = made /\ Up /\ ~token["worker_stopped"]
    /\ worker = w \/ pc["ui"] = "Publish"
    /\ \/ pc["ui"] \in {"Publish", "Pill", "JoinCheck", "Join", "Kill"} \cup Draining
       \/ life = "running"

SpawnInv == pc["ui"] = "Spawn" /\ made = 0 => ~token["worker_stopped"]

JobsInv == TypeOK /\ LifeInv /\ SubmitInv /\ WorkInv /\ CountInv /\ WorkerInv /\ SpawnInv

-----------------------------------------------------------------------------
(* Types                                                                    *)

LEMMA Constants ==
  /\ QueueLength \in Nat \ {0} /\ CounterSize \in Nat
  /\ Workers \subseteq Nat \ {0} /\ "ui" \in Tasks /\ NoJob \notin Jobs
  /\ \A e \in Environments : /\ e.starts \in Nat \ {0} /\ 1..e.starts \subseteq Workers
                             /\ {"ui"} \cup e.submitters \subseteq Tasks
                             /\ IsFiniteSet(e.submitters) /\ "ui" \notin e.submitters
                             /\ Cardinality(e.submitters) \in Nat
                             /\ CounterSize > Cardinality(e.submitters) + QueueLength + 3
<1>1. /\ QueueLength \in Nat \ {0} /\ CounterSize \in Nat /\ NoJob \notin Jobs
      /\ \A e \in Environments : /\ e.starts \in Nat \ {0} /\ IsFiniteSet(e.submitters)
                                 /\ "ui" \notin e.submitters
                                 /\ CounterSize > Cardinality(e.submitters) + QueueLength + 3
  BY JobsAssumption DEF NoJob
<1>2. \A e \in Environments : Cardinality(e.submitters) \in Nat
  BY <1>1, FS_CardinalityType
<1>3. \A e \in Environments : \A n \in 1..e.starts : n \in Workers
  BY DEF Workers
<1>4. \A n \in Workers : n \in Nat \ {0}
  BY <1>1 DEF Workers
<1>5. "ui" \in Tasks /\ \A e \in Environments : {"ui"} \cup e.submitters \subseteq Tasks
  BY DEF Tasks
<1> QED
  BY <1>1, <1>2, <1>3, <1>4, <1>5

LEMMA TypeInit == Init => TypeOK
  BY Constants DEF Init, TypeOK, LifecycleState, UiPc, Kinds, WorkerPc, NoJob

LEMMA Counting ==
  ASSUME NEW n \in Int, TypeOK
  PROVE  n % CounterSize \in 0 .. CounterSize - 1
  BY Constants DEF TypeOK

LEMMA TypeKeeps == TypeOK /\ LifeInv /\ [Next]_vars => TypeOK'
<1> SUFFICES ASSUME TypeOK, LifeInv, [Next]_vars PROVE TypeOK'
  OBVIOUS
<1>0. "ui" \in Tasks /\ QueueLength \in Nat
  BY Constants
<1> USE <1>0
<1>1. CASE UNCHANGED vars
  BY <1>1 DEF vars, TypeOK
<1>2. CASE StartCall \/ StartSpawnFails \/ StopCall
  BY <1>2 DEF StartCall, StartSpawnFails, StopCall, BeginStart, AtomicBeginStop, Goto, TypeOK,
              LifecycleState, UiPc, rtos, wvars
<1>3. CASE StartCreate
  BY <1>3 DEF StartCreate, Goto, TypeOK, UiPc, wvars
<1>4. CASE StartCreateFails
  BY <1>4 DEF StartCreateFails, AtomicBeginStop, Goto, TypeOK, UiPc, wvars, LifecycleState
<1>5. CASE StartSpawn
  <2>1. made + 1 \in Workers
    BY <1>5, Constants DEF StartSpawn, Goto, TypeOK, LifeInv
  <2> QED
    BY <1>5, <2>1 DEF StartSpawn, Goto, WorkerGoto, TypeOK, UiPc, WorkerPc, rtos
<1>6. CASE StartPublish
  BY <1>6 DEF StartPublish, Goto, TypeOK, UiPc, rtos, LifecycleState
<1>7. CASE QuiesceCall \/ QuiesceCheck \/ StopCheck \/ StopNoWorker \/ StopJoinCheck \/ StopJoinTimeout
  BY <1>7 DEF QuiesceCall, QuiesceCheck, StopCheck, StopNoWorker, StopJoinCheck, StopJoinTimeout,
     CheckPending, Goto, TypeOK, UiPc, rtos, wvars
<1>8. CASE QuiesceTake \/ StopTake \/ StopJoin
  <2>1. /\ UNCHANGED <<env, life, obj, items, pending, wvars>>
        /\ \E l \in UiPc : pc' = [pc EXCEPT !["ui"] = l]
        /\ \E k \in {"worker_stopped", "idle"} : token' = [token EXCEPT ![k] = FALSE]
    BY <1>8 DEF QuiesceTake, StopTake, StopJoin, TakeIdle, Goto, UiPc
  <2> QED
    BY <2>1 DEF TypeOK, wvars
<1>9. CASE StopPill
  <2>1. Append(items, NoJob) \in Seq(Jobs \cup {NoJob}) /\ Len(Append(items, NoJob)) = Len(items) + 1
    BY Constants DEF TypeOK
  <2> QED
    BY <1>9, <2>1 DEF StopPill, Goto, TypeOK, UiPc, wvars
<1>10. CASE StopKill
  <2>1. /\ UNCHANGED <<env, life, obj, items, token, pending, made, job>> /\ worker' = 0
        /\ wpc' = wpc \/ wpc' = [wpc EXCEPT ![worker] = "Gone"]
        /\ \E l \in UiPc : pc' = [pc EXCEPT !["ui"] = l]
    BY <1>10 DEF StopKill, Goto, UiPc, rtos
  <2>2. wpc' \in [Workers -> WorkerPc] /\ pc' \in [Tasks -> UiPc \cup SubmitPc]
    BY <2>1 DEF TypeOK, WorkerPc
  <2> QED
    BY <2>1, <2>2 DEF TypeOK
<1>11. CASE StopDelete
  BY <1>11 DEF StopDelete, Goto, TypeOK, UiPc, wvars
<1>12. CASE StopClear
  BY <1>12, Constants DEF StopClear, Goto, TypeOK, UiPc, wvars, LifecycleState
<1>13. ASSUME NEW t \in Tasks, Submit(t) PROVE TypeOK'
  <2>0. pending + 1 \in Int /\ pending - 1 \in Int
    BY Constants DEF TypeOK
  <2>1. CASE SubmitCall(t)
    BY <2>1 DEF SubmitCall, Goto, TypeOK, SubmitPc, rtos, wvars
  <2>2. CASE SubmitCount(t)
    BY <2>2, <2>0, Counting DEF SubmitCount, Goto, TypeOK, SubmitPc, rtos, wvars
  <2>3. ASSUME NEW from, Withdraw(t, from) PROVE TypeOK'
    BY <2>3, <2>0, Counting DEF Withdraw, Decrement, Goto, TypeOK, SubmitPc, rtos, wvars
  <2>4. CASE SubmitRecheck(t)
    BY <2>3, <2>4 DEF SubmitRecheck, Goto, TypeOK, SubmitPc, rtos, wvars
  <2>5. CASE SubmitSend(t)
    <3>1. \A j \in Jobs : /\ Append(items, j) \in Seq(Jobs \cup {NoJob})
                           /\ Len(Append(items, j)) = Len(items) + 1
      BY Constants DEF TypeOK
    <3> QED
      BY <2>5, <3>1 DEF SubmitSend, Goto, TypeOK, SubmitPc, wvars
  <2>6. CASE SubmitFull(t)
    BY <2>3, <2>6 DEF SubmitFull
  <2>7. CASE SubmitGive(t)
    BY <2>7 DEF SubmitGive, GiveIdle, Goto, TypeOK, SubmitPc, wvars
  <2> QED
    BY <1>13, <2>1, <2>2, <2>4, <2>5, <2>6, <2>7 DEF Submit
<1>14. ASSUME NEW w \in Workers, Work(w) PROVE TypeOK'
  <2>1. CASE Receive(w)
    <3>1. /\ Tail(items) \in Seq(Jobs \cup {NoJob}) /\ Len(Tail(items)) = Len(items) - 1
          /\ Head(items) \in Jobs \cup {NoJob}
      BY <2>1 DEF Receive, TypeOK
    <3> QED
      BY <2>1, <3>1 DEF Receive, WorkerGoto, TypeOK, WorkerPc
  <2>2. CASE RunJob(w)
    <3>1. pending - 1 \in Int
      BY Constants DEF TypeOK
    <3> QED
      BY <2>2, <3>1, Counting DEF RunJob, Decrement, WorkerGoto, TypeOK, WorkerPc, rtos
  <2>3. CASE WorkerGive(w)
    BY <2>3 DEF WorkerGive, GiveIdle, WorkerGoto, TypeOK, WorkerPc
  <2>4. CASE WorkerBye(w)
    BY <2>4 DEF WorkerBye, WorkerGoto, TypeOK, WorkerPc
  <2>5. CASE WorkerForget(w)
    BY <2>5 DEF WorkerForget, WorkerGoto, TypeOK, WorkerPc, rtos
  <2> QED
    BY <1>14, <2>1, <2>2, <2>3, <2>4, <2>5 DEF Work
<1> QED
  BY <1>1, <1>2, <1>3, <1>4, <1>5, <1>6, <1>7, <1>8, <1>9, <1>10, <1>11, <1>12, <1>13, <1>14
  DEF Next, Ui

-----------------------------------------------------------------------------
(* Each part of the invariant is kept                                       *)

LEMMA LifeKeeps == TypeOK /\ LifeInv /\ SubmitInv /\ [Next]_vars => LifeInv'
<1> SUFFICES ASSUME TypeOK, LifeInv, SubmitInv, [Next]_vars PROVE LifeInv'
  OBVIOUS
<1>0. /\ "ui" \in Tasks /\ pc \in [Tasks -> UiPc \cup SubmitPc] /\ made \in Nat
      /\ env.starts \in Nat /\ life \in LifecycleState /\ worker \in Nat
  BY Constants DEF TypeOK
<1> USE <1>0
<1>1. CASE UNCHANGED vars
  BY <1>1 DEF vars, LifeInv, Up
<1>2. CASE StartCall
  BY <1>2 DEF StartCall, BeginStart, Goto, LifeInv, Up, Drained, Draining, rtos, wvars
<1>3. CASE StartCreate
  BY <1>3 DEF StartCreate, Goto, LifeInv, Up, Drained, Draining, wvars
<1>4. CASE StartCreateFails
  BY <1>4 DEF StartCreateFails, AtomicBeginStop, Goto, LifeInv, Up, Drained, Draining, wvars
<1>5. CASE StartSpawn
  BY <1>5 DEF StartSpawn, Goto, LifeInv, Up, Drained, Draining, rtos
<1>6. CASE StartSpawnFails
  BY <1>6 DEF StartSpawnFails, AtomicBeginStop, Goto, LifeInv, Up, Drained, Draining, rtos, wvars
<1>7. CASE StartPublish
  BY <1>7 DEF StartPublish, Goto, LifeInv, Up, Drained, Draining, rtos
<1>8. CASE QuiesceCall \/ QuiesceCheck \/ StopCheck \/ StopNoWorker \/ StopJoinCheck
  BY <1>8 DEF QuiesceCall, QuiesceCheck, StopCheck, StopNoWorker, StopJoinCheck, CheckPending,
              Goto, LifeInv, Up, Drained, Draining, rtos, wvars
<1>9. CASE QuiesceTake \/ StopTake \/ StopJoin \/ StopPill
  BY <1>9 DEF QuiesceTake, StopTake, StopJoin, StopPill, TakeIdle, Goto, LifeInv, Up, Drained,
              Draining, wvars
<1>10. CASE StopCall
  BY <1>10 DEF StopCall, AtomicBeginStop, Goto, LifeInv, Up, Drained, Draining, rtos, wvars,
               LifecycleState
<1>11. CASE StopJoinTimeout \/ StopKill
  <2>1. CASE StopJoinTimeout
    BY <2>1 DEF StopJoinTimeout, Goto, LifeInv, Up, Drained, Draining, rtos, wvars
  <2>2. CASE StopKill
    BY <2>2 DEF StopKill, Goto, LifeInv, Up, Drained, Draining, rtos
  <2> QED
    BY <1>11, <2>1, <2>2
<1>12. CASE StopDelete
  BY <1>12 DEF StopDelete, Goto, LifeInv, Up, Drained, Draining, wvars
<1>13. CASE StopClear
  BY <1>13 DEF StopClear, Goto, LifeInv, Up, Drained, Draining, wvars
<1>14. ASSUME NEW t \in Tasks, Submit(t) PROVE LifeInv'
  <2>1. /\ UNCHANGED <<life, obj, made, worker, env>>
        /\ \/ pc'["ui"] = pc["ui"]
           \/ pc["ui"] \in {"Count", "Recheck", "Send", "Give"} \/ life = "running"
        /\ pc'["ui"] = pc["ui"] \/ pc'["ui"] \in SubmitPc
    BY <1>14 DEF Submit, SubmitCall, SubmitCount, SubmitRecheck, SubmitSend, SubmitFull, SubmitGive,
                 GiveIdle, Withdraw, Goto, SubmitPc, rtos, wvars
  <2> QED
    BY <2>1 DEF LifeInv, Up, Drained, Draining, SubmitPc
<1>15. ASSUME NEW w \in Workers, Work(w) PROVE LifeInv'
  BY <1>15 DEF Work, Receive, RunJob, WorkerGive, WorkerBye, WorkerForget, GiveIdle, LifeInv, Up, rtos
<1> QED
  BY <1>1, <1>2, <1>3, <1>4, <1>5, <1>6, <1>7, <1>8, <1>9, <1>10, <1>11, <1>12, <1>13, <1>14, <1>15
  DEF Next, Ui

\* There are at most as many submissions under way as tasks that submit.
LEMMA JoinedIsFinite ==
  TypeOK /\ SubmitInv
    => /\ IsFiniteSet(Joined) /\ Cardinality(Joined) \in Nat
       /\ Cardinality(Joined) <= Cardinality(env.submitters) + 1
       /\ env.submitters = {} => Joined \subseteq {"ui"}
<1> SUFFICES ASSUME TypeOK, SubmitInv
             PROVE  /\ IsFiniteSet(Joined) /\ Cardinality(Joined) \in Nat
                    /\ Cardinality(Joined) <= Cardinality(env.submitters) + 1
                    /\ env.submitters = {} => Joined \subseteq {"ui"}
  OBVIOUS
<1> DEFINE S == env.submitters
<1>1. IsFiniteSet(S) /\ "ui" \notin S
  BY Constants DEF TypeOK
<1>2. IsFiniteSet(S \cup {"ui"}) /\ Cardinality(S \cup {"ui"}) = Cardinality(S) + 1
  BY <1>1, FS_AddElement
<1>3. Joined \subseteq S \cup {"ui"}
  BY DEF Joined, SubmitInv
<1>4. IsFiniteSet(Joined) /\ Cardinality(Joined) <= Cardinality(S \cup {"ui"})
  BY <1>2, <1>3, FS_Subset
<1> QED
  BY <1>2, <1>3, <1>4, FS_CardinalityType

\* One submission more, one less, and the same ones
LEMMA JoinedMoves ==
  ASSUME TypeOK, SubmitInv, NEW t \in Tasks, NEW l, pc' = [pc EXCEPT ![t] = l]
  PROVE  /\ l \in {"Recheck", "Send"} /\ pc[t] \notin {"Recheck", "Send"}
              => Cardinality(Joined') = Cardinality(Joined) + 1
         /\ l \notin {"Recheck", "Send"} /\ pc[t] \in {"Recheck", "Send"}
              => /\ Cardinality(Joined') = Cardinality(Joined) - 1
                 /\ Cardinality(Joined) >= 1
         /\ (l \in {"Recheck", "Send"} <=> pc[t] \in {"Recheck", "Send"})
              => Joined' = Joined
<1>0. /\ pc \in [Tasks -> UiPc \cup SubmitPc] /\ IsFiniteSet(Joined)
      /\ Cardinality(Joined) \in Nat
  BY JoinedIsFinite DEF TypeOK
<1>1. ASSUME l \in {"Recheck", "Send"}, pc[t] \notin {"Recheck", "Send"}
      PROVE  Cardinality(Joined') = Cardinality(Joined) + 1
  <2>1. Joined' = Joined \cup {t} /\ t \notin Joined
    BY <1>0, <1>1 DEF Joined
  <2> QED
    BY <1>0, <2>1, FS_AddElement
<1>2. ASSUME l \notin {"Recheck", "Send"}, pc[t] \in {"Recheck", "Send"}
      PROVE  /\ Cardinality(Joined') = Cardinality(Joined) - 1
             /\ Cardinality(Joined) >= 1
  <2>1. Joined' = Joined \ {t} /\ t \in Joined
    BY <1>0, <1>2 DEF Joined
  <2>2. /\ IsFiniteSet(Joined \ {t})
        /\ Cardinality(Joined \ {t}) = Cardinality(Joined) - 1
    BY <1>0, <2>1, FS_RemoveElement
  <2>3. Cardinality(Joined \ {t}) \in Nat
    BY <2>2, FS_CardinalityType
  <2> QED
    BY <1>0, <2>1, <2>2, <2>3
<1>3. (l \in {"Recheck", "Send"} <=> pc[t] \in {"Recheck", "Send"}) => Joined' = Joined
  BY <1>0 DEF Joined
<1> QED
  BY <1>1, <1>2, <1>3

\* When the count is 0 nothing is queued, running or about to be queued.
LEMMA NothingPending ==
  ASSUME TypeOK, LifeInv, SubmitInv, WorkInv, CountInv, pending = 0
  PROVE  /\ items = <<>> \/ ~Serving
         /\ \A w \in Workers : wpc[w] # "Run"
         /\ Over \/ Joined = {}
<1>0. /\ Cardinality(Joined) \in Nat /\ IsFiniteSet(Joined) /\ Len(items) \in Nat
      /\ items \in Seq(Jobs \cup {NoJob}) /\ made \in Nat /\ Workers \subseteq Nat \ {0}
  BY JoinedIsFinite, Constants DEF TypeOK
<1>1. CASE Over
  BY <1>1 DEF Over, WorkInv, Serving, Draining
<1>2. CASE ~Over
  <2>1. Cardinality(Joined) = 0 /\ Queued = 0 /\ Runs = 0
    BY <1>0, <1>2 DEF CountInv, Queued, Runs
  <2>2. Joined = {}
    BY <1>0, <2>1, FS_EmptySet
  <2>3. ~Serving \/ items = <<>>
    BY <1>0, <2>1 DEF Queued
  <2>4. \A w \in Workers : wpc[w] # "Run"
    BY <1>0, <2>1 DEF Runs, WorkInv
  <2> QED
    BY <2>2, <2>3, <2>4
<1> QED
  BY <1>1, <1>2

Bookkeeping == TypeOK /\ LifeInv /\ SubmitInv /\ WorkInv /\ CountInv

\* Serving begins with an empty queue and ends with nothing pending.
LEMMA ServingMoves ==
  ASSUME Bookkeeping, [Next]_vars
  PROVE  /\ Serving /\ ~Serving'
              => /\ pc["ui"] = "Drain" /\ pc' = [pc EXCEPT !["ui"] = "Pill"]
                 /\ pending = 0
                 /\ UNCHANGED <<env, life, obj, items, pending, made, wpc, job>>
         /\ ~Serving /\ Serving'
              => /\ pc["ui"] \in {"Spawn", "Publish"}
                 /\ \E l \in {"Drain", "Idle"} : pc' = [pc EXCEPT !["ui"] = l]
                 /\ UNCHANGED <<env, obj, items, pending, made, wpc, job>>
<1>0. /\ "ui" \in Tasks /\ pc \in [Tasks -> UiPc \cup SubmitPc] /\ life \in LifecycleState
  BY Constants DEF Bookkeeping, TypeOK
<1> USE <1>0 DEF Serving, Draining, Up
<1>1. CASE UNCHANGED vars
  BY <1>1 DEF vars
<1>2. CASE StartCall \/ StartSpawnFails \/ StartPublish
  BY <1>2 DEF StartCall, StartSpawnFails, StartPublish, BeginStart, AtomicBeginStop, Goto, rtos, wvars,
              Bookkeeping, LifeInv
<1>3. CASE StartCreate \/ StartCreateFails
  <2>1. pc["ui"] = "Create" /\ life = "starting" /\ ~Serving
    BY <1>3 DEF StartCreate, StartCreateFails, Goto, Bookkeeping, LifeInv
  <2>2. CASE StartCreate
    BY <2>1, <2>2 DEF StartCreate, Goto
  <2>3. CASE StartCreateFails
    BY <2>1, <2>3 DEF StartCreateFails, Goto, AtomicBeginStop, Kinds
  <2> QED
    BY <1>3, <2>2, <2>3
<1>4. CASE StartSpawn
  BY <1>4 DEF StartSpawn, Goto, Bookkeeping, LifeInv
<1>5. CASE QuiesceCall \/ QuiesceCheck \/ QuiesceTake
  BY <1>5 DEF QuiesceCall, QuiesceCheck, QuiesceTake, CheckPending, TakeIdle, Goto, rtos,
              Bookkeeping, LifeInv
<1>6. CASE StopCall
  BY <1>6 DEF StopCall, AtomicBeginStop, Goto, rtos, Bookkeeping, LifeInv, LifecycleState
<1>7. CASE StopCheck
  <2>1. Serving => obj["idle"] = "live"
    BY DEF Kinds
  <2> QED
    BY <1>7, <2>1 DEF StopCheck, CheckPending, Goto, rtos, wvars
<1>8. CASE StopTake
  BY <1>8 DEF StopTake, TakeIdle, Goto
<1>9. CASE StopPill \/ StopNoWorker \/ StopJoinCheck \/ StopJoin \/ StopJoinTimeout \/ StopKill
        \/ StopDelete \/ StopClear
  <2>1. life = "stopping" /\ ~Serving
    BY <1>9 DEF StopPill, StopNoWorker, StopJoinCheck, StopJoin, StopJoinTimeout, StopKill,
       StopDelete, StopClear, Goto, Bookkeeping, LifeInv, Drained
  <2>2. life' \in {"stopped", "stopping"} /\ pc'["ui"] \notin Draining
    BY <1>9, <2>1 DEF StopPill, StopNoWorker, StopJoinCheck, StopJoin, StopJoinTimeout, StopKill,
       StopDelete, StopClear, Goto
  <2> QED
    BY <2>1, <2>2
<1>10. ASSUME NEW t \in Tasks, Submit(t) PROVE Serving' = Serving
  <2>1. /\ UNCHANGED <<life, obj>>
        /\ pc'["ui"] = pc["ui"] \/ {pc["ui"], pc'["ui"]} \subseteq SubmitPc
    <3>1. pc[t] \in SubmitPc /\ \E to \in SubmitPc : pc' = [pc EXCEPT ![t] = to]
      BY <1>10 DEF Submit, SubmitCall, SubmitCount, SubmitRecheck, SubmitSend, SubmitFull, SubmitGive,
                   Withdraw, Goto, SubmitPc
    <3>2. UNCHANGED <<life, obj>>
      BY <1>10 DEF Submit, SubmitCall, SubmitCount, SubmitRecheck, SubmitSend, SubmitFull, SubmitGive,
                   GiveIdle, Withdraw, rtos
    <3>3. PICK to \in SubmitPc : pc' = [pc EXCEPT ![t] = to]
      BY <3>1
    <3>4. CASE t = "ui"
      BY <3>1, <3>2, <3>3, <3>4
    <3>5. CASE t # "ui"
      BY <3>2, <3>3, <3>5
    <3> QED
      BY <3>4, <3>5
  <2> QED
    BY <2>1 DEF SubmitPc
<1>11. ASSUME NEW w \in Workers, Work(w) PROVE Serving' = Serving
  BY <1>11 DEF Work, Receive, RunJob, WorkerGive, WorkerBye, WorkerForget, GiveIdle, rtos
<1> QED
  BY <1>1, <1>2, <1>3, <1>4, <1>5, <1>6, <1>7, <1>8, <1>9, <1>10, <1>11 DEF Next, Ui

LEMMA SubmitKeeps == Bookkeeping /\ [Next]_vars => SubmitInv'
<1> SUFFICES ASSUME Bookkeeping, [Next]_vars PROVE SubmitInv'
  OBVIOUS
<1>a. "ui" \in Tasks /\ Workers \subseteq Nat
  BY Constants
<1>b. TypeOK /\ SubmitInv
  BY DEF Bookkeeping
<1>0. /\ "ui" \in Tasks /\ pc \in [Tasks -> UiPc \cup SubmitPc] /\ made \in Nat
      /\ SubmitInv /\ env \in Environments
  BY <1>a, <1>b DEF TypeOK
<1> USE <1>0
<1>1. ASSUME NEW t \in Tasks, pc[t] = "Send", pc'[t] = "Send" PROVE Serving'
  <2>1. Serving
    BY <1>1 DEF SubmitInv
  <2>2. ASSUME ~Serving' PROVE FALSE
    <3>1. pending = 0 /\ pc["ui"] = "Drain"
      BY <2>1, <2>2, ServingMoves
    <3>2. t \in Joined /\ ~Over
      BY <1>1, <3>1 DEF Joined, Over
    <3> QED
      BY <3>1, <3>2, NothingPending DEF Bookkeeping
  <2> QED
    BY <2>2
<1>2. env' = env /\ (made > 0 => made' > 0)
  BY DEF Next, Ui, vars, rtos, wvars, StartCall, StartCreate, StartCreateFails, StartSpawn,
     StartSpawnFails, StartPublish, QuiesceCall, QuiesceCheck, QuiesceTake, CheckPending, TakeIdle,
     StopCall, StopCheck, StopTake, StopPill, StopNoWorker, StopJoinCheck, StopJoin,
     StopJoinTimeout, StopKill, StopDelete, StopClear, Submit, SubmitCall, SubmitCount,
     SubmitRecheck, SubmitSend, SubmitFull, SubmitGive, Withdraw, Work, Receive, RunJob, WorkerGive,
     WorkerBye, WorkerForget
<1>3. ASSUME pc' = pc PROVE SubmitInv'
  BY <1>1, <1>2, <1>3 DEF SubmitInv
<1>4. ASSUME NEW l \in UiPc, pc' = [pc EXCEPT !["ui"] = l] PROVE SubmitInv'
  <2>1. l \notin {"Count", "Recheck", "Send"}
    BY DEF UiPc
  <2> QED
    BY <1>1, <1>2, <1>4, <2>1 DEF SubmitInv
<1>5. ASSUME NEW t \in Tasks, Submit(t) PROVE SubmitInv'
  <2>1. PICK l \in SubmitPc : pc' = [pc EXCEPT ![t] = l]
    BY <1>5 DEF Submit, SubmitCall, SubmitCount, SubmitRecheck, SubmitSend, SubmitFull, SubmitGive,
                Withdraw, Goto, SubmitPc
  <2>2. t \in {"ui"} \cup env.submitters
    BY <1>5 DEF Submit, SubmitCall, SubmitCount, SubmitRecheck, SubmitSend, SubmitFull, SubmitGive,
                Withdraw, Goto, SubmitInv
  <2>3. l = "Send" => Serving'
    BY <1>5, <2>1 DEF Submit, SubmitCall, SubmitCount, SubmitRecheck, SubmitSend, SubmitFull,
       SubmitGive, Withdraw, Goto, Serving, Up, rtos, Bookkeeping, LifeInv
  <2>4. l \in {"Count", "Recheck", "Send"} => made > 0
    BY <1>5, <2>1 DEF Submit, SubmitCall, SubmitCount, SubmitRecheck, SubmitSend, SubmitFull,
       SubmitGive, Withdraw, Goto, Bookkeeping, LifeInv, SubmitInv
  <2> QED
    BY <1>1, <1>2, <2>1, <2>2, <2>3, <2>4 DEF SubmitInv
<1>6. CASE Ui
  <2>1. \E l \in UiPc : pc' = [pc EXCEPT !["ui"] = l]
    BY <1>6 DEF Ui, StartCall, StartCreate, StartCreateFails, StartSpawn, StartSpawnFails,
       StartPublish, QuiesceCall, QuiesceCheck, QuiesceTake, CheckPending, TakeIdle, StopCall,
       StopCheck, StopTake, StopPill, StopNoWorker, StopJoinCheck, StopJoin, StopJoinTimeout,
       StopKill, StopDelete, StopClear, Goto, UiPc
  <2> QED
    BY <1>4, <2>1
<1>7. ASSUME NEW w \in Workers, Work(w) PROVE SubmitInv'
  BY <1>3, <1>7 DEF Work, Receive, RunJob, WorkerGive, WorkerBye, WorkerForget
<1> QED
  BY <1>3, <1>5, <1>6, <1>7 DEF Next, vars

LEMMA WorkKeeps == Bookkeeping /\ [Next]_vars => WorkInv'
<1> SUFFICES ASSUME Bookkeeping, [Next]_vars PROVE WorkInv'
  OBVIOUS
<1>0. /\ "ui" \in Tasks /\ pc \in [Tasks -> UiPc \cup SubmitPc] /\ made \in Nat
      /\ wpc \in [Workers -> WorkerPc] /\ job \in [Workers -> Jobs \cup {NoJob}]
      /\ items \in Seq(Jobs \cup {NoJob}) /\ Workers \subseteq Nat \ {0} /\ NoJob \notin Jobs
      /\ WorkInv
  BY Constants DEF Bookkeeping, TypeOK
<1> USE <1>0
\* The steps that leave queue and workers alone
<1>1. ASSUME UNCHANGED <<items, made, wpc, job>>,
             ~Serving' => (pc["ui"] \in Ending => pc'["ui"] \in Ending) \/ items = <<>>
      PROVE  WorkInv'
  <2>1. CASE Serving /\ Serving'
    BY <1>1, <2>1 DEF WorkInv
  <2>2. CASE ~Serving /\ ~Serving'
    BY <1>1, <2>2 DEF WorkInv
  <2>3. CASE Serving /\ ~Serving'
    <3>1. pending = 0
      BY <2>3, ServingMoves
    <3>2. items = <<>> /\ \A w \in Workers : wpc[w] # "Run"
      BY <2>3, <3>1, NothingPending DEF Bookkeeping
    <3> QED
      BY <1>1, <2>3, <3>2 DEF WorkInv
  <2>4. CASE ~Serving /\ Serving'
    <3>1. pc["ui"] \notin Ending
      BY <2>4, ServingMoves DEF Ending
    <3>2. items = <<>>
      BY <2>4, <3>1 DEF WorkInv
    <3> QED
      BY <1>1, <2>4, <3>2 DEF WorkInv
  <2> QED
    BY <2>1, <2>2, <2>3, <2>4
\* The others of the UI task, none of which finds or leaves jobs
<1>2. ASSUME ~Serving, ~Serving', job' = job,
             items' = <<>> \/ (items' = <<NoJob>> /\ pc'["ui"] \in Ending),
             \A w \in Workers : /\ wpc'[w] # "None" => w <= made'
                                /\ wpc'[w] = "Run" => wpc[w] = "Run"
      PROVE  WorkInv'
  BY <1>2 DEF WorkInv
<1>3. CASE UNCHANGED vars
  BY <1>1, <1>3 DEF vars
<1>4. CASE StartCall \/ StartSpawnFails \/ StartPublish \/ QuiesceCall \/ QuiesceCheck \/ QuiesceTake
             \/ StopCall \/ StopCheck \/ StopTake \/ StopNoWorker \/ StopJoinCheck \/ StopJoin
             \/ StopJoinTimeout
  BY <1>1, <1>4 DEF StartCall, StartSpawnFails, StartPublish, QuiesceCall, QuiesceCheck,
     QuiesceTake, CheckPending, TakeIdle, StopCall, StopCheck, StopTake, StopNoWorker,
     StopJoinCheck, StopJoin, StopJoinTimeout, Goto, rtos, wvars, Ending
<1>5. CASE StartCreate \/ StartCreateFails \/ StartSpawn \/ StopPill \/ StopKill
             \/ StopDelete \/ StopClear
  <2>1. ~Serving /\ pc["ui"] \notin {"Drain", "Publish"}
    BY <1>5 DEF StartCreate, StartCreateFails, StartSpawn, StopPill, StopKill, StopDelete,
                StopClear, Goto, Bookkeeping, LifeInv, Serving, Draining, Drained
  <2>2. pc["ui"] \notin Ending => items = <<>>
    BY <2>1 DEF WorkInv
  <2>3. CASE StartCreate \/ StartCreateFails \/ StopDelete
    <3>1. ~Serving'
      BY <2>1, <2>3, ServingMoves DEF StartCreate, StartCreateFails, StopDelete, Goto
    <3> QED
      BY <1>2, <2>1, <2>3, <3>1
      DEF StartCreate, StartCreateFails, StopDelete, wvars, WorkInv
  <2>4. CASE StartSpawn
    <3>1. pc'["ui"] = "Publish" /\ ~Serving'
      BY <2>1, <2>4 DEF StartSpawn, Goto, rtos, Serving, Draining, Bookkeeping, LifeInv
    <3>2. /\ wpc' = [wpc EXCEPT ![made + 1] = "Receive"] /\ made' = made + 1
          /\ job' = job /\ items' = items /\ items = <<>>
      BY <2>2, <2>4 DEF StartSpawn, WorkerGoto, rtos, Goto, Ending
    <3>3. \A w \in Workers : /\ wpc'[w] # "None" => w <= made'
                             /\ wpc'[w] = "Run" => wpc[w] = "Run"
      BY <3>2 DEF WorkInv
    <3> QED
      BY <1>2, <2>1, <3>1, <3>2, <3>3
  <2>5. CASE StopPill
    <3>1. pc'["ui"] = "JoinCheck" /\ ~Serving' /\ items = <<>> /\ items' = Append(items, NoJob)
      BY <2>1, <2>2, <2>5, ServingMoves DEF StopPill, Goto, Ending
    <3>2. items' = <<NoJob>> /\ pc'["ui"] \in Ending
      BY <3>1 DEF Ending
    <3> QED
      BY <1>2, <2>1, <2>5, <3>1, <3>2 DEF StopPill, wvars, WorkInv
  <2>6. CASE StopKill
    <3>1. pc'["ui"] \in Ending /\ ~Serving' /\ UNCHANGED <<items, job, made>>
      BY <2>1, <2>6, ServingMoves DEF StopKill, Goto, Ending, rtos
    <3>2. \A w \in Workers : wpc'[w] = wpc[w] \/ (wpc'[w] = "Gone" /\ w = worker)
      BY <2>6 DEF StopKill
    <3>3. worker <= made
      BY DEF Bookkeeping, LifeInv
    <3> QED
      BY <1>2, <2>1, <3>1, <3>2, <3>3 DEF WorkInv
  <2>7. CASE StopClear
    <3>1. ~Serving' /\ items = <<>> /\ items' = items
      BY <2>1, <2>2, <2>7, ServingMoves DEF StopClear, Goto, Ending
    <3> QED
      BY <1>2, <2>1, <2>7, <3>1 DEF StopClear, wvars, WorkInv
  <2> QED
    BY <1>5, <2>3, <2>4, <2>5, <2>6, <2>7
<1>6. ASSUME NEW t \in Tasks, Submit(t) PROVE WorkInv'
  <2>1. CASE SubmitSend(t)
    <3>1. Serving /\ Serving'
      BY <2>1, ServingMoves DEF SubmitSend, Goto, SubmitInv, Bookkeeping
    <3>2. PICK j \in Jobs : items' = Append(items, j)
      BY <2>1 DEF SubmitSend
    <3>3. items \in Seq(Jobs)
      BY <3>1 DEF WorkInv
    <3>4. items' \in Seq(Jobs)
      BY <3>2, <3>3
    <3> QED
      BY <2>1, <3>1, <3>4 DEF SubmitSend, wvars, WorkInv
  <2>2. CASE ~SubmitSend(t)
    <3>1. /\ UNCHANGED <<items, made, wpc, job>>
          /\ pc["ui"] \in Ending => pc'["ui"] \in Ending
      BY <1>6, <2>2 DEF Submit, SubmitCall, SubmitCount, SubmitRecheck, SubmitFull, SubmitGive,
         GiveIdle, Withdraw, Goto, Ending, rtos, wvars
    <3> QED
      BY <1>1, <3>1
  <2> QED
    BY <2>1, <2>2
<1>7. ASSUME NEW w \in Workers, Work(w) PROVE WorkInv'
  <2>0. pc' = pc /\ made' = made /\ Serving' = Serving
    BY <1>7 DEF Work, Receive, RunJob, WorkerGive, WorkerBye, WorkerForget, GiveIdle, rtos, Serving, Up
  <2>1. CASE Receive(w)
    <3>1. /\ items # <<>> /\ w = made /\ items' = Tail(items)
          /\ wpc' = [wpc EXCEPT ![w] = IF Head(items) = NoJob THEN "Bye" ELSE "Run"]
          /\ job' = [job EXCEPT ![w] = Head(items)] /\ wpc[w] = "Receive"
      BY <2>1 DEF Receive, WorkerGoto
    <3>2. CASE Serving
      <4>1. items' \in Seq(Jobs) /\ Head(items) \in Jobs
        BY <3>1, <3>2 DEF WorkInv
      <4> QED
        BY <2>0, <3>1, <3>2, <4>1 DEF WorkInv
    <3>3. CASE ~Serving
      <4>1. items = <<NoJob>>
        BY <3>1, <3>3 DEF WorkInv
      <4>2. items' = <<>> /\ Head(items) = NoJob
        BY <3>1, <4>1
      <4> QED
        BY <2>0, <3>1, <3>3, <4>2 DEF WorkInv
    <3> QED
      BY <3>2, <3>3
  <2>2. CASE RunJob(w) \/ WorkerGive(w) \/ WorkerBye(w) \/ WorkerForget(w)
    <3>1. /\ items' = items /\ wpc[w] # "None"
          /\ \E l \in WorkerPc \ {"Run"} : wpc' = [wpc EXCEPT ![w] = l]
          /\ \A v \in Workers : v # w => job'[v] = job[v]
      BY <2>2 DEF RunJob, WorkerGive, WorkerBye, WorkerForget, WorkerGoto, GiveIdle, rtos, WorkerPc
    <3> QED
      BY <2>0, <3>1 DEF WorkInv
  <2> QED
    BY <1>7, <2>1, <2>2 DEF Work
<1> QED
  BY <1>3, <1>4, <1>5, <1>6, <1>7 DEF Next, Ui

\* pending_ does not wrap around while it counts: there are few submitters.
LEMMA CountFits ==
  ASSUME Bookkeeping, ~Over
  PROVE  /\ pending \in Nat /\ Cardinality(Joined) \in Nat
         /\ Queued \in Nat /\ Runs \in 0..1
         /\ pending = Cardinality(Joined) + Queued + Runs
         /\ (pending + 1) % CounterSize = pending + 1
         /\ pending > 0 => (pending - 1) % CounterSize = pending - 1
<1>1. /\ IsFiniteSet(Joined) /\ Cardinality(Joined) \in Nat
      /\ Cardinality(Joined) <= Cardinality(env.submitters) + 1
  BY JoinedIsFinite DEF Bookkeeping
<1>2. /\ QueueLength \in Nat /\ CounterSize \in Nat /\ Cardinality(env.submitters) \in Nat
      /\ CounterSize > Cardinality(env.submitters) + QueueLength + 3
  BY Constants DEF Bookkeeping, TypeOK
<1>3. Queued \in 0..QueueLength /\ Runs \in 0..1 /\ pending \in Nat /\ pending < CounterSize
  BY <1>2 DEF Bookkeeping, TypeOK, Queued, Runs
<1>4. pending = Cardinality(Joined) + Queued + Runs
  BY DEF Bookkeeping, CountInv
<1>5. pending + 1 < CounterSize
  BY <1>1, <1>2, <1>3, <1>4
<1>6. (pending + 1) % CounterSize = pending + 1
  BY <1>2, <1>3, <1>5
<1>7. pending > 0 => (pending - 1) % CounterSize = pending - 1
  BY <1>2, <1>3
<1> QED
  BY <1>1, <1>3, <1>4, <1>6, <1>7

LEMMA OverStays == Bookkeeping /\ Over /\ [Next]_vars => Over'
<1> SUFFICES ASSUME Bookkeeping, Over, [Next]_vars PROVE Over'
  OBVIOUS
<1>0. /\ "ui" \in Tasks /\ pc \in [Tasks -> UiPc \cup SubmitPc]
      /\ pc["ui"] \in {"Idle", "Quiesce", "QuiesceWait"} /\ made = 1 /\ env.starts = 1
      /\ life \in {"stopped", "stopping"}
  BY Constants DEF Bookkeeping, TypeOK, Over
<1> USE <1>0
<1>1. CASE UNCHANGED vars
  BY <1>1 DEF vars, Over
<1>2. CASE Ui
  <2>1. QuiesceCall \/ QuiesceCheck \/ QuiesceTake \/ StopCall
    BY <1>2 DEF Ui, StartCall, StartCreate, StartCreateFails, StartSpawn, StartSpawnFails,
       StartPublish, StopCheck, StopTake, StopPill, StopNoWorker, StopJoinCheck, StopJoin,
       StopJoinTimeout, StopKill, StopDelete, StopClear, CheckPending, TakeIdle, Goto
  <2>2. CASE QuiesceCall \/ QuiesceCheck \/ QuiesceTake
    BY <2>2 DEF QuiesceCall, QuiesceCheck, QuiesceTake, CheckPending, TakeIdle, Goto, rtos, wvars, Over
  <2>3. CASE StopCall
    BY <2>3 DEF StopCall, AtomicBeginStop, Goto, rtos, wvars, Over
  <2> QED
    BY <2>1, <2>2, <2>3
<1>3. ASSUME NEW t \in Tasks, Submit(t) PROVE Over'
  <2>1. /\ UNCHANGED <<env, life, made>>
        /\ pc[t] \in {"Count", "Recheck", "Send", "Give"} \/ life = "running"
        /\ \E l : pc' = [pc EXCEPT ![t] = l]
    BY <1>3 DEF Submit, SubmitCall, SubmitCount, SubmitRecheck, SubmitSend, SubmitFull, SubmitGive,
                Withdraw, Goto, rtos, wvars
  <2>2. t # "ui"
    BY <2>1
  <2>3. pc'["ui"] = pc["ui"]
    BY <2>1, <2>2
  <2> QED
    BY <2>1, <2>3 DEF Over
<1>4. ASSUME NEW w \in Workers, Work(w) PROVE Over'
  BY <1>4 DEF Work, Receive, RunJob, WorkerGive, WorkerBye, WorkerForget, rtos, Over
<1> QED
  BY <1>1, <1>2, <1>3, <1>4 DEF Next

LEMMA CountKeeps == NoLateSubmitter /\ Bookkeeping /\ [Next]_vars => CountInv'
<1> SUFFICES ASSUME NoLateSubmitter, Bookkeeping, [Next]_vars, ~Over PROVE CountInv'
  BY OverStays DEF CountInv
<1>0. /\ "ui" \in Tasks /\ pc \in [Tasks -> UiPc \cup SubmitPc]
      /\ made \in Nat /\ made \in {0} \cup Workers
      /\ wpc \in [Workers -> WorkerPc] /\ items \in Seq(Jobs \cup {NoJob})
      /\ Workers \subseteq Nat \ {0} /\ pending \in Nat /\ Cardinality(Joined) \in Nat
      /\ Queued \in Nat /\ Runs \in 0..1
      /\ pending = Cardinality(Joined) + Queued + Runs
      /\ (pending + 1) % CounterSize = pending + 1
      /\ pending > 0 => (pending - 1) % CounterSize = pending - 1
      /\ SubmitInv /\ TypeOK
  <2>1. TypeOK /\ SubmitInv
    BY DEF Bookkeeping
  <2>2. /\ "ui" \in Tasks /\ pc \in [Tasks -> UiPc \cup SubmitPc]
        /\ made \in Nat /\ made \in {0} \cup Workers
        /\ wpc \in [Workers -> WorkerPc] /\ items \in Seq(Jobs \cup {NoJob})
        /\ Workers \subseteq Nat \ {0}
    BY <2>1, Constants DEF TypeOK
  <2> QED
    BY <2>1, <2>2, CountFits
<1> USE <1>0
<1>1. ASSUME UNCHANGED <<items, pending, made, wpc>>, Joined' = Joined PROVE CountInv'
  <2>1. Queued' = Queued
    <3>1. CASE Serving = Serving'
      BY <1>1, <3>1 DEF Queued
    <3>2. CASE Serving /\ ~Serving'
      <4>1. pending = 0
        BY <3>2, ServingMoves
      <4> QED
        BY <3>2, <4>1 DEF Queued
    <3>3. CASE ~Serving /\ Serving'
      <4>1. items = <<>>
        BY <3>3, ServingMoves DEF Bookkeeping, WorkInv, Ending
      <4> QED
        BY <1>1, <3>3, <4>1 DEF Queued
    <3> QED
      BY <3>1, <3>2, <3>3 DEF Serving
  <2> QED
    BY <1>1, <2>1 DEF CountInv, Runs
<1>2. ASSUME ~Serving, ~Serving', pending' = pending, Joined' = Joined,
             \A w \in Workers : wpc'[w] = "Run" => wpc[w] = "Run", made' = 0 \/ made' \in Workers
      PROVE  CountInv'
  <2>0. \A w \in Workers : wpc[w] # "Run" /\ wpc'[w] # "Run"
    BY <1>2 DEF Bookkeeping, WorkInv
  <2>1. Queued = 0 /\ Queued' = 0 /\ Runs = 0 /\ Runs' = 0
    <3>1. Queued = 0 /\ Queued' = 0
      BY <1>2 DEF Queued
    <3>2. Runs = 0
      BY <2>0 DEF Runs
    <3>3. Runs' = 0
      <4>1. CASE made' = 0
        BY <4>1 DEF Runs
      <4>2. CASE made' \in Workers
        <5>1. wpc'[made'] # "Run"
          BY <2>0, <4>2
        <5> QED
          BY <5>1 DEF Runs
      <4> QED
        BY <1>2, <4>1, <4>2
    <3> QED
      BY <3>1, <3>2, <3>3
  <2> QED
    BY <1>2, <2>1 DEF CountInv
<1>3. ASSUME NEW l \in UiPc, pc' = [pc EXCEPT !["ui"] = l], pc["ui"] \in UiPc PROVE Joined' = Joined
  <2>1. l \notin {"Recheck", "Send"} /\ pc["ui"] \notin {"Recheck", "Send"}
    BY <1>3 DEF UiPc
  <2> QED
    BY <1>3, <2>1, JoinedMoves
<1>11. ASSUME NEW t \in Tasks, NEW l \in {"Idle", "Give"}, pc[t] \in {"Recheck", "Send"},
              pc' = [pc EXCEPT ![t] = l]
       PROVE  Cardinality(Joined') = Cardinality(Joined) - 1 /\ Cardinality(Joined) >= 1
  <2>1. l \notin {"Recheck", "Send"}
    OBVIOUS
  <2> QED
    BY <1>11, <2>1, JoinedMoves
<1>4. CASE UNCHANGED vars
  BY <1>1, <1>4 DEF vars, Joined
<1>5. ASSUME Ui PROVE Joined' = Joined
  <2>1. pc["ui"] \in UiPc /\ \E l \in UiPc : pc' = [pc EXCEPT !["ui"] = l]
    BY <1>5 DEF Ui, StartCall, StartCreate, StartCreateFails, StartSpawn, StartSpawnFails,
       StartPublish, QuiesceCall, QuiesceCheck, QuiesceTake, CheckPending, TakeIdle, StopCall,
       StopCheck, StopTake, StopPill, StopNoWorker, StopJoinCheck, StopJoin, StopJoinTimeout,
       StopKill, StopDelete, StopClear, Goto, UiPc
  <2> QED
    BY <2>1, <1>3
<1>6. CASE StartCall \/ StartSpawnFails \/ StartPublish \/ QuiesceCall \/ QuiesceCheck \/ QuiesceTake
             \/ StopCall \/ StopCheck \/ StopTake \/ StopNoWorker \/ StopJoinCheck \/ StopJoin
             \/ StopJoinTimeout
  BY <1>1, <1>5, <1>6 DEF StartCall, StartSpawnFails, StartPublish, QuiesceCall, QuiesceCheck,
     QuiesceTake, CheckPending, TakeIdle, StopCall, StopCheck, StopTake, StopNoWorker,
     StopJoinCheck, StopJoin, StopJoinTimeout, rtos, wvars, Ui
<1>7. CASE StartCreate \/ StartCreateFails \/ StartSpawn \/ StopPill \/ StopKill \/ StopDelete
  <2>1. ~Serving /\ pc["ui"] \notin {"Drain", "Publish"}
    BY <1>7 DEF StartCreate, StartCreateFails, StartSpawn, StopPill, StopKill, StopDelete,
                Goto, Bookkeeping, LifeInv, Serving, Draining, Drained
  <2>2. ~Serving'
    <3>1. pc["ui"] = "Spawn" => pc'["ui"] = "Publish" /\ life' = life /\ life = "starting"
      BY <1>7 DEF StartCreate, StartCreateFails, StartSpawn, StopPill, StopKill, StopDelete, Goto,
                  Bookkeeping, LifeInv
    <3>2. pc["ui"] # "Spawn"  => ~Serving'
      BY <2>1, ServingMoves
    <3> QED
      BY <3>1, <3>2 DEF Serving, Draining
  <2>3. Joined' = Joined /\ pending' = pending
    BY <1>5, <1>7 DEF Ui, StartCreate, StartCreateFails, StartSpawn, StopPill, StopKill,
                      StopDelete, rtos, wvars
  <2>4. \A w \in Workers : wpc'[w] = "Run" => wpc[w] = "Run"
    BY <1>7 DEF StartCreate, StartCreateFails, StartSpawn, StopPill, StopKill, StopDelete,
                WorkerGoto, rtos, wvars
  <2>5. made' = 0 \/ made' \in Workers
    BY TypeKeeps DEF Bookkeeping, TypeOK
  <2> QED
    BY <1>2, <2>1, <2>2, <2>3, <2>4, <2>5
<1>8. CASE StopClear
  <2>1. /\ pc["ui"] = "Clear" /\ life' = "stopped" /\ pc'["ui"] = "Idle" /\ pending' = 0
        /\ UNCHANGED <<env, items, made, wpc>> /\ Joined' = Joined /\ ~Serving
    BY <1>5, <1>8 DEF StopClear, Goto, wvars, Ui, Bookkeeping, LifeInv, Serving, Draining, Drained
  <2>2. CASE Joined = {}
    <3>1. ~Serving'
      BY <2>1 DEF Serving, Draining
    <3>2. Queued = 0 /\ Runs = 0 /\ Queued' = 0 /\ Runs' = 0
      BY <2>1, <3>1 DEF Queued, Runs, Bookkeeping, WorkInv
    <3>3. Cardinality(Joined) = 0
      BY <2>2, FS_EmptySet
    <3> QED
      BY <2>1, <3>2, <3>3 DEF CountInv
  <2>3. CASE Joined # {}
    <3>1. made > 0
      BY <2>3 DEF Joined, SubmitInv
    <3>2. env.submitters # {}
      BY <2>1, <2>3, JoinedIsFinite DEF Joined
    <3>3. env.starts = 1 /\ made = 1
      BY <3>1, <3>2 DEF NoLateSubmitter, TypeOK, Bookkeeping, LifeInv
    <3> QED
      BY <2>1, <3>3 DEF Over, CountInv
  <2> QED
    BY <2>2, <2>3
<1>9. ASSUME NEW t \in Tasks, Submit(t) PROVE CountInv'
  <2>1. Serving' = Serving /\ made' = made /\ wpc' = wpc
    <3>1. pc["ui"] \notin {"Spawn", "Publish", "Drain"} \/ pc'["ui"] = pc["ui"]
      BY <1>9 DEF Submit, SubmitCall, SubmitCount, SubmitRecheck, SubmitSend, SubmitFull, SubmitGive,
                  Withdraw, Goto
    <3>2. Serving' <=> Serving
      BY <3>1, ServingMoves
    <3> QED
      BY <1>9, <3>2 DEF Submit, SubmitCall, SubmitCount, SubmitRecheck, SubmitSend, SubmitFull,
                        SubmitGive, Withdraw, rtos, wvars, Serving
  <2>2. CASE SubmitCall(t) \/ SubmitGive(t)
    <3>1. Joined' = Joined
      BY <2>2, JoinedMoves DEF SubmitCall, SubmitGive, Goto
    <3> QED
      BY <1>1, <2>1, <2>2, <3>1 DEF SubmitCall, SubmitGive, GiveIdle, rtos, wvars
  <2>3. CASE SubmitCount(t)
    <3>1. Cardinality(Joined') = Cardinality(Joined) + 1
      BY <2>3, JoinedMoves DEF SubmitCount, Goto
    <3>2. pending' = pending + 1 /\ Queued' = Queued /\ Runs' = Runs
      BY <2>1, <2>3 DEF SubmitCount, rtos, Queued, Runs
    <3> QED
      BY <3>1, <3>2 DEF CountInv
  <2>4. ASSUME NEW from \in {"Recheck", "Send"}, Withdraw(t, from) PROVE CountInv'
    <3>1. Cardinality(Joined') = Cardinality(Joined) - 1 /\ Cardinality(Joined) >= 1
      BY <2>4, <1>11 DEF Withdraw, Goto
    <3>2. pending' = pending - 1 /\ Queued' = Queued /\ Runs' = Runs
      BY <2>1, <2>4, <3>1 DEF Withdraw, Decrement, rtos, Queued, Runs
    <3> QED
      BY <3>1, <3>2 DEF CountInv
  <2>5. CASE SubmitRecheck(t)
    <3>1. CASE Withdraw(t, "Recheck")
      BY <2>4, <3>1
    <3>2. CASE life = "running"
      <4>1. Joined' = Joined
        BY <2>5, <3>2, JoinedMoves DEF SubmitRecheck, Goto
      <4> QED
        BY <1>1, <2>1, <2>5, <3>2, <4>1 DEF SubmitRecheck, rtos, wvars
    <3> QED
      BY <2>5, <3>1, <3>2 DEF SubmitRecheck
  <2>6. CASE SubmitSend(t)
    <3>1. Cardinality(Joined') = Cardinality(Joined) - 1
      BY <2>6, <1>11 DEF SubmitSend, Goto
    <3>2. Len(items') = Len(items) + 1
      BY <2>6 DEF SubmitSend
    <3>3. Serving
      BY <2>6 DEF SubmitSend, Goto, SubmitInv
    <3>4. pending' = pending /\ Queued' = Queued + 1 /\ Runs' = Runs
      BY <2>1, <2>6, <3>2, <3>3 DEF SubmitSend, Queued, Runs
    <3> QED
      BY <3>1, <3>4 DEF CountInv
  <2>7. CASE SubmitFull(t)
    BY <2>4, <2>7 DEF SubmitFull
  <2> QED
    BY <1>9, <2>2, <2>3, <2>5, <2>6, <2>7 DEF Submit
<1>10. ASSUME NEW w \in Workers, Work(w) PROVE CountInv'
  <2>1. pc' = pc /\ made' = made /\ Serving' = Serving /\ Joined' = Joined
    BY <1>10 DEF Work, Receive, RunJob, WorkerGive, WorkerBye, WorkerForget, GiveIdle, rtos, Serving,
                 Up, Joined
  <2>2. CASE Receive(w)
    <3>1. /\ items # <<>> /\ w = made /\ items' = Tail(items) /\ pending' = pending
          /\ wpc' = [wpc EXCEPT ![w] = IF Head(items) = NoJob THEN "Bye" ELSE "Run"]
          /\ wpc[w] = "Receive"
      BY <2>2 DEF Receive, WorkerGoto
    <3>2. Runs = 0 /\ Len(items') = Len(items) - 1 /\ made > 0
      BY <3>1 DEF Runs
    <3>3. CASE Serving
      <4>1. Head(items) # NoJob
        <5>1. items \in Seq(Jobs)
          BY <3>3 DEF Bookkeeping, WorkInv
        <5> QED
          BY <3>1, <5>1, Constants
      <4>2. Runs' = 1 /\ Queued' = Queued - 1
        BY <2>1, <3>1, <3>2, <3>3, <4>1 DEF Runs, Queued
      <4> QED
        BY <2>1, <3>1, <3>2, <4>2 DEF CountInv
    <3>4. CASE ~Serving
      <4>1. items = <<NoJob>>
        BY <3>1, <3>4 DEF Bookkeeping, WorkInv
      <4>2. Runs' = 0 /\ Queued' = 0 /\ Queued = 0
        BY <2>1, <3>1, <3>4, <4>1 DEF Runs, Queued
      <4> QED
        BY <2>1, <3>1, <3>2, <4>2 DEF CountInv
    <3> QED
      BY <3>3, <3>4
  <2>3. CASE RunJob(w)
    <3>1. w = made /\ Runs = 1 /\ pending > 0
      BY <2>3 DEF RunJob, WorkerGoto, Runs, Bookkeeping, WorkInv
    <3>2. pending' = pending - 1 /\ Runs' = 0 /\ Queued' = Queued
      BY <2>1, <2>3, <3>1 DEF RunJob, WorkerGoto, Decrement, Runs, Queued, rtos
    <3> QED
      BY <2>1, <3>1, <3>2 DEF CountInv
  <2>4. CASE WorkerGive(w) \/ WorkerBye(w) \/ WorkerForget(w)
    <3>1. /\ pending' = pending /\ items' = items /\ wpc[w] # "Run"
          /\ \E l \in WorkerPc \ {"Run"} : wpc' = [wpc EXCEPT ![w] = l]
      BY <2>4 DEF WorkerGive, WorkerBye, WorkerForget, WorkerGoto, GiveIdle, rtos, WorkerPc
    <3>2. Runs' = Runs /\ Queued' = Queued
      BY <2>1, <3>1 DEF Runs, Queued
    <3> QED
      BY <2>1, <3>1, <3>2 DEF CountInv
  <2> QED
    BY <1>10, <2>2, <2>3, <2>4 DEF Work
<1> QED
  BY <1>4, <1>6, <1>7, <1>8, <1>9, <1>10 DEF Next, Ui

LEMMA WorkerKeeps == Bookkeeping /\ WorkerInv /\ SpawnInv /\ [Next]_vars => WorkerInv' /\ SpawnInv'
<1> SUFFICES ASSUME Bookkeeping, WorkerInv, SpawnInv, [Next]_vars PROVE WorkerInv' /\ SpawnInv'
  OBVIOUS
<1>0. /\ "ui" \in Tasks /\ pc \in [Tasks -> UiPc \cup SubmitPc]
      /\ made \in Nat /\ worker \in Workers \cup {0}
      /\ wpc \in [Workers -> WorkerPc] /\ Workers \subseteq Nat \ {0}
      /\ token \in [{"worker_stopped", "idle"} -> BOOLEAN]
      /\ \A w \in Workers : wpc[w] # "None" => w <= made
  BY Constants DEF Bookkeeping, TypeOK, WorkInv
<1> USE <1>0
\* Where no first worker is active, none becomes so but by StartSpawn.
<1> DEFINE Nobody == made <= 1 => \A w \in Workers : ~Active(w)
<1>1. ASSUME Nobody, made' = made, \A w \in Workers : Active(w)' => Active(w) PROVE WorkerInv'
  BY <1>1 DEF WorkerInv
<1>2. CASE UNCHANGED vars
  BY <1>2 DEF vars, WorkerInv, SpawnInv, Active, Up
<1>3. CASE StartCall \/ StartCreate \/ StartCreateFails \/ StartSpawnFails \/ StopDelete \/ StopClear
  <2>1. Nobody
    BY <1>3 DEF StartCall, StartCreate, StartCreateFails, StartSpawnFails, StopDelete, StopClear,
                BeginStart, Goto, WorkerInv, Bookkeeping, LifeInv, Draining, Drained
  <2>2. UNCHANGED wpc /\ made' = made
    BY <1>3 DEF StartCall, StartCreate, StartCreateFails, StartSpawnFails, StopDelete, StopClear, wvars
  <2>3. SpawnInv'
    BY <1>3 DEF StartCall, StartCreate, StartCreateFails, StartSpawnFails, StopDelete, StopClear,
                Goto, SpawnInv
  <2> QED
    BY <1>1, <2>1, <2>2, <2>3 DEF Active
<1>4. CASE StartSpawn
  <2>1. /\ pc["ui"] = "Spawn" /\ pc'["ui"] = "Publish" /\ made' = made + 1 /\ Up /\ Nobody
        /\ wpc' = [wpc EXCEPT ![made + 1] = "Receive"] /\ UNCHANGED <<obj, token>>
    BY <1>4 DEF StartSpawn, Goto, WorkerGoto, rtos, Bookkeeping, LifeInv, WorkerInv, Draining
  <2>2. ASSUME made' <= 1, NEW w \in Workers, Active(w)' PROVE w = made' /\ made = 0
    <3>1. made = 0 /\ ~Active(w)
      BY <2>1, <2>2
    <3> QED
      BY <2>1, <2>2, <3>1 DEF Active
  <2> QED
    BY <2>1, <2>2 DEF WorkerInv, SpawnInv, Up
<1>5. CASE StartPublish
  <2>1. /\ pc["ui"] = "Publish" /\ pc'["ui"] = "Idle" /\ worker' = made /\ life' = "running"
        /\ UNCHANGED <<obj, token, made, wpc>>
    BY <1>5 DEF StartPublish, Goto, rtos
  <2> QED
    BY <2>1 DEF WorkerInv, SpawnInv, Active, Up
\* Steps after which an active worker is still where it was
<1>6. ASSUME UNCHANGED <<obj, worker, made>>, pc["ui"] # "Publish", pc'["ui"] # "Spawn",
             \A w \in Workers : Active(w)' => Active(w),
             token'["worker_stopped"] = token["worker_stopped"],
             \/ life' = "running"
             \/ pc'["ui"] \in {"Pill", "JoinCheck", "Join", "Kill"} \cup Draining
      PROVE  WorkerInv' /\ SpawnInv'
  BY <1>6 DEF WorkerInv, SpawnInv, Up
<1>7. CASE QuiesceCall \/ QuiesceCheck \/ QuiesceTake
  <2>1. /\ UNCHANGED <<life, obj, worker, made, wpc>> /\ pc["ui"] # "Publish" /\ pc'["ui"] # "Spawn"
        /\ token'["worker_stopped"] = token["worker_stopped"]
        /\ pc["ui"] \in {"Idle", "Quiesce", "QuiesceWait"}
    BY <1>7 DEF QuiesceCall, QuiesceCheck, QuiesceTake, CheckPending, TakeIdle, Goto, rtos, wvars
  <2>2. CASE life = "running"
    BY <1>6, <2>1, <2>2 DEF Active
  <2>3. CASE life # "running"
    <3>1. Nobody
      BY <2>1, <2>3 DEF WorkerInv, Draining
    <3> QED
      BY <1>1, <2>1, <3>1 DEF Active, SpawnInv
  <2> QED
    BY <2>2, <2>3
<1>8. CASE StopCall
  <2>1. /\ UNCHANGED <<obj, token, worker, made, wpc>> /\ pc["ui"] = "Idle"
        /\ pc'["ui"] = "Drain" \/ (life # "running" /\ pc'["ui"] = "Idle")
    BY <1>8 DEF StopCall, AtomicBeginStop, Goto, rtos, wvars
  <2>2. CASE pc'["ui"] = "Drain"
    BY <1>6, <2>1, <2>2 DEF Active, Draining
  <2>3. CASE life # "running" /\ pc'["ui"] = "Idle"
    <3>1. Nobody
      BY <2>1, <2>3 DEF WorkerInv, Draining
    <3> QED
      BY <1>1, <2>1, <2>3, <3>1 DEF Active, SpawnInv
  <2> QED
    BY <2>1, <2>2, <2>3
<1>9. CASE StopCheck \/ StopTake \/ StopPill \/ StopJoinTimeout
  <2>1. /\ UNCHANGED <<obj, worker, made, wpc>> /\ pc["ui"] # "Publish"
        /\ token'["worker_stopped"] = token["worker_stopped"]
        /\ pc'["ui"] \in {"Drain", "DrainWait", "Pill", "JoinCheck", "Kill"}
    BY <1>9 DEF StopCheck, StopTake, StopPill, StopJoinTimeout, CheckPending, TakeIdle, Goto, rtos,
       wvars
  <2> QED
    BY <1>6, <2>1 DEF Active, Draining
<1>10. CASE StopJoinCheck
  <2>1. /\ UNCHANGED <<obj, token, worker, made, wpc>> /\ pc["ui"] = "JoinCheck"
        /\ \/ pc'["ui"] = "Join"
           \/ pc'["ui"] = "Delete" /\ (worker = 0 \/ obj["worker_stopped"] = "null")
    BY <1>10 DEF StopJoinCheck, Goto, rtos, wvars
  <2>2. CASE pc'["ui"] = "Join"
    BY <1>6, <2>1, <2>2 DEF Active
  <2>3. CASE pc'["ui"] # "Join"
    <3>1. Nobody
      BY <2>1, <2>3 DEF WorkerInv, Up, Kinds
    <3> QED
      BY <1>1, <2>1, <2>3, <3>1 DEF Active, SpawnInv
  <2> QED
    BY <2>2, <2>3
<1>11. CASE StopNoWorker \/ StopJoin
  <2>1. /\ pc["ui"] # "Publish" /\ pc'["ui"] = "Delete" /\ UNCHANGED <<made, wpc>>
        /\ worker = 0 \/ obj["queue"] = "null" \/ token["worker_stopped"]
    BY <1>11 DEF StopNoWorker, StopJoin, Goto, rtos, wvars
  <2>2. Nobody
    BY <2>1 DEF WorkerInv, Up, Kinds
  <2> QED
    BY <1>1, <2>1, <2>2 DEF Active, SpawnInv
<1>12. CASE StopKill
  <2>1. /\ pc["ui"] = "Kill" /\ pc'["ui"] # "Spawn" /\ made' = made
        /\ \/ worker # 0 /\ wpc' = [wpc EXCEPT ![worker] = "Gone"]
           \/ worker = 0 /\ wpc' = wpc
    BY <1>12 DEF StopKill, Goto
  <2>2. made <= 1 => \A w \in Workers : ~Active(w)'
    BY <2>1 DEF WorkerInv, Active
  <2> QED
    BY <2>1, <2>2 DEF WorkerInv, SpawnInv
<1>13. ASSUME NEW t \in Tasks, Submit(t) PROVE WorkerInv' /\ SpawnInv'
  <2>1. /\ UNCHANGED <<life, obj, worker, made, wpc>>
        /\ token'["worker_stopped"] = token["worker_stopped"]
    BY <1>13 DEF Submit, SubmitCall, SubmitCount, SubmitRecheck, SubmitSend, SubmitFull, SubmitGive,
                 GiveIdle, Withdraw, rtos, wvars
  <2>2. pc'["ui"] = pc["ui"] \/ (life = "running" /\ pc["ui"] # "Publish" /\ pc'["ui"] # "Spawn")
    <3>1. /\ \E l : pc' = [pc EXCEPT ![t] = l] /\ l # "Spawn"
          /\ pc[t] \in {"Count", "Recheck", "Send", "Give"} \/ (life = "running" /\ pc[t] = "Idle")
      BY <1>13 DEF Submit, SubmitCall, SubmitCount, SubmitRecheck, SubmitSend, SubmitFull, SubmitGive,
                   Withdraw, Goto
    <3> QED
      BY <3>1 DEF Bookkeeping, LifeInv
  <2>3. CASE pc'["ui"] = pc["ui"]
    BY <2>1, <2>3 DEF WorkerInv, SpawnInv, Active, Up
  <2>4. CASE life = "running" /\ pc["ui"] # "Publish" /\ pc'["ui"] # "Spawn"
    BY <1>6, <2>1, <2>4 DEF Active
  <2> QED
    BY <2>2, <2>3, <2>4
<1>14. ASSUME NEW v \in Workers, Work(v) PROVE WorkerInv' /\ SpawnInv'
  <2>0. /\ UNCHANGED <<life, obj, made, pc>> /\ wpc[v] # "None"
        /\ \E l \in WorkerPc : wpc' = [wpc EXCEPT ![v] = l]
    BY <1>14 DEF Work, Receive, RunJob, WorkerGive, WorkerBye, WorkerForget, WorkerGoto, GiveIdle,
       rtos, WorkerPc
  <2>1. /\ UNCHANGED <<life, obj, made, pc>> /\ made > 0
        /\ \E l \in WorkerPc : wpc' = [wpc EXCEPT ![v] = l]
    <3>1. v \in Nat /\ v # 0 /\ v <= made
      BY <2>0
    <3>2. made > 0
      BY <3>1
    <3> QED
      BY <2>0, <3>2
  <2>2. SpawnInv'
    BY <2>1 DEF SpawnInv
  <2>3. ASSUME made <= 1 PROVE \A w \in Workers : (Active(w)' \/ Active(w)) => w = v
    <3>1. v = made
      <4>1. v \in Nat /\ v # 0 /\ v <= made
        BY <2>0
      <4> QED
        BY <2>3, <4>1
    <3>2. ASSUME NEW w \in Workers, Active(w), w # v PROVE FALSE
      BY <2>3, <3>1, <3>2 DEF WorkerInv
    <3>3. ASSUME NEW w \in Workers, Active(w)', w # v PROVE Active(w)
      BY <2>1, <3>3 DEF Active
    <3> QED
      BY <3>2, <3>3
  <2>4. CASE Receive(v) \/ RunJob(v) \/ WorkerGive(v)
    <3>1. Active(v) /\ worker' = worker /\ token'["worker_stopped"] = token["worker_stopped"]
      BY <2>4 DEF Receive, RunJob, WorkerGive, WorkerGoto, GiveIdle, rtos, Active
    <3> QED
      BY <2>1, <2>2, <2>3, <3>1 DEF WorkerInv, Up
  <2>5. CASE WorkerBye(v) \/ WorkerForget(v)
    <3>1. ~Active(v)'
      BY <2>5 DEF WorkerBye, WorkerForget, WorkerGoto, Active
    <3> QED
      BY <2>1, <2>2, <2>3, <3>1 DEF WorkerInv
  <2> QED
    BY <1>14, <2>4, <2>5 DEF Work
<1> QED
  BY <1>2, <1>3, <1>4, <1>5, <1>7, <1>8, <1>9, <1>10, <1>11, <1>12, <1>13, <1>14 DEF Next, Ui

-----------------------------------------------------------------------------
(* Theorems                                                                 *)

LEMMA JobsStep == NoLateSubmitter /\ JobsInv /\ [Next]_vars => JobsInv'
  BY TypeKeeps, LifeKeeps, SubmitKeeps, WorkKeeps, CountKeeps, WorkerKeeps DEF JobsInv, Bookkeeping

LEMMA JobsInit == Init => JobsInv
<1> SUFFICES ASSUME Init PROVE JobsInv
  OBVIOUS
<1>1. TypeOK
  BY TypeInit
<1>2. /\ life = "stopped" /\ items = <<>> /\ pending = 0 /\ worker = 0 /\ made = 0
      /\ \A t \in Tasks : pc[t] = "Idle"
      /\ \A w \in Workers : wpc[w] = "None"
      /\ obj = [k \in Kinds |-> "null"]
      /\ "ui" \in Tasks /\ env.starts \in Nat
  BY Constants DEF Init
<1>3. LifeInv
  BY <1>2 DEF LifeInv, Draining, Drained
<1>4. SubmitInv
  BY <1>2 DEF SubmitInv, SubmitPc
<1>5. ~Serving
  BY <1>2 DEF Serving, Draining
<1>6. WorkInv
  BY <1>2, <1>5 DEF WorkInv
<1>7. CountInv
  <2>1. Joined = {} /\ Cardinality({}) = 0 /\ Queued = 0 /\ Runs = 0
    BY <1>2, <1>5, FS_EmptySet DEF Joined, Queued, Runs
  <2> QED
    BY <1>2, <2>1 DEF CountInv
<1>8. WorkerInv /\ SpawnInv
  BY <1>2 DEF WorkerInv, SpawnInv, Active
<1> QED
  BY <1>1, <1>3, <1>4, <1>6, <1>7, <1>8 DEF JobsInv

(* Whatever the UI task and the submitters do, the executor keeps its      *)
(* books: the lifecycle, the queue, the count and the worker agree.        *)
THEOREM JobsInvariant == ASSUME NoLateSubmitter PROVE Spec => []JobsInv
  BY JobsInit, JobsStep, PTL DEF Spec

(* Once stop has drained the executor nothing accepted is queued or runs.  *)
THEOREM DrainedHolds == ASSUME NoLateSubmitter PROVE Spec => []DrainedBeforeDelete
<1>1. JobsInv => DrainedBeforeDelete
  <2> SUFFICES ASSUME JobsInv, pc["ui"] \in Drained
               PROVE  /\ \A i \in DOMAIN items : items[i] = NoJob
                      /\ \A w \in Workers : wpc[w] # "Run"
    BY DEF DrainedBeforeDelete
  <2>1. ~Serving
    BY DEF JobsInv, LifeInv, Serving, Drained, Draining
  <2>2. items = <<>> \/ items = <<NoJob>>
    BY <2>1 DEF JobsInv, WorkInv
  <2> QED
    BY <2>1, <2>2 DEF JobsInv, WorkInv
<1> QED
  BY <1>1, JobsInvariant, PTL

(* No submission sends to a queue that stop deleted; and, until the        *)
(* executor is started a second time, no worker receives from a deleted    *)
(* queue or gives a deleted semaphore.  Which task submits is restricted   *)
(* by NoLateSubmitter; the give of idle_ by a submission is not covered.   *)
THEOREM ObjectsOutliveUsersHolds == ASSUME NoLateSubmitter PROVE Spec => []ObjectsOutliveUsers
<1>1. JobsInv => ObjectsOutliveUsers
  <2> SUFFICES ASSUME JobsInv PROVE ObjectsOutliveUsers
    OBVIOUS
  <2>1. Up => \A k \in {"queue", "worker_stopped", "idle"} : obj[k] = "live"
    BY DEF Up, Kinds
  <2>2. \A t \in Tasks : pc[t] = "Send" => obj["queue"] = "live"
    BY <2>1 DEF JobsInv, SubmitInv, Serving
  <2>3. ASSUME made <= 1, NEW w \in Workers, Active(w) PROVE w = made /\ Up
    BY <2>3 DEF JobsInv, WorkerInv
  <2> QED
    BY <2>1, <2>2, <2>3 DEF ObjectsOutliveUsers, Active
<1> QED
  BY <1>1, JobsInvariant, PTL

-----------------------------------------------------------------------------
(* The refinement of JobExecutor                                            *)

LEMMA OneThenRest ==
  ASSUME NEW S, NEW x \in S, NEW s \in Seq(S)
  PROVE  /\ <<x>> \o s # <<>> /\ Len(<<x>> \o s) = Len(s) + 1
         /\ Tail(<<x>> \o s) = s
         /\ \A y \in S : <<x>> \o Append(s, y) = Append(<<x>> \o s, y)
<1>1. <<x>> \in Seq(S) /\ Len(<<x>>) = 1 /\ <<x>>[1] = x
  OBVIOUS
<1> DEFINE c == <<x>> \o s
<1>2. /\ c \in Seq(S) /\ Len(c) = Len(s) + 1
      /\ \A i \in 1 .. Len(s) + 1 : c[i] = IF i <= 1 THEN x ELSE s[i - 1]
  BY <1>1, ConcatProperties
<1> HIDE DEF c
<1>3. c # <<>> /\ Tail(c) = s
  <2>1. c # <<>>
    BY <1>2
  <2>2. /\ Tail(c) \in Seq(S) /\ Len(Tail(c)) = Len(s)
        /\ \A i \in 1 .. Len(Tail(c)) : Tail(c)[i] = c[i + 1]
    BY <1>2, <2>1, HeadTailProperties
  <2>3. \A i \in 1 .. Len(Tail(c)) : Tail(c)[i] = s[i]
    BY <1>2, <2>2
  <2> QED
    BY <2>1, <2>2, <2>3, SeqEqual
<1>4. ASSUME NEW y \in S PROVE <<x>> \o Append(s, y) = Append(c, y)
  <2>1. <<y>> \in Seq(S)
    OBVIOUS
  <2>2. Append(s, y) = s \o <<y>> /\ Append(c, y) = c \o <<y>>
    BY <1>2, AppendIsConcat
  <2>3. <<x>> \o (s \o <<y>>) = (<<x>> \o s) \o <<y>>
    BY <1>1, <2>1, ConcatAssociative
  <2> QED
    BY <2>2, <2>3 DEF c
<1> QED
  BY <1>2, <1>3, <1>4 DEF c

LEMMA HeadThenTail ==
  ASSUME NEW S, NEW s \in Seq(S), s # <<>>
  PROVE  <<Head(s)>> \o Tail(s) = s
<1>1. /\ Head(s) \in S /\ Tail(s) \in Seq(S) /\ Len(Tail(s)) = Len(s) - 1 /\ Head(s) = s[1]
      /\ \A i \in 1 .. Len(Tail(s)) : Tail(s)[i] = s[i + 1]
  BY HeadTailProperties
<1>2. <<Head(s)>> \in Seq(S) /\ Len(<<Head(s)>>) = 1 /\ <<Head(s)>>[1] = Head(s)
  BY <1>1
<1> DEFINE c == <<Head(s)>> \o Tail(s)
<1>3. /\ c \in Seq(S) /\ Len(c) = Len(s)
      /\ \A i \in 1 .. Len(s) : c[i] = IF i <= 1 THEN Head(s) ELSE Tail(s)[i - 1]
  BY <1>1, <1>2, ConcatProperties
<1> HIDE DEF c
<1>4. \A i \in 1 .. Len(c) : c[i] = s[i]
  BY <1>1, <1>3
<1>5. c = s
  BY <1>3, <1>4, SeqEqual
<1> QED
  BY <1>5 DEF c

\* The unfinished jobs: one that runs, then those that wait
Waiting == IF Serving THEN items ELSE <<>>

LEMMA UnfinishedIs ==
  JobsInv
    => /\ Accepted = Waiting /\ Waiting \in Seq(Jobs) /\ Len(Waiting) <= QueueLength
       /\ Runs = 1 => Serving /\ job[made] \in Jobs /\ Unfinished = <<job[made]>> \o Waiting
       /\ Runs # 1 => Unfinished = Waiting
<1> SUFFICES ASSUME JobsInv
             PROVE  /\ Accepted = Waiting /\ Waiting \in Seq(Jobs) /\ Len(Waiting) <= QueueLength
                    /\ Runs = 1
                         => Serving /\ job[made] \in Jobs /\ Unfinished = <<job[made]>> \o Waiting
                    /\ Runs # 1 => Unfinished = Waiting
  OBVIOUS
<1>0. /\ items \in Seq(Jobs \cup {NoJob}) /\ NoJob \notin Jobs /\ Workers \subseteq Nat \ {0}
      /\ made \in Workers \cup {0} /\ QueueLength \in Nat /\ Len(items) <= QueueLength
  BY Constants DEF JobsInv, TypeOK
<1>1. Accepted = Waiting /\ Waiting \in Seq(Jobs) /\ Len(Waiting) <= QueueLength
  <2>1. CASE Serving
    <3>1. items \in Seq(Jobs)
      BY <2>1 DEF JobsInv, WorkInv
    <3>2. items # <<>> => items[Len(items)] \in Jobs
      BY <3>1
    <3> QED
      BY <1>0, <2>1, <3>1, <3>2 DEF Accepted, Waiting
  <2>2. CASE ~Serving
    <3>1. items = <<>> \/ items = <<NoJob>>
      BY <2>2 DEF JobsInv, WorkInv
    <3>2. SubSeq(<<NoJob>>, 1, 0) = <<>> /\ <<NoJob>>[Len(<<NoJob>>)] = NoJob
          /\ Len(<<NoJob>>) - 1 = 0
      OBVIOUS
    <3>3. Accepted = <<>>
      BY <3>1, <3>2 DEF Accepted
    <3> QED
      BY <1>0, <2>2, <3>3 DEF Waiting
  <2> QED
    BY <2>1, <2>2
<1>2. ASSUME Runs = 1
      PROVE  Serving /\ job[made] \in Jobs /\ Unfinished = <<job[made]>> \o Waiting
  <2>1. made \in Workers /\ wpc[made] = "Run"
    BY <1>0, <1>2 DEF Runs
  <2> QED
    BY <1>1, <2>1, <1>0 DEF JobsInv, WorkInv, Unfinished
<1>3. ASSUME Runs # 1 PROVE Unfinished = Waiting
  <2>1. Unfinished = <<>> \o Waiting
    BY <1>1, <1>3 DEF Runs, Unfinished
  <2> QED
    BY <1>1, <2>1, ConcatEmptySeq
<1> QED
  BY <1>1, <1>2, <1>3

LEMMA NothingUnfinished == JobsInv /\ ~Serving => Unfinished = <<>>
  BY UnfinishedIs DEF Waiting

(* quiesce returns to its caller only when no job it accepted is queued or *)
(* running.                                                                *)
THEOREM QuiesceMeansIdleHolds == ASSUME NoLateSubmitter PROVE Spec => QuiesceMeansIdle
<1>1. ASSUME JobsInv, QuiesceCheck, pc'["ui"] = "Idle", obj["idle"] = "live"
      PROVE  Unfinished = <<>>
  <2>1. pending = 0
    BY <1>1, Constants DEF QuiesceCheck, CheckPending, Goto, JobsInv, TypeOK
  <2>2. (items = <<>> \/ ~Serving) /\ \A w \in Workers : wpc[w] # "Run"
    BY <1>1, <2>1, NothingPending DEF JobsInv
  <2>3. CASE Serving
    <3>1. Runs # 1
      BY <2>2, Constants, <1>1 DEF Runs, JobsInv, TypeOK
    <3> QED
      BY <1>1, <2>2, <2>3, <3>1, UnfinishedIs DEF Waiting
  <2> QED
    BY <1>1, <2>3, NothingUnfinished
<1> QED
  BY <1>1, JobsInvariant, PTL DEF QuiesceMeansIdle

\* The queue object comes and goes with start and stop, as the executor does.
LEMMA QueueFollowsServing == JobsInv /\ Serving => obj["queue"] = "live"
  BY DEF Serving, Up, Kinds

LEMMA ExecutorInit == Init => Executor!Init
<1> SUFFICES ASSUME Init PROVE Executor!Init
  OBVIOUS
<1>1. obj["queue"] # "live" /\ items = <<>> /\ made = 0
  BY DEF Init, Kinds
<1>2. <<>> \o <<>> = <<>>
  OBVIOUS
<1>3. Unfinished = <<>>
  BY <1>1, <1>2 DEF Unfinished, Accepted
<1> QED
  BY <1>1, <1>3 DEF Executor!Init

LEMMA ExecutorStep == NoLateSubmitter /\ JobsInv /\ [Next]_vars => [Executor!Next]_Executor!vars
<1> SUFFICES ASSUME JobsInv, JobsInv', [Next]_vars PROVE [Executor!Next]_Executor!vars
  BY JobsStep
<1>0. /\ "ui" \in Tasks /\ pc \in [Tasks -> UiPc \cup SubmitPc] /\ made \in Nat
      /\ obj \in [Kinds -> {"null", "live", "freed"}] /\ "queue" \in Kinds /\ Bookkeeping
      /\ items \in Seq(Jobs \cup {NoJob}) /\ NoJob \notin Jobs /\ QueueLength \in Nat
      /\ wpc \in [Workers -> WorkerPc] /\ job \in [Workers -> Jobs \cup {NoJob}]
      /\ Workers \subseteq Nat \ {0} /\ made \in Workers \cup {0} /\ made' \in Workers \cup {0}
  <2>1. Bookkeeping
    BY DEF JobsInv, Bookkeeping
  <2>2. TypeOK /\ TypeOK'
    BY DEF JobsInv
  <2>3. /\ "ui" \in Tasks /\ "queue" \in Kinds /\ NoJob \notin Jobs /\ QueueLength \in Nat
        /\ Workers \subseteq Nat \ {0}
    BY Constants DEF Kinds
  <2>4. made' \in Workers \cup {0}
    BY <2>2 DEF TypeOK
  <2>5. /\ pc \in [Tasks -> UiPc \cup SubmitPc] /\ obj \in [Kinds -> {"null", "live", "freed"}]
        /\ items \in Seq(Jobs \cup {NoJob}) /\ made \in Workers \cup {0}
        /\ wpc \in [Workers -> WorkerPc] /\ job \in [Workers -> Jobs \cup {NoJob}]
    BY <2>2 DEF TypeOK
  <2>6. made \in Nat
    BY <2>3, <2>5
  <2> QED
    BY <2>1, <2>3, <2>4, <2>5, <2>6
<1> USE <1>0
<1>1. /\ Serving => obj["queue"] = "live"
      /\ ~Serving => Unfinished = <<>>
      /\ ~Serving' => Unfinished' = <<>>
  <2>1. (JobsInv /\ ~Serving => Unfinished = <<>>)'
    BY NothingUnfinished, PTL
  <2> QED
    BY <2>1, NothingUnfinished, QueueFollowsServing
<1>2. /\ (Accepted = Waiting /\ Waiting \in Seq(Jobs))'
      /\ (Runs = 1 => job[made] \in Jobs /\ Unfinished = <<job[made]>> \o Waiting)'
      /\ (Runs # 1 => Unfinished = Waiting)'
  BY UnfinishedIs, PTL
\* A stutter
<1>3. ASSUME obj'["queue"] = obj["queue"], Unfinished' = Unfinished
      PROVE  [Executor!Next]_Executor!vars
  BY <1>3 DEF Executor!vars
<1>4. ASSUME obj'["queue"] = obj["queue"], ~Serving, ~Serving'
      PROVE  [Executor!Next]_Executor!vars
  BY <1>1, <1>3, <1>4
<1>5. CASE UNCHANGED vars
  BY <1>3, <1>5 DEF vars, Unfinished, Accepted
<1>6. CASE StartCreate \/ StartCreateFails
  <2>1. /\ ~Serving /\ ~Serving' /\ obj["queue"] = "null"
        /\ obj' \in [Kinds -> {"null", "live"}]
    <3>1. pc["ui"] = "Create" /\ life = "starting"
      BY <1>6 DEF StartCreate, StartCreateFails, Goto, Bookkeeping, LifeInv
    <3>2. ~Serving
      BY <3>1 DEF Serving, Draining
    <3>3. ~Serving'
      BY <3>1, <3>2, ServingMoves
    <3> QED
      BY <1>6, <3>1, <3>2, <3>3 DEF StartCreate, StartCreateFails, Bookkeeping, LifeInv
  <2>2. CASE obj'["queue"] = "live"
    BY <1>1, <2>1, <2>2 DEF Executor!Next, Executor!Open
  <2>3. CASE obj'["queue"] = "null"
    BY <1>4, <2>1, <2>3
  <2> QED
    BY <2>1, <2>2, <2>3
<1>7. CASE StopDelete
  <2>1. /\ ~Serving /\ ~Serving' /\ obj'["queue"] # "live"
    <3>1. pc["ui"] = "Delete" /\ life = "stopping"
      BY <1>7 DEF StopDelete, Goto, Bookkeeping, LifeInv, Drained
    <3>2. ~Serving
      BY <3>1 DEF Serving, Draining
    <3>3. ~Serving'
      BY <3>1, <3>2, ServingMoves
    <3> QED
      BY <1>7, <3>2, <3>3 DEF StopDelete
  <2>2. CASE obj["queue"] = "live"
    BY <1>1, <2>1, <2>2 DEF Executor!Next, Executor!Close
  <2>3. CASE obj["queue"] # "live"
    BY <1>1, <2>1, <2>3 DEF Executor!vars
  <2> QED
    BY <2>2, <2>3
<1>8. CASE StopClear
  <2>1. /\ ~Serving /\ ~Serving' /\ obj["queue"] # "live" /\ obj'["queue"] # "live"
    <3>1. pc["ui"] = "Clear" /\ life = "stopping"
      BY <1>8 DEF StopClear, Goto, Bookkeeping, LifeInv, Drained
    <3>2. ~Serving
      BY <3>1 DEF Serving, Draining
    <3>3. ~Serving'
      BY <3>1, <3>2, ServingMoves
    <3> QED
      BY <1>8, <3>1, <3>2, <3>3 DEF StopClear, Bookkeeping, LifeInv
  <2> QED
    BY <1>1, <2>1 DEF Executor!vars
<1>9. CASE StartSpawn \/ StopPill \/ StopKill
  <2>1. /\ ~Serving /\ obj' = obj /\ pc["ui"] \notin Draining
        /\ life' = life /\ life # "running" /\ pc'["ui"] \notin Draining
    BY <1>9 DEF StartSpawn, StopPill, StopKill, Goto, rtos, Bookkeeping, LifeInv, Serving,
                Draining, Drained
  <2> QED
    BY <1>4, <2>1 DEF Serving
<1>10. CASE StartCall \/ StartSpawnFails \/ StartPublish \/ QuiesceCall \/ QuiesceCheck \/ QuiesceTake
             \/ StopCall \/ StopCheck \/ StopTake \/ StopNoWorker \/ StopJoinCheck \/ StopJoin
             \/ StopJoinTimeout
  BY <1>3, <1>10 DEF StartCall, StartSpawnFails, StartPublish, QuiesceCall, QuiesceCheck,
     QuiesceTake, CheckPending, TakeIdle, StopCall, StopCheck, StopTake, StopNoWorker,
     StopJoinCheck, StopJoin, StopJoinTimeout, rtos, wvars, Unfinished, Accepted
<1>11. ASSUME NEW t \in Tasks, Submit(t) PROVE [Executor!Next]_Executor!vars
  <2>1. CASE SubmitSend(t)
    <3>1. /\ Serving /\ Serving' /\ Runs' = Runs /\ job' = job /\ made' = made
          /\ Len(items) < QueueLength /\ obj' = obj
      <4>1. pc[t] = "Send" /\ pc' = [pc EXCEPT ![t] = "Idle"] /\ obj' = obj
            /\ UNCHANGED wvars /\ Len(items) < QueueLength
        BY <2>1 DEF SubmitSend, Goto
      <4>2. Serving
        BY <4>1 DEF JobsInv, SubmitInv
      <4>3. Serving'
        <5>1. pc'["ui"] # "Pill"
          BY <4>1, <4>2 DEF Bookkeeping, LifeInv, Serving, Draining, Drained
        <5> QED
          BY <4>2, <5>1, ServingMoves
      <4> QED
        BY <4>1, <4>2, <4>3 DEF wvars, Runs
    <3>2. PICK j \in Jobs : items' = Append(items, j)
      BY <2>1 DEF SubmitSend
    <3>3. Waiting = items /\ Waiting' = Append(items, j) /\ items \in Seq(Jobs) /\ Len(items) \in Nat
      BY <3>1, <3>2, UnfinishedIs DEF Waiting
    <3>4. Unfinished' = Append(Unfinished, j) /\ Len(Unfinished) < QueueLength + 1
      <4>1. CASE Runs = 1
        <5>1. job[made] \in Jobs /\ Unfinished = <<job[made]>> \o items
          BY <3>3, <4>1, UnfinishedIs
        <5>2. Unfinished' = <<job[made]>> \o Append(items, j)
          BY <1>2, <3>1, <3>3, <4>1
        <5> QED
          BY <3>1, <3>3, <5>1, <5>2, OneThenRest
      <4>2. CASE Runs # 1
        BY <1>2, <3>1, <3>3, <4>2, UnfinishedIs
      <4> QED
        BY <4>1, <4>2
    <3>5. Executor!Accept(j)
      BY <1>1, <3>1, <3>4 DEF Executor!Accept
    <3> QED
      BY <3>5 DEF Executor!Next
  <2>2. CASE ~SubmitSend(t)
    <3>1. UNCHANGED <<obj, items, made, wpc, job>>
      BY <1>11, <2>2 DEF Submit, SubmitCall, SubmitCount, SubmitRecheck, SubmitFull, SubmitGive,
                         GiveIdle, Withdraw, rtos, wvars
    <3> QED
      BY <1>3, <3>1 DEF Unfinished, Accepted
  <2> QED
    BY <2>1, <2>2
<1>12. ASSUME NEW w \in Workers, Work(w) PROVE [Executor!Next]_Executor!vars
  <2>1. obj' = obj /\ Serving' = Serving /\ made' = made
    BY <1>12 DEF Work, Receive, RunJob, WorkerGive, WorkerBye, WorkerForget, GiveIdle, rtos,
       Serving, Up
  <2>2. CASE ~Serving
    BY <1>4, <2>1, <2>2
  <2>3. CASE Serving /\ Receive(w)
    <3>1. /\ items # <<>> /\ w = made /\ items' = Tail(items) /\ wpc[w] = "Receive"
          /\ wpc' = [wpc EXCEPT ![w] = IF Head(items) = NoJob THEN "Bye" ELSE "Run"]
          /\ job' = [job EXCEPT ![w] = Head(items)]
      BY <2>3 DEF Receive, WorkerGoto
    <3>2. items \in Seq(Jobs) /\ Waiting = items /\ Waiting' = Tail(items)
      BY <2>1, <2>3, <3>1, UnfinishedIs DEF Waiting
    <3>3. Head(items) # NoJob
      BY <3>1, <3>2
    <3>4. Runs # 1 /\ Runs' = 1 /\ job'[made'] = Head(items)
      BY <2>1, <3>1, <3>3 DEF Runs
    <3>5. Unfinished = items
      BY <3>2, <3>4, UnfinishedIs
    <3>6. Unfinished' = <<Head(items)>> \o Tail(items)
      BY <1>2, <3>2, <3>4
    <3> QED
      BY <1>3, <2>1, <3>1, <3>2, <3>5, <3>6, HeadThenTail
  <2>4. CASE Serving /\ RunJob(w)
    <3>1. /\ wpc[w] = "Run" /\ items' = items
          /\ \E l \in {"Give", "Receive"} : wpc' = [wpc EXCEPT ![w] = l]
      BY <2>4 DEF RunJob, WorkerGoto, rtos
    <3>2. w = made /\ Runs = 1 /\ Runs' # 1
      BY <2>1, <3>1 DEF Runs, JobsInv, WorkInv
    <3>3. Waiting = items /\ Waiting' = items /\ items \in Seq(Jobs)
      BY <2>1, <2>4, <3>1, UnfinishedIs DEF Waiting
    <3>4. job[made] \in Jobs /\ Unfinished = <<job[made]>> \o items
      BY <3>2, <3>3, UnfinishedIs
    <3>5. Unfinished' = items
      BY <1>2, <3>2, <3>3
    <3>6. Unfinished # <<>> /\ Unfinished' = Tail(Unfinished)
      BY <3>3, <3>4, <3>5, OneThenRest
    <3>7. Executor!Finish
      BY <1>1, <2>1, <2>4, <3>6 DEF Executor!Finish
    <3> QED
      BY <3>7 DEF Executor!Next
  <2>5. CASE WorkerGive(w) \/ WorkerBye(w) \/ WorkerForget(w)
    <3>1. /\ UNCHANGED <<items, job>> /\ wpc[w] # "Run"
          /\ \E l \in WorkerPc \ {"Run"} : wpc' = [wpc EXCEPT ![w] = l]
      BY <2>5 DEF WorkerGive, WorkerBye, WorkerForget, WorkerGoto, GiveIdle, rtos, WorkerPc
    <3>2. made > 0 => (wpc'[made] = "Run" <=> wpc[made] = "Run")
      BY <3>1
    <3>3. Unfinished' = Unfinished
      BY <2>1, <3>1, <3>2 DEF Unfinished, Accepted
    <3> QED
      BY <1>3, <2>1, <3>3
  <2> QED
    BY <1>12, <2>2, <2>3, <2>4, <2>5 DEF Work
<1> QED
  BY <1>5, <1>6, <1>7, <1>8, <1>9, <1>10, <1>11, <1>12 DEF Next, Ui

(* The executor with its atomics, queue and semaphores implements what     *)
(* IApplicationJobs promises: accepted jobs run one at a time, each once,  *)
(* in order, and nothing is unfinished when the queue is deleted.          *)
THEOREM ImplementsExecutorHolds == ASSUME NoLateSubmitter PROVE Spec => ImplementsExecutor
  BY JobsInvariant, ExecutorInit, ExecutorStep, PTL DEF Spec, ImplementsExecutor, Executor!Spec

=============================================================================
