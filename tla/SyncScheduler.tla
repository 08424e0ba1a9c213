----------------------------- MODULE SyncScheduler -----------------------------
(***************************************************************************)
(* The database write scheduler of the mobile app:                         *)
(* apps/mobile/src/databases/sync/scheduler.ts, and the runner and the     *)
(* abort controllers that databases/sync/_task.ts puts around it.          *)
(*                                                                         *)
(* A caller submits a task, a list of row batches of one family and owner  *)
(* (its key).  The scheduler keeps the submitted tasks in a queue and runs *)
(* one at a time; while it runs, the task writes batch after batch and     *)
(* checks before each whether writing is paused and whether it was aborted.*)
(* A newer task of the same key aborts the older one and takes its place.  *)
(*                                                                         *)
(* JavaScript runs to completion, so a step of the model is one turn of    *)
(* the event loop: from one await, timer or call to the next.  What        *)
(* scheduler.ts keeps is the record "sched", so that the functions that    *)
(* one turn calls in a row are operators that compose; what _task.ts keeps *)
(* is in variables of its own.  A task waits in the queue with the status  *)
(* queued or paused (markQueuedHoldStates), and ends as success, error,    *)
(* aborted or merged; these are told apart only on screen, and are the     *)
(* statuses queued and ended here.                                         *)
(*                                                                         *)
(* _task.ts registers the controller of a task in two places, and takes it *)
(* out when the promise of the task has settled; an abort that comes still *)
(* later finds a task that has ended and does nothing.  So the registered  *)
(* controllers are those of the tasks whose promise is pending, and the    *)
(* controller of a key is that of its newest task.                         *)
(***************************************************************************)
EXTENDS Integers, FiniteSets

CONSTANTS
  Keys,            \* family and owner: what makeSyncTaskKey returns
  NoKey,           \* of a task not yet submitted
  Priority,        \* 100, 50 or 10 for each key (inferSyncTaskPriority)
  Replaces,        \* whether the callers of a key let it abort its elder
  Batches,         \* how many batches the rows of a key make
  Delays,          \* whether the runner of a key sleeps between batches
  Cleans,          \* whether a key has an afterBatches
  PauseReasons,    \* arguments of pauseSyncScheduler
  CriticalReasons, \* arguments of setSyncSchedulerCriticalMode
  MaxTasks,        \* bound: tasks ever submitted
  MaxHolds,        \* bound: pauses and critical modes ever begun
  MaxAborts        \* bound: calls of abortAllSyncTasks

ASSUME KeysAssumption ==
  /\ NoKey \notin Keys
  /\ Priority \in [Keys -> Nat]
  /\ Replaces \in [Keys -> BOOLEAN]
  /\ Batches \in [Keys -> Nat]
  /\ Delays \in [Keys -> BOOLEAN]
  /\ Cleans \in [Keys -> BOOLEAN]

ASSUME BoundsAssumption ==
  /\ MaxTasks \in Nat
  /\ MaxHolds \in Nat
  /\ MaxAborts \in Nat

Task == 1 .. MaxTasks

\* PRIORITY_VALUES.high: the one priority that a critical mode lets through.
High == 100

VARIABLES
  sched,        \* what scheduler.ts keeps
  written,      \* batches of each task that are in the database
  sweep,        \* tasks that a running abortAllSyncTasks has yet to abort
  holds,        \* pauses and critical modes begun so far
  aborts        \* calls of abortAllSyncTasks so far

vars == <<sched, written, sweep, holds, aborts>>

Status == {"none", "queued", "running", "paused", "ended"}

(***************************************************************************)
(* Where the runner of a task is.                                          *)
(*   idle      not started                                                 *)
(*   started   in activeTasks, its first turn not yet run                  *)
(*   waiting   registered in pauseWaiters                                  *)
(*   woken     its waiter was resolved, its next turn not yet run          *)
(*   clear     past waitIfPaused, its next turn not yet run                *)
(*   writing   executeBatch or upsert under way                            *)
(*   sleeping  between two batches                                         *)
(*   cleaning  afterBatches under way                                      *)
(*   returned  the promise of the runner was resolved                      *)
(*   threw     the promise of the runner was rejected                      *)
(*   finishing the task is completed, its finally not yet run              *)
(***************************************************************************)
Stage == {"idle", "started", "waiting", "woken", "clear", "writing",
          "sleeping", "cleaning", "returned", "threw", "finishing", "done"}

Sched == [key : [Task -> Keys \cup {NoKey}],
          seq : 0 .. MaxTasks,
          queue : SUBSET Task,
          active : SUBSET Task,
          status : [Task -> Status],
          run : [Task -> Stage],
          promise : [Task -> {"pending", "resolved", "rejected"}],
          aborted : SUBSET Task,
          pauses : SUBSET PauseReasons,
          criticals : SUBSET CriticalReasons]

\* The types, and the lists of the scheduler agree with the statuses: a task
\* that was cancelled is never put back to running by its own runner.
TypeOK ==
  /\ sched \in Sched
  /\ sched.queue = {t \in Task : sched.status[t] = "queued"}
  /\ sched.active = {t \in Task : sched.status[t] \in {"running", "paused"}}
  /\ written \in [Task -> Nat]
  /\ sweep \in SUBSET Task
  /\ holds \in 0 .. MaxHolds
  /\ aborts \in 0 .. MaxAborts

Init ==
  /\ sched = [key |-> [t \in Task |-> NoKey],
              seq |-> 0,
              queue |-> {},
              active |-> {},
              status |-> [t \in Task |-> "none"],
              run |-> [t \in Task |-> "idle"],
              promise |-> [t \in Task |-> "pending"],
              aborted |-> {},
              pauses |-> {},
              criticals |-> {}]
  /\ written = [t \in Task |-> 0]
  /\ sweep = {}
  /\ holds = 0
  /\ aborts = 0

--------------------------------------------------------------------------------
(***************************************************************************)
(* The functions of scheduler.ts, from one value of its state to the next. *)
(***************************************************************************)

\* getTaskHoldReason: a pause holds every task, a critical mode all but the
\* ones of high priority.
held(s, t) ==
  \/ s.pauses # {}
  \/ s.criticals # {} /\ Priority[s.key[t]] # High

\* Mutant: the newest of two tasks of the same priority goes first.
before_NewestFirst(s, t, u) ==
  \/ Priority[s.key[t]] > Priority[s.key[u]]
  \/ Priority[s.key[t]] = Priority[s.key[u]] /\ t > u

\* compareQueuedTask.  Ids grow with createdAt and the sort is stable.
before(s, t, u) ==
  \/ Priority[s.key[t]] > Priority[s.key[u]]
  \/ Priority[s.key[t]] = Priority[s.key[u]] /\ t < u

runnable(s) == {t \in s.queue : ~ held(s, t)}

\* findRunnableTaskIndex.
first(s, t) ==
  /\ t \in runnable(s)
  /\ \A u \in runnable(s) \ {t} : before(s, t, u)

start(s, t) ==
  [s EXCEPT !.queue = @ \ {t},
            !.active = @ \cup {t},
            !.status[t] = "running",
            !.run[t] = "started"]

\* pumpSyncScheduler.  MAX_CONCURRENT_SYNC_TASKS is 1, so that the loop
\* starts one task at most.
pump(s) ==
  IF s.active = {} /\ \E t \in Task : first(s, t)
    THEN start(s, CHOOSE t \in Task : first(s, t))
    ELSE s

\* completeTask takes the task off the active list, whoever calls it.
completeTask(s, t) ==
  [s EXCEPT !.active = @ \ {t}, !.status[t] = "ended"]

\* The first settlement of a promise is the one that counts.
settle(s, t, how) ==
  [s EXCEPT !.promise[t] = IF @ = "pending" THEN how ELSE @]

cancelQueuedTask(s, t) ==
  settle(completeTask([s EXCEPT !.queue = @ \ {t}], t), t, "rejected")

\* cancelQueuedDuplicates cancels every task of the key that is queued.
cancelQueuedDuplicates(s, k) ==
  LET dup == {t \in s.queue : s.key[t] = k}
  IN  [s EXCEPT
         !.queue = @ \ dup,
         !.active = @ \ dup,
         !.status = [t \in Task |-> IF t \in dup THEN "ended" ELSE @[t]],
         !.promise = [t \in Task |-> IF t \in dup /\ @[t] = "pending"
                                       THEN "rejected" ELSE @[t]]]

notifyPauseWaiters(s) ==
  [s EXCEPT !.run = [t \in Task |-> IF @[t] = "waiting" THEN "woken" ELSE @[t]]]

(***************************************************************************)
(* AbortController.abort, with the listeners of the signal: the one of     *)
(* submitSyncTask cancels a task whose status is queued or paused, and     *)
(* pumps; the one of waitForPauseResume, or of sleep, makes the await of   *)
(* the runner throw.  A task in the middle of a write hears of it later.   *)
(***************************************************************************)
heard(s, t) ==
  [s EXCEPT !.aborted = @ \cup {t},
            !.run[t] = IF @ \in {"waiting", "sleeping"} THEN "threw" ELSE @]

\* Mutant: the listener cancels a task whatever its status.
abort_CancelsRunning(s, t) ==
  IF t \in s.aborted \/ s.status[t] = "ended"
    THEN s
    ELSE pump(cancelQueuedTask(heard(s, t), t))

abort(s, t) ==
  CASE t \in s.aborted -> s
    [] t \notin s.aborted /\ s.status[t] \in {"queued", "paused"} ->
         pump(cancelQueuedTask(heard(s, t), t))
    [] OTHER -> heard(s, t)

\* Mutant: a runner that is let through calls its task running again.
waitIfPaused_Revives(s, t) ==
  CASE held(s, t) /\ t \in s.aborted -> [s EXCEPT !.run[t] = "threw"]
    [] held(s, t) /\ t \notin s.aborted ->
         [s EXCEPT !.status[t] = "paused", !.run[t] = "waiting"]
    [] OTHER -> [s EXCEPT !.status[t] = "running", !.run[t] = "clear"]

\* waitIfPaused, from the test of the hold reason to its next await or return.
waitIfPaused(s, t) ==
  CASE held(s, t) /\ t \in s.aborted -> [s EXCEPT !.run[t] = "threw"]
    [] held(s, t) /\ t \notin s.aborted ->
         [s EXCEPT !.status[t] = "paused", !.run[t] = "waiting"]
    [] OTHER ->
         [s EXCEPT !.status[t] = IF @ = "paused" THEN "running" ELSE @,
                   !.run[t] = "clear"]

\* Mutant: the loop ends one batch early.
proceed_ShortByOne(s, t, n) ==
  IF n + 1 < Batches[s.key[t]] \/ Cleans[s.key[t]]
    THEN waitIfPaused(s, t)
    ELSE [s EXCEPT !.run[t] = "returned"]

\* The head of the runner's loop after n batches: to the next batch, to
\* afterBatches, or to the end.
proceed(s, t, n) ==
  IF n < Batches[s.key[t]] \/ Cleans[s.key[t]]
    THEN waitIfPaused(s, t)
    ELSE [s EXCEPT !.run[t] = "returned"]

--------------------------------------------------------------------------------
(***************************************************************************)
(* Calls from the rest of the app.  None comes in while abortAllSyncTasks  *)
(* goes through its controllers: "sweep" is one turn, cut into steps.      *)
(***************************************************************************)

\* submitSyncTask: queue a task with the next id, then pump.
submitSyncTask(s, k) ==
  LET t == s.seq + 1
  IN  pump([s EXCEPT !.seq = t,
                     !.key[t] = k,
                     !.status[t] = "queued",
                     !.queue = @ \cup {t}])

\* syncAbortControllers[k] is the controller of t.
newest(s, k, t) ==
  /\ s.key[t] = k
  /\ s.promise[t] = "pending"
  /\ \A u \in Task : s.key[u] = k => u <= t

\* A submission that replaces aborts the newest task of its key and cancels
\* the queued ones; one with noNeedAbort does neither.
replaceOlder(s, k) ==
  IF Replaces[k]
    THEN cancelQueuedDuplicates(
           IF \E t \in Task : newest(s, k, t)
             THEN abort(s, CHOOSE t \in Task : newest(s, k, t)) ELSE s, k)
    ELSE s

\* batchSaveWithPQueueAndTransaction, up to its first await.
BatchSave(k) ==
  /\ sweep = {}
  /\ sched.seq < MaxTasks
  /\ sched' = submitSyncTask(replaceOlder(sched, k), k)
  /\ UNCHANGED <<written, sweep, holds, aborts>>

Pause(r) ==
  /\ sweep = {}
  /\ r \notin sched.pauses
  /\ holds < MaxHolds
  /\ sched' = [sched EXCEPT !.pauses = @ \cup {r}]
  /\ holds' = holds + 1
  /\ UNCHANGED <<written, sweep, aborts>>

Resume(r) ==
  /\ sweep = {}
  /\ r \in sched.pauses
  /\ sched' = pump(notifyPauseWaiters([sched EXCEPT !.pauses = @ \ {r}]))
  /\ UNCHANGED <<written, sweep, holds, aborts>>

CriticalStart(r) ==
  /\ sweep = {}
  /\ r \notin sched.criticals
  /\ holds < MaxHolds
  /\ sched' = pump(notifyPauseWaiters([sched EXCEPT !.criticals = @ \cup {r}]))
  /\ holds' = holds + 1
  /\ UNCHANGED <<written, sweep, aborts>>

CriticalEnd(r) ==
  /\ sweep = {}
  /\ r \in sched.criticals
  /\ sched' = pump(notifyPauseWaiters([sched EXCEPT !.criticals = @ \ {r}]))
  /\ UNCHANGED <<written, sweep, holds, aborts>>

\* abortAllSyncTasks, before its loop over the registered controllers.
AbortAll ==
  /\ sweep = {}
  /\ aborts < MaxAborts
  /\ \E t \in 1 .. sched.seq : sched.promise[t] = "pending"
  /\ sweep' = {t \in 1 .. sched.seq : sched.promise[t] = "pending"}
  /\ aborts' = aborts + 1
  /\ UNCHANGED <<sched, written, holds>>

\* One turn of that loop, oldest first.  The controllers of the keys, which it
\* goes through next, are all among these.
AbortNext(t) ==
  /\ t \in sweep
  /\ \A u \in sweep : t <= u
  /\ sched' = abort(sched, t)
  /\ sweep' = sweep \ {t}
  /\ UNCHANGED <<written, holds, aborts>>

--------------------------------------------------------------------------------
(***************************************************************************)
(* The turns of a runner, and of the promise chain that the pump hangs on  *)
(* it.                                                                     *)
(***************************************************************************)

RunnerStarts(t) ==
  /\ sweep = {}
  /\ sched.run[t] = "started"
  /\ sched' = IF t \in sched.aborted
                THEN [sched EXCEPT !.run[t] = "threw"]
                ELSE proceed(sched, t, written[t])
  /\ UNCHANGED <<written, sweep, holds, aborts>>

\* A waiter was resolved, or a delay is over: test the hold reason again.
RunnerWakes(t) ==
  /\ sweep = {}
  /\ sched.run[t] \in {"woken", "sleeping"}
  /\ sched' = waitIfPaused(sched, t)
  /\ UNCHANGED <<written, sweep, holds, aborts>>

\* Mutant: no ensureNotAborted after waitIfPaused.
WriteStarts_Unchecked(t) ==
  /\ sweep = {}
  /\ sched.run[t] = "clear"
  /\ sched' = [sched EXCEPT
                 !.run[t] = IF written[t] < Batches[sched.key[t]]
                              THEN "writing" ELSE "cleaning"]
  /\ UNCHANGED <<written, sweep, holds, aborts>>

\* ensureNotAborted after waitIfPaused, then the write that comes next.
WriteStarts(t) ==
  /\ sweep = {}
  /\ sched.run[t] = "clear"
  /\ sched' = [sched EXCEPT
                 !.run[t] = IF t \in sched.aborted THEN "threw"
                            ELSE IF written[t] < Batches[sched.key[t]]
                            THEN "writing"
                            ELSE "cleaning"]
  /\ UNCHANGED <<written, sweep, holds, aborts>>

BatchWritten(t) ==
  /\ sweep = {}
  /\ sched.run[t] = "writing"
  /\ written' = [written EXCEPT ![t] = @ + 1]
  /\ sched' = IF written[t] + 1 < Batches[sched.key[t]] /\ Delays[sched.key[t]]
                THEN [sched EXCEPT !.run[t] = "sleeping"]
                ELSE proceed(sched, t, written[t] + 1)
  /\ UNCHANGED <<sweep, holds, aborts>>

Cleaned(t) ==
  /\ sweep = {}
  /\ sched.run[t] = "cleaning"
  /\ sched' = [sched EXCEPT !.run[t] = "returned"]
  /\ UNCHANGED <<written, sweep, holds, aborts>>

WriteFails(t) ==
  /\ sweep = {}
  /\ sched.run[t] \in {"writing", "cleaning"}
  /\ sched' = [sched EXCEPT !.run[t] = "threw"]
  /\ UNCHANGED <<written, sweep, holds, aborts>>

\* The then and the catch of pumpSyncScheduler.
Succeeds(t) ==
  /\ sweep = {}
  /\ sched.run[t] = "returned"
  /\ sched' = [settle(completeTask(sched, t), t, "resolved")
                 EXCEPT !.run[t] = "finishing"]
  /\ UNCHANGED <<written, sweep, holds, aborts>>

Throws(t) ==
  /\ sweep = {}
  /\ sched.run[t] = "threw"
  /\ sched' = [settle(completeTask(sched, t), t, "rejected")
                 EXCEPT !.run[t] = "finishing"]
  /\ UNCHANGED <<written, sweep, holds, aborts>>

\* Mutant: the finally does not pump.
Finishes_NoPump(t) ==
  /\ sweep = {}
  /\ sched.run[t] = "finishing"
  /\ sched' = notifyPauseWaiters([sched EXCEPT !.run[t] = "done"])
  /\ UNCHANGED <<written, sweep, holds, aborts>>

\* The finally of pumpSyncScheduler: the next task starts.
Finishes(t) ==
  /\ sweep = {}
  /\ sched.run[t] = "finishing"
  /\ sched' = pump(notifyPauseWaiters([sched EXCEPT !.run[t] = "done"]))
  /\ UNCHANGED <<written, sweep, holds, aborts>>

Turn(t) ==
  \/ RunnerStarts(t)
  \/ RunnerWakes(t)
  \/ WriteStarts(t)
  \/ BatchWritten(t)
  \/ Cleaned(t)
  \/ WriteFails(t)
  \/ Succeeds(t)
  \/ Throws(t)
  \/ Finishes(t)

Next ==
  \/ \E k \in Keys : BatchSave(k)
  \/ \E r \in PauseReasons : Pause(r) \/ Resume(r)
  \/ \E r \in CriticalReasons : CriticalStart(r) \/ CriticalEnd(r)
  \/ AbortAll
  \/ \E t \in Task : AbortNext(t) \/ Turn(t)

Spec == Init /\ [][Next]_vars

(***************************************************************************)
(* Promise reactions and timers run, the native module answers, and a      *)
(* caller that begins a pause or a critical mode ends it: Unlock.tsx does  *)
(* so in the finally of the unlock, MultiAddressHome.tsx when the home is  *)
(* ready or a fallback timer fires.  Nothing makes a caller submit, pause  *)
(* or abort.                                                               *)
(***************************************************************************)
Fairness ==
  /\ \A t \in Task : WF_vars(AbortNext(t)) /\ WF_vars(Turn(t))
  /\ \A r \in PauseReasons : WF_vars(Resume(r))
  /\ \A r \in CriticalReasons : WF_vars(CriticalEnd(r))

FairSpec == Spec /\ Fairness

--------------------------------------------------------------------------------
(***************************************************************************)
(* Properties.                                                             *)
(***************************************************************************)

Writing == {"writing", "cleaning"}

\* Two tasks never write at once, although a task that is aborted while it is
\* paused gives up its slot (abortListener) before its runner has stopped.
OneWriter ==
  \A t, u \in Task :
    sched.run[t] \in Writing /\ sched.run[u] \in Writing => t = u

\* The rows of a key are written in the order they were submitted: while an
\* older task writes, no newer one of the same key has written anything, so
\* a late batch of an old refresh never covers the rows of a new one.
OlderNeverOverwrites ==
  \A t, u \in Task :
    t < u /\ sched.key[t] = sched.key[u] /\ sched.run[t] \in Writing
      => sched.run[u] \notin Writing /\ written[u] = 0

\* A replaceable family never has two tasks in the queue, however fast its
\* callers refresh.
QueuedOnce ==
  \A t, u \in sched.queue :
    sched.key[t] = sched.key[u] /\ Replaces[sched.key[t]] => t = u

\* A promise that resolves had all its batches written: a task that was merged
\* or aborted never reports success to its caller.
ResolvedMeansWritten ==
  \A t \in Task :
    sched.promise[t] = "resolved" => written[t] = Batches[sched.key[t]]

\* The scheduler keeps the promises of WriteQueue, on which those who submit
\* rely: an aborted task (by a newer one of its key, or by a reset of the
\* database) starts no further write, tasks of a key write one after the other
\* in the order of their submission, and a promise tells what was written.
Queue == INSTANCE WriteQueue WITH
  submitted <- sched.seq, keyOf <- sched.key, promise <- sched.promise,
  writing <- {t \in Task : sched.run[t] \in Writing},
  stopped <- sched.aborted,
  broken <- {t \in Task : sched.run[t] = "threw" /\ t \notin sched.aborted}

ImplementsQueue == Queue!Spec

\* Every submitted task settles in the end, whatever is paused, aborted,
\* merged or failing on the way.
EverySubmissionSettles ==
  \A t \in Task : sched.status[t] = "queued" ~> sched.promise[t] # "pending"

================================================================================
