------------------------- MODULE SyncScheduler_proofs --------------------------
(***************************************************************************)
(* Proofs about the database write scheduler.                              *)
(*                                                                         *)
(* A turn is a composition of the functions of scheduler.ts, so the        *)
(* inductive invariant is a predicate Good on a value s of the scheduler's *)
(* state and a count w of the batches written.  Each function is shown to  *)
(* keep it, once, and each action then follows from the functions that it  *)
(* calls.                                                                  *)
(***************************************************************************)
EXTENDS SyncScheduler, TLAPS

Lists(s) ==
  /\ s.queue = {t \in Task : s.status[t] = "queued"}
  /\ s.active = {t \in Task : s.status[t] \in {"running", "paused"}}

\* The slot: at most one task is active.
OneActive(s) == \A t, u \in s.active : t = u

\* A task that has not been submitted, or is still queued, has no runner.
Fresh(s) ==
  \A t \in Task :
    /\ t <= s.seq => s.key[t] \in Keys /\ s.status[t] # "none"
    /\ t > s.seq => s.key[t] = NoKey /\ s.status[t] = "none"
    /\ s.status[t] \in {"none", "queued"} => s.run[t] = "idle"

\* A runner that may still write owns the slot.  The one exception is a task
\* that was cancelled while it was paused: it is aborted, and will find out.
Slots(s) ==
  \A t \in Task :
    /\ s.run[t] \in {"started", "writing", "sleeping", "cleaning", "returned"}
         => s.status[t] = "running"
    /\ s.run[t] = "clear" /\ t \notin s.aborted => s.status[t] = "running"
    /\ s.run[t] \in {"waiting", "woken"} /\ t \notin s.aborted
         => s.status[t] = "paused"

\* A task that runs comes after every older one of its key has ended.
Order(s) ==
  \A t, u \in Task :
    t < u /\ s.key[t] = s.key[u] /\ s.key[u] \in Keys /\ s.run[u] # "idle"
      => s.status[t] = "ended"

\* The count of the batches agrees with where the runner is.
Counted(s, w) ==
  \A t \in Task :
    /\ s.run[t] = "idle" => w[t] = 0
    /\ s.key[t] \in Keys => w[t] <= Batches[s.key[t]]
    /\ s.run[t] = "writing" => w[t] # Batches[s.key[t]]
    /\ s.run[t] \in {"cleaning", "returned"} => w[t] = Batches[s.key[t]]
    /\ s.promise[t] = "resolved"
         => s.run[t] # "idle" /\ w[t] = Batches[s.key[t]]

\* QueuedOnce, of a state of the scheduler.
Once(s) ==
  \A t, u \in s.queue : s.key[t] = s.key[u] /\ Replaces[s.key[t]] => t = u

Good(s, w) ==
  /\ s \in Sched
  /\ w \in [Task -> Nat]
  /\ Lists(s)
  /\ OneActive(s)
  /\ Fresh(s)
  /\ Slots(s)
  /\ Order(s)
  /\ Counted(s, w)
  /\ Once(s)

--------------------------------------------------------------------------------
(***************************************************************************)
(* The functions of scheduler.ts.                                          *)
(***************************************************************************)

\* Starting the task that pumpSyncScheduler chose.
LEMMA StartGood ==
  ASSUME NEW s, NEW w, Good(s, w), s.active = {},
         NEW t \in Task, first(s, t)
  PROVE  Good(start(s, t), w)
<1> DEFINE n == start(s, t)
<1>1. s \in Sched /\ w \in [Task -> Nat] /\ Lists(s) /\ OneActive(s) /\ Fresh(s)
        /\ Slots(s) /\ Order(s) /\ Counted(s, w) /\ Once(s)
  BY DEF Good
<1>2. /\ t \in s.queue /\ ~ held(s, t)
      /\ \A u \in s.queue : u # t /\ ~ held(s, u) => before(s, t, u)
  BY DEF first, runnable
<1>3. s.status[t] = "queued" /\ s.run[t] = "idle"
  BY <1>1, <1>2 DEF Lists, Fresh
<1>4. n \in Sched
  BY <1>1 DEF start, Sched, Status, Stage
<1>5. /\ n.key = s.key /\ n.seq = s.seq /\ n.aborted = s.aborted
      /\ n.promise = s.promise
      /\ n.queue = s.queue \ {t} /\ n.active = {t}
      /\ n.status = [s.status EXCEPT ![t] = "running"]
      /\ n.run = [s.run EXCEPT ![t] = "started"]
  BY <1>1 DEF start, Sched
<1>6. /\ s.status \in [Task -> Status] /\ s.run \in [Task -> Stage]
      /\ s.key \in [Task -> Keys \cup {NoKey}] /\ s.seq \in Nat
  BY <1>1 DEF Sched
<1>7. /\ n.status[t] = "running" /\ n.run[t] = "started"
      /\ \A u \in Task \ {t} : n.status[u] = s.status[u] /\ n.run[u] = s.run[u]
  BY <1>5, <1>6
<1> HIDE DEF n
<1>8. Lists(n)
  BY <1>1, <1>5, <1>7 DEF Lists
<1>9. OneActive(n)
  BY <1>5 DEF OneActive
<1>10. Fresh(n)
  BY <1>1, <1>3, <1>5, <1>7 DEF Fresh
<1>11. Slots(n)
  BY <1>1, <1>5, <1>7 DEF Slots
<1>12. Order(n)
  <2> SUFFICES ASSUME NEW x \in Task, NEW u \in Task, x < u,
                      n.key[x] = n.key[u], n.key[u] \in Keys,
                      n.run[u] # "idle"
               PROVE  n.status[x] = "ended"
    BY DEF Order
  <2>1. CASE u # t
    <3>1. s.status[x] = "ended"
      BY <1>1, <1>5, <1>7, <2>1 DEF Order
    <3> QED
      BY <1>3, <1>7, <3>1
  <2>2. CASE u = t
    <3>1. x # t /\ x \in Int /\ t \in Int
      BY <2>2 DEF Task
    <3>2. x \notin s.queue
      <4>1. SUFFICES ASSUME x \in s.queue PROVE FALSE
        OBVIOUS
      <4>2. ~ held(s, x)
        BY <1>2, <1>5, <2>2 DEF held
      <4>3. before(s, t, x)
        BY <1>2, <4>1, <4>2, <3>1
      <4>4. Priority[s.key[t]] \in Nat /\ s.key[x] = s.key[t]
        BY <1>5, <2>2, KeysAssumption
      <4> QED
        BY <4>3, <4>4, <3>1, <2>2 DEF before
    <3>3. s.status[x] \notin {"queued", "running", "paused"}
      BY <1>1, <3>2 DEF Lists
    <3>4. x <= s.seq
      <4>1. s.key[x] \in Keys /\ s.key[x] # NoKey
        BY <1>5, KeysAssumption
      <4>2. ~ (x > s.seq)
        BY <1>1, <4>1 DEF Fresh
      <4> QED
        BY <1>6, <4>2 DEF Task
    <3>5. s.status[x] # "none" /\ s.status[x] \in Status
      BY <1>1, <1>6, <3>4 DEF Fresh
    <3> QED
      BY <1>7, <3>1, <3>3, <3>5 DEF Status
  <2> QED
    BY <2>1, <2>2
<1>13. Counted(n, w)
  BY <1>1, <1>3, <1>5, <1>7 DEF Counted
<1>14. Once(n)
  BY <1>1, <1>5 DEF Once
<1> QED
  BY <1>1, <1>4, <1>8, <1>9, <1>10, <1>11, <1>12, <1>13, <1>14 DEF Good, n

\* pumpSyncScheduler keeps the invariant.
LEMMA PumpGood ==
  ASSUME NEW s, NEW w, Good(s, w)
  PROVE  Good(pump(s), w)
<1>1. CASE s.active = {} /\ \E t \in Task : first(s, t)
  <2> DEFINE c == CHOOSE t \in Task : first(s, t)
  <2>1. c \in Task /\ first(s, c)
    BY <1>1
  <2>2. pump(s) = start(s, c)
    BY <1>1 DEF pump
  <2> HIDE DEF c
  <2> QED
    BY <1>1, <2>1, <2>2, StartGood
<1>2. CASE ~ (s.active = {} /\ \E t \in Task : first(s, t))
  BY <1>2 DEF pump
<1> QED
  BY <1>1, <1>2

\* Ending tasks that have no runner, or whose runner is aborted or has settled.
LEMMA EndGood ==
  ASSUME NEW s, NEW w, Good(s, w), NEW n \in Sched, NEW D \in SUBSET Task,
         \A t \in D : \/ s.status[t] = "queued"
                      \/ t \in s.aborted /\ s.status[t] = "paused",
         n.key = s.key, n.seq = s.seq, n.run = s.run, n.aborted = s.aborted,
         n.queue = s.queue \ D, n.active = s.active \ D,
         n.status = [t \in Task |-> IF t \in D THEN "ended" ELSE s.status[t]],
         \A t \in Task : n.promise[t] = "resolved" => s.promise[t] = "resolved"
  PROVE  Good(n, w)
<1>1. s \in Sched /\ w \in [Task -> Nat] /\ Lists(s) /\ OneActive(s) /\ Fresh(s)
        /\ Slots(s) /\ Order(s) /\ Counted(s, w) /\ Once(s)
  BY DEF Good
<1>2. \A t \in Task : n.status[t] = IF t \in D THEN "ended" ELSE s.status[t]
  OBVIOUS
<1>3. Lists(n)
  BY <1>1, <1>2 DEF Lists
<1>4. OneActive(n)
  BY <1>1 DEF OneActive
<1>5. Fresh(n)
  BY <1>1, <1>2 DEF Fresh
<1>6. Slots(n)
  BY <1>1, <1>2 DEF Slots, Fresh
<1>7. Order(n)
  BY <1>1, <1>2 DEF Order
<1>8. Counted(n, w)
  BY <1>1 DEF Counted
<1>9. Once(n)
  BY <1>1 DEF Once
<1> QED
  BY <1>1, <1>3, <1>4, <1>5, <1>6, <1>7, <1>8, <1>9 DEF Good

\* cancelQueuedTask, called on a queued task or on an aborted one that is paused.
LEMMA CancelGood ==
  ASSUME NEW s, NEW w, Good(s, w), NEW t \in Task,
         \/ s.status[t] = "queued"
         \/ t \in s.aborted /\ s.status[t] = "paused"
  PROVE  Good(cancelQueuedTask(s, t), w)
<1> DEFINE n == cancelQueuedTask(s, t)
<1>1. s \in Sched
  BY DEF Good
<1>2. n \in Sched
  BY <1>1 DEF cancelQueuedTask, settle, completeTask, Sched, Status
<1>3. /\ n.key = s.key /\ n.seq = s.seq /\ n.run = s.run
      /\ n.aborted = s.aborted
      /\ n.queue = s.queue \ {t} /\ n.active = s.active \ {t}
      /\ n.status = [s.status EXCEPT ![t] = "ended"]
      /\ n.promise = [s.promise EXCEPT ![t] = IF @ = "pending"
                                                THEN "rejected" ELSE @]
  BY <1>1 DEF cancelQueuedTask, settle, completeTask, Sched
<1> HIDE DEF n
<1>4. s.status \in [Task -> Status] /\ s.promise
        \in [Task -> {"pending", "resolved", "rejected"}]
  BY <1>1 DEF Sched
<1>5. n.status = [u \in Task |-> IF u \in {t} THEN "ended" ELSE s.status[u]]
  BY <1>3, <1>4
<1>6. \A u \in Task : n.promise[u] = "resolved" => s.promise[u] = "resolved"
  <2>1. \A u \in Task : n.promise[u] = s.promise[u] \/ n.promise[u] = "rejected"
    BY <1>3, <1>4
  <2> QED
    BY <2>1
<1>7. {t} \in SUBSET Task
  OBVIOUS
<1>8. \A u \in {t} : \/ s.status[u] = "queued"
                     \/ (u \in s.aborted /\ s.status[u] = "paused")
  OBVIOUS
<1>9. Good(n, w)
  <2> DEFINE D == {t}
  <2>1. D \in SUBSET Task
    BY <1>7
  <2>2. \A u \in D : \/ s.status[u] = "queued"
                     \/ (u \in s.aborted /\ s.status[u] = "paused")
    BY <1>8
  <2>3. /\ n.queue = s.queue \ D /\ n.active = s.active \ D
        /\ n.status = [u \in Task |-> IF u \in D THEN "ended" ELSE s.status[u]]
    BY <1>3, <1>5
  <2> HIDE DEF D
  <2> QED
    BY <1>2, <1>3, <1>6, <2>1, <2>2, <2>3, EndGood
<1> QED
  BY <1>9 DEF n

\* cancelQueuedDuplicates keeps the invariant and leaves no queued task of k.
LEMMA DuplicatesGood ==
  ASSUME NEW s, NEW w, Good(s, w), NEW k \in Keys
  PROVE  /\ Good(cancelQueuedDuplicates(s, k), w)
         /\ cancelQueuedDuplicates(s, k).seq = s.seq
         /\ \A t \in cancelQueuedDuplicates(s, k).queue :
              cancelQueuedDuplicates(s, k).key[t] # k
<1> DEFINE n == cancelQueuedDuplicates(s, k)
           D == {t \in s.queue : s.key[t] = k}
<1>1. s \in Sched /\ Lists(s)
  BY DEF Good
<1>2. D \in SUBSET Task /\ \A t \in D : s.status[t] = "queued"
  BY <1>1 DEF Lists
<1>3. n \in Sched
  BY <1>1, <1>2 DEF cancelQueuedDuplicates, Sched, Status
<1>4. /\ n.key = s.key /\ n.seq = s.seq /\ n.run = s.run
      /\ n.aborted = s.aborted
      /\ n.queue = s.queue \ D /\ n.active = s.active \ D
      /\ n.status = [u \in Task |-> IF u \in D THEN "ended" ELSE s.status[u]]
      /\ n.promise = [u \in Task |-> IF u \in D /\ s.promise[u] = "pending"
                                       THEN "rejected" ELSE s.promise[u]]
  BY <1>1 DEF cancelQueuedDuplicates, Sched
<1> HIDE DEF n
<1>5. \A u \in Task : n.promise[u] = "resolved" => s.promise[u] = "resolved"
  BY <1>4
<1>6. Good(n, w)
  BY <1>2, <1>3, <1>4, <1>5, EndGood
<1>7. \A t \in n.queue : n.key[t] # k
  BY <1>4
<1> QED
  BY <1>4, <1>6, <1>7 DEF n

\* notifyPauseWaiters.
LEMMA NotifyGood ==
  ASSUME NEW s, NEW w, Good(s, w)
  PROVE  Good(notifyPauseWaiters(s), w)
<1> DEFINE n == notifyPauseWaiters(s)
<1>1. s \in Sched /\ w \in [Task -> Nat] /\ Lists(s) /\ OneActive(s) /\ Fresh(s)
        /\ Slots(s) /\ Order(s) /\ Counted(s, w) /\ Once(s)
  BY DEF Good
<1>2. n \in Sched
  BY <1>1 DEF notifyPauseWaiters, Sched, Stage
<1>3. /\ n.key = s.key /\ n.seq = s.seq /\ n.status = s.status
      /\ n.aborted = s.aborted /\ n.queue = s.queue /\ n.active = s.active
      /\ n.promise = s.promise
      /\ n.run = [t \in Task |-> IF s.run[t] = "waiting" THEN "woken"
                                                         ELSE s.run[t]]
  BY <1>1 DEF notifyPauseWaiters, Sched
<1> HIDE DEF n
<1>4. \A t \in Task : n.run[t] = IF s.run[t] = "waiting" THEN "woken"
                                                         ELSE s.run[t]
  BY <1>3
<1>5. Lists(n) /\ OneActive(n) /\ Once(n)
  BY <1>1, <1>3 DEF Lists, OneActive, Once
<1>6. Fresh(n)
  BY <1>1, <1>3, <1>4 DEF Fresh
<1>7. Slots(n)
  BY <1>1, <1>3, <1>4 DEF Slots
<1>8. Order(n)
  BY <1>1, <1>3, <1>4 DEF Order
<1>9. Counted(n, w)
  BY <1>1, <1>3, <1>4 DEF Counted
<1>10. Good(n, w)
  BY <1>1, <1>2, <1>5, <1>6, <1>7, <1>8, <1>9 DEF Good
<1> QED
  BY <1>10 DEF n

\* The signal of a task: its runner's await throws.
LEMMA HeardGood ==
  ASSUME NEW s, NEW w, Good(s, w), NEW t \in Task
  PROVE  /\ Good(heard(s, t), w)
         /\ heard(s, t).status = s.status
         /\ heard(s, t).seq = s.seq
         /\ t \in heard(s, t).aborted
<1> DEFINE n == heard(s, t)
<1>1. s \in Sched /\ w \in [Task -> Nat] /\ Lists(s) /\ OneActive(s) /\ Fresh(s)
        /\ Slots(s) /\ Order(s) /\ Counted(s, w) /\ Once(s)
  BY DEF Good
<1>2. n \in Sched
  BY <1>1 DEF heard, Sched, Stage
<1>3. /\ n.key = s.key /\ n.seq = s.seq /\ n.status = s.status
      /\ n.aborted = s.aborted \cup {t} /\ n.queue = s.queue
      /\ n.active = s.active /\ n.promise = s.promise
      /\ n.run = [s.run EXCEPT ![t] = IF @ \in {"waiting", "sleeping"}
                                        THEN "threw" ELSE @]
  BY <1>1 DEF heard, Sched
<1> HIDE DEF n
<1>4. s.run \in [Task -> Stage]
  BY <1>1 DEF Sched
<1>5. \A u \in Task : \/ n.run[u] = s.run[u]
                      \/ /\ n.run[u] = "threw"
                         /\ s.run[u] \in {"waiting", "sleeping"}
  BY <1>3, <1>4
<1>6. Lists(n) /\ OneActive(n) /\ Once(n)
  BY <1>1, <1>3 DEF Lists, OneActive, Once
<1>7. Fresh(n)
  BY <1>1, <1>3, <1>5 DEF Fresh
<1>8. Slots(n)
  BY <1>1, <1>3, <1>5 DEF Slots
<1>9. Order(n)
  BY <1>1, <1>3, <1>5 DEF Order
<1>10. Counted(n, w)
  BY <1>1, <1>3, <1>5 DEF Counted
<1>11. Good(n, w)
  BY <1>1, <1>2, <1>6, <1>7, <1>8, <1>9, <1>10 DEF Good
<1> QED
  BY <1>3, <1>11 DEF n

\* pumpSyncScheduler takes no new id.
LEMMA PumpSeq ==
  ASSUME NEW s, NEW w, Good(s, w)
  PROVE  pump(s).seq = s.seq
  BY DEF pump, start, Good, Sched

\* AbortController.abort, with its listeners.
LEMMA AbortGood ==
  ASSUME NEW s, NEW w, Good(s, w), NEW t \in Task
  PROVE  Good(abort(s, t), w) /\ abort(s, t).seq = s.seq
<1>1. CASE t \in s.aborted
  BY <1>1 DEF abort
<1>2. CASE t \notin s.aborted /\ s.status[t] \in {"queued", "paused"}
  <2> DEFINE h == heard(s, t)
             c == cancelQueuedTask(h, t)
  <2>1. Good(h, w) /\ h.status = s.status /\ h.seq = s.seq /\ t \in h.aborted
    BY HeardGood
  <2>2. abort(s, t) = pump(c)
    BY <1>2 DEF abort
  <2>3. c.seq = h.seq
    BY <2>1 DEF cancelQueuedTask, settle, completeTask, Good, Sched
  <2> HIDE DEF h
  <2>4. Good(c, w)
    BY <1>2, <2>1, CancelGood
  <2> HIDE DEF c
  <2> QED
    BY <2>1, <2>2, <2>3, <2>4, PumpGood, PumpSeq
<1>3. CASE t \notin s.aborted /\ s.status[t] \notin {"queued", "paused"}
  <2>1. abort(s, t) = heard(s, t)
    BY <1>3 DEF abort
  <2> QED
    BY <2>1, HeardGood
<1> QED
  BY <1>1, <1>2, <1>3

\* A task whose runner has begun was submitted, and is neither queued nor new.
LEMMA Begun ==
  ASSUME NEW s, NEW w, Good(s, w), NEW t \in Task, s.run[t] # "idle"
  PROVE  /\ s.key[t] \in Keys
         /\ Batches[s.key[t]] \in Nat
         /\ s.status[t] \in {"running", "paused", "ended"}
         /\ t \notin s.queue
<1>1. s \in Sched /\ Fresh(s) /\ Lists(s)
  BY DEF Good
<1>2. s.status[t] \notin {"none", "queued"}
  BY <1>1 DEF Fresh
<1>3. s.status[t] \in Status /\ s.seq \in Nat /\ t \in Int
  BY <1>1, BoundsAssumption DEF Sched, Task
<1>4. s.key[t] \in Keys
  BY <1>1, <1>2, <1>3 DEF Fresh
<1> QED
  BY <1>1, <1>2, <1>3, <1>4, KeysAssumption DEF Status, Lists

\* waitIfPaused, after the count of the batches of t went from w to v.
LEMMA WaitGood ==
  ASSUME NEW s, NEW w, Good(s, w), NEW t \in Task,
         s.run[t] \in {"started", "woken", "sleeping", "writing"},
         NEW v \in [Task -> Nat], \A u \in Task : u # t => v[u] = w[u],
         v[t] <= Batches[s.key[t]],
         s.promise[t] = "resolved" => v[t] = Batches[s.key[t]]
  PROVE  Good(waitIfPaused(s, t), v)
<1> DEFINE n == waitIfPaused(s, t)
<1>1. s \in Sched /\ w \in [Task -> Nat] /\ Lists(s) /\ OneActive(s) /\ Fresh(s)
        /\ Slots(s) /\ Order(s) /\ Counted(s, w) /\ Once(s)
  BY DEF Good
<1>2. n \in Sched
  BY <1>1 DEF waitIfPaused, Sched, Stage, Status
<1>3. /\ n.key = s.key /\ n.seq = s.seq /\ n.aborted = s.aborted
      /\ n.queue = s.queue /\ n.active = s.active /\ n.promise = s.promise
  BY <1>1 DEF waitIfPaused, Sched
<1>4. s.run \in [Task -> Stage] /\ s.status \in [Task -> Status]
  BY <1>1 DEF Sched
<1>5. s.status[t] \in {"running", "paused", "ended"} /\ s.run[t] # "idle"
  BY Begun
<1>6. t \notin s.aborted => s.status[t] \in {"running", "paused"}
  BY <1>1 DEF Slots
<1>7. \A u \in Task : u # t => n.run[u] = s.run[u] /\ n.status[u] = s.status[u]
  BY <1>1, <1>4 DEF waitIfPaused, Sched
<1>8. \/ n.run[t] = "threw" /\ n.status[t] = s.status[t]
      \/ n.run[t] = "waiting" /\ n.status[t] = "paused" /\ t \notin s.aborted
      \/ /\ n.run[t] = "clear"
         /\ n.status[t] = IF s.status[t] = "paused" THEN "running"
                                                    ELSE s.status[t]
  <2>1. CASE held(s, t) /\ t \in s.aborted
    <3>1. n = [s EXCEPT !.run[t] = "threw"]
      BY <2>1 DEF waitIfPaused
    <3> HIDE DEF n
    <3> QED
      BY <1>1, <1>4, <3>1 DEF Sched
  <2>2. CASE held(s, t) /\ t \notin s.aborted
    <3>1. n = [s EXCEPT !.status[t] = "paused", !.run[t] = "waiting"]
      BY <2>2 DEF waitIfPaused
    <3> HIDE DEF n
    <3> QED
      BY <1>1, <1>4, <2>2, <3>1 DEF Sched
  <2>3. CASE ~ held(s, t)
    <3>1. n = [s EXCEPT !.status[t] = IF @ = "paused" THEN "running" ELSE @,
                        !.run[t] = "clear"]
      BY <2>3 DEF waitIfPaused
    <3> HIDE DEF n
    <3> QED
      BY <1>1, <1>4, <3>1 DEF Sched
  <2> QED
    BY <2>1, <2>2, <2>3
<1> HIDE DEF n
<1>9. n.status[t] = s.status[t]
        \/ {n.status[t], s.status[t]} \subseteq {"running", "paused"}
  BY <1>5, <1>6, <1>8
<1>10. Lists(n)
  BY <1>1, <1>3, <1>7, <1>9 DEF Lists
<1>11. OneActive(n) /\ Once(n)
  BY <1>1, <1>3 DEF OneActive, Once
<1>12. Fresh(n)
  BY <1>1, <1>3, <1>5, <1>7, <1>8, <1>9 DEF Fresh
<1>13. Slots(n)
  BY <1>1, <1>3, <1>5, <1>6, <1>7, <1>8 DEF Slots
<1>14. Order(n)
  <2> SUFFICES ASSUME NEW x \in Task, NEW u \in Task, x < u,
                      n.key[x] = n.key[u], n.key[u] \in Keys,
                      n.run[u] # "idle"
               PROVE  n.status[x] = "ended"
    BY DEF Order
  <2>1. s.run[u] # "idle"
    BY <1>5, <1>7
  <2>2. s.status[x] = "ended"
    BY <1>1, <1>3, <2>1 DEF Order
  <2> QED
    BY <1>7, <1>9, <2>2
<1>15. Counted(n, v)
  BY <1>1, <1>3, <1>7, <1>8 DEF Counted
<1>16. Good(n, v)
  BY <1>1, <1>2, <1>10, <1>11, <1>12, <1>13, <1>14, <1>15 DEF Good
<1> QED
  BY <1>16 DEF n

\* A turn that only moves the runner of t on, to r.
moved(s, t, r) == [s EXCEPT !.run[t] = r]

LEMMA RunGood ==
  ASSUME NEW s, NEW w, Good(s, w), NEW t \in Task, s.run[t] # "idle",
         NEW r \in {"writing", "cleaning", "returned", "sleeping",
                    "threw", "done"},
         NEW v \in [Task -> Nat], \A u \in Task : u # t => v[u] = w[u],
         v[t] <= Batches[s.key[t]],
         s.promise[t] = "resolved" => v[t] = Batches[s.key[t]],
         r \in {"writing", "cleaning", "returned", "sleeping"}
           => s.status[t] = "running",
         r = "writing" => v[t] # Batches[s.key[t]],
         r \in {"cleaning", "returned"} => v[t] = Batches[s.key[t]]
  PROVE  Good(moved(s, t, r), v)
<1> DEFINE n == moved(s, t, r)
<1>1. s \in Sched /\ w \in [Task -> Nat] /\ Lists(s) /\ OneActive(s) /\ Fresh(s)
        /\ Slots(s) /\ Order(s) /\ Counted(s, w) /\ Once(s)
  BY DEF Good
<1>2. n \in Sched
  BY <1>1 DEF moved, Sched, Stage
<1>3. /\ n.key = s.key /\ n.seq = s.seq /\ n.aborted = s.aborted
      /\ n.queue = s.queue /\ n.active = s.active /\ n.promise = s.promise
      /\ n.status = s.status /\ n.run = [s.run EXCEPT ![t] = r]
  BY <1>1 DEF moved, Sched
<1> HIDE DEF n
<1>4. s.run \in [Task -> Stage]
  BY <1>1 DEF Sched
<1>5. n.run[t] = r /\ \A u \in Task : u # t => n.run[u] = s.run[u]
  BY <1>3, <1>4
<1>6. Lists(n) /\ OneActive(n) /\ Once(n)
  BY <1>1, <1>3 DEF Lists, OneActive, Once
<1>7. Fresh(n)
  BY <1>1, <1>3, <1>5 DEF Fresh
<1>8. Slots(n)
  BY <1>1, <1>3, <1>5 DEF Slots
<1>9. Order(n)
  BY <1>1, <1>3, <1>5 DEF Order
<1>10. Counted(n, v)
  BY <1>1, <1>3, <1>5 DEF Counted
<1>11. Good(n, v)
  BY <1>1, <1>2, <1>6, <1>7, <1>8, <1>9, <1>10 DEF Good
<1> QED
  BY <1>11 DEF n

\* The head of the runner's loop.
LEMMA ProceedGood ==
  ASSUME NEW s, NEW w, Good(s, w), NEW t \in Task,
         s.run[t] \in {"started", "writing"},
         NEW v \in [Task -> Nat], \A u \in Task : u # t => v[u] = w[u],
         v[t] <= Batches[s.key[t]],
         s.promise[t] = "resolved" => v[t] = Batches[s.key[t]]
  PROVE  Good(proceed(s, t, v[t]), v)
<1>1. CASE v[t] < Batches[s.key[t]] \/ Cleans[s.key[t]]
  <2>1. proceed(s, t, v[t]) = waitIfPaused(s, t)
    BY <1>1 DEF proceed
  <2> QED
    BY <2>1, WaitGood
<1>2. CASE ~ (v[t] < Batches[s.key[t]] \/ Cleans[s.key[t]])
  <2>1. proceed(s, t, v[t]) = moved(s, t, "returned")
    BY <1>2 DEF proceed, moved
  <2>2. Batches[s.key[t]] \in Nat
    BY Begun
  <2>3. v[t] = Batches[s.key[t]]
    BY <1>2, <2>2
  <2>4. s.status[t] = "running"
    BY DEF Good, Slots
  <2> DEFINE r == "returned"
  <2>5. Good(moved(s, t, r), v)
    <3>1. r \in {"writing", "cleaning", "returned", "sleeping", "threw", "done"}
            /\ r # "writing"
      OBVIOUS
    <3>2. s.run[t] # "idle"
      OBVIOUS
    <3>3. r # "writing" /\ r \in {"writing", "cleaning", "returned",
                                  "sleeping", "threw", "done"}
      BY <3>1
    <3>4. /\ r \in {"writing", "cleaning", "returned", "sleeping"}
               => s.status[t] = "running"
          /\ r = "writing" => v[t] # Batches[s.key[t]]
          /\ r \in {"cleaning", "returned"} => v[t] = Batches[s.key[t]]
      BY <2>3, <2>4, <3>1
    <3> HIDE DEF r
    <3> QED
      BY <3>2, <3>3, <3>4, RunGood
  <2> QED
    BY <2>1, <2>5
<1> QED
  BY <1>1, <1>2

\* completeTask and the settlement, after the runner's promise has settled.
LEMMA CompleteGood ==
  ASSUME NEW s, NEW w, Good(s, w), NEW t \in Task, s.run[t] # "idle",
         NEW how \in {"resolved", "rejected"},
         how = "resolved" => w[t] = Batches[s.key[t]]
  PROVE  Good([settle(completeTask(s, t), t, how)
                 EXCEPT !.run[t] = "finishing"], w)
<1> DEFINE n == [settle(completeTask(s, t), t, how)
                   EXCEPT !.run[t] = "finishing"]
<1>1. s \in Sched /\ w \in [Task -> Nat] /\ Lists(s) /\ OneActive(s) /\ Fresh(s)
        /\ Slots(s) /\ Order(s) /\ Counted(s, w) /\ Once(s)
  BY DEF Good
<1>2. n \in Sched
  BY <1>1 DEF settle, completeTask, Sched, Stage, Status
<1>3. /\ n.key = s.key /\ n.seq = s.seq /\ n.aborted = s.aborted
      /\ n.queue = s.queue /\ n.active = s.active \ {t}
      /\ n.promise = [s.promise EXCEPT ![t] = IF s.promise[t] = "pending"
                                                THEN how ELSE s.promise[t]]
      /\ n.status = [s.status EXCEPT ![t] = "ended"]
      /\ n.run = [s.run EXCEPT ![t] = "finishing"]
  BY <1>1 DEF settle, completeTask, Sched
<1> HIDE DEF n
<1>4. /\ s.run \in [Task -> Stage] /\ s.status \in [Task -> Status]
      /\ s.promise \in [Task -> {"pending", "resolved", "rejected"}]
  BY <1>1 DEF Sched
<1>5. /\ n.run[t] = "finishing" /\ n.status[t] = "ended"
      /\ n.promise[t] = IF s.promise[t] = "pending" THEN how ELSE s.promise[t]
      /\ \A u \in Task : u # t => /\ n.run[u] = s.run[u]
                                  /\ n.status[u] = s.status[u]
                                  /\ n.promise[u] = s.promise[u]
  BY <1>3, <1>4
<1>6. s.status[t] \in {"running", "paused", "ended"} /\ t \notin s.queue
  BY Begun
<1>7. Lists(n)
  BY <1>1, <1>3, <1>5, <1>6 DEF Lists
<1>8. OneActive(n) /\ Once(n)
  BY <1>1, <1>3 DEF OneActive, Once
<1>9. Fresh(n)
  BY <1>1, <1>3, <1>5, <1>6 DEF Fresh
<1>10. Slots(n)
  BY <1>1, <1>3, <1>5 DEF Slots
<1>11. Order(n)
  BY <1>1, <1>3, <1>5 DEF Order
<1>12. Counted(n, w)
  BY <1>1, <1>3, <1>5 DEF Counted
<1>13. Good(n, w)
  BY <1>1, <1>2, <1>7, <1>8, <1>9, <1>10, <1>11, <1>12 DEF Good
<1> QED
  BY <1>13 DEF n

\* submitSyncTask: the new task has the largest id, and its key is alone in
\* the queue if it replaces.
LEMMA SubmitQueued ==
  ASSUME NEW s, NEW w, Good(s, w), NEW k \in Keys, s.seq < MaxTasks,
         Replaces[k] => \A t \in s.queue : s.key[t] # k
  PROVE  Good([s EXCEPT !.seq = s.seq + 1, !.key[s.seq + 1] = k,
                        !.status[s.seq + 1] = "queued",
                        !.queue = @ \cup {s.seq + 1}], w)
<1> DEFINE t == s.seq + 1
           n == [s EXCEPT !.seq = t, !.key[t] = k, !.status[t] = "queued",
                          !.queue = @ \cup {t}]
<1>1. s \in Sched /\ w \in [Task -> Nat] /\ Lists(s) /\ OneActive(s) /\ Fresh(s)
        /\ Slots(s) /\ Order(s) /\ Counted(s, w) /\ Once(s)
  BY DEF Good
<1>2. s.seq \in Nat /\ t \in Task /\ t \in Int /\ t > s.seq
        /\ \A u \in Task : u \in Int
  BY <1>1, BoundsAssumption DEF Sched, Task
<1>4. n \in Sched
  <2>1. t \in Task /\ t \in 0 .. MaxTasks
    BY <1>2, BoundsAssumption DEF Task
  <2>2. n = [s EXCEPT !.seq = t, !.key[t] = k, !.status[t] = "queued",
                      !.queue = @ \cup {t}]
    OBVIOUS
  <2> HIDE DEF t, n
  <2> QED
    BY <1>1, <2>1, <2>2 DEF Sched, Status
<1>5. /\ n.seq = t /\ n.run = s.run /\ n.aborted = s.aborted
      /\ n.active = s.active /\ n.promise = s.promise
      /\ n.queue = s.queue \cup {t}
      /\ n.key = [s.key EXCEPT ![t] = k]
      /\ n.status = [s.status EXCEPT ![t] = "queued"]
  BY <1>1 DEF Sched
<1>6. /\ s.key \in [Task -> Keys \cup {NoKey}] /\ s.status \in [Task -> Status]
      /\ s.queue \subseteq Task
  BY <1>1 DEF Sched
<1> HIDE DEF n
<1>7. /\ n.key[t] = k /\ n.status[t] = "queued"
      /\ \A u \in Task : u # t => n.key[u] = s.key[u] /\ n.status[u] = s.status[u]
  BY <1>2, <1>5, <1>6
<1>8. s.key[t] = NoKey /\ s.status[t] = "none" /\ s.run[t] = "idle"
  BY <1>1, <1>2 DEF Fresh
<1>9. t \notin s.queue /\ t \notin s.active
  BY <1>1, <1>8 DEF Lists
<1>10. \A u \in Task : u > t => s.key[u] = NoKey
  BY <1>1, <1>2 DEF Fresh
<1>11. s.seq + 1 = t
  OBVIOUS
<1> HIDE DEF t
<1>12. Lists(n)
  BY <1>1, <1>2, <1>5, <1>7, <1>8, <1>9 DEF Lists
<1>13. OneActive(n)
  BY <1>1, <1>5 DEF OneActive
<1>14. Fresh(n)
  <2> SUFFICES ASSUME NEW u \in Task
               PROVE  /\ u <= t => n.key[u] \in Keys /\ n.status[u] # "none"
                      /\ u > t => n.key[u] = NoKey /\ n.status[u] = "none"
                      /\ n.status[u] \in {"none", "queued"} => n.run[u] = "idle"
    BY <1>5 DEF Fresh
  <2>1. CASE u = t
    BY <2>1, <1>2, <1>5, <1>7, <1>8
  <2>2. CASE u # t
    <3>1. /\ u <= s.seq => s.key[u] \in Keys /\ s.status[u] # "none"
          /\ u > s.seq => s.key[u] = NoKey /\ s.status[u] = "none"
          /\ s.status[u] \in {"none", "queued"} => s.run[u] = "idle"
      BY <1>1 DEF Fresh
    <3>2. /\ u <= t => u <= s.seq
          /\ u > t => u > s.seq
      BY <1>2, <1>11, <2>2
    <3> QED
      BY <2>2, <3>1, <3>2, <1>5, <1>7
  <2> QED
    BY <2>1, <2>2
<1>15. Slots(n)
  <2>1. \A u \in Task : u # t => n.status[u] = s.status[u] /\ n.run[u] = s.run[u]
    BY <1>5, <1>7
  <2>2. n.run[t] = "idle"
    BY <1>5, <1>8
  <2> QED
    BY <1>1, <1>5, <2>1, <2>2 DEF Slots
<1>16. Order(n)
  <2> SUFFICES ASSUME NEW x \in Task, NEW u \in Task, x < u,
                      n.key[x] = n.key[u], n.key[u] \in Keys,
                      n.run[u] # "idle"
               PROVE  n.status[x] = "ended"
    BY DEF Order
  <2>1. u # t
    BY <1>5, <1>8
  <2>2. x # t
    BY <1>7, <1>10, <2>1, KeysAssumption
  <2> QED
    BY <1>1, <1>5, <1>7, <2>1, <2>2 DEF Order
<1>17. Counted(n, w)
  <2>1. w[t] = 0 /\ Batches[k] \in Nat
    BY <1>1, <1>2, <1>8, KeysAssumption DEF Counted
  <2>2. s.promise[t] # "resolved"
    BY <1>1, <1>2, <1>8 DEF Counted
  <2> QED
    BY <1>1, <1>2, <1>5, <1>7, <1>8, <2>1, <2>2 DEF Counted
<1>18. Once(n)
  BY <1>1, <1>5, <1>6, <1>7, <1>9 DEF Once
<1>19. Good(n, w)
  BY <1>1, <1>4, <1>12, <1>13, <1>14, <1>15, <1>16, <1>17, <1>18 DEF Good
<1> QED
  BY <1>19 DEF n, t

LEMMA SubmitGood ==
  ASSUME NEW s, NEW w, Good(s, w), NEW k \in Keys, s.seq < MaxTasks,
         Replaces[k] => \A t \in s.queue : s.key[t] # k
  PROVE  Good(submitSyncTask(s, k), w)
<1> DEFINE n == [s EXCEPT !.seq = s.seq + 1, !.key[s.seq + 1] = k,
                          !.status[s.seq + 1] = "queued",
                          !.queue = @ \cup {s.seq + 1}]
<1>1. Good(n, w)
  BY SubmitQueued
<1>2. submitSyncTask(s, k) = pump(n)
  BY DEF submitSyncTask
<1> HIDE DEF n
<1> QED
  BY <1>1, <1>2, PumpGood

\* What a submission does to its elders: the newest is aborted, the queued
\* ones are cancelled, and none of the key stays in the queue if it replaces.
LEMMA ReplaceGood ==
  ASSUME NEW s, NEW w, Good(s, w), NEW k \in Keys
  PROVE  /\ Good(replaceOlder(s, k), w)
         /\ replaceOlder(s, k).seq = s.seq
         /\ Replaces[k] => \A t \in replaceOlder(s, k).queue :
                             replaceOlder(s, k).key[t] # k
<1>1. CASE Replaces[k]
  <2> DEFINE a == IF \E t \in Task : newest(s, k, t)
                    THEN abort(s, CHOOSE t \in Task : newest(s, k, t)) ELSE s
  <2>1. replaceOlder(s, k) = cancelQueuedDuplicates(a, k)
    BY <1>1 DEF replaceOlder
  <2>2. Good(a, w) /\ a.seq = s.seq
    <3>1. CASE \E t \in Task : newest(s, k, t)
      <4> DEFINE c == CHOOSE t \in Task : newest(s, k, t)
      <4>1. c \in Task
        BY <3>1
      <4>2. a = abort(s, c)
        BY <3>1
      <4> HIDE DEF a, c
      <4> QED
        BY <4>1, <4>2, AbortGood
    <3>2. CASE ~ \E t \in Task : newest(s, k, t)
      <4>1. a = s
        BY <3>2
      <4> QED
        BY <4>1
    <3> QED
      BY <3>1, <3>2
  <2> HIDE DEF a
  <2> QED
    BY <2>1, <2>2, DuplicatesGood
<1>2. CASE ~ Replaces[k]
  BY <1>2 DEF replaceOlder
<1> QED
  BY <1>1, <1>2

\* Pauses and critical modes leave everything else as it is.
LEMMA HoldGood ==
  ASSUME NEW s, NEW w, Good(s, w),
         NEW p \in SUBSET PauseReasons, NEW c \in SUBSET CriticalReasons
  PROVE  Good([s EXCEPT !.pauses = p, !.criticals = c], w)
<1> DEFINE n == [s EXCEPT !.pauses = p, !.criticals = c]
<1>1. s \in Sched /\ w \in [Task -> Nat] /\ Lists(s) /\ OneActive(s) /\ Fresh(s)
        /\ Slots(s) /\ Order(s) /\ Counted(s, w) /\ Once(s)
  BY DEF Good
<1>2. n \in Sched
  BY <1>1 DEF Sched
<1>3. /\ n.key = s.key /\ n.seq = s.seq /\ n.run = s.run /\ n.status = s.status
      /\ n.aborted = s.aborted /\ n.queue = s.queue /\ n.active = s.active
      /\ n.promise = s.promise
  BY <1>1 DEF Sched
<1> HIDE DEF n
<1>4. /\ Lists(n) /\ OneActive(n) /\ Fresh(n) /\ Slots(n) /\ Order(n)
      /\ Counted(n, w) /\ Once(n)
  BY <1>1, <1>3 DEF Lists, OneActive, Fresh, Slots, Order, Counted, Once
<1>5. Good(n, w)
  BY <1>1, <1>2, <1>4 DEF Good
<1> QED
  BY <1>5 DEF n

--------------------------------------------------------------------------------
(***************************************************************************)
(* The specification.                                                      *)
(***************************************************************************)

Bounded ==
  /\ sweep \in SUBSET Task
  /\ holds \in 0 .. MaxHolds
  /\ aborts \in 0 .. MaxAborts

Inv == Good(sched, written) /\ Bounded

LEMMA InitInv == Init => Inv
<1> SUFFICES ASSUME Init PROVE Inv
  OBVIOUS
<1>1. sched \in Sched /\ written \in [Task -> Nat] /\ Bounded
  BY BoundsAssumption DEF Init, Sched, Status, Stage, Bounded, Task
<1>2. Lists(sched) /\ OneActive(sched) /\ Order(sched) /\ Slots(sched)
        /\ Once(sched)
  BY DEF Init, Lists, OneActive, Order, Slots, Once
<1>3. Fresh(sched)
  BY DEF Init, Fresh, Task
<1>4. Counted(sched, written)
  BY KeysAssumption DEF Init, Counted
<1> QED
  BY <1>1, <1>2, <1>3, <1>4 DEF Inv, Good

\* A call from the rest of the app keeps the scheduler good.
LEMMA CallGood ==
  ASSUME Inv,
         \/ \E k \in Keys : BatchSave(k)
         \/ \E r \in PauseReasons : Pause(r) \/ Resume(r)
         \/ \E r \in CriticalReasons : CriticalStart(r) \/ CriticalEnd(r)
         \/ AbortAll
         \/ \E t \in Task : AbortNext(t)
  PROVE  Inv'
<1>1. Good(sched, written) /\ Bounded /\ sched \in Sched
  BY DEF Inv, Good
<1>2. sched.pauses \in SUBSET PauseReasons
        /\ sched.criticals \in SUBSET CriticalReasons
  BY <1>1 DEF Sched
<1>3. ASSUME NEW k \in Keys, BatchSave(k) PROVE Inv'
  <2> DEFINE r == replaceOlder(sched, k)
  <2>1. Good(r, written) /\ r.seq = sched.seq
          /\ (Replaces[k] => \A t \in r.queue : r.key[t] # k)
    BY <1>1, ReplaceGood
  <2>2. sched' = submitSyncTask(r, k) /\ sched.seq < MaxTasks
          /\ written' = written
    BY <1>3 DEF BatchSave
  <2> HIDE DEF r
  <2>3. Good(sched', written')
    BY <2>1, <2>2, SubmitGood
  <2> QED
    BY <1>1, <1>3, <2>3 DEF Inv, Bounded, BatchSave
<1>4. ASSUME NEW p \in SUBSET PauseReasons, NEW c \in SUBSET CriticalReasons,
             \/ sched' = [sched EXCEPT !.pauses = p, !.criticals = c]
             \/ sched' = pump(notifyPauseWaiters(
                                [sched EXCEPT !.pauses = p, !.criticals = c])),
             written' = written, Bounded'
      PROVE  Inv'
  <2> DEFINE h == [sched EXCEPT !.pauses = p, !.criticals = c]
             m == notifyPauseWaiters(h)
  <2>1. Good(h, written)
    BY <1>1, HoldGood
  <2> HIDE DEF h
  <2>2. Good(m, written)
    BY <2>1, NotifyGood
  <2> HIDE DEF m
  <2>3. Good(pump(m), written)
    BY <2>2, PumpGood
  <2>4. sched' = h \/ sched' = pump(m)
    BY <1>4 DEF h, m
  <2> QED
    BY <1>4, <2>1, <2>3, <2>4 DEF Inv
<1>5. \A p, c : [sched EXCEPT !.pauses = p] =
                  [sched EXCEPT !.pauses = p, !.criticals = sched.criticals]
                /\ [sched EXCEPT !.criticals = c] =
                  [sched EXCEPT !.pauses = sched.pauses, !.criticals = c]
  BY <1>1 DEF Sched
<1>6. ASSUME NEW r \in PauseReasons, Pause(r) \/ Resume(r) PROVE Inv'
  <2>1. Bounded' /\ written' = written
    BY <1>1, <1>6, BoundsAssumption DEF Bounded, Pause, Resume
  <2>2. CASE Pause(r)
    <3> DEFINE p == sched.pauses \cup {r}
    <3>1. p \in SUBSET PauseReasons
      BY <1>2
    <3>2. sched' = [sched EXCEPT !.pauses = p]
      BY <2>2 DEF Pause
    <3> HIDE DEF p
    <3> QED
      BY <1>2, <1>4, <1>5, <2>1, <3>1, <3>2
  <2>3. CASE Resume(r)
    <3> DEFINE p == sched.pauses \ {r}
    <3>1. p \in SUBSET PauseReasons
      BY <1>2
    <3>2. sched' = pump(notifyPauseWaiters([sched EXCEPT !.pauses = p]))
      BY <2>3 DEF Resume
    <3> HIDE DEF p
    <3> QED
      BY <1>2, <1>4, <1>5, <2>1, <3>1, <3>2
  <2> QED
    BY <1>6, <2>2, <2>3
<1>7. ASSUME NEW r \in CriticalReasons, CriticalStart(r) \/ CriticalEnd(r)
      PROVE  Inv'
  <2>1. Bounded' /\ written' = written
    BY <1>1, <1>7, BoundsAssumption DEF Bounded, CriticalStart, CriticalEnd
  <2>2. PICK c \in SUBSET CriticalReasons :
          sched' = pump(notifyPauseWaiters([sched EXCEPT !.criticals = c]))
    <3>1. CASE CriticalStart(r)
      <4>1. sched.criticals \cup {r} \in SUBSET CriticalReasons
        BY <1>2
      <4> QED
        BY <3>1, <4>1 DEF CriticalStart
    <3>2. CASE CriticalEnd(r)
      <4>1. sched.criticals \ {r} \in SUBSET CriticalReasons
        BY <1>2
      <4> QED
        BY <3>2, <4>1 DEF CriticalEnd
    <3> QED
      BY <1>7, <3>1, <3>2
  <2> QED
    BY <1>2, <1>4, <1>5, <2>1, <2>2
<1>8. ASSUME AbortAll PROVE Inv'
  <2>1. {t \in 1 .. sched.seq : sched.promise[t] = "pending"} \in SUBSET Task
    BY <1>1, BoundsAssumption DEF Sched, Task
  <2> QED
    BY <1>1, <1>8, <2>1, BoundsAssumption DEF Inv, Bounded, AbortAll
<1>9. ASSUME NEW t \in Task, AbortNext(t) PROVE Inv'
  <2>1. Good(sched', written')
    BY <1>1, <1>9, AbortGood DEF AbortNext
  <2> QED
    BY <1>1, <1>9, <2>1 DEF Inv, Bounded, AbortNext
<1> QED
  BY <1>3, <1>6, <1>7, <1>8, <1>9

\* A turn of a runner, or of its promise chain, keeps the scheduler good.
LEMMA TurnGood ==
  ASSUME Inv, NEW t \in Task, Turn(t)
  PROVE  Inv'
<1> DEFINE k == sched.key[t]
<1>1. /\ Good(sched, written) /\ Bounded /\ sched \in Sched
      /\ written \in [Task -> Nat] /\ Slots(sched) /\ Counted(sched, written)
  BY DEF Inv, Good
<1>2. sched.run[t] # "idle"
  BY DEF Turn, RunnerStarts, RunnerWakes, WriteStarts, BatchWritten, Cleaned,
         WriteFails, Succeeds, Throws, Finishes
<1>3. k \in Keys /\ Batches[k] \in Nat
  BY <1>1, <1>2, Begun
<1>4. /\ written[t] <= Batches[k] /\ written[t] \in Nat
      /\ sched.promise[t] = "resolved" => written[t] = Batches[k]
  BY <1>1, <1>3 DEF Counted
<1>5. Bounded'
  BY <1>1 DEF Bounded, Turn, RunnerStarts, RunnerWakes, WriteStarts,
              BatchWritten, Cleaned, WriteFails, Succeeds, Throws, Finishes
<1>6. ASSUME NEW r \in {"writing", "cleaning", "returned", "threw"},
             r \in {"writing", "cleaning", "returned"}
               => sched.status[t] = "running",
             r = "writing" => written[t] # Batches[k],
             r \in {"cleaning", "returned"} => written[t] = Batches[k],
             sched' = moved(sched, t, r), written' = written
      PROVE  Inv'
  <2>1. r \in {"writing", "cleaning", "returned", "sleeping", "threw", "done"}
          /\ (r \in {"writing", "cleaning", "returned", "sleeping"}
                => sched.status[t] = "running")
    BY <1>6
  <2>2. Good(moved(sched, t, r), written)
    BY <1>1, <1>2, <1>4, <1>6, <2>1, RunGood
  <2> QED
    BY <1>5, <1>6, <2>2 DEF Inv
<1>7. CASE RunnerStarts(t)
  <2>1. sched.run[t] = "started" /\ written' = written
    BY <1>7 DEF RunnerStarts
  <2>2. CASE t \in sched.aborted
    <3>1. sched' = moved(sched, t, "threw")
      BY <1>7, <2>2 DEF RunnerStarts, moved
    <3> QED
      BY <1>6, <2>1, <3>1
  <2>3. CASE t \notin sched.aborted
    <3>1. sched' = proceed(sched, t, written[t])
      BY <1>7, <2>3 DEF RunnerStarts
    <3>2. Good(proceed(sched, t, written[t]), written)
      BY <1>1, <1>4, <2>1, ProceedGood
    <3> QED
      BY <1>5, <2>1, <3>1, <3>2 DEF Inv
  <2> QED
    BY <2>2, <2>3
<1>8. CASE RunnerWakes(t)
  <2>1. sched.run[t] \in {"woken", "sleeping"} /\ written' = written
          /\ sched' = waitIfPaused(sched, t)
    BY <1>8 DEF RunnerWakes
  <2>2. Good(waitIfPaused(sched, t), written)
    BY <1>1, <1>4, <2>1, WaitGood
  <2> QED
    BY <1>5, <2>1, <2>2 DEF Inv
<1>9. CASE WriteStarts(t)
  <2> DEFINE r == IF t \in sched.aborted THEN "threw"
                  ELSE IF written[t] < Batches[k] THEN "writing" ELSE "cleaning"
  <2>1. sched.run[t] = "clear" /\ written' = written
          /\ sched' = moved(sched, t, r)
    BY <1>9 DEF WriteStarts, moved
  <2>2. t \notin sched.aborted => sched.status[t] = "running"
    BY <1>1, <2>1 DEF Slots
  <2>3. /\ r \in {"writing", "cleaning", "returned", "threw"}
        /\ r \in {"writing", "cleaning", "returned"}
             => sched.status[t] = "running"
        /\ r = "writing" => written[t] # Batches[k]
        /\ r \in {"cleaning", "returned"} => written[t] = Batches[k]
    BY <1>3, <1>4, <2>2
  <2> HIDE DEF r, k
  <2> QED
    BY <1>6, <2>1, <2>3
<1>10. CASE BatchWritten(t)
  <2> DEFINE v == [written EXCEPT ![t] = @ + 1]
  <2>1. sched.run[t] = "writing" /\ written' = v
    BY <1>10 DEF BatchWritten
  <2>2. /\ v \in [Task -> Nat] /\ v[t] = written[t] + 1
        /\ \A u \in Task : u # t => v[u] = written[u]
    BY <1>1
  <2>3. written[t] # Batches[k] /\ sched.status[t] = "running"
    BY <1>1, <2>1 DEF Counted, Slots
  <2>4. v[t] <= Batches[k] /\ sched.promise[t] # "resolved"
    BY <1>3, <1>4, <2>2, <2>3
  <2>5. CASE v[t] < Batches[k] /\ Delays[k]
    <3>1. sched' = moved(sched, t, "sleeping")
      BY <1>10, <2>2, <2>5 DEF BatchWritten, moved
    <3> DEFINE r == "sleeping"
    <3>2. /\ r \in {"writing", "cleaning", "returned", "sleeping",
                    "threw", "done"}
          /\ r \notin {"writing", "cleaning", "returned"}
          /\ r # "writing"
      OBVIOUS
    <3> HIDE DEF v, r
    <3>3. Good(moved(sched, t, r), v)
      BY <1>1, <1>2, <2>2, <2>3, <2>4, <3>2, RunGood
    <3> QED
      BY <1>5, <2>1, <3>1, <3>3 DEF Inv, r
  <2>6. CASE ~ (v[t] < Batches[k] /\ Delays[k])
    <3>1. sched' = proceed(sched, t, v[t])
      BY <1>10, <2>2, <2>6 DEF BatchWritten
    <3> HIDE DEF v
    <3>2. Good(proceed(sched, t, v[t]), v)
      BY <1>1, <2>1, <2>2, <2>4, ProceedGood
    <3> QED
      BY <1>5, <2>1, <3>1, <3>2 DEF Inv
  <2> QED
    BY <2>5, <2>6
<1>11. CASE Cleaned(t)
  <2>1. sched.run[t] = "cleaning" /\ written' = written
          /\ sched' = moved(sched, t, "returned")
    BY <1>11 DEF Cleaned, moved
  <2>2. sched.status[t] = "running" /\ written[t] = Batches[k]
    BY <1>1, <2>1 DEF Slots, Counted
  <2> HIDE DEF k
  <2> QED
    BY <1>6, <2>1, <2>2
<1>12. CASE WriteFails(t)
  <2>1. written' = written /\ sched' = moved(sched, t, "threw")
    BY <1>12 DEF WriteFails, moved
  <2> QED
    BY <1>6, <2>1
<1>13. CASE Succeeds(t)
  <2>1. sched.run[t] = "returned" /\ written' = written
    BY <1>13 DEF Succeeds
  <2>2. written[t] = Batches[k]
    BY <1>1, <2>1 DEF Counted
  <2>3. Good(sched', written)
    BY <1>1, <1>2, <1>13, <2>2, CompleteGood DEF Succeeds
  <2> QED
    BY <1>5, <2>1, <2>3 DEF Inv
<1>14. CASE Throws(t)
  <2>1. Good(sched', written)
    BY <1>1, <1>2, <1>14, CompleteGood DEF Throws
  <2> QED
    BY <1>5, <1>14, <2>1 DEF Inv, Throws
<1>15. CASE Finishes(t)
  <2> DEFINE d == moved(sched, t, "done")
             m == notifyPauseWaiters(d)
  <2>1. sched' = pump(m) /\ written' = written
    BY <1>15 DEF Finishes, moved
  <2>2. Good(d, written)
    <3> DEFINE r == "done"
    <3>1. /\ r \in {"writing", "cleaning", "returned", "sleeping",
                    "threw", "done"}
          /\ r \notin {"writing", "cleaning", "returned", "sleeping"}
          /\ r # "writing" /\ r \notin {"cleaning", "returned"}
      OBVIOUS
    <3> HIDE DEF r
    <3>2. Good(moved(sched, t, r), written)
      BY <1>1, <1>2, <1>4, <3>1, RunGood
    <3> QED
      BY <3>2 DEF r
  <2> HIDE DEF d
  <2>3. Good(m, written)
    BY <2>2, NotifyGood
  <2> HIDE DEF m
  <2> QED
    BY <1>5, <2>1, <2>3, PumpGood DEF Inv
<1> QED
  BY <1>7, <1>8, <1>9, <1>10, <1>11, <1>12, <1>13, <1>14, <1>15 DEF Turn

LEMMA NextInv == Inv /\ [Next]_vars => Inv'
<1> SUFFICES ASSUME Inv, [Next]_vars PROVE Inv'
  OBVIOUS
<1>1. CASE UNCHANGED vars
  BY <1>1 DEF vars, Inv, Bounded
<1>2. CASE Next
  <2>1. CASE \E t \in Task : Turn(t)
    BY <2>1, TurnGood
  <2>2. CASE \/ \E k \in Keys : BatchSave(k)
             \/ \E r \in PauseReasons : Pause(r) \/ Resume(r)
             \/ \E r \in CriticalReasons : CriticalStart(r) \/ CriticalEnd(r)
             \/ AbortAll
             \/ \E t \in Task : AbortNext(t)
    BY <2>2, CallGood
  <2> QED
    BY <1>2, <2>1, <2>2 DEF Next
<1> QED
  BY <1>1, <1>2

LEMMA SpecInv == Spec => []Inv
<1>1. Init => Inv
  BY InitInv
<1>2. Inv /\ [Next]_vars => Inv'
  BY NextInv
<1> QED
  BY <1>1, <1>2, PTL DEF Spec

\* The variables have their types, and the queue and the active list of the
\* scheduler agree with the statuses of the tasks, for every set of families.
THEOREM SchedulerTypeCorrect == Spec => []TypeOK
<1>1. Inv => TypeOK
  BY DEF Inv, Good, Bounded, Lists, TypeOK
<1> QED
  BY <1>1, SpecInv, PTL

\* MAX_CONCURRENT_SYNC_TASKS = 1 is kept in earnest: no two tasks write at
\* once, whatever is paused, aborted and replaced in between.
THEOREM WritesAreSerial == Spec => []OneWriter
<1>1. Inv => OneWriter
  <2> SUFFICES ASSUME Inv, NEW t \in Task, NEW u \in Task,
                      sched.run[t] \in Writing, sched.run[u] \in Writing
               PROVE  t = u
    BY DEF OneWriter
  <2>1. sched.status[t] = "running" /\ sched.status[u] = "running"
    BY DEF Inv, Good, Slots, Writing
  <2>2. t \in sched.active /\ u \in sched.active
    BY <2>1 DEF Inv, Good, Lists
  <2> QED
    BY <2>2 DEF Inv, Good, OneActive
<1> QED
  BY <1>1, SpecInv, PTL

\* Batches of one key reach the database in the order of their submission.
THEOREM WritesKeepOrder == Spec => []OlderNeverOverwrites
<1>1. Inv => OlderNeverOverwrites
  <2> SUFFICES ASSUME Inv, NEW t \in Task, NEW u \in Task,
                      t < u, sched.key[t] = sched.key[u],
                      sched.run[t] \in Writing
               PROVE  sched.run[u] \notin Writing /\ written[u] = 0
    BY DEF OlderNeverOverwrites
  <2>1. Good(sched, written) /\ sched.run[t] # "idle"
    BY DEF Inv, Writing
  <2>2. sched.key[t] \in Keys
    BY <2>1, Begun
  <2>3. sched.status[t] = "running"
    BY <2>1 DEF Good, Slots, Writing
  <2>4. sched.run[u] = "idle"
    BY <2>1, <2>2, <2>3 DEF Good, Order
  <2>5. written[u] = 0
    BY <2>1, <2>4 DEF Good, Counted
  <2> QED
    BY <2>4, <2>5 DEF Writing
<1> QED
  BY <1>1, SpecInv, PTL

\* A replaceable family has at most one task in the queue.
THEOREM ReplaceableQueuedOnce == Spec => []QueuedOnce
<1>1. Inv => QueuedOnce
  BY DEF Inv, Good, Once, QueuedOnce
<1> QED
  BY <1>1, SpecInv, PTL

\* A task that reports success has written every batch it was given.
THEOREM SuccessIsWritten == Spec => []ResolvedMeansWritten
<1>1. Inv => ResolvedMeansWritten
  BY DEF Inv, Good, Counted, ResolvedMeansWritten
<1> QED
  BY <1>1, SpecInv, PTL

-----------------------------------------------------------------------------
(* The scheduler implements the write queue.                               *)
(*                                                                         *)
(* The queue sees of a value s of the scheduler's state the submissions,   *)
(* the promises, who was aborted, who writes and who failed.  For each     *)
(* function of scheduler.ts a lemma says what it changes of that view; the *)
(* pump and the waking of waiters change nothing.  Three facts join the    *)
(* invariant above: a task has ended exactly when its promise has settled; *)
(* a failed runner that nobody aborted still owns the slot; and a runner   *)
(* that waits or sleeps has something left to write.                       *)

Told(s) == \A t \in Task : s.status[t] = "ended" <=> s.promise[t] # "pending"

Owing(s, w) ==
  \A t \in Task :
    /\ s.run[t] = "threw" /\ t \notin s.aborted => s.status[t] = "running"
    /\ s.run[t] \in {"waiting", "woken", "clear", "sleeping"}
         => w[t] < Batches[s.key[t]] \/ Cleans[s.key[t]]

Fit(s, w) == Good(s, w) /\ Told(s) /\ Owing(s, w)

WritingOf(s) == {t \in Task : s.run[t] \in Writing}

BrokenOf(s) == {t \in Task : s.run[t] = "threw" /\ t \notin s.aborted}

\* The queue cannot tell s from n.
Alike(s, n) ==
  /\ n.seq = s.seq /\ n.key = s.key
  /\ n.promise = s.promise /\ n.aborted = s.aborted
  /\ WritingOf(n) = WritingOf(s) /\ BrokenOf(n) = BrokenOf(s)

--------------------------------------------------------------------------------
(***************************************************************************)
(* What the functions of scheduler.ts change of the view.                  *)
(***************************************************************************)

LEMMA PumpAlike ==
  ASSUME NEW s, NEW w, Fit(s, w)
  PROVE  Fit(pump(s), w) /\ Alike(s, pump(s))
<1>1. s \in Sched /\ Lists(s) /\ Fresh(s)
  BY DEF Fit, Good
<1>2. Good(pump(s), w)
  BY PumpGood DEF Fit
<1>3. CASE s.active = {} /\ \E t \in Task : first(s, t)
  <2> DEFINE c == CHOOSE t \in Task : first(s, t)
             n == start(s, c)
  <2>1. c \in Task /\ first(s, c) /\ pump(s) = n
    BY <1>3 DEF pump
  <2> HIDE DEF c
  <2>2. s.status[c] = "queued" /\ s.run[c] = "idle"
    BY <1>1, <2>1 DEF first, runnable, Lists, Fresh
  <2>3. /\ n.seq = s.seq /\ n.key = s.key
        /\ n.promise = s.promise /\ n.aborted = s.aborted
        /\ n.status = [s.status EXCEPT ![c] = "running"]
        /\ n.run = [s.run EXCEPT ![c] = "started"]
        /\ s.status \in [Task -> Status] /\ s.run \in [Task -> Stage]
    BY <1>1, <2>1 DEF start, Sched
  <2> HIDE DEF n
  <2>4. /\ n.status[c] = "running" /\ n.run[c] = "started"
        /\ \A u \in Task \ {c} : n.status[u] = s.status[u] /\ n.run[u] = s.run[u]
    BY <2>1, <2>3
  <2>5. Told(n) /\ Owing(n, w)
    BY <2>2, <2>3, <2>4 DEF Fit, Told, Owing
  <2>6. WritingOf(n) = WritingOf(s)
    BY <2>2, <2>4 DEF WritingOf, Writing
  <2>7. BrokenOf(n) = BrokenOf(s)
    BY <2>2, <2>3, <2>4 DEF BrokenOf
  <2> QED
    BY <1>2, <2>1, <2>3, <2>5, <2>6, <2>7 DEF Fit, Alike
<1>4. CASE ~ (s.active = {} /\ \E t \in Task : first(s, t))
  BY <1>4 DEF pump, Alike
<1> QED
  BY <1>3, <1>4

LEMMA NotifyAlike ==
  ASSUME NEW s, NEW w, Fit(s, w)
  PROVE  Fit(notifyPauseWaiters(s), w) /\ Alike(s, notifyPauseWaiters(s))
<1> DEFINE n == notifyPauseWaiters(s)
<1>1. s \in Sched /\ Good(n, w)
  BY NotifyGood DEF Fit, Good
<1>2. /\ n.seq = s.seq /\ n.key = s.key /\ n.status = s.status
      /\ n.promise = s.promise /\ n.aborted = s.aborted
      /\ \A u \in Task :
           n.run[u] = IF s.run[u] = "waiting" THEN "woken" ELSE s.run[u]
  BY <1>1 DEF notifyPauseWaiters, Sched
<1> HIDE DEF n
<1>3. Told(n) /\ Owing(n, w)
  BY <1>2 DEF Fit, Told, Owing
<1>4. WritingOf(n) = WritingOf(s)
  BY <1>2 DEF WritingOf, Writing
<1>5. BrokenOf(n) = BrokenOf(s)
  BY <1>2 DEF BrokenOf
<1> QED
  BY <1>1, <1>2, <1>3, <1>4, <1>5 DEF Fit, Alike, n

\* An abort adds t to the aborted tasks and rejects at most its promise, and
\* only while t does not write.
Aborts(s, n, t) ==
  /\ n.seq = s.seq /\ n.key = s.key
  /\ n.aborted = s.aborted \cup {t}
  /\ WritingOf(n) = WritingOf(s) /\ BrokenOf(n) = BrokenOf(s) \ {t}
  /\ \/ n.promise = s.promise
     \/ /\ n.promise = [s.promise EXCEPT ![t] = "rejected"]
        /\ s.promise[t] = "pending" /\ t <= s.seq
        /\ t \notin WritingOf(s)

LEMMA HeardAborts ==
  ASSUME NEW s, NEW w, Fit(s, w), NEW t \in Task
  PROVE  /\ Fit(heard(s, t), w) /\ Aborts(s, heard(s, t), t)
         /\ heard(s, t).promise = s.promise /\ heard(s, t).status = s.status
<1> DEFINE n == heard(s, t)
<1>1. s \in Sched /\ Good(n, w)
  BY HeardGood DEF Fit, Good
<1>2. /\ n.seq = s.seq /\ n.key = s.key /\ n.status = s.status
      /\ n.promise = s.promise /\ n.aborted = s.aborted \cup {t}
      /\ n.run[t] = IF s.run[t] \in {"waiting", "sleeping"} THEN "threw"
                    ELSE s.run[t]
      /\ \A u \in Task \ {t} : n.run[u] = s.run[u]
  BY <1>1 DEF heard, Sched
<1> HIDE DEF n
<1>3. Told(n) /\ Owing(n, w)
  BY <1>2 DEF Fit, Told, Owing
<1>4. WritingOf(n) = WritingOf(s)
  BY <1>2 DEF WritingOf, Writing
<1>5. BrokenOf(n) = BrokenOf(s) \ {t}
  BY <1>2 DEF BrokenOf
<1> QED
  BY <1>1, <1>2, <1>3, <1>4, <1>5 DEF Fit, Aborts, n

LEMMA AbortAborts ==
  ASSUME NEW s, NEW w, Fit(s, w), NEW t \in Task
  PROVE  Fit(abort(s, t), w) /\ Aborts(s, abort(s, t), t)
<1>1. CASE t \in s.aborted
  <2>1. abort(s, t) = s /\ s.aborted = s.aborted \cup {t}
    BY <1>1 DEF abort
  <2>2. BrokenOf(s) = BrokenOf(s) \ {t}
    BY <1>1 DEF BrokenOf
  <2> QED
    BY <2>1, <2>2 DEF Aborts
<1>2. CASE t \notin s.aborted /\ s.status[t] \in {"queued", "paused"}
  <2> DEFINE h == heard(s, t)
             c == cancelQueuedTask(h, t)
  <2>1. /\ Fit(h, w) /\ Aborts(s, h, t) /\ t \in h.aborted
        /\ h.promise = s.promise /\ h.status = s.status
    BY HeardAborts DEF Aborts
  <2>2. abort(s, t) = pump(c)
    BY <1>2 DEF abort
  <2> HIDE DEF h
  <2>3. Good(h, w) /\ h \in Sched
    BY <2>1 DEF Fit, Good
  <2>4. Good(c, w)
    BY <1>2, <2>1, <2>3, CancelGood
  <2>5. h.promise[t] = "pending"
    BY <1>2, <2>1 DEF Fit, Told
  <2>6. /\ c.seq = h.seq /\ c.key = h.key /\ c.aborted = h.aborted
        /\ c.run = h.run
        /\ c.promise = [h.promise EXCEPT ![t] = "rejected"]
        /\ c.status = [h.status EXCEPT ![t] = "ended"]
        /\ h.promise \in [Task -> {"pending", "resolved", "rejected"}]
        /\ h.status \in [Task -> Status]
    BY <2>3, <2>5 DEF cancelQueuedTask, settle, completeTask, Sched
  <2> HIDE DEF c
  <2>7. /\ c.status[t] = "ended" /\ c.promise[t] = "rejected"
        /\ \A u \in Task \ {t} :
             c.status[u] = h.status[u] /\ c.promise[u] = h.promise[u]
    BY <2>6
  <2>8. Told(c)
    BY <2>1, <2>7 DEF Fit, Told
  <2>9. Owing(c, w)
    BY <2>1, <2>6, <2>7 DEF Fit, Owing
  <2>10. Fit(pump(c), w) /\ Alike(c, pump(c))
    BY <2>4, <2>8, <2>9, PumpAlike DEF Fit
  <2>11. WritingOf(c) = WritingOf(h) /\ BrokenOf(c) = BrokenOf(h)
    BY <2>6 DEF WritingOf, BrokenOf
  <2>12. s.promise[t] = "pending" /\ t <= s.seq /\ t \notin WritingOf(s)
    <3>1. s \in Sched /\ Fresh(s) /\ Slots(s)
      BY DEF Fit, Good
    <3>2. s.seq \in Int /\ t \in Int
      BY <3>1, BoundsAssumption DEF Sched, Task
    <3>3. t <= s.seq
      BY <1>2, <3>1, <3>2 DEF Fresh
    <3>4. s.run[t] \notin Writing
      BY <1>2, <3>1 DEF Slots, Writing
    <3> QED
      BY <2>1, <2>5, <3>3, <3>4 DEF WritingOf
  <2>13. pump(c).promise = [s.promise EXCEPT ![t] = "rejected"]
    BY <2>1, <2>6, <2>10 DEF Alike
  <2> QED
    BY <2>1, <2>2, <2>6, <2>10, <2>11, <2>12, <2>13 DEF Alike, Aborts
<1>3. CASE t \notin s.aborted /\ s.status[t] \notin {"queued", "paused"}
  <2>1. abort(s, t) = heard(s, t)
    BY <1>3 DEF abort
  <2> QED
    BY <2>1, HeardAborts
<1> QED
  BY <1>1, <1>2, <1>3

\* A submission that replaces cancels what is queued of its key.
LEMMA DuplicatesCancel ==
  ASSUME NEW s, NEW w, Fit(s, w), NEW k \in Keys
  PROVE  LET n == cancelQueuedDuplicates(s, k)
             D == {t \in s.queue : s.key[t] = k}
         IN  /\ Fit(n, w)
             /\ n.seq = s.seq /\ n.key = s.key /\ n.aborted = s.aborted
             /\ WritingOf(n) = WritingOf(s) /\ BrokenOf(n) = BrokenOf(s)
             /\ n.promise = [u \in Task |-> IF u \in D THEN "rejected"
                                            ELSE s.promise[u]]
             /\ \A u \in D : /\ u \in Task /\ u <= s.seq
                             /\ s.promise[u] = "pending" /\ u \notin WritingOf(s)
<1> DEFINE n == cancelQueuedDuplicates(s, k)
           D == {t \in s.queue : s.key[t] = k}
<1>1. s \in Sched /\ Lists(s) /\ Fresh(s) /\ Good(n, w)
  BY DuplicatesGood DEF Fit, Good
<1>2. s.seq \in Int /\ \A u \in Task : u \in Int
  BY <1>1, BoundsAssumption DEF Sched, Task
<1>3. /\ n.key = s.key /\ n.seq = s.seq /\ n.run = s.run
      /\ n.aborted = s.aborted
      /\ n.status = [u \in Task |-> IF u \in D THEN "ended" ELSE s.status[u]]
      /\ n.promise = [u \in Task |-> IF u \in D /\ s.promise[u] = "pending"
                                       THEN "rejected" ELSE s.promise[u]]
  BY <1>1 DEF cancelQueuedDuplicates, Sched
<1> HIDE DEF n
<1>4. \A u \in D : u \in Task /\ s.status[u] = "queued"
  BY <1>1 DEF Lists
<1>5. \A u \in D : s.run[u] = "idle" /\ s.promise[u] = "pending" /\ u <= s.seq
  BY <1>1, <1>2, <1>4 DEF Fresh, Fit, Told
<1>6. \A u \in D : u \notin WritingOf(s)
  BY <1>5 DEF WritingOf, Writing
<1> HIDE DEF D
<1>7. n.promise = [u \in Task |-> IF u \in D THEN "rejected" ELSE s.promise[u]]
  BY <1>3, <1>5
<1>8. Told(n)
  BY <1>3, <1>7 DEF Fit, Told
<1>9. Owing(n, w)
  BY <1>3, <1>5 DEF Fit, Owing
<1>10. WritingOf(n) = WritingOf(s) /\ BrokenOf(n) = BrokenOf(s)
  BY <1>3 DEF WritingOf, BrokenOf
<1> QED
  BY <1>1, <1>3, <1>4, <1>5, <1>6, <1>7, <1>8, <1>9, <1>10 DEF Fit, n, D

LEMMA SubmitAdds ==
  ASSUME NEW s, NEW w, Fit(s, w), NEW k \in Keys, s.seq < MaxTasks,
         Replaces[k] => \A t \in s.queue : s.key[t] # k
  PROVE  LET n == submitSyncTask(s, k)
         IN  /\ Told(n) /\ Owing(n, w)
             /\ n.seq = s.seq + 1 /\ n.key = [s.key EXCEPT ![s.seq + 1] = k]
             /\ n.promise = s.promise /\ n.aborted = s.aborted
             /\ WritingOf(n) = WritingOf(s) /\ BrokenOf(n) = BrokenOf(s)
<1> DEFINE t == s.seq + 1
           n == [s EXCEPT !.seq = t, !.key[t] = k, !.status[t] = "queued",
                          !.queue = @ \cup {t}]
<1>1. s \in Sched /\ Fresh(s) /\ submitSyncTask(s, k) = pump(n)
  BY DEF Fit, Good, submitSyncTask
<1>2. t \in Task /\ t > s.seq
  BY <1>1, BoundsAssumption DEF Sched, Task
<1>3. s.status[t] = "none" /\ s.run[t] = "idle" /\ s.promise[t] = "pending"
  BY <1>1, <1>2 DEF Fresh, Fit, Told, Sched
<1>4. /\ n.seq = t /\ n.key = [s.key EXCEPT ![t] = k] /\ n.run = s.run
      /\ n.promise = s.promise /\ n.aborted = s.aborted
      /\ n.status[t] = "queued"
      /\ \A u \in Task \ {t} : n.status[u] = s.status[u]
      /\ n.active = s.active
  BY <1>1, <1>2 DEF Sched
<1>5. Good(n, w)
  BY SubmitQueued DEF Fit
<1> HIDE DEF n, t
<1>6. Told(n) /\ Owing(n, w)
  BY <1>3, <1>4 DEF Fit, Told, Owing
<1>7. Fit(pump(n), w) /\ Alike(n, pump(n))
  BY <1>5, <1>6, PumpAlike DEF Fit
<1>8. WritingOf(n) = WritingOf(s) /\ BrokenOf(n) = BrokenOf(s)
  BY <1>4 DEF WritingOf, BrokenOf
<1> QED
  BY <1>1, <1>4, <1>7, <1>8 DEF Fit, Alike, t

--------------------------------------------------------------------------------
(***************************************************************************)
(* The turns of a runner.                                                  *)
(***************************************************************************)

\* Only t may have changed its place.
Steps(s, n, t) ==
  /\ n.seq = s.seq /\ n.key = s.key
  /\ n.promise = s.promise /\ n.aborted = s.aborted
  /\ \A u \in Task \ {t} : n.run[u] = s.run[u]

LEMMA WaitSteps ==
  ASSUME NEW s \in Sched, NEW w, NEW t \in Task, Told(s), Owing(s, w),
         t \in s.aborted \/ s.status[t] # "ended",
         w[t] < Batches[s.key[t]] \/ Cleans[s.key[t]]
  PROVE  LET n == waitIfPaused(s, t)
         IN  /\ Steps(s, n, t) /\ Told(n) /\ Owing(n, w)
             /\ n.run[t] \in {"threw", "waiting", "clear"}
             /\ n.run[t] = "threw" => t \in s.aborted
<1> DEFINE n == waitIfPaused(s, t)
<1>1. \/ n = [s EXCEPT !.run[t] = "threw"] /\ t \in s.aborted
      \/ n = [s EXCEPT !.status[t] = "paused", !.run[t] = "waiting"]
         /\ t \notin s.aborted
      \/ n = [s EXCEPT !.status[t] = IF @ = "paused" THEN "running" ELSE @,
                       !.run[t] = "clear"]
  BY DEF waitIfPaused
<1> HIDE DEF n
<1>2. s.status \in [Task -> Status] /\ s.run \in [Task -> Stage]
  BY DEF Sched
<1>3. /\ n.seq = s.seq /\ n.key = s.key
      /\ n.promise = s.promise /\ n.aborted = s.aborted
      /\ \E r \in {"threw", "waiting", "clear"} :
           n.run = [s.run EXCEPT ![t] = r] /\ (r = "threw" => t \in s.aborted)
      /\ \E c \in Status :
           /\ n.status = [s.status EXCEPT ![t] = c]
           /\ c = "ended" <=> s.status[t] = "ended"
  <2>1. CASE n = [s EXCEPT !.run[t] = "threw"] /\ t \in s.aborted
    BY <1>2, <2>1 DEF Sched
  <2>2. CASE n = [s EXCEPT !.status[t] = "paused", !.run[t] = "waiting"]
             /\ t \notin s.aborted
    <3>1. /\ n.seq = s.seq /\ n.key = s.key
          /\ n.promise = s.promise /\ n.aborted = s.aborted
          /\ n.run = [s.run EXCEPT ![t] = "waiting"]
          /\ n.status = [s.status EXCEPT ![t] = "paused"]
      BY <2>2 DEF Sched
    <3>2. s.status[t] # "ended" /\ "paused" \in Status
      BY <2>2 DEF Status
    <3> QED
      BY <3>1, <3>2
  <2>3. CASE n = [s EXCEPT !.status[t] = IF @ = "paused" THEN "running" ELSE @,
                           !.run[t] = "clear"]
    <3> DEFINE c == IF s.status[t] = "paused" THEN "running" ELSE s.status[t]
    <3>1. /\ n.seq = s.seq /\ n.key = s.key
          /\ n.promise = s.promise /\ n.aborted = s.aborted
          /\ n.run = [s.run EXCEPT ![t] = "clear"]
          /\ n.status = [s.status EXCEPT ![t] = c]
      BY <2>3 DEF Sched
    <3>2. c \in Status /\ (c = "ended" <=> s.status[t] = "ended")
      BY <1>2 DEF Status
    <3> HIDE DEF c
    <3> QED
      BY <3>1, <3>2
  <2> QED
    BY <1>1, <2>1, <2>2, <2>3
<1>4. /\ \A u \in Task \ {t} : n.status[u] = s.status[u] /\ n.run[u] = s.run[u]
      /\ n.run[t] \in {"threw", "waiting", "clear"}
      /\ n.run[t] = "threw" => t \in s.aborted
      /\ n.status[t] = "ended" <=> s.status[t] = "ended"
  BY <1>2, <1>3
<1>5. Steps(s, n, t)
  BY <1>3, <1>4 DEF Steps
<1>6. Told(n)
  BY <1>3, <1>4 DEF Told
<1>7. Owing(n, w)
  BY <1>3, <1>4 DEF Owing
<1> QED
  BY <1>4, <1>5, <1>6, <1>7 DEF n

LEMMA ProceedSteps ==
  ASSUME NEW s \in Sched, NEW w, NEW t \in Task, Told(s), Owing(s, w),
         s.status[t] # "ended"
  PROVE  LET n == proceed(s, t, w[t])
         IN  /\ Steps(s, n, t) /\ Told(n) /\ Owing(n, w)
             /\ n.run[t] \in {"threw", "waiting", "clear", "returned"}
             /\ n.run[t] = "threw" => t \in s.aborted
<1>1. CASE w[t] < Batches[s.key[t]] \/ Cleans[s.key[t]]
  BY <1>1, WaitSteps DEF proceed
<1>2. CASE ~ (w[t] < Batches[s.key[t]] \/ Cleans[s.key[t]])
  <2> DEFINE n == proceed(s, t, w[t])
  <2>1. n = [s EXCEPT !.run[t] = "returned"]
    BY <1>2 DEF proceed
  <2> HIDE DEF n
  <2>2. Steps(s, n, t) /\ n.status = s.status /\ n.run[t] = "returned"
    BY <2>1 DEF Sched, Steps
  <2>3. Told(n) /\ Owing(n, w)
    BY <2>2 DEF Steps, Told, Owing
  <2> QED
    BY <2>2, <2>3 DEF n
<1> QED
  BY <1>1, <1>2

--------------------------------------------------------------------------------
(***************************************************************************)
(* Every action is a step of the queue.                                    *)
(***************************************************************************)

Debts(s, w) == Told(s) /\ Owing(s, w)

\* The view after an action agrees with a step of the queue, or has not changed.
Maps == [Queue!QueueNext]_Queue!queueVars

LEMMA AlikeStutters ==
  ASSUME Alike(sched, sched'), written' = written PROVE Maps
  BY DEF Maps, Alike, WritingOf, BrokenOf, Queue!queueVars

LEMMA AbortMaps ==
  ASSUME Inv, NEW t \in Task, Aborts(sched, sched', t), written' = written
  PROVE  Maps
<1> DEFINE R == IF sched'.promise = sched.promise THEN {} ELSE {t}
<1>1. sched \in Sched /\ sched.seq \in Int /\ t \in Int
  BY BoundsAssumption DEF Inv, Good, Sched, Task
<1>2. sched.promise \in [Task -> {"pending", "resolved", "rejected"}]
  BY <1>1 DEF Sched
<1>3. R \in SUBSET {u \in {t} \ WritingOf(sched) :
                      u \in 1 .. sched.seq /\ sched.promise[u] = "pending"}
  BY <1>1 DEF Aborts, Task
<1>4. sched'.promise = [u \in Task |-> IF u \in R THEN "rejected"
                                       ELSE sched.promise[u]]
  <2>1. CASE sched'.promise = sched.promise
    BY <1>2, <2>1
  <2>2. CASE sched'.promise # sched.promise
    BY <1>2, <2>2 DEF Aborts
  <2> QED
    BY <2>1, <2>2
<1> HIDE DEF R
<1>5. Queue!Abort({t})
  BY <1>3, <1>4 DEF Aborts, WritingOf, BrokenOf, Queue!Abort, Queue!Pending,
                    Queue!rejecting, Queue!Task, Task
<1>6. {t} \in SUBSET Queue!Task
  BY DEF Queue!Task, Task
<1> QED
  BY <1>5, <1>6 DEF Maps, Queue!QueueNext

--------------------------------------------------------------------------------
(***************************************************************************)
(* A submission that replaces.                                             *)
(***************************************************************************)

Rejecting(f, R) == [u \in Task |-> IF u \in R THEN "rejected" ELSE f[u]]

PendingIn(s, k) ==
  {u \in Task : u \in 1 .. s.seq /\ s.promise[u] = "pending" /\ s.key[u] = k}

\* Of the tasks of k that are pending, S are aborted and R are rejected.
Withdraws(s, n, k, S, R) ==
  /\ S \in SUBSET PendingIn(s, k)
  /\ R \in SUBSET (PendingIn(s, k) \ WritingOf(s))
  /\ n.seq = s.seq /\ n.key = s.key
  /\ n.aborted = s.aborted \cup S
  /\ WritingOf(n) = WritingOf(s) /\ BrokenOf(n) = BrokenOf(s) \ S
  /\ n.promise = Rejecting(s.promise, R)

LEMMA RejectNone ==
  ASSUME NEW V, NEW f \in [Task -> V] PROVE f = Rejecting(f, {})
  BY DEF Rejecting

LEMMA RejectOne ==
  ASSUME NEW V, NEW f \in [Task -> V], NEW c \in Task
  PROVE  [f EXCEPT ![c] = "rejected"] = Rejecting(f, {c})
  BY DEF Rejecting

LEMMA RejectMore ==
  ASSUME NEW f, NEW A, NEW D
  PROVE  Rejecting(Rejecting(f, A), D) = Rejecting(f, A \cup D)
<1>1. \A u \in Task : Rejecting(f, A)[u] = IF u \in A THEN "rejected" ELSE f[u]
  BY DEF Rejecting
<1>2. \A u \in Task : (IF u \in D THEN "rejected" ELSE Rejecting(f, A)[u])
                      = IF u \in A \cup D THEN "rejected" ELSE f[u]
  BY <1>1
<1> QED
  BY <1>2 DEF Rejecting

LEMMA NothingWithdraws ==
  ASSUME NEW s \in Sched, NEW k PROVE Withdraws(s, s, k, {}, {})
<1>1. s.promise = Rejecting(s.promise, {})
  <2>1. s.promise \in [Task -> {"pending", "resolved", "rejected"}]
    BY DEF Sched
  <2> QED
    BY <2>1, RejectNone
<1>2. s.aborted = s.aborted \cup {} /\ BrokenOf(s) = BrokenOf(s) \ {}
  OBVIOUS
<1> QED
  BY <1>1, <1>2 DEF Withdraws

LEMMA AbortWithdraws ==
  ASSUME NEW s, NEW w, Fit(s, w), NEW k, NEW c \in PendingIn(s, k)
  PROVE  /\ Fit(abort(s, c), w)
         /\ \E R : Withdraws(s, abort(s, c), k, {c}, R)
<1> DEFINE n == abort(s, c)
<1>1. c \in Task /\ Fit(n, w) /\ Aborts(s, n, c)
  BY AbortAborts DEF PendingIn
<1>2. s.promise \in [Task -> {"pending", "resolved", "rejected"}]
  BY DEF Fit, Good, Sched
<1>3. s.promise = Rejecting(s.promise, {})
  BY <1>2, RejectNone
<1>4. [s.promise EXCEPT ![c] = "rejected"] = Rejecting(s.promise, {c})
  BY <1>1, <1>2, RejectOne
<1> HIDE DEF n
<1>5. CASE n.promise = s.promise
  <2>1. Withdraws(s, n, k, {c}, {})
    BY <1>1, <1>3, <1>5 DEF Withdraws, Aborts
  <2> QED
    BY <1>1, <2>1 DEF n
<1>6. CASE /\ n.promise = [s.promise EXCEPT ![c] = "rejected"]
           /\ c \notin WritingOf(s)
  <2>1. Withdraws(s, n, k, {c}, {c})
    BY <1>1, <1>4, <1>6 DEF Withdraws, Aborts
  <2> QED
    BY <1>1, <2>1 DEF n
<1> QED
  BY <1>1, <1>5, <1>6 DEF Aborts

LEMMA NewestWithdraws ==
  ASSUME NEW s, NEW w, Fit(s, w), NEW k \in Keys
  PROVE  LET n == IF \E t \in Task : newest(s, k, t)
                    THEN abort(s, CHOOSE t \in Task : newest(s, k, t)) ELSE s
         IN  Fit(n, w) /\ \E S, R : Withdraws(s, n, k, S, R)
<1>1. s \in Sched /\ Fresh(s)
  BY DEF Fit, Good
<1>2. CASE \E t \in Task : newest(s, k, t)
  <2> DEFINE c == CHOOSE t \in Task : newest(s, k, t)
  <2>1. c \in Task /\ newest(s, k, c)
    BY <1>2
  <2> HIDE DEF c
  <2>2. s.seq \in Int /\ c \in Int /\ c >= 1
    BY <1>1, <2>1, BoundsAssumption DEF Sched, Task
  <2>3. c <= s.seq
    BY <1>1, <2>1, <2>2, KeysAssumption DEF newest, Fresh
  <2>4. c \in PendingIn(s, k)
    BY <2>1, <2>2, <2>3 DEF newest, PendingIn
  <2> QED
    BY <1>2, <2>4, AbortWithdraws DEF c
<1>3. CASE ~ \E t \in Task : newest(s, k, t)
  BY <1>1, <1>3, NothingWithdraws
<1> QED
  BY <1>2, <1>3

LEMMA ReplaceWithdraws ==
  ASSUME NEW s, NEW w, Fit(s, w), NEW k \in Keys
  PROVE  /\ Fit(replaceOlder(s, k), w)
         /\ \E S, R : /\ Withdraws(s, replaceOlder(s, k), k, S, R)
                      /\ Replaces[k] \/ (S = {} /\ R = {})
<1>1. CASE ~ Replaces[k]
  <2>1. replaceOlder(s, k) = s /\ s \in Sched
    BY <1>1 DEF replaceOlder, Fit, Good
  <2>2. Withdraws(s, s, k, {}, {})
    BY <2>1, NothingWithdraws
  <2> QED
    BY <2>1, <2>2
<1>2. CASE Replaces[k]
  <2> DEFINE a == IF \E t \in Task : newest(s, k, t)
                    THEN abort(s, CHOOSE t \in Task : newest(s, k, t)) ELSE s
             n == cancelQueuedDuplicates(a, k)
             D == {t \in a.queue : a.key[t] = k}
  <2>1. Fit(a, w) /\ \E S, R : Withdraws(s, a, k, S, R)
    BY NewestWithdraws
  <2>2. replaceOlder(s, k) = n
    BY <1>2 DEF replaceOlder
  <2> HIDE DEF a
  <2>3. PICK S, A : Withdraws(s, a, k, S, A)
    BY <2>1
  <2>4. /\ Fit(n, w)
        /\ n.seq = a.seq /\ n.key = a.key /\ n.aborted = a.aborted
        /\ WritingOf(n) = WritingOf(a) /\ BrokenOf(n) = BrokenOf(a)
        /\ n.promise = Rejecting(a.promise, D)
        /\ \A u \in D : /\ u \in Task /\ u <= a.seq
                        /\ a.promise[u] = "pending" /\ u \notin WritingOf(a)
    BY <2>1, DuplicatesCancel DEF Rejecting
  <2>5. s.seq \in Int /\ \A u \in Task : u \in Int /\ u >= 1
    BY BoundsAssumption DEF Fit, Good, Sched, Task
  <2>6. \A u \in D : a.key[u] = k
    OBVIOUS
  <2> HIDE DEF n, D
  <2>7. \A u \in D : s.promise[u] = "pending"
    <3> SUFFICES ASSUME NEW u \in D PROVE s.promise[u] = "pending"
      OBVIOUS
    <3>1. Rejecting(s.promise, A)[u] = "pending" /\ u \in Task
      BY <2>3, <2>4 DEF Withdraws
    <3> QED
      BY <3>1 DEF Rejecting
  <2>8. D \in SUBSET (PendingIn(s, k) \ WritingOf(s))
    BY <2>3, <2>4, <2>5, <2>6, <2>7 DEF PendingIn, Withdraws
  <2>9. n.promise = Rejecting(s.promise, A \cup D)
    BY <2>3, <2>4, RejectMore DEF Withdraws
  <2>10. Withdraws(s, n, k, S, A \cup D)
    BY <2>3, <2>4, <2>8, <2>9 DEF Withdraws
  <2> QED
    BY <1>2, <2>2, <2>4, <2>10
<1> QED
  BY <1>1, <1>2

LEMMA BatchSaveMaps ==
  ASSUME Inv, Debts(sched, written), NEW k \in Keys, BatchSave(k)
  PROVE  Debts(sched', written') /\ Maps
<1> DEFINE r == replaceOlder(sched, k)
<1>1. Fit(sched, written) /\ sched \in Sched /\ sched.seq < MaxTasks
        /\ sched' = submitSyncTask(r, k) /\ written' = written
  BY DEF Inv, Debts, Fit, Good, BatchSave
<1>2. PICK S, R : /\ Withdraws(sched, r, k, S, R)
                  /\ Replaces[k] \/ (S = {} /\ R = {})
  BY <1>1, ReplaceWithdraws
<1>3. Fit(r, written) /\ (Replaces[k] => \A t \in r.queue : r.key[t] # k)
  BY <1>1, ReplaceWithdraws, ReplaceGood DEF Fit
<1> HIDE DEF r
<1>4. /\ Debts(sched', written')
      /\ sched'.seq = r.seq + 1 /\ sched'.key = [r.key EXCEPT ![r.seq + 1] = k]
      /\ sched'.promise = r.promise /\ sched'.aborted = r.aborted
      /\ WritingOf(sched') = WritingOf(r) /\ BrokenOf(sched') = BrokenOf(r)
  BY <1>1, <1>2, <1>3, SubmitAdds DEF Withdraws, Debts
<1>5. PendingIn(sched, k) = Queue!PendingOf(k)
  BY DEF Queue!PendingOf, Queue!Pending, Queue!Task, Task, PendingIn
<1>6. Rejecting(sched.promise, R) = Queue!rejecting(R)
  BY DEF Rejecting, Queue!rejecting, Queue!Task, Task
<1>7. /\ sched'.seq = sched.seq + 1
      /\ sched'.key = [sched.key EXCEPT ![sched'.seq] = k]
      /\ S \in SUBSET Queue!PendingOf(k)
      /\ R \in SUBSET (Queue!PendingOf(k) \ WritingOf(sched))
      /\ sched'.aborted = sched.aborted \cup S
      /\ BrokenOf(sched') = BrokenOf(sched) \ S
      /\ sched'.promise = Queue!rejecting(R)
      /\ WritingOf(sched') = WritingOf(sched)
  BY <1>2, <1>4, <1>5, <1>6 DEF Withdraws
<1>8. /\ WritingOf(sched) = {t \in Task : sched.run[t] \in Writing}
      /\ WritingOf(sched') = {t \in Task : sched'.run[t] \in Writing}
      /\ BrokenOf(sched) = {t \in Task : sched.run[t] = "threw" /\ t \notin sched.aborted}
      /\ BrokenOf(sched') = {t \in Task : sched'.run[t] = "threw" /\ t \notin sched'.aborted}
  BY DEF WritingOf, BrokenOf
<1>9. Queue!Submit(k)
  BY <1>1, <1>2, <1>7, <1>8 DEF Queue!Submit
<1> QED
  BY <1>4, <1>9 DEF Maps, Queue!QueueNext

--------------------------------------------------------------------------------
(***************************************************************************)
(* The other calls.                                                        *)
(***************************************************************************)

\* Waking the waiters and pumping is nothing to the queue.
LEMMA WakesMap ==
  ASSUME NEW h, Fit(h, written), Alike(sched, h),
         sched' = pump(notifyPauseWaiters(h)), written' = written
  PROVE  Debts(sched', written') /\ Maps
<1> DEFINE m == notifyPauseWaiters(h)
<1>1. Fit(m, written) /\ Alike(h, m)
  BY NotifyAlike
<1> HIDE DEF m
<1>2. Fit(pump(m), written) /\ Alike(m, pump(m))
  BY <1>1, PumpAlike
<1>3. sched' = pump(m)
  BY DEF m
<1>4. Alike(sched, sched')
  BY <1>1, <1>2, <1>3 DEF Alike
<1> QED
  BY <1>2, <1>3, <1>4, AlikeStutters DEF Debts, Fit

LEMMA HoldAlike ==
  ASSUME NEW s, NEW w, Fit(s, w),
         NEW p \in SUBSET PauseReasons, NEW c \in SUBSET CriticalReasons
  PROVE  LET n == [s EXCEPT !.pauses = p, !.criticals = c]
         IN  Fit(n, w) /\ Alike(s, n)
<1> DEFINE n == [s EXCEPT !.pauses = p, !.criticals = c]
<1>1. Good(n, w) /\ s \in Sched
  BY HoldGood DEF Fit, Good
<1>2. /\ n.key = s.key /\ n.seq = s.seq /\ n.run = s.run /\ n.status = s.status
      /\ n.aborted = s.aborted /\ n.promise = s.promise
  BY <1>1 DEF Sched
<1> HIDE DEF n
<1>3. Told(n) /\ Owing(n, w) /\ Alike(s, n)
  BY <1>2 DEF Fit, Told, Owing, Alike, WritingOf, BrokenOf
<1> QED
  BY <1>1, <1>3 DEF Fit, n

LEMMA HoldMaps ==
  ASSUME Inv, Debts(sched, written),
         \/ \E r \in PauseReasons : Pause(r) \/ Resume(r)
         \/ \E r \in CriticalReasons : CriticalStart(r) \/ CriticalEnd(r)
  PROVE  Debts(sched', written') /\ Maps
<1>1. Fit(sched, written) /\ sched \in Sched /\ written' = written
  BY DEF Inv, Good, Fit, Debts, Pause, Resume, CriticalStart, CriticalEnd
<1>2. /\ sched.pauses \in SUBSET PauseReasons
      /\ sched.criticals \in SUBSET CriticalReasons
      /\ \A p, c : [sched EXCEPT !.pauses = p] =
                     [sched EXCEPT !.pauses = p, !.criticals = sched.criticals]
                   /\ [sched EXCEPT !.criticals = c] =
                     [sched EXCEPT !.pauses = sched.pauses, !.criticals = c]
  BY <1>1 DEF Sched
<1>3. \E p \in SUBSET PauseReasons, c \in SUBSET CriticalReasons :
        LET h == [sched EXCEPT !.pauses = p, !.criticals = c]
        IN  sched' = h \/ sched' = pump(notifyPauseWaiters(h))
  <2>1. CASE \E r \in PauseReasons : Pause(r)
    <3> PICK r \in PauseReasons : Pause(r)
      BY <2>1
    <3> DEFINE p == sched.pauses \cup {r}
    <3>1. p \in SUBSET PauseReasons /\ sched' = [sched EXCEPT !.pauses = p]
      BY <1>2 DEF Pause
    <3> HIDE DEF p
    <3> QED
      BY <1>2, <3>1
  <2>2. CASE \E r \in PauseReasons : Resume(r)
    <3> PICK r \in PauseReasons : Resume(r)
      BY <2>2
    <3> DEFINE p == sched.pauses \ {r}
    <3>1. /\ p \in SUBSET PauseReasons
          /\ sched' = pump(notifyPauseWaiters([sched EXCEPT !.pauses = p]))
      BY <1>2 DEF Resume
    <3> HIDE DEF p
    <3> QED
      BY <1>2, <3>1
  <2>3. CASE \E r \in CriticalReasons : CriticalStart(r)
    <3> PICK r \in CriticalReasons : CriticalStart(r)
      BY <2>3
    <3> DEFINE c == sched.criticals \cup {r}
    <3>1. /\ c \in SUBSET CriticalReasons
          /\ sched' = pump(notifyPauseWaiters([sched EXCEPT !.criticals = c]))
      BY <1>2 DEF CriticalStart
    <3> HIDE DEF c
    <3> QED
      BY <1>2, <3>1
  <2>4. CASE \E r \in CriticalReasons : CriticalEnd(r)
    <3> PICK r \in CriticalReasons : CriticalEnd(r)
      BY <2>4
    <3> DEFINE c == sched.criticals \ {r}
    <3>1. /\ c \in SUBSET CriticalReasons
          /\ sched' = pump(notifyPauseWaiters([sched EXCEPT !.criticals = c]))
      BY <1>2 DEF CriticalEnd
    <3> HIDE DEF c
    <3> QED
      BY <1>2, <3>1
  <2> QED
    BY <2>1, <2>2, <2>3, <2>4
<1>4. PICK p \in SUBSET PauseReasons, c \in SUBSET CriticalReasons :
        LET h == [sched EXCEPT !.pauses = p, !.criticals = c]
        IN  sched' = h \/ sched' = pump(notifyPauseWaiters(h))
  BY <1>3
<1> DEFINE h == [sched EXCEPT !.pauses = p, !.criticals = c]
<1>5. Fit(h, written) /\ Alike(sched, h)
  BY <1>1, HoldAlike
<1>6. sched' = h \/ sched' = pump(notifyPauseWaiters(h))
  BY <1>4
<1> HIDE DEF h
<1>7. CASE sched' = h
  BY <1>1, <1>5, <1>7, AlikeStutters DEF Fit, Debts
<1>8. CASE sched' = pump(notifyPauseWaiters(h))
  BY <1>1, <1>5, <1>8, WakesMap
<1> QED
  BY <1>6, <1>7, <1>8

LEMMA AbortAllMaps ==
  ASSUME Inv, Debts(sched, written), AbortAll \/ \E t \in Task : AbortNext(t)
  PROVE  Debts(sched', written') /\ Maps
<1>1. CASE AbortAll
  <2>1. sched' = sched /\ written' = written
    BY <1>1 DEF AbortAll
  <2> QED
    BY <2>1, AlikeStutters DEF Alike
<1>2. CASE \E t \in Task : AbortNext(t)
  <2> PICK t \in Task : AbortNext(t)
    BY <1>2
  <2>1. sched' = abort(sched, t) /\ written' = written /\ Fit(sched, written)
    BY DEF AbortNext, Inv, Debts, Fit
  <2>2. Fit(sched', written) /\ Aborts(sched, sched', t)
    BY <2>1, AbortAborts
  <2> QED
    BY <2>1, <2>2, AbortMaps DEF Fit, Debts
<1> QED
  BY <1>1, <1>2

--------------------------------------------------------------------------------
(***************************************************************************)
(* The turns.                                                              *)
(***************************************************************************)

LEMMA StepsAlike ==
  ASSUME NEW s, NEW n, NEW t \in Task, Steps(s, n, t),
         s.run[t] \notin Writing \cup {"threw"}, n.run[t] \notin Writing,
         n.run[t] = "threw" => t \in s.aborted
  PROVE  Alike(s, n)
<1>1. WritingOf(n) = WritingOf(s)
  BY DEF Steps, WritingOf
<1>2. BrokenOf(n) = BrokenOf(s)
  BY DEF Steps, BrokenOf
<1> QED
  BY <1>1, <1>2 DEF Steps, Alike

\* A runner that moves on without the scheduler's knowing.
LEMMA MovedSteps ==
  ASSUME NEW s \in Sched, NEW w, NEW t \in Task, Told(s), Owing(s, w),
         NEW r \in Stage,
         r = "threw" /\ t \notin s.aborted => s.status[t] = "running",
         r \notin {"waiting", "woken", "clear", "sleeping"}
  PROVE  LET n == moved(s, t, r)
         IN  /\ Steps(s, n, t) /\ n.run[t] = r /\ n.status = s.status
             /\ Told(n) /\ Owing(n, w)
<1> DEFINE n == moved(s, t, r)
<1>1. /\ n.seq = s.seq /\ n.key = s.key /\ n.status = s.status
      /\ n.promise = s.promise /\ n.aborted = s.aborted
      /\ n.run = [s.run EXCEPT ![t] = r] /\ s.run \in [Task -> Stage]
  BY DEF moved, Sched
<1> HIDE DEF n
<1>2. n.run[t] = r /\ \A u \in Task \ {t} : n.run[u] = s.run[u]
  BY <1>1
<1>3. Told(n)
  BY <1>1 DEF Told
<1>4. Owing(n, w)
  BY <1>1, <1>2 DEF Owing
<1> QED
  BY <1>1, <1>2, <1>3, <1>4 DEF Steps, n

\* What a turn may rely on.
LEMMA Running ==
  ASSUME Inv, Debts(sched, written), NEW t \in Task, sched.run[t] # "idle"
  PROVE  /\ sched \in Sched /\ written \in [Task -> Nat]
         /\ sched.key[t] \in Keys /\ Batches[sched.key[t]] \in Nat
         /\ t \in 1 .. sched.seq
         /\ sched.status[t] = "running" =>
              /\ sched.promise[t] = "pending" /\ Queue!Pending(t)
              /\ \A u \in WritingOf(sched) : u = t
<1>1. Good(sched, written) /\ Told(sched)
  BY DEF Inv, Debts
<1>2. /\ sched.key[t] \in Keys /\ Batches[sched.key[t]] \in Nat
      /\ sched.status[t] \in {"running", "paused", "ended"}
  BY <1>1, Begun
<1>3. t \in 1 .. sched.seq
  <2>1. sched.seq \in Int /\ t \in Int /\ t >= 1
    BY <1>1, BoundsAssumption DEF Good, Sched, Task
  <2>2. ~ (t > sched.seq)
    BY <1>1, <1>2 DEF Good, Fresh
  <2> QED
    BY <2>1, <2>2
<1>4. ASSUME sched.status[t] = "running"
      PROVE  /\ sched.promise[t] = "pending" /\ Queue!Pending(t)
             /\ \A u \in WritingOf(sched) : u = t
  <2>1. sched.promise[t] = "pending"
    BY <1>1, <1>4 DEF Told
  <2>2. t \in sched.active
    BY <1>1, <1>4 DEF Good, Lists
  <2>3. \A u \in WritingOf(sched) : u \in sched.active
    BY <1>1 DEF WritingOf, Writing, Good, Slots, Lists
  <2> QED
    BY <1>1, <1>3, <2>1, <2>2, <2>3 DEF Good, OneActive, Queue!Pending
<1> QED
  BY <1>1, <1>2, <1>3, <1>4 DEF Good

LEMMA WakesUpMaps ==
  ASSUME Inv, Debts(sched, written), NEW t \in Task,
         RunnerStarts(t) \/ RunnerWakes(t)
  PROVE  Debts(sched', written') /\ Maps
<1>1. /\ sched.run[t] \in {"started", "woken", "sleeping"} /\ written' = written
  BY DEF RunnerStarts, RunnerWakes
<1>2. sched \in Sched /\ Slots(sched) /\ Told(sched) /\ Owing(sched, written)
  BY DEF Inv, Good, Debts
<1>3. /\ Steps(sched, sched', t) /\ Told(sched') /\ Owing(sched', written)
      /\ sched'.run[t] \in {"threw", "waiting", "clear", "returned"}
      /\ sched'.run[t] = "threw" => t \in sched.aborted
  <2>1. CASE RunnerStarts(t) /\ t \in sched.aborted
    <3>1. sched' = moved(sched, t, "threw")
      BY <2>1 DEF RunnerStarts, moved
    <3>2. "threw" \in Stage /\ "threw" \notin {"waiting", "woken", "clear", "sleeping"}
      BY DEF Stage
    <3> QED
      BY <1>2, <2>1, <3>1, <3>2, MovedSteps
  <2>2. CASE RunnerStarts(t) /\ t \notin sched.aborted
    <3>1. sched' = proceed(sched, t, written[t]) /\ sched.run[t] = "started"
      BY <2>2 DEF RunnerStarts
    <3>2. sched.status[t] # "ended"
      BY <1>2, <3>1 DEF Slots
    <3> QED
      BY <1>2, <3>1, <3>2, ProceedSteps
  <2>3. CASE RunnerWakes(t)
    <3>1. sched' = waitIfPaused(sched, t) /\ sched.run[t] \in {"woken", "sleeping"}
      BY <2>3 DEF RunnerWakes
    <3>2. t \in sched.aborted \/ sched.status[t] # "ended"
      BY <1>2, <3>1 DEF Slots
    <3>3. written[t] < Batches[sched.key[t]] \/ Cleans[sched.key[t]]
      BY <1>2, <3>1 DEF Owing
    <3> QED
      BY <1>2, <3>1, <3>2, <3>3, WaitSteps
  <2> QED
    BY <2>1, <2>2, <2>3
<1>4. sched.run[t] \notin Writing \cup {"threw"} /\ sched'.run[t] \notin Writing
  BY <1>1, <1>3 DEF Writing
<1>5. Alike(sched, sched')
  BY <1>3, <1>4, StepsAlike
<1> QED
  BY <1>1, <1>3, <1>5, AlikeStutters DEF Debts

LEMMA WriteStartsMaps ==
  ASSUME Inv, Debts(sched, written), NEW t \in Task, WriteStarts(t)
  PROVE  Debts(sched', written') /\ Maps
<1> DEFINE r == IF t \in sched.aborted THEN "threw"
                ELSE IF written[t] < Batches[sched.key[t]] THEN "writing"
                ELSE "cleaning"
<1>1. sched.run[t] = "clear" /\ written' = written /\ sched' = moved(sched, t, r)
  BY DEF WriteStarts, moved
<1>2. /\ Good(sched, written) /\ sched \in Sched /\ Slots(sched)
      /\ Told(sched) /\ Owing(sched, written)
  BY DEF Inv, Good, Debts
<1>3. r \in Stage /\ r \notin {"waiting", "woken", "clear", "sleeping"}
      /\ (r = "threw" <=> t \in sched.aborted) /\ (r # "threw" => r \in Writing)
  BY DEF Stage, Writing
<1> HIDE DEF r
<1>4. /\ Steps(sched, sched', t) /\ sched'.run[t] = r
      /\ Told(sched') /\ Owing(sched', written)
  BY <1>1, <1>2, <1>3, MovedSteps
<1>5. CASE t \in sched.aborted
  <2>1. sched.run[t] \notin Writing \cup {"threw"} /\ r \notin Writing
    BY <1>1, <1>3, <1>5 DEF Writing
  <2>2. Alike(sched, sched')
    BY <1>4, <1>5, <2>1, StepsAlike
  <2> QED
    BY <1>1, <1>4, <2>2, AlikeStutters DEF Debts
<1>6. CASE t \notin sched.aborted
  <2>1. sched.status[t] = "running"
    BY <1>1, <1>2, <1>6 DEF Slots
  <2>2. Queue!Pending(t) /\ \A u \in WritingOf(sched) : u = t
    BY <1>1, <2>1, Running
  <2>3. WritingOf(sched) = {} /\ t \notin BrokenOf(sched)
    BY <1>1, <2>2 DEF WritingOf, BrokenOf, Writing
  <2>4. written[t] < Batches[sched.key[t]] \/ Cleans[sched.key[t]]
    BY <1>1, <1>2 DEF Owing
  <2>5. WritingOf(sched') = {t}
    BY <1>3, <1>4, <1>6, <2>3 DEF WritingOf, Steps
  <2>6. BrokenOf(sched') = BrokenOf(sched)
    BY <1>1, <1>3, <1>4, <1>6 DEF BrokenOf, Steps
  <2>7. \A u \in Queue!PendingOf(sched.key[t]) : t <= u
    <3> SUFFICES ASSUME NEW u \in Queue!PendingOf(sched.key[t]), ~ (t <= u)
                 PROVE  FALSE
      OBVIOUS
    <3>1. u \in Task /\ sched.key[u] = sched.key[t] /\ sched.promise[u] = "pending"
      BY DEF Queue!PendingOf, Queue!Pending, Queue!Task, Task
    <3>2. u < t
      BY <3>1 DEF Task
    <3>3. sched.key[t] \in Keys
      BY <1>1, Running
    <3>4. sched.status[u] = "ended"
      BY <1>1, <1>2, <3>1, <3>2, <3>3 DEF Good, Order
    <3> QED
      BY <1>2, <3>1, <3>4 DEF Told
  <2>8. /\ WritingOf(sched) = {u \in Task : sched.run[u] \in Writing}
        /\ WritingOf(sched') = {u \in Task : sched'.run[u] \in Writing}
        /\ BrokenOf(sched) = {u \in Task : sched.run[u] = "threw" /\ u \notin sched.aborted}
        /\ BrokenOf(sched') = {u \in Task : sched'.run[u] = "threw" /\ u \notin sched'.aborted}
    BY DEF WritingOf, BrokenOf
  <2>9. Queue!Begin(t)
    BY <1>1, <1>4, <1>6, <2>2, <2>3, <2>4, <2>5, <2>6, <2>7, <2>8
       DEF Queue!Begin, Steps
  <2>10. t \in Queue!Task
    BY DEF Queue!Task, Task
  <2> QED
    BY <1>1, <1>4, <2>9, <2>10 DEF Maps, Queue!QueueNext, Debts
<1> QED
  BY <1>5, <1>6

\* A write ends, well or not: t no longer writes.
LEMMA WriteEnds ==
  ASSUME Inv, NEW t \in Task, Steps(sched, sched', t),
         sched.run[t] \in Writing, sched'.run[t] \notin Writing
  PROVE  /\ t \in WritingOf(sched)
         /\ WritingOf(sched') = WritingOf(sched) \ {t}
         /\ sched'.run[t] # "threw" \/ t \in sched.aborted
              => BrokenOf(sched') = BrokenOf(sched)
         /\ sched'.run[t] = "threw" /\ t \notin sched.aborted
              => BrokenOf(sched') = BrokenOf(sched) \cup {t}
<1>1. sched.run[t] # "threw"
  BY DEF Writing
<1>2. t \in WritingOf(sched) /\ WritingOf(sched') = WritingOf(sched) \ {t}
  BY DEF WritingOf, Steps
<1>3. sched'.run[t] # "threw" \/ t \in sched.aborted
        => BrokenOf(sched') = BrokenOf(sched)
  BY <1>1 DEF BrokenOf, Steps
<1>4. sched'.run[t] = "threw" /\ t \notin sched.aborted
        => BrokenOf(sched') = BrokenOf(sched) \cup {t}
  BY <1>1 DEF BrokenOf, Steps
<1> QED
  BY <1>2, <1>3, <1>4

LEMMA LandMaps ==
  ASSUME Inv, Debts(sched, written), NEW t \in Task, Steps(sched, sched', t),
         sched.run[t] \in Writing, sched'.run[t] \notin Writing,
         sched'.run[t] = "threw" => t \in sched.aborted,
         written' = [written EXCEPT ![t] = IF @ < Batches[sched.key[t]]
                                             THEN @ + 1 ELSE @]
  PROVE  Maps
<1>1. /\ t \in WritingOf(sched) /\ WritingOf(sched') = WritingOf(sched) \ {t}
      /\ BrokenOf(sched') = BrokenOf(sched)
  BY WriteEnds
<1>2. /\ WritingOf(sched) = {u \in Task : sched.run[u] \in Writing}
      /\ WritingOf(sched') = {u \in Task : sched'.run[u] \in Writing}
      /\ BrokenOf(sched) = {u \in Task : sched.run[u] = "threw" /\ u \notin sched.aborted}
      /\ BrokenOf(sched') = {u \in Task : sched'.run[u] = "threw" /\ u \notin sched'.aborted}
  BY DEF WritingOf, BrokenOf
<1>3. Queue!Land(t)
  BY <1>1, <1>2 DEF Queue!Land, Steps
<1>4. t \in Queue!Task
  BY DEF Queue!Task, Task
<1> QED
  BY <1>3, <1>4 DEF Maps, Queue!QueueNext

LEMMA BatchWrittenMaps ==
  ASSUME Inv, Debts(sched, written), NEW t \in Task, BatchWritten(t)
  PROVE  Debts(sched', written') /\ Maps
<1> DEFINE v == [written EXCEPT ![t] = @ + 1]
           k == sched.key[t]
<1>1. sched.run[t] = "writing" /\ written' = v
  BY DEF BatchWritten
<1>2. /\ sched \in Sched /\ Told(sched) /\ Owing(sched, written)
      /\ sched.status[t] = "running"
      /\ written[t] # Batches[k] /\ written[t] <= Batches[k]
      /\ written \in [Task -> Nat] /\ Batches[k] \in Nat /\ k \in Keys
  BY <1>1, Running DEF Inv, Good, Debts, Slots, Counted
<1>3. v[t] = written[t] + 1 /\ \A u \in Task \ {t} : v[u] = written[u]
  BY <1>2
<1>4. Owing(sched, v)
  BY <1>1, <1>2, <1>3 DEF Owing
<1>5. /\ Steps(sched, sched', t) /\ Told(sched') /\ Owing(sched', v)
      /\ sched'.run[t] \in {"threw", "waiting", "clear", "returned", "sleeping"}
      /\ sched'.run[t] = "threw" => t \in sched.aborted
  <2>1. CASE v[t] < Batches[k] /\ Delays[k]
    <3>1. sched' = [sched EXCEPT !.run[t] = "sleeping"]
      BY <1>3, <2>1 DEF BatchWritten
    <3>2. /\ Steps(sched, sched', t) /\ sched'.run[t] = "sleeping"
          /\ sched'.status = sched.status
      BY <1>2, <3>1 DEF Sched, Steps
    <3>3. Told(sched')
      BY <1>2, <3>2 DEF Steps, Told
    <3> HIDE DEF v
    <3>4. Owing(sched', v)
      BY <1>4, <2>1, <3>2 DEF Steps, Owing
    <3> QED
      BY <3>2, <3>3, <3>4
  <2>2. CASE ~ (v[t] < Batches[k] /\ Delays[k])
    <3>1. sched' = proceed(sched, t, v[t])
      BY <1>3, <2>2 DEF BatchWritten
    <3> HIDE DEF v
    <3> QED
      BY <1>2, <1>4, <3>1, ProceedSteps
  <2> QED
    BY <2>1, <2>2
<1>6. written' = [written EXCEPT ![t] = IF @ < Batches[k] THEN @ + 1 ELSE @]
  <2>1. written[t] \in Nat /\ written[t] < Batches[k]
    BY <1>2
  <2> HIDE DEF k
  <2> QED
    BY <1>1, <2>1
<1>7. sched.run[t] \in Writing /\ sched'.run[t] \notin Writing
  BY <1>1, <1>5 DEF Writing
<1>8. Maps
  BY <1>5, <1>6, <1>7, LandMaps
<1> QED
  BY <1>1, <1>5, <1>8 DEF Debts

LEMMA WriteOverMaps ==
  ASSUME Inv, Debts(sched, written), NEW t \in Task, Cleaned(t) \/ WriteFails(t)
  PROVE  Debts(sched', written') /\ Maps
<1> DEFINE k == sched.key[t]
<1>1. sched.run[t] \in Writing /\ written' = written
  BY DEF Cleaned, WriteFails, Writing
<1>2. /\ sched \in Sched /\ Told(sched) /\ Owing(sched, written)
      /\ written \in [Task -> Nat] /\ Batches[k] \in Nat
      /\ sched.status[t] = "running"
  BY <1>1, Running DEF Inv, Good, Debts, Slots, Writing
<1>3. PICK r \in {"returned", "threw"} :
        /\ sched' = moved(sched, t, r)
        /\ r = "returned" => sched.run[t] = "cleaning"
  BY DEF Cleaned, WriteFails, moved
<1>4. /\ r \in Stage /\ r \notin {"waiting", "woken", "clear", "sleeping"}
      /\ r \notin Writing
  BY DEF Stage, Writing
<1>5. /\ Steps(sched, sched', t) /\ sched'.run[t] = r
      /\ Told(sched') /\ Owing(sched', written)
  BY <1>2, <1>3, <1>4, MovedSteps
<1>6. CASE r = "returned"
  <2>1. written[t] = Batches[k]
    BY <1>3, <1>6 DEF Inv, Good, Counted
  <2>2. written' = [written EXCEPT ![t] = IF @ < Batches[k] THEN @ + 1 ELSE @]
    BY <1>1, <1>2, <2>1
  <2>3. Maps
    BY <1>1, <1>4, <1>5, <1>6, <2>2, LandMaps
  <2> QED
    BY <1>1, <1>5, <2>3 DEF Debts
<1>7. CASE r = "threw"
  <2>1. /\ t \in WritingOf(sched) /\ WritingOf(sched') = WritingOf(sched) \ {t}
        /\ BrokenOf(sched') = BrokenOf(sched) \cup ({t} \ sched.aborted)
    BY <1>1, <1>4, <1>5, <1>7, WriteEnds
  <2>2. /\ WritingOf(sched) = {u \in Task : sched.run[u] \in Writing}
        /\ WritingOf(sched') = {u \in Task : sched'.run[u] \in Writing}
        /\ BrokenOf(sched) = {u \in Task : sched.run[u] = "threw" /\ u \notin sched.aborted}
        /\ BrokenOf(sched') = {u \in Task : sched'.run[u] = "threw" /\ u \notin sched'.aborted}
    BY DEF WritingOf, BrokenOf
  <2>3. Queue!Break(t) /\ t \in Queue!Task
    BY <1>1, <1>5, <2>1, <2>2 DEF Queue!Break, Steps, Queue!Task, Task
  <2> QED
    BY <1>1, <1>5, <2>3 DEF Debts, Maps, Queue!QueueNext
<1> QED
  BY <1>6, <1>7

\* The promise of a task settles, unless an abort was quicker.
LEMMA SettlesMap ==
  ASSUME Inv, Debts(sched, written), NEW t \in Task, Succeeds(t) \/ Throws(t)
  PROVE  Debts(sched', written') /\ Maps
<1>1. PICK how \in {"resolved", "rejected"} :
        /\ sched' = [settle(completeTask(sched, t), t, how)
                       EXCEPT !.run[t] = "finishing"]
        /\ sched.run[t] = IF how = "resolved" THEN "returned" ELSE "threw"
        /\ written' = written
  BY DEF Succeeds, Throws
<1>2. /\ sched \in Sched /\ Told(sched) /\ Owing(sched, written)
      /\ Slots(sched) /\ Counted(sched, written)
      /\ t \in 1 .. sched.seq /\ sched.key[t] \in Keys
  BY <1>1, Running DEF Inv, Good, Debts
<1>3. /\ sched.run \in [Task -> Stage] /\ sched.status \in [Task -> Status]
      /\ sched.promise \in [Task -> {"pending", "resolved", "rejected"}]
  BY <1>2 DEF Sched
<1>4. /\ sched'.key = sched.key /\ sched'.seq = sched.seq
      /\ sched'.aborted = sched.aborted
      /\ sched'.promise = [sched.promise EXCEPT ![t] =
                             IF sched.promise[t] = "pending" THEN how
                             ELSE sched.promise[t]]
      /\ sched'.status = [sched.status EXCEPT ![t] = "ended"]
      /\ sched'.run = [sched.run EXCEPT ![t] = "finishing"]
  BY <1>1, <1>2 DEF settle, completeTask, Sched
<1>5. /\ sched'.run[t] = "finishing" /\ sched'.status[t] = "ended"
      /\ sched'.promise[t] # "pending"
      /\ \A u \in Task \ {t} : /\ sched'.run[u] = sched.run[u]
                               /\ sched'.status[u] = sched.status[u]
                               /\ sched'.promise[u] = sched.promise[u]
  BY <1>3, <1>4
<1>6. Told(sched')
  BY <1>2, <1>5 DEF Told
<1>7. Owing(sched', written)
  BY <1>2, <1>4, <1>5 DEF Owing
<1>8. t \notin WritingOf(sched) /\ WritingOf(sched') = WritingOf(sched)
  BY <1>1, <1>5 DEF WritingOf, Writing
<1>9. BrokenOf(sched') = BrokenOf(sched) \ {t}
  BY <1>4, <1>5 DEF BrokenOf
<1>10. /\ WritingOf(sched) = {u \in Task : sched.run[u] \in Writing}
       /\ WritingOf(sched') = {u \in Task : sched'.run[u] \in Writing}
       /\ BrokenOf(sched) = {u \in Task : sched.run[u] = "threw" /\ u \notin sched.aborted}
       /\ BrokenOf(sched') = {u \in Task : sched'.run[u] = "threw" /\ u \notin sched'.aborted}
  BY DEF WritingOf, BrokenOf
<1>11. Queue!Pending(t) <=> sched.promise[t] = "pending"
  BY <1>2 DEF Queue!Pending
<1>12. CASE how = "resolved"
  <2>1. sched.status[t] = "running" /\ written[t] = Batches[sched.key[t]]
    BY <1>1, <1>2, <1>12 DEF Slots, Counted
  <2>2. sched.promise[t] = "pending" /\ t \notin BrokenOf(sched)
    BY <1>1, <1>2, <1>12, <2>1 DEF Told, BrokenOf
  <2>3. /\ sched'.promise = [sched.promise EXCEPT ![t] = "resolved"]
        /\ BrokenOf(sched') = BrokenOf(sched)
    BY <1>4, <1>9, <1>12, <2>2
  <2>4. Queue!Resolve(t) /\ t \in Queue!Task
    BY <1>1, <1>4, <1>8, <1>10, <1>11, <2>1, <2>2, <2>3
       DEF Queue!Resolve, Queue!Task, Task
  <2> QED
    BY <1>1, <1>6, <1>7, <2>4 DEF Debts, Maps, Queue!QueueNext
<1>13. CASE how = "rejected" /\ sched.promise[t] = "pending"
  <2>1. t \in sched.aborted \cup BrokenOf(sched)
    BY <1>1, <1>13 DEF BrokenOf
  <2>2. sched'.promise = Rejecting(sched.promise, {t})
    <3>1. sched'.promise = [sched.promise EXCEPT ![t] = "rejected"]
      BY <1>4, <1>13
    <3>2. sched.promise \in [Task -> {"pending", "resolved", "rejected"}]
      BY <1>3
    <3>3. [sched.promise EXCEPT ![t] = "rejected"] = Rejecting(sched.promise, {t})
      BY <3>2, RejectOne
    <3> QED
      BY <3>1, <3>3
  <2>3. sched'.promise = Queue!rejecting({t})
    BY <2>2 DEF Rejecting, Queue!rejecting, Queue!Task, Task
  <2>4. Queue!Reject(t) /\ t \in Queue!Task
    BY <1>1, <1>4, <1>8, <1>9, <1>10, <1>11, <1>13, <2>1, <2>3
       DEF Queue!Reject, Queue!Task, Task
  <2> QED
    BY <1>1, <1>6, <1>7, <2>4 DEF Debts, Maps, Queue!QueueNext
<1>14. CASE how = "rejected" /\ sched.promise[t] # "pending"
  <2>1. t \in sched.aborted
    BY <1>1, <1>2, <1>14 DEF Told, Owing
  <2>2. BrokenOf(sched') = BrokenOf(sched)
    BY <1>9, <2>1 DEF BrokenOf
  <2>3. sched'.promise = sched.promise
    BY <1>3, <1>4, <1>14
  <2>4. Alike(sched, sched')
    BY <1>4, <1>8, <2>2, <2>3 DEF Alike
  <2> QED
    BY <1>1, <1>6, <1>7, <2>4, AlikeStutters DEF Debts
<1> QED
  BY <1>12, <1>13, <1>14

LEMMA FinishesMap ==
  ASSUME Inv, Debts(sched, written), NEW t \in Task, Finishes(t)
  PROVE  Debts(sched', written') /\ Maps
<1> DEFINE r == "done"
           d == moved(sched, t, r)
<1>1. /\ sched.run[t] = "finishing" /\ written' = written
      /\ sched' = pump(notifyPauseWaiters(d))
  BY DEF Finishes, moved
<1>2. /\ Good(sched, written) /\ sched \in Sched /\ written \in [Task -> Nat]
      /\ Told(sched) /\ Owing(sched, written) /\ Counted(sched, written)
      /\ sched.key[t] \in Keys /\ Batches[sched.key[t]] \in Nat
  BY <1>1, Running DEF Inv, Good, Debts
<1>3. /\ r \in {"writing", "cleaning", "returned", "sleeping", "threw", "done"}
      /\ r \in Stage /\ r \notin {"waiting", "woken", "clear", "sleeping"}
      /\ r \notin {"writing", "cleaning", "returned", "sleeping"} /\ r # "threw"
      /\ r \notin Writing
  BY DEF Stage, Writing
<1>4. /\ written[t] <= Batches[sched.key[t]]
      /\ sched.promise[t] = "resolved" => written[t] = Batches[sched.key[t]]
  BY <1>2 DEF Counted
<1> HIDE DEF r
<1>5. Good(d, written)
  BY <1>1, <1>2, <1>3, <1>4, RunGood
<1>6. /\ Steps(sched, d, t) /\ d.run[t] = r /\ Told(d) /\ Owing(d, written)
  BY <1>2, <1>3, MovedSteps
<1>7. sched.run[t] \notin Writing \cup {"threw"}
  BY <1>1 DEF Writing
<1> HIDE DEF d
<1>8. Alike(sched, d)
  BY <1>3, <1>6, <1>7, StepsAlike
<1> QED
  BY <1>1, <1>5, <1>6, <1>8, WakesMap DEF Fit

--------------------------------------------------------------------------------
(***************************************************************************)
(* The theorem.                                                            *)
(***************************************************************************)

LEMMA NextMaps ==
  ASSUME Inv, Debts(sched, written), [Next]_vars
  PROVE  Debts(sched', written') /\ Maps
<1>1. CASE UNCHANGED vars
  <2>1. sched' = sched /\ written' = written
    BY <1>1 DEF vars
  <2> QED
    BY <2>1, AlikeStutters DEF Alike
<1>2. CASE \E k \in Keys : BatchSave(k)
  BY <1>2, BatchSaveMaps
<1>3. CASE \/ \E r \in PauseReasons : Pause(r) \/ Resume(r)
           \/ \E r \in CriticalReasons : CriticalStart(r) \/ CriticalEnd(r)
  BY <1>3, HoldMaps
<1>4. CASE AbortAll \/ \E t \in Task : AbortNext(t)
  BY <1>4, AbortAllMaps
<1>5. CASE \E t \in Task : Turn(t)
  <2> PICK t \in Task : Turn(t)
    BY <1>5
  <2> QED
    BY WakesUpMaps, WriteStartsMaps, BatchWrittenMaps, WriteOverMaps, SettlesMap,
       FinishesMap DEF Turn
<1> QED
  BY <1>1, <1>2, <1>3, <1>4, <1>5 DEF Next

LEMMA InitMaps == Init => Debts(sched, written) /\ Queue!QueueInit
<1> SUFFICES ASSUME Init PROVE Debts(sched, written) /\ Queue!QueueInit
  OBVIOUS
<1>1. Debts(sched, written)
  BY DEF Init, Debts, Told, Owing
<1>2. {t \in Task : sched.run[t] \in Writing} = {}
  BY DEF Init, Writing
<1>3. {t \in Task : sched.run[t] = "threw" /\ t \notin sched.aborted} = {}
  BY DEF Init
<1>4. Queue!QueueInit
  BY <1>2, <1>3 DEF Init, Queue!QueueInit, Queue!Task, Task
<1> QED
  BY <1>1, <1>4

\* The scheduler keeps what it promises to those who submit: whatever is paused,
\* replaced, aborted and failing, its every step is a step of the write queue or
\* one that the queue does not see.
THEOREM SchedulerImplementsQueue == Spec => ImplementsQueue
<1> DEFINE D == Debts(sched, written)
<1>1. Init => D /\ Queue!QueueInit
  BY InitMaps
<1>2. Inv /\ D /\ [Next]_vars => D' /\ [Queue!QueueNext]_Queue!queueVars
  <2> SUFFICES ASSUME Inv, D, [Next]_vars
               PROVE  D' /\ [Queue!QueueNext]_Queue!queueVars
    OBVIOUS
  <2>1. Debts(sched', written') /\ Maps
    BY NextMaps
  <2> QED
    BY <2>1 DEF Maps
<1> HIDE DEF D
<1> QED
  BY <1>1, <1>2, SpecInv, PTL DEF Spec, ImplementsQueue, Queue!Spec
================================================================================
