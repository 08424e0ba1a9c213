------------------------------ MODULE WriteQueue ------------------------------
(***************************************************************************)
(* What the database write scheduler promises to those who submit tasks:    *)
(* one task writes at a time, an older task of a key never after a newer    *)
(* one, a task that was stopped starts no write, and a promise says what    *)
(* became of its task.  Pauses, priorities and slots are not to be seen.    *)
(***************************************************************************)
EXTENDS Naturals

CONSTANTS
  Keys,      \* family and owner of a task
  NoKey,     \* of a task not yet submitted
  Replaces,  \* whether the tasks of a key replace their elders
  Batches,   \* how many batches the rows of a key make
  Cleans,    \* whether a clean-up follows them
  MaxTasks   \* bound: tasks ever submitted

Task == 1 .. MaxTasks

VARIABLES
  submitted,  \* how many tasks have been submitted
  keyOf,      \* the key of each
  writing,    \* the tasks with a batch or a clean-up under way
  written,    \* batches of each task that are in the database
  stopped,    \* tasks that were aborted
  broken,     \* tasks of which a write failed, before that is known
  promise     \* what the submitter of each task was told

queueVars == <<submitted, keyOf, writing, written, stopped, broken, promise>>

QueueInit ==
  /\ submitted = 0
  /\ keyOf = [t \in Task |-> NoKey]
  /\ writing = {}
  /\ written = [t \in Task |-> 0]
  /\ stopped = {}
  /\ broken = {}
  /\ promise = [t \in Task |-> "pending"]

Pending(t) == t \in 1 .. submitted /\ promise[t] = "pending"

PendingOf(k) == {t \in Task : Pending(t) /\ keyOf[t] = k}

rejecting(R) == [t \in Task |-> IF t \in R THEN "rejected" ELSE promise[t]]

\* A submission that replaces aborts the newest of its elders; those that have
\* not begun are rejected at once.
Submit(k) ==
  /\ submitted < MaxTasks
  /\ submitted' = submitted + 1
  /\ keyOf' = [keyOf EXCEPT ![submitted'] = k]
  /\ \E S \in SUBSET PendingOf(k), R \in SUBSET (PendingOf(k) \ writing) :
       /\ ~Replaces[k] => S = {} /\ R = {}
       /\ stopped' = stopped \cup S
       /\ broken' = broken \ S
       /\ promise' = rejecting(R)
  /\ UNCHANGED <<writing, written>>

\* Some tasks are aborted: those that wait are rejected, the others may end.
Abort(S) ==
  /\ stopped' = stopped \cup S
  /\ broken' = broken \ S
  /\ \E R \in SUBSET {t \in S \ writing : Pending(t)} : promise' = rejecting(R)
  /\ UNCHANGED <<submitted, keyOf, writing, written>>

Begin(t) ==
  /\ writing = {} /\ Pending(t)
  /\ t \notin stopped \cup broken
  /\ written[t] < Batches[keyOf[t]] \/ Cleans[keyOf[t]]
  /\ \A u \in PendingOf(keyOf[t]) : t <= u
  /\ writing' = {t}
  /\ UNCHANGED <<submitted, keyOf, written, stopped, broken, promise>>

\* A batch is in the database, or the clean-up is done.
Land(t) ==
  /\ t \in writing
  /\ writing' = writing \ {t}
  /\ written' = [written EXCEPT ![t] = IF @ < Batches[keyOf[t]] THEN @ + 1 ELSE @]
  /\ UNCHANGED <<submitted, keyOf, stopped, broken, promise>>

Break(t) ==
  /\ t \in writing
  /\ writing' = writing \ {t}
  /\ broken' = broken \cup ({t} \ stopped)
  /\ UNCHANGED <<submitted, keyOf, written, stopped, promise>>

Resolve(t) ==
  /\ Pending(t) /\ t \notin writing \cup broken
  /\ written[t] = Batches[keyOf[t]]
  /\ promise' = [promise EXCEPT ![t] = "resolved"]
  /\ UNCHANGED <<submitted, keyOf, writing, written, stopped, broken>>

Reject(t) ==
  /\ Pending(t) /\ t \notin writing
  /\ t \in stopped \cup broken
  /\ promise' = rejecting({t})
  /\ broken' = broken \ {t}
  /\ UNCHANGED <<submitted, keyOf, writing, written, stopped>>

QueueNext ==
  \/ \E k \in Keys : Submit(k)
  \/ \E S \in SUBSET Task : Abort(S)
  \/ \E t \in Task : Begin(t) \/ Land(t) \/ Break(t) \/ Resolve(t) \/ Reject(t)

Spec == QueueInit /\ [][QueueNext]_queueVars
================================================================================
