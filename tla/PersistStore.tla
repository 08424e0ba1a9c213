----------------------------- MODULE PersistStore -----------------------------
(***************************************************************************)
(* The store behind every service of the wallet that keeps its state on    *)
(* disk: packages/persist-store/src/createPersistStore.ts.                 *)
(*                                                                         *)
(* An update changes the state in memory, numbers it with a revision, asks *)
(* for a flush in a microtask, and only then tells the listeners.  All of  *)
(* this is synchronous, but it calls out: a listener may update or flush   *)
(* the store it is told about, the beforePersist hook may update it, and   *)
(* both may throw.  So the model keeps the call stack, and a step is what  *)
(* runs from one call out of the store to the next.                        *)
(*                                                                         *)
(* A state stands for the number of commits that led to it.  A recipe that *)
(* produces no patches returns at once and changes nothing: it is a step   *)
(* that leaves everything as it is.                                        *)
(***************************************************************************)
EXTENDS Integers, Sequences

CONSTANTS
  Listeners,     \* how many listeners the store has at most
  HookMayFlush,  \* whether flushNow may be called under beforePersist
  MaxCommits,    \* bound: length of the history of one state
  MaxFlushId,    \* bound: flushNow is not called beyond this id
  MaxDepth,      \* bound: nested calls
  MaxThrows,     \* bound: exceptions
  MaxRestarts    \* bound: times the process ends

ASSUME StoreAssumption ==
  /\ Listeners \in Nat
  /\ HookMayFlush \in BOOLEAN
  /\ MaxCommits \in Nat /\ MaxFlushId \in Nat /\ MaxDepth \in Nat
  /\ MaxThrows \in Nat /\ MaxRestarts \in Nat

VARIABLES
  state,             \* the state in memory
  disk,              \* what storage.getItem returns
  revision,          \* number of the state, from 0 at each launch
  pendingRevision,   \* the newest revision that wants to be on disk
  persistedRevision, \* the newest revision that is
  scheduledFlushId,  \* id of the only callback that may still persist
  flushScheduled,    \* whether one was asked for and has not run
  microtasks,        \* ids of the callbacks the event loop still has to run
  stack,             \* calls of the store that have called out, newest first
  \* history and bounds
  flushed,           \* the state that the last finished flushNow promised
  failed,            \* a persist was abandoned and nothing scheduled since
  throws, restarts

memory == <<state, revision, pendingRevision>>
schedule == <<scheduledFlushId, flushScheduled, microtasks>>
vars == <<state, disk, revision, pendingRevision, persistedRevision,
          scheduledFlushId, flushScheduled, microtasks, stack, flushed,
          failed, throws, restarts>>

\* update in its loop over the listeners, with "left" of them to go; or
\* persistPendingState in beforePersist, with the state it is about to write,
\* called by flushNow or not.
Frame == [op : {"update", "persist"}, left : Nat,
          rev : Nat, value : Nat, flush : BOOLEAN]

TypeOK ==
  /\ state \in Nat /\ disk \in 0 .. state
  /\ revision \in Nat /\ pendingRevision = revision
  /\ persistedRevision \in 0 .. revision
  /\ scheduledFlushId \in Nat /\ flushScheduled \in BOOLEAN
  /\ microtasks \in Seq(1 .. scheduledFlushId)
  /\ stack \in Seq(Frame)
  /\ flushed \in Nat /\ failed \in BOOLEAN
  /\ throws \in Nat /\ restarts \in Nat

\* The first launch: the template is written when storage has nothing.
Init ==
  /\ state = 0 /\ disk = 0 /\ flushed = 0
  /\ revision = 0 /\ pendingRevision = 0 /\ persistedRevision = 0
  /\ scheduledFlushId = 0 /\ flushScheduled = FALSE
  /\ microtasks = <<>> /\ stack = <<>>
  /\ failed = FALSE /\ throws = 0 /\ restarts = 0

persisting == \E i \in DOMAIN stack : stack[i].op = "persist"

\* Mutant: the callback takes the id before it is counted up.
scheduleFlush_IdTooEarly ==
  IF flushScheduled
  THEN UNCHANGED <<schedule, failed>>
  ELSE /\ flushScheduled' = TRUE
       /\ scheduledFlushId' = scheduledFlushId + 1
       /\ microtasks' = Append(microtasks, scheduledFlushId)
       /\ failed' = FALSE

\* scheduleFlush: one callback at a time, with an id of its own.
scheduleFlush ==
  IF flushScheduled
  THEN UNCHANGED <<schedule, failed>>
  ELSE /\ flushScheduled' = TRUE
       /\ scheduledFlushId' = scheduledFlushId + 1
       /\ microtasks' = Append(microtasks, scheduledFlushId + 1)
       /\ failed' = FALSE

\* A caller, a listener or the hook changes the state; n listeners are
\* subscribed now, and hear of it one by one.
Update(n) ==
  /\ state < MaxCommits /\ Len(stack) < MaxDepth
  /\ state' = state + 1
  /\ revision' = revision + 1 /\ pendingRevision' = revision + 1
  /\ scheduleFlush
  /\ stack' = IF n = 0 THEN stack
              ELSE <<[op |-> "update", left |-> n, rev |-> revision',
                      value |-> state', flush |-> FALSE]>> \o stack
  /\ UNCHANGED <<disk, persistedRevision, flushed, throws, restarts>>

\* The listener that was called returns; the last return ends the update.
ListenerReturns ==
  /\ stack # <<>> /\ Head(stack).op = "update"
  /\ stack' = IF Head(stack).left = 1 THEN Tail(stack)
              ELSE <<[Head(stack) EXCEPT !.left = @ - 1]>> \o Tail(stack)
  /\ UNCHANGED <<memory, disk, persistedRevision, schedule, flushed, failed,
                 throws, restarts>>

\* Mutant: the flag is left to the callback, also when flushNow persists.
persistPendingState_KeepsFlag(flush) ==
  /\ flushScheduled' = (flushScheduled /\ flush)
  /\ IF pendingRevision <= persistedRevision
     THEN /\ flushed' = IF flush THEN state ELSE flushed
          /\ UNCHANGED stack
     ELSE /\ stack' = <<[op |-> "persist", left |-> 0, rev |-> pendingRevision,
                         value |-> state, flush |-> flush]>> \o stack
          /\ UNCHANGED flushed

\* persistPendingState up to its call of beforePersist; with nothing to write
\* it returns, and flushNow has kept its promise.
persistPendingState(flush) ==
  /\ flushScheduled' = FALSE
  /\ IF pendingRevision <= persistedRevision
     THEN /\ flushed' = IF flush THEN state ELSE flushed
          /\ UNCHANGED stack
     ELSE /\ stack' = <<[op |-> "persist", left |-> 0, rev |-> pendingRevision,
                         value |-> state, flush |-> flush]>> \o stack
          /\ UNCHANGED flushed

\* Mutant: flushNow leaves the write to a callback that is already scheduled.
FlushNow_TrustsCallback ==
  /\ scheduledFlushId < MaxFlushId /\ Len(stack) < MaxDepth
  /\ persisting => HookMayFlush
  /\ IF flushScheduled
     THEN flushed' = state /\ UNCHANGED <<scheduledFlushId, flushScheduled, stack>>
     ELSE /\ scheduledFlushId' = scheduledFlushId + 1
          /\ persistPendingState(TRUE)
  /\ UNCHANGED <<memory, disk, persistedRevision, microtasks, failed, throws,
                 restarts>>

\* flushNow, called by a caller or a listener, not waiting for the callback.
FlushNow ==
  /\ scheduledFlushId < MaxFlushId /\ Len(stack) < MaxDepth
  /\ persisting => HookMayFlush
  /\ scheduledFlushId' = scheduledFlushId + 1
  /\ persistPendingState(TRUE)
  /\ UNCHANGED <<memory, disk, persistedRevision, microtasks, failed, throws,
                 restarts>>

\* The event loop runs the next callback; an outdated one does nothing.
RunMicrotask ==
  /\ stack = <<>> /\ microtasks # <<>>
  /\ microtasks' = Tail(microtasks)
  /\ IF Head(microtasks) # scheduledFlushId
     THEN UNCHANGED <<flushScheduled, stack, flushed>>
     ELSE persistPendingState(FALSE)
  /\ UNCHANGED <<memory, disk, persistedRevision, scheduledFlushId, failed,
                 throws, restarts>>

\* Mutant: the revision counted as persisted is read after the write.
PersistWrites_CountsLate ==
  LET f == Head(stack) IN
  /\ stack # <<>> /\ f.op = "persist"
  /\ disk' = f.value /\ persistedRevision' = pendingRevision
  /\ failed' = FALSE /\ UNCHANGED schedule
  /\ flushed' = IF f.flush THEN f.value ELSE flushed
  /\ stack' = Tail(stack)
  /\ UNCHANGED <<memory, throws, restarts>>

\* Mutant: flushNow promises the state that the hook has made meanwhile.
PersistWrites_PromisesNewest ==
  LET f == Head(stack) IN
  /\ stack # <<>> /\ f.op = "persist"
  /\ disk' = f.value /\ persistedRevision' = f.rev
  /\ IF pendingRevision > f.rev THEN scheduleFlush
     ELSE failed' = FALSE /\ UNCHANGED schedule
  /\ flushed' = IF f.flush THEN state ELSE flushed
  /\ stack' = Tail(stack)
  /\ UNCHANGED <<memory, throws, restarts>>

\* beforePersist returns: write, and ask again if the state has moved on.
PersistWrites ==
  LET f == Head(stack) IN
  /\ stack # <<>> /\ f.op = "persist"
  /\ disk' = f.value /\ persistedRevision' = f.rev
  /\ IF pendingRevision > f.rev THEN scheduleFlush
     ELSE failed' = FALSE /\ UNCHANGED schedule
  /\ flushed' = IF f.flush THEN f.value ELSE flushed
  /\ stack' = Tail(stack)
  /\ UNCHANGED <<memory, throws, restarts>>

\* A listener, the hook or storage.setItem throws; the k-th call up the stack
\* is the last one not to catch it.
Throw ==
  /\ throws < MaxThrows /\ throws' = throws + 1
  /\ \E k \in 1 .. Len(stack) :
       /\ stack' = SubSeq(stack, k + 1, Len(stack))
       /\ failed' = \/ failed
                    \/ /\ ~flushScheduled
                       /\ \E i \in 1 .. k : stack[i].op = "persist"
  /\ UNCHANGED <<memory, disk, persistedRevision, schedule, flushed, restarts>>

\* Mutant: what counts as persisted outlives the store it was counted for.
Restart_KeepsPersisted ==
  /\ restarts < MaxRestarts /\ restarts' = restarts + 1
  /\ state' = disk
  /\ revision' = 0 /\ pendingRevision' = 0
  /\ scheduledFlushId' = 0 /\ flushScheduled' = FALSE
  /\ microtasks' = <<>> /\ stack' = <<>> /\ failed' = FALSE
  /\ UNCHANGED <<disk, persistedRevision, flushed, throws>>

\* The process ends at any point and the store is created from storage again.
Restart ==
  /\ restarts < MaxRestarts /\ restarts' = restarts + 1
  /\ state' = disk
  /\ revision' = 0 /\ pendingRevision' = 0 /\ persistedRevision' = 0
  /\ scheduledFlushId' = 0 /\ flushScheduled' = FALSE
  /\ microtasks' = <<>> /\ stack' = <<>> /\ failed' = FALSE
  /\ UNCHANGED <<disk, flushed, throws>>

Next == \/ \E n \in 0 .. Listeners : Update(n)
        \/ ListenerReturns \/ FlushNow \/ RunMicrotask
        \/ PersistWrites \/ Throw \/ Restart

Spec == Init /\ [][Next]_vars

\* Calls return and the event loop drains its microtasks.
FairSpec == /\ Spec
            /\ WF_vars(ListenerReturns) /\ WF_vars(PersistWrites)
            /\ WF_vars(RunMicrotask)

-----------------------------------------------------------------------------
\* The revision that counts as persisted is the one on disk, although the
\* state may move between the reading of both and the write
\* (persistPendingState).
DiskMatches == disk - persistedRevision = state - revision

\* A revision that is not on disk has a callback that will still act, or is
\* being written, or its write was abandoned (scheduleFlush, flushNow).
NoLostWakeup ==
  pendingRevision > persistedRevision =>
    \/ /\ flushScheduled
       /\ \E i \in DOMAIN microtasks : microtasks[i] = scheduledFlushId
    \/ persisting
    \/ failed

\* A state in memory reaches the disk, unless the process ends first or the
\* write throws: nothing else may stop it (scheduleFlush).
EventuallySaved ==
  \A v \in 1 .. MaxCommits : state >= v ~> disk >= v \/ state < v \/ failed

\* The store is a durable cell: the disk moves forward only, holds states that
\* were committed, and keeps what flushNow promised (flushNow, restart).
Cell == INSTANCE DurableCell
          WITH mem <- state, saved <- disk, promised <- flushed
ImplementsCell == Cell!Spec

\* What flushNow has promised outlives the process.
FlushIsDurable == flushed <= disk
=============================================================================
