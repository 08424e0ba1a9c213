---------------------------- MODULE CoalescedWrites ----------------------------
(***************************************************************************)
(* The buffers above the scheduler: databases/sync/assets.ts collects the   *)
(* balances and the tokens that refreshes bring, store/appchain.ts the app  *)
(* chains, and after a short delay everything that a buffer holds goes to   *)
(* the scheduler as one task.  databases/sync/abort.ts counts the aborts of  *)
(* everything: a flush remembers the count at which it took its requests    *)
(* and compares it after every await.                                      *)
(*                                                                         *)
(* The three differ.  Balances are a list: flushes may overlap.  Tokens and  *)
(* app chains are a map by address, in which the newest rows of an address  *)
(* replace the older ones, and one flush at a time is in flight.  App       *)
(* chains await nothing before they are submitted, and wait for the home    *)
(* screen, or four seconds, before the delay begins: both waits are         *)
(* cancelled by the same handler and are one timer here.                    *)
(***************************************************************************)
EXTENDS WriteQueue, Sequences, FiniteSetsExt

CONSTANTS
  balance, token, appchain,  \* the keys under which the buffers submit
  Address,                   \* the owners of rows
  MaxAborts                  \* bound: aborts of everything

Coalesced == {balance, token, appchain}
Guarded == {token, appchain}

\* What the three pass to batchSaveWithPQueueAndTransaction.  The owner in a key
\* of tokens or app chains counts the addresses, which the model leaves out: no
\* two tasks of such a family are ever pending at once.
ASSUME CoalescedAssumption ==
  /\ Coalesced \subseteq Keys
  /\ balance # token /\ balance # appchain /\ token # appchain
  /\ Batches \in [Keys -> Nat]
  /\ \A k \in Coalesced : ~Replaces[k] /\ Batches[k] > 0
  /\ MaxTasks \in Nat /\ MaxAborts \in Nat

VARIABLES
  version,   \* syncAbortVersion
  source,    \* appDataSourceInitRef.current is set
  asks,      \* the requests so far: family, owner, version at the time
  told,      \* told[r]: what the caller of request r, and the screens, heard
  buffer,    \* buffer[f]: requests that wait for the timer of f
  timers,    \* families whose timer runs
  inFlight,  \* families whose flush is guarded by a promise in flight
  flushes,   \* the flushes under way
  rows       \* rows[f, a]: the request whose rows of owner a are in the database

bufferVars == <<version, source, asks, told, buffer, timers, inFlight, flushes, rows>>
vars == <<queueVars, bufferVars>>

Request == DOMAIN asks
NoTask == 0

\* No flush has an await to return from: timers and answers of the database are
\* turns of their own, which come after that.
Calm ==
  /\ \A x \in flushes : x.at = "handed" => promise[x.task] = "pending"
  /\ \A f \in inFlight : \E x \in flushes : x.family = f

tell(R, what) == [r \in Request |-> IF r \in R THEN what ELSE told[r]]

--------------------------------------------------------------------------------
(* The buffers.                                                            *)

\* enqueueBalanceSync, enqueueTokenSync, persistAppChains.  An app chain that
\* comes while a flush is in flight leaves the timer to the end of that flush.
Ask(f, a) ==
  /\ Len(asks) < MaxTasks
  /\ asks' = Append(asks, [family |-> f, owner |-> a, version |-> version])
  /\ told' = Append(told, "nothing")
  /\ buffer' = [buffer EXCEPT ![f] = @ \cup {Len(asks) + 1}]
  /\ timers' = IF f = appchain /\ f \in inFlight THEN timers ELSE timers \cup {f}
  /\ UNCHANGED <<queueVars, version, source, inFlight, flushes, rows>>

\* The flush of f takes all its requests.  One that finds no data source starts
\* its loader and awaits all of it, a later one awaits the data source itself:
\* `loads` tells these apart for balances, the only flushes that overlap.
flush(f, at, task) ==
  [family |-> f, asks |-> buffer[f], version |-> version, at |-> at, task |-> task,
   loads |-> f = balance /\ ~source]

\* The rows of the requests R reach the database: of each owner the newest.
landed(R) ==
  [p \in DOMAIN rows |->
     LET mine == {r \in R : asks[r].family = p[1] /\ asks[r].owner = p[2]}
     IN  IF mine = {} THEN rows[p] ELSE Max(mine)]

\* tokenFlushInFlight and appChainPersistInFlight.  Mutant: they are not set.
guards_Nothing(f) == {}

guards(f) == {f} \cap Guarded

\* The flush of f starts when the timer fires, unless one is in flight or the
\* buffer is empty.  Balances and tokens await the data source first.
TimerFires(f) ==
  /\ Calm /\ f \in timers
  /\ timers' = timers \ {f}
  /\ IF f \in inFlight \/ buffer[f] = {}
     THEN UNCHANGED <<queueVars, buffer, inFlight, flushes>>
     ELSE /\ buffer' = [buffer EXCEPT ![f] = {}]
          /\ inFlight' = inFlight \cup guards(f)
          /\ \/ /\ f # appchain
                /\ flushes' = flushes \cup {flush(f, "preparing", NoTask)}
                /\ UNCHANGED queueVars
             \/ /\ f = appchain
                /\ Submit(f)
                /\ flushes' = flushes \cup {flush(f, "handed", submitted')}
             \/ /\ f = appchain
                /\ flushes' = flushes \cup {flush(f, "clearing", NoTask)}
                /\ UNCHANGED queueVars
  /\ UNCHANGED <<version, source, asks, told, rows>>

ends(x, what) ==
  /\ flushes' = flushes \ {x}
  /\ told' = tell(x.asks, what)

\* The loader sets the promise of the data source, and then goes on.
SourceAppears ==
  /\ ~source /\ source' = TRUE
  /\ UNCHANGED <<queueVars, version, asks, told, buffer, timers, inFlight, flushes>>
  /\ UNCHANGED rows

\* Whose turn it is when the data source is there: those who await the same
\* promise go on in the order of their calls, but whoever awaits the data source
\* may go on before an older one that awaits the loader.
Answerable(x) ==
  /\ x \in flushes /\ x.at = "preparing" /\ source
  /\ \A y \in flushes :
       y.at = "preparing" /\ y.family = x.family /\ y.loads = x.loads =>
         Max(x.asks) <= Max(y.asks)

hand(x) ==
  /\ Submit(x.family)
  /\ flushes' = (flushes \ {x})
                \cup {[x EXCEPT !.at = "handed", !.task = submitted']}
  /\ UNCHANGED told

\* Mutant: the abort version is not compared again after the await.
Prepared_Unchecked(x) ==
  /\ Answerable(x) /\ hand(x)
  /\ UNCHANGED <<version, source, asks, buffer, timers, inFlight, rows>>

\* prepareAppDataSource resolves.  A flush of before an abort rejects its balances
\* and resolves its tokens without a word.
Prepared(x) ==
  /\ Answerable(x)
  /\ IF x.version = version
     THEN hand(x)
     ELSE /\ ends(x, IF x.family = balance THEN "failed" ELSE "dropped")
          /\ UNCHANGED queueVars
  /\ UNCHANGED <<version, source, asks, buffer, timers, inFlight, rows>>

PrepareFails(x) ==
  /\ x \in flushes /\ x.at = "preparing"
  /\ ends(x, "failed")
  /\ UNCHANGED <<queueVars, version, source, asks, buffer, timers, inFlight, rows>>

\* queueCompleted is false for a task that was aborted; a flush of balances
\* does not look at it.
completed(x) ==
  \/ promise[x.task] = "resolved"
  \/ x.family = balance /\ x.task \in stopped

\* Mutant: no flush looks at it.
Settled_Unread(x) ==
  /\ x \in flushes /\ x.at = "handed"
  /\ promise[x.task] # "pending"
  /\ ends(x, IF promise[x.task] = "resolved" \/ x.task \in stopped
             THEN "saved" ELSE "failed")
  /\ UNCHANGED <<queueVars, version, source, asks, buffer, timers, inFlight, rows>>

\* The promise of the task has settled.
Settled(x) ==
  /\ x \in flushes /\ x.at = "handed"
  /\ promise[x.task] # "pending"
  /\ ends(x, IF completed(x) THEN "saved" ELSE "failed")
  /\ UNCHANGED <<queueVars, version, source, asks, buffer, timers, inFlight, rows>>

\* Owners without app chains: the older rows are deleted past the scheduler.
Cleared(x) ==
  /\ x \in flushes /\ x.at = "clearing"
  /\ \/ ends(x, "saved") /\ rows' = landed(x.asks)
     \/ ends(x, "failed") /\ UNCHANGED rows
  /\ UNCHANGED <<queueVars, version, source, asks, buffer, timers, inFlight>>

\* Mutant: what came during the flush waits for the next request.
Finally_NoReschedule(f) ==
  /\ f \in inFlight /\ \A x \in flushes : x.family # f
  /\ inFlight' = inFlight \ {f}
  /\ UNCHANGED <<queueVars, version, source, asks, told, buffer, timers, flushes, rows>>

\* The finally of a guarded flush.
Finally(f) ==
  /\ f \in inFlight /\ \A x \in flushes : x.family # f
  /\ inFlight' = inFlight \ {f}
  /\ timers' = IF buffer[f] = {} THEN timers ELSE timers \cup {f}
  /\ UNCHANGED <<queueVars, version, source, asks, told, buffer, flushes, rows>>

\* Mutant: the handlers empty the buffers and tell nobody.
AbortAll_Silent ==
  /\ version < MaxAborts
  /\ version' = version + 1
  /\ buffer' = [f \in Coalesced |-> {}]
  /\ timers' = {}
  /\ Abort({t \in Task : Pending(t)})
  /\ UNCHANGED <<source, asks, told, inFlight, flushes, rows>>

\* abortAllSyncTasks: the handlers empty the buffers, then all controllers are
\* aborted.
AbortAll ==
  /\ version < MaxAborts
  /\ version' = version + 1
  /\ buffer' = [f \in Coalesced |-> {}]
  /\ timers' = {}
  /\ told' = [r \in Request |-> CASE r \in buffer[token] -> "dropped"
                                  [] r \in buffer[balance] \cup buffer[appchain] -> "failed"
                                  [] OTHER -> told[r]]
  /\ Abort({t \in Task : Pending(t)})
  /\ UNCHANGED <<source, asks, inFlight, flushes, rows>>

--------------------------------------------------------------------------------
(* The scheduler.                                                          *)

cargo(t) == UNION {x.asks : x \in {y \in flushes : y.task = t}}

Landing(t) ==
  /\ Land(t)
  /\ rows' = IF written[t] < written'[t] /\ written'[t] = Batches[keyOf[t]]
             THEN landed(cargo(t)) ELSE rows
  /\ UNCHANGED <<version, source, asks, told, buffer, timers, inFlight, flushes>>

Writes(t) ==
  \/ Begin(t) /\ UNCHANGED bufferVars
  \/ Calm /\ Break(t) /\ UNCHANGED bufferVars
  \/ Calm /\ Landing(t)

Settles(t) == (Resolve(t) \/ Reject(t)) /\ UNCHANGED bufferVars

Init ==
  /\ QueueInit
  /\ version = 0 /\ source = FALSE /\ asks = <<>> /\ told = <<>>
  /\ buffer = [f \in Coalesced |-> {}]
  /\ timers = {} /\ inFlight = {} /\ flushes = {}
  /\ rows = [p \in Coalesced \X Address |-> 0]

Flushing(x) == Prepared(x) \/ PrepareFails(x) \/ Settled(x) \/ Cleared(x)

Next ==
  \/ \E f \in Coalesced, a \in Address : Ask(f, a)
  \/ \E f \in Coalesced : TimerFires(f) \/ Finally(f)
  \/ \E x \in flushes : Flushing(x)
  \/ AbortAll \/ SourceAppears
  \/ \E t \in Task : Writes(t) \/ Settles(t)

Fairness ==
  /\ WF_vars(\/ \E f \in Coalesced : TimerFires(f) \/ Finally(f)
             \/ \E x \in flushes : Flushing(x)
             \/ \E t \in Task : Writes(t))
  /\ SF_vars(\E t \in Task : Settles(t))

CoalescedSpec == Init /\ [][Next]_vars /\ Fairness

--------------------------------------------------------------------------------
(* Properties.                                                             *)

\* Types, and no request is forgotten in its buffer: while a buffer holds one, its
\* timer runs or a flush is in flight whose end will set it (assets.ts:423-430,
\* appchain.ts:300-307).
BuffersOK ==
  /\ version \in 0 .. MaxAborts /\ source \in BOOLEAN
  /\ asks \in Seq([family : Coalesced, owner : Address, version : 0 .. MaxAborts])
  /\ told \in Seq({"nothing", "saved", "failed", "dropped"}) /\ Len(told) = Len(asks)
  /\ buffer \in [Coalesced -> SUBSET Request]
  /\ timers \subseteq Coalesced /\ inFlight \subseteq Guarded
  /\ flushes \subseteq [family : Coalesced, asks : SUBSET Request,
                        version : 0 .. MaxAborts, task : 0 .. MaxTasks,
                        at : {"preparing", "handed", "clearing"}, loads : BOOLEAN]
  /\ rows \in [Coalesced \X Address -> 0 .. MaxTasks]
  /\ \A f \in Coalesced : buffer[f] # {} => f \in timers \cup inFlight

\* What was asked for before an abort of everything starts no write after it,
\* wherever it was when the abort came: in a buffer, in a flush that awaited the
\* data source, or in a task that waited or was between two batches.
AbortReachesBuffers ==
  [][\A t \in Task : t \in writing' \ writing =>
       \A r \in cargo(t) : asks[r].version = version]_vars

\* The rows of an owner never go back to those of an older request, although
\* flushes overlap, fail and await the data source.  The exception is what
\* databases/imports.ts:64-84 allows: balances whose flush awaits the loader may
\* be handed over after newer ones whose flush awaits only the data source.
NewestStays ==
  [][\A p \in DOMAIN rows :
       \/ rows[p] <= rows'[p]
       \/ p[1] = balance /\ \E x \in flushes : x.loads /\ rows'[p] \in x.asks]_vars

\* Who is told that its rows are saved finds them, or newer ones, in the
\* database.  The exception is what assets.ts:158-177 does: balances whose task
\* was aborted are reported as saved.
SavedIsWritten ==
  [][\A r \in Request : told[r] = "nothing" /\ told'[r] = "saved" =>
       \/ r <= rows'[<<asks[r].family, asks[r].owner>>]
       \/ asks[r].family = balance
          /\ \E x \in flushes : r \in x.asks /\ x.task \in stopped]_vars

\* Nobody waits for ever: in the end every request has been answered, also one
\* that came while a flush was in flight and one that an abort took.
EveryRequestSettles == []<>(\A r \in Request : told[r] # "nothing")
================================================================================
