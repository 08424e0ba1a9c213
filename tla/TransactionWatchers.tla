-------------------------- MODULE TransactionWatchers --------------------------
(***************************************************************************)
(* How a transaction that was sent becomes completed: the controller that    *)
(* records it, the watcher that polls for its receipt, the watcher that      *)
(* polls the relay for the hash of a transaction it was given, and the       *)
(* reloads of the history that a receipt starts.                            *)
(*                                                                         *)
(* The history and the two pendingTx records are on disk (see PersistStore); *)
(* polls, reloads and timers end with the process.  The chain and the relay  *)
(* are external: a query is answered with what is true when it is answered,  *)
(* or with an error.                                                        *)
(***************************************************************************)
EXTENDS TransactionHistory

CONSTANTS Relayed,     \* the transactions that the relay was given
          Poll,        \* polls of the relay that may overlap
          MaxMishaps   \* cap on failing queries of receipts and records, on
                       \* kills and on what the user clears, together

ASSUME WatchersAssumption ==
  /\ Relayed \subseteq Tx
  /\ MaxMishaps \in Nat

VARIABLES stage,     \* where the controller is with each transaction
          mined,     \* the chain: transactions with a receipt
          relay,     \* the relay: what became of each request
          watched,   \* pendingTx of the watcher: id (the nonce) to hash
          requests,  \* pendingTx of the broadcast watcher
          poll,      \* the poll of the watcher: ids to go, hash asked for
          asked,     \* asked[p]: the requests that poll p of the relay lists
          reloads,   \* calls of reloadTx, and the timers of their retries
          mishaps,   \* counter behind MaxMishaps
          lost       \* ghost: nonces nobody looks for any more, and why

external == <<stage, mined, relay>>
vars == <<history, external, watched, requests, poll, asked, reloads, mishaps, lost>>

Idle == [ids |-> {}, hash |-> NoTx]
NobodyWatched == [n \in Nonce |-> NoTx]

OnChain(t) == IF t \in Relayed THEN relay[t] = "sent" ELSE stage[t] # "new"
Unfinished(h, n) ==
  /\ \E t \in Tx : NonceOf[t] = n /\ h[t] = "sent"
  /\ \A t \in Tx : NonceOf[t] = n => h[t] # "completed"

\* Somebody still looks for a receipt of nonce n: the watcher, a reload of it or
\* of a later one, or a controller that is about to tell the watcher.
LookedFor(n) ==
  \/ watched[n] # NoTx
  \/ \E r \in reloads : r.nonce >= n
  \/ \E t \in Tx : NonceOf[t] = n /\ stage[t] = "recorded"

\* Ghost: the ways in which a transaction that is sent stops being looked for:
\* the process was killed, a reload and its retry failed, the receipt or the
\* retry that was to reload a later nonce found its group gone or completed, or
\* the watcher did not take it.  What is watched again is looked for again.
Cause == {"killed", "gave up", "no group", "not watched"}
Lost(n) == \E c \in Cause : <<n, c>> \in lost
upTo(n) == {m \in Nonce : m <= n}
loses(N, c) ==
  lost' = lost \cup {x \in N \X {c} : Unfinished(history', x[1]) /\ ~LookedFor(x[1])'}
regained == lost' = {x \in lost : watched'[x[1]] = NoTx}

Mishap == mishaps < MaxMishaps /\ mishaps' = mishaps + 1
NonceMined(n) == \E t \in mined : NonceOf[t] = n

-----------------------------------------------------------------------------
(* The chain and the relay.                                                *)

Mine(t) ==
  /\ OnChain(t) /\ ~NonceMined(NonceOf[t])
  /\ \A n \in Nonce : n < NonceOf[t] => NonceMined(n)
  /\ mined' = mined \cup {t}
  /\ UNCHANGED <<history, stage, relay, watched, requests, poll, asked, reloads>>
  /\ UNCHANGED <<mishaps, lost>>

RelayDecides(t) ==
  /\ relay[t] = "waiting"
  /\ \E s \in {"sent", "failed", "withdrawn"} : relay' = [relay EXCEPT ![t] = s]
  /\ UNCHANGED <<history, stage, mined, watched, requests, poll, asked, reloads>>
  /\ UNCHANGED <<mishaps, lost>>

-----------------------------------------------------------------------------
(* onTransactionCreated.                                                   *)

\* A new nonce follows those in use; a nonce is used again to replace what is
\* pending by something that offers more, or when the history has it no more.
\* The controller gives nothing to the relay any more (reqId stays undefined).
Push(t) ==
  /\ stage[t] = "new" /\ ~NonceMined(NonceOf[t])
  /\ \A n \in Nonce : n < NonceOf[t] =>
       \E u \in Tx : NonceOf[u] = n /\ stage[u] # "new"
  /\ \A u \in Tx : NonceOf[u] = NonceOf[t] /\ stage[u] # "new" =>
       /\ stage[u] = "done"
       /\ \/ history[u] \in {"absent", "failed", "withdrawn"}
          \/ history[u] \in {"queued", "sent"} /\ GasOf[u] < GasOf[t]
  /\ stage' = [stage EXCEPT ![t] = "pushed"]
  /\ UNCHANGED <<history, mined, relay, watched, requests, poll, asked, reloads>>
  /\ UNCHANGED <<mishaps, lost>>

\* A record that cannot be made is logged, and the flow goes on to the watcher.
Record(t) ==
  /\ stage[t] = "pushed"
  /\ stage' = [stage EXCEPT ![t] = "recorded"]
  /\ \/ history' = addTx(history, t) /\ UNCHANGED mishaps
     \/ Mishap /\ UNCHANGED history
  /\ UNCHANGED <<mined, relay, watched, requests, poll, asked, reloads, lost>>

\* A replacement takes the place of what it replaces: the id is the nonce.
\* A watcher that does not take it is logged, and nothing else.
Watch(t) ==
  /\ stage[t] = "recorded"
  /\ stage' = [stage EXCEPT ![t] = "done"]
  /\ UNCHANGED <<history, mined, relay, requests, poll, asked, reloads>>
  /\ \/ /\ watched' = [watched EXCEPT ![NonceOf[t]] = t]
        /\ UNCHANGED mishaps /\ regained
     \/ /\ Mishap /\ UNCHANGED watched
        /\ loses({NonceOf[t]}, "not watched")

-----------------------------------------------------------------------------
(* The broadcast watcher.                                                  *)

\* The interval does not wait for the poll before.
AskRelay(p) ==
  /\ asked[p] = {} /\ requests # {}
  /\ asked' = [asked EXCEPT ![p] = requests]
  /\ UNCHANGED <<history, external, watched, requests, poll, reloads, mishaps, lost>>

\* The answer tells what became of the requests in S, or nothing when the
\* query failed.  A second answer about the same request may come late.
RelayAnswers(p) ==
  /\ asked[p] # {}
  /\ \E S \in SUBSET {t \in asked[p] : relay[t] # "waiting"} :
       LET sent(n) == {t \in S : NonceOf[t] = n /\ relay[t] = "sent"}
       IN  /\ requests' = requests \ S
           /\ history' = [t \in Tx |-> IF t \in S
                            THEN updateTxByTxRequest(history, t, relay[t])[t]
                            ELSE history[t]]
           /\ \E last \in [Nonce -> S \cup {NoTx}] :
                /\ \A n \in Nonce : last[n] \in IF sent(n) = {} THEN {NoTx} ELSE sent(n)
                /\ watched' = [n \in Nonce |-> IF last[n] = NoTx THEN watched[n]
                                                ELSE last[n]]
  /\ asked' = [asked EXCEPT ![p] = {}]
  /\ regained
  /\ UNCHANGED <<external, poll, reloads, mishaps>>

-----------------------------------------------------------------------------
(* reloadTx.                                                               *)

\* The call up to its await: it returns at once when the group is gone or
\* completed.  A retry that fails is not tried again.
reloadTx(n, last) ==
  IF GroupStatus(history, n) \in {"absent", "completed"} THEN {}
  ELSE {[nonce |-> n, last |-> last, due |-> FALSE,
         txs |-> {t \in Group(history, n) : history[t] \in {"sent", "completed"}}]}

\* A receipt: the item it belongs to is completed, unless the user has removed
\* it meanwhile and something else is in its group.
ReloadCompletes(r) ==
  /\ r \in reloads /\ ~r.due /\ Group(history, r.nonce) # {}
  /\ reloads' = reloads \ {r}
  /\ UNCHANGED <<external, watched, requests, poll, asked, mishaps>>
  /\ \E c \in r.txs \cap mined :
       /\ history' = completeTx(history, r.nonce, c)
       /\ IF history[c] = "absent" THEN loses({r.nonce}, "no group")
          ELSE UNCHANGED lost

\* Mutant: a reload that fails is not retried.
retried_Never(r) == {}

\* One more try a second later.
retried(r) == IF r.last THEN {} ELSE {[r EXCEPT !.last = TRUE, !.due = TRUE]}

\* No receipt, a query that fails, or a group that is gone (completeTx throws).
ReloadFails(r) ==
  /\ r \in reloads /\ ~r.due
  /\ IF r.txs \cap mined = {} \/ Group(history, r.nonce) = {}
     THEN UNCHANGED mishaps
     ELSE Mishap
  /\ reloads' = (reloads \ {r}) \cup retried(r)
  /\ UNCHANGED <<history, external, watched, requests, poll, asked>>
  /\ IF r.last THEN loses(upTo(r.nonce), "gave up") ELSE UNCHANGED lost

RetryDue(r) ==
  LET again == reloadTx(r.nonce, TRUE)
  IN  /\ r \in reloads /\ r.due
      /\ reloads' = (reloads \ {r}) \cup again
      /\ UNCHANGED <<history, external, watched, requests, poll, asked, mishaps>>
      /\ IF again = {} THEN loses(upTo(r.nonce), "no group") ELSE UNCHANGED lost

-----------------------------------------------------------------------------
(* The watcher.                                                            *)

NextId == CHOOSE n \in poll.ids : \A m \in poll.ids : n <= m

\* Mutant: the hash asked for outlives the id it was asked for.
skipped_KeepsHash == [poll EXCEPT !.ids = @ \ {NextId}]

skipped == [ids |-> poll.ids \ {NextId}, hash |-> NoTx]

StartPoll ==
  /\ poll = Idle /\ watched # NobodyWatched
  /\ poll' = [Idle EXCEPT !.ids = {n \in Nonce : watched[n] # NoTx}]
  /\ UNCHANGED <<history, external, watched, requests, asked, reloads, mishaps, lost>>

\* checkStatus: an id that is no longer watched is passed over.
CheckStatus ==
  /\ poll.ids # {} /\ poll.hash = NoTx
  /\ poll' = IF watched[NextId] = NoTx THEN skipped
             ELSE [poll EXCEPT !.hash = watched[NextId]]
  /\ UNCHANGED <<history, external, watched, requests, asked, reloads, mishaps, lost>>

NoReceipt ==
  /\ poll.hash # NoTx
  /\ IF poll.hash \notin mined THEN UNCHANGED mishaps
     ELSE Mishap
  /\ poll' = skipped
  /\ UNCHANGED <<history, external, watched, requests, asked, reloads, lost>>

\* Mutant: everything the address has on the chain is no longer watched.
_removeTx_All(n) == NobodyWatched

\* _removeTx: the id and those with a smaller nonce.
_removeTx(n) == [m \in Nonce |-> IF m <= n THEN NoTx ELSE watched[m]]

\* notify is called, but not awaited, before the id is removed; it returns at
\* once if the id is no longer watched, and so does its reload if the group is
\* gone, but the ids of smaller nonces are removed all the same.
Receipt ==
  LET n == NextId
      reload == IF watched[n] = NoTx THEN {} ELSE reloadTx(n, FALSE)
  IN  /\ poll.hash \in mined
      /\ reloads' = reloads \cup reload
      /\ watched' = _removeTx(n)
      /\ poll' = skipped
      /\ UNCHANGED <<history, external, requests, asked, mishaps>>
      /\ IF reload = {} THEN loses(upTo(n), "no group") ELSE UNCHANGED lost

-----------------------------------------------------------------------------
(* The user, and the end of the process.                                   *)

\* clearPendingTxs, and removeList when the nonces are to be cleared as well.
Clear ==
  /\ Mishap
  /\ \/ history' = clearPendingTransactions(history)
     \/ history' = [t \in Tx |-> "absent"]
  /\ watched' = NobodyWatched /\ requests' = {}
  /\ UNCHANGED <<external, poll, asked, reloads, lost>>

\* removeLocalPendingTx of all nonces or of one.  With a nonce the watcher
\* compares it with the chain of its ids, and removes nothing.
RemoveLocal(N, w) ==
  /\ Mishap
  /\ history' = removePendingGroups(history, N)
  /\ requests' = {t \in requests : NonceOf[t] \notin N}
  /\ watched' = w
  /\ UNCHANGED <<external, poll, asked, reloads, lost>>

\* Killed and started again.
Restart ==
  /\ Mishap
  /\ stage' = [t \in Tx |-> IF stage[t] = "new" THEN "new" ELSE "done"]
  /\ poll' = Idle /\ asked' = [p \in Poll |-> {}] /\ reloads' = {}
  /\ UNCHANGED <<history, mined, relay, watched, requests>>
  /\ loses(Nonce, "killed")

-----------------------------------------------------------------------------

\* The requests to the relay are what an older version has left on disk.
Init ==
  /\ history = [t \in Tx |-> IF t \in Relayed THEN "queued" ELSE "absent"]
  /\ stage = [t \in Tx |-> IF t \in Relayed THEN "done" ELSE "new"]
  /\ mined = {} /\ relay = [t \in Relayed |-> "waiting"]
  /\ watched = NobodyWatched /\ requests = Relayed
  /\ poll = Idle /\ asked = [p \in Poll |-> {}] /\ reloads = {}
  /\ mishaps = 0 /\ lost = {}

World ==
  \/ \E t \in Tx : Mine(t) \/ Push(t)
  \/ \E t \in Relayed : RelayDecides(t)
Controller == \E t \in Tx : Record(t) \/ Watch(t)
Broadcast == \E p \in Poll : AskRelay(p) \/ RelayAnswers(p)
Reloading == \E r \in reloads : ReloadCompletes(r) \/ ReloadFails(r) \/ RetryDue(r)
Polling == StartPoll \/ CheckStatus \/ NoReceipt \/ Receipt
Local ==
  \/ Clear \/ Restart \/ RemoveLocal(Nonce, NobodyWatched)
  \/ \E n \in Nonce : RemoveLocal({n}, watched)

Next == World \/ Controller \/ Broadcast \/ Reloading \/ Polling \/ Local

\* The interval of the watcher and the timers of reloads keep running, a query
\* is answered, and a controller that has recorded a transaction goes on.
Spec == Init /\ [][Next]_vars
          /\ WF_vars(Polling) /\ WF_vars(Reloading) /\ WF_vars(Controller)

-----------------------------------------------------------------------------
(* Properties.                                                             *)

TypeOK ==
  /\ history \in [Tx -> Status]
  /\ stage \in [Tx -> {"new", "pushed", "recorded", "done"}]
  /\ mined \subseteq Tx
  /\ relay \in [Relayed -> {"waiting", "sent", "failed", "withdrawn"}]
  /\ watched \in [Nonce -> Tx \cup {NoTx}]
  /\ requests \subseteq Relayed
  /\ poll \in [ids : SUBSET Nonce, hash : Tx \cup {NoTx}]
  /\ poll.hash # NoTx => poll.ids # {}
  /\ asked \in [Poll -> SUBSET Relayed]
  /\ reloads \subseteq [nonce : Nonce, last : BOOLEAN, due : BOOLEAN, txs : SUBSET Tx]
  /\ mishaps \in 0 .. MaxMishaps
  /\ lost \subseteq Nonce \X Cause

\* What the history calls completed has a receipt, and stays completed
\* whatever answer about it comes late, until the user clears the history.
CompletedIsFinal ==
  [][\A t \in Tx :
       /\ history'[t] = "completed" => t \in mined'
       /\ history[t] = "completed" => history'[t] \in {"completed", "absent"}]_vars

\* A transaction that is sent is followed until one of its nonce is completed:
\* the nonce is watched, or a reload of it or of a later one is under way,
\* although the watcher forgets an id before the reload has completed anything.
\* Exceptions are the four of Cause: the watcher's addTx failed; the process
\* was killed between the two records or during the reload; the reload and its
\* only retry failed; or there was no group to reload, because the user had
\* removed it or it was never recorded, and the receipt of that nonce removed
\* the smaller ids all the same.
Followed ==
  \A n \in Nonce : Unfinished(history, n) => LookedFor(n) \/ Lost(n)

\* A transaction that is watched and mined is completed, or cleared, unless a
\* loss of those of Followed takes it or something replaces its hash; and such
\* a loss takes a failure, a kill or a clearing by the user.
Completes ==
  /\ [](\A t \in mined :
          history[t] = "sent" /\ Lost(NonceOf[t]) => mishaps > 0)
  /\ \A t \in Tx :
       LET n == NonceOf[t]
       IN  t \in mined /\ history[t] = "sent" /\ watched[n] = t
             ~> history[t] # "sent" \/ Lost(n) \/ watched[n] \notin {t, NoTx}
=============================================================================
