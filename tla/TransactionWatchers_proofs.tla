---------------------- MODULE TransactionWatchers_proofs ----------------------
(***************************************************************************)
(* Theorems about TransactionWatchers, for any number of transactions,      *)
(* nonces and overlapping polls, and with no bound on failures, kills and   *)
(* what the user clears.                                                    *)
(*                                                                         *)
(* What is completed has a receipt (Sound).  Followed is inductive with it: *)
(* whatever stops watching a nonce leaves a reload of it or of a later one, *)
(* or removes what is sent under it, but for the four steps that lose it.   *)
(*                                                                         *)
(* The lemmas about the groups of the history come first: a group has an    *)
(* item with the most gas.  That it has one is an induction over its size,  *)
(* made with WFMin: a set of natural numbers that is not empty has a least  *)
(* element, and the least number of items without a bound for their gas     *)
(* does not exist.                                                          *)
(***************************************************************************)
EXTENDS TransactionWatchers, FiniteSetTheorems, WellFoundedInduction, TLAPS

Less == {p \in Nat \X Nat : p[1] < p[2]}

LEMMA LessWellFounded == IsWellFoundedOn(Less, Nat)
<1>1. SUFFICES ASSUME NEW f \in [Nat -> Nat], \A n \in Nat : <<f[n+1], f[n]>> \in Less
               PROVE  FALSE
  BY DEF IsWellFoundedOn
<1>2. \A n \in Nat : f[n+1] < f[n]
  BY <1>1 DEF Less
<1>3. \A n \in Nat : <<f[n+1], f[n]>> \in OpToRel(<, Nat)
  BY <1>2 DEF OpToRel
<1> QED
  BY <1>3, NatLessThanWellFounded DEF IsWellFoundedOn

\* A set of natural numbers has a least element.
LEMMA Least ==
  ASSUME NEW T, T \subseteq Nat, T # {}
  PROVE  \E x \in T : \A y \in T : x <= y
<1>1. PICK x \in T : \A y \in T : ~(<<y, x>> \in Less)
  BY LessWellFounded, WFMin
<1>2. \A y \in T : <<y, x>> \in Nat \X Nat
  OBVIOUS
<1>3. \A y \in T : ~(y < x)
  BY <1>1, <1>2 DEF Less
<1> QED
  BY <1>3

\* Induction, for a set instead of a predicate.
LEMMA SetInduction ==
  ASSUME NEW Good, 0 \in Good, \A i \in Nat : i \in Good => i + 1 \in Good
  PROVE  \A i \in Nat : i \in Good
<1> DEFINE Bad == {i \in Nat : i \notin Good}
<1>1. SUFFICES ASSUME Bad # {} PROVE FALSE
  OBVIOUS
<1>2. PICK i \in Bad : \A k \in Bad : i <= k
  <2>1. Bad \subseteq Nat
    OBVIOUS
  <2> HIDE DEF Bad
  <2> QED
    BY <1>1, <2>1, Least
<1>3. i \in Nat /\ i # 0 /\ i \notin Good
  OBVIOUS
<1>4. i - 1 \in Nat /\ (i - 1) + 1 = i
  BY <1>3
<1>5. i - 1 \in Good
  <2>1. SUFFICES ASSUME i - 1 \in Bad PROVE FALSE
    BY <1>4
  <2>2. i <= i - 1
    BY <1>2, <2>1
  <2> QED
    BY <2>2, <1>3
<1> QED
  BY <1>3, <1>4, <1>5

\* Finitely many natural numbers have a bound.
LEMMA Bounded ==
  ASSUME NEW S, IsFiniteSet(S), NEW g \in [S -> Nat]
  PROVE  \E b \in Nat : \A x \in S : g[x] <= b
<1>1. PICK n \in Nat : ExistsSurjection(1 .. n, S)
  BY FS_NatSurjection
<1>2. PICK f \in [1 .. n -> S] : \A x \in S : \E j \in 1 .. n : f[j] = x
  BY <1>1 DEF ExistsSurjection, Surjection
<1> DEFINE Below(i, b) == \A j \in 1 .. n : j <= i => g[f[j]] <= b
           Good == {i \in Nat : \E b \in Nat : Below(i, b)}
<1>3. 0 \in Good
  <2>1. Below(0, 0)
    BY SMT
  <2> QED
    BY <2>1
<1>4. ASSUME NEW i \in Nat, NEW b \in Nat, Below(i, b)
      PROVE  \E c \in Nat : Below(i + 1, c)
  <2>1. CASE i + 1 \in 1 .. n
    <3>1. PICK v \in Nat : v = g[f[i + 1]]
      BY <2>1
    <3>2. ASSUME NEW j \in 1 .. n, j <= i + 1 PROVE g[f[j]] <= b + v
      <4>1. g[f[j]] \in Nat
        OBVIOUS
      <4>2. CASE j = i + 1
        BY <3>1, <4>1, <4>2
      <4>3. CASE j <= i
        <5>1. g[f[j]] <= b
          BY <1>4, <4>3
        <5> QED
          BY <4>1, <5>1
      <4> QED
        BY <3>2, <4>2, <4>3
    <3>3. b + v \in Nat
      OBVIOUS
    <3> QED
      BY <3>2, <3>3
  <2>2. CASE i + 1 \notin 1 .. n
    <3>1. \A j \in 1 .. n : j <= i + 1 => j <= i
      BY <2>2
    <3> QED
      BY <1>4, <3>1
  <2> QED
    BY <2>1, <2>2
<1>5. n \in Good
  <2>1. ASSUME NEW i \in Nat, i \in Good PROVE i + 1 \in Good
    <3>1. PICK b \in Nat : Below(i, b)
      BY <2>1
    <3>2. \E c \in Nat : Below(i + 1, c)
      <4> HIDE DEF Below
      <4> QED
        BY <1>4, <3>1
    <3> QED
      BY <3>2
  <2> HIDE DEF Good
  <2> QED
    BY <1>3, <2>1, SetInduction
<1>6. PICK b \in Nat : Below(n, b)
  BY <1>5
<1>7. \A x \in S : g[x] <= b
  BY <1>2, <1>6
<1> QED
  BY <1>7

\* The item whose gas a group shows is an item of the group.
LEMMA MaxGasInGroup ==
  ASSUME NEW h, NEW n \in Nonce, Group(h, n) # {}
  PROVE  MaxGas(h, n) \in Group(h, n)
<1> DEFINE G == Group(h, n)
           ranks == {Rank(h[t]) : t \in G}
<1>1. G \subseteq Tx /\ G # {}
  BY DEF Group
<1>2. \A s : Rank(s) \in Nat
  BY DEF Rank
<1>3. PICK t \in G : \A u \in G : Rank(h[t]) <= Rank(h[u])
  <2>1. ranks \subseteq Nat /\ ranks # {}
    BY <1>1, <1>2
  <2>2. PICK r \in ranks : \A q \in ranks : r <= q
    BY <2>1, Least
  <2> QED
    BY <2>2
<1> DEFINE H == {u \in G : Rank(h[u]) = Rank(h[t])}
<1>4. PICK b \in Nat : \A u \in Tx : GasOf[u] <= b
  BY Bounded, HistoryAssumption
<1> DEFINE gaps == {b - GasOf[u] : u \in H}
<1>5. PICK m \in H : \A u \in H : GasOf[u] <= GasOf[m]
  <2>1. gaps \subseteq Nat /\ gaps # {}
    BY <1>1, <1>3, <1>4, HistoryAssumption
  <2>2. PICK d \in gaps : \A e \in gaps : d <= e
    BY <2>1, Least
  <2>3. PICK m \in H : d = b - GasOf[m]
    BY <2>2
  <2>4. \A u \in H : b - GasOf[m] <= b - GasOf[u]
    BY <2>2, <2>3
  <2>5. \A u \in H : GasOf[u] \in Nat
    BY <1>1, HistoryAssumption
  <2> QED
    BY <2>4, <2>5
<1>6. \A u \in G : \/ Rank(h[m]) < Rank(h[u])
                   \/ Rank(h[m]) = Rank(h[u]) /\ GasOf[m] >= GasOf[u]
  <2>1. SUFFICES ASSUME NEW u \in G, ~(Rank(h[m]) < Rank(h[u]))
                 PROVE  Rank(h[m]) = Rank(h[u]) /\ GasOf[m] >= GasOf[u]
    OBVIOUS
  <2>2. Rank(h[m]) = Rank(h[u])
    BY <1>2, <1>3, <2>1
  <2>3. u \in H
    BY <2>2
  <2>4. GasOf[u] \in Nat /\ GasOf[m] \in Nat
    BY <1>1, HistoryAssumption
  <2> QED
    BY <1>5, <2>2, <2>3, <2>4
<1>7. m \in G
  OBVIOUS
<1> QED
  BY <1>6, <1>7 DEF MaxGas

-----------------------------------------------------------------------------
Sound == \A t \in Tx : history[t] = "completed" => t \in mined

\* A reload asks for what is in the group of its nonce.
Asking == \A r \in reloads : \A t \in r.txs : NonceOf[t] = r.nonce

Inv == TypeOK /\ Sound /\ Asking /\ Followed

-----------------------------------------------------------------------------
\* What the operators return.

LEMMA NonceFacts == \A t \in Tx : NonceOf[t] \in Nonce /\ NonceOf[t] \in Nat
BY HistoryAssumption DEF Nonce

LEMMA NonceIsNat == Nonce \subseteq Nat
BY HistoryAssumption DEF Nonce

\* The next id of a poll that has ids is one of them.
LEMMA NextIdFacts ==
  ASSUME TypeOK, poll.ids # {}
  PROVE  NextId \in poll.ids /\ NextId \in Nonce /\ NextId \in Nat
<1>1. poll.ids \subseteq Nonce
  BY DEF TypeOK
<1>2. poll.ids \subseteq Nat
  BY <1>1, NonceIsNat
<1>3. \E n \in poll.ids : \A m \in poll.ids : n <= m
  BY <1>2, Least
<1>4. NextId \in poll.ids
  BY <1>3 DEF NextId
<1> QED
  BY <1>1, <1>2, <1>4

Reload == [nonce : Nonce, last : BOOLEAN, due : BOOLEAN, txs : SUBSET Tx]

LEMMA ReloadType ==
  ASSUME NEW n \in Nonce, NEW last \in BOOLEAN
  PROVE  /\ reloadTx(n, last) \subseteq Reload
         /\ \A r \in reloadTx(n, last) : r.nonce = n
<1> DEFINE sent == {t \in Group(history, n) : history[t] \in {"sent", "completed"}}
<1>1. sent \in SUBSET Tx
  BY DEF Group
<1> DEFINE q == [nonce |-> n, last |-> last, due |-> FALSE, txs |-> sent]
<1>2. q \in Reload /\ q.nonce = n
  BY <1>1 DEF Reload
<1>3. reloadTx(n, last) \subseteq {q}
  BY DEF reloadTx
<1> HIDE DEF q
<1> QED
  BY <1>2, <1>3

LEMMA RetriedType ==
  ASSUME NEW r \in Reload
  PROVE  /\ retried(r) \subseteq Reload
         /\ \A q \in retried(r) : q.nonce = r.nonce
         /\ ~ r.last => retried(r) # {}
BY DEF retried, Reload

LEMMA HistoryType ==
  ASSUME history \in [Tx -> Status]
  PROVE  /\ \A t \in Tx : addTx(history, t) \in [Tx -> Status]
         /\ \A t \in Tx, s \in Status : updateTxByTxRequest(history, t, s) \in [Tx -> Status]
         /\ \A n \in Nonce, c \in Tx : completeTx(history, n, c) \in [Tx -> Status]
         /\ clearPendingTransactions(history) \in [Tx -> Status]
         /\ \A N \in SUBSET Nonce : removePendingGroups(history, N) \in [Tx -> Status]
<1>1. "absent" \in Status /\ "queued" \in Status /\ "sent" \in Status /\ "completed" \in Status
  BY DEF Status
<1>2. ASSUME NEW t \in Tx PROVE addTx(history, t) \in [Tx -> Status]
  BY <1>1 DEF addTx
<1>3. ASSUME NEW t \in Tx, NEW s \in Status
      PROVE  updateTxByTxRequest(history, t, s) \in [Tx -> Status]
  BY <1>1 DEF updateTxByTxRequest
<1>4. ASSUME NEW n \in Nonce, NEW c \in Tx PROVE completeTx(history, n, c) \in [Tx -> Status]
  BY <1>1 DEF completeTx, clearBefore
<1>5. clearPendingTransactions(history) \in [Tx -> Status]
  BY <1>1 DEF clearPendingTransactions
<1>6. ASSUME NEW N \in SUBSET Nonce PROVE removePendingGroups(history, N) \in [Tx -> Status]
  BY <1>1 DEF removePendingGroups
<1> QED
  BY <1>2, <1>3, <1>4, <1>5, <1>6

LEMMA LossType ==
  ASSUME lost \subseteq Nonce \X Cause
  PROVE  /\ \A N \in SUBSET Nonce, c \in Cause :
              loses(N, c) => lost' \subseteq Nonce \X Cause
         /\ regained => lost' \subseteq Nonce \X Cause
BY DEF loses, regained

LEMMA CauseFacts ==
  /\ {"killed", "gave up", "no group", "not watched"} = Cause
  /\ \A n \in Nonce : {n} \in SUBSET Nonce /\ upTo(n) \in SUBSET Nonce
BY DEF Cause, upTo

-----------------------------------------------------------------------------
\* Every action keeps the types.
LEMMA TypeStep ==
  ASSUME TypeOK, Sound, [Next]_vars
  PROVE  TypeOK'
<1> USE WatchersAssumption
<1>1. CASE \E t \in Tx : Mine(t)
  BY <1>1 DEF Mine, TypeOK, external
<1>2. CASE \E t \in Relayed : RelayDecides(t)
  BY <1>2 DEF RelayDecides, TypeOK
<1>3. CASE \E t \in Tx : Push(t)
  BY <1>3 DEF Push, TypeOK
<1>4. CASE \E t \in Tx : Record(t)
  <2>1. PICK t \in Tx : Record(t)
    BY <1>4
  <2>2. history' \in [Tx -> Status]
    BY <2>1, HistoryType DEF Record, TypeOK
  <2>3. mishaps' \in 0 .. MaxMishaps
    BY <2>1 DEF Record, Mishap, TypeOK
  <2> QED
    BY <2>1, <2>2, <2>3 DEF Record, TypeOK
<1>5. CASE \E t \in Tx : Watch(t)
  <2>1. PICK t \in Tx : Watch(t)
    BY <1>5
  <2>2. watched' \in [Nonce -> Tx \cup {NoTx}] /\ mishaps' \in 0 .. MaxMishaps
    <3>1. \/ watched' = [watched EXCEPT ![NonceOf[t]] = t] /\ UNCHANGED mishaps
          \/ Mishap /\ UNCHANGED watched
      BY <2>1 DEF Watch
    <3>2. watched \in [Nonce -> Tx \cup {NoTx}] /\ mishaps \in 0 .. MaxMishaps
      BY DEF TypeOK
    <3> QED
      BY <3>1, <3>2 DEF Mishap
  <2>3. stage' \in [Tx -> {"new", "pushed", "recorded", "done"}]
    BY <2>1 DEF Watch, TypeOK
  <2>4. lost' \subseteq Nonce \X Cause
    BY <2>1, LossType, CauseFacts, NonceFacts DEF Watch, TypeOK
  <2> QED
    BY <2>1, <2>2, <2>3, <2>4 DEF Watch, TypeOK
<1>6. CASE \E p \in Poll : AskRelay(p)
  BY <1>6 DEF AskRelay, TypeOK, external
<1>7. CASE \E p \in Poll : RelayAnswers(p)
  <2>1. PICK p \in Poll : RelayAnswers(p)
    BY <1>7
  <2>2. PICK S \in SUBSET {t \in asked[p] : relay[t] # "waiting"} :
          /\ requests' = requests \ S
          /\ history' = [t \in Tx |-> IF t \in S
                           THEN updateTxByTxRequest(history, t, relay[t])[t]
                           ELSE history[t]]
          /\ \E last \in [Nonce -> S \cup {NoTx}] :
               watched' = [n \in Nonce |-> IF last[n] = NoTx THEN watched[n] ELSE last[n]]
    BY <2>1 DEF RelayAnswers
  <2>3. S \subseteq Tx /\ \A t \in S : relay[t] \in Status
    BY <2>1, <2>2 DEF TypeOK, Status
  <2>4. history' \in [Tx -> Status]
    BY <2>2, <2>3, HistoryType DEF TypeOK
  <2>5. watched' \in [Nonce -> Tx \cup {NoTx}]
    BY <2>2, <2>3 DEF TypeOK
  <2>6. requests' \subseteq Relayed
    BY <2>2 DEF TypeOK
  <2>7. asked' \in [Poll -> SUBSET Relayed] /\ lost' \subseteq Nonce \X Cause
    BY <2>1, LossType DEF RelayAnswers, TypeOK
  <2> QED
    BY <2>1, <2>4, <2>5, <2>6, <2>7 DEF RelayAnswers, TypeOK, external
<1>8. CASE \E r \in reloads : ReloadCompletes(r)
  <2>1. PICK r \in reloads : ReloadCompletes(r)
    BY <1>8
  <2>2. r.nonce \in Nonce
    BY <2>1 DEF TypeOK
  <2>3. history' \in [Tx -> Status]
    <3>1. PICK c \in r.txs \cap mined : history' = completeTx(history, r.nonce, c)
      BY <2>1 DEF ReloadCompletes
    <3>2. c \in Tx /\ history \in [Tx -> Status]
      BY DEF TypeOK
    <3> QED
      BY <2>2, <3>1, <3>2, HistoryType
  <2>4. lost' \subseteq Nonce \X Cause
    BY <2>1, LossType, CauseFacts DEF ReloadCompletes, TypeOK
  <2> QED
    BY <2>1, <2>3, <2>4 DEF ReloadCompletes, TypeOK, external
<1>9. CASE \E r \in reloads : ReloadFails(r)
  <2>1. PICK r \in reloads : ReloadFails(r)
    BY <1>9
  <2>2. reloads' \subseteq Reload
    BY <2>1, RetriedType DEF ReloadFails, TypeOK, Reload
  <2>3. lost' \subseteq Nonce \X Cause
    BY <2>1, LossType, CauseFacts DEF ReloadFails, TypeOK
  <2>4. mishaps' \in 0 .. MaxMishaps
    <3>1. UNCHANGED mishaps \/ Mishap
      BY <2>1 DEF ReloadFails
    <3> QED
      BY <3>1 DEF Mishap, TypeOK
  <2> QED
    BY <2>1, <2>2, <2>3, <2>4 DEF ReloadFails, TypeOK, external, Reload
<1>10. CASE \E r \in reloads : RetryDue(r)
  <2>1. PICK r \in reloads : RetryDue(r)
    BY <1>10
  <2>2. r.nonce \in Nonce
    BY <2>1 DEF TypeOK
  <2>3. reloads' \subseteq Reload
    BY <2>1, <2>2, ReloadType DEF RetryDue, TypeOK, Reload
  <2>4. lost' \subseteq Nonce \X Cause
    BY <2>1, LossType, CauseFacts DEF RetryDue, TypeOK
  <2> QED
    BY <2>1, <2>3, <2>4 DEF RetryDue, TypeOK, external, Reload
<1>11. CASE StartPoll
  BY <1>11 DEF StartPoll, TypeOK, external, Idle
<1>12. CASE CheckStatus
  <2>1. NextId \in Nonce
    BY <1>12, NextIdFacts DEF CheckStatus
  <2>2. poll' \in [ids : SUBSET Nonce, hash : Tx \cup {NoTx}]
    BY <1>12, <2>1 DEF CheckStatus, TypeOK, skipped
  <2>3. poll'.hash # NoTx => poll'.ids # {}
    BY <1>12, <2>1 DEF CheckStatus, TypeOK, skipped
  <2> QED
    BY <1>12, <2>2, <2>3 DEF CheckStatus, TypeOK, external
<1>13. CASE NoReceipt
  <2>1. mishaps' \in 0 .. MaxMishaps
    BY <1>13 DEF NoReceipt, Mishap, TypeOK
  <2> QED
    BY <1>13, <2>1 DEF NoReceipt, TypeOK, external, skipped
<1>14. CASE Receipt
  <2>1. poll.hash # NoTx
    BY <1>14, HistoryAssumption DEF Receipt, TypeOK
  <2>2. NextId \in Nonce
    BY <2>1, NextIdFacts DEF TypeOK
  <2>3. reloads' \subseteq Reload
    BY <1>14, <2>2, ReloadType DEF Receipt, TypeOK, Reload
  <2>4. lost' \subseteq Nonce \X Cause
    BY <1>14, <2>2, LossType, CauseFacts DEF Receipt, TypeOK
  <2>5. watched' \in [Nonce -> Tx \cup {NoTx}]
    BY <1>14 DEF Receipt, _removeTx, TypeOK
  <2> QED
    BY <1>14, <2>3, <2>4, <2>5 DEF Receipt, TypeOK, external, skipped, Reload
<1>15. CASE Clear
  <2>1. history' \in [Tx -> Status]
    BY <1>15, HistoryType DEF Clear, TypeOK, Status
  <2> QED
    BY <1>15, <2>1 DEF Clear, TypeOK, external, Mishap, NobodyWatched
<1>16. CASE \E N \in SUBSET Nonce : RemoveLocal(N, NobodyWatched) \/ RemoveLocal(N, watched)
  <2>1. PICK N \in SUBSET Nonce : RemoveLocal(N, NobodyWatched) \/ RemoveLocal(N, watched)
    BY <1>16
  <2>2. history' \in [Tx -> Status]
    <3>1. history' = removePendingGroups(history, N)
      BY <2>1 DEF RemoveLocal
    <3> QED
      BY <3>1, HistoryType DEF TypeOK
  <2>3. watched' \in [Nonce -> Tx \cup {NoTx}]
    BY <2>1 DEF RemoveLocal, TypeOK, NobodyWatched
  <2>4. requests' \subseteq Relayed /\ mishaps' \in 0 .. MaxMishaps
    BY <2>1 DEF RemoveLocal, TypeOK, Mishap
  <2>5. UNCHANGED <<external, poll, asked, reloads, lost>>
    BY <2>1 DEF RemoveLocal
  <2> QED
    BY <2>2, <2>3, <2>4, <2>5 DEF TypeOK, external
<1>17. CASE Restart
  <2>1. lost' \subseteq Nonce \X Cause
    BY <1>17, LossType, CauseFacts DEF Restart, TypeOK
  <2> QED
    BY <1>17, <2>1 DEF Restart, TypeOK, Mishap, Idle
<1>18. CASE UNCHANGED vars
  BY <1>18 DEF vars, external, TypeOK
<1> QED
  BY <1>1, <1>2, <1>3, <1>4, <1>5, <1>6, <1>7, <1>8, <1>9, <1>10, <1>11, <1>12,
     <1>13, <1>14, <1>15, <1>16, <1>17, <1>18
  DEF Next, World, Controller, Broadcast, Reloading, Polling, Local
-----------------------------------------------------------------------------
\* What is completed keeps a receipt.

\* Where the methods leave "completed" and "sent".
LEMMA AddTxItems ==
  ASSUME history \in [Tx -> Status], NEW t \in Tx, NEW u \in Tx
  PROVE  LET h == addTx(history, u) IN
           /\ h[t] = "completed" <=> history[t] = "completed"
           /\ h[t] = "sent" => history[t] = "sent" \/ t = u
BY DEF addTx

LEMMA CompleteTxItems ==
  ASSUME history \in [Tx -> Status], NEW t \in Tx, NEW n \in Nonce, NEW c \in Tx
  PROVE  LET h == completeTx(history, n, c) IN
           /\ h[t] = "completed" => history[t] = "completed" \/ t = c
           /\ history[t] = "completed" => h[t] = "completed"
           /\ h[t] = "sent" => history[t] = "sent"
BY DEF completeTx, clearBefore, Pending

LEMMA ClearPendingItems ==
  ASSUME history \in [Tx -> Status], NEW t \in Tx
  PROVE  LET h == clearPendingTransactions(history) IN
           /\ h[t] # "sent"
           /\ h[t] = "completed" => history[t] = "completed"
           /\ history[t] = "completed" => h[t] = "completed"
<1>1. CASE history[t] \in Pending
  BY <1>1 DEF clearPendingTransactions, Pending
<1>2. CASE history[t] \notin Pending
  BY <1>2 DEF clearPendingTransactions, Pending
<1> QED
  BY <1>1, <1>2

LEMMA RemoveGroupItems ==
  ASSUME history \in [Tx -> Status], NEW t \in Tx, NEW N \in SUBSET Nonce
  PROVE  removePendingGroups(history, N)[t] \in {"absent", history[t]}
BY DEF removePendingGroups

\* What an answer of the relay does to the history and to what is watched.
Answered(S, last) ==
  /\ history' = [t \in Tx |-> IF t \in S
                                THEN updateTxByTxRequest(history, t, relay[t])[t]
                                ELSE history[t]]
  /\ \A n \in Nonce : last[n] = NoTx => \A t \in S : NonceOf[t] = n => relay[t] # "sent"
  /\ watched' = [n \in Nonce |-> IF last[n] = NoTx THEN watched[n] ELSE last[n]]

LEMMA AnswerFacts ==
  ASSUME TypeOK, Sound, NEW p \in Poll, RelayAnswers(p)
  PROVE  \E S \in SUBSET asked[p], last \in [Nonce -> Tx \cup {NoTx}] : Answered(S, last)
<1> USE WatchersAssumption
<1>1. PICK S \in SUBSET {t \in asked[p] : relay[t] # "waiting"} :
        /\ history' = [t \in Tx |-> IF t \in S
                         THEN updateTxByTxRequest(history, t, relay[t])[t]
                         ELSE history[t]]
        /\ \E last \in [Nonce -> S \cup {NoTx}] :
             /\ \A n \in Nonce : LET sent == {t \in S : NonceOf[t] = n /\ relay[t] = "sent"}
                                 IN  last[n] \in IF sent = {} THEN {NoTx} ELSE sent
             /\ watched' = [n \in Nonce |-> IF last[n] = NoTx THEN watched[n] ELSE last[n]]
  BY DEF RelayAnswers
<1>2. PICK last \in [Nonce -> S \cup {NoTx}] :
        /\ \A n \in Nonce : LET sent == {t \in S : NonceOf[t] = n /\ relay[t] = "sent"}
                            IN  last[n] \in IF sent = {} THEN {NoTx} ELSE sent
        /\ watched' = [n \in Nonce |-> IF last[n] = NoTx THEN watched[n] ELSE last[n]]
  BY <1>1
<1>3. S \subseteq Tx /\ S \in SUBSET asked[p]
  BY <1>1 DEF TypeOK
<1>4. ASSUME NEW n \in Nonce, last[n] = NoTx, NEW t \in S, NonceOf[t] = n, relay[t] = "sent"
      PROVE  FALSE
  BY <1>2, <1>3, <1>4, HistoryAssumption
<1>5. last \in [Nonce -> Tx \cup {NoTx}]
  BY <1>3
<1> QED
  BY <1>1, <1>2, <1>3, <1>4, <1>5 DEF Answered

LEMMA AnsweredItems ==
  ASSUME TypeOK, Sound, NEW p \in Poll, NEW S \in SUBSET asked[p],
         NEW last \in [Nonce -> Tx \cup {NoTx}], Answered(S, last), NEW t \in Tx
  PROVE  /\ history[t] = "completed" <=> history'[t] = "completed"
         /\ history'[t] = "sent" => history[t] = "sent" \/ watched'[NonceOf[t]] # NoTx
<1>1. CASE t \notin S
  BY <1>1 DEF Answered
<1>2. CASE t \in S
  <2>1. history'[t] = updateTxByTxRequest(history, t, relay[t])[t]
    BY <1>2 DEF Answered
  <2>2. history'[t] = IF history[t] \in {"absent", "completed"} THEN history[t] ELSE relay[t]
    BY <2>1 DEF updateTxByTxRequest, TypeOK
  <2>3. relay[t] # "completed"
    <3>1. t \in Relayed
      BY <1>2 DEF TypeOK
    <3> QED
      BY <3>1 DEF TypeOK
  <2>4. relay[t] = "sent" => watched'[NonceOf[t]] # NoTx
    BY <1>2, NonceFacts DEF Answered
  <2> QED
    BY <2>2, <2>3, <2>4
<1> QED
  BY <1>1, <1>2

LEMMA SoundStep ==
  ASSUME TypeOK, Sound, [Next]_vars
  PROVE  Sound'
<1> USE WatchersAssumption
<1>1. CASE \E t \in Tx : Mine(t)
  BY <1>1 DEF Mine, Sound
<1>2. CASE \E t \in Relayed : RelayDecides(t)
  BY <1>2 DEF RelayDecides, Sound, TypeOK
<1>3. CASE \E t \in Tx : Push(t)
  BY <1>3 DEF Push, Sound, TypeOK
<1>4. CASE \E t \in Tx : Record(t)
  <2>1. PICK t \in Tx : Record(t)
    BY <1>4
  <2>2. \A u \in Tx : history'[u] = "completed" => history[u] = "completed"
    BY <2>1, AddTxItems DEF Record, TypeOK
  <2> QED
    BY <2>1, <2>2 DEF Record, Sound, TypeOK
<1>5. CASE \E t \in Tx : Watch(t)
  BY <1>5 DEF Watch, Sound, TypeOK
<1>6. CASE \E p \in Poll : AskRelay(p)
  BY <1>6 DEF AskRelay, Sound, TypeOK, external
<1>7. CASE \E p \in Poll : RelayAnswers(p)
  <2>1. PICK p \in Poll : RelayAnswers(p)
    BY <1>7
  <2>2. \A t \in Tx : history'[t] = "completed" => history[t] = "completed"
    BY <2>1, AnswerFacts, AnsweredItems
  <2>3. requests' \subseteq requests
    BY <2>1 DEF RelayAnswers
  <2> QED
    BY <2>1, <2>2, <2>3 DEF RelayAnswers, Sound, TypeOK, external
<1>8. CASE \E r \in reloads : ReloadCompletes(r)
  <2>1. PICK r \in reloads : ReloadCompletes(r)
    BY <1>8
  <2>2. PICK c \in r.txs \cap mined : history' = completeTx(history, r.nonce, c)
    BY <2>1 DEF ReloadCompletes
  <2>3. r.nonce \in Nonce /\ c \in Tx
    BY <2>1, <2>2 DEF TypeOK
  <2>4. \A t \in Tx : history'[t] = "completed" => history[t] = "completed" \/ t = c
    BY <2>2, <2>3, CompleteTxItems DEF TypeOK
  <2> QED
    BY <2>1, <2>2, <2>4 DEF ReloadCompletes, Sound, external
<1>9. CASE \E r \in reloads : ReloadFails(r) \/ RetryDue(r)
  BY <1>9 DEF ReloadFails, RetryDue, Sound, external
<1>10. CASE Polling
  BY <1>10 DEF Polling, StartPoll, CheckStatus, NoReceipt, Receipt, Sound, external
<1>11. CASE Clear
  <2>1. \A t \in Tx : history'[t] = "completed" => history[t] = "completed"
    BY <1>11, ClearPendingItems DEF Clear, TypeOK
  <2> QED
    BY <1>11, <2>1 DEF Clear, Sound, external
<1>12. CASE \E N \in SUBSET Nonce : RemoveLocal(N, NobodyWatched) \/ RemoveLocal(N, watched)
  <2>1. PICK N \in SUBSET Nonce : RemoveLocal(N, NobodyWatched) \/ RemoveLocal(N, watched)
    BY <1>12
  <2>2. \A t \in Tx : history'[t] \in {"absent", history[t]}
    BY <2>1, RemoveGroupItems DEF RemoveLocal, TypeOK
  <2>3. requests' \subseteq requests
    BY <2>1 DEF RemoveLocal
  <2> QED
    BY <2>1, <2>2, <2>3 DEF RemoveLocal, Sound, external
<1>13. CASE Restart
  BY <1>13 DEF Restart, Sound, TypeOK
<1>14. CASE UNCHANGED vars
  BY <1>14 DEF vars, external, Sound
<1> QED
  BY <1>1, <1>2, <1>3, <1>4, <1>5, <1>6, <1>7, <1>8, <1>9, <1>10, <1>11, <1>12, <1>13, <1>14
  DEF Next, World, Controller, Broadcast, Reloading, Local
\* Reloads begin with their group, and a retry keeps it until it is due.
LEMMA AskingStep ==
  ASSUME TypeOK, Asking, [Next]_vars
  PROVE  Asking'
<1>1. \A n, last : \A r \in reloadTx(n, last) : \A t \in r.txs : NonceOf[t] = r.nonce
  BY DEF reloadTx, Group
<1>2. \A r \in reloads : \A q \in retried(r) : \A t \in q.txs : NonceOf[t] = q.nonce
  BY DEF retried, Asking, TypeOK
<1>3. CASE \E r \in reloads : ReloadFails(r)
  BY <1>2, <1>3 DEF ReloadFails, Asking
<1>4. CASE \E r \in reloads : RetryDue(r)
  BY <1>1, <1>4 DEF RetryDue, Asking
<1>5. CASE Receipt
  BY <1>1, <1>5 DEF Receipt, Asking
<1>6. CASE reloads' \subseteq reloads
  BY <1>6 DEF Asking
<1>7. CASE \E r \in reloads : ReloadCompletes(r)
  BY <1>6, <1>7 DEF ReloadCompletes
<1>8. CASE Restart
  BY <1>6, <1>8 DEF Restart
<1> QED
  BY <1>3, <1>4, <1>5, <1>6, <1>7, <1>8
  DEF Next, vars, World, Mine, RelayDecides, Push, Controller, Record, Watch, Broadcast,
      AskRelay, RelayAnswers, Reloading, Polling, StartPoll, CheckStatus, NoReceipt,
      Local, Clear, RemoveLocal, external

-----------------------------------------------------------------------------
\* What is sent stays followed.

\* Nonce n is looked for, or lost in a way that has a name.
Looked(n) == LookedFor(n) \/ Lost(n)

\* A step that loses nonces names those that nobody looks for any more.
LEMMA LossIsNamed ==
  ASSUME NEW N \in SUBSET Nonce, NEW c \in Cause, loses(N, c), NEW n \in N,
         Unfinished(history', n)
  PROVE  Looked(n)'
<1>1. CASE LookedFor(n)'
  BY <1>1 DEF Looked
<1>2. CASE ~LookedFor(n)'
  <2> DEFINE x == <<n, c>>
  <2>1. x \in N \X {c} /\ x[1] = n
    OBVIOUS
  <2>2. x \in lost'
    BY <1>2, <2>1 DEF loses
  <2> QED
    BY <2>2 DEF Lost, Looked
<1> QED
  BY <1>1, <1>2

\* What was lost stays so, unless it is watched again.
LEMMA LossStays ==
  ASSUME NEW n \in Nonce, Lost(n),
         \/ lost \subseteq lost'
         \/ \E N \in SUBSET Nonce, c \in Cause : loses(N, c)
         \/ regained
  PROVE  Lost(n)' \/ watched'[n] # NoTx
<1>1. PICK c \in Cause : <<n, c>> \in lost
  BY DEF Lost
<1>2. CASE lost \subseteq lost' \/ \E N \in SUBSET Nonce, d \in Cause : loses(N, d)
  <2>1. <<n, c>> \in lost'
    BY <1>1, <1>2 DEF loses
  <2> QED
    BY <2>1 DEF Lost
<1>3. CASE regained
  BY <1>1, <1>3 DEF regained, Lost
<1> QED
  BY <1>2, <1>3

\* A history that sends and completes nothing new has nothing new unfinished.
LEMMA StaysFinished ==
  ASSUME NEW n \in Nonce, Unfinished(history', n),
         \A t \in Tx : NonceOf[t] = n =>
           /\ history'[t] = "sent" => history[t] = "sent"
           /\ history[t] = "completed" => history'[t] = "completed"
  PROVE  Unfinished(history, n)
BY DEF Unfinished

\* A whole group goes or stays.
LEMMA GroupGoes ==
  ASSUME history \in [Tx -> Status], NEW N \in SUBSET Nonce, NEW n \in Nonce,
         Unfinished(removePendingGroups(history, N), n)
  PROVE  /\ Unfinished(history, n)
         /\ n \in N => GroupStatus(history, n) \notin Pending
<1> DEFINE h == removePendingGroups(history, N)
<1>1. PICK u \in Tx : NonceOf[u] = n /\ h[u] = "sent"
  BY DEF Unfinished
<1>2. ~(n \in N /\ GroupStatus(history, n) \in Pending)
  BY <1>1 DEF removePendingGroups
<1>3. \A t \in Tx : NonceOf[t] = n => h[t] = history[t]
  BY <1>2 DEF removePendingGroups
<1> HIDE DEF h
<1> QED
  BY <1>2, <1>3 DEF Unfinished, h

\* A group with nothing completed is pending: its item with the most gas is.
LEMMA UnfinishedIsPending ==
  ASSUME history \in [Tx -> Status], NEW n \in Nonce, Unfinished(history, n)
  PROVE  GroupStatus(history, n) \in Pending
<1>1. Group(history, n) # {}
  BY DEF Unfinished, Group
<1>2. MaxGas(history, n) \in Group(history, n)
  BY <1>1, MaxGasInGroup
<1>3. history[MaxGas(history, n)] \in Pending
  BY <1>2 DEF Group, Unfinished, Status, Pending
<1> QED
  BY <1>1, <1>3 DEF GroupStatus

LEMMA FollowedStep ==
  ASSUME TypeOK, Sound, Asking, Followed, [Next]_vars
  PROVE  Followed'
<1> SUFFICES ASSUME NEW n \in Nonce, Unfinished(history', n)
             PROVE  Looked(n)'
  BY DEF Followed, Looked, Unfinished, Nonce
<1> USE WatchersAssumption
<1>0. Unfinished(history, n) => Looked(n)
  BY DEF Followed, Looked
<1>a. n \in Nat
  BY NonceIsNat
\* Who looked for n still does: nothing watched, recorded or reloading went.
<1>b. ASSUME Unfinished(history, n),
             watched[n] # NoTx => watched'[n] # NoTx,
             \A q \in reloads : q.nonce >= n => q \in reloads',
             \A t \in Tx : NonceOf[t] = n /\ stage[t] = "recorded" => stage'[t] = "recorded",
             \/ lost \subseteq lost'
             \/ \E N \in SUBSET Nonce, c \in Cause : loses(N, c)
             \/ regained
      PROVE  Looked(n)'
  <2>1. CASE LookedFor(n)
    <3>1. LookedFor(n)'
      BY <1>b, <2>1 DEF LookedFor
    <3> QED
      BY <3>1 DEF Looked
  <2>2. CASE Lost(n)
    <3>1. Lost(n)' \/ watched'[n] # NoTx
      BY <1>b, <2>2, LossStays
    <3> QED
      BY <3>1 DEF Looked, LookedFor
  <2> QED
    BY <1>0, <1>b, <2>1, <2>2 DEF Looked
\* Steps that change neither the history nor who looks.
<1>1. CASE UNCHANGED <<history, stage, watched, reloads, lost>>
  BY <1>b, <1>1
<1>2. CASE (\E t \in Tx : Mine(t)) \/ (\E t \in Relayed : RelayDecides(t))
  BY <1>1, <1>2 DEF Mine, RelayDecides
<1>3. CASE \E t \in Tx : Push(t)
  <2>1. PICK t \in Tx : Push(t)
    BY <1>3
  <2>2. \A u \in Tx : stage[u] = "recorded" => stage'[u] = "recorded"
    BY <2>1 DEF Push, TypeOK
  <2> QED
    BY <1>b, <2>1, <2>2 DEF Push
<1>4. CASE \E t \in Tx : Record(t)
  <2>1. PICK t \in Tx : Record(t)
    BY <1>4
  <2>2. \A u \in Tx : stage[u] = "recorded" => stage'[u] = "recorded"
    BY <2>1 DEF Record, TypeOK
  <2>3. stage'[t] = "recorded"
    BY <2>1 DEF Record, TypeOK
  <2>4. CASE NonceOf[t] = n
    BY <2>3, <2>4 DEF Looked, LookedFor
  <2>5. CASE NonceOf[t] # n
    <3>1. ASSUME NEW u \in Tx, NonceOf[u] = n
          PROVE  /\ history'[u] = "sent" => history[u] = "sent"
                 /\ history[u] = "completed" => history'[u] = "completed"
      BY <2>1, <2>5, <3>1, AddTxItems DEF Record, TypeOK
    <3>2. Unfinished(history, n)
      BY <3>1, StaysFinished
    <3> QED
      BY <1>b, <2>1, <2>2, <3>2 DEF Record
  <2> QED
    BY <2>4, <2>5
<1>5. CASE \E t \in Tx : Watch(t)
  <2>1. PICK t \in Tx : Watch(t)
    BY <1>5
  <2>2. NonceOf[t] \in Nonce /\ t # NoTx
    BY NonceFacts, HistoryAssumption
  <2>3. CASE watched' = [watched EXCEPT ![NonceOf[t]] = t] /\ regained
    <3>1. CASE NonceOf[t] = n
      <4>1. watched'[n] # NoTx
        BY <2>2, <2>3, <3>1 DEF TypeOK
      <4> QED
        BY <4>1 DEF Looked, LookedFor
    <3>2. CASE NonceOf[t] # n
      <4>1. watched'[n] = watched[n]
        BY <2>3, <3>2 DEF TypeOK
      <4>2. \A u \in Tx : NonceOf[u] = n /\ stage[u] = "recorded" => stage'[u] = "recorded"
        BY <2>1, <3>2 DEF Watch, TypeOK
      <4> QED
        BY <1>b, <2>1, <2>3, <4>1, <4>2 DEF Watch
    <3> QED
      BY <3>1, <3>2
  <2>4. CASE watched' = watched /\ loses({NonceOf[t]}, "not watched")
    <3>1. {NonceOf[t]} \in SUBSET Nonce /\ "not watched" \in Cause
      BY <2>2, CauseFacts
    <3>2. CASE NonceOf[t] = n
      BY <2>4, <3>1, <3>2, LossIsNamed
    <3>3. CASE NonceOf[t] # n
      <4>1. \A u \in Tx : NonceOf[u] = n /\ stage[u] = "recorded" => stage'[u] = "recorded"
        BY <2>1, <3>3 DEF Watch, TypeOK
      <4> QED
        BY <1>b, <2>1, <2>4, <3>1, <4>1 DEF Watch
    <3> QED
      BY <3>2, <3>3
  <2> QED
    BY <2>1, <2>3, <2>4 DEF Watch
<1>6. CASE \E p \in Poll : AskRelay(p)
  BY <1>1, <1>6 DEF AskRelay, external
<1>7. CASE \E p \in Poll : RelayAnswers(p)
  <2>1. PICK p \in Poll : RelayAnswers(p)
    BY <1>7
  <2>2. PICK S \in SUBSET asked[p], last \in [Nonce -> Tx \cup {NoTx}] : Answered(S, last)
    BY <2>1, AnswerFacts
  <2>3. CASE watched'[n] # NoTx
    BY <2>3 DEF Looked, LookedFor
  <2>4. CASE watched'[n] = NoTx
    <3>1. Unfinished(history, n)
      <4>1. ASSUME NEW t \in Tx, NonceOf[t] = n
            PROVE  /\ history'[t] = "sent" => history[t] = "sent"
                   /\ history[t] = "completed" => history'[t] = "completed"
        BY <2>2, <2>4, <4>1, AnsweredItems
      <4> QED
        BY <4>1, StaysFinished
    <3>2. watched[n] = NoTx
      BY <2>2, <2>4 DEF Answered
    <3> QED
      BY <1>b, <2>1, <3>1, <3>2 DEF RelayAnswers, external
  <2> QED
    BY <2>3, <2>4
<1>8. CASE \E r \in reloads : ReloadCompletes(r)
  <2>1. PICK r \in reloads : ReloadCompletes(r)
    BY <1>8
  <2>2. PICK c \in r.txs \cap mined :
          /\ history' = completeTx(history, r.nonce, c)
          /\ IF history[c] = "absent" THEN loses({r.nonce}, "no group")
             ELSE UNCHANGED lost
    BY <2>1 DEF ReloadCompletes
  <2>3. r.nonce \in Nonce /\ r.nonce \in Nat /\ c \in Tx /\ NonceOf[c] = r.nonce
    BY <2>1, <2>2, NonceIsNat DEF TypeOK, Asking
  <2>4. {r.nonce} \in SUBSET Nonce /\ "no group" \in Cause
    BY <2>3, CauseFacts
  \* What is pending with a smaller nonce is cleared.
  <2>5. CASE n < r.nonce
    <3>1. PICK t \in Tx : NonceOf[t] = n /\ history'[t] = "sent"
      BY DEF Unfinished
    <3>2. FALSE
      BY <2>2, <2>5, <3>1 DEF completeTx, clearBefore, Pending
    <3> QED
      BY <3>2
  <2>6. CASE n = r.nonce /\ history[c] = "absent"
    BY <2>2, <2>4, <2>6, LossIsNamed
  <2>7. CASE n = r.nonce /\ history[c] # "absent"
    <3>1. history'[c] = "completed"
      BY <2>2, <2>3, <2>7 DEF completeTx, clearBefore, Pending, TypeOK
    <3> QED
      BY <2>3, <2>7, <3>1 DEF Unfinished
  <2>8. CASE ~(n <= r.nonce)
    <3>1. Unfinished(history, n)
      <4>1. history' = completeTx(history, r.nonce, c) /\ history \in [Tx -> Status]
        BY <2>2 DEF TypeOK
      <4>2. ASSUME NEW t \in Tx
            PROVE  /\ history'[t] = "sent" => history[t] = "sent"
                   /\ history[t] = "completed" => history'[t] = "completed"
        BY <2>3, <4>1, CompleteTxItems
      <4> QED
        BY <4>2, StaysFinished
    <3>2. \A q \in reloads : q.nonce >= n => q \in reloads'
      BY <1>a, <2>1, <2>3, <2>8 DEF ReloadCompletes
    <3> QED
      BY <1>b, <2>1, <2>2, <2>4, <3>1, <3>2 DEF ReloadCompletes, external
  <2> QED
    BY <1>a, <2>3, <2>5, <2>6, <2>7, <2>8
<1>9. CASE \E r \in reloads : ReloadFails(r)
  <2>1. PICK r \in reloads : ReloadFails(r)
    BY <1>9
  <2>2. r \in Reload /\ r.nonce \in Nonce /\ r.nonce \in Nat
    BY <2>1, NonceIsNat DEF TypeOK, Reload
  <2>3. Unfinished(history, n)
    BY <2>1 DEF ReloadFails
  <2>4. upTo(r.nonce) \in SUBSET Nonce /\ "gave up" \in Cause
    BY <2>2, CauseFacts
  <2>5. CASE r.last /\ n <= r.nonce
    <3>1. n \in upTo(r.nonce) /\ loses(upTo(r.nonce), "gave up")
      BY <2>1, <2>5 DEF ReloadFails, upTo
    <3> QED
      BY <2>4, <3>1, LossIsNamed
  <2>6. CASE ~ r.last /\ n <= r.nonce
    <3>1. PICK q \in retried(r) : q.nonce = r.nonce
      BY <2>2, <2>6, RetriedType
    <3>2. q \in reloads'
      BY <2>1, <3>1 DEF ReloadFails
    <3>3. q.nonce >= n
      BY <1>a, <2>2, <2>6, <3>1
    <3> QED
      BY <3>2, <3>3 DEF Looked, LookedFor
  <2>7. CASE ~(n <= r.nonce)
    <3>1. \A q \in reloads : q.nonce >= n => q \in reloads'
      BY <1>a, <2>1, <2>2, <2>7 DEF ReloadFails
    <3> QED
      BY <1>b, <2>1, <2>3, <2>4, <3>1 DEF ReloadFails, external
  <2> QED
    BY <2>5, <2>6, <2>7
<1>10. CASE \E r \in reloads : RetryDue(r)
  <2>1. PICK r \in reloads : RetryDue(r)
    BY <1>10
  <2>2. r.nonce \in Nonce /\ r.nonce \in Nat
    BY <2>1, NonceIsNat DEF TypeOK
  <2>3. Unfinished(history, n)
    BY <2>1 DEF RetryDue
  <2>4. upTo(r.nonce) \in SUBSET Nonce /\ "no group" \in Cause
    BY <2>2, CauseFacts
  <2>5. CASE n <= r.nonce /\ reloadTx(r.nonce, TRUE) = {}
    <3>1. n \in upTo(r.nonce) /\ loses(upTo(r.nonce), "no group")
      BY <2>1, <2>5 DEF RetryDue, upTo
    <3> QED
      BY <2>4, <3>1, LossIsNamed
  <2>6. CASE n <= r.nonce /\ reloadTx(r.nonce, TRUE) # {}
    <3>1. PICK q \in reloadTx(r.nonce, TRUE) : q.nonce = r.nonce
      BY <2>2, <2>6, ReloadType
    <3>2. q \in reloads'
      BY <2>1, <3>1 DEF RetryDue
    <3>3. q.nonce >= n
      BY <1>a, <2>2, <2>6, <3>1
    <3> QED
      BY <3>2, <3>3 DEF Looked, LookedFor
  <2>7. CASE ~(n <= r.nonce)
    <3>1. \A q \in reloads : q.nonce >= n => q \in reloads'
      BY <1>a, <2>1, <2>2, <2>7 DEF RetryDue
    <3> QED
      BY <1>b, <2>1, <2>3, <2>4, <3>1 DEF RetryDue, external
  <2> QED
    BY <2>5, <2>6, <2>7
<1>11. CASE StartPoll \/ CheckStatus \/ NoReceipt
  BY <1>1, <1>11 DEF StartPoll, CheckStatus, NoReceipt, external
<1>12. CASE Receipt
  <2>1. poll.hash # NoTx
    BY <1>12, HistoryAssumption DEF Receipt, TypeOK
  <2>2. NextId \in Nonce /\ NextId \in Nat
    BY <2>1, NextIdFacts DEF TypeOK
  <2> DEFINE reload == IF watched[NextId] = NoTx THEN {} ELSE reloadTx(NextId, FALSE)
  <2>3. /\ reloads' = reloads \cup reload
        /\ IF reload = {} THEN loses(upTo(NextId), "no group") ELSE UNCHANGED lost
        /\ watched' = [m \in Nonce |-> IF m <= NextId THEN NoTx ELSE watched[m]]
        /\ UNCHANGED <<history, stage>>
    BY <1>12 DEF Receipt, _removeTx, external
  <2>4. Unfinished(history, n)
    BY <2>3
  <2>5. \A q \in reload : q.nonce = NextId
    BY <2>2, ReloadType
  <2>c. upTo(NextId) \in SUBSET Nonce /\ "no group" \in Cause
    BY <2>2, CauseFacts
  <2> HIDE DEF reload
  <2>6. CASE n <= NextId /\ reload = {}
    <3>1. n \in upTo(NextId)
      BY <2>6 DEF upTo
    <3> QED
      BY <2>3, <2>6, <2>c, <3>1, LossIsNamed
  <2>7. CASE n <= NextId /\ reload # {}
    <3>1. PICK q \in reload : q.nonce = NextId
      BY <2>5, <2>7
    <3>2. q \in reloads' /\ q.nonce >= n
      BY <1>a, <2>2, <2>3, <2>7, <3>1
    <3> QED
      BY <3>2 DEF Looked, LookedFor
  <2>8. CASE ~(n <= NextId)
    <3>1. watched'[n] = watched[n]
      BY <2>3, <2>8
    <3> QED
      BY <1>b, <2>3, <2>4, <2>c, <3>1
  <2> QED
    BY <2>6, <2>7, <2>8
<1>13. CASE Clear
  <2>1. \A t \in Tx : history'[t] # "sent"
    BY <1>13, ClearPendingItems DEF Clear, TypeOK
  <2> QED
    BY <2>1 DEF Unfinished
<1>14. CASE \E m \in Nonce : RemoveLocal({m}, watched)
  <2>1. PICK m \in Nonce : RemoveLocal({m}, watched)
    BY <1>14
  <2>2. Unfinished(history, n)
    BY <2>1, GroupGoes DEF RemoveLocal, TypeOK
  <2> QED
    BY <1>b, <2>1, <2>2 DEF RemoveLocal, external
<1>15. CASE RemoveLocal(Nonce, NobodyWatched)
  <2>1. Unfinished(removePendingGroups(history, Nonce), n)
    BY <1>15 DEF RemoveLocal
  <2>2. Unfinished(history, n) /\ GroupStatus(history, n) \notin Pending
    BY <2>1, GroupGoes DEF TypeOK
  <2> QED
    BY <2>2, UnfinishedIsPending DEF TypeOK
<1>16. CASE Restart
  <2>1. loses(Nonce, "killed") /\ Nonce \in SUBSET Nonce /\ "killed" \in Cause
    BY <1>16, CauseFacts DEF Restart
  <2> QED
    BY <2>1, LossIsNamed
<1>17. CASE UNCHANGED vars
  BY <1>1, <1>17 DEF vars, external
<1> QED
  BY <1>2, <1>3, <1>4, <1>5, <1>6, <1>7, <1>8, <1>9, <1>10, <1>11, <1>12, <1>13,
     <1>14, <1>15, <1>16, <1>17
  DEF Next, World, Controller, Broadcast, Reloading, Polling, Local

-----------------------------------------------------------------------------
\* What is completed stays so until the user removes it.
LEMMA CompletedStays ==
  ASSUME TypeOK, Sound, [Next]_vars, NEW t \in Tx, history[t] = "completed"
  PROVE  history'[t] \in {"completed", "absent"}
<1>1. CASE UNCHANGED history
  BY <1>1
<1>2. CASE \E u \in Tx : Record(u)
  BY <1>2, AddTxItems DEF Record, TypeOK
<1>3. CASE \E p \in Poll : RelayAnswers(p)
  BY <1>3, AnswerFacts, AnsweredItems
<1>4. CASE \E r \in reloads : ReloadCompletes(r)
  <2>1. PICK r \in reloads : ReloadCompletes(r)
    BY <1>4
  <2>2. PICK c \in r.txs \cap mined : history' = completeTx(history, r.nonce, c)
    BY <2>1 DEF ReloadCompletes
  <2>3. r.nonce \in Nonce /\ c \in Tx
    BY <2>1, <2>2 DEF TypeOK
  <2> QED
    BY <2>2, <2>3, CompleteTxItems DEF TypeOK
<1>5. CASE Clear
  BY <1>5, ClearPendingItems DEF Clear, TypeOK
<1>6. CASE \E N \in SUBSET Nonce : RemoveLocal(N, NobodyWatched) \/ RemoveLocal(N, watched)
  <2>1. PICK N \in SUBSET Nonce : history' = removePendingGroups(history, N)
    BY <1>6 DEF RemoveLocal
  <2> QED
    BY <2>1, RemoveGroupItems DEF TypeOK
<1> QED
  BY <1>1, <1>2, <1>3, <1>4, <1>5, <1>6
  DEF Next, vars, World, Mine, RelayDecides, Push, Controller, Watch, Broadcast, AskRelay,
      Reloading, ReloadFails, RetryDue, Polling, StartPoll, CheckStatus, NoReceipt, Receipt,
      Local, Restart, external

LEMMA Initially == Init => Inv
<1>1. ASSUME Init PROVE TypeOK
  <2>1. /\ watched \in [Nonce -> Tx \cup {NoTx}]
        /\ poll \in [ids : SUBSET Nonce, hash : Tx \cup {NoTx}] /\ poll.hash = NoTx
    BY <1>1 DEF Init, NobodyWatched, Idle
  <2>2. /\ history \in [Tx -> Status]
        /\ stage \in [Tx -> {"new", "pushed", "recorded", "done"}]
        /\ relay \in [Relayed -> {"waiting", "sent", "failed", "withdrawn"}]
    BY <1>1 DEF Init, Status
  <2>3. mishaps \in 0 .. MaxMishaps
    BY <1>1, WatchersAssumption DEF Init
  <2> QED
    BY <1>1, <2>1, <2>2, <2>3 DEF Init, TypeOK
<1>2. ASSUME Init PROVE Sound
  BY <1>2, WatchersAssumption DEF Init, Sound
<1>3. ASSUME Init PROVE Asking /\ Followed
  BY <1>3 DEF Init, Asking, Followed, Unfinished
<1> QED
  BY <1>1, <1>2, <1>3 DEF Inv

LEMMA Invariant == Spec => []Inv
<1>1. Inv /\ [Next]_vars => Inv'
  BY TypeStep, SoundStep, AskingStep, FollowedStep DEF Inv
<1> QED
  BY Initially, <1>1, PTL DEF Spec

\* Every reachable state is well typed: no answer of the relay and no reload
\* gives an item, an id or a poll a value that the code does not expect.
THEOREM WatchersTypeCorrect == Spec => []TypeOK
<1>1. Inv => TypeOK
  BY DEF Inv
<1> QED
  BY <1>1, Invariant, PTL

\* Whatever is sent is followed until it is completed, for any transactions:
\* the watcher that forgets an id leaves a reload behind that looks for it.
THEOREM SentIsFollowed == Spec => []Followed
<1>1. Inv => Followed
  BY DEF Inv
<1> QED
  BY <1>1, Invariant, PTL
\* What the history calls completed has a receipt and is never taken back,
\* whatever polls overlap and whenever their answers arrive.
THEOREM CompletedStaysCompleted == Spec => CompletedIsFinal
<1> DEFINE Final == \A t \in Tx :
             /\ history'[t] = "completed" => t \in mined'
             /\ history[t] = "completed" => history'[t] \in {"completed", "absent"}
<1>1. Inv /\ Inv' /\ [Next]_vars => [Final]_vars
  <2>1. SUFFICES ASSUME Inv, Inv', [Next]_vars PROVE Final
    OBVIOUS
  <2>2. \A t \in Tx : history'[t] = "completed" => t \in mined'
    BY <2>1 DEF Inv, Sound
  <2>3. \A t \in Tx : history[t] = "completed" => history'[t] \in {"completed", "absent"}
    BY <2>1, CompletedStays DEF Inv
  <2> QED
    BY <2>2, <2>3
<1> QED
  BY <1>1, Invariant, PTL DEF Spec, CompletedIsFinal
=============================================================================
