-------------------------- MODULE TransactionHistory --------------------------
(***************************************************************************)
(* The local history of the transactions of one address on one chain: the   *)
(* items, the groups of one nonce that a speed-up or a cancellation joins,   *)
(* and the methods that change them, as functions of the history.           *)
(*                                                                         *)
(* history[t] stands for the flags of an item: "queued" has a reqId and no   *)
(* hash yet, "sent" has a hash; both, and "failed" and "withdrawn", still    *)
(* say isPending, which only a completion clears.                           *)
(***************************************************************************)
EXTENDS Naturals, Sequences, FiniteSets

CONSTANTS Tx,       \* the transactions that may be signed
          NonceOf,  \* their nonces, and
          GasOf,    \* the gas prices they offer
          NoTx

HistoryLimit == 500   \* _txHistoryLimit

\* With fewer transactions than the limit, clearAllExpiredTxs keeps them all.
\* Whoever replaces a transaction offers another gas price.
ASSUME HistoryAssumption ==
  /\ IsFiniteSet(Tx) /\ Cardinality(Tx) <= HistoryLimit
  /\ NonceOf \in [Tx -> Nat] /\ GasOf \in [Tx -> Nat]
  /\ \A t, u \in Tx : NonceOf[t] = NonceOf[u] /\ GasOf[t] = GasOf[u] => t = u
  /\ NoTx \notin Tx

VARIABLES history   \* the item of each transaction, "absent" if there is none

Nonce == {NonceOf[t] : t \in Tx}
Status == {"absent", "queued", "sent", "failed", "withdrawn", "completed"}

\* isPending of an item.
Pending == {"queued", "sent", "failed", "withdrawn"}

\* getTransactionGroups
Group(h, n) == {t \in Tx : NonceOf[t] = n /\ h[t] # "absent"}

\* findMaxGasTx: what is still valid before what is withdrawn or has failed.
Rank(s) == CASE s = "failed" -> 2 [] s = "withdrawn" -> 1 [] OTHER -> 0

MaxGas(h, n) ==
  CHOOSE t \in Group(h, n) :
    \A u \in Group(h, n) :
      \/ Rank(h[t]) < Rank(h[u])
      \/ Rank(h[t]) = Rank(h[u]) /\ GasOf[t] >= GasOf[u]

\* A group is what its item with the most gas is.
GroupStatus(h, n) == IF Group(h, n) = {} THEN "absent" ELSE h[MaxGas(h, n)]

-----------------------------------------------------------------------------
(* The methods.                                                            *)

addTx(h, t) == [h EXCEPT ![t] = IF @ = "absent" THEN "sent" ELSE @]

\* Mutant: the answer of the relay overwrites the item whatever it was.
updateTxByTxRequest_Overwrites(h, t, answer) ==
  [h EXCEPT ![t] = IF @ = "absent" THEN @ ELSE answer]

\* The flags of a completed item stay what they are.
updateTxByTxRequest(h, t, answer) ==
  [h EXCEPT ![t] = IF @ \in {"absent", "completed"} THEN @ ELSE answer]

\* clearBefore: what is pending with a smaller nonce can no longer be mined.
clearBefore(h, n) ==
  [t \in Tx |-> IF NonceOf[t] < n /\ h[t] \in Pending THEN "absent" ELSE h[t]]

\* Only the item whose hash has a receipt is completed; the others of its
\* group stay what they are.
completeTx(h, n, c) ==
  clearBefore([h EXCEPT ![c] = IF @ = "absent" THEN @ ELSE "completed"], n)

clearPendingTransactions(h) ==
  [t \in Tx |-> IF h[t] \in Pending THEN "absent" ELSE h[t]]

\* removeLocalPendingTx: whole groups, with what is completed in them.
removePendingGroups(h, N) ==
  [t \in Tx |-> IF NonceOf[t] \in N /\ GroupStatus(h, NonceOf[t]) \in Pending
                THEN "absent" ELSE h[t]]
=============================================================================
