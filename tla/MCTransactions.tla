--------------------------- MODULE MCTransactions ---------------------------
(* Small instances of TransactionWatchers.                                  *)
EXTENDS TransactionWatchers, TLC

CONSTANTS t1, t2, t3,  \* two transactions of one nonce, and one of the next
          p1, p2       \* two polls of the relay

NonceSpeedUp == t1 :> 1 @@ t2 :> 1 @@ t3 :> 2
GasSpeedUp == t1 :> 1 @@ t2 :> 2 @@ t3 :> 1
=============================================================================
