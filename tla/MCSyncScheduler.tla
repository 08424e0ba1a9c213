---------------------------- MODULE MCSyncScheduler ----------------------------
(***************************************************************************)
(* Two families for the model checker, after the callers of                *)
(* batchSaveWithPQueueAndTransaction: the balances of all addresses (high, *)
(* one batch, noNeedAbort, as flushPendingBalanceSyncs submits them) and   *)
(* the collectibles of one address (low, replaces its elder, two batches   *)
(* with a delay between, stale rows cleaned up afterwards).                *)
(***************************************************************************)
EXTENDS SyncScheduler

CONSTANTS balance, nfts

MCPriority == [k \in Keys |-> IF k = balance THEN 100 ELSE 10]
MCReplaces == [k \in Keys |-> k # balance]
MCBatches == [k \in Keys |-> IF k = nfts THEN 2 ELSE 1]
MCDelays == [k \in Keys |-> k # balance]
MCCleans == [k \in Keys |-> k = nfts]

================================================================================
