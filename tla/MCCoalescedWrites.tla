--------------------------- MODULE MCCoalescedWrites ---------------------------
(* A small instance of CoalescedWrites: tasks of one batch, with the clean-up *)
(* that tokens and app chains do after it.                                    *)
EXTENDS CoalescedWrites
CONSTANTS a1
MCReplaces == [k \in Keys |-> FALSE]
MCBatches == [k \in Keys |-> 1]
MCCleans == [k \in Keys |-> k \in {token, appchain}]
================================================================================
