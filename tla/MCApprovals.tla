---------------------------- MODULE MCApprovals ----------------------------
(* Small instances of Approvals: which dapp asks for what.                  *)
EXTENDS Approvals, TLC

CONSTANTS r1, r2, r3, r4,  \* requests
          a, b             \* dapps

\* Two signatures and a request that may not queue; dapp a is not connected.
KindMixed == r1 :> "tx" @@ r2 :> "text" @@ r3 :> "chain" @@ r4 :> "read"
OriginMixed == r1 :> a @@ r2 :> a @@ r3 :> b @@ r4 :> a

\* One transaction of a dapp that is connected.
KindTx == r1 :> "tx"
OriginTx == r1 :> b
=============================================================================
