-------------------------- MODULE MCKeyringService --------------------------
(* Small instances of KeyringService: who calls what, how often.            *)
EXTENDS KeyringService, TLC

CONSTANTS h1, h2,           \* two sensitive keyrings
          w1, w2,           \* two public ones
          p1, p2,           \* the built-in password and the user's own
          user, auto, conv  \* the user, the auto-lock timer, the convergence

OneInstall == {{h1, w1}}

\* Two public keyrings, so that a failed restore may lose one of them.
TwoPublicInstall == {{h1, w1, w2}}

\* One caller that runs everything but the wipe, one call after another.
OpsSequential ==
  [p \in {user} |-> {"launch", "submit", "lock", "add", "remove", "changePw",
                     "refresh"}]
Seven == [p \in {user} |-> 7]

\* The user who adds and removes, and the convergence that refreshes the list;
\* the session ends by a kill.
OpsFaults ==
  (user :> {"launch", "submit", "add", "remove"}) @@ (conv :> {"refresh"})
StartsFaults == (user :> 5) @@ (conv :> 1)

\* The user against the timer that locks the wallet.
OpsAutoLock ==
  (user :> {"launch", "submit", "add", "remove", "changePw", "wipe"})
    @@ (auto :> {"lock"})
StartsAutoLock == (user :> 4) @@ (auto :> 1)

\* ... and against the convergence that refreshes the list after an unlock,
\* without what the screens see to: the chains have to end for any caller.
OpsConverging ==
  (user :> {"launch", "submit", "add", "remove", "erase"})
    @@ (auto :> {"lock"}) @@ (conv :> {"refresh"})
StartsConverging == (user :> 3) @@ (auto :> 1) @@ (conv :> 1)

\* The user who changes the password while the timer locks the wallet.
OpsLockDuringChange == (user :> {"launch", "submit", "changePw"})
                         @@ (auto :> {"lock"})
=============================================================================
