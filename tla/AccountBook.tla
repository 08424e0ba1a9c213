---------------------------- MODULE AccountBook ----------------------------
(***************************************************************************)
(* What the keyring service promises to the rest of the wallet: a durable   *)
(* set of accounts behind one password.  The set changes by one account at  *)
(* a time, a secret account only while the book is open, and a change of    *)
(* password changes nothing else.                                           *)
(***************************************************************************)
CONSTANTS Account,     \* every account that may be kept
          Secret,      \* those that need the password to be kept
          Password, BuiltIn, NoPassword

VARIABLES accounts,    \* the accounts the disk can bring back
          password,    \* the password that opens the book, if it has one
          open         \* whether the book is open

vars == <<accounts, password, open>>

Init ==
  /\ password \in Password \cup {NoPassword}
  /\ accounts \in SUBSET Account
  /\ password = NoPassword => accounts = {}
  /\ open = FALSE

\* A new install has the built-in password and starts open.
Install ==
  /\ password = NoPassword
  /\ password' = BuiltIn /\ open' = TRUE
  /\ UNCHANGED accounts

Open ==
  /\ ~open /\ password # NoPassword
  /\ open' = TRUE
  /\ UNCHANGED <<accounts, password>>

\* The user locks the wallet, or the process ends.
Close ==
  /\ open /\ open' = FALSE
  /\ UNCHANGED <<accounts, password>>

Add(k) ==
  /\ password # NoPassword /\ (k \in Secret => open)
  /\ k \notin accounts /\ accounts' = accounts \cup {k}
  /\ UNCHANGED <<password, open>>

Remove(k) ==
  /\ k \in Secret => open
  /\ k \in accounts /\ accounts' = accounts \ {k}
  /\ UNCHANGED <<password, open>>

ChangePassword(pw) ==
  /\ password # NoPassword /\ password' = pw
  /\ UNCHANGED <<accounts, open>>

Next ==
  \/ Install \/ Open \/ Close
  \/ \E k \in Account : Add(k) \/ Remove(k)
  \/ \E pw \in Password : ChangePassword(pw)

Spec == Init /\ [][Next]_vars
=============================================================================
