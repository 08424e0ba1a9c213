----------------------------- MODULE DurableCell -----------------------------
(***************************************************************************)
(* What a persistent store promises to the service that owns it: the       *)
(* storage holds a state the service was once in, it only moves forward,   *)
(* and a state that was flushed is never lost.  States are counted by the  *)
(* commits that led to them.                                               *)
(***************************************************************************)
EXTENDS Naturals

VARIABLES mem,       \* the state the service works with
          saved,     \* the state in the storage
          promised   \* the newest state a flush has promised to keep

vars == <<mem, saved, promised>>

Init == mem = 0 /\ saved = 0 /\ promised = 0

Commit ==
  /\ mem' = mem + 1
  /\ UNCHANGED <<saved, promised>>

Save ==
  /\ saved' \in saved .. mem
  /\ promised' \in {promised, saved'}
  /\ UNCHANGED mem

\* The process ends and is launched again: what was not saved is lost.
Restart ==
  /\ mem' = saved
  /\ UNCHANGED <<saved, promised>>

Next == Commit \/ Save \/ Restart

Spec == Init /\ [][Next]_vars
=============================================================================
