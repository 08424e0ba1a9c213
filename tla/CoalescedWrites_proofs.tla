------------------------ MODULE CoalescedWrites_proofs ------------------------
(***************************************************************************)
(* Theorems about CoalescedWrites, for any number of owners, requests,      *)
(* aborts and batches.                                                     *)
(*                                                                         *)
(* Requests are numbered as they come.  Flushes of a family hold disjoint   *)
(* runs of them, the buffer holds newer ones.  Flushes that await the same   *)
(* submit in the order of their requests; those that await the loader hold   *)
(* older requests than the others (Ordered).  As long as a flush that does   *)
(* not await the loader may still write, the rows in the database are older  *)
(* than all of its requests (RowsOld).  The scheduler writes the tasks of a  *)
(* key in the order of their submission, so that every such write brings     *)
(* newer rows than there are.  What a flush has written stays until it ends  *)
(* (RowsThere): of a key only the eldest pending task has written anything   *)
(* (QueueOK).  A flush of before an abort has no task that is pending and    *)
(* not stopped (Fresh).                                                    *)
(***************************************************************************)
EXTENDS CoalescedWrites, WellFoundedInduction, TLAPS

\* Every request of R is older than those of S.
Before(R, S) == \A r \in R, s \in S : r < s

Handed(x) == x.at = "handed"

\* The flush x may still bring its rows to the database.
Ahead(x) ==
  ~Handed(x) \/ (promise[x.task] = "pending" /\ written[x.task] < Batches[x.family])

QueueOK ==
  /\ submitted \in 0 .. MaxTasks /\ writing \subseteq Task /\ stopped \subseteq Task
  /\ written \in [Task -> Nat] /\ keyOf \in [Task -> Keys \cup {NoKey}]
  /\ promise \in [Task -> {"pending", "resolved", "rejected"}]
  /\ \A t \in 1 .. submitted :
       /\ keyOf[t] \in Coalesced /\ written[t] <= Batches[keyOf[t]]
       /\ promise[t] = "resolved" => written[t] = Batches[keyOf[t]]
  /\ \A t \in Task : t > submitted => written[t] = 0 /\ promise[t] = "pending"
  /\ \A t \in writing : /\ Pending(t) /\ writing = {t}
                        /\ \A u \in PendingOf(keyOf[t]) : t <= u
  /\ \A t \in 1 .. submitted :
       Pending(t) /\ written[t] > 0 => \A u \in PendingOf(keyOf[t]) : t <= u

FlushOf(x) ==
  /\ x.asks # {}
  /\ \A r \in x.asks : asks[r].family = x.family /\ asks[r].version = x.version
  /\ x.family \in Guarded => x.family \in inFlight
  /\ IF Handed(x) THEN x.task \in 1 .. submitted /\ keyOf[x.task] = x.family
     ELSE x.task = NoTask
  /\ x.at = "preparing" => x.family # appchain
  /\ x.at = "clearing" => x.family = appchain
  /\ Before(x.asks, buffer[x.family])
  /\ x.loads => x.family = balance
  /\ x.family = balance /\ ~ source => x.loads

Fresh(x) ==
  Handed(x) /\ promise[x.task] = "pending" /\ x.task \notin stopped => x.version = version

RowsOld(x) ==
  Ahead(x) /\ ~ x.loads => \A r \in x.asks, a \in Address : rows[<<x.family, a>>] < r

RowsThere(x) ==
  Handed(x) /\ written[x.task] = Batches[x.family] =>
    \A r \in x.asks : r <= rows[<<x.family, asks[r].owner>>]

Fits(x) == FlushOf(x) /\ Fresh(x) /\ RowsOld(x) /\ RowsThere(x)

Ordered(x, y) ==
  x.family = y.family =>
    /\ Before(x.asks, y.asks) \/ Before(y.asks, x.asks)
    /\ x.family \notin Guarded
    /\ x.loads /\ ~ y.loads => Before(x.asks, y.asks)
    /\ x.loads = y.loads =>
         /\ Handed(x) /\ ~Handed(y) => Before(x.asks, y.asks)
         /\ Handed(x) /\ Handed(y) /\ x.task < y.task => Before(x.asks, y.asks)

Apart(x, y) == Ordered(x, y) /\ (Handed(x) /\ Handed(y) => x.task # y.task)

FlushesOK == /\ \A x \in flushes : Fits(x)
             /\ \A x, y \in flushes : x # y => Apart(x, y)

BufferFits ==
  /\ Len(asks) <= MaxTasks
  /\ \A f \in Coalesced : \A r \in buffer[f] :
       /\ asks[r].family = f /\ asks[r].version = version
       /\ \A a \in Address : rows[<<f, a>>] < r
  /\ \A f \in Coalesced, a \in Address : rows[<<f, a>>] <= Len(asks)

Inv == BuffersOK /\ QueueOK /\ FlushesOK /\ BufferFits

-----------------------------------------------------------------------------
\* A set of numbers up to n has a greatest one.

Less == {p \in Nat \X Nat : p[1] < p[2]}

LEMMA LessWellFounded == IsWellFoundedOn(Less, Nat)
<1>1. SUFFICES ASSUME NEW f \in [Nat -> Nat], \A n \in Nat : <<f[n+1], f[n]>> \in Less
               PROVE  FALSE
  BY DEF IsWellFoundedOn
<1>2. \A n \in Nat : f[n+1] < f[n]
  BY <1>1 DEF Less
<1>3. \A n \in Nat : <<f[n+1], f[n]>> \in OpToRel(<, Nat)
  BY <1>2 DEF OpToRel
<1> QED
  BY <1>3, NatLessThanWellFounded DEF IsWellFoundedOn

\* A set of natural numbers has a least element.
LEMMA Least ==
  ASSUME NEW T, T \subseteq Nat, T # {}
  PROVE  \E x \in T : \A y \in T : x <= y
<1>1. PICK x \in T : \A y \in T : ~(<<y, x>> \in Less)
  BY LessWellFounded, WFMin
<1>2. \A y \in T : <<y, x>> \in Nat \X Nat
  OBVIOUS
<1>3. \A y \in T : ~(y < x)
  BY <1>1, <1>2 DEF Less
<1> QED
  BY <1>3

LEMMA MaxFacts ==
  ASSUME NEW n \in Nat, NEW S, S \subseteq 0 .. n, S # {}
  PROVE  Max(S) \in S /\ \A y \in S : y <= Max(S)
<1> DEFINE T == {n - y : y \in S}
<1>1. T \subseteq Nat /\ T # {}
  <2>1. \A y \in S : y \in 0 .. n
    OBVIOUS
  <2>2. \A y \in 0 .. n : n - y \in Nat
    OBVIOUS
  <2> QED
    BY <2>1, <2>2
<1>2. PICK x \in T : \A y \in T : x <= y
  BY <1>1, Least
<1>3. PICK m \in S : x = n - m
  BY <1>2
<1>4. \A y \in S : m >= y
  <2>1. \A y \in S : n - m <= n - y
    BY <1>2, <1>3
  <2>2. \A y \in S : y \in Int
    OBVIOUS
  <2> QED
    BY <2>1, <2>2
<1>5. \E z \in S : \A y \in S : z >= y
  BY <1>4
<1>6. Max(S) \in S /\ \A y \in S : Max(S) >= y
  BY <1>5 DEF Max
<1>7. \A y \in S : y \in Int
  OBVIOUS
<1> QED
  BY <1>6, <1>7

-----------------------------------------------------------------------------
\* The types.

Asked == [family : Coalesced, owner : Address, version : 0 .. MaxAborts]
Heard == {"nothing", "saved", "failed", "dropped"}
Flush(R) == [family : Coalesced, asks : SUBSET R, version : 0 .. MaxAborts,
             task : 0 .. MaxTasks, at : {"preparing", "handed", "clearing"},
             loads : BOOLEAN]

LEMMA TypeFacts ==
  ASSUME BuffersOK
  PROVE  /\ asks \in Seq(Asked) /\ told \in Seq(Heard) /\ Len(told) = Len(asks)
         /\ Len(asks) \in Nat /\ Request = 1 .. Len(asks)
         /\ flushes \subseteq Flush(Request)
BY DEF BuffersOK, Asked, Heard, Flush, Request

LEMMA TellFacts ==
  ASSUME BuffersOK, NEW R, NEW what \in Heard
  PROVE  /\ tell(R, what) \in Seq(Heard) /\ Len(tell(R, what)) = Len(asks)
         /\ \A r \in Request : tell(R, what)[r] = IF r \in R THEN what ELSE told[r]
<1>1. told \in [Request -> Heard] /\ Request = 1 .. Len(asks) /\ Len(asks) \in Nat
  BY TypeFacts
<1>2. tell(R, what) \in [Request -> Heard]
  BY <1>1 DEF tell
<1> QED
  BY <1>1, <1>2 DEF tell

LEMMA LandedFacts ==
  ASSUME BuffersOK, NEW R \in SUBSET Request, Len(asks) <= MaxTasks
  PROVE  /\ landed(R) \in [Coalesced \X Address -> 0 .. MaxTasks]
         /\ \A f \in Coalesced, a \in Address :
              \/ /\ landed(R)[<<f, a>>] = rows[<<f, a>>]
                 /\ \A r \in R : ~(asks[r].family = f /\ asks[r].owner = a)
              \/ /\ landed(R)[<<f, a>>] \in R
                 /\ asks[landed(R)[<<f, a>>]].family = f /\ asks[landed(R)[<<f, a>>]].owner = a
                 /\ \A r \in R : asks[r].family = f /\ asks[r].owner = a =>
                      r <= landed(R)[<<f, a>>]
<1>1. /\ Request = 1 .. Len(asks) /\ Len(asks) \in Nat
      /\ rows \in [Coalesced \X Address -> 0 .. MaxTasks]
  BY TypeFacts DEF BuffersOK
<1>2. MaxTasks \in Nat
  BY CoalescedAssumption
<1>0. \A r \in R : r \in 0 .. MaxTasks
  BY <1>1, <1>2
<1> DEFINE mine(p) == {r \in R : asks[r].family = p[1] /\ asks[r].owner = p[2]}
<1>3. \A p \in Coalesced \X Address :
        mine(p) # {} => Max(mine(p)) \in mine(p) /\ \A r \in mine(p) : r <= Max(mine(p))
  <2>1. \A p : mine(p) \subseteq 0 .. MaxTasks
    BY <1>0
  <2> HIDE DEF mine
  <2> QED
    BY <1>2, <2>1, MaxFacts
<1>4. landed(R) = [p \in Coalesced \X Address |->
                     IF mine(p) = {} THEN rows[p] ELSE Max(mine(p))]
  BY <1>1 DEF landed
<1>5. ASSUME NEW p \in Coalesced \X Address
      PROVE  /\ landed(R)[p] \in 0 .. MaxTasks
             /\ \/ landed(R)[p] = rows[p] /\ mine(p) = {}
                \/ landed(R)[p] \in mine(p) /\ \A r \in mine(p) : r <= landed(R)[p]
  <2>1. CASE mine(p) = {}
    BY <1>1, <1>4, <2>1
  <2>2. CASE mine(p) # {}
    <3>1. landed(R)[p] = Max(mine(p))
      BY <1>4, <2>2
    <3>2. mine(p) \subseteq 0 .. MaxTasks
      BY <1>0
    <3> HIDE DEF mine
    <3> QED
      BY <1>3, <2>2, <3>1, <3>2
  <2> QED
    BY <2>1, <2>2
<1>6. landed(R) \in [Coalesced \X Address -> 0 .. MaxTasks]
  BY <1>4, <1>5
<1>7. ASSUME NEW f \in Coalesced, NEW a \in Address
      PROVE  \/ /\ landed(R)[<<f, a>>] = rows[<<f, a>>]
                /\ \A r \in R : ~(asks[r].family = f /\ asks[r].owner = a)
             \/ /\ landed(R)[<<f, a>>] \in R
                /\ asks[landed(R)[<<f, a>>]].family = f /\ asks[landed(R)[<<f, a>>]].owner = a
                /\ \A r \in R : asks[r].family = f /\ asks[r].owner = a =>
                     r <= landed(R)[<<f, a>>]
  <2>1. <<f, a>> \in Coalesced \X Address /\ <<f, a>>[1] = f /\ <<f, a>>[2] = a
    OBVIOUS
  <2> QED
    BY <1>5, <2>1
<1> QED
  BY <1>6, <1>7

-----------------------------------------------------------------------------
\* The scheduler.

\* What no step of the scheduler undoes.
QueueMoves ==
  /\ submitted <= submitted'
  /\ \A t \in 1 .. submitted : /\ keyOf'[t] = keyOf[t]
                               /\ promise'[t] = "pending" => promise[t] = "pending"
                               /\ t \in stopped => t \in stopped'

LEMMA QueueFacts ==
  ASSUME QueueOK
  PROVE  /\ submitted \in Nat /\ submitted <= MaxTasks /\ MaxTasks \in Nat
         /\ 1 .. submitted \subseteq Task
         /\ \A t : Pending(t) <=> t \in 1 .. submitted /\ promise[t] = "pending"
BY CoalescedAssumption DEF QueueOK, Pending, Task

LEMMA SubmitKeeps ==
  ASSUME QueueOK, NEW f \in Coalesced, Submit(f)
  PROVE  /\ QueueOK' /\ QueueMoves /\ written' = written /\ writing' = writing
         /\ submitted' = submitted + 1 /\ submitted' \in Task
         /\ keyOf'[submitted'] = f /\ written[submitted'] = 0
<1>1. ~ Replaces[f] /\ f \in Keys
  BY CoalescedAssumption
<1>2. /\ submitted < MaxTasks /\ submitted' = submitted + 1
      /\ keyOf' = [keyOf EXCEPT ![submitted'] = f]
      /\ stopped' = stopped /\ promise' = rejecting({})
      /\ writing' = writing /\ written' = written
  BY <1>1 DEF Submit
<1>3. submitted \in Nat /\ submitted' \in Task /\ submitted' > submitted
  BY <1>2, QueueFacts DEF Task
<1>4. promise' = promise
  <2>1. promise \in [Task -> {"pending", "resolved", "rejected"}]
    BY DEF QueueOK
  <2>2. rejecting({}) = [t \in Task |-> promise[t]]
    BY DEF rejecting
  <2> QED
    BY <1>2, <2>1, <2>2
<1>5. keyOf' \in [Task -> Keys \cup {NoKey}] /\ keyOf'[submitted'] = f
      /\ \A t \in 1 .. submitted : keyOf'[t] = keyOf[t]
  BY <1>1, <1>2, <1>3 DEF QueueOK
<1>6. QueueMoves
  BY <1>2, <1>3, <1>4, <1>5 DEF QueueMoves
<1>7. written[submitted'] = 0 /\ promise[submitted'] = "pending"
  BY <1>3 DEF QueueOK
<1>8. \A t \in 1 .. submitted' : t \in 1 .. submitted \/ t = submitted'
  BY <1>2, <1>3
<1>9. /\ keyOf'[submitted'] \in Coalesced /\ 0 <= Batches[f]
      /\ \A t \in Task : t > submitted' => t > submitted
  BY <1>1, <1>2, <1>3, <1>5, CoalescedAssumption DEF Task
<1>10. \A t \in writing : /\ Pending(t)' /\ writing = {t}
                          /\ \A u \in PendingOf(keyOf[t])' : t <= u
  <2> SUFFICES ASSUME NEW t \in writing
               PROVE  /\ Pending(t)' /\ writing = {t}
                      /\ \A u \in Task : Pending(u)' /\ keyOf'[u] = keyOf'[t] => t <= u
    BY <1>2 DEF PendingOf
  <2>1. /\ Pending(t) /\ writing = {t} /\ t \in 1 .. submitted
        /\ \A u \in Task : Pending(u) /\ keyOf[u] = keyOf[t] => t <= u
    BY DEF QueueOK, PendingOf, Pending
  <2>2. Pending(t)'
    BY <1>2, <1>3, <1>4, <2>1 DEF Pending
  <2>3. ASSUME NEW u \in Task, Pending(u)', keyOf'[u] = keyOf'[t] PROVE t <= u
    <3>1. CASE u = submitted'
      BY <1>2, <1>3, <2>1, <3>1
    <3>2. CASE u \in 1 .. submitted
      BY <1>4, <1>5, <2>1, <2>3, <3>2 DEF Pending
    <3> QED
      BY <1>8, <2>3, <3>1, <3>2 DEF Pending
  <2> QED
    BY <2>1, <2>2, <2>3
<1>11. \A t \in 1 .. submitted' :
         /\ keyOf'[t] \in Coalesced /\ written[t] <= Batches[keyOf'[t]]
         /\ promise[t] = "resolved" => written[t] = Batches[keyOf'[t]]
  BY <1>5, <1>7, <1>8, <1>9 DEF QueueOK
<1>12. \A t \in Task : t > submitted' => written[t] = 0 /\ promise[t] = "pending"
  BY <1>9 DEF QueueOK
<1>14. submitted' \in 0 .. MaxTasks
  BY <1>3, QueueFacts DEF Task
<1>15. ASSUME NEW t \in 1 .. submitted', Pending(t)', written[t] > 0,
              NEW u \in Task, Pending(u)', keyOf'[u] = keyOf'[t]
       PROVE  t <= u
  <2>1. t \in 1 .. submitted /\ Pending(t)
    BY <1>2, <1>3, <1>4, <1>7, <1>8, <1>15 DEF Pending
  <2>2. CASE u = submitted'
    BY <1>2, <1>3, <2>1, <2>2
  <2>3. CASE u \in 1 .. submitted
    <3>1. Pending(u) /\ keyOf[u] = keyOf[t]
      BY <1>4, <1>5, <1>15, <2>1, <2>3 DEF Pending
    <3> QED
      BY <1>15, <2>1, <3>1 DEF QueueOK, PendingOf
  <2> QED
    BY <1>8, <1>15, <2>2, <2>3 DEF Pending
<1>16. \A t \in 1 .. submitted' :
         Pending(t)' /\ written[t] > 0 => \A u \in PendingOf(keyOf[t])' : t <= u
  BY <1>15 DEF PendingOf
<1>17. QueueOK'
  BY <1>2, <1>4, <1>5, <1>10, <1>11, <1>12, <1>14, <1>16 DEF QueueOK
<1> QED
  BY <1>2, <1>3, <1>5, <1>6, <1>7, <1>17

\* What leaves the number of tasks alone and resolves only what is written.
LEMMA QueueOKStep ==
  ASSUME QueueOK, submitted' = submitted, keyOf' = keyOf,
         writing' \subseteq Task, stopped' \subseteq Task, stopped \subseteq stopped',
         written' \in [Task -> Nat], promise' \in [Task -> {"pending", "resolved", "rejected"}],
         \A t \in Task :
           /\ promise'[t] # promise[t] => Pending(t) /\ t \notin writing'
           /\ promise'[t] = "resolved" => promise[t] = "resolved"
                                          \/ written[t] = Batches[keyOf[t]]
           /\ \/ written'[t] = written[t]
              \/ /\ Pending(t) /\ promise'[t] = promise[t] /\ written'[t] <= Batches[keyOf[t]]
                 /\ \A u \in PendingOf(keyOf[t]) : t <= u,
         \A t \in writing' : t \in writing \/
           (Pending(t) /\ writing' = {t} /\ \A u \in PendingOf(keyOf[t]) : t <= u),
         \A t \in writing : writing' \subseteq {t} \/ writing = {}
  PROVE  QueueOK' /\ QueueMoves
<1>0. submitted \in Nat /\ 1 .. submitted \subseteq Task
  BY QueueFacts
<1>1. QueueMoves
  <2>1. \A t \in 1 .. submitted : promise'[t] = "pending" => promise[t] = "pending"
    BY <1>0 DEF Pending
  <2> QED
    BY <1>0, <2>1 DEF QueueMoves
<1>2. \A u : Pending(u)' => Pending(u)
  BY <1>1 DEF QueueMoves, Pending
<1>3. \A t : \A u \in PendingOf(keyOf[t])' : u \in PendingOf(keyOf[t])
  BY <1>2 DEF PendingOf
<1>4. ASSUME NEW t \in writing'
      PROVE  /\ Pending(t)' /\ writing' = {t} /\ \A u \in PendingOf(keyOf[t])' : t <= u
  <2>1. Pending(t) /\ writing' = {t} /\ \A u \in PendingOf(keyOf[t]) : t <= u
    BY <1>4 DEF QueueOK
  <2>2. Pending(t)'
    BY <1>4, <2>1 DEF Pending
  <2> QED
    BY <1>3, <2>1, <2>2
<1>5. \A t \in 1 .. submitted :
         /\ keyOf[t] \in Coalesced /\ written'[t] <= Batches[keyOf[t]]
         /\ promise'[t] = "resolved" => written'[t] = Batches[keyOf[t]]
  <2> SUFFICES ASSUME NEW t \in 1 .. submitted
               PROVE  /\ keyOf[t] \in Coalesced /\ written'[t] <= Batches[keyOf[t]]
                      /\ promise'[t] = "resolved" => written'[t] = Batches[keyOf[t]]
    OBVIOUS
  <2>1. /\ t \in Task /\ keyOf[t] \in Coalesced /\ written[t] <= Batches[keyOf[t]]
        /\ promise[t] = "resolved" => written[t] = Batches[keyOf[t]]
    BY <1>0 DEF QueueOK
  <2>2. CASE written'[t] = written[t]
    BY <2>1, <2>2
  <2>3. CASE Pending(t) /\ promise'[t] = promise[t] /\ written'[t] <= Batches[keyOf[t]]
    BY <2>1, <2>3 DEF Pending
  <2> QED
    BY <2>1, <2>2, <2>3
<1>6. \A t \in Task : t > submitted => written'[t] = 0 /\ promise'[t] = "pending"
  <2>1. \A t \in Task : t > submitted => ~ Pending(t)
    BY <1>0 DEF Pending
  <2> QED
    BY <2>1 DEF QueueOK
<1>7. ASSUME NEW t \in 1 .. submitted, Pending(t)', written'[t] > 0
      PROVE  \A u \in PendingOf(keyOf[t])' : t <= u
  <2>1. Pending(t) /\ t \in Task
    BY <1>0, <1>2, <1>7
  <2>2. \A u \in PendingOf(keyOf[t]) : t <= u
    BY <1>7, <2>1 DEF QueueOK
  <2> QED
    BY <1>3, <2>2
<1>8. QueueOK'
  BY <1>4, <1>5, <1>6, <1>7 DEF QueueOK
<1> QED
  BY <1>1, <1>8

LEMMA AbortKeeps ==
  ASSUME QueueOK, NEW S \in SUBSET Task, Abort(S)
  PROVE  QueueOK' /\ QueueMoves /\ written' = written /\ S \subseteq stopped'
                  /\ submitted' = submitted
<1>1. PICK R \in SUBSET {t \in S \ writing : Pending(t)} : promise' = rejecting(R)
  BY DEF Abort
<1>2. /\ submitted' = submitted /\ keyOf' = keyOf /\ writing' = writing /\ written' = written
      /\ stopped' = stopped \cup S
  BY DEF Abort
<1>3. /\ promise' \in [Task -> {"pending", "resolved", "rejected"}]
      /\ \A t \in Task : promise'[t] = IF t \in R THEN "rejected" ELSE promise[t]
  BY <1>1 DEF rejecting, QueueOK
<1>4. \A t \in R : Pending(t) /\ t \notin writing
  BY <1>1
<1>5. \A t \in writing : writing = {t}
  BY DEF QueueOK
<1>6. /\ writing' \subseteq Task /\ stopped' \subseteq Task /\ written' \in [Task -> Nat]
  BY <1>2 DEF QueueOK
<1>7. \A t \in Task :
        /\ promise'[t] # promise[t] => Pending(t) /\ t \notin writing'
        /\ promise'[t] = "resolved" => promise[t] = "resolved"
  BY <1>2, <1>3, <1>4
<1>8. QueueOK' /\ QueueMoves
  BY <1>2, <1>3, <1>5, <1>6, <1>7, QueueOKStep
<1> QED
  BY <1>2, <1>8

LEMMA BeginKeeps ==
  ASSUME QueueOK, NEW t \in Task, Begin(t)
  PROVE  QueueOK' /\ QueueMoves /\ written' = written /\ submitted' = submitted
<1>1. /\ writing = {} /\ Pending(t) /\ writing' = {t}
      /\ \A u \in PendingOf(keyOf[t]) : t <= u
      /\ UNCHANGED <<submitted, keyOf, written, stopped, broken, promise>>
  BY DEF Begin
<1>2. /\ writing' \subseteq Task /\ stopped' \subseteq Task /\ written' \in [Task -> Nat]
      /\ promise' \in [Task -> {"pending", "resolved", "rejected"}]
  BY <1>1 DEF QueueOK
<1>3. QueueOK' /\ QueueMoves
  BY <1>1, <1>2, QueueOKStep
<1> QED
  BY <1>1, <1>3

LEMMA LandKeeps ==
  ASSUME QueueOK, NEW t \in Task, Land(t)
  PROVE  /\ QueueOK' /\ QueueMoves /\ submitted' = submitted /\ promise' = promise
         /\ Pending(t) /\ \A u \in PendingOf(keyOf[t]) : t <= u
         /\ \A u \in Task \ {t} : written'[u] = written[u]
         /\ keyOf[t] \in Coalesced /\ written'[t] <= Batches[keyOf[t]]
         /\ written[t] <= written'[t] /\ keyOf' = keyOf /\ stopped' = stopped
<1>1. /\ t \in writing /\ writing' = writing \ {t}
      /\ written' = [written EXCEPT ![t] = IF written[t] < Batches[keyOf[t]]
                                           THEN written[t] + 1 ELSE written[t]]
      /\ UNCHANGED <<submitted, keyOf, stopped, broken, promise>>
  BY DEF Land
<1>2. /\ Pending(t) /\ writing = {t} /\ \A u \in PendingOf(keyOf[t]) : t <= u
  BY <1>1 DEF QueueOK
<1>3. /\ keyOf[t] \in Coalesced /\ written[t] \in Nat /\ written[t] <= Batches[keyOf[t]]
      /\ Batches[keyOf[t]] \in Nat
  BY <1>2, CoalescedAssumption DEF QueueOK, Pending
<1>4. /\ written' \in [Task -> Nat] /\ \A u \in Task \ {t} : written'[u] = written[u]
      /\ written'[t] <= Batches[keyOf[t]] /\ written[t] <= written'[t]
  BY <1>1, <1>3 DEF QueueOK
<1>5. /\ writing' \subseteq Task /\ stopped' \subseteq Task
      /\ promise' \in [Task -> {"pending", "resolved", "rejected"}]
  BY <1>1 DEF QueueOK
<1>6. QueueOK' /\ QueueMoves
  BY <1>1, <1>2, <1>4, <1>5, QueueOKStep
<1> QED
  BY <1>1, <1>2, <1>3, <1>4, <1>6

LEMMA BreakKeeps ==
  ASSUME QueueOK, NEW t \in Task, Break(t)
  PROVE  QueueOK' /\ QueueMoves /\ written' = written /\ submitted' = submitted
<1>1. /\ t \in writing /\ writing' = writing \ {t}
      /\ UNCHANGED <<submitted, keyOf, written, stopped, promise>>
  BY DEF Break
<1>2. /\ writing' \subseteq Task /\ stopped' \subseteq Task /\ written' \in [Task -> Nat]
      /\ promise' \in [Task -> {"pending", "resolved", "rejected"}] /\ writing = {t}
  BY <1>1 DEF QueueOK
<1>3. QueueOK' /\ QueueMoves
  BY <1>1, <1>2, QueueOKStep
<1> QED
  BY <1>1, <1>3

LEMMA SettlesKeeps ==
  ASSUME QueueOK, NEW t \in Task, Settles(t)
  PROVE  QueueOK' /\ QueueMoves /\ written' = written /\ submitted' = submitted
<1>1. /\ Pending(t) /\ t \notin writing
      /\ UNCHANGED <<submitted, keyOf, writing, written, stopped>>
      /\ \/ promise' = [promise EXCEPT ![t] = "resolved"] /\ written[t] = Batches[keyOf[t]]
         \/ promise' = rejecting({t})
  BY DEF Settles, Resolve, Reject
<1>2. /\ writing' \subseteq Task /\ stopped' \subseteq Task /\ written' \in [Task -> Nat]
      /\ \A u \in writing : writing = {u}
  BY <1>1 DEF QueueOK
<1>3. /\ promise' \in [Task -> {"pending", "resolved", "rejected"}]
      /\ \A u \in Task \ {t} : promise'[u] = promise[u]
      /\ promise'[t] = "resolved" => written[t] = Batches[keyOf[t]]
  BY <1>1 DEF QueueOK, rejecting
<1>4. QueueOK' /\ QueueMoves
  BY <1>1, <1>2, <1>3, QueueOKStep
<1> QED
  BY <1>1, <1>4

-----------------------------------------------------------------------------
\* The flushes.

\* No request is taken back.
Extends == \A r \in Request : r \in Request' /\ asks'[r] = asks[r]

LEMMA FlushFacts ==
  ASSUME Inv, NEW x \in flushes
  PROVE  /\ x.family \in Coalesced /\ x.asks \subseteq Request /\ x.asks # {}
         /\ x.version \in 0 .. MaxAborts /\ x.at \in {"preparing", "handed", "clearing"}
         /\ \A r \in x.asks : r \in Nat /\ asks[r].owner \in Address
                              /\ asks[r].family = x.family /\ asks[r].version = x.version
         /\ Handed(x) => x.task \in 1 .. submitted /\ x.task \in Task
                         /\ keyOf[x.task] = x.family
         /\ ~ Handed(x) => x.task = NoTask
         /\ x.loads \in BOOLEAN
<1>1. x \in Flush(Request) /\ Request = 1 .. Len(asks) /\ asks \in Seq(Asked)
  BY TypeFacts DEF Inv
<1>2. x.family \in Coalesced /\ x.asks \subseteq Request /\ x.version \in 0 .. MaxAborts
      /\ x.at \in {"preparing", "handed", "clearing"} /\ x.loads \in BOOLEAN
  BY <1>1 DEF Flush
<1>3. FlushOf(x)
  BY DEF Inv, FlushesOK, Fits
<1>4. \A r \in x.asks : r \in Nat /\ asks[r].owner \in Address
  <2>1. \A r \in Request : r \in Nat /\ asks[r] \in Asked
    BY <1>1
  <2> QED
    BY <1>2, <2>1 DEF Asked
<1>5. Handed(x) => x.task \in 1 .. submitted /\ x.task \in Task /\ keyOf[x.task] = x.family
  BY <1>3, QueueFacts DEF Inv, FlushOf
<1> QED
  BY <1>2, <1>3, <1>4, <1>5 DEF FlushOf

LEMMA FitsStays ==
  ASSUME Inv, NEW x \in flushes, Extends, QueueMoves, QueueOK', written' = written,
         x.family \in Guarded => x.family \in inFlight',
         Before(x.asks, buffer'[x.family]),
         \/ version' = version
         \/ \A t \in 1 .. submitted : promise[t] = "pending" => t \in stopped',
         rows' = rows, source => source'
  PROVE  Fits(x)'
<1>0. /\ x.asks \subseteq Request /\ x.family \in Coalesced
      /\ Handed(x) => x.task \in 1 .. submitted /\ keyOf[x.task] = x.family
      /\ ~ Handed(x) => x.task = NoTask
  BY FlushFacts
<1>1. FlushOf(x) /\ Fresh(x) /\ RowsOld(x) /\ RowsThere(x)
  BY DEF Inv, FlushesOK, Fits
<1>2. \A r \in x.asks : asks'[r] = asks[r]
  BY <1>0 DEF Extends
<1>3. Handed(x) => /\ x.task \in 1 .. submitted' /\ keyOf'[x.task] = x.family
                   /\ promise'[x.task] = "pending" => promise[x.task] = "pending"
                   /\ x.task \in stopped => x.task \in stopped'
  <2>1. submitted \in Nat /\ submitted' \in Nat /\ submitted <= submitted'
    BY QueueFacts DEF Inv, QueueMoves, QueueOK
  <2> QED
    BY <1>0, <2>1 DEF QueueMoves
<1>4. FlushOf(x)'
  BY <1>1, <1>2, <1>3 DEF FlushOf, Handed
<1>5. Fresh(x)'
  BY <1>0, <1>1, <1>3 DEF Fresh, Handed
<1>6. RowsOld(x)'
  <2>1. Ahead(x)' => Ahead(x)
    BY <1>3 DEF Ahead, Handed
  <2> QED
    BY <1>1, <2>1 DEF RowsOld
<1>7. RowsThere(x)'
  BY <1>1, <1>2 DEF RowsThere, Handed
<1> QED
  BY <1>4, <1>5, <1>6, <1>7 DEF Fits

LEMMA FlushesStay ==
  ASSUME Inv, flushes' \subseteq flushes, Extends, QueueMoves, QueueOK', written' = written,
         \A x \in flushes' : x.family \in Guarded => x.family \in inFlight',
         \A x \in flushes' : Before(x.asks, buffer'[x.family]),
         \/ version' = version
         \/ \A t \in 1 .. submitted : promise[t] = "pending" => t \in stopped',
         rows' = rows, source => source'
  PROVE  FlushesOK'
<1>1. \A x \in flushes' : Fits(x)'
  BY FitsStays
<1>2. \A x, y \in flushes' : x # y => Apart(x, y)
  BY DEF Inv, FlushesOK
<1> QED
  BY <1>1, <1>2 DEF FlushesOK, Apart, Ordered, Before, Handed

\* The flush n is started, or takes the place of the flush that awaited the
\* data source.
LEMMA FlushesGrow ==
  ASSUME Inv, NEW n, Fits(n)', flushes' \subseteq flushes \cup {n},
         \A y \in flushes' : y # n => Apart(n, y) /\ Apart(y, n),
         Extends, QueueMoves, QueueOK', written' = written,
         inFlight \subseteq inFlight', \A f \in Coalesced : buffer'[f] \subseteq buffer[f],
         version' = version, rows' = rows, source' = source
  PROVE  FlushesOK'
<1>1. ASSUME NEW x \in flushes', x # n PROVE Fits(x)'
  <2>1. x \in flushes /\ FlushOf(x) /\ x.family \in Coalesced
    BY <1>1, FlushFacts DEF Inv, FlushesOK, Fits
  <2>2. Before(x.asks, buffer'[x.family]) /\ (x.family \in Guarded => x.family \in inFlight')
    BY <2>1 DEF FlushOf, Before
  <2> QED
    BY <2>1, <2>2, FitsStays
<1>2. ASSUME NEW x \in flushes', NEW y \in flushes', x # y PROVE Apart(x, y)
  BY <1>2 DEF Inv, FlushesOK
<1> QED
  BY <1>1, <1>2 DEF FlushesOK, Apart, Ordered, Before, Handed

\* Nothing happens to the buffers, or they are emptied.
LEMMA BufferStays ==
  ASSUME Inv, asks' = asks, rows' = rows,
         \A f \in Coalesced : buffer'[f] = {} \/ (buffer'[f] = buffer[f] /\ version' = version)
  PROVE  BufferFits'
BY DEF Inv, BufferFits

\* A flush ends without having brought rows.
LEMMA EndsKeeps ==
  ASSUME Inv, NEW x \in flushes, NEW what \in Heard, ends(x, what),
         UNCHANGED <<queueVars, version, source, asks, buffer, timers, inFlight, rows>>
  PROVE  Inv'
<1>1. UNCHANGED <<submitted, keyOf, writing, written, stopped, promise>>
  BY DEF queueVars
<1>2. flushes' \subseteq flushes /\ told' = tell(x.asks, what)
  BY DEF ends
<1>3. QueueOK' /\ QueueMoves /\ Extends
  BY <1>1, QueueFacts DEF Inv, QueueOK, QueueMoves, Extends, Pending, PendingOf, Request
<1>4. FlushesOK'
  <2>1. \A y \in flushes : FlushOf(y)
    BY DEF Inv, FlushesOK, Fits
  <2> QED
    BY <1>1, <1>2, <1>3, <2>1, FlushesStay DEF FlushOf
<1>5. BufferFits'
  BY BufferStays
<1>6. BuffersOK'
  <2>1. told' \in Seq(Heard) /\ Len(told') = Len(asks)
    BY <1>2, TellFacts DEF Inv
  <2> QED
    BY <1>2, <2>1 DEF Inv, BuffersOK, Heard, Request
<1> QED
  BY <1>3, <1>4, <1>5, <1>6 DEF Inv

LEMMA AskKeeps ==
  ASSUME Inv, NEW f \in Coalesced, NEW a \in Address, Ask(f, a)
  PROVE  Inv'
<1> DEFINE n == Len(asks)
           ask == [family |-> f, owner |-> a, version |-> version]
<1>1. /\ n < MaxTasks /\ asks' = Append(asks, ask) /\ told' = Append(told, "nothing")
      /\ buffer' = [buffer EXCEPT ![f] = @ \cup {n + 1}]
      /\ timers' \in {timers, timers \cup {f}}
      /\ f \notin inFlight => timers' = timers \cup {f}
      /\ UNCHANGED <<queueVars, version, source, inFlight, flushes, rows>>
  BY DEF Ask
<1>2. UNCHANGED <<submitted, keyOf, writing, written, stopped, promise>>
  BY <1>1 DEF queueVars
<1>3. /\ asks \in Seq(Asked) /\ told \in Seq(Heard) /\ Len(told) = n
      /\ n \in Nat /\ Request = 1 .. n /\ flushes \subseteq Flush(Request)
      /\ version \in 0 .. MaxAborts /\ buffer \in [Coalesced -> SUBSET Request]
      /\ rows \in [Coalesced \X Address -> 0 .. MaxTasks]
  BY TypeFacts DEF Inv, BuffersOK
<1>4. ask \in Asked /\ ask.family = f /\ ask.version = version
  BY <1>3 DEF Asked
<1> HIDE DEF ask
<1>5. /\ asks' \in Seq(Asked) /\ Len(asks') = n + 1 /\ Request' = 1 .. n + 1
      /\ asks'[n + 1] = ask /\ \A r \in Request : asks'[r] = asks[r]
      /\ told' \in Seq(Heard) /\ Len(told') = n + 1
  BY <1>1, <1>3, <1>4 DEF Request, Heard
<1>6. Extends /\ Request \subseteq Request'
  BY <1>3, <1>5 DEF Extends
<1>7. QueueOK' /\ QueueMoves
  BY <1>2, QueueFacts DEF Inv, QueueOK, QueueMoves, Pending, PendingOf
<1>8. FlushesOK'
  <2>1. ASSUME NEW y \in flushes
        PROVE  /\ y.family \in Guarded => y.family \in inFlight'
               /\ Before(y.asks, buffer'[y.family])
    <3>1. FlushOf(y) /\ y.family \in Coalesced /\ y.asks \subseteq 1 .. n
      BY <1>3, FlushFacts DEF Inv, FlushesOK, Fits
    <3>2. buffer'[y.family] \subseteq buffer[y.family] \cup {n + 1}
      BY <1>1, <1>3, <3>1
    <3>3. \A r \in y.asks : r < n + 1
      BY <1>3, <3>1
    <3> QED
      BY <1>1, <3>1, <3>2, <3>3 DEF FlushOf, Before
  <2> QED
    BY <1>1, <1>2, <1>6, <1>7, <2>1, FlushesStay
<1>9. BufferFits'
  <2>1. BufferFits /\ MaxTasks \in Nat
    BY CoalescedAssumption DEF Inv
  <2>2. Len(asks') <= MaxTasks
    BY <1>1, <1>3, <1>5, <2>1
  <2>3. ASSUME NEW g \in Coalesced, NEW r \in buffer'[g]
        PROVE  /\ asks'[r].family = g /\ asks'[r].version = version
               /\ \A b \in Address : rows[<<g, b>>] < r
    <3>1. CASE r \in buffer[g]
      <4>1. r \in Request
        BY <1>3, <3>1
      <4> QED
        BY <1>5, <2>1, <3>1, <4>1 DEF BufferFits
    <3>2. CASE r \notin buffer[g]
      <4>1. g = f /\ r = n + 1
        BY <1>1, <1>3, <2>3, <3>2
      <4>2. \A b \in Address : rows[<<g, b>>] <= n /\ rows[<<g, b>>] \in Nat
        BY <1>3, <2>1 DEF BufferFits
      <4> QED
        BY <1>3, <1>4, <1>5, <4>1, <4>2
    <3> QED
      BY <3>1, <3>2
  <2>4. \A g \in Coalesced, b \in Address : rows[<<g, b>>] <= n + 1
    <3> SUFFICES ASSUME NEW g \in Coalesced, NEW b \in Address
                 PROVE  rows[<<g, b>>] <= n + 1
      OBVIOUS
    <3>1. rows[<<g, b>>] <= n
      BY <2>1 DEF BufferFits
    <3>2. rows[<<g, b>>] \in 0 .. MaxTasks
      BY <1>3
    <3> QED
      BY <1>3, <3>1, <3>2
  <2> QED
    BY <1>1, <1>5, <2>2, <2>3, <2>4 DEF BufferFits
<1>10. BuffersOK'
  <2>1. flushes' \subseteq Flush(Request')
    BY <1>1, <1>3, <1>6 DEF Flush
  <2>2. buffer' \in [Coalesced -> SUBSET Request']
    BY <1>1, <1>3, <1>5
  <2>3. timers' \subseteq Coalesced /\ inFlight \subseteq Guarded
    BY <1>1 DEF Inv, BuffersOK
  <2>4. \A g \in Coalesced : buffer'[g] # {} => g \in timers' \cup inFlight
    <3> SUFFICES ASSUME NEW g \in Coalesced, buffer'[g] # {}
                 PROVE  g \in timers' \cup inFlight
      OBVIOUS
    <3>1. CASE g = f
      BY <1>1, <3>1
    <3>2. CASE g # f
      BY <1>1, <1>3, <3>2 DEF Inv, BuffersOK
    <3> QED
      BY <3>1, <3>2
  <2>5. source' \in BOOLEAN
    BY <1>1 DEF Inv, BuffersOK
  <2> QED
    BY <1>1, <1>3, <1>5, <2>1, <2>2, <2>3, <2>4, <2>5 DEF BuffersOK, Asked, Heard, Flush
<1> QED
  BY <1>7, <1>8, <1>9, <1>10 DEF Inv

\* What the scheduler does by itself, as long as no batch lands.
LEMMA QueueKeeps ==
  ASSUME Inv, UNCHANGED bufferVars, QueueOK', QueueMoves, written' = written
  PROVE  Inv'
<1>1. UNCHANGED <<version, source, asks, told, buffer, timers, inFlight, flushes, rows>>
  BY DEF bufferVars
<1>2. Extends
  BY <1>1 DEF Extends, Request
<1>3. \A y \in flushes : FlushOf(y)
  BY DEF Inv, FlushesOK, Fits
<1>4. FlushesOK'
  BY <1>1, <1>2, <1>3, FlushesStay DEF FlushOf
<1>5. BufferFits'
  BY <1>1, BufferStays
<1>6. BuffersOK'
  BY <1>1 DEF Inv, BuffersOK, Request
<1> QED
  BY <1>4, <1>5, <1>6 DEF Inv

\* A flush takes what is in its buffer.
LEMMA StartKeeps ==
  ASSUME Inv, NEW f \in Coalesced, buffer[f] # {}, f \notin inFlight,
         NEW at, NEW task, QueueOK', QueueMoves, written' = written,
         timers' = timers \ {f}, buffer' = [buffer EXCEPT ![f] = {}],
         inFlight' = inFlight \cup guards(f), flushes' = flushes \cup {flush(f, at, task)},
         UNCHANGED <<version, source, asks, told, rows>>,
         \/ at = "preparing" /\ f # appchain /\ task = NoTask
         \/ at = "clearing" /\ f = appchain /\ task = NoTask
         \/ /\ at = "handed" /\ f = appchain /\ task = submitted + 1 /\ task \in Task
            /\ submitted' = submitted + 1 /\ keyOf'[task] = f /\ written[task] = 0
  PROVE  Inv'
<1>0. PICK n : n = flush(f, at, task)
  OBVIOUS
<1>1. /\ n.family = f /\ n.asks = buffer[f] /\ n.version = version /\ n.at = at
      /\ n.task = task /\ n.loads = (f = balance /\ ~ source)
  BY <1>0 DEF flush
<1>2. /\ buffer \in [Coalesced -> SUBSET Request] /\ version \in 0 .. MaxAborts
      /\ flushes \subseteq Flush(Request) /\ submitted \in Nat /\ submitted <= MaxTasks
  BY TypeFacts, QueueFacts DEF Inv, BuffersOK
<1>3. n \in Flush(Request)
  <2>1. task \in 0 .. MaxTasks /\ at \in {"preparing", "handed", "clearing"}
    BY QueueFacts DEF Inv, NoTask, Task
  <2> QED
    BY <1>0, <1>2, <2>1 DEF Flush, flush
<1>4. /\ buffer'[f] = {} /\ \A g \in Coalesced \ {f} : buffer'[g] = buffer[g]
      /\ f \in Guarded => f \in inFlight'
  BY <1>2 DEF guards
<1>5. BufferFits /\ Extends
  BY DEF Inv, Extends, Request
<1>6. Fits(n)'
  <2>1. FlushOf(n)'
    <3>1. IF Handed(n) THEN task \in 1 .. submitted' /\ keyOf'[task] = f ELSE task = NoTask
      BY <1>1, <1>2 DEF Handed, Task
    <3> QED
      BY <1>1, <1>4, <1>5, <3>1 DEF FlushOf, Handed, BufferFits, Before
  <2>2. Fresh(n)'
    BY <1>1 DEF Fresh
  <2>3. RowsOld(n)'
    BY <1>1, <1>5 DEF RowsOld, BufferFits
  <2>4. RowsThere(n)'
    <3>1. Batches[f] > 0 /\ Batches[f] \in Nat
      BY CoalescedAssumption
    <3> QED
      BY <1>1, <3>1 DEF RowsThere, Handed
  <2> QED
    BY <2>1, <2>2, <2>3, <2>4 DEF Fits
<1>7. ASSUME NEW y \in flushes' , y # n
      PROVE  Apart(n, y) /\ Apart(y, n)
  <2>1. y \in flushes /\ FlushOf(y)
    BY <1>0, <1>7 DEF Inv, FlushesOK, Fits
  <2>2. y.family = f => f \notin Guarded /\ f # appchain /\ Before(y.asks, buffer[f])
    BY <2>1 DEF FlushOf, Guarded
  <2>3. Handed(n) => f = appchain /\ (Handed(y) => y.task # task)
    BY <1>1, <1>2, <2>1 DEF Handed, FlushOf
  <2> QED
    BY <1>1, <2>1, <2>2, <2>3 DEF Apart, Ordered, FlushOf
<1>8. FlushesOK'
  <2>1. inFlight \subseteq inFlight' /\ \A g \in Coalesced : buffer'[g] \subseteq buffer[g]
    BY <1>4
  <2>2. flushes' \subseteq flushes \cup {n}
    BY <1>0
  <2> QED
    BY <1>5, <1>6, <1>7, <2>1, <2>2, FlushesGrow
<1>9. BufferFits'
  <2>1. \A g \in Coalesced : buffer'[g] = {} \/ buffer'[g] = buffer[g]
    BY <1>4
  <2> QED
    BY <2>1, BufferStays
<1>10. BuffersOK'
  <2>1. flushes' \subseteq Flush(Request)
    BY <1>0, <1>2, <1>3
  <2>2. buffer' \in [Coalesced -> SUBSET Request]
    BY <1>2
  <2>3. \A g \in Coalesced : buffer'[g] # {} => g \in timers' \cup inFlight'
    BY <1>4 DEF Inv, BuffersOK
  <2>4. inFlight' \subseteq Guarded /\ timers' \subseteq Coalesced
    BY DEF Inv, BuffersOK, guards
  <2> QED
    BY <2>1, <2>2, <2>3, <2>4 DEF Inv, BuffersOK, Flush, Request
<1> QED
  BY <1>8, <1>9, <1>10 DEF Inv

LEMMA QueueStill ==
  ASSUME Inv, UNCHANGED queueVars
  PROVE  QueueOK' /\ QueueMoves /\ written' = written
<1>1. UNCHANGED <<submitted, keyOf, writing, written, stopped, promise>>
  BY DEF queueVars
<1> QED
  BY <1>1, QueueFacts DEF Inv, QueueOK, QueueMoves, Pending, PendingOf

\* A timer that fires for nothing, and the end of a guarded flush.
LEMMA TimersKeep ==
  ASSUME Inv, UNCHANGED <<queueVars, version, source, asks, told, buffer, flushes, rows>>,
         timers' \subseteq Coalesced, inFlight' \subseteq Guarded,
         \A x \in flushes : x.family \in Guarded => x.family \in inFlight',
         \A f \in Coalesced : buffer[f] # {} => f \in timers' \cup inFlight'
  PROVE  Inv'
<1>1. QueueOK' /\ QueueMoves /\ written' = written /\ Extends
  BY QueueStill DEF Extends, Request
<1>2. \A y \in flushes : FlushOf(y)
  BY DEF Inv, FlushesOK, Fits
<1>3. FlushesOK'
  BY <1>1, <1>2, FlushesStay DEF FlushOf
<1>4. BufferFits'
  BY BufferStays
<1>5. BuffersOK'
  BY DEF Inv, BuffersOK, Request
<1> QED
  BY <1>1, <1>3, <1>4, <1>5 DEF Inv

LEMMA TimerFiresKeeps ==
  ASSUME Inv, NEW f \in Coalesced, TimerFires(f)
  PROVE  Inv'
<1>1. timers' = timers \ {f} /\ UNCHANGED <<version, source, asks, told, rows>>
  BY DEF TimerFires
<1>2. CASE f \in inFlight \/ buffer[f] = {}
  <2>1. UNCHANGED <<queueVars, buffer, inFlight, flushes>>
    BY <1>2 DEF TimerFires
  <2>2. \A x \in flushes : x.family \in Guarded => x.family \in inFlight
    BY DEF Inv, FlushesOK, Fits, FlushOf
  <2> QED
    BY <1>1, <1>2, <2>1, <2>2, TimersKeep DEF Inv, BuffersOK
<1>3. CASE ~ (f \in inFlight \/ buffer[f] = {})
  <2>1. /\ buffer' = [buffer EXCEPT ![f] = {}] /\ inFlight' = inFlight \cup guards(f)
        /\ \/ f # appchain /\ flushes' = flushes \cup {flush(f, "preparing", NoTask)}
              /\ UNCHANGED queueVars
           \/ f = appchain /\ Submit(f) /\ flushes' = flushes \cup {flush(f, "handed", submitted')}
           \/ f = appchain /\ flushes' = flushes \cup {flush(f, "clearing", NoTask)}
              /\ UNCHANGED queueVars
    BY <1>3 DEF TimerFires
  <2>2. CASE UNCHANGED queueVars /\ \E at : /\ flushes' = flushes \cup {flush(f, at, NoTask)}
                                            /\ \/ at = "preparing" /\ f # appchain
                                               \/ at = "clearing" /\ f = appchain
    BY <1>1, <1>3, <2>1, <2>2, QueueStill, StartKeeps
  <2>3. CASE f = appchain /\ Submit(f) /\ flushes' = flushes \cup {flush(f, "handed", submitted')}
    <3>1. /\ QueueOK' /\ QueueMoves /\ written' = written
          /\ submitted' = submitted + 1 /\ submitted' \in Task
          /\ keyOf'[submitted'] = f /\ written[submitted'] = 0
      BY <2>3, SubmitKeeps DEF Inv
    <3>2. PICK task : task = submitted'
      OBVIOUS
    <3> QED
      BY <1>1, <1>3, <2>1, <2>3, <3>1, <3>2, StartKeeps
  <2> QED
    BY <2>1, <2>2, <2>3
<1> QED
  BY <1>2, <1>3

LEMMA FinallyKeeps ==
  ASSUME Inv, NEW f \in Coalesced, Finally(f)
  PROVE  Inv'
<1>1. /\ \A x \in flushes : x.family # f
      /\ inFlight' = inFlight \ {f}
      /\ timers' = IF buffer[f] = {} THEN timers ELSE timers \cup {f}
      /\ UNCHANGED <<queueVars, version, source, asks, told, buffer, flushes, rows>>
  BY DEF Finally
<1>2. \A x \in flushes : x.family \in Guarded => x.family \in inFlight'
  BY <1>1 DEF Inv, FlushesOK, Fits, FlushOf
<1>3. /\ timers' \subseteq Coalesced /\ inFlight' \subseteq Guarded
      /\ \A g \in Coalesced : buffer[g] # {} => g \in timers' \cup inFlight'
  BY <1>1 DEF Inv, BuffersOK
<1> QED
  BY <1>1, <1>2, <1>3, TimersKeep

LEMMA AbortAllKeeps ==
  ASSUME Inv, AbortAll
  PROVE  Inv'
<1> DEFINE S == {t \in Task : Pending(t)}
<1>1. /\ version < MaxAborts /\ version' = version + 1
      /\ buffer' = [f \in Coalesced |-> {}] /\ timers' = {}
      /\ told' = [r \in Request |-> CASE r \in buffer[token] -> "dropped"
                    [] r \in buffer[balance] \cup buffer[appchain] -> "failed"
                    [] OTHER -> told[r]]
      /\ Abort(S) /\ UNCHANGED <<source, asks, inFlight, flushes, rows>>
  BY DEF AbortAll
<1>2. /\ QueueOK' /\ QueueMoves /\ written' = written /\ S \subseteq stopped'
  BY <1>1, AbortKeeps DEF Inv
<1>3. \A t \in 1 .. submitted : promise[t] = "pending" => t \in stopped'
  BY <1>2, QueueFacts DEF Inv
<1>4. Extends /\ \A g \in Coalesced : buffer'[g] = {}
  BY <1>1 DEF Extends, Request
<1>5. FlushesOK'
  <2>1. \A y \in flushes : y.family \in Coalesced /\ (y.family \in Guarded => y.family \in inFlight)
    BY FlushFacts DEF Inv, FlushesOK, Fits, FlushOf
  <2> QED
    BY <1>1, <1>2, <1>3, <1>4, <2>1, FlushesStay DEF Before
<1>6. BufferFits'
  BY <1>1, <1>4, BufferStays
<1>7. BuffersOK'
  <2>1. /\ Request = 1 .. Len(asks) /\ Len(asks) \in Nat /\ told \in [Request -> Heard]
        /\ version \in 0 .. MaxAborts
    BY TypeFacts DEF Inv, BuffersOK
  <2>2. told' \in [Request -> Heard]
    BY <1>1, <2>1 DEF Heard
  <2>3. told' \in Seq(Heard) /\ Len(told') = Len(asks)
    BY <2>1, <2>2
  <2>4. version' \in 0 .. MaxAborts
    BY <1>1, <2>1, CoalescedAssumption
  <2> QED
    BY <1>1, <1>4, <2>3, <2>4 DEF Inv, BuffersOK, Heard, Request
<1> QED
  BY <1>2, <1>5, <1>6, <1>7 DEF Inv

\* The data source is there: the flush x gets its task.
LEMMA HandKeeps ==
  ASSUME Inv, NEW x \in flushes, Answerable(x), x.version = version, hand(x),
         UNCHANGED <<version, source, asks, buffer, timers, inFlight, rows>>
  PROVE  Inv'
<1>0. PICK n : n = [x EXCEPT !.at = "handed", !.task = submitted']
  OBVIOUS
<1>1. /\ Submit(x.family) /\ flushes' = (flushes \ {x}) \cup {n} /\ told' = told
      /\ x.at = "preparing"
  BY <1>0 DEF hand, Answerable
<1>2. x \in Flush(Request) /\ x.family \in Coalesced /\ FlushOf(x) /\ Fits(x)
      /\ flushes \subseteq Flush(Request)
  BY FlushFacts, TypeFacts DEF Inv, FlushesOK, Fits
<1>3. /\ QueueOK' /\ QueueMoves /\ written' = written
      /\ submitted' = submitted + 1 /\ submitted' \in Task /\ submitted \in Nat
      /\ keyOf'[submitted'] = x.family /\ written[submitted'] = 0
  BY <1>1, <1>2, SubmitKeeps, QueueFacts DEF Inv
<1>4. /\ n.family = x.family /\ n.asks = x.asks /\ n.version = version /\ n.at = "handed"
      /\ n.task = submitted' /\ n \in Flush(Request) /\ n.loads = x.loads
  <2>1. PICK t \in 0 .. MaxTasks : t = submitted'
    BY <1>3, QueueFacts DEF Inv, Task
  <2>2. n = [x EXCEPT !.at = "handed", !.task = t]
    BY <1>0, <2>1
  <2> QED
    BY <1>2, <2>1, <2>2 DEF Flush
<1>5. Extends
  BY DEF Extends, Request
<1>6. ~ Handed(x) /\ Handed(n)
  BY <1>1, <1>4 DEF Handed
<1>7. Fits(n)'
  <2>1. FlushOf(n)'
    <3>1. submitted' \in 1 .. submitted'
      BY <1>3
    <3> QED
      BY <1>2, <1>3, <1>4, <1>6, <3>1 DEF FlushOf, Handed
  <2>2. Fresh(n)'
    BY <1>4 DEF Fresh
  <2>3. RowsOld(n)'
    BY <1>2, <1>4, <1>6 DEF Fits, RowsOld, Ahead
  <2>4. RowsThere(n)'
    <3>1. Batches[x.family] > 0 /\ Batches[x.family] \in Nat
      BY <1>2, CoalescedAssumption
    <3> QED
      BY <1>3, <1>4, <3>1 DEF RowsThere
  <2> QED
    BY <2>1, <2>2, <2>3, <2>4 DEF Fits
<1>8. ASSUME NEW y \in flushes', y # n
      PROVE  Apart(n, y) /\ Apart(y, n)
  <2>1. y \in flushes /\ y # x /\ FlushOf(y) /\ Apart(x, y) /\ Apart(y, x)
    BY <1>1, <1>8 DEF Inv, FlushesOK, Fits
  <2>2. Handed(y) => y.task < submitted' /\ y.task \in Nat
    BY <1>3, <2>1 DEF FlushOf
  <2>3. ASSUME y.family = x.family, y.loads = x.loads, ~ Handed(y)
        PROVE  Before(x.asks, y.asks)
    <3>1. y.at = "preparing"
      <4>1. y.at # "clearing"
        BY <1>1, <1>2, <2>1, <2>3 DEF FlushOf
      <4> QED
        BY <2>1, <2>3, <4>1, FlushFacts DEF Handed
    <3>2. Max(x.asks) <= Max(y.asks)
      BY <2>1, <2>3, <3>1 DEF Answerable
    <3>3. /\ x.asks \subseteq 0 .. Len(asks) /\ x.asks # {}
          /\ y.asks \subseteq 0 .. Len(asks) /\ y.asks # {} /\ Len(asks) \in Nat
      BY <2>1, FlushFacts, TypeFacts DEF Inv
    <3>4. /\ Max(x.asks) \in x.asks /\ Max(y.asks) \in y.asks
          /\ Max(x.asks) \in Nat /\ Max(y.asks) \in Nat
      BY <3>3, MaxFacts
    <3>5. ~ Before(y.asks, x.asks)
      BY <3>2, <3>4 DEF Before
    <3> QED
      BY <2>1, <2>3, <3>5 DEF Apart, Ordered
  <2>4. ASSUME y.family = x.family, y.loads = x.loads, Handed(y)
        PROVE  Before(y.asks, x.asks)
    BY <1>6, <2>1, <2>4 DEF Apart, Ordered
  <2>5. y.family = x.family => x.family \notin Guarded
    BY <2>1 DEF Apart, Ordered
  <2> QED
    BY <1>3, <1>4, <1>6, <2>1, <2>2, <2>3, <2>4, <2>5 DEF Apart, Ordered
<1>9. FlushesOK'
  <2>1. flushes' \subseteq flushes \cup {n}
    BY <1>1
  <2> QED
    BY <1>3, <1>5, <1>7, <1>8, <2>1, FlushesGrow
<1>10. BufferFits'
  BY BufferStays
<1>11. BuffersOK'
  <2>1. flushes' \subseteq Flush(Request)
    BY <1>1, <1>2, <1>4
  <2> QED
    BY <1>1, <2>1 DEF Inv, BuffersOK, Flush, Request
<1> QED
  BY <1>3, <1>9, <1>10, <1>11 DEF Inv

\* The data source is set.
LEMMA SourceKeeps ==
  ASSUME Inv, SourceAppears
  PROVE  Inv'
<1>1. /\ source' = TRUE
      /\ UNCHANGED <<queueVars, version, asks, told, buffer, timers, inFlight, flushes, rows>>
  BY DEF SourceAppears
<1>2. QueueOK' /\ QueueMoves /\ written' = written /\ Extends
  BY <1>1, QueueStill DEF Extends, Request
<1>3. \A y \in flushes : FlushOf(y)
  BY DEF Inv, FlushesOK, Fits
<1>4. FlushesOK'
  BY <1>1, <1>2, <1>3, FlushesStay DEF FlushOf
<1>5. BufferFits'
  BY <1>1, BufferStays
<1>6. BuffersOK'
  BY <1>1 DEF Inv, BuffersOK, Request
<1> QED
  BY <1>2, <1>4, <1>5, <1>6 DEF Inv

-----------------------------------------------------------------------------
\* The rows.

\* Balances that came through the loader are in the place of newer ones.
Outrun(f, a) ==
  f = balance /\ \E x \in flushes : x.loads /\ rows'[<<f, a>>] \in x.asks

Grows ==
  \A f \in Coalesced, a \in Address : rows[<<f, a>>] <= rows'[<<f, a>>] \/ Outrun(f, a)

\* Requests of flushes that may still write bring newer rows than there are.
LEMMA BringFacts ==
  ASSUME Inv, NEW R, \A r \in R : \E z \in flushes : r \in z.asks /\ Ahead(z),
         rows' = landed(R), UNCHANGED <<asks, buffer, version>>
  PROVE  /\ BufferFits' /\ Grows /\ rows' \in [Coalesced \X Address -> 0 .. MaxTasks]
         /\ \A f \in Coalesced, a \in Address :
              \/ /\ rows'[<<f, a>>] = rows[<<f, a>>]
                 /\ \A r \in R : ~(asks[r].family = f /\ asks[r].owner = a)
              \/ /\ rows'[<<f, a>>] \in R
                 /\ asks[rows'[<<f, a>>]].family = f
                 /\ \A r \in R : asks[r].family = f /\ asks[r].owner = a =>
                      r <= rows'[<<f, a>>]
<1>1. R \in SUBSET Request /\ Request = 1 .. Len(asks) /\ Len(asks) \in Nat
  BY FlushFacts, TypeFacts DEF Inv
<1>2. BuffersOK /\ BufferFits /\ Len(asks) <= MaxTasks
      /\ rows \in [Coalesced \X Address -> 0 .. MaxTasks]
  BY DEF Inv, BuffersOK, BufferFits
<1>3. /\ rows' \in [Coalesced \X Address -> 0 .. MaxTasks]
      /\ \A f \in Coalesced, a \in Address :
           \/ /\ rows'[<<f, a>>] = rows[<<f, a>>]
              /\ \A r \in R : ~(asks[r].family = f /\ asks[r].owner = a)
           \/ /\ rows'[<<f, a>>] \in R
              /\ asks[rows'[<<f, a>>]].family = f
              /\ \A r \in R : asks[r].family = f /\ asks[r].owner = a =>
                   r <= rows'[<<f, a>>]
  <2> DEFINE new == landed(R)
  <2>1. /\ new \in [Coalesced \X Address -> 0 .. MaxTasks]
        /\ \A f \in Coalesced, a \in Address :
             \/ /\ new[<<f, a>>] = rows[<<f, a>>]
                /\ \A r \in R : ~(asks[r].family = f /\ asks[r].owner = a)
             \/ /\ new[<<f, a>>] \in R
                /\ asks[new[<<f, a>>]].family = f
                /\ \A r \in R : asks[r].family = f /\ asks[r].owner = a =>
                     r <= new[<<f, a>>]
    BY <1>1, <1>2, LandedFacts
  <2> HIDE DEF new
  <2> QED
    BY <2>1 DEF new
<1>4. ASSUME NEW r \in R
      PROVE  LET f == asks[r].family
             IN  /\ \/ \A a \in Address : rows[<<f, a>>] < r
                    \/ f = balance /\ \E z \in flushes : z.loads /\ r \in z.asks
                 /\ \A s \in buffer[f] : r < s
  <2>1. PICK z \in flushes : r \in z.asks /\ Ahead(z)
    OBVIOUS
  <2>2. asks[r].family = z.family /\ FlushOf(z) /\ RowsOld(z)
    BY <2>1, FlushFacts DEF Inv, FlushesOK, Fits
  <2>3. \A s \in buffer[z.family] : r < s
    BY <2>1, <2>2 DEF FlushOf, Before
  <2>4. CASE z.loads
    BY <2>1, <2>2, <2>3, <2>4 DEF FlushOf
  <2>5. CASE ~ z.loads
    <3>1. \A a \in Address : rows[<<z.family, a>>] < r
      BY <2>1, <2>2, <2>5 DEF RowsOld
    <3> QED
      BY <2>2, <2>3, <3>1
  <2> QED
    BY <2>4, <2>5
<1>5. ASSUME NEW f \in Coalesced, NEW a \in Address
      PROVE  /\ rows[<<f, a>>] <= rows'[<<f, a>>] \/ Outrun(f, a)
             /\ rows'[<<f, a>>] <= Len(asks)
             /\ \A s \in buffer[f] : rows'[<<f, a>>] < s
  <2>0. rows[<<f, a>>] \in 0 .. MaxTasks /\ rows'[<<f, a>>] \in 0 .. MaxTasks
        /\ rows[<<f, a>>] <= Len(asks) /\ \A s \in buffer[f] : rows[<<f, a>>] < s
    BY <1>2, <1>3 DEF BufferFits
  <2>1. CASE rows'[<<f, a>>] = rows[<<f, a>>]
    BY <2>0, <2>1
  <2>2. CASE rows'[<<f, a>>] \in R /\ asks[rows'[<<f, a>>]].family = f
    <3>1. /\ rows[<<f, a>>] < rows'[<<f, a>>] \/ Outrun(f, a)
          /\ \A s \in buffer[f] : rows'[<<f, a>>] < s
      BY <1>4, <2>2 DEF Outrun
    <3>2. rows'[<<f, a>>] <= Len(asks)
      <4>1. \A r \in R : r \in 1 .. Len(asks)
        BY <1>1
      <4>2. \A r \in R : r <= Len(asks)
        BY <1>1, <4>1
      <4> QED
        BY <2>2, <4>2
    <3> QED
      BY <2>0, <3>1, <3>2
  <2> QED
    BY <1>3, <2>1, <2>2
<1>6. BufferFits'
  BY <1>2, <1>5 DEF BufferFits
<1> QED
  BY <1>3, <1>5, <1>6 DEF Grows

LEMMA ClearedKeeps ==
  ASSUME Inv, NEW x \in flushes, Cleared(x)
  PROVE  Inv' /\ Grows
<1>1. /\ x.at = "clearing"
      /\ UNCHANGED <<queueVars, version, source, asks, buffer, timers, inFlight>>
      /\ \/ ends(x, "saved") /\ rows' = landed(x.asks)
         \/ ends(x, "failed") /\ rows' = rows
  BY DEF Cleared
<1>2. CASE ends(x, "failed") /\ rows' = rows
  <2>1. Inv'
    BY <1>1, <1>2, EndsKeeps DEF Heard
  <2>2. Grows
    BY <1>2 DEF Inv, BuffersOK, Grows
  <2> QED
    BY <2>1, <2>2
<1>3. CASE ends(x, "saved") /\ rows' = landed(x.asks)
  <2>0. ~ Handed(x) /\ x.family \in Guarded /\ FlushOf(x)
    BY <1>1 DEF Handed, Inv, FlushesOK, Fits, FlushOf, Guarded
  <2>1. /\ BufferFits' /\ Grows /\ rows' \in [Coalesced \X Address -> 0 .. MaxTasks]
        /\ \A f \in Coalesced, a \in Address :
             \/ rows'[<<f, a>>] = rows[<<f, a>>]
             \/ rows'[<<f, a>>] \in x.asks /\ asks[rows'[<<f, a>>]].family = f
    <3>1. \A r \in x.asks : \E z \in flushes : r \in z.asks /\ Ahead(z)
      BY <2>0 DEF Ahead
    <3> QED
      BY <1>1, <1>3, <3>1, BringFacts
  <2>2. QueueOK' /\ QueueMoves /\ UNCHANGED <<submitted, keyOf, written, stopped, promise>>
    BY <1>1, QueueStill DEF queueVars
  <2>3. flushes' = flushes \ {x} /\ told' = tell(x.asks, "saved")
    BY <1>3 DEF ends
  <2>4. ASSUME NEW y \in flushes' PROVE Fits(y)'
    <3>1. y \in flushes /\ y # x /\ Fits(y) /\ Apart(x, y)
      BY <2>3 DEF Inv, FlushesOK
    <3>2. y.family # x.family
      BY <2>0, <3>1 DEF Apart, Ordered
    <3>3. \A a \in Address : rows'[<<y.family, a>>] = rows[<<y.family, a>>]
      <4>1. \A r \in x.asks : asks[r].family # y.family
        BY <3>2, FlushFacts
      <4>2. y.family \in Coalesced
        BY <3>1, FlushFacts
      <4> QED
        BY <2>1, <4>1, <4>2
    <3>4. \A r \in y.asks : asks[r].owner \in Address
      BY <3>1, FlushFacts
    <3>5. FlushOf(y)' /\ Fresh(y)'
      BY <1>1, <2>2, <3>1 DEF Fits, FlushOf, Fresh, Handed
    <3>6. RowsOld(y)'
      BY <2>2, <3>1, <3>3 DEF Fits, RowsOld, Ahead, Handed
    <3>7. RowsThere(y)'
      BY <1>1, <2>2, <3>1, <3>3, <3>4 DEF Fits, RowsThere, Handed
    <3> QED
      BY <3>5, <3>6, <3>7 DEF Fits
  <2>5. FlushesOK'
    BY <2>3, <2>4 DEF Inv, FlushesOK, Apart, Ordered, Before, Handed
  <2>6. BuffersOK'
    <3>1. told' \in Seq(Heard) /\ Len(told') = Len(asks)
      BY <2>3, TellFacts DEF Inv, Heard
    <3> QED
      BY <1>1, <2>1, <2>3, <3>1 DEF Inv, BuffersOK, Heard, Request
  <2> QED
    BY <2>1, <2>2, <2>5, <2>6 DEF Inv
<1> QED
  BY <1>1, <1>2, <1>3

\* While a batch of the task t lands, no other flush of its key has written
\* everything: its task would be pending, as nothing has an await to return
\* from, and of the pending tasks of a key only the eldest has begun.
LEMMA EldestOnly ==
  ASSUME Inv, Calm, NEW t \in Task, Pending(t), \A u \in PendingOf(keyOf[t]) : t <= u,
         NEW y \in flushes, Handed(y), y.task # t,
         written[y.task] = Batches[y.family]
  PROVE  y.family # keyOf[t]
<1> SUFFICES ASSUME y.family = keyOf[t] PROVE FALSE
  OBVIOUS
<1>1. /\ y.task \in 1 .. submitted /\ y.task \in Task /\ keyOf[y.task] = keyOf[t]
      /\ y.family \in Coalesced
  BY FlushFacts
<1>2. Pending(y.task)
  BY <1>1 DEF Calm, Handed, Pending
<1>3. written[y.task] > 0
  BY <1>1, CoalescedAssumption
<1>4. y.task \in PendingOf(keyOf[t]) /\ t \in PendingOf(keyOf[y.task])
  BY <1>1, <1>2 DEF PendingOf
<1>5. y.task <= t
  BY <1>1, <1>2, <1>3, <1>4 DEF Inv, QueueOK
<1>6. t <= y.task
  BY <1>4
<1> QED
  BY <1>1, <1>5, <1>6 DEF Task

LEMMA LandingKeeps ==
  ASSUME Inv, Calm, NEW t \in Task, Landing(t)
  PROVE  Inv' /\ Grows
<1> DEFINE last == written[t] < written'[t] /\ written'[t] = Batches[keyOf[t]]
<1>1. /\ Land(t) /\ rows' = IF last THEN landed(cargo(t)) ELSE rows
      /\ UNCHANGED <<version, source, asks, told, buffer, timers, inFlight, flushes>>
  BY DEF Landing
<1>2. /\ QueueOK' /\ QueueMoves /\ submitted' = submitted /\ promise' = promise
      /\ Pending(t) /\ \A u \in PendingOf(keyOf[t]) : t <= u
      /\ \A u \in Task \ {t} : written'[u] = written[u]
      /\ keyOf[t] \in Coalesced /\ written'[t] <= Batches[keyOf[t]]
      /\ written[t] <= written'[t] /\ keyOf' = keyOf /\ stopped' = stopped
  BY <1>1, LandKeeps DEF Inv
<1>3. /\ written \in [Task -> Nat] /\ written' \in [Task -> Nat] /\ t # NoTask
      /\ Batches[keyOf[t]] \in Nat /\ promise[t] = "pending"
  <2>1. written \in [Task -> Nat] /\ written' \in [Task -> Nat]
    BY <1>2 DEF Inv, QueueOK
  <2>2. t # NoTask
    BY CoalescedAssumption DEF Task, NoTask
  <2>3. Batches[keyOf[t]] \in Nat
    <3>1. keyOf[t] \in Keys /\ Batches \in [Keys -> Nat]
      BY <1>2, CoalescedAssumption
    <3> QED
      BY <3>1
  <2>4. promise[t] = "pending"
    BY <1>2 DEF Pending
  <2> QED
    BY <2>1, <2>2, <2>3, <2>4
<1>4. ASSUME NEW y \in flushes
      PROVE  /\ y.family \in Coalesced /\ Batches[y.family] \in Nat
             /\ Handed(y) => y.task \in Task /\ keyOf[y.task] = y.family
             /\ y.task = t => Handed(y) /\ y.family = keyOf[t]
             /\ Ahead(y)' => Ahead(y)
             /\ FlushOf(y) /\ Fresh(y) /\ RowsOld(y) /\ RowsThere(y)
             /\ \A r \in y.asks : asks[r].owner \in Address /\ asks[r].family = y.family
  <2>1. /\ y.family \in Coalesced /\ Batches[y.family] \in Nat
        /\ Handed(y) => y.task \in Task /\ keyOf[y.task] = y.family
        /\ ~ Handed(y) => y.task = NoTask
        /\ \A r \in y.asks : asks[r].owner \in Address /\ asks[r].family = y.family
    BY FlushFacts, CoalescedAssumption
  <2>2. Ahead(y)' => Ahead(y)
    <3>1. Handed(y) => /\ written[y.task] \in Nat /\ written'[y.task] \in Nat
                       /\ written[y.task] <= written'[y.task]
      BY <1>2, <1>3, <2>1
    <3> QED
      BY <1>2, <2>1, <3>1 DEF Ahead, Handed
  <2>3. FlushOf(y) /\ Fresh(y) /\ RowsOld(y) /\ RowsThere(y)
    BY DEF Inv, FlushesOK, Fits
  <2> QED
    BY <1>3, <2>1, <2>2, <2>3
<1>5. \A y \in flushes : FlushOf(y)' /\ Fresh(y)'
  BY <1>1, <1>2, <1>4 DEF FlushOf, Fresh, Handed
<1>6. \A x, y \in flushes' : x # y => Apart(x, y)'
  BY <1>1 DEF Inv, FlushesOK, Apart, Ordered, Before, Handed
<1>7. CASE ~ last
  <2>1. rows' = rows
    BY <1>1, <1>7
  <2>2. ASSUME NEW y \in flushes PROVE RowsOld(y)' /\ RowsThere(y)'
    <3>1. RowsOld(y)'
      BY <1>4, <2>1 DEF RowsOld
    <3>2. Handed(y) /\ written'[y.task] = Batches[y.family] => written[y.task] = Batches[y.family]
      <4>1. CASE y.task = t
        BY <1>2, <1>3, <1>4, <1>7, <4>1
      <4>2. CASE y.task # t
        BY <1>2, <1>4, <4>2
      <4> QED
        BY <4>1, <4>2
    <3>3. RowsThere(y)'
      BY <1>1, <1>4, <2>1, <3>2 DEF RowsThere, Handed
    <3> QED
      BY <3>1, <3>3
  <2>3. FlushesOK'
    BY <1>1, <1>5, <1>6, <2>2 DEF FlushesOK, Fits
  <2>4. BufferFits' /\ BuffersOK' /\ Grows
    BY <1>1, <2>1 DEF Inv, BufferFits, BuffersOK, Request, Grows
  <2> QED
    BY <1>2, <2>3, <2>4 DEF Inv
<1>8. CASE last
  <2>1. rows' = landed(cargo(t)) /\ written'[t] = Batches[keyOf[t]] /\ written[t] < written'[t]
    BY <1>1, <1>8
  <2>2. ASSUME NEW r \in cargo(t)
        PROVE  \E z \in flushes : r \in z.asks /\ z.task = t /\ Ahead(z)
    <3>1. PICK z \in flushes : r \in z.asks /\ z.task = t
      BY DEF cargo
    <3>2. Ahead(z)
      BY <1>3, <1>4, <2>1, <3>1 DEF Ahead
    <3> QED
      BY <3>1, <3>2
  <2>3. /\ BufferFits' /\ Grows /\ rows' \in [Coalesced \X Address -> 0 .. MaxTasks]
        /\ \A f \in Coalesced, a \in Address :
             \/ /\ rows'[<<f, a>>] = rows[<<f, a>>]
                /\ \A r \in cargo(t) : ~(asks[r].family = f /\ asks[r].owner = a)
             \/ /\ rows'[<<f, a>>] \in cargo(t)
                /\ asks[rows'[<<f, a>>]].family = f
                /\ \A r \in cargo(t) : asks[r].family = f /\ asks[r].owner = a =>
                     r <= rows'[<<f, a>>]
    BY <1>1, <2>1, <2>2, BringFacts
  <2>4. ASSUME NEW y \in flushes PROVE RowsOld(y)'
    <3> SUFFICES ASSUME Ahead(y)', ~ y.loads, NEW r \in y.asks, NEW a \in Address
                 PROVE  rows'[<<y.family, a>>] < r
      BY DEF RowsOld
    <3>1. Ahead(y) /\ rows[<<y.family, a>>] < r
      BY <1>4 DEF RowsOld
    <3>2. CASE rows'[<<y.family, a>>] = rows[<<y.family, a>>]
      BY <3>1, <3>2
    <3>3. CASE rows'[<<y.family, a>>] \in cargo(t) /\ asks[rows'[<<y.family, a>>]].family = y.family
      <4>1. PICK z \in flushes : rows'[<<y.family, a>>] \in z.asks /\ z.task = t
        BY <2>2, <3>3
      <4>2. Handed(z) /\ z.family = keyOf[t] /\ z.family = y.family
        BY <1>4, <3>3, <4>1
      <4>3. ~ Handed(y) \/ (y.task # t /\ promise[y.task] = "pending")
        <5>1. Handed(y) => written'[y.task] < Batches[y.family] /\ promise[y.task] = "pending"
          BY <1>2 DEF Ahead, Handed
        <5> QED
          BY <1>3, <2>1, <4>2, <5>1
      <4>4. z # y
        BY <4>1, <4>2, <4>3
      <4>5. Apart(z, y)
        BY <4>4 DEF Inv, FlushesOK
      <4>6. z.loads \in BOOLEAN /\ y.loads \in BOOLEAN
        BY FlushFacts
      <4>7. CASE z.loads
        BY <4>1, <4>2, <4>5, <4>7 DEF Apart, Ordered, Before
      <4>8. CASE ~ z.loads /\ ~ Handed(y)
        BY <4>1, <4>2, <4>5, <4>8, <4>6 DEF Apart, Ordered, Before
      <4>9. CASE ~ z.loads /\ Handed(y)
        <5>1. y.task \in 1 .. submitted /\ y.task \in Task /\ keyOf[y.task] = keyOf[t]
          BY <4>2, <4>9, FlushFacts
        <5>2. y.task \in PendingOf(keyOf[t])
          BY <4>3, <4>9, <5>1 DEF PendingOf, Pending
        <5>3. t < y.task
          BY <1>2, <4>3, <4>9, <5>1, <5>2 DEF Task
        <5> QED
          BY <4>1, <4>2, <4>5, <4>9, <4>6, <5>3 DEF Apart, Ordered, Before
      <4> QED
        BY <4>7, <4>8, <4>9
    <3> QED
      BY <1>4, <2>3, <3>2, <3>3
  <2>5. ASSUME NEW y \in flushes PROVE RowsThere(y)'
    <3> SUFFICES ASSUME Handed(y), written'[y.task] = Batches[y.family], NEW r \in y.asks
                 PROVE  r <= rows'[<<y.family, asks[r].owner>>]
      BY <1>1 DEF RowsThere, Handed
    <3>0. PICK a \in Address : a = asks[r].owner
      BY <1>4
    <3>1. CASE y.task = t
      <4>1. r \in cargo(t) /\ asks[r].family = y.family
        BY <1>4, <3>1 DEF cargo
      <4> QED
        BY <1>4, <2>3, <3>0, <4>1
    <3>2. CASE y.task # t
      <4>1. r <= rows[<<y.family, a>>]
        BY <1>2, <1>4, <3>0, <3>2 DEF RowsThere
      <4>2. y.family # keyOf[t]
        BY <1>2, <1>4, <3>2, EldestOnly
      <4>3. \A s \in cargo(t) : asks[s].family = keyOf[t]
        BY <1>4 DEF cargo
      <4>4. rows'[<<y.family, a>>] = rows[<<y.family, a>>]
        BY <1>4, <2>3, <4>2, <4>3
      <4> QED
        BY <3>0, <4>1, <4>4
    <3> QED
      BY <3>1, <3>2
  <2>6. FlushesOK'
    BY <1>1, <1>5, <1>6, <2>4, <2>5 DEF FlushesOK, Fits
  <2>7. BuffersOK'
    BY <1>1, <2>3 DEF Inv, BuffersOK, Request
  <2> QED
    BY <1>2, <2>3, <2>6, <2>7 DEF Inv
<1> QED
  BY <1>7, <1>8

-----------------------------------------------------------------------------
\* Every step.

LEMMA InitInv == Init => Inv
<1> SUFFICES ASSUME Init PROVE Inv
  OBVIOUS
<1> USE CoalescedAssumption
<1>1. /\ submitted = 0 /\ keyOf = [t \in Task |-> NoKey] /\ writing = {}
      /\ written = [t \in Task |-> 0] /\ stopped = {}
      /\ promise = [t \in Task |-> "pending"]
  BY DEF Init, QueueInit
<1>2. /\ version = 0 /\ source = FALSE /\ asks = <<>> /\ told = <<>>
      /\ buffer = [f \in Coalesced |-> {}] /\ timers = {} /\ inFlight = {} /\ flushes = {}
      /\ rows = [p \in Coalesced \X Address |-> 0]
  BY DEF Init
<1>3. QueueOK
  BY <1>1 DEF QueueOK, Task
<1>4. FlushesOK
  BY <1>2 DEF FlushesOK
<1>5. Len(asks) = 0 /\ Len(told) = 0
  BY <1>2
<1>6. BufferFits
  BY <1>2, <1>5 DEF BufferFits
<1>7. BuffersOK
  <2>1. version \in 0 .. MaxAborts
    BY <1>2
  <2>4. source \in BOOLEAN
    BY Zenon DEF Init
  <2>2. asks \in Seq(Asked) /\ told \in Seq(Heard)
    <3>1. \A S : <<>> \in Seq(S)
      OBVIOUS
    <3> QED
      BY <1>2, <3>1
  <2>3. /\ buffer \in [Coalesced -> SUBSET Request]
        /\ rows \in [Coalesced \X Address -> 0 .. MaxTasks]
        /\ \A f \in Coalesced : buffer[f] = {}
    BY <1>2
  <2> QED
    BY <1>2, <1>5, <2>1, <2>2, <2>3, <2>4 DEF BuffersOK, Asked, Heard
<1> QED
  BY <1>3, <1>4, <1>6, <1>7 DEF Inv

LEMMA FlushingKeeps ==
  ASSUME Inv, NEW x \in flushes, Flushing(x)
  PROVE  Inv' /\ Grows
<1>0. rows' = rows => Grows
  BY DEF Inv, BuffersOK, Grows
<1>1. CASE Prepared(x)
  <2>1. CASE x.version = version
    BY <1>0, <1>1, <2>1, HandKeeps DEF Prepared
  <2>2. CASE x.version # version
    <3>1. PICK what \in Heard : ends(x, what)
      BY <1>1, <2>2 DEF Prepared, Heard
    <3> QED
      BY <1>0, <1>1, <2>2, <3>1, EndsKeeps DEF Prepared
  <2> QED
    BY <2>1, <2>2
<1>2. CASE PrepareFails(x)
  BY <1>0, <1>2, EndsKeeps DEF PrepareFails, Heard
<1>3. CASE Settled(x)
  <2>1. PICK what \in Heard : ends(x, what)
    BY <1>3 DEF Settled, Heard
  <2> QED
    BY <1>0, <1>3, <2>1, EndsKeeps DEF Settled
<1>4. CASE Cleared(x)
  BY <1>4, ClearedKeeps
<1> QED
  BY <1>1, <1>2, <1>3, <1>4 DEF Flushing

LEMMA NextKeeps ==
  ASSUME Inv, [Next]_vars
  PROVE  Inv' /\ Grows
<1>0. rows' = rows => Grows
  BY DEF Inv, BuffersOK, Grows
<1>1. ASSUME NEW f \in Coalesced, NEW a \in Address, Ask(f, a) PROVE Inv' /\ Grows
  BY <1>0, <1>1, AskKeeps DEF Ask
<1>2. ASSUME NEW f \in Coalesced, TimerFires(f) PROVE Inv' /\ Grows
  BY <1>0, <1>2, TimerFiresKeeps DEF TimerFires
<1>3. ASSUME NEW f \in Coalesced, Finally(f) PROVE Inv' /\ Grows
  BY <1>0, <1>3, FinallyKeeps DEF Finally
<1>4. ASSUME NEW x \in flushes, Flushing(x) PROVE Inv' /\ Grows
  BY <1>4, FlushingKeeps
<1>5. CASE AbortAll
  BY <1>0, <1>5, AbortAllKeeps DEF AbortAll
<1>6. ASSUME NEW t \in Task, Writes(t) PROVE Inv' /\ Grows
  <2>1. CASE Begin(t) /\ UNCHANGED bufferVars
    BY <1>0, <2>1, BeginKeeps, QueueKeeps DEF bufferVars, Inv
  <2>2. CASE Break(t) /\ UNCHANGED bufferVars
    BY <1>0, <2>2, BreakKeeps, QueueKeeps DEF bufferVars, Inv
  <2>3. CASE Calm /\ Landing(t)
    BY <2>3, LandingKeeps
  <2> QED
    BY <1>6, <2>1, <2>2, <2>3 DEF Writes
<1>7. ASSUME NEW t \in Task, Settles(t) PROVE Inv' /\ Grows
  <2>1. UNCHANGED bufferVars
    BY <1>7 DEF Settles
  <2> QED
    BY <1>0, <1>7, <2>1, SettlesKeeps, QueueKeeps DEF bufferVars, Inv
<1>8. CASE UNCHANGED vars
  <2>1. UNCHANGED bufferVars /\ UNCHANGED queueVars
    BY <1>8 DEF vars
  <2> QED
    BY <1>0, <2>1, QueueStill, QueueKeeps DEF bufferVars
<1>9. CASE SourceAppears
  BY <1>0, <1>9, SourceKeeps DEF SourceAppears
<1> QED
  BY <1>1, <1>2, <1>3, <1>4, <1>5, <1>6, <1>7, <1>8, <1>9 DEF Next

LEMMA SpecInv == CoalescedSpec => []Inv
<1>1. Inv /\ [Next]_vars => Inv'
  BY NextKeeps
<1> QED
  BY InitInv, <1>1, PTL DEF CoalescedSpec

-----------------------------------------------------------------------------
\* What the buffers do to the scheduler.

LEMMA QueueSteps ==
  ASSUME Inv, [Next]_vars
  PROVE  [QueueNext]_queueVars
<1>1. \A f \in Coalesced : f \in Keys
  BY CoalescedAssumption
<1>2. ASSUME NEW f \in Coalesced, NEW a \in Address, Ask(f, a) PROVE UNCHANGED queueVars
  BY <1>2 DEF Ask
<1>3. ASSUME NEW f \in Coalesced, TimerFires(f) PROVE [QueueNext]_queueVars
  BY <1>1, <1>3 DEF TimerFires, QueueNext
<1>4. ASSUME NEW f \in Coalesced, Finally(f) PROVE UNCHANGED queueVars
  BY <1>4 DEF Finally
<1>5. ASSUME NEW x \in flushes, Flushing(x) PROVE [QueueNext]_queueVars
  <2>1. x.family \in Keys
    BY <1>1, FlushFacts
  <2>2. UNCHANGED queueVars \/ Submit(x.family)
    BY <1>5 DEF Flushing, Prepared, hand, PrepareFails, Settled, Cleared
  <2> QED
    BY <2>1, <2>2 DEF QueueNext
<1>6. CASE AbortAll
  <2>1. {t \in Task : Pending(t)} \in SUBSET Task
    OBVIOUS
  <2> QED
    BY <1>6, <2>1 DEF AbortAll, QueueNext
<1>7. ASSUME NEW t \in Task, Writes(t) \/ Settles(t) PROVE QueueNext
  BY <1>7 DEF Writes, Settles, Landing, QueueNext
<1>8. CASE UNCHANGED vars
  BY <1>8 DEF vars
<1>9. CASE SourceAppears
  BY <1>9 DEF SourceAppears
<1> QED
  BY <1>2, <1>3, <1>4, <1>5, <1>6, <1>7, <1>8, <1>9 DEF Next

\* A batch begins: no other step starts one.
LEMMA BeginsOnly ==
  ASSUME Inv, [Next]_vars, NEW t \in Task, t \in writing' \ writing
  PROVE  Begin(t)
<1>1. \A u \in Task : Land(u) \/ Break(u) \/ Resolve(u) \/ Reject(u) => t \notin writing' \ writing
  BY DEF Land, Break, Resolve, Reject
<1>2. \A k \in Keys : ~ Submit(k)
  BY DEF Submit
<1>3. \A S \in SUBSET Task : ~ Abort(S)
  BY DEF Abort
<1>4. \A u \in Task : Begin(u) => u = t
  BY DEF Begin
<1>5. ~ UNCHANGED queueVars
  BY DEF queueVars
<1> QED
  BY <1>1, <1>2, <1>3, <1>4, <1>5, QueueSteps DEF QueueNext

LEMMA SavedFacts ==
  ASSUME Inv, [Next]_vars, NEW r \in Request, told[r] = "nothing", told'[r] = "saved"
  PROVE  \E x \in flushes :
           /\ r \in x.asks
           /\ \/ Settled(x) /\ completed(x)
              \/ Cleared(x) /\ rows' = landed(x.asks)
<1>0. BuffersOK /\ Request = 1 .. Len(asks) /\ Len(asks) \in Nat /\ told \in Seq(Heard)
      /\ Len(told) = Len(asks)
  BY TypeFacts DEF Inv
<1>1. told' # told
  OBVIOUS
<1>2. ASSUME NEW f \in Coalesced, NEW a \in Address, Ask(f, a) PROVE FALSE
  <2>1. told' = Append(told, "nothing")
    BY <1>2 DEF Ask
  <2> QED
    BY <1>0, <2>1
<1>3. ~ SourceAppears /\ \A f \in Coalesced : ~ TimerFires(f) /\ ~ Finally(f)
  BY <1>1 DEF TimerFires, Finally, SourceAppears
<1>4. ~ AbortAll
  <2> SUFFICES ASSUME AbortAll PROVE FALSE
    OBVIOUS
  <2>1. told'[r] \in {"dropped", "failed", told[r]}
    BY DEF AbortAll
  <2> QED
    BY <2>1
<1>5. \A t \in Task : ~ Writes(t) /\ ~ Settles(t)
  BY <1>1 DEF Writes, Settles, Landing, bufferVars
<1>6. PICK x \in flushes : Flushing(x)
  BY <1>1, <1>2, <1>3, <1>4, <1>5 DEF Next, vars, bufferVars
<1>7. ASSUME NEW what, ends(x, what)
      PROVE  r \in x.asks /\ what = "saved"
  BY <1>7 DEF ends, tell
<1>8. ~ Prepared(x) /\ ~ PrepareFails(x)
  BY <1>1, <1>7 DEF Prepared, PrepareFails, hand
<1>9. CASE Settled(x)
  BY <1>7, <1>9 DEF Settled
<1>10. CASE Cleared(x)
  BY <1>7, <1>10 DEF Cleared
<1> QED
  BY <1>6, <1>8, <1>9, <1>10 DEF Flushing

-----------------------------------------------------------------------------
\* The theorems.

\* The buffers submit, abort and wait as the scheduler allows, and do nothing
\* else to it: what is proved of the scheduler under its contract holds below
\* the buffers as well (databases/sync/assets.ts, store/appchain.ts).
THEOREM UsesTheScheduler == CoalescedSpec => Spec
<1>1. Init => QueueInit
  BY DEF Init
<1>2. Inv /\ [Next]_vars => [QueueNext]_queueVars
  BY QueueSteps
<1> QED
  BY <1>1, <1>2, SpecInv, PTL DEF CoalescedSpec, Spec

\* No request is forgotten: a buffer that holds one has a timer that runs, or
\* a flush in flight whose end sets it (assets.ts:423-430, appchain.ts:300-307).
THEOREM NoneForgotten == CoalescedSpec => []BuffersOK
BY SpecInv, PTL DEF Inv

\* An abort of everything reaches the requests in the buffers, in the flushes
\* that await the data source and in the tasks: none of before it starts a
\* write after it (databases/sync/abort.ts).
THEOREM AbortIsHeard == CoalescedSpec => AbortReachesBuffers
<1>1. ASSUME Inv, [Next]_vars, NEW t \in Task, t \in writing' \ writing, NEW r \in cargo(t)
      PROVE  asks[r].version = version
  <2>1. Begin(t)
    BY <1>1, BeginsOnly
  <2>2. PICK x \in flushes : r \in x.asks /\ x.task = t
    BY <1>1 DEF cargo
  <2>3. t # NoTask
    BY CoalescedAssumption DEF Task, NoTask
  <2>4. Handed(x) /\ asks[r].version = x.version
    BY <1>1, <2>2, <2>3, FlushFacts
  <2>5. promise[t] = "pending" /\ t \notin stopped
    BY <2>1 DEF Begin, Pending
  <2>6. Fresh(x)
    BY <1>1 DEF Inv, FlushesOK, Fits
  <2> QED
    BY <2>2, <2>4, <2>5, <2>6 DEF Fresh
<1>2. Inv /\ [Next]_vars =>
        [\A t \in Task : t \in writing' \ writing =>
           \A r \in cargo(t) : asks[r].version = version]_vars
  BY <1>1
<1> QED
  BY <1>2, SpecInv, PTL DEF CoalescedSpec, AbortReachesBuffers

\* The rows of an owner never go back to those of an older request, although
\* flushes overlap, fail and wait for the data source (assets.ts:99-196); save
\* for balances whose flush awaited the loader of the data source while newer
\* ones awaited the data source alone (databases/imports.ts:64-84).
THEOREM RowsNeverGoBack == CoalescedSpec => NewestStays
<1> DEFINE lands(p) ==
      \/ rows[p] <= rows'[p]
      \/ p[1] = balance /\ \E x \in flushes : x.loads /\ rows'[p] \in x.asks
<1>1. ASSUME Inv, [Next]_vars, NEW p \in DOMAIN rows
      PROVE  lands(p)
  <2>1. Grows /\ DOMAIN rows = Coalesced \X Address
    BY <1>1, NextKeeps DEF Inv, BuffersOK
  <2>2. PICK f \in Coalesced, a \in Address : p = <<f, a>>
    BY <2>1
  <2> QED
    BY <2>1, <2>2 DEF Grows, Outrun
<1>2. Inv /\ [Next]_vars => [\A p \in DOMAIN rows : lands(p)]_vars
  BY <1>1
<1> QED
  BY <1>2, SpecInv, PTL DEF CoalescedSpec, NewestStays

\* Whoever is told that its rows are saved finds them, or newer ones, in the
\* database, save for balances whose task was aborted (assets.ts:158-177).
THEOREM SavedIsThere == CoalescedSpec => SavedIsWritten
<1> DEFINE there(r) == \/ r <= rows'[<<asks[r].family, asks[r].owner>>]
                       \/ asks[r].family = balance
                          /\ \E x \in flushes : r \in x.asks /\ x.task \in stopped
<1>1. ASSUME Inv, [Next]_vars, NEW r \in Request, told[r] = "nothing", told'[r] = "saved"
      PROVE  there(r)
  <2>1. PICK x \in flushes : /\ r \in x.asks
                             /\ \/ Settled(x) /\ completed(x)
                                \/ Cleared(x) /\ rows' = landed(x.asks)
    BY <1>1, SavedFacts
  <2>2. PICK f \in Coalesced, a \in Address :
          f = x.family /\ asks[r].family = f /\ asks[r].owner = a
    BY <1>1, <2>1, FlushFacts
  <2>3. CASE Settled(x) /\ completed(x)
    <3>1. Handed(x) /\ x.task \in 1 .. submitted /\ keyOf[x.task] = f /\ rows' = rows
      BY <1>1, <2>2, <2>3, FlushFacts DEF Settled, Handed
    <3>2. CASE promise[x.task] = "resolved"
      <4>1. written[x.task] = Batches[f]
        BY <1>1, <3>1, <3>2 DEF Inv, QueueOK
      <4>2. RowsThere(x)
        BY <1>1 DEF Inv, FlushesOK, Fits
      <4> QED
        BY <2>1, <2>2, <3>1, <4>1, <4>2 DEF RowsThere
    <3>3. CASE x.family = balance /\ x.task \in stopped
      BY <2>1, <2>2, <3>3
    <3> QED
      BY <2>3, <3>2, <3>3 DEF completed
  <2>4. CASE Cleared(x) /\ rows' = landed(x.asks)
    <3>1. x.asks \in SUBSET Request /\ BuffersOK /\ Len(asks) <= MaxTasks
      BY <1>1, FlushFacts DEF Inv, BufferFits
    <3>2. r <= landed(x.asks)[<<f, a>>]
      BY <2>1, <2>2, <3>1, LandedFacts
    <3> QED
      BY <2>2, <2>4, <3>2
  <2> QED
    BY <2>1, <2>3, <2>4
<1>2. Inv /\ [Next]_vars =>
        [\A r \in Request : told[r] = "nothing" /\ told'[r] = "saved" => there(r)]_vars
  BY <1>1
<1> QED
  BY <1>2, SpecInv, PTL DEF CoalescedSpec, SavedIsWritten
=============================================================================
