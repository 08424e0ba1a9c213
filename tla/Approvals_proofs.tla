--------------------------- MODULE Approvals_proofs ---------------------------
(***************************************************************************)
(* Theorems about Approvals, for any number of requests, dapps and sheets,  *)
(* any kinds of requests and any number of failing controllers.             *)
(*                                                                         *)
(* Every step does one of three things to the promises: the flow of one     *)
(* request moves on (Moves), the promises of some approvals are settled     *)
(* (Settles), or nothing (Stands).  Each of the three keeps the queue, the  *)
(* flows that wait and the ghost `lost` in agreement (Core); what remains   *)
(* is to say of every action which of the three it is.  The last part is     *)
(* about what the sheets show, to whom the user consented, and which         *)
(* transactions are being signed (ScreenInv, FlowInv).                      *)
(***************************************************************************)
EXTENDS Approvals, SequenceTheorems, TLAPS

\* The service as it should be: what is current is the first in the queue.
Orderly(s) ==
  /\ s.current = IF s.queue = <<>> THEN NoApproval ELSE Head(s.queue)
  /\ \A i, j \in DOMAIN s.queue : s.queue[i] = s.queue[j] => i = j

Service == [queue : Seq(Approval), current : Approval \cup {NoApproval},
            window : 0 .. MaxSheets, locked : BOOLEAN,
            deferFn : Request \cup {NoRequest}]

\* A promise is settled only while its flow waits for it.
SettledWaits == \A r \in Request : settled[r] # Unsettled => Asked(r) # NoApproval

\* The approval whose sheet is closing is in nobody's hands, and awaited.
ClosingAwaited ==
  closing # NotClosing =>
    /\ closing.approval \in Approval
    /\ Asked(closing.approval.req) = closing.approval
    /\ settled[closing.approval.req] = Unsettled
    /\ closing.approval \notin Queued(svc)

\* A flow that may ask, or has asked, is marked as one that unlocks.
Marked ==
  \A r \in Request :
    stage[r] \in {"auto", "connect", "linking", "approve", "waiting"} => requested[r]

\* A request that was answered with an error is over.
FailedEnded == \A r \in Request : answer[r].st = "failed" => stage[r] = "answered"

Core == /\ QueueConsistent /\ NoGhostApproval /\ SettledWaits
        /\ ClosingAwaited /\ OnlyKnownLosses

Inv == TypeOK /\ Core /\ Marked /\ LockOwned /\ FailedEnded /\ ConnectHeld

-----------------------------------------------------------------------------
\* Approvals, and what the operators on the queue return.

LEMMA ApprovalFacts ==
  /\ NoApproval \notin Approval
  /\ \A a \in Approval : a.req \in Request /\ a.req # NoRequest
  /\ \A r \in Request : Connect(r) \in Approval /\ Approve(r) \in Approval
                        /\ Waiting(r) \in Approval
  /\ \A r \in Request : /\ Connect(r).req = r /\ Connect(r).step = "connect"
                        /\ Approve(r).req = r /\ Approve(r).step = "approve"
                        /\ Waiting(r).req = r /\ Waiting(r).step = "waiting"
BY NotificationAssumption DEF Approval, NoApproval, Connect, Approve, Waiting

LEMMA AskedFacts ==
  \A r \in Request : /\ Asked(r) \in Approval \cup {NoApproval}
                     /\ Asked(r) # NoApproval => Asked(r).req = r
                     /\ Asked(r) # NoApproval <=> stage[r] \in {"connect", "approve", "waiting"}
BY ApprovalFacts DEF Asked

LEMMA QueuedTyped ==
  ASSUME NEW s \in Service
  PROVE  Queued(s) \subseteq Approval
BY DEF Service, Queued

LEMMA WithoutFacts ==
  ASSUME NEW q \in Seq(Approval), NEW a,
         \A i, j \in DOMAIN q : q[i] = q[j] => i = j
  PROVE  LET w == Without(q, a)
         IN  /\ w \in Seq(Approval)
             /\ \A i, j \in DOMAIN w : w[i] = w[j] => i = j
             /\ {w[i] : i \in DOMAIN w} = {q[i] : i \in DOMAIN q} \ {a}
<1>1. CASE ~ \E i \in DOMAIN q : q[i] = a
  <2>1. Without(q, a) = q
    BY <1>1 DEF Without
  <2> QED
    BY <2>1, <1>1
<1>2. CASE \E i \in DOMAIN q : q[i] = a
  <2> DEFINE at == CHOOSE i \in DOMAIN q : q[i] = a
             n == Len(q)
             w == [i \in 1 .. n - 1 |-> IF i < at THEN q[i] ELSE q[i + 1]]
  <2>1. at \in DOMAIN q /\ q[at] = a
    BY <1>2
  <2>2. Without(q, a) = w
    BY <1>2 DEF Without
  <2> HIDE DEF at
  <2>3. n \in Nat /\ DOMAIN q = 1 .. n /\ at \in 1 .. n /\ n - 1 \in Nat
    BY <2>1
  <2>4. \A i \in 1 .. n : q[i] \in Approval
    OBVIOUS
  <2>5. w \in Seq(Approval) /\ DOMAIN w = 1 .. n - 1
    <3>1. \A i \in 1 .. n - 1 : w[i] \in Approval
      BY <2>3, <2>4
    <3>2. w \in [1 .. n - 1 -> Approval]
      BY <3>1
    <3>3. DOMAIN w = 1 .. n - 1
      OBVIOUS
    <3> HIDE DEF w
    <3>4. w \in Seq(Approval)
      BY <3>2, <2>3
    <3> QED
      BY <3>3, <3>4
  <2>6. \A i \in 1 .. n - 1 : \/ i < at /\ w[i] = q[i]
                              \/ i >= at /\ w[i] = q[i + 1]
    BY <2>3
  <2> HIDE DEF w
  <2>7. \A i, j \in DOMAIN w : w[i] = w[j] => i = j
    <3>1. SUFFICES ASSUME NEW i \in 1 .. n - 1, NEW j \in 1 .. n - 1, w[i] = w[j]
                   PROVE  i = j
      BY <2>5
    <3> HIDE DEF n
    <3> DEFINE from(k) == IF k < at THEN k ELSE k + 1
    <3>2. \A k \in 1 .. n - 1 : from(k) \in DOMAIN q /\ w[k] = q[from(k)]
      BY <2>6, <2>3
    <3>3. from(i) = from(j)
      BY <3>1, <3>2
    <3> QED
      BY <3>3, <2>3
  <2>8. \A i \in DOMAIN w : w[i] \in {q[k] : k \in DOMAIN q} \ {a}
    <3> SUFFICES ASSUME NEW i \in 1 .. n - 1
                 PROVE  w[i] \in {q[k] : k \in DOMAIN q} /\ w[i] # a
      BY <2>5
    <3> HIDE DEF n
    <3>1. \E k \in DOMAIN q : w[i] = q[k] /\ k # at
      BY <2>6, <2>3
    <3> QED
      BY <3>1, <2>1
  <2>9. \A k \in DOMAIN q : q[k] # a => \E i \in DOMAIN w : w[i] = q[k]
    <3> SUFFICES ASSUME NEW k \in DOMAIN q, q[k] # a
                 PROVE  \E i \in DOMAIN w : w[i] = q[k]
      OBVIOUS
    <3> HIDE DEF n
    <3>1. k # at
      BY <2>1
    <3>2. CASE k < at
      <4>1. k \in 1 .. n - 1 /\ w[k] = q[k]
        BY <3>2, <2>3, <2>6
      <4> QED
        BY <4>1, <2>5
    <3>3. CASE k > at
      <4>1. k - 1 \in 1 .. n - 1 /\ k - 1 + 1 = k /\ ~ (k - 1 < at)
        BY <3>3, <2>3
      <4>2. w[k - 1] = q[k]
        BY <4>1, <2>6, <2>3
      <4> QED
        BY <4>1, <4>2, <2>5
    <3> QED
      BY <3>1, <3>2, <3>3, <2>3
  <2> QED
    BY <2>2, <2>5, <2>7, <2>8, <2>9
<1> QED
  BY <1>1, <1>2

LEMMA OrderlyFacts ==
  ASSUME NEW s \in Service, Orderly(s)
  PROVE  /\ s.queue = <<>> => s.current = NoApproval /\ Queued(s) = {}
         /\ s.queue # <<>> => s.current \in Queued(s) /\ s.current = s.queue[1]
         /\ s.queue # <<>> => s.current \in Approval
         /\ Len(s.queue) <= 1 => Queued(s) \subseteq {s.current}
<1>1. s.queue \in Seq(Approval)
  BY DEF Service
<1>2. CASE s.queue = <<>>
  BY <1>2 DEF Queued, Orderly
<1>3. CASE s.queue # <<>>
  <2>1. Len(s.queue) \in Nat /\ Len(s.queue) # 0 /\ DOMAIN s.queue = 1 .. Len(s.queue)
    BY <1>1, <1>3, EmptySeq
  <2>2. s.current = s.queue[1] /\ 1 \in DOMAIN s.queue
    BY <1>1, <1>3, <2>1 DEF Orderly
  <2>3. Len(s.queue) <= 1 => DOMAIN s.queue = {1}
    BY <2>1
  <2>4. s.queue[1] \in Approval
    BY <1>1, <2>2
  <2> QED
    BY <1>3, <2>2, <2>3, <2>4 DEF Queued
<1> QED
  BY <1>2, <1>3

LEMMA EmptiedFacts ==
  ASSUME NEW s \in Service
  PROVE  /\ emptied(s) \in Service /\ Orderly(emptied(s)) /\ Queued(emptied(s)) = {}
         /\ emptied(s).locked = s.locked /\ emptied(s).queue = <<>>
<1>1. <<>> \in Seq(Approval)
  OBVIOUS
<1> DEFINE e == emptied(s)
           q == <<>>
<1>a. e = [s EXCEPT !.queue = q, !.current = NoApproval] /\ q \in Seq(Approval)
  BY <1>1 DEF emptied
<1> HIDE DEF e, q
<1>b. NoApproval \in Approval \cup {NoApproval}
  OBVIOUS
<1>c. /\ e \in Service /\ e.queue = q /\ e.current = NoApproval
      /\ e.locked = s.locked
  BY <1>a, <1>b DEF Service
<1>2. /\ e \in Service /\ e.queue = <<>> /\ e.current = NoApproval
      /\ e.locked = s.locked
  BY <1>c DEF q
<1>4. DOMAIN <<>> = {}
  OBVIOUS
<1>5. Orderly(e) /\ Queued(e) = {}
  BY <1>2, <1>4 DEF Orderly, Queued
<1> QED
  BY <1>2, <1>5 DEF e

LEMMA EnqueueFacts ==
  ASSUME NEW s \in Service, Orderly(s), NEW a \in Approval, a \notin Queued(s)
  PROVE  LET e == enqueue(s, a)
         IN  /\ e \in Service /\ Orderly(e)
             /\ Queued(e) = Queued(s) \cup {a}
<1> DEFINE e == enqueue(s, a)
<1>1. s.queue \in Seq(Approval) /\ s.current \in Approval \cup {NoApproval}
  BY DEF Service
<1>2. Len(s.queue) \in Nat /\ DOMAIN s.queue = 1 .. Len(s.queue)
  BY <1>1
<1>3. \A i \in DOMAIN s.queue : s.queue[i] # a
  BY DEF Queued
<1>4. CASE a.step = "waiting"
  <2> DEFINE q == <<a>> \o s.queue
  <2>0. e = [s EXCEPT !.queue = q, !.current = a] /\ q \in Seq(Approval)
    BY <1>1, <1>4 DEF enqueue
  <2> HIDE DEF e, q
  <2>a. a \in Approval \cup {NoApproval}
    OBVIOUS
  <2>1. e.queue = q /\ e.current = a /\ e \in Service
    BY <2>0, <2>a DEF Service
  <2> USE DEF q
  <2>2. q # <<>> /\ Head(q) = a /\ DOMAIN q = 1 .. Len(s.queue) + 1
    BY <1>1, <1>2
  <2>3. q[1] = a /\ \A i \in 1 .. Len(s.queue) : q[i + 1] = s.queue[i]
    BY <1>1, <1>2
  <2> HIDE DEF q
  <2>4. \A i \in DOMAIN q : i = 1 \/ (i - 1 \in DOMAIN s.queue /\ q[i] = s.queue[i - 1])
    BY <2>2, <2>3, <1>2
  <2>5. \A i, j \in DOMAIN q : q[i] = q[j] => i = j
    BY <2>2, <2>3, <2>4, <1>2, <1>3 DEF Orderly
  <2>6. Orderly(e)
    BY <2>1, <2>2, <2>5 DEF Orderly
  <2>7. {q[i] : i \in DOMAIN q} = {s.queue[i] : i \in DOMAIN s.queue} \cup {a}
    <3>1. \A i \in DOMAIN s.queue : i + 1 \in DOMAIN q /\ q[i + 1] = s.queue[i]
      BY <1>2, <2>2, <2>3
    <3>2. 1 \in DOMAIN q
      BY <1>2, <2>2
    <3> QED
      BY <3>1, <3>2, <2>3, <2>4
  <2> QED
    BY <2>1, <2>6, <2>7 DEF Queued, e
<1>5. CASE a.step # "waiting"
  <2> DEFINE q == Append(s.queue, a)
             n == Len(s.queue)
             c == IF s.current = NoApproval THEN a ELSE s.current
  <2>0. /\ e = [s EXCEPT !.queue = q, !.current = c]
        /\ q \in Seq(Approval) /\ c \in Approval \cup {NoApproval}
    BY <1>1, <1>5 DEF enqueue
  <2> HIDE DEF e, q, c
  <2>1. e.queue = q /\ e \in Service /\ e.current = c
    BY <2>0 DEF Service
  <2> USE DEF q, c
  <2>2. q \in Seq(Approval) /\ q # <<>> /\ DOMAIN q = 1 .. n + 1
    BY <1>1, <1>2
  <2>3. q[n + 1] = a /\ \A i \in 1 .. n : q[i] = s.queue[i]
    BY <1>1, <1>2
  <2>4. Head(q) = q[1]
    BY <2>2
  <2> HIDE DEF q
  <2>5. \A i, j \in DOMAIN q : q[i] = q[j] => i = j
    BY <2>2, <2>3, <1>2, <1>3 DEF Orderly
  <2>6. Head(q) = e.current
    <3>1. CASE s.queue = <<>>
      BY <3>1, <2>1, <2>3, <2>4, OrderlyFacts
    <3>2. CASE s.queue # <<>>
      <4>1. s.current = s.queue[1] /\ s.current \in Approval
        BY <3>2, OrderlyFacts
      <4>2. 1 \in 1 .. n
        BY <3>2, <1>1, <1>2, EmptySeq
      <4> QED
        BY <4>1, <4>2, <2>1, <2>3, <2>4, ApprovalFacts
    <3> QED
      BY <3>1, <3>2
  <2>7. Orderly(e)
    BY <2>1, <2>2, <2>5, <2>6 DEF Orderly
  <2>8. {q[i] : i \in DOMAIN q} = {s.queue[i] : i \in DOMAIN s.queue} \cup {a}
    <3>1. n + 1 \in DOMAIN q /\ \A i \in DOMAIN q : i = n + 1 \/ i \in DOMAIN s.queue
      BY <1>2, <2>2
    <3>2. \A i \in DOMAIN s.queue : i \in DOMAIN q
      BY <1>2, <2>2
    <3> QED
      BY <3>1, <3>2, <2>3, <1>2
  <2> QED
    BY <2>1, <2>7, <2>8 DEF Queued, e
<1> QED
  BY <1>4, <1>5

\* What is removed is a; when the queue has no more than one element it goes
\* whatever a is.
LEMMA DequeueFacts ==
  ASSUME NEW s \in Service, Orderly(s), NEW a
  PROVE  LET d == dequeue(s, a)
         IN  /\ d \in Service /\ Orderly(d) /\ d.locked = s.locked
             /\ Queued(d) \subseteq Queued(s) \ {a}
             /\ a # NoApproval /\ Len(s.queue) > 1 => Queued(d) = Queued(s) \ {a}
             /\ a = s.current => Queued(d) = Queued(s) \ {a}
<1> DEFINE t == deleteApproval(s, a)
<1>1. s.queue \in Seq(Approval) /\ s.current \in Approval \cup {NoApproval}
  BY DEF Service
<1>2. \A i, j \in DOMAIN s.queue : s.queue[i] = s.queue[j] => i = j
  BY DEF Orderly
<1>3. /\ t \in Service /\ t.locked = s.locked
      /\ \A i, j \in DOMAIN t.queue : t.queue[i] = t.queue[j] => i = j
      /\ Queued(t) \subseteq Queued(s) \ {a}
      /\ a # NoApproval /\ Len(s.queue) > 1 => Queued(t) = Queued(s) \ {a}
      /\ a = s.current => Queued(t) = Queued(s) \ {a}
  <2>1. CASE a # NoApproval /\ Len(s.queue) > 1
    <3>1. t = [s EXCEPT !.queue = Without(@, a)]
      BY <2>1 DEF deleteApproval
    <3>2. t.queue = Without(s.queue, a)
      BY <3>1 DEF Service
    <3> DEFINE w == Without(s.queue, a)
    <3> HIDE DEF t, w
    <3>a. /\ w \in Seq(Approval)
          /\ \A i, j \in DOMAIN w : w[i] = w[j] => i = j
          /\ {w[i] : i \in DOMAIN w} = {s.queue[i] : i \in DOMAIN s.queue} \ {a}
      BY <1>1, <1>2, WithoutFacts DEF w
    <3>b. t.queue = w
      BY <3>2 DEF w
    <3>3. t.queue \in Seq(Approval) /\ Queued(t) = Queued(s) \ {a}
          /\ \A i, j \in DOMAIN t.queue : t.queue[i] = t.queue[j] => i = j
      <4>1. Queued(t) = {w[i] : i \in DOMAIN w}
        BY <3>b DEF Queued
      <4>2. Queued(s) = {s.queue[i] : i \in DOMAIN s.queue}
        BY DEF Queued
      <4>3. Queued(t) = Queued(s) \ {a}
        BY <3>a, <4>1, <4>2
      <4>4. t.queue \in Seq(Approval) /\ \A i, j \in DOMAIN t.queue : t.queue[i] = t.queue[j] => i = j
        BY <3>a, <3>b
      <4> QED
        BY <4>3, <4>4
    <3>4. t \in Service /\ t.locked = s.locked
      BY <3>1, <3>2, <3>3 DEF Service
    <3> QED
      BY <3>3, <3>4
  <2>2. CASE ~ (a # NoApproval /\ Len(s.queue) > 1)
    <3>1. t = emptied(s)
      BY <2>2 DEF deleteApproval
    <3>2. t \in Service /\ Queued(t) = {} /\ t.locked = s.locked /\ t.queue = <<>>
      BY <3>1, EmptiedFacts DEF emptied, Service
    <3>3. a = s.current => Queued(s) \subseteq {a}
      <4>1. CASE a = NoApproval /\ a = s.current
        BY <4>1, OrderlyFacts, ApprovalFacts
      <4>2. CASE ~ (Len(s.queue) > 1)
        <5>1. Len(s.queue) <= 1
          BY <4>2, <1>1
        <5> QED
          BY <5>1, OrderlyFacts
      <4> QED
        BY <4>1, <4>2, <2>2
    <3> QED
      BY <3>2, <3>3, <2>2
  <2> QED
    BY <2>1, <2>2
<1> DEFINE d == firstCurrent(t)
<1> HIDE DEF t
<1>4. /\ d.queue = t.queue /\ d.locked = t.locked
      /\ d.current = IF t.queue = <<>> THEN NoApproval ELSE Head(t.queue)
  BY <1>3 DEF firstCurrent, Service
<1>5. t.queue \in Seq(Approval)
  BY <1>3 DEF Service
<1>6. t.queue # <<>> => Head(t.queue) \in Approval
  BY <1>5
<1>7. d \in Service
  BY <1>3, <1>6 DEF firstCurrent, Service
<1>8. Orderly(d) /\ Queued(d) = Queued(t)
  BY <1>3, <1>4 DEF Orderly, Queued
<1> QED
  BY <1>3, <1>4, <1>7, <1>8 DEF dequeue, t

-----------------------------------------------------------------------------
\* The methods of the service.

Promise == [st : {"no", "rejected", "resolved"}, ui : BOOLEAN,
            from : Request \cup {NoRequest}]

ServiceTyped ==
  /\ svc \in Service /\ sheets \subseteq Sheet /\ signing \subseteq Request
  /\ settled \in [Request -> Promise]

LEMMA TypeOfService == TypeOK => ServiceTyped
BY DEF TypeOK, ServiceTyped, Service, Promise

LEMMA PromiseFacts ==
  /\ Unsettled \in Promise /\ Rejected \in Promise /\ Rejected # Unsettled
  /\ \A ui \in BOOLEAN, from \in Request \cup {NoRequest} :
       Resolved(ui, from) \in Promise /\ Resolved(ui, from) # Unsettled
BY DEF Unsettled, Rejected, Resolved, Promise

LEMMA RejectingFacts ==
  ASSUME ServiceTyped, NEW R
  PROVE  /\ rejecting(R) \in [Request -> Promise]
         /\ \A q \in Request : rejecting(R)[q] = IF q \in R THEN Rejected ELSE settled[q]
BY PromiseFacts DEF rejecting, ServiceTyped

LEMMA OpenSheetFacts ==
  ASSUME NEW s \in Service, sheets \subseteq Sheet, openSheet(s)
  PROVE  /\ svc' \in Service /\ sheets' \subseteq Sheet
         /\ svc'.queue = s.queue /\ svc'.current = s.current
<1>1. CASE s.window # NoWindow \/ s.locked
  BY <1>1 DEF openSheet
<1>2. CASE ~ (s.window # NoWindow \/ s.locked)
  <2> DEFINE id == CHOOSE i \in 1 .. MaxSheets : Fresh(i)
             w == [id |-> id, shown |-> NoApproval, ready |-> FALSE]
  <2>1. id \in 1 .. MaxSheets
    BY <1>2 DEF openSheet
  <2>2. /\ svc' = [s EXCEPT !.locked = TRUE, !.window = id]
        /\ sheets' = sheets \cup {w}
    BY <1>2 DEF openSheet
  <2> HIDE DEF id
  <2>3. id \in 0 .. MaxSheets
    BY <2>1
  <2>4. w \in Sheet
    BY <2>1 DEF Sheet
  <2> HIDE DEF w
  <2> QED
    BY <2>2, <2>3, <2>4 DEF Service
<1> QED
  BY <1>1, <1>2

\* A request is put in the queue or refused; a sheet may open for it.
LEMMA RequestFacts ==
  ASSUME ServiceTyped, NEW s \in Service, Orderly(s),
         NEW a \in Approval, a \notin Queued(s), requestApproval(s, a)
  PROVE  /\ svc' \in Service /\ sheets' \subseteq Sheet /\ signing' \subseteq Request
         /\ Orderly(svc')
         /\ \/ Queued(svc') = Queued(s) \cup {a}
            \/ refuses(s, a) /\ Queued(svc') = Queued(s)
<1>1. signing' \subseteq Request
  BY ApprovalFacts DEF requestApproval, ServiceTyped
<1>2. CASE refuses(s, a)
  BY <1>1, <1>2 DEF requestApproval, ServiceTyped
<1>3. CASE ~ refuses(s, a)
  <2> DEFINE e == enqueue(s, a)
  <2>1. e \in Service /\ Orderly(e) /\ Queued(e) = Queued(s) \cup {a}
    BY EnqueueFacts
  <2>2. openSheet(e)
    BY <1>3 DEF requestApproval
  <2> HIDE DEF e
  <2>3. /\ svc' \in Service /\ sheets' \subseteq Sheet
        /\ svc'.queue = e.queue /\ svc'.current = e.current
    BY <2>1, <2>2, OpenSheetFacts DEF ServiceTyped
  <2>4. Orderly(svc') /\ Queued(svc') = Queued(e)
    BY <2>1, <2>3 DEF Orderly, Queued
  <2> QED
    BY <1>1, <2>1, <2>3, <2>4
<1> QED
  BY <1>2, <1>3

\* What the answers of the user do to the service: the approvals in D are
\* settled and leave the queue.
Clears(s, D) ==
  /\ ServiceTyped'
  /\ Orderly(svc') /\ svc'.locked = s.locked
  /\ Queued(svc') = Queued(s) \ D
  /\ \A q \in Request : IF \E a \in D : a.req = q THEN settled'[q] # Unsettled
                        ELSE settled'[q] = settled[q]

LEMMA RejectAllFacts ==
  ASSUME ServiceTyped, NEW s \in Service, NEW ss \in SUBSET Sheet,
         rejectAllApprovals(s, ss)
  PROVE  Clears(s, Queued(s))
<1>1. svc' = emptied(s) /\ sheets' = ss /\ signing' = {}
  BY DEF rejectAllApprovals
<1>2. svc' \in Service /\ Orderly(svc') /\ Queued(svc') = {} /\ svc'.locked = s.locked
  BY <1>1, EmptiedFacts
<1> DEFINE R == {a.req : a \in Queued(s)}
<1>3. settled' = rejecting(R)
  BY DEF rejectAllApprovals
<1>4. \A q \in Request : q \in R <=> \E a \in Queued(s) : a.req = q
  OBVIOUS
<1> HIDE DEF R
<1>5. settled' \in [Request -> Promise]
  BY <1>3, RejectingFacts
<1>6. \A q \in Request : settled'[q] = IF q \in R THEN Rejected ELSE settled[q]
  BY <1>3, RejectingFacts
<1> QED
  BY <1>1, <1>2, <1>4, <1>5, <1>6, PromiseFacts DEF Clears, ServiceTyped

LEMMA RemoveSheetFacts ==
  ASSUME ServiceTyped, NEW s \in Service, Orderly(s), NEW id, removeSheet(s, id)
  PROVE  Clears(s, Queued(s)) \/ Clears(s, {})
<1> DEFINE rest == {w \in sheets : w.id # id}
<1>1. rest \in SUBSET Sheet
  BY DEF ServiceTyped
<1>2. CASE id # NoWindow /\ id = s.window
  <2> DEFINE t == [s EXCEPT !.window = NoWindow]
  <2>1. t \in Service /\ t.queue = s.queue /\ t.locked = s.locked
    BY NotificationAssumption DEF Service, NoWindow
  <2>2. rejectAllApprovals(t, rest)
    BY <1>2 DEF removeSheet
  <2> HIDE DEF t, rest
  <2>3. Clears(t, Queued(t))
    BY <1>1, <2>1, <2>2, RejectAllFacts
  <2>4. Queued(t) = Queued(s)
    BY <2>1 DEF Queued
  <2> QED
    BY <2>1, <2>3, <2>4 DEF Clears
<1>3. CASE ~ (id # NoWindow /\ id = s.window)
  <2>1. svc' = s /\ sheets' = rest /\ signing' = signing /\ settled' = settled
    BY <1>3 DEF removeSheet
  <2> HIDE DEF rest
  <2> QED
    BY <1>1, <2>1 DEF Clears, ServiceTyped
<1> QED
  BY <1>2, <1>3

LEMMA ResolveFacts ==
  ASSUME ServiceTyped, Orderly(svc), NEW ui \in BOOLEAN,
         NEW from \in Request \cup {NoRequest}, svc.current # NoApproval,
         resolveApproval(ui, from)
  PROVE  Clears(svc, {svc.current}) /\ svc.current \in Queued(svc)
<1> DEFINE c == svc.current
<1>1. svc \in Service
  BY DEF ServiceTyped
<1>2. c \in Queued(svc) /\ c \in Approval
  BY <1>1, OrderlyFacts
<1>3. c.req \in Request
  BY <1>2, ApprovalFacts
<1>4. svc' = dequeue(svc, c) /\ settled' = [settled EXCEPT ![c.req] = Resolved(ui, from)]
      /\ sheets' = sheets /\ signing' = signing
  BY DEF resolveApproval
<1>5. /\ svc' \in Service /\ Orderly(svc') /\ svc'.locked = svc.locked
      /\ Queued(svc') = Queued(svc) \ {c}
  BY <1>1, <1>4, DequeueFacts
<1> HIDE DEF c
<1> DEFINE res == Resolved(ui, from)
<1>6. res \in Promise /\ res # Unsettled
  BY PromiseFacts
<1> HIDE DEF res
<1>7. settled' = [settled EXCEPT ![c.req] = res]
  BY <1>4 DEF res
<1>8. settled' \in [Request -> Promise]
  BY <1>7, <1>6 DEF ServiceTyped
<1>9. \A q \in Request : settled'[q] = IF q = c.req THEN res ELSE settled[q]
  BY <1>7 DEF ServiceTyped
<1>10. Clears(svc, {c})
  BY <1>3, <1>4, <1>5, <1>6, <1>8, <1>9 DEF Clears, ServiceTyped
<1> QED
  BY <1>2, <1>10 DEF c

\* Rejecting an approval that has left the queue may cost another its place.
LEMMA RejectNowFacts ==
  ASSUME ServiceTyped, NEW s \in Service, Orderly(s), NEW a \in Approval, rejectNow(s, a),
         sheets' = sheets
  PROVE  /\ ServiceTyped' /\ Orderly(svc') /\ svc'.locked = s.locked
         /\ Queued(svc') \subseteq Queued(s) \ {a}
         /\ \A q \in Request : IF q = a.req THEN settled'[q] # Unsettled
                               ELSE settled'[q] = settled[q]
         /\ a = s.current => Clears(s, {a})
<1>1. /\ svc' \in Service /\ Orderly(svc') /\ svc'.locked = s.locked
      /\ Queued(svc') \subseteq Queued(s) \ {a}
      /\ a = s.current => Queued(svc') = Queued(s) \ {a}
  <2>1. CASE Len(s.queue) > 1
    BY <2>1, DequeueFacts DEF rejectNow
  <2>2. CASE ~ (Len(s.queue) > 1)
    <3>1. svc' = emptied(s)
      BY <2>2 DEF rejectNow
    <3>2. s.queue \in Seq(Approval)
      BY DEF Service
    <3>3. Len(s.queue) <= 1
      BY <2>2, <3>2
    <3>4. Queued(s) \subseteq {s.current}
      BY <3>3, OrderlyFacts
    <3> QED
      BY <3>1, <3>4, EmptiedFacts
  <2> QED
    BY <2>1, <2>2
<1>2. settled' = rejecting({a.req}) /\ sheets' = sheets /\ signing' \subseteq Request
  BY DEF rejectNow, ServiceTyped
<1>3. settled' \in [Request -> Promise]
  BY <1>2, RejectingFacts
<1>4. \A q \in Request : settled'[q] = IF q = a.req THEN Rejected ELSE settled[q]
  BY <1>2, RejectingFacts
<1> QED
  BY <1>1, <1>2, <1>3, <1>4, PromiseFacts DEF Clears, ServiceTyped

-----------------------------------------------------------------------------
\* The two kinds of steps.

\* The flow of r moves on: it waited for nothing, or its promise was settled.
Moves(r) ==
  /\ Asked(r) = NoApproval \/ settled[r] # Unsettled
  /\ \A q \in Request \ {r} : /\ stage'[q] = stage[q] /\ settled'[q] = settled[q]
                             /\ run'[q] = run[q]
  /\ settled'[r] = Unsettled /\ closing' = closing /\ lost \subseteq lost'
  /\ Orderly(svc')
  /\ \/ Asked(r)' # NoApproval /\ Queued(svc') = Queued(svc) \cup {Asked(r)'}
     \/ Queued(svc') = Queued(svc) /\ (Asked(r)' = NoApproval \/ r \in lost')
  /\ stage'[r] = "process" => run'[r] # "failed"

\* The approvals that somebody awaits and somebody can settle.
Held == Queued(svc) \cup ({closing.approval} \ {NoApproval})

\* The promises of the approvals in D are settled; what else leaves the queue
\* waits for its sheet to close, or is lost.
Settles(D) ==
  /\ stage' = stage /\ lost \subseteq lost'
  /\ \A q \in Request : stage[q] = "process" /\ run'[q] = "failed"
                        => run[q] = "failed" \/ q \in lost'
  /\ D \subseteq Held
  /\ \A q \in Request : IF \E a \in D : a.req = q THEN settled'[q] # Unsettled
                        ELSE settled'[q] = settled[q]
  /\ Orderly(svc') /\ Queued(svc') \subseteq Queued(svc) \ D
  /\ closing' = NotClosing \/ closing'.approval \in Held \ (D \cup Queued(svc'))
  /\ \A a \in Held \ D : a \in Queued(svc') \/ a = closing'.approval \/ a.req \in lost'

LEMMA HeldFacts ==
  ASSUME ServiceTyped, NoGhostApproval, ClosingAwaited, NEW a \in Held
  PROVE  /\ a \in Approval /\ a.req \in Request
         /\ Asked(a.req) = a /\ settled[a.req] = Unsettled
<1>1. CASE a \in Queued(svc)
  BY <1>1, QueuedTyped, ApprovalFacts DEF ServiceTyped, NoGhostApproval
<1>2. CASE a = closing.approval /\ a # NoApproval
  BY <1>2, ApprovalFacts DEF ClosingAwaited, NotClosing
<1> QED
  BY <1>1, <1>2 DEF Held

LEMMA CoreMoves ==
  ASSUME ServiceTyped, ServiceTyped', Core, NEW r \in Request, Moves(r)
  PROVE  Core'
<1>1. \A q \in Request \ {r} : Asked(q)' = Asked(q)
  BY DEF Moves, Asked
<1>2. QueueConsistent'
  BY DEF Moves, Orderly, QueueConsistent
<1>3. \A a \in Held : a.req # r
  BY HeldFacts, ApprovalFacts DEF Moves, Core
<1>4. Asked(r)' \in Approval \cup {NoApproval} /\ (Asked(r)' # NoApproval => Asked(r)'.req = r)
  BY ApprovalFacts DEF Asked
<1>5. NoGhostApproval'
  <2> SUFFICES ASSUME NEW a \in Queued(svc')
               PROVE  Asked(a.req)' = a /\ settled'[a.req] = Unsettled
    BY DEF NoGhostApproval
  <2>1. CASE a \in Queued(svc)
    <3>1. a \in Held
      BY <2>1 DEF Held
    <3>2. a.req \in Request \ {r} /\ Asked(a.req) = a /\ settled[a.req] = Unsettled
      BY <3>1, <1>3, HeldFacts DEF Core
    <3> QED
      BY <3>2, <1>1 DEF Moves
  <2>2. CASE a \notin Queued(svc)
    <3>1. a = Asked(r)' /\ a # NoApproval
      BY <2>2 DEF Moves
    <3>2. a.req = r
      BY <3>1, <1>4
    <3> QED
      BY <3>1, <3>2 DEF Moves
  <2> QED
    BY <2>1, <2>2
<1>6. SettledWaits'
  <2> SUFFICES ASSUME NEW q \in Request, settled'[q] # Unsettled
               PROVE  Asked(q)' # NoApproval
    BY DEF SettledWaits
  <2>1. q \in Request \ {r} /\ settled[q] # Unsettled
    BY DEF Moves
  <2> QED
    BY <2>1, <1>1 DEF Core, SettledWaits
<1>7. ClosingAwaited'
  <2>1. CASE closing = NotClosing
    BY <2>1 DEF ClosingAwaited, Moves
  <2>2. CASE closing # NotClosing
    <3>1. PICK c : c = closing.approval
      OBVIOUS
    <3>2. c \in Approval /\ Asked(c.req) = c /\ settled[c.req] = Unsettled
          /\ c \notin Queued(svc)
      BY <2>2, <3>1 DEF Core, ClosingAwaited
    <3>3. c \in Held
      BY <3>1, <3>2, ApprovalFacts DEF Held
    <3>4. c.req \in Request \ {r}
      BY <3>2, <3>3, <1>3, ApprovalFacts
    <3>5. c # Asked(r)'
      BY <3>2, <3>4, <1>4, ApprovalFacts
    <3>6. Asked(c.req)' = c /\ settled'[c.req] = Unsettled /\ c \notin Queued(svc')
      BY <3>2, <3>4, <3>5, <1>1 DEF Moves
    <3>7. closing'.approval = c
      BY <3>1 DEF Moves
    <3> QED
      BY <3>2, <3>6, <3>7 DEF ClosingAwaited
  <2> QED
    BY <2>1, <2>2
<1>8. OnlyKnownLosses'
  <2> SUFFICES ASSUME NEW q \in Request, Stranded(q)'
               PROVE  q \in lost'
    BY DEF OnlyKnownLosses
  <2>1. CASE q = r
    BY <2>1 DEF Stranded, Moves
  <2>2. CASE q # r
    <3>1. q \in Request \ {r} /\ Asked(q)' = Asked(q) /\ settled'[q] = settled[q]
          /\ stage'[q] = stage[q] /\ run'[q] = run[q]
      BY <2>2, <1>1 DEF Moves
    <3>2. Queued(svc) \subseteq Queued(svc') /\ closing' = closing
      BY DEF Moves
    <3>3. Stranded(q)
      BY <3>1, <3>2 DEF Stranded
    <3> QED
      BY <3>3 DEF Core, OnlyKnownLosses, Moves
  <2> QED
    BY <2>1, <2>2
<1> QED
  BY <1>2, <1>5, <1>6, <1>7, <1>8 DEF Core

LEMMA CoreSettles ==
  ASSUME ServiceTyped, ServiceTyped', Core, NEW D, Settles(D)
  PROVE  Core'
<1>1. \A q \in Request : Asked(q)' = Asked(q)
  BY DEF Settles, Asked
<1>2. QueueConsistent'
  BY DEF Settles, Orderly, QueueConsistent
<1>3. \A a \in Held : /\ a \in Approval /\ a.req \in Request
                      /\ Asked(a.req) = a /\ settled[a.req] = Unsettled
  BY HeldFacts DEF Core
<1>4. \A a \in Held \ D : settled'[a.req] = Unsettled
  <2> SUFFICES ASSUME NEW a \in Held \ D PROVE ~ \E b \in D : b.req = a.req
    BY <1>3 DEF Settles
  <2> QED
    BY <1>3 DEF Settles
<1>5. NoGhostApproval'
  <2> SUFFICES ASSUME NEW a \in Queued(svc')
               PROVE  Asked(a.req)' = a /\ settled'[a.req] = Unsettled
    BY DEF NoGhostApproval
  <2>1. a \in Held \ D
    BY DEF Settles, Held
  <2> QED
    BY <2>1, <1>1, <1>3, <1>4
<1>6. SettledWaits'
  <2> SUFFICES ASSUME NEW q \in Request, settled'[q] # Unsettled
               PROVE  Asked(q) # NoApproval
    BY <1>1 DEF SettledWaits
  <2>1. CASE \E a \in D : a.req = q
    BY <2>1, <1>3, ApprovalFacts DEF Settles
  <2>2. CASE ~ \E a \in D : a.req = q
    BY <2>2 DEF Settles, Core, SettledWaits
  <2> QED
    BY <2>1, <2>2
<1>7. ClosingAwaited'
  <2>1. CASE closing' = NotClosing
    BY <2>1 DEF ClosingAwaited
  <2>2. CASE closing' # NotClosing
    <3>1. PICK c : c = closing'.approval
      OBVIOUS
    <3>2. c \in Held \ D /\ c \notin Queued(svc')
      BY <2>2, <3>1 DEF Settles
    <3>3. c \in Approval /\ Asked(c.req)' = c /\ settled'[c.req] = Unsettled
      BY <3>2, <1>1, <1>3, <1>4
    <3> QED
      BY <3>1, <3>2, <3>3 DEF ClosingAwaited
  <2> QED
    BY <2>1, <2>2
<1>8. OnlyKnownLosses'
  <2> SUFFICES ASSUME NEW q \in Request, Stranded(q)'
               PROVE  q \in lost'
    BY DEF OnlyKnownLosses
  <2>1. CASE stage[q] = "process" /\ run'[q] = "failed"
    BY <2>1 DEF Settles, Core, OnlyKnownLosses, Stranded
  <2>2. CASE /\ Asked(q) # NoApproval /\ settled'[q] = Unsettled
             /\ Asked(q) \notin Queued(svc') \cup {closing'.approval}
    <3>1. ~ \E a \in D : a.req = q
      BY <2>2 DEF Settles
    <3>2. settled[q] = Unsettled
      BY <2>2, <3>1 DEF Settles
    <3>3. Asked(q).req = q
      BY <2>2, AskedFacts
    <3>4. CASE Asked(q) \in Held
      BY <2>2, <3>1, <3>3, <3>4 DEF Settles
    <3>5. CASE Asked(q) \notin Held
      BY <2>2, <3>2, <3>5 DEF Held, Stranded, Core, OnlyKnownLosses, Settles
    <3> QED
      BY <3>4, <3>5
  <2> QED
    BY <2>1, <2>2, <1>1 DEF Stranded, Settles
<1> QED
  BY <1>2, <1>5, <1>6, <1>7, <1>8 DEF Core

-----------------------------------------------------------------------------
\* What the flow of r does in one turn.

\* It takes what its promise has become, and minds its own business.
Turn(r) ==
  /\ Asked(r) = NoApproval \/ settled[r] # Unsettled
  /\ settled' = [settled EXCEPT ![r] = Unsettled]
  /\ closing' = closing /\ noting(r)
  /\ \A q \in Request \ {r} : run'[q] = run[q] /\ requested'[q] = requested[q]
  /\ requested[r] => requested'[r]

\* A flow that ends leaves no lock of its own, one that locks is marked.
Unlocks(r) ==
  /\ \A q \in Request \ {r} : requested'[q] = requested[q]
  /\ requested[r] => requested'[r]
  /\ stage'[r] # "idle"
  /\ stage'[r] = "answered" => (svc'.locked => svc.locked /\ ~ requested[r])
  /\ svc'.locked => svc.locked \/ requested'[r]

LEMMA TurnSettles ==
  ASSUME ServiceTyped, NEW r \in Request, Turn(r)
  PROVE  /\ settled' \in [Request -> Promise] /\ settled'[r] = Unsettled
         /\ \A q \in Request \ {r} : settled'[q] = settled[q]
BY PromiseFacts DEF ServiceTyped, Turn

LEMMA AskingMoves ==
  ASSUME ServiceTyped, TypeOK, Core, NEW r \in Request, Turn(r), requested'[r],
         NEW at, NEW a,
         \/ at = "connect" /\ a = Connect(r)
         \/ at = "approve" /\ a = Approve(r)
         \/ at = "waiting" /\ a = Waiting(r),
         NEW s, s = svc \/ s = [svc EXCEPT !.deferFn = r],
         asking(r, at, s, a)
  PROVE  ServiceTyped' /\ Moves(r) /\ Unlocks(r)
<1>1. a \in Approval /\ a.req = r
  BY ApprovalFacts
<1>2. s \in Service /\ s.queue = svc.queue /\ s.current = svc.current
  BY DEF ServiceTyped, Service
<1>3. Orderly(s) /\ Queued(s) = Queued(svc)
  BY <1>2 DEF Core, QueueConsistent, Orderly, Queued
<1>4. a \notin Queued(svc)
  BY <1>1, ApprovalFacts DEF Turn, Core, NoGhostApproval
<1>5. requestApproval(s, a)
  BY DEF asking
<1>6. /\ svc' \in Service /\ sheets' \subseteq Sheet /\ signing' \subseteq Request
      /\ Orderly(svc')
      /\ \/ Queued(svc') = Queued(svc) \cup {a}
         \/ refuses(s, a) /\ Queued(svc') = Queued(svc)
  BY <1>1, <1>2, <1>3, <1>4, <1>5, RequestFacts
<1>7. ServiceTyped'
  BY <1>6, TurnSettles DEF ServiceTyped
<1>8. stage' = [stage EXCEPT ![r] = at]
  BY DEF asking
<1>9. stage'[r] = at /\ \A q \in Request \ {r} : stage'[q] = stage[q]
  BY <1>8 DEF TypeOK
<1>10. Asked(r)' = a
  BY <1>9 DEF Asked
<1>11. refuses(s, a) => refuses(svc, a)
  BY <1>2 DEF refuses
<1>12. refuses(svc, a) => r \in lost'
  BY <1>1, <1>10, ApprovalFacts DEF Turn, noting, asksInVain
<1>13. lost \subseteq lost'
  BY DEF Turn, noting
<1>14. at # "process" /\ a # NoApproval
  BY <1>1, ApprovalFacts
<1>15. \/ Asked(r)' # NoApproval /\ Queued(svc') = Queued(svc) \cup {Asked(r)'}
       \/ Queued(svc') = Queued(svc) /\ r \in lost'
  BY <1>6, <1>10, <1>11, <1>12, <1>14
<1>16. Moves(r)
  <2>1. settled'[r] = Unsettled /\ \A q \in Request \ {r} : settled'[q] = settled[q]
    BY TurnSettles
  <2>2. /\ Asked(r) = NoApproval \/ settled[r] # Unsettled
        /\ closing' = closing /\ \A q \in Request \ {r} : run'[q] = run[q]
    BY DEF Turn
  <2>3. stage'[r] # "process"
    BY <1>9, <1>14
  <2> QED
    BY <2>1, <2>2, <2>3, <1>6, <1>9, <1>13, <1>15 DEF Moves
<1>17. Unlocks(r)
  BY <1>9 DEF Unlocks, Turn
<1> QED
  BY <1>7, <1>16, <1>17

LEMMA AnsweringMoves ==
  ASSUME ServiceTyped, TypeOK, Core, NEW r \in Request, Turn(r),
         NEW st, NEW from, answering(r, st, from)
  PROVE  ServiceTyped' /\ Moves(r) /\ Unlocks(r)
<1>1. /\ svc' = unLock(svc, requested[r]) /\ sheets' = sheets /\ signing' = signing
      /\ stage' = [stage EXCEPT ![r] = "answered"]
  BY DEF answering
<1>2. requested[r] \in BOOLEAN /\ svc \in Service
  BY DEF TypeOK, ServiceTyped
<1>3. /\ svc' \in Service /\ svc'.queue = svc.queue /\ svc'.current = svc.current
      /\ svc'.locked => svc.locked /\ ~ requested[r]
  BY <1>1, <1>2 DEF unLock, Service
<1>4. Orderly(svc') /\ Queued(svc') = Queued(svc)
  BY <1>3 DEF Core, QueueConsistent, Orderly, Queued
<1>5. ServiceTyped'
  BY <1>1, <1>3, TurnSettles DEF ServiceTyped
<1>6. stage'[r] = "answered" /\ \A q \in Request \ {r} : stage'[q] = stage[q]
  BY <1>1 DEF TypeOK
<1>7. Asked(r)' = NoApproval
  BY <1>6 DEF Asked
<1>8. lost \subseteq lost'
  BY DEF Turn, noting
<1>9. Moves(r)
  BY <1>4, <1>6, <1>7, <1>8, TurnSettles DEF Moves, Turn
<1>10. Unlocks(r)
  BY <1>3, <1>6 DEF Unlocks, Turn
<1> QED
  BY <1>5, <1>9, <1>10

\* The flow goes on to an await at which no approval is asked for.
LEMMA PlainMoves ==
  ASSUME ServiceTyped, TypeOK, Core, NEW r \in Request, Turn(r),
         NEW at \in {"auto", "linking", "process"},
         stage' = [stage EXCEPT ![r] = at],
         at = "process" => run'[r] # "failed",
         svc' = svc \/ svc' = [svc EXCEPT !.deferFn = r],
         sheets' = sheets, signing' = signing
  PROVE  ServiceTyped' /\ Moves(r) /\ Unlocks(r)
<1>1. /\ svc' \in Service /\ svc'.queue = svc.queue /\ svc'.current = svc.current
      /\ svc'.locked = svc.locked
  BY DEF ServiceTyped, Service
<1>2. Orderly(svc') /\ Queued(svc') = Queued(svc)
  BY <1>1 DEF Core, QueueConsistent, Orderly, Queued
<1>3. ServiceTyped'
  BY <1>1, TurnSettles DEF ServiceTyped
<1>4. stage'[r] = at /\ \A q \in Request \ {r} : stage'[q] = stage[q]
  BY DEF TypeOK
<1>5. Asked(r)' = NoApproval
  BY <1>4 DEF Asked
<1>6. lost \subseteq lost'
  BY DEF Turn, noting
<1>7. Moves(r)
  BY <1>2, <1>4, <1>5, <1>6, TurnSettles DEF Moves, Turn
<1>8. Unlocks(r)
  BY <1>1, <1>4 DEF Unlocks, Turn
<1> QED
  BY <1>3, <1>7, <1>8

LEMMA ProcessMoves ==
  ASSUME ServiceTyped, TypeOK, Core, NEW r \in Request, Turn(r),
         NEW ui \in BOOLEAN, ui => requested'[r], process(r, ui)
  PROVE  ServiceTyped' /\ Moves(r) /\ Unlocks(r)
<1> DEFINE s == [svc EXCEPT !.deferFn = r]
<1>1. CASE ui
  <2>1. asking(r, "waiting", s, Waiting(r))
    BY <1>1 DEF process
  <2> HIDE DEF s
  <2>2. s = [svc EXCEPT !.deferFn = r]
    BY DEF s
  <2> QED
    BY <1>1, <2>1, <2>2, AskingMoves
<1>2. CASE ~ ui
  <2>1. /\ stage' = [stage EXCEPT ![r] = "process"]
        /\ svc' = [svc EXCEPT !.deferFn = r] /\ sheets' = sheets /\ signing' = signing
        /\ run' = [run EXCEPT ![r] = "running"]
    BY <1>2 DEF process
  <2>2. run'[r] # "failed"
    BY <2>1 DEF TypeOK
  <2> QED
    BY <2>1, <2>2, PlainMoves
<1> QED
  BY <1>1, <1>2

LEMMA CheckApprovalMoves ==
  ASSUME ServiceTyped, TypeOK, Core, NEW r \in Request, Turn(r), checkApproval(r)
  PROVE  ServiceTyped' /\ Moves(r) /\ Unlocks(r)
<1>1. CASE NeedsApproval(r)
  <2>1. asking(r, "approve", svc, Approve(r)) /\ requested' = [requested EXCEPT ![r] = TRUE]
    BY <1>1 DEF checkApproval
  <2>2. requested'[r]
    BY <2>1 DEF TypeOK
  <2> QED
    BY <2>1, <2>2, AskingMoves
<1>2. CASE ~ NeedsApproval(r)
  <2>1. process(r, FALSE)
    BY <1>2 DEF checkApproval
  <2> QED
    BY <2>1, ProcessMoves
<1> QED
  BY <1>1, <1>2

\* The run of r changes as the controller of r does.
LEMMA RunOfTurn ==
  ASSUME TypeOK, NEW r \in Request
  PROVE  /\ \A ui : process(r, ui) => \A q \in Request \ {r} : run'[q] = run[q]
         /\ checkApproval(r) => \A q \in Request \ {r} :
              run'[q] = run[q] /\ requested'[q] = requested[q]
         /\ checkApproval(r) => (requested[r] => requested'[r])
<1>1. ASSUME NEW ui, process(r, ui)
      PROVE  \A q \in Request \ {r} : run'[q] = run[q]
  BY <1>1 DEF process, TypeOK
<1>2. ASSUME checkApproval(r)
      PROVE  /\ \A q \in Request \ {r} : run'[q] = run[q] /\ requested'[q] = requested[q]
             /\ requested[r] => requested'[r]
  <2>1. CASE NeedsApproval(r)
    BY <1>2, <2>1 DEF checkApproval, TypeOK
  <2>2. CASE ~ NeedsApproval(r)
    BY <1>1, <1>2, <2>2 DEF checkApproval
  <2> QED
    BY <2>1, <2>2
<1> QED
  BY <1>1, <1>2

LEMMA CalmTurn ==
  ASSUME ServiceTyped, NEW r \in Request, Calm, UNCHANGED settled
  PROVE  settled' = [settled EXCEPT ![r] = Unsettled]
<1>1. settled[r] = Unsettled
  BY DEF Calm
<1> QED
  BY <1>1 DEF ServiceTyped

\* One action of a flow: it moves, or a controller ends beside it.
FlowKept(r) ==
  /\ ServiceTyped' /\ Core'
  /\ \/ Unlocks(r) /\ \A q \in Request \ {r} : stage'[q] = stage[q]
     \/ stage' = stage /\ requested' = requested /\ svc' = svc

LEMMA MovesKept ==
  ASSUME ServiceTyped, Core, NEW r \in Request, ServiceTyped', Moves(r), Unlocks(r)
  PROVE  FlowKept(r)
BY CoreMoves DEF FlowKept, Moves

LEMMA ArriveKept ==
  ASSUME Inv, NEW r \in Request, Arrive(r), noting(r)
  PROVE  FlowKept(r)
<1>0. ServiceTyped /\ TypeOK /\ Core
  BY TypeOfService DEF Inv
<1>1. Asked(r) = NoApproval
  BY DEF Arrive, Asked
<1>2. settled' = [settled EXCEPT ![r] = Unsettled] /\ closing' = closing
  BY <1>0, CalmTurn DEF Arrive
<1>3. CASE NeedsConnection(r) /\ OriginOf[r] \notin permitted
  <2>1. checkConnect(r) /\ run' = run
    BY <1>3 DEF Arrive
  <2>2. CASE OriginOf[r] \in connecting
    <3>1. answering(r, "refused", NoRequest) /\ requested' = requested
      BY <2>1, <2>2 DEF checkConnect
    <3>2. Turn(r)
      BY <1>1, <1>2, <2>1, <3>1 DEF Turn
    <3> QED
      BY <1>0, <3>1, <3>2, AnsweringMoves, MovesKept
  <2>3. CASE OriginOf[r] \notin connecting
    <3>1. /\ stage' = [stage EXCEPT ![r] = "auto"]
          /\ requested' = [requested EXCEPT ![r] = TRUE]
          /\ svc' = svc /\ sheets' = sheets /\ signing' = signing
      BY <2>1, <2>3 DEF checkConnect
    <3>2. Turn(r)
      BY <1>0, <1>1, <1>2, <2>1, <3>1 DEF Turn, TypeOK
    <3>3. ServiceTyped' /\ Moves(r) /\ Unlocks(r)
      BY <1>0, <3>1, <3>2, PlainMoves
    <3> QED
      BY <1>0, <3>3, MovesKept
  <2> QED
    BY <2>2, <2>3
<1>4. CASE ~ (NeedsConnection(r) /\ OriginOf[r] \notin permitted)
  <2>1. checkApproval(r)
    BY <1>4 DEF Arrive
  <2>2. Turn(r)
    BY <1>0, <1>1, <1>2, <2>1, RunOfTurn DEF Turn
  <2> QED
    BY <1>0, <2>1, <2>2, CheckApprovalMoves, MovesKept
<1> QED
  BY <1>3, <1>4

LEMMA AutoConnectKept ==
  ASSUME Inv, NEW r \in Request, AutoConnect(r), noting(r)
  PROVE  FlowKept(r)
<1>0. ServiceTyped /\ TypeOK /\ Core
  BY TypeOfService DEF Inv
<1>1. Asked(r) = NoApproval /\ requested' = requested /\ run' = run /\ requested[r]
  BY DEF AutoConnect, Asked, Inv, Marked
<1>2. settled' = [settled EXCEPT ![r] = Unsettled] /\ closing' = closing
  BY <1>0, CalmTurn DEF AutoConnect
<1>3. Turn(r)
  BY <1>1, <1>2 DEF Turn
<1>4. CASE asking(r, "connect", svc, Connect(r))
  <2>1. ServiceTyped' /\ Moves(r) /\ Unlocks(r)
    BY <1>0, <1>1, <1>3, <1>4, AskingMoves
  <2> QED
    BY <1>0, <2>1, MovesKept
<1>5. CASE /\ stage' = [stage EXCEPT ![r] = "linking"]
           /\ UNCHANGED <<svc, sheets, signing>>
  <2>1. ServiceTyped' /\ Moves(r) /\ Unlocks(r)
    BY <1>0, <1>3, <1>5, PlainMoves
  <2> QED
    BY <1>0, <2>1, MovesKept
<1>6. CASE answering(r, "failed", NoRequest)
  BY <1>0, <1>3, <1>6, AnsweringMoves, MovesKept
<1> QED
  BY <1>4, <1>5, <1>6 DEF AutoConnect, throwing

LEMMA LinkedKept ==
  ASSUME Inv, NEW r \in Request, Linked(r), noting(r)
  PROVE  FlowKept(r)
<1>0. ServiceTyped /\ TypeOK /\ Core
  BY TypeOfService DEF Inv
<1>1. Asked(r) = NoApproval
  BY DEF Linked, Asked
<1>2. settled' = [settled EXCEPT ![r] = Unsettled] /\ closing' = closing
  BY <1>0, CalmTurn DEF Linked
<1>3. CASE checkApproval(r)
  <2>1. Turn(r)
    BY <1>0, <1>1, <1>2, <1>3, RunOfTurn DEF Turn
  <2> QED
    BY <1>0, <1>3, <2>1, CheckApprovalMoves, MovesKept
<1>4. CASE answering(r, "failed", NoRequest) /\ UNCHANGED <<requested, run>>
  <2>1. Turn(r)
    BY <1>1, <1>2, <1>4 DEF Turn
  <2> QED
    BY <1>0, <1>4, <2>1, AnsweringMoves, MovesKept
<1> QED
  BY <1>3, <1>4 DEF Linked, throwing

LEMMA ContinueKept ==
  ASSUME Inv, NEW r \in Request, Continue(r), noting(r)
  PROVE  FlowKept(r)
<1>0. ServiceTyped /\ TypeOK /\ Core
  BY TypeOfService DEF Inv
<1>1. settled[r] # Unsettled /\ settled' = [settled EXCEPT ![r] = Unsettled]
      /\ closing' = closing /\ requested' = requested
  BY DEF Continue
<1>2. stage[r] \in {"connect", "approve", "waiting"}
  BY <1>0, <1>1, AskedFacts DEF Core, SettledWaits
<1>3. requested[r]
  BY <1>2 DEF Inv, Marked
<1>4. settled[r].ui \in BOOLEAN
  BY <1>0 DEF ServiceTyped, Promise
<1>5. ASSUME \A q \in Request \ {r} : run'[q] = run[q]
      PROVE  Turn(r)
  BY <1>1, <1>5 DEF Turn
<1>6. CASE settled[r].st = "rejected"
  <2>1. answering(r, "rejected", NoRequest) /\ run' = run
    BY <1>6 DEF Continue
  <2> QED
    BY <1>0, <1>5, <2>1, AnsweringMoves, MovesKept
<1>7. CASE settled[r].st # "rejected"
  <2>0. goOn(r)
    BY <1>7 DEF Continue
  <2>1. CASE stage[r] = "connect"
    <3>1. /\ stage' = [stage EXCEPT ![r] = "linking"]
          /\ svc' = svc /\ sheets' = sheets /\ signing' = signing /\ run' = run
      BY <2>0, <2>1 DEF goOn
    <3>2. ServiceTyped' /\ Moves(r) /\ Unlocks(r)
      BY <1>0, <1>5, <3>1, PlainMoves
    <3> QED
      BY <1>0, <3>2, MovesKept
  <2>2. CASE stage[r] = "approve"
    <3>1. process(r, settled[r].ui)
      BY <2>0, <2>2 DEF goOn
    <3>2. Turn(r)
      BY <1>0, <1>5, <3>1, RunOfTurn
    <3> QED
      BY <1>0, <1>1, <1>3, <1>4, <3>1, <3>2, ProcessMoves, MovesKept
  <2>3. CASE stage[r] = "waiting" /\ settled[r].ui
    <3>1. asking(r, "waiting", svc, Waiting(r)) /\ run' = run
      BY <2>0, <2>3 DEF goOn
    <3> QED
      BY <1>0, <1>1, <1>3, <1>5, <3>1, AskingMoves, MovesKept
  <2>4. CASE stage[r] = "waiting" /\ ~ settled[r].ui
    <3>1. answering(r, "done", settled[r].from) /\ run' = run
      BY <2>0, <2>4 DEF goOn
    <3> QED
      BY <1>0, <1>5, <3>1, AnsweringMoves, MovesKept
  <2> QED
    BY <1>2, <1>4, <2>1, <2>2, <2>3, <2>4
<1> QED
  BY <1>6, <1>7

\* A step that leaves the service, the flows and the promises alone.
LEMMA StandsSettles ==
  ASSUME ServiceTyped, Core, UNCHANGED <<svc, stage, settled, closing>>,
         lost \subseteq lost',
         \A q \in Request : stage[q] = "process" /\ run'[q] = "failed"
                           => run[q] = "failed" \/ q \in lost'
  PROVE  Settles({})
<1>1. Orderly(svc') /\ Queued(svc') = Queued(svc)
  BY DEF Core, QueueConsistent, Orderly
<1>2. closing' = NotClosing \/ closing'.approval \in Held \ ({} \cup Queued(svc'))
  BY <1>1, ApprovalFacts DEF Core, ClosingAwaited, Held
<1>3. \A a \in Held \ {} : a \in Queued(svc') \/ a = closing'.approval \/ a.req \in lost'
  BY <1>1 DEF Held
<1> QED
  BY <1>1, <1>2, <1>3 DEF Settles

LEMMA ReturnsKept ==
  ASSUME Inv, NEW r \in Request, ControllerReturns(r), noting(r)
  PROVE  FlowKept(r)
<1>0. ServiceTyped /\ TypeOK /\ Core
  BY TypeOfService DEF Inv
<1>1. /\ run' = [run EXCEPT ![r] = "done"] /\ requested' = requested
      /\ settled' = settled /\ closing' = closing
  BY DEF ControllerReturns
<1>2. CASE stage[r] = "process"
  <2>1. answering(r, "done", r)
    BY <1>2 DEF ControllerReturns
  <2>2. Asked(r) = NoApproval /\ settled' = [settled EXCEPT ![r] = Unsettled]
    BY <1>0, <1>2, CalmTurn DEF Asked, ControllerReturns
  <2>3. Turn(r)
    BY <1>0, <1>1, <2>2 DEF Turn, TypeOK
  <2> QED
    BY <1>0, <2>1, <2>3, AnsweringMoves, MovesKept
<1>3. CASE stage[r] # "process"
  <2>1. /\ signing' = signing \ {r} /\ UNCHANGED <<stage, svc, sheets>>
    BY <1>3 DEF ControllerReturns
  <2>2. ServiceTyped'
    BY <1>0, <1>1, <2>1 DEF ServiceTyped
  <2>3. \A q \in Request : run'[q] = "failed" => run[q] = "failed"
    BY <1>0, <1>1 DEF TypeOK
  <2>4. Settles({})
    BY <1>0, <1>1, <2>1, <2>3, StandsSettles DEF noting
  <2> QED
    BY <1>0, <1>1, <2>1, <2>2, <2>4, CoreSettles DEF FlowKept
<1> QED
  BY <1>2, <1>3

LEMMA ThrowsKept ==
  ASSUME Inv, NEW r \in Request, ControllerThrows(r), noting(r)
  PROVE  FlowKept(r)
<1>0. ServiceTyped /\ TypeOK /\ Core
  BY TypeOfService DEF Inv
<1>1. /\ run' = [run EXCEPT ![r] = "failed"] /\ run[r] = "running"
      /\ UNCHANGED <<svc, sheets, signing, settled, closing, stage, requested>>
  BY DEF ControllerThrows, notificationVars
<1>2. ServiceTyped'
  BY <1>0, <1>1 DEF ServiceTyped
<1>3. lost \subseteq lost'
  BY DEF noting
<1>4. stage[r] = "process" => r \in lost'
  BY <1>0, <1>1 DEF noting, failsUnheard, TypeOK
<1>5. \A q \in Request : stage[q] = "process" /\ run'[q] = "failed"
                        => run[q] = "failed" \/ q \in lost'
  BY <1>0, <1>1, <1>4 DEF TypeOK
<1>6. Settles({})
  BY <1>0, <1>1, <1>3, <1>5, StandsSettles
<1> QED
  BY <1>0, <1>1, <1>2, <1>6, CoreSettles DEF FlowKept

LEMMA FlowIsKept ==
  ASSUME Inv, NEW r \in Request, Flow(r), noting(r)
  PROVE  FlowKept(r)
BY ArriveKept, AutoConnectKept, LinkedKept, ContinueKept, ReturnsKept, ThrowsKept DEF Flow

-----------------------------------------------------------------------------
\* What the user and the sheets do.

UserKept == ServiceTyped' /\ Core' /\ (svc'.locked => svc.locked)

LEMMA ClearsKept ==
  ASSUME ServiceTyped, Core, NEW D \in SUBSET Queued(svc), Clears(svc, D),
         UNCHANGED <<stage, run, closing>>, lost' = lost
  PROVE  UserKept
<1>1. closing.approval \notin Queued(svc)
  BY QueuedTyped, ApprovalFacts DEF ServiceTyped, Core, ClosingAwaited, NotClosing
<1>2. closing' = NotClosing \/ closing'.approval \in Held \ (D \cup Queued(svc'))
  BY <1>1, ApprovalFacts DEF Clears, Held, Core, ClosingAwaited
<1>3. Settles(D)
  BY <1>2 DEF Settles, Clears, Held
<1> QED
  BY <1>3, CoreSettles DEF UserKept, Clears

LEMMA StandsKept ==
  ASSUME ServiceTyped, Core, UNCHANGED <<svc, stage, settled, closing, signing>>,
         sheets' \subseteq Sheet, lost' = lost,
         \A q \in Request : run'[q] = "failed" => run[q] = "failed"
  PROVE  UserKept
<1>1. ServiceTyped'
  BY DEF ServiceTyped
<1>2. Settles({})
  BY StandsSettles
<1> QED
  BY <1>1, <1>2, CoreSettles DEF UserKept

LEMMA RemoveKept ==
  ASSUME ServiceTyped, Core, NEW id, removeSheet(svc, id),
         UNCHANGED <<stage, run, closing>>, lost' = lost
  PROVE  UserKept
<1>1. svc \in Service /\ Orderly(svc)
  BY DEF ServiceTyped, Core, QueueConsistent, Orderly
<1>2. Clears(svc, Queued(svc)) \/ Clears(svc, {})
  BY <1>1, RemoveSheetFacts
<1>3. Queued(svc) \in SUBSET Queued(svc) /\ {} \in SUBSET Queued(svc)
  OBVIOUS
<1> QED
  BY <1>2, <1>3, ClearsKept

LEMMA ResolveKept ==
  ASSUME ServiceTyped, Core, NEW ui \in BOOLEAN, NEW from \in Request \cup {NoRequest},
         svc.current # NoApproval, resolveApproval(ui, from),
         UNCHANGED <<stage, run>>, lost' = lost
  PROVE  UserKept
<1>1. Orderly(svc) /\ closing' = closing
  BY DEF Core, QueueConsistent, Orderly, resolveApproval
<1>2. Clears(svc, {svc.current}) /\ {svc.current} \in SUBSET Queued(svc)
  BY <1>1, ResolveFacts
<1> QED
  BY <1>1, <1>2, ClearsKept

\* A popup that was mounted when nothing was current resolves nothing.
LEMMA ResolveNobodyKept ==
  ASSUME ServiceTyped, Core, NEW ui, NEW from, svc.current = NoApproval,
         resolveApproval(ui, from), UNCHANGED <<stage, run>>, lost' = lost
  PROVE  UserKept
<1>1. svc \in Service /\ Orderly(svc)
  BY DEF ServiceTyped, Core, QueueConsistent, Orderly
<1>2. svc.queue = <<>> /\ Queued(svc) = {}
  BY <1>1, OrderlyFacts, ApprovalFacts
<1>3. /\ svc' = dequeue(svc, NoApproval) /\ UNCHANGED <<sheets, signing, closing>>
      /\ settled' = [settled EXCEPT ![NoRequest] = Resolved(ui, from)]
  BY DEF resolveApproval, NoApproval
<1>4. settled' = settled
  BY <1>3, NotificationAssumption DEF ServiceTyped
<1>5. svc' \in Service /\ Orderly(svc') /\ Queued(svc') = {} /\ svc'.locked = svc.locked
  BY <1>1, <1>2, <1>3, DequeueFacts
<1>6. Clears(svc, {})
  BY <1>2, <1>3, <1>4, <1>5 DEF Clears, ServiceTyped
<1> QED
  BY <1>3, <1>6, ClearsKept

\* The last approval waits until its sheet has closed; one of several is
\* rejected at once.
LEMMA RejectKept ==
  ASSUME ServiceTyped, Core, closing = NotClosing, NEW win,
         svc.current # NoApproval, rejectApproval(win),
         UNCHANGED <<stage, run>>, lost' = lost
  PROVE  UserKept
<1> DEFINE c == svc.current
<1>1. svc \in Service /\ Orderly(svc)
  BY DEF ServiceTyped, Core, QueueConsistent, Orderly
<1>2. c \in Queued(svc) /\ c \in Approval
  BY <1>1, OrderlyFacts
<1>3. CASE Len(svc.queue) <= 1 /\ svc.window # NoWindow
  <2> DEFINE e == emptied(svc)
  <2>1. closing' = [approval |-> c, win |-> win] /\ removeSheet(e, svc.window)
    BY <1>3 DEF rejectApproval
  <2>2. e \in Service /\ Orderly(e) /\ Queued(e) = {} /\ e.locked = svc.locked
    BY <1>1, EmptiedFacts
  <2> HIDE DEF e
  <2>3. Clears(e, {})
    BY <2>1, <2>2, RemoveSheetFacts
  <2>4. Queued(svc) = {c}
    BY <1>1, <1>2, <1>3, OrderlyFacts
  <2>5. Held = {c}
    BY <2>4 DEF Held, NotClosing
  <2>6. closing'.approval = c /\ Queued(svc') = {}
    BY <2>1, <2>2, <2>3 DEF Clears
  <2>7. Settles({})
    BY <2>3, <2>5, <2>6 DEF Settles, Clears
  <2> QED
    BY <2>2, <2>3, <2>7, CoreSettles DEF UserKept, Clears
<1>4. CASE ~ (Len(svc.queue) <= 1 /\ svc.window # NoWindow)
  <2>1. rejectNow(svc, c) /\ sheets' = sheets /\ closing' = closing
    BY <1>4 DEF rejectApproval
  <2>2. Clears(svc, {c}) /\ {c} \in SUBSET Queued(svc)
    BY <1>1, <1>2, <2>1, RejectNowFacts
  <2> QED
    BY <2>1, <2>2, ClearsKept
<1> QED
  BY <1>3, <1>4

LEMMA RejectingKept ==
  ASSUME ServiceTyped, Core, closing = NotClosing, rejecting_current,
         UNCHANGED <<stage, run>>, lost' = lost
  PROVE  UserKept
<1>1. CASE svc.current # NoApproval
  BY <1>1, RejectKept DEF rejecting_current
<1>2. CASE svc.current = NoApproval
  BY <1>2, StandsKept DEF rejecting_current, notificationVars, ServiceTyped
<1> QED
  BY <1>1, <1>2

\* 300 ms later: what was queued meanwhile and goes with the window is lost.
LEMMA ClosedKept ==
  ASSUME ServiceTyped, Core, SheetClosed
  PROVE  UserKept
<1> DEFINE s == [svc EXCEPT !.window = NoWindow]
           c == closing.approval
           L == {a.req : a \in Queued(svc)} \ {a.req : a \in Queued(svc)'}
<1>1. /\ closing # NotClosing /\ rejectNow(s, c) /\ closing' = NotClosing
      /\ sheets' = sheets /\ lost' = lost \cup L /\ UNCHANGED <<stage, run>>
  BY DEF SheetClosed, Closed, flowVars
<1>2. c \in Approval /\ c \notin Queued(svc) /\ c \in Held
  BY <1>1, ApprovalFacts DEF Core, ClosingAwaited, Held
<1>3. s \in Service /\ s.queue = svc.queue /\ s.current = svc.current /\ s.locked = svc.locked
  BY NotificationAssumption DEF ServiceTyped, Service, NoWindow
<1>4. Orderly(s) /\ Queued(s) = Queued(svc)
  BY <1>3 DEF Core, QueueConsistent, Orderly, Queued
<1> HIDE DEF s
<1>5. /\ ServiceTyped' /\ Orderly(svc') /\ svc'.locked = s.locked
      /\ Queued(svc') \subseteq Queued(s) \ {c}
      /\ \A q \in Request : IF q = c.req THEN settled'[q] # Unsettled
                            ELSE settled'[q] = settled[q]
  BY <1>1, <1>2, <1>3, <1>4, RejectNowFacts
<1>6. \A a \in Held \ {c} : a \in Queued(svc') \/ a.req \in lost'
  <2> SUFFICES ASSUME NEW a \in Queued(svc), a \notin Queued(svc')
               PROVE  a.req \in L
    BY <1>1 DEF Held
  <2>1. \A b \in Queued(svc') : b \in Queued(svc)
    BY <1>4, <1>5
  <2>2. \A b \in Queued(svc) : Asked(b.req) = b
    BY DEF Core, NoGhostApproval
  <2>3. \A b \in Queued(svc') : b.req # a.req
    BY <2>1, <2>2
  <2> QED
    BY <2>3
<1>7. Settles({c})
  BY <1>1, <1>2, <1>4, <1>5, <1>6 DEF Settles
<1> QED
  BY <1>3, <1>5, <1>7, CoreSettles DEF UserKept

LEMMA UserIsKept ==
  ASSUME Inv, User, lost' = lost
  PROVE  UserKept
<1>0. ServiceTyped /\ TypeOK /\ Core
  BY TypeOfService DEF Inv
<1>1. ASSUME NEW w \in sheets, Confirm(w) PROVE UserKept
  <2> DEFINE ui == w.shown.step = "approve" /\ Signs(w.shown.req)
  <2>1. ui \in BOOLEAN /\ NoRequest \in Request \cup {NoRequest}
    OBVIOUS
  <2>2. stage' = stage /\ run' = run
    BY <1>1 DEF Confirm, flowVars
  <2>3. CASE svc.current # NoApproval
    <3>1. resolveApproval(ui, NoRequest)
      BY <1>1, <2>3 DEF Confirm
    <3> HIDE DEF ui
    <3> QED
      BY <1>0, <2>1, <2>2, <2>3, <3>1, ResolveKept
  <2>4. CASE svc.current = NoApproval
    BY <1>0, <1>1, <2>2, <2>4, StandsKept DEF Confirm, notificationVars, ServiceTyped
  <2> QED
    BY <2>3, <2>4
<1>2. ASSUME NEW w \in sheets, Reject(w) PROVE UserKept
  BY <1>0, <1>2, RejectingKept DEF Reject, UserMayAct, flowVars
<1>3. ASSUME NEW w \in sheets, CancelAll(w) PROVE UserKept
  <2>1. svc \in Service /\ sheets \in SUBSET Sheet
    BY <1>0 DEF ServiceTyped
  <2>2. Clears(svc, Queued(svc)) /\ Queued(svc) \in SUBSET Queued(svc)
    BY <1>0, <1>3, <2>1, RejectAllFacts DEF CancelAll
  <2> QED
    BY <1>0, <1>3, <2>2, ClearsKept DEF CancelAll, flowVars
<1>4. ASSUME NEW w \in sheets, Dismiss(w) PROVE UserKept
  BY <1>0, <1>4, RemoveKept DEF Dismiss, flowVars
<1>5. CASE ClosePopup
  <2>1. closing = NotClosing /\ stage' = stage /\ run' = run
    BY <1>5 DEF ClosePopup, UserMayAct, flowVars
  <2>2. CASE rejecting_current
    BY <1>0, <2>1, <2>2, RejectingKept
  <2>3. CASE UNCHANGED notificationVars
    BY <1>0, <2>1, <2>3, StandsKept DEF notificationVars, ServiceTyped
  <2> QED
    BY <1>5, <2>2, <2>3 DEF ClosePopup
<1>6. CASE Retry
  <2>1. UNCHANGED <<svc, stage, settled, closing, signing, sheets>>
    BY <1>6 DEF Retry, notificationVars
  <2>2. \A q \in Request : run'[q] = "failed" => run[q] = "failed"
    BY <1>0, <1>6 DEF Retry, amounted, TypeOK
  <2> QED
    BY <1>0, <2>1, <2>2, StandsKept DEF ServiceTyped
<1> QED
  BY <1>1, <1>2, <1>3, <1>4, <1>5, <1>6 DEF User

LEMMA InterfaceIsKept ==
  ASSUME Inv, Interface, lost' = lost
  PROVE  UserKept
<1>0. ServiceTyped /\ TypeOK /\ Core
  BY TypeOfService DEF Inv
<1>1. svc.current \in Approval \cup {NoApproval}
  BY <1>0 DEF ServiceTyped, Service
<1>2. ASSUME NEW w \in sheets, Mount(w) PROVE UserKept
  <2>1. sheets' \subseteq Sheet
    BY <1>0, <1>1, <1>2 DEF Mount, ServiceTyped, Sheet
  <2> QED
    BY <1>0, <1>2, <2>1, StandsKept DEF Mount, flowVars
<1>3. CASE Activate
  <2>1. UNCHANGED <<stage, run, closing>>
    BY <1>3 DEF Activate, flowVars
  <2>2. CASE svc.current = NoApproval
    BY <1>0, <1>3, <2>1, <2>2, RemoveKept DEF Activate
  <2>3. CASE svc.current # NoApproval
    <3>1. /\ sheets' = {IF w.ready THEN [w EXCEPT !.shown = svc.current] ELSE w : w \in sheets}
          /\ UNCHANGED <<svc, signing, settled>>
      BY <1>3, <2>3 DEF Activate
    <3>2. sheets' \subseteq Sheet
      BY <1>0, <1>1, <3>1 DEF ServiceTyped, Sheet
    <3> QED
      BY <1>0, <2>1, <3>1, <3>2, StandsKept
  <2> QED
    BY <2>2, <2>3
<1>4. CASE ShowPopup
  BY <1>0, <1>4, StandsKept DEF ShowPopup, notificationVars, flowVars, ServiceTyped
<1>5. CASE PopupMounts
  <2>1. \A q \in Request : run'[q] = "failed" => run[q] = "failed"
    BY <1>5 DEF PopupMounts, amounted
  <2> QED
    BY <1>0, <1>5, <2>1, StandsKept DEF PopupMounts, notificationVars, ServiceTyped
<1>6. CASE WaitingDone
  <2>1. stage' = stage /\ run' = run
    BY <1>6 DEF WaitingDone, flowVars
  <2>2. CASE popup.for = svc.current
    <3>1. resolveApproval(FALSE, popup.result) /\ popup.result \in Request \cup {NoRequest}
      BY <1>0, <1>6, <2>2 DEF WaitingDone, TypeOK
    <3>2. CASE svc.current # NoApproval
      BY <1>0, <2>1, <3>1, <3>2, ResolveKept
    <3>3. CASE svc.current = NoApproval
      BY <1>0, <2>1, <3>1, <3>3, ResolveNobodyKept
    <3> QED
      BY <3>2, <3>3
  <2>3. CASE popup.for # svc.current
    BY <1>0, <1>6, <2>1, <2>3, StandsKept DEF WaitingDone, notificationVars, ServiceTyped
  <2> QED
    BY <2>2, <2>3
<1> QED
  BY <1>2, <1>3, <1>4, <1>5, <1>6 DEF Interface

-----------------------------------------------------------------------------
\* The marks, the lock and the origins that are being connected.

LEMMA MarkedFlow ==
  ASSUME Inv, NEW r \in Request, Flow(r)
  PROVE  Marked'
<1>0. TypeOK /\ Marked
  BY DEF Inv
<1>1. CASE Arrive(r)
  BY <1>0, <1>1 DEF Arrive, checkConnect, checkApproval, process, asking, answering, TypeOK, Marked
<1>2. CASE AutoConnect(r)
  BY <1>0, <1>2 DEF AutoConnect, asking, throwing, answering, TypeOK, Marked
<1>3. CASE Linked(r)
  BY <1>0, <1>3 DEF Linked, checkApproval, process, asking, throwing, answering, TypeOK, Marked
<1>4. CASE Continue(r)
  <2>1. stage[r] \in {"connect", "approve", "waiting"} /\ requested' = requested
    BY <1>4, AskedFacts DEF Continue, Inv, Core, SettledWaits
  <2>2. requested[r]
    BY <1>0, <2>1 DEF Marked
  <2>3. \E at : stage' = [stage EXCEPT ![r] = at]
    BY <1>4, <2>1 DEF Continue, goOn, process, asking, answering
  <2> QED
    BY <1>0, <2>1, <2>2, <2>3 DEF TypeOK, Marked
<1>5. CASE ControllerReturns(r) \/ ControllerThrows(r)
  BY <1>0, <1>5 DEF ControllerReturns, ControllerThrows, answering, TypeOK, Marked
<1> QED
  BY <1>1, <1>2, <1>3, <1>4, <1>5 DEF Flow

LEMMA LockFlow ==
  ASSUME Inv, NEW r \in Request, FlowKept(r)
  PROVE  LockOwned'
<1>1. CASE stage' = stage /\ requested' = requested /\ svc' = svc
  BY <1>1 DEF Inv, LockOwned, UnderWay
<1>2. CASE Unlocks(r) /\ \A q \in Request \ {r} : stage'[q] = stage[q]
  <2> SUFFICES ASSUME svc'.locked
               PROVE  \E q \in Request : UnderWay(q)' /\ requested'[q]
    BY DEF LockOwned
  <2>1. CASE stage'[r] # "answered" /\ requested'[r]
    BY <1>2, <2>1 DEF Unlocks, UnderWay
  <2>2. CASE stage'[r] = "answered" \/ ~ requested'[r]
    <3>1. svc.locked
      BY <1>2, <2>2 DEF Unlocks
    <3>2. PICK q \in Request : UnderWay(q) /\ requested[q]
      BY <3>1 DEF Inv, LockOwned
    <3>3. q # r
      BY <1>2, <2>2, <3>2 DEF Unlocks
    <3> QED
      BY <1>2, <3>2, <3>3 DEF Unlocks, UnderWay
  <2> QED
    BY <2>1, <2>2
<1> QED
  BY <1>1, <1>2 DEF FlowKept

\* A flow answers once, and then it is over.
OverStays == \A q \in Request : stage[q] = "answered" => stage'[q] = "answered"

LEMMA FlowAnswers ==
  ASSUME Inv, NEW r \in Request, Flow(r)
  PROVE  \/ UNCHANGED answer /\ OverStays
         \/ stage[r] # "answered" /\ \E st, from : answering(r, st, from)
<1> DEFINE goal == \/ UNCHANGED answer /\ OverStays
                   \/ stage[r] # "answered" /\ \E st, from : answering(r, st, from)
<1>0. TypeOK
  BY DEF Inv
<1>a. ASSUME stage[r] # "answered", NEW at, stage' = [stage EXCEPT ![r] = at],
             UNCHANGED answer \/ \E st, from : answering(r, st, from)
      PROVE  goal
  BY <1>0, <1>a DEF TypeOK, OverStays
<1>1. CASE Arrive(r)
  <2>1. stage[r] = "idle" /\ (checkConnect(r) \/ checkApproval(r))
    BY <1>1 DEF Arrive
  <2>2. UNCHANGED answer \/ \E st, from : answering(r, st, from)
    BY <2>1 DEF checkConnect, checkApproval, process, asking
  <2>3. \E at : stage' = [stage EXCEPT ![r] = at]
    BY <2>1 DEF checkConnect, checkApproval, process, asking, answering
  <2> QED
    BY <1>a, <2>1, <2>2, <2>3
<1>2. CASE AutoConnect(r)
  <2>1. stage[r] = "auto"
    BY <1>2 DEF AutoConnect
  <2>2. UNCHANGED answer \/ \E st, from : answering(r, st, from)
    BY <1>2 DEF AutoConnect, asking, throwing
  <2>3. \E at : stage' = [stage EXCEPT ![r] = at]
    BY <1>2 DEF AutoConnect, asking, throwing, answering
  <2> QED
    BY <1>a, <2>1, <2>2, <2>3
<1>3. CASE Linked(r)
  <2>1. stage[r] = "linking" /\ (checkApproval(r) \/ answering(r, "failed", NoRequest))
    BY <1>3 DEF Linked, throwing
  <2>2. UNCHANGED answer \/ \E st, from : answering(r, st, from)
    BY <2>1 DEF checkApproval, process, asking
  <2>3. \E at : stage' = [stage EXCEPT ![r] = at]
    BY <2>1 DEF checkApproval, process, asking, answering
  <2> QED
    BY <1>a, <2>1, <2>2, <2>3
<1>4. CASE Continue(r)
  <2>1. stage[r] \in {"connect", "approve", "waiting"}
    BY <1>4, AskedFacts DEF Continue, Inv, Core, SettledWaits
  <2>2. UNCHANGED answer \/ \E st, from : answering(r, st, from)
    BY <1>4, <2>1 DEF Continue, goOn, process, asking
  <2>3. \E at : stage' = [stage EXCEPT ![r] = at]
    BY <1>4, <2>1 DEF Continue, goOn, process, asking, answering
  <2> QED
    BY <1>a, <2>1, <2>2, <2>3
<1>5. CASE ControllerReturns(r) \/ ControllerThrows(r)
  <2>1. \/ UNCHANGED <<stage, answer>>
        \/ stage[r] = "process" /\ answering(r, "done", r)
    BY <1>5 DEF ControllerReturns, ControllerThrows
  <2> QED
    BY <2>1 DEF OverStays
<1> QED
  BY <1>1, <1>2, <1>3, <1>4, <1>5 DEF Flow

LEMMA FailedFlow ==
  ASSUME Inv, NEW r \in Request, Flow(r)
  PROVE  /\ FailedEnded'
         /\ \A q \in Request : answer[q].st = "failed" => answer'[q].st = "failed"
<1>0. TypeOK /\ FailedEnded
  BY DEF Inv
<1>1. CASE UNCHANGED answer /\ OverStays
  BY <1>0, <1>1 DEF FailedEnded, OverStays
<1>2. CASE stage[r] # "answered" /\ \E st, from : answering(r, st, from)
  <2>1. \E a : /\ stage' = [stage EXCEPT ![r] = "answered"]
              /\ answer' = [answer EXCEPT ![r] = a]
    BY <1>2 DEF answering
  <2>2. \A q \in Request \ {r} : stage'[q] = stage[q] /\ answer'[q] = answer[q]
    BY <1>0, <2>1 DEF TypeOK
  <2>3. stage'[r] = "answered" /\ answer[r].st # "failed"
    BY <1>0, <1>2, <2>1 DEF TypeOK, FailedEnded
  <2> QED
    BY <1>0, <2>2, <2>3 DEF FailedEnded
<1> QED
  BY <1>1, <1>2, FlowAnswers

\* The flows that connect a dapp, and whether a request of a dapp has failed.
Connects == {q \in Request : Connecting(q)}
Failed(o) == \E q \in Request : OriginOf[q] = o /\ answer[q].st = "failed"

LEMMA ConnectFlow ==
  ASSUME Inv, NEW r \in Request, Flow(r)
  PROVE  ConnectHeld'
<1>0. TypeOK /\ ConnectHeld
  BY DEF Inv
<1>f. \A o : Failed(o) => Failed(o)'
  BY FailedFlow DEF Failed
<1>h. /\ \A o \in connecting : \E q \in Connects : OriginOf[q] = o
      /\ \A p, q \in Connects : OriginOf[p] = OriginOf[q] =>
           (p # q \/ OriginOf[q] \notin connecting => Failed(OriginOf[q]))
  BY <1>0 DEF ConnectHeld, Connects, Failed
<1>g. ASSUME \A o \in connecting' : \E q \in Connects' : OriginOf[q] = o,
             \A p, q \in Connects' : OriginOf[p] = OriginOf[q] =>
               (p # q \/ OriginOf[q] \notin connecting' => Failed(OriginOf[q])')
      PROVE  ConnectHeld'
  BY <1>g DEF ConnectHeld, Connects, Failed
<1>1. ASSUME UNCHANGED connecting, Connects' = Connects PROVE ConnectHeld'
  BY <1>f, <1>g, <1>h, <1>1
<1>2. ASSUME r \in Connects, Connects' = Connects \ {r},
             connecting' = connecting \ {OriginOf[r]}
      PROVE  ConnectHeld'
  <2>1. \A o \in connecting' : \E q \in Connects' : OriginOf[q] = o
    BY <1>h, <1>2
  <2>2. \A p, q \in Connects' : OriginOf[p] = OriginOf[q] =>
          (p # q \/ OriginOf[q] \notin connecting' => Failed(OriginOf[q])')
    BY <1>f, <1>h, <1>2
  <2> QED
    BY <1>g, <2>1, <2>2
<1>3. ASSUME NEW at, stage' = [stage EXCEPT ![r] = at]
      PROVE  /\ stage'[r] = at
             /\ Connects' = IF at \in {"auto", "connect"} THEN Connects \cup {r}
                            ELSE Connects \ {r}
  BY <1>0, <1>3 DEF TypeOK, Connects, Connecting
<1>4. CASE Arrive(r)
  <2>1. r \notin Connects
    BY <1>4 DEF Arrive, Connects, Connecting
  <2>2. CASE UNCHANGED connecting /\ \E at : /\ stage' = [stage EXCEPT ![r] = at]
                                          /\ at \notin {"auto", "connect"}
    BY <1>1, <1>3, <2>1, <2>2
  <2>3. CASE /\ stage' = [stage EXCEPT ![r] = "auto"]
             /\ OriginOf[r] \notin connecting
             /\ connecting' = connecting \cup {OriginOf[r]}
    <3>1. Connects' = Connects \cup {r}
      BY <1>3, <2>3
    <3>2. \A o \in connecting' : \E q \in Connects' : OriginOf[q] = o
      BY <1>h, <2>3, <3>1
    <3>3. \A p, q \in Connects' : OriginOf[p] = OriginOf[q] =>
            (p # q \/ OriginOf[q] \notin connecting' => Failed(OriginOf[q])')
      BY <1>f, <1>h, <2>3, <3>1
    <3> QED
      BY <1>g, <3>2, <3>3
  <2>4. CASE NeedsConnection(r) /\ OriginOf[r] \notin permitted
    BY <1>4, <2>2, <2>3, <2>4 DEF Arrive, checkConnect, answering
  <2>5. CASE ~ (NeedsConnection(r) /\ OriginOf[r] \notin permitted)
    BY <1>4, <2>2, <2>5 DEF Arrive, checkApproval, process, asking
  <2> QED
    BY <2>4, <2>5
<1>5. CASE AutoConnect(r)
  <2>1. r \in Connects
    BY <1>5 DEF AutoConnect, Connects, Connecting
  <2>2. CASE /\ connecting' = connecting \ {OriginOf[r]}
             /\ \E at \in {"linking", "answered"} : stage' = [stage EXCEPT ![r] = at]
    <3>1. Connects' = Connects \ {r}
      BY <1>3, <2>2
    <3> QED
      BY <1>2, <2>1, <2>2, <3>1
  <2>3. CASE stage' = [stage EXCEPT ![r] = "connect"] /\ UNCHANGED connecting
    BY <1>1, <1>3, <2>1, <2>3
  <2> QED
    BY <1>5, <2>2, <2>3 DEF AutoConnect, asking, throwing, answering
<1>6. CASE Linked(r)
  <2>1. r \notin Connects
    BY <1>6 DEF Linked, Connects, Connecting
  <2>2. CASE checkApproval(r) /\ UNCHANGED connecting
    <3>1. \E at \in {"approve", "process"} : stage' = [stage EXCEPT ![r] = at]
      BY <2>2 DEF checkApproval, process, asking
    <3>2. Connects' = Connects \ {r}
      BY <1>3, <3>1
    <3>3. Connects \ {r} = Connects
      BY <2>1
    <3> QED
      BY <1>1, <2>2, <3>2, <3>3
  <2>3. CASE throwing(r)
    <3>1. /\ stage' = [stage EXCEPT ![r] = "answered"]
          /\ answer' = [answer EXCEPT ![r] = [st |-> "failed", from |-> NoRequest]]
          /\ connecting' = connecting \ {OriginOf[r]}
      BY <2>3 DEF throwing, answering
    <3>2. Connects' = Connects
      <4>0. \E at \in {"answered"} : stage' = [stage EXCEPT ![r] = at]
        BY <3>1
      <4>1. Connects' = Connects \ {r}
        BY <1>3, <4>0
      <4>2. Connects \ {r} = Connects
        BY <2>1
      <4> QED
        BY <4>1, <4>2
    <3>3. Failed(OriginOf[r])'
      BY <1>0, <3>1 DEF Failed, TypeOK
    <3>4. \A o \in connecting' : \E q \in Connects' : OriginOf[q] = o
      BY <1>h, <3>1, <3>2
    <3>5. \A p, q \in Connects' : OriginOf[p] = OriginOf[q] =>
            (p # q \/ OriginOf[q] \notin connecting' => Failed(OriginOf[q])')
      BY <1>f, <1>h, <3>1, <3>2, <3>3
    <3> QED
      BY <1>g, <3>4, <3>5
  <2> QED
    BY <1>6, <2>2, <2>3 DEF Linked
<1>7. CASE Continue(r)
  <2>1. stage[r] \in {"connect", "approve", "waiting"}
    BY <1>7, AskedFacts DEF Continue, Inv, Core, SettledWaits
  <2>2. \E at : stage' = [stage EXCEPT ![r] = at] /\ at \notin {"auto", "connect"}
    BY <1>7, <2>1 DEF Continue, goOn, process, asking, answering
  <2>3. Connects' = Connects \ {r}
    BY <1>3, <2>2
  <2>4. CASE stage[r] = "connect"
    BY <1>2, <1>7, <2>3, <2>4 DEF Continue, released, Connects, Connecting
  <2>5. CASE stage[r] # "connect"
    BY <1>1, <1>7, <2>1, <2>3, <2>5 DEF Continue, released, Connects, Connecting
  <2> QED
    BY <2>4, <2>5
<1>8. CASE ControllerReturns(r)
  <2>1. CASE stage[r] = "process"
    BY <1>1, <1>3, <1>8, <2>1 DEF ControllerReturns, answering, Connects, Connecting
  <2>2. CASE stage[r] # "process"
    BY <1>1, <1>8, <2>2 DEF ControllerReturns, Connects, Connecting
  <2> QED
    BY <2>1, <2>2
<1>9. CASE ControllerThrows(r)
  BY <1>1, <1>9 DEF ControllerThrows, Connects, Connecting
<1> QED
  BY <1>4, <1>5, <1>6, <1>7, <1>8, <1>9 DEF Flow

-----------------------------------------------------------------------------
\* The types.

Message == [st : {"none", "mounting", "waiting", "deaf", "failed", "retrying", "finished"},
            for : Approval \cup {NoApproval}, result : Request \cup {NoRequest}]
Todo == [do : {"none", "activate", "popup"}, win : 0 .. MaxSheets]
Stage == {"idle", "auto", "connect", "linking", "approve", "process", "waiting",
          "answered"}
Answer == [st : {"none", "refused", "rejected", "failed", "done"},
           from : Request \cup {NoRequest}]
Run == {"none", "amount", "running", "done", "failed"}

\* The types of what the flows write, and of what the user and the sheets do.
FlowTyped ==
  /\ stage \in [Request -> Stage] /\ requested \in [Request -> BOOLEAN]
  /\ answer \in [Request -> Answer] /\ run \in [Request -> Run]
  /\ connecting \subseteq Origin /\ permitted \subseteq Origin
  /\ fails \in 0 .. MaxFails /\ lost \subseteq Request

ScreenTyped ==
  /\ popup \in Message /\ task \in Todo /\ consent \subseteq Request
  /\ popup.st = "finished" => popup.result # NoRequest

ClosingTyped == closing \in [approval : Approval \cup {NoApproval}, win : 0 .. MaxSheets]

LEMMA TypeParts ==
  TypeOK <=> ServiceTyped /\ FlowTyped /\ ScreenTyped /\ ClosingTyped
BY DEF TypeOK, ServiceTyped, Service, Promise, FlowTyped, ScreenTyped, ClosingTyped,
       Message, Todo, Stage, Answer, Run

LEMMA TypePartsNext ==
  ServiceTyped' /\ FlowTyped' /\ ScreenTyped' /\ ClosingTyped' => TypeOK'
BY DEF TypeOK, ServiceTyped, Service, Promise, FlowTyped, ScreenTyped, ClosingTyped,
       Message, Todo, Stage, Answer, Run

\* What a flow tells its requester, and where it then is.
LEMMA AnsweringTyped ==
  ASSUME FlowTyped, NEW r \in Request, NEW st \in {"refused", "rejected", "failed", "done"},
         NEW from \in Request \cup {NoRequest}, answering(r, st, from)
  PROVE  stage' \in [Request -> Stage] /\ answer' \in [Request -> Answer]
<1> DEFINE a == [st |-> st, from |-> from]
<1>1. a \in Answer /\ "answered" \in Stage
  BY DEF Answer, Stage
<1>2. /\ stage' = [stage EXCEPT ![r] = "answered"] /\ answer' = [answer EXCEPT ![r] = a]
  BY DEF answering
<1> HIDE DEF a
<1> QED
  BY <1>1, <1>2 DEF FlowTyped

LEMMA ProcessTyped ==
  ASSUME FlowTyped, NEW r \in Request, NEW ui, process(r, ui)
  PROVE  /\ stage' \in [Request -> Stage] /\ answer' \in [Request -> Answer]
         /\ run' \in [Request -> Run]
<1>1. stage' = [stage EXCEPT ![r] = "waiting"] \/ stage' = [stage EXCEPT ![r] = "process"]
  BY DEF process, asking
<1>2. answer' = answer
  BY DEF process, asking
<1>3. run' = [run EXCEPT ![r] = "amount"] \/ run' = [run EXCEPT ![r] = "running"]
  BY DEF process
<1> QED
  BY <1>1, <1>2, <1>3 DEF FlowTyped, Stage, Run

LEMMA CheckApprovalTyped ==
  ASSUME FlowTyped, NEW r \in Request, checkApproval(r)
  PROVE  /\ stage' \in [Request -> Stage] /\ answer' \in [Request -> Answer]
         /\ run' \in [Request -> Run] /\ requested' \in [Request -> BOOLEAN]
<1>1. CASE NeedsApproval(r)
  BY <1>1 DEF checkApproval, asking, FlowTyped, Stage
<1>2. CASE ~ NeedsApproval(r)
  BY <1>2, ProcessTyped DEF checkApproval, FlowTyped
<1> QED
  BY <1>1, <1>2

LEMMA TypeFlow ==
  ASSUME Inv, NEW r \in Request, Flow(r), noting(r), ServiceTyped'
  PROVE  TypeOK'
<1>0. ServiceTyped /\ FlowTyped /\ ScreenTyped /\ ClosingTyped
  BY TypeParts DEF Inv
<1>1. lost' \subseteq Request /\ task' = task /\ consent' = consent
  BY <1>0 DEF noting, FlowTyped
<1>2. closing' = closing
  BY DEF Flow, Arrive, AutoConnect, Linked, Continue, ControllerReturns,
         ControllerThrows, notificationVars
<1>3. OriginOf[r] \in Origin
  BY FlowAssumption
<1>4. connecting' \subseteq Origin /\ permitted' \subseteq Origin
  BY <1>0, <1>3 DEF Flow, Arrive, checkConnect, AutoConnect, Linked, throwing, Continue,
     released, ControllerReturns, ControllerThrows, FlowTyped
<1>5. fails' \in 0 .. MaxFails
  BY <1>0, FlowAssumption DEF Flow, Arrive, AutoConnect, Linked, throwing, Continue,
     ControllerReturns, ControllerThrows, FlowTyped
<1>6. popup' \in Message /\ (popup'.st = "finished" => popup'.result # NoRequest)
  <2>1. r # NoRequest
    BY NotificationAssumption
  <2>2. \/ popup' = popup \/ popup' = [popup EXCEPT !.st = "failed"]
        \/ popup' = [popup EXCEPT !.st = "finished", !.result = r]
    BY DEF Flow, Arrive, AutoConnect, Linked, Continue, ControllerReturns, ControllerThrows
  <2> QED
    BY <1>0, <2>1, <2>2 DEF ScreenTyped, Message
<1>7. /\ stage' \in [Request -> Stage] /\ answer' \in [Request -> Answer]
      /\ run' \in [Request -> Run] /\ requested' \in [Request -> BOOLEAN]
  <2>0. settled[r].from \in Request \cup {NoRequest} /\ r \in Request \cup {NoRequest}
        /\ NoRequest \in Request \cup {NoRequest}
    BY <1>0 DEF ServiceTyped, Promise
  <2>1. CASE Arrive(r)
    <3>1. CASE NeedsConnection(r) /\ OriginOf[r] \notin permitted
      <4>1. checkConnect(r) /\ run' = run
        BY <2>1, <3>1 DEF Arrive
      <4>2. CASE OriginOf[r] \in connecting
        BY <1>0, <2>0, <4>1, <4>2, AnsweringTyped DEF checkConnect, FlowTyped
      <4>3. CASE OriginOf[r] \notin connecting
        BY <1>0, <4>1, <4>3 DEF checkConnect, FlowTyped, Stage
      <4> QED
        BY <4>2, <4>3
    <3>2. CASE ~ (NeedsConnection(r) /\ OriginOf[r] \notin permitted)
      BY <1>0, <2>1, <3>2, CheckApprovalTyped DEF Arrive
    <3> QED
      BY <3>1, <3>2
  <2>2. CASE AutoConnect(r)
    <3>1. CASE answering(r, "failed", NoRequest)
      BY <1>0, <2>0, <2>2, <3>1, AnsweringTyped DEF AutoConnect, FlowTyped
    <3>2. CASE ~ answering(r, "failed", NoRequest)
      BY <1>0, <2>2, <3>2 DEF AutoConnect, asking, throwing, FlowTyped, Stage
    <3> QED
      BY <3>1, <3>2
  <2>3. CASE Linked(r)
    <3>1. CASE checkApproval(r)
      BY <1>0, <3>1, CheckApprovalTyped
    <3>2. CASE answering(r, "failed", NoRequest) /\ UNCHANGED <<requested, run>>
      BY <1>0, <2>0, <3>2, AnsweringTyped DEF FlowTyped
    <3> QED
      BY <2>3, <3>1, <3>2 DEF Linked, throwing
  <2>4. CASE Continue(r)
    <3>0. stage[r] \in {"connect", "approve", "waiting"} /\ requested' = requested
      BY <2>4, AskedFacts DEF Continue, Inv, Core, SettledWaits
    <3>1. CASE settled[r].st = "rejected"
      BY <1>0, <2>0, <2>4, <3>0, <3>1, AnsweringTyped DEF Continue, FlowTyped
    <3>2. CASE settled[r].st # "rejected" /\ stage[r] = "connect"
      BY <1>0, <2>4, <3>0, <3>2 DEF Continue, goOn, FlowTyped, Stage
    <3>3. CASE settled[r].st # "rejected" /\ stage[r] = "approve"
      <4>1. process(r, settled[r].ui)
        BY <2>4, <3>3 DEF Continue, goOn
      <4> QED
        BY <1>0, <3>0, <4>1, ProcessTyped DEF FlowTyped
    <3>4. CASE settled[r].st # "rejected" /\ stage[r] = "waiting"
      <4>1. run' = run /\ (asking(r, "waiting", svc, Waiting(r))
                           \/ answering(r, "done", settled[r].from))
        BY <2>4, <3>4 DEF Continue, goOn
      <4>2. CASE asking(r, "waiting", svc, Waiting(r))
        BY <1>0, <3>0, <4>1, <4>2 DEF asking, FlowTyped, Stage
      <4>3. CASE answering(r, "done", settled[r].from)
        BY <1>0, <2>0, <3>0, <4>1, <4>3, AnsweringTyped DEF FlowTyped
      <4> QED
        BY <4>1, <4>2, <4>3
    <3> QED
      BY <3>0, <3>1, <3>2, <3>3, <3>4
  <2>5. CASE ControllerReturns(r)
    <3>1. run' \in [Request -> Run] /\ requested' \in [Request -> BOOLEAN]
      BY <1>0, <2>5 DEF ControllerReturns, FlowTyped, Run
    <3>2. CASE stage[r] = "process"
      BY <1>0, <2>0, <2>5, <3>1, <3>2, AnsweringTyped DEF ControllerReturns
    <3>3. CASE stage[r] # "process"
      BY <1>0, <2>5, <3>1, <3>3 DEF ControllerReturns, FlowTyped
    <3> QED
      BY <3>2, <3>3
  <2>6. CASE ControllerThrows(r)
    BY <1>0, <2>6 DEF ControllerThrows, FlowTyped, Run
  <2> QED
    BY <2>1, <2>2, <2>3, <2>4, <2>5, <2>6 DEF Flow
<1>8. FlowTyped'
  BY <1>1, <1>4, <1>5, <1>7 DEF FlowTyped
<1>9. ScreenTyped' /\ ClosingTyped'
  BY <1>0, <1>1, <1>2, <1>6 DEF ScreenTyped, ClosingTyped
<1> QED
  BY <1>8, <1>9, TypePartsNext

LEMMA TypeTask ==
  ASSUME TypeOK
  PROVE  /\ NoTask \in Todo /\ ShowingPopup \in Todo
         /\ \A win \in 0 .. MaxSheets : Activating(win) \in Todo
         /\ Activating(svc.window) \in Todo /\ Activating(closing.win) \in Todo
         /\ NoPopup \in Message /\ NoPopup.st = "none"
         /\ NotClosing \in [approval : Approval \cup {NoApproval}, win : 0 .. MaxSheets]
         /\ [approval |-> svc.current, win |-> svc.window]
              \in [approval : Approval \cup {NoApproval}, win : 0 .. MaxSheets]
<1> USE NotificationAssumption
<1>1. 0 \in 0 .. MaxSheets
  OBVIOUS
<1>2. /\ svc.window \in 0 .. MaxSheets /\ svc.current \in Approval \cup {NoApproval}
      /\ closing.win \in 0 .. MaxSheets
  BY DEF TypeOK
<1>3. /\ NoTask \in Todo /\ ShowingPopup \in Todo
      /\ \A win \in 0 .. MaxSheets : Activating(win) \in Todo
  BY <1>1 DEF NoTask, ShowingPopup, Activating, Todo, NoWindow
<1>4. NoPopup \in Message /\ NoPopup.st = "none"
  BY DEF NoPopup, Message
<1> QED
  BY <1>1, <1>2, <1>3, <1>4 DEF NotClosing, NoWindow

LEMMA TypeRejecting ==
  ASSUME TypeOK, rejecting_current
  PROVE  ClosingTyped' /\ task' \in Todo
<1>1. ClosingTyped
  BY TypeParts
<1>2. CASE svc.current # NoApproval
  <2>1. rejectApproval(svc.window)
    BY <1>2 DEF rejecting_current
  <2>2. closing' = [approval |-> svc.current, win |-> svc.window] \/ closing' = closing
    BY <2>1 DEF rejectApproval
  <2>3. ClosingTyped'
    BY <1>1, <2>2, TypeTask DEF ClosingTyped
  <2>4. task' \in Todo
    BY <1>2, TypeTask DEF rejecting_current
  <2> QED
    BY <2>3, <2>4
<1>3. CASE svc.current = NoApproval
  BY <1>1, <1>3, TypeTask DEF rejecting_current, notificationVars, ClosingTyped
<1> QED
  BY <1>2, <1>3

LEMMA TypeUser ==
  ASSUME Inv, User \/ Interface, lost' = lost, ServiceTyped'
  PROVE  TypeOK'
<1>0. TypeOK /\ ServiceTyped /\ FlowTyped /\ ScreenTyped /\ ClosingTyped
  BY TypeParts DEF Inv
<1>1. ASSUME UNCHANGED flowVars PROVE FlowTyped'
  BY <1>0, <1>1 DEF flowVars, FlowTyped
<1>2. ASSUME NEW w \in sheets, Confirm(w) PROVE TypeOK'
  <2>1. closing' = closing
    BY <1>2 DEF Confirm, resolveApproval, notificationVars
  <2>2. task' \in Todo
    BY <1>0, <1>2, TypeTask DEF Confirm
  <2>3. w.shown \in Approval \cup {NoApproval} /\ w.shown # NoApproval
    BY <1>0, <1>2 DEF ServiceTyped, Sheet, Confirm
  <2>4. consent' \subseteq Request
    BY <1>0, <1>2, <2>3, ApprovalFacts DEF Confirm, ScreenTyped
  <2>5. ScreenTyped' /\ ClosingTyped' /\ FlowTyped'
    BY <1>0, <1>1, <1>2, <2>1, <2>2, <2>4 DEF Confirm, ScreenTyped, ClosingTyped
  <2> QED
    BY <2>5, TypePartsNext
<1>3. ASSUME NEW w \in sheets, Reject(w) PROVE TypeOK'
  <2>1. ClosingTyped' /\ task' \in Todo
    BY <1>0, <1>3, TypeRejecting DEF Reject
  <2>2. ScreenTyped' /\ FlowTyped'
    BY <1>0, <1>1, <1>3, <2>1 DEF Reject, ScreenTyped
  <2> QED
    BY <2>1, <2>2, TypePartsNext
<1>4. ASSUME NEW w \in sheets, CancelAll(w) PROVE TypeOK'
  <2>1. task' \in Todo
    BY <1>0, <1>4, TypeTask DEF CancelAll
  <2>2. ScreenTyped' /\ ClosingTyped' /\ FlowTyped'
    BY <1>0, <1>1, <1>4, <2>1 DEF CancelAll, ScreenTyped, ClosingTyped
  <2> QED
    BY <2>2, TypePartsNext
<1>5. ASSUME NEW w \in sheets, Dismiss(w) PROVE TypeOK'
  <2>1. ScreenTyped' /\ ClosingTyped' /\ FlowTyped'
    BY <1>0, <1>1, <1>5 DEF Dismiss, ScreenTyped, ClosingTyped
  <2> QED
    BY <2>1, TypePartsNext
<1>6. CASE ClosePopup
  <2>1. ClosingTyped' /\ task' \in Todo
    <3>1. CASE rejecting_current
      BY <1>0, <3>1, TypeRejecting
    <3>2. CASE UNCHANGED <<notificationVars, task>>
      BY <1>0, <3>2 DEF ClosingTyped, ScreenTyped, notificationVars
    <3> QED
      BY <1>6, <3>1, <3>2 DEF ClosePopup
  <2>2. popup' = NoPopup /\ consent' = consent
    BY <1>6 DEF ClosePopup
  <2>3. ScreenTyped' /\ FlowTyped'
    BY <1>0, <1>1, <1>6, <2>1, <2>2, TypeTask DEF ClosePopup, ScreenTyped
  <2> QED
    BY <2>1, <2>3, TypePartsNext
<1>7. CASE Retry
  <2>1. run' \in [Request -> Run]
    BY <1>0, <1>7 DEF Retry, amounted, FlowTyped, Run
  <2>2. FlowTyped'
    BY <1>0, <1>7, <2>1 DEF Retry, FlowTyped
  <2>3. popup' \in Message /\ popup'.st = "retrying"
    BY <1>0, <1>7 DEF Retry, ScreenTyped, Message
  <2>4. ScreenTyped' /\ ClosingTyped'
    BY <1>0, <1>7, <2>3 DEF Retry, ScreenTyped, ClosingTyped, notificationVars
  <2> QED
    BY <2>2, <2>4, TypePartsNext
<1>8. ASSUME NEW w \in sheets, Mount(w) PROVE TypeOK'
  <2>1. ScreenTyped' /\ ClosingTyped' /\ FlowTyped'
    BY <1>0, <1>1, <1>8 DEF Mount, ScreenTyped, ClosingTyped
  <2> QED
    BY <2>1, TypePartsNext
<1>9. CASE Activate
  <2>1. ScreenTyped' /\ ClosingTyped' /\ FlowTyped'
    BY <1>0, <1>1, <1>9, TypeTask DEF Activate, ScreenTyped, ClosingTyped
  <2> QED
    BY <2>1, TypePartsNext
<1>10. CASE ShowPopup
  <2>1. popup' \in Message /\ popup'.st = "mounting"
    BY <1>0, <1>10, TypeTask DEF ShowPopup, Message
  <2>2. ScreenTyped' /\ ClosingTyped' /\ FlowTyped'
    BY <1>0, <1>1, <1>10, <2>1, TypeTask DEF ShowPopup, ScreenTyped, ClosingTyped, notificationVars
  <2> QED
    BY <2>2, TypePartsNext
<1>11. CASE PopupMounts
  <2>1. svc.current \in Approval \cup {NoApproval}
    BY <1>0 DEF TypeOK
  <2>2. popup' \in Message /\ popup'.st \in {"waiting", "deaf"}
    BY <1>0, <1>11, <2>1 DEF PopupMounts, ScreenTyped, Message
  <2>3. run' \in [Request -> Run]
    BY <1>0, <1>11 DEF PopupMounts, amounted, FlowTyped, Run
  <2>4. ScreenTyped' /\ ClosingTyped' /\ FlowTyped'
    BY <1>0, <1>11, <2>2, <2>3 DEF PopupMounts, ScreenTyped, ClosingTyped, FlowTyped, notificationVars
  <2> QED
    BY <2>4, TypePartsNext
<1>12. CASE WaitingDone
  <2>1. closing' = closing
    BY <1>12 DEF WaitingDone, resolveApproval, notificationVars
  <2>2. ScreenTyped' /\ ClosingTyped' /\ FlowTyped'
    BY <1>0, <1>1, <1>12, <2>1, TypeTask DEF WaitingDone, ScreenTyped, ClosingTyped
  <2> QED
    BY <2>2, TypePartsNext
<1> QED
  BY <1>2, <1>3, <1>4, <1>5, <1>6, <1>7, <1>8, <1>9, <1>10, <1>11, <1>12 DEF User, Interface

LEMMA TypeClosed ==
  ASSUME Inv, SheetClosed, ServiceTyped'
  PROVE  TypeOK'
<1>0. TypeOK /\ ServiceTyped /\ FlowTyped /\ ScreenTyped /\ ClosingTyped
  BY TypeParts DEF Inv
<1>1. {a.req : a \in Queued(svc)} \subseteq Request
  BY <1>0, QueuedTyped, ApprovalFacts DEF ServiceTyped
<1>2. lost' \subseteq Request
  BY <1>0, <1>1 DEF SheetClosed, FlowTyped
<1>3. FlowTyped'
  BY <1>0, <1>2 DEF SheetClosed, flowVars, FlowTyped
<1>4. ScreenTyped'
  BY <1>0, TypeTask DEF SheetClosed, ScreenTyped
<1>5. ClosingTyped'
  BY <1>0, TypeTask DEF SheetClosed, Closed, ClosingTyped
<1> QED
  BY <1>3, <1>4, <1>5, TypePartsNext

-----------------------------------------------------------------------------
\* The invariant, and the theorems.

LEMMA InitInv == Init => Inv
<1> SUFFICES ASSUME Init PROVE Inv
  OBVIOUS
<1> USE NotificationAssumption, FlowAssumption
<1>0. svc = FreshService /\ svc.queue = <<>> /\ svc.current = NoApproval /\ ~ svc.locked
  BY DEF Init, FreshService
<1>1. svc \in Service
  <2>1. <<>> \in Seq(Approval) /\ NoWindow \in 0 .. MaxSheets
    BY DEF NoWindow
  <2> QED
    BY <2>1 DEF Init, FreshService, Service
<1>2. ServiceTyped
  BY <1>1, PromiseFacts DEF Init, ServiceTyped
<1>3. FlowTyped
  <2>1. NoAnswer \in Answer
    BY DEF NoAnswer, Answer
  <2> QED
    BY <2>1 DEF Init, FlowTyped, Stage, Run
<1>4. ScreenTyped /\ ClosingTyped
  BY DEF Init, ScreenTyped, ClosingTyped, NoPopup, Message, NoTask, Todo, NotClosing, NoWindow
<1>5. TypeOK
  BY <1>2, <1>3, <1>4, TypeParts
<1>6. DOMAIN <<>> = {}
  OBVIOUS
<1>7. Queued(svc) = {} /\ QueueConsistent
  BY <1>0, <1>6 DEF Queued, QueueConsistent
<1>8. \A r \in Request : Asked(r) = NoApproval /\ ~ Stranded(r)
  BY DEF Init, Asked, Stranded
<1>9. Core
  BY <1>7, <1>8 DEF Init, Core, NoGhostApproval, SettledWaits, ClosingAwaited, OnlyKnownLosses
<1>10. Marked /\ LockOwned /\ FailedEnded /\ ConnectHeld
  BY <1>0 DEF Init, Marked, LockOwned, FailedEnded, NoAnswer, ConnectHeld, Connecting
<1> QED
  BY <1>5, <1>9, <1>10 DEF Inv

LEMMA UserInv ==
  ASSUME Inv, UserKept, TypeOK', UNCHANGED <<stage, requested, answer, connecting>>
  PROVE  Inv'
<1>1. Marked'
  BY DEF Inv, Marked
<1>2. LockOwned'
  BY DEF Inv, LockOwned, UserKept, UnderWay
<1>3. FailedEnded' /\ ConnectHeld'
  BY DEF Inv, FailedEnded, ConnectHeld, Connecting
<1> QED
  BY <1>1, <1>2, <1>3 DEF Inv, UserKept

LEMMA NextInv ==
  ASSUME Inv, [Next]_vars
  PROVE  Inv'
<1>1. ASSUME NEW r \in Request, Flow(r), noting(r) PROVE Inv'
  <2>1. FlowKept(r)
    BY <1>1, FlowIsKept
  <2>2. TypeOK'
    BY <1>1, <2>1, TypeFlow DEF FlowKept
  <2>3. Marked' /\ LockOwned' /\ FailedEnded' /\ ConnectHeld'
    BY <1>1, <2>1, MarkedFlow, LockFlow, FailedFlow, ConnectFlow
  <2> QED
    BY <2>1, <2>2, <2>3 DEF Inv, FlowKept
<1>2. CASE (User \/ Interface) /\ UNCHANGED lost
  <2>1. UserKept
    BY <1>2, UserIsKept, InterfaceIsKept
  <2>2. TypeOK'
    BY <1>2, <2>1, TypeUser DEF UserKept
  <2>3. UNCHANGED <<stage, requested, answer, connecting>>
    BY <1>2 DEF User, Interface, Confirm, Reject, CancelAll, Dismiss, ClosePopup, Retry,
       Mount, Activate, ShowPopup, PopupMounts, WaitingDone, flowVars
  <2> QED
    BY <2>1, <2>2, <2>3, UserInv
<1>3. CASE SheetClosed
  <2>1. UserKept
    BY <1>3, TypeOfService, ClosedKept DEF Inv
  <2>2. TypeOK'
    BY <1>3, <2>1, TypeClosed DEF UserKept
  <2>3. UNCHANGED <<stage, requested, answer, connecting>>
    BY <1>3 DEF SheetClosed, flowVars
  <2> QED
    BY <2>1, <2>2, <2>3, UserInv
<1>4. CASE UNCHANGED vars
  <2>1. UNCHANGED <<svc, sheets, signing, settled, closing, stage, requested, answer, run,
                    connecting, permitted, fails, popup, task, consent, lost>>
    BY <1>4 DEF vars, notificationVars, flowVars
  <2>2. TypeOK'
    BY <2>1 DEF TypeOK, Inv
  <2>3. Core'
    BY <2>1 DEF Inv, Core, QueueConsistent, NoGhostApproval, SettledWaits, ClosingAwaited,
       OnlyKnownLosses, Stranded, Asked
  <2>4. Marked' /\ LockOwned' /\ FailedEnded' /\ ConnectHeld'
    BY <2>1 DEF Inv, Marked, LockOwned, FailedEnded, ConnectHeld, Connecting, UnderWay
  <2> QED
    BY <2>2, <2>3, <2>4 DEF Inv
<1> QED
  BY <1>1, <1>2, <1>3, <1>4 DEF Next

\* Everything that follows is a part of the invariant, or follows from it.
LEMMA SpecInv == Spec => []Inv
<1>1. Init => Inv
  BY InitInv
<1>2. Inv /\ [Next]_vars => Inv'
  BY NextInv
<1> QED
  BY <1>1, <1>2, PTL DEF Spec

\* Type correctness of the service, the flows and the screens.  Part of it: a
\* popup that says it is done knows what was signed (PrivatekeyWaiting.tsx).
THEOREM ApprovalsTypeCorrect == Spec => []TypeOK
BY SpecInv, PTL DEF Inv

\* The current approval of notification.ts is the first of the queue after any
\* request, answer, follow-up of a signature or closing sheet, and nothing is
\* queued twice.
THEOREM QueueStaysConsistent == Spec => []QueueConsistent
<1>1. Inv => QueueConsistent
  BY DEF Inv, Core
<1> QED
  BY <1>1, SpecInv, PTL

\* No approval outlives its flow: what a button can settle is awaited.
THEOREM ApprovalsAreAwaited == Spec => []NoGhostApproval
<1>1. Inv => NoGhostApproval
  BY DEF Inv, Core
<1> QED
  BY <1>1, SpecInv, PTL

\* The lock of openNotification always has an owner who will release it, with
\* any number of requests that end in any order.
THEOREM LockHasOwner == Spec => []LockOwned
<1>1. Inv => LockOwned
  BY DEF Inv
<1> QED
  BY <1>1, SpecInv, PTL

\* connectOrigins of rpcFlow.ts: after any refusal, rejection or error (of
\* autoConnect, of the chains of the dapp, of the connection itself) a dapp is
\* "already processing" only while one of its requests is being connected, and two
\* of them are connected at once only after one of the dapp's requests has failed.
THEOREM ConnectingIsHeld == Spec => []ConnectHeld
<1>1. Inv => ConnectHeld
  BY DEF Inv
<1> QED
  BY <1>1, SpecInv, PTL

\* A promise that nobody can settle any more is one of those that noting and
\* SheetClosed name: the model knows every way in which a request can hang.
THEOREM HangsAreKnown == Spec => []OnlyKnownLosses
<1>1. Inv => OnlyKnownLosses
  BY DEF Inv, Core
<1> QED
  BY <1>1, SpecInv, PTL

-----------------------------------------------------------------------------
(* Consent and the signing list.  A button settles what is current, not what *)
(* its sheet shows, so that the sheets have to be followed: ScreenInv says   *)
(* what a mounted sheet may show while nothing is pending that makes it look *)
(* again, and what is queued while the answer to a signature has not reached *)
(* its flow yet.  FlowInv relates the controllers to the consent that was    *)
(* given and to the signing list.                                            *)

\* The promise of r was resolved by an answer that names the popup.
FollowUp(r) == settled[r].st = "resolved" /\ settled[r].ui

ShowsSignature(w) ==
  w.shown.step = "approve" /\ w.shown.req \in Request /\ Signs(w.shown.req)

Mounted(w) == w \in sheets /\ w.ready /\ w.id = svc.window

Exclusive == /\ closing # NotClosing => task = NoTask /\ popup = NoPopup
             /\ task # NoTask => popup = NoPopup

OneId == \A v, w \in sheets : v.id = w.id => v = w

QueueMixes == \A a, b \in Queued(svc) : a = b \/ (Queueable(a) /\ Queueable(b))

FollowedUp ==
  \A r \in Request : FollowUp(r) =>
    /\ task = ShowingPopup /\ stage[r] \in {"approve", "waiting"}
    /\ \A q \in Request \ {r} : settled[q] = Unsettled
    /\ \A a \in Queued(svc) : Queueable(a)
    /\ svc.window # NoWindow
    /\ \A w \in sheets : Mounted(w) => ShowsSignature(w)

Following == \E r \in Request : FollowUp(r)

ShownFits ==
  ~ Following /\ task.do # "activate" /\ closing = NotClosing =>
    \A w \in sheets : Mounted(w) =>
      w.shown = svc.current \/ (svc.current.step = "waiting" /\ ShowsSignature(w))

PopupFits ==
  ~ Following /\ (task.do = "popup" \/ popup # NoPopup) =>
    svc.window # NoWindow /\ svc.current.step = "waiting"

WindowFits ==
  ~ Following /\ svc.window # NoWindow /\ svc.current = NoApproval =>
    task.do = "activate" /\ task.win = svc.window

Told == \A r \in Request : settled[r].st = "no" => settled[r] = Unsettled

ScreenInv == /\ Told /\ Exclusive /\ OneId /\ QueueMixes /\ FollowedUp
             /\ ShownFits /\ PopupFits /\ WindowFits

\* The controller of r still runs, or may be run again.
Running(r) == run[r] \in {"amount", "running", "failed"}

RunFits(r) ==
  /\ stage[r] \in {"idle", "auto", "connect", "linking", "approve"} => run[r] = "none"
  /\ stage[r] \in {"process", "waiting"} => run[r] # "none"
  /\ Signs(r) => stage[r] # "process"

ConsentFits(r) ==
  /\ stage[r] = "approve" /\ settled[r].st = "resolved" =>
       r \in consent /\ (settled[r].ui <=> Signs(r))
  /\ NeedsApproval(r) /\ run[r] # "none" => r \in consent

SigningFits(r) ==
  /\ r \in signing => Kind[r] = "tx" /\ (stage[r] = "approve" \/ Running(r))
  /\ settled[r].st = "rejected" => r \notin signing
  /\ run[r] = "done" => r \notin signing
  /\ Kind[r] = "tx" /\ Approve(r) \in Queued(svc) => r \in signing

DeferFits == svc.deferFn \in Request => run[svc.deferFn] # "none"

FlowInv == /\ \A r \in Request : RunFits(r) /\ ConsentFits(r) /\ SigningFits(r)
           /\ DeferFits

-----------------------------------------------------------------------------
\* What a flow does, sorted by what it does to the service.

Still == /\ svc'.queue = svc.queue /\ svc'.current = svc.current
         /\ svc'.window = svc.window /\ sheets' = sheets

\* A new sheet, not mounted yet, with an identifier that nothing refers to.
Opens == \E id \in 1 .. MaxSheets :
  /\ Fresh(id) /\ svc'.window = id
  /\ sheets' = sheets \cup {[id |-> id, shown |-> NoApproval, ready |-> FALSE]}

Enqueues(a) ==
  /\ ~ refuses(svc, a)
  /\ svc'.queue = enqueue(svc, a).queue /\ svc'.current = enqueue(svc, a).current
  /\ \/ svc'.window = svc.window /\ sheets' = sheets
     \/ svc.window = NoWindow /\ Opens

LEMMA EnqueueKeeps ==
  ASSUME NEW s, s = svc \/ (\E r : s = [svc EXCEPT !.deferFn = r]), svc \in Service,
         NEW a \in Approval
  PROVE  /\ enqueue(s, a).queue = enqueue(svc, a).queue
         /\ enqueue(s, a).current = enqueue(svc, a).current
         /\ enqueue(s, a).window = svc.window
         /\ enqueue(s, a).locked = svc.locked
         /\ enqueue(s, a).deferFn = s.deferFn
         /\ s.queue = svc.queue /\ s.current = svc.current /\ s.window = svc.window
         /\ DOMAIN enqueue(s, a) = DOMAIN svc
<1>1. /\ s.queue = svc.queue /\ s.current = svc.current /\ s.window = svc.window
      /\ s.locked = svc.locked
      /\ DOMAIN s = DOMAIN svc
      /\ DOMAIN svc = {"queue", "current", "window", "locked", "deferFn"}
  BY DEF Service
<1>2. ASSUME NEW q, NEW c
      PROVE  LET e == [s EXCEPT !.queue = q, !.current = c]
             IN  e.queue = q /\ e.current = c /\ e.window = s.window
                 /\ e.locked = s.locked /\ e.deferFn = s.deferFn /\ DOMAIN e = DOMAIN s
  BY <1>1
<1>3. CASE a.step = "waiting"
  <2>1. enqueue(s, a) = [s EXCEPT !.queue = <<a>> \o s.queue, !.current = a]
    BY <1>3 DEF enqueue
  <2>2. enqueue(svc, a) = [svc EXCEPT !.queue = <<a>> \o svc.queue, !.current = a]
    BY <1>3 DEF enqueue
  <2> DEFINE q == <<a>> \o svc.queue
  <2>3. enqueue(s, a) = [s EXCEPT !.queue = q, !.current = a]
        /\ enqueue(svc, a) = [svc EXCEPT !.queue = q, !.current = a]
    BY <2>1, <2>2, <1>1
  <2> HIDE DEF q
  <2> QED
    BY <2>3, <1>1, <1>2
<1>4. CASE a.step # "waiting"
  <2> DEFINE q == Append(svc.queue, a)
             c == IF svc.current = NoApproval THEN a ELSE svc.current
  <2>3. enqueue(s, a) = [s EXCEPT !.queue = q, !.current = c]
        /\ enqueue(svc, a) = [svc EXCEPT !.queue = q, !.current = c]
    BY <1>1, <1>4 DEF enqueue
  <2> HIDE DEF q, c
  <2> QED
    BY <2>3, <1>1, <1>2
<1> QED
  BY <1>3, <1>4

LEMMA RequestSorts ==
  ASSUME ServiceTyped, NEW s, s = svc \/ (\E r : s = [svc EXCEPT !.deferFn = r]),
         NEW a \in Approval, requestApproval(s, a)
  PROVE  /\ (refuses(svc, a) /\ Still) \/ Enqueues(a)
         /\ svc'.deferFn = s.deferFn
         /\ signing' = IF a.step = "approve" /\ Kind[a.req] = "tx"
                       THEN signing \cup {a.req} ELSE signing
<1>0. svc \in Service
  BY DEF ServiceTyped
<1> DEFINE e == enqueue(s, a)
<1>1. /\ e.queue = enqueue(svc, a).queue /\ e.current = enqueue(svc, a).current
      /\ e.window = svc.window /\ e.locked = svc.locked /\ e.deferFn = s.deferFn
      /\ s.queue = svc.queue /\ s.current = svc.current /\ s.window = svc.window
      /\ DOMAIN e = DOMAIN svc
  BY <1>0, EnqueueKeeps
<1> HIDE DEF e
<1>2. refuses(s, a) <=> refuses(svc, a)
  BY <1>1 DEF refuses
<1>3. CASE refuses(s, a)
  BY <1>1, <1>2, <1>3 DEF requestApproval, Still
<1>4. CASE ~ refuses(s, a)
  <2>1. openSheet(e)
    BY <1>4 DEF requestApproval, e
  <2>2. CASE e.window # NoWindow \/ e.locked
    <3>1. svc' = e /\ sheets' = sheets
      BY <2>1, <2>2 DEF openSheet
    <3> QED
      BY <1>1, <1>2, <1>4, <3>1 DEF requestApproval, Enqueues
  <2>3. CASE ~ (e.window # NoWindow \/ e.locked)
    <3> DEFINE id == CHOOSE i \in 1 .. MaxSheets : Fresh(i)
    <3>1. id \in 1 .. MaxSheets /\ Fresh(id)
      BY <2>1, <2>3 DEF openSheet
    <3>2. /\ svc' = [e EXCEPT !.locked = TRUE, !.window = id]
          /\ sheets' = sheets \cup {[id |-> id, shown |-> NoApproval, ready |-> FALSE]}
      BY <2>1, <2>3 DEF openSheet
    <3> HIDE DEF id
    <3>3. /\ svc'.queue = e.queue /\ svc'.current = e.current /\ svc'.deferFn = e.deferFn
          /\ svc'.window = id
      BY <1>0, <1>1, <3>2 DEF Service
    <3> QED
      BY <1>1, <1>2, <1>4, <2>3, <3>1, <3>2, <3>3 DEF requestApproval, Enqueues, Opens
  <2> QED
    BY <2>2, <2>3
<1> QED
  BY <1>3, <1>4

Answers(r) ==
  /\ stage'[r] = "answered" /\ Still /\ signing' = signing /\ svc'.deferFn = svc.deferFn
  /\ ~ FollowUp(r)
  /\ \/ stage[r] \in {"idle", "auto", "linking"} /\ run'[r] = run[r]
     \/ settled[r].st = "rejected" /\ run'[r] = run[r]
     \/ stage[r] = "waiting" /\ run'[r] = run[r]
     \/ stage[r] = "process" /\ run'[r] = "done"

GoesOn(r) ==
  /\ stage[r] \in {"idle", "auto", "connect"} /\ stage'[r] \in {"auto", "linking"}
  /\ Still /\ signing' = signing /\ svc'.deferFn = svc.deferFn
  /\ ~ FollowUp(r) /\ run'[r] = run[r]

Processes(r) ==
  /\ stage'[r] = "process" /\ run'[r] = "running" /\ svc'.deferFn = r
  /\ Still /\ signing' = signing /\ ~ FollowUp(r)
  /\ \/ stage[r] \in {"idle", "linking"} /\ ~ NeedsApproval(r)
     \/ stage[r] = "approve" /\ settled[r].st = "resolved"

Asks(r) ==
  /\ Calm /\ stage[r] \in {"idle", "auto", "linking"} /\ run'[r] = run[r]
  /\ \/ stage'[r] = "connect" /\ requestApproval(svc, Connect(r))
     \/ stage'[r] = "approve" /\ requestApproval(svc, Approve(r))

Follows(r) ==
  /\ FollowUp(r) /\ stage[r] \in {"approve", "waiting"} /\ stage'[r] = "waiting"
  /\ \/ /\ stage[r] = "approve" /\ run'[r] \in {"amount", "running"}
        /\ requestApproval([svc EXCEPT !.deferFn = r], Waiting(r))
     \/ /\ stage[r] = "waiting" /\ run'[r] = run[r]
        /\ requestApproval(svc, Waiting(r))

Ends(r) ==
  /\ Calm /\ stage' = stage /\ Still /\ svc'.deferFn = svc.deferFn /\ run[r] = "running"
  /\ \/ run'[r] = "done" /\ stage[r] # "process" /\ signing' = signing \ {r}
     \/ run'[r] = "failed" /\ signing' = signing

FlowSorted(r) ==
  /\ \A q \in Request \ {r} :
       stage'[q] = stage[q] /\ run'[q] = run[q] /\ settled'[q] = settled[q]
  /\ settled'[r] = Unsettled /\ (Calm \/ settled[r] # Unsettled)
  /\ closing' = closing /\ task' = task /\ consent' = consent
  /\ popup' = NoPopup <=> popup = NoPopup
  /\ \/ Answers(r) \/ GoesOn(r) \/ Processes(r) \/ Asks(r) \/ Follows(r) \/ Ends(r)

LEMMA AnsweringStill ==
  ASSUME ServiceTyped, TypeOK, NEW r \in Request, NEW st, NEW from, answering(r, st, from)
  PROVE  /\ stage'[r] = "answered" /\ \A q \in Request \ {r} : stage'[q] = stage[q]
         /\ Still /\ signing' = signing /\ svc'.deferFn = svc.deferFn
<1>1. stage' = [stage EXCEPT ![r] = "answered"] /\ sheets' = sheets /\ signing' = signing
      /\ svc' = [svc EXCEPT !.locked = @ /\ ~ requested[r]]
  BY DEF answering, unLock
<1>2. stage \in [Request -> Stage]
  BY TypeParts DEF FlowTyped
<1>3. svc \in Service
  BY DEF ServiceTyped
<1> QED
  BY <1>1, <1>2, <1>3 DEF Still, Service

LEMMA AskingStage ==
  ASSUME TypeOK, NEW r \in Request, NEW at, NEW s, NEW a, asking(r, at, s, a)
  PROVE  /\ stage'[r] = at /\ \A q \in Request \ {r} : stage'[q] = stage[q]
         /\ requestApproval(s, a)
BY TypeParts DEF asking, FlowTyped

LEMMA ProcessSorted ==
  ASSUME ServiceTyped, TypeOK, NEW r \in Request, NEW ui \in BOOLEAN, process(r, ui)
  PROVE  /\ \A q \in Request \ {r} : stage'[q] = stage[q] /\ run'[q] = run[q]
         /\ ui => /\ stage'[r] = "waiting" /\ run'[r] \in {"amount", "running"}
                  /\ requestApproval([svc EXCEPT !.deferFn = r], Waiting(r))
         /\ ~ ui => /\ stage'[r] = "process" /\ run'[r] = "running"
                    /\ svc'.deferFn = r /\ Still /\ signing' = signing
<1>0. svc \in Service /\ stage \in [Request -> Stage] /\ run \in [Request -> Run]
  BY TypeParts DEF ServiceTyped, FlowTyped
<1> DEFINE s == [svc EXCEPT !.deferFn = r]
<1>1. run' = [run EXCEPT ![r] = IF ui /\ Signs(r) THEN "amount" ELSE "running"]
  BY DEF process
<1>2. CASE ui
  <2>1. asking(r, "waiting", s, Waiting(r))
    BY <1>2 DEF process
  <2> HIDE DEF s
  <2>2. /\ stage'[r] = "waiting" /\ \A q \in Request \ {r} : stage'[q] = stage[q]
        /\ requestApproval(s, Waiting(r))
    BY <2>1, AskingStage
  <2> QED
    BY <1>0, <1>1, <1>2, <2>2 DEF s
<1>3. CASE ~ ui
  <2>1. /\ stage' = [stage EXCEPT ![r] = "process"] /\ svc' = s
        /\ sheets' = sheets /\ signing' = signing
    BY <1>3 DEF process
  <2>2. Still /\ svc'.deferFn = r
    BY <1>0, <2>1 DEF Still, Service
  <2> QED
    BY <1>0, <1>1, <1>3, <2>1, <2>2
<1> QED
  BY <1>2, <1>3

\* From a flow that awaits nothing: it runs, or asks to be approved.
LEMMA CheckApprovalSorted ==
  ASSUME ServiceTyped, TypeOK, Calm, NEW r \in Request, stage[r] \in {"idle", "linking"},
         checkApproval(r)
  PROVE  /\ \A q \in Request \ {r} : stage'[q] = stage[q] /\ run'[q] = run[q]
         /\ Processes(r) \/ Asks(r)
<1>1. ~ FollowUp(r)
  BY DEF Calm, FollowUp, Unsettled
<1>2. CASE NeedsApproval(r)
  <2>1. asking(r, "approve", svc, Approve(r)) /\ run' = run
    BY <1>2 DEF checkApproval
  <2> QED
    BY <2>1, AskingStage DEF Asks
<1>3. CASE ~ NeedsApproval(r)
  <2>1. process(r, FALSE)
    BY <1>3 DEF checkApproval
  <2> QED
    BY <1>1, <1>3, <2>1, ProcessSorted DEF Processes
<1> QED
  BY <1>2, <1>3

LEMMA FlowIsSorted ==
  ASSUME Inv, Told, FollowedUp, NEW r \in Request, Flow(r), noting(r)
  PROVE  FlowSorted(r)
<1>0. /\ ServiceTyped /\ TypeOK /\ stage \in [Request -> Stage] /\ run \in [Request -> Run]
      /\ settled \in [Request -> Promise] /\ popup \in Message
  BY TypeParts DEF Inv, FlowTyped, ServiceTyped, ScreenTyped
<1>1. task' = task /\ consent' = consent
  BY DEF noting
<1>2. Calm => ~ FollowUp(r)
  BY DEF Calm, FollowUp, Unsettled
<1>3. ASSUME Calm, settled' = settled
      PROVE  settled'[r] = Unsettled /\ \A q \in Request \ {r} : settled'[q] = settled[q]
  BY <1>3 DEF Calm
<1>4. CASE Arrive(r)
  <2>1. /\ Calm /\ stage[r] = "idle" /\ settled' = settled /\ closing' = closing
        /\ popup' = popup
    BY <1>4 DEF Arrive
  <2>2. CASE NeedsConnection(r) /\ OriginOf[r] \notin permitted
    <3>1. checkConnect(r) /\ run' = run
      BY <1>4, <2>2 DEF Arrive
    <3>2. CASE OriginOf[r] \in connecting
      <4>1. answering(r, "refused", NoRequest)
        BY <3>1, <3>2 DEF checkConnect
      <4> QED
        BY <1>0, <1>1, <1>2, <1>3, <2>1, <3>1, <4>1, AnsweringStill DEF FlowSorted, Answers
    <3>3. CASE OriginOf[r] \notin connecting
      <4>1. stage' = [stage EXCEPT ![r] = "auto"] /\ UNCHANGED <<svc, sheets, signing>>
        BY <3>1, <3>3 DEF checkConnect
      <4> QED
        BY <1>0, <1>1, <1>2, <1>3, <2>1, <3>1, <4>1 DEF FlowSorted, GoesOn, Still
    <3> QED
      BY <3>2, <3>3
  <2>3. CASE ~ (NeedsConnection(r) /\ OriginOf[r] \notin permitted)
    <3>1. checkApproval(r)
      BY <1>4, <2>3 DEF Arrive
    <3> QED
      BY <1>0, <1>1, <1>3, <2>1, <3>1, CheckApprovalSorted DEF FlowSorted
  <2> QED
    BY <2>2, <2>3
<1>5. CASE AutoConnect(r)
  <2>1. /\ Calm /\ stage[r] = "auto" /\ settled' = settled /\ closing' = closing
        /\ popup' = popup /\ run' = run
    BY <1>5 DEF AutoConnect
  <2>2. CASE asking(r, "connect", svc, Connect(r))
    BY <1>0, <1>1, <1>3, <2>1, <2>2, AskingStage DEF FlowSorted, Asks
  <2>3. CASE stage' = [stage EXCEPT ![r] = "linking"] /\ UNCHANGED <<svc, sheets, signing>>
    BY <1>0, <1>1, <1>2, <1>3, <2>1, <2>3 DEF FlowSorted, GoesOn, Still
  <2>4. CASE answering(r, "failed", NoRequest)
    BY <1>0, <1>1, <1>2, <1>3, <2>1, <2>4, AnsweringStill DEF FlowSorted, Answers
  <2> QED
    BY <1>5, <2>2, <2>3, <2>4 DEF AutoConnect, throwing
<1>6. CASE Linked(r)
  <2>1. /\ Calm /\ stage[r] = "linking" /\ settled' = settled /\ closing' = closing
        /\ popup' = popup
    BY <1>6 DEF Linked
  <2>2. CASE checkApproval(r)
    BY <1>0, <1>1, <1>3, <2>1, <2>2, CheckApprovalSorted DEF FlowSorted
  <2>3. CASE answering(r, "failed", NoRequest) /\ run' = run
    BY <1>0, <1>1, <1>2, <1>3, <2>1, <2>3, AnsweringStill DEF FlowSorted, Answers
  <2> QED
    BY <1>6, <2>2, <2>3 DEF Linked, throwing
<1>7. CASE Continue(r)
  <2>1. /\ settled[r] # Unsettled /\ settled' = [settled EXCEPT ![r] = Unsettled]
        /\ closing' = closing /\ popup' = popup
    BY <1>7 DEF Continue
  <2>2. stage[r] \in {"connect", "approve", "waiting"}
    BY <1>0, <2>1, AskedFacts DEF Inv, Core, SettledWaits
  <2>3. settled'[r] = Unsettled /\ \A q \in Request \ {r} : settled'[q] = settled[q]
    BY <1>0, <2>1
  <2>4. CASE settled[r].st = "rejected"
    <3>1. answering(r, "rejected", NoRequest) /\ run' = run
      BY <1>7, <2>4 DEF Continue
    <3> QED
      BY <1>0, <1>1, <2>1, <2>3, <2>4, <3>1, AnsweringStill DEF FlowSorted, Answers, FollowUp
  <2>5. CASE settled[r].st # "rejected"
    <3>0. goOn(r)
      BY <1>7, <2>5 DEF Continue
    <3>1. settled[r].st = "resolved" /\ settled[r].ui \in BOOLEAN
      <4>1. settled[r] \in Promise
        BY <1>0
      <4>2. settled[r].st # "no"
        BY <2>1 DEF Told
      <4> QED
        BY <4>1, <4>2, <2>5 DEF Promise
    <3>2. CASE stage[r] = "connect"
      <4>1. /\ stage' = [stage EXCEPT ![r] = "linking"]
            /\ svc' = svc /\ sheets' = sheets /\ signing' = signing /\ run' = run
        BY <3>0, <3>2 DEF goOn
      <4>2. ~ FollowUp(r)
        BY <3>2 DEF FollowedUp
      <4> QED
        BY <1>0, <1>1, <2>1, <2>3, <3>2, <4>1, <4>2 DEF FlowSorted, GoesOn, Still
    <3>3. CASE stage[r] = "approve"
      <4>1. process(r, settled[r].ui)
        BY <3>0, <3>3 DEF goOn
      <4>2. CASE settled[r].ui
        BY <1>0, <1>1, <2>1, <2>3, <3>1, <3>3, <4>1, <4>2, ProcessSorted
           DEF FlowSorted, Follows, FollowUp
      <4>3. CASE ~ settled[r].ui
        <5>1. /\ \A q \in Request \ {r} : stage'[q] = stage[q] /\ run'[q] = run[q]
              /\ stage'[r] = "process" /\ run'[r] = "running"
              /\ svc'.deferFn = r /\ Still /\ signing' = signing
          <6>1. settled[r].ui = FALSE
            BY <3>1, <4>3
          <6>2. process(r, FALSE)
            BY <4>1, <6>1
          <6> QED
            BY <1>0, <6>2, ProcessSorted
        <5>2. Processes(r)
          BY <3>1, <3>3, <4>3, <5>1 DEF Processes, FollowUp
        <5> QED
          BY <1>1, <2>1, <2>3, <5>1, <5>2 DEF FlowSorted
      <4> QED
        BY <4>2, <4>3
    <3>4. CASE stage[r] = "waiting" /\ settled[r].ui
      <4>1. asking(r, "waiting", svc, Waiting(r)) /\ run' = run
        BY <3>0, <3>4 DEF goOn
      <4> QED
        BY <1>0, <1>1, <2>1, <2>3, <3>1, <3>4, <4>1, AskingStage
           DEF FlowSorted, Follows, FollowUp
    <3>5. CASE stage[r] = "waiting" /\ ~ settled[r].ui
      <4>1. answering(r, "done", settled[r].from) /\ run' = run
        BY <3>0, <3>5 DEF goOn
      <4> QED
        BY <1>0, <1>1, <2>1, <2>3, <3>5, <4>1, AnsweringStill DEF FlowSorted, Answers, FollowUp
    <3> QED
      BY <2>2, <3>1, <3>2, <3>3, <3>4, <3>5
  <2> QED
    BY <2>4, <2>5
<1>8. CASE ControllerReturns(r)
  <2>1. /\ Calm /\ run[r] = "running" /\ run' = [run EXCEPT ![r] = "done"]
        /\ settled' = settled /\ closing' = closing
    BY <1>8 DEF ControllerReturns
  <2>2. popup' = NoPopup <=> popup = NoPopup
    <3>1. popup' = popup \/ (Listening /\ popup' = [popup EXCEPT !.st = "finished", !.result = r])
      BY <1>8 DEF ControllerReturns
    <3>2. Listening => popup # NoPopup
      BY DEF Listening, NoPopup
    <3>3. [popup EXCEPT !.st = "finished", !.result = r].st = "finished" /\ NoPopup.st = "none"
      BY <1>0 DEF Message, NoPopup
    <3> QED
      BY <3>1, <3>2, <3>3
  <2>3. CASE stage[r] = "process"
    <3>1. answering(r, "done", r)
      BY <1>8, <2>3 DEF ControllerReturns
    <3> QED
      BY <1>0, <1>1, <1>2, <1>3, <2>1, <2>2, <2>3, <3>1, AnsweringStill DEF FlowSorted, Answers
  <2>4. CASE stage[r] # "process"
    <3>1. signing' = signing \ {r} /\ UNCHANGED <<stage, svc, sheets>>
      BY <1>8, <2>4 DEF ControllerReturns
    <3> QED
      BY <1>0, <1>1, <1>3, <2>1, <2>2, <2>4, <3>1 DEF FlowSorted, Ends, Still
  <2> QED
    BY <2>3, <2>4
<1>9. CASE ControllerThrows(r)
  <2>1. /\ Calm /\ run[r] = "running" /\ run' = [run EXCEPT ![r] = "failed"]
        /\ UNCHANGED <<svc, sheets, signing, settled, closing, stage>>
    BY <1>9 DEF ControllerThrows, notificationVars
  <2>2. popup' = NoPopup <=> popup = NoPopup
    <3>1. popup' = popup \/ (Listening /\ popup' = [popup EXCEPT !.st = "failed"])
      BY <1>9 DEF ControllerThrows
    <3>2. Listening => popup # NoPopup
      BY DEF Listening, NoPopup
    <3>3. [popup EXCEPT !.st = "failed"].st = "failed" /\ NoPopup.st = "none"
      BY <1>0 DEF Message, NoPopup
    <3> QED
      BY <3>1, <3>2, <3>3
  <2> QED
    BY <1>0, <1>1, <1>3, <2>1, <2>2 DEF FlowSorted, Ends, Still
<1> QED
  BY <1>4, <1>5, <1>6, <1>7, <1>8, <1>9 DEF Flow

-----------------------------------------------------------------------------
\* The sheets, kept by every step.

LEMMA SettledKinds ==
  /\ Unsettled.st = "no" /\ Rejected.st = "rejected"
  /\ \A ui, from : Resolved(ui, from).st = "resolved" /\ Resolved(ui, from).ui = ui
BY DEF Unsettled, Rejected, Resolved

LEMMA TaskKinds ==
  /\ NoTask.do = "none" /\ ShowingPopup.do = "popup" /\ NoTask # ShowingPopup
  /\ \A win : Activating(win).do = "activate" /\ Activating(win).win = win
                                             /\ Activating(win) # NoTask
BY DEF NoTask, ShowingPopup, Activating

\* With an event under way that makes every sheet look again, only the sheets
\* and the queue have to be in order.
LEMMA ScreenLooksAgain ==
  ASSUME NEW win, task' = Activating(win), popup' = NoPopup, closing' = NotClosing,
         svc'.window # NoWindow => svc'.window = win,
         OneId', QueueMixes', Told', \A r \in Request : ~ FollowUp(r)'
  PROVE  ScreenInv'
BY TaskKinds DEF ScreenInv, Exclusive, FollowedUp, ShownFits, PopupFits, WindowFits, Following

\* Without a window no sheet is in use.
LEMMA ScreenClosed ==
  ASSUME ServiceTyped', svc'.window = NoWindow, popup' = NoPopup, task'.do # "popup",
         Exclusive', OneId', QueueMixes', Told', \A r \in Request : ~ FollowUp(r)'
  PROVE  ScreenInv'
<1>1. \A w \in sheets' : ~ Mounted(w)'
  BY DEF Mounted, ServiceTyped, Sheet, NoWindow
<1> QED
  BY <1>1 DEF ScreenInv, FollowedUp, ShownFits, PopupFits, WindowFits, Following

LEMMA StillQueued ==
  ASSUME Still
  PROVE  Queued(svc') = Queued(svc)
BY DEF Still, Queued

\* A flow that leaves the service and the sheets alone.
LEMMA ScreenStill ==
  ASSUME ScreenInv, Still, task' = task, closing' = closing,
         popup' = NoPopup <=> popup = NoPopup, Told',
         \A q \in Request : ~ FollowUp(q) /\ ~ FollowUp(q)'
  PROVE  ScreenInv'
<1>1. OneId' /\ QueueMixes' /\ Exclusive'
  BY StillQueued DEF ScreenInv, OneId, QueueMixes, Exclusive, Still
<1>2. FollowedUp'
  BY DEF FollowedUp
<1>3. ShownFits'
  <2>1. \A w : Mounted(w)' <=> Mounted(w)
    BY DEF Mounted, Still
  <2> QED
    BY <2>1 DEF ScreenInv, ShownFits, Following, Still, ShowsSignature
<1>4. PopupFits' /\ WindowFits'
  BY DEF ScreenInv, PopupFits, WindowFits, Following, Still
<1> QED
  BY <1>1, <1>2, <1>3, <1>4 DEF ScreenInv

LEMMA EnqueuedFacts ==
  ASSUME Inv, ScreenInv, NEW a \in Approval, a \notin Queued(svc), Enqueues(a),
         sheets' \subseteq Sheet
  PROVE  /\ QueueMixes' /\ OneId'
         /\ Queued(svc') = Queued(svc) \cup {a}
         /\ svc'.current # NoApproval
         /\ a.step # "waiting" /\ svc.current # NoApproval => svc'.current = svc.current
         /\ a.step = "waiting" => svc'.current = a
         /\ svc.window # NoWindow => svc'.window = svc.window /\ sheets' = sheets
         /\ \A w \in sheets' : Mounted(w)' => Mounted(w)
<1>0. svc \in Service /\ Orderly(svc) /\ sheets \subseteq Sheet
  BY TypeOfService DEF Inv, Core, QueueConsistent, Orderly, ServiceTyped
<1>1. Queued(svc') = Queued(svc) \cup {a}
  <2>1. Queued(enqueue(svc, a)) = Queued(svc) \cup {a}
    BY <1>0, EnqueueFacts
  <2> QED
    BY <2>1 DEF Enqueues, Queued
<1>2. QueueMixes'
  <2>1. svc.current = NoApproval => Queued(svc) = {}
    BY <1>0, OrderlyFacts, ApprovalFacts
  <2>2. svc.current # NoApproval => svc.current \in Queued(svc) /\ Queueable(a)
                                    /\ Queueable(svc.current)
    BY <1>0, OrderlyFacts DEF Enqueues, refuses
  <2>3. \A x \in Queued(svc) : Queueable(x) /\ Queueable(a)
    BY <2>1, <2>2 DEF ScreenInv, QueueMixes
  <2> QED
    BY <1>1, <2>3 DEF ScreenInv, QueueMixes
<1>3. /\ svc'.current # NoApproval
      /\ a.step # "waiting" /\ svc.current # NoApproval => svc'.current = svc.current
      /\ a.step = "waiting" => svc'.current = a
  <2>1. enqueue(svc, a).current = IF a.step = "waiting" \/ svc.current = NoApproval
                                  THEN a ELSE svc.current
    <3> DEFINE q == <<a>> \o svc.queue
               p == Append(svc.queue, a)
               c == IF svc.current = NoApproval THEN a ELSE svc.current
    <3>1. CASE a.step = "waiting"
      <4>1. enqueue(svc, a) = [svc EXCEPT !.queue = q, !.current = a]
        BY <3>1 DEF enqueue
      <4> HIDE DEF q
      <4> QED
        BY <1>0, <3>1, <4>1 DEF Service
    <3>2. CASE a.step # "waiting"
      <4>1. enqueue(svc, a) = [svc EXCEPT !.queue = p, !.current = c]
        BY <3>2 DEF enqueue
      <4> HIDE DEF p, c
      <4>2. enqueue(svc, a).current = c
        BY <1>0, <4>1 DEF Service
      <4> QED
        BY <3>2, <4>2 DEF c
    <3> QED
      BY <3>1, <3>2
  <2> QED
    BY <2>1, ApprovalFacts DEF Enqueues
<1>4. svc.window # NoWindow => svc'.window = svc.window /\ sheets' = sheets
  BY DEF Enqueues
<1>5. CASE svc'.window = svc.window /\ sheets' = sheets
  BY <1>1, <1>2, <1>3, <1>4, <1>5 DEF ScreenInv, OneId, Mounted
<1>6. CASE Opens
  <2>1. PICK id \in 1 .. MaxSheets :
          /\ Fresh(id) /\ svc'.window = id
          /\ sheets' = sheets \cup {[id |-> id, shown |-> NoApproval, ready |-> FALSE]}
    BY <1>6 DEF Opens
  <2>2. \A w \in sheets : w.id < id /\ w.id \in Nat
    BY <1>0, <2>1 DEF Fresh, InUse, Sheet
  <2>3. id \in Nat
    BY <2>1
  <2> DEFINE new == [id |-> id, shown |-> NoApproval, ready |-> FALSE]
  <2>4. new.id = id /\ new.ready = FALSE /\ sheets' = sheets \cup {new}
    BY <2>1
  <2> HIDE DEF new
  <2>5. \A w \in sheets : w.id # new.id
    BY <2>2, <2>3, <2>4
  <2>6. OneId'
    BY <2>4, <2>5 DEF ScreenInv, OneId
  <2>7. \A w \in sheets' : ~ Mounted(w)'
    BY <2>1, <2>4, <2>5 DEF Mounted
  <2> QED
    BY <1>1, <1>2, <1>3, <1>4, <2>6, <2>7
<1> QED
  BY <1>5, <1>6 DEF Enqueues

LEMMA CalmFollows ==
  Calm => ~ Following /\ \A r \in Request : ~ FollowUp(r)
BY SettledKinds DEF Calm, Following, FollowUp

LEMMA ToldFlow ==
  ASSUME Told, NEW r \in Request, FlowSorted(r)
  PROVE  Told'
BY DEF Told, FlowSorted

LEMMA ScreenFlow ==
  ASSUME Inv, Inv', ScreenInv, NEW r \in Request, Flow(r), noting(r)
  PROVE  ScreenInv'
<1>a. Told /\ FollowedUp
  BY DEF ScreenInv
<1>b. FlowSorted(r) /\ Told'
  BY <1>a, FlowIsSorted, ToldFlow
<1>c. ServiceTyped /\ ServiceTyped'
  BY TypeOfService, TypeParts, PTL DEF Inv
<1>d. svc \in Service /\ Orderly(svc)
  BY <1>c DEF Inv, Core, QueueConsistent, Orderly, ServiceTyped
<1>0. /\ FlowSorted(r) /\ Told' /\ ServiceTyped /\ ServiceTyped' /\ svc \in Service
      /\ Orderly(svc)
  BY <1>b, <1>c, <1>d
<1>1. ~ FollowUp(r)' /\ \A q \in Request \ {r} : FollowUp(q)' <=> FollowUp(q)
  BY <1>0, SettledKinds DEF FlowSorted, FollowUp
<1>2. ASSUME ~ FollowUp(r) PROVE \A q \in Request : ~ FollowUp(q) /\ ~ FollowUp(q)'
  <2>1. \A q \in Request \ {r} : ~ FollowUp(q)
    BY <1>0, CalmFollows, SettledKinds DEF FlowSorted, ScreenInv, FollowedUp
  <2> QED
    BY <1>1, <1>2, <2>1
<1>3. ASSUME Still, ~ FollowUp(r) PROVE ScreenInv'
  BY <1>0, <1>2, <1>3, ScreenStill DEF FlowSorted
<1>4. CASE Answers(r) \/ GoesOn(r) \/ Processes(r)
  BY <1>3, <1>4 DEF Answers, GoesOn, Processes
<1>5. CASE Ends(r)
  BY <1>3, <1>5, CalmFollows DEF Ends
<1>6. CASE Asks(r)
  <2>0. Calm /\ ~ FollowUp(r)
    BY <1>6, CalmFollows DEF Asks
  <2>1. PICK a \in {Connect(r), Approve(r)} : requestApproval(svc, a)
    BY <1>6 DEF Asks
  <2>2. a \in Approval /\ a.req = r /\ a.step # "waiting"
    BY ApprovalFacts
  <2>3. a \notin Queued(svc)
    <3>1. Asked(r) = NoApproval
      BY <1>6, AskedFacts DEF Asks
    <3> QED
      BY <2>2, <3>1, ApprovalFacts DEF Inv, Core, NoGhostApproval
  <2>4. Still \/ Enqueues(a)
    BY <1>0, <2>1, <2>2, RequestSorts
  <2>5. CASE Enqueues(a)
    <3>1. sheets' \subseteq Sheet
      BY <1>0 DEF ServiceTyped
    <3>2. /\ QueueMixes' /\ OneId'
          /\ svc'.current # NoApproval
          /\ svc.current # NoApproval => svc'.current = svc.current
          /\ svc.window # NoWindow => svc'.window = svc.window /\ sheets' = sheets
          /\ \A w \in sheets' : Mounted(w)' => Mounted(w)
      BY <2>2, <2>3, <2>5, <3>1, EnqueuedFacts
    <3>3. \A q \in Request : ~ FollowUp(q) /\ ~ FollowUp(q)'
      BY <1>2, <2>0
    <3>4. ~ Following /\ ~ Following'
      BY <3>3 DEF Following
    <3>5. Exclusive' /\ FollowedUp' /\ WindowFits'
      BY <1>0, <3>2, <3>3 DEF FlowSorted, ScreenInv, Exclusive, FollowedUp, WindowFits
    <3>6. PopupFits'
      <4> SUFFICES ASSUME task.do = "popup" \/ popup # NoPopup
                   PROVE  svc'.window # NoWindow /\ svc'.current.step = "waiting"
        BY <1>0 DEF FlowSorted, PopupFits
      <4>1. svc.window # NoWindow /\ svc.current.step = "waiting"
        BY <3>4 DEF ScreenInv, PopupFits
      <4>2. svc.current # NoApproval
        BY <4>1 DEF NoApproval
      <4> QED
        BY <3>2, <4>1, <4>2
    <3>7. ShownFits'
      <4> SUFFICES ASSUME task.do # "activate", closing = NotClosing,
                          NEW w \in sheets', Mounted(w)'
                   PROVE  \/ w.shown = svc'.current
                          \/ svc'.current.step = "waiting" /\ ShowsSignature(w)
        BY <1>0 DEF FlowSorted, ShownFits, ShowsSignature
      <4>1. Mounted(w)
        BY <3>2
      <4>2. svc.window # NoWindow
        BY <1>0, <4>1 DEF Mounted, ServiceTyped, Sheet, NoWindow
      <4>3. svc.current # NoApproval
        BY <3>4, <4>2 DEF ScreenInv, WindowFits
      <4>4. \/ w.shown = svc.current
            \/ svc.current.step = "waiting" /\ ShowsSignature(w)
        BY <3>4, <4>1 DEF ScreenInv, ShownFits, Mounted
      <4> QED
        BY <3>2, <4>3, <4>4
    <3> QED
      BY <1>0, <3>2, <3>5, <3>6, <3>7 DEF ScreenInv
  <2> QED
    BY <1>3, <2>0, <2>4, <2>5
<1>7. CASE Follows(r)
  <2>0. FollowUp(r) /\ stage[r] \in {"approve", "waiting"}
    BY <1>7 DEF Follows
  <2>1. /\ task = ShowingPopup /\ \A q \in Request \ {r} : settled[q] = Unsettled
        /\ \A a \in Queued(svc) : Queueable(a)
        /\ svc.window # NoWindow
        /\ \A w \in sheets : Mounted(w) => ShowsSignature(w)
    BY <2>0 DEF ScreenInv, FollowedUp
  <2> DEFINE a == Waiting(r)
  <2>2. PICK s : s \in {svc, [svc EXCEPT !.deferFn = r]} /\ requestApproval(s, a)
    BY <1>7 DEF Follows
  <2>3. a \in Approval /\ a.req = r /\ a.step = "waiting"
    BY ApprovalFacts
  <2> HIDE DEF a
  <2>4. (Still /\ refuses(svc, a)) \/ Enqueues(a)
    BY <1>0, <2>2, <2>3, RequestSorts
  <2>5. ~ refuses(svc, a)
    <3>1. svc.current # NoApproval => svc.current \in Queued(svc)
      BY <1>0, OrderlyFacts
    <3> QED
      BY <2>1, <2>3, <3>1 DEF refuses, Queueable
  <2>6. a \notin Queued(svc)
    BY <2>0, <2>3, SettledKinds DEF Inv, Core, NoGhostApproval, FollowUp
  <2>7. /\ QueueMixes' /\ OneId' /\ svc'.current = a
        /\ svc'.window = svc.window /\ sheets' = sheets
        /\ \A w \in sheets' : Mounted(w)' => Mounted(w)
    <3>1. sheets' \subseteq Sheet
      BY <1>0 DEF ServiceTyped
    <3> QED
      BY <2>1, <2>3, <2>4, <2>5, <2>6, <3>1, EnqueuedFacts
  <2>8. \A q \in Request : ~ FollowUp(q)'
    BY <1>1, <2>1, SettledKinds DEF FollowUp
  <2>9. Exclusive' /\ FollowedUp'
    BY <1>0, <2>8 DEF FlowSorted, ScreenInv, Exclusive, FollowedUp
  <2>10. PopupFits' /\ WindowFits'
    BY <2>1, <2>3, <2>7, ApprovalFacts DEF PopupFits, WindowFits
  <2>11. ShownFits'
    BY <2>1, <2>3, <2>7 DEF ShownFits, ShowsSignature
  <2> QED
    BY <1>0, <2>7, <2>9, <2>10, <2>11 DEF ScreenInv
<1> QED
  BY <1>0, <1>4, <1>5, <1>6, <1>7 DEF FlowSorted

-----------------------------------------------------------------------------
\* What the methods of the service reject.

\* Some promises are rejected, and their transactions leave the signing list.
Rejects ==
  /\ \A q \in Request : settled'[q] = settled[q] \/ (settled'[q] = Rejected /\ q \notin signing')
  /\ signing' \subseteq signing /\ Queued(svc') \subseteq Queued(svc)
  /\ \A q \in signing \ signing' : settled'[q] = Rejected \/ Queued(svc') = {}
  /\ svc'.deferFn = svc.deferFn

\* s is the service, or what is left of it once it is emptied or has no window.
PartOf(s) == /\ s \in Service /\ s.deferFn = svc.deferFn
             /\ Queued(s) \subseteq Queued(svc)

LEMMA PartsOfService ==
  ASSUME svc \in Service
  PROVE  /\ PartOf(svc) /\ PartOf(emptied(svc)) /\ emptied(svc).window = svc.window
         /\ emptied(svc).current = NoApproval
         /\ \A s : PartOf(s) => /\ PartOf([s EXCEPT !.window = NoWindow])
                                /\ [s EXCEPT !.window = NoWindow].window = NoWindow
<1>1. <<>> \in Seq(Approval) /\ DOMAIN <<>> = {}
  OBVIOUS
<1> DEFINE q == <<>>
<1>2. /\ q \in Seq(Approval) /\ DOMAIN q = {}
      /\ emptied(svc) = [svc EXCEPT !.queue = q, !.current = NoApproval]
  BY <1>1 DEF emptied
<1> HIDE DEF q
<1>3. /\ PartOf(emptied(svc)) /\ emptied(svc).window = svc.window
      /\ emptied(svc).current = NoApproval
  BY <1>2 DEF PartOf, Service, Queued
<1>4. NoWindow \in 0 .. MaxSheets
  BY NotificationAssumption DEF NoWindow
<1>5. \A s : PartOf(s) => /\ PartOf([s EXCEPT !.window = NoWindow])
                          /\ [s EXCEPT !.window = NoWindow].window = NoWindow
  BY <1>4 DEF PartOf, Service, Queued
<1> QED
  BY <1>3, <1>5 DEF PartOf

LEMMA EmptiedKeeps ==
  ASSUME NEW s \in Service
  PROVE  /\ emptied(s).window = s.window /\ emptied(s).deferFn = s.deferFn
         /\ emptied(s).current = NoApproval /\ Queued(emptied(s)) = {}
<1> DEFINE q == <<>>
<1>1. emptied(s) = [s EXCEPT !.queue = q, !.current = NoApproval]
  BY DEF emptied
<1> HIDE DEF q
<1>2. emptied(s).window = s.window /\ emptied(s).deferFn = s.deferFn
      /\ emptied(s).current = NoApproval
  BY <1>1 DEF Service
<1> QED
  BY <1>2, EmptiedFacts

LEMMA DequeueKeeps ==
  ASSUME NEW s \in Service, NEW a
  PROVE  dequeue(s, a).window = s.window /\ dequeue(s, a).deferFn = s.deferFn
<1> DEFINE t == deleteApproval(s, a)
<1>1. t.window = s.window /\ t.deferFn = s.deferFn /\ DOMAIN t = DOMAIN s
  <2>1. CASE a # NoApproval /\ Len(s.queue) > 1
    <3> DEFINE w == Without(s.queue, a)
    <3>1. t = [s EXCEPT !.queue = w]
      BY <2>1 DEF deleteApproval
    <3> HIDE DEF w, t
    <3> QED
      BY <3>1 DEF Service
  <2>2. CASE ~ (a # NoApproval /\ Len(s.queue) > 1)
    <3>1. t = emptied(s)
      BY <2>2 DEF deleteApproval
    <3>2. emptied(s) \in Service
      BY EmptiedFacts
    <3> QED
      BY <3>1, <3>2, EmptiedKeeps DEF Service
  <2> QED
    BY <2>1, <2>2
<1> DEFINE c == IF t.queue = <<>> THEN NoApproval ELSE Head(t.queue)
<1>2. dequeue(s, a) = [t EXCEPT !.current = c]
  BY DEF dequeue, firstCurrent
<1> HIDE DEF t, c
<1>3. "window" \in DOMAIN s /\ "deferFn" \in DOMAIN s
  BY DEF Service
<1> QED
  BY <1>1, <1>2, <1>3

LEMMA RejectAllRejects ==
  ASSUME ServiceTyped, NEW s, PartOf(s), NEW ss, rejectAllApprovals(s, ss)
  PROVE  Rejects /\ svc'.window = s.window /\ svc'.current = NoApproval /\ sheets' = ss
<1>1. /\ settled' = rejecting({a.req : a \in Queued(s)}) /\ svc' = emptied(s)
      /\ signing' = {} /\ sheets' = ss
  BY DEF rejectAllApprovals
<1>2. /\ Queued(svc') = {} /\ svc'.window = s.window /\ svc'.deferFn = s.deferFn
      /\ svc'.current = NoApproval
  BY <1>1, EmptiedKeeps DEF PartOf
<1>3. \A q \in Request : settled'[q] = settled[q] \/ settled'[q] = Rejected
  BY <1>1, RejectingFacts
<1> QED
  BY <1>1, <1>2, <1>3 DEF Rejects, PartOf

LEMMA RemoveRejects ==
  ASSUME ServiceTyped, NEW s, PartOf(s), NEW id, removeSheet(s, id)
  PROVE  /\ Rejects
         /\ sheets' = {w \in sheets : w.id # id}
         /\ IF id # NoWindow /\ id = s.window
            THEN svc'.window = NoWindow /\ svc'.current = NoApproval
            ELSE svc' = s /\ settled' = settled
<1>1. CASE id # NoWindow /\ id = s.window
  <2> DEFINE t == [s EXCEPT !.window = NoWindow]
             rest == {w \in sheets : w.id # id}
  <2>1. rejectAllApprovals(t, rest)
    BY <1>1 DEF removeSheet
  <2>2. PartOf(t) /\ t.window = NoWindow
    BY PartsOfService DEF ServiceTyped
  <2> HIDE DEF t, rest
  <2>3. Rejects /\ svc'.window = t.window /\ svc'.current = NoApproval /\ sheets' = rest
    BY <2>1, <2>2, RejectAllRejects
  <2> QED
    BY <1>1, <2>2, <2>3 DEF rest
<1>2. CASE ~ (id # NoWindow /\ id = s.window)
  <2>1. svc' = s /\ sheets' = {w \in sheets : w.id # id} /\ signing' = signing
        /\ settled' = settled
    BY <1>2 DEF removeSheet
  <2> QED
    BY <1>2, <2>1 DEF Rejects, PartOf
<1> QED
  BY <1>1, <1>2

LEMMA RejectNowRejects ==
  ASSUME ServiceTyped, NEW s, PartOf(s), Orderly(s), NEW a \in Approval, rejectNow(s, a)
  PROVE  Rejects /\ svc'.window = s.window
<1>1. /\ settled' = rejecting({a.req}) /\ signing' = signing \ {a.req}
      /\ svc' = dequeue(s, a) \/ svc' = emptied(s)
  BY DEF rejectNow
<1>2. /\ Queued(svc') \subseteq Queued(svc) /\ svc'.window = s.window
      /\ svc'.deferFn = svc.deferFn
  <2>1. CASE svc' = dequeue(s, a)
    BY <2>1, DequeueKeeps, DequeueFacts DEF PartOf
  <2>2. CASE svc' = emptied(s)
    BY <2>2, EmptiedKeeps DEF PartOf
  <2> QED
    BY <1>1, <2>1, <2>2
<1>3. \A q \in Request : settled'[q] = IF q = a.req THEN Rejected ELSE settled[q]
  BY <1>1, RejectingFacts
<1>4. a.req \in Request /\ signing \subseteq Request
  BY ApprovalFacts DEF ServiceTyped
<1> QED
  BY <1>1, <1>2, <1>3, <1>4 DEF Rejects

\* rejectApproval of the one approval there is closes the sheet first.
LEMMA RejectApprovalRejects ==
  ASSUME ServiceTyped, Orderly(svc), NEW win, svc.current # NoApproval, rejectApproval(win)
  PROVE  /\ Rejects
         /\ \/ /\ closing' = closing /\ svc'.window = svc.window /\ sheets' = sheets
            \/ /\ closing' # NotClosing /\ svc'.window = NoWindow
               /\ sheets' \subseteq sheets
<1>0. svc \in Service /\ svc.current \in Approval
  BY DEF ServiceTyped, Service
<1>1. CASE Len(svc.queue) <= 1 /\ svc.window # NoWindow
  <2>1. /\ closing' = [approval |-> svc.current, win |-> win]
        /\ removeSheet(emptied(svc), svc.window)
    BY <1>1 DEF rejectApproval
  <2>2. PartOf(emptied(svc)) /\ emptied(svc).window = svc.window
    BY <1>0, PartsOfService
  <2>3. Rejects /\ svc'.window = NoWindow /\ sheets' \subseteq sheets
    BY <1>1, <2>1, <2>2, RemoveRejects
  <2>4. closing' # NotClosing
    BY <2>1 DEF NotClosing
  <2> QED
    BY <2>3, <2>4
<1>2. CASE ~ (Len(svc.queue) <= 1 /\ svc.window # NoWindow)
  <2>1. rejectNow(svc, svc.current) /\ sheets' = sheets /\ closing' = closing
    BY <1>2 DEF rejectApproval
  <2> QED
    BY <1>0, <2>1, PartsOfService, RejectNowRejects
<1> QED
  BY <1>1, <1>2

LEMMA ResolveSorts ==
  ASSUME ServiceTyped, Orderly(svc), NEW ui, NEW from, svc.current # NoApproval,
         resolveApproval(ui, from)
  PROVE  /\ svc.current \in Approval /\ svc.current \in Queued(svc)
         /\ \A q \in Request : settled'[q] = IF q = svc.current.req THEN Resolved(ui, from)
                                             ELSE settled[q]
         /\ Queued(svc') = Queued(svc) \ {svc.current}
         /\ svc'.window = svc.window /\ svc'.deferFn = svc.deferFn
         /\ sheets' = sheets /\ signing' = signing /\ closing' = closing
<1>0. svc \in Service /\ svc.current \in Approval
  BY DEF ServiceTyped, Service
<1>1. svc.current \in Queued(svc)
  BY <1>0, OrderlyFacts
<1>2. /\ settled' = [settled EXCEPT ![svc.current.req] = Resolved(ui, from)]
      /\ svc' = dequeue(svc, svc.current)
      /\ sheets' = sheets /\ signing' = signing /\ closing' = closing
  BY DEF resolveApproval
<1>3. /\ Queued(svc') = Queued(svc) \ {svc.current}
      /\ svc'.window = svc.window /\ svc'.deferFn = svc.deferFn
  BY <1>0, <1>2, DequeueFacts, DequeueKeeps
<1>4. svc.current.req \in Request
  BY <1>0, ApprovalFacts
<1> QED
  BY <1>0, <1>1, <1>2, <1>3, <1>4 DEF ServiceTyped

-----------------------------------------------------------------------------
\* The sheets, kept by the user and by themselves.

LEMMA RejectsQuietly ==
  ASSUME ScreenInv, Calm, Rejects
  PROVE  Told' /\ QueueMixes' /\ \A r \in Request : ~ FollowUp(r)'
<1>1. \A q \in Request : settled'[q] = Unsettled \/ settled'[q] = Rejected
  BY DEF Calm, Rejects
<1> QED
  BY <1>1, SettledKinds DEF Told, FollowUp, Rejects, ScreenInv, QueueMixes

\* An answer of the user that is not a signature: whatever it rejects or
\* resolves, every sheet looks again.
LEMMA ResolvesQuietly ==
  ASSUME ServiceTyped, Orderly(svc), ScreenInv, Calm, svc.current # NoApproval,
         NEW from, resolveApproval(FALSE, from)
  PROVE  /\ Told' /\ QueueMixes' /\ OneId' /\ \A r \in Request : ~ FollowUp(r)'
         /\ svc'.window = svc.window /\ closing' = closing
<1>1. /\ \A q \in Request : settled'[q] = IF q = svc.current.req THEN Resolved(FALSE, from)
                                          ELSE settled[q]
      /\ Queued(svc') = Queued(svc) \ {svc.current} /\ svc'.window = svc.window
      /\ sheets' = sheets /\ closing' = closing
  BY ResolveSorts
<1>2. \A q \in Request : settled'[q] = Unsettled \/ settled'[q] = Resolved(FALSE, from)
  BY <1>1 DEF Calm
<1>3. Resolved(FALSE, from).st = "resolved" /\ Resolved(FALSE, from).ui = FALSE
  BY SettledKinds
<1>4. Told' /\ \A r \in Request : ~ FollowUp(r)'
  BY <1>2, <1>3, SettledKinds DEF Told, FollowUp
<1>5. QueueMixes' /\ OneId'
  BY <1>1 DEF ScreenInv, QueueMixes, OneId
<1> QED
  BY <1>1, <1>4, <1>5

LEMMA ScreenConfirm ==
  ASSUME Inv, ServiceTyped', ScreenInv, NEW w \in sheets, Confirm(w)
  PROVE  /\ ScreenInv'
         /\ svc.current # NoApproval
         /\ svc.current.step = "approve" => w.shown = svc.current
<1>0. /\ ServiceTyped /\ Orderly(svc) /\ svc \in Service
  BY TypeOfService DEF Inv, Core, QueueConsistent, Orderly, ServiceTyped
<1>1. /\ Calm /\ task = NoTask /\ closing = NotClosing /\ popup = NoPopup /\ Mounted(w)
      /\ w.shown # NoApproval /\ popup' = popup
  BY DEF Confirm, UserMayAct, Usable, Front, Mounted
<1>2. ~ Following /\ \A r \in Request : ~ FollowUp(r)
  BY <1>1, CalmFollows
<1>3. svc.window # NoWindow
  BY <1>0, <1>1 DEF Mounted, ServiceTyped, Sheet, NoWindow
<1>4. svc.current # NoApproval
  BY <1>1, <1>2, <1>3, TaskKinds DEF ScreenInv, WindowFits
<1>5. \/ w.shown = svc.current
      \/ svc.current.step = "waiting" /\ ShowsSignature(w)
  BY <1>1, <1>2, TaskKinds DEF ScreenInv, ShownFits
<1>6. w.shown \in Approval
  BY <1>0, <1>1 DEF ServiceTyped, Sheet
<1> DEFINE ui == w.shown.step = "approve" /\ Signs(w.shown.req)
<1>7. resolveApproval(ui, NoRequest) /\ task' = IF ui THEN ShowingPopup ELSE Activating(svc.window)
  BY <1>4 DEF Confirm
<1>8. CASE ~ ui
  <2>0. resolveApproval(FALSE, NoRequest)
    BY <1>7, <1>8
  <2>1. /\ Told' /\ QueueMixes' /\ OneId' /\ \A r \in Request : ~ FollowUp(r)'
        /\ svc'.window = svc.window /\ closing' = closing
    BY <1>0, <1>1, <1>4, <2>0, ResolvesQuietly
  <2>2. task' = Activating(svc.window)
    BY <1>7, <1>8
  <2>3. ScreenInv'
    BY <1>1, <2>1, <2>2, ScreenLooksAgain
  <2> QED
    BY <1>4, <1>5, <2>3
<1>9. CASE ui
  <2>0. resolveApproval(TRUE, NoRequest) /\ task' = ShowingPopup
    BY <1>7, <1>9
  <2>a. PICK a \in Approval : a = svc.current
    BY <1>0, <1>4 DEF Service
  <2>b. PICK r \in Request : r = a.req
    BY ApprovalFacts
  <2>1. /\ a \in Queued(svc)
        /\ \A q \in Request : settled'[q] = IF q = r THEN Resolved(TRUE, NoRequest)
                                            ELSE settled[q]
        /\ Queued(svc') = Queued(svc) \ {a}
        /\ svc'.window = svc.window
        /\ sheets' = sheets /\ closing' = closing
    BY <1>0, <1>4, <2>0, <2>a, <2>b, ResolveSorts
  <2>2. Asked(r) = a
    BY <2>1, <2>b DEF Inv, Core, NoGhostApproval
  <2>3. a.step \in {"approve", "waiting"} /\ Queueable(a)
    BY <1>5, <1>9, <2>a DEF Queueable
  <2>4. stage[r] \in {"approve", "waiting"}
    BY <2>2, <2>3, ApprovalFacts DEF Asked, NoApproval
  <2>5. stage' = stage
    BY DEF Confirm, flowVars
  <2>6. FollowUp(r)' /\ \A q \in Request \ {r} : settled'[q] = Unsettled /\ ~ FollowUp(q)'
    <3>1. Resolved(TRUE, NoRequest).st = "resolved" /\ Resolved(TRUE, NoRequest).ui = TRUE
      BY SettledKinds
    <3>2. settled'[r] = Resolved(TRUE, NoRequest)
      BY <2>1
    <3>3. \A q \in Request \ {r} : settled'[q] = Unsettled
      BY <1>1, <2>1 DEF Calm
    <3> QED
      BY <3>1, <3>2, <3>3, SettledKinds DEF FollowUp
  <2>7. Following'
    BY <2>6 DEF Following
  <2>8. QueueMixes' /\ \A b \in Queued(svc)' : Queueable(b)
    BY <2>1, <2>3 DEF ScreenInv, QueueMixes
  <2>9. \A v \in sheets' : Mounted(v)' => v = w
    BY <1>1, <2>1 DEF Mounted, ScreenInv, OneId
  <2>10. ShowsSignature(w)
    BY <1>6, <1>9, ApprovalFacts DEF ShowsSignature
  <2>11. FollowedUp'
    BY <1>3, <2>0, <2>1, <2>4, <2>5, <2>6, <2>8, <2>9, <2>10 DEF FollowedUp, ShowsSignature
  <2>12. Exclusive' /\ OneId' /\ Told'
    <3>1. settled'[r].st # "no"
      BY <2>6 DEF FollowUp
    <3> QED
      BY <1>1, <2>0, <2>1, <2>6, <3>1, TaskKinds DEF Exclusive, ScreenInv, OneId, Told
  <2>13. ShownFits' /\ PopupFits' /\ WindowFits'
    BY <2>7 DEF ShownFits, PopupFits, WindowFits
  <2>14. ScreenInv'
    BY <2>8, <2>11, <2>12, <2>13 DEF ScreenInv
  <2> QED
    BY <1>4, <1>5, <2>14
<1> QED
  BY <1>8, <1>9

\* The reject button, and a popup that is closed without a result.
LEMMA ScreenRejecting ==
  ASSUME Inv, ServiceTyped', ScreenInv, Calm, task = NoTask, closing = NotClosing,
         popup' = NoPopup, rejecting_current
  PROVE  ScreenInv' /\ (Rejects \/ notificationVars' = notificationVars)
<1>0. /\ ServiceTyped /\ Orderly(svc) /\ svc \in Service
  BY TypeOfService DEF Inv, Core, QueueConsistent, Orderly, ServiceTyped
<1>1. CASE svc.current # NoApproval
  <2>1. /\ rejectApproval(svc.window)
        /\ task' = IF closing' = NotClosing THEN Activating(svc.window) ELSE NoTask
    BY <1>1 DEF rejecting_current
  <2>2. /\ Rejects
        /\ \/ closing' = closing /\ svc'.window = svc.window /\ sheets' = sheets
           \/ closing' # NotClosing /\ svc'.window = NoWindow /\ sheets' \subseteq sheets
    BY <1>0, <1>1, <2>1, RejectApprovalRejects
  <2>3. Told' /\ QueueMixes' /\ \A r \in Request : ~ FollowUp(r)'
    BY <2>2, RejectsQuietly
  <2>4. OneId'
    BY <2>2 DEF ScreenInv, OneId
  <2>5. CASE closing' = NotClosing
    <3>1. task' = Activating(svc.window) /\ svc'.window \in {svc.window, NoWindow}
      BY <2>1, <2>2, <2>5
    <3> QED
      BY <2>2, <2>3, <2>4, <2>5, <3>1, ScreenLooksAgain
  <2>6. CASE closing' # NotClosing
    <3>1. task' = NoTask /\ svc'.window = NoWindow
      BY <2>1, <2>2, <2>6
    <3>2. Exclusive' /\ task'.do # "popup"
      BY <3>1, TaskKinds DEF Exclusive
    <3> QED
      BY <2>2, <2>3, <2>4, <3>1, <3>2, ScreenClosed
  <2> QED
    BY <2>5, <2>6
<1>2. CASE svc.current = NoApproval
  <2>1. notificationVars' = notificationVars /\ task' = Activating(svc.window)
    BY <1>2 DEF rejecting_current
  <2>2. UNCHANGED <<svc, sheets, signing, settled, closing>>
    BY <2>1 DEF notificationVars
  <2>3. \A r \in Request : ~ FollowUp(r)'
    BY <2>2, CalmFollows DEF FollowUp
  <2>4. OneId' /\ QueueMixes' /\ Told'
    BY <2>2 DEF ScreenInv, OneId, QueueMixes, Told
  <2> QED
    BY <2>1, <2>2, <2>3, <2>4, ScreenLooksAgain
<1> QED
  BY <1>1, <1>2

\* A sheet is removed while there is no popup to show or to close.
LEMMA ScreenRemove ==
  ASSUME Inv, ServiceTyped', ScreenInv, Calm, popup = NoPopup, popup' = popup,
         NEW id, removeSheet(svc, id), closing' = closing, task'.do # "popup", Exclusive',
         \/ task' = task
         \/ svc.current = NoApproval /\ (svc.window # NoWindow => id = svc.window)
  PROVE  ScreenInv' /\ Rejects
<1>0. ServiceTyped /\ svc \in Service
  BY TypeOfService DEF Inv, ServiceTyped
<1>1. PartOf(svc)
  BY <1>0, PartsOfService
<1>2. /\ Rejects
      /\ sheets' = {w \in sheets : w.id # id}
      /\ IF id # NoWindow /\ id = svc.window
         THEN svc'.window = NoWindow /\ svc'.current = NoApproval
         ELSE svc' = svc /\ settled' = settled
  BY <1>0, <1>1, RemoveRejects
<1>3. Told' /\ QueueMixes' /\ \A r \in Request : ~ FollowUp(r)'
  BY <1>2, RejectsQuietly
<1>4. OneId'
  BY <1>2 DEF ScreenInv, OneId
<1>5. CASE svc'.window = NoWindow
  BY <1>2, <1>3, <1>4, <1>5, ScreenClosed
<1>6. CASE svc'.window # NoWindow
  <2>1. svc' = svc /\ svc.window # NoWindow /\ id # svc.window /\ task' = task
    BY <1>2, <1>6
  <2>2. ~ Following /\ ~ Following' /\ FollowedUp'
    BY <1>3, CalmFollows DEF Following, FollowedUp
  <2>3. \A w \in sheets' : Mounted(w)' => w \in sheets /\ Mounted(w)
    BY <1>2, <2>1 DEF Mounted
  <2>4. ShownFits'
    BY <2>1, <2>2, <2>3 DEF ScreenInv, ShownFits, ShowsSignature
  <2>5. PopupFits' /\ WindowFits'
    BY <2>1, <2>2 DEF ScreenInv, PopupFits, WindowFits
  <2> QED
    BY <1>2, <1>3, <1>4, <2>2, <2>4, <2>5 DEF ScreenInv
<1> QED
  BY <1>5, <1>6

\* A step that leaves the service and its promises alone, and the sheets at
\* what they show or at what is current.
LEMMA ScreenLooks ==
  ASSUME Inv, ScreenInv, Calm, UNCHANGED <<svc, settled, closing>>, Exclusive',
         task' = task \/ (task.do = "popup" /\ task' = NoTask)
           \/ (task.do = "activate" /\ task' = NoTask /\ svc.current # NoApproval),
         (task'.do = "popup" \/ popup' # NoPopup) => (task.do = "popup" \/ popup # NoPopup),
         \A v \in sheets' : \E w \in sheets :
           v.id = w.id /\ (v.ready => v.shown = svc.current
                                      \/ (v = w /\ (task.do = "activate" => task' = task))),
         OneId'
  PROVE  ScreenInv'
<1>1. \A r \in Request : ~ FollowUp(r) /\ ~ FollowUp(r)'
  BY CalmFollows DEF FollowUp
<1>2. ~ Following /\ ~ Following' /\ FollowedUp' /\ Told' /\ QueueMixes'
  BY <1>1 DEF Following, FollowedUp, ScreenInv, Told, QueueMixes
<1>3. PopupFits' /\ WindowFits'
  BY <1>2, TaskKinds DEF ScreenInv, PopupFits, WindowFits
<1>4. ShownFits'
  <2> SUFFICES ASSUME task'.do # "activate", closing = NotClosing,
                      NEW v \in sheets', Mounted(v)'
               PROVE  \/ v.shown = svc.current
                      \/ svc.current.step = "waiting" /\ ShowsSignature(v)
    BY DEF ShownFits, ShowsSignature
  <2>1. CASE v.shown = svc.current
    BY <2>1
  <2>2. CASE v \in sheets /\ (task.do = "activate" => task' = task)
    <3>1. v \in sheets /\ Mounted(v) /\ task.do # "activate"
      BY <2>2 DEF Mounted
    <3>2. \A w \in sheets : Mounted(w) =>
            w.shown = svc.current \/ (svc.current.step = "waiting" /\ ShowsSignature(w))
      BY <1>2, <3>1 DEF ScreenInv, ShownFits
    <3> QED
      BY <3>1, <3>2
  <2> QED
    BY <2>1, <2>2 DEF Mounted
<1> QED
  BY <1>2, <1>3, <1>4 DEF ScreenInv

LEMMA ScreenUser ==
  ASSUME Inv, ServiceTyped', ScreenInv, User
  PROVE  ScreenInv'
<1>0. /\ ServiceTyped /\ Orderly(svc) /\ svc \in Service /\ PartOf(svc)
  BY TypeOfService, PartsOfService DEF Inv, Core, QueueConsistent, Orderly, ServiceTyped
<1>1. ASSUME NEW w \in sheets, Confirm(w) PROVE ScreenInv'
  BY <1>1, ScreenConfirm
<1>2. ASSUME NEW w \in sheets, Reject(w) PROVE ScreenInv'
  BY <1>2, ScreenRejecting DEF Reject, UserMayAct, Usable, Front
<1>3. ASSUME NEW w \in sheets, CancelAll(w) PROVE ScreenInv'
  <2>1. /\ Calm /\ closing' = NotClosing /\ popup' = NoPopup
        /\ rejectAllApprovals(svc, sheets) /\ task' = Activating(svc.window)
    BY <1>3 DEF CancelAll, UserMayAct, Usable, Front
  <2>2. Rejects /\ svc'.window = svc.window /\ sheets' = sheets
    BY <1>0, <2>1, RejectAllRejects
  <2>3. Told' /\ QueueMixes' /\ OneId' /\ \A r \in Request : ~ FollowUp(r)'
    BY <2>1, <2>2, RejectsQuietly DEF ScreenInv, OneId
  <2> QED
    BY <2>1, <2>2, <2>3, ScreenLooksAgain
<1>4. ASSUME NEW w \in sheets, Dismiss(w) PROVE ScreenInv'
  <2>1. /\ Calm /\ popup = NoPopup /\ popup' = popup /\ removeSheet(svc, w.id)
        /\ closing' = closing /\ task' = task /\ task = NoTask
    BY <1>4 DEF Dismiss, UserMayAct, Front
  <2>2. Exclusive' /\ task'.do # "popup"
    BY <2>1, TaskKinds DEF ScreenInv, Exclusive
  <2> QED
    BY <2>1, <2>2, ScreenRemove
<1>5. CASE ClosePopup
  <2>1. Calm /\ task = NoTask /\ closing = NotClosing /\ popup' = NoPopup
    BY <1>5 DEF ClosePopup, UserMayAct
  <2>2. CASE rejecting_current
    BY <2>1, <2>2, ScreenRejecting
  <2>3. CASE UNCHANGED <<notificationVars, task>>
    <3>1. UNCHANGED <<svc, sheets, settled, closing, task>>
      BY <2>3 DEF notificationVars
    <3>2. Exclusive' /\ OneId'
      BY <2>1, <3>1 DEF ScreenInv, Exclusive, OneId
    <3> QED
      BY <2>1, <3>1, <3>2, TaskKinds, ScreenLooks
  <2> QED
    BY <1>5, <2>2, <2>3 DEF ClosePopup
<1>6. CASE Retry
  <2>1. /\ Calm /\ task = NoTask /\ UNCHANGED <<svc, sheets, settled, closing, task>>
        /\ closing = NotClosing
    BY <1>6 DEF Retry, UserMayAct, notificationVars
  <2>2. Exclusive' /\ OneId'
    BY <2>1 DEF ScreenInv, Exclusive, OneId
  <2>3. popup # NoPopup
    BY <1>6 DEF Retry, NoPopup
  <2> QED
    BY <2>1, <2>2, <2>3, TaskKinds, ScreenLooks
<1> QED
  BY <1>1, <1>2, <1>3, <1>4, <1>5, <1>6 DEF User

LEMMA ScreenInterface ==
  ASSUME Inv, ServiceTyped', ScreenInv, Interface
  PROVE  ScreenInv'
<1>0. /\ ServiceTyped /\ Orderly(svc) /\ svc \in Service /\ popup \in Message
  BY TypeParts DEF Inv, Core, QueueConsistent, Orderly, ServiceTyped, ScreenTyped
<1>1. ASSUME NEW w \in sheets, Mount(w) PROVE ScreenInv'
  <2> DEFINE new == [w EXCEPT !.shown = svc.current, !.ready = TRUE]
  <2>1. /\ Calm /\ ~ w.ready /\ sheets' = (sheets \ {w}) \cup {new}
        /\ UNCHANGED <<svc, settled, closing, popup, task>>
    BY <1>1 DEF Mount
  <2>2. new.id = w.id /\ new.shown = svc.current
    BY <1>0 DEF ServiceTyped, Sheet
  <2> HIDE DEF new
  <2>3. OneId' /\ Exclusive'
    BY <2>1, <2>2 DEF ScreenInv, OneId, Exclusive
  <2> QED
    BY <2>1, <2>2, <2>3, ScreenLooks
<1>2. CASE Activate
  <2>0. Calm /\ task.do = "activate" /\ task' = NoTask /\ UNCHANGED <<closing, popup>>
    BY <1>2 DEF Activate
  <2>1. popup = NoPopup
    BY <2>0, TaskKinds DEF ScreenInv, Exclusive
  <2>a. Exclusive' /\ task'.do # "popup"
    BY <2>0, <2>1, TaskKinds DEF Exclusive
  <2>2. CASE svc.current = NoApproval
    <3>1. removeSheet(svc, task.win)
      BY <1>2, <2>2 DEF Activate
    <3>2. svc.window # NoWindow => task.win = svc.window
      BY <2>0, <2>2, CalmFollows DEF ScreenInv, WindowFits
    <3> QED
      BY <2>0, <2>1, <2>2, <2>a, <3>1, <3>2, ScreenRemove
  <2>3. CASE svc.current # NoApproval
    <3> DEFINE look(w) == IF w.ready THEN [w EXCEPT !.shown = svc.current] ELSE w
    <3>1. sheets' = {look(w) : w \in sheets} /\ UNCHANGED <<svc, settled>>
      BY <1>2, <2>3 DEF Activate
    <3>2. \A w \in sheets : /\ look(w).id = w.id
                            /\ look(w).ready => look(w).shown = svc.current
      BY <1>0 DEF ServiceTyped, Sheet
    <3> HIDE DEF look
    <3>3. OneId'
      BY <3>1, <3>2 DEF ScreenInv, OneId
    <3> QED
      BY <2>0, <2>3, <2>a, <3>1, <3>2, <3>3, TaskKinds, ScreenLooks
  <2> QED
    BY <2>2, <2>3
<1>3. CASE ShowPopup
  <2>1. /\ Calm /\ task.do = "popup" /\ task' = NoTask
        /\ UNCHANGED <<svc, sheets, settled, closing>>
    BY <1>3 DEF ShowPopup, notificationVars
  <2>2. Exclusive' /\ OneId'
    BY <2>1, TaskKinds DEF ScreenInv, Exclusive, OneId
  <2> QED
    BY <2>1, <2>2, TaskKinds, ScreenLooks
<1>4. CASE PopupMounts
  <2>1. Calm /\ UNCHANGED <<svc, sheets, settled, closing, task>>
    BY <1>4 DEF PopupMounts, notificationVars
  <2>2. popup # NoPopup
    BY <1>4 DEF PopupMounts, NoPopup
  <2>3. Exclusive' /\ OneId'
    BY <2>1, <2>2, TaskKinds DEF ScreenInv, Exclusive, OneId
  <2> QED
    BY <2>1, <2>2, <2>3, ScreenLooks
<1>5. CASE WaitingDone
  <2>1. Calm /\ popup # NoPopup /\ popup' = NoPopup /\ task' = Activating(svc.window)
    BY <1>5 DEF WaitingDone, NoPopup
  <2>2. closing = NotClosing
    BY <2>1 DEF ScreenInv, Exclusive
  <2>3. svc.current # NoApproval
    BY <2>1, CalmFollows DEF ScreenInv, PopupFits, NoApproval
  <2>4. CASE popup.for = svc.current
    <3>1. resolveApproval(FALSE, popup.result)
      BY <1>5, <2>4 DEF WaitingDone
    <3>2. /\ Told' /\ QueueMixes' /\ OneId' /\ \A r \in Request : ~ FollowUp(r)'
          /\ svc'.window = svc.window /\ closing' = closing
      BY <1>0, <2>1, <2>3, <3>1, ResolvesQuietly
    <3> QED
      BY <2>1, <2>2, <3>2, ScreenLooksAgain
  <2>5. CASE popup.for # svc.current
    <3>1. UNCHANGED <<svc, sheets, settled, closing>>
      BY <1>5, <2>5 DEF WaitingDone, notificationVars
    <3>2. /\ Told' /\ QueueMixes' /\ OneId' /\ \A r \in Request : ~ FollowUp(r)'
      BY <2>1, <3>1, CalmFollows DEF ScreenInv, Told, QueueMixes, OneId, FollowUp
    <3> QED
      BY <2>1, <2>2, <3>1, <3>2, ScreenLooksAgain
  <2> QED
    BY <2>4, <2>5
<1> QED
  BY <1>1, <1>2, <1>3, <1>4, <1>5 DEF Interface

LEMMA ClosedRejects ==
  ASSUME Inv, Closed
  PROVE  Rejects /\ svc'.window = NoWindow
<1>0. /\ ServiceTyped /\ Orderly(svc) /\ svc \in Service /\ closing # NotClosing
      /\ closing.approval \in Approval
  BY TypeOfService
     DEF Inv, Core, QueueConsistent, Orderly, ServiceTyped, ClosingAwaited, Closed
<1> DEFINE s == [svc EXCEPT !.window = NoWindow]
<1>1. PartOf(s) /\ s.window = NoWindow
  BY <1>0, PartsOfService
<1>2. s.queue = svc.queue /\ s.current = svc.current
  BY <1>0 DEF Service
<1>3. rejectNow(s, closing.approval)
  BY DEF Closed
<1> HIDE DEF s
<1>4. Orderly(s)
  BY <1>0, <1>2 DEF Orderly
<1> QED
  BY <1>0, <1>1, <1>3, <1>4, RejectNowRejects

LEMMA ScreenAfterClosing ==
  ASSUME Inv, ServiceTyped', ScreenInv, SheetClosed
  PROVE  ScreenInv'
<1>1. /\ Calm /\ closing # NotClosing /\ closing' = NotClosing /\ sheets' = sheets
      /\ task' = Activating(closing.win) /\ popup' = popup
  BY DEF SheetClosed, Closed
<1>2. popup = NoPopup
  BY <1>1 DEF ScreenInv, Exclusive
<1>3. Rejects /\ svc'.window = NoWindow
  BY ClosedRejects DEF SheetClosed
<1>4. Told' /\ QueueMixes' /\ OneId' /\ \A r \in Request : ~ FollowUp(r)'
  BY <1>1, <1>3, RejectsQuietly DEF ScreenInv, OneId
<1> QED
  BY <1>1, <1>2, <1>3, <1>4, ScreenLooksAgain

LEMMA ScreenNext ==
  ASSUME Inv, Inv', ScreenInv, [Next]_vars
  PROVE  ScreenInv'
<1>0. ServiceTyped'
  BY TypeParts, PTL DEF Inv
<1>1. ASSUME NEW r \in Request, Flow(r), noting(r) PROVE ScreenInv'
  BY <1>1, ScreenFlow
<1>2. CASE User
  BY <1>0, <1>2, ScreenUser
<1>3. CASE Interface
  BY <1>0, <1>3, ScreenInterface
<1>4. CASE SheetClosed
  BY <1>0, <1>4, ScreenAfterClosing
<1>5. CASE UNCHANGED vars
  BY <1>5 DEF vars, notificationVars, flowVars, ScreenInv, Told, Exclusive, OneId, QueueMixes,
     FollowedUp, FollowUp, Following, Mounted, ShowsSignature, ShownFits, PopupFits, WindowFits
<1> QED
  BY <1>1, <1>2, <1>3, <1>4, <1>5 DEF Next

LEMMA ScreenInit == Init => ScreenInv
<1> SUFFICES ASSUME Init PROVE ScreenInv
  OBVIOUS
<1>0. /\ svc.queue = <<>> /\ svc.current = NoApproval /\ svc.window = NoWindow /\ sheets = {}
      /\ task = NoTask /\ popup = NoPopup /\ closing = NotClosing
  BY DEF Init, FreshService
<1>1. DOMAIN <<>> = {}
  OBVIOUS
<1>2. Queued(svc) = {}
  BY <1>0, <1>1 DEF Queued
<1>3. \A r \in Request : settled[r] = Unsettled /\ ~ FollowUp(r)
  BY SettledKinds DEF Init, FollowUp
<1> QED
  BY <1>0, <1>2, <1>3, TaskKinds
     DEF ScreenInv, Told, Exclusive, OneId, QueueMixes, FollowedUp, Following, Mounted,
         ShownFits, PopupFits, WindowFits

-----------------------------------------------------------------------------
\* Consent and the signing list, kept by every step.

\* What a request for an approval adds to the queue and to the signing list.
LEMMA RequestMarks ==
  ASSUME ServiceTyped, Orderly(svc), NEW a \in Approval, a \notin Queued(svc),
         NEW s, s = svc \/ (\E r : s = [svc EXCEPT !.deferFn = r]), requestApproval(s, a)
  PROVE  /\ Queued(svc') \subseteq Queued(svc) \cup {a}
         /\ svc'.deferFn = s.deferFn
         /\ signing' = IF a.step = "approve" /\ Kind[a.req] = "tx"
                       THEN signing \cup {a.req} ELSE signing
<1>0. svc \in Service
  BY DEF ServiceTyped
<1>1. /\ (refuses(svc, a) /\ Still) \/ Enqueues(a)
      /\ svc'.deferFn = s.deferFn
      /\ signing' = IF a.step = "approve" /\ Kind[a.req] = "tx"
                    THEN signing \cup {a.req} ELSE signing
  BY RequestSorts
<1>2. Queued(enqueue(svc, a)) = Queued(svc) \cup {a}
  BY <1>0, EnqueueFacts
<1>3. Enqueues(a) => Queued(svc') = Queued(svc) \cup {a}
  BY <1>2 DEF Enqueues, Queued
<1> QED
  BY <1>1, <1>3, StillQueued

\* What a flow does to the signing list and to the approvals of the others.
Marks(r) ==
  /\ \A q \in Request \ {r} :
       /\ q \in signing' <=> q \in signing
       /\ Approve(q) \in Queued(svc') => Approve(q) \in Queued(svc)
  /\ svc'.deferFn = svc.deferFn \/ (svc'.deferFn = r /\ run'[r] # "none")
  /\ r \in signing' => r \in signing \/ (stage'[r] = "approve" /\ Kind[r] = "tx")
  /\ Approve(r) \in Queued(svc') => stage'[r] = "approve"
  /\ Asks(r) /\ stage'[r] = "approve" /\ Kind[r] = "tx" => r \in signing'
  /\ Follows(r) => signing' = signing

LEMMA FlowMarks ==
  ASSUME Inv, Inv', NEW r \in Request, FlowSorted(r)
  PROVE  Marks(r)
<1>0. ServiceTyped /\ svc \in Service /\ Orderly(svc)
  BY TypeOfService DEF Inv, Core, QueueConsistent, Orderly, ServiceTyped
<1>1. Approve(r) \in Queued(svc') => stage'[r] = "approve"
  <2>1. \A a \in Queued(svc') : Asked(a.req)' = a
    BY DEF Inv, Core, NoGhostApproval
  <2>2. Asked(r)' = Approve(r) => stage'[r] = "approve"
    BY DEF Asked, Connect, Approve, Waiting, NoApproval
  <2> QED
    BY <2>1, <2>2, ApprovalFacts
<1>2. \A q \in Request \ {r} : \A a \in Approval : a.req = r => Approve(q) # a
  BY ApprovalFacts
<1>3. CASE Answers(r) \/ GoesOn(r) \/ Processes(r) \/ Ends(r)
  <2>1. Queued(svc') = Queued(svc)
    BY <1>3, StillQueued DEF Answers, GoesOn, Processes, Ends
  <2>2. \A q \in Request \ {r} : q \in signing' <=> q \in signing
    BY <1>3 DEF Answers, GoesOn, Processes, Ends
  <2>3. svc'.deferFn = svc.deferFn \/ (svc'.deferFn = r /\ run'[r] # "none")
    BY <1>3 DEF Answers, GoesOn, Processes, Ends
  <2>4. r \in signing' => r \in signing
    BY <1>3 DEF Answers, GoesOn, Processes, Ends
  <2>5. ~ Asks(r) /\ ~ Follows(r)
    <3>1. CASE Ends(r)
      BY <1>3 DEF Answers, GoesOn, Processes, Asks, Follows, Ends
    <3> QED
      BY <1>3, <3>1 DEF Answers, GoesOn, Processes, Asks, Follows
  <2> QED
    BY <1>1, <2>1, <2>2, <2>3, <2>4, <2>5 DEF Marks
<1>4. CASE Asks(r)
  <2>1. PICK a \in Approval :
          /\ a \in {Connect(r), Approve(r)} /\ requestApproval(svc, a)
          /\ stage'[r] = a.step
    BY <1>4, ApprovalFacts DEF Asks
  <2>2. a.req = r
    BY <2>1, ApprovalFacts
  <2>3. Asked(r) = NoApproval
    BY <1>4, AskedFacts DEF Asks
  <2>4. a \notin Queued(svc)
    BY <2>2, <2>3, ApprovalFacts DEF Inv, Core, NoGhostApproval
  <2>5. /\ Queued(svc') \subseteq Queued(svc) \cup {a}
        /\ svc'.deferFn = svc.deferFn
        /\ signing' = IF a.step = "approve" /\ Kind[a.req] = "tx"
                      THEN signing \cup {a.req} ELSE signing
    BY <1>0, <2>1, <2>4, RequestMarks
  <2>6. ~ Follows(r)
    BY <1>4 DEF Asks, Follows
  <2> QED
    BY <1>1, <1>2, <2>1, <2>2, <2>5, <2>6 DEF Marks
<1>5. CASE Follows(r)
  <2>1. PICK s : /\ s = svc \/ (s = [svc EXCEPT !.deferFn = r] /\ run'[r] # "none")
                 /\ requestApproval(s, Waiting(r))
    BY <1>5 DEF Follows
  <2>2. Waiting(r) \in Approval /\ Waiting(r).req = r /\ Waiting(r).step = "waiting"
    BY ApprovalFacts
  <2>3. Waiting(r) \notin Queued(svc)
    BY <1>5, <2>2, SettledKinds DEF Inv, Core, NoGhostApproval, Follows, FollowUp
  <2>4. /\ Queued(svc') \subseteq Queued(svc) \cup {Waiting(r)}
        /\ svc'.deferFn = s.deferFn /\ signing' = signing
    <3>1. s = svc \/ (\E q : s = [svc EXCEPT !.deferFn = q])
      BY <2>1
    <3> QED
      BY <1>0, <2>1, <2>2, <2>3, <3>1, RequestMarks
  <2>5. s.deferFn = svc.deferFn \/ (s.deferFn = r /\ run'[r] # "none")
    BY <1>0, <2>1 DEF Service
  <2>6. ~ Asks(r)
    BY <1>5 DEF Asks, Follows
  <2> QED
    BY <1>1, <1>2, <2>2, <2>4, <2>5, <2>6 DEF Marks
<1> QED
  BY <1>3, <1>4, <1>5 DEF FlowSorted

LEMMA FlowFits ==
  ASSUME Inv, Inv', FlowInv, NEW r \in Request, FlowSorted(r)
  PROVE  RunFits(r)' /\ ConsentFits(r)' /\ SigningFits(r)'
<1>0. /\ Marks(r) /\ RunFits(r) /\ ConsentFits(r) /\ SigningFits(r)
      /\ consent' = consent /\ settled'[r] = Unsettled
  BY FlowMarks DEF FlowInv, FlowSorted
<1>1. settled'[r].st = "no"
  BY <1>0, SettledKinds
<1>2. Kind[r] = "tx" => Signs(r) /\ NeedsApproval(r)
  BY DEF Signs, NeedsApproval
<1>3. CASE Answers(r)
  <2>1. RunFits(r)'
    BY <1>0, <1>3 DEF RunFits, Answers
  <2>2. ConsentFits(r)'
    BY <1>0, <1>1, <1>3 DEF RunFits, ConsentFits, Answers
  <2>3. SigningFits(r)'
    <3>1. stage'[r] = "answered" /\ Approve(r) \notin Queued(svc')
          /\ (r \in signing' => r \in signing)
      BY <1>0, <1>3 DEF Answers, Marks
    <3>2. r \in signing => Running(r)' /\ run'[r] = run[r] /\ Kind[r] = "tx"
      <4>1. r \in signing => stage[r] # "process" /\ settled[r].st # "rejected"
        BY <1>0, <1>2 DEF RunFits, SigningFits
      <4>2. r \in signing => stage[r] \in {"waiting", "idle", "auto", "linking"}
        BY <1>3, <4>1 DEF Answers
      <4>3. r \in signing => run'[r] = run[r] /\ Kind[r] = "tx" /\ run[r] # "done"
        BY <1>0, <1>3, <4>1 DEF Answers, SigningFits
      <4>4. stage[r] = "waiting" => run[r] # "none"
        BY <1>0 DEF RunFits
      <4>5. stage[r] \in {"idle", "auto", "linking"} => r \notin signing
        BY <1>0 DEF RunFits, SigningFits, Running
      <4>6. run[r] \in Run
        BY TypeParts DEF Inv, FlowTyped
      <4> QED
        BY <4>2, <4>3, <4>4, <4>5, <4>6 DEF Running, Run
    <3>3. run'[r] = "done" => r \notin signing'
      BY <1>0, <3>1, <3>2 DEF Running
    <3> QED
      BY <1>1, <3>1, <3>2, <3>3 DEF SigningFits
  <2> QED
    BY <2>1, <2>2, <2>3
<1>4. CASE GoesOn(r)
  <2>1. RunFits(r)' /\ ConsentFits(r)'
    BY <1>0, <1>1, <1>4 DEF RunFits, ConsentFits, GoesOn
  <2>3. SigningFits(r)'
    BY <1>0, <1>1, <1>4 DEF RunFits, SigningFits, GoesOn, Running, Marks
  <2> QED
    BY <2>1, <2>3
<1>5. CASE Processes(r)
  <2>0. ~ Signs(r)
    BY <1>0, <1>5 DEF Processes, ConsentFits, FollowUp, Signs, NeedsApproval
  <2>1. RunFits(r)'
    BY <1>5, <2>0 DEF RunFits, Processes
  <2>2. ConsentFits(r)'
    BY <1>0, <1>1, <1>5 DEF ConsentFits, Processes
  <2>3. SigningFits(r)'
    BY <1>0, <1>1, <1>2, <1>5, <2>0 DEF SigningFits, Processes, UnderWay, Running, Marks
  <2> QED
    BY <2>1, <2>2, <2>3
<1>6. CASE Asks(r)
  <2>1. RunFits(r)' /\ ConsentFits(r)'
    BY <1>0, <1>1, <1>6 DEF RunFits, ConsentFits, Asks
  <2>3. SigningFits(r)'
    <3>1. run'[r] = "none" /\ stage'[r] \in {"connect", "approve"}
      BY <1>0, <1>6 DEF RunFits, Asks
    <3>2. r \notin signing
      BY <1>0, <1>6 DEF RunFits, SigningFits, Running, Asks
    <3> QED
      BY <1>0, <1>1, <1>6, <3>1, <3>2 DEF SigningFits, Running, Marks
  <2> QED
    BY <2>1, <2>3
<1>7. CASE Follows(r)
  <2>0. /\ stage'[r] = "waiting" /\ run'[r] # "none" /\ signing' = signing
        /\ run'[r] = "done" => run[r] = "done"
    BY <1>0, <1>7 DEF RunFits, Follows, Marks
  <2>1. RunFits(r)' /\ ConsentFits(r)'
    BY <1>0, <1>1, <1>7, <2>0 DEF RunFits, ConsentFits, Follows, FollowUp
  <2>3. SigningFits(r)'
    <3>1. r \in signing => Running(r)'
      BY <1>0, <1>7 DEF SigningFits, Running, Follows
    <3> QED
      BY <1>0, <1>1, <2>0, <3>1 DEF SigningFits, Marks
  <2> QED
    BY <2>1, <2>3
<1>8. CASE Ends(r)
  <2>0. /\ stage'[r] = stage[r] /\ stage[r] # "approve" /\ run'[r] \in {"done", "failed"}
        /\ stage[r] \notin {"idle", "auto", "connect", "linking", "approve"}
        /\ run'[r] = "done" => r \notin signing'
    BY <1>0, <1>8 DEF RunFits, Ends
  <2>1. RunFits(r)' /\ ConsentFits(r)'
    BY <1>0, <1>1, <1>8, <2>0 DEF RunFits, ConsentFits, Ends
  <2>3. SigningFits(r)'
    BY <1>0, <1>1, <2>0 DEF SigningFits, Running, Marks
  <2> QED
    BY <2>1, <2>3
<1> QED
  BY <1>3, <1>4, <1>5, <1>6, <1>7, <1>8 DEF FlowSorted

LEMMA FlowKeepsFlows ==
  ASSUME Inv, Inv', ScreenInv, FlowInv, NEW r \in Request, Flow(r), noting(r)
  PROVE  FlowInv'
<1>0. FlowSorted(r)
  BY FlowIsSorted DEF ScreenInv
<1>1. Marks(r) /\ consent' = consent
  BY <1>0, FlowMarks DEF FlowSorted
<1>2. ASSUME NEW q \in Request \ {r}
      PROVE  RunFits(q)' /\ ConsentFits(q)' /\ SigningFits(q)'
  <2>1. stage'[q] = stage[q] /\ run'[q] = run[q] /\ settled'[q] = settled[q]
    BY <1>0 DEF FlowSorted
  <2>2. /\ q \in signing' <=> q \in signing
        /\ Approve(q) \in Queued(svc') => Approve(q) \in Queued(svc)
    BY <1>1 DEF Marks
  <2>3. RunFits(q) /\ ConsentFits(q) /\ SigningFits(q)
    BY DEF FlowInv
  <2>4. RunFits(q)' /\ ConsentFits(q)'
    BY <1>1, <2>1, <2>3 DEF RunFits, ConsentFits
  <2>5. SigningFits(q)'
    BY <2>1, <2>2, <2>3 DEF SigningFits, Running
  <2> QED
    BY <2>4, <2>5
<1>3. RunFits(r)' /\ ConsentFits(r)' /\ SigningFits(r)'
  BY <1>0, FlowFits
<1>4. \A q \in Request : run[q] # "none" => run'[q] # "none"
  <2>1. run[r] # "none" => run'[r] # "none"
    <3>1. RunFits(r)
      BY DEF FlowInv
    <3> QED
      BY <1>0, <3>1 DEF FlowSorted, RunFits, Answers, GoesOn, Processes, Asks, Follows, Ends
  <2> QED
    BY <1>0, <2>1 DEF FlowSorted
<1>5. DeferFits'
  BY <1>1, <1>4 DEF FlowInv, DeferFits, Marks
<1> QED
  BY <1>2, <1>3, <1>5 DEF FlowInv

\* An answer: promises are settled, and controllers may be run again.
LEMMA AnswerKeepsFlows ==
  ASSUME FlowInv, stage' = stage, consent \subseteq consent', svc'.deferFn = svc.deferFn,
         Queued(svc') \subseteq Queued(svc), signing' \subseteq signing,
         \A q \in Request : /\ run'[q] = "none" <=> run[q] = "none"
                            /\ run'[q] = "done" => run[q] = "done"
                            /\ Running(q) => Running(q)'
                            /\ settled'[q].st = "rejected" => q \notin signing'
                            /\ stage[q] = "approve" /\ settled'[q].st = "resolved" =>
                                 q \in consent' /\ (settled'[q].ui <=> Signs(q))
                            /\ q \in signing \ signing' => Approve(q) \notin Queued(svc')
  PROVE  FlowInv'
<1>1. ASSUME NEW q \in Request
      PROVE  RunFits(q)' /\ ConsentFits(q)' /\ SigningFits(q)'
  <2>1. RunFits(q) /\ ConsentFits(q) /\ SigningFits(q)
    BY DEF FlowInv
  <2>2. RunFits(q)'
    BY <2>1 DEF RunFits
  <2>3. ConsentFits(q)'
    BY <2>1 DEF ConsentFits
  <2>4. SigningFits(q)'
    BY <2>1 DEF SigningFits, UnderWay
  <2> QED
    BY <2>2, <2>3, <2>4
<1>2. DeferFits'
  BY DEF FlowInv, DeferFits
<1> QED
  BY <1>1, <1>2 DEF FlowInv

LEMMA RejectsKeepsFlows ==
  ASSUME Inv', FlowInv, Calm, Rejects, stage' = stage, run' = run, consent' = consent
  PROVE  FlowInv'
<1>1. \A q \in Request : /\ settled'[q] = Unsettled \/ (settled'[q] = Rejected /\ q \notin signing')
                         /\ Running(q) => Running(q)'
  BY DEF Calm, Rejects, Running
<1>2. \A q \in Request : /\ settled'[q].st = "rejected" => q \notin signing'
                         /\ settled'[q].st # "resolved"
  BY <1>1, SettledKinds
<1>3. \A q \in Request : q \in signing \ signing' => Approve(q) \notin Queued(svc')
  <2>1. \A a \in Queued(svc') : settled'[a.req] = Unsettled
    BY DEF Inv, Core, NoGhostApproval
  <2>2. \A q \in Request : Approve(q) \in Queued(svc') => settled'[q] = Unsettled
    BY <2>1, ApprovalFacts
  <2> QED
    BY <2>2, PromiseFacts DEF Rejects
<1> QED
  BY <1>1, <1>2, <1>3, AnswerKeepsFlows DEF Rejects

\* The current approval is resolved with what is known of it.
LEMMA ResolveKeepsFlows ==
  ASSUME Inv, FlowInv, Calm, svc.current # NoApproval, NEW ui, NEW from,
         resolveApproval(ui, from), stage' = stage, run' = run, consent \subseteq consent',
         svc.current.step = "approve" =>
           svc.current.req \in consent' /\ (ui <=> Signs(svc.current.req))
  PROVE  FlowInv'
<1>0. ServiceTyped /\ Orderly(svc)
  BY TypeOfService DEF Inv, Core, QueueConsistent, Orderly
<1>1. /\ svc.current \in Approval /\ svc.current \in Queued(svc)
      /\ \A q \in Request : settled'[q] = IF q = svc.current.req THEN Resolved(ui, from)
                                          ELSE settled[q]
      /\ Queued(svc') = Queued(svc) \ {svc.current}
      /\ svc'.deferFn = svc.deferFn /\ signing' = signing
  BY <1>0, ResolveSorts
<1>2. Asked(svc.current.req) = svc.current
  BY <1>1 DEF Inv, Core, NoGhostApproval
<1>3. \A q \in Request : /\ settled'[q].st # "rejected"
                         /\ settled'[q].st = "resolved" =>
                              q = svc.current.req /\ settled'[q].ui = ui
  BY <1>1, SettledKinds DEF Calm
<1>4. stage[svc.current.req] = "approve" => svc.current.step = "approve"
  BY <1>1, <1>2, ApprovalFacts DEF Asked
<1>5. \A q \in Request : Running(q) => Running(q)'
  BY DEF Running
<1> QED
  BY <1>1, <1>3, <1>4, <1>5, AnswerKeepsFlows

\* The popup lets the controllers that wait for it go on.
LEMMA AmountKeepsFlows ==
  ASSUME FlowInv, UNCHANGED notificationVars, stage' = stage, consent' = consent, Calm,
         \A q \in Request : run'[q] = run[q] \/ (Running(q) /\ run'[q] \in {"amount", "running"})
                            \/ (run[q] # "none" /\ run'[q] = "amount")
  PROVE  FlowInv'
<1>1. UNCHANGED <<svc, signing, settled>>
  BY DEF notificationVars
<1>2. \A q \in Request : /\ run'[q] = "none" <=> run[q] = "none"
                         /\ run'[q] = "done" => run[q] = "done"
                         /\ Running(q) => Running(q)'
  BY DEF Running
<1> QED
  BY <1>1, <1>2, SettledKinds, AnswerKeepsFlows DEF Calm

LEMMA RejectingKeepsFlows ==
  ASSUME Inv, Inv', ScreenInv, FlowInv, Calm, task = NoTask, closing = NotClosing,
         popup' = NoPopup, rejecting_current, stage' = stage, run' = run, consent' = consent
  PROVE  FlowInv'
<1>0. ServiceTyped'
  BY TypeParts, PTL DEF Inv
<1>1. Rejects \/ notificationVars' = notificationVars
  BY <1>0, ScreenRejecting
<1>2. CASE notificationVars' = notificationVars
  BY <1>2, AmountKeepsFlows
<1> QED
  BY <1>1, <1>2, RejectsKeepsFlows

LEMMA AmountedFacts ==
  ASSUME TypeOK
  PROVE  \A q \in Request : amounted[q] = run[q] \/ (Running(q) /\ amounted[q] = "running")
BY DEF amounted, Running

LEMMA UserKeepsFlows ==
  ASSUME Inv, Inv', ScreenInv, FlowInv, User
  PROVE  FlowInv'
<1>0. ServiceTyped' /\ ServiceTyped /\ Orderly(svc) /\ svc \in Service /\ PartOf(svc)
  BY TypeParts, TypeOfService, PartsOfService, PTL
     DEF Inv, Core, QueueConsistent, Orderly, ServiceTyped
<1>1. ASSUME NEW w \in sheets, Confirm(w) PROVE FlowInv'
  <2> DEFINE ui == w.shown.step = "approve" /\ Signs(w.shown.req)
  <2>1. svc.current # NoApproval /\ (svc.current.step = "approve" => w.shown = svc.current)
    BY <1>0, <1>1, ScreenConfirm
  <2>2. /\ Calm /\ resolveApproval(ui, NoRequest) /\ stage' = stage /\ run' = run
        /\ consent' = IF w.shown.step = "approve" THEN consent \cup {w.shown.req} ELSE consent
    BY <1>1, <2>1 DEF Confirm, UserMayAct, flowVars
  <2>3. svc.current.step = "approve" =>
          svc.current.req \in consent' /\ (ui <=> Signs(svc.current.req))
    BY <2>1, <2>2
  <2>4. consent \subseteq consent'
    BY <2>2
  <2> HIDE DEF ui
  <2> QED
    BY <2>1, <2>2, <2>3, <2>4, ResolveKeepsFlows
<1>2. ASSUME NEW w \in sheets, Reject(w) PROVE FlowInv'
  BY <1>2, RejectingKeepsFlows DEF Reject, UserMayAct, Usable, Front, flowVars
<1>3. ASSUME NEW w \in sheets, CancelAll(w) PROVE FlowInv'
  <2>1. /\ Calm /\ rejectAllApprovals(svc, sheets) /\ stage' = stage /\ run' = run
        /\ consent' = consent
    BY <1>3 DEF CancelAll, UserMayAct, flowVars
  <2> QED
    BY <1>0, <2>1, RejectAllRejects, RejectsKeepsFlows
<1>4. ASSUME NEW w \in sheets, Dismiss(w) PROVE FlowInv'
  <2>1. /\ Calm /\ removeSheet(svc, w.id) /\ stage' = stage /\ run' = run
        /\ consent' = consent
    BY <1>4 DEF Dismiss, UserMayAct, flowVars
  <2> QED
    BY <1>0, <2>1, RemoveRejects, RejectsKeepsFlows
<1>5. CASE ClosePopup
  <2>1. /\ Calm /\ task = NoTask /\ closing = NotClosing /\ popup' = NoPopup
        /\ stage' = stage /\ run' = run /\ consent' = consent
        /\ rejecting_current \/ UNCHANGED notificationVars
    BY <1>5 DEF ClosePopup, UserMayAct, flowVars
  <2> QED
    BY <2>1, RejectingKeepsFlows, AmountKeepsFlows
<1>6. CASE Retry
  <2>1. /\ Calm /\ UNCHANGED notificationVars /\ stage' = stage /\ consent' = consent
        /\ run' = IF Signs(svc.deferFn) THEN [run EXCEPT ![svc.deferFn] = "amount"] ELSE amounted
    BY <1>6 DEF Retry, UserMayAct
  <2>2. svc.deferFn \in Request => run[svc.deferFn] # "none"
    BY DEF FlowInv, DeferFits
  <2>3. run \in [Request -> Run]
    BY TypeParts DEF Inv, FlowTyped
  <2>4. \A q \in Request : run'[q] = run[q] \/ (Running(q) /\ run'[q] \in {"amount", "running"})
                           \/ (run[q] # "none" /\ run'[q] = "amount")
    <3>1. CASE Signs(svc.deferFn)
      BY <2>1, <2>2, <2>3, <3>1
    <3>2. CASE ~ Signs(svc.deferFn)
      BY <2>1, <3>2, AmountedFacts DEF Inv
    <3> QED
      BY <3>1, <3>2
  <2> QED
    BY <2>1, <2>4, AmountKeepsFlows
<1> QED
  BY <1>1, <1>2, <1>3, <1>4, <1>5, <1>6 DEF User

LEMMA InterfaceKeepsFlows ==
  ASSUME Inv, Inv', ScreenInv, FlowInv, Interface
  PROVE  FlowInv'
<1>0. ServiceTyped' /\ ServiceTyped /\ Orderly(svc) /\ svc \in Service /\ PartOf(svc)
  BY TypeParts, TypeOfService, PartsOfService, PTL
     DEF Inv, Core, QueueConsistent, Orderly, ServiceTyped
<1>1. ASSUME NEW w \in sheets, Mount(w) PROVE FlowInv'
  <2>1. /\ UNCHANGED <<svc, signing, settled, stage, run, consent>> /\ Calm
    BY <1>1 DEF Mount, flowVars
  <2>2. \A q \in Request : Running(q)' <=> Running(q)
    BY <2>1 DEF Running
  <2> QED
    BY <2>1, <2>2, SettledKinds, AnswerKeepsFlows DEF Calm
<1>2. CASE Activate
  <2>1. /\ Calm /\ UNCHANGED <<stage, run, consent>>
        /\ removeSheet(svc, task.win) \/ UNCHANGED <<svc, signing, settled>>
    BY <1>2 DEF Activate, flowVars
  <2>2. CASE removeSheet(svc, task.win)
    BY <1>0, <2>1, <2>2, RemoveRejects, RejectsKeepsFlows
  <2>3. CASE UNCHANGED <<svc, signing, settled>>
    <3>1. \A q \in Request : Running(q)' <=> Running(q)
      BY <2>1 DEF Running
    <3> QED
      BY <2>1, <2>3, <3>1, SettledKinds, AnswerKeepsFlows DEF Calm
  <2> QED
    BY <2>1, <2>2, <2>3
<1>3. CASE ShowPopup
  BY <1>3, AmountKeepsFlows DEF ShowPopup, flowVars
<1>4. CASE PopupMounts
  <2>1. /\ Calm /\ UNCHANGED notificationVars /\ stage' = stage /\ consent' = consent
        /\ run' = amounted \/ run' = run
    BY <1>4 DEF PopupMounts
  <2> QED
    BY <2>1, AmountedFacts, AmountKeepsFlows DEF Inv
<1>5. CASE WaitingDone
  <2>0. Calm /\ popup # NoPopup /\ UNCHANGED <<stage, run, consent>>
    BY <1>5 DEF WaitingDone, NoPopup, flowVars
  <2>1. /\ Calm /\ popup # NoPopup /\ UNCHANGED <<stage, run, consent>>
        /\ resolveApproval(FALSE, popup.result) \/ UNCHANGED notificationVars
    BY <1>5, <2>0 DEF WaitingDone
  <2>2. svc.current.step = "waiting"
    BY <2>1, CalmFollows DEF ScreenInv, PopupFits
  <2>3. svc.current # NoApproval
    BY <2>2 DEF NoApproval
  <2> QED
    BY <2>1, <2>2, <2>3, ResolveKeepsFlows, AmountKeepsFlows
<1> QED
  BY <1>1, <1>2, <1>3, <1>4, <1>5 DEF Interface

LEMMA FlowNext ==
  ASSUME Inv, Inv', ScreenInv, FlowInv, [Next]_vars
  PROVE  FlowInv'
<1>1. ASSUME NEW r \in Request, Flow(r), noting(r) PROVE FlowInv'
  BY <1>1, FlowKeepsFlows
<1>2. CASE User
  BY <1>2, UserKeepsFlows
<1>3. CASE Interface
  BY <1>3, InterfaceKeepsFlows
<1>4. CASE SheetClosed
  <2>1. Calm /\ UNCHANGED <<stage, run, consent>> /\ Rejects
    BY <1>4, ClosedRejects DEF SheetClosed, Closed, flowVars
  <2> QED
    BY <2>1, RejectsKeepsFlows
<1>5. CASE UNCHANGED vars
  BY <1>5 DEF vars, notificationVars, flowVars, FlowInv, RunFits, ConsentFits, SigningFits,
     DeferFits, UnderWay, Running
<1> QED
  BY <1>1, <1>2, <1>3, <1>4, <1>5 DEF Next

LEMMA FlowInit == Init => FlowInv
<1> SUFFICES ASSUME Init PROVE FlowInv
  OBVIOUS
<1>0. /\ svc.queue = <<>> /\ svc.deferFn = NoRequest /\ signing = {}
      /\ \A r \in Request : stage[r] = "idle" /\ run[r] = "none" /\ settled[r] = Unsettled
  BY DEF Init, FreshService
<1>1. DOMAIN <<>> = {}
  OBVIOUS
<1>2. Queued(svc) = {}
  BY <1>0, <1>1 DEF Queued
<1> QED
  BY <1>0, <1>2, SettledKinds, NotificationAssumption
     DEF FlowInv, RunFits, ConsentFits, SigningFits, DeferFits

LEMMA SpecFlowInv == Spec => [](Inv /\ ScreenInv /\ FlowInv)
<1>1. Init => Inv /\ ScreenInv /\ FlowInv
  BY InitInv, ScreenInit, FlowInit
<1>2. Inv /\ ScreenInv /\ FlowInv /\ [Next]_vars => (Inv /\ ScreenInv /\ FlowInv)'
  BY NextInv, ScreenNext, FlowNext
<1> QED
  BY <1>1, <1>2, PTL DEF Spec

\* resolveApproval of notification.ts settles whatever approval is current,
\* whichever sheet's button was pressed: nothing that needs the user's approval
\* runs unless the user confirmed it on a sheet that showed it, even so.
THEOREM ConsentIsRequired == Spec => []ConsentRequired
<1>1. FlowInv => ConsentRequired
  BY DEF FlowInv, ConsentFits, ConsentRequired
<1> QED
  BY <1>1, SpecFlowInv, PTL

\* _signingTxList of transactionHistory.ts has every transaction whose approval
\* can still be answered, and none whose flow and controller are over.
THEOREM SigningIsTracked == Spec => []SigningTracked
<1>1. FlowInv => SigningTracked
  BY DEF FlowInv, SigningFits, SigningTracked, Running, UnderWay
<1> QED
  BY <1>1, SpecFlowInv, PTL
=============================================================================
