-------------------------- MODULE PersistStore_proofs --------------------------
(***************************************************************************)
(* Theorems about PersistStore, for any number of listeners and with no    *)
(* bound on commits, nesting, exceptions or restarts.                      *)
(*                                                                         *)
(* Every call on the stack that is about to write carries a state and its  *)
(* revision that were read together (Frames), so writing them keeps the    *)
(* disk and the persisted revision in step (DiskMatches).  The flag and    *)
(* the id of the scheduled callback always name one that the event loop    *)
(* still has (Live), so a revision not on disk is never forgotten.  When   *)
(* flushNow is not called under beforePersist, at most one such call is on *)
(* the stack and its state is no older than the disk (Forward), so the     *)
(* disk never goes back.                                                   *)
(***************************************************************************)
EXTENDS PersistStore, TLAPS

\* What a call on the stack may rely on, in state "st" with revision "rv".
Sound(f, st, rv) ==
  /\ f.op = "update" => f.left >= 1
  /\ f.op = "persist" => f.rev <= rv /\ f.value - f.rev = st - rv

AllSound(s, st, rv) == \A i \in DOMAIN s : Sound(s[i], st, rv)

Frames == AllSound(stack, state, revision)

Live == flushScheduled =>
          \E i \in DOMAIN microtasks : microtasks[i] = scheduledFlushId

Inv == TypeOK /\ DiskMatches /\ Frames /\ Live /\ NoLostWakeup

\* No more than one call is about to write, and not a state older than "d".
OneAhead(s, d) ==
  \A i \in DOMAIN s : s[i].op = "persist" =>
    /\ d <= s[i].value
    /\ \A j \in DOMAIN s : s[j].op = "persist" => i = j

Forward == flushed <= disk /\ OneAhead(stack, disk)

-----------------------------------------------------------------------------
\* A call that is made is the first of the stack.
LEMMA Pushed ==
  ASSUME NEW S, NEW s \in Seq(S), NEW f \in S
  PROVE  /\ <<f>> \o s \in Seq(S)
         /\ DOMAIN (<<f>> \o s) = 1 .. Len(s) + 1
         /\ (<<f>> \o s)[1] = f
         /\ \A i \in 2 .. Len(s) + 1 : (<<f>> \o s)[i] = s[i - 1]
  OBVIOUS

\* A call that returns or throws uncovers the ones below it.
LEMMA Popped ==
  ASSUME NEW S, NEW s \in Seq(S), NEW k \in 1 .. Len(s)
  PROVE  LET t == SubSeq(s, k + 1, Len(s)) IN
         /\ t \in Seq(S)
         /\ DOMAIN t = 1 .. Len(s) - k
         /\ \A i \in 1 .. Len(s) - k : t[i] = s[i + k]
  OBVIOUS

LEMMA TailPops ==
  ASSUME NEW S, NEW s \in Seq(S), s # <<>>
  PROVE  /\ Tail(s) \in Seq(S)
         /\ DOMAIN Tail(s) = 1 .. Len(s) - 1
         /\ \A i \in 1 .. Len(s) - 1 : Tail(s)[i] = s[i + 1]
         /\ Head(s) = s[1] /\ s[1] \in S /\ 1 \in DOMAIN s
  OBVIOUS

\* Scheduling: what is asked for is live afterwards, and ids stay in range.
LEMMA ScheduleLive ==
  ASSUME scheduledFlushId \in Nat, flushScheduled \in BOOLEAN,
         microtasks \in Seq(1 .. scheduledFlushId), Live, failed \in BOOLEAN,
         scheduleFlush
  PROVE  /\ scheduledFlushId' \in Nat /\ flushScheduled' = TRUE
         /\ microtasks' \in Seq(1 .. scheduledFlushId')
         /\ Live' /\ failed' \in BOOLEAN
<1>1. CASE flushScheduled
  BY <1>1 DEF scheduleFlush, schedule, Live
<1>2. CASE ~flushScheduled
  <2>1. microtasks' = Append(microtasks, scheduledFlushId + 1)
        /\ scheduledFlushId' = scheduledFlushId + 1 /\ flushScheduled' = TRUE
        /\ failed' = FALSE
    BY <1>2 DEF scheduleFlush
  <2>2. microtasks \in Seq(1 .. scheduledFlushId + 1)
    OBVIOUS
  <2>3. microtasks' \in Seq(1 .. scheduledFlushId') /\ scheduledFlushId' \in Nat
    BY <2>1, <2>2
  <2>4. Len(microtasks) + 1 \in DOMAIN microtasks'
        /\ microtasks'[Len(microtasks) + 1] = scheduledFlushId'
    BY <2>1
  <2>5. Live'
    BY <2>4 DEF Live
  <2>6. failed' \in BOOLEAN
    BY <2>1
  <2>. QED BY <2>1, <2>3, <2>5, <2>6
<1>. QED BY <1>1, <1>2

\* A sound call made on top of sound calls.
LEMMA PushSound ==
  ASSUME NEW s \in Seq(Frame), NEW st, NEW rv, AllSound(s, st, rv),
         NEW f \in Frame, Sound(f, st, rv)
  PROVE  <<f>> \o s \in Seq(Frame) /\ AllSound(<<f>> \o s, st, rv)
<1>. DEFINE t == <<f>> \o s
<1>1. /\ t \in Seq(Frame)
      /\ DOMAIN t = 1 .. Len(s) + 1
      /\ t[1] = f
      /\ \A i \in 2 .. Len(s) + 1 : t[i] = s[i - 1]
  BY Pushed
<1>2. ASSUME NEW i \in DOMAIN t
      PROVE  Sound(t[i], st, rv)
  <2>1. CASE i = 1
    BY <1>1, <2>1
  <2>2. CASE i # 1
    <3>1. i - 1 \in DOMAIN s /\ t[i] = s[i - 1]
      BY <1>1, <1>2, <2>2
    <3>. HIDE DEF t
    <3>. QED BY <3>1 DEF AllSound
  <2>. QED BY <2>1, <2>2
<1>. HIDE DEF t
<1>3. t \in Seq(Frame) /\ AllSound(t, st, rv)
  BY <1>1, <1>2 DEF AllSound
<1>. QED BY <1>3 DEF t

\* The calls that are left when the first k have ended.
LEMMA PopSound ==
  ASSUME NEW s \in Seq(Frame), NEW st, NEW rv, AllSound(s, st, rv),
         NEW k \in 1 .. Len(s)
  PROVE  /\ SubSeq(s, k + 1, Len(s)) \in Seq(Frame)
         /\ AllSound(SubSeq(s, k + 1, Len(s)), st, rv)
<1>. DEFINE t == SubSeq(s, k + 1, Len(s))
<1>1. /\ t \in Seq(Frame)
      /\ DOMAIN t = 1 .. Len(s) - k
      /\ \A i \in 1 .. Len(s) - k : t[i] = s[i + k]
  BY Popped
<1>. HIDE DEF t
<1>2. ASSUME NEW i \in DOMAIN t
      PROVE  Sound(t[i], st, rv)
  <2>1. i \in 1 .. Len(s) - k /\ DOMAIN s = 1 .. Len(s)
    BY <1>1, <1>2
  <2>2. i + k \in DOMAIN s /\ t[i] = s[i + k]
    BY <1>1, <2>1
  <2>. QED BY <2>2 DEF AllSound
<1>3. t \in Seq(Frame) /\ AllSound(t, st, rv)
  BY <1>1, <1>2 DEF AllSound
<1>. QED BY <1>3 DEF t

LEMMA TailSound ==
  ASSUME NEW s \in Seq(Frame), NEW st, NEW rv, AllSound(s, st, rv), s # <<>>
  PROVE  /\ Tail(s) \in Seq(Frame) /\ AllSound(Tail(s), st, rv)
         /\ Head(s) \in Frame /\ Sound(Head(s), st, rv)
<1>1. 1 \in 1 .. Len(s) /\ Tail(s) = SubSeq(s, 1 + 1, Len(s))
  OBVIOUS
<1>2. Head(s) = s[1] /\ 1 \in DOMAIN s /\ s[1] \in Frame
  OBVIOUS
<1>. QED BY <1>1, <1>2, PopSound DEF AllSound

LEMMA InitInv == Init => Inv /\ Forward
<1>. SUFFICES ASSUME Init PROVE Inv /\ Forward
  OBVIOUS
<1>1. TypeOK /\ DiskMatches
  <2>1. microtasks \in Seq(1 .. scheduledFlushId) /\ stack \in Seq(Frame)
    BY DEF Init
  <2>2. flushScheduled \in BOOLEAN /\ failed \in BOOLEAN
    BY DEF Init
  <2>. QED BY <2>1, <2>2 DEF Init, TypeOK, DiskMatches
<1>2. Frames /\ Forward
  BY DEF Init, Frames, AllSound, Forward, OneAhead
<1>3. Live
  BY Zenon DEF Init, Live
<1>4. NoLostWakeup
  BY DEF Init, NoLostWakeup
<1>. QED BY <1>1, <1>2, <1>3, <1>4 DEF Inv

LEMMA UpdateInv ==
  ASSUME NEW n \in 0 .. Listeners PROVE Inv /\ Update(n) => Inv'
<1>. SUFFICES ASSUME Inv, Update(n) PROVE Inv'
  OBVIOUS
<1>. USE DEF Inv
<1>1. /\ scheduledFlushId' \in Nat /\ flushScheduled' = TRUE
      /\ microtasks' \in Seq(1 .. scheduledFlushId')
      /\ Live' /\ failed' \in BOOLEAN
  BY ScheduleLive DEF TypeOK, Update
<1>2. /\ state' = state + 1 /\ revision' = revision + 1
      /\ pendingRevision' = revision + 1
      /\ disk' = disk /\ persistedRevision' = persistedRevision
      /\ flushed' = flushed /\ throws' = throws /\ restarts' = restarts
  BY DEF Update
<1>3. DiskMatches'
  BY <1>2 DEF DiskMatches, TypeOK
<1>4. NoLostWakeup'
  BY <1>1 DEF NoLostWakeup, Live
<1>6. stack \in Seq(Frame) /\ AllSound(stack, state', revision')
  <2>1. ASSUME NEW g \in Frame, Sound(g, state, revision)
        PROVE  Sound(g, state', revision')
    BY <1>2, <2>1 DEF Sound, Frame, TypeOK
  <2>2. stack \in Seq(Frame) /\ Frames
    BY DEF TypeOK
  <2>. QED BY <2>1, <2>2 DEF Frames, AllSound
<1>7. stack' \in Seq(Frame) /\ Frames'
  <2>. DEFINE f == [op |-> "update", left |-> n, rev |-> revision',
                    value |-> state', flush |-> FALSE]
  <2>1. CASE n = 0
    BY <1>6, <2>1 DEF Update, Frames
  <2>2. CASE n # 0
    <3>1. f \in Frame /\ Sound(f, state', revision')
      BY <1>2, <2>2, StoreAssumption DEF Frame, TypeOK, Sound
    <3>2. stack' = <<f>> \o stack
      BY <2>2 DEF Update
    <3>. HIDE DEF f
    <3>. QED BY <1>6, <3>1, <3>2, PushSound DEF Frames
  <2>. QED BY <2>1, <2>2
<1>8. TypeOK'
  BY <1>1, <1>2, <1>7 DEF TypeOK
<1>. QED
  BY <1>1, <1>3, <1>4, <1>7, <1>8

LEMMA ListenerReturnsInv == Inv /\ ListenerReturns => Inv'
<1>. SUFFICES ASSUME Inv, ListenerReturns PROVE Inv'
  OBVIOUS
<1>. DEFINE h == Head(stack)
            g == [h EXCEPT !.left = @ - 1]
<1>1. /\ stack \in Seq(Frame) /\ AllSound(stack, state, revision)
      /\ stack # <<>> /\ h.op = "update"
  BY DEF Inv, TypeOK, Frames, ListenerReturns
<1>2. /\ Tail(stack) \in Seq(Frame) /\ AllSound(Tail(stack), state, revision)
      /\ h \in Frame /\ Sound(h, state, revision)
  BY <1>1, TailSound
<1>3. /\ state' = state /\ revision' = revision
      /\ pendingRevision' = pendingRevision
      /\ disk' = disk /\ persistedRevision' = persistedRevision
      /\ scheduledFlushId' = scheduledFlushId
      /\ flushScheduled' = flushScheduled /\ microtasks' = microtasks
      /\ flushed' = flushed /\ failed' = failed
      /\ throws' = throws /\ restarts' = restarts
  BY DEF ListenerReturns, memory, schedule
<1>4. stack' \in Seq(Frame) /\ Frames'
  <2>1. CASE h.left = 1
    BY <1>2, <1>3, <2>1 DEF ListenerReturns, Frames
  <2>2. CASE h.left # 1
    <3>1. g \in Frame /\ Sound(g, state, revision)
      <4>1. h.left \in Nat /\ h.left >= 1
        BY <1>1, <1>2 DEF Frame, Sound
      <4>2. h.left - 1 \in Nat /\ h.left - 1 >= 1
        BY <4>1, <2>2
      <4>3. g \in Frame /\ g.op = "update" /\ g.left = h.left - 1
        BY <1>1, <1>2, <4>2 DEF Frame
      <4>. QED BY <4>2, <4>3 DEF Sound
    <3>2. stack' = <<g>> \o Tail(stack)
      BY <2>2 DEF ListenerReturns
    <3>. HIDE DEF g
    <3>. QED BY <1>2, <1>3, <3>1, <3>2, PushSound DEF Frames
  <2>. QED BY <2>1, <2>2
<1>5. persisting => persisting'
  <2>. SUFFICES ASSUME NEW i \in DOMAIN stack, stack[i].op = "persist"
                PROVE  persisting'
    BY DEF persisting
  <2>1. i # 1
    BY <1>1
  <2>2. /\ i - 1 \in DOMAIN Tail(stack) /\ Tail(stack)[i - 1] = stack[i]
    BY <1>1, <2>1
  <2>3. CASE h.left = 1
    BY <2>2, <2>3 DEF ListenerReturns, persisting
  <2>4. CASE h.left # 1
    <3>1. stack' = <<g>> \o Tail(stack)
      BY <2>4 DEF ListenerReturns
    <3>. HIDE DEF g
    <3>2. i \in DOMAIN stack' /\ stack'[i] = stack[i]
      BY <1>1, <1>2, <2>1, <2>2, <3>1
    <3>. QED BY <3>2 DEF persisting
  <2>. QED BY <2>3, <2>4
<1>6. Live' /\ NoLostWakeup'
  BY <1>3, <1>5 DEF Inv, Live, NoLostWakeup
<1>. QED BY <1>3, <1>4, <1>6 DEF Inv, TypeOK, DiskMatches

\* persistPendingState: afterwards the revision is on disk, or about to be.
LEMMA PersistPending ==
  ASSUME Inv, NEW flush \in BOOLEAN, persistPendingState(flush),
         UNCHANGED <<memory, disk, persistedRevision>>
  PROVE  /\ stack' \in Seq(Frame) /\ Frames' /\ flushed' \in Nat
         /\ flushScheduled' \in BOOLEAN /\ Live' /\ NoLostWakeup'
<1>. DEFINE f == [op |-> "persist", left |-> 0, rev |-> pendingRevision,
                  value |-> state, flush |-> flush]
<1>1. /\ state' = state /\ revision' = revision
      /\ pendingRevision' = pendingRevision
      /\ disk' = disk /\ persistedRevision' = persistedRevision
  BY DEF memory
<1>2. flushScheduled' \in BOOLEAN /\ flushed' \in Nat /\ Live'
  BY DEF persistPendingState, Inv, TypeOK, Live
<1>3. CASE pendingRevision <= persistedRevision
  <2>1. stack' = stack
    BY <1>3 DEF persistPendingState
  <2>2. stack' \in Seq(Frame) /\ Frames'
    BY <1>1, <2>1 DEF Inv, TypeOK, Frames
  <2>3. NoLostWakeup'
    BY <1>1, <1>3 DEF Inv, TypeOK, NoLostWakeup
  <2>. QED BY <1>2, <2>2, <2>3
<1>4. CASE ~(pendingRevision <= persistedRevision)
  <2>1. f \in Frame /\ Sound(f, state, revision) /\ f.op = "persist"
    BY DEF Inv, TypeOK, Frame, Sound
  <2>2. stack' = <<f>> \o stack
    BY <1>4 DEF persistPendingState
  <2>. HIDE DEF f
  <2>3. stack' \in Seq(Frame) /\ Frames'
    BY <1>1, <2>1, <2>2, PushSound DEF Inv, TypeOK, Frames
  <2>4. 1 \in DOMAIN stack' /\ stack'[1] = f
    BY <2>1, <2>2, Pushed DEF Inv, TypeOK
  <2>5. persisting'
    BY <2>1, <2>4 DEF persisting
  <2>. QED BY <1>2, <2>3, <2>5 DEF NoLostWakeup
<1>. QED BY <1>3, <1>4, <1>2

LEMMA FlushNowInv == Inv /\ FlushNow => Inv'
<1>. SUFFICES ASSUME Inv, FlushNow PROVE Inv'
  OBVIOUS
<1>1. /\ stack' \in Seq(Frame) /\ Frames' /\ flushed' \in Nat
      /\ flushScheduled' \in BOOLEAN /\ Live' /\ NoLostWakeup'
  BY PersistPending DEF FlushNow
<1>2. /\ state' = state /\ revision' = revision
      /\ pendingRevision' = pendingRevision
      /\ disk' = disk /\ persistedRevision' = persistedRevision
      /\ scheduledFlushId' = scheduledFlushId + 1 /\ microtasks' = microtasks
      /\ failed' = failed /\ throws' = throws /\ restarts' = restarts
  BY DEF FlushNow, memory
<1>3. microtasks' \in Seq(1 .. scheduledFlushId')
  BY <1>2 DEF Inv, TypeOK
<1>4. TypeOK' /\ DiskMatches'
  BY <1>1, <1>2, <1>3 DEF Inv, TypeOK, DiskMatches
<1>. QED BY <1>1, <1>4 DEF Inv

LEMMA RunMicrotaskInv == Inv /\ RunMicrotask => Inv'
<1>. SUFFICES ASSUME Inv, RunMicrotask PROVE Inv'
  OBVIOUS
<1>1. /\ state' = state /\ revision' = revision
      /\ pendingRevision' = pendingRevision
      /\ disk' = disk /\ persistedRevision' = persistedRevision
      /\ scheduledFlushId' = scheduledFlushId
      /\ microtasks' = Tail(microtasks) /\ microtasks # <<>>
      /\ failed' = failed /\ throws' = throws /\ restarts' = restarts
  BY DEF RunMicrotask, memory
<1>2. /\ microtasks \in Seq(1 .. scheduledFlushId)
      /\ DOMAIN microtasks' = 1 .. Len(microtasks) - 1
      /\ microtasks' \in Seq(1 .. scheduledFlushId')
      /\ Head(microtasks) = microtasks[1]
      /\ \A i \in 1 .. Len(microtasks) - 1 : microtasks'[i] = microtasks[i + 1]
  BY <1>1, TailPops DEF Inv, TypeOK
<1>3. /\ stack' \in Seq(Frame) /\ Frames' /\ flushed' \in Nat
      /\ flushScheduled' \in BOOLEAN /\ Live' /\ NoLostWakeup'
  <2>1. CASE Head(microtasks) = scheduledFlushId
    <3>1. persistPendingState(FALSE) /\ UNCHANGED <<memory, disk, persistedRevision>>
      BY <2>1 DEF RunMicrotask
    <3>. QED BY <3>1, PersistPending
  <2>2. CASE Head(microtasks) # scheduledFlushId
    <3>1. stack' = stack /\ flushed' = flushed /\ flushScheduled' = flushScheduled
      BY <2>2 DEF RunMicrotask
    <3>2. ASSUME NEW i \in DOMAIN microtasks, microtasks[i] = scheduledFlushId
          PROVE  \E j \in DOMAIN microtasks' : microtasks'[j] = scheduledFlushId'
      <4>1. i # 1
        BY <1>2, <2>2, <3>2
      <4>2. i - 1 \in DOMAIN microtasks' /\ microtasks'[i - 1] = scheduledFlushId'
        BY <1>1, <1>2, <3>2, <4>1
      <4>. QED BY <4>2
    <3>3. Live'
      BY <3>1, <3>2 DEF Inv, Live
    <3>4. persisting => persisting'
      BY <3>1 DEF persisting
    <3>5. NoLostWakeup'
      BY <1>1, <3>1, <3>2, <3>4 DEF Inv, NoLostWakeup
    <3>. QED BY <1>1, <3>1, <3>3, <3>5 DEF Inv, TypeOK, Frames
  <2>. QED BY <2>1, <2>2
<1>4. TypeOK' /\ DiskMatches'
  BY <1>1, <1>2, <1>3 DEF Inv, TypeOK, DiskMatches
<1>. QED BY <1>3, <1>4 DEF Inv

LEMMA PersistWritesInv == Inv /\ PersistWrites => Inv'
<1>. SUFFICES ASSUME Inv, PersistWrites PROVE Inv'
  OBVIOUS
<1>. DEFINE h == Head(stack)
<1>1. /\ stack \in Seq(Frame) /\ AllSound(stack, state, revision)
      /\ stack # <<>> /\ h.op = "persist"
  BY DEF Inv, TypeOK, Frames, PersistWrites
<1>2. /\ Tail(stack) \in Seq(Frame) /\ AllSound(Tail(stack), state, revision)
      /\ h \in Frame /\ Sound(h, state, revision)
  BY <1>1, TailSound
<1>3. /\ state' = state /\ revision' = revision
      /\ pendingRevision' = pendingRevision
      /\ disk' = h.value /\ persistedRevision' = h.rev
      /\ throws' = throws /\ restarts' = restarts
      /\ stack' = Tail(stack)
  BY DEF PersistWrites, memory
<1>4. stack' \in Seq(Frame) /\ Frames'
  BY <1>2, <1>3 DEF Frames
<1>5. /\ h.rev \in 0 .. revision /\ h.value \in Nat
      /\ h.value - h.rev = state - revision
  BY <1>1, <1>2 DEF Sound, Frame, Inv, TypeOK
<1>6. DiskMatches' /\ disk' \in 0 .. state' /\ flushed' \in Nat
  <2>1. state \in Nat /\ revision \in Nat /\ flushed \in Nat
    BY DEF Inv, TypeOK
  <2>2. h.value <= state
    BY <1>5, <2>1
  <2>3. flushed' \in Nat
    BY <1>5, <2>1 DEF PersistWrites
  <2>. QED BY <1>3, <1>5, <2>1, <2>2, <2>3 DEF DiskMatches
<1>7. /\ scheduledFlushId' \in Nat /\ flushScheduled' \in BOOLEAN
      /\ microtasks' \in Seq(1 .. scheduledFlushId')
      /\ Live' /\ failed' \in BOOLEAN /\ NoLostWakeup'
  <2>1. CASE pendingRevision > h.rev
    <3>1. scheduleFlush
      BY <2>1 DEF PersistWrites
    <3>2. /\ scheduledFlushId' \in Nat /\ flushScheduled' = TRUE
          /\ microtasks' \in Seq(1 .. scheduledFlushId')
          /\ Live' /\ failed' \in BOOLEAN
      BY <3>1, ScheduleLive DEF Inv, TypeOK
    <3>. QED BY <3>2 DEF Live, NoLostWakeup
  <2>2. CASE ~(pendingRevision > h.rev)
    <3>1. /\ scheduledFlushId' = scheduledFlushId
          /\ flushScheduled' = flushScheduled /\ microtasks' = microtasks
          /\ failed' = FALSE
      BY <2>2 DEF PersistWrites, schedule
    <3>2. Live'
      BY <3>1 DEF Inv, Live
    <3>3. NoLostWakeup'
      BY <1>3, <2>2 DEF NoLostWakeup
    <3>. QED BY <3>1, <3>2, <3>3 DEF Inv, TypeOK
  <2>. QED BY <2>1, <2>2
<1>. QED BY <1>3, <1>4, <1>5, <1>6, <1>7 DEF Inv, TypeOK

LEMMA ThrowInv == Inv /\ Throw => Inv'
<1>. SUFFICES ASSUME Inv, Throw PROVE Inv'
  OBVIOUS
<1>1. /\ state' = state /\ revision' = revision
      /\ pendingRevision' = pendingRevision
      /\ disk' = disk /\ persistedRevision' = persistedRevision
      /\ scheduledFlushId' = scheduledFlushId
      /\ flushScheduled' = flushScheduled /\ microtasks' = microtasks
      /\ flushed' = flushed /\ throws' = throws + 1 /\ restarts' = restarts
  BY DEF Throw, memory, schedule
<1>2. PICK k \in 1 .. Len(stack) :
        /\ stack' = SubSeq(stack, k + 1, Len(stack))
        /\ failed' = \/ failed
                     \/ /\ ~flushScheduled
                        /\ \E i \in 1 .. k : stack[i].op = "persist"
  BY DEF Throw
<1>3. stack' \in Seq(Frame) /\ Frames'
  BY <1>1, <1>2, PopSound DEF Inv, TypeOK, Frames
<1>4. failed' \in BOOLEAN
  BY <1>2
<1>5. Live'
  BY <1>1 DEF Inv, Live
<1>6. NoLostWakeup'
  <2>. SUFFICES ASSUME pendingRevision > persistedRevision
                PROVE  flushScheduled \/ persisting' \/ failed'
    BY <1>1, <1>5 DEF NoLostWakeup, Live
  <2>1. flushScheduled \/ persisting \/ failed
    BY DEF Inv, NoLostWakeup
  <2>2. ASSUME NEW i \in DOMAIN stack, stack[i].op = "persist", ~flushScheduled
        PROVE  persisting' \/ failed'
    <3>1. CASE i \in 1 .. k
      BY <1>2, <2>2, <3>1
    <3>2. CASE i \notin 1 .. k
      <4>1. /\ DOMAIN stack' = 1 .. Len(stack) - k
            /\ \A j \in 1 .. Len(stack) - k : stack'[j] = stack[j + k]
        BY <1>2, Popped DEF Inv, TypeOK
      <4>2. i - k \in 1 .. Len(stack) - k /\ i - k + k = i
        BY <2>2, <3>2 DEF Inv, TypeOK
      <4>3. i - k \in DOMAIN stack' /\ stack'[i - k] = stack[i]
        BY <4>1, <4>2
      <4>. QED BY <2>2, <4>3 DEF persisting
    <3>. QED BY <3>1, <3>2
  <2>. QED BY <1>2, <2>1, <2>2 DEF persisting
<1>7. TypeOK' /\ DiskMatches'
  BY <1>1, <1>3, <1>4 DEF Inv, TypeOK, DiskMatches
<1>. QED BY <1>3, <1>5, <1>6, <1>7 DEF Inv

LEMMA RestartInv == Inv /\ Restart => Inv'
<1>. SUFFICES ASSUME Inv, Restart PROVE Inv'
  OBVIOUS
<1>1. /\ state' = disk /\ disk' = disk /\ flushed' = flushed
      /\ revision' = 0 /\ pendingRevision' = 0 /\ persistedRevision' = 0
      /\ scheduledFlushId' = 0 /\ flushScheduled' = FALSE
      /\ microtasks' = <<>> /\ stack' = <<>> /\ failed' = FALSE
      /\ restarts' = restarts + 1 /\ throws' = throws
  BY DEF Restart
<1>2. /\ stack' \in Seq(Frame) /\ microtasks' \in Seq(1 .. scheduledFlushId')
      /\ flushScheduled' \in BOOLEAN /\ failed' \in BOOLEAN
  <2>1. <<>> \in Seq(Frame) /\ <<>> \in Seq(1 .. scheduledFlushId')
    OBVIOUS
  <2>. QED BY <1>1, <2>1
<1>3. TypeOK' /\ DiskMatches'
  BY <1>1, <1>2 DEF Inv, TypeOK, DiskMatches
<1>4. Frames' /\ Live' /\ NoLostWakeup'
  BY <1>1 DEF Frames, AllSound, Live, NoLostWakeup
<1>. QED BY <1>3, <1>4 DEF Inv

LEMMA NextInv == Inv /\ [Next]_vars => Inv'
<1>. SUFFICES ASSUME Inv, [Next]_vars PROVE Inv'
  OBVIOUS
<1>1. CASE Next
  BY <1>1, UpdateInv, ListenerReturnsInv, FlushNowInv, RunMicrotaskInv,
     PersistWritesInv, ThrowInv, RestartInv DEF Next
<1>2. CASE UNCHANGED vars
  BY <1>2 DEF vars, Inv, TypeOK, DiskMatches, Frames, Live, NoLostWakeup,
              persisting
<1>. QED BY <1>1, <1>2

LEMMA SpecInv == Spec => []Inv
  BY InitInv, NextInv, PTL DEF Spec

\* The flag, the ids, the revisions and the frames keep their meaning, and the
\* persisted revision never passes the one in memory, whatever listeners and
\* the hook do with the store they are called by.
THEOREM StoreTypeCorrect == Spec => []TypeOK
<1>1. Inv => TypeOK
  BY DEF Inv
<1>. QED BY <1>1, SpecInv, PTL

\* The persisted revision is that of the state on disk.
THEOREM DiskIsPersistedRevision == Spec => []DiskMatches
<1>1. Inv => DiskMatches
  BY DEF Inv
<1>. QED BY <1>1, SpecInv, PTL

\* No revision is forgotten: it is on disk, scheduled, being written, or its
\* write threw.
THEOREM NoRevisionForgotten == Spec => []NoLostWakeup
<1>1. Inv => NoLostWakeup
  BY DEF Inv
<1>. QED BY <1>1, SpecInv, PTL

-----------------------------------------------------------------------------
\* A call that does not write changes nothing about those that do.
LEMMA PushOther ==
  ASSUME NEW s \in Seq(Frame), NEW d, OneAhead(s, d),
         NEW f \in Frame, f.op # "persist"
  PROVE  OneAhead(<<f>> \o s, d)
<1>. DEFINE t == <<f>> \o s
<1>1. /\ DOMAIN t = 1 .. Len(s) + 1
      /\ t[1] = f
      /\ \A i \in 2 .. Len(s) + 1 : t[i] = s[i - 1]
  BY Pushed
<1>. HIDE DEF t
<1>2. \A i \in DOMAIN t : t[i].op = "persist" =>
        i - 1 \in DOMAIN s /\ t[i] = s[i - 1]
  BY <1>1
<1>3. ASSUME NEW i \in DOMAIN t, t[i].op = "persist"
      PROVE  /\ d <= t[i].value
             /\ \A j \in DOMAIN t : t[j].op = "persist" => i = j
  <2>1. d <= s[i - 1].value
        /\ \A j \in DOMAIN s : s[j].op = "persist" => i - 1 = j
    BY <1>2, <1>3 DEF OneAhead
  <2>. QED BY <1>1, <1>2, <1>3, <2>1
<1>4. OneAhead(t, d)
  BY <1>3 DEF OneAhead
<1>. QED BY <1>4 DEF t

LEMMA PushFirst ==
  ASSUME NEW s \in Seq(Frame), NEW d, NEW f \in Frame,
         \A i \in DOMAIN s : s[i].op # "persist",
         d <= f.value
  PROVE  OneAhead(<<f>> \o s, d)
<1>. DEFINE t == <<f>> \o s
<1>1. /\ DOMAIN t = 1 .. Len(s) + 1
      /\ t[1] = f
      /\ \A i \in 2 .. Len(s) + 1 : t[i] = s[i - 1]
  BY Pushed
<1>. HIDE DEF t
<1>2. \A i \in DOMAIN t : t[i].op = "persist" => i = 1
  BY <1>1
<1>3. OneAhead(t, d)
  BY <1>1, <1>2 DEF OneAhead
<1>. QED BY <1>3 DEF t

LEMMA PopOther ==
  ASSUME NEW s \in Seq(Frame), NEW d, OneAhead(s, d), NEW k \in 1 .. Len(s)
  PROVE  OneAhead(SubSeq(s, k + 1, Len(s)), d)
<1>. DEFINE t == SubSeq(s, k + 1, Len(s))
<1>1. /\ DOMAIN t = 1 .. Len(s) - k
      /\ \A i \in 1 .. Len(s) - k : t[i] = s[i + k]
  BY Popped
<1>. HIDE DEF t
<1>2. \A i \in DOMAIN t : i \in Int /\ i + k \in DOMAIN s /\ t[i] = s[i + k]
  BY <1>1
<1>3. ASSUME NEW i \in DOMAIN t, t[i].op = "persist"
      PROVE  /\ d <= t[i].value
             /\ \A j \in DOMAIN t : t[j].op = "persist" => i = j
  <2>1. d <= s[i + k].value
        /\ \A j \in DOMAIN s : s[j].op = "persist" => i + k = j
    BY <1>2, <1>3 DEF OneAhead
  <2>. QED BY <1>2, <1>3, <2>1
<1>4. OneAhead(t, d)
  BY <1>3 DEF OneAhead
<1>. QED BY <1>4 DEF t

\* The call that writes was the only one to do so.
LEMMA PopWriter ==
  ASSUME NEW s \in Seq(Frame), NEW d, OneAhead(s, d), s # <<>>,
         Head(s).op = "persist"
  PROVE  /\ \A i \in DOMAIN Tail(s) : Tail(s)[i].op # "persist"
         /\ d <= Head(s).value
<1>1. /\ DOMAIN Tail(s) = 1 .. Len(s) - 1
      /\ \A i \in 1 .. Len(s) - 1 : Tail(s)[i] = s[i + 1]
      /\ Head(s) = s[1] /\ 1 \in DOMAIN s
  BY TailPops
<1>2. d <= Head(s).value /\ \A j \in DOMAIN s : s[j].op = "persist" => 1 = j
  BY <1>1 DEF OneAhead
<1>3. \A i \in 1 .. Len(s) - 1 : i + 1 \in DOMAIN s /\ i + 1 # 1
  OBVIOUS
<1>. QED BY <1>1, <1>2, <1>3

\* One step of the store is one step of the cell, or none.
Forwards == Forward' /\ [Cell!Next]_<<state, disk, flushed>>

LEMMA UpdateForward ==
  ASSUME NEW n \in 0 .. Listeners, Inv, Forward, Update(n) PROVE Forwards
<1>1. disk' = disk /\ flushed' = flushed /\ state' = state + 1
  BY DEF Update
<1>2. OneAhead(stack', disk')
  <2>. DEFINE f == [op |-> "update", left |-> n, rev |-> revision',
                    value |-> state', flush |-> FALSE]
  <2>1. CASE n = 0
    BY <1>1, <2>1 DEF Update, Forward
  <2>2. CASE n # 0
    <3>1. f \in Frame /\ f.op # "persist"
      BY StoreAssumption DEF Update, Inv, TypeOK, Frame
    <3>2. stack' = <<f>> \o stack
      BY <2>2 DEF Update
    <3>. HIDE DEF f
    <3>. QED BY <1>1, <3>1, <3>2, PushOther DEF Inv, TypeOK, Forward
  <2>. QED BY <2>1, <2>2
<1>. QED BY <1>1, <1>2 DEF Forward, Forwards, Cell!Next, Cell!Commit

LEMMA ListenerReturnsForward ==
  ASSUME Inv, Forward, ListenerReturns PROVE Forwards
<1>. DEFINE h == Head(stack)
            g == [h EXCEPT !.left = @ - 1]
<1>1. disk' = disk /\ flushed' = flushed /\ state' = state
  BY DEF ListenerReturns, memory
<1>2. /\ stack \in Seq(Frame) /\ AllSound(stack, state, revision)
      /\ stack # <<>> /\ h.op = "update"
  BY DEF Inv, TypeOK, Frames, ListenerReturns
<1>3. Tail(stack) \in Seq(Frame) /\ h \in Frame /\ Sound(h, state, revision)
  BY <1>2, TailSound
<1>4. OneAhead(Tail(stack), disk)
  <2>1. 1 \in 1 .. Len(stack) /\ Tail(stack) = SubSeq(stack, 1 + 1, Len(stack))
    BY <1>2
  <2>. QED BY <1>2, <2>1, PopOther DEF Forward
<1>5. OneAhead(stack', disk')
  <2>1. CASE h.left = 1
    BY <1>1, <1>4, <2>1 DEF ListenerReturns
  <2>2. CASE h.left # 1
    <3>1. h.left \in Nat /\ h.left >= 1
      BY <1>2, <1>3 DEF Frame, Sound
    <3>2. h.left - 1 \in Nat
      BY <3>1
    <3>3. g \in Frame /\ g.op # "persist"
      BY <1>2, <1>3, <3>2 DEF Frame
    <3>4. stack' = <<g>> \o Tail(stack)
      BY <2>2 DEF ListenerReturns
    <3>. HIDE DEF g
    <3>. QED BY <1>1, <1>3, <1>4, <3>3, <3>4, PushOther
  <2>. QED BY <2>1, <2>2
<1>. QED BY <1>1, <1>5 DEF Forward, Forwards

LEMMA PersistPendingForward ==
  ASSUME Inv, Forward, NEW flush \in BOOLEAN, persistPendingState(flush),
         ~persisting, UNCHANGED <<memory, disk, persistedRevision>>
  PROVE  Forwards
<1>. DEFINE f == [op |-> "persist", left |-> 0, rev |-> pendingRevision,
                  value |-> state, flush |-> flush]
<1>1. disk' = disk /\ state' = state
  BY DEF memory
<1>2. /\ stack \in Seq(Frame) /\ disk \in 0 .. state /\ state \in Nat
      /\ revision \in Nat /\ pendingRevision = revision
      /\ persistedRevision \in 0 .. revision
      /\ disk - persistedRevision = state - revision
  BY DEF Inv, TypeOK, DiskMatches
<1>3. CASE pendingRevision <= persistedRevision
  <2>1. stack' = stack /\ flushed' = IF flush THEN state ELSE flushed
    BY <1>3 DEF persistPendingState
  <2>2. state = disk
    BY <1>2, <1>3
  <2>3. flushed' \in {flushed, disk'} /\ flushed' <= disk'
    BY <1>1, <1>2, <2>1, <2>2 DEF Forward
  <2>4. disk' \in disk .. state
    BY <1>1, <1>2
  <2>. QED BY <1>1, <2>1, <2>3, <2>4 DEF Forward, Forwards, Cell!Next, Cell!Save
<1>4. CASE ~(pendingRevision <= persistedRevision)
  <2>1. f \in Frame /\ disk <= f.value
    BY <1>2 DEF Frame
  <2>2. stack' = <<f>> \o stack /\ flushed' = flushed
    BY <1>4 DEF persistPendingState
  <2>3. \A i \in DOMAIN stack : stack[i].op # "persist"
    BY DEF persisting
  <2>. HIDE DEF f
  <2>4. OneAhead(stack', disk')
    BY <1>1, <1>2, <2>1, <2>2, <2>3, PushFirst
  <2>. QED BY <1>1, <2>2, <2>4 DEF Forward, Forwards
<1>. QED BY <1>3, <1>4

LEMMA RunMicrotaskForward ==
  ASSUME Inv, Forward, RunMicrotask PROVE Forwards
<1>1. disk' = disk /\ state' = state /\ stack = <<>>
  BY DEF RunMicrotask, memory
<1>2. CASE Head(microtasks) = scheduledFlushId
  <2>1. persistPendingState(FALSE) /\ UNCHANGED <<memory, disk, persistedRevision>>
    BY <1>2 DEF RunMicrotask
  <2>2. ~persisting
    BY <1>1 DEF persisting
  <2>. QED BY <2>1, <2>2, PersistPendingForward
<1>3. CASE Head(microtasks) # scheduledFlushId
  BY <1>1, <1>3 DEF RunMicrotask, Forward, Forwards
<1>. QED BY <1>2, <1>3

LEMMA PersistWritesForward ==
  ASSUME Inv, Forward, PersistWrites PROVE Forwards
<1>. DEFINE h == Head(stack)
<1>1. /\ stack \in Seq(Frame) /\ AllSound(stack, state, revision)
      /\ stack # <<>> /\ h.op = "persist"
      /\ stack' = Tail(stack) /\ disk' = h.value /\ state' = state
      /\ flushed' = IF h.flush THEN h.value ELSE flushed
  BY DEF Inv, TypeOK, Frames, PersistWrites, memory
<1>2. h \in Frame /\ Sound(h, state, revision)
  BY <1>1, TailSound
<1>3. /\ \A i \in DOMAIN stack' : stack'[i].op # "persist"
      /\ disk <= h.value
  BY <1>1, PopWriter DEF Forward
<1>4. disk' \in disk .. state
  <2>1. /\ h.rev \in Nat /\ h.value \in Nat /\ h.rev <= revision
        /\ h.value - h.rev = state - revision
    BY <1>1, <1>2 DEF Sound, Frame
  <2>2. state \in Nat /\ revision \in Nat /\ disk \in Nat
    BY DEF Inv, TypeOK
  <2>3. h.value \in disk .. state
    BY <1>3, <2>1, <2>2
  <2>. QED BY <1>1, <2>3
<1>5. flushed' \in {flushed, disk'} /\ flushed' <= disk'
  BY <1>1, <1>4 DEF Forward, Inv, TypeOK
<1>6. Forward'
  BY <1>3, <1>5 DEF Forward, OneAhead
<1>. QED BY <1>1, <1>4, <1>5, <1>6 DEF Forwards, Cell!Next, Cell!Save

LEMMA ThrowForward ==
  ASSUME Inv, Forward, Throw PROVE Forwards
<1>1. disk' = disk /\ flushed' = flushed /\ state' = state
  BY DEF Throw, memory
<1>2. PICK k \in 1 .. Len(stack) : stack' = SubSeq(stack, k + 1, Len(stack))
  BY DEF Throw
<1>3. OneAhead(stack', disk')
  BY <1>1, <1>2, PopOther DEF Inv, TypeOK, Forward
<1>. QED BY <1>1, <1>3 DEF Forward, Forwards

LEMMA RestartForward ==
  ASSUME Inv, Forward, Restart PROVE Forwards
  BY DEF Restart, Forward, Forwards, OneAhead, Cell!Next, Cell!Restart

LEMMA NextForward ==
  ASSUME HookMayFlush = FALSE, Inv, Forward, [Next]_vars PROVE Forwards
<1>1. CASE \E n \in 0 .. Listeners : Update(n)
  BY <1>1, UpdateForward
<1>2. CASE ListenerReturns
  BY <1>2, ListenerReturnsForward
<1>3. CASE FlushNow
  <2>1. /\ persistPendingState(TRUE) /\ ~persisting
        /\ UNCHANGED <<memory, disk, persistedRevision>>
    BY <1>3 DEF FlushNow
  <2>. QED BY <2>1, PersistPendingForward
<1>4. CASE RunMicrotask
  BY <1>4, RunMicrotaskForward
<1>5. CASE PersistWrites
  BY <1>5, PersistWritesForward
<1>6. CASE Throw
  BY <1>6, ThrowForward
<1>7. CASE Restart
  BY <1>7, RestartForward
<1>8. CASE UNCHANGED vars
  BY <1>8 DEF vars, Forward, Forwards
<1>. QED BY <1>1, <1>2, <1>3, <1>4, <1>5, <1>6, <1>7, <1>8 DEF Next

LEMMA SpecForward == ASSUME HookMayFlush = FALSE PROVE Spec => [](Inv /\ Forward)
<1>1. Inv /\ Forward /\ [Next]_vars => (Inv /\ Forward)'
  BY NextInv, NextForward DEF Forwards
<1>. QED BY <1>1, InitInv, PTL DEF Spec

\* What flushNow has promised is on disk or has been overtaken there, so a
\* process that ends at any point finds it when it is launched again; as long
\* as beforePersist does not flush the store it is called by.
THEOREM FlushSurvives ==
  ASSUME HookMayFlush = FALSE PROVE Spec => []FlushIsDurable
<1>1. Forward => FlushIsDurable
  BY DEF Forward, FlushIsDurable
<1>. QED BY <1>1, SpecForward, PTL

\* The store implements the durable cell: its disk never goes back, holds only
\* states that were committed and keeps what flushNow promised.
THEOREM StoreImplementsCell ==
  ASSUME HookMayFlush = FALSE PROVE Spec => ImplementsCell
<1>1. Init => Cell!Init
  BY DEF Init, Cell!Init
<1>2. Inv /\ Forward /\ [Next]_vars => [Cell!Next]_Cell!vars
  BY NextForward DEF Forwards, Cell!vars
<1>. QED BY <1>1, <1>2, SpecForward, PTL DEF Spec, ImplementsCell, Cell!Spec
=============================================================================
