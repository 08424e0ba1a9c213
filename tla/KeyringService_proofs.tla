----------------------- MODULE KeyringService_proofs -----------------------
(***************************************************************************)
(* Type correctness of KeyringService, and: the vault always opens with the *)
(* password that booted accepts, however the operations of one user         *)
(* interleave with locks and refreshes, whatever deserialisation fails and  *)
(* wherever the process is killed.                                         *)
(*                                                                         *)
(* The vault and booted are written by different stages, from passwords     *)
(* captured at different times.  The invariant ties them: the password in   *)
(* memory is the booted one or none, a chain at its write holds the booted  *)
(* one, and the stages that rely on a fresh capture stand first in a chain. *)
(***************************************************************************)
EXTENDS KeyringService, TLAPS, SequenceTheorems

-----------------------------------------------------------------------------
(* Types.                                                                  *)

LEMMA MaxCopiesType == MaxCopies \in Nat /\ MaxCopies > 0
BY KeyringServiceAssumption DEF KeyringServiceAssumption

LEMMA NothingType == Nothing \in Bag
BY MaxCopiesType DEF Bag, Nothing

\* The lists of keyrings stay lists of keyrings.
LEMMA BagOps ==
  ASSUME NEW a \in Bag, NEW b \in Bag, NEW S, NEW k
  PROVE  /\ Push(a, k) \in Bag /\ Drop(a, k) \in Bag
         /\ Keep(a, S) \in Bag /\ Added(a, b) \in Bag
         /\ Members(a) \in SUBSET Keyring
<1>1. \A x \in Keyring : a[x] \in 0 .. MaxCopies /\ b[x] \in 0 .. MaxCopies
  BY DEF Bag
<1>2. a = [x \in Keyring |-> a[x]]
  BY DEF Bag
<1>3. Push(a, k) \in Bag
  <2>1. Push(a, k) = [x \in Keyring |->
           IF x = k THEN IF a[x] < MaxCopies THEN a[x] + 1 ELSE a[x] ELSE a[x]]
    BY <1>2 DEF Push
  <2> QED BY <2>1, <1>1, MaxCopiesType DEF Bag
<1>4. Drop(a, k) \in Bag
  <2>1. Drop(a, k) = [x \in Keyring |->
           IF x = k THEN IF a[x] > 0 THEN a[x] - 1 ELSE a[x] ELSE a[x]]
    BY <1>2 DEF Drop
  <2> QED BY <2>1, <1>1, MaxCopiesType DEF Bag
<1>5. Keep(a, S) \in Bag
  BY <1>1, MaxCopiesType DEF Bag, Keep
<1>6. Added(a, b) \in Bag
  BY <1>1, MaxCopiesType DEF Bag, Added
<1>7. Members(a) \in SUBSET Keyring
  BY DEF Members
<1> QED BY <1>3, <1>4, <1>5, <1>6, <1>7

\* Memory states that the synchronous pieces of code compute have their type.
LEMMA MemOps ==
  ASSUME NEW m \in MemType, NEW pw \in OptPassword
  PROVE  /\ resetKeyringRuntimeState(m) \in MemType
         /\ markKeyringRuntimeReady(m) \in MemType
         /\ clearKeyrings(m) \in MemType
         /\ lockRuntime(m) \in MemType
         /\ relockRuntime(m) \in MemType
         /\ holdPassword(m, pw) \in MemType
<1>1. resetKeyringRuntimeState(m) \in MemType
  <2>1. m.restoreId + 1 \in Nat
    BY DEF MemType
  <2>2. \A n \in Nat :
          [m EXCEPT !.restoreId = n, !.pending = Absent, !.promise = 0,
                    !.ready = FALSE, !.restoring = FALSE, !.failed = FALSE]
            \in MemType
    BY DEF MemType
  <2> QED BY <2>1, <2>2 DEF resetKeyringRuntimeState
<1>2. markKeyringRuntimeReady(m) \in MemType
  BY DEF MemType, markKeyringRuntimeReady
<1>3. clearKeyrings(m) \in MemType
  BY <1>1, NothingType DEF MemType, clearKeyrings
<1>4. lockRuntime(m) \in MemType
  BY <1>1, NothingType DEF MemType, lockRuntime, OptPassword
<1>5. relockRuntime(m) \in MemType
  BY NothingType DEF MemType, relockRuntime, OptPassword
<1>6. holdPassword(m, pw) \in MemType
  BY DEF MemType, holdPassword
<1> QED BY <1>1, <1>2, <1>3, <1>4, <1>5, <1>6

LEMMA FreshMemType == FreshMem \in MemType
BY NothingType DEF FreshMem, MemType, OptPassword

LEMMA IdleType == Idle \in LocType
BY NothingType DEF Idle, LocType, OpName, OptPassword

\* What one step does to the chain of p.
ChainOK ==
  mem' \in MemType /\ todo' \in [Proc -> Seq(StageName)]
                   /\ loc' \in [Proc -> LocType]

LEMMA AdvanceType ==
  ASSUME TypeOK, NEW p \in Proc, NEW m \in MemType, NEW l \in LocType,
         NEW rest \in Seq(StageName), Advance(p, m, l, rest)
  PROVE  ChainOK
<1>1. todo' \in [Proc -> Seq(StageName)]
  BY DEF Advance, TypeOK
<1>2. loc' \in [Proc -> LocType]
  BY IdleType DEF Advance, TypeOK
<1>3. mem' \in MemType
  BY DEF Advance, MemType
<1> QED BY <1>1, <1>2, <1>3 DEF ChainOK

LEMMA ThrowType ==
  ASSUME TypeOK, NEW p \in Proc, NEW m \in MemType, Throw(p, m)
  PROVE  ChainOK
<1>1. loc[p] \in LocType /\ <<>> \in Seq(StageName)
  BY DEF TypeOK
<1> QED BY <1>1, AdvanceType DEF Throw

\* A chain put in front of a chain is a chain.
LEMMA Prepend ==
  ASSUME NEW s \in Seq(StageName), NEW rest \in Seq(StageName)
  PROVE  s \o rest \in Seq(StageName)
OBVIOUS

LEMMA RestType ==
  ASSUME TypeOK, NEW p \in Proc, NEW stage, At(p, stage)
  PROVE  /\ Rest(p) \in Seq(StageName) /\ todo[p] \in Seq(StageName)
         /\ loc[p] \in LocType /\ left[p] \in Bag /\ mem \in MemType
<1>1. todo[p] \in Seq(StageName) /\ todo[p] # <<>>
  BY DEF TypeOK, At
<1>2. Tail(todo[p]) \in Seq(StageName)
  BY <1>1
<1> QED BY <1>1, <1>2 DEF TypeOK, Rest

LEMMA updateMemStoreKeyringsType ==
  ASSUME TypeOK, NEW p \in Proc, NEW m \in MemType, NEW l \in LocType,
         NEW rest \in Seq(StageName), updateMemStoreKeyrings(p, m, l, rest)
  PROVE  ChainOK
<1>1. [l EXCEPT !.list = m.keyrings] \in LocType
  BY DEF LocType, MemType
<1>2. <<"show">> \o rest \in Seq(StageName)
  BY Prepend DEF StageName
<1> QED BY <1>1, <1>2, AdvanceType DEF updateMemStoreKeyrings

RestoreOK == restore' \in Seq(RestoreType)

LEMMA startDeferredRestoreType ==
  ASSUME TypeOK, NEW p \in Proc, NEW m \in MemType, NEW l \in LocType,
         NEW rest \in Seq(StageName), startDeferredRestore(p, m, l, rest)
  PROVE  ChainOK /\ RestoreOK
<1>1. CASE m.pending = Absent
  <2>1. RestoreOK
    BY <1>1 DEF startDeferredRestore, RestoreOK, TypeOK
  <2>2. Advance(p, markKeyringRuntimeReady(m), l, rest) \/ Throw(p, m)
    BY <1>1 DEF startDeferredRestore
  <2>3. markKeyringRuntimeReady(m) \in MemType
    BY MemOps DEF OptPassword
  <2> QED BY <2>1, <2>2, <2>3, AdvanceType, ThrowType
<1>2. CASE m.pending # Absent
  <2> DEFINE r == [id |-> m.restoreId + 1, st |-> "sensitive",
                   left |-> m.pending.data, next |-> m.keyrings,
                   prev |-> m.keyrings, from |-> m.pending]
             n == Len(restore) + 1
             m2 == [m EXCEPT !.restoreId = @ + 1, !.pending = Absent,
                      !.promise = n, !.ready = FALSE,
                      !.restoring = TRUE, !.failed = FALSE]
             l2 == [l EXCEPT !.rid = n]
  <2>1. m.pending \in Pending /\ m.restoreId + 1 \in Nat /\ m.keyrings \in Bag
    BY <1>2 DEF MemType
  <2>2. r \in RestoreType
    BY <2>1 DEF RestoreType, Pending
  <2>3. restore \in Seq(RestoreType) /\ n \in Nat
    BY DEF TypeOK
  <2>4. m2 \in MemType
    <3>1. \A a, b \in Nat :
            [m EXCEPT !.restoreId = a, !.pending = Absent, !.promise = b,
                      !.ready = FALSE, !.restoring = TRUE, !.failed = FALSE]
              \in MemType
      BY DEF MemType
    <3> QED BY <2>1, <2>3, <3>1
  <2>5. l2 \in LocType
    BY <2>3 DEF LocType
  <2>6. <<"join">> \o rest \in Seq(StageName)
    BY Prepend DEF StageName
  <2>7. restore' = Append(restore, r) /\ Advance(p, m2, l2, <<"join">> \o rest)
    BY <1>2 DEF startDeferredRestore
  <2>8. RestoreOK
    BY <2>2, <2>3, <2>7 DEF RestoreOK
  <2>9. ChainOK
    BY <2>4, <2>5, <2>6, <2>7, AdvanceType
  <2> QED BY <2>8, <2>9
<1> QED BY <1>1, <1>2

LEMMA ensureKeyringRuntimeReadyType ==
  ASSUME TypeOK, NEW p \in Proc, NEW m \in MemType, NEW l \in LocType,
         NEW rest \in Seq(StageName), ensureKeyringRuntimeReady(p, m, l, rest)
  PROVE  ChainOK /\ RestoreOK
<1>1. [l EXCEPT !.rid = m.promise] \in LocType
  BY DEF LocType, MemType
<1>2. <<"join">> \o rest \in Seq(StageName)
  BY Prepend DEF StageName
<1>3. UNCHANGED restore => RestoreOK
  BY DEF TypeOK, RestoreOK
<1> QED
  BY <1>1, <1>2, <1>3, AdvanceType, ThrowType, startDeferredRestoreType
     DEF ensureKeyringRuntimeReady

LEMMA serializeForPersistType ==
  ASSUME TypeOK, NEW p \in Proc, NEW m \in MemType, NEW l \in LocType,
         NEW rest \in Seq(StageName), serializeForPersist(p, m, l, rest)
  PROVE  ChainOK
<1>1. [l EXCEPT !.ser = m.keyrings] \in LocType
  BY DEF LocType, MemType
<1> QED BY <1>1, AdvanceType, ThrowType DEF serializeForPersist

LEMMA persistAllKeyringsType ==
  ASSUME TypeOK, NEW p \in Proc, NEW m \in MemType, NEW l \in LocType,
         NEW rest \in Seq(StageName), persistAllKeyrings(p, m, l, rest)
  PROVE  ChainOK /\ RestoreOK
<1> DEFINE write == <<"snapshot", "encrypt">> \o rest
<1>1. write \in Seq(StageName) /\ <<"serialize">> \o write \in Seq(StageName)
  BY Prepend DEF StageName
<1>2. UNCHANGED restore => RestoreOK
  BY DEF TypeOK, RestoreOK
<1>3. \/ ensureKeyringRuntimeReady(p, m, l, <<"serialize">> \o write)
      \/ serializeForPersist(p, m, l, write) /\ UNCHANGED restore
  BY DEF persistAllKeyrings
<1> QED
  BY <1>1, <1>2, <1>3, ensureKeyringRuntimeReadyType, serializeForPersistType

LEMMA persistKeyringsForKeyringType ==
  ASSUME TypeOK, NEW p \in Proc, NEW m \in MemType, NEW l \in LocType, NEW k,
         NEW rest \in Seq(StageName),
         persistKeyringsForKeyring(p, m, l, k, rest)
  PROVE  ChainOK /\ RestoreOK
<1>1. [l EXCEPT !.ser = m.keyrings] \in LocType
  BY DEF LocType, MemType
<1>2. <<"snapshot", "writeSnapshot", "writeUnencrypted">> \o rest
        \in Seq(StageName)
  BY Prepend DEF StageName
<1>3. UNCHANGED restore => RestoreOK
  BY DEF TypeOK, RestoreOK
<1> QED
  BY <1>1, <1>2, <1>3, persistAllKeyringsType, AdvanceType
     DEF persistKeyringsForKeyring

LEMMA unlockKeyringsType ==
  ASSUME TypeOK, NEW p \in Proc, NEW m \in MemType, NEW l \in LocType,
         NEW rest \in Seq(StageName), unlockKeyrings(p, m, l, rest)
  PROVE  ChainOK
<1>1. CASE store.vault = NoVault
  BY <1>1, ThrowType DEF unlockKeyrings
<1>2. CASE store.vault # NoVault
  <2>1. store.vault.pw \in OptPassword /\ store.vault.krs \in Bag
    BY <1>2 DEF TypeOK, StoreType
  <2>2. [l EXCEPT !.key = store.vault.pw, !.ser = store.vault.krs] \in LocType
    BY <2>1 DEF LocType
  <2>3. clearKeyrings(m) \in MemType
    BY MemOps DEF OptPassword
  <2> QED BY <1>2, <2>2, <2>3, AdvanceType DEF unlockKeyrings
<1> QED BY <1>1, <1>2

LEMMA setUnlockedType ==
  ASSUME TypeOK, NEW p \in Proc, NEW m \in MemType, NEW l \in LocType,
         setUnlocked(p, m, l)
  PROVE  ChainOK /\ RestoreOK
<1>1. [m EXCEPT !.unlocked = TRUE] \in MemType
  BY DEF MemType
<1>2. <<>> \in Seq(StageName)
  OBVIOUS
<1>3. UNCHANGED restore => RestoreOK
  BY DEF TypeOK, RestoreOK
<1> QED
  BY <1>1, <1>2, <1>3, persistAllKeyringsType, AdvanceType DEF setUnlocked

LEMMA openVaultType ==
  ASSUME TypeOK, NEW p \in Proc, NEW m \in MemType, NEW l \in LocType,
         openVault(p, m, l)
  PROVE  ChainOK /\ RestoreOK
<1>1. holdPassword(m, l.pw) \in MemType
  BY MemOps DEF LocType
<1>2. \A s \in {<<"ready">>, <<"display", "ready">>} :
        <<"decrypt", "sensitive", "public">> \o s \in Seq(StageName)
  <2>1. /\ <<"ready">> \in Seq(StageName)
        /\ <<"display", "ready">> \in Seq(StageName)
        /\ <<"decrypt", "sensitive", "public">> \in Seq(StageName)
    BY DEF StageName
  <2> QED BY <2>1, Prepend
<1>3. UNCHANGED restore => RestoreOK
  BY DEF TypeOK, RestoreOK
<1> QED
  BY <1>1, <1>2, <1>3, unlockKeyringsType, setUnlockedType DEF openVault

LEMMA submitPasswordType ==
  ASSUME TypeOK, NEW p \in Proc, NEW pw \in OptPassword,
         NEW trusted \in BOOLEAN, NEW defer \in BOOLEAN,
         submitPassword(p, pw, trusted, defer)
  PROVE  ChainOK /\ RestoreOK
<1> DEFINE l == [Idle EXCEPT !.op = "submit", !.pw = pw, !.key = store.booted,
                             !.flag = store.vault # NoVault, !.defer = defer]
           m == [mem EXCEPT !.submitting = TRUE]
<1>1. l \in LocType
  BY IdleType DEF TypeOK, StoreType, LocType, OpName
<1>2. m \in MemType /\ mem \in MemType
  BY DEF TypeOK, MemType
<1>3. <<"verify">> \in Seq(StageName)
  BY DEF StageName
<1>4. UNCHANGED restore => RestoreOK
  BY DEF TypeOK, RestoreOK
<1>5. \/ Throw(p, mem) /\ UNCHANGED restore
      \/ openVault(p, m, l)
      \/ Advance(p, m, l, <<"verify">>) /\ UNCHANGED restore
  BY DEF submitPassword
<1> QED BY <1>1, <1>2, <1>3, <1>4, <1>5, openVaultType, ThrowType, AdvanceType

-----------------------------------------------------------------------------
(* Operations begin.                                                       *)

\* What every operation leaves behind besides its chain.
BeginOK ==
  /\ store' \in StoreType /\ orphans' \in Bag
  /\ started' \in [Proc -> Nat] /\ failures' \in Nat /\ crashes' \in Nat

LEMMA BeginType ==
  ASSUME TypeOK, NEW p \in Proc, NEW op, Begin(p, op)
  PROVE  BeginOK
<1>1. started[p] + 1 \in Nat
  BY DEF TypeOK
<1> QED BY <1>1 DEF Begin, BeginOK, TypeOK

LEMMA UnencType == TypeOK /\ store.unenc # Absent => store.unenc \in Bag
BY DEF TypeOK, StoreType

LEMMA OrNothingType == TypeOK => OrNothing(store.unenc) \in Bag
BY UnencType, NothingType DEF OrNothing

LEMMA OperationType ==
  ASSUME TypeOK, NEW p \in Proc, Operation(p)
  PROVE  TypeOK'
<1> USE DEF OptPassword
<1>0. /\ mem \in MemType /\ \A op : Begin(p, op) => BeginOK
      /\ UNCHANGED restore => RestoreOK
      /\ UNCHANGED left => left' \in [Proc -> Bag]
      /\ UNCHANGED saved => saved' \subseteq Keyring
  BY BeginType DEF TypeOK, RestoreOK
<1>1. ChainOK /\ RestoreOK /\ BeginOK /\ left' \in [Proc -> Bag]
        /\ saved' \subseteq Keyring => TypeOK'
  BY DEF ChainOK, RestoreOK, BeginOK, TypeOK
<1>2. CASE Launch(p)
  <2> DEFINE l == [Idle EXCEPT !.op = "launch", !.pw = BuiltIn]
             m == [mem EXCEPT !.launched = TRUE]
  <2>1. BuiltIn \in Password
    BY KeyringServiceAssumption DEF KeyringServiceAssumption
  <2>2. l \in LocType
    BY <2>1, IdleType DEF LocType, OpName
  <2>3. m \in MemType /\ [m EXCEPT !.password = BuiltIn] \in MemType
    BY <1>0, <2>1 DEF MemType
  <2>4. <<"boot", "launch">> \in Seq(StageName) /\ <<"launch">> \in Seq(StageName)
    BY DEF StageName
  <2> QED
    BY <1>0, <1>1, <1>2, <2>2, <2>3, <2>4, AdvanceType DEF Launch
<1>3. CASE SubmitPassword(p)
  BY <1>0, <1>1, <1>3, submitPasswordType DEF SubmitPassword
<1>4. CASE SetLocked(p)
  <2> DEFINE l == [Idle EXCEPT !.op = "lock"]
  <2>1. l \in LocType
    BY IdleType DEF LocType, OpName
  <2>2. lockRuntime(mem) \in MemType
    BY <1>0, MemOps
  <2>3. /\ <<>> \in Seq(StageName)
        /\ <<"public", "display", "display">> \in Seq(StageName)
    BY DEF StageName
  <2>4. ChainOK /\ left' \in [Proc -> Bag]
    BY <1>0, <1>4, <2>1, <2>2, <2>3, UnencType, AdvanceType,
       updateMemStoreKeyringsType DEF SetLocked, TypeOK
  <2> QED BY <1>0, <1>1, <1>4, <2>4 DEF SetLocked
<1>5. CASE AddKeyring(p)
  <2>1. PICK k \in Keyring :
          LET l == [Idle EXCEPT !.op = "add", !.kr = k]
              rest == <<"assert", "duplicate", "push", "display", "acknowledge">>
          IN  \/ ensureKeyringRuntimeReady(p, mem, l, rest)
              \/ Advance(p, mem, l, rest) /\ UNCHANGED restore
    BY <1>5 DEF AddKeyring
  <2>2. [Idle EXCEPT !.op = "add", !.kr = k] \in LocType
    BY IdleType DEF LocType, OpName
  <2>3. <<"assert", "duplicate", "push", "display", "acknowledge">>
          \in Seq(StageName)
    BY DEF StageName
  <2>4. ChainOK /\ RestoreOK
    BY <1>0, <2>1, <2>2, <2>3, AdvanceType, ensureKeyringRuntimeReadyType
  <2> QED BY <1>0, <1>1, <1>5, <2>4 DEF AddKeyring
<1>6. CASE RemoveAccount(p)
  <2>1. PICK k \in Keyring :
          LET l == [Idle EXCEPT !.op = "remove", !.kr = k]
          IN  \/ ensureKeyringRuntimeReady(p, mem, l, removeStages)
              \/ Advance(p, mem, l, removeStages) /\ UNCHANGED restore
    BY <1>6 DEF RemoveAccount
  <2>2. [Idle EXCEPT !.op = "remove", !.kr = k] \in LocType
    BY IdleType DEF LocType, OpName
  <2>3. removeStages \in Seq(StageName)
    BY DEF StageName, removeStages
  <2>4. ChainOK /\ RestoreOK
    BY <1>0, <2>1, <2>2, <2>3, AdvanceType, ensureKeyringRuntimeReadyType
  <2> QED BY <1>0, <1>1, <1>6, <2>4 DEF RemoveAccount
<1>7. CASE Refresh(p)
  <2>1. [Idle EXCEPT !.op = "refresh"] \in LocType
    BY IdleType DEF LocType, OpName
  <2>2. <<>> \in Seq(StageName) /\ <<"display">> \in Seq(StageName)
    BY DEF StageName
  <2>3. ChainOK /\ RestoreOK
    BY <1>0, <1>7, <2>1, <2>2, ensureKeyringRuntimeReadyType DEF Refresh
  <2> QED BY <1>0, <1>1, <1>7, <2>3 DEF Refresh
<1>8. CASE UpdatePassword(p)
  <2>1. \A pw, npw \in Password :
          [Idle EXCEPT !.op = "changePw", !.pw = pw, !.npw = npw,
                       !.key = store.booted] \in LocType
    BY IdleType DEF LocType, OpName, TypeOK, StoreType
  <2>2. changePasswordStages \in Seq(StageName)
    BY DEF StageName, changePasswordStages
  <2>3. ChainOK
    BY <1>0, <1>8, <2>1, <2>2, AdvanceType DEF UpdatePassword
  <2> QED BY <1>0, <1>1, <1>8, <2>3 DEF UpdatePassword
<1>9. CASE Wipe(p)
  <2>1. \A pw, npw \in Password :
          [Idle EXCEPT !.op = "wipe", !.pw = pw, !.npw = npw,
                       !.key = store.booted] \in LocType
    BY IdleType DEF LocType, OpName, TypeOK, StoreType
  <2>2. changePasswordStages \o <<"persist">> \in Seq(StageName)
    <3>1. changePasswordStages \in Seq(StageName)
      BY DEF StageName, changePasswordStages
    <3>2. <<"persist">> \in Seq(StageName)
      BY DEF StageName
    <3> QED BY <3>1, <3>2, Prepend
  <2>3. [mem EXCEPT !.keyrings = Nothing] \in MemType
    BY <1>0, NothingType DEF MemType
  <2>4. ChainOK
    BY <1>0, <1>9, <2>1, <2>2, <2>3, AdvanceType DEF Wipe
  <2> QED BY <1>0, <1>1, <1>9, <2>4 DEF Wipe
<1>10. CASE Erase(p)
  <2>1. \A pw \in Password :
          [Idle EXCEPT !.op = "erase", !.pw = pw, !.key = store.booted]
            \in LocType
    BY IdleType DEF LocType, OpName, TypeOK, StoreType
  <2>2. <<"verify", "erase">> \in Seq(StageName)
    BY DEF StageName
  <2>3. ChainOK
    BY <1>0, <1>10, <2>1, <2>2, AdvanceType DEF Erase
  <2> QED BY <1>0, <1>1, <1>10, <2>3 DEF Erase
<1> QED
  BY <1>2, <1>3, <1>4, <1>5, <1>6, <1>7, <1>8, <1>9, <1>10 DEF Operation

-----------------------------------------------------------------------------
(* Stages.                                                                 *)

LEMMA QuietType ==
  ASSUME TypeOK, Quiet, saved' \subseteq Keyring, ChainOK, RestoreOK
  PROVE  TypeOK'
BY DEF Quiet, bounds, TypeOK, ChainOK, RestoreOK

LEMMA StoreType_Written ==
  ASSUME NEW s \in StoreType, NEW key \in OptPassword, NEW l \in LocType
  PROVE  Written(s, key, l) \in StoreType
<1>1. l.ser \in Bag /\ l.snp \in SUBSET Keyring
  BY DEF LocType
<1>2. Keep(l.ser, Public) \in Bag /\ hasEncryptedKeyrings(l.ser) \in BOOLEAN
  BY <1>1, BagOps DEF hasEncryptedKeyrings
<1>3. [pw |-> key, krs |-> l.ser] \in [pw : OptPassword, krs : Bag]
  BY <1>1
<1> QED BY <1>1, <1>2, <1>3 DEF Written, StoreType

\* The stages of a chain that touch neither the store nor the deserialisations.
LEMMA QuietStageType ==
  ASSUME TypeOK, NEW p \in Proc,
         \/ Verify(p) \/ Reload(p) \/ PublicRestored(p) \/ Display(p)
         \/ Show(p) \/ Ready(p) \/ Join(p) \/ Serialize(p) \/ Snapshot(p)
         \/ Encrypt(p)
  PROVE  TypeOK'
<1> USE DEF OptPassword
<1>0. /\ mem \in MemType
      /\ UNCHANGED restore => RestoreOK
      /\ UNCHANGED saved => saved' \subseteq Keyring
      /\ loc[p] \in LocType
  BY DEF TypeOK, RestoreOK
<1>1. CASE Verify(p)
  <2>1. [loc[p] EXCEPT !.flag = shouldRestoreVault, !.defer = mem.unlocked]
          \in LocType
    BY <1>0 DEF LocType, MemType, shouldRestoreVault
  <2>2. ChainOK /\ RestoreOK
    BY <1>0, <1>1, <2>1, RestType, ThrowType, openVaultType, AdvanceType
       DEF Verify
  <2> QED BY <1>0, <1>1, <2>2, QuietType DEF Verify
<1>2. CASE Reload(p)
  <2>1. Rest(p) \in Seq(StageName)
    BY <1>2, RestType DEF Reload
  <2>2. <<"decrypt", "sensitive", "public", "ready">> \in Seq(StageName)
    BY DEF StageName
  <2>3. <<"decrypt", "sensitive", "public", "ready">> \o Rest(p)
          \in Seq(StageName)
    BY <2>1, <2>2, Prepend
  <2>4. ChainOK
    BY <1>0, <1>2, <2>1, <2>3, unlockKeyringsType, AdvanceType DEF Reload
  <2> QED BY <1>0, <1>2, <2>4, QuietType DEF Reload
<1>3. CASE PublicRestored(p)
  <2>1. Rest(p) \in Seq(StageName)
    BY <1>3, RestType DEF PublicRestored
  <2>2. Rest(p) # <<>> => Tail(Rest(p)) \in Seq(StageName)
    BY <2>1
  <2>3. ChainOK
    BY <1>0, <1>3, <2>1, <2>2, updateMemStoreKeyringsType, AdvanceType
       DEF PublicRestored
  <2> QED BY <1>0, <1>3, <2>3, QuietType DEF PublicRestored
<1>4. CASE Display(p)
  <2>1. ChainOK
    BY <1>0, <1>4, RestType, updateMemStoreKeyringsType DEF Display
  <2> QED BY <1>0, <1>4, <2>1, QuietType DEF Display
<1>5. CASE Show(p)
  <2>1. [mem EXCEPT !.shown = loc[p].list] \in MemType
    BY <1>0 DEF MemType, LocType
  <2>2. ChainOK
    BY <1>0, <1>5, <2>1, RestType, AdvanceType DEF Show
  <2> QED BY <1>0, <1>5, <2>2, QuietType DEF Show
<1>6. CASE Ready(p)
  <2>1. markKeyringRuntimeReady(mem) \in MemType
    BY <1>0, MemOps
  <2>2. ChainOK /\ RestoreOK
    BY <1>0, <1>6, <2>1, RestType, setUnlockedType, AdvanceType DEF Ready
  <2> QED BY <1>0, <1>6, <2>2, QuietType DEF Ready
<1>7. CASE Join(p)
  <2>1. ChainOK
    BY <1>0, <1>7, RestType, ThrowType, AdvanceType DEF Join
  <2> QED BY <1>0, <1>7, <2>1, QuietType DEF Join
<1>8. CASE Serialize(p)
  <2>1. ChainOK
    BY <1>0, <1>8, RestType, serializeForPersistType DEF Serialize
  <2> QED BY <1>0, <1>8, <2>1, QuietType DEF Serialize
<1>9. CASE Snapshot(p)
  <2>1. [loc[p] EXCEPT !.snp = Members(mem.keyrings)] \in LocType
    BY <1>0, BagOps DEF LocType, MemType
  <2>2. ChainOK
    BY <1>0, <1>9, <2>1, RestType, AdvanceType DEF Snapshot
  <2> QED BY <1>0, <1>9, <2>2, QuietType DEF Snapshot
<1>10. CASE Encrypt(p)
  <2>1. [loc[p] EXCEPT !.key = mem.password] \in LocType
    BY <1>0 DEF LocType, MemType
  <2>2. Rest(p) \in Seq(StageName)
    BY <1>10, RestType DEF Encrypt
  <2>3. <<"write">> \o Rest(p) \in Seq(StageName)
    BY <2>2, Prepend DEF StageName
  <2>4. ChainOK
    BY <1>0, <1>10, <2>1, <2>3, ThrowType, AdvanceType DEF Encrypt
  <2> QED BY <1>0, <1>10, <2>4, QuietType DEF Encrypt
<1> QED
  BY <1>1, <1>2, <1>3, <1>4, <1>5, <1>6, <1>7, <1>8, <1>9, <1>10

LEMMA QuietStageType2 ==
  ASSUME TypeOK, NEW p \in Proc,
         \/ AssertCanPersist(p) \/ CheckForDuplicate(p) \/ Compare(p)
         \/ PushKeyring(p) \/ Acknowledge(p) \/ RemoveKeyring(p)
         \/ Rekey(p) \/ Collect(p) \/ EncryptNew(p) \/ PersistAgain(p)
         \/ EraseKeyrings(p)
  PROVE  TypeOK'
<1> USE DEF OptPassword
<1>0. /\ mem \in MemType
      /\ UNCHANGED restore => RestoreOK
      /\ UNCHANGED saved => saved' \subseteq Keyring
      /\ loc[p] \in LocType /\ mem.keyrings \in Bag
      /\ \A b \in Bag : [mem EXCEPT !.keyrings = b] \in MemType
      /\ [loc[p] EXCEPT !.ser = mem.keyrings] \in LocType
  BY DEF TypeOK, RestoreOK, MemType, LocType
<1>a. ASSUME NEW rest \in Seq(StageName),
             compareAccounts(p, mem, loc[p], rest)
      PROVE  ChainOK
  BY <1>0, <1>a, ThrowType, AdvanceType DEF compareAccounts
<1>1. CASE AssertCanPersist(p)
  <2>1. ChainOK
    BY <1>0, <1>1, RestType, ThrowType, AdvanceType DEF AssertCanPersist
  <2> QED BY <1>0, <1>1, <2>1, QuietType DEF AssertCanPersist
<1>2. CASE CheckForDuplicate(p)
  <2>1. Rest(p) \in Seq(StageName)
    BY <1>2, RestType DEF CheckForDuplicate
  <2>2. <<"compare">> \o Rest(p) \in Seq(StageName)
    BY <2>1, Prepend DEF StageName
  <2>3. ChainOK /\ RestoreOK
    BY <1>0, <1>2, <1>a, <2>1, <2>2, ensureKeyringRuntimeReadyType
       DEF CheckForDuplicate
  <2> QED BY <1>0, <1>2, <2>3, QuietType DEF CheckForDuplicate
<1>3. CASE Compare(p)
  <2>1. ChainOK
    BY <1>0, <1>3, <1>a, RestType DEF Compare
  <2> QED BY <1>0, <1>3, <2>1, QuietType DEF Compare
<1>4. CASE PushKeyring(p)
  <2>1. [mem EXCEPT !.keyrings = Push(@, loc[p].kr)] \in MemType
    BY <1>0, BagOps
  <2>2. ChainOK /\ RestoreOK
    BY <1>0, <1>4, <2>1, RestType, persistKeyringsForKeyringType
       DEF PushKeyring
  <2> QED BY <1>0, <1>4, <2>2, QuietType DEF PushKeyring
<1>5. CASE Acknowledge(p)
  <2>1. ChainOK
    BY <1>0, <1>5, RestType, AdvanceType DEF Acknowledge
  <2>2. saved' \subseteq Keyring
    BY <1>5 DEF Acknowledge, TypeOK
  <2> QED BY <1>0, <1>5, <2>1, <2>2, QuietType DEF Acknowledge
<1>6. CASE RemoveKeyring(p)
  <2>1. [mem EXCEPT !.keyrings = Drop(@, loc[p].kr)] \in MemType
    BY <1>0, BagOps
  <2>2. ChainOK /\ RestoreOK
    BY <1>0, <1>6, <2>1, RestType, ThrowType, persistKeyringsForKeyringType
       DEF RemoveKeyring
  <2>3. saved' \subseteq Keyring
    BY <1>0, <1>6 DEF RemoveKeyring, TypeOK
  <2> QED BY <1>0, <1>6, <2>2, <2>3, QuietType DEF RemoveKeyring
<1>7. CASE Rekey(p)
  <2>1. Rest(p) \in Seq(StageName)
    BY <1>7, RestType DEF Rekey
  <2>2. <<"collect">> \o Rest(p) \in Seq(StageName)
    BY <2>1, Prepend DEF StageName
  <2>3. ChainOK /\ RestoreOK
    BY <1>0, <1>7, <2>1, <2>2, ensureKeyringRuntimeReadyType, AdvanceType
       DEF Rekey
  <2> QED BY <1>0, <1>7, <2>3, QuietType DEF Rekey
<1>8. CASE Collect(p)
  <2>1. ChainOK
    BY <1>0, <1>8, RestType, AdvanceType DEF Collect
  <2> QED BY <1>0, <1>8, <2>1, QuietType DEF Collect
<1>9. CASE EncryptNew(p)
  <2>1. ChainOK
    BY <1>0, <1>9, RestType, AdvanceType DEF EncryptNew
  <2> QED BY <1>0, <1>9, <2>1, QuietType DEF EncryptNew
<1>10. CASE PersistAgain(p)
  <2>1. ChainOK /\ RestoreOK
    BY <1>0, <1>10, RestType, persistAllKeyringsType DEF PersistAgain
  <2> QED BY <1>0, <1>10, <2>1, QuietType DEF PersistAgain
<1>11. CASE EraseKeyrings(p)
  <2>1. [mem EXCEPT !.keyrings = Nothing] \in MemType
    BY <1>0, NothingType
  <2>2. <<"eraseStore">> \in Seq(StageName)
    BY DEF StageName
  <2>3. ChainOK /\ RestoreOK
    BY <1>0, <1>11, <2>1, <2>2, persistAllKeyringsType DEF EraseKeyrings
  <2> QED BY <1>0, <1>11, <2>3, QuietType DEF EraseKeyrings
<1> QED
  BY <1>1, <1>2, <1>3, <1>4, <1>5, <1>6, <1>7, <1>8, <1>9, <1>10, <1>11

\* The stages that write the store, and those that wait for deserialisations.
LEMMA BusyStageType ==
  ASSUME TypeOK, NEW p \in Proc,
         \/ Write(p) \/ WriteSnapshot(p) \/ WriteUnencrypted(p) \/ WriteNew(p)
         \/ EraseStore(p) \/ BootWritten(p) \/ LaunchChoice(p)
         \/ Decrypt(p) \/ RestoreKeyring(p) \/ RestoreKeyringThrows(p)
         \/ SensitiveRestored(p) \/ Relock(p)
  PROVE  TypeOK'
<1> USE DEF OptPassword
<1>0. /\ mem \in MemType /\ loc[p] \in LocType /\ store \in StoreType
      /\ UNCHANGED restore => RestoreOK
      /\ UNCHANGED left => left' \in [Proc -> Bag]
  BY DEF TypeOK, RestoreOK
<1>a. ASSUME ChainOK, RestoreOK, store' \in StoreType, saved' \subseteq Keyring,
             UNCHANGED <<orphans, bounds>>, left' \in [Proc -> Bag]
      PROVE  TypeOK'
  BY <1>a DEF bounds, TypeOK, ChainOK, RestoreOK
<1>b. \A b \in Bag : [left EXCEPT ![p] = b] \in [Proc -> Bag]
  BY DEF TypeOK
<1>1. CASE Write(p)
  <2>1. store' \in StoreType
    BY <1>0, <1>1, StoreType_Written DEF Write, LocType
  <2>2. ChainOK
    BY <1>0, <1>1, RestType, AdvanceType DEF Write
  <2> QED BY <1>0, <1>1, <1>a, <2>1, <2>2 DEF Write, TypeOK
<1>2. CASE WriteSnapshot(p)
  <2>1. store' \in StoreType
    BY <1>0, <1>2 DEF WriteSnapshot, StoreType, LocType
  <2>2. ChainOK
    BY <1>0, <1>2, RestType, AdvanceType DEF WriteSnapshot
  <2> QED BY <1>0, <1>2, <1>a, <2>1, <2>2 DEF WriteSnapshot, TypeOK
<1>3. CASE WriteUnencrypted(p)
  <2>1. Keep(loc[p].ser, Public) \in Bag
    BY <1>0, BagOps DEF LocType
  <2>2. store' \in StoreType
    BY <1>0, <1>3, <2>1 DEF WriteUnencrypted, StoreType
  <2>3. ChainOK
    BY <1>0, <1>3, RestType, AdvanceType DEF WriteUnencrypted
  <2> QED BY <1>0, <1>3, <1>a, <2>2, <2>3 DEF WriteUnencrypted, TypeOK
<1>4. CASE WriteNew(p)
  <2>1. loc[p].npw \in OptPassword
    BY <1>0 DEF LocType
  <2>2. Written(store, loc[p].npw, loc[p]) \in StoreType
    BY <1>0, <2>1, StoreType_Written
  <2>3. store' \in StoreType
    BY <1>4, <2>1, <2>2 DEF WriteNew, StoreType
  <2>4. holdPassword(mem, loc[p].npw) \in MemType
    BY <1>0, <2>1, MemOps
  <2>5. ChainOK
    BY <1>0, <1>4, <2>4, RestType, AdvanceType DEF WriteNew
  <2> QED BY <1>0, <1>4, <1>a, <2>3, <2>5 DEF WriteNew, TypeOK
<1>5. CASE EraseStore(p)
  <2>1. store' \in StoreType
    BY <1>0, <1>5 DEF EraseStore, erased, StoreType
  <2>2. [mem EXCEPT !.shown = Nothing] \in MemType
    BY <1>0, NothingType DEF MemType
  <2>3. ChainOK
    BY <1>0, <1>5, <2>2, RestType, AdvanceType DEF EraseStore
  <2> QED BY <1>0, <1>5, <1>a, <2>1, <2>3 DEF EraseStore
<1>6. CASE BootWritten(p)
  <2>1. store' \in StoreType
    BY <1>0, <1>6 DEF BootWritten, StoreType, LocType
  <2>2. [mem EXCEPT !.unlocked = TRUE, !.ready = TRUE,
                    !.restoring = FALSE, !.failed = FALSE] \in MemType
    BY <1>0 DEF MemType
  <2>3. ChainOK
    BY <1>0, <1>6, <2>2, RestType, AdvanceType DEF BootWritten
  <2> QED BY <1>0, <1>6, <1>a, <2>1, <2>3 DEF BootWritten, TypeOK
<1>7. CASE LaunchChoice(p)
  <2>1. BuiltIn \in Password
    BY KeyringServiceAssumption DEF KeyringServiceAssumption
  <2>2. Keep(mem.keyrings, Sensitive) \in Bag
    BY <1>0, BagOps DEF MemType
  <2>3. [mem EXCEPT !.keyrings = Keep(@, Sensitive)] \in MemType
    BY <1>0, <2>2 DEF MemType
  <2>4. <<>> \in Seq(StageName) /\ <<"public", "display">> \in Seq(StageName)
    BY DEF StageName
  <2>5. CASE store.booted = BuiltIn /\ ~mem.unlocked
    BY <1>0, <1>7, <1>a, <2>1, <2>5, submitPasswordType DEF LaunchChoice, TypeOK
  <2>6. CASE ~(store.booted = BuiltIn /\ ~mem.unlocked)
    <3>1. ChainOK
      BY <1>0, <1>7, <2>3, <2>4, <2>6, AdvanceType DEF LaunchChoice
    <3>2. left' \in [Proc -> Bag]
      BY <1>0, <1>7, <1>b, <2>6, UnencType DEF LaunchChoice
    <3> QED BY <1>0, <1>7, <1>a, <2>6, <3>1, <3>2 DEF LaunchChoice, TypeOK
  <2> QED BY <2>5, <2>6
<1>8. CASE Decrypt(p)
  <2> DEFINE l == loc[p]
             toRestore == IF store.unenc = Absent THEN l.ser
                          ELSE Keep(l.ser, Sensitive)
             pub == OrNothing(store.unenc)
  <2>1. toRestore \in Bag /\ pub \in Bag
    BY <1>0, BagOps, OrNothingType DEF LocType
  <2>2. [data |-> toRestore, pub |-> pub] \in Pending
    BY <2>1 DEF Pending
  <2>3. \A r \in Pending :
          [mem EXCEPT !.pending = r, !.ready = FALSE, !.restoring = FALSE,
                      !.failed = FALSE] \in MemType
    BY <1>0 DEF MemType
  <2>4. [l EXCEPT !.list = pub] \in LocType
    BY <1>0, <2>1 DEF LocType
  <2> HIDE DEF toRestore, pub
  <2>5. \/ Throw(p, mem) /\ UNCHANGED <<left, restore>>
        \/ /\ setUnlocked(p, [mem EXCEPT
                   !.pending = [data |-> toRestore, pub |-> pub],
                   !.ready = FALSE, !.restoring = FALSE, !.failed = FALSE], l)
           /\ UNCHANGED left
        \/ /\ left' = [left EXCEPT ![p] = toRestore]
           /\ Advance(p, mem, [l EXCEPT !.list = pub], Rest(p))
           /\ UNCHANGED restore
    BY <1>8 DEF Decrypt, toRestore, pub
  <2>6. ChainOK /\ RestoreOK
    <3>1. Rest(p) \in Seq(StageName)
      BY <1>8, RestType DEF Decrypt
    <3> QED
      BY <1>0, <2>2, <2>3, <2>4, <2>5, <3>1, ThrowType, setUnlockedType,
         AdvanceType
  <2>7. left' \in [Proc -> Bag]
    BY <1>0, <1>b, <2>1, <2>5
  <2> QED BY <1>0, <1>8, <1>a, <2>6, <2>7 DEF Decrypt, TypeOK
<1>9. CASE RestoreKeyring(p)
  <2>1. PICK k \in Keyring :
          /\ left' = [left EXCEPT ![p] = Drop(@, k)]
          /\ mem' = [mem EXCEPT !.keyrings = Push(@, k)]
    BY <1>9 DEF RestoreKeyring
  <2>2. left[p] \in Bag /\ mem.keyrings \in Bag
    BY <1>0 DEF TypeOK, MemType
  <2>3. Drop(left[p], k) \in Bag /\ Push(mem.keyrings, k) \in Bag
    BY <2>2, BagOps
  <2>4. left' \in [Proc -> Bag]
    BY <1>b, <2>1, <2>3
  <2>5. mem' \in MemType
    BY <1>0, <2>1, <2>3 DEF MemType
  <2>6. ChainOK
    BY <1>9, <2>5 DEF RestoreKeyring, ChainOK, TypeOK
  <2> QED BY <1>0, <1>9, <1>a, <2>4, <2>6 DEF RestoreKeyring, TypeOK
<1>10. CASE RestoreKeyringThrows(p)
  <2>1. PICK k \in Keyring :
          /\ failures' = failures + 1
          /\ orphans' = Added(orphans, Drop(left[p], k))
          /\ left' = [left EXCEPT ![p] = Nothing]
          /\ Throw(p, mem)
    BY <1>10 DEF RestoreKeyringThrows
  <2>2. left[p] \in Bag /\ orphans \in Bag
    BY DEF TypeOK
  <2>3. Drop(left[p], k) \in Bag
    BY <2>2, BagOps
  <2>4. Added(orphans, Drop(left[p], k)) \in Bag
    BY <2>2, <2>3, BagOps
  <2>5. left' \in [Proc -> Bag] /\ failures' \in Nat /\ ChainOK
    BY <1>0, <1>b, <2>1, NothingType, ThrowType DEF TypeOK
  <2> QED
    BY <1>10, <2>1, <2>4, <2>5 DEF RestoreKeyringThrows, TypeOK, ChainOK
<1>11. CASE SensitiveRestored(p)
  <2>1. left' \in [Proc -> Bag]
    BY <1>0, <1>11, <1>b DEF SensitiveRestored, LocType
  <2>2. ChainOK
    BY <1>0, <1>11, RestType, AdvanceType DEF SensitiveRestored
  <2> QED BY <1>0, <1>11, <1>a, <2>1, <2>2 DEF SensitiveRestored, TypeOK
<1>12. CASE Relock(p)
  <2>1. Rest(p) \in Seq(StageName)
    BY <1>12, RestType DEF Relock
  <2>2. <<"public", "display">> \in Seq(StageName)
    BY DEF StageName
  <2>3. <<"public", "display">> \o Rest(p) \in Seq(StageName)
    BY <2>1, <2>2, Prepend
  <2>4. relockRuntime(mem) \in MemType
    BY <1>0, MemOps
  <2>5. left' \in [Proc -> Bag]
    BY <1>0, <1>12, <1>b, OrNothingType DEF Relock
  <2>6. ChainOK
    BY <1>0, <1>12, <2>1, <2>3, <2>4, AdvanceType, updateMemStoreKeyringsType
       DEF Relock
  <2> QED BY <1>0, <1>12, <1>a, <2>5, <2>6 DEF Relock, TypeOK
<1> QED
  BY <1>1, <1>2, <1>3, <1>4, <1>5, <1>6, <1>7, <1>8, <1>9, <1>10, <1>11, <1>12

-----------------------------------------------------------------------------
(* The deferred restore, the other steps, and the theorem.                 *)

LEMMA RestoreExcept ==
  ASSUME NEW s \in Seq(RestoreType), NEW i \in DOMAIN s, NEW r \in RestoreType
  PROVE  [s EXCEPT ![i] = r] \in Seq(RestoreType)
OBVIOUS

LEMMA SettleType ==
  ASSUME TypeOK, NEW i \in Restores, NEW st \in {"done", "stale", "failed"}
  PROVE  Settle(i, st) \in Seq(RestoreType)
<1> DEFINE r == [restore[i] EXCEPT !.st = st, !.left = Nothing,
                   !.next = Nothing, !.prev = Nothing, !.from = NothingOwed]
<1>1. restore \in Seq(RestoreType) /\ i \in DOMAIN restore
  BY DEF TypeOK, Restores
<1>2. restore[i] \in RestoreType
  BY <1>1
<1>3. r \in RestoreType
  BY <1>2, NothingType DEF RestoreType, Pending, NothingOwed
<1>4. Settle(i, st) = [restore EXCEPT ![i] = r]
  BY DEF Settle
<1> QED BY <1>1, <1>3, <1>4, RestoreExcept

LEMMA DeferredType ==
  ASSUME TypeOK, NEW i \in Restores, Deferred(i)
  PROVE  TypeOK'
<1>0. /\ restore \in Seq(RestoreType) /\ i \in DOMAIN restore
      /\ mem \in MemType
  BY DEF TypeOK, Restores
<1>1. restore[i] \in RestoreType
  BY <1>0
<1>2. restore[i].left \in Bag /\ restore[i].next \in Bag /\ restore[i].prev \in Bag
  BY <1>1 DEF RestoreType
<1>a. ASSUME TaskOnly, mem' \in MemType, restore' \in Seq(RestoreType),
             failures' \in Nat
      PROVE  TypeOK'
  BY <1>a DEF TaskOnly, TypeOK
<1>b. UNCHANGED failures => failures' \in Nat
  BY DEF TypeOK
<1>3. CASE DeferredKeyring(i)
  <2>1. PICK k \in Keyring :
          restore' = [restore EXCEPT
            ![i].left = Drop(@, k),
            ![i].next = IF restore[i].id = mem.restoreId THEN Push(@, k) ELSE @]
    BY <1>3 DEF DeferredKeyring
  <2> DEFINE nx == IF restore[i].id = mem.restoreId
                   THEN Push(restore[i].next, k) ELSE restore[i].next
             r == [restore[i] EXCEPT !.left = Drop(restore[i].left, k), !.next = nx]
  <2>2. Drop(restore[i].left, k) \in Bag /\ nx \in Bag
    BY <1>2, BagOps
  <2> HIDE DEF nx
  <2>3. r \in RestoreType
    BY <1>1, <2>2 DEF RestoreType
  <2>4. restore' = [restore EXCEPT ![i] = r]
    BY <2>1 DEF nx
  <2>5. restore' \in Seq(RestoreType)
    BY <1>0, <2>3, <2>4, RestoreExcept
  <2> QED BY <1>0, <1>3, <1>a, <1>b, <2>5 DEF DeferredKeyring
<1>4. CASE DeferredSensitiveDone(i)
  <2> DEFINE r == [restore[i] EXCEPT !.st = "public",
                                     !.left = restore[i].from.pub]
  <2>1. restore[i].from \in Pending
    BY <1>1 DEF RestoreType
  <2>2. r \in RestoreType
    BY <1>1, <2>1 DEF RestoreType, Pending
  <2>3. restore' = [restore EXCEPT ![i] = r]
    BY <1>4 DEF DeferredSensitiveDone
  <2>4. restore' \in Seq(RestoreType)
    BY <1>0, <2>2, <2>3, RestoreExcept
  <2> QED BY <1>0, <1>4, <1>a, <1>b, <2>4 DEF DeferredSensitiveDone
<1>5. CASE DeferredPublicDone(i)
  <2> DEFINE r == [restore[i] EXCEPT !.st = "show"]
  <2>1. r \in RestoreType
    BY <1>1 DEF RestoreType
  <2>2. [restore EXCEPT ![i].st = "show"] = [restore EXCEPT ![i] = r]
    OBVIOUS
  <2>3. [restore EXCEPT ![i].st = "show"] \in Seq(RestoreType)
    BY <1>0, <2>1, <2>2, RestoreExcept
  <2>4. restore' \in Seq(RestoreType)
    BY <1>5, <2>3, SettleType DEF DeferredPublicDone
  <2>5. mem' \in MemType
    BY <1>0, <1>2, <1>5 DEF DeferredPublicDone, MemType
  <2> QED BY <1>5, <1>a, <1>b, <2>4, <2>5 DEF DeferredPublicDone
<1>6. CASE DeferredShown(i)
  <2> DEFINE r == [restore[i] EXCEPT !.st = "mark"]
  <2>1. r \in RestoreType
    BY <1>1 DEF RestoreType
  <2>2. restore' = [restore EXCEPT ![i] = r]
    BY <1>6 DEF DeferredShown
  <2>3. restore' \in Seq(RestoreType)
    BY <1>0, <2>1, <2>2, RestoreExcept
  <2>4. mem' \in MemType
    BY <1>0, <1>2, <1>6 DEF DeferredShown, MemType
  <2> QED BY <1>6, <1>a, <1>b, <2>3, <2>4 DEF DeferredShown
<1>7. CASE DeferredReady(i)
  <2>1. mem' \in MemType
    BY <1>0, <1>7, MemOps DEF DeferredReady, OptPassword
  <2> QED BY <1>7, <1>a, <1>b, <2>1, SettleType DEF DeferredReady
<1>8. CASE DeferredThrows(i)
  <2>1. rollBack(mem, restore[i]) \in MemType
    BY <1>0, <1>1 DEF rollBack, MemType, RestoreType
  <2>2. mem' \in MemType /\ failures' \in Nat
    BY <1>0, <1>8, <2>1 DEF DeferredThrows, TypeOK, RestoreType
  <2> QED BY <1>8, <1>a, <2>2, SettleType DEF DeferredThrows
<1> QED
  BY <1>3, <1>4, <1>5, <1>6, <1>7, <1>8 DEF Deferred

LEMMA InitType == Init => TypeOK
<1> SUFFICES ASSUME Init PROVE TypeOK
  OBVIOUS
<1>1. \A K : AsBag(K) \in Bag
  BY MaxCopiesType DEF AsBag, Bag
<1>2. Installed \subseteq SUBSET Keyring
  BY KeyringServiceAssumption DEF KeyringServiceAssumption
<1>3. \A pw \in Password, K \in Installed :
        StoreOf(pw, K) \in StoreType /\ LegacyStoreOf(pw, K) \in StoreType
  BY <1>1, <1>2 DEF StoreOf, LegacyStoreOf, StoreType, OptPassword
<1>4. EmptyStore \in StoreType
  BY DEF EmptyStore, StoreType, OptPassword
<1>5. store \in StoreType
  BY <1>3, <1>4 DEF Init, Stores
<1>6. saved \subseteq Keyring
  <2>1. CASE store.unenc = Absent
    BY <1>5, <2>1 DEF Init, Recoverable, Members
  <2>2. CASE store.unenc # Absent
    BY <1>5, <2>2 DEF Init, Recoverable, Members
  <2> QED BY <2>1, <2>2
<1> QED
  BY <1>5, <1>6, NothingType, FreshMemType, IdleType DEF Init, TypeOK

LEMMA NextType == TypeOK /\ [Next]_vars => TypeOK'
<1> SUFFICES ASSUME TypeOK, [Next]_vars PROVE TypeOK'
  OBVIOUS
<1>1. CASE UNCHANGED vars
  BY <1>1 DEF vars, TypeOK
<1>2. ASSUME NEW p \in Proc, Operation(p) PROVE TypeOK'
  BY <1>2, OperationType
<1>3. ASSUME NEW p \in Proc, Stage(p) PROVE TypeOK'
  BY <1>3, QuietStageType, QuietStageType2, BusyStageType DEF Stage
<1>4. ASSUME NEW i \in Restores, Deferred(i) PROVE TypeOK'
  BY <1>4, DeferredType
<1>5. CASE OrphanRestored
  <2>1. PICK k \in Keyring : orphans' = Drop(orphans, k)
               /\ mem' = [mem EXCEPT !.keyrings = Push(@, k)]
    BY <1>5 DEF OrphanRestored
  <2>2. Drop(orphans, k) \in Bag /\ Push(mem.keyrings, k) \in Bag
    BY BagOps DEF TypeOK, MemType
  <2>3. mem' \in MemType
    BY <2>1, <2>2 DEF TypeOK, MemType
  <2> QED BY <1>5, <2>1, <2>2, <2>3 DEF OrphanRestored, bounds, TypeOK
<1>6. CASE Crash
  <2>1. <<>> \in Seq(StageName) /\ <<>> \in Seq(RestoreType)
    OBVIOUS
  <2> QED
    BY <1>6, <2>1, NothingType, FreshMemType, IdleType DEF Crash, TypeOK
<1> QED
  BY <1>1, <1>2, <1>3, <1>4, <1>5, <1>6 DEF Next, Stand

\* Every reachable state is well typed.
THEOREM TypeCorrect == Spec => []TypeOK
BY InitType, NextType, PTL DEF Spec

-----------------------------------------------------------------------------
(* The vault opens: the invariant.                                         *)

StagesOf(s) == {s[i] : i \in DOMAIN s}

\* Stages that only ever stand first: what they use was captured as they were
\* put there.
Fresh == {"write", "boot", "verify"}

\* The stages a lock or a refresh goes through.
Harmless == {"public", "display", "show", "join"}

\* What the chain of the user holds at its first stage.
Captured(u) ==
  /\ At(u, "verify") => loc[u].key = store.booted
  /\ At(u, "write") => loc[u].key = store.booted /\ loc[u].key # NoPassword
  /\ At(u, "boot") => /\ store.booted = NoPassword /\ loc[u].pw = BuiltIn
                      /\ mem.password \in {NoPassword, BuiltIn}

PasswordHeld(u) ==
  ~At(u, "boot") => mem.password \in {NoPassword, store.booted}

Chains(u) ==
  /\ \A p \in Proc \ {u} : StagesOf(todo[p]) \subseteq Harmless
  /\ StagesOf(todo[u]) \cap {"erase", "eraseStore"} = {}
  /\ todo[u] # <<>> => StagesOf(Rest(u)) \cap Fresh = {}
  /\ "writeNew" \in StagesOf(todo[u]) => loc[u].npw \in Password

VaultInv(u) ==
  /\ TypeOK /\ VaultOpens
  /\ store.booted = NoPassword => store.vault = NoVault
  /\ Captured(u) /\ PasswordHeld(u) /\ Chains(u)

Erasing == {"erase", "eraseStore"}

\* What any stage of the user may put in front of the rest of the chain.
Persisting == {"join", "serialize", "snapshot", "encrypt"}
Extra == Persisting \cup {"show", "writeSnapshot", "writeUnencrypted",
  "decrypt", "sensitive", "public", "display", "ready", "compare", "collect"}

-----------------------------------------------------------------------------
(* Stages of chains.                                                       *)

LEMMA StagesOfConcat ==
  ASSUME NEW a \in Seq(StageName), NEW b \in Seq(StageName)
  PROVE  StagesOf(a \o b) \subseteq StagesOf(a) \cup StagesOf(b)
<1> SUFFICES ASSUME NEW i \in DOMAIN (a \o b)
             PROVE  (a \o b)[i] \in StagesOf(a) \cup StagesOf(b)
  BY DEF StagesOf
<1>1. i \in 1 .. Len(a) + Len(b) /\ Len(a) \in Nat /\ Len(b) \in Nat
  OBVIOUS
<1>2. CASE i <= Len(a)
  <2>1. (a \o b)[i] = a[i] /\ i \in DOMAIN a
    BY <1>1, <1>2
  <2> QED BY <2>1 DEF StagesOf
<1>3. CASE i > Len(a)
  <2>1. (a \o b)[i] = b[i - Len(a)] /\ i - Len(a) \in DOMAIN b
    BY <1>1, <1>3
  <2> QED BY <2>1 DEF StagesOf
<1> QED BY <1>1, <1>2, <1>3

LEMMA StagesOfTail ==
  ASSUME NEW s \in Seq(StageName), s # <<>>
  PROVE  StagesOf(Tail(s)) \subseteq StagesOf(s) /\ Head(s) \in StagesOf(s)
<1>1. Len(s) \in Nat /\ Len(s) > 0 /\ DOMAIN s = 1 .. Len(s)
  OBVIOUS
<1>2. Head(s) = s[1] /\ 1 \in DOMAIN s
  BY <1>1
<1>3. ASSUME NEW i \in DOMAIN Tail(s)
      PROVE  Tail(s)[i] = s[i + 1] /\ i + 1 \in DOMAIN s
  BY <1>1, <1>3
<1> QED BY <1>2, <1>3 DEF StagesOf

LEMMA StagesOfOne == \A x : StagesOf(<<x>>) = {x}
BY DEF StagesOf

LEMMA StagesOfPrepend ==
  ASSUME NEW x \in StageName, NEW s \in Seq(StageName)
  PROVE  /\ <<x>> \o s \in Seq(StageName) /\ <<x>> \o s # <<>>
         /\ Head(<<x>> \o s) = x /\ Tail(<<x>> \o s) = s
         /\ StagesOf(<<x>> \o s) \subseteq {x} \cup StagesOf(s)
<1>1. <<x>> \in Seq(StageName)
  OBVIOUS
<1>2. StagesOf(<<x>> \o s) \subseteq {x} \cup StagesOf(s)
  BY <1>1, StagesOfConcat, StagesOfOne
<1>3. Tail(<<x>> \o s) = s
  <2>1. Len(<<x>> \o s) = 1 + Len(s) /\ Len(s) \in Nat
    OBVIOUS
  <2>2. \A i \in 1 .. Len(s) : (<<x>> \o s)[i + 1] = s[i]
    OBVIOUS
  <2> QED BY <2>1, <2>2
<1> QED BY <1>1, <1>2, <1>3

LEMMA AtFacts ==
  ASSUME TypeOK, NEW p \in Proc, NEW st, At(p, st)
  PROVE  /\ todo[p] # <<>> /\ st \in StagesOf(todo[p])
         /\ StagesOf(Rest(p)) \subseteq StagesOf(todo[p])
         /\ \A x : At(p, x) => x = st
BY StagesOfTail DEF At, Rest, TypeOK

-----------------------------------------------------------------------------
(* What the synchronous pieces of code do to a chain.                      *)

\* Chain p goes on, with password pw in memory, at stages of S.
Moves(p, pw, l, S) ==
  /\ mem'.password = pw
  /\ \E s \in Seq(StageName), k \in LocType :
       /\ todo' = [todo EXCEPT ![p] = s] /\ loc' = [loc EXCEPT ![p] = k]
       /\ StagesOf(s) \subseteq S
       /\ s # <<>> => k.npw = l.npw

LEMMA AdvanceMoves ==
  ASSUME TypeOK, NEW p \in Proc, NEW m \in MemType, NEW l \in LocType,
         NEW rest \in Seq(StageName), NEW S, StagesOf(rest) \subseteq S,
         Advance(p, m, l, rest)
  PROVE  Moves(p, m.password, l, S)
<1>1. mem'.password = m.password
  BY DEF Advance, MemType
<1>2. CASE rest = <<>>
  BY <1>1, <1>2, IdleType DEF Advance, Moves
<1>3. CASE rest # <<>>
  BY <1>1, <1>3 DEF Advance, Moves
<1> QED BY <1>2, <1>3

LEMMA ThrowMoves ==
  ASSUME TypeOK, NEW p \in Proc, NEW m \in MemType, NEW l, NEW S, Throw(p, m)
  PROVE  Moves(p, m.password, l, S)
<1>1. mem'.password = m.password
  BY DEF Throw, Advance, MemType
<1>2. todo' = [todo EXCEPT ![p] = <<>>] /\ loc' = [loc EXCEPT ![p] = Idle]
  BY DEF Throw, Advance
<1>3. StagesOf(<<>>) = {} /\ <<>> \in Seq(StageName)
  BY DEF StagesOf
<1> QED BY <1>1, <1>2, <1>3, IdleType DEF Moves

LEMMA updateMemStoreKeyringsMoves ==
  ASSUME TypeOK, NEW p \in Proc, NEW m \in MemType, NEW l \in LocType,
         NEW rest \in Seq(StageName), updateMemStoreKeyrings(p, m, l, rest)
  PROVE  Moves(p, m.password, l, StagesOf(rest) \cup {"show"})
<1> DEFINE k == [l EXCEPT !.list = m.keyrings]
<1>1. k \in LocType /\ k.npw = l.npw
  BY DEF LocType, MemType
<1>2. "show" \in StageName
  BY DEF StageName
<1>3. Moves(p, m.password, k, StagesOf(rest) \cup {"show"})
  BY <1>1, <1>2, StagesOfPrepend, AdvanceMoves DEF updateMemStoreKeyrings
<1> QED BY <1>1, <1>3 DEF Moves

LEMMA startDeferredRestoreMoves ==
  ASSUME TypeOK, NEW p \in Proc, NEW m \in MemType, NEW l \in LocType,
         NEW rest \in Seq(StageName), startDeferredRestore(p, m, l, rest)
  PROVE  Moves(p, m.password, l, StagesOf(rest) \cup {"join"})
<1> DEFINE S == StagesOf(rest) \cup {"join"}
<1>1. CASE m.pending = Absent
  <2> DEFINE m2 == markKeyringRuntimeReady(m)
  <2>1. m2 \in MemType /\ m2.password = m.password
    <3>1. m2 \in MemType
      BY MemOps DEF OptPassword
    <3>2. m2.password = m.password
      BY DEF markKeyringRuntimeReady, MemType
    <3> QED BY <3>1, <3>2
  <2>2. Advance(p, m2, l, rest) \/ Throw(p, m)
    BY <1>1 DEF startDeferredRestore
  <2> QED BY <2>1, <2>2, AdvanceMoves, ThrowMoves
<1>2. CASE m.pending # Absent
  <2> DEFINE n == Len(restore) + 1
             m2 == [m EXCEPT !.restoreId = @ + 1, !.pending = Absent,
                      !.promise = n, !.ready = FALSE,
                      !.restoring = TRUE, !.failed = FALSE]
             l2 == [l EXCEPT !.rid = n]
  <2>1. m.restoreId + 1 \in Nat /\ n \in Nat
    BY DEF MemType, TypeOK
  <2>2. m2 \in MemType /\ m2.password = m.password
    <3>1. \A a, b \in Nat :
            [m EXCEPT !.restoreId = a, !.pending = Absent, !.promise = b,
                      !.ready = FALSE, !.restoring = TRUE, !.failed = FALSE]
              \in MemType
      BY DEF MemType
    <3> QED BY <2>1, <3>1 DEF MemType
  <2>3. l2 \in LocType /\ l2.npw = l.npw
    BY <2>1 DEF LocType
  <2>4. "join" \in StageName
    BY DEF StageName
  <2>5. Advance(p, m2, l2, <<"join">> \o rest)
    BY <1>2 DEF startDeferredRestore
  <2> HIDE DEF m2, l2
  <2>6. Moves(p, m.password, l2, S)
    BY <2>2, <2>3, <2>4, <2>5, StagesOfPrepend, AdvanceMoves
  <2> QED BY <2>3, <2>6 DEF Moves
<1> QED BY <1>1, <1>2

LEMMA ensureKeyringRuntimeReadyMoves ==
  ASSUME TypeOK, NEW p \in Proc, NEW m \in MemType, NEW l \in LocType,
         NEW rest \in Seq(StageName), ensureKeyringRuntimeReady(p, m, l, rest)
  PROVE  Moves(p, m.password, l, StagesOf(rest) \cup {"join"})
<1> DEFINE k == [l EXCEPT !.rid = m.promise]
           S == StagesOf(rest) \cup {"join"}
<1>1. k \in LocType /\ k.npw = l.npw
  BY DEF LocType, MemType
<1>2. "join" \in StageName
  BY DEF StageName
<1>3. CASE Advance(p, m, k, <<"join">> \o rest)
  <2>1. Moves(p, m.password, k, S)
    BY <1>1, <1>2, <1>3, StagesOfPrepend, AdvanceMoves
  <2> QED BY <1>1, <2>1 DEF Moves
<1>4. CASE Advance(p, m, l, rest)
  BY <1>4, AdvanceMoves
<1> QED
  BY <1>3, <1>4, ThrowMoves, startDeferredRestoreMoves
     DEF ensureKeyringRuntimeReady

LEMMA serializeForPersistMoves ==
  ASSUME TypeOK, NEW p \in Proc, NEW m \in MemType, NEW l \in LocType,
         NEW rest \in Seq(StageName), NEW S, StagesOf(rest) \subseteq S,
         serializeForPersist(p, m, l, rest)
  PROVE  Moves(p, m.password, l, S)
<1> DEFINE k == [l EXCEPT !.ser = m.keyrings]
<1>1. k \in LocType /\ k.npw = l.npw
  BY DEF LocType, MemType
<1>2. CASE Throw(p, m)
  BY <1>2, ThrowMoves
<1>3. CASE Advance(p, m, k, rest)
  <2>1. Moves(p, m.password, k, S)
    BY <1>1, <1>3, AdvanceMoves
  <2> QED BY <1>1, <2>1 DEF Moves
<1> QED BY <1>2, <1>3 DEF serializeForPersist

LEMMA persistAllKeyringsMoves ==
  ASSUME TypeOK, NEW p \in Proc, NEW m \in MemType, NEW l \in LocType,
         NEW rest \in Seq(StageName), persistAllKeyrings(p, m, l, rest)
  PROVE  Moves(p, m.password, l, StagesOf(rest) \cup Persisting)
<1> DEFINE S == StagesOf(rest) \cup Persisting
           w == <<"snapshot", "encrypt">> \o rest
<1>1. /\ <<"snapshot", "encrypt">> \in Seq(StageName)
      /\ StagesOf(<<"snapshot", "encrypt">>) = {"snapshot", "encrypt"}
      /\ "serialize" \in StageName
  BY DEF StageName, StagesOf
<1>2. w \in Seq(StageName) /\ StagesOf(w) \subseteq S
  BY <1>1, Prepend, StagesOfConcat DEF Persisting
<1> HIDE DEF w
<1>3. /\ <<"serialize">> \o w \in Seq(StageName)
      /\ StagesOf(<<"serialize">> \o w) \cup {"join"} \subseteq S
  BY <1>1, <1>2, StagesOfPrepend DEF Persisting
<1>4. CASE ensureKeyringRuntimeReady(p, m, l, <<"serialize">> \o w)
  <2>1. Moves(p, m.password, l, StagesOf(<<"serialize">> \o w) \cup {"join"})
    BY <1>3, <1>4, ensureKeyringRuntimeReadyMoves
  <2> QED BY <1>3, <2>1 DEF Moves
<1>5. CASE serializeForPersist(p, m, l, w)
  BY <1>2, <1>5, serializeForPersistMoves
<1> QED BY <1>4, <1>5 DEF persistAllKeyrings, w

LEMMA persistKeyringsForKeyringMoves ==
  ASSUME TypeOK, NEW p \in Proc, NEW m \in MemType, NEW l \in LocType, NEW k,
         NEW rest \in Seq(StageName),
         persistKeyringsForKeyring(p, m, l, k, rest)
  PROVE  Moves(p, m.password, l, StagesOf(rest) \cup Extra)
<1> DEFINE l2 == [l EXCEPT !.ser = m.keyrings]
           w == <<"snapshot", "writeSnapshot", "writeUnencrypted">>
<1>1. l2 \in LocType /\ l2.npw = l.npw
  BY DEF LocType, MemType
<1>2. /\ w \in Seq(StageName)
      /\ StagesOf(w) = {"snapshot", "writeSnapshot", "writeUnencrypted"}
  BY DEF StageName, StagesOf
<1> HIDE DEF w, l2
<1>3. /\ w \o rest \in Seq(StageName)
      /\ StagesOf(w \o rest) \subseteq StagesOf(rest) \cup Extra
  BY <1>2, Prepend, StagesOfConcat DEF Extra, Persisting
<1>4. CASE persistAllKeyrings(p, m, l, rest)
  <2>1. Moves(p, m.password, l, StagesOf(rest) \cup Persisting)
    BY <1>4, persistAllKeyringsMoves
  <2> QED BY <2>1 DEF Moves, Extra
<1>5. CASE Advance(p, m, l2, w \o rest)
  <2>1. Moves(p, m.password, l2, StagesOf(rest) \cup Extra)
    BY <1>1, <1>3, <1>5, AdvanceMoves
  <2> QED BY <1>1, <2>1 DEF Moves
<1> QED BY <1>4, <1>5 DEF persistKeyringsForKeyring, w, l2

LEMMA unlockKeyringsMoves ==
  ASSUME TypeOK, NEW p \in Proc, NEW m \in MemType, NEW l \in LocType,
         NEW rest \in Seq(StageName), unlockKeyrings(p, m, l, rest)
  PROVE  Moves(p, m.password, l, StagesOf(rest))
<1>1. CASE store.vault = NoVault
  BY <1>1, ThrowMoves DEF unlockKeyrings
<1>2. CASE store.vault # NoVault
  <2> DEFINE k == [l EXCEPT !.key = store.vault.pw, !.ser = store.vault.krs]
             m2 == clearKeyrings(m)
  <2>1. store.vault.pw \in OptPassword /\ store.vault.krs \in Bag
    BY <1>2 DEF TypeOK, StoreType
  <2>2. k \in LocType /\ k.npw = l.npw
    BY <2>1 DEF LocType
  <2>3. m2 \in MemType /\ m2.password = m.password
    BY MemOps DEF OptPassword, clearKeyrings, resetKeyringRuntimeState, MemType
  <2>4. Advance(p, m2, k, rest)
    BY <1>2 DEF unlockKeyrings
  <2> HIDE DEF k, m2
  <2>5. Moves(p, m.password, k, StagesOf(rest))
    BY <2>2, <2>3, <2>4, AdvanceMoves
  <2> QED BY <2>2, <2>5 DEF Moves
<1> QED BY <1>1, <1>2

LEMMA setUnlockedMoves ==
  ASSUME TypeOK, NEW p \in Proc, NEW m \in MemType, NEW l \in LocType,
         setUnlocked(p, m, l)
  PROVE  Moves(p, m.password, l, Extra)
<1> DEFINE m2 == [m EXCEPT !.unlocked = TRUE]
<1>1. m2 \in MemType /\ m2.password = m.password
  BY DEF MemType
<1>2. <<>> \in Seq(StageName) /\ StagesOf(<<>>) = {}
  BY DEF StagesOf
<1>3. CASE persistAllKeyrings(p, m2, l, <<>>)
  <2>1. Moves(p, m.password, l, StagesOf(<<>>) \cup Persisting)
    BY <1>1, <1>2, <1>3, persistAllKeyringsMoves
  <2> QED BY <1>2, <2>1 DEF Moves, Extra
<1>4. CASE Advance(p, m2, l, <<>>)
  BY <1>1, <1>2, <1>4, AdvanceMoves
<1> QED BY <1>3, <1>4 DEF setUnlocked

LEMMA openVaultMoves ==
  ASSUME TypeOK, NEW p \in Proc, NEW m \in MemType, NEW l \in LocType,
         openVault(p, m, l)
  PROVE  Moves(p, l.pw, l, Extra)
<1> DEFINE m2 == holdPassword(m, l.pw)
           w == <<"decrypt", "sensitive", "public">>
                  \o (IF l.defer THEN <<"ready">> ELSE <<"display", "ready">>)
<1>1. m2 \in MemType /\ m2.password = l.pw
  BY MemOps DEF LocType, MemType, holdPassword
<1>2. w \in Seq(StageName) /\ StagesOf(w) \subseteq Extra
  <2>1. /\ <<"ready">> \in Seq(StageName)
        /\ <<"display", "ready">> \in Seq(StageName)
        /\ <<"decrypt", "sensitive", "public">> \in Seq(StageName)
    BY DEF StageName
  <2>2. /\ StagesOf(<<"ready">>) \subseteq Extra
        /\ StagesOf(<<"display", "ready">>) \subseteq Extra
        /\ StagesOf(<<"decrypt", "sensitive", "public">>) \subseteq Extra
    BY DEF Extra, StagesOf
  <2>3. CASE l.defer
    BY <2>1, <2>2, <2>3, Prepend, StagesOfConcat
  <2>4. CASE ~l.defer
    BY <2>1, <2>2, <2>4, Prepend, StagesOfConcat
  <2> QED BY <2>3, <2>4
<1>3. CASE l.flag
  <2>1. unlockKeyrings(p, m2, l, w)
    BY <1>3 DEF openVault
  <2> HIDE DEF m2, w
  <2>2. Moves(p, l.pw, l, StagesOf(w))
    BY <1>1, <1>2, <2>1, unlockKeyringsMoves
  <2> QED BY <1>2, <2>2 DEF Moves
<1>4. CASE ~l.flag
  BY <1>1, <1>4, setUnlockedMoves DEF openVault
<1> QED BY <1>3, <1>4

-----------------------------------------------------------------------------
(* Steps that preserve the invariant.                                      *)

\* A step that moves no chain and changes neither the password nor the store.
LEMMA StandsStill ==
  ASSUME NEW u \in Proc, VaultInv(u), TypeOK', UNCHANGED <<store, todo, loc>>,
         mem'.password = mem.password
  PROVE  VaultInv(u)'
<1> QED
  BY DEF VaultInv, VaultOpens, Captured, PasswordHeld, Chains, At, Rest

\* A lock or a refresh goes on.
LEMMA OtherMoves ==
  ASSUME NEW u \in Proc, VaultInv(u), TypeOK', NEW p \in Proc \ {u},
         NEW l, NEW pw \in {NoPassword, mem.password}, UNCHANGED store,
         Moves(p, pw, l, Harmless)
  PROVE  VaultInv(u)'
<1>1. PICK s \in Seq(StageName), k \in LocType :
        /\ todo' = [todo EXCEPT ![p] = s] /\ loc' = [loc EXCEPT ![p] = k]
        /\ StagesOf(s) \subseteq Harmless
  BY DEF Moves
<1>2. /\ todo'[u] = todo[u] /\ loc'[u] = loc[u] /\ todo'[p] = s
      /\ \A q \in Proc \ {p} : todo'[q] = todo[q]
  BY <1>1 DEF VaultInv, TypeOK
<1>3. mem'.password = pw
  BY DEF Moves
<1>4. Captured(u)'
  BY <1>2, <1>3 DEF VaultInv, Captured, At
<1>5. PasswordHeld(u)'
  BY <1>2, <1>3 DEF VaultInv, PasswordHeld, At
<1>6. Chains(u)'
  BY <1>1, <1>2 DEF VaultInv, Chains, At, Rest
<1> QED BY <1>4, <1>5, <1>6 DEF VaultInv, VaultOpens

\* The chain of the user goes on at stages that need no fresh capture.
LEMMA UserMoves ==
  ASSUME NEW u \in Proc, VaultInv(u), TypeOK', NEW l, NEW S,
         S \cap (Fresh \cup Erasing) = {},
         "writeNew" \in S => l.npw \in Password,
         NEW pw \in {NoPassword, store'.booted},
         VaultOpens', store'.booted = NoPassword => store'.vault = NoVault,
         Moves(u, pw, l, S)
  PROVE  VaultInv(u)'
<1>1. PICK s \in Seq(StageName), k \in LocType :
        /\ todo' = [todo EXCEPT ![u] = s] /\ loc' = [loc EXCEPT ![u] = k]
        /\ StagesOf(s) \subseteq S /\ (s # <<>> => k.npw = l.npw)
  BY DEF Moves
<1>2. /\ todo'[u] = s /\ loc'[u] = k
      /\ \A q \in Proc \ {u} : todo'[q] = todo[q]
  BY <1>1 DEF VaultInv, TypeOK
<1>3. mem'.password = pw
  BY DEF Moves
<1>4. s # <<>> => Head(s) \in S /\ StagesOf(Tail(s)) \subseteq S
  BY <1>1, StagesOfTail
<1>5. \A x \in Fresh : ~At(u, x)'
  BY <1>2, <1>4 DEF At
<1>6. Captured(u)' /\ PasswordHeld(u)'
  BY <1>3, <1>5 DEF Captured, PasswordHeld, Fresh
<1>7. s = <<>> => StagesOf(s) = {}
  BY DEF StagesOf
<1>8. Chains(u)'
  <2>1. \A p \in Proc \ {u} : StagesOf(todo'[p]) \subseteq Harmless
    BY <1>2 DEF VaultInv, Chains
  <2>2. StagesOf(todo'[u]) \cap {"erase", "eraseStore"} = {}
    BY <1>1, <1>2 DEF Erasing
  <2>3. todo'[u] # <<>> => StagesOf(Rest(u)') \cap Fresh = {}
    BY <1>2, <1>4 DEF Rest
  <2>4. "writeNew" \in StagesOf(todo'[u]) => loc'[u].npw \in Password
    BY <1>1, <1>2, <1>7
  <2> QED BY <2>1, <2>2, <2>3, <2>4 DEF Chains
<1> QED BY <1>6, <1>8 DEF VaultInv

\* The chain of the user goes on at a stage that uses what it captures now.
LEMMA UserCaptures ==
  ASSUME NEW u \in Proc, VaultInv(u), TypeOK', UNCHANGED store,
         NEW st \in Fresh, NEW m \in MemType, NEW l \in LocType,
         NEW rest \in Seq(StageName), Advance(u, m, l, <<st>> \o rest),
         StagesOf(rest) \cap (Fresh \cup Erasing) = {},
         "writeNew" \in StagesOf(rest) => l.npw \in Password,
         st = "verify" => l.key = store.booted,
         st = "write" => l.key = store.booted /\ l.key # NoPassword,
         st = "boot" => /\ store.booted = NoPassword /\ l.pw = BuiltIn
                        /\ m.password \in {NoPassword, BuiltIn},
         st # "boot" => m.password \in {NoPassword, store.booted}
  PROVE  VaultInv(u)'
<1> DEFINE s == <<st>> \o rest
<1>1. st \in StageName
  BY DEF Fresh, StageName
<1>2. /\ s \in Seq(StageName) /\ s # <<>> /\ Head(s) = st /\ Tail(s) = rest
      /\ StagesOf(s) \subseteq {st} \cup StagesOf(rest)
  BY <1>1, StagesOfPrepend
<1> HIDE DEF s
<1>3. /\ todo' = [todo EXCEPT ![u] = s] /\ loc' = [loc EXCEPT ![u] = l]
      /\ mem' = m
  BY <1>2 DEF Advance, s
<1>4. /\ todo'[u] = s /\ loc'[u] = l
      /\ \A q \in Proc \ {u} : todo'[q] = todo[q]
  BY <1>3 DEF VaultInv, TypeOK
<1>5. Captured(u)' /\ PasswordHeld(u)'
  BY <1>2, <1>3, <1>4 DEF Captured, PasswordHeld, At
<1>6. Chains(u)'
  <2>1. \A p \in Proc \ {u} : StagesOf(todo'[p]) \subseteq Harmless
    BY <1>4 DEF VaultInv, Chains
  <2>2. StagesOf(todo'[u]) \cap {"erase", "eraseStore"} = {}
    BY <1>2, <1>4 DEF Erasing, Fresh
  <2>3. todo'[u] # <<>> => StagesOf(Rest(u)') \cap Fresh = {}
    BY <1>2, <1>4 DEF Rest
  <2>4. "writeNew" \in StagesOf(todo'[u]) => loc'[u].npw \in Password
    BY <1>2, <1>4 DEF Fresh
  <2> QED BY <2>1, <2>2, <2>3, <2>4 DEF Chains
<1> QED BY <1>5, <1>6 DEF VaultInv, VaultOpens

\* The usual step of the user: the stage st is done, vault and booted stay.
LEMMA UserStage ==
  ASSUME NEW u \in Proc, VaultInv(u), TypeOK', NEW st, At(u, st),
         store'.booted = store.booted, store'.vault = store.vault,
         NEW l, l.npw = loc[u].npw,
         NEW pw \in {NoPassword, store.booted},
         Moves(u, pw, l, StagesOf(Rest(u)) \cup Extra)
  PROVE  VaultInv(u)'
<1> DEFINE S == StagesOf(Rest(u)) \cup Extra
<1>1. StagesOf(Rest(u)) \subseteq StagesOf(todo[u]) /\ todo[u] # <<>>
  BY AtFacts DEF VaultInv
<1>2. S \cap (Fresh \cup Erasing) = {}
  BY <1>1 DEF VaultInv, Chains, Extra, Persisting, Fresh, Erasing
<1>3. "writeNew" \in S => l.npw \in Password
  BY <1>1 DEF VaultInv, Chains, Extra, Persisting
<1>4. VaultOpens' /\ (store'.booted = NoPassword => store'.vault = NoVault)
  BY DEF VaultInv, VaultOpens
<1> QED BY <1>2, <1>3, <1>4, UserMoves

\* Before a stage other than boot the password in memory is the booted one.
LEMMA HeldAt ==
  ASSUME NEW u \in Proc, VaultInv(u), ~At(u, "boot")
  PROVE  mem.password \in {NoPassword, store.booted}
BY DEF VaultInv, PasswordHeld
\* A step of the user that leaves the store alone and starts nothing fresh.
LEMMA UserRuns ==
  ASSUME NEW u \in Proc, VaultInv(u), TypeOK', UNCHANGED store, NEW l, NEW S,
         S \cap (Fresh \cup Erasing \cup {"writeNew"}) = {},
         NEW pw \in {NoPassword, store.booted}, Moves(u, pw, l, S)
  PROVE  VaultInv(u)'
<1>1. VaultOpens' /\ (store'.booted = NoPassword => store'.vault = NoVault)
  BY DEF VaultInv, VaultOpens
<1>2. S \cap (Fresh \cup Erasing) = {} /\ "writeNew" \notin S
  OBVIOUS
<1>3. pw \in {NoPassword, store'.booted}
  OBVIOUS
<1> QED BY <1>1, <1>2, <1>3, UserMoves

LEMMA ExtraRuns == Extra \cap (Fresh \cup Erasing \cup {"writeNew"}) = {}
BY DEF Extra, Persisting, Fresh, Erasing

LEMMA submitPasswordVault ==
  ASSUME NEW u \in Proc, VaultInv(u), TypeOK', UNCHANGED store,
         ~At(u, "boot"), NEW pw \in Password, NEW trusted \in BOOLEAN,
         NEW defer \in BOOLEAN, trusted => pw = store.booted,
         submitPassword(u, pw, trusted, defer)
  PROVE  VaultInv(u)'
<1> DEFINE l == [Idle EXCEPT !.op = "submit", !.pw = pw, !.key = store.booted,
                             !.flag = store.vault # NoVault, !.defer = defer]
           m == [mem EXCEPT !.submitting = TRUE]
<1>0. TypeOK
  BY DEF VaultInv
<1>1. l \in LocType /\ l.pw = pw /\ l.key = store.booted
  <2>1. store.booted \in OptPassword /\ pw \in OptPassword
    BY <1>0 DEF TypeOK, StoreType, OptPassword
  <2>2. l \in LocType
    BY <2>1, IdleType DEF LocType, OpName
  <2>3. l.pw = pw /\ l.key = store.booted
    BY IdleType DEF LocType
  <2> QED BY <2>2, <2>3
<1>2. m \in MemType /\ mem \in MemType /\ m.password = mem.password
  BY <1>0 DEF TypeOK, MemType
<1>3. mem.password \in {NoPassword, store.booted}
  BY HeldAt
<1>4. \/ Throw(u, mem)
      \/ trusted /\ openVault(u, m, l)
      \/ Advance(u, m, l, <<"verify">>)
  BY DEF submitPassword
<1> HIDE DEF l, m
<1>5. CASE Throw(u, mem)
  <2>1. Moves(u, mem.password, Idle, Extra)
    BY <1>0, <1>2, <1>5, ThrowMoves
  <2> QED BY <1>3, <2>1, ExtraRuns, UserRuns
<1>6. CASE trusted /\ openVault(u, m, l)
  <2>1. Moves(u, l.pw, l, Extra)
    BY <1>0, <1>1, <1>2, <1>6, openVaultMoves
  <2>2. l.pw \in {NoPassword, store.booted}
    BY <1>1, <1>6
  <2> QED BY <2>1, <2>2, ExtraRuns, UserRuns
<1>7. CASE Advance(u, m, l, <<"verify">>)
  <2>1. <<"verify">> \o <<>> = <<"verify">> /\ <<>> \in Seq(StageName)
    OBVIOUS
  <2>2. StagesOf(<<>>) = {}
    BY DEF StagesOf
  <2>3. "verify" \in Fresh
    BY DEF Fresh
  <2>4. Advance(u, m, l, <<"verify">> \o <<>>)
    BY <1>7, <2>1
  <2> QED
    BY <1>1, <1>2, <1>3, <2>1, <2>2, <2>3, <2>4, UserCaptures
<1> QED BY <1>4, <1>5, <1>6, <1>7

-----------------------------------------------------------------------------
(* Operations.                                                             *)

\* A chain that is about to verify the old password.
LEMMA VerifyFirst ==
  ASSUME NEW u \in Proc, VaultInv(u), TypeOK', UNCHANGED store,
         ~At(u, "boot"), NEW m \in MemType, m.password = mem.password,
         NEW l \in LocType, l.npw \in Password, l.key = store.booted,
         NEW rest \in Seq(StageName), StagesOf(rest) \cap (Fresh \cup Erasing) = {},
         Advance(u, m, l, <<"verify">> \o rest)
  PROVE  VaultInv(u)'
<1>1. mem.password \in {NoPassword, store.booted}
  BY HeldAt
<1>2. "verify" \in Fresh
  BY DEF Fresh
<1> QED BY <1>1, <1>2, UserCaptures

LEMMA BootLaunch == <<"boot">> \o <<"launch">> = <<"boot", "launch">>
<1> DEFINE b == <<"boot">>
           l == <<"launch">>
           s == b \o l
           t == <<"boot", "launch">>
<1>1. b \in Seq(StageName) /\ l \in Seq(StageName) /\ t \in Seq(StageName)
  BY DEF StageName
<1>2. Len(b) = 1 /\ Len(l) = 1 /\ Len(t) = 2
  OBVIOUS
<1>3. b[1] = "boot" /\ l[1] = "launch" /\ t[1] = "boot" /\ t[2] = "launch"
  OBVIOUS
<1> HIDE DEF b, l, t
<1>4. s \in Seq(StageName) /\ Len(s) = 2 /\ s[1] = b[1] /\ s[2] = l[1]
  <2>1. s \in Seq(StageName)
    BY <1>1, Prepend
  <2>2. Len(s) = Len(b) + Len(l)
    BY <1>1
  <2>3. s[1] = b[1]
    BY <1>1, <1>2
  <2>4. \A i \in 1 .. Len(l) : s[Len(b) + i] = l[i]
    BY <1>1
  <2>5. s[2] = l[1]
    BY <1>2, <2>4
  <2> QED BY <1>2, <2>1, <2>2, <2>3, <2>5
<1>5. s = t
  BY <1>1, <1>2, <1>3, <1>4
<1> QED BY <1>5 DEF b, l, t

LEMMA UserOperation ==
  ASSUME NEW u \in Proc, SingleUser(u), VaultInv(u), TypeOK', Operation(u)
  PROVE  VaultInv(u)'
<1> USE DEF OptPassword
<1>0. TypeOK /\ mem \in MemType /\ store \in StoreType
  BY DEF VaultInv, TypeOK
<1>1. \A op : Begin(u, op) => ~At(u, "boot") /\ UNCHANGED store
                              /\ mem.password \in {NoPassword, store.booted}
  BY HeldAt DEF Begin, At
<1>2. CASE Launch(u)
  <2> DEFINE l == [Idle EXCEPT !.op = "launch", !.pw = BuiltIn]
             m == [mem EXCEPT !.launched = TRUE]
             m2 == [m EXCEPT !.password = BuiltIn]
             launch == <<"launch">>
  <2>1. BuiltIn \in Password
    BY KeyringServiceAssumption DEF KeyringServiceAssumption
  <2>2. l \in LocType /\ l.pw = BuiltIn
    BY <2>1, IdleType DEF LocType, OpName
  <2>3. /\ m \in MemType /\ m.password = mem.password
        /\ m2 \in MemType /\ m2.password = BuiltIn
    BY <1>0, <2>1 DEF MemType
  <2>4. launch \in Seq(StageName) /\ StagesOf(launch) = {"launch"}
        /\ <<"boot">> \o launch = <<"boot", "launch">>
    <3>1. StagesOf(launch) = {"launch"}
      BY StagesOfOne
    <3>2. launch \in Seq(StageName)
      BY DEF StageName
    <3>3. <<"boot">> \o launch = <<"boot", "launch">>
      BY BootLaunch
    <3> QED BY <3>1, <3>2, <3>3
  <2>5. \/ store.booted = NoPassword /\ Advance(u, m2, l, <<"boot", "launch">>)
        \/ Advance(u, m, l, launch)
    BY <1>2 DEF Launch
  <2>6. UNCHANGED store /\ mem.password \in {NoPassword, store.booted}
    BY <1>1, <1>2 DEF Launch
  <2> HIDE DEF l, m, m2, launch
  <2>7. CASE store.booted = NoPassword /\ Advance(u, m2, l, <<"boot", "launch">>)
    <3>1. Advance(u, m2, l, <<"boot">> \o launch) /\ "boot" \in Fresh
      BY <2>4, <2>7 DEF Fresh
    <3>2. StagesOf(launch) \cap (Fresh \cup Erasing) = {}
          /\ "writeNew" \notin StagesOf(launch)
      BY <2>4 DEF Fresh, Erasing
    <3> QED BY <2>2, <2>3, <2>4, <2>6, <2>7, <3>1, <3>2, UserCaptures
  <2>8. CASE Advance(u, m, l, launch)
    <3>1. Moves(u, mem.password, l, StagesOf(launch))
      BY <1>0, <2>2, <2>3, <2>4, <2>8, AdvanceMoves
    <3>2. StagesOf(launch) \cap (Fresh \cup Erasing \cup {"writeNew"}) = {}
      BY <2>4 DEF Fresh, Erasing
    <3> QED BY <2>6, <3>1, <3>2, UserRuns
  <2> QED BY <2>5, <2>7, <2>8
<1>3. CASE SubmitPassword(u)
  <2>1. Begin(u, "submit") /\ Screened
    BY <1>3 DEF SubmitPassword, SingleUser
  <2> QED BY <1>1, <1>3, <2>1, submitPasswordVault DEF SubmitPassword
<1>4. CASE SetLocked(u)
  <2> DEFINE l == [Idle EXCEPT !.op = "lock"]
             m == lockRuntime(mem)
             S == {"public", "display", "show"}
  <2>1. l \in LocType
    BY IdleType DEF LocType, OpName
  <2>2. m \in MemType /\ m.password = NoPassword
    BY <1>0, MemOps DEF lockRuntime, resetKeyringRuntimeState, MemType
  <2>3. /\ <<>> \in Seq(StageName) /\ StagesOf(<<>>) = {}
        /\ <<"public", "display", "display">> \in Seq(StageName)
        /\ StagesOf(<<"public", "display", "display">>) \subseteq S
    BY DEF StageName, StagesOf
  <2>4. \/ updateMemStoreKeyrings(u, m, l, <<>>)
        \/ Advance(u, m, l, <<"public", "display", "display">>)
    BY <1>4 DEF SetLocked
  <2> HIDE DEF l, m
  <2>5. Moves(u, NoPassword, l, S)
    <3>1. CASE updateMemStoreKeyrings(u, m, l, <<>>)
      <4>1. Moves(u, NoPassword, l, StagesOf(<<>>) \cup {"show"})
        BY <1>0, <2>1, <2>2, <2>3, <3>1, updateMemStoreKeyringsMoves
      <4> QED BY <2>3, <4>1 DEF Moves
    <3>2. CASE Advance(u, m, l, <<"public", "display", "display">>)
      BY <1>0, <2>1, <2>2, <2>3, <3>2, AdvanceMoves
    <3> QED BY <2>4, <3>1, <3>2
  <2>6. S \cap (Fresh \cup Erasing \cup {"writeNew"}) = {}
    BY DEF Fresh, Erasing
  <2> QED BY <1>1, <1>4, <2>5, <2>6, UserRuns DEF SetLocked
<1>5. CASE AddKeyring(u)
  <2> DEFINE rest == <<"assert", "duplicate", "push", "display", "acknowledge">>
  <2>1. PICK k \in Keyring :
          LET l == [Idle EXCEPT !.op = "add", !.kr = k]
          IN  \/ ensureKeyringRuntimeReady(u, mem, l, rest)
              \/ Advance(u, mem, l, rest)
    BY <1>5 DEF AddKeyring
  <2> DEFINE l == [Idle EXCEPT !.op = "add", !.kr = k]
             S == StagesOf(rest) \cup {"join"}
  <2>2. l \in LocType
    BY IdleType DEF LocType, OpName
  <2>3. rest \in Seq(StageName)
        /\ StagesOf(rest) \subseteq {"assert", "duplicate", "push", "display",
                                     "acknowledge"}
    BY DEF StageName, StagesOf
  <2>4. ensureKeyringRuntimeReady(u, mem, l, rest) \/ Advance(u, mem, l, rest)
    BY <2>1
  <2> HIDE DEF l, rest
  <2>5. Moves(u, mem.password, l, S)
    BY <1>0, <2>2, <2>3, <2>4, AdvanceMoves, ensureKeyringRuntimeReadyMoves
  <2>6. S \cap (Fresh \cup Erasing \cup {"writeNew"}) = {}
    BY <2>3 DEF Fresh, Erasing
  <2> QED BY <1>1, <1>5, <2>5, <2>6, UserRuns DEF AddKeyring
<1>6. CASE RemoveAccount(u)
  <2>1. PICK k \in Keyring :
          LET l == [Idle EXCEPT !.op = "remove", !.kr = k]
          IN  \/ ensureKeyringRuntimeReady(u, mem, l, removeStages)
              \/ Advance(u, mem, l, removeStages)
    BY <1>6 DEF RemoveAccount
  <2> DEFINE l == [Idle EXCEPT !.op = "remove", !.kr = k]
             S == StagesOf(removeStages) \cup {"join"}
  <2>2. l \in LocType
    BY IdleType DEF LocType, OpName
  <2>3. removeStages \in Seq(StageName)
        /\ StagesOf(removeStages) \subseteq {"remove", "display"}
    BY DEF StageName, StagesOf, removeStages
  <2>4. \/ ensureKeyringRuntimeReady(u, mem, l, removeStages)
        \/ Advance(u, mem, l, removeStages)
    BY <2>1
  <2> HIDE DEF l
  <2>5. Moves(u, mem.password, l, S)
    BY <1>0, <2>2, <2>3, <2>4, AdvanceMoves, ensureKeyringRuntimeReadyMoves
  <2>6. S \cap (Fresh \cup Erasing \cup {"writeNew"}) = {}
    BY <2>3 DEF Fresh, Erasing
  <2> QED BY <1>1, <1>6, <2>5, <2>6, UserRuns DEF RemoveAccount
<1>7. CASE Refresh(u)
  <2> DEFINE l == [Idle EXCEPT !.op = "refresh"]
             S == {"display", "join"}
  <2>1. l \in LocType
    BY IdleType DEF LocType, OpName
  <2>2. PICK rest \in {<<>>, <<"display">>} :
          ensureKeyringRuntimeReady(u, mem, l, rest)
    BY <1>7 DEF Refresh
  <2>3. rest \in Seq(StageName) /\ StagesOf(rest) \subseteq S
    <3>1. CASE rest = <<>>
      BY <3>1 DEF StagesOf
    <3>2. CASE rest = <<"display">>
      <4>1. StagesOf(rest) = {"display"}
        BY <3>2, StagesOfOne
      <4>2. rest \in Seq(StageName)
        BY <3>2 DEF StageName
      <4> QED BY <4>1, <4>2
    <3> QED BY <2>2, <3>1, <3>2
  <2> HIDE DEF l
  <2>4. Moves(u, mem.password, l, StagesOf(rest) \cup {"join"})
    BY <1>0, <2>1, <2>2, <2>3, ensureKeyringRuntimeReadyMoves
  <2>5. (StagesOf(rest) \cup {"join"})
          \cap (Fresh \cup Erasing \cup {"writeNew"}) = {}
    BY <2>3 DEF Fresh, Erasing
  <2> QED BY <1>1, <1>7, <2>4, <2>5, UserRuns DEF Refresh
<1>8. /\ changePasswordStages \in Seq(StageName)
      /\ Tail(changePasswordStages) \in Seq(StageName)
      /\ changePasswordStages = <<"verify">> \o Tail(changePasswordStages)
      /\ StagesOf(Tail(changePasswordStages)) \cap (Fresh \cup Erasing) = {}
  BY DEF StageName, StagesOf, changePasswordStages, Fresh, Erasing
<1>9. CASE UpdatePassword(u)
  <2>1. PICK pw, npw \in Password :
          Advance(u, mem, [Idle EXCEPT !.op = "changePw", !.pw = pw,
                             !.npw = npw, !.key = store.booted],
                  changePasswordStages)
    BY <1>9 DEF UpdatePassword
  <2> DEFINE l == [Idle EXCEPT !.op = "changePw", !.pw = pw, !.npw = npw,
                               !.key = store.booted]
  <2>2. l \in LocType /\ l.npw \in Password /\ l.key = store.booted
    BY <1>0, IdleType DEF LocType, OpName, StoreType
  <2>3. Advance(u, mem, l, <<"verify">> \o Tail(changePasswordStages))
    BY <1>8, <2>1
  <2> HIDE DEF l
  <2> QED BY <1>0, <1>1, <1>8, <1>9, <2>2, <2>3, VerifyFirst DEF UpdatePassword
<1>10. CASE Wipe(u)
  <2> DEFINE m == [mem EXCEPT !.keyrings = Nothing]
             rest == Tail(changePasswordStages) \o <<"persist">>
  <2>1. PICK pw, npw \in Password :
          Advance(u, m, [Idle EXCEPT !.op = "wipe", !.pw = pw, !.npw = npw,
                                     !.key = store.booted],
                  changePasswordStages \o <<"persist">>)
    BY <1>10 DEF Wipe
  <2> DEFINE l == [Idle EXCEPT !.op = "wipe", !.pw = pw, !.npw = npw,
                               !.key = store.booted]
  <2>2. l \in LocType /\ l.npw \in Password /\ l.key = store.booted
    BY <1>0, IdleType DEF LocType, OpName, StoreType
  <2>3. m \in MemType /\ m.password = mem.password
    BY <1>0, NothingType DEF MemType
  <2>4. /\ rest \in Seq(StageName)
        /\ StagesOf(rest) \cap (Fresh \cup Erasing) = {}
        /\ changePasswordStages \o <<"persist">> = <<"verify">> \o rest
    <3>1. <<"persist">> \in Seq(StageName)
      BY DEF StageName
    <3>2. StagesOf(<<"persist">>) \cap (Fresh \cup Erasing) = {}
      BY StagesOfOne DEF Fresh, Erasing
    <3>3. rest \in Seq(StageName)
      BY <1>8, <3>1, Prepend
    <3>4. StagesOf(rest) \cap (Fresh \cup Erasing) = {}
      BY <1>8, <3>1, <3>2, StagesOfConcat
    <3>5. changePasswordStages \o <<"persist">> = <<"verify">> \o rest
      BY DEF changePasswordStages
    <3> QED BY <3>3, <3>4, <3>5
  <2>5. Advance(u, m, l, <<"verify">> \o rest)
    BY <2>1, <2>4
  <2> HIDE DEF l, m, rest
  <2> QED BY <1>0, <1>1, <1>10, <2>2, <2>3, <2>4, <2>5, VerifyFirst DEF Wipe
<1>11. ~Erase(u)
  BY DEF Erase, Begin, SingleUser
<1> QED
  BY <1>2, <1>3, <1>4, <1>5, <1>6, <1>7, <1>9, <1>10, <1>11 DEF Operation

LEMMA OtherOperation ==
  ASSUME NEW u \in Proc, SingleUser(u), VaultInv(u), TypeOK',
         NEW p \in Proc \ {u}, Operation(p)
  PROVE  VaultInv(u)'
<1>0. TypeOK /\ mem \in MemType
  BY DEF VaultInv, TypeOK
<1>1. \A op : Begin(p, op) => op \in {"lock", "refresh"} /\ UNCHANGED store
  BY DEF Begin, SingleUser
<1>2. SetLocked(p) \/ Refresh(p)
  <2>1. \A op \in {"launch", "submit", "add", "remove", "changePw", "wipe",
                   "erase"} : ~Begin(p, op)
    BY <1>1
  <2>2. ~Launch(p) /\ ~SubmitPassword(p) /\ ~AddKeyring(p) /\ ~RemoveAccount(p)
    BY <2>1 DEF Launch, SubmitPassword, AddKeyring, RemoveAccount
  <2>3. ~UpdatePassword(p) /\ ~Wipe(p) /\ ~Erase(p)
    BY <2>1 DEF UpdatePassword, Wipe, Erase
  <2> QED BY <2>2, <2>3 DEF Operation
<1>3. CASE SetLocked(p)
  <2> DEFINE l == [Idle EXCEPT !.op = "lock"]
             m == lockRuntime(mem)
  <2>1. l \in LocType
    BY IdleType DEF LocType, OpName
  <2>2. m \in MemType /\ m.password = NoPassword
    BY <1>0, MemOps DEF lockRuntime, resetKeyringRuntimeState, MemType, OptPassword
  <2>3. /\ <<>> \in Seq(StageName) /\ StagesOf(<<>>) = {}
        /\ <<"public", "display", "display">> \in Seq(StageName)
        /\ StagesOf(<<"public", "display", "display">>) \subseteq Harmless
    BY DEF StageName, StagesOf, Harmless
  <2>4. \/ updateMemStoreKeyrings(p, m, l, <<>>)
        \/ Advance(p, m, l, <<"public", "display", "display">>)
    BY <1>3 DEF SetLocked
  <2> HIDE DEF l, m
  <2>5. Moves(p, NoPassword, l, Harmless)
    <3>1. CASE updateMemStoreKeyrings(p, m, l, <<>>)
      <4>1. Moves(p, NoPassword, l, StagesOf(<<>>) \cup {"show"})
        BY <1>0, <2>1, <2>2, <2>3, <3>1, updateMemStoreKeyringsMoves
      <4> QED BY <2>3, <4>1 DEF Moves, Harmless
    <3>2. CASE Advance(p, m, l, <<"public", "display", "display">>)
      BY <1>0, <2>1, <2>2, <2>3, <3>2, AdvanceMoves
    <3> QED BY <2>4, <3>1, <3>2
  <2> QED BY <1>1, <1>3, <2>5, OtherMoves DEF SetLocked
<1>4. CASE Refresh(p)
  <2> DEFINE l == [Idle EXCEPT !.op = "refresh"]
  <2>1. l \in LocType
    BY IdleType DEF LocType, OpName
  <2>2. PICK rest \in {<<>>, <<"display">>} :
          ensureKeyringRuntimeReady(p, mem, l, rest)
    BY <1>4 DEF Refresh
  <2>3. rest \in Seq(StageName) /\ StagesOf(rest) \subseteq Harmless
    <3>1. CASE rest = <<>>
      BY <3>1 DEF StagesOf
    <3>2. CASE rest = <<"display">>
      <4>1. StagesOf(rest) = {"display"}
        BY <3>2, StagesOfOne
      <4>2. rest \in Seq(StageName)
        BY <3>2 DEF StageName
      <4> QED BY <4>1, <4>2 DEF Harmless
    <3> QED BY <2>2, <3>1, <3>2
  <2> HIDE DEF l
  <2>4. Moves(p, mem.password, l, StagesOf(rest) \cup {"join"})
    BY <1>0, <2>1, <2>2, <2>3, ensureKeyringRuntimeReadyMoves
  <2>5. Moves(p, mem.password, l, Harmless)
    BY <2>3, <2>4 DEF Moves, Harmless
  <2> QED BY <1>1, <1>4, <2>5, OtherMoves DEF Refresh
<1> QED BY <1>2, <1>3, <1>4
-----------------------------------------------------------------------------
(* Stages of the user.                                                     *)

LEMMA MovesMore ==
  ASSUME NEW p, NEW pw, NEW l, NEW k, NEW S, NEW T, Moves(p, pw, l, S),
         S \subseteq T, k.npw = l.npw
  PROVE  Moves(p, pw, k, T)
BY DEF Moves

\* Where the chain of the user may go from a stage other than boot.
Onward(u) == StagesOf(Rest(u)) \cup Extra

\* The facts every stage of the user starts from.
LEMMA UserStart ==
  ASSUME NEW u \in Proc, VaultInv(u), NEW st, At(u, st)
  PROVE  /\ TypeOK /\ mem \in MemType /\ loc[u] \in LocType
         /\ store \in StoreType /\ left[u] \in Bag
         /\ Rest(u) \in Seq(StageName) /\ StagesOf(Rest(u)) \subseteq Onward(u)
         /\ st \in StagesOf(todo[u])
         /\ StagesOf(Rest(u)) \cap (Fresh \cup Erasing) = {}
         /\ "writeNew" \in StagesOf(Rest(u)) => loc[u].npw \in Password
         /\ st # "boot" => mem.password \in {NoPassword, store.booted}
<1>1. TypeOK
  BY DEF VaultInv
<1>2. /\ todo[u] # <<>> /\ st \in StagesOf(todo[u])
      /\ StagesOf(Rest(u)) \subseteq StagesOf(todo[u])
      /\ st # "boot" => ~At(u, "boot")
  BY <1>1, AtFacts
<1>3. /\ Rest(u) \in Seq(StageName) /\ loc[u] \in LocType /\ left[u] \in Bag
      /\ mem \in MemType /\ store \in StoreType
  BY <1>1, RestType DEF TypeOK
<1>4. /\ StagesOf(Rest(u)) \cap (Fresh \cup Erasing) = {}
      /\ "writeNew" \in StagesOf(Rest(u)) => loc[u].npw \in Password
  BY <1>2 DEF VaultInv, Chains, Erasing
<1>5. st # "boot" => mem.password \in {NoPassword, store.booted}
  BY <1>2, HeldAt
<1> QED BY <1>1, <1>2, <1>3, <1>4, <1>5 DEF Onward

\* ... and how most of them end.
LEMMA UserEnds ==
  ASSUME NEW u \in Proc, VaultInv(u), TypeOK', NEW st, At(u, st), st # "boot",
         store'.booted = store.booted, store'.vault = store.vault,
         NEW pw \in {NoPassword, mem.password}, Moves(u, pw, loc[u], Onward(u))
  PROVE  VaultInv(u)'
<1>1. pw \in {NoPassword, store.booted}
  BY UserStart
<1> QED BY <1>1, UserStage DEF Onward

\* A stage that only advances, to the rest of the chain or to nothing.
LEMMA UserAdvances ==
  ASSUME NEW u \in Proc, VaultInv(u), TypeOK', NEW st, At(u, st), st # "boot",
         store'.booted = store.booted, store'.vault = store.vault,
         NEW m \in MemType, m.password \in {NoPassword, mem.password},
         NEW l \in LocType, l.npw = loc[u].npw,
         Advance(u, m, l, Rest(u)) \/ Throw(u, m)
  PROVE  VaultInv(u)'
<1>1. Moves(u, m.password, l, Onward(u))
  BY UserStart, AdvanceMoves, ThrowMoves
<1>2. Moves(u, m.password, loc[u], Onward(u))
  BY <1>1, MovesMore
<1> QED BY <1>2, UserEnds

LEMMA UserUnlocks ==
  ASSUME NEW u \in Proc, VaultInv(u), TypeOK',
         \/ Verify(u) \/ Reload(u) \/ Decrypt(u) \/ SensitiveRestored(u)
         \/ PublicRestored(u) \/ Ready(u)
  PROVE  VaultInv(u)'
<1>1. CASE Verify(u)
  <2>1. At(u, "verify") /\ UNCHANGED store
    BY <1>1 DEF Verify, Quiet
  <2>2. mem \in MemType /\ loc[u] \in LocType /\ TypeOK
    BY <2>1, UserStart
  <2>3. CASE Throw(u, mem)
    BY <2>1, <2>2, <2>3, UserAdvances
  <2>4. CASE loc[u].key = loc[u].pw /\ openVault(u, mem, loc[u])
    <3>1. loc[u].pw = store.booted
      BY <2>1, <2>4 DEF VaultInv, Captured
    <3>2. Moves(u, loc[u].pw, loc[u], Extra)
      BY <2>2, <2>4, openVaultMoves
    <3> QED BY <2>1, <3>1, <3>2, ExtraRuns, UserRuns
  <2>5. CASE Advance(u, mem, [loc[u] EXCEPT !.flag = shouldRestoreVault,
                                            !.defer = mem.unlocked], Rest(u))
    <3> DEFINE l == [loc[u] EXCEPT !.flag = shouldRestoreVault,
                                   !.defer = mem.unlocked]
    <3>1. shouldRestoreVault \in BOOLEAN
      BY DEF shouldRestoreVault
    <3>2. l \in LocType /\ l.npw = loc[u].npw
      BY <2>2, <3>1 DEF LocType, MemType
    <3> QED BY <2>1, <2>2, <2>5, <3>2, UserAdvances
  <2> QED BY <1>1, <2>3, <2>4, <2>5 DEF Verify
<1>2. CASE Reload(u)
  <2> DEFINE w == <<"decrypt", "sensitive", "public", "ready">>
  <2>1. At(u, "reload") /\ UNCHANGED store
    BY <1>2 DEF Reload, Quiet
  <2>2. mem \in MemType /\ loc[u] \in LocType /\ TypeOK
        /\ Rest(u) \in Seq(StageName)
    BY <2>1, UserStart
  <2>3. CASE unlockKeyrings(u, mem, loc[u], w \o Rest(u))
    <3>1. w \in Seq(StageName) /\ StagesOf(w) \subseteq Extra
      BY DEF StageName, StagesOf, Extra
    <3> HIDE DEF w
    <3>2. w \o Rest(u) \in Seq(StageName)
          /\ StagesOf(w \o Rest(u)) \subseteq Onward(u)
      BY <2>2, <3>1, Prepend, StagesOfConcat DEF Onward
    <3>3. Moves(u, mem.password, loc[u], StagesOf(w \o Rest(u)))
      BY <2>2, <2>3, <3>2, unlockKeyringsMoves
    <3>4. Moves(u, mem.password, loc[u], Onward(u))
      BY <3>2, <3>3, MovesMore
    <3> QED BY <2>1, <3>4, UserEnds
  <2>4. CASE Advance(u, mem, loc[u], Rest(u))
    BY <2>1, <2>2, <2>4, UserAdvances
  <2> QED BY <1>2, <2>3, <2>4 DEF Reload
<1>3. CASE Decrypt(u)
  <2> DEFINE l == loc[u]
             toRestore == IF store.unenc = Absent THEN l.ser
                          ELSE Keep(l.ser, Sensitive)
             pub == OrNothing(store.unenc)
             m == [mem EXCEPT !.pending = [data |-> toRestore, pub |-> pub],
                     !.ready = FALSE, !.restoring = FALSE, !.failed = FALSE]
             l2 == [l EXCEPT !.list = pub]
  <2>1. At(u, "decrypt") /\ UNCHANGED store
    BY <1>3 DEF Decrypt
  <2>2. mem \in MemType /\ loc[u] \in LocType /\ TypeOK
    BY <2>1, UserStart
  <2>3. toRestore \in Bag /\ pub \in Bag
    <3>1. l.ser \in Bag
      BY <2>2 DEF LocType
    <3> QED BY <2>2, <3>1, BagOps, OrNothingType
  <2>4. \/ Throw(u, mem) \/ setUnlocked(u, m, l) \/ Advance(u, mem, l2, Rest(u))
    BY <1>3 DEF Decrypt
  <2> HIDE DEF toRestore, pub
  <2>5. m \in MemType /\ m.password = mem.password
    BY <2>2, <2>3 DEF MemType, Pending
  <2>6. l2 \in LocType /\ l2.npw = loc[u].npw
    BY <2>2, <2>3 DEF LocType
  <2> HIDE DEF m, l2
  <2>7. CASE setUnlocked(u, m, l)
    <3>1. Moves(u, mem.password, loc[u], Extra)
      BY <2>2, <2>5, <2>7, setUnlockedMoves
    <3>2. Moves(u, mem.password, loc[u], Onward(u))
      BY <3>1, MovesMore DEF Onward
    <3> QED BY <2>1, <3>2, UserEnds
  <2> QED BY <2>1, <2>2, <2>4, <2>6, <2>7, UserAdvances
<1>4. CASE SensitiveRestored(u)
  <2>1. /\ At(u, "sensitive") /\ UNCHANGED store
        /\ Advance(u, mem, loc[u], Rest(u))
    BY <1>4 DEF SensitiveRestored
  <2> QED BY <2>1, UserStart, UserAdvances
<1>5. CASE PublicRestored(u)
  <2>1. At(u, "public") /\ UNCHANGED store
    BY <1>5 DEF PublicRestored, Quiet
  <2>2. mem \in MemType /\ loc[u] \in LocType /\ TypeOK
        /\ Rest(u) \in Seq(StageName)
    BY <2>1, UserStart
  <2>3. CASE Rest(u) # <<>>
             /\ updateMemStoreKeyrings(u, mem, loc[u], Tail(Rest(u)))
    <3>1. Tail(Rest(u)) \in Seq(StageName)
          /\ StagesOf(Tail(Rest(u))) \subseteq StagesOf(Rest(u))
      BY <2>2, <2>3, StagesOfTail
    <3>2. Moves(u, mem.password, loc[u], StagesOf(Tail(Rest(u))) \cup {"show"})
      BY <2>2, <2>3, <3>1, updateMemStoreKeyringsMoves
    <3>3. Moves(u, mem.password, loc[u], Onward(u))
      BY <3>1, <3>2, MovesMore DEF Onward, Extra
    <3> QED BY <2>1, <3>3, UserEnds
  <2>4. CASE Advance(u, mem, loc[u], Rest(u))
    BY <2>1, <2>2, <2>4, UserAdvances
  <2> QED BY <1>5, <2>3, <2>4 DEF PublicRestored
<1>6. CASE Ready(u)
  <2> DEFINE m == markKeyringRuntimeReady(mem)
  <2>1. At(u, "ready") /\ UNCHANGED store
    BY <1>6 DEF Ready, Quiet
  <2>2. mem \in MemType /\ loc[u] \in LocType /\ TypeOK
    BY <2>1, UserStart
  <2>3. m \in MemType /\ m.password = mem.password
    <3>1. m \in MemType
      BY <2>2, MemOps DEF OptPassword
    <3>2. m.password = mem.password
      BY <2>2 DEF markKeyringRuntimeReady, MemType
    <3> QED BY <3>1, <3>2
  <2>4. setUnlocked(u, m, loc[u]) \/ Advance(u, m, loc[u], Rest(u))
    BY <1>6 DEF Ready
  <2> HIDE DEF m
  <2>5. CASE setUnlocked(u, m, loc[u])
    <3>1. Moves(u, mem.password, loc[u], Extra)
      BY <2>2, <2>3, <2>5, setUnlockedMoves
    <3>2. Moves(u, mem.password, loc[u], Onward(u))
      BY <3>1, MovesMore DEF Onward
    <3> QED BY <2>1, <3>2, UserEnds
  <2> QED BY <2>1, <2>2, <2>3, <2>4, <2>5, UserAdvances
<1> QED BY <1>1, <1>2, <1>3, <1>4, <1>5, <1>6
\* What happens at a stage that may go on to write everything.
LEMMA UserPersists ==
  ASSUME NEW u \in Proc, VaultInv(u), TypeOK', NEW st, At(u, st), st # "boot",
         UNCHANGED store, NEW m \in MemType, m.password = mem.password, NEW k,
         \/ persistAllKeyrings(u, m, loc[u], Rest(u))
         \/ persistKeyringsForKeyring(u, m, loc[u], k, Rest(u))
  PROVE  VaultInv(u)'
<1>1. TypeOK /\ loc[u] \in LocType /\ Rest(u) \in Seq(StageName)
  BY UserStart
<1>2. CASE persistAllKeyrings(u, m, loc[u], Rest(u))
  <2>1. Moves(u, m.password, loc[u], StagesOf(Rest(u)) \cup Persisting)
    BY <1>1, <1>2, persistAllKeyringsMoves
  <2>2. Moves(u, m.password, loc[u], Onward(u))
    BY <2>1, MovesMore DEF Onward, Extra
  <2> QED BY <2>2, UserEnds
<1>3. CASE persistKeyringsForKeyring(u, m, loc[u], k, Rest(u))
  <2>1. Moves(u, m.password, loc[u], Onward(u))
    BY <1>1, <1>3, persistKeyringsForKeyringMoves DEF Onward
  <2> QED BY <2>1, UserEnds
<1> QED BY <1>2, <1>3

\* A stage that waits for a deferred restore before it does st2.
LEMMA UserWaits ==
  ASSUME NEW u \in Proc, VaultInv(u), TypeOK', NEW st, At(u, st), st # "boot",
         UNCHANGED store, NEW st2 \in Extra, st2 \in StageName,
         ensureKeyringRuntimeReady(u, mem, loc[u], <<st2>> \o Rest(u))
  PROVE  VaultInv(u)'
<1>1. TypeOK /\ loc[u] \in LocType /\ Rest(u) \in Seq(StageName)
      /\ mem \in MemType
  BY UserStart
<1> DEFINE rest == <<st2>> \o Rest(u)
<1>2. rest \in Seq(StageName)
      /\ StagesOf(rest) \subseteq {st2} \cup StagesOf(Rest(u))
  BY <1>1, StagesOfPrepend
<1> HIDE DEF rest
<1>3. Moves(u, mem.password, loc[u], StagesOf(rest) \cup {"join"})
  BY <1>1, <1>2, ensureKeyringRuntimeReadyMoves DEF rest
<1>4. StagesOf(rest) \cup {"join"} \subseteq Onward(u)
  BY <1>2 DEF Onward, Extra, Persisting
<1>5. Moves(u, mem.password, loc[u], Onward(u))
  BY <1>3, <1>4, MovesMore
<1> QED BY <1>5, UserEnds

LEMMA UserPlain ==
  ASSUME NEW u \in Proc, VaultInv(u), TypeOK',
         \/ Display(u) \/ Show(u) \/ Join(u) \/ Serialize(u) \/ Snapshot(u)
         \/ WriteSnapshot(u) \/ WriteUnencrypted(u) \/ AssertCanPersist(u)
         \/ Compare(u) \/ Acknowledge(u) \/ Collect(u) \/ EncryptNew(u)
         \/ RestoreKeyringThrows(u)
  PROVE  VaultInv(u)'
<1>0. TypeOK
  BY DEF VaultInv
<1>1. CASE Display(u)
  <2>1. /\ At(u, "display") /\ UNCHANGED store
        /\ updateMemStoreKeyrings(u, mem, loc[u], Rest(u))
    BY <1>1 DEF Display, Quiet
  <2>2. mem \in MemType /\ loc[u] \in LocType /\ Rest(u) \in Seq(StageName)
    BY <2>1, UserStart
  <2>3. Moves(u, mem.password, loc[u], StagesOf(Rest(u)) \cup {"show"})
    BY <1>0, <2>1, <2>2, updateMemStoreKeyringsMoves
  <2>4. Moves(u, mem.password, loc[u], Onward(u))
    BY <2>3, MovesMore DEF Onward, Extra
  <2> QED BY <2>1, <2>4, UserEnds
<1>2. CASE Show(u)
  <2>1. At(u, "show") /\ UNCHANGED store
    BY <1>2 DEF Show, Quiet
  <2>2. mem \in MemType /\ loc[u] \in LocType
    BY <2>1, UserStart
  <2>3. [mem EXCEPT !.shown = loc[u].list] \in MemType
        /\ [mem EXCEPT !.shown = loc[u].list].password = mem.password
    BY <2>2 DEF MemType, LocType
  <2> QED BY <1>2, <2>1, <2>2, <2>3, UserAdvances DEF Show
<1>3. CASE Join(u)
  <2>1. At(u, "join") /\ UNCHANGED store
    BY <1>3 DEF Join, Quiet
  <2>2. mem \in MemType /\ loc[u] \in LocType
    BY <2>1, UserStart
  <2>3. Throw(u, mem) \/ Advance(u, mem, loc[u], Rest(u))
    BY <1>3 DEF Join
  <2> QED BY <2>1, <2>2, <2>3, UserAdvances
<1>4. CASE Serialize(u)
  <2>1. /\ At(u, "serialize") /\ UNCHANGED store
        /\ serializeForPersist(u, mem, loc[u], Rest(u))
    BY <1>4 DEF Serialize, Quiet
  <2>2. mem \in MemType /\ loc[u] \in LocType /\ Rest(u) \in Seq(StageName)
        /\ StagesOf(Rest(u)) \subseteq Onward(u)
    BY <2>1, UserStart
  <2>3. Moves(u, mem.password, loc[u], Onward(u))
    BY <1>0, <2>1, <2>2, serializeForPersistMoves
  <2> QED BY <2>1, <2>3, UserEnds
<1>5. CASE Snapshot(u)
  <2>1. At(u, "snapshot") /\ UNCHANGED store
    BY <1>5 DEF Snapshot, Quiet
  <2>2. mem \in MemType /\ loc[u] \in LocType
    BY <2>1, UserStart
  <2> DEFINE l == [loc[u] EXCEPT !.snp = Members(mem.keyrings)]
  <2>3. l \in LocType /\ l.npw = loc[u].npw
    BY <2>2 DEF LocType, Members
  <2> QED BY <1>5, <2>1, <2>2, <2>3, UserAdvances DEF Snapshot
<1>6. CASE WriteSnapshot(u) \/ WriteUnencrypted(u)
  <2>1. PICK st \in {"writeSnapshot", "writeUnencrypted"} : At(u, st)
    BY <1>6 DEF WriteSnapshot, WriteUnencrypted
  <2>2. store \in StoreType /\ mem \in MemType /\ loc[u] \in LocType
    BY <2>1, UserStart
  <2>3. store'.booted = store.booted /\ store'.vault = store.vault
    BY <1>6, <2>2 DEF WriteSnapshot, WriteUnencrypted, StoreType
  <2> QED
    BY <1>6, <2>1, <2>2, <2>3, UserAdvances DEF WriteSnapshot, WriteUnencrypted
<1>7. CASE AssertCanPersist(u)
  <2>1. At(u, "assert") /\ UNCHANGED store
    BY <1>7 DEF AssertCanPersist, Quiet
  <2> QED BY <1>7, <2>1, UserStart, UserAdvances DEF AssertCanPersist
<1>8. CASE Compare(u)
  <2>1. At(u, "compare") /\ UNCHANGED store
    BY <1>8 DEF Compare, Quiet
  <2> QED BY <1>8, <2>1, UserStart, UserAdvances DEF Compare, compareAccounts
<1>9. CASE Acknowledge(u)
  <2>1. At(u, "acknowledge") /\ UNCHANGED store
    BY <1>9 DEF Acknowledge, Quiet
  <2> QED BY <1>9, <2>1, UserStart, UserAdvances DEF Acknowledge
<1>10. CASE Collect(u)
  <2>1. At(u, "collect") /\ UNCHANGED store
    BY <1>10 DEF Collect, Quiet
  <2>2. mem \in MemType /\ loc[u] \in LocType
    BY <2>1, UserStart
  <2> DEFINE l == [loc[u] EXCEPT !.ser = mem.keyrings]
  <2>3. l \in LocType /\ l.npw = loc[u].npw
    BY <2>2 DEF LocType, MemType
  <2> QED BY <1>10, <2>1, <2>2, <2>3, UserAdvances DEF Collect
<1>11. CASE EncryptNew(u)
  <2>1. At(u, "encryptNew") /\ UNCHANGED store
    BY <1>11 DEF EncryptNew, Quiet
  <2> QED BY <1>11, <2>1, UserStart, UserAdvances DEF EncryptNew
<1>12. CASE RestoreKeyringThrows(u)
  <2>1. /\ At(u, "sensitive") \/ At(u, "public")
        /\ UNCHANGED store /\ Throw(u, mem)
    BY <1>12 DEF RestoreKeyringThrows
  <2>2. PICK st \in {"sensitive", "public"} : At(u, st)
    BY <2>1
  <2> QED BY <2>1, <2>2, UserStart, UserAdvances
<1> QED
  BY <1>1, <1>2, <1>3, <1>4, <1>5, <1>6, <1>7, <1>8, <1>9, <1>10, <1>11, <1>12

LEMMA UserMutates ==
  ASSUME NEW u \in Proc, VaultInv(u), TypeOK',
         \/ CheckForDuplicate(u) \/ PushKeyring(u) \/ RemoveKeyring(u)
         \/ Rekey(u) \/ Relock(u) \/ PersistAgain(u)
  PROVE  VaultInv(u)'
<1>0. TypeOK
  BY DEF VaultInv
<1>1. CASE CheckForDuplicate(u)
  <2>1. At(u, "duplicate") /\ UNCHANGED store
    BY <1>1 DEF CheckForDuplicate, Quiet
  <2>2. "compare" \in Extra /\ "compare" \in StageName
    BY DEF Extra, StageName
  <2>3. \/ ensureKeyringRuntimeReady(u, mem, loc[u], <<"compare">> \o Rest(u))
        \/ Advance(u, mem, loc[u], Rest(u)) \/ Throw(u, mem)
    BY <1>1 DEF CheckForDuplicate, compareAccounts
  <2> QED BY <2>1, <2>2, <2>3, UserStart, UserWaits, UserAdvances
<1>2. CASE PushKeyring(u)
  <2> DEFINE k == loc[u].kr
             m == [mem EXCEPT !.keyrings = Push(@, k)]
  <2>1. /\ At(u, "push") /\ UNCHANGED store
        /\ persistKeyringsForKeyring(u, m, loc[u], k, Rest(u))
    BY <1>2 DEF PushKeyring, Quiet
  <2>2. mem \in MemType
    BY <2>1, UserStart
  <2>3. Push(mem.keyrings, k) \in Bag
    BY <2>2, BagOps DEF MemType
  <2>4. m \in MemType /\ m.password = mem.password
    BY <2>2, <2>3 DEF MemType
  <2> QED BY <2>1, <2>4, UserPersists
<1>3. CASE RemoveKeyring(u)
  <2> DEFINE k == loc[u].kr
             m == [mem EXCEPT !.keyrings = Drop(@, k)]
  <2>1. At(u, "remove") /\ UNCHANGED store
    BY <1>3 DEF RemoveKeyring, Quiet
  <2>2. mem \in MemType /\ loc[u] \in LocType
    BY <2>1, UserStart
  <2>3. Drop(mem.keyrings, k) \in Bag
    BY <2>2, BagOps DEF MemType
  <2>4. m \in MemType /\ m.password = mem.password
    BY <2>2, <2>3 DEF MemType
  <2>5. \/ Throw(u, mem)
        \/ persistKeyringsForKeyring(u, m, loc[u], k, Rest(u))
    BY <1>3 DEF RemoveKeyring
  <2> HIDE DEF m
  <2> QED BY <2>1, <2>2, <2>4, <2>5, UserPersists, UserAdvances
<1>4. CASE Rekey(u)
  <2> DEFINE l == [loc[u] EXCEPT !.ser = mem.keyrings]
  <2>1. At(u, "rekey") /\ UNCHANGED store
    BY <1>4 DEF Rekey, Quiet
  <2>2. mem \in MemType /\ loc[u] \in LocType
    BY <2>1, UserStart
  <2>3. l \in LocType /\ l.npw = loc[u].npw
    BY <2>2 DEF LocType, MemType
  <2>4. "collect" \in Extra /\ "collect" \in StageName
    BY DEF Extra, StageName
  <2>5. \/ ensureKeyringRuntimeReady(u, mem, loc[u], <<"collect">> \o Rest(u))
        \/ Advance(u, mem, l, Rest(u))
    BY <1>4 DEF Rekey
  <2> HIDE DEF l
  <2> QED BY <2>1, <2>2, <2>3, <2>4, <2>5, UserWaits, UserAdvances
<1>5. CASE Relock(u)
  <2> DEFINE m == relockRuntime(mem)
             w == <<"public", "display">>
  <2>1. At(u, "relock") /\ UNCHANGED store
    BY <1>5 DEF Relock
  <2>2. mem \in MemType /\ loc[u] \in LocType /\ Rest(u) \in Seq(StageName)
    BY <2>1, UserStart
  <2>3. m \in MemType /\ m.password = NoPassword
    BY <2>2, MemOps DEF relockRuntime, MemType, OptPassword
  <2>4. \/ Advance(u, m, loc[u], w \o Rest(u))
        \/ updateMemStoreKeyrings(u, mem, loc[u], Rest(u))
        \/ Advance(u, mem, loc[u], Rest(u))
    BY <1>5 DEF Relock
  <2>5. w \in Seq(StageName) /\ StagesOf(w) \subseteq Extra
    BY DEF StageName, StagesOf, Extra
  <2> HIDE DEF m, w
  <2>6. w \o Rest(u) \in Seq(StageName)
        /\ StagesOf(w \o Rest(u)) \subseteq Onward(u)
    BY <2>2, <2>5, Prepend, StagesOfConcat DEF Onward
  <2>7. CASE Advance(u, m, loc[u], w \o Rest(u))
    <3>1. Moves(u, NoPassword, loc[u], Onward(u))
      BY <1>0, <2>2, <2>3, <2>6, <2>7, AdvanceMoves
    <3> QED BY <2>1, <3>1, UserEnds
  <2>8. CASE updateMemStoreKeyrings(u, mem, loc[u], Rest(u))
    <3>1. Moves(u, mem.password, loc[u], StagesOf(Rest(u)) \cup {"show"})
      BY <1>0, <2>2, <2>8, updateMemStoreKeyringsMoves
    <3>2. Moves(u, mem.password, loc[u], Onward(u))
      BY <3>1, MovesMore DEF Onward, Extra
    <3> QED BY <2>1, <3>2, UserEnds
  <2>9. CASE Advance(u, mem, loc[u], Rest(u))
    BY <2>1, <2>2, <2>9, UserAdvances
  <2> QED BY <2>4, <2>7, <2>8, <2>9
<1>6. CASE PersistAgain(u)
  <2>1. /\ At(u, "persist") /\ UNCHANGED store
        /\ persistAllKeyrings(u, mem, loc[u], Rest(u))
    BY <1>6 DEF PersistAgain, Quiet
  <2>2. mem \in MemType
    BY <2>1, UserStart
  <2> QED BY <2>1, <2>2, UserPersists
<1> QED BY <1>1, <1>2, <1>3, <1>4, <1>5, <1>6
LEMMA UserWrites ==
  ASSUME NEW u \in Proc, VaultInv(u), TypeOK',
         \/ Encrypt(u) \/ Write(u) \/ WriteNew(u) \/ BootWritten(u)
         \/ LaunchChoice(u)
  PROVE  VaultInv(u)'
<1>0. TypeOK
  BY DEF VaultInv
<1>1. CASE Encrypt(u)
  <2> DEFINE l == [loc[u] EXCEPT !.key = mem.password]
  <2>1. At(u, "encrypt") /\ UNCHANGED store
    BY <1>1 DEF Encrypt, Quiet
  <2>2. /\ mem \in MemType /\ loc[u] \in LocType /\ Rest(u) \in Seq(StageName)
        /\ StagesOf(Rest(u)) \cap (Fresh \cup Erasing) = {}
        /\ "writeNew" \in StagesOf(Rest(u)) => loc[u].npw \in Password
        /\ mem.password \in {NoPassword, store.booted}
    BY <2>1, UserStart
  <2>3. CASE Throw(u, mem)
    BY <2>1, <2>2, <2>3, UserAdvances
  <2>4. CASE mem.password # NoPassword
             /\ Advance(u, mem, l, <<"write">> \o Rest(u))
    <3>1. /\ l \in LocType /\ l.npw = loc[u].npw
          /\ l.key = store.booted /\ l.key # NoPassword
      BY <2>2, <2>4 DEF LocType, MemType
    <3>2. "write" \in Fresh
      BY DEF Fresh
    <3> HIDE DEF l
    <3> QED BY <2>1, <2>2, <2>4, <3>1, <3>2, UserCaptures
  <2> QED BY <1>1, <2>3, <2>4 DEF Encrypt
<1>2. CASE Write(u)
  <2>1. /\ At(u, "write") /\ store' = Written(store, loc[u].key, loc[u])
        /\ Advance(u, mem, loc[u], Rest(u))
    BY <1>2 DEF Write
  <2>2. /\ mem \in MemType /\ loc[u] \in LocType /\ store \in StoreType
        /\ Rest(u) \in Seq(StageName)
        /\ StagesOf(Rest(u)) \cap (Fresh \cup Erasing) = {}
        /\ "writeNew" \in StagesOf(Rest(u)) => loc[u].npw \in Password
        /\ mem.password \in {NoPassword, store.booted}
    BY <2>1, UserStart
  <2>3. loc[u].key = store.booted /\ loc[u].key # NoPassword
    BY <2>1 DEF VaultInv, Captured
  <2>4. store'.booted = store.booted /\ store'.vault.pw = store.booted
    BY <2>1, <2>2, <2>3 DEF Written, StoreType
  <2>5. Moves(u, mem.password, loc[u], StagesOf(Rest(u)))
    BY <1>0, <2>1, <2>2, AdvanceMoves
  <2>6. VaultOpens' /\ (store'.booted = NoPassword => store'.vault = NoVault)
    BY <2>3, <2>4 DEF VaultOpens
  <2>7. mem.password \in {NoPassword, store'.booted}
    BY <2>2, <2>4
  <2> QED BY <2>2, <2>5, <2>6, <2>7, UserMoves
<1>3. CASE WriteNew(u)
  <2> DEFINE npw == loc[u].npw
             m == holdPassword(mem, npw)
  <2>1. /\ At(u, "writeNew")
        /\ store' = [Written(store, npw, loc[u]) EXCEPT !.booted = npw]
        /\ Advance(u, m, loc[u], Rest(u))
    BY <1>3 DEF WriteNew
  <2>2. /\ mem \in MemType /\ loc[u] \in LocType /\ store \in StoreType
        /\ Rest(u) \in Seq(StageName)
        /\ StagesOf(Rest(u)) \cap (Fresh \cup Erasing) = {}
        /\ "writeNew" \in StagesOf(todo[u])
    BY <2>1, UserStart
  <2>3. npw \in Password /\ npw # NoPassword
    BY <2>2, KeyringServiceAssumption
       DEF VaultInv, Chains, KeyringServiceAssumption
  <2>4. store'.booted = npw /\ store'.vault.pw = npw
    BY <2>1, <2>2 DEF Written, StoreType
  <2>5. m \in MemType /\ m.password = npw
    BY <2>2, <2>3, MemOps DEF holdPassword, MemType, OptPassword
  <2> HIDE DEF m
  <2>6. Moves(u, npw, loc[u], StagesOf(Rest(u)))
    BY <1>0, <2>1, <2>2, <2>5, AdvanceMoves
  <2>7. VaultOpens' /\ (store'.booted = NoPassword => store'.vault = NoVault)
    BY <2>3, <2>4 DEF VaultOpens
  <2>8. npw \in {NoPassword, store'.booted}
    BY <2>4
  <2> QED BY <2>2, <2>3, <2>6, <2>7, <2>8, UserMoves
<1>4. CASE BootWritten(u)
  <2> DEFINE m == [mem EXCEPT !.unlocked = TRUE, !.ready = TRUE,
                              !.restoring = FALSE, !.failed = FALSE]
  <2>1. /\ At(u, "boot") /\ store' = [store EXCEPT !.booted = loc[u].pw]
        /\ Advance(u, m, loc[u], Rest(u))
    BY <1>4 DEF BootWritten
  <2>2. /\ mem \in MemType /\ loc[u] \in LocType /\ store \in StoreType
        /\ Rest(u) \in Seq(StageName)
        /\ StagesOf(Rest(u)) \cap (Fresh \cup Erasing) = {}
        /\ "writeNew" \in StagesOf(Rest(u)) => loc[u].npw \in Password
    BY <2>1, UserStart
  <2>3. /\ loc[u].pw = BuiltIn /\ mem.password \in {NoPassword, BuiltIn}
        /\ store.vault = NoVault
    BY <2>1 DEF VaultInv, Captured
  <2>4. store'.booted = BuiltIn /\ store'.vault = NoVault
    BY <2>1, <2>2, <2>3 DEF StoreType
  <2>5. m \in MemType /\ m.password = mem.password
    BY <2>2 DEF MemType
  <2> HIDE DEF m
  <2>6. Moves(u, mem.password, loc[u], StagesOf(Rest(u)))
    BY <1>0, <2>1, <2>2, <2>5, AdvanceMoves
  <2>7. VaultOpens' /\ (store'.booted = NoPassword => store'.vault = NoVault)
    BY <2>4 DEF VaultOpens
  <2>8. mem.password \in {NoPassword, store'.booted}
    BY <2>3, <2>4
  <2> QED BY <2>2, <2>6, <2>7, <2>8, UserMoves
<1>5. CASE LaunchChoice(u)
  <2> DEFINE m == [mem EXCEPT !.keyrings = Keep(@, Sensitive)]
             w == <<"public", "display">>
  <2>1. At(u, "launch") /\ UNCHANGED store
    BY <1>5 DEF LaunchChoice
  <2>2. mem \in MemType /\ loc[u] \in LocType /\ ~At(u, "boot")
    BY <1>0, <2>1, UserStart, AtFacts
  <2>3. CASE submitPassword(u, BuiltIn, FALSE, FALSE)
    <3>1. BuiltIn \in Password
      BY KeyringServiceAssumption DEF KeyringServiceAssumption
    <3> QED BY <2>1, <2>2, <2>3, <3>1, submitPasswordVault
  <2>4. CASE Advance(u, mem, loc[u], <<>>)
    BY <2>1, <2>2, <2>4, UserAdvances DEF Throw
  <2>5. CASE Advance(u, m, loc[u], w)
    <3>1. w \in Seq(StageName) /\ StagesOf(w) \subseteq Onward(u)
      BY DEF StageName, StagesOf, Onward, Extra
    <3>2. Keep(mem.keyrings, Sensitive) \in Bag
      BY <2>2, BagOps DEF MemType
    <3>3. m \in MemType /\ m.password = mem.password
      BY <2>2, <3>2 DEF MemType
    <3> HIDE DEF m, w
    <3>4. Moves(u, mem.password, loc[u], Onward(u))
      BY <1>0, <2>2, <2>5, <3>1, <3>3, AdvanceMoves
    <3> QED BY <2>1, <3>4, UserEnds
  <2> QED BY <1>5, <2>3, <2>4, <2>5 DEF LaunchChoice
<1> QED BY <1>1, <1>2, <1>3, <1>4, <1>5

\* A deserialisation that is under way pushes its keyring and moves no chain.
LEMMA RestoreStandsStill ==
  ASSUME NEW u \in Proc, VaultInv(u), TypeOK', NEW p \in Proc,
         RestoreKeyring(p)
  PROVE  VaultInv(u)'
<1>1. mem \in MemType
  BY DEF VaultInv, TypeOK
<1>2. UNCHANGED <<store, todo, loc>> /\ mem'.password = mem.password
  BY <1>1 DEF RestoreKeyring, MemType
<1> QED BY <1>2, StandsStill

LEMMA UserStep ==
  ASSUME NEW u \in Proc, VaultInv(u), TypeOK', Stage(u)
  PROVE  VaultInv(u)'
<1>1. ~EraseKeyrings(u) /\ ~EraseStore(u)
  BY UserStart DEF EraseKeyrings, EraseStore, VaultInv, Chains
<1> QED
  BY <1>1, UserUnlocks, UserPlain, UserMutates, UserWrites,
     RestoreStandsStill DEF Stage

-----------------------------------------------------------------------------
(* Stages of the others.                                                   *)

LEMMA OtherStep ==
  ASSUME NEW u \in Proc, VaultInv(u), TypeOK', NEW p \in Proc \ {u}, Stage(p)
  PROVE  VaultInv(u)'
<1>0. TypeOK /\ mem \in MemType /\ loc[p] \in LocType
  BY DEF VaultInv, TypeOK
<1>1. \A st : At(p, st) => /\ st \in Harmless /\ Rest(p) \in Seq(StageName)
                           /\ StagesOf(Rest(p)) \subseteq Harmless
  BY <1>0, AtFacts, RestType DEF VaultInv, Chains
<1>2. ASSUME NEW st, At(p, st), UNCHANGED store, NEW m \in MemType,
             m.password = mem.password,
             Advance(p, m, loc[p], Rest(p)) \/ Throw(p, m)
      PROVE  VaultInv(u)'
  <2>1. Moves(p, mem.password, loc[p], Harmless)
    BY <1>0, <1>1, <1>2, AdvanceMoves, ThrowMoves
  <2> QED BY <1>2, <2>1, OtherMoves
<1>3. ASSUME NEW st, At(p, st), UNCHANGED store, NEW rest \in Seq(StageName),
             StagesOf(rest) \subseteq Harmless,
             updateMemStoreKeyrings(p, mem, loc[p], rest)
      PROVE  VaultInv(u)'
  <2>1. Moves(p, mem.password, loc[p], StagesOf(rest) \cup {"show"})
    BY <1>0, <1>3, updateMemStoreKeyringsMoves
  <2>2. Moves(p, mem.password, loc[p], Harmless)
    BY <1>3, <2>1, MovesMore DEF Harmless
  <2> QED BY <1>3, <2>2, OtherMoves
<1>4. CASE PublicRestored(p)
  <2>1. At(p, "public") /\ UNCHANGED store
    BY <1>4 DEF PublicRestored, Quiet
  <2>2. CASE Rest(p) # <<>>
             /\ updateMemStoreKeyrings(p, mem, loc[p], Tail(Rest(p)))
    <3>1. Tail(Rest(p)) \in Seq(StageName)
          /\ StagesOf(Tail(Rest(p))) \subseteq Harmless
      BY <1>1, <2>1, <2>2, StagesOfTail
    <3> QED BY <1>3, <2>1, <2>2, <3>1
  <2>3. CASE Advance(p, mem, loc[p], Rest(p))
    BY <1>0, <1>2, <2>1, <2>3
  <2> QED BY <1>4, <2>2, <2>3 DEF PublicRestored
<1>5. CASE Display(p)
  <2>1. At(p, "display") /\ UNCHANGED store
    BY <1>5 DEF Display, Quiet
  <2> QED BY <1>1, <1>3, <1>5, <2>1 DEF Display
<1>6. CASE Show(p)
  <2>1. At(p, "show") /\ UNCHANGED store
    BY <1>6 DEF Show, Quiet
  <2>2. [mem EXCEPT !.shown = loc[p].list] \in MemType
        /\ [mem EXCEPT !.shown = loc[p].list].password = mem.password
    BY <1>0 DEF MemType, LocType
  <2> QED BY <1>2, <1>6, <2>1, <2>2 DEF Show
<1>7. CASE Join(p)
  <2>1. At(p, "join") /\ UNCHANGED store
    BY <1>7 DEF Join, Quiet
  <2> QED BY <1>0, <1>2, <1>7, <2>1 DEF Join
<1>8. CASE RestoreKeyringThrows(p)
  <2>1. UNCHANGED store /\ Throw(p, mem)
    BY <1>8 DEF RestoreKeyringThrows
  <2>2. PICK st \in {"sensitive", "public"} : At(p, st)
    BY <1>8 DEF RestoreKeyringThrows
  <2> QED BY <1>0, <1>2, <2>1, <2>2
<1>9. \A st \in StageName \ Harmless : ~At(p, st)
  BY <1>1
<1>10. \A st \in {"verify", "reload", "decrypt", "sensitive", "ready",
         "serialize", "snapshot", "encrypt", "write", "writeSnapshot",
         "writeUnencrypted", "assert", "duplicate", "compare", "push",
         "acknowledge", "remove", "rekey", "collect", "encryptNew",
         "writeNew", "relock", "persist", "erase", "eraseStore", "boot",
         "launch"} : ~At(p, st)
  BY <1>9 DEF StageName, Harmless
<1>11. /\ ~Verify(p) /\ ~Reload(p) /\ ~Decrypt(p) /\ ~SensitiveRestored(p)
       /\ ~Ready(p) /\ ~Serialize(p) /\ ~Snapshot(p) /\ ~Encrypt(p)
  BY <1>10 DEF Verify, Reload, Decrypt, SensitiveRestored, Ready, Serialize,
               Snapshot, Encrypt
<1>12. /\ ~Write(p) /\ ~WriteSnapshot(p) /\ ~WriteUnencrypted(p)
       /\ ~AssertCanPersist(p) /\ ~CheckForDuplicate(p) /\ ~Compare(p)
       /\ ~PushKeyring(p) /\ ~Acknowledge(p) /\ ~RemoveKeyring(p)
  BY <1>10 DEF Write, WriteSnapshot, WriteUnencrypted, AssertCanPersist,
               CheckForDuplicate, Compare, PushKeyring, Acknowledge,
               RemoveKeyring
<1>13. /\ ~Rekey(p) /\ ~Collect(p) /\ ~EncryptNew(p) /\ ~WriteNew(p)
       /\ ~Relock(p) /\ ~PersistAgain(p) /\ ~EraseKeyrings(p)
       /\ ~EraseStore(p) /\ ~BootWritten(p) /\ ~LaunchChoice(p)
  BY <1>10 DEF Rekey, Collect, EncryptNew, WriteNew, Relock, PersistAgain,
               EraseKeyrings, EraseStore, BootWritten, LaunchChoice
<1> QED
  BY <1>4, <1>5, <1>6, <1>7, <1>8, <1>11, <1>12, <1>13,
     RestoreStandsStill DEF Stage

-----------------------------------------------------------------------------
(* The rest of the system, and the theorem.                                *)

LEMMA DeferredVault ==
  ASSUME NEW u \in Proc, VaultInv(u), TypeOK', NEW i \in Restores, Deferred(i)
  PROVE  VaultInv(u)'
<1>1. mem \in MemType
  BY DEF VaultInv, TypeOK
<1>2. UNCHANGED <<store, todo, loc>>
  BY DEF Deferred, DeferredKeyring, DeferredSensitiveDone, DeferredPublicDone,
         DeferredShown, DeferredReady, DeferredThrows, TaskOnly
<1>3. mem'.password = mem.password
  <2>1. CASE UNCHANGED mem
    BY <2>1
  <2>2. CASE \E x : mem' = [mem EXCEPT !.keyrings = x]
    BY <1>1, <2>2 DEF MemType
  <2>3. CASE \E x : mem' = [mem EXCEPT !.shown = x]
    BY <1>1, <2>3 DEF MemType
  <2>4. CASE mem' = markKeyringRuntimeReady(mem)
    BY <1>1, <2>4 DEF markKeyringRuntimeReady, MemType
  <2>5. CASE mem' = rollBack(mem, restore[i])
    BY <1>1, <2>5 DEF rollBack, MemType
  <2> QED
    BY <2>1, <2>2, <2>3, <2>4, <2>5
       DEF Deferred, DeferredKeyring, DeferredSensitiveDone,
           DeferredPublicDone, DeferredShown, DeferredReady, DeferredThrows
<1> QED BY <1>2, <1>3, StandsStill

LEMMA InitVault ==
  ASSUME NEW u \in Proc, Init, TypeOK
  PROVE  VaultInv(u)
<1>1. BuiltIn \in Password /\ NoPassword \notin Password
  BY KeyringServiceAssumption DEF KeyringServiceAssumption
<1>2. VaultOpens /\ (store.booted = NoPassword => store.vault = NoVault)
  <2>1. CASE store = EmptyStore
    BY <2>1 DEF EmptyStore, VaultOpens
  <2>2. ASSUME NEW pw \in Password, NEW K \in Installed
        PROVE  /\ StoreOf(pw, K).booted = pw
               /\ StoreOf(pw, K).vault.pw = pw
               /\ LegacyStoreOf(pw, K).booted = pw
               /\ LegacyStoreOf(pw, K).vault.pw = pw
    <3> DEFINE v == [pw |-> pw, krs |-> AsBag(K)]
    <3>1. v.pw = pw
      OBVIOUS
    <3> HIDE DEF v
    <3>2. StoreOf(pw, K).booted = pw /\ StoreOf(pw, K).vault = v
      BY DEF StoreOf, v
    <3>3. LegacyStoreOf(pw, K).booted = pw /\ LegacyStoreOf(pw, K).vault = v
      BY DEF StoreOf, LegacyStoreOf, v
    <3> QED BY <3>1, <3>2, <3>3
  <2>3. ASSUME NEW pw \in Password, NEW K \in Installed,
               store = StoreOf(pw, K) \/ store = LegacyStoreOf(pw, K)
        PROVE  VaultOpens /\ store.booted # NoPassword
    BY <1>1, <2>2, <2>3 DEF VaultOpens
  <2> QED BY <2>1, <2>3 DEF Init, Stores
<1>3. mem.password = NoPassword /\ \A p \in Proc : todo[p] = <<>>
  BY DEF Init, FreshMem
<1>4. StagesOf(<<>>) = {}
  BY DEF StagesOf
<1> QED
  BY <1>2, <1>3, <1>4 DEF VaultInv, Captured, PasswordHeld, Chains, At

LEMMA CrashVault ==
  ASSUME NEW u \in Proc, VaultInv(u), TypeOK', Crash
  PROVE  VaultInv(u)'
<1>1. UNCHANGED store /\ mem'.password = NoPassword
      /\ \A p \in Proc : todo'[p] = <<>>
  BY DEF Crash, FreshMem
<1>2. StagesOf(<<>>) = {}
  BY DEF StagesOf
<1> QED
  BY <1>1, <1>2
     DEF VaultInv, VaultOpens, Captured, PasswordHeld, Chains, At

LEMMA VaultStep ==
  ASSUME NEW u, SingleUser(u), VaultInv(u), [Next]_vars
  PROVE  VaultInv(u)'
<1>0. u \in Proc
  BY DEF SingleUser
<1>1. TypeOK'
  BY NextType DEF VaultInv
<1>2. CASE UNCHANGED vars
  BY <1>0, <1>1, <1>2, StandsStill DEF vars
<1>3. ASSUME NEW p \in Proc, Operation(p) \/ Stage(p) PROVE VaultInv(u)'
  BY <1>0, <1>1, <1>3, UserOperation, OtherOperation, UserStep, OtherStep
<1>4. ASSUME NEW i \in Restores, Deferred(i) PROVE VaultInv(u)'
  BY <1>0, <1>1, <1>4, DeferredVault
<1>5. CASE OrphanRestored
  <2>1. mem \in MemType
    BY DEF VaultInv, TypeOK
  <2>2. UNCHANGED <<store, todo, loc>> /\ mem'.password = mem.password
    BY <1>5, <2>1 DEF OrphanRestored, MemType
  <2> QED BY <1>0, <1>1, <2>2, StandsStill
<1>6. CASE Crash
  BY <1>0, <1>1, <1>6, CrashVault
<1> QED BY <1>2, <1>3, <1>4, <1>5, <1>6 DEF Next, Stand

\* With one user whose screens stand in front of the service, the password
\* that unlocks the wallet opens its vault in every reachable state: no
\* interleaving with a lock or a refresh, no failed deserialisation and no
\* process kill leaves a vault encrypted with another password than booted.
THEOREM VaultAlwaysOpens ==
  ASSUME NEW u, SingleUser(u)
  PROVE  Spec => []VaultOpens
<1>1. Init => VaultInv(u)
  BY InitType, InitVault DEF SingleUser
<1>2. VaultInv(u) /\ [Next]_vars => VaultInv(u)'
  BY VaultStep
<1>3. VaultInv(u) => VaultOpens
  BY DEF VaultInv
<1> QED BY <1>1, <1>2, <1>3, PTL DEF Spec
=============================================================================
