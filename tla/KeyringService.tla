--------------------------- MODULE KeyringService ---------------------------
(***************************************************************************)
(* The wallet's keyring service: the encrypted vault on disk, the decrypted *)
(* keyrings in memory, and every operation that moves data between the two. *)
(*                                                                         *)
(* JavaScript runs one task at a time, but each operation is a chain of     *)
(* awaits and the chains of different callers interleave between them.  A   *)
(* caller p \in Proc runs one operation at a time; todo[p] is what is left  *)
(* of its chain, one stage per stretch of code between two awaits, and      *)
(* loc[p] the values the chain has captured.  A stage that throws empties   *)
(* the chain.                                                              *)
(*                                                                         *)
(* A keyring is one abstract element holding one account: a member of       *)
(* Sensitive (seed phrase, private key) or of Public (watch, hardware).     *)
(* Lists of keyrings are bags, so that a keyring pushed twice shows.        *)
(***************************************************************************)
EXTENDS Naturals, Sequences, FiniteSets

CONSTANTS Sensitive,      \* keyrings of a type in UNENCRYPTED_IGNORE_KEYRING
          Public,         \* keyrings of any other type
          Password,       \* the passwords callers may present
          BuiltIn,        \* RABBY_MOBILE_KR_PWD, the password of a new install
          NoPassword,     \* null
          NoVault,        \* undefined vault
          Absent,         \* undefined array in the store
          Proc,           \* the concurrent callers
          Ops,            \* Ops[p]: the operations caller p may start
          MaxOps,         \* how many operations each caller starts
          MaxCopies,      \* cap on the copies of a keyring in one list
          MaxRestores,    \* cap on deferred restores
          MaxFailures,    \* keyring deserialisations that may throw
          MaxCrashes,     \* process kills
          Installed,      \* the sets of keyrings a first launch may find
          Screened        \* TRUE if screens offer secrets only when unlocked

Keyring == Sensitive \cup Public

ASSUME KeyringServiceAssumption ==
  /\ Sensitive \cap Public = {}
  /\ BuiltIn \in Password /\ NoPassword \notin Password
  /\ {MaxCopies, MaxRestores} \subseteq Nat \ {0}
  /\ {MaxFailures, MaxCrashes} \subseteq Nat
  /\ Ops \in [Proc -> SUBSET {"launch", "submit", "lock", "add",
                                 "remove", "changePw", "refresh", "wipe",
                                 "erase"}]
  /\ MaxOps \in [Proc -> Nat]
  /\ Installed \subseteq SUBSET Keyring
  /\ Screened \in BOOLEAN

VARIABLES store,     \* ObservableStore mirrored to disk on every update
          mem,       \* memStore and the private fields of the service
          todo,      \* todo[p]: stages left of the operation p runs
          loc,       \* loc[p]: values captured by that operation
          left,      \* left[p]: keyrings p is still deserialising
          orphans,   \* deserialisations whose operation has already failed
          restore,   \* restore[i]: the deferred restore number i
          started, failures, crashes,      \* counters behind the bounds
          saved      \* ghost: keyrings whose addition was acknowledged

vars == <<store, mem, todo, loc, left, orphans, restore, started, failures,
          crashes, saved>>
bounds == <<started, failures, crashes>>

-----------------------------------------------------------------------------
(* Lists of keyrings.                                                      *)

Bag == [Keyring -> 0 .. MaxCopies]
Nothing == [k \in Keyring |-> 0]
Members(b) == {k \in Keyring : b[k] > 0}
IsEmpty(b) == Members(b) = {}
Push(b, k) == [b EXCEPT ![k] = IF @ < MaxCopies THEN @ + 1 ELSE @]
Drop(b, k) == [b EXCEPT ![k] = IF @ > 0 THEN @ - 1 ELSE @]
Keep(b, S) == [k \in Keyring |-> IF k \in S THEN b[k] ELSE 0]
Added(a, b) == [k \in Keyring |-> IF a[k] + b[k] < MaxCopies
                                  THEN a[k] + b[k] ELSE MaxCopies]

\* Mutant: an array that is not there is iterated all the same.
OrNothing_Unguarded(b) == b

OrNothing(b) == IF b = Absent THEN Nothing ELSE b

-----------------------------------------------------------------------------
(* Synchronous pieces of code, as functions of the memory state.           *)

FreshMem ==
  [password |-> NoPassword, unlocked |-> FALSE, ready |-> FALSE,
   restoring |-> FALSE, failed |-> FALSE, keyrings |-> Nothing,
   shown |-> Nothing, restoreId |-> 0, pending |-> Absent, promise |-> 0,
   submitting |-> FALSE, launched |-> FALSE]

\* Mutant: the restoring flag survives the restore it announced.
resetKeyringRuntimeState_Restoring(m) ==
  [m EXCEPT !.restoreId = @ + 1, !.pending = Absent, !.promise = 0,
            !.ready = FALSE, !.failed = FALSE]

resetKeyringRuntimeState(m) ==
  [m EXCEPT !.restoreId = @ + 1, !.pending = Absent, !.promise = 0,
            !.ready = FALSE, !.restoring = FALSE, !.failed = FALSE]

markKeyringRuntimeReady(m) ==
  [m EXCEPT !.pending = Absent, !.promise = 0,
            !.ready = TRUE, !.restoring = FALSE, !.failed = FALSE]

clearKeyrings(m) ==
  [resetKeyringRuntimeState(m) EXCEPT !.keyrings = Nothing, !.shown = Nothing]

\* What setLocked does before its first await.  Mutant: the keyrings stay.
lockRuntime_KeepsKeyrings(m) ==
  [resetKeyringRuntimeState(m) EXCEPT !.password = NoPassword,
                                      !.unlocked = FALSE]

lockRuntime(m) ==
  [resetKeyringRuntimeState(m) EXCEPT !.password = NoPassword,
                                      !.unlocked = FALSE, !.keyrings = Nothing]

\* restoreLockedRuntimeAfterPasswordUpdate before its first await: unlike
\* setLocked it leaves the runtime flags as unlockKeyrings set them.
relockRuntime(m) ==
  [m EXCEPT !.password = NoPassword, !.unlocked = FALSE, !.keyrings = Nothing]

\* this.#password = password.  Mutant: the assignment is missing.
holdPassword_Forgets(m, pw) == m

holdPassword(m, pw) == [m EXCEPT !.password = pw]

shouldWaitForKeyringRuntime(m) == m.unlocked /\ ~m.ready

\* The variant with a type: only a sensitive keyring, or one that the restore
\* still has to bring in, makes the caller wait.
hasPendingRuntimeKeyringDataForType(m, k) ==
  IF m.pending # Absent
  THEN k \in Members(m.pending.data) \cup Members(m.pending.pub)
  ELSE k \in Members(OrNothing(store.unenc))

shouldWaitForType(m, k) ==
  /\ shouldWaitForKeyringRuntime(m)
  /\ \/ k \in Sensitive
     \/ m.keyrings[k] = 0 /\ hasPendingRuntimeKeyringDataForType(m, k)

\* What the disk alone can bring back after the next unlock.
Recoverable(s) ==
  LET inVault == IF s.vault = NoVault THEN {} ELSE Members(s.vault.krs)
  IN  IF s.unenc = Absent THEN inVault
      ELSE (inVault \cap Sensitive) \cup (Members(s.unenc) \cap Public)

hasEncryptedKeyrings(b) == Members(b) \cap Sensitive # {}

-----------------------------------------------------------------------------
(* Control: the chain of one operation.                                    *)

Idle == [op |-> "none", pw |-> NoPassword, npw |-> NoPassword, kr |-> Absent,
         key |-> NoPassword, ser |-> Nothing, list |-> Nothing, snp |-> {},
         rid |-> 0, flag |-> FALSE, defer |-> FALSE]

At(p, stage) == todo[p] # <<>> /\ Head(todo[p]) = stage
Rest(p) == Tail(todo[p])

\* Mutant: the finally block of submitPassword is missing.
Advance_NoFinally(p, m, l, rest) ==
  /\ todo' = [todo EXCEPT ![p] = rest]
  /\ loc' = [loc EXCEPT ![p] = IF rest = <<>> THEN Idle ELSE l]
  /\ mem' = m

\* Go on with the stages rest, leaving memory m and captured values l; the
\* end of a chain, reached or thrown to, forgets the captured values and runs
\* the finally block of submitPassword.
Advance(p, m, l, rest) ==
  /\ todo' = [todo EXCEPT ![p] = rest]
  /\ loc' = [loc EXCEPT ![p] = IF rest = <<>> THEN Idle ELSE l]
  /\ mem' = IF rest = <<>> /\ l.op = "submit"
            THEN [m EXCEPT !.submitting = FALSE] ELSE m

Throw(p, m) == Advance(p, m, loc[p], <<>>)

\* _updateMemStoreKeyrings: the list is read now and shown after an await.
updateMemStoreKeyrings(p, m, l, rest) ==
  Advance(p, m, [l EXCEPT !.list = m.keyrings], <<"show">> \o rest)

\* startDeferredKeyringRuntimeRestore with nothing in flight.
startDeferredRestore(p, m, l, rest) ==
  IF m.pending = Absent
  THEN /\ UNCHANGED restore
       /\ IF ~IsEmpty(m.keyrings) \/ ~store.hasEnc
          THEN Advance(p, markKeyringRuntimeReady(m), l, rest)
          ELSE Throw(p, m)
  ELSE /\ Len(restore) < MaxRestores
       /\ restore' = Append(restore,
            [id |-> m.restoreId + 1, st |-> "sensitive",
             left |-> m.pending.data, next |-> m.keyrings,
             prev |-> m.keyrings, from |-> m.pending])
       /\ Advance(p,
            [m EXCEPT !.restoreId = @ + 1, !.pending = Absent,
                      !.promise = Len(restore) + 1, !.ready = FALSE,
                      !.restoring = TRUE, !.failed = FALSE],
            [l EXCEPT !.rid = Len(restore) + 1], <<"join">> \o rest)

ensureKeyringRuntimeReady(p, m, l, rest) ==
  IF ~m.unlocked THEN Throw(p, m) /\ UNCHANGED restore
  ELSE IF m.ready THEN Advance(p, m, l, rest) /\ UNCHANGED restore
  ELSE IF m.promise # 0
  THEN /\ Advance(p, m, [l EXCEPT !.rid = m.promise], <<"join">> \o rest)
       /\ UNCHANGED restore
  ELSE startDeferredRestore(p, m, l, rest)

serializeForPersist(p, m, l, rest) ==
  IF m.password = NoPassword THEN Throw(p, m)
  ELSE Advance(p, m, [l EXCEPT !.ser = m.keyrings], rest)

persistAllKeyrings(p, m, l, rest) ==
  LET write == <<"snapshot", "encrypt">> \o rest
  IN  IF shouldWaitForKeyringRuntime(m)
      THEN ensureKeyringRuntimeReady(p, m, l, <<"serialize">> \o write)
      ELSE serializeForPersist(p, m, l, write) /\ UNCHANGED restore

persistKeyringsForKeyring(p, m, l, k, rest) ==
  IF k \in Sensitive \/ m.unlocked THEN persistAllKeyrings(p, m, l, rest)
  ELSE /\ Advance(p, m, [l EXCEPT !.ser = m.keyrings],
                  <<"snapshot", "writeSnapshot", "writeUnencrypted">> \o rest)
       /\ UNCHANGED restore

\* assertCanPersistKeyringMutation
canPersistKeyringMutation(m, k) == k \in Sensitive => m.password # NoPassword

\* The synchronous start of unlockKeyrings: capture the vault, clear memory.
unlockKeyrings(p, m, l, rest) ==
  IF store.vault = NoVault THEN Throw(p, m)
  ELSE Advance(p, clearKeyrings(m),
               [l EXCEPT !.key = store.vault.pw, !.ser = store.vault.krs], rest)

\* The end of submitPassword, with the legacy rewrite when a store is missing.
setUnlocked(p, m, l) ==
  LET open == [m EXCEPT !.unlocked = TRUE]
  IN  IF ~IsEmpty(m.keyrings) /\ (store.unenc = Absent \/ store.snap = {})
      THEN persistAllKeyrings(p, open, l, <<>>)
      ELSE Advance(p, open, l, <<>>) /\ UNCHANGED restore

openVault(p, m, l) ==
  LET keyed == holdPassword(m, l.pw)
  IN  IF l.flag
      THEN /\ unlockKeyrings(p, keyed, l, <<"decrypt", "sensitive", "public">>
                \o (IF l.defer THEN <<"ready">> ELSE <<"display", "ready">>))
           /\ UNCHANGED restore
      ELSE setUnlocked(p, keyed, l)

-----------------------------------------------------------------------------
(* Operations begin.                                                       *)

Begin(p, op) ==
  /\ todo[p] = <<>> /\ op \in Ops[p] /\ started[p] < MaxOps[p]
  /\ mem.launched = (op # "launch")
  /\ started' = [started EXCEPT ![p] = @ + 1]
  /\ UNCHANGED <<store, orphans, failures, crashes>>

\* submitPassword: returns at once while another submission runs; flag holds
\* hasVault and key the password the stored `booted` opens with.
submitPassword(p, pw, trusted, defer) ==
  LET l == [Idle EXCEPT !.op = "submit", !.pw = pw, !.key = store.booted,
                        !.flag = store.vault # NoVault, !.defer = defer]
      m == [mem EXCEPT !.submitting = TRUE]
  IN  IF mem.submitting THEN Throw(p, mem) /\ UNCHANGED restore
      ELSE IF trusted /\ l.flag THEN openVault(p, m, l)
      ELSE IF store.booted = NoPassword THEN Throw(p, mem) /\ UNCHANGED restore
      ELSE Advance(p, m, l, <<"verify">>) /\ UNCHANGED restore

SubmitPassword(p) == \E pw \in Password, trusted, defer \in BOOLEAN :
  /\ Begin(p, "submit")
  /\ Screened => ~mem.unlocked /\ (trusted => pw = store.booted)
  /\ submitPassword(p, pw, trusted, defer)
  /\ UNCHANGED <<left, saved>>

\* setLocked up to its first await; only a wallet with a password of its own
\* is ever locked (requestLockWallet).
SetLocked(p) ==
  /\ Begin(p, "lock") /\ mem.unlocked /\ store.booted # BuiltIn
  /\ LET m == lockRuntime(mem)
         l == [Idle EXCEPT !.op = "lock"]
     IN  IF store.unenc = Absent
         THEN updateMemStoreKeyrings(p, m, l, <<>>) /\ UNCHANGED left
         ELSE /\ left' = [left EXCEPT ![p] = store.unenc]
              /\ Advance(p, m, l, <<"public", "display", "display">>)
  /\ UNCHANGED <<restore, saved>>

\* tryAutoUnlockRabbyMobile: a new install boots with the built-in password,
\* an old one that still has it unlocks itself, any other restores what is
\* not encrypted (restoreUnencryptedKeyrings).
Launch(p) ==
  LET l == [Idle EXCEPT !.op = "launch", !.pw = BuiltIn]
      m == [mem EXCEPT !.launched = TRUE]
  IN  /\ Begin(p, "launch")
      /\ IF store.booted = NoPassword
         THEN Advance(p, [m EXCEPT !.password = BuiltIn], l, <<"boot", "launch">>)
         ELSE Advance(p, m, l, <<"launch">>)
      /\ UNCHANGED <<left, restore, saved>>

\* What the screens offer: secrets only behind an unlock, and anything else
\* while locked only in a session that shows the public account snapshot
\* (verifyPasswordOrUnlock, isUnlockSessionValid).
offered(k) == mem.unlocked \/ (k \in Public /\ store.snap # {})

\* Whether an addition begins by waiting for the runtime: the service makes
\* only the types above wait, the screens' getKeyring and addKeyring any type.
\* Mutant: the screens leave it to the service.
additionWaits_ByType(m, k) == shouldWaitForType(m, k)

additionWaits(m, k) == IF Screened THEN shouldWaitForKeyringRuntime(m)
                       ELSE shouldWaitForType(m, k)

\* addKeyring up to its first await.
AddKeyring(p) == \E k \in Keyring :
  LET l == [Idle EXCEPT !.op = "add", !.kr = k]
      rest == <<"assert", "duplicate", "push", "display", "acknowledge">>
  IN  /\ Begin(p, "add") /\ (Screened => offered(k))
      /\ IF additionWaits(mem, k)
         THEN ensureKeyringRuntimeReady(p, mem, l, rest)
         ELSE Advance(p, mem, l, rest) /\ UNCHANGED restore
      /\ UNCHANGED <<left, saved>>

\* What removeAccount does once the account is found.
removeStages == <<"remove", "display">>

\* removeAccount up to the answer of getKeyringForAccount.
RemoveAccount(p) == \E k \in Keyring :
  LET l == [Idle EXCEPT !.op = "remove", !.kr = k]
      rest == removeStages
  IN  /\ Begin(p, "remove") /\ (Screened => offered(k))
      /\ IF shouldWaitForType(mem, k)
         THEN ensureKeyringRuntimeReady(p, mem, l, rest)
         ELSE Advance(p, mem, l, rest) /\ UNCHANGED restore
      /\ UNCHANGED <<left, saved>>

\* refreshMemStoreKeyrings; flag holds whether the list is refreshed after.
Refresh(p) ==
  LET again == mem.ready \/ (mem.pending = Absent /\ mem.promise = 0)
      l == [Idle EXCEPT !.op = "refresh"]
  IN  /\ Begin(p, "refresh") /\ mem.unlocked
      /\ ensureKeyringRuntimeReady(p, mem, l,
           IF again THEN <<"display">> ELSE <<>>)
      /\ UNCHANGED <<left, saved>>

changePasswordStages ==
  <<"verify", "reload", "rekey", "snapshot", "encryptNew", "writeNew", "relock">>

UpdatePassword(p) == \E pw, npw \in Password :
  /\ Begin(p, "changePw") /\ pw # npw /\ store.booted # NoPassword
  /\ Advance(p, mem, [Idle EXCEPT !.op = "changePw", !.pw = pw, !.npw = npw,
                                  !.key = store.booted], changePasswordStages)
  /\ UNCHANGED <<left, restore, saved>>

\* dangerouslyResetPasswordAndKeyrings with a new password: the keyrings go
\* before the old password is verified.
Wipe(p) == \E pw, npw \in Password :
  /\ Begin(p, "wipe") /\ pw # npw /\ store.booted # NoPassword
  /\ Advance(p, [mem EXCEPT !.keyrings = Nothing],
             [Idle EXCEPT !.op = "wipe", !.pw = pw, !.npw = npw,
                          !.key = store.booted],
             changePasswordStages \o <<"persist">>)
  /\ UNCHANGED <<left, restore, saved>>

\* ... and without one.
Erase(p) == \E pw \in Password :
  /\ Begin(p, "erase") /\ store.booted # NoPassword
  /\ Advance(p, mem, [Idle EXCEPT !.op = "erase", !.pw = pw,
                                  !.key = store.booted], <<"verify", "erase">>)
  /\ UNCHANGED <<left, restore, saved>>

-----------------------------------------------------------------------------
(* Stages, each from one await to the next.                                *)

\* Stages that touch neither the store nor the deserialisations under way.
Quiet == UNCHANGED <<store, left, orphans, bounds>>

\* verifyPassword answers.  updatePassword then decides, on what it reads
\* here, whether the vault has to be loaded first
\* (shouldRestoreVaultForPasswordUpdate).
shouldRestoreVault ==
  /\ store.vault # NoVault
  /\ \/ ~mem.unlocked
     \/ IsEmpty(mem.keyrings)
     \/ store.hasEnc /\ ~hasEncryptedKeyrings(mem.keyrings)
     \/ /\ Members(OrNothing(store.unenc)) # {}
        /\ Members(mem.keyrings) \cap Public = {}

Verify(p) ==
  LET l == loc[p]
  IN  /\ At(p, "verify") /\ UNCHANGED saved /\ Quiet
      /\ IF l.key # l.pw THEN Throw(p, mem) /\ UNCHANGED restore
         ELSE IF l.op = "submit" THEN openVault(p, mem, l)
         ELSE /\ UNCHANGED restore
              /\ Advance(p, mem, [l EXCEPT !.flag = shouldRestoreVault,
                                           !.defer = mem.unlocked], Rest(p))

\* ensureVaultLoadedForPasswordUpdate.  Mutant: it trusts what is in memory.
Reload_Never(p) ==
  /\ At(p, "reload") /\ UNCHANGED <<restore, saved>> /\ Quiet
  /\ Advance(p, mem, loc[p], Rest(p))

Reload(p) ==
  /\ At(p, "reload") /\ UNCHANGED <<restore, saved>> /\ Quiet
  /\ IF loc[p].flag
     THEN unlockKeyrings(p, mem, loc[p],
            <<"decrypt", "sensitive", "public", "ready">> \o Rest(p))
     ELSE Advance(p, mem, loc[p], Rest(p))

\* unlockKeyrings: the vault is decrypted; memory restored now or deferred.
\* Only submitPassword defers, and only with a public account snapshot.
Decrypt(p) ==
  LET l == loc[p]
      toRestore == IF store.unenc = Absent THEN l.ser
                   ELSE Keep(l.ser, Sensitive)
      pub == OrNothing(store.unenc)
  IN  /\ At(p, "decrypt") /\ UNCHANGED <<store, orphans, bounds, saved>>
      /\ IF l.key # l.pw
         THEN Throw(p, mem) /\ UNCHANGED <<left, restore>>
         ELSE IF l.op = "submit" /\ l.defer /\ store.snap # {}
         THEN /\ setUnlocked(p, [mem EXCEPT
                   !.pending = [data |-> toRestore, pub |-> pub],
                   !.ready = FALSE, !.restoring = FALSE, !.failed = FALSE], l)
              /\ UNCHANGED left
         ELSE /\ left' = [left EXCEPT ![p] = toRestore]
              /\ Advance(p, mem, [l EXCEPT !.list = pub], Rest(p))
              /\ UNCHANGED restore

\* _restoreKeyring without a restoreId: push on whatever list is current.
RestoreKeyring(p) == \E k \in Keyring :
  /\ left[p][k] > 0
  /\ left' = [left EXCEPT ![p] = Drop(@, k)]
  /\ mem' = [mem EXCEPT !.keyrings = Push(@, k)]
  /\ UNCHANGED <<store, todo, loc, orphans, restore, bounds, saved>>

\* A deserialisation throws: the operation fails, the others go on without it.
RestoreKeyringThrows(p) == \E k \in Keyring :
  /\ At(p, "sensitive") \/ At(p, "public")
  /\ left[p][k] > 0 /\ failures < MaxFailures
  /\ failures' = failures + 1
  /\ orphans' = Added(orphans, Drop(left[p], k))
  /\ left' = [left EXCEPT ![p] = Nothing]
  /\ Throw(p, mem)
  /\ UNCHANGED <<store, restore, started, crashes, saved>>

OrphanRestored == \E k \in Keyring :
  /\ orphans[k] > 0
  /\ orphans' = Drop(orphans, k)
  /\ mem' = [mem EXCEPT !.keyrings = Push(@, k)]
  /\ UNCHANGED <<store, todo, loc, left, restore, bounds, saved>>

SensitiveRestored(p) ==
  /\ At(p, "sensitive") /\ IsEmpty(left[p])
  /\ left' = [left EXCEPT ![p] = loc[p].list]
  /\ Advance(p, mem, loc[p], Rest(p))
  /\ UNCHANGED <<store, orphans, restore, bounds, saved>>

PublicRestored(p) ==
  /\ At(p, "public") /\ IsEmpty(left[p])
  /\ IF Rest(p) # <<>> /\ Head(Rest(p)) = "display"
     THEN updateMemStoreKeyrings(p, mem, loc[p], Tail(Rest(p)))
     ELSE Advance(p, mem, loc[p], Rest(p))
  /\ UNCHANGED <<restore, saved>> /\ Quiet

Display(p) ==
  /\ At(p, "display")
  /\ updateMemStoreKeyrings(p, mem, loc[p], Rest(p))
  /\ UNCHANGED <<restore, saved>> /\ Quiet

Show(p) ==
  /\ At(p, "show")
  /\ Advance(p, [mem EXCEPT !.shown = loc[p].list], loc[p], Rest(p))
  /\ UNCHANGED <<restore, saved>> /\ Quiet

\* The return of unlockKeyrings, and what its caller does with it.
Ready(p) ==
  LET m == markKeyringRuntimeReady(mem)
  IN  /\ At(p, "ready") /\ UNCHANGED saved /\ Quiet
      /\ IF loc[p].op = "submit" THEN setUnlocked(p, m, loc[p])
         ELSE Advance(p, m, loc[p], Rest(p)) /\ UNCHANGED restore

\* How a deferred restore settles.  Mutant: a superseded one never does.
settled_NotStale == {"done", "failed"}

settled == {"done", "stale", "failed"}

\* The await on a deferred restore, shared by everyone who joined it.
Join(p) ==
  LET st == restore[loc[p].rid].st
  IN  /\ At(p, "join") /\ st \in settled
      /\ IF st = "failed" THEN Throw(p, mem)
         ELSE Advance(p, mem, loc[p], Rest(p))
      /\ UNCHANGED <<restore, saved>> /\ Quiet

Serialize(p) ==
  /\ At(p, "serialize")
  /\ serializeForPersist(p, mem, loc[p], Rest(p))
  /\ UNCHANGED <<restore, saved>> /\ Quiet

Snapshot(p) ==
  /\ At(p, "snapshot")
  /\ Advance(p, mem, [loc[p] EXCEPT !.snp = Members(mem.keyrings)], Rest(p))
  /\ UNCHANGED <<restore, saved>> /\ Quiet

\* encrypt reads the password field again; null does not encrypt.
Encrypt(p) ==
  /\ At(p, "encrypt")
  /\ IF mem.password = NoPassword THEN Throw(p, mem)
     ELSE Advance(p, mem, [loc[p] EXCEPT !.key = mem.password],
                  <<"write">> \o Rest(p))
  /\ UNCHANGED <<restore, saved>> /\ Quiet

\* What persistAllKeyrings and persistPasswordAndAllKeyrings write.
Written(s, key, l) ==
  [s EXCEPT !.vault = [pw |-> key, krs |-> l.ser],
            !.unenc = Keep(l.ser, Public),
            !.snap = l.snp,
            !.hasEnc = hasEncryptedKeyrings(l.ser)]

Write(p) ==
  /\ At(p, "write")
  /\ store' = Written(store, loc[p].key, loc[p])
  /\ Advance(p, mem, loc[p], Rest(p))
  /\ UNCHANGED <<left, orphans, restore, bounds, saved>>

\* persistUnencryptedKeyrings, whose two updates an await separates.
WriteSnapshot(p) ==
  /\ At(p, "writeSnapshot")
  /\ store' = [store EXCEPT !.snap = (@ \ {loc[p].kr}) \cup loc[p].snp]
  /\ Advance(p, mem, loc[p], Rest(p))
  /\ UNCHANGED <<left, orphans, restore, bounds, saved>>

WriteUnencrypted(p) ==
  /\ At(p, "writeUnencrypted")
  /\ store' = [store EXCEPT !.unenc = Keep(loc[p].ser, Public)]
  /\ Advance(p, mem, loc[p], Rest(p))
  /\ UNCHANGED <<left, orphans, restore, bounds, saved>>

\* addKeyring after its first await.
AssertCanPersist(p) ==
  /\ At(p, "assert")
  /\ IF canPersistKeyringMutation(mem, loc[p].kr)
     THEN Advance(p, mem, loc[p], Rest(p)) ELSE Throw(p, mem)
  /\ UNCHANGED <<restore, saved>> /\ Quiet

compareAccounts(p, m, l, rest) ==
  IF m.keyrings[l.kr] > 0 THEN Throw(p, m) ELSE Advance(p, m, l, rest)

\* checkForDuplicate: the answer is used one await after the list was read.
CheckForDuplicate(p) ==
  /\ At(p, "duplicate") /\ UNCHANGED saved /\ Quiet
  /\ IF shouldWaitForType(mem, loc[p].kr)
     THEN ensureKeyringRuntimeReady(p, mem, loc[p], <<"compare">> \o Rest(p))
     ELSE compareAccounts(p, mem, loc[p], Rest(p)) /\ UNCHANGED restore

Compare(p) ==
  /\ At(p, "compare") /\ UNCHANGED <<restore, saved>> /\ Quiet
  /\ compareAccounts(p, mem, loc[p], Rest(p))

PushKeyring(p) ==
  /\ At(p, "push") /\ UNCHANGED saved /\ Quiet
  /\ persistKeyringsForKeyring(p, [mem EXCEPT !.keyrings = Push(@, loc[p].kr)],
                               loc[p], loc[p].kr, Rest(p))

\* addKeyring's promise resolves: the caller may tell the user it is saved.
Acknowledge(p) ==
  /\ At(p, "acknowledge") /\ UNCHANGED restore /\ Quiet
  /\ saved' = saved \cup {k \in Keyring : k = loc[p].kr}
  /\ Advance(p, mem, loc[p], Rest(p))

\* removeAccount once the keyring is found; the last account takes it along.
RemoveKeyring(p) ==
  LET k == loc[p].kr
  IN  /\ At(p, "remove") /\ Quiet
      /\ IF mem.keyrings[k] = 0 \/ ~canPersistKeyringMutation(mem, k)
         THEN Throw(p, mem) /\ UNCHANGED <<restore, saved>>
         ELSE /\ persistKeyringsForKeyring(p,
                   [mem EXCEPT !.keyrings = Drop(@, k)], loc[p], k, Rest(p))
              /\ saved' = saved \ {k}

\* persistPasswordAndAllKeyrings; no password is needed to serialise here.
Rekey(p) ==
  LET l == [loc[p] EXCEPT !.ser = mem.keyrings]
  IN  /\ At(p, "rekey") /\ UNCHANGED saved /\ Quiet
      /\ IF shouldWaitForKeyringRuntime(mem)
         THEN ensureKeyringRuntimeReady(p, mem, loc[p], <<"collect">> \o Rest(p))
         ELSE Advance(p, mem, l, Rest(p)) /\ UNCHANGED restore

Collect(p) ==
  /\ At(p, "collect") /\ UNCHANGED <<restore, saved>> /\ Quiet
  /\ Advance(p, mem, [loc[p] EXCEPT !.ser = mem.keyrings], Rest(p))

EncryptNew(p) ==
  /\ At(p, "encryptNew") /\ UNCHANGED <<restore, saved>> /\ Quiet
  /\ Advance(p, mem, loc[p], Rest(p))

WriteNew(p) ==
  /\ At(p, "writeNew")
  /\ store' = [Written(store, loc[p].npw, loc[p]) EXCEPT !.booted = loc[p].npw]
  /\ Advance(p, holdPassword(mem, loc[p].npw), loc[p], Rest(p))
  /\ saved' = IF loc[p].op = "wipe" THEN {} ELSE saved
  /\ UNCHANGED <<left, orphans, restore, bounds>>

\* updatePassword's last branch: defer holds wasUnlocked, flag whether the
\* vault was loaded.
Relock(p) ==
  LET l == loc[p]
  IN  /\ At(p, "relock") /\ UNCHANGED <<store, orphans, restore, bounds, saved>>
      /\ IF ~l.defer
         THEN /\ left' = [left EXCEPT ![p] = OrNothing(store.unenc)]
              /\ Advance(p, relockRuntime(mem), l,
                       <<"public", "display">> \o Rest(p))
         ELSE /\ UNCHANGED left
              /\ IF l.flag THEN updateMemStoreKeyrings(p, mem, l, Rest(p))
                 ELSE Advance(p, mem, l, Rest(p))

PersistAgain(p) ==
  /\ At(p, "persist") /\ UNCHANGED saved /\ Quiet
  /\ persistAllKeyrings(p, mem, loc[p], Rest(p))

EraseKeyrings(p) ==
  /\ At(p, "erase") /\ UNCHANGED saved /\ Quiet
  /\ persistAllKeyrings(p, [mem EXCEPT !.keyrings = Nothing], loc[p],
                        <<"eraseStore">>)

\* Mutant: the vault stays.
erased_KeepsVault(s) == [s EXCEPT !.booted = NoPassword]

erased(s) == [s EXCEPT !.vault = NoVault, !.booted = NoPassword]

EraseStore(p) ==
  /\ At(p, "eraseStore")
  /\ store' = erased(store)
  /\ Advance(p, [mem EXCEPT !.shown = Nothing], loc[p], Rest(p))
  /\ saved' = {}
  /\ UNCHANGED <<left, orphans, restore, bounds>>

\* The end of boot.
BootWritten(p) ==
  /\ At(p, "boot")
  /\ store' = [store EXCEPT !.booted = loc[p].pw]
  /\ Advance(p, [mem EXCEPT !.unlocked = TRUE, !.ready = TRUE,
                            !.restoring = FALSE, !.failed = FALSE],
             loc[p], Rest(p))
  /\ UNCHANGED <<left, orphans, restore, bounds, saved>>

LaunchChoice(p) ==
  /\ At(p, "launch") /\ UNCHANGED <<store, orphans, bounds, saved>>
  /\ IF store.booted = BuiltIn /\ ~mem.unlocked
     THEN submitPassword(p, BuiltIn, FALSE, FALSE) /\ UNCHANGED left
     ELSE /\ UNCHANGED restore
          /\ IF mem.unlocked \/ store.unenc = Absent
             THEN Advance(p, mem, loc[p], <<>>) /\ UNCHANGED left
             ELSE /\ left' = [left EXCEPT ![p] = store.unenc]
                  /\ Advance(p, [mem EXCEPT !.keyrings = Keep(@, Sensitive)],
                             loc[p], <<"public", "display">>)

-----------------------------------------------------------------------------
(* The deferred restore, a chain of its own.                               *)

Restores == DOMAIN restore

\* Once it has settled, nothing of a restore matters but how.
NothingOwed == [data |-> Nothing, pub |-> Nothing]
Settle(i, st) == [restore EXCEPT ![i].st = st, ![i].left = Nothing,
                                 ![i].next = Nothing, ![i].prev = Nothing,
                                 ![i].from = NothingOwed]
TaskOnly == UNCHANGED <<store, todo, loc, left, orphans, started, crashes, saved>>

\* _restoreKeyring with a restoreId: push on nextKeyrings, unless superseded.
DeferredKeyring(i) == \E k \in Keyring :
  /\ restore[i].left[k] > 0
  /\ restore' = [restore EXCEPT
       ![i].left = Drop(@, k),
       ![i].next = IF restore[i].id = mem.restoreId THEN Push(@, k) ELSE @]
  /\ UNCHANGED <<mem, failures>> /\ TaskOnly

\* Mutant: the public keyrings are forgotten.
DeferredSensitiveDone_NoPublic(i) ==
  /\ restore[i].st = "sensitive" /\ IsEmpty(restore[i].left)
  /\ restore' = [restore EXCEPT ![i].st = "public"]
  /\ UNCHANGED <<mem, failures>> /\ TaskOnly

DeferredSensitiveDone(i) ==
  /\ restore[i].st = "sensitive" /\ IsEmpty(restore[i].left)
  /\ restore' = [restore EXCEPT ![i].st = "public",
                                ![i].left = restore[i].from.pub]
  /\ UNCHANGED <<mem, failures>> /\ TaskOnly

DeferredPublicDone(i) ==
  /\ restore[i].st = "public" /\ IsEmpty(restore[i].left)
  /\ IF restore[i].id # mem.restoreId
     THEN restore' = Settle(i, "stale") /\ UNCHANGED mem
     ELSE /\ restore' = [restore EXCEPT ![i].st = "show"]
          /\ mem' = [mem EXCEPT !.keyrings = restore[i].next]
  /\ UNCHANGED failures /\ TaskOnly

\* _updateMemStoreKeyrings has built its list from nextKeyrings.
DeferredShown(i) ==
  /\ restore[i].st = "show"
  /\ restore' = [restore EXCEPT ![i].st = "mark"]
  /\ mem' = [mem EXCEPT !.shown = restore[i].next]
  /\ UNCHANGED failures /\ TaskOnly

\* No second look at the restore id before the runtime is declared ready.
DeferredReady(i) ==
  /\ restore[i].st = "mark"
  /\ restore' = Settle(i, "done")
  /\ mem' = markKeyringRuntimeReady(mem)
  /\ UNCHANGED failures /\ TaskOnly

\* The catch block of a restore that is still current puts back what was there
\* before, for the next attempt.
rollBack(m, r) ==
  [m EXCEPT !.keyrings = r.prev, !.pending = r.from, !.promise = 0,
            !.ready = FALSE, !.restoring = FALSE, !.failed = TRUE]

\* A deserialisation, or the display of the list, throws.
DeferredThrows(i) ==
  /\ failures < MaxFailures
  /\ \/ restore[i].st \in {"sensitive", "public"} /\ ~IsEmpty(restore[i].left)
     \/ restore[i].st = "show"
  /\ failures' = failures + 1
  /\ restore' = Settle(i, "failed")
  /\ mem' = IF restore[i].id # mem.restoreId THEN mem
            ELSE rollBack(mem, restore[i])
  /\ TaskOnly

\* The process is killed; the next launch reads the store from disk.
Crash ==
  /\ crashes < MaxCrashes
  /\ crashes' = crashes + 1
  /\ mem' = FreshMem
  /\ todo' = [p \in Proc |-> <<>>] /\ loc' = [p \in Proc |-> Idle]
  /\ left' = [p \in Proc |-> Nothing]
  /\ orphans' = Nothing /\ restore' = <<>>
  /\ UNCHANGED <<store, started, failures, saved>>

-----------------------------------------------------------------------------
EmptyStore == [booted |-> NoPassword, vault |-> NoVault, unenc |-> Absent,
               snap |-> {}, hasEnc |-> FALSE]

AsBag(K) == [k \in Keyring |-> IF k \in K THEN 1 ELSE 0]

\* A store as persistAllKeyrings leaves it for the keyrings K, and the store
\* of an older version, which kept the vault alone.
StoreOf(pw, K) ==
  [booted |-> pw, vault |-> [pw |-> pw, krs |-> AsBag(K)],
   unenc |-> AsBag(K \cap Public), snap |-> K,
   hasEnc |-> K \cap Sensitive # {}]

LegacyStoreOf(pw, K) ==
  [StoreOf(pw, K) EXCEPT !.unenc = Absent, !.snap = {}, !.hasEnc = FALSE]

Stores == {EmptyStore}
  \cup {StoreOf(pw, K) : pw \in Password, K \in Installed}
  \cup {LegacyStoreOf(pw, K) : pw \in Password, K \in Installed}

Init ==
  /\ store \in Stores
  /\ mem = FreshMem
  /\ todo = [p \in Proc |-> <<>>] /\ loc = [p \in Proc |-> Idle]
  /\ left = [p \in Proc |-> Nothing]
  /\ orphans = Nothing /\ restore = <<>>
  /\ started = [p \in Proc |-> 0] /\ failures = 0 /\ crashes = 0
  /\ saved = Recoverable(store)

Operation(p) ==
  \/ Launch(p) \/ SubmitPassword(p) \/ SetLocked(p)
  \/ AddKeyring(p) \/ RemoveAccount(p) \/ Refresh(p) \/ UpdatePassword(p)
  \/ Wipe(p) \/ Erase(p)

Stage(p) ==
  \/ Verify(p) \/ Reload(p) \/ Decrypt(p)
  \/ RestoreKeyring(p) \/ RestoreKeyringThrows(p)
  \/ SensitiveRestored(p) \/ PublicRestored(p)
  \/ Display(p) \/ Show(p) \/ Ready(p) \/ Join(p)
  \/ Serialize(p) \/ Snapshot(p) \/ Encrypt(p) \/ Write(p)
  \/ WriteSnapshot(p) \/ WriteUnencrypted(p)
  \/ AssertCanPersist(p) \/ CheckForDuplicate(p) \/ Compare(p)
  \/ PushKeyring(p) \/ Acknowledge(p) \/ RemoveKeyring(p)
  \/ Rekey(p) \/ Collect(p) \/ EncryptNew(p) \/ WriteNew(p) \/ Relock(p)
  \/ PersistAgain(p) \/ EraseKeyrings(p) \/ EraseStore(p) \/ BootWritten(p)
  \/ LaunchChoice(p)

Deferred(i) ==
  \/ DeferredKeyring(i) \/ DeferredSensitiveDone(i) \/ DeferredPublicDone(i)
  \/ DeferredShown(i) \/ DeferredReady(i) \/ DeferredThrows(i)

\* Nothing is under way: the only states where the service may stand still.
Quiescent ==
  /\ \A p \in Proc : todo[p] = <<>>
  /\ IsEmpty(orphans)
  /\ \A i \in Restores : restore[i].st \in {"done", "stale", "failed"}

Stand == Quiescent /\ UNCHANGED vars

Next ==
  \/ \E p \in Proc : Operation(p) \/ Stage(p)
  \/ \E i \in Restores : Deferred(i)
  \/ OrphanRestored
  \/ Crash
  \/ Stand

Spec == Init /\ [][Next]_vars

\* The event loop runs every continuation that is due and every native
\* deserialisation answers; nobody promises that a user starts an operation.
Fairness ==
  /\ \A p \in Proc : WF_vars(Stage(p))
  /\ \A i \in 1 .. MaxRestores : WF_vars(i \in Restores /\ Deferred(i))
  /\ WF_vars(OrphanRestored)

FairSpec == Spec /\ Fairness

-----------------------------------------------------------------------------
(* Types.                                                                  *)

OptPassword == Password \cup {NoPassword}

StageName == {"verify", "reload", "decrypt", "sensitive", "public", "display",
  "show", "ready", "join", "serialize", "snapshot", "encrypt", "write",
  "writeSnapshot", "writeUnencrypted", "assert", "duplicate", "compare",
  "push", "acknowledge", "remove", "rekey", "collect", "encryptNew",
  "writeNew", "relock", "persist", "erase", "eraseStore", "boot", "launch"}

OpName == {"none", "launch", "submit", "lock", "add", "remove", "changePw",
           "refresh", "wipe", "erase"}

Pending == [data : Bag, pub : Bag]

\* null and undefined are told apart from what they stand for the lack of.
ASSUME AbsenceAssumption ==
  NoVault \notin [pw : OptPassword, krs : Bag] /\ Absent \notin Bag \cup Pending

StoreType ==
  [booted : OptPassword,
   vault : {NoVault} \cup [pw : OptPassword, krs : Bag],
   unenc : {Absent} \cup Bag, snap : SUBSET Keyring, hasEnc : BOOLEAN]

MemType ==
  [password : OptPassword, unlocked : BOOLEAN, ready : BOOLEAN,
   restoring : BOOLEAN, failed : BOOLEAN, keyrings : Bag, shown : Bag,
   restoreId : Nat, pending : {Absent} \cup Pending, promise : Nat,
   submitting : BOOLEAN, launched : BOOLEAN]

LocType ==
  [op : OpName, pw : OptPassword, npw : OptPassword,
   kr : {Absent} \cup Keyring, key : OptPassword, ser : Bag, list : Bag,
   snp : SUBSET Keyring, rid : Nat, flag : BOOLEAN, defer : BOOLEAN]

RestoreType ==
  [id : Nat,
   st : {"sensitive", "public", "show", "mark", "done", "stale", "failed"},
   left : Bag, next : Bag, prev : Bag, from : Pending]

\* Every variable has its type.
TypeOK ==
  /\ store \in StoreType
  /\ mem \in MemType
  /\ todo \in [Proc -> Seq(StageName)]
  /\ loc \in [Proc -> LocType]
  /\ left \in [Proc -> Bag]
  /\ orphans \in Bag
  /\ restore \in Seq(RestoreType)
  /\ started \in [Proc -> Nat] /\ failures \in Nat /\ crashes \in Nat
  /\ saved \subseteq Keyring

-----------------------------------------------------------------------------
(* Safety.                                                                 *)

\* One caller runs the operations a user asks for; the others are the timer
\* that locks the wallet and the convergence that refreshes the list.
SingleUser(u) ==
  /\ u \in Proc /\ Screened
  /\ \A p \in Proc : "erase" \notin Ops[p]
  /\ \A p \in Proc \ {u} : Ops[p] \subseteq {"lock", "refresh"}

\* The password that `booted` accepts opens the vault: the two are encrypted
\* apart, by persistAllKeyrings with the password in memory and by
\* persistPasswordAndAllKeyrings and boot with the one they are given, and a
\* user whose vault and booted disagree can never unlock again.
VaultOpens ==
  store.booted # NoPassword /\ store.vault # NoVault
    => store.vault.pw = store.booted

\* A keyring whose addition was acknowledged, and which was not removed since,
\* comes back at the next unlock, whatever the user's later calls and the
\* refresh beside them write and wherever the process is killed.  One that is
\* not secret only as long as every deserialisation succeeded:
\* persistUnencryptedKeyrings writes what a locked session has in memory, and
\* a restore that failed left keyrings out of it.  It does not hold when the
\* wallet is locked during such a refresh (a superseded restore declares a
\* runtime ready that is not, and the next persist writes it), nor for an
\* addition that reaches the service without the wait of the screens, nor, of
\* secret keyrings, for a change of password after a restore that failed.
NothingLost ==
  {k \in saved : failures = 0 \/ k \in Sensitive} \subseteq Recoverable(store)

\* At rest a locked service holds no decrypted seed phrase or private key and
\* has forgotten the password (setLocked: "This method deallocates all
\* secrets"), as long as every deserialisation succeeded: an unlock that
\* throws leaves the password, and what it has pushed, until the next lock.
LockedHoldsNoSecrets ==
  Quiescent /\ ~mem.unlocked /\ failures = 0
    => /\ mem.password = NoPassword
       /\ Members(mem.keyrings) \cap Sensitive = {}

\* A service that declares its runtime ready has restored every keyring the
\* disk holds, so that the next persist overwrites none of them.
ReadyMeansComplete ==
  Quiescent /\ mem.unlocked /\ mem.ready
    => Members(mem.keyrings) = Recoverable(store)

\* The service implements the book of accounts: on disk the set of accounts
\* changes by the one account an operation adds or removes, a secret one only
\* while unlocked, and no unlock, lock, restore or change of password changes it.
Book == INSTANCE AccountBook WITH
  Account <- Keyring, Secret <- Sensitive, accounts <- Recoverable(store),
  password <- store.booted, open <- mem.unlocked

ImplementsBook == Book!Spec

-----------------------------------------------------------------------------
(* Liveness.                                                               *)

\* The submission lock is released on every path, thrown ones included: while
\* it is held every further submitPassword returns without unlocking.
SubmissionEnds == mem.submitting ~> ~mem.submitting

\* No operation waits for ever on a restore that was superseded, failed or
\* settled before it was joined.
OperationsEnd == \A p \in Proc : todo[p] # <<>> ~> todo[p] = <<>>

\* The restoring flag that screens wait on does not stay up.
RestoringEnds == mem.restoring ~> ~mem.restoring
=============================================================================
