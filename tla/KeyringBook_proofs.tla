------------------------- MODULE KeyringBook_proofs -------------------------
(***************************************************************************)
(* The keyring service implements the book of accounts, holds no secret     *)
(* while it is locked and at rest, is complete when it says it is ready,    *)
(* and loses nothing to a change of password: with one caller whose         *)
(* deserialisations all succeed, wherever the process is killed.            *)
(*                                                                         *)
(* What NothingIsLost bounds from below has to be exact here: a keyring     *)
(* more in memory than on disk is an account that the next persist writes,  *)
(* a keyring twice is one that a removal leaves behind.  So the invariant   *)
(* is an assertion per stage: what stands in memory, in the lists still to  *)
(* be deserialised and in the list to be written adds up to the accounts    *)
(* the disk can bring back (One, Two, Three), or, from the push or the      *)
(* removal to the write, to what the operation makes of them (Goal).  Place *)
(* holds the assertion of the stage that is next, Script says which stages  *)
(* may follow one another, Sticky what holds all along an operation, Waits  *)
(* what holds while a deferred restore is under way.                        *)
(***************************************************************************)
EXTENDS KeyringAccounts_proofs

-----------------------------------------------------------------------------
(* The invariant.                                                          *)

\* One user, alone, whose deserialisations succeed and who never wipes.
Alone(u) ==
  /\ Proc = {u} /\ Screened /\ MaxFailures = 0
  /\ Ops[u] \subseteq {"launch", "submit", "lock", "add", "remove", "changePw",
                         "refresh"}

\* The stages of a change of password after its unlock.
Rekeying == {"rekey", "collect", "snapshot", "encryptNew", "writeNew", "relock"}

\* A chain of operation op may contain the stage x (May lacks the change of
\* password, which NothingIsLost leaves out) ...
Runs(op, x) ==
  \/ May(op, x)
  \/ op = "changePw" /\ x \in {"verify", "reload", "join"} \cup Opening \cup Rekeying

\* ... and go on to y after x.
Then(op, x, y) ==
  \/ x = "boot" /\ y = "launch"
  \/ x \in {"launch", "acknowledge", "relock"} /\ y = "end"
  \/ x = "verify" /\ y = (IF op = "submit" THEN "end" ELSE "reload")
  \/ x = "reload" /\ y = "rekey"
  \/ x = "decrypt" /\ y = "sensitive"
  \/ x = "sensitive" /\ y = "public"
  \/ x = "public" /\ y = "display"
  \/ x = "public" /\ y = "ready" /\ op \in {"submit", "changePw"}
  \/ x \in Shows /\ op = "submit" /\ y = "ready"
  \/ x \in Shows /\ op = "add" /\ y = "acknowledge"
  \/ x \in Shows /\ op \notin {"submit", "add"} /\ y \in {"display", "end"}
  \/ x = "ready" /\ y = (IF op = "submit" THEN "end" ELSE "rekey")
  \/ x = "join" /\ op \in {"submit", "add", "remove"} /\ y = "serialize"
  \/ x = "join" /\ op = "add" /\ y \in {"assert", "compare"}
  \/ x = "join" /\ op = "remove" /\ y = "remove"
  \/ x = "join" /\ op = "refresh" /\ y \in {"display", "end"}
  \/ x = "join" /\ op = "changePw" /\ y = "collect"
  \/ x \in {"serialize", "rekey", "collect"} /\ y = "snapshot"
  \/ x = "snapshot" /\ op = "changePw" /\ y = "encryptNew"
  \/ x = "snapshot" /\ op \in {"submit", "add", "remove"} /\ y = "encrypt"
  \/ x = "snapshot" /\ op \in {"add", "remove"} /\ y = "writeSnapshot"
  \/ x \in {"encrypt", "write"} /\ y = (IF op = "submit" THEN "end" ELSE "display")
  \/ x = "writeSnapshot" /\ y = "writeUnencrypted"
  \/ x \in {"writeUnencrypted", "remove", "push"} /\ y = "display"
  \/ x = "assert" /\ y = "duplicate"
  \/ x \in {"duplicate", "compare"} /\ y = "push"
  \/ x = "encryptNew" /\ y = "writeNew"
  \/ x = "writeNew" /\ y = "relock"

\* The stage after the i-th.
After(s, i) == IF i = Len(s) THEN "end" ELSE s[i + 1]

\* A chain of operation op: only their snapshot stands before plain writes,
\* and a change of password goes on from its unlock, where one still waits.
Script(s, op) ==
  /\ \A i \in DOMAIN s : Runs(op, s[i]) /\ Then(op, s[i], After(s, i))
  /\ \A i, j \in DOMAIN s :
       i < j /\ s[j] \in Plain => s[i] \in {"snapshot", "writeSnapshot"}
  /\ \A i \in DOMAIN s \ {1} :
       op = "changePw" /\ s[i] = "public" => After(s, i) = "ready"

\* A list holds each keyring of K once and no other; two or three lists do so
\* together.
Once(n, k, K) == n = IF k \in K THEN 1 ELSE 0
One(b, K) == \A k \in Keyring : Once(b[k], k, K)
Two(a, b, K) == \A k \in Keyring : Once(a[k] + b[k], k, K)
Three(a, b, c, K) == \A k \in Keyring : Once(a[k] + b[k] + c[k], k, K)

\* What a locked session shows of the accounts K: the public ones, once
\* something has written the plain list.
Displayed(d, K) == IF d.unenc = Absent THEN {} ELSE K \cap Public

\* what the operation is about to make of the accounts
Goal(d, l) ==
  IF l.op = "add" THEN Recoverable(d) \cup {l.kr}
  ELSE IF l.op = "remove" THEN Recoverable(d) \ {l.kr} ELSE Recoverable(d)
\* From the push or the removal to the write, memory is ahead of the disk: the
\* accounts that a chain works towards are those of its operation from there on.
Edits(s) ==
  First(s) \in Saving \cup Plain \/ (First(s) = "join" /\ Second(s) = "serialize")
Aim(d, s, l) == IF Edits(s) THEN Goal(d, l) ELSE Recoverable(d)

\* The disk: no account is written twice, and the plain list holds public ones.
StoreIs(d) ==
  /\ d.vault # NoVault =>
       d.booted # NoPassword /\ \A k \in Keyring : d.vault.krs[k] <= 1
  /\ d.vault = NoVault => d.unenc = Absent
  /\ d.unenc = Absent => d.snap = {}
  /\ d.unenc # Absent =>
       \A k \in Keyring : d.unenc[k] <= 1 /\ (d.unenc[k] > 0 => k \in Public)

\* An unlocked session at rest over the accounts T: all of them in memory,
\* or the rest in the payload of the deferred restore.
Opened(d, m, T) ==
  /\ m.unlocked /\ m.promise = 0 /\ m.password # NoPassword
  /\ m.ready => One(m.keyrings, T)
  /\ ~m.ready /\ m.pending = Absent => d.vault = NoVault /\ One(m.keyrings, T)
  /\ ~m.ready /\ m.pending # Absent =>
       Three(m.keyrings, m.pending.data, m.pending.pub, T)
Shut(m) == ~m.unlocked /\ m.promise = 0 /\ m.pending = Absent
\* A locked session at rest: no password, and what a launch displays.
Closed(d, m, T) ==
  /\ Shut(m) /\ m.password = NoPassword
  /\ One(m.keyrings, IF m.launched THEN Displayed(d, T) ELSE {})
Session(d, m, T) == Opened(d, m, T) \/ Closed(d, m, T)

\* What holds from the first stage of an operation to its last.
Sticky(d, m, l) ==
  /\ m.launched /\ (m.submitting => l.op = "submit")
  /\ l.op \in {"submit", "changePw"} => d.booted # NoPassword /\ l.pw \in Password
  /\ l.op = "changePw" => l.npw \in Password
  /\ l.op \in {"add", "remove"} =>
       /\ l.kr \in Keyring /\ d.booted # NoPassword
       /\ m.unlocked \/ (l.kr \in Public /\ d.unenc # Absent)

\* The stages of an unlock after its verification, and what they have moved
\* from the vault to memory so far.
Unlocks(s, l) ==
  \/ First(s) \in {"decrypt", "sensitive", "ready"}
  \/ First(s) = "public" /\ (l.op = "submit" \/ Second(s) = "ready")
  \/ First(s) \in Shows /\ l.op = "submit"

Loading(d, s, m, l, lf) ==
  /\ m.promise = 0 /\ m.pending = Absent
  /\ l.op = "submit" => ~m.unlocked /\ m.password # NoPassword
  /\ l.op = "changePw" =>
       (m.unlocked <=> m.password # NoPassword) /\ (l.defer <=> m.unlocked)
  /\ First(s) = "decrypt" =>
       /\ One(m.keyrings, {}) /\ d.vault # NoVault
       /\ l.ser = d.vault.krs /\ l.key = l.pw
  /\ First(s) = "sensitive" => Three(m.keyrings, lf, l.list, Recoverable(d))
  /\ First(s) = "public" => Two(m.keyrings, lf, Recoverable(d))
  /\ First(s) \in Shows \cup {"ready"} => One(m.keyrings, Recoverable(d))

\* The first password, the end of a launch, the verification of a submission or
\* a change of password, and the reload before a change of password.
Booting(d, m, l) ==
  /\ Shut(m) /\ m.password # NoPassword /\ One(m.keyrings, {})
  /\ d.booted = NoPassword /\ l.pw = BuiltIn

Launching(d, m) ==
  \/ Opened(d, m, Recoverable(d))
  \/ Shut(m) /\ m.password = NoPassword /\ One(m.keyrings, {})

Verifying(d, m, l) ==
  /\ l.key = d.booted
  /\ l.op = "changePw" => Session(d, m, Recoverable(d))
  /\ l.op = "submit" =>
       /\ Shut(m) /\ m.password = NoPassword /\ l.flag = (d.vault # NoVault)
       /\ \/ One(m.keyrings, Displayed(d, Recoverable(d)))
          \/ l.key = l.pw /\ One(m.keyrings, {})

Reloading(d, m, l) ==
  /\ Session(d, m, Recoverable(d)) /\ l.pw = d.booted
  /\ l.defer <=> m.unlocked
  /\ l.flag \/ m.unlocked \/ d.vault = NoVault

\* A change of password after its unlock: it writes what memory holds, which is
\* everything, be it unlocked before or only for this.
Rekeys(d, s, m, l) ==
  LET T == Recoverable(d)
  IN  /\ l.defer <=> m.unlocked
      /\ m.unlocked => Opened(d, m, T)
      /\ ~m.unlocked => Shut(m) /\ One(m.keyrings, T)
      /\ ~m.unlocked /\ First(s) # "relock" => m.password = NoPassword
      /\ First(s) = "collect" => m.unlocked /\ m.ready
      /\ First(s) \in {"snapshot", "encryptNew", "writeNew"} =>
           One(l.ser, T) /\ (m.unlocked => m.ready)

\* A write of an operation other than the change of password: of all accounts
\* while unlocked, of the public ones while locked.
Saved(d, s, m, l) ==
  LET T == Goal(d, l)
  IN  /\ First(s) = "serialize" => Opened(d, m, T) /\ m.ready
      /\ Encrypts(s) => Opened(d, m, T) /\ m.ready /\ One(l.ser, T)
      /\ Rewrites(s) => Closed(d, m, T) /\ One(l.ser, T \cap Public)

\* The stages between which memory is as it is at rest.
Calm(s, l) ==
  \/ First(s) \in {"end", "assert", "duplicate", "compare", "push", "remove",
                   "acknowledge"}
  \/ First(s) \in Shows /\ l.op # "submit"

\* The assertion of the stage that is next.
Place(d, s, m, l, lf) ==
  /\ First(s) \notin {"sensitive", "public"} => One(lf, {})
  /\ First(s) = "boot" => Booting(d, m, l)
  /\ First(s) = "launch" => Launching(d, m)
  /\ First(s) = "verify" => Verifying(d, m, l)
  /\ First(s) = "reload" => Reloading(d, m, l)
  /\ Unlocks(s, l) => Loading(d, s, m, l, lf)
  /\ First(s) = "public" /\ ~Unlocks(s, l) =>
       /\ Shut(m) /\ m.password = NoPassword
       /\ Two(m.keyrings, lf, Displayed(d, Recoverable(d)))
  /\ l.op = "changePw" /\ First(s) \in Rekeying => Rekeys(d, s, m, l)
  /\ l.op # "changePw" => Saved(d, s, m, l)
  /\ Calm(s, l) => Session(d, m, Recoverable(d))
  /\ First(s) = "compare" => m.unlocked /\ m.ready
  /\ First(s) = "push" => l.kr \notin Recoverable(d)

\* A deferred restore that is under way, and a chain that waits for it.
Restoring(r, m, T) ==
  /\ r.id = m.restoreId /\ ~m.ready
  /\ r.st = "sensitive" => Three(r.next, r.left, r.from.pub, T)
  /\ r.st = "public" => Two(r.next, r.left, T)
  /\ r.st \in {"show", "mark"} => One(m.keyrings, T)

Joined(rs, d, m, l, T) ==
  /\ l.rid \in DOMAIN rs /\ m.unlocked /\ m.password # NoPassword
  /\ \A i \in DOMAIN rs : Unsettled(rs[i]) => i = l.rid
  /\ Unsettled(rs[l.rid]) => m.promise = l.rid /\ Restoring(rs[l.rid], m, T)
  /\ ~Unsettled(rs[l.rid]) =>
       rs[l.rid].st = "done" /\ m.ready /\ Opened(d, m, T)
  /\ l.op = "changePw" => l.defer

Waits(d, rs, s, m, l) ==
  IF First(s) = "join" THEN Joined(rs, d, m, l, Aim(d, s, l))
  ELSE m.promise = 0 /\ \A i \in DOMAIN rs : ~Unsettled(rs[i])

\* All of it about one chain; BookInv adds what it waits for.
Kept(d, s, m, l, lf) ==
  /\ StoreIs(d) /\ Script(s, l.op) /\ Place(d, s, m, l, lf)
  /\ IF s = <<>> THEN ~m.submitting ELSE Sticky(d, m, l)

BookInv(u) ==
  /\ IsEmpty(orphans) /\ Kept(store, todo[u], mem, loc[u], left[u])
  /\ Waits(store, restore, todo[u], mem, loc[u])
-----------------------------------------------------------------------------
(* Chains.                                                                 *)

\* The places of a chain without its first stage, and with one more.
LEMMA TailPlaces ==
  ASSUME NEW s \in Seq(StageName), s # <<>>
  PROVE  /\ Tail(s) \in Seq(StageName) /\ First(s) = s[1] /\ 1 \in DOMAIN s
         /\ First(Tail(s)) = After(s, 1) /\ Second(s) = First(Tail(s))
         /\ \A i \in DOMAIN Tail(s) :
              /\ i \in Nat /\ i + 1 \in DOMAIN s /\ i + 1 # 1
              /\ Tail(s)[i] = s[i + 1] /\ After(Tail(s), i) = After(s, i + 1)
<1>1. Len(s) \in Nat /\ Len(s) > 0 /\ DOMAIN s = 1 .. Len(s)
  OBVIOUS
<1>2. /\ Tail(s) \in Seq(StageName) /\ Len(Tail(s)) = Len(s) - 1
      /\ DOMAIN Tail(s) = 1 .. (Len(s) - 1)
      /\ \A i \in 1 .. (Len(s) - 1) : Tail(s)[i] = s[i + 1]
  OBVIOUS
<1>3. First(s) = s[1] /\ 1 \in DOMAIN s
  BY <1>1 DEF First
<1>4. First(Tail(s)) = After(s, 1)
  <2>1. CASE Len(s) = 1
    <3>1. Tail(s) = <<>>
      BY <1>2, <2>1
    <3> QED BY <2>1, <3>1 DEF First, After
  <2>2. CASE Len(s) # 1
    <3>1. Len(Tail(s)) > 0 /\ 1 \in 1 .. (Len(s) - 1)
      BY <1>1, <1>2, <2>2
    <3>2. Tail(s) # <<>>
      BY <1>2, <3>1, Filled
    <3>3. Head(Tail(s)) = Tail(s)[1]
      BY <1>2, <3>2
    <3> QED BY <1>2, <2>2, <3>1, <3>2, <3>3 DEF First, After
  <2> QED BY <2>1, <2>2
<1>5. ASSUME NEW i \in DOMAIN Tail(s)
      PROVE  /\ i \in Nat /\ i + 1 \in DOMAIN s /\ i + 1 # 1
             /\ Tail(s)[i] = s[i + 1] /\ After(Tail(s), i) = After(s, i + 1)
  <2>1. i \in 1 .. (Len(s) - 1) /\ (i = Len(Tail(s)) <=> i + 1 = Len(s))
    BY <1>1, <1>2
  <2>2. i # Len(Tail(s)) => i + 1 \in 1 .. (Len(s) - 1)
    BY <1>1, <1>2
  <2> QED BY <1>1, <1>2, <2>1, <2>2 DEF After
<1> QED BY <1>2, <1>3, <1>4, <1>5 DEF Second

LEMMA PrependPlaces ==
  ASSUME NEW x \in StageName, NEW s \in Seq(StageName)
  PROVE  LET t == <<x>> \o s
         IN  /\ t[1] = x /\ After(t, 1) = First(s)
             /\ \A i \in DOMAIN t : i # 1 =>
                  /\ i - 1 \in DOMAIN s /\ t[i] = s[i - 1]
                  /\ After(t, i) = After(s, i - 1) /\ i \in Nat
<1> DEFINE t == <<x>> \o s
<1>1. /\ Len(s) \in Nat /\ DOMAIN s = 1 .. Len(s)
      /\ t \in Seq(StageName) /\ Len(t) = Len(s) + 1
      /\ DOMAIN t = 1 .. (Len(s) + 1)
  OBVIOUS
<1>2. t[1] = x /\ \A i \in 1 .. Len(s) : t[i + 1] = s[i]
  OBVIOUS
<1>3. First(s) = IF Len(s) = 0 THEN "end" ELSE s[1]
  BY DEF First
<1> HIDE DEF t
<1>4. After(t, 1) = First(s)
  <2>1. CASE Len(s) = 0
    BY <1>1, <1>3, <2>1 DEF After
  <2>2. CASE Len(s) # 0
    <3>1. 1 \in 1 .. Len(s) /\ 1 # Len(t)
      BY <1>1, <2>2
    <3> QED BY <1>2, <1>3, <2>2, <3>1 DEF After
  <2> QED BY <2>1, <2>2
<1>5. ASSUME NEW i \in DOMAIN t, i # 1
      PROVE  /\ i - 1 \in DOMAIN s /\ t[i] = s[i - 1]
             /\ After(t, i) = After(s, i - 1) /\ i \in Nat
  <2>1. i - 1 \in 1 .. Len(s) /\ (i - 1) + 1 = i /\ i \in Nat
    BY <1>1, <1>5
  <2>2. t[i] = s[i - 1]
    BY <1>2, <2>1
  <2>3. i = Len(t) <=> i - 1 = Len(s)
    BY <1>1, <2>1
  <2>4. i # Len(t) => i \in 1 .. Len(s)
    BY <1>1
  <2> QED BY <1>1, <1>2, <2>1, <2>2, <2>3, <2>4 DEF After
<1> QED BY <1>2, <1>4, <1>5 DEF t

\* The first stage of a chain, and what follows it.
LEMMA ScriptTail ==
  ASSUME NEW s \in Seq(StageName), NEW op, Script(s, op), s # <<>>
  PROVE  /\ Second(s) = First(Tail(s))
         /\ Tail(s) \in Seq(StageName) /\ Script(Tail(s), op)
         /\ Runs(op, First(s)) /\ Then(op, First(s), First(Tail(s)))
         /\ First(s) \notin {"snapshot", "writeSnapshot"} =>
              \A i \in DOMAIN Tail(s) : Tail(s)[i] \notin Plain
         /\ op = "changePw" /\ First(Tail(s)) = "public" =>
              Second(Tail(s)) = "ready"
<1> DEFINE t == Tail(s)
<1>1. /\ t \in Seq(StageName) /\ First(s) = s[1] /\ 1 \in DOMAIN s
      /\ First(t) = After(s, 1) /\ Second(s) = First(t)
      /\ \A i \in DOMAIN t :
           /\ i \in Nat /\ i + 1 \in DOMAIN s /\ i + 1 # 1
           /\ t[i] = s[i + 1] /\ After(t, i) = After(s, i + 1)
  BY TailPlaces
<1> HIDE DEF t
<1>2. Runs(op, First(s)) /\ Then(op, First(s), First(t))
  BY <1>1 DEF Script
<1>3. ASSUME NEW i \in DOMAIN t, NEW j \in DOMAIN t, i < j, t[j] \in Plain
      PROVE  t[i] \in {"snapshot", "writeSnapshot"}
  <2>1. i + 1 < j + 1
    BY <1>1, <1>3
  <2> QED BY <1>1, <1>3, <2>1 DEF Script
<1>4. Script(t, op)
  BY <1>1, <1>3 DEF Script
<1>5. ASSUME First(s) \notin {"snapshot", "writeSnapshot"}, NEW i \in DOMAIN t
      PROVE  t[i] \notin Plain
  <2>1. i \in DOMAIN t /\ 1 < i + 1
    <3>1. i \in Nat /\ i + 1 # 1
      BY <1>1
    <3> QED BY <3>1
  <2> QED BY <1>1, <1>5, <2>1 DEF Script
<1>6. ASSUME op = "changePw", First(t) = "public"
      PROVE  Second(t) = "ready"
  <2>1. t # <<>>
    BY <1>6 DEF First
  <2>2. First(t) = t[1] /\ 1 \in DOMAIN t /\ Second(t) = After(t, 1)
    BY <1>1, <2>1, TailPlaces
  <2> QED BY <1>1, <1>6, <2>2 DEF Script
<1> QED BY <1>1, <1>2, <1>4, <1>5, <1>6 DEF t

\* A stage put in front of a chain.
LEMMA ScriptPrepend ==
  ASSUME NEW x \in StageName, NEW s \in Seq(StageName), NEW op, Script(s, op),
         Runs(op, x), Then(op, x, First(s)),
         \/ x \in {"snapshot", "writeSnapshot"}
         \/ \A i \in DOMAIN s : s[i] \notin Plain,
         op = "changePw" /\ First(s) = "public" => Second(s) = "ready"
  PROVE  Script(<<x>> \o s, op)
<1> DEFINE t == <<x>> \o s
<1>1. /\ t[1] = x /\ After(t, 1) = First(s)
      /\ \A i \in DOMAIN t : i # 1 =>
           /\ i - 1 \in DOMAIN s /\ t[i] = s[i - 1]
           /\ After(t, i) = After(s, i - 1) /\ i \in Nat
  BY PrependPlaces
<1>2. DOMAIN t = 1 .. (Len(s) + 1) /\ Len(s) \in Nat
  OBVIOUS
<1> HIDE DEF t
<1>3. \A i \in DOMAIN t : Runs(op, t[i]) /\ Then(op, t[i], After(t, i))
  BY <1>1 DEF Script
<1>4. ASSUME NEW i \in DOMAIN t, NEW j \in DOMAIN t, i < j, t[j] \in Plain
      PROVE  t[i] \in {"snapshot", "writeSnapshot"}
  <2>1. j # 1 /\ j - 1 \in DOMAIN s /\ t[j] = s[j - 1]
    <3>1. j # 1
      BY <1>2, <1>4
    <3> QED BY <1>1, <3>1
  <2>2. CASE i = 1
    BY <1>1, <1>4, <2>1, <2>2
  <2>3. CASE i # 1
    <3>1. i - 1 \in DOMAIN s /\ t[i] = s[i - 1] /\ i - 1 < j - 1
      BY <1>1, <1>2, <1>4, <2>3
    <3> QED BY <1>4, <2>1, <3>1 DEF Script
  <2> QED BY <2>2, <2>3
<1>5. ASSUME NEW i \in DOMAIN t \ {1}, op = "changePw", t[i] = "public"
      PROVE  After(t, i) = "ready"
  <2>1. i - 1 \in DOMAIN s /\ t[i] = s[i - 1] /\ After(t, i) = After(s, i - 1)
    BY <1>1
  <2>2. CASE i - 1 = 1
    <3>1. s # <<>>
      BY <2>1
    <3>2. First(s) = s[1] /\ Second(s) = After(s, 1)
      BY <3>1, TailPlaces
    <3> QED BY <1>5, <2>1, <2>2, <3>2
  <2>3. CASE i - 1 # 1
    BY <1>5, <2>1, <2>3 DEF Script
  <2> QED BY <2>2, <2>3
<1> QED BY <1>3, <1>4, <1>5 DEF Script, t

LEMMA ScriptEmpty == \A op : Script(<<>>, op)
BY DEF Script

-----------------------------------------------------------------------------
(* Lists that add up.                                                      *)

\* What the operations on a list do to each of its counts.
LEMMA Counts ==
  ASSUME NEW b \in Bag, NEW k, NEW x \in Keyring
  PROVE  /\ b[x] \in Nat /\ b[x] <= MaxCopies
         /\ MaxCopies \in Nat /\ MaxCopies > 0
         /\ Push(b, k)[x] = IF x = k /\ b[x] < MaxCopies THEN b[x] + 1 ELSE b[x]
         /\ Drop(b, k)[x] = IF x = k /\ b[x] > 0 THEN b[x] - 1 ELSE b[x]
         /\ \A S : Keep(b, S)[x] = IF x \in S THEN b[x] ELSE 0
         /\ Nothing[x] = 0 /\ (x \in Members(b) <=> b[x] > 0)
<1>1. b = [y \in Keyring |-> b[y]] /\ b[x] \in 0 .. MaxCopies
  BY DEF Bag
<1>2. b[x] \in Nat /\ b[x] <= MaxCopies /\ MaxCopies \in Nat /\ MaxCopies > 0
  BY <1>1, MaxCopiesType
<1>3. Push(b, k)[x] = IF x = k /\ b[x] < MaxCopies THEN b[x] + 1 ELSE b[x]
  BY <1>1 DEF Push
<1>4. Drop(b, k)[x] = IF x = k /\ b[x] > 0 THEN b[x] - 1 ELSE b[x]
  BY <1>1 DEF Drop
<1> QED BY <1>2, <1>3, <1>4 DEF Keep, Nothing, Members

LEMMA Count ==
  ASSUME NEW b \in Bag, NEW x \in Keyring
  PROVE  b[x] \in Nat
<1>1. b[x] \in 0 .. MaxCopies
  BY DEF Bag
<1> QED BY <1>1, MaxCopiesType

LEMMA OneFacts ==
  ASSUME NEW b \in Bag
  PROVE  /\ \A K \in SUBSET Keyring : One(b, K) => Members(b) = K
         /\ IsEmpty(b) <=> One(b, {})
         /\ One(Nothing, {}) /\ Nothing \in Bag
<1>1. \A x \in Keyring : b[x] \in Nat /\ (x \in Members(b) <=> b[x] > 0)
  BY Counts
<1>2. Members(b) \subseteq Keyring
  BY DEF Members
<1>3. \A K \in SUBSET Keyring : One(b, K) => Members(b) = K
  BY <1>1, <1>2 DEF One, Once
<1>4. IsEmpty(b) <=> One(b, {})
  BY <1>1, <1>2 DEF One, Once, IsEmpty
<1> QED BY <1>3, <1>4, NothingType DEF One, Once, Nothing

\* A keyring joins what is in memory.
LEMMA PushFacts ==
  ASSUME NEW b \in Bag, NEW c \in Bag, NEW e \in Bag, NEW k \in Keyring, NEW K,
         k \notin K
  PROVE  /\ One(b, K) => One(Push(b, k), K \cup {k})
         /\ Three(b, c, e, K) => Three(Push(b, k), c, e, K \cup {k})
<1>1. \A x \in Keyring :
        /\ b[x] \in Nat /\ c[x] \in Nat /\ e[x] \in Nat
        /\ MaxCopies \in Nat /\ MaxCopies > 0
        /\ Push(b, k)[x] = IF x = k /\ b[x] < MaxCopies THEN b[x] + 1 ELSE b[x]
  BY Counts
<1>2. One(b, K) => One(Push(b, k), K \cup {k})
  BY <1>1 DEF One, Once
<1>3. ASSUME Three(b, c, e, K), NEW x \in Keyring
      PROVE  Once(Push(b, k)[x] + c[x] + e[x], x, K \cup {k})
  <2>1. b[x] + c[x] + e[x] = IF x \in K THEN 1 ELSE 0
    BY <1>3 DEF Three, Once
  <2>2. CASE x = k
    BY <1>1, <2>1, <2>2 DEF Once
  <2>3. CASE x # k
    BY <1>1, <2>1, <2>3 DEF Once
  <2> QED BY <2>2, <2>3
<1> QED BY <1>2, <1>3 DEF Three

\* A keyring leaves it.
LEMMA DropFacts ==
  ASSUME NEW b \in Bag, NEW c \in Bag, NEW e \in Bag, NEW k \in Keyring, NEW K,
         b[k] > 0
  PROVE  /\ One(b, K) => One(Drop(b, k), K \ {k}) /\ k \in K
         /\ Three(b, c, e, K) => Three(Drop(b, k), c, e, K \ {k}) /\ k \in K
<1>1. \A x \in Keyring :
        /\ b[x] \in Nat /\ c[x] \in Nat /\ e[x] \in Nat
        /\ Drop(b, k)[x] = IF x = k /\ b[x] > 0 THEN b[x] - 1 ELSE b[x]
  BY Counts
<1>2. One(b, K) => One(Drop(b, k), K \ {k}) /\ k \in K
  BY <1>1 DEF One, Once
<1>3. Three(b, c, e, K) => Three(Drop(b, k), c, e, K \ {k}) /\ k \in K
  BY <1>1 DEF Three, Once
<1> QED BY <1>2, <1>3

\* A keyring is deserialised.
LEMMA MoveFacts ==
  ASSUME NEW a \in Bag, NEW b \in Bag, NEW c \in Bag, NEW k \in Keyring, NEW K,
         b[k] > 0
  PROVE  /\ Two(a, b, K) => Two(Push(a, k), Drop(b, k), K)
         /\ Three(a, b, c, K) => Three(Push(a, k), Drop(b, k), c, K)
<1>1. \A x \in Keyring :
        /\ a[x] \in Nat /\ b[x] \in Nat /\ c[x] \in Nat
        /\ MaxCopies \in Nat /\ MaxCopies > 0
        /\ Push(a, k)[x] = IF x = k /\ a[x] < MaxCopies THEN a[x] + 1 ELSE a[x]
        /\ Drop(b, k)[x] = IF x = k /\ b[x] > 0 THEN b[x] - 1 ELSE b[x]
  BY Counts
<1>2. Two(a, b, K) => Two(Push(a, k), Drop(b, k), K)
  BY <1>1 DEF Two, Once
<1>3. Three(a, b, c, K) => Three(Push(a, k), Drop(b, k), c, K)
  BY <1>1 DEF Three, Once
<1> QED BY <1>2, <1>3

\* A list is empty, or has been emptied.
LEMMA EmptyFacts ==
  ASSUME NEW a \in Bag, NEW b \in Bag, NEW c \in Bag, NEW K
  PROVE  /\ Two(a, b, K) /\ IsEmpty(b) => One(a, K)
         /\ Three(a, b, c, K) /\ IsEmpty(b) => Two(a, c, K)
         /\ One(a, {}) /\ Two(b, c, K) => Three(a, b, c, K)
         /\ One(a, {}) /\ One(b, K) => Two(a, b, K)
<1>1. \A x \in Keyring : a[x] \in Nat /\ b[x] \in Nat /\ c[x] \in Nat
  BY Counts
<1>2. IsEmpty(b) => \A x \in Keyring : b[x] = 0
  BY OneFacts DEF One, Once
<1>3. Two(a, b, K) /\ IsEmpty(b) => One(a, K)
  BY <1>1, <1>2 DEF Two, One, Once
<1>4. Three(a, b, c, K) /\ IsEmpty(b) => Two(a, c, K)
  BY <1>1, <1>2 DEF Two, Three, Once
<1>5. One(a, {}) /\ Two(b, c, K) => Three(a, b, c, K)
  BY <1>1 DEF One, Two, Three, Once
<1>6. One(a, {}) /\ One(b, K) => Two(a, b, K)
  BY <1>1 DEF One, Two, Once
<1> QED BY <1>3, <1>4, <1>5, <1>6

LEMMA KeepFacts ==
  ASSUME NEW b \in Bag, NEW K, NEW S
  PROVE  /\ One(b, K) => One(Keep(b, S), K \cap S)
         /\ Keep(b, S) \in Bag /\ Members(Keep(b, S)) = Members(b) \cap S
         /\ \A x \in Keyring : Keep(b, S)[x] <= b[x]
                                 /\ (Keep(b, S)[x] > 0 => x \in S)
<1>1. \A x \in Keyring :
        b[x] \in Nat /\ Keep(b, S)[x] = IF x \in S THEN b[x] ELSE 0
  BY Counts
<1>2. One(b, K) => One(Keep(b, S), K \cap S)
  BY <1>1 DEF One, Once
<1> QED BY <1>1, <1>2, BagOps, MembersOf

-----------------------------------------------------------------------------
(* The disk.                                                               *)

LEMMA RecoverableFacts ==
  ASSUME NEW d \in StoreType
  PROVE  /\ Recoverable(d) \subseteq Keyring
         /\ Displayed(d, Recoverable(d)) \subseteq Keyring
         /\ d.vault # NoVault => d.vault.krs \in Bag /\ d.vault.pw \in OptPassword
         /\ d.unenc # Absent => d.unenc \in Bag
         /\ d.vault = NoVault /\ StoreIs(d) =>
              Recoverable(d) = {} /\ Displayed(d, Recoverable(d)) = {}
<1>1. /\ d.vault # NoVault => d.vault.krs \in Bag /\ d.vault.pw \in OptPassword
      /\ d.unenc # Absent => d.unenc \in Bag
  BY DEF StoreType
<1>2. Recoverable(d) \subseteq Keyring
  BY DEF Recoverable, Members
<1> QED BY <1>1, <1>2 DEF Recoverable, Displayed, StoreIs

LEMMA Disjoint == Keyring = Sensitive \cup Public /\ Sensitive \cap Public = {}
BY KeyringServiceAssumption DEF KeyringServiceAssumption, Keyring

\* An unlock brings back from the vault and the store what the disk holds.
LEMMA UnlockFacts ==
  ASSUME NEW d \in StoreType, StoreIs(d), d.vault # NoVault
  PROVE  LET toRestore == IF d.unenc = Absent THEN d.vault.krs
                          ELSE Keep(d.vault.krs, Sensitive)
             pub == OrNothing(d.unenc)
         IN  /\ toRestore \in Bag /\ pub \in Bag
             /\ Two(toRestore, pub, Recoverable(d))
<1> DEFINE v == d.vault.krs
           toRestore == IF d.unenc = Absent THEN v ELSE Keep(v, Sensitive)
           pub == OrNothing(d.unenc)
<1>1. v \in Bag /\ \A x \in Keyring : v[x] <= 1
  BY RecoverableFacts DEF StoreIs
<1>2. \A x \in Keyring :
        /\ v[x] \in Nat /\ (x \in Members(v) <=> v[x] > 0)
        /\ Keep(v, Sensitive)[x] = IF x \in Sensitive THEN v[x] ELSE 0
  BY <1>1, Counts
<1> HIDE DEF v, toRestore, pub
<1>3. ASSUME d.unenc = Absent
      PROVE  toRestore \in Bag /\ pub \in Bag /\ Two(toRestore, pub, Recoverable(d))
  <2>1. Recoverable(d) = Members(v) /\ pub = Nothing /\ toRestore = v
    BY <1>3 DEF Recoverable, OrNothing, v, toRestore, pub
  <2>2. \A x \in Keyring : Nothing[x] = 0
    BY DEF Nothing
  <2> QED BY <1>1, <1>2, <2>1, <2>2, NothingType DEF Two, Once
<1>4. ASSUME d.unenc # Absent
      PROVE  toRestore \in Bag /\ pub \in Bag /\ Two(toRestore, pub, Recoverable(d))
  <2>1. pub = d.unenc /\ pub \in Bag /\ toRestore = Keep(v, Sensitive)
    BY <1>4, RecoverableFacts DEF OrNothing, toRestore, pub
  <2>2. Recoverable(d) = (Members(v) \cap Sensitive) \cup (Members(pub) \cap Public)
    BY <1>4, <2>1 DEF Recoverable, v
  <2>3. \A x \in Keyring :
          /\ pub[x] \in Nat /\ (x \in Members(pub) <=> pub[x] > 0)
          /\ pub[x] <= 1 /\ (pub[x] > 0 => x \in Public)
    BY <1>4, <2>1, Counts DEF StoreIs
  <2>4. Two(toRestore, pub, Recoverable(d))
    BY <1>1, <1>2, <2>1, <2>2, <2>3, Disjoint DEF Two, Once
  <2> QED BY <1>1, <2>1, <2>4, BagOps
<1> QED BY <1>3, <1>4 DEF v, toRestore, pub

\* What is not encrypted is what a locked session displays.
LEMMA UnencFacts ==
  ASSUME NEW d \in StoreType, StoreIs(d)
  PROVE  /\ OrNothing(d.unenc) \in Bag
         /\ One(OrNothing(d.unenc), Displayed(d, Recoverable(d)))
<1>1. CASE d.unenc = Absent
  BY <1>1, NothingType DEF OrNothing, Displayed, One, Once, Nothing
<1>2. CASE d.unenc # Absent
  <2>1. d.unenc \in Bag /\ OrNothing(d.unenc) = d.unenc
    BY <1>2, RecoverableFacts DEF OrNothing
  <2>2. \A x \in Keyring :
          /\ d.unenc[x] \in Nat /\ (x \in Members(d.unenc) <=> d.unenc[x] > 0)
          /\ d.unenc[x] <= 1 /\ (d.unenc[x] > 0 => x \in Public)
    BY <1>2, <2>1, Counts DEF StoreIs
  <2>3. Displayed(d, Recoverable(d)) = Members(d.unenc) \cap Public
    BY <1>2, Disjoint DEF Displayed, Recoverable
  <2> QED BY <2>1, <2>2, <2>3 DEF One, Once
<1> QED BY <1>1, <1>2

\* The store after persistAllKeyrings or persistPasswordAndAllKeyrings.
LEMMA WrittenFacts ==
  ASSUME NEW d \in StoreType, NEW key \in OptPassword, NEW pw \in OptPassword,
         NEW l \in LocType, NEW K \in SUBSET Keyring, One(l.ser, K)
  PROVE  LET e == Written(d, key, l)
             f == [e EXCEPT !.booted = pw]
         IN  /\ Recoverable(e) = K /\ e.vault # NoVault /\ e.unenc # Absent
             /\ e.booted = d.booted /\ (d.booted # NoPassword => StoreIs(e))
             /\ f.vault = e.vault /\ f.unenc = e.unenc /\ f.booted = pw
             /\ Recoverable(f) = K /\ (pw # NoPassword => StoreIs(f))
<1> DEFINE e == Written(d, key, l)
           f == [e EXCEPT !.booted = pw]
           v == [pw |-> key, krs |-> l.ser]
           b == Keep(l.ser, Public)
<1>1. l.ser \in Bag
  BY DEF LocType
<1>2. b \in Bag /\ Members(b) = Members(l.ser) \cap Public /\ Members(l.ser) = K
      /\ \A x \in Keyring : b[x] <= l.ser[x] /\ (b[x] > 0 => x \in Public)
  BY <1>1, KeepFacts, OneFacts
<1>3. v \in [pw : OptPassword, krs : Bag]
  BY <1>1
<1>4. v # NoVault /\ b # Absent
  BY <1>2, <1>3, AbsenceAssumption DEF AbsenceAssumption
<1>5. \A x \in Keyring : l.ser[x] \in Nat /\ l.ser[x] <= 1 /\ b[x] \in Nat
  BY <1>1, <1>2, Counts DEF One, Once
<1>6. v.krs = l.ser
  OBVIOUS
<1> HIDE DEF v, b
<1>7. e.vault = v /\ e.unenc = b /\ e.booted = d.booted
  BY DEF Written, StoreType, v, b
<1>8. f.vault = e.vault /\ f.unenc = e.unenc /\ f.booted = pw
  BY DEF Written, StoreType
<1> HIDE DEF e, f
<1>9. Recoverable(e) = K /\ Recoverable(f) = K
  BY <1>2, <1>4, <1>6, <1>7, <1>8, Disjoint DEF Recoverable
<1>10. \A x \in Keyring : b[x] <= 1
  BY <1>2, <1>5
<1>11. (d.booted # NoPassword => StoreIs(e)) /\ (pw # NoPassword => StoreIs(f))
  BY <1>2, <1>4, <1>5, <1>6, <1>7, <1>8, <1>10 DEF StoreIs
<1> QED BY <1>4, <1>7, <1>8, <1>9, <1>11 DEF e, f

-----------------------------------------------------------------------------
(* One step of the user's chain.                                           *)

Stands(u) ==
  /\ TypeOK /\ mem \in MemType /\ loc[u] \in LocType /\ store \in StoreType
  /\ left[u] \in Bag /\ todo[u] \in Seq(StageName)
  /\ restore \in Seq(RestoreType) /\ IsEmpty(orphans)
  /\ Kept(store, todo[u], mem, loc[u], left[u])
  /\ Waits(store, restore, todo[u], mem, loc[u])

LEMMA StandsFacts ==
  ASSUME NEW u \in Proc, TypeOK, BookInv(u)
  PROVE  Stands(u)
BY DEF TypeOK, BookInv, Stands

\* Where the chain stands, and what may come next.
LEMMA AtStage ==
  ASSUME NEW u \in Proc, Stands(u), NEW st, At(u, st)
  PROVE  /\ todo[u] # <<>> /\ First(todo[u]) = st
         /\ Second(todo[u]) = First(Rest(u)) /\ Rest(u) \in Seq(StageName)
         /\ Script(Rest(u), loc[u].op) /\ Runs(loc[u].op, st)
         /\ Then(loc[u].op, st, First(Rest(u)))
         /\ st \notin {"snapshot", "writeSnapshot"} =>
              \A i \in DOMAIN Rest(u) : Rest(u)[i] \notin Plain
         /\ loc[u].op = "changePw" /\ First(Rest(u)) = "public" =>
              Second(Rest(u)) = "ready"
         /\ StoreIs(store) /\ Sticky(store, mem, loc[u])
         /\ Place(store, todo[u], mem, loc[u], left[u])
         /\ st # "join" => Steady
<1>1. todo[u] # <<>> /\ First(todo[u]) = st
  BY DEF At, First
<1>2. /\ StoreIs(store) /\ Sticky(store, mem, loc[u]) /\ Script(todo[u], loc[u].op)
      /\ Place(store, todo[u], mem, loc[u], left[u]) /\ todo[u] \in Seq(StageName)
  BY <1>1 DEF Stands, Kept
<1>3. st # "join" => Steady
  BY <1>1 DEF Stands, Waits, Steady
<1> QED BY <1>1, <1>2, <1>3, ScriptTail DEF Rest

\* A chain moves on: what has to hold of the place where it arrives.
Arrives(u, m, l, s) ==
  /\ m \in MemType /\ l \in LocType /\ s \in Seq(StageName)
  /\ m.promise = 0 /\ First(s) # "join" /\ Script(s, l.op)
  /\ StoreIs(store') /\ Place(store', s, m, l, left'[u]) /\ IsEmpty(orphans')
  /\ IF s = <<>> THEN m.submitting => l.op = "submit" ELSE Sticky(store', m, l)

LEMMA Arrival ==
  ASSUME NEW u \in Proc, TypeOK, Steady, UNCHANGED restore,
         NEW m, NEW l, NEW s, Arrives(u, m, l, s), Advance(u, m, l, s)
  PROVE  BookInv(u)'
<1>1. todo'[u] = s /\ loc'[u] = IF s = <<>> THEN Idle ELSE l
  BY DEF Advance, TypeOK
<1>2. \A i \in DOMAIN restore' : ~Unsettled(restore'[i])
  BY DEF Steady
<1>3. CASE s # <<>>
  <2>1. mem' = m /\ loc'[u] = l
    BY <1>1, <1>3 DEF Advance
  <2>2. Waits(store', restore', s, m, l)
    BY <1>2 DEF Waits, Arrives
  <2> QED BY <1>1, <1>3, <2>1, <2>2 DEF BookInv, Kept, Arrives
<1>4. CASE s = <<>>
  <2>1. First(s) = "end" /\ Second(s) = "end"
    BY <1>4, FirstStages
  <2>2. /\ mem'.ready = m.ready /\ mem'.unlocked = m.unlocked
        /\ mem'.keyrings = m.keyrings /\ mem'.promise = m.promise
        /\ mem'.pending = m.pending /\ mem'.launched = m.launched
        /\ mem'.password = m.password /\ (mem'.submitting => m.submitting)
        /\ l.op = "submit" => ~mem'.submitting
    BY <1>4 DEF Advance, MemType, Arrives
  <2>3. ~mem'.submitting
    BY <1>4, <2>2 DEF Arrives
  <2>4. Session(store', m, Recoverable(store')) /\ One(left'[u], {})
    BY <2>1 DEF Arrives, Place, Calm
  <2>5. Session(store', mem', Recoverable(store'))
    BY <2>2, <2>4 DEF Session, Opened, Closed, Shut
  <2>6. Place(store', s, mem', Idle, left'[u])
    BY <2>1, <2>4, <2>5
       DEF Place, Unlocks, Shows, Saved, Encrypts, Rewrites, Plain, Rekeying
  <2>7. Waits(store', restore', s, mem', Idle)
    BY <1>2, <2>1, <2>2 DEF Waits, Arrives
  <2>8. Kept(store', s, mem', Idle, left'[u])
    BY <1>4, <2>3, <2>6, ScriptEmpty DEF Kept, Arrives
  <2> QED BY <1>1, <1>4, <2>7, <2>8 DEF BookInv, Arrives
<1> QED BY <1>3, <1>4

-----------------------------------------------------------------------------
(* Places.                                                                 *)

\* Between its stages of deserialising and of writing, a chain relies on the
\* session alone.
LEMMA CalmPlace ==
  ASSUME NEW d, NEW s, NEW m, NEW l, NEW lf, Calm(s, l),
         First(s) \notin {"compare", "push"},
         Session(d, m, Recoverable(d)), One(lf, {})
  PROVE  Place(d, s, m, l, lf) /\ First(s) # "join" /\ m.promise = 0
<1>1. \/ First(s) \in {"end", "assert", "duplicate", "remove", "acknowledge"}
      \/ First(s) \in {"display", "show"} /\ l.op # "submit"
  BY DEF Calm, Shows
<1>2. ~Unlocks(s, l) /\ First(s) # "join"
  BY <1>1 DEF Unlocks, Shows
<1>3. Saved(d, s, m, l)
  BY <1>1 DEF Saved, Encrypts, Rewrites, Plain
<1>4. m.promise = 0
  BY DEF Session, Opened, Closed, Shut
<1> QED BY <1>1, <1>2, <1>3, <1>4 DEF Place, Rekeying

\* A session that is ready is where any chain may go on that waited for it.
LEMMA ReadyPlace ==
  ASSUME NEW d, NEW s, NEW m, NEW l, NEW lf, Then(l.op, "join", First(s)),
         m.ready, Opened(d, m, Aim(d, <<"join">> \o s, l)), One(lf, {}),
         s \in Seq(StageName), l.op = "changePw" => l.defer
  PROVE  Place(d, s, m, l, lf) /\ First(s) # "join" /\ m.promise = 0
<1> DEFINE t == <<"join">> \o s
<1>1. First(t) = "join" /\ Second(t) = First(s)
  BY FirstPrepend DEF StageName
<1> HIDE DEF t
<1>2. Aim(d, t, l) = IF First(s) = "serialize" THEN Goal(d, l) ELSE Recoverable(d)
  BY <1>1 DEF Aim, Edits, Saving, Plain
<1>3. /\ First(s) \in {"serialize", "assert", "compare", "remove", "display",
                       "end", "collect"}
      /\ First(s) = "serialize" => l.op \in {"submit", "add", "remove"}
      /\ First(s) = "display" => l.op = "refresh"
      /\ First(s) = "collect" <=> l.op = "changePw"
  BY DEF Then, Shows
<1>4. m.promise = 0 /\ m.unlocked
  BY DEF Opened
<1>5. CASE First(s) = "serialize"
  <2>1. Opened(d, m, Goal(d, l))
    BY <1>2, <1>5 DEF t
  <2>2. Saved(d, s, m, l)
    BY <1>5, <2>1 DEF Saved, Encrypts, Rewrites, Plain
  <2> QED BY <1>3, <1>4, <1>5, <2>2 DEF Place, Unlocks, Calm, Shows
<1>6. CASE First(s) # "serialize"
  <2>1. Opened(d, m, Recoverable(d))
    BY <1>2, <1>6 DEF t
  <2>2. Session(d, m, Recoverable(d))
    BY <2>1 DEF Session
  <2>3. CASE First(s) = "collect"
    <3>1. Rekeys(d, s, m, l)
      BY <1>3, <1>4, <2>1, <2>3 DEF Rekeys
    <3> QED BY <1>3, <1>4, <2>3, <3>1 DEF Place, Unlocks, Calm, Shows
  <2>4. CASE First(s) # "collect"
    <3>1. Saved(d, s, m, l)
      BY <1>3, <1>6, <2>4 DEF Saved, Encrypts, Rewrites, Plain
    <3> QED
      BY <1>3, <1>4, <1>6, <2>2, <2>4, <3>1
         DEF Place, Unlocks, Calm, Shows, Rekeying
  <2> QED BY <2>3, <2>4
<1> QED BY <1>5, <1>6

\* What an unlock still has to do.
LEMMA LoadingPlace ==
  ASSUME NEW d, NEW s, NEW m, NEW l, NEW lf, Unlocks(s, l),
         Loading(d, s, m, l, lf),
         First(s) \notin {"sensitive", "public"} => One(lf, {})
  PROVE  Place(d, s, m, l, lf) /\ First(s) # "join" /\ m.promise = 0
<1>1. First(s) \in {"decrypt", "sensitive", "public", "display", "show", "ready"}
  BY DEF Unlocks, Shows
<1>2. ~Calm(s, l)
  BY <1>1 DEF Calm, Unlocks, Shows
<1>3. Saved(d, s, m, l)
  BY <1>1 DEF Saved, Encrypts, Rewrites, Plain
<1> QED BY <1>1, <1>2, <1>3 DEF Place, Rekeying, Loading

\* The chain ends, thrown to or reached.
LEMMA Ends ==
  ASSUME NEW u \in Proc, TypeOK, Steady, UNCHANGED restore,
         NEW m \in MemType, NEW l \in LocType, Advance(u, m, l, <<>>),
         StoreIs(store'), IsEmpty(orphans'), One(left'[u], {}),
         m.submitting => l.op = "submit", Session(store', m, Recoverable(store'))
  PROVE  BookInv(u)'
<1> DEFINE s == <<>>
<1>1. First(s) = "end" /\ s \in Seq(StageName) /\ Script(s, l.op)
  BY FirstStages, ScriptEmpty
<1>2. Calm(s, l)
  BY <1>1 DEF Calm
<1>3. s = <<>> /\ Advance(u, m, l, s)
  OBVIOUS
<1> HIDE DEF s
<1>4. Place(store', s, m, l, left'[u]) /\ m.promise = 0
  BY <1>1, <1>2, CalmPlace
<1>5. Arrives(u, m, l, s)
  BY <1>1, <1>3, <1>4 DEF Arrives
<1> QED BY <1>3, <1>5, Arrival

-----------------------------------------------------------------------------
(* ensureKeyringRuntimeReady, and what waits for it.                       *)

\* What a chain that waits needs of memory, store and what it goes on with.
MayJoin(u, m, l, s) ==
  /\ m \in MemType /\ l \in LocType /\ s \in Seq(StageName)
  /\ StoreIs(store') /\ Sticky(store', m, l)
  /\ One(left'[u], {}) /\ IsEmpty(orphans')
  /\ Script(s, l.op) /\ Runs(l.op, "join") /\ Then(l.op, "join", First(s))
  /\ \A i \in DOMAIN s : s[i] \notin Plain
  /\ l.op = "changePw" => l.defer
  /\ Opened(store', m, Aim(store', <<"join">> \o s, l))

LEMMA JoinNotPublic ==
  ASSUME NEW op, NEW y, Then(op, "join", y)
  PROVE  y \notin {"public", "join"}
BY DEF Then, Shows

\* The runtime is ready and the chain goes on.
LEMMA GoesOn ==
  ASSUME NEW u \in Proc, TypeOK, Steady, UNCHANGED restore, NEW m, NEW l, NEW s,
         MayJoin(u, m, l, s), m.ready, Advance(u, m, l, s)
  PROVE  BookInv(u)'
<1>1. Place(store', s, m, l, left'[u]) /\ First(s) # "join" /\ m.promise = 0
  BY ReadyPlace DEF MayJoin
<1>2. m.submitting => l.op = "submit"
  BY DEF MayJoin, Sticky
<1>3. Arrives(u, m, l, s)
  BY <1>1, <1>2 DEF Arrives, MayJoin
<1> QED BY <1>3, Arrival

\* A restore starts, and the chain waits for it.
LEMMA StartsWaiting ==
  ASSUME NEW u \in Proc, TypeOK, Steady, NEW m, NEW l, NEW s,
         MayJoin(u, m, l, s), ~m.ready, m.pending # Absent,
         startDeferredRestore(u, m, l, s)
  PROVE  BookInv(u)'
<1> DEFINE n == Len(restore) + 1
           m2 == [m EXCEPT !.restoreId = @ + 1, !.pending = Absent,
                           !.promise = n, !.ready = FALSE,
                           !.restoring = TRUE, !.failed = FALSE]
           l2 == [l EXCEPT !.rid = n]
           r == [id |-> m.restoreId + 1, st |-> "sensitive",
                 left |-> m.pending.data, next |-> m.keyrings,
                 prev |-> m.keyrings, from |-> m.pending]
           t == <<"join">> \o s
           T == Aim(store', t, l)
<1>1. restore' = Append(restore, r) /\ Advance(u, m2, l2, t)
  BY DEF startDeferredRestore
<1>2. restore \in Seq(RestoreType) /\ n \in Nat /\ n # 0
  BY DEF TypeOK
<1>3. /\ m2.restoreId = m.restoreId + 1 /\ m2.pending = Absent
      /\ m2.promise = n /\ ~m2.ready /\ m2.unlocked = m.unlocked
      /\ m2.launched = m.launched /\ m2.keyrings = m.keyrings
      /\ m2.password = m.password /\ m2.submitting = m.submitting
  BY DEF MayJoin, MemType
<1>4. /\ l2.op = l.op /\ l2.kr = l.kr /\ l2.rid = n /\ l2.pw = l.pw
      /\ l2.npw = l.npw /\ l2.defer = l.defer
  BY <1>2 DEF MayJoin, LocType
<1>5. /\ r.id = m.restoreId + 1 /\ r.st = "sensitive" /\ r.left = m.pending.data
      /\ r.next = m.keyrings /\ r.from = m.pending
  OBVIOUS
<1>6. /\ DOMAIN restore' = DOMAIN restore \cup {n} /\ restore'[n] = r
      /\ \A i \in DOMAIN restore : restore'[i] = restore[i]
      /\ n \notin DOMAIN restore
  <2> HIDE DEF r
  <2> QED BY <1>1, <1>2
<1>7. "join" \in StageName
  BY DEF StageName
<1>8. Script(t, l.op)
  BY <1>7, ScriptPrepend, JoinNotPublic DEF MayJoin
<1>9. t \in Seq(StageName) /\ First(t) = "join" /\ t # <<>>
  BY <1>7, FirstPrepend DEF MayJoin
<1>10. todo'[u] = t /\ loc'[u] = l2 /\ mem' = m2
  BY <1>1, <1>9 DEF Advance, TypeOK
<1> HIDE DEF m2, l2, r, n, t
<1>11. Opened(store', m, T)
  BY DEF MayJoin, t
<1>12. Aim(store', t, l2) = T
  BY <1>4 DEF Aim, Goal
<1> HIDE DEF T
<1>13. Unsettled(r) /\ Restoring(r, m2, T) /\ m2.unlocked /\ m2.password # NoPassword
  BY <1>3, <1>5, <1>11 DEF Unsettled, settled, Restoring, Opened
<1>14. Joined(restore', store', m2, l2, T)
  BY <1>2, <1>3, <1>4, <1>6, <1>13 DEF Joined, Steady, MayJoin
<1>15. Waits(store', restore', t, m2, l2)
  BY <1>9, <1>12, <1>14 DEF Waits
<1>16. Sticky(store', m2, l2)
  BY <1>3, <1>4 DEF Sticky, MayJoin
<1>17. Place(store', t, m2, l2, left'[u])
  BY <1>9 DEF Place, Unlocks, Calm, Shows, Saved, Encrypts, Rewrites, Plain,
              Rekeying, MayJoin
<1>18. Kept(store', t, m2, l2, left'[u])
  BY <1>4, <1>8, <1>9, <1>16, <1>17 DEF Kept, MayJoin
<1> QED BY <1>10, <1>15, <1>18 DEF BookInv, MayJoin

\* With no vault there is nothing to restore, and only a wait with nothing in
\* memory fails: the session is then what it was.
LEMMA NothingToRestore ==
  ASSUME NEW u \in Proc, NEW m, NEW l, NEW s, MayJoin(u, m, l, s),
         store' \in StoreType, ~m.ready, m.pending = Absent, IsEmpty(m.keyrings)
  PROVE  Session(store', m, Recoverable(store'))
<1> DEFINE T == Aim(store', <<"join">> \o s, l)
<1>1. Opened(store', m, T) /\ m.keyrings \in Bag
  BY DEF MayJoin, MemType
<1> HIDE DEF T
<1>2. One(m.keyrings, {}) /\ store'.vault = NoVault
  BY <1>1, OneFacts DEF Opened
<1>3. Recoverable(store') = {}
  BY <1>2, RecoverableFacts DEF MayJoin
<1> QED BY <1>1, <1>2, <1>3 DEF Session, Opened

LEMMA EnsureArrives ==
  ASSUME NEW u \in Proc, TypeOK, TypeOK', Steady, NEW m, NEW l, NEW s,
         MayJoin(u, m, l, s), loc[u] \in LocType,
         m.submitting => loc[u].op = "submit",
         ensureKeyringRuntimeReady(u, m, l, s)
  PROVE  BookInv(u)'
<1>1. m.unlocked /\ m.promise = 0 /\ m \in MemType /\ store' \in StoreType
  BY DEF MayJoin, Opened, TypeOK
<1>2. CASE m.ready
  <2>1. Advance(u, m, l, s) /\ UNCHANGED restore
    BY <1>1, <1>2 DEF ensureKeyringRuntimeReady
  <2> QED BY <1>2, <2>1, GoesOn
<1>3. CASE ~m.ready /\ m.pending # Absent
  <2>1. startDeferredRestore(u, m, l, s)
    BY <1>1, <1>3 DEF ensureKeyringRuntimeReady
  <2> QED BY <1>3, <2>1, StartsWaiting
<1>4. CASE ~m.ready /\ m.pending = Absent
  <2> DEFINE n == markKeyringRuntimeReady(m)
             T == Aim(store', <<"join">> \o s, l)
  <2>1. startDeferredRestore(u, m, l, s)
    BY <1>1, <1>4 DEF ensureKeyringRuntimeReady
  <2>2. /\ UNCHANGED restore
        /\ \/ Advance(u, n, l, s)
           \/ IsEmpty(m.keyrings) /\ Advance(u, m, loc[u], <<>>)
    BY <1>4, <2>1 DEF startDeferredRestore, Throw
  <2>3. /\ n \in MemType /\ n.ready /\ n.unlocked = m.unlocked
        /\ n.keyrings = m.keyrings /\ n.promise = 0 /\ n.launched = m.launched
        /\ n.password = m.password /\ n.submitting = m.submitting
    <3>1. n \in MemType
      BY <1>1, MemOps DEF OptPassword
    <3> QED BY <1>1, <3>1 DEF markKeyringRuntimeReady, MemType
  <2> HIDE DEF n, T
  <2>4. Opened(store', n, T)
    BY <1>4, <2>3 DEF Opened, MayJoin, T
  <2>5. MayJoin(u, n, l, s)
    BY <2>3, <2>4 DEF MayJoin, Sticky, T
  <2>6. CASE Advance(u, n, l, s)
    BY <2>2, <2>3, <2>5, <2>6, GoesOn
  <2>7. CASE IsEmpty(m.keyrings) /\ Advance(u, m, loc[u], <<>>)
    <3>1. Session(store', m, Recoverable(store'))
      BY <1>1, <1>4, <2>7, NothingToRestore
    <3> QED BY <1>1, <2>2, <2>7, <3>1, Ends DEF MayJoin
  <2> QED BY <2>2, <2>6, <2>7
<1> QED BY <1>2, <1>3, <1>4

-----------------------------------------------------------------------------
(* Persists.                                                               *)

\* What a persist needs of memory, store and chain, s what follows it.
WillPersist(u, m, l, s) ==
  /\ m \in MemType /\ l \in LocType /\ s \in Seq(StageName)
  /\ StoreIs(store') /\ Sticky(store', m, l)
  /\ One(left'[u], {}) /\ IsEmpty(orphans')
  /\ l.op \in {"submit", "add", "remove"} /\ Script(s, l.op)
  /\ Then(l.op, "encrypt", First(s)) /\ \A i \in DOMAIN s : s[i] \notin Plain

LEMMA EncryptNotPublic ==
  ASSUME NEW op, NEW y, Then(op, "encrypt", y)
  PROVE  y \notin {"public", "join"}
BY DEF Then, Shows

\* A stage that is no plain write, put in front of such stages.
LEMMA PrependStage ==
  ASSUME NEW x \in StageName, NEW s \in Seq(StageName), NEW op, Script(s, op),
         Runs(op, x), Then(op, x, First(s)), First(s) # "public",
         \A i \in DOMAIN s : s[i] \notin Plain, x \notin Plain
  PROVE  /\ <<x>> \o s \in Seq(StageName) /\ <<x>> \o s # <<>>
         /\ First(<<x>> \o s) = x /\ Second(<<x>> \o s) = First(s)
         /\ Script(<<x>> \o s, op)
         /\ \A i \in DOMAIN (<<x>> \o s) : (<<x>> \o s)[i] \notin Plain
<1>1. \A i \in DOMAIN (<<x>> \o s) : (<<x>> \o s)[i] \in {x} \cup StagesOf(s)
  BY FirstPrepend
<1>2. \A y \in StagesOf(s) : y \notin Plain
  BY DEF StagesOf
<1> QED BY <1>1, <1>2, FirstPrepend, ScriptPrepend

LEMMA PersistAllArrives ==
  ASSUME NEW u \in Proc, TypeOK, TypeOK', Steady, NEW m, NEW l, NEW s,
         WillPersist(u, m, l, s), Opened(store', m, Goal(store', l)),
         loc[u] \in LocType, m.submitting => loc[u].op = "submit",
         persistAllKeyrings(u, m, l, s)
  PROVE  BookInv(u)'
<1> DEFINE w == <<"snapshot", "encrypt">> \o s
           e == <<"encrypt">> \o s
           t == <<"serialize">> \o w
           n == [l EXCEPT !.ser = m.keyrings]
<1>1. /\ "serialize" \in StageName /\ "snapshot" \in StageName
      /\ "encrypt" \in StageName /\ "join" \in StageName
  BY DEF StageName
<1>2. /\ \A x \in {"join", "serialize", "snapshot", "encrypt"} : Runs(l.op, x)
      /\ Then(l.op, "join", "serialize") /\ Then(l.op, "serialize", "snapshot")
      /\ Then(l.op, "snapshot", "encrypt") /\ l.op # "changePw"
  BY DEF WillPersist, Runs, May, Then, Saving
<1>3. "serialize" \notin Plain /\ "snapshot" \notin Plain /\ "encrypt" \notin Plain
  BY DEF Plain
<1>4. /\ e \in Seq(StageName) /\ First(e) = "encrypt" /\ Script(e, l.op)
      /\ \A i \in DOMAIN e : e[i] \notin Plain
  BY <1>1, <1>2, <1>3, PrependStage, EncryptNotPublic DEF WillPersist
<1>5. w = <<"snapshot">> \o e
  BY <1>1, Regroup DEF WillPersist
<1> HIDE DEF e, w
<1>6. /\ w \in Seq(StageName) /\ w # <<>> /\ First(w) = "snapshot"
      /\ Second(w) = "encrypt" /\ Script(w, l.op)
      /\ \A i \in DOMAIN w : w[i] \notin Plain
  BY <1>1, <1>2, <1>3, <1>4, <1>5, PrependStage
<1>7. /\ t \in Seq(StageName) /\ First(t) = "serialize" /\ Script(t, l.op)
      /\ \A i \in DOMAIN t : t[i] \notin Plain
  BY <1>1, <1>2, <1>3, <1>6, PrependStage
<1> HIDE DEF t
<1>8. m.unlocked /\ m.password # NoPassword /\ m.promise = 0
  BY DEF Opened
<1>9. CASE ~m.ready
  <2>1. ensureKeyringRuntimeReady(u, m, l, t)
    BY <1>8, <1>9 DEF persistAllKeyrings, shouldWaitForKeyringRuntime, t, w
  <2>2. Aim(store', <<"join">> \o t, l) = Goal(store', l)
    <3>1. First(<<"join">> \o t) = "join" /\ Second(<<"join">> \o t) = "serialize"
      BY <1>1, <1>7, FirstPrepend
    <3> QED BY <3>1 DEF Aim, Edits
  <2>3. MayJoin(u, m, l, t)
    BY <1>2, <1>7, <2>2 DEF MayJoin, WillPersist
  <2> QED BY <2>1, <2>3, EnsureArrives
<1>10. CASE m.ready
  <2>1. Advance(u, m, n, w) /\ UNCHANGED restore
    BY <1>8, <1>10
       DEF persistAllKeyrings, shouldWaitForKeyringRuntime, serializeForPersist, w
  <2>2. /\ n \in LocType /\ n.op = l.op /\ n.kr = l.kr /\ n.pw = l.pw
        /\ n.npw = l.npw /\ n.ser = m.keyrings
    BY DEF WillPersist, LocType, MemType
  <2> HIDE DEF n
  <2>3. Goal(store', n) = Goal(store', l)
    BY <2>2 DEF Goal
  <2>4. Saved(store', w, m, n)
    BY <1>6, <1>10, <2>2, <2>3
       DEF Saved, Encrypts, Rewrites, Plain, Opened
  <2>5. Place(store', w, m, n, left'[u])
    BY <1>2, <1>6, <2>2, <2>4
       DEF Place, Unlocks, Calm, Shows, WillPersist
  <2>6. Sticky(store', m, n)
    BY <2>2 DEF Sticky, WillPersist
  <2>7. Arrives(u, m, n, w)
    BY <1>6, <1>8, <2>2, <2>5, <2>6 DEF Arrives, WillPersist
  <2> QED BY <2>1, <2>7, Arrival
<1> QED BY <1>9, <1>10

\* persistUnencryptedKeyrings, of a locked session.
LEMMA RewriteArrives ==
  ASSUME NEW u \in Proc, TypeOK, Steady, UNCHANGED restore, NEW m, NEW l, NEW s,
         WillPersist(u, m, l, s), Closed(store', m, Goal(store', l)),
         l.op # "submit",
         Advance(u, m, [l EXCEPT !.ser = m.keyrings],
                 <<"snapshot", "writeSnapshot", "writeUnencrypted">> \o s)
  PROVE  BookInv(u)'
<1> DEFINE n == [l EXCEPT !.ser = m.keyrings]
           a == <<"writeUnencrypted">> \o s
           b == <<"writeSnapshot">> \o a
           w == <<"snapshot", "writeSnapshot", "writeUnencrypted">> \o s
<1>1. /\ "snapshot" \in StageName /\ "writeSnapshot" \in StageName
      /\ "writeUnencrypted" \in StageName
  BY DEF StageName
<1>2. /\ l.op \in {"add", "remove"} /\ First(s) = "display"
      /\ \A x \in {"snapshot", "writeSnapshot", "writeUnencrypted"} : Runs(l.op, x)
      /\ Then(l.op, "snapshot", "writeSnapshot")
      /\ Then(l.op, "writeSnapshot", "writeUnencrypted")
      /\ Then(l.op, "writeUnencrypted", "display")
  BY DEF WillPersist, Runs, May, Then, Saving, Plain, Shows
<1>3. w = <<"snapshot">> \o b
  BY <1>1, Regroup DEF WillPersist
<1>4. a \in Seq(StageName) /\ First(a) = "writeUnencrypted" /\ Script(a, l.op)
  BY <1>1, <1>2, FirstPrepend, ScriptPrepend DEF WillPersist
<1> HIDE DEF a
<1>5. b \in Seq(StageName) /\ First(b) = "writeSnapshot" /\ Script(b, l.op)
  BY <1>1, <1>2, <1>4, FirstPrepend, ScriptPrepend
<1> HIDE DEF b
<1>6. Advance(u, m, n, w)
  OBVIOUS
<1> HIDE DEF w
<1>7. /\ w \in Seq(StageName) /\ w # <<>> /\ First(w) = "snapshot"
      /\ Second(w) = "writeSnapshot" /\ Script(w, l.op)
  BY <1>1, <1>2, <1>3, <1>5, FirstPrepend, ScriptPrepend
<1>8. /\ n \in LocType /\ n.op = l.op /\ n.kr = l.kr /\ n.pw = l.pw
      /\ n.npw = l.npw /\ n.ser = m.keyrings
  BY DEF WillPersist, LocType, MemType
<1> HIDE DEF n
<1>9. Goal(store', n) = Goal(store', l) /\ Sticky(store', m, n)
  BY <1>8 DEF Goal, Sticky, WillPersist
<1>10. ~m.unlocked /\ m.launched /\ store'.unenc # Absent /\ m.promise = 0
  BY <1>2 DEF Closed, Shut, WillPersist, Sticky
<1>11. One(n.ser, Goal(store', n) \cap Public)
  BY <1>8, <1>9, <1>10 DEF Closed, Displayed
<1>12. Saved(store', w, m, n)
  BY <1>7, <1>9, <1>11 DEF Saved, Encrypts, Rewrites, Plain
<1>13. Place(store', w, m, n, left'[u])
  BY <1>2, <1>7, <1>8, <1>12 DEF Place, Unlocks, Calm, Shows, WillPersist
<1>14. Arrives(u, m, n, w)
  BY <1>7, <1>8, <1>9, <1>10, <1>13 DEF Arrives, WillPersist
<1> QED BY <1>6, <1>14, Arrival

\* persistKeyringsForKeyring of the keyring an operation adds or removes.
LEMMA PersistArrives ==
  ASSUME NEW u \in Proc, TypeOK, TypeOK', Steady, NEW m, NEW l, NEW s,
         WillPersist(u, m, l, s), Session(store', m, Goal(store', l)),
         l.op \in {"add", "remove"},
         loc[u] \in LocType, m.submitting => loc[u].op = "submit",
         persistKeyringsForKeyring(u, m, l, l.kr, s)
  PROVE  BookInv(u)'
<1>1. l.kr \in Sensitive => m.unlocked
  BY Disjoint DEF WillPersist, Sticky
<1>2. CASE m.unlocked
  <2>1. Opened(store', m, Goal(store', l))
    BY <1>2 DEF Session, Closed, Shut
  <2>2. persistAllKeyrings(u, m, l, s)
    BY <1>2 DEF persistKeyringsForKeyring
  <2> QED BY <2>1, <2>2, PersistAllArrives
<1>3. CASE ~m.unlocked
  <2>1. Closed(store', m, Goal(store', l))
    BY <1>3 DEF Session, Opened
  <2>2. /\ UNCHANGED restore
        /\ Advance(u, m, [l EXCEPT !.ser = m.keyrings],
             <<"snapshot", "writeSnapshot", "writeUnencrypted">> \o s)
    BY <1>1, <1>3 DEF persistKeyringsForKeyring
  <2> QED BY <2>1, <2>2, RewriteArrives
<1> QED BY <1>2, <1>3

-----------------------------------------------------------------------------
(* Unlocks.                                                                *)

\* The end of submitPassword.
LEMMA SetUnlockedArrives ==
  ASSUME NEW u \in Proc, TypeOK, TypeOK', Steady, UNCHANGED store,
         NEW m \in MemType, NEW l \in LocType, l.op = "submit",
         StoreIs(store), Sticky(store, m, l),
         One(left'[u], {}), IsEmpty(orphans'),
         Opened(store, [m EXCEPT !.unlocked = TRUE], Recoverable(store)),
         loc[u] \in LocType, m.submitting => loc[u].op = "submit" \/ IsEmpty(m.keyrings),
         setUnlocked(u, m, l)
  PROVE  BookInv(u)'
<1> DEFINE o == [m EXCEPT !.unlocked = TRUE]
           s == <<>>
<1>1. /\ o \in MemType /\ o.launched = m.launched /\ o.submitting = m.submitting
      /\ o.keyrings = m.keyrings /\ o.unlocked
  BY DEF MemType
<1>2. Opened(store, o, Recoverable(store))
  OBVIOUS
<1>3. \/ ~IsEmpty(m.keyrings) /\ persistAllKeyrings(u, o, l, s)
      \/ Advance(u, o, l, s) /\ UNCHANGED restore
  BY DEF setUnlocked
<1>4. First(s) = "end" /\ s \in Seq(StageName) /\ Script(s, l.op)
      /\ \A i \in DOMAIN s : s[i] \notin Plain
  BY FirstStages, ScriptEmpty
<1> HIDE DEF o
<1>5. Sticky(store, o, l)
  BY <1>1 DEF Sticky
<1>6. CASE ~IsEmpty(m.keyrings) /\ persistAllKeyrings(u, o, l, s)
  <2>1. WillPersist(u, o, l, s)
    BY <1>1, <1>4, <1>5 DEF WillPersist, Then
  <2>2. Goal(store', l) = Recoverable(store)
    BY DEF Goal
  <2> HIDE DEF s
  <2>3. Opened(store', o, Goal(store', l))
    BY <1>2, <2>2
  <2> QED BY <1>1, <1>6, <2>1, <2>3, PersistAllArrives
<1>7. CASE Advance(u, o, l, s) /\ UNCHANGED restore
  <2>1. Session(store', o, Recoverable(store'))
    BY <1>2 DEF Session
  <2> QED BY <1>1, <1>5, <1>7, <2>1, Ends DEF Sticky
<1> QED BY <1>3, <1>6, <1>7


\* A chain of one stage.
LEMMA OneScript ==
  ASSUME NEW x \in StageName, NEW op, Runs(op, x), Then(op, x, "end"),
         x \notin Plain
  PROVE  /\ <<x>> \in Seq(StageName) /\ First(<<x>>) = x /\ Script(<<x>>, op)
         /\ \A i \in DOMAIN <<x>> : <<x>>[i] \notin Plain
<1> DEFINE e == <<>>
           t == <<x>> \o e
<1>1. e \in Seq(StageName) /\ <<x>> = t
  OBVIOUS
<1>2. First(e) = "end" /\ Script(e, op) /\ \A i \in DOMAIN e : e[i] \notin Plain
  BY FirstStages, ScriptEmpty
<1> HIDE DEF e
<1>3. /\ t \in Seq(StageName) /\ First(t) = x /\ Script(t, op)
      /\ \A i \in DOMAIN t : t[i] \notin Plain
  BY <1>1, <1>2, PrependStage
<1> HIDE DEF t
<1> QED BY <1>1, <1>3, Zenon

\* The chain of unlockKeyrings, s what follows it.
LEMMA OpeningScript ==
  ASSUME NEW s \in Seq(StageName), NEW op \in {"submit", "changePw"}, Script(s, op),
         \A i \in DOMAIN s : s[i] \notin Plain, First(s) # "public",
         Then(op, "public", First(s)), op = "changePw" => First(s) = "ready"
  PROVE  LET w == <<"decrypt", "sensitive", "public">> \o s
         IN  w \in Seq(StageName) /\ First(w) = "decrypt" /\ Script(w, op) /\ w # <<>>
<1> DEFINE w == <<"decrypt", "sensitive", "public">> \o s
           c == <<"public">> \o s
           b == <<"sensitive">> \o c
<1>1. /\ "decrypt" \in StageName /\ "sensitive" \in StageName
      /\ "public" \in StageName
  BY DEF StageName
<1>2. /\ \A x \in {"decrypt", "sensitive", "public"} : Runs(op, x) /\ x \notin Plain
      /\ Then(op, "decrypt", "sensitive") /\ Then(op, "sensitive", "public")
  BY DEF Runs, May, Opening, Plain, Then
<1>3. w = <<"decrypt">> \o b
  BY <1>1, Regroup
<1> HIDE DEF w
<1>4. /\ c \in Seq(StageName) /\ First(c) = "public" /\ Second(c) = First(s)
      /\ Script(c, op) /\ \A i \in DOMAIN c : c[i] \notin Plain
  BY <1>1, <1>2, PrependStage
<1> HIDE DEF c
<1>5. /\ b \in Seq(StageName) /\ First(b) = "sensitive" /\ Script(b, op)
      /\ \A i \in DOMAIN b : b[i] \notin Plain
  <2>1. Script(b, op)
    BY <1>1, <1>2, <1>4, ScriptPrepend
  <2>2. /\ b \in Seq(StageName) /\ First(b) = "sensitive"
        /\ \A i \in DOMAIN b : b[i] \in {"sensitive"} \cup StagesOf(c)
    BY <1>1, <1>4, FirstPrepend
  <2>3. \A y \in StagesOf(c) : y \notin Plain
    BY <1>4 DEF StagesOf
  <2> QED BY <1>2, <2>1, <2>2, <2>3
<1> HIDE DEF b
<1>6. w \in Seq(StageName) /\ First(w) = "decrypt" /\ Script(w, op) /\ w # <<>>
  BY <1>1, <1>2, <1>3, <1>5, PrependStage
<1> QED BY <1>6 DEF w

\* unlockKeyrings, before it decrypts.
LEMMA UnlockArrives ==
  ASSUME NEW u \in Proc, TypeOK, Steady, UNCHANGED <<restore, store>>,
         NEW m \in MemType, NEW l \in LocType, l.op \in {"submit", "changePw"},
         NEW s \in Seq(StageName), Script(s, l.op),
         \A i \in DOMAIN s : s[i] \notin Plain, First(s) # "public",
         Then(l.op, "public", First(s)), l.op = "changePw" => First(s) = "ready",
         StoreIs(store), Sticky(store, m, l), One(left'[u], {}), IsEmpty(orphans'),
         store.vault # NoVault, store.vault.pw = l.pw,
         l.op = "submit" => ~m.unlocked /\ m.password # NoPassword,
         l.op = "changePw" =>
           (m.unlocked <=> m.password # NoPassword) /\ (l.defer <=> m.unlocked),
         unlockKeyrings(u, m, l, <<"decrypt", "sensitive", "public">> \o s)
  PROVE  BookInv(u)'
<1> DEFINE w == <<"decrypt", "sensitive", "public">> \o s
           c == clearKeyrings(m)
           n == [l EXCEPT !.key = store.vault.pw, !.ser = store.vault.krs]
<1>1. w \in Seq(StageName) /\ First(w) = "decrypt" /\ Script(w, l.op) /\ w # <<>>
  BY OpeningScript
<1>2. Advance(u, c, n, w)
  BY DEF unlockKeyrings
<1>3. store \in StoreType
  BY DEF TypeOK
<1>4. store.vault.krs \in Bag /\ store.vault.pw \in OptPassword
  BY <1>3, RecoverableFacts
<1>5. /\ n \in LocType /\ n.op = l.op /\ n.pw = l.pw /\ n.npw = l.npw
      /\ n.kr = l.kr /\ n.defer = l.defer /\ n.key = l.pw
      /\ n.ser = store.vault.krs
  BY <1>4 DEF LocType
<1>6. c \in MemType
  BY MemOps DEF MemType
<1>7. /\ c.unlocked = m.unlocked /\ c.password = m.password
      /\ c.launched = m.launched /\ c.submitting = m.submitting
      /\ c.promise = 0 /\ c.pending = Absent /\ c.keyrings = Nothing
  BY DEF MemType, clearKeyrings, resetKeyringRuntimeState
<1> HIDE DEF w, c, n
<1>8. One(c.keyrings, {})
  BY <1>7, OneFacts, NothingType
<1>9. Loading(store, w, c, n, left'[u]) /\ Unlocks(w, n)
  BY <1>1, <1>5, <1>7, <1>8 DEF Loading, Unlocks, Shows
<1>10. Place(store, w, c, n, left'[u]) /\ First(w) # "join" /\ c.promise = 0
  BY <1>9, LoadingPlace
<1>11. Sticky(store, c, n)
  BY <1>5, <1>7 DEF Sticky
<1>12. Arrives(u, c, n, w)
  BY <1>1, <1>5, <1>6, <1>10, <1>11 DEF Arrives
<1> QED BY <1>2, <1>12, Arrival

\* submitPassword once the password is known to be right.
LEMMA OpenVaultArrives ==
  ASSUME NEW u \in Proc, TypeOK, TypeOK', Steady, UNCHANGED store,
         NEW m \in MemType, NEW l \in LocType, l.op = "submit",
         StoreIs(store), Sticky(store, m, l), One(left'[u], {}), IsEmpty(orphans'),
         Shut(m), l.flag = (store.vault # NoVault),
         l.flag => store.vault.pw = l.pw, ~l.flag => One(m.keyrings, {}),
         loc[u] \in LocType, openVault(u, m, l)
  PROVE  BookInv(u)'
<1> DEFINE h == holdPassword(m, l.pw)
           s == IF l.defer THEN <<"ready">> ELSE <<"display", "ready">>
<1>1. l.pw \in Password /\ l.pw \in OptPassword /\ l.pw # NoPassword
  BY KeyringServiceAssumption
     DEF Sticky, OptPassword, KeyringServiceAssumption
<1>2. /\ h \in MemType /\ h.password = l.pw /\ h.unlocked = m.unlocked
      /\ h.launched = m.launched /\ h.submitting = m.submitting
      /\ h.promise = 0 /\ h.pending = Absent /\ h.keyrings = m.keyrings
      /\ h.ready = m.ready
  BY <1>1, MemOps DEF MemType, holdPassword, Shut
<1>3. \/ l.flag /\ unlockKeyrings(u, h, l, <<"decrypt", "sensitive", "public">> \o s)
                /\ UNCHANGED restore
      \/ ~l.flag /\ setUnlocked(u, h, l)
  BY DEF openVault
<1> HIDE DEF h
<1>4. Sticky(store, h, l) /\ ~h.unlocked /\ h.password # NoPassword
  BY <1>1, <1>2 DEF Sticky, Shut
<1>5. CASE l.flag /\ unlockKeyrings(u, h, l, <<"decrypt", "sensitive", "public">> \o s)
                  /\ UNCHANGED restore
  <2>1. /\ "ready" \in StageName /\ "display" \in StageName
        /\ Runs(l.op, "ready") /\ Runs(l.op, "display")
        /\ Then(l.op, "ready", "end") /\ Then(l.op, "display", "ready")
        /\ "ready" \notin Plain /\ "display" \notin Plain
    BY DEF StageName, Runs, May, Opening, Then, Shows, Plain
  <2>2. /\ <<"ready">> \in Seq(StageName) /\ First(<<"ready">>) = "ready"
        /\ Script(<<"ready">>, l.op)
        /\ \A i \in DOMAIN <<"ready">> : <<"ready">>[i] \notin Plain
    BY <2>1, OneScript
  <2> DEFINE r == <<"ready">>
             t == <<"display">> \o r
  <2>3. <<"display", "ready">> = t
    BY Pair, Zenon
  <2> HIDE DEF r
  <2>4. /\ t \in Seq(StageName) /\ First(t) = "display" /\ Script(t, l.op)
        /\ \A i \in DOMAIN t : t[i] \notin Plain
    <3>1. /\ r \in Seq(StageName) /\ First(r) = "ready" /\ Script(r, l.op)
          /\ \A i \in DOMAIN r : r[i] \notin Plain
      BY <2>2 DEF r
    <3> QED BY <2>1, <3>1, PrependStage
  <2> HIDE DEF t
  <2>5. /\ s \in Seq(StageName) /\ First(s) \in {"ready", "display"}
        /\ Script(s, l.op) /\ \A i \in DOMAIN s : s[i] \notin Plain
    BY <2>2, <2>3, <2>4
  <2> HIDE DEF s
  <2>6. Then(l.op, "public", First(s)) /\ First(s) # "public"
    BY <2>5 DEF Then
  <2> QED BY <1>2, <1>4, <1>5, <2>5, <2>6, UnlockArrives
<1>6. CASE ~l.flag /\ setUnlocked(u, h, l)
  <2> DEFINE o == [h EXCEPT !.unlocked = TRUE]
  <2>1. store \in StoreType /\ store.vault = NoVault
    BY <1>6 DEF TypeOK
  <2>2. Recoverable(store) = {} /\ One(h.keyrings, {}) /\ h.keyrings \in Bag
    BY <1>2, <1>6, <2>1, RecoverableFacts DEF MemType
  <2>3. /\ o.unlocked /\ o.promise = 0 /\ o.password # NoPassword
        /\ o.pending = Absent /\ o.keyrings = h.keyrings
    BY <1>2, <1>4 DEF MemType
  <2> HIDE DEF o
  <2>4. Opened(store, o, Recoverable(store))
    BY <2>1, <2>2, <2>3 DEF Opened
  <2>5. IsEmpty(h.keyrings)
    BY <2>2, OneFacts
  <2> QED BY <1>2, <1>4, <1>6, <2>4, <2>5, SetUnlockedArrives DEF o
<1> QED BY <1>3, <1>5, <1>6

-----------------------------------------------------------------------------
(* Stages that show the list.                                              *)

\* A chain that relies on the session alone goes on.
LEMMA CalmArrives ==
  ASSUME NEW u \in Proc, TypeOK, Steady, UNCHANGED restore,
         NEW m \in MemType, NEW l \in LocType, NEW s \in Seq(StageName),
         Script(s, l.op), Calm(s, l), First(s) \notin {"compare", "push"},
         StoreIs(store'), IsEmpty(orphans'), One(left'[u], {}),
         Sticky(store', m, l), Session(store', m, Recoverable(store')),
         Advance(u, m, l, s)
  PROVE  BookInv(u)'
<1>1. Place(store', s, m, l, left'[u]) /\ First(s) # "join" /\ m.promise = 0
  BY CalmPlace
<1>2. m.submitting => l.op = "submit"
  BY DEF Sticky
<1>3. Arrives(u, m, l, s)
  BY <1>1, <1>2 DEF Arrives
<1> QED BY <1>3, Arrival

\* What is in memory is all there is, and an unlock has still to say so.
Loaded(m, T) ==
  /\ m.promise = 0 /\ m.pending = Absent /\ ~m.unlocked
  /\ m.password # NoPassword /\ One(m.keyrings, T)

\* updateMemStoreKeyrings
LEMMA ListArrives ==
  ASSUME NEW u \in Proc, TypeOK, Steady, UNCHANGED restore,
         NEW m \in MemType, NEW l \in LocType, NEW s \in Seq(StageName),
         Script(s, l.op), \A i \in DOMAIN s : s[i] \notin Plain,
         Runs(l.op, "show"), Then(l.op, "show", First(s)),
         StoreIs(store'), IsEmpty(orphans'), One(left'[u], {}),
         Sticky(store', m, l),
         l.op = "submit" => Loaded(m, Recoverable(store')),
         l.op # "submit" => Session(store', m, Recoverable(store')),
         updateMemStoreKeyrings(u, m, l, s)
  PROVE  BookInv(u)'
<1> DEFINE w == <<"show">> \o s
           n == [l EXCEPT !.list = m.keyrings]
<1>1. Advance(u, m, n, w)
  BY DEF updateMemStoreKeyrings
<1>2. "show" \in StageName /\ "show" \notin Plain /\ First(s) # "public"
  BY DEF StageName, Plain, Then, Shows
<1>3. w \in Seq(StageName) /\ First(w) = "show" /\ Script(w, l.op)
  BY <1>2, PrependStage
<1>4. /\ n \in LocType /\ n.op = l.op /\ n.kr = l.kr /\ n.pw = l.pw
      /\ n.npw = l.npw /\ n.defer = l.defer
  BY DEF LocType, MemType
<1> HIDE DEF w, n
<1>5. Sticky(store', m, n)
  BY <1>4 DEF Sticky
<1>6. CASE l.op # "submit"
  BY <1>1, <1>3, <1>4, <1>5, <1>6, CalmArrives DEF Calm, Shows
<1>7. CASE l.op = "submit"
  <2>1. Unlocks(w, n) /\ Loading(store', w, m, n, left'[u])
    BY <1>3, <1>4, <1>7 DEF Unlocks, Loading, Loaded, Shows
  <2>2. Place(store', w, m, n, left'[u]) /\ First(w) # "join" /\ m.promise = 0
    BY <2>1, LoadingPlace
  <2>3. w # <<>>
    BY <1>3 DEF First
  <2>4. Arrives(u, m, n, w)
    BY <1>3, <1>4, <1>5, <2>2, <2>3 DEF Arrives
  <2> QED BY <1>1, <2>4, Arrival
<1> QED BY <1>6, <1>7

LEMMA ShowsRun ==
  ASSUME NEW op, NEW y
  PROVE  /\ Runs(op, "display") <=> Runs(op, "show")
         /\ Then(op, "display", y) <=> Then(op, "show", y)
BY DEF Runs, May, Opening, Shows, Then, Rekeying, Saving, Plain

\* At a display or the end of one.
LEMMA ShownPlace ==
  ASSUME NEW u \in Proc, Stands(u), NEW st \in Shows, At(u, st)
  PROVE  /\ loc[u].op = "submit" => Loaded(mem, Recoverable(store))
         /\ loc[u].op # "submit" => Session(store, mem, Recoverable(store))
         /\ One(left[u], {})
<1>1. /\ First(todo[u]) \in Shows /\ Place(store, todo[u], mem, loc[u], left[u])
      /\ First(todo[u]) \notin {"sensitive", "public", "decrypt"}
  BY AtStage DEF Shows
<1>2. loc[u].op = "submit" => Loaded(mem, Recoverable(store))
  BY <1>1 DEF Place, Unlocks, Loading, Loaded
<1>3. loc[u].op # "submit" => Session(store, mem, Recoverable(store))
  BY <1>1 DEF Place, Calm
<1> QED BY <1>1, <1>2, <1>3 DEF Place

LEMMA DisplayBook ==
  ASSUME NEW u \in Proc, Stands(u), Display(u)
  PROVE  BookInv(u)'
<1>1. /\ At(u, "display") /\ updateMemStoreKeyrings(u, mem, loc[u], Rest(u))
      /\ UNCHANGED <<store, left, orphans, restore>>
  BY DEF Display, Quiet
<1>2. "display" \in Shows
  BY DEF Shows
<1>3. /\ Rest(u) \in Seq(StageName) /\ Script(Rest(u), loc[u].op)
      /\ \A i \in DOMAIN Rest(u) : Rest(u)[i] \notin Plain
      /\ Runs(loc[u].op, "show") /\ Then(loc[u].op, "show", First(Rest(u)))
      /\ StoreIs(store) /\ Sticky(store, mem, loc[u]) /\ Steady
  BY <1>1, AtStage, ShowsRun
<1>4. /\ loc[u].op = "submit" => Loaded(mem, Recoverable(store))
      /\ loc[u].op # "submit" => Session(store, mem, Recoverable(store))
      /\ One(left[u], {})
  BY <1>1, <1>2, ShownPlace
<1> QED BY <1>1, <1>3, <1>4, ListArrives DEF Stands

LEMMA ShowBook ==
  ASSUME NEW u \in Proc, Stands(u), Show(u)
  PROVE  BookInv(u)'
<1> DEFINE m == [mem EXCEPT !.shown = loc[u].list]
           s == Rest(u)
           l == loc[u]
<1>1. /\ At(u, "show") /\ Advance(u, m, l, s)
      /\ UNCHANGED <<store, left, orphans, restore>>
  BY DEF Show, Quiet
<1>2. "show" \in Shows
  BY DEF Shows
<1>3. /\ s \in Seq(StageName) /\ Script(s, l.op) /\ Then(l.op, "show", First(s))
      /\ StoreIs(store) /\ Sticky(store, mem, l) /\ Steady
  BY <1>1, AtStage
<1>4. /\ l.op = "submit" => Loaded(mem, Recoverable(store))
      /\ l.op # "submit" => Session(store, mem, Recoverable(store))
      /\ One(left[u], {})
  BY <1>1, <1>2, ShownPlace
<1>5. /\ m \in MemType /\ l \in LocType /\ m.unlocked = mem.unlocked
      /\ m.ready = mem.ready /\ m.keyrings = mem.keyrings
      /\ m.pending = mem.pending /\ m.promise = mem.promise
      /\ m.password = mem.password /\ m.launched = mem.launched
      /\ m.submitting = mem.submitting
  BY DEF Stands, MemType, LocType
<1> HIDE DEF m, s, l
<1>6. Sticky(store, m, l)
  BY <1>3, <1>5 DEF Sticky
<1>7. CASE l.op # "submit"
  <2>1. First(s) \in {"display", "end", "acknowledge"}
    BY <1>3, <1>7 DEF Then, Shows
  <2>2. Session(store, m, Recoverable(store))
    BY <1>4, <1>5, <1>7 DEF Session, Opened, Closed, Shut
  <2> QED BY <1>1, <1>3, <1>4, <1>5, <1>6, <1>7, <2>1, <2>2, CalmArrives
             DEF Stands, Calm, Shows
<1>8. CASE l.op = "submit"
  <2>1. First(s) = "ready" /\ s # <<>>
    BY <1>3, <1>8 DEF Then, Shows, First
  <2>2. Loaded(m, Recoverable(store))
    BY <1>4, <1>5, <1>8 DEF Loaded
  <2>3. Unlocks(s, l) /\ Loading(store, s, m, l, left[u])
    BY <1>8, <2>1, <2>2 DEF Unlocks, Loading, Loaded, Shows
  <2>4. Place(store, s, m, l, left[u]) /\ First(s) # "join" /\ m.promise = 0
    BY <1>4, <2>3, LoadingPlace
  <2>5. Arrives(u, m, l, s)
    BY <1>1, <1>3, <1>5, <1>6, <2>1, <2>4 DEF Arrives, Stands
  <2> QED BY <1>1, <1>3, <2>5, Arrival DEF Stands
<1> QED BY <1>7, <1>8

-----------------------------------------------------------------------------
(* Stages that bring the keyrings into memory.                             *)

LEMMA PublicRestoredBook ==
  ASSUME NEW u \in Proc, Stands(u), PublicRestored(u)
  PROVE  BookInv(u)'
<1> DEFINE s == Rest(u)
           l == loc[u]
           T == Recoverable(store)
<1>1. /\ At(u, "public") /\ IsEmpty(left[u])
      /\ UNCHANGED <<store, left, orphans, restore>>
      /\ IF s # <<>> /\ Head(s) = "display"
         THEN updateMemStoreKeyrings(u, mem, l, Tail(s))
         ELSE Advance(u, mem, l, s)
  BY DEF PublicRestored, Quiet
<1>2. /\ todo[u] # <<>> /\ First(todo[u]) = "public" /\ Second(todo[u]) = First(s)
      /\ s \in Seq(StageName) /\ Script(s, l.op) /\ Runs(l.op, "public")
      /\ Then(l.op, "public", First(s)) /\ \A i \in DOMAIN s : s[i] \notin Plain
      /\ StoreIs(store) /\ Sticky(store, mem, l) /\ Steady
      /\ Place(store, todo[u], mem, l, left[u])
  BY <1>1, AtStage
<1>3. /\ mem \in MemType /\ l \in LocType /\ left[u] \in Bag /\ IsEmpty(orphans)
      /\ mem.keyrings \in Bag /\ TypeOK
  BY DEF Stands, MemType
<1>4. One(left[u], {})
  BY <1>1, <1>3, OneFacts
<1>5. First(s) \in {"display", "ready"} /\ s # <<>> /\ First(s) = Head(s)
  BY <1>2 DEF Then, Shows, First
<1>6. Unlocks(todo[u], l) => Loaded(mem, T) \/ l.op = "changePw"
  <2>1. Unlocks(todo[u], l) => Two(mem.keyrings, left[u], T)
    BY <1>2 DEF Place, Loading
  <2>2. Unlocks(todo[u], l) => One(mem.keyrings, T)
    BY <1>1, <1>3, <2>1, EmptyFacts
  <2>3. Unlocks(todo[u], l) => l.op \in {"submit", "changePw"}
    BY <1>2 DEF Unlocks, Shows, Then
  <2> QED BY <1>2, <2>2, <2>3 DEF Place, Loading, Loaded
<1> HIDE DEF T, l, s
<1>7. CASE First(s) = "display"
  <2> DEFINE t == Tail(s)
  <2>1. updateMemStoreKeyrings(u, mem, l, t)
    BY <1>1, <1>5, <1>7
  <2>2. /\ t \in Seq(StageName) /\ Script(t, l.op)
        /\ Runs(l.op, "display") /\ Then(l.op, "display", First(t))
    BY <1>2, <1>5, <1>7, ScriptTail
  <2>3. \A i \in DOMAIN t : t[i] \notin Plain
    BY <1>2, <1>5, <1>7, ScriptTail
  <2> HIDE DEF t
  <2>4. Runs(l.op, "show") /\ Then(l.op, "show", First(t))
    BY <2>2, ShowsRun
  <2>5. l.op = "submit" => Loaded(mem, T)
    BY <1>2, <1>6 DEF Unlocks
  <2>6. l.op # "submit" => Session(store, mem, T)
    <3> SUFFICES ASSUME l.op # "submit"
                 PROVE  Session(store, mem, T)
      OBVIOUS
    <3>1. ~Unlocks(todo[u], l)
      BY <1>2, <1>7 DEF Unlocks, Shows
    <3>2. /\ Shut(mem) /\ mem.password = NoPassword
          /\ Two(mem.keyrings, left[u], Displayed(store, T))
      BY <1>2, <3>1 DEF Place, T
    <3>3. One(mem.keyrings, Displayed(store, T))
      BY <1>1, <1>3, <3>2, EmptyFacts
    <3> QED BY <1>2, <3>2, <3>3 DEF Session, Closed, Sticky
  <2> QED BY <1>1, <1>2, <1>3, <1>4, <2>1, <2>2, <2>3, <2>4, <2>5, <2>6,
             ListArrives DEF T
<1>8. CASE First(s) = "ready"
  <2>1. Advance(u, mem, l, s)
    BY <1>1, <1>5, <1>8
  <2>2. l.op \in {"submit", "changePw"} /\ Unlocks(todo[u], l)
    BY <1>2, <1>8 DEF Unlocks, Then, Shows
  <2>3. Loading(store, todo[u], mem, l, left[u])
    BY <1>2, <2>2 DEF Place
  <2>4. One(mem.keyrings, T)
    BY <1>1, <1>2, <1>3, <2>3, EmptyFacts DEF Loading, T
  <2>5. Unlocks(s, l) /\ Loading(store, s, mem, l, left[u])
    BY <1>8, <2>3, <2>4 DEF Unlocks, Loading, Shows, T
  <2>6. Place(store, s, mem, l, left[u]) /\ First(s) # "join" /\ mem.promise = 0
    BY <1>4, <2>5, LoadingPlace
  <2>7. Arrives(u, mem, l, s)
    BY <1>1, <1>2, <1>3, <1>5, <2>6 DEF Arrives
  <2> QED BY <1>1, <1>2, <1>3, <2>1, <2>7, Arrival
<1> QED BY <1>5, <1>7, <1>8

LEMMA SensitiveRestoredBook ==
  ASSUME NEW u \in Proc, Stands(u), SensitiveRestored(u)
  PROVE  BookInv(u)'
<1> DEFINE s == Rest(u)
           l == loc[u]
<1>1. /\ At(u, "sensitive") /\ IsEmpty(left[u]) /\ Advance(u, mem, l, s)
      /\ left' = [left EXCEPT ![u] = l.list]
      /\ UNCHANGED <<store, orphans, restore>>
  BY DEF SensitiveRestored
<1>2. /\ First(todo[u]) = "sensitive"
      /\ s \in Seq(StageName) /\ Script(s, l.op) /\ Runs(l.op, "sensitive")
      /\ Then(l.op, "sensitive", First(s))
      /\ l.op = "changePw" /\ First(s) = "public" => Second(s) = "ready"
      /\ StoreIs(store) /\ Sticky(store, mem, l) /\ Steady
      /\ Place(store, todo[u], mem, l, left[u])
  BY <1>1, AtStage
<1>3. /\ mem \in MemType /\ l \in LocType /\ left[u] \in Bag /\ IsEmpty(orphans)
      /\ mem.keyrings \in Bag /\ l.list \in Bag /\ TypeOK
  BY DEF Stands, MemType, LocType
<1>4. left'[u] = l.list
  BY <1>1 DEF Stands, TypeOK
<1> HIDE DEF s, l
<1>5. First(s) = "public" /\ s # <<>> /\ l.op \in {"submit", "changePw"}
  BY <1>2 DEF Then, Shows, First, Runs, May, Saving, Plain, Rekeying
<1>6. Loading(store, todo[u], mem, l, left[u])
  BY <1>2 DEF Place, Unlocks
<1>7. Two(mem.keyrings, l.list, Recoverable(store))
  BY <1>1, <1>2, <1>3, <1>6, EmptyFacts DEF Loading
<1>8. Unlocks(s, l) /\ Loading(store, s, mem, l, l.list)
  BY <1>2, <1>5, <1>6, <1>7 DEF Unlocks, Loading, Shows
<1>9. Place(store, s, mem, l, l.list) /\ First(s) # "join" /\ mem.promise = 0
  BY <1>5, <1>8, LoadingPlace
<1>10. Arrives(u, mem, l, s)
  BY <1>1, <1>2, <1>3, <1>4, <1>5, <1>9 DEF Arrives
<1> QED BY <1>1, <1>2, <1>3, <1>10, Arrival

LEMMA RestoreKeyringBook ==
  ASSUME NEW u \in Proc, Stands(u), RestoreKeyring(u)
  PROVE  BookInv(u)'
<1> PICK k \in Keyring :
      /\ left[u][k] > 0
      /\ left' = [left EXCEPT ![u] = Drop(@, k)]
      /\ mem' = [mem EXCEPT !.keyrings = Push(@, k)]
      /\ UNCHANGED <<store, todo, loc, orphans, restore>>
  BY DEF RestoreKeyring
<1> DEFINE s == todo[u]
           l == loc[u]
           T == Recoverable(store)
<1>1. /\ Place(store, s, mem, l, left[u]) /\ Waits(store, restore, s, mem, l)
      /\ StoreIs(store) /\ Script(s, l.op) /\ left[u] \in Bag /\ mem \in MemType
      /\ l \in LocType /\ IsEmpty(orphans)
      /\ IF s = <<>> THEN ~mem.submitting ELSE Sticky(store, mem, l)
  BY DEF Stands, Kept
<1>2. /\ left'[u] = Drop(left[u], k) /\ mem'.keyrings = Push(mem.keyrings, k)
      /\ mem'.unlocked = mem.unlocked /\ mem'.ready = mem.ready
      /\ mem'.password = mem.password /\ mem'.pending = mem.pending
      /\ mem'.promise = mem.promise /\ mem'.launched = mem.launched
      /\ mem'.submitting = mem.submitting
      /\ mem.keyrings \in Bag /\ l.list \in Bag
  BY <1>1 DEF Stands, TypeOK, MemType, LocType
<1>3. First(s) \in {"sensitive", "public"}
  <2>1. ~One(left[u], {})
    BY DEF One, Once
  <2> QED BY <1>1, <2>1 DEF Place
<1> HIDE DEF s, l, T
<1>4. s # <<>> /\ ~Calm(s, l) /\ First(s) \notin {"join", "push", "compare"}
  BY <1>3 DEF First, Calm, Shows
<1>5. Sticky(store, mem', l)
  BY <1>1, <1>2, <1>4 DEF Sticky
<1>6. Unlocks(s, l) => Loading(store, s, mem', l, left'[u])
  <2> SUFFICES ASSUME Unlocks(s, l)
               PROVE  Loading(store, s, mem', l, left'[u])
    OBVIOUS
  <2>1. Loading(store, s, mem, l, left[u])
    BY <1>1 DEF Place
  <2>2. /\ First(s) = "sensitive" =>
             Three(mem'.keyrings, left'[u], l.list, Recoverable(store))
        /\ First(s) = "public" => Two(mem'.keyrings, left'[u], Recoverable(store))
    BY <1>1, <1>2, <2>1, MoveFacts DEF Loading
  <2> QED BY <1>2, <1>3, <2>1, <2>2 DEF Loading, Shows
<1>7. First(s) = "public" /\ ~Unlocks(s, l) =>
        /\ Shut(mem') /\ mem'.password = NoPassword
        /\ Two(mem'.keyrings, left'[u], Displayed(store, Recoverable(store)))
  <2> SUFFICES ASSUME First(s) = "public" /\ ~Unlocks(s, l)
               PROVE  /\ Shut(mem') /\ mem'.password = NoPassword
                      /\ Two(mem'.keyrings, left'[u],
                             Displayed(store, Recoverable(store)))
    OBVIOUS
  <2>1. /\ Shut(mem) /\ mem.password = NoPassword
        /\ Two(mem.keyrings, left[u], Displayed(store, Recoverable(store)))
    BY <1>1 DEF Place
  <2>2. Two(mem'.keyrings, left'[u], Displayed(store, Recoverable(store)))
    BY <1>1, <1>2, <2>1, MoveFacts
  <2> QED BY <1>2, <2>1, <2>2 DEF Shut
<1>8. Saved(store, s, mem', l)
  BY <1>3 DEF Saved, Encrypts, Rewrites, Plain
<1>9. Place(store, s, mem', l, left'[u])
  BY <1>3, <1>4, <1>6, <1>7, <1>8 DEF Place, Rekeying
<1>10. Waits(store, restore, s, mem', l)
  BY <1>1, <1>2, <1>4 DEF Waits
<1> QED BY <1>1, <1>4, <1>5, <1>9, <1>10 DEF BookInv, Kept, s, l

LEMMA DecryptBook ==
  ASSUME NEW u \in Proc, Stands(u), TypeOK', Decrypt(u)
  PROVE  BookInv(u)'
<1> DEFINE l == loc[u]
           s == Rest(u)
           toRestore == IF store.unenc = Absent THEN l.ser
                        ELSE Keep(l.ser, Sensitive)
           pub == OrNothing(store.unenc)
           m == [mem EXCEPT !.pending = [data |-> toRestore, pub |-> pub],
                            !.ready = FALSE, !.restoring = FALSE, !.failed = FALSE]
           n == [l EXCEPT !.list = pub]
           T == Recoverable(store)
<1>1. /\ At(u, "decrypt") /\ UNCHANGED <<store, orphans>>
      /\ \/ l.key # l.pw
         \/ l.op = "submit" /\ setUnlocked(u, m, l) /\ UNCHANGED left
         \/ /\ left' = [left EXCEPT ![u] = toRestore] /\ Advance(u, mem, n, s)
            /\ UNCHANGED restore
  BY DEF Decrypt
<1>2. /\ First(todo[u]) = "decrypt"
      /\ s \in Seq(StageName) /\ Script(s, l.op) /\ Runs(l.op, "decrypt")
      /\ Then(l.op, "decrypt", First(s))
      /\ StoreIs(store) /\ Sticky(store, mem, l) /\ Steady
      /\ Place(store, todo[u], mem, l, left[u])
  BY <1>1, AtStage
<1>3. Loading(store, todo[u], mem, l, left[u]) /\ One(left[u], {})
  BY <1>2 DEF Place, Unlocks
<1>4. /\ One(mem.keyrings, {}) /\ store.vault # NoVault
      /\ l.ser = store.vault.krs /\ l.key = l.pw
      /\ mem.promise = 0 /\ mem.pending = Absent
  BY <1>2, <1>3 DEF Loading
<1>5. /\ mem \in MemType /\ l \in LocType /\ IsEmpty(orphans) /\ store \in StoreType
      /\ mem.keyrings \in Bag /\ TypeOK
  BY DEF Stands, MemType
<1>6. toRestore \in Bag /\ pub \in Bag /\ Two(toRestore, pub, T)
  BY <1>2, <1>4, <1>5, UnlockFacts
<1> HIDE DEF toRestore, pub
<1>7. Three(mem.keyrings, toRestore, pub, T)
  BY <1>4, <1>5, <1>6, EmptyFacts
<1>8. CASE l.op = "submit" /\ setUnlocked(u, m, l) /\ UNCHANGED left
  <2> DEFINE q == [data |-> toRestore, pub |-> pub]
             o == [m EXCEPT !.unlocked = TRUE]
  <2>1. q \in Pending /\ q # Absent /\ q.data = toRestore /\ q.pub = pub
    BY <1>6, AbsenceAssumption DEF Pending, AbsenceAssumption
  <2> HIDE DEF q
  <2>2. /\ m \in MemType /\ m.keyrings = mem.keyrings /\ m.pending = q
        /\ ~m.ready /\ m.launched = mem.launched /\ m.promise = 0
        /\ m.submitting = mem.submitting /\ m.password = mem.password
        /\ m.unlocked = mem.unlocked
    BY <1>4, <1>5, <2>1 DEF MemType, q
  <2> HIDE DEF m
  <2>3. /\ o.unlocked /\ o.promise = 0 /\ o.password = mem.password
        /\ ~o.ready /\ o.pending = q /\ o.keyrings = mem.keyrings
    BY <2>2 DEF MemType
  <2>4. mem.password # NoPassword
    BY <1>3, <1>8 DEF Loading
  <2> HIDE DEF o
  <2>5. Opened(store, o, T)
    BY <1>7, <2>1, <2>3, <2>4 DEF Opened
  <2>6. Sticky(store, m, l)
    BY <1>2, <2>2 DEF Sticky
  <2> QED BY <1>1, <1>2, <1>3, <1>5, <1>8, <2>2, <2>5, <2>6, SetUnlockedArrives
             DEF o
<1>9. CASE left' = [left EXCEPT ![u] = toRestore] /\ Advance(u, mem, n, s)
           /\ UNCHANGED restore
  <2>1. left'[u] = toRestore
    BY <1>9 DEF Stands, TypeOK
  <2>2. /\ n \in LocType /\ n.op = l.op /\ n.pw = l.pw /\ n.npw = l.npw
        /\ n.kr = l.kr /\ n.defer = l.defer /\ n.list = pub
    BY <1>5, <1>6 DEF LocType
  <2> HIDE DEF n
  <2>3. First(s) = "sensitive" /\ s # <<>>
    BY <1>2 DEF Then, Shows, First
  <2>4. Unlocks(s, n) /\ Loading(store, s, mem, n, toRestore)
    BY <1>3, <1>7, <2>2, <2>3 DEF Unlocks, Loading, Shows
  <2>5. Place(store, s, mem, n, toRestore) /\ First(s) # "join" /\ mem.promise = 0
    BY <2>3, <2>4, LoadingPlace
  <2>6. Sticky(store, mem, n)
    BY <1>2, <2>2 DEF Sticky
  <2>7. Arrives(u, mem, n, s)
    BY <1>1, <1>2, <1>5, <2>1, <2>2, <2>3, <2>5, <2>6 DEF Arrives
  <2> QED BY <1>2, <1>5, <1>9, <2>7, Arrival
<1> QED BY <1>1, <1>4, <1>8, <1>9

LEMMA ReadyBook ==
  ASSUME NEW u \in Proc, Stands(u), TypeOK', Ready(u)
  PROVE  BookInv(u)'
<1> DEFINE l == loc[u]
           s == Rest(u)
           m == markKeyringRuntimeReady(mem)
           T == Recoverable(store)
<1>1. /\ At(u, "ready") /\ UNCHANGED <<store, left, orphans>>
      /\ IF l.op = "submit" THEN setUnlocked(u, m, l)
         ELSE Advance(u, m, l, s) /\ UNCHANGED restore
  BY DEF Ready, Quiet
<1>2. /\ First(todo[u]) = "ready"
      /\ s \in Seq(StageName) /\ Script(s, l.op) /\ Runs(l.op, "ready")
      /\ Then(l.op, "ready", First(s))
      /\ StoreIs(store) /\ Sticky(store, mem, l) /\ Steady
      /\ Place(store, todo[u], mem, l, left[u])
  BY <1>1, AtStage
<1>3. Loading(store, todo[u], mem, l, left[u]) /\ One(left[u], {})
  BY <1>2 DEF Place, Unlocks
<1>4. /\ One(mem.keyrings, T) /\ mem.promise = 0
      /\ l.op = "submit" => ~mem.unlocked /\ mem.password # NoPassword
      /\ l.op = "changePw" =>
           (mem.unlocked <=> mem.password # NoPassword) /\ (l.defer <=> mem.unlocked)
  BY <1>2, <1>3 DEF Loading, Shows
<1>5. /\ mem \in MemType /\ l \in LocType /\ IsEmpty(orphans) /\ TypeOK
  BY DEF Stands
<1>6. /\ m \in MemType /\ m.ready /\ m.pending = Absent /\ m.promise = 0
      /\ m.keyrings = mem.keyrings /\ m.unlocked = mem.unlocked
      /\ m.password = mem.password /\ m.launched = mem.launched
      /\ m.submitting = mem.submitting
  <2>1. NoPassword \in OptPassword
    BY DEF OptPassword
  <2>2. m \in MemType
    BY <1>5, <2>1, MemOps
  <2> QED BY <1>5, <2>2 DEF markKeyringRuntimeReady, MemType
<1> HIDE DEF m
<1>7. Sticky(store, m, l)
  BY <1>2, <1>6 DEF Sticky
<1>8. CASE l.op = "submit"
  <2> DEFINE o == [m EXCEPT !.unlocked = TRUE]
  <2>1. /\ o.unlocked /\ o.promise = 0 /\ o.password = mem.password
        /\ o.ready /\ o.keyrings = mem.keyrings
    BY <1>6 DEF MemType
  <2> HIDE DEF o
  <2>2. Opened(store, o, T)
    BY <1>4, <1>8, <2>1 DEF Opened
  <2> QED BY <1>1, <1>2, <1>3, <1>5, <1>6, <1>7, <1>8, <2>2, SetUnlockedArrives
             DEF o
<1>9. CASE l.op # "submit"
  <2>1. l.op = "changePw" /\ First(s) = "rekey" /\ s # <<>>
    BY <1>2, <1>9 DEF Then, First, Runs, May, Shows, Saving, Plain
  <2>2. Rekeys(store, s, m, l)
    BY <1>4, <1>6, <2>1 DEF Rekeys, Opened, Shut
  <2>3. Place(store, s, m, l, left[u])
    BY <1>3, <2>1, <2>2 DEF Place, Unlocks, Calm, Shows
  <2>4. Arrives(u, m, l, s)
    BY <1>1, <1>2, <1>5, <1>6, <1>7, <2>1, <2>3 DEF Arrives
  <2> QED BY <1>1, <1>2, <1>5, <1>9, <2>4, Arrival
<1> QED BY <1>8, <1>9

-----------------------------------------------------------------------------
(* The password, the vault and the restore an operation waits for.         *)

LEMMA VerifyBook ==
  ASSUME NEW u \in Proc, Stands(u), TypeOK', VaultOpens, Verify(u)
  PROVE  BookInv(u)'
<1> DEFINE l == loc[u]
           s == Rest(u)
           n == [l EXCEPT !.flag = shouldRestoreVault, !.defer = mem.unlocked]
           T == Recoverable(store)
<1>1. /\ At(u, "verify") /\ UNCHANGED <<store, left, orphans>>
      /\ \/ l.key # l.pw /\ Advance(u, mem, l, <<>>) /\ UNCHANGED restore
         \/ l.key = l.pw /\ l.op = "submit" /\ openVault(u, mem, l)
         \/ /\ l.key = l.pw /\ l.op # "submit" /\ UNCHANGED restore
            /\ Advance(u, mem, n, s)
  BY DEF Verify, Quiet, Throw
<1>2. /\ First(todo[u]) = "verify"
      /\ s \in Seq(StageName) /\ Script(s, l.op) /\ Runs(l.op, "verify")
      /\ Then(l.op, "verify", First(s))
      /\ StoreIs(store) /\ Sticky(store, mem, l) /\ Steady
      /\ Place(store, todo[u], mem, l, left[u])
  BY <1>1, AtStage
<1>3. /\ mem \in MemType /\ l \in LocType /\ IsEmpty(orphans) /\ store \in StoreType
      /\ TypeOK
  BY DEF Stands
<1>4. Verifying(store, mem, l) /\ One(left[u], {})
  BY <1>2 DEF Place
<1>5. l.op \in {"submit", "changePw"}
  BY <1>2 DEF Runs, May, Opening, Saving, Plain, Shows
<1>6. store.booted # NoPassword /\ l.key = store.booted
  BY <1>2, <1>4, <1>5 DEF Sticky, Verifying
<1>7. CASE l.key # l.pw /\ Advance(u, mem, l, <<>>) /\ UNCHANGED restore
  <2>1. Session(store, mem, T)
    BY <1>2, <1>4, <1>5, <1>7 DEF Verifying, Session, Closed, Sticky
  <2> QED BY <1>1, <1>2, <1>3, <1>4, <1>7, <2>1, Ends DEF Sticky
<1>8. CASE l.key = l.pw /\ l.op = "submit" /\ openVault(u, mem, l)
  <2>1. store.vault # NoVault => store.vault.pw = l.pw
    BY <1>6, <1>8 DEF VaultOpens
  <2>2. Shut(mem) /\ l.flag = (store.vault # NoVault)
    BY <1>4, <1>8 DEF Verifying
  <2>3. ~l.flag => One(mem.keyrings, {})
    <3>1. store.vault = NoVault => Displayed(store, T) = {}
      BY <1>2, <1>3, RecoverableFacts
    <3> QED BY <1>4, <1>8, <2>2, <3>1 DEF Verifying
  <2> QED BY <1>1, <1>2, <1>3, <1>4, <1>8, <2>1, <2>2, <2>3, OpenVaultArrives
<1>9. CASE /\ l.key = l.pw /\ l.op # "submit" /\ UNCHANGED restore
           /\ Advance(u, mem, n, s)
  <2>1. /\ n \in LocType /\ n.op = l.op /\ n.pw = l.pw /\ n.npw = l.npw
        /\ n.kr = l.kr /\ n.defer = mem.unlocked /\ n.flag = shouldRestoreVault
    <3>1. shouldRestoreVault \in BOOLEAN /\ mem.unlocked \in BOOLEAN
      BY <1>3 DEF shouldRestoreVault, MemType
    <3> QED BY <1>3, <3>1 DEF LocType
  <2> HIDE DEF n
  <2>2. l.op = "changePw" /\ First(s) = "reload" /\ s # <<>>
    BY <1>2, <1>5, <1>9 DEF Then, First, Shows
  <2>3. Session(store, mem, T)
    BY <1>4, <2>2 DEF Verifying
  <2>4. Reloading(store, mem, n)
    BY <1>6, <1>9, <2>1, <2>3 DEF Reloading, shouldRestoreVault
  <2>5. mem.promise = 0
    BY <2>3 DEF Session, Opened, Closed, Shut
  <2>6. Place(store, s, mem, n, left[u])
    BY <1>4, <2>1, <2>2, <2>4 DEF Place, Unlocks, Calm, Shows, Rekeying
  <2>7. Sticky(store, mem, n)
    BY <1>2, <2>1 DEF Sticky
  <2>8. Arrives(u, mem, n, s)
    BY <1>1, <1>2, <1>3, <2>1, <2>2, <2>5, <2>6, <2>7 DEF Arrives
  <2> QED BY <1>2, <1>3, <1>9, <2>8, Arrival
<1> QED BY <1>1, <1>7, <1>8, <1>9

LEMMA FourStages ==
  ASSUME NEW s \in Seq(StageName)
  PROVE  <<"decrypt", "sensitive", "public", "ready">> \o s
           = <<"decrypt", "sensitive", "public">> \o (<<"ready">> \o s)
<1> DEFINE a == <<"decrypt", "sensitive", "public">>
           b == <<"ready">>
<1>1. a \in Seq(StageName) /\ b \in Seq(StageName)
  BY DEF StageName
<1>2. <<"decrypt", "sensitive", "public", "ready">> = a \o b
  OBVIOUS
<1> HIDE DEF a, b
<1>3. (a \o b) \o s = a \o (b \o s)
  BY <1>1, Concatenation
<1> QED BY <1>2, <1>3, Zenon DEF a, b

LEMMA ReloadBook ==
  ASSUME NEW u \in Proc, Stands(u), VaultOpens, Reload(u)
  PROVE  BookInv(u)'
<1> DEFINE l == loc[u]
           s == Rest(u)
           w == <<"decrypt", "sensitive", "public", "ready">> \o s
           t == <<"ready">> \o s
           T == Recoverable(store)
<1>1. /\ At(u, "reload") /\ UNCHANGED <<store, left, orphans, restore>>
      /\ IF l.flag THEN unlockKeyrings(u, mem, l, w) ELSE Advance(u, mem, l, s)
  BY DEF Reload, Quiet
<1>2. /\ First(todo[u]) = "reload"
      /\ s \in Seq(StageName) /\ Script(s, l.op) /\ Runs(l.op, "reload")
      /\ Then(l.op, "reload", First(s)) /\ \A i \in DOMAIN s : s[i] \notin Plain
      /\ StoreIs(store) /\ Sticky(store, mem, l) /\ Steady
      /\ Place(store, todo[u], mem, l, left[u])
  BY <1>1, AtStage
<1>3. /\ mem \in MemType /\ l \in LocType /\ IsEmpty(orphans) /\ store \in StoreType
      /\ TypeOK /\ mem.keyrings \in Bag
  BY DEF Stands, MemType
<1>4. Reloading(store, mem, l) /\ One(left[u], {})
  BY <1>2 DEF Place
<1>5. l.op = "changePw" /\ First(s) = "rekey" /\ s # <<>>
  BY <1>2 DEF Runs, May, Opening, Saving, Plain, Shows, Then, First
<1>6. store.booted # NoPassword /\ l.pw = store.booted
  BY <1>2, <1>4, <1>5 DEF Sticky, Reloading
<1>7. Session(store, mem, T)
  BY <1>4 DEF Reloading
<1>8. CASE l.flag /\ store.vault = NoVault
  <2>1. Advance(u, mem, l, <<>>)
    BY <1>1, <1>8 DEF unlockKeyrings, Throw
  <2> QED BY <1>1, <1>2, <1>3, <1>4, <1>7, <2>1, Ends DEF Sticky
<1>9. CASE l.flag /\ store.vault # NoVault
  <2>1. "ready" \in StageName /\ "ready" \notin Plain /\ Runs(l.op, "ready")
        /\ Then(l.op, "ready", First(s)) /\ Then(l.op, "public", "ready")
    BY <1>5 DEF StageName, Plain, Runs, Opening, Then
  <2>2. /\ t \in Seq(StageName) /\ First(t) = "ready" /\ Script(t, l.op)
        /\ \A i \in DOMAIN t : t[i] \notin Plain
    BY <1>2, <1>5, <2>1, PrependStage
  <2>3. w = <<"decrypt", "sensitive", "public">> \o t
    BY <1>2, FourStages
  <2>4. unlockKeyrings(u, mem, l, w)
    BY <1>1, <1>9
  <2> HIDE DEF w, t
  <2>5. unlockKeyrings(u, mem, l, <<"decrypt", "sensitive", "public">> \o t)
    BY <2>3, <2>4
  <2>6. store.vault.pw = l.pw
    BY <1>6, <1>9 DEF VaultOpens
  <2>7. (mem.unlocked <=> mem.password # NoPassword) /\ (l.defer <=> mem.unlocked)
    BY <1>4, <1>7 DEF Session, Opened, Closed, Shut, Reloading
  <2> QED BY <1>1, <1>2, <1>3, <1>4, <1>5, <1>9, <2>1, <2>2, <2>5, <2>6, <2>7,
             UnlockArrives
<1>10. CASE ~l.flag
  <2>1. Advance(u, mem, l, s)
    BY <1>1, <1>10
  <2>2. store.vault = NoVault => T = {} /\ Displayed(store, T) = {}
    BY <1>2, <1>3, RecoverableFacts
  <2>3. Rekeys(store, s, mem, l)
    <3>1. CASE mem.unlocked
      BY <1>4, <1>5, <1>7, <3>1 DEF Rekeys, Reloading, Session, Closed, Shut
    <3>2. CASE ~mem.unlocked
      <4>1. Closed(store, mem, T) /\ mem.launched /\ store.vault = NoVault
        BY <1>2, <1>4, <1>7, <1>10, <3>2 DEF Session, Opened, Sticky, Reloading
      <4>2. One(mem.keyrings, T)
        BY <2>2, <4>1 DEF Closed
      <4> QED BY <1>4, <1>5, <3>2, <4>1, <4>2 DEF Rekeys, Closed, Reloading
    <3> QED BY <3>1, <3>2
  <2>4. mem.promise = 0
    BY <1>7 DEF Session, Opened, Closed, Shut
  <2>5. Place(store, s, mem, l, left[u])
    BY <1>4, <1>5, <2>3 DEF Place, Unlocks, Calm, Shows
  <2>6. Arrives(u, mem, l, s)
    BY <1>1, <1>2, <1>3, <1>5, <2>4, <2>5 DEF Arrives
  <2> QED BY <1>1, <1>2, <1>3, <2>1, <2>6, Arrival
<1> QED BY <1>8, <1>9, <1>10

\* What Aim sees of a chain.
LEMMA AimSame ==
  ASSUME NEW s, NEW t, First(s) = First(t), Second(s) = Second(t)
  PROVE  \A d, l : Aim(d, s, l) = Aim(d, t, l)
BY DEF Aim, Edits

LEMMA JoinBook ==
  ASSUME NEW u \in Proc, Stands(u), Join(u)
  PROVE  BookInv(u)'
<1> DEFINE l == loc[u]
           s == Rest(u)
           t == <<"join">> \o s
           st == restore[l.rid].st
<1>1. /\ At(u, "join") /\ UNCHANGED <<store, left, orphans, restore>>
      /\ st \in settled
      /\ \/ st = "failed" \/ Advance(u, mem, l, s)
  BY DEF Join, Quiet
<1>2. /\ First(todo[u]) = "join" /\ Second(todo[u]) = First(s)
      /\ s \in Seq(StageName) /\ Script(s, l.op) /\ Runs(l.op, "join")
      /\ Then(l.op, "join", First(s)) /\ \A i \in DOMAIN s : s[i] \notin Plain
      /\ StoreIs(store) /\ Sticky(store, mem, l)
      /\ Place(store, todo[u], mem, l, left[u])
  BY <1>1, AtStage
<1>3. /\ mem \in MemType /\ l \in LocType /\ IsEmpty(orphans) /\ TypeOK
  BY DEF Stands
<1>4. Joined(restore, store, mem, l, Aim(store, todo[u], l))
  BY <1>2 DEF Stands, Waits
<1>5. One(left[u], {})
  BY <1>2 DEF Place
<1>6. /\ st = "done" /\ mem.ready /\ Opened(store, mem, Aim(store, todo[u], l))
      /\ l.op = "changePw" => l.defer
  BY <1>1, <1>4 DEF Joined, Unsettled
<1>7. Steady
  BY <1>1, <1>4, <1>6 DEF Joined, Unsettled, Steady, Opened
<1>8. First(t) = "join" /\ Second(t) = First(s)
  BY <1>2, FirstPrepend DEF StageName
<1> HIDE DEF t
<1>9. Aim(store, todo[u], l) = Aim(store, t, l)
  BY <1>2, <1>8, AimSame
<1>10. MayJoin(u, mem, l, s)
  BY <1>1, <1>2, <1>3, <1>5, <1>6, <1>9 DEF MayJoin, t
<1> QED BY <1>1, <1>3, <1>6, <1>7, <1>10, GoesOn

-----------------------------------------------------------------------------
(* The stages of a persist.                                                *)

\* A stage that stays between the serialisation and the write.
LEMMA SavedPlace ==
  ASSUME NEW d, NEW s, NEW m, NEW l, NEW lf,
         First(s) \in {"snapshot", "encrypt", "write"} \cup Plain,
         l.op # "changePw", Saved(d, s, m, l), One(lf, {})
  PROVE  Place(d, s, m, l, lf) /\ First(s) # "join" /\ s # <<>>
BY DEF Place, Unlocks, Calm, Shows, Plain, First

LEMMA NoPlainNext ==
  ASSUME NEW s \in Seq(StageName), s # <<>>, \A i \in DOMAIN s : s[i] \notin Plain
  PROVE  First(s) \notin Plain /\ Second(s) \notin Plain
<1>1. First(s) = s[1] /\ 1 \in DOMAIN s /\ Second(s) = After(s, 1)
  BY TailPlaces
<1>2. Len(s) \in Nat /\ DOMAIN s = 1 .. Len(s)
  OBVIOUS
<1>3. After(s, 1) = "end" \/ (After(s, 1) = s[2] /\ 2 \in DOMAIN s)
  BY <1>1, <1>2 DEF After
<1> QED BY <1>1, <1>3 DEF Plain

LEMMA SerializeBook ==
  ASSUME NEW u \in Proc, Stands(u), Serialize(u)
  PROVE  BookInv(u)'
<1> DEFINE l == loc[u]
           s == Rest(u)
           n == [l EXCEPT !.ser = mem.keyrings]
<1>1. /\ At(u, "serialize") /\ UNCHANGED <<store, left, orphans, restore>>
      /\ \/ mem.password = NoPassword \/ Advance(u, mem, n, s)
  BY DEF Serialize, Quiet, serializeForPersist
<1>2. /\ First(todo[u]) = "serialize"
      /\ s \in Seq(StageName) /\ Script(s, l.op) /\ Runs(l.op, "serialize")
      /\ Then(l.op, "serialize", First(s)) /\ \A i \in DOMAIN s : s[i] \notin Plain
      /\ StoreIs(store) /\ Sticky(store, mem, l) /\ Steady
      /\ Place(store, todo[u], mem, l, left[u])
  BY <1>1, AtStage
<1>3. /\ mem \in MemType /\ l \in LocType /\ IsEmpty(orphans) /\ TypeOK
  BY DEF Stands
<1>4. l.op \in {"submit", "add", "remove"} /\ One(left[u], {})
  BY <1>2 DEF Runs, May, Opening, Saving, Plain, Shows, Rekeying, Place
<1>5. Opened(store, mem, Goal(store, l)) /\ mem.ready
  BY <1>2, <1>4 DEF Place, Saved
<1>6. First(s) = "snapshot" /\ s # <<>>
  BY <1>2 DEF Then, First, Shows
<1>7. Second(s) = "encrypt"
  <2>1. Then(l.op, "snapshot", Second(s))
    BY <1>2, <1>6, ScriptTail
  <2>2. Second(s) \notin Plain
    BY <1>2, <1>6, NoPlainNext
  <2> QED BY <1>4, <2>1, <2>2 DEF Then, Plain, Shows
<1>8. Advance(u, mem, n, s)
  BY <1>1, <1>5 DEF Opened
<1>9. /\ n \in LocType /\ n.op = l.op /\ n.kr = l.kr /\ n.pw = l.pw
      /\ n.npw = l.npw /\ n.ser = mem.keyrings
  BY <1>3 DEF LocType, MemType
<1> HIDE DEF n, l, s
<1>10. Goal(store, n) = Goal(store, l) /\ Sticky(store, mem, n) /\ mem.promise = 0
  BY <1>2, <1>5, <1>9 DEF Goal, Sticky, Opened
<1>11. Saved(store, s, mem, n)
  BY <1>5, <1>6, <1>7, <1>9, <1>10 DEF Saved, Encrypts, Rewrites, Plain, Opened
<1>12. Place(store, s, mem, n, left[u]) /\ First(s) # "join"
  BY <1>4, <1>6, <1>9, <1>11, SavedPlace
<1>13. Arrives(u, mem, n, s)
  BY <1>1, <1>2, <1>3, <1>6, <1>9, <1>10, <1>12 DEF Arrives
<1> QED BY <1>1, <1>2, <1>3, <1>8, <1>13, Arrival

LEMMA SnapshotBook ==
  ASSUME NEW u \in Proc, Stands(u), Snapshot(u)
  PROVE  BookInv(u)'
<1> DEFINE l == loc[u]
           s == Rest(u)
           n == [l EXCEPT !.snp = Members(mem.keyrings)]
           T == Recoverable(store)
<1>1. /\ At(u, "snapshot") /\ UNCHANGED <<store, left, orphans, restore>>
      /\ Advance(u, mem, n, s)
  BY DEF Snapshot, Quiet
<1>2. /\ First(todo[u]) = "snapshot" /\ Second(todo[u]) = First(s)
      /\ s \in Seq(StageName) /\ Script(s, l.op) /\ Runs(l.op, "snapshot")
      /\ Then(l.op, "snapshot", First(s))
      /\ StoreIs(store) /\ Sticky(store, mem, l) /\ Steady
      /\ Place(store, todo[u], mem, l, left[u])
  BY <1>1, AtStage
<1>3. /\ mem \in MemType /\ l \in LocType /\ IsEmpty(orphans) /\ TypeOK
  BY DEF Stands
<1>4. One(left[u], {}) /\ mem.promise = 0
  BY <1>2 DEF Place, Steady
<1>5. /\ n \in LocType /\ n.op = l.op /\ n.kr = l.kr /\ n.pw = l.pw
      /\ n.npw = l.npw /\ n.ser = l.ser /\ n.defer = l.defer
  <2>1. Members(mem.keyrings) \subseteq Keyring
    BY DEF Members
  <2> QED BY <1>3, <2>1 DEF LocType
<1> HIDE DEF n, l, s, T
<1>6. Goal(store, n) = Goal(store, l) /\ Sticky(store, mem, n)
  BY <1>2, <1>5 DEF Goal, Sticky
<1>7. Place(store, s, mem, n, left[u]) /\ First(s) # "join" /\ s # <<>>
  <2>1. CASE l.op = "changePw"
    <3>1. First(s) = "encryptNew"
      BY <1>2, <2>1 DEF Then, Shows
    <3>2. Rekeys(store, todo[u], mem, l)
      BY <1>2, <2>1 DEF Place, Rekeying
    <3>3. Rekeys(store, s, mem, n)
      BY <1>2, <1>5, <3>1, <3>2 DEF Rekeys
    <3> QED BY <1>4, <1>5, <2>1, <3>1, <3>3
               DEF Place, Unlocks, Calm, Shows, First
  <2>2. CASE l.op # "changePw"
    <3>1. First(s) \in {"encrypt", "writeSnapshot"}
      BY <1>2, <2>2 DEF Then, Shows
    <3>2. Saved(store, todo[u], mem, l)
      BY <1>2, <2>2 DEF Place
    <3>3. Saved(store, s, mem, n)
      BY <1>2, <1>5, <1>6, <3>1, <3>2 DEF Saved, Encrypts, Rewrites, Plain
    <3> QED BY <1>4, <1>5, <2>2, <3>1, <3>3, SavedPlace DEF Plain
  <2> QED BY <2>1, <2>2
<1>8. Arrives(u, mem, n, s)
  BY <1>1, <1>2, <1>3, <1>4, <1>5, <1>6, <1>7 DEF Arrives
<1> QED BY <1>1, <1>2, <1>3, <1>8, Arrival

LEMMA EncryptBook ==
  ASSUME NEW u \in Proc, Stands(u), Encrypt(u)
  PROVE  BookInv(u)'
<1> DEFINE l == loc[u]
           r == Rest(u)
           s == <<"write">> \o r
           n == [l EXCEPT !.key = mem.password]
<1>1. /\ At(u, "encrypt") /\ UNCHANGED <<store, left, orphans, restore>>
      /\ \/ mem.password = NoPassword \/ Advance(u, mem, n, s)
  BY DEF Encrypt, Quiet
<1>2. /\ First(todo[u]) = "encrypt"
      /\ r \in Seq(StageName) /\ Script(r, l.op) /\ Runs(l.op, "encrypt")
      /\ Then(l.op, "encrypt", First(r)) /\ \A i \in DOMAIN r : r[i] \notin Plain
      /\ StoreIs(store) /\ Sticky(store, mem, l) /\ Steady
      /\ Place(store, todo[u], mem, l, left[u])
  BY <1>1, AtStage
<1>3. /\ mem \in MemType /\ l \in LocType /\ IsEmpty(orphans) /\ TypeOK
  BY DEF Stands
<1>4. l.op \in {"submit", "add", "remove"} /\ One(left[u], {}) /\ mem.promise = 0
  BY <1>2 DEF Runs, May, Opening, Saving, Plain, Shows, Rekeying, Place, Steady
<1>5. Saved(store, todo[u], mem, l)
  BY <1>2, <1>4 DEF Place
<1>6. Opened(store, mem, Goal(store, l)) /\ mem.ready /\ One(l.ser, Goal(store, l))
  BY <1>2, <1>5 DEF Saved, Encrypts
<1>7. Advance(u, mem, n, s)
  BY <1>1, <1>6 DEF Opened
<1>8. /\ n \in LocType /\ n.op = l.op /\ n.kr = l.kr /\ n.pw = l.pw
      /\ n.npw = l.npw /\ n.ser = l.ser
  BY <1>3 DEF LocType, MemType
<1>9. "write" \in StageName /\ "write" \notin Plain /\ Runs(l.op, "write")
      /\ Then(l.op, "write", First(r)) /\ First(r) # "public"
  BY <1>2, <1>4 DEF StageName, Plain, Runs, May, Saving, Then, Shows
<1>10. s \in Seq(StageName) /\ First(s) = "write" /\ Script(s, l.op)
  BY <1>2, <1>9, PrependStage
<1> HIDE DEF n, l, r, s
<1>11. Goal(store, n) = Goal(store, l) /\ Sticky(store, mem, n)
  BY <1>2, <1>8 DEF Goal, Sticky
<1>12. Saved(store, s, mem, n)
  BY <1>6, <1>8, <1>10, <1>11 DEF Saved, Encrypts, Rewrites, Plain
<1>13. Place(store, s, mem, n, left[u]) /\ First(s) # "join" /\ s # <<>>
  BY <1>4, <1>8, <1>10, <1>12, SavedPlace
<1>14. Arrives(u, mem, n, s)
  BY <1>1, <1>2, <1>3, <1>4, <1>8, <1>10, <1>11, <1>13 DEF Arrives
<1> QED BY <1>1, <1>2, <1>3, <1>7, <1>14, Arrival

\* A chain is at a stage that writes.
LEMMA WriteBook ==
  ASSUME NEW u \in Proc, Stands(u), Write(u)
  PROVE  BookInv(u)' /\ Recoverable(store') = Goal(store, loc[u])
<1> DEFINE l == loc[u]
           s == Rest(u)
           T == Goal(store, l)
<1>1. /\ At(u, "write") /\ UNCHANGED <<left, orphans, restore>>
      /\ store' = Written(store, l.key, l) /\ Advance(u, mem, l, s)
  BY DEF Write
<1>2. /\ First(todo[u]) = "write"
      /\ s \in Seq(StageName) /\ Script(s, l.op) /\ Runs(l.op, "write")
      /\ Then(l.op, "write", First(s))
      /\ StoreIs(store) /\ Sticky(store, mem, l) /\ Steady
      /\ Place(store, todo[u], mem, l, left[u])
  BY <1>1, AtStage
<1>3. /\ mem \in MemType /\ l \in LocType /\ IsEmpty(orphans) /\ TypeOK
      /\ store \in StoreType /\ l.key \in OptPassword
  BY DEF Stands, LocType
<1>4. l.op \in {"submit", "add", "remove"} /\ One(left[u], {})
  BY <1>2 DEF Runs, May, Opening, Saving, Plain, Shows, Rekeying, Place
<1>5. Saved(store, todo[u], mem, l)
  BY <1>2, <1>4 DEF Place
<1>6. Opened(store, mem, T) /\ mem.ready /\ One(l.ser, T)
  BY <1>2, <1>5 DEF Saved, Encrypts
<1>7. T \in SUBSET Keyring
  <2>1. Recoverable(store) \subseteq Keyring
    BY <1>3, RecoverableFacts
  <2> QED BY <1>2, <2>1 DEF Goal, Sticky
<1>8. store.booted # NoPassword
  BY <1>2, <1>4 DEF Sticky
<1> HIDE DEF l, s, T
<1>9. /\ Recoverable(store') = T /\ StoreIs(store') /\ store'.unenc # Absent
      /\ store'.booted = store.booted
  <2> DEFINE e == Written(store, l.key, l)
             f == [e EXCEPT !.booted = l.key]
  <2>1. /\ Recoverable(e) = T /\ e.vault # NoVault /\ e.unenc # Absent
        /\ e.booted = store.booted /\ (store.booted # NoPassword => StoreIs(e))
        /\ f.vault = e.vault /\ f.unenc = e.unenc /\ f.booted = l.key
        /\ Recoverable(f) = T /\ (l.key # NoPassword => StoreIs(f))
    BY <1>3, <1>6, <1>7, WrittenFacts, Zenon
  <2>2. store' = e
    BY <1>1
  <2> HIDE DEF e, f
  <2> QED BY <1>8, <2>1, <2>2
<1>10. Sticky(store', mem, l)
  BY <1>2, <1>9 DEF Sticky
<1>11. Session(store', mem, Recoverable(store'))
  BY <1>6, <1>9 DEF Session, Opened
<1>12. First(s) \in {"end", "display"} /\ Calm(s, l)
  BY <1>2, <1>4 DEF Then, Calm, Shows
<1>13. BookInv(u)'
  BY <1>1, <1>2, <1>3, <1>4, <1>9, <1>10, <1>11, <1>12, CalmArrives
<1> QED BY <1>9, <1>13 DEF T, l

\* The stages of persistUnencryptedKeyrings.
LEMMA PlainFacts ==
  ASSUME NEW u \in Proc, Stands(u), NEW st \in Plain, At(u, st)
  PROVE  /\ loc[u].op \in {"add", "remove"} /\ One(left[u], {}) /\ ~mem.unlocked
         /\ Closed(store, mem, Goal(store, loc[u])) /\ mem.promise = 0
         /\ One(loc[u].ser, Goal(store, loc[u]) \cap Public)
         /\ loc[u].kr \in Public /\ store.unenc # Absent
         /\ store.booted # NoPassword
<1>1. /\ First(todo[u]) = st /\ Runs(loc[u].op, st) /\ Sticky(store, mem, loc[u])
      /\ Place(store, todo[u], mem, loc[u], left[u])
  BY AtStage
<1>2. loc[u].op \in {"add", "remove"} /\ One(left[u], {})
  BY <1>1 DEF Runs, May, Opening, Saving, Plain, Shows, Rekeying, Place
<1>3. Saved(store, todo[u], mem, loc[u])
  BY <1>1, <1>2 DEF Place
<1>4. /\ Closed(store, mem, Goal(store, loc[u]))
      /\ One(loc[u].ser, Goal(store, loc[u]) \cap Public)
  BY <1>1, <1>3 DEF Saved, Rewrites
<1>5. ~mem.unlocked /\ mem.promise = 0
  BY <1>4 DEF Closed, Shut
<1> QED BY <1>1, <1>2, <1>4, <1>5 DEF Sticky

LEMMA WriteSnapshotBook ==
  ASSUME NEW u \in Proc, Stands(u), WriteSnapshot(u)
  PROVE  BookInv(u)' /\ Recoverable(store') = Recoverable(store)
<1> DEFINE l == loc[u]
           s == Rest(u)
           T == Goal(store, l)
<1>1. /\ At(u, "writeSnapshot") /\ UNCHANGED <<left, orphans, restore>>
      /\ store' = [store EXCEPT !.snap = (@ \ {l.kr}) \cup l.snp]
      /\ Advance(u, mem, l, s)
  BY DEF WriteSnapshot
<1>2. /\ First(todo[u]) = "writeSnapshot"
      /\ s \in Seq(StageName) /\ Script(s, l.op)
      /\ Then(l.op, "writeSnapshot", First(s))
      /\ StoreIs(store) /\ Sticky(store, mem, l) /\ Steady
  BY <1>1, AtStage
<1>3. /\ mem \in MemType /\ l \in LocType /\ IsEmpty(orphans) /\ TypeOK
      /\ store \in StoreType
  BY DEF Stands
<1>4. /\ l.op \in {"add", "remove"} /\ One(left[u], {}) /\ Closed(store, mem, T)
      /\ One(l.ser, T \cap Public) /\ store.unenc # Absent /\ mem.promise = 0
  BY <1>1, PlainFacts DEF Plain
<1>5. /\ store'.vault = store.vault /\ store'.unenc = store.unenc
      /\ store'.booted = store.booted
  BY <1>1, <1>3 DEF StoreType
<1> HIDE DEF l, s, T
<1>6. StoreIs(store')
  BY <1>2, <1>4, <1>5 DEF StoreIs
<1>7. Recoverable(store') = Recoverable(store)
  BY <1>5 DEF Recoverable
<1>8. Goal(store', l) = T /\ Sticky(store', mem, l)
  BY <1>2, <1>5, <1>7 DEF Goal, Sticky, T, l
<1>9. Closed(store', mem, T)
  BY <1>4, <1>5 DEF Closed, Displayed
<1>10. First(s) = "writeUnencrypted"
  BY <1>2 DEF Then, Shows
<1>11. Saved(store', s, mem, l)
  BY <1>4, <1>8, <1>9, <1>10 DEF Saved, Encrypts, Rewrites, Plain
<1>12. Place(store', s, mem, l, left'[u]) /\ First(s) # "join" /\ s # <<>>
  BY <1>1, <1>4, <1>10, <1>11, SavedPlace DEF Plain
<1>13. Arrives(u, mem, l, s)
  BY <1>1, <1>2, <1>3, <1>4, <1>6, <1>8, <1>12 DEF Arrives
<1>14. BookInv(u)'
  BY <1>1, <1>2, <1>3, <1>13, Arrival
<1> QED BY <1>7, <1>14

LEMMA WriteUnencryptedBook ==
  ASSUME NEW u \in Proc, Stands(u), WriteUnencrypted(u)
  PROVE  /\ BookInv(u)' /\ Recoverable(store') = Goal(store, loc[u])
<1> DEFINE l == loc[u]
           s == Rest(u)
           T == Goal(store, l)
           b == Keep(l.ser, Public)
<1>1. /\ At(u, "writeUnencrypted") /\ UNCHANGED <<left, orphans, restore>>
      /\ store' = [store EXCEPT !.unenc = b] /\ Advance(u, mem, l, s)
  BY DEF WriteUnencrypted
<1>2. /\ First(todo[u]) = "writeUnencrypted"
      /\ s \in Seq(StageName) /\ Script(s, l.op)
      /\ Then(l.op, "writeUnencrypted", First(s))
      /\ StoreIs(store) /\ Sticky(store, mem, l) /\ Steady
  BY <1>1, AtStage
<1>3. /\ mem \in MemType /\ l \in LocType /\ IsEmpty(orphans) /\ TypeOK
      /\ store \in StoreType /\ l.ser \in Bag
  BY DEF Stands, LocType
<1>4. /\ l.op \in {"add", "remove"} /\ One(left[u], {}) /\ Closed(store, mem, T)
      /\ One(l.ser, T \cap Public) /\ store.unenc # Absent
      /\ l.kr \in Public /\ ~mem.unlocked
  BY <1>1, PlainFacts DEF Plain
<1>5. /\ b \in Bag /\ One(b, (T \cap Public) \cap Public)
      /\ \A x \in Keyring : b[x] <= l.ser[x] /\ (b[x] > 0 => x \in Public)
  BY <1>3, <1>4, KeepFacts
<1>6. (T \cap Public) \cap Public = T \cap Public /\ T \cap Public \in SUBSET Keyring
  BY Disjoint
<1>7. b # Absent /\ Members(b) = T \cap Public
  BY <1>5, <1>6, OneFacts, AbsenceAssumption DEF AbsenceAssumption
<1>8. \A x \in Keyring : b[x] <= 1
  <2>1. \A x \in Keyring : b[x] \in Nat
    BY <1>5, Counts
  <2> QED BY <1>5, <2>1 DEF One, Once
<1> HIDE DEF b
<1>9. /\ store'.vault = store.vault /\ store'.unenc = b
      /\ store'.booted = store.booted
  BY <1>1, <1>3 DEF StoreType
<1>10. StoreIs(store')
  BY <1>2, <1>4, <1>5, <1>7, <1>8, <1>9 DEF StoreIs
<1>11. Recoverable(store') = T
  <2> DEFINE V == IF store.vault = NoVault THEN {} ELSE Members(store.vault.krs)
  <2>1. Recoverable(store) = (V \cap Sensitive) \cup (Members(store.unenc) \cap Public)
    BY <1>4 DEF Recoverable
  <2>2. Recoverable(store') = (V \cap Sensitive) \cup (Members(b) \cap Public)
    BY <1>7, <1>9 DEF Recoverable
  <2> HIDE DEF V
  <2>3. T \subseteq Sensitive \cup Public /\ T \cap Sensitive = V \cap Sensitive
    BY <1>4, <2>1, Disjoint DEF Goal
  <2> QED BY <1>7, <2>2, <2>3, Disjoint
<1> HIDE DEF l, s, T
<1>12. Sticky(store', mem, l)
  BY <1>2, <1>7, <1>9 DEF Sticky
<1>13. Session(store', mem, Recoverable(store'))
  BY <1>4, <1>7, <1>9, <1>11 DEF Session, Closed, Displayed
<1>14. First(s) = "display" /\ Calm(s, l)
  BY <1>2, <1>4 DEF Then, Calm, Shows
<1>15. BookInv(u)'
  BY <1>1, <1>2, <1>3, <1>4, <1>10, <1>12, <1>13, <1>14, CalmArrives
<1> QED BY <1>11, <1>15 DEF T, l

-----------------------------------------------------------------------------
(* The stages of an addition and of a removal.                             *)

\* At a stage that relies on the session alone.
LEMMA CalmFacts ==
  ASSUME NEW u \in Proc, Stands(u), NEW st, At(u, st),
         st \in {"assert", "duplicate", "compare", "push", "remove", "acknowledge"}
  PROVE  /\ Session(store, mem, Recoverable(store)) /\ One(left[u], {})
         /\ mem.submitting => loc[u].op = "submit"
         /\ st # "remove" => loc[u].op = "add"
         /\ st = "remove" => loc[u].op = "remove"
         /\ mem.launched /\ loc[u].kr \in Keyring
         /\ mem.unlocked \/ (loc[u].kr \in Public /\ store.unenc # Absent)
<1>1. /\ First(todo[u]) = st /\ Runs(loc[u].op, st) /\ Sticky(store, mem, loc[u])
      /\ Place(store, todo[u], mem, loc[u], left[u])
  BY AtStage
<1>2. /\ st # "remove" => loc[u].op = "add"
      /\ st = "remove" => loc[u].op = "remove"
  BY <1>1 DEF Runs, May, Opening, Saving, Plain, Shows, Rekeying
<1>3. Session(store, mem, Recoverable(store)) /\ One(left[u], {})
  BY <1>1 DEF Place, Calm
<1> QED BY <1>1, <1>2, <1>3 DEF Sticky

LEMMA AssertBook ==
  ASSUME NEW u \in Proc, Stands(u), AssertCanPersist(u)
  PROVE  BookInv(u)'
<1> DEFINE l == loc[u]
           s == Rest(u)
<1>1. /\ At(u, "assert") /\ UNCHANGED <<store, left, orphans, restore>>
      /\ Advance(u, mem, l, s) \/ Advance(u, mem, l, <<>>)
  BY DEF AssertCanPersist, Quiet, Throw
<1>2. /\ s \in Seq(StageName) /\ Script(s, l.op)
      /\ Then(l.op, "assert", First(s))
      /\ StoreIs(store) /\ Sticky(store, mem, l) /\ Steady
  BY <1>1, AtStage
<1>3. /\ mem \in MemType /\ l \in LocType /\ IsEmpty(orphans) /\ TypeOK
  BY DEF Stands
<1>4. /\ Session(store, mem, Recoverable(store)) /\ One(left[u], {})
      /\ mem.submitting => l.op = "submit"
  BY <1>1, CalmFacts
<1>5. First(s) = "duplicate"
  BY <1>2 DEF Then, Shows
<1>6. CASE Advance(u, mem, l, s)
  BY <1>1, <1>2, <1>3, <1>4, <1>5, <1>6, CalmArrives DEF Calm
<1>7. CASE Advance(u, mem, l, <<>>)
  BY <1>1, <1>2, <1>3, <1>4, <1>7, Ends
<1> QED BY <1>1, <1>6, <1>7

LEMMA AcknowledgeBook ==
  ASSUME NEW u \in Proc, Stands(u), Acknowledge(u)
  PROVE  BookInv(u)'
<1> DEFINE l == loc[u]
           s == Rest(u)
<1>1. /\ At(u, "acknowledge") /\ UNCHANGED <<store, left, orphans, restore>>
      /\ Advance(u, mem, l, s)
  BY DEF Acknowledge, Quiet
<1>2. /\ s \in Seq(StageName) /\ Script(s, l.op)
      /\ Then(l.op, "acknowledge", First(s))
      /\ StoreIs(store) /\ Sticky(store, mem, l) /\ Steady
  BY <1>1, AtStage
<1>3. /\ mem \in MemType /\ l \in LocType /\ IsEmpty(orphans) /\ TypeOK
  BY DEF Stands
<1>4. Session(store, mem, Recoverable(store)) /\ One(left[u], {})
  BY <1>1, CalmFacts
<1>5. First(s) = "end"
  BY <1>2 DEF Then, Shows
<1> QED BY <1>1, <1>2, <1>3, <1>4, <1>5, CalmArrives DEF Calm

\* A keyring that a complete list has not got is not on disk.
LEMMA NotHeld ==
  ASSUME NEW d \in StoreType, NEW m \in MemType, NEW k \in Keyring,
         Session(d, m, Recoverable(d)), m.launched, m.keyrings[k] = 0,
         m.unlocked \/ (k \in Public /\ d.unenc # Absent),
         \/ ~m.unlocked \/ m.ready \/ m.pending = Absent
         \/ k \notin Members(m.pending.data) \cup Members(m.pending.pub)
  PROVE  k \notin Recoverable(d)
<1> DEFINE T == Recoverable(d)
<1>1. ASSUME One(m.keyrings, T)
      PROVE  k \notin T
  BY <1>1 DEF One, Once
<1>2. CASE ~m.unlocked
  <2>1. One(m.keyrings, Displayed(d, T)) /\ k \in Public /\ d.unenc # Absent
    BY <1>2 DEF Session, Opened, Closed
  <2> QED BY <2>1 DEF One, Once, Displayed
<1>3. CASE m.unlocked /\ (m.ready \/ m.pending = Absent)
  <2>1. One(m.keyrings, T)
    BY <1>3 DEF Session, Opened, Closed, Shut
  <2> QED BY <1>1, <2>1
<1>4. CASE m.unlocked /\ ~m.ready /\ m.pending # Absent
  <2>1. /\ Three(m.keyrings, m.pending.data, m.pending.pub, T)
        /\ k \notin Members(m.pending.data) \cup Members(m.pending.pub)
    BY <1>4 DEF Session, Opened, Closed, Shut
  <2>2. m.pending.data \in Bag /\ m.pending.pub \in Bag
    BY <1>4 DEF MemType, Pending
  <2>3. /\ m.pending.data[k] \in Nat /\ m.pending.pub[k] \in Nat
        /\ ~(m.pending.data[k] > 0) /\ ~(m.pending.pub[k] > 0)
    BY <2>1, <2>2, Counts
  <2>4. m.keyrings[k] + m.pending.data[k] + m.pending.pub[k] = 0
    BY <2>3
  <2> QED BY <2>1, <2>4 DEF Three, Once
<1> QED BY <1>2, <1>3, <1>4

\* The account is not there yet, and the addition goes on.
LEMMA CheckedArrives ==
  ASSUME NEW u \in Proc, Stands(u), Steady,
         NEW st \in {"duplicate", "compare"}, At(u, st),
         UNCHANGED <<store, left, orphans, restore>>,
         \/ ~mem.unlocked \/ mem.ready \/ mem.pending = Absent
         \/ loc[u].kr \notin Members(mem.pending.data) \cup Members(mem.pending.pub)
         \/ mem.keyrings[loc[u].kr] # 0,
         compareAccounts(u, mem, loc[u], Rest(u))
  PROVE  BookInv(u)'
<1> DEFINE l == loc[u]
           s == Rest(u)
<1>1. IF mem.keyrings[l.kr] > 0 THEN Advance(u, mem, l, <<>>)
      ELSE Advance(u, mem, l, s)
  BY DEF compareAccounts, Throw
<1>2. /\ s \in Seq(StageName) /\ Script(s, l.op) /\ Then(l.op, st, First(s))
      /\ StoreIs(store) /\ Sticky(store, mem, l)
  BY AtStage
<1>3. /\ mem \in MemType /\ l \in LocType /\ IsEmpty(orphans) /\ TypeOK
      /\ store \in StoreType /\ mem.keyrings \in Bag
  BY DEF Stands, MemType
<1>4. /\ Session(store, mem, Recoverable(store)) /\ One(left[u], {})
      /\ mem.submitting => l.op = "submit"
      /\ l.op = "add" /\ mem.launched /\ l.kr \in Keyring
      /\ mem.unlocked \/ (l.kr \in Public /\ store.unenc # Absent)
  BY CalmFacts
<1>5. CASE mem.keyrings[l.kr] > 0
  BY <1>1, <1>2, <1>3, <1>4, <1>5, Ends
<1>6. CASE ~(mem.keyrings[l.kr] > 0)
  <2>1. mem.keyrings[l.kr] = 0
    <3>1. mem.keyrings[l.kr] \in Nat
      BY <1>3, <1>4, Count
    <3> QED BY <1>6, <3>1
  <2>2. l.kr \notin Recoverable(store)
    BY <1>3, <1>4, <2>1, NotHeld
  <2>3. First(s) = "push" /\ s # <<>> /\ mem.promise = 0
    BY <1>2 DEF Then, Shows, First, Steady
  <2>4. Place(store, s, mem, l, left[u])
    BY <1>4, <2>2, <2>3
       DEF Place, Unlocks, Shows, Saved, Encrypts, Rewrites, Plain
  <2>5. Arrives(u, mem, l, s)
    BY <1>2, <1>3, <2>3, <2>4 DEF Arrives
  <2> QED BY <1>1, <1>3, <1>6, <2>5, Arrival
<1> QED BY <1>5, <1>6

LEMMA CompareBook ==
  ASSUME NEW u \in Proc, Stands(u), Compare(u)
  PROVE  BookInv(u)'
<1>1. /\ At(u, "compare") /\ UNCHANGED <<store, left, orphans, restore>>
      /\ compareAccounts(u, mem, loc[u], Rest(u))
  BY DEF Compare, Quiet
<1>2. /\ First(todo[u]) = "compare" /\ Steady
      /\ Place(store, todo[u], mem, loc[u], left[u])
  BY <1>1, AtStage
<1>3. mem.ready
  BY <1>2 DEF Place
<1> QED BY <1>1, <1>2, <1>3, CheckedArrives

LEMMA CheckForDuplicateBook ==
  ASSUME NEW u \in Proc, Stands(u), TypeOK', CheckForDuplicate(u)
  PROVE  BookInv(u)'
<1> DEFINE l == loc[u]
           s == <<"compare">> \o Rest(u)
<1>1. /\ At(u, "duplicate") /\ UNCHANGED <<store, left, orphans>>
      /\ IF shouldWaitForType(mem, l.kr)
         THEN ensureKeyringRuntimeReady(u, mem, l, s)
         ELSE compareAccounts(u, mem, l, Rest(u)) /\ UNCHANGED restore
  BY DEF CheckForDuplicate, Quiet
<1>2. /\ Rest(u) \in Seq(StageName) /\ Script(Rest(u), l.op)
      /\ Then(l.op, "duplicate", First(Rest(u)))
      /\ \A i \in DOMAIN Rest(u) : Rest(u)[i] \notin Plain
      /\ StoreIs(store) /\ Sticky(store, mem, l) /\ Steady
  BY <1>1, AtStage
<1>3. /\ mem \in MemType /\ l \in LocType /\ IsEmpty(orphans) /\ TypeOK
  BY DEF Stands
<1>4. /\ Session(store, mem, Recoverable(store)) /\ One(left[u], {})
      /\ mem.submitting => l.op = "submit" /\ l.op = "add" /\ l.kr \in Keyring
      /\ mem.unlocked \/ (l.kr \in Public /\ store.unenc # Absent)
  BY <1>1, CalmFacts
<1>5. CASE shouldWaitForType(mem, l.kr)
  <2>1. mem.unlocked /\ ensureKeyringRuntimeReady(u, mem, l, s)
    BY <1>1, <1>5 DEF shouldWaitForType, shouldWaitForKeyringRuntime
  <2>2. Opened(store, mem, Recoverable(store))
    BY <1>4, <2>1 DEF Session, Closed, Shut
  <2>3. l.op = "add"
    BY <1>1, CalmFacts
  <2>4. First(Rest(u)) = "push"
    BY <1>2 DEF Then, Shows
  <2>5. /\ "compare" \in StageName /\ "compare" \notin Plain
        /\ Runs(l.op, "compare") /\ Runs(l.op, "join")
        /\ Then(l.op, "compare", "push") /\ Then(l.op, "join", "compare")
    BY <2>3 DEF StageName, Plain, Runs, May, Then
  <2>6. /\ s \in Seq(StageName) /\ First(s) = "compare" /\ Script(s, l.op)
        /\ \A i \in DOMAIN s : s[i] \notin Plain
    BY <1>2, <2>4, <2>5, PrependStage
  <2> HIDE DEF s
  <2>7. First(<<"join">> \o s) = "join" /\ Second(<<"join">> \o s) = "compare"
    BY <2>6, FirstPrepend DEF StageName
  <2>8. Aim(store, <<"join">> \o s, l) = Recoverable(store)
    BY <2>7 DEF Aim, Edits, Saving, Plain
  <2>9. MayJoin(u, mem, l, s)
    BY <1>1, <1>2, <1>3, <1>4, <2>2, <2>3, <2>5, <2>6, <2>8 DEF MayJoin
  <2> QED BY <1>2, <1>3, <1>4, <2>1, <2>9, EnsureArrives
<1>6. CASE ~shouldWaitForType(mem, l.kr)
  <2>1. compareAccounts(u, mem, l, Rest(u)) /\ UNCHANGED restore
    BY <1>1, <1>6
  <2>2. \/ ~mem.unlocked \/ mem.ready \/ mem.pending = Absent
        \/ l.kr \notin Members(mem.pending.data) \cup Members(mem.pending.pub)
        \/ mem.keyrings[l.kr] # 0
    BY <1>6 DEF shouldWaitForType, shouldWaitForKeyringRuntime,
                hasPendingRuntimeKeyringDataForType
  <2> QED BY <1>1, <1>2, <2>1, <2>2, CheckedArrives
<1> QED BY <1>5, <1>6

\* What the push makes of the session, and the removal.
LEMMA PushSession ==
  ASSUME NEW d \in StoreType, NEW m \in MemType, NEW k \in Keyring,
         Session(d, m, Recoverable(d)), m.launched, k \notin Recoverable(d),
         m.unlocked \/ (k \in Public /\ d.unenc # Absent)
  PROVE  LET n == [m EXCEPT !.keyrings = Push(@, k)]
         IN  n \in MemType /\ Session(d, n, Recoverable(d) \cup {k})
<1> DEFINE n == [m EXCEPT !.keyrings = Push(@, k)]
           T == Recoverable(d)
           U == T \cup {k}
<1>1. m.keyrings \in Bag
  BY DEF MemType
<1>2. /\ n.keyrings = Push(m.keyrings, k) /\ n.unlocked = m.unlocked
      /\ n.ready = m.ready /\ n.pending = m.pending /\ n.promise = m.promise
      /\ n.password = m.password /\ n.launched = m.launched
  BY DEF MemType
<1>3. n \in MemType
  <2>1. Push(m.keyrings, k) \in Bag
    BY <1>1, BagOps
  <2> QED BY <2>1 DEF MemType
<1> HIDE DEF n
<1>4. \A K : k \notin K /\ One(m.keyrings, K) => One(n.keyrings, K \cup {k})
  BY <1>1, <1>2, PushFacts
<1>5. CASE m.unlocked
  <2>1. Opened(d, m, T)
    BY <1>5 DEF Session, Closed, Shut
  <2>2. m.pending # Absent => m.pending.data \in Bag /\ m.pending.pub \in Bag
    BY DEF MemType, Pending
  <2>3. m.pending # Absent /\ Three(m.keyrings, m.pending.data, m.pending.pub, T) =>
          Three(n.keyrings, m.pending.data, m.pending.pub, U)
    BY <1>1, <1>2, <2>2, PushFacts
  <2> HIDE DEF T
  <2>4. Opened(d, n, T \cup {k})
    BY <1>2, <1>4, <2>1, <2>3 DEF Opened, T
  <2> QED BY <1>3, <2>4 DEF Session, n, T
<1>6. CASE ~m.unlocked
  <2>1. Closed(d, m, T)
    BY <1>6 DEF Session, Opened
  <2>2. Displayed(d, U) = Displayed(d, T) \cup {k} /\ k \notin Displayed(d, T)
    BY <1>6 DEF Displayed
  <2>3. One(m.keyrings, Displayed(d, T)) /\ m.launched
    BY <2>1 DEF Closed
  <2>4. One(n.keyrings, Displayed(d, U))
    BY <1>4, <2>2, <2>3
  <2>5. Closed(d, n, U)
    BY <1>2, <2>1, <2>3, <2>4 DEF Closed, Shut
  <2> QED BY <1>3, <2>5 DEF Session, n
<1> QED BY <1>5, <1>6

LEMMA DropSession ==
  ASSUME NEW d \in StoreType, NEW m \in MemType, NEW k \in Keyring,
         Session(d, m, Recoverable(d)), m.launched, m.keyrings[k] > 0,
         m.unlocked \/ (k \in Public /\ d.unenc # Absent)
  PROVE  LET n == [m EXCEPT !.keyrings = Drop(@, k)]
         IN  /\ n \in MemType /\ Session(d, n, Recoverable(d) \ {k})
             /\ k \in Recoverable(d)
<1> DEFINE n == [m EXCEPT !.keyrings = Drop(@, k)]
           T == Recoverable(d)
           U == T \ {k}
<1>1. m.keyrings \in Bag
  BY DEF MemType
<1>2. /\ n.keyrings = Drop(m.keyrings, k) /\ n.unlocked = m.unlocked
      /\ n.ready = m.ready /\ n.pending = m.pending /\ n.promise = m.promise
      /\ n.password = m.password /\ n.launched = m.launched
  BY DEF MemType
<1>3. n \in MemType
  <2>1. Drop(m.keyrings, k) \in Bag
    BY <1>1, BagOps
  <2> QED BY <2>1 DEF MemType
<1> HIDE DEF n
<1>4. \A K : One(m.keyrings, K) => One(n.keyrings, K \ {k}) /\ k \in K
  BY <1>1, <1>2, DropFacts
<1>5. CASE m.unlocked
  <2>1. Opened(d, m, T)
    BY <1>5 DEF Session, Closed, Shut
  <2>2. m.pending # Absent => m.pending.data \in Bag /\ m.pending.pub \in Bag
    BY DEF MemType, Pending
  <2>3. m.pending # Absent /\ Three(m.keyrings, m.pending.data, m.pending.pub, T) =>
          Three(n.keyrings, m.pending.data, m.pending.pub, U) /\ k \in T
    <3> DEFINE c == m.pending.data
               e == m.pending.pub
    <3> SUFFICES ASSUME c \in Bag, e \in Bag, Three(m.keyrings, c, e, T)
                 PROVE  Three(n.keyrings, c, e, U) /\ k \in T
      BY <2>2
    <3> HIDE DEF c, e, T
    <3>1. Three(Drop(m.keyrings, k), c, e, T \ {k}) /\ k \in T
      BY <1>1, DropFacts
    <3> QED BY <1>2, <3>1
  <2> HIDE DEF T
  <2>4. Opened(d, n, T \ {k}) /\ k \in T
    BY <1>2, <1>4, <2>1, <2>3 DEF Opened, T
  <2> QED BY <1>3, <2>4 DEF Session, n, T
<1>6. CASE ~m.unlocked
  <2>1. Closed(d, m, T)
    BY <1>6 DEF Session, Opened
  <2>2. Displayed(d, U) = Displayed(d, T) \ {k}
    BY <1>6 DEF Displayed
  <2>3. One(m.keyrings, Displayed(d, T)) /\ m.launched
    BY <2>1 DEF Closed
  <2>4. One(n.keyrings, Displayed(d, U)) /\ k \in T
    BY <1>4, <2>2, <2>3 DEF Displayed
  <2>5. Closed(d, n, U)
    BY <1>2, <2>1, <2>3, <2>4 DEF Closed, Shut
  <2> QED BY <1>3, <2>4, <2>5 DEF Session, n
<1> QED BY <1>5, <1>6

\* The keyrings in memory change, and a persist begins.
LEMMA MutationArrives ==
  ASSUME NEW u \in Proc, Stands(u), TypeOK', Steady,
         NEW st \in {"push", "remove"}, At(u, st),
         UNCHANGED <<store, left, orphans>>,
         NEW b \in Bag, [mem EXCEPT !.keyrings = b] \in MemType,
         Session(store, [mem EXCEPT !.keyrings = b], Goal(store, loc[u])),
         persistKeyringsForKeyring(u, [mem EXCEPT !.keyrings = b], loc[u],
                                   loc[u].kr, Rest(u))
  PROVE  BookInv(u)'
<1> DEFINE l == loc[u]
           s == Rest(u)
           m == [mem EXCEPT !.keyrings = b]
<1>1. /\ s \in Seq(StageName) /\ Script(s, l.op) /\ Then(l.op, st, First(s))
      /\ \A i \in DOMAIN s : s[i] \notin Plain
      /\ StoreIs(store) /\ Sticky(store, mem, l)
  BY AtStage
<1>2. /\ mem \in MemType /\ l \in LocType /\ IsEmpty(orphans) /\ TypeOK
  BY DEF Stands
<1>3. /\ One(left[u], {}) /\ l.op \in {"add", "remove"}
      /\ mem.submitting => l.op = "submit"
  BY CalmFacts
<1>4. /\ m \in MemType /\ m.unlocked = mem.unlocked /\ m.launched = mem.launched
      /\ m.submitting = mem.submitting
  BY <1>2 DEF MemType
<1>5. Session(store, m, Goal(store, l)) /\ persistKeyringsForKeyring(u, m, l, l.kr, s)
  OBVIOUS
<1> HIDE DEF m, l, s
<1>6. First(s) = "display"
  BY <1>1 DEF Then, Shows
<1>7. Then(l.op, "encrypt", First(s))
  BY <1>3, <1>6 DEF Then
<1>8. Sticky(store, m, l)
  BY <1>1, <1>4 DEF Sticky
<1>9. WillPersist(u, m, l, s)
  BY <1>1, <1>2, <1>3, <1>4, <1>7, <1>8 DEF WillPersist
<1>10. loc[u] \in LocType /\ (m.submitting => loc[u].op = "submit")
  BY <1>2, <1>3, <1>4 DEF l
<1> QED BY <1>2, <1>3, <1>5, <1>9, <1>10, PersistArrives

LEMMA PushBook ==
  ASSUME NEW u \in Proc, Stands(u), TypeOK', PushKeyring(u)
  PROVE  BookInv(u)'
<1> DEFINE k == loc[u].kr
           m == [mem EXCEPT !.keyrings = Push(@, k)]
           b == Push(mem.keyrings, k)
<1>1. /\ At(u, "push") /\ UNCHANGED <<store, left, orphans>>
      /\ persistKeyringsForKeyring(u, m, loc[u], k, Rest(u))
  BY DEF PushKeyring, Quiet
<1>2. /\ First(todo[u]) = "push" /\ Steady
      /\ Place(store, todo[u], mem, loc[u], left[u])
  BY <1>1, AtStage
<1>3. k \notin Recoverable(store)
  BY <1>2 DEF Place
<1>4. /\ Session(store, mem, Recoverable(store)) /\ loc[u].op = "add"
      /\ mem.launched /\ k \in Keyring
      /\ mem.unlocked \/ (k \in Public /\ store.unenc # Absent)
  BY <1>1, CalmFacts
<1>5. mem \in MemType /\ store \in StoreType /\ mem.keyrings \in Bag
  BY DEF Stands, MemType
<1>6. m \in MemType /\ Session(store, m, Recoverable(store) \cup {k})
  BY <1>3, <1>4, <1>5, PushSession
<1>7. Goal(store, loc[u]) = Recoverable(store) \cup {k}
  BY <1>4 DEF Goal
<1>8. b \in Bag /\ m = [mem EXCEPT !.keyrings = b]
  BY <1>5, BagOps DEF MemType
<1> HIDE DEF b, m
<1> QED BY <1>1, <1>2, <1>6, <1>7, <1>8, MutationArrives

LEMMA RemoveBook ==
  ASSUME NEW u \in Proc, Stands(u), TypeOK', RemoveKeyring(u)
  PROVE  BookInv(u)'
<1> DEFINE k == loc[u].kr
           m == [mem EXCEPT !.keyrings = Drop(@, k)]
           b == Drop(mem.keyrings, k)
<1>1. /\ At(u, "remove") /\ UNCHANGED <<store, left, orphans>>
      /\ \/ Advance(u, mem, loc[u], <<>>) /\ UNCHANGED restore
         \/ /\ mem.keyrings[k] # 0
            /\ persistKeyringsForKeyring(u, m, loc[u], k, Rest(u))
  BY DEF RemoveKeyring, Quiet, Throw
<1>2. /\ First(todo[u]) = "remove" /\ Steady /\ StoreIs(store)
  BY <1>1, AtStage
<1>3. /\ Session(store, mem, Recoverable(store)) /\ loc[u].op = "remove"
      /\ mem.launched /\ k \in Keyring /\ One(left[u], {})
      /\ mem.submitting => loc[u].op = "submit"
      /\ mem.unlocked \/ (k \in Public /\ store.unenc # Absent)
  BY <1>1, CalmFacts
<1>4. /\ mem \in MemType /\ store \in StoreType /\ mem.keyrings \in Bag
      /\ loc[u] \in LocType /\ IsEmpty(orphans) /\ TypeOK
  BY DEF Stands, MemType
<1>5. CASE Advance(u, mem, loc[u], <<>>) /\ UNCHANGED restore
  BY <1>1, <1>2, <1>3, <1>4, <1>5, Ends
<1>6. CASE /\ mem.keyrings[k] # 0
           /\ persistKeyringsForKeyring(u, m, loc[u], k, Rest(u))
  <2>1. mem.keyrings[k] > 0
    <3>1. mem.keyrings[k] \in Nat
      BY <1>3, <1>4, Count
    <3> QED BY <1>6, <3>1
  <2>2. m \in MemType /\ Session(store, m, Recoverable(store) \ {k})
    BY <1>3, <1>4, <2>1, DropSession
  <2>3. Goal(store, loc[u]) = Recoverable(store) \ {k}
    BY <1>3 DEF Goal
  <2>4. b \in Bag /\ m = [mem EXCEPT !.keyrings = b]
    BY <1>4, BagOps DEF MemType
  <2> HIDE DEF b, m
  <2> QED BY <1>1, <1>2, <1>6, <2>2, <2>3, <2>4, MutationArrives
<1> QED BY <1>1, <1>5, <1>6

-----------------------------------------------------------------------------
(* The stages of a change of password.                                     *)

\* At a stage that only a change of password has.
LEMMA RekeyingFacts ==
  ASSUME NEW u \in Proc, Stands(u), NEW st, At(u, st),
         st \in {"rekey", "collect", "encryptNew", "writeNew", "relock"}
  PROVE  /\ loc[u].op = "changePw" /\ Rekeys(store, todo[u], mem, loc[u])
         /\ One(left[u], {}) /\ mem.promise = 0 /\ loc[u].npw \in Password
         /\ mem.submitting => loc[u].op = "submit"
<1>1. /\ First(todo[u]) = st /\ Runs(loc[u].op, st) /\ Sticky(store, mem, loc[u])
      /\ Place(store, todo[u], mem, loc[u], left[u]) /\ Steady
  BY AtStage
<1>2. loc[u].op = "changePw"
  BY <1>1 DEF Runs, May, Opening, Saving, Plain, Shows
<1> QED BY <1>1, <1>2 DEF Place, Rekeying, Sticky, Steady

\* A stage of it that stays in memory.
LEMMA RekeyArrives ==
  ASSUME NEW u \in Proc, TypeOK, Steady, UNCHANGED restore,
         NEW m \in MemType, NEW l \in LocType, NEW s \in Seq(StageName),
         Script(s, l.op), l.op = "changePw", First(s) \in Rekeying,
         StoreIs(store'), IsEmpty(orphans'), One(left'[u], {}),
         Sticky(store', m, l), m.promise = 0, Rekeys(store', s, m, l),
         Advance(u, m, l, s)
  PROVE  BookInv(u)'
<1>1. s # <<>> /\ First(s) # "join"
  BY DEF First, Rekeying
<1>2. Place(store', s, m, l, left'[u])
  BY DEF Place, Unlocks, Calm, Shows, Rekeying
<1>3. Arrives(u, m, l, s)
  BY <1>1, <1>2 DEF Arrives
<1> QED BY <1>3, Arrival

LEMMA RekeyBook ==
  ASSUME NEW u \in Proc, Stands(u), TypeOK', Rekey(u)
  PROVE  BookInv(u)'
<1> DEFINE l == loc[u]
           r == Rest(u)
           s == <<"collect">> \o r
           n == [l EXCEPT !.ser = mem.keyrings]
           T == Recoverable(store)
<1>1. /\ At(u, "rekey") /\ UNCHANGED <<store, left, orphans>>
      /\ IF shouldWaitForKeyringRuntime(mem)
         THEN ensureKeyringRuntimeReady(u, mem, l, s)
         ELSE Advance(u, mem, n, r) /\ UNCHANGED restore
  BY DEF Rekey, Quiet
<1>2. /\ First(todo[u]) = "rekey"
      /\ r \in Seq(StageName) /\ Script(r, l.op) /\ Then(l.op, "rekey", First(r))
      /\ \A i \in DOMAIN r : r[i] \notin Plain
      /\ StoreIs(store) /\ Sticky(store, mem, l) /\ Steady
  BY <1>1, AtStage
<1>3. /\ mem \in MemType /\ l \in LocType /\ IsEmpty(orphans) /\ TypeOK
  BY DEF Stands
<1>4. /\ l.op = "changePw" /\ Rekeys(store, todo[u], mem, l)
      /\ One(left[u], {}) /\ mem.promise = 0
      /\ mem.submitting => l.op = "submit"
  BY <1>1, RekeyingFacts
<1>5. First(r) = "snapshot"
  BY <1>2 DEF Then, Shows
<1>6. CASE shouldWaitForKeyringRuntime(mem)
  <2>1. mem.unlocked /\ ensureKeyringRuntimeReady(u, mem, l, s)
    BY <1>1, <1>6 DEF shouldWaitForKeyringRuntime
  <2>2. Opened(store, mem, T) /\ l.defer
    BY <1>4, <2>1 DEF Rekeys
  <2>3. /\ "collect" \in StageName /\ "collect" \notin Plain
        /\ Runs(l.op, "collect") /\ Runs(l.op, "join")
        /\ Then(l.op, "collect", First(r)) /\ Then(l.op, "join", "collect")
    BY <1>4, <1>5 DEF StageName, Plain, Runs, Rekeying, Then
  <2>4. /\ s \in Seq(StageName) /\ First(s) = "collect" /\ Script(s, l.op)
        /\ \A i \in DOMAIN s : s[i] \notin Plain
    BY <1>2, <1>5, <2>3, PrependStage
  <2> HIDE DEF s
  <2>5. First(<<"join">> \o s) = "join" /\ Second(<<"join">> \o s) = "collect"
    BY <2>4, FirstPrepend DEF StageName
  <2>6. Aim(store, <<"join">> \o s, l) = T
    BY <2>5 DEF Aim, Edits, Saving, Plain
  <2>7. MayJoin(u, mem, l, s)
    BY <1>1, <1>2, <1>3, <1>4, <2>2, <2>3, <2>4, <2>6 DEF MayJoin
  <2> QED BY <1>2, <1>3, <1>4, <2>1, <2>7, EnsureArrives
<1>7. CASE ~shouldWaitForKeyringRuntime(mem)
  <2>1. Advance(u, mem, n, r) /\ UNCHANGED restore
    BY <1>1, <1>7
  <2>2. /\ n \in LocType /\ n.op = l.op /\ n.kr = l.kr /\ n.pw = l.pw
        /\ n.npw = l.npw /\ n.ser = mem.keyrings /\ n.defer = l.defer
    BY <1>3 DEF LocType, MemType
  <2> HIDE DEF n, l, r
  <2>3. One(mem.keyrings, T) /\ (mem.unlocked => mem.ready)
    BY <1>4, <1>7 DEF Rekeys, Opened, shouldWaitForKeyringRuntime
  <2>4. Rekeys(store, r, mem, n)
    BY <1>2, <1>4, <1>5, <2>2, <2>3 DEF Rekeys
  <2>5. Sticky(store, mem, n)
    BY <1>2, <2>2 DEF Sticky
  <2> QED BY <1>1, <1>2, <1>3, <1>4, <1>5, <2>1, <2>2, <2>4, <2>5, RekeyArrives
             DEF Rekeying
<1> QED BY <1>6, <1>7

LEMMA CollectBook ==
  ASSUME NEW u \in Proc, Stands(u), Collect(u)
  PROVE  BookInv(u)'
<1> DEFINE l == loc[u]
           s == Rest(u)
           n == [l EXCEPT !.ser = mem.keyrings]
<1>1. /\ At(u, "collect") /\ UNCHANGED <<store, left, orphans, restore>>
      /\ Advance(u, mem, n, s)
  BY DEF Collect, Quiet
<1>2. /\ First(todo[u]) = "collect"
      /\ s \in Seq(StageName) /\ Script(s, l.op) /\ Then(l.op, "collect", First(s))
      /\ StoreIs(store) /\ Sticky(store, mem, l) /\ Steady
  BY <1>1, AtStage
<1>3. /\ mem \in MemType /\ l \in LocType /\ IsEmpty(orphans) /\ TypeOK
  BY DEF Stands
<1>4. /\ l.op = "changePw" /\ Rekeys(store, todo[u], mem, l)
      /\ One(left[u], {}) /\ mem.promise = 0
  BY <1>1, RekeyingFacts
<1>5. First(s) = "snapshot"
  BY <1>2 DEF Then, Shows
<1>6. /\ n \in LocType /\ n.op = l.op /\ n.kr = l.kr /\ n.pw = l.pw
      /\ n.npw = l.npw /\ n.ser = mem.keyrings /\ n.defer = l.defer
  BY <1>3 DEF LocType, MemType
<1> HIDE DEF n, l, s
<1>7. mem.unlocked /\ mem.ready /\ One(mem.keyrings, Recoverable(store))
  BY <1>2, <1>4 DEF Rekeys, Opened
<1>8. Rekeys(store, s, mem, n)
  BY <1>2, <1>4, <1>5, <1>6, <1>7 DEF Rekeys
<1>9. Sticky(store, mem, n)
  BY <1>2, <1>6 DEF Sticky
<1> QED BY <1>1, <1>2, <1>3, <1>4, <1>5, <1>6, <1>8, <1>9, RekeyArrives DEF Rekeying

LEMMA EncryptNewBook ==
  ASSUME NEW u \in Proc, Stands(u), EncryptNew(u)
  PROVE  BookInv(u)'
<1> DEFINE l == loc[u]
           s == Rest(u)
<1>1. /\ At(u, "encryptNew") /\ UNCHANGED <<store, left, orphans, restore>>
      /\ Advance(u, mem, l, s)
  BY DEF EncryptNew, Quiet
<1>2. /\ First(todo[u]) = "encryptNew"
      /\ s \in Seq(StageName) /\ Script(s, l.op) /\ Then(l.op, "encryptNew", First(s))
      /\ StoreIs(store) /\ Sticky(store, mem, l) /\ Steady
  BY <1>1, AtStage
<1>3. /\ mem \in MemType /\ l \in LocType /\ IsEmpty(orphans) /\ TypeOK
  BY DEF Stands
<1>4. /\ l.op = "changePw" /\ Rekeys(store, todo[u], mem, l)
      /\ One(left[u], {}) /\ mem.promise = 0
  BY <1>1, RekeyingFacts
<1>5. First(s) = "writeNew"
  BY <1>2 DEF Then, Shows
<1>6. Rekeys(store, s, mem, l)
  BY <1>2, <1>4, <1>5 DEF Rekeys
<1> QED BY <1>1, <1>2, <1>3, <1>4, <1>5, <1>6, RekeyArrives DEF Rekeying

LEMMA WriteNewBook ==
  ASSUME NEW u \in Proc, Stands(u), WriteNew(u)
  PROVE  /\ BookInv(u)' /\ Recoverable(store') = Recoverable(store)
         /\ store'.booted = loc[u].npw /\ loc[u].npw \in Password
         /\ store.booted # NoPassword
<1> DEFINE l == loc[u]
           s == Rest(u)
           m == holdPassword(mem, l.npw)
           T == Recoverable(store)
           e == Written(store, l.npw, l)
           f == [e EXCEPT !.booted = l.npw]
<1>1. /\ At(u, "writeNew") /\ UNCHANGED <<left, orphans, restore>>
      /\ store' = f /\ Advance(u, m, l, s)
  BY DEF WriteNew
<1>2. /\ First(todo[u]) = "writeNew"
      /\ s \in Seq(StageName) /\ Script(s, l.op) /\ Then(l.op, "writeNew", First(s))
      /\ StoreIs(store) /\ Sticky(store, mem, l) /\ Steady
  BY <1>1, AtStage
<1>3. /\ mem \in MemType /\ l \in LocType /\ IsEmpty(orphans) /\ TypeOK
      /\ store \in StoreType
  BY DEF Stands
<1>4. /\ l.op = "changePw" /\ Rekeys(store, todo[u], mem, l)
      /\ One(left[u], {}) /\ mem.promise = 0 /\ l.npw \in Password
  BY <1>1, RekeyingFacts
<1>5. l.npw \in OptPassword /\ l.npw # NoPassword
  BY <1>4, KeyringServiceAssumption DEF OptPassword, KeyringServiceAssumption
<1>6. One(l.ser, T) /\ (mem.unlocked => mem.ready)
  BY <1>2, <1>4 DEF Rekeys
<1>7. T \in SUBSET Keyring
  BY <1>3, RecoverableFacts
<1>8. /\ Recoverable(e) = T /\ e.vault # NoVault /\ e.unenc # Absent
      /\ e.booted = store.booted /\ (store.booted # NoPassword => StoreIs(e))
      /\ f.vault = e.vault /\ f.unenc = e.unenc /\ f.booted = l.npw
      /\ Recoverable(f) = T /\ (l.npw # NoPassword => StoreIs(f))
  BY <1>3, <1>5, <1>6, <1>7, WrittenFacts, Zenon
<1> HIDE DEF e, f
<1>9. /\ Recoverable(store') = T /\ StoreIs(store') /\ store'.booted = l.npw
  BY <1>1, <1>5, <1>8
<1>10. /\ m \in MemType /\ m.password = l.npw /\ m.unlocked = mem.unlocked
       /\ m.launched = mem.launched /\ m.submitting = mem.submitting
       /\ m.promise = 0 /\ m.pending = mem.pending /\ m.keyrings = mem.keyrings
       /\ m.ready = mem.ready
  <2>1. m \in MemType
    BY <1>3, <1>5, MemOps
  <2> QED BY <1>3, <1>4, <2>1 DEF MemType, holdPassword
<1> HIDE DEF m
<1>11. First(s) = "relock"
  BY <1>2 DEF Then, Shows
<1>12. Sticky(store', m, l)
  BY <1>2, <1>4, <1>5, <1>9, <1>10 DEF Sticky
<1>13. Rekeys(store', s, m, l)
  BY <1>2, <1>4, <1>5, <1>6, <1>9, <1>10, <1>11 DEF Rekeys, Opened, Shut
<1>14. BookInv(u)'
  BY <1>1, <1>2, <1>3, <1>4, <1>9, <1>10, <1>11, <1>12, <1>13, RekeyArrives
     DEF Rekeying
<1>15. store.booted # NoPassword
  BY <1>2, <1>4 DEF Sticky
<1> QED BY <1>4, <1>9, <1>14, <1>15

-----------------------------------------------------------------------------
(* A locked session brings back what is not encrypted.                     *)

LEMMA PublicArrives ==
  ASSUME NEW u \in Proc, TypeOK, Steady, UNCHANGED restore,
         NEW m \in MemType, NEW l \in LocType, NEW s \in Seq(StageName),
         Script(s, l.op), \A i \in DOMAIN s : s[i] \notin Plain,
         Then(l.op, "display", First(s)), Runs(l.op, "public"),
         l.op \notin {"submit"}, store' \in StoreType,
         StoreIs(store'), IsEmpty(orphans'), left'[u] = OrNothing(store'.unenc),
         Sticky(store', m, l), Shut(m), m.password = NoPassword,
         One(m.keyrings, {}),
         Advance(u, m, l, <<"public", "display">> \o s)
  PROVE  BookInv(u)'
<1> DEFINE w == <<"public", "display">> \o s
           t == <<"display">> \o s
<1>1. /\ "public" \in StageName /\ "display" \in StageName
      /\ "public" \notin Plain /\ "display" \notin Plain
      /\ Runs(l.op, "display") /\ Then(l.op, "public", "display")
      /\ First(s) # "public"
  BY DEF StageName, Plain, Runs, May, Opening, Then, Shows, Rekeying, Saving
<1>2. w = <<"public">> \o t
  BY <1>1, Regroup
<1>3. Advance(u, m, l, w)
  OBVIOUS
<1> HIDE DEF w
<1>4. /\ t \in Seq(StageName) /\ First(t) = "display" /\ Script(t, l.op)
      /\ \A i \in DOMAIN t : t[i] \notin Plain
  BY <1>1, PrependStage
<1> HIDE DEF t
<1>5. /\ w \in Seq(StageName) /\ First(w) = "public" /\ Second(w) = "display"
      /\ Script(w, l.op) /\ w # <<>>
  BY <1>1, <1>2, <1>4, PrependStage
<1>6. /\ OrNothing(store'.unenc) \in Bag
      /\ One(OrNothing(store'.unenc), Displayed(store', Recoverable(store')))
  BY UnencFacts
<1>7. Two(m.keyrings, left'[u], Displayed(store', Recoverable(store')))
  <2>1. m.keyrings \in Bag
    BY DEF MemType
  <2> QED BY <1>6, <2>1, EmptyFacts
<1>8. Place(store', w, m, l, left'[u])
  BY <1>5, <1>7 DEF Place, Unlocks, Calm, Shows, Rekeying, Saved, Encrypts,
                    Rewrites, Plain
<1>9. Arrives(u, m, l, w)
  BY <1>5, <1>8 DEF Arrives, Shut
<1> QED BY <1>3, <1>9, Arrival

LEMMA RelockBook ==
  ASSUME NEW u \in Proc, Stands(u), Relock(u)
  PROVE  BookInv(u)'
<1> DEFINE l == loc[u]
           s == Rest(u)
           m == relockRuntime(mem)
           T == Recoverable(store)
<1>1. /\ At(u, "relock") /\ UNCHANGED <<store, orphans, restore>>
      /\ IF ~l.defer
         THEN /\ left' = [left EXCEPT ![u] = OrNothing(store.unenc)]
              /\ Advance(u, m, l, <<"public", "display">> \o s)
         ELSE /\ UNCHANGED left
              /\ \/ updateMemStoreKeyrings(u, mem, l, s)
                 \/ Advance(u, mem, l, s)
  BY DEF Relock
<1>2. /\ First(todo[u]) = "relock"
      /\ s \in Seq(StageName) /\ Script(s, l.op) /\ Then(l.op, "relock", First(s))
      /\ \A i \in DOMAIN s : s[i] \notin Plain
      /\ StoreIs(store) /\ Sticky(store, mem, l) /\ Steady
  BY <1>1, AtStage
<1>3. /\ mem \in MemType /\ l \in LocType /\ IsEmpty(orphans) /\ TypeOK
      /\ store \in StoreType
  BY DEF Stands
<1>4. /\ l.op = "changePw" /\ Rekeys(store, todo[u], mem, l)
      /\ One(left[u], {}) /\ mem.promise = 0
  BY <1>1, RekeyingFacts
<1>5. First(s) = "end"
  BY <1>2 DEF Then, Shows
<1>6. /\ Runs(l.op, "public") /\ Runs(l.op, "show")
      /\ Then(l.op, "display", First(s)) /\ Then(l.op, "show", First(s))
  BY <1>4, <1>5 DEF Runs, Opening, Then, Shows
<1>7. CASE ~l.defer
  <2>1. left'[u] = OrNothing(store.unenc)
    BY <1>1, <1>3, <1>7 DEF TypeOK
  <2>2. Shut(mem)
    BY <1>4, <1>7 DEF Rekeys
  <2>3. m \in MemType
    <3>1. NoPassword \in OptPassword
      BY DEF OptPassword
    <3> QED BY <1>3, <3>1, MemOps
  <2>4. /\ m.password = NoPassword /\ ~m.unlocked /\ m.promise = mem.promise
        /\ m.launched = mem.launched /\ m.submitting = mem.submitting
        /\ m.pending = mem.pending /\ m.keyrings = Nothing
    BY <1>3 DEF MemType, relockRuntime
  <2>5. Advance(u, m, l, <<"public", "display">> \o s)
    BY <1>1, <1>7
  <2> HIDE DEF m
  <2>6. Shut(m) /\ One(m.keyrings, {})
    BY <2>2, <2>4, OneFacts, NothingType DEF Shut
  <2>7. Sticky(store, m, l)
    BY <1>2, <1>4, <2>4 DEF Sticky
  <2> QED BY <1>1, <1>2, <1>3, <1>4, <1>6, <2>1, <2>3, <2>4, <2>5, <2>6, <2>7,
             PublicArrives
<1>8. CASE l.defer
  <2>1. Session(store, mem, T)
    BY <1>4, <1>8 DEF Rekeys, Session
  <2>2. CASE UNCHANGED left /\ updateMemStoreKeyrings(u, mem, l, s)
    BY <1>1, <1>2, <1>3, <1>4, <1>6, <2>1, <2>2, ListArrives
  <2>3. CASE UNCHANGED left /\ Advance(u, mem, l, s)
    BY <1>1, <1>2, <1>3, <1>4, <1>5, <2>1, <2>3, CalmArrives DEF Calm
  <2> QED BY <1>1, <1>8, <2>2, <2>3
<1> QED BY <1>7, <1>8

-----------------------------------------------------------------------------
(* The start of the application and of an unlock.                          *)

LEMMA BootBook ==
  ASSUME NEW u \in Proc, Stands(u), BootWritten(u)
  PROVE  /\ BookInv(u)' /\ Recoverable(store') = Recoverable(store)
         /\ store.booted = NoPassword /\ store'.booted = BuiltIn /\ mem'.unlocked
<1> DEFINE l == loc[u]
           s == Rest(u)
           m == [mem EXCEPT !.unlocked = TRUE, !.ready = TRUE,
                            !.restoring = FALSE, !.failed = FALSE]
<1>1. /\ At(u, "boot") /\ UNCHANGED <<left, orphans, restore>>
      /\ store' = [store EXCEPT !.booted = l.pw] /\ Advance(u, m, l, s)
  BY DEF BootWritten
<1>2. /\ First(todo[u]) = "boot" /\ Runs(l.op, "boot")
      /\ s \in Seq(StageName) /\ Script(s, l.op) /\ Then(l.op, "boot", First(s))
      /\ StoreIs(store) /\ Sticky(store, mem, l) /\ Steady
      /\ Place(store, todo[u], mem, l, left[u])
  BY <1>1, AtStage
<1>3. /\ mem \in MemType /\ l \in LocType /\ IsEmpty(orphans) /\ TypeOK
      /\ store \in StoreType
  BY DEF Stands
<1>4. Booting(store, mem, l) /\ One(left[u], {})
  BY <1>2 DEF Place
<1>5. l.op = "launch" /\ First(s) = "launch" /\ s # <<>>
  BY <1>2 DEF Runs, May, Opening, Saving, Plain, Shows, Rekeying, Then, First
<1>6. /\ store.vault = NoVault /\ Recoverable(store) = {} /\ store.unenc = Absent
  <2>1. store.vault = NoVault
    BY <1>2, <1>4 DEF StoreIs, Booting
  <2> QED BY <1>2, <1>3, <2>1, RecoverableFacts DEF StoreIs
<1>7. BuiltIn # NoPassword
  BY KeyringServiceAssumption DEF KeyringServiceAssumption
<1>8. /\ store'.vault = store.vault /\ store'.unenc = store.unenc
      /\ store'.booted = BuiltIn /\ store'.snap = store.snap
  BY <1>1, <1>3, <1>4 DEF StoreType, Booting
<1>9. StoreIs(store') /\ Recoverable(store') = {}
  BY <1>2, <1>6, <1>8 DEF StoreIs, Recoverable
<1>10. /\ m \in MemType /\ m.unlocked /\ m.ready /\ m.promise = mem.promise
       /\ m.password = mem.password /\ m.keyrings = mem.keyrings
       /\ m.launched = mem.launched /\ m.submitting = mem.submitting
  BY <1>3 DEF MemType
<1> HIDE DEF m, l, s
<1>11. Opened(store', m, Recoverable(store'))
  BY <1>4, <1>9, <1>10 DEF Opened, Booting, Shut
<1>12. Sticky(store', m, l)
  BY <1>2, <1>5, <1>10 DEF Sticky
<1>13. Place(store', s, m, l, left'[u])
  BY <1>1, <1>4, <1>5, <1>11
     DEF Place, Launching, Unlocks, Calm, Shows, Saved, Encrypts, Rewrites, Plain
<1>14. Arrives(u, m, l, s)
  BY <1>1, <1>2, <1>3, <1>5, <1>9, <1>10, <1>11, <1>12, <1>13 DEF Arrives, Opened
<1>15. BookInv(u)'
  BY <1>1, <1>2, <1>3, <1>14, Arrival
<1>16. mem'.unlocked
  BY <1>1, <1>5, <1>10 DEF Advance
<1> QED BY <1>4, <1>6, <1>8, <1>9, <1>15, <1>16 DEF Booting

\* submitPassword, offered to a session that is locked.
LEMMA SubmitArrives ==
  ASSUME NEW u \in Proc, TypeOK, TypeOK', Steady, UNCHANGED <<store, orphans>>,
         IsEmpty(orphans), One(left'[u], {}), StoreIs(store), VaultOpens,
         Shut(mem), mem.password = NoPassword, mem.launched, ~mem.submitting,
         NEW pw \in Password, NEW trusted, NEW defer \in BOOLEAN,
         trusted => pw = store.booted,
         \/ One(mem.keyrings, Displayed(store, Recoverable(store)))
         \/ store.booted = pw /\ One(mem.keyrings, {}),
         submitPassword(u, pw, trusted, defer)
  PROVE  BookInv(u)'
<1> DEFINE l == [Idle EXCEPT !.op = "submit", !.pw = pw, !.key = store.booted,
                             !.flag = store.vault # NoVault, !.defer = defer]
           m == [mem EXCEPT !.submitting = TRUE]
           w == <<"verify">>
<1>1. \/ trusted /\ l.flag /\ openVault(u, m, l)
      \/ /\ store.booted = NoPassword /\ Advance(u, mem, loc[u], <<>>)
         /\ UNCHANGED restore
      \/ store.booted # NoPassword /\ Advance(u, m, l, w) /\ UNCHANGED restore
  BY DEF submitPassword, Throw
<1>2. /\ store \in StoreType /\ mem \in MemType /\ loc[u] \in LocType
      /\ pw \in OptPassword /\ pw # NoPassword /\ mem.keyrings \in Bag
  BY KeyringServiceAssumption
     DEF TypeOK, MemType, OptPassword, KeyringServiceAssumption
<1>3. /\ l \in LocType /\ l.op = "submit" /\ l.pw = pw /\ l.key = store.booted
      /\ l.flag = (store.vault # NoVault)
  <2>1. Idle \in LocType /\ store.booted \in OptPassword
    BY <1>2, IdleType DEF StoreType
  <2>2. (store.vault # NoVault) \in BOOLEAN
    OBVIOUS
  <2>3. l \in LocType
    BY <1>2, <2>1, <2>2 DEF LocType, OpName
  <2>4. /\ l.op = "submit" /\ l.pw = pw /\ l.key = store.booted
        /\ l.flag = (store.vault # NoVault)
    BY DEF Idle
  <2> QED BY <2>3, <2>4
<1>4. /\ m \in MemType /\ m.unlocked = mem.unlocked /\ m.promise = mem.promise
      /\ m.pending = mem.pending /\ m.keyrings = mem.keyrings
      /\ m.password = mem.password /\ m.launched = mem.launched
  BY <1>2 DEF MemType
<1> HIDE DEF l, m, w
<1>5. Shut(m)
  BY <1>4 DEF Shut
<1>6. store.booted # NoPassword => Sticky(store, m, l)
  BY <1>3, <1>4 DEF Sticky
<1>7. CASE trusted /\ l.flag /\ openVault(u, m, l)
  <2>1. store.vault # NoVault /\ store.booted # NoPassword
    BY <1>3, <1>7 DEF StoreIs
  <2>2. store.vault.pw = l.pw
    BY <1>3, <1>7, <2>1 DEF VaultOpens
  <2> QED BY <1>2, <1>3, <1>4, <1>5, <1>6, <1>7, <2>1, <2>2, OpenVaultArrives
<1>8. CASE /\ store.booted = NoPassword /\ Advance(u, mem, loc[u], <<>>)
           /\ UNCHANGED restore
  <2>1. Session(store, mem, Recoverable(store))
    BY <1>2, <1>8 DEF Session, Closed
  <2> QED BY <1>2, <1>8, <2>1, Ends
<1>9. CASE store.booted # NoPassword /\ Advance(u, m, l, w) /\ UNCHANGED restore
  <2>1. /\ "verify" \in StageName /\ Runs("submit", "verify")
        /\ Then("submit", "verify", "end") /\ "verify" \notin Plain
    BY DEF StageName, Runs, May, Then, Plain
  <2>2. w \in Seq(StageName) /\ First(w) = "verify" /\ Script(w, "submit")
    BY <2>1, OneScript DEF w
  <2>3. Verifying(store, m, l)
    BY <1>3, <1>4, <1>5 DEF Verifying
  <2>4. Place(store, w, m, l, left'[u])
    BY <1>3, <2>2, <2>3
       DEF Place, Unlocks, Calm, Shows, Saved, Encrypts, Rewrites, Plain
  <2>5. w # <<>> /\ m.promise = 0
    BY <1>5, <2>2 DEF First, Shut
  <2>6. Arrives(u, m, l, w)
    BY <1>3, <1>4, <1>6, <1>9, <2>2, <2>4, <2>5 DEF Arrives
  <2> QED BY <1>9, <2>6, Arrival
<1> QED BY <1>1, <1>7, <1>8, <1>9

LEMMA LaunchChoiceBook ==
  ASSUME NEW u \in Proc, Stands(u), TypeOK', VaultOpens, LaunchChoice(u)
  PROVE  BookInv(u)'
<1> DEFINE l == loc[u]
           m == [mem EXCEPT !.keyrings = Keep(@, Sensitive)]
           s == <<>>
           T == Recoverable(store)
<1>1. /\ At(u, "launch") /\ UNCHANGED <<store, orphans>>
      /\ \/ /\ store.booted = BuiltIn /\ ~mem.unlocked /\ UNCHANGED left
            /\ submitPassword(u, BuiltIn, FALSE, FALSE)
         \/ /\ mem.unlocked \/ store.unenc = Absent
            /\ UNCHANGED <<restore, left>> /\ Advance(u, mem, l, s)
         \/ /\ ~mem.unlocked /\ store.unenc # Absent /\ UNCHANGED restore
            /\ left' = [left EXCEPT ![u] = store.unenc]
            /\ Advance(u, m, l, <<"public", "display">>)
  BY DEF LaunchChoice
<1>2. /\ First(todo[u]) = "launch" /\ Runs(l.op, "launch")
      /\ StoreIs(store) /\ Sticky(store, mem, l) /\ Steady
      /\ Place(store, todo[u], mem, l, left[u])
  BY <1>1, AtStage
<1>3. /\ mem \in MemType /\ l \in LocType /\ IsEmpty(orphans) /\ TypeOK
      /\ store \in StoreType /\ mem.keyrings \in Bag
  BY DEF Stands, MemType
<1>4. Launching(store, mem) /\ One(left[u], {})
  BY <1>2 DEF Place
<1>5. l.op = "launch"
  BY <1>2 DEF Runs, May, Opening, Saving, Plain, Shows, Rekeying
<1>6. mem.launched /\ ~mem.submitting
  BY <1>2, <1>5 DEF Sticky
<1>7. ~mem.unlocked =>
        Shut(mem) /\ mem.password = NoPassword /\ One(mem.keyrings, {})
  BY <1>4 DEF Launching, Opened
<1>8. CASE /\ store.booted = BuiltIn /\ ~mem.unlocked /\ UNCHANGED left
           /\ submitPassword(u, BuiltIn, FALSE, FALSE)
  <2>1. BuiltIn \in Password
    BY KeyringServiceAssumption DEF KeyringServiceAssumption
  <2>2. FALSE => BuiltIn = store.booted
    OBVIOUS
  <2> QED BY <1>1, <1>2, <1>3, <1>4, <1>6, <1>7, <1>8, <2>1, <2>2, SubmitArrives
<1>9. CASE /\ mem.unlocked \/ store.unenc = Absent
           /\ UNCHANGED <<restore, left>> /\ Advance(u, mem, l, s)
  <2>1. Session(store, mem, T)
    <3>1. CASE mem.unlocked
      BY <1>4, <3>1 DEF Launching, Shut, Session
    <3>2. CASE ~mem.unlocked
      BY <1>7, <1>9, <3>2 DEF Session, Closed, Displayed
    <3> QED BY <3>1, <3>2
  <2> QED BY <1>1, <1>2, <1>3, <1>4, <1>6, <1>9, <2>1, Ends
<1>10. CASE /\ ~mem.unlocked /\ store.unenc # Absent /\ UNCHANGED restore
            /\ left' = [left EXCEPT ![u] = store.unenc]
            /\ Advance(u, m, l, <<"public", "display">>)
  <2>1. left'[u] = OrNothing(store.unenc)
    BY <1>3, <1>10 DEF TypeOK, OrNothing
  <2>2. Keep(mem.keyrings, Sensitive) \in Bag
        /\ One(Keep(mem.keyrings, Sensitive), {} \cap Sensitive)
    BY <1>3, <1>7, <1>10, KeepFacts
  <2>3. /\ m \in MemType /\ m.keyrings = Keep(mem.keyrings, Sensitive)
        /\ m.unlocked = mem.unlocked /\ m.promise = mem.promise
        /\ m.pending = mem.pending /\ m.password = mem.password
        /\ m.launched = mem.launched /\ m.submitting = mem.submitting
    BY <1>3, <2>2 DEF MemType
  <2> HIDE DEF m
  <2>4. One(m.keyrings, {}) /\ Shut(m) /\ m.password = NoPassword
    <3>1. {} \cap Sensitive = {}
      OBVIOUS
    <3> QED BY <1>7, <1>10, <2>2, <2>3, <3>1 DEF Shut
  <2>5. Sticky(store, m, l)
    BY <1>2, <1>5, <2>3 DEF Sticky
  <2>6. /\ s \in Seq(StageName) /\ First(s) = "end" /\ Script(s, l.op)
        /\ \A i \in DOMAIN s : s[i] \notin Plain
        /\ <<"public", "display">> \o s = <<"public", "display">>
    BY FirstStages, ScriptEmpty
  <2> HIDE DEF s
  <2>7. Then(l.op, "display", First(s)) /\ Runs(l.op, "public")
    BY <1>5, <2>6 DEF Then, Shows, Runs, May
  <2>8. Advance(u, m, l, <<"public", "display">> \o s)
    BY <1>10, <2>6
  <2> QED BY <1>1, <1>2, <1>3, <1>5, <1>10, <2>1, <2>3, <2>4, <2>5, <2>6, <2>7,
             <2>8, PublicArrives
<1> QED BY <1>1, <1>8, <1>9, <1>10

\* Nobody wipes.
LEMMA NotAt ==
  ASSUME NEW u \in Proc, Stands(u), NEW st \in {"persist", "erase", "eraseStore"}
  PROVE  ~At(u, st)
<1> SUFFICES ASSUME At(u, st) PROVE FALSE
  OBVIOUS
<1>1. Runs(loc[u].op, st)
  BY AtStage
<1> QED BY <1>1 DEF Runs, May, Opening, Saving, Plain, Shows, Rekeying

LEMMA StageBook ==
  ASSUME NEW u \in Proc, Alone(u), Stands(u), TypeOK', VaultOpens, Stage(u)
  PROVE  BookInv(u)'
<1>1. ~RestoreKeyringThrows(u)
  BY DEF RestoreKeyringThrows, Alone, Stands, TypeOK
<1>2. ~PersistAgain(u) /\ ~EraseKeyrings(u) /\ ~EraseStore(u)
  BY NotAt DEF PersistAgain, EraseKeyrings, EraseStore
<1> QED
  BY <1>1, <1>2, VerifyBook, ReloadBook, DecryptBook, RestoreKeyringBook,
     SensitiveRestoredBook, PublicRestoredBook, DisplayBook, ShowBook, ReadyBook,
     JoinBook, SerializeBook, SnapshotBook, EncryptBook, WriteBook,
     WriteSnapshotBook, WriteUnencryptedBook, AssertBook, CheckForDuplicateBook,
     CompareBook, PushBook, AcknowledgeBook, RemoveBook, RekeyBook, CollectBook,
     EncryptNewBook, WriteNewBook, RelockBook, BootBook, LaunchChoiceBook
     DEF Stage

-----------------------------------------------------------------------------
(* Operations begin.                                                       *)

\* Between two operations.
LEMMA IdleBook ==
  ASSUME NEW u \in Proc, VaultInv(u), Stands(u), todo[u] = <<>>
  PROVE  /\ Steady /\ StoreIs(store) /\ ~mem.submitting /\ One(left[u], {})
         /\ Session(store, mem, Recoverable(store))
         /\ mem.unlocked \/ store.unenc # Absent => store.booted # NoPassword
         /\ store \in StoreType /\ mem \in MemType /\ loc[u] \in LocType
         /\ TypeOK /\ IsEmpty(orphans) /\ mem.keyrings \in Bag
<1>1. First(todo[u]) = "end" /\ ~At(u, "boot")
  BY FirstStages DEF At
<1>2. /\ StoreIs(store) /\ ~mem.submitting
      /\ Place(store, todo[u], mem, loc[u], left[u])
  BY DEF Stands, Kept
<1>3. Session(store, mem, Recoverable(store)) /\ One(left[u], {})
  BY <1>1, <1>2 DEF Place, Calm
<1>4. Steady
  BY <1>1 DEF Stands, Waits, Steady
<1>5. mem.unlocked => store.booted # NoPassword
  BY <1>1, <1>3 DEF VaultInv, PasswordHeld, Session, Opened, Closed, Shut
<1>6. store.unenc # Absent => store.booted # NoPassword
  BY <1>2 DEF StoreIs
<1>7. mem.keyrings \in Bag
  BY DEF Stands, MemType
<1> QED BY <1>2, <1>3, <1>4, <1>5, <1>6, <1>7 DEF Stands

LEMMA LaunchBook ==
  ASSUME NEW u \in Proc, VaultInv(u), Stands(u), Launch(u)
  PROVE  BookInv(u)'
<1> DEFINE l == [Idle EXCEPT !.op = "launch", !.pw = BuiltIn]
           m == [mem EXCEPT !.launched = TRUE]
           n == [m EXCEPT !.password = BuiltIn]
           e == <<"launch">>
           b == <<"boot">> \o e
<1>1. /\ todo[u] = <<>> /\ ~mem.launched
      /\ UNCHANGED <<store, left, restore, orphans>>
      /\ \/ store.booted = NoPassword /\ Advance(u, n, l, <<"boot", "launch">>)
         \/ store.booted # NoPassword /\ Advance(u, m, l, <<"launch">>)
  BY DEF Launch, Begin
<1>2. /\ Steady /\ StoreIs(store) /\ ~mem.submitting /\ One(left[u], {})
      /\ Session(store, mem, Recoverable(store))
      /\ mem.unlocked => store.booted # NoPassword
      /\ mem \in MemType /\ TypeOK /\ IsEmpty(orphans)
  BY <1>1, IdleBook
<1>3. BuiltIn \in OptPassword /\ BuiltIn # NoPassword
  BY KeyringServiceAssumption DEF KeyringServiceAssumption, OptPassword
<1>4. l \in LocType /\ l.op = "launch" /\ l.pw = BuiltIn
  <2>1. l \in LocType
    BY <1>3, IdleType DEF LocType, OpName
  <2>2. l.op = "launch" /\ l.pw = BuiltIn
    BY DEF Idle
  <2> QED BY <2>1, <2>2
<1>5. /\ "boot" \in StageName /\ "launch" \in StageName
      /\ Runs("launch", "boot") /\ Runs("launch", "launch")
      /\ Then("launch", "boot", "launch") /\ Then("launch", "launch", "end")
      /\ "boot" \notin Plain /\ "launch" \notin Plain
  BY DEF StageName, Runs, May, Then, Plain
<1>6. /\ e \in Seq(StageName) /\ First(e) = "launch" /\ Script(e, "launch")
      /\ \A i \in DOMAIN e : e[i] \notin Plain
  BY <1>5, OneScript
<1>7. <<"boot", "launch">> = b
  BY Pair, Zenon
<1>8. \/ store.booted = NoPassword /\ Advance(u, n, l, b)
      \/ store.booted # NoPassword /\ Advance(u, m, l, e)
  BY <1>1, <1>7
<1>9. e # <<>>
  BY <1>6 DEF First
<1>10. /\ m \in MemType /\ m.launched /\ m.submitting = mem.submitting
       /\ m.unlocked = mem.unlocked /\ m.promise = mem.promise
       /\ m.pending = mem.pending /\ m.keyrings = mem.keyrings
       /\ m.password = mem.password /\ m.ready = mem.ready
  BY <1>2 DEF MemType
<1>11. /\ n \in MemType /\ n.launched /\ n.submitting = mem.submitting
       /\ n.unlocked = mem.unlocked /\ n.promise = mem.promise
       /\ n.pending = mem.pending /\ n.keyrings = mem.keyrings
       /\ n.password = BuiltIn
  BY <1>2, <1>3 DEF MemType
<1> HIDE DEF l, m, n, e
<1>12. /\ b \in Seq(StageName) /\ b # <<>> /\ First(b) = "boot"
       /\ Script(b, "launch")
  BY <1>5, <1>6, PrependStage
<1> HIDE DEF b
<1>13. ~mem.unlocked => /\ Shut(mem) /\ mem.password = NoPassword
                        /\ One(mem.keyrings, {})
  BY <1>1, <1>2 DEF Session, Opened, Closed
<1>14. Sticky(store, m, l) /\ Sticky(store, n, l) /\ m.promise = 0 /\ n.promise = 0
  BY <1>2, <1>4, <1>10, <1>11 DEF Sticky, Session, Opened, Closed, Shut
<1>15. CASE store.booted = NoPassword /\ Advance(u, n, l, b)
  <2>1. Booting(store, n, l)
    BY <1>2, <1>3, <1>4, <1>11, <1>13, <1>15 DEF Booting, Shut
  <2>2. Place(store, b, n, l, left[u])
    BY <1>2, <1>4, <1>12, <2>1
       DEF Place, Unlocks, Calm, Shows, Saved, Encrypts, Rewrites, Plain
  <2>3. Arrives(u, n, l, b)
    BY <1>1, <1>2, <1>4, <1>11, <1>12, <1>14, <2>2 DEF Arrives
  <2> QED BY <1>1, <1>2, <1>15, <2>3, Arrival
<1>16. CASE store.booted # NoPassword /\ Advance(u, m, l, e)
  <2>1. Launching(store, m)
    <3>1. CASE mem.unlocked
      BY <1>2, <1>10, <3>1 DEF Launching, Opened, Session, Closed, Shut
    <3>2. CASE ~mem.unlocked
      BY <1>10, <1>13, <3>2 DEF Launching, Shut
    <3> QED BY <3>1, <3>2
  <2>2. Place(store, e, m, l, left[u])
    BY <1>2, <1>4, <1>6, <2>1
       DEF Place, Unlocks, Calm, Shows, Saved, Encrypts, Rewrites, Plain
  <2>3. Arrives(u, m, l, e)
    BY <1>1, <1>2, <1>4, <1>6, <1>9, <1>10, <1>14, <2>2 DEF Arrives
  <2> QED BY <1>1, <1>2, <1>16, <2>3, Arrival
<1> QED BY <1>8, <1>15, <1>16

LEMMA SubmitBook ==
  ASSUME NEW u \in Proc, Screened, VaultInv(u), TypeOK', Stands(u), SubmitPassword(u)
  PROVE  BookInv(u)'
<1>1. PICK pw \in Password, trusted, defer \in BOOLEAN :
        /\ todo[u] = <<>> /\ mem.launched /\ UNCHANGED <<store, left, orphans>>
        /\ ~mem.unlocked /\ (trusted => pw = store.booted)
        /\ submitPassword(u, pw, trusted, defer)
  BY DEF SubmitPassword, Begin
<1>2. /\ Steady /\ StoreIs(store) /\ ~mem.submitting /\ One(left[u], {})
      /\ Session(store, mem, Recoverable(store)) /\ TypeOK /\ IsEmpty(orphans)
  BY <1>1, IdleBook
<1>3. /\ Shut(mem) /\ mem.password = NoPassword
      /\ One(mem.keyrings, Displayed(store, Recoverable(store)))
  BY <1>1, <1>2 DEF Session, Opened, Closed
<1>4. VaultOpens
  BY DEF VaultInv
<1> QED BY <1>1, <1>2, <1>3, <1>4, SubmitArrives

LEMMA LockBook ==
  ASSUME NEW u \in Proc, VaultInv(u), Stands(u), SetLocked(u)
  PROVE  BookInv(u)'
<1> DEFINE m == lockRuntime(mem)
           l == [Idle EXCEPT !.op = "lock"]
           s == <<"display">>
           e == <<>>
<1>1. /\ todo[u] = <<>> /\ mem.launched /\ mem.unlocked
      /\ UNCHANGED <<store, restore, orphans>>
      /\ \/ /\ store.unenc = Absent /\ UNCHANGED left
            /\ updateMemStoreKeyrings(u, m, l, e)
         \/ /\ store.unenc # Absent /\ left' = [left EXCEPT ![u] = store.unenc]
            /\ Advance(u, m, l, <<"public", "display", "display">>)
  BY DEF SetLocked, Begin
<1>2. /\ Steady /\ StoreIs(store) /\ ~mem.submitting /\ One(left[u], {})
      /\ mem \in MemType /\ TypeOK /\ IsEmpty(orphans) /\ store \in StoreType
  BY <1>1, IdleBook
<1>3. l \in LocType /\ l.op = "lock"
  <2>1. l \in LocType
    BY IdleType DEF LocType, OpName
  <2>2. l.op = "lock"
    BY DEF Idle
  <2> QED BY <2>1, <2>2
<1>4. /\ "display" \in StageName /\ Runs("lock", "display") /\ "display" \notin Plain
      /\ Runs("lock", "public") /\ Runs("lock", "show")
      /\ Then("lock", "display", "end") /\ Then("lock", "show", "end")
      /\ Then("lock", "display", "display")
  BY DEF StageName, Runs, May, Then, Plain, Shows
<1>5. /\ s \in Seq(StageName) /\ First(s) = "display" /\ Script(s, "lock")
      /\ \A i \in DOMAIN s : s[i] \notin Plain
  BY <1>4, OneScript
<1>6. /\ e \in Seq(StageName) /\ First(e) = "end" /\ Script(e, "lock")
      /\ \A i \in DOMAIN e : e[i] \notin Plain
  BY FirstStages, ScriptEmpty
<1>7. <<"public", "display", "display">> = <<"public", "display">> \o s
  OBVIOUS
<1>8. m \in MemType
  <2>1. NoPassword \in OptPassword
    BY DEF OptPassword
  <2> QED BY <1>2, <2>1, MemOps
<1>9. /\ m.password = NoPassword /\ ~m.unlocked /\ m.promise = 0
      /\ m.launched = mem.launched /\ m.submitting = mem.submitting
      /\ m.pending = Absent /\ m.keyrings = Nothing
  BY <1>2 DEF MemType, lockRuntime, resetKeyringRuntimeState
<1>10. \/ /\ store.unenc = Absent /\ UNCHANGED left
          /\ updateMemStoreKeyrings(u, m, l, e)
       \/ /\ store.unenc # Absent /\ left' = [left EXCEPT ![u] = store.unenc]
          /\ Advance(u, m, l, <<"public", "display">> \o s)
  BY <1>1, <1>7
<1> HIDE DEF l, m, s, e
<1>11. Shut(m) /\ One(m.keyrings, {})
  BY <1>9, OneFacts, NothingType DEF Shut
<1>12. Sticky(store, m, l)
  BY <1>1, <1>2, <1>3, <1>9 DEF Sticky
<1>13. CASE /\ store.unenc = Absent /\ UNCHANGED left
            /\ updateMemStoreKeyrings(u, m, l, e)
  <2>1. Session(store, m, Recoverable(store))
    BY <1>9, <1>11, <1>13 DEF Session, Closed, Displayed
  <2> QED BY <1>1, <1>2, <1>3, <1>4, <1>6, <1>8, <1>12, <1>13, <2>1, ListArrives
<1>14. CASE /\ store.unenc # Absent /\ left' = [left EXCEPT ![u] = store.unenc]
            /\ Advance(u, m, l, <<"public", "display">> \o s)
  <2>1. left'[u] = OrNothing(store.unenc)
    BY <1>2, <1>14 DEF TypeOK, OrNothing
  <2> QED BY <1>1, <1>2, <1>3, <1>4, <1>5, <1>8, <1>9, <1>11, <1>12, <1>14, <2>1,
             PublicArrives
<1> QED BY <1>10, <1>13, <1>14

\* A chain that starts at once or once the runtime is ready.
LEMMA StartArrives ==
  ASSUME NEW u \in Proc, VaultInv(u), Stands(u), TypeOK', todo[u] = <<>>,
         UNCHANGED <<store, left, orphans>>, mem.launched,
         NEW l \in LocType, NEW s \in Seq(StageName), Script(s, l.op),
         \A i \in DOMAIN s : s[i] \notin Plain,
         l.op \in {"add", "remove", "refresh"}, Then(l.op, "join", First(s)),
         Calm(s, l), First(s) \notin {"compare", "push"},
         l.op # "refresh" => /\ l.kr \in Keyring
                             /\ mem.unlocked \/ (l.kr \in Public /\ store.snap # {}),
         \/ mem.unlocked /\ ensureKeyringRuntimeReady(u, mem, l, s)
         \/ UNCHANGED restore /\ Advance(u, mem, l, s)
  PROVE  BookInv(u)'
<1>1. /\ Steady /\ StoreIs(store) /\ ~mem.submitting /\ One(left[u], {})
      /\ Session(store, mem, Recoverable(store))
      /\ mem.unlocked \/ store.unenc # Absent => store.booted # NoPassword
      /\ mem \in MemType /\ loc[u] \in LocType /\ TypeOK /\ IsEmpty(orphans)
  BY IdleBook
<1>2. Sticky(store, mem, l)
  BY <1>1 DEF Sticky, StoreIs
<1>3. CASE mem.unlocked /\ ensureKeyringRuntimeReady(u, mem, l, s)
  <2>1. Opened(store, mem, Recoverable(store))
    BY <1>1, <1>3 DEF Session, Closed, Shut
  <2>2. Aim(store, <<"join">> \o s, l) = Recoverable(store)
    <3>1. "join" \in StageName
      BY DEF StageName
    <3>2. First(<<"join">> \o s) = "join" /\ Second(<<"join">> \o s) = First(s)
      BY <3>1, FirstPrepend
    <3> QED BY <3>2 DEF Aim, Edits, Calm, Saving, Plain, Shows
  <2>3. Runs(l.op, "join")
    BY DEF Runs, May
  <2>4. MayJoin(u, mem, l, s)
    BY <1>1, <1>2, <2>1, <2>2, <2>3 DEF MayJoin
  <2> QED BY <1>1, <1>3, <2>4, EnsureArrives
<1>4. CASE UNCHANGED restore /\ Advance(u, mem, l, s)
  <2>1. CASE s = <<>>
    BY <1>1, <1>4, <2>1, Ends
  <2>2. CASE s # <<>>
    BY <1>1, <1>2, <1>4, <2>2, CalmArrives
  <2> QED BY <2>1, <2>2
<1> QED BY <1>3, <1>4

LEMMA AddBook ==
  ASSUME NEW u \in Proc, Screened, VaultInv(u), TypeOK', Stands(u), AddKeyring(u)
  PROVE  BookInv(u)'
<1> DEFINE e == <<"acknowledge">>
           d == <<"display">> \o e
           c == <<"push">> \o d
           b == <<"duplicate">> \o c
           s == <<"assert">> \o b
<1>1. /\ \A x \in {"assert", "duplicate", "push", "display", "acknowledge"} :
           x \in StageName /\ Runs("add", x) /\ x \notin Plain
      /\ Then("add", "acknowledge", "end")
      /\ Then("add", "display", "acknowledge") /\ Then("add", "push", "display")
      /\ Then("add", "duplicate", "push") /\ Then("add", "assert", "duplicate")
      /\ Then("add", "join", "assert")
  BY DEF StageName, Runs, May, Then, Shows, Plain
<1>2. <<"assert", "duplicate", "push", "display", "acknowledge">> = s
  OBVIOUS
<1>3. /\ e \in Seq(StageName) /\ First(e) = "acknowledge" /\ Script(e, "add")
      /\ \A i \in DOMAIN e : e[i] \notin Plain
  BY <1>1, OneScript
<1> HIDE DEF e
<1>4. /\ d \in Seq(StageName) /\ First(d) = "display" /\ Script(d, "add")
      /\ \A i \in DOMAIN d : d[i] \notin Plain
  BY <1>1, <1>3, PrependStage
<1> HIDE DEF d
<1>5. /\ c \in Seq(StageName) /\ First(c) = "push" /\ Script(c, "add")
      /\ \A i \in DOMAIN c : c[i] \notin Plain
  BY <1>1, <1>4, PrependStage
<1> HIDE DEF c
<1>6. /\ b \in Seq(StageName) /\ First(b) = "duplicate" /\ Script(b, "add")
      /\ \A i \in DOMAIN b : b[i] \notin Plain
  BY <1>1, <1>5, PrependStage
<1> HIDE DEF b
<1>7. /\ s \in Seq(StageName) /\ First(s) = "assert" /\ Script(s, "add")
      /\ \A i \in DOMAIN s : s[i] \notin Plain
  BY <1>1, <1>6, PrependStage
<1> HIDE DEF s
<1>8. PICK k \in Keyring :
        /\ todo[u] = <<>> /\ mem.launched /\ offered(k)
        /\ UNCHANGED <<store, left, orphans>>
        /\ \/ /\ ensureKeyringRuntimeReady(u, mem, [Idle EXCEPT !.op = "add", !.kr = k], s)
              /\ mem.unlocked
           \/ /\ Advance(u, mem, [Idle EXCEPT !.op = "add", !.kr = k], s)
              /\ UNCHANGED restore
  BY <1>2 DEF AddKeyring, Begin, additionWaits,
         shouldWaitForType, shouldWaitForKeyringRuntime
<1> DEFINE l == [Idle EXCEPT !.op = "add", !.kr = k]
<1>9. l \in LocType /\ l.op = "add" /\ l.kr = k
  BY MutationStart
<1> HIDE DEF l
<1>10. \/ mem.unlocked /\ ensureKeyringRuntimeReady(u, mem, l, s)
       \/ UNCHANGED restore /\ Advance(u, mem, l, s)
  BY <1>8 DEF l
<1>11. Calm(s, l)
  BY <1>7 DEF Calm
<1>12. mem.unlocked \/ (k \in Public /\ store.snap # {})
  BY <1>8 DEF offered
<1> QED BY <1>1, <1>7, <1>8, <1>9, <1>10, <1>11, <1>12, StartArrives

LEMMA RemoveAccountBook ==
  ASSUME NEW u \in Proc, Screened, VaultInv(u), TypeOK', Stands(u), RemoveAccount(u)
  PROVE  BookInv(u)'
<1> DEFINE e == <<"display">>
           s == <<"remove">> \o e
<1>1. /\ \A x \in {"remove", "display"} :
           x \in StageName /\ Runs("remove", x) /\ x \notin Plain
      /\ Then("remove", "display", "end") /\ Then("remove", "remove", "display")
      /\ Then("remove", "join", "remove")
  BY DEF StageName, Runs, May, Then, Shows, Plain
<1>2. removeStages = s
  BY Pair, Zenon DEF removeStages
<1>3. /\ e \in Seq(StageName) /\ First(e) = "display" /\ Script(e, "remove")
      /\ \A i \in DOMAIN e : e[i] \notin Plain
  BY <1>1, OneScript
<1> HIDE DEF e
<1>4. /\ s \in Seq(StageName) /\ First(s) = "remove" /\ Script(s, "remove")
      /\ \A i \in DOMAIN s : s[i] \notin Plain
  BY <1>1, <1>3, PrependStage
<1> HIDE DEF s
<1>5. PICK k \in Keyring :
        /\ todo[u] = <<>> /\ mem.launched /\ offered(k)
        /\ UNCHANGED <<store, left, orphans>>
        /\ \/ /\ ensureKeyringRuntimeReady(u, mem,
                    [Idle EXCEPT !.op = "remove", !.kr = k], s)
              /\ mem.unlocked
           \/ /\ Advance(u, mem, [Idle EXCEPT !.op = "remove", !.kr = k], s)
              /\ UNCHANGED restore
  BY <1>2 DEF RemoveAccount, Begin, shouldWaitForType, shouldWaitForKeyringRuntime
<1> DEFINE l == [Idle EXCEPT !.op = "remove", !.kr = k]
<1>6. l \in LocType /\ l.op = "remove" /\ l.kr = k
  BY MutationStart
<1> HIDE DEF l
<1>7. \/ mem.unlocked /\ ensureKeyringRuntimeReady(u, mem, l, s)
      \/ UNCHANGED restore /\ Advance(u, mem, l, s)
  BY <1>5 DEF l
<1>8. Calm(s, l)
  BY <1>4 DEF Calm
<1>9. mem.unlocked \/ (k \in Public /\ store.snap # {})
  BY <1>5 DEF offered
<1> QED BY <1>1, <1>4, <1>5, <1>6, <1>7, <1>8, <1>9, StartArrives

LEMMA RefreshBook ==
  ASSUME NEW u \in Proc, VaultInv(u), TypeOK', Stands(u), Refresh(u)
  PROVE  BookInv(u)'
<1> DEFINE l == [Idle EXCEPT !.op = "refresh"]
<1>1. /\ todo[u] = <<>> /\ mem.launched /\ mem.unlocked
      /\ UNCHANGED <<store, left, orphans>>
      /\ \/ ensureKeyringRuntimeReady(u, mem, l, <<"display">>)
         \/ ensureKeyringRuntimeReady(u, mem, l, <<>>)
  BY DEF Refresh, Begin
<1>2. l \in LocType /\ l.op = "refresh"
  <2>1. l \in LocType
    BY IdleType DEF LocType, OpName
  <2>2. l.op = "refresh"
    BY DEF Idle
  <2> QED BY <2>1, <2>2
<1> HIDE DEF l
<1>3. PICK s \in {<<"display">>, <<>>} : ensureKeyringRuntimeReady(u, mem, l, s)
  BY <1>1
<1>4. /\ s \in Seq(StageName) /\ First(s) \in {"display", "end"}
      /\ Script(s, "refresh") /\ \A i \in DOMAIN s : s[i] \notin Plain
  <2>1. /\ "display" \in StageName /\ Runs("refresh", "display")
        /\ Then("refresh", "display", "end") /\ "display" \notin Plain
    BY DEF StageName, Runs, May, Then, Shows, Plain
  <2>2. CASE s = <<"display">>
    BY <2>1, <2>2, OneScript
  <2>3. CASE s = <<>>
    BY <2>3, FirstStages, ScriptEmpty
  <2> QED BY <2>2, <2>3
<1>5. Then(l.op, "join", First(s)) /\ Calm(s, l)
  BY <1>2, <1>4 DEF Then, Calm, Shows
<1> QED BY <1>1, <1>2, <1>3, <1>4, <1>5, StartArrives

LEMMA UpdatePasswordBook ==
  ASSUME NEW u \in Proc, VaultInv(u), Stands(u), UpdatePassword(u)
  PROVE  BookInv(u)'
<1> DEFINE a7 == <<"relock">>
           a6 == <<"writeNew">> \o a7
           a5 == <<"encryptNew">> \o a6
           a4 == <<"snapshot">> \o a5
           a3 == <<"rekey">> \o a4
           a2 == <<"reload">> \o a3
           s == <<"verify">> \o a2
<1>1. /\ \A x \in {"verify", "reload", "rekey", "snapshot", "encryptNew",
                   "writeNew", "relock"} :
           x \in StageName /\ Runs("changePw", x) /\ x \notin Plain
      /\ Then("changePw", "relock", "end") /\ Then("changePw", "writeNew", "relock")
      /\ Then("changePw", "encryptNew", "writeNew")
      /\ Then("changePw", "snapshot", "encryptNew")
      /\ Then("changePw", "rekey", "snapshot") /\ Then("changePw", "reload", "rekey")
      /\ Then("changePw", "verify", "reload")
  <2>1. \A x \in {"verify", "reload", "rekey", "snapshot", "encryptNew",
                   "writeNew", "relock"} :
           x \in StageName /\ Runs("changePw", x) /\ x \notin Plain
    BY DEF StageName, Runs, Rekeying, Plain
  <2>2. /\ Then("changePw", "relock", "end") /\ Then("changePw", "writeNew", "relock")
        /\ Then("changePw", "encryptNew", "writeNew")
        /\ Then("changePw", "snapshot", "encryptNew")
        /\ Then("changePw", "rekey", "snapshot") /\ Then("changePw", "reload", "rekey")
        /\ Then("changePw", "verify", "reload")
    BY DEF Then
  <2> QED BY <2>1, <2>2
<1>2. changePasswordStages = s
  BY DEF changePasswordStages
<1>3. /\ a7 \in Seq(StageName) /\ First(a7) = "relock" /\ Script(a7, "changePw")
      /\ \A i \in DOMAIN a7 : a7[i] \notin Plain
  BY <1>1, OneScript
<1> HIDE DEF a7
<1>4. /\ a6 \in Seq(StageName) /\ First(a6) = "writeNew" /\ Script(a6, "changePw")
      /\ \A i \in DOMAIN a6 : a6[i] \notin Plain
  BY <1>1, <1>3, PrependStage
<1> HIDE DEF a6
<1>5. /\ a5 \in Seq(StageName) /\ First(a5) = "encryptNew" /\ Script(a5, "changePw")
      /\ \A i \in DOMAIN a5 : a5[i] \notin Plain
  BY <1>1, <1>4, PrependStage
<1> HIDE DEF a5
<1>6. /\ a4 \in Seq(StageName) /\ First(a4) = "snapshot" /\ Script(a4, "changePw")
      /\ \A i \in DOMAIN a4 : a4[i] \notin Plain
  BY <1>1, <1>5, PrependStage
<1> HIDE DEF a4
<1>7. /\ a3 \in Seq(StageName) /\ First(a3) = "rekey" /\ Script(a3, "changePw")
      /\ \A i \in DOMAIN a3 : a3[i] \notin Plain
  BY <1>1, <1>6, PrependStage
<1> HIDE DEF a3
<1>8. /\ a2 \in Seq(StageName) /\ First(a2) = "reload" /\ Script(a2, "changePw")
      /\ \A i \in DOMAIN a2 : a2[i] \notin Plain
  BY <1>1, <1>7, PrependStage
<1> HIDE DEF a2
<1>9. s \in Seq(StageName) /\ First(s) = "verify" /\ Script(s, "changePw") /\ s # <<>>
  BY <1>1, <1>8, PrependStage
<1> HIDE DEF s
<1>10. PICK pw \in Password, npw \in Password :
         /\ todo[u] = <<>> /\ mem.launched /\ store.booted # NoPassword
         /\ UNCHANGED <<store, left, orphans, restore>>
         /\ Advance(u, mem, [Idle EXCEPT !.op = "changePw", !.pw = pw, !.npw = npw,
                                         !.key = store.booted], s)
  BY <1>2 DEF UpdatePassword, Begin
<1> DEFINE l == [Idle EXCEPT !.op = "changePw", !.pw = pw, !.npw = npw,
                             !.key = store.booted]
<1>11. /\ Steady /\ StoreIs(store) /\ ~mem.submitting /\ One(left[u], {})
       /\ Session(store, mem, Recoverable(store)) /\ mem \in MemType /\ TypeOK
       /\ IsEmpty(orphans) /\ store \in StoreType
  BY <1>10, IdleBook
<1>12. /\ l \in LocType /\ l.op = "changePw" /\ l.pw = pw /\ l.npw = npw
       /\ l.key = store.booted
  <2>1. /\ pw \in OptPassword /\ npw \in OptPassword /\ store.booted \in OptPassword
        /\ Idle \in LocType
    BY <1>11, IdleType DEF OptPassword, StoreType
  <2>2. l \in LocType
    BY <2>1 DEF LocType, OpName
  <2>3. l.op = "changePw" /\ l.pw = pw /\ l.npw = npw /\ l.key = store.booted
    BY DEF Idle
  <2> QED BY <2>2, <2>3
<1>13. Advance(u, mem, l, s)
  BY <1>10
<1> HIDE DEF l
<1>14. Verifying(store, mem, l)
  BY <1>11, <1>12 DEF Verifying
<1>15. Place(store, s, mem, l, left[u])
  BY <1>9, <1>11, <1>12, <1>14
     DEF Place, Unlocks, Calm, Shows, Rekeying
<1>16. Sticky(store, mem, l)
  BY <1>10, <1>11, <1>12 DEF Sticky
<1>17. mem.promise = 0
  BY <1>11 DEF Session, Opened, Closed, Shut
<1>18. Arrives(u, mem, l, s)
  BY <1>9, <1>10, <1>11, <1>12, <1>15, <1>16, <1>17 DEF Arrives
<1> QED BY <1>10, <1>11, <1>13, <1>18, Arrival

LEMMA OperationBook ==
  ASSUME NEW u \in Proc, Alone(u), VaultInv(u), TypeOK', Stands(u), Operation(u)
  PROVE  BookInv(u)'
<1>1. Screened
  BY DEF Alone
<1>2. ~Wipe(u) /\ ~Erase(u)
  BY DEF Wipe, Erase, Begin, Alone
<1> QED BY <1>1, <1>2, LaunchBook, SubmitBook, LockBook, AddBook, RemoveAccountBook,
           RefreshBook, UpdatePasswordBook DEF Operation

-----------------------------------------------------------------------------
(* The deferred restore.                                                   *)

\* A restore that is under way is the one the chain waits for.
LEMMA UnderWayBook ==
  ASSUME NEW u \in Proc, Stands(u), NEW i \in Restores, Unsettled(restore[i])
  PROVE  /\ First(todo[u]) = "join" /\ loc[u].rid = i /\ mem.promise = i
         /\ mem.unlocked /\ mem.password # NoPassword
         /\ Joined(restore, store, mem, loc[u], Aim(store, todo[u], loc[u]))
         /\ Restoring(restore[i], mem, Aim(store, todo[u], loc[u]))
<1>1. First(todo[u]) = "join"
  BY DEF Stands, Waits, Restores
<1>2. Joined(restore, store, mem, loc[u], Aim(store, todo[u], loc[u]))
  BY <1>1 DEF Stands, Waits
<1> QED BY <1>1, <1>2 DEF Joined, Restores

\* While it is waited for, what holds of the chain is none of its concern.
LEMMA JoinKept ==
  ASSUME NEW d, NEW s, NEW m, NEW n, NEW l, NEW lf, First(s) = "join",
         Kept(d, s, m, l, lf), n.launched = m.launched,
         n.submitting = m.submitting, n.unlocked = m.unlocked
  PROVE  Kept(d, s, n, l, lf)
<1>1. s # <<>>
  BY FirstStages
<1>2. Sticky(d, n, l)
  BY <1>1 DEF Kept, Sticky
<1>3. Place(d, s, n, l, lf)
  BY DEF Kept, Place, Unlocks, Calm, Shows, Rekeying, Saved, Encrypts, Rewrites,
         Plain
<1> QED BY <1>1, <1>2, <1>3 DEF Kept

\* A restore that has settled is nobody's concern.
LEMMA SettledBook ==
  ASSUME NEW u \in Proc, Stands(u), NEW i \in Restores, ~Unsettled(restore[i]),
         TaskOnly, UNCHANGED mem,
         NEW r, restore' = [restore EXCEPT ![i] = r], r.st = restore[i].st
  PROVE  BookInv(u)'
<1>1. UNCHANGED <<store, todo, loc, left, orphans, mem>>
  BY DEF TaskOnly
<1>2. /\ DOMAIN restore' = DOMAIN restore
      /\ \A j \in DOMAIN restore :
           /\ restore'[j].st = restore[j].st
           /\ Unsettled(restore'[j]) <=> Unsettled(restore[j])
           /\ Unsettled(restore[j]) => restore'[j] = restore[j]
  BY DEF Restores, Unsettled
<1>3. Waits(store, restore', todo[u], mem, loc[u])
  <2>1. CASE First(todo[u]) = "join"
    <3> DEFINE T == Aim(store, todo[u], loc[u])
    <3>1. Joined(restore, store, mem, loc[u], T)
      BY <2>1 DEF Stands, Waits
    <3> HIDE DEF T
    <3>2. Joined(restore', store, mem, loc[u], T)
      BY <1>2, <3>1 DEF Joined
    <3> QED BY <2>1, <3>2 DEF Waits, T
  <2>2. CASE First(todo[u]) # "join"
    BY <1>2, <2>2 DEF Stands, Waits
  <2> QED BY <2>1, <2>2
<1> QED BY <1>1, <1>3 DEF BookInv, Stands

\* The restore that is waited for goes on, or is done.
LEMMA TaskBook ==
  ASSUME NEW u \in Proc, Stands(u), NEW i \in Restores, Unsettled(restore[i]),
         TaskOnly, NEW r, restore' = [restore EXCEPT ![i] = r],
         mem'.launched = mem.launched, mem'.submitting = mem.submitting,
         mem'.unlocked = mem.unlocked, mem'.password = mem.password,
         IF Unsettled(r)
         THEN /\ mem'.promise = mem.promise
              /\ Restoring(r, mem', Aim(store, todo[u], loc[u]))
         ELSE /\ r.st = "done" /\ mem'.ready
              /\ Opened(store, mem', Aim(store, todo[u], loc[u]))
  PROVE  BookInv(u)'
<1> DEFINE T == Aim(store, todo[u], loc[u])
<1>1. UNCHANGED <<store, todo, loc, left, orphans>>
  BY DEF TaskOnly
<1>2. /\ First(todo[u]) = "join" /\ loc[u].rid = i /\ mem.promise = i
      /\ mem.unlocked /\ mem.password # NoPassword
      /\ Joined(restore, store, mem, loc[u], T)
  BY UnderWayBook
<1>3. /\ DOMAIN restore' = DOMAIN restore /\ i \in DOMAIN restore
      /\ restore'[i] = r /\ \A j \in DOMAIN restore \ {i} : restore'[j] = restore[j]
  BY DEF Restores
<1> HIDE DEF T, Unsettled
<1>4. Joined(restore', store, mem', loc[u], T)
  BY <1>2, <1>3 DEF Joined, T
<1>5. Waits(store, restore', todo[u], mem', loc[u])
  BY <1>2, <1>4 DEF Waits, T
<1>6. Kept(store, todo[u], mem', loc[u], left[u])
  BY <1>2, JoinKept DEF Stands
<1> QED BY <1>1, <1>5, <1>6 DEF BookInv, Stands

LEMMA DeferredKeyringBook ==
  ASSUME NEW u \in Proc, Stands(u), NEW i \in Restores, DeferredKeyring(i)
  PROVE  BookInv(u)'
<1>1. PICK k \in Keyring :
        /\ restore[i].left[k] > 0
        /\ restore' = [restore EXCEPT
             ![i].left = Drop(@, k),
             ![i].next = IF restore[i].id = mem.restoreId THEN Push(@, k) ELSE @]
        /\ UNCHANGED mem /\ TaskOnly
  BY DEF DeferredKeyring
<1> DEFINE q == restore[i]
           nx == IF q.id = mem.restoreId THEN Push(q.next, k) ELSE q.next
           r == [q EXCEPT !.left = Drop(q.left, k), !.next = nx]
           T == Aim(store, todo[u], loc[u])
<1>2. q \in RestoreType
  BY DEF Restores, Stands
<1>3. q.left \in Bag /\ q.next \in Bag /\ q.from.pub \in Bag
  BY <1>2 DEF RestoreType, Pending
<1>4. restore' = [restore EXCEPT ![i] = r]
  BY <1>1
<1>5. q.left[k] > 0 /\ (q.id = mem.restoreId => nx = Push(q.next, k))
  BY <1>1
<1>6. /\ \A K : Two(q.next, q.left, K) => Two(Push(q.next, k), Drop(q.left, k), K)
      /\ \A K : Three(q.next, q.left, q.from.pub, K)
                  => Three(Push(q.next, k), Drop(q.left, k), q.from.pub, K)
  BY <1>3, <1>5, MoveFacts
<1> HIDE DEF nx, q
<1>7. /\ r.st = q.st /\ r.left = Drop(q.left, k) /\ r.next = nx
      /\ r.from = q.from /\ r.id = q.id
  BY <1>2 DEF RestoreType
<1> HIDE DEF r, T
<1>8. CASE ~Unsettled(q)
  BY <1>1, <1>4, <1>7, <1>8, SettledBook DEF q
<1>9. CASE Unsettled(q)
  <2>1. Restoring(q, mem, T)
    BY <1>9, UnderWayBook DEF q, T
  <2>2. Unsettled(r)
    BY <1>7, <1>9 DEF Unsettled
  <2>3. Restoring(r, mem, T)
    BY <1>5, <1>6, <1>7, <2>1 DEF Restoring
  <2>4. mem' = mem
    BY <1>1
  <2> HIDE DEF Unsettled
  <2> QED BY <1>1, <1>4, <1>9, <2>2, <2>3, <2>4, TaskBook DEF q, T
<1> QED BY <1>8, <1>9

LEMMA DeferredSensitiveDoneBook ==
  ASSUME NEW u \in Proc, Stands(u), NEW i \in Restores, DeferredSensitiveDone(i)
  PROVE  BookInv(u)'
<1> DEFINE q == restore[i]
           r == [q EXCEPT !.st = "public", !.left = q.from.pub]
           T == Aim(store, todo[u], loc[u])
<1>1. /\ q.st = "sensitive" /\ IsEmpty(q.left) /\ restore' = [restore EXCEPT ![i] = r]
      /\ UNCHANGED mem /\ TaskOnly
  BY DEF DeferredSensitiveDone
<1>2. q \in RestoreType
  BY DEF Restores, Stands
<1>3. q.left \in Bag /\ q.next \in Bag /\ q.from.pub \in Bag
  BY <1>2 DEF RestoreType, Pending
<1> HIDE DEF q
<1>4. r.st = "public" /\ r.left = q.from.pub /\ r.next = q.next /\ r.id = q.id
  BY <1>2 DEF RestoreType
<1> HIDE DEF r, T
<1>5. Unsettled(q) /\ Unsettled(r)
  BY <1>1, <1>4 DEF Unsettled, settled
<1>6. Restoring(q, mem, T)
  BY <1>5, UnderWayBook DEF q, T
<1>7. Two(q.next, q.from.pub, T)
  BY <1>1, <1>3, <1>6, EmptyFacts DEF Restoring
<1>8. Restoring(r, mem, T)
  BY <1>4, <1>6, <1>7 DEF Restoring
<1>9. mem' = mem
  BY <1>1
<1> HIDE DEF Unsettled
<1> QED BY <1>1, <1>5, <1>8, <1>9, TaskBook DEF q, T

LEMMA DeferredPublicDoneBook ==
  ASSUME NEW u \in Proc, Stands(u), NEW i \in Restores, DeferredPublicDone(i)
  PROVE  BookInv(u)'
<1> DEFINE q == restore[i]
           r == [q EXCEPT !.st = "show"]
           T == Aim(store, todo[u], loc[u])
<1>1. q.st = "public" /\ IsEmpty(q.left) /\ TaskOnly
  BY DEF DeferredPublicDone
<1>2. q \in RestoreType /\ mem \in MemType
  BY DEF Restores, Stands
<1>3. Unsettled(q)
  BY <1>1 DEF Unsettled, settled
<1>4. Restoring(q, mem, T)
  BY <1>3, UnderWayBook
<1>5. /\ restore' = [restore EXCEPT ![i] = r]
      /\ mem' = [mem EXCEPT !.keyrings = q.next]
  BY <1>4 DEF DeferredPublicDone, Restoring
<1>6. q.left \in Bag /\ q.next \in Bag
  BY <1>2 DEF RestoreType
<1> HIDE DEF q
<1>7. r.st = "show" /\ r.id = q.id
  BY <1>2 DEF RestoreType
<1> HIDE DEF r, T
<1>8. /\ mem'.keyrings = q.next /\ mem'.unlocked = mem.unlocked
      /\ mem'.ready = mem.ready /\ mem'.promise = mem.promise
      /\ mem'.restoreId = mem.restoreId /\ mem'.launched = mem.launched
      /\ mem'.submitting = mem.submitting /\ mem'.password = mem.password
  BY <1>2, <1>5 DEF MemType
<1>9. One(q.next, T)
  BY <1>1, <1>4, <1>6, EmptyFacts DEF Restoring
<1>10. Restoring(r, mem', T)
  BY <1>4, <1>7, <1>8, <1>9 DEF Restoring
<1>11. Unsettled(r)
  BY <1>7 DEF Unsettled, settled
<1> HIDE DEF Unsettled
<1> QED BY <1>1, <1>3, <1>5, <1>8, <1>10, <1>11, TaskBook DEF q, T

LEMMA DeferredShownBook ==
  ASSUME NEW u \in Proc, Stands(u), NEW i \in Restores, DeferredShown(i)
  PROVE  BookInv(u)'
<1> DEFINE q == restore[i]
           r == [q EXCEPT !.st = "mark"]
           T == Aim(store, todo[u], loc[u])
<1>1. /\ q.st = "show" /\ TaskOnly /\ restore' = [restore EXCEPT ![i] = r]
      /\ mem' = [mem EXCEPT !.shown = q.next]
  BY DEF DeferredShown
<1>2. q \in RestoreType /\ mem \in MemType
  BY DEF Restores, Stands
<1>3. Unsettled(q)
  BY <1>1 DEF Unsettled, settled
<1>4. Restoring(q, mem, T)
  BY <1>3, UnderWayBook
<1> HIDE DEF q
<1>5. r.st = "mark" /\ r.id = q.id
  BY <1>2 DEF RestoreType
<1> HIDE DEF r, T
<1>6. /\ mem'.keyrings = mem.keyrings /\ mem'.unlocked = mem.unlocked
      /\ mem'.ready = mem.ready /\ mem'.promise = mem.promise
      /\ mem'.restoreId = mem.restoreId /\ mem'.launched = mem.launched
      /\ mem'.submitting = mem.submitting /\ mem'.password = mem.password
  BY <1>1, <1>2 DEF MemType
<1>7. Restoring(r, mem', T) /\ Unsettled(r)
  BY <1>1, <1>4, <1>5, <1>6 DEF Restoring, Unsettled, settled
<1> HIDE DEF Unsettled
<1> QED BY <1>1, <1>3, <1>6, <1>7, TaskBook DEF q, T

LEMMA DeferredReadyBook ==
  ASSUME NEW u \in Proc, Stands(u), NEW i \in Restores, DeferredReady(i)
  PROVE  BookInv(u)'
<1> DEFINE T == Aim(store, todo[u], loc[u])
<1>1. /\ restore[i].st = "mark" /\ TaskOnly
      /\ restore' = Settle(i, "done") /\ mem' = markKeyringRuntimeReady(mem)
  BY DEF DeferredReady
<1>2. Unsettled(restore[i])
  BY <1>1 DEF Unsettled, settled
<1>3. Restoring(restore[i], mem, T) /\ mem.unlocked /\ mem.password # NoPassword
  BY <1>2, UnderWayBook
<1>4. PICK r \in RestoreType : r.st = "done" /\ restore' = [restore EXCEPT ![i] = r]
  BY <1>1, SettleFacts DEF Stands
<1>5. /\ mem'.ready /\ mem'.unlocked = mem.unlocked /\ mem'.promise = 0
      /\ mem'.launched = mem.launched /\ mem'.submitting = mem.submitting
      /\ mem'.keyrings = mem.keyrings /\ mem'.password = mem.password
  BY <1>1 DEF markKeyringRuntimeReady, Stands, MemType
<1> HIDE DEF T
<1>6. Opened(store, mem', T)
  BY <1>1, <1>3, <1>5 DEF Opened, Restoring
<1>7. ~Unsettled(r)
  BY <1>4 DEF Unsettled, settled
<1> HIDE DEF Unsettled
<1> QED BY <1>1, <1>2, <1>4, <1>5, <1>6, <1>7, TaskBook DEF T

LEMMA DeferredBook ==
  ASSUME NEW u \in Proc, Alone(u), Stands(u), NEW i \in Restores, Deferred(i)
  PROVE  BookInv(u)'
<1>1. ~DeferredThrows(i)
  BY DEF DeferredThrows, Alone, Stands, TypeOK
<1> QED BY <1>1, DeferredKeyringBook, DeferredSensitiveDoneBook,
           DeferredPublicDoneBook, DeferredShownBook, DeferredReadyBook DEF Deferred

-----------------------------------------------------------------------------
(* The beginning, a kill, and the invariant.                               *)

LEMMA FreshBook ==
  ASSUME NEW d, StoreIs(d)
  PROVE  /\ Kept(d, <<>>, FreshMem, Idle, Nothing)
         /\ Waits(d, <<>>, <<>>, FreshMem, Idle)
<1> DEFINE s == <<>>
<1>1. First(s) = "end" /\ Script(s, Idle.op) /\ s = <<>>
  BY FirstStages, ScriptEmpty
<1>2. /\ ~FreshMem.unlocked /\ FreshMem.promise = 0 /\ FreshMem.pending = Absent
      /\ FreshMem.password = NoPassword /\ ~FreshMem.launched
      /\ ~FreshMem.submitting /\ FreshMem.keyrings = Nothing /\ Idle.op = "none"
  BY DEF FreshMem, Idle
<1> HIDE DEF s
<1>3. One(Nothing, {})
  BY OneFacts, NothingType
<1>4. Session(d, FreshMem, Recoverable(d))
  BY <1>2, <1>3 DEF Session, Closed, Shut
<1>5. Calm(s, Idle)
  BY <1>1 DEF Calm
<1>6. Place(d, s, FreshMem, Idle, Nothing)
  BY <1>1, <1>3, <1>4, <1>5, CalmPlace
<1>7. Kept(d, s, FreshMem, Idle, Nothing)
  BY <1>1, <1>2, <1>6 DEF Kept
<1>8. Waits(d, <<>>, s, FreshMem, Idle)
  BY <1>1, <1>2 DEF Waits
<1> QED BY <1>7, <1>8 DEF s

LEMMA InstalledBook ==
  ASSUME NEW pw \in Password, NEW K \in Installed, NEW d,
         d = StoreOf(pw, K) \/ d = LegacyStoreOf(pw, K)
  PROVE  StoreIs(d)
<1> DEFINE v == [pw |-> pw, krs |-> AsBag(K)]
           b == AsBag(K \cap Public)
<1>1. \A J \in SUBSET Keyring : AsBag(J) \in Bag
  BY MaxCopiesType DEF AsBag, Bag
<1>2. AsBag(K) \in Bag /\ b \in Bag
  BY <1>1, KeyringServiceAssumption DEF KeyringServiceAssumption, Keyring
<1>3. v \in [pw : OptPassword, krs : Bag]
  BY <1>2 DEF OptPassword
<1>4. v # NoVault /\ b # Absent
  BY <1>2, <1>3, AbsenceAssumption DEF AbsenceAssumption
<1>5. \A k \in Keyring : v.krs[k] <= 1 /\ b[k] <= 1 /\ (b[k] > 0 => k \in Public)
  BY DEF AsBag
<1>6. pw # NoPassword
  BY KeyringServiceAssumption DEF KeyringServiceAssumption
<1> HIDE DEF v, b
<1>7. /\ StoreOf(pw, K).vault = v /\ StoreOf(pw, K).unenc = b
      /\ StoreOf(pw, K).booted = pw
  BY DEF StoreOf, v, b
<1>8. /\ LegacyStoreOf(pw, K).vault = v /\ LegacyStoreOf(pw, K).unenc = Absent
      /\ LegacyStoreOf(pw, K).snap = {} /\ LegacyStoreOf(pw, K).booted = pw
  BY DEF StoreOf, LegacyStoreOf, v
<1> QED BY <1>4, <1>5, <1>6, <1>7, <1>8 DEF StoreIs

LEMMA InitBook ==
  ASSUME NEW u \in Proc, Init
  PROVE  BookInv(u)
<1>1. /\ mem = FreshMem /\ todo[u] = <<>> /\ loc[u] = Idle /\ left[u] = Nothing
      /\ restore = <<>> /\ store \in Stores /\ orphans = Nothing
  BY DEF Init
<1>2. StoreIs(store)
  <2>1. CASE store = EmptyStore
    BY <2>1 DEF EmptyStore, StoreIs
  <2> QED BY <1>1, <2>1, InstalledBook DEF Stores
<1>3. IsEmpty(Nothing)
  BY OneFacts, NothingType
<1> QED BY <1>1, <1>2, <1>3, FreshBook DEF BookInv

LEMMA CrashBook ==
  ASSUME NEW u \in Proc, Stands(u), Crash
  PROVE  BookInv(u)'
<1>1. /\ mem' = FreshMem /\ todo'[u] = <<>> /\ loc'[u] = Idle /\ left'[u] = Nothing
      /\ restore' = <<>> /\ orphans' = Nothing /\ UNCHANGED store
  BY DEF Crash
<1>2. StoreIs(store)
  BY DEF Stands, Kept
<1>3. IsEmpty(Nothing)
  BY OneFacts, NothingType
<1> QED BY <1>1, <1>2, <1>3, FreshBook DEF BookInv

LEMMA AloneIsSingle ==
  ASSUME NEW u, Alone(u)
  PROVE  SingleUser(u) /\ u \in Proc
BY DEF Alone, SingleUser

LEMMA BookStep ==
  ASSUME NEW u, Alone(u), VaultInv(u), BookInv(u), [Next]_vars
  PROVE  BookInv(u)'
<1>1. u \in Proc /\ Stands(u)
  BY AloneIsSingle, StandsFacts DEF VaultInv
<1>2. TypeOK' /\ VaultOpens
  BY AloneIsSingle, VaultStep DEF VaultInv
<1>3. CASE UNCHANGED vars
  BY <1>3 DEF vars, bounds, BookInv
<1>4. ASSUME NEW p \in Proc, Operation(p) \/ Stage(p) PROVE BookInv(u)'
  <2>1. p = u
    BY DEF Alone
  <2> QED BY <1>1, <1>2, <1>4, <2>1, OperationBook, StageBook
<1>5. ASSUME NEW i \in Restores, Deferred(i) PROVE BookInv(u)'
  BY <1>1, <1>5, DeferredBook
<1>6. ~OrphanRestored
  BY <1>1 DEF Stands, OrphanRestored, IsEmpty, Members
<1>7. CASE Crash
  BY <1>1, <1>7, CrashBook
<1> QED BY <1>3, <1>4, <1>5, <1>6, <1>7 DEF Next, Stand

LEMMA BookHolds ==
  ASSUME NEW u, Alone(u)
  PROVE  Spec => [](VaultInv(u) /\ BookInv(u))
<1>1. Init => VaultInv(u) /\ BookInv(u)
  BY InitType, InitVault, InitBook, AloneIsSingle
<1>2. VaultInv(u) /\ BookInv(u) /\ [Next]_vars => (VaultInv(u) /\ BookInv(u))'
  BY VaultStep, BookStep, AloneIsSingle
<1> QED BY <1>1, <1>2, PTL DEF Spec

-----------------------------------------------------------------------------
(* At rest.                                                                *)

LEMMA AtRest ==
  ASSUME NEW u, Alone(u), VaultInv(u), BookInv(u), Quiescent
  PROVE  /\ Session(store, mem, Recoverable(store)) /\ mem.keyrings \in Bag
         /\ store \in StoreType
<1>1. u \in Proc /\ Stands(u) /\ todo[u] = <<>>
  BY AloneIsSingle, StandsFacts DEF VaultInv, Quiescent
<1> QED BY <1>1, IdleBook

\* With one caller whose deserialisations succeed, a locked service that is
\* at rest has forgotten the password and every seed phrase and private key,
\* whichever of its paths locked it: setLocked, the relock after a change of
\* password, a failed submission, a kill.
THEOREM NoSecretsWhileLocked ==
  ASSUME NEW u, Alone(u)
  PROVE  Spec => []LockedHoldsNoSecrets
<1>1. VaultInv(u) /\ BookInv(u) => LockedHoldsNoSecrets
  <2> SUFFICES ASSUME VaultInv(u), BookInv(u), Quiescent, ~mem.unlocked
               PROVE  /\ mem.password = NoPassword
                      /\ Members(mem.keyrings) \cap Sensitive = {}
    BY DEF LockedHoldsNoSecrets
  <2> DEFINE K == IF mem.launched THEN Displayed(store, Recoverable(store)) ELSE {}
  <2>1. /\ Session(store, mem, Recoverable(store)) /\ mem.keyrings \in Bag
        /\ store \in StoreType
    BY AtRest
  <2>2. mem.password = NoPassword /\ One(mem.keyrings, K)
    BY <2>1 DEF Session, Opened, Closed
  <2>3. K \in SUBSET Keyring /\ K \subseteq Public
    BY <2>1, RecoverableFacts DEF Displayed
  <2>4. Members(mem.keyrings) = K
    BY <2>1, <2>2, <2>3, OneFacts
  <2> QED BY <2>2, <2>3, <2>4, Disjoint
<1> QED BY <1>1, BookHolds, PTL

\* With one caller whose deserialisations succeed, a runtime that is declared
\* ready holds every account the disk can bring back, and no other.
THEOREM ReadyIsComplete ==
  ASSUME NEW u, Alone(u)
  PROVE  Spec => []ReadyMeansComplete
<1>1. VaultInv(u) /\ BookInv(u) => ReadyMeansComplete
  <2> SUFFICES ASSUME VaultInv(u), BookInv(u), Quiescent, mem.unlocked, mem.ready
               PROVE  Members(mem.keyrings) = Recoverable(store)
    BY DEF ReadyMeansComplete
  <2>1. /\ Session(store, mem, Recoverable(store)) /\ mem.keyrings \in Bag
        /\ store \in StoreType
    BY AtRest
  <2>2. One(mem.keyrings, Recoverable(store))
    BY <2>1 DEF Session, Opened, Closed, Shut
  <2>3. Recoverable(store) \in SUBSET Keyring
    BY <2>1, RecoverableFacts
  <2> QED BY <2>1, <2>2, <2>3, OneFacts
<1> QED BY <1>1, BookHolds, PTL

-----------------------------------------------------------------------------
(* The refinement.                                                         *)

\* The wallet is only ever unlocked behind a password.
OpenBooked == mem.unlocked => store.booted # NoPassword

LEMMA OpenIsBooked ==
  ASSUME NEW u, Alone(u), VaultInv(u), BookInv(u)
  PROVE  OpenBooked
<1>1. u \in Proc /\ Stands(u)
  BY AloneIsSingle, StandsFacts DEF VaultInv
<1>2. /\ Place(store, todo[u], mem, loc[u], left[u])
      /\ Waits(store, restore, todo[u], mem, loc[u])
      /\ todo[u] # <<>> => Sticky(store, mem, loc[u])
  BY <1>1 DEF Stands, Kept
<1>3. SUFFICES ASSUME mem.unlocked PROVE store.booted # NoPassword
  BY DEF OpenBooked
<1>4. ASSUME mem.password # NoPassword, ~At(u, "boot")
      PROVE  store.booted # NoPassword
  BY <1>4 DEF VaultInv, PasswordHeld
<1>5. CASE todo[u] = <<>>
  BY <1>1, <1>3, <1>5, IdleBook
<1>6. CASE todo[u] # <<>>
  <2> DEFINE x == First(todo[u])
             op == loc[u].op
  <2>1. Head(todo[u]) = x /\ Sticky(store, mem, loc[u])
    BY <1>2, <1>6 DEF First
  <2>2. At(u, x)
    BY <1>6, <2>1 DEF At
  <2>3. Runs(op, x)
    BY <1>1, <2>2, AtStage
  <2>4. ~At(u, "boot")
    BY <1>2, <1>3, <2>1 DEF At, Place, Booting, Shut
  <2>5. CASE op \in {"submit", "changePw", "add", "remove"}
    BY <2>1, <2>5 DEF Sticky
  <2>6. CASE op \notin {"submit", "changePw", "add", "remove"}
    <3>1. x \in {"boot", "launch", "public", "join"} \cup Shows
      BY <2>3, <2>6 DEF Runs, May
    <3>2. x \notin {"boot", "public"}
      <4>1. ~Unlocks(todo[u], loc[u]) \/ x # "public" \/ Second(todo[u]) = "ready"
        BY <2>6 DEF Unlocks, Shows
      <4>2. x = "public" => Second(todo[u]) # "ready"
        BY <1>1, <2>2, <2>6, AtStage DEF Then, Shows
      <4>3. x # "boot"
        BY <2>2, <2>4
      <4>4. x = "public" /\ ~Unlocks(todo[u], loc[u]) => ~mem.unlocked
        BY <1>2 DEF Place, Shut
      <4> HIDE DEF x
      <4> QED BY <1>3, <4>1, <4>2, <4>3, <4>4
    <3>3. CASE x = "join"
      BY <1>2, <1>4, <2>4, <3>3 DEF Waits, Joined
    <3>4. CASE x = "launch"
      BY <1>2, <1>3, <1>4, <2>4, <3>4 DEF Place, Launching, Opened, Shut
    <3>5. CASE x \in Shows
      <4>1. Session(store, mem, Recoverable(store))
        BY <1>2, <2>6, <3>5 DEF Place, Calm
      <4> QED BY <1>3, <1>4, <2>4, <4>1 DEF Session, Opened, Closed, Shut
    <3> QED BY <3>1, <3>2, <3>3, <3>4, <3>5
  <2> QED BY <2>5, <2>6
<1> QED BY <1>5, <1>6

\* What the book sees of a step.
Keeps == [Book!Next]_(Book!vars)

\* A step that writes nothing opens the book, closes it or leaves it alone.
LEMMA NoWriteKeeps ==
  ASSUME TypeOK, TypeOK', OpenBooked', UNCHANGED store
  PROVE  Keeps
<1>1. UNCHANGED <<Recoverable(store), store.booted>>
  OBVIOUS
<1>2. mem.unlocked \in BOOLEAN /\ mem'.unlocked \in BOOLEAN
  BY DEF TypeOK, MemType
<1>3. CASE ~mem.unlocked /\ mem'.unlocked
  <2>1. Book!Open
    BY <1>1, <1>2, <1>3 DEF Book!Open, OpenBooked
  <2> QED BY <2>1 DEF Keeps, Book!Next
<1>4. CASE mem.unlocked /\ ~mem'.unlocked
  <2>1. Book!Close
    BY <1>1, <1>2, <1>4 DEF Book!Close
  <2> QED BY <2>1 DEF Keeps, Book!Next
<1>5. CASE mem.unlocked <=> mem'.unlocked
  <2>1. mem'.unlocked = mem.unlocked
    BY <1>2, <1>5
  <2> QED BY <1>1, <2>1 DEF Keeps, Book!vars
<1> QED BY <1>2, <1>3, <1>4, <1>5

\* The write that ends an operation is the operation, as the book has it.
LEMMA GoalKeeps ==
  ASSUME NEW l, Recoverable(store') = Goal(store, l),
         store'.booted = store.booted, mem'.unlocked = mem.unlocked,
         l.op \in {"add", "remove"} =>
           /\ l.kr \in Keyring /\ store.booted # NoPassword
           /\ l.kr \in Sensitive => mem.unlocked
  PROVE  Keeps
<1>1. CASE Recoverable(store') = Recoverable(store)
  BY <1>1 DEF Keeps, Book!vars
<1>2. CASE Recoverable(store') # Recoverable(store)
  <2>1. l.op \in {"add", "remove"}
    BY <1>2 DEF Goal
  <2>2. CASE l.op = "add"
    <3>1. Recoverable(store') = Recoverable(store) \cup {l.kr}
      BY <2>2 DEF Goal
    <3>2. l.kr \notin Recoverable(store)
      BY <1>2, <3>1
    <3>3. Book!Add(l.kr)
      BY <2>1, <3>1, <3>2 DEF Book!Add
    <3> QED BY <2>1, <3>3 DEF Keeps, Book!Next
  <2>3. CASE l.op = "remove"
    <3>1. Recoverable(store') = Recoverable(store) \ {l.kr}
      BY <2>3 DEF Goal
    <3>2. l.kr \in Recoverable(store)
      BY <1>2, <3>1
    <3>3. Book!Remove(l.kr)
      BY <2>1, <3>1, <3>2 DEF Book!Remove
    <3> QED BY <2>1, <3>3 DEF Keeps, Book!Next
  <2> QED BY <2>1, <2>2, <2>3
<1> QED BY <1>1, <1>2

LEMMA WriteKeeps ==
  ASSUME NEW u \in Proc, Stands(u), Write(u) \/ WriteUnencrypted(u)
  PROVE  Keeps
<1> DEFINE l == loc[u]
<1>1. PICK x \in {"write", "writeUnencrypted"} : At(u, x)
  BY DEF Write, WriteUnencrypted
<1>2. /\ First(todo[u]) = x /\ Runs(l.op, x) /\ Sticky(store, mem, l)
      /\ Place(store, todo[u], mem, l, left[u])
  BY <1>1, AtStage
<1>3. Recoverable(store') = Goal(store, l)
  BY WriteBook, WriteUnencryptedBook
<1>4. mem \in MemType /\ store \in StoreType
  BY DEF Stands
<1>5. store'.booted = store.booted
  BY <1>4 DEF Write, WriteUnencrypted, Written, StoreType
<1>6. mem'.unlocked = mem.unlocked
  BY <1>4 DEF Write, WriteUnencrypted, Advance, MemType
<1>7. l.op # "changePw"
  BY <1>1, <1>2 DEF Runs, May, Opening, Shows, Rekeying
<1>8. ASSUME l.op \in {"add", "remove"}
      PROVE  /\ l.kr \in Keyring /\ store.booted # NoPassword
             /\ l.kr \in Sensitive => mem.unlocked
  <2>1. /\ l.kr \in Keyring /\ store.booted # NoPassword
        /\ mem.unlocked \/ l.kr \in Public
    BY <1>2, <1>8 DEF Sticky
  <2> QED BY <2>1, Disjoint
<1> HIDE DEF l
<1> QED BY <1>3, <1>5, <1>6, <1>8, GoalKeeps

LEMMA WriteSnapshotKeeps ==
  ASSUME NEW u \in Proc, Stands(u), WriteSnapshot(u)
  PROVE  Keeps
<1>1. Recoverable(store') = Recoverable(store)
  BY WriteSnapshotBook
<1>2. store'.booted = store.booted
  BY DEF WriteSnapshot, Stands, StoreType
<1>3. mem'.unlocked = mem.unlocked
  BY DEF WriteSnapshot, Advance, Stands, MemType
<1> QED BY <1>1, <1>2, <1>3 DEF Keeps, Book!vars

LEMMA WriteNewKeeps ==
  ASSUME NEW u \in Proc, Stands(u), WriteNew(u)
  PROVE  Keeps
<1> DEFINE pw == loc[u].npw
           m == holdPassword(mem, pw)
<1>1. /\ Recoverable(store') = Recoverable(store) /\ store'.booted = pw
      /\ pw \in Password /\ store.booted # NoPassword
  BY WriteNewBook
<1>2. m.unlocked = mem.unlocked /\ m \in MemType
  BY <1>1 DEF holdPassword, Stands, MemType, OptPassword
<1>3. Advance(u, m, loc[u], Rest(u))
  BY DEF WriteNew
<1> HIDE DEF m, pw
<1>4. mem'.unlocked = mem.unlocked
  BY <1>2, <1>3 DEF Advance, MemType
<1>5. Book!ChangePassword(pw)
  BY <1>1, <1>4 DEF Book!ChangePassword
<1> QED BY <1>1, <1>5 DEF Keeps, Book!Next

LEMMA BootKeeps ==
  ASSUME NEW u \in Proc, Stands(u), TypeOK', BootWritten(u)
  PROVE  Keeps
<1>1. /\ Recoverable(store') = Recoverable(store) /\ store.booted = NoPassword
      /\ store'.booted = BuiltIn /\ mem'.unlocked
  BY BootBook
<1>2. mem'.unlocked = TRUE
  BY <1>1 DEF TypeOK, MemType
<1>3. Book!Install
  BY <1>1, <1>2 DEF Book!Install
<1> QED BY <1>3 DEF Keeps, Book!Next

\* Nothing else writes.
LEMMA StoreWriters ==
  ASSUME NEW u \in Proc, Stands(u), Stage(u)
  PROVE  \/ UNCHANGED store
         \/ Write(u) \/ WriteSnapshot(u) \/ WriteUnencrypted(u) \/ WriteNew(u)
         \/ BootWritten(u)
<1>1. CASE \/ Verify(u) \/ Reload(u) \/ Decrypt(u)
           \/ RestoreKeyring(u) \/ RestoreKeyringThrows(u)
           \/ SensitiveRestored(u) \/ PublicRestored(u)
           \/ Display(u) \/ Show(u) \/ Ready(u) \/ Join(u)
  BY <1>1 DEF Verify, Reload, Decrypt, RestoreKeyring, RestoreKeyringThrows,
              SensitiveRestored, PublicRestored, Display, Show, Ready, Join, Quiet
<1>2. CASE \/ Serialize(u) \/ Snapshot(u) \/ Encrypt(u)
           \/ AssertCanPersist(u) \/ CheckForDuplicate(u) \/ Compare(u)
           \/ PushKeyring(u) \/ Acknowledge(u) \/ RemoveKeyring(u)
  BY <1>2 DEF Serialize, Snapshot, Encrypt, AssertCanPersist, CheckForDuplicate,
              Compare, PushKeyring, Acknowledge, RemoveKeyring, Quiet
<1>3. CASE \/ Rekey(u) \/ Collect(u) \/ EncryptNew(u) \/ Relock(u)
           \/ PersistAgain(u) \/ EraseKeyrings(u) \/ LaunchChoice(u)
  BY <1>3 DEF Rekey, Collect, EncryptNew, Relock, PersistAgain, EraseKeyrings,
              LaunchChoice, Quiet
<1>4. ~EraseStore(u)
  BY NotAt DEF EraseStore
<1> QED BY <1>1, <1>2, <1>3, <1>4 DEF Stage

LEMMA OperationsWriteNothing ==
  ASSUME NEW u \in Proc, Operation(u)
  PROVE  UNCHANGED store
BY DEF Operation, Launch, SubmitPassword, SetLocked, AddKeyring, RemoveAccount,
       Refresh, UpdatePassword, Wipe, Erase, Begin

LEMMA NextKeeps ==
  ASSUME NEW u, Alone(u), VaultInv(u), BookInv(u), TypeOK', OpenBooked', [Next]_vars
  PROVE  Keeps
<1>1. u \in Proc /\ Stands(u) /\ TypeOK
  BY AloneIsSingle, StandsFacts DEF VaultInv
<1>2. CASE UNCHANGED store
  BY <1>1, <1>2, NoWriteKeeps
<1>3. CASE ~UNCHANGED store
  <2>1. ASSUME NEW p \in Proc, Operation(p) \/ Stage(p)
        PROVE  Stage(u)
    <3>1. p = u
      BY DEF Alone
    <3> QED BY <1>3, <2>1, <3>1, OperationsWriteNothing
  <2>2. ASSUME NEW i \in Restores, Deferred(i)
        PROVE  FALSE
    BY <1>3, <2>2 DEF Deferred, DeferredKeyring, DeferredSensitiveDone,
       DeferredPublicDone, DeferredShown, DeferredReady, DeferredThrows, TaskOnly
  <2>3. Stage(u)
    BY <1>3, <2>1, <2>2 DEF Next, OrphanRestored, Crash, Stand, vars
  <2>4. \/ Write(u) \/ WriteSnapshot(u) \/ WriteUnencrypted(u) \/ WriteNew(u)
        \/ BootWritten(u)
    BY <1>1, <1>3, <2>3, StoreWriters
  <2> QED BY <1>1, <2>4, WriteKeeps, WriteSnapshotKeeps, WriteNewKeeps, BootKeeps
<1> QED BY <1>2, <1>3

LEMMA InitMapsBook ==
  ASSUME NEW u, Alone(u), Init, VaultInv(u), BookInv(u)
  PROVE  Book!Init
<1>1. store \in StoreType /\ StoreIs(store) /\ mem.unlocked = FALSE
  BY DEF VaultInv, TypeOK, BookInv, Kept, Init, FreshMem
<1>2. store.booted \in Password \cup {NoPassword}
  BY <1>1 DEF StoreType, OptPassword
<1>3. Recoverable(store) \in SUBSET Keyring
  BY <1>1, RecoverableFacts
<1>4. store.booted = NoPassword => Recoverable(store) = {}
  BY <1>1, RecoverableFacts DEF StoreIs
<1> QED BY <1>1, <1>2, <1>3, <1>4 DEF Book!Init

\* With one caller whose deserialisations succeed, the service implements the
\* book of accounts: every step of an unlock, a lock, a deferred restore, a
\* change of password or a kill leaves the accounts on disk alone, and every
\* write changes them by the one account its operation names, a secret one only
\* while the wallet is unlocked.
THEOREM ServiceImplementsBook ==
  ASSUME NEW u, Alone(u)
  PROVE  Spec => ImplementsBook
<1> DEFINE I == VaultInv(u) /\ BookInv(u) /\ OpenBooked
<1>1. Spec => []I
  <2>1. VaultInv(u) /\ BookInv(u) => I
    BY OpenIsBooked
  <2> QED BY <2>1, BookHolds, PTL
<1>2. Init /\ I => Book!Init
  BY InitMapsBook
<1>3. I /\ I' /\ [Next]_vars => [Book!Next]_(Book!vars)
  <2>1. I' => TypeOK' /\ OpenBooked'
    BY DEF VaultInv
  <2> QED BY <2>1, NextKeeps DEF Keeps
<1> HIDE DEF I
<1> QED BY <1>1, <1>2, <1>3, PTL DEF Spec, ImplementsBook, Book!Spec

-----------------------------------------------------------------------------
(* A change of password loses nothing either.                              *)

\* What NothingLost needs on top of BookInv: between its write and its
\* acknowledgement an addition is on disk, and between the removal and its
\* write nobody counts on the account any more.
Recorded(u) ==
  /\ saved \subseteq Recoverable(store)
  /\ loc[u].op = "add" /\ First(todo[u]) \in Shows \cup {"acknowledge"} =>
       loc[u].kr \in Recoverable(store)
  /\ loc[u].op = "remove" /\ Edits(todo[u]) => loc[u].kr \notin saved

\* The chain of l ends, goes on at s, or goes on at s after a wait.
Carries(u, l) == loc'[u].op = l.op /\ loc'[u].kr = l.kr
Goes(u, l, s) ==
  todo'[u] = <<>> \/ (Carries(u, l) /\ todo'[u] \in {s, <<"join">> \o s})

LEMMA AdvanceGoes ==
  ASSUME TypeOK, NEW u \in Proc, NEW m, NEW k, NEW l, NEW s,
         k.op = l.op /\ k.kr = l.kr, Advance(u, m, k, s)
  PROVE  todo'[u] = s /\ (s # <<>> => Carries(u, l))
BY DEF Advance, TypeOK, Carries

LEMMA ThrowEnds ==
  ASSUME TypeOK, NEW u \in Proc, NEW m, Throw(u, m)
  PROVE  todo'[u] = <<>>
BY DEF Throw, Advance, TypeOK

LEMMA StartGoes ==
  ASSUME TypeOK, NEW u \in Proc, NEW m, NEW l \in LocType, NEW s,
         startDeferredRestore(u, m, l, s)
  PROVE  Goes(u, l, s)
<1>1. CASE m.pending = Absent
  <2>1. Advance(u, markKeyringRuntimeReady(m), l, s) \/ Throw(u, m)
    BY <1>1 DEF startDeferredRestore
  <2> QED BY <2>1, AdvanceGoes, ThrowEnds DEF Goes
<1>2. CASE m.pending # Absent
  <2> DEFINE n == Len(restore) + 1
             k == [l EXCEPT !.rid = n]
             r == [m EXCEPT !.restoreId = @ + 1, !.pending = Absent,
                            !.promise = n, !.ready = FALSE,
                            !.restoring = TRUE, !.failed = FALSE]
             t == <<"join">> \o s
  <2>1. k.op = l.op /\ k.kr = l.kr
    BY DEF LocType
  <2>2. Advance(u, r, k, t)
    BY <1>2 DEF startDeferredRestore
  <2> HIDE DEF k, r, t
  <2>3. todo'[u] = t /\ (t # <<>> => Carries(u, l))
    BY <2>1, <2>2, AdvanceGoes
  <2> QED BY <2>3 DEF Goes, t
<1> QED BY <1>1, <1>2

LEMMA EnsureGoes ==
  ASSUME TypeOK, NEW u \in Proc, NEW m, NEW l \in LocType, NEW s,
         ensureKeyringRuntimeReady(u, m, l, s)
  PROVE  Goes(u, l, s)
<1> DEFINE k == [l EXCEPT !.rid = m.promise]
           t == <<"join">> \o s
<1>1. k.op = l.op /\ k.kr = l.kr
  BY DEF LocType
<1>2. \/ Throw(u, m) \/ Advance(u, m, l, s) \/ Advance(u, m, k, t)
      \/ startDeferredRestore(u, m, l, s)
  BY DEF ensureKeyringRuntimeReady
<1> HIDE DEF k, t
<1>3. CASE Advance(u, m, k, t)
  <2>1. todo'[u] = t /\ (t # <<>> => Carries(u, l))
    BY <1>1, <1>3, AdvanceGoes
  <2> QED BY <2>1 DEF Goes, t
<1>4. CASE Advance(u, m, l, s)
  <2>1. todo'[u] = s /\ (s # <<>> => Carries(u, l))
    BY <1>4, AdvanceGoes
  <2> QED BY <2>1 DEF Goes
<1>5. CASE Throw(u, m)
  BY <1>5, ThrowEnds DEF Goes
<1> QED BY <1>2, <1>3, <1>4, <1>5, StartGoes

\* A write that begins stands at its first stage or waits.
Persists(u, l) ==
  todo'[u] = <<>>
    \/ (Carries(u, l) /\ First(todo'[u]) \in {"join", "serialize", "snapshot"})

LEMMA PersistAllGoes ==
  ASSUME TypeOK, NEW u \in Proc, NEW m, NEW l \in LocType,
         NEW s \in Seq(StageName), persistAllKeyrings(u, m, l, s)
  PROVE  Persists(u, l)
<1> DEFINE k == [l EXCEPT !.ser = m.keyrings]
           w == <<"snapshot", "encrypt">> \o s
           t == <<"serialize">> \o w
<1>1. {"join", "serialize", "snapshot", "encrypt"} \subseteq StageName
  BY DEF StageName
<1>2. /\ <<"encrypt">> \o s \in Seq(StageName)
      /\ w = <<"snapshot">> \o (<<"encrypt">> \o s)
  BY <1>1, FirstPrepend, Regroup
<1>3. k.op = l.op /\ k.kr = l.kr
  BY DEF LocType
<1>4. \/ ensureKeyringRuntimeReady(u, m, l, t)
      \/ Throw(u, m) \/ Advance(u, m, k, w)
  BY DEF persistAllKeyrings, serializeForPersist
<1> HIDE DEF k, w
<1>5. w \in Seq(StageName) /\ First(w) = "snapshot" /\ w # <<>>
  BY <1>1, <1>2, FirstPrepend
<1>6. CASE ensureKeyringRuntimeReady(u, m, l, t)
  <2>1. t \in Seq(StageName) /\ First(t) = "serialize"
    BY <1>1, <1>5, FirstPrepend
  <2> HIDE DEF t
  <2>2. First(<<"join">> \o t) = "join"
    BY <1>1, <2>1, FirstPrepend
  <2>3. Goes(u, l, t)
    BY <1>6, EnsureGoes
  <2> QED BY <2>1, <2>2, <2>3 DEF Goes, Persists
<1>7. CASE Advance(u, m, k, w)
  BY <1>3, <1>5, <1>7, AdvanceGoes DEF Persists
<1>8. CASE Throw(u, m)
  BY <1>8, ThrowEnds DEF Persists
<1> QED BY <1>4, <1>6, <1>7, <1>8

LEMMA PersistGoes ==
  ASSUME TypeOK, NEW u \in Proc, NEW m, NEW l \in LocType, NEW x,
         NEW s \in Seq(StageName), persistKeyringsForKeyring(u, m, l, x, s)
  PROVE  Persists(u, l)
<1> DEFINE k == [l EXCEPT !.ser = m.keyrings]
           w == <<"snapshot", "writeSnapshot", "writeUnencrypted">> \o s
<1>1. {"snapshot", "writeSnapshot", "writeUnencrypted"} \subseteq StageName
  BY DEF StageName
<1>2. w = <<"snapshot">> \o (<<"writeSnapshot">> \o (<<"writeUnencrypted">> \o s))
  BY <1>1, Regroup
<1>3. k.op = l.op /\ k.kr = l.kr
  BY DEF LocType
<1>4. persistAllKeyrings(u, m, l, s) \/ Advance(u, m, k, w)
  BY DEF persistKeyringsForKeyring
<1> HIDE DEF k, w
<1>5. First(w) = "snapshot" /\ w # <<>>
  <2>1. /\ <<"writeUnencrypted">> \o s \in Seq(StageName)
        /\ <<"writeSnapshot">> \o (<<"writeUnencrypted">> \o s) \in Seq(StageName)
    BY <1>1, FirstPrepend
  <2> QED BY <1>1, <1>2, <2>1, FirstPrepend
<1>6. CASE Advance(u, m, k, w)
  BY <1>3, <1>5, <1>6, AdvanceGoes DEF Persists
<1> QED BY <1>4, <1>6, PersistAllGoes

\* An unlock stays the operation it is.
SameOp(u, l) == todo'[u] = <<>> \/ loc'[u].op = l.op

LEMMA AdvanceSame ==
  ASSUME TypeOK, NEW u \in Proc, NEW m, NEW k, NEW l, NEW s,
         k.op = l.op, Advance(u, m, k, s)
  PROVE  SameOp(u, l)
BY DEF Advance, TypeOK, SameOp

LEMMA UnlockSame ==
  ASSUME TypeOK, NEW u \in Proc, NEW m, NEW l \in LocType, NEW s,
         unlockKeyrings(u, m, l, s)
  PROVE  SameOp(u, l)
<1> DEFINE k == [l EXCEPT !.key = store.vault.pw, !.ser = store.vault.krs]
<1>1. k.op = l.op
  BY DEF LocType
<1>2. Throw(u, m) \/ Advance(u, clearKeyrings(m), k, s)
  BY DEF unlockKeyrings
<1> HIDE DEF k
<1> QED BY <1>1, <1>2, ThrowEnds, AdvanceSame DEF SameOp

LEMMA SetUnlockedSame ==
  ASSUME TypeOK, NEW u \in Proc, NEW m, NEW l \in LocType, setUnlocked(u, m, l)
  PROVE  SameOp(u, l)
<1> DEFINE open == [m EXCEPT !.unlocked = TRUE]
           s == <<>>
<1>1. s \in Seq(StageName)
  OBVIOUS
<1>2. persistAllKeyrings(u, open, l, s) \/ Advance(u, open, l, s)
  BY DEF setUnlocked
<1> HIDE DEF open, s
<1>3. CASE persistAllKeyrings(u, open, l, s)
  <2>1. Persists(u, l)
    BY <1>1, <1>3, PersistAllGoes
  <2> QED BY <2>1 DEF Persists, Carries, SameOp
<1> QED BY <1>2, <1>3, AdvanceSame

LEMMA OpenVaultSame ==
  ASSUME TypeOK, NEW u \in Proc, NEW m, NEW l \in LocType, openVault(u, m, l)
  PROVE  SameOp(u, l)
<1> DEFINE n == holdPassword(m, l.pw)
           s == <<"decrypt", "sensitive", "public">>
                  \o (IF l.defer THEN <<"ready">> ELSE <<"display", "ready">>)
<1>1. unlockKeyrings(u, n, l, s) \/ setUnlocked(u, n, l)
  BY DEF openVault
<1> HIDE DEF n, s
<1> QED BY <1>1, UnlockSame, SetUnlockedSame

LEMMA SubmitSame ==
  ASSUME TypeOK, NEW u \in Proc, NEW pw \in Password, NEW trusted \in BOOLEAN,
         NEW defer \in BOOLEAN, submitPassword(u, pw, trusted, defer)
  PROVE  todo'[u] = <<>> \/ loc'[u].op = "submit"
<1> DEFINE l == [Idle EXCEPT !.op = "submit", !.pw = pw, !.key = store.booted,
                             !.flag = store.vault # NoVault, !.defer = defer]
           m == [mem EXCEPT !.submitting = TRUE]
           s == <<"verify">>
<1>1. l \in LocType /\ l.op = "submit"
  <2>1. Idle \in LocType /\ store.booted \in OptPassword /\ pw \in OptPassword
    BY IdleType DEF TypeOK, StoreType, OptPassword
  <2>2. (store.vault # NoVault) \in BOOLEAN
    OBVIOUS
  <2>3. l \in LocType
    BY <2>1, <2>2 DEF LocType, OpName
  <2> QED BY <2>3 DEF Idle
<1>2. Throw(u, mem) \/ openVault(u, m, l) \/ Advance(u, m, l, s)
  BY DEF submitPassword
<1> HIDE DEF l, m, s
<1>3. Throw(u, mem) \/ SameOp(u, l)
  BY <1>1, <1>2, OpenVaultSame, AdvanceSame
<1> QED BY <1>1, <1>3, ThrowEnds DEF SameOp

-----------------------------------------------------------------------------
(* The steps.                                                              *)

\* A chain that is neither an addition nor a removal, or at rest, records
\* whatever leaves the accounts alone.
LEMMA OtherRecorded ==
  ASSUME NEW u \in Proc, Recorded(u), UNCHANGED saved,
         Recoverable(store') = Recoverable(store),
         \/ todo'[u] = <<>> \/ loc'[u].op \notin {"add", "remove"}
  PROVE  Recorded(u)'
<1>1. CASE todo'[u] = <<>>
  <2>1. First(todo'[u]) = "end"
    BY <1>1, FirstStages
  <2> QED BY <2>1 DEF Recorded, Edits, Shows, Saving, Plain
<1>2. CASE loc'[u].op \notin {"add", "remove"}
  BY <1>2 DEF Recorded
<1> QED BY <1>1, <1>2

\* An addition or a removal goes on.
LEMMA CarriedOn ==
  ASSUME NEW u \in Proc, Recorded(u), UNCHANGED saved,
         Recoverable(store') = Recoverable(store), Carries(u, loc[u]),
         /\ loc[u].op = "add" /\ First(todo'[u]) \in Shows \cup {"acknowledge"} =>
              First(todo[u]) \in Shows
         /\ loc[u].op = "remove" /\ Edits(todo'[u]) => Edits(todo[u])
  PROVE  Recorded(u)'
BY DEF Recorded, Carries

\* The stages of an unlock and of a change of password, and the launch.
LEMMA UnlockRecorded ==
  ASSUME NEW u \in Proc, Stands(u), Recorded(u),
         \/ Verify(u) \/ Reload(u) \/ Decrypt(u) \/ SensitiveRestored(u)
         \/ PublicRestored(u) \/ Ready(u) \/ Rekey(u) \/ Collect(u)
         \/ EncryptNew(u) \/ Relock(u) \/ LaunchChoice(u)
  PROVE  Recorded(u)'
<1> DEFINE l == loc[u]
<1>1. PICK st \in {"verify", "reload", "decrypt", "sensitive", "public", "ready",
                   "rekey", "collect", "encryptNew", "relock", "launch"} : At(u, st)
  BY DEF Verify, Reload, Decrypt, SensitiveRestored, PublicRestored, Ready, Rekey,
         Collect, EncryptNew, Relock, LaunchChoice
<1>2. l.op \notin {"add", "remove"}
  <2>1. Runs(l.op, st)
    BY <1>1, AtStage
  <2> QED BY <2>1 DEF Runs, May, Opening, Saving, Plain, Shows, Rekeying
<1>3. UNCHANGED <<store, saved>>
  BY DEF Verify, Reload, Decrypt, SensitiveRestored, PublicRestored, Ready, Rekey,
         Collect, EncryptNew, Relock, LaunchChoice, Quiet
<1>4. l \in LocType /\ TypeOK
  BY DEF Stands
<1>5. SameOp(u, l) \/ loc'[u].op = "submit"
  <2>1. CASE Verify(u)
    <3> DEFINE k == [l EXCEPT !.flag = shouldRestoreVault, !.defer = mem.unlocked]
    <3>1. k.op = l.op
      BY <1>4 DEF LocType
    <3>2. Throw(u, mem) \/ openVault(u, mem, l) \/ Advance(u, mem, k, Rest(u))
      BY <2>1 DEF Verify
    <3> HIDE DEF k
    <3>3. CASE Throw(u, mem)
      BY <1>4, <3>3, ThrowEnds DEF SameOp
    <3> HIDE DEF l
    <3> QED BY <1>4, <3>1, <3>2, <3>3, OpenVaultSame, AdvanceSame
  <2>2. CASE Reload(u)
    <3> DEFINE s == <<"decrypt", "sensitive", "public", "ready">> \o Rest(u)
    <3>1. unlockKeyrings(u, mem, l, s) \/ Advance(u, mem, l, Rest(u))
      BY <2>2 DEF Reload
    <3> HIDE DEF l, s
    <3> QED BY <1>4, <3>1, UnlockSame, AdvanceSame
  <2>3. CASE Decrypt(u)
    <3> DEFINE pub == OrNothing(store.unenc)
               k == [l EXCEPT !.list = pub]
    <3>1. k.op = l.op
      BY <1>4 DEF LocType
    <3>2. \/ Throw(u, mem) \/ (\E m : setUnlocked(u, m, l))
          \/ Advance(u, mem, k, Rest(u))
      BY <2>3 DEF Decrypt
    <3> HIDE DEF k
    <3>3. CASE Throw(u, mem)
      BY <1>4, <3>3, ThrowEnds DEF SameOp
    <3> HIDE DEF l
    <3> QED BY <1>4, <3>1, <3>2, <3>3, SetUnlockedSame, AdvanceSame
  <2>4. CASE SensitiveRestored(u) \/ EncryptNew(u)
    <3>1. Advance(u, mem, l, Rest(u))
      BY <2>4 DEF SensitiveRestored, EncryptNew
    <3> QED BY <1>4, <3>1, AdvanceSame
  <2>5. CASE PublicRestored(u)
    <3> DEFINE k == [l EXCEPT !.list = mem.keyrings]
    <3>1. k.op = l.op
      BY <1>4 DEF LocType
    <3>2. Advance(u, mem, l, Rest(u)) \/ (\E s : Advance(u, mem, k, s))
      BY <2>5 DEF PublicRestored, updateMemStoreKeyrings
    <3> HIDE DEF k
    <3> QED BY <1>4, <3>1, <3>2, AdvanceSame
  <2>6. CASE Ready(u)
    <3> DEFINE m == markKeyringRuntimeReady(mem)
    <3>1. setUnlocked(u, m, l) \/ Advance(u, m, l, Rest(u))
      BY <2>6 DEF Ready
    <3> HIDE DEF m, l
    <3> QED BY <1>4, <3>1, SetUnlockedSame, AdvanceSame
  <2>7. CASE Rekey(u) \/ Collect(u)
    <3> DEFINE k == [l EXCEPT !.ser = mem.keyrings]
               s == <<"collect">> \o Rest(u)
    <3>1. k.op = l.op
      BY <1>4 DEF LocType
    <3>2. ensureKeyringRuntimeReady(u, mem, l, s) \/ Advance(u, mem, k, Rest(u))
      BY <2>7 DEF Rekey, Collect
    <3> HIDE DEF k, s, l
    <3>3. CASE ensureKeyringRuntimeReady(u, mem, l, s)
      <4>1. Goes(u, l, s)
        BY <1>4, <3>3, EnsureGoes
      <4> QED BY <4>1 DEF Goes, Carries, SameOp
    <3> QED BY <1>4, <3>1, <3>2, <3>3, AdvanceSame
  <2>8. CASE Relock(u)
    <3> DEFINE k == [l EXCEPT !.list = mem.keyrings]
    <3>1. k.op = l.op
      BY <1>4 DEF LocType
    <3>2. \/ \E m, s : Advance(u, m, l, s)
          \/ \E s : Advance(u, mem, k, s)
      BY <2>8 DEF Relock, updateMemStoreKeyrings
    <3> HIDE DEF k
    <3> QED BY <1>4, <3>1, <3>2, AdvanceSame
  <2>9. CASE LaunchChoice(u)
    <3>1. submitPassword(u, BuiltIn, FALSE, FALSE) \/ (\E m, s : Advance(u, m, l, s))
      BY <2>9 DEF LaunchChoice
    <3>2. BuiltIn \in Password
      BY KeyringServiceAssumption DEF KeyringServiceAssumption
    <3> QED BY <1>4, <3>1, <3>2, SubmitSame, AdvanceSame DEF SameOp
  <2> QED
    BY <2>1, <2>2, <2>3, <2>4, <2>5, <2>6, <2>7, <2>8, <2>9
<1> QED BY <1>2, <1>3, <1>5, OtherRecorded DEF SameOp

\* The stages of an addition or a removal that write nothing.
LEMMA MutationRecorded ==
  ASSUME NEW u \in Proc, Stands(u), Recorded(u),
         \/ Display(u) \/ Show(u) \/ Join(u) \/ Serialize(u) \/ Snapshot(u)
         \/ Encrypt(u) \/ AssertCanPersist(u) \/ CheckForDuplicate(u)
         \/ Compare(u) \/ PushKeyring(u)
  PROVE  Recorded(u)'
<1> DEFINE l == loc[u]
           s == Rest(u)
<1>1. PICK st \in {"display", "show", "join", "serialize", "snapshot", "encrypt",
                   "assert", "duplicate", "compare", "push"} : At(u, st)
  BY DEF Display, Show, Join, Serialize, Snapshot, Encrypt, AssertCanPersist,
         CheckForDuplicate, Compare, PushKeyring
<1>2. /\ First(todo[u]) = st /\ Second(todo[u]) = First(s)
      /\ s \in Seq(StageName) /\ Runs(l.op, st) /\ Then(l.op, st, First(s))
  BY <1>1, AtStage
<1>3. UNCHANGED <<store, saved>>
  BY DEF Display, Show, Join, Serialize, Snapshot, Encrypt, AssertCanPersist,
         CheckForDuplicate, Compare, PushKeyring, Quiet
<1>4. l \in LocType /\ TypeOK
  BY DEF Stands
<1>5. {"show", "write", "compare", "join"} \subseteq StageName
  BY DEF StageName
<1>6. ASSUME Carries(u, l),
             st \in {"display", "show", "join", "serialize", "snapshot", "encrypt"},
             \/ st \in {"show", "join", "serialize", "snapshot"} /\ todo'[u] = s
             \/ st = "display" /\ First(todo'[u]) = "show"
             \/ st = "encrypt" /\ First(todo'[u]) = "write"
      PROVE  Recorded(u)'
  <2>1. l.op = "add" /\ First(todo'[u]) \in Shows \cup {"acknowledge"} => st \in Shows
    BY <1>2, <1>6 DEF Then, Shows
  <2>2. l.op = "remove" /\ Edits(todo'[u]) => Edits(todo[u])
    <3>1. CASE st \in {"serialize", "snapshot", "encrypt"}
      BY <1>2, <3>1 DEF Edits, Saving
    <3>2. CASE st = "join"
      <4> SUFFICES ASSUME l.op = "remove" PROVE Edits(todo'[u]) => Edits(todo[u])
        OBVIOUS
      <4>1. todo'[u] = s /\ First(s) \in {"serialize", "remove"}
        BY <1>2, <1>6, <3>2 DEF Then, Shows
      <4> QED BY <1>2, <3>2, <4>1 DEF Edits, Saving, Plain
    <3>3. CASE st \in Shows
      <4> SUFFICES ASSUME l.op = "remove" PROVE ~Edits(todo'[u])
        OBVIOUS
      <4>1. First(todo'[u]) \in {"show", "display", "end"}
        BY <1>2, <1>6, <3>3 DEF Then, Shows
      <4> QED BY <4>1 DEF Edits, Saving, Plain
    <3> QED BY <1>6, <3>1, <3>2, <3>3 DEF Shows
  <2> QED BY <1>2, <1>3, <1>6, <2>1, <2>2, CarriedOn
<1>7. ASSUME Carries(u, l), st \in {"assert", "duplicate", "compare", "push"},
             First(todo'[u]) \notin Shows \cup {"acknowledge"}
      PROVE  Recorded(u)'
  <2>1. l.op = "add"
    BY <1>2, <1>7 DEF Runs, May, Opening, Saving, Plain, Shows, Rekeying
  <2> QED BY <1>3, <1>7, <2>1, CarriedOn
<1>8. ASSUME todo'[u] = <<>> PROVE Recorded(u)'
  BY <1>3, <1>8, OtherRecorded
<1>9. CASE Display(u)
  <2> DEFINE k == [l EXCEPT !.list = mem.keyrings]
             t == <<"show">> \o s
  <2>1. k.op = l.op /\ k.kr = l.kr
    BY <1>4 DEF LocType
  <2>2. At(u, "display") /\ Advance(u, mem, k, t)
    BY <1>9 DEF Display, updateMemStoreKeyrings
  <2>3. t # <<>> /\ First(t) = "show"
    BY <1>2, <1>5, FirstPrepend
  <2>4. st = "display"
    BY <1>2, <2>2, AtStage
  <2> HIDE DEF k, t, l
  <2>5. todo'[u] = t /\ Carries(u, l)
    BY <1>4, <2>1, <2>2, <2>3, AdvanceGoes
  <2> QED BY <1>6, <2>3, <2>4, <2>5
<1>10. CASE Encrypt(u)
  <2> DEFINE k == [l EXCEPT !.key = mem.password]
             t == <<"write">> \o s
  <2>1. k.op = l.op /\ k.kr = l.kr
    BY <1>4 DEF LocType
  <2>2. At(u, "encrypt") /\ (Throw(u, mem) \/ Advance(u, mem, k, t))
    BY <1>10 DEF Encrypt
  <2>3. t # <<>> /\ First(t) = "write"
    BY <1>2, <1>5, FirstPrepend
  <2>4. st = "encrypt"
    BY <1>2, <2>2, AtStage
  <2> HIDE DEF k, t, l
  <2>5. CASE Advance(u, mem, k, t)
    <3>1. todo'[u] = t /\ Carries(u, l)
      BY <1>4, <2>1, <2>3, <2>5, AdvanceGoes
    <3> QED BY <1>6, <2>3, <2>4, <3>1
  <2> QED BY <1>4, <1>8, <2>2, <2>5, ThrowEnds
<1>11. CASE Show(u) \/ Join(u) \/ Serialize(u) \/ Snapshot(u)
  <2>1. PICK x \in {"show", "join", "serialize", "snapshot"} : At(u, x)
    BY <1>11 DEF Show, Join, Serialize, Snapshot
  <2>2. st = x
    BY <1>2, <2>1, AtStage
  <2> DEFINE k1 == [l EXCEPT !.ser = mem.keyrings]
             k2 == [l EXCEPT !.snp = Members(mem.keyrings)]
  <2>3. k1.op = l.op /\ k1.kr = l.kr /\ k2.op = l.op /\ k2.kr = l.kr
    BY <1>4 DEF LocType
  <2>4. \/ Throw(u, mem)
        \/ \E m : \/ Advance(u, m, l, s) \/ Advance(u, m, k1, s)
                  \/ Advance(u, m, k2, s)
    BY <1>11 DEF Show, Join, Serialize, Snapshot, serializeForPersist
  <2> HIDE DEF k1, k2
  <2>5. todo'[u] = <<>> \/ (todo'[u] = s /\ Carries(u, l))
    <3> HIDE DEF l, s
    <3> QED BY <1>4, <2>3, <2>4, AdvanceGoes, ThrowEnds
  <2> QED BY <1>6, <1>8, <2>2, <2>5
<1>12. CASE AssertCanPersist(u) \/ Compare(u) \/ CheckForDuplicate(u)
  <2> DEFINE t == <<"compare">> \o s
  <2>1. PICK x \in {"assert", "compare", "duplicate"} : At(u, x)
    BY <1>12 DEF AssertCanPersist, Compare, CheckForDuplicate
  <2>2. st = x
    BY <1>2, <2>1, AtStage
  <2>3. \/ Throw(u, mem) \/ Advance(u, mem, l, s)
        \/ ensureKeyringRuntimeReady(u, mem, l, t)
    BY <1>12 DEF AssertCanPersist, Compare, CheckForDuplicate, compareAccounts
  <2>4. /\ t \in Seq(StageName) /\ First(t) = "compare"
        /\ First(<<"join">> \o t) = "join"
    BY <1>2, <1>5, FirstPrepend
  <2> HIDE DEF t
  <2>5. Goes(u, l, s) \/ Goes(u, l, t)
    <3> HIDE DEF l, s
    <3> QED BY <1>4, <2>3, AdvanceGoes, ThrowEnds, EnsureGoes DEF Goes
  <2>6. First(s) \in {"duplicate", "push"} /\ First(<<"join">> \o s) = "join"
    BY <1>2, <1>5, <2>2, FirstPrepend DEF Then, Shows
  <2>7. todo'[u] = <<>> \/ (Carries(u, l) /\ First(todo'[u]) \in
                              {"duplicate", "push", "compare", "join"})
    BY <2>4, <2>5, <2>6 DEF Goes
  <2> QED BY <1>7, <1>8, <2>2, <2>7 DEF Shows
<1>13. CASE PushKeyring(u)
  <2> DEFINE m == [mem EXCEPT !.keyrings = Push(@, l.kr)]
  <2>1. At(u, "push") /\ persistKeyringsForKeyring(u, m, l, l.kr, s)
    BY <1>13 DEF PushKeyring
  <2>2. st = "push"
    BY <1>2, <2>1, AtStage
  <2> HIDE DEF m
  <2>3. Persists(u, l)
    BY <1>2, <1>4, <2>1, PersistGoes
  <2> QED BY <1>7, <1>8, <2>2, <2>3 DEF Persists, Shows
<1> QED BY <1>9, <1>10, <1>11, <1>12, <1>13

\* The removal itself, and the acknowledgement.
LEMMA RemoveRecorded ==
  ASSUME NEW u \in Proc, Stands(u), Recorded(u), RemoveKeyring(u)
  PROVE  Recorded(u)'
<1> DEFINE l == loc[u]
           s == Rest(u)
           m == [mem EXCEPT !.keyrings = Drop(@, l.kr)]
<1>1. At(u, "remove") /\ UNCHANGED store
  BY DEF RemoveKeyring, Quiet
<1>2. s \in Seq(StageName) /\ Runs(l.op, "remove")
  BY <1>1, AtStage
<1>3. l \in LocType /\ TypeOK
  BY DEF Stands
<1>4. \/ Throw(u, mem) /\ UNCHANGED saved
      \/ persistKeyringsForKeyring(u, m, l, l.kr, s) /\ saved' = saved \ {l.kr}
  BY DEF RemoveKeyring
<1>5. CASE Throw(u, mem) /\ UNCHANGED saved
  BY <1>1, <1>3, <1>5, ThrowEnds, OtherRecorded
<1>6. CASE persistKeyringsForKeyring(u, m, l, l.kr, s) /\ saved' = saved \ {l.kr}
  <2> HIDE DEF m
  <2>1. Persists(u, l)
    BY <1>2, <1>3, <1>6, PersistGoes
  <2>2. l.op = "remove"
    BY <1>2 DEF Runs, May, Opening, Saving, Plain, Shows, Rekeying
  <2>3. CASE todo'[u] = <<>>
    <3>1. First(todo'[u]) = "end"
      BY <2>3, FirstStages
    <3> QED BY <1>1, <1>6, <3>1 DEF Recorded, Edits, Shows, Saving, Plain
  <2>4. CASE Carries(u, l)
    BY <1>1, <1>6, <2>2, <2>4 DEF Recorded, Carries
  <2> QED BY <2>1, <2>3, <2>4 DEF Persists
<1> QED BY <1>4, <1>5, <1>6

LEMMA AcknowledgeRecorded ==
  ASSUME NEW u \in Proc, Stands(u), Recorded(u), Acknowledge(u)
  PROVE  Recorded(u)'
<1> DEFINE l == loc[u]
           s == Rest(u)
<1>1. /\ At(u, "acknowledge") /\ UNCHANGED store /\ Advance(u, mem, l, s)
      /\ saved' = saved \cup {k \in Keyring : k = l.kr}
  BY DEF Acknowledge, Quiet
<1>2. First(todo[u]) = "acknowledge" /\ Runs(l.op, "acknowledge")
      /\ Then(l.op, "acknowledge", First(s))
  BY <1>1, AtStage
<1>3. l.op = "add" /\ First(s) = "end"
  BY <1>2 DEF Runs, May, Opening, Saving, Plain, Shows, Rekeying, Then
<1>4. todo'[u] = s
  BY <1>1 DEF Advance, Stands, TypeOK
<1>5. saved' \subseteq Recoverable(store)
  BY <1>1, <1>2, <1>3 DEF Recorded
<1> QED BY <1>1, <1>3, <1>4, <1>5 DEF Recorded, Edits, Shows, Saving, Plain

\* The write is where an addition comes to the disk, and a removal too.
LEMMA WriteRecorded ==
  ASSUME NEW u \in Proc, Stands(u), Recorded(u), Write(u) \/ WriteUnencrypted(u)
  PROVE  Recorded(u)'
<1> DEFINE l == loc[u]
           s == Rest(u)
<1>1. /\ At(u, "write") \/ At(u, "writeUnencrypted")
      /\ Advance(u, mem, l, s) /\ UNCHANGED saved
  BY DEF Write, WriteUnencrypted
<1>2. PICK x \in {"write", "writeUnencrypted"} : At(u, x)
  BY <1>1
<1>3. First(todo[u]) = x /\ Runs(l.op, x) /\ Then(l.op, x, First(s))
  BY <1>2, AtStage
<1>4. First(s) \in {"display", "end"} /\ Edits(todo[u])
  BY <1>3 DEF Then, Shows, Edits, Saving, Plain
<1>5. Recoverable(store') = Goal(store, l)
  BY WriteBook, WriteUnencryptedBook
<1>6. todo'[u] = s /\ (loc'[u] = l \/ s = <<>>)
  BY <1>1 DEF Advance, Stands, TypeOK
<1>7. saved' \subseteq Recoverable(store')
  BY <1>1, <1>4, <1>5 DEF Recorded, Goal
<1>8. ~Edits(todo'[u])
  BY <1>4, <1>6 DEF Edits, Saving, Plain
<1>9. CASE s = <<>>
  <2>1. First(todo'[u]) = "end"
    BY <1>6, <1>9, FirstStages
  <2> QED BY <1>7, <1>8, <2>1 DEF Recorded, Shows
<1>10. CASE loc'[u] = l
  <2>1. l.op = "add" => l.kr \in Recoverable(store')
    BY <1>5 DEF Goal
  <2> QED BY <1>7, <1>8, <1>10, <2>1 DEF Recorded
<1> QED BY <1>6, <1>9, <1>10

\* The other writes leave the accounts alone.
LEMMA OtherWritesRecorded ==
  ASSUME NEW u \in Proc, Stands(u), Recorded(u),
         WriteSnapshot(u) \/ WriteNew(u) \/ BootWritten(u)
  PROVE  Recorded(u)'
<1> DEFINE l == loc[u]
           s == Rest(u)
<1>1. Recoverable(store') = Recoverable(store)
  BY WriteSnapshotBook, WriteNewBook, BootBook
<1>2. PICK x \in {"writeSnapshot", "writeNew", "boot"} :
        /\ At(u, x)
        /\ x = "writeSnapshot" <=> WriteSnapshot(u)
        /\ x = "writeNew" <=> WriteNew(u)
  BY DEF WriteSnapshot, WriteNew, BootWritten, At
<1>3. First(todo[u]) = x /\ Runs(l.op, x) /\ Then(l.op, x, First(s))
  BY <1>2, AtStage
<1>4. \E m : Advance(u, m, l, s)
  BY DEF WriteSnapshot, WriteNew, BootWritten
<1>5. todo'[u] = s /\ (s # <<>> => loc'[u] = l)
  BY <1>4 DEF Advance, Stands, TypeOK
<1>6. UNCHANGED saved
  <2>1. CASE WriteNew(u)
    <3>1. l.op = "changePw"
      BY <1>2, <1>3, <2>1 DEF Runs, May, Opening, Saving, Plain, Shows, Rekeying
    <3> QED BY <2>1, <3>1 DEF WriteNew
  <2> QED BY <2>1 DEF WriteSnapshot, BootWritten
<1>7. CASE s = <<>>
  BY <1>1, <1>5, <1>6, <1>7, OtherRecorded
<1>8. CASE s # <<>> /\ x = "writeSnapshot"
  <2>1. First(s) = "writeUnencrypted" /\ Edits(todo[u])
    BY <1>3, <1>8 DEF Then, Shows, Edits, Plain
  <2>2. Carries(u, l)
    BY <1>5, <1>8 DEF Carries
  <2> QED BY <1>1, <1>5, <1>6, <2>1, <2>2, CarriedOn DEF Shows
<1>9. CASE s # <<>> /\ x \in {"writeNew", "boot"}
  <2>1. l.op \notin {"add", "remove"}
    BY <1>3, <1>9 DEF Runs, May, Opening, Saving, Plain, Shows, Rekeying
  <2> QED BY <1>1, <1>5, <1>6, <1>9, <2>1, OtherRecorded
<1> QED BY <1>7, <1>8, <1>9

LEMMA StageRecorded ==
  ASSUME NEW u \in Proc, Alone(u), Stands(u), Recorded(u), Stage(u)
  PROVE  Recorded(u)'
<1>1. ~RestoreKeyringThrows(u)
  BY DEF RestoreKeyringThrows, Alone, Stands, TypeOK
<1>2. ~PersistAgain(u) /\ ~EraseKeyrings(u) /\ ~EraseStore(u)
  BY NotAt DEF PersistAgain, EraseKeyrings, EraseStore
<1>3. CASE RestoreKeyring(u)
  BY <1>3 DEF RestoreKeyring, Recorded
<1> QED
  BY <1>1, <1>2, <1>3, UnlockRecorded, MutationRecorded, RemoveRecorded,
     AcknowledgeRecorded, WriteRecorded, OtherWritesRecorded DEF Stage

\* An operation begins short of its push or its removal.
LEMMA OperationRecorded ==
  ASSUME NEW u \in Proc, Alone(u), Stands(u), Recorded(u), Operation(u)
  PROVE  Recorded(u)'
<1>1. UNCHANGED <<store, saved>> /\ ~Wipe(u) /\ ~Erase(u)
  BY DEF Operation, Launch, SubmitPassword, SetLocked, AddKeyring, RemoveAccount,
         Refresh, UpdatePassword, Wipe, Erase, Begin, Alone
<1>2. TypeOK /\ Idle \in LocType
  BY IdleType DEF Stands
<1>3. CASE AddKeyring(u) \/ RemoveAccount(u)
  <2> DEFINE a == <<"assert", "duplicate", "push", "display", "acknowledge">>
  <2>1. PICK k \in Keyring, op \in {"add", "remove"}, s \in {a, removeStages} :
          LET l == [Idle EXCEPT !.op = op, !.kr = k]
          IN  ensureKeyringRuntimeReady(u, mem, l, s) \/ Advance(u, mem, l, s)
    BY <1>3 DEF AddKeyring, RemoveAccount
  <2> DEFINE l == [Idle EXCEPT !.op = op, !.kr = k]
  <2>2. l \in LocType
    BY <1>2 DEF LocType, OpName
  <2>3. /\ s \in Seq(StageName) /\ First(s) \in {"assert", "remove"} /\ s # <<>>
        /\ "join" \in StageName
    <3>1. a \in Seq(StageName) /\ First(a) = "assert" /\ a # <<>>
      BY DEF StageName, First
    <3>2. /\ removeStages \in Seq(StageName) /\ First(removeStages) = "remove"
          /\ removeStages # <<>>
      BY DEF removeStages, StageName, First
    <3>3. "join" \in StageName
      BY DEF StageName
    <3> QED BY <3>1, <3>2, <3>3
  <2>4. First(<<"join">> \o s) = "join" /\ Second(<<"join">> \o s) = First(s)
    BY <2>3, FirstPrepend
  <2> HIDE DEF l, a
  <2>5. Goes(u, l, s)
    BY <1>2, <2>1, <2>2, <2>3, EnsureGoes, AdvanceGoes DEF Goes, l
  <2>6. First(todo'[u]) \in {"end", "assert", "remove", "join"}
        /\ (First(todo'[u]) = "join" => Second(todo'[u]) \in {"assert", "remove"})
    BY <2>3, <2>4, <2>5, FirstStages DEF Goes
  <2> QED BY <1>1, <2>6 DEF Recorded, Edits, Shows, Saving, Plain
<1>4. CASE ~AddKeyring(u) /\ ~RemoveAccount(u)
  <2>1. todo'[u] = <<>> \/ loc'[u].op \notin {"add", "remove"}
    <3>1. CASE SubmitPassword(u)
      <4>1. PICK pw \in Password, trusted, defer \in BOOLEAN :
              submitPassword(u, pw, trusted, defer)
        BY <3>1 DEF SubmitPassword
      <4> QED BY <1>2, <4>1, SubmitSame
    <3>2. CASE Launch(u)
      <4> DEFINE l == [Idle EXCEPT !.op = "launch", !.pw = BuiltIn]
      <4>1. l.op = "launch"
        BY DEF Idle
      <4>2. \E m, s : Advance(u, m, l, s)
        BY <3>2 DEF Launch
      <4> HIDE DEF l
      <4> QED BY <1>2, <4>1, <4>2, AdvanceSame DEF SameOp
    <3>3. CASE SetLocked(u)
      <4> DEFINE m == lockRuntime(mem)
                 l == [Idle EXCEPT !.op = "lock"]
                 k == [l EXCEPT !.list = m.keyrings]
      <4>1. l.op = "lock" /\ k.op = "lock"
        BY DEF Idle
      <4>2. \E s : Advance(u, m, l, s) \/ Advance(u, m, k, s)
        BY <3>3 DEF SetLocked, updateMemStoreKeyrings
      <4> HIDE DEF l, k, m
      <4> QED BY <1>2, <4>1, <4>2, AdvanceSame DEF SameOp
    <3>4. CASE Refresh(u)
      <4> DEFINE l == [Idle EXCEPT !.op = "refresh"]
      <4>1. l \in LocType /\ l.op = "refresh"
        BY <1>2 DEF LocType, OpName
      <4>2. \E s : ensureKeyringRuntimeReady(u, mem, l, s)
        BY <3>4 DEF Refresh
      <4> HIDE DEF l
      <4>3. PICK s : Goes(u, l, s)
        BY <1>2, <4>1, <4>2, EnsureGoes
      <4> QED BY <4>1, <4>3 DEF Goes, Carries
    <3>5. CASE UpdatePassword(u)
      <4>1. PICK pw, npw \in Password :
              Advance(u, mem, [Idle EXCEPT !.op = "changePw", !.pw = pw, !.npw = npw,
                                           !.key = store.booted], changePasswordStages)
        BY <3>5 DEF UpdatePassword
      <4> DEFINE l == [Idle EXCEPT !.op = "changePw", !.pw = pw, !.npw = npw,
                                   !.key = store.booted]
      <4>2. l.op = "changePw"
        BY DEF Idle
      <4>3. Advance(u, mem, l, changePasswordStages)
        BY <4>1
      <4> HIDE DEF l
      <4> QED BY <1>2, <4>2, <4>3, AdvanceSame DEF SameOp
    <3> QED BY <1>1, <1>4, <3>1, <3>2, <3>3, <3>4, <3>5 DEF Operation
  <2> QED BY <1>1, <2>1, OtherRecorded
<1> QED BY <1>3, <1>4

LEMMA RecordedStep ==
  ASSUME NEW u, Alone(u), VaultInv(u), BookInv(u), Recorded(u), [Next]_vars
  PROVE  Recorded(u)'
<1>1. u \in Proc /\ Stands(u)
  BY AloneIsSingle, StandsFacts DEF VaultInv
<1>2. CASE UNCHANGED vars
  BY <1>2 DEF vars, bounds, Recorded
<1>3. ASSUME NEW p \in Proc, Operation(p) \/ Stage(p) PROVE Recorded(u)'
  <2>1. p = u
    BY DEF Alone
  <2> QED BY <1>1, <1>3, <2>1, OperationRecorded, StageRecorded
<1>4. ASSUME NEW i \in Restores, Deferred(i) PROVE Recorded(u)'
  <2>1. UNCHANGED <<store, todo, loc, saved>>
    BY <1>4 DEF Deferred, DeferredKeyring, DeferredSensitiveDone,
       DeferredPublicDone, DeferredShown, DeferredReady, DeferredThrows, TaskOnly
  <2> QED BY <2>1 DEF Recorded
<1>5. CASE OrphanRestored
  BY <1>5 DEF OrphanRestored, Recorded
<1>6. CASE Crash
  <2>1. UNCHANGED <<store, saved>> /\ todo'[u] = <<>>
    BY <1>1, <1>6 DEF Crash
  <2> QED BY <1>1, <2>1, OtherRecorded
<1> QED BY <1>2, <1>3, <1>4, <1>5, <1>6 DEF Next, Stand

\* With one caller whose deserialisations succeed, a change of password loses
\* no account either: an account whose addition was acknowledged, and which was
\* not removed since, is on disk, under whichever password, and wherever the
\* process is killed.
THEOREM ChangingLosesNothing ==
  ASSUME NEW u, Alone(u)
  PROVE  Spec => []NothingLost
<1>1. Init => Recorded(u)
  <2> SUFFICES ASSUME Init PROVE Recorded(u)
    OBVIOUS
  <2>1. todo[u] = <<>> /\ saved = Recoverable(store)
    BY AloneIsSingle DEF Init
  <2>2. First(todo[u]) = "end"
    BY <2>1, FirstStages
  <2> QED BY <2>1, <2>2 DEF Recorded, Edits, Shows, Saving, Plain
<1>2. VaultInv(u) /\ BookInv(u) /\ Recorded(u) /\ [Next]_vars => Recorded(u)'
  BY RecordedStep
<1>3. Recorded(u) => NothingLost
  BY DEF Recorded, NothingLost
<1> QED BY <1>1, <1>2, <1>3, BookHolds, PTL DEF Spec
=============================================================================
