------------------------ MODULE KeyringAccounts_proofs ------------------------
(***************************************************************************)
(* No account is lost, and a runtime is declared ready only while the       *)
(* wallet is unlocked: with one caller, whatever deserialisation fails and  *)
(* wherever the process is killed.                                         *)
(*                                                                         *)
(* An account that may not be lost is DUE: its addition was acknowledged,   *)
(* or is under way and past its push.  What is due on disk is what was      *)
(* acknowledged.  The danger is a write that knows less than the disk, so   *)
(* the invariant says at each point of a chain where the due accounts are:  *)
(*   - in memory once the runtime is ready (MemFits);                       *)
(*   - in memory and the deferred payload of an unlock that is not ready,   *)
(*     which a failed restore puts back (MemFits, RestoreFits);             *)
(*   - during an unlock, in memory, in what the chain is deserialising and  *)
(*     in what it still has to (Opens);                                     *)
(*   - in the list that a persist has serialised and not written (Saves);   *)
(*   - the public ones in the memory of a locked session, as long as no     *)
(*     deserialisation failed (PublicFits).                                 *)
(* The parts speak of the first stage of the caller's chain, so that Chain  *)
(* says which stages may follow one another.                               *)
(***************************************************************************)
EXTENDS KeyringService_proofs

-----------------------------------------------------------------------------
(* The invariant.                                                          *)

First(s) == IF s = <<>> THEN "end" ELSE Head(s)
Second(s) == IF s = <<>> THEN "end" ELSE First(Tail(s))

Shows == {"display", "show"}
Plain == {"writeSnapshot", "writeUnencrypted"}
Saving == {"serialize", "snapshot", "encrypt", "write"}
Opening == {"decrypt", "sensitive", "public", "display", "show", "ready"}

\* Operation op may go through stage x ...
May(op, x) ==
  \/ op = "launch" /\ x \in {"boot", "launch", "public"} \cup Shows
  \/ op = "submit" /\ x \in {"verify", "join"} \cup Opening \cup Saving
  \/ op = "lock" /\ x \in {"public"} \cup Shows
  \/ /\ op = "add"
     /\ x \in {"assert", "duplicate", "compare", "push", "acknowledge", "join"}
                \cup Saving \cup Plain \cup Shows
  \/ op = "remove" /\ x \in {"remove", "join"} \cup Saving \cup Plain \cup Shows
  \/ op = "refresh" /\ x \in {"join"} \cup Shows

\* ... and y may be its next.
Follows(op, x, y) ==
  \/ x = "boot" /\ y = "launch"
  \/ x \in {"launch", "verify", "ready", "acknowledge"} /\ y = "end"
  \/ x = "decrypt" /\ y = "sensitive"
  \/ x = "sensitive" /\ y = "public"
  \/ x = "public" /\ y \in {"display", "ready", "end"}
  \/ x \in Shows /\ y \in {"display", "ready", "acknowledge", "end"}
  \/ x = "join" /\ op = "refresh" /\ y \in {"display", "end"}
  \/ x = "join" /\ op # "refresh" /\ y \in {"serialize", "assert", "compare", "remove"}
  \/ x = "serialize" /\ y = "snapshot"
  \/ x = "snapshot" /\ y \in {"encrypt", "writeSnapshot"}
  \/ x \in {"encrypt", "write"} /\ y = (IF op = "submit" THEN "end" ELSE "display")
  \/ x = "writeSnapshot" /\ y = "writeUnencrypted"
  \/ x = "assert" /\ y = "duplicate"
  \/ x \in {"duplicate", "compare"} /\ y = "push"
  \/ x \in {"push", "remove", "writeUnencrypted"} /\ y = "display"

\* A chain of operation op; only their snapshot stands before plain writes.
Chain(s, op) ==
  /\ \A i \in DOMAIN s :
       /\ May(op, s[i])
       /\ Follows(op, s[i], IF i = Len(s) THEN "end" ELSE s[i + 1])
  /\ \A i, j \in DOMAIN s :
       i < j /\ s[j] \in Plain => s[i] \in {"snapshot", "writeSnapshot"}

\* The account of an addition is in the list.
Pushed(s, l) ==
  /\ l.op = "add"
  /\ \/ First(s) \in {"acknowledge"} \cup Saving \cup Plain \cup Shows
     \/ First(s) = "join" /\ Second(s) = "serialize"

\* What must not be lost: a failed restore may lose what is not secret.
due(K, f) == {k \in K : f = 0 \/ k \in Sensitive}
Due(K, f, s, l) == due(K \cup {k \in Keyring : k = l.kr /\ Pushed(s, l)}, f)

Owed(r) == Members(r.data) \cup Members(r.pub)

StoreFits(d, W) ==
  /\ d.vault = NoVault => d.unenc = Absent
  /\ d.unenc = Absent => d.snap = {}
  /\ W \subseteq Recoverable(d)

\* A ready session has everything in memory; one that is open but not ready
\* has the rest of it in the deferred payload, or in a restore under way.
MemFits(m, D, d) ==
  /\ m.ready => m.unlocked /\ D \subseteq Members(m.keyrings)
  /\ ~m.unlocked => m.promise = 0 /\ m.pending = Absent
  /\ m.unlocked /\ ~m.ready /\ m.promise = 0 =>
       /\ m.pending = Absent => d.vault = NoVault
       /\ m.pending # Absent =>
            D \subseteq Members(m.keyrings) \cup Owed(m.pending)

\* An addition or a removal was offered, by a session that had started.
Mutates(s, m, l, d) ==
  /\ s # <<>> => m.launched
  /\ s # <<>> /\ l.op \in {"add", "remove"} =>
       /\ l.kr \in Keyring /\ (l.kr \in Sensitive => m.unlocked)
       /\ ~m.unlocked => d.unenc # Absent

\* The stages of an unlock add up to all there is.
Opens(s, m, l, lf, D, d) ==
  /\ m.submitting => m.launched /\ First(s) \notin {"boot", "launch"}
  /\ First(s) = "verify" => l.flag = (d.vault # NoVault)
  /\ First(s) = "decrypt" => d.vault # NoVault /\ l.ser = d.vault.krs /\ l.key = l.pw
  /\ First(s) = "sensitive" =>
       D \subseteq Members(m.keyrings) \cup Members(lf) \cup Members(l.list)
  /\ l.op = "submit" =>
       /\ First(s) \in {"verify"} \cup Opening => ~m.unlocked
       /\ First(s) = "public" => D \subseteq Members(m.keyrings) \cup Members(lf)
       /\ First(s) \in {"display", "show", "ready"} => D \subseteq Members(m.keyrings)

Encrypts(s) ==
  First(s) \in {"encrypt", "write"} \/ (First(s) = "snapshot" /\ Second(s) = "encrypt")
Rewrites(s) ==
  First(s) \in Plain \/ (First(s) = "snapshot" /\ Second(s) = "writeSnapshot")

\* What is about to be written is complete.
Saves(s, m, l, D, d) ==
  /\ First(s) = "serialize" => m.ready
  /\ Encrypts(s) => m.ready /\ D \subseteq Members(l.ser)
  /\ Rewrites(s) => ~m.unlocked /\ D \cap Public \subseteq Members(l.ser)
  /\ First(s) \in {"display", "show", "acknowledge"} /\ l.op = "add" =>
       D \subseteq Recoverable(d)

\* What a locked session shows is all there is of what is not secret.
PublicFits(s, m, l, lf, D, d, f) ==
  /\ f = 0 /\ ~m.unlocked /\ m.launched /\ d.unenc # Absent
  /\ ~(l.op = "submit" /\ First(s) \in Opening)
  /\ First(s) \notin {"boot", "launch"} /\ ~(First(s) = "verify" /\ l.key = l.pw)
  => \A k \in D \cap Public :
       k \in Members(m.keyrings) \/ (First(s) = "public" /\ k \in Members(lf))

Rests(d, W, D, f, s, m, l, lf) ==
  /\ StoreFits(d, W) /\ MemFits(m, D, d) /\ Chain(s, l.op)
  /\ Mutates(s, m, l, d) /\ Opens(s, m, l, lf, D, d) /\ Saves(s, m, l, D, d)
  /\ PublicFits(s, m, l, lf, D, d, f)

Unsettled(r) == r.st \notin settled

\* A restore under way is the latest, and its operation waits for it.
RestoreFits(r, i, s, m, l, D) ==
  /\ First(s) = "join" /\ l.rid = i /\ m.promise = i /\ r.id = m.restoreId
  /\ m.unlocked /\ ~m.ready
  /\ D \subseteq Members(r.prev) \cup Owed(r.from)
  /\ r.st = "sensitive" =>
       D \subseteq Members(r.next) \cup Members(r.left) \cup Members(r.from.pub)
  /\ r.st = "public" => D \subseteq Members(r.next) \cup Members(r.left)
  /\ r.st \in {"show", "mark"} => D \subseteq Members(m.keyrings)

RestoresFit(rs, s, m, l, D) ==
  /\ \A i \in DOMAIN rs : Unsettled(rs[i]) => RestoreFits(rs[i], i, s, m, l, D)
  /\ m.promise # 0 => m.promise \in DOMAIN rs /\ Unsettled(rs[m.promise])
  /\ First(s) = "join" =>
       /\ l.rid \in DOMAIN rs /\ m.unlocked /\ rs[l.rid].st # "stale"
       /\ rs[l.rid].st = "done" => m.ready

Fits(d, W, D, f, rs, s, m, l, lf) ==
  Rests(d, W, D, f, s, m, l, lf) /\ RestoresFit(rs, s, m, l, D)

AccountsInv(u) ==
  Fits(store, due(saved, failures), Due(saved, failures, todo[u], loc[u]),
       failures, restore, todo[u], mem, loc[u], left[u])

-----------------------------------------------------------------------------
(* Chains.                                                                 *)

LEMMA FirstStages == First(<<>>) = "end" /\ Second(<<>>) = "end"
BY DEF First, Second

LEMMA Filled ==
  ASSUME NEW s \in Seq(StageName), Len(s) > 0
  PROVE  s # <<>>
OBVIOUS

\* The first stage of a chain, and what follows it.
LEMMA ChainTail ==
  ASSUME NEW s \in Seq(StageName), NEW op, Chain(s, op), s # <<>>
  PROVE  /\ First(s) = Head(s) /\ Second(s) = First(Tail(s))
         /\ Tail(s) \in Seq(StageName) /\ Chain(Tail(s), op)
         /\ May(op, Head(s)) /\ Follows(op, Head(s), First(Tail(s)))
         /\ Head(s) \notin {"snapshot", "writeSnapshot"} =>
              \A i \in DOMAIN Tail(s) : Tail(s)[i] \notin Plain
<1>1. Len(s) \in Nat /\ Len(s) > 0 /\ DOMAIN s = 1 .. Len(s)
  OBVIOUS
<1>2. /\ Tail(s) \in Seq(StageName) /\ Len(Tail(s)) = Len(s) - 1
      /\ DOMAIN Tail(s) = 1 .. (Len(s) - 1)
      /\ \A i \in 1 .. (Len(s) - 1) : Tail(s)[i] = s[i + 1]
  OBVIOUS
<1>3. Head(s) = s[1] /\ 1 \in DOMAIN s
  BY <1>1
<1>4. First(Tail(s)) = IF 1 = Len(s) THEN "end" ELSE s[1 + 1]
  <2>1. CASE Len(s) = 1
    <3>1. Tail(s) = <<>>
      BY <1>2, <2>1
    <3> QED BY <2>1, <3>1 DEF First
  <2>2. CASE Len(s) # 1
    <3>1. 1 \in 1 .. (Len(s) - 1) /\ Tail(s) # <<>>
      <4>1. Len(Tail(s)) > 0 /\ 1 \in 1 .. (Len(s) - 1)
        BY <1>1, <1>2, <2>2
      <4>2. Tail(s) # <<>>
        BY <1>2, <4>1, Filled
      <4> QED BY <4>1, <4>2
    <3>2. Head(Tail(s)) = Tail(s)[1]
      BY <1>2, <3>1
    <3> QED BY <1>2, <2>2, <3>1, <3>2 DEF First
  <2> QED BY <2>1, <2>2
<1>5. May(op, Head(s)) /\ Follows(op, Head(s), First(Tail(s)))
  BY <1>3, <1>4 DEF Chain
<1>6. Chain(Tail(s), op)
  <2>1. ASSUME NEW i \in DOMAIN Tail(s)
        PROVE  /\ May(op, Tail(s)[i])
               /\ Follows(op, Tail(s)[i],
                    IF i = Len(Tail(s)) THEN "end" ELSE Tail(s)[i + 1])
    <3>1. i + 1 \in DOMAIN s /\ Tail(s)[i] = s[i + 1] /\ i \in Nat
          /\ (i = Len(Tail(s)) <=> i + 1 = Len(s))
          /\ (i # Len(Tail(s)) => Tail(s)[i + 1] = s[(i + 1) + 1])
      BY <1>1, <1>2
    <3> QED BY <3>1 DEF Chain
  <2>2. ASSUME NEW i \in DOMAIN Tail(s), NEW j \in DOMAIN Tail(s), i < j,
               Tail(s)[j] \in Plain
        PROVE  Tail(s)[i] \in {"snapshot", "writeSnapshot"}
    <3>1. /\ i + 1 \in DOMAIN s /\ j + 1 \in DOMAIN s /\ i + 1 < j + 1
          /\ Tail(s)[i] = s[i + 1] /\ Tail(s)[j] = s[j + 1]
      BY <1>1, <1>2, <2>2
    <3> QED BY <2>2, <3>1 DEF Chain
  <2> QED BY <2>1, <2>2 DEF Chain
<1>7. ASSUME Head(s) \notin {"snapshot", "writeSnapshot"},
             NEW i \in DOMAIN Tail(s)
      PROVE  Tail(s)[i] \notin Plain
  <2>1. i + 1 \in DOMAIN s /\ 1 < i + 1 /\ Tail(s)[i] = s[i + 1]
    BY <1>1, <1>2
  <2> QED BY <1>3, <1>7, <2>1 DEF Chain
<1> QED BY <1>2, <1>5, <1>6, <1>7 DEF First, Second

\* A stage put in front of a chain.
LEMMA ChainPrepend ==
  ASSUME NEW x \in StageName, NEW s \in Seq(StageName), NEW op, Chain(s, op),
         May(op, x), Follows(op, x, First(s)),
         \/ x \in {"snapshot", "writeSnapshot"}
         \/ \A i \in DOMAIN s : s[i] \notin Plain
  PROVE  Chain(<<x>> \o s, op)
<1> DEFINE t == <<x>> \o s
<1>1. /\ Len(s) \in Nat /\ DOMAIN s = 1 .. Len(s)
      /\ t \in Seq(StageName) /\ Len(t) = Len(s) + 1
      /\ DOMAIN t = 1 .. (Len(s) + 1)
  OBVIOUS
<1>2. t[1] = x /\ \A i \in 1 .. Len(s) : t[i + 1] = s[i]
  OBVIOUS
<1>3. First(s) = IF Len(s) = 0 THEN "end" ELSE s[1]
  BY DEF First
<1> HIDE DEF t
<1>4. ASSUME NEW i \in DOMAIN t
      PROVE  /\ May(op, t[i])
             /\ Follows(op, t[i], IF i = Len(t) THEN "end" ELSE t[i + 1])
  <2>1. CASE i = 1
    <3>1. (IF i = Len(t) THEN "end" ELSE t[i + 1]) = First(s)
      BY <1>1, <1>2, <1>3, <2>1
    <3> QED BY <1>2, <2>1, <3>1
  <2>2. CASE i # 1
    <3>1. i - 1 \in DOMAIN s /\ t[i] = s[i - 1]
      <4>1. i - 1 \in 1 .. Len(s) /\ (i - 1) + 1 = i
        BY <1>1, <2>2
      <4> QED BY <1>1, <1>2, <4>1
    <3>2. (IF i = Len(t) THEN "end" ELSE t[i + 1])
            = IF i - 1 = Len(s) THEN "end" ELSE s[(i - 1) + 1]
      <4>1. i \in Nat /\ (i = Len(t) <=> i - 1 = Len(s)) /\ (i - 1) + 1 = i
        BY <1>1
      <4>2. i # Len(t) => i \in 1 .. Len(s)
        BY <1>1
      <4> QED BY <1>2, <4>1, <4>2
    <3> QED BY <3>1, <3>2 DEF Chain
  <2> QED BY <2>1, <2>2
<1>5. ASSUME NEW i \in DOMAIN t, NEW j \in DOMAIN t, i < j, t[j] \in Plain
      PROVE  t[i] \in {"snapshot", "writeSnapshot"}
  <2>1. j - 1 \in DOMAIN s /\ t[j] = s[j - 1]
    <3>1. j - 1 \in 1 .. Len(s) /\ (j - 1) + 1 = j
      BY <1>1, <1>5
    <3> QED BY <1>1, <1>2, <3>1
  <2>2. CASE i = 1
    BY <1>2, <1>5, <2>1, <2>2
  <2>3. CASE i # 1
    <3>1. i - 1 \in 1 .. Len(s) /\ (i - 1) + 1 = i /\ i - 1 < j - 1
      BY <1>1, <1>5, <2>3
    <3>2. t[i] = s[i - 1] /\ i - 1 \in DOMAIN s
      BY <1>1, <1>2, <3>1
    <3> QED BY <1>5, <2>1, <3>1, <3>2 DEF Chain
  <2> QED BY <2>2, <2>3
<1> QED BY <1>4, <1>5 DEF Chain, t

\* What First and Second see of a stage put in front.
LEMMA FirstPrepend ==
  ASSUME NEW x \in StageName, NEW s \in Seq(StageName)
  PROVE  /\ <<x>> \o s \in Seq(StageName) /\ <<x>> \o s # <<>>
         /\ First(<<x>> \o s) = x /\ Second(<<x>> \o s) = First(s)
         /\ \A i \in DOMAIN (<<x>> \o s) :
              (<<x>> \o s)[i] \in {x} \cup StagesOf(s)
<1>1. <<x>> \o s # <<>> /\ Head(<<x>> \o s) = x /\ Tail(<<x>> \o s) = s
      /\ <<x>> \o s \in Seq(StageName)
      /\ StagesOf(<<x>> \o s) \subseteq {x} \cup StagesOf(s)
  BY StagesOfPrepend
<1> QED BY <1>1 DEF First, Second, StagesOf

LEMMA ChainEmpty == \A op : Chain(<<>>, op)
BY DEF Chain

LEMMA Concatenation ==
  ASSUME NEW x \in Seq(StageName), NEW y \in Seq(StageName),
         NEW z \in Seq(StageName)
  PROVE  (x \o y) \o z = x \o (y \o z)
OBVIOUS

LEMMA Pair ==
  ASSUME NEW a, NEW b
  PROVE  <<a, b>> = <<a>> \o <<b>>
<1> DEFINE p == <<a>> \o <<b>>
<1>1. Len(p) = 2 /\ p[1] = a /\ p[2] = b /\ p \in Seq({a, b})
  OBVIOUS
<1>2. Len(<<a, b>>) = 2 /\ <<a, b>>[1] = a /\ <<a, b>>[2] = b
      /\ <<a, b>> \in Seq({a, b})
  OBVIOUS
<1> HIDE DEF p
<1>3. \A i \in 1 .. 2 : p[i] = <<a, b>>[i]
  BY <1>1
<1>4. p = <<a, b>>
  BY <1>1, <1>2, <1>3, SeqEqual
<1> QED BY <1>4 DEF p

LEMMA Triple == \A a, b, c : <<a, b, c>> = <<a>> \o <<b, c>>
OBVIOUS

LEMMA Regroup ==
  ASSUME NEW a \in StageName, NEW b \in StageName, NEW c \in StageName,
         NEW s \in Seq(StageName)
  PROVE  /\ <<a, b>> \o s = <<a>> \o (<<b>> \o s)
         /\ <<a, b, c>> \o s = <<a>> \o (<<b>> \o (<<c>> \o s))
<1>1. /\ <<a>> \in Seq(StageName) /\ <<b>> \in Seq(StageName)
      /\ <<c>> \in Seq(StageName) /\ <<b, c>> \in Seq(StageName)
  OBVIOUS
<1>2. (<<a>> \o <<b>>) \o s = <<a>> \o (<<b>> \o s)
  BY <1>1, Concatenation
<1>3. (<<b>> \o <<c>>) \o s = <<b>> \o (<<c>> \o s)
  BY <1>1, Concatenation
<1>4. (<<a>> \o <<b, c>>) \o s = <<a>> \o (<<b, c>> \o s)
  BY <1>1, Concatenation
<1>5. <<a, b>> \o s = <<a>> \o (<<b>> \o s)
  BY <1>2, Pair, Zenon
<1>6. <<b, c>> \o s = <<b>> \o (<<c>> \o s)
  BY <1>3, Pair, Zenon
<1>7. <<a, b, c>> \o s = <<a>> \o (<<b, c>> \o s)
  BY <1>4, Triple, Zenon
<1> QED BY <1>5, <1>6, <1>7, Zenon

-----------------------------------------------------------------------------
(* Lists and what is due.                                                  *)

\* What the operations on a list do to its members.
LEMMA MembersOf ==
  ASSUME NEW b \in Bag, NEW k
  PROVE  /\ Members(b) \subseteq Members(Push(b, k))
         /\ k \in Keyring => k \in Members(Push(b, k))
         /\ Members(b) \subseteq Members(Drop(b, k)) \cup {k}
         /\ \A S : Members(Keep(b, S)) = Members(b) \cap S
         /\ Members(Nothing) = {} /\ Members(b) \subseteq Keyring
<1>1. \A x \in Keyring : b[x] \in 0 .. MaxCopies
  BY DEF Bag
<1>2. b = [x \in Keyring |-> b[x]] /\ MaxCopies \in Nat /\ MaxCopies > 0
  BY MaxCopiesType DEF Bag
<1>3. \A x \in Keyring : Push(b, k)[x] =
         IF x = k THEN IF b[x] < MaxCopies THEN b[x] + 1 ELSE b[x] ELSE b[x]
  BY <1>2 DEF Push
<1>4. \A x \in Keyring : Drop(b, k)[x] =
         IF x = k THEN IF b[x] > 0 THEN b[x] - 1 ELSE b[x] ELSE b[x]
  BY <1>2 DEF Drop
<1>5. Members(b) \subseteq Members(Push(b, k))
  BY <1>1, <1>2, <1>3 DEF Members
<1>6. k \in Keyring => k \in Members(Push(b, k))
  BY <1>1, <1>2, <1>3 DEF Members
<1>7. Members(b) \subseteq Members(Drop(b, k)) \cup {k}
  BY <1>1, <1>4 DEF Members
<1>8. \A S : Members(Keep(b, S)) = Members(b) \cap S
  BY <1>1 DEF Members, Keep
<1>9. Members(Nothing) = {} /\ Members(b) \subseteq Keyring
  BY DEF Members, Nothing
<1> QED BY <1>5, <1>6, <1>7, <1>8, <1>9

LEMMA DueFacts ==
  ASSUME NEW K, NEW f, NEW s, NEW l
  PROVE  /\ due(K, f) \subseteq Due(K, f, s, l)
         /\ ~Pushed(s, l) => Due(K, f, s, l) = due(K, f)
         /\ f # 0 => Due(K, f, s, l) \cap Public = {}
         /\ K \subseteq Keyring => Due(K, f, s, l) \subseteq Keyring
BY KeyringServiceAssumption DEF due, Due, KeyringServiceAssumption

\* No step but a push adds to what is due.
LEMMA DueShrinks ==
  ASSUME NEW K, NEW f \in Nat, NEW s, NEW l, NEW J \in SUBSET K, NEW g \in Nat,
         f <= g, NEW t, NEW n, Pushed(t, n) => Pushed(s, l) /\ n.kr = l.kr
  PROVE  /\ Due(J, g, t, n) \subseteq Due(K, f, s, l)
         /\ due(J, g) \subseteq due(K, f)
<1>1. g = 0 => f = 0
  OBVIOUS
<1> QED BY <1>1 DEF due, Due

\* A chain moves on: what has to hold of the place where it lands.
Lands(u, m, l, s) ==
  Fits(store', due(saved', failures'), Due(saved', failures', s, l), failures',
       restore', s, m, l, left'[u])

LEMMA AdvanceLands ==
  ASSUME TypeOK, NEW u \in Proc, NEW m \in MemType, NEW l \in LocType,
         NEW s \in Seq(StageName), Advance(u, m, l, s), Lands(u, m, l, s)
  PROVE  AccountsInv(u)'
<1>1. todo'[u] = s /\ loc'[u] = IF s = <<>> THEN Idle ELSE l
  BY DEF Advance, TypeOK
<1>2. CASE s # <<>>
  <2>1. mem' = m /\ loc'[u] = l
    BY <1>1, <1>2 DEF Advance
  <2> QED BY <1>1, <2>1 DEF AccountsInv, Lands
<1>3. CASE s = <<>>
  <2> DEFINE W == due(saved', failures')
             D == Due(saved', failures', s, l)
  <2>1. First(s) = "end" /\ Second(s) = "end"
    BY <1>3, FirstStages
  <2>2. ~Pushed(s, l) /\ ~Pushed(s, Idle)
    BY <2>1 DEF Pushed, Saving, Plain, Shows
  <2>3. D = W /\ Due(saved', failures', s, Idle) = W
    BY <2>2, DueFacts
  <2>4. /\ mem'.ready = m.ready /\ mem'.unlocked = m.unlocked
        /\ mem'.keyrings = m.keyrings /\ mem'.promise = m.promise
        /\ mem'.pending = m.pending /\ mem'.launched = m.launched
        /\ mem'.restoreId = m.restoreId
        /\ mem'.submitting => m.submitting
    BY <1>3 DEF Advance, MemType
  <2>5. Idle.op = "none"
    BY DEF Idle
  <2> HIDE DEF W, D
  <2>6. /\ Rests(store', W, W, failures', s, m, l, left'[u])
        /\ RestoresFit(restore', s, m, l, W)
    BY <2>3 DEF Lands, Fits, W, D
  <2>7. StoreFits(store', W) /\ MemFits(mem', W, store')
    BY <2>4, <2>6 DEF Rests, MemFits
  <2>8. Chain(s, Idle.op) /\ Mutates(s, mem', Idle, store')
    BY <1>3, ChainEmpty DEF Mutates
  <2>9. Opens(s, mem', Idle, left'[u], W, store')
    BY <2>1, <2>4, <2>5, <2>6 DEF Rests, Opens
  <2>10. Saves(s, mem', Idle, W, store')
    BY <2>1 DEF Saves, Encrypts, Rewrites, Plain
  <2>11. PublicFits(s, mem', Idle, left'[u], W, store', failures')
    BY <2>1, <2>4, <2>6 DEF Rests, PublicFits, Opening
  <2>12. RestoresFit(restore', s, mem', Idle, W)
    BY <2>1, <2>4, <2>6 DEF RestoresFit, RestoreFits
  <2>13. Fits(store', W, W, failures', restore', s, mem', Idle, left'[u])
    BY <2>7, <2>8, <2>9, <2>10, <2>11, <2>12 DEF Fits, Rests
  <2> QED BY <1>1, <1>3, <2>3, <2>13 DEF AccountsInv, W
<1> QED BY <1>2, <1>3

-----------------------------------------------------------------------------
(* One step of the user's chain.                                           *)

DueOnDisk == due(saved, failures)
DueIn(u) == Due(saved, failures, todo[u], loc[u])

\* The parts of the invariant, of what was due before the step.
RestsOf(u, d, s, m, l, lf) ==
  Rests(d, DueOnDisk, DueIn(u), failures, s, m, l, lf)

Steady == mem.promise = 0 /\ \A i \in DOMAIN restore : ~Unsettled(restore[i])

Standing(u) ==
  /\ TypeOK /\ mem \in MemType /\ loc[u] \in LocType /\ store \in StoreType
  /\ left[u] \in Bag /\ failures \in Nat /\ saved \in SUBSET Keyring
  /\ todo[u] \in Seq(StageName)
  /\ DueOnDisk \subseteq DueIn(u) /\ DueIn(u) \subseteq Keyring
  /\ failures # 0 => DueIn(u) \cap Public = {}
  /\ RestsOf(u, store, todo[u], mem, loc[u], left[u])

LEMMA StandingFacts ==
  ASSUME NEW u \in Proc, TypeOK, AccountsInv(u)
  PROVE  Standing(u)
<1>1. /\ mem \in MemType /\ loc[u] \in LocType /\ store \in StoreType
      /\ left[u] \in Bag /\ failures \in Nat /\ saved \in SUBSET Keyring
      /\ todo[u] \in Seq(StageName)
  BY DEF TypeOK
<1>2. /\ DueOnDisk \subseteq DueIn(u) /\ DueIn(u) \subseteq Keyring
      /\ failures # 0 => DueIn(u) \cap Public = {}
  BY <1>1, DueFacts DEF DueOnDisk, DueIn
<1>3. RestsOf(u, store, todo[u], mem, loc[u], left[u])
  BY DEF AccountsInv, Fits, RestsOf, DueOnDisk, DueIn
<1> QED BY <1>1, <1>2, <1>3 DEF Standing

\* Where the chain stands, and what may come next.
LEMMA StageFacts ==
  ASSUME NEW u \in Proc, Standing(u), NEW st, At(u, st)
  PROVE  /\ todo[u] # <<>> /\ First(todo[u]) = st /\ Second(todo[u]) = First(Rest(u))
         /\ Rest(u) \in Seq(StageName) /\ Chain(Rest(u), loc[u].op)
         /\ May(loc[u].op, st) /\ Follows(loc[u].op, st, First(Rest(u)))
         /\ st \notin {"snapshot", "writeSnapshot"} =>
              \A i \in DOMAIN Rest(u) : Rest(u)[i] \notin Plain
<1>1. todo[u] # <<>> /\ Head(todo[u]) = st
  BY DEF At
<1>2. Chain(todo[u], loc[u].op) /\ todo[u] \in Seq(StageName)
  BY DEF Standing, RestsOf, Rests
<1> QED BY <1>1, <1>2, ChainTail DEF Rest

\* A user's chain moves only when no restore is under way.
LEMMA SteadyFacts ==
  ASSUME NEW u \in Proc, Standing(u), AccountsInv(u),
         At(u, "join") => restore[loc[u].rid].st \in settled
  PROVE  Steady
<1>1. RestoresFit(restore, todo[u], mem, loc[u], DueIn(u))
  BY DEF AccountsInv, Fits, DueIn
<1>2. First(todo[u]) = "join" => At(u, "join")
  BY DEF First, At
<1>3. \A i \in DOMAIN restore : ~Unsettled(restore[i])
  BY <1>1, <1>2 DEF RestoresFit, RestoreFits, Unsettled
<1> QED BY <1>1, <1>3 DEF RestoresFit, Steady

LEMMA NoRestore ==
  ASSUME Steady, NEW s, First(s) # "join", NEW m, m.promise = 0, NEW l, NEW D
  PROVE  RestoresFit(restore, s, m, l, D)
BY DEF RestoresFit, Steady

\* Less is due than before.
LEMMA RestsShrink ==
  ASSUME NEW d, NEW W, NEW D, NEW f, NEW s, NEW m, NEW l, NEW lf,
         NEW V \in SUBSET W, NEW E \in SUBSET D, Rests(d, W, D, f, s, m, l, lf)
  PROVE  Rests(d, V, E, f, s, m, l, lf)
<1>1. StoreFits(d, V) /\ MemFits(m, E, d)
  BY DEF Rests, StoreFits, MemFits
<1>2. Opens(s, m, l, lf, E, d)
  BY DEF Rests, Opens
<1>3. Saves(s, m, l, E, d)
  BY DEF Rests, Saves
<1>4. PublicFits(s, m, l, lf, E, d, f)
  BY DEF Rests, PublicFits
<1> QED BY <1>1, <1>2, <1>3, <1>4 DEF Rests

\* The chain goes on and nothing new is due.
LEMMA Landing ==
  ASSUME NEW u \in Proc, Standing(u), Steady, UNCHANGED <<restore, failures>>,
         saved' \subseteq saved,
         NEW m \in MemType, m.promise = 0, NEW l \in LocType,
         NEW s \in Seq(StageName), First(s) # "join", Advance(u, m, l, s),
         Pushed(s, l) => Pushed(todo[u], loc[u]) /\ l.kr = loc[u].kr,
         RestsOf(u, store', s, m, l, left'[u])
  PROVE  AccountsInv(u)'
<1> DEFINE V == due(saved', failures')
           E == Due(saved', failures', s, l)
<1>1. V \subseteq DueOnDisk /\ E \subseteq DueIn(u)
  <2>1. failures \in Nat /\ failures <= failures
    BY DEF Standing
  <2> QED BY <2>1, DueShrinks DEF DueOnDisk, DueIn
<1> HIDE DEF V, E
<1>2. Rests(store', V, E, failures', s, m, l, left'[u])
  BY <1>1, RestsShrink DEF RestsOf
<1>3. RestoresFit(restore', s, m, l, E)
  BY NoRestore
<1>4. Lands(u, m, l, s)
  BY <1>2, <1>3 DEF Lands, Fits, V, E
<1> QED BY <1>4, AdvanceLands DEF Standing

\* The chain ends, thrown to or reached.
LEMMA Ending ==
  ASSUME NEW u \in Proc, Standing(u), Steady, UNCHANGED <<restore, failures>>,
         saved' \subseteq saved,
         NEW m \in MemType, m.promise = 0, NEW l \in LocType,
         Advance(u, m, l, <<>>),
         StoreFits(store', DueOnDisk), MemFits(m, DueIn(u), store'),
         m.submitting => m.launched,
         /\ failures = 0 /\ ~m.unlocked /\ m.launched /\ store'.unenc # Absent
         => DueIn(u) \cap Public \subseteq Members(m.keyrings)
  PROVE  AccountsInv(u)'
<1> DEFINE s == <<>>
<1>1. First(s) = "end" /\ Second(s) = "end" /\ s \in Seq(StageName)
  BY FirstStages
<1>2. ~Pushed(s, l) /\ Chain(s, l.op) /\ s = <<>>
  BY <1>1, ChainEmpty DEF Pushed, Saving, Plain, Shows
<1>3. Advance(u, m, l, s)
  OBVIOUS
<1> HIDE DEF s
<1>4. Mutates(s, m, l, store')
  BY <1>2 DEF Mutates
<1>5. Opens(s, m, l, left'[u], DueIn(u), store')
  BY <1>1 DEF Opens, Opening
<1>6. Saves(s, m, l, DueIn(u), store')
  BY <1>1 DEF Saves, Encrypts, Rewrites, Plain
<1>7. PublicFits(s, m, l, left'[u], DueIn(u), store', failures)
  BY <1>1 DEF PublicFits
<1>8. RestsOf(u, store', s, m, l, left'[u])
  BY <1>2, <1>4, <1>5, <1>6, <1>7 DEF RestsOf, Rests
<1> QED BY <1>1, <1>2, <1>3, <1>8, Landing

-----------------------------------------------------------------------------
(* The list is shown.                                                      *)

\* Alike in everything the invariant speaks of.
Alike(m, n) ==
  /\ m.ready = n.ready /\ m.unlocked = n.unlocked /\ m.keyrings = n.keyrings
  /\ m.pending = n.pending /\ m.promise = n.promise
  /\ m.submitting = n.submitting /\ m.launched = n.launched
  /\ m.restoreId = n.restoreId

LEMMA MemAlike ==
  ASSUME NEW m \in MemType, NEW x
  PROVE  Alike([m EXCEPT !.shown = x], m)
BY DEF Alike, MemType

\* updateMemStoreKeyrings, where its stage relies on what already holds.
LEMMA ShowLands ==
  ASSUME NEW u \in Proc, Standing(u), Steady, UNCHANGED <<restore, failures, saved>>,
         store' = store, left' = left, NEW rest \in Seq(StageName),
         updateMemStoreKeyrings(u, mem, loc[u], rest),
         RestsOf(u, store, <<"show">> \o rest, mem, loc[u], left[u]),
         Pushed(<<"show">> \o rest, loc[u]) => Pushed(todo[u], loc[u])
  PROVE  AccountsInv(u)'
<1> DEFINE s == <<"show">> \o rest
           l == [loc[u] EXCEPT !.list = mem.keyrings]
<1>1. "show" \in StageName
  BY DEF StageName
<1>2. s \in Seq(StageName) /\ First(s) = "show"
  BY <1>1, FirstPrepend
<1>3. l \in LocType /\ l.op = loc[u].op /\ l.kr = loc[u].kr /\ l.ser = loc[u].ser
      /\ l.key = loc[u].key /\ l.pw = loc[u].pw /\ l.rid = loc[u].rid
      /\ l.flag = loc[u].flag
  BY DEF LocType, MemType, Standing
<1>4. Advance(u, mem, l, s)
  BY DEF updateMemStoreKeyrings
<1> HIDE DEF s, l
<1>5. RestsOf(u, store, s, mem, loc[u], left[u])
  BY DEF s
<1>6. Mutates(s, mem, l, store) /\ Saves(s, mem, l, DueIn(u), store)
  BY <1>3, <1>5 DEF RestsOf, Rests, Mutates, Saves
<1>7. Opens(s, mem, l, left[u], DueIn(u), store)
  BY <1>2, <1>3, <1>5 DEF RestsOf, Rests, Opens
<1>8. PublicFits(s, mem, l, left[u], DueIn(u), store, failures)
  BY <1>3, <1>5 DEF RestsOf, Rests, PublicFits
<1>9. RestsOf(u, store', s, mem, l, left'[u])
  BY <1>3, <1>5, <1>6, <1>7, <1>8 DEF RestsOf, Rests
<1>10. Pushed(s, l) => Pushed(todo[u], loc[u])
  BY <1>3 DEF Pushed, s
<1> QED
  BY <1>2, <1>3, <1>4, <1>9, <1>10, Landing DEF Standing, Steady

LEMMA DisplayAccounts ==
  ASSUME NEW u \in Proc, Standing(u), Steady, Display(u)
  PROVE  AccountsInv(u)'
<1> DEFINE rest == Rest(u)
           s == <<"show">> \o rest
           op == loc[u].op
<1>1. At(u, "display")
  BY DEF Display
<1>2. /\ First(todo[u]) = "display" /\ todo[u] # <<>>
      /\ rest \in Seq(StageName) /\ Chain(rest, op) /\ May(op, "display")
      /\ Follows(op, "display", First(rest))
      /\ \A i \in DOMAIN rest : rest[i] \notin Plain
  BY <1>1, StageFacts
<1>3. May(op, "show") /\ Follows(op, "show", First(rest))
  BY <1>2 DEF May, Follows, Shows, Opening
<1> HIDE DEF rest, op
<1>4. s \in Seq(StageName) /\ First(s) = "show" /\ "show" \in StageName /\ s # <<>>
  BY <1>2, FirstPrepend DEF StageName
<1>5. Chain(s, op)
  BY <1>2, <1>3, <1>4, ChainPrepend
<1>6. Pushed(s, loc[u]) => Pushed(todo[u], loc[u])
  BY <1>2, <1>4 DEF Pushed, Shows
<1> HIDE DEF s
<1>7. RestsOf(u, store, todo[u], mem, loc[u], left[u])
  BY DEF Standing
<1>8. RestsOf(u, store, s, mem, loc[u], left[u])
  <2>1. Mutates(s, mem, loc[u], store)
    BY <1>2, <1>4, <1>7 DEF RestsOf, Rests, Mutates
  <2>2. Opens(s, mem, loc[u], left[u], DueIn(u), store)
    BY <1>2, <1>4, <1>7 DEF RestsOf, Rests, Opens, Opening
  <2>3. Saves(s, mem, loc[u], DueIn(u), store)
    BY <1>2, <1>4, <1>7 DEF RestsOf, Rests, Saves, Encrypts, Rewrites, Plain
  <2>4. PublicFits(s, mem, loc[u], left[u], DueIn(u), store, failures)
    BY <1>2, <1>4, <1>7 DEF RestsOf, Rests, PublicFits, Opening
  <2> QED BY <1>5, <1>7, <2>1, <2>2, <2>3, <2>4 DEF RestsOf, Rests, op
<1>9. updateMemStoreKeyrings(u, mem, loc[u], rest)
      /\ UNCHANGED <<restore, failures, saved, store, left>>
  BY DEF Display, rest, Quiet, bounds
<1> QED BY <1>2, <1>6, <1>8, <1>9, ShowLands DEF s

LEMMA ShowAccounts ==
  ASSUME NEW u \in Proc, Standing(u), Steady, Show(u)
  PROVE  AccountsInv(u)'
<1> DEFINE s == Rest(u)
           op == loc[u].op
           m == [mem EXCEPT !.shown = loc[u].list]
<1>1. At(u, "show") /\ Advance(u, m, loc[u], s)
      /\ UNCHANGED <<restore, failures, saved, store, left>>
  BY DEF Show, Quiet, bounds
<1>2. /\ First(todo[u]) = "show" /\ todo[u] # <<>>
      /\ s \in Seq(StageName) /\ Chain(s, op)
      /\ First(s) \in {"display", "ready", "acknowledge", "end"}
      /\ May(op, "show")
  <2>1. \A y : Follows(op, "show", y) =>
          y \in {"display", "ready", "acknowledge", "end"}
    BY DEF Follows, Shows
  <2> QED BY <1>1, <2>1, StageFacts
<1>3. m \in MemType /\ Alike(m, mem)
  <2>1. mem \in MemType /\ loc[u].list \in Bag
    BY DEF Standing, LocType
  <2>2. m \in MemType
    BY <2>1 DEF MemType
  <2> QED BY <2>1, <2>2, MemAlike
<1> HIDE DEF s, op, m
<1>4. RestsOf(u, store, todo[u], mem, loc[u], left[u])
  BY DEF Standing
<1>5. StoreFits(store, DueOnDisk) /\ MemFits(m, DueIn(u), store)
  BY <1>3, <1>4 DEF RestsOf, Rests, MemFits, Alike
<1>6. Mutates(s, m, loc[u], store)
  BY <1>2, <1>3, <1>4 DEF RestsOf, Rests, Mutates, Alike
<1>7. Opens(s, m, loc[u], left[u], DueIn(u), store)
  BY <1>2, <1>3, <1>4 DEF RestsOf, Rests, Opens, Opening, Alike
<1>8. Saves(s, m, loc[u], DueIn(u), store)
  BY <1>2, <1>3, <1>4 DEF RestsOf, Rests, Saves, Encrypts, Rewrites, Plain, Alike
<1>9. PublicFits(s, m, loc[u], left[u], DueIn(u), store, failures)
  BY <1>2, <1>3, <1>4
     DEF RestsOf, Rests, PublicFits, Opening, Alike, Opens
<1>10. RestsOf(u, store', s, m, loc[u], left'[u])
  BY <1>1, <1>2, <1>5, <1>6, <1>7, <1>8, <1>9 DEF RestsOf, Rests, op
<1>11. Pushed(s, loc[u]) => Pushed(todo[u], loc[u])
  BY <1>2 DEF Pushed, Shows
<1> QED
  BY <1>1, <1>2, <1>3, <1>10, <1>11, Landing DEF Standing, Steady, Alike

LEMMA PublicRestoredAccounts ==
  ASSUME NEW u \in Proc, Standing(u), Steady, PublicRestored(u)
  PROVE  AccountsInv(u)'
<1> DEFINE s == Rest(u)
           op == loc[u].op
<1>1. /\ At(u, "public") /\ IsEmpty(left[u])
      /\ UNCHANGED <<restore, failures, saved, store, left>>
  BY DEF PublicRestored, Quiet, bounds
<1>2. /\ First(todo[u]) = "public" /\ todo[u] # <<>>
      /\ s \in Seq(StageName) /\ Chain(s, op) /\ May(op, "public")
      /\ First(s) \in {"display", "ready", "end"}
      /\ \A i \in DOMAIN s : s[i] \notin Plain
  <2>1. \A y : Follows(op, "public", y) => y \in {"display", "ready", "end"}
    BY DEF Follows, Shows
  <2> QED BY <1>1, <2>1, StageFacts
<1>3. op \in {"launch", "submit", "lock"}
  BY <1>2 DEF May, Saving, Plain, Shows
<1> HIDE DEF s
<1>4. RestsOf(u, store, todo[u], mem, loc[u], left[u])
  BY DEF Standing
<1>5. Members(left[u]) = {}
  BY <1>1 DEF IsEmpty
<1>6. ASSUME NEW t \in Seq(StageName), Chain(t, op),
             First(t) \in {"display", "show", "ready", "end"}
      PROVE  RestsOf(u, store, t, mem, loc[u], left[u])
  <2>1. Mutates(t, mem, loc[u], store)
    BY <1>2, <1>3, <1>4 DEF RestsOf, Rests, Mutates
  <2>2. Opens(t, mem, loc[u], left[u], DueIn(u), store)
    BY <1>2, <1>4, <1>5, <1>6 DEF RestsOf, Rests, Opens, Opening
  <2>3. Saves(t, mem, loc[u], DueIn(u), store)
    BY <1>3, <1>6 DEF Saves, Encrypts, Rewrites, Plain
  <2>4. PublicFits(t, mem, loc[u], left[u], DueIn(u), store, failures)
    BY <1>2, <1>3, <1>4, <1>5, <1>6
       DEF RestsOf, Rests, PublicFits, Opening, Opens
  <2> QED BY <1>4, <1>6, <2>1, <2>2, <2>3, <2>4 DEF RestsOf, Rests, op
<1>7. \A t : ~Pushed(t, loc[u])
  BY <1>3 DEF Pushed
<1>8. CASE s # <<>> /\ Head(s) = "display"
           /\ updateMemStoreKeyrings(u, mem, loc[u], Tail(s))
  <2> DEFINE rest == Tail(s)
             t == <<"show">> \o rest
  <2>1. /\ rest \in Seq(StageName) /\ Chain(rest, op)
        /\ May(op, "display") /\ Follows(op, "display", First(rest))
        /\ \A i \in DOMAIN rest : rest[i] \notin Plain
    BY <1>2, <1>8, ChainTail
  <2>2. May(op, "show") /\ Follows(op, "show", First(rest)) /\ "show" \in StageName
    BY <1>3, <2>1 DEF May, Follows, Shows, Opening, StageName
  <2> HIDE DEF rest
  <2>3. t \in Seq(StageName) /\ First(t) = "show" /\ Chain(t, op)
    BY <2>1, <2>2, FirstPrepend, ChainPrepend
  <2>4. RestsOf(u, store, t, mem, loc[u], left[u])
    BY <1>6, <2>3
  <2> QED BY <1>1, <1>7, <1>8, <2>1, <2>4, ShowLands DEF rest
<1>9. CASE Advance(u, mem, loc[u], s)
  <2>1. RestsOf(u, store', s, mem, loc[u], left'[u])
    BY <1>1, <1>2, <1>6
  <2> QED BY <1>1, <1>2, <1>7, <1>9, <2>1, Landing DEF Standing, Steady
<1> QED BY <1>8, <1>9 DEF PublicRestored, s

-----------------------------------------------------------------------------
(* Deserialisations.                                                       *)

LEMMA SensitiveRestoredAccounts ==
  ASSUME NEW u \in Proc, Standing(u), Steady, SensitiveRestored(u)
  PROVE  AccountsInv(u)'
<1> DEFINE s == Rest(u)
           op == loc[u].op
<1>1. /\ At(u, "sensitive") /\ IsEmpty(left[u]) /\ left'[u] = loc[u].list
      /\ Advance(u, mem, loc[u], s)
      /\ UNCHANGED <<restore, failures, saved, store>>
  BY DEF SensitiveRestored, bounds, Standing, TypeOK
<1>2. /\ First(todo[u]) = "sensitive" /\ todo[u] # <<>>
      /\ s \in Seq(StageName) /\ Chain(s, op) /\ May(op, "sensitive")
      /\ First(s) = "public"
  <2>1. \A y : Follows(op, "sensitive", y) => y = "public"
    BY DEF Follows, Shows
  <2> QED BY <1>1, <2>1, StageFacts
<1>3. op = "submit"
  BY <1>2 DEF May, Saving, Plain, Shows
<1> HIDE DEF s
<1>4. RestsOf(u, store, todo[u], mem, loc[u], left[u])
  BY DEF Standing
<1>5. Members(left[u]) = {}
  BY <1>1 DEF IsEmpty
<1>6. Mutates(s, mem, loc[u], store)
  BY <1>2, <1>3, <1>4 DEF RestsOf, Rests, Mutates
<1>7. Opens(s, mem, loc[u], left'[u], DueIn(u), store)
  BY <1>1, <1>2, <1>3, <1>4, <1>5 DEF RestsOf, Rests, Opens, Opening
<1>8. Saves(s, mem, loc[u], DueIn(u), store)
  BY <1>2, <1>3 DEF Saves, Encrypts, Rewrites, Plain
<1>9. PublicFits(s, mem, loc[u], left'[u], DueIn(u), store, failures)
  BY <1>2, <1>3 DEF PublicFits, Opening
<1>10. RestsOf(u, store', s, mem, loc[u], left'[u])
  BY <1>1, <1>2, <1>4, <1>6, <1>7, <1>8, <1>9 DEF RestsOf, Rests, op
<1>11. ~Pushed(s, loc[u])
  BY <1>3 DEF Pushed
<1> QED BY <1>1, <1>2, <1>10, <1>11, Landing DEF Standing, Steady

\* The list in memory grows and nothing that was still to come is lost.
LEMMA MoreInMemory ==
  ASSUME NEW u \in Proc, Standing(u), AccountsInv(u),
         UNCHANGED <<store, todo, loc, restore, failures, saved>>,
         NEW b \in Bag, mem' = [mem EXCEPT !.keyrings = b],
         Members(mem.keyrings) \subseteq Members(b),
         Members(left[u]) \subseteq Members(left'[u]) \cup Members(b)
  PROVE  AccountsInv(u)'
<1> DEFINE s == todo[u]
           l == loc[u]
           D == DueIn(u)
<1>1. /\ mem'.ready = mem.ready /\ mem'.unlocked = mem.unlocked
      /\ mem'.keyrings = b /\ mem'.promise = mem.promise
      /\ mem'.pending = mem.pending /\ mem'.launched = mem.launched
      /\ mem'.restoreId = mem.restoreId /\ mem'.submitting = mem.submitting
  BY DEF Standing, MemType
<1> HIDE DEF s, l, D
<1>2. Rests(store, DueOnDisk, D, failures, s, mem, l, left[u])
  BY DEF Standing, RestsOf, s, l, D
<1>3. RestoresFit(restore, s, mem, l, D)
  BY DEF AccountsInv, Fits, s, l, D, DueIn
<1>4. MemFits(mem', D, store)
  BY <1>1, <1>2 DEF Rests, MemFits
<1>5. Mutates(s, mem', l, store)
  BY <1>1, <1>2 DEF Rests, Mutates
<1>6. Opens(s, mem', l, left'[u], D, store)
  BY <1>1, <1>2 DEF Rests, Opens
<1>7. Saves(s, mem', l, D, store)
  BY <1>1, <1>2 DEF Rests, Saves
<1>8. PublicFits(s, mem', l, left'[u], D, store, failures)
  BY <1>1, <1>2 DEF Rests, PublicFits
<1>9. RestoresFit(restore, s, mem', l, D)
  BY <1>1, <1>3 DEF RestoresFit, RestoreFits
<1>10. Fits(store, DueOnDisk, D, failures, restore, s, mem', l, left'[u])
  BY <1>2, <1>4, <1>5, <1>6, <1>7, <1>8, <1>9 DEF Fits, Rests
<1> QED BY <1>10 DEF AccountsInv, DueOnDisk, DueIn, s, l, D

LEMMA RestoreKeyringAccounts ==
  ASSUME NEW u \in Proc, Standing(u), AccountsInv(u), RestoreKeyring(u)
  PROVE  AccountsInv(u)'
<1>1. PICK k \in Keyring :
        /\ left' = [left EXCEPT ![u] = Drop(@, k)]
        /\ mem' = [mem EXCEPT !.keyrings = Push(@, k)]
        /\ UNCHANGED <<store, todo, loc, restore, failures, saved>>
  BY DEF RestoreKeyring, bounds
<1>2. mem.keyrings \in Bag /\ left[u] \in Bag /\ left \in [Proc -> Bag]
  BY DEF Standing, MemType, TypeOK
<1>3. /\ Members(mem.keyrings) \subseteq Members(Push(mem.keyrings, k))
      /\ k \in Members(Push(mem.keyrings, k))
      /\ Members(left[u]) \subseteq Members(Drop(left[u], k)) \cup {k}
  BY <1>2, MembersOf
<1>4. Push(mem.keyrings, k) \in Bag /\ left'[u] = Drop(left[u], k)
  BY <1>1, <1>2, BagOps
<1>5. mem' = [mem EXCEPT !.keyrings = Push(mem.keyrings, k)]
  BY <1>1
<1> QED BY <1>1, <1>3, <1>4, <1>5, MoreInMemory

LEMMA OrphanRestoredAccounts ==
  ASSUME NEW u \in Proc, Standing(u), AccountsInv(u), OrphanRestored
  PROVE  AccountsInv(u)'
<1>1. PICK k \in Keyring :
        /\ mem' = [mem EXCEPT !.keyrings = Push(@, k)]
        /\ UNCHANGED <<store, todo, loc, left, restore, failures, saved>>
  BY DEF OrphanRestored, bounds
<1>2. mem.keyrings \in Bag
  BY DEF Standing, MemType
<1>3. /\ Members(mem.keyrings) \subseteq Members(Push(mem.keyrings, k))
      /\ Push(mem.keyrings, k) \in Bag
  BY <1>2, MembersOf, BagOps
<1>4. mem' = [mem EXCEPT !.keyrings = Push(mem.keyrings, k)]
  BY <1>1
<1> QED BY <1>1, <1>3, <1>4, MoreInMemory

LEMMA RestoreKeyringThrowsAccounts ==
  ASSUME NEW u \in Proc, Standing(u), Steady, RestoreKeyringThrows(u)
  PROVE  AccountsInv(u)'
<1> DEFINE s == <<>>
           V == due(saved', failures')
           E == Due(saved', failures', s, loc[u])
<1>1. /\ failures' = failures + 1 /\ Advance(u, mem, loc[u], s)
      /\ UNCHANGED <<store, restore, saved>>
      /\ At(u, "sensitive") \/ At(u, "public")
  BY DEF RestoreKeyringThrows, Throw
<1>2. First(s) = "end" /\ Second(s) = "end" /\ s \in Seq(StageName) /\ s = <<>>
  BY FirstStages
<1>3. ~Pushed(s, loc[u]) /\ Chain(s, loc[u].op)
  BY <1>2, ChainEmpty DEF Pushed, Saving, Plain, Shows
<1>4. failures \in Nat /\ failures' # 0 /\ failures <= failures'
      /\ failures' \in Nat
  BY <1>1 DEF Standing
<1>5. V \subseteq DueOnDisk /\ E \subseteq DueIn(u)
  BY <1>1, <1>3, <1>4, DueShrinks DEF DueOnDisk, DueIn
<1> HIDE DEF s, V, E
<1>6. RestsOf(u, store, todo[u], mem, loc[u], left[u])
  BY DEF Standing
<1>7. StoreFits(store, V) /\ MemFits(mem, E, store)
  BY <1>5, <1>6 DEF RestsOf, Rests, StoreFits, MemFits
<1>8. Mutates(s, mem, loc[u], store) /\ Saves(s, mem, loc[u], E, store)
  BY <1>2 DEF Mutates, Saves, Encrypts, Rewrites, Plain
<1>9. Opens(s, mem, loc[u], left'[u], E, store)
  BY <1>2, <1>6 DEF RestsOf, Rests, Opens, Opening
<1>10. PublicFits(s, mem, loc[u], left'[u], E, store, failures')
  BY <1>4 DEF PublicFits
<1>11. RestoresFit(restore', s, mem, loc[u], E)
  BY <1>1, <1>2, NoRestore DEF Steady
<1>12. Lands(u, mem, loc[u], s)
  BY <1>1, <1>3, <1>7, <1>8, <1>9, <1>10, <1>11 DEF Lands, Fits, Rests, V, E
<1> QED BY <1>1, <1>2, <1>12, AdvanceLands DEF Standing

-----------------------------------------------------------------------------
(* What is written, and when.                                              *)

LEMMA SnapshotAccounts ==
  ASSUME NEW u \in Proc, Standing(u), Steady, Snapshot(u)
  PROVE  AccountsInv(u)'
<1> DEFINE s == Rest(u)
           op == loc[u].op
           l == [loc[u] EXCEPT !.snp = Members(mem.keyrings)]
<1>1. /\ At(u, "snapshot") /\ Advance(u, mem, l, s)
      /\ UNCHANGED <<restore, failures, saved, store, left>>
  BY DEF Snapshot, Quiet, bounds
<1>2. /\ First(todo[u]) = "snapshot" /\ todo[u] # <<>> /\ Second(todo[u]) = First(s)
      /\ s \in Seq(StageName) /\ Chain(s, op) /\ May(op, "snapshot")
      /\ First(s) \in {"encrypt", "writeSnapshot"}
  <2>1. \A y : Follows(op, "snapshot", y) => y \in {"encrypt", "writeSnapshot"}
    BY DEF Follows, Shows
  <2> QED BY <1>1, <2>1, StageFacts
<1>3. /\ l \in LocType /\ l.op = op /\ l.kr = loc[u].kr /\ l.ser = loc[u].ser
  <2>1. mem \in MemType /\ loc[u] \in LocType /\ Members(mem.keyrings) \in SUBSET Keyring
    BY DEF Standing, Members
  <2> QED BY <2>1 DEF LocType
<1> HIDE DEF s, l
<1>4. RestsOf(u, store, todo[u], mem, loc[u], left[u])
  BY DEF Standing
<1>5. Mutates(s, mem, l, store)
  BY <1>2, <1>3, <1>4 DEF RestsOf, Rests, Mutates
<1>6. Opens(s, mem, l, left[u], DueIn(u), store)
  BY <1>2, <1>3, <1>4 DEF RestsOf, Rests, Opens, Opening
<1>7. Saves(s, mem, l, DueIn(u), store)
  BY <1>2, <1>3, <1>4 DEF RestsOf, Rests, Saves, Encrypts, Rewrites, Plain
<1>8. PublicFits(s, mem, l, left[u], DueIn(u), store, failures)
  BY <1>2, <1>3, <1>4 DEF RestsOf, Rests, PublicFits, Opening
<1>9. RestsOf(u, store', s, mem, l, left'[u])
  BY <1>1, <1>2, <1>3, <1>4, <1>5, <1>6, <1>7, <1>8 DEF RestsOf, Rests
<1>10. Pushed(s, l) => Pushed(todo[u], loc[u])
  BY <1>2, <1>3 DEF Pushed, Saving
<1> QED BY <1>1, <1>2, <1>3, <1>9, <1>10, Landing DEF Standing, Steady

\* A throw leaves behind what there is.
LEMMA ThrowAccounts ==
  ASSUME NEW u \in Proc, Standing(u), Steady,
         UNCHANGED <<store, restore, failures, saved>>, Throw(u, mem),
         mem.unlocked \/ ~(loc[u].op = "submit" /\ First(todo[u]) \in Opening),
         First(todo[u]) \notin {"boot", "launch", "public"},
         ~(First(todo[u]) = "verify" /\ loc[u].key = loc[u].pw)
  PROVE  AccountsInv(u)'
<1>1. RestsOf(u, store, todo[u], mem, loc[u], left[u])
  BY DEF Standing
<1>2. Advance(u, mem, loc[u], <<>>)
  BY DEF Throw
<1>3. StoreFits(store', DueOnDisk) /\ MemFits(mem, DueIn(u), store')
      /\ (mem.submitting => mem.launched)
  BY <1>1 DEF RestsOf, Rests, Opens
<1>4. /\ failures = 0 /\ ~mem.unlocked /\ mem.launched /\ store'.unenc # Absent
      => DueIn(u) \cap Public \subseteq Members(mem.keyrings)
  BY <1>1 DEF RestsOf, Rests, PublicFits
<1> QED BY <1>2, <1>3, <1>4, Ending DEF Standing, Steady

LEMMA SerializeAccounts ==
  ASSUME NEW u \in Proc, Standing(u), Steady, Serialize(u)
  PROVE  AccountsInv(u)'
<1> DEFINE s == Rest(u)
           op == loc[u].op
           l == [loc[u] EXCEPT !.ser = mem.keyrings]
<1>1. /\ At(u, "serialize") /\ (Advance(u, mem, l, s) \/ Throw(u, mem))
      /\ UNCHANGED <<restore, failures, saved, store, left>>
  BY DEF Serialize, serializeForPersist, Quiet, bounds
<1>2. /\ First(todo[u]) = "serialize" /\ todo[u] # <<>>
      /\ s \in Seq(StageName) /\ Chain(s, op) /\ May(op, "serialize")
      /\ First(s) = "snapshot"
      /\ \A i \in DOMAIN s : s[i] \notin Plain
  <2>1. \A y : Follows(op, "serialize", y) => y = "snapshot"
    BY DEF Follows, Shows
  <2> QED BY <1>1, <2>1, StageFacts
<1>3. Second(s) = "encrypt"
  <2>1. s # <<>> /\ Head(s) = "snapshot" /\ Second(s) = First(Tail(s))
        /\ Tail(s) \in Seq(StageName)
    BY <1>2, ChainTail DEF First
  <2>2. First(Tail(s)) \in {"encrypt", "writeSnapshot"}
    <3>1. \A y : Follows(op, "snapshot", y) => y \in {"encrypt", "writeSnapshot"}
      BY DEF Follows, Shows
    <3> QED BY <1>2, <2>1, <3>1, ChainTail
  <2>3. First(Tail(s)) # "end" =>
          /\ First(Tail(s)) = Head(Tail(s)) /\ Tail(s) # <<>>
    BY DEF First
  <2>4. Tail(s) # <<>> => Head(Tail(s)) \in StagesOf(s)
    BY <1>2, <2>1, StagesOfTail
  <2>5. First(Tail(s)) # "writeSnapshot"
    BY <1>2, <2>3, <2>4 DEF StagesOf, Plain
  <2> QED BY <2>1, <2>2, <2>5
<1>4. /\ l \in LocType /\ l.op = op /\ l.kr = loc[u].kr /\ l.ser = mem.keyrings
  BY DEF Standing, LocType, MemType
<1> HIDE DEF s, l
<1>5. RestsOf(u, store, todo[u], mem, loc[u], left[u])
  BY DEF Standing
<1>6. mem.ready /\ mem.unlocked /\ DueIn(u) \subseteq Members(mem.keyrings)
  BY <1>2, <1>5 DEF RestsOf, Rests, Saves, MemFits
<1>7. CASE Advance(u, mem, l, s)
  <2>1. Mutates(s, mem, l, store)
    BY <1>2, <1>4, <1>5 DEF RestsOf, Rests, Mutates
  <2>2. Opens(s, mem, l, left[u], DueIn(u), store)
    BY <1>2, <1>4, <1>5 DEF RestsOf, Rests, Opens, Opening
  <2>3. Saves(s, mem, l, DueIn(u), store)
    BY <1>2, <1>3, <1>4, <1>6 DEF Saves, Encrypts, Rewrites, Plain
  <2>4. PublicFits(s, mem, l, left[u], DueIn(u), store, failures)
    BY <1>6 DEF PublicFits
  <2>5. RestsOf(u, store', s, mem, l, left'[u])
    BY <1>1, <1>2, <1>4, <1>5, <2>1, <2>2, <2>3, <2>4 DEF RestsOf, Rests
  <2>6. Pushed(s, l) => Pushed(todo[u], loc[u])
    BY <1>2, <1>4 DEF Pushed, Saving
  <2> QED BY <1>1, <1>2, <1>4, <1>7, <2>5, <2>6, Landing DEF Standing, Steady
<1>8. CASE Throw(u, mem)
  BY <1>1, <1>2, <1>6, <1>8, ThrowAccounts
<1> QED BY <1>1, <1>7, <1>8

LEMMA EncryptAccounts ==
  ASSUME NEW u \in Proc, Standing(u), Steady, Encrypt(u)
  PROVE  AccountsInv(u)'
<1> DEFINE r == Rest(u)
           s == <<"write">> \o r
           op == loc[u].op
           l == [loc[u] EXCEPT !.key = mem.password]
<1>1. /\ At(u, "encrypt") /\ (Advance(u, mem, l, s) \/ Throw(u, mem))
      /\ UNCHANGED <<restore, failures, saved, store, left>>
  BY DEF Encrypt, Quiet, bounds
<1>2. /\ First(todo[u]) = "encrypt" /\ todo[u] # <<>>
      /\ r \in Seq(StageName) /\ Chain(r, op) /\ May(op, "encrypt")
      /\ Follows(op, "encrypt", First(r))
      /\ \A i \in DOMAIN r : r[i] \notin Plain
  BY <1>1, StageFacts
<1>3. May(op, "write") /\ Follows(op, "write", First(r))
  BY <1>2 DEF May, Follows, Saving, Shows, Plain, Opening
<1>4. /\ l \in LocType /\ l.op = op /\ l.kr = loc[u].kr /\ l.ser = loc[u].ser
  BY DEF Standing, LocType, MemType
<1> HIDE DEF r, l, op
<1>5. s \in Seq(StageName) /\ First(s) = "write" /\ Chain(s, op) /\ s # <<>>
  <2>1. "write" \in StageName
    BY DEF StageName
  <2> QED BY <1>2, <1>3, <2>1, FirstPrepend, ChainPrepend
<1> HIDE DEF s
<1>6. RestsOf(u, store, todo[u], mem, loc[u], left[u])
  BY DEF Standing
<1>7. mem.ready /\ mem.unlocked /\ DueIn(u) \subseteq Members(loc[u].ser)
  BY <1>2, <1>6 DEF RestsOf, Rests, Saves, MemFits, Encrypts
<1>8. CASE Advance(u, mem, l, s)
  <2>1. Mutates(s, mem, l, store)
    BY <1>2, <1>4, <1>5, <1>6 DEF RestsOf, Rests, Mutates, op
  <2>2. Opens(s, mem, l, left[u], DueIn(u), store)
    BY <1>2, <1>4, <1>5, <1>6 DEF RestsOf, Rests, Opens, Opening
  <2>3. Saves(s, mem, l, DueIn(u), store)
    BY <1>4, <1>5, <1>7 DEF Saves, Encrypts, Rewrites, Plain
  <2>4. PublicFits(s, mem, l, left[u], DueIn(u), store, failures)
    BY <1>7 DEF PublicFits
  <2>5. RestsOf(u, store', s, mem, l, left'[u])
    BY <1>1, <1>4, <1>5, <1>6, <2>1, <2>2, <2>3, <2>4 DEF RestsOf, Rests
  <2>6. Pushed(s, l) => Pushed(todo[u], loc[u])
    BY <1>2, <1>4, <1>5 DEF Pushed, Saving, op
  <2> QED BY <1>1, <1>4, <1>5, <1>8, <2>5, <2>6, Landing DEF Standing, Steady
<1>9. CASE Throw(u, mem)
  BY <1>1, <1>2, <1>7, <1>9, ThrowAccounts
<1> QED BY <1>1, <1>8, <1>9

LEMMA WriteAccounts ==
  ASSUME NEW u \in Proc, Standing(u), Steady, Write(u)
  PROVE  AccountsInv(u)'
<1> DEFINE s == Rest(u)
           op == loc[u].op
           l == loc[u]
           d == Written(store, l.key, l)
<1>1. /\ At(u, "write") /\ Advance(u, mem, l, s) /\ store' = d
      /\ UNCHANGED <<restore, failures, saved, left>>
  BY DEF Write, bounds
<1>2. /\ First(todo[u]) = "write" /\ todo[u] # <<>>
      /\ s \in Seq(StageName) /\ Chain(s, op) /\ May(op, "write")
      /\ First(s) \in {"display", "end"}
  <2>1. \A y : Follows(op, "write", y) => y \in {"display", "end"}
    BY DEF Follows, Shows
  <2> QED BY <1>1, <2>1, StageFacts
<1>3. l \in LocType /\ l.ser \in Bag /\ l.key \in OptPassword
  BY DEF Standing, LocType
<1>4. /\ d.vault \in [pw : OptPassword, krs : Bag] /\ d.vault.krs = l.ser
      /\ d.unenc = Keep(l.ser, Public) /\ d.unenc \in Bag
  <2>1. store \in StoreType /\ Keep(l.ser, Public) \in Bag
    BY <1>3, BagOps DEF Standing
  <2>2. [pw |-> l.key, krs |-> l.ser] \in [pw : OptPassword, krs : Bag]
    BY <1>3
  <2>3. d.vault = [pw |-> l.key, krs |-> l.ser] /\ d.unenc = Keep(l.ser, Public)
    BY <2>1 DEF Written, StoreType
  <2> QED BY <2>1, <2>2, <2>3
<1>5. d.vault # NoVault /\ d.unenc # Absent
  BY <1>4, AbsenceAssumption DEF AbsenceAssumption
<1>6. Members(l.ser) \subseteq Recoverable(d)
  <2>1. Members(d.unenc) = Members(l.ser) \cap Public
        /\ Members(l.ser) \subseteq Sensitive \cup Public
    BY <1>3, <1>4, MembersOf DEF Keyring
  <2> QED BY <1>4, <1>5, <2>1 DEF Recoverable
<1> HIDE DEF s, l, d
<1>7. RestsOf(u, store, todo[u], mem, l, left[u])
  BY DEF Standing, l
<1>8. mem.ready /\ mem.unlocked /\ DueIn(u) \subseteq Members(l.ser)
      /\ DueIn(u) \subseteq Members(mem.keyrings)
  BY <1>2, <1>7 DEF RestsOf, Rests, Saves, MemFits, Encrypts
<1>9. DueIn(u) \subseteq Recoverable(d)
  BY <1>6, <1>8
<1>10. StoreFits(d, DueOnDisk)
  BY <1>5, <1>9 DEF StoreFits, Standing
<1>11. MemFits(mem, DueIn(u), d)
  BY <1>7, <1>8 DEF RestsOf, Rests, MemFits
<1>12. Mutates(s, mem, l, d)
  BY <1>2, <1>7, <1>8 DEF RestsOf, Rests, Mutates
<1>13. Opens(s, mem, l, left[u], DueIn(u), d)
  <2>1. op = "submit" => First(s) = "end"
    <3>1. \A y : Follows("submit", "write", y) => y = "end"
      BY DEF Follows, Shows
    <3> QED BY <1>1, <3>1, StageFacts DEF s
  <2> QED BY <1>2, <1>7, <2>1 DEF RestsOf, Rests, Opens, Opening, l
<1>14. Saves(s, mem, l, DueIn(u), d)
  BY <1>2, <1>9 DEF Saves, Encrypts, Rewrites, Plain
<1>15. PublicFits(s, mem, l, left[u], DueIn(u), d, failures)
  BY <1>8 DEF PublicFits
<1>16. RestsOf(u, store', s, mem, l, left'[u])
  BY <1>1, <1>2, <1>10, <1>11, <1>12, <1>13, <1>14, <1>15 DEF RestsOf, Rests, l
<1>17. Pushed(s, l) => Pushed(todo[u], loc[u])
  BY <1>2 DEF Pushed, Saving, l
<1> QED BY <1>1, <1>2, <1>3, <1>16, <1>17, Landing DEF Standing, Steady, l

LEMMA WriteSnapshotAccounts ==
  ASSUME NEW u \in Proc, Standing(u), Steady, WriteSnapshot(u)
  PROVE  AccountsInv(u)'
<1> DEFINE s == Rest(u)
           op == loc[u].op
           d == [store EXCEPT !.snap = (@ \ {loc[u].kr}) \cup loc[u].snp]
<1>1. /\ At(u, "writeSnapshot") /\ Advance(u, mem, loc[u], s) /\ store' = d
      /\ UNCHANGED <<restore, failures, saved, left>>
  BY DEF WriteSnapshot, bounds
<1>2. /\ First(todo[u]) = "writeSnapshot" /\ todo[u] # <<>>
      /\ s \in Seq(StageName) /\ Chain(s, op) /\ May(op, "writeSnapshot")
      /\ First(s) = "writeUnencrypted"
  <2>1. \A y : Follows(op, "writeSnapshot", y) => y = "writeUnencrypted"
    BY DEF Follows, Shows
  <2> QED BY <1>1, <2>1, StageFacts
<1>3. op \in {"add", "remove"}
  BY <1>2 DEF May, Saving, Plain, Shows, Opening
<1>4. d.vault = store.vault /\ d.unenc = store.unenc
  BY DEF Standing, StoreType
<1> HIDE DEF s, d
<1>5. RestsOf(u, store, todo[u], mem, loc[u], left[u])
  BY DEF Standing
<1>6. ~mem.unlocked /\ store.unenc # Absent
      /\ DueIn(u) \cap Public \subseteq Members(loc[u].ser)
  BY <1>2, <1>3, <1>5 DEF RestsOf, Rests, Saves, Mutates, Rewrites, Plain
<1>7. Recoverable(d) = Recoverable(store)
  BY <1>4 DEF Recoverable
<1>8. StoreFits(d, DueOnDisk) /\ MemFits(mem, DueIn(u), d)
  BY <1>4, <1>5, <1>6, <1>7 DEF RestsOf, Rests, StoreFits, MemFits
<1>9. Mutates(s, mem, loc[u], d)
  BY <1>2, <1>4, <1>5 DEF RestsOf, Rests, Mutates
<1>10. Opens(s, mem, loc[u], left[u], DueIn(u), d)
  BY <1>2, <1>3, <1>5 DEF RestsOf, Rests, Opens
<1>11. Saves(s, mem, loc[u], DueIn(u), d)
  BY <1>2, <1>6 DEF Saves, Encrypts, Rewrites, Plain
<1>12. PublicFits(s, mem, loc[u], left[u], DueIn(u), d, failures)
  BY <1>2, <1>3, <1>4, <1>5 DEF RestsOf, Rests, PublicFits
<1>13. RestsOf(u, store', s, mem, loc[u], left'[u])
  BY <1>1, <1>2, <1>8, <1>9, <1>10, <1>11, <1>12 DEF RestsOf, Rests
<1>14. Pushed(s, loc[u]) => Pushed(todo[u], loc[u])
  BY <1>2 DEF Pushed, Plain
<1> QED BY <1>1, <1>2, <1>13, <1>14, Landing DEF Standing, Steady

LEMMA WriteUnencryptedAccounts ==
  ASSUME NEW u \in Proc, Standing(u), Steady, WriteUnencrypted(u)
  PROVE  AccountsInv(u)'
<1> DEFINE s == Rest(u)
           op == loc[u].op
           l == loc[u]
           d == [store EXCEPT !.unenc = Keep(loc[u].ser, Public)]
<1>1. /\ At(u, "writeUnencrypted") /\ Advance(u, mem, loc[u], s) /\ store' = d
      /\ UNCHANGED <<restore, failures, saved, left>>
  BY DEF WriteUnencrypted, bounds
<1>2. /\ First(todo[u]) = "writeUnencrypted" /\ todo[u] # <<>>
      /\ s \in Seq(StageName) /\ Chain(s, op) /\ May(op, "writeUnencrypted")
      /\ First(s) = "display"
  <2>1. \A y : Follows(op, "writeUnencrypted", y) => y = "display"
    BY DEF Follows, Shows
  <2> QED BY <1>1, <2>1, StageFacts
<1>3. op \in {"add", "remove"}
  BY <1>2 DEF May, Saving, Plain, Shows, Opening
<1>4. d.vault = store.vault /\ d.unenc = Keep(loc[u].ser, Public)
      /\ d.unenc \in Bag /\ loc[u].ser \in Bag
  <2>1. loc[u].ser \in Bag /\ store \in StoreType
    BY DEF Standing, LocType
  <2>2. Keep(loc[u].ser, Public) \in Bag
    BY <2>1, BagOps
  <2> QED BY <2>1, <2>2 DEF StoreType
<1> HIDE DEF s, d
<1>5. RestsOf(u, store, todo[u], mem, loc[u], left[u])
  BY DEF Standing
<1>6. ~mem.unlocked /\ store.unenc # Absent
      /\ DueIn(u) \cap Public \subseteq Members(loc[u].ser)
      /\ loc[u].kr \notin Sensitive
  BY <1>2, <1>3, <1>5 DEF RestsOf, Rests, Saves, Mutates, Rewrites, Plain
<1>7. d.unenc # Absent
  BY <1>4, AbsenceAssumption DEF AbsenceAssumption
<1>8. store.vault # NoVault /\ DueOnDisk \subseteq Recoverable(store)
  BY <1>5, <1>6 DEF RestsOf, Rests, StoreFits
<1>9. Sensitive \cap Public = {} /\ Keyring = Sensitive \cup Public
  BY KeyringServiceAssumption DEF KeyringServiceAssumption, Keyring
<1>10. DueIn(u) \cap Sensitive \subseteq DueOnDisk
  BY <1>6 DEF DueIn, DueOnDisk, Due, due
<1>11. DueIn(u) \subseteq Recoverable(d)
  <2>1. Members(d.unenc) = Members(loc[u].ser) \cap Public
    BY <1>4, MembersOf
  <2>2. DueIn(u) \cap Sensitive \subseteq Members(store.vault.krs)
    BY <1>6, <1>8, <1>9, <1>10 DEF Recoverable
  <2> QED BY <1>4, <1>6, <1>7, <1>8, <1>9, <2>1, <2>2 DEF Recoverable, Standing
<1>12. StoreFits(d, DueOnDisk) /\ MemFits(mem, DueIn(u), d)
  BY <1>4, <1>5, <1>7, <1>8, <1>11 DEF RestsOf, Rests, StoreFits, MemFits, Standing
<1>13. Mutates(s, mem, loc[u], d)
  BY <1>2, <1>5, <1>7 DEF RestsOf, Rests, Mutates
<1>14. Opens(s, mem, loc[u], left[u], DueIn(u), d)
  BY <1>2, <1>3, <1>5 DEF RestsOf, Rests, Opens
<1>15. Saves(s, mem, loc[u], DueIn(u), d)
  BY <1>2, <1>11 DEF Saves, Encrypts, Rewrites, Plain
<1>16. PublicFits(s, mem, loc[u], left[u], DueIn(u), d, failures)
  BY <1>2, <1>3, <1>5, <1>6 DEF RestsOf, Rests, PublicFits
<1>17. RestsOf(u, store', s, mem, loc[u], left'[u])
  BY <1>1, <1>2, <1>12, <1>13, <1>14, <1>15, <1>16 DEF RestsOf, Rests
<1>18. Pushed(s, loc[u]) => Pushed(todo[u], loc[u])
  BY <1>2 DEF Pushed, Plain
<1> QED BY <1>1, <1>2, <1>17, <1>18, Landing DEF Standing, Steady

-----------------------------------------------------------------------------
(* Checks before a mutation, and the answer after it.                      *)

\* The chain passes a check: nothing but its place changes.
LEMMA CheckPassed ==
  ASSUME NEW u \in Proc, Standing(u), Steady,
         UNCHANGED <<store, left, restore, failures, saved>>,
         NEW st \in {"assert", "duplicate", "compare"}, At(u, st),
         Advance(u, mem, loc[u], Rest(u))
  PROVE  AccountsInv(u)'
<1> DEFINE s == Rest(u)
           op == loc[u].op
<1>1. /\ First(todo[u]) = st /\ todo[u] # <<>>
      /\ s \in Seq(StageName) /\ Chain(s, op) /\ May(op, st)
      /\ First(s) \in {"duplicate", "push"}
  <2>1. \A y : Follows(op, st, y) => y \in {"duplicate", "push"}
    BY DEF Follows, Shows
  <2> QED BY <2>1, StageFacts
<1>2. op = "add"
  BY <1>1 DEF May, Saving, Plain, Shows, Opening
<1> HIDE DEF s
<1>3. RestsOf(u, store, todo[u], mem, loc[u], left[u])
  BY DEF Standing
<1>4. Mutates(s, mem, loc[u], store)
  BY <1>1, <1>3 DEF RestsOf, Rests, Mutates
<1>5. Opens(s, mem, loc[u], left[u], DueIn(u), store)
  BY <1>1, <1>2, <1>3 DEF RestsOf, Rests, Opens
<1>6. Saves(s, mem, loc[u], DueIn(u), store)
  BY <1>1 DEF Saves, Encrypts, Rewrites, Plain
<1>7. PublicFits(s, mem, loc[u], left[u], DueIn(u), store, failures)
  BY <1>1, <1>2, <1>3 DEF RestsOf, Rests, PublicFits
<1>8. RestsOf(u, store', s, mem, loc[u], left'[u])
  BY <1>1, <1>3, <1>4, <1>5, <1>6, <1>7 DEF RestsOf, Rests
<1>9. ~Pushed(s, loc[u])
  BY <1>1 DEF Pushed, Saving, Plain, Shows
<1> QED BY <1>1, <1>8, <1>9, Landing DEF Standing, Steady, s

LEMMA CheckAccounts ==
  ASSUME NEW u \in Proc, Standing(u), Steady, AssertCanPersist(u) \/ Compare(u)
  PROVE  AccountsInv(u)'
<1>1. PICK st \in {"assert", "duplicate", "compare"} :
        /\ At(u, st) /\ (Advance(u, mem, loc[u], Rest(u)) \/ Throw(u, mem))
        /\ UNCHANGED <<store, left, restore, failures, saved>>
  BY DEF AssertCanPersist, Compare, compareAccounts, Throw, Quiet, bounds
<1>2. First(todo[u]) = st /\ May(loc[u].op, st)
  BY <1>1, StageFacts
<1>3. loc[u].op # "submit" /\ st \notin {"boot", "launch", "public", "verify"}
  BY <1>2 DEF May, Saving, Plain, Shows, Opening
<1> QED BY <1>1, <1>2, <1>3, CheckPassed, ThrowAccounts

LEMMA AcknowledgeAccounts ==
  ASSUME NEW u \in Proc, Standing(u), Steady, Acknowledge(u)
  PROVE  AccountsInv(u)'
<1> DEFINE s == Rest(u)
           op == loc[u].op
           V == due(saved', failures')
           E == Due(saved', failures', s, loc[u])
<1>1. /\ At(u, "acknowledge") /\ Advance(u, mem, loc[u], s)
      /\ UNCHANGED <<restore, failures, store, left>>
      /\ saved' = saved \cup {k \in Keyring : k = loc[u].kr}
  BY DEF Acknowledge, Quiet, bounds
<1>2. /\ First(todo[u]) = "acknowledge" /\ todo[u] # <<>>
      /\ s \in Seq(StageName) /\ Chain(s, op) /\ May(op, "acknowledge")
      /\ First(s) = "end"
  <2>1. \A y : Follows(op, "acknowledge", y) => y = "end"
    BY DEF Follows, Shows
  <2> QED BY <1>1, <2>1, StageFacts
<1>3. op = "add"
  BY <1>2 DEF May, Saving, Plain, Shows, Opening
<1> HIDE DEF s
<1>4. ~Pushed(s, loc[u]) /\ Pushed(todo[u], loc[u])
  BY <1>2, <1>3 DEF Pushed, Saving, Plain, Shows
<1>5. E = V /\ V = DueIn(u)
  BY <1>1, <1>4, DueFacts DEF DueIn, Due
<1> HIDE DEF V, E
<1>6. RestsOf(u, store, todo[u], mem, loc[u], left[u])
  BY DEF Standing
<1>7. StoreFits(store, V)
  BY <1>2, <1>3, <1>5, <1>6 DEF RestsOf, Rests, StoreFits, Saves
<1>8. MemFits(mem, E, store)
  BY <1>5, <1>6 DEF RestsOf, Rests
<1>9. Mutates(s, mem, loc[u], store)
  BY <1>2, <1>6 DEF RestsOf, Rests, Mutates
<1>10. Opens(s, mem, loc[u], left[u], E, store)
  BY <1>2, <1>3, <1>6 DEF RestsOf, Rests, Opens
<1>11. Saves(s, mem, loc[u], E, store)
  BY <1>2 DEF Saves, Encrypts, Rewrites, Plain, Second
<1>12. PublicFits(s, mem, loc[u], left[u], E, store, failures)
  BY <1>2, <1>3, <1>5, <1>6 DEF RestsOf, Rests, PublicFits
<1>13. RestoresFit(restore', s, mem, loc[u], E)
  BY <1>1, <1>2, NoRestore DEF Steady
<1>14. Lands(u, mem, loc[u], s)
  BY <1>1, <1>2, <1>7, <1>8, <1>9, <1>10, <1>11, <1>12, <1>13
     DEF Lands, Fits, Rests, V, E
<1> QED BY <1>1, <1>2, <1>14, AdvanceLands DEF Standing

LEMMA BootAccounts ==
  ASSUME NEW u \in Proc, VaultInv(u), Standing(u), Steady, BootWritten(u)
  PROVE  AccountsInv(u)'
<1> DEFINE s == Rest(u)
           op == loc[u].op
           d == [store EXCEPT !.booted = loc[u].pw]
           m == [mem EXCEPT !.unlocked = TRUE, !.ready = TRUE,
                            !.restoring = FALSE, !.failed = FALSE]
<1>1. /\ At(u, "boot") /\ Advance(u, m, loc[u], s) /\ store' = d
      /\ UNCHANGED <<restore, failures, saved, left>>
  BY DEF BootWritten, bounds
<1>2. /\ First(todo[u]) = "boot" /\ todo[u] # <<>>
      /\ s \in Seq(StageName) /\ Chain(s, op) /\ May(op, "boot")
      /\ First(s) = "launch"
  <2>1. \A y : Follows(op, "boot", y) => y = "launch"
    BY DEF Follows, Shows
  <2> QED BY <1>1, <2>1, StageFacts
<1>3. op = "launch"
  BY <1>2 DEF May, Saving, Plain, Shows, Opening
<1>4. store.booted = NoPassword /\ store.vault = NoVault
  BY <1>1 DEF VaultInv, Captured
<1>5. d.vault = store.vault /\ d.unenc = store.unenc /\ d.snap = store.snap
  BY DEF Standing, StoreType
<1>6. /\ m \in MemType /\ m.ready /\ m.unlocked
      /\ m.promise = mem.promise /\ m.launched = mem.launched
      /\ m.submitting = mem.submitting /\ m.keyrings = mem.keyrings
  BY DEF Standing, MemType
<1> HIDE DEF s, d, m
<1>7. RestsOf(u, store, todo[u], mem, loc[u], left[u])
  BY DEF Standing
<1>8. Recoverable(d) = Recoverable(store) /\ Recoverable(store) = {}
  <2>1. store.unenc = Absent
    BY <1>4, <1>7 DEF RestsOf, Rests, StoreFits
  <2> QED BY <1>4, <1>5, <2>1 DEF Recoverable
<1>9. DueOnDisk = {}
  BY <1>7, <1>8 DEF RestsOf, Rests, StoreFits
<1>10. ~Pushed(todo[u], loc[u]) /\ ~Pushed(s, loc[u])
  BY <1>3 DEF Pushed
<1>11. DueIn(u) = {}
  BY <1>9, <1>10, DueFacts DEF DueIn, DueOnDisk
<1>12. StoreFits(d, DueOnDisk)
  BY <1>5, <1>7, <1>8 DEF RestsOf, Rests, StoreFits
<1>13. MemFits(m, DueIn(u), d)
  BY <1>6, <1>11 DEF MemFits
<1>14. Mutates(s, m, loc[u], d)
  BY <1>2, <1>3, <1>6, <1>7 DEF RestsOf, Rests, Mutates
<1>15. Opens(s, m, loc[u], left[u], DueIn(u), d)
  BY <1>2, <1>3, <1>6, <1>7 DEF RestsOf, Rests, Opens
<1>16. Saves(s, m, loc[u], DueIn(u), d)
  BY <1>2 DEF Saves, Encrypts, Rewrites, Plain
<1>17. PublicFits(s, m, loc[u], left[u], DueIn(u), d, failures)
  BY <1>2 DEF PublicFits
<1>18. RestsOf(u, store', s, m, loc[u], left'[u])
  BY <1>1, <1>2, <1>12, <1>13, <1>14, <1>15, <1>16, <1>17 DEF RestsOf, Rests
<1> QED BY <1>1, <1>2, <1>6, <1>10, <1>18, Landing DEF Standing, Steady

LEMMA JoinAccounts ==
  ASSUME NEW u \in Proc, Standing(u), Steady, AccountsInv(u), Join(u)
  PROVE  AccountsInv(u)'
<1> DEFINE s == Rest(u)
           op == loc[u].op
<1>1. /\ At(u, "join") /\ restore[loc[u].rid].st \in settled
      /\ restore[loc[u].rid].st = "failed" => Throw(u, mem)
      /\ restore[loc[u].rid].st # "failed" => Advance(u, mem, loc[u], s)
      /\ UNCHANGED <<restore, failures, saved, store, left>>
  BY DEF Join, Quiet, bounds
<1>2. /\ First(todo[u]) = "join" /\ todo[u] # <<>> /\ Second(todo[u]) = First(s)
      /\ s \in Seq(StageName) /\ Chain(s, op) /\ May(op, "join")
      /\ Follows(op, "join", First(s))
  BY <1>1, StageFacts
<1>3. /\ op # "refresh" => First(s) \in {"serialize", "assert", "compare", "remove"}
      /\ op = "refresh" => First(s) \in {"display", "end"}
  BY <1>2 DEF Follows, Shows
<1> HIDE DEF s
<1>4. RestoresFit(restore, todo[u], mem, loc[u], DueIn(u))
  BY DEF AccountsInv, Fits, DueIn
<1>5. mem.unlocked /\ (restore[loc[u].rid].st # "failed" => mem.ready)
  BY <1>1, <1>2, <1>4 DEF RestoresFit, settled
<1>6. RestsOf(u, store, todo[u], mem, loc[u], left[u])
  BY DEF Standing
<1>7. CASE restore[loc[u].rid].st # "failed"
  <2>1. Mutates(s, mem, loc[u], store)
    BY <1>2, <1>6 DEF RestsOf, Rests, Mutates
  <2>2. Opens(s, mem, loc[u], left[u], DueIn(u), store)
    BY <1>3, <1>6 DEF RestsOf, Rests, Opens, Opening
  <2>3. Saves(s, mem, loc[u], DueIn(u), store)
    BY <1>3, <1>5, <1>7 DEF Saves, Encrypts, Rewrites, Plain
  <2>4. PublicFits(s, mem, loc[u], left[u], DueIn(u), store, failures)
    BY <1>5 DEF PublicFits
  <2>5. RestsOf(u, store', s, mem, loc[u], left'[u])
    BY <1>1, <1>2, <1>6, <2>1, <2>2, <2>3, <2>4 DEF RestsOf, Rests
  <2>6. Pushed(s, loc[u]) => Pushed(todo[u], loc[u])
    BY <1>2, <1>3 DEF Pushed, Saving, Plain, Shows
  <2>7. First(s) # "join"
    BY <1>3
  <2> QED
    BY <1>1, <1>2, <1>7, <2>5, <2>6, <2>7, Landing DEF Standing, Steady
<1>8. CASE restore[loc[u].rid].st = "failed"
  BY <1>1, <1>2, <1>5, <1>8, ThrowAccounts
<1> QED BY <1>7, <1>8

-----------------------------------------------------------------------------
(* ensureKeyringRuntimeReady and the persists that wait for it.            *)

\* What is due is told by the account and the kind of the operation alone.
LEMMA SameDue ==
  ASSUME NEW K, NEW f, NEW s, NEW l, NEW n, n.op = l.op, n.kr = l.kr
  PROVE  Due(K, f, s, n) = Due(K, f, s, l) /\ (Pushed(s, n) <=> Pushed(s, l))
BY DEF Due, Pushed

\* The chain goes on, or ends, with no restore under way.
LEMMA LandingAt ==
  ASSUME NEW u \in Proc, TypeOK, Steady, UNCHANGED restore,
         NEW m \in MemType, m.promise = 0, NEW l \in LocType,
         NEW s \in Seq(StageName), First(s) # "join", Advance(u, m, l, s),
         Rests(store', due(saved', failures'), Due(saved', failures', s, l),
               failures', s, m, l, left'[u])
  PROVE  AccountsInv(u)'
<1>1. RestoresFit(restore', s, m, l, Due(saved', failures', s, l))
  BY NoRestore
<1> QED BY <1>1, AdvanceLands DEF Lands, Fits

LEMMA EndingAt ==
  ASSUME NEW u \in Proc, TypeOK, Steady, UNCHANGED restore,
         NEW m \in MemType, m.promise = 0, NEW l \in LocType,
         Advance(u, m, l, <<>>), NEW V, V = due(saved', failures'),
         StoreFits(store', V), MemFits(m, V, store'),
         m.submitting => m.launched,
         /\ failures' = 0 /\ ~m.unlocked /\ m.launched /\ store'.unenc # Absent
         => V \cap Public \subseteq Members(m.keyrings)
  PROVE  AccountsInv(u)'
<1> DEFINE s == <<>>
<1>1. First(s) = "end" /\ Second(s) = "end" /\ s \in Seq(StageName)
  BY FirstStages
<1>2. ~Pushed(s, l) /\ Chain(s, l.op) /\ s = <<>>
  BY <1>1, ChainEmpty DEF Pushed, Saving, Plain, Shows
<1>3. Advance(u, m, l, s) /\ Due(saved', failures', s, l) = V
  BY <1>2, DueFacts
<1> HIDE DEF s
<1>4. Mutates(s, m, l, store')
  BY <1>2 DEF Mutates
<1>5. Opens(s, m, l, left'[u], V, store')
  BY <1>1 DEF Opens, Opening
<1>6. Saves(s, m, l, V, store')
  BY <1>1 DEF Saves, Encrypts, Rewrites, Plain
<1>7. PublicFits(s, m, l, left'[u], V, store', failures')
  BY <1>1 DEF PublicFits
<1>8. Rests(store', V, V, failures', s, m, l, left'[u])
  BY <1>2, <1>4, <1>5, <1>6, <1>7 DEF Rests
<1> QED BY <1>1, <1>3, <1>8, LandingAt

\* D bounds what is due, whichever way the wait goes.
Bounds(D, s, l) ==
  /\ due(saved', failures') \subseteq D
  /\ Due(saved', failures', s, l) \subseteq D
  /\ Due(saved', failures', <<"join">> \o s, l) \subseteq D

\* What a wait in an unlocked session needs of memory, store and chain.
MayWait(m, l, s, D) ==
  /\ m.unlocked /\ m.launched /\ m.promise = 0 /\ MemFits(m, D, store')
  /\ StoreFits(store', due(saved', failures'))
  /\ store'.vault = NoVault => D \subseteq Members(m.keyrings)
  /\ May(l.op, "join") /\ Follows(l.op, "join", First(s)) /\ Chain(s, l.op)
  /\ \A i \in DOMAIN s : s[i] \notin Plain
  /\ l.op \in {"add", "remove"} => l.kr \in Keyring

\* The session is ready and the chain goes on.
LEMMA ReadyLands ==
  ASSUME NEW u \in Proc, TypeOK, Steady, UNCHANGED restore,
         NEW m \in MemType, NEW l \in LocType, NEW s \in Seq(StageName), NEW D,
         m.ready, m.unlocked, m.launched, m.promise = 0,
         StoreFits(store', due(saved', failures')),
         Due(saved', failures', s, l) \subseteq D,
         D \subseteq Members(m.keyrings), Chain(s, l.op),
         l.op \in {"add", "remove"} => l.kr \in Keyring,
         \/ Follows(l.op, "join", First(s))
         \/ Encrypts(s) /\ D \subseteq Members(l.ser)
         \/ l.op = "submit" /\ First(s) = "end",
         Advance(u, m, l, s)
  PROVE  AccountsInv(u)'
<1> DEFINE V == due(saved', failures')
           E == Due(saved', failures', s, l)
<1> HIDE DEF V, E
<1>1. E \subseteq D
  BY DEF E
<1>2. \/ l.op # "refresh" /\ First(s) \in {"serialize", "assert", "compare", "remove"}
      \/ l.op = "refresh" /\ First(s) \in {"display", "end"}
      \/ l.op = "submit" /\ First(s) = "end"
      \/ Encrypts(s) /\ D \subseteq Members(l.ser)
  BY DEF Follows, Shows
<1>3. StoreFits(store', V) /\ MemFits(m, E, store')
  BY <1>1 DEF MemFits, V
<1>4. Mutates(s, m, l, store')
  BY DEF Mutates
<1>5. Opens(s, m, l, left'[u], E, store')
  BY <1>1, <1>2 DEF Opens, Opening, Encrypts
<1>6. Saves(s, m, l, E, store')
  BY <1>1, <1>2 DEF Saves, Encrypts, Rewrites, Plain
<1>7. PublicFits(s, m, l, left'[u], E, store', failures')
  BY DEF PublicFits
<1>8. Rests(store', V, E, failures', s, m, l, left'[u])
  BY <1>3, <1>4, <1>5, <1>6, <1>7 DEF Rests
<1>9. First(s) # "join"
  BY <1>2 DEF Encrypts
<1> QED BY <1>8, <1>9, LandingAt DEF V, E

\* A restore starts, and the chain waits for it.
LEMMA WaitLands ==
  ASSUME NEW u \in Proc, TypeOK, Steady, NEW m \in MemType, NEW l \in LocType,
         NEW s \in Seq(StageName), NEW D, Bounds(D, s, l), MayWait(m, l, s, D),
         ~m.ready, m.pending # Absent,
         startDeferredRestore(u, m, l, s)
  PROVE  AccountsInv(u)'
<1> DEFINE n == Len(restore) + 1
           m2 == [m EXCEPT !.restoreId = @ + 1, !.pending = Absent,
                           !.promise = n, !.ready = FALSE,
                           !.restoring = TRUE, !.failed = FALSE]
           l2 == [l EXCEPT !.rid = n]
           r == [id |-> m.restoreId + 1, st |-> "sensitive",
                 left |-> m.pending.data, next |-> m.keyrings,
                 prev |-> m.keyrings, from |-> m.pending]
           t == <<"join">> \o s
           V == due(saved', failures')
           E == Due(saved', failures', t, l2)
<1>1. restore' = Append(restore, r) /\ Advance(u, m2, l2, t)
  BY DEF startDeferredRestore
<1>2. restore \in Seq(RestoreType) /\ n \in Nat /\ n # 0
  BY DEF TypeOK
<1>3. m.restoreId + 1 \in Nat
  BY DEF MemType
<1>4. /\ m2 \in MemType /\ m2.restoreId = m.restoreId + 1 /\ m2.pending = Absent
      /\ m2.promise = n /\ ~m2.ready /\ m2.unlocked = m.unlocked
      /\ m2.launched = m.launched /\ m2.keyrings = m.keyrings
  <2>1. \A a, b \in Nat :
          [m EXCEPT !.restoreId = a, !.pending = Absent, !.promise = b,
                    !.ready = FALSE, !.restoring = TRUE, !.failed = FALSE]
            \in MemType
    BY DEF MemType
  <2>2. m2 \in MemType
    BY <1>2, <1>3, <2>1 DEF MemType
  <2> QED BY <2>2 DEF MemType
<1>5. l2 \in LocType /\ l2.op = l.op /\ l2.kr = l.kr /\ l2.rid = n
  BY <1>2 DEF LocType
<1>6. /\ r.id = m.restoreId + 1 /\ r.st = "sensitive" /\ r.left = m.pending.data
      /\ r.next = m.keyrings /\ r.prev = m.keyrings /\ r.from = m.pending
  OBVIOUS
<1>7. /\ DOMAIN restore' = DOMAIN restore \cup {n} /\ restore'[n] = r
      /\ \A i \in DOMAIN restore : restore'[i] = restore[i]
      /\ n \notin DOMAIN restore
  <2> HIDE DEF r
  <2> QED BY <1>1, <1>2
<1>8. t \in Seq(StageName) /\ First(t) = "join" /\ t # <<>> /\ Chain(t, l2.op)
  <2>1. "join" \in StageName
    BY DEF StageName
  <2>2. Chain(t, l.op)
    BY <2>1, ChainPrepend DEF MayWait
  <2> QED BY <1>5, <2>1, <2>2, FirstPrepend
<1> HIDE DEF m2, l2, r, n
<1>9. E = Due(saved', failures', t, l)
  BY <1>5, SameDue
<1>10. V \subseteq D /\ E \subseteq D
  BY <1>9 DEF Bounds
<1> HIDE DEF t, V, E
<1>11. StoreFits(store', V)
  BY DEF MayWait, V
<1>12. MemFits(m2, E, store')
  BY <1>2, <1>4 DEF MayWait, MemFits
<1>13. Mutates(t, m2, l2, store')
  BY <1>4, <1>5 DEF MayWait, Mutates
<1>14. Opens(t, m2, l2, left'[u], E, store')
  BY <1>4, <1>8 DEF MayWait, Opens, Opening
<1>15. Saves(t, m2, l2, E, store')
  BY <1>8 DEF Saves, Encrypts, Rewrites, Plain
<1>16. PublicFits(t, m2, l2, left'[u], E, store', failures')
  BY <1>4 DEF PublicFits, MayWait
<1>17. D \subseteq Members(m.keyrings) \cup Owed(m.pending)
  BY DEF MayWait, MemFits
<1>18. RestoreFits(r, n, t, m2, l2, E)
  BY <1>4, <1>5, <1>6, <1>8, <1>10, <1>17 DEF RestoreFits, Owed, MayWait
<1>19. RestoresFit(restore', t, m2, l2, E)
  BY <1>2, <1>4, <1>5, <1>6, <1>7, <1>18
     DEF RestoresFit, Unsettled, settled, Steady, MayWait
<1>20. Lands(u, m2, l2, t)
  BY <1>8, <1>11, <1>12, <1>13, <1>14, <1>15, <1>16, <1>19
     DEF Lands, Fits, Rests, V, E
<1> QED BY <1>1, <1>4, <1>5, <1>8, <1>20, AdvanceLands

LEMMA EnsureLands ==
  ASSUME NEW u \in Proc, TypeOK, Steady, NEW m \in MemType, NEW l \in LocType,
         NEW s \in Seq(StageName), NEW D, Bounds(D, s, l), MayWait(m, l, s, D),
         loc[u] \in LocType, ensureKeyringRuntimeReady(u, m, l, s)
  PROVE  AccountsInv(u)'
<1>1. m.unlocked /\ m.promise = 0
  BY DEF MayWait
<1>2. CASE m.ready
  <2>1. Advance(u, m, l, s) /\ UNCHANGED restore
    BY <1>1, <1>2 DEF ensureKeyringRuntimeReady
  <2>2. D \subseteq Members(m.keyrings)
    BY <1>2 DEF MayWait, MemFits
  <2> QED BY <1>2, <2>1, <2>2, ReadyLands DEF MayWait, Bounds
<1>3. CASE ~m.ready /\ m.pending # Absent
  <2>1. startDeferredRestore(u, m, l, s)
    BY <1>1, <1>3 DEF ensureKeyringRuntimeReady
  <2> QED BY <1>3, <2>1, WaitLands
<1>4. CASE ~m.ready /\ m.pending = Absent
  <2> DEFINE n == markKeyringRuntimeReady(m)
  <2>1. startDeferredRestore(u, m, l, s)
    BY <1>1, <1>4 DEF ensureKeyringRuntimeReady
  <2>2. UNCHANGED restore /\ (Advance(u, n, l, s) \/ Throw(u, m))
    BY <1>4, <2>1 DEF startDeferredRestore
  <2>3. D \subseteq Members(m.keyrings)
    BY <1>1, <1>4 DEF MayWait, MemFits
  <2>4. /\ n \in MemType /\ n.ready /\ n.unlocked = m.unlocked
        /\ n.keyrings = m.keyrings /\ n.promise = 0 /\ n.launched = m.launched
    <3>1. n \in MemType
      BY MemOps DEF OptPassword
    <3> QED BY <3>1 DEF markKeyringRuntimeReady, MemType
  <2> HIDE DEF n
  <2>5. CASE Advance(u, n, l, s)
    BY <2>2, <2>3, <2>4, <2>5, ReadyLands DEF MayWait, Bounds
  <2>6. CASE Throw(u, m)
    <3> DEFINE V == due(saved', failures')
    <3> HIDE DEF V
    <3>1. MemFits(m, V, store') /\ StoreFits(store', V)
      BY DEF MayWait, Bounds, MemFits, V
    <3> QED BY <1>1, <2>2, <2>6, <3>1, EndingAt DEF Throw, MayWait, V
  <2> QED BY <2>2, <2>5, <2>6
<1> QED BY <1>2, <1>3, <1>4

\* Whatever the stage, no more is due than with the added account.
DueMost(l) == due(saved' \cup {k \in Keyring : k = l.kr /\ l.op = "add"}, failures')

LEMMA DueMostFacts ==
  ASSUME NEW l
  PROVE  /\ \A s : Due(saved', failures', s, l) \subseteq DueMost(l)
         /\ due(saved', failures') \subseteq DueMost(l)
BY DEF DueMost, due, Due, Pushed

\* What a persist needs of memory, store and chain, s what follows it.
MayPersist(m, l, s, D) ==
  /\ m.launched /\ m.promise = 0 /\ MemFits(m, D, store')
  /\ StoreFits(store', due(saved', failures'))
  /\ store'.vault = NoVault => D \subseteq Members(m.keyrings)
  /\ \A t : Due(saved', failures', t, l) \subseteq D
  /\ due(saved', failures') \subseteq D
  /\ l.op \in {"submit", "add", "remove"} /\ Chain(s, l.op)
  /\ Follows(l.op, "encrypt", First(s)) /\ \A i \in DOMAIN s : s[i] \notin Plain
  /\ l.op \in {"add", "remove"} => l.kr \in Keyring

LEMMA PersistAllLands ==
  ASSUME NEW u \in Proc, TypeOK, Steady, NEW m \in MemType, NEW l \in LocType,
         NEW s \in Seq(StageName), NEW D, m.unlocked, MayPersist(m, l, s, D),
         loc[u] \in LocType, persistAllKeyrings(u, m, l, s)
  PROVE  AccountsInv(u)'
<1> DEFINE w == <<"snapshot", "encrypt">> \o s
           t == <<"serialize">> \o w
           e == <<"encrypt">> \o s
           n == [l EXCEPT !.ser = m.keyrings]
<1>1. /\ "serialize" \in StageName /\ "snapshot" \in StageName
      /\ "encrypt" \in StageName
  BY DEF StageName
<1>2. May(l.op, "join") /\ May(l.op, "serialize") /\ May(l.op, "snapshot")
      /\ May(l.op, "encrypt") /\ l.op # "refresh"
  BY DEF MayPersist, May, Saving
<1>3. w = <<"snapshot">> \o e
  BY <1>1, Regroup
<1> HIDE DEF w, t, e
<1>4. /\ e \in Seq(StageName) /\ e # <<>> /\ First(e) = "encrypt"
      /\ \A i \in DOMAIN e : e[i] \notin Plain
  <2>1. \A i \in DOMAIN e : e[i] \in {"encrypt"} \cup StagesOf(s)
    BY <1>1, FirstPrepend DEF e
  <2>2. \A x \in StagesOf(s) : x \notin Plain
    BY DEF StagesOf, MayPersist
  <2>3. "encrypt" \notin Plain
    BY DEF Plain
  <2> QED BY <1>1, <2>1, <2>2, <2>3, FirstPrepend DEF e
<1>5. Chain(e, l.op)
  BY <1>1, <1>2, ChainPrepend DEF e, MayPersist
<1>6. /\ w \in Seq(StageName) /\ w # <<>> /\ First(w) = "snapshot"
      /\ Second(w) = "encrypt" /\ \A i \in DOMAIN w : w[i] \notin Plain
  <2>1. \A i \in DOMAIN w : w[i] \in {"snapshot"} \cup StagesOf(e)
    BY <1>1, <1>3, <1>4, FirstPrepend
  <2>2. \A x \in StagesOf(e) : x \notin Plain
    BY <1>4 DEF StagesOf
  <2>3. "snapshot" \notin Plain
    BY DEF Plain
  <2> QED BY <1>1, <1>3, <1>4, <2>1, <2>2, <2>3, FirstPrepend
<1>7. Chain(w, l.op)
  <2>1. Follows(l.op, "snapshot", First(e))
    BY <1>4 DEF Follows
  <2> QED BY <1>1, <1>2, <1>3, <1>4, <1>5, <2>1, ChainPrepend
<1>8. /\ t \in Seq(StageName) /\ First(t) = "serialize"
      /\ \A i \in DOMAIN t : t[i] \notin Plain
  <2>1. \A i \in DOMAIN t : t[i] \in {"serialize"} \cup StagesOf(w)
    BY <1>1, <1>6, FirstPrepend DEF t
  <2>2. \A x \in StagesOf(w) : x \notin Plain
    BY <1>6 DEF StagesOf
  <2>3. "serialize" \notin Plain
    BY DEF Plain
  <2> QED BY <1>1, <1>6, <2>1, <2>2, <2>3, FirstPrepend DEF t
<1>9. Chain(t, l.op)
  <2>1. Follows(l.op, "serialize", First(w))
    BY <1>6 DEF Follows
  <2> QED BY <1>1, <1>2, <1>6, <1>7, <2>1, ChainPrepend DEF t
<1>10. n \in LocType /\ n.op = l.op /\ n.kr = l.kr /\ n.ser = m.keyrings
  BY DEF LocType, MemType
<1> HIDE DEF n
<1>11. CASE shouldWaitForKeyringRuntime(m)
  <2>1. ensureKeyringRuntimeReady(u, m, l, t)
    BY <1>11 DEF persistAllKeyrings, t, w
  <2>2. Follows(l.op, "join", First(t))
    BY <1>2, <1>8 DEF Follows
  <2>3. MayWait(m, l, t, D) /\ Bounds(D, t, l)
    BY <1>2, <1>8, <1>9, <2>2 DEF MayWait, MayPersist, Bounds
  <2> QED BY <1>8, <2>1, <2>3, EnsureLands
<1>12. CASE ~shouldWaitForKeyringRuntime(m)
  <2>1. m.ready
    BY <1>12 DEF shouldWaitForKeyringRuntime
  <2>2. UNCHANGED restore /\ (Throw(u, m) \/ Advance(u, m, n, w))
    BY <1>12 DEF persistAllKeyrings, serializeForPersist, w, n
  <2>3. CASE Throw(u, m)
    <3> DEFINE V == due(saved', failures')
    <3> HIDE DEF V
    <3>1. MemFits(m, V, store') /\ StoreFits(store', V) /\ m.promise = 0
          /\ m.launched
      BY DEF MayPersist, MemFits, V
    <3> QED BY <2>2, <2>3, <3>1, EndingAt DEF Throw, V
  <2>4. CASE Advance(u, m, n, w)
    <3>1. D \subseteq Members(n.ser)
      BY <1>10, <2>1 DEF MayPersist, MemFits
    <3>2. Due(saved', failures', w, n) \subseteq D
      BY <1>10, SameDue DEF MayPersist
    <3>3. Encrypts(w)
      BY <1>6 DEF Encrypts
    <3>4. D \subseteq Members(m.keyrings) /\ m.launched /\ m.promise = 0
          /\ StoreFits(store', due(saved', failures'))
          /\ (n.op \in {"add", "remove"} => n.kr \in Keyring)
      BY <1>10, <3>1 DEF MayPersist
    <3> QED
      BY <1>6, <1>7, <1>10, <2>1, <2>2, <2>4, <3>1, <3>2, <3>3, <3>4, ReadyLands
  <2> QED BY <2>2, <2>3, <2>4
<1> QED BY <1>11, <1>12

\* The store of a locked session is rewritten in plain.
LEMMA RewriteLands ==
  ASSUME NEW u \in Proc, TypeOK, Steady, UNCHANGED restore,
         NEW m \in MemType, NEW l \in LocType,
         NEW s \in Seq(StageName), NEW D, ~m.unlocked, MayPersist(m, l, s, D),
         l.op \in {"add", "remove"}, l.kr \notin Sensitive,
         store'.unenc # Absent, D \cap Public \subseteq Members(m.keyrings),
         Advance(u, m, [l EXCEPT !.ser = m.keyrings],
                 <<"snapshot", "writeSnapshot", "writeUnencrypted">> \o s)
  PROVE  AccountsInv(u)'
<1> DEFINE t == <<"snapshot", "writeSnapshot", "writeUnencrypted">> \o s
           b == <<"writeUnencrypted">> \o s
           a == <<"writeSnapshot">> \o b
           n == [l EXCEPT !.ser = m.keyrings]
           V == due(saved', failures')
           E == Due(saved', failures', t, n)
<1>1. /\ "snapshot" \in StageName /\ "writeSnapshot" \in StageName
      /\ "writeUnencrypted" \in StageName
  BY DEF StageName
<1>2. May(l.op, "snapshot") /\ May(l.op, "writeSnapshot")
      /\ May(l.op, "writeUnencrypted")
  BY DEF May, Saving, Plain
<1>3. t = <<"snapshot">> \o a
  BY <1>1, Regroup
<1> HIDE DEF t, a, b
<1>4. b \in Seq(StageName) /\ First(b) = "writeUnencrypted" /\ Chain(b, l.op)
  <2>1. Follows(l.op, "writeUnencrypted", First(s))
    <3>1. \A y : Follows(l.op, "encrypt", y) => y = "display"
      BY DEF Follows, Shows
    <3>2. Follows(l.op, "writeUnencrypted", "display")
      BY DEF Follows
    <3> QED BY <3>1, <3>2 DEF MayPersist
  <2> QED BY <1>1, <1>2, <2>1, FirstPrepend, ChainPrepend DEF b, MayPersist
<1>5. a \in Seq(StageName) /\ First(a) = "writeSnapshot" /\ Chain(a, l.op)
  <2>1. Follows(l.op, "writeSnapshot", First(b))
    BY <1>4 DEF Follows
  <2> QED BY <1>1, <1>2, <1>4, <2>1, FirstPrepend, ChainPrepend DEF a
<1>6. /\ t \in Seq(StageName) /\ t # <<>> /\ First(t) = "snapshot"
      /\ Second(t) = "writeSnapshot" /\ Chain(t, l.op)
  <2>1. Follows(l.op, "snapshot", First(a))
    BY <1>5 DEF Follows
  <2> QED BY <1>1, <1>2, <1>3, <1>5, <2>1, FirstPrepend, ChainPrepend
<1>7. n \in LocType /\ n.op = l.op /\ n.kr = l.kr /\ n.ser = m.keyrings
  BY DEF LocType, MemType
<1>8. Advance(u, m, n, t)
  BY DEF t
<1> HIDE DEF n, V, E
<1>9. E \subseteq D /\ V \subseteq D
  BY <1>7, SameDue DEF MayPersist, E, V
<1>10. StoreFits(store', V) /\ MemFits(m, E, store')
  BY <1>9 DEF MayPersist, MemFits, V
<1>11. Mutates(t, m, n, store')
  BY <1>7 DEF MayPersist, Mutates
<1>12. Opens(t, m, n, left'[u], E, store')
  BY <1>6, <1>7 DEF MayPersist, Opens
<1>13. Saves(t, m, n, E, store')
  BY <1>6, <1>7, <1>9 DEF Saves, Encrypts, Rewrites, Plain
<1>14. PublicFits(t, m, n, left'[u], E, store', failures')
  BY <1>9 DEF PublicFits
<1>15. Rests(store', V, E, failures', t, m, n, left'[u])
  BY <1>6, <1>7, <1>10, <1>11, <1>12, <1>13, <1>14 DEF Rests
<1>16. m.promise = 0 /\ First(t) # "join"
  BY <1>6 DEF MayPersist
<1> QED BY <1>6, <1>7, <1>8, <1>15, <1>16, LandingAt DEF V, E

-----------------------------------------------------------------------------
(* The mutations.                                                          *)

\* Nothing on disk: nothing is due.
LEMMA NoVaultNothingDue ==
  ASSUME NEW d, NEW W, StoreFits(d, W), d.vault = NoVault
  PROVE  W = {}
BY DEF StoreFits, Recoverable

LEMMA CheckForDuplicateAccounts ==
  ASSUME NEW u \in Proc, Standing(u), Steady, CheckForDuplicate(u)
  PROVE  AccountsInv(u)'
<1> DEFINE r == Rest(u)
           s == <<"compare">> \o r
           l == loc[u]
           op == loc[u].op
<1>1. /\ At(u, "duplicate") /\ UNCHANGED <<failures, saved, store, left>>
  BY DEF CheckForDuplicate, Quiet, bounds
<1>2. /\ First(todo[u]) = "duplicate" /\ todo[u] # <<>>
      /\ r \in Seq(StageName) /\ Chain(r, op) /\ May(op, "duplicate")
      /\ First(r) = "push" /\ \A i \in DOMAIN r : r[i] \notin Plain
  <2>1. \A y : Follows(op, "duplicate", y) => y = "push"
    BY DEF Follows, Shows
  <2> QED BY <1>1, <2>1, StageFacts
<1>3. op = "add"
  BY <1>2 DEF May, Saving, Plain, Shows, Opening
<1>4. RestsOf(u, store, todo[u], mem, loc[u], left[u])
  BY DEF Standing
<1>5. CASE ~shouldWaitForType(mem, l.kr)
  <2>1. UNCHANGED restore /\ (Throw(u, mem) \/ Advance(u, mem, loc[u], r))
    BY <1>5 DEF CheckForDuplicate, compareAccounts
  <2>2. "duplicate" \in {"assert", "duplicate", "compare"}
    OBVIOUS
  <2> QED BY <1>1, <1>2, <1>3, <2>1, <2>2, CheckPassed, ThrowAccounts
<1>6. CASE shouldWaitForType(mem, l.kr)
  <2>1. ensureKeyringRuntimeReady(u, mem, l, s) /\ mem.unlocked
    BY <1>6 DEF CheckForDuplicate, shouldWaitForType, shouldWaitForKeyringRuntime
  <2> HIDE DEF r, s
  <2>2. /\ s \in Seq(StageName) /\ First(s) = "compare" /\ s # <<>>
        /\ Chain(s, op) /\ \A i \in DOMAIN s : s[i] \notin Plain
    <3>1. "compare" \in StageName /\ May(op, "compare")
          /\ Follows(op, "compare", First(r)) /\ "compare" \notin Plain
      BY <1>2, <1>3 DEF StageName, May, Follows, Plain
    <3>2. \A x \in StagesOf(r) : x \notin Plain
      BY <1>2 DEF StagesOf
    <3>3. \A i \in DOMAIN s : s[i] \in {"compare"} \cup StagesOf(r)
      BY <1>2, <3>1, FirstPrepend DEF s
    <3> QED BY <1>2, <3>1, <3>2, <3>3, FirstPrepend, ChainPrepend DEF s
  <2>3. May(op, "join") /\ Follows(op, "join", First(s))
    BY <1>3, <2>2 DEF May, Follows
  <2>4. ~Pushed(todo[u], l) /\ ~Pushed(s, l) /\ ~Pushed(<<"join">> \o s, l)
    <3>1. First(<<"join">> \o s) = "join" /\ Second(<<"join">> \o s) = "compare"
      <4>1. "join" \in StageName
        BY DEF StageName
      <4> QED BY <2>2, <4>1, FirstPrepend
    <3> QED BY <1>2, <2>2, <3>1 DEF Pushed, Saving, Plain, Shows
  <2>5. Bounds(DueIn(u), s, l)
    <3>1. due(saved', failures') = DueOnDisk
      BY <1>1 DEF DueOnDisk
    <3> QED BY <1>1, <2>4, <3>1, DueFacts DEF Bounds, Standing, DueOnDisk
  <2>6. DueIn(u) = DueOnDisk
    BY <2>4, DueFacts DEF DueIn, DueOnDisk
  <2>7. StoreFits(store', due(saved', failures')) /\ MemFits(mem, DueIn(u), store')
        /\ mem.launched /\ l.kr \in Keyring
    BY <1>1, <1>2, <1>3, <1>4 DEF RestsOf, Rests, Mutates, DueOnDisk
  <2>8. store'.vault = NoVault => DueIn(u) \subseteq Members(mem.keyrings)
    BY <1>1, <1>4, <2>6, NoVaultNothingDue DEF RestsOf, Rests
  <2>9. MayWait(mem, l, s, DueIn(u))
    BY <2>1, <2>2, <2>3, <2>7, <2>8 DEF MayWait, Steady
  <2> QED BY <2>1, <2>2, <2>5, <2>9, EnsureLands DEF Standing
<1> QED BY <1>5, <1>6

\* A mutation in memory, and the persist it calls for.
LEMMA MutationLands ==
  ASSUME NEW u \in Proc, Standing(u), Steady, UNCHANGED <<store, left, failures>>,
         NEW st \in {"push", "remove"}, At(u, st),
         NEW b \in Bag, saved' \subseteq saved,
         DueMost(loc[u]) \subseteq DueIn(u) \cup Members(b),
         Members(mem.keyrings) \cap DueMost(loc[u]) \subseteq Members(b),
         persistKeyringsForKeyring(u, [mem EXCEPT !.keyrings = b], loc[u],
                                   loc[u].kr, Rest(u))
  PROVE  AccountsInv(u)'
<1> DEFINE s == Rest(u)
           l == loc[u]
           m == [mem EXCEPT !.keyrings = b]
           D == DueMost(l)
<1>1. /\ First(todo[u]) = st /\ todo[u] # <<>>
      /\ s \in Seq(StageName) /\ Chain(s, l.op) /\ May(l.op, st)
      /\ First(s) = "display" /\ \A i \in DOMAIN s : s[i] \notin Plain
  <2>1. \A y : Follows(l.op, st, y) => y = "display"
    BY DEF Follows, Shows
  <2> QED BY <2>1, StageFacts
<1>2. l.op \in {"add", "remove"}
  BY <1>1 DEF May, Saving, Plain, Shows, Opening
<1>3. Follows(l.op, "encrypt", First(s))
  BY <1>1, <1>2 DEF Follows
<1>4. /\ m \in MemType /\ m.keyrings = b /\ m.ready = mem.ready
      /\ m.unlocked = mem.unlocked /\ m.promise = mem.promise
      /\ m.pending = mem.pending /\ m.launched = mem.launched
      /\ m.submitting = mem.submitting
  BY DEF Standing, MemType
<1>5. persistKeyringsForKeyring(u, m, l, l.kr, s)
  OBVIOUS
<1>6. D \subseteq DueIn(u) \cup Members(b) /\ Members(mem.keyrings) \cap D \subseteq Members(b)
  OBVIOUS
<1> HIDE DEF s, m, D
<1>7. RestsOf(u, store, todo[u], mem, l, left[u])
  BY DEF Standing
<1>8. ~Pushed(todo[u], l)
  BY <1>1 DEF Pushed, Saving, Plain, Shows
<1>9. DueIn(u) = DueOnDisk
  BY <1>8, DueFacts DEF DueIn, DueOnDisk
<1>10. due(saved', failures') \subseteq DueOnDisk
  BY DEF due, DueOnDisk
<1>11. StoreFits(store', due(saved', failures'))
  BY <1>7, <1>10 DEF RestsOf, Rests, StoreFits
<1>12. MemFits(m, D, store')
  BY <1>4, <1>6, <1>7 DEF RestsOf, Rests, MemFits
<1>13. store'.vault = NoVault => D \subseteq Members(m.keyrings)
  BY <1>4, <1>6, <1>7, <1>9, NoVaultNothingDue DEF RestsOf, Rests
<1>14. l.kr \in Keyring /\ (l.kr \in Sensitive => mem.unlocked) /\ mem.launched
       /\ (~mem.unlocked => store.unenc # Absent)
  BY <1>1, <1>2, <1>7 DEF RestsOf, Rests, Mutates
<1>15. \A t : Due(saved', failures', t, l) \subseteq D
  BY DueMostFacts DEF D
<1>16. due(saved', failures') \subseteq D
  BY DueMostFacts DEF D
<1>17. MayPersist(m, l, s, D)
  BY <1>1, <1>2, <1>3, <1>4, <1>11, <1>12, <1>13, <1>14, <1>15, <1>16
     DEF MayPersist, Steady
<1>18. l \in LocType /\ TypeOK
  BY DEF Standing
<1>19. CASE m.unlocked
  <2>1. persistAllKeyrings(u, m, l, s)
    BY <1>5, <1>19 DEF persistKeyringsForKeyring
  <2> QED BY <1>1, <1>4, <1>17, <1>18, <1>19, <2>1, PersistAllLands
<1>20. CASE ~m.unlocked
  <2>1. l.kr \notin Sensitive
    BY <1>4, <1>14, <1>20
  <2>2. /\ UNCHANGED restore
        /\ Advance(u, m, [l EXCEPT !.ser = m.keyrings],
                   <<"snapshot", "writeSnapshot", "writeUnencrypted">> \o s)
    BY <1>5, <1>20, <2>1 DEF persistKeyringsForKeyring
  <2>3. D \cap Public \subseteq Members(m.keyrings)
    <3>1. CASE failures = 0
      <4>1. DueIn(u) \cap Public \subseteq Members(mem.keyrings)
        BY <1>1, <1>2, <1>4, <1>7, <1>14, <1>20, <3>1 DEF RestsOf, Rests, PublicFits
      <4> QED BY <1>4, <1>6, <4>1
    <3>2. CASE failures # 0
      <4>1. D \cap Public = {}
        BY <3>2, KeyringServiceAssumption
           DEF D, DueMost, due, KeyringServiceAssumption
      <4> QED BY <4>1
    <3> QED BY <3>1, <3>2
  <2>4. store'.unenc # Absent
    BY <1>4, <1>14, <1>20
  <2> QED
    BY <1>1, <1>2, <1>4, <1>17, <1>18, <1>20, <2>1, <2>2, <2>3, <2>4, RewriteLands
<1> QED BY <1>19, <1>20

LEMMA PushAccounts ==
  ASSUME NEW u \in Proc, Standing(u), Steady, PushKeyring(u)
  PROVE  AccountsInv(u)'
<1> DEFINE b == Push(mem.keyrings, loc[u].kr)
<1>1. /\ At(u, "push") /\ UNCHANGED <<store, left, failures, saved>>
      /\ persistKeyringsForKeyring(u, [mem EXCEPT !.keyrings = b], loc[u],
                                   loc[u].kr, Rest(u))
  BY DEF PushKeyring, Quiet, bounds
<1>2. /\ b \in Bag /\ Members(mem.keyrings) \subseteq Members(b)
      /\ loc[u].kr \in Keyring => loc[u].kr \in Members(b)
  <2>1. mem.keyrings \in Bag
    BY DEF Standing, MemType
  <2> QED BY <2>1, BagOps, MembersOf
<1> HIDE DEF b
<1>3. DueMost(loc[u]) \subseteq DueOnDisk \cup {loc[u].kr}
      /\ DueMost(loc[u]) \subseteq Keyring
  BY <1>1 DEF DueMost, due, DueOnDisk, Standing
<1>4. DueMost(loc[u]) \subseteq DueIn(u) \cup Members(b)
  BY <1>2, <1>3 DEF Standing
<1> QED BY <1>1, <1>2, <1>4, MutationLands

LEMMA RemoveAccounts ==
  ASSUME NEW u \in Proc, Standing(u), Steady, RemoveKeyring(u)
  PROVE  AccountsInv(u)'
<1> DEFINE k == loc[u].kr
           b == Drop(mem.keyrings, k)
<1>1. At(u, "remove") /\ UNCHANGED <<store, left, failures>>
  BY DEF RemoveKeyring, Quiet, bounds
<1>2. First(todo[u]) = "remove" /\ May(loc[u].op, "remove")
  BY <1>1, StageFacts
<1>3. loc[u].op = "remove"
  BY <1>2 DEF May, Saving, Plain, Shows, Opening
<1>4. CASE Throw(u, mem) /\ UNCHANGED <<restore, saved>>
  BY <1>1, <1>2, <1>3, <1>4, ThrowAccounts
<1>5. CASE /\ persistKeyringsForKeyring(u, [mem EXCEPT !.keyrings = b], loc[u],
                                        k, Rest(u))
           /\ saved' = saved \ {k}
  <2>1. b \in Bag /\ Members(mem.keyrings) \subseteq Members(b) \cup {k}
    <3>1. mem.keyrings \in Bag
      BY DEF Standing, MemType
    <3> QED BY <3>1, BagOps, MembersOf
  <2>2. DueMost(loc[u]) = due(saved \ {k}, failures)
    BY <1>1, <1>3, <1>5 DEF DueMost, due
  <2>3. DueMost(loc[u]) \subseteq DueOnDisk /\ k \notin DueMost(loc[u])
    BY <2>2 DEF due, DueOnDisk
  <2>4. DueMost(loc[u]) \subseteq DueIn(u) \cup Members(b)
    BY <2>3 DEF Standing
  <2>5. Members(mem.keyrings) \cap DueMost(loc[u]) \subseteq Members(b)
    BY <2>1, <2>3
  <2>6. saved' \subseteq saved
    BY <1>5
  <2> HIDE DEF b
  <2>7. "remove" \in {"push", "remove"}
    OBVIOUS
  <2>8. persistKeyringsForKeyring(u, [mem EXCEPT !.keyrings = b], loc[u],
                                  loc[u].kr, Rest(u))
    BY <1>5
  <2> QED BY <1>1, <2>1, <2>4, <2>5, <2>6, <2>7, <2>8, MutationLands
<1> QED BY <1>4, <1>5 DEF RemoveKeyring

-----------------------------------------------------------------------------
(* The unlock.                                                             *)

LEMMA SetUnlockedLands ==
  ASSUME NEW u \in Proc, TypeOK, Steady, loc[u] \in LocType,
         NEW m \in MemType, NEW l \in LocType, l.op = "submit",
         m.launched, m.promise = 0, UNCHANGED <<store, failures, saved>>,
         StoreFits(store, DueOnDisk),
         MemFits([m EXCEPT !.unlocked = TRUE], DueOnDisk, store),
         setUnlocked(u, m, l)
  PROVE  AccountsInv(u)'
<1> DEFINE n == [m EXCEPT !.unlocked = TRUE]
           s == <<>>
<1>1. /\ n \in MemType /\ n.unlocked /\ n.launched /\ n.promise = 0
  BY DEF MemType
<1>2. MemFits(n, DueOnDisk, store)
  OBVIOUS
<1>3. s \in Seq(StageName) /\ First(s) = "end" /\ Chain(s, l.op)
      /\ \A i \in DOMAIN s : s[i] \notin Plain
  BY FirstStages, ChainEmpty
<1>4. \/ persistAllKeyrings(u, n, l, s)
      \/ Advance(u, n, l, <<>>) /\ UNCHANGED restore
  BY DEF setUnlocked
<1> HIDE DEF n, s
<1>5. due(saved', failures') = DueOnDisk
  BY DEF DueOnDisk
<1>6. \A t : Due(saved', failures', t, l) = DueOnDisk
  <2>1. \A t : ~Pushed(t, l)
    BY DEF Pushed
  <2> QED BY <1>5, <2>1, DueFacts
<1>7. CASE persistAllKeyrings(u, n, l, s)
  <2>1. Follows(l.op, "encrypt", First(s))
    BY <1>3 DEF Follows
  <2>2. store'.vault = NoVault => DueOnDisk = {}
    BY NoVaultNothingDue
  <2>3. MayPersist(n, l, s, DueOnDisk)
    BY <1>1, <1>2, <1>3, <1>5, <1>6, <2>1, <2>2 DEF MayPersist
  <2> QED BY <1>1, <1>3, <1>7, <2>3, PersistAllLands
<1>8. CASE Advance(u, n, l, <<>>) /\ UNCHANGED restore
  BY <1>1, <1>2, <1>5, <1>8, EndingAt
<1> QED BY <1>4, <1>7, <1>8

LEMMA OneStage ==
  ASSUME NEW x \in StageName
  PROVE  /\ <<x>> \in Seq(StageName) /\ First(<<x>>) = x
         /\ \A op : May(op, x) /\ Follows(op, x, "end") => Chain(<<x>>, op)
<1>1. <<x>> \o <<>> = <<x>>
  OBVIOUS
<1>2. <<>> \in Seq(StageName) /\ \A i \in DOMAIN <<>> : <<>>[i] \notin Plain
  OBVIOUS
<1>3. <<x>> \o <<>> \in Seq(StageName) /\ First(<<x>> \o <<>>) = x
  BY <1>2, FirstPrepend
<1>4. \A op : May(op, x) /\ Follows(op, x, "end") => Chain(<<x>> \o <<>>, op)
  BY <1>2, ChainEmpty, ChainPrepend, FirstStages
<1> QED BY <1>1, <1>3, <1>4

LEMMA UnlockStages ==
  ASSUME NEW more \in {<<"ready">>, <<"display", "ready">>}
  PROVE  LET s == <<"decrypt", "sensitive", "public">> \o more
         IN  s \in Seq(StageName) /\ First(s) = "decrypt" /\ Chain(s, "submit")
<1> DEFINE s == <<"decrypt", "sensitive", "public">> \o more
           c == <<"public">> \o more
           b == <<"sensitive">> \o c
<1>0. /\ "ready" \in StageName /\ "display" \in StageName
      /\ "decrypt" \in StageName /\ "sensitive" \in StageName
      /\ "public" \in StageName
  BY DEF StageName
<1>1. \A x \in {"ready", "display", "decrypt", "sensitive", "public"} :
        May("submit", x)
  BY DEF May, Opening
<1>2. /\ <<"ready">> \in Seq(StageName) /\ First(<<"ready">>) = "ready"
      /\ Chain(<<"ready">>, "submit")
  BY <1>0, <1>1, OneStage DEF Follows
<1>3. \A i \in DOMAIN <<"ready">> : <<"ready">>[i] \notin Plain
  BY DEF Plain
<1>4. /\ more \in Seq(StageName) /\ First(more) \in {"ready", "display"}
      /\ Chain(more, "submit") /\ \A i \in DOMAIN more : more[i] \notin Plain
  <2>1. CASE more = <<"ready">>
    BY <1>2, <1>3, <2>1
  <2>2. CASE more = <<"display", "ready">>
    <3>1. more = <<"display">> \o <<"ready">>
      BY <2>2, Pair, Zenon
    <3>2. Follows("submit", "display", "ready")
      BY DEF Follows, Shows
    <3>3. /\ <<"display">> \o <<"ready">> \in Seq(StageName)
          /\ First(<<"display">> \o <<"ready">>) = "display"
          /\ Chain(<<"display">> \o <<"ready">>, "submit")
      BY <1>0, <1>1, <1>2, <1>3, <3>2, FirstPrepend, ChainPrepend
    <3>4. \A i \in DOMAIN more : more[i] \notin Plain
      BY <2>2 DEF Plain
    <3> QED BY <3>1, <3>3, <3>4
  <2> QED BY <2>1, <2>2
<1>5. s = <<"decrypt">> \o b
  BY <1>0, <1>4, Regroup
<1> HIDE DEF s, b, c
<1>6. /\ c \in Seq(StageName) /\ First(c) = "public" /\ Chain(c, "submit")
      /\ \A i \in DOMAIN c : c[i] \notin Plain
  <2>1. Follows("submit", "public", First(more))
    BY <1>4 DEF Follows
  <2>2. \A i \in DOMAIN c : c[i] \in {"public"} \cup StagesOf(more)
    BY <1>0, <1>4, FirstPrepend DEF c
  <2>3. \A i \in DOMAIN c : c[i] \notin Plain
    BY <1>4, <2>2 DEF StagesOf, Plain
  <2> QED BY <1>0, <1>1, <1>4, <2>1, <2>3, FirstPrepend, ChainPrepend DEF c
<1>7. /\ b \in Seq(StageName) /\ First(b) = "sensitive" /\ Chain(b, "submit")
      /\ \A i \in DOMAIN b : b[i] \notin Plain
  <2>1. Follows("submit", "sensitive", First(c))
    BY <1>6 DEF Follows
  <2>2. \A i \in DOMAIN b : b[i] \in {"sensitive"} \cup StagesOf(c)
    BY <1>0, <1>6, FirstPrepend DEF b
  <2>3. \A i \in DOMAIN b : b[i] \notin Plain
    BY <1>6, <2>2 DEF StagesOf, Plain
  <2> QED BY <1>0, <1>1, <1>6, <2>1, <2>3, FirstPrepend, ChainPrepend DEF b
<1>8. Follows("submit", "decrypt", First(b))
  BY <1>7 DEF Follows
<1>9. s \in Seq(StageName) /\ First(s) = "decrypt" /\ Chain(s, "submit")
  BY <1>0, <1>1, <1>5, <1>7, <1>8, FirstPrepend, ChainPrepend
<1> QED BY <1>9 DEF s

\* A locked memory, of a session that has started, with nothing under way.
Locked(m) ==
  ~m.unlocked /\ ~m.ready /\ m.launched /\ m.promise = 0 /\ m.pending = Absent

LEMMA OpenVaultLands ==
  ASSUME NEW u \in Proc, TypeOK, Steady, loc[u] \in LocType,
         NEW m \in MemType, Locked(m), NEW l \in LocType, l.op = "submit",
         l.flag = (store.vault # NoVault),
         l.flag => store.vault.pw = l.pw,
         UNCHANGED <<store, failures, saved>>, StoreFits(store, DueOnDisk),
         openVault(u, m, l), l.flag => UNCHANGED restore
  PROVE  AccountsInv(u)'
<1> DEFINE n == holdPassword(m, l.pw)
<1>1. n \in MemType /\ Locked(n)
  <2>1. n \in MemType
    BY MemOps DEF LocType
  <2> QED BY <2>1 DEF holdPassword, Locked, MemType
<1>2. CASE ~l.flag
  <2>1. setUnlocked(u, n, l)
    BY <1>2 DEF openVault
  <2>2. store.vault = NoVault /\ DueOnDisk = {}
    BY <1>2, NoVaultNothingDue
  <2> HIDE DEF n
  <2>3. /\ [n EXCEPT !.unlocked = TRUE].unlocked
        /\ [n EXCEPT !.unlocked = TRUE].ready = n.ready
        /\ [n EXCEPT !.unlocked = TRUE].pending = n.pending
    BY <1>1 DEF MemType
  <2>4. MemFits([n EXCEPT !.unlocked = TRUE], DueOnDisk, store)
    BY <1>1, <2>2, <2>3 DEF MemFits, Locked
  <2> QED BY <1>1, <2>1, <2>4, SetUnlockedLands DEF Locked
<1>3. CASE l.flag
  <2> DEFINE more == IF l.defer THEN <<"ready">> ELSE <<"display", "ready">>
             s == <<"decrypt", "sensitive", "public">> \o more
             k == [l EXCEPT !.key = store.vault.pw, !.ser = store.vault.krs]
             c == clearKeyrings(n)
             V == due(saved', failures')
  <2>1. store.vault # NoVault
    BY <1>3
  <2>2. Advance(u, c, k, s) /\ UNCHANGED restore
    BY <1>3, <2>1 DEF openVault, unlockKeyrings
  <2>3. more \in {<<"ready">>, <<"display", "ready">>}
    OBVIOUS
  <2> HIDE DEF more
  <2>4. s \in Seq(StageName) /\ First(s) = "decrypt" /\ Chain(s, "submit")
    BY <2>3, UnlockStages
  <2>5. store.vault.pw \in OptPassword /\ store.vault.krs \in Bag
    BY <2>1 DEF TypeOK, StoreType
  <2>6. /\ k \in LocType /\ k.op = "submit" /\ k.key = k.pw
        /\ k.ser = store.vault.krs
    BY <1>3, <2>5 DEF LocType
  <2>7. /\ c \in MemType /\ ~c.ready /\ ~c.unlocked /\ c.promise = 0
        /\ c.pending = Absent /\ c.launched
    <3>1. c \in MemType
      BY <1>1, MemOps DEF OptPassword
    <3> HIDE DEF n
    <3> QED
      BY <1>1, <3>1 DEF clearKeyrings, resetKeyringRuntimeState, MemType, Locked
  <2> HIDE DEF s, k, c, V
  <2>8. V = DueOnDisk
    BY DEF V, DueOnDisk
  <2>9. ~Pushed(s, k)
    BY <2>6 DEF Pushed
  <2>10. Due(saved', failures', s, k) = V
    BY <2>9, DueFacts DEF V
  <2>11. MemFits(c, V, store)
    BY <2>7 DEF MemFits
  <2>12. Mutates(s, c, k, store)
    BY <2>6, <2>7 DEF Mutates
  <2>13. Opens(s, c, k, left'[u], V, store)
    BY <2>1, <2>4, <2>6, <2>7 DEF Opens, Opening
  <2>14. Saves(s, c, k, V, store)
    BY <2>4 DEF Saves, Encrypts, Rewrites, Plain
  <2>15. PublicFits(s, c, k, left'[u], V, store, failures')
    BY <2>4, <2>6 DEF PublicFits, Opening
  <2>16. Rests(store', V, V, failures', s, c, k, left'[u])
    BY <2>4, <2>6, <2>8, <2>11, <2>12, <2>13, <2>14, <2>15 DEF Rests
  <2> QED
    BY <2>2, <2>4, <2>6, <2>7, <2>10, <2>16, LandingAt DEF V
<1> QED BY <1>2, <1>3

LEMMA VerifyAccounts ==
  ASSUME NEW u \in Proc, VaultInv(u), Standing(u), Steady, Verify(u)
  PROVE  AccountsInv(u)'
<1>1. At(u, "verify") /\ UNCHANGED <<store, left, failures, saved>>
  BY DEF Verify, Quiet, bounds
<1>2. First(todo[u]) = "verify" /\ May(loc[u].op, "verify") /\ todo[u] # <<>>
  BY <1>1, StageFacts
<1>3. loc[u].op = "submit"
  BY <1>2 DEF May, Saving, Plain, Shows
<1>4. RestsOf(u, store, todo[u], mem, loc[u], left[u])
  BY DEF Standing
<1>5. CASE loc[u].key # loc[u].pw
  <2>1. Throw(u, mem) /\ UNCHANGED restore
    BY <1>5 DEF Verify
  <2> QED BY <1>1, <1>2, <1>5, <2>1, ThrowAccounts DEF Opening
<1>6. CASE loc[u].key = loc[u].pw
  <2>1. openVault(u, mem, loc[u])
    BY <1>3, <1>6 DEF Verify
  <2>2. Locked(mem) /\ loc[u].flag = (store.vault # NoVault)
    BY <1>2, <1>3, <1>4 DEF RestsOf, Rests, Opens, MemFits, Mutates, Locked
  <2>3. loc[u].flag => store.vault.pw = loc[u].pw
    BY <1>1, <1>6, <2>2 DEF VaultInv, VaultOpens, Captured
  <2>4. loc[u].flag => UNCHANGED restore
    BY <2>1 DEF openVault
  <2>5. StoreFits(store, DueOnDisk)
    BY <1>4 DEF RestsOf, Rests
  <2> QED
    BY <1>1, <1>3, <2>1, <2>2, <2>3, <2>4, <2>5, OpenVaultLands DEF Standing
<1> QED BY <1>5, <1>6

LEMMA ReadyAccounts ==
  ASSUME NEW u \in Proc, Standing(u), Steady, Ready(u)
  PROVE  AccountsInv(u)'
<1> DEFINE m == markKeyringRuntimeReady(mem)
<1>1. At(u, "ready") /\ UNCHANGED <<store, left, failures, saved>>
  BY DEF Ready, Quiet, bounds
<1>2. First(todo[u]) = "ready" /\ May(loc[u].op, "ready") /\ todo[u] # <<>>
  BY <1>1, StageFacts
<1>3. loc[u].op = "submit"
  BY <1>2 DEF May, Saving, Plain, Shows
<1>4. RestsOf(u, store, todo[u], mem, loc[u], left[u])
  BY DEF Standing
<1>5. setUnlocked(u, m, loc[u])
  BY <1>3 DEF Ready
<1>6. /\ m \in MemType /\ m.ready /\ m.promise = 0 /\ m.keyrings = mem.keyrings
      /\ m.launched = mem.launched
  <2>1. m \in MemType
    BY MemOps DEF OptPassword, Standing
  <2> QED BY <2>1 DEF markKeyringRuntimeReady, MemType, Standing
<1> HIDE DEF m
<1>7. DueIn(u) \subseteq Members(mem.keyrings) /\ mem.launched
      /\ StoreFits(store, DueOnDisk)
  BY <1>2, <1>3, <1>4 DEF RestsOf, Rests, Opens, Mutates
<1>8. /\ [m EXCEPT !.unlocked = TRUE].unlocked
      /\ [m EXCEPT !.unlocked = TRUE].ready
      /\ [m EXCEPT !.unlocked = TRUE].keyrings = m.keyrings
  BY <1>6 DEF MemType
<1>9. MemFits([m EXCEPT !.unlocked = TRUE], DueOnDisk, store)
  BY <1>6, <1>7, <1>8 DEF MemFits, Standing
<1> QED BY <1>1, <1>3, <1>5, <1>6, <1>7, <1>9, SetUnlockedLands DEF Standing

LEMMA DecryptAccounts ==
  ASSUME NEW u \in Proc, Standing(u), Steady, Decrypt(u)
  PROVE  AccountsInv(u)'
<1> DEFINE s == Rest(u)
           l == loc[u]
           toRestore == IF store.unenc = Absent THEN l.ser ELSE Keep(l.ser, Sensitive)
           pub == OrNothing(store.unenc)
           k == [l EXCEPT !.list = pub]
           r == [data |-> toRestore, pub |-> pub]
           m == [mem EXCEPT !.pending = r,
                            !.ready = FALSE, !.restoring = FALSE, !.failed = FALSE]
<1>1. At(u, "decrypt") /\ UNCHANGED <<store, failures, saved>>
  BY DEF Decrypt, bounds
<1>2. /\ First(todo[u]) = "decrypt" /\ todo[u] # <<>>
      /\ s \in Seq(StageName) /\ Chain(s, l.op) /\ May(l.op, "decrypt")
      /\ First(s) = "sensitive"
  <2>1. \A y : Follows(l.op, "decrypt", y) => y = "sensitive"
    BY DEF Follows, Shows
  <2> QED BY <1>1, <2>1, StageFacts
<1>3. l.op = "submit"
  BY <1>2 DEF May, Saving, Plain, Shows
<1>4. RestsOf(u, store, todo[u], mem, l, left[u])
  BY DEF Standing
<1>5. Locked(mem) /\ StoreFits(store, DueOnDisk)
  BY <1>2, <1>3, <1>4 DEF RestsOf, Rests, Opens, MemFits, Mutates, Locked, Opening
<1>6. store.vault # NoVault /\ l.ser = store.vault.krs /\ l.key = l.pw
  BY <1>2, <1>4 DEF RestsOf, Rests, Opens
<1>7. \A t, n : n.op = "submit" => ~Pushed(t, n)
  BY DEF Pushed
<1>8. DueIn(u) = DueOnDisk
  BY <1>3, <1>7, DueFacts DEF DueIn, DueOnDisk
<1>9. l.ser \in Bag /\ pub \in Bag /\ toRestore \in Bag
  <2>1. l.ser \in Bag /\ TypeOK
    BY DEF Standing, LocType
  <2> QED BY <2>1, BagOps, OrNothingType
<1>10. DueIn(u) \subseteq Members(toRestore) \cup Members(pub)
  <2>1. DueIn(u) \subseteq Recoverable(store)
    BY <1>5, <1>8 DEF StoreFits
  <2>2. CASE store.unenc = Absent
    BY <1>6, <2>1, <2>2 DEF Recoverable
  <2>3. CASE store.unenc # Absent
    <3>1. toRestore = Keep(l.ser, Sensitive) /\ pub = store.unenc
      BY <2>3 DEF OrNothing
    <3>2. Members(toRestore) = Members(l.ser) \cap Sensitive
      BY <1>9, <3>1, MembersOf
    <3> HIDE DEF toRestore, pub
    <3> QED BY <1>6, <2>1, <2>3, <3>1, <3>2 DEF Recoverable
  <2> QED BY <2>2, <2>3
<1>11. CASE l.defer /\ store.snap # {}
  <2>1. setUnlocked(u, m, l)
    BY <1>3, <1>6, <1>11 DEF Decrypt
  <2>2. r \in Pending /\ r.data = toRestore /\ r.pub = pub
    BY <1>9 DEF Pending
  <2>3. r # Absent
    BY <2>2, AbsenceAssumption DEF AbsenceAssumption
  <2> HIDE DEF r
  <2>4. /\ m \in MemType /\ m.launched /\ m.promise = 0
        /\ m.pending = r /\ ~m.ready
    BY <1>5, <2>2 DEF Standing, MemType, Locked
  <2> HIDE DEF m
  <2>5. /\ [m EXCEPT !.unlocked = TRUE].unlocked
        /\ [m EXCEPT !.unlocked = TRUE].ready = m.ready
        /\ [m EXCEPT !.unlocked = TRUE].pending = m.pending
    BY <2>4 DEF MemType
  <2>6. MemFits([m EXCEPT !.unlocked = TRUE], DueOnDisk, store)
    BY <1>8, <1>10, <2>2, <2>3, <2>4, <2>5 DEF MemFits, Owed
  <2> QED
    BY <1>1, <1>3, <1>5, <2>1, <2>4, <2>6, SetUnlockedLands DEF Standing
<1>12. CASE ~(l.defer /\ store.snap # {})
  <2>1. /\ left' = [left EXCEPT ![u] = toRestore]
        /\ Advance(u, mem, k, s) /\ UNCHANGED restore
    BY <1>3, <1>6, <1>12 DEF Decrypt
  <2>2. left'[u] = toRestore
    BY <2>1 DEF Standing, TypeOK
  <2>3. k \in LocType /\ k.op = "submit" /\ k.list = pub
    BY <1>3, <1>9 DEF Standing, LocType
  <2> HIDE DEF k, s, toRestore, pub
  <2>4. Mutates(s, mem, k, store)
    BY <1>2, <1>4, <2>3 DEF RestsOf, Rests, Mutates
  <2>5. Opens(s, mem, k, left'[u], DueIn(u), store)
    BY <1>2, <1>4, <1>5, <1>10, <2>2, <2>3 DEF RestsOf, Rests, Opens, Opening, Locked
  <2>6. Saves(s, mem, k, DueIn(u), store)
    BY <1>2 DEF Saves, Encrypts, Rewrites, Plain
  <2>7. PublicFits(s, mem, k, left'[u], DueIn(u), store, failures)
    BY <1>2, <2>3 DEF PublicFits, Opening
  <2>8. RestsOf(u, store', s, mem, k, left'[u])
    BY <1>1, <1>2, <1>3, <1>4, <2>3, <2>4, <2>5, <2>6, <2>7 DEF RestsOf, Rests
  <2> QED
    BY <1>1, <1>2, <1>7, <2>1, <2>3, <2>8, Landing DEF Standing, Steady
<1> QED BY <1>11, <1>12

\* submitPassword, called by the screens or by the launch.
LEMMA SubmitLands ==
  ASSUME NEW u \in Proc, VaultInv(u), Standing(u), Steady,
         UNCHANGED <<store, left, failures, saved>>, ~mem.unlocked, mem.launched,
         \/ todo[u] = <<>>
         \/ First(todo[u]) = "launch" /\ loc[u].op = "launch",
         NEW pw \in Password, NEW trusted \in BOOLEAN, NEW defer \in BOOLEAN,
         trusted \/ First(todo[u]) = "launch" => pw = store.booted,
         submitPassword(u, pw, trusted, defer)
  PROVE  AccountsInv(u)'
<1> DEFINE l == [Idle EXCEPT !.op = "submit", !.pw = pw, !.key = store.booted,
                             !.flag = store.vault # NoVault, !.defer = defer]
           m == [mem EXCEPT !.submitting = TRUE]
           s == <<"verify">>
<1>1. RestsOf(u, store, todo[u], mem, loc[u], left[u])
  BY DEF Standing
<1>2. l \in LocType /\ l.op = "submit" /\ l.key = store.booted /\ l.pw = pw
      /\ l.flag = (store.vault # NoVault)
  <2>1. pw \in OptPassword /\ store.booted \in OptPassword
    BY DEF Standing, StoreType, OptPassword
  <2>2. l \in LocType
    BY <2>1, IdleType DEF LocType, OpName
  <2>3. /\ l.op = "submit" /\ l.key = store.booted /\ l.pw = pw
        /\ l.flag = (store.vault # NoVault)
    BY DEF Idle
  <2> QED BY <2>2, <2>3
<1>3. Locked(mem) /\ StoreFits(store, DueOnDisk)
  BY <1>1 DEF RestsOf, Rests, MemFits, Locked
<1>4. m \in MemType /\ m.submitting /\ Locked(m) /\ m.keyrings = mem.keyrings
  BY <1>3 DEF Standing, MemType, Locked
<1>5. \/ mem.submitting /\ Throw(u, mem) /\ UNCHANGED restore
      \/ ~mem.submitting /\ trusted /\ l.flag /\ openVault(u, m, l)
      \/ ~mem.submitting /\ store.booted = NoPassword /\ Throw(u, mem)
         /\ UNCHANGED restore
      \/ Advance(u, m, l, s) /\ UNCHANGED restore
  BY DEF submitPassword
<1> HIDE DEF l, m, s
<1>6. First(todo[u]) \in {"end", "launch"}
  BY FirstStages
<1>7. DueIn(u) = DueOnDisk
  <2>1. ~Pushed(todo[u], loc[u])
    BY <1>6 DEF Pushed, Saving, Plain, Shows
  <2> QED BY <2>1, DueFacts DEF DueIn, DueOnDisk
<1>8. First(todo[u]) = "launch" => ~mem.submitting
  BY <1>1 DEF RestsOf, Rests, Opens
<1>9. CASE Throw(u, mem) /\ UNCHANGED restore /\ First(todo[u]) = "end"
  BY <1>9, ThrowAccounts DEF Opening
<1>10. CASE trusted /\ l.flag /\ openVault(u, m, l)
  <2>1. l.flag => store.vault.pw = l.pw
    BY <1>2, <1>10 DEF VaultInv, VaultOpens
  <2>2. UNCHANGED restore
    BY <1>10 DEF openVault
  <2> QED
    BY <1>2, <1>3, <1>4, <1>10, <2>1, <2>2, OpenVaultLands DEF Standing
<1>11. CASE Advance(u, m, l, s) /\ UNCHANGED restore
  <2>1. s \in Seq(StageName) /\ First(s) = "verify" /\ Chain(s, l.op)
    <3>1. "verify" \in StageName /\ May("submit", "verify")
          /\ Follows("submit", "verify", "end")
      BY DEF StageName, May, Follows
    <3> QED BY <1>2, <3>1, OneStage DEF s
  <2>2. MemFits(m, DueIn(u), store)
    BY <1>4 DEF MemFits, Locked
  <2>3. Mutates(s, m, l, store)
    BY <1>2, <1>4 DEF Mutates, Locked
  <2>4. Opens(s, m, l, left[u], DueIn(u), store)
    BY <1>2, <1>4, <2>1 DEF Opens, Opening, Locked
  <2>5. Saves(s, m, l, DueIn(u), store)
    BY <2>1 DEF Saves, Encrypts, Rewrites, Plain
  <2>6. PublicFits(s, m, l, left[u], DueIn(u), store, failures)
    <3>1. CASE First(todo[u]) = "launch"
      BY <1>2, <2>1, <3>1 DEF PublicFits
    <3>2. CASE First(todo[u]) = "end"
      BY <1>1, <1>3, <1>4, <2>1, <3>2
         DEF RestsOf, Rests, PublicFits, Opening, Locked
    <3> QED BY <1>6, <3>1, <3>2
  <2>7. RestsOf(u, store', s, m, l, left'[u])
    BY <1>1, <2>1, <2>2, <2>3, <2>4, <2>5, <2>6 DEF RestsOf, Rests
  <2>8. ~Pushed(s, l)
    BY <1>2 DEF Pushed
  <2> QED BY <1>4, <1>2, <1>11, <2>1, <2>7, <2>8, Landing DEF Locked
<1>12. First(todo[u]) = "launch" => store.booted # NoPassword
  BY KeyringServiceAssumption DEF KeyringServiceAssumption
<1> QED BY <1>5, <1>6, <1>8, <1>9, <1>10, <1>11, <1>12

LEMMA LaunchChoiceAccounts ==
  ASSUME NEW u \in Proc, VaultInv(u), Standing(u), Steady, LaunchChoice(u)
  PROVE  AccountsInv(u)'
<1>1. At(u, "launch") /\ UNCHANGED <<store, failures, saved>>
  BY DEF LaunchChoice, bounds
<1>2. /\ First(todo[u]) = "launch" /\ todo[u] # <<>> /\ May(loc[u].op, "launch")
  BY <1>1, StageFacts
<1>3. loc[u].op = "launch"
  BY <1>2 DEF May, Saving, Plain, Shows, Opening
<1>4. RestsOf(u, store, todo[u], mem, loc[u], left[u])
  BY DEF Standing
<1>5. mem.launched /\ ~mem.submitting /\ StoreFits(store, DueOnDisk)
      /\ MemFits(mem, DueIn(u), store)
  BY <1>2, <1>4 DEF RestsOf, Rests, Opens, Mutates
<1>6. DueIn(u) = DueOnDisk
  <2>1. ~Pushed(todo[u], loc[u])
    BY <1>3 DEF Pushed
  <2> QED BY <2>1, DueFacts DEF DueIn, DueOnDisk
<1>7. CASE store.booted = BuiltIn /\ ~mem.unlocked
  <2>1. submitPassword(u, BuiltIn, FALSE, FALSE) /\ UNCHANGED left
    BY <1>7 DEF LaunchChoice
  <2>2. BuiltIn \in Password
    BY KeyringServiceAssumption DEF KeyringServiceAssumption
  <2> QED BY <1>1, <1>2, <1>3, <1>5, <1>7, <2>1, <2>2, SubmitLands
<1>8. CASE ~(store.booted = BuiltIn /\ ~mem.unlocked)
           /\ (mem.unlocked \/ store.unenc = Absent)
  <2>1. Advance(u, mem, loc[u], <<>>) /\ UNCHANGED <<restore, left>>
    BY <1>8 DEF LaunchChoice
  <2> QED BY <1>1, <1>5, <1>8, <2>1, Ending DEF Standing, Steady
<1>9. CASE ~mem.unlocked /\ store.unenc # Absent /\ store.booted # BuiltIn
  <2> DEFINE s == <<"public", "display">>
             m == [mem EXCEPT !.keyrings = Keep(@, Sensitive)]
  <2>1. /\ UNCHANGED restore /\ left' = [left EXCEPT ![u] = store.unenc]
        /\ Advance(u, m, loc[u], s)
    BY <1>9 DEF LaunchChoice
  <2>2. left'[u] = store.unenc
    BY <2>1 DEF Standing, TypeOK
  <2>3. m \in MemType /\ Locked(m) /\ ~m.submitting
    <3>1. mem.keyrings \in Bag /\ mem \in MemType
      BY DEF Standing, MemType
    <3>2. Keep(mem.keyrings, Sensitive) \in Bag
      BY <3>1, BagOps
    <3> QED BY <1>5, <1>9, <3>1, <3>2 DEF MemType, Locked, MemFits
  <2>4. s \in Seq(StageName) /\ First(s) = "public" /\ Chain(s, "launch")
    <3>1. /\ "public" \in StageName /\ "display" \in StageName
          /\ May("launch", "public") /\ May("launch", "display")
          /\ Follows("launch", "public", "display")
          /\ Follows("launch", "display", "end")
      BY DEF StageName, May, Follows, Shows
    <3>2. /\ <<"display">> \in Seq(StageName) /\ First(<<"display">>) = "display"
          /\ Chain(<<"display">>, "launch")
          /\ \A i \in DOMAIN <<"display">> : <<"display">>[i] \notin Plain
      BY <3>1, OneStage DEF Plain
    <3>3. /\ <<"public">> \o <<"display">> \in Seq(StageName)
          /\ First(<<"public">> \o <<"display">>) = "public"
          /\ Chain(<<"public">> \o <<"display">>, "launch")
      BY <3>1, <3>2, FirstPrepend, ChainPrepend
    <3>4. s = <<"public">> \o <<"display">>
      BY Pair
    <3> HIDE DEF s
    <3> QED BY <3>3, <3>4
  <2> HIDE DEF s, m
  <2>5. MemFits(m, DueIn(u), store)
    BY <2>3 DEF MemFits, Locked
  <2>6. Mutates(s, m, loc[u], store)
    BY <1>3, <2>3 DEF Mutates, Locked
  <2>7. Opens(s, m, loc[u], left'[u], DueIn(u), store)
    BY <1>3, <2>3, <2>4 DEF Opens
  <2>8. Saves(s, m, loc[u], DueIn(u), store)
    BY <2>4 DEF Saves, Encrypts, Rewrites, Plain
  <2>9. PublicFits(s, m, loc[u], left'[u], DueIn(u), store, failures)
    <3>1. DueIn(u) \subseteq Recoverable(store)
      BY <1>5, <1>6 DEF StoreFits
    <3>2. Sensitive \cap Public = {}
      BY KeyringServiceAssumption DEF KeyringServiceAssumption
    <3> QED BY <1>9, <2>2, <2>4, <3>1, <3>2 DEF PublicFits, Recoverable
  <2>10. RestsOf(u, store', s, m, loc[u], left'[u])
    BY <1>1, <1>3, <1>4, <2>4, <2>5, <2>6, <2>7, <2>8, <2>9 DEF RestsOf, Rests
  <2>11. ~Pushed(s, loc[u]) /\ m.promise = 0 /\ First(s) # "join"
    BY <1>3, <2>3, <2>4 DEF Pushed, Locked
  <2>12. UNCHANGED <<restore, failures>> /\ saved' \subseteq saved /\ loc[u] \in LocType
    BY <1>1, <2>1 DEF Standing
  <2> QED BY <2>1, <2>3, <2>4, <2>10, <2>11, <2>12, Landing
<1> QED BY <1>7, <1>8, <1>9

-----------------------------------------------------------------------------
(* Operations begin.                                                       *)

\* A caller with nothing to do.
LEMMA IdleFacts ==
  ASSUME NEW u \in Proc, Standing(u), AccountsInv(u), todo[u] = <<>>
  PROVE  /\ First(todo[u]) = "end" /\ ~Pushed(todo[u], loc[u]) /\ Steady
         /\ DueIn(u) = DueOnDisk
<1>1. First(todo[u]) = "end"
  BY FirstStages
<1>2. ~At(u, "join")
  BY DEF At
<1>3. ~Pushed(todo[u], loc[u])
  BY <1>1 DEF Pushed, Saving, Plain, Shows
<1> QED BY <1>1, <1>2, <1>3, SteadyFacts, DueFacts DEF DueIn, DueOnDisk

LEMMA LaunchAccounts ==
  ASSUME NEW u \in Proc, Standing(u), AccountsInv(u), Launch(u)
  PROVE  AccountsInv(u)'
<1> DEFINE l == [Idle EXCEPT !.op = "launch", !.pw = BuiltIn]
           m == [mem EXCEPT !.launched = TRUE]
           n == [m EXCEPT !.password = BuiltIn]
<1>1. /\ todo[u] = <<>> /\ ~mem.launched
      /\ UNCHANGED <<store, left, restore, failures, saved>>
      /\ \/ Advance(u, n, l, <<"boot", "launch">>)
         \/ Advance(u, m, l, <<"launch">>)
  BY DEF Launch, Begin
<1>2. First(todo[u]) = "end" /\ Steady
  BY <1>1, IdleFacts
<1>3. l \in LocType /\ l.op = "launch"
  <2>1. BuiltIn \in OptPassword
    BY KeyringServiceAssumption DEF KeyringServiceAssumption, OptPassword
  <2>2. l \in LocType
    BY <2>1, IdleType DEF LocType, OpName
  <2>3. l.op = "launch"
    BY DEF Idle
  <2> QED BY <2>2, <2>3
<1>4. RestsOf(u, store, todo[u], mem, loc[u], left[u])
  BY DEF Standing
<1>5. ~mem.submitting
  BY <1>1, <1>4 DEF RestsOf, Rests, Opens
<1>6. PICK g \in MemType, s \in {<<"boot", "launch">>, <<"launch">>} :
        /\ Advance(u, g, l, s) /\ g.launched /\ ~g.submitting
        /\ g.ready = mem.ready /\ g.unlocked = mem.unlocked
        /\ g.keyrings = mem.keyrings /\ g.promise = mem.promise
        /\ g.pending = mem.pending
  <2>1. m \in MemType /\ n \in MemType
    BY KeyringServiceAssumption
       DEF KeyringServiceAssumption, Standing, MemType, OptPassword
  <2>2. \A g \in {m, n} :
          /\ g.launched /\ ~g.submitting
          /\ g.ready = mem.ready /\ g.unlocked = mem.unlocked
          /\ g.keyrings = mem.keyrings /\ g.promise = mem.promise
          /\ g.pending = mem.pending
    BY <1>5 DEF Standing, MemType
  <2> HIDE DEF l, m, n
  <2> QED BY <1>1, <2>1, <2>2
<1> HIDE DEF l, m, n
<1>7. s \in Seq(StageName) /\ First(s) \in {"boot", "launch"} /\ Chain(s, "launch")
  <2>1. /\ "boot" \in StageName /\ "launch" \in StageName
        /\ May("launch", "boot") /\ May("launch", "launch")
        /\ Follows("launch", "boot", "launch") /\ Follows("launch", "launch", "end")
    BY DEF StageName, May, Follows
  <2>2. /\ <<"launch">> \in Seq(StageName) /\ First(<<"launch">>) = "launch"
        /\ Chain(<<"launch">>, "launch")
        /\ \A i \in DOMAIN <<"launch">> : <<"launch">>[i] \notin Plain
    BY <2>1, OneStage DEF Plain
  <2>3. /\ <<"boot">> \o <<"launch">> \in Seq(StageName)
        /\ First(<<"boot">> \o <<"launch">>) = "boot"
        /\ Chain(<<"boot">> \o <<"launch">>, "launch")
    BY <2>1, <2>2, FirstPrepend, ChainPrepend
  <2>4. <<"boot", "launch">> = <<"boot">> \o <<"launch">>
    BY Pair, Zenon
  <2>5. CASE s = <<"launch">>
    BY <2>2, <2>5
  <2>6. CASE s = <<"boot", "launch">>
    <3>1. s = <<"boot">> \o <<"launch">>
      BY <2>4, <2>6, Zenon
    <3> QED BY <2>3, <3>1
  <2> QED BY <2>5, <2>6
<1>8. MemFits(g, DueIn(u), store)
  BY <1>4, <1>6 DEF RestsOf, Rests, MemFits
<1>9. Mutates(s, g, l, store)
  BY <1>3, <1>6 DEF Mutates
<1>10. Opens(s, g, l, left[u], DueIn(u), store)
  BY <1>3, <1>6, <1>7 DEF Opens
<1>11. Saves(s, g, l, DueIn(u), store)
  BY <1>7 DEF Saves, Encrypts, Rewrites, Plain
<1>12. PublicFits(s, g, l, left[u], DueIn(u), store, failures)
  BY <1>7 DEF PublicFits
<1>13. RestsOf(u, store', s, g, l, left'[u])
  BY <1>1, <1>3, <1>4, <1>7, <1>8, <1>9, <1>10, <1>11, <1>12 DEF RestsOf, Rests
<1>14. ~Pushed(s, l) /\ First(s) # "join" /\ g.promise = 0
  BY <1>2, <1>3, <1>6, <1>7 DEF Pushed, Steady
<1>15. UNCHANGED <<restore, failures>> /\ saved' \subseteq saved
  BY <1>1
<1> QED BY <1>2, <1>3, <1>6, <1>7, <1>13, <1>14, <1>15, Landing

LEMMA SubmitAccounts ==
  ASSUME NEW u \in Proc, VaultInv(u), Standing(u), AccountsInv(u), Screened,
         SubmitPassword(u)
  PROVE  AccountsInv(u)'
<1>1. PICK pw \in Password, trusted, defer \in BOOLEAN :
        /\ todo[u] = <<>> /\ mem.launched
        /\ UNCHANGED <<store, left, failures, saved>>
        /\ ~mem.unlocked /\ (trusted => pw = store.booted)
        /\ submitPassword(u, pw, trusted, defer)
  BY DEF SubmitPassword, Begin
<1>2. First(todo[u]) = "end" /\ Steady
  BY <1>1, IdleFacts
<1>3. trusted \/ First(todo[u]) = "launch" => pw = store.booted
  BY <1>1, <1>2
<1> QED BY <1>1, <1>2, <1>3, SubmitLands

LEMMA SetLockedAccounts ==
  ASSUME NEW u \in Proc, Standing(u), AccountsInv(u), SetLocked(u)
  PROVE  AccountsInv(u)'
<1> DEFINE m == lockRuntime(mem)
           l == [Idle EXCEPT !.op = "lock"]
           k == [l EXCEPT !.list = m.keyrings]
<1>1. /\ todo[u] = <<>> /\ mem.launched
      /\ UNCHANGED <<store, restore, failures, saved>>
      /\ \/ /\ store.unenc = Absent /\ UNCHANGED left
            /\ Advance(u, m, k, <<"show">> \o <<>>)
         \/ /\ store.unenc # Absent /\ left' = [left EXCEPT ![u] = store.unenc]
            /\ Advance(u, m, l, <<"public", "display", "display">>)
  BY DEF SetLocked, Begin, updateMemStoreKeyrings
<1>2. First(todo[u]) = "end" /\ Steady /\ DueIn(u) = DueOnDisk
  BY <1>1, IdleFacts
<1>3. RestsOf(u, store, todo[u], mem, loc[u], left[u])
  BY DEF Standing
<1>4. /\ m \in MemType /\ ~m.unlocked /\ ~m.ready /\ m.promise = 0
      /\ m.pending = Absent /\ m.launched = mem.launched
      /\ m.submitting = mem.submitting /\ m.keyrings = Nothing
  <2>1. m \in MemType
    BY MemOps DEF OptPassword, Standing
  <2> QED BY <2>1 DEF lockRuntime, resetKeyringRuntimeState, MemType, Standing
<1>5. l \in LocType /\ l.op = "lock" /\ k \in LocType /\ k.op = "lock"
  <2>1. l \in LocType
    BY IdleType DEF LocType, OpName
  <2>2. m.keyrings \in Bag
    BY <1>4 DEF MemType
  <2> HIDE DEF m
  <2>3. k \in LocType
    <3> HIDE DEF l
    <3> QED BY <2>1, <2>2 DEF LocType
  <2>4. l.op = "lock" /\ k.op = "lock"
    BY DEF Idle
  <2> QED BY <2>1, <2>3, <2>4
<1> HIDE DEF m, l, k
<1>6. MemFits(m, DueIn(u), store)
  BY <1>4 DEF MemFits
<1>7. ASSUME NEW s \in Seq(StageName), NEW n \in LocType, n.op = "lock",
             First(s) \in {"show", "public"}, Chain(s, "lock"),
             Advance(u, m, n, s),
             store.unenc # Absent =>
               First(s) = "public" /\ left'[u] = store.unenc
      PROVE  AccountsInv(u)'
  <2>1. Mutates(s, m, n, store)
    BY <1>1, <1>4, <1>7 DEF Mutates
  <2>2. Opens(s, m, n, left'[u], DueIn(u), store)
    BY <1>1, <1>4, <1>7 DEF Opens
  <2>3. Saves(s, m, n, DueIn(u), store)
    BY <1>7 DEF Saves, Encrypts, Rewrites, Plain
  <2>4. PublicFits(s, m, n, left'[u], DueIn(u), store, failures)
    <3>1. DueIn(u) \subseteq Recoverable(store)
      BY <1>2, <1>3 DEF RestsOf, Rests, StoreFits
    <3>2. Sensitive \cap Public = {}
      BY KeyringServiceAssumption DEF KeyringServiceAssumption
    <3> QED BY <1>7, <3>1, <3>2 DEF PublicFits, Recoverable
  <2>5. RestsOf(u, store', s, m, n, left'[u])
    BY <1>1, <1>3, <1>6, <1>7, <2>1, <2>2, <2>3, <2>4 DEF RestsOf, Rests
  <2>6. ~Pushed(s, n) /\ First(s) # "join"
    BY <1>7 DEF Pushed
  <2>7. UNCHANGED <<restore, failures>> /\ saved' \subseteq saved
    BY <1>1
  <2> QED BY <1>2, <1>4, <1>7, <2>5, <2>6, <2>7, Landing
<1>8. CASE store.unenc = Absent
  <2>1. <<"show">> \o <<>> = <<"show">>
    OBVIOUS
  <2>2. "show" \in StageName /\ May("lock", "show") /\ Follows("lock", "show", "end")
    BY DEF StageName, May, Follows, Shows
  <2>3. /\ <<"show">> \in Seq(StageName) /\ First(<<"show">>) = "show"
        /\ Chain(<<"show">>, "lock")
    BY <2>2, OneStage
  <2>4. Advance(u, m, k, <<"show">>)
    BY <1>1, <1>8, <2>1
  <2> QED BY <1>5, <1>7, <1>8, <2>3, <2>4
<1>9. CASE store.unenc # Absent
  <2> DEFINE a == <<"display">>
             b == <<"display">> \o a
             c == <<"public">> \o b
  <2>1. /\ "public" \in StageName /\ "display" \in StageName
        /\ May("lock", "public") /\ May("lock", "display")
        /\ Follows("lock", "public", "display")
        /\ Follows("lock", "display", "display") /\ Follows("lock", "display", "end")
    BY DEF StageName, May, Follows, Shows
  <2>2. /\ a \in Seq(StageName) /\ First(a) = "display" /\ Chain(a, "lock")
        /\ \A i \in DOMAIN a : a[i] \notin Plain
    BY <2>1, OneStage DEF Plain
  <2>3. c = <<"public", "display", "display">>
    <3>1. b = <<"display", "display">>
      BY Pair, Zenon
    <3> HIDE DEF b
    <3> QED BY <3>1, Triple, Zenon
  <2> HIDE DEF a
  <2>4. /\ b \in Seq(StageName) /\ First(b) = "display" /\ Chain(b, "lock")
        /\ \A i \in DOMAIN b : b[i] \notin Plain
    <3>1. \A i \in DOMAIN b : b[i] \in {"display"} \cup StagesOf(a)
      BY <2>1, <2>2, FirstPrepend
    <3>2. \A i \in DOMAIN b : b[i] \notin Plain
      BY <2>2, <3>1 DEF StagesOf, Plain
    <3> QED BY <2>1, <2>2, <3>2, FirstPrepend, ChainPrepend
  <2> HIDE DEF b
  <2>5. c \in Seq(StageName) /\ First(c) = "public" /\ Chain(c, "lock")
    BY <2>1, <2>4, FirstPrepend, ChainPrepend
  <2>6. left'[u] = store.unenc
    BY <1>1, <1>9 DEF Standing, TypeOK
  <2>7. Advance(u, m, l, c)
    BY <1>1, <1>9, <2>3
  <2> HIDE DEF c
  <2> QED BY <1>5, <1>7, <1>9, <2>5, <2>6, <2>7
<1> QED BY <1>8, <1>9

\* A mutation that a screen offers, waiting for the runtime or not.
LEMMA OfferLands ==
  ASSUME NEW u \in Proc, Standing(u), AccountsInv(u), todo[u] = <<>>, mem.launched,
         UNCHANGED <<store, left, failures, saved>>,
         NEW l \in LocType, l.op \in {"add", "remove"}, l.kr \in Keyring,
         offered(l.kr), NEW s \in Seq(StageName), Chain(s, l.op),
         First(s) \in {"assert", "remove"}, \A i \in DOMAIN s : s[i] \notin Plain,
         \/ ensureKeyringRuntimeReady(u, mem, l, s) /\ mem.unlocked
         \/ Advance(u, mem, l, s) /\ UNCHANGED restore
  PROVE  AccountsInv(u)'
<1>1. First(todo[u]) = "end" /\ Steady /\ DueIn(u) = DueOnDisk
  BY IdleFacts
<1>2. RestsOf(u, store, todo[u], mem, loc[u], left[u])
  BY DEF Standing
<1>3. l.kr \in Sensitive => mem.unlocked
  BY KeyringServiceAssumption DEF KeyringServiceAssumption, offered
<1>4. ~mem.unlocked => store.unenc # Absent
  BY <1>2 DEF offered, RestsOf, Rests, StoreFits
<1>5. /\ "join" \in StageName
      /\ First(<<"join">> \o s) = "join" /\ Second(<<"join">> \o s) = First(s)
  <2>1. "join" \in StageName
    BY DEF StageName
  <2> QED BY <2>1, FirstPrepend
<1>6. ~Pushed(s, l) /\ ~Pushed(<<"join">> \o s, l)
  BY <1>5 DEF Pushed, Saving, Plain, Shows
<1>7. CASE ensureKeyringRuntimeReady(u, mem, l, s) /\ mem.unlocked
  <2>1. May(l.op, "join") /\ Follows(l.op, "join", First(s))
    BY DEF May, Follows
  <2>2. Bounds(DueIn(u), s, l)
    <3>1. due(saved', failures') = DueOnDisk
      BY DEF DueOnDisk
    <3> QED BY <1>1, <1>6, <3>1, DueFacts DEF Bounds
  <2>3. StoreFits(store', due(saved', failures')) /\ MemFits(mem, DueIn(u), store')
    BY <1>2 DEF RestsOf, Rests, DueOnDisk
  <2>4. store'.vault = NoVault => DueIn(u) \subseteq Members(mem.keyrings)
    BY <1>1, <1>2, NoVaultNothingDue DEF RestsOf, Rests
  <2>5. MayWait(mem, l, s, DueIn(u))
    BY <1>1, <1>7, <2>1, <2>3, <2>4 DEF MayWait, Steady
  <2> QED BY <1>1, <1>7, <2>2, <2>5, EnsureLands DEF Standing
<1>8. CASE Advance(u, mem, l, s) /\ UNCHANGED restore
  <2>1. Mutates(s, mem, l, store)
    BY <1>3, <1>4 DEF Mutates
  <2>2. Opens(s, mem, l, left[u], DueIn(u), store)
    BY DEF Opens
  <2>3. Saves(s, mem, l, DueIn(u), store)
    BY DEF Saves, Encrypts, Rewrites, Plain
  <2>4. PublicFits(s, mem, l, left[u], DueIn(u), store, failures)
    BY <1>1, <1>2 DEF RestsOf, Rests, PublicFits, Opening
  <2>5. RestsOf(u, store', s, mem, l, left'[u])
    BY <1>2, <2>1, <2>2, <2>3, <2>4 DEF RestsOf, Rests
  <2>6. First(s) # "join" /\ saved' \subseteq saved /\ UNCHANGED <<restore, failures>>
    BY <1>8
  <2> QED BY <1>1, <1>6, <1>8, <2>5, <2>6, Landing DEF Standing, Steady
<1> QED BY <1>7, <1>8

\* One more stage in front of a chain without plain writes.
LEMMA PrependMore ==
  ASSUME NEW x \in StageName, NEW s \in Seq(StageName), NEW op, Chain(s, op),
         May(op, x), Follows(op, x, First(s)), x \notin Plain,
         StagesOf(s) \cap Plain = {}
  PROVE  /\ <<x>> \o s \in Seq(StageName) /\ First(<<x>> \o s) = x
         /\ Chain(<<x>> \o s, op) /\ StagesOf(<<x>> \o s) \cap Plain = {}
<1>1. \A i \in DOMAIN s : s[i] \notin Plain
  BY DEF StagesOf
<1>2. StagesOf(<<x>> \o s) \subseteq {x} \cup StagesOf(s)
  BY StagesOfPrepend
<1> QED BY <1>1, <1>2, FirstPrepend, ChainPrepend

\* The values an operation that changes the accounts starts with.
LEMMA MutationStart ==
  ASSUME NEW k \in Keyring
  PROVE  \A op \in {"add", "remove"} :
           LET l == [Idle EXCEPT !.op = op, !.kr = k]
           IN  l \in LocType /\ l.op = op /\ l.kr = k
<1> SUFFICES ASSUME NEW op \in {"add", "remove"}
             PROVE  LET l == [Idle EXCEPT !.op = op, !.kr = k]
                    IN  l \in LocType /\ l.op = op /\ l.kr = k
  OBVIOUS
<1>1. [Idle EXCEPT !.op = op, !.kr = k] \in LocType
  BY IdleType DEF LocType, OpName
<1>2. /\ [Idle EXCEPT !.op = op, !.kr = k].op = op
      /\ [Idle EXCEPT !.op = op, !.kr = k].kr = k
  BY DEF Idle
<1> QED BY <1>1, <1>2

LEMMA AddKeyringAccounts ==
  ASSUME NEW u \in Proc, Standing(u), AccountsInv(u), Screened, AddKeyring(u)
  PROVE  AccountsInv(u)'
<1> DEFINE e == <<"acknowledge">>
           d == <<"display">> \o e
           c == <<"push">> \o d
           b == <<"duplicate">> \o c
           s == <<"assert">> \o b
<1>1. /\ \A x \in {"assert", "duplicate", "push", "display", "acknowledge"} :
           x \in StageName /\ May("add", x) /\ x \notin Plain
      /\ Follows("add", "acknowledge", "end")
      /\ Follows("add", "display", "acknowledge") /\ Follows("add", "push", "display")
      /\ Follows("add", "duplicate", "push") /\ Follows("add", "assert", "duplicate")
  BY DEF StageName, May, Follows, Shows, Plain
<1>2. <<"assert", "duplicate", "push", "display", "acknowledge">> = s
  OBVIOUS
<1>3. /\ e \in Seq(StageName) /\ First(e) = "acknowledge" /\ Chain(e, "add")
      /\ StagesOf(e) \cap Plain = {}
  BY <1>1, OneStage DEF StagesOf
<1> HIDE DEF e
<1>4. /\ d \in Seq(StageName) /\ First(d) = "display" /\ Chain(d, "add")
      /\ StagesOf(d) \cap Plain = {}
  BY <1>1, <1>3, PrependMore
<1> HIDE DEF d
<1>5. /\ c \in Seq(StageName) /\ First(c) = "push" /\ Chain(c, "add")
      /\ StagesOf(c) \cap Plain = {}
  BY <1>1, <1>4, PrependMore
<1> HIDE DEF c
<1>6. /\ b \in Seq(StageName) /\ First(b) = "duplicate" /\ Chain(b, "add")
      /\ StagesOf(b) \cap Plain = {}
  BY <1>1, <1>5, PrependMore
<1> HIDE DEF b
<1>7. /\ s \in Seq(StageName) /\ First(s) = "assert" /\ Chain(s, "add")
      /\ StagesOf(s) \cap Plain = {}
  BY <1>1, <1>6, PrependMore
<1> HIDE DEF s
<1>8. PICK k \in Keyring :
        /\ todo[u] = <<>> /\ mem.launched /\ offered(k)
        /\ UNCHANGED <<store, left, failures, saved>>
        /\ \/ /\ ensureKeyringRuntimeReady(u, mem, [Idle EXCEPT !.op = "add", !.kr = k], s)
              /\ mem.unlocked
           \/ /\ Advance(u, mem, [Idle EXCEPT !.op = "add", !.kr = k], s)
              /\ UNCHANGED restore
  BY <1>2 DEF AddKeyring, Begin, additionWaits,
         shouldWaitForType, shouldWaitForKeyringRuntime
<1> DEFINE l == [Idle EXCEPT !.op = "add", !.kr = k]
<1>9. l \in LocType /\ l.op = "add" /\ l.kr = k
  BY MutationStart
<1> HIDE DEF l
<1>10. \/ ensureKeyringRuntimeReady(u, mem, l, s) /\ mem.unlocked
       \/ Advance(u, mem, l, s) /\ UNCHANGED restore
  BY <1>8 DEF l
<1>11. \A i \in DOMAIN s : s[i] \notin Plain
  BY <1>7 DEF StagesOf
<1> QED BY <1>7, <1>8, <1>9, <1>10, <1>11, OfferLands

LEMMA RemoveAccountAccounts ==
  ASSUME NEW u \in Proc, Standing(u), AccountsInv(u), Screened, RemoveAccount(u)
  PROVE  AccountsInv(u)'
<1> DEFINE e == <<"display">>
           s == <<"remove">> \o e
<1>1. /\ \A x \in {"remove", "display"} :
           x \in StageName /\ May("remove", x) /\ x \notin Plain
      /\ Follows("remove", "display", "end") /\ Follows("remove", "remove", "display")
  BY DEF StageName, May, Follows, Shows, Plain
<1>2. removeStages = s
  BY Pair, Zenon DEF removeStages
<1>3. /\ e \in Seq(StageName) /\ First(e) = "display" /\ Chain(e, "remove")
      /\ StagesOf(e) \cap Plain = {}
  BY <1>1, OneStage DEF StagesOf
<1> HIDE DEF e
<1>4. /\ s \in Seq(StageName) /\ First(s) = "remove" /\ Chain(s, "remove")
      /\ StagesOf(s) \cap Plain = {}
  BY <1>1, <1>3, PrependMore
<1> HIDE DEF s
<1>5. PICK k \in Keyring :
        /\ todo[u] = <<>> /\ mem.launched /\ offered(k)
        /\ UNCHANGED <<store, left, failures, saved>>
        /\ \/ /\ ensureKeyringRuntimeReady(u, mem,
                    [Idle EXCEPT !.op = "remove", !.kr = k], s)
              /\ mem.unlocked
           \/ /\ Advance(u, mem, [Idle EXCEPT !.op = "remove", !.kr = k], s)
              /\ UNCHANGED restore
  BY <1>2 DEF RemoveAccount, Begin, shouldWaitForType, shouldWaitForKeyringRuntime
<1> DEFINE l == [Idle EXCEPT !.op = "remove", !.kr = k]
<1>6. l \in LocType /\ l.op = "remove" /\ l.kr = k
  BY MutationStart
<1> HIDE DEF l
<1>7. \/ ensureKeyringRuntimeReady(u, mem, l, s) /\ mem.unlocked
      \/ Advance(u, mem, l, s) /\ UNCHANGED restore
  BY <1>5 DEF l
<1>8. \A i \in DOMAIN s : s[i] \notin Plain
  BY <1>4 DEF StagesOf
<1> QED BY <1>4, <1>5, <1>6, <1>7, <1>8, OfferLands

LEMMA RefreshAccounts ==
  ASSUME NEW u \in Proc, Standing(u), AccountsInv(u), Refresh(u)
  PROVE  AccountsInv(u)'
<1> DEFINE l == [Idle EXCEPT !.op = "refresh"]
<1>1. /\ todo[u] = <<>> /\ mem.launched /\ mem.unlocked
      /\ UNCHANGED <<store, left, failures, saved>>
      /\ \/ ensureKeyringRuntimeReady(u, mem, l, <<"display">>)
         \/ ensureKeyringRuntimeReady(u, mem, l, <<>>)
  BY DEF Refresh, Begin
<1>2. First(todo[u]) = "end" /\ Steady /\ DueIn(u) = DueOnDisk
  BY <1>1, IdleFacts
<1>3. RestsOf(u, store, todo[u], mem, loc[u], left[u])
  BY DEF Standing
<1>4. l \in LocType /\ l.op = "refresh"
  <2>1. l \in LocType
    BY IdleType DEF LocType, OpName
  <2>2. l.op = "refresh"
    BY DEF Idle
  <2> QED BY <2>1, <2>2
<1> HIDE DEF l
<1>5. PICK s \in {<<"display">>, <<>>} : ensureKeyringRuntimeReady(u, mem, l, s)
  BY <1>1
<1>6. /\ s \in Seq(StageName) /\ First(s) \in {"display", "end"}
      /\ Chain(s, "refresh") /\ \A i \in DOMAIN s : s[i] \notin Plain
  <2>1. "display" \in StageName /\ May("refresh", "display")
        /\ Follows("refresh", "display", "end")
    BY DEF StageName, May, Follows, Shows
  <2>2. CASE s = <<"display">>
    BY <2>1, <2>2, OneStage DEF Plain
  <2>3. CASE s = <<>>
    BY <2>3, FirstStages, ChainEmpty
  <2> QED BY <2>2, <2>3
<1>7. May(l.op, "join") /\ Follows(l.op, "join", First(s))
  BY <1>4, <1>6 DEF May, Follows
<1>8. Bounds(DueIn(u), s, l)
  <2>1. \A t : ~Pushed(t, l)
    BY <1>4 DEF Pushed
  <2>2. due(saved', failures') = DueOnDisk
    BY <1>1 DEF DueOnDisk
  <2> QED BY <1>2, <2>1, <2>2, DueFacts DEF Bounds
<1>9. StoreFits(store', due(saved', failures')) /\ MemFits(mem, DueIn(u), store')
  BY <1>1, <1>3 DEF RestsOf, Rests, DueOnDisk
<1>10. store'.vault = NoVault => DueIn(u) \subseteq Members(mem.keyrings)
  BY <1>1, <1>2, <1>3, NoVaultNothingDue DEF RestsOf, Rests
<1>11. MayWait(mem, l, s, DueIn(u))
  BY <1>1, <1>2, <1>4, <1>6, <1>7, <1>9, <1>10 DEF MayWait, Steady
<1> QED BY <1>2, <1>4, <1>5, <1>6, <1>8, <1>11, EnsureLands DEF Standing

-----------------------------------------------------------------------------
(* The deferred restore.                                                   *)

\* While a restore is under way the caller waits for it.
LEMMA UnderWay ==
  ASSUME NEW u \in Proc, Standing(u), AccountsInv(u), NEW i \in Restores,
         Unsettled(restore[i])
  PROVE  /\ RestoreFits(restore[i], i, todo[u], mem, loc[u], DueIn(u))
         /\ \A j \in DOMAIN restore \ {i} : ~Unsettled(restore[j])
         /\ First(todo[u]) = "join" /\ todo[u] # <<>> /\ loc[u].rid = i
         /\ mem.promise = i /\ mem.launched
         /\ mem.unlocked /\ ~mem.ready /\ restore[i].id = mem.restoreId
<1>1. RestoresFit(restore, todo[u], mem, loc[u], DueIn(u))
  BY DEF AccountsInv, Fits, DueIn
<1>2. RestoreFits(restore[i], i, todo[u], mem, loc[u], DueIn(u))
  BY <1>1 DEF RestoresFit, Restores
<1>3. /\ First(todo[u]) = "join" /\ loc[u].rid = i /\ mem.promise = i
      /\ mem.unlocked /\ ~mem.ready /\ restore[i].id = mem.restoreId
  BY <1>2 DEF RestoreFits
<1>4. \A j \in DOMAIN restore \ {i} : ~Unsettled(restore[j])
  BY <1>1, <1>3 DEF RestoresFit, RestoreFits
<1>5. todo[u] # <<>>
  BY <1>3, FirstStages
<1>6. mem.launched
  BY <1>5 DEF Standing, RestsOf, Rests, Mutates
<1> QED BY <1>2, <1>3, <1>4, <1>5, <1>6

\* A step of the restore: what it has to leave behind.
LEMMA TaskLands ==
  ASSUME NEW u \in Proc, Standing(u), AccountsInv(u), NEW i \in Restores,
         Unsettled(restore[i]), TaskOnly, failures' \in Nat, failures <= failures',
         NEW r \in RestoreType, restore' = [restore EXCEPT ![i] = r],
         mem'.unlocked, mem'.launched, mem'.submitting = mem.submitting,
         MemFits(mem', DueIn(u), store), r.st # "stale",
         r.st = "done" => mem'.ready,
         IF r.st \in settled THEN mem'.promise = 0
         ELSE RestoreFits(r, i, todo[u], mem', loc[u], DueIn(u))
  PROVE  AccountsInv(u)'
<1> DEFINE s == todo[u]
           l == loc[u]
           V == due(saved', failures')
           E == Due(saved', failures', todo[u], loc[u])
<1>1. /\ \A j \in DOMAIN restore \ {i} : ~Unsettled(restore[j])
      /\ First(s) = "join" /\ l.rid = i /\ s # <<>>
  BY UnderWay
<1>2. UNCHANGED <<store, todo, loc, left, saved>>
  BY DEF TaskOnly
<1>3. V \subseteq DueOnDisk /\ E \subseteq DueIn(u)
  <2>1. failures \in Nat /\ saved' \in SUBSET saved
    BY <1>2 DEF Standing
  <2>2. /\ Due(saved', failures', todo[u], loc[u])
             \subseteq Due(saved, failures, todo[u], loc[u])
        /\ due(saved', failures') \subseteq due(saved, failures)
    BY <2>1, DueShrinks
  <2> QED BY <2>2 DEF DueOnDisk, DueIn
<1>4. /\ DOMAIN restore' = DOMAIN restore /\ i \in DOMAIN restore
      /\ restore'[i] = r /\ \A j \in DOMAIN restore \ {i} : restore'[j] = restore[j]
  BY DEF Restores, TypeOK, Standing
<1> HIDE DEF s, l, V, E
<1>5. Rests(store, DueOnDisk, DueIn(u), failures, s, mem, l, left[u])
  BY DEF Standing, RestsOf, s, l
<1>6. StoreFits(store, V) /\ MemFits(mem', E, store)
  BY <1>3, <1>5 DEF Rests, StoreFits, MemFits
<1>7. Mutates(s, mem', l, store)
  BY <1>5 DEF Rests, Mutates
<1>8. Opens(s, mem', l, left[u], E, store)
  BY <1>1, <1>5 DEF Rests, Opens, Opening
<1>9. Saves(s, mem', l, E, store)
  BY <1>1 DEF Saves, Encrypts, Rewrites, Plain
<1>10. PublicFits(s, mem', l, left[u], E, store, failures')
  BY DEF PublicFits
<1>11. RestoresFit(restore', s, mem', l, E)
  <2>1. CASE r.st \in settled
    BY <1>1, <1>4, <2>1 DEF RestoresFit, Unsettled
  <2>2. CASE r.st \notin settled
    <3>1. RestoreFits(r, i, s, mem', l, DueIn(u))
      BY <2>2 DEF s, l
    <3>2. RestoreFits(r, i, s, mem', l, E) /\ mem'.promise = i
      BY <1>3, <3>1 DEF RestoreFits
    <3>3. i # 0
      <4>1. restore \in Seq(RestoreType)
        BY DEF TypeOK, Standing
      <4> QED BY <1>4, <4>1
    <3>4. r.st # "done"
      BY <2>2 DEF settled
    <3> QED BY <1>1, <1>4, <2>2, <3>2, <3>3, <3>4 DEF RestoresFit, Unsettled
  <2> QED BY <2>1, <2>2
<1>12. Rests(store, V, E, failures', s, mem', l, left[u])
  BY <1>5, <1>6, <1>7, <1>8, <1>9, <1>10 DEF Rests
<1>13. Fits(store, V, E, failures', restore', s, mem', l, left[u])
  BY <1>11, <1>12 DEF Fits
<1> QED BY <1>2, <1>13 DEF AccountsInv, s, l, V, E

\* A restore that has settled is nobody's concern.
LEMMA SettledAccounts ==
  ASSUME NEW u \in Proc, AccountsInv(u), NEW i \in Restores,
         restore \in Seq(RestoreType),
         TaskOnly, UNCHANGED <<mem, failures>>,
         NEW r \in RestoreType, restore' = [restore EXCEPT ![i] = r],
         ~Unsettled(restore[i]), r.st = restore[i].st
  PROVE  AccountsInv(u)'
<1> DEFINE D == Due(saved, failures, todo[u], loc[u])
<1>1. UNCHANGED <<store, todo, loc, left, saved>>
  BY DEF TaskOnly
<1>2. /\ DOMAIN restore' = DOMAIN restore /\ i \in DOMAIN restore
      /\ restore'[i] = r /\ \A j \in DOMAIN restore \ {i} : restore'[j] = restore[j]
  BY DEF Restores
<1> HIDE DEF D
<1>3. RestoresFit(restore, todo[u], mem, loc[u], D)
  BY DEF AccountsInv, Fits, D
<1>4. \A j \in DOMAIN restore :
        /\ restore'[j].st = restore[j].st
        /\ Unsettled(restore'[j]) => restore'[j] = restore[j]
        /\ Unsettled(restore'[j]) <=> Unsettled(restore[j])
  BY <1>2 DEF Unsettled
<1>5. RestoresFit(restore', todo[u], mem, loc[u], D)
  BY <1>2, <1>3, <1>4 DEF RestoresFit
<1> QED BY <1>1, <1>5 DEF AccountsInv, Fits, D

\* ... as long as it goes on.
LEMMA TaskGoesOn ==
  ASSUME NEW u \in Proc, Standing(u), AccountsInv(u), NEW i \in Restores,
         Unsettled(restore[i]), TaskOnly, UNCHANGED failures,
         NEW r \in RestoreType, restore' = [restore EXCEPT ![i] = r],
         mem'.unlocked, mem'.launched, mem'.submitting = mem.submitting,
         MemFits(mem', DueIn(u), store), r.st \notin settled,
         RestoreFits(r, i, todo[u], mem', loc[u], DueIn(u))
  PROVE  AccountsInv(u)'
<1>1. failures' \in Nat /\ failures <= failures'
  BY DEF Standing
<1>2. r.st # "stale" /\ r.st # "done"
  BY DEF settled
<1>3. IF r.st \in settled THEN mem'.promise = 0
      ELSE RestoreFits(r, i, todo[u], mem', loc[u], DueIn(u))
  OBVIOUS
<1>4. r.st = "done" => mem'.ready
  BY <1>2
<1> HIDE DEF Unsettled
<1> QED BY <1>1, <1>2, <1>3, <1>4, TaskLands

LEMMA DeferredKeyringAccounts ==
  ASSUME NEW u \in Proc, Standing(u), AccountsInv(u), NEW i \in Restores,
         DeferredKeyring(i)
  PROVE  AccountsInv(u)'
<1>1. PICK k \in Keyring :
        /\ restore' = [restore EXCEPT
             ![i].left = Drop(@, k),
             ![i].next = IF restore[i].id = mem.restoreId THEN Push(@, k) ELSE @]
        /\ UNCHANGED <<mem, failures>> /\ TaskOnly
  BY DEF DeferredKeyring
<1> DEFINE q == restore[i]
           nx == IF q.id = mem.restoreId THEN Push(q.next, k) ELSE q.next
           r == [q EXCEPT !.left = Drop(q.left, k), !.next = nx]
<1>2. restore \in Seq(RestoreType) /\ q \in RestoreType
  BY DEF TypeOK, Restores, Standing
<1>3. q.left \in Bag /\ q.next \in Bag
  BY <1>2 DEF RestoreType
<1>4. Drop(q.left, k) \in Bag /\ nx \in Bag
  BY <1>3, BagOps
<1>5. restore' = [restore EXCEPT ![i] = r]
  BY <1>1
<1>6. /\ Members(q.next) \subseteq Members(Push(q.next, k))
      /\ k \in Members(Push(q.next, k))
      /\ Members(q.left) \subseteq Members(Drop(q.left, k)) \cup {k}
  BY <1>3, MembersOf
<1>7. q.id = mem.restoreId => nx = Push(q.next, k)
  OBVIOUS
<1> HIDE DEF nx, q
<1>8. /\ r \in RestoreType /\ r.st = q.st /\ r.left = Drop(q.left, k)
      /\ r.next = nx /\ r.prev = q.prev /\ r.from = q.from /\ r.id = q.id
  BY <1>2, <1>4 DEF RestoreType
<1> HIDE DEF r
<1>9. CASE ~Unsettled(q)
  BY <1>1, <1>2, <1>5, <1>8, <1>9, SettledAccounts DEF q
<1>10. CASE Unsettled(q)
  <2>1. /\ RestoreFits(q, i, todo[u], mem, loc[u], DueIn(u))
        /\ mem.launched /\ mem.unlocked /\ q.id = mem.restoreId
    BY <1>10, UnderWay DEF q
  <2>2. RestoreFits(r, i, todo[u], mem, loc[u], DueIn(u))
    BY <1>6, <1>7, <1>8, <2>1 DEF RestoreFits
  <2>3. mem' = mem /\ failures' = failures /\ failures \in Nat
    BY <1>1 DEF Standing
  <2>4. MemFits(mem', DueIn(u), store)
    BY <2>3 DEF Standing, RestsOf, Rests
  <2>5. r.st \notin settled
    BY <1>8, <1>10 DEF Unsettled
  <2> QED
    BY <1>1, <1>5, <1>8, <1>10, <2>1, <2>2, <2>3, <2>4, <2>5, TaskGoesOn DEF q
<1> QED BY <1>9, <1>10

LEMMA DeferredSensitiveDoneAccounts ==
  ASSUME NEW u \in Proc, Standing(u), AccountsInv(u), NEW i \in Restores,
         DeferredSensitiveDone(i)
  PROVE  AccountsInv(u)'
<1> DEFINE q == restore[i]
           r == [q EXCEPT !.st = "public", !.left = q.from.pub]
<1>1. /\ q.st = "sensitive" /\ IsEmpty(q.left) /\ restore' = [restore EXCEPT ![i] = r]
      /\ UNCHANGED <<mem, failures>> /\ TaskOnly
  BY DEF DeferredSensitiveDone
<1>2. q \in RestoreType
  BY DEF TypeOK, Restores, Standing
<1> HIDE DEF q
<1>3. /\ r \in RestoreType /\ r.st = "public" /\ r.left = q.from.pub
      /\ r.next = q.next /\ r.prev = q.prev /\ r.from = q.from /\ r.id = q.id
  BY <1>2 DEF RestoreType, Pending
<1> HIDE DEF r
<1>4. Unsettled(q) /\ Members(q.left) = {}
  BY <1>1 DEF Unsettled, settled, IsEmpty
<1>5. /\ RestoreFits(q, i, todo[u], mem, loc[u], DueIn(u))
      /\ mem.launched /\ mem.unlocked
  BY <1>4, UnderWay DEF q
<1>6. RestoreFits(r, i, todo[u], mem, loc[u], DueIn(u))
  BY <1>1, <1>3, <1>4, <1>5 DEF RestoreFits
<1>7. mem' = mem /\ failures' = failures /\ failures \in Nat
  BY <1>1 DEF Standing
<1>8. MemFits(mem', DueIn(u), store)
  BY <1>7 DEF Standing, RestsOf, Rests
<1>9. r.st \notin settled
  BY <1>3 DEF settled
<1> QED
  BY <1>1, <1>3, <1>4, <1>5, <1>6, <1>7, <1>8, <1>9, TaskGoesOn DEF q

LEMMA DeferredPublicDoneAccounts ==
  ASSUME NEW u \in Proc, Standing(u), AccountsInv(u), NEW i \in Restores,
         DeferredPublicDone(i)
  PROVE  AccountsInv(u)'
<1> DEFINE q == restore[i]
           r == [q EXCEPT !.st = "show"]
<1>1. q.st = "public" /\ IsEmpty(q.left) /\ UNCHANGED failures /\ TaskOnly
  BY DEF DeferredPublicDone
<1>2. q \in RestoreType
  BY DEF TypeOK, Restores, Standing
<1>3. Unsettled(q) /\ Members(q.left) = {}
  BY <1>1 DEF Unsettled, settled, IsEmpty
<1>4. /\ RestoreFits(q, i, todo[u], mem, loc[u], DueIn(u)) /\ mem.promise = i
      /\ mem.launched /\ mem.unlocked /\ ~mem.ready /\ q.id = mem.restoreId
  BY <1>3, UnderWay
<1>5. /\ restore' = [restore EXCEPT ![i] = r]
      /\ mem' = [mem EXCEPT !.keyrings = q.next]
  BY <1>4 DEF DeferredPublicDone
<1> HIDE DEF q
<1>6. /\ r \in RestoreType /\ r.st = "show"
      /\ r.prev = q.prev /\ r.from = q.from /\ r.id = q.id
  BY <1>2 DEF RestoreType
<1> HIDE DEF r
<1>7. /\ mem'.keyrings = q.next /\ mem'.unlocked = mem.unlocked
      /\ mem'.ready = mem.ready /\ mem'.promise = mem.promise
      /\ mem'.restoreId = mem.restoreId /\ mem'.launched = mem.launched
      /\ mem'.submitting = mem.submitting
  BY <1>5 DEF Standing, MemType
<1>8. RestoreFits(r, i, todo[u], mem', loc[u], DueIn(u))
  BY <1>1, <1>3, <1>4, <1>6, <1>7 DEF RestoreFits
<1>9. i # 0
  <2>1. restore \in Seq(RestoreType)
    BY DEF TypeOK, Standing
  <2> QED BY <2>1 DEF Restores
<1>10. MemFits(mem', DueIn(u), store)
  BY <1>4, <1>7, <1>9 DEF MemFits
<1>11. r.st \notin settled /\ failures \in Nat /\ failures' = failures
  BY <1>1, <1>6 DEF settled, Standing
<1> QED
  BY <1>1, <1>3, <1>4, <1>5, <1>6, <1>7, <1>8, <1>10, <1>11, TaskGoesOn DEF q

LEMMA DeferredShownAccounts ==
  ASSUME NEW u \in Proc, Standing(u), AccountsInv(u), NEW i \in Restores,
         DeferredShown(i)
  PROVE  AccountsInv(u)'
<1> DEFINE q == restore[i]
           r == [q EXCEPT !.st = "mark"]
<1>1. /\ q.st = "show" /\ UNCHANGED failures /\ TaskOnly
      /\ restore' = [restore EXCEPT ![i] = r]
      /\ mem' = [mem EXCEPT !.shown = q.next]
  BY DEF DeferredShown
<1>2. q \in RestoreType
  BY DEF TypeOK, Restores, Standing
<1>3. Unsettled(q)
  BY <1>1 DEF Unsettled, settled
<1>4. /\ RestoreFits(q, i, todo[u], mem, loc[u], DueIn(u))
      /\ mem.launched /\ mem.unlocked
  BY <1>3, UnderWay
<1> HIDE DEF q
<1>5. /\ r \in RestoreType /\ r.st = "mark"
      /\ r.prev = q.prev /\ r.from = q.from /\ r.id = q.id
  BY <1>2 DEF RestoreType
<1> HIDE DEF r
<1>6. Alike(mem', mem)
  BY <1>1, MemAlike DEF Standing
<1>7. RestoreFits(r, i, todo[u], mem', loc[u], DueIn(u))
  BY <1>1, <1>4, <1>5, <1>6 DEF RestoreFits, Alike
<1>8. MemFits(mem', DueIn(u), store)
  BY <1>6 DEF MemFits, Alike, Standing, RestsOf, Rests
<1>9. r.st \notin settled /\ failures \in Nat /\ failures' = failures
  BY <1>1, <1>5 DEF settled, Standing
<1>10. mem'.unlocked /\ mem'.launched /\ mem'.submitting = mem.submitting
  BY <1>4, <1>6 DEF Alike
<1> QED
  BY <1>1, <1>3, <1>5, <1>7, <1>8, <1>9, <1>10, TaskGoesOn DEF q

\* How a settled restore is left.
LEMMA SettleFacts ==
  ASSUME TypeOK, NEW i \in Restores, NEW st \in {"done", "failed"}
  PROVE  \E r \in RestoreType : r.st = st /\ Settle(i, st) = [restore EXCEPT ![i] = r]
<1> DEFINE r == [restore[i] EXCEPT !.st = st, !.left = Nothing,
                   !.next = Nothing, !.prev = Nothing, !.from = NothingOwed]
<1>1. restore \in Seq(RestoreType) /\ i \in DOMAIN restore
  BY DEF TypeOK, Restores
<1>2. restore[i] \in RestoreType
  BY <1>1
<1>3. r \in RestoreType /\ r.st = st
  BY <1>2, NothingType DEF RestoreType, Pending, NothingOwed
<1>4. Settle(i, st) = [restore EXCEPT ![i] = r]
  BY DEF Settle
<1> QED BY <1>3, <1>4

LEMMA DeferredReadyAccounts ==
  ASSUME NEW u \in Proc, Standing(u), AccountsInv(u), NEW i \in Restores,
         DeferredReady(i)
  PROVE  AccountsInv(u)'
<1>1. /\ restore[i].st = "mark" /\ UNCHANGED failures /\ TaskOnly
      /\ restore' = Settle(i, "done") /\ mem' = markKeyringRuntimeReady(mem)
  BY DEF DeferredReady
<1>2. Unsettled(restore[i])
  BY <1>1 DEF Unsettled, settled
<1>3. /\ RestoreFits(restore[i], i, todo[u], mem, loc[u], DueIn(u))
      /\ mem.launched /\ mem.unlocked
  BY <1>2, UnderWay
<1>4. PICK r \in RestoreType : r.st = "done" /\ restore' = [restore EXCEPT ![i] = r]
  BY <1>1, SettleFacts DEF Standing
<1>5. /\ mem'.ready /\ mem'.unlocked /\ mem'.launched /\ mem'.promise = 0
      /\ mem'.submitting = mem.submitting /\ mem'.keyrings = mem.keyrings
  BY <1>1, <1>3 DEF markKeyringRuntimeReady, Standing, MemType
<1>6. MemFits(mem', DueIn(u), store)
  BY <1>1, <1>3, <1>5 DEF MemFits, RestoreFits
<1>7. r.st \in settled /\ r.st # "stale" /\ failures \in Nat /\ failures' = failures
  BY <1>1, <1>4 DEF settled, Standing
<1> QED BY <1>1, <1>2, <1>4, <1>5, <1>6, <1>7, TaskLands

LEMMA DeferredThrowsAccounts ==
  ASSUME NEW u \in Proc, Standing(u), AccountsInv(u), NEW i \in Restores,
         DeferredThrows(i)
  PROVE  AccountsInv(u)'
<1> DEFINE q == restore[i]
<1>1. /\ q.st \in {"sensitive", "public", "show"} /\ TaskOnly
      /\ failures' = failures + 1 /\ restore' = Settle(i, "failed")
  BY DEF DeferredThrows
<1>2. Unsettled(q)
  BY <1>1 DEF Unsettled, settled
<1>3. /\ RestoreFits(q, i, todo[u], mem, loc[u], DueIn(u))
      /\ mem.launched /\ mem.unlocked /\ q.id = mem.restoreId
  BY <1>2, UnderWay
<1>4. mem' = rollBack(mem, q)
  BY <1>3 DEF DeferredThrows
<1>5. PICK r \in RestoreType : r.st = "failed" /\ restore' = [restore EXCEPT ![i] = r]
  BY <1>1, SettleFacts DEF Standing
<1>6. q \in RestoreType
  BY DEF TypeOK, Restores, Standing
<1> HIDE DEF q
<1>7. /\ ~mem'.ready /\ mem'.unlocked /\ mem'.launched /\ mem'.promise = 0
      /\ mem'.submitting = mem.submitting
      /\ mem'.keyrings = q.prev /\ mem'.pending = q.from
  BY <1>3, <1>4 DEF rollBack, Standing, MemType
<1>8. q.from # Absent
  BY <1>6, AbsenceAssumption DEF AbsenceAssumption, RestoreType
<1>9. MemFits(mem', DueIn(u), store)
  BY <1>3, <1>7, <1>8 DEF MemFits, RestoreFits
<1>10. /\ r.st \in settled /\ r.st # "stale" /\ r.st # "done"
       /\ failures' \in Nat /\ failures <= failures'
  BY <1>1, <1>5 DEF settled, Standing
<1> QED BY <1>1, <1>2, <1>5, <1>7, <1>9, <1>10, TaskLands DEF q

LEMMA DeferredAccounts ==
  ASSUME NEW u \in Proc, Standing(u), AccountsInv(u), NEW i \in Restores, Deferred(i)
  PROVE  AccountsInv(u)'
BY DeferredKeyringAccounts, DeferredSensitiveDoneAccounts,
   DeferredPublicDoneAccounts, DeferredShownAccounts, DeferredReadyAccounts,
   DeferredThrowsAccounts DEF Deferred

-----------------------------------------------------------------------------
(* Any stage, any operation.                                               *)

\* No stage but Join runs while a restore is waited for.
LEMMA StageSteady ==
  ASSUME NEW u \in Proc, Standing(u), AccountsInv(u), Stage(u), ~RestoreKeyring(u)
  PROVE  Steady
<1>1. SUFFICES ASSUME At(u, "join") PROVE restore[loc[u].rid].st \in settled
  BY SteadyFacts
<1>2. \A st \in {"verify", "reload", "decrypt", "sensitive", "public", "display",
         "show", "ready", "serialize", "snapshot", "encrypt", "write",
         "writeSnapshot", "writeUnencrypted", "assert", "duplicate", "compare",
         "push", "acknowledge", "remove", "rekey", "collect", "encryptNew",
         "writeNew", "relock", "persist", "erase", "eraseStore", "boot",
         "launch"} : ~At(u, st)
  BY <1>1 DEF At
<1>3. /\ ~Verify(u) /\ ~Reload(u) /\ ~Decrypt(u) /\ ~RestoreKeyringThrows(u)
      /\ ~SensitiveRestored(u) /\ ~PublicRestored(u) /\ ~Display(u) /\ ~Show(u)
      /\ ~Ready(u) /\ ~Serialize(u) /\ ~Snapshot(u) /\ ~Encrypt(u)
  BY <1>2 DEF Verify, Reload, Decrypt, RestoreKeyringThrows, SensitiveRestored,
              PublicRestored, Display, Show, Ready, Serialize, Snapshot, Encrypt
<1>4. /\ ~Write(u) /\ ~WriteSnapshot(u) /\ ~WriteUnencrypted(u)
      /\ ~AssertCanPersist(u) /\ ~CheckForDuplicate(u) /\ ~Compare(u)
      /\ ~PushKeyring(u) /\ ~Acknowledge(u) /\ ~RemoveKeyring(u)
  BY <1>2 DEF Write, WriteSnapshot, WriteUnencrypted, AssertCanPersist,
              CheckForDuplicate, Compare, PushKeyring, Acknowledge, RemoveKeyring
<1>5. /\ ~Rekey(u) /\ ~Collect(u) /\ ~EncryptNew(u) /\ ~WriteNew(u)
      /\ ~Relock(u) /\ ~PersistAgain(u) /\ ~EraseKeyrings(u)
      /\ ~EraseStore(u) /\ ~BootWritten(u) /\ ~LaunchChoice(u)
  BY <1>2 DEF Rekey, Collect, EncryptNew, WriteNew, Relock, PersistAgain,
              EraseKeyrings, EraseStore, BootWritten, LaunchChoice
<1> QED BY <1>3, <1>4, <1>5 DEF Stage, Join

\* A change of password or a reset is none of the operations considered.
LEMMA NoOtherStage ==
  ASSUME NEW u \in Proc, Standing(u)
  PROVE  /\ ~Reload(u) /\ ~Rekey(u) /\ ~Collect(u) /\ ~EncryptNew(u)
         /\ ~WriteNew(u) /\ ~Relock(u) /\ ~PersistAgain(u)
         /\ ~EraseKeyrings(u) /\ ~EraseStore(u)
<1>1. \A op : \A st \in {"reload", "rekey", "collect", "encryptNew", "writeNew",
                         "relock", "persist", "erase", "eraseStore"} :
        ~May(op, st)
  BY DEF May, Saving, Plain, Shows, Opening
<1>2. \A st \in {"reload", "rekey", "collect", "encryptNew", "writeNew",
                 "relock", "persist", "erase", "eraseStore"} : ~At(u, st)
  BY <1>1, StageFacts
<1> QED BY <1>2 DEF Reload, Rekey, Collect, EncryptNew, WriteNew, Relock,
                    PersistAgain, EraseKeyrings, EraseStore

LEMMA StageAccounts ==
  ASSUME NEW u \in Proc, VaultInv(u), Standing(u), AccountsInv(u), Stage(u)
  PROVE  AccountsInv(u)'
<1>1. CASE RestoreKeyring(u)
  BY <1>1, RestoreKeyringAccounts
<1>2. CASE ~RestoreKeyring(u)
  <2>1. Steady
    BY <1>2, StageSteady
  <2>2. CASE \/ Verify(u) \/ Decrypt(u) \/ RestoreKeyringThrows(u)
             \/ SensitiveRestored(u) \/ PublicRestored(u)
             \/ Display(u) \/ Show(u) \/ Ready(u) \/ Join(u)
    BY <2>1, <2>2, VerifyAccounts, DecryptAccounts, RestoreKeyringThrowsAccounts,
       SensitiveRestoredAccounts, PublicRestoredAccounts, DisplayAccounts,
       ShowAccounts, ReadyAccounts, JoinAccounts
  <2>3. CASE \/ Serialize(u) \/ Snapshot(u) \/ Encrypt(u) \/ Write(u)
             \/ WriteSnapshot(u) \/ WriteUnencrypted(u)
    BY <2>1, <2>3, SerializeAccounts, SnapshotAccounts, EncryptAccounts,
       WriteAccounts, WriteSnapshotAccounts, WriteUnencryptedAccounts
  <2>4. CASE \/ AssertCanPersist(u) \/ CheckForDuplicate(u) \/ Compare(u)
             \/ PushKeyring(u) \/ Acknowledge(u) \/ RemoveKeyring(u)
             \/ BootWritten(u) \/ LaunchChoice(u)
    BY <2>1, <2>4, CheckAccounts, CheckForDuplicateAccounts, PushAccounts,
       AcknowledgeAccounts, RemoveAccounts, BootAccounts, LaunchChoiceAccounts
  <2> QED BY <1>2, <2>2, <2>3, <2>4, NoOtherStage DEF Stage
<1> QED BY <1>1, <1>2

\* One caller, who neither changes the password nor resets the wallet.
OneCaller(u) ==
  /\ Proc = {u} /\ Screened
  /\ Ops[u] \subseteq {"launch", "submit", "lock", "add", "remove", "refresh"}

LEMMA OperationAccounts ==
  ASSUME NEW u \in Proc, OneCaller(u), VaultInv(u), Standing(u), AccountsInv(u),
         Operation(u)
  PROVE  AccountsInv(u)'
<1>1. ~UpdatePassword(u) /\ ~Wipe(u) /\ ~Erase(u)
  BY DEF UpdatePassword, Wipe, Erase, Begin, OneCaller
<1> QED
  BY <1>1, LaunchAccounts, SubmitAccounts, SetLockedAccounts,
     AddKeyringAccounts, RemoveAccountAccounts, RefreshAccounts
     DEF Operation, OneCaller

-----------------------------------------------------------------------------
(* The beginning, a kill, and the theorems.                                *)

\* A process that has just started relies on the disk alone.
LEMMA FreshFits ==
  ASSUME NEW d, NEW W, NEW f, StoreFits(d, W)
  PROVE  Fits(d, W, W, f, <<>>, <<>>, FreshMem, Idle, Nothing)
<1> DEFINE s == <<>>
<1>1. First(s) = "end" /\ Second(s) = "end" /\ s = <<>> /\ Chain(s, Idle.op)
  BY FirstStages, ChainEmpty
<1>2. /\ ~FreshMem.ready /\ ~FreshMem.unlocked /\ FreshMem.promise = 0
      /\ FreshMem.pending = Absent /\ ~FreshMem.submitting /\ ~FreshMem.launched
      /\ Idle.op = "none"
  BY DEF FreshMem, Idle
<1> HIDE DEF s
<1>3. MemFits(FreshMem, W, d) /\ Mutates(s, FreshMem, Idle, d)
  BY <1>1, <1>2 DEF MemFits, Mutates
<1>4. Opens(s, FreshMem, Idle, Nothing, W, d) /\ Saves(s, FreshMem, Idle, W, d)
  BY <1>1, <1>2 DEF Opens, Opening, Saves, Encrypts, Rewrites, Plain
<1>5. PublicFits(s, FreshMem, Idle, Nothing, W, d, f)
  BY <1>2 DEF PublicFits
<1>6. RestoresFit(<<>>, s, FreshMem, Idle, W)
  BY <1>1, <1>2 DEF RestoresFit
<1>7. Fits(d, W, W, f, <<>>, s, FreshMem, Idle, Nothing)
  BY <1>1, <1>3, <1>4, <1>5, <1>6 DEF Fits, Rests
<1> QED BY <1>7 DEF s

LEMMA NothingPushed ==
  ASSUME NEW K, NEW f
  PROVE  Due(K, f, <<>>, Idle) = due(K, f)
<1>1. ~Pushed(<<>>, Idle)
  BY DEF Pushed, Idle
<1> QED BY <1>1, DueFacts

LEMMA InitAccounts ==
  ASSUME NEW u \in Proc, Init, TypeOK
  PROVE  AccountsInv(u)
<1>1. /\ mem = FreshMem /\ todo[u] = <<>> /\ loc[u] = Idle /\ left[u] = Nothing
      /\ restore = <<>> /\ failures = 0 /\ saved = Recoverable(store)
      /\ store \in Stores
  BY DEF Init
<1>2. (store.vault = NoVault => store.unenc = Absent)
      /\ (store.unenc = Absent => store.snap = {})
  <2>1. CASE store = EmptyStore
    BY <2>1 DEF EmptyStore
  <2>2. ASSUME NEW pw \in Password, NEW K \in Installed,
               store = StoreOf(pw, K) \/ store = LegacyStoreOf(pw, K)
        PROVE  store.vault # NoVault /\ (store.unenc = Absent => store.snap = {})
    <3> DEFINE v == [pw |-> pw, krs |-> AsBag(K)]
               b == AsBag(K \cap Public)
    <3>1. \A J \in SUBSET Keyring : AsBag(J) \in Bag
      BY MaxCopiesType DEF AsBag, Bag
    <3>2. AsBag(K) \in Bag /\ b \in Bag
      BY <3>1, KeyringServiceAssumption DEF KeyringServiceAssumption, Keyring
    <3>3. v \in [pw : OptPassword, krs : Bag]
      BY <3>2 DEF OptPassword
    <3>4. v # NoVault /\ b # Absent
      BY <3>2, <3>3, AbsenceAssumption DEF AbsenceAssumption
    <3> HIDE DEF v, b
    <3>5. StoreOf(pw, K).vault = v /\ StoreOf(pw, K).unenc = b
      BY DEF StoreOf, v, b
    <3>6. LegacyStoreOf(pw, K).vault = v /\ LegacyStoreOf(pw, K).snap = {}
      BY DEF StoreOf, LegacyStoreOf, v
    <3> QED BY <2>2, <3>4, <3>5, <3>6
  <2> QED BY <1>1, <2>1, <2>2 DEF Stores
<1>3. StoreFits(store, due(saved, failures))
  BY <1>1, <1>2 DEF StoreFits, due
<1>4. Due(saved, failures, todo[u], loc[u]) = due(saved, failures)
  BY <1>1, NothingPushed
<1> QED BY <1>1, <1>3, <1>4, FreshFits DEF AccountsInv

LEMMA CrashAccounts ==
  ASSUME NEW u \in Proc, Standing(u), Crash
  PROVE  AccountsInv(u)'
<1>1. /\ mem' = FreshMem /\ todo'[u] = <<>> /\ loc'[u] = Idle /\ left'[u] = Nothing
      /\ restore' = <<>> /\ UNCHANGED <<store, failures, saved>>
  BY DEF Crash
<1>2. StoreFits(store', due(saved', failures'))
  BY <1>1 DEF Standing, RestsOf, Rests, DueOnDisk
<1>3. Due(saved', failures', todo'[u], loc'[u]) = due(saved', failures')
  BY <1>1, NothingPushed
<1> QED BY <1>1, <1>2, <1>3, FreshFits DEF AccountsInv

LEMMA AccountsStep ==
  ASSUME NEW u, OneCaller(u), VaultInv(u), AccountsInv(u), [Next]_vars
  PROVE  AccountsInv(u)'
<1>1. u \in Proc /\ Standing(u)
  BY StandingFacts DEF OneCaller, VaultInv
<1>2. CASE UNCHANGED vars
  BY <1>2 DEF vars, bounds, AccountsInv
<1>3. ASSUME NEW p \in Proc, Operation(p) \/ Stage(p) PROVE AccountsInv(u)'
  <2>1. p = u
    BY DEF OneCaller
  <2> QED BY <1>1, <1>3, <2>1, OperationAccounts, StageAccounts
<1>4. ASSUME NEW i \in Restores, Deferred(i) PROVE AccountsInv(u)'
  BY <1>1, <1>4, DeferredAccounts
<1>5. CASE OrphanRestored
  BY <1>1, <1>5, OrphanRestoredAccounts
<1>6. CASE Crash
  BY <1>1, <1>6, CrashAccounts
<1> QED BY <1>2, <1>3, <1>4, <1>5, <1>6 DEF Next, Stand

LEMMA OneCallerIsSingle ==
  ASSUME NEW u, OneCaller(u)
  PROVE  SingleUser(u)
BY DEF OneCaller, SingleUser

LEMMA AccountsHold ==
  ASSUME NEW u, OneCaller(u)
  PROVE  Spec => [](VaultInv(u) /\ AccountsInv(u))
<1>1. Init => VaultInv(u) /\ AccountsInv(u)
  BY InitType, InitVault, InitAccounts DEF OneCaller
<1>2. VaultInv(u) /\ AccountsInv(u) /\ [Next]_vars => (VaultInv(u) /\ AccountsInv(u))'
  BY VaultStep, AccountsStep, OneCallerIsSingle
<1> QED BY <1>1, <1>2, PTL DEF Spec

\* With one caller, an account whose addition was acknowledged is on disk in
\* every reachable state until it is removed: whatever was written after it,
\* wherever a deserialisation failed or the process was killed (a public one
\* as long as every deserialisation succeeded).
THEOREM NothingIsLost ==
  ASSUME NEW u, OneCaller(u)
  PROVE  Spec => []NothingLost
<1>1. AccountsInv(u) => NothingLost
  BY DEF AccountsInv, Fits, Rests, StoreFits, due, NothingLost
<1> QED BY <1>1, AccountsHold, PTL
=============================================================================
