-------------------------- MODULE MediaCipherProofs --------------------------
(***************************************************************************)
(* Proofs about module MediaCipher, for every value of its constants:      *)
(* type correctness and NoReplay.                                          *)
(***************************************************************************)
EXTENDS MediaCipher, TLAPS, FiniteSetTheorems, SequenceTheorems, WellFoundedInduction

-----------------------------------------------------------------------------
(* Facts about numbers and sequences *)

\* Every non-empty set of natural numbers has a least element.
LEMMA LeastNat ==
  ASSUME NEW S \in SUBSET Nat, S # {}
  PROVE  \E x \in S : \A y \in S : x <= y
<1> DEFINE Below == {p \in Nat \X Nat : p[1] < p[2]}
<1>1. OpToRel(<, Nat) = Below  BY DEF OpToRel
<1>2. IsWellFoundedOn(Below, Nat)  BY ZenonT(30), <1>1, NatLessThanWellFounded
<1> HIDE DEF Below
<1>3. PICK x \in S : \A y \in S : ~(<<y, x>> \in Below)  BY ZenonT(30), <1>2, WFMin
<1>4. ASSUME NEW y \in S  PROVE x <= y
  <2>1. ~(<<y, x>> \in Below)  BY <1>3
  <2>2. ~(y < x)  BY <2>1 DEF Below
  <2> QED  BY <2>2
<1> QED  BY <1>4

\* Popping a queue's front while a condition holds stops somewhere: there is a
\* longest prefix of elements that satisfy it.
LEMMA PrefixExists ==
  ASSUME NEW n \in Nat, NEW B \in SUBSET (1 .. n)
  PROVE  \E k \in 0 .. n : (\A i \in 1 .. k : i \in B) /\ (k < n => k + 1 \notin B)
<1> DEFINE Out == {i \in 1 .. n : i \notin B}
<1>1. CASE Out = {}
  <2>1. \A i \in 1 .. n : i \in B  BY <1>1
  <2> QED  BY <2>1
<1>2. CASE Out # {}
  <2>0. Out \in SUBSET Nat  OBVIOUS
  <2>1. PICK x \in Out : \A y \in Out : x <= y  BY ZenonT(30), <1>2, <2>0, LeastNat
  <2>2. /\ x - 1 \in 0 .. n /\ (x - 1) + 1 \notin B  BY <2>1
  <2>3. \A i \in 1 .. (x - 1) : i \in B  BY <2>1
  <2> QED  BY <2>2, <2>3
<1> QED  BY <1>1, <1>2

\* A truncated generation is put back at a natural number.
LEMMA WrappedGenerationType ==
  ASSUME NEW oldest \in Nat, NEW generation \in Nat
  PROVE  ComputeWrappedGeneration(oldest, generation) \in Nat
<1>1. oldest \div GenerationWrap \in Nat  BY CryptorAssumption
<1> DEFINE factor == oldest \div GenerationWrap
                      + (IF generation < oldest % GenerationWrap THEN 1 ELSE 0)
<1>2. factor \in Nat  BY <1>1
<1>3. factor * GenerationWrap \in Nat  BY <1>2, CryptorAssumption
<1> QED  BY <1>3 DEF ComputeWrappedGeneration

\* The place a truncated nonce is put back at is a natural number.
LEMMA WrappedNonceType ==
  ASSUME NEW generation \in Nat, NEW nonce \in Nat
  PROVE  WrappedNonce(generation, nonce) \in Nat
<1>1. generation * NoncesPerGeneration \in Nat  BY CryptorAssumption
<1>2. nonce % NoncesPerGeneration \in Nat  BY CryptorAssumption
<1> QED  BY <1>1, <1>2 DEF WrappedNonce

-----------------------------------------------------------------------------
(* What the methods of a manager preserve *)

\* The parts of a manager that decide which nonces it accepts.
SameWindow(m, n) ==
  /\ n.epoch = m.epoch
  /\ n.newest_nonce = m.newest_nonce
  /\ n.members = m.members

\* Retiring expired ciphers (cleanup_expired_ciphers) does not touch the replay
\* window.
LEMMA CleanupCiphersType ==
  ASSUME NEW m \in Manager, NEW t \in Nat
  PROVE  /\ CleanupExpiredCiphers(m, t) \in Manager
         /\ SameWindow(m, CleanupExpiredCiphers(m, t))
<1> DEFINE live   == {c \in m.ciphers : c.expiry = None \/ c.expiry > t}
           stops  == {g \in m.oldest_generation .. m.newest_generation :
                        g = m.newest_generation \/ \E c \in live : c.generation = g}
           oldest == IF stops = {} THEN m.oldest_generation
                     ELSE CHOOSE g \in stops : \A h \in stops : g <= h
           cache  == m.ratchet.cache \ (m.oldest_generation .. (oldest - 1))
<1>1. stops \in SUBSET Nat  BY DEF Manager
<1>2. oldest \in Nat
  <2>1. CASE stops = {}  BY <2>1 DEF Manager
  <2>2. CASE stops # {}
    <3>1. \E g \in stops : \A h \in stops : g <= h  BY ZenonT(30), <1>1, <2>2, LeastNat
    <3> QED  BY <1>1, <2>2, <3>1
  <2> QED  BY <2>1, <2>2
<1>3. live \in SUBSET [generation : Nat, expiry : OptNat]  BY DEF Manager
<1> DEFINE ratchet == [m.ratchet EXCEPT !.cache = cache]
<1>4. ratchet \in [next_generation : Nat, cache : SUBSET Nat]  BY ZenonT(30) DEF Manager
<1>5. CleanupExpiredCiphers(m, t)
        = [m EXCEPT !.ciphers = live, !.oldest_generation = oldest, !.ratchet = ratchet]
  BY DEF CleanupExpiredCiphers, Manager
<1> HIDE DEF live, stops, oldest, ratchet
<1> QED  BY ZenonT(30), <1>2, <1>3, <1>4, <1>5 DEF Manager, SameWindow

\* Nor does deriving the cipher of a generation (CryptorManager::cipher).
LEMMA WithCipherType ==
  ASSUME NEW m \in Manager, NEW g \in Nat, NEW t \in Nat
  PROVE  WithCipher(m, g, t) \in Manager /\ SameWindow(m, WithCipher(m, g, t))
<1>1. RatchetGet(m.ratchet, g) \in [next_generation : Nat, cache : SUBSET Nat]
  BY DEF RatchetGet, Manager
<1> DEFINE expiry == IF g < m.newest_generation THEN t + CipherExpiry ELSE None
<1>2. expiry \in OptNat  BY CryptorAssumption DEF OptNat, Manager
<1> DEFINE added == m.ciphers \cup {[generation |-> g, expiry |-> expiry]}
<1>3. WithCipher(m, g, t) =
        IF HasCipher(m, g) THEN m
        ELSE [m EXCEPT !.ratchet = RatchetGet(m.ratchet, g), !.ciphers = added]
  BY DEF WithCipher, Manager
<1> HIDE DEF expiry
<1>4. added \in SUBSET [generation : Nat, expiry : OptNat]  BY <1>2 DEF Manager
<1> HIDE DEF added
<1> QED  BY ZenonT(30), <1>1, <1>3, <1>4 DEF Manager, SameWindow

\* Nor does the cipher half of report_success.
LEMMA RecordGenerationType ==
  ASSUME NEW m \in Manager, NEW g \in Nat, NEW t \in Nat
  PROVE  RecordGeneration(m, g, t) \in Manager /\ SameWindow(m, RecordGeneration(m, g, t))
<1> DEFINE Aged(c) == IF c.generation < g THEN [c EXCEPT !.expiry = t + CipherExpiry] ELSE c
           aged == {Aged(c) : c \in m.ciphers}
<1>1. ASSUME NEW c \in m.ciphers  PROVE Aged(c) \in [generation : Nat, expiry : OptNat]
  <2>1. c \in [generation : Nat, expiry : OptNat]  BY DEF Manager
  <2>2. t + CipherExpiry \in OptNat  BY CryptorAssumption DEF OptNat
  <2> QED  BY <2>1, <2>2
<1>2. aged \in SUBSET [generation : Nat, expiry : OptNat]  BY ZenonT(30), <1>1
<1>3. RecordGeneration(m, g, t) =
        IF g <= m.newest_generation \/ ~HasCipher(m, g) THEN m
        ELSE [m EXCEPT !.newest_generation = g, !.ciphers = aged]
  BY DEF RecordGeneration, Manager
<1> HIDE DEF aged
<1> QED  BY ZenonT(30), <1>2, <1>3 DEF Manager, SameWindow

\* Pruning the window (prune_before) only removes members.
LEMMA PruneBeforeType ==
  ASSUME NEW m \in Manager, NEW oldest \in Nat
  PROVE  /\ PruneBefore(m, oldest) \in Manager
         /\ PruneBefore(m, oldest).epoch = m.epoch
         /\ PruneBefore(m, oldest).newest_nonce = m.newest_nonce
         /\ PruneBefore(m, oldest).members \subseteq m.members
<1> DEFINE B == {i \in 1 .. Len(m.order) : m.order[i] < oldest}
           k == CHOOSE j \in 0 .. Len(m.order) :
                  /\ \A i \in 1 .. j : m.order[i] < oldest
                  /\ j < Len(m.order) => m.order[j + 1] >= oldest
<1>1. m.order \in Seq(Nat) /\ Len(m.order) \in Nat  BY DEF Manager
<1>2. \A i \in 1 .. Len(m.order) : m.order[i] \in Nat  BY <1>1
<1>3. k \in 0 .. Len(m.order)
  <2>1. PICK j \in 0 .. Len(m.order) :
          (\A i \in 1 .. j : i \in B) /\ (j < Len(m.order) => j + 1 \notin B)
    BY ZenonT(30), <1>1, PrefixExists
  <2>2. \A i \in 1 .. j : m.order[i] < oldest  BY <2>1
  <2>3. j < Len(m.order) => m.order[j + 1] >= oldest  BY <1>1, <1>2, <2>1
  <2> QED  BY <2>2, <2>3
<1> DEFINE rest == SubSeq(m.order, k + 1, Len(m.order))
           left == m.members \ {m.order[i] : i \in 1 .. k}
<1>4. PruneBefore(m, oldest) = [m EXCEPT !.order = rest, !.members = left]
  BY DEF PruneBefore, Manager
<1> HIDE DEF k
<1>5. rest \in Seq(Nat)
  <2>1. \A i \in (k + 1) .. Len(m.order) : m.order[i] \in Nat  BY <1>2, <1>3
  <2> QED  BY <1>1, <1>3, <2>1, SubSeqProperties
<1>6. left \in SUBSET Nat /\ left \subseteq m.members  BY DEF Manager
<1> HIDE DEF rest, left
<1> QED  BY ZenonT(30), <1>4, <1>5, <1>6 DEF Manager

\* push_back adds the nonces first .. last to the window and no other.
LEMMA PushBackType ==
  ASSUME NEW m \in Manager, NEW first \in Nat, NEW last \in Int
  PROVE  /\ PushBack(m, first, last) \in Manager
         /\ PushBack(m, first, last).epoch = m.epoch
         /\ PushBack(m, first, last).newest_nonce = m.newest_nonce
         /\ PushBack(m, first, last).members = m.members \cup (first .. last)
<1> DEFINE n == IF last < first THEN 0 ELSE last - first + 1
           fresh == [i \in 1 .. (last - first + 1) |-> first + i - 1]
<1>1. fresh \in [1 .. n -> Nat] /\ n \in Nat
  <2>1. 1 .. (last - first + 1) = 1 .. n  OBVIOUS
  <2>2. \A i \in 1 .. n : first + i - 1 \in Nat  OBVIOUS
  <2> QED  BY <2>1, <2>2
<1>2. fresh \in Seq(Nat)  BY <1>1, SeqDef
<1> HIDE DEF fresh
<1>3. m.order \o fresh \in Seq(Nat)  BY <1>2, ConcatProperties DEF Manager
<1> DEFINE queue == m.order \o fresh
           union == m.members \cup (first .. last)
<1>4. PushBack(m, first, last) = [m EXCEPT !.order = queue, !.members = union]
  BY DEF PushBack, Manager, fresh
<1>5. union \in SUBSET Nat /\ queue \in Seq(Nat)  BY <1>3 DEF Manager
<1>6. union = m.members \cup (first .. last)  OBVIOUS
<1> HIDE DEF queue, union
<1> QED  BY ZenonT(30), <1>4, <1>5, <1>6 DEF Manager

\* Recording a nonce marks it as seen and adds to the window only nonces that
\* were above everything seen before.
LEMMA RecordNonceFacts ==
  ASSUME NEW m \in Manager, WindowBelowNewest(m), NEW w \in Nat
  PROVE  /\ RecordNonce(m, w) \in Manager
         /\ RecordNonce(m, w).epoch = m.epoch
         /\ WindowBelowNewest(RecordNonce(m, w))
         /\ RecordNonce(m, w).newest_nonce \in Nat
         /\ w <= RecordNonce(m, w).newest_nonce
         /\ w \notin RecordNonce(m, w).members
         /\ m.newest_nonce # None => m.newest_nonce <= RecordNonce(m, w).newest_nonce
         /\ \A x \in RecordNonce(m, w).members :
              x \in m.members \/ (m.newest_nonce # None /\ x > m.newest_nonce)
<1> None \notin Nat  BY CryptorAssumption
<1>1. CASE m.newest_nonce = None
  <2>1. RecordNonce(m, w) = [m EXCEPT !.newest_nonce = w]  BY <1>1 DEF RecordNonce
  <2>2. w \in OptNat /\ w # None  BY DEF OptNat
  <2>3. m.members = {}  BY <1>1 DEF WindowBelowNewest
  <2>4. /\ RecordNonce(m, w) \in Manager
        /\ RecordNonce(m, w).epoch = m.epoch
        /\ RecordNonce(m, w).newest_nonce = w
        /\ RecordNonce(m, w).members = {}
    BY <2>1, <2>2, <2>3 DEF Manager
  <2> QED  BY <1>1, <2>2, <2>4 DEF WindowBelowNewest
<1>2. CASE m.newest_nonce # None /\ w > m.newest_nonce
  <2> DEFINE oldest == IF w < MaxMissingNonces THEN 0 ELSE w - MaxMissingNonces
             from   == IF oldest > m.newest_nonce THEN oldest ELSE m.newest_nonce + 1
             pruned == PruneBefore(m, oldest)
             pushed == PushBack(pruned, from, w - 1)
  <2>1. m.newest_nonce \in Nat  BY <1>2 DEF Manager, OptNat
  <2>2. oldest \in Nat /\ from \in Nat /\ from > m.newest_nonce
    BY <2>1, CryptorAssumption
  <2>3. RecordNonce(m, w) = [pushed EXCEPT !.newest_nonce = w]
    BY <1>2 DEF RecordNonce
  <2> HIDE DEF oldest, from
  <2>4. /\ pruned \in Manager /\ pruned.epoch = m.epoch
        /\ pruned.members \subseteq m.members
    BY <2>2, PruneBeforeType
  <2> HIDE DEF pruned
  <2>5. /\ pushed \in Manager /\ pushed.epoch = m.epoch
        /\ pushed.members = pruned.members \cup (from .. (w - 1))
    <3> DEFINE last == w - 1
    <3>1. last \in Int  OBVIOUS
    <3>2. pushed = PushBack(pruned, from, last)  OBVIOUS
    <3> HIDE DEF last, pushed
    <3>3. /\ PushBack(pruned, from, last) \in Manager
          /\ PushBack(pruned, from, last).epoch = pruned.epoch
          /\ PushBack(pruned, from, last).members = pruned.members \cup (from .. last)
      BY ONLY <2>2, <2>4, <3>1, PushBackType
    <3>4. /\ pushed \in Manager /\ pushed.epoch = m.epoch
          /\ pushed.members = pruned.members \cup (from .. last)
      BY <2>4, <3>2, <3>3
    <3> QED  BY <3>4 DEF last
  <2> HIDE DEF pushed
  <2>6. /\ RecordNonce(m, w) \in Manager
        /\ RecordNonce(m, w).epoch = m.epoch
        /\ RecordNonce(m, w).newest_nonce = w
        /\ RecordNonce(m, w).members = pruned.members \cup (from .. (w - 1))
    BY ZenonT(30), <2>3, <2>5 DEF Manager, OptNat
  <2>7. \A x \in m.members : x < m.newest_nonce /\ x \in Nat
    BY <1>2 DEF WindowBelowNewest, Manager
  <2>8. \A x \in RecordNonce(m, w).members : x < w
    BY <1>2, <2>1, <2>2, <2>4, <2>6, <2>7
  <2>9. \A x \in RecordNonce(m, w).members : x \in m.members \/ x > m.newest_nonce
    BY <2>1, <2>2, <2>4, <2>6
  <2> QED  BY <1>2, <2>1, <2>6, <2>8, <2>9 DEF WindowBelowNewest
<1>3. CASE m.newest_nonce # None /\ ~(w > m.newest_nonce)
  <2>1. m.newest_nonce \in Nat  BY <1>3 DEF Manager, OptNat
  <2>2. RecordNonce(m, w) = [m EXCEPT !.members = m.members \ {w}]
    BY <1>3 DEF RecordNonce, Manager
  <2>3. /\ RecordNonce(m, w) \in Manager
        /\ RecordNonce(m, w).epoch = m.epoch
        /\ RecordNonce(m, w).newest_nonce = m.newest_nonce
        /\ RecordNonce(m, w).members = m.members \ {w}
    BY ZenonT(30), <2>2 DEF Manager
  <2> QED  BY <1>3, <2>1, <2>3 DEF WindowBelowNewest
<1> QED  BY <1>1, <1>2, <1>3

\* One manager, one frame: a manager that does not open the frame keeps its
\* window; one that does had not seen the frame's position and has now.
LEMMA ManagerDecryptFacts ==
  ASSUME NEW m \in Manager, WindowBelowNewest(m), NEW f \in Frame, NEW t \in Nat
  PROVE  LET d == ManagerDecrypt(m, f, t)
         IN  /\ d.manager \in Manager
             /\ d.manager.epoch = m.epoch
             /\ WindowBelowNewest(d.manager)
             /\ d.result # "Ok" => SameWindow(m, d.manager)
             /\ d.result = "Ok" =>
                  /\ f.epoch = m.epoch
                  /\ \/ m.newest_nonce = None
                     \/ Position(f) > m.newest_nonce
                     \/ Position(f) \in m.members
                  /\ Seen(d.manager, f)
                  /\ m.newest_nonce # None => m.newest_nonce <= d.manager.newest_nonce
                  /\ d.manager.newest_nonce \in Nat
                  /\ \A x \in d.manager.members :
                       x \in m.members \/ (m.newest_nonce # None /\ x > m.newest_nonce)
<1> None \notin Nat  BY CryptorAssumption
<1> DEFINE g       == ComputeWrappedGeneration(m.oldest_generation,
                                               f.nonce \div NoncesPerGeneration)
           cleaned == CleanupExpiredCiphers(m, t)
           opened  == WithCipher(cleaned, g, t)
           w       == WrappedNonce(g, f.nonce)
           noted   == RecordNonce(opened, w)
           after   == RecordGeneration(noted, g, t)
           d       == ManagerDecrypt(m, f, t)
           refused == \/ GenerationRefused(cleaned, g, t)
                      \/ ~HasCipher(cleaned, g) /\ ~RatchetHas(cleaned.ratchet, g)
           sealed  == f.epoch = m.epoch /\ f.generation = g
<1>1. f.nonce \in Nat /\ f.nonce \div NoncesPerGeneration \in Nat
  BY CryptorAssumption DEF Frame
<1>2. g \in Nat  BY <1>1, WrappedGenerationType DEF Manager
<1>3. w \in Nat  BY ZenonT(30), <1>1, <1>2, WrappedNonceType
<1>4. /\ ~CanProcessNonce(m, g, f.nonce) => d = [manager |-> m, result |-> "ReplayedNonce"]
      /\ CanProcessNonce(m, g, f.nonce) /\ refused
           => d = [manager |-> cleaned, result |-> "MissingCryptor"]
      /\ CanProcessNonce(m, g, f.nonce) /\ ~refused /\ ~sealed
           => d = [manager |-> opened, result |-> "Aead"]
      /\ CanProcessNonce(m, g, f.nonce) /\ ~refused /\ sealed
           => d = [manager |-> after, result |-> "Ok"]
  <2>1. d = IF ~CanProcessNonce(m, g, f.nonce)
            THEN [manager |-> m, result |-> "ReplayedNonce"]
            ELSE IF refused
            THEN [manager |-> cleaned, result |-> "MissingCryptor"]
            ELSE IF f.epoch # m.epoch \/ f.generation # g
            THEN [manager |-> opened, result |-> "Aead"]
            ELSE [manager |-> after, result |-> "Ok"]
    BY DEF ManagerDecrypt, ReportSuccess
  <2> HIDE DEF d, g, cleaned, opened, after, refused
  <2> QED  BY <2>1
<1>5. sealed => w = Position(f) /\ f.epoch = m.epoch  BY DEF Position
<1>6. CanProcessNonce(m, g, f.nonce) =>
        m.newest_nonce = None \/ w > m.newest_nonce \/ w \in m.members
  BY DEF CanProcessNonce
<1> HIDE DEF g, w, d, refused, sealed
<1>7. cleaned \in Manager /\ SameWindow(m, cleaned)  BY CleanupCiphersType
<1> HIDE DEF cleaned
<1>8. opened \in Manager /\ SameWindow(m, opened)
  BY <1>2, <1>7, WithCipherType DEF SameWindow
<1> HIDE DEF opened
<1>9. WindowBelowNewest(cleaned) /\ WindowBelowNewest(opened)
  BY <1>7, <1>8 DEF SameWindow, WindowBelowNewest
<1>10. /\ noted \in Manager
       /\ noted.epoch = opened.epoch
       /\ WindowBelowNewest(noted)
       /\ noted.newest_nonce \in Nat
       /\ w <= noted.newest_nonce
       /\ w \notin noted.members
       /\ opened.newest_nonce # None => opened.newest_nonce <= noted.newest_nonce
       /\ \A x \in noted.members :
            x \in opened.members \/ (opened.newest_nonce # None /\ x > opened.newest_nonce)
  BY <1>3, <1>8, <1>9, RecordNonceFacts
<1> HIDE DEF noted
<1>11. after \in Manager /\ SameWindow(noted, after)
  BY <1>2, <1>10, RecordGenerationType
<1> HIDE DEF after
<1>12. WindowBelowNewest(after)
  BY <1>10, <1>11 DEF SameWindow, WindowBelowNewest
<1>13. CASE ~CanProcessNonce(m, g, f.nonce)
  BY <1>4, <1>13 DEF d, SameWindow
<1>14. CASE CanProcessNonce(m, g, f.nonce) /\ refused
  BY <1>4, <1>7, <1>9, <1>14 DEF d, SameWindow
<1>15. CASE CanProcessNonce(m, g, f.nonce) /\ ~refused /\ ~sealed
  BY <1>4, <1>8, <1>9, <1>15 DEF d, SameWindow
<1>16. CASE CanProcessNonce(m, g, f.nonce) /\ ~refused /\ sealed
  <2>1. d.manager = after /\ d.result = "Ok"  BY <1>4, <1>16
  <2>2. /\ after.epoch = m.epoch
        /\ after.newest_nonce = noted.newest_nonce
        /\ after.members = noted.members
    BY <1>8, <1>10, <1>11 DEF SameWindow
  <2>3. /\ m.newest_nonce # None => m.newest_nonce <= after.newest_nonce
        /\ after.newest_nonce \in Nat
        /\ \A x \in after.members :
             x \in m.members \/ (m.newest_nonce # None /\ x > m.newest_nonce)
    BY <1>8, <1>10, <2>2 DEF SameWindow
  <2>4. Seen(after, f)  BY <1>5, <1>10, <1>16, <2>2 DEF Seen
  <2> QED  BY <1>5, <1>6, <1>11, <1>12, <1>16, <2>1, <2>2, <2>3, <2>4 DEF d
<1> QED  BY <1>13, <1>14, <1>15, <1>16

-----------------------------------------------------------------------------
(* The invariant *)

Inv == TypeOK /\ ReplayInv

\* The part of ReplayInv about managers, for a sequence of them.
ManagersOK(ms, epoch) ==
  \A i \in 1 .. Len(ms) :
    /\ WindowBelowNewest(ms[i])
    /\ ms[i].epoch <= epoch
    /\ \A j \in 1 .. Len(ms) : ms[i].epoch = ms[j].epoch => i = j
    /\ \A f \in delivered : f.epoch = ms[i].epoch => Seen(ms[i], f)

\* Cleaning up removes a prefix of the managers.
LEMMA CleanupManagersFacts ==
  ASSUME managers \in Seq(Manager)
  PROVE  /\ CleanupExpiredManagers \in Seq(Manager)
         /\ \E k \in 0 .. Len(managers) :
              /\ Len(CleanupExpiredManagers) = Len(managers) - k
              /\ \A i \in 1 .. (Len(managers) - k) : CleanupExpiredManagers[i] = managers[k + i]
<1> DEFINE n == Len(managers)
           B == {i \in 1 .. n : Expired(managers[i])}
           k == CHOOSE j \in 0 .. n :
                  /\ \A i \in 1 .. j : Expired(managers[i])
                  /\ j < n => ~Expired(managers[j + 1])
<1>1. n \in Nat /\ \A i \in 1 .. n : managers[i] \in Manager  OBVIOUS
<1>2. k \in 0 .. n
  <2>1. PICK j \in 0 .. n : (\A i \in 1 .. j : i \in B) /\ (j < n => j + 1 \notin B)
    BY ZenonT(30), <1>1, PrefixExists
  <2>2. /\ \A i \in 1 .. j : Expired(managers[i])
        /\ j < n => ~Expired(managers[j + 1])
    BY <1>1, <2>1
  <2> QED  BY <2>2
<1>3. CleanupExpiredManagers = SubSeq(managers, k + 1, n)  BY DEF CleanupExpiredManagers
<1> HIDE DEF k
<1>4. \A i \in (k + 1) .. n : managers[i] \in Manager  BY <1>1, <1>2
<1>5. /\ SubSeq(managers, k + 1, n) \in Seq(Manager)
      /\ Len(SubSeq(managers, k + 1, n)) = IF k + 1 <= n THEN n - (k + 1) + 1 ELSE 0
      /\ \A i \in 1 .. (n - (k + 1) + 1) : SubSeq(managers, k + 1, n)[i] = managers[(k + 1) + i - 1]
  BY <1>1, <1>2, <1>4, SubSeqProperties
<1>6. Len(CleanupExpiredManagers) = n - k  BY <1>1, <1>2, <1>3, <1>5
<1>7. ASSUME NEW i \in 1 .. (n - k)  PROVE CleanupExpiredManagers[i] = managers[k + i]
  BY <1>1, <1>2, <1>3, <1>5
<1> QED  BY <1>2, <1>3, <1>5, <1>6, <1>7

\* What is left after cleanup_expired_managers is still in order: one manager
\* per epoch, each with every opened frame of its epoch marked as seen.
LEMMA CleanupManagersOK ==
  ASSUME managers \in Seq(Manager), NEW e \in Nat, ManagersOK(managers, e)
  PROVE  ManagersOK(CleanupExpiredManagers, e)
<1> DEFINE kept == CleanupExpiredManagers
<1>1. PICK k \in 0 .. Len(managers) :
        /\ Len(kept) = Len(managers) - k
        /\ \A i \in 1 .. (Len(managers) - k) : kept[i] = managers[k + i]
  BY CleanupManagersFacts
<1>2. Len(managers) \in Nat  OBVIOUS
<1> HIDE DEF kept
<1> SUFFICES ASSUME NEW i \in 1 .. Len(kept)
             PROVE  /\ WindowBelowNewest(kept[i])
                    /\ kept[i].epoch <= e
                    /\ \A j \in 1 .. Len(kept) : kept[i].epoch = kept[j].epoch => i = j
                    /\ \A f \in delivered : f.epoch = kept[i].epoch => Seen(kept[i], f)
  BY DEF ManagersOK, kept
<1>3. k + i \in 1 .. Len(managers) /\ kept[i] = managers[k + i]  BY <1>1, <1>2
<1>4. ASSUME NEW j \in 1 .. Len(kept), kept[i].epoch = kept[j].epoch  PROVE i = j
  <2>1. k + j \in 1 .. Len(managers) /\ kept[j] = managers[k + j]  BY <1>1, <1>2
  <2>2. k + i = k + j  BY <1>3, <1>4, <2>1 DEF ManagersOK
  <2> QED  BY <1>2, <2>2
<1> QED  BY <1>3, <1>4 DEF ManagersOK

\* The inductive invariant holds of a fresh Encryptor and Decryptor.
LEMMA InitInv == Init => Inv
<1> SUFFICES ASSUME Init PROVE Inv  OBVIOUS
<1>1. TypeOK  BY DEF Init, TypeOK, NewEncryptor, OptNat
<1>2. delivered = {} /\ deliveries = 0 /\ managers = << >>  BY DEF Init
<1>3. ReplayInv  BY <1>2, FS_EmptySet DEF ReplayInv, NoReplay
<1> QED  BY <1>1, <1>3 DEF Inv

\* Steps that leave the receiver alone keep its part of the invariant.
LEMMA SenderStep ==
  ASSUME Inv, TypeOK', managers' = managers, delivered' = delivered,
         deliveries' = deliveries, group_epoch'.receiver = group_epoch.receiver
  PROVE  Inv'
<1>1. ReplayInv'
  BY DEF Inv, ReplayInv, NoReplay, Seen, Position, WindowBelowNewest
<1> QED  BY <1>1 DEF Inv

\* advance_cipher leaves the Encryptor with a cipher.
LEMMA AdvanceCipherType ==
  ASSUME TypeOK
  PROVE  /\ AdvanceCipher(encryptor) \in [active : OptNat, pending : OptNat, cipher : OptNat,
                                          generation : Nat, nonce : Nat]
         /\ AdvanceCipher(encryptor).cipher \in Nat
<1> DEFINE e == encryptor
           nonce == (e.nonce + 1) % (GenerationWrap * NoncesPerGeneration)
           generation == ComputeWrappedGeneration(e.generation, nonce \div NoncesPerGeneration)
           cipher == IF generation # e.generation \/ e.cipher = None THEN generation ELSE e.cipher
<1>1. e.nonce \in Nat /\ e.generation \in Nat /\ e.cipher \in OptNat  BY DEF TypeOK
<1>2. GenerationWrap * NoncesPerGeneration \in Nat \ {0}  BY CryptorAssumption
<1>3. nonce \in Nat  BY <1>1, <1>2
<1> HIDE DEF nonce
<1>4. nonce \div NoncesPerGeneration \in Nat  BY <1>3, CryptorAssumption
<1>5. generation \in Nat  BY ZenonT(30), <1>1, <1>4, WrappedGenerationType
<1>6. AdvanceCipher(e) = [e EXCEPT !.nonce = nonce, !.generation = generation, !.cipher = cipher]
  BY DEF AdvanceCipher, TypeOK, nonce
<1> HIDE DEF generation
<1>7. cipher \in Nat /\ cipher \in OptNat  BY <1>1, <1>5 DEF OptNat
<1> HIDE DEF cipher
<1> QED  BY ZenonT(30), <1>3, <1>5, <1>6, <1>7 DEF TypeOK

\* Sealing a frame keeps the invariant: the receiver is not involved.
LEMMA EncryptStep ==
  ASSUME Inv, NEW valid \in BOOLEAN, Encrypt(valid)
  PROVE  Inv'
<1> DEFINE f == [epoch |-> encryptor.active, generation |-> encryptor'.cipher,
                 nonce |-> encryptor'.nonce]
<1>1. TypeOK  BY DEF Inv
<1>2. /\ encryptor' \in [active : OptNat, pending : OptNat, cipher : OptNat,
                         generation : Nat, nonce : Nat]
      /\ encryptor'.cipher \in Nat
  BY <1>1, AdvanceCipherType DEF Encrypt
<1>3. encryptor.active \in Nat  BY <1>1 DEF Encrypt, TypeOK, OptNat
<1>4. f \in Frame  BY <1>2, <1>3 DEF Frame
<1>5. /\ sent' = sent \/ sent' = sent \cup {f}
      /\ emissions' = emissions \/ emissions' = emissions + 1
  BY DEF Encrypt
<1> HIDE DEF f
<1>6. sent' \subseteq Frame /\ delivered \subseteq sent' /\ emissions' \in Nat
  BY <1>1, <1>4, <1>5 DEF TypeOK
<1>7. UNCHANGED <<now, group_epoch, managers, delivered, deliveries>>  BY DEF Encrypt
<1>8. TypeOK'  BY <1>1, <1>2, <1>6, <1>7 DEF TypeOK
<1> QED  BY <1>7, <1>8, SenderStep

\* A transition keeps the invariant: the new manager is of an epoch of which
\* nothing has been opened.
LEMMA TransitionStep ==
  ASSUME Inv, TransitionToRatchet
  PROVE  Inv'
<1> None \notin Nat  BY CryptorAssumption
<1> DEFINE n   == Len(managers)
           e   == group_epoch.receiver + 1
           old == [i \in 1 .. n |-> [managers[i] EXCEPT !.expiry = now + RatchetExpiry]]
           new == NewManager(e, now)
<1>1. TypeOK /\ ReplayInv  BY DEF Inv
<1>2. /\ n \in Nat /\ now \in Nat /\ e \in Nat
      /\ \A i \in 1 .. n : managers[i] \in Manager
      /\ group_epoch.receiver \in Nat
  BY <1>1 DEF TypeOK
<1>3. new \in Manager /\ new.epoch = e /\ new.newest_nonce = None /\ new.members = {}
  BY <1>2 DEF NewManager, Manager, NewRatchet, OptNat
<1>4. ASSUME NEW i \in 1 .. n
      PROVE  old[i] \in Manager /\ SameWindow(managers[i], old[i])
  <2>1. now + RatchetExpiry \in OptNat  BY <1>2, MediaCipherAssumption DEF OptNat
  <2>2. managers[i] \in Manager  BY <1>2
  <2> QED  BY <2>1, <2>2 DEF Manager, SameWindow
<1>5. old \in [1 .. n -> Manager]  BY <1>4
<1>6. old \in Seq(Manager) /\ Len(old) = n  BY <1>2, <1>5, SeqDef
<1> HIDE DEF old, new
<1>7. managers' = Append(old, new) /\ group_epoch' = [group_epoch EXCEPT !.receiver = e]
  BY DEF TransitionToRatchet, old, new
<1>8. /\ managers' \in Seq(Manager) /\ Len(managers') = n + 1
      /\ \A i \in 1 .. n : managers'[i] = old[i]
      /\ managers'[n + 1] = new
  BY <1>3, <1>6, <1>7, AppendProperties
<1>9. /\ group_epoch' \in [sender : Nat, receiver : Nat]
      /\ group_epoch'.receiver = e
  BY ZenonT(30), <1>1, <1>2, <1>7 DEF TypeOK
<1>10. UNCHANGED <<now, encryptor, sent, emissions, delivered, deliveries>>
  BY DEF TransitionToRatchet
<1>11. TypeOK'  BY <1>1, <1>8, <1>9, <1>10 DEF TypeOK
<1>12. \A f \in delivered : f.epoch \in Nat /\ f.epoch <= group_epoch.receiver
  BY <1>1 DEF TypeOK, ReplayInv, Frame
<1>13. ASSUME NEW i \in 1 .. n
       PROVE  /\ WindowBelowNewest(managers'[i])
              /\ managers'[i].epoch = managers[i].epoch
              /\ managers[i].epoch \in Nat /\ managers[i].epoch <= group_epoch.receiver
              /\ \A f \in delivered : f.epoch = managers[i].epoch => Seen(managers'[i], f)
  <2>1. SameWindow(managers[i], managers'[i])  BY <1>4, <1>8
  <2>2. managers[i] \in Manager  BY <1>2
  <2> QED  BY <1>1, <2>1, <2>2 DEF ReplayInv, SameWindow, WindowBelowNewest, Seen, Manager
<1>14. ASSUME NEW i \in 1 .. (n + 1)
       PROVE  /\ WindowBelowNewest(managers'[i])
              /\ managers'[i].epoch <= e
              /\ \A j \in 1 .. (n + 1) : managers'[i].epoch = managers'[j].epoch => i = j
              /\ \A f \in delivered : f.epoch = managers'[i].epoch => Seen(managers'[i], f)
  <2>1. CASE i = n + 1
    <3>1. managers'[i] = new  BY <1>8, <2>1
    <3>2. \A f \in delivered : f.epoch # e  BY <1>2, <1>12
    <3>3. \A j \in 1 .. n : managers'[j].epoch # e  BY <1>2, <1>13
    <3>4. \A j \in 1 .. (n + 1) : managers'[i].epoch = managers'[j].epoch => i = j
      BY <1>2, <1>3, <2>1, <3>1, <3>3
    <3> QED  BY <1>2, <1>3, <3>1, <3>2, <3>4 DEF WindowBelowNewest
  <2>2. CASE i # n + 1
    <3>1. i \in 1 .. n  BY <1>2, <2>2
    <3>2. \A j \in 1 .. n : managers[i].epoch = managers[j].epoch => i = j
      BY <1>1, <3>1 DEF ReplayInv
    <3>3. ASSUME NEW j \in 1 .. (n + 1), managers'[i].epoch = managers'[j].epoch
          PROVE  i = j
      <4>1. managers'[i].epoch = managers[i].epoch /\ managers[i].epoch # e
        BY <1>2, <1>13, <3>1
      <4>2. managers'[n + 1].epoch = e  BY <1>3, <1>8
      <4>2a. j # n + 1  BY ZenonT(30), <3>3, <4>1, <4>2
      <4>3. j \in 1 .. n  BY <1>2, <4>2a
      <4> QED  BY ZenonT(30), <1>13, <3>2, <3>3, <4>1, <4>3
    <3> QED  BY <1>2, <1>13, <3>1, <3>3
  <2> QED  BY <2>1, <2>2
<1>15. \A f \in delivered : f.epoch <= e  BY <1>2, <1>12
<1>16. ReplayInv'
  BY <1>1, <1>8, <1>9, <1>10, <1>14, <1>15
     DEF ReplayInv, NoReplay, Seen, Position, WindowBelowNewest
<1> QED  BY <1>11, <1>16 DEF Inv

\* The manager that opens a frame has not opened it before; afterwards it has
\* seen it, and everything it had seen.
LEMMA OpeningManager ==
  ASSUME NEW m \in Manager, WindowBelowNewest(m), NEW f \in Frame, NEW t \in Nat,
         ManagerDecrypt(m, f, t).result = "Ok"
  PROVE  /\ ~Seen(m, f)
         /\ \A g \in Frame : Seen(m, g) => Seen(ManagerDecrypt(m, f, t).manager, g)
<1> DEFINE n == ManagerDecrypt(m, f, t).manager
<1>1. /\ \/ m.newest_nonce = None
         \/ Position(f) > m.newest_nonce
         \/ Position(f) \in m.members
      /\ m.newest_nonce # None => m.newest_nonce <= n.newest_nonce
      /\ n.newest_nonce \in Nat
      /\ \A x \in n.members : x \in m.members \/ (m.newest_nonce # None /\ x > m.newest_nonce)
  BY ManagerDecryptFacts
<1> HIDE DEF n
<1>2. \A g \in Frame : Position(g) \in Nat  BY WrappedNonceType DEF Frame, Position
<1>3. m.newest_nonce # None => m.newest_nonce \in Nat  BY DEF Manager, OptNat
<1>4. None \notin Nat  BY CryptorAssumption
<1>5. ~Seen(m, f)  BY <1>1, <1>2, <1>3 DEF Seen
<1>6. ASSUME NEW g \in Frame, Seen(m, g)  PROVE Seen(n, g)
  BY <1>1, <1>2, <1>3, <1>4, <1>6 DEF Seen
<1> QED  BY <1>5, <1>6 DEF n

\* Decryptor::decrypt keeps the invariant: at most one manager opens the frame,
\* it had not seen it, and every manager keeps what it has seen.
LEMMA DecryptStep ==
  ASSUME Inv, NEW f \in sent, Decrypt(f)
  PROVE  Inv'
<1> DEFINE kept    == CleanupExpiredManagers
           tried   == [i \in 1 .. Len(kept) |-> ManagerDecrypt(kept[i], f, now)]
           opening == {i \in 1 .. Len(kept) : tried[i].result = "Ok"}
           reached == {i \in 1 .. Len(kept) : \A j \in opening : j <= i}
           e       == group_epoch.receiver
<1>1. TypeOK /\ ReplayInv  BY DEF Inv
<1>2. /\ managers \in Seq(Manager) /\ now \in Nat /\ e \in Nat
      /\ f \in Frame /\ delivered \subseteq Frame /\ deliveries \in Nat
  BY <1>1 DEF TypeOK
<1>3. ManagersOK(managers, e)  BY <1>1 DEF ReplayInv, ManagersOK
<1>4. kept \in Seq(Manager) /\ ManagersOK(kept, e)
  BY <1>2, <1>3, CleanupManagersFacts, CleanupManagersOK
<1>5. /\ managers' = [i \in 1 .. Len(kept) |->
                        IF i \in reached THEN tried[i].manager ELSE kept[i]]
      /\ opening # {} => delivered' = delivered \cup {f} /\ deliveries' = deliveries + 1
      /\ opening = {} => delivered' = delivered /\ deliveries' = deliveries
      /\ UNCHANGED <<now, group_epoch, encryptor, sent, emissions>>
  BY ZenonT(30) DEF Decrypt
<1> HIDE DEF kept
<1>6. Len(kept) \in Nat /\ \A i \in 1 .. Len(kept) : kept[i] \in Manager  BY <1>4
<1>7. ASSUME NEW i \in 1 .. Len(kept)
      PROVE  /\ tried[i].manager \in Manager
             /\ tried[i].manager.epoch = kept[i].epoch
             /\ WindowBelowNewest(tried[i].manager)
             /\ tried[i].result # "Ok" => SameWindow(kept[i], tried[i].manager)
             /\ tried[i].result = "Ok" =>
                  /\ f.epoch = kept[i].epoch
                  /\ Seen(tried[i].manager, f)
                  /\ ~Seen(kept[i], f)
                  /\ \A g \in Frame : Seen(kept[i], g) => Seen(tried[i].manager, g)
  <2>1. kept[i] \in Manager /\ WindowBelowNewest(kept[i])  BY <1>4, <1>6 DEF ManagersOK
  <2>2. tried[i] = ManagerDecrypt(kept[i], f, now)  OBVIOUS
  <2> HIDE DEF tried
  <2>3. /\ tried[i].manager \in Manager
        /\ tried[i].manager.epoch = kept[i].epoch
        /\ WindowBelowNewest(tried[i].manager)
        /\ tried[i].result # "Ok" => SameWindow(kept[i], tried[i].manager)
        /\ tried[i].result = "Ok" =>
             f.epoch = kept[i].epoch /\ Seen(tried[i].manager, f)
    BY <1>2, <2>1, <2>2, ManagerDecryptFacts
  <2>4. ASSUME tried[i].result = "Ok"
        PROVE  /\ ~Seen(kept[i], f)
               /\ \A g \in Frame : Seen(kept[i], g) => Seen(tried[i].manager, g)
    BY <1>2, <2>1, <2>2, <2>4, OpeningManager
  <2> QED  BY <2>3, <2>4
<1> HIDE DEF tried
<1>8. \A i, j \in opening : i = j
  BY <1>4, <1>7 DEF ManagersOK
<1>9. opening \subseteq reached  BY <1>8, <1>6
<1>10. ASSUME NEW i \in 1 .. Len(kept)
       PROVE  /\ managers'[i] \in Manager
              /\ managers'[i].epoch = kept[i].epoch
              /\ WindowBelowNewest(managers'[i])
              /\ i \in opening => managers'[i] = tried[i].manager
              /\ i \notin opening => SameWindow(kept[i], managers'[i])
  <2>1. managers'[i] = IF i \in reached THEN tried[i].manager ELSE kept[i]  BY <1>5
  <2>2. CASE i \in opening  BY <1>7, <1>9, <2>1, <2>2
  <2>3. CASE i \notin opening
    <3>1. WindowBelowNewest(kept[i]) /\ kept[i] \in Manager  BY <1>4, <1>6 DEF ManagersOK
    <3>2. tried[i].result # "Ok"  BY <2>3
    <3>3. SameWindow(kept[i], managers'[i])  BY <1>7, <2>1, <3>2 DEF SameWindow
    <3> QED  BY <1>7, <2>1, <2>3, <3>1, <3>3
  <2> QED  BY <2>2, <2>3
<1>11. Len(managers') = Len(kept) /\ managers' \in Seq(Manager)
  <2>1. managers' \in [1 .. Len(kept) -> Manager]  BY <1>5, <1>10
  <2> QED  BY <1>6, <2>1, SeqDef
<1>12. opening # {} => f \notin delivered
  BY <1>4, <1>7 DEF ManagersOK
<1>13. opening # {} => f.epoch <= e
  BY <1>4, <1>7 DEF ManagersOK
<1>14. /\ delivered' \subseteq delivered \cup {f}
       /\ delivered' \subseteq sent' /\ deliveries' \in Nat
  BY <1>1, <1>5 DEF TypeOK
<1>15. TypeOK'  BY <1>1, <1>5, <1>11, <1>14 DEF TypeOK
<1>16. IsFiniteSet(delivered') /\ deliveries' = Cardinality(delivered')
  <2>1. IsFiniteSet(delivered) /\ deliveries = Cardinality(delivered)
    BY <1>1 DEF ReplayInv, NoReplay
  <2> QED  BY <1>5, <1>12, <2>1, FS_AddElement
<1>17. ASSUME NEW i \in 1 .. Len(kept), NEW g \in delivered', g.epoch = kept[i].epoch
       PROVE  Seen(managers'[i], g)
  <2>1. CASE g = f /\ opening # {}
    <3>1. PICK h \in opening : TRUE  BY <2>1
    <3>2. kept[h].epoch = kept[i].epoch /\ h \in 1 .. Len(kept)  BY <1>7, <1>17, <2>1, <3>1
    <3>3. i = h  BY <1>4, <3>2 DEF ManagersOK
    <3> QED  BY <1>7, <1>10, <2>1, <3>1, <3>3
  <2>2. CASE g \in delivered
    <3>1. Seen(kept[i], g) /\ g \in Frame  BY <1>2, <1>4, <1>17, <2>2 DEF ManagersOK
    <3>2. CASE i \in opening  BY <1>7, <1>10, <3>1, <3>2
    <3>3. CASE i \notin opening
      <4>1. SameWindow(kept[i], managers'[i])  BY <1>10, <3>3
      <4> QED  BY <3>1, <4>1 DEF SameWindow, Seen
    <3> QED  BY <3>2, <3>3
  <2> QED  BY <1>5, <1>17, <2>1, <2>2
<1>18. \A g \in delivered' : g.epoch <= e
  BY <1>1, <1>5, <1>13, <1>14 DEF ReplayInv
<1>19. ASSUME NEW i \in 1 .. Len(kept)
       PROVE  /\ managers'[i].epoch <= e
              /\ \A j \in 1 .. Len(kept) : managers'[i].epoch = managers'[j].epoch => i = j
  BY <1>4, <1>10 DEF ManagersOK
<1>20. ReplayInv'
  <2>1. NoReplay'  BY <1>16 DEF NoReplay
  <2>2. e' = e /\ 1 .. Len(managers') = 1 .. Len(kept)  BY <1>5, <1>11
  <2>3. ASSUME NEW i \in 1 .. Len(managers')
        PROVE  /\ WindowBelowNewest(managers'[i])
               /\ managers'[i].epoch <= e'
               /\ \A j \in 1 .. Len(managers') :
                    managers'[i].epoch = managers'[j].epoch => i = j
    BY <1>10, <1>19, <2>2
  <2>4. ASSUME NEW i \in 1 .. Len(managers'), NEW g \in delivered',
               g.epoch = managers'[i].epoch
        PROVE  Seen(managers'[i], g)
    BY <1>10, <1>17, <2>2, <2>4
  <2> QED  BY <1>16, <1>18, <2>1, <2>2, <2>3, <2>4
           DEF ReplayInv, Seen, Position, WindowBelowNewest
<1> QED  BY <1>15, <1>20 DEF Inv

\* A frame that is not encrypted only cleans up managers.
LEMMA DecryptPlainStep ==
  ASSUME Inv, DecryptPlain
  PROVE  Inv'
<1> DEFINE e == group_epoch.receiver
<1>1. TypeOK /\ ReplayInv  BY DEF Inv
<1>2. managers \in Seq(Manager) /\ e \in Nat /\ ManagersOK(managers, e)
  BY <1>1 DEF TypeOK, ReplayInv, ManagersOK
<1>3. managers' \in Seq(Manager)  BY <1>2, CleanupManagersFacts DEF DecryptPlain
<1>4. ManagersOK(managers', e)  BY <1>2, CleanupManagersOK DEF DecryptPlain
<1>5. UNCHANGED <<now, group_epoch, encryptor, sent, emissions, delivered, deliveries>>
  BY DEF DecryptPlain
<1>6. TypeOK'  BY <1>1, <1>3, <1>5 DEF TypeOK
<1>7. ReplayInv'
  BY <1>1, <1>4, <1>5 DEF ReplayInv, NoReplay, ManagersOK, Seen, Position, WindowBelowNewest
<1> QED  BY <1>6, <1>7 DEF Inv

\* A Decryptor that is dropped forgets its windows, but its epochs are not used
\* for a new manager again.
LEMMA DropDecryptorStep ==
  ASSUME Inv, DropDecryptor
  PROVE  Inv'
<1>1. TypeOK /\ ReplayInv  BY DEF Inv
<1>2. managers' = << >> /\ Len(managers') = 0  BY DEF DropDecryptor
<1>3. UNCHANGED <<now, group_epoch, encryptor, sent, emissions, delivered, deliveries>>
  BY DEF DropDecryptor
<1>4. TypeOK'  BY <1>1, <1>2, <1>3 DEF TypeOK
<1>5. ReplayInv'
  <2>1. /\ deliveries = Cardinality(delivered) /\ IsFiniteSet(delivered)
        /\ \A f \in delivered : f.epoch <= group_epoch.receiver
    BY <1>1 DEF ReplayInv, NoReplay
  <2>2. /\ deliveries' = Cardinality(delivered') /\ IsFiniteSet(delivered')
        /\ \A f \in delivered' : f.epoch <= group_epoch'.receiver
    BY <2>1, <1>3
  <2>3. \A i \in 1 .. Len(managers') : FALSE  BY <1>2
  <2> QED  BY <2>2, <2>3 DEF ReplayInv, NoReplay
<1> QED  BY <1>4, <1>5 DEF Inv

\* Every step keeps the inductive invariant.
LEMMA NextInv == Inv /\ [Next]_vars => Inv'
<1> SUFFICES ASSUME Inv, [Next]_vars PROVE Inv'  OBVIOUS
<1> TypeOK  BY DEF Inv
<1>1. CASE StageRatchet
  <2>0. group_epoch.sender + 1 \in OptNat  BY DEF TypeOK, OptNat
  <2>1. /\ encryptor' \in [active : OptNat, pending : OptNat, cipher : OptNat,
                          generation : Nat, nonce : Nat]
        /\ group_epoch' \in [sender : Nat, receiver : Nat]
    <3>1. encryptor' = [encryptor EXCEPT !.pending = group_epoch.sender + 1]
      BY <1>1 DEF StageRatchet
    <3>2. group_epoch' = [group_epoch EXCEPT !.sender = @ + 1]  BY <1>1 DEF StageRatchet
    <3> QED  BY <2>0, <3>1, <3>2 DEF TypeOK
  <2>2. TypeOK'  BY <1>1, <2>1 DEF StageRatchet, TypeOK
  <2> QED  BY <1>1, <2>2, SenderStep DEF StageRatchet, TypeOK
<1>2. CASE ActivatePending
  <2>1. TypeOK'  BY <1>2 DEF ActivatePending, NewEncryptor, TypeOK, OptNat
  <2> QED  BY <1>2, <2>1, SenderStep DEF ActivatePending
<1>3. CASE ResetEncryptor
  <2>1. TypeOK'  BY <1>3 DEF ResetEncryptor, NewEncryptor, TypeOK, OptNat
  <2> QED  BY <1>3, <2>1, SenderStep DEF ResetEncryptor
<1>4. CASE \E valid \in BOOLEAN : Encrypt(valid)  BY <1>4, EncryptStep
<1>5. CASE TransitionToRatchet  BY <1>5, TransitionStep
<1>6. CASE \E f \in sent : Decrypt(f)  BY <1>6, DecryptStep
<1>7. CASE DecryptPlain  BY <1>7, DecryptPlainStep
<1>8. CASE DropDecryptor  BY <1>8, DropDecryptorStep
<1>9. CASE Tick
  <2>1. TypeOK'  BY <1>9 DEF Tick, TypeOK
  <2> QED  BY <1>9, <2>1, SenderStep DEF Tick
<1>10. CASE UNCHANGED vars
  <2>1. TypeOK'  BY <1>10 DEF vars, TypeOK
  <2> QED  BY <1>10, <2>1, SenderStep DEF vars
<1> QED
  BY <1>1, <1>2, <1>3, <1>4, <1>5, <1>6, <1>7, <1>8, <1>9, <1>10 DEF Next

-----------------------------------------------------------------------------
(* Theorems *)

\* The Encryptor, the Decryptor and its managers keep their types whatever the
\* network does.
THEOREM TypeCorrect == Spec => []TypeOK
<1>1. Inv => TypeOK  BY DEF Inv
<1> QED  BY InitInv, NextInv, <1>1, PTL DEF Spec

\* No frame is opened twice, for any window size, retention window, generation
\* size and wrap, any number of epochs, and a network that repeats and reorders
\* frames without bound.
THEOREM NeverReplays == Spec => []NoReplay
<1>1. Inv => NoReplay  BY DEF Inv, ReplayInv
<1> QED  BY InitInv, NextInv, <1>1, PTL DEF Spec
=============================================================================
