---------------------------- MODULE ProtocolsProofs ----------------------------
(***************************************************************************)
(* Proofs about the two protocols that the workspace takes part in over a   *)
(* network.  RecordLayer, for any payloads, any number of records and of    *)
(* key updates and any width of the number: no nonce serves two records,    *)
(* and what is delivered is what was sent.  Opaque, for any users,          *)
(* passwords, sessions and arguments: a login that ends has a partner, and  *)
(* the right password is what ends it.                                      *)
(***************************************************************************)
EXTENDS Opaque, RecordLayer, WellFoundedInduction, FiniteSetTheorems, SequenceTheorems, TLAPS


-----------------------------------------------------------------------------
(* Numbers and their bits.  An induction over the bits is an argument about *)
(* the least counterexample.                                                *)

LEMMA Least ==
    ASSUME NEW T, T \subseteq Nat, T # {}
    PROVE  \E x \in T : \A y \in T : x <= y
  <1> DEFINE R == OpToRel(<, Nat)
  <1>1. IsWellFoundedOn(R, Nat)
    BY NatLessThanWellFounded
  <1> HIDE DEF R
  <1>2. PICK x \in T : \A y \in T : ~(<<y, x>> \in R)
    BY <1>1, WFMin
  <1>3. \A y \in T : ~(y < x)
    BY <1>2 DEF OpToRel, R
  <1> QED
    BY <1>3

ShiftsOf(n, b, f) == f = [i \in 0..b |-> IF i = 0 THEN n ELSE f[i - 1] \div 2]

\* There are shifts up to any number of bits.
LEMMA ShiftsExist ==
    ASSUME NEW n \in Nat, NEW b \in Nat
    PROVE  \E f : ShiftsOf(n, b, f)
  <1> DEFINE T == {c \in Nat : ~ \E f : ShiftsOf(n, c, f)}
  <1> SUFFICES ASSUME T # {} PROVE FALSE
    OBVIOUS
  <1>1. PICK c \in T : \A d \in T : c <= d
    BY Least
  <1>2. CASE c = 0
    <2>1. ShiftsOf(n, 0, [i \in 0..0 |-> n])
      BY DEF ShiftsOf
    <2> QED
      BY <1>1, <1>2, <2>1
  <1>3. CASE c # 0
    <2>1. c - 1 \in Nat /\ ~(c <= c - 1)
      BY <1>1, <1>3
    <2>2. PICK f : ShiftsOf(n, c - 1, f)
      BY <1>1, <2>1
    <2> DEFINE g == [i \in 0..c |-> IF i = c THEN f[c - 1] \div 2 ELSE f[i]]
    <2>3. ASSUME NEW i \in 0..c
          PROVE  g[i] = IF i = 0 THEN n ELSE g[i - 1] \div 2
      <3>1. \A j \in 0..(c - 1) : g[j] = f[j] /\ f[j] = IF j = 0 THEN n ELSE f[j - 1] \div 2
        BY <2>1, <2>2 DEF ShiftsOf
      <3>2. CASE i = c
        BY <1>3, <2>1, <3>1, <3>2
      <3>3. CASE i # c
        <4>1. i \in 0..(c - 1) /\ (i # 0 => i - 1 \in 0..(c - 1))
          BY <2>1, <3>3
        <4> QED
          BY <3>1, <4>1
      <3> QED
        BY <3>2, <3>3
    <2>4. g = [i \in 0..c |-> IF i = 0 THEN n ELSE g[i - 1] \div 2]
      BY <2>3
    <2>5. ShiftsOf(n, c, g)
      BY <2>4 DEF ShiftsOf
    <2> QED
      BY <1>1, <2>5
  <1> QED
    BY <1>2, <1>3

LEMMA ShiftedValue ==
    ASSUME NEW n \in Nat, NEW i \in 0..IvBits
    PROVE  Shifted(n)[i] = IF i = 0 THEN n ELSE Shifted(n)[i - 1] \div 2
  <1>1. \E f : ShiftsOf(n, IvBits, f)
    BY ShiftsExist, RecordAssumption
  <1>2. Shifted(n) = CHOOSE f : ShiftsOf(n, IvBits, f)
    BY DEF Shifted, ShiftsOf
  <1>3. ShiftsOf(n, IvBits, Shifted(n))
    BY <1>1, <1>2
  <1> QED
    BY <1>3 DEF ShiftsOf

LEMMA ShiftedNat ==
    ASSUME NEW n \in Nat, NEW i \in 0..IvBits
    PROVE  Shifted(n)[i] \in Nat
  <1> DEFINE T == {j \in 0..IvBits : Shifted(n)[j] \notin Nat}
  <1> SUFFICES ASSUME T # {} PROVE FALSE
    OBVIOUS
  <1>1. T \subseteq Nat
    BY RecordAssumption
  <1>2. PICK j \in T : \A k \in T : j <= k
    BY <1>1, Least
  <1>3. j # 0
    BY <1>2, ShiftedValue
  <1>4. j - 1 \in 0..IvBits /\ ~(j <= j - 1)
    BY <1>1, <1>2, <1>3, RecordAssumption
  <1>5. Shifted(n)[j - 1] \in Nat
    BY <1>2, <1>4
  <1>6. Shifted(n)[j] = Shifted(n)[j - 1] \div 2
    BY <1>2, <1>3, ShiftedValue
  <1> QED
    BY <1>2, <1>5, <1>6

\* A smaller number has smaller shifts.
LEMMA ShiftedMonotone ==
    ASSUME NEW m \in Nat, NEW n \in Nat, m <= n, NEW i \in 0..IvBits
    PROVE  Shifted(m)[i] <= Shifted(n)[i]
  <1> DEFINE T == {j \in 0..IvBits : ~(Shifted(m)[j] <= Shifted(n)[j])}
  <1> SUFFICES ASSUME T # {} PROVE FALSE
    OBVIOUS
  <1>1. T \subseteq Nat
    BY RecordAssumption
  <1>2. PICK j \in T : \A k \in T : j <= k
    BY <1>1, Least
  <1>3. j # 0
    BY <1>2, ShiftedValue
  <1>4. j - 1 \in 0..IvBits /\ ~(j <= j - 1)
    BY <1>1, <1>2, <1>3, RecordAssumption
  <1>5. PICK a \in Nat : a = Shifted(m)[j - 1]
    BY <1>4, ShiftedNat
  <1>6. PICK b \in Nat : b = Shifted(n)[j - 1]
    BY <1>4, ShiftedNat
  <1>7. a <= b
    BY <1>2, <1>4, <1>5, <1>6
  <1>8. Shifted(m)[j] = a \div 2 /\ Shifted(n)[j] = b \div 2
    BY <1>2, <1>3, <1>5, <1>6, ShiftedValue
  <1>9. a \div 2 <= b \div 2
    BY <1>7
  <1> QED
    BY <1>2, <1>8, <1>9

\* Two numbers that fit the width and have the same bits are equal: from the
\* last shift, which is zero, back to the first, which is the number.
LEMMA WordInjective ==
    ASSUME NEW m \in 0..MaxSeq, NEW n \in 0..MaxSeq, Word(m) = Word(n)
    PROVE  m = n
  <1>1. m \in Nat /\ n \in Nat /\ m <= MaxSeq /\ n <= MaxSeq /\ MaxSeq \in Nat /\ IvBits \in 0..IvBits
    BY RecordAssumption
  <1> DEFINE T == {j \in 0..IvBits : Shifted(m)[j] = Shifted(n)[j]}
  <1>2. IvBits \in T
    <2>1. PICK a \in Nat : a = Shifted(m)[IvBits]
      BY <1>1, ShiftedNat
    <2>2. PICK b \in Nat : b = Shifted(n)[IvBits]
      BY <1>1, ShiftedNat
    <2>3. a <= 0 /\ b <= 0
      BY <1>1, <2>1, <2>2, ShiftedMonotone, WidthAssumption
    <2> QED
      BY <1>1, <2>1, <2>2, <2>3
  <1>3. T \subseteq Nat
    BY RecordAssumption
  <1>4. PICK j \in T : \A k \in T : j <= k
    BY <1>2, <1>3, Least
  <1>5. j = 0
    <2> SUFFICES ASSUME j # 0 PROVE FALSE
      OBVIOUS
    <2>1. j - 1 \in 0..IvBits /\ j - 1 \in 0..(IvBits - 1) /\ ~(j <= j - 1)
      BY <1>3, <1>4, RecordAssumption
    <2>2. PICK a \in Nat : a = Shifted(m)[j - 1]
      BY <1>1, <2>1, ShiftedNat
    <2>3. PICK b \in Nat : b = Shifted(n)[j - 1]
      BY <1>1, <2>1, ShiftedNat
    <2>4. a \div 2 = b \div 2
      <3>1. Shifted(m)[j] = a \div 2 /\ Shifted(n)[j] = b \div 2
        BY <1>1, <1>4, <2>2, <2>3, ShiftedValue
      <3> QED
        BY <3>1, <1>4
    <2>5. a % 2 = 1 <=> b % 2 = 1
      BY <2>1, <2>2, <2>3 DEF Word
    <2>6. a = b
      BY <2>4, <2>5
    <2> QED
      BY <1>4, <2>1, <2>2, <2>3, <2>6
  <1> QED
    BY <1>1, <1>4, <1>5, ShiftedValue

LEMMA XorInjective ==
    ASSUME NEW v, NEW a, NEW b, XorWords(v, a) = XorWords(v, b)
    PROVE  a = b
  BY DEF XorWords

\* Under one key two numbers give two nonces.
LEMMA NoncesDiffer ==
    ASSUME NEW e, NEW m \in 0..MaxSeq, NEW n \in 0..MaxSeq,
           XorNumber(Iv(e), m) = XorNumber(Iv(e), n)
    PROVE  m = n
  BY XorInjective, WordInjective DEF XorNumber

-----------------------------------------------------------------------------
(* Positions in the log of what was sent.                                   *)

Before(a, b) == a.epoch < b.epoch \/ (a.epoch = b.epoch /\ a.seq < b.seq)

LEMMA BeforeAfter ==
    ASSUME NEW a \in LogEntries
    PROVE  Before(a, After(a)) /\ After(a).epoch \in Nat /\ After(a).seq \in Nat
  <1>1. a.epoch \in Nat /\ a.seq \in Nat
    BY DEF LogEntries
  <1> QED
    BY <1>1 DEF Before, After

LEMMA BeforeTransitive ==
    ASSUME NEW a, NEW b, NEW c, Before(a, b), Before(b, c),
           a.epoch \in Nat, b.epoch \in Nat, c.epoch \in Nat,
           a.seq \in Nat, b.seq \in Nat, c.seq \in Nat
    PROVE  Before(a, c)
  BY DEF Before

\* The position of a record and the record are before the same ones.
LEMMA BeforePosition ==
    ASSUME NEW a, NEW b, NEW p, Before(a, p), Position(b) = p
    PROVE  Before(a, b)
  BY DEF Before, Position

LEMMA EntryTypes ==
    ASSUME RecordTypeOK, NEW i \in 1..Len(sent)
    PROVE  /\ sent[i] \in LogEntries
           /\ sent[i].epoch \in Nat /\ sent[i].seq \in 0..MaxSeq /\ sent[i].seq \in Nat
           /\ sent[i] = [epoch |-> sent[i].epoch, seq |-> sent[i].seq, payload |-> sent[i].payload]
  <1>1. sent[i] \in LogEntries
    BY DEF RecordTypeOK
  <1> QED
    BY <1>1, RecordAssumption DEF LogEntries

\* Earlier in the log is earlier in epoch and number.
LEMMA LogInOrder ==
    ASSUME RecordTypeOK, NumberedInOrder,
           NEW i \in 1..Len(sent), NEW j \in 1..Len(sent), i < j
    PROVE  Before(sent[i], sent[j])
  <1>1. PICK n \in Nat : n = Len(sent)
    BY DEF RecordTypeOK
  <1> DEFINE T == {k \in (i + 1)..n : ~Before(sent[i], sent[k])}
  <1> SUFFICES ASSUME T # {} PROVE FALSE
    BY <1>1
  <1>2. T \subseteq Nat
    BY <1>1
  <1>3. PICK k \in T : \A l \in T : k <= l
    BY <1>2, Least
  <1>4. k \in 1..n /\ k - 1 \in 1..n /\ k - 1 \in 1..(n - 1) /\ (k - 1) + 1 = k /\ ~(k <= k - 1)
        /\ (k - 1 = i \/ k - 1 \in (i + 1)..n)
    BY <1>1, <1>3
  <1>5. Position(sent[k]) = After(sent[k - 1])
    BY <1>1, <1>4 DEF NumberedInOrder
  <1>6. sent[k - 1] \in LogEntries
    BY <1>1, <1>4, EntryTypes
  <1>7. Before(sent[k - 1], sent[k])
    BY <1>5, <1>6, BeforeAfter, BeforePosition
  <1>8. CASE k - 1 = i
    BY <1>3, <1>7, <1>8
  <1>9. CASE k - 1 \in (i + 1)..n
    <2>1. Before(sent[i], sent[k - 1])
      BY <1>3, <1>4, <1>9
    <2>2. Before(sent[i], sent[k])
      BY <1>1, <1>4, <1>7, <2>1, EntryTypes, BeforeTransitive
    <2> QED
      BY <1>3, <2>2
  <1> QED
    BY <1>4, <1>8, <1>9

\* One record to a position.
LEMMA OnePosition ==
    ASSUME RecordTypeOK, NumberedInOrder,
           NEW i \in 1..Len(sent), NEW j \in 1..Len(sent),
           sent[i].epoch = sent[j].epoch, sent[i].seq = sent[j].seq
    PROVE  i = j
  <1>1. PICK n \in Nat : n = Len(sent)
    BY DEF RecordTypeOK
  <1>2. ~Before(sent[i], sent[j]) /\ ~Before(sent[j], sent[i])
    <2>1. sent[i].epoch \in Nat /\ sent[i].seq \in Nat
      BY EntryTypes
    <2> QED
      BY <2>1 DEF Before
  <1>3. ~(i < j) /\ ~(j < i)
    BY <1>2, LogInOrder
  <1> QED
    BY <1>1, <1>3

\* Nothing sent stands after the last record.
LEMMA NoneAfterLast ==
    ASSUME RecordTypeOK, NumberedInOrder, NEW n \in 1..Len(sent), n = Len(sent),
           NEW j \in 1..Len(sent)
    PROVE  Position(sent[j]) # After(sent[n])
  <1>1. /\ sent[n] \in LogEntries
        /\ sent[j].epoch \in Nat /\ sent[j].seq \in Nat
        /\ sent[n].epoch \in Nat /\ sent[n].seq \in Nat
    BY EntryTypes
  <1>2. PICK m \in Nat : m = Len(sent)
    BY DEF RecordTypeOK
  <1>3. j = n \/ j < n
    BY <1>2
  <1>4. Before(sent[n], After(sent[n])) /\ After(sent[n]).epoch \in Nat /\ After(sent[n]).seq \in Nat
    BY <1>1, BeforeAfter
  <1>5. Before(sent[j], After(sent[n]))
    BY <1>1, <1>3, <1>4, LogInOrder, BeforeTransitive
  <1> QED
    BY <1>1, <1>5 DEF Before, Position

-----------------------------------------------------------------------------
(* What a record is made of.                                                *)

AadOf(s, p) ==
    CASE protocol = "tls13" -> make_tls13_aad(DataLen(p) + 1)
      [] protocol = "tls12 gcm" -> make_tls12_aad(s, p.typ, DataLen(p))
      [] protocol = "tls12 chacha" -> make_tls12_aad(s, p.typ, DataLen(p))
      [] protocol = "quic" -> QuicHeader(QuicForm(p), s)

CipherOf(e, s, p) == Sealed(e, <<e, XorNumber(Iv(e), s)>>, AadOf(s, p), p)

LEMMA ProtectMakes ==
    ASSUME protocol \in Protocols, NEW e, NEW s, NEW p
    PROVE  /\ Protect(e, s, p).cipher = CipherOf(e, s, p)
           /\ protocol # "quic" => DOMAIN Protect(e, s, p) = {"typ", "explicit", "len", "cipher"}
           /\ protocol = "quic" => DOMAIN Protect(e, s, p) = {"header", "cipher"}
  <1>1. CASE protocol = "tls13"
    BY <1>1 DEF Protect, Tls13Encrypt, CipherOf, AadOf, Nonce
  <1>2. CASE protocol = "tls12 gcm"
    BY <1>2 DEF Protect, Tls12Encrypt, CipherOf, AadOf, Tls12WriteNonce, Explicit
  <1>3. CASE protocol = "tls12 chacha"
    BY <1>3 DEF Protect, Tls12ChaChaEncrypt, CipherOf, AadOf, Nonce
  <1>4. CASE protocol = "quic"
    BY <1>4 DEF Protect, QuicEncrypt, CipherOf, AadOf, Nonce
  <1> QED
    BY <1>1, <1>2, <1>3, <1>4 DEF Protocols

LEMMA CipherParts ==
    ASSUME NEW e, NEW s, NEW p
    PROVE  /\ CipherOf(e, s, p)[1] = "sealed" /\ CipherOf(e, s, p)[2] = e
           /\ CipherOf(e, s, p)[3] = <<e, XorNumber(Iv(e), s)>>
           /\ CipherOf(e, s, p)[4] = AadOf(s, p) /\ CipherOf(e, s, p)[5] = p
  BY DEF CipherOf, Sealed

\* What arrives has the ciphertext of something sent, or none.
LEMMA ArrivingCipher ==
    ASSUME RecordTypeOK, NetworkIsSent, NEW m \in Arriving
    PROVE  \/ m.cipher = TooShort
           \/ \E j \in 1..Len(sent) : m.cipher = CipherOf(sent[j].epoch, sent[j].seq, sent[j].payload)
  <1>1. protocol \in Protocols
    BY DEF RecordTypeOK
  <1>2. \A x \in network :
           /\ \E j \in 1..Len(sent) : x.cipher = CipherOf(sent[j].epoch, sent[j].seq, sent[j].payload)
           /\ "cipher" \in DOMAIN x
    BY <1>1, ProtectMakes DEF NetworkIsSent
  <1>3. m.cipher = TooShort \/ \E x \in network : m.cipher = x.cipher
    <2>1. CASE protocol = "quic"
      BY <1>2, <2>1 DEF Arriving
    <2>2. CASE protocol # "quic"
      BY <1>2, <2>2 DEF Arriving
    <2> QED
      BY <2>1, <2>2
  <1> QED
    BY <1>2, <1>3

\* What the receiver of a stream opens is the record with its own number.
LEMMA StreamOpensItsNumber ==
    ASSUME RecordTypeOK, NetworkIsSent, protocol # "quic",
           NEW m \in Arriving, NEW plain \in Opened(m)
    PROVE  \E j \in 1..Len(sent) :
              sent[j].epoch = reader.epoch /\ sent[j].seq = reader.seq /\ sent[j].payload = plain
  <1>1. reader.seq \in 0..MaxSeq /\ protocol \in {"tls13", "tls12 gcm", "tls12 chacha"}
    BY DEF RecordTypeOK, Halves, Protocols
  <1>2. PICK nonce, aad :
           /\ Opens(reader.epoch, nonce, aad, m.cipher) /\ plain = m.cipher[5]
           /\ protocol \in {"tls13", "tls12 chacha"} => nonce = <<reader.epoch, XorNumber(Iv(reader.epoch), reader.seq)>>
           /\ protocol = "tls12 gcm" => aad = make_tls12_aad(reader.seq, m.typ, m.len)
    <2>1. CASE protocol = "tls13"
      BY <2>1 DEF Opened, Tls13Decrypt, Plain, Nonce
    <2>2. CASE protocol = "tls12 gcm"
      BY <2>2 DEF Opened, Tls12Decrypt, Plain
    <2>3. CASE protocol = "tls12 chacha"
      BY <2>3 DEF Opened, Tls12ChaChaDecrypt, Plain, Nonce
    <2> QED
      BY <1>1, <2>1, <2>2, <2>3
  <1>a. PICK c : c = m.cipher
    OBVIOUS
  <1>b. c[1] = "sealed" /\ c[2] = reader.epoch /\ c[3] = nonce /\ c[4] = aad /\ c[5] = plain
    BY <1>2, <1>a DEF Opens
  <1>3. m.cipher # TooShort
    <2>1. TooShort[1] # "sealed"
      BY DEF TooShort
    <2> QED
      BY <1>a, <1>b, <2>1
  <1>4. PICK j \in 1..Len(sent) : m.cipher = CipherOf(sent[j].epoch, sent[j].seq, sent[j].payload)
    BY <1>3, ArrivingCipher
  <1>5. /\ sent[j].epoch = reader.epoch /\ sent[j].payload = plain
        /\ nonce = <<sent[j].epoch, XorNumber(Iv(sent[j].epoch), sent[j].seq)>>
        /\ aad = AadOf(sent[j].seq, sent[j].payload)
    <2>1. PICK e, s, p : e = sent[j].epoch /\ s = sent[j].seq /\ p = sent[j].payload
      OBVIOUS
    <2>2. c = CipherOf(e, s, p)
      BY <1>a, <1>4, <2>1
    <2>3. /\ c[2] = e /\ c[3] = <<e, XorNumber(Iv(e), s)>> /\ c[4] = AadOf(s, p) /\ c[5] = p
      BY <2>2, CipherParts
    <2> QED
      BY <1>b, <2>1, <2>3
  <1>6. sent[j].seq \in 0..MaxSeq
    BY EntryTypes
  <1>7. sent[j].seq = reader.seq
    <2>1. CASE protocol \in {"tls13", "tls12 chacha"}
      BY <1>1, <1>2, <1>5, <1>6, <2>1, NoncesDiffer
    <2>2. CASE protocol = "tls12 gcm"
      <3>1. Word(sent[j].seq) = Word(reader.seq)
        BY <1>2, <1>5, <2>2 DEF AadOf, make_tls12_aad
      <3> QED
        BY <1>1, <1>6, <3>1, WordInjective
    <2> QED
      BY <1>1, <2>1, <2>2
  <1> QED
    BY <1>5, <1>7

\* A packet that opens is one that was sent, under the number it was read with.
LEMMA PacketOpensItsNumber ==
    ASSUME RecordTypeOK, NetworkIsSent, protocol = "quic",
           NEW m \in Arriving, NEW plain \in Opened(m)
    PROVE  \E j \in 1..Len(sent) :
              /\ sent[j].epoch = reader.epoch /\ sent[j].payload = plain
              /\ sent[j].seq = Number(apply(m.header, m.cipher).packet_number)
  <1>1. PICK form, number :
           /\ Opens(reader.epoch, Nonce(reader.epoch, number), QuicHeader(form, number), m.cipher)
           /\ plain = m.cipher[5]
           /\ number = Number(apply(m.header, m.cipher).packet_number)
    BY DEF Opened, QuicDecrypt, Plain
  <1>2. PICK c : c = m.cipher
    OBVIOUS
  <1>3. c[1] = "sealed" /\ c[2] = reader.epoch /\ c[4] = QuicHeader(form, number) /\ c[5] = plain
    BY <1>1, <1>2 DEF Opens
  <1>4. m.cipher # TooShort
    <2>1. TooShort[1] # "sealed"
      BY DEF TooShort
    <2> QED
      BY <1>2, <1>3, <2>1
  <1>5. PICK j \in 1..Len(sent) : m.cipher = CipherOf(sent[j].epoch, sent[j].seq, sent[j].payload)
    BY <1>4, ArrivingCipher
  <1>6. PICK e, s, p : e = sent[j].epoch /\ s = sent[j].seq /\ p = sent[j].payload
    OBVIOUS
  <1>7. c = CipherOf(e, s, p)
    BY <1>2, <1>5, <1>6
  <1>8. c[2] = e /\ c[4] = AadOf(s, p) /\ c[5] = p
    BY <1>7, CipherParts
  <1>9. QuicHeader(form, number) = QuicHeader(QuicForm(p), s)
    BY <1>3, <1>8 DEF AadOf
  <1>10. number = s
    BY <1>9 DEF QuicHeader
  <1> QED
    BY <1>1, <1>3, <1>6, <1>8, <1>10

-----------------------------------------------------------------------------
(* The steps.                                                               *)

LEMMA RecordInitInv == RecordInit => RecordInv
  <1> SUFFICES ASSUME RecordInit PROVE RecordInv
    OBVIOUS
  <1> USE DEF RecordInit
  <1>1. RecordTypeOK
    <2>1. <<>> \in Seq(LogEntries) /\ 0 \in 0..MaxSeq
      BY EmptySeq, RecordAssumption
    <2>2. [epoch |-> 0, seq |-> 0, state |-> "open"] \in Halves
      BY <2>1 DEF Halves, States
    <2> QED
      BY <2>1, <2>2 DEF RecordTypeOK
  <1>2. NetworkIsSent
    BY DEF NetworkIsSent
  <1>3. NumberedInOrder
    BY DEF NumberedInOrder, Stands
  <1>4. InStep /\ DeliveredAsSent
    BY DEF InStep, Stands, DeliveredAsSent
  <1> QED
    BY <1>1, <1>2, <1>3, <1>4 DEF RecordInv

\* A record is protected: Encrypt while the module works, and SendKeyUpdate.
Sends(p) ==
    /\ writer.state = "open"
    /\ \/ /\ p.typ # "key_update" /\ writer.seq < MaxSeq
          /\ writer' = [writer EXCEPT !.seq = @ + 1]
       \/ /\ p.typ = "key_update"
          /\ writer' = [writer EXCEPT !.state = "rekeying"]
    /\ network' = network \cup {Protect(writer.epoch, writer.seq, p)}
    /\ sent' = Append(sent, [epoch |-> writer.epoch, seq |-> writer.seq, payload |-> p])
    /\ UNCHANGED <<protocol, reader, delivered, down>>

LEMMA SendingKeeps ==
    ASSUME RecordInv, NEW p \in Sendable, Sends(p)
    PROVE  RecordInv'
  <1> USE DEF Sends
  <1>a. /\ RecordTypeOK /\ NetworkIsSent /\ NumberedInOrder /\ InStep /\ DeliveredAsSent
    BY DEF RecordInv
  <1>b. PICK n \in Nat : n = Len(sent)
    BY <1>a, SMTT(30) DEF RecordTypeOK
  <1> DEFINE entry == [epoch |-> writer.epoch, seq |-> writer.seq, payload |-> p]
  <1>c. /\ writer = [epoch |-> writer.epoch, seq |-> writer.seq, state |-> writer.state]
        /\ writer.epoch \in Nat /\ writer.seq \in 0..MaxSeq /\ MaxSeq \in Nat
    BY <1>a, RecordAssumption DEF RecordTypeOK, Halves
  <1>d. entry \in LogEntries
    BY <1>c DEF LogEntries
  <1>e. sent \in Seq(LogEntries) /\ sent' = Append(sent, entry)
    BY <1>a DEF RecordTypeOK
  <1> HIDE DEF entry
  <1>f. /\ sent' \in Seq(LogEntries) /\ Len(sent') = n + 1 /\ sent'[n + 1] = entry
        /\ \A i \in 1..n : sent'[i] = sent[i]
    BY <1>b, <1>d, <1>e
  <1>g. \A i \in 1..n : i \in 1..(n + 1)
    OBVIOUS
  <1>h. entry.epoch = writer.epoch /\ entry.seq = writer.seq /\ entry.payload = p
    BY DEF entry
  <1>1. RecordTypeOK'
    <2>1. writer' \in Halves
      BY <1>c DEF Halves, States
    <2> QED
      BY <1>a, <1>f, <2>1 DEF RecordTypeOK
  <1>2. NetworkIsSent'
    <2>2. network' = {Protect(sent[i].epoch, sent[i].seq, sent[i].payload) : i \in 1..n}
                        \cup {Protect(entry.epoch, entry.seq, entry.payload)}
      BY <1>a, <1>b, <1>h DEF NetworkIsSent
    <2> DEFINE made(x) == Protect(x.epoch, x.seq, x.payload)
    <2>3. network' = {made(sent[i]) : i \in 1..n} \cup {made(entry)}
      BY <2>2
    <2> HIDE DEF made
    <2>4. 1..(n + 1) = (1..n) \cup {n + 1}
      BY <1>b
    <2>5. network' = {made(sent'[i]) : i \in 1..(n + 1)}
      <3>1. \A i \in 1..n : made(sent'[i]) = made(sent[i])
        BY <1>f
      <3>2. made(sent'[n + 1]) = made(entry)
        BY <1>f
      <3> QED
        <4>1. ASSUME NEW x \in network'
              PROVE  \E i \in 1..(n + 1) : x = made(sent'[i])
          BY <2>3, <2>4, <3>1, <3>2, ZenonT(60)
        <4>2. ASSUME NEW i \in 1..(n + 1)
              PROVE  made(sent'[i]) \in network'
          <5>1. CASE i = n + 1
            BY <2>3, <3>2, <5>1
          <5>2. CASE i \in 1..n
            BY <2>3, <3>1, <5>2
          <5> QED
            BY <2>4, <5>1, <5>2
        <4> HIDE DEF Sends
        <4> QED
          BY <4>1, <4>2
    <2>6. network' = {Protect(sent'[i].epoch, sent'[i].seq, sent'[i].payload) : i \in 1..Len(sent')}
      BY <1>f, <2>5 DEF made
    <2> QED
      BY <2>6 DEF NetworkIsSent, Protect
  <1>3. NumberedInOrder'
    <2>1. Stands(writer', sent')
      <3>1. sent' # <<>> /\ sent'[Len(sent')] = entry
        BY <1>b, <1>f
      <3>2. CASE p.typ = "key_update"
        <4>1. Position(writer') = Position(entry) /\ writer'.state = "rekeying"
          BY <1>c, <1>h, <3>2 DEF Position
        <4> QED
          BY <1>h, <3>1, <3>2, <4>1 DEF Stands
      <3>3. CASE p.typ # "key_update"
        <4>1. Position(writer') = After(entry) /\ writer'.state = "open"
          BY <1>c, <1>h, <3>3 DEF Position, After
        <4> QED
          BY <3>1, <4>1 DEF Stands
      <3> QED
        BY <3>2, <3>3
    <2>2. n = 0 => Position(entry) = [epoch |-> 0, seq |-> 0]
      <3>1. n = 0 => sent = <<>>
        BY <1>b, <1>e, EmptySeq
      <3> QED
        BY <1>a, <1>h, <3>1 DEF NumberedInOrder, Stands, Position
    <2>3. n # 0 => Position(entry) = After(sent[n])
      <3>1. n # 0 => sent # <<>>
        BY <1>b
      <3> QED
        BY <1>a, <1>b, <1>h, <3>1 DEF NumberedInOrder, Stands, Position
    <2>4. Position(sent'[1]) = [epoch |-> 0, seq |-> 0]
      <3>1. CASE n = 0
        BY <1>f, <2>2, <3>1
      <3>2. CASE n # 0
        <4>1. 1 \in 1..n /\ sent # <<>>
          BY <1>b, <3>2
        <4> QED
          BY <1>a, <1>f, <4>1 DEF NumberedInOrder
      <3> QED
        BY <3>1, <3>2
    <2>5. ASSUME NEW i \in 1..n
          PROVE  Position(sent'[i + 1]) = After(sent'[i])
      <3>1. CASE i = n
        <4>1. n # 0
          BY <1>b
        <4> QED
          BY <1>f, <2>3, <3>1, <4>1
      <3>2. CASE i # n
        <4>1. i \in 1..(n - 1) /\ i + 1 \in 1..n
          BY <1>b, <3>2
        <4> QED
          BY <1>a, <1>b, <1>f, <4>1 DEF NumberedInOrder
      <3> QED
        BY <3>1, <3>2
    <2>6. ASSUME NEW i \in 1..(n + 1), sent'[i].payload.typ # "key_update"
          PROVE  sent'[i].seq < MaxSeq
      <3>1. CASE i = n + 1
        BY <1>f, <1>h, <2>6, <3>1
      <3>2. CASE i \in 1..n
        <4>1. sent'[i] = sent[i] /\ i \in 1..Len(sent)
          BY <1>b, <1>f, <3>2
        <4> HIDE DEF Sends
        <4>2. sent[i].payload.typ # "key_update" => sent[i].seq < MaxSeq
          BY <1>a, <4>1 DEF NumberedInOrder
        <4> QED
          BY <2>6, <4>1, <4>2
      <3> QED
        BY <1>b, <3>1, <3>2
    <2>7. n + 1 - 1 = n
      BY <1>b
    <2>8. Stands(writer, sent)'
      BY <2>1 DEF Stands, Position, After
    <2>9. (sent # <<>> => Position(sent[1]) = [epoch |-> 0, seq |-> 0])'
      BY <2>4 DEF Position
    <2>10. (\A i \in 1..(Len(sent) - 1) : Position(sent[i + 1]) = After(sent[i]))'
      BY <1>f, <2>5, <2>7, SMTT(30) DEF Position, After
    <2>11. (\A i \in 1..Len(sent) : sent[i].payload.typ # "key_update" => sent[i].seq < MaxSeq)'
      BY <1>f, <2>6
    <2> HIDE DEF Sends
    <2> QED
      BY <2>8, <2>9, <2>10, <2>11 DEF NumberedInOrder
  <1>4. InStep'
    BY <1>a DEF InStep, Stands, Position, After
  <1>5. DeliveredAsSent'
    <2>d. delivered \in Seq(LogEntries)
      BY <1>a DEF RecordTypeOK
    <2>0. PICK d \in Nat : d = Len(delivered)
      BY <2>d
    <2>1. DOMAIN delivered = 1..d /\ DOMAIN sent = 1..n /\ DOMAIN sent' = 1..(n + 1)
      BY <1>a, <1>b, <1>e, <1>f, <2>0 DEF RecordTypeOK
    <2>2. CASE protocol = "quic"
      BY <1>a, <1>f, <1>g, <2>1, <2>2 DEF DeliveredAsSent
    <2>3. CASE protocol # "quic"
      <3>1. d <= n /\ \A i \in 1..d : delivered[i] = sent[i]
        BY <1>a, <1>b, <2>0, <2>1, <2>3 DEF DeliveredAsSent
      <3>2. d <= n + 1 /\ \A i \in 1..d : i \in 1..n
        BY <3>1
      <3>3. \A i \in 1..d : delivered[i] = sent'[i]
        BY <1>f, <3>1, <3>2
      <3> QED
        BY <1>f, <2>0, <2>1, <2>3, <3>2, <3>3 DEF DeliveredAsSent
    <2> QED
      BY <2>2, <2>3
  <1> QED
    BY <1>1, <1>2, <1>3, <1>4, <1>5 DEF RecordInv

\* A step that only moves one of the halves, or fails the module.
LEMMA QuietKeeps ==
    ASSUME RecordInv, UNCHANGED <<protocol, network, sent, delivered>>,
           writer' \in Halves, reader' \in Halves, down' \in BOOLEAN,
           Stands(writer', sent), protocol # "quic" => Stands(reader', delivered)
    PROVE  RecordInv'
  <1>a. /\ RecordTypeOK /\ NetworkIsSent /\ NumberedInOrder /\ InStep /\ DeliveredAsSent
    BY DEF RecordInv
  <1>1. RecordTypeOK'
    BY <1>a DEF RecordTypeOK
  <1>2. NetworkIsSent'
    BY <1>a DEF NetworkIsSent, Protect
  <1>3. NumberedInOrder'
    BY <1>a DEF NumberedInOrder, Stands, Position, After
  <1>4. InStep'
    BY DEF InStep, Stands, Position, After
  <1>5. DeliveredAsSent'
    BY <1>a DEF DeliveredAsSent
  <1> QED
    BY <1>1, <1>2, <1>3, <1>4, <1>5 DEF RecordInv

LEMMA FailedStands ==
    ASSUME NEW half \in Halves, NEW log, half.state = "open", Stands(half, log)
    PROVE  [half EXCEPT !.state = "failed"] \in Halves /\ Stands([half EXCEPT !.state = "failed"], log)
  <1>1. PICK other : other = [half EXCEPT !.state = "failed"]
    OBVIOUS
  <1>2. /\ other \in Halves /\ other.epoch = half.epoch /\ other.seq = half.seq /\ other.state = "failed"
    BY <1>1 DEF Halves, States
  <1>3. Position(other) = Position(half)
    BY <1>2 DEF Position
  <1>4. Stands(other, log)
    BY <1>2, <1>3 DEF Stands
  <1> QED
    BY <1>1, <1>2, <1>4

LEMMA RekeyedParts ==
    ASSUME NEW half \in Halves
    PROVE  /\ Rekeyed(half) \in Halves
           /\ \/ /\ Rekeyed(half).epoch = half.epoch /\ Rekeyed(half).seq = half.seq
                 /\ Rekeyed(half).state = "panicked"
              \/ /\ Rekeyed(half).epoch = half.epoch + 1 /\ Rekeyed(half).seq = 0
                 /\ Rekeyed(half).state = "open"
  <1>1. /\ half = [epoch |-> half.epoch, seq |-> half.seq, state |-> half.state]
        /\ half.epoch \in Nat /\ half.seq \in 0..MaxSeq /\ 0 \in 0..MaxSeq /\ half.epoch + 1 \in Nat
    BY RecordAssumption DEF Halves
  <1>2. CASE down
    <2>1. Rekeyed(half) = [epoch |-> half.epoch, seq |-> half.seq, state |-> "panicked"]
      BY <1>1, <1>2 DEF Rekeyed
    <2> QED
      BY <1>1, <2>1 DEF Halves, States
  <1>3. CASE ~down
    <2>1. Rekeyed(half) = [epoch |-> half.epoch + 1, seq |-> 0, state |-> "open"]
      BY <1>1, <1>3 DEF Rekeyed
    <2> QED
      BY <1>1, <2>1 DEF Halves, States
  <1> QED
    BY <1>2, <1>3

LEMMA RekeyedStands ==
    ASSUME NEW half \in Halves, NEW log, half.state = "rekeying", Stands(half, log)
    PROVE  Rekeyed(half) \in Halves /\ Stands(Rekeyed(half), log)
  <1>1. PICK other : other = Rekeyed(half)
    OBVIOUS
  <1>2. /\ other \in Halves
        /\ \/ other.epoch = half.epoch /\ other.seq = half.seq /\ other.state = "panicked"
           \/ other.epoch = half.epoch + 1 /\ other.seq = 0 /\ other.state = "open"
    BY <1>1, RekeyedParts
  <1>3. PICK last : last = log[Len(log)]
    OBVIOUS
  <1>4. log # <<>> /\ Position(half) = Position(last) /\ last.payload.typ = "key_update"
    BY <1>3 DEF Stands
  <1>5. half.epoch = last.epoch /\ half.seq = last.seq
    BY <1>4 DEF Position
  <1>6. CASE other.state = "panicked"
    <2>1. Position(other) = Position(last)
      BY <1>2, <1>5, <1>6 DEF Position
    <2>2. Stands(other, log)
      BY <1>3, <1>4, <1>6, <2>1 DEF Stands
    <2> QED
      BY <1>1, <1>2, <2>2
  <1>7. CASE other.state = "open"
    <2>1. Position(other) = After(last)
      BY <1>2, <1>4, <1>5, <1>7 DEF Position, After
    <2>2. Stands(other, log)
      BY <1>3, <1>4, <1>7, <2>1 DEF Stands
    <2> QED
      BY <1>1, <1>2, <2>2
  <1> QED
    BY <1>2, <1>6, <1>7

\* A record that was sent is accepted, on a stream the next one.
LEMMA DeliveringKeeps ==
    ASSUME RecordInv, UNCHANGED <<protocol, writer, network, sent, down>>,
           NEW j \in 1..Len(sent), delivered' = Append(delivered, sent[j]), reader' \in Halves,
           protocol # "quic" => j = Len(delivered) + 1 /\ Stands(reader', delivered')
    PROVE  RecordInv'
  <1>a. /\ RecordTypeOK /\ NetworkIsSent /\ NumberedInOrder /\ InStep /\ DeliveredAsSent
    BY DEF RecordInv
  <1>b. PICK n \in Nat : n = Len(sent)
    BY <1>a DEF RecordTypeOK
  <1>c. PICK d \in Nat : d = Len(delivered)
    BY <1>a DEF RecordTypeOK
  <1>d. sent[j] \in LogEntries /\ delivered \in Seq(LogEntries)
    BY <1>a, EntryTypes DEF RecordTypeOK
  <1>e. /\ delivered' \in Seq(LogEntries) /\ Len(delivered') = d + 1 /\ delivered'[d + 1] = sent[j]
        /\ \A i \in 1..d : delivered'[i] = delivered[i]
    BY <1>c, <1>d
  <1>f. /\ DOMAIN delivered = 1..d /\ DOMAIN delivered' = 1..(d + 1) /\ DOMAIN sent = 1..n
        /\ 1..(d + 1) = (1..d) \cup {d + 1}
    <2>1. sent \in Seq(LogEntries)
      BY <1>a DEF RecordTypeOK
    <2>2. DOMAIN sent = 1..n
      BY <1>b, <2>1
    <2>3. DOMAIN delivered = 1..d
      BY <1>c, <1>d
    <2>4. DOMAIN delivered' = 1..(d + 1)
      BY <1>e
    <2>5. 1..(d + 1) = (1..d) \cup {d + 1}
      BY <1>c
    <2> QED
      BY <2>2, <2>3, <2>4, <2>5
  <1>1. RecordTypeOK'
    BY <1>a, <1>e DEF RecordTypeOK
  <1>2. NetworkIsSent'
    BY <1>a DEF NetworkIsSent, Protect
  <1>3. NumberedInOrder'
    BY <1>a DEF NumberedInOrder, Stands, Position, After
  <1>4. InStep'
    BY DEF InStep, Stands, Position, After
  <1>5. DeliveredAsSent'
    <2>1. CASE protocol = "quic"
      <3>1. \A i \in 1..d : \E k \in 1..n : delivered[i] = sent[k]
        BY <1>a, <1>f, <2>1 DEF DeliveredAsSent
      <3>2. ASSUME NEW i \in 1..(d + 1) PROVE \E k \in 1..n : delivered'[i] = sent[k]
        <4>1. CASE i \in 1..d
          BY <1>e, <3>1, <4>1
        <4>2. CASE i = d + 1
          <5>1. j \in 1..n /\ delivered'[i] = sent[j]
            BY <1>b, <1>e, <4>2
          <5> QED
            BY <5>1
        <4> QED
          BY <1>f, <4>1, <4>2
      <3> QED
        BY <1>f, <2>1, <3>2 DEF DeliveredAsSent
    <2>2. CASE protocol # "quic"
      <3>1. \A i \in 1..d : delivered[i] = sent[i]
        BY <1>a, <1>f, <2>2 DEF DeliveredAsSent
      <3>2. j = d + 1 /\ d + 1 <= n
        BY <1>b, <1>c, <2>2
      <3>3. \A i \in 1..(d + 1) : delivered'[i] = sent[i]
        BY <1>e, <1>f, <3>1, <3>2
      <3> QED
        BY <1>b, <1>e, <1>f, <2>2, <3>2, <3>3 DEF DeliveredAsSent
    <2> QED
      BY <2>1, <2>2
  <1> QED
    BY <1>1, <1>2, <1>3, <1>4, <1>5 DEF RecordInv

\* The record with the receiver's own position is the next one to deliver.
LEMMA NextIsNext ==
    ASSUME RecordInv, protocol # "quic", reader.state = "open", NEW j \in 1..Len(sent),
           sent[j].epoch = reader.epoch, sent[j].seq = reader.seq
    PROVE  j = Len(delivered) + 1
  <1>a. /\ RecordTypeOK /\ NumberedInOrder /\ InStep /\ DeliveredAsSent
    BY DEF RecordInv
  <1>b. PICK n \in Nat : n = Len(sent)
    BY <1>a DEF RecordTypeOK
  <1>c. PICK d \in Nat : d = Len(delivered)
    BY <1>a DEF RecordTypeOK
  <1>d. delivered \in Seq(LogEntries) /\ sent \in Seq(LogEntries) /\ DOMAIN delivered = 1..d
    BY <1>a, <1>c DEF RecordTypeOK
  <1>e. Stands(reader, delivered) /\ d <= n /\ \A i \in 1..d : delivered[i] = sent[i]
    BY <1>a, <1>b, <1>c, <1>d DEF InStep, DeliveredAsSent
  <1>f. Position(sent[j]) = Position(reader)
    BY DEF Position
  <1>1. CASE d = 0
    <2>1. delivered = <<>>
      BY <1>c, <1>d, <1>1, EmptySeq
    <2>2. reader.epoch = 0 /\ reader.seq = 0
      BY <1>e, <2>1 DEF Stands
    <2>3. 1 \in 1..Len(sent) /\ sent # <<>>
      BY <1>b, <1>d, EmptySeq
    <2>4. sent[1].epoch = 0 /\ sent[1].seq = 0
      BY <1>a, <2>3 DEF NumberedInOrder, Position
    <2>5. j = 1
      BY <1>a, <2>2, <2>3, <2>4, OnePosition
    <2> QED
      BY <1>c, <1>1, <2>5
  <1>2. CASE d # 0
    <2>1. delivered # <<>> /\ d \in 1..d /\ d \in 1..n
      BY <1>b, <1>c, <1>d, <1>e, <1>2, EmptySeq
    <2>2. Position(reader) = After(delivered[d])
      BY <1>c, <1>e, <2>1 DEF Stands
    <2>3. Position(sent[j]) = After(sent[d])
      BY <1>e, <1>f, <2>1, <2>2
    <2>4. d # n
      BY <1>a, <1>b, <2>1, <2>3, NoneAfterLast
    <2>5. d \in 1..(n - 1) /\ d + 1 \in 1..n
      BY <1>e, <2>1, <2>4
    <2>6. Position(sent[d + 1]) = Position(sent[j])
      BY <1>a, <1>b, <2>3, <2>5 DEF NumberedInOrder
    <2>7. sent[d + 1].epoch = sent[j].epoch /\ sent[d + 1].seq = sent[j].seq
      BY <2>6 DEF Position
    <2>8. j = d + 1
      BY <1>a, <1>b, <2>5, <2>7, OnePosition
    <2> QED
      BY <1>c, <2>8
  <1> QED
    BY <1>1, <1>2

LEMMA StreamDecryptKeeps ==
    ASSUME RecordInv, NEW m \in Arriving, StreamDecrypt(m)
    PROVE  RecordInv'
  <1>a. /\ RecordTypeOK /\ NetworkIsSent /\ NumberedInOrder /\ InStep
    BY DEF RecordInv
  <1>b. /\ protocol # "quic" /\ reader.state = "open"
        /\ UNCHANGED <<protocol, writer, network, sent, down>>
    BY DEF StreamDecrypt
  <1>c. /\ reader \in Halves /\ writer \in Halves /\ down \in BOOLEAN
        /\ Stands(reader, delivered) /\ Stands(writer, sent)
    BY <1>a, <1>b DEF RecordTypeOK, InStep, NumberedInOrder
  <1>1. CASE Opened(m) = {}
    <2>1. reader' = [reader EXCEPT !.state = "failed"] /\ delivered' = delivered
      BY <1>1 DEF StreamDecrypt
    <2>2. reader' \in Halves /\ Stands(reader', delivered)
      BY <1>b, <1>c, <2>1, FailedStands
    <2> QED
      BY <1>b, <1>c, <2>1, <2>2, QuietKeeps
  <1>2. CASE Opened(m) # {}
    <2>1. PICK plain \in Opened(m) :
              /\ reader' = IF plain.typ = "key_update" THEN [reader EXCEPT !.state = "rekeying"]
                           ELSE [reader EXCEPT !.seq = @ + 1]
              /\ delivered' = Append(delivered, [epoch |-> reader.epoch, seq |-> reader.seq, payload |-> plain])
      BY <1>2 DEF StreamDecrypt
    <2>2. PICK j \in 1..Len(sent) :
              sent[j].epoch = reader.epoch /\ sent[j].seq = reader.seq /\ sent[j].payload = plain
      BY <1>a, <1>b, StreamOpensItsNumber
    <2>3. j = Len(delivered) + 1
      BY <1>b, <2>2, NextIsNext
    <2>4. delivered' = Append(delivered, sent[j])
      <3>1. sent[j] = [epoch |-> sent[j].epoch, seq |-> sent[j].seq, payload |-> sent[j].payload]
        BY <1>a, EntryTypes
      <3> QED
        BY <2>1, <2>2, <3>1
    <2>5. plain.typ # "key_update" => reader.seq < MaxSeq
      BY <1>a, <2>2 DEF NumberedInOrder
    <2>6. /\ reader' \in Halves
          /\ IF plain.typ = "key_update"
             THEN reader'.epoch = reader.epoch /\ reader'.seq = reader.seq /\ reader'.state = "rekeying"
             ELSE reader'.epoch = reader.epoch /\ reader'.seq = reader.seq + 1 /\ reader'.state = "open"
      <3>1. PICK e \in Nat, s \in 0..MaxSeq : reader = [epoch |-> e, seq |-> s, state |-> "open"]
        BY <1>b, <1>c DEF Halves
      <3>2. reader.epoch = e /\ reader.seq = s
        BY <3>1
      <3>3. CASE plain.typ = "key_update"
        <4>1. reader' = [epoch |-> e, seq |-> s, state |-> "rekeying"]
          BY <2>1, <3>1, <3>3
        <4> QED
          BY <3>2, <3>3, <4>1 DEF Halves, States
      <3>4. CASE plain.typ # "key_update"
        <4>1. reader' = [epoch |-> e, seq |-> s + 1, state |-> "open"]
          BY <2>1, <3>1, <3>4
        <4>2. s + 1 \in 0..MaxSeq
          BY <2>5, <3>2, <3>4, RecordAssumption
        <4> QED
          BY <3>2, <3>4, <4>1, <4>2 DEF Halves, States
      <3> QED
        BY <3>3, <3>4
    <2>7. Stands(reader', delivered')
      <3>1. PICK last : last = sent[j]
        OBVIOUS
      <3>2. delivered' # <<>> /\ delivered'[Len(delivered')] = last
        <4>1. delivered \in Seq(LogEntries) /\ last \in LogEntries
          BY <1>a, <3>1, EntryTypes DEF RecordTypeOK
        <4> QED
          BY <2>4, <3>1, <4>1
      <3>3. last.epoch = reader.epoch /\ last.seq = reader.seq /\ last.payload = plain
        BY <2>2, <3>1
      <3>4. CASE plain.typ = "key_update"
        <4>1. Position(reader') = Position(last) /\ reader'.state = "rekeying"
          BY <2>6, <3>3, <3>4 DEF Position
        <4> QED
          BY <3>2, <3>3, <3>4, <4>1 DEF Stands
      <3>5. CASE plain.typ # "key_update"
        <4>1. Position(reader') = After(last) /\ reader'.state = "open"
          BY <2>6, <3>3, <3>5 DEF Position, After
        <4> QED
          BY <3>2, <4>1 DEF Stands
      <3> QED
        BY <3>4, <3>5
    <2> QED
      BY <1>b, <2>3, <2>4, <2>6, <2>7, DeliveringKeeps
  <1> QED
    BY <1>1, <1>2

LEMMA PacketDecryptKeeps ==
    ASSUME RecordInv, NEW m \in Arriving, PacketDecrypt(m)
    PROVE  RecordInv'
  <1>a. /\ RecordTypeOK /\ NetworkIsSent
    BY DEF RecordInv
  <1>b. protocol = "quic" /\ UNCHANGED <<protocol, writer, reader, network, sent, down>>
    BY DEF PacketDecrypt
  <1>1. PICK plain \in Opened(m) :
          delivered' = Append(delivered, [epoch |-> reader.epoch,
                                          seq |-> Number(apply(m.header, m.cipher).packet_number),
                                          payload |-> plain])
    BY DEF PacketDecrypt
  <1>2. PICK j \in 1..Len(sent) :
          /\ sent[j].epoch = reader.epoch /\ sent[j].payload = plain
          /\ sent[j].seq = Number(apply(m.header, m.cipher).packet_number)
    BY <1>a, <1>b, PacketOpensItsNumber
  <1>3. delivered' = Append(delivered, sent[j])
    <2>1. sent[j] = [epoch |-> sent[j].epoch, seq |-> sent[j].seq, payload |-> sent[j].payload]
      BY <1>a, EntryTypes
    <2> QED
      BY <1>1, <1>2, <2>1
  <1>4. reader' \in Halves
    BY <1>a, <1>b DEF RecordTypeOK
  <1> QED
    BY <1>b, <1>3, <1>4, DeliveringKeeps

LEMMA RecordStep ==
    ASSUME RecordInv, [RecordNext]_recordVars
    PROVE  RecordInv'
  <1>a. /\ RecordTypeOK /\ NumberedInOrder /\ InStep
    BY DEF RecordInv
  <1>b. /\ writer \in Halves /\ reader \in Halves /\ down \in BOOLEAN
        /\ Stands(writer, sent) /\ (protocol # "quic" => Stands(reader, delivered))
    BY <1>a DEF RecordTypeOK, NumberedInOrder, InStep
  <1>1. ASSUME NEW payload \in Payloads, Encrypt(payload)
        PROVE  RecordInv'
    <2>1. CASE down
      <3>1. /\ writer.state = "open" /\ writer' = [writer EXCEPT !.state = "failed"]
            /\ UNCHANGED <<protocol, reader, network, sent, delivered, down>>
        BY <1>1, <2>1 DEF Encrypt
      <3>2. writer' \in Halves /\ Stands(writer', sent)
        BY <1>b, <3>1, FailedStands
      <3> QED
        BY <1>b, <3>1, <3>2, QuietKeeps
    <2>2. CASE ~down
      <3>1. payload \in Sendable /\ payload.typ # "key_update"
        BY RecordAssumption DEF Sendable, ContentTypes
      <3>2. Sends(payload)
        BY <1>1, <2>2, <3>1 DEF Encrypt, Sends
      <3> QED
        BY <3>1, <3>2, SendingKeeps
    <2> QED
      BY <2>1, <2>2
  <1>2. CASE SendKeyUpdate
    <2>1. KeyUpdate \in Sendable /\ KeyUpdate.typ = "key_update"
      BY DEF Sendable, KeyUpdate
    <2>2. Sends(KeyUpdate)
      BY <1>2, <2>1 DEF SendKeyUpdate, Sends
    <2> QED
      BY <2>1, <2>2, SendingKeeps
  <1>3. CASE NewEncrypter
    <2>1. /\ writer.state = "rekeying" /\ writer' = Rekeyed(writer)
          /\ UNCHANGED <<protocol, reader, network, sent, delivered, down>>
      BY <1>3 DEF NewEncrypter
    <2>2. writer' \in Halves /\ Stands(writer', sent)
      BY <1>b, <2>1, RekeyedStands
    <2> QED
      BY <1>b, <2>1, <2>2, QuietKeeps
  <1>4. CASE NewDecrypter
    <2>1. /\ reader.state = "rekeying" /\ reader' = Rekeyed(reader)
          /\ UNCHANGED <<protocol, writer, network, sent, delivered, down>>
      BY <1>4 DEF NewDecrypter
    <2>2. reader' \in Halves /\ (protocol # "quic" => Stands(reader', delivered))
      <3>1. Rekeyed(reader) \in Halves
        BY <1>b, RekeyedParts
      <3> QED
        BY <1>b, <2>1, <3>1, RekeyedStands
    <2> QED
      BY <1>b, <2>1, <2>2, QuietKeeps
  <1>5. ASSUME NEW m \in Arriving, StreamDecrypt(m)
        PROVE  RecordInv'
    BY <1>5, StreamDecryptKeeps
  <1>6. ASSUME NEW m \in Arriving, PacketDecrypt(m)
        PROVE  RecordInv'
    BY <1>6, PacketDecryptKeeps
  <1>7. CASE RecordModuleFails
    <2>1. down' = TRUE /\ UNCHANGED <<protocol, writer, reader, network, sent, delivered>>
      BY <1>7 DEF RecordModuleFails
    <2> QED
      BY <1>b, <2>1, QuietKeeps
  <1>8. CASE UNCHANGED recordVars
    <2>1. UNCHANGED <<protocol, writer, reader, network, sent, delivered, down>>
      BY <1>8 DEF recordVars
    <2> QED
      BY <1>b, <2>1, QuietKeeps
  <1> QED
    BY <1>1, <1>2, <1>3, <1>4, <1>5, <1>6, <1>7, <1>8 DEF RecordNext

(* The records sent are numbered without a gap, from zero under each key;   *)
(* the network holds exactly those; and the receiver of a stream stands     *)
(* right behind what it accepted (aead.rs, quic.rs, with rustls's numbers). *)
THEOREM RecordInvariant == RecordSpec => []RecordInv
  BY RecordInitInv, RecordStep, PTL DEF RecordSpec

(* What is delivered is what was sent: of a stream a prefix, in order, each *)
(* record once and as the type it was sent as, whatever the network does to *)
(* lengths, types, explicit nonces and order (Tls13Decrypter::decrypt,      *)
(* Tls12Decrypter::decrypt, Tls12ChaChaDecrypter::decrypt); of QUIC only    *)
(* packets that were sent, under their own numbers.                         *)
THEOREM OnlyWhatWasSent == RecordSpec => []DeliveredAsSent
  <1>1. RecordInv => DeliveredAsSent
    BY DEF RecordInv
  <1> QED
    BY <1>1, RecordInvariant, PTL

(* No nonce serves two records under one key, for any number of records     *)
(* that fits the width: a nonce is the IV of its epoch with the number      *)
(* xored in, the numbers under one key are distinct, and distinct numbers   *)
(* have distinct bits (Nonce::new as rustls makes it, and the explicit      *)
(* nonce of Tls12Encrypter::encrypt).                                       *)
THEOREM NoncesOfRecords == RecordSpec => []RecordNonceOnce
  <1>1. RecordInv => RecordNonceOnce
    <2> SUFFICES ASSUME RecordInv PROVE RecordNonceOnce
      OBVIOUS
    <2>a. RecordTypeOK /\ NetworkIsSent /\ NumberedInOrder /\ protocol \in Protocols
      BY DEF RecordInv, RecordTypeOK
    <2>b. PICK n \in Nat : n = Len(sent)
      BY <2>a DEF RecordTypeOK
    <2> DEFINE used == {<<m.cipher[2], m.cipher[3]>> : m \in network}
               nonce(i) == <<sent[i].epoch, <<sent[i].epoch, XorNumber(Iv(sent[i].epoch), sent[i].seq)>>>>
               f == [i \in 1..n |-> nonce(i)]
    <2>1. used = {nonce(i) : i \in 1..n}
      <3>1. ASSUME NEW e, NEW s, NEW p
            PROVE  <<Protect(e, s, p).cipher[2], Protect(e, s, p).cipher[3]>>
                     = <<e, <<e, XorNumber(Iv(e), s)>>>>
        <4>1. PICK c : c = CipherOf(e, s, p)
          OBVIOUS
        <4>2. c[2] = e /\ c[3] = <<e, XorNumber(Iv(e), s)>>
          BY <4>1, CipherParts
        <4>3. Protect(e, s, p).cipher = c
          BY <2>a, <4>1, ProtectMakes
        <4> QED
          BY <4>2, <4>3
      <3> DEFINE pair(i) == <<Protect(sent[i].epoch, sent[i].seq, sent[i].payload).cipher[2],
                              Protect(sent[i].epoch, sent[i].seq, sent[i].payload).cipher[3]>>
      <3>2. used = {pair(i) : i \in 1..n}
        BY <2>a, <2>b DEF NetworkIsSent
      <3>3. \A i \in 1..n : pair(i) = nonce(i)
        BY <3>1
      <3> HIDE DEF pair, nonce, used
      <3> QED
        BY <3>2, <3>3
    <2>2. ASSUME NEW i \in 1..n, NEW j \in 1..n, nonce(i) = nonce(j)
          PROVE  i = j
      <3>1. i \in 1..Len(sent) /\ j \in 1..Len(sent)
        BY <2>b
      <3>2. sent[i].seq \in 0..MaxSeq /\ sent[j].seq \in 0..MaxSeq
        BY <2>a, <3>1, EntryTypes
      <3>3. /\ sent[i].epoch = sent[j].epoch
            /\ XorNumber(Iv(sent[i].epoch), sent[i].seq) = XorNumber(Iv(sent[j].epoch), sent[j].seq)
        BY <2>2
      <3>4. sent[i].seq = sent[j].seq
        BY <3>2, <3>3, NoncesDiffer
      <3> QED
        BY <2>a, <3>1, <3>3, <3>4, OnePosition
    <2> HIDE DEF nonce, used
    <2>3. f \in Bijection(1..n, used)
      <3>1. f \in Injection(1..n, used)
        BY <2>1, <2>2 DEF Injection, IsInjective
      <3>2. f \in Surjection(1..n, used)
        BY <2>1 DEF Surjection
      <3> QED
        BY <3>1, <3>2 DEF Bijection
    <2>4. Cardinality(used) = n
      BY <2>3, FS_CountingElements DEF ExistsBijection
    <2> QED
      BY <2>b, <2>4 DEF RecordNonceOnce, used
  <1> QED
    BY <1>1, RecordInvariant, PTL


-----------------------------------------------------------------------------
(* What the symbols tell apart.                                             *)

\* What the client of u makes of password p when q was blinded.
Stretched(u, p, q) == randomized_password(<<"oprf", p, u, q>>)

LEMMA FinalizeOwn ==
    ASSUME NEW p, NEW q, NEW session, NEW u
    PROVE  randomized_password(Finalize(p, session, BlindEvaluate(u, Blind(session, q)))) = Stretched(u, p, q)
  BY DEF Finalize, BlindEvaluate, Blind, Stretched

\* Whatever was evaluated, the password is in what comes out.
LEMMA FinalizeTells ==
    ASSUME NEW p, NEW session, NEW evaluated, NEW u, NEW q,
           randomized_password(Finalize(p, session, evaluated)) = Stretched(u, q, q)
    PROVE  p = q
  <1>1. Finalize(p, session, evaluated) = <<"oprf", q, u, q>>
    BY DEF randomized_password, Stretched
  <1>2. CASE evaluated[3][2] = session
    BY <1>1, <1>2 DEF Finalize
  <1>3. CASE evaluated[3][2] # session
    BY <1>1, <1>3 DEF Finalize
  <1> QED
    BY <1>2, <1>3

LEMMA StretchedTells ==
    ASSUME NEW u, NEW p, NEW q, NEW v, NEW a, NEW b, Stretched(u, p, q) = Stretched(v, a, b)
    PROVE  u = v /\ p = a /\ q = b
  BY DEF Stretched, randomized_password

LEMMA MaskingTells ==
    ASSUME NEW x, NEW y, NEW user
    PROVE  /\ MaskingKey(x) = MaskingKey(y) => x = y
           /\ fake_record(user).masking_key # MaskingKey(x)
  BY DEF MaskingKey, fake_record

LEMMA TagTells ==
    ASSUME NEW auth, NEW n, NEW pk, NEW ids, NEW auth2, NEW n2, NEW pk2, NEW ids2,
           EnvelopeTag(auth, n, pk, ids) = EnvelopeTag(auth2, n2, pk2, ids2)
    PROVE  auth = auth2 /\ n = n2 /\ pk = pk2 /\ ids.server = ids2.server /\ ids.client = ids2.client
  BY DEF EnvelopeTag

LEMMA MacTells ==
    ASSUME NEW ikm, NEW pre, NEW ikm2, NEW pre2,
           ServerMac(DeriveKeys(ikm, pre), pre) = ServerMac(DeriveKeys(ikm2, pre2), pre2)
    PROVE  ikm = ikm2 /\ pre = pre2
  BY DEF ServerMac, DeriveKeys

LEMMA ClientMacTells ==
    ASSUME NEW ikm, NEW pre, NEW mac, NEW ikm2, NEW pre2, NEW mac2,
           ClientMac(DeriveKeys(ikm, pre), pre, mac) = ClientMac(DeriveKeys(ikm2, pre2), pre2, mac2)
    PROVE  pre = pre2
  BY DEF ClientMac, DeriveKeys

LEMMA SessionKeyTells ==
    ASSUME NEW ikm, NEW pre, NEW ikm2, NEW pre2,
           DeriveKeys(ikm, pre).session_key = DeriveKeys(ikm2, pre2).session_key
    PROVE  pre = pre2
  BY DEF DeriveKeys

LEMMA PreambleTells ==
    ASSUME NEW context, NEW ids, NEW ke1, NEW ke2, NEW context2, NEW ids2, NEW other1, NEW other2,
           Preamble(context, ids, ke1, ke2) = Preamble(context2, ids2, other1, other2)
    PROVE  /\ context = context2 /\ ids.client = ids2.client /\ ids.server = ids2.server /\ ke1 = other1
           /\ ke2.evaluated = other2.evaluated /\ ke2.masking_nonce = other2.masking_nonce
           /\ ke2.masked = other2.masked /\ ke2.server_nonce = other2.server_nonce
           /\ ke2.keyshare = other2.keyshare
  <1>1. context = context2 /\ ids.client = ids2.client /\ ids.server = ids2.server /\ ke1 = other1
        /\ Prefix(ke2) = Prefix(other2)
    <2>1. PICK own, their : own = Prefix(ke2) /\ their = Prefix(other2)
      OBVIOUS
    <2>2. <<context, ids.client, ke1, ids.server, own>> = <<context2, ids2.client, other1, ids2.server, their>>
      BY <2>1 DEF Preamble
    <2> QED
      BY <2>1, <2>2
  <1>2. PICK a, b, d, e, f : /\ a = ke2.evaluated /\ b = ke2.masking_nonce /\ d = ke2.masked
                             /\ e = ke2.server_nonce /\ f = ke2.keyshare
    OBVIOUS
  <1>3. PICK v, w, x, y, z : /\ v = other2.evaluated /\ w = other2.masking_nonce /\ x = other2.masked
                             /\ y = other2.server_nonce /\ z = other2.keyshare
    OBVIOUS
  <1>4. <<a, b, d, e, f>> = <<v, w, x, y, z>>
    <2>1. Prefix(ke2) = <<a, b, d, e, f>>
      BY <1>2, Zenon DEF Prefix
    <2>2. Prefix(other2) = <<v, w, x, y, z>>
      BY <1>3, Zenon DEF Prefix
    <2> QED
      BY <1>1, <2>1, <2>2
  <1>5. a = v /\ b = w /\ d = x /\ e = y /\ f = z
    BY <1>4
  <1> QED
    BY <1>1, <1>2, <1>3, <1>5

-----------------------------------------------------------------------------
(* What the functions of the protocol make.                                 *)

LEMMA ServerLoginKeeps ==
    ASSUME NEW s, NEW user, NEW record, NEW ke1, NEW args
    PROVE  LET made == ServerLogin(s, user, record, ke1, args)
           IN  /\ made.stage = "waiting" /\ made.user = user /\ made.record = record
               /\ made.ke1 = ke1 /\ made.args = args
               /\ DOMAIN made = {"stage", "user", "record", "ke1", "args", "ke2",
                                 "expected_client_mac", "session_key"}
  <1>1. PICK ke2, ke3, key :
            ServerLogin(s, user, record, ke1, args)
              = [stage |-> "waiting", user |-> user, record |-> record, ke1 |-> ke1, args |-> args,
                 ke2 |-> ke2, expected_client_mac |-> ke3, session_key |-> key]
    BY ZenonT(40) DEF ServerLogin
  <1> QED
    BY <1>1

LEMMA RefusedStage ==
    ASSUME NEW error
    PROVE  Refused(error).stage = "refused"
  BY DEF Refused

\* What a client has checked of an answer that it accepts, and what it then
\* holds: the unmasked envelope, the identities, the shared secrets, the
\* preamble.
ClientView(c, password, ke2, args, rwd, un, ids, ikm, pre) ==
    /\ rwd = randomized_password(Finalize(password, <<"login", c>>, ke2.evaluated))
    /\ un = Unmask(MaskingKey(rwd), ke2.masking_nonce, ke2.masked)
    /\ ids = Identities(un.server_pk, ClientKey(rwd, un.nonce), args)
    /\ ikm = Ikm(diffie_hellman(clients[c].ke1.keyshare, ke2.keyshare),
                 diffie_hellman(clients[c].ke1.keyshare, un.server_pk),
                 diffie_hellman(ClientKey(rwd, un.nonce), ke2.keyshare))
    /\ pre = Preamble(args.context, ids, clients[c].ke1, ke2)

Checked(ke2, rwd, un, ids, ikm, pre) ==
    /\ EnvelopeTag(AuthKey(rwd, un.nonce), un.nonce, un.server_pk, ids) = un.tag
    /\ ke2.mac = ServerMac(DeriveKeys(ikm, pre), pre)

LoggedIn(c, password, args, rwd, un, ids, ikm, pre) ==
    [stage |-> "done", password |-> password, args |-> args, ids |-> ids,
     ke3 |-> ClientMac(DeriveKeys(ikm, pre), pre, ServerMac(DeriveKeys(ikm, pre), pre)),
     session_key |-> DeriveKeys(ikm, pre).session_key,
     export_key |-> ExportKey(rwd, un.nonce), ke1 |-> clients[c].ke1]

Accepts(c, password, ke2, args, rwd, un, ids, ikm, pre, outcome) ==
    /\ ClientView(c, password, ke2, args, rwd, un, ids, ikm, pre)
    /\ Checked(ke2, rwd, un, ids, ikm, pre)
    /\ outcome = LoggedIn(c, password, args, rwd, un, ids, ikm, pre)

LEMMA ClientMakes ==
    ASSUME NEW c, NEW password, NEW ke2, NEW args, NEW rwd, NEW un, NEW ids, NEW ikm, NEW pre,
           ClientView(c, password, ke2, args, rwd, un, ids, ikm, pre)
    PROVE  ClientOutcome(c, password, ke2, args)
             = IF failed THEN Refused("ModuleErrorState")
               ELSE IF BadLength(args) THEN Refused("InvalidLength")
               ELSE IF ~Checked(ke2, rwd, un, ids, ikm, pre) THEN Refused("AuthenticationFailed")
               ELSE LoggedIn(c, password, args, rwd, un, ids, ikm, pre)
  BY ZenonT(40) DEF ClientView, ClientOutcome, Checked, LoggedIn

LEMMA ClientHolds ==
    ASSUME NEW c, NEW password, NEW ke2, NEW args, NEW outcome,
           outcome = ClientOutcome(c, password, ke2, args), outcome.stage = "done"
    PROVE  \E rwd, un, ids, ikm, pre :
              Accepts(c, password, ke2, args, rwd, un, ids, ikm, pre, outcome)
  <1>1. PICK rwd, un, ids, ikm, pre : ClientView(c, password, ke2, args, rwd, un, ids, ikm, pre)
    <2>1. PICK rwd : rwd = randomized_password(Finalize(password, <<"login", c>>, ke2.evaluated))
      OBVIOUS
    <2>2. PICK un : un = Unmask(MaskingKey(rwd), ke2.masking_nonce, ke2.masked)
      OBVIOUS
    <2>3. PICK ids : ids = Identities(un.server_pk, ClientKey(rwd, un.nonce), args)
      OBVIOUS
    <2>4. PICK ikm : ikm = Ikm(diffie_hellman(clients[c].ke1.keyshare, ke2.keyshare),
                               diffie_hellman(clients[c].ke1.keyshare, un.server_pk),
                               diffie_hellman(ClientKey(rwd, un.nonce), ke2.keyshare))
      OBVIOUS
    <2>5. PICK pre : pre = Preamble(args.context, ids, clients[c].ke1, ke2)
      OBVIOUS
    <2>6. ClientView(c, password, ke2, args, rwd, un, ids, ikm, pre)
      BY <2>1, <2>2, <2>3, <2>4, <2>5 DEF ClientView
    <2> QED
      BY <2>6
  <1>2. outcome = IF failed THEN Refused("ModuleErrorState")
                  ELSE IF BadLength(args) THEN Refused("InvalidLength")
                  ELSE IF ~Checked(ke2, rwd, un, ids, ikm, pre) THEN Refused("AuthenticationFailed")
                  ELSE LoggedIn(c, password, args, rwd, un, ids, ikm, pre)
    BY <1>1, ClientMakes
  <1>3. \A error : outcome # Refused(error)
    BY RefusedStage
  <1>4. Checked(ke2, rwd, un, ids, ikm, pre) /\ outcome = LoggedIn(c, password, args, rwd, un, ids, ikm, pre)
    BY <1>2, <1>3
  <1>5. Accepts(c, password, ke2, args, rwd, un, ids, ikm, pre, outcome)
    BY <1>1, <1>4 DEF Accepts
  <1> QED
    BY <1>5

\* The same of a login that the server holds, by its identities, its shared
\* secrets and its preamble.
ServerView(s, me, ids, ikm, pre) ==
    /\ ids = Identities(ServerPublicKey, me.record.client_pk, me.args)
    /\ ikm = Ikm(diffie_hellman(Drawn("server share", s), me.ke1.keyshare),
                 diffie_hellman(ServerPublicKey, me.ke1.keyshare),
                 diffie_hellman(Drawn("server share", s), me.record.client_pk))
    /\ pre = Preamble(me.args.context, ids, me.ke1, me.ke2)
    /\ me.ke2.evaluated = BlindEvaluate(me.user, me.ke1.blinded)
    /\ me.ke2.masking_nonce = Drawn("masking nonce", s)
    /\ me.ke2.masked = Masked(me.record.masking_key, Drawn("masking nonce", s), ServerPublicKey,
                              me.record.nonce, me.record.tag)
    /\ me.ke2.server_nonce = Drawn("server nonce", s)
    /\ me.ke2.keyshare = Drawn("server share", s)
    /\ me.ke2.mac = ServerMac(DeriveKeys(ikm, pre), pre)
    /\ me.expected_client_mac = ClientMac(DeriveKeys(ikm, pre), pre, me.ke2.mac)
    /\ me.session_key = DeriveKeys(ikm, pre).session_key

LEMMA ServerHolds ==
    ASSUME ServersOK, NEW s \in Servers, servers[s] # Idle, NEW me, me = servers[s]
    PROVE  \E ids, ikm, pre : ServerView(s, me, ids, ikm, pre)
  <1>0. PICK user, record, ke1, args : user = me.user /\ record = me.record /\ ke1 = me.ke1 /\ args = me.args
    OBVIOUS
  <1>1. PICK made : made = ServerLogin(s, user, record, ke1, args)
    OBVIOUS
  <1>2. /\ me.ke2 = made.ke2 /\ me.session_key = made.session_key
        /\ me.expected_client_mac = made.expected_client_mac
    BY <1>0, <1>1 DEF ServersOK
  <1>share. PICK evaluated, mask, masked, nonce, share :
            /\ evaluated = BlindEvaluate(user, ke1.blinded) /\ mask = Drawn("masking nonce", s)
            /\ masked = Masked(record.masking_key, mask, ServerPublicKey, record.nonce, record.tag)
            /\ nonce = Drawn("server nonce", s) /\ share = Drawn("server share", s)
    OBVIOUS
  <1>unsigned. PICK unsigned : unsigned = [evaluated |-> evaluated, masking_nonce |-> mask, masked |-> masked,
                                           server_nonce |-> nonce, keyshare |-> share]
    OBVIOUS
  <1>4. PICK ids : ids = Identities(ServerPublicKey, record.client_pk, args)
    OBVIOUS
  <1>5. PICK ikm : ikm = Ikm(diffie_hellman(share, ke1.keyshare),
                             diffie_hellman(ServerPublicKey, ke1.keyshare),
                             diffie_hellman(share, record.client_pk))
    OBVIOUS
  <1>6. PICK pre : pre = Preamble(args.context, ids, ke1, unsigned)
    OBVIOUS
  <1>mac. PICK mac, ke3, key : /\ mac = ServerMac(DeriveKeys(ikm, pre), pre)
                               /\ ke3 = ClientMac(DeriveKeys(ikm, pre), pre, mac)
                               /\ key = DeriveKeys(ikm, pre).session_key
    OBVIOUS
  <1>ke2. PICK ke2 : ke2 = [evaluated |-> unsigned.evaluated, masking_nonce |-> mask, masked |-> unsigned.masked,
                            server_nonce |-> unsigned.server_nonce, keyshare |-> share, mac |-> mac]
    OBVIOUS
  <1>made. made = [stage |-> "waiting", user |-> user, record |-> record, ke1 |-> ke1, args |-> args,
                   ke2 |-> ke2, expected_client_mac |-> ke3, session_key |-> key]
    <2>1. made = [stage |-> "waiting", user |-> user, record |-> record, ke1 |-> ke1, args |-> args,
                  ke2 |-> [evaluated |-> unsigned.evaluated, masking_nonce |-> mask,
                           masked |-> unsigned.masked, server_nonce |-> unsigned.server_nonce,
                           keyshare |-> share, mac |-> ServerMac(DeriveKeys(ikm, pre), pre)],
                  expected_client_mac |-> ClientMac(DeriveKeys(ikm, pre), pre, ServerMac(DeriveKeys(ikm, pre), pre)),
                  session_key |-> DeriveKeys(ikm, pre).session_key]
      BY <1>1, <1>share, <1>unsigned, <1>4, <1>5, <1>6, ZenonT(40) DEF ServerLogin
    <2> QED
      BY <1>mac, <1>ke2, <2>1, Zenon
  <1>7. made.ke2 = ke2 /\ made.expected_client_mac = ke3 /\ made.session_key = key
    BY <1>made
  <1>9. /\ unsigned.evaluated = evaluated /\ unsigned.masking_nonce = mask /\ unsigned.masked = masked
        /\ unsigned.server_nonce = nonce /\ unsigned.keyshare = share
    BY <1>unsigned
  <1>3. /\ ke2.evaluated = evaluated /\ ke2.masking_nonce = mask /\ ke2.masked = masked
        /\ ke2.server_nonce = nonce /\ ke2.keyshare = share /\ ke2.mac = mac
    BY <1>ke2, <1>9
  <1>10. pre = Preamble(args.context, ids, ke1, ke2)
    <2>1. Prefix(unsigned) = Prefix(ke2)
      BY <1>3, <1>9 DEF Prefix
    <2> QED
      BY <1>6, <2>1 DEF Preamble
  <1>8. ServerView(s, me, ids, ikm, pre)
    <2>1. me.ke2 = ke2 /\ me.expected_client_mac = ke3 /\ me.session_key = key
      BY <1>2, <1>7
    <2>2. ids = Identities(ServerPublicKey, me.record.client_pk, me.args)
      BY <1>0, <1>4
    <2>3. ikm = Ikm(diffie_hellman(Drawn("server share", s), me.ke1.keyshare),
                    diffie_hellman(ServerPublicKey, me.ke1.keyshare),
                    diffie_hellman(Drawn("server share", s), me.record.client_pk))
      BY <1>0, <1>5, <1>share
    <2>4. pre = Preamble(me.args.context, ids, me.ke1, me.ke2)
      BY <1>0, <1>10, <2>1
    <2>5. /\ me.ke2.evaluated = BlindEvaluate(me.user, me.ke1.blinded)
          /\ me.ke2.masking_nonce = Drawn("masking nonce", s)
          /\ me.ke2.server_nonce = Drawn("server nonce", s) /\ me.ke2.keyshare = Drawn("server share", s)
      BY <1>0, <1>3, <1>share, <2>1
    <2>6. me.ke2.masked = Masked(me.record.masking_key, Drawn("masking nonce", s), ServerPublicKey,
                                 me.record.nonce, me.record.tag)
      BY <1>0, <1>3, <1>share, <2>1
    <2>7. /\ me.ke2.mac = ServerMac(DeriveKeys(ikm, pre), pre)
          /\ me.expected_client_mac = ClientMac(DeriveKeys(ikm, pre), pre, me.ke2.mac)
          /\ me.session_key = DeriveKeys(ikm, pre).session_key
      BY <1>3, <1>mac, <2>1
    <2> QED
      BY <2>2, <2>3, <2>4, <2>5, <2>6, <2>7 DEF ServerView
  <1> QED
    BY <1>8

\* And of a registration that has finished.
RegistrationView(r, me, rwd, nonce) ==
    /\ rwd = Stretched(me.user, me.password, me.password)
    /\ nonce = Drawn("envelope nonce", r)
    /\ me.record.client_pk = ClientKey(rwd, nonce)
    /\ me.record.masking_key = MaskingKey(rwd)
    /\ me.record.nonce = nonce
    /\ me.record.tag = EnvelopeTag(AuthKey(rwd, nonce), nonce, ServerPublicKey,
                         Identities(ServerPublicKey, ClientKey(rwd, nonce), me.args))
    /\ me.export_key = ExportKey(rwd, nonce)

LEMMA FinishedBegun ==
    ASSUME NEW r \in Finished
    PROVE  r \in Registrations /\ registrations[r] # Idle
  BY DEF Finished, Idle

LEMMA RegistrationHolds ==
    ASSUME RegistrationsOK, NEW r \in Finished, NEW me, me = registrations[r]
    PROVE  \E rwd, nonce : RegistrationView(r, me, rwd, nonce)
  <1>1. PICK user, password, args : user = me.user /\ password = me.password /\ args = me.args
    OBVIOUS
  <1>2. PICK response : response = registration_response(user, registration_start(r, password))
    OBVIOUS
  <1>3. PICK made : made = registration_finish(r, password, response, args)
    OBVIOUS
  <1>4. r \in Registrations /\ registrations[r] # Idle
    BY FinishedBegun
  <1>5. me.record = made.record /\ me.export_key = made.export_key
    BY <1>1, <1>2, <1>3, <1>4 DEF RegistrationsOK
  <1>6. PICK rwd : rwd = Stretched(user, password, password)
    OBVIOUS
  <1>7. randomized_password(Finalize(password, <<"registration", r>>, response.evaluated)) = rwd
    <2>1. response.evaluated = BlindEvaluate(user, Blind(<<"registration", r>>, password))
      BY <1>2 DEF registration_response, registration_start
    <2>2. randomized_password(Finalize(password, <<"registration", r>>,
             BlindEvaluate(user, Blind(<<"registration", r>>, password)))) = rwd
      BY <1>6, FinalizeOwn
    <2> QED
      BY <2>1, <2>2
  <1>8. response.server_pk = ServerPublicKey
    BY <1>2 DEF registration_response
  <1>9. PICK nonce : nonce = Drawn("envelope nonce", r)
    OBVIOUS
  <1>10. /\ made.record.client_pk = ClientKey(rwd, nonce)
         /\ made.record.masking_key = MaskingKey(rwd)
         /\ made.record.nonce = nonce
         /\ made.record.tag = EnvelopeTag(AuthKey(rwd, nonce), nonce, ServerPublicKey,
                                Identities(ServerPublicKey, ClientKey(rwd, nonce), args))
         /\ made.export_key = ExportKey(rwd, nonce)
    BY <1>3, <1>7, <1>8, <1>9 DEF registration_finish
  <1>11. RegistrationView(r, me, rwd, nonce)
    BY <1>1, <1>5, <1>6, <1>9, <1>10 DEF RegistrationView
  <1> QED
    BY <1>11

\* What holds of a client that accepts an answer with the MAC of login s.
Agrees(c, password, args, outcome, s) ==
    /\ outcome.session_key = servers[s].session_key
    /\ outcome.ke3 = servers[s].expected_client_mac
    /\ outcome.ke1 = servers[s].ke1 /\ outcome.ke1 = clients[c].ke1
    /\ outcome.args = args /\ args.context = servers[s].args.context
    /\ outcome.password = password
    /\ \E r \in Finished :
          /\ registrations[r].record = servers[s].record
          /\ registrations[r].user = servers[s].user
          /\ registrations[r].password = password
          /\ registrations[r].export_key = outcome.export_key
          /\ LET Named(a) == Identities(ServerPublicKey, servers[s].record.client_pk, a)
             IN  Named(registrations[r].args) = Named(args) /\ Named(servers[s].args) = Named(args)
          /\ randomized_password(Finalize(password, <<"login", c>>, servers[s].ke2.evaluated))
               = Stretched(servers[s].user, password, password)

LEMMA Accepted ==
    ASSUME RegistrationsOK, ServersOK, NEW c, NEW password, NEW ke2, NEW args,
           NEW s \in Servers, servers[s] # Idle, ke2.mac = servers[s].ke2.mac,
           NEW outcome, outcome = ClientOutcome(c, password, ke2, args), outcome.stage = "done"
    PROVE  Agrees(c, password, args, outcome, s)
  <1>me. PICK me : me = servers[s]
    OBVIOUS
  <1>accepts. PICK rwd, un, ids, ikm, pre :
            Accepts(c, password, ke2, args, rwd, un, ids, ikm, pre, outcome)
    BY ClientHolds, Zenon
  <1>client. /\ ClientView(c, password, ke2, args, rwd, un, ids, ikm, pre)
             /\ Checked(ke2, rwd, un, ids, ikm, pre)
             /\ outcome = LoggedIn(c, password, args, rwd, un, ids, ikm, pre)
    BY <1>accepts, Zenon DEF Accepts
  <1> DEFINE client_key == ClientKey(rwd, un.nonce)
             ke1 == clients[c].ke1
  <1>key. client_key = ClientKey(rwd, un.nonce)
    BY ZenonT(60)
  <1>ke1. ke1 = clients[c].ke1
    BY ZenonT(60)
  <1> HIDE DEF client_key, ke1
  <1>made. /\ rwd = randomized_password(Finalize(password, <<"login", c>>, ke2.evaluated))
           /\ un = Unmask(MaskingKey(rwd), ke2.masking_nonce, ke2.masked)
           /\ ids = Identities(un.server_pk, client_key, args)
           /\ pre = Preamble(args.context, ids, ke1, ke2)
    BY <1>client, <1>key, <1>ke1 DEF ClientView
  <1>1. /\ EnvelopeTag(AuthKey(rwd, un.nonce), un.nonce, un.server_pk, ids) = un.tag
        /\ ke2.mac = ServerMac(DeriveKeys(ikm, pre), pre)
        /\ outcome.password = password /\ outcome.args = args
        /\ outcome.ke3 = ClientMac(DeriveKeys(ikm, pre), pre, ke2.mac)
        /\ outcome.session_key = DeriveKeys(ikm, pre).session_key
        /\ outcome.export_key = ExportKey(rwd, un.nonce) /\ outcome.ke1 = ke1
    <2>1. EnvelopeTag(AuthKey(rwd, un.nonce), un.nonce, un.server_pk, ids) = un.tag
          /\ ke2.mac = ServerMac(DeriveKeys(ikm, pre), pre)
      BY <1>client DEF Checked
    <2>2. PICK mac, ke3, key, export :
            /\ mac = ServerMac(DeriveKeys(ikm, pre), pre) /\ ke3 = ClientMac(DeriveKeys(ikm, pre), pre, mac)
            /\ key = DeriveKeys(ikm, pre).session_key /\ export = ExportKey(rwd, un.nonce)
      OBVIOUS
    <2>3. outcome = [stage |-> "done", password |-> password, args |-> args, ids |-> ids, ke3 |-> ke3,
                     session_key |-> key, export_key |-> export, ke1 |-> ke1]
      BY <1>client, <1>ke1, <2>2, Zenon DEF LoggedIn
    <2>4. /\ outcome.password = password /\ outcome.args = args /\ outcome.ke3 = ke3
          /\ outcome.session_key = key /\ outcome.export_key = export /\ outcome.ke1 = ke1
      BY <2>3
    <2> QED
      BY <2>1, <2>2, <2>4
  <1>view. PICK sids, sikm, spre : ServerView(s, me, sids, sikm, spre)
    BY <1>me, ServerHolds
  <1>2. /\ me.ke2.masked = Masked(me.record.masking_key, Drawn("masking nonce", s), ServerPublicKey,
                                  me.record.nonce, me.record.tag)
        /\ me.ke2.mac = ServerMac(DeriveKeys(sikm, spre), spre)
        /\ me.expected_client_mac = ClientMac(DeriveKeys(sikm, spre), spre, me.ke2.mac)
        /\ me.session_key = DeriveKeys(sikm, spre).session_key
        /\ spre = Preamble(me.args.context, sids, me.ke1, me.ke2)
        /\ sids = Identities(ServerPublicKey, me.record.client_pk, me.args)
    BY <1>view DEF ServerView
  <1>3. ikm = sikm /\ pre = spre
    <2>1. ServerMac(DeriveKeys(ikm, pre), pre) = ServerMac(DeriveKeys(sikm, spre), spre)
      BY <1>me, <1>1, <1>2
    <2> QED
      BY <2>1, MacTells
  <1>4. /\ args.context = me.args.context /\ ids.client = sids.client /\ ids.server = sids.server
        /\ ke1 = me.ke1 /\ ke2.evaluated = me.ke2.evaluated /\ ke2.masked = me.ke2.masked
    <2>1. Preamble(args.context, ids, ke1, ke2) = Preamble(me.args.context, sids, me.ke1, me.ke2)
      BY <1>3, <1>made, <1>2
    <2> QED
      BY <2>1, PreambleTells
  <1>5. /\ MaskingKey(rwd) = me.record.masking_key
        /\ un.server_pk = ServerPublicKey /\ un.nonce = me.record.nonce /\ un.tag = me.record.tag
    <2>1. PICK key, mask, own, nonce, envelope, tag :
            /\ key = MaskingKey(rwd) /\ mask = ke2.masking_nonce
            /\ own = me.record.masking_key /\ nonce = Drawn("masking nonce", s)
            /\ envelope = me.record.nonce /\ tag = me.record.tag
      OBVIOUS
    <2>2. un = Unmask(key, mask, Masked(own, nonce, ServerPublicKey, envelope, tag))
      BY <1>2, <1>4, <1>made, <2>1
    <2>3. un.tag # <<"noise">>
      BY <1>1 DEF EnvelopeTag
    <2>4. key = own /\ un.server_pk = ServerPublicKey /\ un.nonce = envelope /\ un.tag = tag
      BY <2>2, <2>3 DEF Unmask, Masked
    <2> QED
      BY <2>1, <2>4
  <1>7. PICK r \in Finished : registrations[r].user = me.user /\ registrations[r].record = me.record
    <2>1. me.record # fake_record(me.user)
      BY <1>5, MaskingTells
    <2> QED
      BY <1>me, <2>1 DEF ServersOK, Registered
  <1>reg. PICK reg : reg = registrations[r]
    OBVIOUS
  <1>own. PICK own, nonce : RegistrationView(r, reg, own, nonce)
    BY <1>7, <1>reg, RegistrationHolds
  <1>8. /\ own = Stretched(reg.user, reg.password, reg.password)
        /\ reg.record.client_pk = ClientKey(own, nonce)
        /\ reg.record.masking_key = MaskingKey(own)
        /\ reg.record.nonce = nonce
        /\ reg.record.tag = EnvelopeTag(AuthKey(own, nonce), nonce, ServerPublicKey,
                               Identities(ServerPublicKey, ClientKey(own, nonce), reg.args))
        /\ reg.export_key = ExportKey(own, nonce)
    BY <1>own DEF RegistrationView
  <1>9. rwd = own
    BY <1>5, <1>7, <1>8, <1>reg, MaskingTells
  <1>10. reg.password = password
    BY <1>9, <1>made, <1>8, FinalizeTells
  <1>11. outcome.export_key = reg.export_key
    BY <1>1, <1>5, <1>7, <1>8, <1>9, <1>reg
  <1>12. client_key = me.record.client_pk
    BY <1>5, <1>7, <1>8, <1>9, <1>reg, <1>key
  <1>13. /\ Identities(ServerPublicKey, me.record.client_pk, reg.args)
              = Identities(ServerPublicKey, me.record.client_pk, args)
         /\ Identities(ServerPublicKey, me.record.client_pk, me.args)
              = Identities(ServerPublicKey, me.record.client_pk, args)
    <2>1. PICK rids : rids = Identities(ServerPublicKey, me.record.client_pk, reg.args)
      OBVIOUS
    <2>2. ids = Identities(ServerPublicKey, me.record.client_pk, args)
      BY <1>5, <1>12, <1>made
    <2>3. EnvelopeTag(AuthKey(rwd, un.nonce), un.nonce, un.server_pk, ids)
            = EnvelopeTag(AuthKey(own, nonce), nonce, ServerPublicKey, rids)
      BY <1>1, <1>5, <1>7, <1>8, <1>reg, <2>1
    <2>4. ids.server = rids.server /\ ids.client = rids.client
      BY <2>3, TagTells
    <2>5. rids = ids
      BY <2>1, <2>2, <2>4 DEF Identities
    <2>6. sids = ids
      BY <1>4, <1>2, <2>2 DEF Identities
    <2> QED
      BY <1>2, <2>1, <2>2, <2>5, <2>6
  <1>14. randomized_password(Finalize(password, <<"login", c>>, me.ke2.evaluated))
           = Stretched(me.user, password, password)
    <2>1. me.ke2.evaluated = ke2.evaluated
      BY <1>4
    <2>2. rwd = Stretched(reg.user, reg.password, reg.password)
      BY <1>8, <1>9
    <2>3. reg.user = me.user
      BY <1>7, <1>reg
    <2> QED
      BY <1>10, <1>made, <2>1, <2>2, <2>3
  <1>15. /\ outcome.session_key = me.session_key /\ outcome.ke3 = me.expected_client_mac
    <2>1. ke2.mac = me.ke2.mac
      BY <1>me
    <2>2. outcome.session_key = DeriveKeys(sikm, spre).session_key /\ me.session_key = DeriveKeys(sikm, spre).session_key
      BY <1>1, <1>2, <1>3
    <2>3. /\ outcome.ke3 = ClientMac(DeriveKeys(sikm, spre), spre, me.ke2.mac)
          /\ me.expected_client_mac = ClientMac(DeriveKeys(sikm, spre), spre, me.ke2.mac)
      BY <1>1, <1>2, <1>3, <2>1
    <2> QED
      BY <2>2, <2>3
  <1> QED
    BY <1>me, <1>ke1, <1>reg, <1>1, <1>4, <1>7, <1>10, <1>11, <1>13, <1>14, <1>15 DEF Agrees
-----------------------------------------------------------------------------
(* The network.                                                             *)

LEMMA BegunAnswered ==
    ASSUME ServersOK, NEW s \in Servers
    PROVE  /\ servers[s] # Idle <=> s \in Answered
           /\ servers[s] # Idle <=> servers[s].stage # "idle"
           /\ servers[s] # Idle => DOMAIN servers[s] = {"stage", "user", "record", "ke1", "args", "ke2",
                                                         "expected_client_mac", "session_key"}
  <1>1. CASE servers[s] = Idle
    BY <1>1 DEF Idle, Answered
  <1>2. CASE servers[s] # Idle
    <2>1. PICK me : me = servers[s]
      OBVIOUS
    <2>2. PICK made : made = ServerLogin(s, me.user, me.record, me.ke1, me.args)
      OBVIOUS
    <2>3. DOMAIN me = DOMAIN made /\ me.stage # "idle"
      BY <1>2, <2>1, <2>2 DEF ServersOK
    <2>4. DOMAIN made = {"stage", "user", "record", "ke1", "args", "ke2", "expected_client_mac", "session_key"}
      BY <2>2 DEF ServerLogin
    <2> QED
      BY <1>2, <2>1, <2>3, <2>4 DEF Answered
  <1> QED
    BY <1>1, <1>2

Ke2Fields == {"evaluated", "masking_nonce", "masked", "server_nonce", "keyshare", "mac"}

LEMMA AnswerFields ==
    ASSUME ServersOK, NEW s \in Answered
    PROVE  DOMAIN servers[s].ke2 = Ke2Fields
  <1>1. s \in Servers
    BY DEF Answered
  <1>2. servers[s] # Idle
    BY <1>1, BegunAnswered
  <1>3. PICK user, record, ke1, args : servers[s].ke2 = ServerLogin(s, user, record, ke1, args).ke2
    BY <1>1, <1>2 DEF ServersOK
  <1> QED
    BY <1>3 DEF ServerLogin, Ke2Fields

\* Whatever the network puts together, the MAC of a KE2 comes from a login of
\* the server.
LEMMA NetworkMac ==
    ASSUME ServersOK, NEW ke2 \in MixedKe2s
    PROVE  \E s \in Servers : servers[s] # Idle /\ ke2.mac = servers[s].ke2.mac
  <1>1. \A s \in Answered : s \in Servers /\ servers[s] # Idle
    BY BegunAnswered DEF Answered
  <1>2. \A a \in Ke2s : DOMAIN a = Ke2Fields /\ \E s \in Answered : a = servers[s].ke2
    BY AnswerFields DEF Ke2s, Answered
  <1>3. CASE ke2 \in Ke2s
    BY <1>1, <1>2, <1>3
  <1>4. CASE ke2 \notin Ke2s
    <2>1. PICK a \in Ke2s, b \in Ke2s : \E f \in DOMAIN a : ke2 = [a EXCEPT ![f] = b[f]]
      BY <1>4 DEF MixedKe2s
    <2>2. DOMAIN a = Ke2Fields /\ DOMAIN b = Ke2Fields
      BY <1>2
    <2>3. ke2.mac = a.mac \/ ke2.mac = b.mac
      BY <2>1, <2>2 DEF Ke2Fields
    <2> QED
      BY <1>1, <1>2, <2>3
  <1> QED
    BY <1>3, <1>4

-----------------------------------------------------------------------------
(* What a step leaves alone.                                                *)

\* A login of the server stays what it is, whatever its stage becomes.
SameLogin(a, b) ==
    /\ b.stage # "idle" /\ DOMAIN b = DOMAIN a
    /\ b.user = a.user /\ b.record = a.record /\ b.ke1 = a.ke1 /\ b.args = a.args /\ b.ke2 = a.ke2
    /\ b.expected_client_mac = a.expected_client_mac /\ b.session_key = a.session_key

RegistrationsKept == \A r \in Finished : r \in Finished' /\ registrations'[r] = registrations[r]
ServersKept == \A s \in Servers : servers[s] # Idle => SameLogin(servers[s], servers'[s])
ClientsKept == \A c \in Clients : clients[c].stage = "done" => clients'[c] = clients[c]

LEMMA RegisterKeeps ==
    ASSUME SessionsOK, NEW r \in Registrations, NEW u, NEW p, NEW a, Register(r, u, p, a)
    PROVE  RegistrationsKept
  <1>1. PICK new : registrations' = [registrations EXCEPT ![r] = new]
    BY DEF Register
  <1>2. registrations[r] = Idle
    BY DEF Register, Begin
  <1>3. r \notin Finished
    BY <1>2 DEF Finished, Idle
  <1>4. \A q \in Registrations : q # r => registrations'[q] = registrations[q]
    BY <1>1 DEF SessionsOK
  <1> QED
    BY <1>3, <1>4 DEF RegistrationsKept, Finished

LEMMA UnchangedKeeps ==
    /\ registrations' = registrations => RegistrationsKept
    /\ clients' = clients => ClientsKept
    /\ ServersOK /\ servers' = servers => ServersKept
  <1>1. registrations' = registrations => RegistrationsKept
    BY DEF RegistrationsKept, Finished
  <1>2. clients' = clients => ClientsKept
    BY DEF ClientsKept
  <1>3. ASSUME ServersOK, servers' = servers
        PROVE  ServersKept
    BY <1>3, BegunAnswered DEF ServersKept, SameLogin
  <1> QED
    BY <1>1, <1>2, <1>3

LEMMA RespondKeeps ==
    ASSUME SessionsOK, ServersOK, NEW s \in Servers, NEW u, NEW ke1, NEW a, LoginRespond(s, u, ke1, a)
    PROVE  ServersKept
  <1>1. PICK new : servers' = [servers EXCEPT ![s] = new]
    BY DEF LoginRespond
  <1>2. servers[s] = Idle
    BY DEF LoginRespond, Begin
  <1>3. \A t \in Servers : t # s => servers'[t] = servers[t]
    BY <1>1 DEF SessionsOK
  <1> QED
    BY <1>2, <1>3, BegunAnswered DEF ServersKept, SameLogin

LEMMA StageKeeps ==
    ASSUME NEW a, NEW stage, stage # "idle",
           DOMAIN a = {"stage", "user", "record", "ke1", "args", "ke2", "expected_client_mac", "session_key"}
    PROVE  SameLogin(a, [a EXCEPT !.stage = stage])
  BY DEF SameLogin

LEMMA ServerFinishKeeps ==
    ASSUME SessionsOK, ServersOK, NEW s \in Servers, NEW ke3, ServerFinish(s, ke3)
    PROVE  ServersKept
  <1>1. PICK stage, mine : /\ stage # "idle" /\ mine = [servers[s] EXCEPT !.stage = stage]
                          /\ servers' = [servers EXCEPT ![s] = mine]
    BY DEF ServerFinish
  <1>0. DOMAIN servers = Servers
    BY DEF SessionsOK
  <1>2. servers'[s] = [servers[s] EXCEPT !.stage = stage]
    BY <1>0, <1>1
  <1>3. \A t \in Servers : t # s => servers'[t] = servers[t]
    BY <1>0, <1>1
  <1>4. ASSUME NEW t \in Servers, servers[t] # Idle
        PROVE  SameLogin(servers[t], servers'[t])
    <2>1. CASE t = s
      <3>1. DOMAIN servers[s] = {"stage", "user", "record", "ke1", "args", "ke2",
                                 "expected_client_mac", "session_key"}
        BY <1>4, <2>1, BegunAnswered
      <3>2. PICK me : me = servers[s]
        OBVIOUS
      <3>3. SameLogin(me, [me EXCEPT !.stage = stage])
        BY <1>1, <3>1, <3>2, StageKeeps
      <3> QED
        BY <1>2, <2>1, <3>2, <3>3
    <2>2. CASE t # s
      BY <1>3, <1>4, <2>2, BegunAnswered DEF SameLogin
    <2> QED
      BY <2>1, <2>2
  <1> QED
    BY <1>4 DEF ServersKept

LEMMA RestartKeeps ==
    ASSUME SessionsOK, ServersOK, Restart
    PROVE  ServersKept
  <1>1. ASSUME NEW t \in Servers, servers[t] # Idle
        PROVE  SameLogin(servers[t], servers'[t])
    <2>1. servers'[t] = servers[t] \/ servers'[t] = [servers[t] EXCEPT !.stage = "lost"]
      BY DEF Restart
    <2>2. CASE servers'[t] = servers[t]
      BY <1>1, <2>2, BegunAnswered DEF SameLogin
    <2>3. CASE servers'[t] = [servers[t] EXCEPT !.stage = "lost"]
      BY <1>1, <2>3, StageKeeps, BegunAnswered
    <2> QED
      BY <2>1, <2>2, <2>3
  <1> QED
    BY <1>1 DEF ServersKept

LEMMA ClientStepKeeps ==
    ASSUME SessionsOK, NEW c \in Clients, NEW new, clients[c].stage # "done",
           clients' = [clients EXCEPT ![c] = new]
    PROVE  ClientsKept
  BY DEF ClientsKept, SessionsOK
-----------------------------------------------------------------------------
(* Each part of the invariant, over a step that keeps what was there.       *)

LEMMA RegisteredKept ==
    ASSUME RegistrationsKept, NEW u, NEW record, Registered(u, record)
    PROVE  Registered(u, record)'
  BY DEF RegistrationsKept, Registered

\* What ServersOK says of one login.
MadeOK(s, me) ==
    LET made == ServerLogin(s, me.user, me.record, me.ke1, me.args)
    IN  /\ DOMAIN me = DOMAIN made /\ me.stage # "idle"
        /\ me.ke2 = made.ke2 /\ me.session_key = made.session_key
        /\ me.expected_client_mac = made.expected_client_mac

RecordUsable(u, record) == record = fake_record(u) \/ Registered(u, record)

ServerOK(s) == MadeOK(s, servers[s]) /\ RecordUsable(servers[s].user, servers[s].record)

LEMMA SameLoginOK ==
    ASSUME NEW s, NEW a, NEW b, SameLogin(a, b), MadeOK(s, a)
    PROVE  MadeOK(s, b)
  BY DEF SameLogin, MadeOK

LEMMA UsableKept ==
    ASSUME RegistrationsKept, NEW u, NEW record, RecordUsable(u, record)
    PROVE  RecordUsable(u, record)'
  BY RegisteredKept DEF RecordUsable

\* A login was there and is kept, or it is the new one.
LEMMA ServersOKKept ==
    ASSUME ServersOK, RegistrationsKept, ServersKept,
           \A s \in Servers : servers[s] = Idle /\ servers'[s] # Idle => ServerOK(s)'
    PROVE  ServersOK'
  <1>1. ASSUME NEW s \in Servers, servers[s] # Idle
        PROVE  ServerOK(s)'
    <2>1. SameLogin(servers[s], servers'[s])
      BY <1>1 DEF ServersKept
    <2>2. MadeOK(s, servers[s]) /\ RecordUsable(servers[s].user, servers[s].record)
      BY <1>1 DEF ServersOK, MadeOK, RecordUsable
    <2>3. MadeOK(s, servers'[s])
      BY <2>1, <2>2, SameLoginOK
    <2>4. PICK u, record : u = servers[s].user /\ record = servers[s].record
      OBVIOUS
    <2>5. u = servers'[s].user /\ record = servers'[s].record
      BY <2>1, <2>4 DEF SameLogin
    <2>6. RecordUsable(u, record)'
      BY <2>2, <2>4, UsableKept
    <2> QED
      BY <2>3, <2>5, <2>6 DEF ServerOK, RecordUsable, Registered
  <1>2. \A s \in Servers : servers'[s] # Idle => ServerOK(s)'
    BY <1>1
  <1> QED
    BY <1>2 DEF ServersOK, ServerOK, MadeOK, RecordUsable, Idle

LEMMA MatchingKept ==
    ASSUME RegistrationsKept, ServersKept, NEW c, clients'[c] = clients[c],
           NEW s \in Servers, servers[s] # Idle, Matching(c, s)
    PROVE  Matching(c, s)'
  <1>1. SameLogin(servers[s], servers'[s])
    BY DEF ServersKept
  <1> QED
    BY <1>1 DEF Matching, SameLogin, RegistrationsKept

\* The end of a login that a client which is done has.
LEMMA PartnerKept ==
    ASSUME ServersOK, ServersOK', RegistrationsKept, ServersKept, NEW c, clients'[c] = clients[c],
           NEW s \in Answered, Matching(c, s) /\ clients[c].ke3 = servers[s].expected_client_mac
    PROVE  s \in Answered' /\ Matching(c, s)' /\ clients'[c].ke3 = servers'[s].expected_client_mac
  <1>1. s \in Servers
    BY DEF Answered
  <1>2. servers[s] # Idle
    BY <1>1, BegunAnswered
  <1>3. SameLogin(servers[s], servers'[s])
    BY <1>1, <1>2 DEF ServersKept
  <1>4. "ke2" \in DOMAIN servers'[s]
    BY <1>3 DEF Answered, SameLogin
  <1> QED
    BY <1>1, <1>2, <1>3, <1>4, MatchingKept DEF SameLogin, Answered

ClientOK(c) ==
    /\ clients[c].stage \in {"idle", "started", "refused", "done"}
    /\ clients[c].stage = "started" => clients[c].ke1 = Ke1(c, clients[c].password)
    /\ clients[c].stage = "done" =>
          \E s \in Answered : Matching(c, s) /\ clients[c].ke3 = servers[s].expected_client_mac

LEMMA ClientOKKept ==
    ASSUME ServersOK, ServersOK', RegistrationsKept, ServersKept,
           NEW c \in Clients, clients'[c] = clients[c], ClientOK(c)
    PROVE  ClientOK(c)'
  <1>1. clients[c].stage = "done" =>
          \E s \in Answered' : Matching(c, s)' /\ clients'[c].ke3 = servers'[s].expected_client_mac
    BY PartnerKept DEF ClientOK
  <1> QED
    BY <1>1 DEF ClientOK
-----------------------------------------------------------------------------
(* What the steps add.                                                      *)

LEMMA RespondOK ==
    ASSUME SessionsOK, RecordsOK, NEW s \in Servers, NEW u \in Users, NEW ke1, NEW a, LoginRespond(s, u, ke1, a)
    PROVE  \A t \in Servers : servers[t] = Idle /\ servers'[t] # Idle => ServerOK(t)'
  <1>1. PICK record : record = RecordOf(u)
    OBVIOUS
  <1>2. servers' = [servers EXCEPT ![s] = ServerLogin(s, u, record, ke1, a)] /\ registrations' = registrations
    BY <1>1 DEF LoginRespond
  <1>3. servers'[s] = ServerLogin(s, u, record, ke1, a) /\ \A t \in Servers : t # s => servers'[t] = servers[t]
    BY <1>2 DEF SessionsOK
  <1>4. RecordUsable(u, record)
    BY <1>1 DEF RecordsOK, RecordOf, RecordUsable
  <1>5. RecordUsable(u, record)'
    BY <1>2, <1>4, UnchangedKeeps, UsableKept
  <1>6. PICK made : made = ServerLogin(s, u, record, ke1, a)
    OBVIOUS
  <1>7. made.user = u /\ made.record = record /\ made.ke1 = ke1 /\ made.args = a /\ made.stage = "waiting"
    BY <1>6 DEF ServerLogin
  <1>8. MadeOK(s, made)
    BY <1>6, <1>7 DEF MadeOK
  <1>9. ServerOK(s)'
    BY <1>3, <1>5, <1>6, <1>7, <1>8 DEF ServerOK, RecordUsable, Registered
  <1> QED
    BY <1>3, <1>9

\* Two logins of the server have different nonces, so different transcripts:
\* neither a session key nor an expected KE3 is that of another.
LEMMA LoginsTell ==
    ASSUME ServersOK, NEW s \in Servers, NEW t \in Servers, servers[s] # Idle, servers[t] # Idle,
           \/ servers[s].session_key = servers[t].session_key
           \/ servers[s].expected_client_mac = servers[t].expected_client_mac
    PROVE  s = t
  <1>1. PICK a, b : a = servers[s] /\ b = servers[t]
    OBVIOUS
  <1>2. PICK ids, ikm, pre : ServerView(s, a, ids, ikm, pre)
    BY <1>1, ServerHolds
  <1>3. PICK ids2, ikm2, pre2 : ServerView(t, b, ids2, ikm2, pre2)
    BY <1>1, ServerHolds
  <1>4. /\ pre = Preamble(a.args.context, ids, a.ke1, a.ke2)
        /\ a.ke2.server_nonce = Drawn("server nonce", s)
        /\ a.session_key = DeriveKeys(ikm, pre).session_key
        /\ a.expected_client_mac = ClientMac(DeriveKeys(ikm, pre), pre, a.ke2.mac)
    BY <1>2 DEF ServerView
  <1>5. /\ pre2 = Preamble(b.args.context, ids2, b.ke1, b.ke2)
        /\ b.ke2.server_nonce = Drawn("server nonce", t)
        /\ b.session_key = DeriveKeys(ikm2, pre2).session_key
        /\ b.expected_client_mac = ClientMac(DeriveKeys(ikm2, pre2), pre2, b.ke2.mac)
    BY <1>3 DEF ServerView
  <1>6. pre = pre2
    <2>1. CASE servers[s].session_key = servers[t].session_key
      <3>1. DeriveKeys(ikm, pre).session_key = DeriveKeys(ikm2, pre2).session_key
        BY <1>1, <1>4, <1>5, <2>1
      <3> QED
        BY <3>1, SessionKeyTells
    <2>2. CASE servers[s].expected_client_mac = servers[t].expected_client_mac
      <3>1. PICK mac, mac2 : mac = a.ke2.mac /\ mac2 = b.ke2.mac
        OBVIOUS
      <3>2. ClientMac(DeriveKeys(ikm, pre), pre, mac) = ClientMac(DeriveKeys(ikm2, pre2), pre2, mac2)
        <4>1. a.expected_client_mac = b.expected_client_mac
          BY <1>1, <2>2
        <4> QED
          BY <1>4, <1>5, <3>1, <4>1
      <3> QED
        BY <3>2, ClientMacTells
    <2> QED
      BY <2>1, <2>2
  <1>7. Preamble(a.args.context, ids, a.ke1, a.ke2) = Preamble(b.args.context, ids2, b.ke1, b.ke2)
    BY <1>4, <1>5, <1>6
  <1>8. a.ke2.server_nonce = b.ke2.server_nonce
    BY <1>7, PreambleTells
  <1>9. Drawn("server nonce", s) = Drawn("server nonce", t)
    BY <1>4, <1>5, <1>8
  <1> QED
    BY <1>9 DEF Drawn

LEMMA OutcomeStage ==
    ASSUME NEW c, NEW p, NEW ke2, NEW a, NEW outcome, outcome = ClientOutcome(c, p, ke2, a)
    PROVE  outcome.stage \in {"done", "refused"}
  BY DEF ClientOutcome, Refused

\* A client that finishes has its partner.
LEMMA FinishOK ==
    ASSUME SessionsOK, RegistrationsOK, ServersOK, ServersOK', NEW c \in Clients,
           NEW outcome \in ClientOutcomes(c), ClientFinish(c, outcome)
    PROVE  ClientOK(c)'
  <1>1. PICK p \in Passwords, ke2 \in MixedKe2s, a \in Args : outcome = ClientOutcome(c, p, ke2, a)
    BY DEF ClientOutcomes
  <1>2. clients'[c] = outcome /\ servers' = servers /\ registrations' = registrations
    BY DEF ClientFinish, SessionsOK
  <1>3. outcome.stage \in {"done", "refused"}
    BY <1>1, OutcomeStage
  <1>4. ASSUME outcome.stage = "done"
        PROVE  \E s \in Answered' : Matching(c, s)' /\ clients'[c].ke3 = servers'[s].expected_client_mac
    <2>1. PICK s \in Servers : servers[s] # Idle /\ ke2.mac = servers[s].ke2.mac
      BY NetworkMac
    <2>2. Agrees(c, p, a, outcome, s)
      BY <1>1, <1>4, <2>1, Accepted
    <2>3. s \in Answered'
      BY <1>2, <2>1, BegunAnswered DEF Answered
    <2>4. Matching(c, s)'
      BY <1>2, <2>2 DEF Agrees, Matching, Finished
    <2> QED
      BY <1>2, <2>2, <2>3, <2>4 DEF Agrees
  <1> QED
    BY <1>2, <1>3, <1>4 DEF ClientOK

\* A KE3 that a login of the server accepts is that of its partner.
LEMMA ServerFinishOK ==
    ASSUME ServersOK, ClientsOK, NEW s \in Servers, servers[s] # Idle, NEW ke3 \in Ke3s,
           ke3 = servers[s].expected_client_mac
    PROVE  \E c \in Clients : clients[c].stage = "done" /\ Matching(c, s)
  <1>1. PICK c \in Clients : clients[c].stage = "done" /\ ke3 = clients[c].ke3
    BY DEF Ke3s
  <1>2. PICK t \in Answered : Matching(c, t) /\ clients[c].ke3 = servers[t].expected_client_mac
    BY <1>1 DEF ClientsOK
  <1>3. t \in Servers
    BY DEF Answered
  <1>4. servers[t] # Idle
    BY <1>3, BegunAnswered
  <1>5. s = t
    BY <1>1, <1>2, <1>3, <1>4, LoginsTell
  <1> QED
    BY <1>1, <1>2, <1>5

\* The server's side of the agreement.
ServersMatched ==
    \A s \in Servers : servers[s].stage = "done" => \E c \in Clients : clients[c].stage = "done" /\ Matching(c, s)

LEMMA MatchedKept ==
    ASSUME ServersOK, RegistrationsKept, ServersKept, ClientsKept, NEW s \in Servers, servers[s] # Idle,
           \E c \in Clients : clients[c].stage = "done" /\ Matching(c, s)
    PROVE  \E c \in Clients : clients'[c].stage = "done" /\ Matching(c, s)'
  <1>1. PICK c \in Clients : clients[c].stage = "done" /\ Matching(c, s)
    OBVIOUS
  <1>2. clients'[c] = clients[c]
    BY <1>1 DEF ClientsKept
  <1>3. Matching(c, s)'
    BY <1>1, <1>2, MatchingKept
  <1> QED
    BY <1>1, <1>2, <1>3

LEMMA AgreementParts ==
    ASSUME ServersOK, ClientsOK, ServersMatched
    PROVE  LoginAgreement
  <1>1. \A c \in Clients : clients[c].stage = "done" => \E s \in Answered : Matching(c, s)
    BY DEF ClientsOK
  <1>2. ASSUME NEW s \in Servers, NEW t \in Servers, servers[s].stage = "done" /\ servers[t].stage = "done" /\ s # t
        PROVE  servers[s].session_key # servers[t].session_key
    <2>1. servers[s] # Idle /\ servers[t] # Idle
      BY <1>2 DEF Idle
    <2> QED
      BY <1>2, <2>1, LoginsTell
  <1> QED
    BY <1>1, <1>2 DEF LoginAgreement, ServersMatched
-----------------------------------------------------------------------------
(* The invariant.                                                           *)

LEMMA OpaqueInvParts ==
    OpaqueInv => SessionsOK /\ RegistrationsOK /\ RecordsOK /\ ServersOK /\ ClientsOK /\ ServersMatched
  BY DEF OpaqueInv, LoginAgreement, ServersMatched

\* A step that keeps what was there, and whose new client or finished login
\* has its partner.
LEMMA StepOK ==
    ASSUME OpaqueInv, RegistrationsKept, ServersKept, ClientsKept,
           SessionsOK', RegistrationsOK', RecordsOK', ServersOK',
           \A c \in Clients : clients'[c] # clients[c] => ClientOK(c)',
           \A s \in Servers : servers'[s].stage = "done" /\ servers[s].stage # "done" =>
              \E c \in Clients : clients'[c].stage = "done" /\ Matching(c, s)'
    PROVE  OpaqueInv'
  <1>1. ServersOK /\ ClientsOK /\ ServersMatched
    BY OpaqueInvParts
  <1>2. ASSUME NEW c \in Clients
        PROVE  ClientOK(c)'
    <2>1. ClientOK(c)
      BY <1>1 DEF ClientsOK, ClientOK
    <2> QED
      BY <1>1, <2>1, ClientOKKept
  <1>3. ClientsOK'
    BY <1>2 DEF ClientsOK, ClientOK
  <1>4. ASSUME NEW s \in Servers, servers'[s].stage = "done"
        PROVE  \E c \in Clients : clients'[c].stage = "done" /\ Matching(c, s)'
    <2>1. CASE servers[s].stage = "done"
      <3>1. \E c \in Clients : clients[c].stage = "done" /\ Matching(c, s)
        BY <1>1, <2>1 DEF ServersMatched
      <3>2. servers[s] # Idle
        BY <2>1 DEF Idle
      <3> QED
        BY <1>1, <3>1, <3>2, MatchedKept
    <2> QED
      BY <1>4, <2>1
  <1>5. ServersMatched'
    BY <1>4 DEF ServersMatched
  <1>6. (ServersOK /\ ClientsOK /\ ServersMatched => LoginAgreement)'
    BY AgreementParts, PTL
  <1> QED
    BY <1>3, <1>5, <1>6 DEF OpaqueInv

LEMMA InitOK ==
    OpaqueInit => OpaqueInv
  <1> SUFFICES ASSUME OpaqueInit
               PROVE  OpaqueInv
    OBVIOUS
  <1>1. SessionsOK
    BY DEF OpaqueInit, SessionsOK
  <1>2. RegistrationsOK
    BY DEF OpaqueInit, RegistrationsOK
  <1>3. RecordsOK
    BY DEF OpaqueInit, RecordsOK
  <1>4. ServersOK
    BY DEF OpaqueInit, ServersOK
  <1>5. ClientsOK
    BY DEF OpaqueInit, ClientsOK, Idle
  <1>6. LoginAgreement
    BY DEF OpaqueInit, LoginAgreement, Idle
  <1> QED
    BY <1>1, <1>2, <1>3, <1>4, <1>5, <1>6 DEF OpaqueInv

LEMMA RegisterOK ==
    ASSUME OpaqueInv, NEW r \in Registrations, NEW u, NEW p, NEW a, Register(r, u, p, a)
    PROVE  OpaqueInv'
  <1>1. SessionsOK /\ RegistrationsOK /\ RecordsOK /\ ServersOK
    BY OpaqueInvParts
  <1>2. records' = records /\ clients' = clients /\ servers' = servers /\ failed' = failed
    BY DEF Register
  <1>3. RegistrationsKept
    BY <1>1, RegisterKeeps
  <1>4. ClientsKept /\ ServersKept
    BY <1>1, <1>2, UnchangedKeeps
  <1>5. SessionsOK'
    BY <1>1, <1>2 DEF SessionsOK, Register
  <1>6. RegistrationsOK'
    <2>1. PICK made : made = registration_finish(r, p, registration_response(u, registration_start(r, p)), a)
      OBVIOUS
    <2>2. PICK new : new = [stage |-> "finished", user |-> u, password |-> p, args |-> a,
                            record |-> made.record, export_key |-> made.export_key]
      OBVIOUS
    <2>3. registrations' = [registrations EXCEPT ![r] = new]
      BY <2>1, <2>2 DEF Register
    <2>4. registrations'[r] = new /\ \A q \in Registrations : q # r => registrations'[q] = registrations[q]
      BY <1>1, <2>3 DEF SessionsOK
    <2>5. new.stage = "finished" /\ new.user = u /\ new.password = p /\ new.args = a
          /\ new.record = made.record /\ new.export_key = made.export_key
      BY <2>2
    <2> QED
      BY <1>1, <2>1, <2>4, <2>5 DEF RegistrationsOK
  <1>7. RecordsOK'
    BY <1>1, <1>2, <1>3, RegisteredKept DEF RecordsOK
  <1>8. ServersOK'
    BY <1>1, <1>2, <1>3, <1>4, ServersOKKept
  <1> QED
    BY <1>2, <1>3, <1>4, <1>5, <1>6, <1>7, <1>8, StepOK

LEMMA StoreRecordOK ==
    ASSUME OpaqueInv, NEW r \in Registrations, StoreRecord(r)
    PROVE  OpaqueInv'
  <1>1. SessionsOK /\ RegistrationsOK /\ RecordsOK /\ ServersOK
    BY OpaqueInvParts
  <1>2. registrations' = registrations /\ clients' = clients /\ servers' = servers /\ failed' = failed
    BY DEF StoreRecord
  <1>3. RegistrationsKept /\ ClientsKept /\ ServersKept
    BY <1>1, <1>2, UnchangedKeeps
  <1>4. SessionsOK'
    BY <1>1, <1>2 DEF SessionsOK, StoreRecord
  <1>5. RegistrationsOK'
    BY <1>1, <1>2 DEF RegistrationsOK
  <1>6. RecordsOK'
    <2>1. ASSUME NEW u \in Users
          PROVE  records'[u] = records[u] \/ Registered(u, records'[u])
      BY <1>1 DEF StoreRecord, SessionsOK, Registered, Finished
    <2> QED
      BY <1>1, <1>2, <2>1 DEF RecordsOK, Registered, Finished
  <1>7. ServersOK'
    BY <1>1, <1>2, <1>3, ServersOKKept
  <1> QED
    BY <1>2, <1>3, <1>4, <1>5, <1>6, <1>7, StepOK

\* The steps of a client.
LEMMA ClientStepOK ==
    ASSUME OpaqueInv, NEW c \in Clients, clients[c].stage # "done", NEW new,
           clients' = [clients EXCEPT ![c] = new], UNCHANGED <<registrations, records, servers, failed>>,
           ServersOK' => ClientOK(c)'
    PROVE  OpaqueInv'
  <1>1. SessionsOK /\ RegistrationsOK /\ RecordsOK /\ ServersOK
    BY OpaqueInvParts
  <1>2. registrations' = registrations /\ records' = records /\ servers' = servers /\ failed' = failed
    OBVIOUS
  <1>3. RegistrationsKept /\ ClientsKept /\ ServersKept
    BY <1>1, <1>2, UnchangedKeeps, ClientStepKeeps
  <1>4. SessionsOK'
    BY <1>1, <1>2 DEF SessionsOK
  <1>5. RegistrationsOK'
    BY <1>1, <1>2 DEF RegistrationsOK
  <1>6. RecordsOK'
    BY <1>1, <1>2 DEF RecordsOK, Registered, Finished
  <1>7. ServersOK'
    BY <1>1, <1>2, <1>3, ServersOKKept
  <1>8. \A d \in Clients : clients'[d] # clients[d] => ClientOK(d)'
    <2>1. \A d \in Clients : d # c => clients'[d] = clients[d]
      BY <1>1 DEF SessionsOK
    <2> QED
      BY <1>7, <2>1
  <1> QED
    BY <1>2, <1>3, <1>4, <1>5, <1>6, <1>7, <1>8, StepOK

LEMMA LoginStartOK ==
    ASSUME OpaqueInv, NEW c \in Clients, NEW p, LoginStart(c, p)
    PROVE  OpaqueInv'
  <1>1. PICK new : new = [stage |-> "started", password |-> p, ke1 |-> Ke1(c, p)]
    OBVIOUS
  <1>2. clients' = [clients EXCEPT ![c] = new] /\ UNCHANGED <<registrations, records, servers, failed>>
    BY <1>1 DEF LoginStart
  <1>3. clients[c].stage # "done"
    BY DEF LoginStart, Begin, Idle
  <1>4. clients'[c] = new
    BY <1>2, OpaqueInvParts DEF SessionsOK
  <1>5. new.stage = "started" /\ new.ke1 = Ke1(c, new.password)
    BY <1>1
  <1>6. ClientOK(c)'
    BY <1>4, <1>5 DEF ClientOK
  <1> QED
    BY <1>2, <1>3, <1>6, ClientStepOK

LEMMA ClientFinishOK ==
    ASSUME OpaqueInv, NEW c \in Clients, NEW outcome \in ClientOutcomes(c), ClientFinish(c, outcome)
    PROVE  OpaqueInv'
  <1>1. clients[c].stage # "done" /\ clients' = [clients EXCEPT ![c] = outcome]
        /\ UNCHANGED <<registrations, records, servers, failed>>
    BY DEF ClientFinish
  <1>2. ServersOK' => ClientOK(c)'
    BY OpaqueInvParts, FinishOK
  <1> QED
    BY <1>1, <1>2, ClientStepOK

\* The steps of the server's logins.
LEMMA ServerStepOK ==
    ASSUME OpaqueInv, ServersKept, ServersOK', DOMAIN servers' = Servers,
           UNCHANGED <<registrations, records, clients, failed>>,
           \A s \in Servers : servers'[s].stage = "done" /\ servers[s].stage # "done" =>
              \E c \in Clients : clients'[c].stage = "done" /\ Matching(c, s)'
    PROVE  OpaqueInv'
  <1>1. SessionsOK /\ RegistrationsOK /\ RecordsOK /\ ServersOK
    BY OpaqueInvParts
  <1>2. registrations' = registrations /\ records' = records /\ clients' = clients /\ failed' = failed
    OBVIOUS
  <1>3. RegistrationsKept /\ ClientsKept
    BY <1>1, <1>2, UnchangedKeeps
  <1>4. SessionsOK'
    BY <1>1, <1>2 DEF SessionsOK
  <1>5. RegistrationsOK'
    BY <1>1, <1>2 DEF RegistrationsOK
  <1>6. RecordsOK'
    BY <1>1, <1>2 DEF RecordsOK, Registered, Finished
  <1> QED
    BY <1>2, <1>3, <1>4, <1>5, <1>6, StepOK

LEMMA LoginRespondOK ==
    ASSUME OpaqueInv, NEW s \in Servers, NEW u \in Users, NEW ke1, NEW a, LoginRespond(s, u, ke1, a)
    PROVE  OpaqueInv'
  <1>1. SessionsOK /\ RecordsOK /\ ServersOK
    BY OpaqueInvParts
  <1>2. UNCHANGED <<registrations, records, clients, failed>>
    BY DEF LoginRespond
  <1>3. RegistrationsKept
    BY <1>2, UnchangedKeeps
  <1>4. ServersKept
    BY <1>1, RespondKeeps
  <1>5. ServersOK'
    BY <1>1, <1>3, <1>4, RespondOK, ServersOKKept
  <1>6. PICK record : servers' = [servers EXCEPT ![s] = ServerLogin(s, u, record, ke1, a)]
    BY DEF LoginRespond
  <1>7. servers'[s].stage = "waiting"
    <2>1. servers'[s] = ServerLogin(s, u, record, ke1, a)
      BY <1>1, <1>6 DEF SessionsOK
    <2> QED
      BY <2>1, ServerLoginKeeps
  <1>8. DOMAIN servers' = Servers /\ \A t \in Servers : t # s => servers'[t] = servers[t]
    BY <1>1, <1>6 DEF SessionsOK
  <1>9. \A t \in Servers : ~(servers'[t].stage = "done" /\ servers[t].stage # "done")
    BY <1>7, <1>8
  <1> QED
    BY <1>2, <1>4, <1>5, <1>8, <1>9, ServerStepOK

LEMMA ServerFinishStepOK ==
    ASSUME OpaqueInv, NEW s \in Servers, NEW ke3 \in Ke3s, ServerFinish(s, ke3)
    PROVE  OpaqueInv'
  <1>1. SessionsOK /\ ServersOK /\ ClientsOK
    BY OpaqueInvParts
  <1>2. UNCHANGED <<registrations, records, clients, failed>>
    BY DEF ServerFinish
  <1>3. RegistrationsKept /\ ClientsKept
    BY <1>2, UnchangedKeeps
  <1>4. ServersKept
    BY <1>1, ServerFinishKeeps
  <1>5. PICK stage : /\ stage = IF ~failed /\ ke3 = servers[s].expected_client_mac THEN "done" ELSE "refused"
                     /\ servers' = [servers EXCEPT ![s].stage = stage]
    BY DEF ServerFinish
  <1>6. servers[s] # Idle
    BY DEF ServerFinish, Idle
  <1>7. DOMAIN servers' = Servers /\ (\A t \in Servers : t # s => servers'[t] = servers[t])
        /\ servers'[s] = [servers[s] EXCEPT !.stage = stage]
    BY <1>1, <1>5 DEF SessionsOK
  <1>8. ServersOK'
    BY <1>1, <1>3, <1>4, <1>6, <1>7, ServersOKKept
  <1>9. servers'[s].stage = stage
    BY <1>1, <1>6, <1>7, BegunAnswered
  <1>10. ASSUME ke3 = servers[s].expected_client_mac
         PROVE  \E c \in Clients : clients'[c].stage = "done" /\ Matching(c, s)'
    <2>1. \E c \in Clients : clients[c].stage = "done" /\ Matching(c, s)
      BY <1>1, <1>6, <1>10, ServerFinishOK
    <2> QED
      BY <1>1, <1>3, <1>4, <1>6, <2>1, MatchedKept
  <1>11. \A t \in Servers : servers'[t].stage = "done" /\ servers[t].stage # "done" =>
            \E c \in Clients : clients'[c].stage = "done" /\ Matching(c, t)'
    <2>1. servers'[s].stage = "done" => ke3 = servers[s].expected_client_mac
      BY <1>5, <1>9
    <2> QED
      BY <1>7, <1>10, <2>1
  <1> QED
    BY <1>2, <1>4, <1>7, <1>8, <1>11, ServerStepOK

LEMMA RestartOK ==
    ASSUME OpaqueInv, Restart
    PROVE  OpaqueInv'
  <1>1. SessionsOK /\ ServersOK
    BY OpaqueInvParts
  <1>2. UNCHANGED <<registrations, records, clients, failed>>
    BY DEF Restart
  <1>3. RegistrationsKept
    BY <1>2, UnchangedKeeps
  <1>4. ServersKept
    BY <1>1, RestartKeeps
  <1>5. ASSUME NEW t \in Servers
        PROVE  \/ servers'[t] = servers[t]
               \/ servers[t] # Idle /\ servers'[t].stage = "lost"
    <2>1. \/ servers'[t] = servers[t]
          \/ servers[t].stage = "waiting" /\ servers'[t] = [servers[t] EXCEPT !.stage = "lost"]
      BY DEF Restart
    <2>2. servers[t].stage = "waiting" => servers[t] # Idle /\ "stage" \in DOMAIN servers[t]
      BY <1>1, BegunAnswered DEF Idle
    <2> QED
      BY <2>1, <2>2
  <1>6. ServersOK'
    BY <1>1, <1>3, <1>4, <1>5, ServersOKKept
  <1>7. DOMAIN servers' = Servers
    BY DEF Restart
  <1>8. \A t \in Servers : ~(servers'[t].stage = "done" /\ servers[t].stage # "done")
    BY <1>5
  <1> QED
    BY <1>2, <1>4, <1>6, <1>7, <1>8, ServerStepOK

LEMMA FrameOK ==
    ASSUME OpaqueInv, UNCHANGED <<registrations, records, clients, servers>>, failed' \in BOOLEAN
    PROVE  OpaqueInv'
  BY DEF OpaqueInv, SessionsOK, RegistrationsOK, RecordsOK, ServersOK, ClientsOK, LoginAgreement,
         Registered, Finished, Answered, Matching
(* Every behaviour keeps the invariant: what sessions hold is what the      *)
(* functions of opaque.rs make of what they keep, the server's records come *)
(* from registrations of their users, and ends of logins have partners.     *)
THEOREM OpaqueInvariant == OpaqueSpec => []OpaqueInv
  <1>1. OpaqueInit => OpaqueInv
    BY InitOK
  <1>2. ASSUME OpaqueInv, [OpaqueNext]_opaqueVars
        PROVE  OpaqueInv'
    <2>1. CASE \E r \in Registrations, u \in Users, p \in Passwords, a \in Args : Register(r, u, p, a)
      BY <1>2, <2>1, RegisterOK
    <2>2. CASE \E r \in Registrations : StoreRecord(r)
      BY <1>2, <2>2, StoreRecordOK
    <2>3. CASE \E c \in Clients, p \in Passwords : LoginStart(c, p)
      BY <1>2, <2>3, LoginStartOK
    <2>4. CASE \E s \in Servers, u \in Users, ke1 \in MixedKe1s, a \in Args : LoginRespond(s, u, ke1, a)
      BY <1>2, <2>4, LoginRespondOK
    <2>5. CASE \E c \in Clients : \E outcome \in ClientOutcomes(c) : ClientFinish(c, outcome)
      BY <1>2, <2>5, ClientFinishOK
    <2>6. CASE \E s \in Servers, ke3 \in Ke3s : ServerFinish(s, ke3)
      BY <1>2, <2>6, ServerFinishStepOK
    <2>7. CASE Restart
      BY <1>2, <2>7, RestartOK
    <2>8. CASE OpaqueModuleFails
      BY <1>2, <2>8, FrameOK DEF OpaqueModuleFails
    <2>9. CASE UNCHANGED opaqueVars
      <3>1. failed' \in BOOLEAN /\ UNCHANGED <<registrations, records, clients, servers>>
        BY <1>2, <2>9, OpaqueInvParts DEF opaqueVars, SessionsOK
      <3> QED
        BY <1>2, <3>1, FrameOK
    <2> QED
      BY <1>2, <2>1, <2>2, <2>3, <2>4, <2>5, <2>6, <2>7, <2>8, <2>9 DEF OpaqueNext
  <1> QED
    BY <1>1, <1>2, PTL DEF OpaqueSpec

(* A login that ends, ends with a partner (ClientLogin::finish and          *)
(* ServerLogin::finish), for any number of sessions, whatever the network   *)
(* loses, repeats, crosses or puts together, and over restarts.             *)
THEOREM LoginsAgree == OpaqueSpec => []LoginAgreement
  <1>1. OpaqueInv => LoginAgreement
    BY DEF OpaqueInv
  <1> QED
    BY <1>1, OpaqueInvariant, PTL

-----------------------------------------------------------------------------
(* The right password.                                                      *)

LEMMA DhCommutes ==
    ASSUME NEW a, NEW b
    PROVE  diffie_hellman(a, b) = diffie_hellman(b, a)
  BY DEF diffie_hellman

\* A record tells the user whose registration made it.
LEMMA RecordTells ==
    ASSUME RegistrationsOK, NEW r \in Finished, NEW u, RecordUsable(u, registrations[r].record)
    PROVE  registrations[r].user = u
  <1>1. PICK reg : reg = registrations[r]
    OBVIOUS
  <1>2. PICK rwd, nonce : RegistrationView(r, reg, rwd, nonce)
    BY <1>1, RegistrationHolds
  <1>3. rwd = Stretched(reg.user, reg.password, reg.password) /\ reg.record.masking_key = MaskingKey(rwd)
    BY <1>2 DEF RegistrationView
  <1>4. reg.record # fake_record(u)
    BY <1>3, MaskingTells
  <1>5. PICK q \in Finished : registrations[q].user = u /\ registrations[q].record = reg.record
    BY <1>1, <1>4 DEF RecordUsable, Registered
  <1>6. PICK other : other = registrations[q]
    OBVIOUS
  <1>7. PICK rwd2, nonce2 : RegistrationView(q, other, rwd2, nonce2)
    BY <1>6, RegistrationHolds
  <1>8. rwd2 = Stretched(other.user, other.password, other.password)
        /\ other.record.masking_key = MaskingKey(rwd2)
    BY <1>7 DEF RegistrationView
  <1>9. rwd = rwd2
    BY <1>3, <1>5, <1>6, <1>8, MaskingTells
  <1>10. PICK v, p, w, q2 : v = reg.user /\ p = reg.password /\ w = other.user /\ q2 = other.password
    OBVIOUS
  <1>11. Stretched(v, p, p) = Stretched(w, q2, q2)
    BY <1>3, <1>8, <1>9, <1>10
  <1>12. v = w
    BY <1>11, StretchedTells
  <1> QED
    BY <1>1, <1>5, <1>6, <1>10, <1>12

\* What a client that began with KE1 makes of the answer to that KE1.
LEMMA OwnAnswer ==
    ASSUME OpaqueInv, NEW c \in Clients, NEW s \in Answered, NEW p,
           clients[c].stage = "started", servers[s].ke1 = clients[c].ke1
    PROVE  /\ s \in Servers /\ servers[s] # Idle
           /\ RecordUsable(servers[s].user, servers[s].record)
           /\ randomized_password(Finalize(p, <<"login", c>>, servers[s].ke2.evaluated))
                = Stretched(servers[s].user, p, clients[c].password)
  <1>1. ServersOK /\ ClientsOK
    BY OpaqueInvParts
  <1>2. s \in Servers
    BY DEF Answered
  <1>3. servers[s] # Idle
    BY <1>1, <1>2, BegunAnswered
  <1>4. RecordUsable(servers[s].user, servers[s].record)
    BY <1>1, <1>2, <1>3 DEF ServersOK, RecordUsable
  <1>5. PICK me, u, q : me = servers[s] /\ u = servers[s].user /\ q = clients[c].password
    OBVIOUS
  <1>6. PICK ids, ikm, pre : ServerView(s, me, ids, ikm, pre)
    BY <1>1, <1>2, <1>3, <1>5, ServerHolds
  <1>7. me.ke2.evaluated = BlindEvaluate(me.user, me.ke1.blinded)
    BY <1>6 DEF ServerView
  <1>8. clients[c].ke1 = Ke1(c, q)
    BY <1>1, <1>5 DEF ClientsOK
  <1>9. me.ke1.blinded = Blind(<<"login", c>>, q)
    <2>1. PICK ke1 : ke1 = Ke1(c, q)
      OBVIOUS
    <2>2. ke1.blinded = Blind(<<"login", c>>, q)
      BY <2>1 DEF Ke1
    <2> QED
      BY <1>5, <1>8, <2>1, <2>2
  <1>10. me.ke2.evaluated = BlindEvaluate(u, Blind(<<"login", c>>, q))
    <2>1. u = me.user
      BY <1>5
    <2> QED
      BY <1>7, <1>9, <2>1
  <1>11. randomized_password(Finalize(p, <<"login", c>>, BlindEvaluate(u, Blind(<<"login", c>>, q))))
           = Stretched(u, p, q)
    BY FinalizeOwn, Zenon
  <1> QED
    BY <1>2, <1>3, <1>4, <1>5, <1>10, <1>11

\* What makes a password, identities and context the right ones.
Right(c, s, p, a, r) ==
    /\ registrations[r].record = servers[s].record
    /\ registrations[r].password = p /\ clients[c].password = p
    /\ LET Named(args) == Identities(ServerPublicKey, servers[s].record.client_pk, args)
       IN  Named(registrations[r].args) = Named(a) /\ Named(servers[s].args) = Named(a)
    /\ servers[s].args.context = a.context

LEMMA OutcomeAccepts ==
    ASSUME ~failed, NEW c, NEW p, NEW ke2, NEW a, ~BadLength(a),
           NEW ke1, ke1 = clients[c].ke1,
           NEW rwd, rwd = randomized_password(Finalize(p, <<"login", c>>, ke2.evaluated)),
           NEW un, un = Unmask(MaskingKey(rwd), ke2.masking_nonce, ke2.masked),
           NEW client_key, client_key = ClientKey(rwd, un.nonce),
           NEW ids, ids = Identities(un.server_pk, client_key, a),
           EnvelopeTag(AuthKey(rwd, un.nonce), un.nonce, un.server_pk, ids) = un.tag,
           NEW ikm, ikm = Ikm(diffie_hellman(ke1.keyshare, ke2.keyshare), diffie_hellman(ke1.keyshare, un.server_pk),
                              diffie_hellman(client_key, ke2.keyshare)),
           NEW pre, pre = Preamble(a.context, ids, ke1, ke2),
           ke2.mac = ServerMac(DeriveKeys(ikm, pre), pre),
           NEW outcome, outcome = ClientOutcome(c, p, ke2, a)
    PROVE  outcome.stage = "done" /\ outcome.ke3 = ClientMac(DeriveKeys(ikm, pre), pre, ke2.mac)
  BY DEF ClientOutcome

LEMMA RightAccepted ==
    ASSUME OpaqueInv, ~failed, NEW c \in Clients, NEW s \in Answered, NEW p, NEW a, NEW r \in Finished,
           clients[c].stage = "started", servers[s].ke1 = clients[c].ke1, ~BadLength(a), Right(c, s, p, a, r),
           NEW outcome, outcome = ClientOutcome(c, p, servers[s].ke2, a)
    PROVE  outcome.stage = "done" /\ outcome.ke3 = servers[s].expected_client_mac
  <1>1. RegistrationsOK /\ ServersOK
    BY OpaqueInvParts
  <1>2. PICK me, reg, ke2, ke1 : me = servers[s] /\ reg = registrations[r] /\ ke2 = me.ke2 /\ ke1 = me.ke1
    OBVIOUS
  <1>3. s \in Servers /\ servers[s] # Idle /\ RecordUsable(me.user, me.record)
    BY <1>2, OwnAnswer
  <1>4. PICK ids, ikm, pre : ServerView(s, me, ids, ikm, pre)
    BY <1>1, <1>2, <1>3, ServerHolds
  <1>5. PICK rwd, nonce : RegistrationView(r, reg, rwd, nonce)
    BY <1>1, <1>2, RegistrationHolds
  <1>6. /\ reg.record = me.record /\ reg.password = p /\ clients[c].password = p
        /\ Identities(ServerPublicKey, me.record.client_pk, reg.args)
             = Identities(ServerPublicKey, me.record.client_pk, a)
        /\ Identities(ServerPublicKey, me.record.client_pk, me.args)
             = Identities(ServerPublicKey, me.record.client_pk, a)
        /\ me.args.context = a.context
    BY <1>2 DEF Right
  <1>7. reg.user = me.user
    BY <1>1, <1>2, <1>3, <1>6, RecordTells
  <1>8. randomized_password(Finalize(p, <<"login", c>>, ke2.evaluated)) = rwd
    <2>1. rwd = Stretched(reg.user, reg.password, reg.password)
      BY <1>5 DEF RegistrationView
    <2>2. randomized_password(Finalize(p, <<"login", c>>, servers[s].ke2.evaluated))
            = Stretched(servers[s].user, p, clients[c].password)
      BY OwnAnswer
    <2> QED
      BY <1>2, <1>6, <1>7, <2>1, <2>2
  <1>9. PICK un : un = Unmask(MaskingKey(rwd), ke2.masking_nonce, ke2.masked)
    OBVIOUS
  <1>10. /\ me.record.client_pk = ClientKey(rwd, nonce) /\ me.record.masking_key = MaskingKey(rwd)
         /\ me.record.nonce = nonce
         /\ me.record.tag = EnvelopeTag(AuthKey(rwd, nonce), nonce, ServerPublicKey,
                              Identities(ServerPublicKey, ClientKey(rwd, nonce), reg.args))
    BY <1>5, <1>6 DEF RegistrationView
  <1>11. un.server_pk = ServerPublicKey /\ un.nonce = nonce /\ un.tag = me.record.tag
    <2>1. PICK key, mask, tag : key = MaskingKey(rwd) /\ mask = ke2.masking_nonce /\ tag = me.record.tag
      OBVIOUS
    <2>2. ke2.masked = Masked(key, mask, ServerPublicKey, nonce, tag)
      BY <1>2, <1>4, <1>10, <2>1 DEF ServerView
    <2>3. un = Unmask(key, mask, Masked(key, mask, ServerPublicKey, nonce, tag))
      BY <1>9, <2>1, <2>2
    <2> QED
      BY <2>1, <2>3 DEF Unmask, Masked
  <1>12. PICK client_key : client_key = ClientKey(rwd, un.nonce)
    OBVIOUS
  <1>13. client_key = me.record.client_pk
    BY <1>10, <1>11, <1>12
  <1>14. Identities(un.server_pk, client_key, a) = ids
    BY <1>4, <1>6, <1>11, <1>13 DEF ServerView
  <1>15. EnvelopeTag(AuthKey(rwd, un.nonce), un.nonce, un.server_pk, ids) = un.tag
    <2>1. Identities(ServerPublicKey, ClientKey(rwd, nonce), reg.args) = ids
      BY <1>4, <1>6, <1>10 DEF ServerView
    <2> QED
      BY <1>10, <1>11, <2>1
  <1>16. ikm = Ikm(diffie_hellman(ke1.keyshare, ke2.keyshare), diffie_hellman(ke1.keyshare, un.server_pk),
                   diffie_hellman(client_key, ke2.keyshare))
    <2>1. PICK mine, theirs, theirkey : mine = Drawn("server share", s) /\ theirs = ke1.keyshare
                                        /\ theirkey = me.record.client_pk
      OBVIOUS
    <2>2. ke2.keyshare = mine /\ ikm = Ikm(diffie_hellman(mine, theirs), diffie_hellman(ServerPublicKey, theirs),
                                           diffie_hellman(mine, theirkey))
      BY <1>2, <1>4, <2>1 DEF ServerView
    <2>3. /\ diffie_hellman(mine, theirs) = diffie_hellman(theirs, mine)
          /\ diffie_hellman(ServerPublicKey, theirs) = diffie_hellman(theirs, ServerPublicKey)
          /\ diffie_hellman(mine, theirkey) = diffie_hellman(theirkey, mine)
      BY DhCommutes
    <2> QED
      BY <1>11, <1>13, <2>1, <2>2, <2>3
  <1>17. pre = Preamble(a.context, ids, ke1, ke2)
    BY <1>2, <1>4, <1>6 DEF ServerView
  <1>18. /\ ke2.mac = ServerMac(DeriveKeys(ikm, pre), pre)
         /\ me.expected_client_mac = ClientMac(DeriveKeys(ikm, pre), pre, ke2.mac)
    BY <1>2, <1>4 DEF ServerView
  <1>19. outcome = ClientOutcome(c, p, ke2, a) /\ ke1 = clients[c].ke1
    BY <1>2
  <1>20. outcome.stage = "done" /\ outcome.ke3 = ClientMac(DeriveKeys(ikm, pre), pre, ke2.mac)
    BY <1>8, <1>9, <1>12, <1>14, <1>15, <1>16, <1>17, <1>18, <1>19, OutcomeAccepts
  <1> QED
    BY <1>2, <1>18, <1>20

LEMMA AcceptedRight ==
    ASSUME OpaqueInv, NEW c \in Clients, NEW s \in Answered, NEW p, NEW a,
           clients[c].stage = "started", servers[s].ke1 = clients[c].ke1,
           NEW outcome, outcome = ClientOutcome(c, p, servers[s].ke2, a), outcome.stage = "done"
    PROVE  \E r \in Finished : Right(c, s, p, a, r)
  <1>1. RegistrationsOK /\ ServersOK
    BY OpaqueInvParts
  <1>2. s \in Servers /\ servers[s] # Idle
    BY OwnAnswer
  <1>3. PICK ke2 : ke2 = servers[s].ke2
    OBVIOUS
  <1>4. Agrees(c, p, a, outcome, s)
    BY <1>1, <1>2, <1>3, Accepted
  <1>5. PICK r \in Finished :
          /\ registrations[r].record = servers[s].record /\ registrations[r].password = p
          /\ LET Named(args) == Identities(ServerPublicKey, servers[s].record.client_pk, args)
             IN  Named(registrations[r].args) = Named(a) /\ Named(servers[s].args) = Named(a)
          /\ randomized_password(Finalize(p, <<"login", c>>, servers[s].ke2.evaluated))
               = Stretched(servers[s].user, p, p)
    BY <1>4 DEF Agrees
  <1>6. PICK u, q : u = servers[s].user /\ q = clients[c].password
    OBVIOUS
  <1>7. Stretched(u, p, p) = Stretched(u, p, q)
    BY <1>5, <1>6, OwnAnswer
  <1>8. q = p
    BY <1>7, StretchedTells
  <1>9. a.context = servers[s].args.context
    BY <1>4 DEF Agrees
  <1> QED
    BY <1>5, <1>6, <1>8, <1>9 DEF Right

LEMMA OutcomeCases ==
    ASSUME ~failed, NEW c, NEW p, NEW ke2, NEW a, ~BadLength(a), NEW outcome, outcome = ClientOutcome(c, p, ke2, a)
    PROVE  outcome.stage = "done" \/ outcome = Refused("AuthenticationFailed")
  BY DEF ClientOutcome

(* A client that gets its own answer unchanged succeeds exactly with the    *)
(* right password, identities and context (ClientLogin::finish against      *)
(* login_respond and registration_finish), and is otherwise refused with    *)
(* AuthenticationFailed.                                                    *)
THEOREM RightPasswordSuffices == OpaqueSpec => []RightPasswordSucceeds
  <1>1. OpaqueInv => RightPasswordSucceeds
    <2> SUFFICES ASSUME OpaqueInv, ~failed, NEW c \in Clients, NEW s \in Answered, NEW p \in Passwords, NEW a \in Args,
                        clients[c].stage = "started", servers[s].ke1 = clients[c].ke1, ~BadLength(a),
                        NEW outcome, outcome = ClientOutcome(c, p, servers[s].ke2, a)
                 PROVE  IF \E r \in Finished : Right(c, s, p, a, r)
                        THEN outcome.stage = "done" /\ outcome.ke3 = servers[s].expected_client_mac
                        ELSE outcome = Refused("AuthenticationFailed")
      BY DEF RightPasswordSucceeds, Right
    <2>1. ASSUME \E r \in Finished : Right(c, s, p, a, r)
          PROVE  outcome.stage = "done" /\ outcome.ke3 = servers[s].expected_client_mac
      BY <2>1, RightAccepted
    <2>2. ASSUME ~\E r \in Finished : Right(c, s, p, a, r)
          PROVE  outcome = Refused("AuthenticationFailed")
      <3>1. outcome.stage # "done"
        BY <2>2, AcceptedRight
      <3>2. PICK ke2 : ke2 = servers[s].ke2
        OBVIOUS
      <3>3. outcome.stage = "done" \/ outcome = Refused("AuthenticationFailed")
        BY <3>2, OutcomeCases
      <3> QED
        BY <3>1, <3>3
    <2> QED
      BY <2>1, <2>2
  <1> QED
    BY <1>1, OpaqueInvariant, PTL
=============================================================================
