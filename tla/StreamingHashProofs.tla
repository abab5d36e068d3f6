-------------------------- MODULE StreamingHashProofs --------------------------
(***************************************************************************)
(* Proofs about StreamingHash, for any sizes of a block, a rate, a length   *)
(* field and a digest, and for messages of any length in pieces of any.     *)
(***************************************************************************)
EXTENDS StreamingHash, WellFoundedInduction, SequenceTheorems, TLAPS

-----------------------------------------------------------------------------
(* Arithmetic.                                                              *)

LEMMA LeastNat ==
    ASSUME NEW T, T \subseteq Nat, T # {}
    PROVE  \E x \in T : \A y \in T : x <= y
  <1> DEFINE R == OpToRel(<, Nat)
  <1>1. IsWellFoundedOn(R, Nat)
    BY NatLessThanWellFounded
  <1> HIDE DEF R
  <1>2. PICK x \in T : \A y \in T : ~(<<y, x>> \in R)
    BY <1>1, WFMin
  <1>3. \A y \in T : ~(y < x)
    BY <1>2 DEF OpToRel, R
  <1> QED
    BY <1>3

LEMMA DivMod ==
    ASSUME NEW a \in Nat, NEW b \in Nat, b > 0
    PROVE  \E q \in Nat, r \in Nat :
              a = b * q + r /\ r < b /\ q = a \div b /\ r = a % b /\ b * q \in Nat
  <1>1. a = b * (a \div b) + (a % b)
    OBVIOUS
  <1>2. a % b \in Nat /\ a % b < b
    OBVIOUS
  <1>3. a \div b \in Int /\ a \div b >= 0
    OBVIOUS
  <1>4. PICK q \in Nat, r \in Nat : q = a \div b /\ r = a % b
    BY <1>2, <1>3
  <1>5. a = b * q + r /\ r < b
    BY <1>1, <1>2, <1>4
  <1>6. b * q \in Nat
    OBVIOUS
  <1> QED
    BY <1>4, <1>5, <1>6

\* There is one quotient and one remainder.
LEMMA DivModIs ==
    ASSUME NEW a \in Nat, NEW b \in Nat, NEW q \in Nat, NEW r \in Nat, r < b, a = b * q + r
    PROVE  a \div b = q /\ a % b = r
  OBVIOUS

LEMMA TimesNat ==
    ASSUME NEW a \in Nat, NEW b \in Nat
    PROVE  a * b \in Nat
  OBVIOUS

LEMMA TimesStep ==
    ASSUME NEW a \in Nat, NEW b \in Nat
    PROVE  a * (b + 1) = a * b + a
  OBVIOUS

LEMMA TimesSum ==
    ASSUME NEW a \in Nat, NEW b \in Nat, NEW c \in Nat
    PROVE  a * (b + c) = a * b + a * c
  OBVIOUS

LEMMA TimesMonotonic ==
    ASSUME NEW a \in Nat, NEW b \in Nat, NEW c \in Nat, b <= c
    PROVE  a * b <= a * c
  OBVIOUS

\* A sum of whole blocks and of a part is whole or not as the part is.
LEMMA ModOfSum ==
    ASSUME NEW b \in Nat, b > 0, NEW q \in Nat, NEW x \in Nat
    PROVE  (b * q + x) % b = x % b
  <1>1. PICK p \in Nat, r \in Nat : x = b * p + r /\ r < b /\ r = x % b
    BY DivMod, ZenonT(60)
  <1>2. PICK g \in Nat : g = q + p
    OBVIOUS
  <1>3. b * q + x = b * g + r
    <2>1. b * g = b * q + b * p
      BY <1>2, TimesSum
    <2> QED
      BY <1>1, <2>1
  <1>4. b * q + x \in Nat
    OBVIOUS
  <1>5. (b * q + x) % b = r
    BY <1>1, <1>3, <1>4, DivModIs
  <1> QED
    BY <1>1, <1>5

-----------------------------------------------------------------------------
(* Sequences: what the loops take off the front and leave.                  *)

LEMMA SameSequence ==
    ASSUME NEW S, NEW T, NEW s \in Seq(S), NEW t \in Seq(T), Len(s) = Len(t),
           \A i \in 1..Len(s) : s[i] = t[i]
    PROVE  s = t
  <1>1. DOMAIN s = 1..Len(s) /\ DOMAIN t = 1..Len(t)
    OBVIOUS
  <1>2. s = [i \in 1..Len(s) |-> s[i]] /\ t = [i \in 1..Len(t) |-> t[i]]
    OBVIOUS
  <1> QED
    BY <1>2

LEMMA JoinOf ==
    ASSUME NEW S, NEW s \in Seq(S), NEW t \in Seq(S)
    PROVE  /\ s \o t \in Seq(S) /\ Len(s \o t) = Len(s) + Len(t)
           /\ \A i \in 1..(Len(s) + Len(t)) :
                 (s \o t)[i] = IF i <= Len(s) THEN s[i] ELSE t[i - Len(s)]
           /\ \A i \in 1..Len(s) : (s \o t)[i] = s[i]
           /\ \A i \in 1..Len(t) : (s \o t)[Len(s) + i] = t[i]
  OBVIOUS

LEMMA SubSeqOf ==
    ASSUME NEW S, NEW s \in Seq(S), NEW m \in Nat, NEW n \in Nat, m <= n, n <= Len(s)
    PROVE  /\ SubSeq(s, m + 1, n) \in Seq(S) /\ Len(SubSeq(s, m + 1, n)) = n - m
           /\ \A i \in 1..(n - m) : SubSeq(s, m + 1, n)[i] = s[m + i]
  <1>1. \A i \in (m + 1)..n : s[i] \in S
    OBVIOUS
  <1> QED
    BY <1>1

TakenFrom(S, s, m, d, c) ==
    c \in Seq(S) /\ Len(c) = d /\ \A i \in 1..d : c[i] = s[m + i]

LEMMA TakenOf ==
    ASSUME NEW S, NEW s \in Seq(S), NEW m \in Nat, NEW n \in Nat, m <= n, n <= Len(s),
           NEW d \in Nat, n - m = d, NEW c, c = SubSeq(s, m + 1, n)
    PROVE  TakenFrom(S, s, m, d, c)
  <1>1. \A i \in (m + 1)..n : s[i] \in S
    OBVIOUS
  <1>2. c \in Seq(S)
    BY <1>1
  <1>3. Len(c) = d
    OBVIOUS
  <1>4. ASSUME NEW i \in 1..d
        PROVE  c[i] = s[m + i]
    <2>1. i \in 1..(n - m)
      OBVIOUS
    <2> QED
      BY <2>1
  <1> QED
    BY <1>2, <1>3, <1>4 DEF TakenFrom

LEMMA LeadingOf ==
    ASSUME NEW S, NEW s \in Seq(S), NEW n \in Nat, n <= Len(s)
    PROVE  /\ Leading(s, n) \in Seq(S) /\ Len(Leading(s, n)) = n
           /\ \A i \in 1..n : Leading(s, n)[i] = s[i]
  <1>1. \A i \in 1..n : s[i] \in S
    OBVIOUS
  <1> QED
    BY <1>1 DEF Leading

LEMMA FromOf ==
    ASSUME NEW S, NEW s \in Seq(S), NEW n \in Nat, n <= Len(s)
    PROVE  /\ From(s, n) \in Seq(S) /\ Len(From(s, n)) = Len(s) - n
           /\ \A i \in 1..(Len(s) - n) : From(s, n)[i] = s[n + i]
  <1>1. n <= Len(s) /\ Len(s) \in Nat
    OBVIOUS
  <1> QED
    BY <1>1, SubSeqOf DEF From

LEMMA Parted ==
    ASSUME NEW S, NEW s \in Seq(S), NEW n \in Nat, n <= Len(s)
    PROVE  s = Leading(s, n) \o From(s, n)
  <1>1. PICK a, c : a = Leading(s, n) /\ c = From(s, n)
    OBVIOUS
  <1>2. a \in Seq(S) /\ Len(a) = n /\ \A i \in 1..n : a[i] = s[i]
    BY <1>1, LeadingOf
  <1>3. c \in Seq(S) /\ Len(c) = Len(s) - n /\ \A i \in 1..(Len(s) - n) : c[i] = s[n + i]
    BY <1>1, FromOf
  <1>4. PICK t : t = a \o c
    OBVIOUS
  <1>5. /\ t \in Seq(S) /\ Len(t) = Len(a) + Len(c)
        /\ \A i \in 1..(Len(a) + Len(c)) : t[i] = IF i <= Len(a) THEN a[i] ELSE c[i - Len(a)]
    BY <1>2, <1>3, <1>4, JoinOf
  <1>6. Len(t) = Len(s)
    BY <1>2, <1>3, <1>5
  <1>7. ASSUME NEW i \in 1..Len(s) PROVE t[i] = s[i]
    <2>1. CASE i <= n
      BY <1>2, <1>3, <1>5, <2>1
    <2>2. CASE i > n
      <3>1. PICK j \in 1..(Len(s) - n) : j = i - n
        BY <2>2
      <3>2. t[i] = c[j]
        BY <1>2, <1>3, <1>5, <2>2, <3>1
      <3>3. c[j] = s[n + j] /\ n + j = i
        BY <1>3, <3>1
      <3> QED
        BY <3>2, <3>3
    <2> QED
      BY <2>1, <2>2
  <1>8. t = s
    BY <1>5, <1>6, <1>7, SameSequence
  <1> QED
    BY <1>1, <1>4, <1>8

\* A sequence that was put together comes apart again.
LEMMA PartsOfJoin ==
    ASSUME NEW S, NEW s \in Seq(S), NEW t \in Seq(S)
    PROVE  Leading(s \o t, Len(s)) = s /\ From(s \o t, Len(s)) = t
  <1>1. PICK u : u = s \o t
    OBVIOUS
  <1>2. /\ u \in Seq(S) /\ Len(u) = Len(s) + Len(t)
        /\ \A i \in 1..Len(s) : u[i] = s[i]
        /\ \A i \in 1..Len(t) : u[Len(s) + i] = t[i]
    BY <1>1, JoinOf
  <1>3. Len(s) \in Nat /\ Len(s) <= Len(u)
    BY <1>2
  <1>6. u \in Seq(S)
    BY <1>2
  <1>4. Leading(u, Len(s)) = s
    <2>1. PICK a : a = Leading(u, Len(s))
      OBVIOUS
    <2>2. a \in Seq(S) /\ Len(a) = Len(s) /\ \A i \in 1..Len(s) : a[i] = u[i]
      BY <1>6, <1>3, <2>1, LeadingOf
    <2>3. \A i \in 1..Len(a) : a[i] = s[i]
      BY <1>2, <2>2
    <2>4. a = s
      BY <2>2, <2>3, SameSequence
    <2> QED
      BY <2>1, <2>4
  <1>5. From(u, Len(s)) = t
    <2>1. PICK c : c = From(u, Len(s))
      OBVIOUS
    <2>5. PICK n \in Nat : n = Len(s) /\ n <= Len(u)
      BY <1>3
    <2>6. c = From(u, n) /\ Len(u) - n = Len(t) /\ \A i \in 1..Len(t) : u[n + i] = t[i]
      BY <1>2, <2>1, <2>5
    <2>7. From(u, n) \in Seq(S) /\ Len(From(u, n)) = Len(u) - n
          /\ \A i \in 1..(Len(u) - n) : From(u, n)[i] = u[n + i]
      BY <1>6, <2>5, FromOf, ZenonT(60)
    <2>2. c \in Seq(S) /\ Len(c) = Len(t) /\ \A i \in 1..Len(t) : c[i] = u[n + i]
      BY <2>6, <2>7
    <2>3. Len(c) = Len(t) /\ \A i \in 1..Len(c) : c[i] = t[i]
      BY <2>2, <2>6
    <2>4. c = t
      BY <2>2, <2>3, SameSequence
    <2> QED
      BY <2>1, <2>4
  <1> QED
    BY <1>1, <1>4, <1>5

Associate(s, t, u) == (s \o t) \o u = s \o (t \o u)

LEMMA Associates ==
    ASSUME NEW S, NEW s \in Seq(S), NEW t \in Seq(S), NEW u \in Seq(S)
    PROVE  Associate(s, t, u)
  BY ConcatAssociative, SMTT(30) DEF Associate

LEMMA EmptyJoin ==
    ASSUME NEW S, NEW s \in Seq(S)
    PROVE  s \o <<>> = s /\ <<>> \o s = s /\ <<>> \in Seq(S) /\ Len(<<>>) = 0
  OBVIOUS

-----------------------------------------------------------------------------
(* Blocks: cutting what was put together from whole blocks.                 *)

LEMMA SubOfFront ==
    ASSUME NEW S, NEW s \in Seq(S), NEW t \in Seq(S), NEW m \in Nat, NEW n \in Nat, m <= n, n <= Len(s)
    PROVE  SubSeq(s \o t, m + 1, n) = SubSeq(s, m + 1, n)
  <1>1. PICK u : u = s \o t
    OBVIOUS
  <1>2. u \in Seq(S) /\ Len(u) = Len(s) + Len(t) /\ \A i \in 1..Len(s) : u[i] = s[i]
    BY <1>1, JoinOf
  <1>3. u \in Seq(S) /\ n <= Len(u) /\ Len(s) \in Nat
    BY <1>2
  <1>4. PICK a, c : a = SubSeq(u, m + 1, n) /\ c = SubSeq(s, m + 1, n)
    OBVIOUS
  <1>5. a \in Seq(S) /\ Len(a) = n - m /\ \A i \in 1..(n - m) : a[i] = u[m + i]
    BY <1>3, <1>4, SubSeqOf
  <1>6. c \in Seq(S) /\ Len(c) = n - m /\ \A i \in 1..(n - m) : c[i] = s[m + i]
    BY <1>4, SubSeqOf, SMTT(30)
  <1>7. \A i \in 1..(n - m) : u[m + i] = s[m + i]
    BY <1>2, <1>3, SMTT(30)
  <1>8. a = c
    BY <1>5, <1>6, <1>7, SameSequence, ZenonT(60)
  <1> QED
    BY <1>1, <1>4, <1>8

Beyond(s, g, m) == g = Len(s) + m
SameBeyond(s, t, g, h, m, n) == SubSeq(s \o t, g + 1, h) = SubSeq(t, m + 1, n)

LEMMA SubOfRest ==
    ASSUME NEW S, NEW s \in Seq(S), NEW t \in Seq(S), NEW m \in Nat, NEW n \in Nat, m <= n, n <= Len(t),
           NEW g, NEW h, Beyond(s, g, m), Beyond(s, h, n)
    PROVE  SameBeyond(s, t, g, h, m, n)
  <1>1. PICK u : u = s \o t
    OBVIOUS
  <1>2. u \in Seq(S) /\ Len(u) = Len(s) + Len(t) /\ \A i \in 1..Len(t) : u[Len(s) + i] = t[i]
    BY <1>1, JoinOf
  <1>3. u \in Seq(S) /\ Len(s) \in Nat
    BY <1>2
  <1>10. g = Len(s) + m /\ h = Len(s) + n
    BY DEF Beyond
  <1>9. g \in Nat /\ h \in Nat /\ g <= h /\ h <= Len(u) /\ h - g = n - m
    BY <1>2, <1>3, <1>10
  <1>4. PICK a, c : a = SubSeq(u, g + 1, h) /\ c = SubSeq(t, m + 1, n)
    OBVIOUS
  <1>5. a \in Seq(S) /\ Len(a) = h - g /\ \A i \in 1..(h - g) : a[i] = u[g + i]
    BY <1>3, <1>4, <1>9, SubSeqOf
  <1>6. c \in Seq(S) /\ Len(c) = n - m /\ \A i \in 1..(n - m) : c[i] = t[m + i]
    BY <1>4, SubSeqOf
  <1>7. ASSUME NEW i \in 1..(n - m) PROVE u[g + i] = t[m + i]
    <2>1. m + i \in 1..Len(t) /\ g + i = Len(s) + (m + i)
      BY <1>3, <1>10
    <2> QED
      BY <1>2, <2>1
  <1>8. a = c
    <2>1. a \in Seq(S) /\ c \in Seq(S) /\ Len(a) = Len(c)
      BY <1>5, <1>6, <1>9
    <2>2. \A i \in 1..Len(a) : a[i] = c[i]
      BY <1>5, <1>6, <1>7, <1>9
    <2> QED
      BY <2>1, <2>2, SameSequence
  <1> QED
    BY <1>1, <1>4, <1>8 DEF SameBeyond

\* Where block b lies.
LEMMA BlockBounds ==
    ASSUME NEW Z \in Nat, Z > 0, NEW q \in Nat, NEW b \in 1..q
    PROVE  \E m \in Nat : m = (b - 1) * Z /\ b * Z = m + Z /\ m + Z <= Z * q
  <1>1. PICK d \in Nat : d = b - 1 /\ d + 1 <= q
    OBVIOUS
  <1>2. Z * (d + 1) = Z * d + Z
    BY <1>1, TimesStep
  <1>3. Z * (d + 1) <= Z * q
    BY <1>1, TimesMonotonic
  <1>4. PICK m \in Nat : m = Z * d
    BY <1>1, TimesNat
  <1>5. m = (b - 1) * Z /\ b * Z = Z * (d + 1)
    BY <1>1, <1>4
  <1> QED
    BY <1>2, <1>3, <1>4, <1>5

\* So many blocks, and nothing left over.
IsWhole(s, Z, q) == Z \in Nat /\ Z > 0 /\ q \in Nat /\ Len(s) = Z * q

BlockAt(s, Z, b) == SubSeq(s, (b - 1) * Z + 1, b * Z)

LEMMA BlockOf ==
    ASSUME NEW S, NEW Z, NEW q, NEW s \in Seq(S), IsWhole(s, Z, q), NEW b \in 1..q
    PROVE  BlockAt(s, Z, b) \in Seq(S)
  <1>0. Z \in Nat /\ Z > 0 /\ q \in Nat /\ Len(s) = Z * q
    BY DEF IsWhole
  <1>1. PICK m \in Nat : m = (b - 1) * Z /\ b * Z = m + Z /\ m + Z <= Z * q
    BY <1>0, BlockBounds
  <1>2. PICK n \in Nat : n = m + Z /\ m <= n /\ n <= Len(s)
    BY <1>0, <1>1
  <1>3. SubSeq(s, m + 1, n) \in Seq(S)
    BY <1>2, SubSeqOf
  <1> QED
    BY <1>1, <1>2, <1>3 DEF BlockAt

LEMMA CutOf ==
    ASSUME NEW S, NEW Z, NEW q, NEW s \in Seq(S), IsWhole(s, Z, q)
    PROVE  /\ Cut(s, Z) \in Seq(Seq(S)) /\ Len(Cut(s, Z)) = q
           /\ \A b \in 1..q : Cut(s, Z)[b] = BlockAt(s, Z, b)
  <1>0. Z \in Nat /\ Z > 0 /\ q \in Nat /\ Len(s) = Z * q
    BY DEF IsWhole
  <1>1. Len(s) \div Z = q
    <2>1. Len(s) \in Nat /\ Len(s) = Z * q + 0
      BY <1>0
    <2> QED
      BY <1>0, <2>1, DivModIs
  <1>2. \A b \in 1..q : BlockAt(s, Z, b) \in Seq(S)
    BY BlockOf
  <1>3. Cut(s, Z) = [b \in 1..q |-> BlockAt(s, Z, b)]
    BY <1>1 DEF Cut, BlockAt
  <1>4. PICK T : T = Seq(S)
    OBVIOUS
  <1>5. PICK c : c = [b \in 1..q |-> BlockAt(s, Z, b)]
    OBVIOUS
  <1>8. \A b \in 1..q : BlockAt(s, Z, b) \in T
    BY <1>2, <1>4
  <1>6. c \in Seq(T) /\ Len(c) = q
    BY <1>0, <1>5, <1>8
  <1>7. \A b \in 1..q : c[b] = BlockAt(s, Z, b)
    BY <1>5
  <1> QED
    BY <1>3, <1>4, <1>5, <1>6, <1>7

LEMMA BlockOfFront ==
    ASSUME NEW S, NEW Z, NEW q, NEW s \in Seq(S), IsWhole(s, Z, q),
           NEW t \in Seq(S), NEW b \in 1..q
    PROVE  BlockAt(s \o t, Z, b) = BlockAt(s, Z, b)
  <1>0. Z \in Nat /\ Z > 0 /\ q \in Nat /\ Len(s) = Z * q
    BY DEF IsWhole
  <1>1. PICK m \in Nat : m = (b - 1) * Z /\ b * Z = m + Z /\ m + Z <= Z * q
    BY <1>0, BlockBounds
  <1>2. PICK n \in Nat : n = m + Z /\ m <= n /\ n <= Len(s)
    BY <1>0, <1>1
  <1>3. SubSeq(s \o t, m + 1, n) = SubSeq(s, m + 1, n)
    BY <1>2, SubOfFront, SMTT(30)
  <1> QED
    BY <1>1, <1>2, <1>3 DEF BlockAt

LEMMA BlockOfRest ==
    ASSUME NEW S, NEW Z, NEW q, NEW p, NEW s \in Seq(S), IsWhole(s, Z, q),
           NEW t \in Seq(S), IsWhole(t, Z, p), NEW d \in 1..p, NEW b, b = q + d
    PROVE  BlockAt(s \o t, Z, b) = BlockAt(t, Z, d)
  <1>0. Z \in Nat /\ Z > 0 /\ q \in Nat /\ p \in Nat /\ Len(s) = Z * q /\ Len(t) = Z * p
    BY DEF IsWhole
  <1>1. PICK m \in Nat : m = (d - 1) * Z /\ d * Z = m + Z /\ m + Z <= Z * p
    BY <1>0, BlockBounds
  <1>2. PICK z \in Nat : z = q + p /\ b \in 1..z
    BY <1>0
  <1>3. PICK g \in Nat : g = (b - 1) * Z /\ b * Z = g + Z
    BY <1>0, <1>2, BlockBounds
  <1>4. g = Len(s) + m
    <2>1. PICK e \in Nat : e = d - 1 /\ q + e = b - 1
      BY <1>0
    <2>2. Z * (q + e) = Z * q + Z * e
      BY <1>0, <2>1, TimesSum
    <2> QED
      BY <1>0, <1>1, <1>3, <2>1, <2>2
  <1>5. PICK n \in Nat, h \in Nat : n = m + Z /\ h = g + Z /\ m <= n /\ n <= Len(t) /\ h = Len(s) + n
    BY <1>0, <1>1, <1>4
  <1>6. SubSeq(s \o t, g + 1, h) = SubSeq(t, m + 1, n)
    <2>1. Beyond(s, g, m) /\ Beyond(s, h, n)
      BY <1>4, <1>5 DEF Beyond
    <2>2. m <= n /\ n <= Len(t)
      BY <1>5
    <2>3. SameBeyond(s, t, g, h, m, n)
      BY <2>1, <2>2, SubOfRest
    <2> QED
      BY <2>3 DEF SameBeyond
  <1> QED
    BY <1>1, <1>3, <1>5, <1>6 DEF BlockAt

\* The cut of two pieces is the cut of the one, then of the other.
CutsApart(s, t, Z) == Cut(s \o t, Z) = Cut(s, Z) \o Cut(t, Z)

LEMMA CutJoin ==
    ASSUME NEW S, NEW Z, NEW q, NEW p,
           NEW s \in Seq(S), IsWhole(s, Z, q), NEW t \in Seq(S), IsWhole(t, Z, p)
    PROVE  CutsApart(s, t, Z)
  <1>0. Z \in Nat /\ Z > 0 /\ q \in Nat /\ p \in Nat /\ Len(s) = Z * q /\ Len(t) = Z * p
    BY DEF IsWhole
  <1>1. PICK u : u = s \o t
    OBVIOUS
  <1>2. u \in Seq(S) /\ Len(u) = Len(s) + Len(t)
    BY <1>1, JoinOf
  <1>3. PICK z \in Nat : z = q + p
    BY <1>0
  <1>4. Len(u) = Z * z /\ u \in Seq(S)
    BY <1>0, <1>2, <1>3, TimesSum
  <1>14. IsWhole(u, Z, z) /\ u \in Seq(S)
    BY <1>0, <1>3, <1>4 DEF IsWhole
  <1>5. PICK x, y, w, v, T : /\ x = Cut(s, Z) /\ y = Cut(t, Z) /\ w = Cut(u, Z) /\ v = x \o y
                             /\ T = Seq(S)
    OBVIOUS
  <1>6. x \in Seq(T) /\ Len(x) = q /\ \A b \in 1..q : x[b] = BlockAt(s, Z, b)
    BY <1>5, CutOf
  <1>7. y \in Seq(T) /\ Len(y) = p /\ \A b \in 1..p : y[b] = BlockAt(t, Z, b)
    BY <1>5, CutOf
  <1>8. w \in Seq(T) /\ Len(w) = z /\ \A b \in 1..z : w[b] = BlockAt(u, Z, b)
    BY <1>14, <1>5, CutOf
  <1>15. x \in Seq(T) /\ y \in Seq(T)
    BY <1>6, <1>7
  <1>9. /\ v \in Seq(T) /\ Len(v) = Len(x) + Len(y)
        /\ \A i \in 1..(Len(x) + Len(y)) : v[i] = IF i <= Len(x) THEN x[i] ELSE y[i - Len(x)]
    BY <1>5, <1>15, JoinOf
  <1>10. ASSUME NEW b \in 1..z PROVE w[b] = v[b]
    <2>1. CASE b <= q
      <3>1. b \in 1..q
        BY <1>0, <2>1
      <3>2. BlockAt(u, Z, b) = BlockAt(s, Z, b)
        BY <1>1, <3>1, BlockOfFront
      <3>3. v[b] = x[b]
        BY <1>0, <1>3, <1>6, <1>7, <1>9, <3>1
      <3> QED
        BY <1>6, <1>8, <3>1, <3>2, <3>3
    <2>2. CASE b > q
      <3>1. PICK d \in 1..p : d = b - q /\ b = q + d
        BY <1>0, <1>3, <2>2
      <3>2. BlockAt(u, Z, b) = BlockAt(t, Z, d)
        BY <1>1, <3>1, BlockOfRest
      <3>3. v[b] = y[d]
        BY <1>0, <1>3, <1>6, <1>7, <1>9, <2>2, <3>1
      <3> QED
        BY <1>7, <1>8, <3>1, <3>2, <3>3
    <2> QED
      BY <1>0, <1>3, <2>1, <2>2
  <1>11. v = w
    <2>1. w \in Seq(T) /\ v \in Seq(T) /\ Len(w) = Len(v)
      BY <1>3, <1>6, <1>7, <1>8, <1>9
    <2>2. \A b \in 1..Len(w) : w[b] = v[b]
      BY <1>8, <1>10
    <2> QED
      BY <2>1, <2>2, SameSequence
  <1> QED
    BY <1>1, <1>5, <1>11 DEF CutsApart

LEMMA CutOne ==
    ASSUME NEW S, NEW Z \in Nat, Z > 0, NEW s \in Seq(S), Len(s) = Z
    PROVE  Cut(s, Z) = <<s>>
  <1>1. Len(s) = Z * 1
    OBVIOUS
  <1>2. Cut(s, Z) = [b \in 1..1 |-> BlockAt(s, Z, b)]
    <2>1. Len(s) \div Z = 1
      BY DivModIs
    <2> QED
      BY <2>1 DEF Cut, BlockAt
  <1>3. BlockAt(s, Z, 1) = SubSeq(s, 0 + 1, Z)
    BY DEF BlockAt
  <1>4. SubSeq(s, 0 + 1, Z) = s
    <2>1. PICK a : a = SubSeq(s, 0 + 1, Z)
      OBVIOUS
    <2>2. a \in Seq(S) /\ Len(a) = Z - 0 /\ \A i \in 1..(Z - 0) : a[i] = s[0 + i]
      BY <2>1, SubSeqOf
    <2>3. a \in Seq(S) /\ Len(a) = Len(s) /\ \A i \in 1..Len(a) : a[i] = s[i]
      BY <2>2
    <2>4. a = s
      BY <2>3, SameSequence
    <2> QED
      BY <2>1, <2>4
  <1>5. Cut(s, Z) = [b \in 1..1 |-> s]
    BY <1>2, <1>3, <1>4
  <1> QED
    BY <1>5

LEMMA CutNone ==
    ASSUME NEW Z \in Nat, Z > 0
    PROVE  Cut(<<>>, Z) = <<>>
  <1>1. Len(<<>>) \div Z = 0
    BY DivModIs
  <1> QED
    BY <1>1 DEF Cut

\* What a hash compresses, in the order in which it does.
Bytes == Int
Links == [block : Seq(Bytes), counter : Int, mark : {"none", "last", "K1", "K2"}]
Chain == Seq(Links)

LEMMA CompressedLink ==
    ASSUME NEW b \in Seq(Bytes), NEW n \in Int, NEW m \in {"none", "last", "K1", "K2"}
    PROVE  Compressed(b, n, m) \in Links
  BY DEF Compressed, Links

LEMMA PlainOf ==
    ASSUME NEW x \in Seq(Seq(Bytes))
    PROVE  /\ Plain(x) \in Chain /\ Len(Plain(x)) = Len(x)
           /\ \A b \in 1..Len(x) : Plain(x)[b] = Compressed(x[b], 0, "none")
  <1>1. PICK n \in Nat : n = Len(x)
    OBVIOUS
  <1>2. \A b \in 1..n : x[b] \in Seq(Bytes)
    BY <1>1
  <1>3. \A b \in 1..n : Compressed(x[b], 0, "none") \in Links
    BY <1>2, CompressedLink
  <1>4. PICK c : c = [b \in 1..n |-> Compressed(x[b], 0, "none")]
    OBVIOUS
  <1>5. c \in Seq(Links) /\ Len(c) = n
    BY <1>3, <1>4
  <1>6. \A b \in 1..n : c[b] = Compressed(x[b], 0, "none")
    BY <1>4
  <1>7. Plain(x) = c
    BY <1>1, <1>4 DEF Plain
  <1> QED
    BY <1>1, <1>5, <1>6, <1>7 DEF Chain

LEMMA PlainJoin ==
    ASSUME NEW x \in Seq(Seq(Bytes)), NEW y \in Seq(Seq(Bytes))
    PROVE  Plain(x \o y) = Plain(x) \o Plain(y)
  <1>0. PICK n \in Nat, k \in Nat : n = Len(x) /\ k = Len(y)
    OBVIOUS
  <1>10. PICK v : v = x \o y
    OBVIOUS
  <1>1. v = x \o y /\ n = Len(x) /\ k = Len(y)
    BY <1>0, <1>10
  <1>2. /\ v \in Seq(Seq(Bytes)) /\ Len(v) = Len(x) + Len(y)
        /\ \A i \in 1..(Len(x) + Len(y)) : v[i] = IF i <= Len(x) THEN x[i] ELSE y[i - Len(x)]
    BY <1>1, JoinOf
  <1>3. v \in Seq(Seq(Bytes)) /\ Len(v) = n + k
    BY <1>1, <1>2
  <1>4. PICK p, q, r, t : p = Plain(x) /\ q = Plain(y) /\ r = Plain(v) /\ t = p \o q
    OBVIOUS
  <1>5. p \in Seq(Links) /\ Len(p) = n /\ \A b \in 1..n : p[b] = Compressed(x[b], 0, "none")
    BY <1>1, <1>4, PlainOf DEF Chain
  <1>6. q \in Seq(Links) /\ Len(q) = k /\ \A b \in 1..k : q[b] = Compressed(y[b], 0, "none")
    BY <1>1, <1>4, PlainOf DEF Chain
  <1>7. r \in Seq(Links) /\ Len(r) = n + k /\ \A b \in 1..(n + k) : r[b] = Compressed(v[b], 0, "none")
    BY <1>3, <1>4, PlainOf DEF Chain
  <1>8. p \in Seq(Links) /\ q \in Seq(Links)
    BY <1>5, <1>6
  <1>9. /\ t \in Seq(Links) /\ Len(t) = Len(p) + Len(q)
        /\ \A i \in 1..(Len(p) + Len(q)) : t[i] = IF i <= Len(p) THEN p[i] ELSE q[i - Len(p)]
    BY <1>4, <1>8, JoinOf
  <1>11. ASSUME NEW i \in 1..(n + k) PROVE r[i] = t[i]
    <2>2. CASE i <= n
      <3>1. i \in 1..n /\ v[i] = x[i] /\ t[i] = p[i]
        BY <1>1, <1>2, <1>5, <1>6, <1>9, <2>2
      <3> QED
        BY <1>5, <1>7, <3>1
    <2>3. CASE i > n
      <3>1. PICK j \in 1..k : j = i - n
        BY <2>3
      <3>2. v[i] = y[j] /\ t[i] = q[j]
        BY <1>1, <1>2, <1>5, <1>6, <1>9, <2>3, <3>1
      <3> QED
        BY <1>6, <1>7, <3>1, <3>2
    <2> QED
      BY <2>2, <2>3
  <1>12. r = t
    <2>1. r \in Seq(Links) /\ t \in Seq(Links) /\ Len(r) = Len(t)
      BY <1>5, <1>6, <1>7, <1>9
    <2>2. \A i \in 1..Len(r) : r[i] = t[i]
      BY <1>7, <1>11
    <2> QED
      BY <2>1, <2>2, SameSequence
  <1> QED
    BY <1>1, <1>4, <1>12

-----------------------------------------------------------------------------
(* The buffer that is compressed when it is full.                           *)

LEMMA Constants ==
    /\ BlockLen \in Nat /\ BlockLen > 0
    /\ LengthBytes \in Nat /\ DigestLen \in Nat /\ BlockLen > DigestLen + LengthBytes
    /\ Rate \in Nat /\ Rate > 0
  BY HashAssumption

LEMMA ZerosOf ==
    ASSUME NEW n \in Nat
    PROVE  Zeros(n) \in Seq(Bytes) /\ Len(Zeros(n)) = n /\ \A i \in 1..n : Zeros(n)[i] = 0
  BY DEF Zeros, Zero, Bytes

LEMMA OverwriteOf ==
    ASSUME NEW buf \in Seq(Bytes), NEW at \in Nat, NEW bytes \in Seq(Bytes), NEW n \in Nat,
           n = at + Len(bytes), n <= Len(buf)
    PROVE  /\ Overwrite(buf, at, bytes) \in Seq(Bytes) /\ Len(Overwrite(buf, at, bytes)) = Len(buf)
           /\ Leading(Overwrite(buf, at, bytes), n) = Leading(buf, at) \o bytes
  <1>1. PICK k \in Nat, l \in Nat : k = Len(buf) /\ l = Len(bytes)
    OBVIOUS
  <1>2. \A i \in 1..k : buf[i] \in Bytes
    BY <1>1
  <1>3. \A i \in 1..l : bytes[i] \in Bytes
    BY <1>1
  <1>4. PICK o : o = [i \in 1..k |-> IF i - at \in 1..l THEN bytes[i - at] ELSE buf[i]]
    OBVIOUS
  <1>5. o = Overwrite(buf, at, bytes)
    BY <1>1, <1>4 DEF Overwrite
  <1>6. o \in Seq(Bytes) /\ Len(o) = k
    BY <1>2, <1>3, <1>4
  <1>14. n <= Len(o) /\ at <= Len(buf) /\ o \in Seq(Bytes)
    BY <1>1, <1>6
  <1>7. PICK a, c, j : a = Leading(o, n) /\ c = Leading(buf, at) /\ j = c \o bytes
    OBVIOUS
  <1>8. a \in Seq(Bytes) /\ Len(a) = n /\ \A i \in 1..n : a[i] = o[i]
    BY <1>7, <1>14, LeadingOf, ZenonT(60)
  <1>9. c \in Seq(Bytes) /\ Len(c) = at /\ \A i \in 1..at : c[i] = buf[i]
    BY <1>7, <1>14, LeadingOf
  <1>10. c \in Seq(Bytes)
    BY <1>9
  <1>11. /\ j \in Seq(Bytes) /\ Len(j) = Len(c) + Len(bytes)
         /\ \A i \in 1..(Len(c) + Len(bytes)) : j[i] = IF i <= Len(c) THEN c[i] ELSE bytes[i - Len(c)]
    BY <1>7, <1>10, JoinOf
  <1>12. ASSUME NEW i \in 1..n PROVE a[i] = j[i]
    <2>1. i \in 1..k /\ a[i] = o[i]
      BY <1>1, <1>8
    <2>2. CASE i <= at
      BY <1>1, <1>4, <1>9, <1>11, <2>1, <2>2
    <2>3. CASE i > at
      BY <1>1, <1>4, <1>9, <1>11, <2>1, <2>3
    <2> QED
      BY <2>2, <2>3
  <1>13. a = j
    <2>1. a \in Seq(Bytes) /\ j \in Seq(Bytes) /\ Len(a) = Len(j) /\ \A i \in 1..Len(a) : a[i] = j[i]
      BY <1>1, <1>8, <1>9, <1>11, <1>12
    <2> QED
      BY <2>1, SameSequence
  <1> QED
    BY <1>1, <1>5, <1>6, <1>7, <1>13

Fits(buf, at, bytes, n) == n \in Nat /\ n = at + Len(bytes) /\ n <= Len(buf)
Overwrites(o, buf, at, bytes, n) ==
    o \in Seq(Bytes) /\ Len(o) = Len(buf) /\ Leading(o, n) = Leading(buf, at) \o bytes

LEMMA OverwriteFits ==
    ASSUME NEW buf \in Seq(Bytes), NEW at \in Nat, NEW bytes \in Seq(Bytes), NEW n, Fits(buf, at, bytes, n)
    PROVE  Overwrites(Overwrite(buf, at, bytes), buf, at, bytes, n)
  <1>1. n \in Nat /\ n = at + Len(bytes) /\ n <= Len(buf)
    BY DEF Fits
  <1> QED
    BY <1>1, OverwriteOf, SMTT(30) DEF Overwrites

\* A message of so many whole blocks and a rest that is less than one.
Splits(m, Z, q, W, T) ==
    /\ W \in Seq(Bytes) /\ T \in Seq(Bytes) /\ m = W \o T
    /\ IsWhole(W, Z, q) /\ Len(T) < Z

LEMMA SplitOnce ==
    ASSUME NEW m, NEW Z, NEW q, NEW W, NEW T, Splits(m, Z, q, W, T)
    PROVE  /\ m \in Seq(Bytes) /\ Len(m) = Len(W) + Len(T)
           /\ Len(m) \div Z = q /\ Len(m) % Z = Len(T) /\ Len(m) - (Len(m) % Z) = Len(W)
           /\ Leading(m, Len(W)) = W /\ From(m, Len(W)) = T
  <1>1. /\ W \in Seq(Bytes) /\ T \in Seq(Bytes) /\ m = W \o T
        /\ Z \in Nat /\ Z > 0 /\ q \in Nat /\ Len(W) = Z * q /\ Len(T) < Z
    BY DEF Splits, IsWhole
  <1>2. m \in Seq(Bytes) /\ Len(m) = Len(W) + Len(T)
    BY <1>1, JoinOf
  <1>7. Len(m) \in Nat /\ Len(W) \in Nat /\ Len(T) \in Nat
    BY <1>1, <1>2
  <1>3. PICK l \in Nat, w \in Nat, t \in Nat : l = Len(m) /\ w = Len(W) /\ t = Len(T)
    BY <1>7
  <1>4. l = Z * q + t /\ t < Z
    BY <1>1, <1>2, <1>3
  <1>5. l \div Z = q /\ l % Z = t
    BY <1>1, <1>4, DivModIs
  <1>6. Leading(m, Len(W)) = W /\ From(m, Len(W)) = T
    BY <1>1, PartsOfJoin
  <1>8. Len(m) - (Len(m) % Z) = Len(W)
    BY <1>2, <1>3, <1>5
  <1> QED
    BY <1>2, <1>3, <1>5, <1>6, <1>8

LEMMA SplitExists ==
    ASSUME NEW m \in Seq(Bytes), NEW Z \in Nat, Z > 0
    PROVE  /\ Splits(m, Z, Len(m) \div Z, Leading(m, Len(m) - (Len(m) % Z)), From(m, Len(m) - (Len(m) % Z)))
           /\ Len(m) \div Z \in Nat
  <1>1. PICK l \in Nat : l = Len(m)
    OBVIOUS
  <1>2. PICK q \in Nat, r \in Nat : l = Z * q + r /\ r < Z /\ q = l \div Z /\ r = l % Z /\ Z * q \in Nat
    BY DivMod
  <1>3. PICK n \in Nat : n = l - r /\ n = Z * q /\ n <= l
    BY <1>2
  <1>4. PICK W, T : W = Leading(m, n) /\ T = From(m, n)
    OBVIOUS
  <1>5. W \in Seq(Bytes) /\ Len(W) = n
    BY <1>1, <1>3, <1>4, LeadingOf
  <1>6. T \in Seq(Bytes) /\ Len(T) = l - n
    BY <1>1, <1>3, <1>4, FromOf
  <1>7. m = W \o T
    BY <1>1, <1>3, <1>4, Parted
  <1>9. Len(W) = Z * q /\ Len(T) = r
    <2>1. n = l - r /\ n = Z * q
      BY <1>3
    <2>2. l - n = r
      BY <2>1
    <2> QED
      BY <1>5, <1>6, <2>1, <2>2
  <1>8. Splits(m, Z, q, W, T)
    BY <1>2, <1>5, <1>6, <1>7, <1>9 DEF Splits, IsWhole
  <1> QED
    BY <1>1, <1>2, <1>3, <1>4, <1>8

EagerParts(s, m, q, W, T) ==
    /\ Splits(m, BlockLen, q, W, T)
    /\ s = [h |-> Plain(Cut(W, BlockLen)), buf |-> s.buf, buffered |-> Len(T), len |-> Len(m)]
    /\ s.buf \in Seq(Bytes) /\ Len(s.buf) = BlockLen /\ Leading(s.buf, Len(T)) = T

LEMMA EagerFromParts ==
    ASSUME NEW s, NEW m, NEW q, NEW W, NEW T, EagerParts(s, m, q, W, T)
    PROVE  EagerHolds(s, m)
  <1>1. /\ Splits(m, BlockLen, q, W, T)
        /\ s = [h |-> Plain(Cut(W, BlockLen)), buf |-> s.buf, buffered |-> Len(T), len |-> Len(m)]
        /\ s.buf \in Seq(Int) /\ Len(s.buf) = BlockLen /\ Leading(s.buf, Len(T)) = T
    BY DEF EagerParts, Bytes
  <1>2. Len(m) - (Len(m) % BlockLen) = Len(W) /\ Leading(m, Len(W)) = W /\ From(m, Len(W)) = T
    BY <1>1, SplitOnce
  <1>3. WholeBlocks(m) = W /\ Remainder(m) = T
    BY <1>2 DEF WholeBlocks, Remainder
  <1>4. s.buffered = Len(T)
    BY <1>1
  <1> QED
    BY <1>1, <1>3, <1>4 DEF EagerHolds

LEMMA EagerToParts ==
    ASSUME NEW s, NEW m \in Seq(Bytes), EagerHolds(s, m)
    PROVE  \E q, W, T : EagerParts(s, m, q, W, T)
  <1>1. PICK q, W, T : q = Len(m) \div BlockLen /\ W = WholeBlocks(m) /\ T = Remainder(m)
    OBVIOUS
  <1>2. Splits(m, BlockLen, q, W, T)
    BY <1>1, SplitExists, Constants DEF WholeBlocks, Remainder
  <1>3. /\ s = [h |-> Plain(Cut(W, BlockLen)), buf |-> s.buf, buffered |-> Len(T), len |-> Len(m)]
        /\ s.buf \in Seq(Bytes) /\ Len(s.buf) = BlockLen /\ Leading(s.buf, s.buffered) = T
    BY <1>1 DEF EagerHolds, Bytes
  <1>4. s.buffered = Len(T)
    BY <1>3
  <1> QED
    BY <1>2, <1>3, <1>4 DEF EagerParts

LEMMA ChainOfCut ==
    ASSUME NEW Z, NEW q, NEW W \in Seq(Bytes), IsWhole(W, Z, q)
    PROVE  Plain(Cut(W, Z)) \in Chain /\ Cut(W, Z) \in Seq(Seq(Bytes)) /\ Len(Cut(W, Z)) = q
  <1>1. Cut(W, Z) \in Seq(Seq(Bytes)) /\ Len(Cut(W, Z)) = q
    BY CutOf
  <1> QED
    BY <1>1, PlainOf

\* More whole blocks, at the end of what was compressed.
Grown(W, R, Z, n) ==
    /\ Plain(Cut(W \o R, Z)) = Plain(Cut(W, Z)) \o Plain(Cut(R, Z))
    /\ W \o R \in Seq(Bytes) /\ IsWhole(W \o R, Z, n)

LEMMA ChainGrows ==
    ASSUME NEW Z, NEW q, NEW p, NEW W \in Seq(Bytes), IsWhole(W, Z, q), NEW R \in Seq(Bytes), IsWhole(R, Z, p)
    PROVE  Grown(W, R, Z, q + p)
  <1>1. Cut(W \o R, Z) = Cut(W, Z) \o Cut(R, Z)
    <2>1. CutsApart(W, R, Z)
      BY CutJoin
    <2> QED
      BY <2>1 DEF CutsApart
  <1>2. Cut(W, Z) \in Seq(Seq(Bytes)) /\ Cut(R, Z) \in Seq(Seq(Bytes))
    BY ChainOfCut
  <1>3. W \o R \in Seq(Bytes) /\ Len(W \o R) = Len(W) + Len(R)
    BY JoinOf
  <1>4. IsWhole(W \o R, Z, q + p)
    <2>1. Z \in Nat /\ Z > 0 /\ q \in Nat /\ p \in Nat /\ Len(W) = Z * q /\ Len(R) = Z * p
      BY DEF IsWhole
    <2>2. Z * (q + p) = Z * q + Z * p
      BY <2>1, TimesSum
    <2> QED
      BY <1>3, <2>1, <2>2 DEF IsWhole
  <1> QED
    BY <1>1, <1>2, <1>3, <1>4, PlainJoin DEF Grown

LEMMA EagerFeeds ==
    ASSUME NEW s, NEW m \in Seq(Bytes), EagerHolds(s, m), NEW d \in Seq(Bytes)
    PROVE  EagerHolds(EagerUpdate(s, d), m \o d)
  <1>1. PICK q, W, T : EagerParts(s, m, q, W, T)
    BY EagerToParts
  <1>2. /\ Splits(m, BlockLen, q, W, T) /\ s.buf \in Seq(Bytes) /\ Len(s.buf) = BlockLen
        /\ Leading(s.buf, Len(T)) = T
        /\ s = [h |-> Plain(Cut(W, BlockLen)), buf |-> s.buf, buffered |-> Len(T), len |-> Len(m)]
    BY <1>1 DEF EagerParts
  <1>3. /\ W \in Seq(Bytes) /\ T \in Seq(Bytes) /\ m = W \o T
        /\ IsWhole(W, BlockLen, q) /\ Len(T) < BlockLen
    BY <1>2 DEF Splits
  <1>22. PICK t \in Nat : t = Len(T)
    BY <1>3
  <1>23. PICK c, g : c = Plain(Cut(W, BlockLen)) /\ g = s.buf
    OBVIOUS
  <1>4. c = Plain(Cut(W, BlockLen)) /\ g = s.buf /\ t = Len(T)
    BY <1>22, <1>23
  <1>5. s = [h |-> c, buf |-> g, buffered |-> t, len |-> Len(m)]
    BY <1>2, <1>4
  <1>6. c \in Chain /\ g \in Seq(Bytes) /\ Len(g) = BlockLen /\ Leading(g, t) = T /\ t < BlockLen
    BY <1>2, <1>3, <1>4, ChainOfCut
  <1>7. PICK take \in Nat : take = IF t > 0 THEN Fewer(BlockLen - t, Len(d)) ELSE 0
    BY <1>6, Constants DEF Fewer
  <1>8. take <= Len(d) /\ t + take <= BlockLen /\ (t > 0 /\ t + take < BlockLen => take = Len(d))
    BY <1>6, <1>7, Constants DEF Fewer
  <1>9. PICK D, R : D = Leading(d, take) /\ R = From(d, take)
    OBVIOUS
  <1>10. D \in Seq(Bytes) /\ Len(D) = take
    BY <1>8, <1>9, LeadingOf
  <1>11. R \in Seq(Bytes) /\ Len(R) = Len(d) - take
    BY <1>8, <1>9, FromOf
  <1>12. d = D \o R
    BY <1>8, <1>9, Parted
  <1>13. PICK b : b = Overwrite(g, t, D)
    OBVIOUS
  <1>14. b \in Seq(Bytes) /\ Len(b) = BlockLen /\ Leading(b, t + take) = T \o D
    <2>1. Fits(g, t, D, t + take)
      BY <1>6, <1>8, <1>10 DEF Fits
    <2>2. g \in Seq(Bytes) /\ D \in Seq(Bytes)
      BY <1>6, <1>10
    <2>3. Overwrites(b, g, t, D, t + take)
      BY <1>13, <2>1, <2>2, OverwriteFits
    <2> QED
      BY <1>6, <2>3 DEF Overwrites
  <1>15. PICK p, X, Y : p = Len(R) \div BlockLen /\ X = WholeBlocks(R) /\ Y = Remainder(R)
    OBVIOUS
  <1>16. Splits(R, BlockLen, p, X, Y)
    BY <1>11, <1>15, SplitExists, Constants DEF WholeBlocks, Remainder
  <1>17. /\ X \in Seq(Bytes) /\ Y \in Seq(Bytes) /\ R = X \o Y
         /\ IsWhole(X, BlockLen, p) /\ Len(Y) < BlockLen
    BY <1>16 DEF Splits
  <1>18. EagerUpdate(s, d) =
           IF t > 0 /\ t + take < BlockLen
           THEN [h |-> c, buf |-> b, buffered |-> t + take, len |-> Len(m) + Len(d)]
           ELSE [h |-> (c \o (IF t > 0 THEN Plain(<<b>>) ELSE <<>>)) \o Plain(Cut(X, BlockLen)),
                 buf |-> Overwrite(b, 0, Y), buffered |-> Len(Y), len |-> Len(m) + Len(d)]
    <2>1. X = Leading(R, Len(R) - (Len(R) % BlockLen)) /\ Y = From(R, Len(R) - (Len(R) % BlockLen))
      BY <1>15 DEF WholeBlocks, Remainder
    <2>2. s.h = c /\ s.buf = g /\ s.buffered = t /\ s.len = Len(m)
      BY <1>5
    <2>3. EagerUpdate(s, d) =
            IF t > 0 /\ t + take < BlockLen
            THEN [s EXCEPT !.buf = b, !.buffered = @ + take, !.len = @ + Len(d)]
            ELSE [s EXCEPT !.h = (@ \o (IF t > 0 THEN Plain(<<b>>) ELSE <<>>)) \o Plain(Cut(X, BlockLen)),
                           !.buf = Overwrite(b, 0, Y), !.buffered = Len(Y), !.len = @ + Len(d)]
      BY <1>7, <1>9, <1>13, <2>1, <2>2 DEF EagerUpdate
    <2> QED
      BY <1>5, <2>3
  <1>19. m \o d \in Seq(Bytes) /\ Len(m \o d) = Len(m) + Len(d)
    BY JoinOf
  <1>20. CASE t > 0 /\ t + take < BlockLen
    <2>1. PICK U, v : U = T \o D /\ v = EagerUpdate(s, d)
      OBVIOUS
    <2>2. D = d
      <3>1. take = Len(d)
        BY <1>8, <1>20
      <3>2. Len(R) = 0
        BY <1>11, <3>1
      <3>3. R = <<>>
        BY <1>11, <3>2
      <3> QED
        BY <1>10, <1>12, <3>3, EmptyJoin
    <2>3. U \in Seq(Bytes) /\ Len(U) = t + take
      BY <1>3, <1>4, <1>10, <2>1, JoinOf
    <2>4. m \o d = W \o U
      <3>1. Associate(W, T, d)
        BY <1>3, Associates
      <3> QED
        BY <1>3, <2>1, <2>2, <3>1 DEF Associate
    <2>5. Splits(m \o d, BlockLen, q, W, U)
      BY <1>3, <1>20, <2>3, <2>4 DEF Splits
    <2>6. v = [h |-> c, buf |-> b, buffered |-> Len(U), len |-> Len(m \o d)]
      BY <1>18, <1>19, <1>20, <2>1, <2>3
    <2>7. v.buf = b /\ Leading(b, Len(U)) = U
      BY <1>14, <2>1, <2>3, <2>6
    <2>8. EagerParts(v, m \o d, q, W, U)
      BY <1>4, <1>14, <2>5, <2>6, <2>7 DEF EagerParts
    <2> QED
      BY <2>1, <2>8, EagerFromParts
  <1>21. CASE ~(t > 0 /\ t + take < BlockLen)
    <2>1. PICK v, o : v = EagerUpdate(s, d) /\ o = Overwrite(b, 0, Y)
      OBVIOUS
    <2>2. o \in Seq(Bytes) /\ Len(o) = BlockLen /\ Leading(o, Len(Y)) = Y
      <3>1. Fits(b, 0, Y, Len(Y))
        BY <1>14, <1>17 DEF Fits
      <3>4. b \in Seq(Bytes) /\ Y \in Seq(Bytes)
        BY <1>14, <1>17
      <3>2. Overwrites(o, b, 0, Y, Len(Y))
        BY <2>1, <3>1, <3>4, OverwriteFits
      <3>3. Leading(b, 0) = <<>>
        BY <1>14 DEF Leading
      <3> QED
        BY <1>14, <3>2, <3>3, <3>4, EmptyJoin DEF Overwrites
    <2>3. \E V, z : /\ V \in Seq(Bytes) /\ IsWhole(V, BlockLen, z) /\ V \o R = m \o d
                    /\ Plain(Cut(V, BlockLen)) = c \o (IF t > 0 THEN Plain(<<b>>) ELSE <<>>)
      <3>1. CASE t > 0
        <4>1. PICK K : K = T \o D
          OBVIOUS
        <4>2. K \in Seq(Bytes) /\ Len(K) = BlockLen
          <5>1. K \in Seq(Bytes) /\ Len(K) = Len(T) + Len(D)
            BY <1>3, <1>10, <4>1, JoinOf
          <5>2. t + take = BlockLen
            BY <1>6, <1>8, <1>21, <3>1, Constants
          <5> QED
            BY <1>4, <1>10, <5>1, <5>2
        <4>3. b = K
          <5>1. t + take = BlockLen /\ Leading(b, BlockLen) = b
            <6>1. t + take = BlockLen
              BY <1>6, <1>8, <1>21, <3>1, Constants
            <6>2. Leading(b, Len(b)) = b
              BY <1>14 DEF Leading
            <6> QED
              BY <1>14, <6>1, <6>2
          <5> QED
            BY <1>14, <4>1, <5>1
        <4>4. Cut(K, BlockLen) = <<b>>
          BY <4>2, <4>3, CutOne, Constants
        <4>5. IsWhole(K, BlockLen, 1)
          BY <4>2, Constants DEF IsWhole
        <4>6. /\ Plain(Cut(W \o K, BlockLen)) = c \o Plain(<<b>>)
              /\ W \o K \in Seq(Bytes) /\ IsWhole(W \o K, BlockLen, q + 1)
          <5>1. Grown(W, K, BlockLen, q + 1)
            BY <1>3, <4>2, <4>5, ChainGrows
          <5> QED
            BY <1>4, <4>4, <5>1 DEF Grown
        <4>7. (W \o K) \o R = m \o d
          <5>1. Associate(W, T, D)
            BY <1>3, <1>10, Associates
          <5>2. Associate(m, D, R)
            BY <1>10, <1>11, Associates
          <5> QED
            BY <1>3, <1>12, <4>1, <5>1, <5>2 DEF Associate
        <4> QED
          BY <3>1, <4>6, <4>7
      <3>2. CASE ~(t > 0)
        <4>1. t = 0 /\ T = <<>> /\ take = 0 /\ D = <<>>
          BY <1>3, <1>4, <1>7, <1>10, <3>2
        <4>2. m = W /\ R = d
          BY <1>3, <1>11, <1>12, <4>1, EmptyJoin
        <4>3. c \o <<>> = c
          BY <1>6, EmptyJoin DEF Chain
        <4> QED
          BY <1>3, <1>4, <3>2, <4>2, <4>3
      <3> QED
        BY <3>1, <3>2
    <2>4. PICK V, z : /\ V \in Seq(Bytes) /\ IsWhole(V, BlockLen, z) /\ V \o R = m \o d
                      /\ Plain(Cut(V, BlockLen)) = c \o (IF t > 0 THEN Plain(<<b>>) ELSE <<>>)
      BY <2>3
    <2>5. /\ Plain(Cut(V \o X, BlockLen)) = Plain(Cut(V, BlockLen)) \o Plain(Cut(X, BlockLen))
          /\ V \o X \in Seq(Bytes) /\ IsWhole(V \o X, BlockLen, z + p)
      <3>1. Grown(V, X, BlockLen, z + p)
        BY <1>17, <2>4, ChainGrows
      <3> QED
        BY <3>1 DEF Grown
    <2>6. (V \o X) \o Y = m \o d
      <3>1. Associate(V, X, Y)
        BY <1>17, <2>4, Associates
      <3> QED
        BY <1>17, <2>4, <3>1 DEF Associate
    <2>7. Splits(m \o d, BlockLen, z + p, V \o X, Y)
      BY <1>17, <2>5, <2>6 DEF Splits
    <2>8. v = [h |-> Plain(Cut(V \o X, BlockLen)), buf |-> o, buffered |-> Len(Y), len |-> Len(m \o d)]
      BY <1>18, <1>19, <1>21, <2>1, <2>4, <2>5
    <2>9. v.buf = o
      BY <2>8
    <2>10. EagerParts(v, m \o d, z + p, V \o X, Y)
      BY <2>2, <2>7, <2>8, <2>9 DEF EagerParts
    <2> QED
      BY <2>1, <2>10, EagerFromParts
  <1> QED
    BY <1>20, <1>21

LEMMA EagerFresh == EagerHolds(Fresh(BlockLen), <<>>)
  <1>1. PICK z : z = Zeros(BlockLen) /\ z \in Seq(Bytes) /\ Len(z) = BlockLen
    BY ZerosOf, Constants
  <1>2. Cut(<<>>, BlockLen) = <<>>
    BY CutNone, Constants
  <1>3. Plain(<<>>) = <<>>
    BY DEF Plain
  <1>4. Leading(z, 0) = <<>>
    BY <1>1 DEF Leading
  <1>5. Splits(<<>>, BlockLen, 0, <<>>, <<>>)
    <2>1. <<>> \in Seq(Bytes) /\ Len(<<>>) = 0 /\ <<>> \o <<>> = <<>>
      BY EmptyJoin
    <2> QED
      BY <2>1, Constants DEF Splits, IsWhole
  <1>6. Fresh(BlockLen) = [h |-> <<>>, buf |-> z, buffered |-> 0, len |-> 0]
    BY <1>1 DEF Fresh
  <1>7. EagerParts(Fresh(BlockLen), <<>>, 0, <<>>, <<>>)
    BY <1>1, <1>2, <1>3, <1>4, <1>5, <1>6 DEF EagerParts
  <1> QED
    BY <1>7, EagerFromParts

-----------------------------------------------------------------------------
(* The padding of SHA-2.                                                    *)

LEMMA SameMultiple ==
    ASSUME NEW b \in Nat, NEW x \in Nat, NEW y \in Nat, NEW u, NEW v, u = b * x, v = b * y, u < v + b, v < u + b
    PROVE  u = v
  <1>1. u \in Nat /\ v \in Nat
    BY TimesNat
  <1>2. CASE x < y
    <2>1. b * (x + 1) = b * x + b
      BY TimesStep
    <2>2. b * (x + 1) <= b * y
      BY <1>2, TimesMonotonic
    <2>3. FALSE
      BY <1>1, <2>1, <2>2
    <2> QED
      BY <2>3
  <1>3. CASE y < x
    <2>1. b * (y + 1) = b * y + b
      BY TimesStep
    <2>2. b * (y + 1) <= b * x
      BY <1>3, TimesMonotonic
    <2>3. FALSE
      BY <1>1, <2>1, <2>2
    <2> QED
      BY <2>3
  <1>4. CASE x = y
    BY <1>4
  <1> QED
    BY <1>2, <1>3, <1>4

\* Where the padded message ends, after the last t bytes.
EndAfter(t) == IF t < BlockLen - LengthBytes THEN BlockLen ELSE 2 * BlockLen
ZerosAfter(t) == EndAfter(t) - LengthBytes - 1 - t

LEMMA ZerosAfterOf ==
    ASSUME NEW t \in Nat, t < BlockLen
    PROVE  /\ EndAfter(t) \in Nat /\ (EndAfter(t) = BlockLen \/ EndAfter(t) = 2 * BlockLen)
           /\ ZerosAfter(t) \in 0..(BlockLen - 1)
           /\ t + 1 + ZerosAfter(t) + LengthBytes = EndAfter(t)
  BY Constants DEF EndAfter, ZerosAfter

LEMMA PaddingIs ==
    ASSUME NEW q \in Nat, NEW t \in Nat, t < BlockLen, NEW n, n = BlockLen * q + t
    PROVE  (CHOOSE z \in 0..(BlockLen - 1) : (n + 1 + z + LengthBytes) % BlockLen = 0) = ZerosAfter(t)
  <1>1. PICK y, e : y = ZerosAfter(t) /\ e = EndAfter(t)
    OBVIOUS
  <1>2. /\ y \in 0..(BlockLen - 1) /\ e \in Nat /\ t + 1 + y + LengthBytes = e
        /\ e = BlockLen \/ e = 2 * BlockLen
    BY <1>1, ZerosAfterOf
  <1>3. PICK w \in Nat : w = BlockLen * q
    BY Constants, TimesNat
  <1>4. n \in Nat /\ n = w + t
    BY <1>3
  <1>5. \E f \in Nat : n + 1 + y + LengthBytes = BlockLen * f
    <2>1. n + 1 + y + LengthBytes = w + e
      BY <1>2, <1>4, Constants
    <2>2. BlockLen * (q + 1) = BlockLen * q + BlockLen * 1 /\ BlockLen * (q + 2) = BlockLen * q + BlockLen * 2
      BY Constants, TimesSum
    <2>3. BlockLen * 1 = BlockLen /\ BlockLen * 2 = 2 * BlockLen
      BY Constants
    <2>4. CASE e = BlockLen
      BY <1>3, <2>1, <2>2, <2>3, <2>4
    <2>5. CASE e = 2 * BlockLen
      BY <1>3, <2>1, <2>2, <2>3, <2>5
    <2> QED
      BY <1>2, <2>4, <2>5
  <1>6. PICK f \in Nat : n + 1 + y + LengthBytes = BlockLen * f
    BY <1>5
  <1>7. (n + 1 + y + LengthBytes) % BlockLen = 0
    <2>1. PICK x \in Nat : x = n + 1 + y + LengthBytes /\ x = BlockLen * f + 0
      BY <1>2, <1>4, <1>6, Constants
    <2>2. x % BlockLen = 0
      BY <2>1, DivModIs, Constants
    <2> QED
      BY <2>1, <2>2
  <1>8. ASSUME NEW z \in 0..(BlockLen - 1), (n + 1 + z + LengthBytes) % BlockLen = 0
        PROVE  z = y
    <2>1. PICK x \in Nat : x = n + 1 + z + LengthBytes
      BY <1>4, Constants
    <2>2. PICK g \in Nat, r \in Nat : x = BlockLen * g + r /\ r = x % BlockLen
      BY DivMod, Constants
    <2>7. r = 0
      BY <1>8, <2>1, <2>2
    <2>8. PICK w1 \in Nat : w1 = BlockLen * g
      BY TimesNat, Constants
    <2>3. x = BlockLen * g
      BY <2>2, <2>7, <2>8, Constants
    <2>4. PICK u \in Nat : u = n + 1 + y + LengthBytes
      BY <1>2, <1>4, Constants
    <2>5. x < u + BlockLen /\ u < x + BlockLen
      BY <1>2, <1>4, <2>1, <2>4, Constants
    <2>6. x = u
      BY <1>6, <2>3, <2>4, <2>5, SameMultiple, Constants
    <2> QED
      BY <1>2, <1>4, <2>1, <2>4, <2>6, Constants
  <1>9. y \in 0..(BlockLen - 1)
    BY <1>2
  <1> QED
    BY <1>1, <1>7, <1>8, <1>9

\* The bytes that follow a message: the bit, zeros and the length.
Padding(t, total) == (<<Pad80>> \o Zeros(ZerosAfter(t))) \o LengthField(total)

LEMMA PaddingOf ==
    ASSUME NEW t \in Nat, t < BlockLen, NEW total \in Nat
    PROVE  /\ Padding(t, total) \in Seq(Bytes) /\ Len(Padding(t, total)) = EndAfter(t) - t
           /\ <<Pad80>> \in Seq(Bytes) /\ Zeros(ZerosAfter(t)) \in Seq(Bytes)
           /\ LengthField(total) \in Seq(Bytes) /\ Len(LengthField(total)) = LengthBytes
           /\ \A i \in 1..(EndAfter(t) - t) :
                 Padding(t, total)[i] = IF i = 1 THEN Pad80
                                        ELSE IF i <= EndAfter(t) - t - LengthBytes THEN 0
                                        ELSE LengthByte(total)
  <1>1. PICK y, e : y = ZerosAfter(t) /\ e = EndAfter(t)
    OBVIOUS
  <1>2. y \in Nat /\ e \in Nat /\ t + 1 + y + LengthBytes = e
    BY <1>1, ZerosAfterOf, Constants
  <1>3. PICK a, c, d : a = <<Pad80>> /\ c = Zeros(y) /\ d = LengthField(total)
    OBVIOUS
  <1>4. a \in Seq(Bytes) /\ Len(a) = 1 /\ a[1] = Pad80
    BY <1>3 DEF Pad80, Bytes
  <1>5. c \in Seq(Bytes) /\ Len(c) = y /\ \A i \in 1..y : c[i] = 0
    BY <1>2, <1>3, ZerosOf
  <1>6. d \in Seq(Bytes) /\ Len(d) = LengthBytes /\ \A i \in 1..LengthBytes : d[i] = LengthByte(total)
    BY <1>3, Constants DEF LengthField, LengthByte, Bytes
  <1>7. PICK g, h : g = a \o c /\ h = g \o d
    OBVIOUS
  <1>8. a \in Seq(Bytes) /\ c \in Seq(Bytes) /\ d \in Seq(Bytes)
    BY <1>4, <1>5, <1>6
  <1>9. /\ g \in Seq(Bytes) /\ Len(g) = Len(a) + Len(c)
        /\ \A i \in 1..(Len(a) + Len(c)) : g[i] = IF i <= Len(a) THEN a[i] ELSE c[i - Len(a)]
    BY <1>7, <1>8, JoinOf
  <1>10. g \in Seq(Bytes)
    BY <1>9
  <1>11. /\ h \in Seq(Bytes) /\ Len(h) = Len(g) + Len(d)
         /\ \A i \in 1..(Len(g) + Len(d)) : h[i] = IF i <= Len(g) THEN g[i] ELSE d[i - Len(g)]
    BY <1>7, <1>8, <1>10, JoinOf
  <1>12. Len(g) = 1 + y /\ \A i \in 1..(1 + y) : g[i] = IF i = 1 THEN Pad80 ELSE 0
    BY <1>2, <1>4, <1>5, <1>9
  <1>13. Len(h) = e - t
    BY <1>2, <1>6, <1>11, <1>12, Constants
  <1>14. ASSUME NEW i \in 1..(e - t)
         PROVE  h[i] = IF i = 1 THEN Pad80 ELSE IF i <= e - t - LengthBytes THEN 0 ELSE LengthByte(total)
    <2>1. e - t - LengthBytes = 1 + y /\ i \in 1..(Len(g) + Len(d))
      BY <1>2, <1>6, <1>12, Constants
    <2>2. CASE i <= 1 + y
      BY <1>2, <1>11, <1>12, <2>1, <2>2
    <2>3. CASE i > 1 + y
      <3>1. h[i] = d[i - (1 + y)] /\ i - (1 + y) \in 1..LengthBytes
        BY <1>2, <1>6, <1>11, <1>12, <2>1, <2>3, Constants
      <3> QED
        BY <1>2, <1>6, <2>1, <2>3, <3>1, SMTT(30)
    <2> QED
      BY <1>2, <2>2, <2>3
  <1>15. h = Padding(t, total)
    BY <1>1, <1>3, <1>7 DEF Padding
  <1> QED
    BY <1>1, <1>3, <1>8, <1>6, <1>11, <1>13, <1>14, <1>15

\* What follows the whole blocks of a message is its rest with the padding.
LEMMA PadBlocks ==
    ASSUME NEW T \in Seq(Bytes), Len(T) < BlockLen, NEW total \in Nat
    PROVE  /\ pad256(T, total) = T \o Padding(Len(T), total)
           /\ pad256(T, total) \in Seq(Bytes) /\ Len(pad256(T, total)) = EndAfter(Len(T))
           /\ \E p : IsWhole(pad256(T, total), BlockLen, p)
  <1>1. PICK t \in Nat : t = Len(T) /\ t < BlockLen
    OBVIOUS
  <1>2. PICK a, c, d : a = <<Pad80>> /\ c = Zeros(ZerosAfter(t)) /\ d = LengthField(total)
    OBVIOUS
  <1>3. a \in Seq(Bytes) /\ c \in Seq(Bytes) /\ d \in Seq(Bytes)
    BY <1>1, <1>2, PaddingOf
  <1>4. pad256(T, total) = ((T \o a) \o c) \o d
    BY <1>1, <1>2 DEF pad256, ZerosAfter, EndAfter
  <1>5. Associate(T, a, c)
    BY <1>3, Associates
  <1>6. PICK g : g = a \o c
    OBVIOUS
  <1>7. g \in Seq(Bytes)
    BY <1>3, <1>6, JoinOf
  <1>8. Associate(T, g, d)
    BY <1>3, <1>7, Associates
  <1>9. PICK P : P = g \o d /\ P = Padding(t, total)
    BY <1>2, <1>6 DEF Padding
  <1>10. pad256(T, total) = T \o P
    BY <1>4, <1>5, <1>6, <1>8, <1>9 DEF Associate
  <1>11. P \in Seq(Bytes) /\ Len(P) = EndAfter(t) - t
    BY <1>1, <1>9, PaddingOf
  <1>12. P \in Seq(Bytes)
    BY <1>11
  <1>13. T \o P \in Seq(Bytes) /\ Len(T \o P) = Len(T) + Len(P)
    BY <1>12, JoinOf
  <1>14. EndAfter(t) \in Nat /\ (EndAfter(t) = BlockLen \/ EndAfter(t) = 2 * BlockLen)
    BY <1>1, ZerosAfterOf
  <1>15. Len(T \o P) = EndAfter(t)
    BY <1>1, <1>11, <1>13, <1>14
  <1>16. IsWhole(T \o P, BlockLen, 1) \/ IsWhole(T \o P, BlockLen, 2)
    BY <1>14, <1>15, Constants DEF IsWhole
  <1> QED
    BY <1>1, <1>9, <1>10, <1>13, <1>15, <1>16

LEMMA Sha2Is ==
    ASSUME NEW m, NEW q, NEW W, NEW T, Splits(m, BlockLen, q, W, T)
    PROVE  /\ Sha2Blocks(m) = Plain(Cut(m \o Padding(Len(T), Len(m)), BlockLen))
           /\ Sha2Blocks(m) = Plain(Cut(W, BlockLen)) \o Plain(Cut(pad256(T, Len(m)), BlockLen))
           /\ Plain(Cut(W \o pad256(T, Len(m)), BlockLen)) = Sha2Blocks(m)
           /\ m \o Padding(Len(T), Len(m)) = W \o pad256(T, Len(m))
           /\ \E p : IsWhole(m \o Padding(Len(T), Len(m)), BlockLen, p)
  <1>1. /\ W \in Seq(Bytes) /\ T \in Seq(Bytes) /\ m = W \o T
        /\ IsWhole(W, BlockLen, q) /\ Len(T) < BlockLen
    BY DEF Splits
  <1>2. m \in Seq(Bytes) /\ Len(m) = Len(W) + Len(T)
    BY SplitOnce
  <1>3. PICK t \in Nat, n \in Nat : t = Len(T) /\ n = Len(m)
    BY <1>1, <1>2
  <1>4. q \in Nat /\ n = BlockLen * q + t /\ t < BlockLen
    BY <1>1, <1>2, <1>3 DEF IsWhole
  <1>5. PICK a, c, d : a = <<Pad80>> /\ c = Zeros(ZerosAfter(t)) /\ d = LengthField(n)
    OBVIOUS
  <1>6. a \in Seq(Bytes) /\ c \in Seq(Bytes) /\ d \in Seq(Bytes)
    BY <1>3, <1>4, <1>5, PaddingOf
  <1>7. Sha2Blocks(m) = Plain(Cut(((m \o a) \o c) \o d, BlockLen))
    <2>1. (CHOOSE z \in 0..(BlockLen - 1) : (n + 1 + z + LengthBytes) % BlockLen = 0) = ZerosAfter(t)
      BY <1>4, PaddingIs
    <2> QED
      BY <1>3, <1>5, <2>1 DEF Sha2Blocks
  <1>8. PICK g, P : g = a \o c /\ P = g \o d
    OBVIOUS
  <1>9. g \in Seq(Bytes)
    BY <1>6, <1>8, JoinOf
  <1>10. P \in Seq(Bytes) /\ P = Padding(t, n)
    <2>1. P \in Seq(Bytes)
      BY <1>6, <1>8, <1>9, JoinOf
    <2> QED
      BY <1>5, <1>8, <2>1 DEF Padding
  <1>11. ((m \o a) \o c) \o d = m \o P
    <2>1. Associate(m, a, c) /\ Associate(m, g, d)
      BY <1>2, <1>6, <1>9, Associates
    <2> QED
      BY <1>8, <2>1 DEF Associate
  <1>12. PICK Q : Q = pad256(T, n)
    OBVIOUS
  <1>13. Q = T \o P /\ Q \in Seq(Bytes) /\ \E p : IsWhole(Q, BlockLen, p)
    BY <1>1, <1>3, <1>10, <1>12, PadBlocks
  <1>14. m \o P = W \o Q
    <2>1. Associate(W, T, P)
      BY <1>1, <1>10, Associates
    <2> QED
      BY <1>1, <1>13, <2>1 DEF Associate
  <1>15. PICK p : IsWhole(Q, BlockLen, p) /\ Q \in Seq(Bytes)
    BY <1>13
  <1>16. Grown(W, Q, BlockLen, q + p)
    BY <1>1, <1>15, ChainGrows
  <1>17. /\ Plain(Cut(W \o Q, BlockLen)) = Plain(Cut(W, BlockLen)) \o Plain(Cut(Q, BlockLen))
         /\ IsWhole(W \o Q, BlockLen, q + p)
    BY <1>16 DEF Grown
  <1> QED
    BY <1>3, <1>7, <1>10, <1>11, <1>12, <1>14, <1>17

\* The bytes of the last blocks, and of the buffer that they are made in.
PadFills(Q, T, t, e, total) ==
    \A i \in 1..e : Q[i] = IF i <= t THEN T[i] ELSE IF i = t + 1 THEN Pad80
                            ELSE IF i <= e - LengthBytes THEN 0 ELSE LengthByte(total)
PadBegins(a, g, t) ==
    /\ a \in Seq(Bytes) /\ Len(a) = BlockLen
    /\ \A i \in 1..BlockLen : a[i] = IF i <= t THEN g[i] ELSE IF i = t + 1 THEN Pad80 ELSE 0
PadEnds(z, a, t, total) ==
    /\ z \in Seq(Bytes) /\ Len(z) = BlockLen
    /\ \A i \in 1..(BlockLen - LengthBytes) : z[i] = IF t >= BlockLen - LengthBytes THEN 0 ELSE a[i]
    /\ \A i \in (BlockLen - LengthBytes + 1)..BlockLen : z[i] = LengthByte(total)

LEMMA PadAt ==
    ASSUME NEW T \in Seq(Bytes), NEW t \in Nat, t = Len(T), t < BlockLen, NEW total \in Nat
    PROVE  PadFills(pad256(T, total), T, t, EndAfter(t), total)
  <1>1. PICK e \in Nat : e = EndAfter(t) /\ t + 1 + LengthBytes <= e
    <2>1. PICK z \in 0..(BlockLen - 1) : z = ZerosAfter(t)
      BY ZerosAfterOf
    <2>2. EndAfter(t) \in Nat /\ t + 1 + z + LengthBytes = EndAfter(t)
      BY <2>1, ZerosAfterOf
    <2> QED
      BY <2>1, <2>2, Constants
  <1>2. PICK P : P = Padding(t, total)
    OBVIOUS
  <1>3. /\ P \in Seq(Bytes) /\ Len(P) = e - t
        /\ \A i \in 1..(e - t) :
              P[i] = IF i = 1 THEN Pad80 ELSE IF i <= e - t - LengthBytes THEN 0 ELSE LengthByte(total)
    <2>1. /\ Padding(t, total) \in Seq(Bytes) /\ Len(Padding(t, total)) = EndAfter(t) - t
          /\ \A i \in 1..(EndAfter(t) - t) :
                Padding(t, total)[i] = IF i = 1 THEN Pad80
                                       ELSE IF i <= EndAfter(t) - t - LengthBytes THEN 0
                                       ELSE LengthByte(total)
      BY PaddingOf
    <2> QED
      BY <1>1, <1>2, <2>1
  <1>4. PICK Q : Q = pad256(T, total) /\ Q = T \o P
    BY <1>2, PadBlocks
  <1>5. P \in Seq(Bytes)
    BY <1>3
  <1>6. Len(Q) = Len(T) + Len(P) /\ \A i \in 1..(Len(T) + Len(P)) : Q[i] = IF i <= Len(T) THEN T[i] ELSE P[i - Len(T)]
    BY <1>4, <1>5, JoinOf
  <1>7. ASSUME NEW i \in 1..e
        PROVE  Q[i] = IF i <= t THEN T[i] ELSE IF i = t + 1 THEN Pad80
                      ELSE IF i <= e - LengthBytes THEN 0 ELSE LengthByte(total)
    <2>1. CASE i <= t
      BY <1>1, <1>3, <1>6, <2>1, SMTT(30)
    <2>2. CASE i > t
      <3>1. PICK j \in 1..(e - t) : j = i - t
        BY <1>1, <2>2, SMTT(30)
      <3>2. Q[i] = P[j]
        BY <1>1, <1>3, <1>6, <2>2, <3>1, SMTT(30)
      <3>3. P[j] = IF j = 1 THEN Pad80 ELSE IF j <= e - t - LengthBytes THEN 0 ELSE LengthByte(total)
        BY <1>3, <3>1
      <3>4. ~(i <= t) /\ (j = 1 <=> i = t + 1) /\ (j <= e - t - LengthBytes <=> i <= e - LengthBytes)
        BY <1>1, <2>2, <3>1, Constants, SMTT(30)
      <3> QED
        BY <3>2, <3>3, <3>4
    <2> QED
      BY <1>1, <2>1, <2>2
  <1> QED
    BY <1>1, <1>4, <1>7 DEF PadFills

\* The last block or two, made in the buffer.
LengthAt == BlockLen - LengthBytes
FirstPadded(g, t) == [i \in 1..BlockLen |-> IF i <= t THEN g[i] ELSE IF i = t + 1 THEN Pad80 ELSE Zero]
LastPadded(g, t, total) ==
    Overwrite(IF t >= LengthAt THEN Zeros(BlockLen) ELSE FirstPadded(g, t), LengthAt, LengthField(total))

LEMMA FirstPaddedOf ==
    ASSUME NEW g \in Seq(Bytes), Len(g) = BlockLen, NEW t \in Nat
    PROVE  PadBegins(FirstPadded(g, t), g, t)
  <1>1. PICK n \in Nat : n = BlockLen
    BY Constants
  <1>2. PICK f : f = [i \in 1..n |-> IF i <= t THEN g[i] ELSE IF i = t + 1 THEN Pad80 ELSE Zero]
    OBVIOUS
  <1>3. \A i \in 1..n : g[i] \in Bytes
    BY <1>1
  <1>4. Pad80 \in Bytes /\ Zero \in Bytes /\ Zero = 0
    BY DEF Pad80, Zero, Bytes
  <1>5. f \in Seq(Bytes) /\ Len(f) = n
    BY <1>2, <1>3, <1>4
  <1>6. \A i \in 1..n : f[i] = IF i <= t THEN g[i] ELSE IF i = t + 1 THEN Pad80 ELSE 0
    BY <1>2, <1>4
  <1>7. f = FirstPadded(g, t)
    BY <1>1, <1>2 DEF FirstPadded
  <1> QED
    BY <1>1, <1>5, <1>6, <1>7 DEF PadBegins

LEMMA LastPaddedOf ==
    ASSUME NEW g \in Seq(Bytes), Len(g) = BlockLen, NEW t \in Nat, NEW total \in Nat
    PROVE  PadEnds(LastPadded(g, t, total), FirstPadded(g, t), t, total)
  <1>1. PICK n \in Nat, l \in Nat, at \in Nat : n = BlockLen /\ l = LengthBytes /\ at = LengthAt /\ at + l = n
    BY Constants DEF LengthAt
  <1>2. PICK o : o = IF t >= at THEN Zeros(n) ELSE FirstPadded(g, t)
    OBVIOUS
  <1>3. Zeros(n) \in Seq(Bytes) /\ Len(Zeros(n)) = n /\ \A i \in 1..n : Zeros(n)[i] = 0
    BY ZerosOf
  <1>4. FirstPadded(g, t) \in Seq(Bytes) /\ Len(FirstPadded(g, t)) = n
    BY <1>1, FirstPaddedOf DEF PadBegins
  <1>5. o \in Seq(Bytes) /\ Len(o) = n /\ \A i \in 1..n : o[i] = IF t >= at THEN 0 ELSE FirstPadded(g, t)[i]
    BY <1>2, <1>3, <1>4
  <1>6. \A i \in 1..n : o[i] \in Bytes
    BY <1>5
  <1>7. PICK f : f = LengthField(total)
    OBVIOUS
  <1>8. Len(f) = l /\ \A i \in 1..l : f[i] = LengthByte(total)
    BY <1>1, <1>7 DEF LengthField
  <1>9. LengthByte(total) \in Bytes
    BY DEF LengthByte, Bytes
  <1>10. PICK v : v = [i \in 1..n |-> IF i - at \in 1..l THEN f[i - at] ELSE o[i]]
    OBVIOUS
  <1>11. v = LastPadded(g, t, total)
    BY <1>1, <1>2, <1>5, <1>7, <1>8, <1>10 DEF LastPadded, Overwrite
  <1>12. ASSUME NEW i \in 1..at PROVE v[i] = o[i]
    BY <1>1, <1>10
  <1>13. ASSUME NEW i \in (at + 1)..n PROVE v[i] = LengthByte(total)
    <2>1. i - at \in 1..l /\ i \in 1..n
      BY <1>1
    <2>2. v[i] = f[i - at]
      BY <1>10, <2>1
    <2> QED
      BY <1>8, <2>1, <2>2
  <1>14. \A i \in 1..n : v[i] \in Bytes
    <2> SUFFICES ASSUME NEW i \in 1..n PROVE v[i] \in Bytes
      OBVIOUS
    <2>1. CASE i <= at
      BY <1>1, <1>6, <1>12, <2>1
    <2>2. CASE i > at
      BY <1>1, <1>9, <1>13, <2>2
    <2> QED
      BY <2>1, <2>2
  <1>15. v \in Seq(Bytes) /\ Len(v) = n
    BY <1>10, <1>14
  <1>16. \A i \in 1..at : v[i] = IF t >= at THEN 0 ELSE FirstPadded(g, t)[i]
    BY <1>1, <1>5, <1>12
  <1> QED
    BY <1>1, <1>11, <1>13, <1>15, <1>16 DEF PadEnds, LengthAt

\* The padding pad256 appends is the one SHA-256's finalize makes in its buffer.
EndsAsOne(T, g, t, total) == Cut(pad256(T, total), BlockLen) = <<LastPadded(g, t, total)>>
EndsAsTwo(T, g, t, total) ==
    Cut(pad256(T, total), BlockLen) = <<FirstPadded(g, t)>> \o <<LastPadded(g, t, total)>>

LEMMA TwoLastBlocks ==
    ASSUME NEW T \in Seq(Bytes), NEW t \in Nat, t = Len(T), t < BlockLen, NEW total \in Nat,
           NEW g \in Seq(Bytes), Len(g) = BlockLen, Leading(g, t) = T, t >= LengthAt
    PROVE  EndsAsTwo(T, g, t, total)
  <1>1. PICK n \in Nat, l \in Nat, at \in Nat :
            n = BlockLen /\ l = LengthBytes /\ at = LengthAt /\ at + l = n /\ n > 0 /\ t < n /\ t >= at
    BY Constants DEF LengthAt
  <1>2. PICK Q, a, z : Q = pad256(T, total) /\ a = FirstPadded(g, t) /\ z = LastPadded(g, t, total)
    OBVIOUS
  <1>3. EndAfter(t) = n + n
    BY <1>1 DEF EndAfter, LengthAt
  <1>4. Q \in Seq(Bytes) /\ Len(Q) = n + n
    BY <1>2, <1>3, PadBlocks
  <1>5. \A i \in 1..(n + n) : Q[i] = IF i <= t THEN T[i] ELSE IF i = t + 1 THEN Pad80
                                     ELSE IF i <= (n + n) - l THEN 0 ELSE LengthByte(total)
    <2>1. PadFills(pad256(T, total), T, t, EndAfter(t), total)
      BY PadAt
    <2> QED
      BY <1>1, <1>2, <1>3, <2>1 DEF PadFills
  <1>6. \A i \in 1..t : T[i] = g[i]
    <2>1. t <= Len(g)
      BY <1>1
    <2>2. \A i \in 1..t : Leading(g, t)[i] = g[i]
      BY <2>1, LeadingOf
    <2> QED
      BY <2>2
  <1>7. a \in Seq(Bytes) /\ Len(a) = n /\ \A i \in 1..n : a[i] = IF i <= t THEN g[i] ELSE IF i = t + 1 THEN Pad80 ELSE 0
    <2>1. PadBegins(FirstPadded(g, t), g, t)
      BY FirstPaddedOf
    <2> QED
      BY <1>1, <1>2, <2>1 DEF PadBegins
  <1>8. /\ z \in Seq(Bytes) /\ Len(z) = n
        /\ \A i \in 1..at : z[i] = 0
        /\ \A i \in (at + 1)..n : z[i] = LengthByte(total)
    <2>1. PadEnds(LastPadded(g, t, total), FirstPadded(g, t), t, total)
      BY LastPaddedOf
    <2>2. at = BlockLen - LengthBytes
      BY <1>1 DEF LengthAt
    <2> QED
      BY <1>1, <1>2, <2>1, <2>2 DEF PadEnds
  <1>9. PICK j : j = a \o z
    OBVIOUS
  <1>10. a \in Seq(Bytes) /\ z \in Seq(Bytes)
    BY <1>7, <1>8
  <1>11. /\ j \in Seq(Bytes) /\ Len(j) = Len(a) + Len(z)
         /\ \A i \in 1..(Len(a) + Len(z)) : j[i] = IF i <= Len(a) THEN a[i] ELSE z[i - Len(a)]
    BY <1>9, <1>10, JoinOf
  <1>12. ASSUME NEW i \in 1..(n + n) PROVE Q[i] = j[i]
    <2>1. CASE i <= n
      <3>1. j[i] = a[i] /\ i \in 1..n
        BY <1>1, <1>7, <1>8, <1>11, <2>1
      <3>2. i <= (n + n) - l
        BY <1>1, <2>1
      <3>3. a[i] = IF i <= t THEN g[i] ELSE IF i = t + 1 THEN Pad80 ELSE 0
        BY <1>7, <3>1
      <3>4. Q[i] = IF i <= t THEN T[i] ELSE IF i = t + 1 THEN Pad80 ELSE 0
        BY <1>5, <3>2
      <3>5. i <= t => T[i] = g[i]
        BY <1>6, <3>1
      <3> QED
        BY <3>1, <3>3, <3>4, <3>5
    <2>2. CASE i > n
      <3>1. PICK k \in 1..n : k = i - n
        BY <1>1, <2>2
      <3>2. j[i] = z[k]
        BY <1>1, <1>7, <1>8, <1>11, <2>2, <3>1
      <3>3. ~(i <= t) /\ i # t + 1 /\ (i <= (n + n) - l <=> k <= at)
        BY <1>1, <2>2, <3>1
      <3>4. Q[i] = IF k <= at THEN 0 ELSE LengthByte(total)
        BY <1>5, <3>3
      <3>5. z[k] = IF k <= at THEN 0 ELSE LengthByte(total)
        BY <1>1, <1>8, <3>1
      <3> QED
        BY <3>2, <3>4, <3>5
    <2> QED
      BY <1>1, <2>1, <2>2
  <1>13. Q = j
    <2>1. Q \in Seq(Bytes) /\ j \in Seq(Bytes) /\ Len(Q) = Len(j)
      BY <1>4, <1>7, <1>8, <1>11
    <2>2. \A i \in 1..Len(Q) : Q[i] = j[i]
      BY <1>4, <1>12
    <2> QED
      BY <2>1, <2>2, SameSequence
  <1>14. IsWhole(a, n, 1) /\ IsWhole(z, n, 1)
    BY <1>1, <1>7, <1>8 DEF IsWhole
  <1>15. Cut(a \o z, n) = Cut(a, n) \o Cut(z, n)
    <2>1. CutsApart(a, z, n)
      BY <1>10, <1>14, CutJoin
    <2> QED
      BY <2>1 DEF CutsApart
  <1>16. Cut(a, n) = <<a>> /\ Cut(z, n) = <<z>>
    BY <1>1, <1>7, <1>8, CutOne
  <1>17. Cut(Q, BlockLen) = <<a>> \o <<z>>
    BY <1>1, <1>9, <1>13, <1>15, <1>16
  <1> QED
    BY <1>2, <1>17 DEF EndsAsTwo

LEMMA OneLastBlock ==
    ASSUME NEW T \in Seq(Bytes), NEW t \in Nat, t = Len(T), t < BlockLen, NEW total \in Nat,
           NEW g \in Seq(Bytes), Len(g) = BlockLen, Leading(g, t) = T, ~(t >= LengthAt)
    PROVE  EndsAsOne(T, g, t, total)
  <1>1. PICK n \in Nat, l \in Nat, at \in Nat :
            n = BlockLen /\ l = LengthBytes /\ at = LengthAt /\ at + l = n /\ n > 0 /\ t < at
    BY Constants DEF LengthAt
  <1>2. PICK Q, a, z : Q = pad256(T, total) /\ a = FirstPadded(g, t) /\ z = LastPadded(g, t, total)
    OBVIOUS
  <1>3. EndAfter(t) = n
    BY <1>1 DEF EndAfter, LengthAt
  <1>4. Q \in Seq(Bytes) /\ Len(Q) = n
    BY <1>2, <1>3, PadBlocks
  <1>5. \A i \in 1..n : Q[i] = IF i <= t THEN T[i] ELSE IF i = t + 1 THEN Pad80
                               ELSE IF i <= n - l THEN 0 ELSE LengthByte(total)
    <2>1. PadFills(pad256(T, total), T, t, EndAfter(t), total)
      BY PadAt
    <2> QED
      BY <1>1, <1>2, <1>3, <2>1 DEF PadFills
  <1>6. \A i \in 1..t : T[i] = g[i]
    <2>1. t <= Len(g)
      BY <1>1
    <2>2. \A i \in 1..t : Leading(g, t)[i] = g[i]
      BY <2>1, LeadingOf
    <2> QED
      BY <2>2
  <1>7. \A i \in 1..n : a[i] = IF i <= t THEN g[i] ELSE IF i = t + 1 THEN Pad80 ELSE 0
    <2>1. PadBegins(FirstPadded(g, t), g, t)
      BY FirstPaddedOf
    <2> QED
      BY <1>1, <1>2, <2>1 DEF PadBegins
  <1>8. /\ z \in Seq(Bytes) /\ Len(z) = n
        /\ \A i \in 1..at : z[i] = a[i]
        /\ \A i \in (at + 1)..n : z[i] = LengthByte(total)
    <2>1. PadEnds(LastPadded(g, t, total), FirstPadded(g, t), t, total)
      BY LastPaddedOf
    <2>2. at = BlockLen - LengthBytes
      BY <1>1 DEF LengthAt
    <2> QED
      BY <1>1, <1>2, <2>1, <2>2 DEF PadEnds
  <1>12. ASSUME NEW i \in 1..n PROVE Q[i] = z[i]
    <2>1. CASE i <= at
      <3>1. z[i] = IF i <= t THEN g[i] ELSE IF i = t + 1 THEN Pad80 ELSE 0
        BY <1>7, <1>8, <2>1
      <3>2. Q[i] = IF i <= t THEN T[i] ELSE IF i = t + 1 THEN Pad80 ELSE 0
        BY <1>1, <1>5, <2>1
      <3>5. i <= t => T[i] = g[i]
        BY <1>6
      <3> QED
        BY <3>1, <3>2, <3>5
    <2>2. CASE i > at
      <3>1. ~(i <= t) /\ i # t + 1 /\ ~(i <= n - l)
        BY <1>1, <2>2
      <3>2. z[i] = LengthByte(total)
        BY <1>1, <1>8, <2>2
      <3> QED
        BY <1>5, <3>1, <3>2
    <2> QED
      BY <1>1, <2>1, <2>2
  <1>13. Q = z
    <2>1. Q \in Seq(Bytes) /\ z \in Seq(Bytes) /\ Len(Q) = Len(z)
      BY <1>4, <1>8
    <2>2. \A i \in 1..Len(Q) : Q[i] = z[i]
      BY <1>4, <1>12
    <2> QED
      BY <2>1, <2>2, SameSequence
  <1>16. Cut(Q, n) = <<Q>>
    BY <1>1, <1>4, CutOne
  <1>17. Cut(Q, BlockLen) = <<z>>
    BY <1>1, <1>13, <1>16
  <1> QED
    BY <1>2, <1>17 DEF EndsAsOne

LEMMA PlainOne ==
    ASSUME NEW b
    PROVE  Plain(<<b>>) = <<Compressed(b, 0, "none")>>
  BY DEF Plain

\* finalize of SHA-256 and of SHA-512, and the one-shot form.
LEMMA Sha256Ends ==
    ASSUME NEW s, NEW m \in Seq(Bytes), EagerHolds(s, m)
    PROVE  Sha256Finalize(s) = Sha2Blocks(m)
  <1>1. PICK q, W, T : EagerParts(s, m, q, W, T)
    BY EagerToParts
  <1>2. /\ Splits(m, BlockLen, q, W, T) /\ s.buf \in Seq(Bytes) /\ Len(s.buf) = BlockLen
        /\ Leading(s.buf, Len(T)) = T
        /\ s = [h |-> Plain(Cut(W, BlockLen)), buf |-> s.buf, buffered |-> Len(T), len |-> Len(m)]
    BY <1>1 DEF EagerParts
  <1>3. W \in Seq(Bytes) /\ IsWhole(W, BlockLen, q) /\ T \in Seq(Bytes) /\ Len(T) < BlockLen
    BY <1>2 DEF Splits
  <1>4. PICK t \in Nat, n \in Nat : t = Len(T) /\ n = Len(m) /\ t < BlockLen
    BY <1>3
  <1>5. PICK c, g : c = Plain(Cut(W, BlockLen)) /\ g = s.buf
    OBVIOUS
  <1>6. s.h = c /\ s.buf = g /\ s.buffered = t /\ s.len = n
    BY <1>2, <1>4, <1>5
  <1>7. PICK a, z : a = FirstPadded(g, t) /\ z = LastPadded(g, t, n)
    OBVIOUS
  <1>8. Sha256Finalize(s) = (c \o (IF t >= LengthAt THEN Plain(<<a>>) ELSE <<>>)) \o Plain(<<z>>)
    BY <1>6, <1>7 DEF Sha256Finalize, FirstPadded, LastPadded, LengthAt
  <1>9. g \in Seq(Bytes) /\ Len(g) = BlockLen /\ Leading(g, t) = T
    BY <1>2, <1>4, <1>5
  <1>10. PICK Q : Q = pad256(T, n)
    OBVIOUS
  <1>11. a \in Seq(Bytes) /\ z \in Seq(Bytes)
    <2>1. PadBegins(a, g, t) /\ PadEnds(z, a, t, n)
      BY <1>4, <1>7, <1>9, FirstPaddedOf, LastPaddedOf
    <2> QED
      BY <2>1 DEF PadBegins, PadEnds
  <1>12. T \in Seq(Bytes)
    BY <1>3
  <1>13. c \in Chain
    BY <1>3, <1>5, ChainOfCut
  <1>14. Sha2Blocks(m) = c \o Plain(Cut(Q, BlockLen))
    <2>1. Splits(m, BlockLen, q, W, T)
      BY <1>2
    <2>2. Sha2Blocks(m) = Plain(Cut(W, BlockLen)) \o Plain(Cut(pad256(T, Len(m)), BlockLen))
      BY <2>1, Sha2Is
    <2> QED
      BY <1>4, <1>5, <1>10, <2>2
  <1>16. CASE t >= LengthAt
    <2>3. PICK P, L : P = <<a>> /\ L = <<z>>
      OBVIOUS
    <2>1. Cut(Q, BlockLen) = P \o L
      <3>1. EndsAsTwo(T, g, t, n)
        BY <1>4, <1>9, <1>12, <1>16, TwoLastBlocks
      <3> QED
        BY <1>7, <1>10, <2>3, <3>1 DEF EndsAsTwo
    <2>4. P \in Seq(Seq(Bytes)) /\ L \in Seq(Seq(Bytes))
      BY <1>11, <2>3
    <2>5. Plain(P \o L) = Plain(P) \o Plain(L)
      BY <2>4, PlainJoin
    <2>7. Plain(P) \in Chain /\ Plain(L) \in Chain
      BY <2>4, PlainOf
    <2>6. Associate(c, Plain(P), Plain(L))
      BY <1>13, <2>7, Associates DEF Chain
    <2> QED
      BY <1>8, <1>14, <1>16, <2>1, <2>3, <2>5, <2>6 DEF Associate
  <1>17. CASE ~(t >= LengthAt)
    <2>1. Cut(Q, BlockLen) = <<z>>
      <3>1. EndsAsOne(T, g, t, n)
        BY <1>4, <1>9, <1>12, <1>17, OneLastBlock
      <3> QED
        BY <1>7, <1>10, <3>1 DEF EndsAsOne
    <2>2. c \o <<>> = c
      BY <1>13, EmptyJoin DEF Chain
    <2> QED
      BY <1>8, <1>14, <1>17, <2>1, <2>2
  <1> QED
    BY <1>16, <1>17

LEMMA ShaNiEnds ==
    ASSUME NEW data \in Seq(Bytes)
    PROVE  one_shot_sha_ni(data) = Sha2Blocks(data)
  <1>1. PICK q, W, T : q = Len(data) \div BlockLen /\ W = WholeBlocks(data) /\ T = Remainder(data)
    OBVIOUS
  <1>2. Splits(data, BlockLen, q, W, T)
    BY <1>1, SplitExists, Constants DEF WholeBlocks, Remainder
  <1> QED
    BY <1>1, <1>2, Sha2Is DEF one_shot_sha_ni

LEMMA WholeOf ==
    ASSUME NEW m \in Seq(Bytes), NEW p, IsWhole(m, BlockLen, p)
    PROVE  WholeBlocks(m) = m
  <1>1. Splits(m, BlockLen, p, m, <<>>)
    BY EmptyJoin, Constants DEF Splits
  <1>2. Len(m) - (Len(m) % BlockLen) = Len(m) /\ Leading(m, Len(m)) = m
    BY <1>1, SplitOnce
  <1> QED
    BY <1>2 DEF WholeBlocks

LEMMA Sha512Ends ==
    ASSUME NEW s, NEW m \in Seq(Bytes), EagerHolds(s, m)
    PROVE  Sha512Finalize(s) = Sha2Blocks(m)
  <1>1. PICK q, W, T : EagerParts(s, m, q, W, T)
    BY EagerToParts
  <1>2. /\ Splits(m, BlockLen, q, W, T)
        /\ s = [h |-> Plain(Cut(W, BlockLen)), buf |-> s.buf, buffered |-> Len(T), len |-> Len(m)]
    BY <1>1 DEF EagerParts
  <1>3. T \in Seq(Bytes) /\ Len(T) < BlockLen
    BY <1>2 DEF Splits
  <1>4. PICK t \in Nat, n \in Nat : t = Len(T) /\ n = Len(m) /\ t < BlockLen
    BY <1>3
  <1>5. s.buffered = t /\ s.len = n
    BY <1>2, <1>4
  <1>6. ((BlockLen - LengthBytes - 1) + BlockLen - (t % BlockLen)) % BlockLen = ZerosAfter(t)
    <2>1. t % BlockLen = t
      <3>1. t = BlockLen * 0 + t
        BY Constants
      <3> QED
        BY <1>4, <3>1, DivModIs, Constants
    <2>2. PICK y \in Nat : y = ZerosAfter(t) /\ y < BlockLen
      BY <1>4, ZerosAfterOf, Constants
    <2>3. PICK x \in Nat : x = (BlockLen - LengthBytes - 1) + BlockLen - t
      <3>1. (BlockLen - LengthBytes - 1) + BlockLen - t \in Nat
        BY <1>4, Constants
      <3> QED
        BY <3>1
    <2>4. x = BlockLen * 1 + y \/ x = BlockLen * 0 + y
      BY <1>4, <2>2, <2>3, Constants DEF ZerosAfter, EndAfter
    <2>5. x % BlockLen = y
      BY <2>2, <2>4, DivModIs, Constants
    <2> QED
      BY <2>1, <2>2, <2>3, <2>5
  <1>7. PICK P : P = Padding(t, n)
    OBVIOUS
  <1>8. Sha512Finalize(s) = EagerUpdate(s, P).h
    BY <1>5, <1>6, <1>7 DEF Sha512Finalize, Padding
  <1>9. P \in Seq(Bytes)
    BY <1>4, <1>7, PaddingOf
  <1>10. EagerHolds(EagerUpdate(s, P), m \o P)
    BY <1>9, EagerFeeds
  <1>11. EagerUpdate(s, P).h = Plain(Cut(WholeBlocks(m \o P), BlockLen))
    BY <1>10 DEF EagerHolds
  <1>12. m \o P \in Seq(Bytes) /\ \E p : IsWhole(m \o P, BlockLen, p)
    BY <1>2, <1>4, <1>7, <1>9, Sha2Is, JoinOf
  <1>13. WholeBlocks(m \o P) = m \o P
    BY <1>12, WholeOf
  <1>14. Sha2Blocks(m) = Plain(Cut(m \o P, BlockLen))
    BY <1>2, <1>4, <1>7, Sha2Is
  <1> QED
    BY <1>8, <1>11, <1>13, <1>14

-----------------------------------------------------------------------------
(* HMAC: two hashes, each of a pad and something else.                      *)

LEMMA KeyPadOf ==
    ASSUME NEW b \in Int
    PROVE  KeyPad(b) \in Seq(Bytes) /\ Len(KeyPad(b)) = BlockLen
  BY Constants DEF KeyPad, Bytes

LEMMA DigestOf ==
    Digest \in Seq(Bytes) /\ Len(Digest) = DigestLen /\ DigestLen < BlockLen - LengthBytes
  BY Constants DEF Digest, DigestByte, Bytes

LEMMA PadsAreBytes == InnerPad \in Int /\ OuterPad \in Int /\ KeyByte \in Int
  BY DEF InnerPad, OuterPad, KeyByte

\* A pad before a message is one more block.
LEMMA PadSplits ==
    ASSUME NEW K \in Seq(Bytes), Len(K) = BlockLen,
           NEW m, NEW q, NEW W, NEW T, Splits(m, BlockLen, q, W, T)
    PROVE  /\ Splits(K \o m, BlockLen, 1 + q, K \o W, T)
           /\ Plain(Cut(K \o W, BlockLen)) = Plain(<<K>>) \o Plain(Cut(W, BlockLen))
           /\ Len(K \o m) = BlockLen + Len(m)
  <1>1. /\ W \in Seq(Bytes) /\ T \in Seq(Bytes) /\ m = W \o T
        /\ IsWhole(W, BlockLen, q) /\ Len(T) < BlockLen
    BY DEF Splits
  <1>2. IsWhole(K, BlockLen, 1)
    BY Constants DEF IsWhole
  <1>3. Cut(K, BlockLen) = <<K>>
    BY CutOne, Constants
  <1>4. Grown(K, W, BlockLen, 1 + q)
    BY <1>1, <1>2, ChainGrows
  <1>5. /\ Plain(Cut(K \o W, BlockLen)) = Plain(<<K>>) \o Plain(Cut(W, BlockLen))
        /\ K \o W \in Seq(Bytes) /\ IsWhole(K \o W, BlockLen, 1 + q)
    BY <1>3, <1>4 DEF Grown
  <1>6. Associate(K, W, T)
    BY <1>1, Associates
  <1>7. K \o m = (K \o W) \o T
    BY <1>1, <1>6 DEF Associate
  <1>8. Splits(K \o m, BlockLen, 1 + q, K \o W, T)
    BY <1>1, <1>5, <1>7 DEF Splits
  <1>9. m \in Seq(Bytes)
    BY <1>1, JoinOf
  <1>10. Len(K \o m) = BlockLen + Len(m)
    BY <1>9, JoinOf
  <1> QED
    BY <1>5, <1>8, <1>10

OuterPadded == Digest \o <<Pad80>> \o Zeros(BlockLen - DigestLen - 1 - LengthBytes)
                 \o LengthField(BlockLen + DigestLen)

LEMMA OuterIs ==
    Sha2Blocks(KeyPad(OuterPad) \o Digest) = Plain(<<KeyPad(OuterPad)>>) \o Plain(<<OuterPadded>>)
  <1>1. PICK K, D : K = KeyPad(OuterPad) /\ D = Digest
    OBVIOUS
  <1>2. K \in Seq(Bytes) /\ Len(K) = BlockLen
    BY <1>1, KeyPadOf, PadsAreBytes
  <1>3. D \in Seq(Bytes) /\ Len(D) = DigestLen /\ DigestLen < BlockLen - LengthBytes
    BY <1>1, DigestOf
  <1>4. Len(D) < BlockLen
    BY <1>3, Constants
  <1>5. IsWhole(K, BlockLen, 1)
    BY <1>2, Constants DEF IsWhole
  <1>6. Splits(K \o D, BlockLen, 1, K, D)
    BY <1>2, <1>3, <1>4, <1>5 DEF Splits
  <1>7. Len(K \o D) = BlockLen + DigestLen
    <2>1. Len(K \o D) = Len(K) + Len(D)
      BY <1>2, <1>3, JoinOf
    <2> QED
      BY <1>2, <1>3, <2>1
  <1>8. Sha2Blocks(K \o D) = Plain(Cut(K, BlockLen)) \o Plain(Cut(pad256(D, BlockLen + DigestLen), BlockLen))
    <2>1. PICK M : M = K \o D
      OBVIOUS
    <2>2. Splits(M, BlockLen, 1, K, D)
      BY <1>6, <2>1
    <2>3. Sha2Blocks(M) = Plain(Cut(K, BlockLen)) \o Plain(Cut(pad256(D, Len(M)), BlockLen))
      BY <2>2, Sha2Is
    <2> QED
      BY <1>7, <2>1, <2>3
  <1>9. Cut(K, BlockLen) = <<K>>
    BY <1>2, CutOne, Constants
  <1>10. pad256(D, BlockLen + DigestLen) = OuterPadded
    <2>1. BlockLen - LengthBytes - 1 - Len(D) = BlockLen - DigestLen - 1 - LengthBytes
      BY <1>3, Constants
    <2> QED
      BY <1>1, <1>3, <2>1 DEF pad256, OuterPadded
  <1>11. OuterPadded \in Seq(Bytes) /\ Len(OuterPadded) = BlockLen
    <2>1. PICK t \in Nat, n \in Nat : t = DigestLen /\ n = BlockLen + DigestLen
      BY Constants
    <2>2. t = Len(D) /\ t < BlockLen
      BY <1>3, <1>4, <2>1
    <2>3. pad256(D, n) \in Seq(Bytes) /\ Len(pad256(D, n)) = EndAfter(t)
      BY <1>3, <2>2, PadBlocks
    <2>4. EndAfter(t) = BlockLen
      BY <1>3, <2>1 DEF EndAfter
    <2> QED
      BY <1>10, <2>1, <2>3, <2>4
  <1>12. Cut(OuterPadded, BlockLen) = <<OuterPadded>>
    BY <1>11, CutOne, Constants
  <1> QED
    BY <1>1, <1>8, <1>9, <1>10, <1>12

HmacOf(m) == [inner |-> Sha2Blocks(KeyPad(InnerPad) \o m), outer |-> Sha2Blocks(KeyPad(OuterPad) \o Digest)]

HmacHolds(s, m) ==
    /\ s = [inner |-> s.inner, outer |-> s.outer]
    /\ EagerHolds(s.inner, KeyPad(InnerPad) \o m)
    /\ EagerHolds(s.outer, KeyPad(OuterPad))

LEMMA TagEnds ==
    ASSUME NEW s, NEW m \in Seq(Bytes), HmacHolds(s, m)
    PROVE  tag(s) = HmacOf(m)
  <1>1. PICK K, O : K = KeyPad(InnerPad) \o m /\ O = KeyPad(OuterPad)
    OBVIOUS
  <1>2. K \in Seq(Bytes) /\ O \in Seq(Bytes)
    BY <1>1, KeyPadOf, PadsAreBytes, JoinOf
  <1>3. EagerHolds(s.inner, K) /\ EagerHolds(s.outer, O)
    BY <1>1 DEF HmacHolds
  <1>4. Digest \in Seq(Bytes)
    BY DigestOf
  <1>5. EagerHolds(EagerUpdate(s.outer, Digest), O \o Digest)
    BY <1>2, <1>3, <1>4, EagerFeeds
  <1>6. O \o Digest \in Seq(Bytes)
    BY <1>2, <1>4, JoinOf
  <1>7. Sha256Finalize(s.inner) = Sha2Blocks(K)
    BY <1>2, <1>3, Sha256Ends
  <1>8. Sha256Finalize(EagerUpdate(s.outer, Digest)) = Sha2Blocks(O \o Digest)
    BY <1>5, <1>6, Sha256Ends
  <1> QED
    BY <1>1, <1>7, <1>8 DEF tag, HmacOf

LEMMA PadsHold ==
    HmacHolds(absorb_pads, <<>>)
  <1>1. ASSUME NEW b \in Int PROVE EagerHolds(EagerUpdate(Fresh(BlockLen), KeyPad(b)), KeyPad(b))
    <2>1. KeyPad(b) \in Seq(Bytes) /\ <<>> \in Seq(Bytes)
      BY KeyPadOf
    <2>2. EagerHolds(EagerUpdate(Fresh(BlockLen), KeyPad(b)), <<>> \o KeyPad(b))
      BY <2>1, EagerFresh, EagerFeeds
    <2>3. <<>> \o KeyPad(b) = KeyPad(b)
      BY <2>1, EmptyJoin
    <2> QED
      BY <2>2, <2>3
  <1>2. KeyPad(InnerPad) \o <<>> = KeyPad(InnerPad)
    BY KeyPadOf, PadsAreBytes, EmptyJoin
  <1>3. /\ absorb_pads = [inner |-> absorb_pads.inner, outer |-> absorb_pads.outer]
        /\ absorb_pads.inner = EagerUpdate(Fresh(BlockLen), KeyPad(InnerPad))
        /\ absorb_pads.outer = EagerUpdate(Fresh(BlockLen), KeyPad(OuterPad))
    BY DEF absorb_pads
  <1> QED
    BY <1>1, <1>2, <1>3, PadsAreBytes DEF HmacHolds

LEMMA HmacFeeds ==
    ASSUME NEW s, NEW m \in Seq(Bytes), HmacHolds(s, m), NEW d \in Seq(Bytes)
    PROVE  HmacHolds([s EXCEPT !.inner = EagerUpdate(@, d)], m \o d)
  <1>1. PICK K, v : K = KeyPad(InnerPad) /\ v = [s EXCEPT !.inner = EagerUpdate(@, d)]
    OBVIOUS
  <1>2. K \in Seq(Bytes)
    BY <1>1, KeyPadOf, PadsAreBytes
  <1>3. K \o m \in Seq(Bytes)
    BY <1>2, JoinOf
  <1>4. EagerHolds(s.inner, K \o m)
    BY <1>1 DEF HmacHolds
  <1>5. EagerHolds(EagerUpdate(s.inner, d), (K \o m) \o d)
    BY <1>3, <1>4, EagerFeeds
  <1>6. Associate(K, m, d)
    BY <1>2, Associates
  <1>7. v = [inner |-> EagerUpdate(s.inner, d), outer |-> s.outer]
    BY <1>1 DEF HmacHolds
  <1>8. v.inner = EagerUpdate(s.inner, d) /\ v.outer = s.outer /\ v = [inner |-> v.inner, outer |-> v.outer]
    BY <1>7
  <1>9. EagerHolds(v.inner, K \o (m \o d)) /\ EagerHolds(v.outer, KeyPad(OuterPad))
    BY <1>5, <1>6, <1>8 DEF Associate, HmacHolds
  <1> QED
    BY <1>1, <1>8, <1>9 DEF HmacHolds

LEMMA HmacOneShot ==
    ASSUME NEW data \in Seq(Bytes)
    PROVE  hmac_one_shot(data) = HmacOf(data)
  <1>1. PICK v : v = [absorb_pads EXCEPT !.inner = EagerUpdate(@, data)]
    OBVIOUS
  <1>2. <<>> \in Seq(Bytes) /\ <<>> \o data = data
    BY EmptyJoin
  <1>3. HmacHolds(v, <<>> \o data)
    BY <1>1, <1>2, PadsHold, HmacFeeds
  <1>4. tag(v) = HmacOf(data)
    BY <1>2, <1>3, TagEnds
  <1> QED
    BY <1>1, <1>4 DEF hmac_one_shot

LEMMA HmacFinish ==
    ASSUME NEW s, NEW m \in Seq(Bytes), HmacHolds(s, m)
    PROVE  hmac_sha256_finish(s) = HmacOf(m)
  <1>1. CASE ~(s.outer.buffered = 0 /\ s.outer.len = BlockLen)
    BY <1>1, TagEnds DEF hmac_sha256_finish
  <1>2. CASE s.outer.buffered = 0 /\ s.outer.len = BlockLen
    <2>1. PICK K, O, i : K = KeyPad(InnerPad) \o m /\ O = KeyPad(OuterPad) /\ i = s.inner
      OBVIOUS
    <2>2. K \in Seq(Bytes) /\ O \in Seq(Bytes) /\ Len(O) = BlockLen
      BY <2>1, KeyPadOf, PadsAreBytes, JoinOf
    <2>3. EagerHolds(i, K) /\ EagerHolds(s.outer, O)
      BY <2>1 DEF HmacHolds
    <2>4. PICK q, W, T : EagerParts(i, K, q, W, T)
      BY <2>2, <2>3, EagerToParts
    <2>5. /\ Splits(K, BlockLen, q, W, T) /\ Leading(i.buf, Len(T)) = T
          /\ i = [h |-> Plain(Cut(W, BlockLen)), buf |-> i.buf, buffered |-> Len(T), len |-> Len(K)]
      BY <2>4 DEF EagerParts
    <2>6. i.h = Plain(Cut(W, BlockLen)) /\ Leading(i.buf, i.buffered) = T /\ i.len = Len(K)
      BY <2>5
    <2>7. Sha2Blocks(K) = i.h \o Plain(Cut(pad256(T, Len(K)), BlockLen))
      <3>1. Splits(K, BlockLen, q, W, T)
        BY <2>5
      <3>2. Sha2Blocks(K) = Plain(Cut(W, BlockLen)) \o Plain(Cut(pad256(T, Len(K)), BlockLen))
        BY <3>1, Sha2Is
      <3> QED
        BY <2>6, <3>2
    <2>8. s.outer.h = Plain(<<O>>)
      <3>1. WholeBlocks(O) = O
        <4>1. IsWhole(O, BlockLen, 1)
          BY <2>2, Constants DEF IsWhole
        <4> QED
          BY <2>2, <4>1, WholeOf
      <3>2. Cut(O, BlockLen) = <<O>>
        BY <2>2, CutOne, Constants
      <3>3. s.outer.h = Plain(Cut(WholeBlocks(O), BlockLen))
        BY <2>3 DEF EagerHolds
      <3> QED
        BY <3>1, <3>2, <3>3
    <2>9. hmac_sha256_finish(s) = [inner |-> Sha2Blocks(K), outer |-> Plain(<<O>>) \o Plain(<<OuterPadded>>)]
      BY <1>2, <2>1, <2>6, <2>7, <2>8 DEF hmac_sha256_finish, hmac_tail, OuterPadded
    <2> QED
      BY <2>1, <2>9, OuterIs DEF HmacOf
  <1> QED
    BY <1>1, <1>2

LEMMA HmacFast ==
    ASSUME NEW data \in Seq(Bytes)
    PROVE  hmac_sha256_one_shot(data) = HmacOf(data)
  <1>1. PICK q, W, T : q = Len(data) \div BlockLen /\ W = WholeBlocks(data) /\ T = Remainder(data)
    OBVIOUS
  <1>2. Splits(data, BlockLen, q, W, T)
    BY <1>1, SplitExists, Constants DEF WholeBlocks, Remainder
  <1>3. PICK K : K = KeyPad(InnerPad)
    OBVIOUS
  <1>4. K \in Seq(Bytes) /\ Len(K) = BlockLen
    BY <1>3, KeyPadOf, PadsAreBytes
  <1>5. /\ Splits(K \o data, BlockLen, 1 + q, K \o W, T)
        /\ Plain(Cut(K \o W, BlockLen)) = Plain(<<K>>) \o Plain(Cut(W, BlockLen))
        /\ Len(K \o data) = BlockLen + Len(data)
    BY <1>2, <1>4, PadSplits
  <1>6. PICK Q : Q = pad256(T, BlockLen + Len(data))
    OBVIOUS
  <1>7. Sha2Blocks(K \o data) = Plain(Cut(K \o W, BlockLen)) \o Plain(Cut(Q, BlockLen))
    <2>1. PICK M, V, z : M = K \o data /\ V = K \o W /\ z = 1 + q
      OBVIOUS
    <2>2. Splits(M, BlockLen, z, V, T)
      BY <1>5, <2>1
    <2>3. Sha2Blocks(M) = Plain(Cut(V, BlockLen)) \o Plain(Cut(pad256(T, Len(M)), BlockLen))
      BY <2>2, Sha2Is
    <2> QED
      BY <1>5, <1>6, <2>1, <2>3
  <1>8. /\ W \in Seq(Bytes) /\ T \in Seq(Bytes) /\ IsWhole(W, BlockLen, q) /\ Len(T) < BlockLen
    BY <1>2 DEF Splits
  <1>9. Q \in Seq(Bytes) /\ \E p : IsWhole(Q, BlockLen, p)
    <2>1. PICK t \in Nat, n \in Nat : t = Len(T) /\ n = BlockLen + Len(data)
      BY <1>8, Constants
    <2>2. t = Len(T) /\ t < BlockLen
      BY <1>8, <2>1
    <2>3. pad256(T, n) \in Seq(Bytes) /\ \E p : IsWhole(pad256(T, n), BlockLen, p)
      BY <1>8, <2>2, PadBlocks
    <2> QED
      BY <1>6, <2>1, <2>3
  <1>10. PICK p : IsWhole(Q, BlockLen, p)
    BY <1>9
  <1>11. Grown(W, Q, BlockLen, q + p)
    BY <1>8, <1>9, <1>10, ChainGrows
  <1>12. Plain(Cut(W \o Q, BlockLen)) = Plain(Cut(W, BlockLen)) \o Plain(Cut(Q, BlockLen))
    BY <1>11 DEF Grown
  <1>13. Plain(<<K>>) \in Chain /\ Plain(Cut(W, BlockLen)) \in Chain /\ Plain(Cut(Q, BlockLen)) \in Chain
    <2>1. <<K>> \in Seq(Seq(Bytes))
      BY <1>4
    <2> QED
      BY <1>8, <1>9, <1>10, <2>1, PlainOf, ChainOfCut
  <1>14. Associate(Plain(<<K>>), Plain(Cut(W, BlockLen)), Plain(Cut(Q, BlockLen)))
    BY <1>13, Associates DEF Chain
  <1>15. Sha2Blocks(K \o data) = Plain(<<K>>) \o Plain(Cut(W \o Q, BlockLen))
    BY <1>5, <1>7, <1>12, <1>14 DEF Associate
  <1> QED
    BY <1>1, <1>3, <1>6, <1>15, OuterIs DEF hmac_sha256_one_shot, hmac_tail, OuterPadded, HmacOf

-----------------------------------------------------------------------------
(* Poly1305: what is left is a shorter block of its own.                    *)

LEMMA PolyEnds ==
    ASSUME NEW s, NEW m \in Seq(Bytes), EagerHolds(s, m)
    PROVE  Poly1305Finalize(s) = Poly1305Blocks(m)
  <1>1. PICK q, W, T : EagerParts(s, m, q, W, T)
    BY EagerToParts
  <1>2. /\ Splits(m, BlockLen, q, W, T) /\ Leading(s.buf, Len(T)) = T
        /\ s = [h |-> Plain(Cut(W, BlockLen)), buf |-> s.buf, buffered |-> Len(T), len |-> Len(m)]
    BY <1>1 DEF EagerParts
  <1>3. /\ W \in Seq(Bytes) /\ IsWhole(W, BlockLen, q) /\ T \in Seq(Bytes) /\ Len(T) < BlockLen
        /\ m = W \o T
    BY <1>2 DEF Splits
  <1>4. PICK t \in Nat, n \in Nat, w \in Nat : t = Len(T) /\ n = Len(m) /\ w = Len(W)
    BY <1>3
  <1>5. n = w + t /\ q \in Nat /\ w = BlockLen * q /\ t < BlockLen /\ m \in Seq(Bytes)
    BY <1>3, <1>4, JoinOf DEF IsWhole
  <1>6. PICK c, C : c = Plain(Cut(W, BlockLen)) /\ C = Cut(W, BlockLen)
    OBVIOUS
  <1>7. C \in Seq(Seq(Bytes)) /\ Len(C) = q /\ \A b \in 1..q : C[b] = BlockAt(W, BlockLen, b)
    BY <1>3, <1>6, CutOf
  <1>8. c \in Seq(Links) /\ Len(c) = q /\ \A b \in 1..q : c[b] = Compressed(C[b], 0, "none")
    <2>1. C \in Seq(Seq(Bytes)) /\ c = Plain(C)
      BY <1>6, <1>7
    <2> QED
      BY <1>7, <2>1, PlainOf DEF Chain
  <1>9. Poly1305Finalize(s) = c \o (IF t > 0 THEN Plain(<<T>>) ELSE <<>>)
    <2>1. s.h = c /\ s.buffered = t /\ Leading(s.buf, s.buffered) = T
      BY <1>2, <1>4, <1>6
    <2> QED
      BY <2>1 DEF Poly1305Finalize
  <1>10. PICK z \in Nat : z = IF t > 0 THEN q + 1 ELSE q
    BY <1>5
  <1>11. (n + BlockLen - 1) \div BlockLen = z
    <2>1. PICK x \in Nat : x = n + BlockLen - 1
      <3>1. n + BlockLen - 1 \in Nat
        BY Constants
      <3> QED
        BY <3>1
    <2>2. BlockLen * (q + 1) = BlockLen * q + BlockLen
      BY <1>5, Constants, TimesStep
    <2>3. CASE t > 0
      <3>1. PICK r \in Nat : r = t - 1 /\ r < BlockLen
        <4>1. t - 1 \in Nat /\ t - 1 < BlockLen
          BY <1>5, <2>3, Constants
        <4> QED
          BY <4>1
      <3>2. x = BlockLen * z + r
        BY <1>5, <1>10, <2>1, <2>2, <2>3, <3>1, Constants
      <3> QED
        BY <2>1, <3>1, <3>2, DivModIs, Constants
    <2>4. CASE t = 0
      <3>1. PICK r \in Nat : r = BlockLen - 1 /\ r < BlockLen
        <4>1. BlockLen - 1 \in Nat
          BY Constants
        <4> QED
          BY <4>1, Constants
      <3>2. x = BlockLen * z + r
        BY <1>5, <1>10, <2>1, <2>4, <3>1, Constants
      <3> QED
        BY <2>1, <3>1, <3>2, DivModIs, Constants
    <2> QED
      BY <2>3, <2>4
  <1>12. PICK P : P = [b \in 1..z |-> Compressed(SubSeq(m, (b - 1) * BlockLen + 1, Fewer(b * BlockLen, n)), 0, "none")]
    OBVIOUS
  <1>13. P = Poly1305Blocks(m)
    BY <1>4, <1>11, <1>12 DEF Poly1305Blocks
  <1>14. ASSUME NEW b \in 1..q PROVE SubSeq(m, (b - 1) * BlockLen + 1, Fewer(b * BlockLen, n)) = C[b]
    <2>1. PICK g \in Nat : g = (b - 1) * BlockLen /\ b * BlockLen = g + BlockLen /\ g + BlockLen <= BlockLen * q
      BY <1>5, BlockBounds, Constants
    <2>2. Fewer(b * BlockLen, n) = b * BlockLen
      BY <1>5, <2>1, Constants DEF Fewer
    <2>3. BlockAt(m, BlockLen, b) = BlockAt(W, BlockLen, b)
      BY <1>3, BlockOfFront
    <2> QED
      BY <1>7, <2>2, <2>3 DEF BlockAt
  <1>15. CASE t = 0
    <2>1. c \o <<>> = c
      BY <1>8, EmptyJoin
    <2>2. z = q
      BY <1>10, <1>15
    <2>3. P = [b \in 1..q |-> Compressed(C[b], 0, "none")]
      BY <1>12, <1>14, <2>2
    <2>4. c = [b \in 1..q |-> Compressed(C[b], 0, "none")]
      BY <1>6, <1>7 DEF Plain
    <2> QED
      BY <1>9, <1>13, <1>15, <2>1, <2>3, <2>4
  <1>16. CASE t > 0
    <2>1. z = q + 1
      BY <1>10, <1>16
    <2>2. PICK l : l = <<Compressed(T, 0, "none")>>
      OBVIOUS
    <2>3. l \in Seq(Links) /\ Len(l) = 1 /\ l[1] = Compressed(T, 0, "none")
      BY <1>3, <2>2, CompressedLink
    <2>4. PICK j : j = c \o l
      OBVIOUS
    <2>5. Plain(<<T>>) = l
      BY <2>2, PlainOne
    <2>6. c \in Seq(Links) /\ l \in Seq(Links)
      BY <1>8, <2>3
    <2>7. /\ j \in Seq(Links) /\ Len(j) = Len(c) + Len(l)
          /\ \A i \in 1..(Len(c) + Len(l)) : j[i] = IF i <= Len(c) THEN c[i] ELSE l[i - Len(c)]
      BY <2>4, <2>6, JoinOf
    <2>8. SubSeq(m, ((q + 1) - 1) * BlockLen + 1, Fewer((q + 1) * BlockLen, n)) = T
      <3>1. PICK f, h : f = ((q + 1) - 1) * BlockLen /\ h = (q + 1) * BlockLen
        OBVIOUS
      <3>2. f = w /\ h = w + BlockLen
        <4>1. BlockLen * (q + 1) = BlockLen * q + BlockLen
          BY <1>5, Constants, TimesStep
        <4> QED
          BY <1>5, <3>1, <4>1, Constants
      <3>3. Fewer(h, n) = n
        BY <1>5, <3>2, Constants DEF Fewer
      <3>4. SubSeq(m, w + 1, n) = From(m, w)
        BY <1>4 DEF From
      <3>5. From(m, Len(W)) = T
        BY <1>3, PartsOfJoin
      <3> QED
        BY <1>4, <3>1, <3>2, <3>3, <3>4, <3>5
    <2>9. ASSUME NEW b \in 1..(q + 1) PROVE P[b] = j[b]
      <3>1. CASE b <= q
        <4>1. b \in 1..q
          BY <1>5, <3>1
        <4>2. P[b] = Compressed(C[b], 0, "none")
          BY <1>12, <1>14, <2>1, <4>1
        <4>3. j[b] = c[b]
          BY <1>8, <2>3, <2>7, <4>1
        <4> QED
          BY <1>8, <4>1, <4>2, <4>3
      <3>2. CASE b = q + 1
        <4>1. P[b] = Compressed(T, 0, "none")
          BY <1>12, <2>1, <2>8, <3>2
        <4>2. j[b] = l[1]
          BY <1>5, <1>8, <2>3, <2>7, <3>2
        <4> QED
          BY <2>3, <4>1, <4>2
      <3> QED
        BY <1>5, <3>1, <3>2
    <2>10. P = j
      <3>1. j = [b \in 1..(q + 1) |-> j[b]]
        BY <1>5, <1>8, <2>3, <2>7
      <3>2. P = [b \in 1..(q + 1) |-> P[b]]
        BY <1>12, <2>1
      <3> QED
        BY <2>9, <3>1, <3>2
    <2> QED
      BY <1>9, <1>13, <1>16, <2>4, <2>5, <2>10
  <1> QED
    BY <1>5, <1>15, <1>16

-----------------------------------------------------------------------------
(* BLAKE2 and CMAC: the last block waits until more is known to follow.     *)

\* Whole blocks that something follows, and the one block or less that does.
Waits(m, q, W, T) ==
    /\ W \in Seq(Bytes) /\ T \in Seq(Bytes) /\ m = W \o T
    /\ IsWhole(W, BlockLen, q) /\ Len(T) <= BlockLen /\ (Len(T) = 0 => q = 0)

LEMMA WaitsOnce ==
    ASSUME NEW m, NEW q, NEW W, NEW T, Waits(m, q, W, T)
    PROVE  /\ m \in Seq(Bytes) /\ Len(m) = Len(W) + Len(T)
           /\ Followed(m) = Len(W) /\ Leading(m, Len(W)) = W /\ From(m, Len(W)) = T
  <1>1. /\ W \in Seq(Bytes) /\ T \in Seq(Bytes) /\ m = W \o T
        /\ q \in Nat /\ Len(W) = BlockLen * q /\ Len(T) <= BlockLen /\ (Len(T) = 0 => q = 0)
    BY DEF Waits, IsWhole
  <1>2. m \in Seq(Bytes) /\ Len(m) = Len(W) + Len(T)
    BY <1>1, JoinOf
  <1>3. PICK l \in Nat, w \in Nat, t \in Nat : l = Len(m) /\ w = Len(W) /\ t = Len(T)
    <2>1. Len(m) \in Nat /\ Len(W) \in Nat /\ Len(T) \in Nat
      BY <1>1, <1>2
    <2> QED
      BY <2>1
  <1>4. l = w + t /\ w = BlockLen * q /\ t <= BlockLen /\ (t = 0 => q = 0)
    BY <1>1, <1>2, <1>3
  <1>5. (More(l, 1) - 1) \div BlockLen = q
    <2>1. CASE t = 0
      <3>1. l = 0
        BY <1>4, <2>1, Constants
      <3>2. More(l, 1) - 1 = 0
        BY <3>1 DEF More
      <3>3. 0 = BlockLen * 0 + 0
        BY Constants
      <3>4. 0 \div BlockLen = 0
        BY <3>3, DivModIs, Constants
      <3> QED
        BY <1>4, <2>1, <3>2, <3>4
    <2>2. CASE t > 0
      <3>1. More(l, 1) = l
        BY <1>4, <2>2, Constants DEF More
      <3>2. t - 1 \in Nat /\ l - 1 \in Nat
        BY <1>4, <2>2, Constants
      <3>3. PICK r \in Nat, k \in Nat : r = t - 1 /\ k = l - 1
        BY <3>2
      <3>4. k = BlockLen * q + r /\ r < BlockLen
        BY <1>4, <2>2, <3>3, Constants
      <3>5. k \div BlockLen = q
        BY <1>1, <3>4, DivModIs, Constants
      <3> QED
        BY <3>1, <3>3, <3>5
    <2> QED
      BY <2>1, <2>2
  <1>6. Leading(m, Len(W)) = W /\ From(m, Len(W)) = T
    BY <1>1, PartsOfJoin
  <1>7. Followed(m) = Len(W)
    BY <1>3, <1>4, <1>5 DEF Followed
  <1> QED
    BY <1>2, <1>6, <1>7

LEMMA WaitsExists ==
    ASSUME NEW m \in Seq(Bytes)
    PROVE  \E q : Waits(m, q, Leading(m, Followed(m)), From(m, Followed(m)))
  <1>1. PICK l \in Nat : l = Len(m)
    OBVIOUS
  <1>2. PICK k \in Nat : k = More(l, 1) - 1
    <2>1. More(l, 1) - 1 \in Nat
      BY DEF More
    <2> QED
      BY <2>1
  <1>3. PICK q \in Nat, r \in Nat : k = BlockLen * q + r /\ r < BlockLen /\ q = k \div BlockLen /\ r = k % BlockLen
    BY DivMod, Constants
  <1>4. PICK w \in Nat : w = BlockLen * q
    BY Constants, TimesNat
  <1>5. w = Followed(m)
    BY <1>1, <1>2, <1>3, <1>4 DEF Followed
  <1>13. k = w + r /\ r < BlockLen
    BY <1>3, <1>4
  <1>6. w <= l /\ l - w <= BlockLen /\ (l - w = 0 => q = 0)
    <2>1. CASE l = 0
      <3>1. k = 0
        BY <1>2, <2>1 DEF More
      <3>2. w = 0 /\ r = 0
        BY <1>13, <3>1, Constants
      <3>3. q = 0
        BY <1>4, <3>2, Constants
      <3> QED
        BY <2>1, <3>2, <3>3, Constants
    <2>2. CASE l > 0
      <3>1. k = l - 1
        BY <1>2, <2>2 DEF More
      <3> QED
        BY <1>13, <2>2, <3>1, Constants
    <2> QED
      BY <2>1, <2>2
  <1>7. PICK W, T : W = Leading(m, w) /\ T = From(m, w)
    OBVIOUS
  <1>8. w <= Len(m)
    BY <1>1, <1>6
  <1>9. W \in Seq(Bytes) /\ Len(W) = w
    BY <1>7, <1>8, LeadingOf
  <1>10. T \in Seq(Bytes) /\ Len(T) = l - w
    BY <1>1, <1>7, <1>8, FromOf
  <1>11. m = W \o T
    BY <1>7, <1>8, Parted
  <1>12. Waits(m, q, W, T)
    BY <1>4, <1>6, <1>9, <1>10, <1>11, Constants DEF Waits, IsWhole
  <1> QED
    BY <1>5, <1>7, <1>12

LazyParts(s, m, step, q, W, T) ==
    /\ Waits(m, q, W, T)
    /\ s = [h |-> Counted(Cut(W, BlockLen), 0, step), buf |-> s.buf, buffered |-> Len(T), len |-> q * step]
    /\ s.buf \in Seq(Bytes) /\ Len(s.buf) = BlockLen /\ Leading(s.buf, Len(T)) = T

LEMMA LazyFromParts ==
    ASSUME NEW s, NEW m, NEW step, NEW q, NEW W, NEW T, LazyParts(s, m, step, q, W, T)
    PROVE  LazyHolds(s, m, step)
  <1>1. /\ Waits(m, q, W, T)
        /\ s = [h |-> Counted(Cut(W, BlockLen), 0, step), buf |-> s.buf, buffered |-> Len(T), len |-> q * step]
        /\ s.buf \in Seq(Int) /\ Len(s.buf) = BlockLen /\ Leading(s.buf, Len(T)) = T
    BY DEF LazyParts, Bytes
  <1>2. /\ m \in Seq(Bytes) /\ Len(m) = Len(W) + Len(T)
        /\ Followed(m) = Len(W) /\ Leading(m, Len(W)) = W /\ From(m, Len(W)) = T
    BY <1>1, WaitsOnce
  <1>3. W \in Seq(Bytes) /\ T \in Seq(Bytes) /\ IsWhole(W, BlockLen, q)
    BY <1>1 DEF Waits
  <1>4. Len(Cut(W, BlockLen)) = q
    BY <1>3, CutOf
  <1>5. Len(m) - Followed(m) = Len(T)
    BY <1>2, <1>3
  <1>6. s.buffered = Len(T)
    BY <1>1
  <1> QED
    BY <1>1, <1>2, <1>4, <1>5, <1>6 DEF LazyHolds

LEMMA LazyToParts ==
    ASSUME NEW s, NEW m \in Seq(Bytes), NEW step, LazyHolds(s, m, step)
    PROVE  \E q, W, T : LazyParts(s, m, step, q, W, T)
  <1>1. PICK W, T : W = Leading(m, Followed(m)) /\ T = From(m, Followed(m))
    OBVIOUS
  <1>2. PICK q : Waits(m, q, W, T)
    BY <1>1, WaitsExists
  <1>3. W \in Seq(Bytes) /\ T \in Seq(Bytes) /\ IsWhole(W, BlockLen, q)
    BY <1>2 DEF Waits
  <1>4. Len(Cut(W, BlockLen)) = q
    BY <1>3, CutOf
  <1>5. Len(m) = Len(W) + Len(T) /\ Followed(m) = Len(W)
    BY <1>2, WaitsOnce
  <1>6. Len(m) - Followed(m) = Len(T)
    BY <1>3, <1>5
  <1>7. /\ s = [h |-> Counted(Cut(W, BlockLen), 0, step), buf |-> s.buf, buffered |-> Len(T), len |-> q * step]
        /\ s.buf \in Seq(Bytes) /\ Len(s.buf) = BlockLen /\ Leading(s.buf, s.buffered) = T
    BY <1>1, <1>4, <1>6 DEF LazyHolds, Bytes
  <1>8. s.buffered = Len(T)
    BY <1>7
  <1> QED
    BY <1>2, <1>7, <1>8 DEF LazyParts

\* Blocks counted one after the other.
LEMMA CountedOf ==
    ASSUME NEW x \in Seq(Seq(Bytes)), NEW from \in Nat, NEW step \in Nat
    PROVE  /\ Counted(x, from, step) \in Chain /\ Len(Counted(x, from, step)) = Len(x)
           /\ \A b \in 1..Len(x) : Counted(x, from, step)[b] = Compressed(x[b], from + b * step, "none")
  <1>1. PICK n \in Nat : n = Len(x)
    OBVIOUS
  <1>2. \A b \in 1..n : x[b] \in Seq(Bytes)
    BY <1>1
  <1>3. ASSUME NEW b \in 1..n PROVE Compressed(x[b], from + b * step, "none") \in Links
    <2>1. PICK c \in Int : c = from + b * step
      OBVIOUS
    <2> QED
      BY <1>2, <2>1, CompressedLink
  <1>4. PICK c : c = [b \in 1..n |-> Compressed(x[b], from + b * step, "none")]
    OBVIOUS
  <1>5. c \in Seq(Links) /\ Len(c) = n
    BY <1>3, <1>4
  <1>6. \A b \in 1..n : c[b] = Compressed(x[b], from + b * step, "none")
    BY <1>4
  <1>7. Counted(x, from, step) = c
    BY <1>1, <1>4 DEF Counted
  <1> QED
    BY <1>1, <1>5, <1>6, <1>7 DEF Chain

CountsOn(x, y, step) ==
    Counted(x \o y, 0, step) = Counted(x, 0, step) \o Counted(y, Len(x) * step, step)

LEMMA CountedJoin ==
    ASSUME NEW x \in Seq(Seq(Bytes)), NEW y \in Seq(Seq(Bytes)), NEW step \in Nat
    PROVE  CountsOn(x, y, step)
  <1>0. PICK n \in Nat, k \in Nat : n = Len(x) /\ k = Len(y)
    OBVIOUS
  <1>1. PICK v : v = x \o y
    OBVIOUS
  <1>2. /\ v \in Seq(Seq(Bytes)) /\ Len(v) = Len(x) + Len(y)
        /\ \A i \in 1..(Len(x) + Len(y)) : v[i] = IF i <= Len(x) THEN x[i] ELSE y[i - Len(x)]
    BY <1>1, JoinOf
  <1>3. v \in Seq(Seq(Bytes)) /\ Len(v) = n + k
    BY <1>0, <1>2
  <1>12. PICK f \in Nat : f = n * step
    BY TimesNat
  <1>4. PICK p, q, r, t : p = Counted(x, 0, step) /\ q = Counted(y, f, step) /\ r = Counted(v, 0, step) /\ t = p \o q
    OBVIOUS
  <1>5. p \in Seq(Links) /\ Len(p) = n /\ \A b \in 1..n : p[b] = Compressed(x[b], 0 + b * step, "none")
    BY <1>0, <1>4, CountedOf DEF Chain
  <1>6. q \in Seq(Links) /\ Len(q) = k /\ \A b \in 1..k : q[b] = Compressed(y[b], f + b * step, "none")
    BY <1>0, <1>4, CountedOf DEF Chain
  <1>7. r \in Seq(Links) /\ Len(r) = n + k /\ \A b \in 1..(n + k) : r[b] = Compressed(v[b], 0 + b * step, "none")
    <2>1. v \in Seq(Seq(Bytes))
      BY <1>3
    <2>2. /\ r \in Seq(Links) /\ Len(r) = Len(v)
          /\ \A b \in 1..Len(v) : r[b] = Compressed(v[b], 0 + b * step, "none")
      BY <1>4, <2>1, CountedOf DEF Chain
    <2> QED
      BY <1>3, <2>2
  <1>8. p \in Seq(Links) /\ q \in Seq(Links)
    BY <1>5, <1>6
  <1>9. /\ t \in Seq(Links) /\ Len(t) = Len(p) + Len(q)
        /\ \A i \in 1..(Len(p) + Len(q)) : t[i] = IF i <= Len(p) THEN p[i] ELSE q[i - Len(p)]
    BY <1>4, <1>8, JoinOf
  <1>10. ASSUME NEW i \in 1..(n + k) PROVE r[i] = t[i]
    <2>1. CASE i <= n
      <3>1. i \in 1..n
        BY <2>1
      <3>2. v[i] = x[i]
        BY <1>0, <1>2, <2>1
      <3>3. t[i] = p[i]
        BY <1>5, <1>6, <1>9, <2>1
      <3> QED
        BY <1>5, <1>7, <3>1, <3>2, <3>3
    <2>2. CASE i > n
      <3>1. PICK j \in 1..k : j = i - n
        BY <2>2
      <3>2. v[i] = y[j]
        BY <1>0, <1>2, <2>2, <3>1
      <3>3. t[i] = q[j]
        BY <1>5, <1>6, <1>9, <2>2, <3>1
      <3>4. f + j * step = 0 + i * step
        <4>1. step * (n + j) = step * n + step * j
          BY TimesSum
        <4>2. step * n = n * step /\ step * j = j * step /\ step * (n + j) = (n + j) * step /\ n + j = i
          BY <3>1
        <4>3. PICK a, b, c : a = n * step /\ b = j * step /\ c = i * step
          OBVIOUS
        <4>4. c = a + b /\ a \in Nat /\ b \in Nat
          BY <4>1, <4>2, <4>3, TimesNat
        <4>6. f = a
          BY <1>12, <4>3
        <4>5. f + b = 0 + c
          BY <4>4, <4>6
        <4> QED
          BY <4>3, <4>5
      <3> QED
        BY <1>6, <1>7, <3>1, <3>2, <3>3, <3>4
    <2> QED
      BY <2>1, <2>2
  <1>11. r = t
    <2>1. r \in Seq(Links) /\ t \in Seq(Links) /\ Len(r) = Len(t)
      BY <1>5, <1>6, <1>7, <1>9
    <2>2. \A i \in 1..Len(r) : r[i] = t[i]
      BY <1>7, <1>10
    <2> QED
      BY <2>1, <2>2, SameSequence
  <1> QED
    BY <1>0, <1>1, <1>4, <1>11, <1>12 DEF CountsOn

LEMMA LazyFeeds ==
    ASSUME NEW s, NEW m \in Seq(Bytes), NEW step \in Nat, LazyHolds(s, m, step), NEW d \in Seq(Bytes)
    PROVE  LazyHolds(LazyUpdate(s, d, step), m \o d, step)
  <1>1. PICK q, W, T : LazyParts(s, m, step, q, W, T)
    BY LazyToParts
  <1>2. /\ Waits(m, q, W, T) /\ s.buf \in Seq(Bytes) /\ Len(s.buf) = BlockLen
        /\ Leading(s.buf, Len(T)) = T
        /\ s = [h |-> Counted(Cut(W, BlockLen), 0, step), buf |-> s.buf, buffered |-> Len(T), len |-> q * step]
    BY <1>1 DEF LazyParts
  <1>3. /\ W \in Seq(Bytes) /\ T \in Seq(Bytes) /\ m = W \o T
        /\ IsWhole(W, BlockLen, q) /\ Len(T) <= BlockLen /\ (Len(T) = 0 => q = 0)
    BY <1>2 DEF Waits
  <1>22. PICK t \in Nat : t = Len(T)
    BY <1>3
  <1>23. PICK C, c, g, f : /\ C = Cut(W, BlockLen) /\ c = Counted(C, 0, step) /\ g = s.buf
                           /\ f = q * step
    OBVIOUS
  <1>24. q \in Nat /\ f \in Nat
    BY <1>3, <1>23, TimesNat DEF IsWhole
  <1>5. s = [h |-> c, buf |-> g, buffered |-> t, len |-> f]
    BY <1>2, <1>22, <1>23
  <1>25. C \in Seq(Seq(Bytes)) /\ Len(C) = q
    BY <1>3, <1>23, CutOf
  <1>26. C \in Seq(Seq(Bytes)) /\ c \in Chain
    <2>1. C \in Seq(Seq(Bytes))
      BY <1>25
    <2> QED
      BY <1>23, <2>1, CountedOf
  <1>6. g \in Seq(Bytes) /\ Len(g) = BlockLen /\ Leading(g, t) = T /\ t <= BlockLen /\ (t = 0 => q = 0)
    BY <1>2, <1>3, <1>22, <1>23
  <1>7. PICK take \in Nat : take = IF t > 0 THEN Fewer(BlockLen - t, Len(d)) ELSE 0
    BY <1>6, Constants DEF Fewer
  <1>8. take <= Len(d) /\ t + take <= BlockLen /\ (t > 0 /\ t + take < BlockLen => take = Len(d))
    BY <1>6, <1>7, Constants DEF Fewer
  <1>9. PICK D, R : D = Leading(d, take) /\ R = From(d, take)
    OBVIOUS
  <1>10. D \in Seq(Bytes) /\ Len(D) = take
    BY <1>8, <1>9, LeadingOf
  <1>11. R \in Seq(Bytes) /\ Len(R) = Len(d) - take
    BY <1>8, <1>9, FromOf
  <1>12. d = D \o R
    BY <1>8, <1>9, Parted
  <1>13. PICK b : b = Overwrite(g, t, D)
    OBVIOUS
  <1>14. b \in Seq(Bytes) /\ Len(b) = BlockLen /\ Leading(b, t + take) = T \o D
    <2>1. Fits(g, t, D, t + take)
      BY <1>6, <1>8, <1>10 DEF Fits
    <2>2. g \in Seq(Bytes) /\ D \in Seq(Bytes)
      BY <1>6, <1>10
    <2>3. Overwrites(b, g, t, D, t + take)
      BY <1>13, <2>1, <2>2, OverwriteFits
    <2> QED
      BY <1>6, <2>3 DEF Overwrites
  <1>15. PICK X, Y : X = Leading(R, Followed(R)) /\ Y = From(R, Followed(R))
    OBVIOUS
  <1>16. PICK p : Waits(R, p, X, Y)
    BY <1>11, <1>15, WaitsExists
  <1>17. /\ X \in Seq(Bytes) /\ Y \in Seq(Bytes) /\ R = X \o Y
         /\ IsWhole(X, BlockLen, p) /\ Len(Y) <= BlockLen /\ (Len(Y) = 0 => p = 0)
    BY <1>16 DEF Waits
  <1>27. PICK bs : bs = (IF t > 0 THEN <<b>> ELSE <<>>) \o Cut(X, BlockLen)
    OBVIOUS
  <1>18. LazyUpdate(s, d, step) =
           IF t > 0 /\ (t + take < BlockLen \/ R = <<>>)
           THEN [h |-> c, buf |-> b, buffered |-> t + take, len |-> f]
           ELSE [h |-> c \o Counted(bs, f, step),
                 buf |-> Overwrite(b, 0, Y), buffered |-> Len(Y), len |-> f + Len(bs) * step]
    <2>1. /\ X = Leading(R, BlockLen * ((More(Len(R), 1) - 1) \div BlockLen))
          /\ Y = From(R, BlockLen * ((More(Len(R), 1) - 1) \div BlockLen))
      BY <1>15 DEF Followed
    <2>2. s.h = c /\ s.buf = g /\ s.buffered = t /\ s.len = f
      BY <1>5
    <2>3. LazyUpdate(s, d, step) =
            IF t > 0 /\ (t + take < BlockLen \/ R = <<>>)
            THEN [s EXCEPT !.buf = b, !.buffered = @ + take]
            ELSE [s EXCEPT !.h = @ \o Counted(bs, f, step),
                           !.buf = Overwrite(b, 0, Y), !.buffered = Len(Y), !.len = @ + Len(bs) * step]
      BY <1>7, <1>9, <1>13, <1>27, <2>1, <2>2 DEF LazyUpdate, Counted
    <2> QED
      BY <1>5, <2>3
  <1>19. m \o d \in Seq(Bytes)
    BY JoinOf
  <1>20. CASE t > 0 /\ (t + take < BlockLen \/ R = <<>>)
    <2>1. PICK U, v : U = T \o D /\ v = LazyUpdate(s, d, step)
      OBVIOUS
    <2>2. D = d
      <3>1. R = <<>>
        <4>1. CASE t + take < BlockLen
          <5>1. Len(R) = 0
            BY <1>8, <1>11, <1>20, <4>1
          <5> QED
            BY <1>11, <5>1
        <4>2. CASE R = <<>>
          BY <4>2
        <4> QED
          BY <1>20, <4>1, <4>2
      <3> QED
        BY <1>10, <1>12, <3>1, EmptyJoin
    <2>3. U \in Seq(Bytes) /\ Len(U) = t + take
      BY <1>3, <1>22, <1>10, <2>1, JoinOf
    <2>4. m \o d = W \o U
      <3>1. Associate(W, T, d)
        BY <1>3, Associates
      <3> QED
        BY <1>3, <2>1, <2>2, <3>1 DEF Associate
    <2>5. Waits(m \o d, q, W, U)
      <3>1. Len(U) <= BlockLen /\ Len(U) # 0
        BY <1>8, <1>20, <2>3
      <3> QED
        BY <1>3, <2>3, <2>4, <3>1 DEF Waits
    <2>6. v = [h |-> c, buf |-> b, buffered |-> Len(U), len |-> f]
      BY <1>18, <1>20, <2>1, <2>3
    <2>7. v.buf = b /\ Leading(b, Len(U)) = U
      BY <1>14, <2>1, <2>3, <2>6
    <2>8. LazyParts(v, m \o d, step, q, W, U)
      BY <1>14, <1>23, <2>5, <2>6, <2>7 DEF LazyParts
    <2> QED
      BY <2>1, <2>8, LazyFromParts
  <1>21. CASE ~(t > 0 /\ (t + take < BlockLen \/ R = <<>>))
    <2>1. PICK v, o : v = LazyUpdate(s, d, step) /\ o = Overwrite(b, 0, Y)
      OBVIOUS
    <2>2. o \in Seq(Bytes) /\ Len(o) = BlockLen /\ Leading(o, Len(Y)) = Y
      <3>1. Fits(b, 0, Y, Len(Y))
        BY <1>14, <1>17 DEF Fits
      <3>4. b \in Seq(Bytes) /\ Y \in Seq(Bytes)
        BY <1>14, <1>17
      <3>2. Overwrites(o, b, 0, Y, Len(Y))
        BY <2>1, <3>1, <3>4, OverwriteFits
      <3>3. Leading(b, 0) = <<>>
        BY <1>14 DEF Leading
      <3> QED
        BY <1>14, <3>2, <3>3, <3>4, EmptyJoin DEF Overwrites
    <2>3. \E V, z, B : /\ V \in Seq(Bytes) /\ IsWhole(V, BlockLen, z) /\ V \o R = m \o d
                       /\ B = (IF t > 0 THEN <<b>> ELSE <<>>) /\ B \in Seq(Seq(Bytes))
                       /\ Cut(V, BlockLen) = C \o B /\ z = q + Len(B)
                       /\ (Len(R) = 0 => z = 0)
      <3>1. CASE t > 0
        <4>1. PICK K : K = T \o D
          OBVIOUS
        <4>7. t + take = BlockLen /\ R # <<>>
          BY <1>6, <1>8, <1>21, <3>1, Constants
        <4>2. K \in Seq(Bytes) /\ Len(K) = BlockLen
          <5>1. K \in Seq(Bytes) /\ Len(K) = Len(T) + Len(D)
            BY <1>3, <1>10, <4>1, JoinOf
          <5> QED
            BY <1>22, <1>10, <4>7, <5>1
        <4>3. b = K
          <5>1. Leading(b, Len(b)) = b
            BY <1>14 DEF Leading
          <5> QED
            BY <1>14, <4>1, <4>7, <5>1
        <4>4. Cut(K, BlockLen) = <<b>>
          BY <4>2, <4>3, CutOne, Constants
        <4>5. IsWhole(K, BlockLen, 1)
          BY <4>2, Constants DEF IsWhole
        <4>6. W \o K \in Seq(Bytes) /\ IsWhole(W \o K, BlockLen, q + 1) /\ Cut(W \o K, BlockLen) = C \o <<b>>
          <5>1. Grown(W, K, BlockLen, q + 1)
            BY <1>3, <4>2, <4>5, ChainGrows
          <5>2. Cut(W \o K, BlockLen) = Cut(W, BlockLen) \o Cut(K, BlockLen)
            <6>1. CutsApart(W, K, BlockLen)
              BY <1>3, <4>2, <4>5, CutJoin
            <6> QED
              BY <6>1 DEF CutsApart
          <5> QED
            BY <1>23, <4>4, <5>1, <5>2 DEF Grown
        <4>8. (W \o K) \o R = m \o d
          <5>1. Associate(W, T, D)
            BY <1>3, <1>10, Associates
          <5>2. Associate(m, D, R)
            BY <1>10, <1>11, Associates
          <5> QED
            BY <1>3, <1>12, <4>1, <5>1, <5>2 DEF Associate
        <4>9. Len(R) # 0
          BY <1>11, <4>7
        <4>10. <<b>> \in Seq(Seq(Bytes)) /\ Len(<<b>>) = 1
          BY <1>14
        <4>11. <<b>> = IF t > 0 THEN <<b>> ELSE <<>>
          BY <3>1
        <4> QED
          BY <4>6, <4>8, <4>9, <4>10, <4>11
      <3>2. CASE ~(t > 0)
        <4>1. t = 0 /\ T = <<>> /\ take = 0 /\ D = <<>> /\ q = 0
          BY <1>3, <1>6, <1>22, <1>7, <1>10, <3>2
        <4>2. m = W /\ R = d
          BY <1>3, <1>11, <1>12, <4>1, EmptyJoin
        <4>3. C \o <<>> = C
          BY <1>25, EmptyJoin
        <4>4. <<>> \in Seq(Seq(Bytes)) /\ Len(<<>>) = 0 /\ q = q + 0
          BY <4>1
        <4>5. <<>> = IF t > 0 THEN <<b>> ELSE <<>>
          BY <3>2
        <4> QED
          BY <1>3, <1>23, <4>1, <4>2, <4>3, <4>4, <4>5
      <3> QED
        BY <3>1, <3>2
    <2>4. PICK V, z, B : /\ V \in Seq(Bytes) /\ IsWhole(V, BlockLen, z) /\ V \o R = m \o d
                         /\ B = (IF t > 0 THEN <<b>> ELSE <<>>) /\ B \in Seq(Seq(Bytes))
                         /\ Cut(V, BlockLen) = C \o B /\ z = q + Len(B)
                         /\ (Len(R) = 0 => z = 0)
      BY <2>3
    <2>5. PICK E, N, A : E = Cut(X, BlockLen) /\ N = V \o X /\ A = C \o B
      OBVIOUS
    <2>6. E \in Seq(Seq(Bytes)) /\ Len(E) = p /\ p \in Nat
      <3>1. X \in Seq(Bytes) /\ IsWhole(X, BlockLen, p)
        BY <1>17
      <3>2. Cut(X, BlockLen) \in Seq(Seq(Bytes)) /\ Len(Cut(X, BlockLen)) = p
        BY <3>1, CutOf
      <3> QED
        BY <2>5, <3>1, <3>2 DEF IsWhole
    <2>7. bs = B \o E
      BY <1>27, <2>4, <2>5
    <2>8. N \in Seq(Bytes) /\ IsWhole(N, BlockLen, z + p)
      <3>1. Grown(V, X, BlockLen, z + p)
        BY <1>17, <2>4, ChainGrows
      <3> QED
        BY <2>5, <3>1 DEF Grown
    <2>9. Cut(N, BlockLen) = C \o bs
      <3>1. Cut(N, BlockLen) = Cut(V, BlockLen) \o E
        <4>1. V \in Seq(Bytes) /\ IsWhole(V, BlockLen, z) /\ X \in Seq(Bytes) /\ IsWhole(X, BlockLen, p)
          BY <1>17, <2>4
        <4>2. Cut(V \o X, BlockLen) = Cut(V, BlockLen) \o Cut(X, BlockLen)
          <5>1. CutsApart(V, X, BlockLen)
            BY <4>1, CutJoin
          <5> QED
            BY <5>1 DEF CutsApart
        <4> QED
          BY <2>5, <4>2
      <3>2. Associate(C, B, E)
        BY <1>26, <2>4, <2>6, Associates
      <3> QED
        BY <2>4, <2>7, <3>1, <3>2 DEF Associate
    <2>10. bs \in Seq(Seq(Bytes)) /\ Len(bs) = Len(B) + p
      BY <2>4, <2>6, <2>7, JoinOf, SMTT(30)
    <2>11. CountsOn(C, bs, step)
      BY <1>26, <2>10, CountedJoin
    <2>12. Counted(Cut(N, BlockLen), 0, step) = c \o Counted(bs, f, step)
      BY <1>23, <1>25, <2>9, <2>11 DEF CountsOn
    <2>13. (z + p) * step = f + Len(bs) * step
      <3>1. PICK y \in Nat : y = Len(bs)
        BY <2>10
      <3>2. z + p = q + y
        BY <1>24, <2>4, <2>6, <2>10, <3>1
      <3>3. step * (q + y) = step * q + step * y
        BY <1>24, TimesSum
      <3>4. step * q = q * step /\ step * y = y * step /\ step * (q + y) = (q + y) * step
        BY <1>24
      <3> QED
        BY <1>23, <3>1, <3>2, <3>3, <3>4
    <2>14. N \o Y = m \o d
      <3>1. Associate(V, X, Y)
        BY <1>17, <2>4, Associates
      <3> QED
        BY <1>17, <2>4, <2>5, <3>1 DEF Associate
    <2>15. Waits(m \o d, z + p, N, Y)
      <3>1. Len(Y) = 0 => z + p = 0
        <4>1. HAVE Len(Y) = 0
        <4>2. p = 0 /\ Y = <<>> /\ Len(X) = 0
          BY <1>17, <4>1, Constants DEF IsWhole
        <4>3. Len(R) = Len(X) + Len(Y)
          BY <1>17, JoinOf
        <4>4. z = 0
          BY <2>4, <4>1, <4>2, <4>3
        <4> QED
          BY <4>2, <4>4
      <3> QED
        BY <1>17, <2>8, <2>14, <3>1 DEF Waits
    <2>16. v = [h |-> Counted(Cut(N, BlockLen), 0, step), buf |-> o, buffered |-> Len(Y), len |-> (z + p) * step]
      BY <1>18, <1>21, <2>1, <2>12, <2>13
    <2>17. v.buf = o
      BY <2>16
    <2>18. LazyParts(v, m \o d, step, z + p, N, Y)
      BY <2>2, <2>15, <2>16, <2>17 DEF LazyParts
    <2> QED
      BY <2>1, <2>18, LazyFromParts
  <1> QED
    BY <1>20, <1>21

LEMMA LazyFresh ==
    ASSUME NEW step \in Nat
    PROVE  LazyHolds(Fresh(BlockLen), <<>>, step)
  <1>1. PICK z : z = Zeros(BlockLen) /\ z \in Seq(Bytes) /\ Len(z) = BlockLen
    BY ZerosOf, Constants
  <1>2. Cut(<<>>, BlockLen) = <<>>
    BY CutNone, Constants
  <1>3. Counted(<<>>, 0, step) = <<>>
    BY DEF Counted
  <1>4. Leading(z, 0) = <<>>
    BY <1>1 DEF Leading
  <1>5. Waits(<<>>, 0, <<>>, <<>>)
    <2>1. <<>> \in Seq(Bytes) /\ Len(<<>>) = 0 /\ <<>> \o <<>> = <<>>
      BY EmptyJoin
    <2> QED
      BY <2>1, Constants DEF Waits, IsWhole
  <1>6. Fresh(BlockLen) = [h |-> <<>>, buf |-> z, buffered |-> 0, len |-> 0] /\ 0 * step = 0
    BY <1>1 DEF Fresh
  <1>7. LazyParts(Fresh(BlockLen), <<>>, step, 0, <<>>, <<>>)
    BY <1>1, <1>2, <1>3, <1>4, <1>5, <1>6 DEF LazyParts
  <1> QED
    BY <1>7, LazyFromParts

\* The last block filled up with zeros.
LastBlock(T) == T \o Zeros(BlockLen - Len(T))

LEMMA LastBlockOf ==
    ASSUME NEW T \in Seq(Bytes), Len(T) <= BlockLen
    PROVE  LastBlock(T) \in Seq(Bytes) /\ Len(LastBlock(T)) = BlockLen
  <1>1. PICK t \in Nat, k \in Nat : t = Len(T) /\ k = BlockLen - t
    <2>1. BlockLen - Len(T) \in Nat
      BY Constants
    <2> QED
      BY <2>1
  <1>2. PICK z : z = Zeros(k) /\ z \in Seq(Bytes) /\ Len(z) = k
    BY ZerosOf
  <1>3. T \o z \in Seq(Bytes) /\ Len(T \o z) = Len(T) + Len(z)
    BY <1>2, JoinOf
  <1>4. Len(T) + Len(z) = BlockLen
    BY <1>1, <1>2, Constants
  <1> QED
    BY <1>1, <1>2, <1>3, <1>4 DEF LastBlock

Filled(m) == IF m = <<>> THEN Zeros(BlockLen) ELSE ZeroPadded(m, BlockLen)

LEMMA FilledIs ==
    ASSUME NEW m, NEW q, NEW W, NEW T, Waits(m, q, W, T)
    PROVE  Filled(m) = W \o LastBlock(T)
  <1>1. /\ W \in Seq(Bytes) /\ T \in Seq(Bytes) /\ m = W \o T
        /\ q \in Nat /\ Len(W) = BlockLen * q /\ Len(T) <= BlockLen /\ (Len(T) = 0 => q = 0)
    BY DEF Waits, IsWhole
  <1>2. m \in Seq(Bytes) /\ Len(m) = Len(W) + Len(T)
    BY <1>1, JoinOf
  <1>3. CASE Len(T) = 0
    <2>1. T = <<>> /\ q = 0
      BY <1>1, <1>3
    <2>2. Len(W) = 0
      BY <1>1, <2>1, Constants
    <2>3. W = <<>>
      BY <1>1, <2>2
    <2>4. PICK z : z = Zeros(BlockLen) /\ z \in Seq(Bytes)
      BY Constants, ZerosOf
    <2>5. m = <<>>
      BY <1>1, <2>1, <2>3, EmptyJoin
    <2>6. BlockLen - Len(T) = BlockLen
      BY <1>3, Constants
    <2>7. <<>> \o (<<>> \o z) = z
      BY <2>4, EmptyJoin
    <2> QED
      BY <2>1, <2>3, <2>4, <2>5, <2>6, <2>7 DEF Filled, LastBlock
  <1>4. CASE Len(T) # 0
    <2>1. PICK n \in Nat, w \in Nat, t \in Nat : n = Len(m) /\ w = Len(W) /\ t = Len(T)
      <3>1. Len(m) \in Nat /\ Len(W) \in Nat /\ Len(T) \in Nat
        BY <1>1, <1>2
      <3> QED
        BY <3>1
    <2>2. n = w + t /\ w = BlockLen * q /\ t <= BlockLen /\ t > 0
      BY <1>1, <1>2, <1>4, <2>1
    <2>3. (BlockLen - (n % BlockLen)) % BlockLen = BlockLen - t
      <3>1. CASE t < BlockLen
        <4>1. n = BlockLen * q + t
          BY <2>2
        <4>2. n % BlockLen = t
          BY <1>1, <3>1, <4>1, DivModIs, Constants
        <4>3. PICK k \in Nat : k = BlockLen - t /\ k < BlockLen
          <5>1. BlockLen - t \in Nat /\ BlockLen - t < BlockLen
            BY <2>2, Constants
          <5> QED
            BY <5>1
        <4>4. k = BlockLen * 0 + k
          BY Constants
        <4>5. k % BlockLen = k
          BY <4>3, <4>4, DivModIs, Constants
        <4> QED
          BY <4>2, <4>3, <4>5
      <3>2. CASE t = BlockLen
        <4>1. BlockLen * (q + 1) = BlockLen * q + BlockLen
          BY <1>1, Constants, TimesStep
        <4>2. PICK p \in Nat : p = q + 1
          BY <1>1
        <4>3. n = BlockLen * p + 0
          BY <2>2, <3>2, <4>1, <4>2
        <4>4. n % BlockLen = 0
          BY <4>3, DivModIs, Constants
        <4>5. BlockLen = BlockLen * 1 + 0
          BY Constants
        <4>6. BlockLen % BlockLen = 0
          BY <4>5, DivModIs, Constants
        <4>7. BlockLen - 0 = BlockLen /\ BlockLen - BlockLen = 0
          BY Constants
        <4> QED
          BY <3>2, <4>4, <4>6, <4>7
      <3> QED
        BY <2>2, <3>1, <3>2, Constants
    <2>4. m # <<>>
      <3>1. n = w + t /\ t > 0
        BY <2>2
      <3>2. n # 0
        BY <3>1
      <3>3. Len(<<>>) = 0
        OBVIOUS
      <3> QED
        BY <2>1, <3>2, <3>3
    <2>5. PICK z : z = Zeros(BlockLen - t)
      OBVIOUS
    <2>6. z \in Seq(Bytes)
      <3>1. BlockLen - t \in Nat
        BY <2>2, Constants
      <3> QED
        BY <2>5, <3>1, ZerosOf
    <2>7. Filled(m) = m \o z
      BY <2>1, <2>3, <2>4, <2>5 DEF Filled, ZeroPadded
    <2>8. Associate(W, T, z)
      BY <1>1, <2>6, Associates
    <2> QED
      BY <1>1, <2>1, <2>5, <2>7, <2>8 DEF LastBlock, Associate
  <1> QED
    BY <1>3, <1>4

\* The blocks of a message that is filled up, the last apart.
FilledBlocks(m, q, C, L) ==
    /\ Cut(Filled(m), BlockLen) = C \o <<L>> /\ C \in Seq(Seq(Bytes)) /\ Len(C) = q /\ q \in Nat
    /\ Len(Cut(Filled(m), BlockLen)) = q + 1
    /\ \A b \in 1..q : Cut(Filled(m), BlockLen)[b] = C[b]
    /\ Cut(Filled(m), BlockLen)[q + 1] = L /\ L \in Seq(Bytes)

LEMMA FilledBlocksAre ==
    ASSUME NEW m, NEW q, NEW W, NEW T, Waits(m, q, W, T)
    PROVE  FilledBlocks(m, q, Cut(W, BlockLen), LastBlock(T))
  <1>1. /\ W \in Seq(Bytes) /\ T \in Seq(Bytes) /\ IsWhole(W, BlockLen, q) /\ Len(T) <= BlockLen
    BY DEF Waits
  <1>2. PICK L, C, F, j : /\ L = LastBlock(T) /\ C = Cut(W, BlockLen) /\ F = Filled(m)
                          /\ j = Cut(F, BlockLen)
    OBVIOUS
  <1>3. L \in Seq(Bytes) /\ Len(L) = BlockLen
    BY <1>1, <1>2, LastBlockOf
  <1>4. IsWhole(L, BlockLen, 1)
    BY <1>3, Constants DEF IsWhole
  <1>5. F = W \o L
    BY <1>2, FilledIs
  <1>6. j = C \o <<L>>
    <2>1. Cut(W \o L, BlockLen) = Cut(W, BlockLen) \o Cut(L, BlockLen)
      <3>1. CutsApart(W, L, BlockLen)
        BY <1>1, <1>3, <1>4, CutJoin
      <3> QED
        BY <3>1 DEF CutsApart
    <2>2. Cut(L, BlockLen) = <<L>>
      BY <1>3, CutOne, Constants
    <2> QED
      BY <1>2, <1>5, <2>1, <2>2
  <1>7. C \in Seq(Seq(Bytes)) /\ Len(C) = q /\ q \in Nat
    <2>1. Cut(W, BlockLen) \in Seq(Seq(Bytes)) /\ Len(Cut(W, BlockLen)) = q
      BY <1>1, CutOf
    <2> QED
      BY <1>1, <1>2, <2>1 DEF IsWhole
  <1>8. PICK l : l = <<L>>
    OBVIOUS
  <1>9. l \in Seq(Seq(Bytes)) /\ Len(l) = 1 /\ l[1] = L /\ C \in Seq(Seq(Bytes))
    BY <1>3, <1>7, <1>8
  <1>10. /\ Len(j) = Len(C) + Len(l)
         /\ \A i \in 1..(Len(C) + Len(l)) : j[i] = IF i <= Len(C) THEN C[i] ELSE l[i - Len(C)]
    BY <1>6, <1>8, <1>9, JoinOf
  <1>11. Len(j) = q + 1 /\ (\A b \in 1..q : j[b] = C[b]) /\ j[q + 1] = L
    BY <1>7, <1>9, <1>10
  <1> QED
    BY <1>2, <1>3, <1>6, <1>7, <1>11 DEF FilledBlocks

\* The counter of a block, and of the last.
LEMMA CounterOf ==
    ASSUME NEW m, NEW q, NEW W, NEW T, Waits(m, q, W, T)
    PROVE  /\ \A b \in 1..q : Fewer(b * BlockLen, Len(m)) = b * BlockLen
           /\ Fewer((q + 1) * BlockLen, Len(m)) = Len(m)
           /\ Len(m) = q * BlockLen + Len(T)
  <1>1. /\ W \in Seq(Bytes) /\ T \in Seq(Bytes) /\ m = W \o T
        /\ q \in Nat /\ Len(W) = BlockLen * q /\ Len(T) <= BlockLen
    BY DEF Waits, IsWhole
  <1>2. m \in Seq(Bytes) /\ Len(m) = Len(W) + Len(T)
    BY <1>1, JoinOf
  <1>3. PICK n \in Nat, w \in Nat, t \in Nat : n = Len(m) /\ w = Len(W) /\ t = Len(T)
    <2>1. Len(m) \in Nat /\ Len(W) \in Nat /\ Len(T) \in Nat
      BY <1>1, <1>2
    <2> QED
      BY <2>1
  <1>4. n = w + t /\ w = BlockLen * q /\ t <= BlockLen
    BY <1>1, <1>2, <1>3
  <1>5. ASSUME NEW b \in 1..q PROVE Fewer(b * BlockLen, n) = b * BlockLen
    <2>1. PICK g \in Nat : g = (b - 1) * BlockLen /\ b * BlockLen = g + BlockLen /\ g + BlockLen <= BlockLen * q
      BY <1>1, BlockBounds, Constants
    <2> QED
      BY <1>4, <2>1, Constants DEF Fewer
  <1>6. (q + 1) * BlockLen = w + BlockLen /\ q * BlockLen = w
    <2>1. BlockLen * (q + 1) = BlockLen * q + BlockLen
      BY <1>1, Constants, TimesStep
    <2> QED
      BY <1>1, <1>4, <2>1, Constants
  <1>7. Fewer((q + 1) * BlockLen, n) = n
    BY <1>4, <1>6, Constants DEF Fewer
  <1> QED
    BY <1>3, <1>4, <1>5, <1>6, <1>7

Appended(a, c, x, q) ==
    a = [b \in 1..(q + 1) |-> a[b]] /\ a[q + 1] = x /\ \A b \in 1..q : a[b] = c[b]

LEMMA AppendOf ==
    ASSUME NEW S, NEW c \in Seq(S), NEW x \in S, NEW q \in Nat, Len(c) = q
    PROVE  Appended(Append(c, x), c, x, q)
  <1>1. PICK a : a = Append(c, x)
    OBVIOUS
  <1>3. a \in Seq(S) /\ Len(a) = q + 1
    BY <1>1
  <1>4. a = [b \in 1..(q + 1) |-> a[b]]
    BY <1>3
  <1>5. a[q + 1] = x /\ \A b \in 1..q : a[b] = c[b]
    BY <1>1
  <1>2. a = [b \in 1..(q + 1) |-> a[b]] /\ a[q + 1] = x /\ \A b \in 1..q : a[b] = c[b]
    BY <1>4, <1>5
  <1> QED
    BY <1>1, <1>2 DEF Appended

LEMMA Blake2Ends ==
    ASSUME NEW s, NEW m \in Seq(Bytes), LazyHolds(s, m, BlockLen)
    PROVE  Blake2Finalize(s) = Blake2Blocks(m)
  <1>1. PICK q, W, T : LazyParts(s, m, BlockLen, q, W, T)
    BY LazyToParts
  <1>2. /\ Waits(m, q, W, T) /\ Leading(s.buf, Len(T)) = T
        /\ s = [h |-> Counted(Cut(W, BlockLen), 0, BlockLen), buf |-> s.buf, buffered |-> Len(T),
                len |-> q * BlockLen]
    BY <1>1 DEF LazyParts
  <1>3. PICK C, c, L, j, n : /\ C = Cut(W, BlockLen) /\ c = Counted(C, 0, BlockLen) /\ L = LastBlock(T)
                             /\ j = Cut(Filled(m), BlockLen) /\ n = Len(m)
    OBVIOUS
  <1>4. /\ C \in Seq(Seq(Bytes)) /\ Len(C) = q /\ q \in Nat /\ Len(j) = q + 1
        /\ (\A b \in 1..q : j[b] = C[b]) /\ j[q + 1] = L /\ L \in Seq(Bytes)
    <2>1. FilledBlocks(m, q, C, L)
      BY <1>2, <1>3, FilledBlocksAre
    <2> QED
      BY <1>3, <2>1 DEF FilledBlocks
  <1>5. /\ \A b \in 1..q : Fewer(b * BlockLen, n) = b * BlockLen
        /\ Fewer((q + 1) * BlockLen, n) = n
        /\ n = q * BlockLen + Len(T)
    BY <1>2, <1>3, CounterOf
  <1>6. C \in Seq(Seq(Bytes)) /\ BlockLen \in Nat
    BY <1>4, Constants
  <1>7. c \in Chain /\ Len(c) = q /\ \A b \in 1..q : c[b] = Compressed(C[b], 0 + b * BlockLen, "none")
    <2>1. /\ c \in Chain /\ Len(c) = Len(C)
          /\ \A b \in 1..Len(C) : c[b] = Compressed(C[b], 0 + b * BlockLen, "none")
      BY <1>3, <1>6, CountedOf
    <2> QED
      BY <1>4, <2>1
  <1>8. Blake2Finalize(s) = Append(c, Compressed(L, n, "last"))
    <2>1. s.h = c /\ s.buffered = Len(T) /\ Leading(s.buf, s.buffered) = T /\ s.len = q * BlockLen
      BY <1>2, <1>3
    <2> QED
      BY <1>3, <1>5, <2>1 DEF Blake2Finalize, LastBlock
  <1>9. PICK B : B = [b \in 1..(q + 1) |-> Compressed(j[b], Fewer(b * BlockLen, n), IF b = q + 1 THEN "last" ELSE "none")]
    OBVIOUS
  <1>10. B = Blake2Blocks(m)
    BY <1>3, <1>4, <1>9 DEF Blake2Blocks, MarkedBlocks, Filled
  <1>11. PICK a : a = Append(c, Compressed(L, n, "last"))
    OBVIOUS
  <1>12. /\ a = [b \in 1..(q + 1) |-> a[b]] /\ a[q + 1] = Compressed(L, n, "last")
         /\ \A b \in 1..q : a[b] = c[b]
    <2>1. c \in Seq(Links) /\ q \in Nat /\ Len(c) = q
      BY <1>4, <1>7 DEF Chain
    <2>3. Compressed(L, n, "last") \in Links
      <3>1. n \in Int
        BY <1>3
      <3> QED
        BY <1>4, <3>1, CompressedLink
    <2>2. Appended(a, c, Compressed(L, n, "last"), q)
      BY <1>11, <2>1, <2>3, AppendOf
    <2> QED
      BY <2>2 DEF Appended
  <1>13. ASSUME NEW b \in 1..(q + 1) PROVE a[b] = B[b]
    <2>1. CASE b \in 1..q
      <3>1. B[b] = Compressed(C[b], b * BlockLen, "none")
        BY <1>4, <1>5, <1>9, <2>1
      <3>2. a[b] = Compressed(C[b], 0 + b * BlockLen, "none")
        BY <1>7, <1>12, <2>1
      <3>3. 0 + b * BlockLen = b * BlockLen
        BY <1>6
      <3> QED
        BY <3>1, <3>2, <3>3
    <2>2. CASE b = q + 1
      BY <1>4, <1>5, <1>9, <1>12, <2>2
    <2> QED
      BY <1>4, <2>1, <2>2
  <1>14. a = B
    <2>1. B = [b \in 1..(q + 1) |-> B[b]]
      BY <1>9
    <2> QED
      BY <1>12, <1>13, <2>1
  <1> QED
    BY <1>8, <1>10, <1>11, <1>14

\* CMAC: a whole last block as it is, a shorter one with the bit that ends it.
CmacMessage(m) == IF Len(m) > 0 /\ Len(m) % BlockLen = 0 THEN m ELSE Append(m, Pad80)
CmacMark(m) == IF Len(m) > 0 /\ Len(m) % BlockLen = 0 THEN "K1" ELSE "K2"
CmacEnd(g, t) == IF t = BlockLen THEN g ELSE FirstPadded(g, t)

LEMMA CmacMessageOf ==
    ASSUME NEW m, NEW q, NEW W, NEW T, Waits(m, q, W, T),
           NEW g \in Seq(Bytes), Len(g) = BlockLen, Leading(g, Len(T)) = T
    PROVE  \E U : /\ Waits(CmacMessage(m), q, W, U)
                  /\ LastBlock(U) = CmacEnd(g, Len(T))
                  /\ CmacMark(m) = IF Len(T) = BlockLen THEN "K1" ELSE "K2"
  <1>1. /\ W \in Seq(Bytes) /\ T \in Seq(Bytes) /\ m = W \o T
        /\ IsWhole(W, BlockLen, q) /\ Len(T) <= BlockLen /\ (Len(T) = 0 => q = 0)
    BY DEF Waits
  <1>2. m \in Seq(Bytes) /\ Len(m) = Len(W) + Len(T)
    BY <1>1, JoinOf
  <1>3. PICK n \in Nat, w \in Nat, t \in Nat : n = Len(m) /\ w = Len(W) /\ t = Len(T)
    <2>1. Len(m) \in Nat /\ Len(W) \in Nat /\ Len(T) \in Nat
      BY <1>1, <1>2
    <2> QED
      BY <2>1
  <1>4. q \in Nat /\ n = w + t /\ w = BlockLen * q /\ t <= BlockLen /\ (t = 0 => q = 0)
    BY <1>1, <1>2, <1>3 DEF IsWhole
  <1>5. CASE t = BlockLen
    <2>1. n > 0 /\ n % BlockLen = 0
      <3>1. BlockLen * (q + 1) = BlockLen * q + BlockLen
        BY <1>4, Constants, TimesStep
      <3>2. PICK p \in Nat : p = q + 1
        BY <1>4
      <3>3. n = BlockLen * p + 0
        BY <1>4, <1>5, <3>1, <3>2, Constants
      <3>4. n % BlockLen = 0
        BY <3>3, DivModIs, Constants
      <3> QED
        BY <1>4, <1>5, <3>4, Constants
    <2>2. CmacMessage(m) = m /\ CmacMark(m) = "K1"
      BY <1>3, <2>1 DEF CmacMessage, CmacMark
    <2>3. g = T
      <3>1. Leading(g, Len(g)) = g
        BY DEF Leading
      <3> QED
        BY <1>3, <1>5, <3>1
    <2>4. LastBlock(T) = T
      <3>1. BlockLen - Len(T) = 0
        BY <1>3, <1>5
      <3>2. Zeros(0) = <<>>
        BY DEF Zeros
      <3> QED
        BY <1>1, <3>1, <3>2, EmptyJoin DEF LastBlock
    <2> QED
      BY <1>3, <1>5, <2>2, <2>3, <2>4 DEF CmacEnd
  <1>6. CASE t < BlockLen
    <2>1. ~(n > 0 /\ n % BlockLen = 0)
      <3>1. n % BlockLen = t
        BY <1>4, <1>6, DivModIs, Constants
      <3>2. t = 0 => n = 0
        <4>1. HAVE t = 0
        <4>2. w = 0
          BY <1>4, <4>1, Constants
        <4> QED
          BY <1>4, <4>1, <4>2
      <3> QED
        BY <3>1, <3>2
    <2>2. CmacMessage(m) = Append(m, Pad80) /\ CmacMark(m) = "K2"
      BY <1>3, <2>1 DEF CmacMessage, CmacMark
    <2>3. PICK P, U : P = <<Pad80>> /\ U = T \o P
      OBVIOUS
    <2>4. P \in Seq(Bytes) /\ Len(P) = 1 /\ P[1] = Pad80
      BY <2>3 DEF Pad80, Bytes
    <2>5. Append(m, Pad80) = m \o P
      BY <1>2, <2>3
    <2>6. P \in Seq(Bytes)
      BY <2>4
    <2>7. /\ U \in Seq(Bytes) /\ Len(U) = Len(T) + Len(P)
          /\ \A i \in 1..(Len(T) + Len(P)) : U[i] = IF i <= Len(T) THEN T[i] ELSE P[i - Len(T)]
      BY <1>1, <2>3, <2>6, JoinOf
    <2>8. Associate(W, T, P)
      BY <1>1, <2>6, Associates
    <2>9. CmacMessage(m) = W \o U
      BY <1>1, <2>2, <2>3, <2>5, <2>8 DEF Associate
    <2>10. Len(U) = t + 1 /\ Len(U) <= BlockLen /\ Len(U) # 0
      BY <1>3, <1>6, <2>4, <2>7, Constants
    <2>11. Waits(CmacMessage(m), q, W, U)
      BY <1>1, <2>7, <2>9, <2>10 DEF Waits
    <2>12. LastBlock(U) = FirstPadded(g, t)
      <3>1. PICK z, k, j, f : /\ z = Zeros(BlockLen - Len(U)) /\ j = U \o z /\ f = FirstPadded(g, t)
                              /\ k = BlockLen - (t + 1)
        OBVIOUS
      <3>2. k \in Nat
        BY <1>6, <3>1, Constants
      <3>3. z \in Seq(Bytes) /\ Len(z) = k /\ \A i \in 1..k : z[i] = 0
        <4>1. z = Zeros(k)
          BY <2>10, <3>1
        <4> QED
          BY <3>2, <4>1, ZerosOf
      <3>4. U \in Seq(Bytes) /\ z \in Seq(Bytes)
        BY <2>7, <3>3
      <3>5. /\ j \in Seq(Bytes) /\ Len(j) = Len(U) + Len(z)
            /\ \A i \in 1..(Len(U) + Len(z)) : j[i] = IF i <= Len(U) THEN U[i] ELSE z[i - Len(U)]
        BY <3>1, <3>4, JoinOf
      <3>6. PadBegins(f, g, t)
        BY <3>1, FirstPaddedOf
      <3>7. /\ f \in Seq(Bytes) /\ Len(f) = BlockLen
            /\ \A i \in 1..BlockLen : f[i] = IF i <= t THEN g[i] ELSE IF i = t + 1 THEN Pad80 ELSE 0
        BY <3>6 DEF PadBegins
      <3>8. \A i \in 1..t : T[i] = g[i]
        <4>1. t <= Len(g)
          BY <1>6
        <4>2. \A i \in 1..t : Leading(g, t)[i] = g[i]
          BY <4>1, LeadingOf
        <4> QED
          BY <1>3, <4>2
      <3>9. Len(j) = BlockLen
        BY <2>10, <3>1, <3>2, <3>3, <3>5, Constants
      <3>10. ASSUME NEW i \in 1..BlockLen PROVE j[i] = f[i]
        <4>1. CASE i <= t
          <5>1. j[i] = U[i] /\ U[i] = T[i]
            BY <1>3, <2>4, <2>7, <2>10, <3>3, <3>5, <3>9, <4>1, SMTT(30)
          <5> QED
            BY <3>7, <3>8, <4>1, <5>1
        <4>2. CASE i = t + 1
          <5>1. j[i] = U[i] /\ U[i] = P[1]
            BY <1>3, <2>4, <2>7, <2>10, <3>3, <3>5, <3>9, <4>2, SMTT(30)
          <5> QED
            BY <2>4, <3>7, <4>2, <5>1
        <4>3. CASE i > t + 1
          <5>1. PICK d \in 1..k : d = i - (t + 1)
            BY <1>6, <3>1, <4>3, Constants
          <5>2. j[i] = z[d]
            BY <2>10, <3>3, <3>5, <3>9, <4>3, <5>1
          <5>3. f[i] = 0
            BY <3>7, <4>3
          <5> QED
            BY <3>3, <5>1, <5>2, <5>3
        <4> QED
          BY <4>1, <4>2, <4>3, Constants
      <3>11. j = f
        <4>1. j \in Seq(Bytes) /\ f \in Seq(Bytes) /\ Len(j) = Len(f)
          BY <3>5, <3>7, <3>9
        <4>2. \A i \in 1..Len(j) : j[i] = f[i]
          BY <3>9, <3>10
        <4> QED
          BY <4>1, <4>2, SameSequence
      <3> QED
        BY <3>1, <3>11 DEF LastBlock
    <2> QED
      BY <1>3, <1>6, <2>2, <2>11, <2>12 DEF CmacEnd
  <1> QED
    BY <1>4, <1>5, <1>6, Constants

LEMMA CmacEnds ==
    ASSUME NEW s, NEW n \in Nat, Message(n) \in Seq(Bytes), Len(Message(n)) = n, LazyHolds(s, Message(n), 0)
    PROVE  CmacFinalize(s) = CmacBlocks(n)
  <1>0. PICK m : m = Message(n) /\ m \in Seq(Bytes) /\ Len(m) = n
    OBVIOUS
  <1>1. PICK q, W, T : LazyParts(s, m, 0, q, W, T)
    BY <1>0, LazyToParts
  <1>2. /\ Waits(m, q, W, T) /\ Leading(s.buf, Len(T)) = T /\ s.buf \in Seq(Bytes) /\ Len(s.buf) = BlockLen
        /\ s = [h |-> Counted(Cut(W, BlockLen), 0, 0), buf |-> s.buf, buffered |-> Len(T), len |-> q * 0]
    BY <1>1 DEF LazyParts
  <1>3. PICK g : g = s.buf /\ g \in Seq(Bytes) /\ Len(g) = BlockLen /\ Leading(g, Len(T)) = T
    BY <1>2
  <1>4. PICK U : /\ Waits(CmacMessage(m), q, W, U) /\ LastBlock(U) = CmacEnd(g, Len(T))
                 /\ CmacMark(m) = IF Len(T) = BlockLen THEN "K1" ELSE "K2"
    BY <1>2, <1>3, CmacMessageOf
  <1>5. PICK C, c, L, M, j, k : /\ C = Cut(W, BlockLen) /\ c = Counted(C, 0, 0) /\ L = CmacEnd(g, Len(T))
                                /\ M = CmacMessage(m) /\ j = Cut(Filled(M), BlockLen) /\ k = CmacMark(m)
    OBVIOUS
  <1>6. /\ C \in Seq(Seq(Bytes)) /\ Len(C) = q /\ q \in Nat /\ Len(j) = q + 1
        /\ (\A b \in 1..q : j[b] = C[b]) /\ j[q + 1] = L /\ L \in Seq(Bytes)
    <2>1. FilledBlocks(M, q, C, L)
      BY <1>4, <1>5, FilledBlocksAre
    <2> QED
      BY <1>5, <2>1 DEF FilledBlocks
  <1>7. c \in Chain /\ Len(c) = q /\ \A b \in 1..q : c[b] = Compressed(C[b], 0 + b * 0, "none")
    <2>0. C \in Seq(Seq(Bytes))
      BY <1>6
    <2>1. /\ c \in Chain /\ Len(c) = Len(C)
          /\ \A b \in 1..Len(C) : c[b] = Compressed(C[b], 0 + b * 0, "none")
      BY <1>5, <2>0, CountedOf
    <2> QED
      BY <1>6, <2>1
  <1>8. CmacFinalize(s) = Append(c, Compressed(L, 0, k))
    <2>1. s.h = c /\ s.buffered = Len(T) /\ s.buf = g
      BY <1>2, <1>3, <1>5
    <2> QED
      BY <1>4, <1>5, <2>1 DEF CmacFinalize, CmacEnd, FirstPadded
  <1>9. PICK B : B = [b \in 1..(q + 1) |-> Compressed(j[b], 0, IF b = q + 1 THEN k ELSE "none")]
    OBVIOUS
  <1>10. B = CmacBlocks(n)
    <2>1. CmacBlocks(n) = [b \in 1..Len(j) |-> Compressed(j[b], 0, IF b = Len(j) THEN k ELSE "none")]
      BY <1>0, <1>5 DEF CmacBlocks, MarkedBlocks, Filled, CmacMessage, CmacMark
    <2> QED
      BY <1>6, <1>9, <2>1
  <1>11. PICK a : a = Append(c, Compressed(L, 0, k))
    OBVIOUS
  <1>12. /\ a = [b \in 1..(q + 1) |-> a[b]] /\ a[q + 1] = Compressed(L, 0, k)
         /\ \A b \in 1..q : a[b] = c[b]
    <2>1. c \in Seq(Links) /\ q \in Nat /\ Len(c) = q
      BY <1>6, <1>7 DEF Chain
    <2>3. Compressed(L, 0, k) \in Links
      <3>1. k \in {"none", "last", "K1", "K2"}
        BY <1>5 DEF CmacMark
      <3> QED
        BY <1>6, <3>1, CompressedLink
    <2>2. Appended(a, c, Compressed(L, 0, k), q)
      BY <1>11, <2>1, <2>3, AppendOf
    <2> QED
      BY <2>2 DEF Appended
  <1>13. ASSUME NEW b \in 1..(q + 1) PROVE a[b] = B[b]
    <2>1. CASE b \in 1..q
      <3>1. 0 + b * 0 = 0
        BY <2>1
      <3>2. a[b] = Compressed(C[b], 0, "none")
        BY <1>7, <1>12, <2>1, <3>1
      <3> QED
        BY <1>6, <1>9, <2>1, <3>2
    <2>2. CASE b = q + 1
      BY <1>6, <1>9, <1>12, <2>2
    <2> QED
      BY <1>6, <2>1, <2>2
  <1>14. a = B
    <2>1. B = [b \in 1..(q + 1) |-> B[b]]
      BY <1>9
    <2> QED
      BY <1>12, <1>13, <2>1
  <1> QED
    BY <1>8, <1>10, <1>11, <1>14

-----------------------------------------------------------------------------
(* The sponge: what is absorbed, and the loop that absorbs it.              *)

LEMMA InductTo ==
    ASSUME NEW n \in Nat, NEW G, 0 \in G, \A j \in 0..n : j \in G /\ j < n => j + 1 \in G
    PROVE  n \in G
  <1> DEFINE T == {j \in 0..n : j \notin G}
  <1>1. T = {}
    <2> SUFFICES ASSUME T # {} PROVE FALSE
      OBVIOUS
    <2>5. T \subseteq Nat
      OBVIOUS
    <2>6. PICK U : U = T
      OBVIOUS
    <2>7. PICK j \in U : \A k \in U : j <= k
      BY <2>5, <2>6, LeastNat
    <2>1. j \in T /\ \A k \in T : j <= k
      BY <2>6, <2>7
    <2>2. j # 0 /\ j - 1 \in 0..n /\ ~(j <= j - 1)
      BY <2>1
    <2>3. j - 1 \in G
      BY <2>1, <2>2
    <2>4. j - 1 < n /\ (j - 1) + 1 = j
      BY <2>1
    <2> QED
      BY <2>1, <2>2, <2>3, <2>4
  <1> QED
    BY <1>1

\* One step of the lanes.
LaneRound(lens, step, w) ==
    [i \in DOMAIN lens |->
       IF step > LaneBlocks(lens[i]) THEN w[i]
       ELSE Permuted([w[i] EXCEPT !.buf = XorInto(@, 0, PaddedBlock(lens[i], step))])]

\* The bodies of the four loops, by name and by what else they read.
Round(loop, j, w) ==
    CASE loop.name = "absorb" -> SpongeAbsorbSome(w)
      [] loop.name = "squeeze" -> SqueezeSome(w)
      [] loop.name = "fill" -> FillInnerSome(w)
      [] loop.name = "lanes" -> LaneRound(loop.lens, j, w)

Loop(name) == [name |-> name, lens |-> <<>>]

RoundsAre(loop, s, n, f) == f = [j \in 0..n |-> IF j = 0 THEN s ELSE Round(loop, j, f[j - 1])]

LEMMA RoundsExist ==
    ASSUME NEW loop, NEW s, NEW n \in Nat
    PROVE  \E f : RoundsAre(loop, s, n, f)
  <1> DEFINE T == {c \in Nat : ~ \E f : RoundsAre(loop, s, c, f)}
  <1> SUFFICES ASSUME T # {} PROVE FALSE
    OBVIOUS
  <1>1. PICK c \in T : \A d \in T : c <= d
    BY LeastNat
  <1>2. CASE c = 0
    <2>1. RoundsAre(loop, s, 0, [j \in 0..0 |-> s])
      BY DEF RoundsAre
    <2> QED
      BY <1>1, <1>2, <2>1
  <1>3. CASE c # 0
    <2>1. c - 1 \in Nat /\ ~(c <= c - 1)
      BY <1>1, <1>3
    <2>2. PICK f : RoundsAre(loop, s, c - 1, f)
      BY <1>1, <2>1
    <2> DEFINE g == [j \in 0..c |-> IF j = c THEN Round(loop, c, f[c - 1]) ELSE f[j]]
    <2>3. ASSUME NEW b \in 0..c
          PROVE  g[b] = IF b = 0 THEN s ELSE Round(loop, b, g[b - 1])
      <3>1. \A j \in 0..(c - 1) : g[j] = f[j] /\ f[j] = IF j = 0 THEN s ELSE Round(loop, j, f[j - 1])
        BY <2>1, <2>2 DEF RoundsAre
      <3>2. CASE b = c
        BY <1>3, <2>1, <3>1, <3>2
      <3>3. CASE b # c
        <4>1. b \in 0..(c - 1) /\ (b # 0 => b - 1 \in 0..(c - 1))
          BY <2>1, <3>3
        <4> QED
          BY <3>1, <4>1
      <3> QED
        BY <3>2, <3>3
    <2>4. g = [j \in 0..c |-> IF j = 0 THEN s ELSE Round(loop, j, g[j - 1])]
      BY <2>3
    <2>5. RoundsAre(loop, s, c, g)
      BY <2>4 DEF RoundsAre
    <2> QED
      BY <1>1, <2>5
  <1> QED
    BY <1>2, <1>3

\* What is known of a run of a loop.
RunOf(loop, s, n, f) == f[0] = s /\ \A j \in 1..n : f[j] = Round(loop, j, f[j - 1])

LEMMA RunExists ==
    ASSUME NEW loop, NEW s, NEW n \in Nat, NEW f, f = CHOOSE g : RoundsAre(loop, s, n, g)
    PROVE  RunOf(loop, s, n, f)
  <1>1. RoundsAre(loop, s, n, f)
    BY RoundsExist
  <1>2. \A j \in 0..n : f[j] = IF j = 0 THEN s ELSE Round(loop, j, f[j - 1])
    BY <1>1 DEF RoundsAre
  <1> QED
    BY <1>2 DEF RunOf

LEMMA RoundsOfAbsorb ==
    ASSUME NEW s, NEW n \in Nat
    PROVE  \E f : RunOf(Loop("absorb"), s, n, f) /\ Rounds(SpongeAbsorbSome, s, n) = f[n]
  <1>1. \A j, w : Round(Loop("absorb"), j, w) = SpongeAbsorbSome(w)
    BY DEF Round, Loop
  <1>2. PICK f : f = CHOOSE g : RoundsAre(Loop("absorb"), s, n, g)
    OBVIOUS
  <1>3. Rounds(SpongeAbsorbSome, s, n) = f[n]
    <2>1. \A g : RoundsAre(Loop("absorb"), s, n, g)
                  <=> g = [j \in 0..n |-> IF j = 0 THEN s ELSE SpongeAbsorbSome(g[j - 1])]
      BY <1>1 DEF RoundsAre
    <2>2. f = CHOOSE g : g = [j \in 0..n |-> IF j = 0 THEN s ELSE SpongeAbsorbSome(g[j - 1])]
      BY <1>2, <2>1
    <2> QED
      BY <2>2 DEF Rounds
  <1> QED
    BY <1>2, <1>3, RunExists

LEMMA RoundsOfSqueeze ==
    ASSUME NEW s, NEW n \in Nat
    PROVE  \E f : RunOf(Loop("squeeze"), s, n, f) /\ Rounds(SqueezeSome, s, n) = f[n]
  <1>1. \A j, w : Round(Loop("squeeze"), j, w) = SqueezeSome(w)
    BY DEF Round, Loop
  <1>2. PICK f : f = CHOOSE g : RoundsAre(Loop("squeeze"), s, n, g)
    OBVIOUS
  <1>3. Rounds(SqueezeSome, s, n) = f[n]
    <2>1. \A g : RoundsAre(Loop("squeeze"), s, n, g)
                  <=> g = [j \in 0..n |-> IF j = 0 THEN s ELSE SqueezeSome(g[j - 1])]
      BY <1>1 DEF RoundsAre
    <2>2. f = CHOOSE g : g = [j \in 0..n |-> IF j = 0 THEN s ELSE SqueezeSome(g[j - 1])]
      BY <1>2, <2>1
    <2> QED
      BY <2>2 DEF Rounds
  <1> QED
    BY <1>2, <1>3, RunExists

LEMMA RoundsOfFill ==
    ASSUME NEW s, NEW n \in Nat
    PROVE  \E f : RunOf(Loop("fill"), s, n, f) /\ Rounds(FillInnerSome, s, n) = f[n]
  <1>1. \A j, w : Round(Loop("fill"), j, w) = FillInnerSome(w)
    BY DEF Round, Loop
  <1>2. PICK f : f = CHOOSE g : RoundsAre(Loop("fill"), s, n, g)
    OBVIOUS
  <1>3. Rounds(FillInnerSome, s, n) = f[n]
    <2>1. \A g : RoundsAre(Loop("fill"), s, n, g)
                  <=> g = [j \in 0..n |-> IF j = 0 THEN s ELSE FillInnerSome(g[j - 1])]
      BY <1>1 DEF RoundsAre
    <2>2. f = CHOOSE g : g = [j \in 0..n |-> IF j = 0 THEN s ELSE FillInnerSome(g[j - 1])]
      BY <1>2, <2>1
    <2> QED
      BY <2>2 DEF Rounds
  <1> QED
    BY <1>2, <1>3, RunExists

SpongeParts(s, m, q, W, T) ==
    /\ Splits(m, Rate, q, W, T)
    /\ s = [h |-> Plain(Cut(W, Rate)), buf |-> T \o Zeros(Rate - Len(T)), buffered |-> Len(T), len |-> 0]

LEMMA SpongeFromParts ==
    ASSUME NEW s, NEW m, NEW q, NEW W, NEW T, SpongeParts(s, m, q, W, T)
    PROVE  SpongeHolds(s, m)
  <1>1. /\ Splits(m, Rate, q, W, T)
        /\ s = [h |-> Plain(Cut(W, Rate)), buf |-> T \o Zeros(Rate - Len(T)), buffered |-> Len(T), len |-> 0]
    BY DEF SpongeParts
  <1>2. /\ Len(m) % Rate = Len(T) /\ Len(m) - (Len(m) % Rate) = Len(W)
        /\ Leading(m, Len(W)) = W /\ From(m, Len(W)) = T
    BY <1>1, SplitOnce
  <1> QED
    BY <1>1, <1>2 DEF SpongeHolds

LEMMA SpongeToParts ==
    ASSUME NEW s, NEW m \in Seq(Bytes), SpongeHolds(s, m)
    PROVE  \E q, W, T : SpongeParts(s, m, q, W, T)
  <1>1. PICK q, W, T : /\ q = Len(m) \div Rate /\ W = Leading(m, Len(m) - (Len(m) % Rate))
                       /\ T = From(m, Len(m) - (Len(m) % Rate))
    OBVIOUS
  <1>2. Splits(m, Rate, q, W, T)
    BY <1>1, SplitExists, Constants
  <1>3. Len(m) % Rate = Len(T)
    BY <1>2, SplitOnce
  <1> QED
    BY <1>1, <1>2, <1>3 DEF SpongeHolds, SpongeParts

\* Bytes xored into zeros are there, and zeros after them.
XorsIn(T, D, k) ==
    XorInto(T \o Zeros(Rate - Len(T)), Len(T), D) = (T \o D) \o Zeros(k)

LEMMA XorZero ==
    ASSUME NEW x
    PROVE  Xored(0, x) = x
  <1>1. {0, x} # {Pad80, PadEnd}
    <2>1. ASSUME {0, x} = {Pad80, PadEnd} PROVE FALSE
      <3>1. Pad80 \in {0, x} /\ PadEnd \in {0, x}
        BY <2>1
      <3>2. Pad80 # 0 /\ PadEnd # 0 /\ Pad80 # PadEnd
        BY DEF Pad80, PadEnd
      <3> QED
        BY <3>1, <3>2
    <2> QED
      BY <2>1
  <1>2. CASE x = 0
    BY <1>1, <1>2 DEF Xored, Zero
  <1>3. CASE x # 0
    BY <1>1, <1>3 DEF Xored, Zero
  <1> QED
    BY <1>2, <1>3

LEMMA XorInZeros ==
    ASSUME NEW T \in Seq(Bytes), NEW D \in Seq(Bytes), NEW k \in Nat, Len(T) + Len(D) + k = Rate
    PROVE  XorsIn(T, D, k)
  <1>1. PICK t \in Nat, d \in Nat, l \in Nat : t = Len(T) /\ d = Len(D) /\ l = Rate - t /\ t + d + k = Rate
    <2>1. Rate - Len(T) \in Nat
      BY Constants
    <2> QED
      BY <2>1
  <1>2. PICK y, z, o, b, v : /\ y = Zeros(l) /\ z = Zeros(k) /\ o = T \o D /\ b = T \o y /\ v = o \o z
    OBVIOUS
  <1>3. y \in Seq(Bytes) /\ Len(y) = l /\ \A i \in 1..l : y[i] = 0
    BY <1>2, ZerosOf
  <1>4. z \in Seq(Bytes) /\ Len(z) = k /\ \A i \in 1..k : z[i] = 0
    BY <1>2, ZerosOf
  <1>5. y \in Seq(Bytes) /\ z \in Seq(Bytes)
    BY <1>3, <1>4
  <1>6. /\ o \in Seq(Bytes) /\ Len(o) = Len(T) + Len(D)
        /\ \A i \in 1..(Len(T) + Len(D)) : o[i] = IF i <= Len(T) THEN T[i] ELSE D[i - Len(T)]
    BY <1>2, JoinOf
  <1>7. o \in Seq(Bytes)
    BY <1>6
  <1>8. /\ b \in Seq(Bytes) /\ Len(b) = Len(T) + Len(y)
        /\ \A i \in 1..(Len(T) + Len(y)) : b[i] = IF i <= Len(T) THEN T[i] ELSE y[i - Len(T)]
    BY <1>2, <1>5, JoinOf
  <1>9. /\ v \in Seq(Bytes) /\ Len(v) = Len(o) + Len(z)
        /\ \A i \in 1..(Len(o) + Len(z)) : v[i] = IF i <= Len(o) THEN o[i] ELSE z[i - Len(o)]
    BY <1>2, <1>5, <1>7, JoinOf, SMTT(30)
  <1>10. Len(b) = Rate /\ Len(v) = Rate /\ Len(o) = t + d
    <2>1. /\ Len(o) = Len(T) + Len(D) /\ Len(b) = Len(T) + Len(y) /\ Len(v) = Len(o) + Len(z)
          /\ Len(y) = l /\ Len(z) = k
      BY <1>3, <1>4, <1>6, <1>8, <1>9, Zenon
    <2>2. Rate \in Nat
      BY Constants
    <2> QED
      BY <1>1, <2>1, <2>2
  <1>11. PICK x : x = [i \in 1..Rate |-> IF i - t \in 1..d THEN Xored(b[i], D[i - t]) ELSE b[i]]
    OBVIOUS
  <1>12. x = XorInto(b, t, D)
    BY <1>1, <1>10, <1>11 DEF XorInto
  <1>15. \A i \in 1..Rate : i \in 1..(t + l) /\ i \in 1..(t + d + k)
    BY <1>1, Constants
  <1>16. \A i \in 1..(t + d) : o[i] = IF i <= t THEN T[i] ELSE D[i - t]
    BY <1>1, <1>6
  <1>17. \A i \in 1..(t + d + k) : v[i] = IF i <= t + d THEN o[i] ELSE z[i - (t + d)]
    BY <1>4, <1>9, <1>10
  <1>18. \A i \in 1..(t + l) : b[i] = IF i <= t THEN T[i] ELSE y[i - t]
    BY <1>1, <1>3, <1>8
  <1>13. ASSUME NEW i \in 1..Rate PROVE x[i] = v[i]
    <2>1. CASE i <= t
      <3>1. v[i] = o[i] /\ o[i] = T[i] /\ b[i] = T[i]
        <4>1. i <= t + d /\ i \in 1..(t + d)
          BY <1>1, <2>1
        <4> QED
          BY <1>15, <1>16, <1>17, <1>18, <2>1, <4>1
      <3>2. ~(i - t \in 1..d)
        BY <1>1, <2>1
      <3> QED
        BY <1>11, <3>1, <3>2
    <2>2. CASE i > t /\ i <= t + d
      <3>1. PICK e : e = i - t
        OBVIOUS
      <3>2. e \in 1..d /\ e \in 1..l /\ ~(i <= t) /\ i <= t + d
        BY <1>1, <2>2, <3>1
      <3>3. v[i] = o[i] /\ o[i] = D[e]
        <4>1. v[i] = o[i]
          BY <1>15, <1>17, <3>2
        <4>2. i \in 1..(t + d)
          BY <3>2
        <4> QED
          BY <1>16, <3>1, <3>2, <4>1, <4>2
      <3>4. b[i] = y[e] /\ y[e] = 0
        BY <1>3, <1>15, <1>18, <3>1, <3>2
      <3>5. Xored(0, D[e]) = D[e]
        BY XorZero
      <3>6. x[i] = Xored(b[i], D[e])
        BY <1>11, <3>1, <3>2
      <3> QED
        BY <3>3, <3>4, <3>5, <3>6
    <2>3. CASE i > t + d
      <3>1. PICK e, a : e = i - t /\ a = i - (t + d)
        OBVIOUS
      <3>2. a \in 1..k /\ e \in 1..l /\ ~(e \in 1..d) /\ ~(i <= t) /\ ~(i <= t + d)
        BY <1>1, <2>3, <3>1
      <3>3. v[i] = z[a] /\ z[a] = 0
        BY <1>4, <1>15, <1>17, <3>1, <3>2
      <3>4. b[i] = y[e] /\ y[e] = 0
        BY <1>3, <1>15, <1>18, <3>1, <3>2
      <3>5. x[i] = b[i]
        BY <1>11, <3>1, <3>2
      <3> QED
        BY <3>3, <3>4, <3>5
    <2> QED
      BY <2>1, <2>2, <2>3
  <1>14. x = v
    <2>1. v = [i \in 1..Rate |-> v[i]]
      BY <1>9, <1>10, SMTT(30)
    <2> QED
      BY <1>11, <1>13, <2>1
  <1> QED
    BY <1>1, <1>2, <1>12, <1>14 DEF XorsIn

\* One round takes bytes off the front, if any are there.
TakesSome(w, m, d) ==
    \E D, R, v : /\ D \in Seq(Bytes) /\ R \in Seq(Bytes) /\ d = D \o R /\ Len(D) > 0
                 /\ SpongeAbsorbSome(w) = [s |-> v, data |-> R] /\ SpongeHolds(v, m \o D)

LEMMA AbsorbSome ==
    ASSUME NEW s, NEW m \in Seq(Bytes), SpongeHolds(s, m), NEW d \in Seq(Bytes), d # <<>>,
           NEW w, w = [s |-> s, data |-> d]
    PROVE  TakesSome(w, m, d)
  <1>1. PICK q, W, T : SpongeParts(s, m, q, W, T)
    BY SpongeToParts
  <1>2. /\ Splits(m, Rate, q, W, T)
        /\ s = [h |-> Plain(Cut(W, Rate)), buf |-> T \o Zeros(Rate - Len(T)), buffered |-> Len(T), len |-> 0]
    BY <1>1 DEF SpongeParts
  <1>3. /\ W \in Seq(Bytes) /\ T \in Seq(Bytes) /\ m = W \o T
        /\ IsWhole(W, Rate, q) /\ Len(T) < Rate
    BY <1>2 DEF Splits
  <1>4. PICK t \in Nat : t = Len(T) /\ t < Rate
    BY <1>3
  <1>5. PICK c, b : c = Plain(Cut(W, Rate)) /\ b = T \o Zeros(Rate - Len(T))
    OBVIOUS
  <1>6. s = [h |-> c, buf |-> b, buffered |-> t, len |-> 0]
    BY <1>2, <1>4, <1>5
  <1>7. Len(d) \in Nat /\ Len(d) > 0
    <2>1. Len(d) # 0
      OBVIOUS
    <2> QED
      BY <2>1
  <1>8. PICK take \in Nat : take = Fewer(Rate - t, Len(d))
    BY <1>4, <1>7, Constants DEF Fewer
  <1>9. take > 0 /\ take <= Len(d) /\ t + take <= Rate
    BY <1>4, <1>7, <1>8, Constants DEF Fewer
  <1>10. PICK D, R : D = Leading(d, take) /\ R = From(d, take)
    OBVIOUS
  <1>11. D \in Seq(Bytes) /\ Len(D) = take
    BY <1>9, <1>10, LeadingOf
  <1>12. R \in Seq(Bytes)
    BY <1>9, <1>10, FromOf
  <1>13. d = D \o R
    BY <1>9, <1>10, Parted
  <1>14. PICK k \in Nat : k = Rate - (t + take)
    <2>1. Rate - (t + take) \in Nat
      BY <1>9, Constants
    <2> QED
      BY <2>1
  <1>15. XorInto(b, t, D) = (T \o D) \o Zeros(k)
    <2>1. Len(T) + Len(D) + k = Rate
      BY <1>4, <1>11, <1>14, Constants
    <2>2. XorsIn(T, D, k)
      BY <1>3, <1>11, <2>1, XorInZeros
    <2> QED
      BY <1>4, <1>5, <2>2 DEF XorsIn
  <1>16. PICK K, n : K = T \o D /\ n = [h |-> c, buf |-> K \o Zeros(k), buffered |-> t + take, len |-> 0]
    OBVIOUS
  <1>17. K \in Seq(Bytes) /\ Len(K) = t + take
    BY <1>3, <1>4, <1>11, <1>16, JoinOf
  <1>18. SpongeAbsorbSome(w) = [s |-> IF n.buffered = Rate THEN Permuted(n) ELSE n, data |-> R]
    <2>1. w.s = s /\ w.data = d /\ s.buffered = t /\ s.buf = b
      BY <1>6
    <2>2. n = [w.s EXCEPT !.buf = XorInto(@, w.s.buffered, Leading(w.data, take)), !.buffered = @ + take]
      <3>1. [s EXCEPT !.buf = XorInto(b, t, D), !.buffered = t + take] = n
        <4>1. PICK x, y : x = XorInto(b, t, D) /\ y = t + take
          OBVIOUS
        <4>2. n = [h |-> c, buf |-> x, buffered |-> y, len |-> 0]
          BY <1>15, <1>16, <4>1
        <4>3. [s EXCEPT !.buf = x, !.buffered = y] = [h |-> c, buf |-> x, buffered |-> y, len |-> 0]
          <5>1. PICK v : v = [s EXCEPT !.buf = x, !.buffered = y]
            OBVIOUS
          <5>2. v = [h |-> c, buf |-> x, buffered |-> y, len |-> 0]
            BY <1>6, <5>1
          <5> QED
            BY <5>1, <5>2
        <4> QED
          BY <4>1, <4>2, <4>3
      <3> QED
        BY <1>10, <2>1, <3>1
    <2> QED
      BY <1>8, <1>10, <2>1, <2>2 DEF SpongeAbsorbSome
  <1>19. m \o D = W \o K
    <2>1. Associate(W, T, D)
      BY <1>3, <1>11, Associates
    <2> QED
      BY <1>3, <1>16, <2>1 DEF Associate
  <1>20. n.buffered = t + take /\ n.h = c /\ n.buf = K \o Zeros(k) /\ n.len = 0
    BY <1>16
  <1>21. CASE t + take = Rate
    <2>1. PICK v : v = Permuted(n)
      OBVIOUS
    <2>2. K \o Zeros(k) = K
      <3>1. k = 0
        BY <1>14, <1>21
      <3>2. Zeros(0) = <<>>
        BY DEF Zeros
      <3> QED
        BY <1>17, <3>1, <3>2, EmptyJoin
    <2>3. v = [h |-> Append(c, Compressed(K, 0, "none")), buf |-> Zeros(Rate), buffered |-> 0, len |-> 0]
      BY <1>16, <2>1, <2>2 DEF Permuted
    <2>4. IsWhole(K, Rate, 1) /\ Len(K) = Rate
      BY <1>17, <1>21, Constants DEF IsWhole
    <2>5. Cut(K, Rate) = <<K>>
      BY <1>17, <2>4, CutOne, Constants
    <2>6. Grown(W, K, Rate, q + 1)
      BY <1>3, <1>17, <2>4, ChainGrows
    <2>7. /\ Plain(Cut(W \o K, Rate)) = c \o <<Compressed(K, 0, "none")>>
          /\ W \o K \in Seq(Bytes) /\ IsWhole(W \o K, Rate, q + 1)
      BY <1>5, <2>5, <2>6, PlainOne DEF Grown
    <2>8. Append(c, Compressed(K, 0, "none")) = c \o <<Compressed(K, 0, "none")>>
      <3>1. c \in Seq(Links)
        BY <1>3, <1>5, ChainOfCut DEF Chain
      <3>2. Compressed(K, 0, "none") \in Links
        BY <1>17, CompressedLink
      <3> QED
        BY <3>1, <3>2
    <2>16. PICK E : E = <<>>
      OBVIOUS
    <2>9. E = <<>> /\ E \in Seq(Bytes) /\ Len(E) = 0
      BY <2>16
    <2>10. m \o D = (W \o K) \o E
      BY <1>19, <2>7, <2>9, EmptyJoin
    <2>11. Splits(m \o D, Rate, q + 1, W \o K, E)
      BY <2>7, <2>9, <2>10, Constants DEF Splits
    <2>12. E \o Zeros(Rate - Len(E)) = Zeros(Rate)
      <3>1. Rate - Len(E) = Rate /\ Zeros(Rate) \in Seq(Bytes)
        BY <2>9, Constants, ZerosOf
      <3> QED
        BY <2>9, <3>1, EmptyJoin
    <2>13. SpongeParts(v, m \o D, q + 1, W \o K, E)
      BY <2>3, <2>7, <2>8, <2>9, <2>11, <2>12 DEF SpongeParts
    <2>14. SpongeHolds(v, m \o D)
      BY <2>13, SpongeFromParts
    <2>15. SpongeAbsorbSome(w) = [s |-> v, data |-> R]
      BY <1>18, <1>20, <1>21, <2>1
    <2> QED
      BY <1>9, <1>11, <1>12, <1>13, <2>14, <2>15 DEF TakesSome
  <1>22. CASE t + take < Rate
    <2>1. Splits(m \o D, Rate, q, W, K)
      BY <1>3, <1>17, <1>19, <1>22 DEF Splits
    <2>2. SpongeParts(n, m \o D, q, W, K)
      <3>1. Rate - Len(K) = k
        BY <1>14, <1>17
      <3> QED
        BY <1>5, <1>16, <1>17, <2>1, <3>1 DEF SpongeParts
    <2>3. SpongeHolds(n, m \o D)
      BY <2>2, SpongeFromParts
    <2>4. SpongeAbsorbSome(w) = [s |-> n, data |-> R]
      <3>1. n.buffered # Rate
        BY <1>20, <1>22
      <3> QED
        BY <1>18, <3>1
    <2> QED
      BY <1>9, <1>11, <1>12, <1>13, <2>3, <2>4 DEF TakesSome
  <1> QED
    BY <1>9, <1>21, <1>22, Constants

AbsorbsTo(w, m, d, j) ==
    \E A, R, v : /\ A \in Seq(Bytes) /\ R \in Seq(Bytes) /\ d = A \o R
                 /\ w = [s |-> v, data |-> R] /\ SpongeHolds(v, m \o A)
                 /\ (Len(A) >= j \/ R = <<>>)

LEMMA SpongeFeeds ==
    ASSUME NEW s, NEW m \in Seq(Bytes), SpongeHolds(s, m), NEW d \in Seq(Bytes)
    PROVE  SpongeHolds(SpongeAbsorb(s, d), m \o d)
  <1>11. PICK n \in Nat : n = Len(d)
    OBVIOUS
  <1>12. PICK w : w = [s |-> s, data |-> d]
    OBVIOUS
  <1>1. n = Len(d) /\ w = [s |-> s, data |-> d]
    BY <1>11, <1>12
  <1>2. PICK f : RunOf(Loop("absorb"), w, n, f) /\ Rounds(SpongeAbsorbSome, w, n) = f[n]
    BY RoundsOfAbsorb
  <1>3. SpongeAbsorb(s, d) = f[n].s
    BY <1>1, <1>2 DEF SpongeAbsorb
  <1> DEFINE G == {j \in 0..n : AbsorbsTo(f[j], m, d, j)}
  <1>4. 0 \in G
    <2>1. f[0] = w
      BY <1>2 DEF RunOf
    <2>4. PICK E : E = <<>>
      OBVIOUS
    <2>2. m \o E = m /\ E \o d = d /\ E \in Seq(Bytes) /\ Len(E) >= 0
      BY <2>4, EmptyJoin
    <2>3. AbsorbsTo(f[0], m, d, 0)
      BY <1>1, <2>1, <2>2 DEF AbsorbsTo
    <2> QED
      BY <2>3
  <1>5. ASSUME NEW j \in 0..n, j \in G, j < n PROVE j + 1 \in G
    <2>1. PICK A, R, v : /\ A \in Seq(Bytes) /\ R \in Seq(Bytes) /\ d = A \o R
                         /\ f[j] = [s |-> v, data |-> R] /\ SpongeHolds(v, m \o A)
                         /\ (Len(A) >= j \/ R = <<>>)
      BY <1>5 DEF AbsorbsTo
    <2>2. PICK x, i : x = f[j] /\ i = j + 1
      OBVIOUS
    <2>3. i \in 1..n /\ i - 1 = j
      BY <1>5, <2>2
    <2>4. f[i] = SpongeAbsorbSome(x)
      BY <1>2, <2>2, <2>3 DEF RunOf, Round, Loop
    <2>5. CASE R = <<>>
      <3>1. SpongeAbsorbSome(x) = x
        BY <2>1, <2>2, <2>5 DEF SpongeAbsorbSome
      <3>2. AbsorbsTo(f[i], m, d, i)
        BY <2>1, <2>2, <2>4, <2>5, <3>1 DEF AbsorbsTo
      <3> QED
        BY <2>2, <2>3, <3>2
    <2>6. CASE R # <<>>
      <3>1. m \o A \in Seq(Bytes)
        BY <2>1, JoinOf
      <3>2. SpongeHolds(v, m \o A) /\ x = [s |-> v, data |-> R] /\ R \in Seq(Bytes)
        BY <2>1, <2>2
      <3>3. TakesSome(x, m \o A, R)
        BY <2>6, <3>1, <3>2, AbsorbSome
      <3>4. PICK D, N, u : /\ D \in Seq(Bytes) /\ N \in Seq(Bytes) /\ R = D \o N /\ Len(D) > 0
                           /\ SpongeAbsorbSome(x) = [s |-> u, data |-> N]
                           /\ SpongeHolds(u, (m \o A) \o D)
        BY <3>3 DEF TakesSome
      <3>5. Associate(m, A, D) /\ Associate(A, D, N)
        BY <2>1, <3>4, Associates
      <3>6. A \o D \in Seq(Bytes) /\ Len(A \o D) = Len(A) + Len(D)
        BY <2>1, <3>4, JoinOf
      <3>7. Len(A \o D) >= i
        <4>1. Len(A) >= j
          BY <2>1, <2>6
        <4>2. Len(A) \in Nat /\ Len(D) \in Nat
          BY <2>1, <3>4
        <4> QED
          BY <2>2, <3>4, <3>6, <4>1, <4>2
      <3>8. d = (A \o D) \o N /\ SpongeHolds(u, m \o (A \o D))
        BY <2>1, <3>4, <3>5 DEF Associate
      <3>9. AbsorbsTo(f[i], m, d, i)
        BY <2>4, <3>4, <3>6, <3>7, <3>8 DEF AbsorbsTo
      <3> QED
        BY <2>2, <2>3, <3>9
    <2> QED
      BY <2>5, <2>6
  <1> HIDE DEF G
  <1>6. n \in G
    BY <1>4, <1>5, InductTo
  <1>7. PICK A, R, v : /\ A \in Seq(Bytes) /\ R \in Seq(Bytes) /\ d = A \o R
                       /\ f[n] = [s |-> v, data |-> R] /\ SpongeHolds(v, m \o A)
                       /\ (Len(A) >= n \/ R = <<>>)
    BY <1>6 DEF G, AbsorbsTo
  <1>8. R = <<>>
    <2>1. Len(d) = Len(A) + Len(R)
      BY <1>7, JoinOf
    <2>2. Len(A) >= n => Len(R) = 0
      BY <1>1, <1>7, <2>1
    <2> QED
      BY <1>7, <2>2
  <1>9. A = d
    BY <1>7, <1>8, EmptyJoin
  <1>10. f[n].s = v
    BY <1>7
  <1> QED
    BY <1>3, <1>7, <1>9, <1>10

-----------------------------------------------------------------------------
(* The end of the sponge's message, for one input and for several in step.  *)

SpongeBytes(n) ==
    LET total == (n \div Rate + 1) * Rate
    IN  [i \in 1..total |->
           CASE i <= n -> i
             [] i = n + 1 /\ i = total -> PadBoth
             [] i = n + 1 /\ i # total -> Pad80
             [] i > n + 1 /\ i = total -> PadEnd
             [] OTHER -> Zero]

PaddedByte(i, n, total) ==
    IF i <= n THEN i
    ELSE IF i = n + 1 THEN IF i = total THEN PadBoth ELSE Pad80
    ELSE IF i = total THEN PadEnd ELSE 0

SpongePadded(b, n, q, total) ==
    /\ b \in Seq(Bytes) /\ Len(b) = total /\ IsWhole(b, Rate, q + 1)
    /\ \A i \in 1..total : b[i] = PaddedByte(i, n, total)
    /\ SpongeBlocks(n) = Plain(Cut(b, Rate))
    /\ LaneBlocks(n) = q + 1

LEMMA SpongeBytesOf ==
    ASSUME NEW n \in Nat, NEW q \in Nat, NEW r \in Nat, NEW w \in Nat,
           w = Rate * q, n = w + r, r < Rate
    PROVE  SpongePadded(SpongeBytes(n), n, q, w + Rate)
  <1>1. n \div Rate = q
    <2>1. n = Rate * q + r
      OBVIOUS
    <2> QED
      BY <2>1, DivModIs, Constants
  <1>2. PICK total \in Nat : total = w + Rate
    BY Constants
  <1>3. (n \div Rate + 1) * Rate = total
    <2>1. Rate * (q + 1) = Rate * q + Rate
      BY Constants, TimesStep
    <2>2. (q + 1) * Rate = Rate * (q + 1)
      BY Constants
    <2> QED
      BY <1>1, <1>2, <2>1, <2>2
  <1>4. PICK b : b = SpongeBytes(n)
    OBVIOUS
  <1>5. b = [i \in 1..total |-> PaddedByte(i, n, total)]
    <2>1. b = [i \in 1..total |->
                 CASE i <= n -> i
                   [] i = n + 1 /\ i = total -> PadBoth
                   [] i = n + 1 /\ i # total -> Pad80
                   [] i > n + 1 /\ i = total -> PadEnd
                   [] OTHER -> Zero]
      BY <1>3, <1>4 DEF SpongeBytes
    <2>2. \A i \in 1..total :
            PaddedByte(i, n, total) = CASE i <= n -> i
                                        [] i = n + 1 /\ i = total -> PadBoth
                                        [] i = n + 1 /\ i # total -> Pad80
                                        [] i > n + 1 /\ i = total -> PadEnd
                                        [] OTHER -> Zero
      BY DEF PaddedByte, Zero
    <2> QED
      BY <2>1, <2>2
  <1>6. \A i \in 1..total : PaddedByte(i, n, total) \in Bytes
    BY DEF PaddedByte, PadBoth, Pad80, PadEnd, Bytes
  <1>7. b \in Seq(Bytes) /\ Len(b) = total
    BY <1>5, <1>6
  <1>8. IsWhole(b, Rate, q + 1)
    <2>1. Rate * (q + 1) = Rate * q + Rate
      BY Constants, TimesStep
    <2> QED
      BY <1>2, <1>7, <2>1, Constants DEF IsWhole
  <1>9. SpongeBlocks(n) = Plain(Cut(b, Rate))
    BY <1>4 DEF SpongeBlocks, SpongeBytes
  <1>10. LaneBlocks(n) = q + 1
    BY <1>1 DEF LaneBlocks
  <1>11. \A i \in 1..total : b[i] = PaddedByte(i, n, total)
    BY <1>5
  <1> QED
    BY <1>2, <1>4, <1>7, <1>8, <1>9, <1>10, <1>11 DEF SpongePadded

\* The padding that is xored into a last block of r bytes.
EndOf(b, r) == XorInto(XorInto(b, r, <<Pad80>>), Rate - 1, <<PadEnd>>)

EndsWith(x, b, r) ==
    /\ x \in Seq(Bytes) /\ Len(x) = Rate
    /\ \A i \in 1..Rate : x[i] = IF i <= r THEN b[i]
                                 ELSE IF i = r + 1 THEN IF i = Rate THEN PadBoth ELSE Pad80
                                 ELSE IF i = Rate THEN PadEnd ELSE 0

LEMMA XorBoth ==
    Xored(Pad80, PadEnd) = PadBoth
  <1>1. Pad80 # Zero /\ PadEnd # Zero /\ {Pad80, PadEnd} = {Pad80, PadEnd}
    BY DEF Pad80, PadEnd, Zero
  <1> QED
    BY <1>1 DEF Xored

LEMMA EndIs ==
    ASSUME NEW b \in Seq(Bytes), Len(b) = Rate, NEW r \in Nat, r < Rate,
           \A i \in (r + 1)..Rate : b[i] = 0
    PROVE  EndsWith(EndOf(b, r), b, r)
  <1>1. PICK y : y = [i \in 1..Rate |-> IF i - r \in 1..1 THEN Xored(b[i], Pad80) ELSE b[i]]
    OBVIOUS
  <1>2. y = XorInto(b, r, <<Pad80>>)
    <2>1. Len(<<Pad80>>) = 1 /\ \A i \in 1..Rate : i - r \in 1..1 => <<Pad80>>[i - r] = Pad80
      BY Constants
    <2> QED
      BY <1>1, <2>1, Constants DEF XorInto
  <1>3. ASSUME NEW i \in 1..Rate
        PROVE  y[i] = IF i = r + 1 THEN Pad80 ELSE b[i]
    <2>1. CASE i = r + 1
      <3>1. i - r \in 1..1 /\ i \in (r + 1)..Rate
        BY <2>1, Constants
      <3>2. b[i] = 0
        BY <3>1
      <3>3. y[i] = Xored(0, Pad80)
        BY <1>1, <3>1, <3>2
      <3> QED
        BY <2>1, <3>3, XorZero
    <2>2. CASE i # r + 1
      <3>1. ~(i - r \in 1..1)
        BY <2>2, Constants
      <3> QED
        BY <1>1, <2>2, <3>1
    <2> QED
      BY <2>1, <2>2
  <1>4. \A i \in 1..Rate : b[i] \in Bytes
    BY Constants
  <1>5. \A i \in 1..Rate : y[i] \in Bytes
    <2>1. Pad80 \in Bytes
      BY DEF Pad80, Bytes
    <2> QED
      BY <1>3, <1>4, <2>1
  <1>6. y \in Seq(Bytes) /\ Len(y) = Rate
    BY <1>1, <1>5, Constants
  <1>7. PICK x : x = [i \in 1..Rate |-> IF i - (Rate - 1) \in 1..1 THEN Xored(y[i], PadEnd) ELSE y[i]]
    OBVIOUS
  <1>8. x = EndOf(b, r)
    <2>1. Len(<<PadEnd>>) = 1 /\ \A i \in 1..Rate : i - (Rate - 1) \in 1..1 => <<PadEnd>>[i - (Rate - 1)] = PadEnd
      BY Constants
    <2> QED
      BY <1>2, <1>6, <1>7, <2>1, Constants DEF XorInto, EndOf
  <1>9. ASSUME NEW i \in 1..Rate
        PROVE  x[i] = IF i <= r THEN b[i]
                      ELSE IF i = r + 1 THEN IF i = Rate THEN PadBoth ELSE Pad80
                      ELSE IF i = Rate THEN PadEnd ELSE 0
    <2>1. i # Rate => x[i] = y[i]
      <3>1. i # Rate => ~(i - (Rate - 1) \in 1..1)
        BY Constants
      <3> QED
        BY <1>7, <3>1
    <2>2. i = Rate => x[i] = Xored(y[i], PadEnd)
      <3>1. i = Rate => i - (Rate - 1) \in 1..1
        BY Constants
      <3> QED
        BY <1>7, <3>1
    <2>3. CASE i <= r
      <3>1. i # Rate /\ i # r + 1
        BY <2>3, Constants
      <3> QED
        BY <1>3, <2>1, <2>3, <3>1
    <2>4. CASE i = r + 1
      <3>1. ~(i <= r) /\ y[i] = Pad80
        BY <1>3, <2>4, Constants
      <3> QED
        BY <2>1, <2>2, <2>4, <3>1, XorBoth
    <2>5. CASE i > r + 1
      <3>1. ~(i <= r) /\ i # r + 1 /\ i \in (r + 1)..Rate
        BY <2>5, Constants
      <3>2. y[i] = 0
        BY <1>3, <3>1
      <3> QED
        BY <2>1, <2>2, <3>1, <3>2, XorZero
    <2> QED
      BY <2>3, <2>4, <2>5, Constants
  <1>10. x \in Seq(Bytes) /\ Len(x) = Rate
    <2>1. ASSUME NEW i \in 1..Rate PROVE x[i] \in Bytes
      BY <1>4, <1>9, <2>1 DEF PadBoth, Pad80, PadEnd, Bytes
    <2> QED
      BY <1>7, <2>1, Constants
  <1> QED
    BY <1>8, <1>9, <1>10 DEF EndsWith

LEMMA MessageOf ==
    ASSUME NEW n \in Nat
    PROVE  Message(n) \in Seq(Bytes) /\ Len(Message(n)) = n /\ \A i \in 1..n : Message(n)[i] = i
  BY DEF Message, Bytes

LEMMA SpongeEnds ==
    ASSUME NEW n \in Nat, NEW s, SpongeHolds(s, Message(n))
    PROVE  SpongeFinish(s) = [h |-> SpongeBlocks(n), buf |-> Zeros(Rate), buffered |-> 0, len |-> 0]
  <1>1. PICK m : m = Message(n)
    OBVIOUS
  <1>2. m \in Seq(Bytes) /\ Len(m) = n /\ \A i \in 1..n : m[i] = i
    BY <1>1, MessageOf
  <1>3. m \in Seq(Bytes) /\ SpongeHolds(s, m)
    BY <1>1, <1>2
  <1>4. PICK q, W, T : SpongeParts(s, m, q, W, T)
    BY <1>3, SpongeToParts
  <1>5. /\ Splits(m, Rate, q, W, T)
        /\ s = [h |-> Plain(Cut(W, Rate)), buf |-> T \o Zeros(Rate - Len(T)), buffered |-> Len(T), len |-> 0]
    BY <1>4 DEF SpongeParts
  <1>6. /\ W \in Seq(Bytes) /\ T \in Seq(Bytes) /\ m = W \o T
        /\ IsWhole(W, Rate, q) /\ Len(T) < Rate
    BY <1>5 DEF Splits
  <1>7. PICK r \in Nat, w \in Nat : r = Len(T) /\ w = Len(W)
    BY <1>6
  <1>8. q \in Nat /\ w = Rate * q /\ r < Rate
    BY <1>6, <1>7 DEF IsWhole
  <1>9. /\ Len(m) = Len(W) + Len(T)
        /\ \A i \in 1..Len(W) : m[i] = W[i]
        /\ \A i \in 1..Len(T) : m[Len(W) + i] = T[i]
    BY <1>6, JoinOf
  <1>10. n = w + r
    BY <1>2, <1>7, <1>9
  <1>11. \A i \in 1..w : W[i] = i
    BY <1>2, <1>7, <1>9, <1>10
  <1>12. \A i \in 1..r : T[i] = w + i
    <2>1. ASSUME NEW i \in 1..r PROVE T[i] = w + i
      <3>1. w + i \in 1..n
        BY <1>10
      <3> QED
        BY <1>2, <1>7, <1>9, <3>1
    <2> QED
      BY <2>1
  <1>13. PICK k \in Nat : k = Rate - r
    <2>1. Rate - r \in Nat
      BY <1>8, Constants
    <2> QED
      BY <2>1
  <1>14. PICK z, b : z = Zeros(k) /\ b = T \o z
    OBVIOUS
  <1>15. z \in Seq(Bytes) /\ Len(z) = k /\ \A i \in 1..k : z[i] = 0
    BY <1>14, ZerosOf
  <1>16. z \in Seq(Bytes)
    BY <1>15
  <1>17. /\ b \in Seq(Bytes) /\ Len(b) = Len(T) + Len(z)
         /\ \A i \in 1..(Len(T) + Len(z)) : b[i] = IF i <= Len(T) THEN T[i] ELSE z[i - Len(T)]
    BY <1>6, <1>14, <1>16, JoinOf
  <1>18. b \in Seq(Bytes) /\ Len(b) = Rate
    BY <1>7, <1>13, <1>15, <1>17, Constants
  <1>19. \A i \in (r + 1)..Rate : b[i] = 0
    <2>1. ASSUME NEW i \in (r + 1)..Rate PROVE b[i] = 0
      <3>1. i - r \in 1..k /\ i \in 1..(Len(T) + Len(z)) /\ ~(i <= Len(T))
        BY <1>7, <1>13, <1>15, Constants
      <3> QED
        BY <1>7, <1>15, <1>17, <3>1
    <2> QED
      BY <2>1
  <1>20. PICK L : L = EndOf(b, r)
    OBVIOUS
  <1>21. EndsWith(L, b, r)
    BY <1>8, <1>18, <1>19, <1>20, EndIs
  <1>22. /\ L \in Seq(Bytes) /\ Len(L) = Rate
         /\ \A i \in 1..Rate : L[i] = IF i <= r THEN b[i]
                                      ELSE IF i = r + 1 THEN IF i = Rate THEN PadBoth ELSE Pad80
                                      ELSE IF i = Rate THEN PadEnd ELSE 0
    BY <1>21 DEF EndsWith
  <1>39. PICK B : B = SpongeBytes(n)
    OBVIOUS
  <1>40. PICK total \in Nat : total = w + Rate
    BY Constants
  <1>23. B = SpongeBytes(n) /\ total = w + Rate
    BY <1>39, <1>40
  <1>24. SpongePadded(B, n, q, total)
    BY <1>8, <1>10, <1>23, SpongeBytesOf
  <1>25. /\ B \in Seq(Bytes) /\ Len(B) = total
         /\ \A i \in 1..total : B[i] = PaddedByte(i, n, total)
         /\ SpongeBlocks(n) = Plain(Cut(B, Rate))
    BY <1>24 DEF SpongePadded
  <1>26. PICK j : j = W \o L
    OBVIOUS
  <1>27. L \in Seq(Bytes)
    BY <1>22
  <1>28. /\ j \in Seq(Bytes) /\ Len(j) = Len(W) + Len(L)
         /\ \A i \in 1..(Len(W) + Len(L)) : j[i] = IF i <= Len(W) THEN W[i] ELSE L[i - Len(W)]
    BY <1>6, <1>26, <1>27, JoinOf
  <1>29. ASSUME NEW i \in 1..total PROVE B[i] = j[i]
    <2>1. CASE i <= w
      <3>1. j[i] = W[i] /\ W[i] = i
        BY <1>7, <1>11, <1>22, <1>23, <1>28, <2>1, Constants
      <3>2. PaddedByte(i, n, total) = i
        BY <1>10, <2>1 DEF PaddedByte
      <3> QED
        BY <1>25, <3>1, <3>2
    <2>2. CASE i > w
      <3>1. PICK d \in 1..Rate : d = i - w
        BY <1>23, <2>2, Constants
      <3>2. j[i] = L[d]
        BY <1>7, <1>22, <1>23, <1>28, <2>2, <3>1, Constants
      <3>3. L[d] = PaddedByte(i, n, total)
        <4>1. i = total <=> d = Rate
          BY <1>23, <3>1, Constants
        <4>2. (i <= n <=> d <= r) /\ (i = n + 1 <=> d = r + 1)
          BY <1>10, <3>1
        <4>3. d <= r => b[d] = i
          <5> SUFFICES ASSUME d <= r PROVE b[d] = i
            OBVIOUS
          <5>1. d \in 1..r /\ d \in 1..(Len(T) + Len(z)) /\ d <= Len(T)
            BY <1>7, <1>15, <3>1
          <5>2. b[d] = T[d]
            BY <1>17, <5>1
          <5>3. T[d] = w + d
            BY <1>12, <5>1
          <5> QED
            BY <3>1, <5>2, <5>3
        <4> QED
          BY <1>22, <4>1, <4>2, <4>3 DEF PaddedByte
      <3> QED
        BY <1>25, <3>2, <3>3
    <2> QED
      BY <2>1, <2>2
  <1>30. B = j
    <2>1. B \in Seq(Bytes) /\ j \in Seq(Bytes) /\ Len(B) = Len(j)
      BY <1>7, <1>22, <1>23, <1>25, <1>28
    <2>2. \A i \in 1..Len(B) : B[i] = j[i]
      BY <1>25, <1>29
    <2> QED
      BY <2>1, <2>2, SameSequence
  <1>31. PICK c : c = Plain(Cut(W, Rate))
    OBVIOUS
  <1>32. SpongeBlocks(n) = Append(c, Compressed(L, 0, "none"))
    <2>1. IsWhole(L, Rate, 1)
      BY <1>22, Constants DEF IsWhole
    <2>2. Cut(L, Rate) = <<L>>
      BY <1>22, CutOne, Constants
    <2>3. Grown(W, L, Rate, q + 1)
      BY <1>6, <1>27, <2>1, ChainGrows
    <2>4. Plain(Cut(j, Rate)) = c \o <<Compressed(L, 0, "none")>>
      BY <1>26, <1>31, <2>2, <2>3, PlainOne DEF Grown
    <2>5. c \in Seq(Links)
      BY <1>6, <1>31, ChainOfCut DEF Chain
    <2>6. Compressed(L, 0, "none") \in Links
      BY <1>27, CompressedLink
    <2>7. Append(c, Compressed(L, 0, "none")) = c \o <<Compressed(L, 0, "none")>>
      BY <2>5, <2>6
    <2> QED
      BY <1>25, <1>30, <2>4, <2>7
  <1>33. s = [h |-> c, buf |-> b, buffered |-> r, len |-> 0]
    BY <1>5, <1>7, <1>13, <1>14, <1>31
  <1>34. PICK v : v = [s EXCEPT !.buf = L]
    OBVIOUS
  <1>35. v = [h |-> c, buf |-> L, buffered |-> r, len |-> 0]
    BY <1>33, <1>34
  <1>36. SpongeFinish(s) = Permuted(v)
    <2>1. s.buf = b /\ s.buffered = r
      BY <1>33
    <2> QED
      BY <1>20, <1>34, <2>1 DEF SpongeFinish, EndOf
  <1>37. PICK u : u = Permuted(v)
    OBVIOUS
  <1>38. u = [h |-> Append(c, Compressed(L, 0, "none")), buf |-> Zeros(Rate), buffered |-> 0, len |-> 0]
    BY <1>35, <1>37 DEF Permuted
  <1> QED
    BY <1>32, <1>36, <1>37, <1>38

-----------------------------------------------------------------------------
(* Several inputs in step: each lane takes its own blocks, and no more.     *)

LEMMA LeadingGrows ==
    ASSUME NEW S, NEW s \in Seq(S), NEW n \in Nat, n < Len(s)
    PROVE  Leading(s, n + 1) = Append(Leading(s, n), s[n + 1])
  <1>1. PICK a, b : a = Leading(s, n) /\ b = Leading(s, n + 1)
    OBVIOUS
  <1>2. a \in Seq(S) /\ Len(a) = n /\ \A i \in 1..n : a[i] = s[i]
    BY <1>1, LeadingOf
  <1>3. b \in Seq(S) /\ Len(b) = n + 1 /\ \A i \in 1..(n + 1) : b[i] = s[i]
    <2>1. n + 1 \in Nat /\ n + 1 <= Len(s)
      OBVIOUS
    <2> QED
      BY <1>1, <2>1, LeadingOf
  <1>4. PICK e, c : e = s[n + 1] /\ c = Append(a, e)
    OBVIOUS
  <1>5. e \in S
    BY <1>4
  <1>6. c \in Seq(S) /\ Len(c) = n + 1 /\ (\A i \in 1..n : c[i] = a[i]) /\ c[n + 1] = e
    BY <1>2, <1>4, <1>5
  <1>7. \A i \in 1..Len(b) : b[i] = c[i]
    <2>1. ASSUME NEW i \in 1..(n + 1) PROVE b[i] = c[i]
      <3>1. CASE i = n + 1
        BY <1>3, <1>4, <1>6, <3>1
      <3>2. CASE i # n + 1
        <4>1. i \in 1..n
          BY <3>2
        <4> QED
          BY <1>2, <1>3, <1>6, <4>1
      <3> QED
        BY <3>1, <3>2
    <2> QED
      BY <1>3, <2>1
  <1>8. b = c
    BY <1>3, <1>6, <1>7, SameSequence
  <1> QED
    BY <1>1, <1>4, <1>8

\* The block of a step, whole or padded, is the block of the padded message.
LEMMA PaddedBlockIs ==
    ASSUME NEW n \in Nat, NEW q \in Nat, NEW r \in Nat, NEW w \in Nat,
           w = Rate * q, n = w + r, r < Rate, NEW step \in 1..(q + 1)
    PROVE  PaddedBlock(n, step) = BlockAt(SpongeBytes(n), Rate, step)
  <1>1. PICK total \in Nat : total = w + Rate
    BY Constants
  <1>2. PICK B : B = SpongeBytes(n)
    OBVIOUS
  <1>3. SpongePadded(B, n, q, total)
    BY <1>1, <1>2, SpongeBytesOf
  <1>4. /\ B \in Seq(Bytes) /\ Len(B) = total
        /\ \A i \in 1..total : B[i] = PaddedByte(i, n, total)
        /\ LaneBlocks(n) = q + 1
    BY <1>3 DEF SpongePadded
  <1>5. PICK start \in Nat : start = (step - 1) * Rate /\ step * Rate = start + Rate
    <2>1. step \in 1..(q + 1) /\ q + 1 \in Nat
      OBVIOUS
    <2> QED
      BY <2>1, BlockBounds, Constants
  <1>6. start = Rate * (step - 1)
    BY <1>5, Constants
  <1>7. start + Rate <= total /\ (step = q + 1 => start = w) /\ (step # q + 1 => start + Rate <= w)
    <2>1. CASE step = q + 1
      <3>1. step - 1 = q
        BY <2>1
      <3> QED
        BY <1>1, <1>6, <2>1, <3>1
    <2>2. CASE step # q + 1
      <3>1. step \in Nat /\ step <= q
        BY <2>2
      <3>2. Rate * step <= Rate * q
        BY <3>1, TimesMonotonic, Constants
      <3>3. Rate * step = step * Rate
        BY <3>1, Constants
      <3> QED
        BY <1>1, <1>5, <2>2, <3>2, <3>3, Constants
    <2> QED
      BY <2>1, <2>2
  <1>8. PICK c : c = BlockAt(B, Rate, step)
    OBVIOUS
  <1>9. /\ c \in Seq(Bytes) /\ Len(c) = Rate
        /\ \A i \in 1..Rate : c[i] = B[start + i]
    <2>1. PICK h \in Nat : h = start + Rate
      BY Constants
    <2>2. start <= h /\ h <= Len(B) /\ h - start = Rate
      BY <1>4, <1>7, <2>1, Constants
    <2>3. c = SubSeq(B, start + 1, h)
      BY <1>5, <1>8, <2>1 DEF BlockAt
    <2>4. Rate \in Nat /\ B \in Seq(Bytes)
      BY <1>4, Constants
    <2>5. TakenFrom(Bytes, B, start, Rate, c)
      BY <2>2, <2>3, <2>4, TakenOf
    <2> QED
      BY <2>5 DEF TakenFrom
  <1>10. \A i \in 1..Rate : c[i] = PaddedByte(start + i, n, total)
    <2>1. \A i \in 1..Rate : start + i \in 1..total
      BY <1>7, Constants
    <2> QED
      BY <1>4, <1>9, <2>1
  <1>18. Fewer(n - start, Rate) \in Nat
    <2>1. start <= n
      BY <1>7, Constants
    <2>2. n - start \in Nat
      BY <2>1
    <2> QED
      BY <2>2, Constants DEF Fewer
  <1>11. PICK take \in Nat : take = Fewer(n - start, Rate)
    BY <1>18
  <1>12. (step = q + 1 => take = r) /\ (step # q + 1 => take = Rate)
    BY <1>7, <1>11, Constants DEF Fewer
  <1>13. PICK b : b = [i \in 1..Rate |-> IF i <= take THEN start + i ELSE Zero]
    OBVIOUS
  <1>14. b \in Seq(Bytes) /\ Len(b) = Rate
    BY <1>13, Constants DEF Bytes, Zero
  <1>15. PaddedBlock(n, step) = IF step # q + 1 THEN b ELSE EndOf(b, take)
    BY <1>4, <1>5, <1>11, <1>13 DEF PaddedBlock, EndOf
  <1>16. CASE step # q + 1
    <2>1. \A i \in 1..Len(b) : b[i] = c[i]
      <3>1. ASSUME NEW i \in 1..Rate PROVE b[i] = c[i]
        <4>1. b[i] = start + i /\ start + i <= n
          BY <1>7, <1>12, <1>13, <1>16, Constants
        <4>2. PaddedByte(start + i, n, total) = start + i
          BY <4>1 DEF PaddedByte
        <4> QED
          BY <1>10, <4>1, <4>2
      <3> QED
        BY <1>14, <3>1
    <2>2. b = c
      BY <1>9, <1>14, <2>1, SameSequence
    <2> QED
      BY <1>2, <1>8, <1>15, <1>16, <2>2
  <1>17. CASE step = q + 1
    <2>1. take = r /\ start = w
      BY <1>7, <1>12, <1>17
    <2>2. \A i \in (r + 1)..Rate : b[i] = 0
      BY <1>13, <2>1, Constants DEF Zero
    <2>3. PICK L : L = EndOf(b, r)
      OBVIOUS
    <2>4. EndsWith(L, b, r)
      BY <1>14, <2>2, <2>3, EndIs
    <2>5. /\ L \in Seq(Bytes) /\ Len(L) = Rate
          /\ \A i \in 1..Rate : L[i] = IF i <= r THEN b[i]
                                       ELSE IF i = r + 1 THEN IF i = Rate THEN PadBoth ELSE Pad80
                                       ELSE IF i = Rate THEN PadEnd ELSE 0
      BY <2>4 DEF EndsWith
    <2>6. \A i \in 1..Len(L) : L[i] = c[i]
      <3>1. ASSUME NEW i \in 1..Rate PROVE L[i] = c[i]
        <4>1. c[i] = PaddedByte(w + i, n, total)
          BY <1>10, <2>1
        <4>2. (w + i <= n <=> i <= r) /\ (w + i = n + 1 <=> i = r + 1) /\ (w + i = total <=> i = Rate)
          BY <1>1, Constants
        <4>3. i <= r => b[i] = w + i
          BY <1>13, <2>1
        <4>4. c[i] = IF i <= r THEN w + i
                     ELSE IF i = r + 1 THEN IF i = Rate THEN PadBoth ELSE Pad80
                     ELSE IF i = Rate THEN PadEnd ELSE 0
          BY <4>1, <4>2 DEF PaddedByte
        <4>5. L[i] = IF i <= r THEN b[i]
                     ELSE IF i = r + 1 THEN IF i = Rate THEN PadBoth ELSE Pad80
                     ELSE IF i = Rate THEN PadEnd ELSE 0
          BY <2>5
        <4> QED
          BY <4>3, <4>4, <4>5
      <3> QED
        BY <2>5, <3>1
    <2>7. L = c
      BY <1>9, <2>5, <2>6, SameSequence
    <2> QED
      BY <1>2, <1>8, <1>15, <1>17, <2>1, <2>3, <2>7
  <1> QED
    BY <1>16, <1>17

\* A lane after so many steps.
LaneHolds(v, n, step) ==
    v = [h |-> Leading(SpongeBlocks(n), Fewer(step, LaneBlocks(n))), buf |-> Zeros(Rate),
         buffered |-> 0, len |-> 0]

LaneStep(v, n, step) ==
    IF step > LaneBlocks(n) THEN v ELSE Permuted([v EXCEPT !.buf = XorInto(@, 0, PaddedBlock(n, step))])

LEMMA LaneOf ==
    ASSUME NEW n \in Nat
    PROVE  /\ SpongeBlocks(n) \in Seq(Links) /\ LaneBlocks(n) \in Nat /\ LaneBlocks(n) > 0
           /\ Len(SpongeBlocks(n)) = LaneBlocks(n)
           /\ \A step \in 1..LaneBlocks(n) :
                 /\ PaddedBlock(n, step) \in Seq(Bytes) /\ Len(PaddedBlock(n, step)) = Rate
                 /\ SpongeBlocks(n)[step] = Compressed(PaddedBlock(n, step), 0, "none")
  <1>1. PICK q \in Nat, r \in Nat : n = Rate * q + r /\ r < Rate /\ Rate * q \in Nat
    BY DivMod, Constants
  <1>2. PICK w \in Nat : w = Rate * q /\ n = w + r
    BY <1>1
  <1>3. PICK B, Q : B = SpongeBytes(n) /\ Q = q + 1
    OBVIOUS
  <1>4. SpongePadded(B, n, q, w + Rate)
    BY <1>1, <1>2, <1>3, SpongeBytesOf
  <1>5. /\ B \in Seq(Bytes) /\ IsWhole(B, Rate, Q)
        /\ SpongeBlocks(n) = Plain(Cut(B, Rate)) /\ LaneBlocks(n) = Q
    BY <1>3, <1>4 DEF SpongePadded
  <1>6. PICK x : x = Cut(B, Rate)
    OBVIOUS
  <1>7. x \in Seq(Seq(Bytes)) /\ Len(x) = Q /\ \A b \in 1..Q : x[b] = BlockAt(B, Rate, b)
    BY <1>5, <1>6, CutOf
  <1>8. PICK y : y = Plain(x)
    OBVIOUS
  <1>9. y \in Chain /\ Len(y) = Len(x) /\ \A b \in 1..Len(x) : y[b] = Compressed(x[b], 0, "none")
    BY <1>7, <1>8, PlainOf
  <1>10. SpongeBlocks(n) = y
    BY <1>5, <1>6, <1>8
  <1>11. ASSUME NEW step \in 1..Q
         PROVE  /\ PaddedBlock(n, step) \in Seq(Bytes) /\ Len(PaddedBlock(n, step)) = Rate
                /\ y[step] = Compressed(PaddedBlock(n, step), 0, "none")
    <2>1. step \in 1..(q + 1)
      BY <1>3
    <2>2. PaddedBlock(n, step) = BlockAt(B, Rate, step)
      BY <1>1, <1>2, <1>3, <2>1, PaddedBlockIs
    <2>3. BlockAt(B, Rate, step) \in Seq(Bytes) /\ Len(BlockAt(B, Rate, step)) = Rate
      <3>1. PICK start \in Nat : start = (step - 1) * Rate /\ step * Rate = start + Rate /\ start + Rate <= Rate * Q
        BY <2>1, <1>3, BlockBounds, Constants
      <3>2. PICK end \in Nat : end = start + Rate
        BY Constants
      <3>3. start <= end /\ end <= Len(B) /\ end - start = Rate
        BY <1>5, <3>1, <3>2, Constants DEF IsWhole
      <3>4. BlockAt(B, Rate, step) = SubSeq(B, start + 1, end)
        BY <3>1, <3>2 DEF BlockAt
      <3> QED
        BY <1>5, <3>3, <3>4, SubSeqOf
    <2> QED
      BY <1>7, <1>9, <2>2, <2>3
  <1>12. Q \in Nat /\ Q > 0
    BY <1>3
  <1> QED
    BY <1>5, <1>7, <1>9, <1>10, <1>11, <1>12 DEF Chain

LEMMA LaneSteps ==
    ASSUME NEW n \in Nat, NEW step \in Nat, step > 0, NEW v, LaneHolds(v, n, step - 1)
    PROVE  LaneHolds(LaneStep(v, n, step), n, step)
  <1>1. PICK C, Q : C = SpongeBlocks(n) /\ Q = LaneBlocks(n)
    OBVIOUS
  <1>2. /\ C \in Seq(Links) /\ Q \in Nat /\ Len(C) = Q
        /\ \A j \in 1..Q : /\ PaddedBlock(n, j) \in Seq(Bytes) /\ Len(PaddedBlock(n, j)) = Rate
                           /\ C[j] = Compressed(PaddedBlock(n, j), 0, "none")
    BY <1>1, LaneOf
  <1>3. CASE step > Q
    <2>1. Fewer(step, Q) = Fewer(step - 1, Q)
      BY <1>2, <1>3 DEF Fewer
    <2> QED
      BY <1>1, <1>3, <2>1 DEF LaneHolds, LaneStep
  <1>4. CASE ~(step > Q)
    <2>1. PICK k \in Nat : k = step - 1 /\ step = k + 1 /\ k < Q
      <3>1. step - 1 \in Nat
        OBVIOUS
      <3> QED
        BY <1>2, <1>4, <3>1
    <2>2. Fewer(step, Q) = step /\ Fewer(step - 1, Q) = k
      BY <1>2, <1>4, <2>1 DEF Fewer
    <2>3. PICK D, P, z : D = Leading(C, k) /\ P = PaddedBlock(n, step) /\ z = Zeros(Rate)
      OBVIOUS
    <2>4. step \in 1..Q
      BY <1>2, <1>4
    <2>5. P \in Seq(Bytes) /\ Len(P) = Rate /\ C[step] = Compressed(P, 0, "none")
      BY <1>2, <2>3, <2>4
    <2>6. v = [h |-> D, buf |-> z, buffered |-> 0, len |-> 0]
      BY <1>1, <2>2, <2>3 DEF LaneHolds
    <2>7. XorInto(z, 0, P) = P
      <3>1. z \in Seq(Bytes) /\ Len(z) = Rate /\ \A i \in 1..Rate : z[i] = 0
        BY <2>3, ZerosOf, Constants
      <3>2. PICK x : x = [i \in 1..Rate |-> IF i - 0 \in 1..Rate THEN Xored(z[i], P[i - 0]) ELSE z[i]]
        OBVIOUS
      <3>3. x = XorInto(z, 0, P)
        BY <2>5, <3>1, <3>2 DEF XorInto
      <3>4. ASSUME NEW i \in 1..Rate PROVE x[i] = P[i]
        <4>1. i - 0 = i /\ i - 0 \in 1..Rate
          BY Constants
        <4>2. x[i] = Xored(0, P[i])
          BY <3>1, <3>2, <4>1
        <4> QED
          BY <4>2, XorZero
      <3>5. P = [i \in 1..Rate |-> P[i]]
        BY <2>5
      <3>6. x = P
        BY <3>2, <3>4, <3>5
      <3> QED
        BY <3>3, <3>6
    <2>8. PICK u : u = [v EXCEPT !.buf = P]
      OBVIOUS
    <2>9. u = [h |-> D, buf |-> P, buffered |-> 0, len |-> 0]
      BY <2>6, <2>8
    <2>10. LaneStep(v, n, step) = Permuted(u)
      <3>1. v.buf = z
        BY <2>6
      <3> QED
        BY <1>1, <1>4, <2>3, <2>7, <2>8, <3>1 DEF LaneStep
    <2>11. PICK o : o = Permuted(u)
      OBVIOUS
    <2>12. o = [h |-> Append(D, Compressed(P, 0, "none")), buf |-> z, buffered |-> 0, len |-> 0]
      BY <2>3, <2>9, <2>11 DEF Permuted
    <2>13. Leading(C, step) = Append(D, C[step])
      BY <1>2, <2>1, <2>3, LeadingGrows
    <2> QED
      BY <1>1, <2>2, <2>3, <2>5, <2>10, <2>11, <2>12, <2>13 DEF LaneHolds
  <1> QED
    BY <1>3, <1>4

LEMMA LaneBegins ==
    ASSUME NEW n \in Nat
    PROVE  LaneHolds(Fresh(Rate), n, 0)
  <1>1. PICK C : C = SpongeBlocks(n)
    OBVIOUS
  <1>2. C \in Seq(Links)
    BY <1>1, LaneOf
  <1>3. Leading(C, 0) = <<>>
    BY <1>2 DEF Leading
  <1>4. Fewer(0, LaneBlocks(n)) = 0
    BY LaneOf DEF Fewer
  <1> QED
    BY <1>1, <1>3, <1>4 DEF LaneHolds, Fresh

LEMMA LaneEnds ==
    ASSUME NEW n \in Nat, NEW step \in Nat, step >= LaneBlocks(n), NEW v, LaneHolds(v, n, step)
    PROVE  v = [h |-> SpongeBlocks(n), buf |-> Zeros(Rate), buffered |-> 0, len |-> 0]
  <1>1. PICK C, Q : C = SpongeBlocks(n) /\ Q = LaneBlocks(n)
    OBVIOUS
  <1>2. C \in Seq(Links) /\ Q \in Nat /\ Len(C) = Q
    BY <1>1, LaneOf
  <1>3. Fewer(step, Q) = Q
    BY <1>1, <1>2 DEF Fewer
  <1>4. Leading(C, Q) = C
    <2>1. PICK D : D = Leading(C, Q)
      OBVIOUS
    <2>2. D \in Seq(Links) /\ Len(D) = Q /\ \A i \in 1..Q : D[i] = C[i]
      BY <1>2, <2>1, LeadingOf
    <2>3. D = C
      BY <1>2, <2>2, SameSequence
    <2> QED
      BY <2>1, <2>3
  <1> QED
    BY <1>1, <1>3, <1>4 DEF LaneHolds

Lanes(lens) == [name |-> "lanes", lens |-> lens]

\* The steps are those of the longest lane.
StepsOf(lens) ==
    CHOOSE n \in {LaneBlocks(l) : l \in {lens[i] : i \in DOMAIN lens}} :
       \A i \in DOMAIN lens : LaneBlocks(lens[i]) <= n

LEMMA StepsExist ==
    ASSUME NEW lens, DOMAIN lens = 1..3, \A i \in 1..3 : lens[i] \in Nat
    PROVE  StepsOf(lens) \in Nat /\ \A i \in 1..3 : LaneBlocks(lens[i]) <= StepsOf(lens)
  <1>1. PICK x, y, z : x = LaneBlocks(lens[1]) /\ y = LaneBlocks(lens[2]) /\ z = LaneBlocks(lens[3])
    OBVIOUS
  <1>2. x \in Nat /\ y \in Nat /\ z \in Nat
    BY <1>1, LaneOf, SMTT(30)
  <1>3. PICK T : T = {LaneBlocks(l) : l \in {lens[i] : i \in DOMAIN lens}}
    OBVIOUS
  <1>4. x \in T /\ y \in T /\ z \in T
    <2>1. lens[1] \in {lens[i] : i \in DOMAIN lens} /\ lens[2] \in {lens[i] : i \in DOMAIN lens}
          /\ lens[3] \in {lens[i] : i \in DOMAIN lens}
      OBVIOUS
    <2> QED
      BY <1>1, <1>3, <2>1
  <1>5. \A n : (\A i \in DOMAIN lens : LaneBlocks(lens[i]) <= n) <=> (x <= n /\ y <= n /\ z <= n)
    BY <1>1
  <1>6. T \subseteq Nat
    BY <1>3, LaneOf
  <1>7. \E n \in T : x <= n /\ y <= n /\ z <= n
    BY <1>2, <1>4
  <1>8. PICK n : n = CHOOSE m \in T : \A i \in DOMAIN lens : LaneBlocks(lens[i]) <= m
    OBVIOUS
  <1>9. n \in T /\ \A i \in DOMAIN lens : LaneBlocks(lens[i]) <= n
    <2>1. \E m \in T : \A i \in DOMAIN lens : LaneBlocks(lens[i]) <= m
      BY <1>5, <1>7
    <2> QED
      BY <1>8, <2>1
  <1>10. n = StepsOf(lens)
    BY <1>3, <1>8 DEF StepsOf
  <1> QED
    BY <1>6, <1>9, <1>10

LEMMA RoundsOfLanes ==
    ASSUME NEW lens, NEW fresh, NEW n \in Nat, n = StepsOf(lens)
    PROVE  \E f : RunOf(Lanes(lens), [i \in DOMAIN lens |-> fresh], n, f) /\ X4Absorb(lens, fresh) = f[n]
  <1>1. PICK s : s = [i \in DOMAIN lens |-> fresh]
    OBVIOUS
  <1>2. PICK f : f = CHOOSE g : RoundsAre(Lanes(lens), s, n, g)
    OBVIOUS
  <1>3. RunOf(Lanes(lens), s, n, f)
    BY <1>2, RunExists
  <1>4. \A j, w : Round(Lanes(lens), j, w) = LaneRound(lens, j, w)
    BY DEF Round, Lanes
  <1>5. \A g : RoundsAre(Lanes(lens), s, n, g)
                <=> g = [j \in 0..n |-> IF j = 0 THEN [i \in DOMAIN lens |-> fresh]
                                        ELSE LaneRound(lens, j, g[j - 1])]
    BY <1>1, <1>4 DEF RoundsAre
  <1>6. f = CHOOSE g : g = [j \in 0..n |-> IF j = 0 THEN [i \in DOMAIN lens |-> fresh]
                                           ELSE LaneRound(lens, j, g[j - 1])]
    BY <1>2, <1>5
  <1>7. X4Absorb(lens, fresh) = f[n]
    BY <1>6 DEF X4Absorb, StepsOf, LaneRound
  <1> QED
    BY <1>1, <1>3, <1>7

LEMMA X4Ends ==
    ASSUME NEW lens, DOMAIN lens = 1..3, \A i \in 1..3 : lens[i] \in Nat
    PROVE  X4Absorb(lens, Fresh(Rate))[1] =
             [h |-> SpongeBlocks(lens[1]), buf |-> Zeros(Rate), buffered |-> 0, len |-> 0]
  <1>1. PICK n \in Nat : n = StepsOf(lens)
    BY StepsExist
  <1>2. PICK a \in Nat : a = lens[1]
    OBVIOUS
  <1>3. LaneBlocks(a) <= n /\ LaneBlocks(a) \in Nat
    <2>1. 1 \in 1..3
      OBVIOUS
    <2>2. LaneBlocks(lens[1]) <= StepsOf(lens)
      BY <2>1, StepsExist
    <2> QED
      BY <1>1, <1>2, <2>2, LaneOf
  <1>4. PICK f : /\ RunOf(Lanes(lens), [i \in DOMAIN lens |-> Fresh(Rate)], n, f)
                 /\ X4Absorb(lens, Fresh(Rate)) = f[n]
    BY <1>1, RoundsOfLanes
  <1> DEFINE G == {j \in 0..n : LaneHolds(f[j][1], a, j)}
  <1>5. 0 \in G
    <2>1. f[0][1] = Fresh(Rate)
      BY <1>4 DEF RunOf
    <2> QED
      BY <2>1, LaneBegins
  <1>6. ASSUME NEW j \in 0..n, j \in G, j < n PROVE j + 1 \in G
    <2>1. PICK i : i = j + 1
      OBVIOUS
    <2>2. i \in 1..n /\ i - 1 = j /\ i \in Nat /\ i > 0 /\ i \in 0..n
      BY <1>6, <2>1
    <2>3. f[i] = Round(Lanes(lens), i, f[j])
      BY <1>4, <2>2 DEF RunOf
    <2>4. f[i] = LaneRound(lens, i, f[j])
      BY <2>3 DEF Round, Lanes
    <2>5. f[i][1] = LaneStep(f[j][1], a, i)
      BY <1>2, <2>4 DEF LaneRound, LaneStep
    <2>6. LaneHolds(f[j][1], a, i - 1)
      BY <1>6, <2>2
    <2>7. LaneHolds(f[i][1], a, i)
      BY <2>2, <2>5, <2>6, LaneSteps
    <2> QED
      BY <2>1, <2>2, <2>7
  <1> HIDE DEF G
  <1>7. n \in G
    BY <1>5, <1>6, InductTo
  <1>8. LaneHolds(f[n][1], a, n)
    BY <1>7 DEF G
  <1> QED
    BY <1>2, <1>3, <1>4, <1>8, LaneEnds

-----------------------------------------------------------------------------
(* The two streams of output.                                               *)

\* What is permuted in when no more input follows.
Again(a) == Plain([j \in 1..a |-> Zeros(Rate)])

LEMMA AgainGrows ==
    ASSUME NEW C \in Seq(Links), NEW a \in Nat
    PROVE  /\ C \o Again(a) \in Seq(Links)
           /\ C \o Again(a + 1) = Append(C \o Again(a), Compressed(Zeros(Rate), 0, "none"))
  <1>1. PICK e : e = Compressed(Zeros(Rate), 0, "none")
    OBVIOUS
  <1>2. e \in Links
    <2>1. Zeros(Rate) \in Seq(Bytes)
      BY Constants, ZerosOf
    <2> QED
      BY <1>1, <2>1, CompressedLink
  <1>3. \A n \in Nat : Again(n) = [j \in 1..n |-> e]
    BY <1>1 DEF Again, Plain
  <1>4. PICK x, y, b : x = [j \in 1..a |-> e] /\ b = a + 1 /\ y = [j \in 1..b |-> e]
    OBVIOUS
  <1>5. b \in Nat /\ x = Again(a) /\ y = Again(a + 1)
    BY <1>3, <1>4
  <1>6. x \in Seq(Links) /\ Len(x) = a /\ \A j \in 1..a : x[j] = e
    BY <1>2, <1>4
  <1>7. y \in Seq(Links) /\ Len(y) = b /\ \A j \in 1..b : y[j] = e
    BY <1>2, <1>4, <1>5
  <1>8. PICK u, v : u = C \o x /\ v = C \o y
    OBVIOUS
  <1>9. u \in Seq(Links) /\ Len(u) = Len(C) + a /\ \A i \in 1..(Len(C) + a) :
            u[i] = IF i <= Len(C) THEN C[i] ELSE x[i - Len(C)]
    BY <1>6, <1>8
  <1>10. v \in Seq(Links) /\ Len(v) = Len(C) + b /\ \A i \in 1..(Len(C) + b) :
            v[i] = IF i <= Len(C) THEN C[i] ELSE y[i - Len(C)]
    <2>1. y \in Seq(Links)
      BY <1>7
    <2>2. /\ v \in Seq(Links) /\ Len(v) = Len(C) + Len(y)
          /\ \A i \in 1..(Len(C) + Len(y)) : v[i] = IF i <= Len(C) THEN C[i] ELSE y[i - Len(C)]
      BY <1>8, <2>1, JoinOf
    <2> QED
      BY <1>7, <2>2
  <1>11. PICK w : w = Append(u, e)
    OBVIOUS
  <1>12. w \in Seq(Links) /\ Len(w) = Len(C) + b
         /\ (\A i \in 1..(Len(C) + a) : w[i] = u[i]) /\ w[Len(C) + b] = e
    BY <1>2, <1>4, <1>9, <1>11
  <1>13. \A i \in 1..Len(v) : v[i] = w[i]
    <2>1. ASSUME NEW i \in 1..(Len(C) + b) PROVE v[i] = w[i]
      <3>1. CASE i <= Len(C)
        <4>1. i \in 1..(Len(C) + a)
          BY <3>1
        <4> QED
          BY <1>9, <1>10, <1>12, <3>1, <4>1
      <3>2. CASE i > Len(C) /\ i <= Len(C) + a
        <4>1. i \in 1..(Len(C) + a) /\ i - Len(C) \in 1..a /\ i - Len(C) \in 1..b /\ ~(i <= Len(C))
          BY <1>4, <3>2
        <4> QED
          BY <1>6, <1>7, <1>9, <1>10, <1>12, <4>1, SMTT(30)
      <3>3. CASE i > Len(C) + a
        <4>1. i = Len(C) + b /\ i - Len(C) \in 1..b /\ ~(i <= Len(C))
          BY <1>4, <3>3
        <4> QED
          BY <1>7, <1>10, <1>12, <4>1
      <3> QED
        BY <3>1, <3>2, <3>3
    <2> QED
      BY <1>10, <2>1
  <1>14. v = w
    BY <1>10, <1>12, <1>13, SameSequence
  <1> QED
    BY <1>1, <1>5, <1>8, <1>9, <1>11, <1>14

\* A byte of the sponge's stream, and a sponge of which n bytes are read.
SpongeByte(C, i) ==
    [of |-> C \o Again((i - 1) \div Rate), at |-> ((i - 1) % Rate) + 1]

Reads(s, C, a, b) ==
    /\ s = [h |-> C \o Again(a), buf |-> Zeros(Rate), buffered |-> b, len |-> 0]
    /\ a \in Nat /\ b \in 0..Rate

ReadsAt(n, a, b) == n = Rate * a + b

ReadsTo(s, C, n) == \E a, b : Reads(s, C, a, b) /\ ReadsAt(n, a, b)

LEMMA PermutedIs ==
    ASSUME NEW H, NEW z, NEW b, NEW u, u = [h |-> H, buf |-> z, buffered |-> b, len |-> 0]
    PROVE  Permuted(u) = [h |-> Append(H, Compressed(z, 0, "none")), buf |-> Zeros(Rate),
                          buffered |-> 0, len |-> 0]
  <1>1. PICK e, y : e = Append(H, Compressed(z, 0, "none")) /\ y = Zeros(Rate)
    OBVIOUS
  <1>2. PICK v : v = [u EXCEPT !.h = e, !.buf = y, !.buffered = 0]
    OBVIOUS
  <1>3. v = [h |-> e, buf |-> y, buffered |-> 0, len |-> 0]
    BY <1>2
  <1>4. Permuted(u) = v
    <2>1. u.h = H /\ u.buf = z
      OBVIOUS
    <2> QED
      BY <1>1, <1>2, <2>1 DEF Permuted
  <1> QED
    BY <1>1, <1>3, <1>4

NextByte(C, a, b, n, i) == [of |-> C \o Again(a), at |-> b + i] = SpongeByte(C, n + i)

\* The bytes of one round are the next ones of the stream.
LEMMA SomeBytes ==
    ASSUME NEW C, NEW a \in Nat, NEW b \in Nat, NEW take \in Nat, b + take <= Rate,
           NEW n \in Nat, ReadsAt(n, a, b), NEW i \in 1..take
    PROVE  NextByte(C, a, b, n, i)
  <1>1. PICK r \in Nat : r = b + i - 1 /\ r < Rate /\ b + i = r + 1
    <2>1. b + i - 1 \in Nat /\ b + i - 1 < Rate
      BY Constants
    <2> QED
      BY <2>1
  <1>2. PICK w \in Nat : w = Rate * a
    BY TimesNat, Constants
  <1>3. n = w + b
    BY <1>2 DEF ReadsAt
  <1>4. PICK d, p \in Nat : d = n + i /\ p = w + r /\ d - 1 = p
    BY <1>1, <1>3
  <1>5. p \div Rate = a /\ p % Rate = r
    <2>1. p = Rate * a + r
      BY <1>2, <1>4
    <2> QED
      BY <1>1, <2>1, DivModIs, Constants, ZenonT(60)
  <1>6. SpongeByte(C, d) = [of |-> C \o Again(a), at |-> r + 1]
    BY <1>4, <1>5 DEF SpongeByte
  <1> QED
    BY <1>1, <1>4, <1>6 DEF NextByte

GivesSome(w, C, n, k) ==
    \E take, v, x : /\ take \in 1..k /\ x = [i \in 1..take |-> SpongeByte(C, n + i)]
                    /\ SqueezeSome(w) = [s |-> v, wanted |-> k - take, out |-> w.out \o x]
                    /\ ReadsTo(v, C, n + take)

LEMMA SqueezeFrom ==
    ASSUME NEW C \in Seq(Links), NEW a \in Nat, NEW b \in Nat, b < Rate,
           NEW n \in Nat, ReadsAt(n, a, b), NEW k \in Nat, k > 0, NEW w, w.wanted = k,
           NEW s, Reads(s, C, a, b), s = IF w.s.buffered = Rate THEN Permuted(w.s) ELSE w.s
    PROVE  GivesSome(w, C, n, k)
  <1>1. PICK take \in Nat : take = Fewer(Rate - b, k)
    <2>1. Rate - b \in Nat
      BY Constants
    <2> QED
      BY <2>1 DEF Fewer
  <1>2. take \in 1..k /\ b + take <= Rate /\ b + take \in 0..Rate
    BY <1>1, Constants DEF Fewer
  <1>3. PICK H : H = C \o Again(a)
    OBVIOUS
  <1>4. s = [h |-> H, buf |-> Zeros(Rate), buffered |-> b, len |-> 0]
    BY <1>3 DEF Reads
  <1>11. PICK c \in Nat : c = b + take
    OBVIOUS
  <1>12. PICK v : v = [s EXCEPT !.buffered = c]
    OBVIOUS
  <1>5. c = b + take /\ v = [s EXCEPT !.buffered = c]
    BY <1>11, <1>12
  <1>6. v = [h |-> H, buf |-> Zeros(Rate), buffered |-> c, len |-> 0]
    BY <1>4, <1>5
  <1>7. PICK x : x = [i \in 1..take |-> [of |-> H, at |-> b + i]]
    OBVIOUS
  <1>8. SqueezeSome(w) = [s |-> v, wanted |-> k - take, out |-> w.out \o x]
    <2>1. s.buffered = b /\ s.h = H /\ k # 0
      BY <1>4
    <2>2. v = [s EXCEPT !.buffered = @ + take]
      BY <1>5, <2>1
    <2> QED
      BY <1>1, <1>7, <2>1, <2>2 DEF SqueezeSome
  <1>9. x = [i \in 1..take |-> SpongeByte(C, n + i)]
    <2>1. ASSUME NEW i \in 1..take PROVE [of |-> H, at |-> b + i] = SpongeByte(C, n + i)
      <3>1. b + take <= Rate
        BY <1>2
      <3>2. NextByte(C, a, b, n, i)
        BY <3>1, SomeBytes
      <3> QED
        BY <1>3, <3>2 DEF NextByte
    <2> QED
      BY <1>7, <2>1
  <1>10. ReadsTo(v, C, n + take)
    <2>1. Reads(v, C, a, c)
      BY <1>2, <1>3, <1>5, <1>6 DEF Reads
    <2>2. ReadsAt(n + take, a, c)
      <3>1. PICK W \in Nat : W = Rate * a
        BY TimesNat, Constants
      <3>2. n = W + b
        BY <3>1 DEF ReadsAt
      <3>3. n + take = W + c
        BY <1>5, <3>2
      <3> QED
        BY <3>1, <3>3 DEF ReadsAt
    <2> QED
      BY <2>1, <2>2 DEF ReadsTo
  <1> QED
    BY <1>2, <1>8, <1>9, <1>10 DEF GivesSome

LEMMA SqueezeSomeMore ==
    ASSUME NEW C \in Seq(Links), NEW n \in Nat, NEW w, ReadsTo(w.s, C, n),
           NEW k \in Nat, k > 0, w.wanted = k
    PROVE  GivesSome(w, C, n, k)
  <1>1. PICK a, b : Reads(w.s, C, a, b) /\ ReadsAt(n, a, b)
    BY DEF ReadsTo
  <1>2. a \in Nat /\ b \in Nat /\ b <= Rate /\ w.s = [h |-> C \o Again(a), buf |-> Zeros(Rate), buffered |-> b, len |-> 0]
    BY <1>1, Constants DEF Reads
  <1>3. CASE b < Rate
    <2>1. w.s.buffered # Rate
      BY <1>2, <1>3, Constants
    <2>2. PICK s : s = w.s
      OBVIOUS
    <2>3. Reads(s, C, a, b) /\ s = IF w.s.buffered = Rate THEN Permuted(w.s) ELSE w.s
      BY <1>1, <2>1, <2>2
    <2> QED
      BY <1>1, <1>2, <1>3, <2>3, SqueezeFrom
  <1>4. CASE b = Rate
    <2>1. PICK u, s : u = w.s /\ s = Permuted(u)
      OBVIOUS
    <2>2. PICK c \in Nat : c = a + 1
      BY <1>2
    <2>3. C \o Again(c) = Append(C \o Again(a), Compressed(Zeros(Rate), 0, "none"))
      BY <1>2, <2>2, AgainGrows
    <2>4. s = [h |-> Append(C \o Again(a), Compressed(Zeros(Rate), 0, "none")), buf |-> Zeros(Rate),
               buffered |-> 0, len |-> 0]
      <3>1. u = [h |-> C \o Again(a), buf |-> Zeros(Rate), buffered |-> b, len |-> 0]
        BY <1>2, <2>1
      <3> QED
        BY <2>1, <3>1, PermutedIs
    <2>5. Reads(s, C, c, 0)
      <3>1. s = [h |-> C \o Again(c), buf |-> Zeros(Rate), buffered |-> 0, len |-> 0]
        BY <2>3, <2>4
      <3>2. 0 \in 0..Rate
        BY Constants
      <3> QED
        BY <2>2, <3>1, <3>2 DEF Reads
    <2>6. ReadsAt(n, c, 0)
      <3>1. PICK W \in Nat : W = Rate * a
        BY <1>2, TimesNat, Constants
      <3>2. n = W + Rate
        BY <1>1, <1>4, <3>1 DEF ReadsAt
      <3>3. Rate * c = W + Rate
        BY <1>2, <2>2, <3>1, TimesStep, Constants
      <3> QED
        BY <3>2, <3>3, Constants DEF ReadsAt
    <2>7. s = IF w.s.buffered = Rate THEN Permuted(w.s) ELSE w.s
      BY <1>2, <1>4, <2>1
    <2>8. 0 \in Nat /\ 0 < Rate
      BY Constants
    <2> QED
      BY <2>5, <2>6, <2>7, <2>8, SqueezeFrom
  <1> QED
    BY <1>2, <1>3, <1>4, Constants

\* A part of a stream.
Part(g, n, d) == [i \in 1..d |-> g[n + i]]

Joins(g, n, d, t) == Part(g, n, d) \o Part(g, n + d, t) = Part(g, n, d + t) /\ Len(Part(g, n, d)) = d

LEMMA PartJoin ==
    ASSUME NEW g, NEW n \in Nat, NEW d \in Nat, NEW t \in Nat
    PROVE  Joins(g, n, d, t)
  <1>1. PICK S, m, l : S = {g[i] : i \in Nat} /\ m = n + d /\ l = d + t
    OBVIOUS
  <1>2. m \in Nat /\ l \in Nat /\ \A i \in Nat : g[i] \in S
    BY <1>1
  <1>3. PICK x, y, z, u : /\ x = [i \in 1..d |-> g[n + i]] /\ y = [i \in 1..t |-> g[m + i]]
                          /\ z = [i \in 1..l |-> g[n + i]] /\ u = x \o y
    OBVIOUS
  <1>4. x \in Seq(S) /\ Len(x) = d /\ \A i \in 1..d : x[i] = g[n + i]
    <2>1. \A i \in 1..d : g[n + i] \in S
      BY <1>2
    <2> QED
      BY <1>3, <2>1
  <1>5. y \in Seq(S) /\ Len(y) = t /\ \A i \in 1..t : y[i] = g[m + i]
    <2>1. \A i \in 1..t : g[m + i] \in S
      BY <1>2
    <2> QED
      BY <1>3, <2>1
  <1>6. z \in Seq(S) /\ Len(z) = l /\ \A i \in 1..l : z[i] = g[n + i]
    <2>1. \A i \in 1..l : g[n + i] \in S
      BY <1>2
    <2> QED
      BY <1>2, <1>3, <2>1
  <1>7. x \in Seq(S) /\ y \in Seq(S)
    BY <1>4, <1>5
  <1>8. /\ u \in Seq(S) /\ Len(u) = Len(x) + Len(y)
        /\ \A i \in 1..(Len(x) + Len(y)) : u[i] = IF i <= Len(x) THEN x[i] ELSE y[i - Len(x)]
    BY <1>3, <1>7, JoinOf
  <1>9. \A i \in 1..Len(u) : u[i] = z[i]
    <2>1. ASSUME NEW i \in 1..l PROVE u[i] = z[i]
      <3>1. z[i] = g[n + i] /\ i \in 1..(Len(x) + Len(y))
        BY <1>1, <1>4, <1>5, <1>6
      <3>2. CASE i <= d
        BY <1>4, <1>8, <3>1, <3>2
      <3>3. CASE ~(i <= d)
        <4>1. PICK e \in 1..t : e = i - d /\ m + e = n + i
          BY <1>1, <3>3
        <4> QED
          BY <1>4, <1>5, <1>8, <3>1, <3>3, <4>1
      <3> QED
        BY <3>2, <3>3
    <2> QED
      BY <1>1, <1>4, <1>5, <1>8, <2>1
  <1>10. u = z
    BY <1>1, <1>4, <1>5, <1>6, <1>8, <1>9, SameSequence
  <1> QED
    BY <1>1, <1>3, <1>4, <1>10 DEF Part, Joins

SpongeStream(C) == [i \in Nat |-> SpongeByte(C, i)]

SqueezesTo(w, C, n, k, d) ==
    \E v : w = [s |-> v, wanted |-> k - d, out |-> Part(SpongeStream(C), n, d)] /\ ReadsTo(v, C, n + d)

\* After as many rounds as bytes were wanted, all are there.
SqueezesAll(w, C, n, k, j) == \E d \in 0..k : SqueezesTo(w, C, n, k, d) /\ (d >= j \/ d = k)

LEMMA SqueezeStep ==
    ASSUME NEW C \in Seq(Links), NEW n \in Nat, NEW k \in Nat, NEW d \in 0..k, d < k,
           NEW w, SqueezesTo(w, C, n, k, d)
    PROVE  \E e \in 0..k : e > d /\ SqueezesTo(SqueezeSome(w), C, n, k, e)
  <1>1. PICK v : /\ w = [s |-> v, wanted |-> k - d, out |-> Part(SpongeStream(C), n, d)]
                 /\ ReadsTo(v, C, n + d)
    BY DEF SqueezesTo
  <1>2. PICK m, l \in Nat : m = n + d /\ l = k - d /\ l > 0
    OBVIOUS
  <1>3. m \in Nat
    BY <1>2
  <1>4. PICK p : p = Part(SpongeStream(C), n, d)
    OBVIOUS
  <1>5. w.s = v /\ w.wanted = l /\ w.out = p /\ ReadsTo(w.s, C, m)
    BY <1>1, <1>2, <1>4
  <1>6. GivesSome(w, C, m, l)
    BY <1>2, <1>3, <1>5, SqueezeSomeMore
  <1>7. PICK take, u, x : /\ take \in 1..l /\ x = [i \in 1..take |-> SpongeByte(C, m + i)]
                          /\ SqueezeSome(w) = [s |-> u, wanted |-> l - take, out |-> w.out \o x]
                          /\ ReadsTo(u, C, m + take)
    BY <1>6 DEF GivesSome
  <1>8. PICK e \in 0..k : e = d + take /\ e > d /\ m + take = n + e /\ l - take = k - e
    BY <1>2, <1>7
  <1>9. x = Part(SpongeStream(C), m, take)
    <2>1. \A i \in 1..take : SpongeStream(C)[m + i] = SpongeByte(C, m + i)
      BY <1>3 DEF SpongeStream
    <2> QED
      BY <1>7, <2>1 DEF Part
  <1>10. p \o x = Part(SpongeStream(C), n, e)
    <2>1. take \in Nat /\ d \in Nat
      BY <1>7
    <2>2. Joins(SpongeStream(C), n, d, take)
      BY <2>1, PartJoin
    <2> QED
      BY <1>2, <1>4, <1>8, <1>9, <2>2 DEF Joins
  <1>11. SqueezesTo(SqueezeSome(w), C, n, k, e)
    BY <1>5, <1>7, <1>8, <1>10 DEF SqueezesTo
  <1> QED
    BY <1>8, <1>11

LEMMA SqueezeReads ==
    ASSUME NEW C \in Seq(Links), NEW n \in Nat, NEW s, ReadsTo(s, C, n), NEW k \in Nat
    PROVE  SqueezesTo(Squeeze(s, k), C, n, k, k)
  <1>1. PICK w : w = [s |-> s, wanted |-> k, out |-> <<>>]
    OBVIOUS
  <1>2. PICK f : RunOf(Loop("squeeze"), w, k, f) /\ Rounds(SqueezeSome, w, k) = f[k]
    BY RoundsOfSqueeze
  <1>3. Squeeze(s, k) = f[k]
    BY <1>1, <1>2 DEF Squeeze
  <1> DEFINE G == {j \in 0..k : SqueezesAll(f[j], C, n, k, j)}
  <1>4. 0 \in G
    <2>1. f[0] = w
      BY <1>2 DEF RunOf
    <2>2. Part(SpongeStream(C), n, 0) = <<>>
      BY DEF Part
    <2>3. n + 0 = n /\ k - 0 = k
      OBVIOUS
    <2>4. SqueezesTo(w, C, n, k, 0)
      BY <1>1, <2>2, <2>3 DEF SqueezesTo
    <2>5. 0 \in 0..k /\ 0 >= 0
      OBVIOUS
    <2>6. SqueezesAll(f[0], C, n, k, 0)
      BY <2>1, <2>4, <2>5 DEF SqueezesAll
    <2> QED
      BY <2>5, <2>6
  <1>5. ASSUME NEW j \in 0..k, j \in G, j < k PROVE j + 1 \in G
    <2>1. PICK d \in 0..k : SqueezesTo(f[j], C, n, k, d) /\ (d >= j \/ d = k)
      BY <1>5 DEF SqueezesAll
    <2>2. PICK x, i : x = f[j] /\ i = j + 1
      OBVIOUS
    <2>3. i \in 1..k /\ i - 1 = j
      BY <1>5, <2>2
    <2>4. f[i] = SqueezeSome(x)
      BY <1>2, <2>2, <2>3 DEF RunOf, Round, Loop
    <2>5. CASE d = k
      <3>1. x.wanted = 0
        BY <2>1, <2>2, <2>5 DEF SqueezesTo
      <3>2. SqueezeSome(x) = x
        BY <3>1 DEF SqueezeSome
      <3>3. SqueezesAll(f[i], C, n, k, i)
        BY <2>1, <2>2, <2>4, <2>5, <3>2 DEF SqueezesAll
      <3> QED
        BY <2>2, <2>3, <3>3
    <2>6. CASE d < k
      <3>1. SqueezesTo(x, C, n, k, d)
        BY <2>1, <2>2
      <3>2. PICK e \in 0..k : e > d /\ SqueezesTo(SqueezeSome(x), C, n, k, e)
        BY <2>6, <3>1, SqueezeStep
      <3>3. e >= i
        BY <2>1, <2>2, <2>6, <3>2
      <3>4. SqueezesAll(f[i], C, n, k, i)
        BY <2>4, <3>2, <3>3 DEF SqueezesAll
      <3> QED
        BY <2>2, <2>3, <3>4
    <2> QED
      BY <2>5, <2>6
  <1> HIDE DEF G
  <1>6. k \in G
    BY <1>4, <1>5, InductTo
  <1>7. PICK d \in 0..k : SqueezesTo(f[k], C, n, k, d) /\ (d >= k \/ d = k)
    BY <1>6 DEF G, SqueezesAll
  <1>8. d = k
    BY <1>7
  <1> QED
    BY <1>3, <1>7, <1>8

\* The stream of the tree's root, and its reader.
RootByte(i) == [of |-> (i - 1) \div BlockLen, at |-> ((i - 1) % BlockLen) + 1]
RootStream == [i \in Nat |-> RootByte(i)]

RootReads(r, b, c, u) == r = [block |-> b, counter |-> c, used |-> u] /\ c \in Nat /\ u \in 0..BlockLen

RootAt(n, b, c, u) == n + BlockLen = BlockLen * c + u /\ (c > 0 => b = c - 1)

RootReadsTo(r, n) == \E b, c, u : RootReads(r, b, c, u) /\ RootAt(n, b, c, u)

LEMMA RootByteIs ==
    ASSUME NEW n \in Nat, NEW b \in Nat, NEW u \in Nat, u < BlockLen, n = BlockLen * b + u
    PROVE  RootByte(n + 1) = [of |-> b, at |-> u + 1]
  <1>1. n \div BlockLen = b /\ n % BlockLen = u
    BY DivModIs, Constants
  <1>2. (n + 1) - 1 = n
    OBVIOUS
  <1> QED
    BY <1>1, <1>2 DEF RootByte

FillsOne(w, n) ==
    \E v : FillInnerSome(w) = [s |-> v, out |-> Append(w.out, RootByte(n + 1))] /\ RootReadsTo(v, n + 1)

\* A byte of block b, at offset u.
FillsFrom(r, n, b, c, u) == RootReads(r, b, c, u) /\ u < BlockLen /\ c > 0 /\ RootAt(n, b, c, u)

\* The reader once a used up block is replaced.
Refilled(s, r) ==
    r = IF s.used = BlockLen THEN [s EXCEPT !.block = s.counter, !.counter = @ + 1, !.used = 0] ELSE s

LEMMA FillFrom ==
    ASSUME NEW n \in Nat, NEW b, NEW c, NEW u, NEW w, NEW r, FillsFrom(r, n, b, c, u),
           Refilled(w.s, r)
    PROVE  FillsOne(w, n)
  <1>1. /\ r = [block |-> b, counter |-> c, used |-> u]
        /\ c \in Nat /\ c > 0 /\ u \in 0..BlockLen /\ u < BlockLen
        /\ n + BlockLen = BlockLen * c + u /\ b = c - 1
    BY DEF FillsFrom, RootReads, RootAt
  <1>2. u \in Nat /\ b \in Nat /\ c = b + 1
    BY <1>1, Constants
  <1>3. PICK W \in Nat : W = BlockLen * b
    BY <1>2, TimesNat, Constants
  <1>4. BlockLen * c = W + BlockLen
    BY <1>2, <1>3, TimesStep, Constants
  <1>5. n = W + u
    <2>1. n + BlockLen = (W + BlockLen) + u
      BY <1>1, <1>4
    <2> QED
      BY <1>2, <2>1, Constants
  <1>6. RootByte(n + 1) = [of |-> b, at |-> u + 1]
    <2>1. n = BlockLen * b + u
      BY <1>3, <1>5
    <2> QED
      BY <1>1, <1>2, <2>1, RootByteIs
  <1>7. PICK x : x = u + 1
    OBVIOUS
  <1>8. PICK v : v = [r EXCEPT !.used = x]
    OBVIOUS
  <1>9. v = [block |-> b, counter |-> c, used |-> x]
    BY <1>1, <1>8
  <1>10. FillInnerSome(w) = [s |-> v, out |-> Append(w.out, RootByte(n + 1))]
    <2>1. r.used = u /\ r.block = b
      BY <1>1
    <2>2. v = [r EXCEPT !.used = @ + 1]
      BY <1>7, <1>8, <2>1
    <2> QED
      BY <1>6, <1>7, <2>1, <2>2 DEF FillInnerSome, Refilled
  <1>11. RootReads(v, b, c, x)
    BY <1>1, <1>2, <1>7, <1>9, Constants DEF RootReads
  <1>12. RootAt(n + 1, b, c, x)
    <2>1. (n + 1) + BlockLen = (W + BlockLen) + x
      BY <1>2, <1>5, <1>7, Constants
    <2> QED
      BY <1>1, <1>4, <2>1 DEF RootAt
  <1>13. RootReadsTo(v, n + 1)
    BY <1>11, <1>12 DEF RootReadsTo
  <1> QED
    BY <1>10, <1>13 DEF FillsOne

LEMMA FillSomeMore ==
    ASSUME NEW n \in Nat, NEW w, RootReadsTo(w.s, n)
    PROVE  FillsOne(w, n)
  <1>1. PICK b, c, u : RootReads(w.s, b, c, u) /\ RootAt(n, b, c, u)
    BY DEF RootReadsTo
  <1>2. PICK t : t = w.s
    OBVIOUS
  <1>3. t = [block |-> b, counter |-> c, used |-> u] /\ c \in Nat /\ u \in 0..BlockLen
    BY <1>1, <1>2 DEF RootReads
  <1>4. n + BlockLen = BlockLen * c + u /\ (c > 0 => b = c - 1)
    BY <1>1 DEF RootAt
  <1>8. PICK r : r = IF t.used = BlockLen THEN [t EXCEPT !.block = t.counter, !.counter = @ + 1, !.used = 0]
                     ELSE t
    OBVIOUS
  <1>5. Refilled(t, r)
    BY <1>8 DEF Refilled
  <1>6. CASE u = BlockLen
    <2>1. PICK d \in Nat : d = c + 1
      BY <1>3
    <2>2. PICK v : v = [t EXCEPT !.block = c, !.counter = d, !.used = 0]
      OBVIOUS
    <2>3. v = [block |-> c, counter |-> d, used |-> 0]
      BY <1>3, <2>2
    <2>4. r = v
      <3>1. t.used = BlockLen /\ t.counter = c
        BY <1>3, <1>6
      <3> QED
        BY <1>8, <2>1, <2>2, <3>1
    <2>5. RootReads(r, c, d, 0)
      BY <2>1, <2>3, <2>4, Constants DEF RootReads
    <2>6. PICK W \in Nat : W = BlockLen * c
      BY <1>3, TimesNat, Constants
    <2>7. BlockLen * d = W + BlockLen
      BY <1>3, <2>1, <2>6, TimesStep, Constants
    <2>8. n + BlockLen = (W + BlockLen) + 0
      BY <1>4, <1>6, <2>6, Constants
    <2>9. RootAt(n, c, d, 0)
      BY <1>3, <2>1, <2>7, <2>8 DEF RootAt
    <2>10. FillsFrom(r, n, c, d, 0)
      BY <1>3, <2>1, <2>5, <2>9, Constants DEF FillsFrom
    <2> QED
      BY <1>2, <1>5, <2>10, FillFrom
  <1>7. CASE u # BlockLen
    <2>1. u < BlockLen /\ u \in Nat
      BY <1>3, <1>7, Constants
    <2>2. c > 0
      <3>1. CASE c = 0
        <4>1. BlockLen * c = 0
          BY <3>1, Constants
        <4> QED
          BY <1>4, <2>1, <4>1, Constants
      <3> QED
        BY <1>3, <3>1
    <2>3. r = t
      BY <1>3, <1>7, <1>8
    <2>4. FillsFrom(r, n, b, c, u)
      BY <1>1, <1>2, <2>1, <2>2, <2>3 DEF FillsFrom
    <2> QED
      BY <1>2, <1>5, <2>4, FillFrom
  <1> QED
    BY <1>6, <1>7

FillsTo(w, n, j) == \E v : w = [s |-> v, out |-> Part(RootStream, n, j)] /\ RootReadsTo(v, n + j)

LEMMA FillReads ==
    ASSUME NEW n \in Nat, NEW r, RootReadsTo(r, n), NEW k \in Nat
    PROVE  FillsTo(FillInner(r, k), n, k)
  <1>1. PICK w : w = [s |-> r, out |-> <<>>]
    OBVIOUS
  <1>2. PICK f : RunOf(Loop("fill"), w, k, f) /\ Rounds(FillInnerSome, w, k) = f[k]
    BY RoundsOfFill
  <1>3. FillInner(r, k) = f[k]
    BY <1>1, <1>2 DEF FillInner
  <1> DEFINE G == {j \in 0..k : FillsTo(f[j], n, j)}
  <1>4. 0 \in G
    <2>1. f[0] = w
      BY <1>2 DEF RunOf
    <2>2. Part(RootStream, n, 0) = <<>>
      BY DEF Part
    <2>3. n + 0 = n
      OBVIOUS
    <2>4. FillsTo(f[0], n, 0)
      BY <1>1, <2>1, <2>2, <2>3 DEF FillsTo
    <2> QED
      BY <2>4
  <1>5. ASSUME NEW j \in 0..k, j \in G, j < k PROVE j + 1 \in G
    <2>1. PICK v : f[j] = [s |-> v, out |-> Part(RootStream, n, j)] /\ RootReadsTo(v, n + j)
      BY <1>5 DEF FillsTo
    <2>2. PICK x, i, m : x = f[j] /\ i = j + 1 /\ m = n + j
      OBVIOUS
    <2>3. i \in 1..k /\ i - 1 = j /\ m \in Nat /\ m + 1 = n + i
      BY <1>5, <2>2
    <2>4. f[i] = FillInnerSome(x)
      BY <1>2, <2>2, <2>3 DEF RunOf, Round, Loop
    <2>5. x.s = v /\ x.out = Part(RootStream, n, j) /\ RootReadsTo(x.s, m)
      BY <2>1, <2>2
    <2>6. FillsOne(x, m)
      BY <2>3, <2>5, FillSomeMore
    <2>7. PICK u : FillInnerSome(x) = [s |-> u, out |-> Append(x.out, RootByte(m + 1))] /\ RootReadsTo(u, m + 1)
      BY <2>6 DEF FillsOne
    <2>8. Append(x.out, RootByte(m + 1)) = Part(RootStream, n, i)
      <3>1. PICK e, a, b : e = RootByte(m + 1) /\ a = x.out /\ b = Append(a, e)
        OBVIOUS
      <3>2. PICK S : S = {RootStream[l] : l \in Nat}
        OBVIOUS
      <3>3. e = RootStream[n + i]
        BY <2>3, <3>1 DEF RootStream
      <3>4. e \in S
        BY <2>3, <3>2, <3>3
      <3>5. \A l \in 1..j : RootStream[n + l] \in S
        BY <3>2
      <3>6. a = [l \in 1..j |-> RootStream[n + l]]
        BY <2>5, <3>1 DEF Part
      <3>7. a \in Seq(S) /\ Len(a) = j /\ \A l \in 1..j : a[l] = RootStream[n + l]
        BY <3>5, <3>6
      <3>8. b = [l \in 1..i |-> IF l = i THEN e ELSE a[l]]
        BY <2>2, <2>3, <3>1, <3>4, <3>7
      <3>9. \A l \in 1..i : (IF l = i THEN e ELSE a[l]) = RootStream[n + l]
        BY <2>2, <2>3, <3>3, <3>7, SMTT(30)
      <3>10. b = [l \in 1..i |-> RootStream[n + l]]
        BY <3>8, <3>9
      <3> QED
        BY <3>1, <3>10 DEF Part
    <2>9. FillsTo(f[i], n, i)
      BY <2>3, <2>4, <2>7, <2>8 DEF FillsTo
    <2> QED
      BY <2>2, <2>3, <2>9
  <1> HIDE DEF G
  <1>6. k \in G
    BY <1>4, <1>5, InductTo
  <1>7. FillsTo(f[k], n, k)
    BY <1>6 DEF G
  <1> QED
    BY <1>3, <1>7

-----------------------------------------------------------------------------
(* The hashers: what has been fed, and what the end of it makes.            *)

LEMMA MessageMore ==
    ASSUME NEW n \in Nat, NEW x \in Nat, NEW d, d = [i \in 1..x |-> n + i]
    PROVE  /\ d \in Seq(Bytes) /\ Message(n) \in Seq(Bytes)
           /\ Message(n) \o d = Message(n + x) /\ n + x \in Nat
  <1>1. PICK m, l : m = Message(n) /\ l = n + x
    OBVIOUS
  <1>2. l \in Nat
    BY <1>1
  <1>3. m \in Seq(Bytes) /\ Len(m) = n /\ \A i \in 1..n : m[i] = i
    BY <1>1, MessageOf
  <1>4. d \in Seq(Bytes) /\ Len(d) = x /\ \A i \in 1..x : d[i] = n + i
    BY DEF Bytes
  <1>5. PICK u, v : u = m \o d /\ v = Message(l)
    OBVIOUS
  <1>6. v \in Seq(Bytes) /\ Len(v) = l /\ \A i \in 1..l : v[i] = i
    BY <1>2, <1>5, MessageOf
  <1>7. m \in Seq(Bytes) /\ d \in Seq(Bytes)
    BY <1>3, <1>4
  <1>8. /\ u \in Seq(Bytes) /\ Len(u) = Len(m) + Len(d)
        /\ \A i \in 1..(Len(m) + Len(d)) : u[i] = IF i <= Len(m) THEN m[i] ELSE d[i - Len(m)]
    BY <1>5, <1>7, JoinOf
  <1>9. \A i \in 1..Len(u) : u[i] = v[i]
    <2>1. ASSUME NEW i \in 1..l PROVE u[i] = v[i]
      <3>1. v[i] = i /\ i \in 1..(Len(m) + Len(d))
        BY <1>1, <1>3, <1>4, <1>6
      <3>2. CASE i <= n
        BY <1>3, <1>8, <3>1, <3>2
      <3>3. CASE ~(i <= n)
        <4>1. i - n \in 1..x /\ n + (i - n) = i
          BY <1>1, <3>3
        <4> QED
          BY <1>3, <1>4, <1>8, <3>1, <3>3, <4>1
      <3> QED
        BY <3>2, <3>3
    <2> QED
      BY <1>1, <1>3, <1>4, <1>8, <2>1
  <1>10. u = v
    BY <1>1, <1>3, <1>4, <1>6, <1>8, <1>9, SameSequence
  <1> QED
    BY <1>1, <1>2, <1>5, <1>7, <1>10

LEMMA MessageNone ==
    Message(0) = <<>>
  BY DEF Message

\* Updated, Finalized and Reference of a kind.
UpdatedOf(k, s, data) ==
    CASE k \in {"sha256", "sha256 ni", "sha512", "poly1305"} -> EagerUpdate(s, data)
      [] k \in {"hmac", "hmac ni"} -> [s EXCEPT !.inner = EagerUpdate(@, data)]
      [] k \in {"blake2", "blake2 keyed"} -> Blake2Update(s, data)
      [] k = "cmac" -> CmacUpdate(s, data)
      [] k \in {"sha3", "shake"} -> SpongeAbsorb(s, data)
      [] k = "blake3" -> Blake3Update(s, data)

FinalizedOf(k, s) ==
    CASE k \in {"sha256", "sha256 ni"} -> Sha256Finalize(s)
      [] k = "hmac" -> tag(s)
      [] k = "hmac ni" -> hmac_sha256_finish(s)
      [] k = "poly1305" -> Poly1305Finalize(s)
      [] k = "sha512" -> Sha512Finalize(s)
      [] k \in {"blake2", "blake2 keyed"} -> Blake2Finalize(s)
      [] k = "cmac" -> CmacFinalize(s)
      [] k = "sha3" -> SpongeFinish(s).h

ReferenceOf(k, n) ==
    CASE k \in {"sha256", "sha256 ni", "sha512"} -> Sha2Blocks(Message(n))
      [] k \in {"hmac", "hmac ni"} -> HmacOf(Message(n))
      [] k = "poly1305" -> Poly1305Blocks(Message(n))
      [] k = "blake2" -> Blake2Blocks(Message(n))
      [] k = "blake2 keyed" -> Blake2Blocks(KeyPad(KeyByte) \o Message(n))
      [] k = "cmac" -> CmacBlocks(n)
      [] k \in {"sha3", "shake", "x4"} -> SpongeBlocks(n)
      [] k = "blake3" -> Blake3Tree(n)

LEMMA FedNothing ==
    ASSUME NEW k \in Kinds
    PROVE  Fed(k, NewState(k), Message(0))
  <1>1. PICK m : m = Message(0)
    OBVIOUS
  <1>2. m = <<>>
    BY <1>1, MessageNone
  <1>3. CASE k \in {"sha256", "sha256 ni", "sha512", "poly1305"}
    <2>1. NewState(k) = Fresh(BlockLen)
      BY <1>3 DEF NewState
    <2>2. EagerHolds(Fresh(BlockLen), m)
      BY <1>2, EagerFresh
    <2> QED
      BY <1>1, <1>3, <2>1, <2>2 DEF Fed
  <1>4. CASE k \in {"hmac", "hmac ni"}
    <2>1. NewState(k) = absorb_pads
      BY <1>4 DEF NewState
    <2>2. HmacHolds(absorb_pads, m)
      BY <1>2, PadsHold
    <2> QED
      BY <1>1, <1>4, <2>1, <2>2 DEF Fed, HmacHolds
  <1>5. CASE k = "blake2"
    <2>1. NewState(k) = Fresh(BlockLen)
      BY <1>5 DEF NewState
    <2>2. LazyHolds(Fresh(BlockLen), m, BlockLen)
      BY <1>2, LazyFresh, Constants
    <2> QED
      BY <1>1, <1>5, <2>1, <2>2 DEF Fed
  <1>6. CASE k = "blake2 keyed"
    <2>1. PICK K, s : K = KeyPad(KeyByte) /\ s = Fresh(BlockLen)
      OBVIOUS
    <2>2. NewState(k) = LazyUpdate(s, K, BlockLen)
      BY <1>6, <2>1 DEF NewState, Blake2Update, KeyPad
    <2>3. K \in Seq(Bytes)
      BY <2>1, KeyPadOf, PadsAreBytes
    <2>4. LazyHolds(s, m, BlockLen)
      BY <1>2, <2>1, LazyFresh, Constants
    <2>5. m \in Seq(Bytes) /\ m \o K = K /\ K \o m = K
      BY <1>2, <2>3, EmptyJoin
    <2>6. LazyHolds(LazyUpdate(s, K, BlockLen), K \o m, BlockLen)
      BY <2>3, <2>4, <2>5, LazyFeeds, Constants
    <2> QED
      BY <1>1, <1>6, <2>1, <2>2, <2>6 DEF Fed
  <1>7. CASE k = "cmac"
    <2>1. NewState(k) = Fresh(BlockLen)
      BY <1>7 DEF NewState
    <2>2. LazyHolds(Fresh(BlockLen), m, 0)
      BY <1>2, LazyFresh
    <2> QED
      BY <1>1, <1>7, <2>1, <2>2 DEF Fed
  <1>8. CASE k \in {"sha3", "shake"}
    <2>1. NewState(k) = Fresh(Rate)
      BY <1>8 DEF NewState
    <2>2. PICK z : z = Zeros(Rate)
      OBVIOUS
    <2>3. z \in Seq(Bytes)
      BY <2>2, ZerosOf, Constants
    <2>4. m \in Seq(Bytes) /\ Len(m) = 0 /\ m \o z = z /\ m = m \o m
      BY <1>2, <2>3, EmptyJoin
    <2>5. IsWhole(m, Rate, 0)
      BY <2>4, Constants DEF IsWhole
    <2>6. Splits(m, Rate, 0, m, m)
      BY <2>4, <2>5, Constants DEF Splits
    <2>7. Plain(Cut(m, Rate)) = <<>>
      <3>1. Cut(m, Rate) = <<>>
        BY <1>2, CutNone, Constants
      <3> QED
        BY <3>1 DEF Plain
    <2>8. Rate - Len(m) = Rate
      BY <2>4, Constants
    <2>9. SpongeParts(Fresh(Rate), m, 0, m, m)
      BY <2>2, <2>4, <2>6, <2>7, <2>8 DEF SpongeParts, Fresh
    <2>10. SpongeHolds(Fresh(Rate), m)
      BY <2>9, SpongeFromParts
    <2> QED
      BY <1>1, <1>8, <2>1, <2>10 DEF Fed
  <1>9. CASE k = "x4"
    BY <1>9 DEF Fed, NewState
  <1>10. CASE k = "blake3"
    BY <1>10 DEF Fed
  <1> QED
    BY <1>3, <1>4, <1>5, <1>6, <1>7, <1>8, <1>9, <1>10 DEF Kinds

LEMMA FedMore ==
    ASSUME NEW k \in Kinds, k # "x4", NEW s, NEW m \in Seq(Bytes), Fed(k, s, m), NEW d \in Seq(Bytes)
    PROVE  Fed(k, UpdatedOf(k, s, d), m \o d)
  <1>1. PICK u, o : u = UpdatedOf(k, s, d) /\ o = m \o d
    OBVIOUS
  <1>2. CASE k \in {"sha256", "sha256 ni", "sha512", "poly1305"}
    <2>1. EagerHolds(s, m)
      BY <1>2 DEF Fed
    <2>2. u = EagerUpdate(s, d)
      BY <1>1, <1>2 DEF UpdatedOf
    <2>3. EagerHolds(u, o)
      BY <1>1, <2>1, <2>2, EagerFeeds
    <2> QED
      BY <1>1, <1>2, <2>3 DEF Fed
  <1>3. CASE k \in {"hmac", "hmac ni"}
    <2>1. HmacHolds(s, m)
      BY <1>3 DEF Fed, HmacHolds
    <2>2. u = [s EXCEPT !.inner = EagerUpdate(@, d)]
      BY <1>1, <1>3 DEF UpdatedOf
    <2>3. HmacHolds(u, o)
      BY <1>1, <2>1, <2>2, HmacFeeds
    <2> QED
      BY <1>1, <1>3, <2>3 DEF Fed, HmacHolds
  <1>4. CASE k = "blake2"
    <2>1. LazyHolds(s, m, BlockLen)
      BY <1>4 DEF Fed
    <2>2. u = LazyUpdate(s, d, BlockLen)
      BY <1>1, <1>4 DEF UpdatedOf, Blake2Update
    <2>3. LazyHolds(u, o, BlockLen)
      BY <1>1, <2>1, <2>2, LazyFeeds, Constants
    <2> QED
      BY <1>1, <1>4, <2>3 DEF Fed
  <1>5. CASE k = "blake2 keyed"
    <2>1. PICK K, M : K = KeyPad(KeyByte) /\ M = K \o m
      OBVIOUS
    <2>2. K \in Seq(Bytes)
      BY <2>1, KeyPadOf, PadsAreBytes
    <2>3. M \in Seq(Bytes) /\ Associate(K, m, d)
      BY <2>1, <2>2, JoinOf, Associates
    <2>4. LazyHolds(s, M, BlockLen)
      BY <1>5, <2>1 DEF Fed
    <2>5. u = LazyUpdate(s, d, BlockLen)
      BY <1>1, <1>5 DEF UpdatedOf, Blake2Update
    <2>6. LazyHolds(u, M \o d, BlockLen)
      BY <2>3, <2>4, <2>5, LazyFeeds, Constants
    <2>7. LazyHolds(u, K \o o, BlockLen)
      BY <1>1, <2>1, <2>3, <2>6 DEF Associate
    <2> QED
      BY <1>1, <1>5, <2>1, <2>7 DEF Fed
  <1>6. CASE k = "cmac"
    <2>1. LazyHolds(s, m, 0)
      BY <1>6 DEF Fed
    <2>2. u = LazyUpdate(s, d, 0)
      BY <1>1, <1>6 DEF UpdatedOf, CmacUpdate
    <2>3. LazyHolds(u, o, 0)
      BY <1>1, <2>1, <2>2, LazyFeeds
    <2> QED
      BY <1>1, <1>6, <2>3 DEF Fed
  <1>7. CASE k \in {"sha3", "shake"}
    <2>1. SpongeHolds(s, m)
      BY <1>7 DEF Fed
    <2>2. u = SpongeAbsorb(s, d)
      BY <1>1, <1>7 DEF UpdatedOf
    <2>3. SpongeHolds(u, o)
      BY <1>1, <2>1, <2>2, SpongeFeeds
    <2> QED
      BY <1>1, <1>7, <2>3 DEF Fed
  <1>8. CASE k = "blake3"
    BY <1>8 DEF Fed
  <1> QED
    BY <1>1, <1>2, <1>3, <1>4, <1>5, <1>6, <1>7, <1>8 DEF Kinds

LEMMA FedEnds ==
    ASSUME NEW k \in Kinds, k \notin Streams, NEW s, NEW n \in Nat, Fed(k, s, Message(n))
    PROVE  FinalizedOf(k, s) = ReferenceOf(k, n)
  <1>1. PICK m : m = Message(n)
    OBVIOUS
  <1>2. m \in Seq(Bytes) /\ Len(m) = n /\ Fed(k, s, m)
    BY <1>1, MessageOf
  <1>3. CASE k \in {"sha256", "sha256 ni"}
    <2>1. EagerHolds(s, m)
      BY <1>2, <1>3 DEF Fed
    <2>2. Sha256Finalize(s) = Sha2Blocks(m)
      BY <1>2, <2>1, Sha256Ends
    <2> QED
      BY <1>1, <1>3, <2>2 DEF FinalizedOf, ReferenceOf
  <1>4. CASE k = "sha512"
    <2>1. EagerHolds(s, m)
      BY <1>2, <1>4 DEF Fed
    <2>2. Sha512Finalize(s) = Sha2Blocks(m)
      BY <1>2, <2>1, Sha512Ends
    <2> QED
      BY <1>1, <1>4, <2>2 DEF FinalizedOf, ReferenceOf
  <1>5. CASE k \in {"hmac", "hmac ni"}
    <2>1. HmacHolds(s, m)
      BY <1>2, <1>5 DEF Fed, HmacHolds
    <2>2. tag(s) = HmacOf(m) /\ hmac_sha256_finish(s) = HmacOf(m)
      BY <1>2, <2>1, TagEnds, HmacFinish
    <2> QED
      BY <1>1, <1>5, <2>2 DEF FinalizedOf, ReferenceOf
  <1>6. CASE k = "poly1305"
    <2>1. EagerHolds(s, m)
      BY <1>2, <1>6 DEF Fed
    <2>2. Poly1305Finalize(s) = Poly1305Blocks(m)
      BY <1>2, <2>1, PolyEnds
    <2> QED
      BY <1>1, <1>6, <2>2 DEF FinalizedOf, ReferenceOf
  <1>7. CASE k = "blake2"
    <2>1. LazyHolds(s, m, BlockLen)
      BY <1>2, <1>7 DEF Fed
    <2>2. Blake2Finalize(s) = Blake2Blocks(m)
      BY <1>2, <2>1, Blake2Ends
    <2> QED
      BY <1>1, <1>7, <2>2 DEF FinalizedOf, ReferenceOf
  <1>8. CASE k = "blake2 keyed"
    <2>1. PICK K, M : K = KeyPad(KeyByte) /\ M = K \o m
      OBVIOUS
    <2>2. K \in Seq(Bytes)
      BY <2>1, KeyPadOf, PadsAreBytes
    <2>3. M \in Seq(Bytes) /\ LazyHolds(s, M, BlockLen)
      BY <1>2, <1>8, <2>1, <2>2, JoinOf DEF Fed
    <2>4. Blake2Finalize(s) = Blake2Blocks(M)
      BY <2>3, Blake2Ends
    <2> QED
      BY <1>1, <1>8, <2>1, <2>4 DEF FinalizedOf, ReferenceOf
  <1>9. CASE k = "cmac"
    <2>1. LazyHolds(s, Message(n), 0) /\ Message(n) \in Seq(Bytes) /\ Len(Message(n)) = n
      BY <1>1, <1>2, <1>9 DEF Fed
    <2>2. CmacFinalize(s) = CmacBlocks(n)
      BY <2>1, CmacEnds
    <2> QED
      BY <1>9, <2>2 DEF FinalizedOf, ReferenceOf
  <1>10. CASE k = "sha3"
    <2>1. SpongeHolds(s, Message(n))
      BY <1>1, <1>2, <1>10 DEF Fed
    <2>2. SpongeFinish(s).h = SpongeBlocks(n)
      BY <2>1, SpongeEnds
    <2> QED
      BY <1>10, <2>2 DEF FinalizedOf, ReferenceOf
  <1> QED
    BY <1>3, <1>4, <1>5, <1>6, <1>7, <1>8, <1>9, <1>10 DEF Kinds, Streams

\* A digest is that of the message.
DigestIs(k, d) == d # NoDigest => d.value = ReferenceOf(k, d.of)

LEMMA OneShotEnds ==
    ASSUME NEW k \in {"sha256 ni", "hmac", "hmac ni"}, NEW n \in Nat, NEW short_key \in BOOLEAN
    PROVE  (CASE k = "sha256 ni" -> one_shot_sha_ni(Message(n))
              [] k = "hmac ni" /\ short_key -> hmac_sha256_one_shot(Message(n))
              [] OTHER -> hmac_one_shot(Message(n))) = ReferenceOf(k, n)
  <1>1. PICK m : m = Message(n)
    OBVIOUS
  <1>2. m \in Seq(Bytes)
    BY <1>1, MessageOf
  <1>3. /\ one_shot_sha_ni(m) = Sha2Blocks(m)
        /\ hmac_sha256_one_shot(m) = HmacOf(m) /\ hmac_one_shot(m) = HmacOf(m)
    BY <1>2, ShaNiEnds, HmacFast, HmacOneShot
  <1>4. CASE k = "sha256 ni"
    BY <1>1, <1>3, <1>4 DEF ReferenceOf
  <1>5. CASE k \in {"hmac", "hmac ni"}
    BY <1>1, <1>3, <1>5 DEF ReferenceOf
  <1> QED
    BY <1>4, <1>5

-----------------------------------------------------------------------------
(* Reading, and the invariant.                                              *)

StreamOf(k, n) == IF k = "blake3" THEN RootStream ELSE SpongeStream(SpongeBlocks(n))

ReaderAt(k, n, s, l) == IF k = "blake3" THEN RootReadsTo(s, l) ELSE ReadsTo(s, SpongeBlocks(n), l)

\* What has been read, and the reader that read it.
Reading(k, n, s, o) ==
    /\ k \in Streams /\ Len(o) \in Nat /\ o = Part(StreamOf(k, n), 0, Len(o))
    /\ ReaderAt(k, n, s, Len(o))

LEMMA ReadingBegins ==
    ASSUME NEW k \in Streams, NEW n \in Nat, NEW s, ReaderAt(k, n, s, 0)
    PROVE  Reading(k, n, s, <<>>)
  <1>1. Part(StreamOf(k, n), 0, 0) = <<>>
    BY DEF Part
  <1>2. Len(<<>>) = 0
    OBVIOUS
  <1> QED
    BY <1>1, <1>2 DEF Reading

LEMMA SpongeReader ==
    ASSUME NEW C \in Seq(Links)
    PROVE  ReadsTo([h |-> C, buf |-> Zeros(Rate), buffered |-> 0, len |-> 0], C, 0)
  <1>1. Again(0) = <<>>
    BY DEF Again, Plain
  <1>2. C \o Again(0) = C
    BY <1>1, EmptyJoin
  <1>3. Reads([h |-> C, buf |-> Zeros(Rate), buffered |-> 0, len |-> 0], C, 0, 0)
    BY <1>2, Constants DEF Reads
  <1>4. ReadsAt(0, 0, 0)
    BY Constants DEF ReadsAt
  <1> QED
    BY <1>3, <1>4 DEF ReadsTo

LEMMA RootReader ==
    RootReadsTo([block |-> 0, counter |-> 0, used |-> BlockLen], 0)
  <1>1. RootReads([block |-> 0, counter |-> 0, used |-> BlockLen], 0, 0, BlockLen)
    BY Constants DEF RootReads
  <1>2. RootAt(0, 0, 0, BlockLen)
    BY Constants DEF RootAt
  <1> QED
    BY <1>1, <1>2 DEF RootReadsTo

LEMMA ReadingGoesOn ==
    ASSUME NEW k, NEW n \in Nat, NEW s, NEW o, Reading(k, n, s, o), NEW x \in Nat,
           NEW got, got = IF k = "blake3" THEN FillInner(s, x) ELSE Squeeze(s, x)
    PROVE  Reading(k, n, got.s, o \o got.out)
  <1>1. PICK l \in Nat : l = Len(o)
    BY DEF Reading
  <1>2. PICK g : g = StreamOf(k, n)
    OBVIOUS
  <1>3. k \in Streams /\ o = Part(g, 0, l) /\ ReaderAt(k, n, s, l)
    BY <1>1, <1>2 DEF Reading
  <1>4. got.out = Part(g, l, x) /\ ReaderAt(k, n, got.s, l + x)
    <2>1. CASE k = "blake3"
      <3>1. RootReadsTo(s, l)
        BY <1>3, <2>1 DEF ReaderAt
      <3>2. FillsTo(got, l, x)
        BY <2>1, <3>1, FillReads
      <3>3. got.out = Part(RootStream, l, x) /\ RootReadsTo(got.s, l + x)
        BY <3>2 DEF FillsTo
      <3> QED
        BY <1>2, <2>1, <3>3 DEF StreamOf, ReaderAt
    <2>2. CASE k # "blake3"
      <3>1. PICK C : C = SpongeBlocks(n)
        OBVIOUS
      <3>2. C \in Seq(Links)
        BY <3>1, LaneOf
      <3>3. ReadsTo(s, C, l)
        BY <1>3, <2>2, <3>1 DEF ReaderAt
      <3>4. SqueezesTo(got, C, l, x, x)
        BY <2>2, <3>2, <3>3, SqueezeReads
      <3>5. got.out = Part(SpongeStream(C), l, x) /\ ReadsTo(got.s, C, l + x)
        BY <3>4 DEF SqueezesTo
      <3> QED
        BY <1>2, <2>2, <3>1, <3>5 DEF StreamOf, ReaderAt
    <2> QED
      BY <2>1, <2>2
  <1>9. PICK m \in Nat : m = l + x
    OBVIOUS
  <1>10. PICK p : p = o \o got.out
    OBVIOUS
  <1>5. m = l + x /\ p = o \o got.out
    BY <1>9, <1>10
  <1>6. p = Part(g, 0, m)
    <2>1. Joins(g, 0, l, x)
      BY PartJoin
    <2>2. 0 + l = l
      OBVIOUS
    <2> QED
      BY <1>3, <1>4, <1>5, <2>1, <2>2 DEF Joins
  <1>7. Len(p) = m /\ m \in Nat
    <2>1. Joins(g, 0, m, 0) /\ m \in Nat
      BY <1>1, <1>5, PartJoin
    <2> QED
      BY <1>6, <2>1 DEF Joins
  <1>8. Reading(k, n, got.s, p)
    BY <1>2, <1>3, <1>4, <1>5, <1>6, <1>7 DEF Reading
  <1> QED
    BY <1>5, <1>8

\* The invariant, of the values of the variables.
InvOf(k, n, s, g, d, o) ==
    /\ k \in Kinds /\ n \in Nat
    /\ g \in {"absorbing", "reading", "ended", "refused"}
    /\ g = "absorbing" => Fed(k, s, Message(n)) /\ o = <<>>
    /\ g = "reading" => Reading(k, n, s, o)
    /\ k # "blake3" => DigestIs(k, d)

Inv == InvOf(kind, length, state, stage, digest, output)

LEMMA InitInv ==
    HashInit => Inv
  <1> SUFFICES ASSUME HashInit PROVE Inv
    OBVIOUS
  <1>1. /\ kind \in Kinds /\ length = 0 /\ state = NewState(kind) /\ stage = "absorbing"
        /\ digest = NoDigest /\ output = <<>>
    BY DEF HashInit
  <1>2. Fed(kind, state, Message(length))
    BY <1>1, FedNothing
  <1> QED
    BY <1>1, <1>2 DEF Inv, InvOf, DigestIs

LEMMA UpdateInv ==
    ASSUME Inv, NEW x \in 0..MaxPiece, HashUpdate(x)
    PROVE  Inv'
  <1>1. /\ stage = "absorbing" /\ kind # "x4" /\ length' = length + x
        /\ state' = Updated(state, [i \in 1..x |-> length + i])
        /\ UNCHANGED <<kind, stage, digest, output, down>>
    BY DEF HashUpdate
  <1>2. /\ kind \in Kinds /\ length \in Nat /\ Fed(kind, state, Message(length)) /\ output = <<>>
        /\ kind # "blake3" => DigestIs(kind, digest)
    BY <1>1 DEF Inv, InvOf
  <1>3. PICK d : d = [i \in 1..x |-> length + i]
    OBVIOUS
  <1>4. x \in Nat
    OBVIOUS
  <1>5. d \in Seq(Bytes) /\ Message(length) \in Seq(Bytes) /\ Message(length) \o d = Message(length + x)
        /\ length + x \in Nat
    BY <1>2, <1>3, <1>4, MessageMore
  <1>6. state' = UpdatedOf(kind, state, d)
    BY <1>1, <1>3 DEF Updated, UpdatedOf
  <1>7. Fed(kind, UpdatedOf(kind, state, d), Message(length) \o d)
    BY <1>1, <1>2, <1>5, FedMore
  <1> QED
    BY <1>1, <1>2, <1>5, <1>6, <1>7 DEF Inv, InvOf

LEMMA FinalizeInv ==
    ASSUME Inv, HashFinalize
    PROVE  Inv'
  <1>1. /\ stage = "absorbing" /\ kind \notin Streams
        /\ UNCHANGED <<kind, length, state, output>>
        /\ \/ stage' = "refused" /\ digest' = digest
           \/ stage' = "ended" /\ digest' = [of |-> length, value |-> Finalized(state)]
    BY DEF HashFinalize
  <1>2. /\ kind \in Kinds /\ length \in Nat /\ Fed(kind, state, Message(length))
        /\ kind # "blake3" => DigestIs(kind, digest)
    BY <1>1 DEF Inv, InvOf
  <1>3. Finalized(state) = ReferenceOf(kind, length)
    <2>1. FinalizedOf(kind, state) = ReferenceOf(kind, length)
      BY <1>1, <1>2, FedEnds
    <2>2. Finalized(state) = FinalizedOf(kind, state)
      BY DEF Finalized, FinalizedOf
    <2> QED
      BY <2>1, <2>2
  <1>4. kind # "blake3" => DigestIs(kind, digest')
    BY <1>1, <1>2, <1>3 DEF DigestIs
  <1> QED
    BY <1>1, <1>2, <1>4 DEF Inv, InvOf

LEMMA OneShotInv ==
    ASSUME Inv, NEW n \in 0..MaxLen, NEW short_key \in BOOLEAN, OneShot(n, short_key)
    PROVE  Inv'
  <1>1. PICK v : v = CASE kind = "sha256 ni" -> one_shot_sha_ni(Message(n))
                       [] kind = "hmac ni" /\ short_key -> hmac_sha256_one_shot(Message(n))
                       [] OTHER -> hmac_one_shot(Message(n))
    OBVIOUS
  <1>2. /\ kind \in {"sha256 ni", "hmac", "hmac ni"} /\ stage = "absorbing"
        /\ UNCHANGED <<kind, length, state, output>>
        /\ \/ stage' = "refused" /\ digest' = digest
           \/ stage' = "ended" /\ digest' = [of |-> n, value |-> v]
    BY <1>1 DEF OneShot, Message
  <1>3. /\ kind \in Kinds /\ length \in Nat /\ (kind # "blake3" => DigestIs(kind, digest))
    BY DEF Inv, InvOf
  <1>4. v = ReferenceOf(kind, n)
    <2>1. n \in Nat
      OBVIOUS
    <2> QED
      BY <1>1, <1>2, <2>1, OneShotEnds
  <1>5. kind # "blake3" => DigestIs(kind, digest')
    <2>1. CASE digest' = digest
      BY <1>3, <2>1
    <2>2. CASE digest' = [of |-> n, value |-> v]
      <3>1. digest'.of = n /\ digest'.value = v
        BY <2>2
      <3> QED
        BY <1>4, <3>1 DEF DigestIs
    <2> QED
      BY <1>2, <2>1, <2>2
  <1> QED
    BY <1>2, <1>3, <1>5 DEF Inv, InvOf

LEMMA ReaderInv ==
    ASSUME Inv, FinalizeReader
    PROVE  Inv'
  <1>1. /\ stage = "absorbing" /\ kind = "shake" /\ stage' = "reading"
        /\ state' = SpongeFinish(state) /\ digest' = [of |-> length, value |-> state'.h]
        /\ UNCHANGED <<kind, length, output>>
    BY DEF FinalizeReader
  <1>2. /\ kind \in Kinds /\ length \in Nat /\ Fed(kind, state, Message(length)) /\ output = <<>>
    BY <1>1 DEF Inv, InvOf
  <1>3. SpongeHolds(state, Message(length))
    BY <1>1, <1>2 DEF Fed
  <1>4. PICK C : C = SpongeBlocks(length)
    OBVIOUS
  <1>5. state' = [h |-> C, buf |-> Zeros(Rate), buffered |-> 0, len |-> 0]
    BY <1>1, <1>2, <1>3, <1>4, SpongeEnds
  <1>6. Reading(kind, length, state', <<>>)
    <2>1. C \in Seq(Links)
      BY <1>2, <1>4, LaneOf
    <2>2. ReadsTo(state', C, 0)
      BY <1>5, <2>1, SpongeReader
    <2>3. ReaderAt(kind, length, state', 0) /\ kind \in Streams
      BY <1>1, <1>4, <2>2 DEF ReaderAt, Streams
    <2> QED
      BY <1>2, <2>3, ReadingBegins
  <1>7. DigestIs(kind, digest')
    BY <1>1, <1>4, <1>5 DEF DigestIs, ReferenceOf
  <1> QED
    BY <1>1, <1>2, <1>6, <1>7 DEF Inv, InvOf

LEMMA X4Inv ==
    ASSUME Inv, NEW len \in 0..MaxLen, NEW other \in 0..MaxLen, X4(len, <<other, 0>>)
    PROVE  Inv'
  <1>1. PICK lens, lanes : lens = <<len>> \o <<other, 0>> /\ lanes = X4Absorb(lens, state)
    OBVIOUS
  <1>2. /\ stage = "absorbing" /\ kind = "x4" /\ stage' = "reading" /\ length' = len
        /\ state' = lanes[1] /\ digest' = [of |-> len, value |-> lanes[1].h]
        /\ UNCHANGED <<kind, output>>
    BY <1>1 DEF X4
  <1>3. kind \in Kinds /\ Fed(kind, state, Message(length)) /\ output = <<>>
    BY <1>2 DEF Inv, InvOf
  <1>4. state = Fresh(Rate)
    BY <1>2, <1>3 DEF Fed
  <1>5. DOMAIN lens = 1..3 /\ (\A i \in 1..3 : lens[i] \in Nat) /\ lens[1] = len
    <2>1. PICK a, b : a = <<len>> /\ b = <<other, 0>>
      OBVIOUS
    <2>2. a \in Seq(Nat) /\ Len(a) = 1 /\ a[1] = len
      BY <2>1
    <2>3. b \in Seq(Nat) /\ Len(b) = 2
      BY <2>1
    <2>4. lens \in Seq(Nat) /\ Len(lens) = Len(a) + Len(b) /\ \A i \in 1..Len(a) : lens[i] = a[i]
      BY <1>1, <2>1, <2>2, <2>3, JoinOf
    <2>5. Len(lens) = 3 /\ DOMAIN lens = 1..3 /\ lens[1] = len
      BY <2>2, <2>3, <2>4
    <2>6. \A i \in 1..Len(lens) : lens[i] \in Nat
      BY <2>4
    <2> QED
      BY <2>5, <2>6
  <1>6. PICK C : C = SpongeBlocks(len)
    OBVIOUS
  <1>7. state' = [h |-> C, buf |-> Zeros(Rate), buffered |-> 0, len |-> 0]
    BY <1>1, <1>2, <1>4, <1>5, <1>6, X4Ends
  <1>8. len \in Nat
    OBVIOUS
  <1>9. Reading(kind, len, state', <<>>)
    <2>1. C \in Seq(Links)
      BY <1>6, <1>8, LaneOf
    <2>2. ReadsTo(state', C, 0)
      BY <1>7, <2>1, SpongeReader
    <2>3. ReaderAt(kind, len, state', 0) /\ kind \in Streams
      BY <1>2, <1>6, <2>2 DEF ReaderAt, Streams
    <2> QED
      BY <1>8, <2>3, ReadingBegins
  <1>10. DigestIs(kind, digest')
    <2>1. lanes[1].h = C
      BY <1>2, <1>7
    <2> QED
      BY <1>2, <1>6, <2>1 DEF DigestIs, ReferenceOf
  <1> QED
    BY <1>2, <1>3, <1>8, <1>9, <1>10 DEF Inv, InvOf

LEMMA Blake3Inv ==
    ASSUME Inv, Blake3Finalize \/ Blake3FinalizeXof
    PROVE  Inv'
  <1>1. CASE Blake3Finalize
    BY <1>1 DEF Blake3Finalize, Inv, InvOf
  <1>2. CASE Blake3FinalizeXof
    <2>1. /\ stage = "absorbing" /\ kind = "blake3" /\ stage' = "reading"
          /\ state' = [block |-> 0, counter |-> 0, used |-> BlockLen]
          /\ UNCHANGED <<kind, length, output>>
      BY <1>2 DEF Blake3FinalizeXof
    <2>2. kind \in Kinds /\ length \in Nat /\ output = <<>>
      BY <2>1 DEF Inv, InvOf
    <2>3. ReaderAt(kind, length, state', 0) /\ kind \in Streams
      BY <2>1, RootReader DEF ReaderAt, Streams
    <2>4. Reading(kind, length, state', <<>>)
      BY <2>2, <2>3, ReadingBegins
    <2> QED
      BY <2>1, <2>2, <2>4 DEF Inv, InvOf
  <1> QED
    BY <1>1, <1>2

LEMMA ReadInv ==
    ASSUME Inv, NEW x \in 0..MaxPiece, HashRead(x)
    PROVE  Inv'
  <1>1. PICK got : got = IF kind = "blake3" THEN FillInner(state, x) ELSE Squeeze(state, x)
    OBVIOUS
  <1>2. /\ stage = "reading" /\ UNCHANGED <<kind, length, stage, digest>>
        /\ \/ UNCHANGED <<state, output>>
           \/ state' = got.s /\ output' = output \o got.out
    BY <1>1 DEF HashRead
  <1>3. /\ kind \in Kinds /\ length \in Nat /\ Reading(kind, length, state, output)
        /\ kind # "blake3" => DigestIs(kind, digest)
    BY <1>2 DEF Inv, InvOf
  <1>4. x \in Nat
    OBVIOUS
  <1>5. Reading(kind, length, got.s, output \o got.out)
    BY <1>1, <1>3, <1>4, ReadingGoesOn
  <1>6. Reading(kind, length, state', output')
    BY <1>2, <1>3, <1>5
  <1> QED
    BY <1>2, <1>3, <1>6 DEF Inv, InvOf

LEMMA NextInv ==
    Inv /\ [HashNext]_hashVars => Inv'
  <1> SUFFICES ASSUME Inv, [HashNext]_hashVars PROVE Inv'
    OBVIOUS
  <1>1. ASSUME NEW n \in 0..MaxPiece, HashUpdate(n) PROVE Inv'
    BY <1>1, UpdateInv
  <1>2. CASE HashFinalize
    BY <1>2, FinalizeInv
  <1>3. ASSUME NEW n \in 0..MaxLen, NEW short_key \in BOOLEAN, OneShot(n, short_key) PROVE Inv'
    BY <1>3, OneShotInv
  <1>4. CASE FinalizeReader
    BY <1>4, ReaderInv
  <1>5. ASSUME NEW len \in 0..MaxLen, NEW other \in 0..MaxLen, X4(len, <<other, 0>>) PROVE Inv'
    BY <1>5, X4Inv
  <1>6. CASE Blake3Finalize \/ Blake3FinalizeXof
    BY <1>6, Blake3Inv
  <1>7. ASSUME NEW n \in 0..MaxPiece, HashRead(n) PROVE Inv'
    BY <1>7, ReadInv
  <1>8. CASE HashModuleFails
    BY <1>8 DEF HashModuleFails, Inv, InvOf
  <1>9. CASE UNCHANGED hashVars
    BY <1>9 DEF hashVars, Inv, InvOf
  <1> QED
    BY <1>1, <1>2, <1>3, <1>4, <1>5, <1>6, <1>7, <1>8, <1>9 DEF HashNext

-----------------------------------------------------------------------------
(* What TLC checks of the same specification.                               *)

LEMMA StreamIs ==
    ASSUME kind \in Streams, NEW i \in Nat
    PROVE  StreamByte(i) = StreamOf(kind, length)[i]
  <1>1. CASE kind = "blake3"
    BY <1>1 DEF StreamByte, StreamOf, RootStream, RootByte
  <1>2. CASE kind # "blake3"
    <2>1. Reference(length) = SpongeBlocks(length)
      BY <1>2 DEF Reference, Streams
    <2>2. StreamOf(kind, length)[i] = SpongeByte(SpongeBlocks(length), i)
      BY <1>2 DEF StreamOf, SpongeStream
    <2>3. StreamByte(i) = SpongeByte(Reference(length), i)
      BY <1>2 DEF StreamByte, SpongeByte, Again
    <2> QED
      BY <2>1, <2>2, <2>3
  <1> QED
    BY <1>1, <1>2

LEMMA SpongeReadOf ==
    ASSUME NEW s, NEW C, NEW n \in Nat, ReadsTo(s, C, n)
    PROVE  SpongeRead(s, C, n)
  <1>1. PICK a, b : Reads(s, C, a, b) /\ ReadsAt(n, a, b)
    BY DEF ReadsTo
  <1>2. a \in Nat /\ b \in 0..Rate /\ b \in Nat
    BY <1>1, Constants DEF Reads
  <1>3. s = [h |-> C \o Again(a), buf |-> Zeros(Rate), buffered |-> b, len |-> 0]
    BY <1>1 DEF Reads
  <1>4. PICK W \in Nat : W = Rate * a /\ W = a * Rate
    BY <1>2, TimesNat, Constants
  <1>5. n = W + b
    BY <1>1, <1>4 DEF ReadsAt
  <1>6. a <= W
    <2>1. PICK r \in Nat : r = Rate - 1 /\ Rate = r + 1
      <3>1. Rate - 1 \in Nat /\ Rate = (Rate - 1) + 1
        BY Constants
      <3> QED
        BY <3>1
    <2>2. a * (r + 1) = a * r + a /\ a * r \in Nat
      BY <1>2, TimesStep, TimesNat
    <2> QED
      BY <1>2, <1>4, <2>1, <2>2
  <1>7. a \in 0..n /\ b = n - a * Rate
    BY <1>2, <1>4, <1>5, <1>6
  <1>8. s.buffered = b
    BY <1>3
  <1> QED
    BY <1>2, <1>3, <1>7, <1>8 DEF SpongeRead, Again

LEMMA RootReadOf ==
    ASSUME NEW r, NEW n \in Nat, RootReadsTo(r, n)
    PROVE  RootRead(r, n)
  <1>1. PICK b, c, u : RootReads(r, b, c, u) /\ RootAt(n, b, c, u)
    BY DEF RootReadsTo
  <1>2. r = [block |-> b, counter |-> c, used |-> u] /\ c \in Nat /\ u \in 0..BlockLen
    BY <1>1 DEF RootReads
  <1>3. n + BlockLen = BlockLen * c + u /\ (c > 0 => b = c - 1)
    BY <1>1 DEF RootAt
  <1>4. r.block = b /\ r.counter = c /\ r.used = u
    BY <1>2
  <1>5. n + BlockLen = c * BlockLen + u
    <2>1. BlockLen * c = c * BlockLen
      BY <1>2, Constants
    <2> QED
      BY <1>3, <2>1
  <1> QED
    BY <1>2, <1>3, <1>4, <1>5 DEF RootRead

LEMMA InvIs ==
    Inv => HashInv
  <1> SUFFICES ASSUME Inv PROVE HashInv
    OBVIOUS
  <1>1. /\ kind \in Kinds /\ length \in Nat
        /\ stage \in {"absorbing", "reading", "ended", "refused"}
        /\ stage = "absorbing" => Fed(kind, state, Message(length)) /\ output = <<>>
        /\ stage = "reading" => Reading(kind, length, state, output)
        /\ kind # "blake3" => DigestIs(kind, digest)
    BY DEF Inv, InvOf
  <1>2. kind # "blake3" => DigestOfWholeMessage
    <2> SUFFICES ASSUME kind # "blake3", digest # NoDigest PROVE digest.value = Reference(digest.of)
      BY DEF DigestOfWholeMessage
    <2>1. digest.value = ReferenceOf(kind, digest.of)
      BY <1>1 DEF DigestIs
    <2>2. Reference(digest.of) = ReferenceOf(kind, digest.of)
      BY DEF Reference, ReferenceOf, HmacOf, KeyPad
    <2> QED
      BY <2>1, <2>2
  <1>3. ASSUME stage = "reading"
        PROVE  /\ kind \in Streams
               /\ Len(output) \in Nat /\ output = [i \in 1..Len(output) |-> StreamByte(i)]
               /\ IF kind = "blake3" THEN RootRead(state, Len(output))
                  ELSE SpongeRead(state, SpongeBlocks(length), Len(output))
    <2>1. Reading(kind, length, state, output)
      BY <1>1, <1>3
    <2>2. PICK l \in Nat : l = Len(output)
      BY <2>1 DEF Reading
    <2>3. kind \in Streams /\ ReaderAt(kind, length, state, l) /\ output = Part(StreamOf(kind, length), 0, l)
      BY <2>1, <2>2 DEF Reading
    <2>4. output = [i \in 1..l |-> StreamByte(i)]
      <3>1. output = [i \in 1..l |-> StreamOf(kind, length)[0 + i]]
        BY <2>3 DEF Part
      <3>2. \A i \in 1..l : StreamOf(kind, length)[0 + i] = StreamByte(i)
        <4>1. ASSUME NEW i \in 1..l PROVE StreamOf(kind, length)[0 + i] = StreamByte(i)
          <5>1. i \in Nat /\ 0 + i = i
            OBVIOUS
          <5> QED
            BY <2>3, <5>1, StreamIs
        <4> QED
          BY <4>1
      <3> QED
        BY <3>1, <3>2
    <2>5. CASE kind = "blake3"
      <3>1. RootReadsTo(state, l)
        BY <2>3, <2>5 DEF ReaderAt
      <3>2. RootRead(state, l)
        BY <3>1, RootReadOf
      <3> QED
        BY <2>2, <2>3, <2>4, <2>5, <3>2
    <2>6. CASE kind # "blake3"
      <3>1. ReadsTo(state, SpongeBlocks(length), l)
        BY <2>3, <2>6 DEF ReaderAt
      <3>2. SpongeRead(state, SpongeBlocks(length), l)
        BY <3>1, SpongeReadOf
      <3> QED
        BY <2>2, <2>3, <2>4, <2>6, <3>2
    <2> QED
      BY <2>5, <2>6
  <1> QED
    BY <1>1, <1>2, <1>3 DEF HashInv

(* The inductive invariant: in every state that can be reached, what is     *)
(* compressed and what waits in the buffer together are the message fed so  *)
(* far, cut into blocks the way each construction cuts it (sha2.rs,         *)
(* sha3.rs, blake2.rs, cmac.rs, hmac.rs, poly1305.rs: update), a digest     *)
(* that was made is that of the whole message, and a reader stands where    *)
(* the bytes read so far end (sha3.rs, blake3.rs: the readers).             *)
THEOREM HashInvariant == HashSpec => []HashInv
  <1>1. HashSpec => []Inv
    BY InitInv, NextInv, PTL DEF HashSpec
  <1> QED
    BY <1>1, InvIs, PTL

(* However the message is cut into pieces, and on every path of finalize    *)
(* and of the one-shot functions, the digest is the one that the definition *)
(* gives of the whole message: for every construction but the tree of       *)
(* BLAKE3 (sha2.rs, sha3.rs, blake2.rs, cmac.rs, hmac.rs, poly1305.rs).     *)
THEOREM DigestsOfWholeMessages == HashSpec => [](kind # "blake3" => DigestOfWholeMessage)
  <1>1. HashInv => (kind # "blake3" => DigestOfWholeMessage)
    BY DEF HashInv
  <1> QED
    BY <1>1, HashInvariant, PTL

(* The bytes read, in reads of any lengths and across refused ones, are the *)
(* first bytes of the one stream of the message, for SHAKE, for lanes       *)
(* hashed together, and for the root of BLAKE3 (sha3.rs: squeeze; blake3.rs:*)
(* fill_inner).                                                             *)
THEOREM OneStream == HashSpec => []OutputIsOneStream
  <1>1. HashInv => OutputIsOneStream
    <2> SUFFICES ASSUME HashInv, stage = "reading", NEW i \in 1..Len(output)
                 PROVE  output[i] = StreamByte(i)
      BY DEF OutputIsOneStream
    <2>1. output = [j \in 1..Len(output) |-> StreamByte(j)]
      BY DEF HashInv
    <2>2. PICK o : o = [j \in 1..Len(output) |-> StreamByte(j)]
      OBVIOUS
    <2>3. o[i] = StreamByte(i)
      BY <2>2
    <2> QED
      BY <2>1, <2>2, <2>3
  <1> QED
    BY <1>1, HashInvariant, PTL
=============================================================================
