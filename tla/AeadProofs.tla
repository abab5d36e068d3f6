------------------------------ MODULE AeadProofs ------------------------------
(***************************************************************************)
(* Proofs about Aead, for any calls, any size of a block, any width of the  *)
(* counter and any group of the kernels: every byte gets its own keystream  *)
(* byte, a tag is over everything, and no plaintext is handed back that was *)
(* not verified.                                                            *)
(***************************************************************************)
EXTENDS Aead, WellFoundedInduction, SequenceTheorems, TLAPS

-----------------------------------------------------------------------------
(* Arithmetic.                                                              *)

LEMMA Least ==
    ASSUME NEW T, T \subseteq Nat, T # {}
    PROVE  \E x \in T : \A y \in T : x <= y
  <1> DEFINE R == OpToRel(<, Nat)
  <1>1. IsWellFoundedOn(R, Nat)
    BY NatLessThanWellFounded
  <1> HIDE DEF R
  <1>2. PICK x \in T : \A y \in T : ~(<<y, x>> \in R)
    BY <1>1, WFMin
  <1>3. \A y \in T : ~(y < x)
    BY <1>2 DEF OpToRel, R
  <1> QED
    BY <1>3

LEMMA DivMod ==
    ASSUME NEW a \in Nat, NEW b \in Nat, b > 0
    PROVE  /\ a = b * (a \div b) + (a % b)
           /\ a % b \in Nat /\ a % b < b
           /\ a \div b \in Nat
  <1>1. a = b * (a \div b) + (a % b)
    OBVIOUS
  <1>2. a % b \in Nat
    OBVIOUS
  <1>3. a % b < b
    OBVIOUS
  <1>4. a \div b \in Int /\ a \div b >= 0
    OBVIOUS
  <1> QED
    BY <1>1, <1>2, <1>3, <1>4

LEMMA Split ==
    ASSUME NEW a \in Nat, NEW b \in Nat, b > 0
    PROVE  \E q \in Nat, r \in Nat : a = b * q + r /\ r < b /\ q = a \div b /\ r = a % b
  <1>1. PICK q \in Nat, r \in Nat : q = a \div b /\ r = a % b
    BY DivMod
  <1>2. a = b * q + r /\ r < b
    BY <1>1, DivMod
  <1> QED
    BY <1>1, <1>2

\* There is one quotient and one remainder.
LEMMA DivModIs ==
    ASSUME NEW a \in Nat, NEW b \in Nat, NEW q \in Nat, NEW r \in Nat, r < b, a = b * q + r
    PROVE  a \div b = q /\ a % b = r
  OBVIOUS

LEMMA TimesNat ==
    ASSUME NEW a \in Nat, NEW b \in Nat
    PROVE  a * b \in Nat
  OBVIOUS

LEMMA TimesMonotonic ==
    ASSUME NEW a \in Nat, NEW b \in Nat, NEW n \in Nat, a <= b
    PROVE  a * n <= b * n
  OBVIOUS

LEMMA Distribute ==
    ASSUME NEW a \in Nat, NEW b \in Nat, NEW c \in Nat, NEW s, s = b + c
    PROVE  a * s = a * b + a * c
  OBVIOUS

LEMMA SumSplit ==
    ASSUME NEW c \in Nat, NEW q \in Nat, NEW r \in Nat, NEW m \in Nat, NEW u \in Nat, NEW v \in Nat,
           NEW x, NEW g, r + m = c * u + v, x = c * q + r + m, g = q + u
    PROVE  x = c * g + v
  <1>1. PICK cq \in Nat, cu \in Nat : cq = c * q /\ cu = c * u
    BY TimesNat
  <1>2. c * g = cq + cu
    BY <1>1, Distribute
  <1>3. x = cq + cu + v
    BY <1>1
  <1> QED
    BY <1>1, <1>2, <1>3

LEMMA SumMod ==
    ASSUME NEW c \in Nat, c > 0, NEW a \in Nat, NEW b \in Nat, NEW m \in Nat, a % c = b % c
    PROVE  (a + m) % c = (b + m) % c
  <1>1. PICK q \in Nat, r \in Nat : a = c * q + r /\ r < c /\ r = a % c
    BY Split, ZenonT(60)
  <1>2. PICK p \in Nat, s \in Nat : b = c * p + s /\ s = b % c
    BY Split, ZenonT(60)
  <1>3. PICK n \in Nat : n = r + m
    BY <1>1
  <1>4. PICK u \in Nat, v \in Nat : n = c * u + v /\ v < c
    BY Split
  <1>5. PICK x \in Nat, y \in Nat : x = a + m /\ y = b + m
    OBVIOUS
  <1>6. PICK g \in Nat, h \in Nat : g = q + u /\ h = p + u
    OBVIOUS
  <1>7. r = s /\ r + m = c * u + v
    BY <1>1, <1>2, <1>3, <1>4
  <1>8. x = c * q + r + m /\ y = c * p + r + m
    BY <1>1, <1>2, <1>5, <1>7
  <1>9. x = c * g + v
    BY <1>6, <1>7, <1>8, SumSplit
  <1>10. y = c * h + v
    BY <1>6, <1>7, <1>8, SumSplit
  <1>11. x % c = v
    BY <1>4, <1>9, DivModIs
  <1>12. y % c = v
    BY <1>4, <1>10, DivModIs
  <1> QED
    BY <1>5, <1>11, <1>12

\* A counter that was wrapped goes on like one that was not.
LEMMA WrapAgain ==
    ASSUME NEW a \in Nat, NEW b \in Nat, NEW m \in Nat, Wrap(a) = Wrap(b)
    PROVE  Wrap(a + m) = Wrap(b + m)
  <1>1. CounterValues \in Nat /\ CounterValues > 0
    BY AeadAssumption
  <1>2. a % CounterValues = b % CounterValues
    BY DEF Wrap
  <1>3. (a + m) % CounterValues = (b + m) % CounterValues
    BY <1>1, <1>2, SumMod, ZenonT(60)
  <1> QED
    BY <1>3 DEF Wrap

LEMMA WrapType ==
    ASSUME NEW a \in Nat
    PROVE  Wrap(a) \in Nat /\ Wrap(a) < CounterValues /\ Wrap(Wrap(a)) = Wrap(a)
  <1>1. CounterValues \in Nat /\ CounterValues > 0
    BY AeadAssumption
  <1>2. Wrap(a) \in Nat /\ Wrap(a) < CounterValues
    BY <1>1, DivMod DEF Wrap
  <1>3. Wrap(Wrap(a)) = Wrap(a)
    BY <1>1, <1>2 DEF Wrap
  <1> QED
    BY <1>2, <1>3

LEMMA WrapWrap ==
    ASSUME NEW a \in Nat, NEW m \in Nat
    PROVE  Wrap(Wrap(a) + m) = Wrap(a + m)
  BY WrapType, WrapAgain

LEMMA WrapSmall ==
    ASSUME NEW a \in Nat, a < CounterValues
    PROVE  Wrap(a) = a
  BY AeadAssumption DEF Wrap

-----------------------------------------------------------------------------
(* The keystream.                                                           *)

\* Byte k of the keystream from block m on is byte m * BlockBytes + k of it.
LEMMA PadFrom ==
    ASSUME NEW first \in Nat, NEW m \in Nat, NEW counter \in Nat, NEW k \in Nat,
           Wrap(counter) = Wrap(first + m)
    PROVE  Pad(counter, k) = Pad(first, m * BlockBytes + k)
  <1>1. BlockBytes \in Nat /\ BlockBytes > 0
    BY AeadAssumption
  <1>2. PICK q \in Nat, r \in Nat : /\ k = BlockBytes * q + r /\ r < BlockBytes
                                    /\ q = k \div BlockBytes /\ r = k % BlockBytes
    BY <1>1, Split
  <1>3. PICK a \in Nat, t \in Nat : a = m * BlockBytes + k /\ t = m + q
    BY <1>1, TimesNat
  <1>4. a = BlockBytes * t + r
    BY <1>1, <1>2, <1>3
  <1>5. a \div BlockBytes = t /\ a % BlockBytes = r
    BY <1>1, <1>2, <1>4, DivModIs
  <1>6. Wrap(counter + q) = Wrap(first + m + q)
    BY WrapAgain
  <1>7. Pad(counter, k) = <<Wrap(counter + q), r>>
    BY <1>2 DEF Pad
  <1>8. Pad(first, a) = <<Wrap(first + t), r>>
    BY <1>5 DEF Pad
  <1>9. first + m + q = first + t
    BY <1>3
  <1> QED
    BY <1>3, <1>6, <1>7, <1>8, <1>9

\* A group of lanes takes the blocks in their order.
LEMMA PadInGroup ==
    ASSUME NEW counter \in Nat, NEW k \in Nat, NEW lanes \in Nat, lanes > 0,
           NEW stride, stride = lanes * BlockBytes
    PROVE  Pad(counter + (k \div stride) * lanes, k % stride) = Pad(counter, k)
  <1>1. BlockBytes \in Nat /\ BlockBytes > 0
    BY AeadAssumption
  <1>2. stride \in Nat /\ stride > 0
    BY <1>1
  <1>3. PICK q \in Nat, r \in Nat : k = stride * q + r /\ q = k \div stride /\ r = k % stride
    BY <1>2, Split, ZenonT(60)
  <1>4. PICK m \in Nat : m = q * lanes
    BY TimesNat
  <1>5. k = m * BlockBytes + r
    <2>1. stride * q = q * lanes * BlockBytes
      BY <1>1
    <2> QED
      BY <1>1, <1>3, <1>4, <2>1
  <1>6. Pad(counter + m, r) = Pad(counter, m * BlockBytes + r)
    BY PadFrom
  <1> QED
    BY <1>3, <1>4, <1>5, <1>6

\* The first n bytes of a buffer xored with the keystream from a counter on.
OnPad(data, first, n) ==
    [i \in 1..Len(data) |-> IF i <= n THEN Flip(data[i], Pad(first, i - 1)) ELSE data[i]]

\* Work that has xored whole blocks, and knows the counter of the next.
Reached(w, data, first) ==
    \E b \in Nat :
        /\ w = [data |-> OnPad(data, first, b * BlockBytes), done |-> b * BlockBytes,
                counter |-> Wrap(first + b)]
        /\ b * BlockBytes <= Len(data)

LEMMA OnPadShape ==
    ASSUME NEW data, Len(data) \in Nat, NEW first, NEW n
    PROVE  /\ Len(OnPad(data, first, n)) = Len(data)
           /\ DOMAIN OnPad(data, first, n) = 1..Len(data)
  BY DEF OnPad

LEMMA ReachedShape ==
    ASSUME NEW data, Len(data) \in Nat, NEW first \in Nat, NEW w, Reached(w, data, first)
    PROVE  \E b \in Nat : /\ w.done = b * BlockBytes /\ w.done \in 0..Len(data)
                          /\ w.data = OnPad(data, first, w.done) /\ Len(w.data) = Len(data)
                          /\ w.counter = Wrap(first + b) /\ w.counter \in Nat
                          /\ \A k \in Nat : Pad(w.counter, k) = Pad(first, w.done + k)
  <1>1. PICK b \in Nat : /\ w = [data |-> OnPad(data, first, b * BlockBytes),
                                 done |-> b * BlockBytes, counter |-> Wrap(first + b)]
                         /\ b * BlockBytes <= Len(data)
    BY DEF Reached
  <1>2. w.done \in 0..Len(data)
    BY <1>1, TimesNat, AeadAssumption
  <1>3. w.counter \in Nat /\ Wrap(w.counter) = Wrap(first + b)
    <2>1. PICK c \in Nat : c = first + b
      OBVIOUS
    <2>2. Wrap(c) \in Nat /\ Wrap(Wrap(c)) = Wrap(c)
      BY WrapType
    <2> QED
      BY <1>1, <2>1, <2>2
  <1>4. \A k \in Nat : Pad(w.counter, k) = Pad(first, b * BlockBytes + k)
    BY <1>3, PadFrom
  <1> QED
    BY <1>1, <1>2, <1>3, <1>4, OnPadShape

LEMMA WorkReached ==
    ASSUME NEW S, NEW data \in Seq(S), NEW first \in 0..(CounterValues - 1)
    PROVE  Reached(Work(data, first), data, first)
  <1>1. OnPad(data, first, 0) = data
    BY DEF OnPad
  <1>2. Wrap(first + 0) = first
    BY WrapSmall, AeadAssumption
  <1>3. 0 * BlockBytes = 0
    BY AeadAssumption
  <1>4. Work(data, first) = [data |-> OnPad(data, first, 0 * BlockBytes), done |-> 0 * BlockBytes,
                            counter |-> Wrap(first + 0)]
    BY <1>1, <1>2, <1>3 DEF Work
  <1>5. 0 * BlockBytes <= Len(data)
    BY <1>3
  <1> QED
    BY <1>4, <1>5 DEF Reached

\* The n bytes of so many groups are there.
Room(w, data, lanes, q, n) == n \in Nat /\ n = q * (lanes * BlockBytes) /\ w.done + n <= Len(data)

\* Groups that there is room for, however many.
LEMMA SomeGroupsReach ==
    ASSUME NEW data, Len(data) \in Nat, NEW first \in Nat, NEW w, Reached(w, data, first),
           NEW lanes \in Nat, lanes > 0, NEW q \in Nat, NEW n, Room(w, data, lanes, q, n)
    PROVE  /\ Reached(SomeGroups(w, lanes, q), data, first)
           /\ SomeGroups(w, lanes, q).done = w.done + n
           /\ Len(SomeGroups(w, lanes, q).data) = Len(data)
  <1>1. BlockBytes \in Nat /\ BlockBytes > 0
    BY AeadAssumption
  <1>2. PICK b \in Nat : /\ w.done = b * BlockBytes /\ w.done \in 0..Len(data)
                         /\ w.data = OnPad(data, first, w.done) /\ Len(w.data) = Len(data)
                         /\ w.counter = Wrap(first + b) /\ w.counter \in Nat
                         /\ \A k \in Nat : Pad(w.counter, k) = Pad(first, w.done + k)
    BY ReachedShape
  <1>3. PICK stride \in Nat : stride = lanes * BlockBytes
    BY <1>1, TimesNat
  <1>4. stride > 0
    BY <1>1, <1>3
  <1>13. PICK o : o = w.data
    OBVIOUS
  <1>14. PICK d \in Nat, c \in Nat : d = w.done /\ d <= Len(data) /\ c = w.counter
    <2>1. w.done \in Nat /\ w.done <= Len(data) /\ w.counter \in Nat
      BY <1>2
    <2> QED
      BY <2>1
  <1>15. o = OnPad(data, first, d) /\ Len(o) = Len(data) /\ \A k \in Nat : Pad(c, k) = Pad(first, d + k)
    BY <1>2, <1>13, <1>14
  <1>7. n \in Nat /\ n = q * stride /\ d + n <= Len(data)
    BY <1>3, <1>14 DEF Room
  <1>8. PICK m \in Nat : m = q * lanes
    BY TimesNat
  <1>9. n = m * BlockBytes
    BY <1>1, <1>3, <1>7, <1>8
  <1>11. \A k \in 0..(n - 1) : Pad(c + (k \div stride) * lanes, k % stride) = Pad(first, d + k)
    <2> SUFFICES ASSUME NEW k \in 0..(n - 1)
                 PROVE  Pad(c + (k \div stride) * lanes, k % stride) = Pad(first, d + k)
      OBVIOUS
    <2>1. Pad(c + (k \div stride) * lanes, k % stride) = Pad(c, k)
      BY <1>3, PadInGroup
    <2> QED
      BY <1>15, <2>1
  <1>17. ASSUME NEW i \in 1..Len(data)
         PROVE  (IF i \in (d + 1)..(d + n)
                 THEN Flip(o[i], Pad(c + ((i - d - 1) \div stride) * lanes, (i - d - 1) % stride))
                 ELSE o[i])
                = IF i <= d + n THEN Flip(data[i], Pad(first, i - 1)) ELSE data[i]
    <2>1. o[i] = IF i <= d THEN Flip(data[i], Pad(first, i - 1)) ELSE data[i]
      BY <1>15 DEF OnPad
    <2>2. CASE i \in (d + 1)..(d + n)
      <3>1. PICK k \in 0..(n - 1) : k = i - d - 1
        BY <1>7, <2>2
      <3>2. Pad(c + (k \div stride) * lanes, k % stride) = Pad(first, i - 1)
        BY <1>11, <3>1
      <3> QED
        BY <2>1, <2>2, <3>1, <3>2
    <2>3. CASE ~(i \in (d + 1)..(d + n))
      <3>1. i \in Nat /\ (i <= d + n => i <= d) /\ (i <= d => i <= d + n)
        BY <1>7, <2>3
      <3> QED
        BY <2>1, <2>3, <3>1
    <2> QED
      BY <2>2, <2>3
  <1>12. [i \in 1..Len(o) |->
            IF i \in (d + 1)..(d + n)
            THEN Flip(o[i], Pad(c + ((i - d - 1) \div stride) * lanes, (i - d - 1) % stride))
            ELSE o[i]]
         = OnPad(data, first, d + n)
    BY <1>15, <1>17 DEF OnPad
  <1>28. SomeGroups(w, lanes, q) = [data |-> OnPad(data, first, d + n), done |-> d + n,
                                    counter |-> Wrap(c + m)]
    BY <1>3, <1>7, <1>8, <1>12, <1>13, <1>14 DEF SomeGroups, XorOver
  <1>18. PICK e \in Nat : e = b + m
    BY <1>8
  <1>19. e * BlockBytes = d + n /\ d + n <= Len(data)
    <2>1. e * BlockBytes = b * BlockBytes + m * BlockBytes
      BY <1>1, <1>18, <1>8
    <2>2. b * BlockBytes = d
      BY <1>2, <1>14
    <2> QED
      BY <2>1, <2>2, <1>7, <1>9, <1>14
  <1>20. Wrap(c + m) = Wrap(first + e)
    <2>1. PICK f \in Nat : f = first + b
      OBVIOUS
    <2>2. Wrap(Wrap(f) + m) = Wrap(f + m)
      BY WrapWrap
    <2>3. f + m = first + e
      BY <1>18, <2>1
    <2> QED
      BY <1>2, <1>14, <2>1, <2>2, <2>3
  <1>21. Reached(SomeGroups(w, lanes, q), data, first)
    BY <1>28, <1>19, <1>20 DEF Reached
  <1>22. PICK g : g = SomeGroups(w, lanes, q)
    OBVIOUS
  <1>23. g.done = d + n /\ Len(g.data) = Len(data)
    BY <1>22, <1>28, OnPadShape
  <1>24. g.done = w.done + n
    BY <1>14, <1>23
  <1> QED
    BY <1>7, <1>21, <1>22, <1>23, <1>24

\* The groups take whole strides, and leave less than one.
LEMMA GroupsReach ==
    ASSUME NEW data, Len(data) \in Nat, NEW first \in Nat, NEW w, Reached(w, data, first),
           NEW lanes \in Nat, lanes > 0
    PROVE  /\ Reached(Groups(w, lanes), data, first)
           /\ Left(Groups(w, lanes)) \in Nat /\ Left(Groups(w, lanes)) < lanes * BlockBytes
           /\ WholeGroups(w, lanes) \in Nat
           /\ Groups(w, lanes).done = w.done + WholeGroups(w, lanes) * (lanes * BlockBytes)
           /\ Left(w) < lanes * BlockBytes => WholeGroups(w, lanes) = 0
  <1>1. BlockBytes \in Nat /\ BlockBytes > 0
    BY AeadAssumption
  <1>2. w.done \in 0..Len(data) /\ Len(w.data) = Len(data)
    BY ReachedShape
  <1>3. PICK stride \in Nat : stride = lanes * BlockBytes
    BY <1>1, TimesNat
  <1>4. stride > 0
    BY <1>1, <1>3
  <1>14. PICK d \in Nat, l \in Nat : d = w.done /\ l = Len(data) /\ d <= l
    BY <1>2
  <1>5. PICK left \in Nat : left = l - d
    BY <1>14
  <1>6. Left(w) = left
    BY <1>2, <1>5, <1>14 DEF Left
  <1>7. PICK q \in Nat, r \in Nat : left = stride * q + r /\ r < stride /\ q = left \div stride
    BY <1>4, Split
  <1>8. WholeGroups(w, lanes) = q
    BY <1>3, <1>6, <1>7 DEF WholeGroups
  <1>9. PICK n \in Nat : n = q * stride /\ left = n + r
    BY <1>7, TimesNat
  <1>10. PICK g : g = SomeGroups(w, lanes, q) /\ g = Groups(w, lanes)
    BY <1>8 DEF Groups
  <1>11. Reached(g, data, first) /\ g.done = d + n /\ Len(g.data) = Len(data)
    <2>1. n = q * (lanes * BlockBytes)
      BY <1>3, <1>9
    <2>2. w.done + n <= Len(data)
      BY <1>5, <1>9, <1>14
    <2> QED
      <3>1. Room(w, data, lanes, q, n)
        BY <2>1, <2>2 DEF Room
      <3>2. /\ Reached(SomeGroups(w, lanes, q), data, first)
            /\ SomeGroups(w, lanes, q).done = w.done + n
            /\ Len(SomeGroups(w, lanes, q).data) = Len(data)
        BY <3>1, SomeGroupsReach
      <3> QED
        BY <1>10, <1>14, <3>2
  <1>12. Left(g) = r
    <2>1. Left(g) = l - (d + n)
      BY <1>11, <1>14 DEF Left
    <2>2. left = n + r
      BY <1>9
    <2> QED
      BY <1>5, <2>1, <2>2
  <1>13. left < stride => q = 0
    BY <1>4, <1>7, DivModIs
  <1> QED
    <2>1. Reached(Groups(w, lanes), data, first) /\ Left(Groups(w, lanes)) = r
      BY <1>10, <1>11, <1>12
    <2>2. r < lanes * BlockBytes
      BY <1>3, <1>7
    <2>3. Groups(w, lanes).done = w.done + WholeGroups(w, lanes) * (lanes * BlockBytes)
      <3>1. WholeGroups(w, lanes) * (lanes * BlockBytes) = n
        BY <1>3, <1>8, <1>9
      <3>2. Groups(w, lanes).done = w.done + n
        BY <1>10, <1>11, <1>14
      <3> QED
        BY <3>1, <3>2
    <2>4. Left(w) < lanes * BlockBytes => WholeGroups(w, lanes) = 0
      BY <1>3, <1>6, <1>8, <1>13
    <2> QED
      BY <1>7, <1>8, <2>1, <2>2, <2>3, <2>4

\* The names that the lemmas below give to the parts of work.
PartsOf(w, data, first, d, c, left, o) ==
    /\ d \in Nat /\ c \in Nat /\ left \in Nat
    /\ w.done = d /\ w.counter = c /\ w.data = o /\ Left(w) = left
    /\ left = Len(data) - d /\ Len(o) = Len(data)
    /\ o = OnPad(data, first, d)
    /\ \A k \in Nat : Pad(c, k) = Pad(first, d + k)

LEMMA ReachedParts ==
    ASSUME NEW data, Len(data) \in Nat, NEW first \in Nat, NEW w, Reached(w, data, first)
    PROVE  \E d, c, left, o : PartsOf(w, data, first, d, c, left, o)
  <1>1. PICK b \in Nat : /\ w.done = b * BlockBytes /\ w.done \in 0..Len(data)
                         /\ w.data = OnPad(data, first, w.done) /\ Len(w.data) = Len(data)
                         /\ w.counter = Wrap(first + b) /\ w.counter \in Nat
                         /\ \A k \in Nat : Pad(w.counter, k) = Pad(first, w.done + k)
    BY ReachedShape
  <1>2. PICK d \in Nat, c \in Nat : d = w.done /\ d <= Len(data) /\ c = w.counter
    BY <1>1
  <1>3. PICK left \in Nat : left = Len(data) - d
    BY <1>2
  <1>4. Left(w) = left
    BY <1>1, <1>2, <1>3 DEF Left
  <1>5. PartsOf(w, data, first, d, c, left, w.data)
    BY <1>1, <1>2, <1>3, <1>4 DEF PartsOf
  <1> QED
    BY <1>5

LEMMA RestIsAll ==
    ASSUME NEW data, Len(data) \in Nat, NEW first \in Nat, NEW w, Reached(w, data, first)
    PROVE  Rest(w) = OnPad(data, first, Len(data))
  <1>0. PICK d, c, left, o : PartsOf(w, data, first, d, c, left, o)
    BY ReachedParts
  <1>1. /\ d \in Nat /\ c \in Nat /\ left \in Nat
        /\ w.done = d /\ w.counter = c /\ w.data = o /\ Left(w) = left
        /\ left = Len(data) - d /\ Len(o) = Len(data)
        /\ o = OnPad(data, first, d)
        /\ \A k \in Nat : Pad(c, k) = Pad(first, d + k)
    BY <1>0 DEF PartsOf
  <1>2. ASSUME NEW i \in 1..Len(data)
        PROVE  (IF i \in (d + 1)..(d + left) THEN Flip(o[i], Pad(c, i - d - 1)) ELSE o[i])
               = IF i <= Len(data) THEN Flip(data[i], Pad(first, i - 1)) ELSE data[i]
    <2>1. o[i] = IF i <= d THEN Flip(data[i], Pad(first, i - 1)) ELSE data[i]
      BY <1>1 DEF OnPad
    <2>2. CASE i > d
      <3>1. PICK k \in Nat : k = i - d - 1
        BY <1>1, <2>2
      <3>2. Pad(c, k) = Pad(first, i - 1)
        BY <1>1, <3>1
      <3> QED
        BY <1>1, <2>1, <2>2, <3>1, <3>2
    <2>3. CASE ~(i > d)
      BY <1>1, <2>1, <2>3
    <2> QED
      BY <2>2, <2>3
  <1>3. [i \in 1..Len(o) |-> IF i \in (d + 1)..(d + left) THEN Flip(o[i], Pad(c, i - d - 1)) ELSE o[i]]
        = OnPad(data, first, Len(data))
    BY <1>1, <1>2 DEF OnPad
  <1> QED
    BY <1>1, <1>3 DEF Rest, XorOver

\* What the two chunks of avx2_tail have in their buffer of keystream.
TailPad(c, left, k) ==
    LET size == 4 * BlockBytes
        Fresh(chunk) == Pairs(chunk) * 2 * BlockBytes
        first == IF left < size THEN left ELSE size
        ks0(j) == IF j < Fresh(first) THEN Pad(c, j) ELSE <<-2, 0>>
        ks1(j) == IF j < Fresh(left - size) THEN Pad(c + 4, j) ELSE ks0(j)
    IN  IF k < size THEN ks0(k) ELSE ks1(k - size)

\* No byte of the message meets keystream that was not refreshed for it.
LEMMA TailIsFresh ==
    ASSUME NEW c \in Nat, NEW left \in Nat, left < 8 * BlockBytes, NEW k \in Nat, k < left
    PROVE  TailPad(c, left, k) = Pad(c, k)
  <1>1. PICK B \in Nat : B = BlockBytes /\ B > 0
    BY AeadAssumption
  <1>2. ASSUME NEW x \in Int, x <= 4 * B
        PROVE  Pairs(x) * 2 * B >= x /\ Pairs(x) * 2 * B \in Nat
    BY <1>1, <1>2 DEF Pairs
  <1>3. CASE k < 4 * B
    <2>1. PICK f \in Nat : f = (IF left < 4 * B THEN left ELSE 4 * B) /\ f <= 4 * B /\ k < f
      BY <1>3
    <2>2. Pairs(f) * 2 * B >= f /\ Pairs(f) * 2 * B \in Nat
      BY <1>2, <2>1
    <2>3. k < Pairs(f) * 2 * B
      BY <2>1, <2>2
    <2> QED
      BY <1>1, <1>3, <2>1, <2>3 DEF TailPad
  <1>4. CASE ~(k < 4 * B)
    <2>1. PICK f \in Int, j \in Nat : f = left - 4 * B /\ j = k - 4 * B /\ f <= 4 * B /\ j < f
      BY <1>1, <1>4
    <2>2. Pairs(f) * 2 * B >= f /\ Pairs(f) * 2 * B \in Nat
      BY <1>2, <2>1
    <2>3. j < Pairs(f) * 2 * B
      BY <2>1, <2>2
    <2>4. TailPad(c, left, k) = Pad(c + 4, j)
      BY <1>1, <1>4, <2>1, <2>3 DEF TailPad
    <2>5. Pad(c + 4, j) = Pad(c, 4 * BlockBytes + j)
      BY PadFrom
    <2> QED
      BY <1>1, <2>1, <2>4, <2>5
  <1> QED
    BY <1>3, <1>4

LEMMA TailIsAll ==
    ASSUME NEW data, Len(data) \in Nat, NEW first \in Nat, NEW w, Reached(w, data, first),
           Left(w) < 8 * BlockBytes
    PROVE  avx2_tail(w) = OnPad(data, first, Len(data))
  <1>0. PICK d, c, left, o : PartsOf(w, data, first, d, c, left, o)
    BY ReachedParts
  <1>1. /\ d \in Nat /\ c \in Nat /\ left \in Nat
        /\ w.done = d /\ w.counter = c /\ w.data = o /\ Left(w) = left
        /\ left = Len(data) - d /\ Len(o) = Len(data)
        /\ o = OnPad(data, first, d)
        /\ \A k \in Nat : Pad(c, k) = Pad(first, d + k)
    BY <1>0 DEF PartsOf
  <1>4. left < 8 * BlockBytes
    BY <1>1
  <1>2. ASSUME NEW i \in 1..Len(data)
        PROVE  (IF i \in (d + 1)..(d + left) THEN Flip(o[i], TailPad(c, left, i - d - 1)) ELSE o[i])
               = IF i <= Len(data) THEN Flip(data[i], Pad(first, i - 1)) ELSE data[i]
    <2>1. o[i] = IF i <= d THEN Flip(data[i], Pad(first, i - 1)) ELSE data[i]
      BY <1>1 DEF OnPad
    <2>2. CASE i > d
      <3>1. PICK k \in Nat : k = i - d - 1 /\ k < left
        BY <1>1, <2>2
      <3>2. Pad(c, k) = Pad(first, i - 1)
        BY <1>1, <3>1
      <3>4. c \in Nat /\ left \in Nat /\ k < left
        BY <1>1, <3>1
      <3>3. TailPad(c, left, k) = Pad(c, k)
        BY <1>4, <3>4, TailIsFresh
      <3> QED
        BY <1>1, <2>1, <2>2, <3>1, <3>2, <3>3
    <2>3. CASE ~(i > d)
      BY <1>1, <2>1, <2>3
    <2> QED
      BY <2>2, <2>3
  <1>3. [i \in 1..Len(o) |->
            IF i \in (d + 1)..(d + left) THEN Flip(o[i], TailPad(c, left, i - d - 1)) ELSE o[i]]
        = OnPad(data, first, Len(data))
    BY <1>1, <1>2 DEF OnPad
  <1> QED
    BY <1>1, <1>3 DEF avx2_tail, TailPad, XorOver

\* Whatever the CPU offers, xor_keystream gives every byte its own.
LEMMA KeystreamXored ==
    ASSUME NEW S, NEW data \in Seq(S), NEW first \in 0..(CounterValues - 1), NEW backend
    PROVE  xor_keystream(backend, first, data) = OnPad(data, first, Len(data))
  <1>1. Len(data) \in Nat /\ first \in Nat
    BY AeadAssumption
  <1>2. PICK w : w = Work(data, first) /\ Reached(w, data, first)
    BY WorkReached
  <1>3. PICK wide : /\ wide = IF backend = "zmm" THEN Groups(w, ZMM_LANES) ELSE w
                    /\ Reached(wide, data, first)
    BY <1>1, <1>2, GroupsReach DEF ZMM_LANES
  <1>4. PICK eight : /\ eight = IF backend # "portable" THEN Groups(wide, AVX2_LANES) ELSE wide
                     /\ Reached(eight, data, first)
                     /\ backend # "portable" => Left(eight) < 8 * BlockBytes
    BY <1>1, <1>3, GroupsReach DEF AVX2_LANES
  <1>5. xor_keystream(backend, first, data)
        = IF backend # "portable" /\ Left(eight) > BlockBytes THEN avx2_tail(eight) ELSE Rest(eight)
    BY <1>2, <1>3, <1>4 DEF xor_keystream
  <1>6. Rest(eight) = OnPad(data, first, Len(data))
    BY <1>1, <1>4, RestIsAll
  <1>7. CASE backend # "portable"
    BY <1>1, <1>4, <1>5, <1>6, <1>7, TailIsAll
  <1> QED
    BY <1>5, <1>6, <1>7

LEMMA CtrXored ==
    ASSUME NEW S, NEW data \in Seq(S), NEW first \in 0..(CounterValues - 1)
    PROVE  ctr32_xor(first, data) = OnPad(data, first, Len(data))
  <1>1. Len(data) \in Nat /\ first \in Nat
    BY AeadAssumption
  <1>2. Reached(Work(data, first), data, first)
    BY WorkReached
  <1>3. Reached(Groups(Work(data, first), Narrow), data, first)
    BY <1>1, <1>2, GroupsReach, AeadAssumption
  <1> QED
    BY <1>1, <1>3, RestIsAll DEF ctr32_xor

\* The short path has block 0 for the key, and the message from block 1 on.
LEMMA ShortXored ==
    ASSUME NEW S, NEW data \in Seq(S), Len(data) <= SHORT_MAX
    PROVE  ShortXor(data) = OnPad(data, 1, Len(data))
  <1>1. PICK B \in Nat, n \in Nat : B = BlockBytes /\ B > 0 /\ n = Len(data) /\ n <= 3 * B
    BY AeadAssumption DEF SHORT_MAX
  <1>2. PICK fresh \in Nat : fresh = (IF n <= B THEN 2 ELSE 4) * B
    BY <1>1
  <1>3. ASSUME NEW i \in 1..n
        PROVE  (IF i \in (0 + 1)..(0 + n)
                THEN Flip(data[i], IF B + (i - 0 - 1) < fresh THEN Pad(0, B + (i - 0 - 1)) ELSE <<-2, 0>>)
                ELSE data[i])
               = IF i <= n THEN Flip(data[i], Pad(1, i - 1)) ELSE data[i]
    <2>1. PICK k \in Nat : k = i - 1 /\ k < n
      OBVIOUS
    <2>2. B + k < fresh
      BY <1>1, <1>2, <2>1
    <2>3. Pad(0 + 1, k) = Pad(0, 1 * BlockBytes + k)
      BY PadFrom
    <2>4. Pad(0, B + k) = Pad(1, k)
      BY <1>1, <2>3
    <2> QED
      BY <2>1, <2>2, <2>4
  <1>4. [i \in 1..n |->
           IF i \in (0 + 1)..(0 + n)
           THEN Flip(data[i], IF B + (i - 0 - 1) < fresh THEN Pad(0, B + (i - 0 - 1)) ELSE <<-2, 0>>)
           ELSE data[i]]
        = OnPad(data, 1, n)
    BY <1>1, <1>3 DEF OnPad
  <1> QED
    BY <1>1, <1>2, <1>4 DEF ShortXor, XorOver, Work

-----------------------------------------------------------------------------
(* What a tag is computed over.                                             *)

AByte == [place : Int, pads : SUBSET (Int \X Int)]
Blocks == Seq(AByte)

LEMMA PadType ==
    ASSUME NEW counter \in Nat, NEW k \in Nat
    PROVE  Pad(counter, k) \in Int \X Int
  <1>1. k \div BlockBytes \in Nat /\ k % BlockBytes \in Nat
    BY DivMod, AeadAssumption
  <1>2. PICK q \in Nat : q = counter + k \div BlockBytes
    BY <1>1
  <1>3. Wrap(q) \in Nat
    BY WrapType
  <1> QED
    BY <1>1, <1>2, <1>3 DEF Pad

LEMMA FlipType ==
    ASSUME NEW byte \in AByte, NEW pad \in Int \X Int
    PROVE  Flip(byte, pad) \in AByte
  BY DEF Flip, AByte

LEMMA OnPadType ==
    ASSUME NEW data \in Seq(AByte), NEW first \in Nat, NEW n
    PROVE  OnPad(data, first, n) \in Seq(AByte) /\ Len(OnPad(data, first, n)) = Len(data)
  <1>1. ASSUME NEW i \in 1..Len(data)
        PROVE  (IF i <= n THEN Flip(data[i], Pad(first, i - 1)) ELSE data[i]) \in AByte
    <2>1. data[i] \in AByte /\ i - 1 \in Nat
      OBVIOUS
    <2>2. Pad(first, i - 1) \in Int \X Int
      BY <2>1, PadType
    <2> QED
      BY <2>1, <2>2, FlipType
  <1>2. OnPad(data, first, n) \in [1..Len(data) -> AByte]
    BY <1>1 DEF OnPad
  <1> QED
    BY <1>2

\* The blocks that so many bytes fill, the last one perhaps in part.
Count(n) == (n + BlockBytes - 1) \div BlockBytes

LEMMA CountIs ==
    ASSUME NEW n \in Nat
    PROVE  \E q \in Nat : q = Count(n) /\ n <= q * BlockBytes /\ q * BlockBytes < n + BlockBytes
  <1>1. PICK B \in Nat : B = BlockBytes /\ B > 0
    BY AeadAssumption
  <1>2. PICK q \in Nat, r \in Nat : n + B - 1 = B * q + r /\ r < B /\ q = (n + B - 1) \div B
    <2>1. PICK a \in Nat : a = n + B - 1
      BY <1>1
    <2> QED
      BY <1>1, <2>1, Split
  <1>3. PICK x \in Nat : x = q * B /\ x = B * q
    BY TimesNat
  <1>4. n <= x /\ x < n + B
    BY <1>1, <1>2, <1>3
  <1> QED
    BY <1>1, <1>2, <1>3, <1>4 DEF Count

\* There is one such number.
LEMMA CountUnique ==
    ASSUME NEW n \in Nat, NEW q \in Nat, n <= q * BlockBytes, q * BlockBytes < n + BlockBytes
    PROVE  Count(n) = q
  <1>1. PICK B \in Nat : B = BlockBytes /\ B > 0
    BY AeadAssumption
  <1>2. PICK x \in Nat : x = q * B /\ x = B * q
    BY TimesNat
  <1>3. PICK a \in Nat, r \in Nat : a = n + B - 1 /\ r = a - x /\ r < B
    BY <1>1, <1>2
  <1>4. a = B * q + r
    BY <1>2, <1>3
  <1>5. a \div B = q
    BY <1>1, <1>3, <1>4, DivModIs
  <1> QED
    BY <1>1, <1>3, <1>5 DEF Count

LEMMA CountShift ==
    ASSUME NEW n \in Nat, NEW m \in Nat
    PROVE  Count(m * BlockBytes + n) = m + Count(n) /\ Count(m * BlockBytes) = m
  <1>1. PICK B \in Nat : B = BlockBytes /\ B > 0
    BY AeadAssumption
  <1>2. PICK q \in Nat : q = Count(n) /\ n <= q * BlockBytes /\ q * BlockBytes < n + BlockBytes
    BY CountIs
  <1>3. PICK x \in Nat, y \in Nat : x = m * B /\ y = q * B
    BY TimesNat
  <1>4. PICK s \in Nat : s = m + q
    OBVIOUS
  <1>5. s * B = x + y
    BY <1>3, <1>4
  <1>6. x + n <= s * BlockBytes /\ s * BlockBytes < x + n + BlockBytes
    BY <1>1, <1>2, <1>3, <1>5
  <1>7. Count(x + n) = s
    BY <1>6, CountUnique
  <1>8. Count(x) = m
    BY <1>1, <1>3, CountUnique
  <1> QED
    BY <1>1, <1>2, <1>3, <1>4, <1>7, <1>8

\* Byte o of block b of what is padded.
PlaceOf(b, o) == (b - 1) * BlockBytes + o

LEMMA PlaceNat ==
    ASSUME NEW b \in Nat, b > 0, NEW o \in 1..BlockBytes
    PROVE  /\ PlaceOf(b, o) \in Nat /\ PlaceOf(b, o) > 0
           /\ \A m \in Nat : b <= m => PlaceOf(b, o) <= m * BlockBytes
           /\ \A m \in Nat : PlaceOf(m + b, o) = m * BlockBytes + PlaceOf(b, o)
  <1>1. PICK B \in Nat, c \in Nat : B = BlockBytes /\ B > 0 /\ c = b - 1
    BY AeadAssumption
  <1>2. PICK x \in Nat : x = c * B
    BY TimesNat
  <1>3. PlaceOf(b, o) = x + o /\ o <= B /\ o \in Nat /\ o > 0
    BY <1>1, <1>2 DEF PlaceOf
  <1>4. ASSUME NEW m \in Nat, b <= m
        PROVE  PlaceOf(b, o) <= m * BlockBytes
    <2>1. PICK y \in Nat : y = b * B
      BY TimesNat
    <2>2. y = x + B
      BY <1>1, <1>2, <2>1
    <2>3. PICK z \in Nat : z = m * B
      BY TimesNat
    <2>4. y <= z
      BY <1>4, <2>1, <2>3, TimesMonotonic
    <2> QED
      BY <1>1, <1>3, <2>2, <2>3, <2>4
  <1>5. ASSUME NEW m \in Nat
        PROVE  PlaceOf(m + b, o) = m * BlockBytes + PlaceOf(b, o)
    <2>1. PICK z \in Nat : z = m * B
      BY TimesNat
    <2>2. PICK d \in Nat : d = m + c
      OBVIOUS
    <2>3. d * B = z + x
      BY <1>2, <2>1, <2>2
    <2>4. PlaceOf(m + b, o) = d * B + o
      BY <1>1, <2>2 DEF PlaceOf
    <2> QED
      BY <1>1, <1>3, <2>1, <2>3, <2>4
  <1> QED
    BY <1>2, <1>3, <1>4, <1>5

LEMMA PaddedValue ==
    ASSUME NEW bytes \in Seq(AByte), NEW n, n = Len(bytes)
    PROVE  /\ Padded(bytes) \in Seq(Blocks)
           /\ Len(Padded(bytes)) = Count(n) /\ Count(n) \in Nat
           /\ Padded(bytes) = [b \in 1..Count(n) |->
                                 [o \in 1..BlockBytes |->
                                    IF PlaceOf(b, o) <= n THEN bytes[PlaceOf(b, o)] ELSE ZeroByte]]
  <1>1. PICK q \in Nat : q = Count(n)
    BY CountIs
  <1>2. Padded(bytes) = [b \in 1..q |->
                           [o \in 1..BlockBytes |->
                              IF PlaceOf(b, o) <= n THEN bytes[PlaceOf(b, o)] ELSE ZeroByte]]
    BY <1>1 DEF Padded, PlaceOf, Count
  <1>3. ASSUME NEW b \in 1..q
        PROVE  [o \in 1..BlockBytes |->
                  IF PlaceOf(b, o) <= n THEN bytes[PlaceOf(b, o)] ELSE ZeroByte] \in Blocks
    <2>1. ASSUME NEW o \in 1..BlockBytes
          PROVE  (IF PlaceOf(b, o) <= n THEN bytes[PlaceOf(b, o)] ELSE ZeroByte) \in AByte
      <3>0. b \in Nat /\ b > 0
        BY <1>1
      <3>1. PlaceOf(b, o) \in Nat /\ PlaceOf(b, o) > 0
        BY <3>0, PlaceNat
      <3>2. ZeroByte \in AByte
        BY DEF ZeroByte, Byte, AByte
      <3> QED
        BY <3>1, <3>2
    <2>2. [o \in 1..BlockBytes |->
             IF PlaceOf(b, o) <= n THEN bytes[PlaceOf(b, o)] ELSE ZeroByte]
          \in [1..BlockBytes -> AByte]
      BY <2>1
    <2> QED
      BY <2>2, AeadAssumption DEF Blocks
  <1>4. Padded(bytes) \in [1..q -> Blocks]
    BY <1>2, <1>3
  <1>5. Padded(bytes) \in Seq(Blocks) /\ Len(Padded(bytes)) = q
    BY <1>1, <1>4
  <1> QED
    BY <1>1, <1>2, <1>5

\* The first m blocks of a message, which it fills.
Whole(bytes, m) == [b \in 1..m |-> [o \in 1..BlockBytes |-> bytes[PlaceOf(b, o)]]]

LEMMA WholeType ==
    ASSUME NEW bytes \in Seq(AByte), NEW m \in Nat, m * BlockBytes <= Len(bytes)
    PROVE  Whole(bytes, m) \in Seq(Blocks) /\ Len(Whole(bytes, m)) = m
  <1>1. ASSUME NEW b \in 1..m
        PROVE  [o \in 1..BlockBytes |-> bytes[PlaceOf(b, o)]] \in Blocks
    <2>1. ASSUME NEW o \in 1..BlockBytes
          PROVE  bytes[PlaceOf(b, o)] \in AByte
      <3>1. PICK x \in Nat : x = m * BlockBytes
        BY TimesNat, AeadAssumption
      <3>0. b \in Nat /\ b > 0 /\ b <= m
        OBVIOUS
      <3>2. PlaceOf(b, o) \in Nat /\ PlaceOf(b, o) > 0 /\ PlaceOf(b, o) <= x
        BY <3>0, <3>1, PlaceNat
      <3> QED
        BY <3>1, <3>2
    <2>2. [o \in 1..BlockBytes |-> bytes[PlaceOf(b, o)]] \in [1..BlockBytes -> AByte]
      BY <2>1
    <2> QED
      BY <2>2, AeadAssumption DEF Blocks
  <1>2. Whole(bytes, m) \in [1..m -> Blocks]
    BY <1>1 DEF Whole
  <1> QED
    BY <1>2

\* After whole blocks, what is left is padded by itself.
LEMMA PaddedSplit ==
    ASSUME NEW bytes \in Seq(AByte), NEW m \in Nat, m * BlockBytes <= Len(bytes)
    PROVE  Padded(bytes) = Whole(bytes, m) \o Padded(SubSeq(bytes, m * BlockBytes + 1, Len(bytes)))
  <1>1. PICK x \in Nat, l \in Nat : x = m * BlockBytes /\ l = Len(bytes) /\ x <= l
    BY TimesNat, AeadAssumption
  <1>2. PICK rest : rest = SubSeq(bytes, x + 1, l)
    OBVIOUS
  <1>3. rest \in Seq(AByte) /\ Len(rest) = l - x /\ \A i \in 1..(l - x) : rest[i] = bytes[x + i]
    <2>1. rest \in Seq(AByte)
      BY <1>1, <1>2
    <2>2. Len(rest) = l - x
      BY <1>1, <1>2, SMTT(30)
    <2>3. \A i \in 1..(l - x) : rest[i] = bytes[x + i]
      BY <1>1, <1>2, SMTT(30)
    <2> QED
      BY <2>1, <2>2, <2>3
  <1>6. PICK n \in Nat : n = l - x /\ n = Len(rest)
    BY <1>1, <1>3
  <1>12. PICK p : p = Padded(rest)
    OBVIOUS
  <1>4. /\ p \in Seq(Blocks) /\ Len(p) = Count(n) /\ Count(n) \in Nat
        /\ p = [b \in 1..Count(n) |->
                  [o \in 1..BlockBytes |->
                     IF PlaceOf(b, o) <= n THEN rest[PlaceOf(b, o)] ELSE ZeroByte]]
    BY <1>3, <1>6, <1>12, PaddedValue
  <1>5. PICK w : w = Whole(bytes, m) /\ w \in Seq(Blocks) /\ Len(w) = m
    BY WholeType
  <1>7. Count(l) = m + Count(n)
    <2>1. Count(m * BlockBytes + n) = m + Count(n)
      BY CountShift
    <2>2. l = m * BlockBytes + n
      BY <1>1, <1>6, SMTT(30)
    <2> QED
      BY <2>1, <2>2
  <1>8. Padded(bytes) = [b \in 1..(m + Count(n)) |->
                           [o \in 1..BlockBytes |->
                              IF PlaceOf(b, o) <= l THEN bytes[PlaceOf(b, o)] ELSE ZeroByte]]
    BY <1>1, <1>7, PaddedValue, SMTT(30)
  <1>9. /\ w \o p \in Seq(Blocks) /\ Len(w \o p) = m + Count(n)
        /\ \A b \in 1..(m + Count(n)) : (w \o p)[b] = IF b <= m THEN w[b] ELSE p[b - m]
    <2>1. Len(p) = Count(n) /\ p \in Seq(Blocks) /\ Count(n) \in Nat
      BY <1>4
    <2>2. w \in Seq(Blocks) /\ Len(w) = m
      BY <1>5
    <2>3. /\ w \o p \in Seq(Blocks) /\ Len(w \o p) = Len(w) + Len(p)
          /\ \A b \in 1..(Len(w) + Len(p)) : (w \o p)[b] = IF b <= Len(w) THEN w[b] ELSE p[b - Len(w)]
      BY <2>1, <2>2, ConcatProperties, ZenonT(60)
    <2> QED
      BY <2>1, <2>2, <2>3
  <1>10. ASSUME NEW b \in 1..(m + Count(n))
         PROVE  [o \in 1..BlockBytes |-> IF PlaceOf(b, o) <= l THEN bytes[PlaceOf(b, o)] ELSE ZeroByte]
                = IF b <= m THEN w[b] ELSE p[b - m]
    <2>0. b \in Nat /\ b > 0 /\ Count(n) \in Nat
      BY <1>4, <1>6
    <2>1. CASE b <= m
      <3>1. ASSUME NEW o \in 1..BlockBytes
            PROVE  PlaceOf(b, o) <= l
        <4>1. PlaceOf(b, o) \in Nat /\ PlaceOf(b, o) <= x
          BY <1>1, <2>0, <2>1, PlaceNat
        <4> QED
          BY <1>1, <4>1
      <3>2. w[b] = [o \in 1..BlockBytes |-> bytes[PlaceOf(b, o)]]
        BY <1>5, <2>0, <2>1 DEF Whole
      <3> QED
        BY <2>1, <3>1, <3>2
    <2>2. CASE ~(b <= m)
      <3>1. PICK c \in Nat : c = b - m /\ c > 0 /\ c <= Count(n)
        BY <2>0, <2>2
      <3>2. p[c] = [o \in 1..BlockBytes |->
                      IF PlaceOf(c, o) <= n THEN rest[PlaceOf(c, o)] ELSE ZeroByte]
        BY <1>4, <1>6, <3>1
      <3>3. ASSUME NEW o \in 1..BlockBytes
            PROVE  (IF PlaceOf(b, o) <= l THEN bytes[PlaceOf(b, o)] ELSE ZeroByte)
                   = IF PlaceOf(c, o) <= n THEN rest[PlaceOf(c, o)] ELSE ZeroByte
        <4>1. PlaceOf(m + c, o) = x + PlaceOf(c, o)
          BY <1>1, <3>1, PlaceNat
        <4>2. m + c = b
          BY <2>0, <3>1
        <4>3. PICK i \in Nat : i = PlaceOf(c, o) /\ i > 0
          BY <3>1, PlaceNat
        <4>4. PlaceOf(b, o) = x + i
          BY <4>1, <4>2, <4>3
        <4>5. ASSUME i <= n PROVE rest[i] = bytes[x + i]
          <5>1. i \in 1..(l - x)
            BY <1>6, <4>3, <4>5
          <5> QED
            BY <1>3, <5>1
        <4>6. x + i <= l <=> i <= n
          <5>1. n = l - x
            BY <1>6
          <5> QED
            BY <5>1
        <4> QED
          BY <4>3, <4>4, <4>5, <4>6
      <3> QED
        BY <2>2, <3>1, <3>2, <3>3
    <2> QED
      BY <2>1, <2>2
  <1>11. Padded(bytes) = w \o p
    <2>1. PICK u : u = w \o p
      OBVIOUS
    <2>2. PICK v : v = Padded(bytes)
      OBVIOUS
    <2>3. v \in Seq(Blocks) /\ Len(v) = m + Count(n)
      BY <1>1, <1>7, <2>2, PaddedValue
    <2>4. \A b \in 1..(m + Count(n)) : v[b] = u[b]
      BY <1>8, <1>9, <1>10, <2>1, <2>2
    <2>5. u \in Seq(Blocks) /\ Len(u) = m + Count(n)
      BY <1>9, <2>1
    <2> QED
      BY <2>1, <2>2, <2>3, <2>4, <2>5, SeqEqual
  <1> QED
    BY <1>1, <1>2, <1>12, <1>5, <1>11

LEMMA SubSame ==
    ASSUME NEW S, NEW s \in Seq(S), NEW t \in Seq(S), NEW a \in Nat, NEW e \in Nat,
           a <= e, e <= Len(s), e <= Len(t), \A i \in (a + 1)..e : s[i] = t[i]
    PROVE  SubSeq(s, a + 1, e) = SubSeq(t, a + 1, e)
  <1>1. PICK u, v : u = SubSeq(s, a + 1, e) /\ v = SubSeq(t, a + 1, e)
    OBVIOUS
  <1>2. u \in Seq(S) /\ Len(u) = e - a /\ \A i \in 1..(e - a) : u[i] = s[a + i]
    BY <1>1, SMTT(30)
  <1>3. v \in Seq(S) /\ Len(v) = e - a /\ \A i \in 1..(e - a) : v[i] = t[a + i]
    BY <1>1
  <1>4. ASSUME NEW i \in 1..(e - a)
        PROVE  u[i] = v[i]
    <2>1. PICK k \in (a + 1)..e : k = a + i
      OBVIOUS
    <2> QED
      BY <1>2, <1>3, <2>1
  <1> QED
    BY <1>1, <1>2, <1>3, <1>4, SeqEqual

Agree(s, t, a, e) == \A i \in (a + 1)..e : s[i] = t[i]

PartSame(s, t, a, e) == SubSeq(s, a + 1, e) = SubSeq(t, a + 1, e)

LEMMA AgreeSame ==
    ASSUME NEW S, NEW s \in Seq(S), NEW t \in Seq(S), NEW a \in Nat, NEW e \in Nat,
           a <= e, e <= Len(s), e <= Len(t), Agree(s, t, a, e)
    PROVE  PartSame(s, t, a, e)
  BY SubSame DEF Agree, PartSame

PrefixSame(s, t, a, e) == SubSeq(SubSeq(s, 1, e), a + 1, e) = SubSeq(t, a + 1, e)

LEMMA SubOfPrefix ==
    ASSUME NEW S, NEW s \in Seq(S), NEW t \in Seq(S), NEW a \in Nat, NEW e \in Nat,
           a <= e, e <= Len(s), e <= Len(t), Agree(t, s, a, e)
    PROVE  PrefixSame(s, t, a, e)
  <1>1. PICK u : u = SubSeq(s, 1, e)
    OBVIOUS
  <1>2. u \in Seq(S) /\ Len(u) = e /\ \A i \in 1..e : u[i] = s[i]
    BY <1>1
  <1>3. e <= Len(u) /\ \A i \in (a + 1)..e : u[i] = t[i]
    BY <1>2 DEF Agree
  <1>4. SubSeq(u, a + 1, e) = SubSeq(t, a + 1, e)
    BY <1>2, <1>3, SubSame
  <1> QED
    BY <1>1, <1>4 DEF PrefixSame

LEMMA WholeSame ==
    ASSUME NEW s \in Seq(AByte), NEW t \in Seq(AByte), NEW m \in Nat, NEW e, e = m * BlockBytes,
           \A i \in 1..e : s[i] = t[i]
    PROVE  Whole(s, m) = Whole(t, m)
  <1>1. ASSUME NEW b \in 1..m, NEW o \in 1..BlockBytes
        PROVE  s[PlaceOf(b, o)] = t[PlaceOf(b, o)]
    <2>1. e \in Nat
      BY TimesNat, AeadAssumption
    <2>2. b \in Nat /\ b > 0 /\ b <= m
      OBVIOUS
    <2>3. PlaceOf(b, o) \in Nat /\ PlaceOf(b, o) > 0 /\ PlaceOf(b, o) <= e
      BY <2>2, PlaceNat
    <2> QED
      BY <2>1, <2>3
  <1> QED
    BY <1>1 DEF Whole

LEMMA WholePadded ==
    ASSUME NEW s \in Seq(AByte), NEW m \in Nat, Len(s) = m * BlockBytes
    PROVE  Padded(s) = Whole(s, m)
  <1>1. PICK n \in Nat : n = Len(s)
    OBVIOUS
  <1>2. Count(n) = m
    BY <1>1, CountShift
  <1>3. Padded(s) = [b \in 1..m |->
                       [o \in 1..BlockBytes |->
                          IF PlaceOf(b, o) <= n THEN s[PlaceOf(b, o)] ELSE ZeroByte]]
    BY <1>1, <1>2, PaddedValue
  <1>4. ASSUME NEW b \in 1..m, NEW o \in 1..BlockBytes
        PROVE  PlaceOf(b, o) <= n
    <2>1. b \in Nat /\ b > 0 /\ b <= m
      OBVIOUS
    <2> QED
      BY <1>1, <2>1, PlaceNat
  <1> QED
    BY <1>3, <1>4 DEF Whole

Extended(src, from, b, c, d, e) ==
    Whole(src, b) \o Padded(SubSeq(from, d + 1, e)) = Whole(src, c)

\* The blocks of one stretch after those before it.
LEMMA WholeExtends ==
    ASSUME NEW src \in Seq(AByte), NEW from \in Seq(AByte), NEW b \in Nat, NEW c \in Nat, b <= c,
           NEW d, NEW e, d = b * BlockBytes, e = c * BlockBytes,
           e <= Len(src), e <= Len(from), Agree(from, src, d, e)
    PROVE  Extended(src, from, b, c, d, e)
  <1>2. d \in Nat /\ e \in Nat /\ d <= e
    BY TimesNat, TimesMonotonic, AeadAssumption
  <1>3. PICK pre : pre = SubSeq(src, 1, e)
    OBVIOUS
  <1>4. pre \in Seq(AByte) /\ Len(pre) = e /\ \A i \in 1..e : pre[i] = src[i]
    BY <1>2, <1>3, SMTT(30)
  <1>6. Padded(pre) = Whole(pre, c)
    BY <1>4, WholePadded
  <1>7. Whole(pre, c) = Whole(src, c)
    BY <1>4, WholeSame, SMTT(30)
  <1>8. Whole(pre, b) = Whole(src, b)
    <2>1. \A i \in 1..d : pre[i] = src[i]
      BY <1>2, <1>4
    <2> QED
      BY <1>4, <2>1, WholeSame, SMTT(30)
  <1>9. Padded(pre) = Whole(pre, b) \o Padded(SubSeq(pre, d + 1, e))
    BY <1>2, <1>4, PaddedSplit
  <1>10. SubSeq(pre, d + 1, e) = SubSeq(from, d + 1, e)
    <2>1. PrefixSame(src, from, d, e)
      BY <1>2, SubOfPrefix
    <2> QED
      BY <1>3, <2>1 DEF PrefixSame
  <1> QED
    BY <1>6, <1>7, <1>8, <1>9, <1>10 DEF Extended

-----------------------------------------------------------------------------
(* GHASH blocks that wait.                                                  *)

\* A queue and what was multiplied in before it.
Pending == [y : Seq(Blocks), queue : Seq(Blocks)]
Content(p) == p.y \o p.queue

JoinsLast(s, t, e) == (s \o t) \o <<e>> = s \o Append(t, e)

LEMMA AppendParts ==
    ASSUME NEW S, NEW s \in Seq(S), NEW t \in Seq(S), NEW e \in S
    PROVE  JoinsLast(s, t, e)
  <1>0. <<e>> \in Seq(S)
    OBVIOUS
  <1>1. PICK u \in Seq(S) : u = <<e>>
    BY <1>0
  <1>2. Append(t, e) = t \o u
    BY <1>1
  <1> QED
    BY <1>1, <1>2, ConcatAssociative, SMTT(30) DEF JoinsLast

JoinsThree(s, t, u) == (s \o t) \o u = s \o (t \o u)

LEMMA ThreeParts ==
    ASSUME NEW s \in Seq(Blocks), NEW t \in Seq(Blocks), NEW u \in Seq(Blocks)
    PROVE  JoinsThree(s, t, u)
  BY ConcatAssociative, SMTT(30) DEF JoinsThree

LEMMA FlushedContent ==
    ASSUME NEW p \in Pending
    PROVE  Flushed(p) \in Pending /\ Content(Flushed(p)) = Content(p) /\ Flushed(p).y = Content(p)
  <1>1. PICK y \in Seq(Blocks), queue \in Seq(Blocks) : y = p.y /\ queue = p.queue
    BY DEF Pending
  <1>6. y \o queue \in Seq(Blocks)
    BY ConcatProperties
  <1>2. PICK all \in Seq(Blocks) : all = y \o queue
    BY <1>6
  <1>5. all \o <<>> = all
    BY ConcatEmptySeq
  <1>3. Flushed(p) = [y |-> all, queue |-> <<>>] /\ Content(p) = all
    BY <1>1, <1>2 DEF Flushed, Content
  <1>4. <<>> \in Seq(Blocks)
    OBVIOUS
  <1> QED
    BY <1>3, <1>4, <1>5 DEF Pending, Content

\* Whether it waits or is multiplied in, a block pushed is the last one.
LEMMA PushContent ==
    ASSUME NEW p \in Pending, NEW block \in Blocks
    PROVE  Push(p, block) \in Pending /\ Content(Push(p, block)) = Content(p) \o <<block>>
  <1>1. PICK y \in Seq(Blocks), queue \in Seq(Blocks) : p = [y |-> y, queue |-> queue]
    BY DEF Pending
  <1>2. PICK longer : longer = [y |-> y, queue |-> Append(queue, block)]
    OBVIOUS
  <1>4. Append(queue, block) \in Seq(Blocks)
    OBVIOUS
  <1>5. longer \in Pending
    BY <1>2, <1>4 DEF Pending
  <1>6. y \o Append(queue, block) = (y \o queue) \o <<block>>
    BY AppendParts DEF JoinsLast
  <1>7. Content(longer) = Content(p) \o <<block>>
    BY <1>1, <1>2, <1>6 DEF Content
  <1>8. Push(p, block) = IF Len(longer.queue) = Narrow THEN Flushed(longer) ELSE longer
    BY <1>1, <1>2 DEF Push
  <1> QED
    BY <1>5, <1>7, <1>8, FlushedContent

PushedOf(p, blocks, n, f) == f = [b \in 0..n |-> IF b = 0 THEN p ELSE Push(f[b - 1], blocks[b])]

\* However many blocks are pushed.
LEMMA PushedExist ==
    ASSUME NEW p, NEW blocks, NEW n \in Nat
    PROVE  \E f : PushedOf(p, blocks, n, f)
  <1> DEFINE T == {c \in Nat : ~ \E f : PushedOf(p, blocks, c, f)}
  <1> SUFFICES ASSUME T # {} PROVE FALSE
    OBVIOUS
  <1>1. PICK c \in T : \A d \in T : c <= d
    BY Least
  <1>2. CASE c = 0
    <2>1. PushedOf(p, blocks, 0, [b \in 0..0 |-> p])
      BY DEF PushedOf
    <2> QED
      BY <1>1, <1>2, <2>1
  <1>3. CASE c # 0
    <2>1. c - 1 \in Nat /\ ~(c <= c - 1)
      BY <1>1, <1>3
    <2>2. PICK f : PushedOf(p, blocks, c - 1, f)
      BY <1>1, <2>1
    <2> DEFINE g == [b \in 0..c |-> IF b = c THEN Push(f[c - 1], blocks[c]) ELSE f[b]]
    <2>3. ASSUME NEW b \in 0..c
          PROVE  g[b] = IF b = 0 THEN p ELSE Push(g[b - 1], blocks[b])
      <3>1. \A j \in 0..(c - 1) : g[j] = f[j] /\ f[j] = IF j = 0 THEN p ELSE Push(f[j - 1], blocks[j])
        BY <2>1, <2>2 DEF PushedOf
      <3>2. CASE b = c
        BY <1>3, <2>1, <3>1, <3>2
      <3>3. CASE b # c
        <4>1. b \in 0..(c - 1) /\ (b # 0 => b - 1 \in 0..(c - 1))
          BY <2>1, <3>3
        <4> QED
          BY <3>1, <4>1
      <3> QED
        BY <3>2, <3>3
    <2>4. g = [b \in 0..c |-> IF b = 0 THEN p ELSE Push(g[b - 1], blocks[b])]
      BY <2>3
    <2>5. PushedOf(p, blocks, c, g)
      BY <2>4 DEF PushedOf
    <2> QED
      BY <1>1, <2>5
  <1> QED
    BY <1>2, <1>3

\* All of them are there, in their order.
LEMMA PushedContent ==
    ASSUME NEW p \in Pending, NEW blocks \in Seq(Blocks)
    PROVE  Pushed(p, blocks) \in Pending /\ Content(Pushed(p, blocks)) = Content(p) \o blocks
  <1>1. PICK n \in Nat : n = Len(blocks)
    OBVIOUS
  <1>2. \E f : PushedOf(p, blocks, n, f)
    BY PushedExist
  <1>3. PICK f : f = CHOOSE h : PushedOf(p, blocks, n, h)
    OBVIOUS
  <1>4. PushedOf(p, blocks, n, f)
    BY <1>2, <1>3
  <1>5. Pushed(p, blocks) = f[n]
    BY <1>1, <1>3 DEF Pushed, PushedOf
  <1>6. \A b \in 0..n : f[b] = IF b = 0 THEN p ELSE Push(f[b - 1], blocks[b])
    BY <1>4 DEF PushedOf
  <1> DEFINE Fine(b) == f[b] \in Pending /\ Content(f[b]) = Content(p) \o SubSeq(blocks, 1, b)
  <1> DEFINE T == {b \in 0..n : ~Fine(b)}
  <1>7. T = {}
    <2> SUFFICES ASSUME T # {} PROVE FALSE
      OBVIOUS
    <2>0. T \subseteq Nat
      OBVIOUS
    <2>1. PICK b \in T : \A c \in T : b <= c
      BY <2>0, Least
    <2>2. b \in 0..n /\ ~Fine(b)
      BY SMTT(30)
    <2>3. PICK y \in Seq(Blocks) : y = Content(p)
      <3>1. PICK z \in Seq(Blocks), queue \in Seq(Blocks) : z = p.y /\ queue = p.queue
        BY DEF Pending
      <3>2. z \o queue \in Seq(Blocks)
        OBVIOUS
      <3> QED
        BY <3>1, <3>2 DEF Content
    <2>4. CASE b = 0
      <3>1. f[b] = p
        BY <1>6, <2>4
      <3>2. SubSeq(blocks, 1, 0) = <<>> /\ y \o <<>> = y
        OBVIOUS
      <3> QED
        BY <2>2, <2>3, <2>4, <3>1, <3>2
    <2>5. CASE b # 0
      <3>1. PICK c \in 0..n : c = b - 1 /\ ~(b <= c)
        BY <2>2, <2>5
      <3>2. Fine(c)
        BY <2>1, <3>1
      <3>3. f[b] = Push(f[c], blocks[b])
        BY <1>6, <2>2, <2>5, <3>1
      <3>4. PICK block \in Blocks : block = blocks[b]
        BY <1>1, <2>2, <2>5, SMTT(30)
      <3>5. f[b] \in Pending /\ Content(f[b]) = Content(f[c]) \o <<block>>
        BY <3>2, <3>3, <3>4, PushContent
      <3>6. PICK s \in Seq(Blocks) : s = SubSeq(blocks, 1, c) /\ Len(s) = c
        <4>1. c \in Nat /\ c <= Len(blocks)
          BY <1>1, <3>1
        <4>2. SubSeq(blocks, 1, c) \in Seq(Blocks) /\ Len(SubSeq(blocks, 1, c)) = c
          BY <4>1, SMTT(30)
        <4> QED
          BY <4>2
      <3>7. SubSeq(blocks, 1, b) = Append(s, block)
        BY <1>1, <2>2, <3>1, <3>4, <3>6, SMTT(30)
      <3>10. block \in Blocks /\ y \in Seq(Blocks) /\ s \in Seq(Blocks)
        BY <2>3, <3>4, <3>6
      <3>8. (y \o s) \o <<block>> = y \o Append(s, block)
        <4>1. JoinsLast(y, s, block)
          BY <3>10, AppendParts
        <4> QED
          BY <4>1 DEF JoinsLast
      <3>9. Content(f[b]) = Content(p) \o SubSeq(blocks, 1, b)
        BY <2>3, <3>2, <3>5, <3>6, <3>7, <3>8
      <3> QED
        BY <2>2, <3>5, <3>9
    <2> QED
      BY <2>4, <2>5
  <1>8. Fine(n)
    BY <1>7, SMTT(30)
  <1>9. SubSeq(blocks, 1, n) = blocks
    BY <1>1
  <1> QED
    BY <1>5, <1>8, <1>9

LEMMA PushPaddedContent ==
    ASSUME NEW p \in Pending, NEW bytes \in Seq(AByte)
    PROVE  PushPadded(p, bytes) \in Pending /\ Content(PushPadded(p, bytes)) = Content(p) \o Padded(bytes)
  BY PaddedValue, PushedContent DEF PushPadded

-----------------------------------------------------------------------------
(* The kernels of AES-GCM.                                                  *)

\* What GHASH is over: the ciphertext, whichever way the call goes.
Source(data, first, encrypting) == IF encrypting THEN OnPad(data, first, Len(data)) ELSE data

LEMMA SourceType ==
    ASSUME NEW data \in Seq(AByte), NEW first \in Nat, NEW encrypting
    PROVE  Source(data, first, encrypting) \in Seq(AByte) /\ Len(Source(data, first, encrypting)) = Len(data)
  BY OnPadType DEF Source

\* A bulk loop has hashed exactly the blocks that it has xored.
InStep(s, data, first, y0, encrypting) ==
    /\ s = [work |-> s.work, y |-> s.y] /\ Reached(s.work, data, first)
    /\ \E b \in Nat : /\ s.work.done = b * BlockBytes
                      /\ s.y = y0 \o Whole(Source(data, first, encrypting), b)

LEMMA SameBlocks ==
    ASSUME NEW a \in Nat, NEW b \in Nat, a * BlockBytes = b * BlockBytes
    PROVE  a = b
  <1>2. Count(a * BlockBytes) = a /\ Count(b * BlockBytes) = b
    BY CountShift
  <1> QED
    BY <1>2

At(w, data, first, b) ==
    /\ b \in Nat /\ w.done = b * BlockBytes /\ w.done \in Nat /\ w.done <= Len(data)
    /\ w.data = OnPad(data, first, w.done)

LEMMA ReachedAt ==
    ASSUME NEW data \in Seq(AByte), NEW first \in Nat, NEW w, Reached(w, data, first)
    PROVE  \E b \in Nat : At(w, data, first, b)
  <1>1. PICK b \in Nat : /\ w = [data |-> OnPad(data, first, b * BlockBytes),
                                 done |-> b * BlockBytes, counter |-> Wrap(first + b)]
                         /\ b * BlockBytes <= Len(data)
    BY DEF Reached
  <1>2. b * BlockBytes \in Nat
    BY TimesNat, AeadAssumption
  <1>3. At(w, data, first, b)
    BY <1>1, <1>2 DEF At
  <1> QED
    BY <1>3

\* The ciphertext up to some block is hashed after y0.
HashedTo(s, w, src, y0, b) == s = [work |-> w, y |-> y0 \o Whole(src, b)]

\* The blocks of a group after b others lie from byte d on to byte e.
Stretch(b, lanes, d, e) == d = b * BlockBytes /\ e = (b + lanes) * BlockBytes /\ e = d + lanes * BlockBytes

LEMMA StretchIs ==
    ASSUME NEW b \in Nat, NEW lanes \in Nat
    PROVE  \E d \in Nat, e \in Nat : Stretch(b, lanes, d, e)
  <1>1. PICK B \in Nat : B = BlockBytes
    BY AeadAssumption
  <1>2. PICK d \in Nat, g \in Nat, c \in Nat : d = b * B /\ g = lanes * B /\ c = b + lanes
    BY TimesNat
  <1>3. c * B = d + g
    BY <1>2
  <1>4. PICK e \in Nat : e = d + g
    OBVIOUS
  <1> QED
    BY <1>1, <1>2, <1>3, <1>4 DEF Stretch

\* What is hashed is ciphertext: sealing, groups that are encrypted already;
\* opening, groups that are not decrypted yet.
IsCipher(w, d, e, encrypting) == IF encrypting THEN e <= w.done ELSE w.done <= d

LEMMA HashGroupAdvances ==
    ASSUME NEW data \in Seq(AByte), NEW first \in Nat, NEW y0 \in Seq(Blocks), NEW encrypting,
           NEW w, Reached(w, data, first), NEW src, src = Source(data, first, encrypting),
           NEW s, NEW b \in Nat, HashedTo(s, w, src, y0, b), NEW lanes \in Nat,
           NEW d \in Nat, NEW e \in Nat, Stretch(b, lanes, d, e),
           e <= Len(data), IsCipher(w, d, e, encrypting)
    PROVE  HashedTo(HashGroup(s, lanes, d), w, src, y0, b + lanes)
  <1>1. PICK c \in Nat : c = b + lanes /\ b <= c
    OBVIOUS
  <1>2. d = b * BlockBytes /\ e = c * BlockBytes /\ e = d + lanes * BlockBytes /\ d <= e
    BY <1>1, TimesNat, AeadAssumption DEF Stretch
  <1>3. PICK f \in Nat : At(w, data, first, f)
    BY ReachedAt
  <1>15. w.done \in Nat /\ w.data = OnPad(data, first, w.done)
    BY <1>3 DEF At
  <1>16. PICK done \in Nat : done = w.done
    BY <1>15
  <1>17. PICK from : from = w.data
    OBVIOUS
  <1>4. from = w.data /\ done = w.done /\ from = OnPad(data, first, done)
    BY <1>15, <1>16, <1>17
  <1>5. from \in Seq(AByte) /\ Len(from) = Len(data)
    BY <1>4, OnPadType
  <1>6. src \in Seq(AByte) /\ Len(src) = Len(data)
    BY SourceType
  <1>7. ASSUME NEW i \in (d + 1)..e
        PROVE  from[i] = src[i]
    <2>1. i \in 1..Len(data) /\ i > d /\ i <= e
      OBVIOUS
    <2>2. CASE encrypting
      <3>1. i <= done
        BY <1>4, <2>1, <2>2 DEF IsCipher
      <3>2. from[i] = Flip(data[i], Pad(first, i - 1))
        BY <1>4, <2>1, <3>1 DEF OnPad
      <3>3. src[i] = Flip(data[i], Pad(first, i - 1))
        BY <2>1, <2>2 DEF OnPad, Source
      <3> QED
        BY <3>2, <3>3
    <2>3. CASE ~encrypting
      <3>1. ~(i <= done)
        BY <1>4, <2>1, <2>3 DEF IsCipher
      <3>2. from[i] = data[i]
        BY <1>4, <2>1, <3>1 DEF OnPad
      <3> QED
        BY <2>3, <3>2 DEF Source
    <2> QED
      BY <2>2, <2>3
  <1>8. Whole(src, b) \o Padded(SubSeq(from, d + 1, e)) = Whole(src, c)
    <2>1. e <= Len(src) /\ e <= Len(from)
      BY <1>5, <1>6
    <2>2. Agree(from, src, d, e)
      BY <1>7 DEF Agree
    <2>3. Extended(src, from, b, c, d, e)
      BY <1>1, <1>2, <1>5, <1>6, <2>1, <2>2, WholeExtends
    <2> QED
      BY <2>3 DEF Extended
  <1>9. PICK t \in Seq(AByte) : t = SubSeq(from, d + 1, e)
    <2>1. SubSeq(from, d + 1, e) \in Seq(AByte)
      BY <1>5
    <2> QED
      BY <2>1
  <1>10. PICK u \in Seq(Blocks), v \in Seq(Blocks) : u = Whole(src, b) /\ v = Padded(t)
    <2>1. b * BlockBytes <= Len(src)
      BY <1>2, <1>6
    <2> QED
      BY <1>6, <1>9, <2>1, WholeType, PaddedValue
  <1>11. (y0 \o u) \o v = y0 \o (u \o v)
    <2>1. JoinsThree(y0, u, v)
      BY ThreeParts
    <2> QED
      BY <2>1 DEF JoinsThree
  <1>12. s.work = w /\ s.y = y0 \o u /\ s = [work |-> w, y |-> y0 \o u]
    BY <1>10 DEF HashedTo
  <1>13. HashGroup(s, lanes, d) = [work |-> w, y |-> (y0 \o u) \o v]
    <2>1. SubSeq(s.work.data, d + 1, d + lanes * BlockBytes) = t
      BY <1>2, <1>4, <1>9, <1>12
    <2>2. HashGroup(s, lanes, d) = [s EXCEPT !.y = @ \o v]
      BY <1>10, <2>1 DEF HashGroup
    <2> QED
      BY <1>12, <2>2
  <1>14. (y0 \o u) \o v = y0 \o Whole(src, c)
    BY <1>8, <1>9, <1>10, <1>11
  <1> QED
    BY <1>1, <1>13, <1>14 DEF HashedTo

LEMMA RoomForOne ==
    ASSUME NEW w, NEW data, NEW lanes \in Nat, NEW g \in Nat, g = lanes * BlockBytes,
           w.done + g <= Len(data)
    PROVE  Room(w, data, lanes, 1, g)
  <1>1. 1 * g = g
    OBVIOUS
  <1>2. g = 1 * (lanes * BlockBytes)
    BY <1>1, Zenon
  <1> QED
    BY <1>2 DEF Room

LEMMA XorGroupAdvances ==
    ASSUME NEW data \in Seq(AByte), NEW first \in Nat, NEW y0, NEW src, NEW w, Reached(w, data, first),
           NEW s, NEW b \in Nat, HashedTo(s, w, src, y0, b), NEW lanes \in Nat, lanes > 0,
           NEW g, Room(w, data, lanes, 1, g)
    PROVE  \E v : /\ HashedTo(XorGroup(s, lanes), v, src, y0, b)
                  /\ Reached(v, data, first) /\ v.done = w.done + g
  <1>1. PICK v : v = SomeGroups(w, lanes, 1)
    OBVIOUS
  <1>3. Reached(v, data, first) /\ v.done = w.done + g
    <2>1. Len(data) \in Nat /\ 1 \in Nat
      OBVIOUS
    <2> QED
      BY <1>1, <2>1, SomeGroupsReach
  <1>4. XorGroup(s, lanes) = [work |-> v, y |-> y0 \o Whole(src, b)]
    <2>1. XorGroup(s, lanes) = [s EXCEPT !.work = SomeGroups(s.work, lanes, 1)]
      BY DEF XorGroup
    <2>2. s = [work |-> w, y |-> y0 \o Whole(src, b)]
      BY DEF HashedTo
    <2> QED
      BY <1>1, <2>1, <2>2
  <1> QED
    BY <1>3, <1>4 DEF HashedTo

\* The hash is so many blocks behind the cipher, and bytes are left that are
\* to be encrypted or decrypted.
Lagging(s, data, first, y0, encrypting, lag, room) ==
    \E w : \E b \in Nat :
        /\ Reached(w, data, first) /\ HashedTo(s, w, Source(data, first, encrypting), y0, b)
        /\ w.done = (b + lag) * BlockBytes /\ w.done + room <= Len(data)

\* How far behind the hash of a stitched loop is.
LagOf(encrypting, lanes) == IF encrypting THEN lanes ELSE 0

\* In blocks and in bytes.
Distance(encrypting, lanes, g, lag, behind) ==
    /\ lag \in Nat /\ lag = LagOf(encrypting, lanes)
    /\ g \in Nat /\ g = lanes * BlockBytes /\ behind = lag * BlockBytes

\* An iteration of a stitched loop keeps its distance.
LEMMA StitchedLags ==
    ASSUME NEW data \in Seq(AByte), NEW first \in Nat, NEW y0 \in Seq(Blocks), NEW encrypting,
           NEW lanes \in Nat, lanes > 0, NEW g, NEW lag, NEW behind,
           Distance(encrypting, lanes, g, lag, behind), NEW rest \in Nat, NEW s, Lagging(s, data, first, y0, encrypting, lag, rest + g)
    PROVE  Lagging(Stitched(s, lanes, behind), data, first, y0, encrypting, lag, rest)
  <1>1. PICK src : src = Source(data, first, encrypting)
    OBVIOUS
  <1>17. /\ lag \in Nat /\ lag = LagOf(encrypting, lanes)
         /\ g \in Nat /\ g = lanes * BlockBytes /\ behind = lag * BlockBytes
    BY DEF Distance
  <1>2. PICK w : \E b \in Nat :
            /\ Reached(w, data, first) /\ HashedTo(s, w, src, y0, b)
            /\ w.done = (b + lag) * BlockBytes /\ w.done + (rest + g) <= Len(data)
    BY <1>1 DEF Lagging
  <1>3. PICK b \in Nat :
            /\ Reached(w, data, first) /\ HashedTo(s, w, src, y0, b)
            /\ w.done = (b + lag) * BlockBytes /\ w.done + (rest + g) <= Len(data)
    BY <1>2
  <1>4. PICK B \in Nat : B = BlockBytes
    BY AeadAssumption
  <1>5. PICK d \in Nat, e \in Nat : Stretch(b, lanes, d, e)
    BY StretchIs
  <1>6. d = b * B /\ e = (b + lanes) * B /\ e = d + g
    BY <1>4, <1>5, <1>17 DEF Stretch
  <1>21. PICK done : done = w.done
    OBVIOUS
  <1>22. PICK l \in Nat : l = Len(data)
    OBVIOUS
  <1>7. l = Len(data) /\ done = w.done
    BY <1>21, <1>22
  <1>18. done + (rest + g) <= l
    BY <1>3, <1>7
  <1>19. e = d + g
    BY <1>6
  <1>20. lag \in Nat /\ g \in Nat
    BY <1>17
  <1>8. done \in Nat /\ behind \in Nat /\ done - behind = d /\ IsCipher(w, d, e, encrypting) /\ e <= l
    <2>1. CASE encrypting
      <3>1. done = e
        BY <1>3, <1>4, <1>6, <1>7, <1>17, <2>1 DEF LagOf
      <3>2. behind = g
        BY <1>17, <2>1 DEF LagOf
      <3>3. e <= l /\ done - behind = d
        BY <1>18, <1>19, <1>20, <3>1, <3>2
      <3>4. IsCipher(w, d, e, encrypting)
        BY <1>7, <2>1, <3>1 DEF IsCipher
      <3> QED
        BY <1>17, <3>1, <3>2, <3>3, <3>4
    <2>2. CASE ~encrypting
      <3>1. done = d
        BY <1>3, <1>4, <1>6, <1>7, <1>17, <2>2 DEF LagOf
      <3>2. behind = 0
        BY <1>4, <1>17, <2>2 DEF LagOf
      <3>3. e <= l /\ done - behind = d
        BY <1>18, <1>19, <1>20, <3>1, <3>2
      <3>4. IsCipher(w, d, e, encrypting)
        BY <1>7, <2>2, <3>1 DEF IsCipher
      <3> QED
        BY <3>1, <3>2, <3>3, <3>4
    <2> QED
      BY <2>1, <2>2
  <1>9. PICK c \in Nat : c = b + lanes
    OBVIOUS
  <1>10. PICK r : r = HashGroup(s, lanes, d)
    OBVIOUS
  <1>11. HashedTo(r, w, src, y0, c)
    <2>1. e <= Len(data) /\ IsCipher(w, d, e, encrypting)
      BY <1>7, <1>8
    <2>2. Reached(w, data, first) /\ HashedTo(s, w, src, y0, b)
      BY <1>3
    <2>3. HashedTo(HashGroup(s, lanes, d), w, src, y0, b + lanes)
      BY <1>1, <1>5, <2>1, <2>2, HashGroupAdvances
    <2> QED
      BY <1>9, <1>10, <2>3
  <1>12. Stitched(s, lanes, behind) = XorGroup(r, lanes)
    <2>1. s.work.done = done
      BY <1>3, <1>7 DEF HashedTo
    <2> QED
      BY <1>8, <1>10, <2>1 DEF Stitched
  <1>13. Room(w, data, lanes, 1, g)
    <2>1. done + g <= l
      BY <1>8, <1>18, <1>20
    <2>2. w.done + g <= Len(data)
      BY <1>7, <2>1
    <2>3. g \in Nat /\ g = lanes * BlockBytes
      BY <1>17
    <2> QED
      BY <2>2, <2>3, RoomForOne
  <1>14. PICK v : HashedTo(XorGroup(r, lanes), v, src, y0, c) /\ Reached(v, data, first) /\ v.done = w.done + g
    BY <1>3, <1>11, <1>13, XorGroupAdvances
  <1>15. v.done = (c + lag) * BlockBytes
    <2>1. PICK m \in Nat, k \in Nat : m = b + lag /\ k = c + lag /\ k = m + lanes
      BY <1>9, <1>20
    <2>2. k * B = m * B + lanes * B
      BY <2>1
    <2>3. w.done = m * B /\ g = lanes * B
      BY <1>3, <1>4, <1>17, <2>1
    <2> QED
      BY <1>4, <1>14, <2>1, <2>2, <2>3
  <1>16. v.done + rest <= Len(data)
    <2>1. v.done = done + g
      BY <1>7, <1>14
    <2>2. (done + g) + rest <= l
      BY <1>8, <1>18, <1>20
    <2> QED
      BY <1>7, <2>1, <2>2
  <1> QED
    BY <1>1, <1>12, <1>14, <1>15, <1>16 DEF Lagging

IteratedOf(s, lanes, behind, n, f) ==
    f = [i \in 0..n |-> IF i = 0 THEN s ELSE Stitched(f[i - 1], lanes, behind)]

LEMMA IteratedExist ==
    ASSUME NEW s, NEW lanes, NEW behind, NEW n \in Nat
    PROVE  \E f : IteratedOf(s, lanes, behind, n, f)
  <1> DEFINE T == {c \in Nat : ~ \E f : IteratedOf(s, lanes, behind, c, f)}
  <1> SUFFICES ASSUME T # {} PROVE FALSE
    OBVIOUS
  <1>1. PICK c \in T : \A d \in T : c <= d
    BY Least
  <1>2. CASE c = 0
    <2>1. IteratedOf(s, lanes, behind, 0, [i \in 0..0 |-> s])
      BY DEF IteratedOf
    <2> QED
      BY <1>1, <1>2, <2>1
  <1>3. CASE c # 0
    <2>1. c - 1 \in Nat /\ ~(c <= c - 1)
      BY <1>1, <1>3
    <2>2. PICK f : IteratedOf(s, lanes, behind, c - 1, f)
      BY <1>1, <2>1
    <2> DEFINE h == [i \in 0..c |-> IF i = c THEN Stitched(f[c - 1], lanes, behind) ELSE f[i]]
    <2>3. ASSUME NEW i \in 0..c
          PROVE  h[i] = IF i = 0 THEN s ELSE Stitched(h[i - 1], lanes, behind)
      <3>1. \A j \in 0..(c - 1) : h[j] = f[j] /\ f[j] = IF j = 0 THEN s ELSE Stitched(f[j - 1], lanes, behind)
        BY <2>1, <2>2 DEF IteratedOf
      <3>2. CASE i = c
        BY <1>3, <2>1, <3>1, <3>2
      <3>3. CASE i # c
        <4>1. i \in 0..(c - 1) /\ (i # 0 => i - 1 \in 0..(c - 1))
          BY <2>1, <3>3
        <4> QED
          BY <3>1, <4>1
      <3> QED
        BY <3>2, <3>3
    <2>4. h = [i \in 0..c |-> IF i = 0 THEN s ELSE Stitched(h[i - 1], lanes, behind)]
      BY <2>3
    <2>5. IteratedOf(s, lanes, behind, c, h)
      BY <2>4 DEF IteratedOf
    <2> QED
      BY <1>1, <2>5
  <1> QED
    BY <1>2, <1>3

\* However many iterations there are, as many as there is room for.
LEMMA IteratedLags ==
    ASSUME NEW data \in Seq(AByte), NEW first \in Nat, NEW y0 \in Seq(Blocks), NEW encrypting,
           NEW lanes \in Nat, lanes > 0, NEW n \in Nat, NEW g, NEW lag, NEW behind,
           Distance(encrypting, lanes, g, lag, behind),
           NEW s, Lagging(s, data, first, y0, encrypting, lag, n * g)
    PROVE  Lagging(Iterated(s, lanes, behind, n), data, first, y0, encrypting, lag, 0)
  <1>1. g \in Nat
    BY DEF Distance
  <1>2. \E f : IteratedOf(s, lanes, behind, n, f)
    BY IteratedExist
  <1>3. PICK f : f = CHOOSE h : IteratedOf(s, lanes, behind, n, h)
    OBVIOUS
  <1>4. IteratedOf(s, lanes, behind, n, f)
    BY <1>2, <1>3
  <1>5. Iterated(s, lanes, behind, n) = f[n]
    BY <1>3 DEF Iterated, IteratedOf
  <1>6. \A i \in 0..n : f[i] = IF i = 0 THEN s ELSE Stitched(f[i - 1], lanes, behind)
    BY <1>4 DEF IteratedOf
  <1> DEFINE Fine(i) == Lagging(f[i], data, first, y0, encrypting, lag, (n - i) * g)
  <1> DEFINE T == {i \in 0..n : ~Fine(i)}
  <1>7. T = {}
    <2> SUFFICES ASSUME T # {} PROVE FALSE
      OBVIOUS
    <2>0. T \subseteq Nat
      OBVIOUS
    <2>1. PICK i \in T : \A j \in T : i <= j
      BY <2>0, Least
    <2>2. i \in 0..n /\ ~Fine(i)
      OBVIOUS
    <2>3. CASE i = 0
      <3>1. f[i] = s /\ n - i = n
        BY <1>6, <2>3
      <3> QED
        BY <1>1, <2>2, <3>1
    <2>4. CASE i # 0
      <3>1. PICK j \in 0..n : j = i - 1 /\ ~(i <= j)
        BY <2>2, <2>4
      <3>2. Fine(j)
        BY <2>1, <3>1
      <3>3. f[i] = Stitched(f[j], lanes, behind)
        BY <1>6, <2>2, <2>4, <3>1
      <3>4. PICK k \in Nat, m \in Nat : k = n - i /\ m = n - j /\ m = k + 1
        BY <2>2, <3>1
      <3>5. PICK rest \in Nat : rest = k * g
        BY <1>1, TimesNat
      <3>6. m * g = rest + g
        BY <1>1, <3>4, <3>5
      <3>7. Lagging(f[j], data, first, y0, encrypting, lag, rest + g)
        BY <3>2, <3>4, <3>6
      <3>8. Lagging(f[i], data, first, y0, encrypting, lag, rest)
        BY <1>1, <3>3, <3>7, StitchedLags, ZenonT(60)
      <3> QED
        BY <2>2, <3>4, <3>5, <3>8
    <2> QED
      BY <2>3, <2>4
  <1>8. Fine(n)
    BY <1>7
  <1>9. (n - n) * g = 0
    BY <1>1
  <1> QED
    BY <1>5, <1>8, <1>9

\* A hash that is not behind is in step, and may be as far as the ciphertext.
LEMMA InStepLags ==
    ASSUME NEW data, NEW first, NEW y0, NEW encrypting, NEW s, InStep(s, data, first, y0, encrypting),
           NEW room, s.work.done + room <= Len(data)
    PROVE  Lagging(s, data, first, y0, encrypting, 0, room)
  <1>1. PICK b \in Nat : /\ s.work.done = b * BlockBytes
                         /\ s.y = y0 \o Whole(Source(data, first, encrypting), b)
    BY DEF InStep
  <1>2. PICK w : w = s.work
    OBVIOUS
  <1>3. HashedTo(s, w, Source(data, first, encrypting), y0, b) /\ Reached(w, data, first)
    BY <1>1, <1>2 DEF InStep, HashedTo
  <1>4. b + 0 = b
    OBVIOUS
  <1>5. w.done = (b + 0) * BlockBytes /\ w.done + room <= Len(data)
    BY <1>1, <1>2, <1>4
  <1> QED
    BY <1>3, <1>5 DEF Lagging

LEMMA LagsInStep ==
    ASSUME NEW data, NEW first, NEW y0, NEW encrypting, NEW s,
           Lagging(s, data, first, y0, encrypting, 0, 0)
    PROVE  InStep(s, data, first, y0, encrypting)
  <1>1. PICK w : \E b \in Nat :
            /\ Reached(w, data, first) /\ HashedTo(s, w, Source(data, first, encrypting), y0, b)
            /\ w.done = (b + 0) * BlockBytes
    BY DEF Lagging
  <1>2. PICK b \in Nat :
            /\ Reached(w, data, first) /\ HashedTo(s, w, Source(data, first, encrypting), y0, b)
            /\ w.done = (b + 0) * BlockBytes
    BY <1>1
  <1>3. w.done = b * BlockBytes
    BY <1>2
  <1>4. s = [work |-> w, y |-> y0 \o Whole(Source(data, first, encrypting), b)]
    BY <1>2 DEF HashedTo
  <1>5. s.work = w /\ s.y = y0 \o Whole(Source(data, first, encrypting), b)
        /\ s = [work |-> s.work, y |-> s.y]
    BY <1>4
  <1> QED
    BY <1>2, <1>3, <1>5 DEF InStep

\* Opening, the hash is never behind.
LEMMA OpenInStep ==
    ASSUME NEW data \in Seq(AByte), NEW first \in Nat, NEW y0 \in Seq(Blocks), NEW encrypting,
           ~encrypting, NEW s, InStep(s, data, first, y0, encrypting), NEW lanes \in Nat, lanes > 0,
           NEW n \in Nat, NEW total, Room(s.work, data, lanes, n, total)
    PROVE  InStep(OpenGroups(s, lanes, n), data, first, y0, encrypting)
  <1>1. PICK g \in Nat : g = lanes * BlockBytes
    BY TimesNat, AeadAssumption
  <1>2. total = n * g /\ s.work.done + total <= Len(data)
    BY <1>1 DEF Room
  <1>3. Lagging(s, data, first, y0, encrypting, 0, n * g)
    BY <1>2, InStepLags
  <1>4. Distance(encrypting, lanes, g, 0, 0)
    BY <1>1, AeadAssumption DEF Distance, LagOf
  <1>5. Lagging(Iterated(s, lanes, 0, n), data, first, y0, encrypting, 0, 0)
    BY <1>3, <1>4, IteratedLags
  <1> QED
    BY <1>5, LagsInStep DEF OpenGroups

\* Sealing, it is a group behind from the first group to the last.
LEMMA SealInStep ==
    ASSUME NEW data \in Seq(AByte), NEW first \in Nat, NEW y0 \in Seq(Blocks), NEW encrypting,
           encrypting, NEW s, InStep(s, data, first, y0, encrypting), NEW lanes \in Nat, lanes > 0,
           NEW n \in Nat, n > 0, NEW total, Room(s.work, data, lanes, n, total)
    PROVE  InStep(SealGroups(s, lanes, n), data, first, y0, encrypting)
  <1>1. PICK g \in Nat : g = lanes * BlockBytes
    BY TimesNat, AeadAssumption
  <1>2. PICK src : src = Source(data, first, encrypting)
    OBVIOUS
  <1>3. PICK m \in Nat : m = n - 1 /\ n = m + 1
    OBVIOUS
  <1>4. PICK rest \in Nat : rest = m * g
    BY TimesNat
  <1>5. total = rest + g /\ s.work.done + total <= Len(data)
    <2>1. total = n * g /\ s.work.done + total <= Len(data)
      BY <1>1 DEF Room
    <2>2. n * g = rest + g
      BY <1>3, <1>4
    <2> QED
      BY <2>1, <2>2
  <1>6. PICK w : \E b \in Nat : /\ Reached(w, data, first) /\ HashedTo(s, w, src, y0, b)
                                /\ w.done = b * BlockBytes /\ w = s.work
    BY <1>2 DEF InStep, HashedTo
  <1>7. PICK b \in Nat : /\ Reached(w, data, first) /\ HashedTo(s, w, src, y0, b)
                         /\ w.done = b * BlockBytes /\ w = s.work
    BY <1>6
  <1>8. PICK done \in Nat, l \in Nat : done = w.done /\ l = Len(data) /\ done + (rest + g) <= l
    <2>1. PICK f \in Nat : At(w, data, first, f)
      BY <1>7, ReachedAt
    <2>2. w.done \in Nat
      BY <2>1 DEF At
    <2> QED
      BY <1>5, <1>7, <2>2
  <1>9. Room(w, data, lanes, 1, g)
    <2>1. done + g <= l
      BY <1>8
    <2>2. w.done + g <= Len(data)
      BY <1>8, <2>1
    <2> QED
      BY <1>1, <2>2, RoomForOne
  <1>10. PICK v : HashedTo(XorGroup(s, lanes), v, src, y0, b) /\ Reached(v, data, first) /\ v.done = w.done + g
    BY <1>7, <1>9, XorGroupAdvances
  <1>11. v.done = (b + lanes) * BlockBytes
    <2>1. PICK B \in Nat : B = BlockBytes
      BY AeadAssumption
    <2>2. (b + lanes) * B = b * B + lanes * B
      BY <2>1
    <2> QED
      BY <1>1, <1>7, <1>10, <2>1, <2>2
  <1>12. v.done + rest <= Len(data)
    <2>1. v.done = done + g
      BY <1>8, <1>10
    <2>2. (done + g) + rest <= l
      BY <1>8
    <2> QED
      BY <1>8, <2>1, <2>2
  <1>13. Lagging(XorGroup(s, lanes), data, first, y0, encrypting, lanes, m * g)
    BY <1>2, <1>4, <1>10, <1>11, <1>12 DEF Lagging
  <1>14. Distance(encrypting, lanes, g, lanes, g)
    BY <1>1 DEF Distance, LagOf
  <1>15. PICK last : last = Iterated(XorGroup(s, lanes), lanes, g, m)
    OBVIOUS
  <1>16. Lagging(last, data, first, y0, encrypting, lanes, 0)
    BY <1>13, <1>14, <1>15, IteratedLags
  <1>17. PICK x : \E c \in Nat : /\ Reached(x, data, first) /\ HashedTo(last, x, src, y0, c)
                                 /\ x.done = (c + lanes) * BlockBytes /\ x.done + 0 <= Len(data)
    BY <1>2, <1>16 DEF Lagging
  <1>18. PICK c \in Nat : /\ Reached(x, data, first) /\ HashedTo(last, x, src, y0, c)
                          /\ x.done = (c + lanes) * BlockBytes /\ x.done + 0 <= Len(data)
    BY <1>17
  <1>19. PICK d \in Nat, e \in Nat : Stretch(c, lanes, d, e)
    BY StretchIs
  <1>20. e = x.done /\ e = d + g /\ e <= Len(data)
    BY <1>1, <1>18, <1>19 DEF Stretch
  <1>21. IsCipher(x, d, e, encrypting)
    BY <1>20 DEF IsCipher
  <1>31. PICK r : r = HashGroup(last, lanes, d)
    OBVIOUS
  <1>32. PICK k \in Nat : k = c + lanes
    OBVIOUS
  <1>22. k = c + lanes /\ r = HashGroup(last, lanes, d)
    BY <1>31, <1>32
  <1>23. HashedTo(r, x, src, y0, k)
    <2>1. Reached(x, data, first) /\ HashedTo(last, x, src, y0, c) /\ e <= Len(data)
      BY <1>18, <1>20
    <2>2. HashedTo(HashGroup(last, lanes, d), x, src, y0, c + lanes)
      BY <1>2, <1>19, <1>21, <2>1, HashGroupAdvances, ZenonT(60)
    <2> QED
      BY <1>22, <2>2
  <1>24. SealGroups(s, lanes, n) = r
    <2>1. last.work.done = e /\ e - g = d
      <3>1. last.work = x
        BY <1>18 DEF HashedTo
      <3>2. e = d + g
        BY <1>20
      <3>3. e - g = d
        BY <3>2
      <3>4. last.work.done = e
        BY <1>20, <3>1, Zenon
      <3> QED
        BY <3>3, <3>4
    <2> QED
      BY <1>1, <1>3, <1>15, <1>22, <2>1 DEF SealGroups
  <1>25. r.work = x /\ r.y = y0 \o Whole(src, k) /\ r = [work |-> r.work, y |-> r.y]
    BY <1>23 DEF HashedTo
  <1>26. InStep(r, data, first, y0, encrypting)
    BY <1>2, <1>18, <1>22, <1>25 DEF InStep
  <1> QED
    BY <1>24, <1>26

LEMMA BulkInStep ==
    ASSUME NEW data \in Seq(AByte), NEW first \in Nat, NEW y0 \in Seq(Blocks), NEW encrypting \in BOOLEAN,
           NEW s, InStep(s, data, first, y0, encrypting), NEW lanes \in Nat, lanes > 0
    PROVE  InStep(Bulk(s, lanes, encrypting), data, first, y0, encrypting)
  <1>1. PICK w : w = s.work
    OBVIOUS
  <1>2. Reached(w, data, first) /\ Len(data) \in Nat
    BY <1>1 DEF InStep
  <1>3. PICK n, after : n = WholeGroups(w, lanes) /\ after = Groups(w, lanes)
    OBVIOUS
  <1>4. Reached(after, data, first) /\ n \in Nat /\ after.done = w.done + n * (lanes * BlockBytes)
    <2>1. /\ Reached(Groups(w, lanes), data, first) /\ WholeGroups(w, lanes) \in Nat
          /\ Groups(w, lanes).done = w.done + WholeGroups(w, lanes) * (lanes * BlockBytes)
      BY <1>2, GroupsReach
    <2> QED
      BY <1>3, <2>1, Zenon
  <1>5. PICK total \in Nat : total = n * (lanes * BlockBytes)
    BY <1>4, TimesNat, AeadAssumption
  <1>6. w.done + total <= Len(data)
    <2>1. PICK f \in Nat : At(after, data, first, f)
      BY <1>4, ReachedAt
    <2>2. after.done <= Len(data)
      BY <2>1 DEF At
    <2> QED
      BY <1>4, <1>5, <2>2
  <1>7. Room(s.work, data, lanes, n, total)
    BY <1>1, <1>5, <1>6 DEF Room
  <1>8. Bulk(s, lanes, encrypting) =
            CASE n = 0 -> s
              [] n > 0 /\ encrypting -> SealGroups(s, lanes, n)
              [] n > 0 /\ ~encrypting -> OpenGroups(s, lanes, n)
    BY <1>1, <1>3 DEF Bulk
  <1>9. CASE n = 0
    BY <1>4, <1>8, <1>9
  <1>10. CASE n > 0 /\ encrypting
    <2>1. Bulk(s, lanes, encrypting) = SealGroups(s, lanes, n)
      BY <1>4, <1>8, <1>10
    <2>2. InStep(SealGroups(s, lanes, n), data, first, y0, encrypting)
      BY <1>4, <1>7, <1>10, SealInStep
    <2> QED
      BY <2>1, <2>2
  <1>11. CASE n > 0 /\ ~encrypting
    <2>1. Bulk(s, lanes, encrypting) = OpenGroups(s, lanes, n)
      BY <1>4, <1>8, <1>11
    <2>2. InStep(OpenGroups(s, lanes, n), data, first, y0, encrypting)
      BY <1>4, <1>7, <1>11, OpenInStep
    <2> QED
      BY <2>1, <2>2
  <1> QED
    BY <1>4, <1>9, <1>10, <1>11

\* Bulk loops over groups that the message does not fill do nothing.
LEMMA BulkIdle ==
    ASSUME NEW data \in Seq(AByte), NEW first \in Nat, NEW y0, NEW encrypting,
           NEW s, InStep(s, data, first, y0, encrypting), s.work.done = 0,
           NEW lanes \in Nat, lanes > 0, Len(data) < lanes * BlockBytes
    PROVE  Bulk(s, lanes, encrypting).work.done = 0
  <1>1. PICK w : w = s.work
    OBVIOUS
  <1>2. Reached(w, data, first)
    BY <1>1 DEF InStep
  <1>3. PICK f \in Nat : At(w, data, first, f)
    BY <1>2, ReachedAt
  <1>4. Left(w) = Len(data)
    BY <1>1, <1>3, OnPadType DEF At, Left
  <1>5. WholeGroups(w, lanes) = 0
    <2>1. Left(w) < lanes * BlockBytes /\ Len(data) \in Nat
      BY <1>4
    <2> QED
      BY <1>2, <2>1, GroupsReach
  <1>6. Bulk(s, lanes, encrypting) = s
    BY <1>1, <1>5 DEF Bulk
  <1> QED
    BY <1>6

\* What is queued before the bulk loops: the associated data, and either
\* nothing waits or no bulk loop has a group to take.
StartOK(p, aad, len) ==
    /\ p \in Pending /\ Content(p) = Padded(AadBytes(aad)) /\ AadBytes(aad) \in Seq(AByte)
    /\ p.queue = <<>> \/ len < Narrow * BlockBytes

LEMMA StartContent ==
    ASSUME NEW aad \in Nat, NEW kernel, NEW len \in Nat
    PROVE  StartOK(BeforeBulk(PushPadded(NewPending, AadBytes(aad)), kernel, len), aad, len)
  <1>1. NewPending \in Pending /\ Content(NewPending) = <<>>
    BY DEF NewPending, Pending, Content
  <1>2. AadBytes(aad) \in Seq(AByte)
    <2>1. \A i \in 1..aad : Byte(-i, {}) \in AByte
      BY DEF Byte, AByte
    <2> QED
      BY <2>1 DEF AadBytes
  <1>3. Padded(AadBytes(aad)) \in Seq(Blocks)
    BY <1>2, PaddedValue
  <1>4. PICK q : q = PushPadded(NewPending, AadBytes(aad))
    OBVIOUS
  <1>5. q \in Pending /\ Content(q) = <<>> \o Padded(AadBytes(aad))
    BY <1>1, <1>2, <1>4, PushPaddedContent
  <1>6. Content(q) = Padded(AadBytes(aad))
    BY <1>3, <1>5, ConcatEmptySeq
  <1>7. Flushed(q) \in Pending /\ Content(Flushed(q)) = Content(q) /\ Flushed(q).queue = <<>>
    BY <1>5, FlushedContent DEF Flushed
  <1>8. Narrow * BlockBytes \in Nat
    BY TimesNat, AeadAssumption
  <1> QED
    BY <1>2, <1>4, <1>5, <1>6, <1>7, <1>8 DEF BeforeBulk, StartOK

\* After all of the bulk loops.
Loops(data, first, y0, kernel, encrypting) ==
    LET begun == [work |-> Work(data, first), y |-> y0]
        zmm == IF kernel = "zmm512" THEN Bulk(begun, 4 * Narrow, encrypting) ELSE begun
        ymm == IF kernel # "narrow" THEN Bulk(zmm, 2 * Narrow, encrypting) ELSE zmm
    IN  Bulk(ymm, Narrow, encrypting)

LEMMA LoopsInStep ==
    ASSUME NEW data \in Seq(AByte), NEW first \in 0..(CounterValues - 1), NEW y0 \in Seq(Blocks),
           NEW kernel, NEW encrypting \in BOOLEAN
    PROVE  /\ InStep(Loops(data, first, y0, kernel, encrypting), data, first, y0, encrypting)
           /\ Len(data) < Narrow * BlockBytes => Loops(data, first, y0, kernel, encrypting).work.done = 0
  <1>1. PICK begun : begun = [work |-> Work(data, first), y |-> y0]
    OBVIOUS
  <1>2. InStep(begun, data, first, y0, encrypting) /\ begun.work.done = 0
    <2>1. begun.work = Work(data, first) /\ begun.y = y0 /\ begun.work.done = 0
      BY <1>1 DEF Work
    <2>6. begun = [work |-> begun.work, y |-> begun.y]
      BY <1>1
    <2>2. Reached(begun.work, data, first)
      BY <2>1, WorkReached
    <2>3. Whole(Source(data, first, encrypting), 0) = <<>>
      BY DEF Whole
    <2>4. y0 \o <<>> = y0
      BY ConcatEmptySeq
    <2>5. begun.work.done = 0 * BlockBytes
      BY <2>1, AeadAssumption
    <2> QED
      BY <2>1, <2>2, <2>3, <2>4, <2>5, <2>6, SMTT(30) DEF InStep
  <1>3. first \in Nat
    BY AeadAssumption
  <1> DEFINE Fine(s) == /\ InStep(s, data, first, y0, encrypting)
                        /\ Len(data) < Narrow * BlockBytes => s.work.done = 0
  <1>4. ASSUME NEW s, Fine(s), NEW lanes \in Nat, lanes > 0, Narrow <= lanes
        PROVE  Fine(Bulk(s, lanes, encrypting))
    <2>1. InStep(Bulk(s, lanes, encrypting), data, first, y0, encrypting)
      BY <1>3, <1>4, BulkInStep
    <2>2. ASSUME Len(data) < Narrow * BlockBytes
          PROVE  Bulk(s, lanes, encrypting).work.done = 0
      <3>1. PICK x \in Nat, z \in Nat : x = Narrow * BlockBytes /\ z = lanes * BlockBytes /\ x <= z
        BY <1>4, TimesNat, TimesMonotonic, AeadAssumption
      <3>2. Len(data) < lanes * BlockBytes
        BY <2>2, <3>1
      <3>3. s.work.done = 0 /\ InStep(s, data, first, y0, encrypting)
        BY <1>4, <2>2
      <3> QED
        BY <1>3, <1>4, <3>2, <3>3, BulkIdle
    <2> QED
      BY <2>1, <2>2
  <1>5. PICK zmm : zmm = IF kernel = "zmm512" THEN Bulk(begun, 4 * Narrow, encrypting) ELSE begun
    OBVIOUS
  <1>6. PICK ymm : ymm = IF kernel # "narrow" THEN Bulk(zmm, 2 * Narrow, encrypting) ELSE zmm
    OBVIOUS
  <1>7. PICK l4 \in Nat, l2 \in Nat, l1 \in Nat :
            /\ l4 = 4 * Narrow /\ l2 = 2 * Narrow /\ l1 = Narrow
            /\ l4 > 0 /\ l2 > 0 /\ l1 > 0 /\ Narrow <= l4 /\ Narrow <= l2 /\ Narrow <= l1
    BY AeadAssumption
  <1>8. Fine(begun)
    BY <1>2
  <1> HIDE DEF Fine
  <1>9. Fine(zmm)
    BY <1>4, <1>5, <1>7, <1>8
  <1>10. Fine(ymm)
    BY <1>4, <1>6, <1>7, <1>9
  <1>11. Fine(Bulk(ymm, Narrow, encrypting))
    BY <1>4, <1>7, <1>10
  <1> QED
    BY <1>1, <1>5, <1>6, <1>11 DEF Fine, Loops

LEMMA LengthBlockType ==
    ASSUME NEW aad \in Nat, NEW len \in Nat
    PROVE  LengthBlock(aad, len) \in Blocks
  <1>1. Byte(1000 + aad, {}) \in AByte /\ Byte(1000 + len, {}) \in AByte
    BY DEF Byte, AByte
  <1> QED
    BY <1>1 DEF LengthBlock, Blocks

Result(data, over, made) == made.data = data /\ made.over = over

\* The kernels xor every byte once and hash every block once, in order.
LEMMA SealOrOpenMakes ==
    ASSUME NEW data \in Seq(AByte), NEW j0 \in Nat, NEW kernel, NEW aad \in Nat, NEW encrypting \in BOOLEAN,
           NEW first, first = Wrap(j0 + 1)
    PROVE  Result(OnPad(data, first, Len(data)), Framed(aad, Source(data, first, encrypting)),
                  seal_or_open(kernel, j0, aad, data, encrypting))
  <1>1. first \in Nat /\ first \in 0..(CounterValues - 1)
    <2>1. PICK j \in Nat : j = j0 + 1
      OBVIOUS
    <2>2. Wrap(j) \in Nat /\ Wrap(j) < CounterValues
      BY WrapType
    <2> QED
      BY <2>1, <2>2, AeadAssumption
  <1>2. PICK len \in Nat : len = Len(data)
    OBVIOUS
  <1>3. PICK start : start = BeforeBulk(PushPadded(NewPending, AadBytes(aad)), kernel, len)
    OBVIOUS
  <1>4. StartOK(start, aad, len)
    BY <1>3, StartContent
  <1>5. PICK y \in Seq(Blocks), queue \in Seq(Blocks) : y = start.y /\ queue = start.queue
    BY <1>4 DEF StartOK, Pending
  <1>6. PICK last : last = Loops(data, first, y, kernel, encrypting)
    OBVIOUS
  <1>7. InStep(last, data, first, y, encrypting) /\ (len < Narrow * BlockBytes => last.work.done = 0)
    BY <1>1, <1>2, <1>6, LoopsInStep
  <1>8. PICK p, w : p = [y |-> last.y, queue |-> queue] /\ w = last.work
    OBVIOUS
  <1>9. seal_or_open(kernel, j0, aad, data, encrypting) = finish(p, w, aad, encrypting)
    BY <1>2, <1>3, <1>5, <1>6, <1>8 DEF seal_or_open, Loops
  <1>10. PICK src : src = Source(data, first, encrypting) /\ src \in Seq(AByte) /\ Len(src) = len
    BY <1>1, <1>2, SourceType
  <1>11. PICK b \in Nat : w.done = b * BlockBytes /\ last.y = y \o Whole(src, b)
    BY <1>7, <1>8, <1>10 DEF InStep
  <1>12. Reached(w, data, first)
    BY <1>7, <1>8 DEF InStep
  <1>13. PICK f \in Nat : At(w, data, first, f)
    BY <1>1, <1>12, ReachedAt
  <1>14. PICK d \in Nat : d = w.done /\ d <= len /\ w.data = OnPad(data, first, d) /\ d = b * BlockBytes
    BY <1>2, <1>11, <1>13 DEF At
  <1>15. PICK out : out = Rest(w) /\ out = OnPad(data, first, len)
    BY <1>1, <1>2, <1>12, RestIsAll
  <1>16. out \in Seq(AByte) /\ Len(out) = len
    BY <1>1, <1>2, <1>15, OnPadType
  <1>17. PICK from : from = IF encrypting THEN out ELSE w.data
    OBVIOUS
  <1>18. from \in Seq(AByte) /\ Len(from) = len
    BY <1>1, <1>2, <1>14, <1>16, <1>17, OnPadType
  <1>19. PICK rest : rest = SubSeq(from, d + 1, len)
    OBVIOUS
  <1>20. rest = SubSeq(src, d + 1, len)
    <2>1. ASSUME NEW i \in (d + 1)..len
          PROVE  from[i] = src[i]
      <3>1. i \in 1..len /\ i > d
        OBVIOUS
      <3>2. CASE encrypting
        BY <1>2, <1>10, <1>15, <1>17, <3>2 DEF Source
      <3>3. CASE ~encrypting
        <4>1. w.data[i] = data[i]
          BY <1>2, <1>14, <3>1 DEF OnPad
        <4> QED
          BY <1>10, <1>17, <3>3, <4>1 DEF Source
      <3> QED
        BY <3>2, <3>3
    <2>2. src \in Seq(AByte) /\ len <= Len(src) /\ len <= Len(from) /\ d <= len
      BY <1>10, <1>14, <1>18
    <2>3. Agree(from, src, d, len)
      BY <2>1 DEF Agree
    <2>4. PartSame(from, src, d, len)
      BY <1>10, <1>14, <1>18, <2>2, <2>3, AgreeSame
    <2> QED
      BY <1>19, <2>4 DEF PartSame
  <1>21. rest \in Seq(AByte)
    BY <1>10, <1>14, <1>20, SMTT(30)
  <1>22. PICK hash \in Seq(Blocks), tail \in Seq(Blocks) : hash = Whole(src, b) /\ tail = Padded(rest)
    <2>1. b * BlockBytes <= Len(src)
      BY <1>10, <1>14
    <2> QED
      BY <1>10, <1>21, <2>1, WholeType, PaddedValue
  <1>23. hash \o tail = Padded(src)
    <2>1. b * BlockBytes <= Len(src)
      BY <1>10, <1>14
    <2>2. Padded(src) = Whole(src, b) \o Padded(SubSeq(src, b * BlockBytes + 1, Len(src)))
      BY <1>10, <2>1, PaddedSplit
    <2> QED
      BY <1>10, <1>14, <1>20, <1>22, <2>2
  <1>24. p \in Pending /\ Content(p) = Padded(AadBytes(aad)) \o hash
    <2>1. y \o hash \in Seq(Blocks)
      BY ConcatProperties
    <2>2. p = [y |-> y \o hash, queue |-> queue]
      BY <1>8, <1>11, <1>22
    <2>3. p \in Pending
      BY <2>1, <2>2 DEF Pending
    <2>4. Content(p) = (y \o hash) \o queue
      BY <2>2 DEF Content
    <2>5. y \o queue = Padded(AadBytes(aad))
      BY <1>4, <1>5 DEF StartOK, Content
    <2>6. CASE queue = <<>>
      BY <2>1, <2>3, <2>4, <2>5, <2>6, ConcatEmptySeq
    <2>7. CASE queue # <<>>
      <3>1. d = 0
        BY <1>4, <1>5, <1>7, <1>8, <1>14, <2>7 DEF StartOK
      <3>2. b = 0
        <4>1. 0 * BlockBytes = b * BlockBytes
          BY <1>14, <3>1, AeadAssumption
        <4> QED
          BY <4>1, SameBlocks
      <3>3. hash = <<>>
        BY <1>22, <3>2 DEF Whole
      <3>4. y \o <<>> = y /\ (y \o queue) \o <<>> = y \o queue
        BY ConcatEmptySeq, ConcatProperties
      <3> QED
        BY <2>3, <2>4, <2>5, <3>3, <3>4
    <2> QED
      BY <2>6, <2>7
  <1>25. PICK q : q = PushPadded(p, rest) /\ q \in Pending /\ Content(q) = Content(p) \o tail
    BY <1>21, <1>22, <1>24, PushPaddedContent
  <1>26. PICK block \in Blocks : block = LengthBlock(aad, len)
    BY LengthBlockType
  <1>27. PICK r : r = Push(q, block) /\ r \in Pending /\ Content(r) = Content(q) \o <<block>>
    BY <1>25, <1>26, PushContent
  <1>28. Flushed(r).y = Content(r)
    BY <1>27, FlushedContent
  <1>29. PICK aads \in Seq(Blocks) : aads = Padded(AadBytes(aad))
    BY <1>4, PaddedValue DEF StartOK
  <1>30. (aads \o hash) \o tail = aads \o (hash \o tail)
    <2>1. JoinsThree(aads, hash, tail)
      BY ThreeParts
    <2> QED
      BY <2>1 DEF JoinsThree
  <1>31. Content(r) = Framed(aad, src)
    BY <1>10, <1>23, <1>24, <1>25, <1>26, <1>27, <1>29, <1>30 DEF Framed
  <1>32. finish(p, w, aad, encrypting) = [data |-> out, over |-> Flushed(r).y]
    BY <1>14, <1>15, <1>16, <1>17, <1>18, <1>19, <1>25, <1>26, <1>27 DEF finish
  <1> QED
    BY <1>2, <1>9, <1>10, <1>15, <1>28, <1>31, <1>32 DEF Result

LEMMA GcmCoreMakes ==
    ASSUME NEW data \in Seq(AByte), NEW j0 \in Nat, NEW aad, NEW encrypting,
           NEW first, first = Wrap(j0 + 1)
    PROVE  Result(OnPad(data, first, Len(data)), Framed(aad, Source(data, first, encrypting)),
                  gcm_core(j0, aad, data, encrypting))
  <1>1. first \in Nat /\ first \in 0..(CounterValues - 1)
    <2>1. PICK j \in Nat : j = j0 + 1
      OBVIOUS
    <2>2. Wrap(j) \in Nat /\ Wrap(j) < CounterValues
      BY WrapType
    <2> QED
      BY <2>1, <2>2, AeadAssumption
  <1>2. ctr32_xor(first, data) = OnPad(data, first, Len(data))
    BY <1>1, CtrXored
  <1> QED
    BY <1>2 DEF gcm_core, Result, Source

-----------------------------------------------------------------------------
(* Messages.                                                                *)

LEMMA CallType ==
    ASSUME NEW c \in Calls
    PROVE  /\ c.alg \in Algorithms /\ c.op \in {"seal", "open"} /\ c.len \in Nat /\ c.aad \in Nat
           /\ c.counter \in 0..(CounterValues - 1) /\ c.counter \in Nat /\ c # NoCall
  <1>1. c \in [alg : Algorithms, backend : Backends \cup Kernels, op : {"seal", "open"},
               len : Nat, aad : Nat, counter : 0..(CounterValues - 1),
               long : BOOLEAN, genuine : BOOLEAN]
    BY AeadAssumption
  <1>2. "none" \notin Algorithms
    BY DEF Algorithms
  <1>3. NoCall.alg = "none"
    BY DEF NoCall
  <1>4. c.alg \in Algorithms /\ c.op \in {"seal", "open"} /\ c.len \in Nat /\ c.aad \in Nat
        /\ c.counter \in 0..(CounterValues - 1)
    BY <1>1
  <1>5. c.counter \in Nat
    BY <1>4, AeadAssumption
  <1> QED
    BY <1>2, <1>3, <1>4, <1>5

LEMMA FirstType ==
    ASSUME NEW c \in Calls
    PROVE  FirstCounter(c) \in 0..(CounterValues - 1) /\ FirstCounter(c) \in Nat
  <1>1. PICK n \in Nat : n = c.counter + 1
    BY CallType
  <1>2. Wrap(n) \in Nat /\ Wrap(n) \in 0..(CounterValues - 1)
    BY WrapType, AeadAssumption
  <1>3. 1 \in 0..(CounterValues - 1)
    BY AeadAssumption
  <1> QED
    BY <1>1, <1>2, <1>3, CallType DEF FirstCounter

\* Xoring the keystream on makes the one of the other.
Turns(c) ==
    /\ Clear(c) \in Seq(AByte) /\ Len(Clear(c)) = c.len
    /\ Cipher(c) \in Seq(AByte) /\ Len(Cipher(c)) = c.len
    /\ OnPad(Clear(c), FirstCounter(c), c.len) = Cipher(c)
    /\ OnPad(Cipher(c), FirstCounter(c), c.len) = Clear(c)

LEMMA Turned ==
    ASSUME NEW c \in Calls
    PROVE  Turns(c)
  <1>1. PICK n \in Nat, f \in Nat : n = c.len /\ f = FirstCounter(c)
    BY CallType, FirstType
  <1>2. ASSUME NEW i \in 1..n
        PROVE  /\ Byte(i, {}) \in AByte /\ Byte(i, {Pad(f, i - 1)}) \in AByte
               /\ Flip(Byte(i, {}), Pad(f, i - 1)) = Byte(i, {Pad(f, i - 1)})
               /\ Flip(Byte(i, {Pad(f, i - 1)}), Pad(f, i - 1)) = Byte(i, {})
    <2>1. PICK pad : pad = Pad(f, i - 1) /\ pad \in Int \X Int
      BY PadType
    <2>2. Byte(i, {}) \in AByte /\ Byte(i, {pad}) \in AByte
      BY <2>1 DEF Byte, AByte
    <2>3. {} \cup {pad} = {pad} /\ {pad} \ {pad} = {}
      OBVIOUS
    <2>4. Flip(Byte(i, {}), pad) = Byte(i, {pad})
      BY <2>3 DEF Flip, Byte
    <2>5. Flip(Byte(i, {pad}), pad) = Byte(i, {})
      BY <2>3 DEF Flip, Byte
    <2> QED
      BY <2>1, <2>2, <2>4, <2>5
  <1>3. Clear(c) = [i \in 1..n |-> Byte(i, {})] /\ Cipher(c) = [i \in 1..n |-> Byte(i, {Pad(f, i - 1)})]
    BY <1>1 DEF Clear, Cipher
  <1>8. Clear(c) \in [1..n -> AByte] /\ Cipher(c) \in [1..n -> AByte]
    BY <1>2, <1>3
  <1>4. Clear(c) \in Seq(AByte) /\ Len(Clear(c)) = n
    BY <1>8
  <1>5. Cipher(c) \in Seq(AByte) /\ Len(Cipher(c)) = n
    BY <1>8
  <1>6. OnPad(Clear(c), f, n) = Cipher(c)
    BY <1>2, <1>3, <1>4 DEF OnPad
  <1>7. OnPad(Cipher(c), f, n) = Clear(c)
    BY <1>2, <1>3, <1>5 DEF OnPad
  <1> QED
    BY <1>1, <1>4, <1>5, <1>6, <1>7 DEF Turns

LEMMA GivenTurns ==
    ASSUME NEW c \in Calls
    PROVE  /\ Given(c) \in Seq(AByte) /\ Len(Given(c)) = c.len
           /\ OnPad(Given(c), FirstCounter(c), c.len) = Wanted(c)
           /\ c.op = "open" => Given(c) = Cipher(c) /\ Wanted(c) = Clear(c)
           /\ c.op = "seal" => Given(c) = Clear(c) /\ Wanted(c) = Cipher(c)
  BY Turned, CallType DEF Turns, Given, Wanted

\* What AES-GCM hashes is the ciphertext.
LEMMA SourceIsCipher ==
    ASSUME NEW c \in Calls
    PROVE  Source(Given(c), FirstCounter(c), c.op = "seal") = Cipher(c)
  BY GivenTurns, CallType DEF Source

-----------------------------------------------------------------------------
(* The steps.                                                               *)

LEMMA AeadInitInvariant == AeadInit => AeadInv
  BY DEF AeadInit, AeadInv

LEMMA CallPreserves == AeadInv /\ AeadCall => AeadInv'
  <1> SUFFICES ASSUME AeadInv, AeadCall PROVE AeadInv'
    OBVIOUS
  <1>1. PICK c \in Calls :
          /\ call' = c
          /\ buf' = IF c.op = "open" THEN Cipher(c) ELSE Clear(c)
          /\ \/ broken /\ Returns("ModuleErrorState")
             \/ ~broken /\ at' = FirstStep(c) /\ UNCHANGED verdict
    BY DEF AeadCall
  <1>2. buf' = Given(c)
    BY <1>1 DEF Given
  <1>3. "returned" \notin Steps(c) /\ FirstStep(c) \in Steps(c)
    BY CallType DEF Steps, FirstStep
  <1>4. CASE broken /\ Returns("ModuleErrorState")
    BY <1>1, <1>2, <1>3, <1>4 DEF AeadInv, UntilXored, AsReturned, Returns, Given
  <1>5. CASE ~broken /\ at' = FirstStep(c) /\ UNCHANGED verdict
    <2>1. FirstStep(c) # "tag" /\ FirstStep(c) # "returned"
      BY DEF FirstStep
    <2>2. ~(FirstStep(c) = "xor" /\ c.alg \in Authenticated)
      BY CallType DEF FirstStep, Authenticated, Algorithms
    <2> QED
      BY <1>1, <1>2, <1>3, <1>5, <2>1, <2>2 DEF AeadInv, UntilXored
  <1> QED
    BY <1>1, <1>4, <1>5

CP == {"chacha20-poly1305", "xchacha20-poly1305"}

\* Which algorithm is at which step.
LEMMA StepsOf ==
    ASSUME AeadInv, at # "idle", at # "returned"
    PROVE  /\ call \in Calls /\ at \in Steps(call) /\ UntilXored
           /\ at = "inner" => call.alg = "xchacha20-poly1305"
           /\ at \in {"enter", "tag"} => call.alg \in CP
           /\ at = "xor" => call.alg \in CP \cup {"chacha20", "ctr"}
           /\ at = "run" => call.alg = "gcm"
           /\ at \in {"derive", "message key", "message"} => call.alg = "gcm-siv"
           /\ at # "tag" => buf = Given(call)
  <1>1. call \in Calls /\ at \in Steps(call) /\ UntilXored
    BY DEF AeadInv
  <1>2. call.alg \in Algorithms
    BY <1>1, CallType
  <1>3. at # "tag" => buf = Given(call)
    BY <1>1 DEF UntilXored
  <1> QED
    BY <1>1, <1>2, <1>3 DEF Steps, CP, Algorithms

\* What a call that has returned needs to have left.
LEMMA ReturnPreserves ==
    ASSUME call \in Calls, call' = call, at' = "returned", AsReturned'
    PROVE  AeadInv'
  <1>1. "returned" \notin Steps(call) /\ "returned" # "tag" /\ "returned" # "xor"
    BY CallType DEF Steps
  <1> QED
    BY <1>1 DEF AeadInv, UntilXored

\* A step that goes on before the buffer is xored.
LEMMA MovePreserves ==
    ASSUME call \in Calls, call' = call, at' \in Steps(call), at' \notin {"tag", "returned"},
           buf' = Given(call),
           at' = "xor" /\ call.alg \in Authenticated /\ call.op = "open" => hashed' = TagInput(call)
    PROVE  AeadInv'
  BY DEF AeadInv, UntilXored

\* The flag alone says that the call did not happen.
LEMMA RefusalPreserves ==
    ASSUME call \in Calls, call' = call, buf' = buf, Returns("ModuleErrorState"),
           call.op = "open" => buf = Cipher(call)
    PROVE  AeadInv'
  <1>1. AsReturned'
    BY DEF AsReturned, Returns
  <1> QED
    BY <1>1, ReturnPreserves DEF Returns

LEMMA InnerPreserves == AeadInv /\ Inner => AeadInv'
  <1> SUFFICES ASSUME AeadInv, Inner PROVE AeadInv'
    OBVIOUS
  <1>1. at = "inner" /\ call' = call /\ buf' = buf
    BY DEF Inner
  <1>2. call \in Calls /\ call.alg = "xchacha20-poly1305" /\ buf = Given(call)
    BY <1>1, StepsOf
  <1>3. CASE broken /\ Returns("ModuleErrorState")
    BY <1>1, <1>2, <1>3, GivenTurns, RefusalPreserves
  <1>4. CASE at' = "enter"
    BY <1>1, <1>2, <1>4, MovePreserves DEF Steps
  <1> QED
    BY <1>3, <1>4 DEF Inner

LEMMA SivDerivePreserves == AeadInv /\ SivDerive => AeadInv'
  <1> SUFFICES ASSUME AeadInv, SivDerive PROVE AeadInv'
    OBVIOUS
  <1>1. at \in {"derive", "message key"} /\ call' = call /\ buf' = buf
    BY DEF SivDerive
  <1>2. call \in Calls /\ call.alg = "gcm-siv" /\ buf = Given(call)
    BY <1>1, StepsOf
  <1>3. CASE broken /\ Returns("ModuleErrorState")
    BY <1>1, <1>2, <1>3, GivenTurns, RefusalPreserves
  <1>4. CASE at' \in {"message key", "message"}
    BY <1>1, <1>2, <1>4, MovePreserves DEF Steps
  <1> QED
    BY <1>3, <1>4 DEF SivDerive

LEMMA LongPreserves == AeadInv /\ Long => AeadInv'
  <1> SUFFICES ASSUME AeadInv, Long PROVE AeadInv'
    OBVIOUS
  <1>1. /\ at = "enter" /\ call' = call /\ buf' = buf /\ hashed' = hashed
        /\ at' = IF call.op = "seal" THEN "xor" ELSE "tag"
    BY DEF Long
  <1>2. call \in Calls /\ call.alg \in CP /\ buf = Given(call)
    BY <1>1, StepsOf
  <1>3. CASE call.op = "seal"
    BY <1>1, <1>2, <1>3, MovePreserves DEF Steps, CP
  <1>4. CASE call.op # "seal"
    <2>1. call.op = "open" /\ Given(call) = Cipher(call)
      BY <1>2, <1>4, CallType, GivenTurns
    <2>2. at' = "tag" /\ "tag" \in Steps(call)
      BY <1>1, <1>2, <1>4 DEF Steps, CP
    <2> QED
      BY <1>1, <1>2, <2>1, <2>2 DEF AeadInv, UntilXored
  <1> QED
    BY <1>3, <1>4

\* A call that ends well.
LEMMA OkPreserves ==
    ASSUME call \in Calls, call' = call, Returns("Ok"), buf' = Wanted(call), CountersLeft(call),
           call.alg \in Authenticated => hashed' = TagInput(call)
    PROVE  AeadInv'
  <1>1. AsReturned'
    BY DEF AsReturned, Returns
  <1> QED
    BY <1>1, ReturnPreserves DEF Returns

\* One whose tag was not the right one.
LEMMA FailPreserves ==
    ASSUME call \in Calls, call' = call, Returns("AuthenticationFailed"), call.op = "open", buf' = WipedBuf
    PROVE  AeadInv'
  <1>1. AsReturned'
    BY DEF AsReturned, Returns, WipedBuf
  <1> QED
    BY <1>1, ReturnPreserves DEF Returns

LEMMA TagInputCP ==
    ASSUME NEW c, c.alg \in CP
    PROVE  /\ TagInput(c) = Framed(c.aad, Cipher(c)) /\ FirstCounter(c) = 1
           /\ c.alg \in Authenticated /\ c.alg # "ctr"
  BY DEF TagInput, CP, FirstCounter, Authenticated, Algorithms

LEMMA ShortPreserves == AeadInv /\ Short => AeadInv'
  <1> SUFFICES ASSUME AeadInv, Short PROVE AeadInv'
    OBVIOUS
  <1>1. at = "enter" /\ IsShort /\ call' = call
    BY DEF Short
  <1>2. call \in Calls /\ call.alg \in CP /\ buf = Given(call)
    BY <1>1, StepsOf
  <1>3. TagInput(call) = Framed(call.aad, Cipher(call)) /\ FirstCounter(call) = 1
    BY <1>2, TagInputCP
  <1>4. CountersLeft(call)
    BY <1>1, <1>2 DEF CountersLeft, IsShort, CP
  <1>5. /\ Given(call) \in Seq(AByte) /\ Len(Given(call)) = call.len
        /\ OnPad(Given(call), FirstCounter(call), call.len) = Wanted(call)
    BY <1>2, GivenTurns
  <1>6. ShortXor(buf) = Wanted(call)
    BY <1>1, <1>2, <1>3, <1>5, ShortXored DEF IsShort
  <1>7. CASE call.op = "seal"
    <2>1. Wanted(call) = Cipher(call)
      BY <1>2, <1>7, GivenTurns
    <2>2. CASE Returns("ModuleErrorState")
      <3>1. AsReturned'
        BY <1>1, <1>7, <2>2 DEF AsReturned, Returns
      <3> QED
        BY <1>1, <1>2, <2>2, <3>1, ReturnPreserves DEF Returns
    <2>3. CASE buf' = ShortXor(buf) /\ Returns("Ok") /\ hashed' = Framed(call.aad, buf')
      BY <1>1, <1>2, <1>3, <1>4, <1>6, <2>1, <2>3, OkPreserves
    <2> QED
      BY <1>7, <2>2, <2>3 DEF Short
  <1>8. CASE call.op # "seal"
    <2>1. call.op = "open" /\ Given(call) = Cipher(call)
      BY <1>2, <1>8, CallType, GivenTurns
    <2>2. CASE Returns("ModuleErrorState") /\ buf' = buf
      BY <1>1, <1>2, <2>1, <2>2, RefusalPreserves
    <2>3. CASE hashed' = Framed(call.aad, buf) /\ buf' = ShortXor(buf) /\ Returns("Ok")
      BY <1>1, <1>2, <1>3, <1>4, <1>6, <2>1, <2>3, OkPreserves
    <2>4. CASE buf' = WipedBuf /\ Returns("AuthenticationFailed")
      BY <1>1, <1>2, <2>1, <2>4, FailPreserves
    <2> QED
      BY <1>8, <2>2, <2>3, <2>4 DEF Short
  <1> QED
    BY <1>7, <1>8

LEMMA TagPreserves == AeadInv /\ TagStep => AeadInv'
  <1> SUFFICES ASSUME AeadInv, TagStep PROVE AeadInv'
    OBVIOUS
  <1>1. at = "tag" /\ call' = call
    BY DEF TagStep
  <1>2. call \in Calls /\ call.alg \in CP /\ UntilXored
    BY <1>1, StepsOf
  <1>3. /\ TagInput(call) = Framed(call.aad, Cipher(call)) /\ FirstCounter(call) = 1
        /\ call.alg \in Authenticated
    BY <1>2, TagInputCP
  <1>4. buf = Cipher(call) /\ (call.op = "seal" => CounterSuffices(1, call.len))
    BY <1>1, <1>2 DEF UntilXored
  <1>5. CASE Returns("ModuleErrorState") /\ buf' = buf
    BY <1>1, <1>2, <1>4, <1>5, RefusalPreserves
  <1>6. CASE hashed' = Framed(call.aad, buf) /\ call.op = "seal" /\ Returns("Ok") /\ buf' = buf
    <2>1. Wanted(call) = Cipher(call)
      BY <1>2, <1>6, GivenTurns
    <2>2. CountersLeft(call)
      BY <1>2, <1>4, <1>6 DEF CountersLeft, CP
    <2> QED
      BY <1>1, <1>2, <1>3, <1>4, <1>6, <2>1, <2>2, OkPreserves
  <1>7. CASE hashed' = Framed(call.aad, buf) /\ call.op = "open" /\ at' = "xor" /\ buf' = buf
    <2>1. Given(call) = Cipher(call)
      BY <1>2, <1>7, GivenTurns
    <2>2. "xor" \in Steps(call)
      BY <1>2 DEF Steps, CP
    <2> QED
      BY <1>1, <1>2, <1>3, <1>4, <1>7, <2>1, <2>2, MovePreserves
  <1>8. CASE call.op = "open" /\ buf' = WipedBuf /\ Returns("AuthenticationFailed")
    BY <1>1, <1>2, <1>8, FailPreserves
  <1> QED
    BY <1>5, <1>6, <1>7, <1>8 DEF TagStep

\* Whatever the CPU offers, the message step is the cipher.
LEMMA XorMakes ==
    ASSUME call \in Calls, buf = Given(call)
    PROVE  (IF call.alg = "ctr" THEN ctr32_xor(call.counter, buf)
            ELSE xor_keystream(call.backend, FirstCounter(call), buf)) = Wanted(call)
  <1>1. /\ buf \in Seq(AByte) /\ Len(buf) = call.len
        /\ OnPad(buf, FirstCounter(call), call.len) = Wanted(call)
    BY GivenTurns
  <1>2. FirstCounter(call) \in 0..(CounterValues - 1)
    BY FirstType
  <1>3. CASE call.alg = "ctr"
    <2>1. FirstCounter(call) = call.counter
      BY <1>3 DEF FirstCounter
    <2>2. ctr32_xor(FirstCounter(call), buf) = OnPad(buf, FirstCounter(call), Len(buf))
      BY <1>1, <1>2, CtrXored
    <2> QED
      BY <1>1, <1>3, <2>1, <2>2
  <1>4. CASE call.alg # "ctr"
    <2>1. xor_keystream(call.backend, FirstCounter(call), buf)
          = OnPad(buf, FirstCounter(call), Len(buf))
      BY <1>1, <1>2, KeystreamXored
    <2> QED
      BY <1>1, <1>4, <2>1
  <1> QED
    BY <1>3, <1>4

LEMMA XorStepPreserves == AeadInv /\ XorStep => AeadInv'
  <1> SUFFICES ASSUME AeadInv, XorStep PROVE AeadInv'
    OBVIOUS
  <1>1. at = "xor" /\ call' = call /\ hashed' = hashed
    BY DEF XorStep
  <1>2. call \in Calls /\ call.alg \in CP \cup {"chacha20", "ctr"} /\ buf = Given(call) /\ UntilXored
    BY <1>1, StepsOf
  <1>3. CASE call.alg # "ctr" /\ (broken \/ ~CounterSuffices(FirstCounter(call), call.len))
    <2>1. Returns(IF broken THEN "ModuleErrorState" ELSE "CounterExhausted") /\ buf' = buf
      BY <1>3 DEF XorStep
    <2>2. CASE broken
      <3>1. call.op = "open" => buf = Cipher(call)
        BY <1>2, GivenTurns
      <3>2. Returns("ModuleErrorState")
        BY <2>1, <2>2
      <3> QED
        BY <1>1, <1>2, <2>1, <3>1, <3>2, RefusalPreserves
    <2>3. CASE ~broken
      <3>1. AsReturned'
        BY <1>1, <1>2, <2>1, <2>3 DEF AsReturned, Returns, Given, Cipher, Clear
      <3> QED
        BY <1>1, <1>2, <2>1, <3>1, ReturnPreserves DEF Returns
    <2> QED
      BY <2>2, <2>3
  <1>4. CASE ~(call.alg # "ctr" /\ (broken \/ ~CounterSuffices(FirstCounter(call), call.len)))
    <2>1. /\ buf' = IF call.alg = "ctr" THEN ctr32_xor(call.counter, buf)
                    ELSE xor_keystream(call.backend, FirstCounter(call), buf)
          /\ IF call.op = "seal" /\ call.alg \in Authenticated
             THEN at' = "tag" /\ UNCHANGED verdict
             ELSE Returns("Ok")
      BY <1>4 DEF XorStep
    <2>2. buf' = Wanted(call)
      BY <1>2, <2>1, XorMakes
    <2>3. call.alg \in CP => CounterSuffices(1, call.len)
      BY <1>4, TagInputCP
    <2>4. CASE call.op = "seal" /\ call.alg \in Authenticated
      <3>1. call.alg \in CP
        BY <1>2, <2>4 DEF Authenticated
      <3>2. "tag" \in Steps(call) /\ Wanted(call) = Cipher(call)
        BY <1>2, <2>4, <3>1, GivenTurns DEF Steps, CP
      <3>3. at' = "tag"
        BY <2>1, <2>4
      <3> QED
        BY <1>1, <1>2, <2>2, <2>3, <3>1, <3>2, <3>3 DEF AeadInv, UntilXored
    <2>5. CASE ~(call.op = "seal" /\ call.alg \in Authenticated)
      <3>1. call.alg # "gcm"
        BY <1>2 DEF CP
      <3>2. CountersLeft(call)
        BY <2>3, <3>1 DEF CountersLeft, CP
      <3>3. call.alg \in Authenticated => hashed' = TagInput(call)
        BY <1>1, <1>2, <2>5, CallType DEF UntilXored
      <3> QED
        BY <1>1, <1>2, <2>1, <2>2, <2>5, <3>2, <3>3, OkPreserves
    <2> QED
      BY <2>4, <2>5
  <1> QED
    BY <1>3, <1>4

\* The verdict of an algorithm that decrypts before it verifies.
LEMMA VerifiedPreserves ==
    ASSUME call \in Calls, call' = call, NEW out, out = Wanted(call), Verified(out),
           CountersLeft(call), hashed' = TagInput(call)
    PROVE  AeadInv'
  <1>1. CASE call.op = "open" /\ ~call.genuine /\ buf' = WipedBuf /\ Returns("AuthenticationFailed")
    BY <1>1, FailPreserves
  <1>2. CASE buf' = out /\ Returns("Ok")
    BY <1>2, OkPreserves
  <1> QED
    BY <1>1, <1>2 DEF Verified

LEMMA GcmRunPreserves == AeadInv /\ GcmRun => AeadInv'
  <1> SUFFICES ASSUME AeadInv, GcmRun PROVE AeadInv'
    OBVIOUS
  <1>1. at = "run" /\ call' = call
    BY DEF GcmRun
  <1>2. call \in Calls /\ call.alg = "gcm" /\ buf = Given(call)
    BY <1>1, StepsOf
  <1>3. PICK made : made = IF call.backend = "generic"
                           THEN gcm_core(call.counter, call.aad, buf, call.op = "seal")
                           ELSE seal_or_open(call.backend, call.counter, call.aad, buf, call.op = "seal")
    OBVIOUS
  <1>4. CASE Returns("CounterExhausted") /\ buf' = buf
    <2>1. AsReturned'
      BY <1>1, <1>2, <1>4 DEF AsReturned, Returns, Given, Cipher, Clear
    <2> QED
      BY <1>1, <1>2, <1>4, <2>1, ReturnPreserves DEF Returns
  <1>5. CASE call.len <= MAX_PLAINTEXT_BYTES /\ hashed' = made.over /\ Verified(made.data)
    <2>1. FirstCounter(call) = Wrap(call.counter + 1)
      BY <1>2 DEF FirstCounter
    <2>2. PICK first : first = FirstCounter(call) /\ first = Wrap(call.counter + 1)
      BY <2>1
    <2>3. /\ buf \in Seq(AByte) /\ Len(buf) = call.len
          /\ OnPad(buf, first, call.len) = Wanted(call)
      BY <1>2, <2>2, GivenTurns
    <2>4. call.counter \in Nat /\ call.aad \in Nat
      BY <1>2, CallType
    <2>5. Result(OnPad(buf, first, Len(buf)), Framed(call.aad, Source(buf, first, call.op = "seal")), made)
      BY <1>3, <2>2, <2>3, <2>4, GcmCoreMakes, SealOrOpenMakes
    <2>6. Source(buf, first, call.op = "seal") = Cipher(call)
      BY <1>2, <2>2, SourceIsCipher
    <2>7. made.data = Wanted(call) /\ made.over = Framed(call.aad, Cipher(call))
      BY <2>3, <2>5, <2>6 DEF Result
    <2>8. TagInput(call) = Framed(call.aad, Cipher(call))
      BY <1>2 DEF TagInput
    <2>9. CountersLeft(call)
      BY <1>2, <1>5 DEF CountersLeft
    <2> QED
      BY <1>1, <1>2, <1>5, <2>7, <2>8, <2>9, VerifiedPreserves
  <1> QED
    BY <1>3, <1>4, <1>5 DEF GcmRun

LEMMA SivMessagePreserves == AeadInv /\ SivMessage => AeadInv'
  <1> SUFFICES ASSUME AeadInv, SivMessage PROVE AeadInv'
    OBVIOUS
  <1>1. at = "message" /\ call' = call
    BY DEF SivMessage
  <1>2. call \in Calls /\ call.alg = "gcm-siv" /\ buf = Given(call)
    BY <1>1, StepsOf
  <1>3. PICK out : out = Rest(Work(buf, call.counter))
    OBVIOUS
  <1>4. /\ hashed' = Framed(call.aad, IF call.op = "seal" THEN buf ELSE out)
        /\ Verified(out)
    BY <1>3 DEF SivMessage
  <1>5. FirstCounter(call) = call.counter
    BY <1>2 DEF FirstCounter
  <1>6. /\ buf \in Seq(AByte) /\ Len(buf) = call.len /\ Len(buf) \in Nat
        /\ OnPad(buf, call.counter, call.len) = Wanted(call)
    BY <1>2, <1>5, GivenTurns, CallType
  <1>7. call.counter \in 0..(CounterValues - 1) /\ call.counter \in Nat
    BY <1>2, CallType
  <1>8. Reached(Work(buf, call.counter), buf, call.counter)
    BY <1>6, <1>7, WorkReached
  <1>9. out = Wanted(call)
    BY <1>3, <1>6, <1>7, <1>8, RestIsAll
  <1>10. (IF call.op = "seal" THEN buf ELSE out) = Clear(call)
    BY <1>2, <1>9, GivenTurns, CallType
  <1>11. TagInput(call) = Framed(call.aad, Clear(call))
    BY <1>2 DEF TagInput
  <1>12. CountersLeft(call)
    BY <1>2 DEF CountersLeft
  <1> QED
    BY <1>1, <1>2, <1>4, <1>9, <1>10, <1>11, <1>12, VerifiedPreserves

LEMMA UnchangedPreserves ==
    ASSUME AeadInv, call' = call, at' = at, buf' = buf, hashed' = hashed, verdict' = verdict
    PROVE  AeadInv'
  BY DEF AeadInv, UntilXored, AsReturned, WipedBuf

LEMMA AeadNextPreserves == AeadInv /\ [AeadNext]_aeadVars => AeadInv'
  <1> SUFFICES ASSUME AeadInv, [AeadNext]_aeadVars PROVE AeadInv'
    OBVIOUS
  <1>1. CASE AeadModuleFails
    BY <1>1, UnchangedPreserves DEF AeadModuleFails
  <1>2. CASE UNCHANGED aeadVars
    BY <1>2, UnchangedPreserves DEF aeadVars
  <1> QED
    BY <1>1, <1>2, CallPreserves, InnerPreserves, ShortPreserves, LongPreserves, XorStepPreserves,
       TagPreserves, GcmRunPreserves, SivDerivePreserves, SivMessagePreserves DEF AeadNext

(* The buffer of every call is as the caller gave it until the one step     *)
(* that xors it, and what a verdict says of the buffer, of what the tag is  *)
(* over and of the counters is so (chacha.rs, gcm.rs, gcm_siv.rs: seal and  *)
(* open_detached).                                                          *)
THEOREM AeadInvariant == AeadSpec => []AeadInv
  BY AeadInitInvariant, AeadNextPreserves, PTL DEF AeadSpec

-----------------------------------------------------------------------------
(* What the invariant says.                                                 *)

\* Counters less than a turn of the counter apart are not the same.
LEMMA WrapDistinct ==
    ASSUME NEW f \in Nat, NEW a \in Nat, NEW b \in Nat, a < b, b - a < CounterValues
    PROVE  Wrap(f + a) # Wrap(f + b)
  <1>1. PICK c \in Nat : c = CounterValues /\ c > 0
    BY AeadAssumption
  <1>2. PICK x \in Nat, y \in Nat : x = f + a /\ y = f + b
    OBVIOUS
  <1>3. PICK q \in Nat, r \in Nat : x = c * q + r /\ r < c /\ r = x % c
    BY <1>1, Split
  <1>4. PICK p \in Nat, s \in Nat : y = c * p + s /\ s < c /\ s = y % c
    BY <1>1, Split
  <1>5. r # s
    <2> SUFFICES ASSUME r = s PROVE FALSE
      OBVIOUS
    <2>1. PICK u \in Nat, v \in Nat : u = c * q /\ v = c * p
      BY TimesNat
    <2>2. v > u /\ v - u < c
      BY <1>1, <1>2, <1>3, <1>4, <2>1
    <2>3. CASE p <= q
      <3>1. v <= u
        BY <2>1, <2>3
      <3> QED
        BY <2>2, <3>1
    <2>4. CASE ~(p <= q)
      <3>1. PICK d \in Nat : p = q + 1 + d
        <4>1. p - q - 1 \in Nat /\ p = q + 1 + (p - q - 1)
          BY <2>4
        <4> QED
          BY <4>1
      <3>2. PICK e \in Nat : e = c * d
        BY TimesNat
      <3>3. v = u + c + e
        BY <2>1, <3>1, <3>2
      <3> QED
        BY <2>2, <3>2, <3>3
    <2> QED
      BY <2>3, <2>4
  <1> QED
    BY <1>1, <1>2, <1>3, <1>4, <1>5 DEF Wrap

\* So many bytes are in at most so many blocks.
LEMMA CountBound ==
    ASSUME NEW n \in Nat, NEW m \in Nat, n <= m * BlockBytes
    PROVE  Count(n) <= m
  <1>1. PICK B \in Nat : B = BlockBytes /\ B > 0
    BY AeadAssumption
  <1>2. PICK q \in Nat : q = Count(n) /\ q * BlockBytes < n + BlockBytes
    BY CountIs
  <1>3. CASE q <= m
    BY <1>2, <1>3
  <1>4. CASE ~(q <= m)
    <2>1. PICK x \in Nat, y \in Nat : x = m * B /\ y = q * B
      BY TimesNat
    <2>2. PICK d \in Nat : q = m + 1 + d
      <3>1. q - m - 1 \in Nat /\ q = m + 1 + (q - m - 1)
        BY <1>4
      <3> QED
        BY <3>1
    <2>3. PICK z \in Nat : z = d * B
      BY TimesNat
    <2>4. y = x + B + z
      BY <2>1, <2>2, <2>3
    <2> QED
      BY <1>1, <1>2, <2>1, <2>3, <2>4
  <1> QED
    BY <1>3, <1>4

LEMMA BlocksDistinct ==
    ASSUME NEW c \in Calls, WithinCounter(c),
           NEW a \in 0..(Count(c.len) - 1), NEW b \in 0..(Count(c.len) - 1), a # b
    PROVE  Wrap(FirstCounter(c) + a) # Wrap(FirstCounter(c) + b)
  <1>1. PICK f \in Nat, n \in Nat : f = FirstCounter(c) /\ n = c.len
    BY CallType, FirstType
  <1>2. PICK q \in Nat : q = Count(n)
    BY CountIs
  <1>3. CounterValues \in Nat
    BY AeadAssumption
  <1>4. Count(n) <= CounterValues
    BY <1>1, <1>3, CountBound DEF WithinCounter
  <1>5. a \in Nat /\ b \in Nat /\ a < q /\ b < q /\ q <= CounterValues
    BY <1>1, <1>2, <1>4
  <1>6. CASE a < b
    BY <1>1, <1>3, <1>5, <1>6, WrapDistinct
  <1>7. CASE b < a
    BY <1>1, <1>3, <1>5, <1>7, WrapDistinct
  <1> QED
    BY <1>5, <1>6, <1>7

\* A message that was accepted leaves the key's block, or the tag's, alone.
LEMMA ReservedApart ==
    ASSUME NEW c \in Calls, CountersLeft(c), NEW b \in 0..(Count(c.len) - 1)
    PROVE  Wrap(FirstCounter(c) + b) \notin Reserved(c)
  <1>1. PICK n \in Nat : n = c.len
    BY CallType
  <1>2. PICK q \in Nat : q = Count(n) /\ q = Count(c.len)
    BY <1>1, CountIs
  <1>3. b \in Nat /\ b < q
    BY <1>2
  <1>4. PICK v \in Nat : v = CounterValues /\ v >= 4
    BY AeadAssumption
  <1>5. CASE c.alg \in CP
    <2>1. FirstCounter(c) = 1 /\ Reserved(c) = {0}
      BY <1>5 DEF FirstCounter, Reserved, CP
    <2>2. 1 + q <= v
      <3>1. CASE c.len <= SHORT_MAX
        <4>1. q <= 3
          BY <1>1, <1>2, <3>1, CountBound DEF SHORT_MAX
        <4> QED
          BY <1>4, <4>1
      <3>2. CASE CounterSuffices(1, c.len)
        BY <1>2, <1>4, <3>2 DEF CounterSuffices, Count
      <3> QED
        BY <1>5, <3>1, <3>2 DEF CountersLeft, CP
    <2>3. PICK m \in Nat : m = 1 + b /\ m > 0 /\ m < v
      BY <1>3, <2>2
    <2>4. Wrap(m) = m
      BY <1>4, <2>3, WrapSmall
    <2> QED
      BY <2>1, <2>3, <2>4
  <1>6. CASE c.alg = "gcm"
    <2>1. PICK j \in Nat : j = c.counter /\ j < CounterValues
      BY CallType, AeadAssumption
    <2>2. FirstCounter(c) = Wrap(j + 1) /\ Reserved(c) = {j}
      BY <1>6, <2>1 DEF FirstCounter, Reserved
    <2>3. q <= v - 2
      <3>1. PICK m \in Nat : m = v - 2
        BY <1>4
      <3>2. n <= m * BlockBytes
        BY <1>1, <1>4, <1>6, <3>1 DEF CountersLeft, MAX_PLAINTEXT_BYTES
      <3> QED
        BY <1>2, <3>1, <3>2, CountBound
    <2>4. PICK k \in Nat, d \in Nat : k = j + 1 /\ d = 1 + b /\ d > 0 /\ d < v
      BY <1>3, <2>3
    <2>5. Wrap(Wrap(k) + b) = Wrap(k + b)
      BY <1>3, WrapWrap
    <2>6. k + b = j + d
      BY <1>3, <2>4
    <2>7. Wrap(j + 0) # Wrap(j + d)
      <3>1. PICK o \in Nat : o = 0 /\ o < d /\ d - o < CounterValues
        BY <1>4, <2>4
      <3>2. Wrap(j + o) # Wrap(j + d)
        BY <3>1, WrapDistinct
      <3> QED
        BY <3>1, <3>2
    <2>8. Wrap(j) = j /\ j + 0 = j
      BY <2>1, WrapSmall
    <2> QED
      <3>1. Wrap(FirstCounter(c) + b) = Wrap(j + d)
        BY <2>2, <2>4, <2>5, <2>6
      <3>2. Wrap(j + d) # j
        BY <2>7, <2>8
      <3> QED
        BY <2>2, <3>1, <3>2
  <1>7. CASE c.alg \notin CP \cup {"gcm"}
    BY <1>7 DEF Reserved, CP
  <1> QED
    BY <1>5, <1>6, <1>7

LEMMA ReturnedIs ==
    ASSUME AeadInv, at = "returned"
    PROVE  call \in Calls /\ AsReturned
  BY DEF AeadInv

LEMMA KeystreamOnceFollows == AeadInv => KeystreamOnce
  <1> SUFFICES ASSUME AeadInv PROVE KeystreamOnce
    OBVIOUS
  <1>1. ASSUME at = "returned", verdict = "Ok"
        PROVE  /\ buf = IF call.op = "seal" THEN Cipher(call) ELSE Clear(call)
               /\ WithinCounter(call) =>
                    LET counters == MessageCounters(call) IN
                    /\ \A a, b \in 0..((call.len + BlockBytes - 1) \div BlockBytes - 1) :
                          a # b => Wrap(FirstCounter(call) + a) # Wrap(FirstCounter(call) + b)
                    /\ counters \cap Reserved(call) = {}
    <2>1. call \in Calls /\ buf = Wanted(call) /\ CountersLeft(call)
      BY <1>1, ReturnedIs DEF AsReturned
    <2>2. buf = IF call.op = "seal" THEN Cipher(call) ELSE Clear(call)
      BY <2>1, GivenTurns, CallType
    <2>3. ASSUME WithinCounter(call), NEW a \in 0..(Count(call.len) - 1),
                 NEW b \in 0..(Count(call.len) - 1), a # b
          PROVE  Wrap(FirstCounter(call) + a) # Wrap(FirstCounter(call) + b)
      BY <2>1, <2>3, BlocksDistinct
    <2>4. ASSUME NEW b \in 0..(Count(call.len) - 1)
          PROVE  Wrap(FirstCounter(call) + b) \notin Reserved(call)
      BY <2>1, <2>4, ReservedApart
    <2>5. MessageCounters(call) \cap Reserved(call) = {}
      BY <2>4 DEF MessageCounters, Count
    <2>6. ASSUME WithinCounter(call)
          PROVE  \A a, b \in 0..((call.len + BlockBytes - 1) \div BlockBytes - 1) :
                    a # b => Wrap(FirstCounter(call) + a) # Wrap(FirstCounter(call) + b)
      BY <2>3, <2>6 DEF Count
    <2> QED
      BY <2>2, <2>5, <2>6
  <1>2. ASSUME at = "returned", verdict = "CounterExhausted"
        PROVE  buf = IF call.op = "seal" THEN Clear(call) ELSE Cipher(call)
    <2>1. call \in Calls /\ buf = Given(call)
      BY <1>2, ReturnedIs DEF AsReturned
    <2> QED
      BY <2>1, GivenTurns, CallType
  <1> QED
    BY <1>1, <1>2 DEF KeystreamOnce

(* Whatever the CPU offers, whatever the size of a block, of the counter    *)
(* and of a kernel's group, and however long the message: a call that       *)
(* succeeds has xored every byte with its own keystream byte, no counter    *)
(* serves twice, and a message that would need that is refused untouched    *)
(* (chacha.rs: xor_keystream; gcm_x86.rs: run_wide).                        *)
THEOREM AeadKeystreamOnce == AeadSpec => []KeystreamOnce
  BY AeadInvariant, KeystreamOnceFollows, PTL

LEMMA TagOverEverythingFollows == AeadInv => TagOverEverything
  BY ReturnedIs DEF AsReturned, TagOverEverything, TagInput

(* Whatever a kernel leaves queued and by whatever groups it goes, the tag  *)
(* is over all of the associated data and all of the message, each block    *)
(* once and in order (gcm_x86.rs: Pending, finish; chacha.rs: tag).         *)
THEOREM AeadTagOverEverything == AeadSpec => []TagOverEverything
  BY AeadInvariant, TagOverEverythingFollows, PTL

LEMMA NothingUnverifiedFollows == AeadInv => NothingUnverified
  <1> SUFFICES ASSUME AeadInv, at = "returned", call.op = "open", verdict # "Ok",
                      NEW i \in DOMAIN buf
               PROVE  buf[i].pads # {}
    BY DEF NothingUnverified
  <1>1. call \in Calls /\ AsReturned
    BY ReturnedIs
  <1>2. CASE buf = Cipher(call)
    BY <1>2 DEF Cipher, Byte
  <1>3. CASE buf = WipedBuf
    BY <1>3 DEF WipedBuf, Wiped, Byte
  <1> QED
    BY <1>1, <1>2, <1>3, GivenTurns DEF AsReturned

(* An open that fails, for the tag, for the length or because the module    *)
(* failed in the middle of it, leaves no plaintext in the buffer (gcm.rs,   *)
(* gcm_siv.rs, chacha.rs: open_detached).                                   *)
THEOREM AeadNothingUnverified == AeadSpec => []NothingUnverified
  BY AeadInvariant, NothingUnverifiedFollows, PTL
=============================================================================
