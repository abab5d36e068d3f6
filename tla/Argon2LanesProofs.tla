-------------------------- MODULE Argon2LanesProofs --------------------------
(***************************************************************************)
(* Proofs about Argon2Lanes, for any parameters, any arena, any number of   *)
(* threads and any width of the words: slices are filled in step, reads are *)
(* settled, and the arena is wiped.                                         *)
(***************************************************************************)
EXTENDS Argon2Lanes, WellFoundedInduction, TLAPS

-----------------------------------------------------------------------------
(* Arithmetic.                                                              *)

LEMMA Least ==
    ASSUME NEW T, T \subseteq Nat, T # {}
    PROVE  \E x \in T : \A y \in T : x <= y
  <1> DEFINE R == OpToRel(<, Nat)
  <1>1. IsWellFoundedOn(R, Nat)
    BY NatLessThanWellFounded
  <1> HIDE DEF R
  <1>2. PICK x \in T : \A y \in T : ~(<<y, x>> \in R)
    BY <1>1, WFMin
  <1>3. \A y \in T : ~(y < x)
    BY <1>2 DEF OpToRel, R
  <1> QED
    BY <1>3

LEMMA RowsApart ==
    ASSUME NEW a \in Nat, NEW b \in Nat, NEW n \in Nat, a < b
    PROVE  a * n + n <= b * n
  OBVIOUS

LEMMA Division ==
    ASSUME NEW a \in Nat, NEW b \in Nat, b # 0
    PROVE  /\ a = b * (a \div b) + (a % b)
           /\ a % b \in Nat /\ a % b < b
           /\ a \div b \in Int /\ a \div b >= 0
  <1>1. a = b * (a \div b) + (a % b)
    OBVIOUS
  <1>2. a % b \in Nat
    OBVIOUS
  <1>3. a % b < b
    OBVIOUS
  <1>4. a \div b \in Int /\ a \div b >= 0
    OBVIOUS
  <1> QED
    BY <1>1, <1>2, <1>3, <1>4

\* The number of batches of so many lanes.
LEMMA Batches ==
    ASSUME NEW l \in Nat, NEW p \in Nat, l > 0, p > 0
    PROVE  /\ DivCeil(l, p) \in Nat /\ DivCeil(l, p) >= 1
           /\ (DivCeil(l, p) - 1) * p < l /\ l <= DivCeil(l, p) * p
           /\ DivCeil(l, p) <= l
  <1>1. PICK k \in Int : k = (l + p - 1) \div p
    BY Division
  <1>2. k >= 1 /\ (k - 1) * p < l /\ l <= k * p
    BY <1>1
  <1>3. k <= l
    <2> SUFFICES ASSUME k > l PROVE FALSE
      BY <1>1
    <2>1. k - 1 \in Nat /\ k - 1 >= l
      BY <1>1, <1>2
    <2>2. (k - 1) * p >= k - 1
      BY <2>1
    <2> QED
      BY <1>1, <1>2, <2>1, <2>2
  <1> QED
    BY <1>1, <1>2, <1>3 DEF DivCeil

\* A wrap around the lane.
LEMMA Around1 ==
    ASSUME NEW a \in Nat, NEW n \in Nat, n > 0, a < 2 * n
    PROVE  a % n = IF a < n THEN a ELSE a - n
  <1>1. CASE a < n
    BY <1>1
  <1>2. CASE ~(a < n)
    BY <1>2
  <1> QED
    BY <1>1, <1>2

\* The part of the area that a word picks.
LEMMA Picked ==
    ASSUME NEW area \in Nat, area > 0, NEW x \in Words
    PROVE  area - 1 - ((area * x) \div WordValues) \in 0..(area - 1)
  <1>1. x \in Nat /\ WordValues \in Nat /\ x < WordValues
    BY Argon2Assumption DEF Words
  <1>2. PICK v \in Nat : v = WordValues
    BY <1>1
  <1>3. (area * x) \div v < area /\ (area * x) \div v >= 0
    BY <1>1, <1>2
  <1>4. (area * x) \div v \in Int
    BY <1>1, <1>2
  <1> QED
    BY <1>2, <1>3, <1>4

-----------------------------------------------------------------------------
(* The geometry.                                                            *)

LEMMA Shape ==
    ASSUME GeometryOK
    PROVE  \E l, n, s \in Nat :
              /\ l = g.lanes /\ n = g.lane_len /\ s = g.segment_len
              /\ l >= 1 /\ s >= 2 /\ n = 4 * s /\ g.total = l * n /\ g.total \in Nat
              /\ g.passes \in Nat /\ g.passes >= 1
  <1>1. /\ g.lanes \in Nat /\ g.lane_len \in Nat /\ g.segment_len \in Nat /\ g.total \in Nat
        /\ g.passes \in Nat
    BY DEF GeometryOK, Geometries
  <1> QED
    BY <1>1 DEF GeometryOK, SLICES

LEMMA GeometryMade ==
    ASSUME NEW variant \in Variants, NEW version \in Versions, NEW p \in Params, validate(p)
    PROVE  LET made == Geometry(variant, version, p) IN
           /\ made \in Geometries
           /\ made.lanes >= 1 /\ made.passes >= 1 /\ made.segment_len >= 2
           /\ made.lane_len = SLICES * made.segment_len
           /\ made.total = made.lanes * made.lane_len
           /\ made.total = block_count(p)
  <1>1. PICK l \in Nat, kib \in Nat, ps \in Nat : l = p.lanes /\ kib = p.memory_kib /\ ps = p.passes
    BY Argon2Assumption
  <1>2. l >= 1 /\ ps >= 1 /\ kib >= 8 * l
    BY <1>1 DEF validate
  <1>3. PICK q \in Int : q = kib \div (4 * l)
    BY <1>2, Division
  <1>4. q >= 2
    BY <1>2, <1>3
  <1>5. block_count(p) = q * (4 * l)
    <2>1. kib >= 8 * l /\ ~(kib < 8 * l) /\ l # 0
      BY <1>1, <1>2
    <2> QED
      BY <1>1, <1>3, <2>1 DEF block_count, SLICES
  <1>6. (q * (4 * l)) \div l = 4 * q
    BY <1>2, <1>4
  <1>7. (4 * q) \div 4 = q
    OBVIOUS
  <1>8. q * (4 * l) \in Nat /\ 4 * q \in Nat /\ q \in Nat /\ q * (4 * l) = l * (4 * q)
    BY <1>4
  <1>9. Geometry(variant, version, p) =
           [variant |-> variant, version |-> version, lanes |-> l, passes |-> ps,
            total |-> q * (4 * l), lane_len |-> 4 * q, segment_len |-> q]
    BY <1>1, <1>5, <1>6, <1>7 DEF Geometry, SLICES
  <1> QED
    BY <1>2, <1>4, <1>5, <1>8, <1>9 DEF Geometries, SLICES

\* The blocks of the lanes are the blocks of the arena, each once.
LEMMA CellInArena ==
    ASSUME GeometryOK, NEW lane \in LaneIds, NEW position \in 0..(g.lane_len - 1)
    PROVE  lane * g.lane_len + position \in 0..(g.total - 1)
  <1>1. PICK l, n, s \in Nat :
              /\ l = g.lanes /\ n = g.lane_len /\ s = g.segment_len
              /\ l >= 1 /\ s >= 2 /\ n = 4 * s /\ g.total = l * n /\ g.total \in Nat
    BY Shape
  <1>2. lane \in Nat /\ lane < l /\ position \in Nat /\ position < n
    BY <1>1 DEF LaneIds
  <1>3. lane * n + n <= l * n
    BY <1>2, RowsApart
  <1>4. lane * n \in Nat
    BY <1>2
  <1>5. lane * n + position \in 0..(l * n - 1)
    BY <1>2, <1>3, <1>4
  <1> QED
    BY <1>1, <1>5

LEMMA CellsApart ==
    ASSUME GeometryOK, NEW lane \in LaneIds, NEW position \in 0..(g.lane_len - 1),
           NEW other \in LaneIds, NEW place \in 0..(g.lane_len - 1),
           lane * g.lane_len + position = other * g.lane_len + place
    PROVE  lane = other /\ position = place
  <1>1. PICK l, n, s \in Nat :
              /\ l = g.lanes /\ n = g.lane_len /\ s = g.segment_len
              /\ l >= 1 /\ s >= 2 /\ n = 4 * s /\ g.total = l * n /\ g.total \in Nat
    BY Shape
  <1>2. lane \in Nat /\ position \in Nat /\ position < n /\ other \in Nat /\ place \in Nat /\ place < n
    BY <1>1 DEF LaneIds
  <1>3. lane * n + position = other * n + place
    BY <1>1
  <1>4. ~(lane < other) /\ ~(other < lane)
    <2>1. lane * n \in Nat /\ other * n \in Nat
      BY <1>2
    <2> QED
      BY <1>2, <1>3, <2>1, RowsApart
  <1>5. lane = other
    BY <1>2, <1>4
  <1>6. lane * n \in Nat
    BY <1>2
  <1> QED
    BY <1>2, <1>3, <1>5, <1>6

LEMMA ArenaIsCells ==
    ASSUME GeometryOK, NEW i \in 0..(g.total - 1)
    PROVE  \E lane \in LaneIds, position \in 0..(g.lane_len - 1) : i = lane * g.lane_len + position
  <1>1. PICK l, n, s \in Nat :
              /\ l = g.lanes /\ n = g.lane_len /\ s = g.segment_len
              /\ l >= 1 /\ s >= 2 /\ n = 4 * s /\ g.total = l * n /\ g.total \in Nat
    BY Shape
  <1>2. i \in Nat /\ i < l * n /\ n # 0
    BY <1>1
  <1>3. PICK q \in Nat, r \in Nat : i = n * q + r /\ r < n
    <2>1. i \div n \in Nat /\ i % n \in Nat /\ i = n * (i \div n) + (i % n) /\ i % n < n
      BY <1>2, Division
    <2> QED
      BY <2>1
  <1>4. q < l
    <2> SUFFICES ASSUME l <= q PROVE FALSE
      OBVIOUS
    <2>1. l * n <= q * n
      OBVIOUS
    <2> QED
      BY <1>2, <1>3, <2>1
  <1>5. q \in LaneIds /\ r \in 0..(g.lane_len - 1) /\ i = q * g.lane_len + r
    BY <1>1, <1>3, <1>4 DEF LaneIds
  <1> QED
    BY <1>5

-----------------------------------------------------------------------------
(* Where a fill reads.                                                      *)

LEMMA SegmentStart ==
    ASSUME GeometryOK, slice \in 0..(SLICES - 1), pass \in Nat
    PROVE  \E n, s, at \in Nat :
              /\ n = g.lane_len /\ s = g.segment_len /\ at = seg_start
              /\ s >= 2 /\ n = 4 * s /\ at + s <= n
              /\ at = slice * s
              /\ slice = 0 <=> at = 0
              /\ slice = 3 <=> at + s = n
              /\ slice # 0 => at >= s
              /\ First \in Nat /\ First <= s /\ (First # 0 <=> pass = 0 /\ slice = 0)
              /\ (pass = 0 /\ slice = 0) => First = 2
  <1>1. PICK l, n, s \in Nat :
              /\ l = g.lanes /\ n = g.lane_len /\ s = g.segment_len
              /\ l >= 1 /\ s >= 2 /\ n = 4 * s /\ g.total = l * n /\ g.total \in Nat
    BY Shape
  <1>2. slice \in {0, 1, 2, 3}
    BY DEF SLICES
  <1>3. seg_start = slice * s /\ slice * s \in Nat
    BY <1>1, <1>2 DEF seg_start
  <1>4. PICK at \in Nat : at = slice * s
    BY <1>3
  <1>5. /\ at + s <= n
        /\ slice = 0 <=> at = 0
        /\ slice = 3 <=> at + s = n
        /\ slice # 0 => at >= s
    BY <1>1, <1>2, <1>4
  <1>6. First \in Nat /\ First <= s /\ (First # 0 <=> pass = 0 /\ slice = 0)
        /\ ((pass = 0 /\ slice = 0) => First = 2)
    BY <1>1 DEF First
  <1> QED
    BY <1>1, <1>3, <1>4, <1>5, <1>6

\* A place that is not being written while lane fills its index-th block.
Behind(lane, index, l, p) ==
    \/ p < seg_start
    \/ l = lane /\ p < seg_start + index
    \/ pass > 0 /\ p >= seg_start + g.segment_len

LEMMA PreviousBehind ==
    ASSUME GeometryOK, slice \in 0..(SLICES - 1), pass \in Nat, NEW lane,
           NEW index \in Nat, First <= index, index < g.segment_len
    PROVE  /\ previous(seg_start + index) \in 0..(g.lane_len - 1)
           /\ Behind(lane, index, lane, previous(seg_start + index))
  <1>1. PICK n, s, at \in Nat :
              /\ n = g.lane_len /\ s = g.segment_len /\ at = seg_start
              /\ s >= 2 /\ n = 4 * s /\ at + s <= n
              /\ at = slice * s
              /\ slice = 0 <=> at = 0
              /\ slice = 3 <=> at + s = n
              /\ slice # 0 => at >= s
              /\ First \in Nat /\ First <= s /\ (First # 0 <=> pass = 0 /\ slice = 0)
              /\ (pass = 0 /\ slice = 0) => First = 2
    BY SegmentStart
  <1>a. s >= 2 /\ n = 4 * s /\ at + s <= n /\ index < s
    BY <1>1
  <1>2. CASE at + index = 0
    <2>1. pass > 0
      BY <1>1, <1>2
    <2>2. previous(at + index) = n - 1
      BY <1>1, <1>2 DEF previous
    <2>3. n - 1 \in 0..(n - 1) /\ n - 1 >= at + s
      BY <1>a, <1>2
    <2> QED
      BY <1>1, <2>1, <2>2, <2>3 DEF Behind
  <1>3. CASE at + index # 0
    <2>1. previous(at + index) = at + index - 1
      BY <1>1, <1>3 DEF previous
    <2>2. at + index - 1 \in 0..(n - 1) /\ at + index - 1 < at + index
      BY <1>a, <1>3
    <2> QED
      BY <1>1, <2>1, <2>2 DEF Behind
  <1> QED
    BY <1>1, <1>2, <1>3

LEMMA ReferenceBehind ==
    ASSUME GeometryOK, slice \in 0..(SLICES - 1), pass \in Nat, NEW lane \in LaneIds,
           NEW index \in Nat, First <= index, index < g.segment_len,
           NEW x \in Words, NEW j2 \in SecondWords
    PROVE  \E l \in LaneIds, p \in 0..(g.lane_len - 1) :
              /\ reference_index(x, j2, lane, index) = [lane |-> l, position |-> p]
              /\ Behind(lane, index, l, p)
              /\ ~(l = lane /\ p = seg_start + index)
  <1>1. PICK n, s, at \in Nat :
              /\ n = g.lane_len /\ s = g.segment_len /\ at = seg_start
              /\ s >= 2 /\ n = 4 * s /\ at + s <= n
              /\ at = slice * s
              /\ slice = 0 <=> at = 0
              /\ slice = 3 <=> at + s = n
              /\ slice # 0 => at >= s
              /\ First \in Nat /\ First <= s /\ (First # 0 <=> pass = 0 /\ slice = 0)
              /\ (pass = 0 /\ slice = 0) => First = 2
    BY SegmentStart
  <1>a. s >= 2 /\ n = 4 * s /\ at + s <= n /\ index < s
    BY <1>1
  <1>2. PICK l : l = IF pass = 0 /\ slice = 0 THEN lane ELSE j2 % g.lanes
    OBVIOUS
  <1>3. l \in LaneIds /\ (pass = 0 /\ slice = 0 => l = lane)
    <2>1. g.lanes \in Nat /\ g.lanes # 0 /\ j2 \in Nat
      BY Shape DEF SecondWords
    <2>2. j2 % g.lanes \in 0..(g.lanes - 1)
      BY <2>1, Division
    <2> QED
      BY <1>2, <2>2 DEF LaneIds
  <1>4. PICK area : area = reference_area(lane, l, index)
    OBVIOUS
  <1>5. /\ area \in Nat /\ area > 0
        /\ pass = 0 /\ l = lane => area = at + index - 1
        /\ pass = 0 /\ l # lane => area <= at
        /\ pass # 0 /\ l = lane => area = n - s + index - 1
        /\ pass # 0 /\ l # lane => area <= n - s
    <2>1. CASE pass = 0 /\ slice = 0
      <3>1. area = index - 1
        BY <1>4, <2>1 DEF reference_area
      <3> QED
        BY <1>1, <1>3, <2>1, <3>1
    <2>2. CASE pass = 0 /\ slice # 0
      <3>1. area = IF l = lane THEN at + index - 1 ELSE at - (IF index = 0 THEN 1 ELSE 0)
        BY <1>1, <1>4, <2>2 DEF reference_area
      <3> QED
        BY <1>1, <2>2, <3>1
    <2>3. CASE pass # 0
      <3>1. area = IF l = lane THEN n - s + index - 1 ELSE n - s - (IF index = 0 THEN 1 ELSE 0)
        BY <1>1, <1>4, <2>3 DEF reference_area
      <3>2. CASE l = lane
        <4>1. area = n - s + index - 1 /\ n - s + index - 1 >= 5
          BY <1>1, <3>1, <3>2
        <4> QED
          BY <2>3, <3>2, <4>1
      <3>3. CASE l # lane
        <4>1. area \in Nat /\ area > 0 /\ area <= n - s
          BY <1>a, <3>1, <3>3
        <4> QED
          BY <2>3, <3>3, <4>1
      <3> QED
        BY <3>2, <3>3
    <2> QED
      BY <2>1, <2>2, <2>3
  <1>6. PICK z \in 0..(area - 1) : z = area - 1 - ((area * x) \div WordValues)
    BY <1>5, Picked
  <1>7. PICK from \in Nat :
              /\ from = IF pass = 0 \/ slice = SLICES - 1 THEN 0 ELSE (slice + 1) * g.segment_len
              /\ pass = 0 => from = 0
              /\ pass # 0 => from = IF at + s = n THEN 0 ELSE at + s
    <2>1. (slice + 1) * s = at + s
      BY <1>1 DEF SLICES
    <2> QED
      BY <1>1, <2>1 DEF SLICES
  <1>8. PICK p : p = (from + z) % n
    OBVIOUS
  <1>9. reference_index(x, j2, lane, index) = [lane |-> l, position |-> p]
    BY <1>1, <1>2, <1>4, <1>6, <1>7, <1>8 DEF reference_index
  <1>10. p = IF from + z < n THEN from + z ELSE from + z - n
    <2>1. from + z \in Nat /\ n > 0
      BY <1>1, <1>5, <1>6
    <2>2. from + z < 2 * n
      BY <1>1, <1>5, <1>6, <1>7
    <2> QED
      BY <1>8, <2>1, <2>2, Around1
  <1>11. /\ p \in 0..(n - 1)
         /\ \/ p < at
            \/ l = lane /\ p < at + index
            \/ pass > 0 /\ p >= at + s
         /\ ~(l = lane /\ p = at + index)
    <2>1. CASE pass = 0
      BY <1>1, <1>5, <1>6, <1>7, <1>10, <2>1
    <2>2. CASE pass # 0 /\ at + s = n
      BY <1>1, <1>5, <1>6, <1>7, <1>10, <2>2
    <2>3. CASE pass # 0 /\ at + s # n
      BY <1>1, <1>5, <1>6, <1>7, <1>10, <2>3
    <2> QED
      BY <2>1, <2>2, <2>3
  <1> QED
    BY <1>1, <1>3, <1>9, <1>11 DEF Behind

\* Through either view a block outside every segment is found where it is.
LEMMA ReadFinds ==
    ASSUME GeometryOK, slice \in 0..(SLICES - 1), pass \in Nat, threaded \in BOOLEAN,
           NEW lane \in LaneIds, NEW index \in Nat, index < g.segment_len,
           NEW l \in LaneIds, NEW p \in 0..(g.lane_len - 1), Behind(lane, index, l, p)
    PROVE  /\ read(lane, l, p) = l * g.lane_len + p
           /\ l # lane => p \notin seg_start..(seg_start + g.segment_len - 1)
  <1>1. PICK n, s, at \in Nat :
              /\ n = g.lane_len /\ s = g.segment_len /\ at = seg_start
              /\ s >= 2 /\ n = 4 * s /\ at + s <= n
              /\ at = slice * s
    BY SegmentStart
  <1>2. PICK c \in Nat : c = g.lanes /\ g.total = c * n /\ c >= 1
    BY <1>1, Shape
  <1>3. lane \in Nat /\ l \in Nat /\ p \in Nat /\ p < n /\ lane < c /\ l < c
    BY <1>1, <1>2 DEF LaneIds
  <1>4. PICK a \in Nat, b \in Nat : a = lane * n /\ b = l * n
    BY <1>3
  <1>5. b + n <= c * n /\ c * n \in Nat
    BY <1>3, <1>4, RowsApart
  <1>6. p < at \/ (l = lane /\ p < at + index) \/ p >= at + s
    BY <1>1 DEF Behind
  <1>7. l # lane => p \notin at..(at + s - 1)
    BY <1>1, <1>6
  <1>8. CASE l = lane /\ p \in at..(at + s - 1)
    BY <1>1, <1>7, <1>8 DEF read
  <1>9. CASE p \notin at..(at + s - 1)
    <2>1. p < at \/ p >= at + s
      BY <1>1, <1>3, <1>9
    <2>2. CASE threaded
      <3>1. read(lane, l, p) = Gaps(l, p)
        BY <1>1, <1>9, <2>2 DEF read
      <3>2. CASE p < at
        <4>1. GapEnd(l) = b + at
          BY <1>1, <1>2, <1>3, <1>4 DEF GapEnd
        <4>2. GapStart(l) \in Int /\ GapStart(l) + at - p <= b + at
          <5>1. CASE l = 0
            BY <1>3, <1>4, <3>2, <5>1 DEF GapStart
          <5>2. CASE l # 0
            <6>1. (l - 1) * n = b - n
              BY <1>3, <1>4
            <6>2. GapStart(l) = b - n + at + s
              BY <1>1, <5>2, <6>1 DEF GapStart
            <6> QED
              BY <1>1, <1>3, <6>2
          <5> QED
            BY <5>1, <5>2
        <4>3. PICK f \in Int : f = GapStart(l)
          BY <4>2
        <4>4. (b + at - f) - (at - p) >= 0 /\ f + ((b + at - f) - (at - p)) = b + p /\ b + p < b + at
          BY <1>3, <3>2, <4>2, <4>3
        <4>5. Gaps(l, p) = b + p
          BY <1>1, <3>2, <4>1, <4>3, <4>4 DEF Gaps
        <4> QED
          BY <1>1, <1>4, <1>7, <3>1, <4>5
      <3>3. CASE p >= at + s
        <4>1. GapStart(l + 1) = b + at + s
          <5>1. l + 1 # 0 /\ (l + 1) - 1 = l
            BY <1>3
          <5> QED
            BY <1>1, <1>4, <5>1 DEF GapStart
        <4>2. GapEnd(l + 1) \in Int /\ b + n <= GapEnd(l + 1)
          <5>1. CASE l + 1 = c
            BY <1>2, <1>5, <5>1 DEF GapEnd
          <5>2. CASE l + 1 # c
            <6>1. (l + 1) * n = b + n
              BY <1>3, <1>4
            <6> QED
              BY <1>1, <1>2, <5>2, <6>1 DEF GapEnd
          <5> QED
            BY <5>1, <5>2
        <4>3. PICK f \in Int : f = GapEnd(l + 1)
          BY <4>2
        <4>4. ~(p < at) /\ p - (at + s) >= 0 /\ b + at + s + (p - (at + s)) = b + p /\ b + p < f
          BY <1>3, <3>3, <4>2, <4>3
        <4>5. Gaps(l, p) = b + p
          BY <1>1, <3>3, <4>1, <4>3, <4>4 DEF Gaps
        <4> QED
          BY <1>1, <1>4, <1>7, <3>1, <4>5
      <3> QED
        BY <2>1, <3>2, <3>3
    <2>3. CASE ~threaded
      <3>1. read(lane, l, p) = Around(lane, l, p)
        BY <1>1, <1>9, <2>3 DEF read
      <3>2. b + p < a + at \/ b + p >= a + at + s
        <4>1. CASE l = lane
          BY <1>4, <2>1, <4>1
        <4>2. CASE l < lane
          <5>1. b + n <= a
            BY <1>3, <1>4, <4>2, RowsApart
          <5> QED
            BY <1>3, <5>1
        <4>3. CASE lane < l
          <5>1. a + n <= b
            BY <1>3, <1>4, <4>3, RowsApart
          <5> QED
            BY <1>1, <1>3, <5>1
        <4> QED
          BY <1>3, <4>1, <4>2, <4>3
      <3>3. b + p < c * n
        BY <1>3, <1>5
      <3>4. Around(lane, l, p) = b + p
        BY <1>1, <1>2, <1>4, <3>2, <3>3 DEF Around
      <3> QED
        BY <1>1, <1>4, <1>7, <3>1, <3>4
    <2> QED
      BY <2>2, <2>3
  <1> QED
    BY <1>1, <1>7, <1>8, <1>9

-----------------------------------------------------------------------------
(* The threads of a slice and how far they are.                             *)

LEMMA ThreadFound ==
    ASSUME NEW ws, DOMAIN ws \subseteq Nat, NEW w \in DOMAIN ws, NEW lane, lane <= ws[w].last,
           \A v \in DOMAIN ws : lane <= ws[v].last => w <= v
    PROVE  ThreadOf(ws, lane) = w
  <1>1. ThreadOf(ws, lane) \in DOMAIN ws
        /\ lane <= ws[ThreadOf(ws, lane)].last
        /\ \A v \in DOMAIN ws : lane <= ws[v].last => ThreadOf(ws, lane) <= v
    BY DEF ThreadOf
  <1>2. ThreadOf(ws, lane) <= w /\ w <= ThreadOf(ws, lane)
    BY <1>1
  <1> QED
    BY <1>1, <1>2

LEMMA WorkerTypes ==
    ASSUME BatchesOK, phase = "fill", GeometryOK
    PROVE  /\ DOMAIN workers \subseteq Nat
           /\ \A w \in DOMAIN workers :
                 /\ workers[w].lane \in Nat /\ workers[w].last \in Nat
                 /\ workers[w].index \in Nat /\ workers[w].address_counter \in Nat
                 /\ workers[w].lane <= workers[w].last + 1 /\ workers[w].last < g.lanes
                 /\ First <= workers[w].index /\ workers[w].index <= g.segment_len
                 /\ \A v \in DOMAIN workers : v < w =>
                       workers[v].last < workers[w].lane /\ workers[v].last < workers[w].last
  <1>0. g.lanes \in Nat
    BY Shape
  <1>1. DOMAIN workers \subseteq Nat
    BY <1>0, SMTT(30) DEF BatchesOK
  <1> QED
    BY <1>1 DEF BatchesOK

LEMMA LaneHasThread ==
    ASSUME BatchesOK, phase = "fill", GeometryOK, NEW lane \in LaneIds
    PROVE  \E w \in DOMAIN workers :
              /\ lane <= workers[w].last
              /\ \A v \in DOMAIN workers : lane <= workers[v].last => w <= v
              /\ ThreadOf(workers, lane) = w
  <1>1. PICK count \in 1..g.lanes : DOMAIN workers = 1..count /\ workers[count].last = g.lanes - 1
    BY DEF BatchesOK
  <1>2. g.lanes \in Nat /\ lane \in Nat /\ lane <= g.lanes - 1
    BY Shape DEF LaneIds
  <1> DEFINE T == {w \in DOMAIN workers : lane <= workers[w].last}
  <1>3. T \subseteq Nat /\ T # {}
    <2>1. count \in DOMAIN workers
      BY <1>1, <1>2
    <2>2. count \in T
      BY <1>1, <1>2, <2>1
    <2> QED
      BY <2>2, WorkerTypes
  <1>4. PICK w \in T : \A v \in T : w <= v
    BY <1>3, Least
  <1>5. w \in DOMAIN workers /\ lane <= workers[w].last
        /\ \A v \in DOMAIN workers : lane <= workers[v].last => w <= v
    BY <1>4
  <1>6. ThreadOf(workers, lane) = w
    BY <1>5, WorkerTypes, ThreadFound
  <1> QED
    BY <1>5, <1>6

\* A thread at work is the thread of the lane it is at.
LEMMA OwnThread ==
    ASSUME BatchesOK, phase = "fill", GeometryOK, NEW w \in DOMAIN workers, ~Finished(w)
    PROVE  /\ workers[w].lane \in LaneIds
           /\ ThreadOf(workers, workers[w].lane) = w
           /\ Progress(workers[w].lane) = workers[w].index
  <1>1. /\ DOMAIN workers \subseteq Nat
        /\ \A v \in DOMAIN workers :
              /\ workers[v].lane \in Nat /\ workers[v].last \in Nat /\ workers[v].last < g.lanes
              /\ \A u \in DOMAIN workers : u < v => workers[u].last < workers[v].lane
    BY WorkerTypes
  <1>2. workers[w].lane <= workers[w].last
    BY <1>1 DEF Finished
  <1>3. ASSUME NEW v \in DOMAIN workers, workers[w].lane <= workers[v].last
        PROVE  w <= v
    <2>1. v \in Nat /\ w \in Nat /\ workers[v].last \in Nat /\ workers[w].lane \in Nat
      BY <1>1
    <2>2. ~(v < w)
      BY <1>1, <1>3, <2>1
    <2> QED
      BY <2>1, <2>2
  <1>4. ThreadOf(workers, workers[w].lane) = w
    BY <1>1, <1>2, <1>3, ThreadFound
  <1>5. workers[w].lane \in LaneIds
    <2>1. g.lanes \in Nat
      BY Shape
    <2> QED
      BY <1>1, <1>2, <2>1 DEF LaneIds
  <1>6. Progress(workers[w].lane) = workers[w].index
    <2>1. ~(workers[w].lane < workers[w].lane)
      BY <1>1
    <2> QED
      BY <1>4, <2>1 DEF Progress
  <1> QED
    BY <1>4, <1>5, <1>6

LEMMA ProgressRange ==
    ASSUME BatchesOK, phase = "fill", GeometryOK, slice \in 0..(SLICES - 1), pass \in Nat,
           NEW lane \in LaneIds
    PROVE  Progress(lane) \in Nat /\ First <= Progress(lane) /\ Progress(lane) <= g.segment_len
  <1>1. PICK w \in DOMAIN workers : ThreadOf(workers, lane) = w
    BY LaneHasThread
  <1>2. /\ workers[w].index \in Nat
        /\ First <= workers[w].index /\ workers[w].index <= g.segment_len
    BY WorkerTypes
  <1>3. First \in Nat /\ First <= g.segment_len /\ g.segment_len \in Nat
    BY SegmentStart
  <1>4. Progress(lane) \in {g.segment_len, workers[w].index, First}
    BY <1>1 DEF Progress
  <1> QED
    BY <1>2, <1>3, <1>4

\* What is behind the thread holds what the sequential algorithm reads there.
LEMMA BehindIsDue ==
    ASSUME BatchesOK, SlicesInStep, phase = "fill", GeometryOK, slice \in 0..(SLICES - 1), pass \in Nat,
           NEW w \in DOMAIN workers, ~Finished(w), workers[w].index < g.segment_len,
           NEW l \in LaneIds, NEW p \in 0..(g.lane_len - 1),
           Behind(workers[w].lane, workers[w].index, l, p)
    PROVE  /\ memory[l * g.lane_len + p] = Due(workers[w].lane, seg_start + workers[w].index, l, p)
           /\ memory[l * g.lane_len + p] > 0
  <1>1. PICK n, s, at \in Nat :
              /\ n = g.lane_len /\ s = g.segment_len /\ at = seg_start /\ First \in Nat
    BY SegmentStart
  <1>2. PICK me : me = workers[w]
    OBVIOUS
  <1>3. me.lane \in Nat /\ me.index \in Nat /\ me.index < s
    BY <1>1, <1>2, WorkerTypes
  <1>4. PICK done \in Nat : done = Progress(l) /\ done <= s
    BY <1>1, ProgressRange
  <1>5. l = me.lane => done = me.index
    BY <1>2, <1>4, OwnThread
  <1>6. PICK held : held = memory[l * g.lane_len + p]
    OBVIOUS
  <1>7. IF p < at + done THEN held = pass + 1
        ELSE IF pass > 0 THEN held = pass ELSE held \in {ZERO, Stale}
    BY <1>1, <1>4, <1>6 DEF SlicesInStep
  <1>8. p \in Nat
    BY <1>1
  <1>9. p < at \/ (l = me.lane /\ p < at + me.index) \/ (pass > 0 /\ p >= at + s)
    BY <1>1, <1>2 DEF Behind
  <1>10. Due(me.lane, at + me.index, l, p) =
            IF p < at \/ (l = me.lane /\ p < at + me.index) THEN pass + 1 ELSE pass
    BY <1>1 DEF Due
  <1>11. CASE p < at \/ (l = me.lane /\ p < at + me.index)
    <2>1. p < at + done
      BY <1>3, <1>4, <1>5, <1>8, <1>11
    <2>2. held = pass + 1
      BY <1>7, <2>1
    <2> QED
      BY <1>1, <1>2, <1>6, <1>10, <1>11, <2>2
  <1>12. CASE ~(p < at \/ (l = me.lane /\ p < at + me.index))
    <2>1. pass > 0 /\ ~(p < at + done)
      BY <1>3, <1>4, <1>8, <1>9, <1>12
    <2>2. held = pass
      BY <1>7, <2>1
    <2> QED
      BY <1>1, <1>2, <1>6, <1>10, <1>12, <2>1, <2>2
  <1> QED
    BY <1>11, <1>12

\* The invariant is enough for every read.
LEMMA InvSettles ==
    ASSUME LaneInv
    PROVE  ReadsSettled
  <1> SUFFICES ASSUME phase = "fill", NEW w \in DOMAIN workers, ~Finished(w),
                      workers[w].index < g.segment_len
               PROVE  LET lane == workers[w].lane
                          now == seg_start + workers[w].index
                          Settled(l, position) ==
                              LET at == read(lane, l, position) IN
                              /\ at = l * g.lane_len + position
                              /\ l # lane => position \notin seg_start..(seg_start + g.segment_len - 1)
                              /\ memory[at] = Due(lane, now, l, position)
                              /\ memory[at] > 0
                      IN  /\ Settled(lane, previous(now))
                          /\ \A x \in Words, j2 \in SecondWords :
                                LET ref == reference_index(x, j2, lane, workers[w].index)
                                IN  Settled(ref.lane, ref.position)
                                    /\ ref # [lane |-> lane, position |-> now]
    BY DEF ReadsSettled
  <1> DEFINE lane == workers[w].lane
             now == seg_start + workers[w].index
             Settled(l, position) ==
                 LET at == read(lane, l, position) IN
                 /\ at = l * g.lane_len + position
                 /\ l # lane => position \notin seg_start..(seg_start + g.segment_len - 1)
                 /\ memory[at] = Due(lane, now, l, position)
                 /\ memory[at] > 0
  <1>1. /\ GeometryOK /\ slice \in 0..(SLICES - 1) /\ pass \in Nat /\ threaded \in BOOLEAN
        /\ BatchesOK /\ SlicesInStep
    BY DEF LaneInv, LaneTypeOK
  <1>2. /\ lane \in LaneIds /\ workers[w].index \in Nat /\ First <= workers[w].index
    BY <1>1, OwnThread, WorkerTypes
  <1>3. ASSUME NEW l \in LaneIds, NEW p \in 0..(g.lane_len - 1), Behind(lane, workers[w].index, l, p)
        PROVE  Settled(l, p)
    <2>1. /\ read(lane, l, p) = l * g.lane_len + p
          /\ l # lane => p \notin seg_start..(seg_start + g.segment_len - 1)
      BY <1>1, <1>2, <1>3, ReadFinds
    <2>2. /\ memory[l * g.lane_len + p] = Due(lane, now, l, p)
          /\ memory[l * g.lane_len + p] > 0
      BY <1>1, <1>3, BehindIsDue
    <2> QED
      BY <2>1, <2>2
  <1> HIDE DEF Settled
  <1>4. Settled(lane, previous(now))
    BY <1>1, <1>2, <1>3, PreviousBehind
  <1>5. ASSUME NEW x \in Words, NEW j2 \in SecondWords
        PROVE  LET ref == reference_index(x, j2, lane, workers[w].index)
               IN  Settled(ref.lane, ref.position) /\ ref # [lane |-> lane, position |-> now]
    <2>1. PICK l \in LaneIds, p \in 0..(g.lane_len - 1) :
              /\ reference_index(x, j2, lane, workers[w].index) = [lane |-> l, position |-> p]
              /\ Behind(lane, workers[w].index, l, p)
              /\ ~(l = lane /\ p = now)
      BY <1>1, <1>2, ReferenceBehind
    <2>2. Settled(l, p)
      BY <1>3, <2>1
    <2>3. [lane |-> l, position |-> p] # [lane |-> lane, position |-> now]
      BY <2>1
    <2> QED
      BY <2>1, <2>2, <2>3
  <1> QED
    BY <1>4, <1>5 DEF Settled

-----------------------------------------------------------------------------
(* The steps.                                                               *)

LEMMA Cell ==
    ASSUME NEW l \in Nat, NEW n \in Nat, NEW lane \in 0..(l - 1), NEW position \in 0..(n - 1)
    PROVE  lane * n + position \in 0..(l * n - 1)
  <1>1. lane \in Nat /\ lane < l /\ position \in Nat /\ position < n
    OBVIOUS
  <1>2. lane * n + n <= l * n /\ lane * n \in Nat
    BY <1>1, RowsApart
  <1> QED
    BY <1>1, <1>2

LEMMA LaneInitInv == LaneInit => LaneInv
  <1> SUFFICES ASSUME LaneInit PROVE LaneInv
    OBVIOUS
  <1>1. /\ entry = "none" /\ g = NoGeometry /\ phase = "idle" /\ pass = 0 /\ slice = 0
        /\ threaded = FALSE /\ workers = <<>> /\ seeded = 0 /\ failed = FALSE /\ result = "none"
    BY DEF LaneInit
  <1>2. LaneTypeOK
    <2>1. threaded \in BOOLEAN /\ failed \in BOOLEAN
      BY <1>1
    <2>2. pass \in Nat /\ slice \in 0..(SLICES - 1) /\ seeded \in Nat
      BY <1>1 DEF SLICES
    <2>3. phase \in LanePhases /\ entry \in Entries \cup {"none"}
      BY <1>1 DEF LanePhases
    <2> QED
      BY <1>1, <2>1, <2>2, <2>3 DEF LaneTypeOK
  <1>3. ArenaOK /\ SeedingOK /\ BatchesOK /\ PassOK /\ SlicesInStep /\ ArenaWiped
    BY <1>1 DEF ArenaOK, SeedingOK, BatchesOK, PassOK, SlicesInStep, ArenaWiped
  <1> QED
    BY <1>2, <1>3 DEF LaneInv

LEMMA CallKeeps ==
    ASSUME LaneInv,
           NEW e \in Entries, NEW variant \in Variants, NEW version \in Versions, NEW p \in Params,
           NEW provided \in Provided, NEW tag_ok \in BOOLEAN, NEW salt_ok \in BOOLEAN,
           NEW alloc_ok \in BOOLEAN,
           Call(e, variant, version, p, provided, tag_ok, salt_ok, alloc_ok)
    PROVE  LaneInv'
  <1>a. /\ LaneTypeOK /\ phase = "idle" /\ g = NoGeometry /\ pass = 0 /\ slice = 0 /\ seeded = 0
        /\ workers = <<>>
    BY DEF LaneInv, LaneTypeOK, Call
  <1>b. UNCHANGED <<pass, slice, threaded, workers, seeded, failed>> /\ entry' = e
    BY DEF Call
  <1>c. PICK blocks : blocks = IF e = "argon2_versioned" THEN block_count(p) ELSE provided
    OBVIOUS
  <1>d. memory' = [i \in 0..(blocks - 1) |-> IF e = "argon2_versioned" THEN ZERO ELSE Stale]
    BY <1>c DEF Call
  <1>1. CASE phase' = "done" /\ result' \in Errors /\ g' = g
    <2>1. LaneTypeOK'
      BY <1>a, <1>b, <1>1 DEF LaneTypeOK, LanePhases
    <2>2. ArenaOK' /\ SeedingOK' /\ BatchesOK' /\ PassOK' /\ SlicesInStep'
      BY <1>1 DEF ArenaOK, SeedingOK, BatchesOK, PassOK, SlicesInStep
    <2>3. ArenaWiped'
      BY <1>a, <1>b, <1>d, <1>1 DEF ArenaWiped, Errors, Entries
    <2> QED
      BY <2>1, <2>2, <2>3 DEF LaneInv
  <1>2. CASE /\ validate(p) /\ ~(blocks < block_count(p))
             /\ g' = Geometry(variant, version, p)
             /\ result' \in {"none", "InvalidParameter"}
             /\ \/ phase' = "seed"
                \/ phase' = "done" /\ e = "fill_memory" /\ result' = "InvalidParameter"
                \/ phase' = "wipe" /\ e # "fill_memory"
    <2>1. GeometryOK' /\ g'.total = block_count(p) /\ g'.total \in Nat
          /\ g'.lanes \in Nat /\ g'.lane_len \in Nat /\ g'.total = g'.lanes * g'.lane_len
          /\ g'.lanes >= 1
      <3>1. LET made == Geometry(variant, version, p) IN
           /\ made \in Geometries
           /\ made.lanes >= 1 /\ made.passes >= 1 /\ made.segment_len >= 2
           /\ made.lane_len = SLICES * made.segment_len
           /\ made.total = made.lanes * made.lane_len
           /\ made.total = block_count(p)
        BY <1>2, GeometryMade
      <3>2. /\ g' \in Geometries
            /\ g'.lanes >= 1 /\ g'.passes >= 1 /\ g'.segment_len >= 2
            /\ g'.lane_len = SLICES * g'.segment_len
            /\ g'.total = g'.lanes * g'.lane_len
            /\ g'.total = block_count(p)
        BY <1>2, <3>1
      <3> QED
        BY <3>2 DEF GeometryOK, Geometries
    <2>2. LaneTypeOK'
      BY <1>a, <1>b, <1>2, <2>1 DEF LaneTypeOK, LanePhases
    <2>3. blocks \in Nat /\ g'.total <= blocks /\ blocks \in Provided \cup {g'.total}
          /\ (e = "argon2_versioned" => blocks = g'.total)
      BY <1>c, <1>2, <2>1, Argon2Assumption
    <2>4. ArenaOK'
      <3>1. memory' \in [0..(blocks - 1) -> Int]
        BY <1>d DEF ZERO, Stale
      <3>2. \A i \in DOMAIN memory' : i >= g'.total => memory'[i] = Stale
        BY <1>d, <2>3
      <3> QED
        BY <1>b, <2>3, <3>1, <3>2 DEF ArenaOK
    <2>5. SeedingOK'
      <3>1. ASSUME NEW lane \in 0..(g'.lanes - 1), NEW position \in 0..(g'.lane_len - 1)
            PROVE  memory'[lane * g'.lane_len + position] \in {ZERO, Stale}
        <4>1. lane * g'.lane_len + position \in 0..(g'.total - 1)
          BY <2>1, Cell
        <4>2. lane * g'.lane_len + position \in 0..(blocks - 1)
          BY <2>1, <2>3, <4>1
        <4> QED
          BY <1>d, <4>2
      <3>2. seeded' < 2 * g'.lanes /\ ~(\E lane \in 0..(g'.lanes - 1), position \in 0..(g'.lane_len - 1) :
                                           2 * lane + position < seeded')
        BY <1>a, <1>b, <2>1
      <3> QED
        BY <1>a, <1>b, <3>1, <3>2 DEF SeedingOK, LaneIds
    <2>6. BatchesOK' /\ PassOK' /\ SlicesInStep'
      BY <1>2 DEF BatchesOK, PassOK, SlicesInStep
    <2>7. ArenaWiped'
      BY <1>b, <1>2 DEF ArenaWiped
    <2> QED
      BY <2>2, <2>4, <2>5, <2>6, <2>7 DEF LaneInv
  <1>3. \/ phase' = "done" /\ result' \in Errors /\ g' = g
        \/ /\ validate(p) /\ ~(blocks < block_count(p))
           /\ g' = Geometry(variant, version, p)
           /\ result' \in {"none", "InvalidParameter"}
           /\ \/ phase' = "seed"
              \/ phase' = "done" /\ e = "fill_memory" /\ result' = "InvalidParameter"
              \/ phase' = "wipe" /\ e # "fill_memory"
    BY <1>c DEF Call, Errors
  <1> QED
    BY <1>1, <1>2, <1>3

LEMMA FirstBlockKeeps ==
    ASSUME LaneInv, FirstBlock
    PROVE  LaneInv'
  <1>a. /\ LaneTypeOK /\ ArenaOK /\ SeedingOK /\ phase = "seed" /\ GeometryOK /\ pass = 0 /\ slice = 0
        /\ seeded \in Nat /\ seeded < 2 * g.lanes /\ ArenaWiped /\ entry \in Entries /\ workers = <<>>
    BY DEF LaneInv, LaneTypeOK, SeedingOK, FirstBlock
  <1>b. UNCHANGED <<entry, g, pass, slice, threaded, workers, failed>>
    BY DEF FirstBlock
  <1>c. GeometryOK'
    BY <1>a, <1>b DEF GeometryOK
  <1>1. CASE failed
    <2>1. /\ result' = "ModuleErrorState" /\ UNCHANGED <<seeded, memory>>
          /\ \/ phase' = "done" /\ entry = "fill_memory"
             \/ phase' = "wipe" /\ entry # "fill_memory"
      BY <1>1 DEF FirstBlock
    <2>2. LaneTypeOK'
      BY <1>a, <1>b, <1>c, <2>1 DEF LaneTypeOK, LanePhases
    <2>3. ArenaOK'
      BY <1>a, <1>b, <2>1 DEF ArenaOK
    <2>4. SeedingOK' /\ BatchesOK' /\ PassOK' /\ SlicesInStep'
      BY <2>1 DEF SeedingOK, BatchesOK, PassOK, SlicesInStep
    <2>5. ArenaWiped'
      BY <1>b, <2>1 DEF ArenaWiped
    <2> QED
      BY <2>2, <2>3, <2>4, <2>5 DEF LaneInv
  <1>2. CASE ~failed
    <2>1. PICK l, n, s \in Nat :
              /\ l = g.lanes /\ n = g.lane_len /\ s = g.segment_len
              /\ l >= 1 /\ s >= 2 /\ n = 4 * s /\ g.total = l * n /\ g.total \in Nat
      BY <1>a, Shape
    <2>a. seeded < 2 * l /\ seeded \in Nat
      BY <1>a, <2>1
    <2>2. PICK q \in Nat, r \in 0..1 : q = seeded \div 2 /\ r = seeded % 2 /\ seeded = 2 * q + r
      BY <1>a
    <2>3. q \in LaneIds /\ r \in 0..(g.lane_len - 1)
      <3>1. q \in 0..(l - 1) /\ r \in 0..(n - 1)
        BY <2>1, <2>2, <2>a
      <3> QED
        BY <2>1, <3>1 DEF LaneIds
    <2>4. PICK cell : cell = q * n + r
      OBVIOUS
    <2>5. cell \in 0..(g.total - 1)
      BY <1>a, <2>1, <2>3, <2>4, CellInArena
    <2>6. /\ memory' = [memory EXCEPT ![cell] = 1] /\ seeded' = seeded + 1 /\ result' = result
          /\ phase' = IF seeded + 1 = 2 * l THEN "slice" ELSE "seed"
      BY <1>a, <1>2, <2>1, <2>2, <2>4 DEF FirstBlock
    <2>7. PICK blocks \in Provided \cup {g.total} :
              /\ memory \in [0..(blocks - 1) -> Int]
              /\ g.total <= blocks
              /\ entry = "argon2_versioned" => blocks = g.total
      BY <1>a DEF ArenaOK
    <2>8. blocks \in Nat
      BY <2>1, <2>7, Argon2Assumption
    <2>9. cell \in 0..(blocks - 1)
      BY <2>1, <2>5, <2>7, <2>8
    <2>10. /\ memory' \in [0..(blocks - 1) -> Int] /\ memory'[cell] = 1
           /\ \A i \in 0..(blocks - 1) : i # cell => memory'[i] = memory[i]
      BY <2>6, <2>7, <2>9
    <2>11. LaneTypeOK'
      BY <1>a, <1>b, <1>c, <2>6 DEF LaneTypeOK, LanePhases
    <2>12. ArenaOK'
      <3>1. \A i \in 0..(blocks - 1) : i >= g.total => memory[i] = Stale
        BY <1>a, <2>7 DEF ArenaOK
      <3>2. \A i \in 0..(blocks - 1) : i >= g.total => i # cell
        BY <2>1, <2>5
      <3>3. \A i \in DOMAIN memory' : i >= g.total => memory'[i] = Stale
        BY <2>10, <3>1, <3>2
      <3> QED
        BY <1>b, <2>7, <2>10, <3>3 DEF ArenaOK
    <2>13. ASSUME NEW lane \in LaneIds, NEW position \in 0..(n - 1)
           PROVE  IF position < 2 /\ 2 * lane + position < seeded + 1
                  THEN memory'[lane * n + position] = 1
                  ELSE memory'[lane * n + position] \in {ZERO, Stale}
      <3>1. PICK i : i = lane * n + position
        OBVIOUS
      <3>2. i \in 0..(blocks - 1)
        <4>1. i \in 0..(g.total - 1)
          BY <1>a, <2>1, <3>1, CellInArena
        <4> QED
          BY <2>1, <2>7, <2>8, <4>1
      <3>3. lane \in Nat /\ position \in Nat
        BY <2>1 DEF LaneIds
      <3>4. IF position < 2 /\ 2 * lane + position < seeded THEN memory[i] = 1
            ELSE memory[i] \in {ZERO, Stale}
        BY <1>a, <2>1, <3>1 DEF SeedingOK
      <3>5. CASE lane = q /\ position = r
        <4>1. i = cell /\ position < 2 /\ 2 * lane + position < seeded + 1
          BY <1>a, <2>2, <2>4, <3>1, <3>5
        <4> QED
          BY <2>10, <3>1, <4>1
      <3>6. CASE ~(lane = q /\ position = r)
        <4>1. i # cell
          BY <1>a, <2>1, <2>3, <2>4, <3>1, <3>6, CellsApart
        <4>2. position < 2 => (2 * lane + position < seeded + 1 <=> 2 * lane + position < seeded)
          BY <1>a, <2>2, <3>3, <3>6
        <4> QED
          BY <2>10, <3>1, <3>2, <3>4, <4>1, <4>2
      <3> QED
        BY <3>5, <3>6
    <2>14. SeedingOK'
      <3>1. phase' = "seed" => seeded + 1 < 2 * l
        BY <2>a, <2>6
      <3> QED
        BY <1>a, <1>b, <2>1, <2>6, <2>13, <3>1 DEF SeedingOK, LaneIds
    <2>15. BatchesOK' /\ PassOK'
      <3>1. pass < g.passes
        BY <1>a, Shape
      <3> QED
        BY <1>b, <2>6, <3>1 DEF BatchesOK, PassOK
    <2>16. SlicesInStep'
      <3> SUFFICES ASSUME phase' = "slice"
                   PROVE  SlicesInStep'
        BY <2>6 DEF SlicesInStep
      <3>1. First' = 2 /\ seg_start' = 0 /\ pass' = 0 /\ seeded + 1 = 2 * l
        BY <1>a, <1>b, <2>1, <2>6 DEF First, seg_start
      <3>2. \A lane : Progress(lane)' = 2
        BY <3>1 DEF Progress
      <3>3. ASSUME NEW lane \in LaneIds, NEW position \in 0..(n - 1)
            PROVE  IF position < 0 + 2 THEN memory'[lane * n + position] = 0 + 1
                   ELSE memory'[lane * n + position] \in {ZERO, Stale}
        <4>1. lane \in Nat /\ lane <= l - 1 /\ position \in Nat
          BY <2>1 DEF LaneIds
        <4>2. position < 2 => 2 * lane + position < seeded + 1
          BY <3>1, <4>1
        <4> QED
          BY <2>13, <4>2
      <3>4. DOMAIN workers' = {}
        BY <1>a, <1>b
      <3>5. \A lane \in LaneIds' : \A position \in 0..(g'.lane_len - 1) :
               IF position < seg_start' + Progress(lane)'
               THEN memory'[lane * g'.lane_len + position] = pass' + 1
               ELSE memory'[lane * g'.lane_len + position] \in {ZERO, Stale}
        <4>1. LaneIds' = LaneIds /\ g'.lane_len = n
          BY <1>b, <2>1 DEF LaneIds
        <4> QED
          BY <3>1, <3>2, <3>3, <4>1
      <3>6. ~(pass' > 0)
        BY <3>1
      <3> QED
        BY <3>4, <3>5, <3>6 DEF SlicesInStep
    <2>17. ArenaWiped'
      BY <1>a, <2>6 DEF ArenaWiped
    <2> QED
      BY <2>11, <2>12, <2>14, <2>15, <2>16, <2>17 DEF LaneInv
  <1> QED
    BY <1>1, <1>2

\* The lanes of batch w of so many per batch: from (w-1)*per to LaneMin(w*per, l)-1.
LEMMA BatchShape ==
    ASSUME NEW l \in Nat, NEW per \in Nat, l > 0, per > 0,
           NEW k \in Nat, k = DivCeil(l, per), NEW w \in 1..k
    PROVE  /\ (w - 1) * per \in Nat /\ LaneMin(w * per, l) - 1 \in Nat
           /\ (w - 1) * per <= LaneMin(w * per, l) - 1 /\ LaneMin(w * per, l) - 1 < l
           /\ w = k => LaneMin(w * per, l) = l
           /\ \A v \in 1..k : v < w =>
                 /\ LaneMin(v * per, l) - 1 < (w - 1) * per
                 /\ LaneMin(v * per, l) - 1 < LaneMin(w * per, l) - 1
  <1>1. (k - 1) * per < l /\ l <= k * per /\ k >= 1
    BY Batches
  <1>2. PICK a \in Nat : a = (w - 1) * per
    BY <1>1
  <1>3. w * per = a + per
    BY <1>2
  <1>4. a <= (k - 1) * per
    <2>1. w - 1 \in Nat /\ k - 1 \in Nat /\ w - 1 <= k - 1
      OBVIOUS
    <2> QED
      BY <1>2, <2>1
  <1>5. a < l
    BY <1>1, <1>4
  <1>6. PICK m \in Nat : m = LaneMin(w * per, l) /\ a + 1 <= m /\ m <= l
    BY <1>3, <1>5 DEF LaneMin
  <1>7. w = k => m = l
    BY <1>1, <1>6 DEF LaneMin
  <1>8. ASSUME NEW v \in 1..k, v < w
        PROVE  LaneMin(v * per, l) <= a
    <2>1. v * per <= a
      <3>1. v \in Nat /\ w - 1 \in Nat /\ v <= w - 1
        BY <1>8
      <3> QED
        BY <1>2, <3>1
    <2>2. v * per \in Nat
      OBVIOUS
    <2> QED
      BY <2>1, <2>2 DEF LaneMin
  <1>9. ASSUME NEW v \in 1..k, v < w
        PROVE  LaneMin(v * per, l) \in Nat
    BY DEF LaneMin
  <1> QED
    BY <1>2, <1>6, <1>7, <1>8, <1>9

LEMMA StartSliceKeeps ==
    ASSUME LaneInv, NEW threads \in Threads, StartSlice(threads)
    PROVE  LaneInv'
  <1>a. /\ LaneTypeOK /\ ArenaOK /\ PassOK /\ SlicesInStep /\ ArenaWiped /\ phase = "slice"
        /\ GeometryOK /\ slice \in 0..(SLICES - 1) /\ pass \in Nat /\ workers = <<>>
    BY DEF LaneInv, LaneTypeOK, StartSlice
  <1>b. UNCHANGED <<entry, g, pass, slice, seeded, memory, failed, result>> /\ phase' = "fill"
    BY DEF StartSlice
  <1>c. GeometryOK' /\ First' = First /\ seg_start' = seg_start /\ LaneIds' = LaneIds
    BY <1>a, <1>b DEF GeometryOK, First, seg_start, LaneIds
  <1>d. PICK l \in Nat : l = g.lanes /\ l > 0
    BY <1>a, Shape
  <1>e. First \in Nat /\ First <= g.segment_len
    BY <1>a, SegmentStart
  <1>1. PICK per \in Nat :
          /\ per > 0
          /\ workers' = [w \in 1..DivCeil(l, per) |->
                     [lane |-> (w - 1) * per,
                      last |-> LaneMin(w * per, l) - 1,
                      index |-> First, address_counter |-> 0]]
    <2>1. threads \in Nat /\ threads > 0
      BY Argon2Assumption DEF Threads
    <2>2. LaneMin(threads, l) \in Nat /\ LaneMin(threads, l) > 0
      BY <1>d, <2>1 DEF LaneMin
    <2>3. DivCeil(l, LaneMin(threads, l)) \in Nat /\ DivCeil(l, LaneMin(threads, l)) > 0
      BY <1>d, <2>2, Batches, SMTT(30)
    <2> QED
      BY <1>d, <2>3 DEF StartSlice
  <1>2. PICK k \in Nat : k = DivCeil(l, per) /\ k >= 1 /\ k <= l /\ l <= k * per
    BY <1>d, <1>1, Batches
  <1>3. DOMAIN workers' = 1..k
    BY <1>1, <1>2
  <1>4. \A w \in 1..k : /\ workers'[w].lane = (w - 1) * per /\ workers'[w].last = LaneMin(w * per, l) - 1
                        /\ workers'[w].index = First /\ workers'[w].address_counter = 0
                        /\ workers'[w] = [lane |-> (w - 1) * per, last |-> LaneMin(w * per, l) - 1,
                                          index |-> First, address_counter |-> 0]
    BY <1>1, <1>2
  <1>5. LaneTypeOK'
    <2>1. threaded' \in BOOLEAN
      BY DEF StartSlice
    <2> QED
      BY <1>a, <1>b, <1>c, <2>1 DEF LaneTypeOK, LanePhases
  <1>6. ArenaOK' /\ SeedingOK' /\ PassOK' /\ ArenaWiped'
    BY <1>a, <1>b DEF ArenaOK, SeedingOK, PassOK, ArenaWiped
  <1>7. BatchesOK'
    <2>1. k \in 1..g'.lanes /\ workers'[k].last = g'.lanes - 1
      <3>1. k \in 1..k
        BY <1>2
      <3>2. LaneMin(k * per, l) = l
        BY <1>d, <1>1, <1>2, <3>1, BatchShape
      <3>3. workers'[k].last = l - 1
        BY <1>4, <3>1, <3>2
      <3>4. k \in 1..l /\ g'.lanes = l
        BY <1>b, <1>d, <1>2
      <3> QED
        BY <3>3, <3>4
    <2>2. ASSUME NEW w \in 1..k
          PROVE  /\ workers'[w] \in [lane : Nat, last : Nat, index : Nat, address_counter : Nat]
                 /\ workers'[w].lane <= workers'[w].last + 1 /\ workers'[w].last < g'.lanes
                 /\ First' <= workers'[w].index /\ workers'[w].index <= g'.segment_len
                 /\ \A v \in 1..k : v < w =>
                       workers'[v].last < workers'[w].lane /\ workers'[v].last < workers'[w].last
      <3>1. /\ (w - 1) * per \in Nat /\ LaneMin(w * per, l) - 1 \in Nat
            /\ (w - 1) * per <= LaneMin(w * per, l) - 1 /\ LaneMin(w * per, l) - 1 < l
            /\ \A v \in 1..k : v < w =>
                  /\ LaneMin(v * per, l) - 1 < (w - 1) * per
                  /\ LaneMin(v * per, l) - 1 < LaneMin(w * per, l) - 1
        BY <1>d, <1>1, <1>2, BatchShape
      <3>2. PICK a \in Nat, b \in Nat : a = (w - 1) * per /\ b = LaneMin(w * per, l) - 1
        BY <3>1
      <3>3. a <= b + 1 /\ b < g'.lanes
        BY <1>b, <1>d, <3>1, <3>2
      <3>4. workers'[w] = [lane |-> a, last |-> b, index |-> First, address_counter |-> 0]
        BY <1>4, <3>2
      <3>5. workers'[w] \in [lane : Nat, last : Nat, index : Nat, address_counter : Nat]
        BY <1>e, <3>4
      <3>6. First' <= workers'[w].index /\ workers'[w].index <= g'.segment_len
        BY <1>b, <1>c, <1>e, <3>4
      <3>7. \A v \in 1..k : v < w =>
                workers'[v].last < workers'[w].lane /\ workers'[v].last < workers'[w].last
        BY <1>4, <3>1
      <3> QED
        BY <3>3, <3>4, <3>5, <3>6, <3>7
    <2> QED
      BY <1>3, <2>1, <2>2 DEF BatchesOK
  <1>8. ASSUME NEW lane \in LaneIds
        PROVE  Progress(lane)' = First
    <2>1. lane \in Nat /\ lane < l
      BY <1>d DEF LaneIds
    <2>2. PICK q \in Nat : q * per <= lane /\ lane < (q + 1) * per
      <3>1. PICK c \in Nat, r \in Nat : lane = per * c + r /\ r < per
        <4>1. lane \div per \in Nat /\ lane % per \in Nat /\ lane = per * (lane \div per) + (lane % per)
              /\ lane % per < per
          BY <1>1, <2>1, Division
        <4> QED
          BY <4>1
      <3>2. c * per <= lane /\ lane < (c + 1) * per
        BY <3>1
      <3> QED
        BY <3>2
    <2>3. q + 1 \in 1..k
      <3> SUFFICES ASSUME k <= q PROVE FALSE
        BY <1>2
      <3>1. k * per <= q * per
        OBVIOUS
      <3> QED
        BY <1>2, <2>1, <2>2, <3>1
    <2>4. /\ workers'[q + 1].lane = q * per /\ workers'[q + 1].index = First
          /\ workers'[q + 1].last = LaneMin((q + 1) * per, l) - 1
      <3>1. (q + 1) - 1 = q
        OBVIOUS
      <3> QED
        BY <1>4, <2>3, <3>1
    <2>5. lane <= workers'[q + 1].last
      <3>1. (q + 1) * per \in Nat
        OBVIOUS
      <3> QED
        BY <2>1, <2>2, <2>4, <3>1 DEF LaneMin
    <2>6. ASSUME NEW v \in 1..k, lane <= workers'[v].last
          PROVE  q + 1 <= v
      <3> SUFFICES ASSUME v <= q PROVE FALSE
        OBVIOUS
      <3>1. v * per <= q * per /\ v * per \in Nat /\ q * per \in Nat
        OBVIOUS
      <3>2. LaneMin(v * per, l) <= v * per /\ LaneMin(v * per, l) \in Nat
        BY <3>1 DEF LaneMin
      <3>3. lane <= LaneMin(v * per, l) - 1
        BY <1>4, <2>6
      <3> QED
        BY <2>1, <2>2, <3>1, <3>2, <3>3
    <2>7. ThreadOf(workers', lane) = q + 1
      <3>1. DOMAIN workers' \subseteq Nat /\ q + 1 \in DOMAIN workers'
        BY <1>3, <2>3
      <3> QED
        BY <1>3, <2>5, <2>6, <3>1, ThreadFound
    <2>8. ~(lane < workers'[q + 1].lane)
      <3>1. q * per \in Nat
        OBVIOUS
      <3> QED
        BY <2>1, <2>2, <2>4, <3>1
    <2> QED
      BY <1>b, <1>c, <2>4, <2>7, <2>8 DEF Progress
  <1>9. SlicesInStep'
    <2>1. \A lane \in LaneIds : Progress(lane) = First
      BY <1>a DEF Progress
    <2>2. \A lane \in LaneIds : \A position \in 0..(g.lane_len - 1) :
              IF position < seg_start + Progress(lane)'
              THEN memory[lane * g.lane_len + position] = pass + 1
              ELSE IF pass > 0 THEN memory[lane * g.lane_len + position] = pass
              ELSE memory[lane * g.lane_len + position] \in {ZERO, Stale}
      BY <1>a, <1>8, <2>1 DEF SlicesInStep
    <2>3. \A w \in DOMAIN workers' : workers'[w].index = First' /\ workers'[w].address_counter = 0
      BY <1>c, <1>3, <1>4
    <2> QED
      BY <1>b, <1>c, <2>2, <2>3 DEF SlicesInStep
  <1> QED
    BY <1>5, <1>6, <1>7, <1>9 DEF LaneInv

LEMMA EndSliceKeeps ==
    ASSUME LaneInv, EndSlice
    PROVE  LaneInv'
  <1>a. /\ LaneTypeOK /\ ArenaOK /\ BatchesOK /\ PassOK /\ SlicesInStep /\ ArenaWiped /\ phase = "fill"
        /\ GeometryOK /\ slice \in 0..(SLICES - 1) /\ pass \in Nat /\ pass < g.passes /\ g.passes \in Nat
    BY Shape DEF LaneInv, LaneTypeOK, EndSlice, PassOK
  <1>b. /\ UNCHANGED <<entry, g, threaded, seeded, memory, failed, result>> /\ workers' = <<>>
        /\ \A w \in DOMAIN workers : Finished(w)
        /\ slice' = (slice + 1) % SLICES
        /\ pass' = IF slice' = 0 THEN pass + 1 ELSE pass
        /\ phase' = IF pass' < g.passes THEN "slice" ELSE "finish"
    BY DEF EndSlice
  <1>c. GeometryOK' /\ LaneIds' = LaneIds
    BY <1>a, <1>b DEF GeometryOK, LaneIds
  <1>1. PICK n, s, at \in Nat :
              /\ n = g.lane_len /\ s = g.segment_len /\ at = seg_start
              /\ s >= 2 /\ n = 4 * s /\ at + s <= n
              /\ at = slice * s
              /\ slice = 3 <=> at + s = n
    BY <1>a, SegmentStart
  <1>2. /\ slice \in {0, 1, 2, 3} /\ slice' \in 0..(SLICES - 1)
        /\ slice' = IF slice = 3 THEN 0 ELSE slice + 1
    BY <1>a, <1>b DEF SLICES
  <1>3. /\ slice = 3 => slice' = 0 /\ pass' = pass + 1 /\ seg_start' = 0 /\ at + s = n
        /\ slice # 3 => slice' # 0 /\ pass' = pass /\ seg_start' = at + s
    <2>1. CASE slice = 3
      <3>1. slice' = 0 /\ pass' = pass + 1 /\ at + s = n
        BY <1>b, <1>1, <1>2, <2>1
      <3>2. seg_start' = 0
        BY <1>b, <1>1, <3>1 DEF seg_start
      <3> QED
        BY <2>1, <3>1, <3>2
    <2>2. CASE slice # 3
      <3>1. slice' = slice + 1 /\ slice' # 0 /\ pass' = pass
        BY <1>b, <1>2, <2>2
      <3>2. (slice + 1) * s = slice * s + s
        BY <1>2
      <3>3. seg_start' = at + s
        BY <1>b, <1>1, <3>1, <3>2 DEF seg_start
      <3> QED
        BY <2>2, <3>1, <3>3
    <2> QED
      BY <2>1, <2>2
  <1>4. pass' \in Nat /\ First' = 0
    BY <1>a, <1>2, <1>3 DEF First
  <1>5. ASSUME NEW lane \in LaneIds
        PROVE  Progress(lane) = s
    <2>1. PICK w \in DOMAIN workers : lane <= workers[w].last /\ ThreadOf(workers, lane) = w
      BY <1>a, LaneHasThread
    <2>2. workers[w].last \in Nat /\ workers[w].lane \in Nat /\ lane \in Nat
      BY <1>a, WorkerTypes, Shape DEF LaneIds
    <2>3. lane < workers[w].lane
      BY <1>b, <2>1, <2>2 DEF Finished
    <2> QED
      BY <1>a, <1>1, <2>1, <2>3 DEF Progress
  <1>6. ASSUME NEW lane \in LaneIds, NEW position \in 0..(n - 1)
        PROVE  IF position < at + s THEN memory[lane * n + position] = pass + 1
               ELSE IF pass > 0 THEN memory[lane * n + position] = pass
               ELSE memory[lane * n + position] \in {ZERO, Stale}
    BY <1>a, <1>1, <1>5 DEF SlicesInStep
  <1>7. LaneTypeOK'
    BY <1>a, <1>b, <1>c, <1>2, <1>4 DEF LaneTypeOK, LanePhases
  <1>8. ArenaOK' /\ SeedingOK' /\ BatchesOK' /\ ArenaWiped'
    BY <1>a, <1>b DEF ArenaOK, SeedingOK, BatchesOK, ArenaWiped
  <1>9. PassOK'
    <2>1. CASE phase' = "slice"
      BY <1>b, <2>1 DEF PassOK
    <2>2. CASE phase' = "finish"
      <3>1. ~(pass' < g.passes)
        BY <1>b, <2>2
      <3>2. slice = 3 /\ pass + 1 = g.passes /\ at + s = n
        BY <1>a, <1>3, <3>1
      <3>3. \A lane \in LaneIds : \A position \in 0..(n - 1) : memory[lane * n + position] = g.passes
        <4>1. \A position \in 0..(n - 1) : position < at + s
          BY <3>2
        <4> QED
          BY <1>6, <3>2, <4>1
      <3> QED
        BY <1>b, <1>c, <1>1, <2>2, <3>3 DEF PassOK
    <2> QED
      BY <1>b, <2>1, <2>2
  <1>10. SlicesInStep'
    <2> SUFFICES ASSUME phase' = "slice"
                 PROVE  SlicesInStep'
      BY <1>b DEF SlicesInStep
    <2>1. \A lane : Progress(lane)' = 0
      BY <1>4 DEF Progress
    <2>2. PICK from \in Nat : from = seg_start'
      BY <1>1, <1>3
    <2>3. ASSUME NEW lane \in LaneIds, NEW position \in 0..(n - 1)
          PROVE  IF position < from + 0 THEN memory[lane * n + position] = pass' + 1
                 ELSE IF pass' > 0 THEN memory[lane * n + position] = pass'
                 ELSE memory[lane * n + position] \in {ZERO, Stale}
      <3>1. CASE slice = 3
        <4>1. from = 0 /\ position < at + s /\ pass' = pass + 1
          BY <1>1, <1>3, <2>2, <3>1
        <4>2. memory[lane * n + position] = pass + 1
          BY <1>6, <4>1
        <4>3. ~(position < from + 0) /\ pass' > 0
          BY <1>a, <4>1
        <4> QED
          BY <4>1, <4>2, <4>3
      <3>2. CASE slice # 3
        <4>1. from = at + s /\ pass' = pass
          BY <1>3, <2>2, <3>2
        <4>2. position < from + 0 <=> position < at + s
          BY <4>1
        <4> QED
          BY <1>6, <4>1, <4>2
      <3> QED
        BY <3>1, <3>2
    <2>4. DOMAIN workers' = {}
      BY <1>b
    <2>5. \A lane \in LaneIds' : \A position \in 0..(g'.lane_len - 1) :
              IF position < seg_start' + Progress(lane)'
              THEN memory'[lane * g'.lane_len + position] = pass' + 1
              ELSE IF pass' > 0 THEN memory'[lane * g'.lane_len + position] = pass'
              ELSE memory'[lane * g'.lane_len + position] \in {ZERO, Stale}
      <3> TAKE lane \in LaneIds'
      <3> TAKE position \in 0..(g'.lane_len - 1)
      <3>1. lane \in LaneIds /\ position \in 0..(n - 1) /\ g'.lane_len = n /\ memory' = memory
        BY <1>b, <1>c, <1>1
      <3>2. seg_start' + Progress(lane)' = from + 0
        BY <2>1, <2>2
      <3> QED
        BY <2>3, <3>1, <3>2
    <2> QED
      BY <2>4, <2>5 DEF SlicesInStep
  <1> QED
    BY <1>7, <1>8, <1>9, <1>10 DEF LaneInv

LEMMA FinishKeeps ==
    ASSUME LaneInv, Finish
    PROVE  LaneInv'
  <1>a. /\ LaneTypeOK /\ ArenaOK /\ PassOK /\ ArenaWiped /\ phase = "finish" /\ GeometryOK
        /\ entry \in Entries /\ workers = <<>>
    BY DEF LaneInv, LaneTypeOK, Finish
  <1>b. UNCHANGED <<entry, g, pass, slice, threaded, workers, seeded, memory, failed>>
    BY DEF Finish
  <1>c. GeometryOK'
    BY <1>a, <1>b DEF GeometryOK
  <1>1. \A i \in 0..(g.total - 1) : memory[i] = g.passes
    <2> TAKE i \in 0..(g.total - 1)
    <2>1. PICK lane \in LaneIds, position \in 0..(g.lane_len - 1) : i = lane * g.lane_len + position
      BY <1>a, ArenaIsCells
    <2> QED
      BY <1>a, <2>1 DEF PassOK
  <1>2. \A i \in LastBlocks : memory[i] = g.passes
    <2> TAKE i \in LastBlocks
    <2>1. PICK lane \in LaneIds : i = lane * g.lane_len + g.lane_len - 1
      BY DEF LastBlocks, LaneIds
    <2>2. PICK n, c \in Nat : n = g.lane_len /\ c = g.lanes /\ n >= 1
      BY <1>a, Shape
    <2>3. PICK a \in Nat : a = lane * n
      BY <2>2 DEF LaneIds
    <2>4. i = lane * g.lane_len + (n - 1) /\ n - 1 \in 0..(g.lane_len - 1)
      BY <2>1, <2>2, <2>3
    <2> QED
      BY <1>a, <2>4 DEF PassOK
  <1>3. \/ phase' = "done" /\ result' = "Ok" /\ entry = "fill_memory"
        \/ phase' = "wipe" /\ result' \in {"ModuleErrorState", "Ok"} /\ entry # "fill_memory"
    <2>1. failed \in BOOLEAN
      BY <1>a DEF LaneTypeOK
    <2> QED
      BY <1>2, <2>1 DEF Finish
  <1>4. LaneTypeOK'
    BY <1>a, <1>b, <1>c, <1>3 DEF LaneTypeOK, LanePhases
  <1>5. ArenaOK'
    BY <1>a, <1>b, <1>3 DEF ArenaOK
  <1>6. SeedingOK' /\ BatchesOK' /\ PassOK' /\ SlicesInStep'
    BY <1>3 DEF SeedingOK, BatchesOK, PassOK, SlicesInStep
  <1>7. ArenaWiped'
    <2>1. CASE phase' = "wipe"
      BY <1>3, <2>1 DEF ArenaWiped
    <2>2. CASE phase' = "done"
      <3>1. \A i \in DOMAIN memory : memory[i] = IF i < g.total THEN g.passes ELSE Stale
        <4>1. PICK blocks \in Nat : DOMAIN memory = 0..(blocks - 1)
          <5>1. g.total \in Nat
            BY <1>a, Shape
          <5> QED
            BY <1>a, <5>1, Argon2Assumption DEF ArenaOK
        <4>2. \A i \in DOMAIN memory : i >= g.total => memory[i] = Stale
          BY <1>a DEF ArenaOK
        <4>3. g.total \in Nat
          BY <1>a, Shape
        <4> TAKE i \in DOMAIN memory
        <4>4. i \in Nat
          BY <4>1
        <4>5. CASE i < g.total
          BY <1>1, <4>3, <4>4, <4>5
        <4>6. CASE ~(i < g.total)
          BY <4>2, <4>3, <4>4, <4>6
        <4> QED
          BY <4>5, <4>6
      <3> QED
        BY <1>b, <1>3, <2>2, <3>1 DEF ArenaWiped
    <2> QED
      BY <1>3, <2>1, <2>2
  <1> QED
    BY <1>4, <1>5, <1>6, <1>7 DEF LaneInv

LEMMA WipeKeeps ==
    ASSUME LaneInv, Wipe
    PROVE  LaneInv'
  <1>a. /\ LaneTypeOK /\ ArenaOK /\ ArenaWiped /\ phase = "wipe" /\ GeometryOK
        /\ entry \in Entries /\ entry # "fill_memory" /\ workers = <<>>
    BY DEF LaneInv, LaneTypeOK, Wipe
  <1>b. /\ UNCHANGED <<entry, g, pass, slice, threaded, workers, seeded, failed, result>>
        /\ memory' = [i \in DOMAIN memory |-> IF i < g.total THEN ZERO ELSE memory[i]]
        /\ phase' = "done"
    BY DEF Wipe
  <1>1. LaneTypeOK'
    BY <1>a, <1>b DEF LaneTypeOK, LanePhases
  <1>2. ArenaOK' /\ SeedingOK' /\ BatchesOK' /\ PassOK' /\ SlicesInStep'
    BY <1>b DEF ArenaOK, SeedingOK, BatchesOK, PassOK, SlicesInStep
  <1>3. ArenaWiped'
    <2>1. g # NoGeometry /\ g.total \in Nat
      <3>1. g.lanes \in Nat /\ g.lanes >= 1 /\ g.total \in Nat
        BY <1>a, Shape
      <3>2. NoGeometry.lanes = 0
        BY DEF NoGeometry
      <3> QED
        BY <3>1, <3>2
    <2>2. PICK blocks \in Nat : DOMAIN memory = 0..(blocks - 1)
                                /\ (entry = "argon2_versioned" => blocks = g.total)
      BY <1>a, <2>1, Argon2Assumption DEF ArenaOK
    <2>3. \A i \in DOMAIN memory : i >= g.total => memory[i] = Stale
      BY <1>a DEF ArenaOK
    <2>4. \A i \in DOMAIN memory' : memory'[i] = IF i < g.total THEN ZERO ELSE Stale
      BY <1>b, <2>1, <2>2, <2>3
    <2>5. entry = "argon2_versioned" => \A i \in DOMAIN memory' : memory'[i] = ZERO
      BY <1>b, <2>1, <2>2, <2>4
    <2>6. result' # "wrong tag"
      BY <1>a, <1>b DEF ArenaWiped
    <2> QED
      BY <1>a, <1>b, <2>1, <2>4, <2>5, <2>6 DEF ArenaWiped
  <1> QED
    BY <1>1, <1>2, <1>3 DEF LaneInv

\* While threads keep their batches, lanes keep their threads.
LEMMA SameThread ==
    ASSUME BatchesOK, phase = "fill", GeometryOK, NEW lane \in LaneIds,
           DOMAIN workers' = DOMAIN workers,
           \A w \in DOMAIN workers : workers'[w].last = workers[w].last
    PROVE  /\ ThreadOf(workers', lane) = ThreadOf(workers, lane)
           /\ ThreadOf(workers, lane) \in DOMAIN workers
  <1>1. PICK w \in DOMAIN workers :
              /\ lane <= workers[w].last
              /\ \A v \in DOMAIN workers : lane <= workers[v].last => w <= v
              /\ ThreadOf(workers, lane) = w
    BY LaneHasThread
  <1>2. DOMAIN workers' \subseteq Nat
    BY WorkerTypes
  <1>3. lane <= workers'[w].last /\ \A v \in DOMAIN workers' : lane <= workers'[v].last => w <= v
    BY <1>1
  <1>4. ThreadOf(workers', lane) = w
    BY <1>1, <1>2, <1>3, ThreadFound
  <1> QED
    BY <1>1, <1>4

\* A thread that goes on within its batch leaves the batches as they are.
LEMMA BatchesKept ==
    ASSUME BatchesOK, phase = "fill", GeometryOK, phase' = "fill", g' = g, First' = First,
           NEW w \in DOMAIN workers,
           DOMAIN workers' = DOMAIN workers,
           \A v \in DOMAIN workers : v # w => workers'[v] = workers[v],
           workers'[w] \in [lane : Nat, last : Nat, index : Nat, address_counter : Nat],
           workers'[w].last = workers[w].last,
           workers[w].lane <= workers'[w].lane, workers'[w].lane <= workers'[w].last + 1,
           First <= workers'[w].index, workers'[w].index <= g.segment_len
    PROVE  BatchesOK'
  <1>1. PICK count \in 1..g.lanes : DOMAIN workers = 1..count /\ workers[count].last = g.lanes - 1
    BY DEF BatchesOK
  <1>2. \A v \in DOMAIN workers : workers'[v].last = workers[v].last
    OBVIOUS
  <1>3. count \in DOMAIN workers
    <2>1. g.lanes \in Nat
      BY Shape
    <2> QED
      BY <1>1, <2>1
  <1>4. \E c \in 1..g'.lanes : DOMAIN workers' = 1..c /\ workers'[c].last = g'.lanes - 1
    BY <1>1, <1>2, <1>3
  <1>5. ASSUME NEW u \in DOMAIN workers
        PROVE  /\ workers'[u] \in [lane : Nat, last : Nat, index : Nat, address_counter : Nat]
               /\ workers'[u].lane <= workers'[u].last + 1 /\ workers'[u].last < g.lanes
               /\ First <= workers'[u].index /\ workers'[u].index <= g.segment_len
               /\ workers[u].lane \in Nat /\ workers'[u].lane \in Nat /\ workers[u].lane <= workers'[u].lane
    <2>1. /\ workers[u] \in [lane : Nat, last : Nat, index : Nat, address_counter : Nat]
          /\ workers[u].lane <= workers[u].last + 1 /\ workers[u].last < g.lanes
          /\ First <= workers[u].index /\ workers[u].index <= g.segment_len
      BY DEF BatchesOK
    <2>2. CASE u = w
      BY <1>2, <2>1, <2>2
    <2>3. CASE u # w
      <3>1. workers'[u] = workers[u] /\ workers[u].lane \in Nat
        BY <2>1, <2>3
      <3> QED
        BY <2>1, <3>1
    <2> QED
      BY <2>2, <2>3
  <1>6. ASSUME NEW u \in DOMAIN workers, NEW v \in DOMAIN workers, v < u
        PROVE  workers'[v].last < workers'[u].lane /\ workers'[v].last < workers'[u].last
    <2>1. workers[v].last < workers[u].lane /\ workers[v].last < workers[u].last /\ workers[v].last \in Nat
      BY <1>6, WorkerTypes
    <2> QED
      BY <1>2, <1>5, <2>1
  <1> QED
    BY <1>4, <1>5, <1>6 DEF BatchesOK

\* Only the lane a thread is at makes progress.
LEMMA OtherProgress ==
    ASSUME BatchesOK, phase = "fill", GeometryOK, phase' = "fill", g' = g, First' = First,
           NEW w \in DOMAIN workers,
           DOMAIN workers' = DOMAIN workers,
           \A v \in DOMAIN workers : v # w => workers'[v] = workers[v],
           workers'[w].last = workers[w].last, workers'[w].lane = workers[w].lane,
           NEW lane \in LaneIds, lane # workers[w].lane
    PROVE  Progress(lane)' = Progress(lane)
  <1>1. \A v \in DOMAIN workers : workers'[v].last = workers[v].last /\ workers'[v].lane = workers[v].lane
    OBVIOUS
  <1>2. PICK u \in DOMAIN workers : ThreadOf(workers, lane) = u /\ ThreadOf(workers', lane) = u
    BY <1>1, SameThread
  <1>3. workers'[u].lane = workers[u].lane /\ (lane = workers[u].lane => workers'[u].index = workers[u].index)
    BY <1>1
  <1> QED
    BY <1>2, <1>3 DEF Progress

LEMMA NextLaneKeeps ==
    ASSUME LaneInv, NEW w \in DOMAIN workers, NextLane(w)
    PROVE  LaneInv'
  <1>a. /\ LaneTypeOK /\ ArenaOK /\ BatchesOK /\ PassOK /\ SlicesInStep /\ ArenaWiped /\ phase = "fill"
        /\ GeometryOK /\ slice \in 0..(SLICES - 1) /\ pass \in Nat
    BY DEF LaneInv, LaneTypeOK, NextLane
  <1>b. /\ UNCHANGED <<entry, g, phase, pass, slice, threaded, seeded, memory, failed, result>>
        /\ ~Finished(w) /\ workers[w].index = g.segment_len
        /\ workers' = [workers EXCEPT ![w] = [lane |-> @.lane + 1, last |-> @.last, index |-> First,
                                              address_counter |-> 0]]
    BY DEF NextLane
  <1>c. /\ GeometryOK' /\ First' = First /\ seg_start' = seg_start /\ LaneIds' = LaneIds
        /\ independent' = independent
    BY <1>a, <1>b DEF GeometryOK, First, seg_start, LaneIds, independent
  <1>1. PICK me \in [lane : Nat, last : Nat, index : Nat, address_counter : Nat] : me = workers[w]
    BY <1>a DEF BatchesOK
  <1>2. /\ DOMAIN workers' = DOMAIN workers
        /\ \A v \in DOMAIN workers : v # w => workers'[v] = workers[v]
        /\ workers'[w] = [lane |-> me.lane + 1, last |-> me.last, index |-> First, address_counter |-> 0]
    BY <1>b, <1>1
  <1>3. First \in Nat /\ First <= g.segment_len /\ g.segment_len \in Nat
    BY <1>a, SegmentStart
  <1>4. /\ workers'[w] \in [lane : Nat, last : Nat, index : Nat, address_counter : Nat]
        /\ workers'[w].lane = me.lane + 1 /\ workers'[w].last = me.last
        /\ workers'[w].index = First /\ workers'[w].address_counter = 0
    <2>1. me.lane + 1 \in Nat /\ me.last \in Nat
      OBVIOUS
    <2> QED
      BY <1>2, <1>3, <2>1
  <1>5. me.lane \in Nat /\ me.last \in Nat /\ me.lane <= me.last
    <2>1. me.lane \in Nat /\ me.last \in Nat
      BY <1>1
    <2> QED
      BY <1>1, <1>b, <2>1 DEF Finished
  <1>6. BatchesOK'
    <2>1. workers[w].lane <= workers'[w].lane /\ workers'[w].lane <= workers'[w].last + 1
      BY <1>1, <1>4, <1>5
    <2>2. First <= workers'[w].index /\ workers'[w].index <= g.segment_len
      BY <1>3, <1>4
    <2>3. workers'[w].last = workers[w].last /\ phase' = "fill" /\ g' = g
      BY <1>a, <1>b, <1>1, <1>4
    <2> QED
      BY <1>a, <1>c, <1>2, <1>4, <2>1, <2>2, <2>3, BatchesKept
  <1>7. LaneTypeOK'
    BY <1>a, <1>b, <1>c DEF LaneTypeOK
  <1>8. ArenaOK' /\ SeedingOK' /\ PassOK' /\ ArenaWiped'
    BY <1>a, <1>b DEF ArenaOK, SeedingOK, PassOK, ArenaWiped
  <1>9. ASSUME NEW lane \in LaneIds
        PROVE  Progress(lane)' = Progress(lane)
    <2>1. \A v \in DOMAIN workers : workers'[v].last = workers[v].last
      BY <1>1, <1>2, <1>4
    <2>2. PICK u \in DOMAIN workers : ThreadOf(workers, lane) = u /\ ThreadOf(workers', lane) = u
      BY <1>a, <1>2, <2>1, SameThread
    <2>3. CASE u # w
      BY <1>a, <1>b, <1>c, <1>2, <2>2, <2>3 DEF Progress
    <2>4. CASE u = w
      <3>1. lane \in Nat
        BY <1>a, Shape DEF LaneIds
      <3>2. Progress(lane) = IF lane < me.lane THEN g.segment_len
                             ELSE IF lane = me.lane THEN g.segment_len ELSE First
        BY <1>a, <1>b, <1>1, <2>2, <2>4 DEF Progress
      <3>3. Progress(lane)' = IF lane < me.lane + 1 THEN g.segment_len ELSE First
        BY <1>a, <1>b, <1>c, <1>4, <2>2, <2>4 DEF Progress
      <3> QED
        BY <1>5, <3>1, <3>2, <3>3
    <2> QED
      BY <2>3, <2>4
  <1>10. SlicesInStep'
    <2>1. \A lane \in LaneIds : \A position \in 0..(g.lane_len - 1) :
              IF position < seg_start + Progress(lane)'
              THEN memory[lane * g.lane_len + position] = pass + 1
              ELSE IF pass > 0 THEN memory[lane * g.lane_len + position] = pass
              ELSE memory[lane * g.lane_len + position] \in {ZERO, Stale}
      BY <1>a, <1>9 DEF SlicesInStep
    <2>2. ASSUME NEW v \in DOMAIN workers', ~Finished(v)', independent'
          PROVE  workers'[v].address_counter = IF workers'[v].index = First' THEN 0
                                               ELSE ((workers'[v].index - 1) \div BLOCK_WORDS) + 1
      <3>1. CASE v = w
        BY <1>c, <1>4, <3>1
      <3>2. CASE v # w
        <4>1. workers'[v] = workers[v] /\ v \in DOMAIN workers
          BY <1>2, <2>2, <3>2
        <4>2. ~Finished(v)
          BY <2>2, <4>1 DEF Finished
        <4> QED
          BY <1>a, <1>c, <2>2, <4>1, <4>2 DEF SlicesInStep
      <3> QED
        BY <3>1, <3>2
    <2> QED
      BY <1>b, <1>c, <2>1, <2>2 DEF SlicesInStep
  <1> QED
    BY <1>6, <1>7, <1>8, <1>10 DEF LaneInv

\* The address block is refreshed when the position leaves the one in use.
LEMMA Refreshing ==
    ASSUME NEW i \in Nat, NEW b \in Nat, b > 2
    PROVE  /\ i <= 2 => i \div b = 0
           /\ i > 0 => /\ (i - 1) \div b \in Nat
                       /\ i % b = 0 => ((i - 1) \div b) + 1 = i \div b
                       /\ i % b # 0 => (i - 1) \div b = i \div b
  <1>1. i <= 2 => i \div b = 0
    OBVIOUS
  <1>2. ASSUME i > 0
        PROVE  (i - 1) \div b \in Nat
    <2>1. i - 1 \in Nat
      BY <1>2
    <2> QED
      BY <2>1, Division
  <1>3. ASSUME i > 0
        PROVE  /\ i % b = 0 => ((i - 1) \div b) + 1 = i \div b
               /\ i % b # 0 => (i - 1) \div b = i \div b
    BY <1>3
  <1> QED
    BY <1>1, <1>2, <1>3

\* The block reference_index names is inside the arena, as fill_block addresses it.
LEMMA ReferenceSettled ==
    ASSUME ReadsSettled, phase = "fill", NEW w \in DOMAIN workers, ~Finished(w),
           workers[w].index < g.segment_len, NEW x \in Words, NEW j2 \in SecondWords
    PROVE  LET ref == reference_index(x, j2, workers[w].lane, workers[w].index)
           IN  read(workers[w].lane, ref.lane, ref.position) = ref.lane * g.lane_len + ref.position
  BY ZenonT(40) DEF ReadsSettled

LEMMA FillBlockKeeps ==
    ASSUME LaneInv, NEW w \in DOMAIN workers, NEW x \in Words, NEW j2 \in SecondWords,
           FillBlock(w, x, j2)
    PROVE  LaneInv'
  <1>a. /\ LaneTypeOK /\ ArenaOK /\ BatchesOK /\ PassOK /\ SlicesInStep /\ ArenaWiped /\ phase = "fill"
        /\ GeometryOK /\ slice \in 0..(SLICES - 1) /\ pass \in Nat /\ ReadsSettled
    BY InvSettles DEF LaneInv, LaneTypeOK, FillBlock
  <1>b. /\ UNCHANGED <<entry, g, phase, pass, slice, threaded, seeded, failed, result>>
        /\ ~Finished(w) /\ workers[w].index < g.segment_len
        /\ workers' = [workers EXCEPT ![w] = [lane |-> workers[w].lane, last |-> @.last,
                                              index |-> @.index + 1, address_counter |-> Refreshed(w)]]
    BY DEF FillBlock
  <1>c. /\ GeometryOK' /\ First' = First /\ seg_start' = seg_start /\ LaneIds' = LaneIds
        /\ independent' = independent
    BY <1>a, <1>b DEF GeometryOK, First, seg_start, LaneIds, independent
  <1>1. PICK me \in [lane : Nat, last : Nat, index : Nat, address_counter : Nat] : me = workers[w]
    BY <1>a DEF BatchesOK
  <1>2. PICK n, s, from \in Nat :
              /\ n = g.lane_len /\ s = g.segment_len /\ from = seg_start
              /\ s >= 2 /\ n = 4 * s /\ from + s <= n /\ First \in Nat /\ First <= s
    BY <1>a, SegmentStart
  <1>3. /\ me.lane \in LaneIds /\ Progress(me.lane) = me.index /\ me.lane \in Nat /\ me.last \in Nat
        /\ me.index \in Nat /\ me.index < s /\ First <= me.index /\ me.lane <= me.last + 1
    BY <1>a, <1>b, <1>1, <1>2, OwnThread, WorkerTypes
  <1>4. PICK now \in 0..(n - 1) : now = from + me.index
    BY <1>2, <1>3
  <1>5. PICK at : at = me.lane * n + now
    OBVIOUS
  <1>6. at \in 0..(g.total - 1)
    BY <1>a, <1>2, <1>3, <1>5, CellInArena
  <1>7. PICK blocks \in Provided \cup {g.total} :
            /\ memory \in [0..(blocks - 1) -> Int]
            /\ g.total <= blocks
            /\ entry = "argon2_versioned" => blocks = g.total
    BY <1>a DEF ArenaOK
  <1>8. blocks \in Nat /\ g.total \in Nat /\ at \in 0..(blocks - 1)
    <2>1. g.total \in Nat
      BY <1>a, Shape
    <2>2. blocks \in Nat
      BY <1>7, <2>1, Argon2Assumption
    <2> QED
      BY <1>6, <1>7, <2>1, <2>2
  <1>9. memory' = [memory EXCEPT ![at] = pass + 1]
    <2> DEFINE ref == reference_index(x, j2, me.lane, me.index)
               one == read(me.lane, me.lane, previous(now))
               two == read(me.lane, ref.lane, ref.position)
               old == IF pass # 0 /\ g.version = "V0x13" THEN {memory[at]} ELSE {}
    <2>1. memory' = [memory EXCEPT ![at] = compress({Content(one), Content(two)} \cup old)]
      BY <1>1, <1>2, <1>4, <1>5 DEF FillBlock
    <2>2. memory[one] > 0 /\ memory[two] > 0
      BY <1>a, <1>b, <1>1, <1>2, <1>4 DEF ReadsSettled
    <2>3. one # NoBlock
      <3>1. /\ previous(now) \in 0..(n - 1)
            /\ one = me.lane * n + previous(now)
        <4>1. one = me.lane * n + previous(now)
          BY <1>a, <1>b, <1>1, <1>2, <1>4 DEF ReadsSettled
        <4>2. previous(now) \in 0..(g.lane_len - 1)
          BY <1>a, <1>2, <1>3, <1>4, PreviousBehind
        <4> QED
          BY <1>2, <4>1, <4>2
      <3>2. one \in 0..(g.total - 1)
        BY <1>a, <1>2, <1>3, <3>1, CellInArena
      <3> QED
        BY <3>2 DEF NoBlock
    <2>4. two # NoBlock
      <3>1. PICK l \in LaneIds, p \in 0..(g.lane_len - 1) : ref = [lane |-> l, position |-> p]
        BY <1>a, <1>2, <1>3, ReferenceBehind
      <3>2. two = ref.lane * n + ref.position
        <4>1. me.lane = workers[w].lane /\ me.index = workers[w].index
          BY <1>1, Zenon
        <4>2. two = ref.lane * g.lane_len + ref.position
          BY <1>a, <1>b, <4>1, ReferenceSettled
        <4> QED
          BY <1>2, <4>2
      <3>3. two \in 0..(g.total - 1)
        BY <1>a, <1>2, <3>1, <3>2, CellInArena
      <3> QED
        BY <3>3 DEF NoBlock
    <2>5. \A c \in old : c > 0
      <3>1. pass > 0 => memory[at] = pass
        <4>1. ~(now < from + me.index)
          BY <1>4
        <4> QED
          BY <1>a, <1>2, <1>3, <1>4, <1>5, <4>1 DEF SlicesInStep
      <3> QED
        BY <1>a, <3>1
    <2>6. Content(one) > 0 /\ Content(two) > 0
      BY <2>2, <2>3, <2>4 DEF Content
    <2> HIDE DEF one, two, old
    <2>7. compress({Content(one), Content(two)} \cup old) = pass + 1
      BY <2>5, <2>6 DEF compress
    <2> QED
      BY <2>1, <2>7
  <1>10. /\ memory' \in [0..(blocks - 1) -> Int] /\ memory'[at] = pass + 1
         /\ \A i \in 0..(blocks - 1) : i # at => memory'[i] = memory[i]
    BY <1>a, <1>7, <1>8, <1>9
  <1>11. /\ DOMAIN workers' = DOMAIN workers
         /\ \A v \in DOMAIN workers : v # w => workers'[v] = workers[v]
         /\ workers'[w] = [lane |-> me.lane, last |-> me.last, index |-> me.index + 1,
                           address_counter |-> Refreshed(w)]
    BY <1>b, <1>1
  <1>12. Refreshed(w) \in Nat
    <2>1. me.address_counter \in Nat
      OBVIOUS
    <2> QED
      BY <1>1, <2>1 DEF Refreshed
  <1>13. /\ workers'[w] \in [lane : Nat, last : Nat, index : Nat, address_counter : Nat]
         /\ workers'[w].lane = me.lane /\ workers'[w].last = me.last
         /\ workers'[w].index = me.index + 1 /\ workers'[w].address_counter = Refreshed(w)
    BY <1>3, <1>11, <1>12
  <1>14. BatchesOK'
    <2>1. workers[w].lane <= workers'[w].lane /\ workers'[w].lane <= workers'[w].last + 1
      BY <1>1, <1>3, <1>13
    <2>2. First <= workers'[w].index /\ workers'[w].index <= g.segment_len
      BY <1>2, <1>3, <1>13
    <2>3. workers'[w].last = workers[w].last /\ phase' = "fill" /\ g' = g
      BY <1>a, <1>b, <1>1, <1>13
    <2> QED
      BY <1>a, <1>c, <1>11, <1>13, <2>1, <2>2, <2>3, BatchesKept
  <1>15. LaneTypeOK'
    BY <1>a, <1>b, <1>c DEF LaneTypeOK
  <1>16. ArenaOK'
    <2>1. \A i \in 0..(blocks - 1) : i >= g.total => memory[i] = Stale
      BY <1>a, <1>7 DEF ArenaOK
    <2>2. \A i \in 0..(blocks - 1) : i >= g.total => i # at
      BY <1>6, <1>8
    <2>3. \A i \in DOMAIN memory' : i >= g.total => memory'[i] = Stale
      BY <1>10, <2>1, <2>2
    <2> QED
      BY <1>b, <1>7, <1>10, <2>3 DEF ArenaOK
  <1>17. SeedingOK' /\ PassOK' /\ ArenaWiped'
    BY <1>a, <1>b DEF SeedingOK, PassOK, ArenaWiped
  <1>18. ASSUME NEW lane \in LaneIds
         PROVE  Progress(lane)' = IF lane = me.lane THEN me.index + 1 ELSE Progress(lane)
    <2>1. CASE lane = me.lane
      <3>1. \A v \in DOMAIN workers : workers'[v].last = workers[v].last
        BY <1>1, <1>11, <1>13
      <3>2. ThreadOf(workers', lane) = w
        BY <1>a, <1>b, <1>1, <1>11, <2>1, <3>1, SameThread, OwnThread
      <3>3. ~(lane < me.lane)
        BY <1>3, <2>1
      <3> QED
        BY <1>a, <1>b, <1>13, <2>1, <3>2, <3>3 DEF Progress
    <2>2. CASE lane # me.lane
      BY <1>a, <1>b, <1>c, <1>1, <1>11, <1>13, <2>2, OtherProgress
    <2> QED
      BY <2>1, <2>2
  <1>19. ASSUME NEW lane \in LaneIds, NEW position \in 0..(n - 1)
         PROVE  IF position < from + Progress(lane)'
                THEN memory'[lane * n + position] = pass + 1
                ELSE IF pass > 0 THEN memory'[lane * n + position] = pass
                ELSE memory'[lane * n + position] \in {ZERO, Stale}
    <2>1. PICK i : i = lane * n + position
      OBVIOUS
    <2>2. i \in 0..(blocks - 1)
      <3>1. i \in 0..(g.total - 1)
        BY <1>a, <1>2, <2>1, CellInArena
      <3> QED
        BY <1>7, <1>8, <3>1
    <2>3. IF position < from + Progress(lane) THEN memory[i] = pass + 1
          ELSE IF pass > 0 THEN memory[i] = pass ELSE memory[i] \in {ZERO, Stale}
      BY <1>a, <1>2, <2>1 DEF SlicesInStep
    <2>4. CASE lane = me.lane /\ position = now
      <3>1. i = at /\ Progress(lane)' = me.index + 1 /\ position < from + (me.index + 1)
        BY <1>3, <1>4, <1>5, <1>18, <2>1, <2>4
      <3> QED
        BY <1>10, <2>1, <3>1
    <2>5. CASE lane # me.lane
      <3>1. i # at
        BY <1>a, <1>2, <1>3, <1>4, <1>5, <2>1, <2>5, CellsApart
      <3> QED
        BY <1>10, <1>18, <2>1, <2>2, <2>3, <2>5, <3>1
    <2>6. CASE lane = me.lane /\ position # now
      <3>1. i # at
        BY <1>a, <1>2, <1>3, <1>4, <1>5, <2>1, <2>6, CellsApart
      <3>2. Progress(lane)' = me.index + 1 /\ Progress(lane) = me.index
        BY <1>3, <1>18, <2>6
      <3>3. position < from + (me.index + 1) <=> position < from + me.index
        BY <1>3, <1>4, <2>6
      <3> QED
        BY <1>10, <2>1, <2>2, <2>3, <3>1, <3>2, <3>3
    <2> QED
      BY <2>4, <2>5, <2>6
  <1>20. ASSUME NEW v \in DOMAIN workers', ~Finished(v)', independent'
         PROVE  workers'[v].address_counter = IF workers'[v].index = First' THEN 0
                                              ELSE ((workers'[v].index - 1) \div BLOCK_WORDS) + 1
    <2>1. CASE v = w
      <3>1. me.address_counter = IF me.index = First THEN 0 ELSE ((me.index - 1) \div BLOCK_WORDS) + 1
        BY <1>a, <1>b, <1>c, <1>1, <1>20 DEF SlicesInStep
      <3>2. PICK i, b \in Nat : i = me.index /\ b = BLOCK_WORDS /\ b > 2
        BY <1>3, Argon2Assumption
      <3>3. First \in {0, 2} /\ First <= i
        BY <1>3, <3>2 DEF First
      <3>4. PICK counter, f : counter = me.address_counter /\ f = First
        OBVIOUS
      <3>5. (IF i % b = 0 \/ counter = 0 THEN counter + 1 ELSE counter) = (i \div b) + 1
        <4>1. f \in {0, 2} /\ f <= i
          BY <3>3, <3>4
        <4>2. CASE i = f
          <5>1. counter = 0 /\ i <= 2
            BY <3>1, <3>2, <3>4, <4>1, <4>2
          <5>2. i \div b = 0
            BY <3>2, <5>1, Refreshing
          <5> QED
            BY <5>1, <5>2
        <4>3. CASE i # f
          <5>1. i > 0 /\ counter = ((i - 1) \div b) + 1
            BY <3>1, <3>2, <3>4, <4>1, <4>3
          <5>2. /\ (i - 1) \div b \in Nat
                /\ i % b = 0 => ((i - 1) \div b) + 1 = i \div b
                /\ i % b # 0 => (i - 1) \div b = i \div b
            BY <3>2, <5>1, Refreshing
          <5> QED
            BY <5>1, <5>2
        <4> QED
          BY <4>2, <4>3
      <3>6. Refreshed(w) = (i \div b) + 1
        <4>1. Refreshed(w) = IF me.index % BLOCK_WORDS = 0 \/ me.address_counter = 0
                             THEN me.address_counter + 1 ELSE me.address_counter
          BY <1>c, <1>1, <1>20 DEF Refreshed
        <4>2. Refreshed(w) = IF i % b = 0 \/ counter = 0 THEN counter + 1 ELSE counter
          BY <3>2, <3>4, <4>1
        <4> QED
          BY <3>5, <4>2
      <3>7. i + 1 # First' /\ (i + 1) - 1 = i
        BY <1>c, <3>2, <3>3
      <3> QED
        BY <1>13, <2>1, <3>2, <3>6, <3>7
    <2>2. CASE v # w
      <3>1. workers'[v] = workers[v] /\ v \in DOMAIN workers
        BY <1>11, <1>20, <2>2
      <3>2. ~Finished(v)
        BY <1>20, <3>1 DEF Finished
      <3> QED
        BY <1>a, <1>c, <1>20, <3>1, <3>2 DEF SlicesInStep
    <2> QED
      BY <2>1, <2>2
  <1>21. SlicesInStep'
    BY <1>b, <1>c, <1>2, <1>19, <1>20 DEF SlicesInStep
  <1> QED
    BY <1>14, <1>15, <1>16, <1>17, <1>21 DEF LaneInv

-----------------------------------------------------------------------------
(* The theorems.                                                            *)

LEMMA LaneStepInv == LaneInv /\ [LaneNext]_laneVars => LaneInv'
  <1> SUFFICES ASSUME LaneInv, [LaneNext]_laneVars
               PROVE  LaneInv'
    OBVIOUS
  <1>1. CASE LaneCall
    BY <1>1, CallKeeps DEF LaneCall
  <1>2. CASE FirstBlock
    BY <1>2, FirstBlockKeeps
  <1>3. ASSUME NEW threads \in Threads, StartSlice(threads)
        PROVE  LaneInv'
    BY <1>3, StartSliceKeeps
  <1>4. CASE EndSlice
    BY <1>4, EndSliceKeeps
  <1>5. CASE Finish
    BY <1>5, FinishKeeps
  <1>6. CASE Wipe
    BY <1>6, WipeKeeps
  <1>7. ASSUME NEW w \in DOMAIN workers, NEW x \in Words, NEW j2 \in SecondWords, FillBlock(w, x, j2)
        PROVE  LaneInv'
    BY <1>7, FillBlockKeeps
  <1>8. ASSUME NEW w \in DOMAIN workers, NextLane(w)
        PROVE  LaneInv'
    BY <1>8, NextLaneKeeps
  <1>9. CASE /\ UNCHANGED <<entry, g, phase, pass, slice, threaded, workers, seeded, memory, result>>
             /\ failed' \in BOOLEAN
    <2>1. /\ First' = First /\ seg_start' = seg_start /\ LaneIds' = LaneIds
          /\ independent' = independent /\ (GeometryOK <=> GeometryOK')
      BY <1>9 DEF GeometryOK, First, seg_start, LaneIds, independent
    <2>2. LaneTypeOK'
      BY <1>9, <2>1 DEF LaneInv, LaneTypeOK
    <2>3. ArenaOK' /\ SeedingOK' /\ PassOK' /\ ArenaWiped'
      BY <1>9, <2>1 DEF LaneInv, ArenaOK, SeedingOK, PassOK, ArenaWiped
    <2>4. BatchesOK'
      BY <1>9, <2>1 DEF LaneInv, BatchesOK
    <2>5. SlicesInStep'
      <3>1. \A lane : Progress(lane)' = Progress(lane)
        BY <1>9, <2>1 DEF Progress
      <3>2. \A w : Finished(w)' <=> Finished(w)
        BY <1>9 DEF Finished
      <3> QED
        BY <1>9, <2>1, <3>1, <3>2 DEF LaneInv, SlicesInStep
    <2> QED
      BY <2>2, <2>3, <2>4, <2>5 DEF LaneInv
  <1>10. CASE ModuleFails
    BY <1>9, <1>10 DEF ModuleFails
  <1>11. CASE UNCHANGED laneVars
    <2>1. failed' \in BOOLEAN
      BY <1>11 DEF LaneInv, LaneTypeOK, laneVars
    <2> QED
      BY <1>9, <1>11, <2>1 DEF laneVars
  <1> QED
    BY <1>1, <1>2, <1>3, <1>4, <1>5, <1>6, <1>7, <1>8, <1>10, <1>11
    DEF LaneNext, LaneMain, LaneWorker

(* The arena, the batches of the threads and how far each is stay together  *)
(* through every call, whatever the parameters, the caller's arena, the     *)
(* number of threads and the words that address (argon2.rs run, fill,       *)
(* fill_slice, fill_slice_threaded, fill_segment).                          *)
THEOREM LaneInvariant == LaneSpec => []LaneInv
  <1>1. LaneInit => LaneInv
    BY LaneInitInv
  <1>2. LaneInv /\ [LaneNext]_laneVars => LaneInv'
    BY LaneStepInv
  <1> QED
    BY <1>1, <1>2, PTL DEF LaneSpec

(* Every slice is filled in every lane before the next is begun, each block *)
(* once in a pass and from the address block of its position, however the   *)
(* lanes are dealt to threads (argon2.rs fill_slice_threaded).              *)
THEOREM FilledInStep == LaneSpec => []SlicesInStep
  <1>1. LaneInv => SlicesInStep
    BY DEF LaneInv
  <1> QED
    BY <1>1, LaneInvariant, PTL

(* Every block that a segment mixes is found by the view it reads through,  *)
(* is outside every segment another thread may be writing, and holds what   *)
(* the sequential algorithm reads there (argon2.rs Gaps::get, Around::get,  *)
(* reference_index).                                                        *)
THEOREM ThreadsReadSettled == LaneSpec => []ReadsSettled
  <1>1. LaneInv => ReadsSettled
    BY InvSettles
  <1> QED
    BY <1>1, LaneInvariant, PTL

(* However the call ends, the blocks it used are zero, the others as they   *)
(* were, and no tag is made from a lane that a pass has not filled          *)
(* (argon2.rs run, wipe).                                                   *)
THEOREM NothingLeft == LaneSpec => []ArenaWiped
  <1>1. LaneInv => ArenaWiped
    BY DEF LaneInv
  <1> QED
    BY <1>1, LaneInvariant, PTL
=============================================================================
