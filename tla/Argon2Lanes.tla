---------------------------- MODULE Argon2Lanes -----------------------------
(***************************************************************************)
(* The memory of Argon2 (ic-kdf/src/argon2.rs): the arena, the threads that *)
(* fill one slice of it at a time, each a batch of lanes, the two views     *)
(* through which a segment reads the rest of the arena, and what becomes of *)
(* the arena when the call returns, an error included.                      *)
(*                                                                          *)
(* The content of a block is the number of passes that have filled it,      *)
(* which is what decides whether a read sees what the sequential algorithm  *)
(* would have read.  The words j1 and j2 that pick the reference block are  *)
(* pseudorandom and therefore arbitrary here.                               *)
(***************************************************************************)
EXTENDS Integers, Sequences, FiniteSets

CONSTANTS
    Params,         \* the Argon2Params a caller may pass
    Provided,       \* the numbers of blocks a caller's arena may have
    MaxThreads,     \* what available_parallelism may return, at most
    WordValues,     \* the values of a word that addresses a block (2^32)
    BLOCK_WORDS     \* words in a block, addresses in an address block (128)

ASSUME Argon2Assumption ==
    /\ Params \subseteq [memory_kib : Nat, passes : Nat, lanes : Nat]
    /\ Provided \subseteq Nat
    /\ MaxThreads \in Nat \ {0}
    /\ WordValues \in Nat \ {0}
    /\ BLOCK_WORDS \in Nat \ 0..2

SLICES == 4

Entries == {"argon2_versioned", "argon2_with_memory", "fill_memory"}
Variants == {"Argon2d", "Argon2i", "Argon2id"}
Versions == {"V0x10", "V0x13"}
Errors == {"ModuleErrorState", "InvalidParameter", "InvalidLength"}

\* What a block can hold besides the number of passes that have filled it:
\* what the caller left in it, and what was mixed from no filled block.
ZERO == 0
Stale == -1
Junk == -2

VARIABLES
    entry,      \* the function called
    g,          \* its Geometry
    phase,      \* where the calling thread is
    pass,
    slice,
    threaded,   \* the slice is being filled by fill_slice_threaded
    workers,    \* the threads of the slice: lane, last lane, index, address_counter
    seeded,     \* how many of the first two blocks of the lanes are written
    memory,     \* the arena
    failed,     \* the module is in its error state
    result

laneVars == <<entry, g, phase, pass, slice, threaded, workers, seeded, memory, failed, result>>

-----------------------------------------------------------------------------
(* Geometry *)

LaneMin(a, b) == IF a < b THEN a ELSE b
DivCeil(a, b) == (a + b - 1) \div b

block_count(p) ==
    LET lanes == IF p.lanes = 0 THEN 1 ELSE p.lanes
        kib == IF p.memory_kib < 8 * lanes THEN 8 * lanes ELSE p.memory_kib
    IN  (kib \div (SLICES * lanes)) * (SLICES * lanes)

validate(p) == p.lanes >= 1 /\ p.passes >= 1 /\ p.memory_kib >= 8 * p.lanes

Geometry(variant, version, p) ==
    [variant |-> variant, version |-> version, lanes |-> p.lanes, passes |-> p.passes,
     total |-> block_count(p), lane_len |-> block_count(p) \div p.lanes,
     segment_len |-> (block_count(p) \div p.lanes) \div SLICES]

NoGeometry == [lanes |-> 0]

\* Argon2id addresses by data from the third slice of the first pass on.
independent ==
    \/ g.variant = "Argon2i"
    \/ g.variant = "Argon2id" /\ pass = 0 /\ slice < 2

seg_start == slice * g.segment_len
First == IF pass = 0 /\ slice = 0 THEN 2 ELSE 0

-----------------------------------------------------------------------------
(* Where a fill reads *)

\* x is the upper half of the square of j1, which can be any word; of j2 only
\* the remainder by the number of lanes matters.
Words == 0..(WordValues - 1)
SecondWords == 0..g.lanes

\* Mutant: counts the blocks of the current segment for every lane.
reference_area_AnyLane(lane, ref_lane, index) ==
    IF pass = 0 THEN slice * g.segment_len + index - 1
    ELSE g.lane_len - g.segment_len + index - 1

\* How many finished blocks a position can see, and which of them x picks.
reference_area(lane, ref_lane, index) ==
    LET at_start == IF index = 0 THEN 1 ELSE 0 IN
    IF pass = 0
    THEN IF slice = 0 THEN index - 1
         ELSE IF ref_lane = lane THEN slice * g.segment_len + index - 1
         ELSE slice * g.segment_len - at_start
    ELSE IF ref_lane = lane THEN g.lane_len - g.segment_len + index - 1
         ELSE g.lane_len - g.segment_len - at_start

reference_index(x, j2, lane, index) ==
    LET ref_lane == IF pass = 0 /\ slice = 0 THEN lane ELSE j2 % g.lanes
        area == reference_area(lane, ref_lane, index)
        z == area - 1 - ((area * x) \div WordValues)
        start == IF pass = 0 \/ slice = SLICES - 1 THEN 0 ELSE (slice + 1) * g.segment_len
    IN  [lane |-> ref_lane, position |-> (start + z) % g.lane_len]

previous(position) == IF position = 0 THEN g.lane_len - 1 ELSE position - 1

\* The two views of everything outside a segment.  Each gives the index in
\* the arena of the block it returns, or NoBlock for the block of zeros.
NoBlock == -1

\* Around: the arena before the segment of lane own, and after it.
Around(own, lane, position) ==
    LET at == own * g.lane_len + seg_start
        index == lane * g.lane_len + position
        offset == index - (at + g.segment_len)
    IN  IF index < at THEN index
        ELSE IF offset >= 0 /\ index < g.total THEN index ELSE NoBlock

\* Gaps: gap k runs from the end of lane k-1's segment to the start of lane k's.
GapStart(k) == IF k = 0 THEN 0 ELSE (k - 1) * g.lane_len + seg_start + g.segment_len
GapEnd(k) == IF k = g.lanes THEN g.total ELSE k * g.lane_len + seg_start

Gaps(lane, position) ==
    LET before == position < seg_start
        gap == IF before THEN lane ELSE lane + 1
        offset == IF before THEN (GapEnd(lane) - GapStart(lane)) - (seg_start - position)
                  ELSE position - (seg_start + g.segment_len)
    IN  IF offset >= 0 /\ GapStart(gap) + offset < GapEnd(gap)
        THEN GapStart(gap) + offset ELSE NoBlock

read(own, lane, position) ==
    IF lane = own /\ position \in seg_start..(seg_start + g.segment_len - 1)
    THEN own * g.lane_len + position
    ELSE IF threaded THEN Gaps(lane, position) ELSE Around(own, lane, position)

Content(at) == IF at = NoBlock THEN ZERO ELSE memory[at]

\* One compression, abstractly: mixing filled blocks gives a block filled in
\* this pass, and anything else spoils it.
compress(inputs) == IF \A c \in inputs : c > 0 THEN pass + 1 ELSE Junk

-----------------------------------------------------------------------------
(* The calling thread *)

LaneInit ==
    /\ entry = "none"
    /\ g = NoGeometry
    /\ phase = "idle"
    /\ pass = 0
    /\ slice = 0
    /\ threaded = FALSE
    /\ workers = <<>>
    /\ seeded = 0
    /\ memory = <<>>
    /\ failed = FALSE
    /\ result = "none"

\* A call: everything up to the first write to the arena.  An error before
\* the geometry is known leaves a caller's arena alone; one after it, from
\* inside fill, is returned by run through wipe.
Call(e, variant, version, p, provided, tag_ok, salt_ok, alloc_ok) ==
    LET total == block_count(p)
        blocks == IF e = "argon2_versioned" THEN total ELSE provided
        early == IF failed THEN "ModuleErrorState"
                 ELSE IF e = "argon2_versioned" /\ ~(validate(p) /\ alloc_ok) THEN "InvalidParameter"
                 ELSE IF e # "fill_memory" /\ ~tag_ok THEN "InvalidLength"
                 ELSE IF ~validate(p) THEN "InvalidParameter"
                 ELSE IF blocks < total THEN "InvalidLength"
                 ELSE "none"
    IN
    /\ phase = "idle"
    /\ entry' = e
    /\ memory' = [i \in 0..(blocks - 1) |-> IF e = "argon2_versioned" THEN ZERO ELSE Stale]
    /\ IF early # "none"
       THEN phase' = "done" /\ result' = early /\ UNCHANGED g
       ELSE /\ g' = Geometry(variant, version, p)
            /\ result' = IF salt_ok THEN "none" ELSE "InvalidParameter"
            /\ phase' = IF salt_ok THEN "seed"
                        ELSE IF e = "fill_memory" THEN "done" ELSE "wipe"
    /\ UNCHANGED <<pass, slice, threaded, workers, seeded, failed>>

\* Mutant: an error on the way is returned without the wipe.
FirstBlock_NoWipe ==
    /\ phase = "seed"
    /\ seeded < 2 * g.lanes
    /\ IF failed
       THEN result' = "ModuleErrorState" /\ phase' = "done" /\ UNCHANGED <<seeded, memory>>
       ELSE /\ memory' = [memory EXCEPT ![(seeded \div 2) * g.lane_len + (seeded % 2)] = 1]
            /\ seeded' = seeded + 1
            /\ phase' = IF seeded' = 2 * g.lanes THEN "slice" ELSE phase
            /\ UNCHANGED result
    /\ UNCHANGED <<entry, g, pass, slice, threaded, workers, failed>>

\* H0 and the first two blocks of every lane.  Every hash on the way refuses
\* once the module has failed, and fill returns that error.
FirstBlock ==
    /\ phase = "seed"
    /\ seeded < 2 * g.lanes
    /\ IF failed
       THEN /\ result' = "ModuleErrorState"
            /\ phase' = IF entry = "fill_memory" THEN "done" ELSE "wipe"
            /\ UNCHANGED <<seeded, memory>>
       ELSE /\ memory' = [memory EXCEPT ![(seeded \div 2) * g.lane_len + (seeded % 2)] = 1]
            /\ seeded' = seeded + 1
            /\ phase' = IF seeded' = 2 * g.lanes THEN "slice" ELSE phase
            /\ UNCHANGED result
    /\ UNCHANGED <<entry, g, pass, slice, threaded, workers, failed>>

\* fill_slice: one lane after another, or batches of lanes on scoped threads.
StartSlice(threads) ==
    LET on_threads == g.lanes > 1 /\ threads > 1
        per_thread == IF on_threads THEN DivCeil(g.lanes, LaneMin(threads, g.lanes)) ELSE g.lanes
    IN
    /\ phase = "slice"
    /\ phase' = "fill"
    /\ threaded' = on_threads
    /\ workers' = [w \in 1..DivCeil(g.lanes, per_thread) |->
                     [lane |-> (w - 1) * per_thread,
                      last |-> LaneMin(w * per_thread, g.lanes) - 1,
                      index |-> First, address_counter |-> 0]]
    /\ UNCHANGED <<entry, g, pass, slice, seeded, memory, failed, result>>

\* The scope ends when every thread has: the next slice, the next pass, or
\* the end of fill.
Finished(w) == workers[w].lane > workers[w].last

\* Mutant: the next slice is begun when the first thread is through.
EndSlice_First ==
    /\ phase = "fill"
    /\ \E w \in DOMAIN workers : Finished(w)
    /\ workers' = <<>>
    /\ slice' = (slice + 1) % SLICES
    /\ pass' = IF slice' = 0 THEN pass + 1 ELSE pass
    /\ phase' = IF pass' < g.passes THEN "slice" ELSE "finish"
    /\ UNCHANGED <<entry, g, threaded, seeded, memory, failed, result>>

EndSlice ==
    /\ phase = "fill"
    /\ \A w \in DOMAIN workers : Finished(w)
    /\ workers' = <<>>
    /\ slice' = (slice + 1) % SLICES
    /\ pass' = IF slice' = 0 THEN pass + 1 ELSE pass
    /\ phase' = IF pass' < g.passes THEN "slice" ELSE "finish"
    /\ UNCHANGED <<entry, g, threaded, seeded, memory, failed, result>>

\* run's tag, from the last block of every lane; fill_memory returns the
\* arena as it is.
LastBlocks == {lane * g.lane_len + g.lane_len - 1 : lane \in 0..(g.lanes - 1)}

Finish ==
    /\ phase = "finish"
    /\ IF entry = "fill_memory"
       THEN phase' = "done" /\ result' = "Ok"
       ELSE /\ phase' = "wipe"
            /\ result' = CASE failed -> "ModuleErrorState"
                           [] ~failed /\ (\A i \in LastBlocks : memory[i] = g.passes) -> "Ok"
                           [] OTHER -> "wrong tag"
    /\ UNCHANGED <<entry, g, pass, slice, threaded, workers, seeded, memory, failed>>

\* The blocks that were used, shared out over threads that are joined.
Wipe ==
    /\ phase = "wipe"
    /\ memory' = [i \in DOMAIN memory |-> IF i < g.total THEN ZERO ELSE memory[i]]
    /\ phase' = "done"
    /\ UNCHANGED <<entry, g, pass, slice, threaded, workers, seeded, failed, result>>

-----------------------------------------------------------------------------
(* A thread of a slice *)

\* The address block is refreshed every BLOCK_WORDS positions, and at the
\* first one whichever that is.
Refreshed(w) ==
    LET me == workers[w] IN
    IF independent /\ (me.index % BLOCK_WORDS = 0 \/ me.address_counter = 0)
    THEN me.address_counter + 1 ELSE me.address_counter

FillBlock(w, x, j2) ==
    LET lane == workers[w].lane
        position == seg_start + workers[w].index
        ref == reference_index(x, j2, lane, workers[w].index)
        at == lane * g.lane_len + position
        inputs == {Content(read(lane, lane, previous(position))),
                   Content(read(lane, ref.lane, ref.position))}
        old == IF pass # 0 /\ g.version = "V0x13" THEN {memory[at]} ELSE {}
    IN
    /\ phase = "fill"
    /\ w \in DOMAIN workers
    /\ ~Finished(w)
    /\ workers[w].index < g.segment_len
    /\ memory' = [memory EXCEPT ![at] = compress(inputs \cup old)]
    /\ workers' = [workers EXCEPT ![w] = [lane |-> lane, last |-> @.last, index |-> @.index + 1,
                                          address_counter |-> Refreshed(w)]]
    /\ UNCHANGED <<entry, g, phase, pass, slice, threaded, seeded, failed, result>>

\* fill_segment returns, at once where the two first blocks are the segment,
\* and the thread takes the next lane of its batch.
NextLane(w) ==
    /\ phase = "fill"
    /\ w \in DOMAIN workers
    /\ ~Finished(w)
    /\ workers[w].index = g.segment_len
    /\ workers' = [workers EXCEPT ![w] = [lane |-> @.lane + 1, last |-> @.last, index |-> First,
                                          address_counter |-> 0]]
    /\ UNCHANGED <<entry, g, phase, pass, slice, threaded, seeded, memory, failed, result>>

\* Some other operation of the process brings the module down.
ModuleFails ==
    /\ ~failed
    /\ failed' = TRUE
    /\ UNCHANGED <<entry, g, phase, pass, slice, threaded, workers, seeded, memory, result>>

Threads == 1..MaxThreads

LaneCall ==
    \E e \in Entries, variant \in Variants, version \in Versions, p \in Params,
       provided \in Provided, tag_ok, salt_ok, alloc_ok \in BOOLEAN :
        Call(e, variant, version, p, provided, tag_ok, salt_ok, alloc_ok)

LaneMain ==
    FirstBlock \/ (\E n \in Threads : StartSlice(n)) \/ EndSlice \/ Finish \/ Wipe

LaneWorker(w) == (\E x \in Words, j2 \in SecondWords : FillBlock(w, x, j2)) \/ NextLane(w)

LaneNext ==
    LaneCall \/ LaneMain \/ (\E w \in DOMAIN workers : LaneWorker(w)) \/ ModuleFails

LaneSpec == LaneInit /\ [][LaneNext]_laneVars

-----------------------------------------------------------------------------
(* Properties *)

LaneIds == 0..(g.lanes - 1)

\* The thread whose batch a lane is in: the first that goes as far as it.
ThreadOf(threads, lane) ==
    CHOOSE w \in DOMAIN threads :
        /\ lane <= threads[w].last
        /\ \A v \in DOMAIN threads : lane <= threads[v].last => w <= v

\* How much of a lane's current segment is filled.
Progress(lane) ==
    IF phase = "slice" THEN First
    ELSE LET me == workers[ThreadOf(workers, lane)]
         IN  IF lane < me.lane THEN g.segment_len
             ELSE IF lane = me.lane THEN me.index ELSE First

\* How many passes have filled a block, by the sequential algorithm, when
\* lane own is at position now of it.
Due(own, now, lane, position) ==
    IF position < seg_start \/ (lane = own /\ position < now) THEN pass + 1 ELSE pass

(* Every slice is filled in every lane before the next is begun, whatever   *)
(* the number of threads and the batches they take: each lane is in one     *)
(* batch, no block is skipped or filled twice in a pass, and the address    *)
(* block in use is that of the position (argon2.rs fill, fill_slice,        *)
(* fill_slice_threaded, fill_segment).                                      *)
SlicesInStep ==
    phase \in {"slice", "fill"} =>
        /\ \A lane \in LaneIds : \A position \in 0..(g.lane_len - 1) :
              LET n == memory[lane * g.lane_len + position]
                  done == position < seg_start + Progress(lane)
              IN  IF done THEN n = pass + 1
                  ELSE IF pass > 0 THEN n = pass ELSE n \in {ZERO, Stale}
        /\ \A w \in DOMAIN workers : ~Finished(w) /\ independent =>
              workers[w].address_counter =
                IF workers[w].index = First THEN 0
                ELSE ((workers[w].index - 1) \div BLOCK_WORDS) + 1

(* Threads do not change the hash: whatever j1 and j2 are, the two blocks   *)
(* that a segment mixes are found by the view it reads through, neither is  *)
(* in a segment that another thread may be writing, and each holds what     *)
(* the sequential algorithm would have read, so never what an earlier use   *)
(* left in the arena (argon2.rs: "Never asked for a block inside any lane's *)
(* current segment").                                                       *)
ReadsSettled ==
    phase = "fill" =>
        \A w \in DOMAIN workers : ~Finished(w) /\ workers[w].index < g.segment_len =>
            LET lane == workers[w].lane
                now == seg_start + workers[w].index
                Settled(l, position) ==
                    LET at == read(lane, l, position) IN
                    /\ at = l * g.lane_len + position
                    /\ l # lane => position \notin seg_start..(seg_start + g.segment_len - 1)
                    /\ memory[at] = Due(lane, now, l, position)
                    /\ memory[at] > 0
            IN  /\ Settled(lane, previous(now))
                /\ \A x \in Words, j2 \in SecondWords :
                      LET ref == reference_index(x, j2, lane, workers[w].index)
                      IN  Settled(ref.lane, ref.position) /\ ref # [lane |-> lane, position |-> now]

(* Nothing derived from a password is left in the arena: however run ends,  *)
(* the blocks it used are zero, and blocks of the arena beyond them, or an  *)
(* arena that was refused, are as the caller left them; a tag is only made  *)
(* from lanes that every pass has filled (argon2.rs: "Wipe the arena        *)
(* whatever happened").  The hash on the stack, which is not wiped when a   *)
(* first block fails, is no part of the arena.                              *)
ArenaWiped ==
    /\ result # "wrong tag"
    /\ phase = "done" /\ entry = "argon2_with_memory" =>
          \A i \in DOMAIN memory :
              memory[i] = IF g # NoGeometry /\ i < g.total THEN ZERO ELSE Stale
    /\ phase = "done" /\ entry = "argon2_versioned" =>
          \A i \in DOMAIN memory : memory[i] = ZERO
    /\ phase = "done" /\ entry = "fill_memory" /\ result = "Ok" =>
          \A i \in DOMAIN memory : memory[i] = IF i < g.total THEN g.passes ELSE Stale

(* The inductive invariant behind the three.                                *)
LanePhases == {"idle", "seed", "slice", "fill", "finish", "wipe", "done"}
Geometries == [variant : Variants, version : Versions, lanes : Nat, passes : Nat,
               total : Nat, lane_len : Nat, segment_len : Nat]

GeometryOK ==
    /\ g \in Geometries
    /\ g.lanes >= 1 /\ g.passes >= 1 /\ g.segment_len >= 2
    /\ g.lane_len = SLICES * g.segment_len
    /\ g.total = g.lanes * g.lane_len

LaneTypeOK ==
    /\ entry \in Entries \cup {"none"}
    /\ phase \in LanePhases
    /\ pass \in Nat /\ slice \in 0..(SLICES - 1) /\ seeded \in Nat
    /\ threaded \in BOOLEAN /\ failed \in BOOLEAN
    /\ phase = "idle" => g = NoGeometry /\ pass = 0 /\ slice = 0 /\ seeded = 0
    /\ phase \in {"seed", "slice", "fill", "finish", "wipe"} => GeometryOK /\ entry \in Entries
    /\ phase = "wipe" => entry # "fill_memory"
    /\ phase # "fill" => workers = <<>>

\* The arena holds the blocks of the geometry and, if it is the caller's,
\* perhaps more, which stay as they were.
ArenaOK ==
    phase \in {"seed", "slice", "fill", "finish", "wipe"} =>
        /\ \E blocks \in Provided \cup {g.total} :
              /\ memory \in [0..(blocks - 1) -> Int]
              /\ g.total <= blocks
              /\ entry = "argon2_versioned" => blocks = g.total
        /\ \A i \in DOMAIN memory : i >= g.total => memory[i] = Stale

\* The first two blocks of the lanes, one after the other.
SeedingOK ==
    phase = "seed" =>
        /\ pass = 0 /\ slice = 0 /\ seeded < 2 * g.lanes
        /\ \A lane \in LaneIds : \A position \in 0..(g.lane_len - 1) :
              LET n == memory[lane * g.lane_len + position] IN
              IF position < 2 /\ 2 * lane + position < seeded THEN n = 1 ELSE n \in {ZERO, Stale}

\* The batches of the threads follow one another and end with the last lane.
BatchesOK ==
    phase = "fill" =>
        /\ \E count \in 1..g.lanes :
              /\ DOMAIN workers = 1..count
              /\ workers[count].last = g.lanes - 1
        /\ \A w \in DOMAIN workers :
              /\ workers[w] \in [lane : Nat, last : Nat, index : Nat, address_counter : Nat]
              /\ workers[w].lane <= workers[w].last + 1 /\ workers[w].last < g.lanes
              /\ First <= workers[w].index /\ workers[w].index <= g.segment_len
              /\ \A v \in DOMAIN workers : v < w =>
                    workers[v].last < workers[w].lane /\ workers[v].last < workers[w].last

PassOK ==
    /\ phase \in {"slice", "fill"} => pass < g.passes
    /\ phase = "finish" =>
          \A lane \in LaneIds : \A position \in 0..(g.lane_len - 1) :
              memory[lane * g.lane_len + position] = g.passes

LaneInv ==
    /\ LaneTypeOK /\ ArenaOK /\ SeedingOK /\ BatchesOK /\ PassOK
    /\ SlicesInStep /\ ArenaWiped
=============================================================================
