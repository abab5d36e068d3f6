---------------------------- MODULE StreamingHash ----------------------------
(***************************************************************************)
(* The incremental hashes and MACs (ic-hash, ic-mac): a message fed in      *)
(* pieces of any length, a buffer for what does not fill a block, and an    *)
(* end of the message that every construction marks in its own way.         *)
(*                                                                          *)
(* Byte i of the message is the number i.  A compression or a permutation   *)
(* is symbolic: a chaining value is the sequence of what was compressed     *)
(* into it, so that two are equal exactly when the inputs were.             *)
(***************************************************************************)
EXTENDS Integers, Sequences

CONSTANTS
    BlockLen,       \* bytes in a block (64, 128 or 16 in the code)
    LengthBytes,    \* bytes of the length that ends a SHA-2 message (8 or 16)
    DigestLen,      \* bytes of the digest that HMAC hashes again (32)
    Rate,           \* the rate of the sponge (72 to 168)
    ChunkBlocks,    \* blocks in a chunk of BLAKE3 (16)
    MaxLen,         \* bound on the length of a message
    MaxPiece,       \* bound on the bytes of one update or one read
    MaxOut          \* bound on the bytes read from an output stream

ASSUME HashAssumption ==
    /\ BlockLen \in Nat /\ LengthBytes \in Nat /\ DigestLen \in Nat
    /\ BlockLen > DigestLen + LengthBytes
    /\ Rate \in Nat \ {0} /\ ChunkBlocks \in Nat \ {0}
    /\ MaxLen \in Nat /\ MaxPiece \in Nat /\ MaxOut \in Nat

Kinds == {"sha256", "sha256 ni", "sha512", "hmac", "hmac ni", "poly1305", "blake2", "blake2 keyed",
          "cmac", "sha3", "shake", "x4", "blake3"}
Streams == {"shake", "x4", "blake3"}

\* Bytes that are not of the message.
Zero == 0
Pad80 == -1         \* the byte that begins the padding
PadEnd == -2        \* the last byte of the sponge's padding, 0x80
PadBoth == -3       \* both in one byte
KeyByte == -4
InnerPad == -5      \* a byte of the key, or of its hash, in the inner pad
OuterPad == -6
DigestByte == -7    \* a byte of the digest that was just made
LengthByte(n) == -(10 + n)

VARIABLES
    kind,
    length,     \* bytes of the message so far
    state,      \* the hasher
    stage,      \* absorbing, reading, ended, refused
    digest,     \* what finalize made, with the length it was made of
    output,     \* the bytes read from an output stream, in order
    down        \* the module is in its error state

hashVars == <<kind, length, state, stage, digest, output, down>>

-----------------------------------------------------------------------------
(* Bytes and loops *)

Fewer(a, b) == IF a < b THEN a ELSE b
More(a, b) == IF a < b THEN b ELSE a
Zeros(n) == [i \in 1..n |-> Zero]
From(bytes, i) == SubSeq(bytes, i + 1, Len(bytes))
Leading(bytes, n) == SubSeq(bytes, 1, n)

\* copy_from_slice into buf[at..]; what was there beyond stays.
Overwrite(buf, at, bytes) ==
    [i \in 1..Len(buf) |-> IF i - at \in 1..Len(bytes) THEN bytes[i - at] ELSE buf[i]]

Cut(bytes, size) == [b \in 1..(Len(bytes) \div size) |-> SubSeq(bytes, (b - 1) * size + 1, b * size)]

\* n rounds of a loop whose body does nothing once its work is done.
Rounds(Step(_), s, n) ==
    LET after[j \in 0..n] == IF j = 0 THEN s ELSE Step(after[j - 1]) IN after[n]

Compressed(block, counter, mark) == [block |-> block, counter |-> counter, mark |-> mark]
Plain(blocks) == [b \in 1..Len(blocks) |-> Compressed(blocks[b], 0, "none")]

Fresh(size) == [h |-> <<>>, buf |-> Zeros(size), buffered |-> 0, len |-> 0]

-----------------------------------------------------------------------------
(* SHA-2: a full buffer is compressed at once *)

EagerUpdate(s, data) ==
    LET take == IF s.buffered > 0 THEN Fewer(BlockLen - s.buffered, Len(data)) ELSE 0
        buf == Overwrite(s.buf, s.buffered, Leading(data, take))
        rest == From(data, take)
        whole == Len(rest) - (Len(rest) % BlockLen)
        tail == From(rest, whole)
    IN  IF s.buffered > 0 /\ s.buffered + take < BlockLen
        THEN [s EXCEPT !.buf = buf, !.buffered = @ + take, !.len = @ + Len(data)]
        ELSE [s EXCEPT !.h = @ \o (IF s.buffered > 0 THEN Plain(<<buf>>) ELSE <<>>)
                               \o Plain(Cut(Leading(rest, whole), BlockLen)),
                       !.buf = Overwrite(buf, 0, tail), !.buffered = Len(tail),
                       !.len = @ + Len(data)]

LengthField(n) == [i \in 1..LengthBytes |-> LengthByte(n)]

\* The padding written into the buffer, with a block of its own for the
\* length when the buffer has no room left for it.
Sha256Finalize(s) ==
    LET n == s.buffered
        padded == [i \in 1..BlockLen |-> IF i <= n THEN s.buf[i] ELSE IF i = n + 1 THEN Pad80 ELSE Zero]
        full == n >= BlockLen - LengthBytes
        last == Overwrite(IF full THEN Zeros(BlockLen) ELSE padded, BlockLen - LengthBytes,
                          LengthField(s.len))
    IN  s.h \o (IF full THEN Plain(<<padded>>) ELSE <<>>) \o Plain(<<last>>)

\* The padding fed through update.
Sha512Finalize(s) ==
    LET zeros == ((BlockLen - LengthBytes - 1) + BlockLen - (s.buffered % BlockLen)) % BlockLen
    IN  EagerUpdate(s, <<Pad80>> \o Zeros(zeros) \o LengthField(s.len)).h

\* The last block or two of a message, padded beside the buffer.
pad256(rest, total) ==
    LET end == IF Len(rest) < BlockLen - LengthBytes THEN BlockLen ELSE 2 * BlockLen
    IN  rest \o <<Pad80>> \o Zeros(end - LengthBytes - 1 - Len(rest)) \o LengthField(total)

WholeBlocks(data) == Leading(data, Len(data) - (Len(data) % BlockLen))
Remainder(data) == From(data, Len(data) - (Len(data) % BlockLen))

one_shot_sha_ni(data) ==
    Plain(Cut(WholeBlocks(data) \o pad256(Remainder(data), Len(data)), BlockLen))

-----------------------------------------------------------------------------
(* HMAC: the hash of the outer pad and the hash of the inner pad and the    *)
(* message.  A tag is what the two hashes compressed.                       *)

KeyPad(byte) == [i \in 1..BlockLen |-> byte]
Digest == [i \in 1..DigestLen |-> DigestByte]

absorb_pads == [inner |-> EagerUpdate(Fresh(BlockLen), KeyPad(InnerPad)),
                outer |-> EagerUpdate(Fresh(BlockLen), KeyPad(OuterPad))]

tag(s) == [inner |-> Sha256Finalize(s.inner), outer |-> Sha256Finalize(EagerUpdate(s.outer, Digest))]

\* The end of the inner hash and the one block of the outer hash after its
\* pad, whose padding and length are constants.
hmac_tail(inner, bytes, outer) ==
    [inner |-> inner \o Plain(Cut(bytes, BlockLen)),
     outer |-> outer \o Plain(<<Digest \o <<Pad80>> \o Zeros(BlockLen - DigestLen - 1 - LengthBytes)
                                \o LengthField(BlockLen + DigestLen)>>)]

hmac_sha256_finish(s) ==
    IF s.outer.buffered = 0 /\ s.outer.len = BlockLen
    THEN hmac_tail(s.inner.h, pad256(Leading(s.inner.buf, s.inner.buffered), s.inner.len), s.outer.h)
    ELSE tag(s)

hmac_sha256_one_shot(data) ==
    hmac_tail(Plain(<<KeyPad(InnerPad)>>),
              WholeBlocks(data) \o pad256(Remainder(data), BlockLen + Len(data)),
              Plain(<<KeyPad(OuterPad)>>))

\* Both states from the pads, then all of the message in one update.
hmac_one_shot(data) ==
    tag([absorb_pads EXCEPT !.inner = EagerUpdate(@, data)])

-----------------------------------------------------------------------------
(* Poly1305: what is left at the end is absorbed as a shorter block *)

Poly1305Finalize(s) ==
    s.h \o (IF s.buffered > 0 THEN Plain(<<Leading(s.buf, s.buffered)>>) ELSE <<>>)

-----------------------------------------------------------------------------
(* BLAKE2 and CMAC: a full buffer waits until more input is known to follow *)

\* Mutant: a full buffer is compressed without waiting for more.
LazyUpdate_Eager(s, data, step) ==
    LET take == IF s.buffered > 0 THEN Fewer(BlockLen - s.buffered, Len(data)) ELSE 0
        buf == Overwrite(s.buf, s.buffered, Leading(data, take))
        rest == From(data, take)
        whole == BlockLen * (Len(rest) \div BlockLen)
        blocks == (IF s.buffered > 0 THEN <<buf>> ELSE <<>>) \o Cut(Leading(rest, whole), BlockLen)
    IN  IF s.buffered > 0 /\ s.buffered + take < BlockLen
        THEN [s EXCEPT !.buf = buf, !.buffered = @ + take]
        ELSE [s EXCEPT !.h = @ \o [b \in 1..Len(blocks) |-> Compressed(blocks[b], s.len + b * step, "none")],
                       !.buf = Overwrite(buf, 0, From(rest, whole)), !.buffered = Len(rest) - whole,
                       !.len = @ + Len(blocks) * step]

LazyUpdate(s, data, step) ==
    LET take == IF s.buffered > 0 THEN Fewer(BlockLen - s.buffered, Len(data)) ELSE 0
        buf == Overwrite(s.buf, s.buffered, Leading(data, take))
        rest == From(data, take)
        blocks == (IF s.buffered > 0 THEN <<buf>> ELSE <<>>)
                    \o Cut(Leading(rest, BlockLen * ((More(Len(rest), 1) - 1) \div BlockLen)), BlockLen)
        tail == From(rest, BlockLen * ((More(Len(rest), 1) - 1) \div BlockLen))
    IN  IF s.buffered > 0 /\ (s.buffered + take < BlockLen \/ rest = <<>>)
        THEN [s EXCEPT !.buf = buf, !.buffered = @ + take]
        ELSE [s EXCEPT !.h = @ \o [b \in 1..Len(blocks) |-> Compressed(blocks[b], s.len + b * step, "none")],
                       !.buf = Overwrite(buf, 0, tail), !.buffered = Len(tail),
                       !.len = @ + Len(blocks) * step]

\* len is the counter of bytes compressed, and the last block is zero-padded.
Blake2Update(s, data) == LazyUpdate(s, data, BlockLen)

Blake2Finalize(s) ==
    Append(s.h, Compressed(Leading(s.buf, s.buffered) \o Zeros(BlockLen - s.buffered),
                           s.len + s.buffered, "last"))

CmacUpdate(s, data) == LazyUpdate(s, data, 0)

CmacFinalize(s) ==
    LET padded == [i \in 1..BlockLen |-> IF i <= s.buffered THEN s.buf[i]
                                         ELSE IF i = s.buffered + 1 THEN Pad80 ELSE Zero]
    IN  Append(s.h, IF s.buffered = BlockLen THEN Compressed(s.buf, 0, "K1")
                    ELSE Compressed(padded, 0, "K2"))

-----------------------------------------------------------------------------
(* Keccak: bytes are xored into the state where they belong *)

Xored(old, new) ==
    CASE old = Zero -> new
      [] new = Zero -> old
      [] {old, new} = {Pad80, PadEnd} -> PadBoth

XorInto(buf, at, bytes) ==
    [i \in 1..Len(buf) |-> IF i - at \in 1..Len(bytes) THEN Xored(buf[i], bytes[i - at]) ELSE buf[i]]

Permuted(s) == [s EXCEPT !.h = Append(@, Compressed(s.buf, 0, "none")), !.buf = Zeros(Rate), !.buffered = 0]

\* One round of absorb's loop; the fast path for a whole block is the case
\* where the block is empty and take is the rate.
SpongeAbsorbSome(w) ==
    LET take == Fewer(Rate - w.s.buffered, Len(w.data))
        s == [w.s EXCEPT !.buf = XorInto(@, w.s.buffered, Leading(w.data, take)), !.buffered = @ + take]
    IN  IF w.data = <<>> THEN w
        ELSE [s |-> IF s.buffered = Rate THEN Permuted(s) ELSE s, data |-> From(w.data, take)]

SpongeAbsorb(s, data) == Rounds(SpongeAbsorbSome, [s |-> s, data |-> data], Len(data)).s

SpongeFinish(s) ==
    Permuted([s EXCEPT !.buf = XorInto(XorInto(@, s.buffered, <<Pad80>>), Rate - 1, <<PadEnd>>)])

\* Mutant: every read begins with a permutation.
SqueezeSome_Afresh(w) ==
    LET s == IF w.s.buffered > 0 THEN Permuted(w.s) ELSE w.s
        take == Fewer(Rate - s.buffered, w.wanted)
    IN  IF w.wanted = 0 THEN w
        ELSE [s |-> [s EXCEPT !.buffered = @ + take], wanted |-> w.wanted - take,
              out |-> w.out \o [i \in 1..take |-> [of |-> s.h, at |-> s.buffered + i]]]

\* One round of squeeze's loop: the byte at an offset of a state is named by
\* what was permuted into the state and the offset.
SqueezeSome(w) ==
    LET s == IF w.s.buffered = Rate THEN Permuted(w.s) ELSE w.s
        take == Fewer(Rate - s.buffered, w.wanted)
    IN  IF w.wanted = 0 THEN w
        ELSE [s |-> [s EXCEPT !.buffered = @ + take], wanted |-> w.wanted - take,
              out |-> w.out \o [i \in 1..take |-> [of |-> s.h, at |-> s.buffered + i]]]

Squeeze(s, n) == Rounds(SqueezeSome, [s |-> s, wanted |-> n, out |-> <<>>], n)

\* Keccak over several inputs in step.  A lane that has taken its last block
\* is set aside across the permutations that the longer ones still need.
LaneBlocks(len) == len \div Rate + 1

PaddedBlock(len, step) ==
    LET start == (step - 1) * Rate
        take == Fewer(len - start, Rate)
        block == [i \in 1..Rate |-> IF i <= take THEN start + i ELSE Zero]
    IN  IF step # LaneBlocks(len) THEN block
        ELSE XorInto(XorInto(block, take, <<Pad80>>), Rate - 1, <<PadEnd>>)

X4Absorb(lens, fresh) ==
    LET steps == CHOOSE n \in {LaneBlocks(l) : l \in {lens[i] : i \in DOMAIN lens}} :
                    \A i \in DOMAIN lens : LaneBlocks(lens[i]) <= n
        after[step \in 0..steps] ==
            IF step = 0 THEN [i \in DOMAIN lens |-> fresh]
            ELSE [i \in DOMAIN lens |->
                    IF step > LaneBlocks(lens[i]) THEN after[step - 1][i]
                    ELSE Permuted([after[step - 1][i] EXCEPT
                                     !.buf = XorInto(@, 0, PaddedBlock(lens[i], step))])]
    IN  after[steps]

-----------------------------------------------------------------------------
(* BLAKE3: chunks of blocks, and a tree of chunks *)

NewChunk(counter) == [cv |-> <<>>, counter |-> counter, block |-> Zeros(BlockLen), block_len |-> 0]
ChunkLen(c) == BlockLen * Len(c.cv) + c.block_len

\* The chaining value of a chunk is the sequence of its blocks so far; its
\* first block is the one flagged CHUNK_START.
ChunkUpdateSome(w) ==
    LET c == IF w.c.block_len = BlockLen
             THEN [NewChunk(w.c.counter) EXCEPT !.cv = Append(w.c.cv, Compressed(w.c.block, BlockLen, "none"))]
             ELSE w.c
        take == Fewer(BlockLen - c.block_len, Len(w.data))
    IN  IF w.data = <<>> THEN w
        ELSE [c |-> [c EXCEPT !.block = Overwrite(@, c.block_len, Leading(w.data, take)),
                              !.block_len = @ + take],
              data |-> From(w.data, take)]

ChunkUpdate(c, data) == Rounds(ChunkUpdateSome, [c |-> c, data |-> data], Len(data)).c

ChunkOutput(c) == <<"chunk", c.counter, Append(c.cv, Compressed(c.block, c.block_len, "end"))>>
ParentOutput(left, right) == <<"parent", left, right>>

\* A subtree is merged for every trailing zero bit of the number of chunks.
MergeOne(w) ==
    IF w.total % 2 = 1 THEN w
    ELSE [cv |-> ParentOutput(w.stack[Len(w.stack)], w.cv), total |-> w.total \div 2,
          stack |-> Leading(w.stack, Len(w.stack) - 1)]

AddChunk(stack, cv, total) ==
    LET merged == Rounds(MergeOne, [cv |-> cv, total |-> total, stack |-> stack], Len(stack))
    IN  Append(merged.stack, merged.cv)

Blake3UpdateSome(w) ==
    LET complete == ChunkLen(w.s.chunk) = ChunkBlocks * BlockLen
        total == w.s.chunk.counter + 1
        s == IF complete
             THEN [w.s EXCEPT !.stack = AddChunk(@, ChunkOutput(w.s.chunk), total), !.chunk = NewChunk(total)]
             ELSE w.s
        take == Fewer(ChunkBlocks * BlockLen - ChunkLen(s.chunk), Len(w.data))
    IN  IF w.data = <<>> THEN w
        ELSE [s |-> [s EXCEPT !.chunk = ChunkUpdate(@, Leading(w.data, take))], data |-> From(w.data, take)]

Blake3Update(s, data) == Rounds(Blake3UpdateSome, [s |-> s, data |-> data], Len(data)).s

RootOutput(s) ==
    LET after[remaining \in 0..Len(s.stack)] ==
            IF remaining = Len(s.stack) THEN ChunkOutput(s.chunk)
            ELSE ParentOutput(s.stack[remaining + 1], after[remaining + 1])
    IN  after[0]

\* One byte of the reader: a root block is made when the last is used up.
FillInnerSome(w) ==
    LET r == IF w.s.used = BlockLen THEN [w.s EXCEPT !.block = w.s.counter, !.counter = @ + 1, !.used = 0]
             ELSE w.s
    IN  [s |-> [r EXCEPT !.used = @ + 1],
         out |-> Append(w.out, [of |-> r.block, at |-> r.used + 1])]

FillInner(r, n) == Rounds(FillInnerSome, [s |-> r, out |-> <<>>], n)

-----------------------------------------------------------------------------
(* The hashers *)

\* A key of BLAKE2 is a first block, fed through update.
NewState(k) ==
    CASE k \in {"sha256", "sha256 ni", "sha512", "poly1305", "blake2", "cmac"} -> Fresh(BlockLen)
      [] k \in {"hmac", "hmac ni"} -> absorb_pads
      [] k = "blake2 keyed" -> Blake2Update(Fresh(BlockLen), [i \in 1..BlockLen |-> KeyByte])
      [] k \in {"sha3", "shake", "x4"} -> Fresh(Rate)
      [] k = "blake3" -> [chunk |-> NewChunk(0), stack |-> <<>>]

NoDigest == [of |-> -1, value |-> <<>>]

HashInit ==
    /\ kind \in Kinds
    /\ length = 0
    /\ state = NewState(kind)
    /\ stage = "absorbing"
    /\ digest = NoDigest
    /\ output = <<>>
    /\ down = FALSE

Updated(s, data) ==
    CASE kind \in {"sha256", "sha256 ni", "sha512", "poly1305"} -> EagerUpdate(s, data)
      [] kind \in {"hmac", "hmac ni"} -> [s EXCEPT !.inner = EagerUpdate(@, data)]
      [] kind \in {"blake2", "blake2 keyed"} -> Blake2Update(s, data)
      [] kind = "cmac" -> CmacUpdate(s, data)
      [] kind \in {"sha3", "shake"} -> SpongeAbsorb(s, data)
      [] kind = "blake3" -> Blake3Update(s, data)

\* update never refuses.
HashUpdate(n) ==
    /\ stage = "absorbing"
    /\ kind # "x4"
    /\ length + n <= MaxLen
    /\ length' = length + n
    /\ state' = Updated(state, [i \in 1..n |-> length + i])
    /\ UNCHANGED <<kind, stage, digest, output, down>>

Finalized(s) ==
    CASE kind \in {"sha256", "sha256 ni"} -> Sha256Finalize(s)
      [] kind = "hmac" -> tag(s)
      [] kind = "hmac ni" -> hmac_sha256_finish(s)
      [] kind = "poly1305" -> Poly1305Finalize(s)
      [] kind = "sha512" -> Sha512Finalize(s)
      [] kind \in {"blake2", "blake2 keyed"} -> Blake2Finalize(s)
      [] kind = "cmac" -> CmacFinalize(s)
      [] kind = "sha3" -> SpongeFinish(s).h

\* finalize of a digest or a MAC consumes the hasher, and refuses in the
\* error state.
HashFinalize ==
    /\ stage = "absorbing"
    /\ kind \notin Streams
    /\ IF down
       THEN stage' = "refused" /\ UNCHANGED digest
       ELSE stage' = "ended" /\ digest' = [of |-> length, value |-> Finalized(state)]
    /\ UNCHANGED <<kind, length, state, output, down>>

\* digest of SHA-256 on a CPU with SHA-NI, and mac of HMAC, which on such a
\* CPU takes its fast path for a key of at most a block.
OneShot(n, short_key) ==
    LET data == [i \in 1..n |-> i] IN
    /\ stage = "absorbing"
    /\ kind \in {"sha256 ni", "hmac", "hmac ni"}
    /\ length = 0
    /\ IF down
       THEN stage' = "refused" /\ UNCHANGED digest
       ELSE stage' = "ended" /\ digest' = [of |-> n, value |->
              CASE kind = "sha256 ni" -> one_shot_sha_ni(data)
                [] kind = "hmac ni" /\ short_key -> hmac_sha256_one_shot(data)
                [] OTHER -> hmac_one_shot(data)]
    /\ UNCHANGED <<kind, length, state, output, down>>

\* finalize_reader: the padding is absorbed and the state is ready to be read.
FinalizeReader ==
    /\ stage = "absorbing"
    /\ kind = "shake"
    /\ stage' = "reading"
    /\ state' = SpongeFinish(state)
    /\ digest' = [of |-> length, value |-> state'.h]
    /\ UNCHANGED <<kind, length, output, down>>

\* Lanes of different lengths at once; the one that is followed is the first.
X4(len, others) ==
    LET lanes == X4Absorb(<<len>> \o others, state) IN
    /\ stage = "absorbing"
    /\ kind = "x4"
    /\ stage' = "reading"
    /\ length' = len
    /\ state' = lanes[1]
    /\ digest' = [of |-> len, value |-> lanes[1].h]
    /\ UNCHANGED <<kind, output, down>>

\* BLAKE3's finalize leaves the hasher as it was, so more input may follow.
Blake3Finalize ==
    /\ stage = "absorbing"
    /\ kind = "blake3"
    /\ digest' = IF down THEN NoDigest ELSE [of |-> length, value |-> RootOutput(state)]
    /\ UNCHANGED <<kind, length, state, stage, output, down>>

Blake3FinalizeXof ==
    /\ stage = "absorbing"
    /\ kind = "blake3"
    /\ stage' = "reading"
    /\ digest' = [of |-> length, value |-> RootOutput(state)]
    /\ state' = [block |-> 0, counter |-> 0, used |-> BlockLen]
    /\ UNCHANGED <<kind, length, output, down>>

\* A read refuses in the error state and consumes nothing; the lanes are the
\* library's own and are read without that test.
HashRead(n) ==
    LET got == IF kind = "blake3" THEN FillInner(state, n) ELSE Squeeze(state, n) IN
    /\ stage = "reading"
    /\ Len(output) + n <= MaxOut
    /\ IF down /\ kind # "x4"
       THEN UNCHANGED <<state, output>>
       ELSE state' = got.s /\ output' = output \o got.out
    /\ UNCHANGED <<kind, length, stage, digest, down>>

HashModuleFails ==
    /\ ~down
    /\ down' = TRUE
    /\ UNCHANGED <<kind, length, state, stage, digest, output>>

HashNext ==
    \/ \E n \in 0..MaxPiece : HashUpdate(n)
    \/ HashFinalize
    \/ \E n \in 0..MaxLen, short_key \in BOOLEAN : OneShot(n, short_key)
    \/ FinalizeReader
    \/ \E len, other \in 0..MaxLen : X4(len, <<other, 0>>)
    \/ Blake3Finalize
    \/ Blake3FinalizeXof
    \/ \E n \in 0..MaxPiece : HashRead(n)
    \/ HashModuleFails

HashSpec == HashInit /\ [][HashNext]_hashVars

-----------------------------------------------------------------------------
(* What each construction is defined to compress, from the whole message *)

Message(n) == [i \in 1..n |-> i]
ZeroPadded(bytes, size) == bytes \o Zeros((size - (Len(bytes) % size)) % size)

Sha2Blocks(bytes) ==
    LET n == Len(bytes)
        zeros == CHOOSE z \in 0..(BlockLen - 1) : (n + 1 + z + LengthBytes) % BlockLen = 0
    IN  Plain(Cut(bytes \o <<Pad80>> \o Zeros(zeros) \o LengthField(n), BlockLen))

Poly1305Blocks(bytes) ==
    [b \in 1..((Len(bytes) + BlockLen - 1) \div BlockLen) |->
       Compressed(SubSeq(bytes, (b - 1) * BlockLen + 1, Fewer(b * BlockLen, Len(bytes))), 0, "none")]

SpongeBlocks(n) ==
    LET total == (n \div Rate + 1) * Rate
    IN  Plain(Cut([i \in 1..total |->
                     CASE i <= n -> i
                       [] i = n + 1 /\ i = total -> PadBoth
                       [] i = n + 1 /\ i # total -> Pad80
                       [] i > n + 1 /\ i = total -> PadEnd
                       [] OTHER -> Zero], Rate))

\* Blocks of which the last, perhaps empty, is marked.
MarkedBlocks(bytes, Counter(_), mark) ==
    LET padded == IF bytes = <<>> THEN Zeros(BlockLen) ELSE ZeroPadded(bytes, BlockLen)
        blocks == Cut(padded, BlockLen)
    IN  [b \in 1..Len(blocks) |->
           Compressed(blocks[b], Counter(Fewer(b * BlockLen, Len(bytes))),
                      IF b = Len(blocks) THEN mark ELSE "none")]

Blake2Blocks(bytes) == LET Count(n) == n IN MarkedBlocks(bytes, Count, "last")

CmacBlocks(n) ==
    LET None(m) == 0
        whole == n > 0 /\ n % BlockLen = 0
    IN  MarkedBlocks(IF whole THEN Message(n) ELSE Append(Message(n), Pad80), None,
                     IF whole THEN "K1" ELSE "K2")

\* The tree of BLAKE3: on the left the largest power of two of chunks that
\* leaves something for the right.
Blake3Tree(n) ==
    LET size == ChunkBlocks * BlockLen
        chunks == More(1, (n + size - 1) \div size)
        Chunk(c) ==
            LET bytes == SubSeq(Message(n), c * size + 1, Fewer((c + 1) * size, n))
                blocks == Cut(IF bytes = <<>> THEN Zeros(BlockLen) ELSE ZeroPadded(bytes, BlockLen), BlockLen)
            IN  <<"chunk", c, [b \in 1..Len(blocks) |->
                    IF b < Len(blocks) THEN Compressed(blocks[b], BlockLen, "none")
                    ELSE Compressed(blocks[b], Len(bytes) - (b - 1) * BlockLen, "end")]>>
        Left(count) == CHOOSE p \in {2^e : e \in 0..count} : p < count /\ 2 * p >= count
        tree[lo \in 0..chunks, count \in 1..chunks] ==
            IF count = 1 THEN Chunk(lo)
            ELSE <<"parent", tree[lo, Left(count)], tree[lo + Left(count), count - Left(count)]>>
    IN  tree[0, chunks]

Reference(n) ==
    CASE kind \in {"sha256", "sha256 ni", "sha512"} -> Sha2Blocks(Message(n))
      [] kind \in {"hmac", "hmac ni"} -> [inner |-> Sha2Blocks(KeyPad(InnerPad) \o Message(n)),
                                          outer |-> Sha2Blocks(KeyPad(OuterPad) \o Digest)]
      [] kind = "poly1305" -> Poly1305Blocks(Message(n))
      [] kind = "blake2" -> Blake2Blocks(Message(n))
      [] kind = "blake2 keyed" -> Blake2Blocks([i \in 1..BlockLen |-> KeyByte] \o Message(n))
      [] kind = "cmac" -> CmacBlocks(n)
      [] kind \in {"sha3", "shake", "x4"} -> SpongeBlocks(n)
      [] kind = "blake3" -> Blake3Tree(n)

(* A digest is the digest of the message: however the message was cut into  *)
(* pieces, empty ones, ones that end on a block and ones that span several  *)
(* included, whatever an earlier block left in the buffer, and, for BLAKE3, *)
(* after earlier calls of finalize, what is compressed is what the          *)
(* definition of the function says of the whole message (sha2.rs, sha3.rs,  *)
(* blake2.rs, blake3.rs, cmac.rs: update and finalize).                     *)
DigestOfWholeMessage == digest # NoDigest => digest.value = Reference(digest.of)

\* Byte i of the stream: which block of output it is of, and where in it.
StreamByte(i) ==
    IF kind = "blake3"
    THEN [of |-> (i - 1) \div BlockLen, at |-> ((i - 1) % BlockLen) + 1]
    ELSE [of |-> Reference(length) \o Plain([j \in 1..((i - 1) \div Rate) |-> Zeros(Rate)]),
          at |-> ((i - 1) % Rate) + 1]

(* Reading is continuous: the bytes read so far, in reads of any lengths    *)
(* and across refused ones, are the first bytes of one stream that depends  *)
(* on the message alone, so also for lanes that were hashed together        *)
(* (sha3.rs: "reading 32 bytes twice gives the same stream as reading 64    *)
(* once").                                                                  *)
OutputIsOneStream ==
    stage = "reading" => \A i \in 1..Len(output) : output[i] = StreamByte(i)

-----------------------------------------------------------------------------
(* The inductive invariant *)

\* All whole blocks are compressed, the rest is at the front of the buffer.
EagerHolds(s, m) ==
    /\ s = [h |-> Plain(Cut(WholeBlocks(m), BlockLen)), buf |-> s.buf,
            buffered |-> Len(Remainder(m)), len |-> Len(m)]
    /\ s.buf \in Seq(Int) /\ Len(s.buf) = BlockLen /\ Leading(s.buf, s.buffered) = Remainder(m)

\* The bytes in blocks that more input is known to follow.
Followed(m) == BlockLen * ((More(Len(m), 1) - 1) \div BlockLen)

\* Blocks with the counter that each is compressed with.
Counted(blocks, from, step) ==
    [b \in 1..Len(blocks) |-> Compressed(blocks[b], from + b * step, "none")]

LazyHolds(s, m, step) ==
    LET blocks == Cut(Leading(m, Followed(m)), BlockLen) IN
    /\ s = [h |-> Counted(blocks, 0, step), buf |-> s.buf,
            buffered |-> Len(m) - Followed(m), len |-> Len(blocks) * step]
    /\ s.buf \in Seq(Int) /\ Len(s.buf) = BlockLen
    /\ Leading(s.buf, s.buffered) = From(m, Followed(m))

\* Beyond what is in the block the sponge's input is zero.
SpongeHolds(s, m) ==
    LET whole == Len(m) - (Len(m) % Rate) IN
    s = [h |-> Plain(Cut(Leading(m, whole), Rate)),
         buf |-> From(m, whole) \o Zeros(Rate - (Len(m) % Rate)),
         buffered |-> Len(m) % Rate, len |-> 0]

\* A hasher that has been fed a message.
Fed(k, s, m) ==
    CASE k \in {"sha256", "sha256 ni", "sha512", "poly1305"} -> EagerHolds(s, m)
      [] k \in {"hmac", "hmac ni"} ->
           /\ s = [inner |-> s.inner, outer |-> s.outer]
           /\ EagerHolds(s.inner, KeyPad(InnerPad) \o m)
           /\ EagerHolds(s.outer, KeyPad(OuterPad))
      [] k = "blake2" -> LazyHolds(s, m, BlockLen)
      [] k = "blake2 keyed" -> LazyHolds(s, KeyPad(KeyByte) \o m, BlockLen)
      [] k = "cmac" -> LazyHolds(s, m, 0)
      [] k \in {"sha3", "shake"} -> SpongeHolds(s, m)
      [] k = "x4" -> s = Fresh(Rate)
      [] k = "blake3" -> TRUE

\* Where the reader of a sponge stands, and that of BLAKE3.
SpongeRead(s, blocks, n) ==
    \E again \in 0..n :
        /\ s = [h |-> blocks \o Plain([j \in 1..again |-> Zeros(Rate)]),
                buf |-> Zeros(Rate), buffered |-> n - again * Rate, len |-> 0]
        /\ s.buffered \in 0..Rate

RootRead(r, n) ==
    /\ r = [block |-> r.block, counter |-> r.counter, used |-> r.used]
    /\ r.counter \in Nat /\ r.used \in 0..BlockLen
    /\ n + BlockLen = r.counter * BlockLen + r.used
    /\ r.counter > 0 => r.block = r.counter - 1

HashInv ==
    /\ kind \in Kinds /\ length \in Nat
    /\ stage \in {"absorbing", "reading", "ended", "refused"}
    /\ stage = "absorbing" => Fed(kind, state, Message(length)) /\ output = <<>>
    /\ stage = "reading" =>
          /\ kind \in Streams
          /\ Len(output) \in Nat /\ output = [i \in 1..Len(output) |-> StreamByte(i)]
          /\ IF kind = "blake3" THEN RootRead(state, Len(output))
             ELSE SpongeRead(state, SpongeBlocks(length), Len(output))
    /\ kind # "blake3" => DigestOfWholeMessage
=============================================================================
