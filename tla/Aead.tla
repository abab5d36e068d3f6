-------------------------------- MODULE Aead --------------------------------
(***************************************************************************)
(* The counter-mode ciphers of ic-cipher and the AEADs over them: ChaCha20   *)
(* and (X)ChaCha20-Poly1305, AES-GCM with its kernels, AES-GCM-SIV, and CTR. *)
(* One call works in place on a buffer, by as many blocks at a time as the  *)
(* CPU allows, with a block counter that is only a few bytes of a block,    *)
(* in a process whose module may fail between any two looks at its flag.    *)
(*                                                                          *)
(* A byte of the buffer is its place in the message and the set of the      *)
(* keystream bytes that are on it, one xored on twice being off again; a    *)
(* keystream byte is a counter and an offset.  A tag stands for the blocks  *)
(* it was computed over.                                                    *)
(***************************************************************************)
EXTENDS Integers, Sequences

CONSTANTS
    Calls,          \* the calls a program may make
    BlockBytes,     \* bytes in a block (64 for ChaCha20, 16 for AES)
    CounterValues,  \* how many values the block counter has (2^32)
    Narrow          \* blocks in a group of the narrow GCM kernel (8)


Algorithms == {"chacha20", "ctr", "chacha20-poly1305", "xchacha20-poly1305", "gcm", "gcm-siv"}
Authenticated == Algorithms \ {"chacha20", "ctr"}

Backends == {"portable", "avx2", "zmm"}
Kernels == {"generic", "narrow", "ymm", "zmm512"}

\* The short path of ChaCha20-Poly1305 takes four counters.
ASSUME AeadAssumption ==
    /\ BlockBytes \in Nat \ {0} /\ Narrow \in Nat \ {0}
    /\ CounterValues \in Nat /\ CounterValues >= 4
    /\ Calls \subseteq [alg : Algorithms, backend : Backends \cup Kernels, op : {"seal", "open"},
                       len : Nat, aad : Nat, counter : 0..(CounterValues - 1),
                       long : BOOLEAN, genuine : BOOLEAN]

VARIABLES
    call,       \* the call under way or returned: algorithm, backend, sealing or opening,
                \* length, associated data, first counter, whether the tag is the right one
    at,         \* where the call is
    buf,        \* in_out
    hashed,     \* what the tag was computed over
    verdict,    \* what the call returned
    broken      \* the module is in its error state

aeadVars == <<call, at, buf, hashed, verdict, broken>>

-----------------------------------------------------------------------------
(* Bytes and keystream *)

Byte(i, pads) == [place |-> i, pads |-> pads]
ZeroByte == Byte(0, {})
Wiped(i) == Byte(i, {<<-1, 0>>})

Flip(byte, pad) ==
    [byte EXCEPT !.pads = IF pad \in @ THEN @ \ {pad} ELSE @ \cup {pad}]

Wrap(counter) == counter % CounterValues

\* Work in progress over a buffer: done bytes of it, and the next counter.
Work(data, counter) == [data |-> data, done |-> 0, counter |-> counter]
Left(w) == Len(w.data) - w.done

\* Keystream byte k of the blocks from a counter on.
Pad(counter, k) == <<Wrap(counter + k \div BlockBytes), k % BlockBytes>>

\* Xor n bytes from w.done on, byte k of them with Stream(k).
XorOver(w, n, Stream(_)) ==
    [i \in 1..Len(w.data) |->
       IF i \in (w.done + 1)..(w.done + n) THEN Flip(w.data[i], Stream(i - w.done - 1)) ELSE w.data[i]]

\* So many groups of so many blocks, the counter stepped by group.
SomeGroups(w, lanes, count) ==
    LET stride == lanes * BlockBytes
        Stream(k) == Pad(w.counter + (k \div stride) * lanes, k % stride)
    IN  [data |-> XorOver(w, count * stride, Stream), done |-> w.done + count * stride,
         counter |-> Wrap(w.counter + count * lanes)]

\* All of the whole groups.
WholeGroups(w, lanes) == Left(w) \div (lanes * BlockBytes)
Groups(w, lanes) == SomeGroups(w, lanes, WholeGroups(w, lanes))

\* What is left, block by block.
Rest(w) == LET Stream(k) == Pad(w.counter, k) IN XorOver(w, Left(w), Stream)

-----------------------------------------------------------------------------
(* ChaCha20 *)

ZMM_LANES == 16
AVX2_LANES == 8

\* Mutant: a chunk of more than two blocks gets one pair of them.
Pairs_One(chunk) == 1

\* How many pairs of blocks a chunk of so many bytes, at most four blocks,
\* needs.
Pairs(chunk) == IF chunk > 2 * BlockBytes THEN 2 ELSE 1

\* Chunks of four blocks through one buffer of keystream, of which a chunk
\* refreshes the pairs that it needs; less than eight blocks are left.
avx2_tail(w) ==
    LET size == 4 * BlockBytes
        Fresh(chunk) == Pairs(chunk) * 2 * BlockBytes
        first == IF Left(w) < size THEN Left(w) ELSE size
        ks0(k) == IF k < Fresh(first) THEN Pad(w.counter, k) ELSE <<-2, 0>>
        ks1(k) == IF k < Fresh(Left(w) - size) THEN Pad(w.counter + 4, k) ELSE ks0(k)
        Stream(k) == IF k < size THEN ks0(k) ELSE ks1(k - size)
    IN  XorOver(w, Left(w), Stream)

CounterSuffices(counter, len) ==
    counter + (len + BlockBytes - 1) \div BlockBytes <= CounterValues

xor_keystream(backend, counter, data) ==
    LET wide == IF backend = "zmm" THEN Groups(Work(data, counter), ZMM_LANES) ELSE Work(data, counter)
        eight == IF backend # "portable" THEN Groups(wide, AVX2_LANES) ELSE wide
    IN  IF backend # "portable" /\ Left(eight) > BlockBytes THEN avx2_tail(eight) ELSE Rest(eight)

\* Blocks 0 and 1, or 0 to 3, in one call, block 0 being the Poly1305 key.
SHORT_MAX == 3 * BlockBytes

ShortXor(data) ==
    LET fresh == (IF Len(data) <= BlockBytes THEN 2 ELSE 4) * BlockBytes
        Stream(k) == IF BlockBytes + k < fresh THEN Pad(0, BlockBytes + k) ELSE <<-2, 0>>
    IN  XorOver(Work(data, 0), Len(data), Stream)

-----------------------------------------------------------------------------
(* What a tag is computed over: both parts padded to whole blocks, then     *)
(* their lengths                                                            *)

AadBytes(n) == [i \in 1..n |-> Byte(-i, {})]
LengthBlock(aad, len) == <<Byte(1000 + aad, {}), Byte(1000 + len, {})>>

Padded(bytes) ==
    [b \in 1..((Len(bytes) + BlockBytes - 1) \div BlockBytes) |->
       [o \in 1..BlockBytes |->
          LET i == (b - 1) * BlockBytes + o IN IF i <= Len(bytes) THEN bytes[i] ELSE ZeroByte]]

\* tag and tag_under of ChaCha20-Poly1305, gcm_core and authenticate.
Framed(aad, bytes) == Padded(AadBytes(aad)) \o Padded(bytes) \o <<LengthBlock(aad, Len(bytes))>>

-----------------------------------------------------------------------------
(* AES-GCM *)

MAX_PLAINTEXT_BYTES == (CounterValues - 2) * BlockBytes

\* The counter mode of gcm_core, in batches.
ctr32_xor(counter, data) == Rest(Groups(Work(data, counter), Narrow))

\* GHASH blocks that wait to be multiplied in together.
NewPending == [y |-> <<>>, queue |-> <<>>]
Flushed(p) == [y |-> p.y \o p.queue, queue |-> <<>>]
Push(p, block) ==
    LET longer == [y |-> p.y, queue |-> Append(p.queue, block)]
    IN  IF Len(longer.queue) = Narrow THEN Flushed(longer) ELSE longer
Pushed(p, blocks) ==
    LET pushed[b \in 0..Len(blocks)] == IF b = 0 THEN p ELSE Push(pushed[b - 1], blocks[b])
    IN  pushed[Len(blocks)]
PushPadded(p, bytes) == Pushed(p, Padded(bytes))

\* The group that begins at a place, as the buffer is now, hashed; and the
\* next group encrypted or decrypted.
HashGroup(s, lanes, from) ==
    [s EXCEPT !.y = @ \o Padded(SubSeq(s.work.data, from + 1, from + lanes * BlockBytes))]
XorGroup(s, lanes) == [s EXCEPT !.work = SomeGroups(@, lanes, 1)]

\* One iteration of a stitched loop reads what it hashes, the group it is at
\* or one a group behind it, before its own group is stored.
Stitched(s, lanes, behind) == XorGroup(HashGroup(s, lanes, s.work.done - behind), lanes)

Iterated(s, lanes, behind, n) ==
    LET after[i \in 0..n] == IF i = 0 THEN s ELSE Stitched(after[i - 1], lanes, behind)
    IN  after[n]

\* Sealing, the first group is encrypted alone, each iteration hashes the
\* group before its own, and the last group is hashed alone.
SealGroups(s, lanes, n) ==
    LET stride == lanes * BlockBytes
        last == Iterated(XorGroup(s, lanes), lanes, stride, n - 1)
    IN  HashGroup(last, lanes, last.work.done - stride)

\* Opening, each iteration hashes the group that it decrypts.
OpenGroups(s, lanes, n) == Iterated(s, lanes, 0, n)

\* A bulk loop over whole groups, which takes and leaves y reduced.
Bulk(s, lanes, encrypting) ==
    LET n == WholeGroups(s.work, lanes) IN
    CASE n = 0 -> s
      [] n > 0 /\ encrypting -> SealGroups(s, lanes, n)
      [] n > 0 /\ ~encrypting -> OpenGroups(s, lanes, n)

\* Mutant: only the widest loop has the queue flushed before it.
BeforeBulk_WideOnly(p, kernel, len) ==
    IF len >= (IF kernel = "narrow" THEN 1 ELSE 2) * Narrow * BlockBytes THEN Flushed(p) ELSE p

\* The associated data stays queued when no bulk loop follows.
BeforeBulk(p, kernel, len) == IF len >= Narrow * BlockBytes THEN Flushed(p) ELSE p

\* The rest of the message, under a group, the lengths and the tag.
finish(p, w, aad, encrypting) ==
    LET out == Rest(w)
        from == IF encrypting THEN out ELSE w.data
        tail == PushPadded(p, SubSeq(from, w.done + 1, Len(from)))
    IN  [data |-> out, over |-> Flushed(Push(tail, LengthBlock(aad, Len(out)))).y]

\* run_narrow, run_wide and bulk_zmm: the widest groups first, each narrower
\* loop over what the one before left.
seal_or_open(kernel, j0, aad, data, encrypting) ==
    LET start == BeforeBulk(PushPadded(NewPending, AadBytes(aad)), kernel, Len(data))
        begun == [work |-> Work(data, Wrap(j0 + 1)), y |-> start.y]
        zmm == IF kernel = "zmm512" THEN Bulk(begun, 4 * Narrow, encrypting) ELSE begun
        ymm == IF kernel # "narrow" THEN Bulk(zmm, 2 * Narrow, encrypting) ELSE zmm
        last == Bulk(ymm, Narrow, encrypting)
    IN  finish([y |-> last.y, queue |-> start.queue], last.work, aad, encrypting)

gcm_core(j0, aad, data, encrypting) ==
    LET out == ctr32_xor(Wrap(j0 + 1), data)
    IN  [data |-> out, over |-> Framed(aad, IF encrypting THEN out ELSE data)]

-----------------------------------------------------------------------------
(* Calls *)

\* The counter of the first block of the message, the one block that is not
\* for it, and the most blocks the algorithm takes.
FirstCounter(c) ==
    CASE c.alg \in {"chacha20-poly1305", "xchacha20-poly1305"} -> 1
      [] c.alg = "gcm" -> Wrap(c.counter + 1)
      [] OTHER -> c.counter

\* What encryption is defined to do.
Cipher(c) == [i \in 1..c.len |-> Byte(i, {Pad(FirstCounter(c), i - 1)})]
Clear(c) == [i \in 1..c.len |-> Byte(i, {})]

NoCall == [alg |-> "none"]

AeadInit ==
    /\ call = NoCall
    /\ at = "idle"
    /\ buf = <<>>
    /\ hashed = <<>>
    /\ verdict = "none"
    /\ broken = FALSE

Returns(v) == at' = "returned" /\ verdict' = v

FirstStep(c) ==
    CASE c.alg = "xchacha20-poly1305" -> "inner"
      [] c.alg = "chacha20-poly1305" -> "enter"
      [] c.alg = "gcm" -> "run"
      [] c.alg = "gcm-siv" -> "derive"
      [] OTHER -> "xor"

AeadCall ==
    /\ at = "idle"
    /\ \E c \in Calls :
          /\ call' = c
          /\ buf' = IF c.op = "open" THEN Cipher(c) ELSE Clear(c)
          /\ \/ broken /\ Returns("ModuleErrorState")
             \/ ~broken /\ at' = FirstStep(c) /\ UNCHANGED verdict
    /\ UNCHANGED <<hashed, broken>>

\* XChaCha20-Poly1305 is ChaCha20-Poly1305 under a derived key, which looks
\* at the flag again.
Inner ==
    /\ at = "inner"
    /\ \/ broken /\ Returns("ModuleErrorState")
       \/ ~broken /\ at' = "enter" /\ UNCHANGED verdict
    /\ UNCHANGED <<call, buf, hashed, broken>>

IsShort == call.len <= SHORT_MAX /\ call.backend # "portable"

\* Poly1305::new looks at the flag, and is not called for short inputs.
TagRefused == call.long /\ broken

WipedBuf == [i \in 1..call.len |-> Wiped(i)]

\* The short path seals first and opens last.
Short ==
    /\ at = "enter" /\ IsShort
    /\ IF call.op = "seal"
       THEN /\ buf' = ShortXor(buf)
            /\ \/ TagRefused /\ Returns("ModuleErrorState") /\ UNCHANGED hashed
               \/ ~TagRefused /\ Returns("Ok") /\ hashed' = Framed(call.aad, buf')
       ELSE \/ TagRefused /\ Returns("ModuleErrorState") /\ UNCHANGED <<buf, hashed>>
            \/ /\ ~TagRefused
               /\ hashed' = Framed(call.aad, buf)
               /\ \/ call.genuine /\ buf' = ShortXor(buf) /\ Returns("Ok")
                  \/ ~call.genuine /\ buf' = WipedBuf /\ Returns("AuthenticationFailed")
    /\ UNCHANGED <<call, broken>>

Long ==
    /\ at = "enter" /\ ~IsShort
    /\ at' = IF call.op = "seal" THEN "xor" ELSE "tag"
    /\ UNCHANGED <<call, buf, hashed, verdict, broken>>

\* chacha20_xor, and modes::ctr_xor, which has looked at the flag and takes
\* any length.
XorStep ==
    /\ at = "xor"
    /\ IF call.alg # "ctr" /\ (broken \/ ~CounterSuffices(FirstCounter(call), call.len))
       THEN Returns(IF broken THEN "ModuleErrorState" ELSE "CounterExhausted") /\ UNCHANGED buf
       ELSE /\ buf' = IF call.alg = "ctr" THEN ctr32_xor(call.counter, buf)
                      ELSE xor_keystream(call.backend, FirstCounter(call), buf)
            /\ IF call.op = "seal" /\ call.alg \in Authenticated
               THEN at' = "tag" /\ UNCHANGED verdict
               ELSE Returns("Ok")
    /\ UNCHANGED <<call, hashed, broken>>

TagStep ==
    /\ at = "tag"
    /\ \/ TagRefused /\ Returns("ModuleErrorState") /\ UNCHANGED <<buf, hashed>>
       \/ /\ ~TagRefused
          /\ hashed' = Framed(call.aad, buf)
          /\ \/ call.op = "seal" /\ Returns("Ok") /\ UNCHANGED buf
             \/ call.op = "open" /\ call.genuine /\ at' = "xor" /\ UNCHANGED <<buf, verdict>>
             \/ call.op = "open" /\ ~call.genuine /\ buf' = WipedBuf /\ Returns("AuthenticationFailed")
    /\ UNCHANGED <<call, broken>>

\* Mutant: a buffer that fails to verify is handed back as it is.
Verified_Kept(out) ==
    \/ call.op = "open" /\ ~call.genuine /\ buf' = out /\ Returns("AuthenticationFailed")
    \/ ~(call.op = "open" /\ ~call.genuine) /\ buf' = out /\ Returns("Ok")

\* GCM and GCM-SIV decrypt before they verify.
Verified(out) ==
    \/ call.op = "open" /\ ~call.genuine /\ buf' = WipedBuf /\ Returns("AuthenticationFailed")
    \/ ~(call.op = "open" /\ ~call.genuine) /\ buf' = out /\ Returns("Ok")

GcmRun ==
    LET made == IF call.backend = "generic" THEN gcm_core(call.counter, call.aad, buf, call.op = "seal")
                ELSE seal_or_open(call.backend, call.counter, call.aad, buf, call.op = "seal")
    IN
    /\ at = "run"
    /\ \/ /\ call.len > MAX_PLAINTEXT_BYTES
          /\ Returns("CounterExhausted")
          /\ UNCHANGED <<buf, hashed>>
       \/ /\ call.len <= MAX_PLAINTEXT_BYTES
          /\ hashed' = made.over
          /\ Verified(made.data)
    /\ UNCHANGED <<call, broken>>

\* Two keys are expanded, and each expansion looks at the flag.
SivDerive ==
    /\ at \in {"derive", "message key"}
    /\ \/ broken /\ Returns("ModuleErrorState")
       \/ ~broken /\ at' = (IF at = "derive" THEN "message key" ELSE "message") /\ UNCHANGED verdict
    /\ UNCHANGED <<call, buf, hashed, broken>>

\* The tag is over the plaintext, and the first counter is of the tag.
SivMessage ==
    LET out == Rest(Work(buf, call.counter)) IN
    /\ at = "message"
    /\ hashed' = Framed(call.aad, IF call.op = "seal" THEN buf ELSE out)
    /\ Verified(out)
    /\ UNCHANGED <<call, broken>>

AeadModuleFails ==
    /\ ~broken /\ broken' = TRUE
    /\ UNCHANGED <<call, at, buf, hashed, verdict>>

AeadNext ==
    \/ AeadCall \/ Inner \/ Short \/ Long \/ XorStep \/ TagStep
    \/ GcmRun \/ SivDerive \/ SivMessage
    \/ AeadModuleFails

AeadSpec == AeadInit /\ [][AeadNext]_aeadVars

-----------------------------------------------------------------------------
(* Properties *)

\* A message that the counter has blocks for.  Nothing enforces it for CTR,
\* whose counter is as wide as a block, and for AES-GCM-SIV.
WithinCounter(c) == c.len <= CounterValues * BlockBytes

\* The counters of the blocks of a message, and one that is not for it: block
\* 0 makes the Poly1305 key, J0 masks the tag.
MessageCounters(c) == {Wrap(FirstCounter(c) + b) : b \in 0..((c.len + BlockBytes - 1) \div BlockBytes - 1)}
Reserved(c) ==
    CASE c.alg \in {"chacha20-poly1305", "xchacha20-poly1305"} -> {0}
      [] c.alg = "gcm" -> {c.counter}
      [] OTHER -> {}

(* A call that succeeds has put on, or taken off, every byte exactly its    *)
(* own keystream byte, whatever mix of groups, pairs and single blocks the  *)
(* CPU took and however close to its last value the counter came; within    *)
(* one message no counter serves two blocks or a block and the tag; and a   *)
(* message that would need that is refused before the buffer is touched     *)
(* (chacha.rs, xor_keystream: "Now every path refuses the whole message").  *)
KeystreamOnce ==
    /\ at = "returned" /\ verdict = "Ok" =>
          /\ buf = IF call.op = "seal" THEN Cipher(call) ELSE Clear(call)
          /\ WithinCounter(call) =>
               LET counters == MessageCounters(call) IN
               /\ \A a, b \in 0..((call.len + BlockBytes - 1) \div BlockBytes - 1) :
                     a # b => Wrap(FirstCounter(call) + a) # Wrap(FirstCounter(call) + b)
               /\ counters \cap Reserved(call) = {}
    /\ at = "returned" /\ verdict = "CounterExhausted" =>
          buf = IF call.op = "seal" THEN Clear(call) ELSE Cipher(call)

(* The tag is over the associated data and the ciphertext (for AES-GCM-SIV  *)
(* the plaintext), all of both, each block once and in order, padded apart, *)
(* with their lengths: also when a kernel hashes a group while it encrypts  *)
(* another, leaves blocks queued, or works on a message shorter than a      *)
(* group (gcm_x86.rs, Pending, run_wide, finish).                           *)
TagOverEverything ==
    at = "returned" /\ verdict = "Ok" /\ call.alg \in Authenticated =>
        hashed = Framed(call.aad, IF call.alg = "gcm-siv" THEN Clear(call) ELSE Cipher(call))

(* "Never hand back unauthenticated plaintext": when an open fails, for the *)
(* tag, for the length or because the module failed in the middle of it, no *)
(* byte of the buffer is plaintext, though GCM and GCM-SIV decrypt before   *)
(* they verify (gcm.rs, gcm_siv.rs, chacha.rs: open_detached).              *)
NothingUnverified ==
    at = "returned" /\ call.op = "open" /\ verdict # "Ok" =>
        \A i \in DOMAIN buf : buf[i].pads # {}

-----------------------------------------------------------------------------
(* The inductive invariant *)

\* What the caller has put into the buffer, and what it wants there.
Given(c) == IF c.op = "open" THEN Cipher(c) ELSE Clear(c)
Wanted(c) == IF c.op = "open" THEN Clear(c) ELSE Cipher(c)

TagInput(c) == Framed(c.aad, IF c.alg = "gcm-siv" THEN Clear(c) ELSE Cipher(c))

Steps(c) ==
    CASE c.alg = "xchacha20-poly1305" -> {"inner", "enter", "xor", "tag"}
      [] c.alg = "chacha20-poly1305" -> {"enter", "xor", "tag"}
      [] c.alg = "gcm" -> {"run"}
      [] c.alg = "gcm-siv" -> {"derive", "message key", "message"}
      [] OTHER -> {"xor"}

\* The counters that a message accepted needs, and one of the tag beside them.
CountersLeft(c) ==
    /\ c.alg \in {"chacha20-poly1305", "xchacha20-poly1305"} =>
          c.len <= SHORT_MAX \/ CounterSuffices(1, c.len)
    /\ c.alg = "gcm" => c.len <= MAX_PLAINTEXT_BYTES

\* The buffer is as given until the one step that xors it.
UntilXored ==
    /\ at \in Steps(call) \ {"tag"} => buf = Given(call)
    /\ at = "tag" => buf = Cipher(call) /\ (call.op = "seal" => CounterSuffices(1, call.len))
    /\ at = "xor" /\ call.alg \in Authenticated /\ call.op = "open" => hashed = TagInput(call)

\* What each verdict says of the buffer.
AsReturned ==
    \/ /\ verdict = "Ok"
       /\ buf = Wanted(call) /\ CountersLeft(call)
       /\ call.alg \in Authenticated => hashed = TagInput(call)
    \/ verdict = "ModuleErrorState" /\ (call.op = "open" => buf = Cipher(call))
    \/ verdict = "CounterExhausted" /\ buf = Given(call)
    \/ verdict = "AuthenticationFailed" /\ call.op = "open" /\ buf = WipedBuf

AeadInv ==
    \/ at = "idle"
    \/ /\ call \in Calls
       /\ at \in Steps(call) \cup {"returned"}
       /\ UntilXored
       /\ at = "returned" => AsReturned
=============================================================================
