-------------------------------- MODULE Der ---------------------------------
(***************************************************************************)
(* The DER reader and writer of ic-pkix (der.rs), and the conversion of     *)
(* ECDSA signatures that is built on them (ecdsa_signature.rs).             *)
(*                                                                          *)
(* A byte has BYTE values instead of 256 and everything that is a half or a *)
(* power of 256 in the code follows from it, so that both sides of each     *)
(* limit are short.  Tags are numbers below BYTE.                           *)
(***************************************************************************)
EXTENDS Integers, Sequences, SequencesExt

CONSTANTS
    BYTE,           \* 256
    MaxCount,       \* length bytes that are taken (4)
    WordBytes,      \* the bytes of a u64 (8)
    Signatures,     \* what to_der is called with
    SignatureInputs,\* what from_der is called with
    Contents,       \* what is written as an element
    ElementInputs,  \* what is read as an element
    Rooms           \* lengths of buffers

ASSUME DerAssumption ==
    /\ BYTE \in Nat /\ BYTE % 2 = 0 /\ BYTE > 7
    /\ MaxCount \in 1..((BYTE \div 2) - 1) /\ WordBytes \in Nat \ {0}

VARIABLE lastDer    \* the last call and what it returned

HALF == BYTE \div 2

INTEGER == 2
BIT_STRING == 3
OCTET_STRING == 4
NULL == 5
OID == 6
SEQUENCE == 7

BigEndian(bytes) == FoldLeft(LAMBDA v, b : v * BYTE + b, 0, bytes)

-----------------------------------------------------------------------------
(* Reading: a reader is its input and a position, and each operation gives  *)
(* what it read and the new position, or fails.                             *)

Malformed == [ok |-> FALSE]
Got(value, pos) == [ok |-> TRUE, value |-> value, pos |-> pos]

take(input, pos, n) ==
    IF Len(input) - pos >= n THEN Got(SubSeq(input, pos + 1, pos + n), pos + n) ELSE Malformed

\* Mutant: the long form is taken for short lengths too.
LongLength_Any(bytes) == bytes[1] # 0

\* What the bytes of a long form must be.
LongLength(bytes) == bytes[1] # 0 /\ BigEndian(bytes) >= HALF

length(input, pos) ==
    LET first == take(input, pos, 1)
        count == first.value[1] - HALF
        bytes == take(input, first.pos, count)
    IN  IF ~first.ok THEN Malformed
        ELSE IF count < 0 THEN Got(first.value[1], first.pos)
        ELSE IF count = 0 \/ count > MaxCount THEN Malformed
        ELSE IF ~bytes.ok THEN Malformed
        ELSE IF ~LongLength(bytes.value) THEN Malformed
        ELSE Got(BigEndian(bytes.value), bytes.pos)

expect(input, pos, tag) ==
    LET actual == take(input, pos, 1)
        len == length(input, actual.pos)
    IN  IF ~actual.ok THEN Malformed
        ELSE IF actual.value # <<tag>> THEN Malformed
        ELSE IF ~len.ok THEN Malformed
        ELSE take(input, len.pos, len.value)

\* The content of an element that passes the test.
Checked(element, Test(_), Content(_)) ==
    IF ~element.ok THEN Malformed
    ELSE IF ~Test(element.value) THEN Malformed
    ELSE Got(Content(element.value), element.pos)

Same(raw) == raw

unsigned_integer(input, pos) ==
    LET Test(raw) == raw # <<>> /\ raw[1] < HALF /\ (raw[1] = 0 /\ Len(raw) > 1 => raw[2] >= HALF)
        Content(raw) == IF raw[1] = 0 /\ Len(raw) > 1 THEN Tail(raw) ELSE raw
    IN  Checked(expect(input, pos, INTEGER), Test, Content)

unsigned_integer_u64(input, pos) ==
    LET Test(bytes) == Len(bytes) <= WordBytes
    IN  Checked(unsigned_integer(input, pos), Test, BigEndian)

bit_string(input, pos) ==
    LET Test(raw) == raw # <<>> /\ raw[1] = 0
    IN  Checked(expect(input, pos, BIT_STRING), Test, Tail)

oid(input, pos) ==
    LET Test(raw) == raw # <<>> /\ Last(raw) < HALF
    IN  Checked(expect(input, pos, OID), Test, Same)

null(input, pos) ==
    LET Test(raw) == raw = <<>> IN Checked(expect(input, pos, NULL), Test, Same)

Read(kind, input, pos) ==
    CASE kind = "integer" -> unsigned_integer(input, pos)
      [] kind = "u64" -> unsigned_integer_u64(input, pos)
      [] kind = "bits" -> bit_string(input, pos)
      [] kind = "octets" -> expect(input, pos, OCTET_STRING)
      [] kind = "oid" -> oid(input, pos)
      [] kind = "null" -> null(input, pos)

\* An element that is the whole of its input.
ReadWhole(kind, input) ==
    LET read == Read(kind, input, 0)
    IN  IF read.ok /\ read.pos = Len(input) THEN read ELSE Malformed

-----------------------------------------------------------------------------
(* Writing: from the end of the buffer to its front. *)

Writer(room) == [ok |-> TRUE, buf |-> [i \in 1..room |-> 1], pos |-> room]

push(w, bytes) ==
    IF ~w.ok \/ w.pos < Len(bytes) THEN [w EXCEPT !.ok = FALSE]
    ELSE [ok |-> TRUE, pos |-> w.pos - Len(bytes),
          buf |-> [i \in DOMAIN w.buf |->
                     IF i \in (w.pos - Len(bytes) + 1)..w.pos THEN bytes[i - w.pos + Len(bytes)]
                     ELSE w.buf[i]]]

DigitsOf(v) == CHOOSE n \in 0..v : BYTE^n > v /\ \A m \in 0..(n - 1) : BYTE^m <= v

\* Lengths of more than MaxCount bytes, with which the code fails, are longer
\* than any buffer here.
push_header(w, tag, len) ==
    LET n == DigitsOf(len)
        little == [i \in 1..n |-> (len \div BYTE^(i - 1)) % BYTE]
        bytes == (IF len < HALF THEN <<len>> ELSE little \o <<HALF + n>>) \o <<tag>>
    IN  FoldLeft(LAMBDA x, b : push(x, <<b>>), w, bytes)

push_element(w, tag, content) == push_header(push(w, content), tag, Len(content))

Trimmed(value) ==
    LET zeros == {k \in 0..Len(value) : \A i \in 1..k : value[i] = 0}
    IN  SubSeq(value, (CHOOSE k \in zeros : \A m \in zeros : m <= k) + 1, Len(value))

push_unsigned_integer(w, value) ==
    LET trimmed == Trimmed(value)
        sign == IF trimmed[1] >= HALF THEN <<0>> ELSE <<>>
    IN  IF trimmed = <<>> THEN push_element(w, INTEGER, <<0>>)
        ELSE push_header(push(push(w, trimmed), sign), INTEGER, Len(trimmed) + Len(sign))

push_bit_string(w, content) == push_header(push(push(w, content), <<0>>), BIT_STRING, Len(content) + 1)

push_wrapper(w, tag, before) == push_header(w, tag, Len(w.buf) - w.pos - before)

\* To the front, and the rest wiped.
finish(w) ==
    LET len == Len(w.buf) - w.pos
    IN  IF ~w.ok THEN [ok |-> FALSE]
        ELSE [ok |-> TRUE, len |-> len,
              buf |-> [i \in DOMAIN w.buf |-> IF i <= len THEN w.buf[w.pos + i] ELSE 0]]

Written(kind, content, room) ==
    LET w == Writer(room) IN
    finish(CASE kind = "integer" -> push_unsigned_integer(w, content)
             [] kind = "u64" ->
                  push_unsigned_integer(w, [i \in 1..WordBytes |-> (content \div BYTE^(WordBytes - i)) % BYTE])
             [] kind = "bits" -> push_bit_string(w, content)
             [] kind = "octets" -> push_element(w, OCTET_STRING, content)
             [] kind = "oid" -> push_element(w, OID, content)
             [] kind = "null" -> push_element(w, NULL, <<>>))

-----------------------------------------------------------------------------
(* ECDSA signatures: two halves of one width here, SEQUENCE { r, s } there. *)

to_der(signature, room) ==
    LET half == Len(signature) \div 2
        w == Writer(room)
        s == push_unsigned_integer(w, SubSeq(signature, half + 1, Len(signature)))
        r == push_unsigned_integer(s, SubSeq(signature, 1, half))
    IN  IF signature = <<>> \/ Len(signature) % 2 # 0 THEN [ok |-> FALSE]
        ELSE finish(push_wrapper(r, SEQUENCE, 0))

LeftPadded(value, width) == [i \in 1..width |-> IF i <= width - Len(value) THEN 0 ELSE value[i - width + Len(value)]]

\* The buffer of a call that fails may hold the first half.
from_der(input, size) ==
    LET width == size \div 2
        outer == expect(input, 0, SEQUENCE)
        r == unsigned_integer(outer.value, 0)
        s == unsigned_integer(outer.value, r.pos)
    IN  IF size = 0 \/ size % 2 # 0 THEN Malformed
        ELSE IF ~outer.ok THEN Malformed
        ELSE IF outer.pos # Len(input) \/ ~r.ok THEN Malformed
        ELSE IF ~s.ok THEN Malformed
        ELSE IF s.pos # Len(outer.value) \/ Len(r.value) > width \/ Len(s.value) > width THEN Malformed
        ELSE Got(LeftPadded(r.value, width) \o LeftPadded(s.value, width), size)

max_der_len(signature_len) ==
    LET content == 2 * (2 + signature_len \div 2 + 1)
    IN  (IF content < HALF THEN 2 ELSE 3) + content

-----------------------------------------------------------------------------
NoDer == [op |-> "none"]

DerInit == lastDer = NoDer

ToDer(signature, room) ==
    lastDer' = [op |-> "to_der", arg |-> signature, room |-> room, result |-> to_der(signature, room)]

FromDer(input, size) ==
    lastDer' = [op |-> "from_der", arg |-> input, result |-> from_der(input, size)]

WriteElement(kind, content, room) ==
    lastDer' = [op |-> "write", kind |-> kind, arg |-> content, room |-> room,
                result |-> Written(kind, content, room)]

ReadElement(kind, input) ==
    lastDer' = [op |-> "read", kind |-> kind, arg |-> input, result |-> ReadWhole(kind, input)]

ByteKinds == {"integer", "bits", "octets", "oid", "null"}

DerNext ==
    \/ /\ lastDer = NoDer
       /\ \/ \E signature \in Signatures, room \in Rooms : ToDer(signature, room)
          \/ \E given \in SignatureInputs : FromDer(given.input, given.size)
          \/ \E kind \in ByteKinds, content \in Contents, room \in Rooms : WriteElement(kind, content, room)
          \/ \E v \in 0..(BYTE^WordBytes - 1), room \in Rooms : WriteElement("u64", v, room)
          \/ \E kind \in ByteKinds \cup {"u64"}, input \in ElementInputs : ReadElement(kind, input)
    \/ lastDer # NoDer /\ lastDer' = NoDer

DerSpec == DerInit /\ [][DerNext]_lastDer

-----------------------------------------------------------------------------
(* Properties *)

Encoding(result) == SubSeq(result.buf, 1, result.len)

\* What reading gives back of what was written.
Meaning(kind, content) ==
    CASE kind = "integer" -> IF Trimmed(content) = <<>> THEN <<0>> ELSE Trimmed(content)
      [] kind = "null" -> <<>>
      [] OTHER -> content

\* The writer does not look at what an object identifier ends with.
Readable(kind, content) == kind = "oid" => content # <<>> /\ Last(content) < HALF

(* There is one encoding of each value: what is read is what writing the    *)
(* value gives, byte for byte and to the last one; what is written is read  *)
(* back; a buffer of max_der_len always suffices for a signature, a smaller *)
(* one is refused exactly if the encoding does not fit, and nothing is left *)
(* behind the encoding (der.rs "Read a length, enforcing the minimal        *)
(* encoding", "The rest of the buffer is wiped").                           *)
DerCanonical ==
    CASE lastDer.op = "read" /\ lastDer.result.ok ->
           Encoding(Written(lastDer.kind, lastDer.result.value, Len(lastDer.arg))) = lastDer.arg
      [] lastDer.op = "from_der" /\ lastDer.result.ok ->
           Encoding(to_der(lastDer.result.value, Len(lastDer.arg))) = lastDer.arg
      [] lastDer.op = "write" /\ lastDer.result.ok /\ Readable(lastDer.kind, lastDer.arg) ->
           LET read == ReadWhole(lastDer.kind, Encoding(lastDer.result))
           IN  read.ok /\ read.value = Meaning(lastDer.kind, lastDer.arg)
      [] lastDer.op = "to_der" /\ lastDer.arg # <<>> /\ Len(lastDer.arg) % 2 = 0 ->
           LET signature == lastDer.arg
               result == lastDer.result
               ample == to_der(signature, max_der_len(Len(signature)))
           IN  /\ ample.ok
               /\ result.ok <=> ample.len <= lastDer.room
               /\ result.ok =>
                    /\ Encoding(result) = Encoding(ample)
                    /\ from_der(Encoding(result), Len(signature)).value = signature
                    /\ \A i \in (result.len + 1)..lastDer.room : result.buf[i] = 0
      [] OTHER -> TRUE
=============================================================================
