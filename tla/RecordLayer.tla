----------------------------- MODULE RecordLayer -----------------------------
(***************************************************************************)
(* Record and packet protection of the rustls provider (ic-rustls aead.rs   *)
(* and quic.rs), one direction of a connection: the encrypters, decrypters  *)
(* and packet keys, used the way rustls uses them, over a network that      *)
(* loses, repeats, reorders and alters what it carries, in a process whose  *)
(* cryptographic module may fail.                                           *)
(*                                                                          *)
(* rustls owns the sequence numbers and decides when keys change; that part *)
(* is external.  An AEAD is ideal: a ciphertext is the tuple of key, nonce, *)
(* associated data and plaintext it was sealed with, and opens under        *)
(* exactly those.                                                           *)
(***************************************************************************)
EXTENDS Integers, Sequences, FiniteSets

CONSTANTS
    Payloads,       \* what is sent: content type and data
    MaxSeq,         \* bound on the records under one key
    MaxEpoch,       \* bound on the key updates
    IvBits          \* the width of the part of a nonce that takes the number (64)

Protocols == {"tls13", "tls12 gcm", "tls12 chacha", "quic"}
ContentTypes == {"handshake", "application_data"}

\* n shifted right by each number of bits up to IvBits.
Shifted(n) ==
    LET s[i \in 0..IvBits] == IF i = 0 THEN n ELSE s[i - 1] \div 2
    IN  s

ASSUME RecordAssumption ==
    /\ MaxSeq \in Nat /\ MaxEpoch \in Nat /\ IvBits \in Nat
    /\ \A payload \in Payloads : payload.typ \in ContentTypes /\ payload.len \in Nat

\* The numbers fit the width.
ASSUME WidthAssumption == Shifted(MaxSeq)[IvBits] = 0

VARIABLES
    protocol,
    writer,     \* the encrypter: the epoch of its key, rustls's next number, whether it lives
    reader,     \* the decrypter, likewise
    network,    \* everything ever sent
    sent,       \* what the sender protected, in order
    delivered,  \* what the receiver accepted, in order
    down        \* the module is in its error state

recordVars == <<protocol, writer, reader, network, sent, delivered, down>>

-----------------------------------------------------------------------------
(* Nonces and associated data *)

\* The big-endian bytes of a number, as the set of the bits that are one.
Word(n) == {i \in 0..(IvBits - 1) : Shifted(n)[i] % 2 = 1}

\* The key block or the key schedule gives each epoch its key and its IV;
\* this stands for the part of the IV, or the explicit part of TLS 1.2, that
\* the number is xored into.
Iv(epoch) == Word(2 * epoch + 5)

XorWords(v, w) == (v \ w) \cup (w \ v)
XorNumber(iv, seq) == XorWords(iv, Word(seq))

\* rustls's Nonce: the IV of the epoch with the number xored into its end.
Nonce(epoch, seq) == <<epoch, XorNumber(Iv(epoch), seq)>>

\* Mutant: the explicit part is the one of the key block, for every record.
Explicit_Fixed(epoch, seq) == Iv(epoch)

\* TLS 1.2 with GCM: the fixed part, then the explicit part that is sent.
Explicit(epoch, seq) == XorNumber(Iv(epoch), seq)
Tls12WriteNonce(epoch, seq) == <<epoch, Explicit(epoch, seq)>>
Tls12ReadNonce(epoch, explicit) == <<epoch, explicit>>

make_tls13_aad(len) == <<"tls13", len>>
make_tls12_aad(seq, typ, len) == <<"tls12", Word(seq), typ, len>>

\* QUIC's associated data is the header, with its protection off.
QuicHeader(form, packet_number) == <<"quic", form, packet_number>>

-----------------------------------------------------------------------------
(* QUIC header protection *)

\* A masked value is the value and the set of masks that are on it: putting
\* a mask on twice takes it off.
Clear(value) == [value |-> value, masks |-> {}]
Xor(masked, mask) ==
    [masked EXCEPT !.masks = IF mask \in @ THEN @ \ {mask} ELSE @ \cup {mask}]

\* The form bit is never masked and decides how much of the first byte is.
Protection(form, sample) == <<sample, IF form = "long" THEN 15 ELSE 31>>

apply(header, sample) ==
    [header EXCEPT !.first = Xor(@, Protection(header.form, sample)),
                   !.packet_number = Xor(@, <<sample, "number">>)]

-----------------------------------------------------------------------------
(* The AEAD, refusing in the error state *)

Sealed(epoch, nonce, aad, plain) == <<"sealed", epoch, nonce, aad, plain>>

\* The number of bytes of a payload, and of its content type in TLS 1.3.
DataLen(payload) == payload.len
Opens(epoch, nonce, aad, cipher) ==
    ~down /\ cipher[1] = "sealed" /\ cipher[2] = epoch /\ cipher[3] = nonce /\ cipher[4] = aad

\* What is left of a record too short to hold a tag.
TooShort == <<"too short">>

-----------------------------------------------------------------------------
(* Sending *)

RecordInit ==
    /\ protocol \in Protocols
    /\ writer = [epoch |-> 0, seq |-> 0, state |-> "open"]
    /\ reader = [epoch |-> 0, seq |-> 0, state |-> "open"]
    /\ network = {}
    /\ sent = <<>>
    /\ delivered = <<>>
    /\ down = FALSE

Tls13Encrypt(epoch, seq, payload) ==
    [typ |-> "application_data", explicit |-> {}, len |-> DataLen(payload) + 1,
     cipher |-> Sealed(epoch, Nonce(epoch, seq), make_tls13_aad(DataLen(payload) + 1), payload)]

Tls12Encrypt(epoch, seq, payload) ==
    [typ |-> payload.typ, explicit |-> Explicit(epoch, seq), len |-> DataLen(payload),
     cipher |-> Sealed(epoch, Tls12WriteNonce(epoch, seq),
                       make_tls12_aad(seq, payload.typ, DataLen(payload)), payload)]

Tls12ChaChaEncrypt(epoch, seq, payload) ==
    [typ |-> payload.typ, explicit |-> {}, len |-> DataLen(payload),
     cipher |-> Sealed(epoch, Nonce(epoch, seq),
                       make_tls12_aad(seq, payload.typ, DataLen(payload)), payload)]

\* encrypt_in_place over the payload, then over the header, whose mask is
\* made from a sample of the ciphertext.
QuicForm(payload) == IF payload.typ = "handshake" THEN "long" ELSE "short"

QuicEncrypt(epoch, packet_number, payload) ==
    LET form == QuicForm(payload)
        cipher == Sealed(epoch, Nonce(epoch, packet_number), QuicHeader(form, packet_number), payload)
        header == [form |-> form, first |-> Clear("bits"), packet_number |-> Clear(packet_number)]
    IN  [header |-> apply(header, cipher), cipher |-> cipher]

Protect(epoch, seq, payload) ==
    CASE protocol = "tls13" -> Tls13Encrypt(epoch, seq, payload)
      [] protocol = "tls12 gcm" -> Tls12Encrypt(epoch, seq, payload)
      [] protocol = "tls12 chacha" -> Tls12ChaChaEncrypt(epoch, seq, payload)
      [] protocol = "quic" -> QuicEncrypt(epoch, seq, payload)

Encrypt(payload) ==
    /\ writer.state = "open"
    /\ writer.seq < MaxSeq
    /\ IF down
       THEN writer' = [writer EXCEPT !.state = "failed"] /\ UNCHANGED <<network, sent>>
       ELSE /\ writer' = [writer EXCEPT !.seq = @ + 1]
            /\ network' = network \cup {Protect(writer.epoch, writer.seq, payload)}
            /\ sent' = Append(sent, [epoch |-> writer.epoch, seq |-> writer.seq, payload |-> payload])
    /\ UNCHANGED <<protocol, reader, delivered, down>>

\* TLS 1.3 only: a KeyUpdate record, and then the encrypter of the next key.
KeyUpdate == [typ |-> "key_update", len |-> 1, id |-> 0]

SendKeyUpdate ==
    /\ protocol = "tls13"
    /\ writer.state = "open"
    /\ writer.epoch < MaxEpoch
    /\ ~down
    /\ writer' = [writer EXCEPT !.state = "rekeying"]
    /\ network' = network \cup {Protect(writer.epoch, writer.seq, KeyUpdate)}
    /\ sent' = Append(sent, [epoch |-> writer.epoch, seq |-> writer.seq, payload |-> KeyUpdate])
    /\ UNCHANGED <<protocol, reader, delivered, down>>

\* The constructors refuse in the error state, and the provider has nowhere
\* to report that: expect panics.
Rekeyed(half) ==
    IF down THEN [half EXCEPT !.state = "panicked"]
    ELSE [half EXCEPT !.epoch = @ + 1, !.seq = 0, !.state = "open"]

NewEncrypter ==
    /\ writer.state = "rekeying"
    /\ writer' = Rekeyed(writer)
    /\ UNCHANGED <<protocol, reader, network, sent, delivered, down>>

NewDecrypter ==
    /\ reader.state = "rekeying"
    /\ reader' = Rekeyed(reader)
    /\ UNCHANGED <<protocol, writer, network, sent, delivered, down>>

-----------------------------------------------------------------------------
(* Receiving *)

\* What a record opens to, as a set of at most one plaintext.
Plain(epoch, nonce, aad, cipher) == IF Opens(epoch, nonce, aad, cipher) THEN {cipher[5]} ELSE {}

Tls13Decrypt(epoch, seq, m) == Plain(epoch, Nonce(epoch, seq), make_tls13_aad(m.len), m.cipher)

\* Mutant: the number, too, is read off the record.
Tls12Decrypt_WireNumber(epoch, seq, m) ==
    Plain(epoch, Tls12ReadNonce(epoch, m.explicit),
          <<"tls12", XorWords(Iv(epoch), m.explicit), m.typ, m.len>>, m.cipher)

\* The nonce is read off the record; only the associated data has the number.
Tls12Decrypt(epoch, seq, m) ==
    Plain(epoch, Tls12ReadNonce(epoch, m.explicit), make_tls12_aad(seq, m.typ, m.len), m.cipher)

Tls12ChaChaDecrypt(epoch, seq, m) ==
    Plain(epoch, Nonce(epoch, seq), make_tls12_aad(seq, m.typ, m.len), m.cipher)

\* A header whose masks did not come off reads as some other number.
OtherNumber == -1
Number(masked) == IF masked.masks = {} THEN masked.value ELSE OtherNumber

QuicDecrypt(epoch, m) ==
    LET header == apply(m.header, m.cipher)
        packet_number == Number(header.packet_number)
    IN  IF packet_number = OtherNumber \/ header.first.masks # {} THEN {}
        ELSE Plain(epoch, Nonce(epoch, packet_number), QuicHeader(header.form, packet_number), m.cipher)

Opened(m) ==
    CASE protocol = "tls13" -> Tls13Decrypt(reader.epoch, reader.seq, m)
      [] protocol = "tls12 gcm" -> Tls12Decrypt(reader.epoch, reader.seq, m)
      [] protocol = "tls12 chacha" -> Tls12ChaChaDecrypt(reader.epoch, reader.seq, m)
      [] protocol = "quic" -> QuicDecrypt(reader.epoch, m)

\* A stream: the number is the receiver's own, a record that does not open
\* ends the connection, and none is read after a KeyUpdate until the key is
\* changed.
StreamDecrypt(m) ==
    /\ protocol # "quic"
    /\ reader.state = "open"
    /\ IF Opened(m) = {}
       THEN reader' = [reader EXCEPT !.state = "failed"] /\ UNCHANGED delivered
       ELSE \E plain \in Opened(m) :
              /\ reader' = IF plain.typ = "key_update" THEN [reader EXCEPT !.state = "rekeying"]
                           ELSE [reader EXCEPT !.seq = @ + 1]
              /\ delivered' = Append(delivered, [epoch |-> reader.epoch, seq |-> reader.seq, payload |-> plain])
    /\ UNCHANGED <<protocol, writer, network, sent, down>>

\* Datagrams: the number is in the packet, one that does not open is dropped,
\* and the caller forgets a number it has had.
PacketDecrypt(m) ==
    LET number == Number(apply(m.header, m.cipher).packet_number) IN
    /\ protocol = "quic"
    /\ \A i \in DOMAIN delivered : delivered[i].seq # number
    /\ \E plain \in Opened(m) :
          delivered' = Append(delivered, [epoch |-> reader.epoch, seq |-> number, payload |-> plain])
    /\ UNCHANGED <<protocol, writer, reader, network, sent, down>>

RecordModuleFails ==
    /\ ~down
    /\ down' = TRUE
    /\ UNCHANGED <<protocol, writer, reader, network, sent, delivered>>

\* What the network may hand over: what was sent, with any part of it that
\* is not ciphertext changed, or cut short.
Arriving ==
    IF protocol = "quic"
    THEN network \cup {[m EXCEPT !.header.form = f] : m \in network, f \in {"long", "short"}}
                 \cup {[m EXCEPT !.header = n.header] : m, n \in network}
    ELSE network \cup {[m EXCEPT !.typ = t] : m \in network, t \in ContentTypes}
                 \cup {[m EXCEPT !.explicit = n.explicit] : m, n \in network}
                 \cup {[m EXCEPT !.len = n.len] : m, n \in network}
                 \cup {[m EXCEPT !.cipher = TooShort] : m \in network}

RecordNext ==
    \/ \E payload \in Payloads : Encrypt(payload)
    \/ SendKeyUpdate
    \/ NewEncrypter
    \/ NewDecrypter
    \/ \E m \in Arriving : StreamDecrypt(m)
    \/ \E m \in Arriving : PacketDecrypt(m)
    \/ RecordModuleFails

RecordSpec == RecordInit /\ [][RecordNext]_recordVars

-----------------------------------------------------------------------------
(* Properties *)

(* No nonce is used for two records under one key, whichever way the        *)
(* protocol builds it from the IV and the number, the explicit nonce of     *)
(* TLS 1.2 for which there is no specification included (aead.rs: "any      *)
(* construction that does not repeat under one key interoperates").         *)
RecordNonceOnce ==
    Cardinality({<<m.cipher[2], m.cipher[3]>> : m \in network}) = Len(sent)

(* What is delivered is what was sent: on a stream the records accepted are *)
(* the first ones sent, in order, each once and with its own content type,  *)
(* across changes of key and although TLS 1.2 with GCM takes the nonce of a *)
(* record from the record; of QUIC every packet accepted is one that was    *)
(* sent, under its own number and header (Tls13Decrypter, Tls12Decrypter,   *)
(* Tls12ChaChaDecrypter, IcPacketKey, IcHeaderKey).                         *)
DeliveredAsSent ==
    IF protocol = "quic"
    THEN \A i \in DOMAIN delivered : \E j \in DOMAIN sent : delivered[i] = sent[j]
    ELSE /\ Len(delivered) <= Len(sent)
         /\ \A i \in DOMAIN delivered : delivered[i] = sent[i]

(* The inductive invariant behind the two: the records sent are numbered    *)
(* without a gap, from zero under each key, and on a stream the receiver's  *)
(* number is the one after what it accepted.                                *)
Position(at) == [epoch |-> at.epoch, seq |-> at.seq]
After(at) ==
    IF at.payload.typ = "key_update" THEN [epoch |-> at.epoch + 1, seq |-> 0]
    ELSE [epoch |-> at.epoch, seq |-> at.seq + 1]

\* half stands behind the last of these records: at it, while it waits for
\* the next key, and after it otherwise.
Stands(half, log) ==
    IF log = <<>> THEN half.epoch = 0 /\ half.seq = 0 /\ half.state \in {"open", "failed"}
    ELSE LET last == log[Len(log)] IN
         IF half.state \in {"rekeying", "panicked"}
         THEN Position(half) = Position(last) /\ last.payload.typ = "key_update"
         ELSE Position(half) = After(last)

States == {"open", "failed", "rekeying", "panicked"}
Halves == [epoch : Nat, seq : 0..MaxSeq, state : States]
Sendable == Payloads \cup {KeyUpdate}
LogEntries == [epoch : Nat, seq : 0..MaxSeq, payload : Sendable]

RecordTypeOK ==
    /\ protocol \in Protocols
    /\ writer \in Halves /\ reader \in Halves
    /\ sent \in Seq(LogEntries)
    /\ delivered \in Seq(LogEntries)
    /\ down \in BOOLEAN

NetworkIsSent == network = {Protect(sent[i].epoch, sent[i].seq, sent[i].payload) : i \in 1..Len(sent)}

NumberedInOrder ==
    /\ Stands(writer, sent)
    /\ sent # <<>> => Position(sent[1]) = [epoch |-> 0, seq |-> 0]
    /\ \A i \in 1..(Len(sent) - 1) : Position(sent[i + 1]) = After(sent[i])
    /\ \A i \in 1..Len(sent) : sent[i].payload.typ # "key_update" => sent[i].seq < MaxSeq

InStep == protocol # "quic" => Stands(reader, delivered)

RecordInv == RecordTypeOK /\ NetworkIsSent /\ NumberedInOrder /\ InStep /\ DeliveredAsSent

(* Making the encrypter or the decrypter of a key never panics: "It also    *)
(* cannot happen, because rustls sizes the key" (Tls13Aead::encrypter).     *)
NeverPanics == writer.state # "panicked" /\ reader.state # "panicked"
=============================================================================
