# IronCrypto: a TLA+ model of what the library keeps in state

IronCrypto is a cryptographic library in Rust. Most of its code is arithmetic:
given the same bytes it returns the same bytes, and test vectors are the right
tool for it. This project is about the rest, the parts that *remember* something
between calls: the module's lifecycle and error state, counters that must never
repeat a nonce, generators that must be reseeded in time, memory that threads
fill together, a server that must stay in step with its peer, two ends of a
protocol that must agree. There the mistakes are orders of events that nobody
writes a test for. To these come a few functions of one call whose mistakes hide
at edges: where a message ends on a block, where a length changes its form.

Every module is translated from the source; `PROJECT.json` maps each definition
to the lines it stands for. Paths below are relative to `crates/`.

## 1. Inventory

| Component | Code | State | Operations | What is hard | What makes it correct |
|---|---|---|---|---|---|
| Module boundary, policy engine | `ic-fips/src/lib.rs`, `ic-core/src/module.rs` | three process-wide atomics: `STATE`, `FAILED`, `SELF_TESTS` | `initialize`, `set_mode`, `check`, `guarded`, `enter_error_state`, `conditional_self_test`, `operational` | no lock: every call is several atomic accesses and all threads interleave | operational only after the tests passed; after a reported failure everything is refused; the mode is the one the operator set |
| Known-answer tests | `ic-fips/src/selftest.rs` | none of its own; a report | `run_all_self_tests`, `run_self_test` | tests use the primitives that the gate guards | a round counts each test once |
| Counter-nonce streams | `ic-cipher/src/sealer.rs` | `Sealer::counter`, `Opener::next` | `new`, `resume`, `seal`, `open` | crash between seal, persist and send; replay, loss, reordering; counter limit | no nonce leaves twice; the receiver gets an ordered, at-most-once stream |
| HPKE contexts | `ic-hpke/src/lib.rs` | `Context::seq` on both sides | `seal`, `open` and their in-place forms, `export` | one counter for sealing and opening; both sides share key and nonce | no nonce twice on a side; forgeries do not desynchronize |
| Random generation | `ic-drbg`, `ic-core/src/entropy.rs` | key and value of a DRBG, `reseed_counter`, `calls_since_reseed` | `from_os`, `from_entropy`, `fill`, `reseed_from_os`, `instantiate`, `reseed`, `generate` | source failing or sticking midway, concurrent seeding, limits of two nested counters | outputs never repeat, never older than the interval |
| Seal tool | `ic-cli/src/mcp.rs`, `ops.rs` | `MEMORY`: a lazily created, locked set of fingerprints | `crypto_seal` = `random_nonce`, `claim_nonce`, `seal_hex` | creation race, look-then-insert, memory full, failure after the claim | no (key, nonce) pair sealed under twice in a process |
| MCP server loop | `ic-cli/src/mcp.rs` | position in a byte stream | `serve_on`, `handle` | bounded reads, recovery from an oversized message, end of stream anywhere | one response per message, in order, in bounded memory |
| AEADs and modes | `ic-cipher/src/{chacha,gcm,gcm_x86,gcm_siv,modes}.rs` | a block counter, a queue of blocks to hash, the caller's buffer | seal, open, apply | kernels of several widths on one message; a counter of 32 bits; decrypting before verifying; the module failing midway | each keystream byte once; everything authenticated; nothing unverified released |
| Key wrap | `ic-cipher/src/keywrap.rs` | none | `wrap`, `unwrap` of KW and KWP | the header's length, the padding, the single semiblock | unwraps exactly what was wrapped |
| Secret sharing | `ic-cipher/src/shamir.rs`, `gf.rs` | none | `split`, `combine` | a random source that fails, indices that repeat | the threshold is exact |
| Hashes, MACs | `ic-hash`, `ic-mac` | block buffer, chaining value, chunk stack, position of a reader | `update`, `finalize`, `read`, one-shot and four-lane forms | any cut of the input, reads of any length, the last block | the digest of the whole message; one stream of output |
| Key derivation, passwords | `ic-kdf` | Argon2's memory, shared by threads | `derive`, verify, rehash | threads within a slice, errors midway | no scheduling changes the hash; nothing is left behind |
| OPAQUE | `ic-hpke/src/opaque.rs` | login states of clients and server, records | registration, login | replayed, crossed, recombined messages; replaced records | both ends agree, or neither ends |
| rustls provider | `ic-rustls` | keys per connection and epoch | record and packet protection, header protection, key updates | nonces on the wire, reordering in QUIC, the module failing between key setup and use | no nonce twice; delivered as sent |
| JSON | `ic-json` | position, depth | parse, write | nesting that is counted, surrogates, numbers that pass through `f64` | accepts what nests within the limit; inverse of writing |
| DER | `ic-pkix/src/der.rs`, `ecdsa_signature.rs` | position, room | read, write, `to_der`, `from_der` | edges of the length and sign forms | one encoding for each value |
| Rest of PKIX | `ic-pkix` | none | certificates, requests, keys, PEM | | built on the reader and writer |
| Curves, RSA, ML-KEM, ML-DSA, SLH-DSA, LMS | `ic-ec`, `ic-rsa`, `ic-mlkem`, `ic-mldsa`, `ic-slhdsa`, `ic-lms` | lazily built tables | keygen, sign, verify, encapsulate | bounded retry loops, pairwise tests | mostly arithmetic |
| Ontology | `ic-ontology` | a static table | query, select | none | pure |
| Tooling | `ic-cli` (rest), `ic-vectors`, `bench` | none | reports | none | |

How they interact: every primitive that can refuse asks
`ic_core::module::operational()` first, so the module boundary is beneath all
the others; key generation and the entropy checks report failures back to it
through `conditional_self_test`. `ic-fips` adds the policy on top (`check`,
`guarded`) and runs the tests that open the gate. The seal tool draws from
`Rng` and seals with `ic-cipher`; the server loop calls the tools. HPKE and the
sealers each sit on one AEAD, and so does each epoch of a connection in the
rustls provider; OPAQUE sits on the oblivious function of `ic-ec` and on HMAC.
The server reads and writes JSON. The modules below those that use a primitive
take it as ideal; the modules about the primitives (`Aead`, `StreamingHash`) say how
far what is done with the bytes of a call deserves it.

`PROJECT.json` lists the hazards one by one, at their lines, with the properties
aimed at each.

## 2. Modules

| Module | Models | Theorems |
|---|---|---|
| `FipsModule` | the module boundary and the policy engine | `FipsModuleProofs` |
| `Lifecycle` | abstract: the state diagram of `docs/FIPS.md`, refined by `FipsModule` | |
| `SealedStream` | `Sealer`, `Opener`, the program around them, the network | `StreamsProofs` |
| `OrderedChannel` | abstract: an ordered channel that delivers at most once, refined by `SealedStream` | |
| `HpkeContext` | the two sides of an HPKE context | `StreamsProofs` |
| `Rng` | `Rng`, `HmacDrbg`, `CtrDrbg`, the entropy source | `RngProofs` |
| `SealService` | `crypto_seal` and the nonce memory | `ServicesProofs` |
| `McpServer` | the server loop | `ServicesProofs` |
| `Json` | parsing and writing JSON | |
| `Der` | reading and writing DER, ECDSA signatures in it | |
| `Argon2Lanes` | Argon2's memory and the threads that fill it | `Argon2LanesProofs` |
| `StreamingHash` | the buffers of hashes, MACs and extendable output | `StreamingHashProofs` |
| `Aead` | calls of the counter-mode ciphers and AEADs | `AeadProofs` |
| `KeyWrap` | KW and KWP | |
| `Shamir` | secret sharing | |
| `Opaque` | OPAQUE between clients and a server | `ProtocolsProofs` |
| `RecordLayer` | records of TLS, packets of QUIC | `ProtocolsProofs` |

The instances for TLC are `MCFipsModule`, `MCRng`, and four that hold several
specifications each: `MCStreams` (`SealedStream`, `HpkeContext`), `MCServices`
(`SealService`, `McpServer`, `Json`, `Der`), `MCAlgorithms` (`Argon2Lanes`,
`StreamingHash`, `Aead`, `KeyWrap`, `Shamir`) and `MCProtocols` (`Opaque`, `RecordLayer`).
In these a behaviour is of one of the specifications, chosen at the start, and
the variables of the others stay as they began: the run checks each of them as
it is, side by side.

### FipsModule

State: the three atomics (`STATE` is `FIPS_STATE`, the former being a word of
TLA+), and for each thread the access it makes next (`pc`), its request, the
index into the table of tests and the report so far. One action is one atomic
access with the computation up to the next one: `StateFailed` and `InitializeState`,
`SetModeState`, `CheckState` are the two loads of `state()` as each caller goes
on from them; `StoreTesting`, `LoadSelfTests`, `StoreStarted`, `Cast`, `CastGate`,
`StorePassed`, `StoreInitial` are `initialize` in order; `StoreError` and
`StoreFailed` are the two stores of `enter_error_state`; `ModeFailed` and `ModeLoad`
are the second look of `check`; `GateFailed`, `GateTested` and `Serve` are
`operational()` and the work behind it. A key generation may find its source of
random bytes failing, and ends in a pairwise test whose failure sets `FAILED` and
leaves `STATE` alone.

A known-answer test passes or fails freely. Constants describe the build
(`ApprovedOnly`, `StartupGate`) and the program (`Disciplined`: it starts its
threads after the first `initialize` has returned, as `docs/FIPS.md` shows it).
History variables say what has happened (`certified`, `reported`, `accepted`,
`late`, `seen`); no action of the code reads them, with the exception of
`initialized`, which is how a disciplined program waits.

Accesses are interleaved: sequential consistency. The stores and most loads are
`SeqCst`; the loads of `operational()` and `in_error_state()` are `Relaxed`, which
on weakly ordered machines may see an older value than the model allows. That
delays a refusal; it is outside what this model shows.

### SealedStream, OrderedChannel

`Seal` is `Sealer::seal` with `nonce()`; `Persist`, `Send`, `Crash` and `Resume` are the
program around it, following the rule in the documentation of `resume`: the
counter is persisted before what it sealed is sent. `Arrivals` is all that the
network may present: anything sent, again and in any order, and anything forged.
`Open` and `Refuse` are the two outcomes of `Opener::open`; `NewOpener` a receiver
that starts over. `MaxCounter` stands for `u64::MAX` and `+= 1` wraps in the
model, so the refusal at the limit is what prevents a repetition. The AEAD is
ideal: a message verifies if it is one that was sealed.

`OrderedChannel` knows nothing of counters, windows or persistence: for each
sender a set of messages sent, each with its own place, and a receiver that is
handed messages in increasing places.

### HpkeContext

`SealInPlace`, `SealRefused`, `OpenInPlace` and `OpenRefused` are the methods of
`Context` on either side, and `ContextModuleFails` the module failing beneath them.
Whether the program seals on one side or on both is the variable `talkers`,
chosen at the start.

### Rng

A DRBG's state is what went into it: a sequence of seedings and the number of
blocks since. Two blocks are the same exactly if the states they come from are;
that is what HMAC and AES are assumed to provide. A step runs from one look at
the error flag to the next, so the module can fail between the two draws'
instantiation and the generation, and a source can change at any step: it can be
working, unavailable, stuck at equal bytes, or frozen at one value. `FromOs`,
`DrawNonce`, `Instantiate` are `Rng::from_os`; `Fill`, `DrawReseed`, `Reseed`, `Generate`
and `Update` are `fill` and `reseed_from_os`; `FromEntropy`, `DirectReseed` and
`DirectGenerate` are the generators that an application drives itself. `BadInput` is
the refusal of what such an application hands in: too little entropy, too much of
anything, or a nonce and a personalization at once.

### SealService

Callers of `crypto_seal`: `CallWithNonce`, `CallWithoutNonce` and `CallRefused` are its
arguments; `FindMemory`, `DrawKey` and `SetMemory` the lazy creation of `MEMORY` in a
race; `Lock`, `Look` and `Remember` the critical section of `claim_nonce`; `SealHex` and
`SealFails` what comes after the claim. Keys and nonces are byte sequences,
because the MAC's input is their concatenation behind the key's length. A drawn
nonce may be any nonce of the right length, a repetition included.

### McpServer

`ServeOn` is the call; `ReadLine`, `Measure`, `Discard`, `Refuse` and `Serve` are the
body of the loop of `serve_on`; `ReadUntil(limit)` is
`take(limit).read_until(newline)`; `IoFails` is every `?`. The reference against which
the output is compared, `Responses`, cuts the whole stream at its line ends with
no regard to how it is read. A parser that panics ends the process (`stopped`): the
release build aborts on a panic, and section 4 has one.

### Json

`Parse` and `WriteAndParse` are calls of `Value::parse` and of `to_string` followed by a
parse. The parser is the recursive descent of the code, an operator for each of
its functions, with `depth` going up and down as it does there. Characters are the
atoms of a small Unicode that keeps what strings are about: control characters,
the two ranges of surrogates and what lies beyond them, one of the escapes by
letter, and `\u` with one digit instead of four. `JsonExact` compares the parser
with the grammar through the writer: a value is accepted exactly if it does not
nest too deeply, and a text that is accepted is written to a text of the same
value, as long as no number in it is infinite, and only then.

A number is a float of three significant bits, the least of which is a half: 17
magnitudes, the last of them infinite, to which a text of digits, a point and an
exponent is rounded, to the nearest and halfway to even, as `parse::<f64>()` does
(`ToFloat`). They are written as in the code, in two ways: as an integer below
`EXACT`, which is 9e15 in the code, and by `Display` otherwise. The conversions are the
core library's, and external. Not told apart are 0 and -0, which compare equal.

### Der

`ReadElement` and `WriteElement` are the operations of `Reader` and of the backward
`Writer` for each kind of element; `ToDer` and `FromDer` those of
`ecdsa_signature.rs`. A byte has `BYTE` values instead of 256, so both forms of a length and both sides
of a sign bit are within a few bytes. `DerCanonical` is stated both ways: what is
read is, byte for byte, what writing the value gives, and what is written is
read back.

### Argon2Lanes

The state is the arena, the batches of lanes that the threads of a slice have
taken, and where each thread is. A block's content is the number of passes that
have filled it, which is all that tells a right read from a wrong one. `LaneCall`
is `run` up to the arena's check, `LaneMain` its loop over passes and slices, one
segment after another or threads for each batch of lanes, and the wiping at the
end; `LaneWorker(w)` fills one block. The words `j1` and `j2` that pick the reference
are pseudorandom, hence arbitrary: `ReadsSettled` is stated for all of them, with
the code's own multiplication, on words of `WordValues` values.

### StreamingHash

Thirteen constructions, each with its own rule for the buffer: SHA-2 with and
without the hardware path, HMAC over both, Poly1305, BLAKE2 with and without a
key, CMAC, SHA-3, SHAKE, four SHAKE lanes at once, BLAKE3 with its chunk stack.
Byte i of a message is the number i and a chaining value is the sequence of what
was compressed into it. `HashUpdate`, `HashFinalize`, `OneShot`, `FinalizeReader`, `X4`,
`Blake3Finalize`, `Blake3FinalizeXof` and `HashRead` are the calls. The reference is
the definition of each function on the whole message: padded, cut, and for
BLAKE3 the tree by its recursive rule of the largest power of two.

### Aead

A byte of the buffer is its place and the set of keystream bytes that are on it,
so that a byte encrypted twice is one that is plain again; a tag is the blocks
it was computed over. `AeadCall` is the constructor's and the call's checks; `Inner`,
`Short`, `Long`, `XorStep` and `TagStep` are ChaCha20-Poly1305, by the backend and the
length of the message; `GcmRun` is GCM with each kernel, `SivDerive` and `SivMessage` are
GCM-SIV. Steps end where the code looks at the module's flag.

The bulk loops of GCM encrypt one group of blocks while they hash another, and
the model keeps their order (`Bulk`): sealing, the first group is encrypted alone,
each iteration then hashes the group behind the one it encrypts, and the last
group is hashed alone (`SealGroups`); opening, each iteration hashes its own group
before it overwrites it (`OpenGroups`). What an iteration reads is read before it
stores (`Stitched`). The order of the instructions within one iteration is not
modelled. The kernel of 512 bits also has a loop over half its width, which takes at
most one group; a `Bulk` of that width stands for it.

### KeyWrap, Shamir

`KeyWrapCall` and `KeyUnwrapCall` are the four functions over the one loop of six
passes. The block cipher is ideal: the halves of an encrypted block are symbols
for what was encrypted. Ciphertexts are recipes: what wrapping makes, unchanged
or with a semiblock dropped, exchanged or repeated, and what a holder of the key
could have made with a header of any length and any padding.

`Split` and `Combine` are `shamir.rs` with the field arithmetic of `gf.rs`, over a field
of `FieldBits` bits; the source fails at any byte. That fewer shares than the
threshold say nothing is stated as what it means: for every other secret there
are coefficients that give the same shares.

### Opaque

`Register` and `StoreRecord`, `LoginStart`, `LoginRespond`, `ClientFinish` and
`ServerFinish` are the functions of the protocol in the order of a login;
`Restart` loses the server's login states. The network is all that was ever sent
and every recombination of its parts. Values are tuples of what they were
computed from; a random value is what it is for and the session that drew it
(`Drawn`). `ServerLogin` is the value that `login_respond` builds, `ClientOutcome` what
`ClientLogin::finish` returns; the proofs speak of these functions.

### RecordLayer

`Encrypt` is the encrypter of each protocol; `StreamDecrypt` that of TLS, where the
number due is rustls's, and `PacketDecrypt` that of QUIC, where it is on the packet,
under header protection; `SendKeyUpdate`, `NewEncrypter` and `NewDecrypter` are the
change of key. rustls itself, which owns the numbers, is external.

## 3. Runs

| Run | Instance | Shows |
|---|---|---|
| `fips_default` | 2 threads, default build, disciplined program, 4 algorithms, 2 tests | `ModeSticks`, `ApprovedModeRefuses` |
| `fips_racing` | 2 threads that race from the start, build for approved mode with the start-up gate, 2 tests, fair | `OperationalOnlyAfterTests`, `SettledState`, `RefusedAfterFailure`, `ServedOnlyAfterTests`; `FailureBringsModuleDown` |
| `fips_diagram` | 1 thread, fair | `FipsModule` implements `Lifecycle`, its liveness included |
| `fips_error_unlatched` | 3 threads, violation | see section 4 |
| `streams` | sealers: 2 senders, 2 payloads, counters up to 2; contexts: sequence numbers up to 4, 2 payloads, fair | nonces unique through crashes, the window exact, nothing that was sent stranded at the limit, refinement of `OrderedChannel`; no nonce twice, no reflection, prefix order, staying in step |
| `rng` | two `Rng`s on one source, and an `Rng` beside a bare DRBG; interval 4 | `OutputsFresh`; `ExhaustionNeverSurfaces`: the DRBG's limit never surfaces from an `Rng`; `OutputsDistinct`: no block twice, from one generator or from two |
| `services` | 2 callers, 4 pairs, memory of 2; bound 2, chunks of 2, every stream of up to 5 bytes and of up to 9 bytes without blanks and notifications; some 110,000 texts and values; DER of up to 40 bytes; the server fair | `PairOnce`, `RefusedOnlyIfClaimed`; `OneResponsePerMessage`, `EndsWithInput`; `JsonExact`; `DerCanonical` |
| `seal_service_full` | the same, violation | see section 4 |
| `json_surrogates` | the same, violation | see section 4 |
| `algorithms` | see the bounds | `SlicesInStep`, `ReadsSettled`, `ArenaWiped`; `DigestOfWholeMessage`, `OutputIsOneStream`; `KeystreamOnce`, `TagOverEverything`, `NothingUnverified`; `UnwrapExact`; `ThresholdExact` |
| `protocols` | 2 users, 2 passwords, 4 sessions; 3 payloads, records 0 to 3, 1 key update | `LoginAgreement`, `RightPasswordSucceeds`; `RecordNonceOnce`, `DeliveredAsSent` |
| `provider_panics` | the same, violation | see section 4 |

Why the bounds are enough:

* *Threads, callers, sessions.* The safety properties listed in section 5 are proved
  for any number of them and any limits; the runs find out cheaply whether the
  formulas hold. The violation that needs three threads has three.
* *Tests.* Two tests, of which one can be refused by the gate, give every
  combination of passing, failing and being refused, first and last.
* *Algorithms.* One for each answer of `check`: permitted, permitted as a
  component, not permitted, not in the build, unknown.
* *Counters.* Streams start at any counter up to and including the limit, so
  they meet it at once and after several messages.
* *Interval.* Four calls, so that half of it is two: one block before the reseed
  is due and one after differ.
* *Generators.* Two on one source are what it takes to start alike: `from_os` draws
  twice, so five draws seed both and leave one for a reseed, and the source may
  hand out what it has handed out before at each of them; three blocks are one of
  each generator, or one generator's from before and after a reseed. A bare DRBG needs five blocks,
  one more than its interval, and an `Rng` beside it three draws. The two `Rng`s are
  symmetric: the properties and every action treat all of `Rngs` alike, and the run
  checks no liveness.
* *Keys and nonces.* Of one and two bytes, so that one string of three bytes is
  a pair in two ways.
* *Streams.* Nine bytes with a bound of two hold an oversized message that takes
  three rounds to discard, with messages before and after it.
* *JSON.* A limit of three levels, with texts that go to four, close and open
  again; every string of up to six of the characters that escapes consist of, so
  every order of two escapes, with a second one below, within and above the low
  surrogates; numbers of up to five characters, which reach zero, every float, the
  points halfway between two, infinity, and both sides of the edge between the
  two ways of writing.
* *DER.* With 32 values of a byte the short form of a length ends at 15, and
  contents of 14, 15, 16 and 32 bytes are on both sides of every edge; a length
  takes up to two bytes, a word has two.
* *Argon2.* One lane, two and three, one pass and two, memory that is not a
  multiple of what the lanes need and memory below the least, an arena that is
  too small and one that is too large, one to three threads, so that a batch has
  one lane, two, or fewer than the others. Words of 4 bits make every reference
  window larger than some and smaller than other values of `j1`.
* *Hashes.* Blocks of 4 bytes, pieces of up to 9: pieces that are empty, end on a
  block, or span two. Messages of up to 44 bytes, which in BLAKE3 are five chunks
  of two blocks and half of another, so that the tree is unbalanced and the stack
  merges twice at once.
* *AEADs.* Blocks of 2 bytes and a counter of 64 values: lengths 0 to 52 pass every
  seam between the widest group, the narrow ones and single blocks; lengths 122
  to 130 are those at which the counter ends.
* *Key wrap.* One to three semiblocks, every length at an end of one; a length
  field of 16 bits, whose last values are where the subtraction wraps.
* *Sharing.* GF(8), with thresholds 2 to 4 of up to 5 shares.
* *OPAQUE.* Four sessions: a registration and three more, or a second
  registration that replaces the record, among two clients and two logins of
  the server. Users and passwords are symmetric. One of the identities that a
  caller may pass is the server's own public key, which is what an identity left
  out stands for.
* *Records.* Four numbers and two epochs: a record of the old epoch after the
  change, and the same number in both.

`Rng` bounds the source's draws, the seedings and the blocks returned (`MaxDraws`,
`MaxChain`, `MaxOutputs`; `MCRng` tightens them by `PairOutputs` and `MixedDraws`, and chooses at
the start which two generators a program has), `Opaque` the sessions (`MaxSessions`), `RecordLayer` the
records and the epochs (`MaxSeq`, `MaxEpoch`), `StreamingHash` the message and the
output (`MaxLen`, `MaxOut`); every other specification is finite as it stands.
Deadlock is not checked in `algorithms` and `protocols`: a call that has returned, a
program whose sessions are over and a module that has failed may stop there.
Everywhere else it is.

Fairness. `FipsModule`: weak fairness of each thread's steps *inside* a call; a
thread that has entered the library runs until it returns, and nothing makes it
call. `services`: the loop of the server runs as long as it can, and a process that
its parser has stopped has ended; nothing is claimed of when a caller of the seal
tool gets the lock, of which the mutex promises no order. `streams`:
weak fairness of the receiver of a context opening what can be opened, which is
the network presenting it again. Everything else is safety only: the code waits
for nobody.

Each property of a passing run has a mutant: a plausible bug in a definition of the model under
which the property is violated (section "mutants" of `PROJECT.json`; the mutated
forms stand before the definitions they replace).

## 4. Where the code and its documentation disagree

* **The error state can be left for a moment** (`fips_error_unlatched`).
  `ic_fips::enter_error_state` stores `STATE` before it sets `FAILED`; a `set_mode` that
  passed its check before stores an operational state in between. `docs/FIPS.md`
  says that the error state latches. The refusal that follows is permanent:
  `RefusedAfterFailure` holds, and is proved, from the moment the failure has been
  reported.
* **A full nonce memory refuses everyone** (`seal_service_full`). After 65536
  claims every call of `crypto_seal` is refused, also one that follows the advice
  of the error message and omits the nonce.
* **A lone surrogate is not always replaced** (`json_surrogates`). After a high
  surrogate the parser takes any escape for its other half: another escape makes
  the text an error, and `\u` with a number below `DC00` makes `low - 0xDC00`
  (`ic-json/src/lib.rs:313`) go below zero, which stops the program in builds that
  check overflow. The comment there says that a lone surrogate becomes the
  replacement character rather than an error.
* **The rustls provider can panic** (`provider_panics`). `Tls13Aead::encrypter` and its
  siblings call `expect` on AEAD constructors with the comment that a failure
  cannot happen because rustls sizes the key; the constructors also refuse when
  the module has failed.

Smaller observations, made while modelling and not given a run of their own:

* An `initialize` of a module that is operational runs the tests again and returns
  `Ok` with the failures in the report; the module stays operational
  (`ic-fips/src/lib.rs:173`). The function's documentation (lines 151 to 154) says
  that any failing test latches.
* GCM-SIV enforces no limit of length although its block counter has 32 bits;
  `KeystreamOnce` is stated of messages that the counter has blocks for
  (`WithinCounter`).
* A ChaCha20-Poly1305 seal during which the module fails returns an error with the
  buffer encrypted and no tag: nothing secret, but the caller's plaintext is gone.
* The header protection of `ic-rustls/src/quic.rs` masks as many bytes as it is
  given; that these are the bytes of the packet number is left to its caller.
* `push_header` of `ic-pkix/src/der.rs` checks `n <= 4` after it has indexed with `n`;
  the check cannot fail.
* Not everything that `ic-json` emits parses: `1e999`, or four hundred digits, parses to
  infinity (`lib.rs:351`), and infinity is written as `inf` (`lib.rs:121`), which is not
  JSON. The server writes the id of a request back (`ic-cli/src/mcp.rs:803`, `780`), so such
  an id is answered in a line that does not parse. A test says that whatever the
  project emits must still parse (`ic-json/src/lib.rs:566`). `JsonExact` shows that
  infinite numbers are the only such case.
* The number parser of `ic-json` takes what `f64` takes, such as `01` and `1.`, which
  the grammar of JSON does not have.
* `ModeSticks` needs `Disciplined`: two threads that both call `initialize` can undo a
  `set_mode` in between, because the slower one ends with an unconditional store
  of the initial mode (`ic-fips/src/lib.rs:190`).
* `check` asks for the mode after it has asked whether the module is
  operational; if the module fails in between, the mode is none and the refusal
  of approved mode is skipped (`lib.rs:316`). `ApprovedModeRefuses` is stated of
  calls during which the module was in approved mode throughout.
* `crypto_seal` claims the pair before it looks at the rest of its arguments
  (`mcp.rs:577`), so a call that fails on its `aad` has used its nonce up, and a
  corrected retry is told that the pair was used to seal.
* The bound of the server counts the line end (`mcp.rs:907`): a terminated message
  of exactly `MAX_MESSAGE` bytes is answered "message larger than". A comment in
  its tests says that a message at the bound is accepted; the test uses a
  smaller one. The reference of `OneResponsePerMessage` counts as the code does and
  does not judge it.
* `docs/FIPS.md` gives numbers of tests (64 and 85, at lines 157 and 221) that are
  not those of the table (65 and 90). `integrity_check`, which the same document
  says is not an image integrity test, is not called by `initialize` either; only
  the command line calls it.

## 5. Proofs

TLAPS checks every proof. The assumptions are those of the constants, named in
the modules that declare them; TLC evaluates them on each run. The inductive
invariants (`IndInv`, `ContextInv`, `ServerInv`, `LaneInv`, `AeadInv`, `RecordInv`,
`OpaqueInv` and their parts) are
stated in the modules, and were checked with TLC before they were proved; the
runs check what follows from them.

**`FipsModuleProofs`** — for any number of threads, any registry, any table of
tests, all builds.

* `Invariance`: `Spec => []IndInv`. None of the safety properties is inductive.
  `OperationalOnlyAfterTests` needs that a thread about to store an operational
  state (`store_mode`, `store_initial`) has seen the tests pass, which needs what
  the report has counted (`ReportCounts`), which needs to know which call can be
  at which access (`CallShape`). `Settling` says who will put right each
  combination of flags that is not yet right, and `Latching` what a thread that
  called after a reported failure can still do.
* From it: `TypeCorrect`, `TestedBeforeOperational`, `Settles`, `RefusesAfterFailure`,
  and `GateHolds` for builds with the start-up gate.
* `ModeOfDisciplinedPrograms`: `ModeSticks`, from `IndInv` and `Discipline` together.
* `PolicyHolds`: the action property `ApprovedModeRefuses`. What a `check` has seen of
  the state (`seen`) is related to where it is between its two looks (`Looking`); a
  thread that accepts what is not permitted then has seen a mode other than
  approved, or a module that failed.
* `DiagramFollowed`: with one thread every step is an arrow of `Lifecycle` or none, the
  safety part of the refinement. `initialize` and `enter_error_state` are several stores,
  so the proof needs what nobody else can have changed between them
  (`Undisturbed`).

**`StreamsProofs`** — for any senders, payloads, counter width and limit of the
sequence number.

* `StreamInvariant`: what is persisted is never ahead of the counter
  (`SavedBelowCounter`), everything sent is below what is persisted
  (`SentBelowSaved`), a message not yet sent has a counter no sent one has
  (`UnsentFresh`), and the window of an opener follows the last message it opened
  (`WindowFollowsOpened`, `OpenedInOrder`). From it `NoNonceReuse`,
  `WindowIsExact` and `NeverStranded`: the limits of the two ends fit, so that
  whatever left can still be opened.
* `StreamImplementsChannel`: every step maps to a step of `OrderedChannel` or to
  none.
* `ContextInvariant`: every call that succeeded counted once (`EveryCallCounts`), so a
  side's number is the calls it has made, and its messages have increasing
  numbers below it (`SealedInOrder`). From it `NoncesOnce`, `NeverReflected` (a
  message of one's own always has a number one has passed) and, where one side
  seals, `PrefixOpened`.

**`RngProofs`** — for any generators and interval.

* `RngInvariant`: `calls_since_reseed` and `reseed_counter` agree in every state, in
  the middle of a failing call too. From it `NeverStale` and `NeverExhausted`.
* `NoBlockTwice`: `OutputsDistinct`, for which `IndInv` says too little. `Separation` adds
  where each seeding comes from: a draw of the source goes into one generator
  (`SeedOrigin`, `OneSeedEach`), and what was returned came from a state that its
  generator has left behind (`OutputHistory`). Two equal blocks would be equal
  states, hence one generator at one count, which has moved on in between.

**`ServicesProofs`** — for any callers, keys, nonces and `NONCE_MEMORY`; for any
streams and any bounds on a message and on a piece of what is discarded.

* `MacInputInjective`, a lemma: with the length prefix, equal MAC inputs come
  from equal keys and nonces.
* `ServiceInvariant`: the lock is held by the one caller in the critical section,
  the memory knows exactly the claimed pairs, and a claim belongs to one call
  and is unused until that call seals. `PairOnce` alone is not inductive, since
  nothing in it speaks of callers that are about to seal. From it
  `PairsSealedOnce`, `FreshPairsPass` and `MemoryStaysBounded`.
* `ServerInvariant`: the messages of a stream are its pieces between cuts, which
  depend on the stream alone. Between two messages the loop is at a cut and has
  dealt with exactly the messages before it (`DealtWith`); within one it holds all
  of the message, or more of it than it accepts, or has thrown away a part of it
  that has no line end (`MessageUnderWay`). `OneResponsePerMessage` is not inductive:
  nothing in it says that the discarding loop ends at the right place. That a
  message ends at one place only is the least element of the cuts after it, so no
  induction over the stream is needed. From it `ServerAnswersEach`.

**`ProtocolsProofs`** — for any payloads, epochs, numbers and width of the IV; for any
users, passwords, identities, contexts and sessions.

* `RecordInvariant`: the network holds exactly what protecting the log of what was
  sent gives (`NetworkIsSent`), the log is numbered without gaps through changes of
  key (`NumberedInOrder`), and a reader of TLS stands where the log of what it
  delivered ends (`InStep`). From it `OnlyWhatWasSent` and `NoncesOfRecords`.
* The nonce is the IV combined by exclusive or with the number, bit by bit.
  That different numbers give different nonces (`WordInjective`, `XorInjective`) is
  proved from the halving that shifts a word: if two numbers had the same bits
  throughout, take the least number that another one agrees with.
* `OpaqueInvariant`. `LoginAgreement` speaks of ends of logins, and a step that ends one
  needs to know what the other side holds: a registration and a login of the
  server are what the functions of the protocol make of what they keep
  (`RegistrationsOK`, `ServersOK`), a record of the server was registered by its user
  (`RecordsOK`), and a client that is done holds the KE3 that its partner expects
  (`ClientsOK`). `Accepted` is the argument: the MAC of an answer comes from some login
  of the server, whatever the network put together around it (`NetworkMac`); equal
  MACs have equal transcripts; the transcript has the masked response, which
  opens only with the password's masking key, which only a registration with
  this password has made. In the other direction `LoginsTell`: the expected KE3
  has the server's nonce in it, so it is of one login.
* From it `LoginsAgree` and `RightPasswordSuffices`, the latter by computing both sides.

**`Argon2LanesProofs`** — for any lanes, passes, memory, threads, arena and words.

* `LaneInvariant`: where the geometry's segments lie in the arena (`ArenaOK`), which
  blocks each thread of a slice has still to fill (`BatchesOK`: batches are disjoint
  and ordered), how far each pass is (`PassOK`). From it `FilledInStep` and
  `NothingLeft`.
* `ThreadsReadSettled`: whatever the pseudorandom words, the block that a thread
  reads was filled before its slice began or by the thread itself. It follows
  from bounds on the reference window: the code's multiplications and shifts
  pick a place within it, and it ends before the block being filled in the own
  lane and before the slice in another.

**`AeadProofs`** — for any calls of any length, size of a block, number of counter
values and width of the narrow kernel. `AeadAssumption` asks for a counter of at
least four values, the blocks that the short path of ChaCha20-Poly1305 makes at
once.

* `AeadInvariant`: before the one step that xors, the buffer is as given, after it
  the whole buffer is the other text (`UntilXored`); a call that returned left the
  buffer, the tag's input and the counter as its verdict says (`AsReturned`).
* Beneath it are lemmas about the kernels. `GroupsReach` and `RestIsAll`: groups of
  blocks of decreasing width, each starting where the one before it stopped and
  with its counter, reach every byte of the message exactly once, with the pad of
  its own block. A loop that hashes while it encrypts is behind with the hash by one
  group when it seals and by none when it opens, before and after each iteration
  (`Lagging`, `StitchedLags`, `IteratedLags`); what it hashes is the ciphertext in either
  direction, for it reads before it stores (`HashGroupAdvances`, `XorGroupAdvances`). So each loop
  ends with exactly the ciphertext of what it has done in the hash (`SealInStep`,
  `OpenInStep`, `BulkInStep`, `LoopsInStep`). `PaddedSplit`,
  `WholeExtends` and `PushedContent`: pushing pieces of whole blocks into the hash is
  the same as padding the whole and cutting it. The recursive functions that drive
  the loops are taken at the least step at which the claim would fail.
* From it `AeadKeystreamOnce`, for which counters within the limit are shown to
  wrap onto different values, away from those reserved for tag and key
  (`WrapDistinct`, `ReservedApart`, `CountersLeft`), `AeadTagOverEverything` and
  `AeadNothingUnverified`.

**`StreamingHashProofs`** — for any sizes of a block, a rate, a length field, a digest
and a chunk, and for messages of any length in pieces of any. `HashAssumption` asks that
a block holds a digest and a length field with a byte between them, and that no
rate or chunk is empty.

* `HashInvariant`: what is compressed and what waits in the buffer together are the
  message fed so far. Where the cut between the two lies is what the constructions
  differ in: SHA-2 and Poly1305 keep less than a block (`EagerHolds`), BLAKE2 and CMAC keep
  the last block until more is known to follow (`LazyHolds`), HMAC keeps two hashers
  of which one has only its pad (`Fed`), and the sponge has zeros behind what it took
  (`SpongeHolds`). A reader stands where the bytes read end (`SpongeRead`, `RootRead`): the
  sponge may have permuted before or after the last byte of a block, which is why
  `SpongeRead` leaves that open. `DigestOfWholeMessage` says nothing of a hasher still
  being fed, hence is not inductive.
* From it `DigestsOfWholeMessages`, for every construction but BLAKE3, and `OneStream`,
  which is `OutputIsOneStream` for all three streams, the root of BLAKE3 among them.
  For each construction there are lemmas about a piece more and about the end of the
  message (collected in `UpdateInv` and `FinalizeInv`), and about the paths beside them: the pure one-shot of SHA-NI,
  HMAC's one call, and lanes hashed in step, which take the blocks that each lane
  alone would take.
* The loops `Rounds` take their body as an operator. The proofs name the bodies
  (`Round`), show once that the intermediate states form a function (`RoundsExist`), and
  take the least round at which a claim about them would fail, so no theorem with
  an operator parameter is needed.

Only model-checked: everything with fairness (`FailureBringsModuleDown`, the
liveness of `ImplementsDiagram`, `StaysInStep`, `EndsWithInput`), which is
outside what this prover does; `JsonExact`, `DerCanonical`, `UnwrapExact` and
`ThresholdExact`; and `DigestOfWholeMessage` for BLAKE3. `Json` is written with
RECURSIVE operators and `KeyWrap` and `Shamir` use bitwise operators, neither of which
the prover's back ends take. What they compute is recursion over data in any
case, and so are what `Der` computes and the tree of BLAKE3, which is of any depth: the
induction theorems of the library take an operator, which these back ends cannot
instantiate. For numbers the proofs go around it with the least element of a set of
counterexamples.

## 6. What is not modelled

* Arithmetic (block ciphers, compression functions, fields, curves, lattices,
  big integers): out of TLC's reach, and functions of their input. The
  repository covers it with vectors, Kani and SMT proofs. This is most of the
  repository by lines: the kernels of `ic-ec` and `ic-rsa` alone
  (`ifma_kernels.rs`, `p384_x86_point.rs`, `p256_x86_point.rs`, `uint/x86.rs`) are some 50,000
  lines of straight-line code without a branch or a state, most of it generated, and the registry of
  `ic-ontology` is a table. The share of lines that the map covers is small for
  that reason, and grows little with every behaviour modelled.
* Functions of their input that hold no state and have few edges: RSA's paddings,
  the tree walks of SLH-DSA and LMS (LMS only verifies, so there is no key state to
  lose), signature dispatch, certificates, requests and PEM beyond the DER they
  are made of, password encodings, the ontology's queries.
* The handlers of single tools behind the server loop, other than `crypto_seal`:
  none keeps a state.
* Constant time and the wiping of memory: properties of machine code.
* Weak memory: see `FipsModule`.
* Cryptographic strength: AEADs, HMAC and AES are ideal here.
* A process image that is duplicated (fork, snapshot): the code does not detect
  it and promises nothing.

## 7. Plan

What can be added, in order:

1. Theorems: the stack of chunks of BLAKE3 against its tree, the rest of
   `DigestOfWholeMessage`.
2. `RetryLoops`: the bounded retries of RSA, ECDSA and ML-DSA, the u16 counter of
   ML-DSA's rejection loop (`ic-mldsa/src/scheme.rs:817`) and their errors.
3. Password migration (`ic-kdf/src/password.rs`); `Select` of the ontology; PEM.
