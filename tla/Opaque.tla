------------------------------- MODULE Opaque -------------------------------
(***************************************************************************)
(* OPAQUE-3DH (ic-hpke/src/opaque.rs): registrations, the records a server  *)
(* keeps, and logins of several clients against several login states of the *)
(* server, over a network that loses, repeats, reorders and crosses         *)
(* messages and puts parts of one in the place of parts of another.         *)
(*                                                                          *)
(* Cryptography is symbolic.  A value is a tuple whose first component says *)
(* what it is; a hash, a MAC or a derived key is the tuple of what it was   *)
(* computed from, so that two are equal exactly when their inputs were; a   *)
(* random value is named by the session that drew it.                       *)
(***************************************************************************)
EXTENDS Integers, FiniteSets

CONSTANTS
    Users,          \* credential identifiers
    Passwords,
    Registrations,  \* registration sessions, numbered
    Clients,        \* login sessions of clients, numbered
    Servers,        \* login sessions of the server, numbered
    Args,           \* what a caller may pass: client and server identity, context
    MaxSessions     \* bound on the sessions that are ever begun

ASSUME OpaqueAssumption ==
    MaxSessions \in Nat /\ Registrations \subseteq Nat /\ Clients \subseteq Nat /\ Servers \subseteq Nat

\* An identity that the caller leaves out, and one that is not allowed.
Default == <<"default">>
Empty == <<"empty">>

VARIABLES
    registrations,
    records,        \* what the server's application keeps: user -> record
    clients,
    servers,
    failed          \* the module is in its error state

opaqueVars == <<registrations, records, clients, servers, failed>>

-----------------------------------------------------------------------------
(* The OPRF in its base mode, and Diffie-Hellman *)

Blind(session, password) == <<"blinded", session, password>>
BlindEvaluate(user, blinded) == <<"evaluated", user, blinded>>

\* Mutant: the password is not hashed in again.
Finalize_BlindOnly(password, session, evaluated) ==
    LET blinded == evaluated[3] IN
    IF blinded[2] = session
    THEN <<"oprf", blinded[3], evaluated[2], blinded[3]>>
    ELSE <<"oprf of another", blinded[3], session, evaluated>>

\* Unblinding with the blind of another session gives another element; the
\* password is hashed in a second time.
Finalize(password, session, evaluated) ==
    LET blinded == evaluated[3] IN
    IF blinded[2] = session
    THEN <<"oprf", password, evaluated[2], blinded[3]>>
    ELSE <<"oprf of another", password, session, evaluated>>

diffie_hellman(private, public) == {private, public}

\* The three shared secrets that the keys of a login are derived from.
Ikm(ephemeral, server, client) == <<ephemeral, server, client>>

\* A nonce or a key share: what it is for, and the session that draws it.
Drawn(what, session) == <<what, session>>

ServerPublicKey == <<"server key">>

-----------------------------------------------------------------------------
(* Envelope and keys *)

Identities(server_pk, client_pk, args) ==
    [server |-> IF args.server = Default THEN server_pk ELSE args.server,
     client |-> IF args.client = Default THEN client_pk ELSE args.client]

\* The lengths that identities and preamble_hash insist on.
BadLength(args) == args.server = Empty \/ args.client = Empty

\* The OPRF output, stretched by the key stretching function.
randomized_password(output) == <<"RandomizedPassword", output>>

MaskingKey(rwd) == <<"MaskingKey", rwd>>
AuthKey(rwd, nonce) == <<"AuthKey", rwd, nonce>>
ExportKey(rwd, nonce) == <<"ExportKey", rwd, nonce>>
ClientKey(rwd, nonce) == <<"PrivateKey", rwd, nonce>>

EnvelopeTag(auth_key, nonce, server_pk, ids) ==
    <<"tag", auth_key, nonce, server_pk, ids.server, ids.client>>

Masked(masking_key, masking_nonce, server_pk, nonce, tag) ==
    <<"masked", masking_key, masking_nonce, server_pk, nonce, tag>>

\* With another key or nonce the pad is another, and noise comes out.
Unmask(masking_key, masking_nonce, masked) ==
    IF masked[2] = masking_key /\ masked[3] = masking_nonce
    THEN [server_pk |-> masked[4], nonce |-> masked[5], tag |-> masked[6]]
    ELSE [server_pk |-> <<"noise">>, nonce |-> <<"noise">>, tag |-> <<"noise">>]

\* The part of KE2 that the preamble covers.
Prefix(ke2) == <<ke2.evaluated, ke2.masking_nonce, ke2.masked, ke2.server_nonce, ke2.keyshare>>

\* Mutant: the transcript begins with the answer.
Preamble_NoKe1(context, ids, ke1, ke2) == <<context, ids.client, <<>>, ids.server, Prefix(ke2)>>

Preamble(context, ids, ke1, ke2) == <<context, ids.client, ke1, ids.server, Prefix(ke2)>>

DeriveKeys(ikm, preamble) ==
    [km2 |-> <<"ServerMAC", ikm, preamble>>, km3 |-> <<"ClientMAC", ikm, preamble>>,
     session_key |-> <<"SessionKey", ikm, preamble>>]

ServerMac(keys, preamble) == <<"mac", keys.km2, preamble>>
ClientMac(keys, preamble, server_mac) == <<"mac", keys.km3, <<preamble, server_mac>>>>

-----------------------------------------------------------------------------
(* Registration *)

NoRecord == [client_pk |-> <<"none">>]
Idle == [stage |-> "idle"]
Refused(error) == [stage |-> "refused", error |-> error]

Begun == Cardinality({r \in Registrations : registrations[r] # Idle})
         + Cardinality({c \in Clients : clients[c] # Idle})
         + Cardinality({s \in Servers : servers[s] # Idle})

\* A session is begun under the next number.  A call that is refused begins
\* none.
Begin(n, sessions) ==
    /\ ~failed
    /\ sessions[n] = Idle
    /\ \A m \in DOMAIN sessions : m < n => sessions[m] # Idle
    /\ Begun < MaxSessions

OpaqueInit ==
    /\ registrations = [r \in Registrations |-> Idle]
    /\ records = [u \in Users |-> NoRecord]
    /\ clients = [c \in Clients |-> Idle]
    /\ servers = [s \in Servers |-> Idle]
    /\ failed = FALSE

\* The three messages of a registration touch nothing that another session
\* reads until the record is stored, so they are one step.
registration_start(r, password) == Blind(<<"registration", r>>, password)

registration_response(user, request) ==
    [evaluated |-> BlindEvaluate(user, request), server_pk |-> ServerPublicKey]

registration_finish(r, password, response, args) ==
    LET rwd == randomized_password(Finalize(password, <<"registration", r>>, response.evaluated))
        nonce == Drawn("envelope nonce", r)
        ids == Identities(response.server_pk, ClientKey(rwd, nonce), args)
    IN  [record |-> [client_pk |-> ClientKey(rwd, nonce), masking_key |-> MaskingKey(rwd), nonce |-> nonce,
                     tag |-> EnvelopeTag(AuthKey(rwd, nonce), nonce, response.server_pk, ids)],
         export_key |-> ExportKey(rwd, nonce)]

Register(r, user, password, args) ==
    LET response == registration_response(user, registration_start(r, password))
        made == registration_finish(r, password, response, args)
    IN
    /\ ~BadLength(args)
    /\ Begin(r, registrations)
    /\ registrations' = [registrations EXCEPT ![r] =
         [stage |-> "finished", user |-> user, password |-> password, args |-> args,
          record |-> made.record, export_key |-> made.export_key]]
    /\ UNCHANGED <<records, clients, servers, failed>>

\* The server's application keeps the record that a client uploads, a newer
\* one in the place of an older.
StoreRecord(r) ==
    /\ registrations[r].stage = "finished"
    /\ records[registrations[r].user] # registrations[r].record
    /\ records' = [records EXCEPT ![registrations[r].user] = registrations[r].record]
    /\ UNCHANGED <<registrations, clients, servers, failed>>

-----------------------------------------------------------------------------
(* Login *)

Ke1(c, password) ==
    [blinded |-> Blind(<<"login", c>>, password), nonce |-> Drawn("client nonce", c),
     keyshare |-> Drawn("client share", c)]

LoginStart(c, password) ==
    /\ Begin(c, clients)
    /\ clients' = [clients EXCEPT ![c] = [stage |-> "started", password |-> password, ke1 |-> Ke1(c, password)]]
    /\ UNCHANGED <<registrations, records, servers, failed>>

\* A record for a user that has none: a key nobody holds, a masking key
\* nobody derives, and an envelope of zeros.
fake_record(user) ==
    [client_pk |-> <<"fake key", user>>, masking_key |-> <<"fake masking key", user>>,
     nonce |-> <<"zeros">>, tag |-> <<"zeros">>]

RecordOf(user) == IF records[user] = NoRecord THEN fake_record(user) ELSE records[user]

\* The answer to a KE1, and what the server keeps of it until the KE3.
ServerLogin(s, user, record, ke1, args) ==
    LET share == Drawn("server share", s)
        masking_nonce == Drawn("masking nonce", s)
        unsigned == [evaluated |-> BlindEvaluate(user, ke1.blinded),
                     masking_nonce |-> masking_nonce,
                     masked |-> Masked(record.masking_key, masking_nonce, ServerPublicKey,
                                       record.nonce, record.tag),
                     server_nonce |-> Drawn("server nonce", s), keyshare |-> share]
        ids == Identities(ServerPublicKey, record.client_pk, args)
        ikm == Ikm(diffie_hellman(share, ke1.keyshare), diffie_hellman(ServerPublicKey, ke1.keyshare),
                   diffie_hellman(share, record.client_pk))
        preamble == Preamble(args.context, ids, ke1, unsigned)
        keys == DeriveKeys(ikm, preamble)
        server_mac == ServerMac(keys, preamble)
    IN  [stage |-> "waiting", user |-> user, record |-> record, ke1 |-> ke1, args |-> args,
         ke2 |-> [evaluated |-> unsigned.evaluated, masking_nonce |-> masking_nonce,
                  masked |-> unsigned.masked, server_nonce |-> unsigned.server_nonce,
                  keyshare |-> share, mac |-> server_mac],
         expected_client_mac |-> ClientMac(keys, preamble, server_mac),
         session_key |-> keys.session_key]

LoginRespond(s, user, ke1, args) ==
    /\ ~BadLength(args)
    /\ Begin(s, servers)
    /\ servers' = [servers EXCEPT ![s] = ServerLogin(s, user, RecordOf(user), ke1, args)]
    /\ UNCHANGED <<registrations, records, clients, failed>>

\* What ClientLogin::finish makes of a KE2.
ClientOutcome(c, password, ke2, args) ==
    LET me == clients[c]
        rwd == randomized_password(Finalize(password, <<"login", c>>, ke2.evaluated))
        unmasked == Unmask(MaskingKey(rwd), ke2.masking_nonce, ke2.masked)
        client_key == ClientKey(rwd, unmasked.nonce)
        ids == Identities(unmasked.server_pk, client_key, args)
        tag == EnvelopeTag(AuthKey(rwd, unmasked.nonce), unmasked.nonce, unmasked.server_pk, ids)
        share == me.ke1.keyshare
        ikm == Ikm(diffie_hellman(share, ke2.keyshare), diffie_hellman(share, unmasked.server_pk),
                   diffie_hellman(client_key, ke2.keyshare))
        preamble == Preamble(args.context, ids, me.ke1, ke2)
        keys == DeriveKeys(ikm, preamble)
    IN  IF failed THEN Refused("ModuleErrorState")
        ELSE IF BadLength(args) THEN Refused("InvalidLength")
        ELSE IF tag # unmasked.tag \/ ke2.mac # ServerMac(keys, preamble) THEN Refused("AuthenticationFailed")
        ELSE [stage |-> "done", password |-> password, args |-> args, ids |-> ids,
              ke3 |-> ClientMac(keys, preamble, ServerMac(keys, preamble)),
              session_key |-> keys.session_key,
              export_key |-> ExportKey(rwd, unmasked.nonce), ke1 |-> me.ke1]

ClientFinish(c, outcome) ==
    /\ clients[c].stage = "started"
    /\ clients' = [clients EXCEPT ![c] = outcome]
    /\ UNCHANGED <<registrations, records, servers, failed>>

\* What ServerLogin::finish makes of a KE3.
ServerFinish(s, ke3) ==
    LET me == servers[s] IN
    /\ me.stage = "waiting"
    /\ servers' = [servers EXCEPT ![s].stage =
         IF ~failed /\ ke3 = me.expected_client_mac THEN "done" ELSE "refused"]
    /\ UNCHANGED <<registrations, records, clients, failed>>

\* The server restarts: setup and records are stored, logins are not.
Restart ==
    /\ \E s \in Servers : servers[s].stage = "waiting"
    /\ servers' = [s \in Servers |->
                     IF servers[s].stage = "waiting" THEN [servers[s] EXCEPT !.stage = "lost"] ELSE servers[s]]
    /\ UNCHANGED <<registrations, records, clients, failed>>

OpaqueModuleFails ==
    /\ ~failed
    /\ failed' = TRUE
    /\ UNCHANGED <<registrations, records, clients, servers>>

-----------------------------------------------------------------------------
(* The network: everything ever sent, and messages put together from it *)

Ke1s == {clients[c].ke1 : c \in {d \in Clients : clients[d].stage \in {"started", "done"}}}
Ke2s == {servers[s].ke2 : s \in {t \in Servers : "ke2" \in DOMAIN servers[t]}}
Ke3s == {clients[c].ke3 : c \in {d \in Clients : clients[d].stage = "done"}}

MixedKe1s == Ke1s \cup {[a EXCEPT !.keyshare = b.keyshare] : a, b \in Ke1s}
                  \cup {[a EXCEPT !.nonce = b.nonce] : a, b \in Ke1s}
MixedKe2s == Ke2s \cup UNION {{[a EXCEPT ![f] = b[f]] : f \in DOMAIN a} : a, b \in Ke2s}

\* All that can become of a client that waits for a KE2.
ClientOutcomes(c) ==
    IF clients[c].stage # "started" THEN {}
    ELSE {ClientOutcome(c, p, ke2, a) : p \in Passwords, ke2 \in MixedKe2s, a \in Args}

OpaqueNext ==
    \/ \E r \in Registrations, u \in Users, p \in Passwords, a \in Args : Register(r, u, p, a)
    \/ \E r \in Registrations : StoreRecord(r)
    \/ \E c \in Clients, p \in Passwords : LoginStart(c, p)
    \/ \E s \in Servers, u \in Users, ke1 \in MixedKe1s, a \in Args : LoginRespond(s, u, ke1, a)
    \/ \E c \in Clients : \E outcome \in ClientOutcomes(c) : ClientFinish(c, outcome)
    \/ \E s \in Servers, ke3 \in Ke3s : ServerFinish(s, ke3)
    \/ Restart
    \/ OpaqueModuleFails

OpaqueSpec == OpaqueInit /\ [][OpaqueNext]_opaqueVars

-----------------------------------------------------------------------------
(* Properties *)

Finished == {r \in Registrations : registrations[r].stage = "finished"}
Answered == {s \in Servers : "ke2" \in DOMAIN servers[s]}

\* Client c and login s of the server are the two ends of one login.
Matching(c, s) ==
    /\ clients[c].session_key = servers[s].session_key
    /\ clients[c].ke1 = servers[s].ke1
    /\ clients[c].args.context = servers[s].args.context
    /\ \E r \in Finished :
          /\ registrations[r].record = servers[s].record
          /\ registrations[r].user = servers[s].user
          /\ registrations[r].password = clients[c].password
          /\ registrations[r].export_key = clients[c].export_key

(* A login that ends, ends with a partner.  When a client finishes, some    *)
(* login of the server has its session key, was an answer to its own KE1    *)
(* in the same context, and used a record that this very password           *)
(* registered, whose export key the client now has; when the server         *)
(* finishes, such a client has finished, and no two logins of the server    *)
(* end with one client, whatever was replayed, crossed, recombined or lost  *)
(* and however records were replaced meanwhile (opaque.rs: "A wrong         *)
(* password, or anything changed in transit, is AuthenticationFailed").     *)
LoginAgreement ==
    /\ \A c \in Clients : clients[c].stage = "done" => \E s \in Answered : Matching(c, s)
    /\ \A s \in Servers : servers[s].stage = "done" =>
          \E c \in Clients : clients[c].stage = "done" /\ Matching(c, s)
    /\ \A s, t \in Servers : servers[s].stage = "done" /\ servers[t].stage = "done" /\ s # t =>
          servers[s].session_key # servers[t].session_key

(* The two sides compute the same thing separately: a client that gets its  *)
(* own answer unchanged succeeds exactly with the password, the identities  *)
(* (one left out is a public key) and the context that the record and the   *)
(* server have, its KE3 is then the one the server expects, and everything  *)
(* else, the record of a user that does not exist included, is              *)
(* AuthenticationFailed and nothing more telling.                           *)
RightPasswordSucceeds ==
    ~failed =>
        \A c \in Clients, s \in Answered, p \in Passwords, a \in Args :
            clients[c].stage = "started" /\ servers[s].ke1 = clients[c].ke1 /\ ~BadLength(a) =>
                LET outcome == ClientOutcome(c, p, servers[s].ke2, a)
                    Named(args) == Identities(ServerPublicKey, servers[s].record.client_pk, args)
                    right == \E r \in Finished :
                        /\ registrations[r].record = servers[s].record
                        /\ registrations[r].password = p /\ clients[c].password = p
                        /\ Named(registrations[r].args) = Named(a)
                        /\ Named(servers[s].args) = Named(a) /\ servers[s].args.context = a.context
                IN  IF right THEN outcome.stage = "done" /\ outcome.ke3 = servers[s].expected_client_mac
                    ELSE outcome = Refused("AuthenticationFailed")

(* The inductive invariant behind the two.  What a session holds is made by *)
(* the functions of the protocol from what the session keeps; a record of   *)
(* the server is one that some registration of that user made; and a client *)
(* that has finished holds the very KE3 that its partner expects.           *)
SessionsOK ==
    /\ DOMAIN registrations = Registrations /\ DOMAIN records = Users
    /\ DOMAIN clients = Clients /\ DOMAIN servers = Servers
    /\ failed \in BOOLEAN

RegistrationsOK ==
    \A r \in Registrations : registrations[r] # Idle =>
        LET me == registrations[r]
            made == registration_finish(r, me.password,
                      registration_response(me.user, registration_start(r, me.password)), me.args)
        IN  me.stage = "finished" /\ me.record = made.record /\ me.export_key = made.export_key

\* A record that the server may use for a user.
Registered(user, record) ==
    \E r \in Finished : registrations[r].user = user /\ registrations[r].record = record

RecordsOK == \A u \in Users : records[u] = NoRecord \/ Registered(u, records[u])

ServersOK ==
    \A s \in Servers : servers[s] # Idle =>
        LET me == servers[s]
            made == ServerLogin(s, me.user, me.record, me.ke1, me.args)
        IN  /\ DOMAIN me = DOMAIN made /\ me.stage # "idle"
            /\ me.ke2 = made.ke2 /\ me.session_key = made.session_key
            /\ me.expected_client_mac = made.expected_client_mac
            /\ me.record = fake_record(me.user) \/ Registered(me.user, me.record)

ClientsOK ==
    \A c \in Clients :
        /\ clients[c].stage \in {"idle", "started", "refused", "done"}
        /\ clients[c].stage = "started" => clients[c].ke1 = Ke1(c, clients[c].password)
        /\ clients[c].stage = "done" =>
              \E s \in Answered : Matching(c, s) /\ clients[c].ke3 = servers[s].expected_client_mac

OpaqueInv ==
    SessionsOK /\ RegistrationsOK /\ RecordsOK /\ ServersOK /\ ClientsOK /\ LoginAgreement
=============================================================================
