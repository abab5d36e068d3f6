------------------------------- MODULE McpServer -------------------------------
(***************************************************************************)
(* serve_on of ic-cli (crates/ic-cli/src/mcp.rs): JSON-RPC messages, one to *)
(* a line, are read from a byte stream with a bound on what is held in      *)
(* memory, and answered one to a line.                                      *)
(*                                                                          *)
(* A byte is the end of a line, white space, or a byte of a request or of a *)
(* notification; what a request asks for is left to handle and the tools,   *)
(* which answer every request; a parse error is an answer too.  The parser  *)
(* itself may panic (see Json), which ends the process.                     *)
(***************************************************************************)
EXTENDS Integers, Sequences

CONSTANTS
    Inputs,         \* the byte streams the peer may send
    MAX_MESSAGE,    \* the bound on a message
    CHUNK           \* what the recovery loop discards at a time, 65536

Bytes == {"NL", "space", "request", "notification"}

ASSUME McpAssumption ==
    /\ Inputs \subseteq Seq(Bytes)
    /\ MAX_MESSAGE \in Nat \ {0} /\ CHUNK \in Nat \ {0}

VARIABLES
    input,      \* everything the peer sends before it closes the stream
    pos,        \* how many bytes of it have been read
    start,      \* the value of pos where the present message began
    line,       \* the bytes held of the present message
    sink,       \* the bytes held of what is being discarded
    phase,      \* where the loop is
    out         \* the responses written: the message's start, and which it is

serverVars == <<input, pos, start, line, sink, phase, out>>

Phases == {"idle", "read", "measure", "discard", "refuse", "serve",
           "end", "failed", "stopped"}

ServerInit ==
    /\ input \in Inputs
    /\ pos = 0 /\ start = 0
    /\ line = <<>> /\ sink = <<>>
    /\ phase = "idle"
    /\ out = <<>>

EndsLine(bytes) == bytes # <<>> /\ bytes[Len(bytes)] = "NL"

Blank(bytes) == \A i \in DOMAIN bytes : bytes[i] \in {"NL", "space"}

\* Requests without an id, which JSON-RPC says must not be answered.
Notification(bytes) == \E i \in DOMAIN bytes : bytes[i] = "notification"

--------------------------------------------------------------------------------
\* Mutant: a read takes what it can get, wherever the line ends.
ReadUntil_Read(limit) ==
    SubSeq(input, pos + 1, IF pos + limit < Len(input) THEN pos + limit ELSE Len(input))

\* take(limit).read_until(NL): up to and with the next NL, no more than limit.
ReadUntil(limit) ==
    LET stops == {i \in (pos + 1)..Len(input) :
                    input[i] = "NL" \/ i = pos + limit \/ i = Len(input)}
    IN  IF stops = {} THEN <<>>
        ELSE SubSeq(input, pos + 1, CHOOSE i \in stops : \A j \in stops : i <= j)

\* serve_on is called.
ServeOn ==
    /\ phase = "idle"
    /\ phase' = "read"
    /\ UNCHANGED <<input, pos, start, line, sink, out>>

\* One byte past the limit, so that an oversized message is recognised.
ReadLine ==
    /\ phase = "read"
    /\ line' = ReadUntil(MAX_MESSAGE + 1)
    /\ pos' = pos + Len(line') /\ start' = pos
    /\ phase' = IF line' = <<>> THEN "end" ELSE "measure"
    /\ UNCHANGED <<input, sink, out>>

TooLarge == Len(line) > MAX_MESSAGE

Measure ==
    /\ phase = "measure"
    /\ phase' = CASE TooLarge /\ ~EndsLine(line) -> "discard"
                  [] TooLarge /\ EndsLine(line)  -> "refuse"
                  [] ~TooLarge                   -> "serve"
    /\ UNCHANGED <<input, pos, start, line, sink, out>>

\* Mutant: the loop does not notice the end of the stream.
Discarded_NoEof(bytes) == EndsLine(bytes)

\* The recovery loop ends at the end of the line or of the stream.
Discarded(bytes) == bytes = <<>> \/ EndsLine(bytes)

\* One round of the recovery loop.
Discard ==
    /\ phase = "discard"
    /\ sink' = ReadUntil(CHUNK)
    /\ pos' = pos + Len(sink')
    /\ phase' = IF Discarded(sink') THEN "refuse" ELSE "discard"
    /\ UNCHANGED <<input, start, line, out>>

\* The next message: line and sink are dropped.
NextMessage ==
    /\ phase' = "read"
    /\ line' = <<>> /\ sink' = <<>>
    /\ UNCHANGED <<input, pos, start>>

Refuse ==
    /\ phase = "refuse"
    /\ out' = Append(out, <<start, "too large">>)
    /\ NextMessage

Silent == Blank(line) \/ Notification(line)

\* A blank line and a notification are not answered; everything else is, with
\* a result, an error or a parse error.  Everything but a blank line is parsed
\* first, and a panic of the parser aborts the process, as the panics of a
\* release build do.
Serve ==
    /\ phase = "serve"
    /\ \/ /\ out' = IF Silent THEN out
                    ELSE Append(out, <<start, "answer">>)
          /\ NextMessage
       \/ /\ ~Blank(line)
          /\ phase' = "stopped"
          /\ UNCHANGED <<input, pos, start, line, sink, out>>

\* Reading or writing fails: serve_on returns the error.
IoFails ==
    /\ \/ phase \in {"read", "discard", "refuse"}
       \/ phase = "serve" /\ ~Silent
    /\ phase' = "failed"
    /\ UNCHANGED <<input, pos, start, line, sink, out>>

\* serve_on has returned, or the process has ended.
Returned == phase \in {"end", "failed", "stopped"} /\ UNCHANGED serverVars

Loop == ReadLine \/ Measure \/ Discard \/ Refuse \/ Serve

ServerNext == ServeOn \/ Loop \/ IoFails \/ Returned

ServerSpec == ServerInit /\ [][ServerNext]_serverVars

\* The loop runs as long as it can; stdin delivers what was sent or its end.
FairServerSpec == ServerSpec /\ WF_serverVars(Loop)

--------------------------------------------------------------------------------
\* The variables keep their types and the loop stays inside the stream.
ServerTypeOK ==
    /\ input \in Inputs
    /\ pos \in 0..Len(input) /\ start \in 0..pos
    /\ line \in Seq(Bytes) /\ sink \in Seq(Bytes)
    /\ phase \in Phases
    /\ out \in Seq((0..Len(input)) \X {"answer", "too large"})

(* The reference: the stream cut at the line ends, independently of how it  *)
(* is read.                                                                 *)
Starts == {s \in 0..(Len(input) - 1) : s = 0 \/ input[s] = "NL"}

Message(s) ==
    LET ends == {i \in (s + 1)..Len(input) : input[i] = "NL" \/ i = Len(input)}
    IN  SubSeq(input, s + 1, CHOOSE i \in ends : \A j \in ends : i <= j)

Response(s) == <<s, IF Len(Message(s)) > MAX_MESSAGE THEN "too large" ELSE "answer">>

Answered(s) ==
    \/ Len(Message(s)) > MAX_MESSAGE
    \/ ~Blank(Message(s)) /\ ~Notification(Message(s))

Due == {s \in Starts : Answered(s)}
Responses == {out[i] : i \in DOMAIN out}

\* Every message is answered, refused or passed over for what it is, in order;
\* an oversized one costs neither the message after it nor a second answer, no
\* response is written before those of the messages ahead of it, and when the
\* stream ends nothing is left unanswered (serve_on).
OneResponsePerMessage ==
    /\ \A i, j \in DOMAIN out : i < j => out[i][1] < out[j][1]
    /\ Responses \subseteq {Response(s) : s \in Due}
    /\ \A s \in Due, r \in Responses : s < r[1] => Response(s) \in Responses
    /\ phase = "end" => \A s \in Due : Response(s) \in Responses

\* serve_on comes to its end when the stream does, in the middle of an oversized
\* message too (empty_input_terminates).
EndsWithInput == phase = "read" ~> phase \in {"end", "failed", "stopped"}

--------------------------------------------------------------------------------
(* The inductive invariant *)

\* No line ends at one of these bytes of the stream.
Unended(from, to) == \A i \in (from + 1)..to : input[i] # "NL"

\* The stream is cut here.
Boundary(p) == p = 0 \/ p = Len(input) \/ input[p] = "NL"

\* The message from s on is all of the bytes up to e.
EndOf(s, e) == e \in (s + 1)..Len(input) /\ Unended(s, e - 1) /\ Boundary(e)

\* The messages that begin before p are dealt with, and no others.
DealtWith(p) ==
    /\ \A i, j \in DOMAIN out : i < j => out[i][1] < out[j][1]
    /\ Responses = {Response(s) : s \in {d \in Due : d < p}}

\* What is known of the message under way at each phase of the loop.
MessageUnderWay ==
    /\ start \in Starts /\ start < pos /\ DealtWith(start)
    /\ phase \in {"measure", "serve"} =>
          /\ line = SubSeq(input, start + 1, pos)
          /\ EndOf(start, pos) \/ (Unended(start, pos) /\ Len(line) > MAX_MESSAGE)
    /\ phase = "serve" => Len(line) <= MAX_MESSAGE
    /\ phase = "discard" => pos - start > MAX_MESSAGE /\ Unended(start, pos)
    /\ phase = "refuse" => pos - start > MAX_MESSAGE /\ EndOf(start, pos)

ServerInv ==
    /\ ServerTypeOK
    /\ phase = "idle" => pos = 0
    /\ phase \in {"idle", "read", "end"} => Boundary(pos) /\ DealtWith(pos)
    /\ phase = "end" => pos = Len(input)
    /\ phase \in {"measure", "discard", "refuse", "serve"} => MessageUnderWay
    /\ phase = "failed" => DealtWith(start) \/ DealtWith(pos)
    /\ phase = "stopped" => DealtWith(start)
================================================================================
