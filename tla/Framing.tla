------------------------------ MODULE Framing ------------------------------
(***************************************************************************)
(* One TCP connection, read by both decoders of newline-delimited JSON:    *)
(* gatoway-core's NdjsonDecoder (tcpFraming.ts), which hands on lines, and *)
(* the Stream Deck plugin's NdjsonLineDecoder (protocol.ts), which parses  *)
(* them itself and throws at a line that is no JSON.  TCP delivers what    *)
(* was written in chunks of any length; each connection has a new decoder. *)
(*                                                                         *)
(* A stream is a sequence of LF, CR and other pieces of text; which lines  *)
(* are JSON is left open.                                                  *)
(***************************************************************************)
EXTENDS Naturals, Sequences, FiniteSets

CONSTANTS
  Others,      (* the pieces of text other than LF and CR                  *)
  Json,        (* the lines that are JSON                                  *)
  MaxLength    (* bound: how much is written on one connection             *)

ASSUME LengthAssumption == MaxLength \in Nat

VARIABLES
  stream,     (* what was written on this connection                       *)
  received,   (* how much of it has been delivered                         *)
  buffer,     (* NdjsonDecoder.buffer                                      *)
  lines,      (* the lines handed on to handleRawMessage                   *)
  kept,       (* NdjsonLineDecoder.buffer                                  *)
  handled,    (* the messages handed on to CoreClient.handleMessage        *)
  lost,       (* those decoded, and thrown away with the exception         *)
  thrown      (* did the last push throw?                                  *)

framingVars == <<stream, received, buffer, lines, kept, handled, lost, thrown>>

Tokens == {"LF", "CR"} \union Others

IsJson(line) == line \in Json

(* indexOf("\n"), and 0 for none.                                          *)
IndexOfLf(text) ==
  IF \E i \in DOMAIN text : text[i] = "LF"
    THEN CHOOSE i \in DOMAIN text : text[i] = "LF" /\ \A j \in 1..(i - 1) : text[j] # "LF"
    ELSE 0

(* The line before the newline at n, without a trailing "\r".              *)
LineBefore(text, n) ==
  IF n > 1 /\ text[n - 1] = "CR" THEN SubSeq(text, 1, n - 2) ELSE SubSeq(text, 1, n - 1)

After(text, n) == SubSeq(text, n + 1, Len(text))

(* An empty line is skipped.                                               *)
Unless(line) == IF line = <<>> THEN <<>> ELSE <<line>>

(* One turn of the loop of NdjsonDecoder.push(); one that is over stays.   *)
Turn(s) ==
  LET n == IndexOfLf(s.rest)
  IN IF n = 0 THEN s
     ELSE [found |-> s.found \o Unless(LineBefore(s.rest, n)), rest |-> After(s.rest, n)]

(* Mutant: one line is taken per chunk, the others wait.                   *)
PushOne(text) == Turn([found |-> <<>>, rest |-> text])

(* NdjsonDecoder.push(), given the buffer with the chunk appended.  A turn *)
(* takes one token at least: after Len(text) turns the loop is over.       *)
Push(text) ==
  LET after[k \in 0..Len(text)] ==
        IF k = 0 THEN [found |-> <<>>, rest |-> text] ELSE Turn(after[k - 1])
  IN after[Len(text)]

(* One turn of the loop of NdjsonLineDecoder.push(): the line that throws  *)
(* is consumed, what comes after it stays in the buffer.                   *)
ParsingTurn(s) ==
  LET n == IndexOfLf(s.rest)
      line == LineBefore(s.rest, n)
  IN IF n = 0 \/ s.threw THEN s
     ELSE IF line # <<>> /\ ~IsJson(line)
       THEN [found |-> s.found, rest |-> After(s.rest, n), threw |-> TRUE]
     ELSE [found |-> s.found \o Unless(line), rest |-> After(s.rest, n), threw |-> FALSE]

(* NdjsonLineDecoder.push().                                               *)
PushParsing(text) ==
  LET after[k \in 0..Len(text)] ==
        IF k = 0 THEN [found |-> <<>>, rest |-> text, threw |-> FALSE]
        ELSE ParsingTurn(after[k - 1])
  IN after[Len(text)]

FramingInit ==
  /\ stream = <<>> /\ received = 0
  /\ buffer = <<>> /\ lines = <<>>
  /\ kept = <<>> /\ handled = <<>> /\ lost = <<>> /\ thrown = FALSE

Writes(token) ==
  /\ Len(stream) < MaxLength
  /\ stream' = Append(stream, token)
  /\ UNCHANGED <<received, buffer, lines, kept, handled, lost, thrown>>

(* Mutant: the exception leaves the buffer as it was, the bad line in it.   *)
ClientDataAgain(chunk) ==
  LET p == PushParsing(kept \o chunk)
  IN /\ handled' = handled \o p.found
     /\ kept' = IF p.threw THEN kept \o chunk ELSE p.rest
     /\ lost' = lost
     /\ thrown' = p.threw

(* The client's data event: an exception is logged, and the messages that  *)
(* push() had already decoded are not returned.                            *)
ClientData(chunk) ==
  LET p == PushParsing(kept \o chunk)
  IN /\ handled' = IF p.threw THEN handled ELSE handled \o p.found
     /\ lost' = IF p.threw THEN lost \o p.found ELSE lost
     /\ kept' = p.rest
     /\ thrown' = p.threw

(* The core's data event.                                                  *)
CoreData(chunk) ==
  LET p == Push(buffer \o chunk)
  IN /\ lines' = lines \o p.found
     /\ buffer' = p.rest

Delivers(n) ==
  /\ n \in 1..(Len(stream) - received)
  /\ LET chunk == SubSeq(stream, received + 1, received + n)
     IN CoreData(chunk) /\ ClientData(chunk)
  /\ received' = received + n
  /\ UNCHANGED stream

(* Mutant: the client goes on with the decoder it had.                     *)
ReconnectsWithOldDecoder ==
  /\ stream' = <<>> /\ received' = 0
  /\ buffer' = <<>> /\ lines' = <<>>
  /\ handled' = <<>> /\ lost' = <<>> /\ thrown' = FALSE
  /\ UNCHANGED kept

(* The connection is lost, with whatever was under way, and made again.    *)
Reconnects ==
  /\ stream' = <<>> /\ received' = 0
  /\ buffer' = <<>> /\ lines' = <<>>
  /\ kept' = <<>> /\ handled' = <<>> /\ lost' = <<>> /\ thrown' = FALSE

FramingNext ==
  \/ \E token \in Tokens : Writes(token)
  \/ \E n \in 1..MaxLength : Delivers(n)
  \/ Reconnects

FramingSpec == FramingInit /\ [][FramingNext]_framingVars

-----------------------------------------------------------------------------
(* What should have been read, from the stream as a whole: the text        *)
(* between one newline and the next.                                       *)

LineEndingAt(text, i) ==
  LET start == CHOOSE s \in 1..i : /\ \A j \in s..(i - 1) : text[j] # "LF"
                                   /\ s = 1 \/ text[s - 1] = "LF"
      line == SubSeq(text, start, i - 1)
  IN IF line # <<>> /\ line[Len(line)] = "CR" THEN SubSeq(line, 1, Len(line) - 1) ELSE line

(* The newlines that end a line, one that is not empty, among the first n. *)
Ends(text, n) == {i \in 1..n : text[i] = "LF" /\ LineEndingAt(text, i) # <<>>}

(* These are the lines that end there, in the order they end, each once.   *)
AreLines(sequence, text, ends) ==
  /\ Len(sequence) = Cardinality(ends)
  /\ \A i \in ends : sequence[Cardinality({j \in ends : j <= i})] = LineEndingAt(text, i)

JsonEnds(text, n) == {i \in Ends(text, n) : IsJson(LineEndingAt(text, i))}

(* However the stream is cut, the core has read exactly the lines that are *)
(* complete: none twice, none split or joined, a "\r\n" cut in two too.    *)
CoreReadsEveryLine == AreLines(lines, stream, Ends(stream, received))

(* As long as every line was JSON, the client has handled each message     *)
(* that is complete, whatever it got on an earlier connection.             *)
ClientReadsEveryMessage ==
  JsonEnds(stream, received) = Ends(stream, received) =>
    AreLines(handled, stream, Ends(stream, received)) /\ lost = <<>>

(* What is between newlines there is handled or, if not, lost: each message *)
(* once and in order, and lost only if a line that is no JSON comes later. *)
HandledOrLost(text, n) ==
  \E gone \in SUBSET JsonEnds(text, n) :
    /\ AreLines(handled, text, JsonEnds(text, n) \ gone)
    /\ AreLines(lost, text, gone)
    /\ \A i \in gone : \E j \in Ends(text, n) \ JsonEnds(text, n) : i < j

(* After lines that are no JSON nothing is out of step: up to some newline *)
(* the client has handled the messages of the stream, those lost with an   *)
(* exception left out, and all after it is still in the buffer; if the     *)
(* last push did not throw, no complete line is.                           *)
NothingTwice ==
  \E n \in 0..received :
    /\ n = 0 \/ stream[n] = "LF"
    /\ HandledOrLost(stream, n)
    /\ kept = SubSeq(stream, n + 1, received)
    /\ ~thrown => \A k \in DOMAIN kept : kept[k] # "LF"
=============================================================================
