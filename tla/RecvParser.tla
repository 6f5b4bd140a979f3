----------------------------- MODULE RecvParser -----------------------------
(***************************************************************************)
(* The line parser of one connection (src/src/RecvParser.cpp): it is fed   *)
(* whatever pieces recv cuts the byte stream into, and queues a message    *)
(* for every complete line.  The cuts are arbitrary; a "\r\n" may come in  *)
(* two pieces.                                                             *)
(*                                                                         *)
(* A byte is a carriage return, a line feed, a blank, a colon or some      *)
(* other character; of how a line is divided into prefix, command and      *)
(* parameters only whether there is a command is kept.                     *)
(***************************************************************************)
EXTENDS Naturals, Sequences, SequencesExt

CONSTANTS
  MaxLine,    \* the longest line that is parsed (512 in the code)
  MaxChunk,   \* bound: bytes in one piece
  MaxStream   \* bound: bytes sent altogether

ASSUME RecvParserConstants == {MaxLine, MaxChunk, MaxStream} \subseteq Nat

Text == {"blank", "colon", "char"}
Byte == {"CR", "LF"} \cup Text

VARIABLES
  fed,      \* all bytes received so far
  buffer,   \* RecvParser::_buffer
  output    \* RecvParser::_output, nothing taken from it yet

vars == <<fed, buffer, output>>

Init == fed = <<>> /\ buffer = <<>> /\ output = <<>>
-----------------------------------------------------------------------------
(* Mutant of NewLine: a line end is a line end only if it is complete. *)
NewLinePairs(buf, i) ==
  CASE buf[i] = "CR" -> IF i < Len(buf) THEN <<"CR", "LF">> ELSE <<"CR">>
    [] buf[i] = "LF" -> IF i > 1 /\ buf[i - 1] = "CR" THEN <<>> ELSE <<"CR", "LF">>
    [] OTHER         -> <<buf[i]>>

(* What _normalizeNewLines puts for the i-th byte: "\r\n", a lone "\r" and *)
(* a lone "\n" become "\r\n".                                              *)
NewLine(buf, i) ==
  CASE buf[i] = "CR" -> <<"CR", "LF">>
    [] buf[i] = "LF" -> IF i > 1 /\ buf[i - 1] = "CR" THEN <<>> ELSE <<"CR", "LF">>
    [] OTHER         -> <<buf[i]>>

Normalized(buf) ==
  LET normalized[i \in 0 .. Len(buf)] ==
        IF i = 0 THEN <<>> ELSE normalized[i - 1] \o NewLine(buf, i)
  IN  normalized[Len(buf)]

(* The positions at which find("\r\n") would stop. *)
LineEnds(buf) == { i \in 1 .. Len(buf) - 1 : buf[i] = "CR" /\ buf[i + 1] = "LF" }

(* The command is the first word, or the second if the line starts with a  *)
(* colon, that is, with a prefix.                                          *)
HasCommand(line) ==
  \E j \in DOMAIN line :
    line[j] # "blank" /\ (line[1] = "colon" => \E i \in 1 .. j : line[i] = "blank")

(* Mutant of IsMessage: no limit. *)
IsMessageUnlimited(line) == HasCommand(line)

(* _parseMessage throws for a line that is too long or has no command. *)
IsMessage(line) == Len(line) <= MaxLine /\ HasCommand(line)

Queued(out, line) == IF IsMessage(line) THEN Append(out, line) ELSE out

(* Mutant of Erased: erase(0, pos + 1). *)
ErasedShort(buf, pos) == SubSeq(buf, pos + 1, Len(buf))

(* The buffer without its first line and the line end at pos. *)
Erased(buf, pos) == SubSeq(buf, pos + 2, Len(buf))

(* A turn of the loop of _parseBuffer, if it takes another.  A line that   *)
(* is no message is taken off the buffer all the same.                     *)
Turn(p) ==
  IF LineEnds(p.buffer) = {} THEN p
  ELSE LET pos == Min(LineEnds(p.buffer))
       IN  [output |-> Queued(p.output, SubSeq(p.buffer, 1, pos - 1)),
            buffer |-> Erased(p.buffer, pos)]

(* _parseBuffer, which takes fewer turns than there are bytes. *)
Parsed(out, buf) ==
  LET parsed[k \in 0 .. Len(buf)] ==
        IF k = 0 THEN [output |-> out, buffer |-> buf] ELSE Turn(parsed[k - 1])
  IN  parsed[Len(buf)]

(* feed: append, normalise, and parse. *)
Feed ==
  \E n \in 1 .. MaxChunk : \E chunk \in [1 .. n -> Byte] :
    /\ Len(fed) + n <= MaxStream
    /\ fed' = fed \o chunk
    /\ LET p == Parsed(output, Normalized(buffer \o chunk))
       IN  output' = p.output /\ buffer' = p.buffer

Spec == Init /\ [][Feed]_vars
-----------------------------------------------------------------------------
(* A message has no line end in it and is short enough, and neither does   *)
(* the buffer keep a line end, or half of one, between two pieces.         *)
Message == { line \in Seq(Text) : Len(line) <= MaxLine }

TypeOK ==
  /\ fed \in Seq(Byte)
  /\ buffer \in Seq(Text)
  /\ output \in Seq(Message)

(* The reference: a parser that takes one byte at a time and ends the line *)
(* at every "\r" and every "\n".                                           *)
Reading(p, byte) ==
  IF byte \in {"CR", "LF"} THEN [output |-> Queued(p.output, p.buffer), buffer |-> <<>>]
  ELSE [p EXCEPT !.buffer = Append(@, byte)]

ReadFrom(p, bytes) ==
  LET reads[i \in 0 .. Len(bytes)] ==
        IF i = 0 THEN p ELSE Reading(reads[i - 1], bytes[i])
  IN  reads[Len(bytes)]

Read(bytes) == ReadFrom([output |-> <<>>, buffer |-> <<>>], bytes)

(* The messages queued depend on the bytes received only, not on where     *)
(* recv cut them: they are the lines of the stream that are messages, each *)
(* as soon as its line end has arrived, and none twice.                    *)
CutsDoNotMatter == output = Read(fed).output

(* What stays in the buffer is the unfinished line: no part of a line end, *)
(* nothing of a line already queued or rejected.                           *)
BufferIsUnfinishedLine == buffer = Read(fed).buffer
=============================================================================
