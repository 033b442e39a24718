----------------------------- MODULE AofFormat -----------------------------
(***************************************************************************)
(* The bytes of the append-only file: how append and rewrite write the     *)
(* tokens of a command, and which tokens load_into_store finds in a file   *)
(* that may have been cut anywhere.  Text is as in RespParser.             *)
(*                                                                         *)
(* A header of count 0 is not modelled: no record has it, and the code     *)
(* would look at the first of no tokens.                                   *)
(***************************************************************************)
EXTENDS RespParser

CONSTANT Nul   \* the byte a token is filled with before it is read

\* append, and the same text in rewrite.
RecordBytes(tokens) == serialize_array(tokens)

-----------------------------------------------------------------------------
(* The reader: infile at a place, good until a read reaches the end        *)

AtEnd(file) == ~file.good \/ file.at >= Len(file.bytes)

LineFeeds(file) == {q \in file.at .. Len(file.bytes) - 1 : At(file.bytes, q) = LF}

EndOfLine(file) ==
  IF LineFeeds(file) = {} THEN Len(file.bytes)
  ELSE CHOOSE q \in LineFeeds(file) : \A r \in LineFeeds(file) : q <= r

\* std::getline, and the line without the CR at its end.
Line(file) ==
  LET l == SubSeq(file.bytes, file.at + 1, EndOfLine(file))
  IN IF l # << >> /\ l[Len(l)] = CR THEN SubSeq(l, 1, Len(l) - 1) ELSE l

\* A line that the file ends in leaves the stream at its end.
PastLine(file) ==
  [file EXCEPT !.at = EndOfLine(file) + 1, !.good = LineFeeds(file) # {}]

\* infile.read of n bytes into a buffer of zeros.
Bytes(file, n) ==
  [i \in 1 .. n |-> IF file.good /\ file.at + i <= Len(file.bytes)
                    THEN file.bytes[file.at + i] ELSE Nul]

PastBytes(file, n) ==
  IF file.good /\ file.at + n <= Len(file.bytes) THEN [file EXCEPT !.at = @ + n]
  ELSE [file EXCEPT !.good = FALSE]

\* One token of a record: its length, its bytes and two bytes more.  What
\* "stopped" says is whether the loop goes on, was left by break, or by an
\* exception: no number, or one that is negative and too large a size.
Token(scan) ==
  LET line == Line(scan.file)
      len  == NumberIn(Tail(line))
      body == PastLine(scan.file)
  IN CASE scan.stopped # "no" -> scan
       [] scan.stopped = "no" /\ AtEnd(scan.file) ->
            [scan EXCEPT !.stopped = "break", !.file.good = FALSE]
       [] scan.stopped = "no" /\ ~AtEnd(scan.file) ->
            IF At(line, 0) # Dollar THEN [scan EXCEPT !.stopped = "break", !.file = body]
            ELSE IF len = Nothing \/ len < 0 THEN [scan EXCEPT !.stopped = "throw", !.file = body]
            ELSE [scan EXCEPT !.tokens = Append(@, Bytes(body, len)),
                              !.file = PastBytes(PastBytes(body, len), 2)]

Tokens(file, count) ==
  FoldLeft(LAMBDA scan, i : Token(scan),
           [tokens |-> << >>, file |-> file, stopped |-> "no"], [i \in 1 .. count |-> i])

\* Mutant: what a break leaves of a record is taken for the record.
IsRecordUncounted(scan, count) == scan.stopped # "throw" /\ scan.tokens # << >>

\* tokens.size() == token_count.
IsRecord(scan, count) == scan.stopped # "throw" /\ Len(scan.tokens) = count

\* Mutant: the file is taken to end with a record that cannot be read.
GoesOnWhole(scan, count) == ~AtEnd(scan.file) /\ IsRecord(scan, count)

\* The next line is looked at, from wherever the record has left the file.
GoesOn(scan, count) == ~AtEnd(scan.file)

\* Where the next line begins; behind all the bytes when there is none.
Place(file) == IF AtEnd(file) THEN Len(file.bytes) ELSE file.at

\* The records load_into_store finds, from each place on where it may look
\* at a line: a line that is no header is passed over.
Load(bytes) ==
  LET records[at \in 0 .. Len(bytes)] ==
        LET file  == [bytes |-> bytes, at |-> at, good |-> TRUE]
            line  == Line(file)
            count == IF At(line, 0) = Star THEN NumberIn(Tail(line)) ELSE Nothing
            scan  == Tokens(PastLine(file), count)
            found == IF IsRecord(scan, count) THEN <<scan.tokens>> ELSE << >>
        IN CASE AtEnd(file) -> << >>
             [] ~AtEnd(file) /\ (count = Nothing \/ count < 0) -> records[Place(PastLine(file))]
             [] OTHER -> found \o IF GoesOn(scan, count) THEN records[Place(scan.file)] ELSE << >>
  IN records[0]
=============================================================================
