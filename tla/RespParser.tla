----------------------------- MODULE RespParser -----------------------------
(***************************************************************************)
(* RespParser: from the bytes of a request to its tokens, and from a reply *)
(* to its bytes.                                                           *)
(*                                                                         *)
(* Text is a sequence of symbols: the characters the parser tells apart    *)
(* are model values, any other character is one that it does not, and a    *)
(* number written in digits is one symbol, the number, of size 1.  Places  *)
(* in the text count from 0, as in the code.                               *)
(***************************************************************************)
EXTENDS Integers, Sequences, SequencesExt

CONSTANTS
  Star, Dollar, Plus, Minus, Colon,  \* * $ + - :
  CR, LF, Blank,                     \* the characters isspace knows
  Quote, Tick,                       \* " and '
  Others,                            \* the characters it does not look for
  NumberSymbols,                     \* the numbers that may be written
  SizeMax,                           \* the greatest size_t
  Nothing                            \* no number, no quote, no string

Spaces  == {CR, LF, Blank}
Marks   == <<Star, Dollar, Plus, Minus, Colon, CR, LF, Blank, Quote, Tick>>
Symbols == Range(Marks) \cup Others \cup NumberSymbols
Text    == Seq(Symbols)

ASSUME RespAssumption ==
  /\ NumberSymbols \subseteq Int
  /\ SizeMax \in Nat
  /\ Nothing \notin Symbols \cup Text

\* A character is one thing only.
ASSUME SymbolsAssumption ==
  /\ \A i, j \in 1 .. 10 : Marks[i] = Marks[j] => i = j
  /\ Range(Marks) \cap (Others \cup NumberSymbols) = {}

\* What is not in the text is no character that the parser looks for.
At(s, p) == IF p \in 0 .. Len(s) - 1 THEN s[p + 1] ELSE Nothing

\* std::stoi and std::stoul: the number behind leading spaces; they throw
\* when there is none.
TrimmedLeft(s) ==
  LET solid == {i \in 1 .. Len(s) : s[i] \notin Spaces}
  IN IF solid = {} THEN << >>
     ELSE SubSeq(s, CHOOSE i \in solid : \A j \in solid : i <= j, Len(s))

NumberIn(s) ==
  LET t == TrimmedLeft(s) IN IF t # << >> /\ t[1] \in NumberSymbols THEN t[1] ELSE Nothing

\* The first CRLF at or behind p.
CrLfs(s, p)    == {q \in p .. Len(s) - 2 : At(s, q) = CR /\ At(s, q + 1) = LF}
HasCrLf(s, p)  == CrLfs(s, p) # {}
NextCrLf(s, p) == CHOOSE q \in CrLfs(s, p) : \A r \in CrLfs(s, p) : q <= r

-----------------------------------------------------------------------------
(* Requests                                                                *)

\* Mutant: the length is not made unsigned for the comparison.
BeyondSigned(p, len, size) == p + len > size

\* pos + static_cast<std::size_t>(len) > input.size(): a negative length is
\* one that wraps around.
Beyond(p, len, size) == (p + len) % (SizeMax + 1) > size

\* The number in the line at p, or Nothing when there is no line.
NumberLine(s, p) ==
  IF HasCrLf(s, p) THEN NumberIn(SubSeq(s, p + 1, NextCrLf(s, p))) ELSE Nothing

\* One element of an array: $, its length, its bytes, and a CRLF that may be
\* missing.  A negative length that is not Beyond takes all the rest for the
\* token, and sets the place back.
Element(s, scan) ==
  LET len   == IF At(s, scan.at) = Dollar THEN NumberLine(s, scan.at + 1) ELSE Nothing
      start == NextCrLf(s, scan.at + 1) + 2
      end   == start + len
      token == SubSeq(s, start + 1, IF len < 0 \/ end > Len(s) THEN Len(s) ELSE end)
      after == IF At(s, end) = CR /\ At(s, end + 1) = LF THEN end + 2 ELSE end
  IN IF ~scan.ok \/ len = Nothing \/ Beyond(start, len, Len(s))
     THEN [scan EXCEPT !.ok = FALSE]
     ELSE [ok |-> TRUE, at |-> after, tokens |-> Append(scan.tokens, token)]

\* parse_resp_array, with the place at which it stopped reading.
ArrayScan(s) ==
  LET count == NumberLine(s, 1)
      from  == [ok |-> TRUE, at |-> NextCrLf(s, 1) + 2, tokens |-> << >>]
  IN IF count = Nothing THEN [ok |-> FALSE, at |-> 1, tokens |-> << >>]
     ELSE FoldLeft(LAMBDA scan, i : Element(s, scan), from, [i \in 1 .. count |-> i])

\* Mutant: what has been read is returned when the rest cannot be.
parse_resp_array_partly(s) == ArrayScan(s).tokens

parse_resp_array(s) == IF ArrayScan(s).ok THEN ArrayScan(s).tokens ELSE << >>

\* The token being read ends: an empty one is none.
Flush(scan) ==
  IF scan.current = << >> THEN scan
  ELSE [scan EXCEPT !.tokens = Append(@, scan.current), !.current = << >>]

\* Mutant: any quote ends what a quote has begun.
CharAnyQuote(scan, c) ==
  CASE c \in {CR, LF} -> scan
    [] c \in {Quote, Tick} -> [scan EXCEPT !.quote = IF @ = Nothing THEN c ELSE Nothing]
    [] c = Blank /\ scan.quote = Nothing -> Flush(scan)
    [] OTHER -> [scan EXCEPT !.current = Append(@, c)]

\* A character of plain text: line ends are dropped wherever they stand, and
\* a quote ends only what the same quote has begun.
Char(scan, c) ==
  CASE c \in {CR, LF} -> scan
    [] c \in {Quote, Tick} /\ scan.quote \in {Nothing, c} ->
         [scan EXCEPT !.quote = IF @ = Nothing THEN c ELSE Nothing]
    [] c = Blank /\ scan.quote = Nothing -> Flush(scan)
    [] OTHER -> [scan EXCEPT !.current = Append(@, c)]

parse_plain_text(s) ==
  Flush(FoldLeft(Char, [tokens |-> << >>, current |-> << >>, quote |-> Nothing], s)).tokens

\* An array that cannot be read, and an empty one, are read as plain text.
parse_request(s) ==
  LET t == TrimmedLeft(s)
      a == IF At(t, 0) = Star THEN parse_resp_array(t) ELSE << >>
  IN IF a # << >> THEN a ELSE parse_plain_text(t)

-----------------------------------------------------------------------------
(* Replies                                                                 *)

End == <<CR, LF>>

serialize_simple_string(s) == <<Plus>> \o s \o End
serialize_error(s)         == <<Minus>> \o s \o End   \* ERR is the start of s
serialize_integer(n)       == <<Colon, n>> \o End
serialize_bulk_string(s)   == <<Dollar, Len(s)>> \o End \o s \o End
serialize_null             == <<Dollar, -1>> \o End
serialize_array(items) ==
  <<Star, Len(items)>> \o End \o
    FlattenSeq([i \in DOMAIN items |-> serialize_bulk_string(items[i])])

\* MGET writes its array itself: it has nulls.
Nullable(items) ==
  <<Star, Len(items)>> \o End \o
    FlattenSeq([i \in DOMAIN items |-> IF items[i] = Nothing THEN serialize_null ELSE serialize_bulk_string(items[i])])

\* Mutant: the bytes of an empty string, and their CRLF, are left out.
SerializeNoEmpty(r) ==
  CASE r[1] = "ok"    -> serialize_simple_string(r[2])
    [] r[1] = "error" -> serialize_error(r[2])
    [] r[1] = "int"   -> serialize_integer(r[2])
    [] r[1] = "bulk"  -> IF r[2] = << >> THEN <<Dollar, 0>> \o End ELSE serialize_bulk_string(r[2])
    [] r[1] = "null"  -> serialize_null
    [] r[1] = "array" -> Nullable(r[2])

\* The bytes of a reply that CommandParser gives.
Serialize(r) ==
  CASE r[1] = "ok"    -> serialize_simple_string(r[2])
    [] r[1] = "error" -> serialize_error(r[2])
    [] r[1] = "int"   -> serialize_integer(r[2])
    [] r[1] = "bulk"  -> serialize_bulk_string(r[2])
    [] r[1] = "null"  -> serialize_null
    [] r[1] = "array" -> Nullable(r[2])
=============================================================================
