--------------------------------- MODULE Text --------------------------------
(***************************************************************************)
(* str.c on the strings that a caller can build: strescape and strunescape *)
(* for XML, str_b64decode, which writes over the string that it reads, and *)
(* the string pool that puts an XML text together.                         *)
(*                                                                         *)
(* A string is a sequence of characters; an entity such as &amp; is one    *)
(* symbol in the escaped text, "?" the byte that is left as it was         *)
(* allocated.  The digits of base 64 are numbers, -1 a character of seven  *)
(* bits that is none, which the table skips.  A byte from 128 on, which no *)
(* encoded text has, is left out: where char is signed it is a negative    *)
(* index, and what is read in front of the table is not defined.           *)
(***************************************************************************)
EXTENDS Integers, Sequences, SequencesExt

CONSTANTS
  Letters,    \* characters of the texts, the five that XML escapes among them
  Octets,     \* bytes of the decoded texts
  MaxText, MaxOctets, MaxAdds   \* bounds: lengths in the runs


VARIABLES
  text,    \* a text, as it is built up
  octets,  \* bytes that a peer has encoded
  noise,   \* where it has put a character that is no digit
  pieces, spooled  \* the spool_struct's nodes and len; history: what was added

textVars == <<text, octets, noise, pieces, spooled>>

Entity == [c \in {"&", "'", "\"", "<", ">"} |->
             CASE c = "&" -> "&amp;" [] c = "'" -> "&apos;" [] c = "\"" -> "&quot;" [] c = "<" -> "&lt;" [] c = ">" -> "&gt;"]
EntityLength == [c \in DOMAIN Entity |->
             CASE c = "&" -> 5 [] c \in {"'", "\""} -> 6 [] OTHER -> 4]

(* No letter is a whole entity. *)
ASSUME TextAssumption == Octets \subseteq 0..255 /\ \A c \in DOMAIN Entity : Entity[c] \notin Letters

(* The characters one symbol of a text stands for in memory. *)
Width(s) == IF \E c \in DOMAIN Entity : s = Entity[c]
              THEN EntityLength[CHOOSE c \in DOMAIN Entity : s = Entity[c]] ELSE 1
Bytes(t) == SumFunction([i \in DOMAIN t |-> Width(t[i])])

(* strescape: a first pass over the text for the length of the buffer. *)
EscapeKeepsQuotes(t) == [i \in DOMAIN t |-> IF t[i] \in {"&", "<", ">"} THEN Entity[t[i]] ELSE t[i]]   \* slip
strescape(t) == [i \in DOMAIN t |-> IF t[i] \in DOMAIN Entity THEN Entity[t[i]] ELSE t[i]]
newlen(t) == Len(t) + SumFunction([i \in DOMAIN t |-> IF t[i] \in DOMAIN Entity THEN EntityLength[t[i]] ELSE 0])

(* strunescape: an & that begins no entity counts for a character, and
   nothing is written for it. *)
UnescapeOnce(s) == IF \E c \in DOMAIN Entity : s = Entity[c]
                     THEN CHOOSE c \in DOMAIN Entity : s = Entity[c]
                     ELSE IF s = "&" THEN "?" ELSE s
strunescape(t) == IF ~ \E i \in DOMAIN t : t[i] = "&" \/ Width(t[i]) > 1 THEN t
                  ELSE [i \in DOMAIN t |-> UnescapeOnce(t[i])]

(* str_b64decode of seven-bit characters: phase, the last digit, and what has been written; the
   string is written at most where it has been read already. *)
Decoder == [phase |-> 0, dlast |-> 0, out |-> <<>>, read |-> 0, behind |-> TRUE]
Digit(d, dlast, phase) ==
  CASE phase = 1 -> (dlast * 4 + (d \div 16)) % 256
    [] phase = 2 -> ((dlast % 16) * 16 + (d \div 4)) % 256
    [] phase = 3 -> ((dlast % 4) * 64 + d) % 256
DecodeStep(s, d) ==
  LET n == [s EXCEPT !.read = @ + 1, !.phase = (@ + 1) % 4, !.dlast = d]
      out == IF s.phase = 0 THEN s.out ELSE Append(s.out, Digit(d, s.dlast, s.phase))
  IN IF d = -1 THEN [s EXCEPT !.read = @ + 1]
     ELSE [n EXCEPT !.out = out, !.behind = s.behind /\ Len(out) <= s.read]
str_b64decode(digits) ==
  LET after[i \in 0..Len(digits)] == IF i = 0 THEN Decoder ELSE DecodeStep(after[i - 1], digits[i])
  IN after[Len(digits)]

TextInit ==
  /\ text = <<>> /\ octets = <<>> /\ noise = 0
  /\ pieces = [nodes |-> <<>>, len |-> 0] /\ spooled = <<>>

Type(c) ==
  /\ octets = <<>> /\ spooled = <<>>
  /\ Len(text) < MaxText /\ text' = Append(text, c)
  /\ UNCHANGED <<octets, noise, pieces, spooled>>
Encode(o) ==
  /\ text = <<>> /\ spooled = <<>>
  /\ Len(octets) < MaxOctets /\ octets' = Append(octets, o)
  /\ noise' \in 0..(Len(octets) + 2)
  /\ UNCHANGED <<text, pieces, spooled>>

(* spool_add: a copy of the string behind the last node; NULL and the empty
   string are passed over. *)
Added(s, str) == IF str = <<>> THEN s ELSE [nodes |-> Append(s.nodes, str), len |-> s.len + Len(str)]
spool_add(str) ==
  /\ text = <<>> /\ octets = <<>> /\ Len(spooled) < MaxAdds
  /\ pieces' = Added(pieces, str)
  /\ spooled' = Append(spooled, str)
  /\ UNCHANGED <<text, octets, noise>>
(* spooler: strings up to the argument that is the spool itself. *)
spooler(a, b) ==
  /\ text = <<>> /\ octets = <<>> /\ Len(spooled) + 1 < MaxAdds
  /\ pieces' = Added(Added(pieces, a), b)
  /\ spooled' = spooled \o <<a, b>>
  /\ UNCHANGED <<text, octets, noise>>

(* The text in a buffer of its length and one; NULL when there is none. *)
spool_print(s) == FlattenSeq(s.nodes)

TextNext ==
  \/ \E c \in Letters : Type(c)
  \/ \E o \in Octets : Encode(o)
  \/ \E a, b \in {<<>>, <<"a">>, <<"a", "b">>} : spool_add(a) \/ spooler(a, b)
TextSpec == TextInit /\ [][TextNext]_textVars
-----------------------------------------------------------------------------
(* What strescape writes has no character left that XML would take for
   markup, comes back through strunescape as it was, and fits the buffer
   that was counted for it. *)
EscapeRoundTrip ==
  LET t == strescape(text)
  IN /\ \A i \in DOMAIN t : t[i] \notin DOMAIN Entity
     /\ strunescape(t) = text
EscapeFits == Bytes(strescape(text)) <= newlen(text)

(* The encoding of RFC 2045: the bits of three bytes in four digits. *)
SixBits(o) ==
  LET b(i) == IF i \in DOMAIN o THEN o[i] ELSE 0
  IN <<b(1) \div 4, (b(1) % 4) * 16 + (b(2) \div 16), (b(2) % 16) * 4 + (b(3) \div 64), b(3) % 64>>
Digits(o) ==
  LET groups == [g \in 1..((Len(o) + 2) \div 3) |-> SixBits(SubSeq(o, 3 * g - 2, IF 3 * g < Len(o) THEN 3 * g ELSE Len(o)))]
  IN SubSeq(FlattenSeq(groups), 1, (4 * Len(o) + 2) \div 3)
Noisy(d, at) == IF at = 0 \/ at > Len(d) THEN d \o <<-1>> ELSE SubSeq(d, 1, at - 1) \o <<-1>> \o SubSeq(d, at, Len(d))

(* Decoding gives back the bytes, wherever a line end, padding or another
   seven-bit character that is no digit stands, and never writes over a
   digit that it has not read. *)
DecodesInPlace ==
  LET end == str_b64decode(Noisy(Digits(octets), noise))
  IN end.out = octets /\ end.behind

(* The string pool holds the strings in order, and its length is that of
   the text it prints, which is the size of the buffer. *)
SpoolIsConcat ==
  /\ spool_print(pieces) = FlattenSeq(spooled)
  /\ pieces.len = Len(spool_print(pieces))

(* The conversions and the spool of str.c. *)
TextsConverted == EscapeRoundTrip /\ EscapeFits /\ DecodesInPlace /\ SpoolIsConcat
=============================================================================
