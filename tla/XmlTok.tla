-------------------------------- MODULE XmlTok --------------------------------
(***************************************************************************)
(* xmltok_impl.c for an encoding of one byte units, without name spaces:   *)
(* the next token of a text.  A text is a sequence of bytes, each standing *)
(* for its BYTE_TYPE:                                                      *)
(*   "a", "x", "X"  letters ("a" is a hexadecimal digit, "x" and "X" are   *)
(*                  the letters of "xml" and "XML")     "1"  a digit       *)
(*   "l", "t"       the lead byte C3 and a trail byte.  C3 makes a letter  *)
(*                  with whatever byte is behind it, of which the low six  *)
(*                  bits count: with none of those here they are 17 or 37  *)
(*   "0"            no character of XML                                    *)
(*   " ", "r", "n"  white space: a space, CR and LF                        *)
(* and any other string the ASCII character it is.  The six characters     *)
(* "CDATA[" are written "a[", the target "xml" is written "x", and "XML"   *)
(* in any other case "X".                                                  *)
(*                                                                         *)
(* A scan returns the token and the place after it; or where the text is   *)
(* INVALID; or that it ends too early, PARTIAL or PARTIAL_CHAR.            *)
(***************************************************************************)
EXTENDS Integers, Sequences

White == {" ", "r", "n"}
NmStart == {"a", "x", "X"}
NmChars == NmStart \cup {"1", "-"}
NonChars == {"0", "t"}
HexDigits == {"1", "a"}
Quotes == {"\"", "'"}

Token(k, p) == [tok |-> k, next |-> p]
Invalid(p) == Token("INVALID", p)
Partial == Token("PARTIAL", 0)
PartialChar == Token("PARTIAL_CHAR", 0)
On(p) == Token("on", p)                           \* the scan goes on from p
Then(r, F(_)) == IF r.tok = "on" THEN F(r.next) ELSE r
Ended(t, p) == p > Len(t)

\* INVALID_CASES: past a character of the text
PastChar(t, p) ==
  CASE t[p] = "l" -> IF Ended(t, p + 1) THEN PartialChar ELSE On(p + 2)
    [] t[p] \in NonChars -> Invalid(p)
    [] OTHER -> On(p + 1)

\* CHECK_NAME_CASES: past the characters of a name
RECURSIVE NameRun(_, _)
NameRun(t, p) ==
  CASE Ended(t, p) -> Partial
    [] ~ Ended(t, p) /\ t[p] = "l" ->
         IF Ended(t, p + 1) THEN PartialChar ELSE NameRun(t, p + 2)
    [] ~ Ended(t, p) /\ t[p] \in NmChars -> NameRun(t, p + 1)
    [] OTHER -> On(p)

\* CHECK_NMSTRT_CASES, and then a name
NameFrom(t, p) ==
  IF Ended(t, p) THEN Partial
  ELSE IF t[p] \in NmStart \cup {"l"} THEN NameRun(t, p)
  ELSE Invalid(p)

RECURSIVE Past(_, _, _)
Past(t, p, S) == IF Ended(t, p) THEN Partial ELSE IF t[p] \in S THEN Past(t, p + 1, S) ELSE On(p)

\* the character c, and the token ends
Expect(t, p, c, k) == IF Ended(t, p) THEN Partial ELSE IF t[p] = c THEN Token(k, p + 1) ELSE Invalid(p)

RECURSIVE CommentBody(_, _)
CommentBody(t, p) ==
  IF Ended(t, p) THEN Partial
  ELSE IF t[p] # "-" THEN Then(PastChar(t, p), LAMBDA q : CommentBody(t, q))
  ELSE IF Ended(t, p + 1) THEN Partial
  ELSE IF t[p + 1] = "-" THEN Expect(t, p + 2, ">", "COMMENT")
  ELSE CommentBody(t, p + 1)
\* after "<!-"
scanComment(t, p) == IF Ended(t, p) THEN Partial ELSE IF t[p] # "-" THEN Invalid(p) ELSE CommentBody(t, p + 1)

\* after "<!", in the prolog
RECURSIVE DeclWord(_, _)
DeclWord(t, p) ==
  IF Ended(t, p) THEN Partial
  ELSE IF t[p] = "%" THEN IF Ended(t, p + 1) THEN Partial
                          ELSE IF t[p + 1] \in White \cup {"%"} THEN Invalid(p) ELSE Token("DECL_OPEN", p)
  ELSE IF t[p] \in White THEN Token("DECL_OPEN", p)
  ELSE IF t[p] \in NmStart THEN DeclWord(t, p + 1)
  ELSE Invalid(p)
scanDecl(t, p) ==
  CASE Ended(t, p) -> Partial
    [] ~ Ended(t, p) /\ t[p] = "-" -> scanComment(t, p + 1)
    [] ~ Ended(t, p) /\ t[p] = "[" -> Token("COND_SECT_OPEN", p + 1)
    [] ~ Ended(t, p) /\ t[p] \in NmStart -> DeclWord(t, p + 1)
    [] OTHER -> Invalid(p)

checkPiTarget(target) == CASE target = <<"x">> -> "XML_DECL" [] target = <<"X">> -> "bad" [] OTHER -> "PI"

RECURSIVE PiBody(_, _, _)
PiBody(t, p, k) ==
  IF Ended(t, p) THEN Partial
  ELSE IF t[p] # "?" THEN Then(PastChar(t, p), LAMBDA q : PiBody(t, q, k))
  ELSE IF Ended(t, p + 1) THEN Partial
  ELSE IF t[p + 1] = ">" THEN Token(k, p + 2)
  ELSE PiBody(t, p + 1, k)
\* after "<?"
scanPi(t, p) ==
  Then(NameFrom(t, p), LAMBDA q :
    LET k == checkPiTarget(SubSeq(t, p, q - 1))
    IN  IF t[q] \notin White \cup {"?"} \/ k = "bad" THEN Invalid(q)
        ELSE IF t[q] = "?" THEN Expect(t, q + 1, ">", k)
        ELSE PiBody(t, q + 1, k))

\* after "<![": all of "CDATA[" must be there
scanCdataSection(t, p) ==
  IF Ended(t, p + 1) THEN Partial
  ELSE IF t[p] # "a" THEN Invalid(p)
  ELSE IF t[p + 1] # "[" THEN Invalid(p + 1)
  ELSE Token("CDATA_SECT_OPEN", p + 2)

\* after "</"
scanEndTag(t, p) == Then(NameFrom(t, p), LAMBDA q : Then(Past(t, q, White), LAMBDA s : Expect(t, s, ">", "END_TAG")))

\* after "&#x" and "&#"
scanHexCharRef(t, p) ==
  IF Ended(t, p) THEN Partial ELSE IF t[p] \notin HexDigits THEN Invalid(p)
  ELSE Then(Past(t, p, HexDigits), LAMBDA q : Expect(t, q, ";", "CHAR_REF"))
scanCharRef(t, p) ==
  IF Ended(t, p) THEN Partial ELSE IF t[p] = "x" THEN scanHexCharRef(t, p + 1)
  ELSE IF t[p] # "1" THEN Invalid(p)
  ELSE Then(Past(t, p, {"1"}), LAMBDA q : Expect(t, q, ";", "CHAR_REF"))

\* after "&"
scanRef(t, p) ==
  IF ~ Ended(t, p) /\ t[p] = "#" THEN scanCharRef(t, p + 1)
  ELSE Then(NameFrom(t, p), LAMBDA q : Expect(t, q, ";", "ENTITY_REF"))

\* in the value of an attribute that the quote open opened
RECURSIVE AttValue(_, _, _)
AttValue(t, p, open) ==
  IF Ended(t, p) THEN Partial
  ELSE IF t[p] = open THEN On(p)
  ELSE IF t[p] = "&"
  THEN LET r == scanRef(t, p + 1)
       IN  IF r.tok \in {"ENTITY_REF", "CHAR_REF"} THEN AttValue(t, r.next, open) ELSE r
  ELSE IF t[p] = "<" THEN Invalid(p)
  ELSE Then(PastChar(t, p), LAMBDA q : AttValue(t, q, open))

\* from the name of an attribute to the end of the tag
RECURSIVE scanAtts(_, _)
scanAtts(t, p) ==
  Then(NameRun(t, p), LAMBDA q : Then(Past(t, q, White), LAMBDA s :
    IF t[s] # "=" THEN Invalid(s)
    ELSE Then(Past(t, s + 1, White), LAMBDA o :
      IF t[o] \notin Quotes THEN Invalid(o)
      ELSE Then(AttValue(t, o + 1, t[o]), LAMBDA c :
        IF Ended(t, c + 1) THEN Partial
        ELSE IF t[c + 1] \notin White \cup {">", "/"} THEN Invalid(c + 1)
        ELSE Then(Past(t, c + 1, White), LAMBDA e :
          CASE t[e] = ">" -> Token("START_TAG_WITH_ATTS", e + 1)
            [] t[e] = "/" -> Expect(t, e + 1, ">", "EMPTY_ELEMENT_WITH_ATTS")
            [] t[e] \in NmStart \cup {"l"} -> scanAtts(t, e)
            [] OTHER -> Invalid(e))))))

\* after "<", in content
scanLt(t, p) ==
  LET StartTag == Then(NameFrom(t, p), LAMBDA q : Then(Past(t, q, White), LAMBDA e :
                    CASE t[e] = ">" -> Token("START_TAG_NO_ATTS", e + 1)
                      [] t[e] = "/" -> Expect(t, e + 1, ">", "EMPTY_ELEMENT_NO_ATTS")
                      [] t[e] \in NmStart \cup {"l"} -> scanAtts(t, e)
                      [] OTHER -> Invalid(e)))
  IN  CASE Ended(t, p) -> Partial
        [] ~ Ended(t, p) /\ t[p] = "!" ->
             IF Ended(t, p + 1) THEN Partial
             ELSE IF t[p + 1] = "-" THEN scanComment(t, p + 2)
             ELSE IF t[p + 1] = "[" THEN scanCdataSection(t, p + 2)
             ELSE Invalid(p + 1)
        [] ~ Ended(t, p) /\ t[p] = "?" -> scanPi(t, p + 1)
        [] ~ Ended(t, p) /\ t[p] = "/" -> scanEndTag(t, p + 1)
        [] OTHER -> StartTag

\* "]]>" from p on, as far as the text goes
CloseAt(t, p) == \A i \in 0 .. 2 : Ended(t, p + i) \/ t[p + i] = <<"]", "]", ">">>[i + 1]

\* data of content, and of a CDATA section, from p on
RECURSIVE DataRun(_, _)
DataRun(t, p) ==
  CASE Ended(t, p) -> Token("DATA_CHARS", p)
    [] ~ Ended(t, p) /\ t[p] = "l" -> IF Ended(t, p + 1) THEN Token("DATA_CHARS", p) ELSE DataRun(t, p + 2)
    [] ~ Ended(t, p) /\ t[p] = "]" ->
         IF ~ CloseAt(t, p) THEN DataRun(t, p + 1)
         ELSE IF Ended(t, p + 2) THEN Token("DATA_CHARS", p) ELSE Invalid(p + 2)
    [] ~ Ended(t, p) /\ t[p] \in {"&", "<", "r", "n"} \cup NonChars -> Token("DATA_CHARS", p)
    [] OTHER -> DataRun(t, p + 1)

Newline(t, p) == Token("DATA_NEWLINE", IF ~ Ended(t, p + 1) /\ t[p] = "r" /\ t[p + 1] = "n" THEN p + 2 ELSE p + 1)

contentTok(t, p) ==
  CASE Ended(t, p) -> Token("NONE", p)
    [] ~ Ended(t, p) /\ t[p] = "<" -> scanLt(t, p + 1)
    [] ~ Ended(t, p) /\ t[p] = "&" -> scanRef(t, p + 1)
    [] ~ Ended(t, p) /\ t[p] \in {"r", "n"} ->
         IF t[p] = "r" /\ Ended(t, p + 1) THEN Token("TRAILING_CR", p) ELSE Newline(t, p)
    [] ~ Ended(t, p) /\ t[p] = "]" /\ CloseAt(t, p) ->
         IF Ended(t, p + 2) THEN Token("TRAILING_RSQB", p) ELSE Invalid(p + 2)
    [] OTHER -> Then(PastChar(t, p), LAMBDA q : DataRun(t, q))

RECURSIVE CdataRun(_, _)
CdataRun(t, p) ==
  IF Ended(t, p) \/ t[p] \in {"]", "r", "n"} \cup NonChars \/ (t[p] = "l" /\ Ended(t, p + 1)) THEN Token("DATA_CHARS", p)
  ELSE CdataRun(t, IF t[p] = "l" THEN p + 2 ELSE p + 1)

cdataSectionTok(t, p) ==
  CASE Ended(t, p) -> Token("NONE", p)
    [] ~ Ended(t, p) /\ t[p] = "]" /\ CloseAt(t, p) ->
         IF Ended(t, p + 2) THEN Partial ELSE Token("CDATA_SECT_CLOSE", p + 3)
    [] ~ Ended(t, p) /\ t[p] \in {"r", "n"} -> IF t[p] = "r" /\ Ended(t, p + 1) THEN Partial ELSE Newline(t, p)
    [] OTHER -> Then(PastChar(t, p), LAMBDA q : CdataRun(t, q))

------------------------------------------------------------------------------
(* The tokens of the prolog.                                                *)

\* after "%"
scanPercent(t, p) ==
  IF ~ Ended(t, p) /\ t[p] \in White \cup {"%"} THEN Token("PERCENT", p)
  ELSE Then(NameFrom(t, p), LAMBDA q : Expect(t, q, ";", "PARAM_ENTITY_REF"))

\* after "#"
scanPoundName(t, p) ==
  Then(NameFrom(t, p), LAMBDA q :
    IF t[q] \in White \cup {")", ">", "%", "|"} THEN Token("POUND_NAME", q) ELSE Invalid(q))

\* after the quote open
RECURSIVE scanLit(_, _, _)
scanLit(t, p, open) ==
  IF Ended(t, p) THEN Partial
  ELSE IF t[p] # open THEN Then(PastChar(t, p), LAMBDA q : scanLit(t, q, open))
  ELSE IF Ended(t, p + 1) THEN Partial
  ELSE IF t[p + 1] \in White \cup {">", "%", "["} THEN Token("LITERAL", p + 1)
  ELSE Invalid(p + 1)

\* a CR that ends the text may be half of a line end
RECURSIVE Space(_, _)
Space(t, p) ==
  IF Ended(t, p) \/ t[p] \notin White \/ (t[p] = "r" /\ Ended(t, p + 1)) THEN Token("PROLOG_S", p) ELSE Space(t, p + 1)

\* a name or a name token, and what may follow it
Named(t, p) ==
  LET k == IF t[p] \in NmStart \cup {"l"} THEN "NAME" ELSE "NMTOKEN"
  IN  Then(NameRun(t, p), LAMBDA q :
        CASE t[q] \in White \cup {">", ")", ",", "|", "[", "%"} -> Token(k, q)
          [] t[q] = "+" /\ k = "NAME" -> Token("NAME_PLUS", q + 1)
          [] t[q] = "*" /\ k = "NAME" -> Token("NAME_ASTERISK", q + 1)
          [] t[q] = "?" /\ k = "NAME" -> Token("NAME_QUESTION", q + 1)
          [] OTHER -> Invalid(q))

CloseParenAlone(t, p) ==   \* slip: the end of the text ends the token
  CASE Ended(t, p) -> Token("CLOSE_PAREN", p)
    [] ~ Ended(t, p) /\ t[p] = "*" -> Token("CLOSE_PAREN_ASTERISK", p + 1)
    [] ~ Ended(t, p) /\ t[p] = "?" -> Token("CLOSE_PAREN_QUESTION", p + 1)
    [] ~ Ended(t, p) /\ t[p] = "+" -> Token("CLOSE_PAREN_PLUS", p + 1)
    [] ~ Ended(t, p) /\ t[p] \in White \cup {">", ",", "|", ")"} -> Token("CLOSE_PAREN", p)
    [] OTHER -> Invalid(p)
CloseParen(t, p) ==
  CASE Ended(t, p) -> Partial
    [] ~ Ended(t, p) /\ t[p] = "*" -> Token("CLOSE_PAREN_ASTERISK", p + 1)
    [] ~ Ended(t, p) /\ t[p] = "?" -> Token("CLOSE_PAREN_QUESTION", p + 1)
    [] ~ Ended(t, p) /\ t[p] = "+" -> Token("CLOSE_PAREN_PLUS", p + 1)
    [] ~ Ended(t, p) /\ t[p] \in White \cup {">", ",", "|", ")"} -> Token("CLOSE_PAREN", p)
    [] OTHER -> Invalid(p)

Single == [c \in {",", "[", "(", "|", ">"} |->
             CASE c = "," -> "COMMA" [] c = "[" -> "OPEN_BRACKET" [] c = "(" -> "OPEN_PAREN"
               [] c = "|" -> "OR" [] c = ">" -> "DECL_CLOSE"]

prologLt(t, p) ==
  CASE Ended(t, p) -> Partial
    [] ~ Ended(t, p) /\ t[p] = "!" -> scanDecl(t, p + 1)
    [] ~ Ended(t, p) /\ t[p] = "?" -> scanPi(t, p + 1)
    [] ~ Ended(t, p) /\ t[p] \in NmStart \cup {"l"} -> Token("INSTANCE_START", p - 1)
    [] OTHER -> Invalid(p)

prologTok(t, p) ==
  IF Ended(t, p) THEN Token("NONE", p)
  ELSE CASE t[p] \in Quotes -> scanLit(t, p + 1, t[p])
         [] t[p] = "<" -> prologLt(t, p + 1)
         [] t[p] \in White -> IF t[p] = "r" /\ Ended(t, p + 1) THEN Token("TRAILING_CR", p) ELSE Space(t, p + 1)
         [] t[p] = "%" -> scanPercent(t, p + 1)
         [] t[p] \in DOMAIN Single -> Token(Single[t[p]], p + 1)
         [] t[p] = "]" -> IF ~ CloseAt(t, p) THEN Token("CLOSE_BRACKET", p + 1)
                          ELSE IF Ended(t, p + 2) THEN Partial ELSE Token("COND_SECT_CLOSE", p + 3)
         [] t[p] = ")" -> CloseParen(t, p + 1)
         [] t[p] = "#" -> scanPoundName(t, p + 1)
         [] t[p] \in NmChars \cup {"l"} -> Named(t, p)
         [] OTHER -> Invalid(p)

------------------------------------------------------------------------------
(* Within a value.                                                          *)

\* the first of Stops from p on, with the characters between passed unread
RECURSIVE Until(_, _, _)
Until(t, p, Stops) == IF Ended(t, p) \/ t[p] \in Stops THEN p ELSE Until(t, IF t[p] = "l" THEN p + 2 ELSE p + 1, Stops)

ValueStart(t, p, refs, spaces) ==
  CASE t[p] \in refs /\ t[p] = "&" -> scanRef(t, p + 1)
    [] t[p] \in refs /\ t[p] = "%" -> scanPercent(t, p + 1)
    [] t[p] \in {"r", "n"} -> IF t[p] = "r" /\ Ended(t, p + 1) THEN Token("TRAILING_CR", p) ELSE Newline(t, p)
    [] t[p] \in spaces -> Token("ATTRIBUTE_VALUE_S", p + 1)
    [] OTHER -> Token("DATA_CHARS", Until(t, p, refs \cup spaces \cup {"r", "n"}))

attributeValueTok(t, p) ==
  IF Ended(t, p) THEN Token("NONE", p)
  ELSE LET r == ValueStart(t, p, {"&"}, {" "})
           stop == Until(t, p, {"&", "<", "r", "n", " "})
       IN  IF r.tok = "DATA_CHARS" /\ ~ Ended(t, stop) /\ t[stop] = "<" THEN Invalid(stop) ELSE r

entityValueTok(t, p) == IF Ended(t, p) THEN Token("NONE", p) ELSE ValueStart(t, p, {"&", "%"}, {})

------------------------------------------------------------------------------

\* a space that the normalization of a value would take away, or might
SpaceCounts(t, p, value, open) == p = value \/ t[p + 1] = " " \/ t[p + 1] = open

(***************************************************************************)
(* The attributes of a well-formed start tag, from its "<" on: where each  *)
(* value starts and ends, and whether it is normalized.                    *)
(***************************************************************************)
RECURSIVE getAtts(_, _, _, _, _)
getAtts(t, p, state, open, atts) ==
  LET last == Len(atts)
      Denormalized == [atts EXCEPT ![last].normalized = FALSE]
      Named1 == IF state # "other" THEN atts
                ELSE Append(atts, [name |-> p, value |-> 0, end |-> 0, normalized |-> TRUE])
  IN  CASE t[p] \in NmStart \cup {"l"} ->
             getAtts(t, IF t[p] = "l" THEN p + 2 ELSE p + 1, IF state = "other" THEN "inName" ELSE state, open, Named1)
        [] t[p] \in Quotes /\ state # "inValue" ->
             getAtts(t, p + 1, "inValue", t[p], [atts EXCEPT ![last].value = p + 1])
        [] t[p] \in Quotes /\ state = "inValue" /\ t[p] = open ->
             getAtts(t, p + 1, "other", open, [atts EXCEPT ![last].end = p])
        [] t[p] = "&" -> getAtts(t, p + 1, state, open, Denormalized)
        [] t[p] \in White ->
             getAtts(t, p + 1, IF state = "inName" THEN "other" ELSE state, open,
                     IF state = "inValue" /\ (t[p] # " " \/ (atts[last].normalized /\ SpaceCounts(t, p, atts[last].value, open)))
                     THEN Denormalized ELSE atts)
        [] t[p] \in {">", "/"} /\ state # "inValue" -> atts
        [] OTHER -> getAtts(t, p + 1, state, open, atts)

\* updatePosition: the lines that end between p and end
RECURSIVE LinesIn(_, _, _)
LinesIn(t, p, end) ==
  CASE p >= end -> 0
    [] p < end /\ t[p] = "n" -> 1 + LinesIn(t, p + 1, end)
    [] p < end /\ t[p] = "r" -> 1 + LinesIn(t, IF p + 1 < end /\ t[p + 1] = "n" THEN p + 2 ELSE p + 1, end)
    [] OTHER -> LinesIn(t, IF t[p] = "l" THEN p + 2 ELSE p + 1, end)
===============================================================================
