-------------------------------- MODULE XmlScan --------------------------------
(***************************************************************************)
(* The scans of XmlTok on a text that arrives byte by byte: what each says *)
(* of the text so far, and of the text that goes on.                       *)
(***************************************************************************)
EXTENDS XmlTok, SequencesExt

CONSTANTS
  Scanned,    \* triples of a scan, how its texts begin, and the bytes they go on with
  MaxScan     \* bytes a text goes on with

ASSUME XmlScanAssumption == MaxScan \in Nat

VARIABLES
  scan,       \* the scan, the beginning and the bytes
  scanned,    \* the text so far
  scanResult  \* what the scan says of it

scanVars == <<scan, scanned, scanResult>>

ScanOf(t) ==
  CASE scan[1] = "content" -> contentTok(t, 1)
    [] scan[1] = "cdata" -> cdataSectionTok(t, 1)
    [] scan[1] = "prolog" -> prologTok(t, 1)

\* the scan asks for more
Undecided(r) == r.tok \in {"NONE", "PARTIAL", "PARTIAL_CHAR", "TRAILING_CR", "TRAILING_RSQB"}

ScanInit ==
  /\ scan \in Scanned /\ scanned = scan[2]
  /\ scanResult = ScanOf(scanned)

\* a byte arrives; of a token that is found one more byte is of interest
ScanByte ==
  /\ Len(scanned) < Len(scan[2]) + MaxScan
  /\ Undecided(scanResult) \/ scanResult.next + 1 >= Len(scanned)
  /\ \E b \in scan[3] : scanned' = Append(scanned, b) /\ scanResult' = ScanOf(scanned') /\ UNCHANGED scan

ScanSpec == ScanInit /\ [][ScanByte]_scanVars

------------------------------------------------------------------------------
\* a run of data or space that stopped at the end of the text, or at what only more of the text decides
MayGoOn == scanResult.tok \in {"DATA_CHARS", "PROLOG_S"} /\ \A i \in scanResult.next .. Len(scanned) : scanned[i] \in {"l", "r", "]"}

\* What the scan has found of a text it says again of the text that goes on: a chunk of a document may
\* end anywhere.  Only a run of data or white space may go on, and "]]>" may turn out to end the data.
FoundStays ==
  [][~ Undecided(scanResult) =>
       \/ scanResult' = scanResult
       \/ MayGoOn /\ scanResult'.tok = scanResult.tok /\ scanResult'.next > scanResult.next
       \/ MayGoOn /\ scanResult'.tok = "INVALID" /\ scanned'[Len(scanned')] = ">"]_scanVars

\* The bytes as the scans read them: what follows a lead byte is its trail, whatever it is, for the second
\* byte of a character is not looked at.
AsRead(t) == LET read[i \in 0 .. Len(t)] == IF i = 0 THEN "" ELSE IF read[i - 1] = "l" THEN "t" ELSE t[i]
             IN  [i \in DOMAIN t |-> read[i]]

\* A token ends with a CR only where no LF follows, which the end of the text does not tell: a line end of
\* two bytes is never split, in the text or between two chunks of it.
LinesWhole ==
  LET last == scanResult.next - 1
  IN  ~ Undecided(scanResult) /\ scanResult.tok # "INVALID" /\ last > 0 /\ AsRead(scanned)[last] = "r" =>
        last < Len(scanned) /\ scanned[last + 1] # "n"

Taken == AsRead(SubSeq(scanned, 1, scanResult.next - 1))
Has(s, x) == \E i \in 0 .. Len(s) - Len(x) : SubSeq(s, i + 1, i + Len(x)) = x

\* The tokens that go up to an end mark hold no other.
MarksAreFirst ==
  /\ scanResult.tok = "COMMENT" =>
       /\ IsPrefix(<<"<", "!", "-", "-">>, Taken) /\ IsSuffix(<<"-", "-", ">">>, Taken) /\ Len(Taken) >= 7
       /\ ~ Has(SubSeq(Taken, 5, Len(Taken) - 2), <<"-", "-">>)
  /\ scanResult.tok = "PI" => IsSuffix(<<"?", ">">>, Taken) /\ ~ Has(Front(Taken), <<"?", ">">>)
  /\ scan[1] = "content" /\ scanResult.tok = "DATA_CHARS" => ~ Has(Taken, <<"]", "]", ">">>)
  /\ scan[1] = "cdata" /\ scanResult.tok = "CDATA_SECT_CLOSE" => Taken = <<"]", "]", ">">>

WithAtts == {"START_TAG_WITH_ATTS", "EMPTY_ELEMENT_WITH_ATTS"}
Atts == getAtts(scanned, 2, "inName", "", <<>>)

ValueOf(a) == SubSeq(AsRead(scanned), a.value, a.end - 1)

\* A value that getAtts says is normalized is what its normalization would make of it: no references, no
\* line ends, and no space at either end or next to another.
NormalizedIsNormal ==
  scanResult.tok \in WithAtts =>
    \A i \in DOMAIN Atts :
      LET v == ValueOf(Atts[i])
      IN  Atts[i].normalized <=>
            /\ \A j \in DOMAIN v : v[j] \notin {"&", "r", "n"}
            /\ ~ Has(<<" ">> \o v \o <<" ">>, <<" ", " ">>) \/ v = <<>>

\* the tokens of a value, one after another, up to the end or an invalid one
RECURSIVE ValueEnd(_, _, _)
ValueEnd(v, p, ofEntity) ==
  LET r == IF ofEntity THEN entityValueTok(v, p) ELSE attributeValueTok(v, p)
  IN  IF r.tok = "TRAILING_CR" THEN Token("NONE", p + 1)
      ELSE IF r.tok \in {"NONE", "INVALID", "PARTIAL", "PARTIAL_CHAR"} THEN r
      ELSE ValueEnd(v, r.next, ofEntity)

AllOf(v) == Token("NONE", Len(v) + 1)

\* The value of an attribute that the scan let through is scanned again, by itself: nothing in it is
\* invalid, and a lead byte at its end does not lead past it.  Nor does one in the value of an entity, of
\* which scanLit has looked at the quotes only: its references may be wrong.
ValuesScanAgain ==
  /\ scanResult.tok \in WithAtts =>
       \A i \in DOMAIN Atts : ValueEnd(ValueOf(Atts[i]), 1, FALSE) = AllOf(ValueOf(Atts[i]))
  /\ scan[1] = "prolog" /\ scanResult.tok = "LITERAL" =>
       LET v == SubSeq(Taken, 2, Len(Taken) - 1)
           r == ValueEnd(v, 1, TRUE)
       IN  \/ r = AllOf(v)
           \/ r.tok \in {"INVALID", "PARTIAL"} /\ \E i \in DOMAIN v : v[i] \in {"&", "%"}

\* The lines before a token and the lines in it are the lines of both: the position is brought up to date
\* token by token, and no line end is counted twice.
LinesAddUp ==
  ~ Undecided(scanResult) /\ scanResult.tok # "INVALID" =>
    LinesIn(scanned, 1, scanResult.next) + LinesIn(scanned, scanResult.next, Len(scanned) + 1)
      = LinesIn(scanned, 1, Len(scanned) + 1)
===============================================================================
