------------------------------- MODULE XStream -------------------------------
(***************************************************************************)
(* xstream.c: what the server sends is parsed in the pieces in which it is *)
(* read, and the elements below the stream's root are given to the handler *)
(* one by one, between the root itself and its end, or an error.           *)
(*                                                                         *)
(* A piece is a sequence of tokens: "start", "end" and "text" as expat     *)
(* reports them, "bad" where XML_Parse finds an error.                     *)
(***************************************************************************)
EXTENDS Integers, Sequences, FiniteSets

CONSTANTS
  MaxDepth, MaxNodeSize,  \* XSTREAM_MAXDEPTH and XSTREAM_MAXNODE, in tokens
  MaxPiece, MaxTokens, MaxErrors   \* bounds: tokens of a piece and in all, errors heard

ASSUME XStreamAssumption == {MaxDepth, MaxNodeSize} \subseteq Nat \ {0}

VARIABLES
  xs,      \* [status, node, open, depth]: node is what the element in hand
           \* holds, open how many of its tags are not closed, -1 is NULL
  parser,  \* expat: [level, error]
  calls,   \* history: the calls of the handler, [type, node, why]
  eaten      \* history: every token that was eaten

xstreamVars == <<xs, parser, calls, eaten>>

Hand(status, node, open, depth) == [status |-> status, node |-> node, open |-> open, depth |-> depth]
Stream0 == Hand("ROOT", <<>>, -1, 0)
Call(type, node, why) == [type |-> type, node |-> node, why |-> why]
Over(s) == s.xs.status \in {"CLOSE", "ERR"}
AtLevel(s, level, error) == [xs |-> s.xs, parser |-> [level |-> level, error |-> error], calls |-> s.calls]
Heard(s, x, list) == [xs |-> x, parser |-> s.parser, calls |-> list]

(* _xstream_startElement: the first is the root, which is given away as it
   is; the depth is checked when the tag is there already. *)
_xstream_startElement(s) ==
  LET x == s.xs
      depth == x.depth + 1
      status == IF depth > MaxDepth THEN "ERR" ELSE "NODE"
  IN IF Over(s) THEN s
     ELSE IF x.status = "ROOT" THEN Heard(s, Hand(status, x.node, x.open, depth), Append(s.calls, Call("ROOT", <<>>, "")))
     ELSE IF x.open = -1 THEN Heard(s, Hand(status, <<"start">>, 1, depth), s.calls)
     ELSE Heard(s, Hand(status, Append(x.node, "start"), x.open + 1, depth), s.calls)

(* _xstream_endElement: of the root, of the element in hand, or inside it. *)
EndTag(s, x, kept) ==
  IF Over(s) THEN s
  ELSE IF x.open = -1 THEN Heard(s, Hand("CLOSE", x.node, -1, x.depth - 1), Append(s.calls, Call("CLOSE", <<>>, "")))
  ELSE IF x.open = 1 THEN Heard(s, kept, Append(s.calls, Call("NODE", Append(x.node, "end"), "")))
  ELSE Heard(s, Hand(x.status, Append(x.node, "end"), x.open - 1, x.depth - 1), s.calls)
EndKeepsNode(s) ==   \* slip: the element stays in hand when it was given away
  EndTag(s, s.xs, Hand(s.xs.status, Append(s.xs.node, "end"), 1, s.xs.depth - 1))
_xstream_endElement(s) == EndTag(s, s.xs, Hand(s.xs.status, <<>>, -1, s.xs.depth - 1))

(* _xstream_charData: text outside of the elements is dropped. *)
_xstream_charData(s) ==
  LET x == s.xs
  IN IF Over(s) \/ x.open = -1 THEN s ELSE Heard(s, Hand(x.status, Append(x.node, "text"), x.open, x.depth), s.calls)

(* XML_Parse on one token: it calls the handlers while the document is well
   formed, with one root; after an error it does not go on. *)
Parsed(s, token) ==
  LET level == s.parser.level
  IN IF s.parser.error THEN s
     ELSE CASE token = "start" /\ level >= 0 -> _xstream_startElement(AtLevel(s, level + 1, FALSE))
            [] token = "end" /\ level >= 1 -> _xstream_endElement(AtLevel(s, IF level = 1 THEN -1 ELSE level - 1, FALSE))
            [] token = "text" /\ level >= 1 -> _xstream_charData(AtLevel(s, level, FALSE))
            [] OTHER -> AtLevel(s, level, TRUE)

(* xstream_eat: a piece, and then the checks; the handler hears of an error
   at every call from the first on. *)
Fed(s0, piece) ==
  LET after[n \in 0..Len(piece)] == IF n = 0 THEN s0 ELSE Parsed(after[n - 1], piece[n])
  IN after[Len(piece)]
xstream_eat(s0, piece) ==
  LET s == Fed(s0, piece)
      why == IF s.parser.error THEN "syntax"
             ELSE IF Len(s.xs.node) > MaxNodeSize THEN "size"
             ELSE IF s.xs.status = "ERR" THEN "depth" ELSE ""
      x == s.xs
  IN IF why = "" THEN s
     ELSE Heard(s, Hand("ERR", x.node, x.open, x.depth), Append(s.calls, Call("ERR", <<>>, why)))

(* xstream_new *)
XStreamInit ==
  /\ xs = Stream0 /\ parser = [level |-> 0, error |-> FALSE]
  /\ calls = <<>> /\ eaten = <<>>

CallsOf(type) == {k \in DOMAIN calls : calls[k].type = type}
Eat(piece) ==
  /\ Len(eaten) + Len(piece) <= MaxTokens /\ Cardinality(CallsOf("ERR")) < MaxErrors
  /\ LET s == xstream_eat([xs |-> xs, parser |-> parser, calls |-> calls], piece)
     IN xs' = s.xs /\ parser' = s.parser /\ calls' = s.calls
  /\ eaten' = eaten \o piece
XStreamNext == \E n \in 1..MaxPiece : \E piece \in [1..n -> {"start", "end", "text", "bad"}] : Eat(piece)
XStreamSpec == XStreamInit /\ [][XStreamNext]_xstreamVars
-----------------------------------------------------------------------------
(* The handler hears of the root first and once, then of elements, of the
   end at most once, and of no element after the end or an error. *)
CallsInOrder ==
  \A i \in DOMAIN calls :
    /\ (calls[i].type = "ROOT") <=> (i = 1 /\ calls[i].type # "ERR")
    /\ calls[i].type \in {"CLOSE", "ERR"} => \A j \in DOMAIN calls : j > i => calls[j].type = "ERR"

(* The elements it was given are those of the stream, in their order and
   each once, whole, in whatever pieces the bytes were read: the call behind
   the root's is that of the first of them, and so on.  While nothing has
   gone wrong none of those that are complete is missing. *)
Levels(tokens) ==
  LET level[i \in 0..Len(tokens)] ==
        IF i = 0 THEN 0
        ELSE level[i - 1] + (CASE tokens[i] = "start" -> 1 [] tokens[i] = "end" -> -1 [] OTHER -> 0)
  IN level
IsElement(tokens, first, last) ==
  LET level == Levels(tokens)
  IN /\ tokens[first] = "start" /\ level[first] = 2
     /\ tokens[last] = "end" /\ level[last] = 1
     /\ first < last /\ \A i \in first..(last - 1) : level[i] >= 2
     /\ \A i \in 1..last : tokens[i] # "bad"
Elements(tokens) == {p \in (1..Len(tokens)) \X (1..Len(tokens)) : IsElement(tokens, p[1], p[2])}
Nth(p, tokens) == Cardinality({q \in Elements(tokens) : q[1] <= p[1]})
StreamOfElements ==
  /\ CallsOf("NODE") \subseteq 2..(Cardinality(Elements(eaten)) + 1)
  /\ \A p \in Elements(eaten) :
       Nth(p, eaten) + 1 \in CallsOf("NODE") => calls[Nth(p, eaten) + 1].node = SubSeq(eaten, p[1], p[2])
  /\ xs.status = "NODE" => CallsOf("NODE") = 2..(Cardinality(Elements(eaten)) + 1)

(* An element that is open is never deeper than XSTREAM_MAXDEPTH, nor bigger
   than XSTREAM_MAXNODE when a piece has been eaten; one that is closed in
   the same piece may have been. *)
OpenIsBounded == xs.status = "NODE" => parser.level <= MaxDepth /\ Len(xs.node) <= MaxNodeSize

(* A stream that is well formed, within those bounds, gets no error. *)
ErrorsDeserved ==
  xs.status = "ERR" =>
    \/ parser.error
    \/ \E i \in DOMAIN eaten : Levels(eaten)[i] > MaxDepth
    \/ Len(xs.node) > MaxNodeSize
=============================================================================
