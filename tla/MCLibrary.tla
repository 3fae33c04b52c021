------------------------------ MODULE MCLibrary ------------------------------
(***************************************************************************)
(* The parts of the jabberd library that are modelled, in one model: a     *)
(* behaviour is one of one part, chosen in the initial state, and the      *)
(* others rest.                                                            *)
(***************************************************************************)
EXTENDS Tables, Text, Identities, Packets, Pool,
        XmlTree, XmlDocuments, XmlProlog, XmlScan

VARIABLE part

Parts == {"xhash", "name_table", "text", "addresses", "presence", "packets", "pool",
          "tree", "stream", "file", "prolog", "scan"}

Init ==
  /\ part \in Parts
  /\ TableInit /\ TextInit /\ AddressInit /\ PresenceInit /\ PacketInit /\ TreeInit /\ XStreamInit
  /\ IF part = "xhash" THEN HashInit ELSE xht = xhash_new(CHOOSE p \in HashPrimes : TRUE)
  /\ IF part = "pool" THEN PoolInit ELSE PoolWith(0)
  /\ IF part = "file" THEN FileInit ELSE FileWith(NoFile)
  /\ PrologInit /\ (part # "prolog" => alphabet = CHOOSE a \in Alphabets : TRUE)
  /\ ScanInit /\ (part # "scan" => scan = CHOOSE s \in Scanned : s[2] = <<>>)

OthersRest ==
  /\ IF part = "xhash" THEN TRUE ELSE UNCHANGED xht
  /\ IF part = "name_table" THEN TRUE ELSE UNCHANGED tableVars
  /\ IF part = "text" THEN TRUE ELSE UNCHANGED textVars
  /\ IF part = "addresses" THEN TRUE ELSE UNCHANGED addressVars
  /\ IF part = "presence" THEN TRUE ELSE UNCHANGED ppdbVars
  /\ IF part = "packets" THEN TRUE ELSE UNCHANGED packetVars
  /\ IF part = "pool" THEN TRUE ELSE UNCHANGED poolVars
  /\ IF part = "tree" THEN TRUE ELSE UNCHANGED treeVars
  /\ IF part = "stream" THEN TRUE ELSE UNCHANGED xstreamVars
  /\ IF part = "file" THEN TRUE ELSE UNCHANGED fileVars
  /\ IF part = "prolog" THEN TRUE ELSE UNCHANGED prologVars
  /\ IF part = "scan" THEN TRUE ELSE UNCHANGED scanVars

Next ==
  \/ part = "xhash" /\ HashNext /\ OthersRest /\ UNCHANGED part
  \/ part = "name_table" /\ TableNext /\ OthersRest /\ UNCHANGED part
  \/ part = "text" /\ TextNext /\ OthersRest /\ UNCHANGED part
  \/ part = "addresses" /\ AddressNext /\ OthersRest /\ UNCHANGED part
  \/ part = "presence" /\ PresenceNext /\ OthersRest /\ UNCHANGED part
  \/ part = "packets" /\ PacketNext /\ OthersRest /\ UNCHANGED part
  \/ part = "pool" /\ PoolNext /\ OthersRest /\ UNCHANGED part
  \/ part = "tree" /\ TreeNext /\ OthersRest /\ UNCHANGED part
  \/ part = "stream" /\ XStreamNext /\ OthersRest /\ UNCHANGED part
  \/ part = "file" /\ FileNext /\ OthersRest /\ UNCHANGED part
  \/ part = "prolog" /\ PrologNext /\ OthersRest /\ UNCHANGED part
  \/ part = "scan" /\ ScanByte /\ OthersRest /\ UNCHANGED part

vars == <<part, xht, tableVars, textVars, addressVars, ppdbVars, packetVars, poolVars, treeVars,
          xstreamVars, fileVars, prologVars, scanVars>>
Spec == Init /\ [][Next]_vars

------------------------------------------------------------------------------
(* The functions of xmlnode.c agree on what the tree is.                    *)
TreesAgree ==
  /\ [](part = "tree" => RowsLinked /\ TextKept /\ PathFinds /\ PrintsItself /\ CopyIsEqual /\ EqualPrintsEqual)
  /\ IterShown /\ IterComplete

(* expat's tokens and declarations are those of XML, however the bytes of a *)
(* document arrive.                                                         *)
XmlAsWritten ==
  /\ [](/\ part = "scan" => LinesWhole /\ MarksAreFirst /\ NormalizedIsNormal /\ ValuesScanAgain /\ LinesAddUp
        /\ part = "prolog" => /\ DeclarationsFollowGrammar /\ ConnectorInside
                              /\ EntitiesAsFirstDeclared /\ DefaultsAsWritten)
  /\ FoundStays /\ RefusedOnlyWrong

------------------------------------------------------------------------------
(* The values of the constants. *)
MCHashOf == [k \in HashKeys |-> CASE k = "a" -> 0 [] k = "b" -> 2 [] k = "c" -> 5]
MCNameHash(n) == CASE n = "a" -> 0 [] n = "b" -> 4 [] n = "c" -> 5 [] n = "d" -> 7 [] n = "e" -> 8

MCWritten == {<<"a", "b", "a", "@", "b">>, <<"A", "@", "B", "/", "A">>, <<"a", ":", "b", "/", "@">>, <<"a", "@", "b", "@", "b">>}
MCPortions == {<<>>, <<"A", "b">>, <<"a", "/">>, <<"@">>}
MCPriorities == {-1, 0, 2}

MCDocuments ==
  {<<>>, <<"<", ">">>, <<"<", "t", ">">>, <<"<", "<", ">", ">">>, <<"<", "t">>, <<"<", ">", "<", ">">>,
   <<"<", "<", "t", ">", "t", ">">>, <<"<", ">", ">">>}
MCSaved == {<<"<", ">">>, <<"<", "t", ">">>}

NAME(w) == [tok |-> "NAME", word |-> w]
POUND(w) == [tok |-> "POUND_NAME", word |-> w]
OPEN(w) == [tok |-> "DECL_OPEN", word |-> w]
Bare(k) == [tok |-> k, word |-> ""]
InDoctype == {OPEN("DOCTYPE"), NAME("d"), Bare("OPEN_BRACKET"), Bare("DECL_CLOSE")}
MCAlphabets ==
  {InDoctype
     \cup {[tok |-> "XML_DECL", word |-> w] : w \in {"", "standalone", "malformed", "otherWidth", "unknownEncoding"}}
     \cup {NAME("SYSTEM"), NAME("PUBLIC"), Bare("LITERAL"), Bare("CLOSE_BRACKET"), Bare("PROLOG_S"), Bare("COMMENT"),
           Bare("BOM"), Bare("INSTANCE_START")},
   InDoctype
     \cup {OPEN("ENTITY"), OPEN("NOTATION"), NAME("lt"), NAME("SYSTEM"), NAME("PUBLIC"), NAME("NDATA"), Bare("LITERAL"),
           Bare("PERCENT"), Bare("PARAM_ENTITY_REF")},
   InDoctype
     \cup {OPEN("ATTLIST"), NAME("CDATA"), NAME("NOTATION"), Bare("LITERAL"), Bare("OPEN_PAREN"), Bare("CLOSE_PAREN"),
           Bare("OR"), Bare("NMTOKEN"), POUND("IMPLIED"), POUND("FIXED")},
   InDoctype
     \cup {OPEN("ELEMENT"), Bare("NAME_PLUS"), POUND("PCDATA"), Bare("OPEN_PAREN"), Bare("CLOSE_PAREN"),
           Bare("CLOSE_PAREN_ASTERISK"), Bare("COMMA"), Bare("OR")}}

MCScanned ==
  {<<"content", <<>>, {"<", ">", "!", "-", "a", "[", "0", "/", "?", "x", " "}>>,
   <<"content", <<"<", "!", "-">>, {"-", ">", "a", "l", "0"}>>,
   <<"content", <<>>, {"&", "#", "x", "1", "a", ";", "l", "t"}>>,
   <<"content", <<>>, {"]", ">", "a", "r", "n", "l", "<"}>>,
   <<"content", <<"<", "a">>, {"a", " ", "=", "'", ">", "/"}>>,
   <<"content", <<"<", "a", " ", "a", "=", "'">>, {"a", "r", "n", " ", "l", "<", "'", "\"", ">"}>>,
   <<"content", <<"<", "a", " ", "a", "=", "'", "&">>, {"a", ";", "1", "#", "'", ">"}>>,
   <<"content", <<"<", "a", " ", "a", "=", "'", "'">>, {"a", "=", " ", "'", ">"}>>,
   <<"cdata", <<>>, {"]", ">", "a", "r", "n", "l", "0"}>>,
   <<"prolog", <<"<">>, {"!", "-", "a", "?", "x", "X", ">", " ", "[", "%"}>>,
   <<"prolog", <<>>, {"r", "n", " ", "%", "a", ";", "#", ")", "]"}>>,
   <<"prolog", <<>>, {"'", "\"", "l", "t", "a", "1", "+", "*", "|", ">"}>>,
   <<"prolog", <<"'">>, {"&", "%", "a", ";", "l", "r", "n", "'", ">"}>>,
   <<"prolog", <<>>, {",", "[", "(", ")", "*", "?", "+", ">", "]"}>>}
==============================================================================
