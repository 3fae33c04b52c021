------------------------------ MODULE XmlProlog ------------------------------
(***************************************************************************)
(* xmlrole.c and the prologProcessor of xmlparse.c: the prolog of a        *)
(* document is read token by token, the handler of the prolog's state      *)
(* gives each token its role, and the role what becomes of the document    *)
(* type: its entities and the default attributes of its elements.          *)
(*                                                                         *)
(* A token is [tok, word]: word is the name that XmlNameMatchesAscii       *)
(* compares, or "" where there is none.  A literal is good wherever it     *)
(* stands, and not told from another.  The program sets no handler that    *)
(* the prolog would call.  A document that ends within a token, or has a   *)
(* token that is INVALID, is left out: prologProcessor returns the error   *)
(* of XmlTok's token, and has done nothing with what was before it.        *)
(***************************************************************************)
EXTENDS Integers, Sequences, FiniteSets, SequencesExt

CONSTANTS
  Alphabets,     \* sets of tokens: a document is written with those of one
  FirstGroups,   \* the size groupConnector is given first: 32
  MaxDecl,       \* tokens of a declaration
  MaxDeclared    \* tokens of all of them together

ASSUME XmlPrologAssumption == FirstGroups \in Nat \ {0, 1} /\ MaxDecl \in Nat /\ MaxDeclared \in Nat

VARIABLES
  prolog,                       \* prologState: its handler and level
  connectors, groupSize,        \* groupConnector
  complete, standalone, hadExternalDoctype,
  declEntity, entities,         \* dtd.generalEntities
  declElementType, declAttributeId, declAttributeIsCdata, defaultAtts,
  prologError,
  \* of the environment, and history
  alphabet,
  fed,                          \* the last token
  reading, declarations         \* the declaration under way, and those (and parameter references) before it

prologVars == <<prolog, connectors, groupSize, complete, standalone, hadExternalDoctype, declEntity,
                entities, declElementType, declAttributeId, declAttributeIsCdata, defaultAtts,
                prologError, alphabet, fed, reading, declarations>>
attlistVars == <<declElementType, declAttributeId, declAttributeIsCdata, defaultAtts>>
entityVars == <<declEntity, entities>>

NoName == ""
Undeclared == [text |-> FALSE, system |-> FALSE, public |-> FALSE, notation |-> FALSE]

(***************************************************************************)
(* The handlers: <<handler, tokens, word or NoName, next handler, role>>.  *)
(* A handler refuses the tokens it has no row for.                         *)
(***************************************************************************)
AnyName == {"NAME", "PREFIXED_NAME"}
Quiet == {"PI", "COMMENT"}

\* prolog0, prolog1, prolog2
PrologRows == {
  <<"prolog0", {"PROLOG_S", "PI", "COMMENT"}, NoName, "prolog1", "NONE">>,
  <<"prolog0", {"XML_DECL"}, NoName, "prolog1", "XML_DECL">>,
  <<"prolog0", {"BOM"}, NoName, "prolog0", "NONE">>,
  <<"prolog0", {"DECL_OPEN"}, "DOCTYPE", "doctype0", "NONE">>,
  <<"prolog1", Quiet \cup {"BOM"}, NoName, "prolog1", "NONE">>,
  <<"prolog1", {"DECL_OPEN"}, "DOCTYPE", "doctype0", "NONE">>,
  <<"prolog2", Quiet, NoName, "prolog2", "NONE">>}
  \cup {<<h, {"INSTANCE_START"}, NoName, "error", "INSTANCE_START">> : h \in {"prolog0", "prolog1", "prolog2"}}

\* doctype0 to doctype5
DoctypeRows == {
  <<"doctype0", AnyName, NoName, "doctype1", "DOCTYPE_NAME">>,
  <<"doctype1", {"NAME"}, "SYSTEM", "doctype3", "NONE">>,
  <<"doctype1", {"NAME"}, "PUBLIC", "doctype2", "NONE">>,
  <<"doctype2", {"LITERAL"}, NoName, "doctype3", "DOCTYPE_PUBLIC_ID">>,
  <<"doctype3", {"LITERAL"}, NoName, "doctype4", "DOCTYPE_SYSTEM_ID">>}
  \cup {<<h, {"OPEN_BRACKET"}, NoName, "internalSubset", "NONE">> : h \in {"doctype1", "doctype4"}}
  \cup {<<h, {"DECL_CLOSE"}, NoName, "prolog2", "DOCTYPE_CLOSE">> : h \in {"doctype1", "doctype4", "doctype5"}}

SubsetRows == {
  <<"internalSubset", {"DECL_OPEN"}, "ENTITY", "entity0", "NONE">>,
  <<"internalSubset", {"DECL_OPEN"}, "ATTLIST", "attlist0", "NONE">>,
  <<"internalSubset", {"DECL_OPEN"}, "ELEMENT", "element0", "NONE">>,
  <<"internalSubset", {"DECL_OPEN"}, "NOTATION", "notation0", "NONE">>,
  <<"internalSubset", Quiet, NoName, "internalSubset", "NONE">>,
  <<"internalSubset", {"PARAM_ENTITY_REF"}, NoName, "internalSubset", "PARAM_ENTITY_REF">>,
  <<"internalSubset", {"CLOSE_BRACKET"}, NoName, "doctype5", "NONE">>}

\* entity0, entity1 and, of a general entity, entity2 to entity6
EntityRows == {
  <<"entity0", {"PERCENT"}, NoName, "entity1", "NONE">>,
  <<"entity0", {"NAME"}, NoName, "entity2", "GENERAL_ENTITY_NAME">>,
  <<"entity1", {"NAME"}, NoName, "entity7", "PARAM_ENTITY_NAME">>,
  <<"entity2", {"NAME"}, "SYSTEM", "entity4", "NONE">>,
  <<"entity2", {"NAME"}, "PUBLIC", "entity3", "NONE">>,
  <<"entity2", {"LITERAL"}, NoName, "declClose", "ENTITY_VALUE">>,
  <<"entity3", {"LITERAL"}, NoName, "entity4", "ENTITY_PUBLIC_ID">>,
  <<"entity4", {"LITERAL"}, NoName, "entity5", "ENTITY_SYSTEM_ID">>,
  <<"entity5", {"DECL_CLOSE"}, NoName, "internalSubset", "NONE">>,
  <<"entity5", {"NAME"}, "NDATA", "entity6", "NONE">>,
  <<"entity6", {"NAME"}, NoName, "declClose", "ENTITY_NOTATION_NAME">>}

\* of a parameter entity, entity7 to entity9
ParamRows == {
  <<"entity7", {"NAME"}, "SYSTEM", "entity9", "NONE">>,
  <<"entity7", {"NAME"}, "PUBLIC", "entity8", "NONE">>,
  <<"entity7", {"LITERAL"}, NoName, "declClose", "ENTITY_VALUE">>,
  <<"entity8", {"LITERAL"}, NoName, "entity9", "ENTITY_PUBLIC_ID">>,
  <<"entity9", {"LITERAL"}, NoName, "declClose", "ENTITY_SYSTEM_ID">>}

NotationRows == {
  <<"notation0", {"NAME"}, NoName, "notation1", "NOTATION_NAME">>,
  <<"notation1", {"NAME"}, "SYSTEM", "notation3", "NONE">>,
  <<"notation1", {"NAME"}, "PUBLIC", "notation2", "NONE">>,
  <<"notation2", {"LITERAL"}, NoName, "notation4", "NOTATION_PUBLIC_ID">>,
  <<"notation3", {"LITERAL"}, NoName, "declClose", "NOTATION_SYSTEM_ID">>,
  <<"notation4", {"LITERAL"}, NoName, "declClose", "NOTATION_SYSTEM_ID">>,
  <<"notation4", {"DECL_CLOSE"}, NoName, "internalSubset", "NOTATION_NO_SYSTEM_ID">>}

\* attlist0 to attlist4; the types other than CDATA have roles of their own that nothing tells apart
TokenizedTypes == {"ID", "IDREF", "IDREFS", "ENTITY", "ENTITIES", "NMTOKEN", "NMTOKENS"}
AttlistRows == {
  <<"attlist0", AnyName, NoName, "attlist1", "ATTLIST_ELEMENT_NAME">>,
  <<"attlist1", {"DECL_CLOSE"}, NoName, "internalSubset", "NONE">>,
  <<"attlist1", AnyName, NoName, "attlist2", "ATTRIBUTE_NAME">>,
  <<"attlist2", {"NAME"}, "CDATA", "attlist8", "ATTRIBUTE_TYPE_CDATA">>,
  <<"attlist2", {"NAME"}, "NOTATION", "attlist5", "NONE">>,
  <<"attlist2", {"OPEN_PAREN"}, NoName, "attlist3", "NONE">>,
  <<"attlist3", AnyName \cup {"NMTOKEN"}, NoName, "attlist4", "ATTRIBUTE_ENUM_VALUE">>,
  <<"attlist4", {"CLOSE_PAREN"}, NoName, "attlist8", "NONE">>,
  <<"attlist4", {"OR"}, NoName, "attlist3", "NONE">>}
  \cup {<<"attlist2", {"NAME"}, w, "attlist8", "ATTRIBUTE_TYPE_TOKENIZED">> : w \in TokenizedTypes}

\* attlist5 to attlist9
DefaultRows == {
  <<"attlist5", {"OPEN_PAREN"}, NoName, "attlist6", "NONE">>,
  <<"attlist6", {"NAME"}, NoName, "attlist7", "ATTRIBUTE_NOTATION_VALUE">>,
  <<"attlist7", {"CLOSE_PAREN"}, NoName, "attlist8", "NONE">>,
  <<"attlist7", {"OR"}, NoName, "attlist6", "NONE">>,
  <<"attlist8", {"POUND_NAME"}, "IMPLIED", "attlist1", "IMPLIED_ATTRIBUTE_VALUE">>,
  <<"attlist8", {"POUND_NAME"}, "REQUIRED", "attlist1", "REQUIRED_ATTRIBUTE_VALUE">>,
  <<"attlist8", {"POUND_NAME"}, "FIXED", "attlist9", "NONE">>,
  <<"attlist8", {"LITERAL"}, NoName, "attlist1", "DEFAULT_ATTRIBUTE_VALUE">>,
  <<"attlist9", {"LITERAL"}, NoName, "attlist1", "FIXED_ATTRIBUTE_VALUE">>}

\* element0 to element5
ParticleNames == AnyName \cup {"NAME_QUESTION", "NAME_ASTERISK", "NAME_PLUS"}
ElementRows == {
  <<"element0", AnyName, NoName, "element1", "ELEMENT_NAME">>,
  <<"element1", {"NAME"}, "EMPTY", "declClose", "CONTENT_EMPTY">>,
  <<"element1", {"NAME"}, "ANY", "declClose", "CONTENT_ANY">>,
  <<"element1", {"OPEN_PAREN"}, NoName, "element2", "GROUP_OPEN">>,
  <<"element2", {"POUND_NAME"}, "PCDATA", "element3", "CONTENT_PCDATA">>,
  <<"element2", {"OPEN_PAREN"}, NoName, "element6", "GROUP_OPEN">>,
  <<"element2", ParticleNames, NoName, "element7", "CONTENT_ELEMENT">>,
  <<"element3", {"CLOSE_PAREN", "CLOSE_PAREN_ASTERISK"}, NoName, "declClose", "GROUP_CLOSE">>,
  <<"element3", {"OR"}, NoName, "element4", "NONE">>,
  <<"element4", AnyName, NoName, "element5", "CONTENT_ELEMENT">>,
  <<"element5", {"CLOSE_PAREN_ASTERISK"}, NoName, "declClose", "GROUP_CLOSE">>,
  <<"element5", {"OR"}, NoName, "element4", "NONE">>}

\* element6, element7, and declClose
Closes == {"CLOSE_PAREN", "CLOSE_PAREN_ASTERISK", "CLOSE_PAREN_QUESTION", "CLOSE_PAREN_PLUS"}
GroupRows == {
  <<"element6", {"OPEN_PAREN"}, NoName, "element6", "GROUP_OPEN">>,
  <<"element6", ParticleNames, NoName, "element7", "CONTENT_ELEMENT">>,
  <<"element7", Closes, NoName, "element7", "GROUP_CLOSE">>,
  <<"element7", {"COMMA"}, NoName, "element6", "GROUP_SEQUENCE">>,
  <<"element7", {"OR"}, NoName, "element6", "GROUP_CHOICE">>,
  <<"declClose", {"DECL_CLOSE"}, NoName, "internalSubset", "NONE">>}

Handlers == PrologRows \cup DoctypeRows \cup SubsetRows \cup EntityRows \cup ParamRows \cup NotationRows
            \cup AttlistRows \cup DefaultRows \cup ElementRows \cup GroupRows
RowsOf == [h \in {r[1] : r \in Handlers} |-> {r \in Handlers : r[1] = h}]

\* the level of the groups that are open, once a handler has given a token its role
LevelAfter(h, level, role) ==
  CASE role = "GROUP_OPEN" /\ h = "element1" -> 1
    [] role = "GROUP_OPEN" /\ h = "element2" -> 2
    [] role = "GROUP_OPEN" /\ h = "element6" -> level + 1
    [] role = "GROUP_CLOSE" /\ h = "element7" -> level - 1
    [] OTHER -> level

XmlTokenRole(p, t) ==
  LET Fits(r) == t.tok \in r[2] /\ r[3] \in {NoName, t.word}
      White == t.tok = "PROLOG_S" /\ p.handler # "prolog0"
  IN  IF White \/ p.handler = "error" THEN p @@ [role |-> "NONE"]
      ELSE IF ~ \E r \in RowsOf[p.handler] : Fits(r) THEN [p EXCEPT !.handler = "error"] @@ [role |-> "ERROR"]
      ELSE LET r == CHOOSE q \in RowsOf[p.handler] : Fits(q)
               l == LevelAfter(p.handler, p.level, r[5])
               ended == r[5] = "GROUP_CLOSE" /\ l = 0
           IN  [handler |-> IF ended THEN "declClose" ELSE r[4], level |-> l, role |-> r[5]]

------------------------------------------------------------------------------
(* What a role does: prologProcessor.                                       *)

Doctype(role, t) ==
  /\ hadExternalDoctype' = (hadExternalDoctype \/ role = "DOCTYPE_SYSTEM_ID")
  /\ complete' = CASE role = "PARAM_ENTITY_REF" -> FALSE
                   [] role = "INSTANCE_START" -> complete /\ ~ hadExternalDoctype
                   [] OTHER -> complete
  /\ standalone' = (standalone \/ (role = "XML_DECL" /\ t.word = "standalone"))

EntityDecl(role, t) ==
  LET predefined == t.word = "lt"
      new == role = "GENERAL_ENTITY_NAME" /\ complete /\ ~ predefined /\ t.word \notin DOMAIN entities
      Set(field) == IF declEntity = NoName THEN entities ELSE [entities EXCEPT ![declEntity][field] = TRUE]
  IN  /\ declEntity' = CASE role = "GENERAL_ENTITY_NAME" -> IF new THEN t.word ELSE NoName
                         [] role = "PARAM_ENTITY_NAME" -> NoName
                         [] OTHER -> declEntity
      /\ entities' = CASE new -> (t.word :> Undeclared) @@ entities
                       [] role = "ENTITY_VALUE" -> Set("text")
                       [] role = "ENTITY_SYSTEM_ID" -> Set("system")
                       [] role \in {"ENTITY_PUBLIC_ID", "DOCTYPE_PUBLIC_ID"} -> Set("public")
                       [] role = "ENTITY_NOTATION_NAME" -> Set("notation")
                       [] OTHER -> entities

\* defineAttribute
WithDefault(value) ==
  IF ~ complete THEN defaultAtts
  ELSE (declElementType :> Append(IF declElementType \in DOMAIN defaultAtts THEN defaultAtts[declElementType] ELSE <<>>,
                                  [id |-> declAttributeId, isCdata |-> declAttributeIsCdata, value |-> value]))
       @@ defaultAtts

AttlistDecl(role, t) ==
  /\ declElementType' = IF role = "ATTLIST_ELEMENT_NAME" THEN t.word ELSE declElementType
  /\ declAttributeId' = IF role = "ATTRIBUTE_NAME" THEN t.word ELSE declAttributeId
  /\ declAttributeIsCdata' = CASE role = "ATTRIBUTE_NAME" -> FALSE
                               [] role = "ATTRIBUTE_TYPE_CDATA" -> TRUE
                               [] OTHER -> declAttributeIsCdata
  /\ defaultAtts' = CASE role \in {"IMPLIED_ATTRIBUTE_VALUE", "REQUIRED_ATTRIBUTE_VALUE"} -> WithDefault(FALSE)
                      [] role \in {"DEFAULT_ATTRIBUTE_VALUE", "FIXED_ATTRIBUTE_VALUE"} -> WithDefault(TRUE)
                      [] OTHER -> defaultAtts

Group(role, level) ==
  /\ groupSize' = IF role # "GROUP_OPEN" \/ level < groupSize THEN groupSize
                  ELSE IF groupSize = 0 THEN FirstGroups ELSE 2 * groupSize
  /\ connectors' = CASE role = "GROUP_OPEN" -> (level :> "none") @@ connectors
                     [] role = "GROUP_SEQUENCE" -> (level :> "COMMA") @@ connectors
                     [] role = "GROUP_CHOICE" -> (level :> "OR") @@ connectors
                     [] OTHER -> connectors

MixedConnector(role, level) ==
  \/ role = "GROUP_SEQUENCE" /\ connectors[level] = "OR"
  \/ role = "GROUP_CHOICE" /\ connectors[level] = "COMMA"

\* processXmlDecl; the parser is made without the name of an encoding, and with no handler of unknown ones
DeclError(t) ==
  CASE t.word = "malformed" -> "SYNTAX"
    [] t.word = "otherWidth" -> "INCORRECT_ENCODING"
    [] t.word = "unknownEncoding" -> "UNKNOWN_ENCODING"
    [] OTHER -> "NONE"

ErrorOf(role, level, t) ==
  CASE role = "ERROR" -> CASE t.tok = "PARAM_ENTITY_REF" -> "PARAM_ENTITY_REF"
                           [] t.tok = "XML_DECL" -> "MISPLACED_XML_PI"
                           [] OTHER -> "SYNTAX"
    [] role = "XML_DECL" -> DeclError(t)
    [] MixedConnector(role, level) -> "SYNTAX"
    [] OTHER -> "NONE"

------------------------------------------------------------------------------
PrologInit ==
  /\ alphabet \in Alphabets
  /\ prolog = [handler |-> "prolog0", level |-> 0]
  /\ connectors = <<>> /\ groupSize = 0
  /\ complete = TRUE /\ standalone = FALSE /\ hadExternalDoctype = FALSE
  /\ declEntity = NoName /\ entities = <<>>
  /\ declElementType = NoName /\ declAttributeId = NoName /\ declAttributeIsCdata = FALSE /\ defaultAtts = <<>>
  /\ prologError = "NONE"
  /\ fed = [tok |-> "none", word |-> NoName] /\ reading = <<>> /\ declarations = <<>>

InSubset == prolog.handler = "internalSubset"
Declaring(t) == (InSubset /\ t.tok \in {"DECL_OPEN", "PARAM_ENTITY_REF"}) \/ reading # <<>>

PrologToken ==
  /\ prologError = "NONE" /\ prolog.handler # "error"
  /\ \E t \in alphabet :
       LET answer == XmlTokenRole(prolog, t)
           wrong == ErrorOf(answer.role, answer.level, t)
       IN  /\ Len(FlattenSeq(declarations) \o reading) >= MaxDeclared => ~ Declaring(t)
           /\ Len(reading) < MaxDecl
           /\ fed' = t /\ prologError' = wrong
           /\ prolog' = [handler |-> answer.handler, level |-> answer.level]
           /\ Doctype(answer.role, t) /\ EntityDecl(answer.role, t) /\ AttlistDecl(answer.role, t)
           /\ IF wrong = "NONE" THEN Group(answer.role, answer.level) ELSE UNCHANGED <<connectors, groupSize>>
           /\ IF wrong # "NONE" THEN reading' = <<>> /\ declarations' = <<>>   \* of no more interest
              ELSE IF ~ Declaring(t) \/ t.tok = "PROLOG_S" THEN UNCHANGED <<reading, declarations>>
              ELSE IF answer.handler = "internalSubset"
              THEN reading' = <<>> /\ declarations' = Append(declarations, Append(reading, t))
              ELSE reading' = Append(reading, t) /\ UNCHANGED declarations
           /\ UNCHANGED alphabet

\* the end of the document within the prolog, behind a whole token
PrologEnd ==
  /\ prologError = "NONE" /\ prolog.handler # "error"
  /\ prologError' = "NO_ELEMENTS" /\ reading' = <<>> /\ declarations' = <<>>
  /\ UNCHANGED <<prolog, connectors, groupSize, complete, standalone, hadExternalDoctype, entityVars,
                 attlistVars, alphabet, fed>>

PrologNext == PrologToken \/ PrologEnd
PrologSpec == PrologInit /\ [][PrologNext]_prologVars

------------------------------------------------------------------------------
(* The declarations of the XML recommendation, up to MaxDecl tokens.        *)

Tok(a, k) == {<<t>> : t \in {x \in a : x.tok = k}}
Word(a, k, w) == {<<t>> : t \in {x \in a : x.tok = k /\ x.word = w}}
\* what A and then B say, when it is at most room tokens
Within(A, B, room) ==
  UNION {{x \o y : x \in {a \in A : Len(a) = n}, y \in {b \in B : Len(b) <= room - n}} : n \in 0 .. room}
Cat(A, B) == Within(A, B, MaxDecl)
Cat3(A, B, C) == Cat(A, Cat(B, C))
\* A once or more; a declaration has three tokens besides
Some(A) ==
  LET s[room \in 0 .. MaxDecl - 3] == IF room = 0 THEN {} ELSE {a \in A : Len(a) <= room} \cup Within(A, s[room - 1], room)
  IN  s[MaxDecl - 3]
Maybe(A) == A \cup {<<>>}

QName(a) == Tok(a, "NAME") \cup Tok(a, "PREFIXED_NAME")
External(a) == Cat(Word(a, "NAME", "SYSTEM"), Tok(a, "LITERAL"))
               \cup Cat3(Word(a, "NAME", "PUBLIC"), Tok(a, "LITERAL"), Tok(a, "LITERAL"))

EntityGrammar(a) ==
  LET value == Tok(a, "LITERAL") \cup External(a)
      ndata == Cat3(External(a), Word(a, "NAME", "NDATA"), Tok(a, "NAME"))
  IN  Cat3(Word(a, "DECL_OPEN", "ENTITY"), Tok(a, "NAME"), value \cup ndata)
      \cup Cat3(Word(a, "DECL_OPEN", "ENTITY"), Tok(a, "PERCENT"), Cat(Tok(a, "NAME"), value))

NotationGrammar(a) ==
  Cat3(Word(a, "DECL_OPEN", "NOTATION"), Tok(a, "NAME"),
       External(a) \cup Cat(Word(a, "NAME", "PUBLIC"), Tok(a, "LITERAL")))

AttlistGrammar(a) ==
  LET OneOf(A) == Cat3(Tok(a, "OPEN_PAREN"), Cat(A, Maybe(Some(Cat(Tok(a, "OR"), A)))), Tok(a, "CLOSE_PAREN"))
      type == UNION {Word(a, "NAME", w) : w \in TokenizedTypes \cup {"CDATA"}}
              \cup Cat(Word(a, "NAME", "NOTATION"), OneOf(Tok(a, "NAME")))
              \cup OneOf(QName(a) \cup Tok(a, "NMTOKEN"))
      default == Word(a, "POUND_NAME", "IMPLIED") \cup Word(a, "POUND_NAME", "REQUIRED")
                 \cup Cat(Maybe(Word(a, "POUND_NAME", "FIXED")), Tok(a, "LITERAL"))
  IN  Cat3(Word(a, "DECL_OPEN", "ATTLIST"), QName(a), Maybe(Some(Cat3(QName(a), type, default))))

ElementGrammar(a) ==
  LET closed == UNION {Tok(a, k) : k \in Closes}
      name == UNION {Tok(a, k) : k \in ParticleNames}
      \* the groups with n levels of groups
      groups[n \in 0 .. MaxDecl \div 2] ==
        IF n = 0 THEN {}
        ELSE LET cp == name \cup groups[n - 1]
                 Of(sep) == Cat(cp, Maybe(Some(Cat(Tok(a, sep), cp))))
             IN  Cat3(Tok(a, "OPEN_PAREN"), Of("COMMA") \cup Of("OR"), closed)
      mixed == Cat3(Tok(a, "OPEN_PAREN"), Word(a, "POUND_NAME", "PCDATA"),
                    Tok(a, "CLOSE_PAREN")
                    \cup Cat(Maybe(Some(Cat(Tok(a, "OR"), QName(a)))), Tok(a, "CLOSE_PAREN_ASTERISK")))
  IN  Cat3(Word(a, "DECL_OPEN", "ELEMENT"), QName(a),
           Word(a, "NAME", "EMPTY") \cup Word(a, "NAME", "ANY") \cup mixed \cup groups[MaxDecl \div 2])

Grammar ==
  [a \in Alphabets |->
     Tok(a, "PARAM_ENTITY_REF")
     \cup Cat(EntityGrammar(a) \cup NotationGrammar(a) \cup AttlistGrammar(a) \cup ElementGrammar(a),
              Tok(a, "DECL_CLOSE"))]

Beginnings == [a \in Alphabets |-> UNION {{SubSeq(d, 1, n) : n \in 1 .. Len(d)} : d \in Grammar[a]}]

\* A declaration that the handlers let through, connectors and all, is one of the grammar.
DeclarationsFollowGrammar == \A i \in DOMAIN declarations : declarations[i] \in Grammar[alphabet]

\* A token of a declaration is refused only when no declaration goes on with it: the levels of groups
\* and the connectors that groupConnector keeps of them never refuse a sound one.
RefusedOnlyWrong ==
  [][prologError' \notin {"NONE", "NO_ELEMENTS"} /\ reading # <<>> => Append(reading, fed') \notin Beginnings[alphabet]]_prologVars

\* groupConnector has room for the level it is written at.
ConnectorInside == \A l \in DOMAIN connectors : l < groupSize

Settled == reading = <<>> /\ prologError = "NONE"
\* the declarations before a reference to a parameter entity, which might have declared anything
Known == {i \in DOMAIN declarations : \A j \in 1 .. i : declarations[j][1].tok # "PARAM_ENTITY_REF"}

\* The entities are what the first declaration of each name says, and never what that of a parameter
\* entity says, or a second one, or one that comes after a reference to a parameter entity.
EntitiesAsFirstDeclared ==
  LET Declares(i, n) == declarations[i][1].word = "ENTITY" /\ declarations[i][2] = [tok |-> "NAME", word |-> n]
      names == {n \in {t.word : t \in alphabet} \ {"lt"} : \E i \in Known : Declares(i, n)}
      First(n) == declarations[CHOOSE i \in Known : Declares(i, n) /\ \A j \in 1 .. i - 1 : ~ Declares(j, n)]
      Is(d) == [text |-> d[3].tok = "LITERAL", system |-> d[3].tok = "NAME",
                public |-> d[3].word = "PUBLIC", notation |-> Len(d) >= 7 /\ d[Len(d) - 2].word = "NDATA"]
  IN  Settled => DOMAIN entities = names /\ \A n \in names : entities[n] = Is(First(n))

\* The default attributes of an element are those its declarations write, each with the type of its own.
DefaultsAsWritten ==
  LET Ends(t) == t.tok = "LITERAL" \/ (t.tok = "POUND_NAME" /\ t.word # "FIXED")
      Starts(d) == SetToSortSeq({i \in 3 .. Len(d) - 1 : i = 3 \/ Ends(d[i - 1])}, <)
      End(d, i) == CHOOSE j \in i .. Len(d) : Ends(d[j]) /\ \A k \in i .. j - 1 : ~ Ends(d[k])
      Atts(d) == [n \in DOMAIN Starts(d) |->
                    LET i == Starts(d)[n]
                    IN  [id |-> d[i].word, isCdata |-> d[i + 1] = [tok |-> "NAME", word |-> "CDATA"],
                         value |-> d[End(d, i)].tok = "LITERAL"]]
      Of(e) == FlattenSeq([i \in DOMAIN declarations |->
                 LET d == declarations[i]
                 IN  IF i \in Known /\ d[1].word = "ATTLIST" /\ d[2].word = e THEN Atts(d) ELSE <<>>])
  IN  Settled => \A e \in DOMAIN defaultAtts : defaultAtts[e] = Of(e)
==============================================================================
