------------------------------- MODULE XmlTree -------------------------------
(***************************************************************************)
(* xmlnode.c and the tag iterator of libjabber_ext.c: nodes linked by      *)
(* pointers, to which tags, attributes and chunks of text are added, from  *)
(* which they are hidden, and whose adjacent chunks are merged when their  *)
(* text is asked for.                                                      *)
(*                                                                         *)
(* A node is a number, 0 is NULL, and 1 the root.  What a chunk of text    *)
(* says is a sequence with its own number.  The attributes are a sequence  *)
(* of <<name, value>>.                                                     *)
(***************************************************************************)
EXTENDS Integers, Sequences, SequencesExt, FiniteSets

CONSTANTS
  TagNames, AttrNames, AttrValues,
  MaxNodes, MaxAttrs   \* bounds: nodes, and attributes of one

ASSUME XmlTreeAssumption == MaxNodes \in Nat \ {0} /\ MaxAttrs \in Nat

VARIABLES
  nodes,   \* [type, name, data, attrs, parent, prev, next, firstchild, lastchild]
  hidden,  \* history: the nodes that xmlnode_hide took out
  iter,    \* a tag_iter: [on, xml, name, cur]; on is history: it was begun
  got      \* history: what the iterator has returned

treeVars == <<nodes, hidden, iter, got>>

None == 0
Node(type, name, data) ==
  [type |-> type, name |-> name, data |-> data, attrs |-> <<>>, parent |-> None,
   prev |-> None, next |-> None, firstchild |-> None, lastchild |-> None]
Tags(ns) == {n \in DOMAIN ns : ns[n].type = "tag"}

(* From a node along the next pointers. *)
From(ns, n) ==
  LET along[k \in 0..Len(ns), m \in 0..Len(ns)] == IF k = 0 \/ m = None THEN <<>> ELSE <<m>> \o along[k - 1, ns[m].next]
  IN along[Len(ns), n]
Kids(ns, n) == From(ns, ns[n].firstchild)
Kid(ns, n, test(_)) ==
  LET hits == {i \in DOMAIN Kids(ns, n) : test(Kids(ns, n)[i])}
  IN IF hits = {} THEN None ELSE Kids(ns, n)[CHOOSE i \in hits : \A j \in hits : i <= j]

(* _xmlnode_new, _xmlnode_insert and _xmlnode_append_sibling: the new node is
   the last child. *)
_xmlnode_insert(ns, parent, node) ==
  LET last == ns[parent].lastchild
      new == Len(ns) + 1
      first == ns[parent].firstchild = None
      more == Append(ns, [node EXCEPT !.parent = parent, !.prev = IF first THEN None ELSE last])
      with == [more EXCEPT ![parent].lastchild = new]
  IN IF first THEN [with EXCEPT ![parent].firstchild = new] ELSE [with EXCEPT ![last].next = new]
xmlnode_insert_tag(ns, parent, name) == _xmlnode_insert(ns, parent, Node("tag", name, <<>>))
xmlnode_insert_cdata(ns, parent, data) == _xmlnode_insert(ns, parent, Node("cdata", "", data))

(* _xmlnode_merge: the text of the following chunks goes into this one, and
   they are no longer linked. *)
Run(ns, n) ==
  LET row == From(ns, n)
      others == {i \in DOMAIN row : ns[row[i]].type # "cdata"}
  IN IF others = {} THEN row ELSE SubSeq(row, 1, (CHOOSE i \in others : \A j \in others : i <= j) - 1)
Text_of(ns, run) == FoldLeft(LAMBDA t, m : t \o ns[m].data, <<>>, run)
_xmlnode_merge(ns, n) ==
  LET cur == ns[Last(Run(ns, n))].next
      merged == [ns EXCEPT ![n].next = cur, ![n].data = Text_of(ns, Run(ns, n))]
  IN IF cur = None THEN [merged EXCEPT ![ns[n].parent].lastchild = n] ELSE [merged EXCEPT ![cur].prev = n]
Dirty(ns, n) == ns[n].next # None /\ ns[ns[n].next].type = "cdata"

(* xmlnode_get_data of a tag: its first chunk, with those that follow. *)
DataNode(ns, n) == IF ns[n].type # "tag" THEN n ELSE Kid(ns, n, LAMBDA m : ns[m].type = "cdata")
xmlnode_get_data(ns, n) ==
  LET m == DataNode(ns, n) IN IF m # None /\ Dirty(ns, m) THEN _xmlnode_merge(ns, m) ELSE ns
DataOf(ns, n) == LET m == DataNode(ns, n) IN IF m = None THEN <<>> ELSE Text_of(ns, Run(ns, m))

(* _xmlnode_hide_sibling and xmlnode_hide *)
HideSibling(ns, n) ==
  [m \in DOMAIN ns |-> [ns[m] EXCEPT !.next = IF m = ns[n].prev THEN ns[n].next ELSE @,
                                     !.prev = IF m = ns[n].next THEN ns[n].prev ELSE @]]
xmlnode_hide(ns, n) ==
  IF ns[n].parent = None THEN ns
  ELSE [HideSibling(ns, n) EXCEPT ![ns[n].parent].firstchild = IF @ = n THEN ns[n].next ELSE @,
                                  ![ns[n].parent].lastchild = IF @ = n THEN ns[n].prev ELSE @]

(* xmlnode_put_attrib, xmlnode_get_attrib and xmlnode_hide_attrib *)
Put_attrib(attrs, name, value) ==
  IF \E i \in DOMAIN attrs : attrs[i][1] = name
    THEN [i \in DOMAIN attrs |-> IF attrs[i][1] = name THEN <<name, value>> ELSE attrs[i]]
    ELSE Append(attrs, <<name, value>>)
Get_attrib(attrs, name) == IF \E i \in DOMAIN attrs : attrs[i][1] = name THEN attrs[CHOOSE i \in DOMAIN attrs : attrs[i][1] = name][2] ELSE None
Hide_attrib(attrs, name) == SelectSeq(attrs, LAMBDA a : a[1] # name)

(* xmlnode_get_tag for a path: steps by name, and at its end a name, a name
   with an attribute that is there or has a value, or a name and its text;
   the name "" stands for any. *)
Called(ns, n, name) == ns[n].type = "tag" /\ name \in {"", ns[n].name}
Fits(ns, n, end) ==
  /\ Called(ns, n, end.name)
  /\ end.kind = "attrib" => Get_attrib(ns[n].attrs, end.attrib) # None /\ end.value \in {None, Get_attrib(ns[n].attrs, end.attrib)}
  /\ end.kind = "data" => DataOf(ns, n) = end.data
xmlnode_get_tag(ns, n, steps, end) ==
  LET at[k \in 0..Len(steps), m \in 0..Len(ns)] ==
        IF k = Len(steps) THEN Kid(ns, m, LAMBDA c : Fits(ns, c, end))
        ELSE LET c == Kid(ns, m, LAMBDA d : Called(ns, d, steps[k + 1]) /\ at[k + 1, d] # None)
             IN IF c = None THEN None ELSE at[k + 1, c]
  IN at[0, n]

(* _xmlnode2spool: one loop over the nodes, down, along and up again; the
   node is left when the level is back where it was. *)
Tag2str(ns, n, flag) == <<flag, ns[n].name, IF flag = "close" THEN <<>> ELSE ns[n].attrs>>
SpoolStep(ns, s) ==
  LET down == ~s.up /\ ns[s.node].type = "tag" /\ ns[s.node].firstchild # None
      said == IF s.up THEN s.out
              ELSE Append(s.out, IF ns[s.node].type = "cdata" THEN <<"text", ns[s.node].data>>
                                 ELSE Tag2str(ns, s.node, IF down THEN "open" ELSE "empty"))
      along == ns[s.node].next
      parent == ns[s.node].parent
  IN IF s.done THEN s
     ELSE IF down THEN [s EXCEPT !.out = said, !.node = ns[s.node].firstchild, !.level = @ + 1]
     ELSE IF along # None THEN [s EXCEPT !.out = said, !.node = along, !.up = FALSE]
     ELSE [s EXCEPT !.node = parent, !.level = @ - 1, !.up = TRUE, !.done = s.level < 2,
                    !.out = IF s.level >= 1 THEN Append(said, Tag2str(ns, parent, "close")) ELSE said]
_xmlnode2spool(ns, n) ==
  FoldLeft(LAMBDA s, i : SpoolStep(ns, s),
           [node |-> n, level |-> 0, up |-> FALSE, done |-> FALSE, out |-> <<>>], [i \in 1..3 * Len(ns) |-> i]).out

(* The nodes of a row with what xmlnode_get_data returns for the chunks,
   which merges the row as it is walked along. *)
Heads(ns, row) == SelectSeq(row, LAMBDA n : ns[n].type = "tag" \/ ns[n].prev = None \/ ns[ns[n].prev].type = "tag" \/ n = row[1])

(* xmlnode_insert_node and xmlnode_insert_tag_node: copies of a row below a
   node of another tree; xmlnode_dup: a copy of a tag, alone. *)
RECURSIVE xmlnode_insert_node(_, _, _, _)
xmlnode_insert_node(from, row, to, under) ==
  FoldLeft(LAMBDA t, n :
             IF from[n].type = "cdata" THEN xmlnode_insert_cdata(t, under, Text_of(from, Run(from, n)))
             ELSE LET tag == [xmlnode_insert_tag(t, under, from[n].name) EXCEPT ![Len(t) + 1].attrs = from[n].attrs]
                  IN xmlnode_insert_node(from, Kids(from, n), tag, Len(t) + 1),
           to, Heads(from, row))
CopyOf(ns, n, below(_, _, _, _)) ==
  below(ns, Kids(ns, n), <<[Node("tag", ns[n].name, <<>>) EXCEPT !.attrs = ns[n].attrs]>>, 1)
xmlnode_dup(ns, n) == CopyOf(ns, n, xmlnode_insert_node)

(* xmlnode_cmp is 0: two nodes, in everything, and whatever is behind them. *)
RECURSIVE xmlnode_cmp(_, _, _, _)
xmlnode_cmp(as, a, bs, b) ==
  LET ra == Heads(as, From(as, a))
      rb == Heads(bs, From(bs, b))
  IN /\ Len(ra) = Len(rb)
     /\ \A i \in DOMAIN ra :
          LET m == as[ra[i]]
              n == bs[rb[i]]
          IN /\ m.type = n.type /\ m.name = n.name /\ m.attrs = n.attrs
             /\ IF m.type = "cdata" THEN DataOf(as, ra[i]) = DataOf(bs, rb[i])
                                    ELSE xmlnode_cmp(as, m.firstchild, bs, n.firstchild)
-----------------------------------------------------------------------------
NoIter == [on |-> FALSE, name |-> "", cur |-> None, todo |-> <<>>]
TreeInit == nodes = <<Node("tag", "root", <<>>)>> /\ hidden = {} /\ iter = NoIter /\ got = <<>>

RECURSIVE ShownBelow(_, _)
ShownBelow(ns, n) == {n} \cup UNION {ShownBelow(ns, m) : m \in ToSet(Kids(ns, n))}
Shown == ShownBelow(nodes, 1)

Grow(ns) == Len(nodes) < MaxNodes /\ nodes' = ns /\ UNCHANGED <<hidden, iter, got>>
Insert_tag(n, name) == Grow(xmlnode_insert_tag(nodes, n, name))
Insert_cdata(n) == Grow(xmlnode_insert_cdata(nodes, n, <<Len(nodes) + 1>>))
Get_data(n) == nodes' = xmlnode_get_data(nodes, n) /\ UNCHANGED <<hidden, iter, got>>
Attribs(n, name, value) ==
  /\ hidden = {} /\ ~iter.on
  /\ nodes' = [nodes EXCEPT ![n].attrs = IF value = None THEN Hide_attrib(@, name) ELSE Put_attrib(@, name, value)]
  /\ Len(nodes'[n].attrs) <= MaxAttrs
  /\ UNCHANGED <<hidden, iter, got>>
Hide(n) ==
  /\ n # 1 /\ nodes' = xmlnode_hide(nodes, n) /\ hidden' = hidden \cup {n}
  /\ UNCHANGED <<iter, got>>

(* tag_iter_init on the root, and tag_iter_get_next. *)
Wanted(ns, n, name) == ns[n].type = "tag" /\ name \in {"", ns[n].name}
Tag_iter_init(name) ==
  /\ ~iter.on /\ got' = <<>> /\ \A n \in DOMAIN nodes : nodes[n].attrs = <<>>
  /\ iter' = [on |-> TRUE, name |-> name, cur |-> nodes[1].firstchild,
              todo |-> SelectSeq(Kids(nodes, 1), LAMBDA n : Wanted(nodes, n, name))]
  /\ UNCHANGED <<nodes, hidden>>
NextSkips(ns, cur, name) ==   \* slip: the loop begins behind cur
  LET row == From(ns, IF cur = None THEN None ELSE ns[cur].next) hits == {i \in DOMAIN row : Wanted(ns, row[i], name)}
  IN IF hits = {} THEN None ELSE row[CHOOSE i \in hits : \A j \in hits : i <= j]
NextTag(ns, cur, name) ==
  LET row == From(ns, cur)
      hits == {i \in DOMAIN row : Wanted(ns, row[i], name)}
  IN IF hits = {} THEN None ELSE row[CHOOSE i \in hits : \A j \in hits : i <= j]
NextCur(cur) == IF cur = None THEN None ELSE nodes[cur].next
Tag_iter_get_next ==
  LET cur == NextTag(nodes, iter.cur, iter.name)
  IN /\ iter.on
     /\ iter' = IF cur = None THEN NoIter ELSE [iter EXCEPT !.cur = NextCur(cur)]
     /\ got' = IF cur = None THEN <<>> ELSE Append(got, cur)
     /\ UNCHANGED <<nodes, hidden>>

TreeNext ==
  \/ \E n \in Shown \cap Tags(nodes) :
       \/ \E name \in TagNames : Insert_tag(n, name)
       \/ Insert_cdata(n)
       \/ Get_data(n)
       \/ \E name \in AttrNames, value \in AttrValues \cup {None} : Attribs(n, name, value)
  \/ \E n \in Shown : Hide(n)
  \/ \E name \in TagNames \cup {""} : Tag_iter_init(name)
  \/ Tag_iter_get_next
TreeSpec == TreeInit /\ [][TreeNext]_treeVars
-----------------------------------------------------------------------------
(* The pointers of a row agree in both directions and with lastchild, where
   the next child will be linked, after hiding and merging in any order. *)
RowsLinked ==
  \A n \in Tags(nodes) :
    LET row == Kids(nodes, n)
    IN row # <<>> =>
         /\ nodes[n].lastchild = Last(row) /\ nodes[Last(row)].next = None
         /\ \A i \in DOMAIN row : /\ nodes[row[i]].parent = n
                                  /\ nodes[row[i]].prev = IF i = 1 THEN None ELSE row[i - 1]

(* What the texts of a tag say, one after the other, is what was put there
   and not hidden, merged or not. *)
TextKept ==
  LET gone == UNION {ToSet(nodes[h].data) : h \in hidden}
      told(n) == Text_of(nodes, SelectSeq(Kids(nodes, n), LAMBDA m : nodes[m].type = "cdata"))
  IN \A n \in Tags(nodes) :
       told(n) = SetToSortSeq({m \in DOMAIN nodes : nodes[m].type = "cdata" /\ nodes[m].parent = n} \ gone, <)

(* xmlnode_get_tag returns a node that the path leads to, whenever there is
   one, however many children have the name of a step. *)
Paths == {<<>>} \cup {<<name>> : name \in TagNames}
Ends == {[kind |-> "name", name |-> name] : name \in TagNames}
         \cup {[kind |-> "attrib", name |-> "", attrib |-> a, value |-> v] : a \in AttrNames, v \in AttrValues \cup {None}}
         \cup {[kind |-> "data", name |-> "", data |-> d] : d \in {<<3>>, <<3, 4>>}}
PathFinds ==
  \A steps \in Paths, end \in Ends :
    LET found == xmlnode_get_tag(nodes, 1, steps, end)
        level == FoldLeft(LAMBDA ns, name : UNION {{m \in ToSet(Kids(nodes, n)) : Called(nodes, m, name)} : n \in ns}, {1}, steps)
        hits == UNION {{m \in ToSet(Kids(nodes, n)) : Fits(nodes, m, end)} : n \in level}
    IN IF hits = {} THEN found = None ELSE found \in hits

(* The text of a tag says the tag and what is in it.  A tag without children
   that is not the last of its row brings those behind it along. *)
RECURSIVE Told(_, _)
Told(ns, n) ==
  IF ns[n].type = "cdata" THEN <<(<<"text", ns[n].data>>)>>
  ELSE IF Kids(ns, n) = <<>> THEN <<Tag2str(ns, n, "empty")>>
  ELSE <<Tag2str(ns, n, "open")>> \o FlattenSeq([i \in DOMAIN Kids(ns, n) |-> Told(ns, Kids(ns, n)[i])]) \o <<Tag2str(ns, n, "close")>>
PrintsItself ==
  \A n \in Shown \cap Tags(nodes) :
    IF Kids(nodes, n) # <<>> \/ nodes[n].next = None
      THEN _xmlnode2spool(nodes, n) = Told(nodes, n)
      ELSE Len(_xmlnode2spool(nodes, n)) > 1

(* A copy is equal to a tag that nothing is behind, chunks of text apart or
   not, and to no other; and tags that print differently are not equal.  The
   code disagrees with lib.h:374, "compares a and b for equality": the walk
   goes on behind its arguments (xmlnode.c:749), so a tag with a sibling
   behind it is not equal to its own copy. *)
CopyIsEqual ==
  \A n \in Shown \cap Tags(nodes) :
    xmlnode_cmp(xmlnode_dup(nodes, n), 1, nodes, n) <=> nodes[n].next = None
EqualPrintsEqual ==
  \A m, n \in {k \in Shown \cap Tags(nodes) : ~ \E c \in ToSet(Kids(nodes, k)) : Dirty(nodes, c)} :
    xmlnode_cmp(nodes, m, nodes, n) /\ (\A c \in ToSet(Kids(nodes, m)) : nodes[c].type = "cdata")
      => Told(nodes, m) = Told(nodes, n)

(* The iterator returns a hidden node only when the node it waited on had
   been unlinked meanwhile, hidden or merged with the text before it. *)
IterShown ==
  [][(got' # got /\ got' # <<>>) => (Last(got') \in hidden => iter.cur \notin ToSet(Kids(nodes, 1)))]_treeVars

(* When it ends, it has returned every tag that was there from its begin to
   its end, in their order. *)
IterComplete ==
  [][(iter.on /\ ~iter'.on) =>
       SelectSeq(iter.todo, LAMBDA n : n \notin hidden)
         = SelectSeq(got, LAMBDA n : n \in ToSet(iter.todo) /\ n \notin hidden)]_treeVars
=============================================================================
