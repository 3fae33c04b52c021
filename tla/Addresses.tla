------------------------------ MODULE Addresses ------------------------------
(***************************************************************************)
(* jid.c: a Jabber identifier user@server/resource is parsed, checked,     *)
(* changed part by part, written out again with a cached copy, compared,   *)
(* and kept in lists that hold each identifier once.                       *)
(*                                                                         *)
(* A string is a sequence of characters; NoPart is a NULL pointer.  Capital *)
(* letters are those of DOMAIN Lower.                                       *)
(***************************************************************************)
EXTENDS Integers, Sequences, SequencesExt

CONSTANTS
  NoPart,
  Characters,   \* that texts are made of
  Written,      \* strings that identifiers are made of
  Portions,     \* strings that a part is set to
  MaxServer, MaxUser,   \* 255 and 64 in the code
  MaxListed     \* bound: identifiers in the list

(* Capital letters, the characters jid_safe allows in a server's name, and
   those it does not allow in a user's; any others are allowed there. *)
Lower == [c \in {"A"} |-> "a"]
ServerChars == {"a", "b", "-", "."}
NotInUser == {" ", ":", "@", "<", "&"}

Texts == Seq(Characters)
Nullable == Texts \cup {NoPart}
Jids == [user : Nullable, server : Texts, resource : Nullable, full : Nullable]
ASSUME AddressesAssumption ==
  /\ {MaxServer, MaxUser} \subseteq Nat \ {0}
  /\ ServerChars \cup NotInUser \cup {"A", "/", "=", "?"} \subseteq Characters
  /\ Written \cup Portions \subseteq Texts /\ NoPart \notin Texts /\ NoPart \notin Jids

VARIABLES
  id,        \* the identifier in hand, [user, server, resource, full]
  list,      \* a list that jid_append extends
  appending  \* "looping": jid_append does not come back

addressVars == <<id, list, appending>>

Lowered(s) == IF s = NoPart THEN s ELSE [i \in DOMAIN s |-> IF s[i] \in DOMAIN Lower THEN Lower[s[i]] ELSE s[i]]
Find(s, c) == IF \E i \in DOMAIN s : s[i] = c THEN CHOOSE i \in DOMAIN s : s[i] = c /\ \A j \in 1..(i - 1) : s[j] # c ELSE 0
Before(s, i) == SubSeq(s, 1, i - 1)
After(s, i) == SubSeq(s, i + 1, Len(s))
Filled(s) == IF s = <<>> THEN NoPart ELSE s

(* The server's name in small letters, the user's cut to its length; NoPart
   when a character is not allowed.  '/' is allowed in a user. *)
jid_safe(j) ==
  LET server == Lowered(j.server)
      user == IF j.user # NoPart /\ Len(j.user) > MaxUser THEN SubSeq(j.user, 1, MaxUser) ELSE j.user
  IN IF Len(server) \notin 1..MaxServer \/ (\E i \in DOMAIN server : server[i] \notin ServerChars)
        \/ (user # NoPart /\ \E i \in DOMAIN user : user[i] \in NotInUser)
       THEN NoPart
       ELSE [j EXCEPT !.server = server, !.user = user]

(* jid_new: the resource is behind the first '/', a "type:" is dropped, the
   user is before the first '@' that is left. *)
jid_new(str) ==
  LET slash == Find(str, "/")
      head == IF slash = 0 THEN str ELSE Before(str, slash)
      name == After(head, Find(head, ":"))
      at == Find(name, "@")
  IN IF str = <<>> THEN NoPart
     ELSE jid_safe([user |-> IF at = 0 THEN NoPart ELSE Filled(Before(name, at)),
                    server |-> After(name, at),
                    resource |-> IF slash = 0 THEN NoPart ELSE Filled(After(str, slash)),
                    full |-> NoPart])

Spelled(j) == (IF j.user = NoPart THEN <<>> ELSE Append(j.user, "@")) \o j.server
                \o (IF j.resource = NoPart THEN <<>> ELSE <<"/">> \o j.resource)
jid_full(j) == [j EXCEPT !.full = IF @ # NoPart THEN @ ELSE Spelled(j)]

(* jid_set: the cached copy goes first; an invalid user or server is taken
   back. *)
jid_set(j, str, item) ==
  LET bare == [j EXCEPT !.full = NoPart]
      set == [bare EXCEPT ![item] = IF item = "server" THEN str ELSE Filled(str)]
  IN IF item = "resource" THEN set
     ELSE IF jid_safe(set) # NoPart THEN jid_safe(set) ELSE bare

(* jid_cmp is 0: the user is compared without regard to capitals.  jid_cmpx
   compares some parts only. *)
jid_cmpx(a, b, items) ==
  /\ a # NoPart /\ b # NoPart
  /\ "resource" \in items => a.resource = b.resource
  /\ "user" \in items => Lowered(a.user) = Lowered(b.user)
  /\ "server" \in items => a.server = b.server
jid_cmp(a, b) == jid_cmpx(a, b, {"user", "server", "resource"})

jid_user(j) == IF j.resource = NoPart THEN j ELSE [j EXCEPT !.resource = NoPart, !.full = NoPart]

(* jid_append: at the end of the list a new identifier is made of the text
   of b; the loop goes on until it meets one that is equal to b. *)
jid_append(l, b) ==
  IF \E i \in DOMAIN l : jid_cmp(l[i], b) THEN l
  ELSE IF jid_new(Spelled(b)) = NoPart THEN l
  ELSE Append(l, jid_new(Spelled(b)))
AppendLoops(l, b) ==
  /\ ~ \E i \in DOMAIN l : jid_cmp(l[i], b)
  /\ jid_new(Spelled(b)) # NoPart /\ ~ jid_cmp(jid_new(Spelled(b)), b)

(* jid_nodescan: the first child whose jid attribute is this identifier. *)
jid_nodescan(j, children) ==
  IF \E i \in DOMAIN children : jid_cmp(jid_new(children[i]), j)
    THEN CHOOSE i \in DOMAIN children :
           /\ jid_cmp(jid_new(children[i]), j)
           /\ \A k \in 1..(i - 1) : ~ jid_cmp(jid_new(children[k]), j)
    ELSE 0

(* xmlnode_put_attrib: a value goes where its name has one already. *)
PutPair(pairs, name, v) ==
  IF \E i \in DOMAIN pairs : pairs[i][1] = name
    THEN [i \in DOMAIN pairs |-> IF pairs[i][1] = name THEN <<name, v>> ELSE pairs[i]]
    ELSE Append(pairs, <<name, v>>)

(* jid_xres: name?key=value&key=value, one turn of its loop after another;
   nothing comes of a resource without a '?'. *)
Attribute(x) ==
  LET eq == Find(x.rest, "=")
      value == After(x.rest, eq)
      amp == Find(value, "&")
      put(v) == PutPair(x.pairs, Before(x.rest, eq), v)
  IN IF eq = 0 THEN x
     ELSE IF amp = 0 THEN [rest |-> <<>>, pairs |-> put(value)]
     ELSE [rest |-> After(value, amp), pairs |-> put(Before(value, amp))]
XresTurns(s) == LET turn[k \in 0..Len(s)] == IF k = 0 THEN [rest |-> s, pairs |-> <<>>] ELSE Attribute(turn[k - 1]) IN turn
Attributes(s) == XresTurns(s)[Len(s)].pairs
jid_xres(resource) ==
  LET qmark == Find(resource, "?")
  IN IF resource = NoPart \/ qmark = 0 THEN NoPart
     ELSE [name |-> Before(resource, qmark), attribs |-> Attributes(After(resource, qmark))]
-----------------------------------------------------------------------------
AddressInit == id = NoPart /\ list = <<>> /\ appending = "none"

Parse(str) == id = NoPart /\ id' = jid_new(str) /\ UNCHANGED <<list, appending>>
SetPart(str, item) == id # NoPart /\ id' = jid_set(id, str, item) /\ UNCHANGED <<list, appending>>
Print_full == id # NoPart /\ id' = jid_full(id) /\ UNCHANGED <<list, appending>>
UserOnly == id # NoPart /\ id' = jid_user(id) /\ UNCHANGED <<list, appending>>
Start_list == id # NoPart /\ list = <<>> /\ list' = <<[id EXCEPT !.full = NoPart]>> /\ id' = NoPart /\ UNCHANGED appending
ToList ==
  /\ id # NoPart /\ list # <<>> /\ Len(list) < MaxListed
  /\ IF AppendLoops(list, id) THEN appending' = "looping" /\ list' = list
                              ELSE appending' = "none" /\ list' = jid_append(list, id)
  /\ id' = IF appending' = "looping" THEN jid_full(id) ELSE NoPart

AddressNext ==
  /\ appending = "none"
  /\ \/ \E str \in Written : Parse(str)
     \/ \E str \in Portions, item \in {"user", "server", "resource"} : SetPart(str, item)
     \/ Print_full \/ UserOnly \/ Start_list \/ ToList
AddressSpec == AddressInit /\ [][AddressNext]_addressVars
-----------------------------------------------------------------------------
(* The copy of the text that jid_full keeps is never that of parts which
   jid_set has changed since. *)
FullIsFresh == id # NoPart => id.full \in {NoPart, Spelled(id)}

Slashed(j) == j.user # NoPart /\ Find(j.user, "/") # 0

(* The text of an identifier is parsed into the same parts, so that it finds
   its own entry in a roster (jid_nodescan), unless jid_set has put a '/'
   into the user, which jid_safe lets through. *)
TextIsAddress ==
  (id # NoPart /\ ~Slashed(id)) =>
    /\ jid_cmp(jid_new(Spelled(id)), id)
    /\ jid_nodescan(id, <<(<<"b">>), Spelled(id)>>) = IF jid_cmp(id, jid_new(<<"b">>)) THEN 1 ELSE 2

(* jid_append's loop ends, unless the identifier is one of those. *)
LoopsOnlySlashed == appending = "looping" => Slashed(id)

(* A list that jid_append has made holds no identifier twice. *)
ListedOnce == \A i, j \in DOMAIN list : jid_cmp(list[i], list[j]) => i = j

(* The query part of a resource gives each of its names once, with the value
   that was written last, whatever the resource is in front of its '?'. *)
PairsOf(n) == [i \in 1..n |-> << <<IF i % 2 = 0 THEN "b" ELSE "a">>, IF i % 3 = 0 THEN <<>> ELSE <<"b", "a">> >>]
QueryText(pairs) == After(FlattenSeq([i \in DOMAIN pairs |-> <<"&">> \o pairs[i][1] \o <<"=">> \o pairs[i][2]]), 1)
Lasts(pairs) == {i \in DOMAIN pairs : \A j \in DOMAIN pairs : pairs[j][1] = pairs[i][1] => j <= i}
LastValues(attribs, pairs) ==
  /\ \A i, j \in DOMAIN attribs : attribs[i][1] = attribs[j][1] => i = j
  /\ ToSet(attribs) = {pairs[i] : i \in Lasts(pairs)}
QueryParsed ==
  (id # NoPart /\ id.resource # NoPart /\ Find(id.resource, "?") = 0) =>
    LET pairs == PairsOf(Len(id.resource) + 2)
        x == jid_xres(id.resource \o <<"?">> \o QueryText(pairs))
    IN x.name = id.resource /\ LastValues(x.attribs, pairs)
=============================================================================
