-------------------------------- MODULE Config -------------------------------
(***************************************************************************)
(* How configure makes the users of a run: generate_user_names_space fills *)
(* the names by number, generator by generator, and set_users_properities  *)
(* takes every group of properties over all the names, and makes a user of *)
(* each one that the group's filter admits.                                *)
(*                                                                         *)
(* Neither loop looks at the size of its array: a configuration is one     *)
(* whose numbers are below MaxUsers and whose users fit.                   *)
(***************************************************************************)
EXTENDS Integers, Sequences, FiniteSets, SequencesExt

CONSTANTS
  MaxUsers,     \* MAX_USERS, 50000
  Generators,   \* the user_names_generator tags of the runs
  Groups,       \* the user_properities tags of the runs
  MaxTags       \* bound: tags of each kind

ASSUME ConfigAssumption == MaxUsers \in Nat \ {0} /\ MaxTags \in Nat

VARIABLES
  generators, groups,  \* what is left of the configuration file
  names,    \* user_names_space
  users,    \* users[0..users_count-1], by their number, and their group's port
  alive,    \* alive_users_list
  used      \* history: the generators and groups that have been read

configVars == <<generators, groups, names, users, alive, used>>

NameSpace == 0..(MaxUsers - 1)
NoName == [user |-> "", server |-> "", enabled |-> FALSE]

(* xmlnode_get_tag_data and j_atoi: the number in a tag, or the default. *)
j_atoi(tag, default) == IF tag.there THEN tag.number ELSE default

Bounds(g) == j_atoi(g.from, 0)..(IF g.range THEN j_atoi(g.to, -1) ELSE -1)
Fits == \A i \in DOMAIN generators : Bounds(generators[i]) \subseteq NameSpace

TagsOf(S) == UNION {[1..n -> S] : n \in 0..MaxTags}
ConfigWith(gens, grps) ==
  /\ generators = gens /\ groups = grps
  /\ Fits /\ Len(groups) * Cardinality(UNION {Bounds(generators[i]) : i \in DOMAIN generators}) <= MaxUsers
  /\ names = [j \in NameSpace |-> NoName]
  /\ users = <<>> /\ alive = <<>>
  /\ used = [generators |-> <<>>, groups |-> <<>>]
ConfigInit == \E gens \in TagsOf(Generators), grps \in TagsOf(Groups) : ConfigWith(gens, grps)

(* One turn of the loop over the generators.  A generator without a server
   leaves the server that is there. *)
GenerateWhole(g) ==   \* slip: a generator without a server clears it
  [j \in NameSpace |->
     IF g.name # "" /\ j \in Bounds(g) THEN [user |-> g.name, server |-> g.server, enabled |-> TRUE] ELSE names[j]]
Generate(g) ==
  [j \in NameSpace |->
     IF g.name # "" /\ j \in Bounds(g)
       THEN [user |-> g.name, server |-> IF g.server # "" THEN g.server ELSE names[j].server, enabled |-> TRUE]
       ELSE names[j]]
generate_user_names_space ==
  /\ generators # <<>>
  /\ names' = Generate(Head(generators))
  /\ generators' = Tail(generators)
  /\ used' = [used EXCEPT !.generators = Append(@, Head(generators))]
  /\ UNCHANGED <<groups, users, alive>>

(* The filter of a group: its range counts only when it is there, but the
   numbers are looked for in the filter itself. *)
Admits(g, j) ==
  /\ names[j].enabled /\ names[j].user \in g.matches
  /\ g.range => j >= j_atoi(g.from, 0) /\ j <= j_atoi(g.to, MaxUsers)

Admitted(g) == FlattenSeq([i \in 1..MaxUsers |-> IF Admits(g, i - 1) THEN <<i - 1>> ELSE <<>>])

(* Every name that the group admits becomes a user, in the array and in
   front of the list. *)
AliveWith(made) == Reverse(made) \o alive
set_users_properities ==
  /\ generators = <<>> /\ groups # <<>>
  /\ LET g == Head(groups)
         made == [i \in DOMAIN Admitted(g) |-> [number |-> Admitted(g)[i], name |-> names[Admitted(g)[i]], port |-> g.port]]
     IN users' = users \o made /\ alive' = AliveWith(made)
  /\ groups' = Tail(groups)
  /\ used' = [used EXCEPT !.groups = Append(@, Head(groups))]
  /\ UNCHANGED <<generators, names>>

ConfigNext == generate_user_names_space \/ set_users_properities
ConfigSpec == ConfigInit /\ [][ConfigNext]_configVars
-----------------------------------------------------------------------------
Covering(gens, j) == {i \in DOMAIN gens : gens[i].name # "" /\ j \in Bounds(gens[i])}
Serving(gens, j) == {i \in Covering(gens, j) : gens[i].server # ""}

(* A number that several generators cover has the name of the last of them,
   with the server of the last of them that gives one: the halves may come
   from two generators. *)
NamesFromLast ==
  \A j \in NameSpace :
    LET gens == used.generators
        cover == Covering(gens, j)
        served == Serving(gens, j)
    IN names[j] = IF cover = {} THEN NoName
                  ELSE [user |-> gens[Max(cover)].name, enabled |-> TRUE,
                        server |-> IF served = {} THEN "" ELSE gens[Max(served)].server]

(* A name is simulated once for every group that admits it, so two groups
   that overlap log the same user in twice. *)
UsersOf(j) == {i \in DOMAIN users : users[i].number = j}
Admitting(j) == {i \in DOMAIN used.groups : Admits(used.groups[i], j)}
UserPerGroup ==
  generators = <<>> => \A j \in NameSpace : Cardinality(UsersOf(j)) = Cardinality(Admitting(j))

(* The list that thread_main walks has every user of the array, the last
   made first, so all of them get their turns. *)
ListIsArray == alive = Reverse(users)
=============================================================================
