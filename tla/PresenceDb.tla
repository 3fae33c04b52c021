------------------------------ MODULE PresenceDb ------------------------------
(***************************************************************************)
(* pproxy.c: the last presence of every identifier.  The resources of a    *)
(* user@host hang in a list behind an entry of its own, from which the one *)
(* with the highest priority is picked, or all of them by successive calls *)
(* of ppdb_get, which remembers in a static variable how far it is.        *)
(*                                                                         *)
(* An identifier is [user, resource]; the copies of SlashedUsers never     *)
(* compare equal to it (module Addresses says why).                        *)
(***************************************************************************)
EXTENDS Integers, Sequences, SequencesExt, FiniteSets

CONSTANTS
  Without,                \* no user, or no resource
  DbUsers, DbResources, SlashedUsers,
  Priorities,             \* -1 is an unavailable presence (jutil_priority)
  MaxEntries              \* bound: entries

ASSUME PresenceAssumption == SlashedUsers \subseteq DbUsers /\ Priorities \subseteq Nat \cup {-1}

VARIABLES
  db,       \* entries in the order they were made, [id, pri, x, user]:
            \* x says whether there is a presence, user is the next of the list
  lastPp,   \* the static variable of ppdb_get: an entry, 0 for NULL
  dangling, \* whether it is one of a database that was freed
  loop      \* history: [of, seen, broken] of the loop over a user's resources

ppdbVars == <<db, lastPp, dangling, loop>>

Ids == [user : DbUsers \cup {Without}, resource : DbResources \cup {Without}]
IsUser(j) == j.user # Without /\ j.resource = Without
UserOf(j) == [j EXCEPT !.resource = Without]

(* _ppdb_get: new entries are put before the old ones. *)
_ppdb_get(d, j) ==
  LET found == {e \in DOMAIN d : d[e].id = j /\ j.user \notin SlashedUsers}
  IN IF found = {} THEN 0 ELSE CHOOSE e \in found : \A f \in found : f <= e

_ppdb_new(j) == [id |-> j, pri |-> -1, x |-> FALSE, user |-> 0]

(* An entry that has a presence now, and one with the next in the list behind it. *)
WithPresence(e, pri) == [id |-> e.id, pri |-> pri, x |-> TRUE, user |-> e.user]
OnlyFirst(e, next) == IF e.user # 0 THEN e ELSE [e EXCEPT !.user = next]   \* slip: one that has a next keeps it
InFront(e, next) == [e EXCEPT !.user = next]

(* ppdb_insert *)
ppdb_insert(d, j, pri) ==
  LET e == _ppdb_get(d, j)
      more == Append(d, WithPresence(_ppdb_new(j), pri))
      cur == Len(more)
      curu == IF j.user = Without THEN cur ELSE _ppdb_get(more, UserOf(j))
      full == IF curu = 0 THEN Append(more, _ppdb_new(UserOf(j))) ELSE more
      u == IF curu = 0 THEN Len(full) ELSE curu
  IN IF e # 0 THEN [d EXCEPT ![e] = WithPresence(d[e], pri)]
     ELSE IF u = cur THEN more
     ELSE [full EXCEPT ![cur] = InFront(full[cur], full[u].user), ![u] = InFront(full[u], cur)]

(* The list behind an entry, in its order, and how far it goes. *)
Chain(d, e) == LET at[k \in 0..Len(d)] == IF k = 0 THEN e ELSE IF at[k - 1] = 0 THEN 0 ELSE d[at[k - 1]].user IN at
Behind(d, e) == LET at == Chain(d, e) IN [k \in 1..Cardinality({i \in 1..Len(d) : at[i] # 0}) |-> at[k]]

(* ppdb_primary: the entry whose presence is returned, or 0. *)
Highest(d, e, behind) ==
  LET top[k \in 0..Len(behind)] == IF k = 0 THEN e ELSE IF d[behind[k]].pri >= d[top[k - 1]].pri THEN behind[k] ELSE top[k - 1]
  IN top
ppdb_primary(d, j) ==
  LET cur == _ppdb_get(d, j)
      top == Highest(d, cur, Behind(d, cur))[Len(Behind(d, cur))]
  IN IF cur = 0 THEN 0 ELSE IF ~IsUser(j) THEN cur ELSE IF d[top].pri >= 0 THEN top ELSE 0

NoLoop == [of |-> Without, seen |-> <<>>, broken |-> FALSE]
Broken == [NoLoop EXCEPT !.broken = TRUE]   \* something else came in between: what it saw is of no interest
PresenceInit == db = <<>> /\ lastPp = 0 /\ dangling = FALSE /\ loop = NoLoop

Insert(j, pri) ==
  /\ Len(ppdb_insert(db, j, pri)) <= MaxEntries
  /\ db' = ppdb_insert(db, j, pri)
  /\ loop' = IF lastPp = 0 THEN NoLoop ELSE Broken
  /\ UNCHANGED <<lastPp, dangling>>

(* ppdb_get: the next of the static variable, whoever asks.  A dangling one
   is read in freed memory: then it is over. *)
NextPp(j) ==
  IF lastPp # 0 THEN (IF IsUser(j) THEN db[lastPp].user ELSE 0)
  ELSE IF ~IsUser(j) THEN _ppdb_get(db, j)
  ELSE IF _ppdb_get(db, j) = 0 THEN 0 ELSE db[_ppdb_get(db, j)].user
ppdb_get(j) ==
  /\ db # <<>>
  /\ IF dangling THEN lastPp' = 0 ELSE lastPp' = NextPp(j)
  /\ dangling' = FALSE
  /\ loop' = IF lastPp = 0
               THEN [of |-> j, broken |-> FALSE, seen |-> IF lastPp' = 0 THEN <<>> ELSE <<lastPp'>>]
               ELSE IF loop.broken \/ loop.of # j THEN Broken
               ELSE [loop EXCEPT !.seen = IF lastPp' = 0 THEN @ ELSE Append(@, lastPp')]
  /\ UNCHANGED db

(* ppdb_free: the memory of all the entries. *)
ppdb_free ==
  /\ db # <<>> /\ db' = <<>>
  /\ dangling' = (dangling \/ lastPp # 0)
  /\ loop' = IF lastPp = 0 THEN NoLoop ELSE Broken
  /\ UNCHANGED lastPp

PresenceNext ==
  \/ \E j \in Ids : (\E pri \in Priorities : Insert(j, pri)) \/ ppdb_get(j)
  \/ ppdb_free
PresenceSpec == PresenceInit /\ [][PresenceNext]_ppdbVars
-----------------------------------------------------------------------------
Resources(j) == {e \in DOMAIN db : db[e].id.user = j.user /\ db[e].id.resource # Without}
KnownIds == {db[e].id : e \in DOMAIN db}

(* An identifier has one entry, however its presences are interleaved with
   those of its user, and each resource hangs behind its user exactly once. *)
OneEntryEach ==
  \A j \in {k \in KnownIds : k.user \notin SlashedUsers} :
    /\ Cardinality({e \in DOMAIN db : db[e].id = j}) = 1
    /\ IsUser(j) =>
         LET list == Behind(db, _ppdb_get(db, j))
         IN ToSet(list) = Resources(j) /\ Len(list) = Cardinality(Resources(j))

(* The primary presence is an available one, and none behind the user's
   entry has a higher priority; there is none only when all are away. *)
PrimaryIsHighest ==
  \A j \in {k \in KnownIds : IsUser(k) /\ k.user \notin SlashedUsers} :
    LET top == ppdb_primary(db, j)
        all == {_ppdb_get(db, j)} \cup ToSet(Behind(db, _ppdb_get(db, j)))
    IN IF top = 0 THEN \A e \in all : db[e].pri = -1
       ELSE db[top].x /\ db[top].pri >= 0 /\ \A e \in all : db[e].pri <= db[top].pri

(* When a loop of calls for one user ends that nothing else has come in
   between, it has returned each of the user's resources once, and nothing
   else.  The code disagrees with lib.h:529, where ppdb_get returns "each
   presence xmlnode for the id and children": the loop begins behind the
   user's own entry (pproxy.c:192), so what was announced without a resource
   is not returned. *)
LoopComplete ==
  [][(lastPp # 0 /\ lastPp' = 0 /\ ~loop'.broken /\ IsUser(loop'.of))
      => /\ ToSet(loop'.seen) = Resources(loop'.of)
         /\ Len(loop'.seen) = Cardinality(Resources(loop'.of))]_ppdbVars
=============================================================================
