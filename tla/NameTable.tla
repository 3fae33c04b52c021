------------------------------ MODULE NameTable ------------------------------
(***************************************************************************)
(* hashtable.c: expat's tables of names.  A name is looked for from its    *)
(* hash value downwards, round the end, to the first free slot; a table    *)
(* that is half full is made twice as large before a name is added.        *)
(***************************************************************************)
EXTENDS Integers, Sequences, FiniteSets

CONSTANTS
  TableNames, NameHash(_),  \* names and their hash values
  InitSize,                 \* INIT_SIZE, 64 in the code: a power of 2
  FreeSlot

ASSUME NameTableAssumption ==
  /\ InitSize \in Nat /\ InitSize >= 2 /\ FreeSlot \notin TableNames
  /\ \A name \in TableNames : NameHash(name) \in Nat

VARIABLES
  slots,    \* table->v with table->size slots, numbered from 0
  usedNames,  \* table->used
  known     \* history: the names that were added

tableVars == <<slots, usedNames, known>>

Size == Cardinality(DOMAIN slots)
UsedLim(v) == Cardinality(DOMAIN v) \div 2
Down(v, i, k) == (i - k) % Cardinality(DOMAIN v)

(* The slot where the search for a name ends: with the name, or free. *)
Probe(v, name) ==
  LET at(k) == Down(v, NameHash(name), k)
      ends == {k \in 0..(Cardinality(DOMAIN v) - 1) : v[at(k)] \in {name, FreeSlot}}
  IN IF ends = {} THEN -1 ELSE at(CHOOSE k \in ends : \A l \in ends : k <= l)

(* The larger table: the names in the order of their old slots. *)
Rehash(v) ==
  LET n == Cardinality(DOMAIN v)
      moved[i \in 0..n] ==
        IF i = 0 THEN [j \in 0..(2 * n - 1) |-> FreeSlot]
        ELSE LET w == moved[i - 1]
             IN IF v[i - 1] = FreeSlot THEN w ELSE [w EXCEPT ![Probe(w, v[i - 1])] = v[i - 1]]
  IN moved[n]

TableInit == slots = <<>> /\ usedNames = 0 /\ known = {}

(* lookup: a search alone, or with the size of what is to be added. *)
Present(name) == Size > 0 /\ slots[Probe(slots, name)] = name
Room(v) == IF DOMAIN v = {} THEN [i \in 0..(InitSize - 1) |-> FreeSlot]
           ELSE IF usedNames = UsedLim(v) THEN Rehash(v) ELSE v
AddName(name) ==
  /\ ~Present(name) /\ slots' = [Room(slots) EXCEPT ![Probe(Room(slots), name)] = name]
  /\ usedNames' = usedNames + 1 /\ known' = known \cup {name}
(* Memory is short: for the slots, or for the entry when they are there. *)
NoMemory(name) ==
  /\ ~Present(name) /\ slots' \in {slots, Room(slots)}
  /\ UNCHANGED <<usedNames, known>>

(* hashTableDestroy *)
Destroy == Size > 0 /\ slots' = <<>> /\ usedNames' = 0 /\ known' = {}

(* hashTableIterInit and hashTableIterNext: from the first slot to the last. *)
Iterated(v) == {v[i] : i \in DOMAIN v} \ {FreeSlot}

TableNext ==
  \/ \E name \in TableNames : AddName(name) \/ NoMemory(name)
  \/ Destroy
TableSpec == TableInit /\ [][TableNext]_tableVars
-----------------------------------------------------------------------------
(* Every name that was added is found, and no other, whatever their hash
   values and however often the table has grown; the iterator meets each. *)
NamesFound ==
  /\ \A name \in TableNames : Present(name) <=> name \in known
  /\ Iterated(slots) = known /\ usedNames = Cardinality(known)

(* There is always a free slot at which a search for a new name ends. *)
SearchesEnd == Size > 0 => usedNames <= UsedLim(slots) /\ UsedLim(slots) < Size
=============================================================================
