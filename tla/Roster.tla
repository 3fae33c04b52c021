------------------------------- MODULE Roster --------------------------------
(***************************************************************************)
(* The roster of one simulated user: the hash of roster items (XHash) with *)
(* its counter, filled by the whole roster that the user asks for once a   *)
(* connection and by the pushes of the server.                             *)
(*                                                                         *)
(* Items are allocated and freed: an item is a number, the lowest one not  *)
(* in use, as malloc may give a freed block again.  The key of a node of   *)
(* the hash is the jid inside the item that is its value.  Of the private  *)
(* contacts (PrivRoster) only the jids are here, which items point to.     *)
(* The server is external: it pushes what it likes.                        *)
(***************************************************************************)
EXTENDS Integers, FiniteSets, Sequences, SequencesExt

CONSTANTS
  Jids, JidHash,   \* the jids of the items, and _xhasher of each
  PrimeNumbers,    \* the table sizes, ascending
  MaxRoster,       \* bound: the items of a whole roster, or of the private contacts
  RosterNull

(* fit_prime has a size for every roster: 2147483399 is the code's largest. *)
ASSUME RosterAssumption ==
  /\ IsFiniteSet(Jids) /\ JidHash \in [Jids -> Nat] /\ RosterNull \notin Jids \union Nat
  /\ PrimeNumbers \in Seq(Nat \ {0}) /\ MaxRoster \in Nat
  /\ \E i \in 1..Len(PrimeNumbers) : PrimeNumbers[i] >= MaxRoster

VARIABLES
  roster_hash,     \* user->roster_hash, <<>> when NULL
  items,           \* the live roster items: [jid, priv]
  roster_count, last_roster_count,
  priv_rost_list,  \* the jids of user->priv_rost.priv_rost_list
  awaited          \* the replies of this connection still to come

rosterVars == <<roster_hash, items, roster_count, last_roster_count,
                priv_rost_list, awaited>>

(* fit_prime: the first size that is not too small. *)
fit_prime(size) == PrimeNumbers[SelectInSeq(PrimeNumbers, LAMBDA p : p >= size)]

Items == 1..(Cardinality(Jids) + 1)
H == INSTANCE XHash WITH
  HashKeys <- Jids, HashVals <- Items, HashOf <- JidHash,
  HashPrimes <- Range(PrimeNumbers), HashNull <- RosterNull, xht <- roster_hash

NoItems == [i \in {} |-> 0]

RosterInit ==
  /\ roster_hash = <<>> /\ items = NoItems
  /\ roster_count = 0 /\ last_roster_count = -1
  /\ priv_rost_list = <<>>
  /\ awaited = {}

(* The part of the state that loading and pushing change, as one record. *)
Public == [hash |-> roster_hash, items |-> items, count |-> roster_count, last |-> last_roster_count]
SetPublic(r) ==
  /\ roster_hash' = r.hash /\ items' = r.items
  /\ roster_count' = r.count /\ last_roster_count' = r.last

(* roster_hash_delete: the walk frees every item, then the table goes. *)
roster_hash_delete(r) ==
  IF r.hash = <<>> THEN r
  ELSE LET walked == {n.val : n \in Range(H!xhash_walk(r.hash))}
       IN [hash |-> <<>>, items |-> [i \in DOMAIN r.items \ walked |-> r.items[i]],
           count |-> 0, last |-> r.count]

(* find_priv_by_jid: the first private contact with the jid. *)
find_priv_by_jid(jid) == SelectInSeq(priv_rost_list, LAMBDA j : j = jid)

Free(r, i) == [r EXCEPT !.items = [j \in DOMAIN @ \ {i} |-> @[j]]]
Created(live, i, jid) ==
  [j \in DOMAIN live \union {i} |-> IF j = i THEN [jid |-> jid, priv |-> find_priv_by_jid(jid)] ELSE live[j]]
Fresh(r) == CHOOSE i \in Items : i \notin DOMAIN r.items /\ \A j \in Items : j < i => j \in DOMAIN r.items

(* One <item/> of roster_hash_from_xml: the new item is created, the old one
   with its jid is taken out and freed, and the new one is put or, when it
   says subscription="remove", freed again. *)
FromItem(r, x) ==
  LET i == Fresh(r)
      created == [r EXCEPT !.items = Created(@, i, x.jid)]
      old == H!xhash_get(r.hash, x.jid)
      cleared == IF old = RosterNull THEN created
                 ELSE [Free(created, old) EXCEPT !.hash = H!xhash_zap(@, x.jid), !.count = @ - 1]
  IN IF x.remove THEN Free(cleared, i)
     ELSE [cleared EXCEPT !.hash = H!xhash_put(@, x.jid, i), !.count = @ + 1]

(* The loop through the items, one after another. *)
FromItems(r, list) ==
  LET step[n \in 0..Len(list)] == IF n = 0 THEN r ELSE FromItem(step[n - 1], list[n])
  IN step[Len(list)]

FromXmlMerges(r, list, delete) ==   \* slip: the old roster is kept
  FromItems(IF r.hash = <<>> THEN [r EXCEPT !.hash = H!xhash_new(fit_prime(Len(list)))] ELSE r, list)
roster_hash_from_xml(r, list, delete) ==
  LET emptied == IF delete THEN roster_hash_delete(r) ELSE r
      hashed == IF emptied.hash # <<>> THEN emptied
                ELSE [emptied EXCEPT !.hash = H!xhash_new(fit_prime(Len(list)))]
  IN FromItems(hashed, list)

ItemXml == [jid : Jids, remove : BOOLEAN]
Lists == UNION {[1..n -> ItemXml] : n \in 0..MaxRoster}
Pushes == [1..1 -> ItemXml]
Contacts == UNION {[1..n -> Jids] : n \in 0..MaxRoster}

(* user_do_fetch_properities asks for the roster, and a callback of it for
   the private one; nothing else in this connection asks again. *)
AskRosters ==
  /\ awaited = {}
  /\ awaited' = {"connected", "roster", "extcontacts"}
  /\ UNCHANGED <<roster_hash, items, roster_count, last_roster_count, priv_rost_list>>

handle_roster_response(list) ==
  /\ "roster" \in awaited
  /\ awaited' = awaited \ {"roster"}
  /\ SetPublic(roster_hash_from_xml(Public, list, TRUE))
  /\ UNCHANGED priv_rost_list

(* handle_roster_set_response: a push without an identifier, at any time. *)
handle_roster_set_response(list) ==
  /\ awaited # {}
  /\ SetPublic(roster_hash_from_xml(Public, list, FALSE))
  /\ UNCHANGED <<priv_rost_list, awaited>>

(* The contacts are loaded while items may already be there. *)
handle_extcontacts(contacts) ==
  /\ "extcontacts" \in awaited
  /\ awaited' = awaited \ {"extcontacts"}
  /\ priv_rost_list' = contacts
  /\ UNCHANGED <<roster_hash, items, roster_count, last_roster_count>>

(* user_conn_kill: both rosters go with the connection. *)
DropRosters == SetPublic(roster_hash_delete(Public)) /\ priv_rost_list' = <<>>
RosterKill == awaited # {} /\ awaited' = {} /\ DropRosters

RosterNext ==
  \/ AskRosters
  \/ \E list \in Lists : handle_roster_response(list)
  \/ \E list \in Pushes : handle_roster_set_response(list)
  \/ \E contacts \in Contacts : handle_extcontacts(contacts)
  \/ RosterKill

RosterSpec == RosterInit /\ [][RosterNext]_rosterVars
-----------------------------------------------------------------------------
InHash == IF roster_hash = <<>> THEN <<>> ELSE H!xhash_walk(roster_hash)

(* roster_count, which ev_del_roster, ev_add_roster and the presences rely
   on, is the number of items in the hash, through every mixture of whole
   rosters, pushes, replacements and removals, also of jids that are not
   there. *)
CountIsRoster == roster_count = Len(InHash)

(* No item is lost and none is used after it was freed: the items of the
   hash are the live ones, each under its own jid (whose memory is the key). *)
ItemsOwned ==
  /\ {n.val : n \in Range(InHash)} = DOMAIN items
  /\ \A n \in Range(InHash) : items[n.val].jid = n.key

(* ev_del_roster dereferences the item that xhash_get_nth gives for a random
   number below roster_count without looking: there always is one. *)
DrawnItemExists ==
  \A n \in 0..(roster_count - 1) : roster_hash # <<>> /\ H!xhash_get_nth(roster_hash, n) \in DOMAIN items

(* A whole roster replaces all that pushes which came before it had put into
   the hash, and the entry of a jid named twice is the last one. *)
ItemsNamed(list) ==
  {j \in Jids : \E i \in DOMAIN list :
     /\ list[i] = [jid |-> j, remove |-> FALSE]
     /\ \A k \in DOMAIN list : list[k].jid = j => k <= i}
FullLoadReplaces ==
  [][("roster" \in awaited /\ "roster" \notin awaited') =>
       \A list \in Lists :
         handle_roster_response(list) => {n.key : n \in Range(InHash')} = ItemsNamed(list)]_rosterVars

(* The pointer of a roster item to its private contact never outlives the
   contacts: they are loaded once a connection and dropped after the items. *)
PrivPointersLive ==
  \A i \in DOMAIN items :
    LET at == items[i].priv
    IN at # 0 => at \in DOMAIN priv_rost_list /\ priv_rost_list[at] = items[i].jid

(* The public roster through whole loads, pushes, the private contacts and
   the end of the connection, in every order. *)
RosterKept ==
  /\ [](CountIsRoster /\ ItemsOwned /\ DrawnItemExists /\ PrivPointersLive)
  /\ FullLoadReplaces
=============================================================================
