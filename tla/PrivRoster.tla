----------------------------- MODULE PrivRoster ------------------------------
(***************************************************************************)
(* The private roster of one simulated user: contacts and groups that the  *)
(* user fetches once a connection, and the version number numextcontacts   *)
(* that ev_logout increases and saves in two places of the server, in the  *)
(* list of contacts and in a number of its own.  Names and flags of the    *)
(* contacts are left out.  The server is external.                         *)
(***************************************************************************)
EXTENDS Integers, Sequences, SequencesExt

CONSTANTS
  PrivJids, GroupNames,
  MaxVersion       \* bound: version numbers of the private roster

ASSUME PrivAssumption == MaxVersion \in Nat

VARIABLES
  priv_rost,       \* user->priv_rost
  groupItems,      \* history: group items allocated and not freed
  replies,         \* the private replies of this connection still to come
  sending,         \* the parts of the private roster queued to be saved
  saved            \* the server's copy: the version in each place

privVars == <<priv_rost, groupItems, replies, sending, saved>>

(* user_create: no contacts, and one group of all contacts. *)
PrivInit ==
  /\ priv_rost = [loaded |-> FALSE, contacts |-> <<>>, groups |-> <<>>, gall |-> TRUE, num |-> 0]
  /\ groupItems = 1
  /\ replies = {} /\ sending = <<>>
  /\ saved = [num |-> 0, data |-> 0]

(* user_do_fetch_properities asks for the version, nothing else does. *)
AskVersion ==
  /\ replies = {} /\ replies' = {"connected", "num"}
  /\ UNCHANGED <<priv_rost, groupItems, sending, saved>>

(* handle_numextcontacts_response: the version of the server is taken, and
   the private roster asked for. *)
VersionResponse ==
  /\ "num" \in replies
  /\ priv_rost' = [priv_rost EXCEPT !.num = saved.num]
  /\ replies' = (replies \ {"num"}) \union {"extcontacts"}
  /\ UNCHANGED <<groupItems, sending, saved>>

(* privLoadGroups appends the groups in order, and a new group of all contacts
   replaces the one gall pointed to. *)
privLoadGroups(p, list) == [p EXCEPT !.groups = @ \o list, !.gall = TRUE]

(* privLoadContacts appends the contacts, each with those of the groups it
   names that exist. *)
Contact(x, groups) == [x EXCEPT !.groups = @ \intersect Range(groups)]
privLoadContacts(p, list) ==
  [p EXCEPT !.contacts = @ \o [i \in DOMAIN list |-> Contact(list[i], p.groups)]]

(* priv_roster_delete: the lists are freed and the pointers cleared; the
   version number stays. *)
priv_roster_delete(p) ==
  [loaded |-> FALSE, contacts |-> <<>>, groups |-> <<>>, gall |-> FALSE, num |-> p.num]
LiveGroups(p) == Len(p.groups) + IF p.gall THEN 1 ELSE 0
Freed(p) == LiveGroups(p) - LiveGroups(priv_roster_delete(p))

PrivContacts == [jid : PrivJids, groups : SUBSET GroupNames]
PrivLists == [groups : {<<>>} \union {<<g>> : g \in GroupNames},
              contacts : {<<>>} \union {<<x>> : x \in PrivContacts}]

priv_roster_from_xml(list) ==
  /\ "extcontacts" \in replies
  /\ replies' = replies \ {"extcontacts"}
  /\ LET emptied == IF priv_rost.loaded THEN priv_roster_delete(priv_rost) ELSE priv_rost
         grouped == privLoadGroups(emptied, list.groups)
     IN /\ priv_rost' = [privLoadContacts(grouped, list.contacts) EXCEPT !.loaded = TRUE]
        /\ groupItems' = groupItems - (IF priv_rost.loaded THEN Freed(priv_rost) ELSE 0)
                         + Len(list.groups) + 1
  /\ UNCHANGED <<sending, saved>>

(* ev_logout with a loaded private roster: the version grows, then the list
   with its number and the number alone are queued, in this order.  Until the
   connection is gone it may be drawn again. *)
SavesNumFirst == <<"num", "data">>   \* slip: the number is sent before the list
Saves == <<"data", "num">>
ev_logout_saves ==
  /\ replies # {} /\ priv_rost.loaded /\ priv_rost.num < MaxVersion
  /\ priv_rost' = [priv_rost EXCEPT !.num = @ + 1]
  /\ sending' = sending \o Saves
  /\ UNCHANGED <<groupItems, replies, saved>>

(* The server takes the next of them.  The version it saves is the one its
   number was printed from: one more for every pair still to come. *)
ServerSaves ==
  /\ sending # <<>>
  /\ sending' = Tail(sending)
  /\ saved' = [saved EXCEPT ![Head(sending)] = priv_rost.num - (Len(sending) - 1) \div 2]
  /\ UNCHANGED <<priv_rost, groupItems, replies>>

(* user_conn_kill, at any time. *)
PrivKill ==
  /\ replies # {} /\ replies' = {} /\ sending' = <<>>
  /\ priv_rost' = priv_roster_delete(priv_rost)
  /\ groupItems' = groupItems - Freed(priv_rost)
  /\ UNCHANGED saved

PrivNext ==
  \/ AskVersion \/ VersionResponse
  \/ \E list \in PrivLists : priv_roster_from_xml(list)
  \/ ev_logout_saves \/ ServerSaves
  \/ PrivKill

PrivSpec == PrivInit /\ [][PrivNext]_privVars
-----------------------------------------------------------------------------
(* A contact's list of groups points into the user's groups only, whose
   items live as long as the list. *)
ContactGroupsExist ==
  \A i \in DOMAIN priv_rost.contacts :
    priv_rost.contacts[i].groups \subseteq Range(priv_rost.groups)

(* privLoadGroups overwrites the group of all contacts that user_create made:
   of all group items at most that one is ever lost; and priv_roster_list2xml,
   called for a loaded roster only, reads the name of that group unlooked. *)
GroupsAccounted ==
  /\ groupItems - LiveGroups(priv_rost) \in {0, 1}
  /\ priv_rost.loaded => priv_rost.gall

(* A connection that dies between the two saves of ev_logout leaves the list
   one version ahead of the number, never more and never behind, however
   often it happens: the next connection starts from the number. *)
SavedVersions == saved.data - saved.num \in {0, 1}

(* The private roster, its groups and its two places on the server. *)
PrivRosterKept == ContactGroupsExist /\ GroupsAccounted /\ SavedVersions
=============================================================================
