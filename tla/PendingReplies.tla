--------------------------- MODULE PendingReplies ----------------------------
(***************************************************************************)
(* How one simulated user recognises the answers of the server, over all   *)
(* its connections: makeJCOM_ID numbers the requests with the user's       *)
(* tmpid, xml_need_response_node_create puts an expectation at the head of *)
(* the connection's list, xml_need_response_node_get takes out the first   *)
(* expectation with the identifier of an answer, and handle_user_node      *)
(* calls its callback.  Simulator keeps the same list by kind of reply;    *)
(* here are the identifiers, cut to the 9 characters of an idbuf[10], and  *)
(* the order of the list.                                                  *)
(*                                                                         *)
(* Every request carries its number in the history (serial); the list is   *)
(* the set of its expectations, the newest one in front.  The server is    *)
(* external: it answers the requests it was sent in any order.             *)
(***************************************************************************)
EXTENDS Integers, FiniteSets

CONSTANTS
  IdBase,     \* 10: base of the digits snprintf writes
  IdLimit,    \* 10000: from this number on, a digit of "JCOM_%u" is cut off
  MaxTmpid,   \* bound: requests numbered by the runs
  MaxWaiting  \* bound: expectations of one connection in the runs

ASSUME IdAssumption == IdBase \in Nat \ {0, 1} /\ IdLimit \in Nat \ {0}

VARIABLES
  tmpid,      \* user->tmpid, which no connection resets
  expected,   \* conn->xml_need_responses_queue
  asked,      \* history: the requests the server has not answered yet
  serial,     \* history: number of requests made so far
  talk,       \* how far the connection has come; "saved": a logout saved the private roster
  loaded,     \* user->priv_rost.loaded
  matched     \* history: the last answer and the expectation taken out for it

pendingVars == <<tmpid, expected, asked, serial, talk, loaded, matched>>

(* snprintf(buf, 10, "JCOM_%u", n) keeps the first digits of n only. *)
Cut(n) ==
  IF n < IdLimit THEN n
  ELSE LET k == CHOOSE k \in 1..n :
                  n \div IdBase ^ k < IdLimit /\ n \div IdBase ^ (k - 1) >= IdLimit
       IN n \div IdBase ^ k

makeJCOM_ID == [name |-> "JCOM", number |-> Cut(tmpid)]
Named(id) == [name |-> id, number |-> 0]

Ids == [name : {"JCOM", "ignored", "numextcontacts", "usersettings", "doroster_0", "extcontacts"},
        number : Nat]
Callbacks == {"login", "add", "del", "numextcontacts", "roster", "extcontacts", "NULL"}
Requests == [serial : Nat, id : Ids, callback : Callbacks]

NoMatch == [asked |-> {}, found |-> {}]

PendingInit ==
  /\ tmpid = 0 /\ serial = 0
  /\ expected = {} /\ asked = {}
  /\ talk = "closed" /\ loaded = FALSE
  /\ matched = NoMatch

(* A request with its number in the history; user_store_xml_info puts the
   same record in front of the list. *)
Request(n, id, callback) == [serial |-> serial + n, id |-> id, callback |-> callback]

(* The stream opens and user_do_login_plain or _digest signs on: a forced
   write, and its expectation. *)
user_do_login ==
  /\ talk = "closed" /\ tmpid < MaxTmpid
  /\ LET r == Request(1, makeJCOM_ID, "login")
     IN expected' = expected \union {r} /\ asked' = asked \union {r}
  /\ tmpid' = tmpid + 1 /\ serial' = serial + 1
  /\ talk' = "logging"
  /\ UNCHANGED <<loaded, matched>>

(* The list in front of which a node stands holds every older one. *)
FirstOfAll(id) == {r \in expected : \A q \in expected : q.serial <= r.serial}   \* slip: the head, unseen
FirstWith(id) == {r \in expected : r.id = id /\ \A q \in expected : q.id = id => q.serial <= r.serial}

(* handle_user_node, first half: the answer to request r takes the first
   expectation with its identifier out of the list, if there is one. *)
Take(r) == expected \ FirstWith(r.id)

Answer(r, more) ==
  /\ r \in asked
  /\ expected' = Take(r) \union more
  /\ asked' = (asked \ {r}) \union more
  /\ matched' = [asked |-> {r}, found |-> FirstWith(r.id)]

Called(r) == {q.callback : q \in FirstWith(r.id)}

(* handle_login_response: refused, or logged in; then
   user_do_fetch_properities asks for four things with fixed identifiers. *)
LoginRefused(r) ==
  /\ Called(r) = {"login"} /\ Answer(r, {})
  /\ talk' = "refused"
  /\ UNCHANGED <<tmpid, serial, loaded>>

user_do_fetch_properities ==
  {Request(1, Named("ignored"), "NULL"), Request(2, Named("numextcontacts"), "numextcontacts"),
   Request(3, Named("usersettings"), "NULL"), Request(4, Named("doroster_0"), "roster")}

LoginAccepted(r) ==
  /\ Called(r) = {"login"} /\ Answer(r, user_do_fetch_properities)
  /\ talk' = "in"
  /\ serial' = serial + 4
  /\ UNCHANGED <<tmpid, loaded>>

(* handle_numextcontacts_response asks for the private roster, unless the
   server's answer is an error. *)
NumextcontactsResponse(r) ==
  /\ Called(r) = {"numextcontacts"}
  /\ \/ Answer(r, {Request(1, Named("extcontacts"), "extcontacts")}) /\ serial' = serial + 1
     \/ Answer(r, {}) /\ UNCHANGED serial
  /\ UNCHANGED <<tmpid, talk, loaded>>

(* handle_extcontacts takes the private roster over, whatever the answer
   says.  The other callbacks ask for nothing, and neither does an answer
   that finds no expectation. *)
OtherResponse(r) ==
  /\ Called(r) \intersect {"login", "numextcontacts"} = {}
  /\ Answer(r, {})
  /\ loaded' = (loaded \/ Called(r) = {"extcontacts"})
  /\ UNCHANGED <<tmpid, serial, talk>>

(* UP_LOGGED_IN lasts until the connection is killed, so a repeater may call
   after ev_logout too, and call ev_logout again. *)
LoggedIn == talk \in {"in", "saved"}

(* user_do_adddel_roster_item: the expectation is stored, then the unforced
   write may be cancelled because the queue is full. *)
user_do_adddel_roster_item(del, cancelled) ==
  /\ LoggedIn /\ tmpid < MaxTmpid /\ Cardinality(expected) < MaxWaiting
  /\ LET r == Request(1, makeJCOM_ID, IF del THEN "del" ELSE "add")
     IN /\ expected' = expected \union {r}
        /\ asked' = IF cancelled THEN asked ELSE asked \union {r}
  /\ tmpid' = tmpid + 1 /\ serial' = serial + 1
  /\ UNCHANGED <<talk, loaded, matched>>

(* user_do_send_message takes an identifier, and sends the message without it. *)
MessageTakesId ==
  /\ LoggedIn /\ tmpid < MaxTmpid
  /\ tmpid' = tmpid + 1
  /\ UNCHANGED <<expected, asked, serial, talk, loaded, matched>>

(* ev_logout: only a loaded private roster is saved, by two sets that
   query_wpmsg_set_header numbers and whose answers nothing expects.  The
   connection is to be closed, and lives on until it is flushed. *)
ev_logout ==
  /\ LoggedIn
  /\ \/ /\ loaded /\ tmpid + 1 < MaxTmpid
        /\ asked' = asked \union {Request(1, makeJCOM_ID, "NULL"),
                                  Request(2, [name |-> "JCOM", number |-> Cut(tmpid + 1)], "NULL")}
        /\ tmpid' = tmpid + 2 /\ serial' = serial + 2
        /\ talk' = "saved"
     \/ ~loaded /\ UNCHANGED <<tmpid, serial, asked, talk>>
  /\ UNCHANGED <<expected, loaded, matched>>

(* jpolld_conn_kill, at any time, takes the list with the connection. *)
Kill_list ==
  talk' = "closed" /\ expected' = {} /\ asked' = {} /\ loaded' = FALSE
ConnectionLost ==
  /\ talk # "closed" /\ Kill_list
  /\ UNCHANGED <<tmpid, serial, matched>>

PendingNext ==
  \/ user_do_login
  \/ \E r \in asked :
       LoginRefused(r) \/ LoginAccepted(r) \/ NumextcontactsResponse(r) \/ OtherResponse(r)
  \/ \E del, cancelled \in BOOLEAN : user_do_adddel_roster_item(del, cancelled)
  \/ MessageTakesId
  \/ ev_logout
  \/ ConnectionLost

PendingSpec == PendingInit /\ [][PendingNext]_pendingVars
-----------------------------------------------------------------------------
(* The identifiers, the expectations and the history keep their types, and
   no two requests have one serial number. *)
PendingTypeOK ==
  /\ tmpid \in Nat /\ serial \in Nat
  /\ expected \subseteq Requests /\ asked \subseteq Requests
  /\ \A r \in expected \union asked : r.serial <= serial
  /\ talk \in {"closed", "logging", "refused", "in", "saved"} /\ loaded \in BOOLEAN

(* While the numbers are short enough not to be cut, the expectation that
   handle_user_node takes out for an answer is the one that was stored with
   its request, so no other request's callback is run. *)
RightCallback ==
  tmpid <= IdLimit => matched.found \subseteq matched.asked

(* Past the limit the callbacks may be exchanged, but among requests with
   the same identifier only: until a logout saves the private roster by two
   sets whose answers nothing expects, every outstanding request is still
   covered by an expectation of its own, so that handle_user_node never takes
   an answer for something unknown. *)
WithId(S, id) == {r \in S : r.id = id}
EveryAnswerExpected ==
  talk # "saved" =>
    \A r \in asked : Cardinality(WithId(expected, r.id)) >= Cardinality(WithId(asked, r.id))

(* The answer to the login is handled by handle_login_response however often
   the user connected: its expectation is alone in the list. *)
LoginAlone ==
  talk = "logging" =>
    /\ Cardinality(expected) = 1
    /\ \A r \in expected : r.callback = "login"
    /\ asked \subseteq expected

(* Past the limit an answer may be handled for another request, but never by
   the callback of another kind: only the replies to an added and to a
   deleted contact, whose callbacks feed two statistics, can be exchanged. *)
Kind(callback) == IF callback \in {"add", "del"} THEN "adddel" ELSE callback
SameKind ==
  \A q \in matched.found, r \in matched.asked :
    Kind(r.callback) \in {Kind(q.callback), "NULL"}

(* What handle_user_node relies on when it looks an answer up by its
   identifier alone. *)
AnswersMatched == RightCallback /\ EveryAnswerExpected /\ LoginAlone /\ SameKind
=============================================================================
