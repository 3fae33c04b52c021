----------------------------- MODULE MessageEcho -----------------------------
(***************************************************************************)
(* The messages of the simulated users, and handle_message: a message      *)
(* carries the names of its sender and of its addressee in its text        *)
(* (prepend_with_debug_info); who gets it sends it back, marked forwarded, *)
(* and who gets that one measures the time.  The counters feed the         *)
(* statistics and the difference that thread_main watches.                 *)
(*                                                                         *)
(* The server is external: it delivers a message, keeps it while the       *)
(* addressee is away and delivers it as an offline one, bounces it as an   *)
(* error, unless it is one, or loses it.                                   *)
(***************************************************************************)
EXTENDS Integers, FiniteSets

CONSTANTS
  People,       \* the users
  MaxMessages   \* bound: messages sent in a run

(* handle_message takes the administrator's messages for nobody else's. *)
ASSUME EchoAssumption == MaxMessages \in Nat /\ "Administrator" \notin People

VARIABLES
  network,   \* the messages on their way
  measured,  \* history: serials measured by add_mesg_stat, and by whom
  echoed,    \* history: serials sent back, and how often
  misnamed,  \* history: handle_message has found a bad sender or receiver
  gone,      \* history: messages lost by the server, echoes cancelled by a full queue,
             \* and messages that were counted without a text
  counts     \* the counters of the program

echoVars == <<network, measured, echoed, misnamed, gone, counts>>

Person == People \union {"Administrator"}
Message == [serial : 0..MaxMessages, by : Person, for : People,   \* by and for are in the text
            from : Person, to : Person, error : BOOLEAN, forwarded : BOOLEAN, offline : BOOLEAN]

EchoInit ==
  /\ network = {}
  /\ measured = {} /\ echoed = [n \in 1..MaxMessages |-> 0]
  /\ misnamed = FALSE /\ gone = 0
  /\ counts = [sent |-> 0, forwarded |-> 0, received |-> 0, offline |-> 0, admin |-> 0]

CountSent(n) == [counts EXCEPT !.sent = @ + n]

(* ev_send_message with a text, counted when it has been put into the queue. *)
user_do_send_message(u, v) ==
  /\ counts.sent < MaxMessages
  /\ counts' = CountSent(1)
  /\ network' = network \union
       {[serial |-> counts'.sent, by |-> u, for |-> v, from |-> u, to |-> v,
         error |-> FALSE, forwarded |-> FALSE, offline |-> FALSE]}
  /\ UNCHANGED <<measured, echoed, misnamed, gone>>

(* Without one, of a file that cannot be opened or an event that names none,
   user_do_send_message reports it and gives 0, as if it had been put there;
   the message is counted, and nothing is sent. *)
SendWithoutText ==
  /\ counts.sent < MaxMessages
  /\ counts' = CountSent(1) /\ gone' = gone + 1
  /\ UNCHANGED <<network, measured, echoed, misnamed>>

(* jutil_tofrom *)
ToFrom(m) == [m EXCEPT !.from = m.to, !.to = m.from]

(* The names in the text are those of the first sender and its addressee:
   exchanged when the message comes back, whether as an error or as an echo,
   and as they were when both are true. *)
ExpectedNames(m) == IF m.error # m.forwarded THEN <<m.for, m.by>> ELSE <<m.by, m.for>>

(* The message goes back, unless the queue is full; it is counted in any case. *)
Echo(m, cancelled) ==
  /\ echoed' = [echoed EXCEPT ![m.serial] = @ + 1]
  /\ network' = (network \ {m}) \union IF cancelled THEN {} ELSE {[ToFrom(m) EXCEPT !.forwarded = TRUE]}
  /\ gone' = IF cancelled THEN gone + 1 ELSE gone
  /\ UNCHANGED measured

Measure(m) ==
  /\ measured' = measured \union {<<m.serial, m.to>>}
  /\ network' = network \ {m}
  /\ UNCHANGED <<echoed, gone>>

Ignore(m) == network' = network \ {m} /\ UNCHANGED <<measured, echoed, gone>>

(* Not from the administrator, and with debug information. *)
CountForwarded(m, cancelled) == 1
Handle(m, cancelled) ==
  /\ misnamed' = (misnamed \/ ExpectedNames(m) # <<m.from, m.to>>)
  /\ counts' = [counts EXCEPT !.received = @ + 1, !.offline = IF m.offline THEN @ + 1 ELSE @,
                              !.forwarded = IF m.offline \/ m.forwarded THEN @ ELSE @ + CountForwarded(m, cancelled)]
  /\ IF m.offline THEN Ignore(m) ELSE IF m.forwarded THEN Measure(m) ELSE Echo(m, cancelled)

handle_message(m, cancelled) ==
  /\ m \in network
  /\ m.from # "Administrator" /\ Handle(m, cancelled)

AdminMessage(m) ==
  /\ m \in network /\ m.from = "Administrator"
  /\ counts' = [counts EXCEPT !.received = @ + 1, !.admin = @ + 1]
  /\ Ignore(m) /\ UNCHANGED misnamed

(* External: the administrator's broadcast, and what the server does. *)
Broadcast(v) ==
  /\ counts.admin = 0 /\ ~ \E m \in network : m.from = "Administrator"
  /\ network' = network \union
       {[serial |-> 0, by |-> "Administrator", for |-> v, from |-> "Administrator", to |-> v,
         error |-> FALSE, forwarded |-> FALSE, offline |-> FALSE]}
  /\ UNCHANGED <<measured, echoed, misnamed, gone, counts>>
ServerActs(m) ==
  /\ m \in network /\ m.from # "Administrator" /\ ~m.offline
  /\ \/ ~m.error /\ network' = (network \ {m}) \union {[ToFrom(m) EXCEPT !.error = TRUE]} /\ UNCHANGED gone
     \/ network' = (network \ {m}) \union {[m EXCEPT !.offline = TRUE]} /\ UNCHANGED gone
     \/ network' = network \ {m} /\ gone' = gone + 1
  /\ UNCHANGED <<measured, echoed, misnamed, counts>>

EchoNext ==
  \/ \E u, v \in People : user_do_send_message(u, v)
  \/ SendWithoutText
  \/ \E m \in network, cancelled \in BOOLEAN : handle_message(m, cancelled)
  \/ \E m \in network : AdminMessage(m) \/ ServerActs(m)
  \/ \E v \in People : Broadcast(v)

EchoSpec == EchoInit /\ [][EchoNext]_echoVars
-----------------------------------------------------------------------------
(* However a message comes, by way of an echo, an error, an error of an echo
   or the offline store, handle_message finds in its text the names of who
   sent it here and of who has got it. *)
NamesAgree == ~misnamed

(* No message is echoed for ever: one echo, and one measurement. *)
EchoedOnce ==
  /\ \A n \in DOMAIN echoed : echoed[n] <= 1
  /\ \A a, b \in measured : a[1] = b[1] => a = b
  /\ \A a \in measured : echoed[a[1]] = 1

(* The difference that thread_main keeps in its statistics, messages and
   echoes sent minus received, is the number of messages on their way, and
   of those that will never come: lost ones, and those that were counted but
   never written, echoes into a full queue and messages without a text. *)
DifferenceExplained ==
  counts.sent + counts.forwarded - (counts.received - counts.admin)
    = Cardinality({m \in network : m.from # "Administrator"}) + gone
=============================================================================
