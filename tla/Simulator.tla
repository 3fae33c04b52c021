------------------------------ MODULE Simulator ------------------------------
(***************************************************************************)
(* The core of jab_simul: simulated users, their connections, and the      *)
(* single thread that drives both.                                         *)
(*                                                                         *)
(* thread_main repeats: poll() the slots 2 .. mpfd and handle one event of *)
(* each ready one (error, else writable, else readable); let every user do *)
(* its job (log in, then fire its repeaters); now and then print the       *)
(* statistics.  Each handler runs to completion, so an action here is one  *)
(* handler call.  The order of the calls is left open: which sockets are   *)
(* ready and which repeaters are due is up to the server and the clock.    *)
(*                                                                         *)
(* A packet is only counted, never spelled out; expected replies are kept  *)
(* by kind.  Users flagged exit_after_login are not modelled here.         *)
(***************************************************************************)
EXTENDS ConnSlots, Integers, FiniteSets, Functions

CONSTANTS
  Users,        \* the simulated users (alive_users_list)
  MaxPacks,     \* MaxPacksBuffered: longest queue an unforced write joins is MaxPacks
  EventsAfter,  \* <events_after>: connections needed before events start
  MaxWriter,    \* bound: longest output queue explored
  NULL

VARIABLES
  users,              \* per user: the mutable part of user_properities
  conns,              \* per slot: the jpolld_conn, or NULL
  pollout,            \* per slot: is POLLOUT set in pfds[].events ?
  inQueues,           \* packets_created - (packets_sent + packets_canceled)
  established,        \* jpolld_conn_create_count - jpolld_conn_kill_count
  do_events,          \* may the logged-in users' repeaters fire ?
  events_start_after

eventVars == <<do_events, events_start_after>>
vars == <<slotVars, users, conns, pollout, inQueues, established, eventVars>>

Replies == {"login", "numextcontacts", "extcontacts", "roster"}

User == [state : {"CAN_LOGIN", "IS_LOGGING", "LOGGED_IN"},
         conn : Locs \union {NULL},
         stream_opened : BOOLEAN,   \* the server's stream header has arrived
         expect_kill : BOOLEAN,     \* UPF_EXPECT_KILL
         roster : BOOLEAN,          \* roster_hash is not NULL
         priv_loaded : BOOLEAN]     \* priv_rost.loaded

Conn == [user : Users,
         closing : BOOLEAN,                          \* state_CLOSING
         sstate : {"CONN_IN_PROGRESS", "CONNECTED"},
         writer : Nat,                               \* length of the output queue
         pending : SUBSET Replies,                   \* xml_need_responses_queue
         peer : {"silent", "open", "over"}]          \* what the server's stream has come to

ASSUME SimulatorConstants ==
  /\ IsFiniteSet(Users)
  /\ MaxPacks \in Nat
  /\ EventsAfter \in Nat
  /\ MaxWriter \in Nat
  /\ NULL \notin Conn
  /\ NULL \notin Locs

(* A user without a connection: as set_users_properities creates it and as *)
(* user_conn_kill leaves it.                                               *)
Idle == [state |-> "CAN_LOGIN", conn |-> NULL, stream_opened |-> FALSE,
         expect_kill |-> FALSE, roster |-> FALSE, priv_loaded |-> FALSE]

(* jpolld_conn_create, and the stream header user_connect then queues. *)
NewConn(u, sstate) ==
  [user |-> u, closing |-> FALSE, sstate |-> sstate, writer |-> 1,
   pending |-> {}, peer |-> "silent"]

Init ==
  /\ SlotsInit
  /\ users = [u \in Users |-> Idle]
  /\ conns = [loc \in Locs |-> NULL]
  /\ pollout = [loc \in Locs |-> FALSE]
  /\ inQueues = 0
  /\ established = 0
  /\ do_events = FALSE
  /\ events_start_after = EventsAfter

-----------------------------------------------------------------------------
(* Writing to a connection.                                                *)

(* A forced write always joins the queue. *)
Enqueue(c, n) == [c EXCEPT !.writer = @ + n]

(* Slip: the length of the queue is not looked at. *)
OfferAlways(c) == Enqueue(c, 1)

(* An unforced one is cancelled when the queue is already too long. *)
Offer(c) == IF c.writer > MaxPacks THEN c ELSE Enqueue(c, 1)

(* An xml_need_response is created for each reply. *)
Await(c, replies) == [c EXCEPT !.pending = @ \union replies]

(* The connection is marked to be closed, nothing more. *)
user_finish_conn(c) == [c EXCEPT !.closing = TRUE]

(* Slip: POLLOUT is not asked for. *)
BecomeNoPollout(loc, c) ==
  /\ c.writer <= MaxWriter
  /\ conns' = [conns EXCEPT ![loc] = c]
  /\ inQueues' = inQueues + (c.writer - conns[loc].writer)
  /\ UNCHANGED pollout

(* Connection loc becomes c; queued packets are counted and ask for POLLOUT. *)
Become(loc, c) ==
  /\ c.writer <= MaxWriter
  /\ conns' = [conns EXCEPT ![loc] = c]
  /\ pollout' = [pollout EXCEPT ![loc] = @ \/ c.writer > conns[loc].writer]
  /\ inQueues' = inQueues + (c.writer - conns[loc].writer)

(* Slips of the two kill functions: the user keeps its connection, or its  *)
(* roster; the queued packets are not counted; the kill is not counted;    *)
(* the slot is recycled without lowering mpfd.                             *)
KillBase(loc, idle, lost, counted) ==
  /\ Release(loc)
  /\ users' = [users EXCEPT ![conns[loc].user] = idle]
  /\ conns' = [conns EXCEPT ![loc] = NULL]
  /\ pollout' = [pollout EXCEPT ![loc] = FALSE]
  /\ inQueues' = inQueues - lost
  /\ established' = established - counted
  /\ UNCHANGED eventVars
KillKeepsConn(loc) ==
  KillBase(loc, [Idle EXCEPT !.conn = loc], conns[loc].writer, 1)
KillKeepsRoster(loc) ==
  KillBase(loc, [Idle EXCEPT !.roster = users[conns[loc].user].roster], conns[loc].writer, 1)
KillLosesPackets(loc) == KillBase(loc, Idle, 0, 1)
KillUncounted(loc) == KillBase(loc, Idle, conns[loc].writer, 0)
KillKeepsMpfd(loc) ==
  /\ loc \in fds
  /\ npfd' = <<loc>> \o npfd
  /\ fds' = fds \ {loc}
  /\ users' = [users EXCEPT ![conns[loc].user] = Idle]
  /\ conns' = [conns EXCEPT ![loc] = NULL]
  /\ pollout' = [pollout EXCEPT ![loc] = FALSE]
  /\ inQueues' = inQueues - conns[loc].writer
  /\ established' = established - 1
  /\ UNCHANGED <<mpfd, crashed, eventVars>>

(* jpolld_conn_kill and user_conn_kill, which call each other: whichever    *)
(* comes first, the slot is recycled, what was queued is cancelled (or was *)
(* sent just before), and the user is back to where it can log in.         *)
Kill(loc) ==
  /\ Release(loc)
  /\ users' = [users EXCEPT ![conns[loc].user] = Idle]
  /\ conns' = [conns EXCEPT ![loc] = NULL]
  /\ pollout' = [pollout EXCEPT ![loc] = FALSE]
  /\ inQueues' = inQueues - conns[loc].writer
  /\ established' = established - 1
  /\ UNCHANGED eventVars

-----------------------------------------------------------------------------
(* Events of the sockets.                                                  *)

(* poll() reports on the slots up to mpfd that hold a descriptor. *)
Polled(loc) == loc \in fds /\ loc <= mpfd
Ready(loc) == Polled(loc) /\ conns[loc].sstate = "CONNECTED"

(* The socket is broken: the connection dies at once. *)
handle_POLLERR(loc) == Polled(loc) /\ Kill(loc)

(* The first event on a connecting socket means that it is connected; it   *)
(* is not used for anything else.                                          *)
AsyncConnected(loc) ==
  /\ Polled(loc)
  /\ conns[loc].sstate = "CONN_IN_PROGRESS"
  /\ conns' = [conns EXCEPT ![loc].sstate = "CONNECTED"]
  /\ UNCHANGED <<slotVars, users, pollout, inQueues, established, eventVars>>

(* Slip: more packets are unlinked than were queued. *)
WriteSomeTooMany(loc, n) ==
  /\ Ready(loc) /\ pollout[loc]
  /\ conns' = [conns EXCEPT ![loc].writer = @ - n]
  /\ inQueues' = inQueues - n
  /\ UNCHANGED <<slotVars, users, pollout, established, eventVars>>

(* _jpolld_conn_write sends n whole packets, then the socket blocks. *)
WriteSome(loc, n) ==
  /\ Ready(loc) /\ pollout[loc]
  /\ n < conns[loc].writer
  /\ conns' = [conns EXCEPT ![loc].writer = @ - n]
  /\ inQueues' = inQueues - n
  /\ UNCHANGED <<slotVars, users, pollout, established, eventVars>>

(* _jpolld_conn_write meets a write error: everything is closed at once. *)
WriteError(loc) ==
  /\ Ready(loc) /\ pollout[loc]
  /\ conns[loc].writer > 0
  /\ Kill(loc)

(* Slip: a connection being closed is not killed after its last packet. *)
WriteAllNoKill(loc) ==
  /\ Ready(loc) /\ pollout[loc]
  /\ conns[loc].writer > 0
  /\ conns' = [conns EXCEPT ![loc].writer = 0]
  /\ pollout' = [pollout EXCEPT ![loc] = ~@]
  /\ inQueues' = inQueues - conns[loc].writer
  /\ UNCHANGED <<slotVars, users, established, eventVars>>

(* _jpolld_conn_write sends the whole queue: POLLOUT is toggled, and a     *)
(* connection that is being closed is killed now, as expected.             *)
WriteAll(loc) ==
  /\ Ready(loc) /\ pollout[loc]
  /\ conns[loc].writer > 0
  /\ IF conns[loc].closing
     THEN Kill(loc)
     ELSE /\ conns' = [conns EXCEPT ![loc].writer = 0]
          /\ pollout' = [pollout EXCEPT ![loc] = ~@]
          /\ inQueues' = inQueues - conns[loc].writer
          /\ UNCHANGED <<slotVars, users, established, eventVars>>

-----------------------------------------------------------------------------
(* What the server sends, read by handle_POLLIN and cut into stream events *)
(* by xstream_eat.                                                         *)

(* XSTREAM_ROOT: the server's stream header. *)
StreamRoot(loc) ==
  /\ Ready(loc) /\ conns[loc].peer = "silent"
  /\ conns' = [conns EXCEPT ![loc].peer = "open"]
  /\ users' = [users EXCEPT ![conns[loc].user].stream_opened = TRUE]
  /\ UNCHANGED <<slotVars, pollout, inQueues, established, eventVars>>

(* End of file or a read error, XSTREAM_CLOSE, XSTREAM_ERR: user_finish_conn *)
(* marks the connection, nothing more.                                     *)
StreamEnd(loc) ==
  /\ Ready(loc)
  /\ conns' = [conns EXCEPT ![loc] = user_finish_conn([@ EXCEPT !.peer = "over"])]
  /\ UNCHANGED <<slotVars, users, pollout, inQueues, established, eventVars>>

(* handle_user_node finds the reply among those the connection waits for,  *)
(* forgets it, and runs its callback.                                      *)
Node(loc) == Ready(loc) /\ conns[loc].peer = "open"
Answers(loc, reply) == Node(loc) /\ reply \in conns[loc].pending
AnsweredKept(loc, reply) == conns[loc]   \* slip: the expectation is not unlinked
Answered(loc, reply) == [conns[loc] EXCEPT !.pending = @ \ {reply}]

(* A reply of type "error" that only removes the expectation. *)
ErrorResponse(loc, reply) ==
  /\ Answers(loc, reply) /\ reply \in {"numextcontacts", "roster"}
  /\ conns' = [conns EXCEPT ![loc] = Answered(loc, reply)]
  /\ UNCHANGED <<slotVars, users, pollout, inQueues, established, eventVars>>

(* handle_login_response: the server refuses. *)
LoginRefused(loc) ==
  /\ Answers(loc, "login")
  /\ users' = [users EXCEPT ![conns[loc].user].expect_kill = TRUE]
  /\ conns' = [conns EXCEPT ![loc] = user_finish_conn(Answered(loc, "login"))]
  /\ UNCHANGED <<slotVars, pollout, inQueues, established, eventVars>>

(* handle_login_response: the user is in, and user_do_fetch_properities    *)
(* asks for its settings in two packets.                                   *)
LoginAccepted(loc) ==
  /\ Answers(loc, "login")
  /\ users' = [users EXCEPT ![conns[loc].user].state = "LOGGED_IN"]
  /\ Become(loc, Enqueue(Await(Answered(loc, "login"), {"numextcontacts", "roster"}), 2))
  /\ UNCHANGED <<slotVars, established, eventVars>>

(* handle_numextcontacts_response asks for the private roster. *)
handle_numextcontacts_response(loc) ==
  /\ Answers(loc, "numextcontacts")
  /\ Become(loc, Enqueue(Await(Answered(loc, "numextcontacts"), {"extcontacts"}), 1))
  /\ UNCHANGED <<slotVars, users, established, eventVars>>

(* handle_extcontacts loads the private roster. *)
handle_extcontacts(loc) ==
  /\ Answers(loc, "extcontacts")
  /\ users' = [users EXCEPT ![conns[loc].user].priv_loaded = TRUE]
  /\ conns' = [conns EXCEPT ![loc] = Answered(loc, "extcontacts")]
  /\ UNCHANGED <<slotVars, pollout, inQueues, established, eventVars>>

(* handle_roster_response loads the roster and announces the user. *)
handle_roster_response(loc) ==
  /\ Answers(loc, "roster")
  /\ users' = [users EXCEPT ![conns[loc].user].roster = TRUE]
  /\ Become(loc, Offer(Answered(loc, "roster")))
  /\ UNCHANGED <<slotVars, established, eventVars>>

(* A roster push (iq set without id) creates the roster if need be. *)
handle_roster_set_response(loc) ==
  /\ Node(loc)
  /\ users' = [users EXCEPT ![conns[loc].user].roster = TRUE]
  /\ UNCHANGED <<slotVars, conns, pollout, inQueues, established, eventVars>>

(* handle_presence grants a subscription; handle_message sends a message   *)
(* back to its author so that it can measure the time.                     *)
handle_presence(loc) ==
  /\ Node(loc)
  /\ Become(loc, Offer(conns[loc]))
  /\ UNCHANGED <<slotVars, users, established, eventVars>>

handle_message(loc) ==
  /\ Node(loc)
  /\ Become(loc, Offer(conns[loc]))
  /\ UNCHANGED <<slotVars, users, established, eventVars>>

-----------------------------------------------------------------------------
(* user_do_your_job and the repeaters of a user.                           *)

(* Slips: the login does not wait for the server's stream header; a user   *)
(* whose connection is expected to die is not logged in.                   *)
LoginTooEarly(u) ==
  LET loc == users[u].conn IN
  /\ users[u].state = "CAN_LOGIN" /\ loc # NULL
  /\ users' = [users EXCEPT ![u].state = "IS_LOGGING"]
  /\ Become(loc, Enqueue(Await(conns[loc], {"login"}), 1))
  /\ UNCHANGED <<slotVars, established, eventVars>>

LoginUnlessExpected(u) == ~users[u].expect_kill /\ users[u].stream_opened /\ LoginTooEarly(u)

(* An opened stream is used to log in: user_do_login_plain or _digest. *)
user_do_login(u) ==
  LET loc == users[u].conn IN
  /\ users[u].state = "CAN_LOGIN" /\ loc # NULL /\ users[u].stream_opened
  /\ users' = [users EXCEPT ![u].state = "IS_LOGGING"]
  /\ Become(loc, Enqueue(Await(conns[loc], {"login"}), 1))
  /\ UNCHANGED <<slotVars, established, eventVars>>

(* While it is logging in, the user watches connection_timeout (late);     *)
(* login_timeout makes it write a warning, and no more.                    *)
user_wait_login(u, late) ==
  LET loc == users[u].conn IN
  /\ users[u].state = "IS_LOGGING" /\ loc # NULL
  /\ IF late /\ conns[loc].sstate = "CONN_IN_PROGRESS"
     THEN /\ conns' = [conns EXCEPT ![loc] = user_finish_conn(@)]
          /\ users' = [users EXCEPT ![u].expect_kill = TRUE]
     ELSE UNCHANGED <<conns, users>>
  /\ UNCHANGED <<slotVars, pollout, inQueues, established, eventVars>>

(* ev_connect and user_connect: the socket is connected or connecting.     *)
(* (A socket that cannot be made changes nothing.)                         *)
ev_connect(u, sstate) ==
  /\ users[u].state = "CAN_LOGIN" /\ users[u].conn = NULL
  /\ IF Available = << >>
     THEN Exhaust /\ UNCHANGED <<users, conns, pollout, inQueues, established>>
     ELSE \E loc \in Locs :
            /\ Take(loc)
            /\ users' = [users EXCEPT ![u].conn = loc]
            /\ conns' = [conns EXCEPT ![loc] = NewConn(u, sstate)]
            /\ pollout' = [pollout EXCEPT ![loc] = TRUE]
            /\ inQueues' = inQueues + 1
            /\ established' = established + 1
  /\ UNCHANGED eventVars

(* The repeaters of a logged-in user wait for do_events. *)
Active(u) == users[u].state = "LOGGED_IN" /\ do_events /\ users[u].conn # NULL
SendOne(u) ==
  /\ Become(users[u].conn, Offer(conns[users[u].conn]))
  /\ UNCHANGED <<slotVars, users, established, eventVars>>

ev_send_message(u) == Active(u) /\ SendOne(u)
ev_change_status(u) == Active(u) /\ SendOne(u)
ev_del_roster(u) == Active(u) /\ users[u].roster /\ SendOne(u)

(* ev_add_roster: the request and, if it was queued, a subscription. *)
ev_add_roster(u) ==
  LET c == conns[users[u].conn]
      c1 == Offer(c)
  IN
  /\ Active(u) /\ users[u].roster
  /\ Become(users[u].conn, IF c1 = c THEN c ELSE Offer(c1))
  /\ UNCHANGED <<slotVars, users, established, eventVars>>

(* ev_send_raw_bytes fires in every state, connected or not. *)
ev_send_raw_bytes(u) ==
  /\ IF users[u].conn = NULL
     THEN UNCHANGED <<conns, pollout, inQueues>>
     ELSE Become(users[u].conn, Offer(conns[users[u].conn]))
  /\ users' = [users EXCEPT ![u].expect_kill = TRUE]
  /\ UNCHANGED <<slotVars, established, eventVars>>

(* ev_kill_connection fires in every state. *)
ev_kill_connection(u) == users[u].conn # NULL /\ Kill(users[u].conn)

(* ev_logout queues the private roster, if loaded, and </stream:stream>;   *)
(* the connection is to be killed when all of it is sent.                  *)
ev_logout(u) ==
  LET loc == users[u].conn
      packets == IF users[u].priv_loaded THEN 3 ELSE 1
  IN
  /\ Active(u)
  /\ Become(loc, user_finish_conn(Enqueue(conns[loc], packets)))
  /\ UNCHANGED <<slotVars, users, established, eventVars>>

(* stat_printf starts the events once enough connections are established. *)
stat_printf ==
  /\ established > events_start_after
  /\ do_events' = TRUE
  /\ events_start_after' = -1
  /\ UNCHANGED <<slotVars, users, conns, pollout, inQueues, established>>

-----------------------------------------------------------------------------

SocketEvent(loc) ==
  \/ handle_POLLERR(loc)
  \/ AsyncConnected(loc)
  \/ \E n \in 0 .. MaxWriter : WriteSome(loc, n)
  \/ WriteError(loc)
  \/ WriteAll(loc)

StreamEvent(loc) ==
  \/ StreamRoot(loc)
  \/ StreamEnd(loc)
  \/ \E reply \in Replies : ErrorResponse(loc, reply)
  \/ LoginRefused(loc)
  \/ LoginAccepted(loc)
  \/ handle_numextcontacts_response(loc)
  \/ handle_extcontacts(loc)
  \/ handle_roster_response(loc)
  \/ handle_roster_set_response(loc)
  \/ handle_presence(loc)
  \/ handle_message(loc)

UserEvent(u) ==
  \/ user_do_login(u)
  \/ \E late \in BOOLEAN : user_wait_login(u, late)
  \/ \E sstate \in {"CONN_IN_PROGRESS", "CONNECTED"} : ev_connect(u, sstate)
  \/ ev_send_message(u)
  \/ ev_change_status(u)
  \/ ev_del_roster(u)
  \/ ev_add_roster(u)
  \/ ev_send_raw_bytes(u)
  \/ ev_kill_connection(u)
  \/ ev_logout(u)

Next ==
  /\ ~crashed
  /\ \/ \E loc \in Locs : SocketEvent(loc)
     \/ \E loc \in Locs : StreamEvent(loc)
     \/ \E u \in Users : UserEvent(u)
     \/ stat_printf

Spec == Init /\ [][Next]_vars

-----------------------------------------------------------------------------
(* Safety.                                                                 *)

(* Types of the simulator's state. *)
TypeOK ==
  /\ SlotsTypeOK
  /\ users \in [Users -> User]
  /\ conns \in [Locs -> Conn \union {NULL}]
  /\ pollout \in [Locs -> BOOLEAN]
  /\ inQueues \in Int
  /\ established \in Int
  /\ do_events \in BOOLEAN
  /\ events_start_after \in Int

Live == {loc \in Locs : conns[loc] # NULL}

(* user->conn, conn->user, conns[] and pfds[] always agree, although       *)
(* jpolld_conn_kill and user_conn_kill undo the links while calling each   *)
(* other: no user keeps a freed connection, no connection a wrong user.    *)
Linked ==
  /\ fds = Live
  /\ \A loc \in Live : users[conns[loc].user].conn = loc
  /\ \A u \in Users : users[u].conn # NULL =>
       users[u].conn \in Live /\ conns[users[u].conn].user = u

(* POLLOUT is asked for exactly while packets wait: _jpolld_conn_write     *)
(* toggles it (^=), and a toggle too many would leave the queue unsent or  *)
(* make the loop spin.                                                     *)
PolloutIffQueued ==
  \A loc \in Locs : pollout[loc] <=> (loc \in Live /\ conns[loc].writer > 0)

(* A user that is logging in or logged in has a connected stream, opened   *)
(* by the server: user_do_adddel_roster_item and the reply handlers        *)
(* dereference user->conn without looking.                                 *)
LoggedOnStream ==
  \A u \in Users :
    /\ users[u].state # "CAN_LOGIN" => users[u].stream_opened
    /\ users[u].stream_opened =>
         /\ users[u].conn \in Live
         /\ conns[users[u].conn].sstate = "CONNECTED"
         /\ conns[users[u].conn].peer # "silent"

(* A reply is only expected in the phase whose callback can handle it:     *)
(* a late login reply cannot meet a user that logs in anew, and no setting *)
(* is fetched before the login is accepted.                                *)
RepliesFitState ==
  \A loc \in Live :
    LET state == users[conns[loc].user].state IN
    /\ state = "CAN_LOGIN" => conns[loc].pending = {}
    /\ state = "IS_LOGGING" => conns[loc].pending \subseteq {"login"}
    /\ state = "LOGGED_IN" => "login" \notin conns[loc].pending

(* What belongs to a session ends with it: the rosters are deleted by the  *)
(* kill whatever killed the connection, and never loaded without one.      *)
NothingOutlivesConn ==
  \A u \in Users : users[u].conn = NULL =>
    users[u] = [Idle EXCEPT !.expect_kill = users[u].expect_kill]

(* "in queues" on the screen, packets created - (sent + canceled), is what *)
(* really waits in the queues of the connections.                          *)
Queued == [loc \in Locs |-> IF loc \in Live THEN conns[loc].writer ELSE 0]
PacketsAccounted == inQueues = SumFunction(Queued)

(* "established", connections created - killed, counts the live ones: the  *)
(* events start on this count.                                             *)
EstablishedIsLive == established = Cardinality(fds)

CountersAgree == PacketsAccounted /\ EstablishedIsLive

(* The loop meets a NULL npfd only with at least MAX_PFDS users: recycling *)
(* keeps a slot for every other user.                                      *)
CrashNeedsTooManyUsers == crashed => Cardinality(Users) >= MaxPfds

(* A queue longer than MaxPacksBuffered takes no further traffic of the    *)
(* simulation, only the protocol's own packets: the login, the two fetches *)
(* and the logout.                                                         *)
OverfullQueueOnlyForced ==
  [][\A loc \in Live :
       (conns[loc].writer > MaxPacks /\ loc \in Live'
          /\ conns'[loc].writer > conns[loc].writer)
       => \/ users'[conns[loc].user].state # users[conns[loc].user].state
          \/ conns'[loc].pending # conns[loc].pending
          \/ conns'[loc].closing]_vars

(* The phases of the abstract session, as the fields of a user show them. *)
Phase(u) ==
  CASE users[u].conn = NULL -> "offline"
    [] users[u].conn # NULL /\ users[u].state = "IS_LOGGING" -> "logging"
    [] users[u].conn # NULL /\ users[u].state = "LOGGED_IN" -> "online"
    [] OTHER -> IF users[u].stream_opened THEN "opened" ELSE "dialing"

Session == INSTANCE Sessions WITH
  phase <- [u \in Users |-> Phase(u)], Capacity <- MaxPfds - 1

(* The handlers together lead every user through its session in order. *)
SessionSpec == Session!Spec

-----------------------------------------------------------------------------
(* Liveness.                                                               *)

(* The loop runs for ever: it gives every user its turn and prints the     *)
(* statistics.  Of the network only this is assumed: a server that leaves  *)
(* the connection alone goes on reading, so that a queue is sent at last.  *)
Fairness ==
  /\ \A u \in Users : WF_vars(~crashed /\ user_do_login(u))
  /\ \A u \in Users : WF_vars(~crashed /\ user_wait_login(u, TRUE))
  /\ \A loc \in Locs : WF_vars(~crashed /\ WriteAll(loc))
  /\ WF_vars(~crashed /\ stat_printf)

FairSpec == Spec /\ Fairness

Closing(loc) == loc \in Live /\ conns[loc].closing

(* A connection marked CLOSING with packets still queued, as a logout      *)
(* leaves it, is killed once they are sent.                                *)
FlushedThenClosed ==
  \A loc \in Locs :
    (Closing(loc) /\ conns[loc].writer > 0) ~> (loc \notin Live)

(* An opened stream is used: user_do_your_job signs the user on. *)
SessionFair == Session!FairSpec

(* stat_printf goes by a difference of two counters that the connections   *)
(* keep, never by the connections themselves.  Still the events start no   *)
(* earlier than with more than EventsAfter living connections at once,     *)
(* whatever was made and killed before, and start when so many stay.       *)
EventsStart ==
  /\ [][do_events' # do_events => Cardinality(fds) > EventsAfter]_vars
  /\ ([](Cardinality(fds) > EventsAfter)) ~> do_events
-----------------------------------------------------------------------------
(* What comments of the program say and the program does not do.           *)

(* user_connect tests for a NULL npfd, "a grave error", after it has       *)
(* already read t->npfd->pos (jab_simul-user.c:825 and :836).              *)
NoNullNpfd == ~crashed

(* "Only now do we free the structure, when all is sent, if closing was    *)
(* wanted" (_jpolld_conn_write): a connection to be closed is closed.  One *)
(* whose queue is empty when it is marked has no POLLOUT to wait for.      *)
ClosingIsKilled == \A loc \in Locs : Closing(loc) ~> (loc \notin Live)

(* connection_timeout, "the longest time to wait for a connection": the    *)
(* user gives up connecting.                                               *)
ConnectingEnds ==
  \A loc \in Locs :
    (loc \in Live /\ conns[loc].sstate = "CONN_IN_PROGRESS")
      ~> (loc \in Live => conns[loc].sstate = "CONNECTED")
=============================================================================
