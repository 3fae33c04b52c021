------------------------------ MODULE Repeater ------------------------------
(***************************************************************************)
(* The repeaters of one user: timed events with a frequency, a counter and *)
(* a state of the user in which they work.  At each of the user's turns    *)
(* user_handle_repeater_queue walks through the list and calls the         *)
(* handlers that are due; a handler may change the state of the user under *)
(* those that follow.                                                      *)
(*                                                                         *)
(* One step is one element of the list.  Between the turns the clock, the  *)
(* server and the other users act.  The clock is absolute, in units of     *)
(* some microseconds, and started long after the epoch; NEVER did not.     *)
(***************************************************************************)
EXTENDS Integers, Sequences

CONSTANTS
  N,            \* number of repeaters in events_queue
  Frequencies,  \* configured frequencies; negative: none given
  Kinds,        \* the kinds of events that are configured
  Counters,     \* configured counters; negative: no limit
  Grain,        \* the 10000 of frequency/10000
  HalfSpread,   \* EVENTS_FREQ_DISPERTION*50, half of the range of the deviation
  NEVER,        \* 0xFFFFFFFF
  Start,        \* the time when the simulator starts
  MaxNow        \* bound: the last time explored

(* "session" stands for the handlers that work on a session: messages,     *)
(* status, roster, logout.  An event whose name is not known has none.     *)
AllKinds == {"connect", "kill_connection", "send_raw_bytes", "session", "unknown"}

ASSUME RepeaterConstants ==
  /\ N \in Nat \ {0}
  /\ Kinds \subseteq AllKinds
  /\ Frequencies \subseteq Int /\ Counters \subseteq Int
  /\ Grain \in Nat /\ HalfSpread \in Nat \ {0} /\ HalfSpread < Grain
  /\ NEVER \in Nat /\ Start \in Nat \ {0} /\ MaxNow \in Nat
  /\ NEVER < Start

VARIABLES
  reps,       \* events_queue
  sooner,     \* sooner_activation_tm, the remembered nearest activation
  cursor,     \* cur_er: the repeater looked at next, 0 between the turns
  now,        \* curtime
  state,      \* user->state
  conn,       \* user->conn is not NULL
  do_events,
  called,     \* history: the repeater this step has called, 0 if none
  last,       \* history: when each repeater was last called, 0 if never
  calls       \* history: how often each limited repeater was called

userVars == <<state, conn, do_events>>
repVars == <<reps, sooner, cursor, last, calls>>
allVars == <<repVars, userVars, now, called>>

Index == 1 .. N

States == {"CAN_LOGIN", "IS_LOGGING", "LOGGED_IN"}

Rep == [frequency : Frequencies, counter : Int, limit : Counters, kind : Kinds,
        activation_tm : Int]

(* create_repeater_from_xml, with the first activation copy_repeaters gives *)
(* to each user's copy.                                                     *)
FirstActivations(f) == IF f > 0 THEN Start .. Start + f - 1 ELSE {Start + 1}
Configured(frequency, limit, kind) ==
  {[frequency |-> frequency, counter |-> limit, limit |-> limit, kind |-> kind,
    activation_tm |-> tm] : tm \in FirstActivations(frequency)}

RInit ==
  /\ reps \in [Index -> UNION {Configured(f, c, k) : f \in Frequencies, c \in Counters, k \in Kinds}]
  /\ sooner = 0
  /\ cursor = 0
  /\ now = Start
  /\ state = "CAN_LOGIN" /\ conn = FALSE
  /\ do_events = FALSE
  /\ called = 0
  /\ last = [r \in Index |-> 0]
  /\ calls = [r \in Index |-> 0]

-----------------------------------------------------------------------------
(* What happens between two turns of the user.                             *)

Elsewhere == cursor = 0 /\ called' = 0 /\ UNCHANGED repVars

Tick == Elsewhere /\ now < MaxNow /\ now' = now + 1 /\ UNCHANGED userVars

(* The user logs in over its connection; the connection may die. *)
SignOn ==
  /\ Elsewhere
  /\ conn
  /\ \/ state = "CAN_LOGIN" /\ state' = "IS_LOGGING"
     \/ state = "IS_LOGGING" /\ state' = "LOGGED_IN"
  /\ UNCHANGED <<conn, do_events, now>>

ConnDies ==
  /\ Elsewhere
  /\ conn
  /\ conn' = FALSE /\ state' = "CAN_LOGIN"
  /\ UNCHANGED <<do_events, now>>

EventsStart ==
  /\ Elsewhere
  /\ do_events' = TRUE
  /\ UNCHANGED <<state, conn, now>>

-----------------------------------------------------------------------------
(* A turn of the user.                                                     *)

(* The list is searched when the remembered activation has come. *)
BeginTurn ==
  /\ cursor = 0
  /\ sooner <= now
  /\ sooner' = NEVER
  /\ cursor' = 1
  /\ called' = 0
  /\ UNCHANGED <<reps, userVars, now, last, calls>>

Due(r) == reps[r].activation_tm # 0 /\ reps[r].activation_tm <= now

(* The deviation: a number from -HalfSpread below HalfSpread grains. *)
Deviations(f) == {(f \div Grain) * d : d \in (-HalfSpread) .. (HalfSpread - 1)}

(* Slip: the next activation is counted from the last one. *)
NextFromActivation(r) ==
  IF reps[r].frequency < 0 THEN {reps[r].activation_tm}
  ELSE {reps[r].activation_tm + reps[r].frequency + d : d \in Deviations(reps[r].frequency)}

(* A due repeater is next active one frequency from now, more or less; one *)
(* without a frequency stays as it is.                                     *)
NextActivations(r) ==
  IF reps[r].frequency < 0 THEN {reps[r].activation_tm}
  ELSE {now + reps[r].frequency + d : d \in Deviations(reps[r].frequency)}

(* user_state of each kind of repeater; do_events holds back the sessions. *)
InState(r) ==
  \/ reps[r].kind \in {"send_raw_bytes", "kill_connection"}
  \/ reps[r].kind = "connect" /\ state = "CAN_LOGIN"
  \/ reps[r].kind = "session" /\ state = "LOGGED_IN" /\ do_events

MayCall(r) == InState(r) /\ reps[r].counter # 0

(* Slip: a repeater that was due uses up its counter, called or not. *)
LeftEager(r, runs) == IF reps[r].counter > 0 THEN reps[r].counter - 1 ELSE reps[r].counter

(* The counter of a repeater goes down when it has been called. *)
Left(r, runs) ==
  IF runs /\ reps[r].counter > 0 THEN reps[r].counter - 1 ELSE reps[r].counter

(* Slip: a killed connection leaves the user in its state. *)
HandlerKeepsState(kind) ==
  \/ kind = "connect" /\ conn' \in {TRUE, conn} /\ UNCHANGED state
  \/ kind = "kill_connection" /\ conn' = FALSE /\ UNCHANGED state
  \/ kind \in {"send_raw_bytes", "session"} /\ UNCHANGED <<conn, state>>

(* What a handler does to the user: ev_connect connects, or fails;         *)
(* ev_kill_connection throws a connected user back.                        *)
Handler(kind) ==
  \/ kind = "connect" /\ conn' \in {TRUE, conn} /\ UNCHANGED state
  \/ /\ kind = "kill_connection"
     /\ conn' = FALSE
     /\ state' = IF conn THEN "CAN_LOGIN" ELSE state
  \/ kind \in {"send_raw_bytes", "session"} /\ UNCHANGED <<conn, state>>

(* Slip: the time of the last repeater is remembered, not the nearest. *)
RememberLast(tm) == tm
Remember(tm) == IF sooner > tm THEN tm ELSE sooner

(* Slip: the walk does not stop at the end of the list. *)
AdvancePastEnd == cursor' = cursor + 1
Advance == cursor' = IF cursor = N THEN 0 ELSE cursor + 1

PassOver ==
  /\ cursor # 0 /\ ~Due(cursor)
  /\ sooner' = Remember(reps[cursor].activation_tm)
  /\ called' = 0
  /\ Advance
  /\ UNCHANGED <<reps, userVars, now, last, calls>>

Reschedule(runs) ==
  \E tm \in NextActivations(cursor) :
    /\ reps' = [reps EXCEPT ![cursor].activation_tm = tm, ![cursor].counter = Left(cursor, runs)]
    /\ sooner' = Remember(tm)

HoldBack ==
  /\ cursor # 0 /\ Due(cursor) /\ ~MayCall(cursor)
  /\ Reschedule(FALSE)
  /\ called' = 0
  /\ Advance
  /\ UNCHANGED <<userVars, now, last, calls>>

CallHandler ==
  /\ cursor # 0 /\ Due(cursor) /\ MayCall(cursor)
  /\ Reschedule(TRUE)
  /\ Handler(reps[cursor].kind)
  /\ called' = cursor
  /\ last' = [last EXCEPT ![cursor] = now]
  /\ calls' = [calls EXCEPT ![cursor] = IF reps[cursor].limit < 0 THEN @ ELSE @ + 1]
  /\ Advance
  /\ UNCHANGED <<do_events, now>>

Turn == BeginTurn \/ PassOver \/ HoldBack \/ CallHandler

RNext == Tick \/ SignOn \/ ConnDies \/ EventsStart \/ Turn

RSpec == RInit /\ [][RNext]_allVars

(* The loop gives the user its turn for ever, and walks its list to the end. *)
RFairSpec == RSpec /\ WF_allVars(Turn)

-----------------------------------------------------------------------------

(* Types of the state of the repeaters. *)
RepeaterTypeOK ==
  /\ reps \in [Index -> Rep]
  /\ sooner \in Int /\ now \in Nat
  /\ cursor \in 0 .. N /\ called \in 0 .. N
  /\ state \in States /\ conn \in BOOLEAN /\ do_events \in BOOLEAN
  /\ last \in [Index -> Nat] /\ calls \in [Index -> Nat]

(* The remembered time is never later than an activation, of the repeaters *)
(* already seen in this turn or, between the turns, of all: a repeater is  *)
(* never overslept because the list was not searched.                      *)
NeverOverslept ==
  \A r \in Index : (cursor = 0 \/ r < cursor) => sooner <= reps[r].activation_tm

(* A repeater with a counter is called that many times and no more; turns  *)
(* at which it was due in the wrong state cost it nothing.                 *)
CountersKept ==
  \A r \in Index : reps[r].limit >= 0 =>
    reps[r].counter >= 0 /\ reps[r].counter + calls[r] = reps[r].limit

(* Two calls of a repeater are a frequency apart, less the deviation,      *)
(* however late its turns came: nothing that was missed is made up for     *)
(* ("relative to the present time, and not to the activation").            *)
LeastGap(f) == f - (f \div Grain) * HalfSpread
CallsSpaced ==
  [][\A r \in Index :
       (called' = r /\ last[r] # 0 /\ reps[r].frequency >= 0)
         => now - last[r] >= LeastGap(reps[r].frequency)]_allVars

(* A session's handler is called for a connected user only, although a     *)
(* kill_connection earlier in the same turn may have taken the connection: *)
(* the handlers dereference user->conn.                                    *)
SessionsConnected ==
  [][\A r \in Index :
       (called' = r /\ reps[r].kind = "session") => conn]_allVars

(* A repeater that is due is called, unless its user is not in the state   *)
(* for it when its turn comes.                                             *)
DueIsCalled ==
  \A r \in Index : Due(r) ~> (called = r \/ ~MayCall(r))

-----------------------------------------------------------------------------
(* What comments of the program say and the program does not do.           *)

(* "[us] how often it activates, if < 0 it does not activate by itself":   *)
(* after its first call it is not called again.                            *)
NegativeWaits ==
  [][\A r \in Index :
       (called' = r /\ reps[r].frequency < 0) => last[r] = 0]_allVars
=============================================================================
