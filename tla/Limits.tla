-------------------------------- MODULE Limits -------------------------------
(***************************************************************************)
(* The three traffic limits of the source: karma of the library, the copy  *)
(* of it in jab_simul (karma.c, whose clock is in microseconds and whose   *)
(* budget is signed), and the rate limit jlimit.  None of them is called   *)
(* by the simulator; they are modelled as their headers promise them to a  *)
(* caller that checks every read.                                          *)
(*                                                                         *)
(* The values that karma is made with are constants here, because they are *)
(* fields of the structure: by default KARMA_DEC is 0, and nobody is       *)
(* punished.  The copy has no karma_new; its karma.h names an initial      *)
(* value of its own, -100, which one "should not be able to get" to.       *)
(***************************************************************************)
EXTENDS Integers

CONSTANTS
  Inc, Dec, MaxKarma, Penalty, Restore,  \* fields of struct karma
  InitKarma,      \* KARMA_INIT of lib.h: 5
  SimulatorInit,  \* KARMA_INIT of jab_simul/karma.h: -100
  ResetMeter,  \* reset_meter
  ReadUnit,    \* 100 in KARMA_READ_MAX
  Heartbeat,   \* KARMA_HEARTBEAT
  Maxt, Maxp,  \* of jlimit_new
  Reads,       \* bytes or points of one check
  MaxClock, MaxBytesRead  \* bounds of the runs

ASSUME LimitsAssumption ==
  /\ Inc \in Nat \ {0} /\ Dec \in Nat /\ MaxKarma \in Nat \ {0} /\ Penalty \in Int /\ Penalty < 0
  /\ Restore \in 1..MaxKarma /\ InitKarma \in 1..MaxKarma /\ ReadUnit \in Nat \ {0}
  /\ SimulatorInit \in Int /\ SimulatorInit < -1
  /\ Reads \subseteq Nat /\ Maxp \in Nat /\ Maxt \in Nat /\ Heartbeat \in Nat

(* What karma_new makes of every karma: KARMA_INC is 1, KARMA_PENALTY is -5.
   One that rose by more could step over the karmas whose budget it exceeds. *)
ASSUME KarmaAssumption == Inc = 1 /\ Penalty < -1

VARIABLES
  flavour,  \* which of the three this is
  clock,
  karma,    \* struct karma: val, bytes, last_update
  beat,     \* history: bytes read since karma last rose, and whether they were ever too
            \* many; whether karma was made good
  limit,    \* jlimit: key, start, points
  granted   \* history: points let through in the window of the key

limitsVars == <<flavour, clock, karma, beat, limit, granted>>
karmaVars == <<karma, beat>>
rateVars == <<limit, granted>>

LimitsWith(f, init) ==
  /\ flavour = f /\ clock = 1
  /\ karma = [val |-> init, bytes |-> 0, last_update |-> 0]
  /\ beat = [read |-> 0, greedy |-> FALSE, good |-> init > 0]
  /\ limit = [key |-> "NULL", start |-> -Maxt, points |-> 0]
  /\ granted = 0
LimitsInit ==
  \/ \E f \in {"library", "simulator", "rate"} : LimitsWith(f, InitKarma)
  \/ LimitsWith("simulator", SimulatorInit)

Magnitude(n) == IF n < 0 THEN -n ELSE n
KARMA_READ_MAX(v) == ReadUnit * (IF flavour = "library" THEN Magnitude(v) ELSE v)

(* karma_increment, when a heartbeat has passed: karma rises, a good one
   lowers the meter, one that has come out of the penalty is restored. *)
Due(k) ==
  IF flavour = "library" THEN k.last_update + Heartbeat <= clock \/ k.last_update = 0
  ELSE k.last_update + Heartbeat < clock \/ k.last_update = 0
Absolved(k, v) == k.val < 0 /\ IF flavour = "library" THEN v >= 0 ELSE v > 0
Meter(k, v) == IF v > 0 THEN IF k.bytes > KARMA_READ_MAX(v) THEN k.bytes - KARMA_READ_MAX(v) ELSE 0 ELSE k.bytes
karma_increment(k) ==
  IF ~Due(k) THEN k
  ELSE LET v == IF k.val + Inc > MaxKarma THEN MaxKarma ELSE k.val + Inc
           over == Absolved(k, k.val + Inc)
       IN [val |-> IF over THEN Restore ELSE v,
           bytes |-> IF over /\ flavour = "library" /\ ResetMeter THEN 0 ELSE Meter(k, v),
           last_update |-> clock]

(* karma_decrement: the bytes are counted; over the budget karma falls, and
   at 0 or below it is the penalty. *)
DecrementForgives(k, n) ==   \* slip: the punished start with an empty meter
  IF k.bytes + n > KARMA_READ_MAX(k.val)
    THEN IF k.val - Dec <= 0 THEN [k EXCEPT !.val = Penalty, !.bytes = 0]
         ELSE [k EXCEPT !.val = @ - Dec, !.bytes = @ + n]
    ELSE [k EXCEPT !.bytes = @ + n]
karma_decrement(k, n) ==
  IF k.bytes + n > KARMA_READ_MAX(k.val)
    THEN [k EXCEPT !.bytes = @ + n, !.val = IF k.val - Dec <= 0 THEN Penalty ELSE k.val - Dec]
    ELSE [k EXCEPT !.bytes = @ + n]

karma_check(n) ==
  /\ flavour # "rate" /\ karma.bytes + n <= MaxBytesRead
  /\ karma' = karma_decrement(karma_increment(karma), n)
  /\ LET read == (IF Due(karma) THEN 0 ELSE beat.read) + n
     IN beat' = [beat EXCEPT !.read = read, !.greedy = @ \/ read > ReadUnit]
  /\ UNCHANGED <<flavour, clock, rateVars>>

(* jlimit_check: a new key, none, or a window that is over starts anew; more
   points than maxp are refused before the window has reached its length. *)
Rated(l) == l.points > Maxp /\ clock - l.start < Maxt
jlimit_count(l, points) == [l EXCEPT !.points = @ + points]
jlimit_check(key, points) ==
  /\ flavour = "rate" /\ limit.points + points <= MaxBytesRead
  /\ LET anew == clock - limit.start > Maxt \/ key = "NULL" \/ key # limit.key
         l == IF anew THEN [key |-> key, start |-> clock, points |-> 0] ELSE limit
     IN /\ limit' = jlimit_count(l, points)
        /\ granted' = (IF anew THEN 0 ELSE granted)
                      + (IF Rated(limit') \/ clock - l.start >= Maxt THEN 0 ELSE points)
  /\ UNCHANGED <<flavour, clock, karmaVars>>

LimitsTick == clock < MaxClock /\ clock' = clock + 1 /\ UNCHANGED <<flavour, karmaVars, rateVars>>

LimitsNext ==
  \/ LimitsTick
  \/ \E n \in Reads : karma_check(n) \/ \E key \in {"NULL", "k", "l"} : jlimit_check(key, n)
LimitsSpec == LimitsInit /\ [][LimitsNext]_limitsVars
-----------------------------------------------------------------------------
(* Karma is never 0, where nothing would say whether it is good, and never
   above its maximum, nor below the penalty once it has been checked;
   karma_check refuses exactly those below 0. *)
KarmaRange ==
  karma.val \in (Penalty..MaxKarma) \ {0} \/ (karma.val = SimulatorInit /\ karma.last_update = 0)

(* A reader who is made good and never takes more than the smallest budget
   between two heartbeats is never punished. *)
ModerateUnpunished == beat.good /\ ~beat.greedy => karma.val > 0

(* KARMA_RESTORE is where one goes who has paid the penalty; but the meter
   that brought the penalty is not lowered during it, and is over the budget
   of every karma on the way up; in the copy, a bad karma has a negative budget, which no
   bytes at all are over.  A punished one stays punished, and one made with
   the copy's KARMA_INIT is refused for ever. *)
PenaltyForever == [][karma.val < 0 => karma'.val < 0]_limitsVars

(* One key is let through at most maxp points in a window, until the moment
   at which the window has just its full length. *)
LimitHolds == granted <= Maxp

(* A refused key stays refused until the time has run out, which is why the
   rate is not reset when it is found too high. *)
StaysRated ==
  [][Rated(limit) /\ limit'.key = limit.key /\ limit.key # "NULL" /\ clock' - limit.start < Maxt
       => Rated(limit)']_limitsVars
=============================================================================
