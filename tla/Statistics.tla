----------------------------- MODULE Statistics ------------------------------
(***************************************************************************)
(* A statistics ring of the users (init_stat, add_stat, get_div_stat),     *)
(* fed with the difference that thread_main computes at every information  *)
(* interval, and check_timer, which says whether an interval has passed    *)
(* since it last said so.                                                  *)
(***************************************************************************)
EXTENDS Integers, Sequences, FiniteSets, Functions, SequencesExt

CONSTANTS
  StatSizes,     \* 200 and 20, the sizes init_stat is called with
  Differences,   \* values of the difference of messages sent and received
  MaxValues,     \* bound: values added in a run
  Grain,         \* 1000: microseconds in a millisecond
  Interval,      \* milliseconds check_timer is asked for
  MaxTime        \* bound: the clock of the runs, in microseconds

ASSUME StatisticsAssumption ==
  /\ StatSizes \subseteq Nat \ {0} /\ Differences \subseteq Int
  /\ Grain \in Nat \ {0} /\ Interval \in Nat

VARIABLES
  stat,       \* stat_t[no]
  last_diff,  \* the last difference
  added,      \* history: everything added
  now, timer, \* gettimeofday, and the static timer[no]
  fired       \* history: the times at which check_timer gave 1

statVars == <<stat, last_diff, added>>
timerVars == <<now, timer, fired>>

init_stat(size) ==
  [stat_pos |-> 0, stat_size |-> size, stat_intable |-> 0,
   stat_times |-> [i \in 0..(size - 1) |-> 0], stat_sum_times |-> 0]

add_stat(s, time) ==
  [s EXCEPT !.stat_sum_times = @ - s.stat_times[s.stat_pos] + time,
            !.stat_times[s.stat_pos] = time,
            !.stat_intable = IF @ < s.stat_size THEN @ + 1 ELSE @,
            !.stat_pos = IF @ + 1 >= s.stat_size THEN 0 ELSE @ + 1]

(* C divides towards zero. *)
Quotient(a, b) == IF a < 0 THEN -((-a) \div b) ELSE a \div b
get_div_stat(s) == Quotient(s.stat_sum_times, IF s.stat_intable # 0 THEN s.stat_intable ELSE 1)

StatInit ==
  /\ \E size \in StatSizes : stat = init_stat(size)
  /\ last_diff = 0 /\ added = <<>>
  /\ now = Grain /\ timer = 0 /\ fired = <<>>

(* thread_main: the change of the difference since the last time. *)
add_diff_stat(diff) ==
  /\ Len(added) < MaxValues
  /\ stat' = add_stat(stat, diff - last_diff)
  /\ added' = Append(added, diff - last_diff)
  /\ last_diff' = diff
  /\ UNCHANGED timerVars

(* Seconds and milliseconds are subtracted after both have been cut. *)
diff_ms == now \div Grain - timer \div Grain
check_timer ==
  /\ IF diff_ms >= Interval
       THEN timer' = now /\ fired' = Append(fired, now)
       ELSE UNCHANGED <<timer, fired>>
  /\ UNCHANGED <<statVars, now>>

ClockTicks == now < MaxTime /\ now' = now + 1 /\ UNCHANGED <<statVars, timer, fired>>

StatNext == (\E diff \in Differences : add_diff_stat(diff)) \/ check_timer \/ ClockTicks
StatSpec == StatInit /\ [][StatNext]_<<statVars, timerVars>>
-----------------------------------------------------------------------------
(* However often the ring has gone round, its sum is that of the newest
   values it has room for, and the mean is over as many as were added. *)
Room == IF Len(added) < stat.stat_size THEN Len(added) ELSE stat.stat_size
Newest == SumFunctionOnSet(added, (Len(added) - Room + 1) .. Len(added))
RingIsNewest ==
  /\ stat.stat_sum_times = Newest
  /\ get_div_stat(stat) = IF Room = 0 THEN 0 ELSE Quotient(Newest, Room)

(* Two signals of the timer are never closer than the interval, less the one
   millisecond that the two cuts can lose. *)
TimerKeepsInterval ==
  \A i \in 2..Len(fired) : fired[i] - fired[i - 1] > (Interval - 1) * Grain
=============================================================================
