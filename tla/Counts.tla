-------------------------------- MODULE Counts --------------------------------
(***************************************************************************)
(* What jab_simul counts of its traffic: the messages and their echoes,    *)
(* the ring of their times with the timer that reads it, and the limits on *)
(* what is read.  The three share no state.                                *)
(***************************************************************************)
EXTENDS MessageEcho, Statistics, Limits

CountsSpec == EchoSpec /\ StatSpec /\ LimitsSpec
-----------------------------------------------------------------------------
(* What is counted: messages and their echoes (handle_message), the ring of *)
(* their times (add_stat), and the traffic of karma.c and rate.c.           *)
CountsHold ==
  /\ [](/\ NamesAgree /\ EchoedOnce /\ DifferenceExplained
        /\ RingIsNewest /\ TimerKeepsInterval
        /\ KarmaRange /\ ModerateUnpunished /\ LimitHolds)
  /\ PenaltyForever /\ StaysRated
=============================================================================
