-------------------------------- MODULE Start --------------------------------
(***************************************************************************)
(* What jab_simul makes of its configuration: the names and users of the   *)
(* run, and the addressees and texts of the events.  The two share no      *)
(* state: an event only asks which numbers have names.                     *)
(***************************************************************************)
EXTENDS Config, Payloads

StartSpec == ConfigSpec /\ PayloadSpec
-----------------------------------------------------------------------------
(* Users and events are as the configuration says: generators and groups    *)
(* (generate_user_names_space, set_users_properities), and the bodies and   *)
(* addressees of the events (jab_simul-repeater.c).                         *)
StartAsConfigured ==
  /\ NamesFromLast /\ UserPerGroup /\ ListIsArray
  /\ NulInBuffer /\ NothingCutOff /\ RandomOneShort /\ HangsOnlyGrown /\ CrashesOnlyRaw /\ RosterFirst
==============================================================================
