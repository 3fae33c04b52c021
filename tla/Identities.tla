----------------------------- MODULE Identities ------------------------------
(***************************************************************************)
(* The identifiers of jid.c and the presences that pproxy.c keeps by them. *)
(* The two share no state: pproxy.c makes its own copies of identifiers.   *)
(***************************************************************************)
EXTENDS Addresses, PresenceDb

IdentitiesSpec == AddressSpec /\ PresenceSpec

(* An identifier of jid.c is what its text says, and pproxy.c keeps one     *)
(* entry of presence for each.                                              *)
AddressesAgree ==
  /\ [](/\ FullIsFresh /\ TextIsAddress /\ LoopsOnlySlashed /\ ListedOnce /\ QueryParsed
        /\ OneEntryEach /\ PrimaryIsHighest)
  /\ LoopComplete
==============================================================================
