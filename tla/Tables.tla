------------------------------- MODULE Tables -------------------------------
(***************************************************************************)
(* The two hash tables of the library: xhash.c, which the jabberd library  *)
(* and jab_simul keep everything in, and the tables of expat's names.  The *)
(* two share no state.                                                     *)
(***************************************************************************)
EXTENDS XHash, NameTable

TablesSpec == HashSpec /\ TableSpec
-----------------------------------------------------------------------------
(* A table of xhash.c is a map whatever its chains and its freed nodes, and *)
(* one of expat's hashtable.c finds every name through all its growth.      *)
TablesAreMaps ==
  /\ [](HashTypeOK /\ OneNodePerKey /\ ChainBounded /\ NthComplete /\ NamesFound /\ SearchesEnd)
  /\ LastPutWins /\ ResizeUnseen
=============================================================================
