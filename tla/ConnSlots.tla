------------------------------ MODULE ConnSlots ------------------------------
(***************************************************************************)
(* The table of pollable connection slots of jab_simul's single thread     *)
(* (struct jpolld_thread_struct): pfds[], the list npfd of recycled slot   *)
(* numbers and mpfd, the highest slot handed to poll().  Slots 0 and 1 are *)
(* reserved by thread_init; connections live in 2 .. MAX_PFDS.             *)
(*                                                                         *)
(* A slot is taken by user_connect and given back by jpolld_conn_kill.     *)
(* The rest of the simulator is free to take and release in any order.     *)
(***************************************************************************)
EXTENDS Naturals, Sequences

CONSTANTS
  MaxPfds,    \* MAX_PFDS, the highest slot number
  Batch       \* how many slots add_conns makes available at once

ASSUME SlotConstants == MaxPfds \in Nat \ {0} /\ Batch \in Nat \ {0}

VARIABLES
  npfd,       \* free list: slot numbers ready to be used, head first
  mpfd,       \* poll() watches the slots up to this one
  fds,        \* the slots whose pfds[].fd is not -1
  crashed     \* the process has dereferenced a NULL npfd

slotVars == <<npfd, mpfd, fds, crashed>>

Locs == 2 .. MaxPfds

(* add_conns: extend the free list by the next batch above mpfd. *)
(* Slip: the batch is not cut at MAX_PFDS. *)
MoreUncut(m) == Batch
More(m) == IF MaxPfds - m > Batch THEN Batch ELSE MaxPfds - m
add_conns(m) == [i \in 1 .. More(m) |-> m + i]

(* Slip: an empty list is not refilled. *)
AvailableNoRefill == npfd

(* The free list as user_connect sees it: refilled when it is empty. *)
Available == IF npfd = << >> THEN add_conns(mpfd) ELSE npfd

SlotsInit ==
  /\ mpfd = 1
  /\ npfd = add_conns(1)
  /\ fds = {}
  /\ crashed = FALSE

-----------------------------------------------------------------------------

(* Slip: the head is used but not unlinked. *)
TakeNoPop(loc) ==
  /\ Available # << >>
  /\ loc = Head(Available)
  /\ npfd' = Available
  /\ fds' = fds \union {loc}
  /\ mpfd' = IF loc > mpfd THEN loc ELSE mpfd
  /\ UNCHANGED crashed

(* user_connect puts its socket into the first available slot. *)
Take(loc) ==
  /\ Available # << >>
  /\ loc = Head(Available)
  /\ npfd' = Tail(Available)
  /\ fds' = fds \union {loc}
  /\ mpfd' = IF loc > mpfd THEN loc ELSE mpfd
  /\ UNCHANGED crashed

(* user_connect reads t->npfd->pos although add_conns had nothing to add. *)
Exhaust ==
  /\ Available = << >>
  /\ crashed' = TRUE
  /\ UNCHANGED <<npfd, mpfd, fds>>

(* Slips: mpfd is lowered by every kill; the slot is not recycled. *)
ReleaseAlwaysLower(loc) ==
  /\ loc \in fds
  /\ npfd' = <<loc>> \o npfd
  /\ fds' = fds \ {loc}
  /\ mpfd' = mpfd - 1
  /\ UNCHANGED crashed

ReleaseNoRecycle(loc) ==
  /\ loc \in fds
  /\ npfd' = npfd
  /\ fds' = fds \ {loc}
  /\ mpfd' = IF mpfd = loc THEN mpfd - 1 ELSE mpfd
  /\ UNCHANGED crashed

(* jpolld_conn_kill closes the descriptor and recycles the slot. *)
Release(loc) ==
  /\ loc \in fds
  /\ npfd' = <<loc>> \o npfd
  /\ fds' = fds \ {loc}
  /\ mpfd' = IF mpfd = loc THEN mpfd - 1 ELSE mpfd
  /\ UNCHANGED crashed

SlotsNext ==
  /\ ~crashed
  /\ \/ \E loc \in Locs : Take(loc)
     \/ \E loc \in Locs : Release(loc)
     \/ Exhaust

SlotsSpec == SlotsInit /\ [][SlotsNext]_slotVars

-----------------------------------------------------------------------------

(* Types of the slot table. *)
SlotsTypeOK ==
  /\ npfd \in Seq(Locs)
  /\ mpfd \in 1 .. MaxPfds
  /\ fds \in SUBSET Locs
  /\ crashed \in BOOLEAN

Elements(s) == {s[i] : i \in DOMAIN s}
Distinct(s) == \A i, j \in DOMAIN s : s[i] = s[j] => i = j

FreeSlots == Elements(npfd)

(* A slot is never both recycled and in use, and never recycled twice: two *)
(* users can therefore never be given the same pfds[]/conns[] entry, in     *)
(* whatever order user_connect and jpolld_conn_kill alternate.             *)
NoSharedSlot ==
  /\ FreeSlots \intersect fds = {}
  /\ Distinct(npfd)

(* thread_main polls the slots 2 .. mpfd only.  Although jpolld_conn_kill   *)
(* lowers mpfd by one at most and add_conns numbers new slots from mpfd,    *)
(* no open descriptor is ever left above mpfd, where it would be deaf.     *)
EveryFdPolled == \A loc \in fds : loc <= mpfd

(* No slot is lost: every slot up to mpfd, and every slot below one that   *)
(* add_conns has ever handed out, is either open or recycled.              *)
NoLostSlot ==
  \A l \in fds \union FreeSlots \union {mpfd} : 2 .. l \subseteq fds \union FreeSlots

(* The NULL npfd is met only when every one of the MAX_PFDS - 1 slots      *)
(* holds a connection: recycling never loses one.                          *)
CrashOnlyWhenFull == crashed => fds = Locs

=============================================================================
