-------------------------- MODULE Simulator_proofs ---------------------------
(***************************************************************************)
(* Proofs about the table of slots, and about the core: every handler      *)
(* either takes a slot for a new connection, kills a connection, or        *)
(* changes one connection and its user together.  The invariant is proved  *)
(* of these three kinds of step, and every action is shown to be a step of *)
(* one of the kinds.                                                       *)
(***************************************************************************)
EXTENDS Simulator, FiniteSetTheorems, DataLemmas

(***************************************************************************)
(* The slot table: the inductive invariant SlotsInv and what it implies,   *)
(* for every MAX_PFDS and every batch size.                                *)
(***************************************************************************)
(* Types, disjointness of the free list and the open slots, coverage of    *)
(* the slots up to mpfd, and a crash only with a full table.               *)
SlotsInv ==
  /\ SlotsTypeOK
  /\ NoSharedSlot
  /\ EveryFdPolled
  /\ NoLostSlot
  /\ CrashOnlyWhenFull

-----------------------------------------------------------------------------
(* Lists without repetition, as the free list is used.                     *)

(* Popping the head of a list removes exactly its first element.           *)
LEMMA PopFacts ==
  ASSUME NEW S, NEW s \in Seq(S), s # << >>, Distinct(s)
  PROVE  /\ Head(s) \in Elements(s)
         /\ Tail(s) \in Seq(S)
         /\ Distinct(Tail(s))
         /\ Elements(Tail(s)) = Elements(s) \ {Head(s)}
<1>1. /\ Tail(s) \in Seq(S)
      /\ Len(s) \in Nat \ {0}
      /\ Len(Tail(s)) = Len(s) - 1
      /\ DOMAIN s = 1 .. Len(s)
      /\ DOMAIN Tail(s) = 1 .. (Len(s) - 1)
      /\ \A i \in 1 .. (Len(s) - 1) : Tail(s)[i] = s[i + 1]
      /\ Head(s) = s[1]
  OBVIOUS
<1>2. Distinct(Tail(s))
  BY <1>1 DEF Distinct
<1>3. Head(s) \in Elements(s)
  BY <1>1 DEF Elements
<1>4. ASSUME NEW x \in Elements(Tail(s)) PROVE x \in Elements(s) \ {Head(s)}
  <2>1. PICK i \in 1 .. (Len(s) - 1) : x = s[i + 1]
    BY <1>1, <1>4 DEF Elements
  <2>2. i + 1 \in DOMAIN s /\ 1 \in DOMAIN s /\ i + 1 # 1
    BY <1>1
  <2>. QED
    BY <1>1, <2>1, <2>2 DEF Elements, Distinct
<1>5. ASSUME NEW x \in Elements(s) \ {Head(s)} PROVE x \in Elements(Tail(s))
  <2>1. PICK i \in 1 .. Len(s) : x = s[i]
    BY <1>1, <1>5 DEF Elements
  <2>2. i # 1
    BY <1>1, <1>5, <2>1
  <2>3. i - 1 \in 1 .. (Len(s) - 1) /\ x = Tail(s)[i - 1]
    BY <1>1, <2>1, <2>2
  <2>. QED
    BY <1>1, <2>3 DEF Elements
<1>. QED
  BY <1>1, <1>2, <1>3, <1>4, <1>5

(* Pushing a new element in front of a list adds exactly that element.     *)
LEMMA PushFacts ==
  ASSUME NEW S, NEW s \in Seq(S), NEW x \in S, Distinct(s), x \notin Elements(s)
  PROVE  /\ <<x>> \o s \in Seq(S)
         /\ Distinct(<<x>> \o s)
         /\ Elements(<<x>> \o s) = Elements(s) \union {x}
<1>. DEFINE t == <<x>> \o s
<1>1. /\ t \in Seq(S)
      /\ Len(s) \in Nat
      /\ DOMAIN s = 1 .. Len(s)
      /\ DOMAIN t = 1 .. (Len(s) + 1)
      /\ t[1] = x
      /\ \A i \in 1 .. Len(s) : t[i + 1] = s[i]
  OBVIOUS
<1>. HIDE DEF t
<1>2. \A i \in 2 .. (Len(s) + 1) : i - 1 \in DOMAIN s /\ t[i] = s[i - 1]
  <2>. TAKE i \in 2 .. (Len(s) + 1)
  <2>1. i - 1 \in 1 .. Len(s) /\ (i - 1) + 1 = i
    BY <1>1
  <2>. QED
    BY <1>1, <2>1
<1>3. Distinct(t)
  <2>. SUFFICES ASSUME NEW i \in DOMAIN t, NEW j \in DOMAIN t, t[i] = t[j]
                PROVE  i = j
    BY DEF Distinct
  <2>1. CASE i = 1 /\ j # 1
    <3>1. j \in 2 .. (Len(s) + 1)
      BY <1>1, <2>1
    <3>. QED
      BY <1>1, <1>2, <2>1, <3>1 DEF Elements
  <2>2. CASE i # 1 /\ j = 1
    <3>1. i \in 2 .. (Len(s) + 1)
      BY <1>1, <2>2
    <3>. QED
      BY <1>1, <1>2, <2>2, <3>1 DEF Elements
  <2>3. CASE i # 1 /\ j # 1
    <3>1. i \in 2 .. (Len(s) + 1) /\ j \in 2 .. (Len(s) + 1)
      BY <1>1, <2>3
    <3>2. s[i - 1] = s[j - 1] /\ i - 1 \in DOMAIN s /\ j - 1 \in DOMAIN s
      BY <1>2, <3>1
    <3>3. i - 1 = j - 1
      BY <3>2 DEF Distinct
    <3>. QED
      BY <3>1, <3>3
  <2>. QED
    BY <2>1, <2>2, <2>3
<1>4. Elements(t) = Elements(s) \union {x}
  <2>1. ASSUME NEW y \in Elements(t) PROVE y \in Elements(s) \union {x}
    <3>1. PICK i \in 1 .. (Len(s) + 1) : y = t[i]
      BY <1>1, <2>1 DEF Elements
    <3>2. CASE i = 1
      BY <1>1, <3>1, <3>2
    <3>3. CASE i # 1
      <4>1. i \in 2 .. (Len(s) + 1)
        BY <1>1, <3>3
      <4>. QED
        BY <1>2, <3>1, <4>1 DEF Elements
    <3>. QED
      BY <3>2, <3>3
  <2>2. ASSUME NEW y \in Elements(s) PROVE y \in Elements(t)
    <3>1. PICK i \in 1 .. Len(s) : y = s[i]
      BY <1>1, <2>2 DEF Elements
    <3>2. i + 1 \in DOMAIN t /\ y = t[i + 1]
      BY <1>1, <3>1
    <3>. QED
      BY <3>2 DEF Elements
  <2>3. x \in Elements(t)
    <3>1. 1 \in DOMAIN t
      BY <1>1
    <3>. QED
      BY <1>1, <3>1 DEF Elements
  <2>. QED
    BY <2>1, <2>2, <2>3
<1>. QED
  BY <1>1, <1>3, <1>4 DEF t

-----------------------------------------------------------------------------
(* What add_conns produces: consecutive slots above m, within the table.   *)
LEMMA AddConnsFacts ==
  ASSUME NEW m \in 1 .. MaxPfds
  PROVE  /\ More(m) \in Nat
         /\ m + More(m) <= MaxPfds
         /\ More(m) = 0 => m = MaxPfds
         /\ add_conns(m) \in Seq(Locs)
         /\ add_conns(m) = << >> <=> More(m) = 0
         /\ Distinct(add_conns(m))
         /\ Elements(add_conns(m)) = (m + 1) .. (m + More(m))
<1>1. /\ m \in Nat /\ m >= 1
      /\ More(m) \in Nat
      /\ m + More(m) <= MaxPfds
      /\ More(m) = 0 => m = MaxPfds
  BY SlotConstants DEF More
<1>2. \A i \in 1 .. More(m) : m + i \in Locs
  BY <1>1, SlotConstants DEF Locs
<1>3. /\ add_conns(m) \in Seq(Locs)
      /\ Len(add_conns(m)) = More(m)
      /\ DOMAIN add_conns(m) = 1 .. More(m)
      /\ \A i \in 1 .. More(m) : add_conns(m)[i] = m + i
  BY <1>1, <1>2 DEF add_conns
<1>4. add_conns(m) = << >> <=> More(m) = 0
  BY <1>3
<1>5. Distinct(add_conns(m))
  BY <1>1, <1>3 DEF Distinct
<1>6. Elements(add_conns(m)) = (m + 1) .. (m + More(m))
  <2>1. ASSUME NEW y \in (m + 1) .. (m + More(m)) PROVE y \in Elements(add_conns(m))
    <3>1. y - m \in 1 .. More(m) /\ m + (y - m) = y
      BY <1>1
    <3>. QED
      BY <1>3, <3>1 DEF Elements
  <2>2. ASSUME NEW y \in Elements(add_conns(m)) PROVE y \in (m + 1) .. (m + More(m))
    BY <1>1, <1>3 DEF Elements
  <2>. QED
    BY <2>1, <2>2
<1>. QED
  BY <1>1, <1>3, <1>4, <1>5, <1>6

-----------------------------------------------------------------------------
(* The list user_connect works on is sound whether or not it was refilled. *)
LEMMA AvailableFacts ==
  ASSUME SlotsInv
  PROVE  /\ Available \in Seq(Locs)
         /\ Distinct(Available)
         /\ Elements(Available) \intersect fds = {}
         /\ FreeSlots \subseteq Elements(Available)
         /\ \A l \in fds \union Elements(Available) \union {mpfd} :
              2 .. l \subseteq fds \union Elements(Available)
         /\ Available = << >> => fds = Locs
<1>1. mpfd \in 1 .. MaxPfds /\ fds \subseteq Locs /\ npfd \in Seq(Locs)
  BY DEF SlotsInv, SlotsTypeOK
<1>2. CASE npfd # << >>
  BY <1>2 DEF Available, SlotsInv, SlotsTypeOK, NoSharedSlot, NoLostSlot, FreeSlots
<1>3. CASE npfd = << >>
  <2>1. Available = add_conns(mpfd) /\ FreeSlots = {}
    BY <1>3 DEF Available, FreeSlots, Elements
  <2>2. fds = 2 .. mpfd
    <3>1. 2 .. mpfd \subseteq fds
      BY <2>1 DEF SlotsInv, NoLostSlot
    <3>2. \A l \in fds : l \in 2 .. mpfd
      BY <1>1, SlotConstants DEF SlotsInv, EveryFdPolled, Locs
    <3>. QED
      BY <3>1, <3>2
  <2>3. /\ More(mpfd) \in Nat
        /\ More(mpfd) = 0 => mpfd = MaxPfds
        /\ add_conns(mpfd) \in Seq(Locs)
        /\ add_conns(mpfd) = << >> <=> More(mpfd) = 0
        /\ Distinct(add_conns(mpfd))
        /\ Elements(add_conns(mpfd)) = (mpfd + 1) .. (mpfd + More(mpfd))
    BY <1>1, AddConnsFacts
  <2>4. fds \union Elements(Available) = 2 .. (mpfd + More(mpfd))
    BY <1>1, <2>1, <2>2, <2>3
  <2>5. Elements(Available) \intersect fds = {}
    BY <1>1, <2>1, <2>2, <2>3
  <2>6. \A l \in fds \union Elements(Available) \union {mpfd} :
           2 .. l \subseteq fds \union Elements(Available)
    BY <1>1, <2>3, <2>4
  <2>7. Available = << >> => fds = Locs
    BY <2>1, <2>2, <2>3 DEF Locs
  <2>. QED
    BY <2>1, <2>3, <2>5, <2>6, <2>7
<1>. QED
  BY <1>2, <1>3

(* thread_init leaves a sound table. *)
LEMMA SlotsInitInv == SlotsInit => SlotsInv
<1>. SUFFICES ASSUME SlotsInit PROVE SlotsInv
  OBVIOUS
<1>1. 1 \in 1 .. MaxPfds
  BY SlotConstants
<1>2. /\ More(1) \in Nat
      /\ add_conns(1) \in Seq(Locs)
      /\ Distinct(add_conns(1))
      /\ Elements(add_conns(1)) = 2 .. (1 + More(1))
  BY <1>1, AddConnsFacts
<1>3. SlotsTypeOK
  BY <1>1, <1>2 DEF SlotsInit, SlotsTypeOK
<1>4. NoSharedSlot /\ EveryFdPolled /\ CrashOnlyWhenFull
  BY <1>2 DEF SlotsInit, NoSharedSlot, FreeSlots, EveryFdPolled, CrashOnlyWhenFull
<1>5. NoLostSlot
  BY <1>2 DEF SlotsInit, NoLostSlot, FreeSlots
<1>. QED
  BY <1>3, <1>4, <1>5 DEF SlotsInv

(* user_connect takes a slot of a sound table. *)
LEMMA TakeInv ==
  ASSUME SlotsInv, NEW loc \in Locs, Take(loc)
  PROVE  SlotsInv'
<1>. DEFINE A == Available
<1>1. /\ A # << >> /\ loc = Head(A)
      /\ npfd' = Tail(A)
      /\ fds' = fds \union {loc}
      /\ mpfd' = IF loc > mpfd THEN loc ELSE mpfd
      /\ crashed' = crashed
  BY DEF Take
<1>2. mpfd \in 1 .. MaxPfds /\ fds \subseteq Locs /\ loc \in 2 .. MaxPfds
  BY DEF SlotsInv, SlotsTypeOK, Locs
<1>3. /\ A \in Seq(Locs)
      /\ Distinct(A)
      /\ Elements(A) \intersect fds = {}
      /\ \A l \in fds \union Elements(A) \union {mpfd} :
              2 .. l \subseteq fds \union Elements(A)
  BY AvailableFacts
<1>. HIDE DEF A
<1>4. /\ loc \in Elements(A)
      /\ npfd' \in Seq(Locs)
      /\ Distinct(npfd)'
      /\ FreeSlots' = Elements(A) \ {loc}
  <2>1. /\ Head(A) \in Elements(A)
        /\ Tail(A) \in Seq(Locs)
        /\ Distinct(Tail(A))
        /\ Elements(Tail(A)) = Elements(A) \ {Head(A)}
    BY <1>1, <1>3, PopFacts
  <2>. QED
    BY <1>1, <2>1 DEF FreeSlots, Distinct, Elements
<1>5. fds' \union FreeSlots' = fds \union Elements(A)
  BY <1>1, <1>4
<1>6. SlotsTypeOK'
  <2>1. mpfd' \in 1 .. MaxPfds
    BY <1>1, <1>2
  <2>2. fds' \in SUBSET Locs
    BY <1>1, <1>2
  <2>3. crashed' \in BOOLEAN
    BY <1>1 DEF SlotsInv, SlotsTypeOK
  <2>. QED
    BY <1>4, <2>1, <2>2, <2>3 DEF SlotsTypeOK
<1>7. NoSharedSlot'
  BY <1>1, <1>3, <1>4 DEF NoSharedSlot
<1>8. EveryFdPolled'
  <2>1. \A l \in fds : l <= mpfd
    BY DEF SlotsInv, EveryFdPolled
  <2>. QED
    BY <1>1, <1>2, <2>1 DEF EveryFdPolled, Locs
<1>9. NoLostSlot'
  <2>1. mpfd' = mpfd \/ mpfd' = loc
    BY <1>1
  <2>. QED
    BY <1>3, <1>4, <1>5, <2>1 DEF NoLostSlot
<1>10. CrashOnlyWhenFull'
  BY <1>1, <1>2 DEF SlotsInv, CrashOnlyWhenFull
<1>. QED
  BY <1>6, <1>7, <1>8, <1>9, <1>10 DEF SlotsInv

(* jpolld_conn_kill gives a slot back to a sound table. *)
LEMMA ReleaseInv ==
  ASSUME SlotsInv, ~crashed, NEW loc \in Locs, Release(loc)
  PROVE  SlotsInv'
<1>1. /\ loc \in fds
      /\ npfd' = <<loc>> \o npfd
      /\ fds' = fds \ {loc}
      /\ mpfd' = IF mpfd = loc THEN mpfd - 1 ELSE mpfd
      /\ crashed' = crashed
  BY DEF Release
<1>2. /\ mpfd \in 1 .. MaxPfds /\ fds \subseteq Locs /\ npfd \in Seq(Locs)
      /\ Distinct(npfd) /\ FreeSlots \intersect fds = {}
  BY DEF SlotsInv, SlotsTypeOK, NoSharedSlot
<1>3. /\ npfd' \in Seq(Locs)
      /\ Distinct(npfd)'
      /\ FreeSlots' = FreeSlots \union {loc}
  <2>1. /\ <<loc>> \o npfd \in Seq(Locs)
        /\ Distinct(<<loc>> \o npfd)
        /\ Elements(<<loc>> \o npfd) = Elements(npfd) \union {loc}
    BY <1>1, <1>2, PushFacts DEF FreeSlots
  <2>. QED
    BY <1>1, <2>1 DEF FreeSlots, Distinct, Elements
<1>4. fds' \union FreeSlots' = fds \union FreeSlots
  BY <1>1, <1>3
<1>5. mpfd' \in 1 .. MaxPfds /\ mpfd' <= mpfd
  <2>1. loc \in Nat /\ loc >= 2
    BY SlotConstants DEF Locs
  <2>. QED
    BY <1>1, <1>2, <2>1, SlotConstants
<1>6. SlotsTypeOK'
  BY <1>1, <1>2, <1>3, <1>5 DEF SlotsInv, SlotsTypeOK
<1>7. NoSharedSlot'
  BY <1>1, <1>2, <1>3 DEF NoSharedSlot
<1>8. EveryFdPolled'
  <2>1. \A l \in fds : l <= mpfd
    BY DEF SlotsInv, EveryFdPolled
  <2>. QED
    BY <1>1, <1>2, <2>1 DEF EveryFdPolled, Locs
<1>9. NoLostSlot'
  <2>1. \A l \in fds \union FreeSlots \union {mpfd} : 2 .. l \subseteq fds \union FreeSlots
    BY DEF SlotsInv, NoLostSlot
  <2>2. 2 .. mpfd' \subseteq 2 .. mpfd
    BY <1>2, <1>5
  <2>. QED
    BY <1>4, <2>1, <2>2 DEF NoLostSlot
<1>10. CrashOnlyWhenFull'
  BY <1>1 DEF CrashOnlyWhenFull
<1>. QED
  BY <1>6, <1>7, <1>8, <1>9, <1>10 DEF SlotsInv

(* A table without a slot left is full. *)
LEMMA ExhaustInv ==
  ASSUME SlotsInv, Exhaust
  PROVE  SlotsInv'
<1>1. fds = Locs
  BY AvailableFacts DEF Exhaust
<1>. QED
  BY <1>1 DEF Exhaust, SlotsInv, SlotsTypeOK, NoSharedSlot, EveryFdPolled, NoLostSlot,
       CrashOnlyWhenFull, FreeSlots, Elements, Distinct

(* Every step keeps the table sound. *)
LEMMA SlotsNextInv == SlotsInv /\ [SlotsNext]_slotVars => SlotsInv'
<1>. SUFFICES ASSUME SlotsInv, [SlotsNext]_slotVars PROVE SlotsInv'
  OBVIOUS
<1>1. CASE \E loc \in Locs : ~crashed /\ Take(loc)
  BY <1>1, TakeInv
<1>2. CASE \E loc \in Locs : ~crashed /\ Release(loc)
  BY <1>2, ReleaseInv
<1>3. CASE ~crashed /\ Exhaust
  BY <1>3, ExhaustInv
<1>4. CASE UNCHANGED slotVars
  BY <1>4 DEF slotVars, SlotsInv, SlotsTypeOK, NoSharedSlot, EveryFdPolled, NoLostSlot,
       CrashOnlyWhenFull, FreeSlots, Elements, Distinct
<1>. QED
  BY <1>1, <1>2, <1>3, <1>4 DEF SlotsNext

(* The slot table is sound in every reachable state.                       *)
THEOREM SlotsInvariant == SlotsSpec => []SlotsInv
<1>1. SlotsInit => SlotsInv
  BY SlotsInitInv
<1>2. SlotsInv /\ [SlotsNext]_slotVars => SlotsInv'
  BY SlotsNextInv
<1>. QED
  BY <1>1, <1>2, PTL DEF SlotsSpec

(* No two connections ever share a pfds[]/conns[] entry (add_conns,        *)
(* user_connect, jpolld_conn_kill).                                        *)
THEOREM SlotsNeverShared == SlotsSpec => []NoSharedSlot
<1>1. SlotsInv => NoSharedSlot
  BY DEF SlotsInv
<1>. QED
  BY <1>1, SlotsInvariant, PTL

(* Every open descriptor is among those thread_main hands to poll().       *)
THEOREM FdsPolled == SlotsSpec => []EveryFdPolled
<1>1. SlotsInv => EveryFdPolled
  BY DEF SlotsInv
<1>. QED
  BY <1>1, SlotsInvariant, PTL

(* user_connect meets a NULL npfd only when all MAX_PFDS - 1 slots are     *)
(* taken: killing and reconnecting never loses a slot.                     *)
THEOREM CrashMeansFull == SlotsSpec => []CrashOnlyWhenFull
<1>1. SlotsInv => CrashOnlyWhenFull
  BY DEF SlotsInv
<1>. QED
  BY <1>1, SlotsInvariant, PTL

(* Killing and reconnecting never loses a slot: each one below a slot that *)
(* was ever handed out is open or in npfd.                                 *)
THEOREM SlotsNeverLost == SlotsSpec => []NoLostSlot
<1>1. SlotsInv => NoLostSlot
  BY DEF SlotsInv
<1>. QED
  BY <1>1, SlotsInvariant, PTL

(* The free list, mpfd and the open slots stay in their ranges.            *)
THEOREM SlotsTyped == SlotsSpec => []SlotsTypeOK
<1>1. SlotsInv => SlotsTypeOK
  BY DEF SlotsInv
<1>. QED
  BY <1>1, SlotsInvariant, PTL

-----------------------------------------------------------------------------

(* What is true of a connection c at loc and the user r it belongs to. *)
Fits(loc, c, r) ==
  /\ c \in Conn
  /\ r \in User
  /\ r.conn = loc
  /\ r.state # "CAN_LOGIN" => r.stream_opened
  /\ r.stream_opened => c.sstate = "CONNECTED" /\ c.peer # "silent"
  /\ r.state = "CAN_LOGIN" => c.pending = {}
  /\ r.state = "IS_LOGGING" => c.pending \subseteq {"login"}
  /\ r.state = "LOGGED_IN" => "login" \notin c.pending

Inv ==
  /\ SlotsInv
  /\ TypeOK
  /\ Linked
  /\ PolloutIffQueued
  /\ LoggedOnStream
  /\ RepliesFitState
  /\ NothingOutlivesConn

(* How far a user comes in one step that leaves it its connection. *)
Advances(r0, r) ==
  \/ r.state = r0.state /\ r.stream_opened = r0.stream_opened
  \/ /\ r0.state = "CAN_LOGIN" /\ ~r0.stream_opened
     /\ r.state = "CAN_LOGIN" /\ r.stream_opened
  \/ /\ r0.state = "CAN_LOGIN" /\ r0.stream_opened
     /\ r.state = "IS_LOGGING" /\ r.stream_opened
  \/ /\ r0.state = "IS_LOGGING" /\ r.state = "LOGGED_IN"
     /\ r.stream_opened = r0.stream_opened

(* What may still join a queue that is too long. *)
OnlyForced(c0, r0, c, r) ==
  (c0.writer > MaxPacks /\ c.writer > c0.writer)
     => r.state # r0.state \/ c.pending # c0.pending \/ c.closing

(* The connection at loc becomes c and its user r. *)
Update(loc, c, r) ==
  LET u == conns[loc].user IN
  /\ c.user = u
  /\ Fits(loc, c, r)
  /\ Advances(users[u], r)
  /\ OnlyForced(conns[loc], users[u], c, r)
  /\ users' = [users EXCEPT ![u] = r]
  /\ conns' = [conns EXCEPT ![loc] = c]
  /\ pollout' \in [Locs -> BOOLEAN]
  /\ pollout'[loc] <=> c.writer > 0
  /\ \A l \in Locs \ {loc} : pollout'[l] = pollout[l]
  /\ inQueues' = inQueues + (c.writer - conns[loc].writer)
  /\ UNCHANGED <<slotVars, established, eventVars>>

(* The user u gets a new connection at loc. *)
Connect(u, loc, sstate) ==
  /\ users[u].conn = NULL
  /\ users[u].state = "CAN_LOGIN"
  /\ Take(loc)
  /\ users' = [users EXCEPT ![u].conn = loc]
  /\ conns' = [conns EXCEPT ![loc] = NewConn(u, sstate)]
  /\ pollout' = [pollout EXCEPT ![loc] = TRUE]
  /\ inQueues' = inQueues + 1
  /\ established' = established + 1
  /\ UNCHANGED eventVars

(* The user u has no connection and meets a full table. *)
MeetFull(u) ==
  /\ users[u].conn = NULL
  /\ Exhaust
  /\ UNCHANGED <<users, conns, pollout, inQueues, established, eventVars>>

(* The user u, without a connection, expects a kill. *)
Expect(u) ==
  /\ users[u].conn = NULL
  /\ users' = [users EXCEPT ![u].expect_kill = TRUE]
  /\ UNCHANGED <<slotVars, conns, pollout, inQueues, established, eventVars>>

(* Only the state of the events changes. *)
Quiet ==
  /\ do_events' \in BOOLEAN
  /\ events_start_after' \in Int
  /\ UNCHANGED <<slotVars, users, conns, pollout, inQueues, established>>

Kinds ==
  \/ \E loc \in Live : Kill(loc)
  \/ \E loc \in Live : \E c \in Conn, r \in User : Update(loc, c, r)
  \/ \E u \in Users, loc \in Locs, sstate \in {"CONN_IN_PROGRESS", "CONNECTED"} :
        Connect(u, loc, sstate)
  \/ \E u \in Users : MeetFull(u)
  \/ \E u \in Users : Expect(u)
  \/ Quiet

-----------------------------------------------------------------------------
(* Every live connection fits its user, and a user its connection.         *)
LEMMA LiveFits ==
  ASSUME Inv, NEW loc \in Live
  PROVE  /\ loc \in Locs
         /\ conns[loc] \in Conn
         /\ conns[loc].user \in Users
         /\ Fits(loc, conns[loc], users[conns[loc].user])
         /\ pollout[loc] <=> conns[loc].writer > 0
         /\ conns[loc].writer \in Nat
<1>1. /\ loc \in Locs /\ conns[loc] \in Conn /\ users \in [Users -> User]
      /\ pollout[loc] \in BOOLEAN
  BY DEF Inv, TypeOK, Live
<1>2. conns[loc].user \in Users /\ conns[loc].writer \in Nat
  BY <1>1 DEF Conn
<1>. DEFINE u == conns[loc].user
<1>3. users[u] \in User /\ users[u].conn = loc
  BY <1>1, <1>2 DEF Inv, Linked
<1>4. users[u].state \in {"CAN_LOGIN", "IS_LOGGING", "LOGGED_IN"}
  BY <1>3 DEF User
<1>5. /\ users[u].state # "CAN_LOGIN" => users[u].stream_opened
      /\ users[u].stream_opened =>
           conns[loc].sstate = "CONNECTED" /\ conns[loc].peer # "silent"
  BY <1>2, <1>3 DEF Inv, LoggedOnStream
<1>6. /\ users[u].state = "CAN_LOGIN" => conns[loc].pending = {}
      /\ users[u].state = "IS_LOGGING" => conns[loc].pending \subseteq {"login"}
      /\ users[u].state = "LOGGED_IN" => "login" \notin conns[loc].pending
  BY DEF Inv, RepliesFitState
<1>7. pollout[loc] <=> conns[loc].writer > 0
  BY <1>1 DEF Inv, PolloutIffQueued
<1>. QED
  BY <1>1, <1>2, <1>3, <1>5, <1>6, <1>7 DEF Fits

(* A user's connection is live and belongs to it.                          *)
LEMMA ConnOfUser ==
  ASSUME Inv, NEW u \in Users, users[u].conn # NULL
  PROVE  users[u].conn \in Live /\ conns[users[u].conn].user = u
BY DEF Inv, Linked

-----------------------------------------------------------------------------
(* The three kinds of step, and the small ones, preserve the invariant.    *)

(* jpolld_conn_kill and user_conn_kill together undo every link.           *)
LEMMA KillInv ==
  ASSUME Inv, ~crashed, NEW loc \in Live, Kill(loc)
  PROVE  Inv'
<1>. DEFINE u == conns[loc].user
<1>1. /\ loc \in Locs /\ conns[loc] \in Conn /\ u \in Users
      /\ users[u].conn = loc /\ conns[loc].writer \in Nat
  BY LiveFits DEF Fits
<1>2. /\ Release(loc)
      /\ users' = [users EXCEPT ![u] = Idle]
      /\ conns' = [conns EXCEPT ![loc] = NULL]
      /\ pollout' = [pollout EXCEPT ![loc] = FALSE]
      /\ inQueues' = inQueues - conns[loc].writer
      /\ established' = established - 1
      /\ UNCHANGED eventVars
  BY DEF Kill
<1>3. /\ users \in [Users -> User] /\ conns \in [Locs -> Conn \union {NULL}]
      /\ pollout \in [Locs -> BOOLEAN] /\ inQueues \in Int /\ established \in Int
      /\ do_events \in BOOLEAN /\ events_start_after \in Int
  BY DEF Inv, TypeOK
<1>4. SlotsInv'
  BY <1>1, <1>2, ReleaseInv DEF Inv
<1>5. Idle \in User
  BY DEF Idle, User
<1>6. TypeOK'
  <2>1. SlotsTypeOK'
    BY <1>4 DEF SlotsInv
  <2>. QED
    BY <1>1, <1>2, <1>3, <1>5, <2>1 DEF TypeOK, eventVars
<1>7. Live' = Live \ {loc}
  BY <1>1, <1>2, <1>3 DEF Live
<1>8. \A l \in Live' : /\ l \in Live /\ l \in Locs
                       /\ conns'[l] = conns[l]
                       /\ conns[l].user \in Users /\ conns[l].user # u
                       /\ users'[conns[l].user] = users[conns[l].user]
  <2>. TAKE l \in Live'
  <2>1. l \in Live /\ l # loc
    BY <1>7
  <2>2. l \in Locs /\ conns[l].user \in Users /\ users[conns[l].user].conn = l
    BY <2>1, LiveFits DEF Fits
  <2>. QED
    BY <1>1, <1>2, <1>3, <2>1, <2>2
<1>9. Linked'
  <2>1. fds' = Live'
    BY <1>2, <1>7 DEF Inv, Linked, Release
  <2>2. \A l \in Live' : users'[conns'[l].user].conn = l
    BY <1>8 DEF Inv, Linked
  <2>3. ASSUME NEW v \in Users, users'[v].conn # NULL
        PROVE  users'[v].conn \in Live' /\ conns'[users'[v].conn].user = v
    <3>1. v # u
      BY <1>1, <1>2, <1>3, <2>3 DEF Idle
    <3>2. users'[v] = users[v]
      BY <1>2, <1>3, <3>1
    <3>3. users[v].conn \in Live /\ conns[users[v].conn].user = v
      BY <2>3, <3>2, ConnOfUser
    <3>4. users[v].conn # loc
      BY <3>1, <3>3
    <3>. QED
      BY <1>7, <1>8, <3>2, <3>3, <3>4
  <2>. QED
    BY <2>1, <2>2, <2>3 DEF Linked
<1>10. PolloutIffQueued'
  <2>. SUFFICES ASSUME NEW l \in Locs
                PROVE  pollout'[l] <=> (l \in Live' /\ conns'[l].writer > 0)
    BY DEF PolloutIffQueued
  <2>1. CASE l = loc
    BY <1>2, <1>3, <1>7, <2>1
  <2>2. CASE l # loc
    BY <1>2, <1>3, <1>7, <1>8, <2>2 DEF Inv, PolloutIffQueued
  <2>. QED
    BY <2>1, <2>2
<1>11. LoggedOnStream' /\ NothingOutlivesConn'
  <2>. SUFFICES ASSUME NEW v \in Users
                PROVE  /\ users'[v].state # "CAN_LOGIN" => users'[v].stream_opened
                       /\ users'[v].stream_opened =>
                            /\ users'[v].conn \in Live'
                            /\ conns'[users'[v].conn].sstate = "CONNECTED"
                            /\ conns'[users'[v].conn].peer # "silent"
                       /\ users'[v].conn = NULL =>
                            users'[v] = [Idle EXCEPT !.expect_kill = users'[v].expect_kill]
    BY DEF LoggedOnStream, NothingOutlivesConn
  <2>1. CASE v = u
    <3>1. users'[v] = Idle
      BY <1>2, <1>3, <2>1
    <3>2. /\ Idle.state = "CAN_LOGIN" /\ Idle.stream_opened = FALSE
          /\ Idle = [Idle EXCEPT !.expect_kill = Idle.expect_kill]
      BY DEF Idle
    <3>. QED
      BY <3>1, <3>2
  <2>2. CASE v # u
    <3>1. users'[v] = users[v]
      BY <1>2, <1>3, <2>2
    <3>2. /\ users[v].state # "CAN_LOGIN" => users[v].stream_opened
          /\ users[v].stream_opened =>
               /\ users[v].conn \in Live
               /\ conns[users[v].conn].sstate = "CONNECTED"
               /\ conns[users[v].conn].peer # "silent"
          /\ users[v].conn = NULL =>
               users[v] = [Idle EXCEPT !.expect_kill = users[v].expect_kill]
      BY DEF Inv, LoggedOnStream, NothingOutlivesConn
    <3>3. users[v].conn \in Live => users[v].conn \in Live' /\ users[v].conn # loc
      <4>1. ASSUME users[v].conn \in Live PROVE users[v].conn # NULL
        BY <4>1, SimulatorConstants DEF Live
      <4>2. ASSUME users[v].conn \in Live PROVE conns[users[v].conn].user = v
        BY <4>1, <4>2, ConnOfUser
      <4>. QED
        BY <1>7, <2>2, <4>2
    <3>. QED
      BY <1>8, <3>1, <3>2, <3>3
  <2>. QED
    BY <2>1, <2>2
<1>12. RepliesFitState'
  BY <1>8 DEF Inv, RepliesFitState
<1>. QED
  BY <1>4, <1>6, <1>9, <1>10, <1>11, <1>12 DEF Inv

(* A handler that changes a connection and its user leaves them fitting.   *)
LEMMA UpdateInv ==
  ASSUME Inv, NEW loc \in Live, NEW c \in Conn, NEW r \in User, Update(loc, c, r)
  PROVE  Inv'
<1>. DEFINE u == conns[loc].user
<1>1. loc \in Locs /\ u \in Users /\ users[u].conn = loc
  BY LiveFits DEF Fits
<1>2. /\ c.user = u
      /\ Fits(loc, c, r)
      /\ users' = [users EXCEPT ![u] = r]
      /\ conns' = [conns EXCEPT ![loc] = c]
      /\ pollout' \in [Locs -> BOOLEAN]
      /\ pollout'[loc] <=> c.writer > 0
      /\ \A l \in Locs \ {loc} : pollout'[l] = pollout[l]
      /\ inQueues' \in Int
      /\ npfd' = npfd /\ mpfd' = mpfd /\ fds' = fds /\ crashed' = crashed
      /\ established' = established
      /\ do_events' = do_events /\ events_start_after' = events_start_after
  <2>1. c.writer \in Nat /\ conns[loc].writer \in Nat /\ inQueues \in Int
    BY LiveFits DEF Conn, Inv, TypeOK
  <2>. QED
    BY <2>1 DEF Update, slotVars, eventVars
<1>3. /\ users \in [Users -> User] /\ conns \in [Locs -> Conn \union {NULL}]
      /\ pollout \in [Locs -> BOOLEAN] /\ established \in Int
      /\ do_events \in BOOLEAN /\ events_start_after \in Int
  BY DEF Inv, TypeOK
<1>4. SlotsInv'
  BY <1>2, SlotsNextInv DEF Inv, slotVars
<1>5. TypeOK'
  <2>1. SlotsTypeOK'
    BY <1>4 DEF SlotsInv
  <2>. QED
    BY <1>1, <1>2, <1>3, <2>1 DEF TypeOK
<1>6. c # NULL
  BY SimulatorConstants
<1>7. Live' = Live
  BY <1>1, <1>2, <1>3, <1>6 DEF Live
<1>8. ASSUME NEW l \in Live, l # loc
      PROVE  /\ l \in Locs /\ conns'[l] = conns[l]
             /\ conns[l].user \in Users /\ conns[l].user # u
             /\ users'[conns[l].user] = users[conns[l].user]
  <2>1. l \in Locs /\ conns[l].user \in Users /\ users[conns[l].user].conn = l
    BY LiveFits DEF Fits
  <2>. QED
    BY <1>1, <1>2, <1>3, <1>8, <2>1
<1>9. conns'[loc] = c /\ users'[u] = r /\ (pollout'[loc] <=> c.writer > 0)
  BY <1>1, <1>2, <1>3
<1>10. r.conn = loc
  BY <1>2 DEF Fits
<1>11. ASSUME NEW v \in Users, v # u
       PROVE  /\ users'[v] = users[v]
              /\ users[v].conn \in Live =>
                   users[v].conn # loc /\ conns'[users[v].conn] = conns[users[v].conn]
  <2>1. users'[v] = users[v]
    BY <1>2, <1>3, <1>11
  <2>2. ASSUME users[v].conn \in Live PROVE users[v].conn # loc
    <3>1. users[v].conn # NULL
      BY <2>2, SimulatorConstants DEF Live
    <3>2. conns[users[v].conn].user = v
      BY <3>1, ConnOfUser
    <3>. QED
      BY <1>11, <3>2
  <2>. QED
    BY <1>8, <2>1, <2>2
<1>12. Linked'
  <2>1. fds' = Live'
    BY <1>2, <1>7 DEF Inv, Linked
  <2>2. ASSUME NEW l \in Live' PROVE users'[conns'[l].user].conn = l
    <3>1. CASE l = loc
      BY <1>2, <1>9, <1>10, <3>1
    <3>2. CASE l # loc
      BY <1>7, <1>8, <3>2 DEF Inv, Linked
    <3>. QED
      BY <3>1, <3>2
  <2>3. ASSUME NEW v \in Users, users'[v].conn # NULL
        PROVE  users'[v].conn \in Live' /\ conns'[users'[v].conn].user = v
    <3>1. CASE v = u
      BY <1>2, <1>7, <1>9, <1>10, <3>1
    <3>2. CASE v # u
      BY <1>7, <1>11, <2>3, <3>2, ConnOfUser
    <3>. QED
      BY <3>1, <3>2
  <2>. QED
    BY <2>1, <2>2, <2>3 DEF Linked
<1>13. PolloutIffQueued'
  <2>. SUFFICES ASSUME NEW l \in Locs
                PROVE  pollout'[l] <=> (l \in Live' /\ conns'[l].writer > 0)
    BY DEF PolloutIffQueued
  <2>1. CASE l = loc
    BY <1>7, <1>9, <2>1
  <2>2. CASE l # loc
    <3>1. pollout'[l] = pollout[l]
      BY <1>2, <1>3, <2>2
    <3>2. pollout[l] <=> (l \in Live /\ conns[l].writer > 0)
      BY DEF Inv, PolloutIffQueued
    <3>. QED
      BY <1>7, <1>8, <2>2, <3>1, <3>2
  <2>. QED
    BY <2>1, <2>2
<1>14. LoggedOnStream' /\ NothingOutlivesConn'
  <2>. SUFFICES ASSUME NEW v \in Users
                PROVE  /\ users'[v].state # "CAN_LOGIN" => users'[v].stream_opened
                       /\ users'[v].stream_opened =>
                            /\ users'[v].conn \in Live'
                            /\ conns'[users'[v].conn].sstate = "CONNECTED"
                            /\ conns'[users'[v].conn].peer # "silent"
                       /\ users'[v].conn = NULL =>
                            users'[v] = [Idle EXCEPT !.expect_kill = users'[v].expect_kill]
    BY DEF LoggedOnStream, NothingOutlivesConn
  <2>1. CASE v = u
    <3>1. users'[v] = r /\ loc # NULL
      BY <1>1, <1>9, <2>1, SimulatorConstants
    <3>. QED
      BY <1>2, <1>7, <1>9, <3>1 DEF Fits
  <2>2. CASE v # u
    <3>1. /\ users[v].state # "CAN_LOGIN" => users[v].stream_opened
          /\ users[v].stream_opened =>
               /\ users[v].conn \in Live
               /\ conns[users[v].conn].sstate = "CONNECTED"
               /\ conns[users[v].conn].peer # "silent"
          /\ users[v].conn = NULL =>
               users[v] = [Idle EXCEPT !.expect_kill = users[v].expect_kill]
      BY DEF Inv, LoggedOnStream, NothingOutlivesConn
    <3>. QED
      BY <1>7, <1>11, <2>2, <3>1
  <2>. QED
    BY <2>1, <2>2
<1>15. RepliesFitState'
  <2>. SUFFICES ASSUME NEW l \in Live'
                PROVE  LET state == users'[conns'[l].user].state IN
                       /\ state = "CAN_LOGIN" => conns'[l].pending = {}
                       /\ state = "IS_LOGGING" => conns'[l].pending \subseteq {"login"}
                       /\ state = "LOGGED_IN" => "login" \notin conns'[l].pending
    BY DEF RepliesFitState
  <2>1. CASE l = loc
    BY <1>2, <1>9, <2>1 DEF Fits
  <2>2. CASE l # loc
    BY <1>7, <1>8, <2>2 DEF Inv, RepliesFitState
  <2>. QED
    BY <2>1, <2>2
<1>. QED
  BY <1>4, <1>5, <1>12, <1>13, <1>14, <1>15 DEF Inv

(* user_connect links a user and a connection that had no partner.         *)
LEMMA ConnectInv ==
  ASSUME Inv, NEW u \in Users, NEW loc \in Locs,
         NEW sstate \in {"CONN_IN_PROGRESS", "CONNECTED"}, Connect(u, loc, sstate)
  PROVE  Inv'
<1>. DEFINE c == NewConn(u, sstate)
<1>. DEFINE r == [users[u] EXCEPT !.conn = loc]
<1>1. /\ users[u].conn = NULL
      /\ users[u].state = "CAN_LOGIN"
      /\ Take(loc)
      /\ users' = [users EXCEPT ![u] = r]
      /\ conns' = [conns EXCEPT ![loc] = c]
      /\ pollout' = [pollout EXCEPT ![loc] = TRUE]
      /\ inQueues' = inQueues + 1
      /\ established' = established + 1
      /\ do_events' = do_events /\ events_start_after' = events_start_after
  BY DEF Connect, eventVars
<1>2. /\ users \in [Users -> User] /\ conns \in [Locs -> Conn \union {NULL}]
      /\ pollout \in [Locs -> BOOLEAN] /\ inQueues \in Int /\ established \in Int
      /\ do_events \in BOOLEAN /\ events_start_after \in Int
  BY DEF Inv, TypeOK
<1>3. SlotsInv'
  BY <1>1, TakeInv DEF Inv
<1>4. loc \notin Live
  <2>1. loc \in Elements(Available)
    <3>1. Available \in Seq(Locs) /\ Distinct(Available) /\ Available # << >>
      BY <1>1, AvailableFacts DEF Inv, Take
    <3>. QED
      BY <1>1, <3>1, PopFacts DEF Take
  <2>. QED
    BY <2>1, AvailableFacts DEF Inv, Linked
<1>5. /\ users[u].stream_opened = FALSE
      /\ r \in User /\ r.conn = loc /\ r.stream_opened = FALSE /\ r.state = "CAN_LOGIN"
  <2>1. users[u] = [Idle EXCEPT !.expect_kill = users[u].expect_kill]
    BY <1>1 DEF Inv, NothingOutlivesConn
  <2>2. users[u].stream_opened = FALSE
    BY <2>1 DEF Idle
  <2>3. users[u] \in User
    BY <1>2
  <2>. QED
    BY <1>1, <2>2, <2>3 DEF User
<1>6. /\ c \in Conn /\ c.user = u /\ c.pending = {} /\ c.writer = 1
  BY DEF NewConn, Conn
<1>. HIDE DEF c, r
<1>7. conns'[loc] = c /\ users'[u] = r /\ pollout'[loc] = TRUE
  BY <1>1, <1>2
<1>8. Live' = Live \union {loc}
  <2>1. c # NULL
    BY <1>6, SimulatorConstants
  <2>. QED
    BY <1>1, <1>2, <2>1 DEF Live
<1>9. TypeOK'
  <2>1. SlotsTypeOK'
    BY <1>3 DEF SlotsInv
  <2>. QED
    BY <1>1, <1>2, <1>5, <1>6, <2>1 DEF TypeOK
<1>10. ASSUME NEW l \in Live
       PROVE  /\ l \in Locs /\ l # loc /\ conns'[l] = conns[l]
              /\ conns[l].user \in Users /\ conns[l].user # u
              /\ users'[conns[l].user] = users[conns[l].user]
  <2>1. l \in Locs /\ conns[l].user \in Users /\ users[conns[l].user].conn = l
    BY LiveFits DEF Fits
  <2>2. l # NULL
    BY <2>1, SimulatorConstants
  <2>. QED
    BY <1>1, <1>2, <1>4, <2>1, <2>2
<1>11. ASSUME NEW v \in Users, v # u PROVE users'[v] = users[v]
  BY <1>1, <1>2, <1>11
<1>12. Linked'
  <2>1. fds' = Live'
    BY <1>1, <1>8 DEF Inv, Linked, Take
  <2>2. ASSUME NEW l \in Live' PROVE users'[conns'[l].user].conn = l
    <3>1. CASE l = loc
      BY <1>5, <1>6, <1>7, <3>1
    <3>2. CASE l # loc
      BY <1>8, <1>10, <3>2 DEF Inv, Linked
    <3>. QED
      BY <3>1, <3>2
  <2>3. ASSUME NEW v \in Users, users'[v].conn # NULL
        PROVE  users'[v].conn \in Live' /\ conns'[users'[v].conn].user = v
    <3>1. CASE v = u
      BY <1>5, <1>6, <1>7, <1>8, <3>1
    <3>2. CASE v # u
      <4>1. users[v].conn \in Live /\ conns[users[v].conn].user = v
        BY <1>11, <2>3, <3>2, ConnOfUser
      <4>. QED
        BY <1>8, <1>10, <1>11, <3>2, <4>1
    <3>. QED
      BY <3>1, <3>2
  <2>. QED
    BY <2>1, <2>2, <2>3 DEF Linked
<1>13. PolloutIffQueued'
  <2>. SUFFICES ASSUME NEW l \in Locs
                PROVE  pollout'[l] <=> (l \in Live' /\ conns'[l].writer > 0)
    BY DEF PolloutIffQueued
  <2>1. CASE l = loc
    BY <1>6, <1>7, <1>8, <2>1
  <2>2. CASE l # loc
    <3>1. pollout'[l] = pollout[l]
      BY <1>1, <1>2, <2>2
    <3>2. pollout[l] <=> (l \in Live /\ conns[l].writer > 0)
      BY DEF Inv, PolloutIffQueued
    <3>. QED
      BY <1>8, <1>10, <2>2, <3>1, <3>2
  <2>. QED
    BY <2>1, <2>2
<1>14. LoggedOnStream' /\ NothingOutlivesConn'
  <2>. SUFFICES ASSUME NEW v \in Users
                PROVE  /\ users'[v].state # "CAN_LOGIN" => users'[v].stream_opened
                       /\ users'[v].stream_opened =>
                            /\ users'[v].conn \in Live'
                            /\ conns'[users'[v].conn].sstate = "CONNECTED"
                            /\ conns'[users'[v].conn].peer # "silent"
                       /\ users'[v].conn = NULL =>
                            users'[v] = [Idle EXCEPT !.expect_kill = users'[v].expect_kill]
    BY DEF LoggedOnStream, NothingOutlivesConn
  <2>1. CASE v = u
    <3>1. users'[v] = r /\ loc # NULL
      BY <1>7, <2>1, SimulatorConstants
    <3>. QED
      BY <1>5, <3>1
  <2>2. CASE v # u
    <3>1. /\ users[v].state # "CAN_LOGIN" => users[v].stream_opened
          /\ users[v].stream_opened =>
               /\ users[v].conn \in Live
               /\ conns[users[v].conn].sstate = "CONNECTED"
               /\ conns[users[v].conn].peer # "silent"
          /\ users[v].conn = NULL =>
               users[v] = [Idle EXCEPT !.expect_kill = users[v].expect_kill]
      BY DEF Inv, LoggedOnStream, NothingOutlivesConn
    <3>. QED
      BY <1>8, <1>10, <1>11, <2>2, <3>1
  <2>. QED
    BY <2>1, <2>2
<1>15. RepliesFitState'
  <2>. SUFFICES ASSUME NEW l \in Live'
                PROVE  LET state == users'[conns'[l].user].state IN
                       /\ state = "CAN_LOGIN" => conns'[l].pending = {}
                       /\ state = "IS_LOGGING" => conns'[l].pending \subseteq {"login"}
                       /\ state = "LOGGED_IN" => "login" \notin conns'[l].pending
    BY DEF RepliesFitState
  <2>1. CASE l = loc
    BY <1>5, <1>6, <1>7, <2>1
  <2>2. CASE l # loc
    BY <1>8, <1>10, <2>2 DEF Inv, RepliesFitState
  <2>. QED
    BY <2>1, <2>2
<1>. QED
  BY <1>3, <1>9, <1>12, <1>13, <1>14, <1>15 DEF Inv

(* The small steps: a full table, raw bytes without a connection, and the  *)
(* statistics.                                                             *)
LEMMA SmallInv ==
  ASSUME Inv, ~crashed,
         (\E u \in Users : MeetFull(u)) \/ (\E u \in Users : Expect(u)) \/ Quiet
  PROVE  Inv'
<1>1. CASE \E u \in Users : MeetFull(u)
  <2>1. /\ Exhaust
        /\ UNCHANGED <<users, conns, pollout, inQueues, established, eventVars>>
    BY <1>1 DEF MeetFull
  <2>2. SlotsInv'
    BY <2>1, SlotsNextInv DEF Inv, SlotsNext
  <2>3. fds' = fds /\ Live' = Live
    BY <2>1 DEF Exhaust, Live
  <2>. QED
    BY <2>1, <2>2, <2>3 DEF eventVars, SlotsInv, Inv, TypeOK, Linked, PolloutIffQueued,
         LoggedOnStream, RepliesFitState, NothingOutlivesConn
<1>2. ASSUME NEW u \in Users, Expect(u) PROVE Inv'
  <2>1. /\ users[u].conn = NULL
        /\ users' = [users EXCEPT ![u].expect_kill = TRUE]
        /\ UNCHANGED <<slotVars, conns, pollout, inQueues, established, eventVars>>
    BY <1>2 DEF Expect
  <2>2. SlotsInv'
    BY <2>1, SlotsNextInv DEF Inv
  <2>3. users \in [Users -> User] /\ users[u] = [Idle EXCEPT !.expect_kill = users[u].expect_kill]
    BY <2>1 DEF Inv, TypeOK, NothingOutlivesConn
  <2>4. /\ users'[u] = [Idle EXCEPT !.expect_kill = TRUE]
        /\ users'[u] = [Idle EXCEPT !.expect_kill = users'[u].expect_kill]
        /\ users'[u] \in User
        /\ users'[u].conn = NULL /\ users'[u].stream_opened = FALSE
        /\ users'[u].state = "CAN_LOGIN"
    BY <2>1, <2>3 DEF Idle, User
  <2>5. \A v \in Users \ {u} : users'[v] = users[v]
    BY <2>1, <2>3
  <2>6. users' \in [Users -> User]
    BY <2>1, <2>3, <2>4
  <2>7. fds' = fds /\ Live' = Live /\ conns' = conns
    BY <2>1 DEF slotVars, Live
  <2>8. \A l \in Live : /\ conns[l].user \in Users \ {u}
                        /\ users'[conns[l].user] = users[conns[l].user]
    <3>. TAKE l \in Live
    <3>1. /\ l \in Locs /\ conns[l].user \in Users /\ users[conns[l].user].conn = l
      BY LiveFits DEF Fits
    <3>. QED
      BY <2>1, <2>5, <3>1, SimulatorConstants
  <2>9. TypeOK'
    BY <2>1, <2>2, <2>6 DEF Inv, SlotsInv, TypeOK, eventVars
  <2>10. Linked'
    BY <2>4, <2>5, <2>7, <2>8 DEF Inv, Linked
  <2>11. PolloutIffQueued'
    BY <2>1 DEF Inv, PolloutIffQueued, Live
  <2>12. LoggedOnStream' /\ NothingOutlivesConn'
    <3>. SUFFICES ASSUME NEW v \in Users
                  PROVE  /\ users'[v].state # "CAN_LOGIN" => users'[v].stream_opened
                         /\ users'[v].stream_opened =>
                              /\ users'[v].conn \in Live'
                              /\ conns'[users'[v].conn].sstate = "CONNECTED"
                              /\ conns'[users'[v].conn].peer # "silent"
                         /\ users'[v].conn = NULL =>
                              users'[v] = [Idle EXCEPT !.expect_kill = users'[v].expect_kill]
      BY DEF LoggedOnStream, NothingOutlivesConn
    <3>1. CASE v = u
      BY <2>4, <3>1
    <3>2. CASE v # u
      BY <2>5, <2>7, <3>2 DEF Inv, LoggedOnStream, NothingOutlivesConn
    <3>. QED
      BY <3>1, <3>2
  <2>13. RepliesFitState'
    BY <2>7, <2>8 DEF Inv, RepliesFitState
  <2>. QED
    BY <2>2, <2>9, <2>10, <2>11, <2>12, <2>13 DEF Inv
<1>3. CASE Quiet
  <2>1. /\ do_events' \in BOOLEAN
        /\ events_start_after' \in Int
        /\ UNCHANGED <<slotVars, users, conns, pollout, inQueues, established>>
    BY <1>3 DEF Quiet
  <2>2. SlotsInv'
    BY <2>1, SlotsNextInv DEF Inv
  <2>3. fds' = fds /\ Live' = Live
    BY <2>1 DEF slotVars, Live
  <2>. QED
    BY <2>1, <2>2, <2>3 DEF SlotsInv, Inv, TypeOK, Linked, PolloutIffQueued,
         LoggedOnStream, RepliesFitState, NothingOutlivesConn
<1>. QED
  BY <1>1, <1>2, <1>3

(* A step of each kind keeps the invariant. *)
LEMMA KindsInv == Inv /\ ~crashed /\ Kinds => Inv'
BY KillInv, UpdateInv, ConnectInv, SmallInv DEF Kinds

-----------------------------------------------------------------------------
(* Every action is a step of one of the kinds.                             *)

(* Become, with a queue no shorter than before, is an update.              *)
LEMMA BecomeUpdate ==
  ASSUME Inv, NEW loc \in Live, NEW c, NEW r,
         Become(loc, c),
         c.writer \in Nat, c.writer >= conns[loc].writer,
         c.user = conns[loc].user,
         Fits(loc, c, r),
         Advances(users[conns[loc].user], r),
         OnlyForced(conns[loc], users[conns[loc].user], c, r),
         users' = [users EXCEPT ![conns[loc].user] = r],
         UNCHANGED <<slotVars, established, eventVars>>
  PROVE  Kinds
<1>1. /\ conns' = [conns EXCEPT ![loc] = c]
      /\ pollout' = [pollout EXCEPT ![loc] = @ \/ c.writer > conns[loc].writer]
      /\ inQueues' = inQueues + (c.writer - conns[loc].writer)
  BY DEF Become
<1>2. (pollout[loc] <=> conns[loc].writer > 0) /\ conns[loc].writer \in Nat /\ loc \in Locs
  BY LiveFits
<1>3. (pollout[loc] \/ c.writer > conns[loc].writer) <=> (c.writer > 0)
  BY <1>2
<1>4. /\ pollout' \in [Locs -> BOOLEAN]
      /\ pollout'[loc] <=> c.writer > 0
      /\ \A l \in Locs \ {loc} : pollout'[l] = pollout[l]
  <2>1. pollout \in [Locs -> BOOLEAN]
    BY DEF Inv, TypeOK
  <2>. QED
    BY <1>1, <1>2, <1>3, <2>1
<1>6. c \in Conn /\ r \in User
  BY DEF Fits
<1>7. Update(loc, c, r)
  BY <1>1, <1>4 DEF Update
<1>. QED
  BY <1>6, <1>7 DEF Kinds

(* A handler that leaves the queue alone is an update as well.             *)
LEMMA SameQueueUpdate ==
  ASSUME Inv, NEW loc \in Live, NEW c, NEW r,
         c.writer = conns[loc].writer,
         c.user = conns[loc].user,
         Fits(loc, c, r),
         Advances(users[conns[loc].user], r),
         conns' = [conns EXCEPT ![loc] = c],
         users' = [users EXCEPT ![conns[loc].user] = r],
         UNCHANGED <<slotVars, pollout, inQueues, established, eventVars>>
  PROVE  Kinds
<1>1. (pollout[loc] <=> conns[loc].writer > 0) /\ loc \in Locs /\ conns[loc].writer \in Nat
  BY LiveFits
<1>2. /\ pollout' \in [Locs -> BOOLEAN]
      /\ pollout'[loc] <=> c.writer > 0
      /\ \A l \in Locs \ {loc} : pollout'[l] = pollout[l]
  BY <1>1 DEF Inv, TypeOK
<1>3. inQueues' = inQueues + (c.writer - conns[loc].writer)
  BY <1>1 DEF Inv, TypeOK
<1>4. OnlyForced(conns[loc], users[conns[loc].user], c, r)
  BY <1>1 DEF OnlyForced
<1>5. c \in Conn /\ r \in User
  BY DEF Fits
<1>6. Update(loc, c, r)
  BY <1>2, <1>3, <1>4 DEF Update
<1>. QED
  BY <1>5, <1>6 DEF Kinds

-----------------------------------------------------------------------------
(* The actions of the sockets.                                             *)

(* A connection that poll() reports on is live.                            *)
LEMMA PolledLive ==
  ASSUME Inv, NEW loc, Polled(loc)
  PROVE  loc \in Live
BY DEF Polled, Inv, Linked

(* A kill is a step of its kind. *)
LEMMA KillKinds ==
  ASSUME Inv, NEW loc, Kill(loc)
  PROVE  Kinds
<1>1. loc \in Live
  BY DEF Inv, Linked, Kill, Release
<1>. QED
  BY <1>1 DEF Kinds

(* A live connection and its user, as an update finds them.                *)
LEMMA Before ==
  ASSUME Inv, NEW loc \in Live
  PROVE  LET c0 == conns[loc]
             r0 == users[c0.user]
         IN  /\ c0 \in Conn /\ c0.user \in Users /\ Fits(loc, c0, r0)
             /\ users = [users EXCEPT ![c0.user] = r0]
             /\ conns = [conns EXCEPT ![loc] = c0]
             /\ c0.writer \in Nat
             /\ Advances(r0, r0)
<1>1. users \in [Users -> User] /\ conns \in [Locs -> Conn \union {NULL}]
  BY DEF Inv, TypeOK
<1>. QED
  BY <1>1, LiveFits DEF Advances

(* An event of a socket is a step of one of the kinds. *)
LEMMA SocketKinds ==
  ASSUME Inv, NEW loc \in Locs, SocketEvent(loc)
  PROVE  Kinds
<1>. DEFINE c0 == conns[loc]
<1>. DEFINE r0 == users[c0.user]
<1>1. loc \in Live => /\ c0 \in Conn /\ c0.user \in Users /\ Fits(loc, c0, r0)
                      /\ users = [users EXCEPT ![c0.user] = r0]
                      /\ c0.writer \in Nat
                      /\ Advances(r0, r0)
  BY Before
<1>2. CASE handle_POLLERR(loc)
  BY <1>2, KillKinds DEF handle_POLLERR
<1>3. CASE AsyncConnected(loc)
  <2>. DEFINE c == [c0 EXCEPT !.sstate = "CONNECTED"]
  <2>1. /\ loc \in Live
        /\ conns' = [conns EXCEPT ![loc] = c]
        /\ UNCHANGED <<slotVars, users, pollout, inQueues, established, eventVars>>
    BY <1>3, PolledLive DEF AsyncConnected
  <2>2. c.writer = c0.writer /\ c.user = c0.user /\ Fits(loc, c, r0)
    BY <1>1, <2>1 DEF Fits, Conn
  <2>. QED
    BY <1>1, <2>1, <2>2, SameQueueUpdate
<1>4. ASSUME NEW n \in 0 .. MaxWriter, WriteSome(loc, n) PROVE Kinds
  <2>. DEFINE c == [c0 EXCEPT !.writer = @ - n]
  <2>1. /\ loc \in Live /\ n < c0.writer
        /\ pollout[loc]
        /\ conns' = [conns EXCEPT ![loc] = c]
        /\ inQueues' = inQueues - n
        /\ UNCHANGED <<slotVars, users, pollout, established, eventVars>>
    BY <1>4, PolledLive DEF WriteSome, Ready
  <2>2. n \in Nat /\ c0.writer - n \in Nat /\ c0.writer - n > 0
    BY <1>1, <2>1, SimulatorConstants
  <2>3. c.writer = c0.writer - n /\ c.user = c0.user /\ Fits(loc, c, r0)
    BY <1>1, <2>1, <2>2 DEF Fits, Conn
  <2>4. /\ pollout' \in [Locs -> BOOLEAN]
        /\ pollout'[loc] <=> c.writer > 0
        /\ \A l \in Locs \ {loc} : pollout'[l] = pollout[l]
    <3>1. pollout \in [Locs -> BOOLEAN] /\ pollout[loc]
      BY <2>1 DEF Inv, TypeOK
    <3>2. c.writer > 0
      BY <2>2, <2>3
    <3>. QED
      BY <2>1, <3>1, <3>2
  <2>5. inQueues' = inQueues + (c.writer - c0.writer)
    BY <1>1, <2>1, <2>2, <2>3 DEF Inv, TypeOK
  <2>6. OnlyForced(c0, r0, c, r0)
    BY <1>1, <2>1, <2>2, <2>3 DEF OnlyForced
  <2>7. c \in Conn /\ r0 \in User /\ Update(loc, c, r0)
    BY <1>1, <2>1, <2>3, <2>4, <2>5, <2>6 DEF Update, Fits
  <2>. QED
    BY <2>1, <2>7 DEF Kinds
<1>5. CASE WriteError(loc)
  BY <1>5, KillKinds DEF WriteError
<1>6. CASE WriteAll(loc)
  <2>1. CASE c0.closing
    BY <1>6, <2>1, KillKinds DEF WriteAll
  <2>2. CASE ~c0.closing
    <3>. DEFINE c == [c0 EXCEPT !.writer = 0]
    <3>1. /\ loc \in Live /\ c0.writer > 0
          /\ pollout[loc]
          /\ conns' = [conns EXCEPT ![loc] = c]
          /\ pollout' = [pollout EXCEPT ![loc] = ~@]
          /\ inQueues' = inQueues - c0.writer
          /\ UNCHANGED <<slotVars, users, established, eventVars>>
      BY <1>6, <2>2, PolledLive DEF WriteAll, Ready
    <3>2. c.writer = 0 /\ c.user = c0.user /\ Fits(loc, c, r0)
      BY <1>1, <3>1 DEF Fits, Conn
    <3>3. /\ pollout' \in [Locs -> BOOLEAN]
          /\ pollout'[loc] <=> c.writer > 0
          /\ \A l \in Locs \ {loc} : pollout'[l] = pollout[l]
      <4>1. pollout \in [Locs -> BOOLEAN] /\ pollout[loc]
        BY <3>1 DEF Inv, TypeOK
      <4>2. ~(c.writer > 0)
        BY <3>2
      <4>. QED
        BY <3>1, <4>1, <4>2
    <3>4. inQueues' = inQueues + (c.writer - c0.writer)
      BY <1>1, <3>1, <3>2 DEF Inv, TypeOK
    <3>5. OnlyForced(c0, r0, c, r0)
      BY <1>1, <3>1, <3>2 DEF OnlyForced
    <3>6. c \in Conn /\ r0 \in User /\ Update(loc, c, r0)
      BY <1>1, <3>1, <3>2, <3>3, <3>4, <3>5 DEF Update, Fits
    <3>. QED
      BY <3>1, <3>6 DEF Kinds
  <2>. QED
    BY <2>1, <2>2
<1>. QED
  BY <1>2, <1>3, <1>4, <1>5, <1>6 DEF SocketEvent

(* One unforced packet, and nothing else.                                  *)
LEMMA OfferFacts ==
  ASSUME NEW c \in Conn
  PROVE  /\ Offer(c) \in Conn
         /\ Offer(c).user = c.user /\ Offer(c).closing = c.closing
         /\ Offer(c).sstate = c.sstate /\ Offer(c).pending = c.pending
         /\ Offer(c).peer = c.peer
         /\ c.writer \in Nat
         /\ Offer(c).writer \in {c.writer, c.writer + 1}
         /\ c.writer > MaxPacks => Offer(c) = c
<1>1. c.writer \in Nat
  BY DEF Conn
<1>2. CASE c.writer > MaxPacks
  BY <1>1, <1>2 DEF Offer
<1>3. CASE ~(c.writer > MaxPacks)
  BY <1>1, <1>3 DEF Offer, Enqueue, Conn
<1>. QED
  BY <1>2, <1>3

(* What a user sends is a step of one of the kinds. *)
LEMMA OfferKinds ==
  ASSUME Inv, NEW loc \in Live,
         Become(loc, Offer(conns[loc])),
         UNCHANGED <<slotVars, users, established, eventVars>>
  PROVE  Kinds
<1>. DEFINE c0 == conns[loc]
<1>. DEFINE r0 == users[c0.user]
<1>. DEFINE c == Offer(c0)
<1>1. /\ c0 \in Conn /\ c0.user \in Users /\ Fits(loc, c0, r0)
      /\ users = [users EXCEPT ![c0.user] = r0]
      /\ c0.writer \in Nat
      /\ Advances(r0, r0)
  BY Before
<1>3. /\ c.writer \in {c0.writer, c0.writer + 1}
      /\ c.user = c0.user /\ Fits(loc, c, r0)
      /\ c0.writer > MaxPacks => c.writer = c0.writer
  BY <1>1, OfferFacts DEF Fits
<1>4. OnlyForced(c0, r0, c, r0)
  BY <1>1, <1>3 DEF OnlyForced
<1>5. c.writer \in Nat /\ c.writer >= c0.writer
  BY <1>1, <1>3
<1>. HIDE DEF c
<1>. QED
  BY <1>1, <1>3, <1>4, <1>5, BecomeUpdate DEF c

-----------------------------------------------------------------------------
(* The actions of the server's stream.                                     *)
LEMMA StreamKinds ==
  ASSUME Inv, NEW loc \in Locs, StreamEvent(loc)
  PROVE  Kinds
<1>. DEFINE c0 == conns[loc]
<1>. DEFINE r0 == users[c0.user]
<1>1. /\ loc \in Live
      /\ c0 \in Conn /\ c0.user \in Users /\ Fits(loc, c0, r0)
      /\ users = [users EXCEPT ![c0.user] = r0]
      /\ conns = [conns EXCEPT ![loc] = c0]
      /\ c0.writer \in Nat
      /\ Advances(r0, r0)
      /\ c0.sstate = "CONNECTED"
  <2>1. loc \in Live /\ c0.sstate = "CONNECTED"
    <3>1. Ready(loc)
      BY DEF StreamEvent, StreamRoot, StreamEnd, ErrorResponse, LoginRefused, LoginAccepted,
           handle_numextcontacts_response, handle_extcontacts, handle_roster_response,
           handle_roster_set_response, handle_presence, handle_message, Answers, Node
    <3>. QED
      BY <3>1, PolledLive DEF Ready
  <2>. QED
    BY <2>1, Before
<1>2. r0 \in User /\ r0.state \in {"CAN_LOGIN", "IS_LOGGING", "LOGGED_IN"}
  BY <1>1 DEF Fits, User
<1>3. CASE StreamRoot(loc)
  <2>. DEFINE c == [c0 EXCEPT !.peer = "open"]
  <2>. DEFINE r == [r0 EXCEPT !.stream_opened = TRUE]
  <2>1. /\ c0.peer = "silent"
        /\ conns' = [conns EXCEPT ![loc] = c]
        /\ users' = [users EXCEPT ![c0.user] = r]
        /\ UNCHANGED <<slotVars, pollout, inQueues, established, eventVars>>
    BY <1>3 DEF StreamRoot
  <2>2. r0.stream_opened = FALSE /\ r0.state = "CAN_LOGIN"
    BY <1>1, <1>2, <2>1 DEF Fits, User
  <2>3. c.writer = c0.writer /\ c.user = c0.user /\ Fits(loc, c, r)
    BY <1>1, <1>2, <2>2 DEF Fits, Conn, User
  <2>4. Advances(r0, r)
    BY <1>2, <2>2 DEF Advances, User
  <2>. QED
    BY <1>1, <2>1, <2>3, <2>4, SameQueueUpdate
<1>4. CASE StreamEnd(loc)
  <2>. DEFINE c == [c0 EXCEPT !.peer = "over", !.closing = TRUE]
  <2>1. /\ conns' = [conns EXCEPT ![loc] = c]
        /\ UNCHANGED <<slotVars, users, pollout, inQueues, established, eventVars>>
    BY <1>4 DEF StreamEnd, user_finish_conn
  <2>2. c.writer = c0.writer /\ c.user = c0.user /\ Fits(loc, c, r0)
    BY <1>1 DEF Fits, Conn
  <2>. QED
    BY <1>1, <2>1, <2>2, SameQueueUpdate
<1>5. ASSUME NEW reply \in Replies, ErrorResponse(loc, reply) PROVE Kinds
  <2>. DEFINE c == [c0 EXCEPT !.pending = @ \ {reply}]
  <2>1. /\ conns' = [conns EXCEPT ![loc] = c]
        /\ UNCHANGED <<slotVars, users, pollout, inQueues, established, eventVars>>
    BY <1>5 DEF ErrorResponse, Answered
  <2>2. c.writer = c0.writer /\ c.user = c0.user /\ Fits(loc, c, r0)
    BY <1>1 DEF Fits, Conn
  <2>. QED
    BY <1>1, <2>1, <2>2, SameQueueUpdate
<1>6. CASE LoginRefused(loc)
  <2>. DEFINE c == [c0 EXCEPT !.pending = @ \ {"login"}, !.closing = TRUE]
  <2>. DEFINE r == [r0 EXCEPT !.expect_kill = TRUE]
  <2>1. /\ conns' = [conns EXCEPT ![loc] = c]
        /\ users' = [users EXCEPT ![c0.user] = r]
        /\ UNCHANGED <<slotVars, pollout, inQueues, established, eventVars>>
    BY <1>1, <1>6 DEF LoginRefused, Answered, user_finish_conn, Conn
  <2>2. c.writer = c0.writer /\ c.user = c0.user /\ Fits(loc, c, r)
    BY <1>1 DEF Fits, Conn, User
  <2>3. Advances(r0, r)
    BY <1>2 DEF Advances, User
  <2>. QED
    BY <1>1, <2>1, <2>2, <2>3, SameQueueUpdate
<1>7. CASE LoginAccepted(loc)
  <2>. DEFINE c == [c0 EXCEPT !.pending = (@ \ {"login"}) \union {"numextcontacts", "roster"},
                              !.writer = @ + 2]
  <2>. DEFINE r == [r0 EXCEPT !.state = "LOGGED_IN"]
  <2>1. /\ "login" \in c0.pending
        /\ Become(loc, c)
        /\ users' = [users EXCEPT ![c0.user] = r]
        /\ UNCHANGED <<slotVars, established, eventVars>>
    <3>1. Enqueue(Await(Answered(loc, "login"), {"numextcontacts", "roster"}), 2) = c
      BY <1>1 DEF Enqueue, Await, Answered, Conn
    <3>. QED
      BY <1>7, <3>1 DEF LoginAccepted, Answers
  <2>2. r0.state = "IS_LOGGING" /\ r0.stream_opened
    BY <1>1, <1>2, <2>1 DEF Fits
  <2>4. c.writer = c0.writer + 2 /\ c.user = c0.user /\ Fits(loc, c, r)
    <3>1. /\ c.writer = c0.writer + 2 /\ c.user = c0.user
          /\ c.sstate = c0.sstate /\ c.peer = c0.peer
          /\ c.pending = (c0.pending \ {"login"}) \union {"numextcontacts", "roster"}
      BY <1>1 DEF Conn
    <3>2. c \in Conn
      <4>1. c0.pending \in SUBSET Replies /\ c0.writer + 2 \in Nat
        BY <1>1 DEF Conn
      <4>2. (c0.pending \ {"login"}) \union {"numextcontacts", "roster"} \in SUBSET Replies
        BY <4>1 DEF Replies
      <4>. QED
        BY <1>1, <4>1, <4>2 DEF Conn
    <3>3. r \in User /\ r.conn = loc /\ r.state = "LOGGED_IN" /\ r.stream_opened = r0.stream_opened
      BY <1>1, <1>2 DEF Fits, User
    <3>. QED
      BY <1>1, <2>2, <3>1, <3>2, <3>3 DEF Fits
  <2>5. Advances(r0, r) /\ OnlyForced(c0, r0, c, r)
    BY <1>2, <2>2 DEF Advances, OnlyForced, User
  <2>6. c.writer \in Nat /\ c.writer >= c0.writer
    BY <1>1, <2>4
  <2>. HIDE DEF c, r
  <2>. QED
    BY <1>1, <2>1, <2>4, <2>5, <2>6, BecomeUpdate
<1>8. CASE handle_numextcontacts_response(loc)
  <2>. DEFINE c == [c0 EXCEPT !.pending = (@ \ {"numextcontacts"}) \union {"extcontacts"},
                              !.writer = @ + 1]
  <2>1. /\ "numextcontacts" \in c0.pending
        /\ Become(loc, c)
        /\ UNCHANGED <<slotVars, users, established, eventVars>>
    <3>1. Enqueue(Await(Answered(loc, "numextcontacts"), {"extcontacts"}), 1) = c
      BY <1>1 DEF Enqueue, Await, Answered, Conn
    <3>. QED
      BY <1>8, <3>1 DEF handle_numextcontacts_response, Answers
  <2>2. r0.state = "LOGGED_IN"
    BY <1>1, <1>2, <2>1 DEF Fits
  <2>4. c.writer = c0.writer + 1 /\ c.user = c0.user /\ Fits(loc, c, r0)
    <3>1. /\ c.writer = c0.writer + 1 /\ c.user = c0.user
          /\ c.sstate = c0.sstate /\ c.peer = c0.peer
          /\ c.pending = (c0.pending \ {"numextcontacts"}) \union {"extcontacts"}
      BY <1>1 DEF Conn
    <3>2. c \in Conn
      <4>1. c0.pending \in SUBSET Replies /\ c0.writer + 1 \in Nat
        BY <1>1 DEF Conn
      <4>2. (c0.pending \ {"numextcontacts"}) \union {"extcontacts"} \in SUBSET Replies
        BY <4>1 DEF Replies
      <4>. QED
        BY <1>1, <4>1, <4>2 DEF Conn
    <3>3. "login" \notin c.pending
      BY <1>1, <2>2, <3>1 DEF Fits
    <3>. QED
      BY <1>1, <2>2, <3>1, <3>2, <3>3 DEF Fits
  <2>5. OnlyForced(c0, r0, c, r0)
    <3>1. "numextcontacts" \notin c.pending
      BY <1>1 DEF Conn
    <3>. QED
      BY <2>1, <3>1 DEF OnlyForced
  <2>6. c.writer \in Nat /\ c.writer >= c0.writer
    BY <1>1, <2>4
  <2>. HIDE DEF c
  <2>. QED
    BY <1>1, <2>1, <2>4, <2>5, <2>6, BecomeUpdate
<1>9. CASE handle_extcontacts(loc)
  <2>. DEFINE c == [c0 EXCEPT !.pending = @ \ {"extcontacts"}]
  <2>. DEFINE r == [r0 EXCEPT !.priv_loaded = TRUE]
  <2>1. /\ conns' = [conns EXCEPT ![loc] = c]
        /\ users' = [users EXCEPT ![c0.user] = r]
        /\ UNCHANGED <<slotVars, pollout, inQueues, established, eventVars>>
    BY <1>9 DEF handle_extcontacts, Answered
  <2>2. c.writer = c0.writer /\ c.user = c0.user /\ Fits(loc, c, r)
    BY <1>1 DEF Fits, Conn, User
  <2>3. Advances(r0, r)
    BY <1>2 DEF Advances, User
  <2>. QED
    BY <1>1, <2>1, <2>2, <2>3, SameQueueUpdate
<1>10. CASE handle_roster_response(loc)
  <2>. DEFINE c == Offer(Answered(loc, "roster"))
  <2>. DEFINE r == [r0 EXCEPT !.roster = TRUE]
  <2>1. /\ Become(loc, c)
        /\ users' = [users EXCEPT ![c0.user] = r]
        /\ UNCHANGED <<slotVars, established, eventVars>>
    BY <1>10 DEF handle_roster_response
  <2>2. LET c1 == Answered(loc, "roster")
        IN  /\ c1 \in Conn /\ c1.user = c0.user /\ c1.writer = c0.writer
            /\ c1.sstate = c0.sstate /\ c1.peer = c0.peer
            /\ c1.pending = c0.pending \ {"roster"}
    BY <1>1 DEF Answered, Conn
  <2>3. /\ c.writer \in {c0.writer, c0.writer + 1}
        /\ c.user = c0.user /\ Fits(loc, c, r)
        /\ c0.writer > MaxPacks => c.writer = c0.writer
    <3>1. r \in User /\ r.conn = loc /\ r.state = r0.state /\ r.stream_opened = r0.stream_opened
      BY <1>2 , <1>1 DEF User, Fits
    <3>. QED
      BY <1>1, <2>2, <3>1, OfferFacts DEF Fits
  <2>4. Advances(r0, r) /\ OnlyForced(c0, r0, c, r)
    BY <1>1, <1>2, <2>3 DEF Advances, OnlyForced, User
  <2>5. c.writer \in Nat /\ c.writer >= c0.writer
    BY <1>1, <2>3
  <2>. HIDE DEF c, r
  <2>. QED
    BY <1>1, <2>1, <2>3, <2>4, <2>5, BecomeUpdate
<1>11. CASE handle_roster_set_response(loc)
  <2>. DEFINE r == [r0 EXCEPT !.roster = TRUE]
  <2>1. /\ users' = [users EXCEPT ![c0.user] = r]
        /\ conns' = [conns EXCEPT ![loc] = c0]
        /\ UNCHANGED <<slotVars, pollout, inQueues, established, eventVars>>
    BY <1>1, <1>11 DEF handle_roster_set_response
  <2>2. Fits(loc, c0, r)
    BY <1>1 DEF Fits, User
  <2>3. Advances(r0, r)
    BY <1>2 DEF Advances, User
  <2>. QED
    BY <1>1, <2>1, <2>2, <2>3, SameQueueUpdate
<1>12. CASE handle_presence(loc) \/ handle_message(loc)
  BY <1>1, <1>12, OfferKinds DEF handle_presence, handle_message
<1>. QED
  BY <1>3, <1>4, <1>5, <1>6, <1>7, <1>8, <1>9, <1>10, <1>11, <1>12 DEF StreamEvent

-----------------------------------------------------------------------------
(* The actions of the users.                                               *)
LEMMA UserKinds ==
  ASSUME Inv, NEW u \in Users, UserEvent(u)
  PROVE  Kinds
<1>. DEFINE loc == users[u].conn
<1>. DEFINE c0 == conns[loc]
<1>. DEFINE r0 == users[u]
<1>1. loc # NULL => /\ loc \in Live /\ c0.user = u
                    /\ c0 \in Conn /\ Fits(loc, c0, r0)
                    /\ users = [users EXCEPT ![u] = r0]
                    /\ conns = [conns EXCEPT ![loc] = c0]
                    /\ c0.writer \in Nat
                    /\ Advances(r0, r0)
  <2>. SUFFICES ASSUME loc # NULL
                PROVE  /\ loc \in Live /\ c0.user = u
                       /\ c0 \in Conn /\ Fits(loc, c0, r0)
                       /\ users = [users EXCEPT ![u] = r0]
                       /\ conns = [conns EXCEPT ![loc] = c0]
                       /\ c0.writer \in Nat
                       /\ Advances(r0, r0)
    OBVIOUS
  <2>1. loc \in Live /\ c0.user = u
    BY ConnOfUser
  <2>. QED
    BY <2>1, Before
<1>2. r0 \in User /\ r0.state \in {"CAN_LOGIN", "IS_LOGGING", "LOGGED_IN"}
  BY DEF Inv, TypeOK, User
<1>3. CASE user_do_login(u)
  <2>. DEFINE c == [c0 EXCEPT !.pending = @ \union {"login"}, !.writer = @ + 1]
  <2>. DEFINE r == [r0 EXCEPT !.state = "IS_LOGGING"]
  <2>1. /\ loc # NULL /\ r0.state = "CAN_LOGIN" /\ r0.stream_opened
        /\ users' = [users EXCEPT ![u] = r]
        /\ UNCHANGED <<slotVars, established, eventVars>>
    BY <1>3 DEF user_do_login
  <2>2. Become(loc, c)
    <3>1. Enqueue(Await(c0, {"login"}), 1) = c
      BY <1>1, <2>1 DEF Enqueue, Await, Conn
    <3>. QED
      BY <1>3, <3>1 DEF user_do_login
  <2>3. c.writer = c0.writer + 1 /\ c.user = c0.user /\ Fits(loc, c, r)
    <3>1. /\ c.writer = c0.writer + 1 /\ c.user = c0.user
          /\ c.sstate = c0.sstate /\ c.peer = c0.peer
          /\ c.pending = c0.pending \union {"login"}
      BY <1>1, <2>1 DEF Conn
    <3>2. c \in Conn
      <4>1. c0.pending \in SUBSET Replies /\ c0.writer + 1 \in Nat
        BY <1>1, <2>1 DEF Conn
      <4>2. c0.pending \union {"login"} \in SUBSET Replies
        BY <4>1 DEF Replies
      <4>. QED
        BY <1>1, <2>1, <4>1, <4>2 DEF Conn
    <3>3. r \in User /\ r.conn = loc /\ r.state = "IS_LOGGING" /\ r.stream_opened = r0.stream_opened
      BY <1>1, <1>2 DEF Fits, User
    <3>4. c.pending = {"login"}
      BY <1>1, <2>1, <3>1 DEF Fits
    <3>. QED
      BY <1>1, <2>1, <3>1, <3>2, <3>3, <3>4 DEF Fits
  <2>4. Advances(r0, r) /\ OnlyForced(c0, r0, c, r)
    BY <1>2, <2>1 DEF Advances, OnlyForced, User
  <2>5. c.writer \in Nat /\ c.writer >= c0.writer
    BY <1>1, <2>1, <2>3
  <2>. HIDE DEF c, r
  <2>. QED
    BY <1>1, <2>1, <2>2, <2>3, <2>4, <2>5, BecomeUpdate
<1>4. ASSUME NEW late \in BOOLEAN, user_wait_login(u, late) PROVE Kinds
  <2>1. loc # NULL /\ r0.state = "IS_LOGGING"
    BY <1>4 DEF user_wait_login
  <2>2. c0.sstate = "CONNECTED"
    BY <1>1, <2>1 DEF Fits
  <2>3. UNCHANGED <<conns, users, slotVars, pollout, inQueues, established, eventVars>>
    BY <1>4, <2>2 DEF user_wait_login
  <2>. QED
    BY <1>1, <2>1, <2>3, SameQueueUpdate
<1>5. ASSUME NEW sstate \in {"CONN_IN_PROGRESS", "CONNECTED"}, ev_connect(u, sstate) PROVE Kinds
  <2>1. CASE Available = << >>
    <3>1. MeetFull(u)
      BY <1>5, <2>1 DEF ev_connect, MeetFull
    <3>. QED
      BY <3>1 DEF Kinds
  <2>2. CASE Available # << >>
    <3>1. \E l \in Locs : Connect(u, l, sstate)
      BY <1>5, <2>2 DEF ev_connect, Connect
    <3>. QED
      BY <3>1 DEF Kinds
  <2>. QED
    BY <2>1, <2>2
<1>6. CASE ev_send_message(u) \/ ev_change_status(u) \/ ev_del_roster(u)
  <2>1. loc # NULL /\ SendOne(u)
    BY <1>6 DEF ev_send_message, ev_change_status, ev_del_roster, Active
  <2>. QED
    BY <1>1, <2>1, OfferKinds DEF SendOne
<1>7. CASE ev_add_roster(u)
  <2>. DEFINE c == IF Offer(c0) = c0 THEN c0 ELSE Offer(Offer(c0))
  <2>1. /\ loc # NULL
        /\ Become(loc, c)
        /\ UNCHANGED <<slotVars, users, established, eventVars>>
    BY <1>7 DEF ev_add_roster, Active
  <2>2. /\ c \in Conn /\ c.user = c0.user /\ c.sstate = c0.sstate /\ c.peer = c0.peer
        /\ c.pending = c0.pending
        /\ c.writer \in {c0.writer, c0.writer + 1, c0.writer + 2}
        /\ c0.writer > MaxPacks => c = c0
    <3>1. c0 \in Conn /\ Offer(c0) \in Conn
      BY <1>1, <2>1, OfferFacts
    <3>2. CASE Offer(c0) = c0
      BY <3>1, <3>2, OfferFacts
    <3>3. CASE Offer(c0) # c0
      BY <3>1, <3>3, OfferFacts
    <3>. QED
      BY <3>2, <3>3
  <2>. HIDE DEF c
  <2>3. Fits(loc, c, r0) /\ OnlyForced(c0, r0, c, r0)
    BY <1>1, <2>1, <2>2 DEF Fits, OnlyForced
  <2>4. c.writer \in Nat /\ c.writer >= c0.writer
    BY <1>1, <2>1, <2>2
  <2>. QED
    BY <1>1, <2>1, <2>2, <2>3, <2>4, BecomeUpdate
<1>8. CASE ev_send_raw_bytes(u)
  <2>1. CASE loc = NULL
    <3>1. Expect(u)
      BY <1>8, <2>1 DEF ev_send_raw_bytes, Expect
    <3>. QED
      BY <3>1 DEF Kinds
  <2>2. CASE loc # NULL
    <3>. DEFINE c == Offer(c0)
    <3>. DEFINE r == [r0 EXCEPT !.expect_kill = TRUE]
    <3>1. /\ Become(loc, c)
          /\ users' = [users EXCEPT ![u] = r]
          /\ UNCHANGED <<slotVars, established, eventVars>>
      BY <1>8, <2>2 DEF ev_send_raw_bytes
    <3>2. /\ c \in Conn /\ c.user = c0.user /\ c.sstate = c0.sstate /\ c.peer = c0.peer
          /\ c.pending = c0.pending
          /\ c.writer \in {c0.writer, c0.writer + 1}
          /\ c0.writer > MaxPacks => c = c0
      BY <1>1, <2>2, OfferFacts
    <3>3. /\ r \in User /\ r.conn = loc /\ r.state = r0.state
          /\ r.stream_opened = r0.stream_opened
      BY <1>2 DEF User
    <3>. HIDE DEF c, r
    <3>4. Fits(loc, c, r) /\ OnlyForced(c0, r0, c, r) /\ Advances(r0, r)
      BY <1>1, <2>2, <3>2, <3>3 DEF Fits, OnlyForced, Advances
    <3>5. c.writer \in Nat /\ c.writer >= c0.writer
      BY <1>1, <2>2, <3>2
    <3>. QED
      BY <1>1, <2>2, <3>1, <3>2, <3>4, <3>5, BecomeUpdate
  <2>. QED
    BY <2>1, <2>2
<1>9. CASE ev_kill_connection(u)
  BY <1>9, KillKinds DEF ev_kill_connection
<1>10. CASE ev_logout(u)
  <2>. DEFINE packets == IF users[u].priv_loaded THEN 3 ELSE 1
  <2>. DEFINE c == [c0 EXCEPT !.writer = @ + packets, !.closing = TRUE]
  <2>1. packets \in {1, 3}
    OBVIOUS
  <2>2. loc # NULL /\ UNCHANGED <<slotVars, users, established, eventVars>>
    BY <1>10 DEF ev_logout, Active
  <2>3. Become(loc, c)
    <3>1. user_finish_conn(Enqueue(c0, packets)) = c
      BY <1>1, <2>2 DEF user_finish_conn, Enqueue, Conn
    <3>. QED
      BY <1>10, <3>1 DEF ev_logout
  <2>. HIDE DEF packets
  <2>4. /\ c \in Conn /\ c.user = c0.user /\ c.sstate = c0.sstate /\ c.peer = c0.peer
        /\ c.pending = c0.pending /\ c.closing
        /\ c.writer = c0.writer + packets
    <3>1. c0.writer + packets \in Nat
      BY <1>1, <2>1, <2>2
    <3>. QED
      BY <1>1, <2>2, <3>1 DEF Conn
  <2>. HIDE DEF c
  <2>5. Fits(loc, c, r0) /\ OnlyForced(c0, r0, c, r0)
    BY <1>1, <2>2, <2>4 DEF Fits, OnlyForced
  <2>6. c.writer \in Nat /\ c.writer >= c0.writer
    BY <1>1, <2>1, <2>2, <2>4
  <2>. QED
    BY <1>1, <2>2, <2>3, <2>4, <2>5, <2>6, BecomeUpdate
<1>. QED
  BY <1>3, <1>4, <1>5, <1>6, <1>7, <1>8, <1>9, <1>10 DEF UserEvent

-----------------------------------------------------------------------------
(* The invariant.                                                          *)

(* The next-state relation has no steps of other kinds.                    *)
LEMMA NextKinds == Inv /\ Next => ~crashed /\ Kinds
<1>. SUFFICES ASSUME Inv, Next PROVE ~crashed /\ Kinds
  OBVIOUS
<1>1. CASE \E loc \in Locs : SocketEvent(loc)
  BY <1>1, SocketKinds DEF Next
<1>2. CASE \E loc \in Locs : StreamEvent(loc)
  BY <1>2, StreamKinds DEF Next
<1>3. CASE \E u \in Users : UserEvent(u)
  BY <1>3, UserKinds DEF Next
<1>4. CASE stat_printf
  <2>1. Quiet
    BY <1>4 DEF stat_printf, Quiet
  <2>. QED
    BY <2>1 DEF Kinds, Next
<1>. QED
  BY <1>1, <1>2, <1>3, <1>4 DEF Next

(* The start has no connections, and a sound table. *)
LEMMA InitInv == Init => Inv
<1>. SUFFICES ASSUME Init PROVE Inv
  OBVIOUS
<1>1. /\ users = [u \in Users |-> Idle] /\ Idle \in User
      /\ Idle = [Idle EXCEPT !.expect_kill = Idle.expect_kill]
      /\ Idle.conn = NULL /\ Idle.state = "CAN_LOGIN" /\ Idle.stream_opened = FALSE
  BY DEF Init, Idle, User
<1>2. SlotsInv
  BY SlotsInitInv DEF Init
<1>3. Live = {} /\ fds = {}
  BY DEF Init, SlotsInit, Live
<1>4. TypeOK
  <2>1. users \in [Users -> User] /\ conns \in [Locs -> Conn \union {NULL}]
    BY <1>1 DEF Init
  <2>2. pollout \in [Locs -> BOOLEAN] /\ do_events \in BOOLEAN
    BY DEF Init
  <2>3. inQueues \in Int /\ established \in Int /\ events_start_after \in Int
    BY SimulatorConstants DEF Init
  <2>. QED
    BY <1>2, <2>1, <2>2, <2>3 DEF TypeOK, SlotsInv
<1>5. Linked
  BY <1>1, <1>3 DEF Linked
<1>6. PolloutIffQueued
  BY <1>3 DEF Init, PolloutIffQueued
<1>7. LoggedOnStream
  BY <1>1 DEF LoggedOnStream
<1>8. RepliesFitState
  BY <1>3 DEF RepliesFitState
<1>9. NothingOutlivesConn
  BY <1>1 DEF NothingOutlivesConn
<1>. QED
  BY <1>2, <1>4, <1>5, <1>6, <1>7, <1>8, <1>9 DEF Inv

(* A step that changes nothing keeps the invariant. *)
LEMMA StutterInv == Inv /\ UNCHANGED vars => Inv'
<1>. SUFFICES ASSUME Inv, UNCHANGED vars PROVE Inv'
  OBVIOUS
<1>1. SlotsInv'
  BY SlotsNextInv DEF Inv, vars
<1>2. /\ UNCHANGED <<users, conns, pollout, inQueues, established, do_events, events_start_after>>
      /\ Live' = Live /\ fds' = fds
  BY DEF vars, eventVars, slotVars, Live
<1>3. TypeOK'
  BY <1>1, <1>2 DEF SlotsInv, Inv, TypeOK
<1>4. Linked' /\ PolloutIffQueued'
  BY <1>2 DEF Inv, Linked, PolloutIffQueued
<1>5. LoggedOnStream' /\ NothingOutlivesConn'
  BY <1>2 DEF Inv, LoggedOnStream, NothingOutlivesConn
<1>6. RepliesFitState'
  BY <1>2 DEF Inv, RepliesFitState
<1>. QED
  BY <1>1, <1>3, <1>4, <1>5, <1>6 DEF Inv

(* Every step keeps the invariant. *)
LEMMA NextInv == Inv /\ [Next]_vars => Inv'
BY NextKinds, KindsInv, StutterInv

(* The strengthening of every safety property of the core.                 *)
THEOREM Invariant == Spec => []Inv
<1>1. Init => Inv
  BY InitInv
<1>2. Inv /\ [Next]_vars => Inv'
  BY NextInv
<1>. QED
  BY <1>1, <1>2, PTL DEF Spec

(* The state of the simulator keeps its types.                             *)
THEOREM TypeCorrect == Spec => []TypeOK
<1>1. Inv => TypeOK
  BY DEF Inv
<1>. QED
  BY <1>1, Invariant, PTL

(* user->conn, conn->user, conns[] and pfds[] agree whatever kills a       *)
(* connection, from whichever side (user_conn_kill, jpolld_conn_kill).     *)
THEOREM AlwaysLinked == Spec => []Linked
<1>1. Inv => Linked
  BY DEF Inv
<1>. QED
  BY <1>1, Invariant, PTL

(* The toggle of _jpolld_conn_write never gets out of step with the queue. *)
THEOREM PolloutCorrect == Spec => []PolloutIffQueued
<1>1. Inv => PolloutIffQueued
  BY DEF Inv
<1>. QED
  BY <1>1, Invariant, PTL

(* user_do_your_job and the reply callbacks may use user->conn unchecked.  *)
THEOREM LoginNeedsStream == Spec => []LoggedOnStream
<1>1. Inv => LoggedOnStream
  BY DEF Inv
<1>. QED
  BY <1>1, Invariant, PTL

(* handle_user_node never runs a callback in the wrong phase of a session. *)
THEOREM RepliesInPhase == Spec => []RepliesFitState
<1>1. Inv => RepliesFitState
  BY DEF Inv
<1>. QED
  BY <1>1, Invariant, PTL

(* user_conn_kill leaves nothing of the session behind.                    *)
THEOREM KillIsComplete == Spec => []NothingOutlivesConn
<1>1. Inv => NothingOutlivesConn
  BY DEF Inv
<1>. QED
  BY <1>1, Invariant, PTL

-----------------------------------------------------------------------------
(* What the core implements: the slot table by itself, the counter of        *)
(* established connections, the bound on the output queues, and the        *)
(* abstract session of every user.                                         *)

(* A step of the core is a step of the slot table, or none.                *)
LEMMA KindsSlots == Inv /\ ~crashed /\ Kinds => [SlotsNext]_slotVars
<1>. SUFFICES ASSUME Inv, ~crashed, Kinds PROVE [SlotsNext]_slotVars
  OBVIOUS
<1>1. ASSUME NEW loc \in Live, Kill(loc) PROVE SlotsNext
  <2>1. loc \in Locs /\ Release(loc)
    BY <1>1, LiveFits DEF Kill
  <2>. QED
    BY <2>1 DEF SlotsNext
<1>2. ASSUME NEW loc \in Live, NEW c \in Conn, NEW r \in User, Update(loc, c, r)
      PROVE  UNCHANGED slotVars
  BY <1>2 DEF Update
<1>3. ASSUME NEW u \in Users, NEW loc \in Locs, NEW sstate \in {"CONN_IN_PROGRESS", "CONNECTED"},
             Connect(u, loc, sstate)
      PROVE  SlotsNext
  BY <1>3 DEF Connect, SlotsNext
<1>4. ASSUME NEW u \in Users, MeetFull(u) PROVE SlotsNext
  BY <1>4 DEF MeetFull, SlotsNext
<1>5. ASSUME NEW u \in Users, Expect(u) PROVE UNCHANGED slotVars
  BY <1>5 DEF Expect
<1>6. CASE Quiet
  BY <1>6 DEF Quiet
<1>. QED
  BY <1>1, <1>2, <1>3, <1>4, <1>5, <1>6 DEF Kinds

(* Embedded in the simulator, the table of slots is used as its own        *)
(* specification says: user_connect takes, jpolld_conn_kill gives back.    *)
THEOREM UsesSlots == Spec => SlotsSpec
<1>1. Init => SlotsInit
  BY DEF Init
<1>2. Inv /\ [Next]_vars => [SlotsNext]_slotVars
  <2>1. Inv /\ Next => [SlotsNext]_slotVars
    BY NextKinds, KindsSlots
  <2>2. UNCHANGED vars => UNCHANGED slotVars
    BY DEF vars
  <2>. QED
    BY <2>1, <2>2
<1>. QED
  BY <1>1, <1>2, Invariant, PTL DEF Spec, SlotsSpec

-----------------------------------------------------------------------------
(* The counter of established connections.                                 *)

(* There are finitely many open descriptors. *)
LEMMA FdsFinite ==
  ASSUME Inv
  PROVE  /\ IsFiniteSet(Locs) /\ Cardinality(Locs) = MaxPfds - 1
         /\ fds \subseteq Locs /\ IsFiniteSet(fds) /\ Cardinality(fds) \in Nat
<1>1. IsFiniteSet(Locs) /\ Cardinality(Locs) = MaxPfds - 1
  BY SlotConstants, FS_Interval DEF Locs
<1>2. fds \subseteq Locs
  BY DEF Inv, SlotsInv, SlotsTypeOK
<1>3. IsFiniteSet(fds)
  BY <1>1, <1>2, FS_Subset
<1>. QED
  BY <1>1, <1>2, <1>3, FS_CardinalityType

(* Take never takes a slot that is open.                                   *)
LEMMA TakesClosed ==
  ASSUME Inv, NEW loc, Take(loc)
  PROVE  loc \notin fds
<1>1. Available \in Seq(Locs) /\ Distinct(Available) /\ Available # << >>
  BY AvailableFacts DEF Inv, Take
<1>2. loc \in Elements(Available)
  BY <1>1, PopFacts DEF Take
<1>. QED
  BY <1>2, AvailableFacts DEF Inv

(* A step of each kind counts the established connections right. *)
LEMMA KindsEstablished ==
  Inv /\ ~crashed /\ Kinds /\ EstablishedIsLive => EstablishedIsLive'
<1>. SUFFICES ASSUME Inv, ~crashed, Kinds, EstablishedIsLive PROVE EstablishedIsLive'
  OBVIOUS
<1>1. IsFiniteSet(fds) /\ Cardinality(fds) \in Nat /\ established = Cardinality(fds)
  BY FdsFinite DEF EstablishedIsLive
<1>2. ASSUME NEW loc \in Live, Kill(loc) PROVE EstablishedIsLive'
  <2>1. loc \in fds /\ fds' = fds \ {loc} /\ established' = established - 1
    BY <1>2 DEF Kill, Release
  <2>. QED
    BY <1>1, <2>1, FS_RemoveElement DEF EstablishedIsLive
<1>3. ASSUME NEW loc \in Live, NEW c \in Conn, NEW r \in User, Update(loc, c, r)
      PROVE  EstablishedIsLive'
  BY <1>1, <1>3 DEF Update, slotVars, EstablishedIsLive
<1>4. ASSUME NEW u \in Users, NEW loc \in Locs, NEW sstate \in {"CONN_IN_PROGRESS", "CONNECTED"},
             Connect(u, loc, sstate)
      PROVE  EstablishedIsLive'
  <2>1. Take(loc) /\ fds' = fds \union {loc} /\ established' = established + 1
    BY <1>4 DEF Connect, Take
  <2>. QED
    BY <1>1, <2>1, TakesClosed, FS_AddElement DEF EstablishedIsLive
<1>5. ASSUME NEW u \in Users, MeetFull(u) \/ Expect(u) PROVE EstablishedIsLive'
  BY <1>1, <1>5 DEF MeetFull, Exhaust, Expect, slotVars, EstablishedIsLive
<1>6. CASE Quiet
  BY <1>1, <1>6 DEF Quiet, slotVars, EstablishedIsLive
<1>. QED
  BY <1>2, <1>3, <1>4, <1>5, <1>6 DEF Kinds

(* jpolld_conn_create_count - jpolld_conn_kill_count, on which the start   *)
(* of the events depends, is the number of live connections.               *)
THEOREM EstablishedCorrect == Spec => []EstablishedIsLive
<1>1. Init => EstablishedIsLive
  BY FS_EmptySet DEF Init, SlotsInit, EstablishedIsLive
<1>2. Inv /\ EstablishedIsLive /\ [Next]_vars => EstablishedIsLive'
  <2>1. UNCHANGED vars /\ EstablishedIsLive => EstablishedIsLive'
    BY DEF vars, slotVars, EstablishedIsLive
  <2>. QED
    BY <2>1, NextKinds, KindsEstablished
<1>. QED
  BY <1>1, <1>2, Invariant, PTL DEF Spec

-----------------------------------------------------------------------------
(* The packets in the queues.                                              *)

(* The queues are finitely many, each of them a number of packets.          *)
LEMMA QueuedFacts ==
  ASSUME Inv
  PROVE  /\ IsFiniteSet(Locs) /\ DOMAIN Queued = Locs
         /\ \A l \in Locs : Queued[l] \in Nat
         /\ \A l \in Locs : conns[l] # NULL => l \in Live /\ Queued[l] = conns[l].writer
         /\ \A l \in Locs : conns[l] = NULL => Queued[l] = 0
<1>1. IsFiniteSet(Locs)
  BY FdsFinite
<1>2. \A l \in Locs : conns[l] # NULL => l \in Live /\ conns[l].writer \in Nat
  BY DEF Inv, TypeOK, Live, Conn
<1>. QED
  BY <1>1, <1>2 DEF Queued, Live

(* The counter follows the one queue that a step changes.                  *)
LEMMA OneQueueChanges ==
  ASSUME Inv, Inv', PacketsAccounted, NEW loc \in Locs,
         \A l \in Locs \ {loc} : Queued'[l] = Queued[l],
         inQueues' = inQueues - Queued[loc] + Queued'[loc]
  PROVE  PacketsAccounted'
<1>1. IsFiniteSet(Locs) /\ DOMAIN Queued = Locs /\ \A l \in Locs : Queued[l] \in Int
  BY QueuedFacts
<1>2. DOMAIN Queued' = Locs
  BY DEF Queued
<1>3. Queued'[loc] \in Int
  <2>1. (\A l \in Locs : conns[l] # NULL => conns[l].writer \in Nat)'
    BY DEF Inv, TypeOK, Conn
  <2>. QED
    BY <2>1 DEF Queued, Live
<1>4. SumFunctionOnSet(Queued', Locs) = SumFunctionOnSet(Queued, Locs) - Queued[loc] + Queued'[loc]
  BY <1>1, <1>3, SumChanged
<1>5. inQueues = SumFunctionOnSet(Queued, Locs)
  BY <1>1 DEF PacketsAccounted, SumFunction
<1>6. inQueues' = SumFunctionOnSet(Queued', Locs)
  BY <1>4, <1>5
<1>. QED
  BY <1>2, <1>6 DEF PacketsAccounted, SumFunction

(* A step of each kind accounts for the packets. *)
LEMMA KindsPackets ==
  Inv /\ ~crashed /\ Kinds /\ PacketsAccounted => PacketsAccounted'
<1>. SUFFICES ASSUME Inv, ~crashed, Kinds, PacketsAccounted PROVE PacketsAccounted'
  OBVIOUS
<1>1. Inv' /\ inQueues \in Int /\ conns \in [Locs -> Conn \union {NULL}] /\ NULL \notin Conn
  BY KindsInv, SimulatorConstants DEF Inv, TypeOK
<1>2. conns' = conns /\ inQueues' = inQueues => PacketsAccounted'
  BY DEF PacketsAccounted, Queued, Live
<1>3. ASSUME NEW loc \in Live, Kill(loc) PROVE PacketsAccounted'
  <2>1. /\ loc \in Locs /\ conns' = [conns EXCEPT ![loc] = NULL]
        /\ inQueues' = inQueues - conns[loc].writer /\ conns[loc] # NULL
    BY <1>3 DEF Kill, Live
  <2>2. Queued'[loc] = 0 /\ \A l \in Locs \ {loc} : Queued'[l] = Queued[l]
    BY <1>1, <2>1 DEF Queued, Live
  <2>3. Queued[loc] = conns[loc].writer /\ Queued[loc] \in Nat
    BY <2>1, QueuedFacts
  <2>4. inQueues' = inQueues - Queued[loc] + Queued'[loc]
    BY <1>1, <2>1, <2>2, <2>3
  <2>. QED
    BY <1>1, <2>1, <2>2, <2>4, OneQueueChanges
<1>4. ASSUME NEW loc \in Live, NEW c \in Conn, NEW r \in User, Update(loc, c, r)
      PROVE  PacketsAccounted'
  <2>1. /\ loc \in Locs /\ conns[loc] # NULL /\ conns' = [conns EXCEPT ![loc] = c]
        /\ inQueues' = inQueues + (c.writer - conns[loc].writer)
    BY <1>4 DEF Update, Live
  <2>2. c # NULL /\ c.writer \in Nat
    BY <1>1 DEF Conn
  <2>3. Queued'[loc] = c.writer /\ \A l \in Locs \ {loc} : Queued'[l] = Queued[l]
    BY <1>1, <2>1, <2>2 DEF Queued, Live
  <2>4. Queued[loc] = conns[loc].writer /\ Queued[loc] \in Nat
    BY <2>1, QueuedFacts
  <2>5. inQueues' = inQueues - Queued[loc] + Queued'[loc]
    BY <1>1, <2>1, <2>2, <2>3, <2>4
  <2>. QED
    BY <1>1, <2>1, <2>3, <2>5, OneQueueChanges
<1>5. ASSUME NEW u \in Users, NEW loc \in Locs, NEW sstate \in {"CONN_IN_PROGRESS", "CONNECTED"},
             Connect(u, loc, sstate)
      PROVE  PacketsAccounted'
  <2>1. /\ conns' = [conns EXCEPT ![loc] = NewConn(u, sstate)] /\ inQueues' = inQueues + 1
        /\ loc \notin fds
    BY <1>5, TakesClosed DEF Connect
  <2>2. NewConn(u, sstate) \in Conn /\ NewConn(u, sstate).writer = 1
    BY DEF NewConn, Conn, Replies
  <2>3. Queued'[loc] = 1 /\ \A l \in Locs \ {loc} : Queued'[l] = Queued[l]
    BY <1>1, <2>1, <2>2 DEF Queued, Live
  <2>4. Queued[loc] = 0
    <3>1. loc \notin Live
      BY <2>1 DEF Inv, Linked
    <3>. QED
      BY <3>1 DEF Queued
  <2>5. inQueues' = inQueues - Queued[loc] + Queued'[loc]
    BY <1>1, <2>1, <2>3, <2>4
  <2>. QED
    BY <1>1, <2>3, <2>5, OneQueueChanges
<1>6. ASSUME NEW u \in Users, MeetFull(u) \/ Expect(u) PROVE PacketsAccounted'
  BY <1>2, <1>6 DEF MeetFull, Expect
<1>7. CASE Quiet
  BY <1>2, <1>7 DEF Quiet
<1>. QED
  BY <1>3, <1>4, <1>5, <1>6, <1>7 DEF Kinds

(* packets_created - (packets_sent + packets_canceled), shown as "in       *)
(* queues", is the number of packets that wait in all queues together.     *)
THEOREM PacketsCounted == Spec => []PacketsAccounted
<1>1. Init => PacketsAccounted
  <2>. SUFFICES ASSUME Init PROVE PacketsAccounted
    OBVIOUS
  <2>1. Inv
    BY InitInv
  <2>2. IsFiniteSet(Locs) /\ DOMAIN Queued = Locs /\ \A l \in Locs : Queued[l] = 0
    BY <2>1, QueuedFacts DEF Init
  <2>3. SumFunctionOnSet(Queued, Locs) = 0
    BY <2>2, SumOfZeros
  <2>4. inQueues = 0
    BY DEF Init
  <2>. QED
    BY <2>2, <2>3, <2>4 DEF PacketsAccounted, SumFunction
<1>2. Inv /\ PacketsAccounted /\ [Next]_vars => PacketsAccounted'
  <2>1. UNCHANGED vars /\ PacketsAccounted => PacketsAccounted'
    BY DEF vars, PacketsAccounted, Queued, Live
  <2>. QED
    BY <2>1, NextKinds, KindsPackets
<1>. QED
  BY <1>1, <1>2, Invariant, PTL DEF Spec

(* So both counters that the program shows, and starts the events on, agree *)
(* with the connections and their queues.                                  *)
THEOREM CountersAlwaysAgree == Spec => []CountersAgree
BY EstablishedCorrect, PacketsCounted, PTL DEF CountersAgree

-----------------------------------------------------------------------------
(* Users and slots.                                                        *)

(* Connected users never outnumber the slots that are open.                *)
LEMMA UsersOfSlots ==
  ASSUME Inv, NEW S \in SUBSET Locs, fds \subseteq S
  PROVE  Cardinality({u \in Users : users[u].conn # NULL}) <= Cardinality(S)
<1>. DEFINE W == {u \in Users : users[u].conn # NULL}
<1>. DEFINE f == [u \in W |-> users[u].conn]
<1>1. IsFiniteSet(S)
  BY FdsFinite, FS_Subset
<1>2. \A u \in W : users[u].conn \in S /\ conns[users[u].conn].user = u
  BY ConnOfUser DEF Inv, Linked
<1>3. f \in Injection(W, S)
  BY <1>2 DEF Injection, IsInjective
<1>. QED
  BY <1>1, <1>3, FS_Injection

(* A NULL npfd needs one user more than there are slots.                   *)
LEMMA FullTable ==
  ASSUME Inv, NEW u \in Users, users[u].conn = NULL, fds = Locs
  PROVE  Cardinality(Users) >= MaxPfds
<1>. DEFINE f == [loc \in Locs |-> conns[loc].user]
<1>1. \A loc \in Locs : conns[loc].user \in Users /\ users[conns[loc].user].conn = loc
  BY LiveFits DEF Fits, Inv, Linked
<1>2. \A loc \in Locs : conns[loc].user # u
  BY <1>1, SimulatorConstants
<1>3. f \in Injection(Locs, Users \ {u})
  BY <1>1, <1>2 DEF Injection, IsInjective
<1>4. /\ IsFiniteSet(Users \ {u})
      /\ Cardinality(Users \ {u}) = Cardinality(Users) - 1
  BY SimulatorConstants, FS_RemoveElement
<1>5. Cardinality(Locs) <= Cardinality(Users \ {u})
  BY <1>3, <1>4, FS_Injection
<1>6. Cardinality(Users) \in Nat
  BY SimulatorConstants, FS_CardinalityType
<1>. QED
  BY <1>4, <1>5, <1>6, FdsFinite, SlotConstants

(* A step of each kind meets a NULL npfd only with too many users. *)
LEMMA KindsCrash ==
  Inv /\ ~crashed /\ Kinds => CrashNeedsTooManyUsers'
<1>. SUFFICES ASSUME Inv, ~crashed, Kinds PROVE CrashNeedsTooManyUsers'
  OBVIOUS
<1>1. CASE \E u \in Users : MeetFull(u)
  <2>1. PICK u \in Users : users[u].conn = NULL /\ Exhaust
    BY <1>1 DEF MeetFull
  <2>2. fds = Locs
    BY <2>1, AvailableFacts DEF Inv, Exhaust
  <2>. QED
    BY <2>1, <2>2, FullTable DEF CrashNeedsTooManyUsers
<1>2. CASE ~ \E u \in Users : MeetFull(u)
  <2>1. crashed' = crashed
    BY <1>2 DEF Kinds, Kill, Release, Update, Connect, Take, Expect, Quiet, slotVars
  <2>. QED
    BY <2>1 DEF CrashNeedsTooManyUsers
<1>. QED
  BY <1>1, <1>2

(* user_connect reads a NULL npfd only with MAX_PFDS users or more.        *)
THEOREM CrashOnlyTooManyUsers == Spec => []CrashNeedsTooManyUsers
<1>1. Init => CrashNeedsTooManyUsers
  BY DEF Init, SlotsInit, CrashNeedsTooManyUsers
<1>2. Inv /\ CrashNeedsTooManyUsers /\ [Next]_vars => CrashNeedsTooManyUsers'
  <2>1. UNCHANGED vars /\ CrashNeedsTooManyUsers => CrashNeedsTooManyUsers'
    BY DEF vars, slotVars, CrashNeedsTooManyUsers
  <2>. QED
    BY <2>1, NextKinds, KindsCrash
<1>. QED
  BY <1>1, <1>2, Invariant, PTL DEF Spec

-----------------------------------------------------------------------------
(* The bound on the output queues.                                         *)

(* What a queue that is too long may still take in one step.               *)
Bounded ==
  \A loc \in Live :
    (conns[loc].writer > MaxPacks /\ loc \in Live'
       /\ conns'[loc].writer > conns[loc].writer)
    => \/ users'[conns[loc].user].state # users[conns[loc].user].state
       \/ conns'[loc].pending # conns[loc].pending
       \/ conns'[loc].closing

(* A step of each kind fills a queue no further than it may be. *)
LEMMA KindsBounded == Inv /\ ~crashed /\ Kinds => Bounded
<1>. SUFFICES ASSUME Inv, ~crashed, Kinds, NEW l \in Live,
                     conns[l].writer > MaxPacks, l \in Live',
                     conns'[l].writer > conns[l].writer
              PROVE  \/ users'[conns[l].user].state # users[conns[l].user].state
                     \/ conns'[l].pending # conns[l].pending
                     \/ conns'[l].closing
  BY DEF Bounded
<1>1. conns[l].writer \in Nat /\ l \in Locs /\ conns[l].user \in Users
  BY LiveFits
<1>2. conns'[l] # conns[l]
  BY <1>1
<1>3. users \in [Users -> User] /\ conns \in [Locs -> Conn \union {NULL}]
  BY DEF Inv, TypeOK
<1>4. ASSUME NEW loc \in Live, Kill(loc) PROVE FALSE
  <2>1. loc \in Locs /\ conns' = [conns EXCEPT ![loc] = NULL]
    BY <1>4, LiveFits DEF Kill
  <2>. QED
    BY <1>1, <1>2, <1>3, <2>1 DEF Live
<1>5. ASSUME NEW loc \in Live, NEW c \in Conn, NEW r \in User, Update(loc, c, r)
      PROVE  \/ users'[conns[l].user].state # users[conns[l].user].state
             \/ conns'[l].pending # conns[l].pending
             \/ conns'[l].closing
  <2>1. /\ OnlyForced(conns[loc], users[conns[loc].user], c, r)
        /\ users' = [users EXCEPT ![conns[loc].user] = r]
        /\ conns' = [conns EXCEPT ![loc] = c]
    BY <1>5 DEF Update
  <2>2. l = loc
    BY <1>1, <1>2, <1>3, <2>1
  <2>3. conns'[l] = c /\ users'[conns[l].user] = r
    BY <1>1, <1>3, <2>1, <2>2
  <2>. QED
    BY <2>1, <2>2, <2>3 DEF OnlyForced
<1>6. ASSUME NEW u \in Users, NEW loc \in Locs, NEW sstate \in {"CONN_IN_PROGRESS", "CONNECTED"},
             Connect(u, loc, sstate)
      PROVE  FALSE
  <2>1. Take(loc) /\ conns' = [conns EXCEPT ![loc] = NewConn(u, sstate)]
    BY <1>6 DEF Connect
  <2>2. loc \notin Live
    BY <2>1, TakesClosed DEF Inv, Linked
  <2>. QED
    BY <1>1, <1>2, <1>3, <2>1, <2>2
<1>7. ASSUME NEW u \in Users, MeetFull(u) \/ Expect(u) PROVE FALSE
  BY <1>2, <1>7 DEF MeetFull, Expect
<1>8. CASE Quiet
  BY <1>2, <1>8 DEF Quiet
<1>. QED
  BY <1>4, <1>5, <1>6, <1>7, <1>8 DEF Kinds

(* jpolld_conn_write cancels what a queue longer than MaxPacksBuffered     *)
(* would have to take: only the protocol's own packets pass.               *)
THEOREM QueuesBounded == Spec => OverfullQueueOnlyForced
<1>1. Inv /\ [Next]_vars => [Bounded]_vars
  BY NextKinds, KindsBounded
<1>2. [][Bounded]_vars => OverfullQueueOnlyForced
  BY PTL DEF OverfullQueueOnlyForced, Bounded
<1>. QED
  BY <1>1, <1>2, Invariant, PTL DEF Spec

-----------------------------------------------------------------------------
(* The abstract session.                                                   *)

phase == [u \in Users |-> Phase(u)]

(* What the fields of a user say about its phase.                          *)
LEMMA PhaseFacts ==
  ASSUME Inv, NEW u \in Users
  PROVE  /\ phase[u] = "offline" <=> users[u].conn = NULL
         /\ users[u].conn # NULL =>
              /\ users[u].state = "CAN_LOGIN" /\ ~users[u].stream_opened => phase[u] = "dialing"
              /\ users[u].state = "CAN_LOGIN" /\ users[u].stream_opened => phase[u] = "opened"
              /\ users[u].state = "IS_LOGGING" => phase[u] = "logging"
              /\ users[u].state = "LOGGED_IN" => phase[u] = "online"
BY DEF phase, Phase

(* The same after a step.                                                  *)
LEMMA PhaseFactsNext ==
  ASSUME NEW u \in Users
  PROVE  /\ users'[u].conn = NULL => phase'[u] = "offline"
         /\ users'[u].conn # NULL =>
              /\ users'[u].state = "CAN_LOGIN" /\ ~users'[u].stream_opened => phase'[u] = "dialing"
              /\ users'[u].state = "CAN_LOGIN" /\ users'[u].stream_opened => phase'[u] = "opened"
              /\ users'[u].state = "IS_LOGGING" => phase'[u] = "logging"
              /\ users'[u].state = "LOGGED_IN" => phase'[u] = "online"
         /\ users'[u] = users[u] => phase'[u] = phase[u]
BY DEF phase, Phase

(* A step that changes one user changes one phase.                         *)
LEMMA OnePhase ==
  ASSUME NEW u \in Users, \A v \in Users \ {u} : users'[v] = users[v]
  PROVE  phase' = [phase EXCEPT ![u] = phase'[u]]
<1>1. \A v \in Users \ {u} : phase'[v] = phase[v]
  BY PhaseFactsNext
<1>. QED
  BY <1>1 DEF phase

(* A step of each kind is one of the abstract session, or none. *)
LEMMA KindsSession == Inv /\ ~crashed /\ Kinds => Session!Next \/ phase' = phase
<1>. SUFFICES ASSUME Inv, ~crashed, Kinds PROVE Session!Next \/ phase' = phase
  OBVIOUS
<1>1. users \in [Users -> User] /\ NULL \notin Locs
  BY SimulatorConstants DEF Inv, TypeOK
<1>2. users' = users => phase' = phase
  BY DEF phase, Phase
<1>3. ASSUME NEW loc \in Live, Kill(loc) PROVE Session!Next
  <2>. DEFINE u == conns[loc].user
  <2>1. /\ loc \in Locs /\ u \in Users /\ users[u].conn = loc
        /\ users' = [users EXCEPT ![u] = Idle]
    BY <1>3, LiveFits DEF Fits, Kill
  <2>2. phase[u] # "offline"
    BY <1>1, <2>1, PhaseFacts
  <2>3. phase'[u] = "offline"
    BY <1>1, <2>1, PhaseFactsNext DEF Idle
  <2>4. phase' = [phase EXCEPT ![u] = "offline"]
    BY <1>1, <2>1, <2>3, OnePhase
  <2>5. Session!Drop(u)
    BY <2>2, <2>4 DEF Session!Drop, phase
  <2>. QED
    BY <2>1, <2>5 DEF Session!Next
<1>4. ASSUME NEW loc \in Live, NEW c \in Conn, NEW r \in User, Update(loc, c, r)
      PROVE  Session!Next \/ phase' = phase
  <2>. DEFINE u == conns[loc].user
  <2>1. /\ loc \in Locs /\ u \in Users /\ users[u].conn = loc
        /\ users' = [users EXCEPT ![u] = r]
        /\ r.conn = loc
        /\ Advances(users[u], r)
    BY <1>4, LiveFits DEF Fits, Update
  <2>2. users'[u] = r /\ loc # NULL
    BY <1>1, <2>1
  <2>3. phase' = [phase EXCEPT ![u] = phase'[u]]
    BY <1>1, <2>1, OnePhase
  <2>4. CASE r.state = users[u].state /\ r.stream_opened = users[u].stream_opened
    <3>1. phase'[u] = phase[u]
      BY <2>1, <2>2, <2>4 DEF phase, Phase
    <3>. QED
      BY <2>1, <2>3, <3>1 DEF phase
  <2>5. CASE /\ users[u].state = "CAN_LOGIN" /\ ~users[u].stream_opened
             /\ r.state = "CAN_LOGIN" /\ r.stream_opened
    <3>1. phase[u] = "dialing" /\ phase'[u] = "opened"
      BY <2>1, <2>2, <2>5, PhaseFacts, PhaseFactsNext
    <3>2. Session!StreamOpens(u)
      BY <2>3, <3>1 DEF Session!StreamOpens, Session!Move, phase
    <3>. QED
      BY <2>1, <3>2 DEF Session!Next
  <2>6. CASE /\ users[u].state = "CAN_LOGIN" /\ users[u].stream_opened
             /\ r.state = "IS_LOGGING" /\ r.stream_opened
    <3>1. phase[u] = "opened" /\ phase'[u] = "logging"
      BY <2>1, <2>2, <2>6, PhaseFacts, PhaseFactsNext
    <3>2. Session!SignOn(u)
      BY <2>3, <3>1 DEF Session!SignOn, Session!Move, phase
    <3>. QED
      BY <2>1, <3>2 DEF Session!Next
  <2>7. CASE users[u].state = "IS_LOGGING" /\ r.state = "LOGGED_IN"
    <3>1. phase[u] = "logging" /\ phase'[u] = "online"
      BY <2>1, <2>2, <2>7, PhaseFacts, PhaseFactsNext
    <3>2. Session!Accepted(u)
      BY <2>3, <3>1 DEF Session!Accepted, Session!Move, phase
    <3>. QED
      BY <2>1, <3>2 DEF Session!Next
  <2>. QED
    BY <2>1, <2>4, <2>5, <2>6, <2>7 DEF Advances
<1>5. ASSUME NEW u \in Users, NEW loc \in Locs, NEW sstate \in {"CONN_IN_PROGRESS", "CONNECTED"},
             Connect(u, loc, sstate)
      PROVE  Session!Next
  <2>1. /\ users[u].conn = NULL /\ users[u].state = "CAN_LOGIN"
        /\ users' = [users EXCEPT ![u].conn = loc]
        /\ Take(loc)
    BY <1>5 DEF Connect
  <2>2. ~users[u].stream_opened
    <3>1. users[u] = [Idle EXCEPT !.expect_kill = users[u].expect_kill]
      BY <2>1 DEF Inv, NothingOutlivesConn
    <3>. QED
      BY <3>1 DEF Idle
  <2>3. /\ users'[u].conn = loc /\ loc # NULL /\ users'[u].state = "CAN_LOGIN"
        /\ ~users'[u].stream_opened
    BY <1>1, <2>1, <2>2 DEF User
  <2>4. phase[u] = "offline" /\ phase'[u] = "dialing"
    BY <2>1, <2>3, PhaseFacts, PhaseFactsNext
  <2>5. phase' = [phase EXCEPT ![u] = "dialing"]
    BY <1>1, <2>1, <2>4, OnePhase
  <2>6. Cardinality(Session!OnLine) < MaxPfds - 1
    <3>1. Session!OnLine = {v \in Users : users[v].conn # NULL}
      <4>1. Session!OnLine = {v \in Users : phase[v] # "offline"}
        BY DEF Session!OnLine, phase
      <4>. QED
        BY <4>1, PhaseFacts
    <3>2. fds \subseteq Locs \ {loc}
      BY <2>1, TakesClosed, FdsFinite
    <3>3. Cardinality(Locs \ {loc}) = MaxPfds - 2
      <4>1. Cardinality(Locs \ {loc}) = Cardinality(Locs) - 1
        BY FdsFinite, FS_RemoveElement
      <4>. QED
        BY <4>1, FdsFinite, SlotConstants
    <3>4. Cardinality({v \in Users : users[v].conn # NULL}) <= Cardinality(Locs \ {loc})
      BY <3>2, UsersOfSlots
    <3>5. Cardinality({v \in Users : users[v].conn # NULL}) \in Nat
      BY SimulatorConstants, FS_Subset, FS_CardinalityType
    <3>. QED
      BY <3>1, <3>3, <3>4, <3>5, SlotConstants
  <2>7. Session!Dial(u)
    <3>1. Session!Move(u, "offline", "dialing")
      BY <2>4, <2>5 DEF Session!Move, phase
    <3>. QED
      BY <2>6, <3>1 DEF Session!Dial, Session!Cardinality, Cardinality
  <2>. QED
    BY <2>7 DEF Session!Next
<1>6. ASSUME NEW u \in Users, MeetFull(u) PROVE phase' = phase
  BY <1>2, <1>6 DEF MeetFull
<1>7. ASSUME NEW u \in Users, Expect(u) PROVE phase' = phase
  <2>1. users[u].conn = NULL /\ users' = [users EXCEPT ![u].expect_kill = TRUE]
    BY <1>7 DEF Expect
  <2>2. users'[u].conn = NULL
    BY <1>1, <2>1 DEF User
  <2>3. phase'[u] = phase[u]
    BY <2>1, <2>2, PhaseFacts, PhaseFactsNext
  <2>. QED
    BY <1>1, <2>1, <2>3, OnePhase DEF phase
<1>8. CASE Quiet
  BY <1>2, <1>8 DEF Quiet
<1>. QED
  BY <1>3, <1>4, <1>5, <1>6, <1>7, <1>8 DEF Kinds

(* Whatever the sockets, the server and the repeaters do, every user goes  *)
(* through its session in order, and no more users are connected than      *)
(* there are slots.                                                        *)
THEOREM ImplementsSession == Spec => SessionSpec
<1>1. Init => Session!Init
  <2>. SUFFICES ASSUME Init PROVE phase = [u \in Users |-> "offline"]
    BY DEF Session!Init, phase
  <2>. QED
    BY DEF Init, Idle, phase, Phase
<1>2. Inv /\ [Next]_vars => [Session!Next]_phase
  <2>1. UNCHANGED vars => phase' = phase
    BY DEF vars, phase, Phase
  <2>. QED
    BY <2>1, NextKinds, KindsSession
<1>. QED
  BY <1>1, <1>2, Invariant, PTL DEF Spec, SessionSpec, Session!Spec, phase
=============================================================================
