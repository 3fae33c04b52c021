--------------------------- MODULE Library_proofs ---------------------------
(***************************************************************************)
(* Proofs about the jabberd library: Pool, for every size of the heaps and *)
(* of the requests; Packets, for every set of addresses and number of      *)
(* slots for keys; Text, for texts of every length; and XmlDocuments, for  *)
(* every document, every cut of it into pieces and all bounds of its size  *)
(* and depth.  All of them are for runs of every length.                   *)
(***************************************************************************)
EXTENDS Pool, Packets, Text, XmlDocuments, DataLemmas

(* Heaps, the blocks cut off them, and what is to be freed. *)
Heaps == [size : Nat, used : Nat]
Blocks == [heap : Nat, at : Nat, size : Nat]
Entries == {"heap", "raw", "cleaner", "pool"} \X Nat

(* What was cut off a heap ends before its mark, which later blocks start from. *)
HeapsInv ==
  /\ heaps \in Seq(Heaps) /\ heap = Len(heaps)
  /\ \A h \in DOMAIN heaps : heaps[h].used <= heaps[h].size
  /\ blocks \in Seq(Blocks)
  /\ \A i \in DOMAIN blocks :
       LET b == blocks[i]
       IN b.heap # 0 =>
            /\ b.heap \in DOMAIN heaps
            /\ b.at + b.size <= heaps[b.heap].used
            /\ b.size >= 4 => b.at % 8 = 0
            /\ \A j \in 1 .. (i - 1) : blocks[j].heap = b.heap => blocks[j].at + blocks[j].size <= b.at

(* The list is what is to be freed, each once, the functions first. *)
ListInv ==
  /\ cleanup \in Seq(Entries) /\ cleaners \in Nat
  /\ Range(cleanup) = Registered
  /\ \A i, j \in DOMAIN cleanup : cleanup[i] = cleanup[j] => i = j
  /\ \A i, j \in DOMAIN cleanup : cleanup[i][1] = "cleaner" /\ cleanup[j][1] # "cleaner" => i < j

(* The whole pool: while it is alive its list holds everything once. *)
PoolInv ==
  /\ alive \in BOOLEAN /\ HeapsInv /\ ListInv
  /\ ~ alive => order = Append(cleanup, <<"pool", 0>>)

------------------------------------------------------------------------------
(* A list that gets a new element behind the others, or before them. *)
LEMMA Appended ==
  ASSUME NEW S, NEW s \in Seq(S), NEW e \in S
  PROVE  /\ Append(s, e) \in Seq(S) /\ DOMAIN Append(s, e) = 1 .. Len(s) + 1 /\ Len(s) \in Nat
         /\ DOMAIN s = 1 .. Len(s)
         /\ \A i \in 1 .. Len(s) : Append(s, e)[i] = s[i]
         /\ Append(s, e)[Len(s) + 1] = e
         /\ Range(Append(s, e)) = Range(s) \cup {e}
<1>1. /\ Append(s, e) \in Seq(S) /\ DOMAIN Append(s, e) = 1 .. Len(s) + 1 /\ Len(s) \in Nat
      /\ DOMAIN s = 1 .. Len(s)
      /\ \A i \in 1 .. Len(s) : Append(s, e)[i] = s[i]
      /\ Append(s, e)[Len(s) + 1] = e
  OBVIOUS
<1>2. \A i \in 1 .. Len(s) + 1 : i \in 1 .. Len(s) \/ i = Len(s) + 1
  BY <1>1
<1>3. Range(Append(s, e)) = Range(s) \cup {e}
  <2>1. ASSUME NEW x \in Range(Append(s, e)) PROVE x \in Range(s) \cup {e}
    <3> PICK i \in 1 .. Len(s) + 1 : x = Append(s, e)[i]
      BY <1>1 DEF Range
    <3> QED BY <1>1, <1>2 DEF Range
  <2>2. ASSUME NEW x \in Range(s) PROVE x \in Range(Append(s, e))
    <3> PICK i \in 1 .. Len(s) : x = s[i]
      BY <1>1 DEF Range
    <3>1. i \in 1 .. Len(s) + 1 /\ x = Append(s, e)[i]
      BY <1>1
    <3> QED BY <1>1, <3>1 DEF Range
  <2>3. e \in Range(Append(s, e))
    <3>1. Len(s) + 1 \in 1 .. Len(s) + 1
      BY <1>1
    <3> QED BY <1>1, <3>1 DEF Range
  <2> QED BY <2>1, <2>2, <2>3
<1> QED BY <1>1, <1>3

(* The same of a list that gets a new element before the others. *)
LEMMA Prepended ==
  ASSUME NEW S, NEW s \in Seq(S), NEW e \in S
  PROVE  /\ <<e>> \o s \in Seq(S) /\ DOMAIN (<<e>> \o s) = 1 .. Len(s) + 1 /\ Len(s) \in Nat
         /\ DOMAIN s = 1 .. Len(s)
         /\ \A i \in 1 .. Len(s) : (<<e>> \o s)[i + 1] = s[i]
         /\ (<<e>> \o s)[1] = e
         /\ Range(<<e>> \o s) = Range(s) \cup {e}
<1>1. /\ <<e>> \o s \in Seq(S) /\ DOMAIN (<<e>> \o s) = 1 .. Len(s) + 1 /\ Len(s) \in Nat
      /\ DOMAIN s = 1 .. Len(s)
      /\ \A i \in 1 .. Len(s) : (<<e>> \o s)[i + 1] = s[i]
      /\ (<<e>> \o s)[1] = e
  OBVIOUS
<1>2. \A i \in 1 .. Len(s) + 1 : i = 1 \/ i - 1 \in 1 .. Len(s)
  BY <1>1
<1>3. Range(<<e>> \o s) = Range(s) \cup {e}
  <2>1. ASSUME NEW x \in Range(<<e>> \o s) PROVE x \in Range(s) \cup {e}
    <3> PICK i \in 1 .. Len(s) + 1 : x = (<<e>> \o s)[i]
      BY <1>1 DEF Range
    <3>1. CASE i = 1
      BY <1>1, <3>1
    <3>2. CASE i - 1 \in 1 .. Len(s)
      <4>1. x = s[i - 1]
        BY <1>1, <3>2
      <4> QED BY <1>1, <3>2, <4>1 DEF Range
    <3> QED BY <1>2, <3>1, <3>2
  <2>2. ASSUME NEW x \in Range(s) PROVE x \in Range(<<e>> \o s)
    <3> PICK i \in 1 .. Len(s) : x = s[i]
      BY <1>1 DEF Range
    <3>1. i + 1 \in 1 .. Len(s) + 1 /\ x = (<<e>> \o s)[i + 1]
      BY <1>1
    <3> QED BY <1>1, <3>1 DEF Range
  <2>3. e \in Range(<<e>> \o s)
    <3>1. 1 \in 1 .. Len(s) + 1
      BY <1>1
    <3> QED BY <1>1, <3>1 DEF Range
  <2> QED BY <2>1, <2>2, <2>3
<1> QED BY <1>1, <1>3

(* Something new to be freed goes to the end of the list. *)
LEMMA ListGrows ==
  ASSUME PoolInv, NEW kind \in {"heap", "raw"}, NEW n \in Nat, <<kind, n>> \notin Registered,
         cleanup' = Append(cleanup, <<kind, n>>), cleaners' = cleaners,
         Registered' = Registered \cup {<<kind, n>>}
  PROVE  ListInv'
<1> DEFINE e == <<kind, n>>  c == Append(cleanup, e)
<1>1. /\ cleanup \in Seq(Entries) /\ cleaners \in Nat /\ Range(cleanup) = Registered
      /\ \A i, j \in DOMAIN cleanup : cleanup[i] = cleanup[j] => i = j
      /\ \A i, j \in DOMAIN cleanup : cleanup[i][1] = "cleaner" /\ cleanup[j][1] # "cleaner" => i < j
  BY DEF PoolInv, ListInv
<1>2. e \in Entries /\ e[1] = kind
  <2>1. kind \in {"heap", "raw", "cleaner", "pool"}
    OBVIOUS
  <2> QED BY <2>1 DEF Entries
<1> HIDE DEF e
<1>3. /\ c \in Seq(Entries) /\ DOMAIN c = 1 .. Len(cleanup) + 1 /\ Len(cleanup) \in Nat
      /\ DOMAIN cleanup = 1 .. Len(cleanup)
      /\ \A i \in 1 .. Len(cleanup) : c[i] = cleanup[i]
      /\ c[Len(cleanup) + 1] = e /\ Range(c) = Range(cleanup) \cup {e}
  BY <1>1, <1>2, Appended
<1> HIDE DEF c
<1>4. \A i \in DOMAIN c : i \in DOMAIN cleanup \/ i = Len(cleanup) + 1
  BY <1>3
<1>5. \A i \in DOMAIN cleanup : cleanup[i] # e
  BY <1>1 DEF Range, e
<1>6. \A i, j \in DOMAIN c : c[i] = c[j] => i = j
  BY <1>1, <1>3, <1>4, <1>5
<1>7. \A i, j \in DOMAIN c : c[i][1] = "cleaner" /\ c[j][1] # "cleaner" => i < j
  <2> SUFFICES ASSUME NEW i \in DOMAIN c, NEW j \in DOMAIN c, c[i][1] = "cleaner", c[j][1] # "cleaner"
               PROVE  i < j
    OBVIOUS
  <2>1. i \in DOMAIN cleanup
    BY <1>2, <1>3, <1>4
  <2>2. CASE j \in DOMAIN cleanup
    BY <1>1, <1>3, <2>1, <2>2
  <2>3. CASE j = Len(cleanup) + 1
    BY <1>3, <2>1, <2>3
  <2> QED BY <1>4, <2>2, <2>3
<1>8. cleanup' = c
  BY DEF c, e
<1> QED BY <1>1, <1>3, <1>6, <1>7, <1>8 DEF ListInv, e

------------------------------------------------------------------------------
(* A new pool has one heap, and nothing cut off it. *)
LEMMA PoolStarts == PoolInit => PoolInv
<1> SUFFICES ASSUME NEW size \in HeapSizes, PoolWith(size) PROVE PoolInv
  BY DEF PoolInit
<1>1. /\ size \in Nat /\ alive = TRUE /\ blocks = <<>> /\ cleanup = <<>> /\ cleaners = 0
      /\ heap = (IF size = 0 THEN 0 ELSE 1)
      /\ heaps = (IF size = 0 THEN <<>> ELSE <<[size |-> size, used |-> 0]>>)
  BY PoolAssumption DEF PoolWith
<1>2. HeapsInv
  <2>1. CASE size = 0
    BY <1>1, <2>1 DEF HeapsInv
  <2>2. CASE size # 0
    <3>1. [size |-> size, used |-> 0] \in Heaps
      BY <1>1 DEF Heaps
    <3>2. heaps \in Seq(Heaps) /\ Len(heaps) = 1 /\ DOMAIN heaps = {1} /\ heaps[1] = [size |-> size, used |-> 0]
      BY <1>1, <2>2, <3>1
    <3> QED BY <1>1, <2>2, <3>2 DEF HeapsInv
  <2> QED BY <2>1, <2>2
<1>3. ListInv
  <2>1. Registered = {}
    <3>1. 2 .. Len(heaps) = {} /\ 1 .. cleaners = {} /\ DOMAIN blocks = {}
      BY <1>1
    <3> QED BY <3>1 DEF Registered
  <2>2. Range(cleanup) = {} /\ cleanup \in Seq(Entries) /\ DOMAIN cleanup = {}
    BY <1>1 DEF Range
  <2> QED BY <1>1, <2>1, <2>2 DEF ListInv
<1> QED BY <1>1, <1>2, <1>3 DEF PoolInv

(* Used for marks and ends of blocks. *)
LEMMA UpTo == ASSUME NEW x \in Nat, NEW y \in Nat, NEW z \in Nat, x <= y, y <= z PROVE x <= z
OBVIOUS

(* What it takes for a step that returns one more block of memory. *)
LEMMA BlockAdded ==
  ASSUME HeapsInv, NEW b \in Blocks, blocks' = Append(blocks, b),
         heaps' \in Seq(Heaps), heap' = Len(heaps'), Len(heaps) <= Len(heaps'),
         \A h \in DOMAIN heaps' : heaps'[h].used <= heaps'[h].size,
         \A h \in DOMAIN heaps : heaps[h].used <= heaps'[h].used,
         b.heap # 0 => /\ b.heap \in DOMAIN heaps'
                       /\ b.at + b.size <= heaps'[b.heap].used
                       /\ b.size >= 4 => b.at % 8 = 0
                       /\ b.heap \in DOMAIN heaps => heaps[b.heap].used <= b.at
  PROVE  HeapsInv'
<1>1. heaps \in Seq(Heaps) /\ blocks \in Seq(Blocks)
  BY DEF HeapsInv
<1>2. /\ blocks' \in Seq(Blocks) /\ DOMAIN blocks' = 1 .. Len(blocks) + 1 /\ Len(blocks) \in Nat
      /\ DOMAIN blocks = 1 .. Len(blocks)
      /\ \A i \in 1 .. Len(blocks) : blocks'[i] = blocks[i]
      /\ blocks'[Len(blocks) + 1] = b
  BY <1>1, Appended
<1>3. DOMAIN heaps = 1 .. Len(heaps) /\ DOMAIN heaps' = 1 .. Len(heaps') /\ DOMAIN heaps \subseteq DOMAIN heaps'
  BY <1>1
<1>4. \A h \in DOMAIN heaps : heaps[h].used \in Nat /\ heaps'[h].used \in Nat
  <2>1. \A h \in DOMAIN heaps : heaps[h] \in Heaps /\ heaps'[h] \in Heaps
    BY <1>1, <1>3
  <2> QED BY <2>1 DEF Heaps
<1>5. \A i \in DOMAIN blocks : blocks[i].heap \in Nat /\ blocks[i].at + blocks[i].size \in Nat
  <2>1. \A i \in DOMAIN blocks : blocks[i] \in Blocks
    BY <1>1
  <2> SUFFICES ASSUME NEW i \in DOMAIN blocks
               PROVE  blocks[i].heap \in Nat /\ blocks[i].at + blocks[i].size \in Nat
    OBVIOUS
  <2>2. blocks[i].heap \in Nat /\ blocks[i].at \in Nat /\ blocks[i].size \in Nat
    BY <2>1 DEF Blocks
  <2> QED BY <2>2
<1>6. b.heap \in Nat /\ b.at \in Nat /\ b.size \in Nat
  BY DEF Blocks
<1>7. ASSUME NEW i \in DOMAIN blocks', blocks'[i].heap # 0
      PROVE  /\ blocks'[i].heap \in DOMAIN heaps'
             /\ blocks'[i].at + blocks'[i].size <= heaps'[blocks'[i].heap].used
             /\ blocks'[i].size >= 4 => blocks'[i].at % 8 = 0
             /\ \A j \in 1 .. (i - 1) :
                  blocks'[j].heap = blocks'[i].heap => blocks'[j].at + blocks'[j].size <= blocks'[i].at
  <2>1. CASE i \in DOMAIN blocks
    <3>1. \A j \in 1 .. (i - 1) : j \in DOMAIN blocks /\ blocks'[j] = blocks[j]
      BY <1>2, <2>1
    <3>2. blocks'[i] = blocks[i]
      BY <1>2, <2>1
    <3>3. /\ blocks[i].heap \in DOMAIN heaps
          /\ blocks[i].at + blocks[i].size <= heaps[blocks[i].heap].used
          /\ blocks[i].size >= 4 => blocks[i].at % 8 = 0
          /\ \A j \in 1 .. (i - 1) : blocks[j].heap = blocks[i].heap => blocks[j].at + blocks[j].size <= blocks[i].at
      BY <1>7, <2>1, <3>2 DEF HeapsInv
    <3>4. blocks[i].at + blocks[i].size <= heaps'[blocks[i].heap].used
      <4>1. heaps[blocks[i].heap].used <= heaps'[blocks[i].heap].used
        BY <3>3
      <4> QED BY <1>4, <1>5, <2>1, <3>3, <4>1, UpTo
    <3> QED BY <1>3, <3>1, <3>2, <3>3, <3>4
  <2>2. CASE i = Len(blocks) + 1
    <3>1. blocks'[i] = b
      BY <1>2, <2>2
    <3>2. ASSUME NEW j \in 1 .. (i - 1), blocks'[j].heap = b.heap
          PROVE  blocks'[j].at + blocks'[j].size <= b.at
      <4>1. j \in DOMAIN blocks /\ blocks'[j] = blocks[j]
        BY <1>2, <2>2
      <4>2. blocks[j].heap # 0
        BY <1>7, <3>1, <3>2, <4>1
      <4>3. blocks[j].heap \in DOMAIN heaps /\ blocks[j].at + blocks[j].size <= heaps[b.heap].used
        BY <3>2, <4>1, <4>2 DEF HeapsInv
      <4>4. heaps[b.heap].used <= b.at /\ heaps[b.heap].used \in Nat
        BY <1>4, <1>7, <3>1, <3>2, <4>1, <4>3
      <4> QED BY <1>5, <1>6, <4>1, <4>3, <4>4, UpTo
    <3> QED BY <1>7, <3>1, <3>2
  <2> QED BY <1>2, <2>1, <2>2, SMTT(60)
<1> QED BY <1>2, <1>7 DEF HeapsInv

(* A size that is rounded up is a multiple of 8, and not less than before. *)
LEMMA RoundedUp == ASSUME NEW n \in Nat PROVE RoundUp(n) \in Nat /\ n <= RoundUp(n) /\ RoundUp(n) % 8 = 0
<1>1. PICK q \in Nat : q = (n + 7) \div 8
  OBVIOUS
<1>2. RoundUp(n) = q * 8
  BY <1>1 DEF RoundUp
<1>3. n <= q * 8
  BY <1>1
<1>4. (q * 8) % 8 = 0
  OBVIOUS
<1> QED BY <1>2, <1>3, <1>4

(* Half of a heap is what pmalloc cuts at most. *)
LEMMA Halved == ASSUME NEW x \in Nat PROVE x \div 2 \in Nat /\ x \div 2 <= x
OBVIOUS

(* The sizes and marks of the heaps are numbers. *)
LEMMA HeapTypes ==
  ASSUME HeapsInv, heap # 0
  PROVE  /\ heap \in DOMAIN heaps /\ DOMAIN heaps = 1 .. Len(heaps) /\ Len(heaps) \in Nat
         /\ heaps[heap] \in Heaps /\ heaps[heap].size \in Nat /\ heaps[heap].used \in Nat
         /\ heaps[heap].used <= heaps[heap].size
<1>1. heaps \in Seq(Heaps) /\ heap = Len(heaps)
  BY DEF HeapsInv
<1>2. heap \in DOMAIN heaps /\ DOMAIN heaps = 1 .. Len(heaps) /\ Len(heaps) \in Nat /\ heaps[heap] \in Heaps
  BY <1>1
<1>3. heaps[heap].size \in Nat /\ heaps[heap].used \in Nat
  BY <1>2 DEF Heaps
<1> QED BY <1>1, <1>2, <1>3 DEF HeapsInv

(* A block that is too large for a heap gets memory of its own. *)
LEMMA RawKeeps == ASSUME PoolInv, NEW size \in Nat, Raw(size), UNCHANGED <<cleaners, order, alive>>, alive PROVE PoolInv'
<1> DEFINE b == [heap |-> 0, at |-> 0, size |-> size]
<1>1. HeapsInv /\ heaps \in Seq(Heaps) /\ heaps' = heaps /\ heap' = heap /\ blocks' = Append(blocks, b) /\ blocks \in Seq(Blocks)
  BY DEF PoolInv, HeapsInv, Raw
<1>2. b \in Blocks /\ b.heap = 0
  BY DEF Blocks
<1> HIDE DEF b
<1>3. Len(heaps) \in Nat /\ \A h \in DOMAIN heaps : heaps[h].used \in Nat
  <2>1. \A h \in DOMAIN heaps : heaps[h] \in Heaps
    BY <1>1
  <2> QED BY <1>1, <2>1 DEF Heaps
<1>4. HeapsInv'
  <2>1. heap = Len(heaps) /\ \A h \in DOMAIN heaps : heaps[h].used <= heaps[h].size
    BY <1>1 DEF HeapsInv
  <2> QED BY <1>1, <1>2, <1>3, <2>1, BlockAdded
<1>5. /\ DOMAIN blocks' = 1 .. Len(blocks) + 1 /\ Len(blocks) \in Nat /\ Len(blocks') = Len(blocks) + 1
      /\ DOMAIN blocks = 1 .. Len(blocks)
      /\ \A i \in 1 .. Len(blocks) : blocks'[i] = blocks[i]
      /\ blocks'[Len(blocks) + 1] = b
  BY <1>1, <1>2, Appended
<1>6. {c \in DOMAIN blocks' : blocks'[c].heap = 0} = {c \in DOMAIN blocks : blocks[c].heap = 0} \cup {Len(blocks')}
  BY <1>2, <1>5
<1>7. Registered' = Registered \cup {<<"raw", Len(blocks')>>}
  BY <1>1, <1>6 DEF Registered
<1>8. <<"raw", Len(blocks')>> \notin Registered /\ Len(blocks') \in Nat
  BY <1>5 DEF Registered
<1>9. cleanup' = Append(cleanup, <<"raw", Len(blocks')>>)
  BY DEF Raw, _pool_cleanup_append
<1>10. ListInv'
  BY <1>7, <1>8, <1>9, ListGrows
<1> QED BY <1>4, <1>10 DEF PoolInv

(* A block cut off the heap ends where the mark is put. *)
LEMMA CutKeeps == ASSUME PoolInv, NEW size \in Nat, Cut(size), UNCHANGED <<cleaners, order, alive>>, alive PROVE PoolInv'
<1> DEFINE h == heaps[heap]
           from == IF size >= 4 THEN RoundUp(h.used) ELSE h.used
           b == [heap |-> heap, at |-> from, size |-> size]
           more == [heaps EXCEPT ![heap].used = from + size]
<1>1. /\ HeapsInv /\ heap # 0 /\ size <= h.size - from /\ heaps' = more /\ blocks' = Append(blocks, b)
      /\ heap' = heap /\ cleanup' = cleanup
  BY DEF PoolInv, Cut
<1>2. /\ heap \in DOMAIN heaps /\ DOMAIN heaps = 1 .. Len(heaps) /\ Len(heaps) \in Nat
      /\ h \in Heaps /\ h.size \in Nat /\ h.used \in Nat
  BY <1>1, HeapTypes
<1>3. from \in Nat /\ h.used <= from /\ (size >= 4 => from % 8 = 0)
  <2>1. CASE size >= 4
    <3>1. from = RoundUp(h.used)
      BY <2>1
    <3>2. h.used \in Nat
      BY <1>2
    <3> HIDE DEF h, from
    <3> QED BY <3>1, <3>2, RoundedUp
  <2>2. CASE ~ size >= 4
    <3>1. from = h.used /\ h.used \in Nat
      BY <1>2, <2>2
    <3> HIDE DEF h, from
    <3> QED BY <2>2, <3>1
  <2> QED BY <2>1, <2>2
<1>4. b \in Blocks /\ b.heap = heap /\ b.at = from /\ b.size = size
  <2> heap \in Nat
    BY <1>2
  <2> HIDE DEF from
  <2> QED BY <1>3 DEF Blocks
<1> HIDE DEF from, b
<1>5. heaps \in Seq(Heaps) /\ blocks \in Seq(Blocks) /\ heap = Len(heaps) /\ \A g \in DOMAIN heaps : heaps[g].used <= heaps[g].size
  BY <1>1 DEF HeapsInv
<1>6. [h EXCEPT !.used = from + size] \in Heaps /\ [h EXCEPT !.used = from + size].used = from + size
      /\ [h EXCEPT !.used = from + size].size = h.size
  BY <1>2, <1>3 DEF Heaps
<1>7. /\ more \in Seq(Heaps) /\ Len(more) = Len(heaps) /\ DOMAIN more = DOMAIN heaps
      /\ more[heap] = [h EXCEPT !.used = from + size]
      /\ \A g \in DOMAIN heaps : g # heap => more[g] = heaps[g]
  BY <1>2, <1>5, <1>6
<1> HIDE DEF more
<1>8. \A g \in DOMAIN heaps : heaps[g].used \in Nat
  <2>1. \A g \in DOMAIN heaps : heaps[g] \in Heaps
    BY <1>5
  <2> QED BY <2>1 DEF Heaps
<1>9. /\ more[heap].used = from + size /\ more[heap].size = h.size
      /\ from + size <= h.size /\ heaps[heap].used <= from + size
  <2>1. from + size <= h.size /\ heaps[heap].used <= from + size
    <3>1. h.size \in Nat /\ h.used \in Nat /\ size <= h.size - from /\ h.used <= from
      BY <1>1, <1>2, <1>3
    <3>2. ASSUME NEW s \in Nat, NEW u \in Nat, NEW f \in Nat, size <= s - f, u <= f
          PROVE  f + size <= s /\ u <= f + size
      BY <3>2
    <3>3. from + size <= h.size /\ h.used <= from + size
      <4> HIDE DEF h
      <4> QED BY <1>3, <3>1, <3>2
    <3> QED BY <3>3
  <2> QED BY <1>6, <1>7, <2>1
<1>10. ASSUME NEW g \in DOMAIN heaps
       PROVE  more[g].used <= more[g].size /\ heaps[g].used <= more[g].used
  <2>1. CASE g = heap
    BY <1>9, <2>1
  <2>2. CASE g # heap
    <3>1. more[g] = heaps[g] /\ heaps[g].used <= heaps[g].size /\ heaps[g].used \in Nat
      BY <1>5, <1>7, <1>8, <2>2
    <3> QED BY <3>1
  <2> QED BY <2>1, <2>2
<1>11. HeapsInv'
  <2>1. b.at + b.size <= more[b.heap].used
    <3>1. more[heap].used \in Nat
      BY <1>3, <1>9
    <3> QED BY <1>4, <1>9, <3>1
  <2>2. /\ heaps' \in Seq(Heaps) /\ heap' = Len(heaps') /\ Len(heaps) <= Len(heaps')
        /\ \A g \in DOMAIN heaps' : heaps'[g].used <= heaps'[g].size
        /\ \A g \in DOMAIN heaps : heaps[g].used <= heaps'[g].used
    BY <1>1, <1>2, <1>5, <1>7, <1>10
  <2>3. /\ b.heap \in DOMAIN heaps' /\ b.at + b.size <= heaps'[b.heap].used
        /\ b.size >= 4 => b.at % 8 = 0
        /\ heaps[b.heap].used <= b.at
    BY <1>1, <1>2, <1>3, <1>4, <1>7, <2>1
  <2> HIDE DEF h
  <2> QED BY <1>1, <1>4, <2>2, <2>3, BlockAdded
<1>12. /\ DOMAIN blocks' = 1 .. Len(blocks) + 1 /\ Len(blocks) \in Nat
       /\ DOMAIN blocks = 1 .. Len(blocks)
       /\ \A i \in 1 .. Len(blocks) : blocks'[i] = blocks[i]
       /\ blocks'[Len(blocks) + 1] = b
  BY <1>1, <1>4, <1>5, Appended
<1>13. {c \in DOMAIN blocks' : blocks'[c].heap = 0} = {c \in DOMAIN blocks : blocks[c].heap = 0}
  BY <1>1, <1>4, <1>12
<1>14. Registered' = Registered
  BY <1>1, <1>7, <1>13 DEF Registered
<1>15. ListInv'
  BY <1>1, <1>14 DEF PoolInv, ListInv
<1> QED BY <1>11, <1>15 DEF PoolInv

(* A block that does not fit is cut off a new heap. *)
LEMMA NewHeapKeeps == ASSUME PoolInv, NEW size \in Nat, NewHeap(size), UNCHANGED <<cleaners, order, alive>>, alive PROVE PoolInv'
<1> DEFINE full == heaps[heap].size
           g == [size |-> full, used |-> size]
           b == [heap |-> Len(heaps) + 1, at |-> 0, size |-> size]
<1>1. /\ HeapsInv /\ heap # 0 /\ size <= full \div 2 /\ heaps' = Append(heaps, g) /\ blocks' = Append(blocks, b)
      /\ heap' = Len(heaps) + 1 /\ cleanup' = Append(cleanup, <<"heap", Len(heaps) + 1>>)
  BY DEF PoolInv, NewHeap, _pool_cleanup_append
<1>2. heap \in DOMAIN heaps /\ DOMAIN heaps = 1 .. Len(heaps) /\ Len(heaps) \in Nat /\ full \in Nat
  BY <1>1, HeapTypes
<1>3. size <= full
  <2> HIDE DEF full
  <2>1. full \div 2 \in Nat /\ full \div 2 <= full
    BY <1>2, Halved
  <2> QED BY <1>1, <1>2, <2>1, UpTo
<1>4. b \in Blocks /\ b.heap = Len(heaps) + 1 /\ b.at = 0 /\ b.size = size
  BY <1>2 DEF Blocks
<1>5. g \in Heaps /\ g.used = size /\ g.size = full
  BY <1>2 DEF Heaps
<1> HIDE DEF b, g
<1>6. heaps \in Seq(Heaps) /\ blocks \in Seq(Blocks) /\ heap = Len(heaps) /\ \A k \in DOMAIN heaps : heaps[k].used <= heaps[k].size
  BY <1>1 DEF HeapsInv
<1>7. /\ heaps' \in Seq(Heaps) /\ Len(heaps') = Len(heaps) + 1 /\ DOMAIN heaps' = 1 .. Len(heaps) + 1
      /\ \A k \in 1 .. Len(heaps) : heaps'[k] = heaps[k]
      /\ heaps'[Len(heaps) + 1] = g
  BY <1>1, <1>5, <1>6, Appended
<1>8. \A k \in DOMAIN heaps : heaps[k].used \in Nat
  <2>1. \A k \in DOMAIN heaps : heaps[k] \in Heaps
    BY <1>6
  <2> QED BY <2>1 DEF Heaps
<1>9. HeapsInv'
  <2>1. /\ heap' = Len(heaps') /\ Len(heaps) <= Len(heaps')
        /\ \A k \in DOMAIN heaps' : heaps'[k].used <= heaps'[k].size
        /\ \A k \in DOMAIN heaps : heaps[k].used <= heaps'[k].used
    <3>1. \A k \in DOMAIN heaps' : k \in DOMAIN heaps \/ k = Len(heaps) + 1
      BY <1>2, <1>7
    <3>2. \A k \in DOMAIN heaps' : heaps'[k].used <= heaps'[k].size
      BY <1>2, <1>3, <1>5, <1>6, <1>7, <3>1
    <3>3. \A k \in DOMAIN heaps : heaps[k].used <= heaps'[k].used
      BY <1>2, <1>7, <1>8
    <3>4. heap' = Len(heaps') /\ Len(heaps) <= Len(heaps')
      BY <1>1, <1>2, <1>7
    <3> QED BY <3>2, <3>3, <3>4
  <2>2. /\ b.heap \in DOMAIN heaps' /\ b.heap \notin DOMAIN heaps
        /\ b.at + b.size <= heaps'[b.heap].used
        /\ b.at % 8 = 0
    BY <1>2, <1>4, <1>5, <1>7
  <2> HIDE DEF full
  <2> QED BY <1>1, <1>4, <1>7, <2>1, <2>2, BlockAdded
<1>10. /\ DOMAIN blocks' = 1 .. Len(blocks) + 1 /\ Len(blocks) \in Nat
       /\ DOMAIN blocks = 1 .. Len(blocks)
       /\ \A i \in 1 .. Len(blocks) : blocks'[i] = blocks[i]
       /\ blocks'[Len(blocks) + 1] = b
  BY <1>1, <1>4, <1>6, Appended
<1>11. {c \in DOMAIN blocks' : blocks'[c].heap = 0} = {c \in DOMAIN blocks : blocks[c].heap = 0}
  <2>1. b.heap # 0
    BY <1>2, <1>4
  <2> QED BY <1>10, <2>1
<1>12. 2 .. Len(heaps') = (2 .. Len(heaps)) \cup {Len(heaps) + 1}
  BY <1>2, <1>7
<1>13. Registered' = Registered \cup {<<"heap", Len(heaps) + 1>>}
  BY <1>11, <1>12 DEF Registered
<1>14. <<"heap", Len(heaps) + 1>> \notin Registered /\ Len(heaps) + 1 \in Nat
  BY <1>2 DEF Registered
<1>15. ListInv'
  BY <1>1, <1>13, <1>14, ListGrows
<1> QED BY <1>9, <1>15 DEF PoolInv

(* pmalloc, whichever of the three it does. *)
LEMMA pmallocKeeps == ASSUME PoolInv, NEW size \in Nat, pmalloc(size) PROVE PoolInv'
BY RawKeeps, CutKeeps, NewHeapKeeps DEF pmalloc

(* A function goes to the front, so the functions stay before the memory. *)
LEMMA CleanupKeeps == ASSUME PoolInv, pool_cleanup PROVE PoolInv'
<1> DEFINE e == <<"cleaner", cleaners + 1>>  c == <<e>> \o cleanup
<1>1. /\ cleanup \in Seq(Entries) /\ cleaners \in Nat /\ Range(cleanup) = Registered
      /\ \A i, j \in DOMAIN cleanup : cleanup[i] = cleanup[j] => i = j
      /\ \A i, j \in DOMAIN cleanup : cleanup[i][1] = "cleaner" /\ cleanup[j][1] # "cleaner" => i < j
  BY DEF PoolInv, ListInv
<1>2. e \in Entries /\ e[1] = "cleaner"
  BY <1>1 DEF Entries
<1>3. cleanup' = c /\ cleaners' = cleaners + 1
  BY DEF pool_cleanup
<1>4. e \notin Registered
  BY <1>1 DEF Registered
<1>5. Registered' = Registered \cup {e}
  <2>1. 1 .. cleaners' = (1 .. cleaners) \cup {cleaners + 1}
    BY <1>1, <1>3
  <2>2. heaps' = heaps /\ blocks' = blocks
    BY DEF pool_cleanup
  <2> QED BY <2>1, <2>2 DEF Registered
<1> HIDE DEF e
<1>6. /\ c \in Seq(Entries) /\ DOMAIN c = 1 .. Len(cleanup) + 1 /\ Len(cleanup) \in Nat
      /\ DOMAIN cleanup = 1 .. Len(cleanup)
      /\ \A i \in 1 .. Len(cleanup) : c[i + 1] = cleanup[i]
      /\ c[1] = e /\ Range(c) = Range(cleanup) \cup {e}
  BY <1>1, <1>2, Prepended
<1> HIDE DEF c
<1>7. \A i \in DOMAIN c : i = 1 \/ (i - 1 \in DOMAIN cleanup /\ c[i] = cleanup[i - 1])
  <2> SUFFICES ASSUME NEW i \in DOMAIN c, i # 1 PROVE i - 1 \in DOMAIN cleanup /\ c[i] = cleanup[i - 1]
    OBVIOUS
  <2>1. i - 1 \in 1 .. Len(cleanup) /\ (i - 1) + 1 = i
    BY <1>6
  <2> QED BY <1>6, <2>1
<1>8. \A i \in DOMAIN cleanup : cleanup[i] # e
  BY <1>1, <1>4 DEF Range
<1>9. \A i \in DOMAIN c : i \in Int
  BY <1>6
<1>10. ASSUME NEW i \in DOMAIN c, NEW j \in DOMAIN c, c[i] = c[j] PROVE i = j
  <2>1. CASE i = 1 \/ j = 1
    BY <1>6, <1>7, <1>8, <1>10, <2>1
  <2>2. CASE i # 1 /\ j # 1
    <3>1. i - 1 = j - 1
      BY <1>1, <1>7, <1>10, <2>2
    <3> QED BY <1>9, <3>1
  <2> QED BY <2>1, <2>2
<1>11. ASSUME NEW i \in DOMAIN c, NEW j \in DOMAIN c, c[i][1] = "cleaner", c[j][1] # "cleaner" PROVE i < j
  <2>1. j # 1
    BY <1>2, <1>6, <1>11
  <2>2. CASE i = 1
    BY <1>6, <2>1, <2>2
  <2>3. CASE i # 1
    <3>1. i - 1 < j - 1
      BY <1>1, <1>7, <1>11, <2>1, <2>3
    <3> QED BY <1>9, <3>1
  <2> QED BY <2>2, <2>3
<1>12. ListInv'
  BY <1>1, <1>3, <1>5, <1>6, <1>10, <1>11 DEF ListInv
<1>13. HeapsInv' /\ alive' = alive /\ alive
  BY DEF PoolInv, HeapsInv, pool_cleanup
<1> QED BY <1>12, <1>13 DEF PoolInv

(* pool_free gives back the list as it stands. *)
LEMMA FreeKeeps == ASSUME PoolInv, pool_free PROVE PoolInv'
<1>1. HeapsInv'
  BY DEF PoolInv, HeapsInv, pool_free
<1>2. ListInv'
  BY DEF PoolInv, ListInv, Registered, pool_free
<1> QED BY <1>1, <1>2 DEF PoolInv, pool_free

(* Nothing changes. *)
LEMMA PoolStops == ASSUME PoolInv, UNCHANGED poolVars PROVE PoolInv'
<1>1. HeapsInv'
  BY DEF PoolInv, HeapsInv, poolVars
<1>2. ListInv'
  BY DEF PoolInv, ListInv, Registered, poolVars
<1> QED BY <1>1, <1>2 DEF PoolInv, poolVars

(* The heaps, the blocks cut off them and the list of what is to be freed
   agree after any sequence of calls. *)
THEOREM PoolInvariant == PoolSpec => []PoolInv
<1>1. PoolInv /\ [PoolNext]_poolVars => PoolInv'
  <2> SUFFICES ASSUME PoolInv, [PoolNext]_poolVars PROVE PoolInv'
    OBVIOUS
  <2>1. ASSUME NEW size \in Requests, pmalloc(size) \/ pstrdup(size) PROVE PoolInv'
    <3>1. size \in Nat /\ size + 1 \in Nat
      BY PoolAssumption
    <3> QED BY <2>1, <3>1, pmallocKeeps DEF pstrdup
  <2> QED BY <2>1, CleanupKeeps, FreeKeeps, PoolStops DEF PoolNext
<1> QED BY <1>1, PoolStarts, PTL DEF PoolSpec

(* Blocks share no memory and stay inside their heaps, aligned for a struct. *)
LEMMA InvApart == PoolInv => BlocksApart
<1> SUFFICES ASSUME PoolInv, NEW i \in DOMAIN blocks, blocks[i].heap # 0
             PROVE  /\ blocks[i].at + blocks[i].size <= heaps[blocks[i].heap].size
                    /\ blocks[i].size >= 4 => blocks[i].at % 8 = 0
                    /\ \A j \in 1 .. (i - 1) :
                         blocks[j].heap = blocks[i].heap => blocks[j].at + blocks[j].size <= blocks[i].at
  BY DEF BlocksApart
<1>1. HeapsInv
  BY DEF PoolInv
<1>2. /\ blocks[i].heap \in DOMAIN heaps
      /\ blocks[i].at + blocks[i].size <= heaps[blocks[i].heap].used
      /\ blocks[i].size >= 4 => blocks[i].at % 8 = 0
      /\ \A j \in 1 .. (i - 1) : blocks[j].heap = blocks[i].heap => blocks[j].at + blocks[j].size <= blocks[i].at
  BY <1>1 DEF HeapsInv
<1>3. heaps[blocks[i].heap] \in Heaps /\ blocks[i] \in Blocks /\ heaps[blocks[i].heap].used <= heaps[blocks[i].heap].size
  BY <1>1, <1>2 DEF HeapsInv
<1>4. heaps[blocks[i].heap].used \in Nat /\ heaps[blocks[i].heap].size \in Nat
  BY <1>3 DEF Heaps
<1>5. blocks[i].at + blocks[i].size \in Nat
  <2>1. blocks[i].at \in Nat /\ blocks[i].size \in Nat
    BY <1>3 DEF Blocks
  <2> QED BY <2>1
<1> QED BY <1>2, <1>3, <1>4, <1>5, UpTo

(* What is given back is what was on the list, once, and the functions first. *)
LEMMA InvFreed == PoolInv => FreedOnce
<1> SUFFICES ASSUME PoolInv, ~ alive PROVE FreedOnce
  BY DEF FreedOnce
<1> DEFINE e == <<"pool", 0>>
<1>1. order = Append(cleanup, e) /\ cleanup \in Seq(Entries) /\ ListInv
  BY DEF PoolInv, ListInv
<1>2. e \in Entries /\ e[1] # "cleaner"
  BY DEF Entries
<1>3. e \notin Registered
  BY DEF Registered
<1> HIDE DEF e
<1>4. /\ DOMAIN order = 1 .. Len(cleanup) + 1 /\ Len(cleanup) \in Nat
      /\ DOMAIN cleanup = 1 .. Len(cleanup)
      /\ \A i \in 1 .. Len(cleanup) : order[i] = cleanup[i]
      /\ order[Len(cleanup) + 1] = e
      /\ Range(order) = Range(cleanup) \cup {e}
  BY <1>1, <1>2, Appended
<1>5. \A i \in DOMAIN order : i \in DOMAIN cleanup \/ i = Len(cleanup) + 1
  BY <1>4
<1>6. /\ Range(cleanup) = Registered
      /\ \A i, j \in DOMAIN cleanup : cleanup[i] = cleanup[j] => i = j
      /\ \A i, j \in DOMAIN cleanup : cleanup[i][1] = "cleaner" /\ cleanup[j][1] # "cleaner" => i < j
  BY <1>1 DEF ListInv
<1>7. \A i \in DOMAIN cleanup : cleanup[i] # e
  BY <1>3, <1>6 DEF Range
<1>8. \A i, j \in DOMAIN order : order[i] = order[j] => i = j
  BY <1>4, <1>5, <1>6, <1>7
<1>9. ASSUME NEW i \in DOMAIN order, NEW j \in DOMAIN order, order[i][1] = "cleaner", order[j][1] # "cleaner" PROVE i < j
  <2>1. i \in DOMAIN cleanup
    BY <1>2, <1>4, <1>5, <1>9
  <2>2. CASE j \in DOMAIN cleanup
    BY <1>4, <1>6, <1>9, <2>1, <2>2
  <2>3. CASE j = Len(cleanup) + 1
    BY <1>4, <2>1, <2>3
  <2> QED BY <1>5, <2>2, <2>3
<1> QED BY <1>4, <1>6, <1>8, <1>9 DEF FreedOnce, e

(* pmalloc never hands out the same memory twice, nor memory outside a heap,
   and pool_free gives everything back exactly once, after the functions. *)
THEOREM PoolMemory == PoolSpec => [](BlocksApart /\ FreedOnce)
BY PoolInvariant, InvApart, InvFreed, PTL

------------------------------------------------------------------------------
(* What the heaps and the raw blocks hold are numbers, and a heap or a block
   more adds its own. *)
LEMMA MemoryTypes ==
  ASSUME HeapsInv
  PROVE  /\ Len(heaps) \in Nat /\ DOMAIN HeapMemory = 1 .. Len(heaps)
         /\ \A h \in 1 .. Len(heaps) : HeapMemory[h] = heaps[h].size /\ HeapMemory[h] \in Int
         /\ Len(blocks) \in Nat /\ DOMAIN RawMemory = 1 .. Len(blocks)
         /\ \A b \in 1 .. Len(blocks) :
              /\ RawMemory[b] = (IF blocks[b].heap = 0 THEN blocks[b].size ELSE 0)
              /\ RawMemory[b] \in Int
<1>1. heaps \in Seq(Heaps) /\ blocks \in Seq(Blocks)
  BY DEF HeapsInv
<1>2. Len(heaps) \in Nat /\ DOMAIN heaps = 1 .. Len(heaps) /\ Len(blocks) \in Nat /\ DOMAIN blocks = 1 .. Len(blocks)
  BY <1>1
<1>3. \A h \in DOMAIN heaps : heaps[h].size \in Int
  <2>1. \A h \in DOMAIN heaps : heaps[h] \in Heaps
    BY <1>1
  <2> QED BY <2>1 DEF Heaps
<1>4. \A b \in DOMAIN blocks : blocks[b].size \in Int
  <2>1. \A b \in DOMAIN blocks : blocks[b] \in Blocks
    BY <1>1
  <2> QED BY <2>1 DEF Blocks
<1> QED BY <1>2, <1>3, <1>4 DEF HeapMemory, RawMemory

(* The sums are those of the same heaps, whatever was cut off them, ... *)
LEMMA HeapsSame ==
  ASSUME HeapsInv, HeapsInv', Len(heaps') = Len(heaps),
         \A h \in 1 .. Len(heaps) : heaps'[h].size = heaps[h].size
  PROVE  SumFunction(HeapMemory)' = SumFunction(HeapMemory)
<1>1. HeapMemory' = HeapMemory
  BY MemoryTypes DEF HeapMemory, HeapsInv
<1> QED BY <1>1

(* ... of one heap more, ... *)
LEMMA HeapMore ==
  ASSUME HeapsInv, HeapsInv', NEW g, heaps' = Append(heaps, g)
  PROVE  SumFunction(HeapMemory)' = SumFunction(HeapMemory) + g.size /\ SumFunction(HeapMemory) \in Int
<1> DEFINE n == Len(heaps)
<1>1. /\ n \in Nat /\ DOMAIN HeapMemory = 1 .. n
      /\ \A h \in 1 .. n : HeapMemory[h] = heaps[h].size /\ HeapMemory[h] \in Int
  BY MemoryTypes
<1>2. Len(heaps') = n + 1 /\ heaps'[n + 1] = g /\ \A h \in 1 .. n : heaps'[h] = heaps[h]
  BY DEF HeapsInv
<1>3. DOMAIN heaps' = 1 .. (n + 1) /\ DOMAIN heaps = 1 .. n /\ g.size \in Int
  <2>1. heaps' \in Seq(Heaps) /\ heaps \in Seq(Heaps)
    BY DEF HeapsInv
  <2>2. DOMAIN heaps' = 1 .. (n + 1) /\ DOMAIN heaps = 1 .. n /\ g \in Heaps
    BY <1>2, <2>1
  <2> QED BY <2>2 DEF Heaps
<1>4. /\ DOMAIN HeapMemory' = 1 .. (n + 1)
      /\ \A h \in 1 .. n : HeapMemory'[h] = HeapMemory[h]
      /\ HeapMemory'[n + 1] = g.size /\ HeapMemory'[n + 1] \in Int
  BY <1>1, <1>2, <1>3 DEF HeapMemory
<1> HIDE DEF n
<1>5. SumFunction(HeapMemory') = SumFunction(HeapMemory) + HeapMemory'[n + 1] /\ SumFunction(HeapMemory) \in Int
  BY ONLY <1>1, <1>4, SumGrows
<1> QED BY <1>4, <1>5

(* ... and of one block more, which counts when it is a raw one. *)
LEMMA BlockMore ==
  ASSUME HeapsInv, HeapsInv', NEW b, blocks' = Append(blocks, b)
  PROVE  /\ SumFunction(RawMemory)' = SumFunction(RawMemory) + (IF b.heap = 0 THEN b.size ELSE 0)
         /\ SumFunction(RawMemory) \in Int
<1> DEFINE n == Len(blocks)
           more == IF b.heap = 0 THEN b.size ELSE 0
<1>1. n \in Nat /\ DOMAIN RawMemory = 1 .. n /\ \A i \in 1 .. n : RawMemory[i] \in Int
  BY MemoryTypes
<1>2. Len(blocks') = n + 1 /\ blocks'[n + 1] = b /\ \A i \in 1 .. n : blocks'[i] = blocks[i]
  BY DEF HeapsInv
<1>3. DOMAIN blocks' = 1 .. (n + 1) /\ DOMAIN blocks = 1 .. n /\ b.size \in Int
  <2>1. blocks' \in Seq(Blocks) /\ blocks \in Seq(Blocks)
    BY DEF HeapsInv
  <2>2. DOMAIN blocks' = 1 .. (n + 1) /\ DOMAIN blocks = 1 .. n /\ b \in Blocks
    BY <1>2, <2>1
  <2> QED BY <2>2 DEF Blocks
<1>4. /\ DOMAIN RawMemory' = 1 .. (n + 1)
      /\ \A i \in 1 .. n : RawMemory'[i] = RawMemory[i]
      /\ RawMemory'[n + 1] = more /\ RawMemory'[n + 1] \in Int
  BY <1>1, <1>2, <1>3 DEF RawMemory
<1> HIDE DEF n, more
<1>5. SumFunction(RawMemory') = SumFunction(RawMemory) + RawMemory'[n + 1] /\ SumFunction(RawMemory) \in Int
  BY ONLY <1>1, <1>4, SumGrows
<1> QED BY <1>4, <1>5 DEF more

(* The first heap is counted by pool_new. *)
LEMMA SizeStarts == PoolInit => SizeIsSum
<1> SUFFICES ASSUME NEW size \in HeapSizes, PoolWith(size) PROVE SizeIsSum
  BY DEF PoolInit
<1>1. /\ size \in Nat /\ blocks = <<>> /\ psize = size
      /\ heaps = (IF size = 0 THEN <<>> ELSE <<[size |-> size, used |-> 0]>>)
  BY PoolAssumption DEF PoolWith
<1>2. HeapsInv
  BY PoolStarts DEF PoolInit, PoolInv
<1>3. SumFunction(RawMemory) = 0
  <2>1. DOMAIN RawMemory = {}
    BY <1>1 DEF RawMemory
  <2> QED BY <2>1, SumOfNothing DEF SumFunction
<1>4. SumFunction(HeapMemory) = size
  <2>1. CASE size = 0
    <3>1. DOMAIN HeapMemory = {}
      BY <1>1, <2>1 DEF HeapMemory
    <3> QED BY <2>1, <3>1, SumOfNothing DEF SumFunction
  <2>2. CASE size # 0
    <3>1. DOMAIN HeapMemory = {1} /\ HeapMemory[1] = size
      BY <1>1, <2>2 DEF HeapMemory
    <3>2. IsFiniteSet({1}) /\ {1} \ {1} = {} /\ 1 \in {1}
      BY FS_Singleton
    <3>3. SumFunctionOnSet(HeapMemory, {1}) = HeapMemory[1] + SumFunctionOnSet(HeapMemory, {1} \ {1})
      <4>1. \A x \in {1} : HeapMemory[x] \in Int
        BY <1>1, <3>1
      <4> QED BY ONLY <3>2, <4>1, SumWithout
    <3>4. SumFunctionOnSet(HeapMemory, {1}) = size + 0
      BY ONLY <3>1, <3>2, <3>3, SumOfNothing
    <3> QED BY <1>1, <3>1, <3>4 DEF SumFunction
  <2> QED BY <2>1, <2>2
<1> QED BY <1>1, <1>3, <1>4 DEF SizeIsSum

(* pmalloc adds to the size what it adds to the heaps and raw blocks. *)
LEMMA SizeKept ==
  ASSUME PoolInv, PoolInv', SizeIsSum, [PoolNext]_poolVars
  PROVE  SizeIsSum'
<1>1. HeapsInv /\ HeapsInv' /\ heaps \in Seq(Heaps)
  BY DEF PoolInv, HeapsInv
<1>2. psize = SumFunction(HeapMemory) + SumFunction(RawMemory)
  BY DEF SizeIsSum
<1>3. ASSUME UNCHANGED <<heaps, blocks, psize>> PROVE SizeIsSum'
  BY <1>3 DEF SizeIsSum, HeapMemory, RawMemory
<1>4. ASSUME NEW size \in Nat, pmalloc(size) PROVE SizeIsSum'
  <2>1. CASE Raw(size)
    <3> DEFINE b == [heap |-> 0, at |-> 0, size |-> size]
    <3>1. heaps' = heaps /\ psize' = psize + size /\ blocks' = Append(blocks, b) /\ b.heap = 0 /\ b.size = size
      BY <2>1 DEF Raw
    <3> HIDE DEF b
    <3>2. SumFunction(RawMemory)' = SumFunction(RawMemory) + size /\ SumFunction(RawMemory) \in Int
      BY <1>1, <3>1, BlockMore
    <3>3. SumFunction(HeapMemory)' = SumFunction(HeapMemory)
      BY <3>1 DEF HeapMemory
    <3>4. SumFunction(HeapMemory) \in Int
      <4>1. IsFiniteSet(DOMAIN HeapMemory) /\ \A h \in DOMAIN HeapMemory : HeapMemory[h] \in Int
        BY <1>1, MemoryTypes, FS_Interval
      <4> QED BY ONLY <4>1, SumIsInteger DEF SumFunction
    <3> QED BY <1>2, <3>1, <3>2, <3>3, <3>4 DEF SizeIsSum
  <2>2. CASE Cut(size)
    <3> DEFINE from == IF size >= 4 THEN RoundUp(heaps[heap].used) ELSE heaps[heap].used
               b == [heap |-> heap, at |-> from, size |-> size]
    <3>1. /\ heap # 0 /\ heaps' = [heaps EXCEPT ![heap].used = from + size] /\ psize' = psize
          /\ blocks' = Append(blocks, b) /\ b.heap = heap
      BY <2>2 DEF Cut
    <3> HIDE DEF b, from
    <3>2. Len(heaps') = Len(heaps) /\ \A h \in 1 .. Len(heaps) : heaps'[h].size = heaps[h].size
      <4>1. Len(heaps') = Len(heaps) /\ DOMAIN heaps = 1 .. Len(heaps) /\ \A h \in DOMAIN heaps : heaps[h] \in Heaps
        BY <1>1, <3>1
      <4> QED BY <3>1, <4>1 DEF Heaps
    <3>3. SumFunction(HeapMemory)' = SumFunction(HeapMemory)
      BY <1>1, <3>2, HeapsSame
    <3>4. SumFunction(RawMemory)' = SumFunction(RawMemory) + 0 /\ SumFunction(RawMemory) \in Int
      BY <1>1, <3>1, BlockMore
    <3> QED BY <1>2, <3>1, <3>3, <3>4 DEF SizeIsSum
  <2>3. CASE NewHeap(size)
    <3> DEFINE g == [size |-> heaps[heap].size, used |-> size]
               b == [heap |-> heap', at |-> 0, size |-> size]
    <3>1. /\ heap # 0 /\ heaps' = Append(heaps, g) /\ g.size = heaps[heap].size
          /\ psize' = psize + heaps[heap].size
          /\ blocks' = Append(blocks, b) /\ b.heap = heap' /\ heap' = Len(heaps) + 1
      BY <2>3 DEF NewHeap
    <3> HIDE DEF g, b
    <3>2. SumFunction(HeapMemory)' = SumFunction(HeapMemory) + heaps[heap].size /\ SumFunction(HeapMemory) \in Int
      BY <1>1, <3>1, HeapMore
    <3>3. b.heap # 0
      BY <1>1, <3>1
    <3>4. SumFunction(RawMemory)' = SumFunction(RawMemory) + 0 /\ SumFunction(RawMemory) \in Int
      BY <1>1, <3>1, <3>3, BlockMore
    <3>5. heaps[heap].size \in Nat
      BY <1>1, <3>1, HeapTypes
    <3> QED BY <1>2, <3>1, <3>2, <3>4, <3>5 DEF SizeIsSum
  <2> QED BY <1>4, <2>1, <2>2, <2>3 DEF pmalloc
<1>5. ASSUME NEW size \in Requests, pmalloc(size) \/ pstrdup(size) PROVE SizeIsSum'
  <2>1. size \in Nat /\ size + 1 \in Nat
    BY PoolAssumption
  <2> QED BY <1>4, <1>5, <2>1 DEF pstrdup
<1>6. CASE pool_cleanup \/ pool_free \/ UNCHANGED poolVars
  BY <1>3, <1>6 DEF pool_cleanup, pool_free, poolVars
<1> QED BY <1>5, <1>6 DEF PoolNext

(* pool_size counts every heap and every raw block, so with PoolMemory the
   memory of a pool is accounted for until all of it is given back, once. *)
THEOREM PoolIsSound == PoolSpec => []PoolSound
<1>1. PoolInv /\ PoolInv' /\ SizeIsSum /\ [PoolNext]_poolVars => SizeIsSum'
  BY SizeKept
<1>2. PoolInv /\ SizeIsSum => PoolSound
  BY InvApart, InvFreed DEF PoolSound
<1> QED BY <1>1, <1>2, SizeStarts, PoolInvariant, PTL DEF PoolSpec

(***************************************************************************)
(* Packets.                                                                *)
(***************************************************************************)
(* The addresses a stanza can have, and the names that are read into packets. *)
Addressing == Addressees \cup {NoAttr}
StanzaNames == {"message", "messages", "presence", "iq", "iqueue", "stream:stream", "other"}
Children == {"query", "subject", "body", "any", "error", "x"}
Stanzas == [name : StanzaNames, type : AnyType, to : Addressing, from : Addressing, inner : Seq(Children)]

(* A stanza of jutil_presnew, jutil_iqnew or jutil_msgnew, as it was built. *)
AsBuilt(x, m) ==
  \/ /\ x.name = "presence"
     /\ \/ x.type \in TypesOf.s10n /\ m = [type |-> "s10n", subtype |-> x.type]
        \/ x.type \in {"probe", "unavailable", "invisible"} /\ m = [type |-> "presence", subtype |-> x.type]
        \/ x.type = NoAttr /\ m = [type |-> "presence", subtype |-> "available"]
  \/ x.name = "iq" /\ x.type \in TypesOf.iq \cup {"error"} /\ m = [type |-> "iq", subtype |-> x.type]
  \/ /\ x.name = "message"
     /\ \/ x.type \in TypesOf.message /\ m = [type |-> "message", subtype |-> x.type]
        \/ x.type = NoAttr /\ m = [type |-> "message", subtype |-> "none"]

(* The packet is the stanza's, whose subtype may have been filled in. *)
ReadNow(p, x) ==
  \/ p = jpacket_reset(x)
  \/ p = [jpacket_reset(x) EXCEPT !.subtype = jpacket_subtype(jpacket_reset(x), x)]

(* The stanza and the packet made of it say the same. *)
StanzaInv ==
  /\ stanza = NoStanza \/ stanza \in Stanzas
  /\ packet # NoPacket => stanza # NoStanza /\ ReadNow(packet, stanza)
  /\ meant # NoMeaning => stanza # NoStanza /\ stanza.from = NoAttr /\ AsBuilt(stanza, meant)
  /\ origin.answered => stanza # NoStanza /\ stanza.type \in {"result", "error"}
  /\ AnswersGoBack

(* What key_set can write: a key and the seed it was made of. *)
KeyPairs == RandomKeys \X Seeds

(* A slot holds the newest key that went there, whose seed is gone when it
   was accepted, or nothing yet. *)
SlotHolds(i) ==
  keydb[i] = IF Number(i) > 0
               THEN [key |-> issued[Number(i)][1],
                     seed |-> IF used[Number(i)] = 0 THEN issued[Number(i)][2] ELSE "blank"]
               ELSE [key |-> "blank", seed |-> "blank"]
KeyInv ==
  /\ keydb \in [1..Keybuf -> [key : RandomKeys \cup {"blank"}, seed : Seeds \cup {"blank"}]]
  /\ lastKey \in 1..Keybuf
  /\ issued \in Seq(KeyPairs) /\ used \in Seq({0, 1}) /\ Len(used) = Len(issued)
  /\ \A i \in 1..Keybuf : SlotHolds(i)

------------------------------------------------------------------------------
(* The children that jutil gives its stanzas, as lists. *)
LEMMA InnerLists ==
  /\ <<>> \in Seq(Children) /\ <<"query">> \in Seq(Children) /\ <<"any">> \in Seq(Children)
  /\ <<"body">> \in Seq(Children) /\ <<"subject", "body">> \in Seq(Children)
<1>1. \A S : \A a, b \in S : <<>> \in Seq(S) /\ <<a>> \in Seq(S) /\ <<a, b>> \in Seq(S)
  OBVIOUS
<1>2. "query" \in Children /\ "any" \in Children /\ "body" \in Children /\ "subject" \in Children
  BY DEF Children
<1> QED BY <1>1, <1>2, Zenon

(* A new stanza is one, and is none of what was not there. *)
LEMMA NewIsStanza ==
  ASSUME NEW n \in StanzaNames, NEW t \in AnyType, NEW a \in Addressing, NEW i \in Seq(Children)
  PROVE  /\ NewStanza(n, t, a, i) \in Stanzas
         /\ NewStanza(n, t, a, i).name = n /\ NewStanza(n, t, a, i).type = t
         /\ NewStanza(n, t, a, i).from = NoAttr
BY DEF NewStanza, Stanzas, Addressing

(* Where there is no stanza, nothing has a name or an address of one. *)
LEMMA NothingThere ==
  NoStanza.name = "none" /\ \A x \in Stanzas : x.name # "none" /\ x # NoStanza
<1>1. NoStanza.name = "none"
  BY DEF NoStanza, NewStanza
<1>2. \A x \in Stanzas : x.name # "none"
  BY DEF Stanzas, StanzaNames
<1> QED BY <1>1, <1>2

(* type='available' is read as no type, and the type filled in once is kept. *)
LEMMA HiddenReadsSame ==
  ASSUME NEW x \in Stanzas
  PROVE  /\ Hidden(x) \in Stanzas /\ Hidden(x) # NoStanza
         /\ jpacket_reset(Hidden(x)) = jpacket_reset(x)
         /\ Hidden(x).to = x.to /\ Hidden(x).from = x.from /\ Hidden(x).name = x.name
         /\ x.type # "available" => Hidden(x) = x
<1>1. NoAttr \in AnyType
  BY DEF AnyType
<1>2. CASE KindOf(x.name) = "presence" /\ x.type = "available"
  <2>1. Hidden(x) = [x EXCEPT !.type = NoAttr]
    BY <1>2 DEF Hidden
  <2>2. [x EXCEPT !.type = NoAttr] \in Stanzas /\ [x EXCEPT !.type = NoAttr].type = NoAttr
        /\ [x EXCEPT !.type = NoAttr].name = x.name /\ [x EXCEPT !.type = NoAttr].to = x.to
        /\ [x EXCEPT !.type = NoAttr].from = x.from
    BY <1>1 DEF Stanzas
  <2>3. PresenceKind(NoAttr) = PresenceKind("available")
    BY DEF PresenceKind
  <2>4. Hidden(x) # NoStanza
    BY <2>1, <2>2, NothingThere
  <2> QED BY <1>2, <2>1, <2>2, <2>3, <2>4 DEF jpacket_reset
<1>3. CASE ~(KindOf(x.name) = "presence" /\ x.type = "available")
  BY <1>3, NothingThere DEF Hidden
<1> QED BY <1>2, <1>3

(* What a packet is read as: its fields, and a type that is not "none". *)
LEMMA ReadFields ==
  ASSUME NEW x \in Stanzas, NEW p, ReadNow(p, x)
  PROVE  /\ p # NoPacket
         /\ p.type = jpacket_reset(x).type /\ p.hasTo = (x.to \in Addressees \ BadAddressees)
         /\ jpacket_subtype(p, x) = jpacket_subtype(jpacket_reset(x), x)
         /\ ReadNow([p EXCEPT !.subtype = jpacket_subtype(p, x)], x)
<1> DEFINE r == jpacket_reset(x)
           st == jpacket_subtype(r, x)
<1>1. /\ r.type # "none" /\ r.hasTo = (x.to \in Addressees \ BadAddressees)
      /\ r = [type |-> r.type, subtype |-> r.subtype, hasTo |-> r.hasTo, hasFrom |-> r.hasFrom]
  BY DEF jpacket_reset, KindOf, PresenceKind
<1>2. st # "unknown"
  BY DEF jpacket_subtype, TypesOf
<1>3. \A q : q = r \/ q = [r EXCEPT !.subtype = st] =>
        /\ q.type = r.type /\ q.hasTo = r.hasTo /\ jpacket_subtype(q, x) = st
        /\ [q EXCEPT !.subtype = st] = [r EXCEPT !.subtype = st]
  <2>1. [r EXCEPT !.subtype = st].subtype = st /\ [r EXCEPT !.subtype = st].type = r.type
        /\ [r EXCEPT !.subtype = st].hasTo = r.hasTo
        /\ [[r EXCEPT !.subtype = st] EXCEPT !.subtype = st] = [r EXCEPT !.subtype = st]
    <3> HIDE DEF r, st
    <3> QED BY <1>1
  <2>2. jpacket_subtype([r EXCEPT !.subtype = st], x) = st
    <3>1. \A q : q.subtype # "unknown" => jpacket_subtype(q, x) = q.subtype
      BY DEF jpacket_subtype
    <3> HIDE DEF r, st
    <3> QED BY <2>1, <1>2, <3>1
  <2>3. jpacket_subtype(r, x) = st
    OBVIOUS
  <2> HIDE DEF r, st
  <2> QED BY <2>1, <2>2, <2>3
<1>4. p = r \/ p = [r EXCEPT !.subtype = st]
  BY DEF ReadNow
<1>5. p.type # "none"
  <2> HIDE DEF r, st
  <2> QED BY <1>1, <1>3, <1>4
<1>6. p # NoPacket
  BY <1>5 DEF NoPacket
<1>7. p.type = r.type /\ p.hasTo = r.hasTo /\ jpacket_subtype(p, x) = st
      /\ [p EXCEPT !.subtype = jpacket_subtype(p, x)] = [r EXCEPT !.subtype = st]
  <2> HIDE DEF r, st
  <2> QED BY <1>3, <1>4
<1> QED BY <1>1, <1>6, <1>7 DEF ReadNow

(* An error is read as one, and what jutil builds as what it was built for. *)
LEMMA ReadsRight ==
  ASSUME PacketsAssumption, NEW x \in Stanzas
  PROVE  /\ x.type = "error" => jpacket_subtype(jpacket_reset(x), x) = "error"
         /\ \A m : AsBuilt(x, m) /\ x.from = NoAttr =>
              IF x.to \in BadAddressees THEN jpacket_reset(x).type = "unknown"
              ELSE jpacket_reset(x).type = m.type /\ jpacket_subtype(jpacket_reset(x), x) = m.subtype
<1> DEFINE r == jpacket_reset(x)
<1>0. NoAttr \notin TypesOf.message \cup TypesOf.s10n \cup {"error", "probe", "unavailable", "invisible"}
  BY DEF PacketsAssumption, Types, PresenceTypes
<1>1. ASSUME x.type = "error" PROVE jpacket_subtype(r, x) = "error"
  <2>0. x.type # NoAttr
    BY <1>0, <1>1
  <2>1. r.subtype \in {"unknown", "error"}
    BY ONLY <1>1, <2>0 DEF jpacket_reset, KindOf, PresenceKind, StartsSU
  <2> HIDE DEF r
  <2> QED BY <1>1, <2>1 DEF jpacket_subtype
<1>2. ASSUME NEW m, AsBuilt(x, m), x.from = NoAttr, x.to \in BadAddressees PROVE r.type = "unknown"
  BY <1>2 DEF jpacket_reset
<1>3. ASSUME NEW m, AsBuilt(x, m), x.from = NoAttr, x.to \notin BadAddressees
      PROVE  r.type = m.type /\ jpacket_subtype(r, x) = m.subtype
  <2>0. {x.to, x.from} \cap BadAddressees = {}
    BY <1>3 DEF PacketsAssumption
  <2>1. CASE x.name = "presence" /\ x.type \in TypesOf.s10n /\ m = [type |-> "s10n", subtype |-> x.type]
    <3>1. x.type \in {"subscribe", "subscribed", "unsubscribe", "unsubscribed"}
      BY <2>1 DEF TypesOf
    <3>0. x.type # NoAttr
      BY <1>0, <2>1
    <3>2. r.type = "s10n" /\ r.subtype = "unknown"
      BY ONLY <2>0, <2>1, <3>0, <3>1 DEF jpacket_reset, KindOf, PresenceKind, StartsSU
    <3> HIDE DEF r
    <3> QED BY <2>1, <3>1, <3>2 DEF jpacket_subtype, TypesOf
  <2>2. CASE x.name = "presence" /\ x.type \in {"probe", "unavailable", "invisible"}
             /\ m = [type |-> "presence", subtype |-> x.type]
    <3>0. x.type # NoAttr
      BY <1>0, <2>2
    <3>1. r.type = "presence" /\ r.subtype = x.type
      BY ONLY <2>0, <2>2, <3>0 DEF jpacket_reset, KindOf, PresenceKind
    <3> HIDE DEF r
    <3> QED BY <2>2, <3>1 DEF jpacket_subtype
  <2>3. CASE x.name = "presence" /\ x.type = NoAttr /\ m = [type |-> "presence", subtype |-> "available"]
    <3>1. r.type = "presence" /\ r.subtype = "available"
      BY <2>0, <2>3 DEF jpacket_reset, KindOf, PresenceKind
    <3> HIDE DEF r
    <3> QED BY <2>3, <3>1 DEF jpacket_subtype
  <2>4. CASE x.name = "iq" /\ x.type \in TypesOf.iq \cup {"error"} /\ m = [type |-> "iq", subtype |-> x.type]
    <3>1. x.type \in {"get", "set", "result", "error"}
      BY <2>4 DEF TypesOf
    <3>2. r.type = "iq" /\ r.subtype = "unknown"
      BY <2>0, <2>4 DEF jpacket_reset, KindOf
    <3> HIDE DEF r
    <3> QED BY <2>4, <3>1, <3>2 DEF jpacket_subtype, TypesOf
  <2>5. CASE x.name = "message" /\ x.type \in TypesOf.message /\ m = [type |-> "message", subtype |-> x.type]
    <3>1. x.type \in {"chat", "groupchat", "headline"}
      BY <2>5 DEF TypesOf
    <3>2. r.type = "message" /\ r.subtype = "unknown"
      BY <2>0, <2>5 DEF jpacket_reset, KindOf
    <3> HIDE DEF r
    <3> QED BY <2>5, <3>1, <3>2 DEF jpacket_subtype, TypesOf
  <2>6. CASE x.name = "message" /\ x.type = NoAttr /\ m = [type |-> "message", subtype |-> "none"]
    <3>1. r.type = "message" /\ r.subtype = "unknown"
      BY <2>0, <2>6 DEF jpacket_reset, KindOf
    <3> HIDE DEF r
    <3>2. x.type # "error" /\ x.type \notin TypesOf.message
      BY <1>0, <2>6
    <3>3. TypesOf["message"] = TypesOf.message
      OBVIOUS
    <3> HIDE DEF r
    <3> QED BY <2>6, <3>1, <3>2, <3>3 DEF jpacket_subtype
  <2> QED BY <1>3, <2>1, <2>2, <2>3, <2>4, <2>5, <2>6 DEF AsBuilt
<1> QED BY <1>1, <1>2, <1>3

(* The invariant is what the run checks. *)
LEMMA PacketsUnderstood ==
  ASSUME PacketsAssumption, StanzaInv PROVE ReadAsMeant /\ ErrorsAreErrors
<1>1. ASSUME packet # NoPacket, meant # NoMeaning PROVE ReadAsMeant
  <2>1. stanza \in Stanzas /\ ReadNow(packet, stanza) /\ stanza.from = NoAttr /\ AsBuilt(stanza, meant)
    BY <1>1 DEF StanzaInv
  <2>2. /\ packet.type = jpacket_reset(stanza).type
        /\ packet.hasTo = (stanza.to \in Addressees \ BadAddressees)
        /\ jpacket_subtype(packet, stanza) = jpacket_subtype(jpacket_reset(stanza), stanza)
    BY <2>1, ReadFields
  <2>3. IF stanza.to \in BadAddressees THEN jpacket_reset(stanza).type = "unknown"
        ELSE jpacket_reset(stanza).type = meant.type
             /\ jpacket_subtype(jpacket_reset(stanza), stanza) = meant.subtype
    BY <2>1, ReadsRight
  <2> QED BY <2>2, <2>3 DEF ReadAsMeant
<1>2. ASSUME packet # NoPacket, stanza.type = "error" PROVE ErrorsAreErrors
  <2>1. stanza \in Stanzas /\ ReadNow(packet, stanza)
    BY <1>2 DEF StanzaInv
  <2> QED BY <1>2, <2>1, ReadFields, ReadsRight DEF ErrorsAreErrors
<1> QED BY <1>1, <1>2 DEF ReadAsMeant, ErrorsAreErrors

------------------------------------------------------------------------------
(* The missing attribute is none of the types. *)
LEMMA NullIsNoType ==
  NoAttr \notin Types /\ "available" \in Types
BY PacketsAssumption DEF Types, PresenceTypes

(* Before the first stanza nothing is meant. *)
LEMMA StanzaStarts ==
  ASSUME PacketInit PROVE StanzaInv
BY DEF PacketInit, StanzaInv, AnswersGoBack

(* A stanza that is built or received, where none was. *)
LEMMA Built ==
  ASSUME PacketsAssumption, StanzaInv, NEW x \in Stanzas, NEW m,
         m # NoMeaning => x.from = NoAttr /\ AsBuilt(x, m), Fresh(x, m)
  PROVE  StanzaInv'
<1>1. NoStanza.type \notin {"result", "error"} /\ x # NoStanza
  <2>1. NoAttr \notin {"result", "error"}
    <3>1. {"result", "error"} \subseteq Types
      BY DEF Types, TypesOf
    <3> QED BY <3>1 DEF PacketsAssumption
  <2>2. NoStanza.type = NoAttr
    BY DEF NoStanza, NewStanza
  <2> QED BY <2>1, <2>2, NothingThere
<1>2. ~ origin.answered /\ packet = NoPacket
  BY <1>1 DEF Fresh, StanzaInv
<1> QED BY <1>1, <1>2 DEF Fresh, StanzaInv, AnswersGoBack

(* jutil_presnew builds a presence with the type it was asked for. *)
LEMMA Presnew ==
  ASSUME PacketsAssumption, StanzaInv, NEW type \in PresenceTypes, NEW to \in Addressing, jutil_presnew(type, to)
  PROVE  StanzaInv'
<1> DEFINE known == type \in TypesOf.s10n \cup {"probe", "unavailable", "invisible"}
           t == IF known THEN type ELSE NoAttr
           x == NewStanza("presence", t, to, <<>>)
           m == [type |-> IF type \in TypesOf.s10n THEN "s10n" ELSE "presence", subtype |-> type]
<1>1. Fresh(x, m)
  BY DEF jutil_presnew
<1>2. TypesOf.s10n = {"subscribe", "subscribed", "unsubscribe", "unsubscribed"}
  BY DEF TypesOf
<1>3. t \in AnyType
  BY DEF AnyType, Types
<1>4. x \in Stanzas /\ x.from = NoAttr /\ x.name = "presence" /\ x.type = t
  <2>1. "presence" \in StanzaNames
    BY DEF StanzaNames
  <2>2. PICK e \in Seq(Children) : e = <<>>
    BY InnerLists
  <2>3. x = NewStanza("presence", t, to, e)
    BY <2>2, Zenon
  <2> HIDE DEF t
  <2>4. /\ NewStanza("presence", t, to, e) \in Stanzas /\ NewStanza("presence", t, to, e).from = NoAttr
        /\ NewStanza("presence", t, to, e).name = "presence" /\ NewStanza("presence", t, to, e).type = t
    BY ONLY <1>3, <2>1, to \in Addressing, e \in Seq(Children), NewIsStanza
  <2> QED BY <2>3, <2>4, Zenon
<1>5. AsBuilt(x, m)
  <2>1. CASE type \in TypesOf.s10n
    <3> HIDE DEF x
    <3> QED BY <1>4, <2>1 DEF AsBuilt
  <2>2. CASE type \in {"probe", "unavailable", "invisible"}
    <3> HIDE DEF x
    <3> QED BY <1>2, <1>4, <2>2 DEF AsBuilt
  <2>3. CASE type = "available"
    <3> HIDE DEF x
    <3> QED BY <1>2, <1>4, <2>3 DEF AsBuilt
  <2> QED BY <2>1, <2>2, <2>3 DEF PresenceTypes
<1> HIDE DEF x, m
<1> QED BY <1>1, <1>4, <1>5, Built

(* jutil_msgnew builds a message with its subject and body. *)
LEMMA Msgnew ==
  ASSUME PacketsAssumption, StanzaInv, NEW type \in TypesOf.message \cup {NoAttr}, NEW to \in Addressing,
         NEW subj \in BOOLEAN, jutil_msgnew(type, to, subj)
  PROVE  StanzaInv'
<1> DEFINE inner == IF subj THEN <<"subject", "body">> ELSE <<"body">>
           x == NewStanza("message", type, to, inner)
           m == [type |-> "message", subtype |-> IF type = NoAttr THEN "none" ELSE type]
<1>1. Fresh(x, m)
  BY DEF jutil_msgnew
<1>2. type \in AnyType
  BY DEF AnyType, Types
<1>3. x \in Stanzas /\ x.from = NoAttr /\ x.name = "message" /\ x.type = type
  <2>1. "message" \in StanzaNames
    BY DEF StanzaNames
  <2>2. inner \in Seq(Children)
    BY InnerLists, Zenon
  <2> HIDE DEF inner
  <2> QED BY <1>2, <2>1, <2>2, NewIsStanza
<1>4. AsBuilt(x, m)
  <2> HIDE DEF x
  <2> QED BY <1>3 DEF AsBuilt
<1> HIDE DEF x, m
<1> QED BY <1>1, <1>3, <1>4, Built

(* jutil_iqnew builds a query of the type it was asked for. *)
LEMMA Iqnew ==
  ASSUME PacketsAssumption, StanzaInv, NEW type \in TypesOf.iq \cup {"error"}, jutil_iqnew(type)
  PROVE  StanzaInv'
<1> DEFINE x == NewStanza("iq", type, NoAttr, <<"query">>)
           m == [type |-> "iq", subtype |-> type]
<1>1. Fresh(x, m)
  BY DEF jutil_iqnew
<1>2. type \in AnyType /\ NoAttr \in Addressing
  BY DEF AnyType, Types, Addressing
<1>3. x \in Stanzas /\ x.from = NoAttr /\ x.name = "iq" /\ x.type = type
  <2>1. "iq" \in StanzaNames
    BY DEF StanzaNames
  <2>2. PICK e \in Seq(Children) : e = <<"query">>
    BY InnerLists
  <2>3. x = NewStanza("iq", type, NoAttr, e)
    BY <2>2, Zenon
  <2>4. /\ NewStanza("iq", type, NoAttr, e) \in Stanzas /\ NewStanza("iq", type, NoAttr, e).from = NoAttr
        /\ NewStanza("iq", type, NoAttr, e).name = "iq" /\ NewStanza("iq", type, NoAttr, e).type = type
    BY ONLY <1>2, <2>1, e \in Seq(Children), NewIsStanza
  <2> QED BY <2>3, <2>4, Zenon
<1>4. AsBuilt(x, m)
  <2> HIDE DEF x
  <2> QED BY <1>3 DEF AsBuilt
<1> HIDE DEF x, m
<1> QED BY <1>1, <1>3, <1>4, Built

(* The header of a stream, and whatever is received. *)
LEMMA HeaderOrReceived ==
  ASSUME PacketsAssumption, StanzaInv, NEW to \in Addressing, NEW from \in Addressing, NEW type \in AnyType,
         NEW name \in {"messages", "presence", "iqueue", "other"},
         jutil_header(to) \/ Received(name, type, to, from)
  PROVE  StanzaInv'
<1>1. CASE jutil_header(to)
  <2> DEFINE h == NewStanza("stream:stream", NoAttr, to, <<>>)
  <2>1. NoAttr \in AnyType
    BY DEF AnyType
  <2>2. h \in Stanzas /\ Fresh(h, NoMeaning)
    BY <1>1, <2>1, InnerLists, NewIsStanza DEF StanzaNames, jutil_header
  <2> HIDE DEF h
  <2> QED BY <2>2, Built
<1>2. CASE Received(name, type, to, from)
  <2>1. PICK i : i = <<"any">> /\ i \in Seq(Children)
    BY InnerLists
  <2> DEFINE x == [name |-> name, type |-> type, to |-> to, from |-> from, inner |-> i]
  <2>2. x \in Stanzas
    BY <2>1 DEF Stanzas, StanzaNames
  <2>3. Fresh(x, NoMeaning)
    BY <1>2, <2>1, Zenon DEF Received
  <2> HIDE DEF x
  <2> QED BY <2>2, <2>3, Built
<1> QED BY <1>1, <1>2

(* The packet is made, and its subtype is read; a stamp changes neither. *)
LEMMA Jpacketed ==
  ASSUME StanzaInv, Jpacket PROVE StanzaInv'
<1>1. /\ stanza \in Stanzas /\ packet' = jpacket_reset(stanza) /\ stanza' = Hidden(stanza)
      /\ meant' = meant /\ origin' = origin
  BY DEF Jpacket, StanzaInv
<1>2. /\ stanza' \in Stanzas /\ stanza' # NoStanza /\ ReadNow(packet', stanza')
      /\ stanza'.to = stanza.to /\ stanza'.from = stanza.from
      /\ stanza.type # "available" => stanza' = stanza
  BY <1>1, HiddenReadsSame DEF ReadNow
<1>3. ASSUME meant # NoMeaning PROVE stanza.type # "available"
  <2>1. AsBuilt(stanza, meant)
    BY <1>3 DEF StanzaInv
  <2> QED BY <2>1, NullIsNoType DEF AsBuilt, TypesOf
<1>4. origin.answered => stanza.type # "available"
  BY DEF StanzaInv
<1> QED BY <1>1, <1>2, <1>3, <1>4 DEF StanzaInv, AnswersGoBack

(* jpacket_subtype fills in what jpacket_reset left open. *)
LEMMA Subtyped ==
  ASSUME StanzaInv, Subtype PROVE StanzaInv'
<1>1. /\ packet # NoPacket /\ packet' = [packet EXCEPT !.subtype = jpacket_subtype(packet, stanza)]
      /\ stanza' = stanza /\ meant' = meant /\ origin' = origin
  BY DEF Subtype
<1>2. stanza \in Stanzas /\ ReadNow(packet, stanza)
  BY <1>1 DEF StanzaInv
<1>3. ReadNow(packet', stanza)
  BY <1>1, <1>2, ReadFields
<1> QED BY <1>1, <1>2, <1>3 DEF StanzaInv, AnswersGoBack

(* jutil_delay adds an x behind the other children. *)
LEMMA Delayed ==
  ASSUME StanzaInv, jutil_delay PROVE StanzaInv'
<1>1. /\ stanza \in Stanzas /\ stanza' = [stanza EXCEPT !.inner = Append(@, "x")]
      /\ packet' = packet /\ meant' = meant /\ origin' = origin
  BY DEF jutil_delay, StanzaInv
<1>2. Append(stanza.inner, "x") \in Seq(Children)
  BY <1>1 DEF Stanzas, Children
<1>3. /\ stanza' \in Stanzas /\ stanza'.name = stanza.name /\ stanza'.type = stanza.type
      /\ stanza'.to = stanza.to /\ stanza'.from = stanza.from
  BY <1>1, <1>2 DEF Stanzas
<1>4. jpacket_reset(stanza') = jpacket_reset(stanza)
  BY <1>3 DEF jpacket_reset
<1>5. \A p : jpacket_subtype(p, stanza') = jpacket_subtype(p, stanza)
  BY <1>3 DEF jpacket_subtype
<1>6. /\ ReadNow(packet, stanza) => ReadNow(packet', stanza')
      /\ AsBuilt(stanza, meant) => AsBuilt(stanza', meant')
  BY <1>1, <1>3, <1>4, <1>5 DEF ReadNow, AsBuilt
<1> QED BY <1>1, <1>3, <1>6, NothingThere DEF StanzaInv, AnswersGoBack

(* An answer goes back, whatever it is made of. *)
LEMMA TofromTurns ==
  ASSUME PacketsAssumption, NEW x \in Stanzas
  PROVE  /\ jutil_tofrom(x) \in Stanzas
         /\ jutil_tofrom(x).type = x.type
         /\ jutil_tofrom(x).to = IF x.from # NoAttr THEN x.from ELSE x.to
         /\ jutil_tofrom(x).from = IF x.to # NoAttr THEN x.to ELSE x.from
<1> DEFINE y == PutAttrib(x, "from", x.to)
<1>1. /\ y \in Stanzas /\ y.type = x.type /\ y.to = x.to
      /\ y.from = IF x.to # NoAttr THEN x.to ELSE x.from
  BY DEF PutAttrib, Stanzas
<1>2. jutil_tofrom(x) = PutAttrib(y, "to", x.from)
  BY DEF jutil_tofrom
<1>3. x.from \in Addressing
  BY DEF Stanzas
<1> HIDE DEF y
<1> QED BY <1>1, <1>2, <1>3 DEF PutAttrib, Stanzas

(* A stanza turned round is an answer to where it came from. *)
LEMMA TurnedIntoAnswer ==
  ASSUME PacketsAssumption, StanzaInv, NEW x \in Stanzas, Answered(x), x.type \in {"result", "error"},
         x.to = (IF stanza.from # NoAttr THEN stanza.from ELSE stanza.to),
         x.from = (IF stanza.to # NoAttr THEN stanza.to ELSE stanza.from)
  PROVE  StanzaInv'
<1>1. /\ stanza' = x /\ packet' = NoPacket /\ meant' = NoMeaning
      /\ origin' = [answered |-> TRUE, to |-> stanza.to, from |-> stanza.from]
  BY DEF Answered
<1> QED BY <1>1, NothingThere DEF StanzaInv, AnswersGoBack

(* jutil_iqresult answers a query, without what was inside. *)
LEMMA Iqresult ==
  ASSUME PacketsAssumption, StanzaInv, jutil_iqresult PROVE StanzaInv'
<1>1. stanza \in Stanzas /\ Answered([jutil_tofrom(stanza) EXCEPT !.type = "result", !.inner = <<>>])
  BY DEF jutil_iqresult, Answered, StanzaInv
<1>2. PICK e, y : e = <<>> /\ y = jutil_tofrom(stanza)
  OBVIOUS
<1>3. e \in Seq(Children) /\ "result" \in AnyType
  BY <1>2, InnerLists DEF AnyType, Types, TypesOf
<1>4. PICK z : z = [y EXCEPT !.type = "result"]
  OBVIOUS
<1>5. y \in Stanzas
  BY <1>1, <1>2, TofromTurns
<1>6. z \in Stanzas /\ z.type = "result" /\ z.to = y.to /\ z.from = y.from
  BY <1>3, <1>4, <1>5 DEF Stanzas
<1>7. [z EXCEPT !.inner = e] \in Stanzas /\ [z EXCEPT !.inner = e].type = "result"
      /\ [z EXCEPT !.inner = e].to = y.to /\ [z EXCEPT !.inner = e].from = y.from
  BY <1>3, <1>6 DEF Stanzas
<1>8. Answered([z EXCEPT !.inner = e])
  BY <1>1, <1>2, <1>4
<1> QED BY <1>1, <1>2, <1>7, <1>8, TofromTurns, TurnedIntoAnswer

(* jutil_error answers with an error inside. *)
LEMMA Errored ==
  ASSUME PacketsAssumption, StanzaInv, jutil_error PROVE StanzaInv'
<1>1. stanza \in Stanzas /\ Answered(jutil_tofrom([stanza EXCEPT !.type = "error", !.inner = Append(@, "error")]))
  BY DEF jutil_error, Answered, StanzaInv
<1>2. PICK i : i = Append(stanza.inner, "error")
  OBVIOUS
<1>3. i \in Seq(Children) /\ "error" \in AnyType
  BY <1>1, <1>2 DEF Stanzas, Children, AnyType, Types
<1>4. PICK z : z = [stanza EXCEPT !.type = "error"]
  OBVIOUS
<1>5. z \in Stanzas /\ z.type = "error" /\ z.to = stanza.to /\ z.from = stanza.from /\ z.inner = stanza.inner
  BY <1>1, <1>3, <1>4 DEF Stanzas
<1>6. [z EXCEPT !.inner = i] \in Stanzas /\ [z EXCEPT !.inner = i].type = "error"
      /\ [z EXCEPT !.inner = i].to = stanza.to /\ [z EXCEPT !.inner = i].from = stanza.from
  BY <1>3, <1>5 DEF Stanzas
<1>7. [stanza EXCEPT !.type = "error", !.inner = Append(@, "error")] = [z EXCEPT !.inner = i]
  BY <1>1, <1>2, <1>4, <1>5 DEF Stanzas
<1>8. Answered(jutil_tofrom([z EXCEPT !.inner = i]))
  BY <1>1, <1>7
<1>9. PICK w : w = [z EXCEPT !.inner = i]
  OBVIOUS
<1> QED BY <1>6, <1>8, <1>9, TofromTurns, TurnedIntoAnswer

------------------------------------------------------------------------------
(* The keys that the slots hold are the newest, each in one slot. *)
LEMMA NumbersAre ==
  ASSUME KeyInv
  PROVE  /\ \A i \in 1..Keybuf : Number(i) \in Int /\ Number(i) <= Len(issued) /\ Len(issued) - Number(i) < Keybuf
         /\ \A i, j \in 1..Keybuf : Number(i) = Number(j) => i = j
         /\ \A n \in Newest : \E i \in 1..Keybuf : Number(i) = n
<1>1. Keybuf \in Nat \ {0} /\ lastKey \in 1..Keybuf /\ Len(issued) \in Nat
  BY PacketsAssumption DEF KeyInv
<1>2. PICK l, b, last : l = Len(issued) /\ b = Keybuf /\ last = lastKey
  OBVIOUS
<1>3. \A i \in 1..b : Number(i) = l + 1 - (IF i < last THEN last - i ELSE last - i + b)
  BY <1>2 DEF Number
<1>4. ASSUME NEW n \in Newest PROVE \E i \in 1..b : Number(i) = n
  <2>1. n \in 1..l /\ l - n < b
    BY <1>1, <1>2 DEF Newest, KeyInv
  <2>2. PICK m : m = l + 1 - n
    OBVIOUS
  <2>3. /\ m \in 1..b /\ l \in Nat /\ n = l + 1 - m
        /\ b \in Nat \ {0} /\ last \in 1..b
    BY <1>1, <1>2, <2>1, <2>2
  <2>4. CASE m < last
    <3>1. last - m \in 1..b /\ last - m < last /\ last - (last - m) = m
      BY ONLY <2>3, <2>4
    <3> QED BY <1>3, <2>3, <3>1
  <2>5. CASE m >= last
    <3>1. last - m + b \in 1..b /\ ~ (last - m + b < last) /\ last - (last - m + b) + b = m
      BY ONLY <2>3, <2>5
    <3> QED BY <1>3, <2>3, <3>1
  <2> QED BY <2>3, <2>4, <2>5
<1>5. \A i \in 1..b : Number(i) \in Int /\ Number(i) <= l /\ l - Number(i) < b
  BY <1>1, <1>2, <1>3
<1>6. \A i, j \in 1..b : Number(i) = Number(j) => i = j
  BY <1>1, <1>2, <1>3
<1> QED BY <1>2, <1>4, <1>5, <1>6

(* No slot holds a key at the start. *)
LEMMA KeyStarts ==
  ASSUME PacketInit PROVE KeyInv
<1> USE PacketsAssumption
<1>1. /\ keydb = [i \in 1..Keybuf |-> [key |-> "blank", seed |-> "blank"]]
      /\ lastKey = 1 /\ issued = <<>> /\ used = <<>>
  BY DEF PacketInit
<1>2. 1 \in 1..Keybuf /\ Len(issued) = 0 /\ Len(used) = 0
  BY <1>1
<1>3. issued \in Seq(KeyPairs) /\ used \in Seq({0, 1})
  BY <1>1
<1>4. keydb \in [1..Keybuf -> [key : RandomKeys \cup {"blank"}, seed : Seeds \cup {"blank"}]]
  BY <1>1
<1>5. \A i \in 1..Keybuf : ~ (Number(i) > 0)
  BY <1>1, <1>2 DEF Number
<1>6. \A i \in 1..Keybuf : SlotHolds(i)
  BY <1>1, <1>5 DEF SlotHolds
<1> QED BY <1>1, <1>2, <1>3, <1>4, <1>6 DEF KeyInv

(* jutil_regkey writes a new key over the oldest slot. *)
LEMMA Issued ==
  ASSUME KeyInv, NEW k \in RandomKeys, NEW s \in Seeds, Issue(k, s)
  PROVE  KeyInv'
<1> USE PacketsAssumption
<1>1. /\ keydb' = [keydb EXCEPT ![lastKey] = [key |-> k, seed |-> s]]
      /\ lastKey' = (IF lastKey + 1 > Keybuf THEN 1 ELSE lastKey + 1)
      /\ issued' = Append(issued, <<k, s>>) /\ used' = Append(used, 0)
  BY DEF Issue
<1>2. /\ keydb \in [1..Keybuf -> [key : RandomKeys \cup {"blank"}, seed : Seeds \cup {"blank"}]]
      /\ lastKey \in 1..Keybuf /\ issued \in Seq(KeyPairs) /\ used \in Seq({0, 1}) /\ Len(used) = Len(issued)
  BY DEF KeyInv
<1>3. keydb' \in [1..Keybuf -> [key : RandomKeys \cup {"blank"}, seed : Seeds \cup {"blank"}]]
      /\ keydb'[lastKey] = [key |-> k, seed |-> s] /\ \A i \in 1..Keybuf : i # lastKey => keydb'[i] = keydb[i]
  BY <1>1, <1>2
<1>4. PICK l \in Nat : l = Len(issued)
  BY <1>2
<1>5. /\ Len(issued') = l + 1 /\ Len(used') = l + 1
      /\ issued'[l + 1] = <<k, s>> /\ used'[l + 1] = 0
      /\ \A n \in 1..l : issued'[n] = issued[n] /\ used'[n] = used[n]
  BY <1>1, <1>2, <1>4 DEF KeyPairs
<1>6. issued' \in Seq(KeyPairs) /\ used' \in Seq({0, 1})
  BY <1>1, <1>2 DEF KeyPairs
<1>7. lastKey' \in 1..Keybuf
  BY <1>1, <1>2
<1>8. \A i \in 1..Keybuf : Number(i)' = IF i = lastKey THEN l + 1 ELSE Number(i)
  <2> TAKE i \in 1..Keybuf
  <2>1. PICK b, last, next : b = Keybuf /\ last = lastKey /\ next = lastKey'
    OBVIOUS
  <2>2. /\ b \in Nat \ {0} /\ last \in 1..b /\ i \in 1..b /\ l \in Nat
        /\ next = IF last + 1 > b THEN 1 ELSE last + 1
    BY <1>1, <1>2, <1>4, <2>1
  <2>3. /\ Number(i) = l + 1 - (IF i < last THEN last - i ELSE last - i + b)
        /\ Number(i)' = l + 1 + 1 - (IF i < next THEN next - i ELSE next - i + b)
    BY <1>4, <1>5, <2>1 DEF Number
  <2>4. CASE last + 1 > b
    BY ONLY <2>1, <2>2, <2>3, <2>4
  <2>5. CASE last + 1 <= b
    BY ONLY <2>1, <2>2, <2>3, <2>5
  <2> QED BY <2>2, <2>4, <2>5
<1>9. ASSUME NEW i \in 1..Keybuf PROVE SlotHolds(i)'
  <2>1. CASE i = lastKey
    <3>1. Number(i)' = l + 1 /\ keydb'[i] = [key |-> k, seed |-> s]
      BY <1>3, <1>8, <2>1
    <3>2. <<k, s>>[1] = k /\ <<k, s>>[2] = s
      OBVIOUS
    <3> QED BY <1>4, <1>5, <3>1, <3>2 DEF SlotHolds
  <2>2. CASE i # lastKey
    <3>1. PICK n : n = Number(i)
      OBVIOUS
    <3>2. Number(i)' = n /\ keydb'[i] = keydb[i] /\ n \in Int /\ n <= l
      BY <1>3, <1>4, <1>8, <2>2, <3>1, NumbersAre
    <3>3. n > 0 => issued'[n] = issued[n] /\ used'[n] = used[n]
      BY <1>5, <3>2
    <3>4. SlotHolds(i)
      BY DEF KeyInv
    <3> QED BY <3>1, <3>2, <3>3, <3>4 DEF SlotHolds
  <2> QED BY <2>1, <2>2
<1> QED BY <1>3, <1>4, <1>5, <1>6, <1>7, <1>9 DEF KeyInv

(* jutil_regkey accepts a key with its seed once, and empties its slot. *)
LEMMA Accepted ==
  ASSUME KeyInv, NEW k \in RandomKeys, NEW s \in Seeds, jutil_regkey(k, s)
  PROVE  KeyInv'
<1> USE PacketsAssumption
<1>1. PICK i \in Slots(k, s) : /\ keydb' = [keydb EXCEPT ![i].seed = "blank"]
                               /\ used' = [used EXCEPT ![Number(i)] = @ + 1]
  BY DEF jutil_regkey
<1>2. lastKey' = lastKey /\ issued' = issued
  BY DEF jutil_regkey
<1>3. /\ keydb \in [1..Keybuf -> [key : RandomKeys \cup {"blank"}, seed : Seeds \cup {"blank"}]]
      /\ lastKey \in 1..Keybuf /\ issued \in Seq(KeyPairs) /\ used \in Seq({0, 1}) /\ Len(used) = Len(issued)
  BY DEF KeyInv
<1>4. i \in 1..Keybuf /\ keydb[i] = [key |-> k, seed |-> s] /\ s # "blank"
  BY DEF Slots
<1>5. /\ keydb' \in [1..Keybuf -> [key : RandomKeys \cup {"blank"}, seed : Seeds \cup {"blank"}]]
      /\ keydb'[i] = [key |-> k, seed |-> "blank"] /\ \A j \in 1..Keybuf : j # i => keydb'[j] = keydb[j]
  BY <1>1, <1>3, <1>4
<1>6. PICK n : n = Number(i)
  OBVIOUS
<1>7. n \in 1..Len(issued) /\ issued[n][1] = k /\ used[n] = 0
  <2>1. n \in Int /\ n <= Len(issued) /\ Len(issued) \in Nat
    BY <1>3, <1>4, <1>6, NumbersAre
  <2>2. SlotHolds(i)
    BY <1>4 DEF KeyInv
  <2>3. keydb[i].key = k /\ keydb[i].seed = s
    BY <1>4
  <2>4. n > 0
    BY <1>4, <1>6, <2>2, <2>3 DEF SlotHolds
  <2>5. keydb[i] = [key |-> issued[n][1], seed |-> IF used[n] = 0 THEN issued[n][2] ELSE "blank"]
    BY <1>6, <2>2, <2>4 DEF SlotHolds
  <2>6. keydb[i].key = issued[n][1] /\ keydb[i].seed = IF used[n] = 0 THEN issued[n][2] ELSE "blank"
    BY <2>5
  <2> QED BY <1>4, <2>1, <2>3, <2>4, <2>6
<1>8. used' \in Seq({0, 1}) /\ Len(used') = Len(issued) /\ used'[n] = 1 /\ \A m \in 1..Len(issued) : m # n => used'[m] = used[m]
  BY <1>1, <1>3, <1>6, <1>7
<1>9. \A j : Number(j)' = Number(j)
  BY <1>2 DEF Number
<1>10. ASSUME NEW j \in 1..Keybuf PROVE SlotHolds(j)'
  <2>1. CASE j = i
    BY <1>2, <1>5, <1>6, <1>7, <1>8, <1>9, <2>1 DEF SlotHolds
  <2>2. CASE j # i
    <3>1. PICK m : m = Number(j)
      OBVIOUS
    <3>2. m # n /\ m \in Int /\ m <= Len(issued) /\ Len(issued) \in Nat
      BY <1>3, <1>4, <1>6, <2>2, <3>1, NumbersAre
    <3>3. Number(j)' = m /\ keydb'[j] = keydb[j]
      BY <1>5, <1>9, <2>2, <3>1
    <3>4. m > 0 => used'[m] = used[m]
      BY <1>8, <3>2
    <3>5. SlotHolds(j)
      BY DEF KeyInv
    <3> QED BY <1>2, <3>1, <3>3, <3>4, <3>5 DEF SlotHolds
  <2> QED BY <2>1, <2>2
<1> QED BY <1>2, <1>3, <1>5, <1>8, <1>10 DEF KeyInv

(* So a pair is in a slot exactly while it may still be accepted. *)
LEMMA KeysCounted ==
  ASSUME KeyInv PROVE KeysAccounted
<1> USE PacketsAssumption
<1>1. /\ issued \in Seq(KeyPairs) /\ used \in Seq({0, 1}) /\ Len(used) = Len(issued)
      /\ DOMAIN issued = 1..Len(issued) /\ Len(issued) \in Nat
  BY DEF KeyInv
<1>2. \A n \in DOMAIN issued : used[n] \in {0, 1} /\ issued[n] \in KeyPairs
  BY <1>1
<1>3. ASSUME NEW k \in RandomKeys, NEW s \in Seeds, Slots(k, s) # {}
      PROVE  \E n \in Newest : used[n] = 0 /\ issued[n] = <<k, s>>
  <2>1. PICK i \in 1..Keybuf : keydb[i] = [key |-> k, seed |-> s]
    BY <1>3 DEF Slots
  <2>2. SlotHolds(i) /\ s # "blank"
    BY DEF KeyInv
  <2>3. PICK n : n = Number(i)
    OBVIOUS
  <2>4. n > 0 /\ keydb[i] = [key |-> issued[n][1], seed |-> IF used[n] = 0 THEN issued[n][2] ELSE "blank"]
    BY <2>1, <2>2, <2>3 DEF SlotHolds
  <2>5. k = issued[n][1] /\ s = IF used[n] = 0 THEN issued[n][2] ELSE "blank"
    BY <2>1, <2>4
  <2>6. n \in DOMAIN issued /\ Len(issued) - n < Keybuf
    BY <1>1, <2>3, <2>4, NumbersAre
  <2>7. issued[n] = <<k, s>> /\ used[n] = 0
    BY <1>2, <2>2, <2>5, <2>6 DEF KeyPairs
  <2> QED BY <2>6, <2>7 DEF Newest
<1>4. ASSUME NEW k \in RandomKeys, NEW s \in Seeds, NEW n \in Newest, used[n] = 0, issued[n] = <<k, s>>
      PROVE  Slots(k, s) # {}
  <2>1. PICK i \in 1..Keybuf : Number(i) = n
    BY NumbersAre
  <2>2. SlotHolds(i) /\ n > 0
    BY <1>1 DEF KeyInv, Newest
  <2>3. keydb[i] = [key |-> issued[n][1], seed |-> issued[n][2]]
    BY <1>4, <2>1, <2>2 DEF SlotHolds
  <2>4. issued[n][1] = k /\ issued[n][2] = s
    BY <1>4
  <2> QED BY <2>3, <2>4 DEF Slots
<1>5. \A n \in DOMAIN issued : used[n] <= 1
  BY <1>2
<1> QED BY <1>3, <1>4, <1>5 DEF KeysAccounted

(* The stanzas and the keys do not touch each other. *)
LEMMA KeysRest ==
  ASSUME KeyInv, Keep_keys PROVE KeyInv'
<1>1. keydb' = keydb /\ lastKey' = lastKey /\ issued' = issued /\ used' = used
  BY DEF Keep_keys
<1>2. \A i : Number(i)' = Number(i)
  BY <1>1 DEF Number
<1>3. \A i : SlotHolds(i)' <=> SlotHolds(i)
  BY <1>1, <1>2 DEF SlotHolds
<1> QED BY <1>1, <1>3 DEF KeyInv

(* And the other way round. *)
LEMMA StanzaRests ==
  ASSUME StanzaInv, UNCHANGED <<stanza, packet, meant, origin>> PROVE StanzaInv'
BY DEF StanzaInv, AnswersGoBack

(* Both halves. *)
PacketInv == StanzaInv /\ KeyInv

(* Every call of the two keeps both. *)
LEMMA PacketStep ==
  ASSUME PacketsAssumption, PacketInv, [PacketNext]_packetVars PROVE PacketInv'
<1> USE DEF PacketInv
<1>0. Addressing = Addressees \cup {NoAttr}
  BY DEF Addressing
<1>1. ASSUME NEW to \in Addressing, NEW type \in PresenceTypes, jutil_presnew(type, to) PROVE PacketInv'
  BY <1>1, Presnew, KeysRest DEF jutil_presnew, Fresh
<1>2. ASSUME NEW to \in Addressing, NEW type \in TypesOf.message \cup {NoAttr}, NEW subj \in BOOLEAN,
             jutil_msgnew(type, to, subj)
      PROVE  PacketInv'
  BY <1>2, Msgnew, KeysRest DEF jutil_msgnew, Fresh
<1>3. ASSUME NEW to \in Addressing, jutil_header(to) PROVE PacketInv'
  <2>1. NoAttr \in Addressing /\ NoAttr \in AnyType
    BY DEF Addressing, AnyType
  <2> QED BY <1>3, <2>1, HeaderOrReceived, KeysRest DEF jutil_header, Fresh
<1>4. ASSUME NEW to \in Addressing, NEW from \in Addressing, NEW type \in AnyType,
             NEW name \in {"messages", "presence", "iqueue", "other"}, Received(name, type, to, from)
      PROVE  PacketInv'
  BY <1>4, HeaderOrReceived, KeysRest DEF Received, Fresh
<1>5. ASSUME NEW type \in TypesOf.iq \cup {"error"}, jutil_iqnew(type) PROVE PacketInv'
  BY <1>5, Iqnew, KeysRest DEF jutil_iqnew, Fresh
<1>6. CASE Jpacket
  BY <1>6, Jpacketed, KeysRest DEF Jpacket
<1>7. CASE Subtype
  BY <1>7, Subtyped, KeysRest DEF Subtype
<1>8. CASE jutil_iqresult
  BY <1>8, Iqresult, KeysRest DEF jutil_iqresult, Answered
<1>9. CASE jutil_error
  BY <1>9, Errored, KeysRest DEF jutil_error, Answered
<1>10. CASE jutil_delay
  BY <1>10, Delayed, KeysRest DEF jutil_delay
<1>11. ASSUME NEW k \in RandomKeys, NEW s \in Seeds, Issue(k, s) PROVE PacketInv'
  BY <1>11, Issued, StanzaRests DEF Issue
<1>12. ASSUME NEW k \in RandomKeys, NEW s \in Seeds, jutil_regkey(k, s) PROVE PacketInv'
  BY <1>12, Accepted, StanzaRests DEF jutil_regkey
<1>13. CASE UNCHANGED packetVars
  BY <1>13, KeysRest, StanzaRests DEF packetVars, Keep_keys
<1> QED BY <1>0, <1>1, <1>2, <1>3, <1>4, <1>5, <1>6, <1>7, <1>8, <1>9, <1>10, <1>11, <1>12, <1>13 DEF PacketNext

(* What jutil builds is read as it was meant, an answer goes back to where   *)
(* the stanza came from, and a key is accepted with its own seed exactly     *)
(* while it was not accepted before and fewer than KEYBUF came after it.     *)
THEOREM PacketsAreUnderstood == PacketSpec => []StanzasUnderstood
<1>1. PacketInit => PacketInv
  BY StanzaStarts, KeyStarts DEF PacketInv
<1>2. PacketInv /\ [PacketNext]_packetVars => PacketInv'
  BY PacketStep, PacketsAssumption
<1>3. PacketInv => StanzasUnderstood
  BY PacketsUnderstood, KeysCounted, PacketsAssumption DEF PacketInv, StanzasUnderstood, StanzaInv
<1> QED BY <1>1, <1>2, <1>3, PTL DEF PacketSpec


------------------------------------------------------------------------------
(* Entities are told apart from each other and from characters. *)
LEMMA EntitiesApart ==
  /\ DOMAIN EntityLength = DOMAIN Entity
  /\ \A c \in DOMAIN Entity : Entity[c] \notin DOMAIN Entity /\ EntityLength[c] \in 4..6
  /\ \A c, d \in DOMAIN Entity : Entity[c] = Entity[d] => c = d
<1>1. DOMAIN Entity = {"&", "'", "\"", "<", ">"} /\ DOMAIN EntityLength = DOMAIN Entity
  BY DEF Entity, EntityLength
<1>2. /\ Entity["&"] = "&amp;" /\ Entity["'"] = "&apos;" /\ Entity["\""] = "&quot;"
      /\ Entity["<"] = "&lt;" /\ Entity[">"] = "&gt;"
  BY DEF Entity
<1>3. \A c \in DOMAIN Entity : EntityLength[c] \in 4..6
  <2>1. /\ EntityLength["&"] = 5 /\ EntityLength["'"] = 6 /\ EntityLength["\""] = 6
        /\ EntityLength["<"] = 4 /\ EntityLength[">"] = 4
    BY <1>1 DEF EntityLength
  <2>2. ASSUME NEW c \in DOMAIN Entity PROVE EntityLength[c] \in {4, 5, 6}
    <3>1. c = "&" \/ c = "'" \/ c = "\"" \/ c = "<" \/ c = ">"
      BY <1>1
    <3> QED BY <2>1, <3>1
  <2>3. {4, 5, 6} \subseteq 4..6
    OBVIOUS
  <2> QED BY <2>2, <2>3
<1> QED BY <1>1, <1>2, <1>3

(* A symbol that strescape writes is as long as the first pass counts, or shorter. *)
LEMMA WidthIs ==
  /\ \A c \in DOMAIN Entity : Width(Entity[c]) = EntityLength[c]
  /\ \A c : (\A d \in DOMAIN Entity : c # Entity[d]) => Width(c) = 1
<1>1. ASSUME NEW c \in DOMAIN Entity PROVE Width(Entity[c]) = EntityLength[c]
  <2>1. (CHOOSE d \in DOMAIN Entity : Entity[c] = Entity[d]) = c
    BY EntitiesApart
  <2> QED BY <2>1 DEF Width
<1>2. ASSUME NEW c, \A d \in DOMAIN Entity : c # Entity[d] PROVE Width(c) = 1
  BY <1>2 DEF Width
<1> QED BY <1>1, <1>2

(* The symbols of an escaped text. *)
Symbol(c) == IF c \in DOMAIN Entity THEN Entity[c] ELSE c

(* Each symbol gives its letter back, and is no letter that XML escapes. *)
LEMMA SymbolIs ==
  ASSUME NEW c \in Letters, \A d \in DOMAIN Entity : Entity[d] \notin Letters
  PROVE  Symbol(c) \notin DOMAIN Entity /\ UnescapeOnce(Symbol(c)) = c
<1>1. CASE c \in DOMAIN Entity
  <2>1. Symbol(c) = Entity[c] /\ Entity[c] \notin DOMAIN Entity
    BY <1>1, EntitiesApart DEF Symbol
  <2>2. (CHOOSE d \in DOMAIN Entity : Entity[c] = Entity[d]) = c
    BY <1>1, EntitiesApart
  <2> QED BY <1>1, <2>1, <2>2 DEF UnescapeOnce
<1>2. CASE c \notin DOMAIN Entity
  <2>1. Symbol(c) = c /\ ~ \E d \in DOMAIN Entity : c = Entity[d]
    BY <1>2 DEF Symbol
  <2>2. c # "&"
    BY <1>2 DEF Entity
  <2> QED BY <1>2, <2>1, <2>2 DEF UnescapeOnce
<1> QED BY <1>1, <1>2

(* strunescape of an escaped text. *)
LEMMA EscapedComesBack ==
  ASSUME NEW t \in Seq(Letters), TextAssumption
  PROVE  /\ \A i \in DOMAIN strescape(t) : strescape(t)[i] \notin DOMAIN Entity
         /\ strunescape(strescape(t)) = t
<1>1. PICK e : e = strescape(t)
  OBVIOUS
<1>2. DOMAIN e = DOMAIN t /\ \A i \in DOMAIN t : e[i] = Symbol(t[i])
  BY <1>1 DEF strescape, Symbol
<1>3. \A i \in DOMAIN t : t[i] \in Letters
  OBVIOUS
<1>4. \A i \in DOMAIN t : e[i] \notin DOMAIN Entity /\ UnescapeOnce(e[i]) = t[i]
  BY <1>2, <1>3, SymbolIs DEF TextAssumption
<1>5. t = [i \in DOMAIN t |-> t[i]]
  OBVIOUS
<1>6. CASE \E i \in DOMAIN e : e[i] = "&" \/ Width(e[i]) > 1
  <2>1. strunescape(e) = [i \in DOMAIN t |-> UnescapeOnce(e[i])]
    BY <1>2, <1>6 DEF strunescape
  <2>2. [i \in DOMAIN t |-> UnescapeOnce(e[i])] = [i \in DOMAIN t |-> t[i]]
    BY <1>4
  <2> QED BY <1>1, <1>2, <1>4, <1>5, <2>1, <2>2
<1>7. CASE ~ \E i \in DOMAIN e : e[i] = "&" \/ Width(e[i]) > 1
  <2>1. ASSUME NEW i \in DOMAIN t PROVE e[i] = t[i]
    <3>1. SUFFICES ASSUME t[i] \in DOMAIN Entity PROVE FALSE
      BY <1>2 DEF Symbol
    <3>2. Width(e[i]) = EntityLength[t[i]] /\ EntityLength[t[i]] > 1
      BY <1>2, <3>1, WidthIs, EntitiesApart DEF Symbol
    <3> QED BY <1>2, <1>7, <3>2
  <2>2. e = [i \in DOMAIN t |-> e[i]]
    BY <1>1 DEF strescape
  <2>3. e = t
    BY <1>5, <2>1, <2>2
  <2> QED BY <1>1, <1>2, <1>4, <1>7, <2>3 DEF strunescape
<1> QED BY <1>6, <1>7

(* Sums of the lengths of two rows, each of the one no more than one above the other's. *)
LEMMA SumsBound ==
  ASSUME NEW n \in Nat, NEW a \in [1..n -> Nat], NEW b \in [1..n -> Nat], \A i \in 1..n : a[i] <= b[i] + 1
  PROVE  SumFunction(a) <= n + SumFunction(b)
<1> DEFINE A(k) == [i \in 1..k |-> a[i]]
           B(k) == [i \in 1..k |-> b[i]]
           I == {k \in Nat : k <= n => /\ SumFunction(A(k)) \in Int /\ SumFunction(B(k)) \in Int
                                       /\ SumFunction(A(k)) <= k + SumFunction(B(k))}
<1>1. 0 \in I
  <2>1. DOMAIN A(0) = {} /\ DOMAIN B(0) = {}
    OBVIOUS
  <2>2. SumFunction(A(0)) = 0 /\ SumFunction(B(0)) = 0
    BY <2>1, SumOfNothing DEF SumFunction
  <2> QED BY <2>2
<1>2. ASSUME NEW k \in Nat, k \in I PROVE k + 1 \in I
  <2> SUFFICES ASSUME k + 1 <= n
               PROVE  /\ SumFunction(A(k + 1)) \in Int /\ SumFunction(B(k + 1)) \in Int
                      /\ SumFunction(A(k + 1)) <= (k + 1) + SumFunction(B(k + 1))
    OBVIOUS
  <2>1. /\ SumFunction(A(k)) \in Int /\ SumFunction(B(k)) \in Int
        /\ SumFunction(A(k)) <= k + SumFunction(B(k))
    BY <1>2
  <2>2. a[k + 1] \in Nat /\ b[k + 1] \in Nat /\ a[k + 1] <= b[k + 1] + 1
    OBVIOUS
  <2>a. ASSUME NEW c \in [1..n -> Nat]
        PROVE  SumFunction([i \in 1..(k + 1) |-> c[i]]) = SumFunction([i \in 1..k |-> c[i]]) + c[k + 1]
    <3>1. PICK f, e : f = [i \in 1..k |-> c[i]] /\ e = [i \in 1..(k + 1) |-> c[i]]
      OBVIOUS
    <3>2. DOMAIN f = 1..k /\ \A i \in 1..k : f[i] \in Int
      BY <3>1
    <3>3. DOMAIN e = 1..(k + 1) /\ \A i \in 1..k : e[i] = f[i]
      BY <3>1
    <3>4. e[k + 1] = c[k + 1] /\ e[k + 1] \in Int
      BY <3>1
    <3>5. SumFunction(e) = SumFunction(f) + e[k + 1]
      BY ONLY k \in Nat, <3>2, <3>3, <3>4, SumGrows
    <3> QED BY <3>1, <3>4, <3>5
  <2>3. SumFunction(A(k + 1)) = SumFunction(A(k)) + a[k + 1]
    BY <2>a
  <2>4. SumFunction(B(k + 1)) = SumFunction(B(k)) + b[k + 1]
    BY <2>a
  <2>5. PICK x, y, u, v : /\ x = SumFunction(A(k)) /\ y = SumFunction(B(k))
                          /\ u = SumFunction(A(k + 1)) /\ v = SumFunction(B(k + 1))
    OBVIOUS
  <2>6. x \in Int /\ y \in Int /\ x <= k + y /\ u = x + a[k + 1] /\ v = y + b[k + 1]
    BY <2>1, <2>3, <2>4, <2>5
  <2>7. u \in Int /\ v \in Int /\ u <= (k + 1) + v
    <3>1. PICK p, q : p = a[k + 1] /\ q = b[k + 1]
      OBVIOUS
    <3>2. p \in Nat /\ q \in Nat /\ p <= q + 1 /\ u = x + p /\ v = y + q
      BY ONLY <2>2, <2>6, <3>1
    <3>3. x + p <= (k + y) + (q + 1)
      BY ONLY <2>6, <3>2, k \in Nat
    <3>4. (k + y) + (q + 1) = (k + 1) + (y + q)
      BY ONLY <2>6, <3>2, k \in Nat
    <3>5. u \in Int /\ v \in Int
      BY ONLY <2>6, <3>2
    <3>6. u <= (k + 1) + v
      BY ONLY <3>2, <3>3, <3>4
    <3> QED BY ONLY <3>5, <3>6
  <2> QED BY <2>5, <2>7
<1>3. n \in I
  <2> HIDE DEF I
  <2> QED BY <1>1, <1>2, CountingUp
<1>4. A(n) = a /\ B(n) = b
  OBVIOUS
<1>5. SumFunction(A(n)) <= n + SumFunction(B(n))
  BY <1>3
<1> HIDE DEF A, B
<1> QED BY <1>4, <1>5

(* The buffer that the first pass counts for holds the escaped text. *)
LEMMA EscapedFits ==
  ASSUME NEW t \in Seq(Letters), TextAssumption
  PROVE  Bytes(strescape(t)) <= newlen(t)
<1>1. PICK n, a, b : /\ n = Len(t)
                     /\ a = [i \in DOMAIN t |-> Width(strescape(t)[i])]
                     /\ b = [i \in DOMAIN t |-> IF t[i] \in DOMAIN Entity THEN EntityLength[t[i]] ELSE 0]
  OBVIOUS
<1>2. n \in Nat /\ DOMAIN t = 1..n /\ \A i \in 1..n : t[i] \in Letters
  BY <1>1
<1>3. ASSUME NEW i \in 1..n PROVE a[i] \in Nat /\ b[i] \in Nat /\ a[i] <= b[i] + 1
  <2>1. strescape(t)[i] = Symbol(t[i])
    BY <1>2 DEF strescape, Symbol
  <2>2. CASE t[i] \in DOMAIN Entity
    <3>1. Width(Symbol(t[i])) = EntityLength[t[i]] /\ EntityLength[t[i]] \in 4..6
      BY <2>2, WidthIs, EntitiesApart DEF Symbol
    <3>2. a[i] = EntityLength[t[i]] /\ b[i] = EntityLength[t[i]]
      BY <1>1, <1>2, <2>1, <2>2, <3>1
    <3> QED BY <3>1, <3>2
  <2>3. CASE t[i] \notin DOMAIN Entity
    <3>1. \A d \in DOMAIN Entity : t[i] # Entity[d]
      BY <1>2 DEF TextAssumption
    <3>2. Width(Symbol(t[i])) = 1
      BY <2>3, <3>1, WidthIs DEF Symbol
    <3>3. a[i] = 1 /\ b[i] = 0
      BY <1>1, <1>2, <2>1, <2>3, <3>2
    <3> QED BY <3>3
  <2> QED BY <2>2, <2>3
<1>4. a \in [1..n -> Nat] /\ b \in [1..n -> Nat]
  <2>1. DOMAIN a = 1..n /\ DOMAIN b = 1..n /\ a = [i \in 1..n |-> a[i]] /\ b = [i \in 1..n |-> b[i]]
    BY <1>1, <1>2
  <2> QED BY <1>3, <2>1
<1>5. SumFunction(a) <= n + SumFunction(b)
  BY ONLY <1>2, <1>3, <1>4, SumsBound
<1>6. Bytes(strescape(t)) = SumFunction(a)
  <2>1. DOMAIN strescape(t) = DOMAIN t
    BY DEF strescape
  <2> QED BY <1>1, <2>1 DEF Bytes
<1> QED BY <1>1, <1>5, <1>6 DEF newlen

------------------------------------------------------------------------------
(* Lists of four, one behind the other. *)
Fours(s, f) ==
  /\ Len(f) = 4 * Len(s)
  /\ \A g \in 1..Len(s) : \A r \in 1..4 : f[4 * (g - 1) + r] = s[g][r]

(* Where the members of a list of four are when the lists are joined. *)
LEMMA FoursJoined ==
  ASSUME NEW S, NEW s \in Seq(Seq(S)), \A g \in 1..Len(s) : Len(s[g]) = 4
  PROVE  Fours(s, FlattenSeq(s))
<1> DEFINE I == {z \in Seq(Seq(S)) : (\A g \in 1..Len(z) : Len(z[g]) = 4) => Fours(z, FlattenSeq(z))}
<1>1. <<>> \in I
  <2>1. Len(<<>>) = 0 /\ <<>> \in Seq(Seq(S))
    OBVIOUS
  <2> QED BY <2>1, FlattenNothing DEF Fours
<1>2. ASSUME NEW z \in Seq(Seq(S)), NEW e \in Seq(S), z \in I PROVE Append(z, e) \in I
  <2>1. PICK y, n : y = Append(z, e) /\ n = Len(z)
    OBVIOUS
  <2>2. n \in Nat /\ y \in Seq(Seq(S)) /\ Len(y) = n + 1 /\ y[n + 1] = e /\ \A g \in 1..n : y[g] = z[g]
    BY <2>1, AppendProperties
  <2> SUFFICES ASSUME \A g \in 1..(n + 1) : Len(y[g]) = 4 PROVE Fours(y, FlattenSeq(y))
    BY <2>1, <2>2
  <2>3. Len(e) = 4 /\ \A g \in 1..n : Len(z[g]) = 4
    BY <2>2
  <2>4. PICK f, h : f = FlattenSeq(z) /\ h = FlattenSeq(y)
    OBVIOUS
  <2>5. h = f \o e /\ f \in Seq(S)
    BY <2>1, <2>4, FlattenSeqAppend, FlattenSeqType
  <2>6. Len(f) = 4 * n /\ \A g \in 1..n : \A r \in 1..4 : f[4 * (g - 1) + r] = z[g][r]
    BY <1>2, <2>1, <2>3, <2>4 DEF Fours
  <2>a. Len(h) = Len(f) + Len(e) /\ \A i \in 1..(Len(f) + Len(e)) : h[i] = IF i <= Len(f) THEN f[i] ELSE e[i - Len(f)]
    BY ONLY <2>5, ConcatProperties, e \in Seq(S)
  <2>7. Len(h) = 4 * (n + 1)
    BY ONLY <2>2, <2>3, <2>6, <2>a
  <2>8. ASSUME NEW g \in 1..(n + 1), NEW r \in 1..4 PROVE h[4 * (g - 1) + r] = y[g][r]
    <3>1. PICK k : k = 4 * (g - 1) + r
      OBVIOUS
    <3>2. CASE g \in 1..n
      <4>1. k \in 1..Len(f)
        BY ONLY <2>2, <2>6, <3>1, <3>2, r \in 1..4
      <4>2. h[k] = f[k]
        BY ONLY <2>2, <2>3, <2>6, <2>a, <4>1
      <4> QED BY <2>2, <2>6, <3>1, <3>2, <4>2
    <3>3. CASE g = n + 1
      <4>1. k = Len(f) + r /\ k \in (Len(f) + 1)..(Len(f) + Len(e))
        BY ONLY <2>2, <2>3, <2>6, <3>1, <3>3, r \in 1..4
      <4>2. h[k] = e[k - Len(f)]
        <5>1. h[k] = IF k <= Len(f) THEN f[k] ELSE e[k - Len(f)]
          BY ONLY <2>2, <2>3, <2>6, <2>a, <4>1
        <5> QED BY ONLY <5>1, <4>1, <2>6, <2>2
      <4>3. k - Len(f) = r
        BY ONLY <4>1, <2>6, <2>2, r \in 1..4
      <4> QED BY <2>2, <3>1, <3>3, <4>2, <4>3
    <3> QED BY <2>2, <3>2, <3>3
  <2> QED BY <2>2, <2>4, <2>7, <2>8 DEF Fours
<1>3. s \in I
  <2> HIDE DEF I
  <2>1. Seq(Seq(S)) \subseteq I
    BY ONLY <1>1, <1>2, GrowingSequence
  <2> QED BY <2>1
<1> QED BY <1>3

(* The octets of a text, 0 behind its end; the four digits of three of them. *)
Octet(o, i) == IF i \in 1..Len(o) THEN o[i] ELSE 0
Quad(o, q) ==
  <<Octet(o, 3 * q + 1) \div 4,
    (Octet(o, 3 * q + 1) % 4) * 16 + (Octet(o, 3 * q + 2) \div 16),
    (Octet(o, 3 * q + 2) % 16) * 4 + (Octet(o, 3 * q + 3) \div 64),
    Octet(o, 3 * q + 3) % 64>>

(* An octet is a byte, there or not. *)
LEMMA OctetIs == ASSUME NEW o \in Seq(0..255), NEW i PROVE Octet(o, i) \in 0..255
<1>1. CASE i \in 1..Len(o)
  <2>1. o[i] \in 0..255
    BY <1>1, ElementOfSeq
  <2> QED BY <1>1, <2>1 DEF Octet
<1>2. CASE i \notin 1..Len(o)
  BY <1>2 DEF Octet
<1> QED BY <1>1, <1>2

(* Four digits are numbers below 64. *)
LEMMA QuadIs ==
  ASSUME NEW o \in Seq(0..255), NEW q \in Nat
  PROVE  Quad(o, q) \in Seq(0..63) /\ Len(Quad(o, q)) = 4
<1>1. PICK x, y, z : x = Octet(o, 3 * q + 1) /\ y = Octet(o, 3 * q + 2) /\ z = Octet(o, 3 * q + 3)
  OBVIOUS
<1>2. x \in 0..255 /\ y \in 0..255 /\ z \in 0..255
  BY <1>1, OctetIs
<1>3. /\ x \div 4 \in 0..63 /\ (x % 4) * 16 + (y \div 16) \in 0..63
      /\ (y % 16) * 4 + (z \div 64) \in 0..63 /\ z % 64 \in 0..63
  BY ONLY <1>2
<1>4. Quad(o, q) = <<x \div 4, (x % 4) * 16 + (y \div 16), (y % 16) * 4 + (z \div 64), z % 64>>
  BY <1>1 DEF Quad
<1> QED BY <1>3, <1>4

(* A group of three octets, the last one shorter. *)
LEMMA GroupIs ==
  ASSUME NEW o \in Seq(0..255), NEW g \in 1..((Len(o) + 2) \div 3)
  PROVE  SixBits(SubSeq(o, 3 * g - 2, IF 3 * g < Len(o) THEN 3 * g ELSE Len(o))) = Quad(o, g - 1)
<1>1. PICK n, last, p : /\ n = Len(o) /\ last = (IF 3 * g < n THEN 3 * g ELSE n)
                        /\ p = SubSeq(o, 3 * g - 2, last)
  OBVIOUS
<1>2. n \in Nat /\ g \in Nat /\ 1 <= g /\ 3 * g <= n + 2
  BY <1>1
<1>3. 3 * g - 2 \in 1..n /\ last \in 1..n /\ 3 * g - 2 <= last /\ last <= 3 * g
  BY ONLY <1>1, <1>2
<1>4. DOMAIN p = 1..(last - 3 * g + 3) /\ \A i \in 1..(last - 3 * g + 3) : p[i] = o[3 * g - 3 + i]
  <2>1. PICK m : m = 3 * g - 2
    OBVIOUS
  <2>2. m \in 1..n /\ m <= last /\ p = SubSeq(o, m, last)
    BY <1>1, <1>3, <2>1
  <2>3. ASSUME NEW i \in m..last PROVE o[i] \in 0..255
    <3>1. i \in 1..Len(o)
      BY ONLY <1>1, <1>2, <1>3, <2>2, i \in m..last
    <3> QED BY ONLY <3>1, o \in Seq(0..255), ElementOfSeq
  <2>4. /\ p \in Seq(0..255) /\ Len(p) = last - m + 1
        /\ \A i \in 1..(last - m + 1) : p[i] = o[m + i - 1]
    BY ONLY <1>2, <1>3, <2>2, <2>3, SubSeqProperties
  <2>5. last - m + 1 = last - 3 * g + 3 /\ \A i \in 1..(last - m + 1) : m + i - 1 = 3 * g - 3 + i
    BY ONLY <2>1, <1>2, <1>3
  <2> QED BY <2>4, <2>5
<1>5. ASSUME NEW i \in 1..3
      PROVE  (IF i \in DOMAIN p THEN p[i] ELSE 0) = Octet(o, 3 * (g - 1) + i)
  <2>1. 3 * (g - 1) + i = 3 * g - 3 + i
    BY <1>2
  <2>2. i \in DOMAIN p <=> 3 * g - 3 + i \in 1..n
    BY ONLY <1>1, <1>2, <1>3, <1>4, i \in 1..3
  <2> QED BY <1>1, <1>4, <2>1, <2>2 DEF Octet
<1>6. SixBits(p) = Quad(o, g - 1)
  BY <1>5 DEF SixBits, Quad
<1> QED BY <1>1, <1>6

(* The digits of an encoded text. *)
Encoded(o, d) ==
  /\ d \in Seq(0..63) /\ Len(d) = (4 * Len(o) + 2) \div 3
  /\ \A q \in Nat, r \in 1..4 : 4 * q + r <= Len(d) => d[4 * q + r] = Quad(o, q)[r]

(* What a peer writes for bytes of its own. *)
LEMMA DigitsAre == ASSUME NEW o \in Seq(0..255) PROVE Encoded(o, Digits(o))
<1>1. PICK n, gs, f, l, d :
        /\ n = (Len(o) + 2) \div 3
        /\ gs = [g \in 1..n |-> SixBits(SubSeq(o, 3 * g - 2, IF 3 * g < Len(o) THEN 3 * g ELSE Len(o)))]
        /\ f = FlattenSeq(gs) /\ l = (4 * Len(o) + 2) \div 3 /\ d = SubSeq(f, 1, l)
  OBVIOUS
<1>2. d = Digits(o)
  BY <1>1 DEF Digits
<1>3. Len(o) \in Nat /\ n \in Nat /\ l \in Nat /\ l <= 4 * n
  BY <1>1
<1>4. \A g \in 1..n : gs[g] = Quad(o, g - 1) /\ gs[g] \in Seq(0..63) /\ Len(gs[g]) = 4
  <2> SUFFICES ASSUME NEW g \in 1..n
               PROVE  gs[g] = Quad(o, g - 1) /\ gs[g] \in Seq(0..63) /\ Len(gs[g]) = 4
    OBVIOUS
  <2>1. gs[g] = Quad(o, g - 1)
    BY <1>1, GroupIs
  <2>2. g - 1 \in Nat
    BY <1>3
  <2> QED BY <2>1, <2>2, QuadIs
<1>5. gs \in Seq(Seq(0..63)) /\ Len(gs) = n
  BY <1>1, <1>3, <1>4
<1>6. Fours(gs, f) /\ f \in Seq(0..63)
  BY ONLY <1>1, <1>4, <1>5, FoursJoined, FlattenSeqType
<1>7. Len(f) = 4 * n
  BY <1>5, <1>6 DEF Fours
<1>8. d \in Seq(0..63) /\ Len(d) = l /\ \A i \in 1..l : d[i] = f[i]
  <2>1. l \in 0..Len(f)
    BY <1>3, <1>7
  <2>2. ASSUME NEW i \in 1..l PROVE f[i] \in 0..63
    <3>1. i \in 1..Len(f)
      BY ONLY <1>3, <1>7, i \in 1..l
    <3> QED BY ONLY <1>6, <3>1, ElementOfSeq
  <2>3. /\ d \in Seq(0..63) /\ Len(d) = (IF 1 <= l THEN l - 1 + 1 ELSE 0)
        /\ \A i \in 1..(l - 1 + 1) : d[i] = f[1 + i - 1]
    BY <1>1, <1>3, <2>2, SubSeqProperties
  <2> QED BY <1>3, <2>3
<1>9. ASSUME NEW q \in Nat, NEW r \in 1..4, 4 * q + r <= l PROVE d[4 * q + r] = Quad(o, q)[r]
  <2>1. PICK g : g = q + 1
    OBVIOUS
  <2>2. g \in 1..n /\ 4 * (g - 1) + r = 4 * q + r /\ 4 * q + r \in 1..l /\ g - 1 = q
    BY ONLY <1>3, <1>9, <2>1, q \in Nat, r \in 1..4
  <2>3. f[4 * (g - 1) + r] = gs[g][r]
    BY <1>5, <1>6, <2>2 DEF Fours
  <2>4. gs[g] = Quad(o, q)
    BY <1>4, <2>2
  <2> QED BY <1>8, <2>2, <2>3, <2>4
<1> QED BY <1>1, <1>2, <1>8, <1>9 DEF Encoded

------------------------------------------------------------------------------
(* The decoder between two characters. *)
Decoders == [phase : 0..3, dlast : 0..63, out : Seq(0..255), read : Nat, behind : BOOLEAN]

(* What a digit makes is a byte. *)
LEMMA DigitIs ==
  ASSUME NEW d \in 0..63, NEW last \in 0..63, NEW phase \in 1..3
  PROVE  Digit(d, last, phase) \in 0..255
<1>1. CASE phase = 1
  <2>1. Digit(d, last, phase) = (last * 4 + (d \div 16)) % 256
    BY <1>1 DEF Digit
  <2> QED BY <2>1
<1>2. CASE phase = 2
  <2>1. Digit(d, last, phase) = ((last % 16) * 16 + (d \div 4)) % 256
    BY <1>2 DEF Digit
  <2> QED BY <2>1
<1>3. CASE phase = 3
  <2>1. Digit(d, last, phase) = ((last % 4) * 64 + d) % 256
    BY <1>3 DEF Digit
  <2> QED BY <2>1
<1> QED BY <1>1, <1>2, <1>3

(* One round of the loop. *)
Passed(s, e) == e.phase = s.phase /\ e.dlast = s.dlast /\ e.out = s.out /\ e.behind = s.behind
Decoded(s, d, e) ==
  /\ e.phase = (s.phase + 1) % 4 /\ e.dlast = d
  /\ e.out = IF s.phase = 0 THEN s.out ELSE Append(s.out, Digit(d, s.dlast, s.phase))
  /\ e.behind = (s.behind /\ Len(e.out) <= s.read)

(* A character that is no digit is passed over, a digit is decoded. *)
LEMMA DecodeStepIs ==
  ASSUME NEW s \in Decoders, NEW d \in -1..63, NEW e, e = DecodeStep(s, d)
  PROVE  /\ e \in Decoders /\ e.read = s.read + 1
         /\ d = -1 => Passed(s, e)
         /\ d # -1 => Decoded(s, d, e)
<1>1. CASE d = -1
  <2>1. e = [s EXCEPT !.read = @ + 1]
    BY <1>1 DEF DecodeStep
  <2>2. e = [phase |-> s.phase, dlast |-> s.dlast, out |-> s.out, read |-> s.read + 1, behind |-> s.behind]
    BY <2>1 DEF Decoders
  <2>3. s.read + 1 \in Nat
    BY DEF Decoders
  <2>4. e \in Decoders /\ e.read = s.read + 1
    BY <2>2, <2>3 DEF Decoders
  <2> QED BY <1>1, <2>2, <2>4 DEF Passed
<1>2. CASE d # -1
  <2>1. PICK out, n : /\ out = (IF s.phase = 0 THEN s.out ELSE Append(s.out, Digit(d, s.dlast, s.phase)))
                      /\ n = [s EXCEPT !.read = @ + 1, !.phase = (@ + 1) % 4, !.dlast = d]
    OBVIOUS
  <2>2. e = [n EXCEPT !.out = out, !.behind = s.behind /\ Len(out) <= s.read]
    BY <1>2, <2>1 DEF DecodeStep
  <2>3. d \in 0..63
    BY <1>2
  <2>4. out \in Seq(0..255)
    <3>1. CASE s.phase = 0
      BY <2>1, <3>1 DEF Decoders
    <3>2. CASE s.phase # 0
      <4>1. Digit(d, s.dlast, s.phase) \in 0..255
        <5>1. s.dlast \in 0..63 /\ s.phase \in 1..3
          BY <3>2 DEF Decoders
        <5> QED BY <2>3, <5>1, DigitIs
      <4> QED BY <2>1, <3>2, <4>1 DEF Decoders
    <3> QED BY <3>1, <3>2
  <2>5. n = [phase |-> (s.phase + 1) % 4, dlast |-> d, out |-> s.out, read |-> s.read + 1, behind |-> s.behind]
    BY <2>1 DEF Decoders
  <2>6. e = [phase |-> (s.phase + 1) % 4, dlast |-> d, out |-> out, read |-> s.read + 1,
             behind |-> (s.behind /\ Len(out) <= s.read)]
    BY ONLY <2>2, <2>5
  <2>7. (s.phase + 1) % 4 \in 0..3 /\ s.read + 1 \in Nat
    BY DEF Decoders
  <2> HIDE <2>1, <2>2, <2>5
  <2>8. e \in Decoders
    BY <2>3, <2>4, <2>6, <2>7 DEF Decoders
  <2> QED BY <1>2, <2>1, <2>6, <2>8 DEF Decoded
<1> QED BY <1>1, <1>2

(* Every text of digits and other characters is decoded character by character. *)
LEMMA DecoderRuns ==
  ASSUME NEW w \in Seq(-1..63)
  PROVE  \E g : /\ g \in [0..Len(w) -> Decoders] /\ g[0] = Decoder
                /\ \A i \in 1..Len(w) : g[i] = DecodeStep(g[i - 1], w[i])
                /\ str_b64decode(w) = g[Len(w)]
<1>1. PICK n, step : n = Len(w) /\ step = [x \in (1..n) \X Decoders |-> DecodeStep(x[2], w[x[1]])]
  OBVIOUS
<1>2. n \in Nat
  BY <1>1
<1>3. Decoder \in Decoders
  BY DEF Decoder, Decoders
<1>4. step \in [(1..n) \X Decoders -> Decoders]
  <2>1. ASSUME NEW x \in (1..n) \X Decoders PROVE DecodeStep(x[2], w[x[1]]) \in Decoders
    <3>1. w[x[1]] \in -1..63
      <4>1. x[1] \in 1..Len(w)
        BY <1>1
      <4> QED BY <4>1, ElementOfSeq
    <3> QED BY <3>1, DecodeStepIs
  <2> QED BY <1>1, <2>1
<1>5. PICK g : Stepped(n, Decoders, Decoder, step, g)
  BY ONLY <1>2, <1>3, <1>4, StepsExist
<1>6. g \in [0..n -> Decoders] /\ g[0] = Decoder /\ \A i \in 1..n : g[i] = step[<<i, g[i - 1]>>]
  BY <1>5 DEF Stepped
<1>7. ASSUME NEW i \in 1..n PROVE g[i] = DecodeStep(g[i - 1], w[i])
  <2>1. <<i, g[i - 1]>> \in (1..n) \X Decoders
    BY <1>2, <1>6
  <2> QED BY <1>1, <1>6, <2>1
<1>8. ASSUME NEW i \in 0..n PROVE g[i] = IF i = 0 THEN Decoder ELSE DecodeStep(g[i - 1], w[i])
  BY <1>2, <1>6, <1>7
<1>9. g = [i \in 0..n |-> IF i = 0 THEN Decoder ELSE DecodeStep(g[i - 1], w[i])]
  BY <1>6, <1>8
<1> DEFINE Rule(h) == h = [i \in 0..n |-> IF i = 0 THEN Decoder ELSE DecodeStep(h[i - 1], w[i])]
<1>10. ASSUME NEW h, Rule(h) PROVE h[n] = g[n]
  <2> DEFINE I == {i \in Nat : i <= n => h[i] = g[i]}
  <2>1. 0 \in I
    BY <1>2, <1>6, <1>10
  <2>2. ASSUME NEW i \in Nat, i \in I PROVE i + 1 \in I
    <3> SUFFICES ASSUME i + 1 <= n PROVE h[i + 1] = g[i + 1]
      OBVIOUS
    <3>1. i + 1 \in 1..n /\ (i + 1) - 1 = i /\ i + 1 # 0 /\ i + 1 \in 0..n
      BY <1>2
    <3>2. h[i] = g[i]
      BY <1>2, <2>2, <3>1
    <3>3. h[i + 1] = DecodeStep(h[i], w[i + 1])
      BY <1>10, <3>1
    <3> QED BY <1>7, <3>1, <3>2, <3>3
  <2> HIDE DEF I
  <2>3. Nat \subseteq I
    BY ONLY <2>1, <2>2, CountingUp
  <2> USE DEF I
  <2> QED BY <1>2, <2>3
<1>11. str_b64decode(w) = (CHOOSE h : Rule(h))[n]
  BY <1>1 DEF str_b64decode
<1>12. PICK h : h = (CHOOSE k : Rule(k))
  OBVIOUS
<1>13. Rule(g)
  BY <1>9
<1> HIDE DEF Rule
<1>14. Rule(h)
  BY <1>12, <1>13
<1>15. h[n] = g[n]
  BY ONLY <1>10, <1>14
<1>16. str_b64decode(w) = g[n]
  BY ONLY <1>11, <1>12, <1>15
<1> QED BY <1>1, <1>6, <1>7, <1>16

(* The first octets, with the next one. *)
LEMMA OneOctetMore ==
  ASSUME NEW o \in Seq(0..255), NEW j \in Nat, j < Len(o)
  PROVE  Append(SubSeq(o, 1, j), o[j + 1]) = SubSeq(o, 1, j + 1)
<1>1. PICK p, r, n : p = SubSeq(o, 1, j) /\ r = SubSeq(o, 1, j + 1) /\ n = Len(o)
  OBVIOUS
<1>2. n \in Nat /\ j < n /\ \A i \in 1..n : o[i] \in 0..255
  <2>1. ASSUME NEW i \in 1..Len(o) PROVE o[i] \in 0..255
    BY ONLY o \in Seq(0..255), i \in 1..Len(o), ElementOfSeq
  <2> QED BY <1>1, <2>1
<1>3. p \in Seq(0..255) /\ Len(p) = j /\ \A i \in 1..j : p[i] = o[i]
  <2>1. \A i \in 1..j : o[i] \in 0..255
    BY <1>2
  <2>2. /\ p \in Seq(0..255) /\ Len(p) = (IF 1 <= j THEN j - 1 + 1 ELSE 0)
        /\ \A i \in 1..(j - 1 + 1) : p[i] = o[1 + i - 1]
    BY <1>1, <2>1, SubSeqProperties
  <2> QED BY <2>2
<1>4. r \in Seq(0..255) /\ Len(r) = j + 1 /\ \A i \in 1..(j + 1) : r[i] = o[i]
  <2>1. \A i \in 1..(j + 1) : o[i] \in 0..255
    BY <1>2
  <2>2. /\ r \in Seq(0..255) /\ Len(r) = (IF 1 <= j + 1 THEN (j + 1) - 1 + 1 ELSE 0)
        /\ \A i \in 1..((j + 1) - 1 + 1) : r[i] = o[1 + i - 1]
    BY <1>1, <2>1, SubSeqProperties
  <2> QED BY <2>2
<1>5. PICK a : a = Append(p, o[j + 1])
  OBVIOUS
<1>6. o[j + 1] \in 0..255
  BY <1>2
<1>7. a \in Seq(0..255) /\ Len(a) = j + 1 /\ a[j + 1] = o[j + 1] /\ \A i \in 1..j : a[i] = p[i]
  BY <1>3, <1>5, <1>6, AppendProperties
<1>8. ASSUME NEW i \in 1..(j + 1) PROVE a[i] = r[i]
  <2>1. i \in 1..j \/ i = j + 1
    BY <1>2
  <2> QED BY ONLY <1>3, <1>4, <1>7, <2>1
<1>9. a = r
  BY ONLY <1>4, <1>7, <1>8, SeqEqual
<1> QED BY <1>1, <1>5, <1>9

(* The bits of three bytes cut into four digits, and put together again. *)
BitsJoined(x, y, z) ==
  /\ Digit((x % 4) * 16 + (y \div 16), x \div 4, 1) = x
  /\ Digit((y % 16) * 4 + (z \div 64), (x % 4) * 16 + (y \div 16), 2) = y
  /\ Digit(z % 64, (y % 16) * 4 + (z \div 64), 3) = z

(* The three bytes come back. *)
LEMMA BitsComeBack ==
  ASSUME NEW x \in 0..255, NEW y \in 0..255, NEW z \in 0..255
  PROVE  BitsJoined(x, y, z)
<1>1. ASSUME NEW u, NEW v PROVE /\ Digit(u, v, 1) = (v * 4 + (u \div 16)) % 256
                                /\ Digit(u, v, 2) = ((v % 16) * 16 + (u \div 4)) % 256
                                /\ Digit(u, v, 3) = ((v % 4) * 64 + u) % 256
  BY DEF Digit
<1>2. ((x \div 4) * 4 + (((x % 4) * 16 + (y \div 16)) \div 16)) % 256 = x
  <2>1. ((x % 4) * 16 + (y \div 16)) \div 16 = x % 4
    OBVIOUS
  <2>2. (x \div 4) * 4 + (x % 4) = x
    OBVIOUS
  <2> QED BY <2>1, <2>2
<1>3. ((((x % 4) * 16 + (y \div 16)) % 16) * 16 + (((y % 16) * 4 + (z \div 64)) \div 4)) % 256 = y
  <2>1. ((x % 4) * 16 + (y \div 16)) % 16 = y \div 16
    OBVIOUS
  <2>2. ((y % 16) * 4 + (z \div 64)) \div 4 = y % 16
    OBVIOUS
  <2>3. (y \div 16) * 16 + (y % 16) = y
    OBVIOUS
  <2> QED BY <2>1, <2>2, <2>3
<1>4. ((((y % 16) * 4 + (z \div 64)) % 4) * 64 + (z % 64)) % 256 = z
  <2>1. ((y % 16) * 4 + (z \div 64)) % 4 = z \div 64
    OBVIOUS
  <2>2. (z \div 64) * 64 + (z % 64) = z
    OBVIOUS
  <2> QED BY <2>1, <2>2
<1>5. Digit((x % 4) * 16 + (y \div 16), x \div 4, 1) = x
  <2>1. PICK u, v : u = (x % 4) * 16 + (y \div 16) /\ v = x \div 4
    OBVIOUS
  <2>2. Digit(u, v, 1) = (v * 4 + (u \div 16)) % 256
    BY ONLY <1>1
  <2> QED BY ONLY <1>2, <2>1, <2>2
<1>6. Digit((y % 16) * 4 + (z \div 64), (x % 4) * 16 + (y \div 16), 2) = y
  <2>1. PICK u, v : u = (y % 16) * 4 + (z \div 64) /\ v = (x % 4) * 16 + (y \div 16)
    OBVIOUS
  <2>2. Digit(u, v, 2) = ((v % 16) * 16 + (u \div 4)) % 256
    BY ONLY <1>1
  <2> QED BY ONLY <1>3, <2>1, <2>2
<1>7. Digit(z % 64, (y % 16) * 4 + (z \div 64), 3) = z
  <2>1. PICK u, v : u = z % 64 /\ v = (y % 16) * 4 + (z \div 64)
    OBVIOUS
  <2>2. Digit(u, v, 3) = ((v % 4) * 64 + u) % 256
    BY ONLY <1>1
  <2> QED BY ONLY <1>4, <2>1, <2>2
<1> QED BY ONLY <1>5, <1>6, <1>7 DEF BitsJoined

(* The decoder after the first k digits of d: three bytes of four digits. *)
DecodedSoFar(o, d, s, k) ==
  /\ s.phase = k % 4 /\ (k > 0 => s.dlast = d[k])
  /\ s.out = SubSeq(o, 1, (3 * k) \div 4) /\ s.behind

(* A digit puts the next byte together, or is the first of four. *)
LEMMA ByteComesBack ==
  ASSUME NEW o \in Seq(0..255), NEW d, Encoded(o, d), NEW k \in Nat, k < Len(d), NEW last, k > 0 => last = d[k],
         k % 4 # 0
  PROVE  (3 * k) \div 4 < Len(o) /\ Digit(d[k + 1], last, k % 4) = o[(3 * k) \div 4 + 1]
<1>1. PICK q, p, n : q = k \div 4 /\ p = k % 4 /\ n = Len(o)
  OBVIOUS
<1>2. q \in Nat /\ p \in 1..3 /\ k = 4 * q + p /\ n \in Nat /\ Len(d) = (4 * n + 2) \div 3
  BY <1>1 DEF Encoded
<1>3. (3 * k) \div 4 = 3 * q + p - 1 /\ 3 * q + p <= n /\ p + 1 \in 1..4 /\ p \in 1..4
  BY ONLY <1>2, k < Len(d)
<1>4. PICK j : j = 3 * q + p
  OBVIOUS
<1>5. j \in 1..n /\ (3 * k) \div 4 + 1 = j /\ (3 * k) \div 4 < n
  BY ONLY <1>2, <1>3, <1>4
<1>6. d[k] = Quad(o, q)[p] /\ d[k + 1] = Quad(o, q)[p + 1]
  <2>1. 4 * q + p <= Len(d) /\ 4 * q + (p + 1) <= Len(d) /\ k + 1 = 4 * q + (p + 1)
    BY ONLY <1>2, k < Len(d)
  <2>2. \A r \in 1..4 : 4 * q + r <= Len(d) => d[4 * q + r] = Quad(o, q)[r]
    BY <1>2 DEF Encoded
  <2> QED BY <1>2, <1>3, <2>1, <2>2
<1>7. PICK x, y, z : x = Octet(o, 3 * q + 1) /\ y = Octet(o, 3 * q + 2) /\ z = Octet(o, 3 * q + 3)
  OBVIOUS
<1>8. x \in 0..255 /\ y \in 0..255 /\ z \in 0..255
  BY <1>7, OctetIs
<1>9. Quad(o, q) = <<x \div 4, (x % 4) * 16 + (y \div 16), (y % 16) * 4 + (z \div 64), z % 64>>
  BY <1>7 DEF Quad
<1>10. last = d[k]
  BY <1>2
<1>b. /\ Digit((x % 4) * 16 + (y \div 16), x \div 4, 1) = x
      /\ Digit((y % 16) * 4 + (z \div 64), (x % 4) * 16 + (y \div 16), 2) = y
      /\ Digit(z % 64, (y % 16) * 4 + (z \div 64), 3) = z
  <2>1. BitsJoined(x, y, z)
    BY ONLY <1>8, BitsComeBack
  <2> QED BY ONLY <2>1 DEF BitsJoined
<1>11. Digit(d[k + 1], last, p) = Octet(o, j)
  <2>1. CASE p = 1
    <3>1. last = x \div 4 /\ d[k + 1] = (x % 4) * 16 + (y \div 16)
      BY <1>6, <1>9, <1>10, <2>1
    <3>2. Digit((x % 4) * 16 + (y \div 16), x \div 4, 1) = x
      BY ONLY <1>b
    <3>3. Octet(o, j) = x
      BY ONLY <1>4, <1>7, <2>1
    <3> QED BY ONLY <2>1, <3>1, <3>2, <3>3
  <2>2. CASE p = 2
    <3>1. last = (x % 4) * 16 + (y \div 16) /\ d[k + 1] = (y % 16) * 4 + (z \div 64)
      BY <1>6, <1>9, <1>10, <2>2
    <3>2. Digit((y % 16) * 4 + (z \div 64), (x % 4) * 16 + (y \div 16), 2) = y
      BY ONLY <1>b
    <3>3. Octet(o, j) = y
      BY ONLY <1>4, <1>7, <2>2
    <3> QED BY ONLY <2>2, <3>1, <3>2, <3>3
  <2>3. CASE p = 3
    <3>1. last = (y % 16) * 4 + (z \div 64) /\ d[k + 1] = z % 64
      BY <1>6, <1>9, <1>10, <2>3
    <3>2. Digit(z % 64, (y % 16) * 4 + (z \div 64), 3) = z
      BY ONLY <1>b
    <3>3. Octet(o, j) = z
      BY ONLY <1>4, <1>7, <2>3
    <3> QED BY ONLY <2>3, <3>1, <3>2, <3>3
  <2> QED BY <1>2, <2>1, <2>2, <2>3
<1>12. Octet(o, j) = o[j]
  BY <1>1, <1>5 DEF Octet
<1> QED BY <1>1, <1>5, <1>11, <1>12

(* The next digit. *)
LEMMA DigitDecoded ==
  ASSUME NEW o \in Seq(0..255), NEW d, Encoded(o, d), NEW k \in Nat, k < Len(d),
         NEW s \in Decoders, DecodedSoFar(o, d, s, k), k <= s.read, NEW e, e = DecodeStep(s, d[k + 1])
  PROVE  e \in Decoders /\ e.read = s.read + 1 /\ DecodedSoFar(o, d, e, k + 1)
<1>1. PICK c, n : c = d[k + 1] /\ n = Len(o)
  OBVIOUS
<1>2. c \in 0..63
  <2>1. k + 1 \in 1..Len(d) /\ d \in Seq(0..63)
    BY DEF Encoded
  <2> QED BY <1>1, <2>1, ElementOfSeq
<1>3. e \in Decoders /\ e.read = s.read + 1 /\ Decoded(s, c, e)
  <2>1. c \in -1..63 /\ c # -1
    BY <1>2
  <2> QED BY <1>1, <2>1, DecodeStepIs
<1>4. n \in Nat /\ s.read \in Nat
  BY <1>1 DEF Decoders
<1>5. s.phase = k % 4 /\ (k > 0 => s.dlast = d[k]) /\ s.out = SubSeq(o, 1, (3 * k) \div 4) /\ s.behind = TRUE
  <2>1. s.behind \in BOOLEAN
    BY DEF Decoders
  <2> QED BY <2>1 DEF DecodedSoFar
<1>6. (s.phase + 1) % 4 = (k + 1) % 4
  BY <1>5
<1>7. e.out = SubSeq(o, 1, (3 * (k + 1)) \div 4) /\ Len(e.out) <= s.read
  <2>1. CASE k % 4 = 0
    <3>1. (3 * (k + 1)) \div 4 = (3 * k) \div 4 /\ (3 * k) \div 4 <= k /\ (3 * k) \div 4 \in Nat
      <4>1. PICK q : q = k \div 4
        OBVIOUS
      <4>2. q \in Nat /\ k = 4 * q
        BY ONLY <2>1, <4>1, k \in Nat
      <4>3. 3 * k = 12 * q /\ 3 * (k + 1) = 12 * q + 3
        BY ONLY <4>2
      <4>4. (12 * q) \div 4 = 3 * q /\ (12 * q + 3) \div 4 = 3 * q
        BY ONLY <4>2
      <4> QED BY ONLY <4>2, <4>3, <4>4
    <3>2. e.out = s.out
      BY <1>3, <1>5, <2>1 DEF Decoded
    <3>3. (3 * k) \div 4 <= n
      <4>1. Len(d) = (4 * n + 2) \div 3
        BY <1>1 DEF Encoded
      <4> QED BY ONLY <1>4, <2>1, <4>1, k \in Nat, k < Len(d)
    <3>4. Len(e.out) = (3 * k) \div 4
      <4>1. (3 * k) \div 4 \in 0..Len(o)
        BY ONLY <1>1, <1>4, <3>1, <3>3
      <4>2. Len(SubSeq(o, 1, (3 * k) \div 4)) = (3 * k) \div 4
        BY ONLY <4>1, o \in Seq(0..255), CutInTwo
      <4> QED BY <1>5, <3>2, <4>2
    <3>5. e.out = SubSeq(o, 1, (3 * (k + 1)) \div 4)
      BY ONLY <1>5, <3>1, <3>2
    <3>6. k <= s.read
      OBVIOUS
    <3> QED BY ONLY <1>4, <3>1, <3>4, <3>5, <3>6, k \in Nat
  <2>2. CASE k % 4 # 0
    <3>1. PICK j : j = (3 * k) \div 4
      OBVIOUS
    <3>2. j < n /\ Digit(c, s.dlast, k % 4) = o[j + 1]
      BY <1>1, <1>5, <2>2, <3>1, ByteComesBack
    <3>3. (3 * (k + 1)) \div 4 = j + 1 /\ j \in Nat /\ j + 1 <= k
      BY ONLY <2>2, <3>1, k \in Nat
    <3>4. e.out = Append(SubSeq(o, 1, j), o[j + 1])
      BY <1>3, <1>5, <2>2, <3>1, <3>2 DEF Decoded
    <3>5. e.out = SubSeq(o, 1, j + 1)
      BY <1>1, <3>2, <3>3, <3>4, OneOctetMore
    <3>6. Len(e.out) = j + 1
      <4>1. j + 1 \in 0..Len(o)
        BY ONLY <1>1, <1>4, <3>2, <3>3
      <4> QED BY ONLY <3>5, <4>1, o \in Seq(0..255), CutInTwo
    <3> QED BY <1>4, <3>3, <3>5, <3>6
  <2> QED BY <2>1, <2>2
<1>8. e.behind
  BY <1>3, <1>5, <1>7 DEF Decoded
<1> QED BY <1>1, <1>3, <1>5, <1>6, <1>7, <1>8 DEF DecodedSoFar, Decoded

(* The place of the character that is no digit: behind them all when it has none;
   and the text with it there. *)
NoiseAt(d, at) == IF at = 0 \/ at > Len(d) THEN Len(d) + 1 ELSE at

NoiseIn(d, p, w) ==
  /\ p \in 1..(Len(d) + 1) /\ w \in Seq(-1..63) /\ Len(w) = Len(d) + 1 /\ w[p] = -1
  /\ \A i \in 1..(p - 1) : w[i] = d[i]
  /\ \A i \in (p + 1)..(Len(d) + 1) : w[i] = d[i - 1]

(* A text with one character more. *)
LEMMA NoisyIs ==
  ASSUME NEW d \in Seq(0..63), NEW at \in Nat, NEW w, w = Noisy(d, at), NEW p, p = NoiseAt(d, at)
  PROVE  NoiseIn(d, p, w)
<1>1. PICK m, a, b : m = Len(d) /\ a = SubSeq(d, 1, p - 1) /\ b = SubSeq(d, p, m)
  OBVIOUS
<1>2. m \in Nat /\ p \in 1..(m + 1)
  BY <1>1 DEF NoiseAt
<1>3. \A i \in 1..m : d[i] \in -1..63
  <2>1. ASSUME NEW i \in 1..Len(d) PROVE d[i] \in 0..63
    BY ONLY d \in Seq(0..63), i \in 1..Len(d), ElementOfSeq
  <2>2. \A c \in 0..63 : c \in -1..63
    OBVIOUS
  <2> QED BY <1>1, <2>1, <2>2
<1>4. d \in Seq(-1..63)
  <2>1. d = [i \in 1..m |-> d[i]]
    BY <1>1
  <2> QED BY ONLY <1>2, <1>3, <2>1
<1>5. a \in Seq(-1..63) /\ Len(a) = p - 1 /\ \A i \in 1..(p - 1) : a[i] = d[i]
  <2>1. PICK k : k = p - 1
    OBVIOUS
  <2>2. k \in Nat /\ k <= m
    BY ONLY <1>2, <2>1
  <2>3. \A i \in 1..k : d[i] \in -1..63
    BY ONLY <1>2, <1>3, <2>2
  <2>4. a = SubSeq(d, 1, k)
    BY <1>1, <2>1
  <2>5. /\ a \in Seq(-1..63) /\ Len(a) = (IF 1 <= k THEN k - 1 + 1 ELSE 0)
        /\ \A i \in 1..(k - 1 + 1) : a[i] = d[1 + i - 1]
    BY ONLY <2>2, <2>3, <2>4, SubSeqProperties
  <2> QED BY ONLY <2>1, <2>2, <2>5
<1>6. b \in Seq(-1..63) /\ Len(b) = m + 1 - p /\ \A i \in 1..(m + 1 - p) : b[i] = d[p + i - 1]
  <2>1. p \in Int /\ m \in Int /\ \A i \in p..m : d[i] \in -1..63
    BY ONLY <1>2, <1>3
  <2>2. /\ SubSeq(d, p, m) \in Seq(-1..63) /\ Len(SubSeq(d, p, m)) = (IF p <= m THEN m - p + 1 ELSE 0)
        /\ \A i \in 1..(m - p + 1) : SubSeq(d, p, m)[i] = d[p + i - 1]
    BY ONLY <2>1, SubSeqProperties
  <2>3. b = SubSeq(d, p, m)
    BY <1>1
  <2>4. b \in Seq(-1..63) /\ Len(b) = (IF p <= m THEN m - p + 1 ELSE 0) /\ \A i \in 1..(m - p + 1) : b[i] = d[p + i - 1]
    BY ONLY <2>2, <2>3
  <2> QED BY ONLY <1>2, <2>4
<1>7. <<-1>> \in Seq(-1..63) /\ Len(<<-1>>) = 1 /\ <<-1>>[1] = -1
  OBVIOUS
<1>8. w = a \o <<-1>> \o b
  <2>1. CASE at = 0 \/ at > m
    <3>1. w = d \o <<-1>> /\ p = m + 1
      BY <1>1, <2>1 DEF Noisy, NoiseAt
    <3>2. a = d
      <4>1. Len(a) = Len(d) /\ \A i \in 1..Len(d) : a[i] = d[i]
        BY <1>1, <1>2, <1>5, <3>1
      <4> QED BY ONLY <1>4, <1>5, <4>1, SeqEqual
    <3>3. b = <<>>
      BY ONLY <1>2, <1>6, <3>1, EmptySeq
    <3>4. a \o <<-1>> \in Seq(-1..63)
      BY ONLY <1>5, <1>7, ConcatProperties
    <3> QED BY ONLY <3>1, <3>2, <3>3, <3>4, ConcatEmptySeq
  <2>2. CASE ~(at = 0 \/ at > m)
    BY <1>1, <2>2 DEF Noisy, NoiseAt
  <2> QED BY <2>1, <2>2
<1>9. PICK c : c = a \o <<-1>>
  OBVIOUS
<1>10. /\ c \in Seq(-1..63) /\ Len(c) = Len(a) + 1
       /\ \A i \in 1..(Len(a) + 1) : c[i] = IF i <= Len(a) THEN a[i] ELSE <<-1>>[i - Len(a)]
  BY ONLY <1>5, <1>7, <1>9, ConcatProperties
<1>11. Len(c) = p /\ c[p] = -1 /\ \A i \in 1..(p - 1) : c[i] = d[i]
  BY ONLY <1>2, <1>5, <1>7, <1>10
<1>12. /\ w \in Seq(-1..63) /\ Len(w) = Len(c) + Len(b)
       /\ \A i \in 1..(Len(c) + Len(b)) : w[i] = IF i <= Len(c) THEN c[i] ELSE b[i - Len(c)]
  <2>1. w = c \o b /\ c \in Seq(-1..63) /\ b \in Seq(-1..63)
    BY ONLY <1>6, <1>8, <1>9, <1>10
  <2> QED BY ONLY <2>1, ConcatProperties
<1>13. Len(w) = m + 1 /\ w[p] = -1 /\ \A i \in 1..(p - 1) : w[i] = d[i]
  BY ONLY <1>2, <1>6, <1>11, <1>12
<1>14. ASSUME NEW i \in (p + 1)..(m + 1) PROVE w[i] = d[i - 1]
  <2>1. i \in 1..(Len(c) + Len(b)) /\ ~(i <= Len(c)) /\ i - Len(c) \in 1..(m + 1 - p) /\ p + (i - Len(c)) - 1 = i - 1
    BY ONLY <1>2, <1>6, <1>11, i \in (p + 1)..(m + 1)
  <2> QED BY ONLY <1>6, <1>12, <2>1
<1>15. m = Len(d)
  BY <1>1
<1>16. /\ p \in 1..(m + 1) /\ w \in Seq(-1..63) /\ Len(w) = m + 1 /\ w[p] = -1
       /\ \A i \in 1..(p - 1) : w[i] = d[i]
       /\ \A i \in (p + 1)..(m + 1) : w[i] = d[i - 1]
  BY ONLY <1>2, <1>12, <1>13, <1>14
<1> QED BY ONLY <1>15, <1>16 DEF NoiseIn

(* Decoding gives the bytes back, and never writes over what is not read. *)
LEMMA DecodedBack ==
  ASSUME NEW o \in Seq(0..255), NEW at \in Nat
  PROVE  str_b64decode(Noisy(Digits(o), at)).out = o /\ str_b64decode(Noisy(Digits(o), at)).behind
<1>1. PICK d, m, w, p : d = Digits(o) /\ m = Len(d) /\ w = Noisy(d, at) /\ p = NoiseAt(d, at)
  OBVIOUS
<1>2. Encoded(o, d) /\ d \in Seq(0..63) /\ m \in Nat /\ m = (4 * Len(o) + 2) \div 3
  <2>1. Encoded(o, d)
    BY <1>1, DigitsAre
  <2>2. d \in Seq(0..63) /\ Len(d) = (4 * Len(o) + 2) \div 3
    BY ONLY <2>1 DEF Encoded
  <2>3. Len(o) \in Nat
    OBVIOUS
  <2>4. (4 * Len(o) + 2) \div 3 \in Nat
    BY ONLY <2>3
  <2>5. m = Len(d)
    BY <1>1
  <2> QED BY ONLY <2>1, <2>2, <2>4, <2>5
<1>3. /\ p \in 1..(m + 1) /\ w \in Seq(-1..63) /\ Len(w) = m + 1 /\ w[p] = -1
      /\ \A i \in 1..(p - 1) : w[i] = d[i]
      /\ \A i \in (p + 1)..(m + 1) : w[i] = d[i - 1]
  <2>1. w = Noisy(d, at) /\ p = NoiseAt(d, at) /\ d \in Seq(0..63)
    BY <1>1, <1>2
  <2>2. NoiseIn(d, p, w)
    BY ONLY <2>1, at \in Nat, NoisyIs
  <2>3. m = Len(d)
    BY <1>1
  <2> QED BY ONLY <2>2, <2>3 DEF NoiseIn
<1>4. PICK g : /\ g \in [0..Len(w) -> Decoders] /\ g[0] = Decoder
               /\ \A i \in 1..Len(w) : g[i] = DecodeStep(g[i - 1], w[i])
               /\ str_b64decode(w) = g[Len(w)]
  BY ONLY <1>3, DecoderRuns
<1> DEFINE Seen(i) == IF i < p THEN i ELSE i - 1
           I == {i \in Nat : i <= m + 1 => g[i].read = i /\ DecodedSoFar(o, d, g[i], Seen(i))}
<1>5. 0 \in I
  <2>1. Seen(0) = 0
    BY <1>3
  <2>2. SubSeq(o, 1, (3 * 0) \div 4) = <<>>
    <3>1. (3 * 0) \div 4 = 0
      OBVIOUS
    <3>2. SubSeq(o, 1, 0) = <<>>
      BY SubSeqEmpty
    <3> QED BY <3>1, <3>2
  <2>3. DecodedSoFar(o, d, Decoder, 0) /\ Decoder.read = 0
    BY <2>2 DEF DecodedSoFar, Decoder
  <2> QED BY <1>4, <2>1, <2>3
<1>6. ASSUME NEW i \in Nat, i \in I PROVE i + 1 \in I
  <2> SUFFICES ASSUME i + 1 <= m + 1
               PROVE  g[i + 1].read = i + 1 /\ DecodedSoFar(o, d, g[i + 1], Seen(i + 1))
    OBVIOUS
  <2>1. PICK s, e, c, k : s = g[i] /\ e = g[i + 1] /\ c = w[i + 1] /\ k = Seen(i)
    OBVIOUS
  <2>2. s.read = i /\ DecodedSoFar(o, d, s, k)
    BY <1>2, <1>6, <2>1
  <2>3. i + 1 \in 1..Len(w) /\ i \in 0..Len(w) /\ (i + 1) - 1 = i
    BY ONLY <1>2, <1>3, i \in Nat, i + 1 <= m + 1
  <2>4. s \in Decoders /\ e = DecodeStep(s, c) /\ c \in -1..63
    <3>1. s \in Decoders
      BY ONLY <1>4, <2>1, <2>3
    <3>2. e = DecodeStep(s, c)
      BY ONLY <1>4, <2>1, <2>3
    <3>3. c \in -1..63
      BY ONLY <1>3, <2>1, <2>3, ElementOfSeq
    <3> QED BY <3>1, <3>2, <3>3
  <2>5. CASE i + 1 = p
    <3>1. k = i /\ Seen(i + 1) = i /\ c = -1
      BY <1>3, <2>1, <2>5
    <3>2. e.read = i + 1 /\ Passed(s, e)
      BY ONLY <2>2, <2>4, <3>1, DecodeStepIs
    <3>3. DecodedSoFar(o, d, e, k)
      BY <2>2, <3>2 DEF DecodedSoFar, Passed
    <3> QED BY <2>1, <3>1, <3>2, <3>3
  <2>6. CASE i + 1 # p
    <3>1. k \in Nat /\ k < m /\ k <= i /\ Seen(i + 1) = k + 1
      BY <1>2, <1>3, <2>1, <2>6
    <3>2. c = d[k + 1]
      <4>1. CASE i + 1 < p
        <5>1. k = i /\ i + 1 \in 1..(p - 1)
          BY <1>3, <2>1, <4>1
        <5> QED BY <1>3, <2>1, <5>1
      <4>2. CASE i + 1 > p
        <5>1. k = i - 1 /\ i + 1 \in (p + 1)..(m + 1)
          BY <1>2, <1>3, <2>1, <4>2
        <5>2. k + 1 = (i + 1) - 1
          BY ONLY <5>1, i \in Nat
        <5> QED BY <1>3, <2>1, <5>1, <5>2
      <4> QED BY <1>3, <2>6, <4>1, <4>2
    <3>3. e.read = s.read + 1 /\ DecodedSoFar(o, d, e, k + 1)
      <4>1. k < Len(d) /\ k <= s.read
        BY ONLY <1>1, <2>2, <3>1
      <4>2. e = DecodeStep(s, d[k + 1]) /\ s \in Decoders
        BY ONLY <2>4, <3>2
      <4> QED BY ONLY <1>2, <2>2, <3>1, <4>1, <4>2, DigitDecoded, o \in Seq(0..255)
    <3> QED BY <2>1, <2>2, <3>1, <3>3
  <2> QED BY <2>5, <2>6
<1>7. DecodedSoFar(o, d, g[m + 1], m)
  <2> HIDE DEF I
  <2>1. m + 1 \in I
    BY <1>2, <1>5, <1>6, CountingUp
  <2> USE DEF I
  <2>2. Seen(m + 1) = m
    BY <1>2, <1>3
  <2> QED BY <1>2, <2>1, <2>2
<1>8. (3 * m) \div 4 = Len(o)
  BY <1>2
<1>9. SubSeq(o, 1, Len(o)) = o
  OBVIOUS
<1> QED BY <1>1, <1>3, <1>4, <1>7, <1>8, <1>9 DEF DecodedSoFar

------------------------------------------------------------------------------
(* A spool of strings s, whose text is f. *)
Strings == Seq({"a", "b"})
SpoolOf(s, f) ==
  /\ s \in [nodes : Seq(Strings), len : Nat]
  /\ f \in Strings /\ FlattenSeq(s.nodes) = f /\ s.len = Len(f)

(* spool_add lengthens the text by the string. *)
LEMMA AddedIs ==
  ASSUME NEW s, NEW f, SpoolOf(s, f), NEW str \in Strings
  PROVE  SpoolOf(Added(s, str), f \o str)
<1>1. /\ s \in [nodes : Seq(Strings), len : Nat] /\ f \in Strings
      /\ FlattenSeq(s.nodes) = f /\ s.len = Len(f)
  BY DEF SpoolOf
<1>2. f \o str \in Strings /\ Len(f \o str) = Len(f) + Len(str)
  BY <1>1, ConcatProperties DEF Strings
<1>3. CASE str = <<>>
  <2>1. f \o str = f
    BY <1>1, <1>3, ConcatEmptySeq DEF Strings
  <2> QED BY <1>3, <2>1 DEF Added
<1>4. CASE str # <<>>
  <2>1. PICK e : e = Added(s, str)
    OBVIOUS
  <2>2. e = [nodes |-> Append(s.nodes, str), len |-> s.len + Len(str)]
    BY <1>4, <2>1 DEF Added
  <2>3. s.nodes \in Seq(Strings) /\ s.len \in Nat /\ Len(str) \in Nat
    BY <1>1 DEF Strings
  <2>4. FlattenSeq(Append(s.nodes, str)) = f \o str
    BY <1>1, <2>3, FlattenSeqAppend DEF Strings
  <2>5. Append(s.nodes, str) \in Seq(Strings) /\ s.len + Len(str) \in Nat
    BY <2>3
  <2>6. e \in [nodes : Seq(Strings), len : Nat] /\ e.nodes = Append(s.nodes, str) /\ e.len = s.len + Len(str)
    BY ONLY <2>2, <2>5
  <2> QED BY <1>1, <1>2, <2>1, <2>4, <2>6 DEF SpoolOf
<1> QED BY <1>3, <1>4

(* What TextSpec keeps: texts of letters, bytes, and the spool of what was added. *)
TextInv ==
  /\ text \in Seq(Letters) /\ octets \in Seq(0..255) /\ noise \in Nat
  /\ spooled \in Seq(Strings) /\ SpoolOf(pieces, FlattenSeq(spooled))

(* Nothing is written at the start. *)
LEMMA TextStarts == ASSUME TextInit PROVE TextInv
<1>1. FlattenSeq(<<>>) = <<>> /\ Len(<<>>) = 0 /\ <<>> \in Strings /\ <<>> \in Seq(Strings)
  BY FlattenNothing DEF Strings
<1>2. pieces \in [nodes : Seq(Strings), len : Nat] /\ pieces.nodes = <<>> /\ pieces.len = 0
  BY <1>1 DEF TextInit
<1>3. SpoolOf(pieces, FlattenSeq(spooled))
  BY <1>1, <1>2 DEF TextInit, SpoolOf
<1> QED BY <1>1, <1>3 DEF TextInit, TextInv

(* Every call keeps that. *)
LEMMA TextStep == ASSUME TextAssumption, TextInv, [TextNext]_textVars PROVE TextInv'
<1>1. CASE UNCHANGED textVars
  BY <1>1 DEF textVars, TextInv
<1>2. ASSUME NEW c \in Letters, Type(c) PROVE TextInv'
  <2>1. text' \in Seq(Letters) /\ UNCHANGED <<octets, noise, pieces, spooled>>
    BY <1>2 DEF Type, TextInv
  <2> QED BY <2>1 DEF TextInv
<1>3. ASSUME NEW o \in Octets, Encode(o) PROVE TextInv'
  <2>1. octets \in Seq(0..255) /\ o \in 0..255 /\ octets' = Append(octets, o)
    BY <1>3 DEF Encode, TextInv, TextAssumption
  <2>2. octets' \in Seq(0..255)
    BY ONLY <2>1
  <2>3. noise' \in Nat /\ UNCHANGED <<text, pieces, spooled>>
    <3>1. Len(octets) + 2 \in Nat
      BY <2>1
    <3> QED BY <1>3, <3>1 DEF Encode
  <2> QED BY <2>2, <2>3 DEF TextInv
<1>4. ASSUME NEW a \in Strings, spool_add(a) PROVE TextInv'
  <2>1. pieces' = Added(pieces, a) /\ spooled' = Append(spooled, a) /\ UNCHANGED <<text, octets, noise>>
    BY <1>4 DEF spool_add
  <2>2. spooled' \in Seq(Strings)
    BY <2>1 DEF TextInv
  <2>3. FlattenSeq(spooled') = FlattenSeq(spooled) \o a
    BY <2>1, FlattenSeqAppend DEF TextInv, Strings
  <2>4. SpoolOf(Added(pieces, a), FlattenSeq(spooled) \o a)
    BY AddedIs DEF TextInv
  <2> QED BY <2>1, <2>2, <2>3, <2>4 DEF TextInv
<1>5. ASSUME NEW a \in Strings, NEW b \in Strings, spooler(a, b) PROVE TextInv'
  <2>1. pieces' = Added(Added(pieces, a), b) /\ spooled' = spooled \o <<a, b>> /\ UNCHANGED <<text, octets, noise>>
    BY <1>5 DEF spooler
  <2>2. PICK s, t, f : s = spooled /\ t = Append(s, a) /\ f = FlattenSeq(s)
    OBVIOUS
  <2>3. s \in Seq(Strings) /\ t \in Seq(Strings) /\ SpoolOf(pieces, f)
    BY <2>2 DEF TextInv
  <2>4. spooled' = Append(t, b)
    BY ONLY <2>1, <2>2, <2>3, a \in Strings, b \in Strings
  <2>5. FlattenSeq(t) = f \o a /\ FlattenSeq(Append(t, b)) = FlattenSeq(t) \o b
    BY ONLY <2>2, <2>3, FlattenSeqAppend, a \in Strings, b \in Strings DEF Strings
  <2>6. SpoolOf(Added(pieces, a), f \o a)
    BY ONLY <2>3, AddedIs, a \in Strings
  <2>7. SpoolOf(Added(Added(pieces, a), b), (f \o a) \o b)
    BY ONLY <2>6, AddedIs, b \in Strings
  <2>8. spooled' \in Seq(Strings)
    BY ONLY <2>3, <2>4, b \in Strings
  <2>9. SpoolOf(pieces', FlattenSeq(spooled'))
    BY ONLY <2>1, <2>4, <2>5, <2>7
  <2> QED BY <2>1, <2>8, <2>9 DEF TextInv
<1>6. \A a \in {<<>>, <<"a">>, <<"a", "b">>} : a \in Strings
  <2>1. <<>> \in Strings
    BY DEF Strings
  <2>2. <<"a">> \in Strings
    BY DEF Strings
  <2>3. <<"a", "b">> \in Strings
    BY DEF Strings
  <2> QED BY <2>1, <2>2, <2>3
<1> QED BY <1>1, <1>2, <1>3, <1>4, <1>5, <1>6 DEF TextNext

(* What follows for each state. *)
LEMMA TextStateOK == ASSUME TextAssumption, TextInv PROVE TextsConverted
<1>1. EscapeRoundTrip
  BY EscapedComesBack DEF EscapeRoundTrip, TextInv
<1>2. EscapeFits
  BY EscapedFits DEF EscapeFits, TextInv
<1>3. DecodesInPlace
  BY DecodedBack DEF DecodesInPlace, TextInv
<1>4. SpoolIsConcat
  BY DEF SpoolIsConcat, TextInv, SpoolOf, spool_print
<1> QED BY <1>1, <1>2, <1>3, <1>4 DEF TextsConverted

(* A text of any length comes back from strescape and base 64 as it was, each
   within the memory that was counted for it, and base 64 also from between
   seven-bit characters that are no digits; a spool prints what was added. *)
THEOREM TextsComeBack == TextSpec => []TextsConverted
<1>1. TextInit => TextInv
  BY TextStarts
<1>2. TextInv /\ [TextNext]_textVars => TextInv'
  BY TextStep, TextAssumption
<1>3. TextInv => TextsConverted
  BY TextStateOK, TextAssumption
<1> QED BY <1>1, <1>2, <1>3, PTL DEF TextSpec

------------------------------------------------------------------------------
(* XmlFile: a document is read in buffers and parsed as it is read.         *)
Marks == {"<", ">", "t"}
Depths == Nat \cup {-1, -2}

(* The level after every mark of a piece is that of what XML_Parse does with
   one after another. *)
NestRun(level, piece, g) ==
  /\ g \in [0..Len(piece) -> Depths] /\ g[0] = level
  /\ \A i \in 1..Len(piece) : g[i] = Nest(g[i - 1], piece[i])
  /\ Nested(level, piece) = g[Len(piece)]

(* A mark leads from a level to one. *)
LEMMA NestIsDepth == ASSUME NEW d \in Depths, NEW t PROVE Nest(d, t) \in Depths /\ Nest(-2, t) = -2
BY DEF Nest, Depths

(* There are such levels for every piece, and the recursive function of the
   model gives them. *)
LEMMA NestRuns ==
  ASSUME NEW level \in Depths, NEW piece \in Seq(Marks)
  PROVE  \E g : NestRun(level, piece, g)
<1>1. PICK n, step : n = Len(piece) /\ step = [x \in (1..n) \X Depths |-> Nest(x[2], piece[x[1]])]
  OBVIOUS
<1>2. n \in Nat
  BY <1>1
<1>3. step \in [(1..n) \X Depths -> Depths]
  <2>1. ASSUME NEW x \in (1..n) \X Depths PROVE Nest(x[2], piece[x[1]]) \in Depths
    BY NestIsDepth
  <2> QED BY <1>1, <2>1
<1>4. PICK g : Stepped(n, Depths, level, step, g)
  BY ONLY level \in Depths, <1>2, <1>3, StepsExist
<1>5. g \in [0..n -> Depths] /\ g[0] = level /\ \A i \in 1..n : g[i] = step[<<i, g[i - 1]>>]
  BY <1>4 DEF Stepped
<1>6. ASSUME NEW i \in 1..n PROVE g[i] = Nest(g[i - 1], piece[i])
  <2>1. <<i, g[i - 1]>> \in (1..n) \X Depths
    BY <1>2, <1>5
  <2> QED BY <1>1, <1>5, <2>1
<1>7. ASSUME NEW i \in 0..n PROVE g[i] = IF i = 0 THEN level ELSE Nest(g[i - 1], piece[i])
  BY <1>2, <1>5, <1>6
<1> DEFINE Rule(h) == h = [i \in 0..n |-> IF i = 0 THEN level ELSE Nest(h[i - 1], piece[i])]
<1>8. Rule(g)
  BY <1>5, <1>7
<1>9. Nested(level, piece) = (CHOOSE h : Rule(h))[n]
  BY <1>1 DEF Nested
<1>10. PICK h : h = (CHOOSE k : Rule(k))
  OBVIOUS
<1> HIDE DEF Rule
<1>11. Rule(h)
  BY <1>8, <1>10
<1> USE DEF Rule
<1>12. h[0] = level /\ \A i \in 1..n : h[i] = Nest(h[i - 1], piece[i])
  BY <1>2, <1>11
<1> HIDE DEF Rule
<1> DEFINE I == {i \in Nat : i <= n => h[i] = g[i]}
<1>13. 0 \in I
  BY <1>5, <1>12
<1>14. ASSUME NEW i \in Nat, i \in I PROVE i + 1 \in I
  <2> SUFFICES ASSUME i + 1 <= n PROVE h[i + 1] = g[i + 1]
    OBVIOUS
  <2>1. i + 1 \in 1..n /\ (i + 1) - 1 = i /\ i <= n
    BY <1>2
  <2>2. h[i] = g[i]
    BY <1>14, <2>1
  <2>3. h[i + 1] = Nest(h[(i + 1) - 1], piece[i + 1])
    BY ONLY <1>12, <2>1
  <2>4. g[i + 1] = Nest(g[(i + 1) - 1], piece[i + 1])
    BY ONLY <1>6, <2>1
  <2> QED BY ONLY <2>1, <2>2, <2>3, <2>4
<1> HIDE DEF I
<1>15. Nat \subseteq I
  BY ONLY <1>13, <1>14, CountingUp
<1> USE DEF I
<1>16. h[n] = g[n]
  BY <1>2, <1>15
<1>17. Nested(level, piece) = g[n]
  BY ONLY <1>9, <1>10, <1>16
<1> QED BY <1>1, <1>5, <1>6, <1>17 DEF NestRun

(* A piece leads from a level to one, from an error to an error, and nothing
   changes nothing. *)
LEMMA NestedType ==
  ASSUME NEW level \in Depths, NEW piece \in Seq(Marks)
  PROVE  /\ Nested(level, piece) \in Depths
         /\ level = -2 => Nested(level, piece) = -2
         /\ Len(piece) = 0 => Nested(level, piece) = level
<1>1. PICK g : NestRun(level, piece, g)
  BY NestRuns
<1>2. Len(piece) \in Nat
  OBVIOUS
<1>3. Nested(level, piece) \in Depths /\ (Len(piece) = 0 => Nested(level, piece) = level)
  BY <1>1, <1>2 DEF NestRun
<1>4. ASSUME level = -2 PROVE Nested(level, piece) = -2
  <2> DEFINE I == {i \in Nat : i <= Len(piece) => g[i] = -2}
  <2>1. 0 \in I
    BY <1>1, <1>4 DEF NestRun
  <2>2. ASSUME NEW i \in Nat, i \in I PROVE i + 1 \in I
    <3> SUFFICES ASSUME i + 1 <= Len(piece) PROVE g[i + 1] = -2
      OBVIOUS
    <3>1. i + 1 \in 1..Len(piece) /\ (i + 1) - 1 = i /\ i <= Len(piece)
      BY <1>2
    <3>2. g[i] = -2
      BY <2>2, <3>1
    <3>3. g[i + 1] = Nest(g[(i + 1) - 1], piece[i + 1])
      BY ONLY <1>1, <3>1 DEF NestRun
    <3> QED BY <3>1, <3>2, <3>3 DEF Nest
  <2> HIDE DEF I
  <2>3. Nat \subseteq I
    BY ONLY <2>1, <2>2, CountingUp
  <2> USE DEF I
  <2> QED BY <1>1, <1>2, <2>3 DEF NestRun
<1> QED BY <1>3, <1>4

(* Two pieces, one after the other, lead where the whole does. *)
LEMMA NestedJoins ==
  ASSUME NEW level \in Depths, NEW a \in Seq(Marks), NEW b \in Seq(Marks)
  PROVE  Nested(level, a \o b) = Nested(Nested(level, a), b)
<1>1. PICK n, m, c : n = Len(a) /\ m = Len(b) /\ c = a \o b
  OBVIOUS
<1>2. n \in Nat /\ m \in Nat
  BY <1>1
<1>3. /\ c \in Seq(Marks) /\ Len(c) = n + m
      /\ \A i \in 1..n : c[i] = a[i]
      /\ \A i \in 1..m : c[n + i] = b[i]
  <2>1. c \in Seq(Marks) /\ Len(c) = n + m /\ \A i \in 1..(n + m) : c[i] = IF i <= n THEN a[i] ELSE b[i - n]
    BY ONLY a \in Seq(Marks), b \in Seq(Marks), <1>1, ConcatProperties
  <2>2. \A i \in 1..m : n + i \in 1..(n + m) /\ ~ (n + i <= n) /\ (n + i) - n = i
    BY <1>2
  <2>3. \A i \in 1..n : i \in 1..(n + m) /\ i <= n
    BY <1>2
  <2> QED BY <2>1, <2>2, <2>3
<1>4. PICK f : NestRun(level, a, f)
  BY NestRuns
<1>5. PICK mid : mid = Nested(level, a)
  OBVIOUS
<1>6. mid \in Depths
  BY <1>5, NestedType
<1>7. PICK g : NestRun(mid, b, g)
  BY <1>6, NestRuns
<1>8. PICK h : NestRun(level, c, h)
  BY <1>3, NestRuns
<1> DEFINE I == {i \in Nat : i <= n => h[i] = f[i]}
           J == {i \in Nat : i <= m => h[n + i] = g[i]}
<1>9. 0 \in I
  BY <1>4, <1>8 DEF NestRun
<1>10. ASSUME NEW i \in Nat, i \in I PROVE i + 1 \in I
  <2> SUFFICES ASSUME i + 1 <= n PROVE h[i + 1] = f[i + 1]
    OBVIOUS
  <2>1. i + 1 \in 1..n /\ i + 1 \in 1..(n + m) /\ (i + 1) - 1 = i /\ i <= n
    BY <1>2
  <2>2. h[i] = f[i]
    BY <1>10, <2>1
  <2>3. h[i + 1] = Nest(h[(i + 1) - 1], c[i + 1])
    BY ONLY <1>3, <1>8, <2>1 DEF NestRun
  <2>4. f[i + 1] = Nest(f[(i + 1) - 1], a[i + 1])
    BY ONLY <1>1, <1>4, <2>1 DEF NestRun
  <2>5. c[i + 1] = a[i + 1]
    BY ONLY <1>3, <2>1
  <2> QED BY ONLY <2>1, <2>2, <2>3, <2>4, <2>5
<1>11. Nat \subseteq I
  <2> HIDE DEF I
  <2> QED BY ONLY <1>9, <1>10, CountingUp
<1>12. h[n] = mid
  BY <1>1, <1>2, <1>4, <1>5, <1>11 DEF NestRun
<1> HIDE DEF I
<1>13. 0 \in J
  BY <1>2, <1>7, <1>12 DEF NestRun
<1>14. ASSUME NEW i \in Nat, i \in J PROVE i + 1 \in J
  <2> SUFFICES ASSUME i + 1 <= m PROVE h[n + (i + 1)] = g[i + 1]
    OBVIOUS
  <2>1. /\ i + 1 \in 1..m /\ n + (i + 1) \in 1..(n + m) /\ (n + (i + 1)) - 1 = n + i /\ (i + 1) - 1 = i /\ i <= m
    BY <1>2
  <2>2. h[n + i] = g[i]
    BY <1>14, <2>1
  <2>3. h[n + (i + 1)] = Nest(h[(n + (i + 1)) - 1], c[n + (i + 1)])
    BY ONLY <1>3, <1>8, <2>1 DEF NestRun
  <2>4. g[i + 1] = Nest(g[(i + 1) - 1], b[i + 1])
    BY ONLY <1>1, <1>7, <2>1 DEF NestRun
  <2>5. c[n + (i + 1)] = b[i + 1]
    BY ONLY <1>3, <2>1
  <2> QED BY ONLY <2>1, <2>2, <2>3, <2>4, <2>5
<1>15. Nat \subseteq J
  <2> HIDE DEF J
  <2> QED BY ONLY <1>13, <1>14, CountingUp
<1>16. h[n + m] = g[m]
  BY <1>2, <1>15
<1> QED BY <1>1, <1>3, <1>5, <1>7, <1>8, <1>16 DEF NestRun

(* What has been read of a document, a buffer, and both. *)
BufferOf(at, buf, level, m, upTo) ==
  /\ onDisk \in Seq(Marks) /\ at \in 0..Len(onDisk) /\ buf = Read(at)
  /\ level = Nested(0, SubSeq(onDisk, 1, at)) /\ m = at + Len(buf) /\ upTo = SubSeq(onDisk, 1, m)
BufferJoined(at, buf, level, m, upTo) ==
  /\ buf \in Seq(Marks) /\ Len(buf) \in Nat /\ m \in 0..Len(onDisk)
  /\ SubSeq(onDisk, 1, at) \o buf = upTo
  /\ Nested(level, buf) = Nested(0, upTo) /\ Nested(0, upTo) \in Depths
  /\ Nested(level, buf) = -2 => Nested(0, onDisk) = -2
  /\ Len(buf) < Bufsiz => m = Len(onDisk) /\ upTo = onDisk

(* Reading it joins it to what was read, and the level goes along. *)
LEMMA BufferRead ==
  ASSUME NEW at, NEW buf, NEW level, NEW m, NEW upTo, BufferOf(at, buf, level, m, upTo)
  PROVE  BufferJoined(at, buf, level, m, upTo)
<1> USE XmlFileAssumption
<1>0. /\ onDisk \in Seq(Marks) /\ at \in 0..Len(onDisk) /\ buf = Read(at)
      /\ level = Nested(0, SubSeq(onDisk, 1, at)) /\ m = at + Len(buf) /\ upTo = SubSeq(onDisk, 1, m)
  BY DEF BufferOf
<1>1. PICK n, k, pre : /\ n = Len(onDisk) /\ pre = SubSeq(onDisk, 1, at)
                       /\ k = IF at + Bufsiz < n THEN at + Bufsiz ELSE n
  OBVIOUS
<1> USE <1>0
<1>2. n \in Nat /\ at \in Nat /\ Bufsiz \in Nat \ {0} /\ at <= n /\ k \in 0..n /\ at <= k
  BY <1>1 DEF XmlFileAssumption
<1>3. buf = SubSeq(onDisk, at + 1, k)
  BY <1>1 DEF Read
<1>4. buf \in Seq(Marks) /\ Len(buf) = k - at
  BY <1>1, <1>2, <1>3
<1>5. m = k /\ m \in 0..n
  BY <1>2, <1>4
<1>6. pre \in Seq(Marks) /\ Len(pre) = at /\ upTo \in Seq(Marks) /\ Len(upTo) = m
  BY <1>1, <1>2, <1>5, CutInTwo
<1>7. pre \o buf = upTo
  <2>1. /\ pre \o buf \in Seq(Marks) /\ Len(pre \o buf) = Len(pre) + Len(buf)
        /\ \A i \in 1..(Len(pre) + Len(buf)) : (pre \o buf)[i] = IF i <= Len(pre) THEN pre[i] ELSE buf[i - Len(pre)]
    BY ONLY <1>4, <1>6, ConcatProperties
  <2>2. Len(pre \o buf) = Len(upTo)
    BY <1>2, <1>4, <1>5, <1>6, <2>1
  <2>3. ASSUME NEW i \in 1..Len(upTo) PROVE (pre \o buf)[i] = upTo[i]
    <3>1. upTo[i] = onDisk[i]
      <4>1. i \in 1..m /\ m \in Nat /\ m <= Len(onDisk)
        BY <1>1, <1>2, <1>5, <1>6
      <4>2. onDisk \in Seq(Marks) /\ upTo = SubSeq(onDisk, 1, m)
        BY <1>0
      <4> QED BY ONLY <4>1, <4>2
    <3>2. CASE i <= at
      <4>1. pre[i] = onDisk[i]
        BY <1>1, <1>2, <1>6, <3>2
      <4> QED BY <1>2, <1>6, <2>1, <2>2, <3>1, <3>2, <4>1
    <3>3. CASE ~ (i <= at)
      <4>1. i - at \in 1..Len(buf) /\ (at + 1) + (i - at) - 1 = i
        BY <1>2, <1>4, <1>5, <1>6, <3>3
      <4>2. buf[i - at] = onDisk[i]
        BY <1>1, <1>2, <1>3, <4>1
      <4>3. (pre \o buf)[i] = buf[i - at]
        BY <1>6, <2>1, <2>2, <3>3
      <4> QED BY <3>1, <4>2, <4>3
    <3> QED BY <3>2, <3>3
  <2> QED BY ONLY <1>6, <2>1, <2>2, <2>3, SeqEqual
<1>8. 0 \in Depths /\ level \in Depths
  BY <1>1, <1>6, NestedType DEF Depths
<1>9. Nested(level, buf) = Nested(0, upTo)
  <2>1. Nested(0, pre \o buf) = Nested(Nested(0, pre), buf)
    BY ONLY <1>4, <1>6, <1>8, NestedJoins
  <2>2. level = Nested(0, pre)
    BY ONLY <1>0, <1>1
  <2> QED BY ONLY <1>7, <2>1, <2>2
<1>10. Nested(0, upTo) \in Depths
  BY ONLY <1>6, <1>8, NestedType
<1>11. ASSUME Nested(0, upTo) = -2 PROVE Nested(0, onDisk) = -2
  <2>1. PICK rest : rest = SubSeq(onDisk, m + 1, Len(onDisk))
    OBVIOUS
  <2>2. rest \in Seq(Marks) /\ upTo \o rest = onDisk
    BY ONLY <1>0, <1>1, <1>5, <2>1, CutInTwo
  <2>3. Nested(0, onDisk) = Nested(Nested(0, upTo), rest)
    BY ONLY <1>6, <1>8, <2>2, NestedJoins
  <2>4. -2 \in Depths
    BY DEF Depths
  <2> QED BY ONLY <1>11, <2>2, <2>3, <2>4, NestedType
<1>12. ASSUME Len(buf) < Bufsiz PROVE m = Len(onDisk) /\ upTo = onDisk
  <2>1. m = n
    BY <1>1, <1>2, <1>4, <1>5, <1>12
  <2> QED BY <1>1, <1>2, <2>1, SubSeqFull
<1> QED BY <1>1, <1>4, <1>5, <1>2, <1>7, <1>9, <1>10, <1>11, <1>12 DEF BufferJoined

(* What the program is at, with a file. *)
Doing == {"none", "file", "borked", "built", "write", "rename"}
Tasks == [name : Doing, at : Nat, level : Depths, built : Seq(Marks), rounds : Nat]

(* What has been read is parsed, and built; nothing is left of a file that
   was read to its end, when that is asked again. *)
ReadingInv ==
  task.name \in {"file", "borked"} =>
    /\ onDisk \in Seq(Marks) /\ task.at \in 0..Len(onDisk)
    /\ task.level # -2 /\ task.level = Nested(0, SubSeq(onDisk, 1, task.at))
    /\ task.name = "file" => task.built = SubSeq(onDisk, 1, task.at) /\ task.rounds = 0
    /\ task.rounds # 0 => task.at = Len(onDisk) /\ task.level = -1

(* The file changes in the rename only, which comes of what was to be saved. *)
SavingInv ==
  /\ onDisk \in Seq(Marks) \cup {NoFile} /\ wish \in Seq(Marks)
  /\ result = "none" => onDisk = before
  /\ task.name \in {"file", "borked", "write", "rename"} => result = "none"
  /\ task.name = "rename" => tmp \in Seq(Marks) /\ (short \/ tmp = wish)

(* The whole invariant. *)
FileInv ==
  /\ task \in Tasks /\ ReadingInv /\ SavingInv
  /\ TreeIsDocument /\ BorkedHangs /\ FileOldOrNew

(* A token is no document, so a file that exists holds one. *)
LEMMA NoFileIsNone == NoFile \notin Seq(Marks)
BY DEF NoFile, Marks

(* Nothing is being done at first. *)
LEMMA NoTaskIs ==
  /\ NoTask \in Tasks /\ NoTask.name = "none" /\ NoTask.at = 0 /\ NoTask.level = 0 /\ NoTask.built = <<>> /\ NoTask.rounds = 0
BY EmptySeq DEF NoTask, Tasks, Doing, Depths

(* A task that is named. *)
LEMMA NamedTask ==
  ASSUME NEW name \in Doing, NEW w, w = [NoTask EXCEPT !.name = name]
  PROVE  w \in Tasks /\ w.name = name /\ w.at = 0 /\ w.level = 0 /\ w.built = <<>> /\ w.rounds = 0
BY NoTaskIs, EmptySeq DEF NoTask, Tasks

(* The invariant holds of what is on the disk at first. *)
LEMMA FileInvInit == ASSUME XmlFileAssumption, FileInit PROVE FileInv
<1>1. PICK f \in Documents \cup {NoFile} : FileWith(f)
  BY DEF FileInit
<1>2. onDisk \in Seq(Marks) \cup {NoFile}
  BY <1>1 DEF XmlFileAssumption, FileWith, Marks
<1>3. ReadingInv /\ SavingInv
  BY <1>1, <1>2, NoTaskIs, EmptySeq DEF FileWith, ReadingInv, SavingInv
<1>4. TreeIsDocument /\ BorkedHangs /\ FileOldOrNew
  BY <1>1, NoTaskIs DEF FileWith, TreeIsDocument, BorkedHangs, FileOldOrNew
<1> QED BY <1>1, <1>3, <1>4, NoTaskIs DEF FileInv, FileWith

(* Beginning to read: nothing has been read. *)
LEMMA BeginKeeps ==
  ASSUME FileInv, NEW name \in {"file", "borked"}, Begin(name) PROVE FileInv'
<1>1. /\ task = NoTask /\ result = "none" /\ wish = <<>>
      /\ onDisk' = onDisk /\ tmp' = tmp /\ before' = before /\ wish' = wish /\ short' = short
  BY DEF Begin
<1>2. onDisk \in Seq(Marks) \cup {NoFile} /\ onDisk = before
  BY <1>1 DEF FileInv, SavingInv
<1>3. CASE Exists(onDisk)
  <2>1. task' = [NoTask EXCEPT !.name = name] /\ result' = result
    BY <1>3 DEF Begin
  <2>2. /\ task' \in Tasks /\ task'.name = name /\ task'.at = 0 /\ task'.level = 0 /\ task'.built = <<>> /\ task'.rounds = 0
    BY <2>1, NamedTask DEF Doing
  <2>3. onDisk \in Seq(Marks)
    BY <1>2, <1>3 DEF Exists
  <2>4. SubSeq(onDisk, 1, 0) = <<>> /\ Nested(0, <<>>) = 0
    <3>1. 0 \in Depths /\ <<>> \in Seq(Marks) /\ Len(<<>>) = 0
      BY EmptySeq DEF Depths
    <3>2. Nested(0, <<>>) = 0
      BY ONLY <3>1, NestedType
    <3>3. SubSeq(onDisk, 1, 0) = <<>>
      BY SubSeqEmpty
    <3> QED BY <3>2, <3>3
  <2>5. ReadingInv'
    <3>1. 0 \in 0..Len(onDisk) /\ 0 # -2
      BY <2>3
    <3> QED BY <1>1, <2>2, <2>3, <2>4, <3>1 DEF ReadingInv
  <2>6. SavingInv'
    BY <1>1, <2>1, <2>2 DEF FileInv, SavingInv
  <2>7. TreeIsDocument' /\ BorkedHangs' /\ FileOldOrNew'
    BY <1>1, <1>2, <2>1, <2>2 DEF TreeIsDocument, BorkedHangs, FileOldOrNew
  <2> QED BY <2>2, <2>5, <2>6, <2>7 DEF FileInv
<1>4. CASE ~ Exists(onDisk)
  <2>1. task' = task /\ result' \in {"NULL", "unable to open file"}
    BY <1>4 DEF Begin
  <2>2. task'.name = "none"
    BY <1>1, <2>1, NoTaskIs
  <2>3. ReadingInv' /\ SavingInv'
    BY <1>1, <2>1, <2>2 DEF FileInv, ReadingInv, SavingInv
  <2>4. TreeIsDocument' /\ BorkedHangs' /\ FileOldOrNew'
    BY <1>1, <1>2, <1>4, <2>1, <2>2 DEF TreeIsDocument, BorkedHangs, FileOldOrNew, Exists
  <2> QED BY <1>1, <2>1, <2>3, <2>4 DEF FileInv
<1> QED BY <1>3, <1>4

(* What a turn of either loop knows of the buffer it has read. *)
TurnRead(buf, m, end) ==
  /\ buf = Read(task.at) /\ m = task.at + Len(buf)
  /\ end = XML_Parse(task.level, buf, Len(buf) < Bufsiz) /\ end \in Depths
  /\ buf \in Seq(Marks) /\ Len(buf) \in Nat /\ m \in 0..Len(onDisk)
  /\ SubSeq(onDisk, 1, task.at) \o buf = SubSeq(onDisk, 1, m)
  /\ end = -2 => ~ Sound(onDisk)
  /\ end # -2 => end = Nested(0, SubSeq(onDisk, 1, m))
  /\ end # -2 /\ Len(buf) < Bufsiz => m = Len(onDisk) /\ SubSeq(onDisk, 1, m) = onDisk /\ end = -1 /\ Sound(onDisk)

(* ... and there is such a buffer at every turn. *)
LEMMA TurnReads ==
  ASSUME XmlFileAssumption, FileInv, task.name \in {"file", "borked"}
  PROVE  \E buf, m, end : TurnRead(buf, m, end)
<1>1. PICK buf, m, end : /\ buf = Read(task.at) /\ m = task.at + Len(buf)
                         /\ end = XML_Parse(task.level, buf, Len(buf) < Bufsiz)
  OBVIOUS
<1>2. PICK at, level, upTo : at = task.at /\ level = task.level /\ upTo = SubSeq(onDisk, 1, m)
  OBVIOUS
<1>a. buf = Read(at) /\ m = at + Len(buf) /\ upTo = SubSeq(onDisk, 1, m)
  BY <1>1, <1>2
<1>3. onDisk \in Seq(Marks) /\ at \in 0..Len(onDisk) /\ level = Nested(0, SubSeq(onDisk, 1, at))
  BY <1>2 DEF FileInv, ReadingInv
<1>b. BufferOf(at, buf, level, m, upTo)
  BY ONLY <1>a, <1>3 DEF BufferOf
<1>c. BufferJoined(at, buf, level, m, upTo)
  BY ONLY <1>b, BufferRead
<1>4. /\ buf \in Seq(Marks) /\ Len(buf) \in Nat /\ m \in 0..Len(onDisk)
      /\ SubSeq(onDisk, 1, at) \o buf = upTo
      /\ Nested(level, buf) = Nested(0, upTo) /\ Nested(0, upTo) \in Depths
      /\ Nested(level, buf) = -2 => Nested(0, onDisk) = -2
      /\ Len(buf) < Bufsiz => m = Len(onDisk) /\ upTo = onDisk
  BY ONLY <1>c DEF BufferJoined
<1>5. end = IF Len(buf) < Bufsiz /\ Nested(level, buf) # -1 THEN -2 ELSE Nested(level, buf)
  BY <1>1, <1>2 DEF XML_Parse
<1>6. end \in Depths
  BY <1>4, <1>5 DEF Depths
<1>7. end = -2 => ~ Sound(onDisk)
  BY <1>4, <1>5 DEF Sound
<1>8. end # -2 => end = Nested(0, upTo)
  BY <1>4, <1>5
<1>9. end # -2 /\ Len(buf) < Bufsiz => m = Len(onDisk) /\ upTo = onDisk /\ end = -1 /\ Sound(onDisk)
  BY <1>4, <1>5 DEF Sound
<1> QED BY <1>1, <1>2, <1>4, <1>6, <1>7, <1>8, <1>9 DEF TurnRead
(* A turn of xmlnode_file, which builds what it has read. *)
LEMMA FileTurnKeeps ==
  ASSUME XmlFileAssumption, FileInv, FileTurn PROVE FileInv'
<1>1. task.name = "file" /\ result = "none" /\ task \in Tasks
  BY DEF FileTurn, FileInv, SavingInv
<1>2. PICK buf, m, end : TurnRead(buf, m, end)
  BY <1>1, TurnReads
<1>3. PICK done, next : /\ done = (Len(buf) < Bufsiz)
                        /\ next = [task EXCEPT !.at = task.at + Len(buf), !.level = end, !.built = task.built \o buf]
  OBVIOUS
<1>4. /\ onDisk' = onDisk /\ tmp' = tmp /\ before' = before /\ wish' = wish /\ short' = short
      /\ IF end = -2 THEN task' = NoTask /\ result' = "NULL"
         ELSE IF done THEN task' = [next EXCEPT !.name = "built"] /\ result' = "tree"
         ELSE task' = next /\ result' = result
  BY <1>2, <1>3 DEF FileTurn, TurnRead
<1>5. /\ onDisk \in Seq(Marks) /\ task.at \in 0..Len(onDisk)
      /\ task.built = SubSeq(onDisk, 1, task.at) /\ task.rounds = 0
      /\ onDisk = before
  BY <1>1 DEF FileInv, ReadingInv, SavingInv
<1>6. SubSeq(onDisk, 1, task.at) \o buf = SubSeq(onDisk, 1, m) /\ SubSeq(onDisk, 1, m) \in Seq(Marks)
  <2>1. m \in 0..Len(onDisk)
    BY <1>2 DEF TurnRead
  <2> QED BY <1>2, <1>5, <2>1, CutInTwo DEF TurnRead
<1>7. next.name = "file" /\ next.at = m /\ next.level = end /\ next.built = SubSeq(onDisk, 1, m) /\ next.rounds = 0
  <2>1. m = task.at + Len(buf)
    BY <1>2 DEF TurnRead
  <2>2. PICK built, v : built = task.built \o buf /\ v = task
    OBVIOUS
  <2>3. v \in Tasks /\ next = [v EXCEPT !.at = m, !.level = end, !.built = built]
    BY <1>1, <1>3, <2>1, <2>2
  <2>4. next = [name |-> v.name, at |-> m, level |-> end, built |-> built, rounds |-> v.rounds]
    BY ONLY <2>3 DEF Tasks
  <2> QED BY <1>1, <1>5, <1>6, <2>2, <2>4
<1>8. next \in Tasks
  <2>1. next = [name |-> "file", at |-> m, level |-> end, built |-> SubSeq(onDisk, 1, m), rounds |-> 0]
    BY <1>1, <1>3, <1>7 DEF Tasks
  <2> QED BY <1>2, <1>6, <2>1 DEF Tasks, TurnRead, Doing
<1>9. CASE end = -2
  <2>1. task' = NoTask /\ result' = "NULL" /\ ~ Sound(onDisk)
    BY <1>2, <1>4, <1>9 DEF TurnRead
  <2>2. ReadingInv' /\ SavingInv'
    BY <1>4, <2>1, NoTaskIs DEF FileInv, ReadingInv, SavingInv
  <2>3. TreeIsDocument' /\ BorkedHangs' /\ FileOldOrNew'
    BY <1>4, <1>5, <2>1, NoTaskIs DEF TreeIsDocument, BorkedHangs, FileOldOrNew, Sound
  <2> QED BY <2>1, <2>2, <2>3, NoTaskIs DEF FileInv
<1>10. CASE end # -2 /\ done
  <2>1. task' = [next EXCEPT !.name = "built"] /\ result' = "tree"
    BY <1>4, <1>10
  <2>2. task' \in Tasks /\ task'.name = "built" /\ task'.built = SubSeq(onDisk, 1, m)
    BY <1>7, <1>8, <2>1 DEF Tasks, Doing
  <2>3. SubSeq(onDisk, 1, m) = onDisk /\ Sound(onDisk)
    BY <1>2, <1>3, <1>10 DEF TurnRead
  <2>4. ReadingInv' /\ SavingInv'
    BY <1>4, <2>1, <2>2 DEF FileInv, ReadingInv, SavingInv
  <2>5. TreeIsDocument' /\ BorkedHangs' /\ FileOldOrNew'
    BY <1>4, <1>5, <2>1, <2>2, <2>3 DEF TreeIsDocument, BorkedHangs, FileOldOrNew, Sound
  <2> QED BY <2>2, <2>4, <2>5 DEF FileInv
<1>11. CASE end # -2 /\ ~ done
  <2>1. task' = next /\ result' = result
    BY <1>4, <1>11
  <2>2. end = Nested(0, SubSeq(onDisk, 1, m)) /\ m \in 0..Len(onDisk)
    BY <1>2, <1>11 DEF TurnRead
  <2>3. ReadingInv' /\ SavingInv'
    BY <1>4, <1>5, <1>7, <1>11, <2>1, <2>2, <1>1 DEF FileInv, ReadingInv, SavingInv
  <2>4. TreeIsDocument' /\ BorkedHangs' /\ FileOldOrNew'
    BY <1>1, <1>4, <1>5, <1>7, <2>1 DEF TreeIsDocument, BorkedHangs, FileOldOrNew
  <2> QED BY <1>8, <2>1, <2>3, <2>4 DEF FileInv
<1> QED BY <1>9, <1>10, <1>11

(* A turn of xmlnode_file_borked: behind the end of the file there is nothing,
   and nothing changes. *)
LEMMA BorkedTurnKeeps ==
  ASSUME XmlFileAssumption, FileInv, BorkedTurn PROVE FileInv'
<1>1. task.name = "borked" /\ result = "none" /\ task \in Tasks /\ task.rounds \in Nat
  BY DEF BorkedTurn, FileInv, SavingInv, Tasks
<1>2. PICK buf, m, end : TurnRead(buf, m, end)
  BY <1>1, TurnReads
<1>3. PICK done, rounds : done = (Len(buf) < Bufsiz) /\ rounds = IF done THEN task.rounds + 1 ELSE task.rounds
  OBVIOUS
<1>4. /\ onDisk' = onDisk /\ tmp' = tmp /\ before' = before /\ wish' = wish /\ short' = short
      /\ IF end = -2 THEN task' = NoTask /\ result' = "borked"
         ELSE task' = [task EXCEPT !.at = task.at + Len(buf), !.level = end, !.rounds = rounds] /\ result' = result
  BY <1>2, <1>3 DEF BorkedTurn, TurnRead
<1>5. onDisk \in Seq(Marks) /\ task.at \in 0..Len(onDisk) /\ onDisk = before
      /\ (task.rounds # 0 => task.at = Len(onDisk) /\ task.level = -1)
  BY <1>1 DEF FileInv, ReadingInv, SavingInv
<1>6. CASE end = -2
  <2>1. task' = NoTask /\ result' = "borked" /\ ~ Sound(onDisk)
    BY <1>2, <1>4, <1>6 DEF TurnRead
  <2>2. ReadingInv' /\ SavingInv'
    BY <1>4, <2>1, NoTaskIs DEF FileInv, ReadingInv, SavingInv
  <2>3. TreeIsDocument' /\ BorkedHangs' /\ FileOldOrNew'
    BY <1>4, <1>5, <2>1, NoTaskIs DEF TreeIsDocument, BorkedHangs, FileOldOrNew, Sound
  <2> QED BY <2>1, <2>2, <2>3, NoTaskIs DEF FileInv
<1>7. CASE end # -2
  <2>1. PICK v : v = task
    OBVIOUS
  <2>2. m = task.at + Len(buf) /\ m \in 0..Len(onDisk) /\ end \in Depths /\ Len(buf) \in Nat
        /\ end = Nested(0, SubSeq(onDisk, 1, m)) /\ (done => m = Len(onDisk) /\ end = -1 /\ Sound(onDisk))
    BY <1>2, <1>3, <1>7 DEF TurnRead
  <2>3. v \in Tasks /\ task' = [v EXCEPT !.at = m, !.level = end, !.rounds = rounds] /\ result' = result
    BY <1>1, <1>4, <1>7, <2>1, <2>2
  <2>4. task' = [name |-> v.name, at |-> m, level |-> end, built |-> v.built, rounds |-> rounds]
    BY ONLY <2>3 DEF Tasks
  <2>5. task' = [name |-> "borked", at |-> m, level |-> end, built |-> v.built, rounds |-> rounds]
    BY <1>1, <2>1, <2>4
  <2>6. task' \in Tasks
    <3>1. v.built \in Seq(Marks) /\ rounds \in Nat
      BY <1>1, <1>3, <2>1, <2>3 DEF Tasks
    <3>2. m \in Nat /\ "borked" \in Doing
      BY <1>5, <2>2 DEF Doing
    <3> QED BY ONLY <2>2, <2>5, <3>1, <3>2 DEF Tasks
  <2>7. rounds # 0 => m = Len(onDisk) /\ end = -1 /\ Sound(onDisk)
    <3>1. CASE done
      BY <2>2, <3>1
    <3>2. CASE ~ done /\ task.rounds # 0
      <4>1. Len(buf) = 0
        BY <1>5, <2>2, <3>2
      <4>2. Len(buf) < Bufsiz
        BY <4>1 DEF XmlFileAssumption
      <4> QED BY ONLY <1>3, <3>2, <4>2
    <3> QED BY <1>3, <3>1, <3>2
  <2>8. ReadingInv'
    BY <1>4, <1>5, <1>7, <2>2, <2>5, <2>7 DEF ReadingInv
  <2>9. SavingInv'
    BY <1>1, <1>4, <2>3, <2>5 DEF FileInv, SavingInv
  <2>10. TreeIsDocument' /\ BorkedHangs' /\ FileOldOrNew'
    BY <1>1, <1>4, <1>5, <2>3, <2>5, <2>7 DEF TreeIsDocument, BorkedHangs, FileOldOrNew, Sound
  <2> QED BY <2>6, <2>8, <2>9, <2>10 DEF FileInv
<1> QED BY <1>6, <1>7

(* The other file is opened for a document. *)
LEMMA OpenTmpKeeps ==
  ASSUME XmlFileAssumption, FileInv, NEW doc \in Saved, OpenTmp(doc) PROVE FileInv'
<1>1. /\ task = NoTask /\ result = "none" /\ wish' = doc
      /\ onDisk' = onDisk /\ before' = before /\ short' = short
  BY DEF OpenTmp
<1>2. doc \in Seq(Marks)
  BY DEF XmlFileAssumption, Marks
<1>3. onDisk = before
  BY <1>1 DEF FileInv, SavingInv
<1>4. CASE tmp' = <<>> /\ task' = [NoTask EXCEPT !.name = "write"] /\ result' = result
  <2>1. task' \in Tasks /\ task'.name = "write"
    BY <1>4, NamedTask DEF Doing
  <2>2. ReadingInv' /\ SavingInv'
    BY <1>1, <1>2, <1>4, <2>1 DEF FileInv, ReadingInv, SavingInv
  <2>3. TreeIsDocument' /\ BorkedHangs' /\ FileOldOrNew'
    BY <1>1, <1>3, <1>4, <2>1 DEF TreeIsDocument, BorkedHangs, FileOldOrNew
  <2> QED BY <2>1, <2>2, <2>3 DEF FileInv
<1>5. CASE result' = "failed" /\ tmp' = tmp /\ task' = task
  <2>1. ReadingInv' /\ SavingInv'
    BY <1>1, <1>2, <1>5, NoTaskIs DEF FileInv, ReadingInv, SavingInv
  <2>2. TreeIsDocument' /\ BorkedHangs' /\ FileOldOrNew'
    BY <1>1, <1>3, <1>5, NoTaskIs DEF TreeIsDocument, BorkedHangs, FileOldOrNew
  <2> QED BY <1>1, <1>5, <2>1, <2>2, NoTaskIs DEF FileInv
<1> QED BY <1>4, <1>5 DEF OpenTmp

(* The document is written into it, or a part of it. *)
LEMMA WriteTmpKeeps ==
  ASSUME FileInv, WriteTmp PROVE FileInv'
<1>1. /\ task.name = "write" /\ result = "none" /\ task \in Tasks /\ wish \in Seq(Marks) /\ onDisk = before
      /\ onDisk' = onDisk /\ before' = before /\ wish' = wish
  BY DEF WriteTmp, FileInv, SavingInv
<1>2. CASE task' = NoTask /\ result' = "failed" /\ tmp' = tmp /\ short' = short
  <2>1. ReadingInv' /\ SavingInv'
    BY <1>1, <1>2, NoTaskIs DEF FileInv, ReadingInv, SavingInv
  <2>2. TreeIsDocument' /\ BorkedHangs' /\ FileOldOrNew'
    BY <1>1, <1>2, NoTaskIs DEF TreeIsDocument, BorkedHangs, FileOldOrNew
  <2> QED BY <1>2, <2>1, <2>2, NoTaskIs DEF FileInv
<1>3. ASSUME NEW n \in 0..Len(wish), tmp' = SubSeq(wish, 1, n), short' = (n < Len(wish)),
             task' = [task EXCEPT !.name = "rename"], result' = result
      PROVE  FileInv'
  <2>1. task' \in Tasks /\ task'.name = "rename"
    BY <1>1, <1>3 DEF Tasks, Doing
  <2>2. tmp' \in Seq(Marks)
    BY ONLY <1>1, <1>3, CutInTwo
  <2>3. short' \/ tmp' = wish
    <3>1. CASE n = Len(wish)
      BY ONLY <1>1, <1>3, <3>1, SubSeqFull
    <3>2. CASE n # Len(wish)
      <4>1. n < Len(wish)
        BY <1>1, <3>2
      <4> QED BY ONLY <1>3, <4>1
    <3> QED BY <3>1, <3>2
  <2>4. ReadingInv' /\ SavingInv'
    BY <1>1, <1>3, <2>1, <2>2, <2>3 DEF FileInv, ReadingInv, SavingInv
  <2>5. TreeIsDocument' /\ BorkedHangs' /\ FileOldOrNew'
    BY <1>1, <1>3, <2>1 DEF TreeIsDocument, BorkedHangs, FileOldOrNew
  <2> QED BY <2>1, <2>4, <2>5 DEF FileInv
<1> QED BY <1>2, <1>3 DEF WriteTmp

(* It takes the place of the file, or does not. *)
LEMMA RenameTmpKeeps ==
  ASSUME FileInv, RenameTmp PROVE FileInv'
<1>1. /\ task.name = "rename" /\ result = "none" /\ task' = NoTask /\ result' \in {"saved", "failed"}
      /\ before' = before /\ wish' = wish /\ short' = short /\ onDisk' \in {onDisk, tmp}
      /\ tmp \in Seq(Marks) /\ (short \/ tmp = wish) /\ onDisk = before
  BY DEF RenameTmp, FileInv, SavingInv
<1>2. ReadingInv' /\ SavingInv'
  BY <1>1, NoTaskIs DEF FileInv, ReadingInv, SavingInv
<1>3. TreeIsDocument' /\ BorkedHangs' /\ FileOldOrNew'
  BY <1>1, NoTaskIs DEF TreeIsDocument, BorkedHangs, FileOldOrNew
<1> QED BY <1>1, <1>2, <1>3, NoTaskIs DEF FileInv

(* The program is stopped, and started again. *)
LEMMA StopKeeps ==
  ASSUME FileInv, Killed \/ Restarted PROVE FileInv'
<1>1. CASE Killed
  <2>1. /\ task' = NoTask /\ result' = "killed"
        /\ onDisk' = onDisk /\ tmp' = tmp /\ before' = before /\ wish' = wish /\ short' = short
    BY <1>1 DEF Killed
  <2>2. ReadingInv' /\ SavingInv'
    BY <2>1, NoTaskIs DEF FileInv, ReadingInv, SavingInv
  <2>3. TreeIsDocument' /\ BorkedHangs' /\ FileOldOrNew'
    BY <2>1, NoTaskIs DEF FileInv, TreeIsDocument, BorkedHangs, FileOldOrNew
  <2> QED BY <2>1, <2>2, <2>3, NoTaskIs DEF FileInv
<1>2. CASE Restarted
  <2>1. /\ result \in {"killed", "saved", "failed"} /\ result' = "none" /\ before' = onDisk /\ wish' = <<>> /\ short' = FALSE
        /\ onDisk' = onDisk /\ tmp' = tmp /\ task' = task
    BY <1>2 DEF Restarted
  <2>2. task.name \notin {"file", "borked", "write", "rename"}
    BY <2>1 DEF FileInv, SavingInv
  <2>3. ReadingInv' /\ SavingInv'
    BY <2>1, <2>2, EmptySeq DEF FileInv, ReadingInv, SavingInv
  <2>4. TreeIsDocument' /\ BorkedHangs' /\ FileOldOrNew'
    BY <2>1, <2>2 DEF TreeIsDocument, BorkedHangs, FileOldOrNew
  <2> QED BY <2>1, <2>3, <2>4 DEF FileInv
<1> QED BY <1>1, <1>2

(* What the run checks of the files. *)
FilesDelivered == TreeIsDocument /\ BorkedHangs /\ FileOldOrNew

(* Files, for every size of the buffer and every document: xmlnode_file
   returns a tree of a whole, well formed document only, and all of it;
   xmlnode_file_borked comes back for another only; and the file is the old
   one or the new one wherever xmlnode2file is stopped, unless the write was
   short. *)
LEMMA FilesStayDelivered == FileSpec => []FilesDelivered
<1>1. FileInit => FileInv
  BY XmlFileAssumption, FileInvInit
<1>2. FileInv /\ [FileNext]_fileVars => FileInv'
  <2> SUFFICES ASSUME FileInv, [FileNext]_fileVars PROVE FileInv'
    OBVIOUS
  <2>1. CASE UNCHANGED fileVars
    BY <2>1 DEF fileVars, FileInv, ReadingInv, SavingInv, TreeIsDocument, BorkedHangs, FileOldOrNew, Sound
  <2>2. CASE FileNext
    BY <2>2, XmlFileAssumption, BeginKeeps, FileTurnKeeps, BorkedTurnKeeps, OpenTmpKeeps, WriteTmpKeeps, RenameTmpKeeps, StopKeeps
       DEF FileNext
  <2> QED BY <2>1, <2>2
<1>3. FileInv => FilesDelivered
  BY DEF FileInv, FilesDelivered
<1> QED BY <1>1, <1>2, <1>3, PTL DEF FileSpec

------------------------------------------------------------------------------
(* XStream: the tokens of a stream, the calls of the handler, and what      *)
(* xstream.c and expat know between two tokens.                             *)
Tokens == {"start", "end", "text", "bad"}
Kinds == {"ROOT", "NODE", "CLOSE", "ERR"}
Calls == [type : Kinds, node : Seq(Tokens), why : {"", "syntax", "size", "depth"}]
InHand == [status : Kinds, node : Seq(Tokens), open : Int, depth : Int]
Streams == [xs : InHand, parser : [level : Int, error : BOOLEAN], calls : Seq(Calls)]

(* A stream in its parts. *)
Made(w, status, node, open, depth, level, error, list) ==
  /\ w \in Streams
  /\ w.xs.status = status /\ w.xs.node = node /\ w.xs.open = open /\ w.xs.depth = depth
  /\ w.parser.level = level /\ w.parser.error = error /\ w.calls = list

(* One that is put together has the parts it was put together from. *)
LEMMA MadeOf ==
  ASSUME NEW status \in Kinds, NEW node \in Seq(Tokens), NEW open \in Int, NEW depth \in Int,
         NEW level \in Int, NEW error \in BOOLEAN, NEW list \in Seq(Calls),
         NEW w, w = [xs |-> Hand(status, node, open, depth), parser |-> [level |-> level, error |-> error], calls |-> list]
  PROVE  Made(w, status, node, open, depth, level, error, list)
<1>1. PICK x, p : x = Hand(status, node, open, depth) /\ p = [level |-> level, error |-> error]
  OBVIOUS
<1>2. w = [xs |-> x, parser |-> p, calls |-> list]
  BY <1>1
<1>3. x \in InHand /\ x.status = status /\ x.node = node /\ x.open = open /\ x.depth = depth
  BY <1>1 DEF Hand, InHand
<1>4. p \in [level : Int, error : BOOLEAN] /\ p.level = level /\ p.error = error
  BY <1>1
<1>5. w.xs = x /\ w.parser = p /\ w.calls = list
  BY <1>2
<1>6. w \in Streams
  BY ONLY <1>2, <1>3, <1>4, list \in Seq(Calls) DEF Streams
<1> QED BY ONLY <1>3, <1>4, <1>5, <1>6 DEF Made

(* Every stream is put together from its parts. *)
LEMMA StreamParts ==
  ASSUME NEW s \in Streams
  PROVE  /\ s.xs.status \in Kinds /\ s.xs.node \in Seq(Tokens) /\ s.xs.open \in Int /\ s.xs.depth \in Int
         /\ s.parser.level \in Int /\ s.parser.error \in BOOLEAN /\ s.calls \in Seq(Calls)
         /\ s = [xs |-> Hand(s.xs.status, s.xs.node, s.xs.open, s.xs.depth),
                 parser |-> [level |-> s.parser.level, error |-> s.parser.error], calls |-> s.calls]
<1>1. PICK x, p : x = s.xs /\ p = s.parser
  OBVIOUS
<1>2. x \in InHand /\ p \in [level : Int, error : BOOLEAN] /\ s.calls \in Seq(Calls) /\ s = [xs |-> x, parser |-> p, calls |-> s.calls]
  BY <1>1 DEF Streams
<1>3. x = Hand(x.status, x.node, x.open, x.depth)
  BY <1>2 DEF InHand, Hand
<1>4. p = [level |-> p.level, error |-> p.error]
  BY <1>2
<1>5. x.status \in Kinds /\ x.node \in Seq(Tokens) /\ x.open \in Int /\ x.depth \in Int
  BY <1>2 DEF InHand
<1>6. p.level \in Int /\ p.error \in BOOLEAN
  BY <1>2
<1> QED BY <1>1, <1>2, <1>3, <1>4, <1>5, <1>6

(* What a token does. *)
Checked(depth) == IF depth > MaxDepth THEN "ERR" ELSE "NODE"
Ignored(s, level, error, w) == Made(w, s.xs.status, s.xs.node, s.xs.open, s.xs.depth, level, error, s.calls)
RootCall == Call("ROOT", <<>>, "")
CloseCall == Call("CLOSE", <<>>, "")
NodeCall(node) == Call("NODE", node, "")
StartDone(s, level, w) ==
  IF Over(s) THEN Ignored(s, level, FALSE, w)
  ELSE IF s.xs.status = "ROOT"
  THEN Made(w, Checked(s.xs.depth + 1), s.xs.node, s.xs.open, s.xs.depth + 1, level, FALSE, Append(s.calls, RootCall))
  ELSE IF s.xs.open = -1 THEN Made(w, Checked(s.xs.depth + 1), <<"start">>, 1, s.xs.depth + 1, level, FALSE, s.calls)
  ELSE Made(w, Checked(s.xs.depth + 1), Append(s.xs.node, "start"), s.xs.open + 1, s.xs.depth + 1, level, FALSE, s.calls)
EndDone(s, level, w) ==
  IF Over(s) THEN Ignored(s, level, FALSE, w)
  ELSE IF s.xs.open = -1 THEN Made(w, "CLOSE", s.xs.node, -1, s.xs.depth - 1, level, FALSE, Append(s.calls, CloseCall))
  ELSE IF s.xs.open = 1
  THEN Made(w, s.xs.status, <<>>, -1, s.xs.depth - 1, level, FALSE, Append(s.calls, NodeCall(Append(s.xs.node, "end"))))
  ELSE Made(w, s.xs.status, Append(s.xs.node, "end"), s.xs.open - 1, s.xs.depth - 1, level, FALSE, s.calls)
TextDone(s, level, w) ==
  IF Over(s) \/ s.xs.open = -1 THEN Ignored(s, level, FALSE, w)
  ELSE Made(w, s.xs.status, Append(s.xs.node, "text"), s.xs.open, s.xs.depth, level, FALSE, s.calls)
TokenDone(s, t, w) ==
  \/ s.parser.error /\ w = s
  \/ ~ s.parser.error /\ Ignored(s, s.parser.level, TRUE, w)
  \/ ~ s.parser.error /\ t = "start" /\ s.parser.level >= 0 /\ StartDone(s, s.parser.level + 1, w)
  \/ ~ s.parser.error /\ t = "end" /\ s.parser.level >= 1
       /\ EndDone(s, IF s.parser.level = 1 THEN -1 ELSE s.parser.level - 1, w)
  \/ ~ s.parser.error /\ t = "text" /\ s.parser.level >= 1 /\ TextDone(s, s.parser.level, w)

(* The calls are calls. *)
LEMMA CallsAre ==
  /\ RootCall \in Calls /\ CloseCall \in Calls
  /\ \A node \in Seq(Tokens) : NodeCall(node) \in Calls
  /\ \A why \in {"syntax", "size", "depth"} : Call("ERR", <<>>, why) \in Calls
  /\ RootCall.type = "ROOT" /\ CloseCall.type = "CLOSE"
  /\ \A node : NodeCall(node).type = "NODE" /\ NodeCall(node).node = node
  /\ \A why : Call("ERR", <<>>, why).type = "ERR"
BY EmptySeq DEF RootCall, CloseCall, NodeCall, Call, Calls, Kinds

(* expat moves on to another level, and xstream.c does not notice. *)
LEMMA AtMade ==
  ASSUME NEW s \in Streams, NEW level \in Int, NEW error \in BOOLEAN
  PROVE  Ignored(s, level, error, AtLevel(s, level, error))
<1>1. PICK x : x = s.xs
  OBVIOUS
<1>2. x = Hand(x.status, x.node, x.open, x.depth) /\ x.status \in Kinds /\ x.node \in Seq(Tokens) /\ x.open \in Int /\ x.depth \in Int
  BY <1>1 DEF Streams, InHand, Hand
<1>3. AtLevel(s, level, error) = [xs |-> Hand(x.status, x.node, x.open, x.depth), parser |-> [level |-> level, error |-> error], calls |-> s.calls]
  BY <1>1, <1>2 DEF AtLevel
<1>4. s.calls \in Seq(Calls)
  BY StreamParts
<1>5. Made(AtLevel(s, level, error), x.status, x.node, x.open, x.depth, level, error, s.calls)
  BY ONLY <1>2, <1>3, <1>4, level \in Int, error \in BOOLEAN, MadeOf
<1> QED BY <1>1, <1>5 DEF Ignored

(* What a handler of xstream.c leaves. *)
LEMMA HeardMade ==
  ASSUME NEW r \in Streams, NEW status \in Kinds, NEW node \in Seq(Tokens), NEW open \in Int, NEW depth \in Int, NEW list \in Seq(Calls)
  PROVE  Made(Heard(r, Hand(status, node, open, depth), list), status, node, open, depth, r.parser.level, r.parser.error, list)
<1>1. PICK p : p = r.parser
  OBVIOUS
<1>2. p = [level |-> p.level, error |-> p.error] /\ p.level \in Int /\ p.error \in BOOLEAN
  BY <1>1 DEF Streams
<1>3. Heard(r, Hand(status, node, open, depth), list)
        = [xs |-> Hand(status, node, open, depth), parser |-> [level |-> p.level, error |-> p.error], calls |-> list]
  BY <1>1, <1>2 DEF Heard
<1>4. Made(Heard(r, Hand(status, node, open, depth), list), status, node, open, depth, p.level, p.error, list)
  BY ONLY <1>2, <1>3, status \in Kinds, node \in Seq(Tokens), open \in Int, depth \in Int, list \in Seq(Calls), MadeOf
<1> QED BY <1>1, <1>4

(* The three handlers, when expat has moved on to a level. *)
LEMMA HandlersDone ==
  ASSUME NEW s \in Streams, NEW level \in Int, NEW r, r = AtLevel(s, level, FALSE)
  PROVE  /\ StartDone(s, level, _xstream_startElement(r))
         /\ EndDone(s, level, _xstream_endElement(r))
         /\ TextDone(s, level, _xstream_charData(r))
<1>1. Ignored(s, level, FALSE, r)
  BY AtMade
<1>2. PICK x, list : x = s.xs /\ list = s.calls
  OBVIOUS
<1>3. r.xs = x /\ r.calls = list /\ r.parser.level = level /\ r.parser.error = FALSE /\ r \in Streams
  BY <1>1, <1>2 DEF AtLevel, Ignored, Made
<1>4. x.status \in Kinds /\ x.node \in Seq(Tokens) /\ x.open \in Int /\ x.depth \in Int /\ list \in Seq(Calls)
  BY <1>2, StreamParts
<1>5. /\ Append(x.node, "start") \in Seq(Tokens) /\ Append(x.node, "end") \in Seq(Tokens) /\ Append(x.node, "text") \in Seq(Tokens)
      /\ <<"start">> \in Seq(Tokens) /\ <<>> \in Seq(Tokens)
  <2>1. "start" \in Tokens /\ "end" \in Tokens /\ "text" \in Tokens
    BY DEF Tokens
  <2> QED BY <1>4, <2>1, AppendProperties, EmptySeq
<1>6. /\ Append(list, RootCall) \in Seq(Calls) /\ Append(list, CloseCall) \in Seq(Calls)
      /\ Append(list, NodeCall(Append(x.node, "end"))) \in Seq(Calls)
  BY <1>4, <1>5, CallsAre, AppendProperties
<1>7. Over(r) <=> Over(s)
  BY <1>2, <1>3 DEF Over
<1> DEFINE Fits(status, node, open, depth, l) ==
             status \in Kinds /\ node \in Seq(Tokens) /\ open \in Int /\ depth \in Int /\ l \in Seq(Calls)
<1>8. ASSUME NEW status, NEW node, NEW open, NEW depth, NEW l, Fits(status, node, open, depth, l)
      PROVE  Made(Heard(r, Hand(status, node, open, depth), l), status, node, open, depth, level, FALSE, l)
  BY <1>3, <1>8, HeardMade
<1>9. Checked(x.depth + 1) \in Kinds /\ "CLOSE" \in Kinds /\ x.depth + 1 \in Int /\ x.depth - 1 \in Int
      /\ x.open + 1 \in Int /\ x.open - 1 \in Int /\ 1 \in Int /\ -1 \in Int
  BY <1>4 DEF Checked, Kinds
<1> HIDE DEF Fits
<1>10. StartDone(s, level, _xstream_startElement(r))
  <2>1. CASE Over(s)
    BY <1>1, <1>7, <2>1 DEF StartDone, _xstream_startElement
  <2>2. CASE ~ Over(s) /\ x.status = "ROOT"
    <3>1. _xstream_startElement(r) = Heard(r, Hand(Checked(x.depth + 1), x.node, x.open, x.depth + 1), Append(list, RootCall))
      BY <1>3, <1>7, <2>2 DEF _xstream_startElement, Checked, RootCall
    <3>2. Fits(Checked(x.depth + 1), x.node, x.open, x.depth + 1, Append(list, RootCall))
      BY <1>4, <1>5, <1>6, <1>9 DEF Fits
    <3>3. Made(_xstream_startElement(r), Checked(x.depth + 1), x.node, x.open, x.depth + 1, level, FALSE, Append(list, RootCall))
      BY ONLY <1>8, <3>1, <3>2
    <3> QED BY <1>2, <2>2, <3>3 DEF StartDone
  <2>3. CASE ~ Over(s) /\ x.status # "ROOT" /\ x.open = -1
    <3>1. _xstream_startElement(r) = Heard(r, Hand(Checked(x.depth + 1), <<"start">>, 1, x.depth + 1), list)
      BY <1>3, <1>7, <2>3 DEF _xstream_startElement, Checked
    <3>2. Fits(Checked(x.depth + 1), <<"start">>, 1, x.depth + 1, list)
      BY <1>4, <1>5, <1>6, <1>9 DEF Fits
    <3>3. Made(_xstream_startElement(r), Checked(x.depth + 1), <<"start">>, 1, x.depth + 1, level, FALSE, list)
      BY ONLY <1>8, <3>1, <3>2
    <3> QED BY <1>2, <2>3, <3>3 DEF StartDone
  <2>4. CASE ~ Over(s) /\ x.status # "ROOT" /\ x.open # -1
    <3>1. _xstream_startElement(r) = Heard(r, Hand(Checked(x.depth + 1), Append(x.node, "start"), x.open + 1, x.depth + 1), list)
      BY <1>3, <1>7, <2>4 DEF _xstream_startElement, Checked
    <3>2. Fits(Checked(x.depth + 1), Append(x.node, "start"), x.open + 1, x.depth + 1, list)
      BY <1>4, <1>5, <1>6, <1>9 DEF Fits
    <3>3. Made(_xstream_startElement(r), Checked(x.depth + 1), Append(x.node, "start"), x.open + 1, x.depth + 1, level, FALSE, list)
      BY ONLY <1>8, <3>1, <3>2
    <3> QED BY <1>2, <2>4, <3>3 DEF StartDone
  <2> QED BY <2>1, <2>2, <2>3, <2>4
<1>11. EndDone(s, level, _xstream_endElement(r))
  <2>1. CASE Over(s)
    BY <1>1, <1>7, <2>1 DEF EndDone, _xstream_endElement, EndTag
  <2>2. CASE ~ Over(s) /\ x.open = -1
    <3>1. _xstream_endElement(r) = Heard(r, Hand("CLOSE", x.node, -1, x.depth - 1), Append(list, CloseCall))
      BY <1>3, <1>7, <2>2 DEF _xstream_endElement, EndTag, CloseCall
    <3>2. Fits("CLOSE", x.node, -1, x.depth - 1, Append(list, CloseCall))
      BY <1>4, <1>5, <1>6, <1>9 DEF Fits
    <3>3. Made(_xstream_endElement(r), "CLOSE", x.node, -1, x.depth - 1, level, FALSE, Append(list, CloseCall))
      BY ONLY <1>8, <3>1, <3>2
    <3> QED BY <1>2, <2>2, <3>3 DEF EndDone
  <2>3. CASE ~ Over(s) /\ x.open # -1 /\ x.open = 1
    <3>1. PICK more : more = Append(list, NodeCall(Append(x.node, "end")))
      OBVIOUS
    <3>2. _xstream_endElement(r) = Heard(r, Hand(x.status, <<>>, -1, x.depth - 1), more)
      BY <1>3, <1>7, <2>3, <3>1 DEF _xstream_endElement, EndTag, NodeCall
    <3>3. more \in Seq(Calls)
      BY <1>6, <3>1
    <3>4. Fits(x.status, <<>>, -1, x.depth - 1, more)
      BY <1>4, <1>5, <1>9, <3>3 DEF Fits
    <3>5. Made(_xstream_endElement(r), x.status, <<>>, -1, x.depth - 1, level, FALSE, more)
      BY ONLY <1>8, <3>2, <3>4
    <3> QED BY <1>2, <2>3, <3>1, <3>5 DEF EndDone
  <2>4. CASE ~ Over(s) /\ x.open # -1 /\ x.open # 1
    <3>1. _xstream_endElement(r) = Heard(r, Hand(x.status, Append(x.node, "end"), x.open - 1, x.depth - 1), list)
      BY <1>3, <1>7, <2>4 DEF _xstream_endElement, EndTag
    <3>2. Fits(x.status, Append(x.node, "end"), x.open - 1, x.depth - 1, list)
      BY <1>4, <1>5, <1>6, <1>9 DEF Fits
    <3>3. Made(_xstream_endElement(r), x.status, Append(x.node, "end"), x.open - 1, x.depth - 1, level, FALSE, list)
      BY ONLY <1>8, <3>1, <3>2
    <3> QED BY <1>2, <2>4, <3>3 DEF EndDone
  <2> QED BY <2>1, <2>2, <2>3, <2>4
<1>12. TextDone(s, level, _xstream_charData(r))
  <2>1. CASE Over(s) \/ x.open = -1
    BY <1>1, <1>2, <1>3, <1>7, <2>1 DEF TextDone, _xstream_charData
  <2>2. CASE ~ Over(s) /\ x.open # -1
    <3>1. _xstream_charData(r) = Heard(r, Hand(x.status, Append(x.node, "text"), x.open, x.depth), list)
      BY <1>3, <1>7, <2>2 DEF _xstream_charData
    <3>2. Fits(x.status, Append(x.node, "text"), x.open, x.depth, list)
      BY <1>4, <1>5, <1>6, <1>9 DEF Fits
    <3>3. Made(_xstream_charData(r), x.status, Append(x.node, "text"), x.open, x.depth, level, FALSE, list)
      BY ONLY <1>8, <3>1, <3>2
    <3> QED BY <1>2, <2>2, <3>3 DEF TextDone
  <2> QED BY <2>1, <2>2
<1> QED BY <1>10, <1>11, <1>12

(* XML_Parse on a token leaves a stream, in one of those ways. *)
LEMMA ParsedDone ==
  ASSUME NEW s \in Streams, NEW t \in Tokens, NEW w, w = Parsed(s, t)
  PROVE  TokenDone(s, t, w) /\ w \in Streams
<1>1. PICK level, error : level = s.parser.level /\ error = s.parser.error
  OBVIOUS
<1>2. level \in Int /\ error \in BOOLEAN
  BY <1>1, StreamParts
<1>3. CASE error
  BY <1>1, <1>3 DEF Parsed, TokenDone
<1>4. CASE ~ error /\ t = "start" /\ level >= 0
  <2>1. w = _xstream_startElement(AtLevel(s, level + 1, FALSE))
    BY <1>1, <1>4 DEF Parsed
  <2>2. StartDone(s, level + 1, w)
    <3>1. PICK to, r : to = level + 1 /\ r = AtLevel(s, to, FALSE)
      OBVIOUS
    <3>2. to \in Int /\ w = _xstream_startElement(r)
      BY <1>2, <2>1, <3>1
    <3>3. StartDone(s, to, _xstream_startElement(r))
      BY ONLY s \in Streams, <3>1, <3>2, HandlersDone
    <3> QED BY <3>1, <3>2, <3>3
  <2> QED BY <1>1, <1>4, <2>2 DEF TokenDone, StartDone, Ignored, Made
<1>5. CASE ~ error /\ t = "end" /\ level >= 1
  <2>1. PICK to : to = IF level = 1 THEN -1 ELSE level - 1
    OBVIOUS
  <2>2. to \in Int
    BY <1>2, <2>1
  <2>3. w = _xstream_endElement(AtLevel(s, to, FALSE))
    BY <1>1, <1>5, <2>1 DEF Parsed
  <2>4. EndDone(s, to, w)
    BY <2>2, <2>3, HandlersDone
  <2> QED BY <1>1, <1>5, <2>1, <2>4 DEF TokenDone, EndDone, Ignored, Made
<1>6. CASE ~ error /\ t = "text" /\ level >= 1
  <2>1. w = _xstream_charData(AtLevel(s, level, FALSE))
    BY <1>1, <1>6 DEF Parsed
  <2>2. TextDone(s, level, w)
    BY <1>2, <2>1, HandlersDone
  <2> QED BY <1>1, <1>6, <2>2 DEF TokenDone, TextDone, Ignored, Made
<1>7. CASE ~ error /\ ~ (t = "start" /\ level >= 0) /\ ~ (t = "end" /\ level >= 1) /\ ~ (t = "text" /\ level >= 1)
  <2>1. w = AtLevel(s, level, TRUE)
    BY <1>1, <1>7 DEF Parsed
  <2>2. Ignored(s, level, TRUE, w)
    BY <1>2, <2>1, AtMade
  <2> QED BY <1>1, <1>7, <2>2 DEF TokenDone, Ignored, Made
<1> QED BY <1>2, <1>3, <1>4, <1>5, <1>6, <1>7

------------------------------------------------------------------------------
(* The level behind every token, and what one token does to it. *)
Up(t) == CASE t = "start" -> 1 [] t = "end" -> -1 [] OTHER -> 0
LevelRun(T, g) == g \in [0..Len(T) -> Int] /\ g[0] = 0 /\ \A i \in 1..Len(T) : g[i] = g[i - 1] + Up(T[i])

(* A token moves it by one at most. *)
LEMMA UpIs == ASSUME NEW t PROVE Up(t) \in -1..1
BY DEF Up

(* The recursive function of the model gives those levels. *)
LEMMA LevelsRun ==
  ASSUME NEW T \in Seq(Tokens)
  PROVE  LevelRun(T, Levels(T))
<1>1. PICK n, step : n = Len(T) /\ step = [x \in (1..n) \X Int |-> x[2] + Up(T[x[1]])]
  OBVIOUS
<1>2. n \in Nat
  BY <1>1
<1>3. step \in [(1..n) \X Int -> Int]
  <2>1. ASSUME NEW x \in (1..n) \X Int PROVE x[2] + Up(T[x[1]]) \in Int
    <3>1. PICK u : u = Up(T[x[1]])
      OBVIOUS
    <3>2. u \in -1..1
      BY <3>1, UpIs
    <3> QED BY <3>1, <3>2
  <2> QED BY <1>1, <2>1
<1>4. PICK g : Stepped(n, Int, 0, step, g)
  BY ONLY 0 \in Int, <1>2, <1>3, StepsExist
<1>5. g \in [0..n -> Int] /\ g[0] = 0 /\ \A i \in 1..n : g[i] = step[<<i, g[i - 1]>>]
  BY <1>4 DEF Stepped
<1>6. ASSUME NEW i \in 1..n PROVE g[i] = g[i - 1] + Up(T[i])
  <2>1. <<i, g[i - 1]>> \in (1..n) \X Int
    BY <1>2, <1>5
  <2> QED BY <1>1, <1>5, <2>1
<1>7. ASSUME NEW i \in 0..n PROVE g[i] = IF i = 0 THEN 0 ELSE g[i - 1] + Up(T[i])
  BY <1>2, <1>5, <1>6
<1> DEFINE Rule(h) == h = [i \in 0..n |-> IF i = 0 THEN 0 ELSE h[i - 1] + Up(T[i])]
<1>8. Rule(g)
  BY <1>5, <1>7
<1>9. Levels(T) = CHOOSE h : Rule(h)
  BY <1>1 DEF Levels, Up
<1>10. PICK h : h = (CHOOSE k : Rule(k))
  OBVIOUS
<1> HIDE DEF Rule
<1>11. Rule(h)
  BY <1>8, <1>10
<1> USE DEF Rule
<1>12. h[0] = 0 /\ (\A i \in 1..n : h[i] = h[i - 1] + Up(T[i])) /\ h = [i \in 0..n |-> h[i]]
  <2>1. h[0] = 0 /\ \A i \in 1..n : h[i] = h[i - 1] + Up(T[i])
    BY <1>2, <1>11
  <2>2. h = [i \in 0..n |-> h[i]]
    BY ONLY <1>11
  <2> QED BY <2>1, <2>2
<1> HIDE DEF Rule
<1> DEFINE I == {i \in Nat : i <= n => h[i] = g[i]}
<1>13. 0 \in I
  BY <1>5, <1>12
<1>14. ASSUME NEW i \in Nat, i \in I PROVE i + 1 \in I
  <2> SUFFICES ASSUME i + 1 <= n PROVE h[i + 1] = g[i + 1]
    OBVIOUS
  <2>1. i + 1 \in 1..n /\ (i + 1) - 1 = i /\ i <= n
    BY <1>2
  <2>2. h[i] = g[i]
    BY <1>14, <2>1
  <2>3. h[i + 1] = h[(i + 1) - 1] + Up(T[i + 1])
    BY ONLY <1>12, <2>1
  <2>4. g[i + 1] = g[(i + 1) - 1] + Up(T[i + 1])
    BY ONLY <1>6, <2>1
  <2> QED BY ONLY <2>1, <2>2, <2>3, <2>4
<1> HIDE DEF I
<1>15. Nat \subseteq I
  BY ONLY <1>13, <1>14, CountingUp
<1> USE DEF I
<1>16. \A i \in 0..n : h[i] = g[i]
  BY <1>2, <1>15
<1>17. h = g
  BY <1>5, <1>12, <1>16
<1>18. Levels(T) = g
  BY ONLY <1>9, <1>10, <1>17
<1>19. LevelRun(T, g)
  BY <1>1, <1>5, <1>6 DEF LevelRun
<1> QED BY <1>18, <1>19

(* A token more, of a stream: what it is about. *)
OneMore(T, t, n, U) == T \in Seq(Tokens) /\ t \in Tokens /\ n = Len(T) /\ U = Append(T, t)
Grown(T, t, n, U, g, h) ==
  /\ n \in Nat /\ T \in Seq(Tokens) /\ U \in Seq(Tokens) /\ Len(T) = n /\ Len(U) = n + 1 /\ U[n + 1] = t
  /\ \A i \in 1..n : U[i] = T[i]
  /\ g = Levels(T) /\ h = Levels(U)
  /\ \A i \in 0..n : h[i] = g[i] /\ g[i] \in Int
  /\ h[n + 1] = g[n] + Up(t) /\ h[n + 1] \in Int

(* The levels before it stay, and it has one of its own. *)
LEMMA GrownIs ==
  ASSUME NEW T, NEW t, NEW n, NEW U, OneMore(T, t, n, U)
  PROVE  \E g, h : Grown(T, t, n, U, g, h)
<1>0. T \in Seq(Tokens) /\ t \in Tokens /\ n = Len(T) /\ U = Append(T, t)
  BY DEF OneMore
<1>1. n \in Nat /\ U \in Seq(Tokens) /\ Len(U) = n + 1 /\ U[n + 1] = t /\ \A i \in 1..n : U[i] = T[i]
  BY <1>0, AppendProperties
<1>2. PICK g, h : g = Levels(T) /\ h = Levels(U)
  OBVIOUS
<1>3. LevelRun(T, g) /\ LevelRun(U, h)
  BY <1>0, <1>1, <1>2, LevelsRun
<1>4. g \in [0..n -> Int] /\ g[0] = 0 /\ \A i \in 1..n : g[i] = g[i - 1] + Up(T[i])
  BY <1>0, <1>3 DEF LevelRun
<1>5. h \in [0..(n + 1) -> Int] /\ h[0] = 0 /\ \A i \in 1..(n + 1) : h[i] = h[i - 1] + Up(U[i])
  BY <1>1, <1>3 DEF LevelRun
<1> DEFINE I == {i \in Nat : i <= n => h[i] = g[i]}
<1>6. 0 \in I
  BY <1>4, <1>5
<1>7. ASSUME NEW i \in Nat, i \in I PROVE i + 1 \in I
  <2> SUFFICES ASSUME i + 1 <= n PROVE h[i + 1] = g[i + 1]
    OBVIOUS
  <2>1. i + 1 \in 1..n /\ i + 1 \in 1..(n + 1) /\ (i + 1) - 1 = i /\ i <= n
    BY <1>1
  <2>2. h[i] = g[i]
    BY <1>7, <2>1
  <2>3. h[i + 1] = h[(i + 1) - 1] + Up(U[i + 1]) /\ U[i + 1] = T[i + 1]
    BY ONLY <1>1, <1>5, <2>1
  <2>4. g[i + 1] = g[(i + 1) - 1] + Up(T[i + 1])
    BY ONLY <1>4, <2>1
  <2> QED BY ONLY <2>1, <2>2, <2>3, <2>4
<1>8. Nat \subseteq I
  <2> HIDE DEF I
  <2> QED BY ONLY <1>6, <1>7, CountingUp
<1>9. \A i \in 0..n : h[i] = g[i] /\ g[i] \in Int
  BY <1>1, <1>4, <1>8
<1>10. h[n + 1] = g[n] + Up(t) /\ h[n + 1] \in Int
  <2>1. n + 1 \in 1..(n + 1) /\ (n + 1) - 1 = n /\ n \in 0..n /\ n + 1 \in 0..(n + 1)
    BY <1>1
  <2> QED BY <1>1, <1>5, <1>9, <2>1
<1> QED BY <1>0, <1>1, <1>2, <1>9, <1>10 DEF Grown

(* An element that is open still. *)
Opened(T, i) == i \in 1..Len(T) /\ T[i] = "start" /\ Levels(T)[i] = 2 /\ \A j \in i..Len(T) : Levels(T)[j] >= 2
Sane(T) == \A i \in 1..Len(T) : T[i] # "bad"

(* What was an element is one still, and the other way round. *)
LEMMA PairStays ==
  ASSUME NEW T, NEW t, NEW n, NEW U, OneMore(T, t, n, U), NEW i \in 1..n, NEW e \in 1..n
  PROVE  IsElement(U, i, e) <=> IsElement(T, i, e)
<1>1. PICK g, h : Grown(T, t, n, U, g, h)
  BY GrownIs
<1>2. n \in Nat /\ g = Levels(T) /\ h = Levels(U) /\ (\A k \in 1..n : U[k] = T[k]) /\ \A k \in 0..n : h[k] = g[k]
  BY <1>1 DEF Grown
<1>3. i \in 0..n /\ e \in 0..n /\ (\A k \in i..(e - 1) : k \in 0..n) /\ \A k \in 1..e : k \in 1..n
  BY <1>2
<1>4. (\A k \in i..(e - 1) : h[k] >= 2) <=> (\A k \in i..(e - 1) : g[k] >= 2)
  BY <1>2, <1>3
<1>5. (\A k \in 1..e : U[k] # "bad") <=> (\A k \in 1..e : T[k] # "bad")
  BY <1>2, <1>3
<1>6. U[i] = T[i] /\ U[e] = T[e] /\ h[i] = g[i] /\ h[e] = g[e]
  BY <1>2, <1>3
<1>7. IsElement(U, i, e) <=> /\ U[i] = "start" /\ h[i] = 2 /\ U[e] = "end" /\ h[e] = 1 /\ i < e
                             /\ (\A k \in i..(e - 1) : h[k] >= 2) /\ (\A k \in 1..e : U[k] # "bad")
  BY <1>2 DEF IsElement
<1>8. IsElement(T, i, e) <=> /\ T[i] = "start" /\ g[i] = 2 /\ T[e] = "end" /\ g[e] = 1 /\ i < e
                             /\ (\A k \in i..(e - 1) : g[k] >= 2) /\ (\A k \in 1..e : T[k] # "bad")
  BY <1>2 DEF IsElement
<1> QED BY ONLY <1>4, <1>5, <1>6, <1>7, <1>8

(* An element that ends with the new token was open. *)
LEMMA PairNew ==
  ASSUME NEW T, NEW t, NEW n, NEW U, OneMore(T, t, n, U), NEW i \in 1..(n + 1)
  PROVE  /\ IsElement(U, i, n + 1) <=> Opened(T, i) /\ t = "end" /\ Levels(U)[n + 1] = 1 /\ Sane(T)
         /\ \A e \in 1..(n + 1) : ~ IsElement(U, n + 1, e)
<1>1. PICK g, h : Grown(T, t, n, U, g, h)
  BY GrownIs
<1>2. n \in Nat /\ g = Levels(T) /\ h = Levels(U) /\ (\A k \in 1..n : U[k] = T[k]) /\ (\A k \in 0..n : h[k] = g[k])
      /\ U[n + 1] = t /\ Len(T) = n
  BY <1>1 DEF Grown
<1>3. \A e \in 1..(n + 1) : ~ IsElement(U, n + 1, e)
  BY <1>2 DEF IsElement
<1>4. CASE i = n + 1
  <2>1. ~ IsElement(U, i, n + 1)
    BY <1>2, <1>3, <1>4
  <2>2. ~ Opened(T, i)
    BY <1>2, <1>4 DEF Opened
  <2> QED BY <1>3, <2>1, <2>2
<1>5. CASE i \in 1..n
  <2>1. i \in 0..n /\ (n + 1) - 1 = n /\ i < n + 1 /\ \A k \in i..n : k \in 0..n
    BY <1>2, <1>5
  <2>2. IsElement(U, i, n + 1) <=> /\ U[i] = "start" /\ h[i] = 2 /\ U[n + 1] = "end" /\ h[n + 1] = 1 /\ i < n + 1
                                   /\ (\A k \in i..((n + 1) - 1) : h[k] >= 2) /\ (\A k \in 1..(n + 1) : U[k] # "bad")
    BY <1>2 DEF IsElement
  <2>3. (\A k \in i..n : h[k] >= 2) <=> (\A k \in i..n : g[k] >= 2)
    BY <1>2, <2>1
  <2>4. (\A k \in 1..(n + 1) : U[k] # "bad") <=> (t # "bad" /\ \A k \in 1..n : T[k] # "bad")
    BY <1>2
  <2>5. Opened(T, i) <=> T[i] = "start" /\ g[i] = 2 /\ \A k \in i..n : g[k] >= 2
    BY <1>2, <1>5 DEF Opened
  <2>6. Sane(T) <=> \A k \in 1..n : T[k] # "bad"
    BY <1>2 DEF Sane
  <2>7. U[i] = T[i] /\ h[i] = g[i]
    BY <1>2, <1>5, <2>1
  <2>8. IsElement(U, i, n + 1) <=> Opened(T, i) /\ t = "end" /\ h[n + 1] = 1 /\ Sane(T)
    BY ONLY <1>2, <2>1, <2>2, <2>3, <2>4, <2>5, <2>6, <2>7
  <2> QED BY <1>2, <1>3, <2>8
<1>6. i = n + 1 \/ i \in 1..n
  BY <1>2
<1> QED BY <1>4, <1>5, <1>6

(* What is open began behind all the elements, and no two are open. *)
LEMMA OpenedIsLast ==
  ASSUME NEW T \in Seq(Tokens), NEW i, Opened(T, i)
  PROVE  /\ \A p \in Elements(T) : p[1] < i
         /\ \A j : Opened(T, j) => j = i
<1>1. PICK n, g : n = Len(T) /\ g = Levels(T)
  OBVIOUS
<1>2. LevelRun(T, g)
  BY <1>1, LevelsRun
<1>3. n \in Nat /\ g \in [0..n -> Int] /\ \A k \in 1..n : g[k] = g[k - 1] + Up(T[k])
  BY <1>1, <1>2 DEF LevelRun
<1>4. i \in 1..n /\ T[i] = "start" /\ g[i] = 2 /\ \A j \in i..n : g[j] >= 2
  BY <1>1 DEF Opened
<1>5. ASSUME NEW p \in Elements(T) PROVE p[1] < i
  <2>1. PICK a, b : a = p[1] /\ b = p[2]
    OBVIOUS
  <2>2. a \in 1..n /\ b \in 1..n /\ IsElement(T, a, b)
    BY <1>1, <1>5, <2>1 DEF Elements
  <2>3. g[b] = 1 /\ a < b
    BY <1>1, <2>2 DEF IsElement
  <2>4. ASSUME i <= a PROVE FALSE
    <3>1. b \in i..n
      BY <1>3, <1>4, <2>2, <2>3, <2>4
    <3>2. g[b] >= 2
      BY <1>4, <3>1
    <3> QED BY <2>3, <3>2
  <2> QED BY <1>3, <1>4, <2>1, <2>2, <2>4
<1>6. ASSUME NEW j, NEW k, j \in 1..n, k \in 1..n, j < k, g[k] = 2, T[k] = "start", \A m \in j..n : g[m] >= 2
      PROVE  FALSE
  <2>1. g[k] = g[k - 1] + Up("start") /\ Up("start") = 1
    BY <1>3, <1>6 DEF Up
  <2>2. k - 1 \in j..n /\ k - 1 \in 0..n
    BY <1>3, <1>6
  <2>3. g[k - 1] >= 2 /\ g[k - 1] \in Int
    BY <1>3, <1>6, <2>2
  <2> QED BY <1>6, <2>1, <2>3
<1>7. ASSUME NEW j, Opened(T, j) PROVE j = i
  <2>1. j \in 1..n /\ T[j] = "start" /\ g[j] = 2 /\ \A m \in j..n : g[m] >= 2
    BY <1>1, <1>7 DEF Opened
  <2>2. ~ (j < i)
    BY ONLY <1>4, <1>6, <2>1
  <2>3. ~ (i < j)
    BY ONLY <1>4, <1>6, <2>1
  <2> QED BY <1>3, <1>4, <2>1, <2>2, <2>3
<1> QED BY <1>5, <1>7

(* The element that a token ends. *)
EndsOne(T, t, U, i) == Opened(T, i) /\ t = "end" /\ Levels(U)[Len(T) + 1] = 1 /\ Sane(T)

(* The elements after a token are those before it, and that one. *)
LEMMA ElementsGrow ==
  ASSUME NEW T, NEW t, NEW n, NEW U, OneMore(T, t, n, U)
  PROVE  \A p : p \in Elements(U) <=> p \in Elements(T) \/ \E i \in 1..n : EndsOne(T, t, U, i) /\ p = <<i, n + 1>>
<1>1. n \in Nat /\ n = Len(T) /\ Len(U) = n + 1
  BY GrownIs DEF OneMore, Grown
<1>2. ASSUME NEW p \in Elements(U) PROVE p \in Elements(T) \/ \E i \in 1..n : EndsOne(T, t, U, i) /\ p = <<i, n + 1>>
  <2>1. PICK a, b : a = p[1] /\ b = p[2]
    OBVIOUS
  <2>2. a \in 1..(n + 1) /\ b \in 1..(n + 1) /\ IsElement(U, a, b) /\ p = <<a, b>>
    BY <1>1, <1>2, <2>1 DEF Elements
  <2>3. n + 1 \in 1..(n + 1)
    BY <1>1
  <2>4. a # n + 1
    BY ONLY OneMore(T, t, n, U), <2>2, <2>3, PairNew
  <2>5. a \in 1..n
    BY <1>1, <2>2, <2>4
  <2>6. CASE b = n + 1
    <3>1. Opened(T, a) /\ t = "end" /\ Levels(U)[n + 1] = 1 /\ Sane(T)
      BY ONLY OneMore(T, t, n, U), <2>2, <2>6, PairNew
    <3> QED BY <1>1, <2>2, <2>5, <2>6, <3>1 DEF EndsOne
  <2>7. CASE b # n + 1
    <3>1. b \in 1..n
      BY <1>1, <2>2, <2>7
    <3>2. IsElement(T, a, b)
      BY ONLY OneMore(T, t, n, U), <2>2, <2>5, <3>1, PairStays
    <3> QED BY <1>1, <2>2, <2>5, <3>1, <3>2 DEF Elements
  <2> QED BY <2>6, <2>7
<1>3. ASSUME NEW p \in Elements(T) PROVE p \in Elements(U)
  <2>1. PICK a, b : a = p[1] /\ b = p[2]
    OBVIOUS
  <2>2. a \in 1..n /\ b \in 1..n /\ IsElement(T, a, b) /\ p = <<a, b>>
    BY <1>1, <1>3, <2>1 DEF Elements
  <2>3. IsElement(U, a, b)
    BY ONLY OneMore(T, t, n, U), <2>2, PairStays
  <2>4. a \in 1..(n + 1) /\ b \in 1..(n + 1)
    BY <1>1, <2>2
  <2> QED BY <1>1, <2>2, <2>3, <2>4 DEF Elements
<1>4. ASSUME NEW i \in 1..n, EndsOne(T, t, U, i) PROVE <<i, n + 1>> \in Elements(U)
  <2>1. i \in 1..(n + 1) /\ n + 1 \in 1..(n + 1)
    BY <1>1
  <2>2. Opened(T, i) /\ t = "end" /\ Levels(U)[n + 1] = 1 /\ Sane(T)
    BY <1>1, <1>4 DEF EndsOne
  <2>3. IsElement(U, i, n + 1)
    BY ONLY OneMore(T, t, n, U), <2>1, <2>2, PairNew
  <2> QED BY <1>1, <2>1, <2>3 DEF Elements
<1> QED BY <1>2, <1>3, <1>4

(* There are finitely many, and each has its number. *)
LEMMA ElementsNumbered ==
  ASSUME NEW T \in Seq(Tokens)
  PROVE  /\ IsFiniteSet(Elements(T)) /\ Cardinality(Elements(T)) \in Nat
         /\ \A p \in Elements(T) : Nth(p, T) \in 1..Cardinality(Elements(T))
<1>1. PICK n : n = Len(T)
  OBVIOUS
<1>2. IsFiniteSet(1..n)
  <2>1. n \in Int /\ 1 \in Int
    BY <1>1
  <2> QED BY <2>1, FS_Interval
<1>3. IsFiniteSet((1..n) \X (1..n))
  BY <1>2, FS_Product
<1>4. IsFiniteSet(Elements(T))
  <2>1. Elements(T) \subseteq (1..n) \X (1..n)
    BY <1>1 DEF Elements
  <2> QED BY <1>3, <2>1, FS_Subset
<1>5. Cardinality(Elements(T)) \in Nat
  BY <1>4, FS_CardinalityType
<1>6. ASSUME NEW p \in Elements(T) PROVE Nth(p, T) \in 1..Cardinality(Elements(T))
  <2>1. PICK Q : Q = {q \in Elements(T) : q[1] <= p[1]}
    OBVIOUS
  <2>2. Q \subseteq Elements(T)
    BY <2>1
  <2>3. p[1] \in 1..n
    BY <1>1, <1>6 DEF Elements
  <2>4. p \in Q
    BY <1>6, <2>1, <2>3
  <2>5. IsFiniteSet(Q) /\ Cardinality(Q) <= Cardinality(Elements(T)) /\ Cardinality(Q) \in Nat
    BY <1>4, <2>2, FS_Subset, FS_CardinalityType
  <2>6. Cardinality(Q) # 0
    BY <2>4, <2>5, FS_EmptySet
  <2>7. Nth(p, T) = Cardinality(Q)
    BY <2>1 DEF Nth
  <2> QED BY <1>5, <2>5, <2>6, <2>7
<1> QED BY <1>4, <1>5, <1>6

(* The elements there were keep their numbers and what they are. *)
LEMMA NumbersStay ==
  ASSUME NEW T, NEW t, NEW n, NEW U, OneMore(T, t, n, U), NEW p \in Elements(T)
  PROVE  /\ p \in Elements(U) /\ Nth(p, U) = Nth(p, T)
         /\ SubSeq(U, p[1], p[2]) = SubSeq(T, p[1], p[2])
<1>1. /\ n \in Nat /\ n = Len(T) /\ T \in Seq(Tokens) /\ U \in Seq(Tokens) /\ Len(U) = n + 1
      /\ \A i \in 1..n : U[i] = T[i]
  BY GrownIs DEF OneMore, Grown
<1>2. \A q : q \in Elements(U) <=> q \in Elements(T) \/ \E i \in 1..n : EndsOne(T, t, U, i) /\ q = <<i, n + 1>>
  BY ElementsGrow
<1>3. p[1] \in 1..n /\ p[2] \in 1..n
  BY <1>1 DEF Elements
<1>4. ASSUME NEW q \in Elements(U), q[1] <= p[1] PROVE q \in Elements(T)
  <2> SUFFICES ASSUME NEW i \in 1..n, EndsOne(T, t, U, i), q = <<i, n + 1>> PROVE FALSE
    BY <1>2
  <2>1. Opened(T, i)
    BY DEF EndsOne
  <2>2. p[1] < i
    BY <1>1, <2>1, OpenedIsLast
  <2>3. q[1] = i
    OBVIOUS
  <2> QED BY <1>3, <1>4, <2>2, <2>3
<1>5. {q \in Elements(U) : q[1] <= p[1]} = {q \in Elements(T) : q[1] <= p[1]}
  BY <1>2, <1>4
<1>6. SubSeq(U, p[1], p[2]) = SubSeq(T, p[1], p[2])
  <2>1. PICK a, b, V, W : a = p[1] /\ b = p[2] /\ V = SubSeq(T, a, b) /\ W = SubSeq(U, a, b)
    OBVIOUS
  <2>2. a \in 1..n /\ b \in 1..n /\ a \in Int /\ b \in Int
    BY <1>1, <1>3, <2>1
  <2>3. IsElement(T, a, b)
    BY <2>1 DEF Elements
  <2>4. a < b
    BY <2>3 DEF IsElement
  <2>5. /\ V \in Seq(Tokens) /\ Len(V) = b - a + 1 /\ \A i \in 1..(b - a + 1) : V[i] = T[a + i - 1]
        /\ W \in Seq(Tokens) /\ Len(W) = b - a + 1 /\ \A i \in 1..(b - a + 1) : W[i] = U[a + i - 1]
    <3>1. a <= b + 1 /\ (\A i \in a..b : i \in 1..n)
      BY <1>1, <2>2, <2>4
    <3>2. \A i \in a..b : T[i] \in Tokens /\ U[i] \in Tokens
      BY <1>1, <3>1, ElementOfSeq
    <3>3. \A i \in a..b : T[i] \in Tokens
      BY <3>2
    <3>4. \A i \in a..b : U[i] \in Tokens
      BY <3>2
    <3>5. /\ SubSeq(T, a, b) \in Seq(Tokens) /\ Len(SubSeq(T, a, b)) = (IF a <= b THEN b - a + 1 ELSE 0)
          /\ \A i \in 1..(b - a + 1) : SubSeq(T, a, b)[i] = T[a + i - 1]
      BY ONLY <2>2, <3>3, SubSeqProperties
    <3>6. /\ SubSeq(U, a, b) \in Seq(Tokens) /\ Len(SubSeq(U, a, b)) = (IF a <= b THEN b - a + 1 ELSE 0)
          /\ \A i \in 1..(b - a + 1) : SubSeq(U, a, b)[i] = U[a + i - 1]
      BY ONLY <2>2, <3>4, SubSeqProperties
    <3>7. a <= b
      BY <2>2, <2>4
    <3> QED BY ONLY <2>1, <3>5, <3>6, <3>7
  <2>6. \A i \in 1..(b - a + 1) : U[a + i - 1] = T[a + i - 1]
    <3> SUFFICES ASSUME NEW i \in 1..(b - a + 1) PROVE U[a + i - 1] = T[a + i - 1]
      OBVIOUS
    <3>1. a + i - 1 \in 1..n
      BY <1>1, <2>2
    <3> QED BY <1>1, <3>1
  <2>7. V = W
    BY ONLY <2>5, <2>6, SeqEqual
  <2> QED BY <2>1, <2>7
<1> QED BY <1>2, <1>5, <1>6 DEF Nth

(* How many there are after a token, and the number of the new one. *)
LEMMA ElementsCounted ==
  ASSUME NEW T, NEW t, NEW n, NEW U, OneMore(T, t, n, U), NEW c, c = Cardinality(Elements(T))
  PROVE  /\ (\A i \in 1..n : ~ EndsOne(T, t, U, i)) => Elements(U) = Elements(T)
         /\ \A i \in 1..n : EndsOne(T, t, U, i) =>
              /\ Cardinality(Elements(U)) = c + 1 /\ Nth(<<i, n + 1>>, U) = c + 1
              /\ Elements(U) = Elements(T) \cup {<<i, n + 1>>}
<1>1. \A q : q \in Elements(U) <=> q \in Elements(T) \/ \E i \in 1..n : EndsOne(T, t, U, i) /\ q = <<i, n + 1>>
  BY ElementsGrow
<1>2. n \in Nat /\ n = Len(T) /\ T \in Seq(Tokens)
  BY GrownIs DEF OneMore, Grown
<1>3. ASSUME NEW i \in 1..n, EndsOne(T, t, U, i)
      PROVE  /\ Cardinality(Elements(U)) = c + 1 /\ Nth(<<i, n + 1>>, U) = c + 1
             /\ Elements(U) = Elements(T) \cup {<<i, n + 1>>}
  <2>1. PICK p : p = <<i, n + 1>>
    OBVIOUS
  <2>2. p[1] = i /\ p[2] = n + 1
    BY <2>1
  <2>3. Opened(T, i)
    BY <1>3 DEF EndsOne
  <2>4. \A j : Opened(T, j) => j = i
    BY <1>2, <2>3, OpenedIsLast
  <2>5. \A q \in Elements(T) : q[1] < i
    BY <1>2, <2>3, OpenedIsLast
  <2>6. Elements(U) = Elements(T) \cup {p}
    <3>1. \A q : q \in Elements(U) => q \in Elements(T) \cup {p}
      BY <1>1, <2>1, <2>4 DEF EndsOne
    <3>2. \A q : q \in Elements(T) \cup {p} => q \in Elements(U)
      BY <1>1, <1>3, <2>1
    <3> QED BY <3>1, <3>2
  <2>7. p \notin Elements(T)
    BY <1>2, <2>2, <2>5
  <2>8. IsFiniteSet(Elements(T))
    BY <1>2, ElementsNumbered
  <2>9. Cardinality(Elements(U)) = c + 1
    BY <2>6, <2>7, <2>8, FS_AddElement
  <2>10. {q \in Elements(U) : q[1] <= p[1]} = Elements(U)
    <3>1. \A q \in Elements(T) : q[1] \in Int /\ q[1] <= p[1]
      <4> SUFFICES ASSUME NEW q \in Elements(T) PROVE q[1] \in Int /\ q[1] <= p[1]
        OBVIOUS
      <4>1. q[1] \in 1..Len(T)
        BY DEF Elements
      <4> QED BY <1>2, <2>2, <2>5, <4>1
    <3>2. p[1] <= p[1]
      BY <2>2
    <3> QED BY <2>6, <3>1, <3>2
  <2>11. Nth(p, U) = c + 1
    BY <2>9, <2>10 DEF Nth
  <2> QED BY <2>1, <2>6, <2>9, <2>11
<1>4. ASSUME \A i \in 1..n : ~ EndsOne(T, t, U, i) PROVE Elements(U) = Elements(T)
  BY <1>1, <1>4
<1> QED BY <1>3, <1>4

------------------------------------------------------------------------------
(* The calls that give an element away, and that they give those there are. *)
NodesIn(list) == {k \in DOMAIN list : list[k].type = "NODE"}
Given(list, T) ==
  /\ NodesIn(list) \subseteq 2..(Cardinality(Elements(T)) + 1)
  /\ \A p \in Elements(T) : Nth(p, T) + 1 \in NodesIn(list) => list[Nth(p, T) + 1].node = SubSeq(T, p[1], p[2])

(* A call more. *)
CallAdded(list, call, more) ==
  /\ more \in Seq(Calls) /\ Len(list) \in Nat /\ Len(more) = Len(list) + 1
  /\ more[Len(list) + 1] = call /\ \A k \in 1..Len(list) : more[k] = list[k]
  /\ DOMAIN list = 1..Len(list) /\ DOMAIN more = 1..(Len(list) + 1)
  /\ NodesIn(more) = IF call.type = "NODE" THEN NodesIn(list) \cup {Len(list) + 1} ELSE NodesIn(list)

(* Append adds it behind the others. *)
LEMMA CallMore ==
  ASSUME NEW list \in Seq(Calls), NEW call \in Calls
  PROVE  CallAdded(list, call, Append(list, call))
<1>0. PICK more : more = Append(list, call)
  OBVIOUS
<1>1. /\ more \in Seq(Calls) /\ Len(list) \in Nat /\ Len(more) = Len(list) + 1
      /\ more[Len(list) + 1] = call /\ \A k \in 1..Len(list) : more[k] = list[k]
  BY <1>0, AppendProperties, LenProperties
<1>2. DOMAIN list = 1..Len(list) /\ DOMAIN more = 1..(Len(list) + 1)
  BY <1>1, LenProperties
<1>3. \A k : k \in 1..(Len(list) + 1) <=> k \in 1..Len(list) \/ k = Len(list) + 1
  BY <1>1
<1>4. \A k : k \in NodesIn(more) <=> k \in NodesIn(list) \/ (k = Len(list) + 1 /\ call.type = "NODE")
  <2> SUFFICES ASSUME NEW k PROVE k \in NodesIn(more) <=> k \in NodesIn(list) \/ (k = Len(list) + 1 /\ call.type = "NODE")
    OBVIOUS
  <2>1. k \in NodesIn(more) <=> k \in 1..(Len(list) + 1) /\ more[k].type = "NODE"
    BY <1>2 DEF NodesIn
  <2>2. k \in NodesIn(list) <=> k \in 1..Len(list) /\ list[k].type = "NODE"
    BY <1>2 DEF NodesIn
  <2>3. ~ (Len(list) + 1 \in 1..Len(list))
    BY <1>1
  <2>4. CASE k \in 1..Len(list)
    <3>1. more[k] = list[k] /\ k # Len(list) + 1 /\ k \in 1..(Len(list) + 1)
      BY <1>1, <2>3, <2>4
    <3> QED BY ONLY <2>1, <2>2, <2>4, <3>1
  <2>5. CASE k = Len(list) + 1
    <3>1. more[k] = call
      BY ONLY <1>1, <2>5
    <3> QED BY ONLY <1>3, <2>1, <2>2, <2>3, <2>5, <3>1
  <2>6. CASE k \notin 1..Len(list) /\ k # Len(list) + 1
    BY ONLY <1>3, <2>1, <2>2, <2>6
  <2> QED BY <2>4, <2>5, <2>6
<1>5. CASE call.type = "NODE"
  <2>1. NodesIn(more) = NodesIn(list) \cup {Len(list) + 1}
    BY ONLY <1>4, <1>5
  <2> QED BY <1>0, <1>1, <1>2, <1>5, <2>1 DEF CallAdded
<1>6. CASE call.type # "NODE"
  <2>1. \A k : k \in NodesIn(more) <=> k \in NodesIn(list)
    BY ONLY <1>4, <1>6
  <2>2. NodesIn(more) = NodesIn(list)
    BY ONLY <2>1
  <2> QED BY <1>0, <1>1, <1>2, <1>6, <2>2 DEF CallAdded
<1> QED BY <1>5, <1>6

(* What was given stays right when there is a token more. *)
LEMMA GivenGrows ==
  ASSUME NEW T, NEW t, NEW n, NEW U, OneMore(T, t, n, U), NEW list, Given(list, T)
  PROVE  Given(list, U)
<1>1. PICK c : c = Cardinality(Elements(T))
  OBVIOUS
<1>2. c \in Nat
  BY <1>1, ElementsNumbered DEF OneMore
<1>3. NodesIn(list) \subseteq 2..(c + 1)
  BY <1>1 DEF Given
<1>4. \A p \in Elements(T) : Nth(p, T) + 1 \in NodesIn(list) => list[Nth(p, T) + 1].node = SubSeq(T, p[1], p[2])
  BY DEF Given
<1>a. \A p \in Elements(T) : Nth(p, U) = Nth(p, T) /\ SubSeq(U, p[1], p[2]) = SubSeq(T, p[1], p[2])
  <2> SUFFICES ASSUME NEW p \in Elements(T) PROVE Nth(p, U) = Nth(p, T) /\ SubSeq(U, p[1], p[2]) = SubSeq(T, p[1], p[2])
    OBVIOUS
  <2>1. p \in Elements(U) /\ Nth(p, U) = Nth(p, T) /\ SubSeq(U, p[1], p[2]) = SubSeq(T, p[1], p[2])
    BY NumbersStay
  <2> QED BY <2>1
<1>5. CASE \A i \in 1..n : ~ EndsOne(T, t, U, i)
  <2>1. Elements(U) = Elements(T)
    BY <1>1, <1>5, ElementsCounted
  <2>2. \A p \in Elements(U) : Nth(p, U) + 1 \in NodesIn(list) => list[Nth(p, U) + 1].node = SubSeq(U, p[1], p[2])
    BY <1>4, <1>a, <2>1
  <2> QED BY <1>1, <1>3, <2>1, <2>2 DEF Given
<1>6. ASSUME NEW i \in 1..n, EndsOne(T, t, U, i) PROVE Given(list, U)
  <2>1. Cardinality(Elements(U)) = c + 1 /\ Nth(<<i, n + 1>>, U) = c + 1 /\ Elements(U) = Elements(T) \cup {<<i, n + 1>>}
    BY <1>1, <1>6, ElementsCounted
  <2>2. Nth(<<i, n + 1>>, U) + 1 \notin NodesIn(list)
    BY <1>2, <1>3, <2>1
  <2>3. \A p \in Elements(U) : Nth(p, U) + 1 \in NodesIn(list) => list[Nth(p, U) + 1].node = SubSeq(U, p[1], p[2])
    BY <1>4, <1>a, <2>1, <2>2
  <2>4. NodesIn(list) \subseteq 2..((c + 1) + 1)
    BY <1>2, <1>3
  <2> QED BY <2>1, <2>3, <2>4 DEF Given
<1> QED BY <1>5, <1>6

(* ... and when there is another call. *)
LEMMA GivenOther ==
  ASSUME NEW list \in Seq(Calls), NEW call \in Calls, call.type # "NODE", NEW T, Given(list, T)
  PROVE  Given(Append(list, call), T)
<1>1. PICK more : more = Append(list, call)
  OBVIOUS
<1>2. NodesIn(more) = NodesIn(list) /\ \A k \in NodesIn(list) : more[k] = list[k]
  BY <1>1, CallMore DEF NodesIn, CallAdded
<1> QED BY <1>1, <1>2 DEF Given

(* An element that is open goes on with the token. *)
LEMMA HandGrows ==
  ASSUME NEW T, NEW t, NEW n, NEW U, OneMore(T, t, n, U), NEW i, Opened(T, i)
  PROVE  /\ SubSeq(U, i, n + 1) = Append(SubSeq(T, i, n), t)
         /\ Levels(U)[n + 1] >= 2 => Opened(U, i)
<1>1. PICK g, h : Grown(T, t, n, U, g, h)
  BY GrownIs
<1>2. /\ n \in Nat /\ T \in Seq(Tokens) /\ U \in Seq(Tokens) /\ Len(T) = n /\ Len(U) = n + 1 /\ U[n + 1] = t
      /\ (\A k \in 1..n : U[k] = T[k]) /\ g = Levels(T) /\ h = Levels(U)
      /\ (\A k \in 0..n : h[k] = g[k])
  BY <1>1 DEF Grown
<1>3. i \in 1..n /\ T[i] = "start" /\ g[i] = 2 /\ \A k \in i..n : g[k] >= 2
  BY <1>2 DEF Opened
<1>4. t \in Tokens
  BY DEF OneMore
<1>5. PICK V, W : V = SubSeq(T, i, n) /\ W = SubSeq(U, i, n + 1)
  OBVIOUS
<1>6. V \in Seq(Tokens) /\ Len(V) = n - i + 1 /\ \A k \in 1..(n - i + 1) : V[k] = T[i + k - 1]
  <2>1. \A k \in i..n : T[k] \in Tokens
    <3>1. \A k \in i..n : k \in 1..Len(T)
      BY <1>2, <1>3
    <3> QED BY <1>2, <3>1, ElementOfSeq
  <2>2. i \in Int /\ n \in Int /\ i <= n
    BY <1>2, <1>3
  <2>3. /\ SubSeq(T, i, n) \in Seq(Tokens) /\ Len(SubSeq(T, i, n)) = (IF i <= n THEN n - i + 1 ELSE 0)
        /\ \A k \in 1..(n - i + 1) : SubSeq(T, i, n)[k] = T[i + k - 1]
    BY ONLY <2>1, <2>2, SubSeqProperties
  <2> QED BY ONLY <1>5, <2>2, <2>3
<1>7. W \in Seq(Tokens) /\ Len(W) = n - i + 2 /\ \A k \in 1..(n - i + 2) : W[k] = U[i + k - 1]
  <2>1. PICK m : m = n + 1
    OBVIOUS
  <2>2. \A k \in i..m : U[k] \in Tokens
    <3>1. \A k \in i..m : k \in 1..Len(U)
      BY <1>2, <1>3, <2>1
    <3> QED BY <1>2, <3>1, ElementOfSeq
  <2>3. i \in Int /\ m \in Int /\ i <= m /\ m - i + 1 = n - i + 2
    BY <1>2, <1>3, <2>1
  <2>4. /\ SubSeq(U, i, m) \in Seq(Tokens) /\ Len(SubSeq(U, i, m)) = (IF i <= m THEN m - i + 1 ELSE 0)
        /\ \A k \in 1..(m - i + 1) : SubSeq(U, i, m)[k] = U[i + k - 1]
    BY ONLY <2>2, <2>3, SubSeqProperties
  <2> QED BY ONLY <1>5, <2>1, <2>3, <2>4
<1>8. W = Append(V, t)
  <2>1. PICK X : X = Append(V, t)
    OBVIOUS
  <2>2. X \in Seq(Tokens) /\ Len(X) = (n - i + 1) + 1 /\ X[(n - i + 1) + 1] = t /\ \A k \in 1..(n - i + 1) : X[k] = V[k]
    BY <1>4, <1>6, <2>1, AppendProperties
  <2>3. Len(X) = Len(W)
    BY <1>2, <1>3, <1>7, <2>2
  <2>4. ASSUME NEW k \in 1..Len(W) PROVE X[k] = W[k]
    <3>1. CASE k = n - i + 2
      <4>1. k = (n - i + 1) + 1 /\ i + k - 1 = n + 1 /\ k \in 1..(n - i + 2)
        BY <1>2, <1>3, <3>1
      <4> QED BY <1>2, <1>7, <2>2, <4>1
    <3>2. CASE k # n - i + 2
      <4>1. k \in 1..(n - i + 1) /\ k \in 1..(n - i + 2) /\ i + k - 1 \in 1..n
        BY <1>2, <1>3, <1>7, <2>4, <3>2
      <4> QED BY <1>2, <1>6, <1>7, <2>2, <4>1
    <3> QED BY <3>1, <3>2
  <2>5. X = W
    BY ONLY <1>7, <2>2, <2>3, <2>4, SeqEqual
  <2> QED BY <2>1, <2>5
<1>9. ASSUME h[n + 1] >= 2 PROVE Opened(U, i)
  <2>1. i \in 1..(n + 1) /\ U[i] = "start" /\ h[i] = 2
    BY <1>2, <1>3
  <2>2. ASSUME NEW k \in i..(n + 1) PROVE h[k] >= 2
    <3>1. CASE k = n + 1
      BY <1>9, <3>1
    <3>2. CASE k # n + 1
      <4>1. k \in i..n /\ k \in 0..n
        BY <1>2, <1>3, <3>2
      <4> QED BY <1>2, <1>3, <4>1
    <3> QED BY <3>1, <3>2
  <2> QED BY <1>2, <2>1, <2>2 DEF Opened
<1> QED BY <1>2, <1>5, <1>8, <1>9

(* While nothing has gone wrong, and below the root: the levels that expat
   and xstream.c keep are that of the last token, what is in hand is the
   element that is open, and all those that are closed were given away. *)
InElement(level, open, node, T) ==
  \/ open = -1 /\ level = 1
  \/ open >= 1 /\ level = open + 1 /\ \E i \in 1..Len(T) : Opened(T, i) /\ node = SubSeq(T, i, Len(T))
Good(level, depth, open, node, list, T) ==
  /\ level = Levels(T)[Len(T)] /\ depth = level /\ level \in 1..MaxDepth /\ open \in Int
  /\ Sane(T) /\ InElement(level, open, node, T)
  /\ Len(list) = Cardinality(Elements(T)) + 1 /\ NodesIn(list) = 2..(Cardinality(Elements(T)) + 1)

(* A token more of a sane stream. *)
LEMMA SaneGrows ==
  ASSUME NEW T, NEW t, NEW n, NEW U, OneMore(T, t, n, U), t # "bad", Sane(T)
  PROVE  Sane(U)
<1>1. n \in Nat /\ Len(T) = n /\ Len(U) = n + 1 /\ U[n + 1] = t /\ \A k \in 1..n : U[k] = T[k]
  BY GrownIs DEF Grown
<1>2. \A k \in 1..n : T[k] # "bad"
  BY <1>1 DEF Sane
<1>3. ASSUME NEW k \in 1..(n + 1) PROVE U[k] # "bad"
  <2>1. k \in 1..n \/ k = n + 1
    BY <1>1
  <2> QED BY <1>1, <1>2, <2>1
<1> QED BY <1>1, <1>3 DEF Sane

(* The levels and the elements after a token, when it ends none of them. *)
LEMMA TokenLevels ==
  ASSUME NEW T, NEW t, NEW n, NEW U, OneMore(T, t, n, U)
  PROVE  /\ n \in Nat /\ n = Len(T) /\ Len(U) = n + 1 /\ T \in Seq(Tokens) /\ U \in Seq(Tokens)
         /\ Levels(U)[Len(U)] = Levels(T)[Len(T)] + Up(t) /\ Levels(T)[Len(T)] \in Int
         /\ t # "end" \/ Levels(U)[Len(U)] # 1 => Elements(U) = Elements(T)
         /\ \A k \in 1..n : Levels(U)[k] = Levels(T)[k] /\ Levels(T)[k] \in Int
<1>1. PICK g, h : Grown(T, t, n, U, g, h)
  BY GrownIs
<1>2. /\ n \in Nat /\ T \in Seq(Tokens) /\ U \in Seq(Tokens) /\ Len(T) = n /\ Len(U) = n + 1 /\ U[n + 1] = t
      /\ g = Levels(T) /\ h = Levels(U)
      /\ (\A k \in 0..n : h[k] = g[k] /\ g[k] \in Int) /\ h[n + 1] = g[n] + Up(t)
  BY <1>1 DEF Grown
<1>3. (\A k \in 1..n : h[k] = g[k] /\ g[k] \in Int) /\ g[n] \in Int
  BY <1>2
<1>4. ASSUME t # "end" \/ h[n + 1] # 1 PROVE Elements(U) = Elements(T)
  <2>1. PICK c : c = Cardinality(Elements(T))
    OBVIOUS
  <2>2. \A i \in 1..n : ~ EndsOne(T, t, U, i)
    BY <1>2, <1>4 DEF EndsOne
  <2>3. (\A i \in 1..n : ~ EndsOne(T, t, U, i)) => Elements(U) = Elements(T)
    BY <2>1, ElementsCounted
  <2> QED BY <2>2, <2>3
<1> QED BY <1>2, <1>3, <1>4

(* The first token, which is the root's. *)
LEMMA GoodRoot ==
  ASSUME XStreamAssumption, NEW U, OneMore(<<>>, "start", 0, U), NEW node, NEW list, list = <<RootCall>>
  PROVE  Good(1, 1, -1, node, list, U) /\ Given(list, U)
<1>1. PICK T, g : T = <<>> /\ g = Levels(T)
  OBVIOUS
<1>2. T \in Seq(Tokens) /\ Len(T) = 0 /\ \A k \in 1..0 : FALSE
  BY <1>1, EmptySeq
<1>3. g[0] = 0
  BY <1>1, <1>2, LevelsRun DEF LevelRun
<1>4. Up("start") = 1 /\ "start" # "end" /\ "start" # "bad"
  BY DEF Up
<1>5. Len(U) = 1 /\ Levels(U)[Len(U)] = Levels(T)[Len(T)] + Up("start") /\ Elements(U) = Elements(T)
  BY <1>1, <1>4, TokenLevels
<1>6. Levels(U)[Len(U)] = 1
  BY <1>1, <1>2, <1>3, <1>4, <1>5
<1>7. Elements(T) = {}
  BY <1>2 DEF Elements
<1>8. Cardinality(Elements(U)) = 0
  BY <1>5, <1>7, FS_EmptySet
<1>9. Sane(U)
  <2>1. Sane(T)
    BY <1>2 DEF Sane
  <2> QED BY <1>1, <1>4, <2>1, SaneGrows
<1>10. Len(list) = 1 /\ NodesIn(list) = {}
  BY CallsAre DEF NodesIn
<1>11. 1 \in 1..MaxDepth /\ -1 \in Int
  BY DEF XStreamAssumption
<1>12. 2..(0 + 1) = {}
  OBVIOUS
<1>13. Good(1, 1, -1, node, list, U)
  BY <1>6, <1>8, <1>9, <1>10, <1>11, <1>12 DEF Good, InElement
<1>14. Given(list, U)
  BY <1>5, <1>7, <1>10 DEF Given
<1> QED BY <1>13, <1>14

(* A tag below the root opens an element. *)
LEMMA GoodOpens ==
  ASSUME NEW T, NEW n, NEW U, OneMore(T, "start", n, U), NEW level, NEW depth, NEW node, NEW list,
         Good(level, depth, -1, node, list, T), level + 1 <= MaxDepth, XStreamAssumption
  PROVE  Good(level + 1, depth + 1, 1, <<"start">>, list, U)
<1>1. PICK t : t = "start"
  OBVIOUS
<1>2. Up(t) = 1 /\ t # "end" /\ t # "bad"
  BY <1>1 DEF Up
<1>3. level = Levels(T)[Len(T)] /\ depth = level /\ level = 1 /\ Sane(T)
      /\ Len(list) = Cardinality(Elements(T)) + 1 /\ NodesIn(list) = 2..(Cardinality(Elements(T)) + 1)
  BY DEF Good, InElement
<1>4. /\ n \in Nat /\ n = Len(T) /\ Len(U) = n + 1 /\ U \in Seq(Tokens)
      /\ Levels(U)[Len(U)] = Levels(T)[Len(T)] + Up(t) /\ Elements(U) = Elements(T)
  BY <1>1, <1>2, TokenLevels
<1>5. Levels(U)[n + 1] = 2
  <2>1. Levels(U)[Len(U)] = 1 + 1
    BY ONLY <1>2, <1>3, <1>4
  <2> QED BY <1>4, <2>1
<1>6. U[n + 1] = t
  BY <1>1, GrownIs DEF Grown
<1>7. n + 1 \in 1..Len(U) /\ \A k \in (n + 1)..Len(U) : k = n + 1
  BY <1>4
<1>8. Opened(U, n + 1)
  BY <1>1, <1>4, <1>5, <1>6, <1>7 DEF Opened
<1>9. SubSeq(U, n + 1, Len(U)) = <<"start">>
  <2>1. PICK m, k, V : m = n + 1 /\ k = m /\ V = SubSeq(U, m, k)
    OBVIOUS
  <2>2. m \in Int /\ k \in Int /\ m <= k /\ k - m + 1 = 1 /\ m + 1 - 1 = m
    BY <1>4, <2>1
  <2>3. \A j \in m..k : U[j] \in Tokens
    BY <1>1, <1>4, <1>6, <2>1 DEF Tokens
  <2>4. /\ SubSeq(U, m, k) \in Seq(Tokens) /\ Len(SubSeq(U, m, k)) = (IF m <= k THEN k - m + 1 ELSE 0)
        /\ \A j \in 1..(k - m + 1) : SubSeq(U, m, k)[j] = U[m + j - 1]
    BY ONLY <2>2, <2>3, SubSeqProperties
  <2>5. V \in Seq(Tokens) /\ Len(V) = 1
    BY ONLY <2>1, <2>2, <2>4
  <2>6. V[1] = U[m]
    <3>1. 1 \in 1..(k - m + 1)
      BY <2>2
    <3> QED BY ONLY <2>1, <2>2, <2>4, <3>1
  <2>7. V[1] = "start"
    BY ONLY <1>1, <1>6, <2>1, <2>6
  <2>8. V = <<"start">>
    BY ONLY <2>5, <2>7
  <2> QED BY ONLY <1>4, <2>1, <2>8
<1>10. level + 1 \in 1..MaxDepth
  BY <1>3 DEF XStreamAssumption
<1>11. InElement(level + 1, 1, <<"start">>, U)
  <2>1. level + 1 = 1 + 1 /\ 1 >= 1
    BY <1>3
  <2> QED BY ONLY <1>7, <1>8, <1>9, <2>1 DEF InElement
<1>12. Sane(U)
  BY <1>1, <1>2, <1>3, SaneGrows
<1>13. Levels(U)[Len(U)] = level + 1 /\ depth + 1 = level + 1 /\ 1 \in Int
  <2>1. level + 1 = 2 /\ Levels(U)[Len(U)] = Levels(U)[n + 1]
    BY ONLY <1>3, <1>4
  <2> QED BY ONLY <1>3, <1>5, <2>1
<1> QED BY <1>3, <1>4, <1>10, <1>11, <1>12, <1>13 DEF Good

(* Inside of one, a token that does not end it. *)
LEMMA GoodInside ==
  ASSUME NEW T, NEW t, NEW n, NEW U, OneMore(T, t, n, U), NEW level, NEW depth, NEW open, NEW node, NEW list,
         Good(level, depth, open, node, list, T), open # -1, t # "bad", NEW up, up = Up(t),
         level + up \in 2..MaxDepth
  PROVE  Good(level + up, depth + up, open + up, Append(node, t), list, U)
<1>1. /\ level = Levels(T)[Len(T)] /\ depth = level /\ level \in 1..MaxDepth /\ open \in Int /\ Sane(T)
      /\ Len(list) = Cardinality(Elements(T)) + 1 /\ NodesIn(list) = 2..(Cardinality(Elements(T)) + 1)
      /\ InElement(level, open, node, T)
  BY DEF Good
<1>2. PICK i \in 1..Len(T) : Opened(T, i) /\ node = SubSeq(T, i, Len(T)) /\ open >= 1 /\ level = open + 1
  BY <1>1 DEF InElement
<1>3. up \in -1..1
  BY UpIs
<1>4. /\ n \in Nat /\ n = Len(T) /\ Len(U) = n + 1 /\ U \in Seq(Tokens)
      /\ Levels(U)[Len(U)] = Levels(T)[Len(T)] + up
      /\ t # "end" \/ Levels(U)[Len(U)] # 1 => Elements(U) = Elements(T)
  BY TokenLevels
<1>5. Levels(U)[Len(U)] = level + up /\ level + up >= 2 /\ level + up \in 1..MaxDepth /\ level + up # 1
  BY <1>1, <1>3, <1>4
<1>6. Elements(U) = Elements(T)
  BY <1>4, <1>5
<1>7. SubSeq(U, i, n + 1) = Append(SubSeq(T, i, n), t) /\ (Levels(U)[n + 1] >= 2 => Opened(U, i))
  BY <1>2, HandGrows
<1>8. Opened(U, i) /\ Append(node, t) = SubSeq(U, i, Len(U)) /\ i \in 1..Len(U)
  <2>1. Levels(U)[n + 1] >= 2
    BY ONLY <1>4, <1>5
  <2>2. i \in 1..Len(U)
    BY <1>2, <1>4
  <2> QED BY ONLY <1>2, <1>4, <1>7, <2>1, <2>2
<1>9. open + up >= 1 /\ level + up = (open + up) + 1 /\ open + up \in Int /\ depth + up = level + up
  BY <1>1, <1>2, <1>3, <1>5
<1>10. InElement(level + up, open + up, Append(node, t), U)
  BY <1>8, <1>9 DEF InElement
<1>11. Sane(U)
  BY <1>1, SaneGrows
<1> QED BY <1>1, <1>5, <1>6, <1>9, <1>10, <1>11 DEF Good

(* Between the elements, a text. *)
LEMMA GoodOutside ==
  ASSUME NEW T, NEW n, NEW U, OneMore(T, "text", n, U), NEW level, NEW depth, NEW node, NEW list,
         Good(level, depth, -1, node, list, T)
  PROVE  Good(level, depth, -1, node, list, U)
<1>1. PICK t : t = "text"
  OBVIOUS
<1>2. Up(t) = 0 /\ t # "end" /\ t # "bad"
  BY <1>1 DEF Up
<1>3. /\ level = Levels(T)[Len(T)] /\ depth = level /\ level = 1 /\ level \in 1..MaxDepth /\ Sane(T)
      /\ Len(list) = Cardinality(Elements(T)) + 1 /\ NodesIn(list) = 2..(Cardinality(Elements(T)) + 1)
  BY DEF Good, InElement
<1>4. Levels(U)[Len(U)] = Levels(T)[Len(T)] + Up(t) /\ Elements(U) = Elements(T)
  BY <1>1, <1>2, TokenLevels
<1>5. Levels(U)[Len(U)] = level
  <2>1. Levels(U)[Len(U)] = 1 + 0
    BY ONLY <1>2, <1>3, <1>4
  <2> QED BY <1>3, <2>1
<1>6. Sane(U)
  BY <1>1, <1>2, <1>3, SaneGrows
<1>7. -1 \in Int /\ InElement(level, -1, node, U)
  BY <1>3 DEF InElement
<1> QED BY <1>3, <1>4, <1>5, <1>6, <1>7 DEF Good

(* The tag that ends an element, which is given away with it. *)
LEMMA GoodDelivers ==
  ASSUME NEW T, NEW n, NEW U, OneMore(T, "end", n, U), NEW level, NEW depth, NEW node \in Seq(Tokens), NEW list \in Seq(Calls),
         Good(level, depth, 1, node, list, T), Given(list, T), XStreamAssumption,
         NEW more, more = Append(list, NodeCall(Append(node, "end")))
  PROVE  Good(level - 1, depth - 1, -1, <<>>, more, U) /\ Given(more, U)
<1>1. PICK t, c : t = "end" /\ c = Cardinality(Elements(T))
  OBVIOUS
<1>2. Up(t) = -1 /\ t # "bad"
  BY <1>1 DEF Up
<1>3. /\ level = Levels(T)[Len(T)] /\ depth = level /\ level \in 1..MaxDepth /\ Sane(T)
      /\ Len(list) = c + 1 /\ NodesIn(list) = 2..(c + 1) /\ InElement(level, 1, node, T)
  BY <1>1 DEF Good
<1>4. PICK i \in 1..Len(T) : Opened(T, i) /\ node = SubSeq(T, i, Len(T)) /\ level = 2
  BY <1>3 DEF InElement
<1>5. /\ n \in Nat /\ n = Len(T) /\ Len(U) = n + 1 /\ T \in Seq(Tokens) /\ U \in Seq(Tokens)
      /\ Levels(U)[Len(U)] = Levels(T)[Len(T)] + Up(t)
  BY <1>1, TokenLevels
<1>6. Levels(U)[n + 1] = 1
  <2>1. Levels(U)[Len(U)] = 2 + (-1)
    BY ONLY <1>2, <1>3, <1>4, <1>5
  <2> QED BY <1>5, <2>1
<1>7. i \in 1..n /\ EndsOne(T, t, U, i)
  BY <1>1, <1>3, <1>4, <1>5, <1>6 DEF EndsOne
<1>8. PICK p : p = <<i, n + 1>>
  OBVIOUS
<1>9. Cardinality(Elements(U)) = c + 1 /\ Nth(p, U) = c + 1 /\ Elements(U) = Elements(T) \cup {p}
  BY <1>1, <1>7, <1>8, ElementsCounted
<1>10. c \in Nat
  BY <1>1, <1>5, ElementsNumbered
<1>11. PICK whole : whole = Append(node, t)
  OBVIOUS
<1>12. SubSeq(U, p[1], p[2]) = whole
  <2>1. /\ SubSeq(U, i, n + 1) = Append(SubSeq(T, i, n), t)
        /\ Levels(U)[n + 1] >= 2 => Opened(U, i)
    <3>1. OneMore(T, t, n, U) /\ Opened(T, i)
      BY <1>1, <1>4
    <3> QED BY ONLY <3>1, HandGrows
  <2>2. p[1] = i /\ p[2] = n + 1
    BY <1>8
  <2> QED BY ONLY <1>4, <1>5, <1>11, <2>1, <2>2
<1>13. whole \in Seq(Tokens)
  BY <1>1, <1>11, AppendProperties DEF Tokens
<1>14. NodeCall(whole) \in Calls /\ NodeCall(whole).type = "NODE" /\ NodeCall(whole).node = whole
  BY <1>13, CallsAre
<1>15. /\ Len(more) = Len(list) + 1 /\ more[Len(list) + 1] = NodeCall(whole) /\ (\A k \in 1..Len(list) : more[k] = list[k])
       /\ NodesIn(more) = NodesIn(list) \cup {Len(list) + 1}
  <2>1. PICK call : call = NodeCall(whole)
    OBVIOUS
  <2>2. call \in Calls /\ call.type = "NODE"
    BY <1>14, <2>1
  <2>3. PICK longer : longer = Append(list, call)
    OBVIOUS
  <2>4. /\ Len(longer) = Len(list) + 1 /\ longer[Len(list) + 1] = call /\ (\A k \in 1..Len(list) : longer[k] = list[k])
        /\ NodesIn(longer) = NodesIn(list) \cup {Len(list) + 1}
    <3>1. CallAdded(list, call, longer)
      BY <2>2, <2>3, CallMore
    <3> QED BY ONLY <2>2, <3>1 DEF CallAdded
  <2>5. more = longer
    BY ONLY more = Append(list, NodeCall(Append(node, "end"))), <1>1, <1>11, <2>1, <2>3
  <2> QED BY ONLY <2>1, <2>4, <2>5
<1>16. Len(more) = (c + 1) + 1 /\ NodesIn(more) = 2..((c + 1) + 1)
  <2>1. 2..(c + 1) \cup {(c + 1) + 1} = 2..((c + 1) + 1)
    BY ONLY <1>10
  <2> QED BY ONLY <1>3, <1>15, <2>1
<1>17. \A q \in Elements(T) : Nth(q, U) = Nth(q, T) /\ SubSeq(U, q[1], q[2]) = SubSeq(T, q[1], q[2]) /\ Nth(q, T) \in 1..c
  <2> SUFFICES ASSUME NEW q \in Elements(T)
               PROVE  Nth(q, U) = Nth(q, T) /\ SubSeq(U, q[1], q[2]) = SubSeq(T, q[1], q[2]) /\ Nth(q, T) \in 1..c
    OBVIOUS
  <2>1. q \in Elements(U) /\ Nth(q, U) = Nth(q, T) /\ SubSeq(U, q[1], q[2]) = SubSeq(T, q[1], q[2])
    BY NumbersStay
  <2>2. Nth(q, T) \in 1..c
    BY <1>1, <1>5, ElementsNumbered
  <2> QED BY <2>1, <2>2
<1>18. Given(more, U)
  <2>1. \A q \in Elements(T) : Nth(q, T) + 1 \in NodesIn(list) => list[Nth(q, T) + 1].node = SubSeq(T, q[1], q[2])
    BY DEF Given
  <2>2. ASSUME NEW q \in Elements(U) PROVE more[Nth(q, U) + 1].node = SubSeq(U, q[1], q[2])
    <3>1. CASE q = p
      <4>1. Nth(q, U) + 1 = Len(list) + 1
        BY ONLY <1>3, <1>9, <3>1
      <4> QED BY ONLY <1>12, <1>14, <1>15, <3>1, <4>1
    <3>2. CASE q \in Elements(T)
      <4>1. PICK k : k = Nth(q, T) + 1
        OBVIOUS
      <4>2. k \in 2..(c + 1) /\ k \in 1..Len(list) /\ Nth(q, U) + 1 = k
        BY <1>3, <1>10, <1>17, <3>2, <4>1
      <4>3. list[k].node = SubSeq(T, q[1], q[2])
        BY ONLY <1>3, <2>1, <3>2, <4>1, <4>2
      <4>4. more[k] = list[k]
        BY ONLY <1>15, <4>2
      <4> QED BY ONLY <1>17, <3>2, <4>2, <4>3, <4>4
    <3> QED BY <1>9, <2>2, <3>1, <3>2
  <2> QED BY <1>9, <1>16, <2>2 DEF Given
<1>19. Sane(U)
  BY <1>1, <1>2, <1>3, SaneGrows
<1>20. Levels(U)[Len(U)] = level - 1 /\ depth - 1 = level - 1 /\ level - 1 = 1 /\ level - 1 \in 1..MaxDepth
  <2>1. level - 1 = 1 /\ Levels(U)[Len(U)] = Levels(U)[n + 1]
    BY ONLY <1>4, <1>5
  <2>2. level - 1 \in 1..MaxDepth
    BY <1>3, <1>4 DEF XStreamAssumption
  <2> QED BY ONLY <1>3, <1>6, <2>1, <2>2
<1>21. -1 \in Int /\ InElement(level - 1, -1, <<>>, U)
  BY <1>20 DEF InElement
<1> QED BY <1>9, <1>16, <1>18, <1>19, <1>20, <1>21 DEF Good

(* The calls come in order, and so far only those of the root and of elements. *)
Ordered(list) ==
  \A i \in DOMAIN list :
    /\ (list[i].type = "ROOT") <=> (i = 1 /\ list[i].type # "ERR")
    /\ list[i].type \in {"CLOSE", "ERR"} => \A j \in DOMAIN list : j > i => list[j].type = "ERR"
Going(list) == list # <<>> /\ \A i \in DOMAIN list : list[i].type \in {"ROOT", "NODE"}

(* A call more keeps them in order, when nothing but an error follows an end. *)
LEMMA OrderedMore ==
  ASSUME NEW list \in Seq(Calls), Ordered(list), NEW call \in Calls, NEW more, more = Append(list, call),
         call.type = "ERR" \/ (Going(list) /\ call.type # "ROOT") \/ (list = <<>> /\ call.type = "ROOT")
  PROVE  /\ Ordered(more)
         /\ list = <<>> /\ call.type = "ROOT" => Going(more)
         /\ Going(list) /\ call.type = "NODE" => Going(more)
<1>1. PICK n : n = Len(list)
  OBVIOUS
<1>2. /\ n \in Nat /\ (\A k \in 1..n : more[k] = list[k]) /\ more[n + 1] = call /\ DOMAIN list = 1..n /\ DOMAIN more = 1..(n + 1)
      /\ more \in Seq(Calls) /\ Len(more) = n + 1
  BY <1>1, CallMore DEF CallAdded
<1>3. more # <<>>
  BY <1>2, EmptySeq
<1>4. \A k \in 1..(n + 1) : k \in 1..n \/ k = n + 1
  BY <1>2
<1>5. list = <<>> => n = 0
  BY <1>1
<1>6. Going(list) => n # 0 /\ \A k \in 1..n : list[k].type \in {"ROOT", "NODE"}
  BY <1>1, <1>2, EmptySeq DEF Going
<1>7. \A i \in 1..n : /\ (list[i].type = "ROOT") <=> (i = 1 /\ list[i].type # "ERR")
                      /\ list[i].type \in {"CLOSE", "ERR"} => \A j \in 1..n : j > i => list[j].type = "ERR"
  BY <1>2 DEF Ordered
<1>8. ASSUME NEW i \in 1..(n + 1)
      PROVE  /\ (more[i].type = "ROOT") <=> (i = 1 /\ more[i].type # "ERR")
             /\ more[i].type \in {"CLOSE", "ERR"} => \A j \in 1..(n + 1) : j > i => more[j].type = "ERR"
  <2>1. CASE i = n + 1
    <3>1. more[i] = call /\ \A j \in 1..(n + 1) : ~ (j > i)
      BY <1>2, <2>1
    <3>2. n \in Nat /\ (n # 0 => i # 1) /\ (n = 0 => i = 1)
      BY <1>2, <2>1
    <3>3. (call.type = "ROOT") <=> (i = 1 /\ call.type # "ERR")
      BY <1>5, <1>6, <3>2
    <3> QED BY ONLY <3>1, <3>3
  <2>2. CASE i \in 1..n
    <3>1. more[i] = list[i]
      BY <1>2, <2>2
    <3>2. ASSUME list[i].type \in {"CLOSE", "ERR"}, NEW j \in 1..(n + 1), j > i PROVE more[j].type = "ERR"
      <4>1. CASE j \in 1..n
        BY ONLY <1>2, <1>7, <2>2, <3>2, <4>1
      <4>2. CASE j = n + 1
        <5>1. ~ Going(list)
          BY ONLY <1>6, <2>2, <3>2
        <5>2. list # <<>>
          BY <1>2, <1>5, <2>2
        <5>3. call.type = "ERR"
          BY <5>1, <5>2
        <5> QED BY ONLY <1>2, <4>2, <5>3
      <4> QED BY <1>4, <3>2, <4>1, <4>2
    <3>3. (list[i].type = "ROOT") <=> (i = 1 /\ list[i].type # "ERR")
      BY ONLY <1>7, <2>2
    <3> QED BY ONLY <3>1, <3>2, <3>3
  <2> QED BY <1>4, <2>1, <2>2
<1>9. ASSUME (list = <<>> /\ call.type = "ROOT") \/ (Going(list) /\ call.type = "NODE") PROVE Going(more)
  <2>1. \A k \in 1..n : list[k].type \in {"ROOT", "NODE"}
    BY <1>2, <1>5, <1>6, <1>9
  <2>2. \A k \in 1..(n + 1) : more[k].type \in {"ROOT", "NODE"}
    BY <1>2, <1>4, <1>9, <2>1
  <2> QED BY <1>2, <1>3, <2>2 DEF Going
<1> QED BY <1>2, <1>8, <1>9 DEF Ordered

(* The invariant, of what xstream.c and expat hold when they have eaten T. *)
DeepIn(T) == \E i \in 1..Len(T) : Levels(T)[i] > MaxDepth
StreamIs(status, node, open, depth, level, error, list, T) ==
  /\ Ordered(list) /\ Given(list, T)
  /\ status = "ROOT" => list = <<>> /\ open = -1 /\ (~ error => T = <<>> /\ depth = 0 /\ level = 0)
  /\ status = "NODE" => Going(list) /\ (~ error => Good(level, depth, open, node, list, T))
  /\ status = "ERR" => error \/ DeepIn(T) \/ Len(node) > MaxNodeSize
StreamAt(s, T) ==
  /\ s \in Streams /\ T \in Seq(Tokens)
  /\ StreamIs(s.xs.status, s.xs.node, s.xs.open, s.xs.depth, s.parser.level, s.parser.error, s.calls, T)

(* Of a stream in its parts. *)
LEMMA MadeAt ==
  ASSUME NEW w, NEW status, NEW node, NEW open, NEW depth, NEW level, NEW error, NEW list,
         Made(w, status, node, open, depth, level, error, list),
         NEW U \in Seq(Tokens), StreamIs(status, node, open, depth, level, error, list, U)
  PROVE  StreamAt(w, U)
BY DEF Made, StreamAt

(* What was too deep is so still. *)
LEMMA DeepStays == ASSUME NEW T, NEW t, NEW n, NEW U, OneMore(T, t, n, U), DeepIn(T) PROVE DeepIn(U)
<1>1. n \in Nat /\ n = Len(T) /\ Len(U) = n + 1 /\ \A k \in 1..n : Levels(U)[k] = Levels(T)[k]
  BY TokenLevels
<1>2. PICK i \in 1..Len(T) : Levels(T)[i] > MaxDepth
  BY DEF DeepIn
<1>3. i \in 1..n /\ i \in 1..Len(U)
  BY <1>1, <1>2
<1>4. Levels(U)[i] > MaxDepth
  BY <1>1, <1>2, <1>3
<1> QED BY <1>3, <1>4 DEF DeepIn

(* A token that goes unheard. *)
LEMMA IgnoredKept ==
  ASSUME NEW s, NEW T, StreamAt(s, T), NEW t, NEW n, NEW U, OneMore(T, t, n, U), NEW level, NEW error,
         error = TRUE \/ (error = FALSE /\ Over(s) /\ ~ s.parser.error), NEW w, Ignored(s, level, error, w)
  PROVE  StreamAt(w, U)
<1>1. PICK x, list : x = s.xs /\ list = s.calls
  OBVIOUS
<1>2. StreamIs(x.status, x.node, x.open, x.depth, s.parser.level, s.parser.error, list, T)
  BY <1>1 DEF StreamAt
<1>3. Ordered(list) /\ Given(list, U)
  BY <1>2, GivenGrows DEF StreamIs
<1>4. U \in Seq(Tokens)
  BY TokenLevels
<1>5. x.status = "ROOT" => list = <<>> /\ x.open = -1 /\ error = TRUE
  BY <1>1, <1>2 DEF StreamIs, Over
<1>6. x.status = "NODE" => Going(list) /\ error = TRUE
  BY <1>1, <1>2 DEF StreamIs, Over
<1>7. x.status = "ERR" => error = TRUE \/ DeepIn(U) \/ Len(x.node) > MaxNodeSize
  BY <1>1, <1>2, DeepStays DEF StreamIs
<1>8. StreamIs(x.status, x.node, x.open, x.depth, level, error, list, U)
  BY ONLY <1>3, <1>5, <1>6, <1>7 DEF StreamIs
<1>9. Made(w, x.status, x.node, x.open, x.depth, level, error, list)
  BY <1>1 DEF Ignored
<1> QED BY ONLY <1>4, <1>8, <1>9, MadeAt

(* A tag that opens. *)
LEMMA StartKept ==
  ASSUME NEW s, NEW T, StreamAt(s, T), NEW n, NEW U, OneMore(T, "start", n, U), XStreamAssumption,
         ~ s.parser.error, s.parser.level >= 0, NEW w, StartDone(s, s.parser.level + 1, w)
  PROVE  StreamAt(w, U)
<1>1. PICK x, list, level, up : x = s.xs /\ list = s.calls /\ level = s.parser.level /\ up = level + 1
  OBVIOUS
<1>2. s \in Streams /\ StreamIs(x.status, x.node, x.open, x.depth, level, s.parser.error, list, T)
  BY <1>1 DEF StreamAt
<1>3. x.status \in Kinds /\ x.node \in Seq(Tokens) /\ x.open \in Int /\ x.depth \in Int /\ level \in Int /\ list \in Seq(Calls)
  BY <1>1, <1>2, StreamParts
<1>4. Ordered(list) /\ Given(list, T) /\ Given(list, U)
  BY <1>2, GivenGrows DEF StreamIs
<1>5. PICK t : t = "start"
  OBVIOUS
<1>6. Up(t) = 1 /\ t # "bad"
  BY <1>5 DEF Up
<1>7. U \in Seq(Tokens) /\ Len(U) \in Nat /\ Len(U) = n + 1 /\ n \in Nat /\ n = Len(T)
      /\ Levels(U)[Len(U)] = Levels(T)[Len(T)] + Up(t)
  BY <1>5, TokenLevels
<1>8. CASE Over(s)
  <2>1. Ignored(s, up, FALSE, w)
    BY <1>1, <1>8 DEF StartDone
  <2> QED BY ONLY StreamAt(s, T), OneMore(T, "start", n, U), ~ s.parser.error, <1>8, <2>1, IgnoredKept
<1>9. CASE x.status = "ROOT"
  <2>1. list = <<>> /\ T = <<>> /\ x.depth = 0 /\ level = 0 /\ x.open = -1 /\ n = 0
    BY <1>2, <1>7, <1>9 DEF StreamIs
  <2>2. Checked(1) = "NODE"
    BY DEF Checked, XStreamAssumption
  <2>3. PICK more : more = <<RootCall>>
    OBVIOUS
  <2>4. Append(list, RootCall) = more
    BY <2>1, <2>3
  <2>5. ~ Over(s)
    BY <1>1, <1>9 DEF Over
  <2>6. Made(w, "NODE", x.node, -1, 1, 1, FALSE, more)
    <3>1. Made(w, Checked(x.depth + 1), x.node, x.open, x.depth + 1, up, FALSE, Append(list, RootCall))
      BY <1>1, <1>9, <2>5 DEF StartDone
    <3>2. x.depth + 1 = 1 /\ up = 1 /\ Checked(x.depth + 1) = "NODE"
      BY <1>1, <2>1, <2>2
    <3> QED BY ONLY <2>1, <2>4, <3>1, <3>2
  <2>7. Good(1, 1, -1, x.node, more, U) /\ Given(more, U)
    BY <2>1, <2>3, GoodRoot
  <2>8. Ordered(more) /\ Going(more)
    BY <1>3, <1>4, <2>1, <2>4, CallsAre, OrderedMore
  <2>9. StreamIs("NODE", x.node, -1, 1, 1, FALSE, more, U)
    BY ONLY <2>7, <2>8 DEF StreamIs
  <2> QED BY ONLY <1>7, <2>6, <2>9, MadeAt
<1>10. CASE x.status = "NODE"
  <2>1. Going(list) /\ Good(level, x.depth, x.open, x.node, list, T)
    BY <1>2, <1>10 DEF StreamIs
  <2>2. level = Levels(T)[Len(T)] /\ x.depth = level /\ InElement(level, x.open, x.node, T) /\ level >= 1
    BY <2>1 DEF Good
  <2>3. ~ Over(s) /\ s.xs.status # "ROOT"
    BY <1>1, <1>10 DEF Over
  <2>4. PICK node, open : /\ node = IF x.open = -1 THEN <<"start">> ELSE Append(x.node, "start")
                          /\ open = IF x.open = -1 THEN 1 ELSE x.open + 1
    OBVIOUS
  <2>5. Made(w, Checked(x.depth + 1), node, open, x.depth + 1, up, FALSE, list)
    BY <1>1, <2>3, <2>4 DEF StartDone
  <2>6. CASE x.depth + 1 > MaxDepth
    <3>1. Levels(U)[Len(U)] > MaxDepth
      <4>1. Levels(U)[Len(U)] = x.depth + 1
        BY ONLY <1>6, <1>7, <2>2
      <4> QED BY <2>6, <4>1
    <3>2. DeepIn(U)
      BY <1>7, <3>1 DEF DeepIn
    <3>3. Checked(x.depth + 1) = "ERR"
      BY <2>6 DEF Checked
    <3>4. StreamIs("ERR", node, open, x.depth + 1, up, FALSE, list, U)
      BY ONLY <1>4, <3>2 DEF StreamIs
    <3> QED BY ONLY <1>7, <2>5, <3>3, <3>4, MadeAt
  <2>7. CASE ~ (x.depth + 1 > MaxDepth)
    <3>1. Checked(x.depth + 1) = "NODE"
      BY <2>7 DEF Checked
    <3>2. level + 1 <= MaxDepth /\ level + 1 \in 2..MaxDepth
      BY <1>3, <2>2, <2>7 DEF XStreamAssumption
    <3>3. Good(up, x.depth + 1, open, node, list, U)
      <4>1. CASE x.open = -1
        <5>1. Good(level, x.depth, -1, x.node, list, T) /\ node = <<"start">> /\ open = 1
          BY <2>1, <2>4, <4>1
        <5>2. Good(level + 1, x.depth + 1, 1, <<"start">>, list, U)
          BY <3>2, <5>1, GoodOpens
        <5> QED BY <1>1, <5>1, <5>2
      <4>2. CASE x.open # -1
        <5>1. node = Append(x.node, t) /\ open = x.open + 1
          BY <1>5, <2>4, <4>2
        <5>2. OneMore(T, t, n, U)
          BY <1>5
        <5>3. Good(level + 1, x.depth + 1, x.open + 1, Append(x.node, t), list, U)
          BY ONLY <1>6, <2>1, <3>2, <4>2, <5>2, GoodInside
        <5> QED BY <1>1, <5>1, <5>3
      <4> QED BY <4>1, <4>2
    <3>4. StreamIs("NODE", node, open, x.depth + 1, up, FALSE, list, U)
      BY ONLY <1>4, <2>1, <3>3 DEF StreamIs
    <3> QED BY ONLY <1>7, <2>5, <3>1, <3>4, MadeAt
  <2> QED BY <2>6, <2>7
<1> QED BY <1>1, <1>3, <1>8, <1>9, <1>10 DEF Over, Kinds

(* One that closes: the stream, an element, or inside of one. *)
LEMMA EndKept ==
  ASSUME NEW s, NEW T, StreamAt(s, T), NEW n, NEW U, OneMore(T, "end", n, U), XStreamAssumption,
         ~ s.parser.error, s.parser.level >= 1, NEW to, to = IF s.parser.level = 1 THEN -1 ELSE s.parser.level - 1,
         NEW w, EndDone(s, to, w)
  PROVE  StreamAt(w, U)
<1>1. PICK x, list, level : x = s.xs /\ list = s.calls /\ level = s.parser.level
  OBVIOUS
<1>2. s \in Streams /\ StreamIs(x.status, x.node, x.open, x.depth, level, s.parser.error, list, T)
  BY <1>1 DEF StreamAt
<1>3. x.status \in Kinds /\ x.node \in Seq(Tokens) /\ x.open \in Int /\ x.depth \in Int /\ level \in Int /\ list \in Seq(Calls)
  BY <1>1, <1>2, StreamParts
<1>4. Ordered(list) /\ Given(list, T) /\ Given(list, U)
  BY <1>2, GivenGrows DEF StreamIs
<1>5. PICK t, up : t = "end" /\ up = -1
  OBVIOUS
<1>6. Up(t) = up /\ t # "bad"
  BY <1>5 DEF Up
<1>7. U \in Seq(Tokens)
  BY <1>5, TokenLevels
<1>8. CASE Over(s)
  <2>1. Ignored(s, to, FALSE, w)
    BY <1>1, <1>8 DEF EndDone
  <2> QED BY ONLY StreamAt(s, T), OneMore(T, "end", n, U), ~ s.parser.error, <1>8, <2>1, IgnoredKept
<1>9. CASE x.status = "ROOT"
  BY <1>1, <1>2, <1>3, <1>9 DEF StreamIs
<1>10. CASE x.status = "NODE"
  <2>1. Going(list) /\ Good(level, x.depth, x.open, x.node, list, T)
    BY <1>1, <1>2, <1>10 DEF StreamIs
  <2>2. x.depth = level /\ InElement(level, x.open, x.node, T) /\ level \in 1..MaxDepth
    BY <2>1 DEF Good
  <2>3. ~ Over(s)
    BY <1>1, <1>10 DEF Over
  <2>4. CASE x.open = -1
    <3>1. PICK more : more = Append(list, CloseCall)
      OBVIOUS
    <3>2. Made(w, "CLOSE", x.node, -1, x.depth - 1, to, FALSE, more)
      BY <1>1, <2>3, <2>4, <3>1 DEF EndDone
    <3>3. Ordered(more)
      BY <1>3, <1>4, <2>1, <3>1, CallsAre, OrderedMore
    <3>4. Given(more, U)
      BY <1>3, <1>4, <3>1, CallsAre, GivenOther
    <3>5. StreamIs("CLOSE", x.node, -1, x.depth - 1, to, FALSE, more, U)
      BY ONLY <3>3, <3>4 DEF StreamIs
    <3> QED BY ONLY <1>7, <3>2, <3>5, MadeAt
  <2>5. CASE x.open # -1 /\ x.open = 1
    <3>1. PICK whole, more : whole = Append(x.node, "end") /\ more = Append(list, NodeCall(whole))
      OBVIOUS
    <3>2. Made(w, "NODE", <<>>, -1, x.depth - 1, to, FALSE, more)
      BY <1>1, <1>10, <2>3, <2>5, <3>1 DEF EndDone
    <3>3. Good(level - 1, x.depth - 1, -1, <<>>, more, U) /\ Given(more, U)
      <4>1. Good(level, x.depth, 1, x.node, list, T)
        BY <2>1, <2>5
      <4> QED BY <1>3, <1>4, <3>1, <4>1, GoodDelivers
    <3>4. to = level - 1
      <4>1. level # 1
        BY <2>2, <2>5 DEF InElement
      <4> QED BY <1>1, <4>1
    <3>5. Ordered(more) /\ Going(more)
      <4>1. whole \in Seq(Tokens)
        BY <1>3, <3>1, AppendProperties DEF Tokens
      <4>2. PICK call : call = NodeCall(whole)
        OBVIOUS
      <4>3. call \in Calls /\ call.type = "NODE"
        BY <4>1, <4>2, CallsAre
      <4>4. more = Append(list, call)
        BY <3>1, <4>2
      <4> QED BY ONLY <1>3, <1>4, <2>1, <4>3, <4>4, OrderedMore
    <3>6. StreamIs("NODE", <<>>, -1, x.depth - 1, to, FALSE, more, U)
      BY ONLY <3>3, <3>4, <3>5 DEF StreamIs
    <3> QED BY ONLY <1>7, <3>2, <3>6, MadeAt
  <2>6. CASE x.open # -1 /\ x.open # 1
    <3>1. Made(w, "NODE", Append(x.node, "end"), x.open - 1, x.depth - 1, to, FALSE, list)
      BY <1>1, <1>10, <2>3, <2>6 DEF EndDone
    <3>2. x.open >= 2 /\ level = x.open + 1
      BY <1>3, <2>2, <2>6 DEF InElement
    <3>3. to = level + up /\ x.open - 1 = x.open + up /\ x.depth - 1 = x.depth + up /\ level + up \in 2..MaxDepth
      BY <1>1, <1>3, <1>5, <2>2, <3>2
    <3>4. OneMore(T, t, n, U)
      BY <1>5
    <3>5. Good(level + up, x.depth + up, x.open + up, Append(x.node, t), list, U)
      BY ONLY <1>6, <2>1, <2>6, <3>3, <3>4, GoodInside
    <3>6. StreamIs("NODE", Append(x.node, "end"), x.open - 1, x.depth - 1, to, FALSE, list, U)
      BY ONLY <1>4, <1>5, <2>1, <3>3, <3>5 DEF StreamIs
    <3> QED BY ONLY <1>7, <3>1, <3>6, MadeAt
  <2> QED BY <2>4, <2>5, <2>6
<1> QED BY <1>1, <1>3, <1>8, <1>9, <1>10 DEF Over, Kinds

(* Text. *)
LEMMA TextKept ==
  ASSUME NEW s, NEW T, StreamAt(s, T), NEW n, NEW U, OneMore(T, "text", n, U), XStreamAssumption,
         ~ s.parser.error, s.parser.level >= 1, NEW w, TextDone(s, s.parser.level, w)
  PROVE  StreamAt(w, U)
<1>1. PICK x, list, level : x = s.xs /\ list = s.calls /\ level = s.parser.level
  OBVIOUS
<1>2. s \in Streams /\ StreamIs(x.status, x.node, x.open, x.depth, level, s.parser.error, list, T)
  BY <1>1 DEF StreamAt
<1>3. x.status \in Kinds /\ x.node \in Seq(Tokens) /\ x.open \in Int /\ x.depth \in Int /\ level \in Int /\ list \in Seq(Calls)
  BY <1>1, <1>2, StreamParts
<1>4. Ordered(list) /\ Given(list, T) /\ Given(list, U)
  BY <1>2, GivenGrows DEF StreamIs
<1>5. PICK t, up : t = "text" /\ up = 0
  OBVIOUS
<1>6. Up(t) = up /\ t # "bad"
  BY <1>5 DEF Up
<1>7. U \in Seq(Tokens)
  BY <1>5, TokenLevels
<1>8. CASE Over(s)
  <2>1. Ignored(s, level, FALSE, w)
    BY <1>1, <1>8 DEF TextDone
  <2> QED BY ONLY StreamAt(s, T), OneMore(T, "text", n, U), ~ s.parser.error, <1>8, <2>1, IgnoredKept
<1>9. CASE x.status = "ROOT"
  BY <1>1, <1>2, <1>3, <1>9 DEF StreamIs
<1>10. CASE x.status = "NODE"
  <2>1. Going(list) /\ Good(level, x.depth, x.open, x.node, list, T)
    BY <1>1, <1>2, <1>10 DEF StreamIs
  <2>2. x.depth = level /\ InElement(level, x.open, x.node, T) /\ level \in 1..MaxDepth
    BY <2>1 DEF Good
  <2>3. ~ Over(s)
    BY <1>1, <1>10 DEF Over
  <2>4. CASE x.open = -1
    <3>1. Made(w, "NODE", x.node, -1, x.depth, level, FALSE, list)
      BY <1>1, <1>10, <2>4 DEF TextDone, Ignored
    <3>2. Good(level, x.depth, -1, x.node, list, U)
      BY <2>1, <2>4, GoodOutside
    <3>3. StreamIs("NODE", x.node, -1, x.depth, level, FALSE, list, U)
      BY ONLY <1>4, <2>1, <3>2 DEF StreamIs
    <3> QED BY ONLY <1>7, <3>1, <3>3, MadeAt
  <2>5. CASE x.open # -1
    <3>1. Made(w, "NODE", Append(x.node, "text"), x.open, x.depth, level, FALSE, list)
      BY <1>1, <1>10, <2>3, <2>5 DEF TextDone
    <3>2. level = level + up /\ x.open = x.open + up /\ x.depth = x.depth + up /\ level + up \in 2..MaxDepth
      BY <1>3, <1>5, <2>2, <2>5 DEF InElement
    <3>3. OneMore(T, t, n, U)
      BY <1>5
    <3>4. Good(level + up, x.depth + up, x.open + up, Append(x.node, t), list, U)
      BY ONLY <1>6, <2>1, <2>5, <3>2, <3>3, GoodInside
    <3>5. StreamIs("NODE", Append(x.node, "text"), x.open, x.depth, level, FALSE, list, U)
      BY ONLY <1>4, <1>5, <2>1, <3>2, <3>4 DEF StreamIs
    <3> QED BY ONLY <1>7, <3>1, <3>5, MadeAt
  <2> QED BY <2>4, <2>5
<1> QED BY <1>1, <1>3, <1>8, <1>9, <1>10 DEF Over, Kinds

(* Any token, whatever expat makes of it. *)
LEMMA TokenKept ==
  ASSUME XStreamAssumption, NEW s, NEW T, StreamAt(s, T), NEW t \in Tokens
  PROVE  StreamAt(Parsed(s, t), Append(T, t))
<1>1. PICK n, U, w, level : n = Len(T) /\ U = Append(T, t) /\ w = Parsed(s, t) /\ level = s.parser.level
  OBVIOUS
<1>2. s \in Streams /\ OneMore(T, t, n, U)
  BY <1>1 DEF StreamAt, OneMore
<1>3. TokenDone(s, t, w)
  BY <1>1, <1>2, ParsedDone
<1>4. CASE s.parser.error /\ w = s
  <2>1. Ignored(s, level, TRUE, w)
    BY <1>1, <1>2, <1>4, StreamParts DEF Ignored, Made
  <2> QED BY ONLY StreamAt(s, T), <1>1, <1>2, <2>1, IgnoredKept
<1>5. CASE Ignored(s, level, TRUE, w)
  BY ONLY StreamAt(s, T), <1>1, <1>2, <1>5, IgnoredKept
<1>6. CASE ~ s.parser.error /\ t = "start" /\ level >= 0 /\ StartDone(s, level + 1, w)
  BY <1>1, <1>2, <1>6, StartKept
<1>7. CASE ~ s.parser.error /\ t = "end" /\ level >= 1 /\ EndDone(s, IF level = 1 THEN -1 ELSE level - 1, w)
  BY <1>1, <1>2, <1>7, EndKept
<1>8. CASE ~ s.parser.error /\ t = "text" /\ level >= 1 /\ TextDone(s, level, w)
  BY <1>1, <1>2, <1>8, TextKept
<1>9. StreamAt(w, U)
  BY <1>1, <1>3, <1>4, <1>5, <1>6, <1>7, <1>8 DEF TokenDone
<1> QED BY <1>1, <1>9

(* A prefix of a piece was eaten. *)
Upto(s, T, piece, i) ==
  \E V \in Seq(Tokens) : Len(V) = i /\ (\A k \in 1..i : V[k] = piece[k]) /\ StreamAt(s, T \o V)

(* The tokens of a piece, one after the other. *)
LEMMA FedKept ==
  ASSUME XStreamAssumption, NEW s, NEW T, StreamAt(s, T), NEW piece \in Seq(Tokens)
  PROVE  StreamAt(Fed(s, piece), T \o piece)
<1>1. PICK n, step : n = Len(piece) /\ step = [x \in (1..n) \X Streams |-> Parsed(x[2], piece[x[1]])]
  OBVIOUS
<1>2. n \in Nat /\ T \in Seq(Tokens) /\ s \in Streams /\ \A i \in 1..n : piece[i] \in Tokens
  BY <1>1, ElementOfSeq DEF StreamAt
<1>3. step \in [(1..n) \X Streams -> Streams]
  <2>1. ASSUME NEW x \in (1..n) \X Streams PROVE Parsed(x[2], piece[x[1]]) \in Streams
    <3>1. PICK r, t : r = x[2] /\ t = piece[x[1]]
      OBVIOUS
    <3>2. r \in Streams /\ t \in Tokens
      BY <1>2, <3>1
    <3> QED BY <3>1, <3>2, ParsedDone
  <2> QED BY <1>1, <2>1
<1>4. PICK g : Stepped(n, Streams, s, step, g)
  BY ONLY <1>2, <1>3, StepsExist
<1>5. g \in [0..n -> Streams] /\ g[0] = s /\ \A i \in 1..n : g[i] = step[<<i, g[i - 1]>>]
  BY <1>4 DEF Stepped
<1>6. ASSUME NEW i \in 1..n PROVE g[i] = Parsed(g[i - 1], piece[i])
  <2>1. <<i, g[i - 1]>> \in (1..n) \X Streams
    <3>1. i - 1 \in 0..n
      BY <1>2
    <3> QED BY ONLY <1>5, <3>1, i \in 1..n
  <2> QED BY <1>1, <1>5, <2>1
<1>7. ASSUME NEW i \in 0..n PROVE g[i] = IF i = 0 THEN s ELSE Parsed(g[i - 1], piece[i])
  BY <1>2, <1>5, <1>6
<1> DEFINE Rule(h) == h = [i \in 0..n |-> IF i = 0 THEN s ELSE Parsed(h[i - 1], piece[i])]
<1>8. Rule(g)
  BY <1>5, <1>7
<1>9. PICK h : h = (CHOOSE k : Rule(k))
  OBVIOUS
<1>10. Fed(s, piece) = h[n]
  BY <1>1, <1>9 DEF Fed
<1> HIDE DEF Rule
<1>11. Rule(h)
  BY <1>8, <1>9
<1> USE DEF Rule
<1>12. h[0] = s /\ \A i \in 1..n : h[i] = Parsed(h[i - 1], piece[i])
  BY <1>2, <1>11
<1> HIDE DEF Rule
<1> DEFINE I == {i \in Nat : i <= n => Upto(h[i], T, piece, i)}
<1>13. 0 \in I
  <2>1. <<>> \in Seq(Tokens) /\ Len(<<>>) = 0 /\ T \o <<>> = T /\ \A k \in 1..0 : FALSE
    BY <1>2, EmptySeq, ConcatEmptySeq
  <2> QED BY <1>12, <2>1 DEF Upto
<1>14. ASSUME NEW i \in Nat, i \in I PROVE i + 1 \in I
  <2> SUFFICES ASSUME i + 1 <= n PROVE Upto(h[i + 1], T, piece, i + 1)
    OBVIOUS
  <2>1. i + 1 \in 1..n /\ (i + 1) - 1 = i /\ i <= n
    BY <1>2
  <2>2. PICK V \in Seq(Tokens) : Len(V) = i /\ (\A k \in 1..i : V[k] = piece[k]) /\ StreamAt(h[i], T \o V)
    BY <1>14, <2>1 DEF Upto
  <2>3. PICK t, W : t = piece[i + 1] /\ W = Append(V, t)
    OBVIOUS
  <2>4. t \in Tokens
    BY <1>2, <2>1, <2>3
  <2>5. W \in Seq(Tokens) /\ Len(W) = i + 1 /\ W[i + 1] = t /\ \A k \in 1..i : W[k] = V[k]
    BY <2>2, <2>3, <2>4, AppendProperties
  <2>6. T \o W = Append(T \o V, t)
    BY <1>2, <2>3, <2>4, ConcatAppend
  <2>7. h[i + 1] = Parsed(h[i], t)
    BY ONLY <1>12, <2>1, <2>3
  <2>8. StreamAt(h[i + 1], T \o W)
    BY <2>2, <2>4, <2>6, <2>7, TokenKept
  <2>9. ASSUME NEW k \in 1..(i + 1) PROVE W[k] = piece[k]
    <3>1. k \in 1..i \/ k = i + 1
      OBVIOUS
    <3> QED BY ONLY <2>2, <2>3, <2>5, <3>1
  <2> QED BY ONLY <2>5, <2>8, <2>9 DEF Upto
<1> HIDE DEF I
<1>15. Nat \subseteq I
  BY ONLY <1>13, <1>14, CountingUp
<1> USE DEF I
<1>16. Upto(h[n], T, piece, n)
  BY <1>2, <1>15
<1>17. PICK V \in Seq(Tokens) : Len(V) = n /\ (\A k \in 1..n : V[k] = piece[k]) /\ StreamAt(h[n], T \o V)
  BY <1>16 DEF Upto
<1>18. V = piece
  BY ONLY <1>1, <1>17, piece \in Seq(Tokens), SeqEqual
<1> QED BY <1>10, <1>17, <1>18

(* Between two pieces nothing that is wrong goes unsaid. *)
Settled(s) == s.xs.status = "NODE" => ~ s.parser.error /\ Len(s.xs.node) <= MaxNodeSize

(* A piece, and the checks behind it. *)
LEMMA EatKept ==
  ASSUME XStreamAssumption, NEW s, NEW T, StreamAt(s, T), NEW piece \in Seq(Tokens)
  PROVE  StreamAt(xstream_eat(s, piece), T \o piece) /\ Settled(xstream_eat(s, piece))
<1>1. PICK r, U, w : r = Fed(s, piece) /\ U = T \o piece /\ w = xstream_eat(s, piece)
  OBVIOUS
<1>2. StreamAt(r, U)
  BY <1>1, FedKept
<1>3. PICK x, list, level, error : x = r.xs /\ list = r.calls /\ level = r.parser.level /\ error = r.parser.error
  OBVIOUS
<1>4. r \in Streams /\ U \in Seq(Tokens) /\ StreamIs(x.status, x.node, x.open, x.depth, level, error, list, U)
  BY <1>2, <1>3 DEF StreamAt
<1>5. /\ x.status \in Kinds /\ x.node \in Seq(Tokens) /\ x.open \in Int /\ x.depth \in Int
      /\ level \in Int /\ error \in BOOLEAN /\ list \in Seq(Calls)
  BY <1>3, <1>4, StreamParts
<1>6. PICK why : why = IF error THEN "syntax" ELSE IF Len(x.node) > MaxNodeSize THEN "size"
                       ELSE IF x.status = "ERR" THEN "depth" ELSE ""
  OBVIOUS
<1>7. w = IF why = "" THEN r ELSE Heard(r, Hand("ERR", x.node, x.open, x.depth), Append(list, Call("ERR", <<>>, why)))
  BY <1>1, <1>3, <1>6 DEF xstream_eat
<1>8. CASE why = ""
  <2>1. w = r /\ ~ error /\ ~ (Len(x.node) > MaxNodeSize)
    BY <1>6, <1>7, <1>8
  <2>2. Len(x.node) <= MaxNodeSize
    BY <1>5, <2>1, LenProperties DEF XStreamAssumption
  <2> QED BY <1>1, <1>2, <1>3, <2>1, <2>2 DEF Settled
<1>9. CASE why # ""
  <2>1. PICK call, more : call = Call("ERR", <<>>, why) /\ more = Append(list, call)
    OBVIOUS
  <2>2. why \in {"syntax", "size", "depth"}
    BY <1>6, <1>9
  <2>3. call \in Calls /\ call.type = "ERR"
    BY <2>1, <2>2, CallsAre
  <2>4. more \in Seq(Calls) /\ "ERR" \in Kinds
    BY <1>5, <2>1, <2>3, AppendProperties DEF Kinds
  <2>5. w = Heard(r, Hand("ERR", x.node, x.open, x.depth), more)
    BY <1>7, <1>9, <2>1
  <2>6. Made(w, "ERR", x.node, x.open, x.depth, level, error, more)
    BY <1>3, <1>4, <1>5, <2>4, <2>5, HeardMade
  <2>7. Ordered(list) /\ Given(list, U)
    BY <1>4 DEF StreamIs
  <2>8. Ordered(more)
    BY ONLY <1>5, <2>1, <2>3, <2>7, OrderedMore
  <2>9. Given(more, U)
    BY <1>5, <2>1, <2>3, <2>7, GivenOther
  <2>10. error \/ Len(x.node) > MaxNodeSize \/ x.status = "ERR"
    BY <1>6, <1>9
  <2>11. error \/ DeepIn(U) \/ Len(x.node) > MaxNodeSize
    BY <1>4, <2>10 DEF StreamIs
  <2>12. StreamIs("ERR", x.node, x.open, x.depth, level, error, more, U)
    BY ONLY <2>8, <2>9, <2>11 DEF StreamIs
  <2>13. StreamAt(w, U)
    BY ONLY <1>4, <2>6, <2>12, MadeAt
  <2>14. Settled(w)
    BY <2>6 DEF Made, Settled
  <2> QED BY <1>1, <2>13, <2>14
<1> QED BY <1>8, <1>9

(* What the variables hold between two calls of xstream_eat. *)
Stream == [xs |-> xs, parser |-> parser, calls |-> calls]
StreamKept == StreamAt(Stream, eaten) /\ Settled(Stream)

(* It holds at first. *)
LEMMA StreamFirst == XStreamInit => StreamKept
<1> SUFFICES ASSUME XStreamInit PROVE StreamKept
  OBVIOUS
<1>1. PICK T, list : T = <<>> /\ list = <<>>
  OBVIOUS
<1>2. T \in Seq(Tokens) /\ list \in Seq(Calls) /\ Len(T) = 0 /\ DOMAIN list = {} /\ \A k \in 1..0 : FALSE
  BY <1>1, EmptySeq
<1>3. Stream = [xs |-> Hand("ROOT", T, -1, 0), parser |-> [level |-> 0, error |-> FALSE], calls |-> list]
  BY <1>1 DEF XStreamInit, Stream, Stream0
<1>4. "ROOT" \in Kinds /\ -1 \in Int /\ 0 \in Int /\ FALSE \in BOOLEAN
  BY DEF Kinds
<1>5. Made(Stream, "ROOT", T, -1, 0, 0, FALSE, list)
  BY ONLY <1>2, <1>3, <1>4, MadeOf
<1>6. Ordered(list)
  BY <1>2 DEF Ordered
<1>7. Elements(T) = {} /\ NodesIn(list) = {}
  BY <1>2 DEF Elements, NodesIn
<1>8. Given(list, T)
  BY <1>7 DEF Given
<1>9. StreamIs("ROOT", T, -1, 0, 0, FALSE, list, T)
  BY ONLY <1>1, <1>6, <1>8 DEF StreamIs
<1>10. StreamAt(Stream, T)
  BY ONLY <1>2, <1>5, <1>9, MadeAt
<1>11. Settled(Stream)
  BY <1>5 DEF Made, Settled
<1>12. eaten = T
  BY <1>1 DEF XStreamInit
<1> QED BY <1>10, <1>11, <1>12 DEF StreamKept

(* ... and after a piece. *)
LEMMA StreamNext == ASSUME XStreamAssumption PROVE StreamKept /\ [XStreamNext]_xstreamVars => StreamKept'
<1> SUFFICES ASSUME StreamKept, [XStreamNext]_xstreamVars PROVE StreamKept'
  OBVIOUS
<1>1. CASE UNCHANGED xstreamVars
  <2>1. Stream' = Stream /\ eaten' = eaten
    BY <1>1 DEF xstreamVars, Stream
  <2> QED BY <2>1 DEF StreamKept
<1>2. ASSUME NEW n \in 1..MaxPiece, NEW piece \in [1..n -> {"start", "end", "text", "bad"}], Eat(piece) PROVE StreamKept'
  <2>1. piece \in Seq(Tokens)
    <3>1. n \in Nat
      BY <1>2
    <3>2. piece \in [1..n -> Tokens]
      BY <1>2 DEF Tokens
    <3> QED BY ONLY <3>1, <3>2, SeqDef
  <2>2. PICK r : r = xstream_eat(Stream, piece)
    OBVIOUS
  <2>3. StreamAt(r, eaten \o piece) /\ Settled(r)
    <3>1. StreamAt(Stream, eaten)
      BY DEF StreamKept
    <3> QED BY <2>1, <2>2, <3>1, EatKept
  <2>4. xs' = r.xs /\ parser' = r.parser /\ calls' = r.calls /\ eaten' = eaten \o piece
    BY <1>2, <2>2 DEF Eat, Stream
  <2>5. r = [xs |-> r.xs, parser |-> r.parser, calls |-> r.calls]
    BY <2>3 DEF StreamAt, Streams
  <2>6. Stream' = r
    BY <2>4, <2>5 DEF Stream
  <2> QED BY <2>3, <2>4, <2>6 DEF StreamKept
<1> QED BY <1>1, <1>2 DEF XStreamNext

(* What the run checks of the stream. *)
StreamDelivers == CallsInOrder /\ StreamOfElements /\ OpenIsBounded /\ ErrorsDeserved

(* It follows from what the variables hold. *)
LEMMA StreamSays == StreamKept => StreamDelivers
<1> SUFFICES ASSUME StreamKept PROVE StreamDelivers
  OBVIOUS
<1>1. /\ Stream.xs = xs /\ Stream.parser = parser /\ Stream.calls = calls
  BY DEF Stream
<1>2. /\ eaten \in Seq(Tokens) /\ Settled(Stream) /\ Stream \in Streams
      /\ StreamIs(xs.status, xs.node, xs.open, xs.depth, parser.level, parser.error, calls, eaten)
  BY <1>1 DEF StreamKept, StreamAt
<1>3. CallsOf("NODE") = NodesIn(calls)
  BY DEF CallsOf, NodesIn
<1>4. CallsInOrder
  BY <1>2 DEF StreamIs, Ordered, CallsInOrder
<1>5. xs.status = "NODE" => Good(parser.level, xs.depth, xs.open, xs.node, calls, eaten) /\ Len(xs.node) <= MaxNodeSize
  BY <1>1, <1>2 DEF StreamIs, Settled
<1>6. StreamOfElements
  <2>1. xs.status = "NODE" => CallsOf("NODE") = 2..(Cardinality(Elements(eaten)) + 1)
    BY <1>3, <1>5 DEF Good
  <2> QED BY <1>2, <1>3, <2>1 DEF StreamIs, Given, StreamOfElements
<1>7. OpenIsBounded
  <2>1. xs.status = "NODE" => parser.level \in 1..MaxDepth
    BY <1>5 DEF Good
  <2> QED BY <1>5, <2>1 DEF OpenIsBounded
<1>8. ErrorsDeserved
  <2>1. DOMAIN eaten = 1..Len(eaten)
    BY <1>2, LenProperties
  <2> QED BY <1>2, <2>1 DEF StreamIs, DeepIn, ErrorsDeserved
<1> QED BY <1>4, <1>6, <1>7, <1>8 DEF StreamDelivers

(* ... and so it holds for ever. *)
LEMMA StreamStaysDelivered == XStreamSpec => []StreamDelivers
<1>1. XStreamAssumption
  BY XStreamAssumption
<1>2. XStreamInit => StreamKept
  BY StreamFirst
<1>3. StreamKept /\ [XStreamNext]_xstreamVars => StreamKept'
  BY <1>1, StreamNext
<1>4. StreamKept => StreamDelivers
  BY StreamSays
<1> QED BY <1>2, <1>3, <1>4, PTL DEF XStreamSpec

(* Documents, for every bound of the depth and of the size, every size of the
   buffer, every document and every cut of a stream into pieces: xstream.c
   gives the handler the root first, the whole elements in their order and
   each once, and nothing but errors after the end or an error, which a
   stream that is well formed and within the bounds never gets;
   xmlnode_file returns whole documents only; and the file is the old one or
   the new one wherever xmlnode2file is stopped. *)
THEOREM DocumentsStayDelivered == DocumentsSpec => []DocumentsDelivered
<1>1. StreamDelivers /\ FilesDelivered => DocumentsDelivered
  BY DEF StreamDelivers, FilesDelivered, DocumentsDelivered
<1>2. XStreamSpec => []StreamDelivers
  BY StreamStaysDelivered
<1>3. FileSpec => []FilesDelivered
  BY FilesStayDelivered
<1> QED BY <1>1, <1>2, <1>3, PTL DEF DocumentsSpec
=============================================================================
