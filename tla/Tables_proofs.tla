---------------------------- MODULE Tables_proofs ----------------------------
(***************************************************************************)
(* Proofs about the two hash tables: xhash.c is a map for every set of     *)
(* keys, every hash function and every list of sizes, and the table of     *)
(* expat's hashtable.c finds its names for all hash values and through     *)
(* every growth, without a bound on either.                                *)
(***************************************************************************)
EXTENDS Tables, DataLemmas

------------------------------------------------------------------------------
(* The chain of bucket b of p: its head is there, the keys in it are of the
   bucket, each in one node, and it has no more nodes than the bucket keys. *)
Own(p, b) == {k \in HashKeys : HashOf[k] % p = b}
ChainOK(c, p, b) ==
  /\ c \in Seq(HashNode) /\ c # <<>>
  /\ \A i \in 1..Len(c) : c[i].key # HashNull => c[i].key \in Own(p, b)
  /\ \A i, j \in 1..Len(c) : c[i].key # HashNull /\ c[i].key = c[j].key => i = j
  /\ Len(c) <= IF Own(p, b) = {} THEN 1 ELSE Cardinality(Own(p, b))
IsTable(t, p) ==
  /\ p \in Nat \ {0} /\ t \in [0..(p - 1) -> Seq(HashNode)]
  /\ \A b \in 0..(p - 1) : ChainOK(t[b], p, b)

(* The position SelectInSeq gives. *)
At(c, k) == SelectInSeq(c, LAMBDA n : n.key = k)

(* The position that _xhash_node_get looks for, or 0. *)
LEMMA AtIs ==
  ASSUME NEW c \in Seq(HashNode), NEW k
  PROVE  /\ At(c, k) \in 0..Len(c)
         /\ At(c, k) # 0 => c[At(c, k)].key = k
         /\ At(c, k) = 0 => \A i \in 1..Len(c) : c[i].key # k
<1> DEFINE I == {i \in 1..Len(c) : c[i].key = k}
<1>1. At(c, k) = IF I # {} THEN Min(I) ELSE 0
  BY DEF At, SelectInSeq
<1>2. Len(c) \in Nat
  BY LenProperties
<1>3. I # {} => Min(I) \in I
  <2> SUFFICES ASSUME I # {} PROVE Min(I) \in I
    OBVIOUS
  <2>1. I \subseteq Nat
    BY <1>2
  <2>2. \E x \in I : \A y \in I : x <= y
    <3> HIDE DEF I
    <3> QED BY <2>1, LeastNumber
  <2> HIDE DEF I
  <2> QED BY <2>2 DEF Min
<1>4. CASE I = {}
  <2>1. At(c, k) = 0 /\ \A i \in 1..Len(c) : c[i].key # k
    BY <1>1, <1>4
  <2> QED BY <1>2, <2>1
<1>5. CASE I # {}
  <2>1. At(c, k) \in I
    BY <1>1, <1>3, <1>5
  <2>2. At(c, k) \in 1..Len(c) /\ c[At(c, k)].key = k
    BY <2>1
  <2> QED BY <1>2, <2>2
<1> QED BY <1>4, <1>5

(* The sizes of the table and of its buckets are what the code takes them for. *)
LEMMA PrimeIs ==
  ASSUME NEW p \in Nat \ {0}, NEW t, DOMAIN t = 0..(p - 1)
  PROVE  /\ Prime(t) = p
         /\ \A k \in HashKeys : BucketOf(t, k) = HashOf[k] % p /\ BucketOf(t, k) \in 0..(p - 1)
<1>1. Prime(t) = p
  <2>1. 0 \in Int /\ p - 1 \in Int /\ 0 <= p - 1 /\ (p - 1) - 0 + 1 = p
    OBVIOUS
  <2>2. Cardinality(0..(p - 1)) = (p - 1) - 0 + 1
    BY FS_Interval
  <2> QED BY <2>1, <2>2 DEF Prime
<1>2. \A k \in HashKeys : HashOf[k] \in Nat
  BY HashAssumption
<1>3. \A n \in Nat : n % p \in 0..(p - 1)
  OBVIOUS
<1> QED BY <1>1, <1>2, <1>3 DEF BucketOf

(* The node whose key is the one that is put is written, and no other of
   those with a key. *)
Written(c, d, k, n) ==
  /\ \E i \in 1..Len(d) : d[i] = n
  /\ \A m : m.key # HashNull /\ m.key # k =>
       ((\E i \in 1..Len(c) : c[i] = m) <=> (\E i \in 1..Len(d) : d[i] = m))

(* A node of the chain written over by one with a key that no other has. *)
LEMMA NodeReplaced ==
  ASSUME NEW p \in Nat \ {0}, NEW b, NEW c, ChainOK(c, p, b), NEW at \in 1..Len(c),
         NEW n \in HashNode, NEW k \in HashKeys, k \in Own(p, b), n.key \in {k, HashNull},
         c[at].key \in {k, HashNull}, \A i \in 1..Len(c) : i # at => c[i].key # k
  PROVE  LET d == [c EXCEPT ![at] = n] IN ChainOK(d, p, b) /\ Written(c, d, k, n)
<1> DEFINE d == [c EXCEPT ![at] = n]
<1>1. c \in Seq(HashNode) /\ c # <<>> /\ Len(c) \in Nat
  BY LenProperties DEF ChainOK
<1>2. /\ d \in Seq(HashNode) /\ Len(d) = Len(c) /\ d[at] = n
      /\ \A i \in 1..Len(c) : i # at => d[i] = c[i]
  BY <1>1, ExceptSeq
<1> HIDE DEF d
<1>3. d # <<>>
  BY <1>1, <1>2, EmptySeq
<1>4. k # HashNull
  BY HashAssumption
<1>5. \A i \in 1..Len(d) : d[i].key # HashNull => d[i].key \in Own(p, b)
  BY <1>2 DEF ChainOK
<1>6. ASSUME NEW i \in 1..Len(d), NEW j \in 1..Len(d), d[i].key # HashNull, d[i].key = d[j].key PROVE i = j
  <2>1. CASE i # at /\ j # at
    BY <1>2, <1>6, <2>1 DEF ChainOK
  <2>2. CASE i = at /\ j # at
    BY <1>2, <1>6, <2>2
  <2>3. CASE i # at /\ j = at
    BY <1>2, <1>6, <2>3
  <2> QED BY <2>1, <2>2, <2>3
<1>7. ChainOK(d, p, b)
  BY <1>2, <1>3, <1>5, <1>6 DEF ChainOK
<1>8. Written(c, d, k, n)
  <2>1. \E i \in 1..Len(d) : d[i] = n
    BY <1>2
  <2>2. ASSUME NEW m, m.key # HashNull, m.key # k, NEW i \in 1..Len(c), c[i] = m
        PROVE  \E j \in 1..Len(d) : d[j] = m
    <3>1. i # at
      BY <2>2
    <3> QED BY <1>2, <2>2, <3>1
  <2>3. ASSUME NEW m, m.key # HashNull, m.key # k, NEW i \in 1..Len(d), d[i] = m
        PROVE  \E j \in 1..Len(c) : c[j] = m
    <3>1. i # at
      BY <1>2, <2>3
    <3> QED BY <1>2, <2>3, <3>1
  <2> QED BY <2>1, <2>2, <2>3 DEF Written
<1> QED BY <1>7, <1>8 DEF d

(* A node linked behind the head of a chain in which no node is free. *)
LEMMA NodeLinked ==
  ASSUME NEW p \in Nat \ {0}, NEW b, NEW c, ChainOK(c, p, b),
         NEW n \in HashNode, NEW k \in HashKeys, k \in Own(p, b), n.key = k,
         \A i \in 1..Len(c) : c[i].key # k /\ c[i].key # HashNull
  PROVE  LET d == <<c[1], n>> \o Tail(c) IN ChainOK(d, p, b) /\ Written(c, d, k, n)
<1> DEFINE d == <<c[1], n>> \o Tail(c)
<1>1. PICK l : l = Len(c)
  OBVIOUS
<1>2. c \in Seq(HashNode) /\ c # <<>> /\ l \in Nat /\ l >= 1 /\ Len(c) = l
  <2>1. c \in Seq(HashNode) /\ c # <<>>
    BY DEF ChainOK
  <2>2. Len(c) \in Nat /\ Len(c) # 0
    BY <2>1, EmptySeq, LenProperties
  <2> QED BY <1>1, <2>1, <2>2
<1>3. c[1] \in HashNode /\ <<c[1], n>> \in Seq(HashNode) /\ Len(<<c[1], n>>) = 2
  BY <1>2, ElementOfSeq
<1>4. Tail(c) \in Seq(HashNode) /\ Len(Tail(c)) = l - 1 /\ \A i \in 1..(l - 1) : Tail(c)[i] = c[i + 1]
  BY <1>2, HeadTailProperties
<1>5. /\ d \in Seq(HashNode) /\ Len(d) = l + 1 /\ d[1] = c[1] /\ d[2] = n
      /\ \A i \in 2..l : d[i + 1] = c[i]
  <2>1. PICK h, r : h = <<c[1], n>> /\ r = Tail(c)
    OBVIOUS
  <2>2. /\ h \o r \in Seq(HashNode) /\ Len(h \o r) = 2 + (l - 1)
        /\ \A i \in 1..(2 + (l - 1)) : (h \o r)[i] = IF i <= 2 THEN h[i] ELSE r[i - 2]
    BY ONLY <1>2, <1>3, <1>4, <2>1, ConcatProperties
  <2>3. d = h \o r
    BY <2>1
  <2> HIDE DEF d
  <2>4. 2 + (l - 1) = l + 1 /\ 1 \in 1..(l + 1) /\ 2 \in 1..(l + 1)
    BY <1>2
  <2>5. d[1] = c[1] /\ d[2] = n
    BY <2>1, <2>2, <2>3, <2>4
  <2>6. ASSUME NEW i \in 2..l PROVE d[i + 1] = c[i]
    <3>1. i + 1 \in 1..(l + 1) /\ ~ (i + 1 <= 2) /\ (i + 1) - 2 = i - 1 /\ i - 1 \in 1..(l - 1) /\ (i - 1) + 1 = i
      BY <1>2
    <3>2. d[i + 1] = r[i - 1]
      BY ONLY <2>2, <2>3, <2>4, <3>1
    <3>3. Tail(c)[i - 1] = c[(i - 1) + 1]
      BY ONLY <1>4, <3>1
    <3> QED BY ONLY <2>1, <3>1, <3>2, <3>3
  <2> QED BY <2>2, <2>3, <2>4, <2>5, <2>6
<1> HIDE DEF d
<1>6. ASSUME NEW i \in 1..(l + 1)
      PROVE  \/ i = 1 /\ d[i] = c[1]
             \/ i = 2 /\ d[i] = n
             \/ \E j \in 2..l : i = j + 1 /\ d[i] = c[j]
  <2>1. CASE i > 2
    <3>1. i - 1 \in 2..l /\ (i - 1) + 1 = i
      BY <1>2, <2>1
    <3> QED BY <1>5, <3>1
  <2> QED BY <1>2, <1>5, <2>1
<1>7. 1 \in 1..l /\ \A j \in 2..l : j \in 1..l /\ j # 1
  BY <1>2
<1>8. \A i \in 1..l : c[i].key \in Own(p, b) /\ c[i].key # k
  BY <1>2 DEF ChainOK
<1>9. \A i \in 1..(l + 1) : d[i].key \in Own(p, b)
  BY <1>6, <1>7, <1>8
<1>10. ASSUME NEW i \in 1..(l + 1), NEW j \in 1..(l + 1), d[i].key = d[j].key PROVE i = j
  <2>1. \A x, y \in 1..l : c[x].key = c[y].key => x = y
    BY <1>2 DEF ChainOK
  <2>2. CASE i = 2 \/ j = 2
    BY <1>6, <1>7, <1>8, <1>10, <2>2
  <2>3. CASE i # 2 /\ j # 2
    BY <1>6, <1>7, <1>10, <2>1, <2>3
  <2> QED BY <2>2, <2>3
<1>11. /\ IsFiniteSet(Own(p, b)) /\ k \in Own(p, b)
  BY HashAssumption, FS_Subset DEF Own
<1>12. l + 1 <= Cardinality(Own(p, b))
  <2> DEFINE f == [i \in 1..(l + 1) |-> d[i].key]
  <2>1. f \in [1..(l + 1) -> Own(p, b)] /\ \A i, j \in 1..(l + 1) : f[i] = f[j] => i = j
    BY <1>9, <1>10
  <2> HIDE DEF f
  <2>2. l + 1 \in Nat
    BY <1>2
  <2> QED BY <1>11, <2>1, <2>2, RowFits
<1>13. ChainOK(d, p, b)
  <2>1. d # <<>>
    BY <1>2, <1>5, EmptySeq
  <2>2. Own(p, b) # {}
    OBVIOUS
  <2> QED BY <1>5, <1>9, <1>10, <1>12, <2>1, <2>2 DEF ChainOK
<1>14. Written(c, d, k, n)
  <2>1. 2 \in 1..Len(d) /\ d[2] = n
    BY <1>2, <1>5
  <2>2. ASSUME NEW m, NEW i \in 1..Len(c), c[i] = m PROVE \E j \in 1..Len(d) : d[j] = m
    <3>1. CASE i = 1
      BY <1>2, <1>5, <2>2, <3>1
    <3>2. CASE i # 1
      <4>1. i \in 2..l /\ i + 1 \in 1..(l + 1)
        BY <1>2, <3>2
      <4> QED BY <1>5, <2>2, <4>1
    <3> QED BY <3>1, <3>2
  <2>3. ASSUME NEW m, m.key # k, NEW i \in 1..Len(d), d[i] = m PROVE \E j \in 1..Len(c) : c[j] = m
    BY <1>2, <1>5, <1>6, <1>7, <2>3
  <2> QED BY <2>1, <2>2, <2>3 DEF Written
<1> QED BY <1>13, <1>14 DEF d

(* What xhash_put does to the chain of the key's bucket. *)
ChainPut(c, k, v) ==
  IF At(c, k) # 0 THEN ReplaceAt(c, At(c, k), [key |-> k, val |-> v]) ELSE _xhash_node_new(c, [key |-> k, val |-> v])

(* xhash_put in the chain: over the node of its key, over a freed one, or linked. *)
LEMMA PutIntoChain ==
  ASSUME NEW p \in Nat \ {0}, NEW b, NEW c, ChainOK(c, p, b),
         NEW k \in HashKeys, HashOf[k] % p = b, NEW v \in HashVals \cup {HashNull}
  PROVE  ChainOK(ChainPut(c, k, v), p, b) /\ Written(c, ChainPut(c, k, v), k, [key |-> k, val |-> v])
<1>1. PICK n : n = [key |-> k, val |-> v]
  OBVIOUS
<1>2. n \in HashNode /\ n.key = k /\ k \in Own(p, b) /\ c \in Seq(HashNode) /\ k # HashNull
  BY <1>1, HashAssumption DEF HashNode, Own, ChainOK
<1>3. PICK at, free : at = At(c, k) /\ free = At(c, HashNull)
  OBVIOUS
<1>4. /\ at \in 0..Len(c) /\ (at # 0 => c[at].key = k) /\ (at = 0 => \A i \in 1..Len(c) : c[i].key # k)
      /\ free \in 0..Len(c) /\ (free # 0 => c[free].key = HashNull)
      /\ (free = 0 => \A i \in 1..Len(c) : c[i].key # HashNull)
  BY <1>2, <1>3, AtIs
<1>5. Len(c) \in Nat /\ \A i \in 0..Len(c) : i # 0 => i \in 1..Len(c)
  BY <1>2, LenProperties
<1>6. CASE at # 0
  <2>1. ChainPut(c, k, v) = [c EXCEPT ![at] = n]
    BY <1>1, <1>3, <1>6 DEF ChainPut, ReplaceAt
  <2>2. \A i \in 1..Len(c) : i # at => c[i].key # k
    BY <1>2, <1>4, <1>5, <1>6 DEF ChainOK
  <2>3. at \in 1..Len(c) /\ c[at].key \in {k, HashNull} /\ n.key \in {k, HashNull}
    BY <1>2, <1>4, <1>5, <1>6
  <2>4. ChainOK([c EXCEPT ![at] = n], p, b) /\ Written(c, [c EXCEPT ![at] = n], k, n)
    BY ONLY p \in Nat \ {0}, ChainOK(c, p, b), k \in HashKeys, <1>2, <2>2, <2>3, NodeReplaced
  <2> QED BY ONLY <1>1, <2>1, <2>4
<1>7. CASE at = 0 /\ free # 0
  <2>1. ChainPut(c, k, v) = [c EXCEPT ![free] = n]
    BY <1>1, <1>3, <1>7 DEF ChainPut, ReplaceAt, _xhash_node_new, At
  <2>2. free \in 1..Len(c) /\ c[free].key \in {k, HashNull} /\ n.key \in {k, HashNull} /\ \A i \in 1..Len(c) : i # free => c[i].key # k
    BY <1>2, <1>4, <1>5, <1>7
  <2>3. ChainOK([c EXCEPT ![free] = n], p, b) /\ Written(c, [c EXCEPT ![free] = n], k, n)
    BY ONLY p \in Nat \ {0}, ChainOK(c, p, b), k \in HashKeys, <1>2, <2>2, NodeReplaced
  <2> QED BY ONLY <1>1, <2>1, <2>3
<1>8. CASE at = 0 /\ free = 0
  <2>1. ChainPut(c, k, v) = <<c[1], n>> \o Tail(c)
    BY <1>1, <1>3, <1>8 DEF ChainPut, ReplaceAt, _xhash_node_new, At
  <2> QED BY <1>1, <1>2, <1>4, <1>8, <2>1, NodeLinked
<1> QED BY <1>6, <1>7, <1>8

(* What xhash_zap does to the chain of the key's bucket: the node stays, with
   a value that nobody finds. *)
LEMMA ZapInChain ==
  ASSUME NEW p \in Nat \ {0}, NEW b, NEW c, ChainOK(c, p, b),
         NEW k \in HashKeys, HashOf[k] % p = b, At(c, k) # 0
  PROVE  LET n == [key |-> HashNull, val |-> c[At(c, k)].val]
         IN ChainOK([c EXCEPT ![At(c, k)] = n], p, b) /\ Written(c, [c EXCEPT ![At(c, k)] = n], k, n)
<1>1. PICK at : at = At(c, k)
  OBVIOUS
<1>2. c \in Seq(HashNode) /\ Len(c) \in Nat /\ at \in 1..Len(c) /\ c[at].key = k /\ c[at] \in HashNode
  <2>1. c \in Seq(HashNode)
    BY DEF ChainOK
  <2>2. at \in 0..Len(c) /\ Len(c) \in Nat /\ c[at].key = k
    BY <1>1, <2>1, AtIs, LenProperties
  <2>3. at \in 1..Len(c)
    BY <1>1, <2>2
  <2> QED BY <2>1, <2>2, <2>3, ElementOfSeq
<1>3. PICK n : n = [key |-> HashNull, val |-> c[at].val]
  OBVIOUS
<1>4. n \in HashNode /\ n.key \in {k, HashNull} /\ c[at].key \in {k, HashNull} /\ k \in Own(p, b)
  BY <1>2, <1>3 DEF HashNode, Own
<1>5. \A i \in 1..Len(c) : i # at => c[i].key # k
  BY <1>2, HashAssumption DEF ChainOK
<1>6. ChainOK([c EXCEPT ![at] = n], p, b) /\ Written(c, [c EXCEPT ![at] = n], k, n)
  BY ONLY p \in Nat \ {0}, ChainOK(c, p, b), k \in HashKeys, <1>2, <1>4, <1>5, NodeReplaced
<1> QED BY ONLY <1>1, <1>3, <1>6

------------------------------------------------------------------------------
(* A node of the table with this key and this value; it is the one that
   xhash_get finds. *)
Holds(t, p, k, v) == \E i \in 1..Len(t[HashOf[k] % p]) : t[HashOf[k] % p][i].key = k /\ t[HashOf[k] % p][i].val = v

(* xhash_get finds the value of the one node with the key, and nothing if there is none. *)
LEMMA GetIs ==
  ASSUME NEW p, NEW t, IsTable(t, p), NEW k \in HashKeys
  PROVE  /\ \A v : Holds(t, p, k, v) => xhash_get(t, k) = v
         /\ xhash_get(t, k) # HashNull => Holds(t, p, k, xhash_get(t, k))
         /\ (\A i \in 1..Len(t[HashOf[k] % p]) : t[HashOf[k] % p][i].key # k) => xhash_get(t, k) = HashNull
         /\ xhash_get(t, k) \in HashVals \cup {HashNull}
<1>1. p \in Nat \ {0} /\ DOMAIN t = 0..(p - 1)
  BY DEF IsTable
<1>2. PICK b, c : b = HashOf[k] % p /\ c = t[b]
  OBVIOUS
<1>3. BucketOf(t, k) = b /\ b \in 0..(p - 1)
  BY <1>1, <1>2, PrimeIs
<1>4. ChainOK(c, p, b) /\ c \in Seq(HashNode) /\ Len(c) \in Nat
  BY <1>2, <1>3, LenProperties DEF IsTable, ChainOK
<1>5. PICK at : at = At(c, k)
  OBVIOUS
<1>6. at \in 0..Len(c) /\ (at # 0 => c[at].key = k) /\ (at = 0 => \A i \in 1..Len(c) : c[i].key # k)
  BY <1>4, <1>5, AtIs
<1>7. xhash_get(t, k) = IF at = 0 THEN HashNull ELSE c[at].val
  BY <1>2, <1>3, <1>5 DEF xhash_get, _xhash_node_get, At
<1>8. ASSUME NEW i \in 1..Len(c), c[i].key = k PROVE at = i
  <2>1. at \in 1..Len(c) /\ c[at].key = k
    BY <1>4, <1>6, <1>8
  <2> QED BY <1>4, <1>8, <2>1, HashAssumption DEF ChainOK
<1>9. at # 0 => at \in 1..Len(c) /\ c[at] \in HashNode
  BY <1>4, <1>6, ElementOfSeq
<1>10. \A v : Holds(t, p, k, v) => xhash_get(t, k) = v
  <2> SUFFICES ASSUME NEW v, Holds(t, p, k, v) PROVE xhash_get(t, k) = v
    OBVIOUS
  <2>1. PICK i \in 1..Len(c) : c[i].key = k /\ c[i].val = v
    BY <1>2 DEF Holds
  <2> QED BY <1>4, <1>7, <1>8, <2>1
<1>11. xhash_get(t, k) # HashNull => Holds(t, p, k, xhash_get(t, k))
  BY <1>2, <1>6, <1>7, <1>9 DEF Holds
<1>12. (\A i \in 1..Len(c) : c[i].key # k) => xhash_get(t, k) = HashNull
  BY <1>6, <1>7, <1>9
<1>13. xhash_get(t, k) \in HashVals \cup {HashNull}
  BY <1>7, <1>9 DEF HashNode
<1> QED BY <1>2, <1>10, <1>11, <1>12, <1>13

(* Tables that differ in one chain, and there in the node of one key. *)
Changed(p, t, k, c, d, n, u) ==
  /\ IsTable(t, p) /\ k \in HashKeys /\ c = t[HashOf[k] % p] /\ u = [t EXCEPT ![HashOf[k] % p] = d]
  /\ ChainOK(d, p, HashOf[k] % p) /\ Written(c, d, k, n) /\ n \in HashNode
  /\ n.key \in {k, HashNull} /\ (n.key = HashNull => \A i \in 1..Len(d) : d[i].key # k)
Differs(p, t, k, n, u) ==
  /\ IsTable(u, p)
  /\ \A l \in HashKeys \ {k} : xhash_get(u, l) = xhash_get(t, l)
  /\ xhash_get(u, k) = IF n.key = k THEN n.val ELSE HashNull

(* A table with the chain of one key changed, and the others as they were. *)
LEMMA ChainChanged ==
  ASSUME NEW p, NEW t, NEW k, NEW c, NEW d, NEW n, NEW u, Changed(p, t, k, c, d, n, u)
  PROVE  Differs(p, t, k, n, u)
<1>0. PICK b : b = HashOf[k] % p
  OBVIOUS
<1>1. /\ b = HashOf[k] % p /\ c = t[b] /\ k \in HashKeys /\ ChainOK(d, p, b) /\ Written(c, d, k, n)
      /\ n \in HashNode /\ n.key \in {k, HashNull} /\ (n.key = HashNull => \A i \in 1..Len(d) : d[i].key # k)
      /\ IsTable(t, p) /\ u = [t EXCEPT ![b] = d]
  BY <1>0 DEF Changed
<1>2. p \in Nat \ {0} /\ t \in [0..(p - 1) -> Seq(HashNode)] /\ d \in Seq(HashNode)
  BY <1>1 DEF IsTable, ChainOK
<1>3. b \in 0..(p - 1)
  BY <1>1, <1>2, PrimeIs
<1>4. u = [t EXCEPT ![b] = d]
  BY <1>1
<1>5. u \in [0..(p - 1) -> Seq(HashNode)] /\ u[b] = d /\ \A x \in 0..(p - 1) : x # b => u[x] = t[x]
  BY <1>2, <1>3, <1>4
<1>6. IsTable(u, p)
  BY <1>1, <1>2, <1>5 DEF IsTable
<1>7. k # HashNull
  BY <1>1, HashAssumption
<1>8. xhash_get(u, k) = IF n.key = k THEN n.val ELSE HashNull
  <2>0. k \in HashKeys
    BY <1>1
  <2>1. CASE n.key = k
    <3>1. Holds(u, p, k, n.val)
      <4>1. PICK i \in 1..Len(d) : d[i] = n
        BY <1>1 DEF Written
      <4> QED BY <1>1, <1>5, <2>1, <4>1 DEF Holds
    <3> QED BY <1>6, <2>0, <2>1, <3>1, GetIs
  <2>2. CASE n.key # k
    <3>1. \A i \in 1..Len(u[b]) : u[b][i].key # k
      BY <1>1, <1>5, <2>2
    <3>2. \A i \in 1..Len(u[HashOf[k] % p]) : u[HashOf[k] % p][i].key # k
      BY <1>1, <3>1
    <3>3. xhash_get(u, k) = HashNull
      BY ONLY <1>6, <2>0, <3>2, GetIs
    <3> QED BY <2>2, <3>3
  <2> QED BY <1>1, <2>1, <2>2
<1>9. ASSUME NEW l \in HashKeys \ {k} PROVE xhash_get(u, l) = xhash_get(t, l)
  <2>1. PICK x : x = HashOf[l] % p
    OBVIOUS
  <2>2. x \in 0..(p - 1) /\ l # HashNull
    BY <1>2, <2>1, PrimeIs, HashAssumption
  <2>3. \A v : Holds(u, p, l, v) <=> Holds(t, p, l, v)
    <3>1. CASE x # b
      BY <1>5, <2>1, <2>2, <3>1 DEF Holds
    <3>2. CASE x = b
      <4>1. c \in Seq(HashNode)
        BY <1>1, <1>2, <1>3
      <4>2. \A i \in 1..Len(d) : d[i].key = l => \E j \in 1..Len(c) : c[j] = d[i]
        BY <1>1, <2>2 DEF Written
      <4>3. \A i \in 1..Len(c) : c[i].key = l => \E j \in 1..Len(d) : d[j] = c[i]
        BY <1>1, <2>2 DEF Written
      <4>4. u[HashOf[l] % p] = d /\ t[HashOf[l] % p] = c
        BY <1>1, <1>5, <2>1, <3>2
      <4>5. \A v : Holds(u, p, l, v) <=> \E i \in 1..Len(d) : d[i].key = l /\ d[i].val = v
        BY <4>4 DEF Holds
      <4>6. \A v : Holds(t, p, l, v) <=> \E i \in 1..Len(c) : c[i].key = l /\ c[i].val = v
        BY <4>4 DEF Holds
      <4> QED BY ONLY <4>2, <4>3, <4>5, <4>6
    <3> QED BY <3>1, <3>2
  <2>4. CASE xhash_get(t, l) # HashNull
    BY <1>1, <1>6, <2>3, <2>4, GetIs
  <2>5. CASE xhash_get(u, l) # HashNull
    BY <1>1, <1>6, <2>3, <2>5, GetIs
  <2> QED BY <2>4, <2>5
<1> QED BY <1>6, <1>8, <1>9 DEF Differs

(* xhash_put and xhash_zap change what is found under their key only. *)
LEMMA PutContent ==
  ASSUME NEW p, NEW t, IsTable(t, p), NEW k \in HashKeys, NEW v \in HashVals \cup {HashNull}
  PROVE  /\ IsTable(xhash_put(t, k, v), p)
         /\ \A l \in HashKeys : xhash_get(xhash_put(t, k, v), l) = IF l = k THEN v ELSE xhash_get(t, l)
<1>1. PICK b, c, n : b = HashOf[k] % p /\ c = t[b] /\ n = [key |-> k, val |-> v]
  OBVIOUS
<1>2. p \in Nat \ {0} /\ DOMAIN t = 0..(p - 1)
  BY DEF IsTable
<1>3. BucketOf(t, k) = b /\ b \in 0..(p - 1)
  BY <1>1, <1>2, PrimeIs
<1>4. ChainOK(c, p, b)
  BY <1>1, <1>3 DEF IsTable
<1>5. n \in HashNode /\ n.key = k /\ n.val = v /\ k # HashNull
  BY <1>1, HashAssumption DEF HashNode
<1>6. PICK d : d = ChainPut(c, k, v)
  OBVIOUS
<1>7. ChainOK(d, p, b) /\ Written(c, d, k, n)
  BY <1>1, <1>2, <1>4, <1>6, PutIntoChain
<1>8. xhash_put(t, k, v) = [t EXCEPT ![b] = d]
  BY <1>1, <1>3, <1>6 DEF xhash_put, ChainPut, _xhash_node_get, At
<1>9. PICK u : u = [t EXCEPT ![b] = d]
  OBVIOUS
<1>10. n.key \in {k, HashNull} /\ (n.key = HashNull => \A i \in 1..Len(d) : d[i].key # k)
  BY <1>5
<1>11. Changed(p, t, k, c, d, n, u)
  BY ONLY IsTable(t, p), k \in HashKeys, <1>1, <1>5, <1>7, <1>9, <1>10 DEF Changed
<1>12. Differs(p, t, k, n, u)
  BY ONLY <1>11, ChainChanged
<1> QED BY ONLY <1>5, <1>8, <1>9, <1>12 DEF Differs

(* xhash_zap removes what is found under its key, and nothing else. *)
LEMMA ZapContent ==
  ASSUME NEW p, NEW t, IsTable(t, p), NEW k \in HashKeys
  PROVE  /\ IsTable(xhash_zap(t, k), p)
         /\ \A l \in HashKeys : xhash_get(xhash_zap(t, k), l) = IF l = k THEN HashNull ELSE xhash_get(t, l)
<1>1. PICK b, c : b = HashOf[k] % p /\ c = t[b]
  OBVIOUS
<1>2. p \in Nat \ {0} /\ t \in [0..(p - 1) -> Seq(HashNode)]
  BY DEF IsTable
<1>3. BucketOf(t, k) = b /\ b \in 0..(p - 1)
  BY <1>1, <1>2, PrimeIs
<1>4. ChainOK(c, p, b) /\ c \in Seq(HashNode)
  BY <1>1, <1>3 DEF IsTable, ChainOK
<1>5. PICK at : at = At(c, k)
  OBVIOUS
<1>6. /\ at \in 0..Len(c) /\ (at # 0 => c[at].key = k) /\ (at = 0 => \A i \in 1..Len(c) : c[i].key # k)
      /\ Len(c) \in Nat
  BY <1>4, <1>5, AtIs, LenProperties
<1>7. xhash_zap(t, k) = IF at = 0 THEN t ELSE [t EXCEPT ![b][at].key = HashNull]
  BY <1>1, <1>3, <1>5 DEF xhash_zap, _xhash_node_get, At
<1>8. CASE at = 0
  <2>1. xhash_get(t, k) = HashNull
    BY <1>1, <1>6, <1>8, GetIs
  <2> QED BY <1>7, <1>8, <2>1
<1>9. CASE at # 0
  <2>1. at \in 1..Len(c) /\ c[at] \in HashNode /\ c[at].key = k
    BY <1>4, <1>6, <1>9, ElementOfSeq
  <2>2. PICK n : n = [key |-> HashNull, val |-> c[at].val]
    OBVIOUS
  <2>3. n \in HashNode /\ n.key = HashNull /\ k # HashNull /\ n = [c[at] EXCEPT !.key = HashNull]
    BY <2>1, <2>2, HashAssumption DEF HashNode
  <2>4. PICK d : d = [c EXCEPT ![at] = n]
    OBVIOUS
  <2>5. [t EXCEPT ![b][at].key = HashNull] = [t EXCEPT ![b] = d]
    <3>1. [t EXCEPT ![b][at].key = HashNull] = [t EXCEPT ![b] = [t[b] EXCEPT ![at] = [t[b][at] EXCEPT !.key = HashNull]]]
      OBVIOUS
    <3> QED BY ONLY <1>1, <2>3, <2>4, <3>1
  <2>6. ChainOK(d, p, b) /\ Written(c, d, k, n)
    BY ONLY <1>1, <1>2, <1>4, <1>5, <1>9, <2>2, <2>4, k \in HashKeys, ZapInChain
  <2>7. \A i \in 1..Len(d) : d[i].key # k
    <3>1. Len(d) = Len(c) /\ d[at] = n /\ \A i \in 1..Len(c) : i # at => d[i] = c[i]
      BY <1>4, <2>1, <2>3, <2>4, ExceptSeq
    <3>2. \A i \in 1..Len(c) : i # at => c[i].key # k
      BY <1>4, <2>1, <2>3 DEF ChainOK
    <3> QED BY <2>3, <3>1, <3>2
  <2>8. PICK u : u = [t EXCEPT ![b] = d]
    OBVIOUS
  <2>9. n.key \in {k, HashNull} /\ n.key # k
    BY <2>3
  <2>10. Changed(p, t, k, c, d, n, u)
    BY ONLY IsTable(t, p), k \in HashKeys, <1>1, <2>3, <2>6, <2>7, <2>8, <2>9 DEF Changed
  <2>11. Differs(p, t, k, n, u)
    BY ONLY <2>10, ChainChanged
  <2> QED BY ONLY <1>7, <1>9, <2>5, <2>8, <2>9, <2>11 DEF Differs
<1> QED BY <1>8, <1>9

------------------------------------------------------------------------------
(* The live nodes of a chain: those in it with a key and a value, each once. *)
KeyOfNode == [n \in HashNode |-> n.key]
ChainWalked(c, f) ==
  /\ f \in Seq(HashNode)
  /\ \A i \in 1..Len(f) : Live(f[i]) /\ \E j \in 1..Len(c) : f[i] = c[j]
  /\ \A j \in 1..Len(c) : Live(c[j]) => \E i \in 1..Len(f) : f[i] = c[j]
  /\ \A i, j \in 1..Len(f) : KeyOfNode[f[i]] = KeyOfNode[f[j]] => i = j

(* The function of xhash_walk is called for each live node of a chain once. *)
LEMMA ChainWalk ==
  ASSUME NEW p, NEW b, NEW c, ChainOK(c, p, b)
  PROVE  ChainWalked(c, LiveOnes(c))
<1>1. /\ c \in Seq(HashNode) /\ Len(c) \in Nat /\ \A i \in 1..Len(c) : c[i] \in HashNode
      /\ \A i, j \in 1..Len(c) : c[i].key # HashNull /\ c[i].key = c[j].key => i = j
  BY LenProperties, ElementOfSeq DEF ChainOK
<1>2. PICK ss : ss = [i \in 1..Len(c) |-> IF Live(c[i]) THEN <<c[i]>> ELSE <<>>]
  OBVIOUS
<1>3. \A i \in 1..Len(c) : (Live(c[i]) => ss[i] = <<c[i]>>) /\ (~ Live(c[i]) => ss[i] = <<>>)
  BY <1>2
<1>4. ss \in Seq(Seq(HashNode)) /\ Len(ss) = Len(c)
  <2>1. \A i \in 1..Len(c) : ss[i] \in Seq(HashNode)
    <3> SUFFICES ASSUME NEW i \in 1..Len(c) PROVE ss[i] \in Seq(HashNode)
      OBVIOUS
    <3>1. PICK n : n = c[i]
      OBVIOUS
    <3>2. n \in HashNode /\ ss[i] \in {<<n>>, <<>>}
      BY <1>1, <1>3, <3>1
    <3>3. <<n>> \in Seq(HashNode)
      BY ONLY <3>2
    <3>4. <<>> \in Seq(HashNode)
      BY EmptySeq
    <3> QED BY ONLY <3>2, <3>3, <3>4
  <2>2. ss \in [1..Len(c) -> Seq(HashNode)]
    BY <1>2, <2>1
  <2> QED BY <1>1, <2>2
<1>5. \A a \in 1..Len(ss) : \A j \in 1..Len(ss[a]) : j = 1 /\ Live(c[a]) /\ ss[a][j] = c[a] /\ a \in 1..Len(c)
  <2> SUFFICES ASSUME NEW a \in 1..Len(ss), NEW j \in 1..Len(ss[a])
               PROVE  j = 1 /\ Live(c[a]) /\ ss[a][j] = c[a] /\ a \in 1..Len(c)
    OBVIOUS
  <2>1. a \in 1..Len(c)
    BY <1>4
  <2>2. Live(c[a])
    BY <1>3, <2>1
  <2>3. ss[a] = <<c[a]>>
    BY <1>3, <2>1, <2>2
  <2> QED BY <2>1, <2>2, <2>3
<1>6. KeysApart(KeyOfNode, ss)
  <2> SUFFICES ASSUME NEW a \in 1..Len(ss), NEW e \in 1..Len(ss), NEW i \in 1..Len(ss[a]), NEW j \in 1..Len(ss[e]),
                      KeyOfNode[ss[a][i]] = KeyOfNode[ss[e][j]]
               PROVE  a = e /\ i = j
    BY DEF KeysApart
  <2>1. i = 1 /\ j = 1 /\ Live(c[a]) /\ ss[a][i] = c[a] /\ ss[e][j] = c[e] /\ a \in 1..Len(c) /\ e \in 1..Len(c)
    BY <1>5
  <2>2. c[a].key = c[e].key /\ c[a].key # HashNull
    BY <1>1, <2>1 DEF KeyOfNode, Live
  <2> QED BY <1>1, <2>1, <2>2
<1>7. PICK f : f = FlattenSeq(ss)
  OBVIOUS
<1>8. Joined(KeyOfNode, ss, f)
  BY ONLY <1>4, <1>6, <1>7, FlattenKeyed
<1>9. f \in Seq(HashNode)
  BY ONLY <1>4, <1>7, FlattenSeqType
<1>10. \A i \in 1..Len(f) : Live(f[i]) /\ \E j \in 1..Len(c) : f[i] = c[j]
  BY <1>5, <1>8 DEF Joined
<1>11. \A j \in 1..Len(c) : Live(c[j]) => \E i \in 1..Len(f) : f[i] = c[j]
  <2> SUFFICES ASSUME NEW j \in 1..Len(c), Live(c[j]) PROVE \E i \in 1..Len(f) : f[i] = c[j]
    OBVIOUS
  <2>1. ss[j] = <<c[j]>> /\ j \in 1..Len(ss)
    BY <1>3, <1>4
  <2>2. 1 \in 1..Len(ss[j]) /\ ss[j][1] = c[j]
    BY <2>1
  <2>3. \E i \in 1..Len(f) : f[i] = ss[j][1]
    BY ONLY <1>8, <2>1, <2>2 DEF Joined
  <2> QED BY <2>2, <2>3
<1>12. f = LiveOnes(c)
  BY <1>2, <1>7 DEF LiveOnes
<1>13. \A i, j \in 1..Len(f) : KeyOfNode[f[i]] = KeyOfNode[f[j]] => i = j
  BY ONLY <1>8 DEF Joined
<1>14. ChainWalked(c, f)
  BY ONLY <1>9, <1>10, <1>11, <1>13 DEF ChainWalked
<1> QED BY ONLY <1>12, <1>14

(* The walk through the table: every live node once, and no other. *)
Walked(t, p, w) ==
  /\ w \in Seq(HashNode)
  /\ \A i \in 1..Len(w) : w[i].key \in HashKeys /\ w[i].val # HashNull /\ xhash_get(t, w[i].key) = w[i].val
  /\ \A k \in HashKeys : xhash_get(t, k) # HashNull => \E i \in 1..Len(w) : w[i].key = k
  /\ \A i, j \in 1..Len(w) : w[i].key = w[j].key => i = j

(* xhash_walk meets every key that xhash_get finds once, with its value. *)
LEMMA TableWalk ==
  ASSUME NEW p, NEW t, IsTable(t, p)
  PROVE  Walked(t, p, xhash_walk(t))
<1>1. p \in Nat \ {0} /\ DOMAIN t = 0..(p - 1) /\ \A b \in 0..(p - 1) : ChainOK(t[b], p, b)
  BY DEF IsTable
<1>2. PICK ss : ss = [b \in 1..p |-> LiveOnes(t[b - 1])]
  OBVIOUS
<1>3. \A a \in 1..p : a - 1 \in 0..(p - 1) /\ ss[a] = LiveOnes(t[a - 1])
  BY <1>1, <1>2
<1>4. ss \in Seq(Seq(HashNode)) /\ Len(ss) = p
  <2>1. \A a \in 1..p : ss[a] \in Seq(HashNode)
    BY <1>1, <1>3, ChainWalk
  <2>2. ss \in [1..p -> Seq(HashNode)]
    BY <1>2, <2>1
  <2> QED BY <1>1, <2>2
<1>5. PICK w : w = xhash_walk(t)
  OBVIOUS
<1>6. w = FlattenSeq(ss)
  <2>1. Prime(t) = p
    BY <1>1, PrimeIs
  <2> QED BY <1>2, <1>5, <2>1 DEF xhash_walk
<1>7. ASSUME NEW a \in 1..p, NEW i \in 1..Len(ss[a])
      PROVE  /\ ss[a][i] \in HashNode /\ Live(ss[a][i]) /\ ss[a][i].key \in Own(p, a - 1)
             /\ \E j \in 1..Len(t[a - 1]) : ss[a][i] = t[a - 1][j]
  <2>1. PICK b, c, l : b = a - 1 /\ c = t[b] /\ l = LiveOnes(c)
    OBVIOUS
  <2>2. ChainOK(c, p, b) /\ ss[a] = l
    BY <1>1, <1>3, <2>1
  <2>3. l \in Seq(HashNode) /\ Live(l[i]) /\ \E j \in 1..Len(c) : l[i] = c[j]
    <3>1. ChainWalked(c, l)
      BY <2>1, <2>2, ChainWalk
    <3> QED BY <2>2, <3>1 DEF ChainWalked
  <2>4. l[i] \in HashNode
    BY <2>2, <2>3, ElementOfSeq
  <2>5. l[i].key \in Own(p, b)
    BY <2>2, <2>3 DEF ChainOK, Live
  <2> QED BY <2>1, <2>2, <2>3, <2>4, <2>5
<1>8. KeysApart(KeyOfNode, ss)
  <2> SUFFICES ASSUME NEW a \in 1..p, NEW e \in 1..p, NEW i \in 1..Len(ss[a]), NEW j \in 1..Len(ss[e]),
                      KeyOfNode[ss[a][i]] = KeyOfNode[ss[e][j]]
               PROVE  a = e /\ i = j
    BY <1>4 DEF KeysApart
  <2>1. ss[a][i].key = ss[e][j].key
    BY <1>7 DEF KeyOfNode
  <2>2. ss[a][i].key \in Own(p, a - 1) /\ ss[e][j].key \in Own(p, e - 1)
    BY <1>7
  <2>3. a - 1 = e - 1
    BY <2>1, <2>2 DEF Own
  <2>4. a = e
    BY <1>1, <2>3
  <2>5. PICK b, c, l : b = a - 1 /\ c = t[b] /\ l = LiveOnes(c)
    OBVIOUS
  <2>6. ChainOK(c, p, b) /\ ss[a] = l
    BY <1>1, <1>3, <2>5
  <2>7. \A x, y \in 1..Len(l) : KeyOfNode[l[x]] = KeyOfNode[l[y]] => x = y
    <3>1. ChainWalked(c, l)
      BY ONLY <2>5, <2>6, ChainWalk
    <3> QED BY ONLY <3>1 DEF ChainWalked
  <2> QED BY <2>4, <2>6, <2>7
<1>9. Joined(KeyOfNode, ss, w)
  BY ONLY <1>4, <1>6, <1>8, FlattenKeyed
<1>10. w \in Seq(HashNode)
  BY ONLY <1>4, <1>6, FlattenSeqType
<1>11. ASSUME NEW i \in 1..Len(w)
       PROVE  w[i] \in HashNode /\ w[i].key \in HashKeys /\ w[i].val # HashNull /\ xhash_get(t, w[i].key) = w[i].val
  <2>1. PICK a \in 1..p : \E j \in 1..Len(ss[a]) : w[i] = ss[a][j]
    BY <1>4, <1>9 DEF Joined
  <2>2. PICK n, k, b : n = w[i] /\ k = n.key /\ b = a - 1
    OBVIOUS
  <2>3. n \in HashNode /\ Live(n) /\ k \in Own(p, b) /\ \E j \in 1..Len(t[b]) : n = t[b][j]
    BY <1>7, <2>1, <2>2
  <2>4. k \in HashKeys /\ HashOf[k] % p = b
    BY <2>3 DEF Own
  <2>5. Holds(t, p, k, n.val)
    BY <2>2, <2>3, <2>4 DEF Holds
  <2>6. xhash_get(t, k) = n.val
    BY <2>4, <2>5, GetIs
  <2> QED BY <2>2, <2>3, <2>4, <2>6 DEF Live
<1>12. ASSUME NEW k \in HashKeys, xhash_get(t, k) # HashNull PROVE \E i \in 1..Len(w) : w[i].key = k
  <2>1. PICK b, c, l : b = HashOf[k] % p /\ c = t[b] /\ l = LiveOnes(c)
    OBVIOUS
  <2>2. b \in 0..(p - 1) /\ k # HashNull
    BY <1>1, <2>1, PrimeIs, HashAssumption
  <2>3. PICK j \in 1..Len(c) : c[j].key = k /\ c[j].val = xhash_get(t, k)
    BY <1>12, <2>1, GetIs DEF Holds
  <2>4. Live(c[j]) /\ ChainOK(c, p, b)
    BY <1>1, <1>12, <2>1, <2>2, <2>3 DEF Live
  <2>5. PICK i \in 1..Len(l) : l[i] = c[j]
    <3>1. ChainWalked(c, l)
      BY ONLY <2>1, <2>4, ChainWalk
    <3> QED BY ONLY <2>3, <2>4, <3>1 DEF ChainWalked
  <2>6. b + 1 \in 1..p /\ ss[b + 1] = l
    BY <1>1, <1>3, <2>1, <2>2
  <2>7. \E x \in 1..Len(w) : w[x] = ss[b + 1][i]
    BY <1>4, <1>9, <2>5, <2>6 DEF Joined
  <2> QED BY <2>3, <2>5, <2>6, <2>7
<1>13. \A i, j \in 1..Len(w) : w[i].key = w[j].key => i = j
  BY <1>9, <1>11 DEF Joined, KeyOfNode
<1> QED BY <1>5, <1>10, <1>11, <1>12, <1>13 DEF Walked

------------------------------------------------------------------------------
(* A new table has nothing in it. *)
LEMMA NewTable ==
  ASSUME NEW p \in Nat \ {0}
  PROVE  /\ IsTable(xhash_new(p), p)
         /\ \A k \in HashKeys : xhash_get(xhash_new(p), k) = HashNull
<1>1. PICK n, t : n = [key |-> HashNull, val |-> HashNull] /\ t = xhash_new(p)
  OBVIOUS
<1>2. n \in HashNode /\ n.key = HashNull
  BY <1>1 DEF HashNode
<1>3. PICK c : c = <<n>>
  OBVIOUS
<1>4. c \in Seq(HashNode) /\ Len(c) = 1 /\ c[1] = n /\ c # <<>> /\ \A i \in 1..Len(c) : c[i] = n
  BY <1>2, <1>3
<1>5. \A b \in 0..(p - 1) : t[b] = c
  BY <1>1, <1>3 DEF xhash_new
<1>6. t \in [0..(p - 1) -> Seq(HashNode)]
  BY <1>1, <1>3, <1>4 DEF xhash_new
<1>7. ASSUME NEW b \in 0..(p - 1) PROVE ChainOK(c, p, b)
  <2>1. IsFiniteSet(Own(p, b)) /\ (Own(p, b) # {} => Cardinality(Own(p, b)) \in Nat /\ Cardinality(Own(p, b)) >= 1)
    <3>1. Own(p, b) \subseteq HashKeys /\ IsFiniteSet(HashKeys)
      BY HashAssumption DEF Own
    <3>2. PICK T : T = Own(p, b)
      OBVIOUS
    <3>3. IsFiniteSet(T)
      BY ONLY <3>1, <3>2, FS_Subset
    <3>4. T # {} => Cardinality(T) \in Nat /\ Cardinality(T) # 0
      BY ONLY <3>3, FS_EmptySet, FS_CardinalityType
    <3> QED BY ONLY <3>2, <3>3, <3>4
  <2> QED BY <1>2, <1>4, <2>1 DEF ChainOK
<1>8. IsTable(t, p)
  BY <1>5, <1>6, <1>7 DEF IsTable
<1>9. ASSUME NEW k \in HashKeys PROVE xhash_get(t, k) = HashNull
  <2>1. PICK b : b = HashOf[k] % p
    OBVIOUS
  <2>2. b \in 0..(p - 1) /\ k # HashNull
    BY <1>6, <2>1, PrimeIs, HashAssumption
  <2>3. \A i \in 1..Len(t[b]) : t[b][i].key # k
    BY <1>2, <1>4, <1>5, <2>2
  <2> QED BY <1>8, <2>1, <2>3, GetIs
<1> QED BY <1>1, <1>8, <1>9

(* The number that xhash_get_nth counts to. *)
LEMMA NthIs ==
  ASSUME NEW p, IsTable(xht, p)
  PROVE  NthComplete
<1>1. PICK w : w = xhash_walk(xht)
  OBVIOUS
<1>2. Walked(xht, p, w)
  BY ONLY <1>1, IsTable(xht, p), TableWalk
<1>3. PICK T : T = {k \in HashKeys : xhash_get(xht, k) # HashNull}
  OBVIOUS
<1>4. IsFiniteSet(T)
  <2>1. T \subseteq HashKeys /\ IsFiniteSet(HashKeys)
    BY <1>3, HashAssumption
  <2> QED BY ONLY <2>1, FS_Subset
<1>5. PICK n, f : n = Len(w) /\ f = [i \in 1..n |-> w[i].key]
  OBVIOUS
<1>6. n \in Nat
  BY <1>2, <1>5, LenProperties DEF Walked
<1>7. \A i \in 1..n : w[i].key \in HashKeys /\ w[i].val # HashNull /\ xhash_get(xht, w[i].key) = w[i].val
  BY <1>2, <1>5 DEF Walked
<1>8. f \in [1..n -> T] /\ \A i \in 1..n : f[i] = w[i].key
  BY <1>3, <1>5, <1>7
<1>9. \A i, j \in 1..n : f[i] = f[j] => i = j
  BY <1>2, <1>5, <1>8 DEF Walked
<1>10. \A x \in T : \E i \in 1..n : f[i] = x
  BY <1>2, <1>3, <1>5, <1>8 DEF Walked
<1>11. n = Cardinality(T)
  BY ONLY <1>4, <1>6, <1>8, <1>9, <1>10, RowCounts
<1>12. \A m \in 0..n : (xhash_get_nth(xht, m) = HashNull) <=> m = n
  <2> SUFFICES ASSUME NEW m \in 0..n PROVE (xhash_get_nth(xht, m) = HashNull) <=> m = n
    OBVIOUS
  <2>1. xhash_get_nth(xht, m) = IF m < n THEN w[m + 1].val ELSE HashNull
    BY <1>1, <1>5 DEF xhash_get_nth
  <2>2. m < n => m + 1 \in 1..n
    BY <1>6
  <2> QED BY <1>6, <1>7, <2>1, <2>2
<1> QED BY <1>1, <1>3, <1>5, <1>11, <1>12 DEF NthComplete

(* The copies a change of size makes: the new table after each node. *)
CopyRule(t, w, prime, g) ==
  g = [i \in 0..Len(w) |-> IF i = 0 THEN xhash_new(prime) ELSE copy_node(g[i - 1], w[i])]
TablesOf(prime) == {u \in [0..(prime - 1) -> Seq(HashNode)] : IsTable(u, prime)}

(* The copies of xhash_resize are made, one after another. *)
LEMMA CopiesExist ==
  ASSUME NEW p, NEW t, IsTable(t, p), NEW prime \in Nat \ {0}, NEW w, w = xhash_walk(t)
  PROVE  \E g : CopyRule(t, w, prime, g)
<1>1. Walked(t, p, w)
  BY ONLY w = xhash_walk(t), IsTable(t, p), TableWalk
<1>2. PICK n, S, base, step : /\ n = Len(w) /\ S = TablesOf(prime) /\ base = xhash_new(prime)
                              /\ step = [x \in (1..n) \X S |-> copy_node(x[2], w[x[1]])]
  OBVIOUS
<1>3. n \in Nat /\ w \in Seq(HashNode)
  BY <1>1, <1>2, LenProperties DEF Walked
<1>4. \A u : IsTable(u, prime) => u \in S
  BY <1>2 DEF TablesOf, IsTable
<1>5. base \in S
  BY <1>2, <1>4, NewTable
<1>6. ASSUME NEW x \in (1..n) \X S PROVE copy_node(x[2], w[x[1]]) \in S
  <2>1. PICK u, m : u = x[2] /\ m = w[x[1]]
    OBVIOUS
  <2>2. IsTable(u, prime)
    BY <1>2, <2>1 DEF TablesOf
  <2>3. m.key \in HashKeys /\ m.val \in HashVals \cup {HashNull}
    <3>1. x[1] \in 1..Len(w)
      BY <1>2
    <3>2. m \in HashNode
      BY <1>3, <2>1, <3>1, ElementOfSeq
    <3> QED BY <1>1, <2>1, <3>1, <3>2 DEF Walked, HashNode
  <2>4. IsTable(copy_node(u, m), prime)
    BY <2>2, <2>3, PutContent DEF copy_node
  <2> QED BY <1>4, <2>1, <2>4
<1>7. step \in [(1..n) \X S -> S]
  BY <1>2, <1>6
<1>a. PICK g : Stepped(n, S, base, step, g)
  BY ONLY <1>3, <1>5, <1>7, StepsExist
<1>8. g \in [0..n -> S] /\ g[0] = base /\ \A i \in 1..n : g[i] = step[<<i, g[i - 1]>>]
  BY <1>a DEF Stepped
<1>9. ASSUME NEW i \in 0..n PROVE g[i] = IF i = 0 THEN base ELSE copy_node(g[i - 1], w[i])
  <2>1. CASE i = 0
    BY <1>8, <2>1
  <2>2. CASE i # 0
    <3>1. i \in 1..n /\ i - 1 \in 0..n
      BY <1>3, <2>2
    <3>2. <<i, g[i - 1]>> \in (1..n) \X S
      BY <1>8, <3>1
    <3> QED BY <1>2, <1>8, <2>2, <3>1, <3>2
  <2> QED BY <2>1, <2>2
<1>10. g = [i \in 0..n |-> IF i = 0 THEN base ELSE copy_node(g[i - 1], w[i])]
  BY <1>8, <1>9
<1> QED BY <1>2, <1>10 DEF CopyRule

(* A change of size keeps what is found under every key. *)
LEMMA ResizeContent ==
  ASSUME NEW p, NEW t, IsTable(t, p), NEW prime \in Nat \ {0}
  PROVE  /\ IsTable(xhash_resize(t, prime), prime)
         /\ \A k \in HashKeys : xhash_get(xhash_resize(t, prime), k) = xhash_get(t, k)
<1>1. Prime(t) = p /\ p \in Nat \ {0}
  BY PrimeIs DEF IsTable
<1>2. CASE prime = p
  BY <1>1, <1>2 DEF xhash_resize
<1>3. CASE prime # p
  <2>1. PICK w, n : w = xhash_walk(t) /\ n = Len(w)
    OBVIOUS
  <2>2. Walked(t, p, w)
    BY ONLY <2>1, IsTable(t, p), TableWalk
  <2>3. n \in Nat /\ w \in Seq(HashNode)
    BY <2>1, <2>2, LenProperties DEF Walked
  <2>4. PICK g : g = CHOOSE h : CopyRule(t, w, prime, h)
    OBVIOUS
  <2>5. CopyRule(t, w, prime, g)
    BY <2>1, <2>4, CopiesExist
  <2>6. xhash_resize(t, prime) = g[n]
    BY <1>1, <1>3, <2>1, <2>4 DEF xhash_resize, CopyRule
  <2>7. /\ g[0] = xhash_new(prime)
        /\ \A i \in 1..n : g[i] = copy_node(g[i - 1], w[i])
    BY <2>1, <2>3, <2>5 DEF CopyRule
  <2> DEFINE Got(i) == \A k \in HashKeys : xhash_get(g[i], k) = IF \E j \in 1..i : w[j].key = k THEN xhash_get(t, k) ELSE HashNull
             I == {i \in Nat : i <= n => IsTable(g[i], prime) /\ Got(i)}
  <2>8. 0 \in I
    <3>1. IsTable(g[0], prime) /\ \A k \in HashKeys : xhash_get(g[0], k) = HashNull
      BY <2>7, NewTable
    <3> QED BY <3>1
  <2>9. ASSUME NEW i \in Nat, i \in I PROVE i + 1 \in I
    <3> SUFFICES ASSUME i + 1 <= n PROVE IsTable(g[i + 1], prime) /\ Got(i + 1)
      OBVIOUS
    <3>1. PICK m, u, v : m = w[i + 1] /\ u = g[i] /\ v = g[i + 1]
      OBVIOUS
    <3>2. i + 1 \in 1..n /\ (i + 1) - 1 = i
      BY <2>3
    <3>3. v = xhash_put(u, m.key, m.val)
      BY <2>7, <3>1, <3>2 DEF copy_node
    <3>4. IsTable(u, prime) /\ Got(i)
      <4>1. i <= n
        BY <2>3, <2>9, <3>2
      <4>2. IsTable(g[i], prime) /\ Got(i)
        BY <2>9, <4>1
      <4> QED BY <3>1, <4>2
    <3>5. /\ m \in HashNode /\ m.key \in HashKeys /\ m.val \in HashVals \cup {HashNull}
          /\ xhash_get(t, m.key) = m.val
      <4>1. m \in HashNode
        BY <2>1, <2>3, <3>1, <3>2, ElementOfSeq
      <4> QED BY <2>1, <2>2, <3>1, <3>2, <4>1 DEF Walked, HashNode
    <3>6. /\ IsTable(v, prime)
          /\ \A k \in HashKeys : xhash_get(v, k) = IF k = m.key THEN m.val ELSE xhash_get(u, k)
      <4>1. PICK a, b : a = m.key /\ b = m.val
        OBVIOUS
      <4>2. a \in HashKeys /\ b \in HashVals \cup {HashNull} /\ v = xhash_put(u, a, b)
        BY <3>3, <3>5, <4>1
      <4>3. /\ IsTable(xhash_put(u, a, b), prime)
            /\ \A k \in HashKeys : xhash_get(xhash_put(u, a, b), k) = IF k = a THEN b ELSE xhash_get(u, k)
        BY ONLY <3>4, <4>2, PutContent
      <4> QED BY ONLY <4>1, <4>2, <4>3
    <3>7. ASSUME NEW k \in HashKeys
          PROVE  xhash_get(v, k) = IF \E j \in 1..(i + 1) : w[j].key = k THEN xhash_get(t, k) ELSE HashNull
      <4>1. (\E j \in 1..(i + 1) : w[j].key = k) <=> (\E j \in 1..i : w[j].key = k) \/ m.key = k
        <5>1. \A j \in 1..(i + 1) : j \in 1..i \/ j = i + 1
          BY <2>9
        <5>2. \A j \in 1..i : j \in 1..(i + 1)
          BY <2>9
        <5>3. i + 1 \in 1..(i + 1)
          BY <2>9
        <5> QED BY ONLY <3>1, <5>1, <5>2, <5>3
      <4>2. xhash_get(u, k) = IF \E j \in 1..i : w[j].key = k THEN xhash_get(t, k) ELSE HashNull
        BY <3>1, <3>4
      <4> QED BY ONLY <3>5, <3>6, <3>7, <4>1, <4>2
    <3>8. Got(i + 1)
      BY <3>1, <3>7
    <3> QED BY <3>1, <3>6, <3>8
  <2>10. n \in I
    <3> HIDE DEF I
    <3> QED BY <2>3, <2>8, <2>9, CountingUp
  <2>11. IsTable(g[n], prime) /\ Got(n)
    BY <2>3, <2>10
  <2>12. \A k \in HashKeys : xhash_get(t, k) # HashNull => \E j \in 1..n : w[j].key = k
    BY <2>1, <2>2 DEF Walked
  <2>13. \A k \in HashKeys : xhash_get(g[n], k) = xhash_get(t, k)
    BY <2>11, <2>12
  <2> QED BY <2>6, <2>11, <2>13
<1> QED BY <1>2, <1>3

------------------------------------------------------------------------------
(* What HashSpec keeps: the table has one of the sizes, and is one. *)
HashInv == \E p \in HashPrimes : IsTable(xht, p)

(* A new table is one. *)
LEMMA HashStarts == ASSUME HashInit PROVE HashInv
BY NewTable, HashAssumption DEF HashInit, HashInv

(* Every operation on a table leaves one. *)
LEMMA HashStep == ASSUME HashInv, [HashNext]_xht PROVE HashInv'
<1>1. PICK p \in HashPrimes : IsTable(xht, p)
  BY DEF HashInv
<1>2. HashPrimes \subseteq Nat \ {0}
  BY HashAssumption
<1>3. ASSUME NEW k \in HashKeys, Zap(k) PROVE HashInv'
  BY <1>1, <1>3, ZapContent DEF Zap, HashInv
<1>4. ASSUME NEW k \in HashKeys, NEW v \in HashVals \cup {HashNull}, Put(k, v) PROVE HashInv'
  BY <1>1, <1>4, PutContent DEF Put, HashInv
<1>5. ASSUME NEW q \in HashPrimes, Resize(q) PROVE HashInv'
  BY <1>1, <1>2, <1>5, ResizeContent DEF Resize, HashInv
<1>6. CASE Renew
  BY <1>2, <1>6, NewTable DEF Renew, HashInv
<1>7. CASE UNCHANGED xht
  BY <1>1, <1>7 DEF HashInv
<1> QED BY <1>3, <1>4, <1>5, <1>6, <1>7 DEF HashNext

(* What follows for each state, and for each step. *)
LEMMA HashStateOK == ASSUME HashInv PROVE HashTypeOK /\ OneNodePerKey /\ ChainBounded /\ NthComplete
<1>1. PICK p \in HashPrimes : IsTable(xht, p)
  BY DEF HashInv
<1>2. /\ p \in Nat \ {0} /\ DOMAIN xht = 0..(p - 1) /\ \A b \in 0..(p - 1) : ChainOK(xht[b], p, b)
  BY <1>1 DEF IsTable
<1>3. \A k \in HashKeys : BucketOf(xht, k) = HashOf[k] % p
  BY <1>2, PrimeIs
<1>4. HashTypeOK
  BY <1>2 DEF HashTypeOK, ChainOK
<1>5. OneNodePerKey
  <2> SUFFICES ASSUME NEW b \in 0..(p - 1), NEW i \in DOMAIN xht[b], xht[b][i].key # HashNull
               PROVE  /\ b = BucketOf(xht, xht[b][i].key)
                      /\ \A j \in DOMAIN xht[b] : xht[b][j].key = xht[b][i].key => i = j
    BY <1>2 DEF OneNodePerKey
  <2>1. ChainOK(xht[b], p, b) /\ xht[b] \in Seq(HashNode)
    BY <1>2 DEF ChainOK
  <2>2. DOMAIN xht[b] = 1..Len(xht[b])
    BY <2>1, LenProperties
  <2>3. xht[b][i].key \in HashKeys /\ HashOf[xht[b][i].key] % p = b
    BY <2>1, <2>2 DEF ChainOK, Own
  <2>4. \A j \in DOMAIN xht[b] : xht[b][j].key = xht[b][i].key => i = j
    BY <2>1, <2>2 DEF ChainOK
  <2> QED BY <1>3, <2>3, <2>4
<1>6. ChainBounded
  <2> SUFFICES ASSUME NEW b \in 0..(p - 1)
               PROVE  LET own == {k \in HashKeys : BucketOf(xht, k) = b}
                      IN Len(xht[b]) <= IF own = {} THEN 1 ELSE Cardinality(own)
    BY <1>2 DEF ChainBounded
  <2>1. {k \in HashKeys : BucketOf(xht, k) = b} = Own(p, b)
    BY <1>3 DEF Own
  <2> QED BY <1>2, <2>1 DEF ChainOK
<1>7. NthComplete
  BY <1>1, NthIs
<1> QED BY <1>4, <1>5, <1>6, <1>7

(* What put, zap and a change of size do to what is found. *)
LEMMA HashStepOK ==
  ASSUME HashInv
  PROVE  /\ \A k \in HashKeys :
              /\ Zap(k) => Content(xht') = [Content(xht) EXCEPT ![k] = HashNull]
              /\ \A v \in HashVals \union {HashNull} : Put(k, v) => Content(xht') = [Content(xht) EXCEPT ![k] = v]
         /\ \A q \in HashPrimes : Resize(q) => Content(xht') = Content(xht)
<1>1. PICK p \in HashPrimes : IsTable(xht, p)
  BY DEF HashInv
<1>2. HashPrimes \subseteq Nat \ {0}
  BY HashAssumption
<1>3. ASSUME NEW k \in HashKeys, Zap(k) PROVE Content(xht') = [Content(xht) EXCEPT ![k] = HashNull]
  <2>1. \A l \in HashKeys : xhash_get(xhash_zap(xht, k), l) = IF l = k THEN HashNull ELSE xhash_get(xht, l)
    BY <1>1, ZapContent
  <2>2. xht' = xhash_zap(xht, k)
    BY <1>3 DEF Zap
  <2> QED BY <2>1, <2>2 DEF Content
<1>4. ASSUME NEW k \in HashKeys, NEW v \in HashVals \cup {HashNull}, Put(k, v)
      PROVE  Content(xht') = [Content(xht) EXCEPT ![k] = v]
  <2>1. \A l \in HashKeys : xhash_get(xhash_put(xht, k, v), l) = IF l = k THEN v ELSE xhash_get(xht, l)
    BY <1>1, PutContent
  <2>2. xht' = xhash_put(xht, k, v)
    BY <1>4 DEF Put
  <2> QED BY <2>1, <2>2 DEF Content
<1>5. ASSUME NEW q \in HashPrimes, Resize(q) PROVE Content(xht') = Content(xht)
  <2>1. \A l \in HashKeys : xhash_get(xhash_resize(xht, q), l) = xhash_get(xht, l)
    BY <1>1, <1>2, ResizeContent
  <2>2. xht' = xhash_resize(xht, q)
    BY <1>5 DEF Resize
  <2> QED BY <2>1, <2>2 DEF Content
<1> QED BY <1>3, <1>4, <1>5

(* xhash.c is a map, for every hash function: its chains hold each key once and
   do not grow beyond their keys, the walk numbers what is there, xhash_get gives
   the last value put, and a change of size is not seen. *)
THEOREM HashIsMap ==
  HashSpec => [](HashTypeOK /\ OneNodePerKey /\ ChainBounded /\ NthComplete) /\ LastPutWins /\ ResizeUnseen
<1>1. HashInit => HashInv
  BY HashStarts
<1>2. HashInv /\ [HashNext]_xht => HashInv'
  BY HashStep
<1>3. HashInv => HashTypeOK /\ OneNodePerKey /\ ChainBounded /\ NthComplete
  BY HashStateOK
<1>4. HashInv => [xht' # xht => \A k \in HashKeys :
       /\ Zap(k) => Content(xht') = [Content(xht) EXCEPT ![k] = HashNull]
       /\ \A v \in HashVals \union {HashNull} :
            Put(k, v) => Content(xht') = [Content(xht) EXCEPT ![k] = v]]_xht
  BY HashStepOK
<1>5. HashInv => [xht' # xht => \A p \in HashPrimes : Resize(p) => Content(xht') = Content(xht)]_xht
  BY HashStepOK
<1> QED BY <1>1, <1>2, <1>3, <1>4, <1>5, PTL DEF HashSpec, LastPutWins, ResizeUnseen

------------------------------------------------------------------------------
(* Counting down from a hash value and round the end, and back. *)
Round(n, h, k) == (h - k) % n

(* Counting down the distance between two slots leads from one to the other. *)
LEMMA RoundTwice ==
  ASSUME NEW n \in Nat \ {0}, NEW h \in Nat, NEW s \in 0..(n - 1)
  PROVE  Round(n, h, s) \in 0..(n - 1) /\ Round(n, h, Round(n, h, s)) = s
<1>1. PICK r, q : r = (h - s) % n /\ q = (h - s) \div n
  OBVIOUS
<1>2. r \in 0..(n - 1) /\ q \in Int /\ h - s = n * q + r
  BY <1>1
<1>3. PICK a, b : a = (h - r) % n /\ b = (h - r) \div n
  OBVIOUS
<1>4. a \in 0..(n - 1) /\ b \in Int /\ h - r = n * b + a
  BY <1>2, <1>3
<1>5. h - r = n * q + s
  BY <1>2
<1>6. n * q + s = n * b + a
  BY <1>4, <1>5
<1>7. ~ (q < b)
  <2> SUFFICES ASSUME q < b PROVE FALSE
    OBVIOUS
  <2>1. PICK d \in Nat : b = q + 1 + d
    <3>1. b - q - 1 \in Nat /\ b = q + 1 + (b - q - 1)
      BY <1>2, <1>4
    <3> QED BY <3>1
  <2>2. n * b = n * q + n + n * d
    BY <1>2, <2>1
  <2>3. n * d >= 0 /\ n * d \in Int /\ n * q \in Int
    BY <1>2
  <2>4. s = n + n * d + a
    BY <1>2, <1>4, <1>6, <2>2, <2>3
  <2> QED BY <1>4, <2>3, <2>4
<1>8. ~ (b < q)
  <2> SUFFICES ASSUME b < q PROVE FALSE
    OBVIOUS
  <2>1. PICK d \in Nat : q = b + 1 + d
    <3>1. q - b - 1 \in Nat /\ q = b + 1 + (q - b - 1)
      BY <1>2, <1>4
    <3> QED BY <3>1
  <2>2. n * q = n * b + n + n * d
    BY <1>4, <2>1
  <2>3. n * d >= 0 /\ n * d \in Int /\ n * b \in Int
    BY <1>4
  <2>4. a = n + n * d + s
    BY <1>2, <1>4, <1>6, <2>2, <2>3
  <2> QED BY <1>4, <2>3, <2>4
<1>9. a = s
  <2>1. b = q
    BY <1>2, <1>4, <1>7, <1>8
  <2>2. n * q \in Int
    BY <1>2
  <2> QED BY <1>4, <1>6, <2>1, <2>2
<1> QED BY <1>1, <1>2, <1>3, <1>9 DEF Round

(* A table of n slots: no name twice, and none behind a free slot on the way
   to it. *)
IsNames(v, n) ==
  /\ n \in Nat \ {0} /\ v \in [0..(n - 1) -> TableNames \cup {FreeSlot}]
  /\ \A i, j \in 0..(n - 1) : v[i] # FreeSlot /\ v[i] = v[j] => i = j
  /\ \A i \in 0..(n - 1) : v[i] # FreeSlot =>
       \A k \in 0..(n - 1) : k < Round(n, NameHash(v[i]), i) => v[Round(n, NameHash(v[i]), k)] # FreeSlot

(* The size of a table, as the model counts it. *)
LEMMA SizeIs ==
  ASSUME NEW n \in Nat \ {0}, NEW v, DOMAIN v = 0..(n - 1)
  PROVE  Cardinality(DOMAIN v) = n
<1>1. 0 \in Int /\ n - 1 \in Int /\ 0 <= n - 1 /\ (n - 1) - 0 + 1 = n
  OBVIOUS
<1>2. Cardinality(0..(n - 1)) = (n - 1) - 0 + 1
  BY FS_Interval
<1> QED BY <1>1, <1>2

(* Where the search for a name ends, when there is a free slot: with the name,
   or else with a slot that is free, and no free one before it. *)
Ends(v, n, name, s) ==
  /\ s \in 0..(n - 1) /\ v[s] \in {name, FreeSlot}
  /\ (\E i \in 0..(n - 1) : v[i] = name) => v[s] = name
  /\ \A k \in 0..(n - 1) : k < Round(n, NameHash(name), s) => v[Round(n, NameHash(name), k)] # FreeSlot

(* The loop of lookup ends at the name or at the first free slot on its way. *)
LEMMA ProbeIs ==
  ASSUME NEW n, NEW v, IsNames(v, n), \E i \in 0..(n - 1) : v[i] = FreeSlot, NEW name \in TableNames
  PROVE  Ends(v, n, name, Probe(v, name))
<1>1. n \in Nat \ {0} /\ Cardinality(DOMAIN v) = n /\ name # FreeSlot
  BY SizeIs, NameTableAssumption DEF IsNames
<1>2. PICK h : h = NameHash(name)
  OBVIOUS
<1>3. h \in Nat
  BY <1>2, NameTableAssumption
<1>4. PICK ends : ends = {k \in 0..(n - 1) : v[Round(n, h, k)] \in {name, FreeSlot}}
  OBVIOUS
<1>5. \A i \in 0..(n - 1) : v[i] \in {name, FreeSlot} => Round(n, h, i) \in ends
  <2> SUFFICES ASSUME NEW i \in 0..(n - 1), v[i] \in {name, FreeSlot} PROVE Round(n, h, i) \in ends
    OBVIOUS
  <2>1. Round(n, h, i) \in 0..(n - 1) /\ Round(n, h, Round(n, h, i)) = i
    BY ONLY <1>1, <1>3, i \in 0..(n - 1), RoundTwice
  <2> QED BY <1>4, <2>1
<1>6. ends # {} /\ ends \subseteq Nat
  BY <1>1, <1>4, <1>5
<1>7. \E k \in ends : \A l \in ends : k <= l
  BY ONLY <1>6, LeastNumber
<1>8. PICK k : k = CHOOSE x \in ends : \A l \in ends : x <= l
  OBVIOUS
<1>9. k \in ends /\ \A l \in ends : k <= l
  BY ONLY <1>7, <1>8
<1>10. PICK s : s = Round(n, h, k)
  OBVIOUS
<1>11. Probe(v, name) = s
  BY <1>1, <1>2, <1>4, <1>6, <1>8, <1>10 DEF Probe, Down, Round
<1>12. k \in 0..(n - 1) /\ v[s] \in {name, FreeSlot} /\ s \in 0..(n - 1) /\ Round(n, h, s) = k
  BY <1>1, <1>3, <1>4, <1>9, <1>10, RoundTwice
<1>13. \A l \in 0..(n - 1) : l < k => v[Round(n, h, l)] \notin {name, FreeSlot}
  BY <1>4, <1>9, <1>12
<1>14. ASSUME NEW i \in 0..(n - 1), v[i] = name PROVE v[s] = name
  <2>1. PICK d : d = Round(n, h, i)
    OBVIOUS
  <2>2. d \in 0..(n - 1) /\ Round(n, h, d) = i /\ k <= d
    BY <1>1, <1>3, <1>5, <1>9, <1>14, <2>1, RoundTwice
  <2>3. \A l \in 0..(n - 1) : l < d => v[Round(n, h, l)] # FreeSlot
    BY <1>1, <1>2, <1>14, <2>1 DEF IsNames
  <2>4. CASE k = d
    BY <1>10, <1>14, <2>2, <2>4
  <2>5. CASE k # d
    BY <1>10, <1>12, <2>2, <2>3, <2>5
  <2> QED BY <2>4, <2>5
<1> QED BY <1>2, <1>11, <1>12, <1>13, <1>14 DEF Ends

(* The names in the table; a table with fewer than slots has a free one. *)
LEMMA NamesIn ==
  ASSUME NEW n, NEW v, IsNames(v, n)
  PROVE  \A x : x \in Iterated(v) <=> x \in TableNames /\ \E i \in 0..(n - 1) : v[i] = x
BY NameTableAssumption DEF IsNames, Iterated

(* A table of fewer names than slots has a free slot. *)
LEMMA FreeLeft ==
  ASSUME NEW n, NEW v, IsNames(v, n), IsFiniteSet(Iterated(v)), Cardinality(Iterated(v)) < n
  PROVE  \E i \in 0..(n - 1) : v[i] = FreeSlot
<1> SUFFICES ASSUME \A i \in 0..(n - 1) : v[i] # FreeSlot PROVE FALSE
  OBVIOUS
<1>1. n \in Nat \ {0} /\ v \in [0..(n - 1) -> TableNames \cup {FreeSlot}]
  BY DEF IsNames
<1>2. PICK T, f : T = Iterated(v) /\ f = [i \in 1..n |-> v[i - 1]]
  OBVIOUS
<1>3. \A i \in 1..n : i - 1 \in 0..(n - 1) /\ f[i] = v[i - 1]
  BY <1>1, <1>2
<1>4. f \in [1..n -> T]
  BY <1>1, <1>2, <1>3, NamesIn
<1>5. \A i, j \in 1..n : f[i] = f[j] => i = j
  <2> SUFFICES ASSUME NEW i \in 1..n, NEW j \in 1..n, f[i] = f[j] PROVE i = j
    OBVIOUS
  <2>1. i - 1 = j - 1
    BY <1>3 DEF IsNames
  <2> QED BY <2>1
<1>6. n <= Cardinality(T) /\ Cardinality(T) \in Nat
  <2>1. IsFiniteSet(T) /\ n \in Nat
    BY <1>1, <1>2
  <2> QED BY ONLY <1>4, <1>5, <2>1, RowFits
<1> QED BY <1>1, <1>2, <1>6

(* A new name, written where the search for it ends. *)
LEMMA NamePut ==
  ASSUME NEW n, NEW v, IsNames(v, n), \E i \in 0..(n - 1) : v[i] = FreeSlot,
         NEW name \in TableNames, name \notin Iterated(v)
  PROVE  /\ IsNames([v EXCEPT ![Probe(v, name)] = name], n)
         /\ Iterated([v EXCEPT ![Probe(v, name)] = name]) = Iterated(v) \cup {name}
<1>1. PICK s, u : s = Probe(v, name) /\ u = [v EXCEPT ![s] = name]
  OBVIOUS
<1>2. Ends(v, n, name, s)
  BY <1>1, ProbeIs
<1>3. n \in Nat \ {0} /\ v \in [0..(n - 1) -> TableNames \cup {FreeSlot}] /\ name # FreeSlot
  BY NameTableAssumption DEF IsNames
<1>4. \A i \in 0..(n - 1) : v[i] # name
  BY NamesIn
<1>5. s \in 0..(n - 1) /\ v[s] = FreeSlot
  BY <1>2, <1>4 DEF Ends
<1>6. /\ u \in [0..(n - 1) -> TableNames \cup {FreeSlot}] /\ u[s] = name
      /\ \A i \in 0..(n - 1) : i # s => u[i] = v[i]
  BY <1>1, <1>3, <1>5
<1>7. \A i, j \in 0..(n - 1) : u[i] # FreeSlot /\ u[i] = u[j] => i = j
  BY <1>4, <1>6 DEF IsNames
<1>8. \A i \in 0..(n - 1) : v[i] # FreeSlot => u[i] # FreeSlot
  BY <1>3, <1>6
<1>9. ASSUME NEW i \in 0..(n - 1), u[i] # FreeSlot, NEW k \in 0..(n - 1), k < Round(n, NameHash(u[i]), i)
      PROVE  u[Round(n, NameHash(u[i]), k)] # FreeSlot
  <2>1. PICK h, r : h = NameHash(u[i]) /\ r = Round(n, h, k)
    OBVIOUS
  <2>2. h \in Nat
    BY <1>6, <1>9, <2>1, NameTableAssumption
  <2>3. r \in 0..(n - 1)
    BY <1>3, <2>1, <2>2, RoundTwice
  <2>4. v[r] # FreeSlot
    <3>1. CASE i = s
      BY <1>2, <1>6, <1>9, <2>1, <3>1 DEF Ends
    <3>2. CASE i # s
      BY <1>6, <1>9, <2>1, <3>2 DEF IsNames
    <3> QED BY <3>1, <3>2
  <2> QED BY <1>8, <2>1, <2>3, <2>4
<1>10. IsNames(u, n)
  BY <1>3, <1>6, <1>7, <1>9 DEF IsNames
<1>11. Iterated(u) = Iterated(v) \cup {name}
  <2>1. \A x : x \in Iterated(u) <=> x \in TableNames /\ \E i \in 0..(n - 1) : u[i] = x
    BY <1>10, NamesIn
  <2>2. \A x : x \in Iterated(v) <=> x \in TableNames /\ \E i \in 0..(n - 1) : v[i] = x
    BY NamesIn
  <2>3. \A x \in TableNames : (\E i \in 0..(n - 1) : u[i] = x) <=> (\E i \in 0..(n - 1) : v[i] = x) \/ x = name
    BY <1>3, <1>5, <1>6, NameTableAssumption
  <2> QED BY <2>1, <2>2, <2>3
<1> QED BY <1>1, <1>10, <1>11

------------------------------------------------------------------------------
(* The larger table, slot by slot of the old one. *)
NameMoved(w, name) == IF name = FreeSlot THEN w ELSE [w EXCEPT ![Probe(w, name)] = name]
MoveRule(v, n, g) ==
  g = [i \in 0..n |-> IF i = 0 THEN [j \in 0..(2 * n - 1) |-> FreeSlot] ELSE NameMoved(g[i - 1], v[i - 1])]

(* The names are moved to the larger table, one after another. *)
LEMMA MovesExist ==
  ASSUME NEW n, NEW v, IsNames(v, n)
  PROVE  \E g : MoveRule(v, n, g)
<1>1. n \in Nat \ {0} /\ v \in [0..(n - 1) -> TableNames \cup {FreeSlot}]
  BY DEF IsNames
<1>2. PICK S, base, step : /\ S = [0..(2 * n - 1) -> TableNames \cup {FreeSlot}]
                           /\ base = [j \in 0..(2 * n - 1) |-> FreeSlot]
                           /\ step = [x \in (1..n) \X S |-> NameMoved(x[2], v[x[1] - 1])]
  OBVIOUS
<1>3. base \in S
  BY <1>2
<1>4. ASSUME NEW x \in (1..n) \X S PROVE NameMoved(x[2], v[x[1] - 1]) \in S
  <2>1. PICK w, y : w = x[2] /\ y = v[x[1] - 1]
    OBVIOUS
  <2>2. x[1] - 1 \in 0..(n - 1)
    BY <1>1
  <2>3. w \in S /\ y \in TableNames \cup {FreeSlot}
    BY <1>1, <2>1, <2>2
  <2>4. [w EXCEPT ![Probe(w, y)] = y] \in S
    BY <1>2, <2>3
  <2> QED BY <2>1, <2>3, <2>4 DEF NameMoved
<1>5. step \in [(1..n) \X S -> S]
  BY <1>2, <1>4
<1>6. PICK g : Stepped(n, S, base, step, g)
  BY ONLY <1>1, <1>3, <1>5, StepsExist
<1>7. g \in [0..n -> S] /\ g[0] = base /\ \A i \in 1..n : g[i] = step[<<i, g[i - 1]>>]
  BY <1>6 DEF Stepped
<1>8. ASSUME NEW i \in 0..n PROVE g[i] = IF i = 0 THEN base ELSE NameMoved(g[i - 1], v[i - 1])
  <2>1. CASE i = 0
    BY <1>7, <2>1
  <2>2. CASE i # 0
    <3>1. i \in 1..n /\ i - 1 \in 0..n
      BY <1>1, <2>2
    <3>2. <<i, g[i - 1]>> \in (1..n) \X S
      BY <1>7, <3>1
    <3> QED BY <1>2, <1>7, <2>2, <3>1, <3>2
  <2> QED BY <2>1, <2>2
<1>9. g = [i \in 0..n |-> IF i = 0 THEN base ELSE NameMoved(g[i - 1], v[i - 1])]
  BY <1>7, <1>8
<1> QED BY <1>2, <1>9 DEF MoveRule

(* An empty table. *)
LEMMA AllFree ==
  ASSUME NEW n \in Nat \ {0}, NEW v, v = [j \in 0..(n - 1) |-> FreeSlot]
  PROVE  IsNames(v, n) /\ Iterated(v) = {} /\ DOMAIN v = 0..(n - 1)
<1>1. \A i \in 0..(n - 1) : v[i] = FreeSlot
  OBVIOUS
<1>2. v \in [0..(n - 1) -> TableNames \cup {FreeSlot}]
  BY <1>1
<1>3. IsNames(v, n)
  BY <1>1, <1>2 DEF IsNames
<1>4. Iterated(v) = {}
  BY <1>1, <1>2 DEF Iterated
<1> QED BY <1>2, <1>3, <1>4

(* The larger table of lookup holds the names of the old one, and finds them. *)
LEMMA RehashIs ==
  ASSUME NEW n, NEW v, IsNames(v, n)
  PROVE  IsNames(Rehash(v), 2 * n) /\ Iterated(Rehash(v)) = Iterated(v)
<1>1. n \in Nat \ {0} /\ v \in [0..(n - 1) -> TableNames \cup {FreeSlot}] /\ Cardinality(DOMAIN v) = n
  BY SizeIs DEF IsNames
<1>2. PICK m : m = 2 * n
  OBVIOUS
<1>3. m \in Nat \ {0} /\ n < m /\ m - 1 = 2 * n - 1
  BY <1>1, <1>2
<1>4. PICK g : g = CHOOSE h : MoveRule(v, n, h)
  OBVIOUS
<1>5. MoveRule(v, n, g)
  BY <1>4, MovesExist
<1>6. Rehash(v) = g[n]
  BY <1>1, <1>4 DEF Rehash, MoveRule, NameMoved
<1>7. /\ g[0] = [j \in 0..(m - 1) |-> FreeSlot]
      /\ \A i \in 1..n : g[i] = NameMoved(g[i - 1], v[i - 1])
  BY <1>1, <1>3, <1>5 DEF MoveRule
<1> DEFINE Names(i) == {x \in TableNames : \E j \in 0..(i - 1) : v[j] = x}
           Kept(i) == /\ IsNames(g[i], m) /\ Iterated(g[i]) = Names(i)
                      /\ IsFiniteSet(Names(i)) /\ Cardinality(Names(i)) \in Nat /\ Cardinality(Names(i)) <= i
           I == {i \in Nat : i <= n => Kept(i)}
<1>8. 0 \in I
  <2>1. IsNames(g[0], m) /\ Iterated(g[0]) = {}
    BY <1>3, <1>7, AllFree
  <2>2. Names(0) = {}
    OBVIOUS
  <2>3. IsFiniteSet({}) /\ Cardinality({}) = 0
    BY FS_EmptySet
  <2>4. /\ IsNames(g[0], m) /\ Iterated(g[0]) = Names(0)
        /\ IsFiniteSet(Names(0)) /\ Cardinality(Names(0)) = 0
    <3> HIDE DEF Names
    <3> QED BY <2>1, <2>2, <2>3
  <2>5. Kept(0)
    BY ONLY <2>4
  <2> HIDE DEF Kept
  <2> QED BY <2>5
<1>9. ASSUME NEW i \in Nat, i \in I PROVE i + 1 \in I
  <2> SUFFICES ASSUME i + 1 <= n PROVE Kept(i + 1)
    OBVIOUS
  <2>1. i <= n /\ i + 1 \in 1..n /\ (i + 1) - 1 = i /\ i \in 0..(n - 1)
    BY <1>1
  <2>2. Kept(i)
    BY <1>9, <2>1
  <2>3. PICK w, u, y, N, M : w = g[i] /\ u = g[i + 1] /\ y = v[i] /\ N = Names(i) /\ M = Names(i + 1)
    OBVIOUS
  <2>4. u = NameMoved(w, y)
    BY <1>7, <2>1, <2>3
  <2>5. IsNames(w, m) /\ Iterated(w) = N /\ IsFiniteSet(N) /\ Cardinality(N) \in Nat /\ Cardinality(N) <= i
    BY <2>2, <2>3
  <2>6. y \in TableNames \cup {FreeSlot}
    BY <1>1, <2>1, <2>3
  <2>7. M = IF y = FreeSlot THEN N ELSE N \cup {y}
    <3>1. \A j \in 0..((i + 1) - 1) : j \in 0..(i - 1) \/ j = i
      OBVIOUS
    <3>2. \A j \in 0..(i - 1) : j \in 0..((i + 1) - 1)
      OBVIOUS
    <3>3. i \in 0..((i + 1) - 1)
      OBVIOUS
    <3>4. \A x : x \in M <=> x \in N \/ (x \in TableNames /\ x = y)
      BY <2>3, <3>1, <3>2, <3>3
    <3> QED BY ONLY <2>6, <3>4, NameTableAssumption
  <2>8. CASE y = FreeSlot
    BY <2>3, <2>4, <2>5, <2>7, <2>8 DEF NameMoved
  <2>9. CASE y # FreeSlot
    <3>1. y \in TableNames /\ M = N \cup {y} /\ u = [w EXCEPT ![Probe(w, y)] = y]
      BY <2>4, <2>6, <2>7, <2>9 DEF NameMoved
    <3>2. y \notin N
      <4>1. \A j \in 0..(i - 1) : j \in 0..(n - 1) /\ j # i
        BY ONLY <1>1, <2>1, i \in Nat
      <4>2. \A j \in 0..(i - 1) : v[j] # y
        BY <2>1, <2>3, <2>9, <4>1 DEF IsNames
      <4> QED BY <2>3, <4>2
    <3>3. Cardinality(N) < m
      BY ONLY <1>1, <1>3, <2>1, <2>5, i \in Nat
    <3>4. \E j \in 0..(m - 1) : w[j] = FreeSlot
      BY ONLY <2>5, <3>3, FreeLeft
    <3>5. y \notin Iterated(w)
      BY <2>5, <3>2
    <3>6. IsNames(u, m) /\ Iterated(u) = N \cup {y}
      BY ONLY <2>5, <3>1, <3>4, <3>5, NamePut
    <3>7. IsFiniteSet(M) /\ Cardinality(M) = Cardinality(N) + 1
      BY ONLY <2>5, <3>1, <3>2, FS_AddElement
    <3> QED BY <2>3, <2>5, <3>1, <3>6, <3>7
  <2> QED BY <2>8, <2>9
<1>10. n \in I
  <2> HIDE DEF I
  <2> QED BY <1>1, <1>8, <1>9, CountingUp
<1>11. IsNames(g[n], m) /\ Iterated(g[n]) = Names(n)
  BY <1>1, <1>10
<1>12. Names(n) = Iterated(v)
  BY NamesIn
<1> QED BY <1>2, <1>6, <1>11, <1>12

------------------------------------------------------------------------------
(* What TableSpec keeps: there is no table yet, or one at most half full. *)
TableInv ==
  /\ \/ slots = <<>> /\ known = {}
     \/ \E n \in Nat \ {0, 1} : IsNames(slots, n) /\ usedNames <= n \div 2
  /\ Iterated(slots) = known /\ IsFiniteSet(known) /\ usedNames = Cardinality(known)

(* Before the first name there is no table, and no name in it. *)
LEMMA NoTable == DOMAIN <<>> = {} /\ Iterated(<<>>) = {} /\ IsFiniteSet({}) /\ Cardinality({}) = 0
<1>1. DOMAIN <<>> = {}
  OBVIOUS
<1>2. Iterated(<<>>) = {}
  BY <1>1 DEF Iterated
<1> QED BY <1>1, <1>2, FS_EmptySet

(* A table that hashTableInit has cleared. *)
LEMMA TableStarts == ASSUME TableInit PROVE TableInv
BY NoTable DEF TableInit, TableInv

(* The room that is made before a name is added. *)
LEMMA RoomIs ==
  ASSUME TableInv
  PROVE  \E n \in Nat \ {0, 1} : IsNames(Room(slots), n) /\ usedNames < n \div 2 /\ Iterated(Room(slots)) = known
<1>1. usedNames \in Nat
  BY FS_CardinalityType DEF TableInv
<1>2. CASE slots = <<>> /\ known = {}
  <2>1. PICK v : v = Room(slots)
    OBVIOUS
  <2>2. v = [i \in 0..(InitSize - 1) |-> FreeSlot]
    BY <1>2, <2>1, NoTable DEF Room
  <2>3. InitSize \in Nat \ {0, 1} /\ InitSize \in Nat \ {0}
    BY NameTableAssumption
  <2>4. IsNames(v, InitSize) /\ Iterated(v) = {}
    BY ONLY <2>2, <2>3, AllFree
  <2>5. usedNames = 0
    BY <1>2, NoTable DEF TableInv
  <2>6. usedNames < InitSize \div 2
    BY <2>3, <2>5
  <2> QED BY <1>2, <2>1, <2>3, <2>4, <2>6
<1>3. ASSUME NEW n \in Nat \ {0, 1}, IsNames(slots, n), usedNames <= n \div 2
      PROVE  \E l \in Nat \ {0, 1} : IsNames(Room(slots), l) /\ usedNames < l \div 2 /\ Iterated(Room(slots)) = known
  <2>1. DOMAIN slots = 0..(n - 1) /\ 0 \in 0..(n - 1) /\ n \in Nat \ {0}
    BY <1>3 DEF IsNames
  <2>2. Cardinality(DOMAIN slots) = n /\ DOMAIN slots # {}
    BY <2>1, SizeIs
  <2>3. Room(slots) = IF usedNames = n \div 2 THEN Rehash(slots) ELSE slots
    BY <2>2 DEF Room, UsedLim
  <2>4. Iterated(slots) = known
    BY DEF TableInv
  <2>5. CASE usedNames = n \div 2
    <3>1. 2 * n \in Nat \ {0, 1} /\ usedNames < (2 * n) \div 2
      BY <2>5
    <3>2. IsNames(Rehash(slots), 2 * n) /\ Iterated(Rehash(slots)) = known
      BY <1>3, <2>4, RehashIs
    <3> QED BY <2>3, <2>5, <3>1, <3>2
  <2>6. CASE usedNames # n \div 2
    <3>1. usedNames < n \div 2
      BY <1>1, <1>3, <2>6
    <3> QED BY <1>3, <2>3, <2>4, <2>6, <3>1
  <2> QED BY <2>5, <2>6
<1> QED BY <1>2, <1>3 DEF TableInv

(* In a table at most half full a search finds what is there. *)
LEMMA PresentIs ==
  ASSUME TableInv, NEW name \in TableNames
  PROVE  Present(name) <=> name \in known
<1>1. usedNames \in Nat /\ IsFiniteSet(known) /\ usedNames = Cardinality(known) /\ Iterated(slots) = known
  BY FS_CardinalityType DEF TableInv
<1>2. CASE slots = <<>> /\ known = {}
  BY <1>2, NoTable DEF Present, Size
<1>3. ASSUME NEW n \in Nat \ {0, 1}, IsNames(slots, n), usedNames <= n \div 2
      PROVE  Present(name) <=> name \in known
  <2>1. DOMAIN slots = 0..(n - 1) /\ n \in Nat \ {0} /\ n \div 2 < n /\ n > 0
    BY <1>3 DEF IsNames
  <2>2. Size = n
    BY <2>1, SizeIs DEF Size
  <2>3. Cardinality(Iterated(slots)) < n /\ IsFiniteSet(Iterated(slots))
    BY <1>1, <1>3, <2>1
  <2>4. \E i \in 0..(n - 1) : slots[i] = FreeSlot
    BY ONLY <1>3, <2>3, FreeLeft
  <2>5. PICK s : s = Probe(slots, name)
    OBVIOUS
  <2>6. Ends(slots, n, name, s)
    BY <1>3, <2>4, <2>5, ProbeIs
  <2>7. name \in known <=> \E i \in 0..(n - 1) : slots[i] = name
    BY <1>1, <1>3, NamesIn
  <2>8. slots[s] = name <=> name \in known
    BY <2>6, <2>7 DEF Ends
  <2> QED BY <2>1, <2>2, <2>5, <2>8 DEF Present
<1> QED BY <1>2, <1>3 DEF TableInv

(* Every operation of hashtable.c keeps a table at most half full. *)
LEMMA TableStep == ASSUME TableInv, [TableNext]_tableVars PROVE TableInv'
<1>1. usedNames \in Nat /\ IsFiniteSet(known) /\ usedNames = Cardinality(known) /\ Iterated(slots) = known
  BY FS_CardinalityType DEF TableInv
<1>2. PICK n \in Nat \ {0, 1} : IsNames(Room(slots), n) /\ usedNames < n \div 2 /\ Iterated(Room(slots)) = known
  BY RoomIs
<1>3. ASSUME NEW name \in TableNames, AddName(name) PROVE TableInv'
  <2>1. PICK v, u : v = Room(slots) /\ u = [v EXCEPT ![Probe(v, name)] = name]
    OBVIOUS
  <2>2. slots' = u /\ usedNames' = usedNames + 1 /\ known' = known \cup {name}
    BY <1>3, <2>1 DEF AddName
  <2>3. name \notin known
    BY <1>3, PresentIs DEF AddName
  <2>4. IsNames(v, n) /\ Iterated(v) = known /\ n \div 2 < n /\ n \div 2 \in Nat
    BY <1>2, <2>1
  <2>5. Cardinality(Iterated(v)) < n /\ IsFiniteSet(Iterated(v))
    BY <1>1, <1>2, <2>4
  <2>6. \E i \in 0..(n - 1) : v[i] = FreeSlot
    BY ONLY <2>4, <2>5, FreeLeft
  <2>7. IsNames(u, n) /\ Iterated(u) = known \cup {name}
    BY <2>1, <2>3, <2>4, <2>6, NamePut
  <2>8. IsFiniteSet(known \cup {name}) /\ Cardinality(known \cup {name}) = Cardinality(known) + 1
    BY ONLY <1>1, <2>3, FS_AddElement
  <2>9. usedNames' <= n \div 2
    BY <1>1, <1>2, <2>2, <2>4
  <2>10. IsNames(slots', n) /\ Iterated(slots') = known' /\ IsFiniteSet(known') /\ usedNames' = Cardinality(known')
    BY <1>1, <2>2, <2>7, <2>8
  <2> QED BY <2>9, <2>10 DEF TableInv, Iterated
<1>4. ASSUME NEW name \in TableNames, NoMemory(name) PROVE TableInv'
  <2>1. usedNames' = usedNames /\ known' = known
    BY <1>4 DEF NoMemory
  <2>2. CASE slots' = slots
    BY <2>1, <2>2 DEF TableInv, Iterated
  <2>3. CASE slots' = Room(slots)
    <3>1. usedNames' <= n \div 2
      BY <1>1, <1>2, <2>1
    <3>2. IsNames(slots', n) /\ Iterated(slots') = known' /\ IsFiniteSet(known') /\ usedNames' = Cardinality(known')
      BY <1>1, <1>2, <2>1, <2>3
    <3> QED BY <3>1, <3>2 DEF TableInv, Iterated
  <2> QED BY <1>4, <2>2, <2>3 DEF NoMemory
<1>5. CASE Destroy
  <2>1. slots' = <<>> /\ usedNames' = 0 /\ known' = {}
    BY <1>5 DEF Destroy
  <2> QED BY <2>1, NoTable DEF TableInv, Iterated
<1>6. CASE UNCHANGED tableVars
  BY <1>6 DEF tableVars, TableInv, Iterated
<1> QED BY <1>3, <1>4, <1>5, <1>6 DEF TableNext

(* What follows for each state. *)
LEMMA TableStateOK == ASSUME TableInv PROVE NamesFound /\ SearchesEnd
<1>1. NamesFound
  BY PresentIs DEF NamesFound, TableInv
<1>2. CASE slots = <<>> /\ known = {}
  BY <1>1, <1>2, NoTable DEF SearchesEnd, Size
<1>3. ASSUME NEW n \in Nat \ {0, 1}, IsNames(slots, n), usedNames <= n \div 2 PROVE SearchesEnd
  <2>1. DOMAIN slots = 0..(n - 1) /\ n \in Nat \ {0} /\ n \div 2 < n
    BY <1>3 DEF IsNames
  <2>2. Cardinality(DOMAIN slots) = n
    BY <2>1, SizeIs
  <2> QED BY <1>3, <2>1, <2>2 DEF SearchesEnd, UsedLim, Size
<1> QED BY <1>1, <1>2, <1>3 DEF TableInv

(* Expat's names are found, and only those that were added, whatever their hash
   values and however often the table grows; every search ends (lookup). *)
THEOREM NamesStayFound == TableSpec => [](NamesFound /\ SearchesEnd)
<1>1. TableInit => TableInv
  BY TableStarts
<1>2. TableInv /\ [TableNext]_tableVars => TableInv'
  BY TableStep
<1>3. TableInv => NamesFound /\ SearchesEnd
  BY TableStateOK
<1> QED BY <1>1, <1>2, <1>3, PTL DEF TableSpec

(* Both tables, xhash.c's and hashtable.c's. *)
THEOREM TablesStayMaps == TablesSpec => TablesAreMaps
BY HashIsMap, NamesStayFound, PTL DEF TablesSpec, TablesAreMaps
=============================================================================
