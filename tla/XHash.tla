------------------------------- MODULE XHash ---------------------------------
(***************************************************************************)
(* xhash, the library's hash table, with the extensions of jab_simul: an   *)
(* array of prime buckets, each a chain of nodes.  The head of a chain is  *)
(* part of the array; a new node is linked behind it.  A removed node      *)
(* stays in its chain, with its value, under a NULL key, until another key *)
(* of the bucket takes it.  genhash is a set of stubs over it.             *)
(*                                                                         *)
(* A table is a function from 0..prime-1 to chains; the operators below    *)
(* are the operations of xhash.c on any table, used by other modules too.  *)
(***************************************************************************)
EXTENDS Integers, FiniteSets, Sequences, SequencesExt

CONSTANTS
  HashKeys, HashVals,
  HashOf,        \* _xhasher, a number for each key
  HashPrimes,    \* the sizes fit_prime can give
  HashNull

ASSUME HashAssumption ==
  /\ IsFiniteSet(HashKeys) /\ HashOf \in [HashKeys -> Nat]
  /\ HashPrimes \subseteq Nat \ {0}
  /\ HashNull \notin HashKeys \union HashVals

VARIABLE xht

HashNode == [key : HashKeys \union {HashNull}, val : HashVals \union {HashNull}]

(* xhash_new: pmalloco clears the array, one empty node to a bucket. *)
xhash_new(prime) == [b \in 0..(prime - 1) |-> <<[key |-> HashNull, val |-> HashNull]>>]

Prime(t) == Cardinality(DOMAIN t)
BucketOf(t, k) == HashOf[k] % Prime(t)

(* _xhash_node_get: the position of the key in its chain, 0 if it is not there. *)
_xhash_node_get(t, k) == SelectInSeq(t[BucketOf(t, k)], LAMBDA n : n.key = k)

(* _xhash_node_new: the first node of the chain without a key, or one linked
   behind the head. *)
_xhash_node_new(chain, node) ==
  LET empty == SelectInSeq(chain, LAMBDA n : n.key = HashNull)
  IN IF empty # 0 THEN ReplaceAt(chain, empty, node) ELSE <<chain[1], node>> \o Tail(chain)

xhash_put(t, k, v) ==
  LET node == [key |-> k, val |-> v]
      at == _xhash_node_get(t, k)
  IN [t EXCEPT ![BucketOf(t, k)] = IF at # 0 THEN ReplaceAt(@, at, node) ELSE _xhash_node_new(@, node)]

xhash_get(t, k) ==
  LET at == _xhash_node_get(t, k) IN IF at = 0 THEN HashNull ELSE t[BucketOf(t, k)][at].val

ZapHead(t, k) == [t EXCEPT ![BucketOf(t, k)][1].key = HashNull]   \* slip: the head, not the node
xhash_zap(t, k) ==
  LET at == _xhash_node_get(t, k)
  IN IF at = 0 THEN t ELSE [t EXCEPT ![BucketOf(t, k)][at].key = HashNull]

(* The nodes xhash_walk calls its function for, in its order; ghash_walk and
   xhash_get_nth go through the same ones. *)
Live(n) == n.key # HashNull /\ n.val # HashNull
LiveOnes(chain) == FlattenSeq([i \in 1..Len(chain) |-> IF Live(chain[i]) THEN <<chain[i]>> ELSE <<>>])
xhash_walk(t) == FlattenSeq([b \in 1..Prime(t) |-> LiveOnes(t[b - 1])])
xhash_get_nth(t, n) == IF n < Len(xhash_walk(t)) THEN xhash_walk(t)[n + 1].val ELSE HashNull

(* xhash_resize: a new table, the old one walked into it, node by node. *)
copy_node(t, n) == xhash_put(t, n.key, n.val)
xhash_resize(t, prime) ==
  LET walk == xhash_walk(t)
      copied[i \in 0..Len(walk)] == IF i = 0 THEN xhash_new(prime) ELSE copy_node(copied[i - 1], walk[i])
  IN IF prime = Prime(t) THEN t ELSE copied[Len(walk)]

HashInit == \E p \in HashPrimes : xht = xhash_new(p)

Put(k, v) == xht' = xhash_put(xht, k, v)
Zap(k) == xht' = xhash_zap(xht, k)
Resize(prime) == xht' = xhash_resize(xht, prime)
Renew == \E p \in HashPrimes : xht' = xhash_new(p)   \* xhash_free, and a new one

HashNext ==
  \/ \E k \in HashKeys : Zap(k) \/ \E v \in HashVals \union {HashNull} : Put(k, v)
  \/ \E p \in HashPrimes : Resize(p)
  \/ Renew

HashSpec == HashInit /\ [][HashNext]_xht
-----------------------------------------------------------------------------
(* The array has one of the sizes, and every bucket a chain with a head. *)
HashTypeOK ==
  /\ \E p \in HashPrimes : DOMAIN xht = 0..(p - 1)
  /\ \A b \in DOMAIN xht : xht[b] \in Seq(HashNode) /\ xht[b] # <<>>

(* However keys collide, are removed and put again: a key is in one node at
   most, in the chain that _xhash_node_get looks through. *)
OneNodePerKey ==
  \A b \in DOMAIN xht : \A i \in DOMAIN xht[b] :
    xht[b][i].key # HashNull =>
      /\ b = BucketOf(xht, xht[b][i].key)
      /\ \A j \in DOMAIN xht[b] : xht[b][j].key = xht[b][i].key => i = j

(* A chain that forgot to reuse its removed nodes would grow for ever: it is
   never longer than the keys of its bucket, or the head alone. *)
ChainBounded ==
  \A b \in DOMAIN xht :
    LET own == {k \in HashKeys : BucketOf(xht, k) = b}
    IN Len(xht[b]) <= IF own = {} THEN 1 ELSE Cardinality(own)

(* The table is a dictionary: xhash_get gives the last value put and not
   removed, and neither collisions nor reused nodes show. *)
Content(t) == [k \in HashKeys |-> xhash_get(t, k)]
LastPutWins ==
  [][xht' # xht => \A k \in HashKeys :
       /\ Zap(k) => Content(xht') = [Content(xht) EXCEPT ![k] = HashNull]
       /\ \A v \in HashVals \union {HashNull} :
            Put(k, v) => Content(xht') = [Content(xht) EXCEPT ![k] = v]]_xht

(* Nor does a change of size, which walks the old table into the new one. *)
ResizeUnseen == [][xht' # xht => \A p \in HashPrimes : Resize(p) => Content(xht') = Content(xht)]_xht

(* xhash_get_nth numbers every live entry once: a counter of the entries, as
   the roster keeps one, is a safe bound for a number drawn at random. *)
NthComplete ==
  LET count == Cardinality({k \in HashKeys : xhash_get(xht, k) # HashNull})
  IN /\ Len(xhash_walk(xht)) = count
     /\ \A n \in 0..count : (xhash_get_nth(xht, n) = HashNull) <=> n = count
=============================================================================
