--------------------------------- MODULE Pool ---------------------------------
(***************************************************************************)
(* pool.c as it is built, with FAST_POOL: memory is cut off heaps, or taken *)
(* as a block of its own when it is big, and all of it is freed with the   *)
(* pool, after the functions that were registered for that moment.         *)
(***************************************************************************)
EXTENDS Integers, Sequences, SequencesExt

CONSTANTS
  HeapSizes,   \* of pool_heap; 0 stands for pool_new, which has no heap
  Requests,    \* sizes given to pmalloc
  MaxBlocks, MaxCleaners   \* bounds: allocations and pool_cleanup calls

ASSUME PoolAssumption == HeapSizes \cup Requests \subseteq Nat

VARIABLES
  heap,      \* p->heap, a number of heaps, 0 for NULL
  heaps,     \* the heaps' [size, used]; the first is inside the pool's own block
  blocks,    \* history: what pmalloc returned, [heap, at, size], heap 0 for a raw block
  cleanup,   \* p->cleanup, a list of <<kind, number>>
  psize,     \* p->size
  cleaners,  \* history: how many were registered
  order,     \* what pool_free has called, in its order
  alive

poolVars == <<heap, heaps, blocks, cleanup, psize, cleaners, order, alive>>

PoolWith(size) ==
  /\ heap = (IF size = 0 THEN 0 ELSE 1)
  /\ heaps = (IF size = 0 THEN <<>> ELSE <<[size |-> size, used |-> 0]>>)
  /\ psize = size /\ alive = TRUE
  /\ blocks = <<>> /\ cleanup = <<>> /\ cleaners = 0 /\ order = <<>>
PoolInit == \E size \in HeapSizes : PoolWith(size)

(* Memory is freed last: its entries go to the end of the list. *)
_pool_cleanup_append(l, pf) == Append(l, pf)

RoundUp(used) == ((used + 7) \div 8) * 8

(* pmalloc: a raw block *)
Raw(size) ==
  /\ heap # 0 => size > heaps[heap].size \div 2
  /\ blocks' = Append(blocks, [heap |-> 0, at |-> 0, size |-> size])
  /\ psize' = psize + size
  /\ cleanup' = _pool_cleanup_append(cleanup, <<"raw", Len(blocks')>>)
  /\ UNCHANGED <<heap, heaps>>

(* pmalloc: from the heap, from a multiple of 8 on when it may be a struct;
   a heap with too little room left is replaced by another of its size. *)
CutUnaligned(size) ==   \* slip: strings and structs alike
  LET h == heaps[heap]
  IN /\ heap # 0 /\ size <= h.size \div 2 /\ size <= h.size - h.used
     /\ heaps' = [heaps EXCEPT ![heap].used = h.used + size]
     /\ blocks' = Append(blocks, [heap |-> heap, at |-> h.used, size |-> size])
     /\ UNCHANGED <<heap, psize, cleanup>>
Cut(size) ==
  LET h == heaps[heap]
      from == IF size >= 4 THEN RoundUp(h.used) ELSE h.used
  IN /\ heap # 0 /\ size <= h.size \div 2 /\ size <= h.size - from
     /\ heaps' = [heaps EXCEPT ![heap].used = from + size]
     /\ blocks' = Append(blocks, [heap |-> heap, at |-> from, size |-> size])
     /\ UNCHANGED <<heap, psize, cleanup>>
NewHeap(size) ==
  LET h == heaps[heap]
      from == IF size >= 4 THEN RoundUp(h.used) ELSE h.used
  IN /\ heap # 0 /\ size <= h.size \div 2 /\ size > h.size - from
     /\ heap' = Len(heaps) + 1 /\ heaps' = Append(heaps, [size |-> h.size, used |-> size])
     /\ blocks' = Append(blocks, [heap |-> heap', at |-> 0, size |-> size])
     /\ psize' = psize + h.size
     /\ cleanup' = _pool_cleanup_append(cleanup, <<"heap", heap'>>)

pmalloc(size) ==
  /\ alive /\ Len(blocks) < MaxBlocks
  /\ Raw(size) \/ Cut(size) \/ NewHeap(size)
  /\ UNCHANGED <<cleaners, order, alive>>
(* pstrdup: the string and its end. *)
pstrdup(length) == pmalloc(length + 1)

(* pool_cleanup: before all the others. *)
pool_cleanup ==
  /\ alive /\ cleaners < MaxCleaners
  /\ cleaners' = cleaners + 1
  /\ cleanup' = <<(<<"cleaner", cleaners'>>)>> \o cleanup
  /\ UNCHANGED <<heap, heaps, blocks, psize, order, alive>>

(* pool_free: the list, and then the pool with its first heap. *)
pool_free ==
  /\ alive /\ alive' = FALSE
  /\ order' = Append(cleanup, <<"pool", 0>>)
  /\ UNCHANGED <<heap, heaps, blocks, cleanup, psize, cleaners>>

PoolNext ==
  \/ \E size \in Requests : pmalloc(size) \/ pstrdup(size)
  \/ pool_cleanup \/ pool_free
PoolSpec == PoolInit /\ [][PoolNext]_poolVars
-----------------------------------------------------------------------------
(* What pmalloc returns is inside its heap, at a multiple of 8 when a struct
   may be put there, and shares no byte with what it returned before. *)
BlocksApart ==
  \A i \in DOMAIN blocks :
    LET b == blocks[i]
    IN b.heap # 0 =>
         /\ b.at + b.size <= heaps[b.heap].size
         /\ b.size >= 4 => b.at % 8 = 0
         /\ \A j \in 1..(i - 1) : blocks[j].heap = b.heap => blocks[j].at + blocks[j].size <= b.at

(* pool_size is all the memory that blocks are in. *)
HeapMemory == [h \in DOMAIN heaps |-> heaps[h].size]
RawMemory == [b \in DOMAIN blocks |-> IF blocks[b].heap = 0 THEN blocks[b].size ELSE 0]
SizeIsSum == psize = SumFunction(HeapMemory) + SumFunction(RawMemory)

(* What is to be freed with the pool: each heap but the first, each raw
   block, and what the registered functions free. *)
Registered ==
  {<<"heap", h>> : h \in 2 .. Len(heaps)}
    \cup {<<"raw", b>> : b \in {c \in DOMAIN blocks : blocks[c].heap = 0}}
    \cup {<<"cleaner", c>> : c \in 1 .. cleaners}

(* pool_free frees each heap and each raw block once, the first heap with
   the pool, and no function is called when memory is gone already. *)
FreedOnce ==
  ~alive =>
    /\ Range(order) = Registered \cup {<<"pool", 0>>}
    /\ \A i, j \in DOMAIN order : order[i] = order[j] => i = j
    /\ \A i, j \in DOMAIN order : order[i][1] = "cleaner" /\ order[j][1] # "cleaner" => i < j

(* The memory of a pool, until pool_free has given all of it back once. *)
PoolSound == BlocksApart /\ SizeIsSum /\ FreedOnce
=============================================================================
