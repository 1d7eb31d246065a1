-------------------------- MODULE MultipoolProofs --------------------------
(***************************************************************************)
(* Proofs about the allocator of lines, for all sets of addresses, pool    *)
(* sizes, requests and seal parameters.                                    *)
(*                                                                         *)
(* IInv below is inductive: the pools and the list agree (PoolsOK), blocks *)
(* lie apart in the used part of pools that exist and n_alloc counts them  *)
(* (BlocksOK), sealed pools are not empty, and promises are kept.  There   *)
(* is a lemma for each step the operations are made of, then one for each  *)
(* action, then the theorems.                                              *)
(***************************************************************************)
EXTENDS Multipool, FiniteSetTheorems, TLAPS

(* The fields of struct multipool. *)
Fields == {"pool", "header", "unsealed", "ahead", "unsealed_count",
           "pool_count", "max_pad", "max_unsealed"}

Shape(m) == DOMAIN m = Fields /\ m = [f \in Fields |-> m[f]]

(* Pools: their records, the list and the counters of the list.            *)
PoolsOK(m) ==
    /\ DOMAIN m.pool \subseteq Pools
    /\ IsFiniteSet(DOMAIN m.pool)
    /\ m.pool \in [DOMAIN m.pool -> PoolRecord]
    /\ m.unsealed \subseteq DOMAIN m.pool
    /\ m.ahead \subseteq m.unsealed \X m.unsealed
    /\ m.unsealed_count = Cardinality(m.unsealed)
    /\ m.pool_count = Cardinality(DOMAIN m.pool)
    /\ m.max_pad \in Nat
    /\ m.max_unsealed \in Nat
    /\ \A p \in DOMAIN m.pool : m.pool[p].sealed <=> p \notin m.unsealed

(* Blocks and the space they take in their pools.                          *)
BlocksOK(m) ==
    /\ DOMAIN m.header \subseteq Block
    /\ IsFiniteSet(DOMAIN m.header)
    /\ m.header \in [DOMAIN m.header -> Nat]
    /\ \A b \in DOMAIN m.header :
          BlockOK(m, b) /\ b[2] % 16 = 8 /\ m.header[b] % 16 = 0
    /\ \A b, c \in DOMAIN m.header : Apart(m, b, c)
    /\ \A p \in DOMAIN m.pool :
          /\ InitOffset <= m.pool[p].offset
          /\ m.pool[p].offset <= m.pool[p].size
          /\ m.pool[p].offset % 16 = 8
          /\ m.pool[p].n_alloc = Cardinality(BlocksOf(m, p))

(* No sealed pool is empty, except those in X that an operation is about   *)
(* to recycle.                                                             *)
SealedNotEmpty(m, X) ==
    \A p \in DOMAIN m.pool \ X : p \notin m.unsealed => m.pool[p].n_alloc > 0

WF(m) == Shape(m) /\ PoolsOK(m) /\ BlocksOK(m)

(* A step that changes the flag and the list alone, and keeps them in      *)
(* agreement, keeps the pools and blocks as they were.                     *)
SameSpace(m, n) ==
    /\ n.header = m.header
    /\ DOMAIN n.pool = DOMAIN m.pool
    /\ \A p \in DOMAIN m.pool : /\ n.pool[p].offset = m.pool[p].offset
                                /\ n.pool[p].size = m.pool[p].size
                                /\ n.pool[p].n_alloc = m.pool[p].n_alloc

(* Then the pools and the blocks are as well formed as they were. *)
LEMMA SameSpaceOK ==
    ASSUME NEW m, NEW n, BlocksOK(m), SameSpace(m, n)
    PROVE  BlocksOK(n)
<1>1. \A b \in DOMAIN m.header : BlockOK(n, b)
  BY DEF BlocksOK, SameSpace, BlockOK
<1>2. \A b, c \in DOMAIN m.header : Apart(n, b, c)
  BY DEF BlocksOK, SameSpace, Apart
<1>3. \A p : BlocksOf(n, p) = BlocksOf(m, p)
  BY DEF SameSpace, BlocksOf
<1> QED BY <1>1, <1>2, <1>3 DEF BlocksOK, SameSpace

(* pool_seal() of a pool on the list takes it off and counts down.         *)
LEMMA SealOK ==
    ASSUME NEW m, WF(m), NEW p \in m.unsealed
    PROVE  LET n == pool_seal(m, p)
           IN  /\ WF(n)
               /\ SameSpace(m, n)
               /\ n.max_pad = m.max_pad
               /\ n.unsealed = m.unsealed \ {p}
<1> DEFINE n == pool_seal(m, p)
<1>1. /\ Shape(n)
      /\ n.header = m.header
      /\ n.pool = [m.pool EXCEPT ![p].sealed = TRUE]
      /\ n.unsealed = m.unsealed \ {p}
      /\ n.ahead = {e \in m.ahead : e[1] \notin {p} /\ e[2] \notin {p}}
      /\ n.unsealed_count = m.unsealed_count - 1
      /\ n.pool_count = m.pool_count
      /\ n.max_pad = m.max_pad
      /\ n.max_unsealed = m.max_unsealed
  BY DEF pool_seal, Unlink, WF, Shape, Fields
<1> HIDE DEF n
<1>2. p \in DOMAIN m.pool /\ m.pool \in [DOMAIN m.pool -> PoolRecord]
  BY DEF WF, PoolsOK
<1>3. DOMAIN n.pool = DOMAIN m.pool /\ n.pool \in [DOMAIN m.pool -> PoolRecord]
  BY <1>1, <1>2 DEF PoolRecord
<1>4. /\ n.pool[p].sealed = TRUE
      /\ \A r \in DOMAIN m.pool \ {p} : n.pool[r].sealed = m.pool[r].sealed
  BY <1>1, <1>2 DEF PoolRecord
<1>5. SameSpace(m, n)
  BY <1>1, <1>2 DEF PoolRecord, SameSpace
<1>6. PoolsOK(n)
  <2>1. n.unsealed_count = Cardinality(n.unsealed)
    BY <1>1, FS_RemoveElement, FS_Subset DEF WF, PoolsOK
  <2>2. n.ahead \subseteq n.unsealed \X n.unsealed
    BY <1>1 DEF WF, PoolsOK
  <2>3. \A r \in DOMAIN n.pool : n.pool[r].sealed <=> r \notin n.unsealed
    BY <1>1, <1>3, <1>4 DEF WF, PoolsOK
  <2> QED BY <1>1, <1>3, <2>1, <2>2, <2>3 DEF WF, PoolsOK
<1> QED BY <1>1, <1>5, <1>6, SameSpaceOK DEF WF, n

(* pool_unseal() of a sealed pool puts it at the head and counts up.       *)
LEMMA UnsealOK ==
    ASSUME NEW m, WF(m), NEW p \in DOMAIN m.pool, m.pool[p].sealed
    PROVE  LET n == pool_unseal(m, p)
           IN  /\ WF(n)
               /\ SameSpace(m, n)
               /\ n.max_pad = m.max_pad
               /\ n.unsealed = m.unsealed \cup {p}
<1> DEFINE n == pool_unseal(m, p)
<1>1. /\ Shape(n)
      /\ n.header = m.header
      /\ n.pool = [m.pool EXCEPT ![p].sealed = FALSE]
      /\ n.unsealed = m.unsealed \cup {p}
      /\ n.ahead = m.ahead \cup ({p} \X m.unsealed)
      /\ n.unsealed_count = m.unsealed_count + 1
      /\ n.pool_count = m.pool_count
      /\ n.max_pad = m.max_pad
      /\ n.max_unsealed = m.max_unsealed
  BY DEF pool_unseal, WF, Shape, Fields
<1> HIDE DEF n
<1>2. p \notin m.unsealed /\ m.pool \in [DOMAIN m.pool -> PoolRecord]
  BY DEF WF, PoolsOK
<1>3. /\ DOMAIN n.pool = DOMAIN m.pool
      /\ n.pool \in [DOMAIN m.pool -> PoolRecord]
  <2>1. FALSE \in BOOLEAN
    OBVIOUS
  <2>2. \A b \in BOOLEAN : [m.pool EXCEPT ![p].sealed = b] \in [DOMAIN m.pool -> PoolRecord]
    BY <1>2 DEF PoolRecord
  <2> QED BY <1>1, <2>1, <2>2
<1>4. /\ n.pool[p].sealed = FALSE
      /\ \A r \in DOMAIN m.pool \ {p} : n.pool[r].sealed = m.pool[r].sealed
  BY <1>1, <1>2 DEF PoolRecord
<1>5. SameSpace(m, n)
  BY <1>1, <1>2 DEF PoolRecord, SameSpace
<1>6. PoolsOK(n)
  <2>1. n.unsealed_count = Cardinality(n.unsealed)
    <3>1. IsFiniteSet(m.unsealed) /\ m.unsealed_count = Cardinality(m.unsealed)
      BY FS_Subset DEF WF, PoolsOK
    <3>2. Cardinality(m.unsealed \cup {p}) = Cardinality(m.unsealed) + 1
      BY <1>2, <3>1, FS_AddElement
    <3> QED BY <1>1, <3>1, <3>2
  <2>2. n.ahead \subseteq n.unsealed \X n.unsealed
    BY <1>1 DEF WF, PoolsOK
  <2>3. \A r \in DOMAIN n.pool : n.pool[r].sealed <=> r \notin n.unsealed
    BY <1>1, <1>3, <1>4 DEF WF, PoolsOK
  <2> QED BY <1>1, <1>3, <2>1, <2>2, <2>3 DEF WF, PoolsOK
<1> QED BY <1>1, <1>5, <1>6, SameSpaceOK DEF WF, n

(* A new pool is empty and at the head of the list.                        *)
LEMMA NewPoolOK ==
    ASSUME NEW m, WF(m), NEW p \in Pools \ DOMAIN m.pool, NEW need \in Nat
    PROVE  LET n == NewPool(m, p, need)
           IN  /\ WF(n)
               /\ n.header = m.header
               /\ n.max_pad = m.max_pad
               /\ p \in n.unsealed
               /\ n.unsealed = m.unsealed \cup {p}
               /\ DOMAIN n.pool = DOMAIN m.pool \cup {p}
               /\ \A q \in DOMAIN m.pool : n.pool[q] = m.pool[q]
               /\ Room(n, p) >= need
<1> DEFINE n == NewPool(m, p, need)
           cap == Larger(PoolSize, need + InitOffset)
           new == [n_alloc |-> 0, offset |-> InitOffset, size |-> cap, sealed |-> FALSE]
<1>1. cap \in Nat /\ cap >= need + InitOffset
  BY MultipoolAssumption DEF Larger, InitOffset
<1>2. new \in PoolRecord
  BY <1>1 DEF PoolRecord, InitOffset
<1> HIDE DEF cap
<1>3. /\ Shape(n)
      /\ n.header = m.header
      /\ n.unsealed = m.unsealed \cup {p}
      /\ n.ahead = m.ahead \cup ({p} \X m.unsealed)
      /\ n.unsealed_count = m.unsealed_count + 1
      /\ n.pool_count = m.pool_count + 1
      /\ n.max_pad = m.max_pad
      /\ n.max_unsealed = m.max_unsealed
  BY DEF NewPool, pool_unseal, WF, Shape, Fields
<1>4. n.pool = [[q \in DOMAIN m.pool \cup {p} |-> IF q = p THEN new ELSE m.pool[q]]
                  EXCEPT ![p].sealed = FALSE]
  BY DEF NewPool, pool_unseal, WF, Shape, Fields, cap
<1> HIDE DEF n
<1>5. /\ DOMAIN n.pool = DOMAIN m.pool \cup {p}
      /\ \A q \in DOMAIN m.pool : n.pool[q] = m.pool[q]
      /\ n.pool[p] = new
  BY <1>4
<1>6. m.pool \in [DOMAIN m.pool -> PoolRecord] /\ p \notin m.unsealed
  BY DEF WF, PoolsOK
<1>7. n.pool \in [DOMAIN n.pool -> PoolRecord]
  <2>1. \A q \in DOMAIN n.pool : n.pool[q] \in PoolRecord
    BY <1>2, <1>5, <1>6
  <2>2. n.pool = [q \in DOMAIN n.pool |-> n.pool[q]]
    BY <1>4
  <2> QED BY <2>1, <2>2
<1>8. PoolsOK(n)
  <2>1. IsFiniteSet(m.unsealed) /\ m.unsealed_count = Cardinality(m.unsealed)
    BY FS_Subset DEF WF, PoolsOK
  <2>2. Cardinality(m.unsealed \cup {p}) = Cardinality(m.unsealed) + 1
    BY <1>6, <2>1, FS_AddElement
  <2>3. /\ IsFiniteSet(DOMAIN m.pool \cup {p})
        /\ Cardinality(DOMAIN m.pool \cup {p}) = Cardinality(DOMAIN m.pool) + 1
    BY FS_AddElement DEF WF, PoolsOK
  <2>4. n.ahead \subseteq n.unsealed \X n.unsealed
    BY <1>3 DEF WF, PoolsOK
  <2>5. \A r \in DOMAIN n.pool : n.pool[r].sealed <=> r \notin n.unsealed
    BY <1>3, <1>5 DEF WF, PoolsOK
  <2>6. /\ n.unsealed_count = Cardinality(n.unsealed)
        /\ n.pool_count = Cardinality(DOMAIN n.pool)
        /\ IsFiniteSet(DOMAIN n.pool)
    BY <1>3, <1>5, <2>1, <2>2, <2>3 DEF WF, PoolsOK
  <2>7. n.unsealed \subseteq DOMAIN n.pool /\ DOMAIN n.pool \subseteq Pools
    BY <1>3, <1>5 DEF WF, PoolsOK
  <2>8. n.max_pad \in Nat /\ n.max_unsealed \in Nat
    BY <1>3 DEF WF, PoolsOK
  <2> QED BY <1>7, <2>4, <2>5, <2>6, <2>7, <2>8 DEF PoolsOK
<1>9. BlocksOK(n)
  <2>1. \A b \in DOMAIN m.header : b[1] \in DOMAIN m.pool
    BY DEF WF, BlocksOK, BlockOK
  <2>2. \A b \in DOMAIN n.header : BlockOK(n, b) /\ b[2] % 16 = 8 /\ n.header[b] % 16 = 0
    BY <1>3, <1>5, <2>1 DEF WF, BlocksOK, BlockOK
  <2>3. \A b, c \in DOMAIN n.header : Apart(n, b, c)
    BY <1>3 DEF WF, BlocksOK, Apart
  <2>4. \A q : BlocksOf(n, q) = BlocksOf(m, q)
    BY <1>3 DEF BlocksOf
  <2>5. BlocksOf(m, p) = {}
    BY <2>1 DEF BlocksOf
  <2>6. ASSUME NEW q \in DOMAIN n.pool
        PROVE  /\ InitOffset <= n.pool[q].offset
               /\ n.pool[q].offset <= n.pool[q].size
               /\ n.pool[q].offset % 16 = 8
               /\ n.pool[q].n_alloc = Cardinality(BlocksOf(n, q))
    <3>1. CASE q = p
      BY <1>1, <1>5, <2>4, <2>5, <3>1, FS_EmptySet DEF InitOffset
    <3>2. CASE q # p
      BY <1>5, <2>4, <3>2 DEF WF, BlocksOK
    <3> QED BY <3>1, <3>2
  <2> QED BY <1>3, <2>2, <2>3, <2>6 DEF WF, BlocksOK
<1>10. Room(n, p) >= need
  BY <1>1, <1>5 DEF Room, InitOffset
<1> QED BY <1>3, <1>5, <1>8, <1>9, <1>10 DEF WF, n

(* What Store() does to the fields.                                        *)
Stored(m, n, h, p, off, k) ==
    /\ Shape(n)
    /\ PoolsOK(n)
    /\ n.header = h
    /\ n.unsealed = m.unsealed
    /\ n.max_pad = m.max_pad
    /\ n.max_unsealed = m.max_unsealed
    /\ DOMAIN n.pool = DOMAIN m.pool
    /\ n.pool[p].offset = off
    /\ n.pool[p].n_alloc = k
    /\ n.pool[p].size = m.pool[p].size
    /\ n.pool[p].sealed = m.pool[p].sealed
    /\ \A q \in DOMAIN m.pool \ {p} : n.pool[q] = m.pool[q]

(* Store() does that to any state of the right shape. *)
LEMMA StoreFields ==
    ASSUME NEW m, WF(m), NEW h, NEW p \in DOMAIN m.pool,
           NEW off \in Nat, NEW k \in Nat,
           NEW n, n = Store(m, h, p, off, k)
    PROVE  Stored(m, n, h, p, off, k)
<1> DEFINE r == [m.pool[p] EXCEPT !.offset = off, !.n_alloc = k]
<1>1. m.pool \in [DOMAIN m.pool -> PoolRecord]
  BY DEF WF, PoolsOK
<1>2. /\ r \in PoolRecord
      /\ r.offset = off
      /\ r.n_alloc = k
      /\ r.size = m.pool[p].size
      /\ r.sealed = m.pool[p].sealed
  <2>1. m.pool[p] \in PoolRecord
    BY <1>1
  <2> QED BY <2>1 DEF PoolRecord
<1>3. n = [m EXCEPT !.header = h, !.pool[p] = r]
  BY DEF Store
<1> HIDE DEF r
<1>4. /\ Shape(n)
      /\ n.header = h
      /\ n.pool = [m.pool EXCEPT ![p] = r]
      /\ n.unsealed = m.unsealed
      /\ n.ahead = m.ahead
      /\ n.unsealed_count = m.unsealed_count
      /\ n.pool_count = m.pool_count
      /\ n.max_pad = m.max_pad
      /\ n.max_unsealed = m.max_unsealed
  BY <1>3 DEF WF, Shape, Fields
<1>5. /\ DOMAIN n.pool = DOMAIN m.pool
      /\ n.pool \in [DOMAIN m.pool -> PoolRecord]
      /\ n.pool[p] = r
      /\ \A q \in DOMAIN m.pool \ {p} : n.pool[q] = m.pool[q]
  BY <1>1, <1>2, <1>4
<1>6. PoolsOK(n)
  BY <1>2, <1>4, <1>5 DEF WF, PoolsOK
<1> QED BY <1>2, <1>4, <1>5, <1>6 DEF Stored

(* What is known of a pool and of a block, as plain facts of arithmetic.   *)
LEMMA PoolFacts ==
    ASSUME NEW m, WF(m), NEW p \in DOMAIN m.pool
    PROVE  /\ m.pool[p].offset \in Nat
           /\ m.pool[p].size \in Nat
           /\ m.pool[p].n_alloc \in Nat
           /\ m.pool[p].sealed \in BOOLEAN
           /\ InitOffset <= m.pool[p].offset
           /\ m.pool[p].offset <= m.pool[p].size
           /\ m.pool[p].offset % 16 = 8
           /\ IsFiniteSet(BlocksOf(m, p))
           /\ m.pool[p].n_alloc = Cardinality(BlocksOf(m, p))
<1>1. m.pool[p] \in PoolRecord
  BY DEF WF, PoolsOK
<1>2. IsFiniteSet(BlocksOf(m, p))
  BY FS_Subset DEF WF, BlocksOK, BlocksOf
<1> QED BY <1>1, <1>2 DEF WF, BlocksOK, PoolRecord

(* The same of a block and the pool it is in. *)
LEMMA BlockFacts ==
    ASSUME NEW m, WF(m), NEW b \in DOMAIN m.header
    PROVE  /\ b \in Block
           /\ b[1] \in DOMAIN m.pool
           /\ b[2] \in Nat
           /\ m.header[b] \in Nat
           /\ m.header[b] > 0
           /\ m.header[b] % 16 = 0
           /\ b[2] % 16 = 8
           /\ b[2] >= InitOffset
           /\ b[2] + m.header[b] <= m.pool[b[1]].offset
<1>1. /\ b \in Block
      /\ m.header[b] \in Nat
      /\ BlockOK(m, b)
      /\ m.header[b] % 16 = 0
      /\ b[2] % 16 = 8
  BY DEF WF, BlocksOK
<1> QED BY <1>1 DEF BlockOK, Block

(* The block mpa_alloc() puts at the end of a pool with enough room.       *)
LEMMA PutAtEndOK ==
    ASSUME NEW m, WF(m), NEW p \in m.unsealed,
           NEW size \in Nat, size > 0, size % 16 = 0, Room(m, p) >= size
    PROVE  LET n == PutAtEnd(m, p, size)
               b == <<p, m.pool[p].offset>>
           IN  /\ WF(n)
               /\ n.unsealed = m.unsealed
               /\ n.max_pad = m.max_pad
               /\ b \notin DOMAIN m.header
               /\ n.header = WithHeader(m, b, size)
               /\ DOMAIN n.pool = DOMAIN m.pool
               /\ \A q \in DOMAIN m.pool : n.pool[q].size = m.pool[q].size
               /\ \A q \in DOMAIN m.pool \ {p} : n.pool[q] = m.pool[q]
               /\ n.pool[p].n_alloc > 0
               /\ n.pool[p].offset = m.pool[p].offset + size
<1> DEFINE n == PutAtEnd(m, p, size)
           o == m.pool[p].offset
           b == <<p, o>>
<1>1. p \in DOMAIN m.pool
  BY DEF WF, PoolsOK
<1>2. /\ o \in Nat
      /\ m.pool[p].size \in Nat
      /\ m.pool[p].n_alloc \in Nat
      /\ o >= InitOffset
      /\ o % 16 = 8
      /\ o + size <= m.pool[p].size
  BY <1>1, PoolFacts DEF Room
<1>3. /\ Shape(n)
      /\ n.header = WithHeader(m, b, size)
      /\ PoolsOK(n)
      /\ n.unsealed = m.unsealed
      /\ n.max_pad = m.max_pad
      /\ DOMAIN n.pool = DOMAIN m.pool
      /\ n.pool[p].offset = o + size
      /\ n.pool[p].n_alloc = m.pool[p].n_alloc + 1
      /\ n.pool[p].size = m.pool[p].size
      /\ \A q \in DOMAIN m.pool \ {p} : n.pool[q] = m.pool[q]
  <2> DEFINE h == WithHeader(m, b, size)
             k == m.pool[p].n_alloc + 1
             e == o + size
  <2>1. n = Store(m, h, p, e, k)
    BY DEF PutAtEnd
  <2>2. e \in Nat /\ k \in Nat
    BY <1>2
  <2> HIDE DEF n, h, k, e, o
  <2>3. Stored(m, n, h, p, e, k)
    BY <1>1, <2>1, <2>2, StoreFields
  <2> QED BY <2>3 DEF Stored, h, k, e, o
<1> HIDE DEF n
<1>4. b \notin DOMAIN m.header
  BY <1>2, BlockFacts
<1> HIDE DEF o
<1>5. /\ DOMAIN n.header = DOMAIN m.header \cup {b}
      /\ n.header[b] = size
      /\ \A c \in DOMAIN m.header : n.header[c] = m.header[c]
      /\ n.header = [c \in DOMAIN n.header |-> n.header[c]]
  BY <1>3, <1>4 DEF WithHeader
<1>6. \A c \in DOMAIN m.header : c[1] = p => c[2] + m.header[c] <= o
  BY BlockFacts DEF o
<1>7. BlocksOK(n)
  <2>1. \A c \in DOMAIN n.header : n.header[c] \in Nat /\ c \in Block
    <3>1. p \in Pools
      BY <1>1 DEF WF, PoolsOK
    <3>2. b \in Block
      BY <1>2, <3>1 DEF Block
    <3> QED BY <1>5, <3>2, BlockFacts
  <2>2. IsFiniteSet(DOMAIN n.header)
    BY <1>5, FS_AddElement DEF WF, BlocksOK
  <2>3. ASSUME NEW c \in DOMAIN m.header
        PROVE  BlockOK(n, c) /\ c[2] % 16 = 8 /\ n.header[c] % 16 = 0
    <3>1. CASE c[1] = p
      BY <1>1, <1>2, <1>3, <1>5, <1>6, <3>1, BlockFacts DEF BlockOK
    <3>2. CASE c[1] # p
      BY <1>3, <1>5, <3>2, BlockFacts DEF BlockOK
    <3> QED BY <3>1, <3>2
  <2>4. BlockOK(n, b) /\ b[2] % 16 = 8 /\ n.header[b] % 16 = 0
    BY <1>1, <1>2, <1>3, <1>5 DEF BlockOK
  <2>5. ASSUME NEW c \in DOMAIN n.header, NEW d \in DOMAIN n.header
        PROVE  Apart(n, c, d)
    <3>1. CASE c = b /\ d = b
      BY <3>1 DEF Apart
    <3>2. CASE c = b /\ d # b
      BY <1>2, <1>5, <1>6, <3>2 DEF Apart
    <3>3. CASE c # b /\ d = b
      BY <1>2, <1>5, <1>6, <3>3 DEF Apart
    <3>4. CASE c # b /\ d # b
      BY <1>5, <3>4 DEF Apart, WF, BlocksOK
    <3> QED BY <3>1, <3>2, <3>3, <3>4
  <2>6. ASSUME NEW q \in DOMAIN n.pool
        PROVE  /\ InitOffset <= n.pool[q].offset
               /\ n.pool[q].offset <= n.pool[q].size
               /\ n.pool[q].offset % 16 = 8
               /\ n.pool[q].n_alloc = Cardinality(BlocksOf(n, q))
    <3>1. CASE q = p
      <4>1. BlocksOf(n, p) = BlocksOf(m, p) \cup {b} /\ b \notin BlocksOf(m, p)
        BY <1>4, <1>5 DEF BlocksOf
      <4>2. Cardinality(BlocksOf(n, p)) = m.pool[p].n_alloc + 1
        <5>1. IsFiniteSet(BlocksOf(m, p)) /\ m.pool[p].n_alloc = Cardinality(BlocksOf(m, p))
          BY <1>1, PoolFacts
        <5>2. Cardinality(BlocksOf(m, p) \cup {b}) = Cardinality(BlocksOf(m, p)) + 1
          BY <4>1, <5>1, FS_AddElement
        <5> QED BY <4>1, <5>1, <5>2
      <4> QED BY <1>2, <1>3, <3>1, <4>2 DEF InitOffset
    <3>2. CASE q # p
      <4>1. BlocksOf(n, q) = BlocksOf(m, q)
        BY <1>5, <3>2 DEF BlocksOf
      <4> QED BY <1>3, <3>2, <4>1, PoolFacts
    <3> QED BY <3>1, <3>2
  <2>7. \A c \in DOMAIN n.header : BlockOK(n, c) /\ c[2] % 16 = 8 /\ n.header[c] % 16 = 0
    BY <1>5, <2>3, <2>4
  <2> QED BY <1>5, <2>1, <2>2, <2>5, <2>6, <2>7 DEF BlocksOK
<1>8. \A q \in DOMAIN m.pool : n.pool[q].size = m.pool[q].size
  BY <1>3
<1>9. n.pool[p].n_alloc > 0
  BY <1>2, <1>3
<1> QED BY <1>3, <1>4, <1>7, <1>8, <1>9 DEF WF, n, o

(* The pools keep their capacity, whatever else happens to them.           *)
SizesKept(m, n) ==
    \A p \in DOMAIN m.pool \cap DOMAIN n.pool : n.pool[p].size = m.pool[p].size

(* Block c has the end of its pool to itself: it is the last one, and the  *)
(* pool is off the list.                                                   *)
Held(m, c) == c[1] \notin m.unsealed /\ IsLast(m, c)

(* It still has, and as much of it.                                        *)
StillHeld(m, n, c) ==
    /\ c \in DOMAIN n.header
    /\ n.header[c] = m.header[c]
    /\ c[1] \notin n.unsealed
    /\ n.pool[c[1]].offset = m.pool[c[1]].offset
    /\ n.pool[c[1]].size = m.pool[c[1]].size

(* At most one block has the end of a pool.                                *)
LEMMA HeldOnce ==
    ASSUME NEW m, WF(m), NEW b \in DOMAIN m.header, NEW c \in DOMAIN m.header,
           b[1] = c[1], IsLast(m, b), IsLast(m, c)
    PROVE  b = c
<1>1. /\ b[2] \in Nat /\ c[2] \in Nat
      /\ m.header[b] \in Nat /\ m.header[c] \in Nat
      /\ m.header[b] > 0 /\ m.header[c] > 0
  BY BlockFacts
<1>2. Apart(m, b, c)
  BY DEF WF, BlocksOK
<1>3. m.pool[b[1]].offset \in Nat
  BY BlockFacts, PoolFacts
<1> QED BY <1>1, <1>2, <1>3 DEF Apart, IsLast

(* ... and with the pool sealed afterwards.                                *)
LEMMA PlaceOK ==
    ASSUME NEW m, WF(m), SealedNotEmpty(m, {}), NEW p \in m.unsealed,
           NEW size \in Nat, size > 0, size % 16 = 0, Room(m, p) >= size,
           NEW n, n = Place(m, p, size)
    PROVE  /\ WF(n)
           /\ SealedNotEmpty(n, {})
           /\ SizesKept(m, n)
           /\ n.max_pad = m.max_pad
           /\ <<p, m.pool[p].offset>> \notin DOMAIN m.header
           /\ n.header = WithHeader(m, <<p, m.pool[p].offset>>, size)
           /\ DOMAIN n.pool = DOMAIN m.pool
           /\ n.unsealed = m.unsealed \ {p}
           /\ n.pool[p].offset = m.pool[p].offset + size
           /\ \A q \in DOMAIN m.pool \ {p} : n.pool[q].offset = m.pool[q].offset
<1> DEFINE k == PutAtEnd(m, p, size)
           b == <<p, m.pool[p].offset>>
<1>1. /\ WF(k)
      /\ k.unsealed = m.unsealed
      /\ k.max_pad = m.max_pad
      /\ b \notin DOMAIN m.header
      /\ k.header = WithHeader(m, b, size)
      /\ DOMAIN k.pool = DOMAIN m.pool
      /\ \A q \in DOMAIN m.pool : k.pool[q].size = m.pool[q].size
      /\ \A q \in DOMAIN m.pool \ {p} : k.pool[q] = m.pool[q]
      /\ k.pool[p].n_alloc > 0
      /\ k.pool[p].offset = m.pool[p].offset + size
  BY PutAtEndOK
<1>2. n = pool_seal(k, p)
  BY DEF Place
<1> HIDE DEF k, b
<1>3. WF(n) /\ SameSpace(k, n) /\ n.max_pad = k.max_pad /\ n.unsealed = k.unsealed \ {p}
  BY <1>1, <1>2, SealOK
<1>4. SealedNotEmpty(n, {})
  BY <1>1, <1>3 DEF SealedNotEmpty, SameSpace
<1>5. p \in DOMAIN m.pool
  BY DEF WF, PoolsOK
<1> QED BY <1>1, <1>3, <1>4, <1>5 DEF SameSpace, SizesKept, b

(* mpa_alloc() gives a block that was not live, at the end of its pool and *)
(* with room to grow to max_pad, and no other block loses the end of its.  *)
LEMMA AllocOK ==
    ASSUME NEW m, WF(m), SealedNotEmpty(m, {}),
           NEW size \in Nat, size > 0, size % 16 = 0,
           NEW r \in mpa_alloc(m, size)
    PROVE  /\ WF(r.mp)
           /\ SealedNotEmpty(r.mp, {})
           /\ SizesKept(m, r.mp)
           /\ r.mp.max_pad = m.max_pad
           /\ r.ptr \notin DOMAIN m.header
           /\ r.mp.header = WithHeader(m, r.ptr, size)
           /\ DOMAIN m.pool \subseteq DOMAIN r.mp.pool
           /\ Held(r.mp, r.ptr) /\ FitsInPlace(r.mp, r.ptr, m.max_pad)
           /\ \A c \in DOMAIN m.header : Held(m, c) => StillHeld(m, r.mp, c)
<1> DEFINE need == Larger(size, m.max_pad)
<1>1. m.max_pad \in Nat /\ need \in Nat /\ need >= size /\ need >= m.max_pad
  BY DEF Larger, WF, PoolsOK
<1>2. PICK f \in get_fitting_pool(m, need) :
         r = [mp |-> Place(f.mp, f.pool, size), ptr |-> <<f.pool, f.mp.pool[f.pool].offset>>]
  BY DEF mpa_alloc
<1> HIDE DEF need
<1> DEFINE k == f.mp
           p == f.pool
<1>3. /\ WF(k)
      /\ SealedNotEmpty(k, {})
      /\ SizesKept(m, k)
      /\ k.max_pad = m.max_pad
      /\ k.header = m.header
      /\ DOMAIN m.pool \subseteq DOMAIN k.pool
      /\ p \in k.unsealed
      /\ Room(k, p) >= need
      /\ \A q \in DOMAIN m.pool \ m.unsealed : q # p /\ q \notin k.unsealed
      /\ \A q \in DOMAIN m.pool : k.pool[q] = m.pool[q]
  <2>1. CASE Fitting(m, need) # {}
    <3>1. PICK q \in Fitting(m, need) : f = [mp |-> m, pool |-> q]
      BY <2>1 DEF get_fitting_pool
    <3> QED BY <3>1 DEF Fitting, SizesKept
  <2>2. CASE Fitting(m, need) = {}
    <3>1. PICK q \in Pools \ DOMAIN m.pool : f = [mp |-> NewPool(m, q, need), pool |-> q]
      BY <2>2 DEF get_fitting_pool
    <3>2. k = NewPool(m, q, need) /\ p = q
      BY <3>1
    <3> HIDE DEF k, p
    <3>3. /\ WF(k)
          /\ k.header = m.header
          /\ k.max_pad = m.max_pad
          /\ q \in k.unsealed
          /\ k.unsealed = m.unsealed \cup {q}
          /\ DOMAIN k.pool = DOMAIN m.pool \cup {q}
          /\ \A a \in DOMAIN m.pool : k.pool[a] = m.pool[a]
          /\ Room(k, q) >= need
      BY <1>1, <3>2, NewPoolOK
    <3>4. SealedNotEmpty(k, {})
      BY <3>3 DEF SealedNotEmpty
    <3> QED BY <3>2, <3>3, <3>4 DEF SizesKept
  <2> QED BY <2>1, <2>2
<1>4. r.mp = Place(k, p, size) /\ r.ptr = <<p, k.pool[p].offset>>
  BY <1>2
<1> HIDE DEF k, p
<1>5. p \in DOMAIN k.pool /\ k.pool[p].size \in Nat /\ k.pool[p].offset \in Nat
  BY <1>3, PoolFacts DEF WF, PoolsOK
<1>6. Room(k, p) >= size
  BY <1>1, <1>3, <1>5 DEF Room
<1> DEFINE x == r.mp
<1>7. x = Place(k, p, size)
  BY <1>4
<1> HIDE DEF x
<1>8. /\ WF(x)
      /\ SealedNotEmpty(x, {})
      /\ SizesKept(k, x)
      /\ x.max_pad = k.max_pad
      /\ <<p, k.pool[p].offset>> \notin DOMAIN k.header
      /\ x.header = WithHeader(k, <<p, k.pool[p].offset>>, size)
      /\ DOMAIN x.pool = DOMAIN k.pool
      /\ x.unsealed = k.unsealed \ {p}
      /\ x.pool[p].offset = k.pool[p].offset + size
      /\ \A q \in DOMAIN k.pool \ {p} : x.pool[q].offset = k.pool[q].offset
  BY <1>3, <1>6, <1>7, PlaceOK
<1>9. x.header = WithHeader(m, r.ptr, size)
  BY <1>3, <1>4, <1>8 DEF WithHeader
<1>10. SizesKept(m, x) /\ DOMAIN m.pool \subseteq DOMAIN x.pool
  BY <1>3, <1>8 DEF SizesKept
<1>11. Held(x, r.ptr) /\ FitsInPlace(x, r.ptr, m.max_pad)
  <2>1. x.header[r.ptr] = size /\ r.ptr[1] = p /\ r.ptr[2] = k.pool[p].offset
    BY <1>4, <1>9 DEF WithHeader
  <2>2. x.pool[p].size = k.pool[p].size /\ p \notin x.unsealed
    BY <1>5, <1>8 DEF SizesKept
  <2> QED BY <1>1, <1>3, <1>5, <1>8, <2>1, <2>2 DEF Held, FitsInPlace, IsLast, Room
<1>12. ASSUME NEW c \in DOMAIN m.header, Held(m, c) PROVE StillHeld(m, x, c)
  <2>1. c[1] \in DOMAIN m.pool \ m.unsealed /\ c # r.ptr
    BY <1>3, <1>8, <1>12, <1>4, BlockFacts DEF Held
  <2>2. c \in DOMAIN x.header /\ x.header[c] = m.header[c]
    BY <1>9, <2>1 DEF WithHeader
  <2>3. c[1] # p /\ c[1] \notin x.unsealed /\ k.pool[c[1]] = m.pool[c[1]]
    BY <1>3, <1>8, <2>1
  <2> QED BY <1>3, <1>8, <2>1, <2>2, <2>3 DEF StillHeld, SizesKept
<1> QED BY <1>3, <1>4, <1>8, <1>9, <1>10, <1>11, <1>12 DEF x

(* A step on block b that only removes it: the pools stay, all but the one *)
(* of b keep their n_alloc, and only the last block takes space with it.   *)
Removed(m, n, b) ==
    /\ n.header = WithoutHeader(m, b)
    /\ n.max_pad = m.max_pad
    /\ DOMAIN n.pool = DOMAIN m.pool
    /\ \A q \in DOMAIN m.pool : n.pool[q].size = m.pool[q].size
    /\ \A q \in DOMAIN m.pool \ {b[1]} : /\ n.pool[q].n_alloc = m.pool[q].n_alloc
                                        /\ n.pool[q].offset = m.pool[q].offset
    /\ ~ IsLast(m, b) => n.pool[b[1]].offset = m.pool[b[1]].offset

(* mpa_free() before the pool is recycled: the others stay apart.          *)
LEMMA DropOK ==
    ASSUME NEW m, WF(m), NEW b \in DOMAIN m.header, NEW n, n = Drop(m, b)
    PROVE  /\ WF(n)
           /\ Removed(m, n, b)
           /\ n.unsealed = m.unsealed
           /\ n.pool[b[1]].sealed = m.pool[b[1]].sealed
<1> DEFINE p == b[1]
           o == m.pool[p].offset
           e == IF IsLast(m, b) THEN o - m.header[b] ELSE o
           k == m.pool[p].n_alloc - 1
           h == WithoutHeader(m, b)
<1>1. /\ b \in Block
      /\ p \in DOMAIN m.pool
      /\ b[2] \in Nat
      /\ m.header[b] \in Nat
      /\ m.header[b] > 0
      /\ m.header[b] % 16 = 0
      /\ b[2] % 16 = 8
      /\ b[2] >= 8
      /\ b[2] + m.header[b] <= o
  BY BlockFacts DEF InitOffset
<1>2. /\ o \in Nat
      /\ m.pool[p].size \in Nat
      /\ m.pool[p].n_alloc \in Nat
      /\ 8 <= o
      /\ o <= m.pool[p].size
      /\ o % 16 = 8
      /\ IsFiniteSet(BlocksOf(m, p))
      /\ m.pool[p].n_alloc = Cardinality(BlocksOf(m, p))
  BY <1>1, PoolFacts DEF InitOffset
<1>3. /\ e \in Nat
      /\ 8 <= e
      /\ e <= o
      /\ e % 16 = 8
  BY <1>1, <1>2 DEF IsLast
<1>4. /\ k \in Nat
      /\ k = Cardinality(BlocksOf(m, p) \ {b})
  <2>1. b \in BlocksOf(m, p)
    BY DEF BlocksOf
  <2>2. Cardinality(BlocksOf(m, p) \ {b}) = Cardinality(BlocksOf(m, p)) - 1
    BY <1>2, <2>1, FS_RemoveElement
  <2>3. Cardinality(BlocksOf(m, p) \ {b}) \in Nat
    BY <1>2, FS_Subset, FS_CardinalityType
  <2> QED BY <1>2, <2>2, <2>3
<1>5. n = Store(m, h, p, e, k)
  BY DEF Drop
<1>6. /\ DOMAIN h = DOMAIN m.header \ {b}
      /\ \A c \in DOMAIN h : h[c] = m.header[c]
      /\ h = [c \in DOMAIN h |-> h[c]]
  BY DEF WithoutHeader
(* The blocks that stay end before the new offset.                         *)
<1>7. ASSUME NEW c \in DOMAIN h, c[1] = p
      PROVE  c[2] + m.header[c] <= e
  <2>1. /\ c \in DOMAIN m.header
        /\ c[2] \in Nat
        /\ m.header[c] \in Nat
        /\ m.header[c] > 0
        /\ c[2] + m.header[c] <= o
    BY <1>6, <1>7, BlockFacts
  <2>2. Apart(m, b, c) /\ c # b
    BY <1>6, <2>1 DEF WF, BlocksOK
  <2> QED BY <1>1, <1>2, <1>7, <2>1, <2>2 DEF Apart, IsLast
<1>10. p \in DOMAIN m.pool /\ e \in Nat /\ k \in Nat
  BY <1>1, <1>3, <1>4
<1>12. ~ IsLast(m, b) => e = m.pool[p].offset
  OBVIOUS
<1> HIDE DEF p, o, e, k, h
<1>11. Stored(m, n, h, p, e, k)
  BY <1>5, <1>10, StoreFields
<1>8. /\ Shape(n)
      /\ PoolsOK(n)
      /\ n.header = h
      /\ n.unsealed = m.unsealed
      /\ n.max_pad = m.max_pad
      /\ DOMAIN n.pool = DOMAIN m.pool
      /\ n.pool[p].offset = e
      /\ n.pool[p].n_alloc = k
      /\ n.pool[p].size = m.pool[p].size
      /\ n.pool[p].sealed = m.pool[p].sealed
      /\ \A q \in DOMAIN m.pool \ {p} : n.pool[q] = m.pool[q]
  BY <1>11 DEF Stored
<1>9. BlocksOK(n)
  <2>1. IsFiniteSet(DOMAIN n.header) /\ DOMAIN n.header \subseteq Block
    BY <1>6, <1>8, FS_Subset DEF WF, BlocksOK
  <2>2. n.header \in [DOMAIN n.header -> Nat]
    BY <1>6, <1>8 DEF WF, BlocksOK
  <2>3. ASSUME NEW c \in DOMAIN n.header
        PROVE  BlockOK(n, c) /\ c[2] % 16 = 8 /\ n.header[c] % 16 = 0
    <3>1. c \in DOMAIN m.header /\ n.header[c] = m.header[c] /\ c \in DOMAIN h
      BY <1>6, <1>8
    <3>2. CASE c[1] = p
      BY <1>1, <1>7, <1>8, <3>1, <3>2, BlockFacts DEF BlockOK
    <3>3. CASE c[1] # p
      BY <1>8, <3>1, <3>3, BlockFacts DEF BlockOK
    <3> QED BY <3>2, <3>3
  <2>4. \A c, d \in DOMAIN n.header : Apart(n, c, d)
    BY <1>6, <1>8 DEF Apart, WF, BlocksOK
  <2>5. ASSUME NEW q \in DOMAIN n.pool
        PROVE  /\ InitOffset <= n.pool[q].offset
               /\ n.pool[q].offset <= n.pool[q].size
               /\ n.pool[q].offset % 16 = 8
               /\ n.pool[q].n_alloc = Cardinality(BlocksOf(n, q))
    <3>1. CASE q = p
      <4>1. BlocksOf(n, p) = BlocksOf(m, p) \ {b}
        BY <1>6, <1>8 DEF BlocksOf
      <4> QED BY <1>2, <1>3, <1>4, <1>8, <3>1, <4>1 DEF InitOffset
    <3>2. CASE q # p
      <4>1. BlocksOf(n, q) = BlocksOf(m, q)
        BY <1>6, <1>8, <3>2 DEF BlocksOf, p
      <4> QED BY <1>8, <3>2, <4>1, PoolFacts
    <3> QED BY <3>1, <3>2
  <2> QED BY <2>1, <2>2, <2>3, <2>4, <2>5 DEF BlocksOK
<1> QED BY <1>8, <1>9, <1>12 DEF WF, Removed, h, p

(* ... and with the pool unsealed when its last block went.                *)
LEMMA TakeAwayOK ==
    ASSUME NEW m, WF(m), NEW b \in DOMAIN m.header, NEW n, n = TakeAway(m, b)
    PROVE  /\ WF(n)
           /\ Removed(m, n, b)
           /\ m.unsealed \subseteq n.unsealed
           /\ n.unsealed \subseteq m.unsealed \cup {b[1]}
           /\ ~ IsLast(m, b) => n.unsealed = m.unsealed
<1> DEFINE k == Drop(m, b)
<1>1. WF(k) /\ Removed(m, k, b) /\ k.unsealed = m.unsealed
      /\ k.pool[b[1]].sealed = m.pool[b[1]].sealed
  BY DropOK
<1>2. b[1] \in DOMAIN k.pool
  BY <1>1, BlockFacts DEF Removed
<1>3. n = IF IsLast(m, b) /\ m.pool[b[1]].sealed THEN pool_unseal(k, b[1]) ELSE k
  BY DEF TakeAway
<1> HIDE DEF k
<1>4. CASE ~ (IsLast(m, b) /\ m.pool[b[1]].sealed)
  BY <1>1, <1>3, <1>4
<1>5. CASE IsLast(m, b) /\ m.pool[b[1]].sealed
  <2>1. n = pool_unseal(k, b[1])
    BY <1>3, <1>5
  <2>2. k.pool[b[1]].sealed
    BY <1>1, <1>5, Zenon
  <2>3. WF(n) /\ SameSpace(k, n) /\ n.max_pad = k.max_pad /\ n.unsealed = k.unsealed \cup {b[1]}
    BY <1>1, <1>2, <2>1, <2>2, UnsealOK
  <2>4. n.header = WithoutHeader(m, b)
    BY <1>1, <2>3 DEF Removed, SameSpace
  <2>5. IsLast(m, b)
    BY <1>5
  <2>6. Removed(m, n, b)
    BY <1>1, <2>3, <2>4, <2>5 DEF Removed, SameSpace
  <2> QED BY <1>1, <2>3, <2>5, <2>6
<1> QED BY <1>4, <1>5

(* Steps on an empty pool p leave the blocks alone.                        *)
LEMMA RewindOK ==
    ASSUME NEW m, WF(m), NEW p \in DOMAIN m.pool, m.pool[p].n_alloc = 0,
           NEW n, n = Rewind(m, p)
    PROVE  /\ WF(n)
           /\ n.header = m.header
           /\ n.unsealed = m.unsealed
           /\ n.max_pad = m.max_pad
           /\ DOMAIN n.pool = DOMAIN m.pool
           /\ n.pool[p].size = m.pool[p].size
           /\ n.pool[p].n_alloc = 0
           /\ n.pool[p].sealed = m.pool[p].sealed
           /\ \A q \in DOMAIN m.pool \ {p} : n.pool[q] = m.pool[q]
<1>1. /\ m.pool[p].offset \in Nat
      /\ m.pool[p].size \in Nat
      /\ 8 <= m.pool[p].offset
      /\ m.pool[p].offset <= m.pool[p].size
      /\ IsFiniteSet(BlocksOf(m, p))
      /\ Cardinality(BlocksOf(m, p)) = 0
  BY PoolFacts DEF InitOffset
<1>2. BlocksOf(m, p) = {}
  BY <1>1, FS_EmptySet
<1> DEFINE h == m.header
           e == 8
           z == 0
<1>6. n = Store(m, h, p, e, z)
  BY DEF Rewind, InitOffset
<1>7. e \in Nat /\ z \in Nat
  OBVIOUS
<1> HIDE DEF h, e, z
<1>3. Stored(m, n, h, p, e, z)
  BY <1>6, <1>7, StoreFields
<1> USE DEF h, e, z, Stored
<1>4. /\ Shape(n)
      /\ n.header = h
      /\ PoolsOK(n)
      /\ n.unsealed = m.unsealed
      /\ n.max_pad = m.max_pad
      /\ DOMAIN n.pool = DOMAIN m.pool
      /\ n.pool[p].offset = 8
      /\ n.pool[p].n_alloc = 0
      /\ n.pool[p].size = m.pool[p].size
      /\ n.pool[p].sealed = m.pool[p].sealed
      /\ \A q \in DOMAIN m.pool \ {p} : n.pool[q] = m.pool[q]
  BY <1>3
<1>5. BlocksOK(n)
  <2>1. \A c \in DOMAIN n.header : c[1] # p
    BY <1>2, <1>4 DEF BlocksOf
  <2>2. \A c \in DOMAIN n.header : BlockOK(n, c)
    BY <1>4, <2>1 DEF WF, BlocksOK, BlockOK
  <2>3. \A c, d \in DOMAIN n.header : Apart(n, c, d)
    BY <1>4 DEF WF, BlocksOK, Apart
  <2>4. \A q : BlocksOf(n, q) = BlocksOf(m, q)
    BY <1>4 DEF BlocksOf
  <2>5. ASSUME NEW q \in DOMAIN n.pool
        PROVE  /\ InitOffset <= n.pool[q].offset
               /\ n.pool[q].offset <= n.pool[q].size
               /\ n.pool[q].offset % 16 = 8
               /\ n.pool[q].n_alloc = Cardinality(BlocksOf(n, q))
    <3>1. CASE q = p
      BY <1>1, <1>4, <2>4, <3>1 DEF InitOffset
    <3>2. CASE q # p
      BY <1>4, <2>4, <3>2, PoolFacts
    <3> QED BY <3>1, <3>2
  <2> QED BY <1>4, <2>2, <2>3, <2>5 DEF WF, BlocksOK
<1> QED BY <1>4, <1>5 DEF WF

(* An empty pool that is on no list goes back to the system.               *)
LEMMA DiscardOK ==
    ASSUME NEW m, WF(m), NEW p \in DOMAIN m.pool \ m.unsealed, m.pool[p].n_alloc = 0,
           NEW n, n = Discard(m, p)
    PROVE  /\ WF(n)
           /\ n.header = m.header
           /\ n.unsealed = m.unsealed
           /\ n.max_pad = m.max_pad
           /\ DOMAIN n.pool = DOMAIN m.pool \ {p}
           /\ \A q \in DOMAIN n.pool : n.pool[q] = m.pool[q]
<1>1. /\ Shape(n)
      /\ n.header = m.header
      /\ n.pool = [q \in DOMAIN m.pool \ {p} |-> m.pool[q]]
      /\ n.unsealed = m.unsealed
      /\ n.ahead = m.ahead
      /\ n.unsealed_count = m.unsealed_count
      /\ n.pool_count = m.pool_count - 1
      /\ n.max_pad = m.max_pad
      /\ n.max_unsealed = m.max_unsealed
  BY DEF Discard, WF, Shape, Fields
<1>2. BlocksOf(m, p) = {}
  BY PoolFacts, FS_EmptySet
<1>3. \A c \in DOMAIN m.header : c[1] # p
  BY <1>2 DEF BlocksOf
<1>4. PoolsOK(n)
  <2>1. /\ IsFiniteSet(DOMAIN m.pool \ {p})
        /\ Cardinality(DOMAIN m.pool \ {p}) = Cardinality(DOMAIN m.pool) - 1
    BY FS_RemoveElement DEF WF, PoolsOK
  <2>2. n.pool_count = Cardinality(DOMAIN n.pool) /\ IsFiniteSet(DOMAIN n.pool)
    BY <1>1, <2>1 DEF WF, PoolsOK
  <2>3. n.pool \in [DOMAIN n.pool -> PoolRecord]
    BY <1>1 DEF WF, PoolsOK
  <2>4. \A q \in DOMAIN n.pool : n.pool[q].sealed <=> q \notin n.unsealed
    BY <1>1 DEF WF, PoolsOK
  <2> QED BY <1>1, <2>2, <2>3, <2>4 DEF WF, PoolsOK
<1>5. BlocksOK(n)
  <2>1. \A c \in DOMAIN n.header : BlockOK(n, c)
    BY <1>1, <1>3 DEF WF, BlocksOK, BlockOK
  <2>2. \A c, d \in DOMAIN n.header : Apart(n, c, d)
    BY <1>1 DEF WF, BlocksOK, Apart
  <2>3. \A q : BlocksOf(n, q) = BlocksOf(m, q)
    BY <1>1 DEF BlocksOf
  <2> QED BY <1>1, <2>1, <2>2, <2>3 DEF WF, BlocksOK
<1> QED BY <1>1, <1>4, <1>5 DEF WF

(* pool_free() of an empty pool, on the list or not.                       *)
LEMMA PoolFreeOK ==
    ASSUME NEW m, WF(m), NEW p \in DOMAIN m.pool, m.pool[p].n_alloc = 0,
           NEW n, n = pool_free(m, p)
    PROVE  /\ WF(n)
           /\ n.header = m.header
           /\ n.unsealed = m.unsealed \ {p}
           /\ n.max_pad = m.max_pad
           /\ DOMAIN n.pool = DOMAIN m.pool \ {p}
           /\ \A q \in DOMAIN n.pool : /\ n.pool[q].size = m.pool[q].size
                                       /\ n.pool[q].n_alloc = m.pool[q].n_alloc
                                       /\ n.pool[q].offset = m.pool[q].offset
<1> DEFINE k == IF m.pool[p].sealed THEN m ELSE pool_seal(m, p)
<1>1. n = Discard(k, p)
  BY DEF pool_free
<1>2. m.pool[p].sealed <=> p \notin m.unsealed
  BY DEF WF, PoolsOK
<1>3. /\ WF(k)
      /\ SameSpace(m, k)
      /\ k.max_pad = m.max_pad
      /\ k.unsealed = m.unsealed \ {p}
  <2>1. CASE p \in m.unsealed
    <3>1. k = pool_seal(m, p)
      BY <1>2, <2>1
    <3> QED BY <2>1, <3>1, SealOK
  <2>2. CASE p \notin m.unsealed
    <3>1. k = m
      BY <1>2, <2>2
    <3> QED BY <2>2, <3>1 DEF SameSpace
  <2> QED BY <2>1, <2>2
<1> HIDE DEF k
<1>4. p \in DOMAIN k.pool \ k.unsealed /\ k.pool[p].n_alloc = 0
  BY <1>3 DEF SameSpace
<1>5. /\ WF(n)
      /\ n.header = k.header
      /\ n.unsealed = k.unsealed
      /\ n.max_pad = k.max_pad
      /\ DOMAIN n.pool = DOMAIN k.pool \ {p}
      /\ \A q \in DOMAIN n.pool : n.pool[q] = k.pool[q]
  BY <1>1, <1>3, <1>4, DiscardOK
<1> QED BY <1>3, <1>5 DEF SameSpace

(* An empty pool that is recycled is on the list afterwards, or gone.      *)
LEMMA RecycleOK ==
    ASSUME NEW m, WF(m), NEW p \in DOMAIN m.pool, m.pool[p].n_alloc = 0,
           SealedNotEmpty(m, {p}), NEW n, n = Recycle(m, p)
    PROVE  /\ WF(n)
           /\ SealedNotEmpty(n, {})
           /\ n.header = m.header
           /\ n.max_pad = m.max_pad
           /\ DOMAIN n.pool \subseteq DOMAIN m.pool
           /\ SizesKept(m, n)
           /\ n.unsealed \subseteq m.unsealed \cup {p}
           /\ \A q \in DOMAIN m.pool \ {p} : /\ q \in DOMAIN n.pool
                                             /\ n.pool[q].offset = m.pool[q].offset
<1> DEFINE k == Rewind(m, p)
<1>1. /\ WF(k)
      /\ k.header = m.header
      /\ k.unsealed = m.unsealed
      /\ k.max_pad = m.max_pad
      /\ DOMAIN k.pool = DOMAIN m.pool
      /\ k.pool[p].size = m.pool[p].size
      /\ k.pool[p].n_alloc = 0
      /\ k.pool[p].sealed = m.pool[p].sealed
      /\ \A q \in DOMAIN m.pool \ {p} : k.pool[q] = m.pool[q]
  BY RewindOK
<1>2. n = IF m.unsealed_count + 1 > m.max_unsealed THEN pool_free(k, p)
          ELSE IF m.pool[p].sealed THEN pool_unseal(k, p) ELSE k
  BY DEF Recycle
<1> HIDE DEF k
<1>3. m.pool[p].sealed <=> p \notin m.unsealed
  BY DEF WF, PoolsOK
<1>4. CASE n = pool_free(k, p)
  <2>1. /\ WF(n)
        /\ n.header = k.header
        /\ n.unsealed = k.unsealed \ {p}
        /\ n.max_pad = k.max_pad
        /\ DOMAIN n.pool = DOMAIN k.pool \ {p}
        /\ \A q \in DOMAIN n.pool : /\ n.pool[q].size = k.pool[q].size
                                    /\ n.pool[q].n_alloc = k.pool[q].n_alloc
                                    /\ n.pool[q].offset = k.pool[q].offset
    BY <1>1, <1>4, PoolFreeOK
  <2> QED BY <1>1, <2>1 DEF SealedNotEmpty, SizesKept
<1>5. CASE n = pool_unseal(k, p) /\ m.pool[p].sealed
  <2>1. k.pool[p].sealed
    BY <1>1, <1>5, Zenon
  <2>2. WF(n) /\ SameSpace(k, n) /\ n.max_pad = k.max_pad /\ n.unsealed = k.unsealed \cup {p}
    BY <1>1, <1>5, <2>1, UnsealOK
  <2> QED BY <1>1, <2>2 DEF SealedNotEmpty, SizesKept, SameSpace
<1>6. CASE n = k /\ ~ m.pool[p].sealed
  BY <1>1, <1>3, <1>6 DEF SealedNotEmpty, SizesKept
<1> QED BY <1>2, <1>4, <1>5, <1>6

(* mpa_free(): no sealed pool is left empty, and no other block loses the  *)
(* end of its pool.                                                        *)
LEMMA FreeOK ==
    ASSUME NEW m, WF(m), SealedNotEmpty(m, {}), NEW b \in DOMAIN m.header,
           NEW n, n = mpa_free(m, b)
    PROVE  /\ WF(n)
           /\ SealedNotEmpty(n, {})
           /\ n.header = WithoutHeader(m, b)
           /\ n.max_pad = m.max_pad
           /\ DOMAIN n.pool \subseteq DOMAIN m.pool
           /\ SizesKept(m, n)
           /\ \A c \in DOMAIN m.header \ {b} : Held(m, c) => StillHeld(m, n, c)
<1> DEFINE k == TakeAway(m, b)
<1>1. /\ WF(k)
      /\ Removed(m, k, b)
      /\ m.unsealed \subseteq k.unsealed
      /\ k.unsealed \subseteq m.unsealed \cup {b[1]}
      /\ ~ IsLast(m, b) => k.unsealed = m.unsealed
  BY TakeAwayOK
<1>2. n = IF k.pool[b[1]].n_alloc = 0 THEN Recycle(k, b[1]) ELSE k
  BY DEF mpa_free
<1> HIDE DEF k
<1>3. b[1] \in DOMAIN k.pool
  BY <1>1, BlockFacts DEF Removed
<1>4. SealedNotEmpty(k, {b[1]})
  BY <1>1 DEF SealedNotEmpty, Removed
<1>7. ASSUME NEW c \in DOMAIN m.header \ {b}, Held(m, c)
      PROVE  /\ StillHeld(m, k, c)
             /\ c[1] = b[1] => k.pool[b[1]].n_alloc # 0
  <2>1. c[1] \in DOMAIN m.pool /\ c \in DOMAIN k.header /\ k.header[c] = m.header[c]
    BY <1>1, BlockFacts DEF Removed, WithoutHeader
  <2>2. CASE c[1] # b[1]
    BY <1>1, <1>7, <2>1, <2>2 DEF Removed, Held, StillHeld
  <2>3. CASE c[1] = b[1]
    <3>1. ~ IsLast(m, b)
      BY <1>7, <2>3, HeldOnce DEF Held
    <3>2. k.pool[b[1]].n_alloc # 0
      <4>1. c \in BlocksOf(k, b[1])
        BY <2>1, <2>3 DEF BlocksOf
      <4>2. /\ IsFiniteSet(BlocksOf(k, b[1]))
            /\ k.pool[b[1]].n_alloc = Cardinality(BlocksOf(k, b[1]))
        BY <1>1, <1>3, PoolFacts
      <4> QED BY <4>1, <4>2, FS_EmptySet
    <3> QED BY <1>1, <1>7, <2>1, <2>3, <3>1, <3>2 DEF Removed, Held, StillHeld
  <2> QED BY <2>2, <2>3
<1>5. CASE k.pool[b[1]].n_alloc = 0
  <2>1. n = Recycle(k, b[1])
    BY <1>2, <1>5
  <2>2. /\ WF(n)
        /\ SealedNotEmpty(n, {})
        /\ n.header = k.header
        /\ n.max_pad = k.max_pad
        /\ DOMAIN n.pool \subseteq DOMAIN k.pool
        /\ SizesKept(k, n)
        /\ n.unsealed \subseteq k.unsealed \cup {b[1]}
        /\ \A q \in DOMAIN k.pool \ {b[1]} : /\ q \in DOMAIN n.pool
                                             /\ n.pool[q].offset = k.pool[q].offset
    BY <1>1, <1>3, <1>4, <1>5, <2>1, RecycleOK
  <2>3. ASSUME NEW c \in DOMAIN m.header \ {b}, Held(m, c)
        PROVE  StillHeld(m, n, c)
    <3>1. StillHeld(m, k, c) /\ c[1] # b[1] /\ c[1] \in DOMAIN k.pool
      BY <1>1, <1>5, <1>7, <2>3, BlockFacts DEF Removed
    <3> QED BY <2>2, <3>1 DEF StillHeld, SizesKept
  <2>4. SizesKept(m, n)
    BY <1>1, <2>2 DEF Removed, SizesKept
  <2> QED BY <1>1, <2>2, <2>3, <2>4 DEF Removed
<1>6. CASE k.pool[b[1]].n_alloc # 0
  <2>1. n = k
    BY <1>2, <1>6
  <2>2. k.pool[b[1]].n_alloc > 0
    BY <1>1, <1>3, <1>6, PoolFacts
  <2>3. \A c \in DOMAIN m.header \ {b} : Held(m, c) => StillHeld(m, n, c)
    BY <1>7, <2>1
  <2> QED BY <1>1, <1>4, <2>1, <2>2, <2>3 DEF Removed, SizesKept, SealedNotEmpty
<1> QED BY <1>5, <1>6

(* check_unseal() changes the list alone, and puts no other pool on it.    *)
LEMMA CheckUnsealOK ==
    ASSUME NEW m, WF(m), SealedNotEmpty(m, {}), NEW p \in DOMAIN m.pool,
           NEW n, n = check_unseal(m, p)
    PROVE  /\ WF(n)
           /\ SealedNotEmpty(n, {})
           /\ n.header = m.header
           /\ n.max_pad = m.max_pad
           /\ DOMAIN n.pool = DOMAIN m.pool
           /\ SizesKept(m, n)
           /\ \A c \in DOMAIN m.header :
                 Held(m, c) /\ (c[1] = p => ~ Reopens(m, p)) => StillHeld(m, n, c)
<1>1. CASE Reopens(m, p)
  <2>1. n = pool_unseal(m, p) /\ m.pool[p].sealed
    BY <1>1 DEF check_unseal, Reopens
  <2>2. WF(n) /\ SameSpace(m, n) /\ n.max_pad = m.max_pad /\ n.unsealed = m.unsealed \cup {p}
    BY <2>1, UnsealOK
  <2>3. ASSUME NEW c \in DOMAIN m.header, Held(m, c), c[1] # p
        PROVE  StillHeld(m, n, c)
    BY <2>2, <2>3, BlockFacts DEF Held, StillHeld, SameSpace
  <2> QED BY <1>1, <2>2, <2>3 DEF SealedNotEmpty, SizesKept, SameSpace
<1>2. CASE ~ Reopens(m, p)
  BY <1>2 DEF SizesKept, check_unseal, Held, StillHeld
<1> QED BY <1>1, <1>2

(* The last block of a pool resized in place stays apart from the others   *)
(* and keeps the end of the pool.                                          *)
LEMMA ResizeOK ==
    ASSUME NEW m, WF(m), SealedNotEmpty(m, {}), NEW b \in DOMAIN m.header,
           NEW size \in Nat, size > 0, size % 16 = 0, FitsInPlace(m, b, size),
           NEW n, n = Resize(m, b, size)
    PROVE  /\ WF(n)
           /\ SealedNotEmpty(n, {})
           /\ n.header = WithHeader(m, b, size)
           /\ n.max_pad = m.max_pad
           /\ DOMAIN n.pool = DOMAIN m.pool
           /\ SizesKept(m, n)
           /\ n.unsealed = m.unsealed
           /\ IsLast(n, b)
           /\ \A c \in DOMAIN m.header \ {b} : Held(m, c) => StillHeld(m, n, c)
<1> DEFINE p == b[1]
           e == m.pool[p].offset + size - m.header[b]
           k == m.pool[p].n_alloc
           h == WithHeader(m, b, size)
<1>1. /\ p \in DOMAIN m.pool
      /\ b[2] \in Nat
      /\ b[2] % 16 = 8
      /\ b[2] >= 8
      /\ m.header[b] \in Nat
      /\ m.header[b] > 0
      /\ m.pool[p].offset \in Nat
      /\ m.pool[p].size \in Nat
      /\ k \in Nat
  BY BlockFacts, PoolFacts DEF InitOffset
<1>2. m.pool[p].offset = b[2] + m.header[b]
  BY <1>1 DEF FitsInPlace, IsLast
<1>3. e = b[2] + size /\ e \in Nat /\ e % 16 = 8 /\ 8 <= e /\ e <= m.pool[p].size
  BY <1>1, <1>2 DEF FitsInPlace, Room
<1>4. n = Store(m, h, p, e, k)
  BY DEF Resize
<1>5. /\ DOMAIN h = DOMAIN m.header
      /\ h[b] = size
      /\ \A c \in DOMAIN m.header \ {b} : h[c] = m.header[c]
      /\ h = [c \in DOMAIN h |-> h[c]]
  BY DEF WithHeader
<1>6. ASSUME NEW c \in DOMAIN m.header \ {b}, c[1] = p
      PROVE  c[2] + m.header[c] <= b[2]
  <2>1. /\ c[2] \in Nat
        /\ m.header[c] \in Nat
        /\ m.header[c] > 0
        /\ c[2] + m.header[c] <= m.pool[p].offset
    BY <1>6, BlockFacts
  <2>2. Apart(m, b, c)
    BY DEF WF, BlocksOK
  <2> QED BY <1>1, <1>2, <1>6, <2>1, <2>2 DEF Apart
<1>7. e \in Nat /\ k \in Nat /\ p \in DOMAIN m.pool
  BY <1>1, <1>3
<1> HIDE DEF p, e, k, h
<1>12. Stored(m, n, h, p, e, k)
  BY <1>4, <1>7, StoreFields
<1>8. /\ Shape(n)
      /\ PoolsOK(n)
      /\ n.header = h
      /\ n.unsealed = m.unsealed
      /\ n.max_pad = m.max_pad
      /\ DOMAIN n.pool = DOMAIN m.pool
      /\ n.pool[p].offset = e
      /\ n.pool[p].n_alloc = k
      /\ n.pool[p].size = m.pool[p].size
      /\ \A q \in DOMAIN m.pool \ {p} : n.pool[q] = m.pool[q]
  BY <1>12 DEF Stored
<1>9. BlocksOK(n)
  <2>1. /\ DOMAIN n.header \subseteq Block
        /\ IsFiniteSet(DOMAIN n.header)
        /\ n.header \in [DOMAIN n.header -> Nat]
    BY <1>5, <1>8 DEF WF, BlocksOK
  <2>2. ASSUME NEW c \in DOMAIN n.header
        PROVE  BlockOK(n, c) /\ c[2] % 16 = 8 /\ n.header[c] % 16 = 0
    <3>1. CASE c = b
      BY <1>1, <1>3, <1>5, <1>8, <3>1 DEF BlockOK, p, InitOffset
    <3>2. CASE c # b /\ c[1] = p
      <4>1. /\ c \in DOMAIN m.header
            /\ n.header[c] = m.header[c]
        BY <1>5, <1>8, <3>2
      <4>2. c[2] + m.header[c] <= b[2]
        BY <1>6, <3>2, <4>1
      <4> QED BY <1>1, <1>3, <1>8, <3>2, <4>1, <4>2, BlockFacts DEF BlockOK
    <3>3. CASE c # b /\ c[1] # p
      BY <1>5, <1>8, <3>3, BlockFacts DEF BlockOK
    <3> QED BY <3>1, <3>2, <3>3
  <2>3. ASSUME NEW c \in DOMAIN n.header, NEW d \in DOMAIN n.header
        PROVE  Apart(n, c, d)
    <3>1. CASE c = b /\ d # b
      BY <1>5, <1>6, <1>8, <3>1 DEF Apart, p
    <3>2. CASE c # b /\ d = b
      BY <1>5, <1>6, <1>8, <3>2 DEF Apart, p
    <3>3. CASE c # b /\ d # b
      BY <1>5, <1>8, <3>3 DEF Apart, WF, BlocksOK
    <3> QED BY <3>1, <3>2, <3>3 DEF Apart
  <2>4. ASSUME NEW q \in DOMAIN n.pool
        PROVE  /\ InitOffset <= n.pool[q].offset
               /\ n.pool[q].offset <= n.pool[q].size
               /\ n.pool[q].offset % 16 = 8
               /\ n.pool[q].n_alloc = Cardinality(BlocksOf(n, q))
    <3>1. BlocksOf(n, q) = BlocksOf(m, q)
      BY <1>5, <1>8 DEF BlocksOf
    <3>2. CASE q = p
      BY <1>1, <1>3, <1>8, <3>1, <3>2, PoolFacts DEF InitOffset, k
    <3>3. CASE q # p
      BY <1>8, <3>1, <3>3, PoolFacts
    <3> QED BY <3>2, <3>3
  <2> QED BY <2>1, <2>2, <2>3, <2>4 DEF BlocksOK
<1>10. SealedNotEmpty(n, {})
  BY <1>8 DEF SealedNotEmpty, k
<1>11. SizesKept(m, n)
  BY <1>8 DEF SizesKept
<1>13. IsLast(n, b)
  BY <1>1, <1>3, <1>5, <1>8 DEF IsLast, p
<1>14. ASSUME NEW c \in DOMAIN m.header \ {b}, Held(m, c)
       PROVE  StillHeld(m, n, c)
  <2>1. c[1] # p /\ c[1] \in DOMAIN m.pool
    BY <1>14, HeldOnce, BlockFacts DEF Held, FitsInPlace, p
  <2> QED BY <1>5, <1>8, <1>14, <2>1 DEF Held, StillHeld
<1> QED BY <1>8, <1>9, <1>10, <1>11, <1>13, <1>14 DEF WF, h

(* mpa_set_seal_max_pad(): small pools are sealed, or freed when empty.    *)
LEMMA SetSealOK ==
    ASSUME NEW m, WF(m), SealedNotEmpty(m, {}), NEW pad \in Nat, NEW limit \in Nat,
           NEW n, n = mpa_set_seal_max_pad(m, pad, limit)
    PROVE  /\ WF(n)
           /\ SealedNotEmpty(n, {})
           /\ n.header = m.header
           /\ DOMAIN n.pool \subseteq DOMAIN m.pool
           /\ SizesKept(m, n)
           /\ \A c \in DOMAIN m.header : Held(m, c) => StillHeld(m, n, c)
<1> DEFINE small == {p \in m.unsealed : m.pool[p].size < pad + m.pool[p].offset}
           empty == {p \in small : m.pool[p].n_alloc = 0}
<1>1. /\ Shape(n)
      /\ n.header = m.header
      /\ n.unsealed = m.unsealed \ small
      /\ n.ahead = {e \in m.ahead : e[1] \notin small /\ e[2] \notin small}
      /\ n.unsealed_count = m.unsealed_count - Cardinality(small)
      /\ n.pool_count = m.pool_count - Cardinality(empty)
      /\ n.max_pad = pad
      /\ n.max_unsealed = limit
      /\ n.pool = [p \in DOMAIN m.pool \ empty |->
                     IF p \in small THEN [m.pool[p] EXCEPT !.sealed = TRUE] ELSE m.pool[p]]
  BY DEF mpa_set_seal_max_pad, Unlink, WF, Shape, Fields
<1>2. small \subseteq m.unsealed /\ empty \subseteq small /\ m.unsealed \subseteq DOMAIN m.pool
  BY DEF WF, PoolsOK
<1>3. \A p \in small \ empty : m.pool[p].n_alloc > 0
  BY <1>2, PoolFacts
<1>4. \A p \in empty : BlocksOf(m, p) = {}
  BY <1>2, PoolFacts, FS_EmptySet
<1> HIDE DEF small, empty
<1>5. /\ DOMAIN n.pool = DOMAIN m.pool \ empty
      /\ \A p \in DOMAIN n.pool : n.pool[p] \in PoolRecord
      /\ \A p \in DOMAIN n.pool : /\ n.pool[p].offset = m.pool[p].offset
                                  /\ n.pool[p].size = m.pool[p].size
                                  /\ n.pool[p].n_alloc = m.pool[p].n_alloc
  <2>1. DOMAIN n.pool = DOMAIN m.pool \ empty
    BY <1>1
  <2>2. ASSUME NEW p \in DOMAIN n.pool
        PROVE  /\ n.pool[p] \in PoolRecord
               /\ n.pool[p].offset = m.pool[p].offset
               /\ n.pool[p].size = m.pool[p].size
               /\ n.pool[p].n_alloc = m.pool[p].n_alloc
    <3>1. m.pool[p] \in PoolRecord
      BY <2>1 DEF WF, PoolsOK
    <3>2. CASE n.pool[p] = m.pool[p]
      BY <3>1, <3>2
    <3>3. CASE n.pool[p] = [m.pool[p] EXCEPT !.sealed = TRUE]
      BY <3>1, <3>3 DEF PoolRecord
    <3>4. n.pool[p] = m.pool[p] \/ n.pool[p] = [m.pool[p] EXCEPT !.sealed = TRUE]
      BY <1>1, <2>1
    <3> QED BY <3>2, <3>3, <3>4
  <2> QED BY <2>1, <2>2
<1>6. \A p \in DOMAIN n.pool : n.pool[p].sealed <=> p \notin n.unsealed
  <2>1. ASSUME NEW p \in DOMAIN n.pool, p \in small
        PROVE  n.pool[p].sealed <=> p \notin n.unsealed
    <3>1. n.pool[p] = [m.pool[p] EXCEPT !.sealed = TRUE] /\ m.pool[p] \in PoolRecord
      BY <1>1, <2>1 DEF WF, PoolsOK
    <3> QED BY <1>1, <2>1, <3>1 DEF PoolRecord
  <2>2. ASSUME NEW p \in DOMAIN n.pool, p \notin small
        PROVE  n.pool[p].sealed <=> p \notin n.unsealed
    <3>1. n.pool[p] = m.pool[p] /\ p \in DOMAIN m.pool
      BY <1>1, <2>2
    <3> QED BY <1>1, <2>2, <3>1 DEF WF, PoolsOK
  <2> QED BY <2>1, <2>2
<1>7. PoolsOK(n)
  <2>1. IsFiniteSet(m.unsealed) /\ m.unsealed_count = Cardinality(m.unsealed)
    BY FS_Subset DEF WF, PoolsOK
  <2>2. m.unsealed \cap small = small /\ DOMAIN m.pool \cap empty = empty
    BY <1>2
  <2>3. Cardinality(m.unsealed \ small) = Cardinality(m.unsealed) - Cardinality(m.unsealed \cap small)
    BY <2>1, FS_Difference
  <2>4. /\ IsFiniteSet(DOMAIN m.pool \ empty)
        /\ Cardinality(DOMAIN m.pool \ empty) =
             Cardinality(DOMAIN m.pool) - Cardinality(DOMAIN m.pool \cap empty)
    BY FS_Difference DEF WF, PoolsOK
  <2>5. n.unsealed_count = Cardinality(n.unsealed)
    BY <1>1, <2>1, <2>2, <2>3
  <2>6. n.pool_count = Cardinality(DOMAIN n.pool) /\ IsFiniteSet(DOMAIN n.pool)
    BY <1>1, <1>5, <2>2, <2>4 DEF WF, PoolsOK
  <2>7. n.pool \in [DOMAIN n.pool -> PoolRecord]
    BY <1>1, <1>5
  <2>8. n.ahead \subseteq n.unsealed \X n.unsealed
    BY <1>1 DEF WF, PoolsOK
  <2>9. n.unsealed \subseteq DOMAIN n.pool /\ DOMAIN n.pool \subseteq Pools
    BY <1>1, <1>2, <1>5 DEF WF, PoolsOK
  <2> QED BY <1>1, <1>6, <2>5, <2>6, <2>7, <2>8, <2>9 DEF PoolsOK
<1>8. BlocksOK(n)
  <2>1. \A c \in DOMAIN m.header : c[1] \in DOMAIN n.pool
    BY <1>4, <1>5, BlockFacts DEF BlocksOf
  <2>2. \A c \in DOMAIN n.header : BlockOK(n, c)
    BY <1>1, <1>5, <2>1 DEF WF, BlocksOK, BlockOK
  <2>3. \A c, d \in DOMAIN n.header : Apart(n, c, d)
    BY <1>1 DEF WF, BlocksOK, Apart
  <2>4. \A q : BlocksOf(n, q) = BlocksOf(m, q)
    BY <1>1 DEF BlocksOf
  <2> QED BY <1>1, <1>5, <2>2, <2>3, <2>4 DEF WF, BlocksOK
<1>9. SealedNotEmpty(n, {})
  BY <1>1, <1>3, <1>5 DEF SealedNotEmpty
<1>10. ASSUME NEW c \in DOMAIN m.header, Held(m, c)
       PROVE  StillHeld(m, n, c)
  <2>1. c[1] \in DOMAIN m.pool /\ c[1] \notin empty
    BY <1>2, <1>10, BlockFacts DEF Held
  <2> QED BY <1>1, <1>5, <1>10, <2>1 DEF Held, StillHeld
<1> QED BY <1>1, <1>5, <1>7, <1>8, <1>9, <1>10 DEF WF, SizesKept

(* round_size() gives multiples of the alignment that hold the header.     *)
LEMMA RoundSizeOK ==
    ASSUME NEW size \in Nat
    PROVE  /\ RoundSize(size) \in Nat
           /\ RoundSize(size) > 0
           /\ RoundSize(size) % 16 = 0
<1> DEFINE k == (size + 8 + 16 - 1) \div 16
<1>1. k \in Nat /\ k > 0
  OBVIOUS
<1>2. RoundSize(size) = k * 16
  BY DEF RoundSize, HeaderSize, Alignment
<1> HIDE DEF k
<1> QED BY <1>1, <1>2

(* mpa_init() starts well formed.                                          *)
LEMMA EmptyOK == WF(EmptyMultipool) /\ SealedNotEmpty(EmptyMultipool, {})
<1> DEFINE m == EmptyMultipool
<1>1. /\ Shape(m)
      /\ DOMAIN m.pool = {}
      /\ m.pool = [p \in DOMAIN m.pool |-> m.pool[p]]
      /\ DOMAIN m.header = {}
      /\ m.header = [p \in DOMAIN m.header |-> m.header[p]]
      /\ m.unsealed = {}
      /\ m.ahead = {}
      /\ m.unsealed_count = 0
      /\ m.pool_count = 0
      /\ m.max_pad = 0
      /\ m.max_unsealed = 0
  BY DEF EmptyMultipool, Shape, Fields
<1>2. IsFiniteSet({}) /\ Cardinality({}) = 0
  BY FS_EmptySet
<1> HIDE DEF m
<1>3. PoolsOK(m)
  <2>1. m.pool \in [DOMAIN m.pool -> PoolRecord]
    BY <1>1
  <2>2. /\ m.unsealed_count = Cardinality(m.unsealed)
        /\ m.pool_count = Cardinality(DOMAIN m.pool)
        /\ IsFiniteSet(DOMAIN m.pool)
    BY <1>1, <1>2
  <2>3. /\ m.unsealed \subseteq DOMAIN m.pool
        /\ DOMAIN m.pool \subseteq Pools
        /\ m.ahead \subseteq m.unsealed \X m.unsealed
        /\ \A p \in DOMAIN m.pool : m.pool[p].sealed <=> p \notin m.unsealed
    BY <1>1
  <2> QED BY <1>1, <2>1, <2>2, <2>3 DEF PoolsOK
<1>4. BlocksOK(m)
  <2>1. m.header \in [DOMAIN m.header -> Nat]
    BY <1>1
  <2> QED BY <1>1, <1>2, <2>1 DEF BlocksOK
<1> QED BY <1>1, <1>3, <1>4 DEF WF, SealedNotEmpty, m

----------------------------------------------------------------------------
(* The inductive invariant: the allocator is well formed, no sealed pool   *)
(* is empty, and promises are about live blocks and are kept.              *)
Consistent == WF(mp) /\ SealedNotEmpty(mp, {})

Promised ==
    /\ promise \in [DOMAIN promise -> Nat]
    /\ DOMAIN promise \subseteq DOMAIN mp.header
    /\ given \subseteq DOMAIN promise
    /\ GrowsInPlace

IInv == Consistent /\ Promised

(* What is left of GrowsInPlace for one block in a state m.                *)
Grows(m, c, size) == m.pool[c[1]].sealed /\ FitsInPlace(m, c, size)

(* A block with a promise has the end of its pool to itself.               *)
LEMMA PromiseHeld ==
    ASSUME WF(mp), Promised, NEW c \in DOMAIN promise \ given
    PROVE  c \in DOMAIN mp.header /\ Held(mp, c)
<1>1. c \in DOMAIN mp.header /\ mp.pool[c[1]].sealed /\ IsLast(mp, c)
  BY DEF Promised, GrowsInPlace, FitsInPlace
<1>2. c[1] \in DOMAIN mp.pool
  BY <1>1, BlockFacts
<1> QED BY <1>1, <1>2 DEF Held, WF, PoolsOK

(* It grows as far as it did where it still has it.                        *)
LEMMA HeldGrows ==
    ASSUME NEW m, WF(m), NEW n, WF(n), NEW c, NEW size \in Nat,
           Grows(m, c, size), StillHeld(m, n, c)
    PROVE  Grows(n, c, size)
<1>1. c[1] \in DOMAIN n.pool
  BY BlockFacts DEF StillHeld
<1>2. n.pool[c[1]].sealed
  BY <1>1 DEF StillHeld, WF, PoolsOK
<1> QED BY <1>2 DEF Grows, FitsInPlace, IsLast, Room, StillHeld

(* ... through two steps in a row.                                         *)
LEMMA HeldTwice ==
    ASSUME NEW m, NEW k, NEW n, NEW c, Held(m, c), StillHeld(m, k, c)
    PROVE  Held(k, c) /\ (StillHeld(k, n, c) => StillHeld(m, n, c))
BY DEF Held, StillHeld, IsLast

(* A step that makes no new promise keeps the others, if each block that   *)
(* has one and is not given up still has its room.                         *)
LEMMA PromisesKept ==
    ASSUME WF(mp), WF(mp'), Promised,
           DOMAIN promise' \subseteq DOMAIN promise,
           promise' = [c \in DOMAIN promise' |-> promise[c]],
           DOMAIN promise' \subseteq DOMAIN mp.header',
           given' \subseteq DOMAIN promise',
           given \cap DOMAIN promise' \subseteq given',
           \A c \in DOMAIN promise' \ given' :
              Held(mp, c) => StillHeld(mp, mp', c) \/ Grows(mp', c, promise[c])
    PROVE  Promised'
<1>1. promise' \in [DOMAIN promise' -> Nat]
  BY DEF Promised
<1>2. ASSUME NEW c \in DOMAIN promise' \ given'
      PROVE  Grows(mp', c, promise'[c])
  <2>1. c \in DOMAIN promise \ given /\ promise'[c] = promise[c] /\ promise[c] \in Nat
    BY <1>2 DEF Promised
  <2>2. Held(mp, c) /\ Grows(mp, c, promise[c])
    BY <2>1, PromiseHeld DEF Promised, GrowsInPlace, Grows
  <2> QED BY <2>1, <2>2, HeldGrows
<1> QED BY <1>1, <1>2 DEF Promised, GrowsInPlace, Grows

(* The steps of the specification keep the invariant, one by one.          *)
LEMMA AllocInv == ASSUME IInv, NEW size \in Nat, Alloc(size) PROVE IInv'
<1> DEFINE k == RoundSize(size)
<1>1. k \in Nat /\ k > 0 /\ k % 16 = 0
  BY RoundSizeOK
<1>2. PICK r \in mpa_alloc(mp, k) :
        /\ mp' = r.mp
        /\ promise' = [c \in DOMAIN promise \cup {r.ptr} |->
                         IF c = r.ptr THEN mp.max_pad ELSE promise[c]]
        /\ given' = given
  BY DEF Alloc
<1> HIDE DEF k
<1>3. /\ WF(r.mp)
      /\ SealedNotEmpty(r.mp, {})
      /\ r.ptr \notin DOMAIN mp.header
      /\ r.mp.header = WithHeader(mp, r.ptr, k)
      /\ Held(r.mp, r.ptr) /\ FitsInPlace(r.mp, r.ptr, mp.max_pad)
      /\ \A c \in DOMAIN mp.header : Held(mp, c) => StillHeld(mp, r.mp, c)
  BY <1>1, AllocOK DEF IInv, Consistent
<1>4. Consistent'
  BY <1>2, <1>3 DEF Consistent
<1>5. DOMAIN mp.header' = DOMAIN mp.header \cup {r.ptr}
  BY <1>2, <1>3 DEF WithHeader
<1>6. mp.max_pad \in Nat
  BY DEF IInv, Consistent, WF, PoolsOK
<1>7. /\ promise' \in [DOMAIN promise' -> Nat]
      /\ DOMAIN promise' \subseteq DOMAIN mp.header'
      /\ given' \subseteq DOMAIN promise'
  BY <1>2, <1>5, <1>6 DEF IInv, Promised
<1>8. ASSUME NEW c \in DOMAIN promise' \ given'
      PROVE  Grows(mp', c, promise'[c])
  <2>1. CASE c = r.ptr
    <3>1. c[1] \in DOMAIN mp'.pool /\ c[1] \notin mp'.unsealed
      BY <1>2, <1>3, <1>4, <1>5, <2>1, BlockFacts DEF Held, Consistent
    <3>2. mp'.pool[c[1]].sealed
      BY <1>4, <3>1 DEF Consistent, WF, PoolsOK
    <3> QED BY <1>2, <1>3, <2>1, <3>2 DEF Grows
  <2>2. CASE c # r.ptr
    <3>1. c \in DOMAIN promise \ given /\ promise'[c] = promise[c] /\ promise[c] \in Nat
      BY <1>2, <1>8, <2>2 DEF IInv, Promised
    <3>2. StillHeld(mp, mp', c) /\ Grows(mp, c, promise[c])
      BY <1>2, <1>3, <3>1, PromiseHeld DEF IInv, Consistent, Promised, GrowsInPlace, Grows
    <3> QED BY <1>4, <3>1, <3>2, HeldGrows DEF IInv, Consistent
  <2> QED BY <2>1, <2>2
<1> QED BY <1>4, <1>7, <1>8 DEF IInv, Promised, GrowsInPlace, Grows

(* mpa_free()                                                              *)
LEMMA FreeInv == ASSUME IInv, NEW b \in DOMAIN mp.header, Free(b) PROVE IInv'
<1>1. /\ mp' = mpa_free(mp, b)
      /\ promise' = [c \in DOMAIN promise \ {b} |-> promise[c]]
      /\ given' = given \ {b}
  BY DEF Free, Forget
<1>2. /\ WF(mp')
      /\ SealedNotEmpty(mp', {})
      /\ mp'.header = WithoutHeader(mp, b)
      /\ \A c \in DOMAIN mp.header \ {b} : Held(mp, c) => StillHeld(mp, mp', c)
  BY <1>1, FreeOK DEF IInv, Consistent
<1>3. /\ DOMAIN promise' \subseteq DOMAIN promise
      /\ promise' = [c \in DOMAIN promise' |-> promise[c]]
      /\ DOMAIN promise' \subseteq DOMAIN mp.header'
      /\ given' \subseteq DOMAIN promise'
      /\ given \cap DOMAIN promise' \subseteq given'
      /\ DOMAIN promise' \subseteq DOMAIN mp.header \ {b}
  BY <1>1, <1>2 DEF WithoutHeader, IInv, Promised
<1> QED BY <1>2, <1>3, PromisesKept DEF IInv, Consistent

(* mpa_pin()                                                               *)
LEMMA PinInv == ASSUME IInv, NEW b \in DOMAIN mp.header, Pin(b) PROVE IInv'
<1>1. /\ mp' = check_unseal(mp, b[1])
      /\ promise' = [c \in DOMAIN promise \ {b} |-> promise[c]]
      /\ given' = (given \cup GivenFor(mp, b)) \ {b}
  BY DEF Pin, Forget
<1>2. b[1] \in DOMAIN mp.pool
  BY BlockFacts DEF IInv, Consistent
<1>3. /\ WF(mp')
      /\ SealedNotEmpty(mp', {})
      /\ mp'.header = mp.header
      /\ \A c \in DOMAIN mp.header :
            Held(mp, c) /\ (c[1] = b[1] => ~ Reopens(mp, b[1])) => StillHeld(mp, mp', c)
  BY <1>1, <1>2, CheckUnsealOK DEF IInv, Consistent
<1>4. /\ DOMAIN promise' \subseteq DOMAIN promise
      /\ promise' = [c \in DOMAIN promise' |-> promise[c]]
      /\ DOMAIN promise' \subseteq DOMAIN mp.header'
      /\ given' \subseteq DOMAIN promise'
      /\ given \cap DOMAIN promise' \subseteq given'
      /\ DOMAIN promise' \subseteq DOMAIN mp.header
  BY <1>1, <1>3 DEF IInv, Promised, GivenFor
<1>5. \A c \in DOMAIN promise' \ given' : c[1] = b[1] => ~ Reopens(mp, b[1])
  BY <1>1, <1>4 DEF GivenFor
<1> QED BY <1>3, <1>4, <1>5, PromisesKept DEF IInv, Consistent

(* mpa_realloc() in place                                                  *)
LEMMA ReallocInPlaceInv ==
    ASSUME IInv, NEW b \in DOMAIN mp.header, NEW size \in Nat, size > 0, size % 16 = 0,
           NEW pin \in BOOLEAN, ReallocInPlace(b, size, pin)
    PROVE  IInv'
<1> DEFINE n == IF FitsInPlace(mp, b, size) THEN Resize(mp, b, size) ELSE mp
<1>1. /\ mp' = IF pin THEN check_unseal(n, b[1]) ELSE n
      /\ promise' = IF pin THEN [c \in DOMAIN promise \ {b} |-> promise[c]] ELSE promise
      /\ given' = IF pin THEN (given \cup GivenFor(n, b)) \ {b} ELSE given
  BY DEF ReallocInPlace, Forget
<1>2. /\ WF(n)
      /\ SealedNotEmpty(n, {})
      /\ DOMAIN n.header = DOMAIN mp.header
      /\ \A c \in DOMAIN mp.header \ {b} : Held(mp, c) => StillHeld(mp, n, c)
      /\ \A room \in Nat : Held(mp, b) /\ Grows(mp, b, room) => Grows(n, b, room)
  <2>1. CASE FitsInPlace(mp, b, size)
    <3>1. n = Resize(mp, b, size)
      BY <2>1
    <3> HIDE DEF n
    <3>2. /\ WF(n)
          /\ SealedNotEmpty(n, {})
          /\ n.header = WithHeader(mp, b, size)
          /\ DOMAIN n.pool = DOMAIN mp.pool
          /\ SizesKept(mp, n)
          /\ n.unsealed = mp.unsealed
          /\ IsLast(n, b)
          /\ \A c \in DOMAIN mp.header \ {b} : Held(mp, c) => StillHeld(mp, n, c)
      BY <2>1, <3>1, ResizeOK DEF IInv, Consistent
    <3>3. DOMAIN n.header = DOMAIN mp.header /\ n.header[b] = size
      BY <3>2 DEF WithHeader
    <3>4. ASSUME NEW room \in Nat, Held(mp, b), Grows(mp, b, room)
          PROVE  Grows(n, b, room)
      <4>1. /\ b[1] \in DOMAIN mp.pool
            /\ b[2] \in Nat
            /\ mp.header[b] \in Nat
            /\ mp.pool[b[1]].size \in Nat
            /\ mp.pool[b[1]].offset \in Nat
            /\ n.pool[b[1]].offset \in Nat
        BY <3>2, <3>3, BlockFacts, PoolFacts DEF IInv, Consistent
      <4>2. n.pool[b[1]].sealed
        BY <3>2, <3>4, <4>1 DEF Held, WF, PoolsOK
      <4>3. n.pool[b[1]].size = mp.pool[b[1]].size
        BY <3>2, <4>1 DEF SizesKept
      <4> QED BY <3>2, <3>3, <3>4, <4>1, <4>2, <4>3 DEF Grows, FitsInPlace, IsLast, Room
    <3> QED BY <3>2, <3>3, <3>4
  <2>2. CASE ~ FitsInPlace(mp, b, size)
    BY <2>2 DEF IInv, Consistent, Held, StillHeld
  <2> QED BY <2>1, <2>2
<1> HIDE DEF n
<1>3. b[1] \in DOMAIN n.pool
  BY <1>2, BlockFacts DEF IInv, Consistent
<1>4. /\ WF(mp')
      /\ SealedNotEmpty(mp', {})
      /\ DOMAIN mp'.header = DOMAIN n.header
  <2>1. CASE pin
    BY <1>1, <1>2, <1>3, <2>1, CheckUnsealOK
  <2>2. CASE ~pin
    BY <1>1, <1>2, <2>2
  <2> QED BY <2>1, <2>2
<1>5. /\ DOMAIN promise' \subseteq DOMAIN promise
      /\ promise' = [c \in DOMAIN promise' |-> promise[c]]
      /\ DOMAIN promise' \subseteq DOMAIN mp.header'
      /\ given' \subseteq DOMAIN promise'
      /\ given \cap DOMAIN promise' \subseteq given'
  BY <1>1, <1>2, <1>4 DEF IInv, Promised, GivenFor
<1>6. ASSUME NEW c \in DOMAIN promise' \ given', Held(mp, c)
      PROVE  StillHeld(mp, mp', c) \/ Grows(mp', c, promise[c])
  <2>1. c \in DOMAIN promise \ given /\ c \in DOMAIN mp.header /\ promise[c] \in Nat
    BY <1>5 DEF IInv, Promised
  <2>2. CASE c = b
    <3>1. ~ pin
      BY <1>1, <2>2
    <3>2. Grows(mp, c, promise[c])
      BY <2>1 DEF IInv, Promised, GrowsInPlace, Grows
    <3> QED BY <1>1, <1>2, <1>6, <2>1, <2>2, <3>1, <3>2
  <2>3. CASE c # b
    <3>1. StillHeld(mp, n, c) /\ Held(n, c) /\ c \in DOMAIN n.header
      BY <1>2, <1>6, <2>1, <2>3, HeldTwice
    <3>2. CASE ~ pin
      BY <1>1, <3>1, <3>2
    <3>3. CASE pin
      <4>1. c[1] = b[1] => ~ Reopens(n, b[1])
        BY <1>1, <2>1, <2>3, <3>3 DEF GivenFor
      <4>2. StillHeld(n, mp', c)
        BY <1>1, <1>2, <1>3, <3>1, <3>3, <4>1, CheckUnsealOK
      <4> QED BY <1>6, <3>1, <4>2, HeldTwice
    <3> QED BY <3>2, <3>3
  <2> QED BY <2>2, <2>3
<1> QED BY <1>4, <1>5, <1>6, PromisesKept DEF IInv, Consistent

(* mpa_realloc() that moves the block                                      *)
LEMMA ReallocMoveInv ==
    ASSUME IInv, NEW b \in DOMAIN mp.header, NEW size \in Nat, size > 0, size % 16 = 0,
           ReallocMove(b, size)
    PROVE  IInv'
<1>1. PICK r \in mpa_alloc(mp, size) :
        /\ mp' = mpa_free(r.mp, b)
        /\ promise' = [c \in (DOMAIN promise \ {b}) \cup {r.ptr} |->
                         IF c = r.ptr THEN mp.max_pad ELSE promise[c]]
  BY DEF ReallocMove
<1>2. /\ WF(r.mp)
      /\ SealedNotEmpty(r.mp, {})
      /\ r.ptr \notin DOMAIN mp.header
      /\ r.mp.header = WithHeader(mp, r.ptr, size)
      /\ Held(r.mp, r.ptr) /\ FitsInPlace(r.mp, r.ptr, mp.max_pad)
      /\ \A c \in DOMAIN mp.header : Held(mp, c) => StillHeld(mp, r.mp, c)
  BY AllocOK DEF IInv, Consistent
<1>3. /\ DOMAIN r.mp.header = DOMAIN mp.header \cup {r.ptr}
      /\ b # r.ptr
      /\ given' = given \ {b}
  BY <1>2 DEF WithHeader, ReallocMove
<1>4. /\ WF(mp')
      /\ SealedNotEmpty(mp', {})
      /\ mp'.header = WithoutHeader(r.mp, b)
      /\ \A c \in DOMAIN r.mp.header \ {b} : Held(r.mp, c) => StillHeld(r.mp, mp', c)
  BY <1>1, <1>2, <1>3, FreeOK
<1>5. DOMAIN mp.header' = (DOMAIN mp.header \cup {r.ptr}) \ {b}
  BY <1>3, <1>4 DEF WithoutHeader
<1>6. mp.max_pad \in Nat
  BY DEF IInv, Consistent, WF, PoolsOK
<1>7. /\ promise' \in [DOMAIN promise' -> Nat]
      /\ DOMAIN promise' \subseteq DOMAIN mp.header'
      /\ given' \subseteq DOMAIN promise'
  BY <1>1, <1>3, <1>5, <1>6 DEF IInv, Promised
<1>8. ASSUME NEW c \in DOMAIN promise' \ given'
      PROVE  Grows(mp', c, promise'[c])
  <2>1. CASE c = r.ptr
    <3>1. r.ptr[1] \in DOMAIN r.mp.pool
      BY <1>2, <1>3, BlockFacts
    <3>2. Grows(r.mp, c, mp.max_pad)
      BY <1>2, <2>1, <3>1 DEF Grows, Held, WF, PoolsOK
    <3>3. StillHeld(r.mp, mp', c)
      BY <1>2, <1>3, <1>4, <2>1
    <3> QED BY <1>1, <1>2, <1>4, <1>6, <2>1, <3>2, <3>3, HeldGrows
  <2>2. CASE c # r.ptr
    <3>1. /\ c \in DOMAIN promise \ given
          /\ c # b
          /\ promise'[c] = promise[c]
          /\ promise[c] \in Nat
      BY <1>1, <1>3, <1>8, <2>2 DEF IInv, Promised
    <3>2. c \in DOMAIN mp.header /\ Held(mp, c) /\ Grows(mp, c, promise[c])
      BY <3>1, PromiseHeld DEF IInv, Consistent, Promised, GrowsInPlace, Grows
    <3>3. StillHeld(mp, r.mp, c) /\ Held(r.mp, c) /\ c \in DOMAIN r.mp.header
      BY <1>2, <1>3, <3>2, HeldTwice
    <3>4. StillHeld(mp, mp', c)
      BY <1>4, <3>1, <3>2, <3>3, HeldTwice
    <3> QED BY <1>4, <3>1, <3>2, <3>4, HeldGrows DEF IInv, Consistent
  <2> QED BY <2>1, <2>2
<1> QED BY <1>4, <1>7, <1>8 DEF IInv, Consistent, Promised, GrowsInPlace, Grows

(* mpa_set_seal_max_pad()                                                  *)
LEMMA SetSealMaxPadInv ==
    ASSUME IInv, NEW pad \in Nat, NEW limit \in Nat, SetSealMaxPad(pad, limit)
    PROVE  IInv'
<1> DEFINE k == RoundSize(pad)
<1>1. k \in Nat
  BY RoundSizeOK
<1>2. mp' = mpa_set_seal_max_pad(mp, k, limit) /\ promise' = promise /\ given' = given
  BY DEF SetSealMaxPad
<1> HIDE DEF k
<1>3. /\ WF(mp')
      /\ SealedNotEmpty(mp', {})
      /\ mp'.header = mp.header
      /\ \A c \in DOMAIN mp.header : Held(mp, c) => StillHeld(mp, mp', c)
  BY <1>1, <1>2, SetSealOK DEF IInv, Consistent
<1>4. /\ DOMAIN promise' \subseteq DOMAIN promise
      /\ promise' = [c \in DOMAIN promise' |-> promise[c]]
      /\ DOMAIN promise' \subseteq DOMAIN mp.header'
      /\ given' \subseteq DOMAIN promise'
      /\ given \cap DOMAIN promise' \subseteq given'
      /\ DOMAIN promise' \subseteq DOMAIN mp.header
  BY <1>2, <1>3 DEF IInv, Promised
<1> QED BY <1>3, <1>4, PromisesKept DEF IInv, Consistent

(* The invariant holds of an allocator without pools.                      *)
LEMMA EmptyInv ==
    ASSUME mp = EmptyMultipool, promise = [b \in {} |-> 0], given = {}
    PROVE  IInv
BY EmptyOK DEF IInv, Consistent, Promised, GrowsInPlace

(* free_screen()                                                           *)
LEMMA ReleaseInv == ASSUME IInv, Release PROVE IInv'
<1>1. mp' = EmptyMultipool /\ promise' = [b \in {} |-> 0] /\ given' = {}
  BY DEF Release
<1>2. Consistent'
  BY <1>1, EmptyOK DEF Consistent
<1> QED BY <1>1, <1>2 DEF IInv, Promised, GrowsInPlace

(* The invariant holds in every reachable state, for every size of pools,  *)
(* requests and paddings.                                                  *)
THEOREM Inductive == Spec => []IInv
<1>1. Init => IInv
  BY EmptyInv DEF Init
<1>2. IInv /\ [Next]_vars => IInv'
  <2> SUFFICES ASSUME IInv, [Next]_vars PROVE IInv'
    OBVIOUS
  <2>1. ASSUME NEW size \in RequestSizes, Alloc(size) PROVE IInv'
    BY <2>1, AllocInv, MultipoolAssumption
  <2>2. ASSUME NEW b \in DOMAIN mp.header, Free(b) PROVE IInv'
    BY <2>2, FreeInv
  <2>3. ASSUME NEW b \in DOMAIN mp.header, Pin(b) PROVE IInv'
    BY <2>3, PinInv
  <2>4. ASSUME NEW b \in DOMAIN mp.header, NEW size \in RequestSizes,
               NEW pin \in BOOLEAN, Realloc(b, size, pin)
        PROVE  IInv'
    <3> DEFINE k == RoundSize(size)
    <3>1. k \in Nat /\ k > 0 /\ k % 16 = 0
      BY RoundSizeOK, MultipoolAssumption
    <3>2. ReallocInPlace(b, k, pin) \/ ReallocMove(b, k)
      BY <2>4 DEF Realloc
    <3> HIDE DEF k
    <3> QED BY <3>1, <3>2, ReallocInPlaceInv, ReallocMoveInv
  <2>5. ASSUME NEW pad \in PadSizes, NEW limit \in UnsealedLimits, SetSealMaxPad(pad, limit)
        PROVE  IInv'
    BY <2>5, SetSealMaxPadInv, MultipoolAssumption
  <2>6. CASE Release
    BY <2>6, ReleaseInv
  <2>7. CASE UNCHANGED vars
    BY <2>7 DEF vars, IInv, Consistent, Promised, GrowsInPlace
  <2> QED BY <2>1, <2>2, <2>3, <2>4, <2>5, <2>6, <2>7 DEF Next
<1> QED BY <1>1, <1>2, PTL DEF Spec

(* What IInv says in the words of the properties.                          *)
LEMMA IInvTypeOK == IInv => TypeOK
<1> SUFFICES ASSUME IInv PROVE TypeOK
  OBVIOUS
<1>1. WF(mp) /\ promise \in [DOMAIN promise -> Nat] /\ given \subseteq DOMAIN promise
  BY DEF IInv, Consistent, Promised
<1>2. mp.unsealed_count \in Nat /\ mp.pool_count \in Nat
  BY <1>1, FS_Subset, FS_CardinalityType DEF WF, PoolsOK
<1> QED BY <1>1, <1>2 DEF TypeOK, WF, PoolsOK, BlocksOK

(* Blocks of one pool are apart and inside it.                             *)
LEMMA IInvBlocksDisjoint == IInv => BlocksDisjoint
<1> SUFFICES ASSUME IInv, NEW b \in DOMAIN mp.header
             PROVE  /\ BlockOK(mp, b)
                    /\ mp.pool[b[1]].offset <= mp.pool[b[1]].size
                    /\ \A c \in DOMAIN mp.header : Apart(mp, b, c)
  BY DEF BlocksDisjoint
<1>1. BlocksOK(mp)
  BY DEF IInv, Consistent, WF
<1>2. BlockOK(mp, b) /\ b[1] \in DOMAIN mp.pool
  BY <1>1 DEF BlocksOK, BlockOK
<1> QED BY <1>1, <1>2 DEF BlocksOK

(* Offsets are 8 modulo 16, after a header of 40 bytes that is aligned.    *)
LEMMA IInvAligned == IInv => Aligned
<1> SUFFICES ASSUME IInv, NEW b \in DOMAIN mp.header
             PROVE  (32 + b[2] + 8) % 16 = 0
  BY DEF Aligned, PoolHeader, HeaderSize, Alignment
<1>1. b[2] \in Nat /\ b[2] % 16 = 8
  BY BlockFacts DEF IInv, Consistent
<1> QED BY <1>1

(* n_alloc, the flags and the counters.                                    *)
LEMMA IInvAccounting == IInv => Accounting
<1> SUFFICES ASSUME IInv PROVE Accounting
  OBVIOUS
<1>1. WF(mp) /\ SealedNotEmpty(mp, {})
  BY DEF IInv, Consistent
<1>2. ASSUME NEW p \in DOMAIN mp.pool
      PROVE  /\ mp.pool[p].n_alloc = Cardinality(BlocksOf(mp, p))
             /\ mp.pool[p].sealed <=> p \notin mp.unsealed
             /\ mp.pool[p].sealed => mp.pool[p].n_alloc > 0
  BY <1>1 DEF WF, PoolsOK, BlocksOK, SealedNotEmpty
<1>3. /\ mp.unsealed_count = Cardinality(mp.unsealed)
      /\ mp.pool_count = Cardinality(DOMAIN mp.pool)
  BY <1>1 DEF WF, PoolsOK
<1>4. ASSUME DOMAIN mp.header = {}
      PROVE  mp.pool_count = mp.unsealed_count
  <2>1. \A p \in DOMAIN mp.pool : mp.pool[p].n_alloc = 0
    BY <1>1, <1>4, PoolFacts, FS_EmptySet DEF BlocksOf
  <2>2. DOMAIN mp.pool \subseteq mp.unsealed
    BY <1>1, <2>1 DEF SealedNotEmpty
  <2>3. mp.unsealed \subseteq DOMAIN mp.pool
    BY <1>1 DEF WF, PoolsOK
  <2>4. mp.unsealed = DOMAIN mp.pool
    BY <2>2, <2>3
  <2> QED BY <1>3, <2>4
<1> QED BY <1>2, <1>3, <1>4 DEF Accounting

(* Types, for every value of the constants.                                *)
THEOREM TypeCorrect == Spec => []TypeOK
BY Inductive, IInvTypeOK, PTL

(* No two live blocks of the allocator overlap and none leaves its pool,   *)
(* however lines are allocated, resized, pinned, moved and freed.          *)
THEOREM Disjoint == Spec => []BlocksDisjoint
BY Inductive, IInvBlocksDisjoint, PTL

(* Every pointer mpa_alloc() and mpa_realloc() return is aligned.          *)
THEOREM AlwaysAligned == Spec => []Aligned
BY Inductive, IInvAligned, PTL

(* The counters of the pools and of the list are exact, no sealed pool is  *)
(* empty, and so the assertion of mpa_release() cannot fail.               *)
THEOREM CountersExact == Spec => []Accounting
BY Inductive, IInvAccounting, PTL

(* Nothing but a pin takes the end of its pool from a block that was not   *)
(* pinned: until one of its pool is pinned, or the block itself freed, it  *)
(* can be resized in place up to the max_pad it was allocated under.       *)
THEOREM GrowthKept == Spec => []GrowsInPlace
<1>1. IInv => GrowsInPlace
  BY DEF IInv, Promised
<1> QED BY Inductive, <1>1, PTL

----------------------------------------------------------------------------
(* What a step does to the headers: block b changes or goes, c is new.     *)
OnlyThese(b, c) ==
    /\ \A d \in DOMAIN mp.header \ {b} :
          d \in DOMAIN mp.header' /\ mp'.header[d] = mp.header[d]
    /\ DOMAIN mp.header' \subseteq DOMAIN mp.header \cup {c}

(* Then at most one block is touched and at most one is new.               *)
LEMMA OnlyTheseOK ==
    ASSUME NEW b, NEW c, OnlyThese(b, c)
    PROVE  /\ \A x, y \in Touched : x = y
           /\ \A x, y \in DOMAIN mp.header' \ DOMAIN mp.header : x = y
BY DEF OnlyThese, Touched

(* An operation on one block leaves the other live blocks alone.           *)
THEOREM OthersAlone == Spec => OthersUntouched
<1>1. ASSUME IInv, [Next]_vars
      PROVE  [/\ \A b, c \in Touched : b = c
              /\ \A b, c \in DOMAIN mp.header' \ DOMAIN mp.header : b = c]_vars
  <2> USE <1>1
  <2>1. ASSUME NEW size \in RequestSizes, Alloc(size)
        PROVE  \E b, c : OnlyThese(b, c)
    <3> DEFINE k == RoundSize(size)
    <3>1. k \in Nat /\ k > 0 /\ k % 16 = 0
      BY RoundSizeOK, MultipoolAssumption
    <3>2. PICK r \in mpa_alloc(mp, k) : mp' = r.mp
      BY <2>1 DEF Alloc
    <3> HIDE DEF k
    <3>3. r.ptr \notin DOMAIN mp.header /\ mp.header' = WithHeader(mp, r.ptr, k)
      BY <3>1, <3>2, AllocOK DEF IInv, Consistent
    <3> QED BY <3>3 DEF OnlyThese, WithHeader
  <2>2. ASSUME NEW b \in DOMAIN mp.header, Free(b)
        PROVE  OnlyThese(b, b)
    <3>1. mp.header' = WithoutHeader(mp, b)
      BY <2>2, FreeOK DEF IInv, Consistent, Free
    <3> QED BY <3>1 DEF OnlyThese, WithoutHeader
  <2>3. ASSUME NEW b \in DOMAIN mp.header, Pin(b)
        PROVE  OnlyThese(b, b)
    <3>1. mp.header' = mp.header
      BY <2>3, CheckUnsealOK, BlockFacts DEF IInv, Consistent, Pin
    <3> QED BY <3>1 DEF OnlyThese
  <2>4. ASSUME NEW b \in DOMAIN mp.header, NEW size \in Nat, size > 0, size % 16 = 0,
               NEW pin \in BOOLEAN, ReallocInPlace(b, size, pin)
        PROVE  OnlyThese(b, b)
    <3> DEFINE n == IF FitsInPlace(mp, b, size) THEN Resize(mp, b, size) ELSE mp
    <3>1. mp' = IF pin THEN check_unseal(n, b[1]) ELSE n
      BY <2>4 DEF ReallocInPlace
    <3>2. /\ WF(n)
          /\ SealedNotEmpty(n, {})
          /\ b[1] \in DOMAIN n.pool
          /\ n.header = WithHeader(mp, b, size) \/ n.header = mp.header
      <4>1. CASE FitsInPlace(mp, b, size)
        <5>1. n = Resize(mp, b, size)
          BY <4>1
        <5> HIDE DEF n
        <5> QED BY <2>4, <4>1, <5>1, ResizeOK, BlockFacts DEF IInv, Consistent
      <4>2. CASE ~ FitsInPlace(mp, b, size)
        BY <4>2, BlockFacts DEF IInv, Consistent
      <4> QED BY <4>1, <4>2
    <3> HIDE DEF n
    <3>3. mp.header' = n.header
      <4>1. CASE pin
        BY <3>1, <3>2, <4>1, CheckUnsealOK
      <4>2. CASE ~ pin
        BY <3>1, <4>2
      <4> QED BY <4>1, <4>2
    <3> QED BY <3>2, <3>3 DEF OnlyThese, WithHeader
  <2>5. ASSUME NEW b \in DOMAIN mp.header, NEW size \in Nat, size > 0, size % 16 = 0,
               ReallocMove(b, size)
        PROVE  \E c : OnlyThese(b, c)
    <3>1. PICK r \in mpa_alloc(mp, size) : mp' = mpa_free(r.mp, b)
      BY <2>5 DEF ReallocMove
    <3>2. /\ WF(r.mp)
          /\ SealedNotEmpty(r.mp, {})
          /\ r.ptr \notin DOMAIN mp.header
          /\ r.mp.header = WithHeader(mp, r.ptr, size)
      BY <2>5, AllocOK DEF IInv, Consistent
    <3>3. b \in DOMAIN r.mp.header
      BY <3>2 DEF WithHeader
    <3>4. mp.header' = WithoutHeader(r.mp, b)
      BY <3>1, <3>2, <3>3, FreeOK
    <3> QED BY <3>2, <3>4 DEF OnlyThese, WithHeader, WithoutHeader
  <2>6. ASSUME NEW b \in DOMAIN mp.header, NEW size \in RequestSizes,
               NEW pin \in BOOLEAN, Realloc(b, size, pin)
        PROVE  \E x, y : OnlyThese(x, y)
    <3> DEFINE k == RoundSize(size)
    <3>1. k \in Nat /\ k > 0 /\ k % 16 = 0
      BY RoundSizeOK, MultipoolAssumption
    <3>2. ReallocInPlace(b, k, pin) \/ ReallocMove(b, k)
      BY <2>6 DEF Realloc
    <3> HIDE DEF k
    <3> QED BY <2>4, <2>5, <3>1, <3>2
  <2>7. ASSUME NEW pad \in PadSizes, NEW limit \in UnsealedLimits, SetSealMaxPad(pad, limit)
        PROVE  OnlyThese(1, 1)
    <3> DEFINE k == RoundSize(pad)
    <3>1. k \in Nat /\ limit \in Nat
      BY RoundSizeOK, MultipoolAssumption
    <3>2. mp' = mpa_set_seal_max_pad(mp, k, limit)
      BY <2>7 DEF SetSealMaxPad
    <3> HIDE DEF k
    <3>3. mp.header' = mp.header
      BY <3>1, <3>2, SetSealOK DEF IInv, Consistent
    <3> QED BY <3>3 DEF OnlyThese
  <2>8. ASSUME Release
        PROVE  OnlyThese(1, 1)
    BY <2>8 DEF Release, EmptyMultipool, OnlyThese
  <2>9. CASE Next
    BY <2>1, <2>2, <2>3, <2>6, <2>7, <2>8, <2>9, OnlyTheseOK DEF Next
  <2> QED BY <2>9
<1> QED BY Inductive, <1>1, PTL DEF Spec, OthersUntouched
=============================================================================
