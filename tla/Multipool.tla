----------------------------- MODULE Multipool -----------------------------
(***************************************************************************)
(* multipool.c: the allocator behind the lines of a screen.  Objects are   *)
(* placed one after another in large pools.  A pool that took an object is *)
(* sealed (no other object is placed in it) so that its last object can be *)
(* resized in place; mpa_pin() and shrinking with `pin' unseal it again.   *)
(*                                                                         *)
(* A pool is named by its address, a block by <<pool, offset of its        *)
(* struct header>>.  Sizes and offsets are in bytes.  The list of unsealed *)
(* pools is the set `unsealed' with the order `ahead': <<p, q>> is in      *)
(* `ahead' when p is closer to the head of the list than q.                *)
(***************************************************************************)
EXTENDS Integers, FiniteSets

CONSTANTS Pools,          (* addresses malloc() may give to a pool             *)
          PoolSize,       (* mp->pool_size: bytes of data in an ordinary pool  *)
          RequestSizes,   (* sizes that callers ask for                        *)
          PadSizes,       (* values of max_pad given to mpa_set_seal_max_pad() *)
          UnsealedLimits  (* values of max_unsealed given to it                *)

ASSUME MultipoolAssumption ==
    /\ PoolSize \in Nat
    /\ RequestSizes \subseteq Nat
    /\ PadSizes \subseteq Nat
    /\ UnsealedLimits \subseteq Nat

VARIABLES mp,      (* struct multipool and the pools reachable from it       *)
          promise, (* history: for each block never pinned, the max_pad it   *)
                   (* was allocated under                                    *)
          given    (* history: those of them whose pool was put back on the  *)
                   (* list for the sake of another block                     *)

vars == <<mp, promise, given>>

Alignment  == 16   (* MPA_ALIGNMENT                                           *)
HeaderSize == 8    (* sizeof(struct header), half of the alignment            *)
PoolHeader == 32   (* sizeof(struct pool)                                     *)
InitOffset == 8    (* makes the data that follows the first header aligned    *)

Larger(a, b) == IF a >= b THEN a ELSE b

(* Mutant: the size is not rounded up. *)
RoundSize_exact(size) == size + HeaderSize

RoundSize(size) == ((size + HeaderSize + Alignment - 1) \div Alignment) * Alignment

Block == Pools \X Nat

Room(m, p) == m.pool[p].size - m.pool[p].offset

(* Is the block the last one of its pool? *)
IsLast(m, b) == b[2] + m.header[b] = m.pool[b[1]].offset

----------------------------------------------------------------------------
(* The steps that the operations of the allocator are made of: each maps a *)
(* state of the allocator to the next one.                                 *)

Unlink(m, gone) ==
    [m EXCEPT !.unsealed = @ \ gone,
              !.ahead = {e \in @ : e[1] \notin gone /\ e[2] \notin gone}]

pool_seal(m, p) ==
    [Unlink(m, {p}) EXCEPT !.unsealed_count = @ - 1,
                           !.pool[p].sealed = TRUE]

pool_unseal(m, p) ==
    [m EXCEPT !.ahead = @ \cup ({p} \X m.unsealed),
              !.unsealed = @ \cup {p},
              !.unsealed_count = @ + 1,
              !.pool[p].sealed = FALSE]

(* Return a pool to the system. *)
Discard(m, p) ==
    [m EXCEPT !.pool = [q \in DOMAIN m.pool \ {p} |-> m.pool[q]],
              !.pool_count = @ - 1]

(* Mutant: an unsealed pool stays on the list. *)
pool_free_linked(m, p) == Discard(m, p)

pool_free(m, p) ==
    Discard(IF m.pool[p].sealed THEN m ELSE pool_seal(m, p), p)

NewPool(m, p, need) ==
    pool_unseal([m EXCEPT !.pool = [q \in DOMAIN m.pool \cup {p} |->
                                      IF q = p
                                      THEN [n_alloc |-> 0,
                                            offset  |-> InitOffset,
                                            size    |-> Larger(PoolSize, need + InitOffset),
                                            sealed  |-> FALSE]
                                      ELSE m.pool[q]],
                          !.pool_count = @ + 1], p)

(* The unsealed pools that can take `need' more bytes. *)
Fitting(m, need) == {p \in m.unsealed : Room(m, p) >= need}

(* get_fitting_pool(): the fitting pool closest to the head of the list,   *)
(* else a new pool; all possible outcomes, as [mp, pool].                  *)
get_fitting_pool(m, need) ==
    IF Fitting(m, need) # {}
    THEN {[mp |-> m, pool |-> p] : p \in {q \in Fitting(m, need) :
            \A r \in Fitting(m, need) \ {q} : <<q, r>> \in m.ahead}}
    ELSE {[mp |-> NewPool(m, p, need), pool |-> p] : p \in Pools \ DOMAIN m.pool}

(* Write the headers of the blocks, and the offset and n_alloc of a pool. *)
Store(m, headers, p, offset, n_alloc) ==
    [m EXCEPT !.header = headers,
              !.pool[p] = [m.pool[p] EXCEPT !.offset = offset, !.n_alloc = n_alloc]]

WithHeader(m, b, size) ==
    [c \in DOMAIN m.header \cup {b} |-> IF c = b THEN size ELSE m.header[c]]

WithoutHeader(m, b) == [c \in DOMAIN m.header \ {b} |-> m.header[c]]

(* The end of mpa_alloc(): put a block at the end of pool p and seal p. *)
PutAtEnd(m, p, size) ==
    Store(m, WithHeader(m, <<p, m.pool[p].offset>>, size), p,
          m.pool[p].offset + size, m.pool[p].n_alloc + 1)

Place(m, p, size) == pool_seal(PutAtEnd(m, p, size), p)

(* Mutant: max_pad is not taken into account. *)
mpa_alloc_unpadded(m, size) ==
    {[mp |-> Place(f.mp, f.pool, size), ptr |-> <<f.pool, f.mp.pool[f.pool].offset>>] :
        f \in get_fitting_pool(m, size)}

(* mpa_alloc(): all possible outcomes, as [mp, ptr]. *)
mpa_alloc(m, size) ==
    {[mp |-> Place(f.mp, f.pool, size), ptr |-> <<f.pool, f.mp.pool[f.pool].offset>>] :
        f \in get_fitting_pool(m, Larger(size, m.max_pad))}

(* Mutant: the pool shrinks whichever block is freed. *)
Drop_any(m, b) ==
    LET r == m.pool[b[1]]
    IN  Store(m, WithoutHeader(m, b), b[1], r.offset - m.header[b], r.n_alloc - 1)

(* mpa_free(): the block goes, the pool shrinks when it was the last one *)
Drop(m, b) ==
    LET r == m.pool[b[1]]
    IN  Store(m, WithoutHeader(m, b), b[1],
              IF IsLast(m, b) THEN r.offset - m.header[b] ELSE r.offset,
              r.n_alloc - 1)

TakeAway(m, b) ==
    IF IsLast(m, b) /\ m.pool[b[1]].sealed
    THEN pool_unseal(Drop(m, b), b[1])
    ELSE Drop(m, b)

(* and an empty pool is recycled, or returned when enough are unsealed. *)
Rewind(m, p) == Store(m, m.header, p, InitOffset, m.pool[p].n_alloc)

Recycle(m, p) ==
    IF m.unsealed_count + 1 > m.max_unsealed THEN pool_free(Rewind(m, p), p)
    ELSE IF m.pool[p].sealed THEN pool_unseal(Rewind(m, p), p)
    ELSE Rewind(m, p)

mpa_free(m, b) ==
    LET n == TakeAway(m, b)
    IN  IF n.pool[b[1]].n_alloc = 0 THEN Recycle(n, b[1]) ELSE n

Reopens(m, p) == m.pool[p].sealed /\ Room(m, p) >= m.max_pad

check_unseal(m, p) == IF Reopens(m, p) THEN pool_unseal(m, p) ELSE m

(* Mutant: any block is resized in place. *)
FitsInPlace_middle(m, b, size) == size - m.header[b] <= Room(m, b[1])

FitsInPlace(m, b, size) ==
    IsLast(m, b) /\ size - m.header[b] <= Room(m, b[1])

Resize(m, b, size) ==
    LET r == m.pool[b[1]]
    IN  Store(m, WithHeader(m, b, size), b[1], r.offset + size - m.header[b], r.n_alloc)

(* Mutant: empty pools are sealed instead of returned. *)
mpa_set_seal_max_pad_keep(m, pad, limit) ==
    LET small == {p \in m.unsealed : m.pool[p].size < pad + m.pool[p].offset}
    IN  [Unlink(m, small) EXCEPT
            !.max_pad = pad,
            !.max_unsealed = limit,
            !.unsealed_count = @ - Cardinality(small),
            !.pool = [p \in DOMAIN @ |->
                        IF p \in small THEN [@[p] EXCEPT !.sealed = TRUE] ELSE @[p]]]

mpa_set_seal_max_pad(m, pad, limit) ==
    LET small == {p \in m.unsealed : m.pool[p].size < pad + m.pool[p].offset}
        empty == {p \in small : m.pool[p].n_alloc = 0}
    IN  [Unlink(m, small) EXCEPT
            !.max_pad = pad,
            !.max_unsealed = limit,
            !.unsealed_count = @ - Cardinality(small),
            !.pool_count = @ - Cardinality(empty),
            !.pool = [p \in DOMAIN @ \ empty |->
                        IF p \in small THEN [@[p] EXCEPT !.sealed = TRUE] ELSE @[p]]]

(* mpa_init() on zeroed memory *)
EmptyMultipool ==
    [pool |-> [p \in {} |-> 0], header |-> [b \in {} |-> 0],
     unsealed |-> {}, ahead |-> {}, unsealed_count |-> 0, pool_count |-> 0,
     max_pad |-> 0, max_unsealed |-> 0]

----------------------------------------------------------------------------
Init == mp = EmptyMultipool /\ promise = [b \in {} |-> 0] /\ given = {}

Forget(b) == [c \in DOMAIN promise \ {b} |-> promise[c]]

(* The blocks that lose the end of their pool when b is pinned. *)
GivenFor(m, b) ==
    IF Reopens(m, b[1]) THEN {c \in DOMAIN promise : c[1] = b[1]} ELSE {}

Alloc(size) ==
    \E r \in mpa_alloc(mp, RoundSize(size)) :
        /\ mp' = r.mp
        /\ promise' = [c \in DOMAIN promise \cup {r.ptr} |->
                         IF c = r.ptr THEN mp.max_pad ELSE promise[c]]
        /\ UNCHANGED given

Free(b) ==
    /\ mp' = mpa_free(mp, b)
    /\ promise' = Forget(b)
    /\ given' = given \ {b}

Pin(b) ==
    /\ mp' = check_unseal(mp, b[1])
    /\ promise' = Forget(b)
    /\ given' = (given \cup GivenFor(mp, b)) \ {b}

(* mpa_realloc() when the block stays: resized in place, or large enough *)
ReallocInPlace(b, size, pin) ==
    /\ FitsInPlace(mp, b, size) \/ mp.header[b] >= size
    /\ LET n == IF FitsInPlace(mp, b, size) THEN Resize(mp, b, size) ELSE mp
       IN  /\ mp' = IF pin THEN check_unseal(n, b[1]) ELSE n
           /\ given' = IF pin THEN (given \cup GivenFor(n, b)) \ {b} ELSE given
    /\ promise' = IF pin THEN Forget(b) ELSE promise

(* mpa_realloc() when it moves: allocate, copy, free; `pin' is not looked at *)
ReallocMove(b, size) ==
    /\ ~FitsInPlace(mp, b, size) /\ mp.header[b] < size
    /\ \E r \in mpa_alloc(mp, size) :
        /\ mp' = mpa_free(r.mp, b)
        /\ promise' = [c \in (DOMAIN promise \ {b}) \cup {r.ptr} |->
                         IF c = r.ptr THEN mp.max_pad ELSE promise[c]]
    /\ given' = given \ {b}

Realloc(b, size, pin) ==
    ReallocInPlace(b, RoundSize(size), pin) \/ ReallocMove(b, RoundSize(size))

SetSealMaxPad(pad, limit) ==
    /\ mp' = mpa_set_seal_max_pad(mp, RoundSize(pad), limit)
    /\ UNCHANGED <<promise, given>>

(* free_screen(): all lines are gone, the allocator goes; another terminal *)
(* starts from mpa_init() again.                                           *)
Release ==
    /\ DOMAIN mp.header = {}
    /\ mp' = EmptyMultipool
    /\ promise' = [b \in {} |-> 0]
    /\ given' = {}

Next ==
    \/ \E size \in RequestSizes : Alloc(size)
    \/ \E b \in DOMAIN mp.header : Free(b) \/ Pin(b)
    \/ \E b \in DOMAIN mp.header, size \in RequestSizes, pin \in BOOLEAN :
          Realloc(b, size, pin)
    \/ \E pad \in PadSizes, limit \in UnsealedLimits : SetSealMaxPad(pad, limit)
    \/ Release

Spec == Init /\ [][Next]_vars

----------------------------------------------------------------------------
PoolRecord == [n_alloc : Nat, offset : Nat, size : Nat, sealed : BOOLEAN]

(* Every field has the type the code gives it; counters never go negative  *)
(* and the unsealed list only links pools that exist.                      *)
TypeOK ==
    /\ DOMAIN mp.pool \subseteq Pools
    /\ mp.pool \in [DOMAIN mp.pool -> PoolRecord]
    /\ DOMAIN mp.header \subseteq Block
    /\ mp.header \in [DOMAIN mp.header -> Nat]
    /\ mp.unsealed \subseteq DOMAIN mp.pool
    /\ mp.ahead \subseteq mp.unsealed \X mp.unsealed
    /\ mp.unsealed_count \in Nat
    /\ mp.pool_count \in Nat
    /\ mp.max_pad \in Nat
    /\ mp.max_unsealed \in Nat
    /\ promise \in [DOMAIN promise -> Nat]
    /\ given \subseteq DOMAIN promise

BlockOK(m, b) ==
    /\ b[1] \in DOMAIN m.pool
    /\ m.header[b] > 0
    /\ b[2] >= InitOffset
    /\ b[2] + m.header[b] <= m.pool[b[1]].offset

Apart(m, b, c) ==
    b # c /\ b[1] = c[1] => \/ b[2] + m.header[b] <= c[2]
                            \/ c[2] + m.header[c] <= b[2]

(* Live blocks (struct lines that the screen, the history and the handles  *)
(* point at) lie inside the used part of a pool that exists, and no two of *)
(* them share a byte, whatever was freed, resized, moved or recycled.      *)
BlocksDisjoint ==
    \A b \in DOMAIN mp.header :
        /\ BlockOK(mp, b)
        /\ mp.pool[b[1]].offset <= mp.pool[b[1]].size
        /\ \A c \in DOMAIN mp.header : Apart(mp, b, c)

(* Every pointer handed out is aligned as malloc() would align it. *)
Aligned ==
    \A b \in DOMAIN mp.header : (PoolHeader + b[2] + HeaderSize) % Alignment = 0

BlocksOf(m, p) == {b \in DOMAIN m.header : b[1] = p}

(* The counters tell the truth: n_alloc counts the live blocks of a pool,  *)
(* so a pool is never recycled under a live block; the `sealed' flag says  *)
(* whether the pool is on the list; and a sealed pool is never empty, which *)
(* is why the assertion of mpa_release() (pool_count == unsealed_count)    *)
(* holds when all lines were freed and nothing leaks.                      *)
Accounting ==
    /\ \A p \in DOMAIN mp.pool :
          /\ mp.pool[p].n_alloc = Cardinality(BlocksOf(mp, p))
          /\ mp.pool[p].sealed <=> p \notin mp.unsealed
          /\ mp.pool[p].sealed => mp.pool[p].n_alloc > 0
    /\ mp.unsealed_count = Cardinality(mp.unsealed)
    /\ mp.pool_count = Cardinality(DOMAIN mp.pool)
    /\ DOMAIN mp.header = {} => mp.pool_count = mp.unsealed_count

(* An operation on one block leaves the others where and as large as they  *)
(* were: at most one live block goes away, changes its size or moves, and  *)
(* at most one appears, except when the whole allocator is released.       *)
Touched == {b \in DOMAIN mp.header :
              b \notin DOMAIN mp.header' \/ mp.header'[b] # mp.header[b]}

OthersUntouched ==
    [][/\ \A b, c \in Touched : b = c
       /\ \A b, c \in DOMAIN mp.header' \ DOMAIN mp.header : b = c]_vars

(* A block that was not pinned keeps the end of its pool to itself: the    *)
(* pool stays off the list and nothing is placed behind the block, so that *)
(* mpa_realloc() can give it, in place, any size up to the max_pad it was  *)
(* allocated under, whatever is resized, freed, pinned or recycled in the  *)
(* mean time.  multipool.h:31-33 has that size as guaranteed, but pinning  *)
(* a block once more puts its pool back on the list although the last      *)
(* block of the pool is another one, which is not pinned (multipool.c:192):*)
(* that one is given away from then on, see the README.                    *)
GrowsInPlace ==
    \A b \in DOMAIN promise \ given :
        mp.pool[b[1]].sealed /\ FitsInPlace(mp, b, promise[b])
=============================================================================
