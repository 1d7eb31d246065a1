----------------------------- MODULE TtyProofs -----------------------------
(***************************************************************************)
(* Proofs about what the terminal writes, for every capacity of the pty,   *)
(* size of a chunk and sequence of writes.                                 *)
(*                                                                         *)
(* InOrder alone is not inductive.  Control says where the process can be  *)
(* with something deferred: in particular that it writes a piece only when *)
(* nothing is.  Order is what is left of the order once the child has      *)
(* exited and writes are dropped; Chain is what holds before.              *)
(***************************************************************************)
EXTENDS Tty, SequenceTheorems, TLAPS

(* TypeOK, and the counter of the list                                     *)
Types == TypeOK /\ count = Len(deferred)

Control ==
    /\ pc \in {"idle", "pieces", "freed"} => Len(piece) = 0
    /\ pc = "write" => Len(piece) = 1 /\ Len(deferred) = 0
    /\ fd => /\ on <=> mask # {}
             /\ pc = "flush" => "out" \in mask
             /\ pc # "flush" => ("out" \in mask <=> Len(deferred) > 0)

(* A list with freed nodes belongs to a terminal that hung up.             *)
Hung == freed => ~ fd

(* Where the next byte may come from, after got                            *)
Behind(from) == Len(got) > 0 => got[Len(got)] < from

Increasing == \A i \in 1 .. Len(got) - 1 : got[i] < got[i + 1]

Order ==
    /\ Increasing
    /\ \A i \in 1 .. Len(deferred) - 1 : deferred[i].upto < deferred[i + 1].from
    /\ Len(deferred) > 0 => Behind(deferred[1].from)
    /\ Len(piece) > 0 => IF Len(deferred) = 0 THEN Behind(piece[1].from)
                         ELSE deferred[Len(deferred)].upto < piece[1].from
    /\ Behind(asked + 1)
    /\ \A i \in 1 .. Len(deferred) : deferred[i].upto <= asked
    /\ Len(piece) > 0 => piece[1].upto <= asked

(* The byte after what got and the list hold                               *)
NextByte == IF Len(deferred) = 0 THEN Len(got) + 1 ELSE deferred[Len(deferred)].upto + 1

Chain ==
    child =>
        /\ \A i \in 1 .. Len(got) : got[i] = i
        /\ Len(deferred) > 0 => deferred[1].from = Len(got) + 1
        /\ \A i \in 1 .. Len(deferred) - 1 : deferred[i + 1].from = deferred[i].upto + 1
        /\ IF Len(piece) = 0 THEN asked + 1 = NextByte
           ELSE piece[1].from = NextByte /\ asked = piece[1].upto

IInv == Types /\ Control /\ Hung /\ Order /\ Chain

----------------------------------------------------------------------------
(* The bytes the pty takes follow those it has taken.                      *)
LEMMA PutGot ==
    ASSUME TypeOK, NEW r \in Bytes, NEW k \in 1 .. Left(r), Put(r, k)
    PROVE  /\ got' \in Seq(Nat)
           /\ Len(got') = Len(got) + k
           /\ \A i \in 1 .. Len(got) : got'[i] = got[i]
           /\ \A i \in Len(got) + 1 .. Len(got) + k : got'[i] = r.from + (i - Len(got)) - 1
<1> DEFINE new == [i \in 1 .. k |-> r.from + i - 1]
<1>1. r.from \in Nat /\ r.upto \in Nat /\ k \in Nat
  BY DEF Bytes, Left
<1>2. new \in Seq(Nat) /\ Len(new) = k
  <2>1. \A i \in 1 .. k : r.from + i - 1 \in Nat
    BY <1>1
  <2>2. new \in [1 .. k -> Nat]
    BY <2>1
  <2>3. new \in Seq(Nat)
    BY <1>1, <2>2, SeqDef
  <2>4. DOMAIN new = 1 .. k
    OBVIOUS
  <2> HIDE DEF new
  <2> QED BY <1>1, <2>3, <2>4, LenProperties
<1>3. \A i \in 1 .. k : new[i] = r.from + i - 1
  OBVIOUS
<1>4. got' = got \o new
  BY DEF Put
<1>5. got \in Seq(Nat) /\ Len(got) \in Nat
  BY DEF TypeOK
<1> HIDE DEF new
<1>6. /\ got' \in Seq(Nat)
      /\ Len(got') = Len(got) + k
      /\ \A i \in 1 .. Len(got) + k : got'[i] = IF i <= Len(got) THEN got[i] ELSE new[i - Len(got)]
  BY <1>2, <1>4, <1>5, ConcatProperties
<1>7. ASSUME NEW i \in 1 .. Len(got)
      PROVE  got'[i] = got[i]
  BY <1>1, <1>5, <1>6
<1>8. ASSUME NEW i \in Len(got) + 1 .. Len(got) + k
      PROVE  got'[i] = r.from + (i - Len(got)) - 1
  <2>1. i \in 1 .. Len(got) + k /\ ~ (i <= Len(got)) /\ i - Len(got) \in 1 .. k
    BY <1>1, <1>5
  <2> QED BY <1>3, <1>6, <2>1
<1> QED BY <1>6, <1>7, <1>8

(* They are in order if they come from behind the last one ...             *)
LEMMA PutOrder ==
    ASSUME TypeOK, NEW r \in Bytes, NEW k \in 1 .. Left(r), Put(r, k),
           Increasing, Behind(r.from)
    PROVE  Increasing' /\ got'[Len(got')] = r.from + k - 1 /\ Len(got') > 0
<1> DEFINE n == Len(got)
<1>1. r.from \in Nat /\ k \in Nat /\ k > 0
  BY DEF Bytes, Left
<1>2. n \in Nat /\ \A i \in 1 .. n : got[i] \in Nat
  BY ElementOfSeq DEF TypeOK
<1>3. /\ Len(got') = n + k
      /\ \A i \in 1 .. n : got'[i] = got[i]
      /\ \A i \in n + 1 .. n + k : got'[i] = r.from + (i - n) - 1
  BY PutGot
<1>4. /\ \A i \in 1 .. n - 1 : got[i] < got[i + 1]
      /\ n > 0 => got[n] < r.from
  BY DEF Increasing, Behind
<1> HIDE DEF n
<1>5. ASSUME NEW i \in 1 .. n + k - 1
      PROVE  got'[i] < got'[i + 1]
  <2>1. CASE i < n
    <3>1. i \in 1 .. n - 1 /\ i \in 1 .. n /\ i + 1 \in 1 .. n
      BY <1>1, <1>2, <2>1
    <3> QED BY <1>3, <1>4, <3>1
  <2>2. CASE i = n
    <3>1. n > 0 /\ n \in 1 .. n /\ n + 1 \in n + 1 .. n + k
      BY <1>1, <1>2, <2>2
    <3>2. got'[n] = got[n] /\ got'[n + 1] = r.from
      BY <1>1, <1>2, <1>3, <3>1
    <3> QED BY <1>4, <2>2, <3>1, <3>2
  <2>3. CASE i > n
    <3>1. i \in n + 1 .. n + k /\ i + 1 \in n + 1 .. n + k
      BY <1>1, <1>2, <2>3
    <3> QED BY <1>1, <1>2, <1>3, <3>1
  <2> QED BY <1>1, <1>2, <2>1, <2>2, <2>3
<1>6. Increasing'
  BY <1>1, <1>2, <1>3, <1>5 DEF Increasing
<1>7. got'[n + k] = r.from + k - 1 /\ n + k > 0
  <2>1. n + k \in n + 1 .. n + k
    BY <1>1, <1>2
  <2> QED BY <1>1, <1>2, <1>3, <2>1
<1> QED BY <1>3, <1>6, <1>7

(* ... and nothing is missing if they come from right behind it.           *)
LEMMA PutChain ==
    ASSUME TypeOK, NEW r \in Bytes, NEW k \in 1 .. Left(r), Put(r, k),
           r.from = Len(got) + 1, \A i \in 1 .. Len(got) : got[i] = i
    PROVE  /\ \A i \in 1 .. Len(got') : got'[i] = i
           /\ Len(got') = r.from + k - 1
<1> DEFINE n == Len(got)
<1>1. r.from \in Nat /\ k \in Nat /\ n \in Nat
  BY DEF Bytes, Left, TypeOK
<1>2. /\ Len(got') = n + k
      /\ \A i \in 1 .. n : got'[i] = got[i]
      /\ \A i \in n + 1 .. n + k : got'[i] = r.from + (i - n) - 1
  BY PutGot
<1>3. r.from = n + 1 /\ \A i \in 1 .. n : got[i] = i
  OBVIOUS
<1> HIDE DEF n
<1>4. ASSUME NEW i \in 1 .. n + k
      PROVE  got'[i] = i
  <2>1. CASE i \in 1 .. n
    <3>1. got'[i] = got[i] /\ got[i] = i
      BY <1>2, <1>3, <2>1
    <3> QED BY <3>1
  <2>2. CASE i \in n + 1 .. n + k
    <3>1. got'[i] = r.from + (i - n) - 1
      BY <1>2, <2>2
    <3>2. r.from + (i - n) - 1 = i
      BY <1>1, <1>3, <2>2
    <3> QED BY <3>1, <3>2
  <2>3. i \in 1 .. n \/ i \in n + 1 .. n + k
    BY <1>1
  <2> QED BY <2>1, <2>2, <2>3
<1>5. r.from + k - 1 = n + k
  BY <1>1, <1>3
<1> QED BY <1>2, <1>4, <1>5

(* A state that differs in none of these keeps the order.                  *)
LEMMA SameOrder ==
    ASSUME Order, Chain, UNCHANGED <<got, deferred, piece, asked>>, child' => child
    PROVE  Order' /\ Chain'
BY SMT DEF Order, Chain, Increasing, Behind, NextByte

(* What the types say of the sequences.                                    *)
LEMMA Elements ==
    ASSUME TypeOK
    PROVE  /\ Len(got) \in Nat /\ Len(deferred) \in Nat /\ Len(piece) \in {0, 1}
           /\ asked \in Nat
           /\ deferred = <<>> <=> Len(deferred) = 0
           /\ piece = <<>> <=> Len(piece) = 0
           /\ \A i \in 1 .. Len(got) : got[i] \in Nat
           /\ \A i \in 1 .. Len(deferred) :
                 deferred[i] \in Bytes /\ deferred[i].from \in Nat /\ deferred[i].upto \in Nat
           /\ Len(piece) = 1 =>
                 piece[1] \in Bytes /\ piece[1].from \in Nat /\ piece[1].upto \in Nat
<1>1. got \in Seq(Nat) /\ deferred \in Seq(Bytes) /\ piece \in Seq(Bytes) /\ Len(piece) <= 1
      /\ asked \in Nat
  BY DEF TypeOK
<1>2. Len(got) \in Nat /\ Len(deferred) \in Nat /\ Len(piece) \in Nat
  BY <1>1
<1>3. /\ deferred = <<>> <=> Len(deferred) = 0
      /\ piece = <<>> <=> Len(piece) = 0
  <2>1. \A q \in Seq(Bytes) : q = <<>> <=> Len(q) = 0
    BY EmptySeq
  <2> QED BY <1>1, <2>1
<1>4. \A i \in 1 .. Len(got) : got[i] \in Nat
  BY <1>1, ElementOfSeq
<1>5. \A i \in 1 .. Len(deferred) : deferred[i] \in Bytes
  BY <1>1, ElementOfSeq
<1>6. Len(piece) = 1 => piece[1] \in Bytes
  <2>1. \A i \in 1 .. Len(piece) : piece[i] \in Bytes
    BY <1>1, ElementOfSeq
  <2> QED BY <2>1
<1>7. \A r \in Bytes : r.from \in Nat /\ r.upto \in Nat
  BY DEF Bytes
<1>8. Len(piece) \in {0, 1}
  <2> DEFINE n == Len(piece)
  <2>1. n \in Nat /\ n <= 1
    BY <1>1, <1>2
  <2> HIDE DEF n
  <2>2. n = 0 \/ n = 1
    BY <2>1
  <2> QED BY <2>2 DEF n
<1>9. \A i \in 1 .. Len(deferred) :
         deferred[i] \in Bytes /\ deferred[i].from \in Nat /\ deferred[i].upto \in Nat
  BY <1>5, <1>7
<1>10. Len(piece) = 1 => piece[1] \in Bytes /\ piece[1].from \in Nat /\ piece[1].upto \in Nat
  BY <1>6, <1>7
<1> QED BY <1>1, <1>2, <1>3, <1>4, <1>8, <1>9, <1>10

(* defer_write() puts the piece behind the list.                           *)
LEMMA Deferred ==
    ASSUME Types, Control, Len(piece) = 1, child, defer_write
    PROVE  /\ deferred' \in Seq(Bytes)
           /\ Len(deferred') = Len(deferred) + 1
           /\ \A i \in 1 .. Len(deferred) : deferred'[i] = deferred[i]
           /\ deferred'[Len(deferred) + 1] = piece[1]
<1>1. deferred \in Seq(Bytes) /\ piece \in Seq(Bytes) /\ deferred' = deferred \o piece
  BY DEF Types, TypeOK, defer_write
<1>2. Len(deferred) \in Nat
  BY <1>1
<1>3. /\ deferred' \in Seq(Bytes)
      /\ Len(deferred') = Len(deferred) + 1
      /\ \A i \in 1 .. Len(deferred) + 1 :
            deferred'[i] = IF i <= Len(deferred) THEN deferred[i] ELSE piece[i - Len(deferred)]
  <2>1. /\ deferred \o piece \in Seq(Bytes)
        /\ Len(deferred \o piece) = Len(deferred) + Len(piece)
        /\ \A i \in 1 .. Len(deferred) + Len(piece) : (deferred \o piece)[i] =
                IF i <= Len(deferred) THEN deferred[i] ELSE piece[i - Len(deferred)]
    BY <1>1, ConcatProperties
  <2> QED BY <1>1, <2>1
<1>4. \A i \in 1 .. Len(deferred) : deferred'[i] = deferred[i]
  BY <1>2, <1>3
<1>5. deferred'[Len(deferred) + 1] = piece[1]
  BY <1>2, <1>3
<1> QED BY <1>3, <1>4, <1>5

(* What defer_write() puts on the list is in its place there.              *)
LEMMA DeferKeepsOrder ==
    ASSUME IInv, Len(piece) = 1, defer_write, piece' = <<>>, UNCHANGED <<got, asked>>
    PROVE  Order' /\ Chain'
<1> DEFINE d == Len(deferred)
<1>1. Len(piece') = 0
  OBVIOUS
<1>2. /\ Len(got) \in Nat /\ d \in Nat /\ asked \in Nat
      /\ \A i \in 1 .. Len(got) : got[i] \in Nat
      /\ \A i \in 1 .. d : deferred[i].from \in Nat /\ deferred[i].upto \in Nat
      /\ piece[1].from \in Nat /\ piece[1].upto \in Nat
  BY Elements DEF IInv, Types
<1>3. CASE ~ child
  <2>1. UNCHANGED deferred /\ ~ child'
    BY <1>3 DEF defer_write, tty
  <2> QED BY <1>1, <2>1 DEF IInv, Order, Chain, Increasing, Behind
<1>4. CASE child
  <2>1. /\ Len(deferred') = d + 1
        /\ \A i \in 1 .. d : deferred'[i] = deferred[i]
        /\ deferred'[d + 1] = piece[1]
    BY <1>4, Deferred DEF IInv
  <2> HIDE DEF d
  <2>2. /\ \A i \in 1 .. d - 1 : deferred[i].upto < deferred[i + 1].from
        /\ d > 0 => Behind(deferred[1].from)
        /\ IF d = 0 THEN Behind(piece[1].from) ELSE deferred[d].upto < piece[1].from
        /\ \A i \in 1 .. d : deferred[i].upto <= asked
        /\ piece[1].upto <= asked
        /\ Increasing /\ Behind(asked + 1)
    BY DEF IInv, Order, d
  <2>3. \A i \in 1 .. d : deferred'[i].upto < deferred'[i + 1].from
    <3> TAKE i \in 1 .. d
    <3>1. CASE i < d
      <4>1. i \in 1 .. d - 1 /\ i + 1 \in 1 .. d
        BY <1>2, <3>1
      <4> QED BY <2>1, <2>2, <4>1
    <3>2. CASE i = d
      BY <1>2, <2>1, <2>2, <3>2
    <3> QED BY <1>2, <3>1, <3>2
  <2>4. Behind(deferred'[1].from)
    <3>1. CASE d = 0
      BY <2>1, <2>2, <3>1
    <3>2. CASE d > 0
      <4>1. 1 \in 1 .. d
        BY <1>2, <3>2
      <4> QED BY <2>1, <2>2, <3>2, <4>1
    <3> QED BY <1>2, <3>1, <3>2
  <2>5. \A i \in 1 .. d + 1 : deferred'[i].upto <= asked
    <3> TAKE i \in 1 .. d + 1
    <3>1. i \in 1 .. d \/ i = d + 1
      BY <1>2
    <3> QED BY <2>1, <2>2, <3>1
  <2>6. Order'
    <3>1. Len(deferred') - 1 = d /\ Len(deferred') > 0 /\ ~ (Len(piece') > 0)
      BY <1>1, <1>2, <2>1
    <3>2. Increasing' /\ Behind(asked + 1)' /\ Behind(deferred[1].from)'
      BY <2>2, <2>4 DEF Increasing, Behind
    <3>3. \A i \in 1 .. Len(deferred') - 1 : deferred'[i].upto < deferred'[i + 1].from
      BY <2>3, <3>1
    <3>4. \A i \in 1 .. Len(deferred') : deferred'[i].upto <= asked'
      BY <2>1, <2>5
    <3> QED BY <3>1, <3>2, <3>3, <3>4 DEF Order
  <2>7. Chain'
    <3>1. /\ \A i \in 1 .. Len(got) : got[i] = i
          /\ d > 0 => deferred[1].from = Len(got) + 1
          /\ \A i \in 1 .. d - 1 : deferred[i + 1].from = deferred[i].upto + 1
          /\ piece[1].from = IF d = 0 THEN Len(got) + 1 ELSE deferred[d].upto + 1
          /\ asked = piece[1].upto
      BY <1>4 DEF IInv, Chain, NextByte, d
    <3>2. deferred'[1].from = Len(got) + 1
      <4>1. CASE d = 0
        BY <2>1, <3>1, <4>1
      <4>2. CASE d > 0
        <5>1. 1 \in 1 .. d
          BY <1>2, <4>2
        <5> QED BY <2>1, <3>1, <4>2, <5>1
      <4> QED BY <1>2, <4>1, <4>2
    <3>3. \A i \in 1 .. d : deferred'[i + 1].from = deferred'[i].upto + 1
      <4> TAKE i \in 1 .. d
      <4>1. CASE i < d
        <5>1. i \in 1 .. d - 1 /\ i + 1 \in 1 .. d
          BY <1>2, <4>1
        <5> QED BY <2>1, <3>1, <5>1
      <4>2. CASE i = d
        BY <1>2, <2>1, <3>1, <4>2
      <4> QED BY <1>2, <4>1, <4>2
    <3>4. asked + 1 = deferred'[d + 1].upto + 1
      BY <2>1, <3>1
    <3>5. Len(deferred') - 1 = d /\ Len(deferred') # 0
      BY <1>2, <2>1
    <3>6. \A i \in 1 .. Len(deferred') - 1 : deferred'[i + 1].from = deferred'[i].upto + 1
      BY <3>3, <3>5
    <3>7. NextByte' = deferred'[d + 1].upto + 1
      BY <2>1, <3>5 DEF NextByte
    <3> QED BY <1>1, <3>1, <3>2, <3>4, <3>6, <3>7 DEF Chain
  <2> QED BY <2>6, <2>7
<1> QED BY <1>3, <1>4

(* A piece that is given up when the terminal is closed.                   *)
LEMMA DroppedPiece ==
    ASSUME Order, piece' = <<>>, UNCHANGED <<got, deferred, asked>>, ~ child'
    PROVE  Order' /\ Chain'
<1>1. Len(piece') = 0
  OBVIOUS
<1> QED BY <1>1 DEF Order, Chain, Increasing, Behind

(* A new piece comes from right behind what was asked for before it.       *)
LEMMA NextPieceKeepsOrder ==
    ASSUME IInv, NextPiece
    PROVE  Order' /\ Chain'
<1> DEFINE size == Head(todo)
           d == Len(deferred)
<1>1. size \in Nat
  <2>1. todo \in Seq(Nat) /\ todo # <<>>
    BY DEF IInv, Types, TypeOK, NextPiece
  <2> QED BY <2>1, HeadTailProperties
<1>2. /\ Len(got) \in Nat /\ d \in Nat /\ asked \in Nat
      /\ \A i \in 1 .. Len(got) : got[i] \in Nat
      /\ \A i \in 1 .. d : deferred[i].from \in Nat /\ deferred[i].upto \in Nat
      /\ Len(piece) = 0
  BY Elements DEF IInv, Types, Control, NextPiece
<1>3. /\ piece' = <<[from |-> asked + 1, upto |-> asked + size]>>
      /\ asked' = asked + size
      /\ UNCHANGED <<got, deferred, child>>
  BY DEF NextPiece, tty, pty
<1> HIDE DEF size
<1>4. Len(piece') = 1 /\ piece'[1].from = asked + 1 /\ piece'[1].upto = asked + size
  BY <1>3
<1>5. Order'
  <2>1. Increasing' /\ Behind(asked + 1)' /\ (d > 0 => Behind(deferred[1].from)')
    <3>1. Increasing' /\ (d > 0 => Behind(deferred[1].from)')
      BY <1>3 DEF IInv, Order, Increasing, Behind
    <3>2. Len(got) > 0 => got[Len(got)] < asked + 1 /\ got[Len(got)] \in Nat
      <4>1. Len(got) > 0 => Len(got) \in 1 .. Len(got)
        BY <1>2
      <4> QED BY <1>2, <4>1 DEF IInv, Order, Behind
    <3>3. Len(got) > 0 => got[Len(got)] < asked + size + 1
      BY <1>1, <1>2, <3>2
    <3> QED BY <1>3, <3>1, <3>3 DEF Behind
  <2>2. IF d = 0 THEN Behind(piece[1].from)' ELSE deferred[d].upto < piece'[1].from
    <3>1. CASE d = 0
      BY <1>3, <1>4, <3>1 DEF IInv, Order, Behind
    <3>2. CASE d > 0
      <4>1. d \in 1 .. d
        BY <1>2, <3>2
      <4>2. deferred[d].upto <= asked /\ deferred[d].upto \in Nat
        BY <1>2, <4>1 DEF IInv, Order
      <4> QED BY <1>2, <1>4, <3>2, <4>2
    <3> QED BY <1>2, <3>1, <3>2
  <2>3. \A i \in 1 .. d : deferred[i].upto <= asked + size
    <3> TAKE i \in 1 .. d
    <3>1. deferred[i].upto <= asked /\ deferred[i].upto \in Nat
      BY <1>2 DEF IInv, Order
    <3> QED BY <1>1, <1>2, <3>1
  <2>4. \A i \in 1 .. Len(deferred) - 1 : deferred[i].upto < deferred[i + 1].from
    BY DEF IInv, Order
  <2>5. Len(deferred') = d /\ deferred' = deferred
    BY <1>3
  <2>6. piece'[1].upto <= asked'
    BY <1>1, <1>2, <1>3, <1>4
  <2>7. Len(piece') > 0 =>
            IF Len(deferred') = 0 THEN Behind(piece[1].from)'
            ELSE deferred'[Len(deferred')].upto < piece'[1].from
    BY <2>2, <2>5
  <2>8. \A i \in 1 .. Len(deferred') : deferred'[i].upto <= asked'
    BY <1>3, <2>3, <2>5
  <2> QED BY <1>3, <2>1, <2>4, <2>5, <2>6, <2>7, <2>8 DEF Order
<1>6. Chain'
  <2> SUFFICES ASSUME child
               PROVE  Chain'
    BY <1>3 DEF Chain
  <2>1. /\ \A i \in 1 .. Len(got) : got[i] = i
        /\ d > 0 => deferred[1].from = Len(got) + 1
        /\ \A i \in 1 .. d - 1 : deferred[i + 1].from = deferred[i].upto + 1
        /\ asked + 1 = NextByte
    BY <1>2, <1>3 DEF IInv, Chain
  <2>2. NextByte' = NextByte
    BY <1>3 DEF NextByte
  <2> QED BY <1>3, <1>4, <2>1, <2>2 DEF Chain
<1> QED BY <1>5, <1>6

(* What a write takes is a part of what there is.                          *)
LEMMA AtMostLeft ==
    ASSUME NEW r \in Bytes, NEW k \in Takes(AtMost(Left(r)))
    PROVE  /\ k \in 1 .. Left(r) /\ k <= Room
           /\ Advance(r, k) \in Bytes
           /\ Advance(r, k).from = r.from + k /\ Advance(r, k).upto = r.upto
           /\ k # Left(r) => r.from + k <= r.upto
<1>1. r.from \in Nat /\ r.upto \in Nat /\ Left(r) \in Int /\ Left(r) = r.upto - r.from + 1
  BY DEF Bytes, Left
<1>2. k \in 1 .. AtMost(Left(r)) /\ k <= Room
  BY DEF Takes
<1>3. AtMost(Left(r)) \in Int /\ AtMost(Left(r)) <= Left(r)
  BY <1>1, TtyAssumption DEF AtMost
<1>4. k \in 1 .. Left(r)
  BY <1>1, <1>2, <1>3
<1>5. r = [from |-> r.from, upto |-> r.upto]
  BY DEF Bytes
<1>6. Advance(r, k) = [from |-> r.from + k, upto |-> r.upto]
  BY <1>5 DEF Advance
<1>7. Advance(r, k) \in Bytes
  BY <1>1, <1>4, <1>6 DEF Bytes
<1>8. k # Left(r) => r.from + k <= r.upto
  BY <1>1, <1>4
<1> QED BY <1>2, <1>4, <1>6, <1>7, <1>8

(* The loop of tty_write_raw() writes with nothing deferred before it.     *)
LEMMA WriteSomeKeepsOrder ==
    ASSUME IInv, WriteSome
    PROVE  Order' /\ Chain'
<1> DEFINE r == piece[1]
<1>1. /\ Len(got) \in Nat /\ asked \in Nat
      /\ Len(deferred) = 0 /\ Len(piece) = 1
      /\ r \in Bytes /\ r.from \in Nat /\ r.upto \in Nat
      /\ TypeOK
  BY Elements DEF IInv, Types, Control, WriteSome
<1>2. PICK k \in Takes(AtMost(Left(r))) :
          /\ Put(r, k)
          /\ IF k = Left(r) THEN piece' = <<>> ELSE piece' = <<Advance(r, k)>>
  BY DEF WriteSome
<1>3. /\ k \in 1 .. Left(r) /\ Left(r) = r.upto - r.from + 1
      /\ k # Left(r) => r.from + k <= r.upto
      /\ Advance(r, k).from = r.from + k /\ Advance(r, k).upto = r.upto
  BY <1>1, AtMostLeft DEF Left
<1>4. UNCHANGED <<deferred, child, asked>> /\ Len(deferred') = 0
  BY <1>1 DEF WriteSome, tty
<1>5. Behind(r.from) /\ Increasing /\ r.upto <= asked
  BY <1>1 DEF IInv, Order
<1> HIDE DEF r
<1>6. Increasing' /\ got'[Len(got')] = r.from + k - 1 /\ Len(got') > 0
  BY <1>1, <1>2, <1>3, <1>5, PutOrder
<1>7. k = Left(r) => Len(piece') = 0 /\ r.from + k - 1 = r.upto
  BY <1>1, <1>2, <1>3
<1>8. k # Left(r) => /\ Len(piece') = 1 /\ piece'[1].from = r.from + k
                     /\ piece'[1].upto = r.upto
  BY <1>2, <1>3
<1>9. Behind(asked + 1)'
  <2>1. r.from + k - 1 < asked + 1
    BY <1>1, <1>3, <1>5, <1>7
  <2> QED BY <1>4, <1>6, <2>1 DEF Behind
<1>10. Order'
  <2>1. Len(piece') > 0 => Behind(piece[1].from)' /\ piece'[1].upto <= asked'
    <3>1. CASE k = Left(r)
      BY <1>7, <3>1
    <3>2. CASE k # Left(r)
      <4>1. r.from + k - 1 < r.from + k
        BY <1>1, <1>3
      <4> QED BY <1>4, <1>5, <1>6, <1>8, <3>2, <4>1 DEF Behind
    <3> QED BY <3>1, <3>2
  <2> QED BY <1>4, <1>6, <1>9, <2>1 DEF Order
<1>11. Chain'
  <2> SUFFICES ASSUME child
               PROVE  Chain'
    BY <1>4 DEF Chain
  <2>1. /\ \A i \in 1 .. Len(got) : got[i] = i
        /\ r.from = Len(got) + 1 /\ asked = r.upto
    BY <1>1 DEF IInv, Chain, NextByte, r
  <2>2. (\A i \in 1 .. Len(got') : got'[i] = i) /\ Len(got') = r.from + k - 1
    BY <1>1, <1>2, <1>3, <2>1, PutChain
  <2>3. NextByte' = r.from + k
    BY <1>1, <1>3, <1>4, <2>2 DEF NextByte
  <2>4. IF Len(piece') = 0 THEN asked' + 1 = NextByte'
        ELSE piece'[1].from = NextByte' /\ asked' = piece'[1].upto
    <3>1. CASE k = Left(r)
      <4>1. asked + 1 = r.from + k
        BY <1>1, <1>3, <1>7, <2>1, <3>1
      <4>2. Len(piece') = 0 /\ asked' = asked
        BY <1>4, <1>7, <3>1
      <4>3. asked' + 1 = NextByte'
        BY <2>3, <4>1, <4>2
      <4> QED BY <4>2, <4>3
    <3>2. CASE k # Left(r)
      <4>1. Len(piece') = 1 /\ piece'[1].from = r.from + k /\ piece'[1].upto = r.upto
        BY <1>8, <3>2
      <4>2. asked' = r.upto
        BY <1>4, <2>1
      <4>3. Len(piece') # 0
        BY <4>1
      <4> QED BY <2>3, <4>1, <4>2, <4>3
    <3> QED BY <3>1, <3>2
  <2> QED BY <1>4, <2>2, <2>4 DEF Chain
<1> QED BY <1>10, <1>11

(* flush_deferred() writes from the head, and steps to the next node only  *)
(* when it is through.                                                     *)
LEMMA FlushSomeKeepsOrder ==
    ASSUME IInv, FlushSome
    PROVE  Order' /\ Chain'
<1> DEFINE r == deferred[1]
           d == Len(deferred)
<1>1. /\ Len(got) \in Nat /\ asked \in Nat /\ d \in Nat /\ d > 0
      /\ \A i \in 1 .. d : deferred[i].from \in Nat /\ deferred[i].upto \in Nat
      /\ r \in Bytes /\ r.from \in Nat /\ r.upto \in Nat
      /\ TypeOK /\ deferred \in Seq(Bytes) /\ deferred # <<>>
  <2>1. /\ Len(got) \in Nat /\ asked \in Nat /\ d \in Nat
        /\ \A i \in 1 .. d : deferred[i] \in Bytes /\ deferred[i].from \in Nat /\ deferred[i].upto \in Nat
        /\ TypeOK /\ deferred \in Seq(Bytes) /\ deferred # <<>> /\ d # 0
    BY Elements DEF IInv, Types, TypeOK, FlushSome
  <2>2. 1 \in 1 .. d
    BY <2>1
  <2> QED BY <2>1, <2>2
<1>2. PICK k \in Takes(AtMost(Left(r))) :
          /\ Put(r, k)
          /\ IF k = Left(r) THEN deferred' = Tail(deferred)
             ELSE deferred' = [deferred EXCEPT ![1] = Advance(r, k)]
  BY <1>1 DEF FlushSome
<1>3. /\ k \in 1 .. Left(r) /\ Left(r) = r.upto - r.from + 1
      /\ k # Left(r) => r.from + k <= r.upto
      /\ Advance(r, k) \in Bytes
      /\ Advance(r, k).from = r.from + k /\ Advance(r, k).upto = r.upto
  BY <1>1, AtMostLeft DEF Left
<1>4. UNCHANGED <<piece, child, asked>>
  BY DEF FlushSome, call
<1>5. /\ Increasing /\ Behind(r.from)
      /\ \A i \in 1 .. d - 1 : deferred[i].upto < deferred[i + 1].from
      /\ Len(piece) > 0 => deferred[d].upto < piece[1].from /\ piece[1].upto <= asked
      /\ \A i \in 1 .. d : deferred[i].upto <= asked
  BY <1>1 DEF IInv, Order
<1>6. k = Left(r) => /\ Len(deferred') = d - 1
                     /\ \A i \in 1 .. d - 1 : deferred'[i] = deferred[i + 1]
                     /\ r.from + k - 1 = r.upto
  <2> SUFFICES ASSUME k = Left(r)
               PROVE  /\ Len(deferred') = d - 1
                      /\ \A i \in 1 .. d - 1 : deferred'[i] = deferred[i + 1]
                      /\ r.from + k - 1 = r.upto
    OBVIOUS
  <2>1. /\ Len(Tail(deferred)) = d - 1
        /\ \A i \in 1 .. Len(Tail(deferred)) : Tail(deferred)[i] = deferred[i + 1]
    BY <1>1, HeadTailProperties
  <2>2. r.from + k - 1 = r.upto
    BY <1>1, <1>3
  <2> QED BY <1>2, <2>1, <2>2
<1>7. k # Left(r) => /\ Len(deferred') = d
                     /\ deferred'[1].from = r.from + k /\ deferred'[1].upto = r.upto
                     /\ \A i \in 2 .. d : deferred'[i] = deferred[i]
  <2>1. 1 \in 1 .. d
    BY <1>1
  <2>2. /\ Len([deferred EXCEPT ![1] = Advance(r, k)]) = d
        /\ \A j \in 1 .. d : [deferred EXCEPT ![1] = Advance(r, k)][j] =
                              IF j = 1 THEN Advance(r, k) ELSE deferred[j]
    BY <1>1, <1>3, <2>1, ExceptSeq
  <2>3. \A i \in 2 .. d : i \in 1 .. d /\ i # 1
    BY <1>1
  <2> QED BY <1>2, <1>3, <2>1, <2>2, <2>3
<1> HIDE DEF r, d
<1>8. Increasing' /\ got'[Len(got')] = r.from + k - 1 /\ Len(got') > 0
  BY <1>1, <1>2, <1>3, <1>5, PutOrder
<1>9. Behind(asked + 1)'
  <2>1. r.upto <= asked
    <3>1. 1 \in 1 .. d
      BY <1>1
    <3> QED BY <1>5, <3>1 DEF r
  <2>2. r.from + k - 1 < asked + 1
    BY <1>1, <1>3, <2>1
  <2> QED BY <1>4, <1>8, <2>2 DEF Behind
<1>10. CASE k = Left(r)
  <2>1. /\ Len(deferred') = d - 1
        /\ \A i \in 1 .. d - 1 : deferred'[i] = deferred[i + 1]
        /\ r.from + k - 1 = r.upto /\ got'[Len(got')] = r.upto
    BY <1>1, <1>3, <1>6, <1>8, <1>10
  <2>2. d - 1 > 0 => deferred'[1] = deferred[2] /\ deferred'[d - 1] = deferred[d]
                     /\ 1 \in 1 .. d - 1
    <3> SUFFICES ASSUME d - 1 > 0
                 PROVE  deferred'[1] = deferred[2] /\ deferred'[d - 1] = deferred[d]
                        /\ 1 \in 1 .. d - 1
      OBVIOUS
    <3>1. 1 \in 1 .. d - 1 /\ d - 1 \in 1 .. d - 1 /\ 1 + 1 = 2 /\ d - 1 + 1 = d
      BY <1>1
    <3> QED BY <2>1, <3>1
  <2>3. d - 1 = 0 => deferred[d] = r
    BY <1>1 DEF r
  <2>4. Order'
    <3>1. \A i \in 1 .. Len(deferred') - 1 : deferred'[i].upto < deferred'[i + 1].from
      <4> TAKE i \in 1 .. Len(deferred') - 1
      <4>1. i \in 1 .. d - 1 /\ i + 1 \in 1 .. d - 1
        BY <1>1, <2>1
      <4> QED BY <1>5, <2>1, <4>1
    <3>2. Len(deferred') > 0 => Behind(deferred[1].from)'
      <4> SUFFICES ASSUME d - 1 > 0
                   PROVE  r.upto < deferred'[1].from
        BY <1>8, <2>1 DEF Behind
      <4>1. r.upto < deferred[1 + 1].from
        BY <1>5, <2>2 DEF r
      <4> QED BY <2>2, <4>1
    <3>3. Len(piece') > 0 =>
              IF Len(deferred') = 0 THEN Behind(piece[1].from)'
              ELSE deferred'[Len(deferred')].upto < piece'[1].from
      <4> SUFFICES ASSUME Len(piece) > 0
                   PROVE  IF d - 1 = 0 THEN r.upto < piece[1].from
                          ELSE deferred'[d - 1].upto < piece[1].from
        BY <1>4, <1>8, <2>1 DEF Behind
      <4>1. d - 1 # 0 => d - 1 > 0
        BY <1>1
      <4> QED BY <1>5, <2>2, <2>3, <4>1
    <3>4. \A i \in 1 .. Len(deferred') : deferred'[i].upto <= asked'
      <4> TAKE i \in 1 .. Len(deferred')
      <4>1. i \in 1 .. d - 1 /\ i + 1 \in 1 .. d
        BY <1>1, <2>1
      <4> QED BY <1>4, <1>5, <2>1, <4>1
    <3> QED BY <1>4, <1>5, <1>8, <1>9, <3>1, <3>2, <3>3, <3>4 DEF Order
  <2>5. Chain'
    <3> SUFFICES ASSUME child
                 PROVE  Chain'
      BY <1>4 DEF Chain
    <3>1. /\ \A i \in 1 .. Len(got) : got[i] = i
          /\ r.from = Len(got) + 1
          /\ \A i \in 1 .. d - 1 : deferred[i + 1].from = deferred[i].upto + 1
          /\ NextByte = deferred[d].upto + 1
          /\ IF Len(piece) = 0 THEN asked + 1 = NextByte
             ELSE piece[1].from = NextByte /\ asked = piece[1].upto
      BY <1>1 DEF IInv, Chain, NextByte, r, d
    <3>2. (\A i \in 1 .. Len(got') : got'[i] = i) /\ Len(got') = r.upto
      BY <1>1, <1>2, <1>3, <2>1, <3>1, PutChain
    <3>3. Len(deferred') > 0 => deferred'[1].from = Len(got') + 1
      <4>1. d - 1 > 0 => deferred[1 + 1].from = r.upto + 1
        BY <2>2, <3>1 DEF r
      <4> QED BY <2>1, <2>2, <3>2, <4>1
    <3>4. \A i \in 1 .. Len(deferred') - 1 : deferred'[i + 1].from = deferred'[i].upto + 1
      <4> TAKE i \in 1 .. Len(deferred') - 1
      <4>1. i \in 1 .. d - 1 /\ i + 1 \in 1 .. d - 1
        BY <1>1, <2>1
      <4> QED BY <2>1, <3>1, <4>1
    <3>5. NextByte' = NextByte
      <4>1. CASE d - 1 = 0
        BY <2>1, <2>3, <3>1, <3>2, <4>1 DEF NextByte
      <4>2. CASE d - 1 # 0
        <5>1. d - 1 > 0
          BY <1>1, <4>2
        <5> QED BY <2>1, <2>2, <3>1, <4>2, <5>1 DEF NextByte
      <4> QED BY <4>1, <4>2
    <3> QED BY <1>4, <3>1, <3>2, <3>3, <3>4, <3>5 DEF Chain
  <2> QED BY <2>4, <2>5
<1>11. CASE k # Left(r)
  <2>1. /\ Len(deferred') = d
        /\ deferred'[1].from = r.from + k /\ deferred'[1].upto = r.upto
        /\ \A i \in 2 .. d : deferred'[i] = deferred[i]
        /\ got'[Len(got')] = r.from + k - 1
    BY <1>7, <1>8, <1>11
  <2>2. \A i \in 1 .. d : deferred'[i].upto = deferred[i].upto
    <3> TAKE i \in 1 .. d
    <3>1. i = 1 \/ i \in 2 .. d
      BY <1>1
    <3> QED BY <2>1, <3>1 DEF r
  <2>3. \A i \in 1 .. d - 1 : deferred'[i + 1] = deferred[i + 1] /\ i \in 1 .. d
    <3> TAKE i \in 1 .. d - 1
    <3>1. i + 1 \in 2 .. d /\ i \in 1 .. d
      BY <1>1
    <3> QED BY <2>1, <3>1
  <2>4. d \in 1 .. d /\ Len(deferred') # 0
    BY <1>1, <2>1
  <2>5. Order'
    <3>1. \A i \in 1 .. Len(deferred') - 1 : deferred'[i].upto < deferred'[i + 1].from
      BY <1>5, <2>1, <2>2, <2>3
    <3>2. Behind(deferred[1].from)'
      <4>1. r.from + k - 1 < r.from + k
        BY <1>1, <1>3
      <4> QED BY <2>1, <4>1 DEF Behind
    <3>3. Len(piece') > 0 => deferred'[Len(deferred')].upto < piece'[1].from
      BY <1>4, <1>5, <2>1, <2>2, <2>4
    <3>4. \A i \in 1 .. Len(deferred') : deferred'[i].upto <= asked'
      BY <1>4, <1>5, <2>1, <2>2
    <3> QED BY <1>4, <1>5, <1>8, <1>9, <2>4, <3>1, <3>2, <3>3, <3>4 DEF Order
  <2>6. Chain'
    <3> SUFFICES ASSUME child
                 PROVE  Chain'
      BY <1>4 DEF Chain
    <3>1. /\ \A i \in 1 .. Len(got) : got[i] = i
          /\ r.from = Len(got) + 1
          /\ \A i \in 1 .. d - 1 : deferred[i + 1].from = deferred[i].upto + 1
          /\ NextByte = deferred[d].upto + 1
          /\ IF Len(piece) = 0 THEN asked + 1 = NextByte
             ELSE piece[1].from = NextByte /\ asked = piece[1].upto
      BY <1>1 DEF IInv, Chain, NextByte, r, d
    <3>2. (\A i \in 1 .. Len(got') : got'[i] = i) /\ Len(got') = r.from + k - 1
      BY <1>1, <1>2, <1>3, <3>1, PutChain
    <3>3. deferred'[1].from = Len(got') + 1
      BY <1>1, <1>3, <2>1, <3>2
    <3>4. \A i \in 1 .. Len(deferred') - 1 : deferred'[i + 1].from = deferred'[i].upto + 1
      BY <2>1, <2>2, <2>3, <3>1
    <3>5. NextByte' = NextByte
      BY <2>1, <2>2, <2>4, <3>1 DEF NextByte
    <3> QED BY <1>4, <3>1, <3>2, <3>3, <3>4, <3>5 DEF Chain
  <2> QED BY <2>5, <2>6
<1> QED BY <1>10, <1>11

----------------------------------------------------------------------------
(* The order of what is written, for every action                          *)
LEMMA OrderKept ==
    ASSUME IInv, [Next]_vars
    PROVE  Order' /\ Chain'
<1>1. Order /\ Chain /\ TypeOK /\ (piece = <<>> <=> Len(piece) = 0) /\ Len(piece) \in {0, 1}
  BY Elements DEF IInv, Types
<1>2. CASE FlushSome
  BY <1>2, FlushSomeKeepsOrder
<1>3. CASE FlushEnds
  BY <1>1, <1>3, SameOrder DEF FlushEnds, call, pty
<1>4. CASE FlushStops
  <2>1. CASE piece = <<>>
    BY <1>1, <1>4, <2>1, SameOrder DEF FlushStops, Abandon, tty, pty
  <2>2. CASE piece # <<>>
    <3>1. Len(piece) = 1 /\ defer_write /\ piece' = <<>> /\ UNCHANGED <<got, asked>>
      BY <1>1, <1>4, <2>2 DEF FlushStops, Abandon, pty
    <3> QED BY <3>1, DeferKeepsOrder
  <2> QED BY <2>1, <2>2
<1>5. CASE FlushFails
  BY <1>1, <1>5, DroppedPiece DEF FlushFails, Abandon, tty_hang, pty
<1>6. CASE FlushFreed
  BY <1>1, <1>6, SameOrder DEF FlushFreed, tty, call, pty
<1>7. CASE NextPiece
  BY <1>7, NextPieceKeepsOrder
<1>8. CASE WriteReturns
  BY <1>1, <1>8, SameOrder DEF WriteReturns, tty, call, pty
<1>9. CASE WriteSome
  BY <1>9, WriteSomeKeepsOrder
<1>10. CASE WriteStops
  <2>1. Len(piece) = 1 /\ defer_write /\ piece' = <<>> /\ UNCHANGED <<got, asked>>
    BY <1>1, <1>10 DEF WriteStops, Abandon, pty, IInv, Control
  <2> QED BY <2>1, DeferKeepsOrder
<1>11. CASE WriteFails
  BY <1>1, <1>11, DroppedPiece DEF WriteFails, Abandon, tty_hang, pty
<1>12. CASE \E sizes \in Writes : Ask(sizes)
  BY <1>1, <1>12, SameOrder DEF Ask, tty, pty
<1>13. CASE RefillFails
  BY <1>1, <1>13, SameOrder DEF RefillFails, tty_hang, call, pty
<1>14. CASE Refill
  BY <1>1, <1>14, SameOrder DEF Refill, tty, call, pty
<1>15. CASE \E enable \in BOOLEAN : ToggleRead(enable)
  BY <1>1, <1>15, SameOrder DEF ToggleRead, call, pty
<1>16. CASE Hang
  BY <1>1, <1>16, SameOrder DEF Hang, tty_hang, tty, call, pty
<1>17. CASE FreeTerm
  BY <1>1, <1>17, SameOrder DEF FreeTerm, tty_hang, tty, call, pty
<1>18. CASE Take
  BY <1>1, <1>18, SameOrder DEF Take, tty, call
<1>19. CASE CloseSlave
  BY <1>1, <1>19, SameOrder DEF CloseSlave, tty, call
<1>20. CASE Sigchld
  BY <1>1, <1>20, SameOrder DEF Sigchld, call, pty
<1>21. CASE UNCHANGED vars
  BY <1>1, <1>21, SameOrder DEF vars, tty, call, pty
<1> QED BY <1>2, <1>3, <1>4, <1>5, <1>6, <1>7, <1>8, <1>9, <1>10, <1>11, <1>12, <1>13, <1>14,
           <1>15, <1>16, <1>17, <1>18, <1>19, <1>20, <1>21 DEF Next, Step

----------------------------------------------------------------------------
(* What write(2) takes is room the pty has.                                *)
LEMMA PutTypes ==
    ASSUME TypeOK, NEW r \in Bytes, NEW k \in 1 .. Left(r), k <= Room, Put(r, k)
    PROVE  got' \in Seq(Nat) /\ taken' \in 0 .. Len(got') /\ Room' >= 0 /\ open' \in BOOLEAN
<1>1. got' \in Seq(Nat) /\ Len(got') = Len(got) + k
  BY PutGot
<1>2. taken' = taken /\ open' = open
  BY DEF Put
<1>3. taken \in 0 .. Len(got) /\ Len(got) \in Nat /\ k \in Nat /\ Capacity \in Nat
  BY TtyAssumption DEF TypeOK, Left, Bytes
<1>4. taken' \in 0 .. Len(got')
  BY <1>1, <1>2, <1>3
<1>5. Room' = Room - k /\ Room \in Int
  BY <1>1, <1>2, <1>3 DEF Room
<1>6. Room' >= 0
  BY <1>3, <1>5
<1>7. open' \in BOOLEAN
  BY <1>2 DEF TypeOK
<1> QED BY <1>1, <1>4, <1>6, <1>7

(* The list is counted node by node, in defer_write() ...                  *)
LEMMA DeferTypes ==
    ASSUME Types, Control, Len(piece) = 1, defer_write
    PROVE  /\ deferred' \in Seq(Bytes) /\ count' = Len(deferred') /\ count' \in Nat
           /\ mask' \subseteq {"in", "out"} /\ on' \in BOOLEAN
           /\ fd' = fd /\ child' = child /\ freed' = freed
<1>1. /\ deferred \in Seq(Bytes) /\ piece \in Seq(Bytes) /\ count = Len(deferred) /\ count \in Nat
      /\ mask \subseteq {"in", "out"} /\ on \in BOOLEAN
  BY DEF Types, TypeOK
<1>2. CASE ~ child
  BY <1>1, <1>2 DEF defer_write, tty
<1>3. CASE child
  <2>1. deferred' \in Seq(Bytes) /\ Len(deferred') = Len(deferred) + 1
    BY <1>3, Deferred
  <2>2. count' = count + 1 /\ fd' = fd /\ child' = child /\ freed' = freed
    BY <1>3 DEF defer_write
  <2>3. mask' \subseteq {"in", "out"} /\ on' \in BOOLEAN
    BY <1>1, <1>3 DEF defer_write, SetMask
  <2> QED BY <1>1, <2>1, <2>2, <2>3
<1> QED BY <1>2, <1>3

(* ... and in flush_deferred().                                            *)
LEMMA FlushSomeTypes ==
    ASSUME IInv, FlushSome
    PROVE  Types'
<1>1. /\ TypeOK /\ count = Len(deferred) /\ deferred \in Seq(Bytes) /\ deferred # <<>>
      /\ Len(deferred) \in Nat \ {0} /\ deferred[1] \in Bytes
  <2>1. /\ TypeOK /\ count = Len(deferred) /\ deferred \in Seq(Bytes) /\ deferred # <<>>
        /\ Len(deferred) \in Nat \ {0}
    BY EmptySeq DEF IInv, Types, TypeOK, FlushSome
  <2>2. 1 \in 1 .. Len(deferred)
    BY <2>1
  <2> QED BY <2>1, <2>2, ElementOfSeq
<1> DEFINE r == deferred[1]
<1>2. PICK k \in Takes(AtMost(Left(r))) :
          /\ Put(r, k)
          /\ IF k = Left(r) THEN deferred' = Tail(deferred) /\ count' = count - 1
             ELSE deferred' = [deferred EXCEPT ![1] = Advance(r, k)] /\ count' = count
  BY <1>1 DEF FlushSome
<1>3. k \in 1 .. Left(r) /\ k <= Room /\ Advance(r, k) \in Bytes
  BY <1>1, AtMostLeft
<1>4. got' \in Seq(Nat) /\ taken' \in 0 .. Len(got') /\ Room' >= 0 /\ open' \in BOOLEAN
  BY <1>1, <1>2, <1>3, PutTypes
<1>5. deferred' \in Seq(Bytes) /\ count' = Len(deferred')
  <2>1. CASE k = Left(r)
    <3>1. Tail(deferred) \in Seq(Bytes) /\ Len(Tail(deferred)) = Len(deferred) - 1
      BY <1>1, HeadTailProperties
    <3> QED BY <1>1, <1>2, <2>1, <3>1
  <2>2. CASE k # Left(r)
    <3>1. 1 \in 1 .. Len(deferred)
      BY <1>1
    <3>2. /\ [deferred EXCEPT ![1] = Advance(r, k)] \in Seq(Bytes)
          /\ Len([deferred EXCEPT ![1] = Advance(r, k)]) = Len(deferred)
      BY <1>1, <1>3, <3>1, ExceptSeq
    <3> QED BY <1>1, <1>2, <2>2, <3>2
  <2> QED BY <2>1, <2>2
<1>6. count' \in Nat
  BY <1>5
<1>7. UNCHANGED <<fd, child, mask, on, freed, pc, todo, piece, asked>>
  BY DEF FlushSome, call
<1> QED BY <1>1, <1>4, <1>5, <1>6, <1>7 DEF Types, TypeOK

(* The piece that is being written gets shorter, or is through.            *)
LEMMA WriteSomeTypes ==
    ASSUME IInv, WriteSome
    PROVE  Types'
<1> DEFINE r == piece[1]
<1>1. TypeOK /\ count = Len(deferred) /\ r \in Bytes
  BY Elements DEF IInv, Types, Control, WriteSome
<1>2. PICK k \in Takes(AtMost(Left(r))) :
          /\ Put(r, k)
          /\ IF k = Left(r) THEN piece' = <<>> /\ pc' = "pieces"
             ELSE piece' = <<Advance(r, k)>> /\ pc' = pc
  BY DEF WriteSome
<1>3. k \in 1 .. Left(r) /\ k <= Room /\ Advance(r, k) \in Bytes
  BY <1>1, AtMostLeft
<1>4. got' \in Seq(Nat) /\ taken' \in 0 .. Len(got') /\ Room' >= 0 /\ open' \in BOOLEAN
  BY <1>1, <1>2, <1>3, PutTypes
<1> HIDE DEF r
<1>5. /\ piece' \in Seq(Bytes) /\ Len(piece') <= 1
      /\ pc' \in {"pieces", "write"} /\ (pc' = "write" => piece' # <<>>)
  <2>1. pc = "write"
    BY DEF WriteSome
  <2>2. <<>> \in Seq(Bytes) /\ Len(<<>>) <= 1
    BY EmptySeq
  <2>3. CASE k = Left(r)
    BY <1>2, <2>2, <2>3
  <2>4. CASE k # Left(r)
    <3> DEFINE a == Advance(r, k)
    <3>1. a \in Bytes /\ piece' = <<a>> /\ pc' = "write"
      BY <1>2, <1>3, <2>1, <2>4
    <3> HIDE DEF a
    <3>2. <<a>> \in Seq(Bytes) /\ Len(<<a>>) <= 1 /\ <<a>> # <<>>
      BY <3>1
    <3> QED BY <3>1, <3>2
  <2> QED BY <2>3, <2>4
<1>6. UNCHANGED <<fd, child, mask, on, deferred, count, freed, todo, asked>>
  BY DEF WriteSome, tty
<1> QED BY <1>1, <1>4, <1>5, <1>6 DEF Types, TypeOK

(* A piece of tty_write(), of no byte at all maybe.                        *)
LEMMA NextPieceTypes ==
    ASSUME IInv, NextPiece
    PROVE  Types'
<1>1. TypeOK /\ count = Len(deferred) /\ todo \in Seq(Nat) /\ todo # <<>> /\ asked \in Nat
  BY DEF IInv, Types, TypeOK, NextPiece
<1>2. Head(todo) \in Nat /\ Tail(todo) \in Seq(Nat)
  BY <1>1, HeadTailProperties
<1> DEFINE r == [from |-> asked + 1, upto |-> asked + Head(todo)]
<1>3. r \in Bytes
  BY <1>1, <1>2 DEF Bytes
<1>4. piece' = <<r>> /\ asked' = asked + Head(todo) /\ todo' = Tail(todo)
  BY DEF NextPiece
<1> HIDE DEF r
<1>5. piece' \in Seq(Bytes) /\ Len(piece') <= 1 /\ piece' # <<>> /\ asked' \in Nat
      /\ todo' \in Seq(Nat)
  BY <1>1, <1>2, <1>3, <1>4
<1>6. pc' \in {"write", "flush"} /\ UNCHANGED <<tty, pty>>
  BY DEF NextPiece
<1> QED BY <1>1, <1>5, <1>6 DEF Types, TypeOK, tty, pty, Room

(* The types, for every action                                             *)
LEMMA TypesKept ==
    ASSUME IInv, [Next]_vars
    PROVE  Types'
<1>1. /\ TypeOK /\ count = Len(deferred) /\ Types /\ Control
      /\ (piece = <<>> <=> Len(piece) = 0) /\ Len(piece) \in {0, 1}
      /\ <<>> \in Seq(Bytes) /\ Len(<<>>) <= 1
  BY Elements, EmptySeq DEF IInv, Types
<1>2. ASSUME tty_hang, pc' # "write", UNCHANGED <<asked, todo, pty>>,
             piece' \in Seq(Bytes), Len(piece') <= 1,
             pc' \in {"idle", "pieces", "flush", "freed", "undefined"}
      PROVE  Types'
  <2>1. UNCHANGED <<deferred, count, asked, todo, got, taken, open>>
        /\ fd' \in BOOLEAN /\ child' \in BOOLEAN /\ on' \in BOOLEAN /\ freed' \in BOOLEAN
        /\ mask' \subseteq {"in", "out"}
    BY <1>2 DEF tty_hang, pty
  <2> QED BY <1>1, <1>2, <2>1 DEF Types, TypeOK, Room
<1>3. ASSUME defer_write, Len(piece) = 1, Abandon
      PROVE  Types'
  <2>1. /\ deferred' \in Seq(Bytes) /\ count' = Len(deferred') /\ count' \in Nat
        /\ mask' \subseteq {"in", "out"} /\ on' \in BOOLEAN
        /\ fd' = fd /\ child' = child /\ freed' = freed
    BY <1>1, <1>3, DeferTypes
  <2>2. piece' = <<>> /\ pc' \in {"idle", "pieces"} /\ UNCHANGED <<todo, asked, got, taken, open>>
    BY <1>3 DEF Abandon, pty
  <2> QED BY <1>1, <2>1, <2>2 DEF Types, TypeOK, Room
<1>4. ASSUME NEW m \in SUBSET {"in", "out"}, SetMask(m)
      PROVE  mask' \subseteq {"in", "out"} /\ on' \in BOOLEAN
  BY <1>1, <1>4 DEF SetMask, TypeOK
<1>5. CASE FlushEnds
  <2>1. mask' \subseteq {"in", "out"} /\ on' \in BOOLEAN
    BY <1>1, <1>4, <1>5 DEF FlushEnds, TypeOK
  <2>2. pc' \in {"idle", "write"} /\ (pc' = "write" => piece # <<>>)
    BY <1>5 DEF FlushEnds
  <2>3. UNCHANGED <<fd, child, deferred, count, freed, todo, piece, asked, got, taken, open>>
    BY <1>5 DEF FlushEnds, call, pty
  <2> QED BY <1>1, <2>1, <2>2, <2>3 DEF Types, TypeOK, Room
<1>6. CASE FlushStops
  <2>1. CASE piece = <<>>
    <3>1. pc' = "idle" /\ piece' = <<>> /\ UNCHANGED <<tty, todo, asked, pty>>
      BY <1>6, <2>1 DEF FlushStops, Abandon
    <3> QED BY <1>1, <3>1 DEF Types, TypeOK, Room, tty, pty
  <2>2. CASE piece # <<>>
    BY <1>1, <1>3, <1>6, <2>2 DEF FlushStops
  <2> QED BY <2>1, <2>2
<1>7. CASE FlushFails
  BY <1>1, <1>2, <1>7 DEF FlushFails, Abandon
<1>8. CASE FlushFreed
  BY <1>1, <1>8 DEF FlushFreed, Types, TypeOK, Room, tty, call, pty
<1>9. CASE WriteReturns
  BY <1>1, <1>9 DEF WriteReturns, Types, TypeOK, Room, tty, call, pty
<1>10. CASE WriteStops
  BY <1>1, <1>3, <1>10 DEF WriteStops, Control
<1>11. CASE WriteFails
  BY <1>1, <1>2, <1>11 DEF WriteFails, Abandon
<1>12. CASE \E sizes \in Writes : Ask(sizes)
  <2>1. todo' \in Seq(Nat) /\ pc' = "pieces" /\ UNCHANGED <<tty, piece, asked, pty>>
    BY <1>12, TtyAssumption DEF Ask
  <2> QED BY <1>1, <2>1 DEF Types, TypeOK, Room, tty, pty
<1>13. CASE RefillFails
  BY <1>1, <1>2, <1>13 DEF RefillFails, call, TypeOK
<1>14. CASE Refill
  BY <1>1, <1>14 DEF Refill, Types, TypeOK, Room, tty, call, pty
<1>15. CASE \E enable \in BOOLEAN : ToggleRead(enable)
  <2>1. mask' \subseteq {"in", "out"} /\ on' \in BOOLEAN
    <3>1. PICK enable \in BOOLEAN : ToggleRead(enable)
      BY <1>15
    <3> DEFINE m == IF enable THEN mask \cup {"in"} ELSE mask \ {"in"}
    <3>2. m \in SUBSET {"in", "out"} /\ SetMask(m)
      BY <1>1, <3>1 DEF ToggleRead, TypeOK
    <3> QED BY <1>4, <3>2
  <2>2. UNCHANGED <<fd, child, deferred, count, freed, pc, todo, piece, asked, got, taken, open>>
    BY <1>15 DEF ToggleRead, call, pty
  <2> QED BY <1>1, <2>1, <2>2 DEF Types, TypeOK, Room
<1>16. CASE Hang
  <2>1. CASE freed
    BY <1>1, <1>16, <2>1 DEF Hang, Types, TypeOK, Room, tty, call, pty
  <2>2. CASE ~ freed
    BY <1>1, <1>2, <1>16, <2>2 DEF Hang, TypeOK, call
  <2> QED BY <2>1, <2>2
<1>17. CASE FreeTerm
  <2>1. CASE freed
    BY <1>1, <1>17, <2>1 DEF FreeTerm, Types, TypeOK, Room, tty, call, pty
  <2>2. CASE ~ freed
    BY <1>1, <1>2, <1>17, <2>2 DEF FreeTerm, TypeOK, call
  <2> QED BY <2>1, <2>2
<1>18. CASE Take
  <2>1. taken' = taken + 1 /\ taken < Len(got) /\ UNCHANGED <<tty, pc, call, got, open>>
    BY <1>18 DEF Take
  <2>2. taken' \in 0 .. Len(got) /\ Room' >= 0
    BY <1>1, <2>1, TtyAssumption DEF TypeOK, Room
  <2> QED BY <1>1, <2>1, <2>2 DEF Types, TypeOK, tty, call
<1>19. CASE CloseSlave
  BY <1>1, <1>19 DEF CloseSlave, Types, TypeOK, Room, tty, call
<1>20. CASE Sigchld
  BY <1>1, <1>20 DEF Sigchld, Types, TypeOK, Room, call, pty
<1>21. CASE UNCHANGED vars
  BY <1>1, <1>21 DEF vars, Types, TypeOK, Room, tty, call, pty
<1> QED BY <1>5, <1>6, <1>7, <1>8, <1>9, <1>10, <1>11, <1>12, <1>13, <1>14, <1>15, <1>16, <1>17,
           <1>18, <1>19, <1>20, <1>21, FlushSomeTypes, WriteSomeTypes, NextPieceTypes
        DEF Next, Step

----------------------------------------------------------------------------
(* tty_hang() alone frees nodes, and it closes the file; nothing opens it. *)
LEMMA HungKept ==
    ASSUME Hung, [Next]_vars
    PROVE  Hung'
<1>1. ASSUME tty_hang
      PROVE  Hung'
  BY <1>1 DEF tty_hang, Hung
<1>2. ASSUME UNCHANGED <<fd, freed>>
      PROVE  Hung'
  BY <1>2 DEF Hung
<1>3. ASSUME defer_write
      PROVE  UNCHANGED <<fd, freed>>
  BY <1>3 DEF defer_write, tty
<1>4. CASE FlushSome \/ FlushEnds \/ FlushFreed
  BY <1>2, <1>4 DEF FlushSome, FlushEnds, FlushFreed, tty
<1>5. CASE FlushStops
  BY <1>2, <1>3, <1>5 DEF FlushStops, tty
<1>6. CASE FlushFails \/ WriteFails \/ RefillFails
  BY <1>1, <1>6 DEF FlushFails, WriteFails, RefillFails
<1>7. CASE NextPiece \/ WriteReturns \/ WriteSome
  BY <1>2, <1>7 DEF NextPiece, WriteReturns, WriteSome, tty
<1>8. CASE WriteStops
  BY <1>2, <1>3, <1>8 DEF WriteStops
<1>9. CASE \E sizes \in Writes : Ask(sizes)
  BY <1>2, <1>9 DEF Ask, tty
<1>10. CASE Refill
  BY <1>2, <1>10 DEF Refill, tty
<1>11. CASE \E enable \in BOOLEAN : ToggleRead(enable)
  BY <1>2, <1>11 DEF ToggleRead
<1>12. CASE Hang
  BY <1>1, <1>2, <1>12 DEF Hang, tty
<1>13. CASE FreeTerm
  BY <1>1, <1>2, <1>13 DEF FreeTerm, tty
<1>14. CASE Take \/ CloseSlave \/ Sigchld \/ UNCHANGED vars
  BY <1>2, <1>14 DEF Take, CloseSlave, Sigchld, vars, tty
<1> QED BY <1>4, <1>5, <1>6, <1>7, <1>8, <1>9, <1>10, <1>11, <1>12, <1>13, <1>14 DEF Next, Step

----------------------------------------------------------------------------
(* Where the process can be with something deferred                        *)
LEMMA ControlKept ==
    ASSUME IInv, [Next]_vars
    PROVE  Control'
<1>1. /\ TypeOK /\ count = Len(deferred) /\ Control /\ Types
      /\ (piece = <<>> <=> Len(piece) = 0) /\ Len(piece) \in {0, 1}
      /\ (deferred = <<>> <=> Len(deferred) = 0) /\ Len(deferred) \in Nat
      /\ Len(<<>>) = 0
  BY Elements, EmptySeq DEF IInv, Types
<1>2. ASSUME tty_hang, pc' \notin {"write"}, pc' \in {"idle", "pieces", "freed"} => Len(piece') = 0
      PROVE  Control'
  BY <1>2 DEF tty_hang, Control
<1>3. ASSUME tty_hang, Abandon
      PROVE  Control'
  BY <1>1, <1>2, <1>3 DEF Abandon
<1>4. ASSUME UNCHANGED <<tty, pc, piece>>
      PROVE  Control'
  BY <1>1, <1>4 DEF Control, tty
<1>5. ASSUME UNCHANGED tty, pc # "flush", pc' # "flush", pc' # "write", UNCHANGED piece,
             pc' \in {"idle", "pieces", "freed"} => Len(piece) = 0
      PROVE  Control'
  BY <1>1, <1>5 DEF Control, tty
<1>6. ASSUME defer_write, Abandon, Len(piece) = 1, pc \in {"write", "flush"},
             pc = "flush" => Len(deferred) > 0
      PROVE  Control'
  <2>1. pc' \in {"idle", "pieces"} /\ piece' = <<>>
    BY <1>6 DEF Abandon
  <2>2. fd' = fd
    BY <1>6 DEF defer_write, tty
  <2>3. CASE child
    <3>1. Len(deferred') = Len(deferred) + 1
      BY <1>1, <1>6, <2>3, Deferred
    <3>2. Len(deferred') > 0
      BY <1>1, <3>1
    <3>3. fd => "out" \in mask' /\ (on' <=> mask' # {})
      <4>1. CASE deferred = <<>>
        <5>1. SetMask(mask \cup {"out"})
          BY <1>6, <2>3, <4>1 DEF defer_write
        <5>2. mask' = mask \cup {"out"} /\ mask' # {}
          BY <5>1 DEF SetMask
        <5>3. fd => (on <=> mask # {})
          BY <1>1 DEF Control
        <5> QED BY <5>1, <5>2, <5>3 DEF SetMask
      <4>2. CASE deferred # <<>>
        <5>1. UNCHANGED <<mask, on>>
          BY <1>6, <2>3, <4>2 DEF defer_write
        <5>2. Len(deferred) > 0
          BY <1>1, <4>2
        <5> QED BY <1>1, <1>6, <5>1, <5>2 DEF Control
      <4> QED BY <4>1, <4>2
    <3> QED BY <1>1, <2>1, <2>2, <3>2, <3>3 DEF Control
  <2>4. CASE ~ child
    <3>1. UNCHANGED tty
      BY <1>6, <2>4 DEF defer_write
    <3> QED BY <1>1, <1>6, <2>1, <3>1 DEF Control, tty
  <2> QED BY <2>3, <2>4
<1>7. CASE FlushSome
  BY <1>1, <1>7 DEF FlushSome, Control, call
<1>8. CASE FlushEnds
  <2>1. mask' = mask \ {"out"} /\ SetMask(mask \ {"out"}) /\ "out" \notin mask'
    BY <1>8 DEF FlushEnds, SetMask
  <2>2. fd => (on' <=> mask' # {})
    BY <1>1, <1>8, <2>1 DEF SetMask, Control
  <2>3. /\ pc' \in {"idle", "write"} /\ (pc' = "idle" => Len(piece) = 0)
        /\ (pc' = "write" => Len(piece) = 1)
        /\ Len(deferred) = 0 /\ UNCHANGED <<fd, deferred, piece>>
    BY <1>1, <1>8 DEF FlushEnds, call
  <2> QED BY <2>1, <2>2, <2>3 DEF Control
<1>9. CASE FlushStops
  <2>1. CASE piece = <<>>
    <3>1. pc' = "idle" /\ piece' = <<>> /\ UNCHANGED tty /\ pc = "flush" /\ Len(deferred) > 0
      BY <1>1, <1>9, <2>1 DEF FlushStops, Abandon
    <3> QED BY <1>1, <3>1 DEF Control, tty
  <2>2. CASE piece # <<>>
    <3>1. Len(deferred) > 0 /\ Len(piece) = 1
      BY <1>1, <1>9, <2>2 DEF FlushStops
    <3> QED BY <1>1, <1>6, <1>9, <2>2, <3>1 DEF FlushStops
  <2> QED BY <2>1, <2>2
<1>10. CASE FlushFails
  BY <1>3, <1>10 DEF FlushFails
<1>11. CASE FlushFreed
  <2>1. ~ fd /\ ~ fd' /\ pc' = "undefined"
    BY <1>1, <1>11 DEF FlushFreed, IInv, Hung, tty
  <2> QED BY <2>1 DEF Control
<1>12. CASE NextPiece
  <2>1. /\ Len(piece') = 1 /\ UNCHANGED tty /\ pc = "pieces"
        /\ pc' = IF Len(deferred) = 0 THEN "write" ELSE "flush"
    BY <1>1, <1>12 DEF NextPiece
  <2>2. fd => (on <=> mask # {}) /\ ("out" \in mask <=> Len(deferred) > 0)
    BY <1>1, <2>1 DEF Control
  <2>3. CASE Len(deferred) = 0
    BY <2>1, <2>2, <2>3 DEF Control, tty
  <2>4. CASE Len(deferred) # 0
    <3>1. Len(deferred) > 0
      BY <1>1, <2>4
    <3> QED BY <2>1, <2>2, <2>4, <3>1 DEF Control, tty
  <2> QED BY <2>3, <2>4
<1>13. CASE WriteReturns
  BY <1>1, <1>5, <1>13 DEF WriteReturns, Control, call
<1>14. CASE WriteSome
  <2>1. /\ pc = "write" /\ UNCHANGED tty
        /\ \/ Len(piece') = 0 /\ pc' = "pieces"
           \/ Len(piece') = 1 /\ pc' = "write"
    BY <1>1, <1>14 DEF WriteSome
  <2> QED BY <1>1, <2>1 DEF Control, tty
<1>15. CASE WriteStops
  BY <1>1, <1>6, <1>15 DEF WriteStops, Control
<1>16. CASE WriteFails
  BY <1>3, <1>16 DEF WriteFails
<1>17. CASE \E sizes \in Writes : Ask(sizes)
  BY <1>1, <1>5, <1>17 DEF Ask, Control
<1>18. CASE RefillFails
  BY <1>1, <1>2, <1>18 DEF RefillFails, Control, call
<1>19. CASE Refill
  <2>1. /\ pc = "idle" /\ UNCHANGED <<tty, piece>>
        /\ pc' = IF Len(deferred) = 0 THEN "idle" ELSE "flush"
    BY <1>1, <1>19 DEF Refill, call
  <2>2. CASE Len(deferred) = 0
    BY <1>1, <2>1, <2>2 DEF Control, tty
  <2>3. CASE Len(deferred) # 0
    <3>1. Len(deferred) > 0
      BY <1>1, <2>3
    <3> QED BY <1>1, <2>1, <2>3, <3>1 DEF Control, tty
  <2> QED BY <2>2, <2>3
<1>20. CASE \E enable \in BOOLEAN : ToggleRead(enable)
  <2>1. PICK enable \in BOOLEAN : ToggleRead(enable)
    BY <1>20
  <2> DEFINE m == IF enable THEN mask \cup {"in"} ELSE mask \ {"in"}
  <2>2. SetMask(m) /\ mask' = m /\ ("out" \in mask' <=> "out" \in mask)
    BY <2>1 DEF ToggleRead, SetMask
  <2> HIDE DEF m
  <2>3. pc = "idle" /\ UNCHANGED <<fd, deferred, pc, piece>>
    BY <2>1 DEF ToggleRead, call
  <2>4. fd => (on' <=> mask' # {})
    BY <1>1, <2>2 DEF SetMask, Control
  <2> QED BY <1>1, <2>2, <2>3, <2>4 DEF Control
<1>21. CASE Hang
  <2>1. CASE freed
    BY <1>1, <1>5, <1>21, <2>1 DEF Hang, call
  <2>2. CASE ~ freed
    BY <1>1, <1>2, <1>21, <2>2 DEF Hang, Control, call
  <2> QED BY <2>1, <2>2
<1>22. CASE FreeTerm
  <2>1. CASE freed
    BY <1>1, <1>5, <1>22, <2>1 DEF FreeTerm, call
  <2>2. CASE ~ freed
    BY <1>1, <1>2, <1>22, <2>2 DEF FreeTerm, Control, call
  <2> QED BY <2>1, <2>2
<1>23. CASE Take
  BY <1>4, <1>23 DEF Take, call
<1>24. CASE CloseSlave
  BY <1>4, <1>24 DEF CloseSlave, call
<1>25. CASE Sigchld
  BY <1>1, <1>25 DEF Sigchld, Control, call
<1>26. CASE UNCHANGED vars
  BY <1>4, <1>26 DEF vars, call
<1> QED BY <1>7, <1>8, <1>9, <1>10, <1>11, <1>12, <1>13, <1>14, <1>15, <1>16, <1>17, <1>18, <1>19,
           <1>20, <1>21, <1>22, <1>23, <1>24, <1>25, <1>26 DEF Next, Step

----------------------------------------------------------------------------
(* What tty_open() leaves                                                  *)
LEMMA InitOK == Init => IInv
<1> SUFFICES ASSUME Init
             PROVE  IInv
  OBVIOUS
<1>1. /\ fd = TRUE /\ child = TRUE /\ mask = {"in"} /\ on = TRUE
      /\ deferred = <<>> /\ count = 0 /\ freed = FALSE
      /\ pc = "idle" /\ todo = <<>> /\ piece = <<>> /\ asked = 0
      /\ got = <<>> /\ taken = 0 /\ open = TRUE
  BY DEF Init
<1>2. /\ \A S : <<>> \in Seq(S)
      /\ Len(<<>>) = 0
  BY EmptySeq
<1>3. Len(got) = 0 /\ Len(deferred) = 0 /\ Len(piece) = 0 /\ asked = 0
  BY <1>1, <1>2
<1>4. Room >= 0
  BY <1>1, <1>3, TtyAssumption DEF Room
<1>5. Types
  <2>1. /\ fd \in BOOLEAN /\ child \in BOOLEAN /\ on \in BOOLEAN
        /\ freed \in BOOLEAN /\ open \in BOOLEAN
        /\ mask \subseteq {"in", "out"}
    BY <1>1
  <2>2. deferred \in Seq(Bytes) /\ piece \in Seq(Bytes) /\ todo \in Seq(Nat) /\ got \in Seq(Nat)
    BY <1>1, <1>2
  <2>3. taken \in 0 .. Len(got) /\ count = Len(deferred) /\ count \in Nat /\ Len(piece) <= 1
    BY <1>1, <1>3
  <2> QED BY <1>1, <1>3, <1>4, <2>1, <2>2, <2>3 DEF Types, TypeOK
<1>6. Control
  BY <1>1, <1>3 DEF Control
<1>7. Order
  BY <1>3 DEF Order, Increasing, Behind
<1>8. Chain
  BY <1>3 DEF Chain, NextByte
<1>9. Hung
  BY <1>1 DEF Hung
<1> QED BY <1>5, <1>6, <1>7, <1>8, <1>9 DEF IInv

(* The invariant says what InOrder says of the pieces in sequence.         *)
LEMMA ChainInOrder == IInv => InOrder
<1> SUFFICES ASSUME IInv
             PROVE  InOrder
  OBVIOUS
<1> DEFINE d == Len(deferred)
           p == Len(piece)
<1>1. d \in Nat /\ p \in {0, 1} /\ deferred \in Seq(Bytes) /\ piece \in Seq(Bytes) /\ TypeOK
      /\ Len(got) \in Nat
  BY Elements DEF IInv, Types, TypeOK
<1>2. /\ Pending \in Seq(Bytes)
      /\ Len(Pending) = d + p
      /\ \A i \in 1 .. d + p : Pending[i] = IF i <= d THEN deferred[i] ELSE piece[i - d]
  BY <1>1, ConcatProperties DEF Pending
<1>3. /\ \A i \in 1 .. d : Pending[i] = deferred[i]
      /\ p = 1 => Pending[d + 1] = piece[1]
  <2>1. ASSUME NEW i \in 1 .. d
        PROVE  Pending[i] = deferred[i]
    BY <1>1, <1>2
  <2>2. ASSUME p = 1
        PROVE  Pending[d + 1] = piece[1]
    <3>1. d + 1 \in 1 .. d + p /\ ~ (d + 1 <= d) /\ d + 1 - d = 1
      BY <1>1, <2>2
    <3> QED BY <1>2, <3>1
  <2> QED BY <2>1, <2>2
<1>4. \A i \in 1 .. Len(got) - 1 : got[i] < got[i + 1]
  BY DEF IInv, Order, Increasing
<1>5. ASSUME child
      PROVE  /\ \A i \in 1 .. Len(got) : got[i] = i
             /\ \A i \in 1 .. Len(Pending) : Pending[i].from =
                     IF i = 1 THEN Len(got) + 1 ELSE Pending[i - 1].upto + 1
             /\ asked = IF Pending = <<>> THEN Len(got) ELSE Pending[Len(Pending)].upto
  <2>1. /\ \A i \in 1 .. Len(got) : got[i] = i
        /\ d > 0 => deferred[1].from = Len(got) + 1
        /\ \A i \in 1 .. d - 1 : deferred[i + 1].from = deferred[i].upto + 1
        /\ p = 0 => asked + 1 = NextByte
        /\ p = 1 => piece[1].from = NextByte /\ asked = piece[1].upto
        /\ NextByte = IF d = 0 THEN Len(got) + 1 ELSE deferred[d].upto + 1
    BY <1>1, <1>5 DEF IInv, Chain, NextByte
  <2>2. ASSUME NEW i \in 1 .. Len(Pending)
        PROVE  Pending[i].from = IF i = 1 THEN Len(got) + 1 ELSE Pending[i - 1].upto + 1
    <3>1. CASE i = 1 /\ i \in 1 .. d
      <4>1. d > 0
        BY <1>1, <3>1
      <4> QED BY <1>3, <2>1, <3>1, <4>1
    <3>2. CASE i # 1 /\ i \in 1 .. d
      <4>1. i - 1 \in 1 .. d - 1 /\ i - 1 \in 1 .. d /\ i - 1 + 1 = i
        BY <1>1, <3>2
      <4>2. deferred[i].from = deferred[i - 1].upto + 1
        BY <2>1, <4>1
      <4> QED BY <1>3, <3>2, <4>1, <4>2
    <3>3. CASE i = d + 1 /\ p = 1
      <4>1. CASE d = 0
        BY <1>3, <2>1, <3>3, <4>1
      <4>2. CASE d # 0
        <5>1. d \in 1 .. d /\ d + 1 # 1 /\ d + 1 - 1 = d
          BY <1>1, <4>2
        <5> QED BY <1>3, <2>1, <3>3, <4>2, <5>1
      <4> QED BY <4>1, <4>2
    <3>4. i \in 1 .. d \/ (i = d + 1 /\ p = 1)
      BY <1>1, <1>2
    <3> QED BY <3>1, <3>2, <3>3, <3>4
  <2>3. asked = IF Pending = <<>> THEN Len(got) ELSE Pending[Len(Pending)].upto
    <3>1. Pending = <<>> <=> Len(Pending) = 0
      BY <1>2, EmptySeq
    <3>2. CASE p = 1
      <4>1. Len(Pending) = d + 1 /\ Len(Pending) # 0
        BY <1>1, <1>2, <3>2
      <4> QED BY <1>3, <2>1, <3>1, <3>2, <4>1
    <3>3. CASE p = 0 /\ d = 0
      <4>1. Len(Pending) = 0
        BY <1>2, <3>3
      <4>2. asked \in Nat /\ asked + 1 = Len(got) + 1
        BY <1>1, <2>1, <3>3 DEF TypeOK
      <4>3. asked = Len(got)
        BY <1>1, <4>2
      <4> QED BY <3>1, <4>1, <4>3
    <3>4. CASE p = 0 /\ d # 0
      <4>1. Len(Pending) = d /\ Len(Pending) # 0 /\ d \in 1 .. d
        BY <1>1, <1>2, <3>4
      <4>2. asked \in Nat /\ deferred[d].upto \in Nat /\ asked + 1 = deferred[d].upto + 1
        BY <1>1, <2>1, <3>4, <4>1, Elements DEF TypeOK
      <4>3. asked = deferred[d].upto
        BY <4>2
      <4> QED BY <1>3, <3>1, <4>1, <4>3
    <3> QED BY <1>1, <3>2, <3>3, <3>4
  <2> QED BY <2>1, <2>2, <2>3
<1> QED BY <1>4, <1>5 DEF InOrder

----------------------------------------------------------------------------
(* The inductive invariant holds in every reachable state.                 *)
THEOREM Inductive == Spec => []IInv
<1>1. IInv /\ [Next]_vars => IInv'
  BY TypesKept, ControlKept, HungKept, OrderKept DEF IInv
<1> QED BY <1>1, InitOK, PTL DEF Spec

(* tty.c keeps the types of its state, and counts the list exactly.        *)
THEOREM TypeCorrect == Spec => []TypeOK
<1>1. IInv => TypeOK
  BY DEF IInv, Types
<1> QED BY <1>1, Inductive, PTL

(* The application gets what tty_write() was asked to write in that order, *)
(* and while it runs nothing is missing or duplicated.                     *)
THEOREM WrittenInOrder == Spec => []InOrder
<1> QED BY ChainInOrder, Inductive, PTL

(* POLLOUT is asked for exactly while something is deferred.               *)
THEOREM PollOutExact == Spec => []PollOut
<1>1. IInv => PollOut
  <2> SUFFICES ASSUME IInv
               PROVE  PollOut
    OBVIOUS
  <2>1. (deferred = <<>> <=> Len(deferred) = 0) /\ Len(deferred) \in Nat
    BY Elements DEF IInv, Types
  <2>2. deferred # <<>> <=> Len(deferred) > 0
    BY <2>1
  <2> QED BY <2>2 DEF IInv, Types, Control, PollOut
<1> QED BY <1>1, Inductive, PTL
=============================================================================
