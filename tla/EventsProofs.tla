---------------------------- MODULE EventsProofs ----------------------------
(***************************************************************************)
(* What each operation of poller.c keeps, for any set of events, pointers  *)
(* and slots: proved here once, for whoever calls them (PollerProofs).     *)
(*                                                                         *)
(* Consistent(q, x, d) is what holds of a poller q between the calls. x is *)
(* the event that is taken out of the poller while its callback runs, and  *)
(* d tells whether it is to be deleted then: current_event and             *)
(* delete_current, but for the moments at which they are already reset.    *)
(***************************************************************************)
EXTENDS Events, SequenceTheorems, WellFoundedInduction, TLAPS

EventKinds == {"free", "timer", "fd"}

Fields == {"kind", "cb", "period", "off", "pptr", "due", "pollfd", "freeSlots",
           "current", "delete", "skip", "stop", "ptr", "failed"}

SlotFields == {"evt", "file", "on", "mask", "revents"}

IsSeq(s) == s \in Seq(Range(s))

(* The types of the fields *)
Form(q) ==
    /\ DOMAIN q = Fields
    /\ q.kind \in [Ev -> EventKinds]
    /\ q.off \subseteq Ev
    /\ q.pptr \in [Ev -> Ptrs \cup {NoPtr}]
    /\ q.ptr \in [Ptrs -> Ev \cup {Null}]
    /\ DOMAIN q.due \subseteq Ev
    /\ IsSeq(q.pollfd)
    /\ \A i \in DOMAIN q.pollfd : /\ DOMAIN q.pollfd[i] = SlotFields
                                  /\ q.pollfd[i].evt \in Ev \cup {Null}
                                  /\ q.pollfd[i].on \in BOOLEAN
    /\ q.freeSlots \in Seq(Nat)
    /\ q.current \in Ev \cup {Null}
    /\ q.delete \in BOOLEAN
    /\ q.failed \in BOOLEAN

Shape(q) == Form(q) /\ q.failed = FALSE

(* Pointers and the events they own                                        *)
Pointers(q, x, d) ==
    /\ x \in Ev \cup {Null} /\ d \in BOOLEAN
    /\ x # Null => q.kind[x] # "free"
    /\ d => x # Null /\ q.pptr[x] = NoPtr
    /\ \A o \in Ptrs : q.ptr[o] # Null => q.pptr[q.ptr[o]] = o
    /\ \A e \in Ev : q.kind[e] = "free" => q.pptr[e] = NoPtr /\ e \notin q.off
    /\ \A e \in Ev : q.kind[e] # "free" =>
         \/ q.pptr[e] \in Ptrs /\ q.ptr[q.pptr[e]] = e
         \/ e = x /\ d

Heap(q, x) ==
    \A e \in Ev : e \in DOMAIN q.due <=> q.kind[e] = "timer" /\ e \notin q.off /\ e # x

(* Descriptors and their slots                                             *)
Slots(q) ==
    /\ \A i \in DOMAIN q.pollfd :
         IF q.pollfd[i].evt = Null THEN ~ q.pollfd[i].on
         ELSE /\ q.kind[q.pollfd[i].evt] = "fd"
              /\ q.pollfd[i].on <=> q.pollfd[i].evt \notin q.off
    /\ \A i, j \in DOMAIN q.pollfd :
         q.pollfd[i].evt = q.pollfd[j].evt /\ q.pollfd[i].evt # Null => i = j
    /\ \A e \in Ev : q.kind[e] = "fd" => \E i \in DOMAIN q.pollfd : q.pollfd[i].evt = e

FreeSlots(q) ==
    /\ \A i \in DOMAIN q.freeSlots :
         q.freeSlots[i] \in DOMAIN q.pollfd /\ q.pollfd[q.freeSlots[i]].evt = Null
    /\ \A i \in DOMAIN q.pollfd : q.pollfd[i].evt = Null =>
         \E k \in DOMAIN q.freeSlots : q.freeSlots[k] = i
    /\ \A i, j \in DOMAIN q.freeSlots : q.freeSlots[i] = q.freeSlots[j] => i = j

Consistent(q, x, d) ==
    Shape(q) /\ Pointers(q, x, d) /\ Heap(q, x) /\ Slots(q) /\ FreeSlots(q)

(* A slot with events of the last ppoll() that its event may still get     *)
Pending(q, i) ==
    /\ i \in DOMAIN q.pollfd
    /\ q.pollfd[i].evt # Null
    /\ q.pollfd[i].revents # {}

(* What an operation of a client that sets the pointers O leaves alone     *)
Keeps(q, r, O) ==
    /\ r.current = q.current
    /\ Len(q.pollfd) <= Len(r.pollfd)
    /\ q.current # Null =>
         /\ r.kind[q.current] = q.kind[q.current]
         /\ q.kind[q.current] = "timer" => (q.current \in r.off <=> q.current \in q.off)
    /\ \A o \in Ptrs \ O : r.ptr[o] # Null =>
         r.ptr[o] = q.ptr[o] /\ r.kind[q.ptr[o]] = q.kind[q.ptr[o]]
    /\ \A i : Pending(r, i) =>
         Pending(q, i) /\ r.pollfd[i].evt = q.pollfd[i].evt

----------------------------------------------------------------------------
(* Sequences.                                                              *)
LEMMA IsSeqFacts ==
    ASSUME NEW s, IsSeq(s)
    PROVE  Len(s) \in Nat /\ DOMAIN s = 1 .. Len(s)
BY DEF IsSeq

(* A function on 1..n is a sequence. *)
LEMMA SeqIsSeq ==
    ASSUME NEW S, NEW s \in Seq(S)
    PROVE  IsSeq(s)
<1>1. Len(s) \in Nat /\ s \in [1 .. Len(s) -> S]
  OBVIOUS
<1>2. s \in [1 .. Len(s) -> Range(s)]
  BY <1>1 DEF Range
<1> QED BY <1>1, <1>2, SeqDef DEF IsSeq

(* And it is one when an element is replaced. *)
LEMMA ExceptIsSeq ==
    ASSUME NEW s, IsSeq(s), NEW t, DOMAIN t = DOMAIN s, t = [i \in DOMAIN s |-> t[i]]
    PROVE  IsSeq(t) /\ Len(t) = Len(s)
<1>1. Len(s) \in Nat /\ DOMAIN t = 1 .. Len(s)
  BY DEF IsSeq
<1>2. t \in [1 .. Len(s) -> Range(t)]
  BY <1>1 DEF Range
<1>3. t \in Seq(Range(t))
  BY <1>1, <1>2, SeqDef
<1> QED BY <1>1, <1>3, LenProperties DEF IsSeq

----------------------------------------------------------------------------
(* alloc_event() returns a structure that is free.                         *)
LEMMA AllocIsFree ==
    ASSUME NEW q, CanAlloc(q)
    PROVE  alloc_event(q) \in Ev /\ q.kind[alloc_event(q)] = "free"
<1> DEFINE Free == {e \in Ev : q.kind[e] = "free"}
<1>1. Free \subseteq Nat /\ Free # {}
  BY EventsAssumption DEF CanAlloc
<1>2. PICK e \in Free : \A f \in Free : <<f, e>> \notin OpToRel(<, Nat)
  <2> HIDE DEF Free
  <2> QED BY <1>1, NatLessThanWellFounded, WFMin
<1>3. \A f \in Free : ~ (f < e)
  BY <1>1, <1>2 DEF OpToRel
<1>4. \A f \in Ev : q.kind[f] = "free" => e <= f
  BY <1>1, <1>3
<1> QED BY <1>2, <1>4 DEF alloc_event

(* init_poller()                                                           *)
LEMMA EmptyOK == Consistent(EmptyPoller, Null, FALSE)
<1> DEFINE q == EmptyPoller
<1>1. /\ DOMAIN q = Fields
      /\ q.kind = [e \in Ev |-> "free"] /\ q.off = {} /\ q.pptr = [e \in Ev |-> NoPtr]
      /\ q.due = [e \in {} |-> 0] /\ q.ptr = [o \in Ptrs |-> Null]
      /\ q.pollfd = [i \in 1 .. SlotBlock |-> FreeSlot] /\ q.freeSlots = [i \in 1 .. SlotBlock |-> i]
      /\ q.current = Null /\ q.delete = FALSE /\ q.failed = FALSE
  BY DEF EmptyPoller, Fields, FreeList
<1> HIDE DEF q
<1>2. SlotBlock \in Nat
  BY EventsAssumption
<1>3. q.pollfd \in Seq({FreeSlot}) /\ q.freeSlots \in Seq(Nat)
  <2>1. q.pollfd \in [1 .. SlotBlock -> {FreeSlot}] /\ q.freeSlots \in [1 .. SlotBlock -> Nat]
    BY <1>1, <1>2
  <2> QED BY <1>2, <2>1, SeqDef
<1>4. IsSeq(q.pollfd)
  BY <1>3, SeqIsSeq
<1>5. DOMAIN FreeSlot = SlotFields /\ FreeSlot.evt = Null /\ FreeSlot.on = FALSE
  BY DEF FreeSlot, SlotFields
<1>6. \A i \in 1 .. SlotBlock : q.pollfd[i] = FreeSlot /\ q.freeSlots[i] = i
  BY <1>1
<1>7. DOMAIN q.pollfd = 1 .. SlotBlock /\ DOMAIN q.freeSlots = 1 .. SlotBlock
  BY <1>1
<1>8. Shape(q)
  BY <1>1, <1>3, <1>4, <1>5, <1>6, <1>7 DEF Shape, Form, EventKinds
<1>9. Pointers(q, Null, FALSE) /\ Heap(q, Null)
  BY <1>1 DEF Pointers, Heap
<1>10. Slots(q) /\ FreeSlots(q)
  BY <1>1, <1>5, <1>6, <1>7 DEF Slots, FreeSlots
<1> QED BY <1>8, <1>9, <1>10 DEF Consistent, q

----------------------------------------------------------------------------
(* What free_event() does to the fields                                    *)
Gone(q, r, e) ==
    /\ DOMAIN r = Fields
    /\ r.kind = [q.kind EXCEPT ![e] = "free"]
    /\ r.pptr = [q.pptr EXCEPT ![e] = NoPtr]
    /\ r.off = q.off \ {e}
    /\ r.ptr = [o \in Ptrs |-> IF o = q.pptr[e] THEN Null ELSE q.ptr[o]]
    /\ r.current = q.current /\ r.delete = q.delete /\ r.failed = q.failed

(* The event that runs once e is gone *)
Other(e, x) == IF e = x THEN Null ELSE x
OtherDeleted(e, x, d) == e # x /\ d

(* No pointer is left to the event that is gone, the others keep theirs.   *)
LEMMA GonePointers ==
    ASSUME NEW q, NEW x, NEW d, Consistent(q, x, d), NEW e \in Ev, q.kind[e] # "free",
           NEW r, Gone(q, r, e)
    PROVE  /\ Pointers(r, Other(e, x), OtherDeleted(e, x, d))
           /\ r.kind \in [Ev -> EventKinds] /\ r.off \subseteq Ev
           /\ r.pptr \in [Ev -> Ptrs \cup {NoPtr}] /\ r.ptr \in [Ptrs -> Ev \cup {Null}]
           /\ r.kind[e] = "free"
           /\ \A f \in Ev : f # e => r.kind[f] = q.kind[f]
           /\ \A o \in Ptrs : r.ptr[o] # Null => r.ptr[o] = q.ptr[o] /\ r.ptr[o] # e
           /\ \A o \in Ptrs : q.ptr[o] = e => r.ptr[o] = Null
<1>1. /\ q.kind \in [Ev -> EventKinds] /\ q.off \subseteq Ev
      /\ q.pptr \in [Ev -> Ptrs \cup {NoPtr}] /\ q.ptr \in [Ptrs -> Ev \cup {Null}]
  BY DEF Consistent, Shape, Form
<1>2. /\ NoPtr \notin Ptrs /\ Null \notin Ev
  BY EventsAssumption
<1>3. /\ r.kind \in [Ev -> EventKinds] /\ r.off \subseteq Ev
      /\ r.pptr \in [Ev -> Ptrs \cup {NoPtr}] /\ r.ptr \in [Ptrs -> Ev \cup {Null}]
      /\ r.kind[e] = "free" /\ r.pptr[e] = NoPtr
      /\ \A f \in Ev : f # e => r.kind[f] = q.kind[f] /\ r.pptr[f] = q.pptr[f]
      /\ \A o \in Ptrs : r.ptr[o] = IF o = q.pptr[e] THEN Null ELSE q.ptr[o]
  BY <1>1, <1>2 DEF Gone, EventKinds
<1>4. /\ x \in Ev \cup {Null} /\ d \in BOOLEAN
      /\ x # Null => q.kind[x] # "free"
      /\ d => x # Null /\ q.pptr[x] = NoPtr
      /\ \A o \in Ptrs : q.ptr[o] # Null => q.pptr[q.ptr[o]] = o
      /\ \A f \in Ev : q.kind[f] = "free" => q.pptr[f] = NoPtr /\ f \notin q.off
      /\ \A f \in Ev : q.kind[f] # "free" =>
            (q.pptr[f] \in Ptrs /\ q.ptr[q.pptr[f]] = f) \/ (f = x /\ d)
  BY DEF Consistent, Pointers
<1>5. \A o \in Ptrs : q.ptr[o] = e => r.ptr[o] = Null
  BY <1>2, <1>3, <1>4
<1>6. \A o \in Ptrs : r.ptr[o] # Null => r.ptr[o] = q.ptr[o] /\ r.ptr[o] # e
  BY <1>3, <1>5
<1>7. \A f \in Ev : r.kind[f] # "free" =>
        (r.pptr[f] \in Ptrs /\ r.ptr[r.pptr[f]] = f) \/ (f = x /\ d /\ f # e)
  <2> SUFFICES ASSUME NEW f \in Ev, r.kind[f] # "free", ~ (f = x /\ d)
               PROVE  r.pptr[f] \in Ptrs /\ r.ptr[r.pptr[f]] = f
    BY <1>3
  <2>1. f # e /\ r.pptr[f] = q.pptr[f] /\ q.pptr[f] \in Ptrs /\ q.ptr[q.pptr[f]] = f
    BY <1>3, <1>4
  <2>2. q.pptr[f] # q.pptr[e]
    BY <1>1, <1>2, <1>4, <2>1
  <2> QED BY <1>3, <2>1, <2>2
<1>8. \A f \in Ev : r.kind[f] = "free" => r.pptr[f] = NoPtr /\ f \notin r.off
  BY <1>3, <1>4 DEF Gone
<1>9. \A o \in Ptrs : r.ptr[o] # Null => r.pptr[r.ptr[o]] = o
  BY <1>1, <1>3, <1>4, <1>6
<1>10. Pointers(r, Other(e, x), OtherDeleted(e, x, d))
  <2>1. CASE e = x
    BY <1>3, <1>7, <1>8, <1>9, <2>1 DEF Pointers, Other, OtherDeleted
  <2>2. CASE e # x
    BY <1>2, <1>3, <1>4, <1>7, <1>8, <1>9, <2>2 DEF Pointers, Other, OtherDeleted
  <2> QED BY <2>1, <2>2
<1> QED BY <1>3, <1>5, <1>6, <1>10

(* A timer is freed, and no longer in the heap.                            *)
LEMMA TimerGone ==
    ASSUME NEW q, NEW x, NEW d, Consistent(q, x, d), NEW e \in Ev, q.kind[e] = "timer",
           NEW r, Gone(q, r, e), r.pollfd = q.pollfd, r.freeSlots = q.freeSlots,
           DOMAIN r.due = DOMAIN q.due \ {e}
    PROVE  Consistent(r, Other(e, x), OtherDeleted(e, x, d))
<1>1. /\ Pointers(r, Other(e, x), OtherDeleted(e, x, d))
      /\ r.kind \in [Ev -> EventKinds] /\ r.off \subseteq Ev
      /\ r.pptr \in [Ev -> Ptrs \cup {NoPtr}] /\ r.ptr \in [Ptrs -> Ev \cup {Null}]
      /\ r.kind[e] = "free"
      /\ \A f \in Ev : f # e => r.kind[f] = q.kind[f]
  BY GonePointers
<1>2. Shape(r)
  BY <1>1 DEF Consistent, Shape, Form, Gone
<1>3. Heap(r, Other(e, x))
  BY <1>1, EventsAssumption DEF Consistent, Heap, Gone, Other
<1>4. Slots(r)
  BY <1>1 DEF Consistent, Slots, Shape, Form, Gone
<1>5. FreeSlots(r)
  BY DEF Consistent, FreeSlots
<1> QED BY <1>1, <1>2, <1>3, <1>4, <1>5 DEF Consistent

(* Each descriptor has one slot.                                           *)
LEMMA SlotOfFd ==
    ASSUME NEW q, Slots(q), NEW e \in Ev, q.kind[e] = "fd"
    PROVE  /\ SlotOf(q, e) \in DOMAIN q.pollfd
           /\ q.pollfd[SlotOf(q, e)].evt = e
           /\ \A i \in DOMAIN q.pollfd : i # SlotOf(q, e) => q.pollfd[i].evt # e
<1>1. \E i \in DOMAIN q.pollfd : q.pollfd[i].evt = e
  BY DEF Slots
<1>2. /\ SlotOf(q, e) \in DOMAIN q.pollfd
      /\ q.pollfd[SlotOf(q, e)].evt = e
  BY <1>1 DEF SlotOf
<1> QED BY <1>2, EventsAssumption DEF Slots

(* A slot is put at the head of the free list.                             *)
LEMMA PushSlot ==
    ASSUME NEW s \in Seq(Nat), NEW k \in Nat
    PROVE  /\ <<k>> \o s \in Seq(Nat)
           /\ DOMAIN (<<k>> \o s) = 1 .. Len(s) + 1
           /\ (<<k>> \o s)[1] = k
           /\ \A i \in 1 .. Len(s) : (<<k>> \o s)[i + 1] = s[i]
<1>1. <<k>> \in Seq(Nat) /\ Len(<<k>>) = 1 /\ <<k>>[1] = k /\ Len(s) \in Nat
  OBVIOUS
<1>2. /\ <<k>> \o s \in Seq(Nat)
      /\ Len(<<k>> \o s) = 1 + Len(s)
      /\ \A i \in 1 .. 1 + Len(s) : (<<k>> \o s)[i] = IF i <= 1 THEN <<k>>[i] ELSE s[i - 1]
  BY <1>1, ConcatProperties
<1>3. DOMAIN (<<k>> \o s) = 1 .. Len(s) + 1
  BY <1>1, <1>2
<1>4. \A i \in 1 .. Len(s) : (<<k>> \o s)[i + 1] = s[i]
  <2> TAKE i \in 1 .. Len(s)
  <2>1. i + 1 \in 1 .. 1 + Len(s) /\ ~ (i + 1 <= 1) /\ (i + 1) - 1 = i
    BY <1>1
  <2> QED BY <1>2, <2>1
<1>5. 1 \in 1 .. 1 + Len(s) /\ 1 <= 1
  BY <1>1
<1> QED BY <1>1, <1>2, <1>3, <1>4, <1>5

(* remove_fd() frees the event and its slot.                               *)
LEMMA RemoveFdOK ==
    ASSUME NEW q, NEW x, NEW d, Consistent(q, x, d), NEW e \in Ev, q.kind[e] = "fd",
           NEW r, r = remove_fd(q, e)
    PROVE  /\ Consistent(r, Other(e, x), OtherDeleted(e, x, d))
           /\ Gone(q, r, e)
           /\ Len(r.pollfd) = Len(q.pollfd)
           /\ r.pollfd[SlotOf(q, e)].evt = Null
           /\ \A i : Pending(r, i) => Pending(q, i) /\ r.pollfd[i] = q.pollfd[i]
<1> DEFINE k == SlotOf(q, e)
           new == [q.pollfd[k] EXCEPT !.evt = Null, !.on = FALSE, !.file = "none"]
<1>1. /\ k \in DOMAIN q.pollfd /\ q.pollfd[k].evt = e
      /\ \A i \in DOMAIN q.pollfd : i # k => q.pollfd[i].evt # e
  BY SlotOfFd DEF Consistent
<1>2. /\ IsSeq(q.pollfd) /\ DOMAIN q.pollfd = 1 .. Len(q.pollfd) /\ Len(q.pollfd) \in Nat
      /\ q.freeSlots \in Seq(Nat) /\ DOMAIN q.pollfd[k] = SlotFields /\ DOMAIN q = Fields
  BY <1>1, IsSeqFacts DEF Consistent, Shape, Form
<1>3. new.evt = Null /\ new.on = FALSE /\ DOMAIN new = SlotFields
  BY <1>2 DEF SlotFields
<1>4. /\ Gone(q, r, e)
      /\ r.pollfd = [q.pollfd EXCEPT ![k] = new]
      /\ r.freeSlots = <<k>> \o q.freeSlots
      /\ r.due = q.due
  BY <1>2 DEF remove_fd, free_event, Gone, Fields
<1> HIDE DEF new, k
<1>5. /\ DOMAIN r.pollfd = DOMAIN q.pollfd /\ r.pollfd[k] = new
      /\ \A i \in DOMAIN q.pollfd : i # k => r.pollfd[i] = q.pollfd[i]
      /\ r.pollfd = [i \in DOMAIN q.pollfd |-> r.pollfd[i]]
  BY <1>1, <1>4
<1>6. IsSeq(r.pollfd) /\ Len(r.pollfd) = Len(q.pollfd)
  BY <1>2, <1>5, ExceptIsSeq
<1>7. /\ Pointers(r, Other(e, x), OtherDeleted(e, x, d))
      /\ r.kind \in [Ev -> EventKinds] /\ r.off \subseteq Ev
      /\ r.pptr \in [Ev -> Ptrs \cup {NoPtr}] /\ r.ptr \in [Ptrs -> Ev \cup {Null}]
      /\ r.kind[e] = "free"
      /\ \A f \in Ev : f # e => r.kind[f] = q.kind[f]
  BY <1>4, GonePointers
<1>8. /\ r.freeSlots \in Seq(Nat)
      /\ DOMAIN r.freeSlots = 1 .. Len(q.freeSlots) + 1
      /\ r.freeSlots[1] = k
      /\ \A i \in 1 .. Len(q.freeSlots) : r.freeSlots[i + 1] = q.freeSlots[i]
      /\ DOMAIN q.freeSlots = 1 .. Len(q.freeSlots) /\ Len(q.freeSlots) \in Nat
  <2>1. k \in Nat
    BY <1>1, <1>2
  <2> QED BY <1>2, <1>4, <2>1, PushSlot
<1>9. Shape(r)
  BY <1>3, <1>4, <1>5, <1>6, <1>7, <1>8 DEF Consistent, Shape, Form, Gone
<1>10. Heap(r, Other(e, x))
  BY <1>4, <1>7, EventsAssumption DEF Consistent, Heap, Gone, Other
<1>11. Slots(r)
  <2>1. ASSUME NEW i \in DOMAIN r.pollfd
        PROVE  IF r.pollfd[i].evt = Null THEN ~ r.pollfd[i].on
               ELSE /\ r.kind[r.pollfd[i].evt] = "fd"
                    /\ r.pollfd[i].on <=> r.pollfd[i].evt \notin r.off
    BY <1>1, <1>3, <1>4, <1>5, <1>7 DEF Consistent, Slots, Shape, Form, Gone
  <2>2. ASSUME NEW i \in DOMAIN r.pollfd, NEW j \in DOMAIN r.pollfd,
               r.pollfd[i].evt = r.pollfd[j].evt, r.pollfd[i].evt # Null
        PROVE  i = j
    BY <1>3, <1>5, <2>2 DEF Consistent, Slots
  <2>3. ASSUME NEW f \in Ev, r.kind[f] = "fd" PROVE \E i \in DOMAIN r.pollfd : r.pollfd[i].evt = f
    <3>1. f # e /\ q.kind[f] = "fd"
      BY <1>7, <2>3
    <3>2. PICK i \in DOMAIN q.pollfd : q.pollfd[i].evt = f
      BY <3>1 DEF Consistent, Slots
    <3>3. r.pollfd[i].evt = f
      BY <1>1, <1>5, <3>1, <3>2
    <3> QED BY <1>5, <3>3
  <2> QED BY <2>1, <2>2, <2>3 DEF Slots
<1>12. FreeSlots(r)
  <2>1. /\ \A i \in DOMAIN q.freeSlots :
             q.freeSlots[i] \in DOMAIN q.pollfd /\ q.pollfd[q.freeSlots[i]].evt = Null
        /\ \A i \in DOMAIN q.pollfd : q.pollfd[i].evt = Null =>
             \E n \in DOMAIN q.freeSlots : q.freeSlots[n] = i
        /\ \A i, j \in DOMAIN q.freeSlots : q.freeSlots[i] = q.freeSlots[j] => i = j
    BY DEF Consistent, FreeSlots
  <2>2. \A i \in DOMAIN q.freeSlots : q.freeSlots[i] # k
    BY <1>1, <2>1, EventsAssumption
  <2>3. \A i \in DOMAIN r.freeSlots : i = 1 \/ (i - 1 \in DOMAIN q.freeSlots /\ r.freeSlots[i] = q.freeSlots[i - 1])
    <3> TAKE i \in DOMAIN r.freeSlots
    <3>1. i = 1 \/ (i - 1 \in 1 .. Len(q.freeSlots) /\ (i - 1) + 1 = i)
      BY <1>8
    <3> QED BY <1>8, <3>1
  <2>4. \A i \in DOMAIN r.freeSlots :
          r.freeSlots[i] \in DOMAIN r.pollfd /\ r.pollfd[r.freeSlots[i]].evt = Null
    <3> TAKE i \in DOMAIN r.freeSlots
    <3>1. CASE i = 1
      BY <1>1, <1>3, <1>5, <1>8, <3>1
    <3>2. CASE i # 1
      <4>1. /\ r.freeSlots[i] \in DOMAIN q.pollfd /\ r.freeSlots[i] # k
            /\ q.pollfd[r.freeSlots[i]].evt = Null
        BY <2>1, <2>2, <2>3, <3>2
      <4> QED BY <1>5, <4>1
    <3> QED BY <3>1, <3>2
  <2>5. \A i \in DOMAIN r.pollfd : r.pollfd[i].evt = Null =>
          \E n \in DOMAIN r.freeSlots : r.freeSlots[n] = i
    <3> SUFFICES ASSUME NEW i \in DOMAIN r.pollfd, r.pollfd[i].evt = Null
                 PROVE  \E n \in DOMAIN r.freeSlots : r.freeSlots[n] = i
      OBVIOUS
    <3>1. CASE i = k
      <4>1. 1 \in DOMAIN r.freeSlots
        BY <1>8
      <4> QED BY <1>8, <3>1, <4>1
    <3>2. CASE i # k
      <4>1. PICK n \in DOMAIN q.freeSlots : q.freeSlots[n] = i
        BY <1>5, <2>1, <3>2
      <4>2. n + 1 \in DOMAIN r.freeSlots /\ r.freeSlots[n + 1] = i
        BY <1>8, <4>1
      <4> QED BY <4>2
    <3> QED BY <3>1, <3>2
  <2>6. ASSUME NEW i \in DOMAIN r.freeSlots, NEW j \in DOMAIN r.freeSlots,
               r.freeSlots[i] = r.freeSlots[j]
        PROVE  i = j
    <3>1. i \in Int /\ j \in Int
      BY <1>8
    <3>2. CASE i = 1 \/ j = 1
      BY <1>8, <2>2, <2>3, <2>6, <3>2
    <3>3. CASE i # 1 /\ j # 1
      <4>1. i - 1 = j - 1
        BY <2>1, <2>3, <2>6, <3>3
      <4> QED BY <3>1, <4>1
    <3> QED BY <3>2, <3>3
  <2> QED BY <2>4, <2>5, <2>6 DEF FreeSlots
<1>13. \A i : Pending(r, i) => Pending(q, i) /\ r.pollfd[i] = q.pollfd[i]
  BY <1>3, <1>5 DEF Pending
<1>14. r.pollfd[SlotOf(q, e)].evt = Null
  BY <1>3, <1>5 DEF k
<1> QED BY <1>4, <1>6, <1>7, <1>9, <1>10, <1>11, <1>12, <1>13, <1>14 DEF Consistent

(* poller_remove() of an event whose callback does not run                 *)
LEMMA RemoveOK ==
    ASSUME NEW q, NEW x, NEW d, Consistent(q, x, d),
           NEW e \in Ev, q.kind[e] # "free", e # q.current,
           NEW r, r = poller_remove(q, e)
    PROVE  /\ Consistent(r, Other(e, x), OtherDeleted(e, x, d))
           /\ Gone(q, r, e)
           /\ Len(r.pollfd) = Len(q.pollfd)
           /\ q.kind[e] = "fd" => r.pollfd[SlotOf(q, e)].evt = Null
           /\ \A i : Pending(r, i) => Pending(q, i) /\ r.pollfd[i] = q.pollfd[i]
<1>1. CASE q.kind[e] = "fd"
  <2>1. r = remove_fd(q, e)
    BY <1>1 DEF poller_remove
  <2> QED BY <1>1, <2>1, RemoveFdOK
<1>2. CASE q.kind[e] = "timer"
  <2>1. r = free_event(heap_remove(q, e), e)
    BY <1>2 DEF poller_remove
  <2>2. /\ Gone(q, r, e) /\ r.pollfd = q.pollfd /\ r.freeSlots = q.freeSlots
        /\ r.due = Restrict(q.due, DOMAIN q.due \ {e})
    BY <2>1 DEF free_event, heap_remove, Gone, Consistent, Shape, Form, Fields
  <2>3. DOMAIN r.due = DOMAIN q.due \ {e}
    BY <2>2 DEF Restrict
  <2> QED BY <1>2, <2>2, <2>3, TimerGone DEF Pending
<1> QED BY <1>1, <1>2 DEF Consistent, Shape, Form, EventKinds

(* poller_remove() of the event whose callback runs: it is freed when the  *)
(* callback returns, and until then no pointer reaches it.                 *)
LEMMA UnregisterOK ==
    ASSUME NEW q, q.current # Null, Consistent(q, q.current, q.delete),
           NEW r, r = poller_remove(q, q.current)
    PROVE  /\ Consistent(r, r.current, r.delete)
           /\ r.current = q.current /\ r.kind = q.kind /\ r.off = q.off /\ r.pollfd = q.pollfd
           /\ \A o \in Ptrs : r.ptr[o] # Null => r.ptr[o] = q.ptr[o]
           /\ \A o \in Ptrs : q.ptr[o] = q.current => r.ptr[o] = Null
<1> DEFINE e == q.current
<1>1. /\ DOMAIN r = Fields /\ r.delete = TRUE
      /\ r.ptr = [o \in Ptrs |-> IF o = q.pptr[e] THEN Null ELSE q.ptr[o]]
      /\ r.pptr = [q.pptr EXCEPT ![e] = NoPtr]
      /\ r.kind = q.kind /\ r.off = q.off /\ r.pollfd = q.pollfd /\ r.due = q.due
      /\ r.freeSlots = q.freeSlots /\ r.current = e /\ r.failed = q.failed
  BY DEF poller_remove, Consistent, Shape, Form, Fields
<1> HIDE DEF e
<1>2. /\ e \in Ev /\ e # Null /\ q.kind[e] # "free"
      /\ q.pptr \in [Ev -> Ptrs \cup {NoPtr}] /\ q.ptr \in [Ptrs -> Ev \cup {Null}]
      /\ NoPtr \notin Ptrs /\ Null \notin Ev
  BY EventsAssumption DEF Consistent, Shape, Form, Pointers, e
<1>3. /\ \A o \in Ptrs : q.ptr[o] # Null => q.pptr[q.ptr[o]] = o
      /\ \A f \in Ev : q.kind[f] = "free" => q.pptr[f] = NoPtr /\ f \notin q.off
      /\ \A f \in Ev : q.kind[f] # "free" =>
            (q.pptr[f] \in Ptrs /\ q.ptr[q.pptr[f]] = f) \/ f = e
  BY DEF Consistent, Pointers, e
<1>4. /\ \A o \in Ptrs : r.ptr[o] = IF o = q.pptr[e] THEN Null ELSE q.ptr[o]
      /\ r.pptr[e] = NoPtr
      /\ \A f \in Ev : f # e => r.pptr[f] = q.pptr[f]
  BY <1>1, <1>2
<1>5. Shape(r)
  <2>1. r.pptr \in [Ev -> Ptrs \cup {NoPtr}] /\ r.ptr \in [Ptrs -> Ev \cup {Null}]
    BY <1>1, <1>2
  <2> QED BY <1>1, <1>2, <2>1 DEF Consistent, Shape, Form
<1>6. \A o \in Ptrs : r.ptr[o] # Null => r.ptr[o] = q.ptr[o] /\ r.ptr[o] # e
  BY <1>2, <1>3, <1>4
<1>7. Pointers(r, e, TRUE)
  <2>1. \A o \in Ptrs : r.ptr[o] # Null => r.pptr[r.ptr[o]] = o
    BY <1>2, <1>3, <1>4, <1>6
  <2>2. \A f \in Ev : r.kind[f] = "free" => r.pptr[f] = NoPtr /\ f \notin r.off
    BY <1>1, <1>2, <1>3, <1>4
  <2>3. \A f \in Ev : r.kind[f] # "free" => (r.pptr[f] \in Ptrs /\ r.ptr[r.pptr[f]] = f) \/ f = e
    <3> SUFFICES ASSUME NEW f \in Ev, r.kind[f] # "free", f # e
                 PROVE  r.pptr[f] \in Ptrs /\ r.ptr[r.pptr[f]] = f
      OBVIOUS
    <3>1. r.pptr[f] = q.pptr[f] /\ q.pptr[f] \in Ptrs /\ q.ptr[q.pptr[f]] = f
      BY <1>1, <1>3, <1>4
    <3>2. q.pptr[f] # q.pptr[e]
      BY <1>2, <1>3, <3>1 DEF Consistent, Pointers, e
    <3> QED BY <1>4, <3>1, <3>2
  <2> QED BY <1>1, <1>2, <1>4, <2>1, <2>2, <2>3 DEF Pointers
<1>8. Heap(r, e) /\ Slots(r) /\ FreeSlots(r)
  BY <1>1 DEF Consistent, Heap, Slots, FreeSlots, e
<1>9. \A o \in Ptrs : q.ptr[o] = e => r.ptr[o] = Null
  BY <1>2, <1>3, <1>4
<1> QED BY <1>1, <1>5, <1>6, <1>7, <1>8, <1>9 DEF Consistent, e

(* poller_unset()                                                          *)
LEMMA UnsetOK ==
    ASSUME NEW q, Consistent(q, q.current, q.delete), NEW o \in Ptrs,
           NEW r, r = poller_unset(q, o)
    PROVE  /\ Consistent(r, r.current, r.delete)
           /\ Keeps(q, r, {})
           /\ ~ IsSet(r, o)
           /\ IsSet(q, o) /\ q.ptr[o] # q.current /\ q.kind[q.ptr[o]] = "fd" =>
                r.pollfd[SlotOf(q, q.ptr[o])].evt = Null
           /\ Len(r.pollfd) = Len(q.pollfd)
<1>1. Len(q.pollfd) \in Nat /\ q.ptr \in [Ptrs -> Ev \cup {Null}] /\ q.current \in Ev \cup {Null}
  BY IsSeqFacts DEF Consistent, Shape, Form
<1>2. CASE ~ IsSet(q, o)
  BY <1>1, <1>2 DEF poller_unset, Keeps, Pending, IsSet
<1>3. CASE IsSet(q, o) /\ q.ptr[o] = q.current
  <2>1. q.current # Null /\ r = poller_remove(q, q.current)
    BY <1>3 DEF IsSet, poller_unset
  <2>2. /\ Consistent(r, r.current, r.delete)
        /\ r.current = q.current /\ r.kind = q.kind /\ r.off = q.off /\ r.pollfd = q.pollfd
        /\ \A v \in Ptrs : r.ptr[v] # Null => r.ptr[v] = q.ptr[v]
        /\ r.ptr[o] = Null
    BY <1>3, <2>1, UnregisterOK
  <2> QED BY <1>1, <1>3, <2>2 DEF Keeps, Pending, IsSet
<1>4. CASE IsSet(q, o) /\ q.ptr[o] # q.current
  <2> DEFINE e == q.ptr[o]
  <2>1. /\ e \in Ev /\ e # Null /\ e # q.current /\ r = poller_remove(q, e)
        /\ q.pptr[e] = o
    BY <1>1, <1>4 DEF IsSet, poller_unset, Consistent, Pointers
  <2>2. q.kind[e] # "free"
    BY <2>1, EventsAssumption DEF Consistent, Pointers
  <2>3. /\ Consistent(r, Other(e, q.current), OtherDeleted(e, q.current, q.delete))
        /\ Gone(q, r, e)
        /\ Len(r.pollfd) = Len(q.pollfd)
        /\ q.kind[e] = "fd" => r.pollfd[SlotOf(q, e)].evt = Null
        /\ \A i : Pending(r, i) => Pending(q, i) /\ r.pollfd[i] = q.pollfd[i]
    BY <2>1, <2>2, RemoveOK
  <2>4. Other(e, q.current) = r.current /\ OtherDeleted(e, q.current, q.delete) = r.delete
    BY <2>1, <2>3 DEF Other, OtherDeleted, Gone, Consistent, Shape, Form
  <2>5. /\ \A f \in Ev : f # e => r.kind[f] = q.kind[f]
        /\ \A v \in Ptrs : r.ptr[v] # Null => r.ptr[v] = q.ptr[v] /\ r.ptr[v] # e
        /\ \A v \in Ptrs : q.ptr[v] = e => r.ptr[v] = Null
    BY <2>1, <2>2, <2>3, GonePointers
  <2> HIDE DEF e
  <2>6. Keeps(q, r, {})
    <3>1. r.current = q.current /\ r.off = q.off \ {e}
      BY <2>3 DEF Gone
    <3>2. \A v \in Ptrs : r.ptr[v] # Null => r.kind[q.ptr[v]] = q.kind[q.ptr[v]]
      BY <1>1, <2>5
    <3> QED BY <1>1, <2>1, <2>3, <2>5, <3>1, <3>2 DEF Keeps
  <2> QED BY <2>3, <2>4, <2>5, <2>6 DEF IsSet, e
<1> QED BY <1>2, <1>3, <1>4

(* poller_add_timer() and poller_set_autoreset(): the pointer o, that was  *)
(* not set, points to the new timer.                                       *)
LEMMA AddTimerOK ==
    ASSUME NEW q, NEW x, NEW d, Consistent(q, x, d), NEW o \in Ptrs, ~ IsSet(q, o),
           CanAlloc(q), NEW cb, NEW period,
           NEW r, r = AddAutoresetTimer(q, o, cb, period)
    PROVE  /\ Consistent(r, x, d)
           /\ r.current = q.current /\ r.delete = q.delete /\ r.off = q.off /\ r.pollfd = q.pollfd
           /\ r.ptr[o] = alloc_event(q) /\ r.kind[r.ptr[o]] = "timer" /\ r.ptr[o] \in Ev
           /\ \A v \in Ptrs : v # o => r.ptr[v] = q.ptr[v]
           /\ \A f \in Ev : q.kind[f] # "free" => r.kind[f] = q.kind[f]
<1> DEFINE e == alloc_event(q)
<1>1. e \in Ev /\ q.kind[e] = "free"
  BY AllocIsFree
<1>2. /\ q.kind \in [Ev -> EventKinds] /\ NoPtr \notin Ptrs /\ Null \notin Ev
      /\ q.pptr \in [Ev -> Ptrs \cup {NoPtr}] /\ q.ptr \in [Ptrs -> Ev \cup {Null}]
      /\ DOMAIN q = Fields /\ q.failed = FALSE /\ q.ptr[o] = Null
  BY EventsAssumption DEF Consistent, Shape, Form, IsSet
<1>3. e \notin DOMAIN q.due
  BY <1>1 DEF Consistent, Heap
<1>4. /\ DOMAIN r = Fields
      /\ r.kind = [q.kind EXCEPT ![e] = "timer"]
      /\ r.pptr = [q.pptr EXCEPT ![e] = o]
      /\ r.ptr = [q.ptr EXCEPT ![o] = e]
      /\ DOMAIN r.due = DOMAIN q.due \cup {e}
      /\ r.off = q.off /\ r.pollfd = q.pollfd /\ r.freeSlots = q.freeSlots
      /\ r.current = q.current /\ r.delete = q.delete
      /\ r.failed = FALSE
  <2> DEFINE a == [q EXCEPT !.kind[e] = "timer", !.cb[e] = cb, !.period[e] = period]
             b == Require(a, e \notin DOMAIN a.due)
             c == [b EXCEPT !.due = [t \in DOMAIN @ \cup {e} |-> IF t = e THEN a.period[e] ELSE @[t]]]
  <2>1. /\ DOMAIN a = Fields
        /\ a.kind = [q.kind EXCEPT ![e] = "timer"] /\ a.pptr = q.pptr /\ a.ptr = q.ptr
        /\ a.due = q.due /\ a.off = q.off /\ a.pollfd = q.pollfd /\ a.freeSlots = q.freeSlots
        /\ a.current = q.current /\ a.delete = q.delete /\ a.failed = FALSE
    BY <1>2 DEF Fields
  <2> HIDE DEF a
  <2>2. /\ DOMAIN b = Fields
        /\ b.kind = a.kind /\ b.pptr = a.pptr /\ b.ptr = a.ptr
        /\ b.due = a.due /\ b.off = a.off /\ b.pollfd = a.pollfd /\ b.freeSlots = a.freeSlots
        /\ b.current = a.current /\ b.delete = a.delete /\ b.failed = FALSE
    BY <1>3, <2>1 DEF Require, Fields
  <2> HIDE DEF b
  <2>3. /\ DOMAIN c = Fields
        /\ c.kind = b.kind /\ c.pptr = b.pptr /\ c.ptr = b.ptr
        /\ DOMAIN c.due = DOMAIN b.due \cup {e}
        /\ c.off = b.off /\ c.pollfd = b.pollfd /\ c.freeSlots = b.freeSlots
        /\ c.current = b.current /\ c.delete = b.delete /\ c.failed = b.failed
    BY <2>2 DEF Fields
  <2> HIDE DEF c
  <2>4. r = [[c EXCEPT !.ptr[o] = e] EXCEPT !.pptr[e] = o]
    BY DEF AddAutoresetTimer, WithAutoreset, poller_set_autoreset, poller_add_timer, heap_insert, a, b, c
  <2> QED BY <2>1, <2>2, <2>3, <2>4 DEF Fields
<1> HIDE DEF e
<1>5. /\ r.kind[e] = "timer" /\ r.pptr[e] = o /\ r.ptr[o] = e
      /\ \A f \in Ev : f # e => r.kind[f] = q.kind[f] /\ r.pptr[f] = q.pptr[f]
      /\ \A v \in Ptrs : v # o => r.ptr[v] = q.ptr[v]
      /\ r.kind \in [Ev -> EventKinds]
      /\ r.pptr \in [Ev -> Ptrs \cup {NoPtr}] /\ r.ptr \in [Ptrs -> Ev \cup {Null}]
  BY <1>1, <1>2, <1>4 DEF EventKinds
<1>6. Shape(r)
  <2>1. DOMAIN r.due \subseteq Ev
    BY <1>1, <1>4 DEF Consistent, Shape, Form
  <2> QED BY <1>4, <1>5, <2>1 DEF Consistent, Shape, Form
<1>7. /\ x \in Ev \cup {Null} /\ d \in BOOLEAN
      /\ x # Null => q.kind[x] # "free"
      /\ d => x # Null /\ q.pptr[x] = NoPtr
      /\ \A v \in Ptrs : q.ptr[v] # Null => q.pptr[q.ptr[v]] = v
      /\ \A f \in Ev : q.kind[f] = "free" => q.pptr[f] = NoPtr /\ f \notin q.off
      /\ \A f \in Ev : q.kind[f] # "free" =>
            (q.pptr[f] \in Ptrs /\ q.ptr[q.pptr[f]] = f) \/ (f = x /\ d)
  BY DEF Consistent, Pointers
<1>8. Pointers(r, x, d)
  <2>1. \A v \in Ptrs : r.ptr[v] # Null => r.pptr[r.ptr[v]] = v
    BY <1>1, <1>2, <1>5, <1>7
  <2>2. \A f \in Ev : r.kind[f] = "free" => r.pptr[f] = NoPtr /\ f \notin r.off
    BY <1>4, <1>5, <1>7
  <2>3. \A f \in Ev : r.kind[f] # "free" =>
          (r.pptr[f] \in Ptrs /\ r.ptr[r.pptr[f]] = f) \/ (f = x /\ d)
    BY <1>1, <1>2, <1>5, <1>7
  <2> QED BY <1>1, <1>2, <1>5, <1>7, <2>1, <2>2, <2>3 DEF Pointers
<1>9. Heap(r, x)
  BY <1>1, <1>2, <1>4, <1>5, <1>7 DEF Consistent, Heap
<1>10. Slots(r) /\ FreeSlots(r)
  BY <1>1, <1>4, <1>5 DEF Consistent, Slots, FreeSlots, Shape, Form
<1> QED BY <1>1, <1>4, <1>5, <1>6, <1>8, <1>9, <1>10 DEF Consistent, e

(* poller_set_timer(), from whatever callback                              *)
LEMMA SetTimerOK ==
    ASSUME NEW q, Consistent(q, q.current, q.delete), NEW o \in Ptrs,
           CanAlloc(poller_unset(q, o)), NEW cb, NEW period,
           NEW r, r = poller_set_timer(q, o, cb, period)
    PROVE  /\ Consistent(r, r.current, r.delete)
           /\ Keeps(q, r, {o})
           /\ r.ptr[o] \in Ev /\ r.kind[r.ptr[o]] = "timer"
           /\ Len(r.pollfd) = Len(q.pollfd)
<1> DEFINE u == poller_unset(q, o)
<1>1. /\ Consistent(u, u.current, u.delete) /\ Keeps(q, u, {}) /\ ~ IsSet(u, o)
      /\ Len(u.pollfd) = Len(q.pollfd)
  BY UnsetOK
<1>2. r = AddAutoresetTimer(u, o, cb, period) /\ CanAlloc(u)
  BY DEF poller_set_timer
<1> HIDE DEF u
<1>3. /\ Consistent(r, u.current, u.delete)
      /\ r.current = u.current /\ r.delete = u.delete /\ r.off = u.off /\ r.pollfd = u.pollfd
      /\ r.ptr[o] \in Ev /\ r.kind[r.ptr[o]] = "timer"
      /\ \A v \in Ptrs : v # o => r.ptr[v] = u.ptr[v]
      /\ \A f \in Ev : u.kind[f] # "free" => r.kind[f] = u.kind[f]
  BY <1>1, <1>2, AddTimerOK
<1>4. u.current \in Ev \cup {Null} /\ (u.current # Null => u.kind[u.current] # "free")
  BY <1>1 DEF Consistent, Pointers
<1>5. \A v \in Ptrs \ {o} : r.ptr[v] # Null =>
        r.ptr[v] = q.ptr[v] /\ r.kind[q.ptr[v]] = q.kind[q.ptr[v]]
  <2> SUFFICES ASSUME NEW v \in Ptrs, v # o, r.ptr[v] # Null
               PROVE  r.ptr[v] = q.ptr[v] /\ r.kind[q.ptr[v]] = q.kind[q.ptr[v]]
    OBVIOUS
  <2>1. u.ptr[v] # Null /\ u.ptr[v] = q.ptr[v] /\ u.kind[q.ptr[v]] = q.kind[q.ptr[v]] /\ r.ptr[v] = u.ptr[v]
    BY <1>1, <1>3 DEF Keeps
  <2>2. Shape(u) /\ Pointers(u, u.current, u.delete)
    BY <1>1 DEF Consistent
  <2>3. u.ptr[v] \in Ev
    BY <2>1, <2>2, EventsAssumption DEF Shape, Form
  <2>4. u.kind[u.ptr[v]] # "free"
    <3>1. u.pptr[u.ptr[v]] = v
      BY <2>1, <2>2 DEF Pointers
    <3>2. v # NoPtr
      BY EventsAssumption
    <3> QED BY <2>2, <2>3, <3>1, <3>2 DEF Pointers
  <2> QED BY <1>3, <2>1, <2>3, <2>4
<1> QED BY <1>1, <1>3, <1>4, <1>5 DEF Keeps, Pending

----------------------------------------------------------------------------
(* grow_pollfd_array() when no slot is free                                *)
LEMMA GrowOK ==
    ASSUME NEW q, NEW x, NEW d, Consistent(q, x, d), q.freeSlots = <<>>,
           NEW r, r = grow_pollfd_array(q)
    PROVE  /\ Consistent(r, x, d)
           /\ r.freeSlots # <<>>
           /\ r.kind = q.kind /\ r.off = q.off /\ r.ptr = q.ptr
           /\ r.current = q.current /\ r.delete = q.delete
           /\ Len(r.pollfd) >= Len(q.pollfd)
           /\ \A i \in DOMAIN q.pollfd : r.pollfd[i] = q.pollfd[i]
           /\ \A i \in DOMAIN r.pollfd : i \notin DOMAIN q.pollfd => r.pollfd[i].evt = Null
<1> DEFINE n == Len(q.pollfd)
           slots == [i \in 1 .. SlotBlock |-> FreeSlot]
           list == [i \in 1 .. SlotBlock |-> n + SlotBlock + 1 - i]
<1>1. /\ DOMAIN q.pollfd = 1 .. n /\ n \in Nat /\ IsSeq(q.pollfd)
      /\ SlotBlock \in Nat /\ SlotBlock > 0
  BY IsSeqFacts, EventsAssumption DEF Consistent, Shape, Form
<1>2. DOMAIN FreeSlot = SlotFields /\ FreeSlot.evt = Null /\ FreeSlot.on = FALSE
  BY DEF FreeSlot, SlotFields
<1>3. /\ DOMAIN r = Fields
      /\ r.pollfd = q.pollfd \o slots
      /\ r.freeSlots = list \o q.freeSlots
      /\ r.kind = q.kind /\ r.off = q.off /\ r.ptr = q.ptr /\ r.pptr = q.pptr /\ r.due = q.due
      /\ r.current = q.current /\ r.delete = q.delete /\ r.failed = q.failed
  BY DEF grow_pollfd_array, Consistent, Shape, Form, Fields
<1>4. slots \in Seq({FreeSlot}) /\ Len(slots) = SlotBlock /\ \A i \in 1 .. SlotBlock : slots[i] = FreeSlot
  <2>1. slots \in [1 .. SlotBlock -> {FreeSlot}] /\ DOMAIN slots = 1 .. SlotBlock
    OBVIOUS
  <2>2. \A i \in 1 .. SlotBlock : slots[i] = FreeSlot
    OBVIOUS
  <2> HIDE DEF slots
  <2>3. slots \in Seq({FreeSlot})
    BY <1>1, <2>1, SeqDef
  <2> QED BY <1>1, <2>1, <2>2, <2>3, LenProperties
<1>5. list \in Seq(Nat) /\ Len(list) = SlotBlock /\ \A i \in 1 .. SlotBlock : list[i] = n + SlotBlock + 1 - i
  <2>1. \A i \in 1 .. SlotBlock : n + SlotBlock + 1 - i \in Nat
    BY <1>1
  <2>2. list \in [1 .. SlotBlock -> Nat] /\ DOMAIN list = 1 .. SlotBlock
    BY <2>1
  <2>3. \A i \in 1 .. SlotBlock : list[i] = n + SlotBlock + 1 - i
    OBVIOUS
  <2> HIDE DEF list
  <2>4. list \in Seq(Nat)
    BY <1>1, <2>2, SeqDef
  <2> QED BY <1>1, <2>2, <2>3, <2>4, LenProperties
<1> HIDE DEF slots, list, n
<1>6. /\ IsSeq(r.pollfd) /\ DOMAIN r.pollfd = 1 .. n + SlotBlock /\ Len(r.pollfd) = n + SlotBlock
      /\ \A i \in 1 .. n : r.pollfd[i] = q.pollfd[i]
      /\ \A i \in n + 1 .. n + SlotBlock : r.pollfd[i] = FreeSlot
  <2> DEFINE S == Range(q.pollfd) \cup {FreeSlot}
  <2>1. q.pollfd \in Seq(Range(q.pollfd)) /\ Range(q.pollfd) \subseteq S /\ {FreeSlot} \subseteq S
    BY <1>1 DEF IsSeq
  <2> HIDE DEF S
  <2>2. q.pollfd \in Seq(S) /\ slots \in Seq(S)
    BY <1>4, <2>1
  <2>3. /\ r.pollfd \in Seq(S) /\ Len(r.pollfd) = n + SlotBlock
        /\ \A i \in 1 .. n + SlotBlock : r.pollfd[i] = IF i <= n THEN q.pollfd[i] ELSE slots[i - n]
    <3>1. /\ q.pollfd \o slots \in Seq(S)
          /\ Len(q.pollfd \o slots) = Len(q.pollfd) + Len(slots)
          /\ \A i \in 1 .. Len(q.pollfd) + Len(slots) : (q.pollfd \o slots)[i] =
                IF i <= Len(q.pollfd) THEN q.pollfd[i] ELSE slots[i - Len(q.pollfd)]
      BY <2>2, ConcatProperties
    <3>2. Len(q.pollfd) = n /\ Len(slots) = SlotBlock
      BY <1>4 DEF n
    <3> QED BY <1>3, <3>1, <3>2
  <2>4. IsSeq(r.pollfd) /\ DOMAIN r.pollfd = 1 .. n + SlotBlock
    BY <2>3, SeqIsSeq, IsSeqFacts
  <2>5. \A i \in n + 1 .. n + SlotBlock : r.pollfd[i] = FreeSlot
    <3> TAKE i \in n + 1 .. n + SlotBlock
    <3>1. i \in 1 .. n + SlotBlock /\ ~ (i <= n) /\ i - n \in 1 .. SlotBlock
      BY <1>1
    <3> QED BY <1>4, <2>3, <3>1
  <2> QED BY <1>1, <2>3, <2>4, <2>5
<1>7. /\ r.freeSlots \in Seq(Nat) /\ DOMAIN r.freeSlots = 1 .. SlotBlock
      /\ \A i \in 1 .. SlotBlock : r.freeSlots[i] = n + SlotBlock + 1 - i
  <2>1. q.freeSlots \in Seq(Nat) /\ Len(q.freeSlots) = 0
    OBVIOUS
  <2>2. /\ r.freeSlots \in Seq(Nat) /\ Len(r.freeSlots) = SlotBlock + 0
        /\ \A i \in 1 .. SlotBlock + 0 : r.freeSlots[i] = IF i <= SlotBlock THEN list[i] ELSE q.freeSlots[i - SlotBlock]
    BY <1>3, <1>5, <2>1, ConcatProperties
  <2> QED BY <1>1, <1>5, <2>2
<1>9. Pointers(r, x, d) /\ Heap(r, x)
  BY <1>3 DEF Consistent, Pointers, Heap
<1>10. /\ Shape(r)
       /\ \A i \in DOMAIN r.pollfd :
         \/ i \in DOMAIN q.pollfd /\ r.pollfd[i] = q.pollfd[i]
         \/ i \notin DOMAIN q.pollfd /\ r.pollfd[i] = FreeSlot
  <2>1. ASSUME NEW i \in DOMAIN r.pollfd
        PROVE  \/ i \in DOMAIN q.pollfd /\ r.pollfd[i] = q.pollfd[i]
               \/ i \notin DOMAIN q.pollfd /\ r.pollfd[i] = FreeSlot
    <3>1. CASE i \in 1 .. n
      BY <1>1, <1>6, <3>1 DEF n
    <3>2. CASE i \notin 1 .. n
      <4>1. i \in n + 1 .. n + SlotBlock
        BY <1>1, <1>6, <3>2
      <4> QED BY <1>1, <1>6, <3>2, <4>1 DEF n
    <3> QED BY <3>1, <3>2
  <2>2. Shape(r)
    BY <1>2, <1>3, <1>6, <1>7, <2>1 DEF Consistent, Shape, Form
  <2> QED BY <2>1, <2>2
<1>11. DOMAIN q.pollfd \subseteq DOMAIN r.pollfd
  BY <1>1, <1>6
<1>12. Slots(r)
  <2>1. ASSUME NEW i \in DOMAIN r.pollfd
        PROVE  IF r.pollfd[i].evt = Null THEN ~ r.pollfd[i].on
               ELSE /\ r.kind[r.pollfd[i].evt] = "fd"
                    /\ r.pollfd[i].on <=> r.pollfd[i].evt \notin r.off
    BY <1>2, <1>3, <1>10 DEF Consistent, Slots
  <2>2. ASSUME NEW i \in DOMAIN r.pollfd, NEW j \in DOMAIN r.pollfd,
               r.pollfd[i].evt = r.pollfd[j].evt, r.pollfd[i].evt # Null
        PROVE  i = j
    BY <1>2, <1>10, <2>2 DEF Consistent, Slots
  <2>3. ASSUME NEW f \in Ev, r.kind[f] = "fd" PROVE \E i \in DOMAIN r.pollfd : r.pollfd[i].evt = f
    <3>1. PICK i \in DOMAIN q.pollfd : q.pollfd[i].evt = f
      BY <1>3, <2>3 DEF Consistent, Slots
    <3> QED BY <1>1, <1>6, <1>11, <3>1
  <2> QED BY <2>1, <2>2, <2>3 DEF Slots
<1>13. FreeSlots(r)
  <2>1. ASSUME NEW i \in DOMAIN r.freeSlots
        PROVE  r.freeSlots[i] \in DOMAIN r.pollfd /\ r.pollfd[r.freeSlots[i]].evt = Null
    <3>1. r.freeSlots[i] \in n + 1 .. n + SlotBlock
      BY <1>1, <1>7
    <3> QED BY <1>1, <1>2, <1>6, <3>1
  <2>2. ASSUME NEW i \in DOMAIN r.pollfd, r.pollfd[i].evt = Null
        PROVE  \E k \in DOMAIN r.freeSlots : r.freeSlots[k] = i
    <3>1. i \notin DOMAIN q.pollfd
      BY <1>10, <2>2 DEF Consistent, FreeSlots
    <3>2. i \in Nat /\ n + 1 <= i /\ i <= n + SlotBlock
      BY <1>1, <1>6, <3>1 DEF n
    <3>3. PICK k \in 1 .. SlotBlock : k = n + SlotBlock + 1 - i
      BY <1>1, <3>2
    <3>4. r.freeSlots[k] = i
      BY <1>1, <1>7, <3>2, <3>3
    <3> QED BY <1>7, <3>4
  <2>3. ASSUME NEW i \in DOMAIN r.freeSlots, NEW j \in DOMAIN r.freeSlots,
               r.freeSlots[i] = r.freeSlots[j]
        PROVE  i = j
    BY <1>1, <1>7, <2>3
  <2> QED BY <2>1, <2>2, <2>3 DEF FreeSlots
<1>14. r.freeSlots # <<>>
  BY <1>1, <1>7
<1>15. Len(r.pollfd) >= Len(q.pollfd)
  BY <1>1, <1>6 DEF n
<1> QED BY <1>2, <1>3, <1>9, <1>10, <1>11, <1>12, <1>13, <1>14, <1>15 DEF Consistent

(* The first slot of the free list is taken.                               *)
LEMMA PopSlot ==
    ASSUME NEW s \in Seq(Nat), s # <<>>
    PROVE  /\ Head(s) = s[1] /\ 1 \in DOMAIN s
           /\ Tail(s) \in Seq(Nat)
           /\ \A i \in DOMAIN Tail(s) : i + 1 \in DOMAIN s /\ i + 1 # 1 /\ Tail(s)[i] = s[i + 1]
           /\ \A i \in DOMAIN s : i # 1 => i - 1 \in DOMAIN Tail(s) /\ Tail(s)[i - 1] = s[i]
<1>1. Len(s) \in Nat /\ Len(s) > 0 /\ DOMAIN s = 1 .. Len(s) /\ Head(s) = s[1]
  OBVIOUS
<1>2. /\ Tail(s) \in Seq(Nat) /\ Len(Tail(s)) = Len(s) - 1
      /\ \A i \in 1 .. Len(Tail(s)) : Tail(s)[i] = s[i + 1]
  BY HeadTailProperties
<1>3. DOMAIN Tail(s) = 1 .. Len(s) - 1
  BY <1>1, <1>2
<1>4. \A i \in DOMAIN Tail(s) : i + 1 \in DOMAIN s /\ i + 1 # 1 /\ Tail(s)[i] = s[i + 1]
  BY <1>1, <1>2, <1>3
<1>5. \A i \in DOMAIN s : i # 1 => i - 1 \in DOMAIN Tail(s) /\ Tail(s)[i - 1] = s[i]
  <2> TAKE i \in DOMAIN s
  <2>1. i # 1 => i - 1 \in 1 .. Len(s) - 1 /\ (i - 1) + 1 = i
    BY <1>1
  <2> QED BY <1>2, <1>3, <2>1
<1> QED BY <1>1, <1>2, <1>4, <1>5

(* What poller_add_fd() and poller_set_autoreset() do to the fields        *)
RegisteredAs(q, r, e, o, k, fd) ==
    /\ DOMAIN r = Fields
    /\ r.kind = [q.kind EXCEPT ![e] = "fd"]
    /\ r.pptr = [q.pptr EXCEPT ![e] = o]
    /\ r.ptr = [q.ptr EXCEPT ![o] = e]
    /\ r.pollfd = [q.pollfd EXCEPT ![k] = fd]
    /\ r.freeSlots = Tail(q.freeSlots)
    /\ r.due = q.due /\ r.off = q.off
    /\ r.current = q.current /\ r.delete = q.delete /\ r.failed = q.failed

NewSlot(fd, e) ==
    DOMAIN fd = SlotFields /\ fd.evt = e /\ fd.on = TRUE /\ fd.revents = {}

(* A descriptor that is registered takes the first free slot. *)
LEMMA RegisteredOK ==
    ASSUME NEW q, NEW x, NEW d, Consistent(q, x, d), q.freeSlots # <<>>,
           NEW o \in Ptrs, ~ IsSet(q, o), NEW e \in Ev, q.kind[e] = "free",
           NEW fd, NewSlot(fd, e),
           NEW r, RegisteredAs(q, r, e, o, Head(q.freeSlots), fd)
    PROVE  /\ Consistent(r, x, d)
           /\ Len(r.pollfd) = Len(q.pollfd)
           /\ r.ptr[o] = e /\ r.kind[e] = "fd"
           /\ \A v \in Ptrs : v # o => r.ptr[v] = q.ptr[v]
           /\ \A f \in Ev : f # e => r.kind[f] = q.kind[f]
           /\ \A i : Pending(r, i) => Pending(q, i) /\ r.pollfd[i] = q.pollfd[i]
<1> USE DEF NewSlot
<1> DEFINE k == Head(q.freeSlots)
<1>1. /\ q.kind \in [Ev -> EventKinds] /\ NoPtr \notin Ptrs /\ Null \notin Ev
      /\ q.pptr \in [Ev -> Ptrs \cup {NoPtr}] /\ q.ptr \in [Ptrs -> Ev \cup {Null}]
      /\ q.freeSlots \in Seq(Nat) /\ q.ptr[o] = Null /\ e # Null
  BY EventsAssumption DEF Consistent, Shape, Form, IsSet
<1>2. /\ k = q.freeSlots[1] /\ 1 \in DOMAIN q.freeSlots
      /\ r.freeSlots \in Seq(Nat)
      /\ \A i \in DOMAIN r.freeSlots :
            i + 1 \in DOMAIN q.freeSlots /\ i + 1 # 1 /\ r.freeSlots[i] = q.freeSlots[i + 1]
      /\ \A i \in DOMAIN q.freeSlots : i # 1 => i - 1 \in DOMAIN r.freeSlots /\ r.freeSlots[i - 1] = q.freeSlots[i]
  BY <1>1, PopSlot DEF RegisteredAs
<1>3. /\ \A i \in DOMAIN q.freeSlots :
            q.freeSlots[i] \in DOMAIN q.pollfd /\ q.pollfd[q.freeSlots[i]].evt = Null
      /\ \A i \in DOMAIN q.pollfd : q.pollfd[i].evt = Null =>
            \E n \in DOMAIN q.freeSlots : q.freeSlots[n] = i
      /\ \A i, j \in DOMAIN q.freeSlots : q.freeSlots[i] = q.freeSlots[j] => i = j
  BY DEF Consistent, FreeSlots
<1>4. k \in DOMAIN q.pollfd /\ q.pollfd[k].evt = Null
  BY <1>2, <1>3
<1>5. /\ DOMAIN r.pollfd = DOMAIN q.pollfd /\ r.pollfd[k] = fd
      /\ \A i \in DOMAIN q.pollfd : i # k => r.pollfd[i] = q.pollfd[i]
  BY <1>4 DEF RegisteredAs
<1> HIDE DEF k
<1>6. IsSeq(r.pollfd) /\ Len(r.pollfd) = Len(q.pollfd)
  <2>1. r.pollfd = [i \in DOMAIN q.pollfd |-> r.pollfd[i]]
    BY <1>4 DEF RegisteredAs
  <2> QED BY <1>5, <2>1, ExceptIsSeq DEF Consistent, Shape, Form
<1>7. /\ r.kind[e] = "fd" /\ r.pptr[e] = o /\ r.ptr[o] = e
      /\ \A f \in Ev : f # e => r.kind[f] = q.kind[f] /\ r.pptr[f] = q.pptr[f]
      /\ \A v \in Ptrs : v # o => r.ptr[v] = q.ptr[v]
      /\ r.kind \in [Ev -> EventKinds]
      /\ r.pptr \in [Ev -> Ptrs \cup {NoPtr}] /\ r.ptr \in [Ptrs -> Ev \cup {Null}]
  BY <1>1 DEF EventKinds, RegisteredAs
<1>8. Shape(r)
  BY <1>2, <1>5, <1>6, <1>7 DEF Consistent, Shape, Form, RegisteredAs
<1>9. /\ x \in Ev \cup {Null} /\ d \in BOOLEAN
      /\ x # Null => q.kind[x] # "free"
      /\ d => x # Null /\ q.pptr[x] = NoPtr
      /\ \A v \in Ptrs : q.ptr[v] # Null => q.pptr[q.ptr[v]] = v
      /\ \A f \in Ev : q.kind[f] = "free" => q.pptr[f] = NoPtr /\ f \notin q.off
      /\ \A f \in Ev : q.kind[f] # "free" =>
            (q.pptr[f] \in Ptrs /\ q.ptr[q.pptr[f]] = f) \/ (f = x /\ d)
  BY DEF Consistent, Pointers
<1>10. Pointers(r, x, d)
  <2>1. \A v \in Ptrs : r.ptr[v] # Null => r.pptr[r.ptr[v]] = v
    BY <1>1, <1>7, <1>9
  <2>2. \A f \in Ev : r.kind[f] = "free" => r.pptr[f] = NoPtr /\ f \notin r.off
    BY <1>7, <1>9 DEF RegisteredAs
  <2>3. \A f \in Ev : r.kind[f] # "free" =>
          (r.pptr[f] \in Ptrs /\ r.ptr[r.pptr[f]] = f) \/ (f = x /\ d)
    <3> SUFFICES ASSUME NEW f \in Ev, r.kind[f] # "free", ~ (f = x /\ d), f # e
                 PROVE  r.pptr[f] \in Ptrs /\ r.ptr[r.pptr[f]] = f
      BY <1>7
    <3>1. r.pptr[f] = q.pptr[f] /\ q.pptr[f] \in Ptrs /\ q.ptr[q.pptr[f]] = f
      BY <1>7, <1>9
    <3>2. q.pptr[f] # o
      BY <1>1, <3>1
    <3> QED BY <1>7, <3>1, <3>2
  <2> QED BY <1>1, <1>7, <1>9, <2>1, <2>2, <2>3 DEF Pointers
<1>11. Heap(r, x)
  BY <1>7 DEF Consistent, Heap, RegisteredAs
<1>12. Slots(r)
  <2>1. \A i \in DOMAIN q.pollfd : q.pollfd[i].evt # e
    BY <1>1 DEF Consistent, Slots
  <2>2. ASSUME NEW i \in DOMAIN r.pollfd
        PROVE  IF r.pollfd[i].evt = Null THEN ~ r.pollfd[i].on
               ELSE /\ r.kind[r.pollfd[i].evt] = "fd"
                    /\ r.pollfd[i].on <=> r.pollfd[i].evt \notin r.off
    <3>1. CASE i = k
      BY <1>1, <1>5, <1>7, <1>9, <3>1 DEF RegisteredAs
    <3>2. CASE i # k
      BY <1>5, <1>7, <2>1, <3>2 DEF Consistent, Slots, Shape, Form, RegisteredAs
    <3> QED BY <3>1, <3>2
  <2>3. ASSUME NEW i \in DOMAIN r.pollfd, NEW j \in DOMAIN r.pollfd,
               r.pollfd[i].evt = r.pollfd[j].evt, r.pollfd[i].evt # Null
        PROVE  i = j
    <3>1. /\ r.pollfd[k].evt = e
          /\ \A n \in DOMAIN q.pollfd : n # k => r.pollfd[n].evt = q.pollfd[n].evt
      BY <1>5
    <3>2. i = k <=> j = k
      BY <1>5, <2>1, <2>3, <3>1
    <3>3. CASE i # k /\ j # k
      <4>1. q.pollfd[i].evt = q.pollfd[j].evt /\ q.pollfd[i].evt # Null
        BY <1>5, <2>3, <3>1, <3>3
      <4> QED BY <1>5, <4>1 DEF Consistent, Slots
    <3> QED BY <3>2, <3>3
  <2>4. ASSUME NEW f \in Ev, r.kind[f] = "fd" PROVE \E i \in DOMAIN r.pollfd : r.pollfd[i].evt = f
    <3>1. CASE f = e
      BY <1>4, <1>5, <3>1
    <3>2. CASE f # e
      <4>1. PICK i \in DOMAIN q.pollfd : q.pollfd[i].evt = f
        BY <1>7, <2>4, <3>2 DEF Consistent, Slots
      <4> QED BY <1>4, <1>5, <4>1, EventsAssumption
    <3> QED BY <3>1, <3>2
  <2> QED BY <2>2, <2>3, <2>4 DEF Slots
<1>13. FreeSlots(r)
  <2>1. \A i \in DOMAIN r.freeSlots : r.freeSlots[i] # k
    BY <1>2, <1>3
  <2>2. \A i \in DOMAIN r.freeSlots :
          r.freeSlots[i] \in DOMAIN r.pollfd /\ r.pollfd[r.freeSlots[i]].evt = Null
    <3> TAKE i \in DOMAIN r.freeSlots
    <3>1. r.freeSlots[i] \in DOMAIN q.pollfd /\ q.pollfd[r.freeSlots[i]].evt = Null
      BY <1>2, <1>3
    <3> QED BY <1>5, <2>1, <3>1
  <2>3. ASSUME NEW i \in DOMAIN r.pollfd, r.pollfd[i].evt = Null
        PROVE  \E n \in DOMAIN r.freeSlots : r.freeSlots[n] = i
    <3>1. i # k
      BY <1>1, <1>5, <2>3
    <3>2. PICK n \in DOMAIN q.freeSlots : q.freeSlots[n] = i
      BY <1>3, <1>5, <2>3, <3>1
    <3>3. n # 1
      BY <1>2, <3>1, <3>2
    <3> QED BY <1>2, <3>2, <3>3
  <2>4. ASSUME NEW i \in DOMAIN r.freeSlots, NEW j \in DOMAIN r.freeSlots,
               r.freeSlots[i] = r.freeSlots[j]
        PROVE  i = j
    <3>1. i + 1 = j + 1
      BY <1>2, <1>3, <2>4
    <3>2. i \in Nat /\ j \in Nat
      BY <1>2
    <3> QED BY <3>1, <3>2
  <2> QED BY <2>2, <2>3, <2>4 DEF FreeSlots
<1>14. \A i : Pending(r, i) => Pending(q, i) /\ r.pollfd[i] = q.pollfd[i]
  BY <1>5 DEF Pending
<1> QED BY <1>6, <1>7, <1>8, <1>10, <1>11, <1>12, <1>13, <1>14 DEF Consistent

(* poller_add_fd(), while the loop runs over the array too                 *)
LEMMA AddFdOK ==
    ASSUME NEW q, Consistent(q, q.current, q.delete), NEW o \in Ptrs, ~ IsSet(q, o),
           CanAlloc(q), NEW cb, NEW file, NEW mask,
           NEW r, r = WithAutoreset(poller_add_fd(q, cb, file, mask), alloc_event(q), o)
    PROVE  /\ Consistent(r, r.current, r.delete)
           /\ Keeps(q, r, {o})
           /\ r.ptr[o] \in Ev /\ r.kind[r.ptr[o]] = "fd"
<1> DEFINE g == IF q.freeSlots = <<>> THEN grow_pollfd_array(q) ELSE q
           e == alloc_event(q)
           fd == [evt |-> e, file |-> file, on |-> TRUE, mask |-> mask, revents |-> {}]
<1>1. e \in Ev /\ q.kind[e] = "free"
  BY AllocIsFree
<1>2. Len(q.pollfd) \in Nat /\ DOMAIN q.pollfd = 1 .. Len(q.pollfd)
  BY IsSeqFacts DEF Consistent, Shape, Form
<1>3. /\ Consistent(g, q.current, q.delete)
      /\ g.freeSlots # <<>>
      /\ g.kind = q.kind /\ g.off = q.off /\ g.ptr = q.ptr
      /\ g.current = q.current /\ g.delete = q.delete
      /\ Len(g.pollfd) >= Len(q.pollfd)
      /\ \A i \in DOMAIN q.pollfd : g.pollfd[i] = q.pollfd[i]
      /\ \A i \in DOMAIN g.pollfd : i \notin DOMAIN q.pollfd => g.pollfd[i].evt = Null
  <2>1. CASE q.freeSlots = <<>>
    BY <2>1, GrowOK
  <2>2. CASE q.freeSlots # <<>>
    BY <1>2, <2>2
  <2> QED BY <2>1, <2>2
<1>4. alloc_event(g) = e
  BY <1>3 DEF alloc_event
<1>5. RegisteredAs(g, r, e, o, Head(g.freeSlots), fd)
  <2>1. r = WithAutoreset([g EXCEPT
              !.pollfd[Head(g.freeSlots)] = fd,
              !.freeSlots = Tail(@),
              !.kind[e] = "fd",
              !.cb[e] = cb], e, o)
    BY <1>4 DEF poller_add_fd
  <2> HIDE DEF g, e, fd
  <2> QED BY <1>3, <2>1 DEF WithAutoreset, poller_set_autoreset, RegisteredAs, Consistent, Shape, Form, Fields
<1>6. NewSlot(fd, e)
  BY DEF NewSlot, SlotFields
<1> HIDE DEF g, e, fd
<1>7. /\ Consistent(r, q.current, q.delete)
      /\ Len(r.pollfd) = Len(g.pollfd)
      /\ r.ptr[o] = e /\ r.kind[e] = "fd"
      /\ \A v \in Ptrs : v # o => r.ptr[v] = q.ptr[v]
      /\ \A f \in Ev : f # e => r.kind[f] = q.kind[f]
      /\ \A i : Pending(r, i) => Pending(g, i) /\ r.pollfd[i] = g.pollfd[i]
  <2>1. ~ IsSet(g, o) /\ g.kind[e] = "free"
    BY <1>1, <1>3 DEF IsSet
  <2>2. /\ Consistent(r, q.current, q.delete)
        /\ Len(r.pollfd) = Len(g.pollfd)
        /\ r.ptr[o] = e /\ r.kind[e] = "fd"
        /\ \A v \in Ptrs : v # o => r.ptr[v] = g.ptr[v]
        /\ \A f \in Ev : f # e => r.kind[f] = g.kind[f]
        /\ \A i : Pending(r, i) => Pending(g, i) /\ r.pollfd[i] = g.pollfd[i]
    BY <1>1, <1>3, <1>5, <1>6, <2>1, RegisteredOK
  <2> QED BY <1>3, <2>2
<1>8. r.current = q.current /\ r.delete = q.delete /\ r.off = q.off
  BY <1>3, <1>5 DEF RegisteredAs
<1>9. \A i : Pending(r, i) => Pending(q, i) /\ r.pollfd[i] = q.pollfd[i]
  BY <1>3, <1>7 DEF Pending
<1>10. q.current # Null => r.kind[q.current] = q.kind[q.current]
  BY <1>1, <1>7 DEF Consistent, Shape, Form, Pointers
<1>11. \A v \in Ptrs \ {o} : r.ptr[v] # Null => r.ptr[v] = q.ptr[v] /\ r.kind[q.ptr[v]] = q.kind[q.ptr[v]]
  <2> SUFFICES ASSUME NEW v \in Ptrs, v # o, r.ptr[v] # Null
               PROVE  r.ptr[v] = q.ptr[v] /\ r.kind[q.ptr[v]] = q.kind[q.ptr[v]]
    OBVIOUS
  <2>1. r.ptr[v] = q.ptr[v]
    BY <1>7
  <2>2. q.ptr[v] \in Ev /\ q.pptr[q.ptr[v]] = v
    BY <2>1 DEF Consistent, Shape, Form, Pointers
  <2>3. q.ptr[v] # e
    BY <1>1, <2>2, EventsAssumption DEF Consistent, Pointers
  <2> QED BY <1>7, <2>1, <2>2, <2>3
<1> QED BY <1>1, <1>3, <1>7, <1>8, <1>9, <1>10, <1>11 DEF Keeps

----------------------------------------------------------------------------
(* poller_toggle(): not of a timer whose callback runs, which would be in  *)
(* the heap twice once it is armed again.                                  *)
Toggled(q, r, e, enable) ==
    /\ DOMAIN r = Fields
    /\ r.off = IF enable THEN q.off \ {e} ELSE q.off \cup {e}
    /\ r.kind = q.kind /\ r.pptr = q.pptr /\ r.ptr = q.ptr /\ r.freeSlots = q.freeSlots
    /\ r.current = q.current /\ r.delete = q.delete /\ r.failed = FALSE

(* A timer that is enabled or disabled enters or leaves the heap. *)
LEMMA ToggleTimer ==
    ASSUME NEW q, NEW x, NEW d, Consistent(q, x, d), NEW e \in Ev, q.kind[e] = "timer", e # x,
           NEW enable \in BOOLEAN,
           NEW r, Toggled(q, r, e, enable), r.pollfd = q.pollfd,
           DOMAIN r.due = IF enable THEN DOMAIN q.due \cup {e} ELSE DOMAIN q.due \ {e}
    PROVE  Consistent(r, x, d)
<1> USE DEF Toggled
<1>1. Shape(r)
  BY DEF Consistent, Shape, Form
<1>2. Pointers(r, x, d)
  BY DEF Consistent, Pointers
<1>3. Heap(r, x)
  BY DEF Consistent, Heap
<1>4. Slots(r)
  <2>1. \A i \in DOMAIN q.pollfd : q.pollfd[i].evt # Null => q.pollfd[i].evt # e
    BY DEF Consistent, Slots
  <2> QED BY <2>1 DEF Consistent, Slots, Shape, Form
<1>5. FreeSlots(r)
  BY DEF Consistent, FreeSlots
<1> QED BY <1>1, <1>2, <1>3, <1>4, <1>5 DEF Consistent

(* A descriptor that is enabled or disabled keeps its slot. *)
LEMMA ToggleFd ==
    ASSUME NEW q, NEW x, NEW d, Consistent(q, x, d), NEW e \in Ev, q.kind[e] = "fd",
           NEW enable \in BOOLEAN, (e \notin q.off) # enable,
           NEW r, Toggled(q, r, e, enable), r.due = q.due,
           r.pollfd = [q.pollfd EXCEPT ![SlotOf(q, e)].on = ~ @]
    PROVE  /\ Consistent(r, x, d)
           /\ Len(r.pollfd) = Len(q.pollfd)
           /\ \A i : Pending(r, i) => Pending(q, i) /\ r.pollfd[i].evt = q.pollfd[i].evt
<1> USE DEF Toggled
<1> DEFINE k == SlotOf(q, e)
<1>1. /\ k \in DOMAIN q.pollfd /\ q.pollfd[k].evt = e
      /\ \A i \in DOMAIN q.pollfd : i # k => q.pollfd[i].evt # e
  BY SlotOfFd DEF Consistent
<1> HIDE DEF k
<1>2. /\ DOMAIN q.pollfd[k] = SlotFields /\ q.pollfd[k].on \in BOOLEAN /\ e # Null
      /\ q.pollfd[k].on <=> e \notin q.off
  BY <1>1, EventsAssumption DEF Consistent, Shape, Form, Slots
<1>3. r.pollfd = [q.pollfd EXCEPT ![k] = [q.pollfd[k] EXCEPT !.on = ~ q.pollfd[k].on]]
  BY DEF k
<1>4. /\ DOMAIN r.pollfd = DOMAIN q.pollfd
      /\ DOMAIN r.pollfd[k] = SlotFields /\ r.pollfd[k].evt = e /\ r.pollfd[k].revents = q.pollfd[k].revents
      /\ r.pollfd[k].on = ~ q.pollfd[k].on
      /\ \A i \in DOMAIN q.pollfd : i # k => r.pollfd[i] = q.pollfd[i]
  BY <1>1, <1>2, <1>3 DEF SlotFields
<1>5. IsSeq(r.pollfd) /\ Len(r.pollfd) = Len(q.pollfd)
  <2>1. r.pollfd = [i \in DOMAIN q.pollfd |-> r.pollfd[i]]
    BY <1>3
  <2> QED BY <1>4, <2>1, ExceptIsSeq DEF Consistent, Shape, Form
<1>6. Shape(r)
  <2>1. \A i \in DOMAIN r.pollfd : /\ DOMAIN r.pollfd[i] = SlotFields
                                   /\ r.pollfd[i].evt \in Ev \cup {Null}
                                   /\ r.pollfd[i].on \in BOOLEAN
    BY <1>2, <1>4 DEF Consistent, Shape, Form
  <2> QED BY <1>5, <2>1 DEF Consistent, Shape, Form
<1>7. Pointers(r, x, d)
  BY DEF Consistent, Pointers
<1>8. Heap(r, x)
  BY DEF Consistent, Heap
<1>9. Slots(r)
  <2>1. ASSUME NEW i \in DOMAIN r.pollfd
        PROVE  IF r.pollfd[i].evt = Null THEN ~ r.pollfd[i].on
               ELSE /\ r.kind[r.pollfd[i].evt] = "fd"
                    /\ r.pollfd[i].on <=> r.pollfd[i].evt \notin r.off
    <3>1. CASE i = k
      BY <1>2, <1>4, <3>1
    <3>2. CASE i # k
      <4>1. r.pollfd[i] = q.pollfd[i] /\ i \in DOMAIN q.pollfd /\ q.pollfd[i].evt # e
        BY <1>1, <1>4, <3>2
      <4>2. q.pollfd[i].evt \in r.off <=> q.pollfd[i].evt \in q.off
        BY <4>1
      <4>3. IF q.pollfd[i].evt = Null THEN ~ q.pollfd[i].on
            ELSE /\ q.kind[q.pollfd[i].evt] = "fd"
                 /\ q.pollfd[i].on <=> q.pollfd[i].evt \notin q.off
        BY <4>1 DEF Consistent, Slots
      <4> QED BY <4>1, <4>2, <4>3
    <3> QED BY <3>1, <3>2
  <2>2. \A i \in DOMAIN r.pollfd : r.pollfd[i].evt = q.pollfd[i].evt
    BY <1>1, <1>4
  <2>3. /\ \A i, j \in DOMAIN r.pollfd :
             r.pollfd[i].evt = r.pollfd[j].evt /\ r.pollfd[i].evt # Null => i = j
        /\ \A f \in Ev : r.kind[f] = "fd" => \E i \in DOMAIN r.pollfd : r.pollfd[i].evt = f
    BY <1>4, <2>2 DEF Consistent, Slots
  <2> QED BY <2>1, <2>3 DEF Slots
<1>10. FreeSlots(r)
  <2>1. \A i \in DOMAIN q.pollfd : r.pollfd[i].evt = q.pollfd[i].evt
    BY <1>1, <1>4
  <2> QED BY <1>4, <2>1 DEF Consistent, FreeSlots
<1>11. \A i : Pending(r, i) => Pending(q, i) /\ r.pollfd[i].evt = q.pollfd[i].evt
  BY <1>1, <1>4 DEF Pending
<1> QED BY <1>5, <1>6, <1>7, <1>8, <1>9, <1>10, <1>11 DEF Consistent

(* poller_toggle() of an event keeps what holds between calls. *)
LEMMA ToggleOK ==
    ASSUME NEW q, Consistent(q, q.current, q.delete), NEW e \in Ev, q.kind[e] # "free",
           q.kind[e] = "timer" => e # q.current, NEW enable \in BOOLEAN,
           NEW r, r = poller_toggle(q, e, enable)
    PROVE  /\ Consistent(r, r.current, r.delete)
           /\ Keeps(q, r, {})
<1>1. /\ e # Null /\ DOMAIN q = Fields /\ q.failed = FALSE /\ Len(q.pollfd) \in Nat
      /\ q.kind[e] \in {"fd", "timer"}
  BY IsSeqFacts, EventsAssumption DEF Consistent, Shape, Form, EventKinds
<1>2. poller_is_enabled(q, e) = (e \notin q.off)
  BY <1>1 DEF poller_is_enabled
<1>3. CASE (e \notin q.off) = enable
  <2>1. r = q
    BY <1>2, <1>3 DEF poller_toggle
  <2> QED BY <1>1, <2>1 DEF Keeps
<1>4. CASE (e \notin q.off) # enable
  <2> DEFINE a == [q EXCEPT !.off = IF enable THEN @ \ {e} ELSE @ \cup {e}]
  <2>1. r = CASE q.kind[e] = "fd"    -> [a EXCEPT !.pollfd[SlotOf(q, e)].on = ~ @]
              [] q.kind[e] = "timer" -> IF enable THEN heap_insert(a, e) ELSE heap_remove(a, e)
              [] q.kind[e] = "free"  -> Require(q, FALSE)
    BY <1>1, <1>2, <1>4 DEF poller_toggle
  <2>2. Toggled(q, a, e, enable) /\ a.pollfd = q.pollfd /\ a.due = q.due
    BY <1>1 DEF Fields, Toggled
  <2> HIDE DEF a
  <2>3. CASE q.kind[e] = "fd"
    <3>1. r = [a EXCEPT !.pollfd[SlotOf(q, e)].on = ~ @]
      BY <2>1, <2>3
    <3>2. /\ Toggled(q, r, e, enable) /\ r.due = q.due
          /\ r.pollfd = [q.pollfd EXCEPT ![SlotOf(q, e)].on = ~ @]
      BY <2>2, <3>1 DEF Fields, Toggled
    <3>3. /\ Consistent(r, q.current, q.delete)
          /\ Len(r.pollfd) = Len(q.pollfd)
          /\ \A i : Pending(r, i) => Pending(q, i) /\ r.pollfd[i].evt = q.pollfd[i].evt
      BY <1>4, <2>3, <3>2, ToggleFd
    <3>4. q.current # Null /\ q.kind[q.current] = "timer" => e # q.current
      BY <2>3
    <3> QED BY <1>1, <3>2, <3>3, <3>4 DEF Keeps, Toggled
  <2>4. CASE q.kind[e] = "timer"
    <3>1. r = IF enable THEN heap_insert(a, e) ELSE heap_remove(a, e)
      BY <2>1, <2>4
    <3>2. Toggled(q, r, e, enable) /\ r.pollfd = q.pollfd
      <4>1. enable => e \notin DOMAIN a.due
        BY <1>4, <2>2 DEF Consistent, Heap
      <4> QED BY <2>2, <3>1, <4>1 DEF Fields, Toggled, heap_insert, heap_remove, Require
    <3>3. DOMAIN r.due = IF enable THEN DOMAIN q.due \cup {e} ELSE DOMAIN q.due \ {e}
      BY <2>2, <3>1 DEF Fields, Toggled, heap_insert, heap_remove, Require, Restrict
    <3>4. Consistent(r, q.current, q.delete)
      BY <2>4, <3>2, <3>3, ToggleTimer
    <3> QED BY <1>1, <2>4, <3>2, <3>4 DEF Keeps, Toggled, Pending
  <2> QED BY <1>1, <2>3, <2>4
<1> QED BY <1>3, <1>4

----------------------------------------------------------------------------
(* ppoll() writes revents, and time passes.                                *)
LEMMA PolledOK ==
    ASSUME NEW q, NEW x, NEW d, Consistent(q, x, d), NEW ready, NEW t,
           NEW r, r = Polled(q, ready, t)
    PROVE  /\ Consistent(r, x, d)
           /\ r.current = q.current /\ r.delete = q.delete
           /\ r.kind = q.kind /\ r.ptr = q.ptr
           /\ Len(r.pollfd) = Len(q.pollfd)
           /\ \A i : Pending(r, i) => i \in DOMAIN r.pollfd /\ HasEvents(r, i)
<1> DEFINE rev(i) == IF q.pollfd[i].on THEN ready[q.pollfd[i].file] \cap (q.pollfd[i].mask \cup {"hup"})
                     ELSE {}
<1>1. /\ DOMAIN r = Fields
      /\ r.kind = q.kind /\ r.off = q.off /\ r.ptr = q.ptr /\ r.pptr = q.pptr
      /\ r.freeSlots = q.freeSlots /\ DOMAIN r.due = DOMAIN q.due
      /\ r.current = q.current /\ r.delete = q.delete /\ r.failed = q.failed
      /\ r.pollfd = [i \in DOMAIN q.pollfd |-> [q.pollfd[i] EXCEPT !.revents = rev(i)]]
  BY DEF Polled, Consistent, Shape, Form, Fields
<1> HIDE DEF rev
<1>2. DOMAIN r.pollfd = DOMAIN q.pollfd
  BY <1>1
<1>3. \A i \in DOMAIN q.pollfd :
        /\ DOMAIN r.pollfd[i] = SlotFields
        /\ r.pollfd[i].evt = q.pollfd[i].evt /\ r.pollfd[i].on = q.pollfd[i].on
        /\ r.pollfd[i].revents = rev(i)
  <2> TAKE i \in DOMAIN q.pollfd
  <2>1. r.pollfd[i] = [q.pollfd[i] EXCEPT !.revents = rev(i)]
    BY <1>1
  <2> QED BY <2>1 DEF Consistent, Shape, Form, SlotFields
<1>4. IsSeq(r.pollfd) /\ Len(r.pollfd) = Len(q.pollfd)
  <2>1. r.pollfd = [i \in DOMAIN q.pollfd |-> r.pollfd[i]]
    BY <1>1
  <2> QED BY <1>2, <2>1, ExceptIsSeq DEF Consistent, Shape, Form
<1>5. Shape(r)
  BY <1>1, <1>2, <1>3, <1>4 DEF Consistent, Shape, Form
<1>6. Pointers(r, x, d) /\ Heap(r, x)
  BY <1>1 DEF Consistent, Pointers, Heap
<1>7. Slots(r)
  BY <1>1, <1>2, <1>3 DEF Consistent, Slots
<1>8. FreeSlots(r)
  BY <1>1, <1>2, <1>3 DEF Consistent, FreeSlots
<1>9. \A i : Pending(r, i) => i \in DOMAIN r.pollfd /\ HasEvents(r, i)
  <2> SUFFICES ASSUME NEW i, Pending(r, i) PROVE i \in DOMAIN r.pollfd /\ HasEvents(r, i)
    OBVIOUS
  <2>1. i \in DOMAIN q.pollfd /\ rev(i) # {}
    BY <1>2, <1>3 DEF Pending
  <2>2. q.pollfd[i].on
    BY <2>1 DEF rev
  <2> QED BY <1>2, <1>3, <2>1, <2>2 DEF HasEvents
<1> QED BY <1>1, <1>4, <1>5, <1>6, <1>7, <1>8, <1>9 DEF Consistent

(* The callback of a descriptor starts.                                    *)
LEMMA StartFdOK ==
    ASSUME NEW q, Consistent(q, q.current, q.delete), q.current = Null,
           NEW i \in DOMAIN q.pollfd, HasEvents(q, i),
           NEW r, r = StartFd(q, i)
    PROVE  /\ Consistent(r, r.current, r.delete)
           /\ r.current \in Ev /\ r.current = q.pollfd[i].evt /\ r.kind[r.current] = "fd"
           /\ r.kind = q.kind /\ r.ptr = q.ptr /\ r.pollfd = q.pollfd
<1> DEFINE e == q.pollfd[i].evt
<1>1. e # Null /\ e \in Ev /\ q.kind[e] = "fd"
  BY DEF HasEvents, Consistent, Slots, Shape, Form
<1>2. /\ DOMAIN r = Fields /\ r.current = e
      /\ r.kind = q.kind /\ r.off = q.off /\ r.ptr = q.ptr /\ r.pptr = q.pptr /\ r.due = q.due
      /\ r.pollfd = q.pollfd /\ r.freeSlots = q.freeSlots
      /\ r.delete = q.delete /\ r.failed = FALSE
  BY <1>1 DEF StartFd, Require, Consistent, Shape, Form, Fields
<1> HIDE DEF e
<1>3. q.delete = FALSE
  BY DEF Consistent, Pointers
<1>4. Shape(r)
  BY <1>1, <1>2 DEF Consistent, Shape, Form
<1>5. Pointers(r, e, FALSE)
  BY <1>1, <1>2, <1>3 DEF Consistent, Pointers
<1>6. Heap(r, e)
  BY <1>1, <1>2, EventsAssumption DEF Consistent, Heap
<1>7. Slots(r) /\ FreeSlots(r)
  BY <1>2 DEF Consistent, Slots, FreeSlots
<1> QED BY <1>1, <1>2, <1>3, <1>4, <1>5, <1>6, <1>7 DEF Consistent, e

(* What the end of a callback leaves alone                                 *)
Ends(q, r) ==
    /\ r.current = Null
    /\ Len(r.pollfd) = Len(q.pollfd)
    /\ \A o \in Ptrs : r.ptr[o] # Null => r.ptr[o] = q.ptr[o] /\ r.kind[q.ptr[o]] = q.kind[q.ptr[o]]
    /\ \A i : Pending(r, i) => Pending(q, i)

(* current_event is reset, and its event is still out of the poller.       *)
LEMMA OutOfPoller ==
    ASSUME NEW q, NEW e \in Ev, NEW d, Consistent(q, e, d), NEW b,
           DOMAIN b = Fields, b.current = Null, b.delete = FALSE,
           b.kind = q.kind, b.off = q.off, b.ptr = q.ptr, b.pptr = q.pptr, b.due = q.due,
           b.pollfd = q.pollfd, b.freeSlots = q.freeSlots, b.failed = q.failed
    PROVE  Consistent(b, e, d) /\ b.kind[e] # "free" /\ e # b.current
<1>1. e # Null
  BY EventsAssumption
<1>2. Shape(b)
  BY DEF Consistent, Shape, Form
<1>3. Pointers(b, e, d) /\ b.kind[e] # "free"
  BY <1>1 DEF Consistent, Pointers
<1>4. Heap(b, e)
  BY DEF Consistent, Heap
<1>5. Slots(b) /\ FreeSlots(b)
  BY DEF Consistent, Slots, FreeSlots
<1> QED BY <1>1, <1>2, <1>3, <1>4, <1>5 DEF Consistent

(* The event was removed by its own callback, or while it ran.             *)
LEMMA DeletedOK ==
    ASSUME NEW q, Consistent(q, q.current, q.delete), q.delete,
           NEW r, r = Deleted(q, q.current)
    PROVE  Consistent(r, r.current, r.delete) /\ Ends(q, r)
<1> DEFINE e == q.current
           b == [q EXCEPT !.current = Null, !.delete = FALSE]
<1>0. PICK d : d = q.delete
  OBVIOUS
<1>1. e \in Ev /\ e # Null /\ q.kind[e] # "free" /\ q.delete = TRUE
  BY DEF Consistent, Pointers, Shape, Form
<1>2. /\ DOMAIN b = Fields /\ b.current = Null /\ b.delete = FALSE
      /\ b.kind = q.kind /\ b.off = q.off /\ b.ptr = q.ptr /\ b.pptr = q.pptr /\ b.due = q.due
      /\ b.pollfd = q.pollfd /\ b.freeSlots = q.freeSlots /\ b.failed = q.failed
  BY DEF Consistent, Shape, Form, Fields
<1>3. r = poller_remove(b, e)
  BY DEF Deleted
<1> HIDE DEF b, e
<1>4. Consistent(b, e, d) /\ b.kind[e] # "free" /\ e # b.current
  <2>1. Consistent(q, e, d)
    BY <1>0 DEF e
  <2> QED BY <1>1, <1>2, <2>1, OutOfPoller
<1>5. /\ Consistent(r, Other(e, e), OtherDeleted(e, e, d))
      /\ Gone(b, r, e)
      /\ Len(r.pollfd) = Len(b.pollfd)
      /\ \A i : Pending(r, i) => Pending(b, i) /\ r.pollfd[i] = b.pollfd[i]
  BY <1>1, <1>2, <1>3, <1>4, RemoveOK
<1>6. /\ \A f \in Ev : f # e => r.kind[f] = b.kind[f]
      /\ \A o \in Ptrs : r.ptr[o] # Null => r.ptr[o] = b.ptr[o] /\ r.ptr[o] # e
  BY <1>1, <1>2, <1>4, <1>5, GonePointers
<1>7. r.current = Null /\ r.delete = FALSE
  BY <1>2, <1>5 DEF Gone
<1>8. Other(e, e) = Null /\ OtherDeleted(e, e, d) = FALSE
  BY DEF Other, OtherDeleted
<1>9. Ends(q, r)
  <2>1. \A o \in Ptrs : r.ptr[o] # Null => r.ptr[o] = q.ptr[o] /\ r.kind[q.ptr[o]] = q.kind[q.ptr[o]]
    BY <1>2, <1>6 DEF Consistent, Shape, Form
  <2> QED BY <1>2, <1>5, <1>7, <2>1 DEF Ends, Pending
<1> QED BY <1>5, <1>7, <1>8, <1>9

(* The callback of a descriptor returned.                                  *)
LEMMA EndFdOK ==
    ASSUME NEW q, Consistent(q, q.current, q.delete), q.current # Null, q.kind[q.current] = "fd",
           NEW k \in DOMAIN q.pollfd,
           NEW r, r = EndFd(q, k)
    PROVE  Consistent(r, r.current, r.delete) /\ Ends(q, r)
<1> DEFINE a == [q EXCEPT !.pollfd[k].revents = {}]
<1>1. /\ DOMAIN a = Fields
      /\ a.kind = q.kind /\ a.off = q.off /\ a.ptr = q.ptr /\ a.pptr = q.pptr /\ a.due = q.due
      /\ a.freeSlots = q.freeSlots /\ a.failed = q.failed
      /\ a.current = q.current /\ a.delete = q.delete
      /\ a.pollfd = [q.pollfd EXCEPT ![k] = [q.pollfd[k] EXCEPT !.revents = {}]]
  BY DEF Consistent, Shape, Form, Fields
<1>2. r = Deleted(a, q.current)
  BY DEF EndFd
<1> HIDE DEF a
<1>3. /\ DOMAIN a.pollfd = DOMAIN q.pollfd
      /\ \A i \in DOMAIN q.pollfd :
           /\ DOMAIN a.pollfd[i] = SlotFields
           /\ a.pollfd[i].evt = q.pollfd[i].evt /\ a.pollfd[i].on = q.pollfd[i].on
           /\ a.pollfd[i].revents # {} => a.pollfd[i].revents = q.pollfd[i].revents
  <2>1. \A i \in DOMAIN q.pollfd : DOMAIN q.pollfd[i] = SlotFields
    BY DEF Consistent, Shape, Form
  <2> QED BY <1>1, <2>1 DEF SlotFields
<1>4. IsSeq(a.pollfd) /\ Len(a.pollfd) = Len(q.pollfd)
  <2>1. a.pollfd = [i \in DOMAIN q.pollfd |-> a.pollfd[i]]
    BY <1>1
  <2> QED BY <1>3, <2>1, ExceptIsSeq DEF Consistent, Shape, Form
<1>5. Consistent(a, q.current, q.delete)
  <2>1. Shape(a)
    BY <1>1, <1>3, <1>4 DEF Consistent, Shape, Form
  <2>2. Pointers(a, q.current, q.delete) /\ Heap(a, q.current)
    BY <1>1 DEF Consistent, Pointers, Heap
  <2>3. Slots(a)
    BY <1>1, <1>3 DEF Consistent, Slots
  <2>4. FreeSlots(a)
    BY <1>1, <1>3 DEF Consistent, FreeSlots
  <2> QED BY <2>1, <2>2, <2>3, <2>4 DEF Consistent
<1>6. \A i : Pending(a, i) => Pending(q, i)
  BY <1>3 DEF Pending
<1>7. CASE q.delete
  <2>1. Consistent(r, r.current, r.delete) /\ Ends(a, r)
    BY <1>1, <1>2, <1>5, <1>7, DeletedOK
  <2> QED BY <1>1, <1>4, <1>6, <2>1 DEF Ends
<1>8. CASE ~ q.delete
  <2>1. r = [a EXCEPT !.current = Null]
    BY <1>1, <1>2, <1>8 DEF Deleted
  <2>2. /\ DOMAIN r = Fields /\ r.current = Null /\ r.delete = q.delete
        /\ r.kind = a.kind /\ r.off = a.off /\ r.ptr = a.ptr /\ r.pptr = a.pptr /\ r.due = a.due
        /\ r.pollfd = a.pollfd /\ r.freeSlots = a.freeSlots /\ r.failed = a.failed
    BY <1>1, <2>1 DEF Fields
  <2>3. Shape(r)
    BY <1>5, <2>2 DEF Consistent, Shape, Form
  <2>4. Pointers(r, Null, q.delete)
    BY <1>5, <1>8, <2>2 DEF Consistent, Pointers
  <2>5. Heap(r, Null)
    BY <1>1, <1>5, <2>2, EventsAssumption DEF Consistent, Heap
  <2>6. Slots(r) /\ FreeSlots(r)
    BY <1>5, <2>2 DEF Consistent, Slots, FreeSlots
  <2>7. Ends(q, r)
    BY <1>1, <1>4, <1>6, <2>2 DEF Ends, Pending
  <2> QED BY <2>2, <2>3, <2>4, <2>5, <2>6, <2>7 DEF Consistent
<1> QED BY <1>7, <1>8

(* The callback of a timer starts: it is out of the heap.                  *)
LEMMA StartTimerOK ==
    ASSUME NEW q, Consistent(q, q.current, q.delete), q.current = Null, NEW e \in DOMAIN q.due,
           NEW r, r = StartTimer(q, e)
    PROVE  /\ Consistent(r, r.current, r.delete)
           /\ r.current = e /\ e \in Ev /\ r.kind[e] = "timer" /\ e \notin r.off
           /\ r.kind = q.kind /\ r.ptr = q.ptr /\ r.pollfd = q.pollfd
<1>1. e \in Ev /\ q.kind[e] = "timer" /\ e \notin q.off /\ e # Null /\ q.delete = FALSE
  BY EventsAssumption DEF Consistent, Heap, Shape, Form, Pointers
<1>2. /\ DOMAIN r = Fields /\ r.current = e
      /\ r.kind = q.kind /\ r.off = q.off /\ r.ptr = q.ptr /\ r.pptr = q.pptr
      /\ DOMAIN r.due = DOMAIN q.due \ {e}
      /\ r.pollfd = q.pollfd /\ r.freeSlots = q.freeSlots
      /\ r.delete = q.delete /\ r.failed = FALSE
  <2>1. r = [[Require(q, TRUE) EXCEPT !.due = Restrict(@, DOMAIN @ \ {e})] EXCEPT !.current = e]
    BY <1>1 DEF StartTimer, heap_remove
  <2> QED BY <2>1 DEF Require, Restrict, Consistent, Shape, Form, Fields
<1>3. Shape(r)
  BY <1>1, <1>2 DEF Consistent, Shape, Form
<1>4. Pointers(r, e, FALSE)
  BY <1>1, <1>2 DEF Consistent, Pointers
<1>5. Heap(r, e)
  BY <1>1, <1>2, EventsAssumption DEF Consistent, Heap
<1>6. Slots(r) /\ FreeSlots(r)
  BY <1>2 DEF Consistent, Slots, FreeSlots
<1> QED BY <1>1, <1>2, <1>3, <1>4, <1>5, <1>6 DEF Consistent

(* It returned: the timer is deleted, armed again or freed.                *)
LEMMA EndTimerOK ==
    ASSUME NEW q, Consistent(q, q.current, q.delete), q.current # Null,
           q.kind[q.current] = "timer", q.current \notin q.off,
           NEW requeue \in BOOLEAN, NEW r, r = EndTimer(q, requeue)
    PROVE  Consistent(r, r.current, r.delete) /\ Ends(q, r)
<1>1. CASE q.delete
  <2>1. r = Deleted(q, q.current)
    BY <1>1 DEF EndTimer
  <2> QED BY <1>1, <2>1, DeletedOK
<1>2. CASE ~ q.delete
  <2> DEFINE e == q.current
             b == [q EXCEPT !.current = Null]
  <2>1. r = IF requeue THEN heap_insert(b, e) ELSE free_event(b, e)
    BY <1>2 DEF EndTimer, Deleted
  <2>2. /\ DOMAIN b = Fields /\ b.current = Null /\ b.delete = FALSE
        /\ b.kind = q.kind /\ b.off = q.off /\ b.ptr = q.ptr /\ b.pptr = q.pptr /\ b.due = q.due
        /\ b.pollfd = q.pollfd /\ b.freeSlots = q.freeSlots /\ b.failed = FALSE
    BY <1>2 DEF Consistent, Shape, Form, Fields
  <2> HIDE DEF b
  <2>3. e \in Ev /\ e # Null /\ e \notin DOMAIN q.due
    BY DEF Consistent, Shape, Form, Heap
  <2>4. Consistent(b, e, q.delete)
    <3>1. Consistent(q, e, q.delete)
      BY <1>2 DEF Consistent, Shape, Form
    <3>2. q.failed = FALSE
      BY DEF Consistent, Shape, Form
    <3> QED BY <2>2, <2>3, <3>1, <3>2, OutOfPoller
  <2>5. CASE requeue
    <3>1. /\ DOMAIN r = Fields /\ r.current = Null /\ r.delete = FALSE
          /\ r.kind = q.kind /\ r.off = q.off /\ r.ptr = q.ptr /\ r.pptr = q.pptr
          /\ DOMAIN r.due = DOMAIN q.due \cup {e}
          /\ r.pollfd = q.pollfd /\ r.freeSlots = q.freeSlots /\ r.failed = FALSE
      <4>1. r = [Require(b, TRUE) EXCEPT
                   !.due = [t \in DOMAIN @ \cup {e} |-> IF t = e THEN b.period[e] ELSE @[t]]]
        BY <2>1, <2>2, <2>3, <2>5 DEF heap_insert
      <4> QED BY <2>2, <4>1 DEF Require, Fields
    <3>2. Shape(r)
      BY <2>3, <2>4, <3>1 DEF Consistent, Shape, Form
    <3>3. Pointers(r, Null, FALSE)
      BY <1>2, <2>2, <2>4, <3>1 DEF Consistent, Pointers
    <3>4. Heap(r, Null)
      BY <2>2, <2>3, <2>4, <3>1, EventsAssumption DEF Consistent, Heap
    <3>5. Slots(r) /\ FreeSlots(r)
      BY <3>1 DEF Consistent, Slots, FreeSlots
    <3> QED BY <3>1, <3>2, <3>3, <3>4, <3>5 DEF Consistent, Ends, Pending
  <2>6. CASE ~ requeue
    <3>1. Gone(b, r, e) /\ r.pollfd = b.pollfd /\ r.freeSlots = b.freeSlots /\ r.due = b.due
      BY <2>1, <2>2, <2>6 DEF free_event, Gone, Fields
    <3>2. b.kind[e] = "timer" /\ DOMAIN r.due = DOMAIN b.due \ {e}
      BY <2>2, <2>3, <3>1
    <3>3. Consistent(r, Other(e, e), OtherDeleted(e, e, q.delete))
      BY <2>3, <2>4, <3>1, <3>2, TimerGone
    <3>4. /\ \A f \in Ev : f # e => r.kind[f] = b.kind[f]
          /\ \A o \in Ptrs : r.ptr[o] # Null => r.ptr[o] = b.ptr[o] /\ r.ptr[o] # e
      <4>1. b.kind[e] # "free"
        BY <3>2
      <4> HIDE DEF e
      <4> QED BY <2>3, <2>4, <3>1, <4>1, GonePointers
    <3>5. r.current = Null /\ r.delete = FALSE /\ Other(e, e) = Null /\ OtherDeleted(e, e, q.delete) = FALSE
      BY <2>2, <3>1 DEF Gone, Other, OtherDeleted
    <3>6. \A o \in Ptrs : r.ptr[o] # Null => r.ptr[o] = q.ptr[o] /\ r.kind[q.ptr[o]] = q.kind[q.ptr[o]]
      BY <2>2, <3>4 DEF Consistent, Shape, Form
    <3> QED BY <2>2, <3>1, <3>3, <3>5, <3>6 DEF Ends, Pending
  <2> QED BY <2>5, <2>6
<1> QED BY <1>1, <1>2
=============================================================================
