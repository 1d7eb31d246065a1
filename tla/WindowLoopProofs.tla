-------------------------- MODULE WindowLoopProofs --------------------------
(***************************************************************************)
(* Proofs about one window in poller_run(), for any configuration, for any *)
(* output of the application, any events of the server and any times:      *)
(* RedrawRight and NotDeaf.                                                *)
(*                                                                         *)
(* What the counters of window.c stand for is said of every moment between *)
(* two calls, within a callback too: a timer whose callback runs is not    *)
(* counted any more (Live), although its pointer is set until it returns.  *)
(* Sound says which events pointers and timers belong to then.  After      *)
(* free_window(), a failed assertion or die() only the types are left.     *)
(***************************************************************************)
EXTENDS WindowLoop, EventsProofs, FiniteSetTheorems

RenderTimers == {"frame", "redraw", "sync"}

ReadTimers == {"smooth", "configure"}

ProcessFields == {"p", "rd", "rn", "any", "force", "gone", "req", "buf", "fresh", "fd", "child",
                  "had", "out", "slave", "proc"}

Output == Commands \cup {"text"}

----------------------------------------------------------------------------
(* Types, of the poller and of the process *)

IsSlot(v) == DOMAIN v = SlotFields /\ v.evt \in Ev \cup {Null}

Slotted(f) == IsSeq(f) /\ \A i \in DOMAIN f : IsSlot(f[i])

Fitted(q) ==
    /\ DOMAIN q = Fields
    /\ q.kind \in [Ev -> EventKinds] /\ DOMAIN q.cb = Ev
    /\ q.pptr \in [Ev -> Ptrs \cup {NoPtr}]
    /\ q.ptr \in [Ptrs -> Ev \cup {Null}]
    /\ Slotted(q.pollfd)
    /\ q.current \in Ev \cup {Null}
    /\ q.delete \in BOOLEAN /\ q.failed \in BOOLEAN

Types(s) ==
    /\ DOMAIN s = ProcessFields
    /\ Fitted(s.p)
    /\ s.rd \in Int /\ s.rn \in Int
    /\ s.any \in BOOLEAN /\ s.force \in BOOLEAN /\ s.gone \in BOOLEAN /\ s.req \in BOOLEAN
    /\ s.fresh \in BOOLEAN /\ s.fd \in BOOLEAN /\ s.child \in BOOLEAN /\ s.had \in BOOLEAN
    /\ s.slave \in BOOLEAN
    /\ s.buf \in Seq(Output) /\ s.out \in Seq(Commands)
    /\ s.proc \in {"runs", "exited", "reaped"}

----------------------------------------------------------------------------
(* Events, pointers and timers of a window whose terminal is open (fd)     *)

Current(q, fd) ==
    /\ q.current # Null => q.kind[q.current] # "free"
    /\ q.delete => q.current # Null /\ q.pptr[q.current] = NoPtr
    /\ q.delete /\ q.kind[q.current] = "fd" => ~ fd

(* A pointer that is set names a timer of its own.                         *)
Pointed(q) ==
    \A t \in Timers : q.ptr[t] # Null =>
        q.kind[q.ptr[t]] = "timer" /\ q.cb[q.ptr[t]] = t /\ q.pptr[q.ptr[t]] = t

(* A timer that is counted in rn has its pointer, and a pointer that will  *)
(* be reset is the one that names the event.  configure is different: its  *)
(* callback resets the pointer, and may set another timer before it        *)
(* returns; that one loses its pointer then.                               *)
Owning(q) ==
    /\ \A e \in Ev : q.kind[e] = "timer" /\ q.cb[e] \in RenderTimers => q.ptr[q.cb[e]] = e
    /\ \A e \in Ev : q.pptr[e] \in (Timers \ {"configure"}) \cup {"tty"} => q.ptr[q.pptr[e]] = e

Arming(q) ==
    \A e \in Ev : q.kind[e] = "timer" =>
        /\ q.cb[e] \in Timers \cup {"close"}
        /\ e # q.current => e \in DOMAIN q.due

Terminal(q, fd) ==
    IF fd THEN /\ q.ptr["tty"] # Null
               /\ q.kind[q.ptr["tty"]] = "fd" /\ q.pptr[q.ptr["tty"]] = "tty"
               /\ \E i \in DOMAIN q.pollfd : \A j \in DOMAIN q.pollfd :
                    q.pollfd[j].evt = q.ptr["tty"] <=> j = i
    ELSE q.ptr["tty"] # Null =>
            OnExit = "close" /\ q.kind[q.ptr["tty"]] = "timer" /\ q.cb[q.ptr["tty"]] = "close"

Configures(q) == {e \in Ev : q.kind[e] = "timer" /\ q.cb[e] = "configure"} \ {q.current}

Sound(q, fd) ==
    /\ Current(q, fd) /\ Pointed(q) /\ Owning(q) /\ Arming(q) /\ Terminal(q, fd)
    /\ IsFiniteSet(Configures(q))

----------------------------------------------------------------------------
(* Counters *)

Live(q, t) == IF IsSet(q, t) /\ q.ptr[t] # q.current THEN 1 ELSE 0

RenderCount(q) == Live(q, "frame") + Live(q, "redraw") + Live(q, "sync")

(* It may be more than rd: the callback of smooth may arm its timer again, *)
(* and does not count it then.                                             *)
ReadBound(q) == Live(q, "smooth") + Cardinality(Configures(q))

Deaf(q) == "in" \notin poller_fd_get_mask(q, q.ptr["tty"])

Alive(s) == ~ s.gone /\ ~ s.p.failed

(* extra is 1 between the moment at which a timer is gone and the moment   *)
(* at which rd is decreased.                                               *)
Counted(s, extra) ==
    /\ s.rn = RenderCount(s.p)
    /\ s.fd => /\ s.rd <= ReadBound(s.p) + extra
               /\ Deaf(s.p) <=> s.rd > 0

Steady(s) == Types(s) /\ (Alive(s) => Sound(s.p, s.fd))

Right(s, extra) == Steady(s) /\ (Alive(s) => Counted(s, extra))

(* No callback of a timer that is counted in rn runs.                      *)
Calm(s) ==
    Alive(s) /\ s.p.current # Null =>
        s.p.kind[s.p.current] = "fd" \/ s.p.cb[s.p.current] \notin RenderTimers

(* No callback of a timer runs.                                            *)
Quiet(s) == Alive(s) /\ s.p.current # Null => s.p.kind[s.p.current] = "fd"

IInv ==
    /\ Right(w, 0)
    /\ w.p.current = Null
    /\ phase \in {"poll", "blocked", "fds", "timers", "tick", "stopped"}
    /\ slot \in 0 .. Len(w.p.pollfd) + 1
    /\ phase = "fds" => slot > 0
    /\ xev \in Seq(XEvents)

----------------------------------------------------------------------------
(* What operations of the poller leave, whatever the state is              *)

Follows(q, r) ==
    /\ Fitted(r)
    /\ r.current = q.current
    /\ Len(r.pollfd) = Len(q.pollfd)
    /\ q.failed => r.failed

(* Event e is freed, or taken from its pointer when its callback runs.     *)
Dropped(q, r, e) ==
    /\ \A o \in Ptrs : r.ptr[o] = IF o = q.pptr[e] THEN Null ELSE q.ptr[o]
    /\ r.pptr[e] = NoPtr
    /\ \A f \in Ev : f # e =>
         /\ r.kind[f] = q.kind[f] /\ r.cb[f] = q.cb[f] /\ r.pptr[f] = q.pptr[f]
         /\ f \in DOMAIN q.due => f \in DOMAIN r.due
    /\ r.current = q.current
    /\ IF e = q.current THEN r.kind[e] = q.kind[e] /\ r.cb[e] = q.cb[e] /\ r.delete
                        ELSE r.kind[e] = "free" /\ r.delete = q.delete
    /\ q.kind[e] # "fd" \/ e = q.current => r.pollfd = q.pollfd
    /\ r.failed = q.failed

(* Timer t is armed (n = 1) or cancelled (n = 0).                          *)
Moved(q, r, t, n) ==
    /\ Live(r, t) = n /\ (n = 0 => ~ IsSet(r, t))
    /\ \A o \in Ptrs \ {t} : r.ptr[o] = q.ptr[o]
    /\ r.current = q.current /\ r.pollfd = q.pollfd
    /\ q.current # Null => r.kind[q.current] = q.kind[q.current] /\ r.cb[q.current] = q.cb[q.current]
    /\ ReadBound(r) = IF t \in ReadTimers THEN ReadBound(q) + n - Live(q, t) ELSE ReadBound(q)

(* Replacing an element of the array of descriptors keeps its type.        *)
LEMMA ArrayKept ==
    ASSUME NEW s, Slotted(s), NEW k, NEW v, k \in DOMAIN s => IsSlot(v),
           NEW t, t = [s EXCEPT ![k] = v]
    PROVE  Slotted(t) /\ Len(t) = Len(s)
<1>1. /\ DOMAIN t = DOMAIN s
      /\ \A i \in DOMAIN s : t[i] = IF i = k THEN v ELSE s[i]
      /\ t = [i \in DOMAIN s |-> t[i]]
  OBVIOUS
<1>2. IsSeq(t) /\ Len(t) = Len(s)
  BY <1>1, ExceptIsSeq DEF Slotted
<1> QED BY <1>1, <1>2 DEF Slotted

(* free_event() keeps the types.                                           *)
LEMMA FreeFitted ==
    ASSUME NEW q, Fitted(q), NEW e, NEW r, r = free_event(q, e)
    PROVE  Follows(q, r)
<1>1. /\ DOMAIN r = Fields
      /\ r.kind = [q.kind EXCEPT ![e] = "free"] /\ r.cb = [q.cb EXCEPT ![e] = "none"]
      /\ r.pptr = [q.pptr EXCEPT ![e] = NoPtr]
      /\ r.ptr = [o \in Ptrs |-> IF o = q.pptr[e] THEN Null ELSE q.ptr[o]]
      /\ r.pollfd = q.pollfd /\ r.current = q.current /\ r.delete = q.delete /\ r.failed = q.failed
  BY DEF free_event, Fitted, Fields
<1>2. /\ r.kind \in [Ev -> EventKinds] /\ DOMAIN r.cb = Ev
      /\ r.pptr \in [Ev -> Ptrs \cup {NoPtr}] /\ r.ptr \in [Ptrs -> Ev \cup {Null}]
  <2>1. q.kind \in [Ev -> EventKinds] /\ q.pptr \in [Ev -> Ptrs \cup {NoPtr}] /\ DOMAIN q.cb = Ev
    BY DEF Fitted
  <2>2. r.kind \in [Ev -> EventKinds]
    <3>1. r.kind = [q.kind EXCEPT ![e] = "free"]
      BY <1>1
    <3> QED BY <2>1, <3>1 DEF EventKinds
  <2>3. r.pptr \in [Ev -> Ptrs \cup {NoPtr}]
    <3>1. r.pptr = [q.pptr EXCEPT ![e] = NoPtr]
      BY <1>1
    <3> QED BY <2>1, <3>1
  <2>4. DOMAIN r.cb = Ev
    BY <1>1, <2>1
  <2>5. r.ptr \in [Ptrs -> Ev \cup {Null}]
    <3>1. \A o \in Ptrs : q.ptr[o] \in Ev \cup {Null}
      BY DEF Fitted
    <3> QED BY <1>1, <3>1
  <2> QED BY <2>2, <2>3, <2>4, <2>5
<1> QED BY <1>1, <1>2 DEF Follows, Fitted

(* heap_remove() keeps the types.                                          *)
LEMMA HeapRemoveFitted ==
    ASSUME NEW q, Fitted(q), NEW e, NEW r, r = heap_remove(q, e)
    PROVE  Follows(q, r)
<1>1. /\ DOMAIN r = Fields
      /\ r.kind = q.kind /\ r.cb = q.cb /\ r.pptr = q.pptr /\ r.ptr = q.ptr
      /\ r.pollfd = q.pollfd /\ r.current = q.current /\ r.delete = q.delete /\ r.failed = q.failed
  BY DEF heap_remove, Fitted, Fields
<1> QED BY <1>1 DEF Follows, Fitted

(* An assertion keeps the types.                                           *)
LEMMA RequireFitted ==
    ASSUME NEW q, Fitted(q), NEW c \in BOOLEAN, NEW r, r = Require(q, c)
    PROVE  Follows(q, r) /\ (c => r.failed = q.failed) /\ (~ c => r.failed)
<1>1. /\ DOMAIN r = Fields
      /\ r.kind = q.kind /\ r.cb = q.cb /\ r.pptr = q.pptr /\ r.ptr = q.ptr
      /\ r.pollfd = q.pollfd /\ r.current = q.current /\ r.delete = q.delete
      /\ r.failed = (q.failed \/ ~ c)
  BY DEF Require, Fitted, Fields
<1> QED BY <1>1 DEF Follows, Fitted

(* Removing a descriptor keeps the types.                                  *)
LEMMA RemoveFdFitted ==
    ASSUME NEW q, Fitted(q), NEW e, NEW r, r = remove_fd(q, e)
    PROVE  Follows(q, r)
<1> DEFINE k == SlotOf(q, e)
           v == [q.pollfd[k] EXCEPT !.evt = Null, !.on = FALSE, !.file = "none"]
           a == [q EXCEPT !.pollfd[k] = v, !.freeSlots = <<k>> \o @]
<1>1. r = free_event(a, e)
  BY DEF remove_fd
<1>2. k \in DOMAIN q.pollfd => IsSlot(v)
  BY DEF Fitted, Slotted, IsSlot, SlotFields
<1> HIDE DEF v, k
<1>3. /\ DOMAIN a = Fields
      /\ a.kind = q.kind /\ a.cb = q.cb /\ a.pptr = q.pptr /\ a.ptr = q.ptr
      /\ a.current = q.current /\ a.delete = q.delete /\ a.failed = q.failed
      /\ a.pollfd = [q.pollfd EXCEPT ![k] = v]
  BY DEF Fitted, Fields
<1> HIDE DEF a
<1>4. Slotted(a.pollfd) /\ Len(a.pollfd) = Len(q.pollfd)
  <2>1. Slotted(q.pollfd) /\ a.pollfd = [q.pollfd EXCEPT ![k] = v]
    BY <1>3 DEF Fitted
  <2> QED BY <1>2, <2>1, ArrayKept
<1>5. Fitted(a)
  BY <1>3, <1>4 DEF Fitted
<1>6. Follows(a, r)
  BY <1>1, <1>5, FreeFitted
<1> QED BY <1>3, <1>4, <1>6 DEF Follows

(* Two operations that keep the types do so together.                      *)
LEMMA FollowsTwice ==
    ASSUME NEW q, NEW r, NEW u, Follows(q, r), Follows(r, u)
    PROVE  Follows(q, u)
BY DEF Follows

(* poller_remove() keeps the types, whatever the event is.                 *)
LEMMA RemoveFitted ==
    ASSUME NEW q, Fitted(q), NEW e, e \in Ev \/ e = q.current, NEW r, r = poller_remove(q, e)
    PROVE  Follows(q, r)
<1>1. CASE e = q.current
  <2>1. r = [q EXCEPT !.ptr = [o \in Ptrs |-> IF o = q.pptr[e] THEN Null ELSE @[o]],
                      !.pptr[e] = NoPtr, !.delete = TRUE]
    BY <1>1 DEF poller_remove
  <2>2. /\ DOMAIN r = Fields
        /\ r.kind = q.kind /\ r.cb = q.cb
        /\ r.pptr = [q.pptr EXCEPT ![e] = NoPtr]
        /\ r.ptr = [o \in Ptrs |-> IF o = q.pptr[e] THEN Null ELSE q.ptr[o]]
        /\ r.pollfd = q.pollfd /\ r.current = q.current /\ r.delete = TRUE /\ r.failed = q.failed
    BY <2>1 DEF Fitted, Fields
  <2>3. /\ r.pptr \in [Ev -> Ptrs \cup {NoPtr}] /\ r.ptr \in [Ptrs -> Ev \cup {Null}]
    <3>1. q.pptr \in [Ev -> Ptrs \cup {NoPtr}] /\ \A o \in Ptrs : q.ptr[o] \in Ev \cup {Null}
      BY DEF Fitted
    <3>2. r.pptr \in [Ev -> Ptrs \cup {NoPtr}]
      <4>1. r.pptr = [q.pptr EXCEPT ![e] = NoPtr]
        BY <2>2
      <4> QED BY <3>1, <4>1
    <3> QED BY <2>2, <3>1, <3>2
  <2> QED BY <2>2, <2>3 DEF Follows, Fitted
<1>2. CASE e # q.current
  <2>1. q.kind[e] \in EventKinds
    BY <1>2 DEF Fitted
  <2>2. CASE q.kind[e] = "fd"
    <3>1. r = remove_fd(q, e)
      BY <1>2, <2>2 DEF poller_remove
    <3> QED BY <3>1, RemoveFdFitted
  <2>3. CASE q.kind[e] = "timer"
    <3> DEFINE h == heap_remove(q, e)
    <3>1. r = free_event(h, e) /\ Follows(q, h)
      BY <1>2, <2>3, HeapRemoveFitted DEF poller_remove
    <3> HIDE DEF h
    <3>2. Follows(h, r)
      BY <3>1, FreeFitted DEF Follows
    <3> QED BY <3>1, <3>2, FollowsTwice
  <2>4. CASE q.kind[e] = "free"
    <3>1. r = Require(q, FALSE)
      BY <1>2, <2>4 DEF poller_remove
    <3> QED BY <3>1, RequireFitted
  <2> QED BY <2>1, <2>2, <2>3, <2>4 DEF EventKinds
<1> QED BY <1>1, <1>2

(* What removing an event that is in use does                              *)
LEMMA RemoveDrops ==
    ASSUME NEW q, Fitted(q), NEW e \in Ev, q.kind[e] # "free", NEW r, r = poller_remove(q, e)
    PROVE  Dropped(q, r, e)
<1> SUFFICES /\ \A o \in Ptrs : r.ptr[o] = IF o = q.pptr[e] THEN Null ELSE q.ptr[o]
             /\ r.pptr = [q.pptr EXCEPT ![e] = NoPtr]
             /\ r.current = q.current /\ r.failed = q.failed
             /\ q.kind[e] # "fd" \/ e = q.current => r.pollfd = q.pollfd
             /\ IF e = q.current THEN r.kind = q.kind /\ r.cb = q.cb /\ r.delete /\ r.due = q.due
                ELSE /\ r.kind = [q.kind EXCEPT ![e] = "free"] /\ r.cb = [q.cb EXCEPT ![e] = "none"]
                     /\ r.delete = q.delete
                     /\ \A f \in DOMAIN q.due : f # e => f \in DOMAIN r.due
  BY DEF Dropped, Fitted
<1>1. CASE e = q.current
  <2>1. r = [q EXCEPT !.ptr = [o \in Ptrs |-> IF o = q.pptr[e] THEN Null ELSE @[o]],
                      !.pptr[e] = NoPtr, !.delete = TRUE]
    BY <1>1 DEF poller_remove
  <2>2. /\ r.ptr = [o \in Ptrs |-> IF o = q.pptr[e] THEN Null ELSE q.ptr[o]]
        /\ r.pptr = [q.pptr EXCEPT ![e] = NoPtr]
        /\ r.current = q.current /\ r.failed = q.failed /\ r.pollfd = q.pollfd
        /\ r.kind = q.kind /\ r.cb = q.cb /\ r.delete = TRUE /\ r.due = q.due
    BY <2>1 DEF Fitted, Fields
  <2> QED BY <1>1, <2>2
<1>2. CASE e # q.current /\ q.kind[e] = "fd"
  <2>1. r = remove_fd(q, e)
    BY <1>2 DEF poller_remove
  <2> QED BY <1>2, <2>1 DEF remove_fd, free_event, Fitted, Fields
<1>3. CASE e # q.current /\ q.kind[e] = "timer"
  <2>1. r = free_event(heap_remove(q, e), e)
    BY <1>3 DEF poller_remove
  <2>2. /\ \A o \in Ptrs : r.ptr[o] = IF o = q.pptr[e] THEN Null ELSE q.ptr[o]
        /\ r.pptr = [q.pptr EXCEPT ![e] = NoPtr]
        /\ r.current = q.current /\ r.failed = q.failed /\ r.pollfd = q.pollfd
        /\ r.kind = [q.kind EXCEPT ![e] = "free"] /\ r.cb = [q.cb EXCEPT ![e] = "none"]
        /\ r.delete = q.delete /\ r.due = Restrict(q.due, DOMAIN q.due \ {e})
    BY <2>1 DEF heap_remove, free_event, Fitted, Fields
  <2>3. DOMAIN r.due = DOMAIN q.due \ {e}
    BY <2>2 DEF Restrict
  <2> QED BY <1>3, <2>2, <2>3
<1> QED BY <1>1, <1>2, <1>3 DEF Fitted, EventKinds

(* poller_unset() keeps the types.                                         *)
LEMMA UnsetFitted ==
    ASSUME NEW q, Fitted(q), NEW o \in Ptrs, NEW r, r = poller_unset(q, o)
    PROVE  Follows(q, r)
<1>1. CASE IsSet(q, o)
  <2>1. q.ptr[o] \in Ev /\ r = poller_remove(q, q.ptr[o])
    BY <1>1 DEF IsSet, poller_unset, Fitted
  <2> QED BY <2>1, RemoveFitted
<1>2. CASE ~ IsSet(q, o)
  BY <1>2 DEF poller_unset, Follows
<1> QED BY <1>1, <1>2

----------------------------------------------------------------------------
(* Counting *)

(* What rd is bounded by is a natural.                                     *)
LEMMA BoundIsNat ==
    ASSUME NEW q, NEW fd, Sound(q, fd)
    PROVE  Cardinality(Configures(q)) \in Nat /\ ReadBound(q) \in Nat
<1>1. Cardinality(Configures(q)) \in Nat
  BY FS_CardinalityType DEF Sound
<1> QED BY <1>1 DEF ReadBound, Live

(* Cancelling a timer                                                      *)
LEMMA UnsetTimer ==
    ASSUME NEW q, Fitted(q), NEW fd, Sound(q, fd), NEW t \in Timers,
           t \in RenderTimers /\ IsSet(q, t) => q.ptr[t] # q.current,
           NEW r, r = poller_unset(q, t)
    PROVE  Sound(r, fd) /\ Moved(q, r, t, 0)
<1>0. t \in Ptrs /\ "tty" \in Ptrs /\ t # "tty" /\ Null \notin Ev
  BY WindowLoopAssumption, EventsAssumption DEF Timers
<1>1. CASE ~ IsSet(q, t)
  <2>1. r = q
    BY <1>1 DEF poller_unset
  <2>2. Live(q, t) = 0
    BY <1>1 DEF Live
  <2>3. ReadBound(q) \in Nat
    BY BoundIsNat
  <2> QED BY <1>1, <2>1, <2>2, <2>3 DEF Moved
<1>2. CASE IsSet(q, t)
  <2> DEFINE e == q.ptr[t]
  <2>1. /\ e \in Ev /\ q.kind[e] = "timer" /\ q.cb[e] = t /\ q.pptr[e] = t
        /\ r = poller_remove(q, e)
    BY <1>0, <1>2 DEF IsSet, Fitted, Sound, Pointed, poller_unset
  <2> HIDE DEF e
  <2>2. Dropped(q, r, e)
    BY <2>1, RemoveDrops
  <2>3. \A o \in Ptrs : r.ptr[o] = IF o = t THEN Null ELSE q.ptr[o]
    BY <2>1, <2>2 DEF Dropped
  <2>4. r.current = q.current /\ r.failed = q.failed /\ r.pollfd = q.pollfd
    BY <2>1, <2>2 DEF Dropped
  <2>5. \A f \in Ev : f # e => /\ r.kind[f] = q.kind[f] /\ r.cb[f] = q.cb[f] /\ r.pptr[f] = q.pptr[f]
                               /\ f \in DOMAIN q.due => f \in DOMAIN r.due
    BY <2>2 DEF Dropped
  <2>6. r.pptr[e] = NoPtr /\ NoPtr \notin Ptrs
    BY <2>2, EventsAssumption DEF Dropped
  <2>7. /\ e = q.current => r.kind[e] = q.kind[e] /\ r.cb[e] = q.cb[e] /\ r.delete /\ t \notin RenderTimers
        /\ e # q.current => r.kind[e] = "free" /\ r.delete = q.delete
    BY <1>2, <2>2 DEF Dropped, e
  <2>8. q.ptr[t] = e
    BY DEF e
  <2>9. q.ptr \in [Ptrs -> Ev \cup {Null}] /\ q.current \in Ev \cup {Null}
    BY DEF Fitted
  <2>10. Current(r, fd)
    BY <1>0, <2>1, <2>4, <2>5, <2>6, <2>7, <2>9 DEF Sound, Current
  <2>11. Pointed(r)
    <3> SUFFICES ASSUME NEW u \in Timers, r.ptr[u] # Null
                 PROVE  r.kind[r.ptr[u]] = "timer" /\ r.cb[r.ptr[u]] = u /\ r.pptr[r.ptr[u]] = u
      BY DEF Pointed
    <3>1. u \in Ptrs /\ u # t /\ r.ptr[u] = q.ptr[u]
      BY <2>3, WindowLoopAssumption
    <3>2. q.kind[q.ptr[u]] = "timer" /\ q.cb[q.ptr[u]] = u /\ q.pptr[q.ptr[u]] = u /\ q.ptr[u] \in Ev
      BY <2>9, <3>1 DEF Sound, Pointed
    <3> QED BY <2>1, <2>5, <3>1, <3>2
  <2>12. Owning(r)
    <3>1. ASSUME NEW f \in Ev, r.kind[f] = "timer", r.cb[f] \in RenderTimers PROVE r.ptr[r.cb[f]] = f
      <4>1. f # e
        BY <2>1, <2>7, <3>1
      <4>2. q.ptr[q.cb[f]] = f /\ r.cb[f] = q.cb[f] /\ q.cb[f] \in Ptrs
        BY <2>5, <3>1, <4>1, WindowLoopAssumption DEF Sound, Owning, RenderTimers, Timers
      <4> QED BY <2>3, <2>8, <4>1, <4>2
    <3>2. ASSUME NEW f \in Ev, r.pptr[f] \in (Timers \ {"configure"}) \cup {"tty"}
          PROVE  r.ptr[r.pptr[f]] = f
      <4>1. r.pptr[f] \in Ptrs
        BY <3>2, WindowLoopAssumption
      <4>2. f # e
        BY <2>6, <4>1
      <4>3. q.ptr[q.pptr[f]] = f /\ r.pptr[f] = q.pptr[f]
        BY <2>5, <3>2, <4>2 DEF Sound, Owning
      <4> QED BY <2>3, <2>8, <4>1, <4>2, <4>3
    <3> QED BY <3>1, <3>2 DEF Owning
  <2>13. Arming(r)
    BY <2>4, <2>5, <2>7 DEF Sound, Arming
  <2>14. r.ptr["tty"] = q.ptr["tty"]
    BY <1>0, <2>3
  <2>15. Terminal(r, fd)
    <3>1. CASE fd
      <4>1. /\ q.ptr["tty"] \in Ev /\ q.ptr["tty"] # Null
            /\ q.kind[q.ptr["tty"]] = "fd" /\ q.pptr[q.ptr["tty"]] = "tty"
            /\ \E i \in DOMAIN q.pollfd : \A j \in DOMAIN q.pollfd :
                 q.pollfd[j].evt = q.ptr["tty"] <=> j = i
        BY <1>0, <2>9, <3>1 DEF Sound, Terminal
      <4>2. q.ptr["tty"] # e
        BY <2>1, <4>1
      <4> QED BY <2>4, <2>5, <2>14, <3>1, <4>1, <4>2 DEF Terminal
    <3>2. CASE ~ fd
      <4>1. q.ptr["tty"] # Null =>
              OnExit = "close" /\ q.kind[q.ptr["tty"]] = "timer" /\ q.cb[q.ptr["tty"]] = "close"
              /\ q.ptr["tty"] \in Ev
        BY <1>0, <2>9, <3>2 DEF Sound, Terminal
      <4>2. t # "close"
        BY DEF Timers
      <4> QED BY <2>1, <2>5, <2>14, <3>2, <4>1, <4>2 DEF Terminal
    <3> QED BY <3>1, <3>2
  <2>16. Configures(r) = Configures(q) \ {e}
    <3>1. e \in Configures(r) => FALSE
      BY <2>4, <2>7 DEF Configures
    <3>2. \A f \in Ev : f # e => (f \in Configures(r) <=> f \in Configures(q))
      BY <2>4, <2>5 DEF Configures
    <3>3. Configures(r) \subseteq Ev /\ Configures(q) \subseteq Ev
      BY DEF Configures
    <3> QED BY <3>1, <3>2, <3>3
  <2>17. /\ IsFiniteSet(Configures(r))
         /\ Cardinality(Configures(r)) = IF e \in Configures(q) THEN Cardinality(Configures(q)) - 1
                                         ELSE Cardinality(Configures(q))
    BY <2>16, FS_RemoveElement DEF Sound
  <2>18. Sound(r, fd)
    BY <2>10, <2>11, <2>12, <2>13, <2>15, <2>17 DEF Sound
  <2>19. Live(r, t) = 0 /\ ~ IsSet(r, t)
    BY <1>0, <2>3 DEF Live, IsSet
  <2>20. t # "smooth" => Live(r, "smooth") = Live(q, "smooth")
    <3>1. "smooth" \in Ptrs
      BY WindowLoopAssumption DEF Timers
    <3> QED BY <2>3, <2>4, <3>1 DEF Live, IsSet
  <2>21. Live(q, t) = (IF e # q.current THEN 1 ELSE 0)
    BY <1>2, <2>8 DEF Live
  <2>22. e \in Configures(q) <=> t = "configure" /\ e # q.current
    BY <2>1 DEF Configures
  <2>23. ReadBound(r) = IF t \in ReadTimers THEN ReadBound(q) + 0 - Live(q, t) ELSE ReadBound(q)
    <3>1. Cardinality(Configures(q)) \in Nat
      BY BoundIsNat
    <3>2. Live(q, t) \in {0, 1} /\ Live(q, "smooth") \in {0, 1}
      BY DEF Live
    <3>3. CASE t = "smooth"
      BY <2>17, <2>19, <2>22, <3>1, <3>2, <3>3 DEF ReadBound, ReadTimers
    <3>4. CASE t = "configure"
      BY <2>17, <2>20, <2>21, <2>22, <3>1, <3>2, <3>4 DEF ReadBound, ReadTimers
    <3>5. CASE t \notin ReadTimers
      BY <2>17, <2>20, <2>22, <3>1, <3>2, <3>5 DEF ReadBound, ReadTimers
    <3> QED BY <3>3, <3>4, <3>5 DEF ReadTimers
  <2>24. q.current # Null => r.kind[q.current] = q.kind[q.current] /\ r.cb[q.current] = q.cb[q.current]
    BY <2>5, <2>7, <2>9
  <2>25. \A o \in Ptrs \ {t} : r.ptr[o] = q.ptr[o]
    BY <2>3
  <2> QED BY <2>4, <2>18, <2>19, <2>23, <2>24, <2>25 DEF Moved
<1> QED BY <1>1, <1>2

(* A free event becomes a timer.                                           *)
Added(q, r, e, cb) ==
    /\ q.kind[e] = "free" /\ r.kind = [q.kind EXCEPT ![e] = "timer"] /\ r.cb = [q.cb EXCEPT ![e] = cb]
    /\ DOMAIN r.due = DOMAIN q.due \cup {e}
    /\ r.current = q.current /\ r.delete = q.delete /\ r.pollfd = q.pollfd
    /\ r.failed = (q.failed \/ e \in DOMAIN q.due)

(* poller_add_timer() takes a free event and arms it.                      *)
LEMMA AddTimer ==
    ASSUME NEW q, Fitted(q), CanAlloc(q), NEW cb, NEW n,
           NEW r, r = poller_add_timer(q, cb, n)
    PROVE  /\ Added(q, r, alloc_event(q), cb) /\ DOMAIN r = Fields
           /\ r.pptr = q.pptr /\ r.ptr = q.ptr
<1> DEFINE e == alloc_event(q)
           a == [q EXCEPT !.kind[e] = "timer", !.cb[e] = cb, !.period[e] = n]
           b == Require(a, e \notin DOMAIN a.due)
           c == [b EXCEPT !.due = [t \in DOMAIN @ \cup {e} |-> IF t = e THEN a.period[e] ELSE @[t]]]
<1>1. q.kind[e] = "free" /\ e \in Ev
  BY AllocIsFree
<1>2. r = c
  BY DEF poller_add_timer, heap_insert
<1> HIDE DEF e
<1>3. /\ DOMAIN a = Fields
      /\ a.kind = [q.kind EXCEPT ![e] = "timer"] /\ a.cb = [q.cb EXCEPT ![e] = cb]
      /\ a.pptr = q.pptr /\ a.ptr = q.ptr
      /\ a.due = q.due /\ a.pollfd = q.pollfd
      /\ a.current = q.current /\ a.delete = q.delete /\ a.failed = q.failed
  BY DEF Fields, Fitted
<1> HIDE DEF a
<1>4. /\ DOMAIN b = Fields
      /\ b.kind = a.kind /\ b.cb = a.cb /\ b.pptr = a.pptr /\ b.ptr = a.ptr
      /\ b.due = a.due /\ b.pollfd = a.pollfd
      /\ b.current = a.current /\ b.delete = a.delete /\ b.failed = (a.failed \/ ~ (e \notin DOMAIN a.due))
  BY <1>3 DEF Require, Fields
<1> HIDE DEF b
<1>5. /\ DOMAIN c = Fields
      /\ c.kind = b.kind /\ c.cb = b.cb /\ c.pptr = b.pptr /\ c.ptr = b.ptr
      /\ DOMAIN c.due = DOMAIN b.due \cup {e}
      /\ c.pollfd = b.pollfd /\ c.current = b.current /\ c.delete = b.delete /\ c.failed = b.failed
  BY <1>4 DEF Fields
<1> HIDE DEF c
<1>6. r.failed = (q.failed \/ e \in DOMAIN q.due)
  BY <1>2, <1>3, <1>4, <1>5
<1>7. DOMAIN r.due = DOMAIN q.due \cup {e}
  BY <1>2, <1>3, <1>4, <1>5
<1>8. Added(q, r, e, cb)
  BY <1>1, <1>2, <1>3, <1>4, <1>5, <1>6, <1>7 DEF Added
<1> QED BY <1>2, <1>3, <1>4, <1>5, <1>8 DEF e

(* The state after poller_add_timer() and what sets a pointer to the event *)
LEMMA AddFitted ==
    ASSUME NEW q, Fitted(q), NEW e \in Ev, NEW cb, NEW r, Added(q, r, e, cb), DOMAIN r = Fields,
           r.pptr \in [Ev -> Ptrs \cup {NoPtr}], r.ptr \in [Ptrs -> Ev \cup {Null}]
    PROVE  Follows(q, r)
<1>1. r.kind \in [Ev -> EventKinds] /\ DOMAIN r.cb = Ev /\ r.failed \in BOOLEAN
  BY DEF Added, Fitted, EventKinds
<1> QED BY <1>1 DEF Added, Fitted, Follows

(* poller_set_timer() keeps the types.                                     *)
LEMMA SetTimerFitted ==
    ASSUME NEW q, Fitted(q), NEW t \in Timers, CanAlloc(poller_unset(q, t)), NEW cb, NEW n,
           NEW r, r = poller_set_timer(q, t, cb, n)
    PROVE  /\ Follows(q, r)
           /\ LET u == poller_unset(q, t) IN
                /\ Added(u, r, alloc_event(u), cb)
                /\ r.pptr = [u.pptr EXCEPT ![alloc_event(u)] = t]
                /\ r.ptr = [u.ptr EXCEPT ![t] = alloc_event(u)]
<1> DEFINE u == poller_unset(q, t)
           e == alloc_event(u)
           a == poller_add_timer(u, cb, n)
<1>1. t \in Ptrs
  BY WindowLoopAssumption
<1>2. Follows(q, u) /\ Fitted(u) /\ CanAlloc(u)
  BY <1>1, UnsetFitted DEF Follows
<1>3. r = [[a EXCEPT !.ptr[t] = e] EXCEPT !.pptr[e] = t]
  BY DEF poller_set_timer, AddAutoresetTimer, WithAutoreset, poller_set_autoreset
<1> HIDE DEF u
<1>4. Added(u, a, e, cb) /\ DOMAIN a = Fields /\ a.pptr = u.pptr /\ a.ptr = u.ptr /\ e \in Ev
  BY <1>2, AddTimer, AllocIsFree
<1> HIDE DEF a, e
<1>5. /\ Added(u, r, e, cb) /\ DOMAIN r = Fields
      /\ r.pptr = [u.pptr EXCEPT ![e] = t] /\ r.ptr = [u.ptr EXCEPT ![t] = e]
  BY <1>3, <1>4 DEF Added, Fields
<1>6. r.pptr \in [Ev -> Ptrs \cup {NoPtr}] /\ r.ptr \in [Ptrs -> Ev \cup {Null}]
  BY <1>1, <1>2, <1>4, <1>5 DEF Fitted
<1>7. Follows(u, r)
  BY <1>2, <1>4, <1>5, <1>6, AddFitted
<1> QED BY <1>2, <1>5, <1>7, FollowsTwice DEF u, e

(* Arming a timer, again or for the first time                             *)
LEMMA ArmTimer ==
    ASSUME NEW q, Fitted(q), NEW fd, Sound(q, fd), NEW t \in Timers,
           t \in RenderTimers /\ IsSet(q, t) => q.ptr[t] # q.current,
           CanAlloc(poller_unset(q, t)), NEW n,
           NEW r, r = poller_set_timer(q, t, t, n)
    PROVE  Sound(r, fd) /\ Moved(q, r, t, 1)
<1> DEFINE u == poller_unset(q, t)
           e == alloc_event(u)
<1>0. t \in Ptrs /\ "tty" \in Ptrs /\ t # "tty" /\ Null \notin Ev /\ t # "close"
  BY WindowLoopAssumption, EventsAssumption DEF Timers
<1>1. Sound(u, fd) /\ Moved(q, u, t, 0) /\ Fitted(u)
  BY <1>0, UnsetTimer, UnsetFitted DEF Follows
<1>2. /\ Added(u, r, e, t) /\ Follows(q, r)
      /\ r.pptr = [u.pptr EXCEPT ![e] = t] /\ r.ptr = [u.ptr EXCEPT ![t] = e]
  BY SetTimerFitted
<1>3. e \in Ev /\ CanAlloc(u)
  BY AllocIsFree
<1> HIDE DEF u, e
<1>4. /\ u.kind[e] = "free" /\ r.kind[e] = "timer" /\ r.cb[e] = t /\ r.pptr[e] = t /\ r.ptr[t] = e
      /\ \A f \in Ev : f # e => r.kind[f] = u.kind[f] /\ r.cb[f] = u.cb[f] /\ r.pptr[f] = u.pptr[f]
      /\ \A o \in Ptrs : o # t => r.ptr[o] = u.ptr[o]
      /\ DOMAIN r.due = DOMAIN u.due \cup {e}
      /\ r.current = u.current /\ r.delete = u.delete /\ r.pollfd = u.pollfd
  BY <1>0, <1>1, <1>2, <1>3 DEF Added, Fitted
<1>5. u.ptr[t] = Null /\ u.ptr \in [Ptrs -> Ev \cup {Null}] /\ u.current \in Ev \cup {Null}
  BY <1>1 DEF Moved, IsSet, Fitted
<1>6. u.current # e
  BY <1>0, <1>1, <1>3, <1>4 DEF Sound, Current
<1>7. Current(r, fd)
  BY <1>0, <1>1, <1>4, <1>5, <1>6 DEF Sound, Current
<1>8. \A v \in Timers : u.ptr[v] # Null => u.ptr[v] # e
  BY <1>1, <1>4 DEF Sound, Pointed
<1>9. Pointed(r)
  <2> SUFFICES ASSUME NEW v \in Timers, r.ptr[v] # Null
               PROVE  r.kind[r.ptr[v]] = "timer" /\ r.cb[r.ptr[v]] = v /\ r.pptr[r.ptr[v]] = v
    BY DEF Pointed
  <2>1. CASE v = t
    BY <1>4, <2>1
  <2>2. CASE v # t
    <3>1. v \in Ptrs /\ r.ptr[v] = u.ptr[v]
      BY <1>4, <2>2, WindowLoopAssumption
    <3>2. u.ptr[v] \in Ev /\ u.ptr[v] # e
      BY <1>5, <1>8, <3>1
    <3> QED BY <1>1, <1>4, <3>1, <3>2 DEF Sound, Pointed
  <2> QED BY <2>1, <2>2
<1>10. Owning(r)
  <2>1. ASSUME NEW f \in Ev, r.kind[f] = "timer", r.cb[f] \in RenderTimers PROVE r.ptr[r.cb[f]] = f
    <3>1. CASE f = e
      BY <1>4, <3>1
    <3>2. CASE f # e
      <4>1. u.ptr[u.cb[f]] = f /\ r.cb[f] = u.cb[f] /\ u.cb[f] \in Ptrs
        BY <1>1, <1>4, <2>1, <3>2, WindowLoopAssumption DEF Sound, Owning, RenderTimers, Timers
      <4> QED BY <1>0, <1>4, <1>5, <4>1
    <3> QED BY <3>1, <3>2
  <2>2. ASSUME NEW f \in Ev, r.pptr[f] \in (Timers \ {"configure"}) \cup {"tty"}
        PROVE  r.ptr[r.pptr[f]] = f
    <3>1. CASE f = e
      BY <1>4, <3>1
    <3>2. CASE f # e
      <4>1. u.ptr[u.pptr[f]] = f /\ r.pptr[f] = u.pptr[f] /\ u.pptr[f] \in Ptrs
        BY <1>1, <1>4, <2>2, <3>2, WindowLoopAssumption DEF Sound, Owning
      <4> QED BY <1>0, <1>4, <1>5, <4>1
    <3> QED BY <3>1, <3>2
  <2> QED BY <2>1, <2>2 DEF Owning
<1>11. Arming(r)
  BY <1>1, <1>4 DEF Sound, Arming
<1>12. r.ptr["tty"] = u.ptr["tty"] /\ (u.ptr["tty"] # Null => u.ptr["tty"] # e /\ u.ptr["tty"] \in Ev)
  <2>1. u.ptr["tty"] # Null => u.kind[u.ptr["tty"]] # "free"
    BY <1>1 DEF Sound, Terminal
  <2> QED BY <1>0, <1>4, <1>5, <2>1
<1>13. Terminal(r, fd)
  BY <1>1, <1>4, <1>12 DEF Sound, Terminal
<1>14. Configures(r) = IF t = "configure" THEN Configures(u) \cup {e} ELSE Configures(u)
  <2>1. e \notin Configures(u) /\ (e \in Configures(r) <=> t = "configure")
    BY <1>3, <1>4, <1>6 DEF Configures
  <2>2. \A f \in Ev : f # e => (f \in Configures(r) <=> f \in Configures(u))
    BY <1>4 DEF Configures
  <2>3. Configures(r) \subseteq Ev /\ Configures(u) \subseteq Ev
    BY DEF Configures
  <2>4. CASE t = "configure"
    BY <1>3, <2>1, <2>2, <2>3, <2>4
  <2>5. CASE t # "configure"
    BY <1>3, <2>1, <2>2, <2>3, <2>5
  <2> QED BY <2>4, <2>5
<1>15. /\ IsFiniteSet(Configures(r))
       /\ Cardinality(Configures(r)) = IF t = "configure" THEN Cardinality(Configures(u)) + 1
                                       ELSE Cardinality(Configures(u))
  <2>1. IsFiniteSet(Configures(u)) /\ e \notin Configures(u)
    BY <1>1, <1>4 DEF Sound, Configures
  <2> QED BY <1>14, <2>1, FS_AddElement
<1>16. Sound(r, fd)
  BY <1>7, <1>9, <1>10, <1>11, <1>13, <1>15 DEF Sound
<1>17. Live(r, t) = 1
  BY <1>0, <1>3, <1>4, <1>6 DEF Live, IsSet
<1>18. t # "smooth" => Live(r, "smooth") = Live(u, "smooth")
  <2>1. "smooth" \in Ptrs
    BY WindowLoopAssumption DEF Timers
  <2> QED BY <1>4, <2>1 DEF Live, IsSet
<1>19. ReadBound(r) = IF t \in ReadTimers THEN ReadBound(q) + 1 - Live(q, t) ELSE ReadBound(q)
  <2>1. Cardinality(Configures(u)) \in Nat /\ ReadBound(q) \in Nat
    BY <1>1, BoundIsNat
  <2>2. Live(q, t) \in {0, 1} /\ Live(u, "smooth") \in {0, 1}
    BY DEF Live
  <2>3. ReadBound(u) = IF t \in ReadTimers THEN ReadBound(q) + 0 - Live(q, t) ELSE ReadBound(q)
    BY <1>1 DEF Moved
  <2>4. CASE t = "smooth"
    <3>1. Live(u, "smooth") = 0
      BY <1>1, <2>4 DEF Moved
    <3> QED BY <1>15, <1>17, <2>1, <2>2, <2>3, <2>4, <3>1 DEF ReadBound, ReadTimers
  <2>5. CASE t = "configure"
    BY <1>15, <1>18, <2>1, <2>2, <2>3, <2>5 DEF ReadBound, ReadTimers
  <2>6. CASE t \notin ReadTimers
    BY <1>15, <1>18, <2>1, <2>2, <2>3, <2>6 DEF ReadBound, ReadTimers
  <2> QED BY <2>4, <2>5, <2>6 DEF ReadTimers
<1>20. \A o \in Ptrs \ {t} : r.ptr[o] = q.ptr[o]
  BY <1>1, <1>4 DEF Moved
<1>21. /\ r.current = q.current /\ r.pollfd = q.pollfd
       /\ q.current # Null => r.kind[q.current] = q.kind[q.current] /\ r.cb[q.current] = q.cb[q.current]
  BY <1>1, <1>4, <1>5, <1>6 DEF Moved
<1> QED BY <1>16, <1>17, <1>19, <1>20, <1>21 DEF Moved

----------------------------------------------------------------------------
(* The mask of the terminal *)

(* Nothing but masks, flags and times changes.                             *)
Same(q, r) ==
    /\ r.kind = q.kind /\ r.cb = q.cb /\ r.pptr = q.pptr /\ r.ptr = q.ptr
    /\ \A f \in DOMAIN q.due : f \in DOMAIN r.due
    /\ r.current = q.current /\ r.delete = q.delete /\ r.failed = q.failed
    /\ DOMAIN r.pollfd = DOMAIN q.pollfd
    /\ \A i \in DOMAIN q.pollfd : r.pollfd[i].evt = q.pollfd[i].evt

(* Sound depends only on the fields that Same compares.                    *)
LEMMA SameSound ==
    ASSUME NEW q, NEW r, NEW fd, Sound(q, fd), Same(q, r)
    PROVE  Sound(r, fd) /\ ReadBound(r) = ReadBound(q) /\ \A t : Live(r, t) = Live(q, t)
<1>1. Configures(r) = Configures(q)
  BY DEF Same, Configures
<1>2. \A t : Live(r, t) = Live(q, t)
  BY DEF Same, Live, IsSet
<1>3. ReadBound(r) = ReadBound(q)
  BY <1>1, <1>2 DEF ReadBound
<1>4. Current(r, fd) /\ Pointed(r) /\ Owning(r) /\ Arming(r)
  BY DEF Same, Sound, Current, Pointed, Owning, Arming
<1>5. Terminal(r, fd)
  BY DEF Same, Sound, Terminal
<1> QED BY <1>1, <1>2, <1>3, <1>4, <1>5 DEF Sound

(* The terminal has one slot.                                              *)
LEMMA SlotOfTerminal ==
    ASSUME NEW q, Sound(q, TRUE), NEW e, e = q.ptr["tty"]
    PROVE  /\ SlotOf(q, e) \in DOMAIN q.pollfd
           /\ \A j \in DOMAIN q.pollfd : q.pollfd[j].evt = e <=> j = SlotOf(q, e)
<1>1. PICK i \in DOMAIN q.pollfd : \A j \in DOMAIN q.pollfd : q.pollfd[j].evt = e <=> j = i
  BY DEF Sound, Terminal
<1>2. SlotOf(q, e) \in DOMAIN q.pollfd /\ q.pollfd[SlotOf(q, e)].evt = e
  BY <1>1 DEF SlotOf
<1> QED BY <1>1, <1>2

(* Changing the mask of a descriptor changes nothing else.                 *)
LEMMA SetMask ==
    ASSUME NEW q, Fitted(q), NEW e, NEW m, NEW r, r = poller_fd_set_mask(q, e, m)
    PROVE  /\ Follows(q, r) /\ Same(q, r) /\ r.off = q.off
           /\ SlotOf(q, e) \in DOMAIN q.pollfd => r.pollfd[SlotOf(q, e)].mask = m
<1> DEFINE k == SlotOf(q, e)
           v == [q.pollfd[k] EXCEPT !.mask = m]
<1>1. /\ DOMAIN r = Fields
      /\ r.kind = q.kind /\ r.cb = q.cb /\ r.pptr = q.pptr /\ r.ptr = q.ptr /\ r.off = q.off
      /\ r.due = q.due /\ r.current = q.current /\ r.delete = q.delete /\ r.failed = q.failed
      /\ r.pollfd = [q.pollfd EXCEPT ![k] = v]
  BY DEF poller_fd_set_mask, Fitted, Fields
<1>2. k \in DOMAIN q.pollfd => IsSlot(v) /\ v.evt = q.pollfd[k].evt /\ v.mask = m
  BY DEF Fitted, Slotted, IsSlot, SlotFields
<1> HIDE DEF v, k
<1>3. Slotted(r.pollfd) /\ Len(r.pollfd) = Len(q.pollfd)
  <2>1. Slotted(q.pollfd) /\ r.pollfd = [q.pollfd EXCEPT ![k] = v]
    BY <1>1 DEF Fitted
  <2> QED BY <1>2, <2>1, ArrayKept
<1>4. /\ DOMAIN r.pollfd = DOMAIN q.pollfd
      /\ \A i \in DOMAIN q.pollfd : r.pollfd[i].evt = q.pollfd[i].evt
      /\ k \in DOMAIN q.pollfd => r.pollfd[k].mask = m
  BY <1>1, <1>2
<1> QED BY <1>1, <1>3, <1>4 DEF Follows, Fitted, Same, k

(* Nor does enabling or disabling a descriptor.                            *)
LEMMA ToggleFdSame ==
    ASSUME NEW q, Fitted(q), NEW e \in Ev, q.kind[e] = "fd", NEW enable \in BOOLEAN,
           NEW r, r = poller_toggle(q, e, enable)
    PROVE  /\ Follows(q, r) /\ Same(q, r)
           /\ \A i \in DOMAIN q.pollfd : r.pollfd[i].mask = q.pollfd[i].mask
<1>1. CASE poller_is_enabled(q, e) = enable
  <2>1. r = q
    BY <1>1 DEF poller_toggle
  <2> QED BY <2>1 DEF Follows, Same
<1>2. CASE poller_is_enabled(q, e) # enable
  <2> DEFINE k == SlotOf(q, e)
             v == [q.pollfd[k] EXCEPT !.on = ~ @]
             o == IF enable THEN q.off \ {e} ELSE q.off \cup {e}
             u == [q EXCEPT !.off = o]
  <2>1. e # Null /\ SlotOf(u, e) = k /\ u.kind[e] = "fd"
    BY EventsAssumption DEF SlotOf, Fitted, Fields
  <2>2. r = [u EXCEPT !.pollfd[SlotOf(u, e)].on = ~ @]
    BY <1>2, <2>1 DEF poller_toggle
  <2>3. k \in DOMAIN q.pollfd => IsSlot(v) /\ v.evt = q.pollfd[k].evt /\ v.mask = q.pollfd[k].mask
    BY DEF Fitted, Slotted, IsSlot, SlotFields
  <2>4. /\ DOMAIN r = Fields
        /\ r.kind = q.kind /\ r.cb = q.cb /\ r.pptr = q.pptr /\ r.ptr = q.ptr
        /\ r.due = q.due /\ r.current = q.current /\ r.delete = q.delete /\ r.failed = q.failed
        /\ r.pollfd = [q.pollfd EXCEPT ![k] = v]
    BY <2>1, <2>2 DEF Fitted, Fields
  <2> HIDE DEF v, k
  <2>5. Slotted(r.pollfd) /\ Len(r.pollfd) = Len(q.pollfd)
    <3>1. Slotted(q.pollfd) /\ r.pollfd = [q.pollfd EXCEPT ![k] = v]
      BY <2>4 DEF Fitted
    <3> QED BY <2>3, <3>1, ArrayKept
  <2>6. /\ DOMAIN r.pollfd = DOMAIN q.pollfd
        /\ \A i \in DOMAIN q.pollfd :
             r.pollfd[i].evt = q.pollfd[i].evt /\ r.pollfd[i].mask = q.pollfd[i].mask
    BY <2>3, <2>4
  <2> QED BY <2>4, <2>5, <2>6 DEF Follows, Fitted, Same
<1> QED BY <1>1, <1>2

----------------------------------------------------------------------------
(* Steps of the process within a callback                                  *)

Step(s, r) ==
    /\ r.p.current = s.p.current /\ Len(r.p.pollfd) = Len(s.p.pollfd)
    /\ Alive(r) => Alive(s)
    /\ Alive(r) /\ s.p.current # Null =>
         r.p.kind[s.p.current] = s.p.kind[s.p.current] /\ r.p.cb[s.p.current] = s.p.cb[s.p.current]

(* All but the poller stays.                                               *)
Else(s, r) ==
    /\ DOMAIN r = DOMAIN s
    /\ r.rd = s.rd /\ r.rn = s.rn /\ r.any = s.any /\ r.force = s.force /\ r.gone = s.gone
    /\ r.req = s.req /\ r.buf = s.buf /\ r.fresh = s.fresh /\ r.fd = s.fd /\ r.child = s.child
    /\ r.had = s.had /\ r.out = s.out /\ r.slave = s.slave /\ r.proc = s.proc

Ok(s) == Right(s, 0) /\ Calm(s)

Does(s, r) == Ok(r) /\ Step(s, r)

(* The callback of t does not run, if t is one of the timers counted in rn *)
Movable(s, t) ==
    Alive(s) /\ t \in RenderTimers /\ IsSet(s.p, t) => s.p.ptr[t] # s.p.current

(* Two steps within a callback are one.                                    *)
LEMMA StepTwice ==
    ASSUME NEW s, NEW r, NEW u, Step(s, r), Step(r, u)
    PROVE  Step(s, u)
BY DEF Step

(* Two calls that keep the counters right do so together.                  *)
LEMMA DoesTwice ==
    ASSUME NEW s, NEW r, NEW u, Does(s, r), Does(r, u)
    PROVE  Does(s, u)
BY StepTwice DEF Does

(* A callback that is not of a render timer stays one.                     *)
LEMMA StillCalm ==
    ASSUME NEW s, NEW r, Step(s, r)
    PROVE  (Calm(s) => Calm(r)) /\ (Quiet(s) => Quiet(r))
BY DEF Step, Calm, Quiet

(* When no render timer's callback runs, each timer can be set and unset.  *)
LEMMA CalmMovable ==
    ASSUME NEW s, Steady(s), Calm(s), NEW t \in Timers
    PROVE  Movable(s, t)
<1> SUFFICES ASSUME Alive(s), t \in RenderTimers, IsSet(s.p, t), s.p.ptr[t] = s.p.current
             PROVE  FALSE
  BY DEF Movable
<1>1. s.p.kind[s.p.ptr[t]] = "timer" /\ s.p.cb[s.p.ptr[t]] = t /\ s.p.ptr[t] # Null
  BY DEF Steady, Sound, Pointed, IsSet
<1> QED BY <1>1 DEF Calm

(* Another poller of the right type                                        *)
LEMMA WithPoller ==
    ASSUME NEW s, Types(s), NEW q, Follows(s.p, q), NEW r, r = [s EXCEPT !.p = q]
    PROVE  Types(r) /\ Else(s, r) /\ r.p = q
<1>1. DOMAIN s = ProcessFields
  BY DEF Types
<1>2. Else(s, r) /\ r.p = q
  BY <1>1 DEF Else, ProcessFields
<1>3. Fitted(r.p)
  BY <1>2 DEF Follows
<1> QED BY <1>2, <1>3 DEF Types, Else

(* After a failed assertion or die() only the types are left.              *)
LEMMA FailOk ==
    ASSUME NEW s, Types(s), NEW r, r = Fail(s)
    PROVE  Types(r) /\ Else(s, r) /\ ~ Alive(r) /\ Step(s, r) /\ \A x : Right(r, x)
<1>1. Fitted(s.p)
  BY DEF Types
<1>2. Follows(s.p, Require(s.p, FALSE)) /\ Require(s.p, FALSE).failed
  BY <1>1, RequireFitted
<1>3. r = [s EXCEPT !.p = Require(s.p, FALSE)]
  BY DEF Fail
<1>4. Types(r) /\ Else(s, r) /\ r.p = Require(s.p, FALSE)
  BY <1>2, <1>3, WithPoller
<1>5. ~ Alive(r)
  BY <1>2, <1>4 DEF Alive
<1> QED BY <1>2, <1>4, <1>5 DEF Follows, Step, Right, Steady

(* A timer is cancelled or armed.                                          *)
LEMMA Cancel ==
    ASSUME NEW s, Steady(s), NEW t \in Timers, Movable(s, t), NEW r, r = Unset(s, t)
    PROVE  /\ Steady(r) /\ Else(s, r) /\ Step(s, r)
           /\ Alive(r) => Moved(s.p, r.p, t, 0)
<1>1. t \in Ptrs /\ Fitted(s.p) /\ Types(s)
  BY WindowLoopAssumption DEF Steady, Types
<1> DEFINE q == poller_unset(s.p, t)
<1>2. Follows(s.p, q)
  BY <1>1, UnsetFitted
<1>3. r = [s EXCEPT !.p = q]
  BY DEF Unset
<1>4. Types(r) /\ Else(s, r) /\ r.p = q
  BY <1>1, <1>2, <1>3, WithPoller
<1>5. ASSUME Alive(r) PROVE Alive(s) /\ Sound(r.p, r.fd) /\ Moved(s.p, r.p, t, 0)
  <2>1. Alive(s)
    BY <1>2, <1>4, <1>5 DEF Alive, Follows, Else
  <2>2. Sound(s.p, s.fd) /\ (t \in RenderTimers /\ IsSet(s.p, t) => s.p.ptr[t] # s.p.current)
    BY <2>1 DEF Steady, Movable
  <2>3. Sound(q, s.fd) /\ Moved(s.p, q, t, 0)
    BY <1>1, <2>2, UnsetTimer
  <2> QED BY <1>4, <2>1, <2>3 DEF Else
<1> QED BY <1>2, <1>4, <1>5 DEF Steady, Step, Moved, Follows

(* SetTimer(): the timer is armed, or there is no memory for its event.    *)
LEMMA Arm ==
    ASSUME NEW s, Steady(s), NEW t \in Timers, Movable(s, t), NEW r, r = SetTimer(s, t)
    PROVE  /\ Steady(r) /\ Else(s, r) /\ Step(s, r)
           /\ Alive(r) => Moved(s.p, r.p, t, 1)
<1>1. Fitted(s.p) /\ Types(s)
  BY DEF Steady, Types
<1>2. CASE ~ CanAlloc(poller_unset(s.p, t))
  <2>1. r = Fail(s)
    BY <1>2 DEF SetTimer
  <2> QED BY <1>1, <2>1, FailOk DEF Steady
<1>3. CASE CanAlloc(poller_unset(s.p, t))
  <2> DEFINE q == poller_set_timer(s.p, t, t, Period[t])
  <2>1. Follows(s.p, q)
    BY <1>1, <1>3, SetTimerFitted
  <2>2. r = [s EXCEPT !.p = q]
    BY <1>3 DEF SetTimer
  <2>3. Types(r) /\ Else(s, r) /\ r.p = q
    BY <1>1, <2>1, <2>2, WithPoller
  <2>4. ASSUME Alive(r) PROVE Alive(s) /\ Sound(r.p, r.fd) /\ Moved(s.p, r.p, t, 1)
    <3>1. Alive(s)
      BY <2>1, <2>3, <2>4 DEF Alive, Follows, Else
    <3>2. Sound(s.p, s.fd) /\ (t \in RenderTimers /\ IsSet(s.p, t) => s.p.ptr[t] # s.p.current)
      BY <3>1 DEF Steady, Movable
    <3>3. Sound(q, s.fd) /\ Moved(s.p, q, t, 1)
      BY <1>1, <1>3, <3>2, ArmTimer
    <3> QED BY <2>3, <3>1, <3>3 DEF Else
  <2> QED BY <2>1, <2>3, <2>4 DEF Steady, Step, Moved, Follows
<1> QED BY <1>2, <1>3

(* What that does to the counts                                            *)
LEMMA Recount ==
    ASSUME NEW q, NEW r, NEW t \in Timers, NEW n \in {0, 1}, Moved(q, r, t, n)
    PROVE  /\ RenderCount(r) = IF t \in RenderTimers THEN RenderCount(q) + n - Live(q, t)
                               ELSE RenderCount(q)
           /\ Deaf(r) <=> Deaf(q)
<1>1. \A u \in Timers : u # t => Live(r, u) = Live(q, u)
  BY WindowLoopAssumption DEF Moved, Live, IsSet
<1>2. \A u : Live(q, u) \in {0, 1}
  BY DEF Live
<1>3. Live(r, t) = n
  BY DEF Moved
<1>4. RenderCount(r) = IF t \in RenderTimers THEN RenderCount(q) + n - Live(q, t) ELSE RenderCount(q)
  BY <1>1, <1>2, <1>3 DEF RenderCount, RenderTimers, Timers
<1>5. r.pollfd = q.pollfd /\ r.ptr["tty"] = q.ptr["tty"]
  BY WindowLoopAssumption DEF Moved, Timers
<1>6. Deaf(r) <=> Deaf(q)
  BY <1>5 DEF Deaf, poller_fd_get_mask, SlotOf
<1> QED BY <1>4, <1>6

----------------------------------------------------------------------------
(* The counters of window.c *)

(* tty_toggle_read(), which fails when the terminal is gone: the rest of   *)
(* the poller stays.                                                       *)
LEMMA ToggleRead ==
    ASSUME NEW s, Steady(s), NEW enable \in BOOLEAN, NEW r, r = tty_toggle_read(s, enable)
    PROVE  /\ Steady(r) /\ Else(s, r) /\ Step(s, r)
           /\ Alive(r) => /\ RenderCount(r.p) = RenderCount(s.p) /\ ReadBound(r.p) = ReadBound(s.p)
                          /\ r.fd => (Deaf(r.p) <=> ~ enable)
<1> DEFINE e == s.p.ptr["tty"]
           old == poller_fd_get_mask(s.p, e)
           new == IF enable THEN old \cup {"in"} ELSE old \ {"in"}
           q == poller_fd_set_mask(s.p, e, new)
           p == IF (new = {}) # (old = {}) THEN poller_toggle(q, e, new # {}) ELSE q
<1>1. Types(s) /\ Fitted(s.p)
  BY DEF Steady, Types
<1>2. CASE e = Null \/ s.p.kind[e] # "fd"
  <2>1. r = Fail(s)
    BY <1>2 DEF tty_toggle_read
  <2> QED BY <1>1, <2>1, FailOk DEF Steady
<1>3. CASE e # Null /\ s.p.kind[e] = "fd"
  <2>1. r = [s EXCEPT !.p = p]
    BY <1>3 DEF tty_toggle_read
  <2>2. e \in Ev
    BY <1>1, <1>3, WindowLoopAssumption DEF Fitted
  <2>3. "in" \in new <=> enable
    OBVIOUS
  <2>4. e = s.p.ptr["tty"] /\ s.p.kind[e] = "fd"
    BY <1>3
  <2> HIDE DEF e, new, old
  <2>5. /\ Follows(s.p, q) /\ Same(s.p, q)
        /\ SlotOf(s.p, e) \in DOMAIN s.p.pollfd => q.pollfd[SlotOf(s.p, e)].mask = new
    BY <1>1, SetMask
  <2>6. Fitted(q) /\ q.kind[e] = "fd"
    BY <2>4, <2>5 DEF Follows, Same
  <2> HIDE DEF q
  <2>7. /\ Follows(q, p) /\ Same(q, p)
        /\ \A i \in DOMAIN q.pollfd : p.pollfd[i].mask = q.pollfd[i].mask
    <3>1. CASE (new = {}) # (old = {})
      <4>1. PICK b \in BOOLEAN : b = (new # {})
        OBVIOUS
      <4>2. p = poller_toggle(q, e, b)
        BY <3>1, <4>1
      <4> QED BY <2>2, <2>6, <4>2, ToggleFdSame
    <3>2. CASE ~ ((new = {}) # (old = {}))
      <4>1. p = q
        BY <3>2
      <4> QED BY <2>6, <4>1 DEF Follows, Same
    <3> QED BY <3>1, <3>2
  <2> HIDE DEF p
  <2>8. Follows(s.p, p)
    BY <2>5, <2>7, FollowsTwice
  <2>9. Same(s.p, p)
    BY <2>5, <2>7 DEF Same
  <2>10. Types(r) /\ Else(s, r) /\ r.p = p
    BY <1>1, <2>1, <2>8, WithPoller
  <2>11. Alive(r) <=> Alive(s)
    BY <2>9, <2>10 DEF Alive, Else, Same
  <2>12. Alive(s) => /\ Sound(p, s.fd)
                     /\ RenderCount(p) = RenderCount(s.p) /\ ReadBound(p) = ReadBound(s.p)
    BY <2>9, SameSound DEF Steady, RenderCount
  <2>13. Steady(r)
    BY <2>10, <2>11, <2>12 DEF Steady, Else
  <2>14. Step(s, r)
    BY <2>8, <2>9, <2>10, <2>11 DEF Step, Follows, Same
  <2>15. ASSUME Alive(r), r.fd PROVE Deaf(p) <=> ~ enable
    <3>1. s.fd = TRUE
      BY <1>1, <2>10, <2>15 DEF Else, Types
    <3>2. Sound(s.p, TRUE) /\ Sound(p, TRUE)
      BY <2>11, <2>12, <2>15, <3>1 DEF Steady
    <3>3. e = p.ptr["tty"]
      BY <2>4, <2>9 DEF Same
    <3>4. /\ SlotOf(s.p, e) \in DOMAIN s.p.pollfd
          /\ \A j \in DOMAIN s.p.pollfd : s.p.pollfd[j].evt = e <=> j = SlotOf(s.p, e)
      <4>1. e = s.p.ptr["tty"] /\ Sound(s.p, TRUE)
        BY <2>4, <3>2
      <4> QED BY <4>1, SlotOfTerminal
    <3>5. /\ SlotOf(p, e) \in DOMAIN p.pollfd
          /\ \A j \in DOMAIN p.pollfd : p.pollfd[j].evt = e <=> j = SlotOf(p, e)
      BY <3>2, <3>3, SlotOfTerminal
    <3>6. SlotOf(p, e) = SlotOf(s.p, e)
      BY <2>9, <3>4, <3>5 DEF Same
    <3>7. p.pollfd[SlotOf(p, e)].mask = new
      BY <2>5, <2>7, <3>4, <3>6 DEF Same
    <3> QED BY <2>3, <3>3, <3>7 DEF Deaf, poller_fd_get_mask
  <2> QED BY <2>10, <2>11, <2>12, <2>13, <2>14, <2>15
<1> QED BY <1>2, <1>3

(* Fields that no invariant depends on                                     *)
Alike(s, r) == r.p = s.p /\ r.gone = s.gone /\ r.fd = s.fd

(* What differs in flags and buffers only is equally sound.                *)
LEMMA AlikeSteady ==
    ASSUME NEW s, Steady(s), NEW r, Types(r), Alike(s, r)
    PROVE  /\ Steady(r) /\ Step(s, r) /\ (Alive(r) <=> Alive(s))
           /\ \A t : Movable(s, t) => Movable(r, t)
           /\ r.rd = s.rd /\ r.rn = s.rn => \A x : Right(s, x) => Right(r, x)
BY DEF Alike, Steady, Step, Alive, Right, Counted, Movable

(* Changing flags and buffers only keeps the counters right.               *)
LEMMA AlikeDoes ==
    ASSUME NEW s, Ok(s), NEW r, Types(r), Alike(s, r), r.rd = s.rd, r.rn = s.rn
    PROVE  Does(s, r)
<1>1. Right(s, 0) /\ Steady(s) /\ Calm(s)
  BY DEF Ok, Right
<1>2. Step(s, r) /\ Right(r, 0)
  BY <1>1, AlikeSteady
<1> QED BY <1>1, <1>2, StillCalm DEF Does, Ok

(* Changing rn keeps the types.                                            *)
LEMMA inc_render_type ==
    ASSUME NEW s, Types(s), NEW n \in Int, NEW r, r = [s EXCEPT !.rn = n]
    PROVE  Types(r) /\ Alike(s, r) /\ r.rn = n /\ r.rd = s.rd
BY DEF Types, Alike, ProcessFields

(* Changing rd keeps the types.                                            *)
LEMMA inc_read_type ==
    ASSUME NEW s, Types(s), NEW n \in Int, NEW r, r = [s EXCEPT !.rd = n]
    PROVE  Types(r) /\ Alike(s, r) /\ r.rd = n /\ r.rn = s.rn
BY DEF Types, Alike, ProcessFields

(* inc_read_inhibit() once a timer is armed that rd does not count yet     *)
LEMMA IncRead ==
    ASSUME NEW s, Right(s, -1), NEW r, r = inc_read_inhibit(s)
    PROVE  Right(r, 0) /\ Step(s, r)
<1> DEFINE t == [s EXCEPT !.rd = s.rd + 1]
<1>1. Steady(s) /\ Types(s) /\ s.rd \in Int /\ s.rd + 1 \in Int
  BY DEF Right, Steady, Types
<1>2. Types(t) /\ Alike(s, t) /\ t.rd = s.rd + 1 /\ t.rn = s.rn
  BY <1>1, inc_read_type
<1>3. r = IF s.rd = 0 THEN tty_toggle_read(t, FALSE) ELSE t
  BY DEF inc_read_inhibit
<1> HIDE DEF t
<1>4. Steady(t) /\ Step(s, t) /\ (Alive(t) <=> Alive(s))
  BY <1>1, <1>2, AlikeSteady
<1>5. ASSUME Alive(t)
      PROVE  /\ t.rn = RenderCount(t.p)
             /\ t.fd => t.rd <= ReadBound(t.p) /\ (Deaf(t.p) <=> t.rd > 1)
  <2>1. Counted(s, -1)
    BY <1>4, <1>5 DEF Right
  <2>2. ReadBound(s.p) \in Nat
    BY <1>4, <1>5, <1>1, BoundIsNat DEF Steady
  <2> QED BY <1>1, <1>2, <2>1, <2>2 DEF Counted, Alike
<1>6. CASE s.rd = 0
  <2>1. PICK b \in BOOLEAN : b = FALSE
    OBVIOUS
  <2>2. r = tty_toggle_read(t, b)
    BY <1>3, <1>6, <2>1
  <2>3. /\ Steady(r) /\ Else(t, r) /\ Step(t, r)
        /\ Alive(r) => /\ RenderCount(r.p) = RenderCount(t.p) /\ ReadBound(r.p) = ReadBound(t.p)
                       /\ r.fd => (Deaf(r.p) <=> ~ b)
    BY <1>4, <2>2, ToggleRead
  <2>4. Alive(r) => Counted(r, 0)
    <3> SUFFICES ASSUME Alive(r) PROVE Counted(r, 0)
      OBVIOUS
    <3>1. Alive(t)
      BY <2>3 DEF Step
    <3>2. ReadBound(t.p) \in Nat
      BY <1>4, <3>1, BoundIsNat DEF Steady
    <3> QED BY <1>2, <1>5, <1>6, <2>1, <2>3, <3>1, <3>2 DEF Counted, Else
  <2> QED BY <1>4, <2>3, <2>4, StepTwice DEF Right
<1>7. CASE s.rd # 0
  <2>1. r = t
    BY <1>3, <1>7
  <2>2. Alive(t) => Counted(t, 0)
    <3> SUFFICES ASSUME Alive(t) PROVE Counted(t, 0)
      OBVIOUS
    <3>1. ReadBound(t.p) \in Nat
      BY <1>4, BoundIsNat DEF Steady
    <3> QED BY <1>1, <1>2, <1>5, <1>7, <3>1 DEF Counted
  <2> QED BY <1>4, <2>1, <2>2 DEF Right
<1> QED BY <1>6, <1>7

(* Arming smooth or configure counts it once, however often it is set.     *)
LEMMA SetInhibitDoes ==
    ASSUME NEW s, Ok(s), NEW t \in ReadTimers, NEW r, r = SetInhibit(s, t)
    PROVE  Does(s, r)
<1> DEFINE u == SetTimer(s, t)
<1>1. Right(s, 0) /\ Steady(s) /\ t \in Timers /\ Movable(s, t) /\ s.rd \in Int /\ s.fd \in BOOLEAN
      /\ t \notin RenderTimers
  BY CalmMovable DEF Ok, Right, ReadTimers, Timers, Steady, Types, RenderTimers, Movable
<1>2. Steady(u) /\ Else(s, u) /\ Step(s, u) /\ (Alive(u) => Moved(s.p, u.p, t, 1))
  BY <1>1, Arm
<1>3. r = IF IsSet(s.p, t) THEN u ELSE inc_read_inhibit(u)
  BY DEF SetInhibit, TimerSet
<1> HIDE DEF u
<1>4. ASSUME Alive(u)
      PROVE  /\ Counted(s, 0) /\ u.rd = s.rd /\ u.rn = s.rn /\ u.fd = s.fd
             /\ RenderCount(u.p) = RenderCount(s.p) /\ (Deaf(u.p) <=> Deaf(s.p))
             /\ ReadBound(u.p) = ReadBound(s.p) + 1 - Live(s.p, t)
             /\ ReadBound(s.p) \in Nat
             /\ Live(s.p, t) \in {0, 1} /\ (~ IsSet(s.p, t) => Live(s.p, t) = 0)
  <2>1. Alive(s) /\ Moved(s.p, u.p, t, 1)
    BY <1>2, <1>4 DEF Step
  <2>2. Sound(s.p, s.fd) /\ Counted(s, 0)
    BY <1>1, <2>1 DEF Right, Steady
  <2>3. RenderCount(u.p) = RenderCount(s.p) /\ (Deaf(u.p) <=> Deaf(s.p))
    BY <1>1, <2>1, Recount
  <2>4. ReadBound(s.p) \in Nat
    BY <2>2, BoundIsNat
  <2> QED BY <1>2, <2>1, <2>2, <2>3, <2>4 DEF Else, Moved, Live
<1>5. CASE IsSet(s.p, t)
  <2>1. Alive(u) => Counted(u, 0)
    BY <1>1, <1>4 DEF Counted
  <2> QED BY <1>2, <1>3, <1>5, <2>1, StillCalm DEF Does, Ok, Right
<1>6. CASE ~ IsSet(s.p, t)
  <2>1. Right(u, -1)
    BY <1>1, <1>2, <1>4, <1>6 DEF Counted, Right
  <2>2. Right(r, 0) /\ Step(u, r)
    BY <1>3, <1>6, <2>1, IncRead
  <2>3. Step(s, r)
    BY <1>2, <2>2, StepTwice
  <2> QED BY <2>2, <2>3, StillCalm DEF Does, Ok
<1> QED BY <1>5, <1>6

(* Timers that are counted in rn                                           *)
LEMMA UnsetRenderRight ==
    ASSUME NEW s, Right(s, 0), NEW t \in RenderTimers, Movable(s, t), NEW r, r = UnsetRender(s, t)
    PROVE  Right(r, 0) /\ Step(s, r) /\ (Alive(r) => ~ IsSet(r.p, t))
           /\ r.fd = s.fd
<1> DEFINE u == Unset(s, t)
<1>1. /\ Steady(s) /\ t \in Timers /\ t \notin ReadTimers
      /\ s.rn \in Int
  BY DEF Right, RenderTimers, ReadTimers, Timers, Steady, Types
<1>2. Steady(u) /\ Else(s, u) /\ Step(s, u) /\ (Alive(u) => Moved(s.p, u.p, t, 0))
  BY <1>1, Cancel
<1>3. r = IF IsSet(s.p, t) THEN [u EXCEPT !.rn = u.rn - 1] ELSE s
  BY DEF UnsetRender, TimerSet, dec_render_inhibit
<1>4. CASE ~ IsSet(s.p, t)
  BY <1>3, <1>4 DEF Step
<1>5. CASE IsSet(s.p, t)
  <2> HIDE DEF u
  <2>1. r = [u EXCEPT !.rn = u.rn - 1] /\ u.rn = s.rn /\ u.rn - 1 \in Int /\ Types(u)
    BY <1>1, <1>2, <1>3, <1>5 DEF Else, Steady
  <2>2. Types(r) /\ Alike(u, r) /\ r.rn = s.rn - 1 /\ r.rd = s.rd
    BY <1>2, <2>1, inc_render_type DEF Else
  <2>3. Steady(r) /\ Step(u, r) /\ (Alive(r) <=> Alive(u))
    BY <1>2, <2>2, AlikeSteady
  <2>4. ASSUME Alive(r) PROVE Counted(r, 0) /\ ~ IsSet(r.p, t)
    <3>1. Alive(s) /\ Moved(s.p, u.p, t, 0)
      BY <1>2, <2>3, <2>4 DEF Step
    <3>2. RenderCount(u.p) = RenderCount(s.p) - Live(s.p, t) /\ (Deaf(u.p) <=> Deaf(s.p))
          /\ ReadBound(u.p) = ReadBound(s.p)
      <4>1. RenderCount(s.p) \in Nat /\ Live(s.p, t) \in {0, 1}
        BY DEF RenderCount, Live
      <4>2. RenderCount(u.p) = RenderCount(s.p) + 0 - Live(s.p, t) /\ (Deaf(u.p) <=> Deaf(s.p))
        BY <1>1, <3>1, Recount
      <4> QED BY <1>1, <3>1, <4>1, <4>2 DEF Moved
    <3>3. Live(s.p, t) = 1
      BY <1>5, <3>1 DEF Movable, Live
    <3>4. Counted(s, 0)
      BY <3>1 DEF Right
    <3> QED BY <1>2, <2>2, <3>1, <3>2, <3>3, <3>4 DEF Counted, Alike, Else, Moved
  <2>5. r.fd = s.fd
    BY <1>2, <2>2 DEF Alike, Else
  <2> QED BY <1>2, <2>3, <2>4, <2>5, StepTwice DEF Right
<1> QED BY <1>4, <1>5

(* Cancelling the timer redraw counts it no more.                          *)
LEMMA ResetRight ==
    ASSUME NEW s, Right(s, 0), Movable(s, "redraw"), NEW r, r = window_reset_delayed_redraw(s)
    PROVE  Right(r, 0) /\ Step(s, r)
<1> DEFINE u == [s EXCEPT !.any = TRUE]
<1>1. Types(u) /\ Alike(s, u) /\ u.rd = s.rd /\ u.rn = s.rn
  BY DEF Right, Steady, Types, Alike, ProcessFields
<1>2. r = UnsetRender(u, "redraw")
  BY DEF window_reset_delayed_redraw
<1> HIDE DEF u
<1>3. Right(u, 0) /\ Step(s, u) /\ Movable(u, "redraw")
  BY <1>1, AlikeSteady DEF Right
<1>4. Right(r, 0) /\ Step(u, r)
  BY <1>2, <1>3, UnsetRenderRight DEF RenderTimers
<1> QED BY <1>3, <1>4, StepTwice

(* window_reset_delayed_redraw() keeps the counters right.                 *)
LEMMA ResetDoes ==
    ASSUME NEW s, Ok(s), NEW r, r = window_reset_delayed_redraw(s)
    PROVE  Does(s, r)
<1>1. Right(s, 0) /\ Movable(s, "redraw")
  BY CalmMovable DEF Ok, Right, Timers
<1> QED BY <1>1, ResetRight, StillCalm DEF Does, Ok

(* A timer that is counted in rn is armed, and was not set before.         *)
LEMMA ArmRender ==
    ASSUME NEW s, Right(s, 0), NEW t \in RenderTimers, Alive(s) => ~ IsSet(s.p, t),
           NEW r, r = inc_render_inhibit(SetTimer(s, t))
    PROVE  Right(r, 0) /\ Step(s, r)
<1> DEFINE u == SetTimer(s, t)
<1>1. /\ Steady(s) /\ t \in Timers /\ t \notin ReadTimers /\ Movable(s, t)
      /\ s.rn \in Int
  BY DEF Right, RenderTimers, ReadTimers, Timers, Steady, Types, Movable
<1>2. Steady(u) /\ Else(s, u) /\ Step(s, u) /\ (Alive(u) => Moved(s.p, u.p, t, 1))
  BY <1>1, Arm
<1>3. r = [u EXCEPT !.rn = u.rn + 1]
  BY DEF inc_render_inhibit
<1> HIDE DEF u
<1>4. u.rn = s.rn /\ u.rn + 1 \in Int /\ Types(u)
  BY <1>1, <1>2 DEF Else, Steady
<1>5. Types(r) /\ Alike(u, r) /\ r.rn = s.rn + 1 /\ r.rd = s.rd
  BY <1>2, <1>3, <1>4, inc_render_type DEF Else
<1>6. Steady(r) /\ Step(u, r) /\ (Alive(r) <=> Alive(u))
  BY <1>2, <1>5, AlikeSteady
<1>7. ASSUME Alive(r) PROVE Counted(r, 0)
  <2>1. Alive(s) /\ Moved(s.p, u.p, t, 1)
    BY <1>2, <1>6, <1>7 DEF Step
  <2>2. Live(s.p, t) = 0
    BY <2>1 DEF Live
  <2>3. RenderCount(u.p) = RenderCount(s.p) + 1 /\ (Deaf(u.p) <=> Deaf(s.p))
        /\ ReadBound(u.p) = ReadBound(s.p)
    <3>1. RenderCount(s.p) \in Nat
      BY DEF RenderCount, Live
    <3>2. RenderCount(u.p) = RenderCount(s.p) + 1 - Live(s.p, t) /\ (Deaf(u.p) <=> Deaf(s.p))
      BY <1>1, <2>1, Recount
    <3> QED BY <1>1, <2>1, <2>2, <3>1, <3>2 DEF Moved
  <2>4. Counted(s, 0)
    BY <2>1 DEF Right
  <2> QED BY <1>2, <1>5, <2>3, <2>4 DEF Counted, Alike, Else
<1> QED BY <1>2, <1>6, <1>7, StepTwice DEF Right

----------------------------------------------------------------------------
(* Timers of window.c, and what the terminal asks for                      *)

(* window_delay_redraw() keeps the counters right.                         *)
LEMMA window_delay_redraw_Does ==
    ASSUME NEW s, Ok(s), NEW r, r = window_delay_redraw(s)
    PROVE  Does(s, r)
<1>1. CASE TimerSet(s, "redraw")
  BY <1>1 DEF window_delay_redraw, Does, Step
<1>2. CASE ~ TimerSet(s, "redraw")
  <2>1. Right(r, 0) /\ Step(s, r)
    BY <1>2, ArmRender DEF window_delay_redraw, TimerSet, Ok, RenderTimers
  <2> QED BY <2>1, StillCalm DEF Does, Ok
<1> QED BY <1>1, <1>2

(* window_delay_redraw_after_read() keeps the counters right.              *)
LEMMA window_delay_redraw_after_read_Does ==
    ASSUME NEW s, Ok(s), NEW r, r = window_delay_redraw_after_read(s)
    PROVE  Does(s, r)
<1>1. Right(s, 0) /\ Steady(s) /\ Movable(s, "read") /\ "read" \in Timers
      /\ "read" \notin RenderTimers /\ "read" \notin ReadTimers
  BY CalmMovable DEF Ok, Right, Timers, RenderTimers, ReadTimers
<1>2. r = SetTimer(s, "read")
  BY DEF window_delay_redraw_after_read
<1>3. Steady(r) /\ Else(s, r) /\ Step(s, r) /\ (Alive(r) => Moved(s.p, r.p, "read", 1))
  BY <1>1, <1>2, Arm
<1>4. ASSUME Alive(r) PROVE Counted(r, 0)
  <2>1. Alive(s) /\ Moved(s.p, r.p, "read", 1) /\ Counted(s, 0)
    BY <1>1, <1>3, <1>4 DEF Step, Right
  <2>2. RenderCount(r.p) = RenderCount(s.p) /\ (Deaf(r.p) <=> Deaf(s.p))
    BY <1>1, <2>1, Recount
  <2>3. ReadBound(r.p) = ReadBound(s.p)
    BY <1>1, <2>1 DEF Moved
  <2> QED BY <1>3, <2>1, <2>2, <2>3 DEF Counted, Else
<1> QED BY <1>3, <1>4, StillCalm DEF Does, Ok, Right

(* wait_for_configure() keeps the counters right.                          *)
LEMMA wait_for_configure_Does ==
    ASSUME NEW s, Ok(s), NEW r, r = wait_for_configure(s)
    PROVE  Does(s, r)
BY SetInhibitDoes DEF wait_for_configure, ReadTimers

(* window_request_scroll_flush() keeps the counters right.                 *)
LEMMA window_request_scroll_flush_Does ==
    ASSUME NEW s, Ok(s), NEW r, r = window_request_scroll_flush(s)
    PROVE  Does(s, r)
<1> DEFINE t == window_reset_delayed_redraw(s)
           u == [t EXCEPT !.force = TRUE]
<1>1. Does(s, t)
  BY ResetDoes
<1> HIDE DEF t
<1>2. Types(u) /\ Alike(t, u) /\ u.rd = t.rd /\ u.rn = t.rn
  BY <1>1 DEF Does, Ok, Right, Steady, Types, Alike, ProcessFields
<1>3. r = SetInhibit(u, "smooth")
  BY DEF window_request_scroll_flush, t
<1> HIDE DEF u
<1>4. Does(t, u)
  BY <1>1, <1>2, AlikeDoes DEF Does
<1>5. Does(u, r)
  BY <1>3, <1>4, SetInhibitDoes DEF Does, ReadTimers
<1> QED BY <1>1, <1>4, <1>5, DoesTwice

(* window_set_sync() keeps the counters right.                             *)
LEMMA window_set_sync_Does ==
    ASSUME NEW s, Ok(s), NEW state \in BOOLEAN, NEW r, r = window_set_sync(s, state)
    PROVE  Does(s, r)
<1> DEFINE t == UnsetRender(s, "sync")
<1>1. Right(s, 0) /\ Movable(s, "sync") /\ "sync" \in RenderTimers
  BY CalmMovable DEF Ok, Right, Timers, RenderTimers
<1>2. Right(t, 0) /\ Step(s, t) /\ (Alive(t) => ~ IsSet(t.p, "sync"))
  BY <1>1, UnsetRenderRight
<1>3. r = IF state THEN inc_render_inhibit(SetTimer(t, "sync")) ELSE t
  BY DEF window_set_sync
<1> HIDE DEF t
<1>4. Does(s, t)
  BY <1>2, StillCalm DEF Does, Ok
<1>5. CASE state
  <2>1. Right(r, 0) /\ Step(t, r)
    BY <1>1, <1>2, <1>3, <1>5, ArmRender
  <2> QED BY <1>4, <2>1, StillCalm, DoesTwice DEF Does, Ok
<1>6. CASE ~ state
  BY <1>3, <1>4, <1>6
<1> QED BY <1>5, <1>6

(* Every command of the application keeps the counters right.              *)
LEMMA term_dispatch_Does ==
    ASSUME NEW s, Ok(s), NEW c \in Output, NEW r, r = term_dispatch(s, c)
    PROVE  Does(s, r)
<1>1. c \in {"text", "clear", "scroll", "bsu", "esu", "resize"}
  BY WindowLoopAssumption DEF Output
<1>2. CASE c = "text"
  BY <1>2 DEF term_dispatch, Does, Step
<1>3. CASE c = "clear"
  BY <1>3, window_delay_redraw_Does DEF term_dispatch
<1>4. CASE c = "scroll"
  <2>1. r = window_request_scroll_flush(window_delay_redraw(s))
    BY <1>4 DEF term_dispatch
  <2>2. Does(s, window_delay_redraw(s))
    BY window_delay_redraw_Does
  <2>3. Does(window_delay_redraw(s), r)
    BY <2>1, <2>2, window_request_scroll_flush_Does DEF Does
  <2> QED BY <2>2, <2>3, DoesTwice
<1>5. CASE c \in {"bsu", "esu"}
  <2>1. PICK b \in BOOLEAN : b = (c = "bsu")
    OBVIOUS
  <2>2. r = window_set_sync(s, b)
    BY <1>5, <2>1 DEF term_dispatch
  <2> QED BY <2>2, window_set_sync_Does
<1>6. CASE c = "resize"
  <2> DEFINE t == wait_for_configure(s)
  <2>1. Does(s, t)
    BY wait_for_configure_Does
  <2>2. r = [t EXCEPT !.req = TRUE]
    BY <1>6 DEF term_dispatch
  <2> HIDE DEF t
  <2>3. Types(r) /\ Alike(t, r) /\ r.rd = t.rd /\ r.rn = t.rn
    BY <2>1, <2>2 DEF Does, Ok, Right, Steady, Types, Alike, ProcessFields
  <2>4. Does(t, r)
    BY <2>1, <2>3, AlikeDoes DEF Does
  <2> QED BY <2>1, <2>4, DoesTwice
<1> QED BY <1>1, <1>2, <1>3, <1>4, <1>5, <1>6

(* A command is dispatched, or stays in the buffer.                        *)
LEMMA InterpretDoes ==
    ASSUME NEW s, Ok(s), NEW c \in Output, NEW r, r = Interpret(s, c)
    PROVE  Does(s, r)
<1>1. CASE s.req
  <2>1. r = [s EXCEPT !.buf = Append(s.buf, c)] /\ s.buf \in Seq(Output)
    BY <1>1 DEF Interpret, Ok, Right, Steady, Types
  <2>2. Append(s.buf, c) \in Seq(Output)
    BY <2>1
  <2>3. Types(r) /\ Alike(s, r) /\ r.rd = s.rd /\ r.rn = s.rn
    BY <2>1, <2>2 DEF Ok, Right, Steady, Types, Alike, ProcessFields
  <2> QED BY <2>3, AlikeDoes
<1>2. CASE ~ s.req
  BY <1>2, term_dispatch_Does DEF Interpret
<1> QED BY <1>1, <1>2

----------------------------------------------------------------------------
(* Reading the terminal.  A loop is a function; that it has one, and what  *)
(* holds of its last state, is shown by counting its steps.                *)

(* Induction, for a set of naturals.                                       *)
LEMMA Steps ==
    ASSUME NEW S, 0 \in S, \A i \in Nat : i \in S => i + 1 \in S
    PROVE  \A i \in Nat : i \in S
<1> DEFINE B == {i \in Nat : i \notin S}
<1> SUFFICES ASSUME B # {} PROVE FALSE
  OBVIOUS
<1>1. PICK m \in B : \A i \in B : <<i, m>> \notin OpToRel(<, Nat)
  BY NatLessThanWellFounded, WFMin
<1>2. m \in Nat /\ m # 0 /\ m - 1 \in Nat /\ m = (m - 1) + 1
  OBVIOUS
<1>3. <<m - 1, m>> \in OpToRel(<, Nat)
  BY <1>2 DEF OpToRel
<1>4. m - 1 \in S
  BY <1>1, <1>2, <1>3
<1> QED BY <1>1, <1>2, <1>4

(* The loop of do_read() is a function that exists, whatever is read.      *)
LEMMA ReadRuns ==
    ASSUME NEW s, s.buf \in Seq(Output)
    PROVE  \E g : /\ g[0] = [s EXCEPT !.req = FALSE, !.buf = <<>>]
                  /\ \A i \in 1 .. Len(s.buf) : g[i] = Interpret(g[i - 1], s.buf[i])
                  /\ do_read(s) = g[Len(s.buf)]
<1> DEFINE n == Len(s.buf)
           F(g, i) == IF i = 0 THEN [s EXCEPT !.req = FALSE, !.buf = <<>>]
                      ELSE Interpret(g[i - 1], s.buf[i])
           S == {m \in Nat : \E g : g = [i \in 0 .. m |-> F(g, i)]}
           t == CHOOSE g : g = [i \in 0 .. n |-> F(g, i)]
<1>0. n \in Nat
  OBVIOUS
<1>1. do_read(s) = t[n]
  BY DEF do_read
<1>2. 0 \in S
  <2> DEFINE g == [i \in 0 .. 0 |-> [s EXCEPT !.req = FALSE, !.buf = <<>>]]
  <2>1. g = [i \in 0 .. 0 |-> F(g, i)]
    OBVIOUS
  <2> QED BY <2>1
<1>3. ASSUME NEW m \in Nat, m \in S PROVE m + 1 \in S
  <2>1. PICK g : g = [i \in 0 .. m |-> F(g, i)]
    BY <1>3
  <2> DEFINE h == [i \in 0 .. m + 1 |-> IF i = m + 1 THEN F(g, m + 1) ELSE g[i]]
  <2>2. ASSUME NEW i \in 0 .. m + 1 PROVE h[i] = F(h, i)
    <3>1. i # 0 => h[i - 1] = g[i - 1] /\ i - 1 \in 0 .. m
      OBVIOUS
    <3>2. h[i] = IF i = m + 1 THEN F(g, m + 1) ELSE g[i]
      OBVIOUS
    <3>3. i # m + 1 => g[i] = F(g, i)
      BY <2>1
    <3> HIDE DEF h
    <3> QED BY <3>1, <3>2, <3>3
  <2>3. h = [i \in 0 .. m + 1 |-> F(h, i)]
    <3> HIDE DEF F
    <3> QED BY <2>2
  <2> HIDE DEF h, F
  <2> QED BY <2>3
<1>4. n \in S
  <2> HIDE DEF S
  <2> QED BY <1>0, <1>2, <1>3, Steps
<1>5. t = [i \in 0 .. n |-> F(t, i)]
  BY <1>4
<1>6. t[0] = F(t, 0) /\ \A i \in 1 .. n : t[i] = F(t, i)
  <2> HIDE DEF F, t
  <2> QED BY <1>0, <1>5
<1> HIDE DEF t
<1> QED BY <1>1, <1>6

(* do_read() keeps the counters right, whatever is read.                   *)
LEMMA do_read_Does ==
    ASSUME NEW s, Ok(s), NEW r, r = do_read(s)
    PROVE  Does(s, r)
<1>1. s.buf \in Seq(Output) /\ Len(s.buf) \in Nat
  BY DEF Ok, Right, Steady, Types
<1>2. PICK g : /\ g[0] = [s EXCEPT !.req = FALSE, !.buf = <<>>]
               /\ \A i \in 1 .. Len(s.buf) : g[i] = Interpret(g[i - 1], s.buf[i])
               /\ do_read(s) = g[Len(s.buf)]
  BY <1>1, ReadRuns
<1> DEFINE a == [s EXCEPT !.req = FALSE, !.buf = <<>>]
           S == {i \in Nat : i <= Len(s.buf) => Does(s, g[i])}
<1>3. Does(s, g[0])
  <2>1. Types(a) /\ Alike(s, a) /\ a.rd = s.rd /\ a.rn = s.rn
    BY DEF Ok, Right, Steady, Types, Alike, ProcessFields
  <2>2. g[0] = a
    BY <1>2
  <2> HIDE DEF a
  <2> QED BY <2>1, <2>2, AlikeDoes
<1>4. ASSUME NEW i \in Nat, i \in S PROVE i + 1 \in S
  <2> SUFFICES ASSUME i + 1 <= Len(s.buf) PROVE Does(s, g[i + 1])
    OBVIOUS
  <2>1. Does(s, g[i])
    BY <1>1, <1>4
  <2>2. i + 1 \in 1 .. Len(s.buf) /\ (i + 1) - 1 = i
    BY <1>1
  <2>3. g[i + 1] = Interpret(g[i], s.buf[i + 1]) /\ s.buf[i + 1] \in Output
    BY <1>1, <1>2, <2>2
  <2>4. Does(g[i], g[i + 1])
    BY <2>1, <2>3, InterpretDoes DEF Does
  <2> QED BY <2>1, <2>4, DoesTwice
<1>5. Len(s.buf) \in S
  <2>1. 0 \in S
    BY <1>3
  <2> HIDE DEF S
  <2> QED BY <1>1, <1>4, <2>1, Steps
<1> QED BY <1>1, <1>2, <1>5

----------------------------------------------------------------------------
(* The terminal is closed                                                  *)

(* Sound, without what it says of the terminal                             *)
Untied(q) ==
    /\ Current(q, FALSE) /\ Pointed(q) /\ Owning(q) /\ Arming(q)
    /\ IsFiniteSet(Configures(q))

(* Timers are what they were, in a callback that goes on.                  *)
Beside(q, r) ==
    /\ r.current = q.current
    /\ RenderCount(r) = RenderCount(q) /\ ReadBound(r) = ReadBound(q)
    /\ q.current # Null => r.kind[q.current] = q.kind[q.current] /\ r.cb[q.current] = q.cb[q.current]

(* The poller after the event of the terminal was removed.                 *)
LEMMA UnsetTerminal ==
    ASSUME NEW q, Fitted(q), NEW fd \in BOOLEAN, Sound(q, fd), NEW r, r = poller_unset(q, "tty")
    PROVE  /\ Untied(r) /\ Beside(q, r)
           /\ \A f \in Ev : r.pptr[f] # "tty"
           /\ fd => r.ptr["tty"] = Null
<1>0. "tty" \in Ptrs /\ "tty" \notin Timers /\ Null \notin Ev /\ Timers \subseteq Ptrs
  BY WindowLoopAssumption, EventsAssumption DEF Timers
<1>1. CASE ~ IsSet(q, "tty")
  <2>1. r = q
    BY <1>1 DEF poller_unset
  <2>2. \A f \in Ev : q.pptr[f] # "tty"
    BY <1>0, <1>1 DEF Sound, Owning, IsSet
  <2>3. ~ fd /\ q.ptr["tty"] = Null
    BY <1>1 DEF Sound, Terminal, IsSet
  <2> QED BY <2>1, <2>2, <2>3 DEF Sound, Untied, Beside, Current
<1>2. CASE IsSet(q, "tty")
  <2> DEFINE e == q.ptr["tty"]
  <2>1. /\ e \in Ev /\ r = poller_remove(q, e)
        /\ IF fd THEN q.kind[e] = "fd" /\ q.pptr[e] = "tty"
           ELSE q.kind[e] = "timer" /\ q.cb[e] = "close"
    BY <1>0, <1>2 DEF IsSet, Fitted, Sound, Terminal, poller_unset
  <2>2. q.ptr["tty"] = e
    OBVIOUS
  <2> HIDE DEF e
  <2>3. Dropped(q, r, e)
    BY <2>1, RemoveDrops
  <2>4. \A o \in Ptrs : r.ptr[o] = IF o = q.pptr[e] THEN Null ELSE q.ptr[o]
    BY <2>3 DEF Dropped
  <2>5. \A f \in Ev : f # e => /\ r.kind[f] = q.kind[f] /\ r.cb[f] = q.cb[f] /\ r.pptr[f] = q.pptr[f]
                               /\ f \in DOMAIN q.due => f \in DOMAIN r.due
    BY <2>3 DEF Dropped
  <2>6. r.pptr[e] = NoPtr /\ NoPtr \notin Ptrs /\ r.current = q.current
    BY <2>3, EventsAssumption DEF Dropped
  <2>7. /\ e = q.current => r.kind[e] = q.kind[e] /\ r.cb[e] = q.cb[e] /\ r.delete
        /\ e # q.current => r.kind[e] = "free" /\ r.delete = q.delete
    BY <2>3 DEF Dropped
  <2>8. q.ptr \in [Ptrs -> Ev \cup {Null}] /\ q.current \in Ev \cup {Null}
    BY DEF Fitted
  <2>9. \A t \in Timers : q.ptr[t] # e
    BY <1>0, <2>1 DEF Sound, Pointed, Timers
  <2>10. \A t \in Timers : t # "configure" => q.pptr[e] # t
    BY <2>1, <2>9 DEF Sound, Owning
  <2>11. Current(r, FALSE)
    BY <1>0, <2>1, <2>5, <2>6, <2>7, <2>8 DEF Sound, Current
  <2>12. Pointed(r)
    <3> SUFFICES ASSUME NEW u \in Timers, r.ptr[u] # Null
                 PROVE  r.kind[r.ptr[u]] = "timer" /\ r.cb[r.ptr[u]] = u /\ r.pptr[r.ptr[u]] = u
      BY DEF Pointed
    <3>1. r.ptr[u] = q.ptr[u] /\ q.ptr[u] \in Ev /\ q.ptr[u] # e
      BY <1>0, <2>4, <2>8, <2>9
    <3>2. q.kind[q.ptr[u]] = "timer" /\ q.cb[q.ptr[u]] = u /\ q.pptr[q.ptr[u]] = u
      BY <3>1 DEF Sound, Pointed
    <3> QED BY <2>5, <3>1, <3>2
  <2>13. Owning(r)
    <3>1. ASSUME NEW f \in Ev, r.kind[f] = "timer", r.cb[f] \in RenderTimers PROVE r.ptr[r.cb[f]] = f
      <4>1. f # e
        BY <2>1, <2>7, <3>1 DEF RenderTimers
      <4>2. q.ptr[q.cb[f]] = f /\ r.cb[f] = q.cb[f] /\ q.cb[f] \in Timers /\ q.cb[f] # "configure"
        BY <2>5, <3>1, <4>1 DEF Sound, Owning, RenderTimers, Timers
      <4> QED BY <1>0, <2>4, <2>10, <4>2
    <3>2. ASSUME NEW f \in Ev, r.pptr[f] \in (Timers \ {"configure"}) \cup {"tty"}
          PROVE  r.ptr[r.pptr[f]] = f
      <4>1. f # e
        BY <1>0, <2>6, <3>2
      <4>2. q.ptr[q.pptr[f]] = f /\ r.pptr[f] = q.pptr[f] /\ q.pptr[f] \in Ptrs
        BY <1>0, <2>5, <3>2, <4>1 DEF Sound, Owning
      <4>3. q.pptr[f] # "tty"
        BY <2>2, <4>1, <4>2
      <4>4. q.pptr[f] # q.pptr[e]
        BY <2>10, <3>2, <4>2, <4>3
      <4> QED BY <2>4, <4>2, <4>4
    <3> QED BY <3>1, <3>2 DEF Owning
  <2>14. Arming(r)
    BY <2>5, <2>6, <2>7 DEF Sound, Arming
  <2>15. Configures(r) = Configures(q)
    <3>1. e \notin Configures(r) /\ e \notin Configures(q)
      BY <2>1, <2>6, <2>7 DEF Configures
    <3>2. \A f \in Ev : f # e => (f \in Configures(r) <=> f \in Configures(q))
      BY <2>5, <2>6 DEF Configures
    <3>3. Configures(r) \subseteq Ev /\ Configures(q) \subseteq Ev
      BY DEF Configures
    <3> QED BY <3>1, <3>2, <3>3
  <2>16. \A t \in Timers : t # "configure" => Live(r, t) = Live(q, t)
    BY <1>0, <2>4, <2>6, <2>10 DEF Live, IsSet
  <2>17. RenderCount(r) = RenderCount(q) /\ ReadBound(r) = ReadBound(q)
    BY <2>15, <2>16 DEF RenderCount, ReadBound, Timers
  <2>18. q.current # Null => r.kind[q.current] = q.kind[q.current] /\ r.cb[q.current] = q.cb[q.current]
    BY <2>5, <2>7, <2>8
  <2>19. \A f \in Ev : r.pptr[f] # "tty"
    <3> SUFFICES ASSUME NEW f \in Ev, r.pptr[f] = "tty" PROVE FALSE
      OBVIOUS
    <3>1. f # e
      BY <1>0, <2>6
    <3>2. q.pptr[f] = "tty"
      BY <2>5, <3>1
    <3> QED BY <2>2, <3>1, <3>2 DEF Sound, Owning
  <2>20. fd => r.ptr["tty"] = Null
    BY <1>0, <2>1, <2>4
  <2>21. Untied(r)
    BY <2>11, <2>12, <2>13, <2>14, <2>15 DEF Untied, Sound
  <2> QED BY <2>6, <2>17, <2>18, <2>19, <2>20, <2>21 DEF Beside
<1> QED BY <1>1, <1>2

(* The timer that closes the window                                        *)
LEMMA AddCloser ==
    ASSUME NEW q, Fitted(q), Untied(q), \A f \in Ev : q.pptr[f] # "tty", CanAlloc(q), OnExit = "close",
           NEW r, r = [poller_add_timer(q, "close", 0) EXCEPT !.ptr["tty"] = alloc_event(q)]
    PROVE  Follows(q, r) /\ Sound(r, FALSE) /\ Beside(q, r)
<1> DEFINE e == alloc_event(q)
           a == poller_add_timer(q, "close", 0)
<1>0. "tty" \in Ptrs /\ "tty" \notin Timers /\ Null \notin Ev /\ Timers \subseteq Ptrs
      /\ NoPtr \notin Ptrs /\ "close" \notin Timers
  BY WindowLoopAssumption, EventsAssumption DEF Timers
<1>1. Added(q, a, e, "close") /\ DOMAIN a = Fields /\ a.pptr = q.pptr /\ a.ptr = q.ptr /\ e \in Ev
  BY AddTimer, AllocIsFree
<1> HIDE DEF a, e
<1>2. /\ Added(q, r, e, "close") /\ DOMAIN r = Fields /\ r.pptr = q.pptr
      /\ r.ptr = [q.ptr EXCEPT !["tty"] = e]
  BY <1>1 DEF Added, Fields, a, e
<1>3. q.pptr \in [Ev -> Ptrs \cup {NoPtr}] /\ q.ptr \in [Ptrs -> Ev \cup {Null}]
      /\ q.kind \in [Ev -> EventKinds] /\ DOMAIN q.cb = Ev /\ q.current \in Ev \cup {Null}
  BY DEF Fitted
<1>4. Follows(q, r)
  <2>1. r.pptr \in [Ev -> Ptrs \cup {NoPtr}] /\ r.ptr \in [Ptrs -> Ev \cup {Null}]
    BY <1>0, <1>1, <1>2, <1>3
  <2> QED BY <1>1, <1>2, <2>1, AddFitted
<1>5. /\ q.kind[e] = "free" /\ r.kind[e] = "timer" /\ r.cb[e] = "close"
      /\ \A f \in Ev : f # e => r.kind[f] = q.kind[f] /\ r.cb[f] = q.cb[f]
      /\ r.ptr["tty"] = e /\ \A t \in Timers : r.ptr[t] = q.ptr[t]
      /\ DOMAIN r.due = DOMAIN q.due \cup {e}
      /\ r.current = q.current /\ r.delete = q.delete
  BY <1>0, <1>1, <1>2, <1>3 DEF Added
<1>6. q.current # e
  BY <1>0, <1>1, <1>5 DEF Untied, Current
<1>7. Current(r, FALSE)
  BY <1>0, <1>2, <1>3, <1>5, <1>6 DEF Untied, Current
<1>8. Pointed(r)
  <2> SUFFICES ASSUME NEW u \in Timers, r.ptr[u] # Null
               PROVE  r.kind[r.ptr[u]] = "timer" /\ r.cb[r.ptr[u]] = u /\ r.pptr[r.ptr[u]] = u
    BY DEF Pointed
  <2>1. r.ptr[u] = q.ptr[u] /\ q.ptr[u] \in Ev
    BY <1>0, <1>3, <1>5
  <2>2. q.kind[q.ptr[u]] = "timer" /\ q.cb[q.ptr[u]] = u /\ q.pptr[q.ptr[u]] = u
    BY <2>1 DEF Untied, Pointed
  <2>3. q.ptr[u] # e
    BY <1>5, <2>2
  <2> QED BY <1>2, <1>5, <2>1, <2>2, <2>3
<1>9. Owning(r)
  <2>1. ASSUME NEW f \in Ev, r.kind[f] = "timer", r.cb[f] \in RenderTimers PROVE r.ptr[r.cb[f]] = f
    <3>1. f # e
      BY <1>5, <2>1 DEF RenderTimers
    <3>2. q.ptr[q.cb[f]] = f /\ r.cb[f] = q.cb[f] /\ q.cb[f] \in Timers
      BY <1>5, <2>1, <3>1 DEF Untied, Owning, RenderTimers, Timers
    <3> QED BY <1>5, <3>2
  <2>2. ASSUME NEW f \in Ev, r.pptr[f] \in (Timers \ {"configure"}) \cup {"tty"}
        PROVE  r.ptr[r.pptr[f]] = f
    <3>1. q.pptr[f] # "tty" /\ r.pptr[f] = q.pptr[f]
      BY <1>2
    <3>2. q.ptr[q.pptr[f]] = f
      BY <2>2, <3>1 DEF Untied, Owning
    <3> QED BY <1>5, <2>2, <3>1, <3>2
  <2> QED BY <2>1, <2>2 DEF Owning
<1>10. Arming(r)
  BY <1>5 DEF Untied, Arming
<1>11. Terminal(r, FALSE)
  BY <1>5 DEF Terminal
<1>12. Configures(r) = Configures(q)
  <2>1. e \notin Configures(r) /\ e \notin Configures(q)
    BY <1>5 DEF Configures
  <2>2. \A f \in Ev : f # e => (f \in Configures(r) <=> f \in Configures(q))
    BY <1>5 DEF Configures
  <2>3. Configures(r) \subseteq Ev /\ Configures(q) \subseteq Ev
    BY DEF Configures
  <2> QED BY <2>1, <2>2, <2>3
<1>13. \A t \in Timers : Live(r, t) = Live(q, t)
  BY <1>5 DEF Live, IsSet
<1>14. RenderCount(r) = RenderCount(q) /\ ReadBound(r) = ReadBound(q)
  BY <1>12, <1>13 DEF RenderCount, ReadBound, Timers
<1>15. q.current # Null => r.kind[q.current] = q.kind[q.current] /\ r.cb[q.current] = q.cb[q.current]
  BY <1>3, <1>5, <1>6
<1>16. Sound(r, FALSE)
  BY <1>7, <1>8, <1>9, <1>10, <1>11, <1>12 DEF Sound, Untied
<1> QED BY <1>4, <1>5, <1>14, <1>15, <1>16 DEF Beside

(* tty_hang() keeps the types.                                             *)
LEMMA tty_hang_Types ==
    ASSUME NEW s, Types(s), NEW r, r = tty_hang(s)
    PROVE  /\ Types(r) /\ Follows(s.p, r.p)
           /\ r.p = poller_unset(s.p, "tty") /\ r.fd = FALSE
           /\ r.rn = s.rn /\ r.rd = s.rd /\ r.gone = s.gone
<1> DEFINE q == poller_unset(s.p, "tty")
<1>1. Fitted(s.p) /\ "tty" \in Ptrs
  BY WindowLoopAssumption DEF Types
<1>2. Follows(s.p, q)
  BY <1>1, UnsetFitted
<1>3. r = [s EXCEPT !.fd = FALSE, !.child = FALSE, !.p = q]
  BY DEF tty_hang
<1> HIDE DEF q
<1>4. Fitted(q)
  BY <1>2 DEF Follows
<1>5. /\ DOMAIN r = ProcessFields
      /\ r.p = q /\ r.fd = FALSE /\ r.child = FALSE
      /\ r.rd = s.rd /\ r.rn = s.rn /\ r.any = s.any /\ r.force = s.force /\ r.gone = s.gone
      /\ r.req = s.req /\ r.buf = s.buf /\ r.fresh = s.fresh
      /\ r.had = s.had /\ r.out = s.out /\ r.slave = s.slave /\ r.proc = s.proc
  BY <1>3 DEF Types, ProcessFields
<1> QED BY <1>2, <1>4, <1>5 DEF Types, q

(* tty_hang() keeps the counters right.                                    *)
LEMMA tty_hang_Does ==
    ASSUME NEW s, Ok(s), s.fd \/ OnExit = "keep", NEW r, r = tty_hang(s)
    PROVE  Does(s, r)
<1>1. Types(s) /\ Fitted(s.p) /\ s.fd \in BOOLEAN
  BY DEF Ok, Right, Steady, Types
<1>2. /\ Types(r) /\ Follows(s.p, r.p)
      /\ r.p = poller_unset(s.p, "tty") /\ r.fd = FALSE
      /\ r.rn = s.rn /\ r.rd = s.rd /\ r.gone = s.gone
  BY <1>1, tty_hang_Types
<1>3. ASSUME Alive(r) PROVE Alive(s) /\ Sound(r.p, FALSE) /\ Counted(r, 0) /\ Beside(s.p, r.p)
  <2>1. Alive(s)
    BY <1>2, <1>3 DEF Alive, Follows
  <2>2. Sound(s.p, s.fd) /\ s.rn = RenderCount(s.p)
    BY <2>1 DEF Ok, Right, Steady, Counted
  <2>3. Untied(r.p) /\ Beside(s.p, r.p) /\ (s.fd => r.p.ptr["tty"] = Null)
    BY <1>1, <1>2, <2>2, UnsetTerminal
  <2>4. ~ s.fd => r.p.ptr["tty"] = Null
    BY <1>2, <2>2, WindowLoopAssumption DEF Sound, Terminal, poller_unset, IsSet
  <2>5. Sound(r.p, FALSE)
    BY <2>3, <2>4 DEF Sound, Untied, Terminal
  <2> QED BY <1>2, <2>1, <2>2, <2>3, <2>5 DEF Counted, Beside
<1>4. Step(s, r)
  BY <1>2, <1>3 DEF Step, Follows, Beside
<1> QED BY <1>2, <1>3, <1>4, StillCalm DEF Does, Ok, Right, Steady

----------------------------------------------------------------------------
(* term_read() and term_hang()                                             *)

(* tty_refill() keeps the counters right.                                  *)
LEMMA tty_refill_Does ==
    ASSUME NEW s, Ok(s), NEW r, r = tty_refill(s)
    PROVE  Does(s, r)
<1>1. Types(s) /\ s.buf \in Seq(Output) /\ s.out \in Seq(Commands)
  BY DEF Ok, Right, Steady, Types
<1>2. CASE ~ s.fd
  BY <1>2 DEF tty_refill, Does, Step
<1>3. CASE s.fd /\ s.out # <<>>
  <2>1. s.buf \o s.out \in Seq(Output)
    BY <1>1 DEF Output
  <2>2. r = [s EXCEPT !.buf = s.buf \o s.out, !.out = <<>>, !.fresh = FALSE]
    BY <1>3 DEF tty_refill
  <2>3. <<>> \in Seq(Commands)
    OBVIOUS
  <2>4. Types(r) /\ Alike(s, r) /\ r.rd = s.rd /\ r.rn = s.rn
    BY <1>1, <2>1, <2>2, <2>3 DEF Types, Alike, ProcessFields
  <2> QED BY <2>4, AlikeDoes
<1>4. CASE s.fd /\ s.out = <<>> /\ (~ s.slave \/ (~ s.child /\ ~ s.fresh))
  BY <1>4, tty_hang_Does DEF tty_refill
<1>5. CASE s.fd /\ s.out = <<>> /\ ~ (~ s.slave \/ (~ s.child /\ ~ s.fresh))
  <2>1. PICK b \in BOOLEAN : b = (s.buf = <<>>)
    OBVIOUS
  <2>2. r = [s EXCEPT !.fresh = b]
    BY <1>5, <2>1 DEF tty_refill
  <2>3. Types(r) /\ Alike(s, r) /\ r.rd = s.rd /\ r.rn = s.rn
    BY <1>1, <2>2 DEF Types, Alike, ProcessFields
  <2> QED BY <2>3, AlikeDoes
<1> QED BY <1>2, <1>3, <1>4, <1>5

(* term_read() keeps the counters right.                                   *)
LEMMA term_read_Does ==
    ASSUME NEW s, Ok(s), NEW r, r = term_read(s)
    PROVE  Does(s, r)
<1>1. Does(s, tty_refill(s))
  BY tty_refill_Does
<1>2. Does(tty_refill(s), do_read(tty_refill(s)))
  BY <1>1, do_read_Does DEF Does
<1> QED BY <1>1, <1>2, DoesTwice DEF term_read

(* while (term_read(term)) makes steps, as do_read() does                  *)
LEMMA AllRuns ==
    ASSUME NEW s, s.buf \in Seq(Output), s.out \in Seq(Commands)
    PROVE  \E n \in Nat : \E g :
             /\ g[0] = [s |-> s, more |-> TRUE]
             /\ \A i \in 1 .. n : g[i] = ReadOnce(g[i - 1])
             /\ ReadAll(s) = g[n].s
<1> DEFINE n == Len(s.out) + Len(s.buf) + 1
           F(g, i) == IF i = 0 THEN [s |-> s, more |-> TRUE] ELSE ReadOnce(g[i - 1])
           S == {m \in Nat : \E g : g = [i \in 0 .. m |-> F(g, i)]}
           t == CHOOSE g : g = [i \in 0 .. n |-> F(g, i)]
<1>0. n \in Nat
  <2>1. Len(s.out) \in Nat /\ Len(s.buf) \in Nat
    OBVIOUS
  <2>2. \A a \in Nat : \A b \in Nat : a + b + 1 \in Nat
    OBVIOUS
  <2> QED BY <2>1, <2>2
<1>1. ReadAll(s) = t[n].s
  BY DEF ReadAll
<1>2. 0 \in S
  <2> DEFINE g == [i \in 0 .. 0 |-> [s |-> s, more |-> TRUE]]
  <2>1. g = [i \in 0 .. 0 |-> F(g, i)]
    OBVIOUS
  <2> QED BY <2>1
<1>3. ASSUME NEW m \in Nat, m \in S PROVE m + 1 \in S
  <2>1. PICK g : g = [i \in 0 .. m |-> F(g, i)]
    BY <1>3
  <2> DEFINE h == [i \in 0 .. m + 1 |-> IF i = m + 1 THEN F(g, m + 1) ELSE g[i]]
  <2>2. ASSUME NEW i \in 0 .. m + 1 PROVE h[i] = F(h, i)
    <3>1. i # 0 => h[i - 1] = g[i - 1] /\ i - 1 \in 0 .. m
      OBVIOUS
    <3>2. h[i] = IF i = m + 1 THEN F(g, m + 1) ELSE g[i]
      OBVIOUS
    <3>3. i # m + 1 => g[i] = F(g, i)
      <4> HIDE DEF F, h
      <4> QED BY <2>1
    <3> HIDE DEF h
    <3> QED BY <3>1, <3>2, <3>3
  <2>3. h = [i \in 0 .. m + 1 |-> F(h, i)]
    <3> HIDE DEF F
    <3> QED BY <2>2
  <2> HIDE DEF h, F
  <2> QED BY <2>3
<1>4. n \in S
  <2> HIDE DEF S, n
  <2> QED BY <1>0, <1>2, <1>3, Steps
<1>5. t = [i \in 0 .. n |-> F(t, i)]
  <2> HIDE DEF F, n
  <2> QED BY <1>4
<1>6. t[0] = F(t, 0) /\ \A i \in 1 .. n : t[i] = F(t, i)
  <2> HIDE DEF F, t, n
  <2> QED BY <1>0, <1>5
<1> HIDE DEF t, n
<1> QED BY <1>0, <1>1, <1>6

(* Reading until nothing is left keeps the counters right.                 *)
LEMMA ReadAll_Does ==
    ASSUME NEW s, Ok(s), NEW r, r = ReadAll(s)
    PROVE  Does(s, r)
<1>1. s.buf \in Seq(Output) /\ s.out \in Seq(Commands)
  BY DEF Ok, Right, Steady, Types
<1>2. PICK n \in Nat : \E g : /\ g[0] = [s |-> s, more |-> TRUE]
                              /\ \A i \in 1 .. n : g[i] = ReadOnce(g[i - 1])
                              /\ ReadAll(s) = g[n].s
  BY <1>1, AllRuns
<1>3. PICK g : /\ g[0] = [s |-> s, more |-> TRUE]
               /\ \A i \in 1 .. n : g[i] = ReadOnce(g[i - 1])
               /\ ReadAll(s) = g[n].s
  BY <1>2
<1> DEFINE S == {i \in Nat : i <= n => Does(s, g[i].s)}
<1>4. 0 \in S
  BY <1>3 DEF Does, Step
<1>5. ASSUME NEW i \in Nat, i \in S PROVE i + 1 \in S
  <2> SUFFICES ASSUME i + 1 <= n PROVE Does(s, g[i + 1].s)
    OBVIOUS
  <2>1. Does(s, g[i].s)
    BY <1>5
  <2>2. i + 1 \in 1 .. n /\ (i + 1) - 1 = i
    OBVIOUS
  <2>3. g[i + 1] = ReadOnce(g[i])
    BY <1>3, <2>2
  <2>4. CASE g[i].more
    <3>1. g[i + 1].s = term_read(g[i].s)
      BY <2>3, <2>4 DEF ReadOnce
    <3>2. Does(g[i].s, g[i + 1].s)
      BY <2>1, <3>1, term_read_Does DEF Does
    <3> QED BY <2>1, <3>2, DoesTwice
  <2>5. CASE ~ g[i].more
    BY <2>1, <2>3, <2>5 DEF ReadOnce
  <2> QED BY <2>4, <2>5
<1>6. n \in S
  <2> HIDE DEF S
  <2> QED BY <1>4, <1>5, Steps
<1> QED BY <1>3, <1>6

(* The exit message keeps the counters right.                              *)
LEMMA term_inject_string_Does ==
    ASSUME NEW s, Ok(s), NEW r, r = term_inject_string(s)
    PROVE  Does(s, r)
<1> DEFINE t == [s EXCEPT !.buf = Append(s.buf, "text")]
<1>1. Append(s.buf, "text") \in Seq(Output)
  <2>1. s.buf \in Seq(Output) /\ "text" \in Output
    BY DEF Ok, Right, Steady, Types, Output
  <2> QED BY <2>1
<1>2. Types(t) /\ Alike(s, t) /\ t.rd = s.rd /\ t.rn = s.rn
  BY <1>1 DEF Ok, Right, Steady, Types, Alike, ProcessFields
<1>3. r = do_read(t)
  BY DEF term_inject_string
<1> HIDE DEF t
<1>4. Does(s, t)
  BY <1>2, AlikeDoes
<1>5. Does(t, r)
  BY <1>3, <1>4, do_read_Does DEF Does
<1> QED BY <1>4, <1>5, DoesTwice

(* term_hang() keeps the counters right, with either on_exit.              *)
LEMMA term_hang_Does ==
    ASSUME NEW s, Ok(s), NEW r, r = term_hang(s)
    PROVE  Does(s, r)
<1>1. CASE OnExit = "keep" /\ ~ s.fd
  BY <1>1 DEF term_hang, Does, Step
<1>2. CASE OnExit = "keep" /\ s.fd
  <2> DEFINE t == ReadAll(s)
             u == tty_hang(t)
  <2>1. r = term_inject_string(u)
    BY <1>2 DEF term_hang
  <2>2. Does(s, t)
    BY ReadAll_Does
  <2> HIDE DEF t
  <2>3. Does(t, u)
    BY <1>2, <2>2, tty_hang_Does DEF Does
  <2> HIDE DEF u
  <2>4. Does(u, r)
    BY <2>1, <2>3, term_inject_string_Does DEF Does
  <2> QED BY <2>2, <2>3, <2>4, DoesTwice
<1>3. CASE OnExit = "close"
  <2> DEFINE t == tty_hang(s)
             q == [poller_add_timer(t.p, "close", 0) EXCEPT !.ptr["tty"] = alloc_event(t.p)]
  <2>1. r = IF CanAlloc(t.p) THEN [t EXCEPT !.p = q] ELSE Fail(t)
    BY <1>3 DEF term_hang
  <2>2. Types(s) /\ Fitted(s.p) /\ s.fd \in BOOLEAN
    BY DEF Ok, Right, Steady, Types
  <2>3. /\ Types(t) /\ Follows(s.p, t.p) /\ Fitted(t.p)
        /\ t.p = poller_unset(s.p, "tty") /\ t.fd = FALSE
        /\ t.rn = s.rn /\ t.rd = s.rd /\ t.gone = s.gone
    BY <2>2, tty_hang_Types DEF Follows
  <2> HIDE DEF t
  <2>4. CASE ~ CanAlloc(t.p)
    <3>1. r = Fail(t)
      BY <2>1, <2>4
    <3>2. Right(r, 0) /\ ~ Alive(r) /\ Step(t, r)
      BY <2>3, <3>1, FailOk
    <3> QED BY <2>3, <3>2 DEF Does, Ok, Calm, Step, Follows
  <2>5. CASE CanAlloc(t.p)
    <3>1. r = [t EXCEPT !.p = q]
      BY <2>1, <2>5
    <3>2. ASSUME Alive(s)
          PROVE  Sound(q, FALSE) /\ Beside(s.p, q) /\ s.rn = RenderCount(q)
      <4>1. Sound(s.p, s.fd) /\ s.rn = RenderCount(s.p)
        BY <3>2 DEF Ok, Right, Steady, Counted
      <4>2. Untied(t.p) /\ Beside(s.p, t.p) /\ \A f \in Ev : t.p.pptr[f] # "tty"
        BY <2>2, <2>3, <4>1, UnsetTerminal
      <4>3. Sound(q, FALSE) /\ Beside(t.p, q)
        BY <1>3, <2>3, <2>5, <4>2, AddCloser
      <4> QED BY <4>1, <4>2, <4>3 DEF Beside
    <3>3. Follows(t.p, q)
      <4> DEFINE e == alloc_event(t.p)
                 a == poller_add_timer(t.p, "close", 0)
      <4>1. Added(t.p, a, e, "close") /\ DOMAIN a = Fields /\ a.pptr = t.p.pptr /\ a.ptr = t.p.ptr
            /\ e \in Ev
        BY <2>3, <2>5, AddTimer, AllocIsFree
      <4> HIDE DEF a, e
      <4>2. q = [a EXCEPT !.ptr["tty"] = e]
        BY DEF a, e
      <4> HIDE DEF q
      <4>3. Added(t.p, q, e, "close") /\ DOMAIN q = Fields /\ q.pptr = t.p.pptr
            /\ q.ptr = [t.p.ptr EXCEPT !["tty"] = e]
        BY <4>1, <4>2 DEF Added, Fields
      <4>4. q.pptr \in [Ev -> Ptrs \cup {NoPtr}] /\ q.ptr \in [Ptrs -> Ev \cup {Null}]
        BY <2>3, <4>1, <4>3 DEF Fitted
      <4> QED BY <2>3, <4>1, <4>3, <4>4, AddFitted
    <3> HIDE DEF q
    <3>4. Types(r) /\ Else(t, r) /\ r.p = q
      BY <2>3, <3>1, <3>3, WithPoller
    <3>5. Alive(r) => Alive(s)
      BY <2>3, <3>3, <3>4 DEF Alive, Else, Follows
    <3>6. Step(s, r)
      BY <2>3, <3>2, <3>3, <3>4, <3>5 DEF Step, Follows, Beside
    <3>7. Right(r, 0)
      BY <2>3, <3>2, <3>4, <3>5 DEF Right, Steady, Counted, Else
    <3> QED BY <3>6, <3>7, StillCalm DEF Does, Ok
  <2> QED BY <2>4, <2>5
<1> QED BY <1>1, <1>2, <1>3, WindowLoopAssumption

----------------------------------------------------------------------------
(* Callbacks                                                               *)

(* So does what follows a read.                                            *)
LEMMA AfterReadDoes ==
    ASSUME NEW s, Ok(s), NEW more, NEW r, r = AfterRead(s, more)
    PROVE  Does(s, r)
<1> DEFINE t == window_delay_redraw_after_read(s)
<1>1. CASE ~ more
  BY <1>1 DEF AfterRead, Does, Step
<1>2. CASE more
  <2>1. Does(s, t)
    BY window_delay_redraw_after_read_Does
  <2>2. r = [t EXCEPT !.any = TRUE]
    BY <1>2 DEF AfterRead
  <2> HIDE DEF t
  <2>3. Types(r) /\ Alike(t, r) /\ r.rd = t.rd /\ r.rn = t.rn
    BY <2>1, <2>2 DEF Does, Ok, Right, Steady, Types, Alike, ProcessFields
  <2>4. Does(t, r)
    BY <2>1, <2>3, AlikeDoes DEF Does
  <2> QED BY <2>1, <2>4, DoesTwice
<1> QED BY <1>1, <1>2

(* handle_term_read() keeps the counters right.                            *)
LEMMA handle_term_read_Does ==
    ASSUME NEW s, Ok(s), NEW mask, NEW r, r = handle_term_read(s, mask)
    PROVE  Does(s, r)
<1>1. CASE "hup" \in mask
  <2>1. r = AfterRead(term_hang(s), OnExit = "keep")
    BY <1>1 DEF handle_term_read
  <2>2. Does(s, term_hang(s))
    BY term_hang_Does
  <2>3. Does(term_hang(s), r)
    BY <2>1, <2>2, AfterReadDoes DEF Does
  <2> QED BY <2>2, <2>3, DoesTwice
<1>2. CASE "hup" \notin mask
  <2>1. r = AfterRead(term_read(s), Readable(tty_refill(s)))
    BY <1>2 DEF handle_term_read
  <2>2. Does(s, term_read(s))
    BY term_read_Does
  <2>3. Does(term_read(s), r)
    BY <2>1, <2>2, AfterReadDoes DEF Does
  <2> QED BY <2>2, <2>3, DoesTwice
<1> QED BY <1>1, <1>2

(* dec_read_inhibit() after a timer is gone that rd still counts           *)
LEMMA dec_read_inhibit_Does ==
    ASSUME NEW s, Right(s, 1), Calm(s), NEW r, r = dec_read_inhibit(s)
    PROVE  Does(s, r)
<1> DEFINE t == [s EXCEPT !.rd = s.rd - 1]
<1>1. Steady(s) /\ Types(s) /\ s.rd \in Int /\ s.rd - 1 \in Int
  BY DEF Right, Steady, Types
<1>2. Types(t) /\ Alike(s, t) /\ t.rd = s.rd - 1 /\ t.rn = s.rn
  BY <1>1, inc_read_type
<1>3. r = IF t.rd = 0 THEN handle_term_read(tty_toggle_read(t, TRUE), {"in"}) ELSE t
  BY DEF dec_read_inhibit
<1> HIDE DEF t
<1>4. Steady(t) /\ Step(s, t) /\ (Alive(t) <=> Alive(s))
  BY <1>1, <1>2, AlikeSteady
<1>5. ASSUME Alive(t)
      PROVE  /\ t.rn = RenderCount(t.p)
             /\ t.fd => t.rd <= ReadBound(t.p) /\ (Deaf(t.p) <=> t.rd + 1 > 0)
  <2>1. Counted(s, 1)
    BY <1>4, <1>5 DEF Right
  <2>2. ReadBound(s.p) \in Nat
    BY <1>4, <1>5, <1>1, BoundIsNat DEF Steady
  <2> QED BY <1>1, <1>2, <2>1, <2>2 DEF Counted, Alike
<1>6. CASE t.rd = 0
  <2> DEFINE u == tty_toggle_read(t, TRUE)
  <2>1. PICK b \in BOOLEAN : b = TRUE
    OBVIOUS
  <2>2. u = tty_toggle_read(t, b)
    BY <2>1
  <2>3. r = handle_term_read(u, {"in"})
    BY <1>3, <1>6
  <2> HIDE DEF u
  <2>4. /\ Steady(u) /\ Else(t, u) /\ Step(t, u)
        /\ Alive(u) => /\ RenderCount(u.p) = RenderCount(t.p) /\ ReadBound(u.p) = ReadBound(t.p)
                       /\ u.fd => (Deaf(u.p) <=> ~ b)
    BY <1>4, <2>2, ToggleRead
  <2>5. Alive(u) => Counted(u, 0)
    <3> SUFFICES ASSUME Alive(u) PROVE Counted(u, 0)
      OBVIOUS
    <3>1. Alive(t)
      BY <2>4 DEF Step
    <3>2. ReadBound(t.p) \in Nat
      BY <1>4, <3>1, BoundIsNat DEF Steady
    <3> QED BY <1>5, <1>6, <2>1, <2>4, <3>1, <3>2 DEF Counted, Else
  <2>6. Step(s, u)
    BY <1>4, <2>4, StepTwice
  <2>7. Does(s, u)
    BY <2>4, <2>5, <2>6, StillCalm DEF Does, Ok, Right
  <2>8. Does(u, r)
    BY <2>3, <2>7, handle_term_read_Does DEF Does
  <2> QED BY <2>7, <2>8, DoesTwice
<1>7. CASE t.rd # 0
  <2>1. r = t
    BY <1>3, <1>7
  <2>2. Alive(t) => Counted(t, 0)
    <3> SUFFICES ASSUME Alive(t) PROVE Counted(t, 0)
      OBVIOUS
    <3>1. ReadBound(t.p) \in Nat
      BY <1>4, BoundIsNat DEF Steady
    <3> QED BY <1>1, <1>2, <1>5, <1>7, <3>1 DEF Counted
  <2> QED BY <1>4, <2>1, <2>2, StillCalm DEF Does, Ok, Right
<1> QED BY <1>6, <1>7

(* Cancelling a timer that inhibits reading may read the terminal.         *)
LEMMA UnsetInhibitDoes ==
    ASSUME NEW s, Ok(s), NEW t \in ReadTimers, NEW r, r = UnsetInhibit(s, t)
    PROVE  Does(s, r)
<1> DEFINE u == Unset(s, t)
<1>1. Right(s, 0) /\ Steady(s) /\ t \in Timers /\ Movable(s, t) /\ s.rd \in Int
      /\ t \notin RenderTimers
  BY CalmMovable DEF Ok, Right, ReadTimers, Timers, Steady, Types, RenderTimers, Movable
<1>2. Steady(u) /\ Else(s, u) /\ Step(s, u) /\ (Alive(u) => Moved(s.p, u.p, t, 0))
  BY <1>1, Cancel
<1>3. r = IF IsSet(s.p, t) THEN dec_read_inhibit(u) ELSE s
  BY DEF UnsetInhibit, TimerSet
<1> HIDE DEF u
<1>4. CASE ~ IsSet(s.p, t)
  BY <1>3, <1>4 DEF Does, Step
<1>5. CASE IsSet(s.p, t)
  <2>1. ASSUME Alive(u) PROVE Counted(u, 1)
    <3>1. Alive(s) /\ Moved(s.p, u.p, t, 0)
      BY <1>2, <2>1 DEF Step
    <3>2. Sound(s.p, s.fd) /\ Counted(s, 0)
      BY <1>1, <3>1 DEF Right, Steady
    <3>3. RenderCount(u.p) = RenderCount(s.p) /\ (Deaf(u.p) <=> Deaf(s.p))
      BY <1>1, <3>1, Recount
    <3>4. ReadBound(s.p) \in Nat /\ Live(s.p, t) \in {0, 1}
      BY <3>2, BoundIsNat DEF Live
    <3>5. ReadBound(u.p) = ReadBound(s.p) + 0 - Live(s.p, t)
      BY <3>1 DEF Moved
    <3> QED BY <1>1, <1>2, <3>2, <3>3, <3>4, <3>5 DEF Counted, Else
  <2>2. Right(u, 1) /\ Calm(u)
    BY <1>2, <2>1, StillCalm DEF Right, Ok
  <2>3. Does(u, r)
    BY <1>3, <1>5, <2>2, dec_read_inhibit_Does
  <2> QED BY <1>2, <2>3, StepTwice DEF Does
<1> QED BY <1>4, <1>5

(* Cancelling a timer that inhibits redrawing counts it no more.           *)
LEMMA UnsetRenderDoes ==
    ASSUME NEW s, Ok(s), NEW t \in RenderTimers, NEW r, r = UnsetRender(s, t)
    PROVE  Does(s, r)
<1>1. Right(s, 0) /\ Movable(s, t)
  BY CalmMovable DEF Ok, Right, RenderTimers, Timers
<1> QED BY <1>1, UnsetRenderRight, StillCalm DEF Does, Ok

(* Cancelling the timer read keeps the counters right.                     *)
LEMMA UnsetReadDoes ==
    ASSUME NEW s, Ok(s), NEW r, r = Unset(s, "read")
    PROVE  Does(s, r)
<1>1. Right(s, 0) /\ Steady(s) /\ Movable(s, "read") /\ "read" \in Timers
      /\ "read" \notin RenderTimers /\ "read" \notin ReadTimers
  BY CalmMovable DEF Ok, Right, Timers, RenderTimers, ReadTimers
<1>2. Steady(r) /\ Else(s, r) /\ Step(s, r) /\ (Alive(r) => Moved(s.p, r.p, "read", 0))
  BY <1>1, Cancel
<1>3. ASSUME Alive(r) PROVE Counted(r, 0)
  <2>1. Alive(s) /\ Moved(s.p, r.p, "read", 0) /\ Counted(s, 0)
    BY <1>1, <1>2, <1>3 DEF Step, Right
  <2>2. RenderCount(r.p) = RenderCount(s.p) /\ (Deaf(r.p) <=> Deaf(s.p))
    BY <1>1, <2>1, Recount
  <2>3. ReadBound(r.p) = ReadBound(s.p)
    BY <1>1, <2>1 DEF Moved
  <2> QED BY <1>2, <2>1, <2>2, <2>3 DEF Counted, Else
<1> QED BY <1>2, <1>3, StillCalm DEF Does, Ok, Right

(* handle_resize() keeps the counters right.                               *)
LEMMA handle_resize_Does ==
    ASSUME NEW s, Ok(s), NEW r, r = handle_resize(s)
    PROVE  Does(s, r)
<1> DEFINE t == IF s.req THEN UnsetInhibit(term_read(s), "configure") ELSE s
           u == window_delay_redraw(t)
           v == [u EXCEPT !.req = FALSE]
<1>1. Does(s, t)
  <2>1. CASE s.req
    <3>1. Does(s, term_read(s))
      BY term_read_Does
    <3>2. Does(term_read(s), t)
      BY <2>1, <3>1, UnsetInhibitDoes DEF Does, ReadTimers
    <3> QED BY <3>1, <3>2, DoesTwice
  <2>2. CASE ~ s.req
    BY <2>2 DEF Does, Step
  <2> QED BY <2>1, <2>2
<1>2. r = window_delay_redraw_after_read(v)
  BY DEF handle_resize
<1> HIDE DEF t
<1>3. Does(t, u)
  BY <1>1, window_delay_redraw_Does DEF Does
<1> HIDE DEF u
<1>4. Types(v) /\ Alike(u, v) /\ v.rd = u.rd /\ v.rn = u.rn
  BY <1>3 DEF Does, Ok, Right, Steady, Types, Alike, ProcessFields
<1> HIDE DEF v
<1>5. Does(u, v)
  BY <1>3, <1>4, AlikeDoes DEF Does
<1>6. Does(v, r)
  BY <1>2, <1>5, window_delay_redraw_after_read_Does DEF Does
<1> QED BY <1>1, <1>3, <1>5, <1>6, DoesTwice

(* reload_window() keeps the counters right.                               *)
LEMMA reload_window_Does ==
    ASSUME NEW s, Ok(s), NEW r, r = reload_window(s)
    PROVE  Does(s, r)
<1> DEFINE a == UnsetInhibit(s, "smooth")
           b == UnsetInhibit(a, "configure")
           c == UnsetRender(b, "sync")
           d == window_reset_delayed_redraw(c)
           e == Unset(d, "read")
<1>1. Does(s, a)
  BY UnsetInhibitDoes DEF ReadTimers
<1>2. r = [e EXCEPT !.force = TRUE]
  BY DEF reload_window
<1> HIDE DEF a
<1>3. Does(a, b)
  BY <1>1, UnsetInhibitDoes DEF ReadTimers, Does
<1> HIDE DEF b
<1>4. Does(b, c)
  BY <1>3, UnsetRenderDoes DEF RenderTimers, Does
<1> HIDE DEF c
<1>5. Does(c, d)
  BY <1>4, ResetDoes DEF Does
<1> HIDE DEF d
<1>6. Does(d, e)
  BY <1>5, UnsetReadDoes DEF Does
<1> HIDE DEF e
<1>7. Types(r) /\ Alike(e, r) /\ r.rd = e.rd /\ r.rn = e.rn
  BY <1>2, <1>6 DEF Does, Ok, Right, Steady, Types, Alike, ProcessFields
<1>8. Does(e, r)
  BY <1>6, <1>7, AlikeDoes DEF Does
<1>9. Does(s, d)
  BY <1>1, <1>3, <1>4, <1>5, DoesTwice
<1> QED BY <1>6, <1>8, <1>9, DoesTwice

(* Of a window that is freed the types are left.                           *)
LEMMA UnsetTypes ==
    ASSUME NEW s, Types(s), NEW t \in Timers, NEW r, r = Unset(s, t)
    PROVE  Types(r) /\ Follows(s.p, r.p) /\ r.gone = s.gone
<1>1. Fitted(s.p) /\ t \in Ptrs
  BY WindowLoopAssumption DEF Types
<1>2. Follows(s.p, poller_unset(s.p, t)) /\ r = [s EXCEPT !.p = poller_unset(s.p, t)]
  BY <1>1, UnsetFitted DEF Unset
<1> QED BY <1>2, WithPoller DEF Else

(* free_window() keeps the types; nothing else is said after it.           *)
LEMMA free_window_Does ==
    ASSUME NEW s, Types(s), NEW r, r = free_window(s)
    PROVE  Does(s, r)
<1> DEFINE a == Unset(s, "frame")
           b == Unset(a, "smooth")
           c == Unset(b, "sync")
           d == Unset(c, "configure")
           e == Unset(d, "read")
           f == Unset(e, "redraw")
           h == tty_hang(f)
<1>1. r = [h EXCEPT !.gone = TRUE]
  BY DEF free_window, UnsetAll
<1>2. Types(a) /\ Follows(s.p, a.p)
  BY UnsetTypes DEF Timers
<1> HIDE DEF a
<1>3. Types(b) /\ Follows(a.p, b.p)
  BY <1>2, UnsetTypes DEF Timers
<1> HIDE DEF b
<1>4. Types(c) /\ Follows(b.p, c.p)
  BY <1>3, UnsetTypes DEF Timers
<1> HIDE DEF c
<1>5. Types(d) /\ Follows(c.p, d.p)
  BY <1>4, UnsetTypes DEF Timers
<1> HIDE DEF d
<1>6. Types(e) /\ Follows(d.p, e.p)
  BY <1>5, UnsetTypes DEF Timers
<1> HIDE DEF e
<1>7. Types(f) /\ Follows(e.p, f.p)
  BY <1>6, UnsetTypes DEF Timers
<1> HIDE DEF f
<1>8. Types(h) /\ Follows(f.p, h.p)
  BY <1>7, tty_hang_Types
<1> HIDE DEF h
<1>9. Follows(s.p, h.p)
  <2>1. Follows(s.p, d.p)
    BY <1>2, <1>3, <1>4, <1>5, FollowsTwice
  <2> QED BY <2>1, <1>6, <1>7, <1>8, FollowsTwice
<1>10. Types(r) /\ r.p = h.p /\ r.gone = TRUE
  BY <1>1, <1>8 DEF Types, ProcessFields
<1> QED BY <1>9, <1>10 DEF Does, Ok, Right, Steady, Calm, Step, Alive, Follows

(* Every event of the X server keeps the counters right.                   *)
LEMMA XEventDoes ==
    ASSUME NEW s, Ok(s), NEW e \in XEvents, NEW r, r = XEvent(s, e)
    PROVE  Does(s, r)
<1> DEFINE t == [s EXCEPT !.any = TRUE]
<1>1. CASE s.gone
  BY <1>1 DEF XEvent, Does, Step
<1>2. CASE ~ s.gone
  <2>1. r = CASE e = "resize" -> handle_resize(t)
              [] e = "other"  -> t
              [] e = "delete" -> free_window(t)
              [] e = "reload" -> reload_window(t)
    BY <1>2 DEF XEvent
  <2>2. Types(t) /\ Alike(s, t) /\ t.rd = s.rd /\ t.rn = s.rn
    BY DEF Ok, Right, Steady, Types, Alike, ProcessFields
  <2> HIDE DEF t
  <2>3. Does(s, t)
    BY <2>2, AlikeDoes
  <2>4. e \in {"resize", "other", "delete", "reload"}
    BY WindowLoopAssumption
  <2>5. CASE e = "resize"
    <3>1. Does(t, r)
      BY <2>1, <2>3, <2>5, handle_resize_Does DEF Does
    <3> QED BY <2>3, <3>1, DoesTwice
  <2>6. CASE e = "other"
    BY <2>1, <2>3, <2>6
  <2>7. CASE e = "delete"
    <3>1. r = free_window(t)
      BY <2>1, <2>7
    <3>2. Does(t, r)
      BY <2>2, <3>1, free_window_Does
    <3> QED BY <2>3, <3>2, DoesTwice
  <2>8. CASE e = "reload"
    <3>1. Does(t, r)
      BY <2>1, <2>3, <2>8, reload_window_Does DEF Does
    <3> QED BY <2>3, <3>1, DoesTwice
  <2> QED BY <2>4, <2>5, <2>6, <2>7, <2>8
<1> QED BY <1>1, <1>2

(* The loop over the events is a function that exists.                     *)
LEMMA EventsRun ==
    ASSUME NEW s, NEW events \in Seq(XEvents)
    PROVE  \E g : /\ g[0] = s
                  /\ \A i \in 1 .. Len(events) : g[i] = XEvent(g[i - 1], events[i])
                  /\ HandleEvents(s, events) = g[Len(events)]
<1> DEFINE n == Len(events)
           F(g, i) == IF i = 0 THEN s ELSE XEvent(g[i - 1], events[i])
           S == {m \in Nat : \E g : g = [i \in 0 .. m |-> F(g, i)]}
           t == CHOOSE g : g = [i \in 0 .. n |-> F(g, i)]
<1>0. n \in Nat
  OBVIOUS
<1>1. HandleEvents(s, events) = t[n]
  BY DEF HandleEvents
<1>2. 0 \in S
  <2> DEFINE g == [i \in 0 .. 0 |-> s]
  <2>1. g = [i \in 0 .. 0 |-> F(g, i)]
    OBVIOUS
  <2> QED BY <2>1
<1>3. ASSUME NEW m \in Nat, m \in S PROVE m + 1 \in S
  <2>1. PICK g : g = [i \in 0 .. m |-> F(g, i)]
    BY <1>3
  <2> DEFINE h == [i \in 0 .. m + 1 |-> IF i = m + 1 THEN F(g, m + 1) ELSE g[i]]
  <2>2. ASSUME NEW i \in 0 .. m + 1 PROVE h[i] = F(h, i)
    <3>1. i # 0 => h[i - 1] = g[i - 1] /\ i - 1 \in 0 .. m
      OBVIOUS
    <3>2. h[i] = IF i = m + 1 THEN F(g, m + 1) ELSE g[i]
      OBVIOUS
    <3>3. i # m + 1 => g[i] = F(g, i)
      <4> HIDE DEF F, h
      <4> QED BY <2>1
    <3> HIDE DEF h
    <3> QED BY <3>1, <3>2, <3>3
  <2>3. h = [i \in 0 .. m + 1 |-> F(h, i)]
    <3> HIDE DEF F
    <3> QED BY <2>2
  <2> HIDE DEF h, F
  <2> QED BY <2>3
<1>4. n \in S
  <2> HIDE DEF S
  <2> QED BY <1>0, <1>2, <1>3, Steps
<1>5. t = [i \in 0 .. n |-> F(t, i)]
  BY <1>4
<1>6. t[0] = F(t, 0) /\ \A i \in 1 .. n : t[i] = F(t, i)
  <2> HIDE DEF F, t
  <2> QED BY <1>0, <1>5
<1> HIDE DEF t
<1> QED BY <1>1, <1>6

(* Any sequence of events keeps the counters right.                        *)
LEMMA HandleEventsDoes ==
    ASSUME NEW s, Ok(s), NEW events \in Seq(XEvents), NEW r, r = HandleEvents(s, events)
    PROVE  Does(s, r)
<1>1. Len(events) \in Nat
  OBVIOUS
<1>2. PICK g : /\ g[0] = s
               /\ \A i \in 1 .. Len(events) : g[i] = XEvent(g[i - 1], events[i])
               /\ HandleEvents(s, events) = g[Len(events)]
  BY EventsRun
<1> DEFINE S == {i \in Nat : i <= Len(events) => Does(s, g[i])}
<1>3. 0 \in S
  BY <1>2 DEF Does, Step
<1>4. ASSUME NEW i \in Nat, i \in S PROVE i + 1 \in S
  <2> SUFFICES ASSUME i + 1 <= Len(events) PROVE Does(s, g[i + 1])
    OBVIOUS
  <2>1. Does(s, g[i])
    BY <1>1, <1>4
  <2>2. i + 1 \in 1 .. Len(events) /\ (i + 1) - 1 = i
    BY <1>1
  <2>3. g[i + 1] = XEvent(g[i], events[i + 1]) /\ events[i + 1] \in XEvents
    BY <1>1, <1>2, <2>2
  <2>4. Does(g[i], g[i + 1])
    BY <2>1, <2>3, XEventDoes DEF Does
  <2> QED BY <2>1, <2>4, DoesTwice
<1>5. Len(events) \in S
  <2> HIDE DEF S
  <2> QED BY <1>1, <1>3, <1>4, Steps
<1> QED BY <1>1, <1>2, <1>5

----------------------------------------------------------------------------
(* What poller_run() does around callbacks                                 *)

(* Nothing but flags, times, events of descriptors and fields that do not  *)
(* matter changes.                                                         *)
LEMMA SameRight ==
    ASSUME NEW s, Right(s, 0), NEW r, Types(r),
           r.gone = s.gone, r.fd = s.fd, r.rd = s.rd, r.rn = s.rn,
           Same(s.p, r.p), Len(r.p.pollfd) = Len(s.p.pollfd),
           \A i \in DOMAIN s.p.pollfd : r.p.pollfd[i].mask = s.p.pollfd[i].mask
    PROVE  Right(r, 0) /\ Step(s, r)
<1>1. Alive(r) <=> Alive(s)
  BY DEF Alive, Same
<1>2. Step(s, r)
  BY <1>1 DEF Step, Same
<1>3. ASSUME Alive(r) PROVE Sound(r.p, r.fd) /\ Counted(r, 0)
  <2>1. Sound(s.p, s.fd) /\ Counted(s, 0)
    BY <1>1, <1>3 DEF Right, Steady
  <2>2. /\ Sound(r.p, s.fd) /\ ReadBound(r.p) = ReadBound(s.p)
        /\ RenderCount(r.p) = RenderCount(s.p)
    BY <2>1, SameSound DEF RenderCount
  <2>3. ASSUME s.fd PROVE Deaf(r.p) <=> Deaf(s.p)
    <3> DEFINE e == s.p.ptr["tty"]
    <3>1. s.fd = TRUE
      BY <2>3 DEF Right, Steady, Types
    <3>2. Sound(s.p, TRUE) /\ Sound(r.p, TRUE) /\ e = r.p.ptr["tty"] /\ e = s.p.ptr["tty"]
      BY <2>1, <2>2, <3>1 DEF Same
    <3> HIDE DEF e
    <3>3. /\ SlotOf(s.p, e) \in DOMAIN s.p.pollfd
          /\ \A j \in DOMAIN s.p.pollfd : s.p.pollfd[j].evt = e <=> j = SlotOf(s.p, e)
      BY <3>2, SlotOfTerminal
    <3>4. /\ SlotOf(r.p, e) \in DOMAIN r.p.pollfd
          /\ \A j \in DOMAIN r.p.pollfd : r.p.pollfd[j].evt = e <=> j = SlotOf(r.p, e)
      BY <3>2, SlotOfTerminal
    <3>5. SlotOf(r.p, e) = SlotOf(s.p, e)
      BY <3>3, <3>4 DEF Same
    <3> QED BY <3>2, <3>3, <3>5 DEF Deaf, poller_fd_get_mask
  <2> QED BY <2>1, <2>2, <2>3 DEF Counted
<1> QED BY <1>2, <1>3 DEF Right, Steady

(* ppoll() changes nothing that is counted.                                *)
LEMMA PolledSame ==
    ASSUME NEW q, Fitted(q), NEW ready, NEW d, NEW r, r = Polled(q, ready, d)
    PROVE  /\ Follows(q, r) /\ Same(q, r)
           /\ \A i \in DOMAIN q.pollfd : r.pollfd[i].mask = q.pollfd[i].mask
<1> DEFINE R(i) == IF q.pollfd[i].on
                   THEN ready[q.pollfd[i].file] \cap (q.pollfd[i].mask \cup {"hup"}) ELSE {}
           a == [i \in DOMAIN q.pollfd |-> [q.pollfd[i] EXCEPT !.revents = R(i)]]
<1>1. r = [q EXCEPT !.skip = FALSE, !.pollfd = a, !.due = [e \in DOMAIN q.due |-> q.due[e] - d]]
  BY DEF Polled
<1>2. /\ DOMAIN a = DOMAIN q.pollfd
      /\ \A i \in DOMAIN q.pollfd : IsSlot(a[i]) /\ a[i].evt = q.pollfd[i].evt
                                    /\ a[i].mask = q.pollfd[i].mask
  <2> HIDE DEF R
  <2> QED BY DEF Fitted, Slotted, IsSlot, SlotFields
<1>3. IsSeq(a) /\ Len(a) = Len(q.pollfd)
  <2>1. IsSeq(q.pollfd)
    BY DEF Fitted, Slotted
  <2>2. DOMAIN a = DOMAIN q.pollfd /\ a = [i \in DOMAIN q.pollfd |-> a[i]]
    OBVIOUS
  <2> HIDE DEF a
  <2> QED BY <2>1, <2>2, ExceptIsSeq
<1> HIDE DEF a
<1>4. /\ DOMAIN r = Fields
      /\ r.kind = q.kind /\ r.cb = q.cb /\ r.pptr = q.pptr /\ r.ptr = q.ptr
      /\ DOMAIN r.due = DOMAIN q.due /\ r.current = q.current /\ r.delete = q.delete
      /\ r.failed = q.failed /\ r.pollfd = a
  BY <1>1 DEF Fitted, Fields
<1> QED BY <1>2, <1>3, <1>4 DEF Follows, Fitted, Slotted, Same

(* The callback of a descriptor starts.                                    *)
LEMMA StartFdOk ==
    ASSUME NEW s, Right(s, 0), s.p.current = Null, NEW i \in DOMAIN s.p.pollfd,
           NEW r, r = [s EXCEPT !.p = StartFd(s.p, i)]
    PROVE  Ok(r) /\ Len(r.p.pollfd) = Len(s.p.pollfd)
<1> DEFINE f == s.p.pollfd[i].evt
           c == f # Null /\ s.p.kind[f] = "fd"
           a == Require(s.p, c)
           q == [a EXCEPT !.current = f]
<1>1. Types(s) /\ Fitted(s.p) /\ f \in Ev \cup {Null}
  BY DEF Right, Steady, Types, Fitted, Slotted, IsSlot
<1>2. /\ DOMAIN a = Fields /\ a.kind = s.p.kind /\ a.cb = s.p.cb /\ a.pptr = s.p.pptr
      /\ a.ptr = s.p.ptr /\ a.due = s.p.due /\ a.pollfd = s.p.pollfd /\ a.delete = s.p.delete
      /\ a.failed = (s.p.failed \/ ~ c)
  BY <1>1 DEF Require, Fitted, Fields
<1> HIDE DEF a
<1>3. /\ DOMAIN q = Fields /\ q.kind = s.p.kind /\ q.cb = s.p.cb /\ q.pptr = s.p.pptr
      /\ q.ptr = s.p.ptr /\ q.due = s.p.due /\ q.pollfd = s.p.pollfd /\ q.delete = s.p.delete
      /\ q.failed = (s.p.failed \/ ~ c) /\ q.current = f
  BY <1>2 DEF Fields
<1>4. r = [s EXCEPT !.p = q]
  BY DEF StartFd, a
<1> HIDE DEF q
<1>5. Fitted(q)
  BY <1>1, <1>3 DEF Fitted
<1>6. r.p = q /\ Types(r) /\ r.gone = s.gone /\ r.fd = s.fd /\ r.rd = s.rd /\ r.rn = s.rn
  BY <1>1, <1>4, <1>5 DEF Types, ProcessFields
<1>7. ASSUME Alive(r) PROVE Sound(q, s.fd) /\ Counted(r, 0) /\ s.p.kind[f] = "fd"
  <2>1. Alive(s) /\ c
    BY <1>3, <1>6, <1>7 DEF Alive
  <2>2. Sound(s.p, s.fd) /\ Counted(s, 0)
    BY <2>1 DEF Right, Steady
  <2>3. Current(q, s.fd)
    BY <1>3, <2>1, <2>2 DEF Sound, Current
  <2>4. Pointed(q) /\ Owning(q) /\ Terminal(q, s.fd)
    BY <1>3, <2>2 DEF Sound, Pointed, Owning, Terminal
  <2>5. Arming(q)
    BY <1>3, <2>2, EventsAssumption DEF Sound, Arming
  <2>6. Configures(q) = Configures(s.p)
    <3>1. \A g \in Ev : q.kind[g] = "timer" => g # f /\ g # Null
      BY <1>3, <2>1, EventsAssumption
    <3> QED BY <1>3, <3>1 DEF Configures
  <2>7. \A t \in Timers : Live(q, t) = Live(s.p, t)
    <3> SUFFICES ASSUME NEW t \in Timers, IsSet(s.p, t) PROVE s.p.ptr[t] # f
      BY <1>3 DEF Live, IsSet
    <3> QED BY <2>1, <2>2 DEF Sound, Pointed, IsSet
  <2>8. RenderCount(q) = RenderCount(s.p) /\ ReadBound(q) = ReadBound(s.p)
    BY <2>6, <2>7 DEF RenderCount, ReadBound, Timers
  <2>9. Deaf(q) <=> Deaf(s.p)
    BY <1>3 DEF Deaf, poller_fd_get_mask, SlotOf
  <2> QED BY <1>6, <2>1, <2>2, <2>3, <2>4, <2>5, <2>6, <2>8, <2>9 DEF Sound, Counted
<1>8. Right(r, 0)
  BY <1>6, <1>7 DEF Right, Steady
<1>9. Calm(r)
  BY <1>3, <1>6, <1>7 DEF Calm
<1> QED BY <1>3, <1>6, <1>8, <1>9 DEF Ok

(* It ends: an event that was removed meanwhile is freed.                  *)
LEMMA EndFdRight ==
    ASSUME NEW s, Right(s, 0), NEW i, NEW r, r = [s EXCEPT !.p = EndFd(s.p, i)],
           Alive(s) => s.p.current # Null /\ s.p.kind[s.p.current] = "fd"
    PROVE  Right(r, 0) /\ r.p.current = Null /\ Len(r.p.pollfd) = Len(s.p.pollfd)
<1> DEFINE e == s.p.current
           v == [s.p.pollfd[i] EXCEPT !.revents = {}]
           a == [s.p EXCEPT !.pollfd[i] = v]
           b == IF a.delete THEN [a EXCEPT !.current = Null, !.delete = FALSE]
                ELSE [a EXCEPT !.current = Null]
           q == IF a.delete THEN poller_remove(b, e) ELSE b
<1>1. Types(s) /\ Fitted(s.p)
  BY DEF Right, Steady, Types
<1>2. r = [s EXCEPT !.p = q]
  BY DEF EndFd, Deleted
<1>3. i \in DOMAIN s.p.pollfd => IsSlot(v) /\ v.evt = s.p.pollfd[i].evt /\ v.mask = s.p.pollfd[i].mask
  BY <1>1 DEF Fitted, Slotted, IsSlot, SlotFields
<1> HIDE DEF v
<1>4. /\ DOMAIN a = Fields /\ a.kind = s.p.kind /\ a.cb = s.p.cb /\ a.pptr = s.p.pptr
      /\ a.ptr = s.p.ptr /\ a.due = s.p.due /\ a.delete = s.p.delete /\ a.current = s.p.current
      /\ a.failed = s.p.failed /\ a.pollfd = [s.p.pollfd EXCEPT ![i] = v]
  BY <1>1 DEF Fitted, Fields
<1> HIDE DEF a
<1>5. Slotted(a.pollfd) /\ Len(a.pollfd) = Len(s.p.pollfd)
  <2>1. Slotted(s.p.pollfd) /\ a.pollfd = [s.p.pollfd EXCEPT ![i] = v]
    BY <1>1, <1>4 DEF Fitted
  <2> QED BY <1>3, <2>1, ArrayKept
<1>6. /\ DOMAIN a.pollfd = DOMAIN s.p.pollfd
      /\ \A j \in DOMAIN s.p.pollfd :
           a.pollfd[j].evt = s.p.pollfd[j].evt /\ a.pollfd[j].mask = s.p.pollfd[j].mask
  BY <1>3, <1>4
<1>7. Fitted(a) /\ Same(s.p, a)
  BY <1>1, <1>4, <1>5, <1>6 DEF Fitted, Same
<1>8. /\ DOMAIN b = Fields /\ b.kind = a.kind /\ b.cb = a.cb /\ b.pptr = a.pptr
      /\ b.ptr = a.ptr /\ b.due = a.due /\ b.delete = FALSE /\ b.current = Null
      /\ b.failed = a.failed /\ b.pollfd = a.pollfd
  BY <1>7 DEF Fitted, Fields
<1> HIDE DEF b
<1>9. Fitted(b)
  BY <1>7, <1>8 DEF Fitted
<1>10. e \in Ev \/ e = b.current
  BY <1>1, <1>8 DEF Fitted
<1>11. Follows(b, q)
  <2>1. CASE a.delete
    <3>1. q = poller_remove(b, e)
      BY <2>1
    <3> HIDE DEF e, q
    <3> QED BY <1>9, <1>10, <3>1, RemoveFitted
  <2>2. CASE ~ a.delete
    BY <1>9, <2>2 DEF Follows
  <2> QED BY <2>1, <2>2
<1>12. DOMAIN s = ProcessFields /\ Fitted(q)
  BY <1>1, <1>11 DEF Types, Follows
<1>13. r.p = q /\ Types(r) /\ r.gone = s.gone /\ r.fd = s.fd /\ r.rd = s.rd /\ r.rn = s.rn
  <2> HIDE DEF q
  <2> QED BY <1>1, <1>2, <1>12 DEF Types, ProcessFields
<1>14. q.current = Null /\ Len(q.pollfd) = Len(s.p.pollfd)
  BY <1>5, <1>8, <1>11 DEF Follows
<1>15. ASSUME Alive(r) PROVE Sound(q, s.fd) /\ Counted(r, 0)
  <2>1. Alive(s)
    BY <1>4, <1>8, <1>11, <1>13, <1>15 DEF Alive, Follows
  <2>2. Sound(s.p, s.fd) /\ Counted(s, 0) /\ e \in Ev /\ s.p.kind[e] = "fd"
    BY <1>1, <2>1 DEF Right, Steady, Fitted
  <2>3. Right(s, 0) /\ Sound(a, s.fd) /\ ReadBound(a) = ReadBound(s.p) /\ RenderCount(a) = RenderCount(s.p)
    BY <1>7, <2>2, SameSound DEF RenderCount
  <2>4. s.fd => (Deaf(a) <=> Deaf(s.p))
    <3> DEFINE u == [s EXCEPT !.p = a]
    <3>1. u.p = a /\ Types(u) /\ u.gone = s.gone /\ u.fd = s.fd /\ u.rd = s.rd /\ u.rn = s.rn
      BY <1>1, <1>7 DEF Types, ProcessFields
    <3> HIDE DEF u
    <3>2. Right(u, 0)
      BY <1>5, <1>6, <1>7, <3>1, SameRight
    <3>3. Alive(u)
      BY <2>1, <3>1, <1>4 DEF Alive
    <3> QED BY <2>2, <3>1, <3>2, <3>3 DEF Right, Counted
  <2>5. a.kind[e] = "fd" /\ e = a.current /\ a.failed = s.p.failed
    BY <1>4, <2>2
  <2> HIDE DEF e
  <2>6. \A t \in Timers : a.ptr[t] # Null => a.ptr[t] # e
    BY <2>3, <2>5 DEF Sound, Pointed
  <2>7. CASE ~ a.delete
    <3>1. q = b
      BY <2>7
    <3>2. Current(q, s.fd) /\ Pointed(q) /\ Owning(q) /\ Terminal(q, s.fd)
      BY <1>8, <2>3, <3>1 DEF Sound, Current, Pointed, Owning, Terminal
    <3>3. Arming(q)
      BY <1>8, <2>3, <2>5, <3>1 DEF Sound, Arming
    <3>4. Configures(q) = Configures(a)
      <4>1. \A g \in Ev : a.kind[g] = "timer" => g # e /\ g # Null
        BY <2>5, EventsAssumption
      <4> QED BY <1>8, <2>5, <3>1, <4>1 DEF Configures
    <3>5. \A t \in Timers : Live(q, t) = Live(a, t)
      BY <1>8, <2>5, <2>6, <3>1 DEF Live, IsSet
    <3>6. RenderCount(q) = RenderCount(a) /\ ReadBound(q) = ReadBound(a)
      BY <3>4, <3>5 DEF RenderCount, ReadBound, Timers
    <3>7. Deaf(q) <=> Deaf(a)
      BY <1>8, <3>1 DEF Deaf, poller_fd_get_mask, SlotOf
    <3> QED BY <1>13, <2>2, <2>3, <2>4, <3>2, <3>3, <3>4, <3>6, <3>7 DEF Sound, Counted
  <2>8. CASE a.delete
    <3>1. ~ s.fd /\ a.pptr[e] = NoPtr
      BY <2>3, <2>5, <2>8 DEF Sound, Current
    <3>2. q = poller_remove(b, e)
      BY <2>8
    <3> HIDE DEF q
    <3>3. Dropped(b, q, e)
      BY <1>8, <1>9, <2>2, <2>5, <3>2, RemoveDrops
    <3>4. /\ \A o \in Ptrs : q.ptr[o] = a.ptr[o]
          /\ \A f \in Ev : f # e => /\ q.kind[f] = a.kind[f] /\ q.cb[f] = a.cb[f] /\ q.pptr[f] = a.pptr[f]
                                    /\ f \in DOMAIN a.due => f \in DOMAIN q.due
          /\ q.pptr[e] = NoPtr /\ q.kind[e] = "free" /\ q.current = Null /\ q.delete = FALSE
      <4>1. e # b.current
        BY <1>8, <2>2, EventsAssumption
      <4> QED BY <1>8, <3>1, <3>3, <4>1, EventsAssumption DEF Dropped
    <3>5. \A t \in Timers : q.ptr[t] = a.ptr[t] /\ a.ptr[t] \in Ev \cup {Null}
      BY <1>7, <3>4, WindowLoopAssumption DEF Fitted
    <3>6. Current(q, s.fd)
      BY <3>4 DEF Current
    <3>7. Pointed(q)
      BY <2>3, <2>6, <3>4, <3>5 DEF Sound, Pointed
    <3>8. Owning(q)
      <4>1. \A f \in Ev : q.kind[f] = "timer" /\ q.cb[f] \in RenderTimers => q.ptr[q.cb[f]] = f
        BY <2>3, <3>4, <3>5 DEF Sound, Owning, RenderTimers, Timers
      <4>2. NoPtr \notin Ptrs /\ Timers \cup {"tty"} \subseteq Ptrs
        BY EventsAssumption, WindowLoopAssumption
      <4>3. \A f \in Ev : q.pptr[f] \in (Timers \ {"configure"}) \cup {"tty"} => q.ptr[q.pptr[f]] = f
        BY <2>3, <3>4, <4>2 DEF Sound, Owning
      <4> QED BY <4>1, <4>3 DEF Owning
    <3>9. Arming(q)
      BY <2>3, <2>5, <3>4 DEF Sound, Arming
    <3>10. Terminal(q, s.fd)
      <4>1. q.ptr["tty"] = a.ptr["tty"] /\ a.ptr["tty"] \in Ev \cup {Null}
        BY <1>7, <3>4, WindowLoopAssumption DEF Fitted
      <4> QED BY <2>3, <2>5, <3>1, <3>4, <4>1 DEF Sound, Terminal
    <3>11. Configures(q) = Configures(a)
      <4>1. \A g \in Ev : a.kind[g] = "timer" => g # e /\ g # Null
        BY <2>5, EventsAssumption
      <4>2. \A g \in Ev : g \in Configures(q) <=> g \in Configures(a)
        BY <2>5, <3>4, <4>1 DEF Configures
      <4>3. Configures(q) \subseteq Ev /\ Configures(a) \subseteq Ev
        BY DEF Configures
      <4> QED BY <4>2, <4>3
    <3>12. \A t \in Timers : Live(q, t) = Live(a, t)
      BY <2>5, <2>6, <3>4, <3>5 DEF Live, IsSet
    <3>13. RenderCount(q) = RenderCount(a) /\ ReadBound(q) = ReadBound(a)
      BY <3>11, <3>12 DEF RenderCount, ReadBound, Timers
    <3> QED BY <1>13, <2>2, <2>3, <3>1, <3>6, <3>7, <3>8, <3>9, <3>10, <3>11, <3>13 DEF Sound, Counted
  <2> QED BY <2>7, <2>8
<1> QED BY <1>13, <1>14, <1>15 DEF Right, Steady

(* What a timer with this callback counts among timers ts                  *)
Share(cb, ts) == IF cb \in ts THEN 1 ELSE 0

(* The callback of timer e runs.                                           *)
Running(s, e) ==
    /\ s.p.kind[e] = "timer" /\ s.p.cb[e] \in Timers \cup {"close"}
    /\ s.rn = RenderCount(s.p) + Share(s.p.cb[e], RenderTimers)
    /\ s.fd => /\ s.rd <= ReadBound(s.p) + Share(s.p.cb[e], ReadTimers)
               /\ Deaf(s.p) <=> s.rd > 0

(* Timer e has been started in s, which gave r.                            *)
Started(s, r, e) ==
    /\ Steady(r) /\ r.p.current = e /\ Len(r.p.pollfd) = Len(s.p.pollfd)
    /\ Alive(r) => Running(r, e) /\ r.p.cb[e] = s.p.cb[e]

(* The callback of a timer starts: the timer is not counted any more.      *)
LEMMA StartTimerRight ==
    ASSUME NEW s, Right(s, 0), s.p.current = Null, NEW e \in Ev,
           NEW p, p = StartTimer(s.p, e), NEW r, r = [s EXCEPT !.p = p]
    PROVE  Started(s, r, e)
<1> DEFINE c == s.p.kind[e] = "timer"
           a == Require(s.p, c)
           d == Restrict(a.due, DOMAIN a.due \ {e})
           b == [a EXCEPT !.due = d]
           q == [b EXCEPT !.current = e]
<1>1. Types(s) /\ Fitted(s.p) /\ s.rn \in Int /\ s.rd \in Int
  BY DEF Right, Steady, Types
<1>2. /\ DOMAIN a = Fields /\ a.kind = s.p.kind /\ a.cb = s.p.cb /\ a.pptr = s.p.pptr
      /\ a.ptr = s.p.ptr /\ a.due = s.p.due /\ a.pollfd = s.p.pollfd /\ a.delete = s.p.delete
      /\ a.failed = (s.p.failed \/ ~ c)
  BY <1>1 DEF Require, Fitted, Fields
<1>3. r = [s EXCEPT !.p = q]
  BY DEF StartTimer, heap_remove
<1>4. DOMAIN d = DOMAIN s.p.due \ {e}
  BY <1>2 DEF Restrict
<1> HIDE DEF a, d
<1>5. /\ DOMAIN b = Fields /\ b.kind = s.p.kind /\ b.cb = s.p.cb /\ b.pptr = s.p.pptr
      /\ b.ptr = s.p.ptr /\ b.due = d /\ b.pollfd = s.p.pollfd /\ b.delete = s.p.delete
      /\ b.failed = (s.p.failed \/ ~ c)
  BY <1>2 DEF Fields
<1> HIDE DEF b
<1>6. /\ DOMAIN q = Fields /\ q.kind = s.p.kind /\ q.cb = s.p.cb /\ q.pptr = s.p.pptr
      /\ q.ptr = s.p.ptr /\ q.due = d /\ q.pollfd = s.p.pollfd /\ q.delete = s.p.delete
      /\ q.failed = (s.p.failed \/ ~ c) /\ q.current = e
  BY <1>5 DEF Fields
<1> HIDE DEF q
<1>7. Fitted(q)
  BY <1>1, <1>6 DEF Fitted
<1>8. r.p = q /\ Types(r) /\ r.gone = s.gone /\ r.fd = s.fd /\ r.rd = s.rd /\ r.rn = s.rn
  BY <1>1, <1>3, <1>7 DEF Types, ProcessFields
<1>9. ASSUME Alive(r)
      PROVE  /\ Sound(q, s.fd) /\ q.kind[e] = "timer" /\ q.cb[e] = s.p.cb[e]
             /\ q.cb[e] \in Timers \cup {"close"}
             /\ r.rn = RenderCount(q) + Share(q.cb[e], RenderTimers)
             /\ r.fd => /\ r.rd <= ReadBound(q) + Share(q.cb[e], ReadTimers)
                        /\ Deaf(q) <=> r.rd > 0
  <2>1. Alive(s) /\ c
    BY <1>6, <1>8, <1>9 DEF Alive
  <2>2. Sound(s.p, s.fd) /\ Counted(s, 0) /\ e # Null
    BY <2>1, EventsAssumption DEF Right, Steady
  <2>3. Current(q, s.fd) /\ Pointed(q) /\ Owning(q) /\ Terminal(q, s.fd)
    BY <1>6, <2>1, <2>2 DEF Sound, Current, Pointed, Owning, Terminal
  <2>4. Arming(q)
    BY <1>4, <1>6, <2>2, EventsAssumption DEF Sound, Arming
  <2>5. q.cb[e] \in Timers \cup {"close"}
    BY <1>6, <2>1, <2>2 DEF Sound, Arming
  <2>6. Configures(q) = Configures(s.p) \ {e} /\ (e \in Configures(s.p) <=> s.p.cb[e] = "configure")
    <3>1. \A g \in Ev : g # Null
      BY EventsAssumption
    <3> QED BY <1>6, <2>1, <3>1 DEF Configures
  <2>7. /\ IsFiniteSet(Configures(q))
        /\ Cardinality(Configures(q)) = IF s.p.cb[e] = "configure" THEN Cardinality(Configures(s.p)) - 1
                                        ELSE Cardinality(Configures(s.p))
    BY <2>2, <2>6, FS_RemoveElement DEF Sound
  <2>8. \A t \in Timers : t # s.p.cb[e] => Live(q, t) = Live(s.p, t)
    <3> SUFFICES ASSUME NEW t \in Timers, t # s.p.cb[e], IsSet(s.p, t) PROVE s.p.ptr[t] # e
      BY <1>6 DEF Live, IsSet
    <3> QED BY <2>2 DEF Sound, Pointed, IsSet
  <2>9. \A t \in RenderTimers : t = s.p.cb[e] => Live(s.p, t) = 1 /\ Live(q, t) = 0
    BY <1>6, <2>1, <2>2 DEF Sound, Owning, Live, IsSet
  <2>10. \A t : Live(q, t) \in {0, 1} /\ Live(s.p, t) \in {0, 1}
    BY DEF Live
  <2>11. Cardinality(Configures(s.p)) \in Nat
    BY <2>2, BoundIsNat
  <2>12. RenderCount(s.p) = RenderCount(q) + Share(q.cb[e], RenderTimers)
    <3> DEFINE x == s.p.cb[e]
    <3>1. q.cb[e] = x /\ x = s.p.cb[e]
      BY <1>6
    <3> HIDE DEF x
    <3>2. CASE x = "frame"
      BY <2>8, <2>9, <2>10, <3>1, <3>2 DEF RenderCount, RenderTimers, Timers, Share
    <3>3. CASE x = "redraw"
      BY <2>8, <2>9, <2>10, <3>1, <3>3 DEF RenderCount, RenderTimers, Timers, Share
    <3>4. CASE x = "sync"
      BY <2>8, <2>9, <2>10, <3>1, <3>4 DEF RenderCount, RenderTimers, Timers, Share
    <3>5. CASE x \notin RenderTimers
      BY <2>8, <2>10, <3>1, <3>5 DEF RenderCount, RenderTimers, Timers, Share
    <3> QED BY <3>2, <3>3, <3>4, <3>5 DEF RenderTimers
  <2>13. /\ ReadBound(s.p) \in Nat /\ ReadBound(q) \in Nat
         /\ ReadBound(s.p) <= ReadBound(q) + Share(q.cb[e], ReadTimers)
    <3> DEFINE x == s.p.cb[e]
    <3>1. q.cb[e] = x /\ x = s.p.cb[e] /\ Cardinality(Configures(q)) \in Nat
      BY <1>6, <2>7, FS_CardinalityType
    <3> HIDE DEF x
    <3>2. CASE x = "smooth"
      BY <2>7, <2>10, <2>11, <3>1, <3>2 DEF ReadBound, ReadTimers, Share
    <3>3. CASE x = "configure"
      BY <2>7, <2>8, <2>10, <2>11, <3>1, <3>3 DEF ReadBound, ReadTimers, Timers, Share
    <3>4. CASE x \notin ReadTimers
      BY <2>7, <2>8, <2>10, <2>11, <3>1, <3>4 DEF ReadBound, ReadTimers, Timers, Share
    <3> QED BY <3>2, <3>3, <3>4 DEF ReadTimers
  <2>14. Deaf(q) <=> Deaf(s.p)
    BY <1>6 DEF Deaf, poller_fd_get_mask, SlotOf
  <2>15. Sound(q, s.fd)
    BY <2>3, <2>4, <2>7 DEF Sound
  <2>16. s.rn = RenderCount(s.p) /\ (s.fd => s.rd <= ReadBound(s.p) + 0 /\ (Deaf(s.p) <=> s.rd > 0))
    BY <2>2 DEF Counted
  <2>17. r.fd => r.rd <= ReadBound(q) + Share(q.cb[e], ReadTimers)
    BY <1>1, <1>8, <2>13, <2>16 DEF Share
  <2> QED BY <1>6, <1>8, <2>1, <2>5, <2>12, <2>14, <2>15, <2>16, <2>17
<1> QED BY <1>6, <1>8, <1>9 DEF Started, Steady, Running

(* It ends with false: the timer is freed.                                 *)
LEMMA EndTimerRight ==
    ASSUME NEW s, Right(s, 0), s.p.current \in Ev,
           Alive(s) => s.p.kind[s.p.current] = "timer" /\ s.p.cb[s.p.current] # "close",
           NEW r, r = [s EXCEPT !.p = EndTimer(s.p, FALSE)]
    PROVE  Right(r, 0) /\ r.p.current = Null /\ Len(r.p.pollfd) = Len(s.p.pollfd)
<1> DEFINE p == s.p
           e == p.current
           b == IF p.delete THEN [p EXCEPT !.current = Null, !.delete = FALSE]
                ELSE [p EXCEPT !.current = Null]
           q == IF p.delete THEN poller_remove(b, e) ELSE free_event(b, e)
<1>1. Types(s) /\ Fitted(p) /\ e \in Ev /\ e # Null
  BY EventsAssumption DEF Right, Steady, Types
<1>2. r = [s EXCEPT !.p = q]
  BY DEF EndTimer, Deleted
<1>3. p = s.p /\ e = p.current
  OBVIOUS
<1> HIDE DEF p
<1>4. /\ DOMAIN b = Fields /\ b.kind = p.kind /\ b.cb = p.cb /\ b.pptr = p.pptr
      /\ b.ptr = p.ptr /\ b.due = p.due /\ b.delete = FALSE /\ b.current = Null
      /\ b.failed = p.failed /\ b.pollfd = p.pollfd
  BY <1>1 DEF Fitted, Fields
<1> HIDE DEF b, e
<1>5. Fitted(b)
  BY <1>1, <1>4 DEF Fitted
<1>6. Follows(b, q)
  <2>1. CASE p.delete
    BY <1>1, <1>5, <2>1, RemoveFitted
  <2>2. CASE ~ p.delete
    BY <1>5, <2>2, FreeFitted
  <2> QED BY <2>1, <2>2
<1>7. r.p = q /\ Types(r) /\ r.gone = s.gone /\ r.fd = s.fd /\ r.rd = s.rd /\ r.rn = s.rn
  <2>1. Fitted(q)
    BY <1>6 DEF Follows
  <2> HIDE DEF q
  <2> QED BY <1>1, <1>2, <2>1 DEF Types, ProcessFields
<1>8. q.current = Null /\ Len(q.pollfd) = Len(p.pollfd)
  BY <1>4, <1>6 DEF Follows
<1>9. ASSUME Alive(r) PROVE Sound(q, s.fd) /\ Counted(r, 0)
  <2>1. Alive(s)
    BY <1>3, <1>4, <1>6, <1>7, <1>9 DEF Alive, Follows
  <2>2. Sound(p, s.fd) /\ Counted(s, 0) /\ p.kind[e] = "timer" /\ p.cb[e] # "close"
    BY <1>3, <2>1 DEF Right, Steady
  <2>3. Dropped(b, q, e) /\ q.delete = FALSE
    <3>1. CASE p.delete
      <4>1. Dropped(b, q, e)
        BY <1>1, <1>4, <1>5, <2>2, <3>1, RemoveDrops
      <4> QED BY <1>1, <1>4, <4>1 DEF Dropped
    <3>2. CASE ~ p.delete
      <4>1. q = free_event(b, e)
        BY <3>2
      <4> HIDE DEF q
      <4>2. /\ q.kind = [b.kind EXCEPT ![e] = "free"] /\ q.cb = [b.cb EXCEPT ![e] = "none"]
            /\ q.pptr = [b.pptr EXCEPT ![e] = NoPtr]
            /\ q.ptr = [o \in Ptrs |-> IF o = b.pptr[e] THEN Null ELSE b.ptr[o]]
            /\ q.due = b.due /\ q.pollfd = b.pollfd /\ q.current = b.current
            /\ q.delete = b.delete /\ q.failed = b.failed
        BY <1>5, <4>1 DEF free_event, Fitted, Fields
      <4>3. b.kind \in [Ev -> EventKinds] /\ DOMAIN b.cb = Ev /\ b.pptr \in [Ev -> Ptrs \cup {NoPtr}]
        BY <1>5 DEF Fitted
      <4> QED BY <1>1, <1>4, <4>2, <4>3 DEF Dropped
    <3> QED BY <3>1, <3>2
  <2> HIDE DEF q
  <2>4. /\ \A o \in Ptrs : q.ptr[o] = IF o = p.pptr[e] THEN Null ELSE p.ptr[o]
        /\ \A f \in Ev : f # e => /\ q.kind[f] = p.kind[f] /\ q.cb[f] = p.cb[f] /\ q.pptr[f] = p.pptr[f]
                                  /\ f \in DOMAIN p.due => f \in DOMAIN q.due
        /\ q.pptr[e] = NoPtr /\ q.kind[e] = "free" /\ q.pollfd = p.pollfd
    BY <1>1, <1>4, <2>2, <2>3 DEF Dropped
  <2>5. NoPtr \notin Ptrs /\ Timers \cup {"tty"} \subseteq Ptrs /\ "tty" \notin Timers
    BY EventsAssumption, WindowLoopAssumption DEF Timers
  <2>6. p.ptr \in [Ptrs -> Ev \cup {Null}]
    BY <1>1 DEF Fitted
  <2>7. \A t \in Timers : p.ptr[t] = e => p.pptr[e] = t
    BY <1>1, <2>2 DEF Sound, Pointed
  <2>8. \A o \in (Timers \ {"configure"}) \cup {"tty"} : p.pptr[e] = o => p.ptr[o] = e
    BY <1>1, <2>2 DEF Sound, Owning
  <2>9. Current(q, s.fd)
    BY <1>8, <2>3 DEF Current
  <2>10. Pointed(q)
    <3> SUFFICES ASSUME NEW u \in Timers, q.ptr[u] # Null
                 PROVE  q.kind[q.ptr[u]] = "timer" /\ q.cb[q.ptr[u]] = u /\ q.pptr[q.ptr[u]] = u
      BY DEF Pointed
    <3>1. u # p.pptr[e] /\ q.ptr[u] = p.ptr[u] /\ p.ptr[u] \in Ev
      BY <2>4, <2>5, <2>6
    <3>2. p.ptr[u] # e
      BY <2>7, <3>1
    <3>3. p.kind[p.ptr[u]] = "timer" /\ p.cb[p.ptr[u]] = u /\ p.pptr[p.ptr[u]] = u
      BY <2>2, <3>1 DEF Sound, Pointed
    <3> QED BY <2>4, <3>1, <3>2, <3>3
  <2>11. Owning(q)
    <3>1. ASSUME NEW f \in Ev, q.kind[f] = "timer", q.cb[f] \in RenderTimers PROVE q.ptr[q.cb[f]] = f
      <4>1. f # e
        BY <2>4, <3>1
      <4>2. p.ptr[p.cb[f]] = f /\ q.cb[f] = p.cb[f] /\ p.cb[f] \in Timers \ {"configure"}
        BY <2>2, <2>4, <3>1, <4>1 DEF Sound, Owning, RenderTimers, Timers
      <4> QED BY <2>4, <2>5, <2>8, <4>1, <4>2
    <3>2. ASSUME NEW f \in Ev, q.pptr[f] \in (Timers \ {"configure"}) \cup {"tty"}
          PROVE  q.ptr[q.pptr[f]] = f
      <4>1. f # e
        BY <2>4, <2>5, <3>2
      <4>2. p.ptr[p.pptr[f]] = f /\ q.pptr[f] = p.pptr[f]
        BY <2>2, <2>4, <3>2, <4>1 DEF Sound, Owning
      <4> QED BY <2>4, <2>5, <2>8, <3>2, <4>1, <4>2
    <3> QED BY <3>1, <3>2 DEF Owning
  <2>12. Arming(q)
    BY <1>3, <2>2, <2>4 DEF Sound, Arming
  <2>13. Terminal(q, s.fd)
    <3>1. p.ptr["tty"] # e
      BY <1>1, <2>2 DEF Sound, Terminal
    <3>2. q.ptr["tty"] = p.ptr["tty"] /\ p.ptr["tty"] \in Ev \cup {Null}
      BY <2>4, <2>5, <2>6, <2>8, <3>1
    <3>3. CASE s.fd
      <4>1. /\ p.ptr["tty"] # Null /\ p.kind[p.ptr["tty"]] = "fd" /\ p.pptr[p.ptr["tty"]] = "tty"
            /\ \E i \in DOMAIN p.pollfd : \A j \in DOMAIN p.pollfd :
                 p.pollfd[j].evt = p.ptr["tty"] <=> j = i
        BY <2>2, <3>3 DEF Sound, Terminal
      <4> QED BY <2>4, <3>1, <3>2, <3>3, <4>1 DEF Terminal
    <3>4. CASE ~ s.fd
      BY <2>2, <2>4, <3>1, <3>2, <3>4 DEF Sound, Terminal
    <3> QED BY <3>3, <3>4
  <2>14. Configures(q) = Configures(p)
    <3>1. e \notin Configures(q) /\ e \notin Configures(p)
      BY <1>3, <2>4 DEF Configures
    <3>2. \A g \in Ev : g # e => (g \in Configures(q) <=> g \in Configures(p))
      BY <1>1, <1>3, <1>8, <2>4, EventsAssumption DEF Configures
    <3>3. Configures(q) \subseteq Ev /\ Configures(p) \subseteq Ev
      BY DEF Configures
    <3> QED BY <3>1, <3>2, <3>3
  <2>15. \A t \in Timers \ {"configure"} : Live(q, t) = Live(p, t)
    <3> SUFFICES ASSUME NEW t \in Timers \ {"configure"} PROVE Live(q, t) = Live(p, t)
      OBVIOUS
    <3>1. CASE t = p.pptr[e]
      BY <1>3, <2>4, <2>5, <2>8, <3>1 DEF Live, IsSet
    <3>2. CASE t # p.pptr[e]
      <4>1. q.ptr[t] = p.ptr[t] /\ p.ptr[t] # e
        BY <2>4, <2>5, <2>7, <3>2
      <4> QED BY <1>3, <1>8, <4>1 DEF Live, IsSet
    <3> QED BY <3>1, <3>2
  <2>16. RenderCount(q) = RenderCount(p) /\ ReadBound(q) = ReadBound(p)
    BY <2>14, <2>15 DEF RenderCount, ReadBound, Timers
  <2>17. s.fd => q.ptr["tty"] = p.ptr["tty"]
    <3> SUFFICES ASSUME s.fd PROVE q.ptr["tty"] = p.ptr["tty"]
      OBVIOUS
    <3>1. p.ptr["tty"] # e
      BY <2>2 DEF Sound, Terminal
    <3> QED BY <2>4, <2>5, <2>8, <3>1
  <2>18. ASSUME s.fd PROVE Deaf(q) <=> Deaf(p)
    <3>1. q.ptr["tty"] = p.ptr["tty"] /\ q.pollfd = p.pollfd
      BY <2>4, <2>17, <2>18
    <3> QED BY <3>1 DEF Deaf, poller_fd_get_mask, SlotOf
  <2>19. Sound(q, s.fd)
    BY <2>2, <2>9, <2>10, <2>11, <2>12, <2>13, <2>14 DEF Sound
  <2> QED BY <1>3, <1>7, <2>2, <2>16, <2>18, <2>19 DEF Counted
<1> QED BY <1>3, <1>7, <1>8, <1>9 DEF Right, Steady

(* The callbacks of timers: s is the process after StartTimer().           *)
LEMMA TimerCallbackRight ==
    ASSUME NEW s, Steady(s), Alive(s), NEW e \in Ev, s.p.current = e, Running(s, e),
           NEW cb, s.p.cb[e] = cb,
           NEW r, r = TimerCallback(s, cb)
    PROVE  Right(r, 0) /\ Step(s, r) /\ (Alive(r) => cb # "close")
<1>0. /\ s.p.kind[e] = "timer" /\ cb \in Timers \cup {"close"}
      /\ s.rn = RenderCount(s.p) + Share(cb, RenderTimers)
      /\ s.fd => /\ s.rd <= ReadBound(s.p) + Share(cb, ReadTimers)
                 /\ Deaf(s.p) <=> s.rd > 0
  BY DEF Running
<1>1. Types(s) /\ s.rn \in Int /\ s.rd \in Int /\ e # Null
  BY EventsAssumption DEF Steady, Types
<1>2. ReadBound(s.p) \in Nat
  BY BoundIsNat DEF Steady
<1>3. RenderCount(s.p) \in Nat
  BY DEF RenderCount, Live
<1>4. CASE cb \in RenderTimers
  <2> DEFINE t == [s EXCEPT !.rn = s.rn - 1]
  <2>1. s.rn - 1 \in Int
    BY <1>1
  <2>2. Types(t) /\ Alike(s, t) /\ t.rn = s.rn - 1 /\ t.rd = s.rd
    BY <1>1, <2>1, inc_render_type
  <2>3. r = IF cb = "sync" THEN window_reset_delayed_redraw(t) ELSE t
    BY <1>4 DEF TimerCallback, dec_render_inhibit, RenderTimers
  <2> HIDE DEF t
  <2>4. Steady(t) /\ Step(s, t) /\ (Alive(t) <=> Alive(s))
    BY <2>2, AlikeSteady
  <2>5. Counted(t, 0)
    <3>1. cb \notin ReadTimers
      BY <1>4 DEF RenderTimers, ReadTimers
    <3> QED BY <1>0, <1>1, <1>2, <1>3, <1>4, <2>2, <3>1 DEF Counted, Alike, Share
  <2>6. Right(t, 0)
    BY <2>4, <2>5 DEF Right
  <2>7. CASE cb = "sync"
    <3>1. Movable(t, "redraw")
      <4>1. IsSet(s.p, "redraw") => s.p.cb[s.p.ptr["redraw"]] = "redraw"
        BY DEF Steady, Sound, Pointed, Timers, IsSet
      <4> QED BY <1>0, <2>2, <2>7, <4>1 DEF Movable, Alike, IsSet
    <3>2. Right(r, 0) /\ Step(t, r)
      BY <2>3, <2>6, <2>7, <3>1, ResetRight
    <3> QED BY <2>4, <2>7, <3>2, StepTwice
  <2>8. CASE cb # "sync"
    BY <1>4, <2>3, <2>4, <2>6, <2>8 DEF RenderTimers
  <2> QED BY <2>7, <2>8
<1>5. CASE cb \notin RenderTimers
  <2>1. Calm(s)
    BY <1>0, <1>5 DEF Calm
  <2>2. CASE cb = "smooth"
    <3>1. Right(s, 1)
      BY <1>0, <1>1, <1>2, <1>3, <1>5, <2>2 DEF Right, Counted, Share, ReadTimers
    <3>2. Does(s, dec_read_inhibit(s))
      BY <2>1, <3>1, dec_read_inhibit_Does
    <3>3. r = window_reset_delayed_redraw(dec_read_inhibit(s))
      BY <2>2 DEF TimerCallback
    <3>4. Does(dec_read_inhibit(s), r)
      BY <3>2, <3>3, ResetDoes DEF Does
    <3> QED BY <2>2, <3>2, <3>4, DoesTwice DEF Does, Ok
  <2>3. CASE cb = "configure"
    <3> DEFINE p == s.p
               q == [p EXCEPT !.ptr = [p.ptr EXCEPT !["configure"] = Null]]
               t == [s EXCEPT !.p = q]
    <3>1. r = dec_read_inhibit(t)
      BY <2>3 DEF TimerCallback
    <3>2. Fitted(p) /\ p = s.p
      BY <1>1 DEF Types
    <3> HIDE DEF p
    <3>3. /\ DOMAIN q = Fields /\ q.kind = p.kind /\ q.cb = p.cb /\ q.pptr = p.pptr
          /\ q.ptr = [p.ptr EXCEPT !["configure"] = Null] /\ q.due = p.due /\ q.delete = p.delete
          /\ q.current = p.current /\ q.failed = p.failed /\ q.pollfd = p.pollfd
      BY <3>2 DEF Fitted, Fields
    <3> HIDE DEF q
    <3>4. "tty" \in Ptrs /\ Timers \subseteq Ptrs /\ "configure" \in Timers /\ "tty" \notin Timers
      BY WindowLoopAssumption DEF Timers
    <3>5. /\ q.ptr \in [Ptrs -> Ev \cup {Null}] /\ q.ptr["configure"] = Null
          /\ \A o \in Ptrs : o # "configure" => q.ptr[o] = p.ptr[o]
      <4>1. p.ptr \in [Ptrs -> Ev \cup {Null}]
        BY <3>2 DEF Fitted
      <4> QED BY <3>3, <3>4, <4>1
    <3>6. Fitted(q) /\ Follows(p, q)
      BY <3>2, <3>3, <3>5 DEF Fitted, Follows
    <3>7. Types(t) /\ Else(s, t) /\ t.p = q
      BY <1>1, <3>2, <3>6, WithPoller
    <3> HIDE DEF t
    <3>8. Sound(p, s.fd)
      BY <3>2 DEF Steady
    <3>9. Sound(q, s.fd) /\ Configures(q) = Configures(p)
      <4>1. Current(q, s.fd) /\ Arming(q)
        BY <3>3, <3>8 DEF Sound, Current, Arming
      <4>2. Pointed(q)
        BY <3>3, <3>4, <3>5, <3>8 DEF Sound, Pointed
      <4>3. Owning(q)
        <5>1. \A t1 \in RenderTimers : q.ptr[t1] = p.ptr[t1]
          BY <3>4, <3>5 DEF RenderTimers, Timers
        <5>2. \A t1 \in (Timers \ {"configure"}) \cup {"tty"} : q.ptr[t1] = p.ptr[t1]
          BY <3>4, <3>5
        <5> QED BY <3>3, <3>8, <5>1, <5>2 DEF Sound, Owning
      <4>4. q.ptr["tty"] = p.ptr["tty"]
        BY <3>4, <3>5
      <4>5. Terminal(q, s.fd)
        BY <3>3, <3>8, <4>4 DEF Sound, Terminal
      <4>6. Configures(q) = Configures(p)
        BY <3>3 DEF Configures
      <4> QED BY <3>8, <4>1, <4>2, <4>3, <4>5, <4>6 DEF Sound
    <3>10. \A u \in Timers \ {"configure"} : Live(q, u) = Live(p, u)
      BY <3>3, <3>4, <3>5 DEF Live, IsSet
    <3>11. RenderCount(q) = RenderCount(p) /\ ReadBound(q) = ReadBound(p)
      BY <3>9, <3>10 DEF RenderCount, ReadBound, Timers
    <3>12. q.ptr["tty"] = p.ptr["tty"] /\ q.pollfd = p.pollfd
      BY <3>3, <3>4, <3>5
    <3>13. Deaf(q) <=> Deaf(p)
      BY <3>12 DEF Deaf, poller_fd_get_mask, SlotOf
    <3>14. Counted(t, 1)
      BY <1>0, <1>1, <1>2, <1>3, <1>5, <2>3, <3>2, <3>7, <3>11, <3>13 DEF Counted, Else, Share, ReadTimers
    <3>15. Right(t, 1)
      BY <3>7, <3>9, <3>14 DEF Right, Steady, Else
    <3>16. Step(s, t)
      BY <3>2, <3>3, <3>7 DEF Step, Else, Alive
    <3>17. Calm(t)
      BY <2>1, <3>16, StillCalm
    <3>18. Does(t, r)
      BY <3>1, <3>15, <3>17, dec_read_inhibit_Does
    <3> QED BY <2>3, <3>16, <3>18, StepTwice DEF Does, Ok
  <2>4. CASE cb = "read"
    <3>1. Right(s, 0) /\ r = window_reset_delayed_redraw(s)
      BY <1>0, <1>1, <1>2, <1>3, <1>5, <2>4 DEF Right, Counted, Share, ReadTimers, TimerCallback
    <3> QED BY <2>1, <2>4, <3>1, ResetDoes DEF Does, Ok
  <2>5. CASE cb = "close"
    <3>1. r = free_window(s)
      BY <2>5 DEF TimerCallback
    <3>2. Does(s, r)
      BY <1>1, <3>1, free_window_Does
    <3>3. r.gone = TRUE
      <4>1. r = [tty_hang(UnsetAll(s)) EXCEPT !.gone = TRUE]
        BY <3>1 DEF free_window
      <4>2. DOMAIN r = ProcessFields
        BY <3>2 DEF Does, Ok, Right, Steady, Types
      <4> HIDE DEF tty_hang, UnsetAll
      <4> QED BY <4>1, <4>2 DEF ProcessFields
    <3> QED BY <3>2, <3>3 DEF Does, Ok, Alive
  <2> QED BY <1>0, <1>5, <2>2, <2>3, <2>4, <2>5 DEF RenderTimers, Timers
<1> QED BY <1>4, <1>5

----------------------------------------------------------------------------
(* tick()                                                                  *)

(* Arming the timer frame keeps the counters right.                        *)
LEMMA FrameDoes ==
    ASSUME NEW s, Ok(s),
           NEW r, r = IF TimerSet(s, "frame") THEN SetTimer(s, "frame")
                      ELSE inc_render_inhibit(SetTimer(s, "frame"))
    PROVE  Does(s, r)
<1>1. Right(s, 0) /\ Steady(s) /\ Movable(s, "frame") /\ "frame" \in Timers
      /\ "frame" \in RenderTimers /\ "frame" \notin ReadTimers
  BY CalmMovable DEF Ok, Right, Timers, RenderTimers, ReadTimers
<1>2. CASE ~ IsSet(s.p, "frame")
  <2>1. Right(r, 0) /\ Step(s, r)
    BY <1>1, <1>2, ArmRender DEF TimerSet
  <2> QED BY <2>1, StillCalm DEF Does, Ok
<1>3. CASE IsSet(s.p, "frame")
  <2>1. r = SetTimer(s, "frame")
    BY <1>3 DEF TimerSet
  <2>2. Steady(r) /\ Else(s, r) /\ Step(s, r) /\ (Alive(r) => Moved(s.p, r.p, "frame", 1))
    BY <1>1, <2>1, Arm
  <2>3. ASSUME Alive(r) PROVE Counted(r, 0)
    <3>1. Alive(s) /\ Moved(s.p, r.p, "frame", 1) /\ Counted(s, 0)
      BY <1>1, <2>2, <2>3 DEF Step, Right
    <3>2. RenderCount(r.p) = RenderCount(s.p) + 1 - Live(s.p, "frame") /\ (Deaf(r.p) <=> Deaf(s.p))
      BY <1>1, <3>1, Recount
    <3>3. Live(s.p, "frame") = 1
      BY <1>1, <1>3, <3>1 DEF Movable, Live
    <3>4. ReadBound(r.p) = ReadBound(s.p)
      BY <1>1, <3>1 DEF Moved
    <3>5. RenderCount(s.p) \in Nat
      BY DEF RenderCount, Live
    <3> QED BY <2>2, <3>1, <3>2, <3>3, <3>4, <3>5 DEF Counted, Else
  <2> QED BY <2>2, <2>3, StillCalm DEF Does, Ok, Right
<1> QED BY <1>2, <1>3

(* The redraw of tick() keeps the counters right, whether it drew or not.  *)
LEMMA RedrawDoes ==
    ASSUME NEW s, Ok(s), NEW drawn \in BOOLEAN, NEW r, r = Redraw(s, drawn)
    PROVE  Does(s, r)
<1> DEFINE t == IF TimerSet(s, "frame") THEN SetTimer(s, "frame")
                ELSE inc_render_inhibit(SetTimer(s, "frame"))
           u == IF drawn THEN window_reset_delayed_redraw(t) ELSE s
<1>1. CASE s.gone \/ ~ ((s.any /\ s.rn = 0) \/ s.force)
  BY <1>1 DEF Redraw, Does, Step
<1>2. CASE ~ (s.gone \/ ~ ((s.any /\ s.rn = 0) \/ s.force))
  <2>1. r = [u EXCEPT !.force = FALSE, !.any = FALSE]
    BY <1>2 DEF Redraw
  <2>2. Does(s, t)
    BY FrameDoes
  <2> HIDE DEF t
  <2>3. Does(s, u)
    <3>1. CASE drawn
      <4>1. Does(t, u)
        BY <2>2, <3>1, ResetDoes DEF Does
      <4> QED BY <2>2, <4>1, DoesTwice
    <3>2. CASE ~ drawn
      BY <3>2 DEF Does, Step
    <3> QED BY <3>1, <3>2
  <2> HIDE DEF u
  <2>4. Types(r) /\ Alike(u, r) /\ r.rd = u.rd /\ r.rn = u.rn
    BY <2>1, <2>3 DEF Does, Ok, Right, Steady, Types, Alike, ProcessFields
  <2>5. Does(u, r)
    BY <2>3, <2>4, AlikeDoes DEF Does
  <2> QED BY <2>3, <2>5, DoesTwice
<1> QED BY <1>1, <1>2

(* window_check_sigchld() keeps the counters right.                        *)
LEMMA window_check_sigchld_Does ==
    ASSUME NEW s, Ok(s), NEW r, r = window_check_sigchld(s)
    PROVE  Does(s, r)
<1> DEFINE t == [s EXCEPT !.had = FALSE]
<1>1. CASE ~ s.had
  BY <1>1 DEF window_check_sigchld, Does, Step
<1>2. CASE s.had
  <2>1. r = IF s.gone \/ s.child THEN t ELSE term_hang(t)
    BY <1>2 DEF window_check_sigchld
  <2>2. Types(t) /\ Alike(s, t) /\ t.rd = s.rd /\ t.rn = s.rn
    BY DEF Ok, Right, Steady, Types, Alike, ProcessFields
  <2> HIDE DEF t
  <2>3. Does(s, t)
    BY <2>2, AlikeDoes
  <2>4. Does(t, term_hang(t))
    BY <2>3, term_hang_Does DEF Does
  <2>5. CASE s.gone \/ s.child
    BY <2>1, <2>3, <2>5
  <2>6. CASE ~ (s.gone \/ s.child)
    BY <2>1, <2>3, <2>4, <2>6, DoesTwice
  <2> QED BY <2>5, <2>6
<1> QED BY <1>1, <1>2

----------------------------------------------------------------------------
(* The invariant                                                           *)

(* The array of descriptors is a sequence.                                 *)
LEMMA LengthKept ==
    ASSUME NEW s, Types(s)
    PROVE  Len(s.p.pollfd) \in Nat /\ DOMAIN s.p.pollfd = 1 .. Len(s.p.pollfd)
BY IsSeqFacts DEF Types, Fitted, Slotted

(* A step that changes only what the invariant does not depend on          *)
LEMMA SameKeeps ==
    ASSUME IInv, Types(w'), w'.gone = w.gone, w'.fd = w.fd, w'.rd = w.rd, w'.rn = w.rn,
           Same(w.p, w'.p), Len(w'.p.pollfd) = Len(w.p.pollfd),
           \A i \in DOMAIN w.p.pollfd : w'.p.pollfd[i].mask = w.p.pollfd[i].mask
    PROVE  Right(w', 0) /\ w'.p.current = Null
<1>1. Right(w', 0)
  BY SameRight DEF IInv
<1> QED BY <1>1 DEF IInv, Same

(* ppoll() returns, at any time.                                           *)
LEMMA ReturnedKeeps ==
    ASSUME IInv, NEW d, Returned(d)
    PROVE  IInv'
<1> DEFINE q == Polled(w.p, Ready, d)
<1>1. Types(w) /\ Fitted(w.p)
  BY DEF IInv, Right, Steady, Types
<1>2. /\ Follows(w.p, q) /\ Same(w.p, q)
      /\ \A i \in DOMAIN w.p.pollfd : q.pollfd[i].mask = w.p.pollfd[i].mask
  BY <1>1, PolledSame
<1>3. w' = [w EXCEPT !.p = q] /\ phase' = "fds" /\ slot' = 1 /\ xev' = xev
  BY DEF Returned, Environment
<1> HIDE DEF q
<1>4. Types(w') /\ Else(w, w') /\ w'.p = q
  BY <1>1, <1>2, <1>3, WithPoller
<1>5. Right(w', 0) /\ w'.p.current = Null
  <2>1. Len(w'.p.pollfd) = Len(w.p.pollfd)
    BY <1>2, <1>4 DEF Follows
  <2> QED BY <1>2, <1>4, <2>1, SameKeeps DEF Else
<1>6. slot' \in 0 .. Len(w'.p.pollfd) + 1
  <2>1. Len(w'.p.pollfd) \in Nat
    BY <1>4, LengthKept
  <2> QED BY <1>3, <2>1
<1> QED BY <1>3, <1>5, <1>6 DEF IInv

(* The callback of a descriptor keeps the invariant.                       *)
LEMMA RunFdKeeps ==
    ASSUME IInv, RunFd
    PROVE  IInv'
<1> DEFINE s == [w EXCEPT !.p = StartFd(w.p, slot)]
           t == IF w.p.cb[s.p.current] = "con" THEN HandleEvents(s, xev)
                ELSE handle_term_read(s, w.p.pollfd[slot].revents)
<1>0. /\ Types(w) /\ Right(w, 0) /\ w.p.current = Null
      /\ phase = "fds" /\ slot <= Len(w.p.pollfd) /\ slot' = slot + 1 /\ phase' = phase
      /\ xev \in Seq(XEvents)
  BY DEF IInv, RunFd, Right, Steady
<1>1. Len(w.p.pollfd) \in Nat /\ DOMAIN w.p.pollfd = 1 .. Len(w.p.pollfd)
  BY <1>0, LengthKept
<1>2. slot \in DOMAIN w.p.pollfd
  BY <1>0, <1>1 DEF IInv
<1>3. slot' \in 0 .. Len(w.p.pollfd) + 1 /\ slot' > 0
  BY <1>0, <1>1, <1>2
<1>4. CASE ~ HasEvents(w.p, slot)
  <2>1. w' = w /\ xev' = xev
    BY <1>4 DEF RunFd
  <2> QED BY <1>0, <1>3, <2>1 DEF IInv
<1>5. CASE HasEvents(w.p, slot)
  <2>1. /\ w' = [t EXCEPT !.p = EndFd(t.p, slot)]
        /\ xev' = IF w.p.cb[s.p.current] = "con" THEN <<>> ELSE xev
    BY <1>5 DEF RunFd
  <2>2. Ok(s) /\ Len(s.p.pollfd) = Len(w.p.pollfd)
    BY <1>0, <1>2, StartFdOk
  <2>3. Alive(s) => s.p.current # Null /\ s.p.kind[s.p.current] = "fd"
    <3> DEFINE f == w.p.pollfd[slot].evt
               c == f # Null /\ w.p.kind[f] = "fd"
    <3>1. DOMAIN w.p = Fields /\ DOMAIN w = ProcessFields
      BY <1>0 DEF Types, Fitted
    <3>2. s.p = [Require(w.p, c) EXCEPT !.current = f]
      BY <3>1 DEF StartFd, ProcessFields
    <3>3. s.p.current = f /\ s.p.kind = w.p.kind /\ s.p.failed = (w.p.failed \/ ~ c)
      <4> HIDE DEF c, f, s
      <4> QED BY <3>1, <3>2 DEF Require, Fields
    <3> HIDE DEF s
    <3> QED BY <3>3 DEF Alive
  <2> HIDE DEF s
  <2>4. Does(s, t)
    BY <1>0, <2>2, HandleEventsDoes, handle_term_read_Does
  <2> HIDE DEF t
  <2>5. Right(w', 0) /\ w'.p.current = Null /\ Len(w'.p.pollfd) = Len(t.p.pollfd)
    <3>1. Right(t, 0) /\ (Alive(t) => t.p.current # Null /\ t.p.kind[t.p.current] = "fd")
      BY <2>3, <2>4 DEF Does, Ok, Step
    <3> QED BY <2>1, <3>1, EndFdRight
  <2>6. Len(w'.p.pollfd) = Len(w.p.pollfd)
    BY <2>2, <2>4, <2>5 DEF Does, Step
  <2>7. xev' \in Seq(XEvents)
    BY <1>0, <2>1
  <2> QED BY <1>0, <1>3, <2>5, <2>6, <2>7 DEF IInv
<1> QED BY <1>4, <1>5

(* The callback of a timer keeps the invariant.                            *)
LEMMA RunTimerKeeps ==
    ASSUME IInv, NEW e \in Ev, RunTimer(e)
    PROVE  IInv'
<1> DEFINE s == [w EXCEPT !.p = StartTimer(w.p, e)]
           t == IF w.gone \/ s.p.failed THEN Fail(s) ELSE TimerCallback(s, w.p.cb[e])
<1>0. /\ Types(w) /\ Right(w, 0) /\ w.p.current = Null
      /\ phase = "timers" /\ slot' = slot /\ phase' = phase /\ xev' = xev
      /\ w' = [t EXCEPT !.p = EndTimer(t.p, FALSE)]
  BY DEF IInv, RunTimer, Right, Steady, Environment
<1>2. s = [w EXCEPT !.p = StartTimer(w.p, e)] /\ s.gone = w.gone
  BY <1>0 DEF Types, ProcessFields
<1> HIDE DEF s, t
<1>1. /\ Steady(s) /\ s.p.current = e /\ Len(s.p.pollfd) = Len(w.p.pollfd)
      /\ Alive(s) => Running(s, e) /\ s.p.cb[e] = w.p.cb[e]
  <2>1. Right(w, 0) /\ w.p.current = Null
    BY <1>0
  <2>2. s = [w EXCEPT !.p = StartTimer(w.p, e)]
    BY <1>2
  <2>3. Started(w, s, e)
    BY <2>1, <2>2, StartTimerRight
  <2> QED BY <2>3 DEF Started
<1>3. Right(t, 0) /\ Step(s, t) /\ (Alive(t) => w.p.cb[e] # "close")
  <2>1. CASE w.gone \/ s.p.failed
    <3>1. t = Fail(s)
      BY <2>1 DEF t
    <3> QED BY <1>1, <3>1, FailOk DEF Steady
  <2>2. CASE ~ (w.gone \/ s.p.failed)
    <3>1. Alive(s) /\ t = TimerCallback(s, w.p.cb[e])
      BY <1>2, <2>2 DEF Alive, t
    <3> QED BY <1>1, <3>1, TimerCallbackRight
  <2> QED BY <2>1, <2>2
<1>4. t.p.current = e /\ Len(t.p.pollfd) = Len(w.p.pollfd)
  BY <1>1, <1>3 DEF Step
<1>5. Alive(t) => t.p.kind[e] = "timer" /\ t.p.cb[e] # "close"
  BY <1>1, <1>3, EventsAssumption DEF Step, Running
<1>6. Right(w', 0) /\ w'.p.current = Null /\ Len(w'.p.pollfd) = Len(t.p.pollfd)
  BY <1>0, <1>3, <1>4, <1>5, EndTimerRight
<1> QED BY <1>0, <1>4, <1>6 DEF IInv

(* tick() keeps the invariant.                                             *)
LEMMA TickKeeps ==
    ASSUME IInv, Tick
    PROVE  IInv'
<1>0. Ok(w) /\ w.p.current = Null /\ phase' = "poll" /\ slot' = slot /\ xev \in Seq(XEvents)
  BY DEF IInv, Ok, Calm, Tick
<1>1. PICK drawn \in BOOLEAN :
        LET s == window_check_sigchld(Redraw(w, drawn))
        IN \/ w' = s /\ UNCHANGED xev
           \/ /\ xev # <<>>
              /\ w' = [HandleEvents(s, xev) EXCEPT !.p = poller_skip_wait(@)]
              /\ xev' = <<>>
  BY DEF Tick
<1> DEFINE s == window_check_sigchld(Redraw(w, drawn))
           t == HandleEvents(s, xev)
<1>2. Does(w, s)
  <2>1. Does(w, Redraw(w, drawn))
    BY <1>0, RedrawDoes
  <2>2. Does(Redraw(w, drawn), s)
    BY <2>1, window_check_sigchld_Does DEF Does
  <2> QED BY <2>1, <2>2, DoesTwice
<1>3. \/ w' = s /\ xev' = xev
      \/ w' = [t EXCEPT !.p = poller_skip_wait(t.p)] /\ xev' = <<>>
  BY <1>1
<1> HIDE DEF s
<1>4. Does(w, t)
  <2>1. Does(s, t)
    BY <1>0, <1>2, HandleEventsDoes DEF Does
  <2> QED BY <1>2, <2>1, DoesTwice
<1> HIDE DEF t
<1>5. Right(w', 0) /\ w'.p.current = Null /\ Len(w'.p.pollfd) = Len(w.p.pollfd)
  <2>1. CASE w' = s /\ xev' = xev
    BY <1>0, <1>2, <2>1 DEF Does, Ok, Step
  <2>2. CASE w' = [t EXCEPT !.p = poller_skip_wait(t.p)] /\ xev' = <<>>
    <3>1. Right(t, 0) /\ Types(t) /\ t.p.current = Null /\ Len(t.p.pollfd) = Len(w.p.pollfd)
      BY <1>0, <1>4 DEF Does, Ok, Right, Steady, Step
    <3> DEFINE q == poller_skip_wait(t.p)
    <3>2. /\ DOMAIN q = Fields /\ q.kind = t.p.kind /\ q.cb = t.p.cb /\ q.pptr = t.p.pptr
          /\ q.ptr = t.p.ptr /\ q.due = t.p.due /\ q.delete = t.p.delete
          /\ q.current = t.p.current /\ q.failed = t.p.failed /\ q.pollfd = t.p.pollfd
      BY <3>1 DEF poller_skip_wait, Types, Fitted, Fields
    <3>3. w' = [t EXCEPT !.p = q]
      BY <2>2
    <3> HIDE DEF q
    <3>4. Follows(t.p, q) /\ Same(t.p, q)
      BY <3>1, <3>2 DEF Follows, Types, Fitted, Same
    <3>5. Types(w') /\ Else(t, w') /\ w'.p = q
      BY <3>1, <3>3, <3>4, WithPoller
    <3>6. Right(w', 0)
      BY <3>1, <3>2, <3>4, <3>5, SameRight DEF Else, Follows
    <3> QED BY <3>1, <3>2, <3>5, <3>6
  <2> QED BY <1>3, <2>1, <2>2
<1>6. xev' \in Seq(XEvents)
  <2>1. <<>> \in Seq(XEvents)
    OBVIOUS
  <2> QED BY <1>0, <1>3, <2>1
<1> QED BY <1>0, <1>5, <1>6 DEF IInv

----------------------------------------------------------------------------
(* The other steps: of the loop, of the application and of the kernel      *)

(* The application and the kernel change nothing that is counted.          *)
LEMMA OutsideKeeps ==
    ASSUME IInv, (\E c \in Commands : Write(c)) \/ CloseSlave \/ Exit
    PROVE  IInv'
<1>1. Types(w) /\ Fitted(w.p) /\ DOMAIN w = ProcessFields
  BY DEF IInv, Right, Steady, Types
<1>2. /\ Types(w') /\ w'.p = w.p /\ w'.gone = w.gone /\ w'.fd = w.fd /\ w'.rd = w.rd /\ w'.rn = w.rn
      /\ phase' = phase /\ slot' = slot /\ xev' = xev
  <2>1. CASE \E c \in Commands : Write(c)
    <3>1. PICK c \in Commands : Write(c)
      BY <2>1
    <3>2. w' = [w EXCEPT !.out = Append(w.out, c)] /\ phase' = phase /\ slot' = slot /\ xev' = xev
      BY <3>1 DEF Write
    <3>3. Append(w.out, c) \in Seq(Commands)
      BY <1>1 DEF Types
    <3> QED BY <1>1, <3>2, <3>3 DEF Types, ProcessFields
  <2>2. CASE CloseSlave
    BY <1>1, <2>2 DEF CloseSlave, Environment, Types, ProcessFields
  <2>3. CASE Exit
    BY <1>1, <2>3 DEF Exit, Environment, Types, ProcessFields
  <2> QED BY <2>1, <2>2, <2>3
<1>3. Right(w', 0) /\ w'.p.current = Null
  BY <1>2, SameKeeps DEF Same
<1> QED BY <1>2, <1>3 DEF IInv

(* The signal interrupts ppoll(), which reports nothing then.              *)
LEMMA SigchldKeeps ==
    ASSUME IInv, Sigchld
    PROVE  IInv'
<1> DEFINE none == [f \in DOMAIN Ready |-> {}]
           q == IF phase = "blocked" THEN Polled(w.p, none, 0) ELSE w.p
<1>1. Types(w) /\ Fitted(w.p) /\ DOMAIN w = ProcessFields
  BY DEF IInv, Right, Steady, Types
<1>2. /\ w' = [w EXCEPT !.proc = "reaped", !.child = FALSE, !.had = TRUE, !.p = q]
      /\ phase' = IF phase = "blocked" THEN "fds" ELSE phase
      /\ slot' = IF phase = "blocked" THEN 1 ELSE slot
      /\ xev' = xev
  BY DEF Sigchld, Environment
<1> HIDE DEF none
<1>3. /\ Follows(w.p, q) /\ Same(w.p, q)
      /\ \A i \in DOMAIN w.p.pollfd : q.pollfd[i].mask = w.p.pollfd[i].mask
  <2>1. CASE phase = "blocked"
    BY <1>1, <2>1, PolledSame
  <2>2. CASE phase # "blocked"
    BY <1>1, <2>2 DEF Follows, Same
  <2> QED BY <2>1, <2>2
<1> HIDE DEF q
<1>4. /\ Types(w') /\ w'.p = q
      /\ w'.gone = w.gone /\ w'.fd = w.fd /\ w'.rd = w.rd /\ w'.rn = w.rn
  <2>1. Fitted(q)
    BY <1>3 DEF Follows
  <2> QED BY <1>1, <1>2, <2>1 DEF Types, ProcessFields
<1>5. Right(w', 0) /\ w'.p.current = Null /\ Len(w'.p.pollfd) = Len(w.p.pollfd)
  <2>1. Len(w'.p.pollfd) = Len(w.p.pollfd)
    BY <1>3, <1>4 DEF Follows
  <2> QED BY <1>3, <1>4, <2>1, SameKeeps
<1>6. slot' \in 0 .. Len(w'.p.pollfd) + 1 /\ (phase' = "fds" => slot' > 0)
  <2>1. Len(w'.p.pollfd) \in Nat
    BY <1>4, LengthKept
  <2> QED BY <1>2, <1>5, <2>1 DEF IInv
<1> QED BY <1>2, <1>5, <1>6 DEF IInv

(* poller_stop() keeps the invariant.                                      *)
LEMMA StopKeeps ==
    ASSUME IInv, Stop
    PROVE  IInv'
<1> DEFINE q == poller_stop(w.p)
<1>1. Types(w) /\ Fitted(w.p)
  BY DEF IInv, Right, Steady, Types
<1>2. /\ DOMAIN q = Fields /\ q.kind = w.p.kind /\ q.cb = w.p.cb /\ q.pptr = w.p.pptr
      /\ q.ptr = w.p.ptr /\ q.due = w.p.due /\ q.delete = w.p.delete
      /\ q.current = w.p.current /\ q.failed = w.p.failed /\ q.pollfd = w.p.pollfd
  BY <1>1 DEF poller_stop, Fitted, Fields
<1>3. w' = [w EXCEPT !.p = q] /\ phase' = "stopped" /\ slot' = slot /\ xev' = xev
  BY DEF Stop, Environment
<1> HIDE DEF q
<1>4. Follows(w.p, q) /\ Same(w.p, q)
  BY <1>1, <1>2 DEF Follows, Fitted, Same
<1>5. Types(w') /\ Else(w, w') /\ w'.p = q
  BY <1>1, <1>3, <1>4, WithPoller
<1>6. Right(w', 0) /\ w'.p.current = Null
  BY <1>2, <1>4, <1>5, SameKeeps DEF Else
<1> QED BY <1>2, <1>3, <1>5, <1>6 DEF IInv

(* What happens between two callbacks changes neither process nor poller.  *)
LEMMA IdleKeeps ==
    ASSUME IInv, Block \/ FdsDone \/ TimersDone \/ (\E e \in XEvents : Send(e)) \/ UNCHANGED vars
    PROVE  IInv'
<1>1. CASE Block
  BY <1>1 DEF Block, Environment, IInv
<1>2. CASE FdsDone
  <2>1. Types(w)
    BY DEF IInv, Right, Steady
  <2>2. Len(w.p.pollfd) \in Nat
    BY <2>1, LengthKept
  <2> QED BY <1>2, <2>2 DEF FdsDone, Environment, IInv
<1>3. CASE TimersDone
  BY <1>3 DEF TimersDone, Environment, IInv
<1>4. CASE \E e \in XEvents : Send(e)
  <2>1. PICK e \in XEvents : Send(e)
    BY <1>4
  <2>2. xev' \in Seq(XEvents)
    BY <2>1 DEF Send, IInv
  <2> QED BY <2>1, <2>2 DEF Send, IInv
<1>5. CASE UNCHANGED vars
  BY <1>5 DEF vars, IInv
<1> QED BY <1>1, <1>2, <1>3, <1>4, <1>5

(* Every step keeps the invariant.                                         *)
LEMMA NextKeeps ==
    ASSUME IInv, [Next]_vars
    PROVE  IInv'
<1>1. CASE Poll
  BY <1>1, ReturnedKeeps DEF Poll
<1>2. CASE Wake
  BY <1>2, ReturnedKeeps DEF Wake
<1>3. CASE Timeout
  BY <1>3, ReturnedKeeps DEF Timeout
<1>4. CASE RunFd
  BY <1>4, RunFdKeeps
<1>5. CASE \E e \in Ev : RunTimer(e)
  BY <1>5, RunTimerKeeps
<1>6. CASE Tick
  BY <1>6, TickKeeps
<1>7. CASE Stop
  BY <1>7, StopKeeps
<1>8. CASE (\E c \in Commands : Write(c)) \/ CloseSlave \/ Exit
  BY <1>8, OutsideKeeps
<1>9. CASE Sigchld
  BY <1>9, SigchldKeeps
<1>10. CASE Block \/ FdsDone \/ TimersDone \/ (\E e \in XEvents : Send(e)) \/ UNCHANGED vars
  BY <1>10, IdleKeeps
<1> QED BY <1>1, <1>2, <1>3, <1>4, <1>5, <1>6, <1>7, <1>8, <1>9, <1>10 DEF Next, Loop

----------------------------------------------------------------------------
(* The initial state                                                       *)

(* r is q with a new event for a descriptor, named by pointer o.           *)
Registers(q, r, o) ==
    /\ Consistent(r, r.current, r.delete) /\ r.current = Null /\ r.delete = FALSE
    /\ DOMAIN r.cb = Ev /\ r.due = q.due
    /\ r.kind = [q.kind EXCEPT ![alloc_event(q)] = "fd"]
    /\ r.ptr = [q.ptr EXCEPT ![o] = alloc_event(q)]
    /\ poller_fd_get_mask(r, alloc_event(q)) = {"in"}

(* poller_add_fd() and poller_set_autoreset() before the loop runs         *)
LEMMA RegistersFd ==
    ASSUME NEW q, Consistent(q, q.current, q.delete), q.current = Null, q.delete = FALSE, DOMAIN q.cb = Ev,
           CanAlloc(q), NEW o \in Ptrs, ~ IsSet(q, o), NEW r, r = Registered(q, o, o)
    PROVE  Registers(q, r, o)
<1> DEFINE g == IF q.freeSlots = <<>> THEN grow_pollfd_array(q) ELSE q
           e == alloc_event(q)
           k == Head(g.freeSlots)
           fd == [evt |-> e, file |-> o, on |-> TRUE, mask |-> {"in"}, revents |-> {}]
<1>1. e \in Ev /\ q.kind[e] = "free"
  BY AllocIsFree
<1>2. /\ Consistent(g, q.current, q.delete) /\ g.freeSlots # <<>>
      /\ g.kind = q.kind /\ g.ptr = q.ptr /\ g.cb = q.cb /\ g.due = q.due
      /\ g.current = Null /\ g.delete = FALSE
  <2>1. CASE q.freeSlots = <<>>
    <3>1. g = grow_pollfd_array(q)
      BY <2>1
    <3>2. g.cb = q.cb /\ g.due = q.due
      BY <3>1 DEF grow_pollfd_array, Consistent, Shape, Form, Fields
    <3> HIDE DEF g
    <3> QED BY <2>1, <3>1, <3>2, GrowOK
  <2>2. CASE q.freeSlots # <<>>
    BY <2>2
  <2> QED BY <2>1, <2>2
<1>3. alloc_event(g) = e
  BY <1>2 DEF alloc_event
<1>4. r = WithAutoreset([g EXCEPT !.pollfd[k] = fd, !.freeSlots = Tail(@),
                                  !.kind[e] = "fd", !.cb[e] = o], e, o)
  BY <1>3 DEF Registered, poller_add_fd
<1>5. DOMAIN g = Fields
  BY <1>2 DEF Consistent, Shape, Form
<1> HIDE DEF g, e, k, fd
<1>6. /\ r.kind = [g.kind EXCEPT ![e] = "fd"] /\ r.cb = [g.cb EXCEPT ![e] = o]
      /\ r.ptr = [g.ptr EXCEPT ![o] = e] /\ r.pollfd = [g.pollfd EXCEPT ![k] = fd]
      /\ r.due = g.due /\ r.current = g.current /\ r.delete = g.delete
  BY <1>4, <1>5 DEF WithAutoreset, poller_set_autoreset, Fields
<1>7. Consistent(r, r.current, r.delete)
  <2>1. r = WithAutoreset(poller_add_fd(q, o, o, {"in"}), e, o)
    BY DEF Registered, e
  <2> QED BY <2>1, AddFdOK DEF e
<1>8. poller_fd_get_mask(r, e) = {"in"}
  <2>1. k \in DOMAIN g.pollfd
    <3>1. g.freeSlots \in Seq(Nat) /\ \A i \in DOMAIN g.freeSlots : g.freeSlots[i] \in DOMAIN g.pollfd
      BY <1>2 DEF Consistent, Shape, Form, FreeSlots
    <3> QED BY <1>2, <3>1, PopSlot DEF k
  <2>2. k \in DOMAIN r.pollfd /\ r.pollfd[k] = fd
    BY <1>6, <2>1
  <2>3. fd.evt = e /\ fd.mask = {"in"}
    BY DEF fd
  <2>4. Slots(r) /\ r.kind[e] = "fd"
    <3>1. g.kind \in [Ev -> EventKinds]
      BY <1>2 DEF Consistent, Shape, Form
    <3> QED BY <1>1, <1>6, <1>7, <3>1 DEF Consistent
  <2>5. \A i \in DOMAIN r.pollfd : i # SlotOf(r, e) => r.pollfd[i].evt # e
    BY <1>1, <2>4, SlotOfFd
  <2>6. SlotOf(r, e) = k
    BY <2>2, <2>3, <2>5
  <2> QED BY <2>2, <2>3, <2>6 DEF poller_fd_get_mask
<1> QED BY <1>2, <1>6, <1>7, <1>8 DEF e, Registers

(* A window starts with nothing inhibited and its terminal registered.     *)
LEMMA InitRight == Init => IInv
<1> SUFFICES ASSUME Init PROVE IInv
  OBVIOUS
<1> DEFINE n == EmptyPoller
           a == alloc_event(n)
           c == Registered(n, "con", "con")
           b == alloc_event(c)
           q == Registered(c, "tty", "tty")
<1>1. {"con", "tty"} \subseteq Ptrs /\ Timers \subseteq Ptrs /\ "con" \notin Timers /\ "tty" \notin Timers
  BY WindowLoopAssumption DEF Timers
<1>2. /\ Consistent(n, n.current, n.delete) /\ n.current = Null /\ n.delete = FALSE /\ DOMAIN n.cb = Ev
      /\ n.kind = [e \in Ev |-> "free"] /\ n.ptr = [o \in Ptrs |-> Null]
  <2>1. n.current = Null /\ n.delete = FALSE
    BY DEF EmptyPoller
  <2>2. Consistent(n, n.current, n.delete)
    BY <2>1, EmptyOK
  <2> QED BY <2>1, <2>2 DEF EmptyPoller
<1> HIDE DEF n
<1>3. CanAlloc(n) /\ ~ IsSet(n, "con")
  BY <1>1, <1>2, WindowLoopAssumption DEF CanAlloc, IsSet
<1>4. a \in Ev
  BY <1>3, AllocIsFree
<1> HIDE DEF a
<1>5. /\ Consistent(c, c.current, c.delete) /\ c.current = Null /\ c.delete = FALSE /\ DOMAIN c.cb = Ev
      /\ c.kind = [n.kind EXCEPT ![a] = "fd"] /\ c.ptr = [n.ptr EXCEPT !["con"] = a]
  <2>1. c = Registered(n, "con", "con")
    OBVIOUS
  <2> HIDE DEF c
  <2>2. Registers(n, c, "con")
    BY <1>1, <1>2, <1>3, <2>1, RegistersFd
  <2> QED BY <2>2 DEF Registers, a
<1> HIDE DEF c
<1>6. CanAlloc(c)
  <2>1. PICK e \in Ev : e # a
    BY WindowLoopAssumption
  <2>2. c.kind[e] = "free"
    BY <1>2, <1>5, <2>1
  <2> QED BY <2>1, <2>2 DEF CanAlloc
<1>7. ~ IsSet(c, "tty")
  BY <1>1, <1>2, <1>5 DEF IsSet
<1>8. b \in Ev
  BY <1>6, AllocIsFree
<1> HIDE DEF b
<1>9. /\ Consistent(q, q.current, q.delete) /\ q.current = Null /\ q.delete = FALSE /\ DOMAIN q.cb = Ev
      /\ q.kind = [c.kind EXCEPT ![b] = "fd"] /\ q.ptr = [c.ptr EXCEPT !["tty"] = b]
      /\ poller_fd_get_mask(q, b) = {"in"}
  <2>1. q = Registered(c, "tty", "tty")
    OBVIOUS
  <2> HIDE DEF q
  <2>2. Registers(c, q, "tty")
    BY <1>1, <1>5, <1>6, <1>7, <2>1, RegistersFd
  <2> QED BY <2>2 DEF Registers, b
<1>10. /\ w = [p |-> q, rd |-> 0, rn |-> 0, any |-> FALSE, force |-> FALSE, gone |-> FALSE,
               req |-> FALSE, buf |-> <<>>, fresh |-> TRUE, fd |-> TRUE, child |-> TRUE,
               had |-> FALSE, out |-> <<>>, slave |-> TRUE, proc |-> "runs"]
       /\ phase = "poll" /\ slot = 0 /\ xev = <<>>
  BY DEF Init, Start, n, c
<1> HIDE DEF q
<1>11. /\ q.kind[b] = "fd" /\ q.ptr["tty"] = b /\ b # Null
       /\ \A e \in Ev : q.kind[e] # "timer"
       /\ \A t \in Timers : q.ptr[t] = Null
  <2>1. b # Null /\ q.ptr["tty"] = b
    BY <1>1, <1>2, <1>5, <1>8, <1>9, EventsAssumption
  <2>2. \A e \in Ev : q.kind[e] = IF e = b THEN "fd" ELSE IF e = a THEN "fd" ELSE "free"
    BY <1>2, <1>5, <1>9
  <2>3. \A t \in Timers : q.ptr[t] = Null
    BY <1>1, <1>2, <1>5, <1>9
  <2> QED BY <1>8, <2>1, <2>2, <2>3
<1>12. Form(q) /\ q.failed = FALSE /\ Pointers(q, q.current, q.delete) /\ Slots(q)
  BY <1>9 DEF Consistent, Shape
<1>13. Fitted(q)
  BY <1>9, <1>12 DEF Form, Fitted, Slotted, IsSlot
<1>14. Types(w)
  <2>1. <<>> \in Seq(Output) /\ <<>> \in Seq(Commands)
    OBVIOUS
  <2> QED BY <1>10, <1>13, <2>1 DEF Types, ProcessFields
<1>15. Sound(q, TRUE)
  <2>1. Current(q, TRUE) /\ Pointed(q) /\ Arming(q)
    BY <1>9, <1>11 DEF Current, Pointed, Arming
  <2>2. Owning(q)
    <3>1. \A e \in Ev : q.pptr[e] \in Ptrs => q.ptr[q.pptr[e]] = e
      BY <1>9, <1>12, EventsAssumption DEF Pointers
    <3> QED BY <1>1, <1>11, <3>1 DEF Owning
  <2>3. Terminal(q, TRUE)
    <3>1. q.pptr[b] = "tty"
      BY <1>1, <1>11, <1>12 DEF Pointers
    <3>2. /\ SlotOf(q, b) \in DOMAIN q.pollfd /\ q.pollfd[SlotOf(q, b)].evt = b
          /\ \A i \in DOMAIN q.pollfd : i # SlotOf(q, b) => q.pollfd[i].evt # b
      BY <1>8, <1>11, <1>12, SlotOfFd
    <3> QED BY <1>11, <3>1, <3>2 DEF Terminal
  <2>4. IsFiniteSet(Configures(q))
    BY <1>11, FS_EmptySet DEF Configures
  <2> QED BY <2>1, <2>2, <2>3, <2>4 DEF Sound
<1>16. RenderCount(q) = 0 /\ ReadBound(q) = 0 /\ ~ Deaf(q)
  <2>1. \A t \in Timers : Live(q, t) = 0
    BY <1>11 DEF Live, IsSet
  <2>2. Configures(q) = {}
    BY <1>11 DEF Configures
  <2> QED BY <1>9, <1>11, <2>1, <2>2, FS_EmptySet DEF RenderCount, ReadBound, Deaf, Timers
<1>17. w.p = q /\ w.fd = TRUE /\ w.rd = 0 /\ w.rn = 0
  BY <1>10
<1>18. Right(w, 0)
  <2>1. w.fd /\ Sound(w.p, w.fd)
    BY <1>15, <1>17
  <2>2. w.rn = RenderCount(w.p) /\ w.rd <= ReadBound(w.p) + 0 /\ (Deaf(w.p) <=> w.rd > 0)
    BY <1>16, <1>17
  <2> QED BY <1>14, <2>1, <2>2 DEF Right, Steady, Counted
<1>19. Len(w.p.pollfd) \in Nat /\ <<>> \in Seq(XEvents)
  BY <1>14, LengthKept
<1> QED BY <1>9, <1>10, <1>17, <1>18, <1>19 DEF IInv

----------------------------------------------------------------------------
(* The theorems                                                            *)

(* In every state, counters, pointers and timers are as IInv says.         *)
THEOREM Inductive == Spec => []IInv
<1>1. Init => IInv
  BY InitRight
<1>2. IInv /\ [Next]_vars => IInv'
  BY NextKeeps
<1> QED BY <1>1, <1>2, PTL DEF Spec

(* With no callback running, Live and TimerSet are the same.               *)
LEMMA RenderExactHolds == IInv => RenderExact
<1> SUFFICES ASSUME IInv, ~ w.gone, ~ w.p.failed PROVE w.rn = Count(RenderTimers)
  BY DEF RenderExact, RenderTimers
<1> DEFINE S == {t \in RenderTimers : TimerSet(w, t)}
           n(t) == IF t \in S THEN 1 ELSE 0
<1>1. w.rn = RenderCount(w.p) /\ w.p.current = Null
  BY DEF IInv, Right, Counted, Alive
<1>2. \A t \in RenderTimers : Live(w.p, t) = n(t)
  BY <1>1 DEF Live, IsSet, TimerSet
<1>3. w.rn = n("frame") + n("redraw") + n("sync")
  BY <1>1, <1>2 DEF RenderCount, RenderTimers
<1>4. S \subseteq RenderTimers
  OBVIOUS
<1> HIDE DEF S
<1>5. Cardinality(S) = n("frame") + n("redraw") + n("sync")
  <2> DEFINE A == S \cap {"frame"}
             B == S \cap {"frame", "redraw"}
  <2>1. IsFiniteSet(A) /\ Cardinality(A) = n("frame")
    <3>1. CASE "frame" \in S
      <4>1. A = {"frame"}
        BY <3>1
      <4> QED BY <3>1, <4>1, FS_Singleton
    <3>2. CASE "frame" \notin S
      <4>1. A = {}
        BY <3>2
      <4> QED BY <3>2, <4>1, FS_EmptySet
    <3> QED BY <3>1, <3>2
  <2>2. IsFiniteSet(B) /\ Cardinality(B) = Cardinality(A) + n("redraw")
    <3>1. CASE "redraw" \in S
      <4>1. B = A \cup {"redraw"} /\ "redraw" \notin A
        BY <3>1
      <4> HIDE DEF A, B
      <4> QED BY <2>1, <3>1, <4>1, FS_AddElement
    <3>2. CASE "redraw" \notin S
      <4>1. B = A
        BY <3>2
      <4> HIDE DEF A, B
      <4> QED BY <2>1, <3>2, <4>1
    <3> QED BY <3>1, <3>2
  <2>3. Cardinality(S) = Cardinality(B) + n("sync")
    <3>1. CASE "sync" \in S
      <4>1. S = B \cup {"sync"} /\ "sync" \notin B
        BY <1>4, <3>1 DEF RenderTimers
      <4> HIDE DEF B
      <4> QED BY <2>2, <3>1, <4>1, FS_AddElement
    <3>2. CASE "sync" \notin S
      <4>1. S = B
        BY <1>4, <3>2 DEF RenderTimers
      <4> HIDE DEF B
      <4> QED BY <2>2, <3>2, <4>1, FS_CardinalityType
    <3> QED BY <3>1, <3>2
  <2> HIDE DEF A, B
  <2> QED BY <2>1, <2>2, <2>3
<1> QED BY <1>3, <1>5 DEF Count, S

(* The invariant implies the type invariant.                               *)
LEMMA TypesHold == IInv => TypeOK
<1> SUFFICES ASSUME IInv PROVE TypeOK
  OBVIOUS
<1>1. Types(w)
  BY DEF IInv, Right, Steady
<1>2. ~ w.gone /\ ~ w.p.failed => w.rn \in Nat
  <2>1. RenderCount(w.p) \in Nat
    BY DEF RenderCount, Live
  <2> QED BY <2>1 DEF IInv, Right, Counted, Alive
<1> QED BY <1>1, <1>2 DEF Types, Output, TypeOK, IInv

(* RedrawRight of window.c, for every configuration: redrawing is          *)
(* inhibited once for each of the timers frame, redraw and sync that are   *)
(* set, after any calls of window_delay_redraw(), window_set_sync(),       *)
(* window_request_scroll_flush(), reload and resize, in any order.         *)
THEOREM RedrawIsRight == Spec => []RedrawRight
<1>1. IInv => RedrawRight
  BY RenderExactHolds, TypesHold DEF RedrawRight
<1> QED BY <1>1, Inductive, PTL

(* A counted timer that inhibits reading is armed, for no callback runs.   *)
LEMMA NotDeafHolds == IInv => NotDeaf
<1> SUFFICES ASSUME IInv, ~ w.gone, w.fd, ~ w.p.failed
             PROVE  /\ Off <=> w.rd > 0
                    /\ Off => ArmedFor("smooth") \cup ArmedFor("configure") # {}
  BY DEF NotDeaf
<1>1. /\ Sound(w.p, w.fd) /\ w.rd <= ReadBound(w.p) + 0 /\ (Deaf(w.p) <=> w.rd > 0)
      /\ w.p.current = Null /\ w.rd \in Int
  BY DEF IInv, Right, Steady, Types, Counted, Alive
<1>2. Off <=> w.rd > 0
  BY <1>1 DEF Off, Deaf
<1>3. ASSUME w.rd > 0 PROVE ArmedFor("smooth") \cup ArmedFor("configure") # {}
  <2>1. Live(w.p, "smooth") \in {0, 1}
    BY DEF Live
  <2>2. IsFiniteSet(Configures(w.p)) /\ Cardinality(Configures(w.p)) \in Nat
    BY <1>1, FS_CardinalityType DEF Sound
  <2>3. Live(w.p, "smooth") = 1 \/ Cardinality(Configures(w.p)) # 0
    BY <1>1, <1>3, <2>1, <2>2 DEF ReadBound
  <2>4. \A e \in Ev : w.p.kind[e] = "timer" => e \in DOMAIN w.p.due
    BY <1>1, EventsAssumption DEF Sound, Arming
  <2>5. CASE Live(w.p, "smooth") = 1
    <3> DEFINE e == w.p.ptr["smooth"]
    <3>1. "smooth" \in Timers /\ e # Null
      BY <2>5 DEF Live, IsSet, Timers
    <3>2. w.p.kind[e] = "timer" /\ w.p.cb[e] = "smooth"
      BY <1>1, <3>1 DEF Sound, Pointed
    <3>3. e \in Ev
      <4>1. w.p.ptr \in [Ptrs -> Ev \cup {Null}] /\ "smooth" \in Ptrs
        BY <3>1, WindowLoopAssumption DEF IInv, Right, Steady, Types, Fitted
      <4> QED BY <3>1, <4>1
    <3>4. e \in ArmedFor("smooth")
      BY <2>4, <3>2, <3>3 DEF ArmedFor
    <3> QED BY <3>4
  <2>6. CASE Cardinality(Configures(w.p)) # 0
    <3>1. PICK e : e \in Configures(w.p)
      BY <2>2, <2>6, FS_EmptySet
    <3>2. e \in ArmedFor("configure")
      BY <2>4, <3>1 DEF Configures, ArmedFor
    <3> QED BY <3>2
  <2> QED BY <2>3, <2>5, <2>6
<1> QED BY <1>2, <1>3

(* NotDeaf of window.c, for every configuration: the terminal is not read  *)
(* while, and only while, inhibit_read_counter is positive, and then the   *)
(* timer smooth or a timer configure is armed, which will decrease it.     *)
THEOREM NeverDeaf == Spec => []NotDeaf
BY NotDeafHolds, Inductive, PTL
=============================================================================
