-------------------------------- MODULE Tty --------------------------------
(***************************************************************************)
(* tty.c: what the terminal writes to the application.  The pty takes only *)
(* so much; the rest is deferred in a list that is flushed before anything *)
(* else is written, and whenever the pty has been read.                    *)
(*                                                                         *)
(* An action is one write(2) or what lies between two of them: meanwhile   *)
(* the application reads or closes the terminal, and SIGCHLD is handled.   *)
(* The bytes are numbered in the order tty_write() was asked to write      *)
(* them, and what is still to be written is a sequence of ranges.          *)
(***************************************************************************)
EXTENDS Integers, Sequences

CONSTANTS Writes,   (* calls of tty_write(): sizes of the pieces it writes,  *)
                    (* split at every CR if crlf is set                      *)
          MaxAsked, (* no call once so many bytes were asked for             *)
          Chunk,    (* TTY_MAX_WRITE                                         *)
          Capacity  (* what the pty holds                                    *)

ASSUME TtyAssumption ==
    /\ Writes \subseteq Seq(Nat)
    /\ MaxAsked \in Nat
    /\ Chunk \in Nat \ {0}
    /\ Capacity \in Nat \ {0}

VARIABLES fd,       (* tty->w.fd >= 0, and then tty->evt is set              *)
          child,    (* tty->w.child >= 0                                     *)
          mask,     (* of tty->evt: subset of {"in", "out"}                  *)
          on,       (* tty->evt is enabled                                   *)
          deferred, (* tty->deferred                                         *)
          count,    (* tty->deferred_count                                   *)
          freed,    (* tty->deferred links to nodes that were freed          *)
          pc,       (* "idle", or in tty_write(), in flush_deferred(), in    *)
                    (* the loop of tty_write_raw(); "freed", "undefined"     *)
          todo,     (* sizes of the pieces tty_write() has left              *)
          piece,    (* <<what tty_write_raw() has left>>, or empty           *)
          asked,    (* bytes asked for                                       *)
          got,      (* bytes the pty took, in order                          *)
          taken,    (* how many of them the application has read             *)
          open      (* somebody has the other end open                       *)

tty == <<fd, child, mask, on, deferred, count, freed>>
pty == <<got, taken, open>>
call == <<todo, piece, asked>>
vars == <<tty, pc, call, pty>>

(* tty_open() *)
Init ==
    /\ fd = TRUE /\ child = TRUE
    /\ mask = {"in"} /\ on = TRUE
    /\ deferred = <<>> /\ count = 0 /\ freed = FALSE
    /\ pc = "idle" /\ todo = <<>> /\ piece = <<>> /\ asked = 0
    /\ got = <<>> /\ taken = 0 /\ open = TRUE

Left(r) == r.upto - r.from + 1

Room == Capacity - (Len(got) - taken)

----------------------------------------------------------------------------
(* The result of write(2), for n bytes *)

Error == ~ fd \/ ~ open                        \* EBADF, EIO
Again(n) == ~ Error /\ (n = 0 \/ Room = 0)     \* 0, EAGAIN
Takes(n) == IF Error THEN {} ELSE {k \in 1 .. n : k <= Room}

Put(r, k) ==
    /\ got' = got \o [i \in 1 .. k |-> r.from + i - 1]
    /\ UNCHANGED <<taken, open>>

AtMost(n) == IF n < Chunk THEN n ELSE Chunk

Advance(r, k) == [r EXCEPT !.from = @ + k]

(* tty_toggle_read(), tty_toggle_write() *)
SetMask(new) ==
    /\ mask' = new
    /\ on' = IF (new = {}) # (mask = {}) THEN new # {} ELSE on

(* The nodes are freed but neither unlinked nor uncounted. *)
tty_hang ==
    /\ fd' = FALSE /\ child' = FALSE
    /\ mask' = {} /\ on' = FALSE
    /\ freed' = (deferred # <<>>)
    /\ UNCHANGED <<deferred, count>>

(* Mutant: POLLOUT is not asked for. *)
defer_write_silent ==
    IF ~ child THEN UNCHANGED tty
    ELSE /\ deferred' = deferred \o piece
         /\ count' = count + 1
         /\ UNCHANGED <<fd, child, freed, mask, on>>

(* What is left of the piece goes to the end of the list.                  *)
defer_write ==
    IF ~ child THEN UNCHANGED tty
    ELSE /\ deferred' = deferred \o piece
         /\ count' = count + 1
         /\ IF deferred = <<>> THEN SetMask(mask \cup {"out"}) ELSE UNCHANGED <<mask, on>>
         /\ UNCHANGED <<fd, child, freed>>

----------------------------------------------------------------------------
(* flush_deferred(), when deferred_count is not 0 *)

(* Mutant: every write is counted, not every node. *)
FlushSome_counting ==
    /\ pc = "flush" /\ deferred # <<>> /\ ~ freed
    /\ LET r == Head(deferred)
       IN \E k \in Takes(AtMost(Left(r))) :
            /\ Put(r, k)
            /\ count' = count - 1
            /\ IF k = Left(r) THEN deferred' = Tail(deferred)
                              ELSE deferred' = [deferred EXCEPT ![1] = Advance(@, k)]
    /\ UNCHANGED <<fd, child, mask, on, freed, pc, call>>

FlushSome ==
    /\ pc = "flush" /\ deferred # <<>> /\ ~ freed
    /\ LET r == Head(deferred)
       IN \E k \in Takes(AtMost(Left(r))) :
            /\ Put(r, k)
            /\ IF k = Left(r)
               THEN deferred' = Tail(deferred) /\ count' = count - 1
               ELSE deferred' = [deferred EXCEPT ![1] = Advance(@, k)] /\ count' = count
    /\ UNCHANGED <<fd, child, mask, on, freed, pc, call>>

(* Mutant: POLLOUT stays. *)
FlushEnds_polling ==
    /\ pc = "flush" /\ deferred = <<>>
    /\ pc' = IF piece = <<>> THEN "idle" ELSE "write"
    /\ UNCHANGED <<tty, call, pty>>

(* It returns true, to tty_refill() or to tty_write_raw().                 *)
FlushEnds ==
    /\ pc = "flush" /\ deferred = <<>>
    /\ SetMask(mask \ {"out"})
    /\ pc' = IF piece = <<>> THEN "idle" ELSE "write"
    /\ UNCHANGED <<fd, child, deferred, count, freed, call, pty>>

(* It returns false: tty_write_raw() defers the piece.                     *)
Abandon ==
    /\ pc' = IF piece = <<>> THEN "idle" ELSE "pieces"
    /\ piece' = <<>>
    /\ UNCHANGED <<todo, asked, pty>>

FlushStops ==
    /\ pc = "flush" /\ deferred # <<>> /\ ~ freed
    /\ Again(AtMost(Left(Head(deferred))))
    /\ IF piece = <<>> THEN UNCHANGED tty ELSE defer_write
    /\ Abandon

(* defer_write() does nothing after tty_hang(). *)
FlushFails ==
    /\ pc = "flush" /\ deferred # <<>> /\ ~ freed
    /\ Error
    /\ tty_hang
    /\ Abandon

(* The list links to freed memory. *)
FlushFreed ==
    /\ pc = "flush" /\ freed
    /\ pc' = "undefined"
    /\ UNCHANGED <<tty, call, pty>>

----------------------------------------------------------------------------
(* tty_write() *)

Ask(sizes) ==
    /\ pc = "idle"
    /\ child /\ asked < MaxAsked
    /\ todo' = sizes
    /\ pc' = "pieces"
    /\ UNCHANGED <<tty, piece, asked, pty>>

(* Mutant: it writes in front of what was deferred. *)
NextPiece_ahead ==
    /\ pc = "pieces" /\ todo # <<>>
    /\ piece' = <<[from |-> asked + 1, upto |-> asked + Head(todo)]>>
    /\ asked' = asked + Head(todo)
    /\ todo' = Tail(todo)
    /\ pc' = "write"
    /\ UNCHANGED <<tty, pty>>

(* tty_write_raw() begins. *)
NextPiece ==
    /\ pc = "pieces" /\ todo # <<>>
    /\ piece' = <<[from |-> asked + 1, upto |-> asked + Head(todo)]>>
    /\ asked' = asked + Head(todo)
    /\ todo' = Tail(todo)
    /\ pc' = IF count = 0 THEN "write" ELSE "flush"
    /\ UNCHANGED <<tty, pty>>

WriteReturns ==
    /\ pc = "pieces" /\ todo = <<>>
    /\ pc' = "idle"
    /\ UNCHANGED <<tty, call, pty>>

WriteSome ==
    /\ pc = "write"
    /\ \E k \in Takes(AtMost(Left(piece[1]))) :
        /\ Put(piece[1], k)
        /\ IF k = Left(piece[1]) THEN piece' = <<>> /\ pc' = "pieces"
                                 ELSE piece' = <<Advance(piece[1], k)>> /\ pc' = pc
    /\ UNCHANGED <<tty, todo, asked>>

WriteStops ==
    /\ pc = "write"
    /\ Again(AtMost(Left(piece[1])))
    /\ defer_write
    /\ Abandon

WriteFails ==
    /\ pc = "write"
    /\ Error
    /\ tty_hang
    /\ Abandon

Step ==
    \/ FlushSome \/ FlushEnds \/ FlushStops \/ FlushFails \/ FlushFreed
    \/ NextPiece \/ WriteReturns \/ WriteSome \/ WriteStops \/ WriteFails

----------------------------------------------------------------------------
(* What the window calls, from poller_run() *)

(* tty_refill(): read(2) fails, or nothing comes and the child has exited. *)
RefillFails ==
    /\ pc = "idle" /\ fd
    /\ ~ open \/ ~ child
    /\ tty_hang
    /\ UNCHANGED <<pc, call, pty>>

(* tty_refill(), when a timer or the poller asks for it; what it reads is  *)
(* left out, and may be there after the other end was closed.              *)
Refill ==
    /\ pc = "idle" /\ fd
    /\ pc' = IF count = 0 THEN "idle" ELSE "flush"
    /\ UNCHANGED <<tty, call, pty>>

(* ppoll() reports that the pty takes something, or that it was closed.    *)
Polled == on /\ (~ open \/ ("out" \in mask /\ Room > 0))

PolledRefill == Polled /\ (Refill \/ RefillFails)

ToggleRead(enable) ==
    /\ pc = "idle" /\ fd
    /\ SetMask(IF enable THEN mask \cup {"in"} ELSE mask \ {"in"})
    /\ UNCHANGED <<fd, child, deferred, count, freed, pc, call, pty>>

(* tty_hang() of term_hang(), which window_check_sigchld() calls for every *)
(* SIGCHLD once the child has exited, of tty_set_winsz(), when its ioctl() *)
(* fails, and of free_term()                                               *)
Hang ==
    /\ pc = "idle"
    /\ ~ child \/ ~ open
    /\ IF freed THEN pc' = "undefined" /\ UNCHANGED tty
                ELSE tty_hang /\ UNCHANGED pc
    /\ UNCHANGED <<call, pty>>

FreeTerm ==
    /\ pc = "idle"
    /\ IF freed THEN pc' = "undefined" /\ UNCHANGED tty
                ELSE tty_hang /\ pc' = "freed"
    /\ UNCHANGED <<call, pty>>

----------------------------------------------------------------------------
(* The application, and handle_chld() *)

Take ==
    /\ open /\ taken < Len(got)
    /\ taken' = taken + 1
    /\ UNCHANGED <<tty, pc, call, got, open>>

CloseSlave ==
    /\ open
    /\ open' = FALSE
    /\ UNCHANGED <<tty, pc, call, got, taken>>

Sigchld ==
    /\ child
    /\ child' = FALSE
    /\ UNCHANGED <<fd, mask, on, deferred, count, freed, pc, call, pty>>

Next ==
    \/ Step
    \/ \E sizes \in Writes : Ask(sizes)
    \/ RefillFails \/ Refill
    \/ \E enable \in BOOLEAN : ToggleRead(enable)
    \/ Hang \/ FreeTerm
    \/ Take \/ CloseSlave \/ Sigchld

(* The process runs on and ppoll() reports, and the application reads.     *)
Fairness ==
    /\ WF_vars(Step)
    /\ WF_vars(PolledRefill)
    /\ WF_vars(Take)

Spec == Init /\ [][Next]_vars /\ Fairness

----------------------------------------------------------------------------
Bytes == {r \in [from : Nat, upto : Nat] : r.from <= r.upto + 1}

TypeOK ==
    /\ fd \in BOOLEAN /\ child \in BOOLEAN /\ on \in BOOLEAN
    /\ freed \in BOOLEAN /\ open \in BOOLEAN
    /\ mask \subseteq {"in", "out"}
    /\ deferred \in Seq(Bytes) /\ piece \in Seq(Bytes) /\ Len(piece) <= 1
    /\ count \in Nat
    /\ pc \in {"idle", "pieces", "flush", "write", "freed", "undefined"}
    /\ todo \in Seq(Nat)
    /\ asked \in Nat
    /\ got \in Seq(Nat) /\ taken \in 0 .. Len(got) /\ Room >= 0
    /\ pc = "write" => piece # <<>>

Pending == deferred \o piece

(* The application gets what was written in that order, nothing twice,     *)
(* also after the child has exited; and while it runs nothing is missing:  *)
(* what the pty has not taken is on the list, or still being written.      *)
InOrder ==
    /\ \A i \in 1 .. Len(got) - 1 : got[i] < got[i + 1]
    /\ child => /\ \A i \in 1 .. Len(got) : got[i] = i
                /\ \A i \in 1 .. Len(Pending) : Pending[i].from =
                        IF i = 1 THEN Len(got) + 1 ELSE Pending[i - 1].upto + 1
                /\ asked = IF Pending = <<>> THEN Len(got) ELSE Pending[Len(Pending)].upto

(* The poller is asked for POLLOUT exactly while something is deferred,    *)
(* and for nothing at all exactly while the event is disabled: neither a   *)
(* list that nobody flushes nor a busy loop.                               *)
PollOut ==
    fd /\ pc # "flush" =>
        /\ "out" \in mask <=> deferred # <<>>
        /\ count = Len(deferred)
        /\ on <=> mask # {}

(* What is written reaches an application that reads, unless it exits or   *)
(* closes the terminal, whatever the window does with POLLIN meanwhile.    *)
Delivered == taken < asked ~> taken = asked \/ ~ child \/ ~ open

----------------------------------------------------------------------------
(* What the repository says of itself and the code does not do *)

(* term.c:3934, of the order in which the window is freed: "to avoid       *)
(* double frees, which works".                                             *)
FreedOnce == pc # "undefined"
=============================================================================
