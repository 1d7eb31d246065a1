------------------------------ MODULE Printer ------------------------------
(***************************************************************************)
(* tty.c, screen.c: the printer. In controller mode printer_intercept()    *)
(* takes what is read before the terminal does; otherwise programs print   *)
(* rows. The printer is a file or a command, whose end SIGCHLD tells.      *)
(*                                                                         *)
(* Bytes are "ESC", "CSI", "[", "4", "5", "i", "NUL" (and XON, XOFF, which *)
(* are eaten too) and "x", any other. The screen has rows 1 to Height, and *)
(* row 0 is the scrollback.                                                *)
(***************************************************************************)
EXTENDS Integers, Sequences, SequencesExt

CONSTANTS
    Programs,           \* the printer; the first bytes of a program, those that follow, and its commands
    Height, MaxRead, MaxText, MaxSteps,     \* bounds: bytes of a read, of all, commands
    PartialWrites       \* a write may take a part

(* p: of struct printer state, on (print_controller) and of its watcher    *)
(* fd, child, inlist; esc what the terminal has of a sequence. alive and   *)
(* reaped are of the child; pc the place in                                *)
(* init_printer() and remove_watcher(). paper is what was written, shown   *)
(* what the terminal was given, text what was read and cut the places of   *)
(* bytes of a sequence that had begun when a read ended. early and late    *)
(* tell that the child was reaped before it was in the list or after,      *)
(* stray that its number was signalled then.                               *)
VARIABLE p
Init == \E program \in Programs :
    p = [program |-> program, state |-> "ground", on |-> FALSE, esc |-> "ground", auto |-> FALSE, extend |-> FALSE, feed |-> FALSE,
         top |-> 1, bottom |-> Height, y |-> 1, fd |-> IF program.command THEN "none" ELSE "open", child |-> "none", inlist |-> FALSE,
         alive |-> FALSE, reaped |-> FALSE, stray |-> FALSE, early |-> FALSE, late |-> FALSE,
         pc |-> IF program.command THEN "fork" ELSE "run",
         paper |-> <<>>, shown |-> <<>>, text |-> <<>>, cut |-> {}, n |-> 0]

printer_is_available(q) == q.fd # "none"

(* Each write is of the whole string, until as much as it has been taken   *)
RECURSIVE Taken(_, _, _)
Taken(paper, str, left) ==
    IF left <= 0 THEN {paper}
    ELSE UNION {Taken(paper \o SubSeq(str, 1, k), str, left - k) : k \in IF PartialWrites THEN 1..Len(str) ELSE {Len(str)}}
(* A number that is not open fails once, and is -1 from then on *)
printer_print_string(q, str) ==
    IF str = <<>> THEN {q} ELSE IF q.fd # "open" THEN {[q EXCEPT !.fd = "none"]}
    ELSE {[q EXCEPT !.paper = w] : w \in Taken(q.paper, str, Len(str))}
Each(set, Op(_)) == UNION {Op(q) : q \in set}

----------------------------------------------------------------------------
(* printer_intercept(): block is what is not printed yet                   *)

NextState(state, ch) ==
    CASE ch = "ESC" -> "esc" [] ch = "CSI" -> "csi"
      [] ch = "[" /\ state = "esc" -> "bracket"
      [] ch = "4" /\ state \in {"bracket", "csi"} -> "4"
      [] ch = "5" /\ state \in {"bracket", "csi"} -> "5"
      [] ch = "NUL" -> state
      [] OTHER -> "ground"
Flush(w, block) == {[q |-> q, block |-> block] : q \in printer_print_string(w.q, w.block)}
Byte(w, ch) ==
    LET s == [w EXCEPT !.q.state = NextState(@, ch)] IN
    CASE ch = "NUL" -> Flush(s, <<>>)
      [] ch \in {"ESC", "CSI"} -> Flush(s, <<ch>>)
      [] ch = "i" /\ w.q.state = "4" -> {[q |-> [w.q EXCEPT !.on = FALSE], block |-> <<>>]}
      [] ch = "i" /\ w.q.state = "5" -> {[s EXCEPT !.block = <<>>]}
      [] OTHER -> {[s EXCEPT !.block = Append(@, ch)]}
AtEnd(w) == IF w.q.state = "ground" THEN printer_print_string(w.q, w.block) ELSE {w.q}
RECURSIVE Intercept(_, _), term_dispatch(_, _)
Intercept(w, bytes) ==
    IF ~w.q.on THEN term_dispatch(w.q, bytes)
    ELSE IF bytes = <<>> THEN AtEnd(w)
    ELSE UNION {Intercept(v, Tail(bytes)) : v \in Byte(w, Head(bytes))}
printer_intercept(q, bytes) == Intercept([q |-> q, block |-> <<>>], bytes)

(* The terminal; MC with 5 hands what follows to the printer *)
TermState(esc, ch) == IF ch = "NUL" THEN esc ELSE IF ch \in {"ESC", "CSI", "[", "4", "5"} THEN NextState(esc, ch) ELSE "ground"
(* Mutant: the state of the printer's parser is that of the last time *)
Enabled_stale(q) == IF printer_is_available(q) THEN [q EXCEPT !.on = TRUE] ELSE q
Enabled(q) == IF printer_is_available(q) THEN [q EXCEPT !.on = TRUE, !.state = "ground"] ELSE q
Shown(q, ch) ==
    LET t == [q EXCEPT !.esc = TermState(@, ch), !.shown = IF ch = "NUL" THEN @ ELSE Append(@, ch)]
    IN  IF ch = "i" /\ q.esc = "5" THEN Enabled(t) ELSE t
term_dispatch(q, bytes) ==
    IF bytes = <<>> THEN {q}
    ELSE LET t == Shown(q, Head(bytes))
         IN  IF t.on THEN printer_intercept(t, Tail(bytes)) ELSE term_dispatch(t, Tail(bytes))
do_read(q, bytes) == IF q.on THEN printer_intercept(q, bytes) ELSE term_dispatch(q, bytes)

----------------------------------------------------------------------------
(* Rows                                                                    *)

Row(r) == <<"row 0", "row 1", "row 2", "row 3">>[r + 1]
screen_print_line(q, r) == IF printer_is_available(q) THEN printer_print_string(q, <<Row(r)>>) ELSE {q}
PrintRows(q, rows) == FoldLeft(LAMBDA set, r : Each(set, LAMBDA s : screen_print_line(s, r)), {q}, rows)
Top(q, force_ext) == IF force_ext \/ q.extend THEN 1 ELSE q.top
Bottom(q, force_ext) == IF force_ext \/ q.extend THEN Height ELSE q.bottom
(* All rows but the last *)
RowsBefore(top, bottom) == [j \in 1..(IF bottom > top THEN bottom - top ELSE 0) |-> top + j - 1]
FormFeed(q) == IF q.feed THEN printer_print_string(q, <<"feed">>) ELSE {q}
screen_print_screen(q, force_ext) ==
    IF ~printer_is_available(q) THEN {q}
    ELSE Each(PrintRows(q, RowsBefore(Top(q, force_ext), Bottom(q, force_ext))), FormFeed)
screen_print_all(q) == PrintRows(q, [j \in 1..(Height + 1) |-> j - 1])
screen_autoprint(q) == IF q.auto THEN screen_print_line(q, q.y) ELSE {q}

----------------------------------------------------------------------------
Step(set) == p.n < MaxSteps /\ \E q \in set : p' = [q EXCEPT !.n = @ + 1]
Running == p.pc = "run"
Alphabet == p.program.bytes \cup ToSet(p.program.start)
Command(c) == Running /\ ~p.on /\ p.esc = "ground" /\ c \in p.program.commands

(* The sequences, and the places of one that has begun at the end of s *)
Introduced(ch) == {<<"CSI", ch, "i">>, <<"ESC", "[", ch, "i">>}
Begun(s) ==
    UNION {k..Len(s) : k \in {j \in DOMAIN s : \E seq \in Introduced("4") \cup Introduced("5") : IsStrictPrefix(SubSeq(s, j, Len(s)), seq)}}
Read(bytes) ==
    /\ Running /\ Len(p.text) + Len(bytes) <= Len(p.program.start) + MaxText
    /\ \A k \in DOMAIN bytes : Len(p.text) + k <= Len(p.program.start) => bytes[k] = p.program.start[Len(p.text) + k]
    /\ Step({[q EXCEPT !.cut = IF q.on THEN @ \cup Begun(q.text) ELSE @] : q \in do_read([p EXCEPT !.text = @ \o bytes], bytes)})
NewLine == Command("newline") /\ Step({[q EXCEPT !.y = IF @ < p.bottom THEN @ + 1 ELSE @] : q \in screen_autoprint(p)})
Margins == Command("margins") /\ Step({[p EXCEPT !.top = 2, !.y = 2]})
AutoPrint == Command("auto") /\ Step({[p EXCEPT !.auto = ~@]})
Extend == Command("extend") /\ Step({[p EXCEPT !.extend = ~@]})
Feed == Command("feed") /\ Step({[p EXCEPT !.feed = ~@]})
PrintLine == Command("print") /\ Step(screen_print_line(p, p.y))
PrintScreen == Command("print") /\ Step(screen_print_screen(p, FALSE))
PrintPage == Command("print") /\ Step(screen_print_screen(p, TRUE))
PrintAll == Command("print") /\ Step(Each(screen_print_all(p), LAMBDA q : screen_print_screen(q, TRUE)))

(* init_printer(): the fork and, later, add_watcher() *)
Fork == p.pc = "fork" /\ p' = [p EXCEPT !.child = "pid", !.alive = TRUE, !.fd = "open", !.pc = "add"]
add_watcher == p.pc = "add" /\ p' = [p EXCEPT !.inlist = TRUE, !.pc = "run"]
(* remove_watcher(), with SIGCHLD between its steps *)
Close == p.pc = "run" /\ p' = [p EXCEPT !.fd = "none", !.pc = "remove"]
Unlink == p.pc = "remove" /\ p' = [p EXCEPT !.inlist = FALSE, !.pc = "kill"]
Kill == p.pc = "kill" /\ p' = [p EXCEPT !.stray = (p.child = "pid" /\ p.reaped), !.child = "none", !.pc = "done"]
Exit == p.alive /\ p' = [p EXCEPT !.alive = FALSE]
handle_chld ==
    /\ p.pc # "fork" /\ ~p.alive /\ ~p.reaped /\ p.program.command
    /\ p' = [p EXCEPT !.reaped = TRUE, !.early = (p.pc = "add"), !.late = (p.pc = "kill"), !.child = IF p.inlist THEN "none" ELSE @,
                      !.fd = IF p.inlist /\ @ = "open" THEN "closed" ELSE @]

Next ==
    \/ \E k \in 1..MaxRead : \E bytes \in [1..k -> Alphabet] : Read(SubSeq(bytes, 1, k))
    \/ NewLine \/ Margins \/ AutoPrint \/ Extend \/ Feed \/ PrintLine \/ PrintScreen \/ PrintPage \/ PrintAll
    \/ p.program.command /\ (Fork \/ add_watcher \/ Close \/ Unlink \/ Kill \/ Exit \/ handle_chld)
Spec == Init /\ [][Next]_p

----------------------------------------------------------------------------
(* The stream without reads: what the printer and the terminal are sent.   *)
At(k, seqs) == \E seq \in seqs : IsPrefix(seq, SubSeq(p.text, k, Len(p.text)))
Behind(k) == k + (IF p.text[k] = "CSI" THEN 3 ELSE 4)
RECURSIVE ForPrinter(_, _)
ForPrinter(k, on) ==
    IF k > Len(p.text) THEN <<>>
    ELSE IF At(k, Introduced("5")) THEN ForPrinter(Behind(k), TRUE)
    ELSE IF on /\ At(k, Introduced("4")) THEN ForPrinter(Behind(k), FALSE)
    ELSE (IF on /\ p.text[k] # "NUL" /\ k \notin p.cut THEN <<p.text[k]>> ELSE <<>>) \o ForPrinter(k + 1, on)

(* However the output is split into reads, the printer gets in controller  *)
(* mode every byte that is read but NUL and the sequences that begin and   *)
(* end the mode, once and in order, and nothing that is read otherwise.    *)
(* What it does not get is the bytes of a sequence that has begun when a   *)
(* read ends, and then is none: the next read prints what it holds itself. *)
(* NUL in a sequence and writes that take a part are left out: see the     *)
(* README.                                                                 *)
InSequence(s) == \E k \in 2..Len(s) : s[k] = "NUL" /\ s[k - 1] # "x" /\ s[k - 1] # "i"
PaperExact ==
    p.fd = "open" /\ ~InSequence(p.text) =>
        SelectSeq(p.paper, LAMBDA c : c \in {"ESC", "CSI", "[", "4", "5", "i", "x"}) = ForPrinter(1, FALSE)

(* A command that ended while its watcher is in the list is not signalled, *)
(* wherever SIGCHLD comes: also between the close and the removal of       *)
(* remove_watcher(). It says nothing of SIGCHLD before add_watcher() or    *)
(* after the watcher has left the list, when a number that is nobody's any *)
(* more is signalled: see the README.                                      *)
NoStray == p.stray => p.early \/ p.late
=============================================================================
