--------------------------------- MODULE Sgr --------------------------------
(***************************************************************************)
(* Attributes of text: how SGR sequences are decoded (term_decode_sgr(),   *)
(* term_decode_color() of term.c) and how an attribute is written as one   *)
(* (encode_sgr() of screen.c) for reports and the printer.                 *)
(*                                                                         *)
(* A colour is <<>> for the default, <<n>> of the palette, or <<r, g, b>>. *)
(* A sequence of parameters is a sequence of numbers, n + Sub for one that *)
(* follows a colon. bold, italic and the underline stand for all flags.    *)
(***************************************************************************)
EXTENDS Integers, Sequences, SequencesExt

CONSTANTS
    ESC_MAX_PARAM,
    Groups              \* bound: what programs send, each a whole request

VARIABLE sgr
vars == sgr

Sub == 1000
Default == [fg |-> <<>>, bg |-> <<>>, ul |-> <<>>, bold |-> FALSE, italic |-> FALSE, underlined |-> 0]

(* The parameters as the parser leaves them, n is esc.i; i is counted from *)
(* 0 as in the code                                                        *)
Parsed(ps) == [n |-> Len(ps), par |-> [k \in 0..(ESC_MAX_PARAM - 1) |-> IF k < Len(ps) THEN ps[k + 1] % Sub ELSE -1],
               sub |-> {k \in 0..(Len(ps) - 1) : ps[k + 1] >= Sub}]
PARAM(e, i, d) == IF e.par[i] > 0 THEN e.par[i] ELSE d

(* term_decode_color(): [argc, ok, color] *)
Failed(argc) == [argc |-> argc, ok |-> FALSE, color |-> <<>>]
Decoded(argc, color) == [argc |-> argc, ok |-> TRUE, color |-> color]
SubsFrom(e, i) == CHOOSE k \in 0..ESC_MAX_PARAM : i + k \notin e.sub /\ \A j \in 0..(k - 1) : i + j \in e.sub
Byte(n) == IF n < 0 THEN 0 ELSE IF n > 255 THEN 255 ELSE n
FirstOf(arg, argc) == arg + 1 + (IF argc > 4 THEN 1 ELSE 0)
Rgb(e, argc, i) == Decoded(argc, <<Byte(e.par[i]), Byte(e.par[i + 1]), Byte(e.par[i + 2])>>)
ColorOf(e, arg, has, argc) ==
    CASE e.par[arg] = 2 -> IF argc < 4 THEN Failed(argc) ELSE Rgb(e, IF has THEN argc ELSE 4, FirstOf(arg, IF has THEN argc ELSE 4))
      [] e.par[arg] = 5 -> IF argc < 2 \/ e.par[arg + 1] \notin 0..255 THEN Failed(argc)
                           ELSE Decoded(IF has THEN argc ELSE 2, <<e.par[arg + 1]>>)
      [] OTHER -> Failed(1)
term_decode_color(e, arg) ==
    IF arg + 1 >= ESC_MAX_PARAM THEN Failed(0)
    ELSE LET subs == SubsFrom(e, arg + 1)
         IN  ColorOf(e, arg, subs > 0, IF subs > 0 THEN subs + 1 ELSE ESC_MAX_PARAM - arg)

(* term_decode_sgr(); [i, a, stop] *)
SetColor(e, i, a, f) ==
    LET c == term_decode_color(e, i + 1)
    IN  [i |-> i + c.argc, a |-> IF c.ok THEN [a EXCEPT ![f] = c.color] ELSE a]
Set(i, a) == [i |-> i, a |-> a]
(* Mutant: the colon parameter is left *)
Underline_left(e, i, a) == Set(i, [a EXCEPT !.underlined = IF i + 1 \in e.sub THEN e.par[i + 1] % 4 ELSE 1])
Underline(e, i, a) ==
    IF i < e.n /\ i + 1 \in e.sub THEN Set(i + 1, [a EXCEPT !.underlined = e.par[i + 1] % 4])
    ELSE Set(i, [a EXCEPT !.underlined = 1])
One(e, i, p, a) ==
    CASE p = 0 -> Set(i, Default)
      [] p = 1 -> Set(i, [a EXCEPT !.bold = TRUE])
      [] p = 3 -> Set(i, [a EXCEPT !.italic = TRUE])
      [] p = 4 -> Underline(e, i, a)
      [] p = 21 -> Set(i, [a EXCEPT !.underlined = 2])
      [] p = 22 -> Set(i, [a EXCEPT !.bold = FALSE])
      [] p = 23 -> Set(i, [a EXCEPT !.italic = FALSE])
      [] p = 24 -> Set(i, [a EXCEPT !.underlined = 0])
      [] p \in 30..37 -> Set(i, [a EXCEPT !.fg = <<p - 30>>])
      [] p = 38 -> SetColor(e, i, a, "fg")
      [] p = 39 -> Set(i, [a EXCEPT !.fg = <<>>])
      [] p \in 40..47 -> Set(i, [a EXCEPT !.bg = <<p - 40>>])
      [] p = 48 -> SetColor(e, i, a, "bg")
      [] p = 49 -> Set(i, [a EXCEPT !.bg = <<>>])
      [] p = 58 -> SetColor(e, i, a, "ul")
      [] p = 59 -> Set(i, [a EXCEPT !.ul = <<>>])
      [] p \in 90..97 -> Set(i, [a EXCEPT !.fg = <<p - 90>>])
      [] p \in 100..107 -> Set(i, [a EXCEPT !.bg = <<p - 100>>])
      [] OTHER -> Set(i, a)
RECURSIVE Loop(_, _, _)
Loop(e, i, a) ==
    IF i \in e.sub THEN a
    ELSE LET r == One(e, i, PARAM(e, i, 0), a)
         IN  IF r.i + 1 < e.n THEN Loop(e, r.i + 1, r.a) ELSE r.a
term_decode_sgr(ps, a) == Loop(Parsed(ps), 0, a)

(* encode_sgr() *)
If(c, s) == IF c THEN s ELSE <<>>
Color(c, low, bright, long) ==
    CASE c = <<>> -> <<>>
      [] Len(c) = 1 /\ c[1] < 8 /\ low > 0 -> <<low + c[1]>>
      [] Len(c) = 1 /\ c[1] \in 8..15 /\ low > 0 -> <<bright + c[1] - 8>>
      [] Len(c) = 1 /\ (c[1] > 15 \/ low = 0) -> <<long, 5 + Sub, c[1] + Sub>>
      [] OTHER -> <<long, 2 + Sub, 1 + Sub>> \o [k \in 1..3 |-> c[k] + Sub]
UnderlineOf(u) == CASE u = 0 -> <<>> [] u = 1 -> <<4>> [] OTHER -> <<4, u + Sub>>
encode_sgr(a) ==
    <<0>> \o If(a.bold, <<1>>) \o If(a.italic, <<3>>) \o UnderlineOf(a.underlined)
          \o Color(a.fg, 30, 90, 38) \o Color(a.bg, 40, 100, 48) \o Color(a.ul, 0, 0, 58)

----------------------------------------------------------------------------
(* at once is set by one sequence, apart by one for each group *)
Init == sgr = [once |-> Default, apart |-> Default]
SGR(gs) == sgr' = [once |-> term_decode_sgr(FlattenSeq(gs), sgr.once),
                   apart |-> FoldLeft(LAMBDA a, g : term_decode_sgr(g, a), sgr.apart, gs)]
Next == \E g \in Groups, h \in Groups : SGR(<<g, h>>)
Spec == Init /\ [][Next]_vars

----------------------------------------------------------------------------
(* A sequence of several requests is what they are one after the other:    *)
(* each takes its own parameters and no other, in either form of a colour. *)
Grouped == sgr.once = sgr.apart

(* What is reported or printed of an attribute is decoded to it again.     *)
Reported == term_decode_sgr(encode_sgr(sgr.once), Default) = sgr.once
=============================================================================
