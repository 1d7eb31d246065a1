----------------------------- MODULE CursorState ----------------------------
(***************************************************************************)
(* What a program may ask back of the cursor and the tab stops and give    *)
(* again later: designation and shifts of character sets, the reports      *)
(* DECCIR and DECTABSR and their restoring by DECRSPS, and the conformance *)
(* level and national mode that decide which sets may be designated        *)
(* (term.c, screen.h).                                                     *)
(***************************************************************************)
EXTENDS Charsets

CONSTANTS
    Width, Height, TabWidth,   \* positive
    Sets,               \* the sets programs designate, of those in descs
    Characters,         \* the characters typed
    MaxCommands,        \* bound: what a program does
    vt_version,         \* of the terminal's configuration: 4 is 4xx
    extended_cir        \* DECCIR reports all attributes

(* t has c (struct cursor: gn is indexed from 0), sgr, tabs, level, nrcs   *)
(* and upcs; said and stops are what was last reported of the cursor and   *)
(* the tab stops; kept is set in the state after a restoring; n counts.    *)
VARIABLE t
vars == t

ATTR_DEFAULT == [bold |-> FALSE, underlined |-> 0, italic |-> FALSE, protected |-> FALSE]
ResetCursor == [x |-> 0, y |-> 0, gl |-> 0, gr |-> 2, ss |-> 0, gn |-> [g \in 0..3 |-> "ascii"],
                origin |-> FALSE, pending |-> FALSE]
screen_reset_tabs == {x \in 1..(Width - 1) : x % TabWidth = 0}

(* The report DECCIR, the parts that are single characters as they are     *)
term_report_cursor ==
    [y |-> t.c.y + 1, x |-> t.c.x + 1,
     sgr0 |-> [bold |-> t.sgr.bold, underlined |-> t.sgr.underlined # 0],
     sgr1 |-> extended_cir /\ t.sgr.italic, prot |-> t.sgr.protected,
     origin |-> t.c.origin, pending |-> t.c.pending,
     ss2 |-> t.c.ss = 2 /\ t.c.gl # 2, ss3 |-> t.c.ss = 3 /\ t.c.gl # 3, gl |-> t.c.gl, gr |-> t.c.gr,
     c96 |-> [g \in 0..3 |-> nrcs_is_96(t.c.gn[g])], gn |-> [g \in 0..3 |-> nrcs_unparse(t.c.gn[g])]]

Min2(a, b) == IF a < b THEN a ELSE b
Gn(r) == [g \in 0..3 |-> nrcs_parse(r.gn[g][1], r.gn[g][2], r.c96[g], t.level, t.nrcs)]
(* Mutant: the shift for one character is forgotten *)
Ss_forgotten(r) == t.c.gl
Ss(r) == IF r.ss3 THEN 3 ELSE IF r.ss2 THEN 2 ELSE t.c.gl
Accepted(r) == invalid \notin {Gn(r)[g] : g \in 0..3}
term_parse_cursor_report(r) ==
    [t EXCEPT !.c = [x |-> Min2(r.x, Width - 1), y |-> Min2(r.y, Height - 1), gl |-> r.gl, gr |-> r.gr, ss |-> Ss(r),
                     gn |-> Gn(r), origin |-> r.origin, pending |-> r.pending],
              !.sgr = [bold |-> r.sgr0.bold, underlined |-> IF r.sgr0.underlined THEN 2 ELSE 0,
                       italic |-> r.sgr1, protected |-> r.prot]]

(* The report DECTABSR numbers the columns from 1 *)
term_report_tabs == {x + 1 : x \in t.tabs}
term_parse_tabs_report(r) == [t EXCEPT !.tabs = {n - 1 : n \in {m \in r : m - 1 < Width}}]

----------------------------------------------------------------------------
None == <<>>
Init == t = [c |-> ResetCursor, sgr |-> ATTR_DEFAULT, tabs |-> screen_reset_tabs, level |-> vt_version, nrcs |-> FALSE,
             upcs |-> "latin_1", said |-> None, stops |-> {}, kept |-> None, n |-> 0]
Becomes(s) == t.n < MaxCommands /\ t' = [s EXCEPT !.kept = None, !.n = @ + 1]

(* G0 to G3 are designated; 96 character sets to G1 to G3 only. The first  *)
(* set of the enumeration is 0, which is taken for a failure.              *)
Designate(g, cs) ==
    LET sel == nrcs_unparse(cs)
        set == nrcs_parse(sel[1], sel[2], nrcs_is_96(cs), t.level, t.nrcs)
    IN  /\ nrcs_is_96(cs) => g > 0
        /\ set \notin {invalid, "french_canadian"}
        /\ Becomes([t EXCEPT !.c.gn[g] = set])
LockingShift(g) == Becomes([t EXCEPT !.c.gl = g, !.c.ss = g])
LockingShiftRight(g) == Becomes([t EXCEPT !.c.gr = g])
SingleShift(g) == Becomes([t EXCEPT !.c.ss = g])
AnsiLevel(n) ==
    Becomes([t EXCEPT !.c = [@ EXCEPT !.gl = 0, !.ss = 0, !.gr = IF n < 3 THEN 1 ELSE @,
                                      !.gn = [g \in 0..3 |-> IF g = 0 \/ (n < 3 /\ g = 1) THEN "ascii" ELSE @[g]]]])
(* One character is printed: the shift for one character ends *)
Printed ==
    Becomes([t EXCEPT !.c.ss = t.c.gl, !.c.pending = t.c.x = Width - 1, !.c.x = Min2(t.c.x + 1, Width - 1)])
CursorTo(x, y) == Becomes([t EXCEPT !.c.x = x, !.c.y = y, !.c.pending = FALSE])
DECOM(set) == Becomes([t EXCEPT !.c.origin = set, !.c.x = 0, !.c.y = 0, !.c.pending = FALSE])
DECNRCM(set) == Becomes([t EXCEPT !.nrcs = set])
Attribute(a) == Becomes([t EXCEPT !.sgr = a])
HTS == Becomes([t EXCEPT !.tabs = @ \cup {t.c.x}])
TBC(all) == Becomes([t EXCEPT !.tabs = IF all THEN {} ELSE @ \ {t.c.x}])
DECST8C == Becomes([t EXCEPT !.tabs = screen_reset_tabs])
(* DECSTR keeps the position; DECSCL sets a level after a hard reset *)
DECSTR ==
    Becomes([t EXCEPT !.c = [ResetCursor EXCEPT !.x = t.c.x, !.y = t.c.y, !.pending = t.c.pending], !.sgr = ATTR_DEFAULT,
                      !.tabs = screen_reset_tabs, !.nrcs = FALSE, !.upcs = "latin_1"])
DECSCL(p) ==
    /\ vt_version >= 2
    /\ Becomes([t EXCEPT !.c = ResetCursor, !.sgr = ATTR_DEFAULT, !.tabs = screen_reset_tabs, !.nrcs = FALSE,
                         !.upcs = "latin_1", !.level = IF p \in 1..vt_version THEN p ELSE vt_version])
(* The identifier's intermediate byte is put where the parser ignores it *)
DECAUPSS(cs) ==
    LET set == nrcs_parse("", nrcs_unparse(cs)[2], nrcs_is_96(cs), t.level, t.nrcs)
    IN  set # invalid /\ Becomes([t EXCEPT !.upcs = set])

(* DECRQPSR and DECRSPS; a report that is not accepted changes nothing *)
ReportCursor == Becomes([t EXCEPT !.said = term_report_cursor])
ReportTabs == t.tabs # {} /\ Becomes([t EXCEPT !.stops = term_report_tabs])
RestoreCursor ==
    /\ t.said # None /\ Accepted(t.said)
    /\ t' = [term_parse_cursor_report(t.said) EXCEPT !.kept = <<"cursor">>]
RestoreTabs == t.stops # {} /\ t' = [term_parse_tabs_report(t.stops) EXCEPT !.kept = <<"tabs">>]

Next == \/ \E g \in 0..3 : \/ \E cs \in Sets : Designate(g, cs)
                           \/ LockingShift(g)
                           \/ g > 0 /\ LockingShiftRight(g)
                           \/ g > 1 /\ SingleShift(g)
        \/ \E n \in 1..3 : AnsiLevel(n) \/ DECSCL(n + 1)
        \/ \E set \in BOOLEAN : DECOM(set) \/ DECNRCM(set) \/ TBC(set)
        \/ \E x \in 0..(Width - 1), y \in 0..(Height - 1) : CursorTo(x, y)
        \/ Attribute([ATTR_DEFAULT EXCEPT !.bold = TRUE, !.underlined = 1])
        \/ Attribute([ATTR_DEFAULT EXCEPT !.italic = TRUE, !.protected = TRUE])
        \/ Printed \/ HTS \/ DECST8C \/ DECSTR
        \/ \E cs \in Sets : DECAUPSS(cs)
        \/ ReportCursor \/ ReportTabs \/ RestoreCursor \/ RestoreTabs
Spec == Init /\ [][Next]_vars

----------------------------------------------------------------------------
(* A report that is accepted brings back all it said of character sets,    *)
(* shifts, origin, pending wrap and tab stops, whatever happened since,    *)
(* and the next report says the same. (A shift for one character that is   *)
(* not in the report is restored from the sets in use: gl_ss is compared   *)
(* where one was pending, and the position, counted from 1 and not brought *)
(* back to 0, not at all.)                                                 *)
Restored ==
    /\ t.kept = <<"cursor">> =>
           LET again == term_report_cursor
           IN  /\ again.gl = t.said.gl /\ again.gr = t.said.gr /\ again.gn = t.said.gn /\ again.c96 = t.said.c96
               /\ (t.said.ss2 => again.ss2) /\ (t.said.ss3 => again.ss3)
               /\ again.origin = t.said.origin /\ again.pending = t.said.pending
               /\ again.sgr0 = t.said.sgr0 /\ again.prot = t.said.prot
    /\ t.kept = <<"tabs">> => term_report_tabs = t.stops

(* A character the keyboard encodes in a designated set is the one shown   *)
(* when it comes back, but for the sets of one bit more (7F is no          *)
(* character), the British and Latin-1 sets in national mode (that encode  *)
(* as if they were not replaced) and the Turkish ampersand.                *)
SameCharacter ==
    \A g \in 0..3, ch \in Characters :
        LET set == t.c.gn[g]
            sent == nrcs_encode(set, ch, t.nrcs)
        IN  sent.done /\ sent.ch # \h7F /\ ~(t.nrcs /\ set \in {"british", "latin_1"}) /\ ~(set = "turkish" /\ ch = \h26)
                => nrcs_decode(set, set, IF set = "dec_sup" THEN "dec_sup" ELSE t.upcs, sent.ch, t.nrcs) = ch
=============================================================================
