------------------------------- MODULE Palette ------------------------------
(***************************************************************************)
(* term.c: the palette of a terminal under reverse video, which swaps      *)
(* entries of the palette instead of drawing them swapped; the colours     *)
(* that the window keeps a copy of; and the visual bell of window.c, which *)
(* is a flash of reverse video.                                            *)
(*                                                                         *)
(* 0 and 7 stand for 8 and 15 as well, 1 for all others that are not       *)
(* swapped. A colour is the name of the entry that is configured to it, or *)
(* one of NewColors.                                                       *)
(***************************************************************************)
EXTENDS Integers

CONSTANTS
    NewColors,          \* bound: what programs set
    CursorBg,           \* what the background under the cursor is configured to
    ReverseConfigured,
    AnyOrder            \* TRUE: the cases that are not handled happen as well

VARIABLE pal
vars == pal

Indexed == {"0", "7", "1"}
Dynamic == {"fg", "bg", "cursor_fg", "cursor_bg", "selected_fg", "selected_bg"}
Entries == Indexed \cup Dynamic
Colors == Entries \cup NewColors
Opposite(e) ==
    CASE e = "0" -> "7" [] e = "7" -> "0" [] e = "1" -> "1" [] e = "fg" -> "bg" [] e = "bg" -> "fg"
      [] e = "cursor_fg" -> "cursor_bg" [] e = "cursor_bg" -> "cursor_fg"
      [] e = "selected_fg" -> "selected_bg" [] e = "selected_bg" -> "selected_fg"
Mapped(e, reverse) == IF reverse THEN Opposite(e) ELSE e

Config == [e \in Entries |-> IF e = "cursor_bg" THEN CursorBg ELSE e]
(* Mutant: the colours of the cursor stay *)
Swapped_cursor(colors) ==
    [e \in Entries |-> IF e \in {"cursor_fg", "cursor_bg"} THEN colors[e] ELSE colors[Opposite(e)]]
Swapped(colors) == [e \in Entries |-> colors[Opposite(e)]]

(* window_set_colors() *)
ToWindow(p) == [p EXCEPT !.winBg = p.colors["bg"], !.winCursor = p.colors["cursor_fg"]]

term_set_reverse(p, set) ==
    IF set = p.reverse THEN p ELSE ToWindow([p EXCEPT !.colors = Swapped(p.colors), !.reverse = set])

(* OSC 4, and OSC 104 of an entry and of all: in reverse video an entry is *)
(* reset to the colour of the other of the pair, and all to their own.     *)
SetIndexed(p, e, col) == [p EXCEPT !.colors[Mapped(e, p.reverse)] = col]
ResetIndexed(p, e) == LET i == Mapped(e, p.reverse) IN [p EXCEPT !.colors[i] = Config[i]]
ResetAll(p) == [p EXCEPT !.colors = [e \in Entries |-> IF e \in Indexed THEN Config[e] ELSE p.colors[e]]]

(* OSC 10, 11, 12, 17, 19 and 110, 111, 112, 117, 119: the background is   *)
(* also the one under the cursor. What the window gets after 111 is the    *)
(* configured background under the cursor.                                 *)
Selectors == {"fg", "bg", "cursor_fg", "selected_fg", "selected_bg"}
term_colors_changed(p, sel, col) ==
    CASE sel = "fg" /\ p.reverse -> [p EXCEPT !.winBg = col]
      [] sel = "bg" /\ ~p.reverse -> [p EXCEPT !.colors["cursor_bg"] = col, !.winBg = col]
      [] sel = "bg" /\ p.reverse -> [p EXCEPT !.colors["cursor_fg"] = col, !.winCursor = col]
      [] sel = "cursor_fg" /\ ~p.reverse -> [p EXCEPT !.winCursor = col]
      [] OTHER -> p
selector_to_cid(sel, reverse) == Mapped(sel, reverse)
term_do_set_color(p, sel, col) ==
    term_colors_changed([p EXCEPT !.colors[selector_to_cid(sel, p.reverse)] = col], sel, col)
term_do_reset_color(p, sel) ==
    term_colors_changed([p EXCEPT !.colors[selector_to_cid(sel, p.reverse)] = Config[sel]], sel,
                        IF sel = "bg" THEN Config["cursor_bg"] ELSE Config[sel])

(* term_load_config() loads the palette as it is configured, also when     *)
(* reverse video is on and stays on, or is turned off after that           *)
LoadConfig(p, reset) ==
    term_set_reverse([p EXCEPT !.colors = Config, !.reverse = IF reset THEN FALSE ELSE @], ReverseConfigured)
term_do_reset(p) == ToWindow(LoadConfig(p, TRUE))
reload_window(p) == [LoadConfig(p, FALSE) EXCEPT !.bell = FALSE]

window_bell(p) ==
    IF p.bell THEN p ELSE term_set_reverse([p EXCEPT !.bell = TRUE, !.initInvert = p.reverse], ~p.reverse)
handle_visual_bell(p) == term_set_reverse([p EXCEPT !.bell = FALSE], p.initInvert)

----------------------------------------------------------------------------
(* plain and wanted are the palette and the mode of a terminal that draws  *)
(* its colours swapped and leaves the palette alone; what programs did     *)
(* with it is done there as in normal video.                               *)
New ==
    ToWindow(term_set_reverse([colors |-> Config, reverse |-> FALSE, winBg |-> "bg", winCursor |-> "cursor_fg",
                               bell |-> FALSE, initInvert |-> FALSE, plain |-> Config, wanted |-> ReverseConfigured],
                              ReverseConfigured))
Init == pal = New

Normal == [New EXCEPT !.colors = Config, !.reverse = FALSE]
Plain == [New EXCEPT !.colors = pal.plain, !.reverse = FALSE]
To(p, plain, wanted) == pal' = [p EXCEPT !.plain = plain.colors, !.wanted = wanted]

Symmetric(e) == AnyOrder \/ ~pal.reverse \/ Opposite(e) = e
SetColor == \E e \in Indexed, col \in NewColors : To(SetIndexed(pal, e, col), SetIndexed(Plain, e, col), pal.wanted)
ResetColor == \E e \in Indexed : Symmetric(e) /\ To(ResetIndexed(pal, e), ResetIndexed(Plain, e), pal.wanted)
ResetColors == (AnyOrder \/ ~pal.reverse) /\ To(ResetAll(pal), ResetAll(Plain), pal.wanted)
SetDynamic ==
    \E sel \in Selectors, col \in NewColors :
        To(term_do_set_color(pal, sel, col), term_do_set_color(Plain, sel, col), pal.wanted)
ResetDynamic ==
    \E sel \in Selectors : To(term_do_reset_color(pal, sel), term_do_reset_color(Plain, sel), pal.wanted)
(* The end of the bell undoes what is set meanwhile *)
SetReverse == \E set \in BOOLEAN : (AnyOrder \/ ~pal.bell) /\ To(term_set_reverse(pal, set), Plain, set)
Reset == (AnyOrder \/ ~pal.bell) /\ To(term_do_reset(pal), Normal, ReverseConfigured)
(* The window keeps the background that was set *)
Reload ==
    /\ AnyOrder \/ (pal.reverse = FALSE /\ ~ReverseConfigured /\ pal.winBg = "bg" /\ pal.winCursor = "cursor_fg")
    /\ To(reload_window(pal), Normal, ReverseConfigured)
Bell == To(window_bell(pal), Plain, pal.wanted)
BellEnds == pal.bell /\ To(handle_visual_bell(pal), Plain, pal.wanted)

Next ==
    \/ SetColor \/ ResetColor \/ ResetColors \/ SetDynamic \/ ResetDynamic
    \/ SetReverse \/ Reset \/ Reload \/ Bell \/ BellEnds
Spec == Init /\ [][Next]_vars

----------------------------------------------------------------------------
(* The palette is the one of a terminal without reverse video, its pairs   *)
(* swapped while the screen is reversed, whatever is set and reset in      *)
(* either mode: entries, the colours of text, cursor and selection, the    *)
(* mode itself. And the mode is what was asked for but while the bell      *)
(* rings.                                                                  *)
PaletteExact ==
    /\ pal.colors = IF pal.reverse THEN Swapped(pal.plain) ELSE pal.plain
    /\ pal.reverse = (pal.wanted # pal.bell)

(* The copies that the window keeps, for its borders and its cursor, are   *)
(* the colours of the palette.                                             *)
WindowColors == pal.winBg = pal.colors["bg"] /\ pal.winCursor = pal.colors["cursor_fg"]
=============================================================================
