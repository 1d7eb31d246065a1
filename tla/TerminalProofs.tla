--------------------------- MODULE TerminalProofs ---------------------------
(***************************************************************************)
(* What programs ask of a terminal, of the parts that MCFrontend checks.   *)
(* The palette that they set, in normal and in reverse video, whatever is  *)
(* configured; the cases that the code does not handle are left out        *)
(* (AnyOrder of Palette). The modes that they set, save and restore, in    *)
(* any groups and any levels. And what they are told of the mouse, for a   *)
(* window of any size and any programs and users that MouseAssumption has. *)
(***************************************************************************)
EXTENDS MCFrontend, FiniteSetTheorems, TLAPS

(* The palette: its colours, the record it is kept in. *)
Shades == Colors!Colors \cup {ColorsCursor}
PaletteFields == {"colors", "reverse", "winBg", "winCursor", "bell", "initInvert", "plain", "wanted"}
PaletteTypes(p) ==
    /\ DOMAIN p = PaletteFields
    /\ p.colors \in [Colors!Entries -> Shades] /\ p.plain \in [Colors!Entries -> Shades]
    /\ p.reverse \in BOOLEAN /\ p.wanted \in BOOLEAN /\ p.bell \in BOOLEAN /\ p.initInvert \in BOOLEAN

(* The palette of a terminal whose own is plain. *)
Drawn(plain, reverse) == IF reverse THEN Colors!Swapped(plain) ELSE plain

(* WindowColors, of a palette. *)
Copied(p) == p.winBg = p.colors["bg"] /\ p.winCursor = p.colors["cursor_fg"]

Paint(f, e, col) == [f EXCEPT ![e] = col]

(* What the bell restores is what was asked for *)
BellRestores == state.bell => state.initInvert = state.wanted

PaletteInv == PaletteTypes(state) /\ Colors!PaletteExact /\ BellRestores /\ (ColorsCursor = "bg" => Colors!WindowColors)

----------------------------------------------------------------------------
(* Every entry has another, or itself, of which it is the other. *)
LEMMA OppositeTwice ==
    \A e \in Colors!Entries : Colors!Opposite(e) \in Colors!Entries /\ Colors!Opposite(Colors!Opposite(e)) = e
BY DEF Colors!Entries, Colors!Indexed, Colors!Dynamic, Colors!Opposite

(* Swapping twice changes nothing. *)
LEMMA SwappedTwice ==
    ASSUME NEW f \in [Colors!Entries -> Shades]
    PROVE  Colors!Swapped(f) \in [Colors!Entries -> Shades] /\ Colors!Swapped(Colors!Swapped(f)) = f
<1>1. Colors!Swapped(f) \in [Colors!Entries -> Shades]
  BY OppositeTwice DEF Colors!Swapped
<1>2. \A e \in Colors!Entries : Colors!Swapped(Colors!Swapped(f))[e] = f[e]
  BY OppositeTwice DEF Colors!Swapped
<1> QED BY <1>1, <1>2 DEF Colors!Swapped

(* The configured palette is a palette. *)
LEMMA ConfigTypes == Colors!Config \in [Colors!Entries -> Shades]
BY DEF Colors!Config, Shades, Colors!Colors

(* Setting an entry, or the other of its pair, of a palette that is drawn  *)
(* swapped or not: what is drawn of the palette with the entry set.        *)
LEMMA SetMapped ==
    ASSUME NEW f \in [Colors!Entries -> Shades], NEW e \in Colors!Entries, NEW col, NEW reverse \in BOOLEAN
    PROVE  Paint(Drawn(f, reverse), Colors!Mapped(e, reverse), col) = Drawn(Paint(f, e, col), reverse)
<1>1. CASE reverse
  <2> DEFINE a == [Colors!Swapped(f) EXCEPT ![Colors!Opposite(e)] = col]
             b == Colors!Swapped([f EXCEPT ![e] = col])
  <2>1. \A i \in Colors!Entries : a[i] = b[i]
    BY OppositeTwice DEF Colors!Swapped
  <2>2. a = b
    BY <2>1 DEF Colors!Swapped
  <2> QED BY <1>1, <2>2 DEF Colors!Mapped, Drawn, Paint
<1>2. CASE ~ reverse
  BY <1>2 DEF Colors!Mapped, Drawn, Paint
<1> QED BY <1>1, <1>2

(* A palette is drawn as one, and what is drawn swapped is drawn plain     *)
(* when it is swapped again.                                               *)
LEMMA DrawnTypes ==
    ASSUME NEW f \in [Colors!Entries -> Shades], NEW reverse \in BOOLEAN
    PROVE  /\ Drawn(f, reverse) \in [Colors!Entries -> Shades]
           /\ Colors!Swapped(Drawn(f, reverse)) = Drawn(f, ~ reverse)
BY SwappedTwice DEF Drawn

(* term_set_reverse() swaps the palette or not, and tells the window.      *)
LEMMA SetReverseDoes ==
    ASSUME NEW p, PaletteTypes(p), NEW set \in BOOLEAN, NEW f \in [Colors!Entries -> Shades], p.colors = Drawn(f, p.reverse),
           NEW r, r = Colors!term_set_reverse(p, set)
    PROVE  /\ PaletteTypes(r) /\ r.colors = Drawn(f, set) /\ r.reverse = set
           /\ r.bell = p.bell /\ r.initInvert = p.initInvert /\ r.plain = p.plain /\ r.wanted = p.wanted
           /\ Copied(p) => Copied(r)
<1>1. CASE set = p.reverse
  BY <1>1 DEF Colors!term_set_reverse
<1>2. CASE set # p.reverse
  <2> DEFINE c == Colors!Swapped(p.colors)
  <2>1. c \in [Colors!Entries -> Shades] /\ c = Drawn(f, set)
    BY <1>2, DrawnTypes DEF PaletteTypes
  <2> HIDE DEF c
  <2> DEFINE q == [p EXCEPT !.colors = c, !.reverse = set]
  <2>2. DOMAIN q = PaletteFields /\ q.colors = c /\ q.reverse = set
    BY DEF PaletteTypes, PaletteFields
  <2>3. /\ q.bell = p.bell /\ q.initInvert = p.initInvert /\ q.plain = p.plain /\ q.wanted = p.wanted
    BY DEF PaletteTypes, PaletteFields
  <2>4. r = [q EXCEPT !.winBg = q.colors["bg"], !.winCursor = q.colors["cursor_fg"]]
    BY <1>2 DEF Colors!term_set_reverse, Colors!ToWindow, c
  <2> HIDE DEF q
  <2> QED BY <1>2, <2>1, <2>2, <2>3, <2>4 DEF PaletteTypes, PaletteFields, Copied
<1> QED BY <1>1, <1>2

Changed(p, sel, c, d) == Colors!term_colors_changed([p EXCEPT !.colors[Colors!Mapped(sel, p.reverse)] = c], sel, d)
PaintDynamic(f, sel, c, d) == IF sel = "bg" THEN Paint(Paint(f, sel, c), "cursor_bg", d) ELSE Paint(f, sel, c)

(* Setting a dynamic colour to c, of which the window and the other entry  *)
(* that changes with it get d.                                             *)
LEMMA ChangedDoes ==
    ASSUME NEW p, PaletteTypes(p), NEW reverse \in BOOLEAN, p.reverse = reverse, NEW sel \in Colors!Selectors, NEW c \in Shades,
           NEW d \in Shades, NEW f \in [Colors!Entries -> Shades], p.colors = Drawn(f, reverse)
    PROVE  LET r == Changed(p, sel, c, d)
           IN  /\ PaletteTypes(r) /\ r.reverse = reverse /\ r.bell = p.bell /\ r.initInvert = p.initInvert
               /\ r.plain = p.plain /\ r.wanted = p.wanted
               /\ r.colors = Drawn(PaintDynamic(f, sel, c, d), reverse)
               /\ c = d /\ Copied(p) => Copied(r)
<1> DEFINE r == Changed(p, sel, c, d)
           q == [p EXCEPT !.colors[Colors!Mapped(sel, reverse)] = c]
           g == Paint(f, sel, c)
<1>1. sel \in Colors!Entries /\ "cursor_bg" \in Colors!Entries /\ Colors!Mapped(sel, reverse) \in Colors!Entries
  BY OppositeTwice DEF Colors!Selectors, Colors!Entries, Colors!Dynamic, Colors!Mapped
<1>2. g \in [Colors!Entries -> Shades]
  BY <1>1 DEF Paint
<1>3. /\ DOMAIN q = PaletteFields /\ q.reverse = reverse /\ q.bell = p.bell /\ q.initInvert = p.initInvert
      /\ q.plain = p.plain /\ q.wanted = p.wanted /\ q.winBg = p.winBg /\ q.winCursor = p.winCursor
      /\ q.colors = Paint(p.colors, Colors!Mapped(sel, reverse), c)
  BY DEF PaletteTypes, PaletteFields, Paint
<1>4. q.colors = Drawn(g, reverse)
  BY <1>1, <1>3, SetMapped DEF g
<1>5. r = Colors!term_colors_changed(q, sel, d)
  BY DEF Changed
<1>a. p.colors \in [Colors!Entries -> Shades]
  BY DEF PaletteTypes
<1> HIDE DEF q, g, r
<1>6. PaletteTypes(q)
  BY <1>2, <1>3, <1>4, DrawnTypes DEF PaletteTypes
<1>7. \A e \in Colors!Entries \ {Colors!Mapped(sel, reverse)} : q.colors[e] = p.colors[e]
  BY <1>1, <1>3, <1>a DEF Paint
<1>8. q.colors[Colors!Mapped(sel, reverse)] = c
  BY <1>1, <1>3, <1>a DEF Paint
<1>b. q.colors \in [Colors!Entries -> Shades]
  BY <1>6 DEF PaletteTypes
<1>9. CASE sel = "bg" /\ ~ reverse
  <2>1. r = [q EXCEPT !.colors["cursor_bg"] = d, !.winBg = d]
    BY <1>3, <1>5, <1>9 DEF Colors!term_colors_changed
  <2>2. r.colors = Paint(q.colors, "cursor_bg", d) /\ r.winBg = d /\ r.winCursor = q.winCursor
    BY <1>3, <2>1 DEF PaletteFields, Paint
  <2>3. /\ DOMAIN r = PaletteFields /\ r.reverse = p.reverse /\ r.bell = p.bell /\ r.initInvert = p.initInvert
        /\ r.plain = p.plain /\ r.wanted = p.wanted
    BY <1>3, <2>1 DEF PaletteFields
  <2>a. Colors!Mapped("cursor_bg", reverse) = "cursor_bg"
    BY <1>9 DEF Colors!Mapped
  <2>4. r.colors = Drawn(Paint(g, "cursor_bg", d), reverse)
    BY <1>1, <1>2, <1>4, <2>a, <2>2, SetMapped
  <2>5. Paint(g, "cursor_bg", d) \in [Colors!Entries -> Shades]
    BY <1>2 DEF Paint
  <2>6. PaletteTypes(r)
    BY <1>6, <2>3, <2>4, <2>5, DrawnTypes DEF PaletteTypes
  <2>7. r.colors["bg"] = c /\ r.colors["cursor_fg"] = p.colors["cursor_fg"]
    BY <1>b, <1>7, <1>8, <1>9, <2>2 DEF Paint, Colors!Entries, Colors!Dynamic, Colors!Mapped
  <2> QED BY <1>3, <1>9, <2>2, <2>3, <2>4, <2>6, <2>7 DEF g, r, PaintDynamic, Copied
<1>10. CASE sel = "bg" /\ reverse
  <2>1. r = [q EXCEPT !.colors["cursor_fg"] = d, !.winCursor = d]
    BY <1>3, <1>5, <1>10 DEF Colors!term_colors_changed
  <2>2. r.colors = Paint(q.colors, "cursor_fg", d) /\ r.winCursor = d /\ r.winBg = q.winBg
    BY <1>3, <2>1 DEF PaletteFields, Paint
  <2>3. /\ DOMAIN r = PaletteFields /\ r.reverse = p.reverse /\ r.bell = p.bell /\ r.initInvert = p.initInvert
        /\ r.plain = p.plain /\ r.wanted = p.wanted
    BY <1>3, <2>1 DEF PaletteFields
  <2>a. Colors!Mapped("cursor_bg", reverse) = "cursor_fg"
    BY <1>10 DEF Colors!Mapped, Colors!Opposite
  <2>4. r.colors = Drawn(Paint(g, "cursor_bg", d), reverse)
    BY <1>1, <1>2, <1>4, <2>a, <2>2, SetMapped
  <2>5. Paint(g, "cursor_bg", d) \in [Colors!Entries -> Shades]
    BY <1>2 DEF Paint
  <2>6. PaletteTypes(r)
    BY <1>6, <2>3, <2>4, <2>5, DrawnTypes DEF PaletteTypes
  <2>7. r.colors["bg"] = p.colors["bg"] /\ r.colors["cursor_fg"] = d
    <3>1. Colors!Mapped(sel, reverse) = "fg"
      BY <1>10 DEF Colors!Mapped, Colors!Opposite
    <3>2. {"fg", "bg", "cursor_fg"} \subseteq Colors!Entries
      BY DEF Colors!Entries, Colors!Dynamic
    <3> QED BY <1>b, <1>7, <2>2, <3>1, <3>2 DEF Paint
  <2> QED BY <1>3, <1>10, <2>2, <2>3, <2>4, <2>6, <2>7 DEF g, r, PaintDynamic, Copied
<1>11. CASE sel = "fg" /\ reverse
  <2>1. r = [q EXCEPT !.winBg = d]
    BY <1>3, <1>5, <1>11 DEF Colors!term_colors_changed
  <2>2. Colors!Mapped(sel, reverse) = "bg"
    BY <1>11 DEF Colors!Mapped, Colors!Opposite
  <2>3. r.colors = q.colors /\ r.winBg = d /\ r.winCursor = q.winCursor /\ PaletteTypes(r)
    BY <1>6, <2>1 DEF PaletteTypes, PaletteFields
  <2>4. /\ r.reverse = p.reverse /\ r.bell = p.bell /\ r.initInvert = p.initInvert
        /\ r.plain = p.plain /\ r.wanted = p.wanted
    BY <1>3, <2>1 DEF PaletteFields
  <2>5. r.colors["bg"] = c /\ r.colors["cursor_fg"] = p.colors["cursor_fg"]
    BY <1>7, <1>8, <2>2, <2>3 DEF Colors!Entries, Colors!Dynamic
  <2> QED BY <1>3, <1>4, <1>11, <2>3, <2>4, <2>5 DEF g, r, PaintDynamic, Copied
<1>12. CASE sel = "cursor_fg" /\ ~ reverse
  <2>1. r = [q EXCEPT !.winCursor = d]
    BY <1>3, <1>5, <1>12 DEF Colors!term_colors_changed
  <2>2. Colors!Mapped(sel, reverse) = "cursor_fg"
    BY <1>12 DEF Colors!Mapped
  <2>3. r.colors = q.colors /\ r.winCursor = d /\ r.winBg = q.winBg /\ PaletteTypes(r)
    BY <1>6, <2>1 DEF PaletteTypes, PaletteFields
  <2>4. /\ r.reverse = p.reverse /\ r.bell = p.bell /\ r.initInvert = p.initInvert
        /\ r.plain = p.plain /\ r.wanted = p.wanted
    BY <1>3, <2>1 DEF PaletteFields
  <2>5. r.colors["cursor_fg"] = c /\ r.colors["bg"] = p.colors["bg"]
    BY <1>7, <1>8, <2>2, <2>3 DEF Colors!Entries, Colors!Dynamic
  <2> QED BY <1>3, <1>4, <1>12, <2>3, <2>4, <2>5 DEF g, r, PaintDynamic, Copied
<1>13. CASE /\ sel # "bg"
            /\ ~ (sel = "fg" /\ reverse)
            /\ ~ (sel = "cursor_fg" /\ ~ reverse)
  <2>1. r = q
    BY <1>3, <1>5, <1>13 DEF Colors!term_colors_changed
  <2>2. Colors!Mapped(sel, reverse) \notin {"bg", "cursor_fg"}
    BY <1>13 DEF PaletteTypes, Colors!Selectors, Colors!Mapped, Colors!Opposite
  <2>3. r.colors["cursor_fg"] = p.colors["cursor_fg"] /\ r.colors["bg"] = p.colors["bg"]
    BY <1>7, <2>1, <2>2 DEF Colors!Entries, Colors!Dynamic
  <2> QED BY <1>3, <1>4, <1>6, <1>13, <2>1, <2>3 DEF g, r, PaintDynamic, Copied
<1> QED BY <1>9, <1>10, <1>11, <1>12, <1>13 DEF r

----------------------------------------------------------------------------
(* What an action does to the palette p of the terminal and to plain: kept *)
(* is that the one is drawn of the other in the mode wanted.               *)
PaletteKept(p) ==
    /\ PaletteTypes(p) /\ p.colors = Drawn(p.plain, p.reverse)
    /\ p.reverse = (p.wanted # p.bell)
    /\ p.bell => p.initInvert = p.wanted
    /\ ColorsCursor = "bg" => Copied(p)

(* The invariant says of pal what PaletteKept says of a palette. *)
LEMMA PaletteInvIsKept == PaletteInv <=> PaletteKept(state)
BY DEF Copied, PaletteInv, PaletteKept, Colors!PaletteExact, BellRestores, Colors!WindowColors, Drawn

(* It holds of the next state when its palette is kept. *)
LEMMA NextKept == PaletteKept(state') => PaletteInv'
<1>1. PaletteKept(state)' => PaletteInv'
  BY PaletteInvIsKept, PTL
<1> QED BY <1>1 DEF PaletteKept, PaletteTypes

(* What To() makes of a palette p, with the palette c of a terminal that   *)
(* draws its colours swapped, and when that is right.                      *)
With(p, c, wanted) == [p EXCEPT !.plain = c, !.wanted = wanted]
PaletteFits(p, c, wanted) ==
    /\ PaletteTypes(p) /\ c \in [Colors!Entries -> Shades] /\ wanted \in BOOLEAN
    /\ p.colors = Drawn(c, p.reverse)
    /\ p.reverse = (wanted # p.bell)
    /\ p.bell => p.initInvert = wanted
    /\ ColorsCursor = "bg" => Copied(p)

(* It is when p is drawn of c in the mode wanted.                          *)
LEMMA ToKeeps ==
    ASSUME NEW p, NEW c, NEW wanted, PaletteFits(p, c, wanted)
    PROVE  PaletteKept(With(p, c, wanted))
<1> DEFINE q == With(p, c, wanted)
<1>1. /\ DOMAIN q = PaletteFields /\ q.colors = p.colors /\ q.plain = c /\ q.wanted = wanted
      /\ q.reverse = p.reverse /\ q.bell = p.bell /\ q.initInvert = p.initInvert
      /\ q.winBg = p.winBg /\ q.winCursor = p.winCursor
  BY DEF With, PaletteFits, PaletteTypes, PaletteFields
<1> QED BY <1>1 DEF PaletteKept, PaletteFits, PaletteTypes, Copied

(* ToWindow() makes the copies of the window right. *)
LEMMA ToWindowDoes ==
    ASSUME NEW p, PaletteTypes(p), NEW r, r = Colors!ToWindow(p)
    PROVE  /\ PaletteTypes(r) /\ r.colors = p.colors /\ r.reverse = p.reverse /\ r.bell = p.bell
           /\ r.initInvert = p.initInvert /\ r.plain = p.plain /\ r.wanted = p.wanted
           /\ r.winBg = r.colors["bg"] /\ r.winCursor = r.colors["cursor_fg"]
BY DEF Colors!ToWindow, PaletteTypes, PaletteFields

(* A new terminal has the configured palette, drawn as configured. *)
LEMMA NewDoes ==
    ASSUME ReverseConfigured \in BOOLEAN
    PROVE  /\ PaletteKept(Colors!New) /\ Colors!New.colors = Drawn(Colors!Config, ReverseConfigured) /\ Colors!New.plain = Colors!Config
           /\ Colors!New.reverse = ReverseConfigured /\ Colors!New.wanted = ReverseConfigured /\ Colors!New.bell = FALSE
<1> DEFINE b == [colors |-> Colors!Config, reverse |-> FALSE, winBg |-> "bg", winCursor |-> "cursor_fg",
                 bell |-> FALSE, initInvert |-> FALSE, plain |-> Colors!Config, wanted |-> ReverseConfigured]
           r == Colors!term_set_reverse(b, ReverseConfigured)
<1>1. /\ PaletteTypes(b) /\ b.colors = Colors!Config /\ b.reverse = FALSE /\ b.bell = FALSE /\ b.plain = Colors!Config
      /\ b.wanted = ReverseConfigured
  BY ConfigTypes DEF PaletteTypes, PaletteFields
<1>2. Colors!New = Colors!ToWindow(r)
  BY DEF Colors!New
<1> HIDE DEF b
<1>3. b.colors = Drawn(Colors!Config, b.reverse)
  BY <1>1 DEF Drawn
<1>4. /\ PaletteTypes(r) /\ r.colors = Drawn(Colors!Config, ReverseConfigured) /\ r.reverse = ReverseConfigured
      /\ r.bell = FALSE /\ r.plain = Colors!Config /\ r.wanted = ReverseConfigured
  BY <1>1, <1>3, ConfigTypes, SetReverseDoes
<1> HIDE DEF r
<1> QED BY <1>2, <1>4, ToWindowDoes DEF PaletteKept, Copied

(* The terminal that draws its colours swapped, as it is and as it is new. *)
LEMMA PlainDoes ==
    ASSUME ReverseConfigured \in BOOLEAN, PaletteKept(state)
    PROVE  /\ PaletteTypes(Colors!Plain) /\ Colors!Plain.colors = state.plain /\ Colors!Plain.reverse = FALSE
           /\ PaletteTypes(Colors!Normal) /\ Colors!Normal.colors = Colors!Config /\ Colors!Normal.reverse = FALSE
<1>1. PaletteTypes(Colors!New) /\ PaletteTypes(state)
  BY NewDoes DEF PaletteKept
<1> QED BY <1>1, ConfigTypes DEF Colors!Plain, Colors!Normal, PaletteTypes, PaletteFields

(* A new terminal has it. *)
LEMMA InitKeeps ==
    ASSUME ReverseConfigured \in BOOLEAN, Colors!Init
    PROVE  PaletteInv
BY NewDoes, PaletteInvIsKept DEF Colors!Init

(* Setting an indexed entry, or resetting one that is not swapped. *)
LEMMA EntryKeeps ==
    ASSUME ReverseConfigured \in BOOLEAN, PaletteInv, NEW e \in Colors!Indexed, NEW col \in Shades,
           Colors!To(Colors!SetIndexed(state, e, col), Colors!SetIndexed(Colors!Plain, e, col), state.wanted)
    PROVE  PaletteInv'
<1> DEFINE p == Colors!SetIndexed(state, e, col)
           plain == Colors!SetIndexed(Colors!Plain, e, col)
<1>1. /\ PaletteKept(state) /\ PaletteTypes(state) /\ state.reverse \in BOOLEAN /\ state.colors \in [Colors!Entries -> Shades]
      /\ state.plain \in [Colors!Entries -> Shades] /\ DOMAIN state = PaletteFields /\ state.wanted \in BOOLEAN
  BY PaletteInvIsKept DEF PaletteKept, PaletteTypes
<1>2. PaletteTypes(Colors!Plain) /\ Colors!Plain.colors = state.plain /\ Colors!Plain.reverse = FALSE /\ DOMAIN Colors!Plain = PaletteFields
  BY <1>1, PlainDoes DEF PaletteTypes
<1>3. e \in Colors!Entries /\ Colors!Mapped(e, state.reverse) \in Colors!Indexed /\ Colors!Mapped(e, FALSE) = e
  BY DEF Colors!Indexed, Colors!Entries, Colors!Mapped, Colors!Opposite
<1>4. /\ DOMAIN p = PaletteFields /\ p.colors = Paint(state.colors, Colors!Mapped(e, state.reverse), col) /\ p.reverse = state.reverse
      /\ p.bell = state.bell /\ p.initInvert = state.initInvert /\ p.wanted = state.wanted /\ p.plain = state.plain
      /\ p.winBg = state.winBg /\ p.winCursor = state.winCursor
  BY <1>1 DEF Colors!SetIndexed, Paint, PaletteFields
<1>5. plain.colors = Paint(state.plain, e, col)
  BY <1>2, <1>3 DEF Colors!SetIndexed, Paint, PaletteFields
<1> HIDE DEF p, plain
<1>6. plain.colors \in [Colors!Entries -> Shades]
  BY <1>1, <1>5 DEF Paint
<1>7. p.colors = Drawn(plain.colors, p.reverse)
  <2>1. state.colors = Drawn(state.plain, state.reverse)
    BY <1>1 DEF PaletteKept
  <2>2. Paint(Drawn(state.plain, state.reverse), Colors!Mapped(e, state.reverse), col) = Drawn(Paint(state.plain, e, col), state.reverse)
    BY <1>1, <1>3, SetMapped
  <2> QED BY <2>1, <2>2, <1>4, <1>5
<1>8. PaletteTypes(p)
  BY <1>1, <1>4, <1>6, <1>7, DrawnTypes DEF PaletteTypes
<1>9. p.colors["bg"] = state.colors["bg"] /\ p.colors["cursor_fg"] = state.colors["cursor_fg"]
  BY <1>1, <1>3, <1>4 DEF Paint, Colors!Entries, Colors!Dynamic, Colors!Indexed
<1>10. /\ p.reverse = (state.wanted # p.bell)
       /\ p.bell => p.initInvert = state.wanted
       /\ ColorsCursor = "bg" => Copied(p)
  BY <1>1, <1>4, <1>9 DEF PaletteKept, Copied
<1>11. state' = With(p, plain.colors, state.wanted)
  BY DEF p, plain, Colors!To, With
<1>12. PaletteFits(p, plain.colors, state.wanted)
  BY <1>1, <1>6, <1>7, <1>8, <1>10 DEF PaletteFits
<1> QED BY <1>11, <1>12, ToKeeps, NextKept

(* OSC 4 *)
LEMMA SetColorKeeps ==
    ASSUME ReverseConfigured \in BOOLEAN, PaletteInv, Colors!SetColor
    PROVE  PaletteInv'
<1>1. PICK e \in Colors!Indexed, col \in NewColors :
          Colors!To(Colors!SetIndexed(state, e, col), Colors!SetIndexed(Colors!Plain, e, col), state.wanted)
  BY DEF Colors!SetColor
<1>2. col \in Shades
  BY DEF Shades, Colors!Colors
<1> QED BY <1>1, <1>2, EntryKeeps

(* OSC 104 of an entry that is not swapped. *)
LEMMA ResetColorKeeps ==
    ASSUME ReverseConfigured \in BOOLEAN, PaletteInv, Colors!ResetColor
    PROVE  PaletteInv'
<1>1. PICK e \in Colors!Indexed :
          Colors!Symmetric(e) /\ Colors!To(Colors!ResetIndexed(state, e), Colors!ResetIndexed(Colors!Plain, e), state.wanted)
  BY DEF Colors!ResetColor
<1>2. PaletteKept(state) /\ state.reverse \in BOOLEAN
  BY PaletteInvIsKept DEF PaletteKept, PaletteTypes
<1>3. Colors!Plain.reverse = FALSE
  BY <1>2, PlainDoes
<1>4. Colors!Mapped(e, state.reverse) = e /\ Colors!Mapped(e, Colors!Plain.reverse) = e
  BY <1>1, <1>2, <1>3 DEF Colors!Symmetric, Colors!Mapped
<1>5. Colors!Config[e] \in Shades
  BY ConfigTypes DEF Colors!Entries
<1>6. /\ Colors!ResetIndexed(state, e) = Colors!SetIndexed(state, e, Colors!Config[e])
      /\ Colors!ResetIndexed(Colors!Plain, e) = Colors!SetIndexed(Colors!Plain, e, Colors!Config[e])
  BY <1>4 DEF Colors!ResetIndexed, Colors!SetIndexed
<1> QED BY <1>1, <1>5, <1>6, EntryKeeps

(* Resetting all indexed entries, in normal video. *)
LEMMA ResetColorsKeeps ==
    ASSUME ReverseConfigured \in BOOLEAN, PaletteInv, Colors!ResetColors
    PROVE  PaletteInv'
<1> DEFINE p == Colors!ResetAll(state)
           c == Colors!ResetAll(Colors!Plain).colors
<1>1. /\ PaletteKept(state) /\ PaletteTypes(state) /\ ~ state.reverse /\ state.reverse \in BOOLEAN /\ state.colors = state.plain
  BY PaletteInvIsKept DEF PaletteKept, PaletteTypes, Colors!ResetColors, Drawn
<1>2. PaletteTypes(Colors!Plain) /\ Colors!Plain.colors = state.plain
  BY <1>1, PlainDoes
<1>3. /\ DOMAIN p = PaletteFields /\ p.reverse = state.reverse /\ p.bell = state.bell /\ p.initInvert = state.initInvert
      /\ p.wanted = state.wanted /\ p.plain = state.plain /\ p.winBg = state.winBg /\ p.winCursor = state.winCursor
      /\ p.colors = [e \in Colors!Entries |-> IF e \in Colors!Indexed THEN Colors!Config[e] ELSE state.colors[e]]
  BY <1>1 DEF Colors!ResetAll, PaletteTypes, PaletteFields
<1>4. c = [e \in Colors!Entries |-> IF e \in Colors!Indexed THEN Colors!Config[e] ELSE state.plain[e]]
  BY <1>2 DEF Colors!ResetAll, PaletteTypes, PaletteFields
<1>5. state' = With(p, c, state.wanted)
  BY DEF Colors!ResetColors, Colors!To, With
<1> HIDE DEF p, c
<1>6. c \in [Colors!Entries -> Shades] /\ p.colors = c
  BY <1>1, <1>3, <1>4, ConfigTypes DEF PaletteTypes
<1>7. p.colors = Drawn(c, p.reverse)
  BY <1>1, <1>3, <1>6 DEF Drawn
<1>8. p.colors["bg"] = state.colors["bg"] /\ p.colors["cursor_fg"] = state.colors["cursor_fg"]
  BY <1>3 DEF Colors!Entries, Colors!Dynamic, Colors!Indexed
<1>9. PaletteFits(p, c, state.wanted)
  BY <1>1, <1>3, <1>6, <1>7, <1>8 DEF PaletteFits, PaletteKept, PaletteTypes, Copied
<1> QED BY <1>5, <1>9, ToKeeps, NextKept

(* A dynamic colour is set or reset to c, and what goes with it to d. *)
LEMMA DynamicKeeps ==
    ASSUME ReverseConfigured \in BOOLEAN, PaletteInv, NEW sel \in Colors!Selectors, NEW c \in Shades, NEW d \in Shades,
           ColorsCursor = "bg" => c = d,
           NEW p, p = Changed(state, sel, c, d),
           NEW plain, plain = Changed(Colors!Plain, sel, c, d),
           state' = With(p, plain.colors, state.wanted)
    PROVE  PaletteInv'
<1> DEFINE f == state.plain
           g == PaintDynamic(f, sel, c, d)
<1>1. /\ PaletteKept(state) /\ PaletteTypes(state) /\ state.reverse \in BOOLEAN /\ f \in [Colors!Entries -> Shades]
      /\ state.colors = Drawn(f, state.reverse)
  BY PaletteInvIsKept DEF PaletteKept, PaletteTypes
<1>2. PaletteTypes(Colors!Plain) /\ Colors!Plain.colors = f /\ Colors!Plain.reverse = FALSE
  BY <1>1, PlainDoes
<1>3. /\ PaletteTypes(p) /\ p.reverse = state.reverse /\ p.bell = state.bell /\ p.initInvert = state.initInvert
      /\ p.plain = state.plain /\ p.wanted = state.wanted
      /\ p.colors = Drawn(g, state.reverse)
      /\ c = d /\ Copied(state) => Copied(p)
  BY <1>1, ChangedDoes
<1>4. plain.colors = Drawn(g, Colors!Plain.reverse)
  <2>1. Colors!Plain.colors = Drawn(f, Colors!Plain.reverse)
    BY <1>2 DEF Drawn
  <2>2. Colors!Plain.reverse \in BOOLEAN
    BY <1>2
  <2> QED BY <1>1, <1>2, <2>1, <2>2, ChangedDoes
<1>5. plain.colors = g
  BY <1>2, <1>4 DEF Drawn
<1>6. g \in [Colors!Entries -> Shades]
  BY <1>1 DEF Paint, PaintDynamic
<1> HIDE DEF f, g
<1>7. PaletteFits(p, plain.colors, state.wanted)
  BY <1>1, <1>3, <1>5, <1>6 DEF PaletteFits, PaletteKept, PaletteTypes
<1> QED BY <1>7, ToKeeps, NextKept

(* OSC 10, 11, 12, 17 and 19 *)
LEMMA SetDynamicKeeps ==
    ASSUME ReverseConfigured \in BOOLEAN, PaletteInv, Colors!SetDynamic
    PROVE  PaletteInv'
<1>1. PICK sel \in Colors!Selectors, col \in NewColors :
          Colors!To(Colors!term_do_set_color(state, sel, col), Colors!term_do_set_color(Colors!Plain, sel, col), state.wanted)
  BY DEF Colors!SetDynamic
<1>2. col \in Shades
  BY DEF Shades, Colors!Colors
<1>3. state' = With(Colors!term_do_set_color(state, sel, col), Colors!term_do_set_color(Colors!Plain, sel, col).colors, state.wanted)
  BY <1>1 DEF Colors!To, With
<1> QED BY <1>2, <1>3, DynamicKeeps DEF Changed, Colors!term_do_set_color, Colors!selector_to_cid

(* OSC 110, 111, 112, 117 and 119 *)
LEMMA ResetDynamicKeeps ==
    ASSUME ReverseConfigured \in BOOLEAN, PaletteInv, Colors!ResetDynamic
    PROVE  PaletteInv'
<1>1. PICK sel \in Colors!Selectors :
          Colors!To(Colors!term_do_reset_color(state, sel), Colors!term_do_reset_color(Colors!Plain, sel), state.wanted)
  BY DEF Colors!ResetDynamic
<1> DEFINE c == Colors!Config[sel]
           d == IF sel = "bg" THEN Colors!Config["cursor_bg"] ELSE Colors!Config[sel]
<1>2. c \in Shades /\ d \in Shades
  BY ConfigTypes DEF Colors!Selectors, Colors!Entries, Colors!Dynamic
<1>3. ColorsCursor = "bg" => c = d
  BY DEF Colors!Config, Colors!Entries, Colors!Dynamic
<1>4. state' = With(Colors!term_do_reset_color(state, sel), Colors!term_do_reset_color(Colors!Plain, sel).colors, state.wanted)
  BY <1>1 DEF Colors!To, With
<1>5. /\ Colors!term_do_reset_color(state, sel) = Changed(state, sel, c, d)
      /\ Colors!term_do_reset_color(Colors!Plain, sel) = Changed(Colors!Plain, sel, c, d)
  BY DEF Changed, Colors!term_do_reset_color, Colors!selector_to_cid
<1> HIDE DEF c, d
<1> QED BY <1>2, <1>3, <1>4, <1>5, DynamicKeeps

----------------------------------------------------------------------------
(* The palette p is right but for its mode, which set will make so.        *)
Ready(p, set, wanted) ==
    /\ p.colors = Drawn(p.plain, p.reverse)
    /\ set = (wanted # p.bell)
    /\ p.bell => p.initInvert = wanted
    /\ ColorsCursor = "bg" => Copied(p)

(* term_set_reverse() of the palette, possibly after the bell was noted,   *)
(* fits where the mode is right after it.                                  *)
LEMMA ReversedFits ==
    ASSUME NEW p, PaletteTypes(p), NEW set \in BOOLEAN, NEW wanted \in BOOLEAN, Ready(p, set, wanted)
    PROVE  PaletteFits(Colors!term_set_reverse(p, set), p.plain, wanted)
<1> DEFINE r == Colors!term_set_reverse(p, set)
<1>1. p.plain \in [Colors!Entries -> Shades]
  BY DEF PaletteTypes
<1>2. p.colors = Drawn(p.plain, p.reverse)
  BY DEF Ready
<1>3. /\ PaletteTypes(r) /\ r.colors = Drawn(p.plain, set) /\ r.reverse = set
      /\ r.bell = p.bell /\ r.initInvert = p.initInvert
      /\ Copied(p) => Copied(r)
  BY <1>1, <1>2, SetReverseDoes
<1> HIDE DEF r
<1>4. PaletteFits(r, p.plain, wanted)
  BY <1>1, <1>3 DEF PaletteFits, Ready
<1> QED BY <1>4 DEF r

(* The palette of the one is reversed, that of the other is as it was. *)
LEMMA ToReversed ==
    ASSUME ReverseConfigured \in BOOLEAN, PaletteInv, NEW p, PaletteTypes(p), p.plain = state.plain,
           NEW set \in BOOLEAN, NEW wanted \in BOOLEAN, Ready(p, set, wanted),
           Colors!To(Colors!term_set_reverse(p, set), Colors!Plain, wanted)
    PROVE  PaletteInv'
<1>1. Colors!Plain.colors = p.plain
  BY PaletteInvIsKept, PlainDoes
<1>2. state' = With(Colors!term_set_reverse(p, set), p.plain, wanted)
  BY <1>1 DEF Colors!To, With
<1>3. PaletteFits(Colors!term_set_reverse(p, set), p.plain, wanted)
  BY ReversedFits
<1> QED BY <1>2, <1>3, ToKeeps, NextKept

(* DECSCNM while the bell does not ring. *)
LEMMA SetReverseKeeps ==
    ASSUME ReverseConfigured \in BOOLEAN, PaletteInv, Colors!SetReverse
    PROVE  PaletteInv'
<1>1. PICK set \in BOOLEAN : ~ state.bell /\ Colors!To(Colors!term_set_reverse(state, set), Colors!Plain, set)
  BY DEF Colors!SetReverse
<1>2. PaletteKept(state) /\ PaletteTypes(state) /\ state.bell = FALSE
  BY <1>1, PaletteInvIsKept DEF PaletteKept, PaletteTypes
<1>3. Ready(state, set, set)
  BY <1>2 DEF Ready, PaletteKept
<1> QED BY <1>1, <1>2, <1>3, ToReversed

(* The bell reverses the screen, unless it rings already. *)
LEMMA BellKeeps ==
    ASSUME ReverseConfigured \in BOOLEAN, PaletteInv, Colors!Bell
    PROVE  PaletteInv'
<1>1. PaletteKept(state) /\ PaletteTypes(state) /\ state.bell \in BOOLEAN /\ state.wanted \in BOOLEAN /\ state.reverse \in BOOLEAN
  BY PaletteInvIsKept DEF PaletteKept, PaletteTypes
<1>2. CASE state.bell
  <2>1. state' = With(state, Colors!Plain.colors, state.wanted)
    BY <1>2 DEF Colors!Bell, Colors!window_bell, Colors!To, With
  <2>2. Colors!Plain.colors = state.plain
    BY <1>1, PlainDoes
  <2>3. PaletteFits(state, Colors!Plain.colors, state.wanted)
    BY <1>1, <2>2 DEF PaletteFits, PaletteKept, PaletteTypes
  <2> QED BY <2>1, <2>3, ToKeeps, NextKept
<1>3. CASE ~ state.bell
  <2> DEFINE p == [state EXCEPT !.bell = TRUE, !.initInvert = state.reverse]
  <2>1. Colors!To(Colors!term_set_reverse(p, ~ state.reverse), Colors!Plain, state.wanted)
    BY <1>3 DEF Colors!Bell, Colors!window_bell
  <2>2. /\ DOMAIN p = PaletteFields /\ p.colors = state.colors /\ p.plain = state.plain /\ p.wanted = state.wanted
        /\ p.reverse = state.reverse /\ p.bell = TRUE /\ p.initInvert = state.reverse
        /\ p.winBg = state.winBg /\ p.winCursor = state.winCursor
    BY <1>1 DEF PaletteTypes, PaletteFields
  <2> HIDE DEF p
  <2>3. PaletteTypes(p)
    BY <1>1, <2>2 DEF PaletteTypes
  <2>4. state.reverse = state.wanted
    BY <1>1, <1>3 DEF PaletteKept
  <2>5. Ready(p, ~ state.reverse, state.wanted)
    BY <1>1, <2>2, <2>4 DEF Ready, PaletteKept, Copied
  <2>6. (~ state.reverse) \in BOOLEAN
    BY <1>1
  <2> QED BY <1>1, <2>1, <2>2, <2>3, <2>5, <2>6, ToReversed
<1> QED BY <1>2, <1>3

(* The end of the bell restores the mode from before it. *)
LEMMA BellEndsKeeps ==
    ASSUME ReverseConfigured \in BOOLEAN, PaletteInv, Colors!BellEnds
    PROVE  PaletteInv'
<1> DEFINE p == [state EXCEPT !.bell = FALSE]
<1>1. /\ PaletteKept(state) /\ PaletteTypes(state) /\ state.initInvert \in BOOLEAN /\ state.wanted \in BOOLEAN /\ state.reverse \in BOOLEAN
      /\ state.bell = TRUE
  BY PaletteInvIsKept DEF PaletteKept, PaletteTypes, Colors!BellEnds
<1>2. Colors!To(Colors!term_set_reverse(p, state.initInvert), Colors!Plain, state.wanted)
  BY DEF Colors!BellEnds, Colors!handle_visual_bell
<1>3. /\ DOMAIN p = PaletteFields /\ p.colors = state.colors /\ p.plain = state.plain /\ p.wanted = state.wanted
      /\ p.reverse = state.reverse /\ p.bell = FALSE /\ p.initInvert = state.initInvert
      /\ p.winBg = state.winBg /\ p.winCursor = state.winCursor
  BY <1>1 DEF PaletteTypes, PaletteFields
<1> HIDE DEF p
<1>4. PaletteTypes(p)
  BY <1>1, <1>3 DEF PaletteTypes
<1>5. state.initInvert = state.wanted
  BY <1>1 DEF PaletteKept
<1>6. Ready(p, state.initInvert, state.wanted)
  BY <1>1, <1>3, <1>5 DEF Ready, PaletteKept, Copied
<1> QED BY <1>1, <1>2, <1>3, <1>4, <1>6, ToReversed

----------------------------------------------------------------------------
(* The configured palette is loaded: in normal video, and then reversed as *)
(* configured.                                                             *)
LEMMA LoadDoes ==
    ASSUME ReverseConfigured \in BOOLEAN, NEW p, PaletteTypes(p), NEW reset \in BOOLEAN, reset \/ ~ p.reverse
    PROVE  LET r == Colors!LoadConfig(p, reset)
           IN  /\ PaletteTypes(r) /\ r.colors = Drawn(Colors!Config, ReverseConfigured) /\ r.reverse = ReverseConfigured
               /\ r.bell = p.bell /\ r.initInvert = p.initInvert
               /\ ~ ReverseConfigured => r.winBg = p.winBg /\ r.winCursor = p.winCursor
<1> DEFINE q == [p EXCEPT !.colors = Colors!Config, !.reverse = IF reset THEN FALSE ELSE @]
           r == Colors!term_set_reverse(q, ReverseConfigured)
<1>1. /\ DOMAIN q = PaletteFields /\ q.colors = Colors!Config /\ q.plain = p.plain /\ q.wanted = p.wanted
      /\ q.bell = p.bell /\ q.initInvert = p.initInvert
      /\ q.winBg = p.winBg /\ q.winCursor = p.winCursor
  BY DEF PaletteTypes, PaletteFields
<1>2. q.reverse = FALSE
  BY DEF PaletteTypes, PaletteFields
<1>3. r = Colors!LoadConfig(p, reset)
  BY DEF Colors!LoadConfig
<1> HIDE DEF q
<1>4. PaletteTypes(q)
  BY <1>1, <1>2, ConfigTypes DEF PaletteTypes
<1>5. q.colors = Drawn(Colors!Config, q.reverse)
  BY <1>1, <1>2 DEF Drawn
<1>6. /\ PaletteTypes(r) /\ r.colors = Drawn(Colors!Config, ReverseConfigured) /\ r.reverse = ReverseConfigured
      /\ r.bell = q.bell /\ r.initInvert = q.initInvert
  BY <1>4, <1>5, ConfigTypes, SetReverseDoes
<1>7. ~ ReverseConfigured => r = q
  BY <1>2 DEF Colors!term_set_reverse
<1> HIDE DEF r
<1>8. ~ ReverseConfigured => r.winBg = p.winBg /\ r.winCursor = p.winCursor
  BY <1>1, <1>7
<1> QED BY <1>1, <1>3, <1>6, <1>8

(* A reset loads the palette from normal video and reverses it as          *)
(* configured.                                                             *)
LEMMA ResetKeeps ==
    ASSUME ReverseConfigured \in BOOLEAN, PaletteInv, Colors!Reset
    PROVE  PaletteInv'
<1> DEFINE r == Colors!LoadConfig(state, TRUE)
           p == Colors!ToWindow(r)
<1>1. PaletteKept(state) /\ PaletteTypes(state) /\ state.bell = FALSE
  BY PaletteInvIsKept DEF PaletteKept, PaletteTypes, Colors!Reset
<1>2. state' = With(p, Colors!Normal.colors, ReverseConfigured)
  BY DEF Colors!Reset, Colors!To, With, Colors!term_do_reset
<1>3. PaletteTypes(r) /\ r.colors = Drawn(Colors!Config, ReverseConfigured) /\ r.reverse = ReverseConfigured /\ r.bell = FALSE
  BY <1>1, LoadDoes
<1> HIDE DEF r
<1>4. /\ PaletteTypes(p) /\ p.colors = Drawn(Colors!Config, ReverseConfigured) /\ p.reverse = ReverseConfigured /\ p.bell = FALSE
      /\ Copied(p)
  BY <1>3, ToWindowDoes DEF Copied
<1> HIDE DEF p
<1>5. Colors!Normal.colors = Colors!Config
  BY <1>1, PlainDoes
<1>6. PaletteFits(p, Colors!Normal.colors, ReverseConfigured)
  BY <1>4, <1>5, ConfigTypes DEF PaletteFits
<1> QED BY <1>2, <1>6, ToKeeps, NextKept

(* A reload in normal video, where that is configured. *)
LEMMA ReloadKeeps ==
    ASSUME ReverseConfigured \in BOOLEAN, PaletteInv, Colors!Reload
    PROVE  PaletteInv'
<1> DEFINE r == Colors!LoadConfig(state, FALSE)
           p == [r EXCEPT !.bell = FALSE]
<1>1. PaletteKept(state) /\ PaletteTypes(state)
  BY PaletteInvIsKept DEF PaletteKept
<1>2. /\ state.reverse = FALSE /\ ReverseConfigured = FALSE
      /\ state.winBg = "bg" /\ state.winCursor = "cursor_fg"
      /\ state' = With(p, Colors!Normal.colors, FALSE)
  BY DEF Colors!Reload, Colors!To, With, Colors!reload_window
<1>3. /\ PaletteTypes(r) /\ r.colors = Drawn(Colors!Config, FALSE) /\ r.reverse = FALSE
      /\ r.winBg = "bg" /\ r.winCursor = "cursor_fg"
  BY <1>1, <1>2, LoadDoes
<1> HIDE DEF r
<1>4. /\ DOMAIN p = PaletteFields /\ p.colors = r.colors /\ p.reverse = FALSE /\ p.bell = FALSE
      /\ p.initInvert = r.initInvert /\ p.wanted = r.wanted /\ p.plain = r.plain
      /\ p.winBg = "bg" /\ p.winCursor = "cursor_fg"
  BY <1>3 DEF PaletteTypes, PaletteFields
<1> HIDE DEF p
<1>5. PaletteTypes(p) /\ p.colors = Colors!Config
  BY <1>3, <1>4 DEF PaletteTypes, Drawn
<1>6. Copied(p)
  BY <1>4, <1>5 DEF Copied, Colors!Config, Colors!Entries, Colors!Dynamic
<1>7. Colors!Normal.colors = Colors!Config
  BY <1>1, PlainDoes
<1>8. PaletteFits(p, Colors!Normal.colors, FALSE)
  BY <1>4, <1>5, <1>6, <1>7, ConfigTypes DEF PaletteFits, Drawn
<1> QED BY <1>2, <1>8, ToKeeps, NextKept

----------------------------------------------------------------------------
(* No step of the palette leaves the invariant. *)
LEMMA ColorsKeep ==
    ASSUME ReverseConfigured \in BOOLEAN, PaletteInv, Colors!Next \/ state' = state
    PROVE  PaletteInv'
<1>1. CASE state' = state
  BY <1>1, PaletteInvIsKept, NextKept
<1>2. CASE Colors!Next
  BY <1>2, SetColorKeeps, ResetColorKeeps, ResetColorsKeeps, SetDynamicKeeps, ResetDynamicKeeps,
     SetReverseKeeps, ResetKeeps, ReloadKeeps, BellKeeps, BellEndsKeeps DEF Colors!Next
<1> QED BY <1>1, <1>2

ColorsHold == part = "colors" => PaletteInv

(* They hold in every state of the part. *)
LEMMA ColorsInvariant == FrontSpec => []ColorsHold
<1>1. FrontInit => ColorsHold
  BY ColorsAssumption, InitKeeps DEF FrontInit, Chosen, ColorsHold
<1>2. ColorsHold /\ [FrontNext]_all => ColorsHold'
  <2> SUFFICES ASSUME ColorsHold, [FrontNext]_all, part' = "colors"
               PROVE  PaletteInv'
    BY DEF ColorsHold
  <2>1. part = "colors" /\ (Colors!Next \/ state' = state)
    BY DEF FrontNext, all
  <2> QED BY <2>1, ColorsAssumption, ColorsKeep DEF ColorsHold
<1> QED BY <1>1, <1>2, PTL DEF FrontSpec

(* Whatever colours are set and reset, in normal or in reverse video, and  *)
(* whenever the bell rings: the palette is the one programs set, its pairs *)
(* swapped once while the screen is reversed, and the mode is what was     *)
(* asked for but while the bell rings (term_set_reverse(), OSC 4, 10 to 19 *)
(* and 104 to 119, window_bell()), but for the cases the code leaves out.  *)
THEOREM PaletteIsExact == FrontSpec => [](part = "colors" => Colors!PaletteExact)
<1>1. ColorsHold => (part = "colors" => Colors!PaletteExact)
  BY DEF ColorsHold, PaletteInv
<1> QED BY <1>1, ColorsInvariant, PTL

(* And the background and the colour of the cursor that the window has are *)
(* those of the palette, where what is under the cursor is configured to   *)
(* the background (window_set_colors(), term_colors_changed()).            *)
THEOREM ColorsAreRight ==
    ASSUME ColorsCursor = "bg"
    PROVE  FrontSpec => []ColorsRight
<1>1. ColorsHold => ColorsRight
  BY DEF ColorsHold, ColorsRight, PaletteInv
<1> QED BY <1>1, ColorsInvariant, PTL

----------------------------------------------------------------------------
(* The modes that programs set, save and restore: TermModes. *)

(* The tables: which modes there are, and what their flags are not.        *)
LEMMA TableIs ==
    ASSUME NEW pairs, NEW n \in DOMAIN Modes!Table(pairs)
    PROVE  \E p \in pairs : p[1] = n /\ Modes!Table(pairs)[n] = p[2]
<1>1. PICK p \in pairs : p[1] = n
  BY DEF Modes!Table
<1>2. (CHOOSE q \in pairs : q[1] = n) \in pairs /\ (CHOOSE q \in pairs : q[1] = n)[1] = n
  BY <1>1
<1>3. Modes!Table(pairs)[n] = (CHOOSE q \in pairs : q[1] = n)[2]
  BY <1>1 DEF Modes!Table
<1> QED BY <1>2, <1>3

(* No flag of a mode is one of the two of the alternative screen, and VT52 *)
(* mode keeps neither.                                                     *)
LEMMA NoScreenFlag ==
    /\ \A n \in DOMAIN Modes!Flag : Modes!Flag[n] # "altscreen" /\ Modes!Flag[n] # "disable_altscreen"
    /\ "altscreen" \notin Modes!KeptInVt52 /\ "wrap" # "altscreen"
    /\ "altscreen" \in Modes!ScreenFlags
<1> DEFINE pairs == Modes!TermFlag \cup Modes!ScreenFlag \cup Modes!KeyFlag \cup Modes!OtherFlag
<1>1. \A p \in Modes!TermFlag : p[2] # "altscreen" /\ p[2] # "disable_altscreen"
  BY DEF Modes!TermFlag
<1>2. \A p \in Modes!ScreenFlag : p[2] # "altscreen" /\ p[2] # "disable_altscreen"
  BY DEF Modes!ScreenFlag
<1>3. \A p \in Modes!KeyFlag \cup Modes!OtherFlag : p[2] # "altscreen" /\ p[2] # "disable_altscreen"
  BY DEF Modes!KeyFlag, Modes!OtherFlag
<1>4. ASSUME NEW n \in DOMAIN Modes!Flag
      PROVE  Modes!Flag[n] # "altscreen" /\ Modes!Flag[n] # "disable_altscreen"
  <2>1. PICK p \in pairs : p[1] = n /\ Modes!Flag[n] = p[2]
    BY <1>4, TableIs DEF Modes!Flag
  <2> QED BY <2>1, <1>1, <1>2, <1>3
<1>5. "altscreen" \notin Modes!KeptInVt52
  BY <1>3 DEF Modes!KeptInVt52, Modes!KeyFlags
<1> QED BY <1>4, <1>5 DEF Modes!ScreenFlags

(* The modes of the mouse, of its reports and of the keyboard; only 1003   *)
(* tracks the motion, and none sets what is unset.                         *)
LEMMA MouseIs ==
    /\ DOMAIN Modes!MouseModes = {9, 1000, 1002, 1003} /\ DOMAIN Modes!MouseFormats = {1005, 1006, 1015, 1016}
    /\ DOMAIN Modes!Keymaps = {1051, 1052, 1053, 1060, 1061}
    /\ \A n \in DOMAIN Modes!MouseModes : Modes!MouseModes[n] # "none" /\ (Modes!MouseModes[n] = "motion" <=> n = 1003)
    /\ \A n \in DOMAIN Modes!MouseFormats : Modes!MouseFormats[n] # "default"
    /\ \A n \in DOMAIN Modes!Keymaps : Modes!Keymaps[n] # "default"
<1>1. DOMAIN Modes!MouseModes = {9, 1000, 1002, 1003}
  BY DEF Modes!MouseModes, Modes!Table
<1>2. DOMAIN Modes!MouseFormats = {1005, 1006, 1015, 1016}
  BY DEF Modes!MouseFormats, Modes!Table
<1>3. DOMAIN Modes!Keymaps = {1051, 1052, 1053, 1060, 1061}
  BY DEF Modes!Keymaps, Modes!Table
<1>4. ASSUME NEW n \in DOMAIN Modes!MouseModes
      PROVE  Modes!MouseModes[n] # "none" /\ (Modes!MouseModes[n] = "motion" <=> n = 1003)
  BY <1>4, TableIs DEF Modes!MouseModes
<1>5. ASSUME NEW n \in DOMAIN Modes!MouseFormats PROVE Modes!MouseFormats[n] # "default"
  BY <1>5, TableIs DEF Modes!MouseFormats
<1>6. ASSUME NEW n \in DOMAIN Modes!Keymaps PROVE Modes!Keymaps[n] # "default"
  BY <1>6, TableIs DEF Modes!Keymaps
<1> QED BY <1>1, <1>2, <1>3, <1>4, <1>5, <1>6

(* The modes are a record of these fields, all or all but some the same. *)
ModeFields == {"on", "mouse", "format", "keymap", "saved", "back", "shown", "motion", "sync", "shape", "bits", "savedMouse",
           "savedFormat", "savedKeymap", "vt52", "level", "version", "group", "was", "did"}
IsModes(t) == DOMAIN t = ModeFields /\ t = [f \in ModeFields |-> t[f]]
SameBut(t, u, but) == IsModes(u) /\ \A f \in ModeFields \ but : u[f] = t[f]

(* A field that is assigned is the only one that changes. *)
LEMMA OneChanged ==
    ASSUME NEW t, IsModes(t), NEW f \in ModeFields, NEW x
    PROVE  SameBut(t, [t EXCEPT ![f] = x], {f}) /\ [t EXCEPT ![f] = x][f] = x
<1> DEFINE u == [t EXCEPT ![f] = x]
<1>1. DOMAIN u = ModeFields /\ u[f] = x /\ \A g \in ModeFields \ {f} : u[g] = t[g]
  BY DEF IsModes
<1>2. u = [g \in ModeFields |-> u[g]]
  BY DEF IsModes
<1> QED BY <1>1, <1>2 DEF IsModes, SameBut

(* A flag that is put changes no other field and no other flag. *)
LEMMA PutIs ==
    ASSUME NEW t, IsModes(t), NEW flag, NEW b
    PROVE  /\ SameBut(t, Modes!Put(t, flag, b), {"on"})
           /\ Modes!Put(t, flag, b).on = IF b THEN t.on \cup {flag} ELSE t.on \ {flag}
<1>1. "on" \in ModeFields
  BY DEF ModeFields
<1> QED BY <1>1, OneChanged DEF Modes!Put, Modes!With

(* Saving and restoring the cursor change the origin mode and what is      *)
(* saved of it.                                                            *)
LEMMA CursorIs ==
    ASSUME NEW t, IsModes(t), NEW save \in BOOLEAN
    PROVE  LET u == Modes!screen_save_cursor(t, save)
           IN  /\ SameBut(t, u, {"on", "saved"})
               /\ \A f : f # "origin" => (f \in u.on <=> f \in t.on)
<1>1. CASE save
  <2> DEFINE v == "origin" \in t.on
             u == [t EXCEPT !.saved = v]
  <2>1. Modes!screen_save_cursor(t, save) = u
    BY <1>1 DEF Modes!screen_save_cursor
  <2> HIDE DEF v
  <2>2. "saved" \in ModeFields /\ "on" \in ModeFields /\ "on" # "saved"
    BY DEF ModeFields
  <2>3. SameBut(t, u, {"saved"})
    BY <2>2, OneChanged
  <2> HIDE DEF u
  <2> QED BY <2>1, <2>2, <2>3 DEF SameBut
<1>2. CASE ~save
  <2> DEFINE b == t.saved
             u == Modes!Put(t, "origin", b)
  <2>1. Modes!screen_save_cursor(t, save) = u
    BY <1>2 DEF Modes!screen_save_cursor
  <2> HIDE DEF b
  <2>2. SameBut(t, u, {"on"}) /\ u.on = IF b THEN t.on \cup {"origin"} ELSE t.on \ {"origin"}
    BY PutIs
  <2> HIDE DEF u
  <2> QED BY <2>1, <2>2 DEF SameBut
<1> QED BY <1>1, <1>2

(* Two swaps of the screens are of their cursors, the one that is shown    *)
(* and its mode.                                                           *)
LEMMA SwapIs ==
    ASSUME NEW t, IsModes(t)
    PROVE  LET u == Modes!screen_swap_screen(t)
           IN  /\ SameBut(t, u, {"on", "saved", "back", "shown"})
               /\ \A f : f # "altscreen" => (f \in u.on <=> f \in t.on)
               /\ "altscreen" \in u.on <=> "altscreen" \notin t.on
               /\ u.shown = IF "altscreen" \in t.on THEN "main" ELSE "alt"
<1> DEFINE p == Modes!Put(t, "altscreen", "altscreen" \notin t.on)
           u == Modes!screen_swap_screen(t)
<1>1. /\ SameBut(t, p, {"on"})
      /\ p.on = IF "altscreen" \notin t.on THEN t.on \cup {"altscreen"} ELSE t.on \ {"altscreen"}
  BY PutIs
<1>2. u = [p EXCEPT !.saved = t.back, !.back = t.saved, !.shown = IF "altscreen" \in t.on THEN "main" ELSE "alt"]
  BY DEF Modes!screen_swap_screen
<1> HIDE DEF p, u
<1>3. SameBut(p, u, {"saved", "back", "shown"}) /\ u.shown = IF "altscreen" \in t.on THEN "main" ELSE "alt"
  BY <1>1, <1>2 DEF SameBut, IsModes, ModeFields
<1>4. u.on = p.on
  BY <1>3 DEF SameBut, ModeFields
<1>5. SameBut(t, u, {"on", "saved", "back", "shown"})
  BY <1>1, <1>3 DEF SameBut
<1>6. "altscreen" \in u.on <=> "altscreen" \notin t.on
  BY <1>1, <1>4
<1>7. \A f : f # "altscreen" => (f \in u.on <=> f \in t.on)
  BY <1>1, <1>4
<1> QED BY <1>3, <1>5, <1>6, <1>7 DEF u

(* The screen that is shown is the one of the mode. *)
ShownBy(t) ==
    /\ t.shown = IF "altscreen" \in t.on THEN "alt" ELSE "main"
    /\ "disable_altscreen" \in t.on => "altscreen" \notin t.on

(* The screen that is asked for is shown, unless it is disabled            *)
(* (screen_set_altscreen()).                                               *)
LEMMA AltIs ==
    ASSUME NEW t, IsModes(t), NEW set \in BOOLEAN, NEW save \in BOOLEAN
    PROVE  LET u == Modes!screen_set_altscreen(t, set, save)
           IN  /\ SameBut(t, u, {"on", "saved", "back", "shown"})
               /\ \A f : f \notin {"altscreen", "origin"} => (f \in u.on <=> f \in t.on)
               /\ "disable_altscreen" \notin t.on => ("altscreen" \in u.on <=> set)
               /\ "disable_altscreen" \in t.on => u = t
               /\ set = ("altscreen" \in t.on) => u = t
               /\ ShownBy(t) => ShownBy(u)
<1> DEFINE u == Modes!screen_set_altscreen(t, set, save)
           b == Modes!SavedBefore(t, set, save)
           s == Modes!screen_swap_screen(b)
           r == Modes!RestoredAfter(s, set, save)
<1>a. SameBut(t, t, {"on", "saved", "back", "shown"})
  BY DEF SameBut
<1>1. CASE "disable_altscreen" \in t.on \/ set = ("altscreen" \in t.on)
  <2>1. u = t
    BY <1>1 DEF Modes!screen_set_altscreen
  <2> QED BY <1>a, <1>1, <2>1
<1>2. CASE ~("disable_altscreen" \in t.on \/ set = ("altscreen" \in t.on))
  <2>1. u = r
    BY <1>2 DEF Modes!screen_set_altscreen
  <2>2. SameBut(t, b, {"on", "saved"}) /\ \A f : f # "origin" => (f \in b.on <=> f \in t.on)
    <3>1. CASE set /\ save
      BY <3>1, CursorIs DEF Modes!SavedBefore
    <3>2. CASE ~(set /\ save)
      BY <3>2 DEF Modes!SavedBefore, SameBut
    <3> QED BY <3>1, <3>2
  <2>3. /\ SameBut(b, s, {"on", "saved", "back", "shown"})
        /\ \A f : f # "altscreen" => (f \in s.on <=> f \in b.on)
        /\ "altscreen" \in s.on <=> "altscreen" \notin b.on
        /\ s.shown = IF "altscreen" \in b.on THEN "main" ELSE "alt"
    BY <2>2, SwapIs DEF SameBut
  <2>4. SameBut(s, r, {"on", "saved"}) /\ \A f : f # "origin" => (f \in r.on <=> f \in s.on)
    <3>0. IsModes(s)
      BY <2>3 DEF SameBut
    <3> HIDE DEF s
    <3>1. CASE ~set /\ save
      <4>1. r = Modes!screen_save_cursor(s, FALSE)
        BY <3>1 DEF Modes!RestoredAfter
      <4> QED BY <3>0, <4>1, CursorIs
    <3>2. CASE ~(~set /\ save)
      BY <3>0, <3>2 DEF Modes!RestoredAfter, SameBut
    <3> QED BY <3>1, <3>2
  <2> HIDE DEF u, b, s, r
  <2>5. SameBut(t, u, {"on", "saved", "back", "shown"})
    BY <2>1, <2>2, <2>3, <2>4 DEF SameBut
  <2>6. u.shown = s.shown
    BY <2>1, <2>4 DEF SameBut, ModeFields
  <2>7. \A f : f \notin {"altscreen", "origin"} => (f \in u.on <=> f \in t.on)
    BY <2>1, <2>2, <2>3, <2>4
  <2>8. "altscreen" \in u.on <=> "altscreen" \notin t.on
    BY <2>1, <2>2, <2>3, <2>4
  <2>9. "altscreen" \notin t.on <=> set
    BY <1>2
  <2>10. ShownBy(u)
    <3>1. u.shown = IF "altscreen" \in u.on THEN "alt" ELSE "main"
      BY <2>2, <2>3, <2>6, <2>8
    <3> QED BY <1>2, <2>7, <3>1 DEF ShownBy
  <2> QED BY <1>2, <2>5, <2>7, <2>8, <2>9, <2>10 DEF u
<1> QED BY <1>1, <1>2

(* The modes with a case of their own. *)
NoFlagModes ==
    {2, 12, 1046, 1048, 2026, 9, 1000, 1002, 1003, 1005, 1006, 1015, 1016, 1051, 1052, 1053, 1060, 1061, 47, 1047, 1049,
     10, 13, 14, 30, 80, 1001, 1050, -1, -5, -7, -10, -11, -13, -14, -15, -16, -17, -18, -19}

(* The modes that are one flag are none of those with a case of their own. *)
LEMMA FlagsApart ==
    DOMAIN Modes!Flag \cap NoFlagModes = {} /\ Modes!Flag[3] = "columns_132"
<1>1. \A p \in Modes!TermFlag : p[1] \notin NoFlagModes /\ (p[1] = 3 => p[2] = "columns_132")
  BY DEF Modes!TermFlag, NoFlagModes
<1>2. \A p \in Modes!ScreenFlag : p[1] \notin NoFlagModes /\ p[1] # 3
  BY DEF Modes!ScreenFlag, NoFlagModes
<1>3. \A p \in Modes!KeyFlag : p[1] \notin NoFlagModes /\ p[1] # 3
  BY DEF Modes!KeyFlag, NoFlagModes
<1>4. \A p \in Modes!OtherFlag : p[1] \notin NoFlagModes /\ p[1] # 3
  BY DEF Modes!OtherFlag, NoFlagModes
<1> DEFINE pairs == Modes!TermFlag \cup Modes!ScreenFlag \cup Modes!KeyFlag \cup Modes!OtherFlag
<1>5. \A p \in pairs : p[1] \notin NoFlagModes /\ (p[1] = 3 => p[2] = "columns_132")
  BY <1>1, <1>2, <1>3, <1>4
<1>6. \A n \in DOMAIN Modes!Flag : \E p \in pairs : p[1] = n /\ Modes!Flag[n] = p[2]
  BY TableIs DEF Modes!Flag
<1>7. 3 \in DOMAIN Modes!Flag
  <2>1. <<3, "columns_132">> \in Modes!TermFlag
    BY DEF Modes!TermFlag
  <2>2. <<3, "columns_132">> \in pairs /\ <<3, "columns_132">>[1] = 3
    BY <2>1
  <2> HIDE DEF pairs
  <2>3. DOMAIN Modes!Table(pairs) = {p[1] : p \in pairs}
    BY DEF Modes!Table
  <2> QED BY <2>2, <2>3 DEF Modes!Flag, pairs
<1> HIDE DEF pairs
<1> QED BY <1>5, <1>6, <1>7

(* What term_srm() does of a mode and what term_get_mode() answers         *)
SrmOf(t, n, set, u) ==
    /\ n = 2 => u = (IF set THEN t ELSE Modes!term_set_vt52(t, TRUE))
    /\ n = 12 => u = [t EXCEPT !.shape = Modes!BlinkShape(@, set)]
    /\ n \in DOMAIN Modes!MouseModes => u = Modes!SetMouse(t, n, set)
    /\ n \in DOMAIN Modes!MouseFormats => u = [t EXCEPT !.format = IF set THEN Modes!MouseFormats[n] ELSE "default"]
    /\ n \in DOMAIN Modes!Keymaps => u = [t EXCEPT !.keymap = IF set THEN Modes!Keymaps[n] ELSE "default"]
    /\ n \in Modes!AltModes => u = Modes!screen_set_altscreen(t, set, n = 1049)
    /\ n = 1046 => u = Modes!AllowAlt(t, set)
    /\ n = 1048 => u = Modes!screen_save_cursor(t, set)
    /\ n = 2026 => u = [t EXCEPT !.sync = set]
    /\ n \in Modes!AlwaysReset => u = t
    /\ n \in DOMAIN Modes!Flag => u = Modes!SetFlag(t, n, set)
AskOf(t, n, answer) ==
    /\ n = 2 => answer = "reset"
    /\ n = 12 => answer = Modes!Status(t.shape % 2 = 1)
    /\ n \in DOMAIN Modes!MouseModes => answer = Modes!Status(t.mouse = Modes!AskedMouse(n))
    /\ n \in DOMAIN Modes!MouseFormats => answer = Modes!Status(t.format = Modes!MouseFormats[n])
    /\ n \in DOMAIN Modes!Keymaps => answer = Modes!Status(t.keymap = Modes!Keymaps[n])
    /\ n \in Modes!AltModes => answer = Modes!Status("altscreen" \in t.on)
    /\ n = 1046 => answer = Modes!Status("disable_altscreen" \notin t.on)
    /\ n = 1048 => answer = "always set"
    /\ n = 2026 => answer = Modes!Status(t.sync)
    /\ n \in Modes!AlwaysReset => answer = "always reset"
    /\ n \in DOMAIN Modes!Flag => answer = Modes!Status((Modes!Asked(n) \in t.on) # (n \in Modes!Inverted))

(* The cases exclude each other: term_srm() and term_get_mode() do what    *)
(* each says of its mode.                                                  *)
LEMMA SrmCases ==
    ASSUME NEW n \in Modes!Known, NEW t, NEW set
    PROVE  SrmOf(t, n, set, Modes!term_srm(t, n, set)) /\ AskOf(t, n, Modes!term_get_mode(t, n))
<1>1. ASSUME n = 2
      PROVE  /\ Modes!term_srm(t, n, set) = (IF set THEN t ELSE Modes!term_set_vt52(t, TRUE))
             /\ Modes!term_get_mode(t, n) = "reset"
  <2>1. /\ n # 12 /\ n \notin DOMAIN Modes!MouseModes /\ n \notin DOMAIN Modes!MouseFormats
        /\ n \notin DOMAIN Modes!Keymaps /\ n \notin Modes!AltModes
        /\ n # 1046 /\ n # 1048 /\ n # 2026 /\ n \notin Modes!AlwaysReset
    BY <1>1, MouseIs DEF Modes!AltModes, Modes!AlwaysReset
  <2>2. Modes!term_srm(t, n, set) = (IF set THEN t ELSE Modes!term_set_vt52(t, TRUE))
    BY <1>1, <2>1 DEF Modes!term_srm
  <2>3. Modes!term_get_mode(t, n) = "reset"
    BY <1>1, <2>1 DEF Modes!term_get_mode
  <2> QED BY <2>2, <2>3
<1>2. ASSUME n = 12
      PROVE  /\ Modes!term_srm(t, n, set) = [t EXCEPT !.shape = Modes!BlinkShape(@, set)]
             /\ Modes!term_get_mode(t, n) = Modes!Status(t.shape % 2 = 1)
  <2>1. /\ n # 2 /\ n \notin DOMAIN Modes!MouseModes /\ n \notin DOMAIN Modes!MouseFormats
        /\ n \notin DOMAIN Modes!Keymaps /\ n \notin Modes!AltModes
        /\ n # 1046 /\ n # 1048 /\ n # 2026 /\ n \notin Modes!AlwaysReset
    BY <1>2, MouseIs DEF Modes!AltModes, Modes!AlwaysReset
  <2>2. Modes!term_srm(t, n, set) = [t EXCEPT !.shape = Modes!BlinkShape(@, set)]
    BY <1>2, <2>1 DEF Modes!term_srm
  <2>3. Modes!term_get_mode(t, n) = Modes!Status(t.shape % 2 = 1)
    BY <1>2, <2>1 DEF Modes!term_get_mode
  <2> QED BY <2>2, <2>3
<1>3. ASSUME n \in DOMAIN Modes!MouseModes
      PROVE  /\ Modes!term_srm(t, n, set) = Modes!SetMouse(t, n, set)
             /\ Modes!term_get_mode(t, n) = Modes!Status(t.mouse = Modes!AskedMouse(n))
  <2>1. /\ n # 2 /\ n # 12 /\ n \notin DOMAIN Modes!MouseFormats
        /\ n \notin DOMAIN Modes!Keymaps /\ n \notin Modes!AltModes
        /\ n # 1046 /\ n # 1048 /\ n # 2026 /\ n \notin Modes!AlwaysReset
    BY <1>3, MouseIs DEF Modes!AltModes, Modes!AlwaysReset
  <2>2. Modes!term_srm(t, n, set) = Modes!SetMouse(t, n, set)
    BY <1>3, <2>1 DEF Modes!term_srm
  <2>3. Modes!term_get_mode(t, n) = Modes!Status(t.mouse = Modes!AskedMouse(n))
    BY <1>3, <2>1 DEF Modes!term_get_mode
  <2> QED BY <2>2, <2>3
<1>4. ASSUME n \in DOMAIN Modes!MouseFormats
      PROVE  /\ Modes!term_srm(t, n, set) = [t EXCEPT !.format = IF set THEN Modes!MouseFormats[n] ELSE "default"]
             /\ Modes!term_get_mode(t, n) = Modes!Status(t.format = Modes!MouseFormats[n])
  <2>1. /\ n # 2 /\ n # 12 /\ n \notin DOMAIN Modes!MouseModes
        /\ n \notin DOMAIN Modes!Keymaps /\ n \notin Modes!AltModes
        /\ n # 1046 /\ n # 1048 /\ n # 2026 /\ n \notin Modes!AlwaysReset
    BY <1>4, MouseIs DEF Modes!AltModes, Modes!AlwaysReset
  <2>2. Modes!term_srm(t, n, set) = [t EXCEPT !.format = IF set THEN Modes!MouseFormats[n] ELSE "default"]
    BY <1>4, <2>1 DEF Modes!term_srm
  <2>3. Modes!term_get_mode(t, n) = Modes!Status(t.format = Modes!MouseFormats[n])
    BY <1>4, <2>1 DEF Modes!term_get_mode
  <2> QED BY <2>2, <2>3
<1>5. ASSUME n \in DOMAIN Modes!Keymaps
      PROVE  /\ Modes!term_srm(t, n, set) = [t EXCEPT !.keymap = IF set THEN Modes!Keymaps[n] ELSE "default"]
             /\ Modes!term_get_mode(t, n) = Modes!Status(t.keymap = Modes!Keymaps[n])
  <2>1. /\ n # 2 /\ n # 12 /\ n \notin DOMAIN Modes!MouseModes /\ n \notin DOMAIN Modes!MouseFormats /\ n \notin Modes!AltModes
        /\ n # 1046 /\ n # 1048 /\ n # 2026 /\ n \notin Modes!AlwaysReset
    BY <1>5, MouseIs DEF Modes!AltModes, Modes!AlwaysReset
  <2>2. Modes!term_srm(t, n, set) = [t EXCEPT !.keymap = IF set THEN Modes!Keymaps[n] ELSE "default"]
    BY <1>5, <2>1 DEF Modes!term_srm
  <2>3. Modes!term_get_mode(t, n) = Modes!Status(t.keymap = Modes!Keymaps[n])
    BY <1>5, <2>1 DEF Modes!term_get_mode
  <2> QED BY <2>2, <2>3
<1>6. ASSUME n \in Modes!AltModes
      PROVE  /\ Modes!term_srm(t, n, set) = Modes!screen_set_altscreen(t, set, n = 1049)
             /\ Modes!term_get_mode(t, n) = Modes!Status("altscreen" \in t.on)
  <2>1. /\ n # 2 /\ n # 12 /\ n \notin DOMAIN Modes!MouseModes /\ n \notin DOMAIN Modes!MouseFormats
        /\ n \notin DOMAIN Modes!Keymaps
        /\ n # 1046 /\ n # 1048 /\ n # 2026 /\ n \notin Modes!AlwaysReset
    BY <1>6, MouseIs DEF Modes!AltModes, Modes!AlwaysReset
  <2>2. Modes!term_srm(t, n, set) = Modes!screen_set_altscreen(t, set, n = 1049)
    BY <1>6, <2>1 DEF Modes!term_srm
  <2>3. Modes!term_get_mode(t, n) = Modes!Status("altscreen" \in t.on)
    BY <1>6, <2>1 DEF Modes!term_get_mode
  <2> QED BY <2>2, <2>3
<1>7. ASSUME n = 1046
      PROVE  /\ Modes!term_srm(t, n, set) = Modes!AllowAlt(t, set)
             /\ Modes!term_get_mode(t, n) = Modes!Status("disable_altscreen" \notin t.on)
  <2>1. /\ n # 2 /\ n # 12 /\ n \notin DOMAIN Modes!MouseModes /\ n \notin DOMAIN Modes!MouseFormats
        /\ n \notin DOMAIN Modes!Keymaps
        /\ n \notin Modes!AltModes /\ n # 1048 /\ n # 2026 /\ n \notin Modes!AlwaysReset
    BY <1>7, MouseIs DEF Modes!AltModes, Modes!AlwaysReset
  <2>2. Modes!term_srm(t, n, set) = Modes!AllowAlt(t, set)
    BY <1>7, <2>1 DEF Modes!term_srm
  <2>3. Modes!term_get_mode(t, n) = Modes!Status("disable_altscreen" \notin t.on)
    BY <1>7, <2>1 DEF Modes!term_get_mode
  <2> QED BY <2>2, <2>3
<1>8. ASSUME n = 1048
      PROVE  Modes!term_srm(t, n, set) = Modes!screen_save_cursor(t, set) /\ Modes!term_get_mode(t, n) = "always set"
  <2>1. /\ n # 2 /\ n # 12 /\ n \notin DOMAIN Modes!MouseModes /\ n \notin DOMAIN Modes!MouseFormats
        /\ n \notin DOMAIN Modes!Keymaps
        /\ n \notin Modes!AltModes /\ n # 1046 /\ n # 2026 /\ n \notin Modes!AlwaysReset
    BY <1>8, MouseIs DEF Modes!AltModes, Modes!AlwaysReset
  <2>2. Modes!term_srm(t, n, set) = Modes!screen_save_cursor(t, set)
    BY <1>8, <2>1 DEF Modes!term_srm
  <2>3. Modes!term_get_mode(t, n) = "always set"
    BY <1>8, <2>1 DEF Modes!term_get_mode
  <2> QED BY <2>2, <2>3
<1>9. ASSUME n = 2026
      PROVE  Modes!term_srm(t, n, set) = [t EXCEPT !.sync = set] /\ Modes!term_get_mode(t, n) = Modes!Status(t.sync)
  <2>1. /\ n # 2 /\ n # 12 /\ n \notin DOMAIN Modes!MouseModes /\ n \notin DOMAIN Modes!MouseFormats
        /\ n \notin DOMAIN Modes!Keymaps
        /\ n \notin Modes!AltModes /\ n # 1046 /\ n # 1048 /\ n \notin Modes!AlwaysReset
    BY <1>9, MouseIs DEF Modes!AltModes, Modes!AlwaysReset
  <2>2. Modes!term_srm(t, n, set) = [t EXCEPT !.sync = set]
    BY <1>9, <2>1 DEF Modes!term_srm
  <2>3. Modes!term_get_mode(t, n) = Modes!Status(t.sync)
    BY <1>9, <2>1 DEF Modes!term_get_mode
  <2> QED BY <2>2, <2>3
<1>10. ASSUME n \in Modes!AlwaysReset
      PROVE  Modes!term_srm(t, n, set) = t /\ Modes!term_get_mode(t, n) = "always reset"
  <2>1. /\ n # 2 /\ n # 12 /\ n \notin DOMAIN Modes!MouseModes /\ n \notin DOMAIN Modes!MouseFormats
        /\ n \notin DOMAIN Modes!Keymaps
        /\ n \notin Modes!AltModes /\ n # 1046 /\ n # 1048 /\ n # 2026
    BY <1>10, MouseIs DEF Modes!AltModes, Modes!AlwaysReset
  <2>2. Modes!term_srm(t, n, set) = (t)
    BY <1>10, <2>1 DEF Modes!term_srm
  <2>3. Modes!term_get_mode(t, n) = "always reset"
    BY <1>10, <2>1 DEF Modes!term_get_mode
  <2> QED BY <2>2, <2>3
<1>11. ASSUME n \in DOMAIN Modes!Flag
      PROVE  /\ Modes!term_srm(t, n, set) = Modes!SetFlag(t, n, set)
             /\ Modes!term_get_mode(t, n) = Modes!Status((Modes!Asked(n) \in t.on) # (n \in Modes!Inverted))
  <2>1. /\ n # 2 /\ n # 12 /\ n \notin DOMAIN Modes!MouseModes /\ n \notin DOMAIN Modes!MouseFormats
        /\ n \notin DOMAIN Modes!Keymaps
        /\ n \notin Modes!AltModes /\ n # 1046 /\ n # 1048 /\ n # 2026 /\ n \notin Modes!AlwaysReset
    BY <1>11, MouseIs, FlagsApart DEF Modes!AltModes, Modes!AlwaysReset, NoFlagModes
  <2>2. Modes!term_srm(t, n, set) = Modes!SetFlag(t, n, set)
    BY <1>11, <2>1 DEF Modes!term_srm
  <2>3. Modes!term_get_mode(t, n) = Modes!Status((Modes!Asked(n) \in t.on) # (n \in Modes!Inverted))
    BY <1>11, <2>1 DEF Modes!term_get_mode
  <2> QED BY <2>2, <2>3
<1>20. SrmOf(t, n, set, Modes!term_srm(t, n, set))
  <2>1. n = 2 => Modes!term_srm(t, n, set) = (IF set THEN t ELSE Modes!term_set_vt52(t, TRUE))
    BY <1>1
  <2>2. n = 12 => Modes!term_srm(t, n, set) = [t EXCEPT !.shape = Modes!BlinkShape(@, set)]
    BY <1>2
  <2>3. n \in DOMAIN Modes!MouseModes => Modes!term_srm(t, n, set) = Modes!SetMouse(t, n, set)
    BY <1>3
  <2>4. n \in DOMAIN Modes!MouseFormats => Modes!term_srm(t, n, set) = [t EXCEPT !.format = IF set THEN Modes!MouseFormats[n] ELSE "default"]
    BY <1>4
  <2>5. n \in DOMAIN Modes!Keymaps => Modes!term_srm(t, n, set) = [t EXCEPT !.keymap = IF set THEN Modes!Keymaps[n] ELSE "default"]
    BY <1>5
  <2>6. n \in Modes!AltModes => Modes!term_srm(t, n, set) = Modes!screen_set_altscreen(t, set, n = 1049)
    BY <1>6
  <2>7. n = 1046 => Modes!term_srm(t, n, set) = Modes!AllowAlt(t, set)
    BY <1>7
  <2>8. n = 1048 => Modes!term_srm(t, n, set) = Modes!screen_save_cursor(t, set)
    BY <1>8
  <2>9. n = 2026 => Modes!term_srm(t, n, set) = [t EXCEPT !.sync = set]
    BY <1>9
  <2>10. n \in Modes!AlwaysReset => Modes!term_srm(t, n, set) = (t)
    BY <1>10
  <2>11. n \in DOMAIN Modes!Flag => Modes!term_srm(t, n, set) = Modes!SetFlag(t, n, set)
    BY <1>11
  <2> QED BY <2>1, <2>2, <2>3, <2>4, <2>5, <2>6, <2>7, <2>8, <2>9, <2>10, <2>11, Zenon DEF SrmOf
<1>21. AskOf(t, n, Modes!term_get_mode(t, n))
  <2>1. n = 2 => Modes!term_get_mode(t, n) = "reset"
    BY <1>1
  <2>2. n = 12 => Modes!term_get_mode(t, n) = Modes!Status(t.shape % 2 = 1)
    BY <1>2
  <2>3. n \in DOMAIN Modes!MouseModes => Modes!term_get_mode(t, n) = Modes!Status(t.mouse = Modes!AskedMouse(n))
    BY <1>3
  <2>4. n \in DOMAIN Modes!MouseFormats => Modes!term_get_mode(t, n) = Modes!Status(t.format = Modes!MouseFormats[n])
    BY <1>4
  <2>5. n \in DOMAIN Modes!Keymaps => Modes!term_get_mode(t, n) = Modes!Status(t.keymap = Modes!Keymaps[n])
    BY <1>5
  <2>6. n \in Modes!AltModes => Modes!term_get_mode(t, n) = Modes!Status("altscreen" \in t.on)
    BY <1>6
  <2>7. n = 1046 => Modes!term_get_mode(t, n) = Modes!Status("disable_altscreen" \notin t.on)
    BY <1>7
  <2>8. n = 1048 => Modes!term_get_mode(t, n) = "always set"
    BY <1>8
  <2>9. n = 2026 => Modes!term_get_mode(t, n) = Modes!Status(t.sync)
    BY <1>9
  <2>10. n \in Modes!AlwaysReset => Modes!term_get_mode(t, n) = "always reset"
    BY <1>10
  <2>11. n \in DOMAIN Modes!Flag => Modes!term_get_mode(t, n) = Modes!Status((Modes!Asked(n) \in t.on) # (n \in Modes!Inverted))
    BY <1>11
  <2> QED BY <2>1, <2>2, <2>3, <2>4, <2>5, <2>6, <2>7, <2>8, <2>9, <2>10, <2>11, Zenon DEF AskOf
<1> QED BY <1>20, <1>21

(* The window is asked for the motion that the mode wants. *)
MotionBy(t) == t.motion = (t.mouse = "motion" \/ ModeLinks)

(* The mode of the mouse and what the window is asked for change together. *)
LEMMA MotionIs ==
    ASSUME NEW t, IsModes(t), NEW mouse, NEW motion, motion = (mouse = "motion" \/ ModeLinks)
    PROVE  LET u == Modes!window_set_mouse([t EXCEPT !.mouse = mouse], motion)
           IN  SameBut(t, u, {"mouse", "motion"}) /\ u.mouse = mouse /\ MotionBy(u)
<1> DEFINE v == [t EXCEPT !.mouse = mouse]
           u == Modes!window_set_mouse(v, motion)
<1>1. "mouse" \in ModeFields /\ "motion" \in ModeFields /\ "mouse" # "motion"
  BY DEF ModeFields
<1>2. SameBut(t, v, {"mouse"}) /\ v.mouse = mouse
  BY <1>1, OneChanged
<1>3. u = [v EXCEPT !.motion = motion]
  BY DEF Modes!window_set_mouse
<1> HIDE DEF v
<1>4. IsModes(v)
  BY <1>2 DEF SameBut
<1> HIDE DEF u
<1>5. SameBut(v, u, {"motion"}) /\ u.motion = motion
  <2>1. SameBut(v, [v EXCEPT !["motion"] = motion], {"motion"}) /\ [v EXCEPT !["motion"] = motion]["motion"] = motion
    BY <1>1, <1>4, OneChanged
  <2> QED BY <1>3, <2>1
<1>6. SameBut(t, u, {"mouse", "motion"}) /\ u.mouse = mouse
  BY <1>1, <1>2, <1>5 DEF SameBut
<1>7. MotionBy(u)
  BY <1>5, <1>6, Zenon DEF MotionBy
<1> QED BY <1>6, <1>7 DEF u, v

(* The shape of the cursor keeps its pair, and blinks as set. *)
LEMMA ShapeIs ==
    ASSUME NEW shape \in Nat \ {0}, NEW set \in BOOLEAN
    PROVE  /\ Modes!BlinkShape(shape, set) \in Nat \ {0}
           /\ Modes!BlinkShape(shape, set) % 2 = 1 <=> set
<1> DEFINE half == (shape + 1) \div 2
<1>1. half \in Nat /\ (shape + 1) - (2 * half) \in {0, 1}
  OBVIOUS
<1>2. CASE set
  <2>1. Modes!BlinkShape(shape, set) = 2 * half - 1
    BY <1>2 DEF Modes!BlinkShape
  <2>2. half # 0
    BY <1>1
  <2> HIDE DEF half
  <2>3. (2 * half - 1) \in Nat \ {0} /\ (2 * half - 1) % 2 = 1
    BY <1>1, <2>2
  <2> QED BY <1>2, <2>1, <2>3
<1>3. CASE ~set
  <2>1. Modes!BlinkShape(shape, set) = 2 * half
    BY <1>3 DEF Modes!BlinkShape
  <2>a. half # 0
    BY <1>1
  <2> HIDE DEF half
  <2>2. 2 * half \in Nat \ {0} /\ (2 * half) % 2 = 0
    BY <1>1, <2>a
  <2> QED BY <1>3, <2>1, <2>2
<1> QED BY <1>2, <1>3

(* Mode 1046: the alternative screen is left before it is disabled. *)
LEMMA AllowIs ==
    ASSUME NEW t, IsModes(t), NEW set \in BOOLEAN, ShownBy(t)
    PROVE  LET u == Modes!AllowAlt(t, set)
           IN  /\ SameBut(t, u, {"on", "saved", "back", "shown"})
               /\ ShownBy(u) /\ ("disable_altscreen" \notin u.on <=> set)
<1> DEFINE off == ~set
           v == IF set THEN t ELSE Modes!screen_set_altscreen(t, FALSE, FALSE)
           u == Modes!Put(v, "disable_altscreen", off)
<1>1. Modes!AllowAlt(t, set) = u
  BY DEF Modes!AllowAlt
<1>2. SameBut(t, v, {"on", "saved", "back", "shown"}) /\ ShownBy(v) /\ (~set => "altscreen" \notin v.on)
  <2>1. CASE set
    BY <2>1 DEF SameBut
  <2>2. CASE ~set
    <3>1. v = Modes!screen_set_altscreen(t, FALSE, FALSE)
      BY <2>2
    <3> HIDE DEF v
    <3>2. SameBut(t, v, {"on", "saved", "back", "shown"}) /\ ShownBy(v)
      BY <3>1, AltIs
    <3>3. "altscreen" \notin v.on
      BY <3>1, AltIs DEF ShownBy
    <3> QED BY <3>2, <3>3
  <2> QED BY <2>1, <2>2
<1> HIDE DEF v
<1>3. off \in BOOLEAN /\ (off <=> ~set)
  OBVIOUS
<1> HIDE DEF off
<1>4. IsModes(v)
  BY <1>2 DEF SameBut
<1>5. SameBut(v, u, {"on"}) /\ u.on = IF off THEN v.on \cup {"disable_altscreen"} ELSE v.on \ {"disable_altscreen"}
  BY <1>4, PutIs
<1> HIDE DEF u
<1>6. SameBut(t, u, {"on", "saved", "back", "shown"}) /\ u.shown = v.shown
  BY <1>2, <1>5 DEF SameBut, ModeFields
<1>7. ("altscreen" \in u.on <=> "altscreen" \in v.on) /\ ("disable_altscreen" \notin u.on <=> set)
  BY <1>3, <1>5
<1>8. ShownBy(u)
  BY <1>2, <1>6, <1>7 DEF ShownBy
<1> QED BY <1>1, <1>6, <1>7, <1>8

(* The modes that a query answers wrongly, or always alike. *)
AskedWrongly == {2, 1000, 2005, 2006, 1048} \cup Modes!AlwaysReset

(* A mode that is one flag is what it was set to, where its level allows   *)
(* it.                                                                     *)
LEMMA FlagIs ==
    ASSUME NEW t, IsModes(t), NEW n \in DOMAIN Modes!Flag, NEW set \in BOOLEAN
    PROVE  LET u == Modes!SetFlag(t, n, set)
           IN  /\ SameBut(t, u, {"on"})
               /\ "altscreen" \in u.on <=> "altscreen" \in t.on
               /\ "disable_altscreen" \in u.on <=> "disable_altscreen" \in t.on
               /\ Modes!Allowed(u, n) => ((Modes!Flag[n] \in u.on) # (n \in Modes!Inverted) <=> set)
<1> DEFINE b == set # (n \in Modes!Inverted)
           u == Modes!SetFlag(t, n, set)
<1>1. CASE Modes!Allowed(t, n)
  <2>1. u = Modes!Put(t, Modes!Flag[n], b)
    BY <1>1 DEF Modes!SetFlag
  <2>2. b \in BOOLEAN /\ (b <=> ~(set <=> n \in Modes!Inverted))
    OBVIOUS
  <2> HIDE DEF b, u
  <2>3. SameBut(t, u, {"on"}) /\ u.on = IF b THEN t.on \cup {Modes!Flag[n]} ELSE t.on \ {Modes!Flag[n]}
    BY <2>1, PutIs
  <2>4. Modes!Flag[n] \in u.on <=> b
    BY <2>2, <2>3
  <2>5. (Modes!Flag[n] \in u.on) # (n \in Modes!Inverted) <=> set
    BY <2>2, <2>4
  <2>6. /\ "altscreen" \in u.on <=> "altscreen" \in t.on
        /\ "disable_altscreen" \in u.on <=> "disable_altscreen" \in t.on
    BY <2>2, <2>3, NoScreenFlag
  <2> QED BY <2>3, <2>5, <2>6 DEF u
<1>2. CASE ~Modes!Allowed(t, n)
  <2>1. u = t
    BY <1>2 DEF Modes!SetFlag
  <2> QED BY <1>2, <2>1 DEF SameBut
<1> QED BY <1>1, <1>2

SwitchedFields == {"on", "mouse", "format", "keymap", "saved", "back", "shown", "motion", "sync", "shape"}
ModesSound(t) == ShownBy(t) /\ MotionBy(t) /\ t.shape \in Nat \ {0}

(* What term_srm() sets is what a query then answers, but of the modes     *)
(* that are asked wrongly.                                                 *)
LEMMA SrmIs ==
    ASSUME NEW t, IsModes(t), ModesSound(t), NEW set \in BOOLEAN, NEW n \in Modes!Known, n = 2 => set
    PROVE  LET u == Modes!term_srm(t, n, set)
           IN  /\ SameBut(t, u, SwitchedFields) /\ ModesSound(u)
               /\ Modes!Allowed(u, n) /\ n \notin AskedWrongly => Modes!term_get_mode(u, n) = Modes!Status(set)
<1> DEFINE u == Modes!term_srm(t, n, set)
           Goal == /\ SameBut(t, u, SwitchedFields) /\ ShownBy(u) /\ MotionBy(u) /\ u.shape \in Nat \ {0}
                   /\ Modes!Allowed(u, n) /\ n \notin AskedWrongly => Modes!term_get_mode(u, n) = Modes!Status(set)
<1>0. ShownBy(t) /\ MotionBy(t) /\ t.shape \in Nat \ {0}
  BY DEF ModesSound
<1>a. SrmOf(t, n, set, u)
  BY SrmCases
<1> HIDE DEF u
<1>b. AskOf(u, n, Modes!term_get_mode(u, n))
  BY SrmCases
<1>1. ASSUME n = 2 \/ n \in Modes!AlwaysReset PROVE Goal
  <2>1. u = t
    BY <1>a, <1>1 DEF SrmOf
  <2>2. n \in AskedWrongly
    BY <1>1 DEF AskedWrongly
  <2> QED BY <1>0, <2>1, <2>2 DEF SameBut
<1>2. ASSUME n = 12 PROVE Goal
  <2>1. u = [t EXCEPT !.shape = Modes!BlinkShape(t.shape, set)] /\ Modes!term_get_mode(u, n) = Modes!Status(u.shape % 2 = 1)
    BY <1>a, <1>b, <1>2 DEF SrmOf, AskOf
  <2>2. SameBut(t, u, {"shape"}) /\ u.shape = Modes!BlinkShape(t.shape, set)
    <3>1. "shape" \in ModeFields
      BY DEF ModeFields
    <3>2. SameBut(t, [t EXCEPT !["shape"] = Modes!BlinkShape(t.shape, set)], {"shape"}) /\ [t EXCEPT !["shape"] = Modes!BlinkShape(t.shape, set)]["shape"] = Modes!BlinkShape(t.shape, set)
      BY <3>1, OneChanged
    <3> QED BY <2>1, <3>2
  <2>3. u.on = t.on /\ u.shown = t.shown /\ u.mouse = t.mouse /\ u.motion = t.motion
    BY <2>2 DEF SameBut, ModeFields
  <2>4. ShownBy(u) /\ MotionBy(u)
    BY <1>0, <2>3 DEF ShownBy, MotionBy
  <2>5. SameBut(t, u, SwitchedFields)
    BY <2>2 DEF SameBut, SwitchedFields
  <2>6. u.shape \in Nat \ {0}
    BY <1>0, <2>2, ShapeIs
  <2>7. Modes!term_get_mode(u, n) = Modes!Status(set)
    BY <1>0, <2>1, <2>2, ShapeIs DEF Modes!Status
  <2> QED BY <2>4, <2>5, <2>6, <2>7
<1>3. ASSUME n \in DOMAIN Modes!MouseModes PROVE Goal
  <2> DEFINE mouse == IF set THEN Modes!MouseModes[n] ELSE "none"
             motion == (n = 1003 /\ set) \/ ModeLinks
  <2>1. u = Modes!window_set_mouse([t EXCEPT !.mouse = mouse], motion)
    BY <1>a, <1>3 DEF SrmOf, Modes!SetMouse
  <2>2. motion = (mouse = "motion" \/ ModeLinks)
    BY <1>3, MouseIs
  <2>3. mouse = IF set THEN Modes!MouseModes[n] ELSE "none"
    OBVIOUS
  <2> HIDE DEF mouse, motion
  <2>4. SameBut(t, u, {"mouse", "motion"}) /\ u.mouse = mouse /\ MotionBy(u)
    BY <2>1, <2>2, MotionIs
  <2>5. u.on = t.on /\ u.shown = t.shown /\ u.shape = t.shape
    BY <2>4 DEF SameBut, ModeFields
  <2>6. ShownBy(u) /\ SameBut(t, u, SwitchedFields)
    BY <1>0, <2>4, <2>5 DEF ShownBy, SameBut, SwitchedFields
  <2>7. ASSUME n # 1000 PROVE Modes!term_get_mode(u, n) = Modes!Status(set)
    <3>1. Modes!term_get_mode(u, n) = Modes!Status(u.mouse = Modes!AskedMouse(n))
      BY <1>b, <1>3 DEF AskOf
    <3>2. u.mouse = Modes!AskedMouse(n) <=> set
      BY <1>3, <2>3, <2>4, <2>7, MouseIs DEF Modes!AskedMouse
    <3> QED BY <3>1, <3>2 DEF Modes!Status
  <2> QED BY <1>0, <2>4, <2>5, <2>6, <2>7 DEF AskedWrongly
<1>4. ASSUME n \in DOMAIN Modes!MouseFormats PROVE Goal
  <2>1. u = [t EXCEPT !.format = (IF set THEN Modes!MouseFormats[n] ELSE "default")] /\ Modes!term_get_mode(u, n) = Modes!Status(u.format = Modes!MouseFormats[n])
    BY <1>a, <1>b, <1>4 DEF SrmOf, AskOf
  <2>2. SameBut(t, u, {"format"}) /\ u.format = (IF set THEN Modes!MouseFormats[n] ELSE "default")
    <3>1. "format" \in ModeFields
      BY DEF ModeFields
    <3>2. SameBut(t, [t EXCEPT !["format"] = (IF set THEN Modes!MouseFormats[n] ELSE "default")], {"format"}) /\ [t EXCEPT !["format"] = (IF set THEN Modes!MouseFormats[n] ELSE "default")]["format"] = (IF set THEN Modes!MouseFormats[n] ELSE "default")
      BY <3>1, OneChanged
    <3> QED BY <2>1, <3>2
  <2>3. u.on = t.on /\ u.shown = t.shown /\ u.mouse = t.mouse /\ u.motion = t.motion
    BY <2>2 DEF SameBut, ModeFields
  <2>4. ShownBy(u) /\ MotionBy(u)
    BY <1>0, <2>3 DEF ShownBy, MotionBy
  <2>5. SameBut(t, u, SwitchedFields)
    BY <2>2 DEF SameBut, SwitchedFields
  <2>6. u.shape \in Nat \ {0}
    BY <1>0, <2>2 DEF SameBut, ModeFields
  <2>7. Modes!term_get_mode(u, n) = Modes!Status(set)
    BY <1>4, <2>1, <2>2, MouseIs DEF Modes!Status
  <2> QED BY <2>4, <2>5, <2>6, <2>7
<1>5. ASSUME n \in DOMAIN Modes!Keymaps PROVE Goal
  <2>1. u = [t EXCEPT !.keymap = (IF set THEN Modes!Keymaps[n] ELSE "default")] /\ Modes!term_get_mode(u, n) = Modes!Status(u.keymap = Modes!Keymaps[n])
    BY <1>a, <1>b, <1>5 DEF SrmOf, AskOf
  <2>2. SameBut(t, u, {"keymap"}) /\ u.keymap = (IF set THEN Modes!Keymaps[n] ELSE "default")
    <3>1. "keymap" \in ModeFields
      BY DEF ModeFields
    <3>2. SameBut(t, [t EXCEPT !["keymap"] = (IF set THEN Modes!Keymaps[n] ELSE "default")], {"keymap"}) /\ [t EXCEPT !["keymap"] = (IF set THEN Modes!Keymaps[n] ELSE "default")]["keymap"] = (IF set THEN Modes!Keymaps[n] ELSE "default")
      BY <3>1, OneChanged
    <3> QED BY <2>1, <3>2
  <2>3. u.on = t.on /\ u.shown = t.shown /\ u.mouse = t.mouse /\ u.motion = t.motion
    BY <2>2 DEF SameBut, ModeFields
  <2>4. ShownBy(u) /\ MotionBy(u)
    BY <1>0, <2>3 DEF ShownBy, MotionBy
  <2>5. SameBut(t, u, SwitchedFields)
    BY <2>2 DEF SameBut, SwitchedFields
  <2>6. u.shape \in Nat \ {0}
    BY <1>0, <2>2 DEF SameBut, ModeFields
  <2>7. Modes!term_get_mode(u, n) = Modes!Status(set)
    BY <1>5, <2>1, <2>2, MouseIs DEF Modes!Status
  <2> QED BY <2>4, <2>5, <2>6, <2>7
<1>6. ASSUME n \in Modes!AltModes PROVE Goal
  <2> DEFINE save == n = 1049
  <2>1. u = Modes!screen_set_altscreen(t, set, save) /\ Modes!term_get_mode(u, n) = Modes!Status("altscreen" \in u.on)
    BY <1>a, <1>b, <1>6 DEF SrmOf, AskOf
  <2>2. save \in BOOLEAN
    OBVIOUS
  <2> HIDE DEF save
  <2>3. /\ SameBut(t, u, {"on", "saved", "back", "shown"})
        /\ \A f : f \notin {"altscreen", "origin"} => (f \in u.on <=> f \in t.on)
        /\ "disable_altscreen" \notin t.on => ("altscreen" \in u.on <=> set)
        /\ ShownBy(u)
    BY <1>0, <2>1, <2>2, AltIs
  <2>4. u.mouse = t.mouse /\ u.motion = t.motion /\ u.shape = t.shape
    BY <2>3 DEF SameBut, ModeFields
  <2>5. MotionBy(u) /\ SameBut(t, u, SwitchedFields)
    BY <1>0, <2>3, <2>4 DEF MotionBy, SameBut, SwitchedFields
  <2>6. Modes!Allowed(u, n) => ("altscreen" \in u.on <=> set)
    BY <1>6, <2>3 DEF Modes!Allowed
  <2> QED BY <1>0, <2>1, <2>3, <2>4, <2>5, <2>6 DEF Modes!Status
<1>7. ASSUME n = 1046 PROVE Goal
  <2>1. u = Modes!AllowAlt(t, set) /\ Modes!term_get_mode(u, n) = Modes!Status("disable_altscreen" \notin u.on)
    BY <1>a, <1>b, <1>7 DEF SrmOf, AskOf
  <2>2. SameBut(t, u, {"on", "saved", "back", "shown"}) /\ ShownBy(u) /\ ("disable_altscreen" \notin u.on <=> set)
    BY <1>0, <2>1, AllowIs
  <2>3. u.mouse = t.mouse /\ u.motion = t.motion /\ u.shape = t.shape
    BY <2>2 DEF SameBut, ModeFields
  <2>4. MotionBy(u) /\ SameBut(t, u, SwitchedFields)
    BY <1>0, <2>2, <2>3 DEF MotionBy, SameBut, SwitchedFields
  <2> QED BY <1>0, <2>1, <2>2, <2>3, <2>4 DEF Modes!Status
<1>8. ASSUME n = 1048 PROVE Goal
  <2>1. u = Modes!screen_save_cursor(t, set)
    BY <1>a, <1>b, <1>8 DEF SrmOf, AskOf
  <2>2. SameBut(t, u, {"on", "saved"}) /\ \A f : f # "origin" => (f \in u.on <=> f \in t.on)
    BY <2>1, CursorIs
  <2>3. u.mouse = t.mouse /\ u.motion = t.motion /\ u.shape = t.shape /\ u.shown = t.shown
    BY <2>2 DEF SameBut, ModeFields
  <2>4. MotionBy(u) /\ ShownBy(u) /\ SameBut(t, u, SwitchedFields)
    BY <1>0, <2>2, <2>3 DEF MotionBy, ShownBy, SameBut, SwitchedFields
  <2> QED BY <1>0, <1>8, <2>3, <2>4 DEF AskedWrongly
<1>9. ASSUME n = 2026 PROVE Goal
  <2>1. u = [t EXCEPT !.sync = set]
    BY <1>a, <1>9 DEF SrmOf
  <2>2. SameBut(t, u, {"sync"}) /\ u.sync = set
    <3>1. "sync" \in ModeFields
      BY DEF ModeFields
    <3>2. SameBut(t, [t EXCEPT !["sync"] = set], {"sync"}) /\ [t EXCEPT !["sync"] = set]["sync"] = set
      BY <3>1, OneChanged
    <3> QED BY <2>1, <3>2
  <2>3. u.on = t.on /\ u.shown = t.shown /\ u.mouse = t.mouse /\ u.motion = t.motion
    BY <2>2 DEF SameBut, ModeFields
  <2>4. ShownBy(u) /\ MotionBy(u)
    BY <1>0, <2>3 DEF ShownBy, MotionBy
  <2>5. SameBut(t, u, SwitchedFields)
    BY <2>2 DEF SameBut, SwitchedFields
  <2>6. u.shape \in Nat \ {0}
    BY <1>0, <2>2 DEF SameBut, ModeFields
  <2>7. Modes!term_get_mode(u, n) = Modes!Status(set)
    <3>1. n = 2026 => Modes!term_get_mode(u, n) = Modes!Status(u.sync)
      BY <1>b, Zenon DEF AskOf
    <3>2. Modes!term_get_mode(u, n) = Modes!Status(u.sync)
      BY <1>9, <3>1
    <3> QED BY <2>2, <3>2
  <2> QED BY <2>4, <2>5, <2>6, <2>7
<1>10. ASSUME n \in DOMAIN Modes!Flag PROVE Goal
  <2>1. /\ u = Modes!SetFlag(t, n, set)
        /\ Modes!term_get_mode(u, n) = Modes!Status((Modes!Asked(n) \in u.on) # (n \in Modes!Inverted))
    BY <1>a, <1>b, <1>10 DEF SrmOf, AskOf
  <2>2. /\ SameBut(t, u, {"on"})
        /\ "altscreen" \in u.on <=> "altscreen" \in t.on
        /\ "disable_altscreen" \in u.on <=> "disable_altscreen" \in t.on
        /\ Modes!Allowed(u, n) => ((Modes!Flag[n] \in u.on) # (n \in Modes!Inverted) <=> set)
    BY <1>10, <2>1, FlagIs
  <2>3. u.mouse = t.mouse /\ u.motion = t.motion /\ u.shape = t.shape /\ u.shown = t.shown
    BY <2>2 DEF SameBut, ModeFields
  <2>4. MotionBy(u) /\ ShownBy(u) /\ SameBut(t, u, SwitchedFields)
    BY <1>0, <2>2, <2>3 DEF MotionBy, ShownBy, SameBut, SwitchedFields
  <2>5. ASSUME Modes!Allowed(u, n), n \notin AskedWrongly PROVE Modes!term_get_mode(u, n) = Modes!Status(set)
    <3>1. Modes!Asked(n) = Modes!Flag[n]
      BY <2>5 DEF Modes!Asked, AskedWrongly
    <3> QED BY <2>1, <2>2, <2>5, <3>1 DEF Modes!Status
  <2> QED BY <1>0, <2>3, <2>4, <2>5
<1>11. Goal
  BY <1>1, <1>2, <1>3, <1>4, <1>5, <1>6, <1>7, <1>8, <1>9, <1>10 DEF Modes!Known
<1> QED BY <1>11 DEF ModesSound, u

(* VT52 mode has the main screen, and keeps that it was not the other. *)
LEMMA EnterIs ==
    ASSUME NEW t, IsModes(t), "altscreen" \notin t.on
    PROVE  LET u == Modes!EnterVt52(t)
           IN  /\ SameBut(t, u, {"level", "on", "vt52"}) /\ u.level = 0 /\ u.on = Modes!InVt52(t)
               /\ u.vt52 = t.on \cap (Modes!TermFlags \cup Modes!ScreenFlags \cup {"origin"})
               /\ "altscreen" \notin u.on /\ "altscreen" \notin u.vt52
<1> DEFINE on == Modes!InVt52(t)
           kept == t.on \cap (Modes!TermFlags \cup Modes!ScreenFlags \cup {"origin"})
           v == [t EXCEPT !.level = 0, !.on = on, !.vt52 = kept]
           u == Modes!EnterVt52(t)
<1>1. u = Modes!screen_set_altscreen(v, FALSE, FALSE)
  BY DEF Modes!EnterVt52
<1>2. "altscreen" \notin on /\ "altscreen" \notin kept
  BY NoScreenFlag DEF Modes!InVt52
<1>3. on = Modes!InVt52(t) /\ kept = t.on \cap (Modes!TermFlags \cup Modes!ScreenFlags \cup {"origin"})
  OBVIOUS
<1> HIDE DEF on, kept
<1>4. SameBut(t, v, {"level", "on", "vt52"}) /\ v.level = 0 /\ v.on = on /\ v.vt52 = kept
  BY DEF SameBut, IsModes, ModeFields
<1> HIDE DEF u, v
<1>5. u = v
  <2>1. IsModes(v)
    BY <1>4 DEF SameBut
  <2>2. FALSE = ("altscreen" \in v.on)
    BY <1>2, <1>4
  <2> QED BY <1>1, <2>1, <2>2, AltIs
<1> QED BY <1>2, <1>3, <1>4, <1>5 DEF u

(* What VT52 mode kept comes back with the main screen. *)
LEMMA LeaveIs ==
    ASSUME NEW t, IsModes(t), "altscreen" \notin t.on, "altscreen" \notin t.vt52
    PROVE  LET u == Modes!LeaveVt52(t)
           IN  SameBut(t, u, {"level", "on"}) /\ u.level = 1 /\ "altscreen" \notin u.on
<1> DEFINE given == Modes!Given(t)
           v == [t EXCEPT !.level = 1, !.on = given]
           set == "altscreen" \in t.vt52
           u == Modes!LeaveVt52(t)
<1>1. u = Modes!screen_set_altscreen(v, set, FALSE)
  BY DEF Modes!LeaveVt52
<1>2. "altscreen" \notin given
  BY DEF Modes!Given
<1>3. set = FALSE
  OBVIOUS
<1> HIDE DEF given, set
<1>4. SameBut(t, v, {"level", "on"}) /\ v.level = 1 /\ v.on = given
  BY DEF SameBut, IsModes, ModeFields
<1> HIDE DEF u, v
<1>5. u = v
  <2>1. IsModes(v)
    BY <1>4 DEF SameBut
  <2>2. FALSE = ("altscreen" \in v.on)
    BY <1>2, <1>4
  <2> QED BY <1>1, <1>3, <2>1, <2>2, AltIs
<1> QED BY <1>2, <1>4, <1>5 DEF u

(* A reset starts on the main screen with what the configuration has. *)
LEMMA DefaultsAre ==
    ASSUME NEW t, IsModes(t), ShownBy(t)
    PROVE  LET u == Modes!Defaults(Modes!OnMain(t))
           IN  /\ SameBut(t, u, {"on", "mouse", "format", "keymap", "saved", "back", "motion", "shown"})
               /\ u.on = ModesConfigured \cup {"enable_columns_132"} /\ u.mouse = "none" /\ u.format = "default"
               /\ u.keymap = "default" /\ u.saved = FALSE /\ u.back = FALSE /\ u.motion = ModeLinks /\ u.shown = "main"
<1> DEFINE v == Modes!OnMain(t)
           on == ModesConfigured \cup {"enable_columns_132"}
           w == [v EXCEPT !.on = on, !.mouse = "none", !.format = "default", !.keymap = "default",
                          !.saved = FALSE, !.back = FALSE]
           u == [w EXCEPT !.motion = ModeLinks]
<1>1. Modes!Defaults(v) = u
  BY DEF Modes!Defaults, Modes!window_set_mouse
<1>2. v = Modes!screen_set_altscreen(t, FALSE, FALSE)
  BY DEF Modes!OnMain
<1> HIDE DEF v
<1>3. SameBut(t, v, {"on", "saved", "back", "shown"}) /\ v.shown = "main"
  <2>1. SameBut(t, v, {"on", "saved", "back", "shown"}) /\ ShownBy(v)
    BY <1>2, AltIs
  <2>2. "altscreen" \notin v.on
    BY <1>2, AltIs DEF ShownBy
  <2> QED BY <2>1, <2>2 DEF ShownBy
<1> HIDE DEF on
<1>4. IsModes(v)
  BY <1>3 DEF SameBut
<1>5. /\ SameBut(v, w, {"on", "mouse", "format", "keymap", "saved", "back"}) /\ w.on = on /\ w.mouse = "none"
      /\ w.format = "default" /\ w.keymap = "default" /\ w.saved = FALSE /\ w.back = FALSE
  BY <1>4 DEF SameBut, IsModes, ModeFields
<1> HIDE DEF w
<1>6. IsModes(w)
  BY <1>5 DEF SameBut
<1>7. SameBut(w, u, {"motion"}) /\ u.motion = ModeLinks
  BY <1>6 DEF SameBut, IsModes, ModeFields
<1> HIDE DEF u
<1>8. SameBut(t, u, {"on", "mouse", "format", "keymap", "saved", "back", "motion", "shown"})
  BY <1>3, <1>5, <1>7 DEF SameBut
<1>9. /\ u.on = on /\ u.mouse = "none" /\ u.format = "default" /\ u.keymap = "default" /\ u.saved = FALSE /\ u.back = FALSE
      /\ u.shown = "main"
  <2>1. u.shown = w.shown /\ w.shown = v.shown
    BY <1>5, <1>7 DEF SameBut, ModeFields
  <2>2. /\ u.on = w.on /\ u.mouse = w.mouse /\ u.format = w.format /\ u.keymap = w.keymap /\ u.saved = w.saved
        /\ u.back = w.back
    BY <1>7 DEF SameBut, ModeFields
  <2> QED BY <1>3, <1>5, <2>1, <2>2
<1> QED BY <1>1, <1>7, <1>8, <1>9 DEF on, v

(* A terminal of level 0 starts in VT52 mode, another one in its level. *)
LEMMA LeveledIs ==
    ASSUME NEW t, IsModes(t), "altscreen" \notin t.on
    PROVE  LET u == Modes!Leveled(t)
           IN  /\ SameBut(t, u, {"level", "on", "vt52"}) /\ u.level = t.version
               /\ u.on = IF t.version = 0 THEN Modes!InVt52(t) ELSE t.on
               /\ t.version = 0 =>
                    u.vt52 = t.on \cap (Modes!TermFlags \cup Modes!ScreenFlags \cup {"origin"}) /\ "altscreen" \notin u.vt52
               /\ t.version # 0 => u.vt52 = t.vt52
               /\ "altscreen" \notin u.on
<1> DEFINE u == Modes!Leveled(t)
<1>1. CASE t.version = 0
  <2> DEFINE v == [t EXCEPT !.level = 0]
  <2>1. u = Modes!EnterVt52(v)
    BY <1>1 DEF Modes!Leveled
  <2>2. SameBut(t, v, {"level"})
    BY DEF SameBut, IsModes, ModeFields
  <2> HIDE DEF v
  <2>3. v.on = t.on /\ IsModes(v)
    BY <2>2 DEF SameBut, ModeFields
  <2> HIDE DEF u
  <2>4. /\ SameBut(v, u, {"level", "on", "vt52"}) /\ u.level = 0 /\ u.on = Modes!InVt52(v)
        /\ u.vt52 = v.on \cap (Modes!TermFlags \cup Modes!ScreenFlags \cup {"origin"})
        /\ "altscreen" \notin u.on /\ "altscreen" \notin u.vt52
    BY <2>1, <2>3, EnterIs
  <2>5. Modes!InVt52(v) = Modes!InVt52(t)
    BY <2>3 DEF Modes!InVt52
  <2>6. SameBut(t, u, {"level", "on", "vt52"})
    BY <2>2, <2>4 DEF SameBut
  <2> QED BY <1>1, <2>3, <2>4, <2>5, <2>6 DEF u
<1>2. CASE t.version # 0
  <2>1. u = [t EXCEPT !.level = t.version]
    BY <1>2 DEF Modes!Leveled
  <2> HIDE DEF u
  <2>2. SameBut(t, u, {"level"}) /\ u.level = t.version
    BY <2>1 DEF SameBut, IsModes, ModeFields
  <2>3. u.on = t.on /\ u.vt52 = t.vt52
    BY <2>2 DEF SameBut, ModeFields
  <2>4. SameBut(t, u, {"level", "on", "vt52"})
    BY <2>2 DEF SameBut
  <2> QED BY <1>2, <2>2, <2>3, <2>4 DEF u
<1> QED BY <1>1, <1>2

(* Modes of one group share the slot that XTSAVE saves them in, others     *)
(* have their own.                                                         *)
LEMMA SlotsAre ==
    ASSUME NEW n \in Modes!Known
    PROVE  /\ n \in DOMAIN Modes!MouseModes \cup {1001} <=> Modes!Slot(n) = 9
           /\ n \in DOMAIN Modes!MouseFormats <=> Modes!Slot(n) = 1005
           /\ n \in DOMAIN Modes!Keymaps \cup {1050} <=> Modes!Slot(n) = 1051
           /\ n \in Modes!AltModes <=> Modes!Slot(n) = 47
           /\ Modes!Slot(n) \notin {9, 1005, 1051, 47} => Modes!Slot(n) = n
           /\ Modes!Slot(n) \in Modes!Known
<1>1. CASE n \in DOMAIN Modes!MouseModes \cup {1001}
  BY <1>1, MouseIs DEF Modes!Slot, Modes!AltModes, Modes!Known
<1>2. CASE n \in DOMAIN Modes!MouseFormats
  BY <1>2, MouseIs DEF Modes!Slot, Modes!AltModes, Modes!Known
<1>3. CASE n \in DOMAIN Modes!Keymaps \cup {1050}
  BY <1>3, MouseIs DEF Modes!Slot, Modes!AltModes, Modes!Known
<1>4. CASE n \in Modes!AltModes
  BY <1>4, MouseIs DEF Modes!Slot, Modes!AltModes, Modes!Known
<1>5. CASE /\ n \notin DOMAIN Modes!MouseModes \cup {1001} /\ n \notin DOMAIN Modes!MouseFormats
           /\ n \notin DOMAIN Modes!Keymaps \cup {1050} /\ n \notin Modes!AltModes
  <2>1. Modes!Slot(n) = n
    BY <1>5 DEF Modes!Slot
  <2>2. n \notin {9, 1005, 1051, 47}
    BY <1>5, MouseIs DEF Modes!AltModes
  <2> QED BY <1>5, <2>1, <2>2
<1> QED BY <1>1, <1>2, <1>3, <1>4, <1>5

(* What is saved, against what a query answered when it was. *)
RememberedOf(t, n, answer) ==
    /\ n \in DOMAIN Modes!MouseModes => answer = Modes!Status(t.savedMouse = Modes!AskedMouse(n))
    /\ n \in DOMAIN Modes!MouseFormats => answer = Modes!Status(t.savedFormat = Modes!MouseFormats[n])
    /\ n \in DOMAIN Modes!Keymaps => answer = Modes!Status(t.savedKeymap = Modes!Keymaps[n])
    /\ n \in Modes!AlwaysReset => answer = "always reset"
    /\ n \in {2, 12, 1046} \cup Modes!AltModes \cup DOMAIN Modes!Flag => answer = Modes!Status(Modes!Slot(n) \in t.bits)
RememberedAt(t, slot, n, answer) == n \in Modes!Known /\ Modes!Slot(n) = slot /\ RememberedOf(t, n, answer)
AnswersBy(t) == \A slot \in DOMAIN t.was : RememberedAt(t, slot, t.was[slot][1], t.was[slot][2])

SavedFields == {"bits", "savedMouse", "savedFormat", "savedKeymap"}

(* XTSAVE of a mode that has a bit of its own. *)
LEMMA BitsAre ==
    ASSUME NEW t, IsModes(t), NEW n \in Modes!Known, n \in {2, 12, 1046} \cup Modes!AltModes \cup DOMAIN Modes!Flag
    PROVE  LET u == Modes!xtsave(t, n)
           IN  /\ SameBut(t, u, {"bits"}) /\ \A k : k # Modes!Slot(n) => (k \in u.bits <=> k \in t.bits)
               /\ Modes!term_get_mode(t, n) = Modes!Status(Modes!Slot(n) \in u.bits)
<1> DEFINE asks == Modes!term_get_mode(t, n)
           slot == Modes!Slot(n)
           u == Modes!xtsave(t, n)
<1>1. asks = "set" \/ asks = "reset"
  <2>1. AskOf(t, n, asks)
    BY SrmCases
  <2> HIDE DEF asks
  <2>2. CASE n = 2
    BY <2>1, <2>2 DEF AskOf
  <2>3. CASE n = 12
    <3>1. asks = Modes!Status(t.shape % 2 = 1)
      BY <2>1, <2>3, Zenon DEF AskOf
    <3> QED BY <3>1 DEF Modes!Status
  <2>4. CASE n = 1046
    <3>1. asks = Modes!Status("disable_altscreen" \notin t.on)
      BY <2>1, <2>4, Zenon DEF AskOf
    <3> QED BY <3>1 DEF Modes!Status
  <2>5. CASE n \in Modes!AltModes
    <3>1. asks = Modes!Status("altscreen" \in t.on)
      BY <2>1, <2>5, Zenon DEF AskOf
    <3> QED BY <3>1 DEF Modes!Status
  <2>6. CASE n \in DOMAIN Modes!Flag
    <3>1. asks = Modes!Status((Modes!Asked(n) \in t.on) # (n \in Modes!Inverted))
      BY <2>1, <2>6, Zenon DEF AskOf
    <3> QED BY <3>1 DEF Modes!Status
  <2> QED BY <2>2, <2>3, <2>4, <2>5, <2>6
<1>2. slot \notin {9, 1005, 1051} /\ n # 2026
  <2>1. n \notin DOMAIN Modes!MouseModes \cup {1001} /\ n \notin DOMAIN Modes!MouseFormats
                                                     /\ n \notin DOMAIN Modes!Keymaps \cup {1050}
    BY MouseIs, FlagsApart DEF Modes!AltModes, NoFlagModes
  <2>2. n # 2026
    BY FlagsApart DEF Modes!AltModes, NoFlagModes
  <2> QED BY <2>1, <2>2, SlotsAre
<1>3. u = Modes!Saved(t, n)
  BY <1>1 DEF Modes!xtsave
<1>4. u = [t EXCEPT !.bits = IF asks = "set" THEN @ \cup {slot} ELSE @ \ {slot}]
  BY <1>2, <1>3 DEF Modes!Saved
<1> HIDE DEF u, asks, slot
<1>5. SameBut(t, u, {"bits"}) /\ u.bits = IF asks = "set" THEN t.bits \cup {slot} ELSE t.bits \ {slot}
  BY <1>4 DEF SameBut, IsModes, ModeFields
<1>6. \A k : k # slot => (k \in u.bits <=> k \in t.bits)
  BY <1>5
<1>7. slot \in u.bits <=> asks = "set"
  BY <1>5
<1>8. asks = Modes!Status(slot \in u.bits)
  BY <1>1, <1>7 DEF Modes!Status
<1> QED BY <1>5, <1>6, <1>8 DEF u, asks, slot

(* What is remembered stays while what is saved does. *)
LEMMA RememberedKept ==
    ASSUME NEW t, NEW u, NEW n, NEW answer, RememberedOf(t, n, answer),
           u.bits = t.bits, u.savedMouse = t.savedMouse, u.savedFormat = t.savedFormat, u.savedKeymap = t.savedKeymap
    PROVE  RememberedOf(u, n, answer)
<1>1. n \in DOMAIN Modes!MouseModes => answer = Modes!Status(u.savedMouse = Modes!AskedMouse(n))
  <2>1. n \in DOMAIN Modes!MouseModes => answer = Modes!Status(t.savedMouse = Modes!AskedMouse(n))
    BY Zenon DEF RememberedOf
  <2> QED BY <2>1
<1>2. n \in DOMAIN Modes!MouseFormats => answer = Modes!Status(u.savedFormat = Modes!MouseFormats[n])
  <2>1. n \in DOMAIN Modes!MouseFormats => answer = Modes!Status(t.savedFormat = Modes!MouseFormats[n])
    BY Zenon DEF RememberedOf
  <2> QED BY <2>1
<1>3. n \in DOMAIN Modes!Keymaps => answer = Modes!Status(u.savedKeymap = Modes!Keymaps[n])
  <2>1. n \in DOMAIN Modes!Keymaps => answer = Modes!Status(t.savedKeymap = Modes!Keymaps[n])
    BY Zenon DEF RememberedOf
  <2> QED BY <2>1
<1>4. n \in Modes!AlwaysReset => answer = "always reset"
  BY Zenon DEF RememberedOf
<1>5. n \in {2, 12, 1046} \cup Modes!AltModes \cup DOMAIN Modes!Flag => answer = Modes!Status(Modes!Slot(n) \in u.bits)
  <2>1. n \in {2, 12, 1046} \cup Modes!AltModes \cup DOMAIN Modes!Flag => answer = Modes!Status(Modes!Slot(n) \in t.bits)
    BY Zenon DEF RememberedOf
  <2> QED BY <2>1
<1> QED BY <1>1, <1>2, <1>3, <1>4, <1>5, Zenon DEF RememberedOf

(* What XTSAVE saves is what a query answers, and no other slot changes. *)
LEMMA SaveIs ==
    ASSUME NEW t, IsModes(t), NEW n \in Modes!Known
    PROVE  LET u == Modes!xtsave(t, n)
           IN  /\ SameBut(t, u, SavedFields) /\ RememberedOf(u, n, Modes!term_get_mode(t, n))
               /\ Modes!Slot(n) # 9 => u.savedMouse = t.savedMouse
               /\ Modes!Slot(n) # 1005 => u.savedFormat = t.savedFormat
               /\ Modes!Slot(n) # 1051 => u.savedKeymap = t.savedKeymap
               /\ \A k : k # Modes!Slot(n) => (k \in u.bits <=> k \in t.bits)
<1> DEFINE asks == Modes!term_get_mode(t, n)
           slot == Modes!Slot(n)
           u == Modes!xtsave(t, n)
           Goal == /\ SameBut(t, u, SavedFields) /\ RememberedOf(u, n, asks)
                   /\ slot # 9 => u.savedMouse = t.savedMouse
                   /\ slot # 1005 => u.savedFormat = t.savedFormat
                   /\ slot # 1051 => u.savedKeymap = t.savedKeymap
                   /\ \A k : k # slot => (k \in u.bits <=> k \in t.bits)
<1>1. u = IF asks \in {"set", "reset"} THEN Modes!Saved(t, n) ELSE t
  BY DEF Modes!xtsave
<1>2. AskOf(t, n, asks)
  BY SrmCases
<1>3. Modes!Saved(t, n) = IF slot = 9 THEN [t EXCEPT !.savedMouse = t.mouse]
                          ELSE IF slot = 1005 THEN [t EXCEPT !.savedFormat = t.format]
                          ELSE IF slot = 1051 THEN [t EXCEPT !.savedKeymap = t.keymap]
                          ELSE IF n = 2026 THEN t
                          ELSE [t EXCEPT !.bits = IF asks = "set" THEN @ \cup {slot} ELSE @ \ {slot}]
  BY SlotsAre, MouseIs DEF Modes!Saved
<1>4. ASSUME n \in {2, 12, 1046} \cup Modes!AltModes \cup DOMAIN Modes!Flag PROVE Goal
  <2>1. /\ SameBut(t, u, {"bits"}) /\ \A k : k # slot => (k \in u.bits <=> k \in t.bits)
        /\ asks = Modes!Status(slot \in u.bits)
    BY <1>4, BitsAre
  <2>2. n \notin DOMAIN Modes!MouseModes /\ n \notin DOMAIN Modes!MouseFormats /\ n \notin DOMAIN Modes!Keymaps
    BY <1>4, MouseIs, FlagsApart DEF Modes!AltModes, NoFlagModes
  <2>3. n \notin Modes!AlwaysReset
    BY <1>4, FlagsApart DEF Modes!AltModes, NoFlagModes, Modes!AlwaysReset
  <2>4. slot = Modes!Slot(n)
    OBVIOUS
  <2> HIDE DEF u, asks, slot
  <2>5. RememberedOf(u, n, asks)
    BY <1>4, <2>1, <2>2, <2>3, <2>4 DEF RememberedOf
  <2>6. u.savedMouse = t.savedMouse /\ u.savedFormat = t.savedFormat /\ u.savedKeymap = t.savedKeymap
    BY <2>1 DEF SameBut, ModeFields
  <2> QED BY <2>1, <2>5, <2>6 DEF SameBut, SavedFields
<1>5. ASSUME n \in DOMAIN Modes!MouseModes PROVE Goal
  <2>1. asks = Modes!Status(t.mouse = Modes!AskedMouse(n)) /\ slot = 9
    <3>1. asks = Modes!Status(t.mouse = Modes!AskedMouse(n))
      BY <1>5, <1>2, Zenon DEF AskOf
    <3> QED BY <1>5, <3>1, SlotsAre
  <2>2. u = [t EXCEPT !.savedMouse = t.mouse]
    BY <1>1, <1>3, <2>1 DEF Modes!Status
  <2> HIDE DEF u, asks, slot
  <2>3. SameBut(t, u, {"savedMouse"}) /\ u.savedMouse = t.mouse
    BY <2>2 DEF SameBut, IsModes, ModeFields
  <2>4. /\ n \notin {2, 12, 1046} \cup Modes!AltModes \cup DOMAIN Modes!Flag /\ n \notin Modes!AlwaysReset
        /\ n \notin DOMAIN Modes!MouseFormats /\ n \notin DOMAIN Modes!Keymaps
    BY <1>5, MouseIs, FlagsApart DEF Modes!AltModes, Modes!AlwaysReset, NoFlagModes
  <2>5. RememberedOf(u, n, asks)
    BY <1>5, <2>1, <2>3, <2>4 DEF RememberedOf
  <2>6. \A f \in SavedFields : f # "savedMouse" => u[f] = t[f]
    BY <2>3 DEF SameBut, SavedFields, ModeFields
  <2>7. SameBut(t, u, SavedFields)
    BY <2>3 DEF SameBut, SavedFields
  <2> QED BY <2>1, <2>5, <2>6, <2>7 DEF SavedFields
<1>6. ASSUME n \in DOMAIN Modes!MouseFormats PROVE Goal
  <2>1. asks = Modes!Status(t.format = Modes!MouseFormats[n]) /\ slot = 1005
    <3>1. asks = Modes!Status(t.format = Modes!MouseFormats[n])
      BY <1>6, <1>2, Zenon DEF AskOf
    <3> QED BY <1>6, <3>1, SlotsAre
  <2>2. u = [t EXCEPT !.savedFormat = t.format]
    BY <1>1, <1>3, <2>1 DEF Modes!Status
  <2> HIDE DEF u, asks, slot
  <2>3. SameBut(t, u, {"savedFormat"}) /\ u.savedFormat = t.format
    BY <2>2 DEF SameBut, IsModes, ModeFields
  <2>4. /\ n \notin {2, 12, 1046} \cup Modes!AltModes \cup DOMAIN Modes!Flag /\ n \notin Modes!AlwaysReset
        /\ n \notin DOMAIN Modes!MouseModes /\ n \notin DOMAIN Modes!Keymaps
    BY <1>6, MouseIs, FlagsApart DEF Modes!AltModes, Modes!AlwaysReset, NoFlagModes
  <2>5. RememberedOf(u, n, asks)
    BY <1>6, <2>1, <2>3, <2>4 DEF RememberedOf
  <2>6. \A f \in SavedFields : f # "savedFormat" => u[f] = t[f]
    BY <2>3 DEF SameBut, SavedFields, ModeFields
  <2>7. SameBut(t, u, SavedFields)
    BY <2>3 DEF SameBut, SavedFields
  <2> QED BY <2>1, <2>5, <2>6, <2>7 DEF SavedFields
<1>7. ASSUME n \in DOMAIN Modes!Keymaps PROVE Goal
  <2>1. asks = Modes!Status(t.keymap = Modes!Keymaps[n]) /\ slot = 1051
    <3>1. asks = Modes!Status(t.keymap = Modes!Keymaps[n])
      BY <1>7, <1>2, Zenon DEF AskOf
    <3> QED BY <1>7, <3>1, SlotsAre
  <2>2. u = [t EXCEPT !.savedKeymap = t.keymap]
    BY <1>1, <1>3, <2>1 DEF Modes!Status
  <2> HIDE DEF u, asks, slot
  <2>3. SameBut(t, u, {"savedKeymap"}) /\ u.savedKeymap = t.keymap
    BY <2>2 DEF SameBut, IsModes, ModeFields
  <2>4. /\ n \notin {2, 12, 1046} \cup Modes!AltModes \cup DOMAIN Modes!Flag /\ n \notin Modes!AlwaysReset
        /\ n \notin DOMAIN Modes!MouseModes /\ n \notin DOMAIN Modes!MouseFormats
    BY <1>7, MouseIs, FlagsApart DEF Modes!AltModes, Modes!AlwaysReset, NoFlagModes
  <2>5. RememberedOf(u, n, asks)
    BY <1>7, <2>1, <2>3, <2>4 DEF RememberedOf
  <2>6. \A f \in SavedFields : f # "savedKeymap" => u[f] = t[f]
    BY <2>3 DEF SameBut, SavedFields, ModeFields
  <2>7. SameBut(t, u, SavedFields)
    BY <2>3 DEF SameBut, SavedFields
  <2> QED BY <2>1, <2>5, <2>6, <2>7 DEF SavedFields
<1>8. ASSUME n \in Modes!AlwaysReset \/ n = 1048 \/ n = 2026 PROVE Goal
  <2>0. n = 2026 => slot = 2026
    BY SlotsAre, MouseIs DEF Modes!AltModes
  <2> HIDE DEF u, asks, slot
  <2>1. n \in Modes!AlwaysReset => asks = "always reset"
    BY <1>2, Zenon DEF AskOf
  <2>a. n = 1048 => asks = "always set"
    BY <1>2, Zenon DEF AskOf
  <2>b. u = t
    <3>1. n = 2026 => Modes!Saved(t, n) = t
      BY <1>3, <2>0
    <3>2. n \in Modes!AlwaysReset => u = t
      BY <1>1, <2>1
    <3>3. n = 1048 => u = t
      BY <1>1, <2>a
    <3>4. n = 2026 => u = t
      BY <1>1, <3>1
    <3> QED BY <1>8, <3>2, <3>3, <3>4
  <2>2. /\ n \notin {2, 12, 1046} \cup Modes!AltModes \cup DOMAIN Modes!Flag
        /\ n \notin DOMAIN Modes!MouseModes /\ n \notin DOMAIN Modes!MouseFormats /\ n \notin DOMAIN Modes!Keymaps
    BY <1>8, MouseIs, FlagsApart DEF Modes!AltModes, Modes!AlwaysReset, NoFlagModes
  <2>3. RememberedOf(u, n, asks)
    BY <2>1, <2>2, Zenon DEF RememberedOf
  <2>4. SameBut(t, u, SavedFields)
    BY <2>b DEF SameBut
  <2> QED BY <2>b, <2>3, <2>4
<1>9. Goal
  BY <1>4, <1>5, <1>6, <1>7, <1>8 DEF Modes!Known
<1> QED BY <1>9

(* XTSAVE keeps what is remembered of the other slots. *)
LEMMA NotedIs ==
    ASSUME NEW t, IsModes(t), AnswersBy(t), NEW n \in Modes!Known
    PROVE  LET u == Modes!Noted(Modes!xtsave(t, n), Modes!Slot(n), <<n, Modes!term_get_mode(t, n)>>)
           IN  SameBut(t, u, SavedFields \cup {"was"}) /\ AnswersBy(u)
<1> DEFINE slot == Modes!Slot(n)
           asks == Modes!term_get_mode(t, n)
           answer == <<n, asks>>
           v == Modes!xtsave(t, n)
           was == [k \in DOMAIN v.was \cup {slot} |-> IF k = slot THEN answer ELSE v.was[k]]
           u == Modes!Noted(v, slot, answer)
<1>1. /\ SameBut(t, v, SavedFields) /\ RememberedOf(v, n, asks)
      /\ slot # 9 => v.savedMouse = t.savedMouse
      /\ slot # 1005 => v.savedFormat = t.savedFormat
      /\ slot # 1051 => v.savedKeymap = t.savedKeymap
      /\ \A k : k # slot => (k \in v.bits <=> k \in t.bits)
  BY SaveIs
<1>2. u = [v EXCEPT !.was = was]
  BY DEF Modes!Noted
<1>3. slot = Modes!Slot(n) /\ answer[1] = n /\ answer[2] = asks
  OBVIOUS
<1> HIDE DEF v, slot, asks, answer
<1>4. v.was = t.was
  BY <1>1 DEF SameBut, SavedFields, ModeFields
<1>5. /\ DOMAIN was = DOMAIN t.was \cup {slot} /\ was[slot] = answer
      /\ \A k \in DOMAIN t.was : k # slot => was[k] = t.was[k]
  BY <1>4
<1> HIDE DEF was
<1>6. IsModes(v)
  BY <1>1 DEF SameBut
<1>7. SameBut(v, u, {"was"}) /\ u.was = was
  BY <1>2, <1>6 DEF SameBut, IsModes, ModeFields
<1> HIDE DEF u
<1>8. u.bits = v.bits /\ u.savedMouse = v.savedMouse /\ u.savedFormat = v.savedFormat /\ u.savedKeymap = v.savedKeymap
  BY <1>7 DEF SameBut, ModeFields
<1>9. ASSUME NEW k \in DOMAIN was PROVE RememberedAt(u, k, was[k][1], was[k][2])
  <2>1. CASE k = slot
    <3>1. RememberedOf(u, n, asks)
      BY <1>1, <1>8, RememberedKept
    <3> QED BY <1>3, <1>5, <2>1, <3>1 DEF RememberedAt
  <2>2. CASE k # slot
    <3> DEFINE m == t.was[k][1]
               told == t.was[k][2]
    <3>1. k \in DOMAIN t.was /\ was[k] = t.was[k]
      BY <1>5, <2>2
    <3>2. RememberedAt(t, k, m, told)
      BY <3>1 DEF AnswersBy
    <3> HIDE DEF m, told
    <3>3. m \in Modes!Known /\ Modes!Slot(m) = k /\ RememberedOf(t, m, told)
      BY <3>2 DEF RememberedAt
    <3>4. m \in DOMAIN Modes!MouseModes => told = Modes!Status(u.savedMouse = Modes!AskedMouse(m))
      <4>1. m \in DOMAIN Modes!MouseModes => u.savedMouse = t.savedMouse
        BY <1>1, <1>8, <2>2, <3>3, SlotsAre
      <4> QED BY <3>3, <4>1 DEF RememberedOf
    <3>5. m \in DOMAIN Modes!MouseFormats => told = Modes!Status(u.savedFormat = Modes!MouseFormats[m])
      <4>1. m \in DOMAIN Modes!MouseFormats => u.savedFormat = t.savedFormat
        BY <1>1, <1>8, <2>2, <3>3, SlotsAre
      <4> QED BY <3>3, <4>1 DEF RememberedOf
    <3>6. m \in DOMAIN Modes!Keymaps => told = Modes!Status(u.savedKeymap = Modes!Keymaps[m])
      <4>1. m \in DOMAIN Modes!Keymaps => u.savedKeymap = t.savedKeymap
        BY <1>1, <1>8, <2>2, <3>3, SlotsAre
      <4> QED BY <3>3, <4>1 DEF RememberedOf
    <3>7. m \in {2, 12, 1046} \cup Modes!AltModes \cup DOMAIN Modes!Flag => told = Modes!Status(Modes!Slot(m) \in u.bits)
      <4>1. Modes!Slot(m) \in u.bits <=> Modes!Slot(m) \in t.bits
        BY <1>1, <1>8, <2>2, <3>3
      <4> QED BY <3>3, <4>1 DEF RememberedOf, Modes!Status
    <3>8. m \in Modes!AlwaysReset => told = "always reset"
      BY <3>3 DEF RememberedOf
    <3>9. RememberedOf(u, m, told)
      BY <3>4, <3>5, <3>6, <3>7, <3>8 DEF RememberedOf
    <3> QED BY <3>1, <3>3, <3>9 DEF RememberedAt, m, told
  <2> QED BY <2>1, <2>2
<1>10. SameBut(t, u, SavedFields \cup {"was"})
  BY <1>1, <1>7 DEF SameBut
<1> QED BY <1>7, <1>9, <1>10 DEF AnswersBy, u, v, slot, asks, answer

Unrestored == {2, 2026}

(* XTRESTORE of a mode gives it back: a query of what was saved last in    *)
(* its slot answers as it did then.                                        *)
LEMMA RestoreIs ==
    ASSUME NEW t, IsModes(t), ModesSound(t), AnswersBy(t), NEW n \in Modes!Known \ Unrestored
    PROVE  LET u == Modes!xtrestore(t, n)
               slot == Modes!Slot(n)
           IN  /\ SameBut(t, u, SwitchedFields) /\ ModesSound(u)
               /\ slot \in DOMAIN t.was /\ Modes!Allowed(u, n) /\ n \notin {1048, 2005, 2006} =>
                    Modes!term_get_mode(u, t.was[slot][1]) = t.was[slot][2]
<1> DEFINE u == Modes!xtrestore(t, n)
           slot == Modes!Slot(n)
           k == t.was[slot][1]
           told == t.was[slot][2]
           Premise == slot \in DOMAIN t.was /\ Modes!Allowed(u, n) /\ n \notin {1048, 2005, 2006}
           Goal == SameBut(t, u, SwitchedFields) /\ ModesSound(u) /\ (Premise => Modes!term_get_mode(u, k) = told)
<1>0. ShownBy(t) /\ MotionBy(t) /\ t.shape \in Nat \ {0}
  BY DEF ModesSound
<1>n. n \in Modes!Known
  OBVIOUS
<1>1. Premise => k \in Modes!Known /\ Modes!Slot(k) = slot /\ RememberedOf(t, k, told)
  BY DEF AnswersBy, RememberedAt
<1> HIDE DEF k, told
<1>r. /\ slot = 9 => u = Modes!RestoredMouse(t)
      /\ slot = 1005 => u = [t EXCEPT !.format = t.savedFormat]
      /\ slot = 1051 => u = [t EXCEPT !.keymap = t.savedKeymap]
  <2>1. slot \in {9, 1005, 1051} => n # 1048
    BY <1>n, SlotsAre, MouseIs DEF Modes!AltModes
  <2>2. ASSUME slot = 9 PROVE u = Modes!RestoredMouse(t)
    <3>1. n # 1048
      BY <2>1, <2>2
    <3> QED BY <2>2, <3>1 DEF Modes!xtrestore
  <2>3. ASSUME slot = 1005 PROVE u = [t EXCEPT !.format = t.savedFormat]
    <3>1. n # 1048
      BY <2>1, <2>3
    <3> QED BY <2>3, <3>1 DEF Modes!xtrestore
  <2>4. ASSUME slot = 1051 PROVE u = [t EXCEPT !.keymap = t.savedKeymap]
    <3>1. n # 1048
      BY <2>1, <2>4
    <3> QED BY <2>4, <3>1 DEF Modes!xtrestore
  <2> HIDE DEF u, slot
  <2> QED BY <2>2, <2>3, <2>4
<1>2. ASSUME n \in DOMAIN Modes!MouseModes \cup {1001} PROVE Goal
  <2>1. slot = 9
    BY <1>2, SlotsAre
  <2>2. u = Modes!RestoredMouse(t)
    BY <1>r, <2>1
  <2>3. SameBut(t, u, {"mouse", "motion"}) /\ u.mouse = t.savedMouse /\ MotionBy(u)
    <3> DEFINE motion == t.savedMouse = "motion" \/ ModeLinks
    <3> DEFINE mouse == t.savedMouse
    <3>1. u = Modes!window_set_mouse([t EXCEPT !.mouse = mouse], motion)
      BY <2>2 DEF Modes!RestoredMouse
    <3>2. motion = (mouse = "motion" \/ ModeLinks)
      OBVIOUS
    <3> HIDE DEF motion, mouse, u
    <3>3. SameBut(t, u, {"mouse", "motion"}) /\ u.mouse = mouse /\ MotionBy(u)
      BY <3>1, <3>2, MotionIs
    <3> QED BY <3>3 DEF mouse
  <2> HIDE DEF u, slot
  <2>4. u.on = t.on /\ u.shown = t.shown /\ u.shape = t.shape
    BY <2>3 DEF SameBut, ModeFields
  <2>5. ModesSound(u)
    BY <1>0, <2>3, <2>4 DEF ModesSound, ShownBy
  <2>6. SameBut(t, u, SwitchedFields)
    BY <2>3 DEF SameBut, SwitchedFields
  <2>7. ASSUME Premise PROVE Modes!term_get_mode(u, k) = told
    <3>0. RememberedOf(t, k, told)
      BY <1>1, <2>7
    <3>1. k \in Modes!Known /\ Modes!Slot(k) = slot
      BY <1>1, <2>7
    <3>2. k \in DOMAIN Modes!MouseModes \/ k = 1001
      BY <2>1, <3>1, SlotsAre
    <3>3. AskOf(u, k, Modes!term_get_mode(u, k))
      BY <3>1, SrmCases
    <3>4. CASE k \in DOMAIN Modes!MouseModes
      <4>1. told = Modes!Status(t.savedMouse = Modes!AskedMouse(k))
        BY <3>0, <3>4, Zenon DEF RememberedOf
      <4>2. Modes!term_get_mode(u, k) = Modes!Status(u.mouse = Modes!AskedMouse(k))
        BY <3>3, <3>4, Zenon DEF AskOf
      <4> QED BY <2>3, <4>1, <4>2
    <3>5. CASE k = 1001
      <4>1. k \in Modes!AlwaysReset
        BY <3>5 DEF Modes!AlwaysReset
      <4>2. told = "always reset"
        BY <3>0, <4>1, Zenon DEF RememberedOf
      <4>3. Modes!term_get_mode(u, k) = "always reset"
        BY <3>3, <4>1, Zenon DEF AskOf
      <4> QED BY <4>2, <4>3
    <3> QED BY <3>2, <3>4, <3>5
  <2> QED BY <2>5, <2>6, <2>7
<1>3. ASSUME n \in DOMAIN Modes!MouseFormats PROVE Goal
  <2>1. slot = 1005
    BY <1>3, SlotsAre
  <2>2. u = [t EXCEPT !.format = t.savedFormat]
    BY <1>r, <2>1
  <2> HIDE DEF u, slot
  <2>3. SameBut(t, u, {"format"}) /\ u.format = t.savedFormat
    BY <2>2 DEF SameBut, IsModes, ModeFields
  <2>4. u.on = t.on /\ u.shown = t.shown /\ u.shape = t.shape /\ u.mouse = t.mouse /\ u.motion = t.motion
    BY <2>3 DEF SameBut, ModeFields
  <2>5. ModesSound(u)
    BY <1>0, <2>4 DEF ModesSound, ShownBy, MotionBy
  <2>6. SameBut(t, u, SwitchedFields)
    BY <2>3 DEF SameBut, SwitchedFields
  <2>7. ASSUME Premise PROVE Modes!term_get_mode(u, k) = told
    <3>0. RememberedOf(t, k, told)
      BY <1>1, <2>7
    <3>1. k \in Modes!Known /\ Modes!Slot(k) = slot
      BY <1>1, <2>7
    <3>2. k \in DOMAIN Modes!MouseFormats
      BY <2>1, <3>1, SlotsAre
    <3>3. AskOf(u, k, Modes!term_get_mode(u, k))
      BY <3>1, SrmCases
    <3>4. CASE k \in DOMAIN Modes!MouseFormats
      <4>1. told = Modes!Status(t.savedFormat = Modes!MouseFormats[k])
        BY <3>0, <3>4, Zenon DEF RememberedOf
      <4>2. Modes!term_get_mode(u, k) = Modes!Status(u.format = Modes!MouseFormats[k])
        BY <3>3, <3>4, Zenon DEF AskOf
      <4> QED BY <2>3, <4>1, <4>2
    <3> QED BY <3>2, <3>4
  <2> QED BY <2>5, <2>6, <2>7
<1>4. ASSUME n \in DOMAIN Modes!Keymaps \cup {1050} PROVE Goal
  <2>1. slot = 1051
    BY <1>4, SlotsAre
  <2>2. u = [t EXCEPT !.keymap = t.savedKeymap]
    BY <1>r, <2>1
  <2> HIDE DEF u, slot
  <2>3. SameBut(t, u, {"keymap"}) /\ u.keymap = t.savedKeymap
    BY <2>2 DEF SameBut, IsModes, ModeFields
  <2>4. u.on = t.on /\ u.shown = t.shown /\ u.shape = t.shape /\ u.mouse = t.mouse /\ u.motion = t.motion
    BY <2>3 DEF SameBut, ModeFields
  <2>5. ModesSound(u)
    BY <1>0, <2>4 DEF ModesSound, ShownBy, MotionBy
  <2>6. SameBut(t, u, SwitchedFields)
    BY <2>3 DEF SameBut, SwitchedFields
  <2>7. ASSUME Premise PROVE Modes!term_get_mode(u, k) = told
    <3>0. RememberedOf(t, k, told)
      BY <1>1, <2>7
    <3>1. k \in Modes!Known /\ Modes!Slot(k) = slot
      BY <1>1, <2>7
    <3>2. k \in DOMAIN Modes!Keymaps \/ k = 1050
      BY <2>1, <3>1, SlotsAre
    <3>3. AskOf(u, k, Modes!term_get_mode(u, k))
      BY <3>1, SrmCases
    <3>4. CASE k \in DOMAIN Modes!Keymaps
      <4>1. told = Modes!Status(t.savedKeymap = Modes!Keymaps[k])
        BY <3>0, <3>4, Zenon DEF RememberedOf
      <4>2. Modes!term_get_mode(u, k) = Modes!Status(u.keymap = Modes!Keymaps[k])
        BY <3>3, <3>4, Zenon DEF AskOf
      <4> QED BY <2>3, <4>1, <4>2
    <3>5. CASE k = 1050
      <4>1. k \in Modes!AlwaysReset
        BY <3>5 DEF Modes!AlwaysReset
      <4>2. told = "always reset"
        BY <3>0, <4>1, Zenon DEF RememberedOf
      <4>3. Modes!term_get_mode(u, k) = "always reset"
        BY <3>3, <4>1, Zenon DEF AskOf
      <4> QED BY <4>2, <4>3
    <3> QED BY <3>2, <3>4, <3>5
  <2> QED BY <2>5, <2>6, <2>7
<1>5. ASSUME n = 1048 PROVE Goal
  <2>1. u = Modes!screen_save_cursor(t, FALSE)
    <3>1. slot \notin {9, 1005, 1051}
      BY <1>5, <1>n, SlotsAre, MouseIs DEF Modes!AltModes
    <3> QED BY <1>5, <3>1 DEF Modes!xtrestore
  <2>2. u = Modes!term_srm(t, n, FALSE)
    <3>1. SrmOf(t, n, FALSE, Modes!term_srm(t, n, FALSE))
      BY SrmCases
    <3>2. n = 1048 => Modes!term_srm(t, n, FALSE) = Modes!screen_save_cursor(t, FALSE)
      BY <3>1, Zenon DEF SrmOf
    <3>3. Modes!term_srm(t, n, FALSE) = Modes!screen_save_cursor(t, FALSE)
      BY <1>5, <3>2
    <3> QED BY <2>1, <3>3
  <2> HIDE DEF u, slot
  <2>3. SameBut(t, u, SwitchedFields) /\ ModesSound(u)
    <3>1. n # 2
      BY <1>5
    <3> QED BY <1>n, <2>2, <3>1, SrmIs
  <2> QED BY <1>5, <2>3
<1>6. ASSUME /\ n \notin DOMAIN Modes!MouseModes \cup {1001} /\ n \notin DOMAIN Modes!MouseFormats
             /\ n \notin DOMAIN Modes!Keymaps \cup {1050} /\ n # 1048
      PROVE  Goal
  <2> DEFINE set == slot \in t.bits
  <2>1. u = Modes!term_srm(t, slot, set)
    <3>1. slot \notin {9, 1005, 1051}
      BY <1>6, SlotsAre
    <3> QED BY <1>6, <3>1 DEF Modes!xtrestore
  <2>2. set \in BOOLEAN /\ (set <=> slot \in t.bits)
    OBVIOUS
  <2> HIDE DEF set
  <2>3. slot \in Modes!Known /\ slot # 2 /\ slot # 2026 /\ (n \in Modes!AltModes => slot = 47) /\ (n \notin Modes!AltModes => slot = n)
    BY <1>6, <1>n, SlotsAre DEF Unrestored
  <2>4. slot = Modes!Slot(n)
    OBVIOUS
  <2> HIDE DEF u, slot
  <2>5. /\ SameBut(t, u, SwitchedFields) /\ ModesSound(u)
        /\ Modes!Allowed(u, slot) /\ slot \notin AskedWrongly => Modes!term_get_mode(u, slot) = Modes!Status(set)
    BY <2>1, <2>2, <2>3, SrmIs
  <2>6. ASSUME Premise PROVE Modes!term_get_mode(u, k) = told
    <3>0. RememberedOf(t, k, told)
      BY <1>1, <2>6
    <3>1. k \in Modes!Known /\ Modes!Slot(k) = slot
      BY <1>1, <2>6
    <3>2. AskOf(u, k, Modes!term_get_mode(u, k))
      BY <3>1, SrmCases
    <3>a. AskOf(u, slot, Modes!term_get_mode(u, slot))
      BY <2>3, SrmCases
    <3>3. CASE n \in Modes!AltModes
      <4>1. slot = 47 /\ k \in Modes!AltModes /\ 47 \in Modes!AltModes
        BY <2>3, <3>1, <3>3, SlotsAre DEF Modes!AltModes
      <4>2. told = Modes!Status(slot \in t.bits)
        <5>1. told = Modes!Status(Modes!Slot(k) \in t.bits)
          BY <3>0, <4>1, Zenon DEF RememberedOf
        <5> QED BY <3>1, <5>1
      <4>3. Modes!term_get_mode(u, k) = Modes!Status("altscreen" \in u.on)
        BY <3>2, <4>1, Zenon DEF AskOf
      <4>4. Modes!term_get_mode(u, slot) = Modes!Status("altscreen" \in u.on)
        BY <3>a, <4>1, Zenon DEF AskOf
      <4>5. Modes!Allowed(u, slot)
        BY <2>6, <3>3, <4>1 DEF Modes!Allowed, Modes!AltModes, Modes!Needs
      <4>6. slot \notin AskedWrongly
        BY <4>1 DEF AskedWrongly, Modes!AlwaysReset
      <4> QED BY <2>2, <2>5, <4>2, <4>3, <4>4, <4>5, <4>6 DEF Modes!Status
    <3>4. CASE n \notin Modes!AltModes
      <4>1. slot = n /\ k = n
        BY <1>6, <2>3, <2>4, <3>1, <3>4, SlotsAre
      <4>2. CASE n \in Modes!AlwaysReset
        <5>1. told = "always reset"
          BY <3>0, <4>1, <4>2, Zenon DEF RememberedOf
        <5>2. Modes!term_get_mode(u, k) = "always reset"
          BY <3>2, <4>1, <4>2, Zenon DEF AskOf
        <5> QED BY <5>1, <5>2
      <4>3. CASE n \notin Modes!AlwaysReset
        <5>1. n \in {2, 12, 1046} \cup Modes!AltModes \cup DOMAIN Modes!Flag
          BY <1>6, <1>n, <3>4, <4>3 DEF Modes!Known, Unrestored
        <5>2. told = Modes!Status(slot \in t.bits)
          <6>1. k \in {2, 12, 1046} \cup Modes!AltModes \cup DOMAIN Modes!Flag
            BY <4>1, <5>1
          <6>2. told = Modes!Status(Modes!Slot(k) \in t.bits)
            BY <3>0, <6>1 DEF RememberedOf
          <6> QED BY <3>1, <6>2
        <5>3. n \notin AskedWrongly
          BY <1>6, <2>3, <2>6, <4>1, <4>3, MouseIs DEF AskedWrongly
        <5> QED BY <2>2, <2>5, <2>6, <4>1, <5>2, <5>3 DEF Modes!Status
      <4> QED BY <4>2, <4>3
    <3> QED BY <3>3, <3>4
  <2> QED BY <2>5, <2>6
<1>7. Goal
  BY <1>2, <1>3, <1>4, <1>5, <1>6
<1> QED BY <1>7 DEF k, told

(* The invariant. The screen shown and the motion asked for are what the   *)
(* modes say, what is saved is what a query answered, and in VT52 mode     *)
(* there is no alternative screen to come back to.                         *)
ModesInv(t) ==
    /\ IsModes(t) /\ ModesSound(t) /\ AnswersBy(t)
    /\ t.level \in Nat /\ t.version \in Nat /\ t.group \subseteq Modes!Known
    /\ t.level = 0 => "altscreen" \notin t.on /\ "altscreen" \notin t.vt52

(* What is saved changes only by XTSAVE. *)
LEMMA AnswersKept ==
    ASSUME NEW t, NEW u, AnswersBy(t), u.was = t.was,
           u.bits = t.bits, u.savedMouse = t.savedMouse, u.savedFormat = t.savedFormat, u.savedKeymap = t.savedKeymap
    PROVE  AnswersBy(u)
<1>1. SUFFICES ASSUME NEW slot \in DOMAIN u.was PROVE RememberedAt(u, slot, u.was[slot][1], u.was[slot][2])
  BY DEF AnswersBy
<1> DEFINE n == u.was[slot][1]
           answer == u.was[slot][2]
<1>2. RememberedAt(t, slot, n, answer)
  BY <1>1 DEF AnswersBy
<1> HIDE DEF n, answer
<1>3. RememberedOf(u, n, answer)
  BY <1>2, RememberedKept DEF RememberedAt
<1> QED BY <1>2, <1>3 DEF RememberedAt, n, answer

(* Setting and restoring modes keep the invariant. *)
LEMMA SwitchKeeps ==
    ASSUME NEW t, NEW u, ModesInv(t), SameBut(t, u, SwitchedFields), ModesSound(u), t.level = 0 => "altscreen" \notin u.on
    PROVE  ModesInv(u)
<1>1. /\ u.was = t.was /\ u.bits = t.bits /\ u.savedMouse = t.savedMouse /\ u.savedFormat = t.savedFormat
      /\ u.savedKeymap = t.savedKeymap
  BY DEF SameBut, SwitchedFields, ModeFields
<1>2. AnswersBy(u)
  BY <1>1, AnswersKept DEF ModesInv
<1>3. u.level = t.level /\ u.version = t.version /\ u.group = t.group /\ u.vt52 = t.vt52
  BY DEF SameBut, SwitchedFields, ModeFields
<1> QED BY <1>2, <1>3 DEF ModesInv, SameBut

(* The name of what was done last is neither asked for nor shown. *)
LEMMA DoneIs ==
    ASSUME NEW t, ModesInv(t), NEW did
    PROVE  LET u == [t EXCEPT !.did = did]
           IN  /\ ModesInv(u) /\ u.did = did /\ SameBut(t, u, {"did"})
               /\ \A n : /\ Modes!term_get_mode(u, n) = Modes!term_get_mode(t, n)
                         /\ Modes!Allowed(u, n) <=> Modes!Allowed(t, n)
<1> DEFINE u == [t EXCEPT !.did = did]
<1>1. IsModes(t) /\ ModesSound(t)
  BY DEF ModesInv
<1>2. SameBut(t, u, {"did"}) /\ u.did = did
  BY <1>1 DEF SameBut, IsModes, ModeFields
<1> HIDE DEF u
<1>3. /\ u.on = t.on /\ u.shown = t.shown /\ u.mouse = t.mouse /\ u.motion = t.motion /\ u.shape = t.shape
      /\ u.format = t.format /\ u.keymap = t.keymap /\ u.sync = t.sync /\ u.level = t.level
  BY <1>2 DEF SameBut, ModeFields
<1>4. ModesSound(u)
  BY <1>1, <1>3 DEF ModesSound, ShownBy, MotionBy
<1>5. /\ u.was = t.was /\ u.bits = t.bits /\ u.savedMouse = t.savedMouse /\ u.savedFormat = t.savedFormat
      /\ u.savedKeymap = t.savedKeymap
  BY <1>2 DEF SameBut, ModeFields
<1>6. AnswersBy(u)
  BY <1>5, AnswersKept DEF ModesInv
<1>7. u.version = t.version /\ u.group = t.group /\ u.vt52 = t.vt52
  BY <1>2 DEF SameBut, ModeFields
<1>8. ModesInv(u)
  BY <1>2, <1>3, <1>4, <1>6, <1>7 DEF ModesInv, SameBut
<1>9. ASSUME NEW n PROVE Modes!term_get_mode(u, n) = Modes!term_get_mode(t, n)
  BY <1>3 DEF Modes!term_get_mode
<1>10. ASSUME NEW n PROVE Modes!Allowed(u, n) <=> Modes!Allowed(t, n)
  BY <1>3 DEF Modes!Allowed
<1> QED BY <1>2, <1>8, <1>9, <1>10 DEF u

(* A terminal that is new. *)
NewOf(version, group, new) ==
    /\ IsModes(new)
    /\ new.on = LET on == ModesConfigured \cup {"enable_columns_132"}
                IN  IF version = 0 THEN {"wrap"} \cup (on \cap Modes!KeptInVt52) ELSE on
    /\ new.mouse = "none" /\ new.format = "default" /\ new.keymap = "default" /\ new.saved = FALSE
    /\ new.back = FALSE /\ new.shown = "main" /\ new.motion = ModeLinks /\ new.sync = FALSE /\ new.shape = 2
    /\ new.bits = {} /\ new.savedMouse = "none" /\ new.savedFormat = "default" /\ new.savedKeymap = "default"
    /\ new.level = version /\ new.version = version /\ new.group = group /\ new.was = <<>>
    /\ new.did = <<"start">> /\ "altscreen" \notin new.on /\ (version = 0 => "altscreen" \notin new.vt52)

(* The fields of a new terminal. *)
LEMMA NewIs ==
    ASSUME NEW version \in Nat, NEW group
    PROVE  NewOf(version, group, Modes!New(version, group))
<1> DEFINE on == ModesConfigured \cup {"enable_columns_132"}
           r == [on |-> on, mouse |-> "none", format |-> "default", keymap |-> "default",
                 saved |-> FALSE, back |-> FALSE, shown |-> "main", motion |-> ModeLinks, sync |-> FALSE, shape |-> 2,
                 bits |-> {}, savedMouse |-> "none", savedFormat |-> "default", savedKeymap |-> "default",
                 vt52 |-> {}, level |-> version, version |-> version, group |-> group, was |-> <<>>, did |-> <<"start">>]
           new == Modes!New(version, group)
<1>1. new = Modes!Leveled(r)
  BY DEF Modes!New
<1>2. "altscreen" \notin on
  BY ModesAssumption
<1>3. on = ModesConfigured \cup {"enable_columns_132"}
  OBVIOUS
<1> HIDE DEF on
<1>4. DOMAIN r = ModeFields
  BY DEF ModeFields
<1>5. r = [f \in ModeFields |-> r[f]]
  BY <1>4
<1>6. r.on = on /\ r.version = version
  OBVIOUS
<1>7. /\ r.mouse = "none" /\ r.format = "default" /\ r.keymap = "default" /\ r.saved = FALSE
      /\ r.back = FALSE /\ r.shown = "main" /\ r.motion = ModeLinks /\ r.sync = FALSE /\ r.shape = 2
  OBVIOUS
<1>8. /\ r.bits = {} /\ r.savedMouse = "none" /\ r.savedFormat = "default" /\ r.savedKeymap = "default"
      /\ r.group = group /\ r.was = <<>> /\ r.did = <<"start">>
  OBVIOUS
<1> HIDE DEF r, new
<1>9. IsModes(r)
  BY <1>4, <1>5 DEF IsModes
<1>10. /\ SameBut(r, new, {"level", "on", "vt52"}) /\ new.level = r.version
       /\ new.on = IF r.version = 0 THEN Modes!InVt52(r) ELSE r.on
       /\ r.version = 0 => "altscreen" \notin new.vt52
       /\ "altscreen" \notin new.on
  BY <1>1, <1>2, <1>6, <1>9, LeveledIs
<1>11. /\ new.mouse = r.mouse /\ new.format = r.format /\ new.keymap = r.keymap /\ new.saved = r.saved
       /\ new.back = r.back /\ new.shown = r.shown /\ new.motion = r.motion /\ new.sync = r.sync /\ new.shape = r.shape
  BY <1>10 DEF SameBut, ModeFields
<1>12. /\ new.bits = r.bits /\ new.savedMouse = r.savedMouse /\ new.savedFormat = r.savedFormat
       /\ new.savedKeymap = r.savedKeymap /\ new.group = r.group /\ new.was = r.was /\ new.did = r.did
       /\ new.version = r.version
  BY <1>10 DEF SameBut, ModeFields
<1>13. Modes!InVt52(r) = {"wrap"} \cup (on \cap Modes!KeptInVt52)
  BY <1>6 DEF Modes!InVt52
<1>14. IsModes(new)
  BY <1>10 DEF SameBut
<1>15. new.on = (IF version = 0 THEN {"wrap"} \cup (on \cap Modes!KeptInVt52) ELSE on)
  BY <1>6, <1>10, <1>13
<1>16. /\ new.mouse = "none" /\ new.format = "default" /\ new.keymap = "default" /\ new.saved = FALSE
       /\ new.back = FALSE /\ new.shown = "main" /\ new.motion = ModeLinks /\ new.sync = FALSE /\ new.shape = 2
  BY <1>7, <1>11
<1>17. /\ new.bits = {} /\ new.savedMouse = "none" /\ new.savedFormat = "default" /\ new.savedKeymap = "default"
       /\ new.group = group /\ new.was = <<>> /\ new.did = <<"start">> /\ new.version = version
  BY <1>6, <1>8, <1>12
<1> QED BY <1>6, <1>10, <1>14, <1>15, <1>16, <1>17 DEF NewOf, new, on

(* A new terminal has the invariant. *)
LEMMA NewInv ==
    ASSUME NEW version \in Nat, NEW group \in ModeGroups
    PROVE  ModesInv(Modes!New(version, group))
<1> DEFINE new == Modes!New(version, group)
<1>1. /\ IsModes(new) /\ new.mouse = "none" /\ new.shown = "main" /\ new.motion = ModeLinks /\ new.shape = 2
      /\ new.level = version /\ new.version = version /\ new.group = group /\ new.was = <<>>
      /\ "altscreen" \notin new.on /\ (version = 0 => "altscreen" \notin new.vt52)
  <2>1. NewOf(version, group, new)
    BY NewIs
  <2> HIDE DEF new
  <2> QED BY <2>1 DEF NewOf
<1> HIDE DEF new
<1>2. ShownBy(new) /\ MotionBy(new)
  <2>1. ShownBy(new)
    BY <1>1 DEF ShownBy
  <2>2. ModeLinks = (new.mouse = "motion" \/ ModeLinks)
    BY <1>1, ModesAssumption
  <2>3. MotionBy(new)
    BY <1>1, <2>2, Zenon DEF MotionBy
  <2> QED BY <2>1, <2>3
<1>3. AnswersBy(new)
  BY <1>1 DEF AnswersBy
<1> QED BY <1>1, <1>2, <1>3, ModesAssumption DEF ModesInv, ModesSound, new

(* What the last step promises: a mode that is set or restored is answered *)
(* so, and a hard reset leaves a new terminal.                             *)
SetIsAnswered(t, n, b) == Modes!Allowed(t, n) /\ n \notin AskedWrongly => Modes!term_get_mode(t, n) = Modes!Status(b)
RestoredIsAnswered(t, n) ==
    Modes!Slot(n) \in DOMAIN t.was /\ Modes!Allowed(t, n) /\ n \notin {1048, 2005, 2006} =>
        Modes!term_get_mode(t, t.was[Modes!Slot(n)][1]) = t.was[Modes!Slot(n)][2]
AnsweredBy(t) ==
    /\ t.did[1] = "set" => SetIsAnswered(t, t.did[2], t.did[3])
    /\ t.did[1] = "restore" => RestoredIsAnswered(t, t.did[2])
WithoutSaved(t) ==
    [t EXCEPT !.bits = {}, !.savedMouse = "none", !.savedFormat = "default", !.savedKeymap = "default",
              !.vt52 = Modes!New(t.version, t.group).vt52, !.was = <<>>, !.did = <<"start">>, !.shape = 2, !.sync = FALSE]
FreshBy(t) == t.did = <<"reset", TRUE>> => WithoutSaved(t) = Modes!New(t.version, t.group)
ModesAll(t) == ModesInv(t) /\ AnsweredBy(t) /\ FreshBy(t)
DoneBy(t, did) == [t EXCEPT !.did = did]

(* What was done last is neither a mode set or restored nor a reset. *)
LEMMA OthersAreRight ==
    ASSUME NEW t, ModesInv(t), NEW did, did[1] \notin {"set", "restore", "reset"}
    PROVE  ModesAll(DoneBy(t, did))
<1> DEFINE u == DoneBy(t, did)
<1>1. ModesInv(u) /\ u.did = did
  BY DoneIs DEF DoneBy
<1> HIDE DEF u
<1>2. did # <<"reset", TRUE>>
  <2>1. <<"reset", TRUE>>[1] = "reset"
    OBVIOUS
  <2> QED BY <2>1
<1> QED BY <1>1, <1>2 DEF ModesAll, AnsweredBy, FreshBy, u

(* A mode set that a query answers. *)
LEMMA SetsAreRight ==
    ASSUME NEW t, ModesInv(t), NEW n, NEW b, SetIsAnswered(t, n, b)
    PROVE  ModesAll(DoneBy(t, <<"set", n, b>>))
<1> DEFINE did == <<"set", n, b>>
           u == DoneBy(t, did)
<1>1. did[1] = "set" /\ did[2] = n /\ did[3] = b /\ did # <<"reset", TRUE>>
  OBVIOUS
<1> HIDE DEF did
<1>2. ModesInv(u) /\ u.did = did /\ SetIsAnswered(u, n, b)
  BY DoneIs DEF DoneBy, SetIsAnswered
<1> HIDE DEF u
<1> QED BY <1>1, <1>2 DEF ModesAll, AnsweredBy, FreshBy, u, did

(* A mode restored that a query answers. *)
LEMMA RestoresAreRight ==
    ASSUME NEW t, ModesInv(t), NEW n, RestoredIsAnswered(t, n)
    PROVE  ModesAll(DoneBy(t, <<"restore", n>>))
<1> DEFINE did == <<"restore", n>>
           u == DoneBy(t, did)
<1>1. did[1] = "restore" /\ did[2] = n /\ did # <<"reset", TRUE>>
  OBVIOUS
<1> HIDE DEF did
<1>2. /\ ModesInv(u) /\ u.did = did /\ SameBut(t, u, {"did"})
      /\ \A k : /\ Modes!term_get_mode(u, k) = Modes!term_get_mode(t, k)
                /\ Modes!Allowed(u, k) <=> Modes!Allowed(t, k)
  BY DoneIs DEF DoneBy
<1> HIDE DEF u
<1>3. u.was = t.was
  BY <1>2 DEF SameBut, ModeFields
<1>4. RestoredIsAnswered(u, n)
  BY <1>2, <1>3 DEF RestoredIsAnswered
<1> QED BY <1>1, <1>2, <1>4 DEF ModesAll, AnsweredBy, FreshBy, u, did

(* VT52 mode is entered from the main screen. *)
LEMMA EnterKeeps ==
    ASSUME NEW t, ModesInv(t), "altscreen" \notin t.on
    PROVE  ModesInv(Modes!EnterVt52(t))
<1> DEFINE u == Modes!EnterVt52(t)
<1>0. IsModes(t) /\ ModesSound(t)
  BY DEF ModesInv
<1>1. /\ SameBut(t, u, {"level", "on", "vt52"}) /\ u.level = 0
      /\ "altscreen" \notin u.on /\ "altscreen" \notin u.vt52
  BY <1>0, EnterIs
<1> HIDE DEF u
<1>2. /\ u.was = t.was /\ u.bits = t.bits /\ u.savedMouse = t.savedMouse /\ u.savedFormat = t.savedFormat
      /\ u.savedKeymap = t.savedKeymap
  BY <1>1 DEF SameBut, ModeFields
<1>3. /\ u.shown = t.shown /\ u.mouse = t.mouse /\ u.motion = t.motion /\ u.shape = t.shape
      /\ u.version = t.version /\ u.group = t.group
  BY <1>1 DEF SameBut, ModeFields
<1>4. ModesSound(u)
  BY <1>0, <1>1, <1>3 DEF ModesSound, ShownBy, MotionBy
<1>5. AnswersBy(u)
  BY <1>2, AnswersKept DEF ModesInv
<1> QED BY <1>1, <1>3, <1>4, <1>5 DEF ModesInv, SameBut, u

(* VT52 mode is left for level 1, and the modes it kept come back. *)
LEMMA LeaveKeeps ==
    ASSUME NEW t, ModesInv(t), t.level = 0
    PROVE  ModesInv(Modes!LeaveVt52(t))
<1> DEFINE u == Modes!LeaveVt52(t)
<1>0. IsModes(t) /\ ModesSound(t) /\ "altscreen" \notin t.on /\ "altscreen" \notin t.vt52
  BY DEF ModesInv
<1>1. SameBut(t, u, {"level", "on"}) /\ u.level = 1 /\ "altscreen" \notin u.on
  BY <1>0, LeaveIs
<1> HIDE DEF u
<1>2. /\ u.was = t.was /\ u.bits = t.bits /\ u.savedMouse = t.savedMouse /\ u.savedFormat = t.savedFormat
      /\ u.savedKeymap = t.savedKeymap
  BY <1>1 DEF SameBut, ModeFields
<1>3. /\ u.shown = t.shown /\ u.mouse = t.mouse /\ u.motion = t.motion /\ u.shape = t.shape
      /\ u.version = t.version /\ u.group = t.group
  BY <1>1 DEF SameBut, ModeFields
<1>4. ModesSound(u)
  BY <1>0, <1>1, <1>3 DEF ModesSound, ShownBy, MotionBy
<1>5. AnswersBy(u)
  BY <1>2, AnswersKept DEF ModesInv
<1> QED BY <1>1, <1>3, <1>4, <1>5 DEF ModesInv, SameBut, u

(* SM, RM, DECSET and DECRST. *)
LEMMA SetStep ==
    ASSUME NEW t, ModesInv(t), NEW n \in Modes!Known, NEW b \in BOOLEAN, t.level > 0,
           n = 2 /\ ~b => "altscreen" \notin t.on
    PROVE  ModesAll(DoneBy(Modes!term_srm(t, n, b), <<"set", n, b>>))
<1> DEFINE u == Modes!term_srm(t, n, b)
<1>1. CASE n = 2 /\ ~b
  <2>1. u = Modes!EnterVt52(t)
    <3>1. SrmOf(t, n, b, u)
      BY SrmCases
    <3> HIDE DEF u
    <3>2. n = 2 => u = IF b THEN t ELSE Modes!term_set_vt52(t, TRUE)
      BY <3>1 DEF SrmOf
    <3> QED BY <1>1, <3>2 DEF Modes!term_set_vt52
  <2>2. ModesInv(u)
    BY <1>1, <2>1, EnterKeeps
  <2>3. SetIsAnswered(u, n, b)
    BY <1>1 DEF SetIsAnswered, AskedWrongly
  <2> QED BY <2>2, <2>3, SetsAreRight
<1>2. CASE n = 2 => b
  <2>1. SameBut(t, u, SwitchedFields) /\ ModesSound(u) /\ SetIsAnswered(u, n, b)
    BY <1>2, SrmIs DEF ModesInv, SetIsAnswered
  <2>2. ModesInv(u)
    <3>1. t.level # 0
      BY DEF ModesInv
    <3> HIDE DEF u
    <3> QED BY <2>1, <3>1, SwitchKeeps
  <2> QED BY <2>1, <2>2, SetsAreRight
<1> QED BY <1>1, <1>2

(* XTSAVE. *)
LEMMA SaveStep ==
    ASSUME NEW t, ModesInv(t), NEW n \in Modes!Known
    PROVE  ModesAll(DoneBy(Modes!Noted(Modes!xtsave(t, n), Modes!Slot(n), <<n, Modes!term_get_mode(t, n)>>), <<"save", n>>))
<1> DEFINE u == Modes!Noted(Modes!xtsave(t, n), Modes!Slot(n), <<n, Modes!term_get_mode(t, n)>>)
           did == <<"save", n>>
<1>0. IsModes(t) /\ ModesSound(t) /\ AnswersBy(t)
  BY DEF ModesInv
<1>1. SameBut(t, u, SavedFields \cup {"was"}) /\ AnswersBy(u)
  BY <1>0, NotedIs
<1>a. did[1] = "save"
  OBVIOUS
<1> HIDE DEF u, did
<1>2. /\ u.on = t.on /\ u.shown = t.shown /\ u.mouse = t.mouse /\ u.motion = t.motion /\ u.shape = t.shape
      /\ u.version = t.version /\ u.group = t.group /\ u.level = t.level /\ u.vt52 = t.vt52
  BY <1>1 DEF SameBut, SavedFields, ModeFields
<1>3. ModesSound(u)
  BY <1>0, <1>2 DEF ModesSound, ShownBy, MotionBy
<1>4. ModesInv(u)
  BY <1>1, <1>2, <1>3 DEF ModesInv, SameBut
<1>5. ModesAll(DoneBy(u, did))
  BY <1>4, <1>a, OthersAreRight
<1> QED BY <1>5 DEF u, did

(* XTRESTORE. *)
LEMMA RestoreStep ==
    ASSUME NEW t, ModesInv(t), NEW n \in Modes!Known \ Unrestored, t.level > 0
    PROVE  ModesAll(DoneBy(Modes!xtrestore(t, n), <<"restore", n>>))
<1> DEFINE u == Modes!xtrestore(t, n)
           slot == Modes!Slot(n)
<1>0. IsModes(t) /\ ModesSound(t) /\ AnswersBy(t) /\ t.level # 0
  BY DEF ModesInv
<1>1. /\ SameBut(t, u, SwitchedFields) /\ ModesSound(u)
      /\ slot \in DOMAIN t.was /\ Modes!Allowed(u, n) /\ n \notin {1048, 2005, 2006} =>
           Modes!term_get_mode(u, t.was[slot][1]) = t.was[slot][2]
  BY <1>0, RestoreIs
<1>a. slot = Modes!Slot(n)
  OBVIOUS
<1> HIDE DEF u, slot
<1>2. u.was = t.was
  BY <1>1 DEF SameBut, SwitchedFields, ModeFields
<1>3. RestoredIsAnswered(u, n)
  BY <1>1, <1>2, <1>a DEF RestoredIsAnswered
<1>4. ModesInv(u)
  BY <1>0, <1>1, SwitchKeeps
<1>5. ModesAll(DoneBy(u, <<"restore", n>>))
  BY <1>3, <1>4, RestoresAreRight
<1> QED BY <1>5 DEF u

(* DECSC and DECRC. *)
LEMMA CursorStep ==
    ASSUME NEW t, ModesInv(t), t.level > 0, NEW save \in BOOLEAN
    PROVE  ModesAll(DoneBy(Modes!screen_save_cursor(t, save), <<"cursor">>))
<1> DEFINE u == Modes!screen_save_cursor(t, save)
<1>0. IsModes(t) /\ ModesSound(t) /\ t.level # 0
  BY DEF ModesInv
<1>1. SameBut(t, u, {"on", "saved"}) /\ \A f : f # "origin" => (f \in u.on <=> f \in t.on)
  BY <1>0, CursorIs
<1> HIDE DEF u
<1>2. u.shown = t.shown /\ u.mouse = t.mouse /\ u.motion = t.motion /\ u.shape = t.shape
  BY <1>1 DEF SameBut, ModeFields
<1>3. ModesSound(u)
  BY <1>0, <1>1, <1>2 DEF ModesSound, ShownBy, MotionBy
<1>4. ModesInv(u)
  <2>1. SameBut(t, u, SwitchedFields)
    BY <1>1 DEF SameBut, SwitchedFields
  <2> QED BY <1>0, <1>3, <2>1, SwitchKeeps
<1>5. ModesAll(DoneBy(u, <<"cursor">>))
  <2>1. <<"cursor">>[1] \notin {"set", "restore", "reset"}
    OBVIOUS
  <2> QED BY <1>4, <2>1, OthersAreRight
<1> QED BY <1>5 DEF u

(* VT52 mode is left. *)
LEMMA ExitStep ==
    ASSUME NEW t, ModesInv(t), t.level = 0
    PROVE  ModesAll(DoneBy(Modes!term_set_vt52(t, FALSE), <<"ansi">>))
<1>1. ModesInv(Modes!LeaveVt52(t)) /\ Modes!term_set_vt52(t, FALSE) = Modes!LeaveVt52(t)
  BY LeaveKeeps DEF Modes!term_set_vt52
<1>2. <<"ansi">>[1] \notin {"set", "restore", "reset"}
  OBVIOUS
<1> QED BY <1>1, <1>2, OthersAreRight

(* A change of the flags only, not of those of the alternative screen. *)
LEMMA FlagStep ==
    ASSUME NEW t, NEW u, ModesInv(t), SameBut(t, u, {"on"}), NEW did, did[1] \notin {"set", "restore", "reset"},
           "altscreen" \in u.on <=> "altscreen" \in t.on,
           "disable_altscreen" \in u.on <=> "disable_altscreen" \in t.on
    PROVE  ModesAll(DoneBy(u, did))
<1>0. IsModes(t) /\ ModesSound(t) /\ (t.level = 0 => "altscreen" \notin t.on)
  BY DEF ModesInv
<1>1. u.shown = t.shown /\ u.mouse = t.mouse /\ u.motion = t.motion /\ u.shape = t.shape
  BY DEF SameBut, ModeFields
<1>2. ModesSound(u)
  BY <1>0, <1>1 DEF ModesSound, ShownBy, MotionBy
<1>3. ModesInv(u)
  <2>1. SameBut(t, u, SwitchedFields)
    BY DEF SameBut, SwitchedFields
  <2> QED BY <1>0, <1>2, <2>1, SwitchKeeps
<1> QED BY <1>3, OthersAreRight

(* DECKPAM and DECKPNM. *)
LEMMA KeypadStep ==
    ASSUME NEW t, ModesInv(t), NEW app \in BOOLEAN
    PROVE  ModesAll(DoneBy(Modes!Put(t, "appkey", app), <<"keypad">>))
<1> DEFINE u == Modes!Put(t, "appkey", app)
<1>1. SameBut(t, u, {"on"}) /\ u.on = IF app THEN t.on \cup {"appkey"} ELSE t.on \ {"appkey"}
  BY PutIs DEF ModesInv
<1> HIDE DEF u
<1>2. /\ "altscreen" \in u.on <=> "altscreen" \in t.on
      /\ "disable_altscreen" \in u.on <=> "disable_altscreen" \in t.on
  BY <1>1
<1>3. <<"keypad">>[1] \notin {"set", "restore", "reset"}
  OBVIOUS
<1> QED BY <1>1, <1>2, <1>3, FlagStep DEF u

(* The configuration is read again. *)
LEMMA ReloadStep ==
    ASSUME NEW t, ModesInv(t)
    PROVE  ModesAll(DoneBy(Modes!Reloaded(t), <<"reload">>))
<1> DEFINE on == (t.on \ Modes!AlwaysConfig) \cup (ModesConfigured \cap Modes!AlwaysConfig)
           u == Modes!Reloaded(t)
<1>1. u = [t EXCEPT !.on = on]
  BY DEF Modes!Reloaded
<1>2. "altscreen" \notin Modes!AlwaysConfig /\ "disable_altscreen" \notin Modes!AlwaysConfig
  BY DEF Modes!AlwaysConfig, Modes!TermConfig
<1>3. /\ "altscreen" \in on <=> "altscreen" \in t.on
      /\ "disable_altscreen" \in on <=> "disable_altscreen" \in t.on
  BY <1>2
<1> HIDE DEF on, u
<1>4. SameBut(t, u, {"on"}) /\ u.on = on
  <2>1. IsModes(t)
    BY DEF ModesInv
  <2> QED BY <1>1, <2>1 DEF SameBut, IsModes, ModeFields
<1>5. <<"reload">>[1] \notin {"set", "restore", "reset"}
  OBVIOUS
<1>6. ModesAll(DoneBy(u, <<"reload">>))
  BY <1>3, <1>4, <1>5, FlagStep
<1> QED BY <1>6 DEF u

(* A reset keeps the invariant. *)
LEMMA DefaultsKeep ==
    ASSUME NEW t, ModesInv(t)
    PROVE  LET u == Modes!Defaults(Modes!OnMain(t))
           IN  ModesSound(u) /\ AnswersBy(u) /\ IsModes(u) /\ "altscreen" \notin u.on
<1> DEFINE u == Modes!Defaults(Modes!OnMain(t))
<1>0. IsModes(t) /\ ModesSound(t)
  BY DEF ModesInv
<1>1. /\ SameBut(t, u, {"on", "mouse", "format", "keymap", "saved", "back", "motion", "shown"})
      /\ u.on = ModesConfigured \cup {"enable_columns_132"} /\ u.mouse = "none" /\ u.motion = ModeLinks
      /\ u.shown = "main"
  BY <1>0, DefaultsAre DEF ModesSound
<1> HIDE DEF u
<1>2. "altscreen" \notin u.on
  BY <1>1, ModesAssumption
<1>3. u.shape = t.shape
  BY <1>1 DEF SameBut, ModeFields
<1>4. MotionBy(u)
  <2>1. ModeLinks = (u.mouse = "motion" \/ ModeLinks)
    BY <1>1, ModesAssumption
  <2> QED BY <1>1, <2>1, Zenon DEF MotionBy
<1>5. ModesSound(u)
  BY <1>0, <1>1, <1>2, <1>3, <1>4 DEF ModesSound, ShownBy
<1>6. /\ u.was = t.was /\ u.bits = t.bits /\ u.savedMouse = t.savedMouse /\ u.savedFormat = t.savedFormat
      /\ u.savedKeymap = t.savedKeymap
  BY <1>1 DEF SameBut, ModeFields
<1>7. AnswersBy(u)
  BY <1>6, AnswersKept DEF ModesInv
<1> QED BY <1>1, <1>2, <1>5, <1>7 DEF SameBut, u

(* DECSTR. *)
LEMMA SoftStep ==
    ASSUME NEW t, ModesInv(t), t.level > 0
    PROVE  ModesAll(DoneBy(Modes!term_do_reset(t, FALSE), <<"reset", FALSE>>))
<1> DEFINE u == Modes!Defaults(Modes!OnMain(t))
           did == <<"reset", FALSE>>
<1>0. IsModes(t) /\ ModesSound(t) /\ t.level # 0
  BY DEF ModesInv
<1>1. /\ SameBut(t, u, {"on", "mouse", "format", "keymap", "saved", "back", "motion", "shown"})
      /\ ModesSound(u)
  BY <1>0, DefaultsAre, DefaultsKeep DEF ModesSound
<1>2. Modes!term_do_reset(t, FALSE) = u
  BY DEF Modes!term_do_reset
<1>3. did[1] = "reset" /\ did[2] = FALSE
  OBVIOUS
<1>a. did # <<"reset", TRUE>>
  OBVIOUS
<1> HIDE DEF u, did
<1>4. SameBut(t, u, SwitchedFields)
  BY <1>1 DEF SameBut, SwitchedFields
<1>5. ModesInv(u)
  BY <1>0, <1>1, <1>4, SwitchKeeps
<1>6. ModesInv(DoneBy(u, did)) /\ DoneBy(u, did).did = did
  BY <1>5, DoneIs DEF DoneBy
<1>7. ModesAll(DoneBy(u, did))
  BY <1>3, <1>a, <1>6 DEF ModesAll, AnsweredBy, FreshBy
<1> QED BY <1>2, <1>7 DEF did

(* A hard reset, field by field. *)
HardOf(t, u) ==
    /\ ModesInv(u) /\ u.level = t.version /\ u.version = t.version /\ u.group = t.group
    /\ u.on = LET on == ModesConfigured \cup {"enable_columns_132"}
              IN  IF t.version = 0 THEN {"wrap"} \cup (on \cap Modes!KeptInVt52) ELSE on
    /\ u.mouse = "none" /\ u.format = "default" /\ u.keymap = "default" /\ u.saved = FALSE
    /\ u.back = FALSE /\ u.shown = "main" /\ u.motion = ModeLinks

(* What RIS leaves, field by field. *)
LEMMA HardIs ==
    ASSUME NEW t, ModesInv(t)
    PROVE  HardOf(t, Modes!term_do_reset(t, TRUE))
<1> DEFINE on == ModesConfigured \cup {"enable_columns_132"}
           v == Modes!Defaults(Modes!OnMain(t))
           u == Modes!term_do_reset(t, TRUE)
<1>0. IsModes(t) /\ ModesSound(t) /\ t.version \in Nat /\ t.group \subseteq Modes!Known
  BY DEF ModesInv
<1>1. u = Modes!Leveled(v)
  BY DEF Modes!term_do_reset
<1>2. /\ SameBut(t, v, {"on", "mouse", "format", "keymap", "saved", "back", "motion", "shown"})
      /\ v.on = on /\ v.mouse = "none" /\ v.format = "default" /\ v.keymap = "default" /\ v.saved = FALSE
      /\ v.back = FALSE /\ v.motion = ModeLinks /\ v.shown = "main"
  BY <1>0, DefaultsAre DEF ModesSound
<1>3. ModesSound(v) /\ AnswersBy(v) /\ IsModes(v) /\ "altscreen" \notin v.on
  BY DefaultsKeep
<1> HIDE DEF on, v, u
<1>4. /\ SameBut(v, u, {"level", "on", "vt52"}) /\ u.level = v.version
      /\ u.on = IF v.version = 0 THEN Modes!InVt52(v) ELSE v.on
      /\ v.version = 0 => "altscreen" \notin u.vt52
      /\ "altscreen" \notin u.on
  BY <1>1, <1>3, LeveledIs
<1>5. v.version = t.version /\ v.group = t.group
  BY <1>2 DEF SameBut, ModeFields
<1>6. /\ u.was = v.was /\ u.bits = v.bits /\ u.savedMouse = v.savedMouse /\ u.savedFormat = v.savedFormat
      /\ u.savedKeymap = v.savedKeymap /\ u.version = v.version /\ u.group = v.group
  BY <1>4 DEF SameBut, ModeFields
<1>7. /\ u.mouse = v.mouse /\ u.format = v.format /\ u.keymap = v.keymap /\ u.saved = v.saved
      /\ u.back = v.back /\ u.motion = v.motion /\ u.shown = v.shown /\ u.shape = v.shape
  BY <1>4 DEF SameBut, ModeFields
<1>8. AnswersBy(u)
  BY <1>3, <1>6, AnswersKept
<1>9. ModesSound(u)
  BY <1>3, <1>4, <1>7 DEF ModesSound, ShownBy, MotionBy
<1>10. ModesInv(u)
  BY <1>0, <1>4, <1>5, <1>6, <1>8, <1>9 DEF ModesInv, SameBut
<1>11. u.on = (IF t.version = 0 THEN {"wrap"} \cup (on \cap Modes!KeptInVt52) ELSE on)
  <2>1. Modes!InVt52(v) = {"wrap"} \cup (on \cap Modes!KeptInVt52)
    BY <1>2 DEF Modes!InVt52
  <2> QED BY <1>2, <1>4, <1>5, <2>1
<1>12. /\ u.mouse = "none" /\ u.format = "default" /\ u.keymap = "default" /\ u.saved = FALSE
       /\ u.back = FALSE /\ u.shown = "main" /\ u.motion = ModeLinks
  BY <1>2, <1>7
<1> QED BY <1>4, <1>5, <1>6, <1>10, <1>11, <1>12 DEF HardOf, on, u

(* Modes are equal when all their fields are. *)
LEMMA SameRecords ==
    ASSUME NEW t, NEW u, IsModes(t), IsModes(u), \A f \in ModeFields : t[f] = u[f]
    PROVE  t = u
BY DEF IsModes

(* RIS leaves what a new terminal has. *)
LEMMA HardStep ==
    ASSUME NEW t, ModesInv(t)
    PROVE  ModesAll(DoneBy(Modes!term_do_reset(t, TRUE), <<"reset", TRUE>>))
<1> DEFINE v == Modes!term_do_reset(t, TRUE)
           did == <<"reset", TRUE>>
           u == DoneBy(v, did)
           new == Modes!New(u.version, u.group)
           on == ModesConfigured \cup {"enable_columns_132"}
<1>0. HardOf(t, v)
  BY HardIs
<1> HIDE DEF v
<1>1. /\ ModesInv(v) /\ v.level = t.version /\ v.version = t.version /\ v.group = t.group
      /\ v.on = (IF t.version = 0 THEN {"wrap"} \cup (on \cap Modes!KeptInVt52) ELSE on)
      /\ v.mouse = "none" /\ v.format = "default" /\ v.keymap = "default" /\ v.saved = FALSE
      /\ v.back = FALSE /\ v.shown = "main" /\ v.motion = ModeLinks
  BY <1>0 DEF HardOf
<1>2. did[1] = "reset"
  OBVIOUS
<1>a. on = ModesConfigured \cup {"enable_columns_132"}
  OBVIOUS
<1> HIDE DEF did, on
<1>3. ModesInv(u) /\ u.did = did /\ SameBut(v, u, {"did"})
  BY <1>1, DoneIs DEF DoneBy
<1> HIDE DEF u
<1>4. /\ u.level = v.level /\ u.version = v.version /\ u.group = v.group /\ u.on = v.on /\ u.mouse = v.mouse
      /\ u.format = v.format /\ u.keymap = v.keymap /\ u.saved = v.saved /\ u.back = v.back /\ u.shown = v.shown
      /\ u.motion = v.motion
  BY <1>3 DEF SameBut, ModeFields
<1>5. NewOf(u.version, u.group, new)
  BY <1>3, NewIs DEF ModesInv
<1> HIDE DEF new
<1> DEFINE c == WithoutSaved(u)
<1>6. c = [u EXCEPT !.bits = {}, !.savedMouse = "none", !.savedFormat = "default", !.savedKeymap = "default",
                    !.vt52 = new.vt52, !.was = <<>>, !.did = <<"start">>, !.shape = 2, !.sync = FALSE]
  BY DEF WithoutSaved, new
<1> HIDE DEF c
<1>7. IsModes(u) /\ IsModes(new)
  BY <1>3, <1>5 DEF ModesInv, NewOf
<1>8. /\ SameBut(u, c, {"bits", "savedMouse", "savedFormat", "savedKeymap", "vt52", "was", "did", "shape", "sync"})
      /\ c.bits = {} /\ c.savedMouse = "none" /\ c.savedFormat = "default" /\ c.savedKeymap = "default"
      /\ c.vt52 = new.vt52 /\ c.was = <<>> /\ c.did = <<"start">> /\ c.shape = 2 /\ c.sync = FALSE
  BY <1>6, <1>7 DEF SameBut, IsModes, ModeFields
<1>9. /\ c.bits = new.bits /\ c.savedMouse = new.savedMouse /\ c.savedFormat = new.savedFormat
      /\ c.savedKeymap = new.savedKeymap /\ c.vt52 = new.vt52 /\ c.was = new.was /\ c.did = new.did
      /\ c.shape = new.shape /\ c.sync = new.sync
  BY <1>5, <1>8 DEF NewOf
<1>10. /\ c.level = u.level /\ c.version = u.version /\ c.group = u.group /\ c.on = u.on /\ c.mouse = u.mouse
       /\ c.format = u.format /\ c.keymap = u.keymap /\ c.saved = u.saved /\ c.back = u.back /\ c.shown = u.shown
       /\ c.motion = u.motion
  BY <1>8 DEF SameBut, ModeFields
<1>11. /\ c.level = new.level /\ c.version = new.version /\ c.group = new.group /\ c.mouse = new.mouse
       /\ c.format = new.format /\ c.keymap = new.keymap /\ c.saved = new.saved /\ c.back = new.back
       /\ c.shown = new.shown /\ c.motion = new.motion
  <2>1. /\ new.level = u.version /\ new.version = u.version /\ new.group = u.group /\ new.mouse = "none"
        /\ new.format = "default" /\ new.keymap = "default" /\ new.saved = FALSE /\ new.back = FALSE
        /\ new.shown = "main" /\ new.motion = ModeLinks
    BY <1>5 DEF NewOf
  <2>2. /\ u.level = t.version /\ u.version = t.version /\ u.group = t.group /\ u.mouse = "none"
        /\ u.format = "default" /\ u.keymap = "default" /\ u.saved = FALSE /\ u.back = FALSE
        /\ u.shown = "main" /\ u.motion = ModeLinks
    BY <1>1, <1>4
  <2>3. /\ c.level = u.level /\ c.version = u.version /\ c.group = u.group /\ c.mouse = u.mouse
        /\ c.format = u.format /\ c.keymap = u.keymap /\ c.saved = u.saved /\ c.back = u.back
        /\ c.shown = u.shown /\ c.motion = u.motion
    BY <1>10
  <2> QED BY <2>1, <2>2, <2>3
<1>12. c.on = new.on
  <2>1. new.on = (IF u.version = 0 THEN {"wrap"} \cup (on \cap Modes!KeptInVt52) ELSE on)
    BY <1>5, <1>a DEF NewOf
  <2> QED BY <1>1, <1>4, <1>10, <2>1
<1>13. c = new
  <2>1. IsModes(c)
    BY <1>8 DEF SameBut
  <2>2. \A f \in ModeFields : c[f] = new[f]
    BY <1>9, <1>11, <1>12 DEF ModeFields
  <2> QED BY <1>7, <2>1, <2>2, SameRecords
<1>14. FreshBy(u)
  BY <1>13 DEF FreshBy, c, new
<1>15. AnsweredBy(u)
  BY <1>2, <1>3 DEF AnsweredBy
<1>16. ModesAll(u)
  BY <1>3, <1>14, <1>15 DEF ModesAll
<1> QED BY <1>16 DEF u, v, did

(* DECSCL resets and selects a level. *)
LEMMA LevelStep ==
    ASSUME NEW t, ModesInv(t), NEW p \in 0..5
    PROVE  ModesAll(DoneBy(Modes!DECSCL(t, p), <<"level">>))
<1> DEFINE r == Modes!term_do_reset(t, TRUE)
           u == Modes!DECSCL(t, p)
<1>1. ModesInv(r)
  BY HardIs DEF HardOf
<1>2. u = IF p \in 1..t.version THEN [r EXCEPT !.level = p] ELSE r
  BY DEF Modes!DECSCL
<1> HIDE DEF r, u
<1>3. ModesInv(u)
  <2>1. CASE p \in 1..t.version
    <3>0. IsModes(r) /\ ModesSound(r)
      BY <1>1 DEF ModesInv
    <3>1. SameBut(r, u, {"level"}) /\ u.level = p
      BY <1>2, <2>1, <3>0 DEF SameBut, IsModes, ModeFields
    <3>2. /\ u.was = r.was /\ u.bits = r.bits /\ u.savedMouse = r.savedMouse /\ u.savedFormat = r.savedFormat
          /\ u.savedKeymap = r.savedKeymap /\ u.version = r.version /\ u.group = r.group
      BY <3>1 DEF SameBut, ModeFields
    <3>3. u.shown = r.shown /\ u.on = r.on /\ u.mouse = r.mouse /\ u.motion = r.motion /\ u.shape = r.shape
      BY <3>1 DEF SameBut, ModeFields
    <3>4. ModesSound(u)
      BY <3>0, <3>3 DEF ModesSound, ShownBy, MotionBy
    <3>5. AnswersBy(u)
      BY <1>1, <3>2, AnswersKept DEF ModesInv
    <3>6. u.level \in Nat /\ u.level # 0
      BY <2>1, <3>1
    <3> QED BY <1>1, <3>1, <3>2, <3>4, <3>5, <3>6 DEF ModesInv, SameBut
  <2>2. CASE p \notin 1..t.version
    BY <1>1, <1>2, <2>2
  <2> QED BY <2>1, <2>2
<1>4. <<"level">>[1] \notin {"set", "restore", "reset"}
  OBVIOUS
<1> QED BY <1>3, <1>4, OthersAreRight DEF u

(* The invariant holds of what a terminal starts with. *)
LEMMA ModesStart ==
    ASSUME Modes!Init
    PROVE  ModesAll(state)
<1>1. PICK version \in ModeVersions, group \in ModeGroups : state = Modes!New(version, group)
  BY DEF Modes!Init
<1>2. version \in Nat /\ group \subseteq Modes!Known
  BY <1>1, ModesAssumption
<1>3. ModesInv(state)
  BY <1>1, <1>2, NewInv
<1>4. state.did = <<"start">>
  <2>1. NewOf(version, group, state)
    BY <1>1, <1>2, NewIs
  <2> QED BY <2>1, Zenon DEF NewOf
<1>5. state.did[1] = "start" /\ state.did # <<"reset", TRUE>>
  <2>1. <<"reset", TRUE>>[1] = "reset"
    OBVIOUS
  <2> QED BY <1>4, <2>1
<1> QED BY <1>3, <1>5 DEF ModesAll, AnsweredBy, FreshBy

(* Every step keeps the invariant. *)
LEMMA ModesStep ==
    ASSUME ModesAll(state), Modes!Next
    PROVE  ModesAll(state')
<1>0. ModesInv(state)
  BY DEF ModesAll
<1>1. ASSUME NEW v, NEW did, Modes!Does(v, did), ModesAll(DoneBy(v, did))
      PROVE  ModesAll(state')
  BY <1>1 DEF Modes!Does, DoneBy
<1>2. state.group \subseteq Modes!Known /\ state.level \in Nat
  BY <1>0 DEF ModesInv
<1>3. Modes!Ansi => state.level > 0
  BY DEF Modes!Ansi
<1>4. CASE Modes!Set
  <2>1. PICK n \in state.group, b \in BOOLEAN :
           /\ Modes!Ansi /\ (n = 2 /\ ~b => "altscreen" \notin state.on)
           /\ Modes!Does(Modes!term_srm(state, n, b), <<"set", n, b>>)
    BY <1>4 DEF Modes!Set
  <2>2. ModesAll(DoneBy(Modes!term_srm(state, n, b), <<"set", n, b>>))
    BY <1>0, <1>2, <1>3, <2>1, SetStep
  <2> QED BY <1>1, <2>1, <2>2
<1>5. CASE Modes!Save
  <2>1. PICK n \in state.group :
           Modes!Does(Modes!Noted(Modes!xtsave(state, n), Modes!Slot(n), <<n, Modes!term_get_mode(state, n)>>),
                      <<"save", n>>)
    BY <1>5 DEF Modes!Save
  <2>2. ModesAll(DoneBy(Modes!Noted(Modes!xtsave(state, n), Modes!Slot(n), <<n, Modes!term_get_mode(state, n)>>),
                       <<"save", n>>))
    BY <1>0, <1>2, SaveStep
  <2> QED BY <1>1, <2>1, <2>2
<1>6. CASE Modes!Restore
  <2>1. PICK n \in state.group \ Unrestored : Modes!Ansi /\ Modes!Does(Modes!xtrestore(state, n), <<"restore", n>>)
    BY <1>6 DEF Modes!Restore, Unrestored
  <2>2. ModesAll(DoneBy(Modes!xtrestore(state, n), <<"restore", n>>))
    BY <1>0, <1>2, <1>3, <2>1, RestoreStep
  <2> QED BY <1>1, <2>1, <2>2
<1>7. CASE Modes!SaveCursor
  <2>1. PICK save \in BOOLEAN : Modes!Ansi /\ Modes!Does(Modes!screen_save_cursor(state, save), <<"cursor">>)
    BY <1>7 DEF Modes!SaveCursor
  <2>2. ModesAll(DoneBy(Modes!screen_save_cursor(state, save), <<"cursor">>))
    BY <1>0, <1>3, <2>1, CursorStep
  <2> QED BY <1>1, <2>1, <2>2
<1>8. CASE Modes!ExitVt52
  <2>1. state.level = 0 /\ Modes!Does(Modes!term_set_vt52(state, FALSE), <<"ansi">>)
    BY <1>8 DEF Modes!ExitVt52
  <2>2. ModesAll(DoneBy(Modes!term_set_vt52(state, FALSE), <<"ansi">>))
    BY <1>0, <2>1, ExitStep
  <2> QED BY <1>1, <2>1, <2>2
<1>9. CASE Modes!Keypad
  <2>1. PICK app \in BOOLEAN : Modes!Does(Modes!Put(state, "appkey", app), <<"keypad">>)
    BY <1>9 DEF Modes!Keypad
  <2>2. ModesAll(DoneBy(Modes!Put(state, "appkey", app), <<"keypad">>))
    BY <1>0, KeypadStep
  <2> QED BY <1>1, <2>1, <2>2
<1>10. CASE Modes!Reset
  <2>1. PICK hard \in BOOLEAN : Modes!Ansi /\ Modes!Does(Modes!term_do_reset(state, hard), <<"reset", hard>>)
    BY <1>10 DEF Modes!Reset
  <2>2. CASE hard
    <3>1. Modes!Does(Modes!term_do_reset(state, TRUE), <<"reset", TRUE>>)
      BY <2>1, <2>2
    <3>2. ModesAll(DoneBy(Modes!term_do_reset(state, TRUE), <<"reset", TRUE>>))
      BY <1>0, <1>3, <2>1, HardStep
    <3> QED BY <1>1, <3>1, <3>2
  <2>3. CASE ~hard
    <3>1. Modes!Does(Modes!term_do_reset(state, FALSE), <<"reset", FALSE>>)
      BY <2>1, <2>3
    <3>2. ModesAll(DoneBy(Modes!term_do_reset(state, FALSE), <<"reset", FALSE>>))
      BY <1>0, <1>3, <2>1, SoftStep
    <3> QED BY <1>1, <3>1, <3>2
  <2> QED BY <2>2, <2>3
<1>11. CASE Modes!ConformanceLevel
  <2>1. PICK p \in 0..5 : Modes!Does(Modes!DECSCL(state, p), <<"level">>)
    BY <1>11 DEF Modes!ConformanceLevel
  <2>2. ModesAll(DoneBy(Modes!DECSCL(state, p), <<"level">>))
    BY <1>0, LevelStep
  <2> QED BY <1>1, <2>1, <2>2
<1>12. CASE Modes!Reload
  <2>1. Modes!Does(Modes!Reloaded(state), <<"reload">>)
    BY <1>12 DEF Modes!Reload
  <2>2. ModesAll(DoneBy(Modes!Reloaded(state), <<"reload">>))
    BY <1>0, ReloadStep
  <2> QED BY <1>1, <2>1, <2>2
<1> QED BY <1>4, <1>5, <1>6, <1>7, <1>8, <1>9, <1>10, <1>11, <1>12 DEF Modes!Next

(* The invariant says what is checked. *)
LEMMA ModesMean ==
    ASSUME ModesAll(state)
    PROVE  Modes!Answered /\ Modes!ShownIsMode /\ Modes!MotionAsked /\ Modes!ResetIsNew
<1>1. Modes!Answered
  <2>1. ASSUME NEW n, NEW b, SetIsAnswered(state, n, b) PROVE Modes!SetAnswered(n, b)
    BY <2>1 DEF SetIsAnswered, Modes!SetAnswered, Modes!Asks, AskedWrongly
  <2>2. ASSUME NEW n, RestoredIsAnswered(state, n) PROVE Modes!RestoredAnswered(n)
    BY <2>2 DEF RestoredIsAnswered, Modes!RestoredAnswered, Modes!Asks
  <2> QED BY <2>1, <2>2 DEF ModesAll, AnsweredBy, Modes!Answered
<1>2. Modes!ShownIsMode /\ Modes!MotionAsked
  BY DEF ModesAll, ModesInv, ModesSound, ShownBy, MotionBy, Modes!ShownIsMode, Modes!MotionAsked
<1>3. Modes!ResetIsNew
  BY DEF ModesAll, FreshBy, WithoutSaved, Modes!ResetIsNew
<1> QED BY <1>1, <1>2, <1>3

ModesHold == part = "modes" => ModesAll(state)

(* A query answers what was set and, of a mode that was restored, what it  *)
(* answered when it was saved; the alternative screen is shown exactly in  *)
(* its mode and never while it is disabled; the window is asked for the    *)
(* motion that the mode reports; and a hard reset leaves a new terminal:   *)
(* for any number of steps, any groups of the modes that there are, any    *)
(* configuration and level (term_srm(), term_get_mode(), XTSAVE and        *)
(* XTRESTORE, VT52 mode, term_do_reset(), term_load_config()).             *)
THEOREM ModesAreRight == FrontSpec => []ModesRight
<1>1. FrontInit => ModesHold
  BY ModesStart DEF FrontInit, Chosen, ModesHold
<1>2. ModesHold /\ [FrontNext]_all => ModesHold'
  <2> SUFFICES ASSUME ModesHold, [FrontNext]_all, part' = "modes"
               PROVE  ModesAll(state')
    BY DEF ModesHold
  <2>1. part = "modes" /\ (Modes!Next \/ state' = state)
    BY DEF FrontNext, all
  <2> QED BY <2>1, ModesStep DEF ModesHold
<1>3. ModesHold => ModesRight
  BY ModesMean DEF ModesHold, ModesRight
<1> QED BY <1>1, <1>2, <1>3, PTL DEF FrontSpec

----------------------------------------------------------------------------
(* The mouse: a record of these fields, all or all but some the same. *)
MouseFields ==
    {"program", "enabled", "oneshot", "filter", "pixels", "press", "release", "force", "mode", "format", "rx", "ry", "rb", "vt52",
     "asked", "sel", "at", "uri", "pressed", "held", "p", "out", "done", "told", "clean", "last", "oneshots", "shots", "exits", "n"}
IsMouse(h) == DOMAIN h = MouseFields /\ h = [f \in MouseFields |-> h[f]]
MouseBut(h, k, but) == IsMouse(k) /\ \A f \in MouseFields \ but : k[f] = h[f]

(* A field that is assigned is the only one that changes. *)
LEMMA OneMouseField ==
    ASSUME NEW h, IsMouse(h), NEW f \in MouseFields, NEW x
    PROVE  MouseBut(h, [h EXCEPT ![f] = x], {f}) /\ [h EXCEPT ![f] = x][f] = x
<1> DEFINE k == [h EXCEPT ![f] = x]
<1>1. DOMAIN k = MouseFields /\ k[f] = x /\ \A g \in MouseFields \ {f} : k[g] = h[g]
  BY DEF IsMouse
<1>2. k = [g \in MouseFields |-> k[g]]
  BY DEF IsMouse
<1> QED BY <1>1, <1>2 DEF IsMouse, MouseBut

(* The fields are fields of the mouse. *)
LEMMA MouseFieldNames ==
    /\ {"enabled", "oneshot", "filter", "pixels", "press", "release", "force", "mode", "format", "rx", "ry", "rb"} \subseteq MouseFields
    /\ {"vt52", "asked", "sel", "at", "uri", "pressed", "held", "p", "out", "done", "told", "clean", "last"} \subseteq MouseFields
    /\ {"oneshots", "shots", "exits", "n", "program"} \subseteq MouseFields
BY DEF MouseFields

(* The larger and the smaller of two numbers. *)
LEMMA LargerIs ==
    ASSUME NEW a \in Int, NEW b \in Int
    PROVE  Pointer!Max({a, b}) = IF a >= b THEN a ELSE b
<1>1. CASE a >= b
  <2>1. \A x \in {a, b} : (\A y \in {a, b} : x >= y) <=> x = a
    BY <1>1
  <2> QED BY <1>1, <2>1 DEF Pointer!Max
<1>2. CASE ~(a >= b)
  <2>1. \A x \in {a, b} : (\A y \in {a, b} : x >= y) <=> x = b
    BY <1>2
  <2> QED BY <1>2, <2>1 DEF Pointer!Max
<1> QED BY <1>1, <1>2

(* And the smaller. *)
LEMMA SmallerIs ==
    ASSUME NEW a \in Int, NEW b \in Int
    PROVE  Pointer!Min({a, b}) = IF a <= b THEN a ELSE b
<1>1. CASE a <= b
  <2>1. \A x \in {a, b} : (\A y \in {a, b} : x <= y) <=> x = a
    BY <1>1
  <2> QED BY <1>1, <2>1 DEF Pointer!Min
<1>2. CASE ~(a <= b)
  <2>1. \A x \in {a, b} : (\A y \in {a, b} : x <= y) <=> x = b
    BY <1>2
  <2> QED BY <1>2, <2>1 DEF Pointer!Min
<1> QED BY <1>1, <1>2

(* The pixels and the cells of the window. *)
LEMMA Product ==
    ASSUME NEW a \in Nat \ {0}, NEW c \in Nat \ {0}
    PROVE  a * c \in Nat /\ a * c >= a
<1>1. \E d \in Nat : c = d + 1
  <2>1. c - 1 \in Nat /\ c = (c - 1) + 1
    OBVIOUS
  <2> QED BY <2>1
<1>2. PICK d \in Nat : c = d + 1
  BY <1>1
<1>3. a * c = a * d + a /\ a * d \in Nat
  BY <1>2
<1> QED BY <1>3

(* A pixel of the window is in one of its cells. *)
LEMMA Quotient ==
    ASSUME NEW x \in Nat, NEW a \in Nat \ {0}, NEW c \in Nat \ {0}, x < a * c
    PROVE  x \div c \in 0..a - 1
<1> DEFINE q == x \div c
<1>1. q \in Nat /\ q * c <= x
  BY Z3
<1> HIDE DEF q
<1>2. ASSUME q >= a PROVE FALSE
  <2>1. PICK d \in Nat : q = a + d
    <3>1. q - a \in Nat /\ q = a + (q - a)
      BY <1>1, <1>2
    <3> QED BY <3>1
  <2>2. q * c = a * c + d * c /\ d * c \in Nat
    BY <2>1
  <2>3. a * c \in Nat
    OBVIOUS
  <2> QED BY <1>1, <2>2, <2>3
<1>3. q \in 0..a - 1
  BY <1>1, <1>2
<1> QED BY <1>3 DEF q

(* Where an event is: a pixel or a cell of the window. *)
LEMMA Coordinates ==
    ASSUME NEW p \in Int \X Int, NEW pixel \in BOOLEAN
    PROVE  LET at == Pointer!adj_coords(p, pixel) IN
           /\ at \in Int \X Int
           /\ at[1] + 1 \in 1..Pointer!Width /\ at[2] + 1 \in 1..Pointer!Height
           /\ ~pixel => at[1] + 1 \in 1..MouseCols
<1> DEFINE x == Pointer!Clamp(p[1], Pointer!Width)
           y == Pointer!Clamp(p[2], Pointer!Height)
<1>0. /\ MouseBorder \in Nat /\ MouseCell \in Nat \ {0} /\ MouseCols \in Nat \ {0} /\ MouseRows \in Nat \ {0}
  BY MouseAssumption
<1>1. /\ Pointer!Width \in Nat /\ Pointer!Width >= MouseCols
      /\ Pointer!Height \in Nat /\ Pointer!Height >= MouseRows
  BY <1>0, Product DEF Pointer!Width, Pointer!Height
<1>2. ASSUME NEW v \in Int, NEW size \in Nat, size > 0 PROVE Pointer!Clamp(v, size) \in 0..size - 1
  <2>1. Pointer!Min({size - 1, v - MouseBorder}) = IF size - 1 <= v - MouseBorder THEN size - 1 ELSE v - MouseBorder
    BY <1>0, <1>2, SmallerIs
  <2>2. Pointer!Min({size - 1, v - MouseBorder}) \in Int /\ Pointer!Min({size - 1, v - MouseBorder}) <= size - 1
    BY <1>0, <1>2, <2>1
  <2>3. Pointer!Max({0, Pointer!Min({size - 1, v - MouseBorder})})
            = IF 0 >= Pointer!Min({size - 1, v - MouseBorder}) THEN 0 ELSE Pointer!Min({size - 1, v - MouseBorder})
    BY <2>2, LargerIs
  <2> QED BY <1>2, <2>2, <2>3 DEF Pointer!Clamp
<1>3. x \in 0..Pointer!Width - 1 /\ y \in 0..Pointer!Height - 1
  <2>1. p[1] \in Int /\ p[2] \in Int /\ Pointer!Width > 0 /\ Pointer!Height > 0
    BY <1>0, <1>1
  <2> QED BY <1>1, <1>2, <2>1
<1> HIDE DEF x, y
<1>4. x \div MouseCell \in 0..MouseCols - 1 /\ y \div MouseCell \in 0..MouseRows - 1
  <2>1. x \in Nat /\ x < MouseCols * MouseCell /\ y \in Nat /\ y < MouseRows * MouseCell
    BY <1>1, <1>3 DEF Pointer!Width, Pointer!Height
  <2>2. x \div MouseCell \in 0..MouseCols - 1
    BY <1>0, <2>1, Quotient
  <2>3. y \div MouseCell \in 0..MouseRows - 1
    BY <1>0, <2>1, Quotient
  <2> QED BY <2>2, <2>3
<1>5. Pointer!adj_coords(p, pixel) = IF pixel THEN <<x, y>> ELSE <<x \div MouseCell, y \div MouseCell>>
  BY DEF Pointer!adj_coords, x, y
<1>6. ASSUME NEW a \in Int, NEW b \in Int, Pointer!adj_coords(p, pixel) = <<a, b>>,
             a + 1 \in 1..Pointer!Width, b + 1 \in 1..Pointer!Height, ~pixel => a + 1 \in 1..MouseCols
      PROVE  LET at == Pointer!adj_coords(p, pixel) IN
             /\ at \in Int \X Int
             /\ at[1] + 1 \in 1..Pointer!Width /\ at[2] + 1 \in 1..Pointer!Height
             /\ ~pixel => at[1] + 1 \in 1..MouseCols
  <2>1. <<a, b>> \in Int \X Int /\ <<a, b>>[1] = a /\ <<a, b>>[2] = b
    OBVIOUS
  <2> QED BY <1>6, <2>1
<1>7. CASE pixel
  <2>1. Pointer!adj_coords(p, pixel) = <<x, y>>
    BY <1>5, <1>7
  <2>2. x \in Int /\ y \in Int /\ x + 1 \in 1..Pointer!Width /\ y + 1 \in 1..Pointer!Height
    BY <1>1, <1>3
  <2> QED BY <1>6, <1>7, <2>1, <2>2
<1>8. CASE ~pixel
  <2> DEFINE X == x \div MouseCell
             Y == y \div MouseCell
  <2>1. Pointer!adj_coords(p, pixel) = <<X, Y>>
    BY <1>5, <1>8
  <2>2. X \in 0..MouseCols - 1 /\ Y \in 0..MouseRows - 1
    BY <1>4
  <2> HIDE DEF X, Y
  <2>3. X \in Int /\ Y \in Int /\ X + 1 \in 1..MouseCols /\ X + 1 \in 1..Pointer!Width /\ Y + 1 \in 1..Pointer!Height
    BY <1>0, <1>1, <2>2
  <2> QED BY <1>6, <1>8, <2>1, <2>3
<1> QED BY <1>7, <1>8


(* The numbers of buttons: those of the mouse, of wheels and of others.    *)
Modifiers == {"shift", "mod_1", "control"}
ModifierSums == {0, 4, 8, 12, 16, 20, 24, 28}
OtherCodes == 64..67 \cup 128..131
PressCodes == 0..2 \cup OtherCodes
IsEvent(v, ev) ==
    /\ ev.event \in {"press", "release", "motion"} /\ ev.button \in MouseButtons /\ ev.mods \subseteq Modifiers
    /\ ev.p \in v.program.points /\ ev.p \in Int \X Int /\ ev.down = v.held
    /\ ev.event = "press" => ev.button \notin v.held
    /\ ev.event = "release" => ev.button \in v.held \/ ev.button > 2

(* Modifiers add one of eight sums. *)
LEMMA ModifiedIs ==
    ASSUME NEW h, NEW mods
    PROVE  Pointer!Modified(h, mods) \in ModifierSums
BY DEF Pointer!Modified, ModifierSums

(* The number of an event, by what it is. *)
LEMMA CodeIs ==
    ASSUME NEW h, NEW ev, ev.button \in MouseButtons, ev.mods \subseteq Modifiers,
           ev.event \in {"press", "release", "motion"}
    PROVE  /\ ev.event = "motion" => Pointer!Code(h, ev) = 32 + (IF ev.down = {} THEN 3 ELSE h.rb)
           /\ ev.event = "release" /\ h.format # "sgr" => Pointer!Code(h, ev) = 3
           /\ ev.event = "press" \/ (ev.event = "release" /\ h.format = "sgr") =>
                  IF ev.button > 2 THEN Pointer!Code(h, ev) \in OtherCodes ELSE Pointer!Code(h, ev) = ev.button
<1>1. Pointer!Dragging(ev) <=> ev.down # {}
  BY Zenon DEF Pointer!Dragging, Modifiers
<1>2. CASE ev.event = "motion"
  <2>1. Pointer!Code(h, ev) = 32 + (IF Pointer!Dragging(ev) THEN h.rb ELSE 3)
    BY <1>2 DEF Pointer!Code
  <2> QED BY <1>1, <1>2, <2>1
<1>3. CASE ev.event = "release" /\ h.format # "sgr"
  BY <1>3 DEF Pointer!Code
<1>4. CASE ev.event = "press" \/ (ev.event = "release" /\ h.format = "sgr")
  <2>1. Pointer!Code(h, ev) =
            IF ev.button > 6 THEN ev.button + 121 ELSE IF ev.button > 2 THEN ev.button + 61 ELSE ev.button
    BY <1>4 DEF Pointer!Code
  <2>2. ev.button \in 0..10
    BY DEF MouseButtons
  <2> QED BY <1>4, <2>1, <2>2 DEF OtherCodes
<1> QED BY <1>2, <1>3, <1>4

(* What a report of such a number says. *)
Numbered(h, r, code, sum) == r.b = code + sum + Pointer!ButtonOffset(h) /\ r.format = h.format

(* The parts of a number: whether it is of a motion or of a wheel, and the *)
(* button.                                                                 *)
LEMMA NumberIs ==
    ASSUME NEW h, NEW r, NEW code \in Nat, NEW sum \in ModifierSums, Numbered(h, r, code, sum)
    PROVE  /\ Pointer!IsMotion(r) <=> ((code + sum) \div 32) % 2 = 1
           /\ Pointer!IsWheel(r) <=> code + sum >= 64
           /\ Pointer!Button(r) = (code + sum) % 4
<1> DEFINE c == code + sum
<1>1. c \in Nat
  BY DEF ModifierSums
<1>2. CASE r.format \in {"sgr", "pixel"}
  <2>1. r.b = c
    BY <1>1, <1>2 DEF Numbered, Pointer!ButtonOffset
  <2> HIDE DEF c
  <2>2. /\ Pointer!IsMotion(r) <=> (c \div 32) % 2 = 1
        /\ Pointer!IsWheel(r) <=> c >= 64
        /\ Pointer!Button(r) = c % 4
    BY <1>2, <2>1 DEF Pointer!IsMotion, Pointer!IsWheel, Pointer!Button
  <2> QED BY <2>2 DEF c
<1>3. CASE r.format \notin {"sgr", "pixel"}
  <2>1. r.b = c + 32
    BY <1>1, <1>3 DEF Numbered, Pointer!ButtonOffset
  <2> HIDE DEF c
  <2>2. r.b - 32 = c /\ r.b >= 32
    BY <1>1, <2>1
  <2>3. /\ Pointer!IsMotion(r) <=> (c \div 32) % 2 = 1
        /\ Pointer!IsWheel(r) <=> c >= 64
        /\ Pointer!Button(r) = c % 4
    BY <1>3, <2>2 DEF Pointer!IsMotion, Pointer!IsWheel, Pointer!Button
  <2> QED BY <2>3 DEF c
<1> QED BY <1>2, <1>3

(* Buttons of the mouse that are pressed or released, the other ones, and  *)
(* motions.                                                                *)
LEMMA ButtonReport ==
    ASSUME NEW h, NEW r, NEW code \in 0..3, NEW sum \in ModifierSums, Numbered(h, r, code, sum)
    PROVE  ~Pointer!IsMotion(r) /\ ~Pointer!IsWheel(r) /\ Pointer!Button(r) = code
<1>1. code + sum \in 0..31 /\ (code + sum) % 4 = code
  BY DEF ModifierSums
<1> DEFINE c == code + sum
<1>2. c \in 0..31
  BY <1>1
<1> HIDE DEF c
<1>3. c \div 32 = 0 /\ ~(c >= 64)
  BY <1>2
<1>4. (c \div 32) % 2 # 1
  BY <1>3
<1> QED BY <1>1, <1>3, <1>4, NumberIs DEF c

(* A button beyond the third is told as one of a wheel. *)
LEMMA OtherReport ==
    ASSUME NEW h, NEW r, NEW code \in OtherCodes, NEW sum \in ModifierSums, Numbered(h, r, code, sum)
    PROVE  ~Pointer!IsMotion(r) /\ Pointer!IsWheel(r)
<1> DEFINE c == code + sum
<1>1. code \in Nat /\ (c \in 64..95 \/ c \in 128..159)
  BY DEF ModifierSums, OtherCodes
<1> HIDE DEF c
<1>2. c \div 32 = 2 \/ c \div 32 = 4
  BY <1>1
<1>3. (c \div 32) % 2 # 1 /\ c >= 64
  BY <1>1, <1>2
<1> QED BY <1>1, <1>3, NumberIs DEF c

(* A motion is told as one, with the button that was pressed. *)
LEMMA MotionReport ==
    ASSUME NEW h, NEW r, NEW k \in PressCodes \cup {3}, NEW sum \in ModifierSums, Numbered(h, r, 32 + k, sum)
    PROVE  Pointer!IsMotion(r) /\ (k \in 0..3 => Pointer!Button(r) = k)
<1> DEFINE c == (32 + k) + sum
<1>1. 32 + k \in Nat /\ (c \in 32..63 \/ c \in 96..127 \/ c \in 160..191)
  BY DEF ModifierSums, OtherCodes, PressCodes
<1>2. k \in 0..3 => c % 4 = k
  BY DEF ModifierSums
<1> HIDE DEF c
<1>3. c \div 32 = 1 \/ c \div 32 = 3 \/ c \div 32 = 5
  BY <1>1
<1>4. (c \div 32) % 2 = 1
  BY <1>3
<1>5. Pointer!IsMotion(r) /\ Pointer!Button(r) = c % 4
  BY <1>1, <1>4, NumberIs DEF c
<1> QED BY <1>2, <1>5

(* Every number fits a character after the offset. *)
LEMMA NumberFits ==
    ASSUME NEW k \in PressCodes \cup {3}, NEW code \in {k, 32 + k}, NEW sum \in ModifierSums
    PROVE  code \in Nat /\ code + sum \in Nat /\ code + sum <= 191
BY DEF PressCodes, OtherCodes, ModifierSums


(* What is invariant. Buttons told are those held, and of a press that was *)
(* reported the report button is the one held; a one-shot locator is off   *)
(* once it reported; a filter was not left yet; motions are asked for; and *)
(* the last report is of the position that the next motion is compared     *)
(* with.                                                                   *)
MouseTypes(v) ==
    /\ IsMouse(v) /\ v.program \in MousePrograms /\ v.p \in Int \X Int /\ v.format \in Pointer!Formats
    /\ v.mode \in Pointer!Modes /\ v.mode \in v.program.commands \cup {"none"} /\ v.pixels \in BOOLEAN
    /\ v.rx \in Int /\ v.ry \in Int /\ v.rb \in PressCodes
ButtonsOK(v) == v.told = v.held /\ v.held \subseteq {0, 1, 2} /\ (v.clean => v.held \subseteq {v.rb})
OnceOK(v) ==
    /\ v.shots \in {0, 1} \/ ~v.oneshots
    /\ v.oneshots => IF v.shots = 0 THEN v.enabled => v.oneshot ELSE ~v.enabled
    /\ v.shots \in Nat /\ v.exits \in {0, 1} /\ (v.filter # <<>> => v.exits = 0)
HeardOK(v) == MouseUris /\ (v.mode = "motion" \/ v.filter # <<>>) => v.asked

LocatorReport(r) ==
    \/ r.kind = "unavailable"
    \/ r.kind = "locator" /\ r.x \in 1..Pointer!Width /\ r.y \in 1..Pointer!Height
MouseReportAt(v, r) ==
    r.kind = "mouse" => r.x = v.rx + 1 + Pointer!Offset(v) /\ r.y = v.ry + 1 + Pointer!Offset(v)
DragOK(v, r) ==
    Pointer!IsMotion(r) => IF v.clean /\ v.held # {} THEN Pointer!Button(r) \in v.held ELSE v.held = {} => Pointer!Button(r) = 3
GridOK(r) ==
    /\ r.format = "default" => {r.b, r.x, r.y} \subseteq 32..255
    /\ r.format # "pixel" => r.x - (IF r.format \in {"default", "utf8"} THEN 32 ELSE 0) \in 1..MouseCols
MovedOK(v, r) ==
    Pointer!IsMotion(r) /\ v.last # <<>> /\ v.last[1].kind = "mouse" => <<r.x, r.y>> # <<v.last[1].x, v.last[1].y>>
OutOK(v) ==
    \/ v.out = <<>>
    \/ \E r : v.out = <<r>> /\ (LocatorReport(r) \/ (r.kind = "mouse" /\ DragOK(v, r) /\ GridOK(r) /\ MovedOK(v, r)))
Latest(v) == IF v.out = <<>> THEN v.last ELSE v.out
LatestOK(v) == Latest(v) # <<>> => MouseReportAt(v, Latest(v)[1])
MouseInv(v) == MouseTypes(v) /\ ButtonsOK(v) /\ OnceOK(v) /\ HeardOK(v) /\ OutOK(v) /\ LatestOK(v)

(* A report of the locator, or none. *)
Reportless(out) == out = <<>> \/ \E r : out = <<r>> /\ LocatorReport(r)

(* mouse_report_locator() sends a report of where the pointer is, or that  *)
(* there is none, and changes nothing else.                                *)
LEMMA LocatorIs ==
    ASSUME NEW h, IsMouse(h), h.out = <<>>, h.pixels \in BOOLEAN, NEW evt, NEW p \in Int \X Int, NEW down
    PROVE  LET k == Pointer!mouse_report_locator(h, evt, p, down) IN MouseBut(h, k, {"out"}) /\ Reportless(k.out)
<1>1. ASSUME NEW r, LocatorReport(r), Pointer!mouse_report_locator(h, evt, p, down) = [h EXCEPT !.out = Append(@, r)]
      PROVE  LET k == Pointer!mouse_report_locator(h, evt, p, down) IN MouseBut(h, k, {"out"}) /\ Reportless(k.out)
  <2>1. Append(h.out, r) = <<r>>
    OBVIOUS
  <2>2. [h EXCEPT !.out = Append(@, r)] = [h EXCEPT !["out"] = <<r>>]
    BY <2>1
  <2>3. MouseBut(h, [h EXCEPT !["out"] = <<r>>], {"out"}) /\ [h EXCEPT !["out"] = <<r>>]["out"] = <<r>>
    BY OneMouseField, MouseFieldNames
  <2> QED BY <1>1, <2>2, <2>3 DEF Reportless
<1>2. CASE Pointer!Inside(p)
  <2> DEFINE r == Pointer!Located(evt, down, Pointer!adj_coords(p, h.pixels))
  <2>1. r.kind = "locator" /\ r.x = Pointer!adj_coords(p, h.pixels)[1] + 1 /\ r.y = Pointer!adj_coords(p, h.pixels)[2] + 1
    BY DEF Pointer!Located
  <2>2. LocatorReport(r)
    BY <2>1, Coordinates DEF LocatorReport
  <2>3. Pointer!mouse_report_locator(h, evt, p, down) = [h EXCEPT !.out = Append(@, r)]
    BY <1>2 DEF Pointer!mouse_report_locator
  <2> QED BY <1>1, <2>2, <2>3
<1>3. CASE ~Pointer!Inside(p) /\ evt = 1
  <2> DEFINE r == [kind |-> "unavailable"]
  <2>1. LocatorReport(r)
    BY DEF LocatorReport
  <2>2. Pointer!mouse_report_locator(h, evt, p, down) = [h EXCEPT !.out = Append(@, r)]
    BY <1>3 DEF Pointer!mouse_report_locator
  <2> QED BY <1>1, <2>1, <2>2
<1>4. CASE ~Pointer!Inside(p) /\ evt # 1
  <2>1. Pointer!mouse_report_locator(h, evt, p, down) = h
    BY <1>4 DEF Pointer!mouse_report_locator
  <2> QED BY <2>1 DEF MouseBut, Reportless
<1> QED BY <1>2, <1>3, <1>4

(* What an event does when a locator is on, what a mode does with it, and  *)
(* what is left to the window.                                             *)
LocatorDoes(h, k) ==
    /\ MouseBut(h, k, {"enabled", "oneshot", "out", "shots"}) /\ Reportless(k.out) /\ k.oneshot = FALSE
    /\ k.enabled = (h.enabled /\ ~h.oneshot) /\ k.shots \in {h.shots, h.shots + 1}
FilterDoes(h, k) ==
    /\ MouseBut(h, k, {"filter", "asked", "uri", "pressed", "out", "exits"}) /\ Reportless(k.out)
    /\ k.filter = <<>> /\ k.asked = (h.mode = "motion") /\ k.exits = h.exits + 1
ReportOf(h, ev, k, at, r) ==
    /\ k.rb = IF ev.event = "press" THEN Pointer!Code(h, ev) ELSE h.rb
    /\ k.out = <<r>> /\ k.rx = at[1] /\ k.ry = at[2]
    /\ r.kind = "mouse" /\ Numbered(h, r, Pointer!Code(h, ev), Pointer!Modified(h, ev.mods))
    /\ r.up <=> h.format \in {"sgr", "pixel"} /\ ev.event = "release"
    /\ r.x = at[1] + 1 + Pointer!Offset(h) /\ r.y = at[2] + 1 + Pointer!Offset(h)
    /\ h.format # "pixel" => at[1] + 1 \in 1..MouseCols
    /\ h.format = "default" => at[1] \in Characters /\ at[2] \in Characters
    /\ ev.event = "motion" => at # <<h.rx, h.ry>>
Reported(h, ev, k) == MouseBut(h, k, {"rb", "out", "rx", "ry"}) /\ \E at \in Int \X Int : \E r : ReportOf(h, ev, k, at, r)
Unreported(h, ev, k) ==
    \/ k = h /\ (h.mode = "x10" \/ ev.event = "motion" \/ (ev.event = "release" /\ ev.button \in {3, 4}))
    \/ /\ MouseBut(h, k, {"rb"}) /\ k.rb = IF ev.event = "press" THEN Pointer!Code(h, ev) ELSE h.rb
       /\ h.mode \notin Reporting
LocalDoes(h, k) == MouseBut(h, k, {"uri", "pressed", "done", "sel", "at"})

(* An event for a locator, which is turned off if it is a one-shot one. *)
LEMMA LocatorEvent ==
    ASSUME NEW h, IsMouse(h), h.out = <<>>, h.pixels \in BOOLEAN, h.shots \in Nat, NEW ev, ev.p \in Int \X Int
    PROVE  LocatorDoes(h, Pointer!Locator(h, ev))
<1> DEFINE f == [h EXCEPT !["enabled"] = h.enabled /\ ~h.oneshot]
           once == [h EXCEPT !.enabled = @ /\ ~h.oneshot, !.oneshot = FALSE]
<1>1. MouseBut(h, once, {"enabled", "oneshot"}) /\ once.enabled = (h.enabled /\ ~h.oneshot) /\ once.oneshot = FALSE
  <2>1. once = [f EXCEPT !["oneshot"] = FALSE]
    OBVIOUS
  <2>2. MouseBut(h, f, {"enabled"}) /\ f["enabled"] = (h.enabled /\ ~h.oneshot)
    BY OneMouseField, MouseFieldNames
  <2> HIDE DEF f
  <2>3. MouseBut(f, [f EXCEPT !["oneshot"] = FALSE], {"oneshot"}) /\ [f EXCEPT !["oneshot"] = FALSE]["oneshot"] = FALSE
    <3>1. IsMouse(f)
      BY <2>2 DEF MouseBut
    <3> QED BY <3>1, OneMouseField, MouseFieldNames
  <2> QED BY <2>1, <2>2, <2>3, MouseFieldNames DEF MouseBut
<1>2. Pointer!Locator(h, ev) = once \/ \E evt, down :
          Pointer!Locator(h, ev) = [Pointer!mouse_report_locator(once, evt, ev.p, down) EXCEPT !.shots = @ + 1]
  BY DEF Pointer!Locator
<1> HIDE DEF once
<1>3. IsMouse(once) /\ once.out = <<>> /\ once.pixels \in BOOLEAN /\ once.shots = h.shots
  BY <1>1, MouseFieldNames DEF MouseBut
<1>4. CASE Pointer!Locator(h, ev) = once
  BY <1>1, <1>3, <1>4 DEF LocatorDoes, MouseBut, Reportless
<1>5. ASSUME NEW evt, NEW down,
             Pointer!Locator(h, ev) = [Pointer!mouse_report_locator(once, evt, ev.p, down) EXCEPT !.shots = @ + 1]
      PROVE  LocatorDoes(h, Pointer!Locator(h, ev))
  <2> DEFINE k == Pointer!mouse_report_locator(once, evt, ev.p, down)
             shots == k["shots"] + 1
             u == [k EXCEPT !["shots"] = shots]
  <2>1. MouseBut(once, k, {"out"}) /\ Reportless(k.out)
    BY <1>3, LocatorIs
  <2>2. Pointer!Locator(h, ev) = u
    BY <1>5
  <2> HIDE DEF k
  <2>3. MouseBut(k, u, {"shots"}) /\ u["shots"] = shots
    <3>1. IsMouse(k)
      BY <2>1 DEF MouseBut
    <3>2. "shots" \in MouseFields
      BY DEF MouseFields
    <3> HIDE DEF shots
    <3> QED BY <3>1, <3>2, OneMouseField
  <2> HIDE DEF u
  <2>4. MouseBut(h, u, {"enabled", "oneshot", "out", "shots"})
    BY <1>1, <2>1, <2>3 DEF MouseBut
  <2>5. u.out = k.out /\ u.oneshot = FALSE /\ u.enabled = (h.enabled /\ ~h.oneshot) /\ u.shots = h.shots + 1
    BY <1>1, <1>3, <2>1, <2>3, MouseFieldNames DEF MouseBut
  <2> QED BY <2>1, <2>2, <2>4, <2>5 DEF LocatorDoes
<1> QED BY <1>2, <1>4, <1>5


(* The window is told whether to send motions, and no link is active.      *)
LEMMA WindowMouse ==
    ASSUME NEW h, IsMouse(h), NEW asked
    PROVE  LET k == Pointer!window_set_mouse(h, asked) IN MouseBut(h, k, {"uri", "pressed", "asked"}) /\ k.asked = asked
<1> DEFINE f == [h EXCEPT !["uri"] = 0]
           g == [f EXCEPT !["pressed"] = FALSE]
           k == [g EXCEPT !["asked"] = asked]
<1>1. Pointer!window_set_mouse(h, asked) = k
  BY DEF Pointer!window_set_mouse, Pointer!window_set_active_uri
<1>2. MouseBut(h, f, {"uri"})
  BY OneMouseField, MouseFieldNames
<1>3. IsMouse(f)
  BY <1>2 DEF MouseBut
<1> HIDE DEF f
<1>4. MouseBut(f, g, {"pressed"})
  BY <1>3, OneMouseField, MouseFieldNames
<1>5. IsMouse(g)
  BY <1>4 DEF MouseBut
<1> HIDE DEF g
<1>6. MouseBut(g, k, {"asked"}) /\ k["asked"] = asked
  BY <1>5, OneMouseField, MouseFieldNames
<1> HIDE DEF k
<1>7. MouseBut(h, k, {"uri", "pressed", "asked"})
  BY <1>2, <1>4, <1>6 DEF MouseBut
<1> QED BY <1>1, <1>6, <1>7

(* An event that leaves the filter, which is gone then. *)
LEMMA FilterEvent ==
    ASSUME NEW h, IsMouse(h), h.out = <<>>, h.pixels \in BOOLEAN, h.exits \in Nat, NEW ev, ev.p \in Int \X Int
    PROVE  FilterDoes(h, Pointer!OutOfFilter(h, ev))
<1> DEFINE r == Pointer!mouse_report_locator(h, 10, ev.p, Pointer!Down(ev))
           asked == h.mode = "motion"
           f == [r EXCEPT !["filter"] = <<>>]
           g == Pointer!window_set_mouse(f, asked)
           exits == g["exits"] + 1
           k == [g EXCEPT !["exits"] = exits]
<1>1. Pointer!OutOfFilter(h, ev) = k
  BY DEF Pointer!OutOfFilter
<1>2. MouseBut(h, r, {"out"}) /\ Reportless(r.out)
  BY LocatorIs
<1>3. IsMouse(r)
  BY <1>2 DEF MouseBut
<1> HIDE DEF r
<1>4. MouseBut(r, f, {"filter"}) /\ f["filter"] = <<>>
  BY <1>3, OneMouseField, MouseFieldNames
<1>5. IsMouse(f)
  BY <1>4 DEF MouseBut
<1> HIDE DEF f
<1> HIDE DEF asked
<1>6. MouseBut(f, g, {"uri", "pressed", "asked"}) /\ g.asked = asked
  BY <1>5, WindowMouse
<1>7. IsMouse(g)
  BY <1>6 DEF MouseBut
<1> HIDE DEF g, exits
<1>8. MouseBut(g, k, {"exits"}) /\ k["exits"] = exits
  <2>1. "exits" \in MouseFields
    BY DEF MouseFields
  <2> QED BY <1>7, <2>1, OneMouseField
<1> HIDE DEF k
<1>9. MouseBut(h, k, {"filter", "asked", "uri", "pressed", "out", "exits"})
  BY <1>2, <1>4, <1>6, <1>8 DEF MouseBut
<1>10. k.out = r.out /\ k.filter = <<>> /\ k.asked = asked /\ k.exits = h.exits + 1
  BY <1>2, <1>4, <1>6, <1>8, MouseFieldNames DEF MouseBut, exits
<1>11. k.asked = (h.mode = "motion")
  BY <1>10 DEF asked
<1> QED BY <1>1, <1>2, <1>9, <1>10, <1>11 DEF FilterDoes

(* A report of a mouse mode. *)
LEMMA SentIs ==
    ASSUME NEW h, IsMouse(h), h.out = <<>>, NEW ev, NEW at \in Int \X Int,
           ~Pointer!Silent(h, ev, at), ~Pointer!TooFar(h, at),
           h.format # "pixel" => at[1] + 1 \in 1..MouseCols,
           at[1] + 1 > 0, at[2] + 1 > 0
    PROVE  Reported(h, ev, Pointer!Sent(h, ev, at))
<1> DEFINE rb == IF ev.event = "press" THEN Pointer!Code(h, ev) ELSE h.rb
           f == [h EXCEPT !["rb"] = rb]
           r == Pointer!Report(h, ev, at, Pointer!Code(h, ev) + Pointer!Modified(h, ev.mods))
           g == [f EXCEPT !["out"] = <<r>>]
           x == at[1]
           y == at[2]
           i == [g EXCEPT !["rx"] = x]
           k == [i EXCEPT !["ry"] = y]
<1> HIDE DEF rb
<1>1. MouseBut(h, f, {"rb"}) /\ f["rb"] = rb
  BY OneMouseField, MouseFieldNames
<1>2. IsMouse(f) /\ f.out = <<>> /\ f.format = h.format
  BY <1>1, MouseFieldNames DEF MouseBut
<1>3. Pointer!Sent(h, ev, at) = k
  <2>1. f = [h EXCEPT !.rb = IF ev.event = "press" THEN Pointer!Code(h, ev) ELSE @]
    BY DEF rb
  <2> HIDE DEF f
  <2>2. ~Pointer!TooFar(f, at)
    BY <1>2 DEF Pointer!TooFar
  <2> HIDE DEF r
  <2>3. Append(f.out, r) = <<r>>
    BY <1>2
  <2>4. Pointer!Sent(h, ev, at) = [f EXCEPT !.out = Append(@, r), !.rx = at[1], !.ry = at[2]]
    BY <2>1, <2>2 DEF Pointer!Sent, r
  <2> QED BY <2>3, <2>4
<1> HIDE DEF f, x, y
<1>4. MouseBut(f, g, {"out"}) /\ g["out"] = <<r>>
  BY <1>2, OneMouseField, MouseFieldNames
<1>5. IsMouse(g)
  BY <1>4 DEF MouseBut
<1> HIDE DEF g
<1>6. MouseBut(g, i, {"rx"}) /\ i["rx"] = x
  BY <1>5, OneMouseField, MouseFieldNames
<1>7. IsMouse(i)
  BY <1>6 DEF MouseBut
<1> HIDE DEF i
<1>8. MouseBut(i, k, {"ry"}) /\ k["ry"] = y
  BY <1>7, OneMouseField, MouseFieldNames
<1> HIDE DEF k
<1>9. MouseBut(h, k, {"rb", "out", "rx", "ry"})
  BY <1>1, <1>4, <1>6, <1>8 DEF MouseBut
<1>10. k.rb = rb /\ k.out = <<r>> /\ k.rx = at[1] /\ k.ry = at[2]
  BY <1>1, <1>4, <1>6, <1>8, MouseFieldNames DEF MouseBut, x, y
<1>11. /\ r.kind = "mouse" /\ Numbered(h, r, Pointer!Code(h, ev), Pointer!Modified(h, ev.mods))
       /\ r.x = at[1] + 1 + Pointer!Offset(h) /\ r.y = at[2] + 1 + Pointer!Offset(h)
  BY DEF Pointer!Report, Numbered
<1>12. r.up <=> h.format \in {"sgr", "pixel"} /\ ev.event = "release"
  BY Zenon DEF Pointer!Report
<1> HIDE DEF r
<1>13. h.format = "default" => at[1] \in Characters /\ at[2] \in Characters
  <2>1. at[1] \in Int /\ at[2] \in Int
    OBVIOUS
  <2>2. h.format = "default" => ~(at[1] > 222) /\ ~(at[2] > 222)
    BY Zenon DEF Pointer!TooFar
  <2>3. ASSUME NEW a \in Int, a + 1 > 0 PROVE a \in Characters \/ a > 222
    BY <2>3 DEF Characters
  <2> QED BY <2>1, <2>2, <2>3
<1>14. ev.event = "motion" => at # <<h.rx, h.ry>>
  BY DEF Pointer!Silent
<1> QED BY <1>3, <1>9, <1>10, <1>11, <1>12, <1>13, <1>14 DEF Reported, ReportOf, rb

(* An event for a mouse mode is reported, or it is one that the mode or    *)
(* the format leaves out.                                                  *)
LEMMA ReportEvent ==
    ASSUME NEW h, IsMouse(h), h.out = <<>>, h.format \in Pointer!Formats, h.program \in MousePrograms,
           h.mode \in h.program.commands, h.mode \in Pointer!Modes, h.mode # "none", NEW ev, IsEvent(h, ev)
    PROVE  LET k == Pointer!ReportMouse(h, ev) IN Reported(h, ev, k) \/ Unreported(h, ev, k)
<1> DEFINE pixel == h.format = "pixel"
           at == Pointer!adj_coords(ev.p, pixel)
<1>1. Pointer!ReportMouse(h, ev) = Pointer!ReportAt(h, ev, at)
  BY DEF Pointer!ReportMouse
<1>2. ev.p \in Int \X Int /\ ev.p \in h.program.points /\ pixel \in BOOLEAN
  BY DEF IsEvent
<1>3. /\ at \in Int \X Int
      /\ at[1] + 1 \in 1..Pointer!Width /\ at[2] + 1 \in 1..Pointer!Height
      /\ ~pixel => at[1] + 1 \in 1..MouseCols
  <2> HIDE DEF pixel
  <2> QED BY <1>2, Coordinates
<1>4. ASSUME h.mode \in Reporting, h.format = "default" PROVE at \in Characters \X Characters
  <2>1. at = Pointer!adj_coords(ev.p, FALSE)
    BY <1>4
  <2>2. h.program.commands \cap Reporting # {}
    BY <1>4
  <2> QED BY <1>2, <2>1, <2>2, MouseAssumption
<1>5. at[1] + 1 > 0 /\ at[2] + 1 > 0
  BY <1>3
<1>6. h.format # "pixel" => at[1] + 1 \in 1..MouseCols
  BY <1>3
<1> HIDE DEF at, pixel
<1>7. CASE Pointer!Silent(h, ev, at)
  <2>1. Pointer!ReportMouse(h, ev) = h
    BY <1>1, <1>7 DEF Pointer!ReportAt
  <2>2. h.mode = "x10" \/ ev.event = "motion" \/ (ev.event = "release" /\ ev.button \in {3, 4})
    BY <1>7 DEF Pointer!Silent
  <2> QED BY <2>1, <2>2 DEF Unreported
<1>8. CASE ~Pointer!Silent(h, ev, at) /\ Pointer!TooFar(h, at)
  <2> DEFINE rb == IF ev.event = "press" THEN Pointer!Code(h, ev) ELSE h.rb
             k == [h EXCEPT !["rb"] = rb]
  <2> HIDE DEF rb
  <2>1. MouseBut(h, k, {"rb"}) /\ k["rb"] = rb
    BY OneMouseField, MouseFieldNames
  <2>2. Pointer!ReportMouse(h, ev) = k
    <3>1. k.format = h.format
      BY <2>1, MouseFieldNames DEF MouseBut
    <3>2. Pointer!TooFar(k, at)
      BY <1>8, <3>1 DEF Pointer!TooFar
    <3>3. k = [h EXCEPT !.rb = IF ev.event = "press" THEN Pointer!Code(h, ev) ELSE @]
      BY DEF rb
    <3> HIDE DEF k
    <3>4. Pointer!Sent(h, ev, at) = k
      BY <3>2, <3>3 DEF Pointer!Sent
    <3> QED BY <1>1, <1>8, <3>4 DEF Pointer!ReportAt
  <2>3. h.mode \notin Reporting
    <3> SUFFICES ASSUME h.mode \in Reporting PROVE FALSE
      OBVIOUS
    <3>1. h.format = "default" /\ (at[1] > 222 \/ at[2] > 222)
      BY <1>8 DEF Pointer!TooFar
    <3>2. at[1] \in Characters /\ at[2] \in Characters
      BY <1>4, <3>1
    <3>3. \A a \in Characters : ~(a > 222)
      BY DEF Characters
    <3> QED BY <3>1, <3>2, <3>3, Zenon
  <2> HIDE DEF k
  <2> QED BY <2>1, <2>2, <2>3 DEF Unreported, rb
<1>9. CASE ~Pointer!Silent(h, ev, at) /\ ~Pointer!TooFar(h, at)
  <2>1. Pointer!ReportMouse(h, ev) = Pointer!Sent(h, ev, at)
    BY <1>1, <1>9 DEF Pointer!ReportAt
  <2>2. Reported(h, ev, Pointer!Sent(h, ev, at))
    BY <1>3, <1>5, <1>6, <1>9, SentIs
  <2> QED BY <2>1, <2>2
<1> QED BY <1>7, <1>8, <1>9


(* The link under the pointer, the selection, a paste, the view. *)
LEMMA MouseButTwice ==
    ASSUME NEW h, NEW k, NEW l, NEW A, NEW B, MouseBut(h, k, A), MouseBut(k, l, B)
    PROVE  MouseBut(h, l, A \cup B)
BY DEF MouseBut

(* Making a link active changes what is known of links. *)
LEMMA ActiveUri ==
    ASSUME NEW h, IsMouse(h), NEW uri, NEW pressed
    PROVE  MouseBut(h, Pointer!window_set_active_uri(h, uri, pressed), {"uri", "pressed"})
<1> DEFINE f == [h EXCEPT !["uri"] = uri]
           k == [f EXCEPT !["pressed"] = pressed]
<1>1. MouseBut(h, f, {"uri"})
  BY OneMouseField, MouseFieldNames
<1>2. IsMouse(f)
  BY <1>1 DEF MouseBut
<1>3. Pointer!window_set_active_uri(h, uri, pressed) = k
  BY DEF Pointer!window_set_active_uri
<1> HIDE DEF f
<1>4. MouseBut(f, k, {"pressed"})
  BY <1>2, OneMouseField, MouseFieldNames
<1> HIDE DEF k
<1> QED BY <1>1, <1>3, <1>4 DEF MouseBut

(* And so does a motion or a press. *)
LEMMA UpdateUri ==
    ASSUME NEW h, IsMouse(h), NEW ev
    PROVE  MouseBut(h, Pointer!update_active_uri(h, ev), {"uri", "pressed", "done"})
<1> DEFINE uri == Pointer!UriAt(ev.p)
           pressed == Pointer!is_button1_down(ev)
           f == Pointer!window_set_active_uri(h, uri, pressed)
           done == IF Pointer!Opens(ev) THEN "open" ELSE f.done
           k == [f EXCEPT !["done"] = done]
<1>1. Pointer!update_active_uri(h, ev) = h \/ Pointer!update_active_uri(h, ev) = k
  BY DEF Pointer!update_active_uri
<1> HIDE DEF uri, pressed
<1>2. MouseBut(h, f, {"uri", "pressed"})
  BY ActiveUri
<1>3. IsMouse(f)
  BY <1>2 DEF MouseBut
<1> HIDE DEF f, done
<1>4. MouseBut(f, k, {"done"})
  <2>1. "done" \in MouseFields
    BY DEF MouseFields
  <2> QED BY <1>3, <2>1, OneMouseField
<1> HIDE DEF k
<1>5. MouseBut(h, k, {"uri", "pressed", "done"}) /\ MouseBut(h, h, {"uri", "pressed", "done"})
  BY <1>2, <1>4 DEF MouseBut
<1> QED BY <1>1, <1>5

(* What is left to the window changes nothing that is reported. *)
LEMMA LocalEvent ==
    ASSUME NEW h, IsMouse(h), NEW ev
    PROVE  LocalDoes(h, Pointer!Local(h, ev))
<1> DEFINE k == Pointer!Local(h, ev)
           u == IF ev.event = "press" THEN Pointer!update_active_uri(h, ev) ELSE Pointer!window_set_active_uri(h, 0, FALSE)
           none == [h EXCEPT !["sel"] = "none"]
<1> SUFFICES LocalDoes(h, k)
  OBVIOUS
<1>1. \/ \E done : k = [h EXCEPT !["done"] = done]
      \/ k = Pointer!update_active_uri(none, ev)
      \/ \E sel, at : k = [[[u EXCEPT !["sel"] = sel] EXCEPT !["at"] = at] EXCEPT !["done"] = "select"]
      \/ k = Pointer!update_active_uri(h, ev)
  <2> DEFINE here == [u EXCEPT !.sel = Pointer!SelState[ev.event], !.at = ev.p, !.done = "select"]
  <2>1. here = [[[u EXCEPT !["sel"] = Pointer!SelState[ev.event]] EXCEPT !["at"] = ev.p] EXCEPT !["done"] = "select"]
    OBVIOUS
  <2>2. Pointer!Select(h, ev) = here
    BY DEF Pointer!Select
  <2> DEFINE wheel == IF "mod_1" \in ev.mods THEN "to command" ELSE IF "shift" \in ev.mods THEN "page" ELSE "scroll"
  <2>3. \/ k = [h EXCEPT !.done = wheel] \/ k = [h EXCEPT !.done = "paste"]
        \/ k = Pointer!update_active_uri([h EXCEPT !.sel = "none"], ev)
        \/ k = Pointer!Select(h, ev) \/ k = Pointer!update_active_uri(h, ev)
    BY Zenon DEF Pointer!Local
  <2> HIDE DEF here, wheel, k
  <2>4. [h EXCEPT !.sel = "none"] = none
    OBVIOUS
  <2> HIDE DEF none
  <2>5. \E sel, at : here = [[[u EXCEPT !["sel"] = sel] EXCEPT !["at"] = at] EXCEPT !["done"] = "select"]
    BY <2>1, Zenon
  <2> HIDE DEF u
  <2>6. \A done : k = [h EXCEPT !.done = done] => \E d : k = [h EXCEPT !["done"] = d]
    OBVIOUS
  <2>7. CASE k = here
    BY <2>5, <2>7, Zenon
  <2>8. CASE k = [h EXCEPT !.done = wheel] \/ k = [h EXCEPT !.done = "paste"]
    BY <2>6, <2>8, Zenon
  <2> QED BY <2>2, <2>3, <2>4, <2>7, <2>8, Zenon
<1> HIDE DEF k
<1>2. "done" \in MouseFields /\ "sel" \in MouseFields /\ "at" \in MouseFields
  BY DEF MouseFields
<1>3. ASSUME NEW done, k = [h EXCEPT !["done"] = done] PROVE LocalDoes(h, k)
  <2>1. MouseBut(h, k, {"done"})
    BY <1>2, <1>3, OneMouseField
  <2> QED BY <2>1 DEF MouseBut, LocalDoes
<1>4. CASE k = Pointer!update_active_uri(none, ev)
  <2>1. MouseBut(h, none, {"sel"})
    BY <1>2, OneMouseField
  <2>2. IsMouse(none)
    BY <2>1 DEF MouseBut
  <2> HIDE DEF none
  <2>3. MouseBut(none, k, {"uri", "pressed", "done"})
    BY <1>4, <2>2, UpdateUri
  <2>4. MouseBut(h, k, {"sel"} \cup {"uri", "pressed", "done"})
    BY <2>1, <2>3, MouseButTwice
  <2> HIDE DEF k
  <2>5. MouseBut(h, k, {"uri", "pressed", "done", "sel", "at"})
    BY <2>4 DEF MouseBut
  <2> QED BY <2>5 DEF LocalDoes
<1>5. ASSUME NEW sel, NEW at, k = [[[u EXCEPT !["sel"] = sel] EXCEPT !["at"] = at] EXCEPT !["done"] = "select"]
      PROVE  LocalDoes(h, k)
  <2> DEFINE f == [u EXCEPT !["sel"] = sel]
             g == [f EXCEPT !["at"] = at]
  <2>1. MouseBut(h, u, {"uri", "pressed", "done"})
    <3>1. MouseBut(h, Pointer!update_active_uri(h, ev), {"uri", "pressed", "done"})
      BY UpdateUri
    <3>2. MouseBut(h, Pointer!window_set_active_uri(h, 0, FALSE), {"uri", "pressed"})
      BY ActiveUri
    <3>3. MouseBut(h, Pointer!window_set_active_uri(h, 0, FALSE), {"uri", "pressed", "done"})
      BY <3>2 DEF MouseBut
    <3> QED BY <3>1, <3>3
  <2>2. IsMouse(u)
    BY <2>1 DEF MouseBut
  <2>3. k = [g EXCEPT !["done"] = "select"]
    BY <1>5
  <2> HIDE DEF u
  <2>4. MouseBut(u, f, {"sel"})
    BY <1>2, <2>2, OneMouseField
  <2>5. IsMouse(f)
    BY <2>4 DEF MouseBut
  <2> HIDE DEF f
  <2>6. MouseBut(f, g, {"at"})
    BY <1>2, <2>5, OneMouseField
  <2>7. IsMouse(g)
    BY <2>6 DEF MouseBut
  <2> HIDE DEF g
  <2>8. MouseBut(g, k, {"done"})
    BY <1>2, <2>3, <2>7, OneMouseField
  <2>9. MouseBut(h, g, {"uri", "pressed", "done", "sel", "at"})
    BY <2>1, <2>4, <2>6 DEF MouseBut
  <2> QED BY <2>8, <2>9 DEF MouseBut, LocalDoes
<1>6. CASE k = Pointer!update_active_uri(h, ev)
  <2>1. MouseBut(h, k, {"uri", "pressed", "done"})
    BY <1>6, UpdateUri
  <2> HIDE DEF k
  <2>2. MouseBut(h, k, {"uri", "pressed", "done", "sel", "at"})
    BY <2>1 DEF MouseBut
  <2> QED BY <2>2 DEF LocalDoes
<1> QED BY <1>1, <1>3, <1>4, <1>5, <1>6

(* What an event does to the mouse, in each case. *)
Fresh(v) == [v EXCEPT !.out = <<>>, !.done = "none"]

(* The reports of the step before are gone. *)
LEMMA FreshIs ==
    ASSUME NEW v, IsMouse(v)
    PROVE  MouseBut(v, Fresh(v), {"out", "done"}) /\ Fresh(v).out = <<>>
<1> DEFINE f == [v EXCEPT !["out"] = <<>>]
           k == [f EXCEPT !["done"] = "none"]
<1>1. MouseBut(v, f, {"out"}) /\ f["out"] = <<>>
  BY OneMouseField, MouseFieldNames
<1>2. IsMouse(f)
  BY <1>1 DEF MouseBut
<1>3. Fresh(v) = k
  BY DEF Fresh
<1> HIDE DEF f
<1>4. MouseBut(f, k, {"done"})
  <2>1. "done" \in MouseFields
    BY DEF MouseFields
  <2> QED BY <1>2, <2>1, OneMouseField
<1> HIDE DEF k
<1>5. MouseBut(v, k, {"out", "done"})
  BY <1>1, <1>4 DEF MouseBut
<1>6. k.out = f.out
  BY <1>4, MouseFieldNames DEF MouseBut
<1> QED BY <1>1, <1>3, <1>5, <1>6

Handled(v, ev, h, k) ==
    \/ Pointer!Locating(v) /\ v.filter = <<>> /\ v.enabled /\ LocatorDoes(h, k)
    \/ Pointer!Locating(v) /\ v.filter # <<>> /\ (k = h \/ FilterDoes(h, k))
    \/ Pointer!Tracked(v) /\ (Reported(h, ev, k) \/ Unreported(h, ev, k))
    \/ ~Pointer!Locating(v) /\ ~Pointer!Tracked(v) /\ LocalDoes(h, k)

(* mouse_handle_input() is one of these cases. *)
LEMMA HandleIs ==
    ASSUME NEW v, MouseInv(v), NEW ev, IsEvent(v, ev)
    PROVE  Handled(v, ev, Fresh(v), Pointer!mouse_handle_input(Fresh(v), ev))
<1> DEFINE h == Fresh(v)
           k == Pointer!mouse_handle_input(h, ev)
<1>1. MouseBut(v, h, {"out", "done"}) /\ h.out = <<>>
  BY FreshIs DEF MouseInv, MouseTypes
<1> HIDE DEF h
<1>2. /\ IsMouse(h) /\ h.filter = v.filter /\ h.enabled = v.enabled /\ h.force = v.force /\ h.vt52 = v.vt52 /\ h.mode = v.mode
      /\ h.pixels = v.pixels /\ h.shots = v.shots /\ h.exits = v.exits /\ h.format = v.format /\ h.program = v.program
      /\ h.held = v.held
  <2>1. "mode" \in MouseFields /\ "shots" \in MouseFields /\ "exits" \in MouseFields /\ "program" \in MouseFields
    BY DEF MouseFields
  <2> QED BY <1>1, <2>1, MouseFieldNames DEF MouseBut
<1>3. (Pointer!Locating(h) <=> Pointer!Locating(v)) /\ (Pointer!Tracked(h) <=> Pointer!Tracked(v))
  BY <1>2 DEF Pointer!Locating, Pointer!Tracked
<1>4. ev.p \in Int \X Int /\ IsEvent(h, ev)
  BY <1>2 DEF IsEvent
<1>5. h.pixels \in BOOLEAN /\ h.shots \in Nat /\ h.exits \in Nat
  BY <1>2 DEF MouseInv, MouseTypes, OnceOK
<1>6. CASE Pointer!Locating(v) /\ v.filter = <<>>
  <2>1. k = Pointer!Locator(h, ev)
    BY <1>2, <1>3, <1>6 DEF Pointer!mouse_handle_input, Pointer!ReportLocator
  <2>2. v.enabled
    BY <1>6 DEF Pointer!Locating
  <2> HIDE DEF k
  <2>3. LocatorDoes(h, k)
    BY <1>1, <1>2, <1>4, <1>5, <2>1, LocatorEvent
  <2> QED BY <1>6, <2>2, <2>3 DEF Handled, h, k
<1>7. CASE Pointer!Locating(v) /\ v.filter # <<>>
  <2>1. k = h \/ k = Pointer!OutOfFilter(h, ev)
    BY <1>2, <1>3, <1>7 DEF Pointer!mouse_handle_input, Pointer!ReportLocator
  <2> HIDE DEF k
  <2>2. k = h \/ FilterDoes(h, k)
    BY <1>1, <1>2, <1>4, <1>5, <2>1, FilterEvent
  <2> QED BY <1>7, <2>2 DEF Handled, h, k
<1>8. CASE Pointer!Tracked(v)
  <2>1. ~Pointer!Locating(v) /\ v.mode # "none"
    BY <1>8 DEF Pointer!Tracked
  <2>2. k = Pointer!ReportMouse(h, ev)
    BY <1>3, <1>8, <2>1 DEF Pointer!mouse_handle_input
  <2>3. h.format \in Pointer!Formats /\ h.program \in MousePrograms /\ h.mode \in h.program.commands /\ h.mode \in Pointer!Modes
    BY <1>2, <2>1 DEF MouseInv, MouseTypes
  <2> HIDE DEF k
  <2>4. Reported(h, ev, k) \/ Unreported(h, ev, k)
    BY <1>1, <1>2, <1>4, <2>1, <2>2, <2>3, ReportEvent
  <2> QED BY <1>8, <2>4 DEF Handled, h, k
<1>9. CASE ~Pointer!Locating(v) /\ ~Pointer!Tracked(v)
  <2>1. k = Pointer!Local(h, ev)
    BY <1>3, <1>9 DEF Pointer!mouse_handle_input
  <2> HIDE DEF k
  <2>2. LocalDoes(h, k)
    BY <1>2, <2>1, LocalEvent
  <2> QED BY <1>9, <2>2 DEF Handled, h, k
<1> QED BY <1>6, <1>7, <1>8, <1>9


(* What is kept of an event. *)
ToldBy(v, k, ev) ==
    IF Pointer!Tracked(v) /\ v.mode # "x10"
    THEN IF k.out = <<>> THEN v.told ELSE Pointer!Told(v.told, Pointer!Held(v, ev), k.out[1], ev.button)
    ELSE Pointer!Held(v, ev)
CleanBy(v, k, ev) ==
    IF ev.event # "press" THEN k.clean ELSE Pointer!Tracked(v) /\ k.out # <<>> /\ v.held = {} /\ ev.button < 3

(* What is kept are the buttons, the position and the reports. *)
LEMMA CountedIs ==
    ASSUME NEW v, IsMouse(v), NEW k, IsMouse(k), k.last = v.last, NEW ev
    PROVE  LET w == Pointer!Counted(v, k, ev) IN
           /\ MouseBut(k, w, {"held", "p", "n", "last", "told", "clean"})
           /\ w.held = Pointer!Held(v, ev) /\ w.p = ev.p /\ w.last = Latest(v)
           /\ w.told = ToldBy(v, k, ev) /\ w.clean = CleanBy(v, k, ev)
<1> DEFINE a == Pointer!Held(v, ev)
           b == ev.p
           c == k.n + 1
           d == IF v.out = <<>> THEN k.last ELSE v.out
           e == ToldBy(v, k, ev)
           g == CleanBy(v, k, ev)
           w == [k EXCEPT !.held = a, !.p = b, !.n = c, !.last = d, !.told = e, !.clean = g]
<1>1. Pointer!Counted(v, k, ev) = w
  BY DEF Pointer!Counted, ToldBy, CleanBy
<1>2. d = Latest(v)
  BY DEF Latest
<1> HIDE DEF a, b, c, d, e, g
<1>3. DOMAIN w = MouseFields /\ \A f \in MouseFields \ {"held", "p", "n", "last", "told", "clean"} : w[f] = k[f]
  BY DEF IsMouse
<1>4. w = [f \in MouseFields |-> w[f]]
  BY DEF IsMouse
<1>5. w.held = a /\ w.p = b /\ w.last = d /\ w.told = e /\ w.clean = g
  BY DEF IsMouse, MouseFields
<1> HIDE DEF w
<1>6. MouseBut(k, w, {"held", "p", "n", "last", "told", "clean"})
  BY <1>3, <1>4 DEF MouseBut, IsMouse
<1> QED BY <1>1, <1>2, <1>5, <1>6 DEF a, b, e, g


(* An event, by what was on: a locator, a filter or nothing, or a mode     *)
(* that reports it or does not.                                            *)
Common(v, ev, w) ==
    /\ IsMouse(w) /\ w.p = ev.p /\ w.held = Pointer!Held(v, ev) /\ w.last = Latest(v)
    /\ w.program = v.program /\ w.format = v.format /\ w.mode = v.mode /\ w.force = v.force /\ w.vt52 = v.vt52
    /\ w.pixels = v.pixels /\ w.oneshots = v.oneshots
Untold(v, ev, w) ==
    /\ Reportless(w.out) /\ w.told = w.held /\ (w.clean => ev.event # "press" /\ v.clean)
    /\ w.rb = v.rb /\ w.rx = v.rx /\ w.ry = v.ry
AsLocator(v, ev, w) ==
    /\ Untold(v, ev, w) /\ v.filter = <<>> /\ w.filter = v.filter /\ w.asked = v.asked /\ w.exits = v.exits
    /\ v.enabled /\ w.oneshot = FALSE /\ w.enabled = (v.enabled /\ ~v.oneshot) /\ w.shots \in {v.shots, v.shots + 1}
AsFilter(v, ev, w) ==
    /\ Untold(v, ev, w) /\ w.enabled = v.enabled /\ w.oneshot = v.oneshot /\ w.shots = v.shots
    /\ \/ w.filter = v.filter /\ w.asked = v.asked /\ w.exits = v.exits
       \/ v.filter # <<>> /\ w.filter = <<>> /\ w.asked = (v.mode = "motion") /\ w.exits = v.exits + 1
SameLocator(v, w) ==
    /\ w.enabled = v.enabled /\ w.oneshot = v.oneshot /\ w.shots = v.shots
    /\ w.filter = v.filter /\ w.asked = v.asked /\ w.exits = v.exits
AsReport(v, ev, w, at, r) ==
    /\ Pointer!Tracked(v) /\ SameLocator(v, w) /\ ReportOf(v, ev, w, at, r)
    /\ w.told = IF v.mode # "x10" THEN Pointer!Told(v.told, w.held, r, ev.button) ELSE w.held
    /\ w.clean => IF ev.event # "press" THEN v.clean ELSE v.held = {} /\ ev.button < 3
AsNothing(v, ev, w) ==
    /\ Pointer!Tracked(v) /\ SameLocator(v, w) /\ w.out = <<>> /\ w.rx = v.rx /\ w.ry = v.ry
    /\ w.rb = v.rb \/ (ev.event = "press" /\ w.rb = Pointer!Code(v, ev))
    /\ IF v.mode = "x10" THEN w.told = w.held
       ELSE w.told = v.told /\ (ev.event = "motion" \/ (ev.event = "release" /\ ev.button \in {3, 4}))
    /\ w.clean => ev.event # "press" /\ v.clean
EventDoes(v, ev, w) ==
    /\ Common(v, ev, w)
    /\ \/ AsLocator(v, ev, w) \/ AsFilter(v, ev, w) \/ AsNothing(v, ev, w)
       \/ \E at \in Int \X Int : \E r : AsReport(v, ev, w, at, r)

(* Every event is one of these. *)
LEMMA EventIs ==
    ASSUME NEW v, MouseInv(v), NEW ev, IsEvent(v, ev)
    PROVE  EventDoes(v, ev, Pointer!Counted(v, Pointer!mouse_handle_input(Fresh(v), ev), ev))
<1> DEFINE h == Fresh(v)
           k == Pointer!mouse_handle_input(h, ev)
           w == Pointer!Counted(v, k, ev)
<1>1. MouseBut(v, h, {"out", "done"}) /\ h.out = <<>>
  BY FreshIs DEF MouseInv, MouseTypes
<1>2. Handled(v, ev, h, k)
  BY HandleIs
<1> HIDE DEF h, k
<1>3. IsMouse(k) /\ k.last = v.last /\ k.program = v.program /\ k.format = v.format /\ k.mode = v.mode /\ k.force = v.force
      /\ k.vt52 = v.vt52 /\ k.pixels = v.pixels /\ k.oneshots = v.oneshots /\ k.clean = v.clean
  <2> DEFINE kept == {"last", "program", "format", "mode", "force", "vt52", "pixels", "oneshots", "clean"}
  <2>1. kept \subseteq MouseFields
    BY DEF MouseFields
  <2>2. IsMouse(h) /\ \A f \in kept : h[f] = v[f]
    BY <1>1, <2>1 DEF MouseBut
  <2>3. IsMouse(k) /\ \A f \in kept : k[f] = h[f]
    <3>1. MouseBut(h, k, MouseFields \ kept)
      <4>1. CASE k = h
        BY <2>2, <4>1 DEF MouseBut
      <4>2. CASE LocatorDoes(h, k)
        BY <4>2 DEF LocatorDoes, MouseBut, MouseFields
      <4>3. CASE FilterDoes(h, k)
        BY <4>3 DEF FilterDoes, MouseBut, MouseFields
      <4>4. CASE LocalDoes(h, k)
        BY <4>4 DEF LocalDoes, MouseBut, MouseFields
      <4>5. CASE Reported(h, ev, k)
        BY <4>5 DEF Reported, MouseBut, MouseFields
      <4>6. CASE Unreported(h, ev, k)
        BY <2>2, <4>6 DEF Unreported, MouseBut, MouseFields
      <4> QED BY <1>2, <4>1, <4>2, <4>3, <4>4, <4>5, <4>6 DEF Handled
    <3> QED BY <2>1, <3>1 DEF MouseBut
  <2> QED BY <2>2, <2>3
<1>4. /\ MouseBut(k, w, {"held", "p", "n", "last", "told", "clean"})
      /\ w.held = Pointer!Held(v, ev) /\ w.p = ev.p /\ w.last = Latest(v)
      /\ w.told = ToldBy(v, k, ev) /\ w.clean = CleanBy(v, k, ev)
  <2>1. IsMouse(v)
    BY DEF MouseInv, MouseTypes
  <2> QED BY <1>3, <2>1, CountedIs
<1> HIDE DEF w
<1>5. /\ w.enabled = k.enabled /\ w.oneshot = k.oneshot /\ w.shots = k.shots /\ w.filter = k.filter /\ w.asked = k.asked
      /\ w.exits = k.exits /\ w.rb = k.rb /\ w.rx = k.rx /\ w.ry = k.ry /\ w.out = k.out
  BY <1>4 DEF MouseBut, MouseFields
<1>6. /\ h.enabled = v.enabled /\ h.oneshot = v.oneshot /\ h.shots = v.shots /\ h.filter = v.filter /\ h.asked = v.asked
      /\ h.exits = v.exits /\ h.rb = v.rb /\ h.rx = v.rx /\ h.ry = v.ry /\ h.mode = v.mode /\ h.format = v.format
  BY <1>1 DEF MouseBut, MouseFields
<1>7. Common(v, ev, w)
  <2>1. /\ w.program = k.program /\ w.format = k.format /\ w.mode = k.mode /\ w.force = k.force /\ w.vt52 = k.vt52
        /\ w.pixels = k.pixels /\ w.oneshots = k.oneshots /\ IsMouse(w)
    BY <1>4 DEF MouseBut, MouseFields
  <2> QED BY <1>3, <1>4, <2>1 DEF Common
<1>8. ASSUME ~Pointer!Tracked(v) PROVE w.told = w.held /\ (w.clean => ev.event # "press" /\ v.clean)
  <2>1. w.told = w.held
    BY <1>4, <1>8 DEF ToldBy
  <2>2. w.clean => ev.event # "press" /\ v.clean
    BY <1>3, <1>4, <1>8, Zenon DEF CleanBy
  <2> QED BY <2>1, <2>2
<1>9. CASE Pointer!Locating(v) /\ v.filter = <<>> /\ v.enabled /\ LocatorDoes(h, k)
  <2>1. ~Pointer!Tracked(v)
    BY <1>9 DEF Pointer!Tracked
  <2>2. /\ k.filter = h.filter /\ k.asked = h.asked /\ k.exits = h.exits /\ k.rb = h.rb /\ k.rx = h.rx /\ k.ry = h.ry
    BY <1>9 DEF LocatorDoes, MouseBut, MouseFields
  <2>3. Reportless(k.out) /\ k.oneshot = FALSE /\ k.enabled = (h.enabled /\ ~h.oneshot) /\ k.shots \in {h.shots, h.shots + 1}
    BY <1>9, Zenon DEF LocatorDoes
  <2>4. w.enabled = (v.enabled /\ ~v.oneshot)
    BY <1>5, <1>6, <2>3, Zenon
  <2>5. Untold(v, ev, w)
    BY <1>5, <1>6, <1>8, <2>1, <2>2, <2>3 DEF Untold
  <2>6. v.enabled /\ v.filter = <<>>
    BY <1>9
  <2>7. w.shots \in {v.shots, v.shots + 1} /\ w.oneshot = FALSE
    BY <1>5, <1>6, <2>3
  <2>8. w.filter = v.filter /\ w.asked = v.asked /\ w.exits = v.exits
    BY <1>5, <1>6, <2>2
  <2>9. AsLocator(v, ev, w)
    BY <2>4, <2>5, <2>6, <2>7, <2>8, Zenon DEF AsLocator
  <2> QED BY <1>7, <2>9, Zenon DEF EventDoes, w, k, h
<1>10. CASE Pointer!Locating(v) /\ v.filter # <<>> /\ FilterDoes(h, k)
  <2>1. ~Pointer!Tracked(v)
    BY <1>10 DEF Pointer!Tracked
  <2>2. k.enabled = h.enabled /\ k.oneshot = h.oneshot /\ k.shots = h.shots /\ k.rb = h.rb /\ k.rx = h.rx /\ k.ry = h.ry
    BY <1>10 DEF FilterDoes, MouseBut, MouseFields
  <2>3. Reportless(k.out) /\ k.filter = <<>> /\ k.asked = (h.mode = "motion") /\ k.exits = h.exits + 1
    BY <1>10, Zenon DEF FilterDoes
  <2>4. Untold(v, ev, w)
    BY <1>5, <1>6, <1>8, <2>1, <2>2, <2>3 DEF Untold
  <2>5. w.asked = (v.mode = "motion")
    BY <1>5, <1>6, <2>3, Zenon
  <2>6. w.filter = <<>> /\ w.exits = v.exits + 1 /\ w.enabled = v.enabled /\ w.oneshot = v.oneshot /\ w.shots = v.shots
    BY <1>5, <1>6, <2>2, <2>3
  <2>7. AsFilter(v, ev, w)
    BY <1>10, <2>4, <2>5, <2>6, Zenon DEF AsFilter
  <2> QED BY <1>7, <2>7, Zenon DEF EventDoes, w, k, h
<1>11. CASE ~Pointer!Tracked(v) /\ (k = h \/ LocalDoes(h, k))
  <2>1. /\ k.enabled = h.enabled /\ k.oneshot = h.oneshot /\ k.shots = h.shots /\ k.rb = h.rb /\ k.rx = h.rx /\ k.ry = h.ry
        /\ k.filter = h.filter /\ k.asked = h.asked /\ k.exits = h.exits /\ k.out = <<>>
    BY <1>1, <1>11 DEF LocalDoes, MouseBut, MouseFields
  <2>2. Untold(v, ev, w)
    BY <1>5, <1>6, <1>8, <1>11, <2>1 DEF Untold, Reportless
  <2>3. /\ w.enabled = v.enabled /\ w.oneshot = v.oneshot /\ w.shots = v.shots
        /\ w.filter = v.filter /\ w.asked = v.asked /\ w.exits = v.exits
    BY <1>5, <1>6, <2>1
  <2>4. AsFilter(v, ev, w)
    BY <2>2, <2>3, Zenon DEF AsFilter
  <2> QED BY <1>7, <2>4, Zenon DEF EventDoes, w, k, h
<1>12. Pointer!Code(h, ev) = Pointer!Code(v, ev)
  BY <1>6 DEF Pointer!Code
<1>13. CASE Pointer!Tracked(v) /\ Reported(h, ev, k)
  <2>0. PICK at \in Int \X Int : \E r : ReportOf(h, ev, k, at, r)
    BY <1>13, Zenon DEF Reported
  <2>1. PICK r : ReportOf(h, ev, k, at, r)
    BY <2>0
  <2>2. ReportOf(v, ev, w, at, r)
    <3>1. /\ Pointer!Offset(h) = Pointer!Offset(v) /\ Pointer!ButtonOffset(h) = Pointer!ButtonOffset(v)
          /\ Pointer!Modified(h, ev.mods) = Pointer!Modified(v, ev.mods)
      BY <1>6 DEF Pointer!Offset, Pointer!ButtonOffset, Pointer!Modified
    <3>2. Numbered(v, r, Pointer!Code(v, ev), Pointer!Modified(v, ev.mods))
      BY <1>6, <1>12, <2>1, <3>1 DEF ReportOf, Numbered
    <3>3. w.rb = IF ev.event = "press" THEN Pointer!Code(v, ev) ELSE v.rb
      BY <1>5, <1>6, <1>12, <2>1 DEF ReportOf
    <3>4. w.out = <<r>> /\ w.rx = at[1] /\ w.ry = at[2] /\ r.kind = "mouse"
      BY <1>5, <2>1, Zenon DEF ReportOf
    <3>5. r.up <=> v.format \in {"sgr", "pixel"} /\ ev.event = "release"
      BY <1>6, <2>1, Zenon DEF ReportOf
    <3>6. r.x = at[1] + 1 + Pointer!Offset(v) /\ r.y = at[2] + 1 + Pointer!Offset(v)
      BY <2>1, <3>1, Zenon DEF ReportOf
    <3>7. /\ v.format # "pixel" => at[1] + 1 \in 1..MouseCols
          /\ v.format = "default" => at[1] \in Characters /\ at[2] \in Characters
      BY <1>6, <2>1, Zenon DEF ReportOf
    <3>8. ev.event = "motion" => at # <<v.rx, v.ry>>
      BY <1>6, <2>1 DEF ReportOf
    <3> QED BY <3>2, <3>3, <3>4, <3>5, <3>6, <3>7, <3>8, Zenon DEF ReportOf
  <2>3. SameLocator(v, w)
    <3>1. /\ k.enabled = h.enabled /\ k.oneshot = h.oneshot /\ k.shots = h.shots
          /\ k.filter = h.filter /\ k.asked = h.asked /\ k.exits = h.exits
      BY <1>13 DEF Reported, MouseBut, MouseFields
    <3> QED BY <1>5, <1>6, <3>1 DEF SameLocator
  <2>4. k.out = <<r>> /\ k.out # <<>> /\ k.out[1] = r
    <3>1. k.out = <<r>>
      BY <2>1, Zenon DEF ReportOf
    <3>2. <<r>> # <<>> /\ <<r>>[1] = r
      OBVIOUS
    <3> QED BY <3>1, <3>2
  <2>5. w.told = IF v.mode # "x10" THEN Pointer!Told(v.told, w.held, r, ev.button) ELSE w.held
    BY <1>4, <1>13, <2>4 DEF ToldBy
  <2>6. w.clean => IF ev.event # "press" THEN v.clean ELSE v.held = {} /\ ev.button < 3
    BY <1>3, <1>4, Zenon DEF CleanBy
  <2>7. AsReport(v, ev, w, at, r)
    BY <1>13, <2>2, <2>3, <2>5, <2>6, Zenon DEF AsReport
  <2> QED BY <1>7, <2>7, Zenon DEF EventDoes, w, k, h
<1>14. CASE Pointer!Tracked(v) /\ Unreported(h, ev, k)
  <2>1. /\ k.enabled = h.enabled /\ k.oneshot = h.oneshot /\ k.shots = h.shots /\ k.rx = h.rx /\ k.ry = h.ry
        /\ k.filter = h.filter /\ k.asked = h.asked /\ k.exits = h.exits /\ k.out = <<>>
    BY <1>1, <1>14 DEF Unreported, MouseBut, MouseFields
  <2>2. k.rb = h.rb \/ (ev.event = "press" /\ k.rb = Pointer!Code(h, ev))
    BY <1>14, Zenon DEF Unreported
  <2>3. w.rb = v.rb \/ (ev.event = "press" /\ w.rb = Pointer!Code(v, ev))
    BY <1>5, <1>6, <1>12, <2>2
  <2>4. SameLocator(v, w) /\ w.out = <<>> /\ w.rx = v.rx /\ w.ry = v.ry
    BY <1>5, <1>6, <2>1 DEF SameLocator
  <2>5. w.told = IF v.mode = "x10" THEN w.held ELSE v.told
    BY <1>4, <1>14, <2>1 DEF ToldBy
  <2>6. v.mode # "x10" => ev.event = "motion" \/ (ev.event = "release" /\ ev.button \in {3, 4})
    <3>1. v.mode \in {"none", "x10", "button", "drag", "motion"} /\ v.mode # "none"
      BY <1>14 DEF MouseInv, MouseTypes, Pointer!Modes, Pointer!Tracked
    <3>2. v.mode # "x10" => v.mode \in Reporting
      BY <3>1 DEF Reporting
    <3> QED BY <1>6, <1>14, <3>2, Zenon DEF Unreported
  <2>7. w.clean => ev.event # "press" /\ v.clean
    BY <1>3, <1>4, <2>1, Zenon DEF CleanBy
  <2>8. AsNothing(v, ev, w)
    BY <1>14, <2>3, <2>4, <2>5, <2>6, <2>7 DEF AsNothing
  <2> QED BY <1>7, <2>8, Zenon DEF EventDoes, w, k, h
<1> QED BY <1>2, <1>9, <1>10, <1>11, <1>13, <1>14, Zenon DEF Handled, Pointer!Tracked


(* The buttons that are held, and the one of the reports. *)
LEMMA HeldIs ==
    ASSUME NEW v, v.held \subseteq {0, 1, 2}, NEW ev, IsEvent(v, ev)
    PROVE  /\ Pointer!Held(v, ev) \subseteq {0, 1, 2}
           /\ ev.event # "press" => Pointer!Held(v, ev) \subseteq v.held
           /\ ev.event = "motion" => Pointer!Held(v, ev) = v.held
           /\ ev.event = "press" => Pointer!Held(v, ev) = IF ev.button < 3 THEN v.held \cup {ev.button} ELSE v.held
           /\ ev.event = "release" => Pointer!Held(v, ev) = v.held \ {ev.button}
           /\ ev.event = "release" /\ ev.button > 2 => Pointer!Held(v, ev) = v.held
<1>1. ev.event \in {"press", "release", "motion"} /\ ev.button \in 0..10
  BY DEF IsEvent, MouseButtons
<1> QED BY <1>1 DEF Pointer!Held

(* A press has the number of its button. *)
LEMMA PressCodeIs ==
    ASSUME NEW v, NEW ev, IsEvent(v, ev), ev.event = "press"
    PROVE  Pointer!Code(v, ev) \in PressCodes /\ (ev.button < 3 => Pointer!Code(v, ev) = ev.button)
<1>1. ev.button \in 0..10
  BY DEF IsEvent, MouseButtons
<1>2. IF ev.button > 2 THEN Pointer!Code(v, ev) \in OtherCodes ELSE Pointer!Code(v, ev) = ev.button
  BY CodeIs DEF IsEvent
<1> QED BY <1>1, <1>2 DEF PressCodes

(* The cardinality that Mouse has is the usual one. *)
LEMMA SamePointerCount == \A S : Pointer!Cardinality(S) = Cardinality(S)
BY Zenon DEF Pointer!Cardinality, Cardinality

(* What a report says is down is what is held.                             *)
LEMMA ToldIs ==
    ASSUME NEW v, MouseInv(v), NEW ev, IsEvent(v, ev), NEW r,
           Numbered(v, r, Pointer!Code(v, ev), Pointer!Modified(v, ev.mods)),
           r.up <=> v.format \in {"sgr", "pixel"} /\ ev.event = "release"
    PROVE  Pointer!Told(v.told, Pointer!Held(v, ev), r, ev.button) = Pointer!Held(v, ev)
<1> DEFINE code == Pointer!Code(v, ev)
           sum == Pointer!Modified(v, ev.mods)
           held == Pointer!Held(v, ev)
<1> SUFFICES Pointer!Told(v.told, held, r, ev.button) = held
  OBVIOUS
<1>1. v.told = v.held /\ v.held \subseteq {0, 1, 2} /\ v.rb \in PressCodes
  BY DEF MouseInv, ButtonsOK, MouseTypes
<1>2. sum \in ModifierSums
  BY ModifiedIs
<1>3. ev.button \in 0..10 /\ ev.button \in Int /\ ev.event \in {"press", "release", "motion"} /\ ev.mods \subseteq Modifiers
  BY DEF IsEvent, MouseButtons
<1>4. Numbered(v, r, code, sum)
  OBVIOUS
<1>5. ev.button > 2 \/ ev.button \in {0, 1, 2}
  BY <1>3
<1> HIDE DEF sum
<1>6. CASE ev.event = "motion"
  <2> DEFINE k == IF ev.down = {} THEN 3 ELSE v.rb
  <2>1. code = 32 + k
    BY <1>6, CodeIs DEF IsEvent
  <2>2. k \in PressCodes \cup {3}
    BY <1>1
  <2> HIDE DEF k, code
  <2>3. Pointer!IsMotion(r)
    BY <1>2, <1>4, <2>1, <2>2, MotionReport
  <2>4. held = v.held
    BY <1>1, <1>6, HeldIs
  <2> QED BY <1>1, <2>3, <2>4 DEF Pointer!Told
<1>7. CASE ev.event = "press" /\ ev.button > 2
  <2>1. code \in OtherCodes
    BY <1>7, CodeIs DEF IsEvent
  <2> HIDE DEF code
  <2>2. Pointer!IsWheel(r)
    BY <1>2, <1>4, <2>1, OtherReport
  <2>3. held = v.held
    BY <1>1, <1>3, <1>7, HeldIs
  <2> QED BY <1>1, <2>2, <2>3 DEF Pointer!Told
<1>8. CASE ev.event = "press" /\ ev.button \in {0, 1, 2}
  <2>1. code = ev.button /\ code \in 0..3 /\ code # 3
    <3>1. ~(ev.button > 2)
      BY <1>8
    <3>2. code = ev.button
      BY <1>8, <3>1, CodeIs DEF IsEvent
    <3> QED BY <1>8, <3>2
  <2> HIDE DEF code
  <2>2. ~Pointer!IsMotion(r) /\ ~Pointer!IsWheel(r) /\ Pointer!Button(r) = code
    BY <1>2, <1>4, <2>1, ButtonReport
  <2>3. held = v.held \cup {ev.button}
    BY <1>1, <1>8, HeldIs
  <2>4. ~(r.up /\ r.format = "sgr")
    BY <1>8
  <2> HIDE DEF held
  <2> QED BY <1>1, <2>1, <2>2, <2>3, <2>4 DEF Pointer!Told
<1>9. CASE ev.event = "release" /\ v.format = "sgr" /\ ev.button > 2
  <2>1. code \in OtherCodes
    BY <1>9, CodeIs DEF IsEvent
  <2> HIDE DEF code
  <2>2. Pointer!IsWheel(r)
    BY <1>2, <1>4, <2>1, OtherReport
  <2>3. held = v.held
    BY <1>1, <1>9, HeldIs
  <2> QED BY <1>1, <2>2, <2>3 DEF Pointer!Told
<1>10. CASE ev.event = "release" /\ v.format = "sgr" /\ ev.button \in {0, 1, 2}
  <2>1. code = ev.button /\ code \in 0..3
    <3>1. ~(ev.button > 2)
      BY <1>10
    <3>2. code = ev.button
      BY <1>10, <3>1, CodeIs DEF IsEvent
    <3> QED BY <1>10, <3>2
  <2> HIDE DEF code
  <2>2. ~Pointer!IsMotion(r) /\ ~Pointer!IsWheel(r) /\ Pointer!Button(r) = code
    BY <1>2, <1>4, <2>1, ButtonReport
  <2>3. held = v.held \ {ev.button}
    BY <1>1, <1>10, HeldIs
  <2>4. r.up /\ r.format = "sgr"
    BY <1>10 DEF Numbered
  <2> HIDE DEF held
  <2> QED BY <1>1, <2>1, <2>2, <2>3, <2>4 DEF Pointer!Told
<1>11. CASE ev.event = "release" /\ v.format # "sgr"
  <2>1. code = 3 /\ 3 \in 0..3
    BY <1>11, CodeIs DEF IsEvent
  <2> HIDE DEF code
  <2>2. ~Pointer!IsMotion(r) /\ ~Pointer!IsWheel(r) /\ Pointer!Button(r) = 3
    BY <1>2, <1>4, <2>1, ButtonReport
  <2>3. held = v.held \ {ev.button}
    BY <1>1, <1>11, HeldIs
  <2>4. ~(r.up /\ r.format = "sgr")
    BY <1>11 DEF Numbered
  <2>5. Pointer!Told(v.told, held, r, ev.button) = IF Cardinality(v.told) <= 1 /\ ev.button < 3 THEN {} ELSE held
    BY <2>2, <2>4, SamePointerCount DEF Pointer!Told
  <2>6. ASSUME Cardinality(v.told) <= 1, ev.button < 3 PROVE held = {}
    <3>1. ev.button \in v.held
      BY <1>3, <1>11, <2>6 DEF IsEvent
    <3>2. ASSUME NEW b \in v.held, b # ev.button PROVE FALSE
      <4>1. {b, ev.button} \subseteq v.told /\ IsFiniteSet(v.told)
        <5>1. IsFiniteSet(0..2)
          BY FS_Interval, 0 \in Int, 2 \in Int, Zenon
        <5>2. v.told \subseteq 0..2
          BY <1>1
        <5> QED BY <1>1, <3>1, <5>1, <5>2, FS_Subset
      <4>2. Cardinality({b, ev.button}) = 2
        <5>1. IsFiniteSet({ev.button}) /\ Cardinality({ev.button}) = 1
          BY FS_Singleton
        <5>2. b \notin {ev.button}
          BY <3>2
        <5>3. Cardinality({ev.button} \cup {b}) = 2
          BY <5>1, <5>2, FS_AddElement
        <5>4. {ev.button} \cup {b} = {b, ev.button}
          OBVIOUS
        <5> QED BY <5>3, <5>4
      <4>3. Cardinality({b, ev.button}) <= Cardinality(v.told)
        BY <4>1, FS_Subset
      <4>4. Cardinality(v.told) \in Nat
        BY <4>1, FS_CardinalityType
      <4> QED BY <2>6, <4>2, <4>3, <4>4
    <3> QED BY <2>3, <3>2
  <2> HIDE DEF held
  <2> QED BY <2>5, <2>6
<1> QED BY <1>3, <1>5, <1>6, <1>7, <1>8, <1>9, <1>10, <1>11


(* An event keeps the invariant, part by part. *)
LEMMA TypesKept ==
    ASSUME NEW v, MouseInv(v), NEW ev, IsEvent(v, ev), NEW w, EventDoes(v, ev, w)
    PROVE  MouseTypes(w)
<1>1. MouseTypes(v) /\ Common(v, ev, w)
  BY Zenon DEF MouseInv, EventDoes
<1>2. IsMouse(w) /\ w.program \in MousePrograms /\ w.p \in Int \X Int /\ w.format \in Pointer!Formats
  BY <1>1 DEF MouseTypes, Common, IsEvent
<1>3. w.mode \in Pointer!Modes /\ w.mode \in w.program.commands \cup {"none"} /\ w.pixels \in BOOLEAN
  BY <1>1 DEF MouseTypes, Common
<1>4. v.rx \in Int /\ v.ry \in Int /\ v.rb \in PressCodes
  BY <1>1 DEF MouseTypes
<1>5. CASE AsLocator(v, ev, w) \/ AsFilter(v, ev, w)
  <2>1. w.rb = v.rb /\ w.rx = v.rx /\ w.ry = v.ry
    BY <1>5, Zenon DEF AsLocator, AsFilter, Untold
  <2> QED BY <1>2, <1>3, <1>4, <2>1 DEF MouseTypes
<1>6. CASE AsNothing(v, ev, w)
  <2>1. w.rx = v.rx /\ w.ry = v.ry /\ (w.rb = v.rb \/ (ev.event = "press" /\ w.rb = Pointer!Code(v, ev)))
    BY <1>6, Zenon DEF AsNothing
  <2>2. w.rb \in PressCodes
    BY <1>4, <2>1, PressCodeIs
  <2> QED BY <1>2, <1>3, <1>4, <2>1, <2>2 DEF MouseTypes
<1>7. ASSUME NEW at \in Int \X Int, NEW r, AsReport(v, ev, w, at, r) PROVE MouseTypes(w)
  <2>1. ReportOf(v, ev, w, at, r)
    BY <1>7, Zenon DEF AsReport
  <2>2. w.rx = at[1] /\ w.ry = at[2] /\ w.rb = IF ev.event = "press" THEN Pointer!Code(v, ev) ELSE v.rb
    BY <2>1, Zenon DEF ReportOf
  <2>3. w.rx \in Int /\ w.ry \in Int
    BY <2>2
  <2>4. w.rb \in PressCodes
    BY <1>4, <2>2, PressCodeIs
  <2> QED BY <1>2, <1>3, <2>3, <2>4 DEF MouseTypes
<1> QED BY <1>5, <1>6, <1>7, Zenon DEF EventDoes

(* The buttons that are told. *)
LEMMA ButtonsKept ==
    ASSUME NEW v, MouseInv(v), NEW ev, IsEvent(v, ev), NEW w, EventDoes(v, ev, w)
    PROVE  ButtonsOK(w)
<1>1. ButtonsOK(v) /\ Common(v, ev, w)
  BY Zenon DEF MouseInv, EventDoes
<1>2. w.held = Pointer!Held(v, ev) /\ v.held \subseteq {0, 1, 2} /\ v.told = v.held
  BY <1>1 DEF ButtonsOK, Common
<1>3. w.held \subseteq {0, 1, 2} /\ (ev.event # "press" => w.held \subseteq v.held)
  BY <1>2, HeldIs
<1>4. ASSUME w.clean => ev.event # "press" /\ v.clean, ev.event # "press" => w.rb = v.rb
      PROVE  w.clean => w.held \subseteq {w.rb}
  BY <1>1, <1>3, <1>4 DEF ButtonsOK
<1>5. CASE AsLocator(v, ev, w) \/ AsFilter(v, ev, w)
  <2>1. w.told = w.held /\ (w.clean => ev.event # "press" /\ v.clean) /\ w.rb = v.rb
    BY <1>5, Zenon DEF AsLocator, AsFilter, Untold
  <2> QED BY <1>3, <1>4, <2>1 DEF ButtonsOK
<1>6. CASE AsNothing(v, ev, w)
  <2>1. (w.clean => ev.event # "press" /\ v.clean) /\ (ev.event # "press" => w.rb = v.rb)
    BY <1>6, Zenon DEF AsNothing
  <2>2. CASE v.mode = "x10"
    <3>1. w.told = w.held
      BY <1>6, <2>2, Zenon DEF AsNothing
    <3> QED BY <1>3, <1>4, <2>1, <3>1 DEF ButtonsOK
  <2>3. CASE v.mode # "x10"
    <3>1. w.told = v.told /\ (ev.event = "motion" \/ (ev.event = "release" /\ ev.button \in {3, 4}))
      BY <1>6, <2>3, Zenon DEF AsNothing
    <3>2. ev.event = "release" /\ ev.button \in {3, 4} => ev.event = "release" /\ ev.button > 2
      OBVIOUS
    <3>3. w.held = v.held
      BY <1>2, <3>1, <3>2, HeldIs
    <3>4. w.told = w.held
      BY <1>2, <3>1, <3>3
    <3> QED BY <1>3, <1>4, <2>1, <3>4 DEF ButtonsOK
  <2> QED BY <2>2, <2>3
<1>7. ASSUME NEW at \in Int \X Int, NEW r, AsReport(v, ev, w, at, r) PROVE ButtonsOK(w)
  <2>1. ReportOf(v, ev, w, at, r)
    BY <1>7, Zenon DEF AsReport
  <2>2. w.rb = IF ev.event = "press" THEN Pointer!Code(v, ev) ELSE v.rb
    BY <2>1, Zenon DEF ReportOf
  <2>3. w.told = w.held
    <3>1. w.told = IF v.mode # "x10" THEN Pointer!Told(v.told, w.held, r, ev.button) ELSE w.held
      BY <1>7, Zenon DEF AsReport
    <3>2. /\ Numbered(v, r, Pointer!Code(v, ev), Pointer!Modified(v, ev.mods))
          /\ r.up <=> v.format \in {"sgr", "pixel"} /\ ev.event = "release"
      BY <2>1, Zenon DEF ReportOf
    <3>3. Pointer!Told(v.told, Pointer!Held(v, ev), r, ev.button) = Pointer!Held(v, ev)
      BY <3>2, ToldIs
    <3> QED BY <1>2, <3>1, <3>3
  <2>4. w.clean => IF ev.event # "press" THEN v.clean ELSE v.held = {} /\ ev.button < 3
    BY <1>7, Zenon DEF AsReport
  <2>5. CASE ev.event # "press"
    BY <1>3, <1>4, <2>2, <2>3, <2>4, <2>5 DEF ButtonsOK
  <2>6. CASE ev.event = "press"
    <3>1. ASSUME w.clean PROVE w.held \subseteq {w.rb}
      <4>1. v.held = {} /\ ev.button < 3
        BY <2>4, <2>6, <3>1
      <4>2. w.held = v.held \cup {ev.button}
        BY <1>2, <2>6, <4>1, HeldIs
      <4>3. w.rb = ev.button
        BY <2>2, <2>6, <4>1, PressCodeIs
      <4> QED BY <4>1, <4>2, <4>3
    <3> QED BY <1>3, <2>3, <3>1 DEF ButtonsOK
  <2> QED BY <2>5, <2>6
<1> QED BY <1>5, <1>6, <1>7, Zenon DEF EventDoes

(* One-shot locators, filters and motions that are asked for. *)
LEMMA OnceKept ==
    ASSUME NEW v, MouseInv(v), NEW ev, IsEvent(v, ev), NEW w, EventDoes(v, ev, w)
    PROVE  OnceOK(w) /\ HeardOK(w)
<1>1. OnceOK(v) /\ HeardOK(v) /\ Common(v, ev, w)
  BY Zenon DEF MouseInv, EventDoes
<1>2. w.oneshots = v.oneshots /\ w.mode = v.mode
  BY <1>1 DEF Common
<1>3. v.shots \in Nat /\ v.exits \in {0, 1} /\ (v.filter # <<>> => v.exits = 0)
  BY <1>1 DEF OnceOK
<1>4. /\ v.shots \in {0, 1} \/ ~v.oneshots
      /\ v.oneshots => IF v.shots = 0 THEN v.enabled => v.oneshot ELSE ~v.enabled
  BY <1>1, Zenon DEF OnceOK
<1>5. CASE AsLocator(v, ev, w)
  <2>1. /\ v.enabled /\ w.oneshot = FALSE /\ w.enabled = (v.enabled /\ ~v.oneshot) /\ w.shots \in {v.shots, v.shots + 1}
        /\ w.filter = v.filter /\ w.asked = v.asked /\ w.exits = v.exits
    BY <1>5, Zenon DEF AsLocator
  <2>2. v.oneshots => v.shots = 0 /\ v.oneshot
    BY <1>4, <2>1
  <2>3. w.oneshots => w.shots \in {0, 1} /\ ~w.enabled
    <3>1. w.shots \in {v.shots, v.shots + 1} /\ w.enabled = (v.enabled /\ ~v.oneshot)
      BY <2>1
    <3>2. v.oneshots => w.shots \in {0, 1}
      BY <2>2, <3>1
    <3>3. v.oneshot => ~w.enabled
      BY <3>1, Zenon
    <3> QED BY <1>2, <2>2, <3>2, <3>3
  <2>4. w.shots \in Nat
    BY <1>3, <2>1
  <2>5. OnceOK(w)
    BY <1>3, <2>1, <2>3, <2>4 DEF OnceOK
  <2> QED BY <1>1, <1>2, <2>1, <2>5 DEF HeardOK
<1>6. ASSUME w.enabled = v.enabled, w.oneshot = v.oneshot, w.shots = v.shots,
             \/ w.filter = v.filter /\ w.asked = v.asked /\ w.exits = v.exits
             \/ v.filter # <<>> /\ w.filter = <<>> /\ w.asked = (v.mode = "motion") /\ w.exits = v.exits + 1
      PROVE  OnceOK(w) /\ HeardOK(w)
  <2>1. w.exits \in {0, 1} /\ (w.filter # <<>> => w.exits = 0)
    BY <1>3, <1>6
  <2>2. /\ w.shots \in {0, 1} \/ ~w.oneshots
        /\ w.oneshots => IF w.shots = 0 THEN w.enabled => w.oneshot ELSE ~w.enabled
    BY <1>2, <1>4, <1>6
  <2>3. HeardOK(w)
    BY <1>1, <1>2, <1>6 DEF HeardOK
  <2> QED BY <1>3, <1>6, <2>1, <2>2, <2>3 DEF OnceOK
<1>7. CASE AsFilter(v, ev, w)
  BY <1>6, <1>7, Zenon DEF AsFilter
<1>8. CASE SameLocator(v, w)
  BY <1>6, <1>8, Zenon DEF SameLocator
<1> QED BY <1>5, <1>7, <1>8, Zenon DEF EventDoes, AsNothing, AsReport

(* A report that is sent is of what it should be. *)
LEMMA ReportIsRight ==
    ASSUME NEW v, MouseInv(v), NEW ev, IsEvent(v, ev), NEW w, EventDoes(v, ev, w),
           NEW at \in Int \X Int, NEW r, AsReport(v, ev, w, at, r)
    PROVE  DragOK(w, r) /\ GridOK(r) /\ MovedOK(w, r) /\ MouseReportAt(w, r)
<1> DEFINE code == Pointer!Code(v, ev)
           sum == Pointer!Modified(v, ev.mods)
<1>1. ReportOf(v, ev, w, at, r) /\ Common(v, ev, w) /\ MouseTypes(v) /\ ButtonsOK(v)
  BY Zenon DEF AsReport, MouseInv, EventDoes
<1>2. Numbered(v, r, code, sum)
  BY <1>1, Zenon DEF ReportOf
<1>3. sum \in ModifierSums
  BY ModifiedIs
<1>4. ev.event \in {"press", "release", "motion"} /\ ev.button \in MouseButtons /\ ev.mods \subseteq Modifiers /\ ev.down = v.held
  BY DEF IsEvent
<1>5. v.rb \in PressCodes
  BY <1>1 DEF MouseTypes
<1>6. at[1] \in Int /\ at[2] \in Int
  OBVIOUS
<1>7. /\ w.rx = at[1] /\ w.ry = at[2]
      /\ r.x = at[1] + 1 + Pointer!Offset(v) /\ r.y = at[2] + 1 + Pointer!Offset(v)
      /\ v.format # "pixel" => at[1] + 1 \in 1..MouseCols
      /\ v.format = "default" => at[1] \in Characters /\ at[2] \in Characters
      /\ ev.event = "motion" => at # <<v.rx, v.ry>>
  BY <1>1, Zenon DEF ReportOf
<1>8. w.format = v.format /\ r.format = v.format /\ w.last = Latest(v)
  BY <1>1, <1>2, Zenon DEF Common, Numbered
<1>9. Pointer!Offset(w) = Pointer!Offset(v) /\ Pointer!Offset(v) \in {0, 32}
  BY <1>8 DEF Pointer!Offset
<1>10. \E k \in PressCodes \cup {3} : code \in {k, 32 + k}
  <2>1. CASE ev.event = "motion"
    <3>1. code = 32 + (IF v.held = {} THEN 3 ELSE v.rb)
      BY <1>4, <2>1, CodeIs
    <3> HIDE DEF code
    <3> QED BY <1>5, <3>1
  <2>2. CASE ev.event = "press"
    <3>1. code \in PressCodes
      BY <2>2, PressCodeIs
    <3> HIDE DEF code
    <3> QED BY <3>1
  <2>3. CASE ev.event = "release"
    <3>1. code \in PressCodes \cup {3}
      <4>1. v.format # "sgr" => code = 3
        BY <1>4, <2>3, CodeIs
      <4>2. v.format = "sgr" => IF ev.button > 2 THEN code \in OtherCodes ELSE code = ev.button
        BY <1>4, <2>3, CodeIs
      <4>3. ev.button \in 0..10
        BY <1>4 DEF MouseButtons
      <4> HIDE DEF code
      <4> QED BY <4>1, <4>2, <4>3 DEF PressCodes
    <3> HIDE DEF code
    <3> QED BY <3>1
  <2> QED BY <1>4, <2>1, <2>2, <2>3
<1> HIDE DEF sum, code
<1>11. code \in Nat /\ code + sum \in Nat /\ code + sum <= 191
  BY <1>3, <1>10, NumberFits
<1>12. GridOK(r)
  <2>1. ASSUME r.format = "default" PROVE {r.b, r.x, r.y} \subseteq 32..255
    <3>1. r.b = code + sum + 32
      BY <1>2, <1>8, <2>1 DEF Numbered, Pointer!ButtonOffset
    <3>2. at[1] \in 0..222 /\ at[2] \in 0..222
      BY <1>7, <1>8, <2>1 DEF Characters
    <3>3. r.x = at[1] + 33 /\ r.y = at[2] + 33
      BY <1>6, <1>7, <1>8, <2>1 DEF Pointer!Offset
    <3>4. r.x \in 32..255 /\ r.y \in 32..255
      BY <3>2, <3>3
    <3>5. r.b \in 32..255
      BY <1>11, <3>1
    <3> QED BY <3>4, <3>5
  <2>2. ASSUME r.format # "pixel"
        PROVE  r.x - (IF r.format \in {"default", "utf8"} THEN 32 ELSE 0) \in 1..MouseCols
    <3>1. Pointer!Offset(v) = IF r.format \in {"default", "utf8"} THEN 32 ELSE 0
      BY <1>8 DEF Pointer!Offset
    <3>2. at[1] + 1 \in 1..MouseCols
      BY <1>7, <1>8, <2>2
    <3>3. r.x - Pointer!Offset(v) = at[1] + 1
      BY <1>6, <1>7, <1>9
    <3> QED BY <3>1, <3>2, <3>3
  <2> QED BY <2>1, <2>2, Zenon DEF GridOK
<1>13. MouseReportAt(w, r)
  BY <1>7, <1>9 DEF MouseReportAt
<1>14. ASSUME Pointer!IsMotion(r) PROVE ev.event = "motion"
  <2>1. CASE ev.event = "press"
    <3>1. code \in OtherCodes \/ code \in 0..3
      <4>1. code \in PressCodes
        BY <2>1, PressCodeIs DEF code
      <4> QED BY <4>1 DEF PressCodes
    <3> QED BY <1>2, <1>3, <1>14, <3>1, ButtonReport, OtherReport
  <2>2. CASE ev.event = "release"
    <3>1. code \in OtherCodes \/ code \in 0..3
      <4>1. v.format # "sgr" => code = 3
        BY <1>4, <2>2, CodeIs DEF code
      <4>2. v.format = "sgr" => IF ev.button > 2 THEN code \in OtherCodes ELSE code = ev.button
        BY <1>4, <2>2, CodeIs DEF code
      <4>3. ev.button \in 0..10
        BY <1>4 DEF MouseButtons
      <4> QED BY <4>1, <4>2, <4>3
    <3> QED BY <1>2, <1>3, <1>14, <3>1, ButtonReport, OtherReport
  <2> QED BY <1>4, <2>1, <2>2
<1>15. DragOK(w, r)
  <2> SUFFICES ASSUME Pointer!IsMotion(r)
               PROVE  IF w.clean /\ w.held # {} THEN Pointer!Button(r) \in w.held ELSE w.held = {} => Pointer!Button(r) = 3
    BY Zenon DEF DragOK
  <2>1. ev.event = "motion" /\ ev.event # "press"
    BY <1>14
  <2> DEFINE k == IF v.held = {} THEN 3 ELSE v.rb
  <2>2. code = 32 + k
    BY <1>4, <2>1, CodeIs DEF code
  <2>3. k \in PressCodes \cup {3}
    BY <1>5
  <2>4. w.held = v.held /\ v.held \subseteq {0, 1, 2}
    BY <1>1, <2>1, HeldIs DEF Common, ButtonsOK
  <2>5. w.clean => v.clean
    BY <2>1, Zenon DEF AsReport
  <2>6. k \in 0..3 => Pointer!Button(r) = k
    <3> HIDE DEF k
    <3> QED BY <1>2, <1>3, <2>2, <2>3, MotionReport
  <2>7. CASE w.held = {}
    BY <2>4, <2>6, <2>7
  <2>8. CASE w.held # {}
    <3>1. ASSUME w.clean PROVE Pointer!Button(r) \in w.held
      <4>1. v.held \subseteq {v.rb}
        BY <1>1, <2>5, <3>1 DEF ButtonsOK
      <4>2. v.rb \in v.held /\ v.rb \in {0, 1, 2}
        BY <2>4, <2>8, <4>1
      <4>3. k = v.rb
        BY <2>4, <2>8
      <4> QED BY <2>4, <2>6, <4>2, <4>3
    <3> QED BY <2>8, <3>1
  <2> QED BY <2>7, <2>8
<1>16. MovedOK(w, r)
  <2> SUFFICES ASSUME Pointer!IsMotion(r), w.last # <<>>, w.last[1].kind = "mouse"
               PROVE  <<r.x, r.y>> # <<w.last[1].x, w.last[1].y>>
    BY Zenon DEF MovedOK
  <2>1. MouseReportAt(v, Latest(v)[1])
    BY <1>8 DEF MouseInv, LatestOK
  <2>2. w.last[1].x = v.rx + 1 + Pointer!Offset(v) /\ w.last[1].y = v.ry + 1 + Pointer!Offset(v)
    BY <1>8, <2>1 DEF MouseReportAt
  <2>3. at # <<v.rx, v.ry>> /\ v.rx \in Int /\ v.ry \in Int
    BY <1>1, <1>7, <1>14 DEF MouseTypes
  <2>4. at[1] # v.rx \/ at[2] # v.ry
    BY <2>3
  <2>5. r.x # w.last[1].x \/ r.y # w.last[1].y
    BY <1>6, <1>7, <1>9, <2>2, <2>3, <2>4
  <2> QED BY <2>5
<1> QED BY <1>12, <1>13, <1>15, <1>16


(* The report of the event, and the latest one. *)
LEMMA ReportsKept ==
    ASSUME NEW v, MouseInv(v), NEW ev, IsEvent(v, ev), NEW w, EventDoes(v, ev, w)
    PROVE  OutOK(w) /\ LatestOK(w)
<1>1. Common(v, ev, w) /\ LatestOK(v)
  BY Zenon DEF MouseInv, EventDoes
<1>2. w.last = Latest(v) /\ w.format = v.format
  BY <1>1, Zenon DEF Common
<1>3. Pointer!Offset(w) = Pointer!Offset(v)
  BY <1>2 DEF Pointer!Offset
<1>4. ASSUME w.out = <<>>, w.rx = v.rx, w.ry = v.ry PROVE OutOK(w) /\ LatestOK(w)
  <2>1. Latest(w) = Latest(v)
    BY <1>2, <1>4 DEF Latest
  <2>2. LatestOK(w)
    BY <1>1, <1>3, <1>4, <2>1 DEF LatestOK, MouseReportAt
  <2> QED BY <1>4, <2>2 DEF OutOK
<1>5. ASSUME NEW r, w.out = <<r>> PROVE Latest(w)[1] = r
  <2>1. <<r>> # <<>> /\ <<r>>[1] = r
    OBVIOUS
  <2> QED BY <1>5, <2>1 DEF Latest
<1>6. CASE AsLocator(v, ev, w) \/ AsFilter(v, ev, w)
  <2>1. Reportless(w.out) /\ w.rx = v.rx /\ w.ry = v.ry
    BY <1>6, Zenon DEF AsLocator, AsFilter, Untold
  <2>2. ASSUME NEW r, w.out = <<r>>, LocatorReport(r) PROVE OutOK(w) /\ LatestOK(w)
    <3>1. r.kind # "mouse"
      BY <2>2 DEF LocatorReport
    <3>2. LatestOK(w)
      BY <1>5, <2>2, <3>1 DEF LatestOK, MouseReportAt
    <3> QED BY <2>2, <3>2, Zenon DEF OutOK
  <2> QED BY <1>4, <2>1, <2>2, Zenon DEF Reportless
<1>7. CASE AsNothing(v, ev, w)
  BY <1>4, <1>7, Zenon DEF AsNothing
<1>8. ASSUME NEW at \in Int \X Int, NEW r, AsReport(v, ev, w, at, r) PROVE OutOK(w) /\ LatestOK(w)
  <2>1. DragOK(w, r) /\ GridOK(r) /\ MovedOK(w, r) /\ MouseReportAt(w, r)
    BY <1>8, ReportIsRight
  <2>2. w.out = <<r>> /\ r.kind = "mouse"
    BY <1>8, Zenon DEF AsReport, ReportOf
  <2>3. LatestOK(w)
    BY <1>5, <2>1, <2>2, Zenon DEF LatestOK
  <2> QED BY <2>1, <2>2, <2>3, Zenon DEF OutOK
<1> QED BY <1>6, <1>7, <1>8, Zenon DEF EventDoes, Common

(* All of it. *)
LEMMA EventKeeps ==
    ASSUME NEW v, MouseInv(v), NEW ev, IsEvent(v, ev)
    PROVE  MouseInv(Pointer!Counted(v, Pointer!mouse_handle_input(Fresh(v), ev), ev))
<1> DEFINE w == Pointer!Counted(v, Pointer!mouse_handle_input(Fresh(v), ev), ev)
<1>1. EventDoes(v, ev, w)
  BY EventIs
<1> HIDE DEF w
<1>2. MouseTypes(w) /\ ButtonsOK(w) /\ OnceOK(w) /\ HeardOK(w) /\ OutOK(w) /\ LatestOK(w)
  BY <1>1, TypesKept, ButtonsKept, OnceKept, ReportsKept
<1> QED BY <1>2 DEF MouseInv, w

(* A command that a program sends keeps the invariant too: it tells        *)
(* nothing of buttons, and at most where the locator is.                   *)
Commanded(v, h) ==
    /\ MouseTypes(h) /\ h.held = v.held /\ OnceOK(h) /\ HeardOK(h) /\ Reportless(h.out)

(* After a command it is counted anew. *)
LEMMA DoneKeeps ==
    ASSUME NEW v, MouseInv(v), NEW h, Commanded(v, h), NEW n
    PROVE  MouseInv([h EXCEPT !.n = n, !.told = v.held, !.clean = FALSE, !.last = <<>>, !.done = "none"])
<1> DEFINE held == v.held
           w == [h EXCEPT !.n = n, !.told = held, !.clean = FALSE, !.last = <<>>, !.done = "none"]
<1>1. IsMouse(h)
  BY DEF Commanded, MouseTypes
<1> HIDE DEF held
<1>2. DOMAIN w = MouseFields /\ \A f \in MouseFields \ {"n", "told", "clean", "last", "done"} : w[f] = h[f]
  BY <1>1 DEF IsMouse
<1>3. w = [f \in MouseFields |-> w[f]]
  BY <1>1 DEF IsMouse
<1>4. w.told = held /\ w.clean = FALSE /\ w.last = <<>>
  BY <1>1 DEF IsMouse, MouseFields
<1> HIDE DEF w
<1>5. MouseBut(h, w, {"n", "told", "clean", "last", "done"})
  BY <1>1, <1>2, <1>3 DEF MouseBut, IsMouse
<1>6. /\ w.program = h.program /\ w.p = h.p /\ w.format = h.format /\ w.mode = h.mode /\ w.pixels = h.pixels /\ w.rx = h.rx
      /\ w.ry = h.ry /\ w.rb = h.rb /\ w.held = h.held /\ w.oneshots = h.oneshots /\ w.shots = h.shots /\ w.enabled = h.enabled
      /\ w.oneshot = h.oneshot /\ w.exits = h.exits /\ w.filter = h.filter /\ w.asked = h.asked /\ w.out = h.out
      /\ IsMouse(w)
  BY <1>5 DEF MouseBut, MouseFields
<1>7. MouseTypes(w)
  BY <1>6 DEF Commanded, MouseTypes
<1>8. ButtonsOK(w)
  BY <1>4, <1>6 DEF Commanded, ButtonsOK, MouseInv, held
<1>9. OnceOK(w) /\ HeardOK(w)
  BY <1>6 DEF Commanded, OnceOK, HeardOK
<1>10. Reportless(w.out)
  BY <1>6 DEF Commanded
<1>11. CASE w.out = <<>>
  <2>1. Latest(w) = <<>>
    BY <1>4, <1>11 DEF Latest
  <2> QED BY <1>7, <1>8, <1>9, <1>11, <2>1, Zenon DEF MouseInv, OutOK, LatestOK, w, held
<1>12. ASSUME NEW r, w.out = <<r>>, LocatorReport(r) PROVE MouseInv(w)
  <2>1. r.kind # "mouse"
    BY <1>12 DEF LocatorReport
  <2>2. <<r>> # <<>> /\ <<r>>[1] = r
    OBVIOUS
  <2>3. Latest(w)[1] = r
    BY <1>12, <2>2 DEF Latest
  <2>4. OutOK(w)
    BY <1>12, Zenon DEF OutOK
  <2>5. LatestOK(w)
    BY <2>1, <2>3 DEF LatestOK, MouseReportAt
  <2> QED BY <1>7, <1>8, <1>9, <2>4, <2>5 DEF MouseInv
<1> QED BY <1>10, <1>11, <1>12, Zenon DEF Reportless, w, held


(* A command starts without a report. *)
LEMMA ClearIs ==
    ASSUME NEW v, MouseInv(v)
    PROVE  LET c == [v EXCEPT !.out = <<>>] IN MouseBut(v, c, {"out"}) /\ IsMouse(c) /\ c.out = <<>>
<1>1. MouseBut(v, [v EXCEPT !["out"] = <<>>], {"out"}) /\ [v EXCEPT !["out"] = <<>>]["out"] = <<>>
  BY OneMouseField, MouseFieldNames DEF MouseInv, MouseTypes
<1> QED BY <1>1 DEF MouseBut

(* What commands do not touch. *)
Lasting(v, h) ==
    /\ IsMouse(h) /\ h.program = v.program /\ h.p = v.p /\ h.rx = v.rx /\ h.ry = v.ry /\ h.rb = v.rb /\ h.held = v.held
SameOnce(v, h) ==
    h.oneshots = v.oneshots /\ h.shots = v.shots /\ h.enabled = v.enabled /\ h.oneshot = v.oneshot /\ h.exits = v.exits

(* So types are kept. *)
LEMMA LastingTypes ==
    ASSUME NEW v, MouseInv(v), NEW h, Lasting(v, h), h.format \in Pointer!Formats, h.pixels \in BOOLEAN,
           h.mode \in Pointer!Modes, h.mode \in h.program.commands \cup {"none"}
    PROVE  MouseTypes(h)
BY DEF MouseInv, MouseTypes, Lasting

(* A field that says nothing of reports and motions. *)
LEMMA OtherField ==
    ASSUME NEW v, MouseInv(v), NEW h, IsMouse(h), h.out = <<>>,
           MouseBut(v, h, {"out", "force", "vt52", "press", "release", "format"}), h.format \in Pointer!Formats
    PROVE  Commanded(v, h)
<1>1. Lasting(v, h)
  BY DEF MouseBut, MouseFields, Lasting
<1>2. SameOnce(v, h) /\ h.filter = v.filter /\ h.asked = v.asked /\ h.mode = v.mode /\ h.pixels = v.pixels
  BY DEF MouseBut, MouseFields, SameOnce
<1>3. v.mode \in Pointer!Modes /\ v.mode \in v.program.commands \cup {"none"} /\ v.pixels \in BOOLEAN /\ OnceOK(v) /\ HeardOK(v)
  BY DEF MouseInv, MouseTypes
<1>4. h.mode \in h.program.commands \cup {"none"}
  BY <1>1, <1>2, <1>3 DEF Lasting
<1>5. MouseTypes(h)
  BY <1>1, <1>2, <1>3, <1>4, LastingTypes
<1>6. OnceOK(h) /\ HeardOK(h)
  BY <1>2, <1>3 DEF SameOnce, OnceOK, HeardOK
<1> QED BY <1>1, <1>5, <1>6 DEF Commanded, Lasting, Reportless

(* Mouse modes (1000 to 1003 and 9). *)
LEMMA ModeKeeps ==
    ASSUME NEW v, MouseInv(v), NEW mode \in Pointer!Modes, mode \in v.program.commands
    PROVE  Commanded(v, Pointer!window_set_mouse([[v EXCEPT !.out = <<>>] EXCEPT !.mode = mode], mode = "motion" \/ MouseUris))
<1> DEFINE c == [v EXCEPT !.out = <<>>]
           f == [c EXCEPT !["mode"] = mode]
           asked == mode = "motion" \/ MouseUris
           h == Pointer!window_set_mouse(f, asked)
<1>1. MouseBut(v, c, {"out"}) /\ IsMouse(c) /\ c.out = <<>>
  BY ClearIs
<1>2. Pointer!window_set_mouse([[v EXCEPT !.out = <<>>] EXCEPT !.mode = mode], mode = "motion" \/ MouseUris) = h
  OBVIOUS
<1> HIDE DEF c
<1>3. MouseBut(c, f, {"mode"}) /\ f["mode"] = mode
  BY <1>1, OneMouseField, MouseFieldNames
<1>4. IsMouse(f)
  BY <1>3 DEF MouseBut
<1> HIDE DEF f, asked
<1>5. MouseBut(f, h, {"uri", "pressed", "asked"}) /\ h.asked = asked
  BY <1>4, WindowMouse
<1> HIDE DEF h
<1>6. MouseBut(v, h, {"out", "mode", "uri", "pressed", "asked"})
  BY <1>1, <1>3, <1>5 DEF MouseBut
<1>7. h.mode = mode /\ h.out = <<>>
  BY <1>1, <1>3, <1>5 DEF MouseBut, MouseFields
<1>8. Lasting(v, h) /\ SameOnce(v, h) /\ h.filter = v.filter /\ h.pixels = v.pixels /\ h.format = v.format
  BY <1>6 DEF MouseBut, MouseFields, Lasting, SameOnce
<1>9. v.pixels \in BOOLEAN /\ v.format \in Pointer!Formats /\ OnceOK(v)
  BY DEF MouseInv, MouseTypes
<1>10. h.mode \in h.program.commands \cup {"none"}
  BY <1>7, <1>8 DEF Lasting
<1>11. MouseTypes(h)
  BY <1>7, <1>8, <1>9, <1>10, LastingTypes
<1>12. OnceOK(h)
  BY <1>8, <1>9 DEF SameOnce, OnceOK
<1>13. HeardOK(h)
  BY <1>5, Zenon DEF asked, HeardOK
<1> QED BY <1>2, <1>7, <1>8, <1>11, <1>12, <1>13 DEF Commanded, Lasting, Reportless

Located(h, a, pixels) ==
    [h EXCEPT !.enabled = a # 0, !.oneshot = @ \/ a = 1, !.pixels = pixels, !.oneshots = (a = 1), !.shots = 0]

(* DECELR. *)
LEMMA LocatorKeeps ==
    ASSUME NEW v, MouseInv(v), NEW a \in 0..2, NEW pixels \in BOOLEAN
    PROVE  Commanded(v, Located([v EXCEPT !.out = <<>>], a, pixels))
<1> DEFINE c == [v EXCEPT !.out = <<>>]
           enabled == a # 0
           oneshot == c.oneshot \/ a = 1
           once == a = 1
           h == [c EXCEPT !.enabled = enabled, !.oneshot = oneshot, !.pixels = pixels, !.oneshots = once, !.shots = 0]
<1>1. MouseBut(v, c, {"out"}) /\ IsMouse(c) /\ c.out = <<>>
  BY ClearIs
<1>2. Located(c, a, pixels) = h
  BY DEF Located
<1> HIDE DEF c, enabled, oneshot, once
<1>3. DOMAIN h = MouseFields /\ \A f \in MouseFields \ {"enabled", "oneshot", "pixels", "oneshots", "shots"} : h[f] = c[f]
  BY <1>1 DEF IsMouse
<1>4. h = [f \in MouseFields |-> h[f]]
  BY <1>1 DEF IsMouse
<1>5. h.enabled = enabled /\ h.oneshot = oneshot /\ h.pixels = pixels /\ h.oneshots = once /\ h.shots = 0
  BY <1>1 DEF IsMouse, MouseFields
<1> HIDE DEF h
<1>6. MouseBut(v, h, {"out", "enabled", "oneshot", "pixels", "oneshots", "shots"})
  BY <1>1, <1>3, <1>4 DEF MouseBut, IsMouse
<1>7. h.out = <<>>
  BY <1>1, <1>3 DEF MouseFields
<1>8. Lasting(v, h) /\ h.filter = v.filter /\ h.format = v.format /\ h.mode = v.mode /\ h.asked = v.asked /\ h.exits = v.exits
  BY <1>6 DEF MouseBut, MouseFields, Lasting
<1>9. v.mode \in Pointer!Modes /\ v.mode \in v.program.commands \cup {"none"} /\ v.format \in Pointer!Formats /\ OnceOK(v) /\ HeardOK(v)
  BY DEF MouseInv, MouseTypes
<1>10. h.mode \in h.program.commands \cup {"none"}
  BY <1>8, <1>9 DEF Lasting
<1>11. MouseTypes(h)
  BY <1>5, <1>8, <1>9, <1>10, LastingTypes
<1>12. OnceOK(h)
  <2>1. h.oneshots => h.oneshot
    BY <1>5, Zenon DEF once, oneshot
  <2> QED BY <1>5, <1>8, <1>9, <2>1 DEF OnceOK
<1>13. HeardOK(h)
  BY <1>8, <1>9 DEF HeardOK
<1>14. Commanded(v, h)
  BY <1>7, <1>8, <1>11, <1>12, <1>13 DEF Commanded, Lasting, Reportless
<1> QED BY <1>2, <1>14, Zenon DEF c

(* DECEFR. *)
LEMMA FilterKeeps ==
    ASSUME NEW v, MouseInv(v), NEW left, NEW top, NEW right, NEW fifth
    PROVE  Commanded(v, [Pointer!mouse_set_filter([v EXCEPT !.out = <<>>], left, top, right, fifth) EXCEPT !.exits = 0])
<1> DEFINE c == [v EXCEPT !.out = <<>>]
           xs == Pointer!Low(c, left, top, Pointer!Width)
           xe == Pointer!High(c, left, top, Pointer!Width)
           ys == Pointer!Low(c, right, fifth, Pointer!Height)
           ye == Pointer!High(c, right, fifth, Pointer!Height)
           filter == <<xs, xe, ys, ye>>
           f == [c EXCEPT !["filter"] = filter]
           g == Pointer!window_set_mouse(f, TRUE)
           h == [g EXCEPT !["exits"] = 0]
<1>1. MouseBut(v, c, {"out"}) /\ IsMouse(c) /\ c.out = <<>>
  BY ClearIs
<1> HIDE DEF c
<1>2. Pointer!mouse_set_filter(c, left, top, right, fifth) = g
  BY DEF Pointer!mouse_set_filter
<1> HIDE DEF filter
<1>3. MouseBut(c, f, {"filter"})
  BY <1>1, OneMouseField, MouseFieldNames
<1>4. IsMouse(f)
  BY <1>3 DEF MouseBut
<1> HIDE DEF f
<1>5. MouseBut(f, g, {"uri", "pressed", "asked"}) /\ g.asked = TRUE
  BY <1>4, WindowMouse
<1>6. IsMouse(g)
  BY <1>5 DEF MouseBut
<1> HIDE DEF g
<1>7. MouseBut(g, h, {"exits"}) /\ h["exits"] = 0
  <2>1. "exits" \in MouseFields
    BY DEF MouseFields
  <2> QED BY <1>6, <2>1, OneMouseField
<1>8. [g EXCEPT !.exits = 0] = h
  OBVIOUS
<1> HIDE DEF h
<1>9. MouseBut(v, h, {"out", "filter", "uri", "pressed", "asked", "exits"})
  BY <1>1, <1>3, <1>5, <1>7 DEF MouseBut
<1>10. h.out = <<>> /\ h.asked = TRUE
  BY <1>1, <1>3, <1>5, <1>7 DEF MouseBut, MouseFields
<1>11. /\ Lasting(v, h) /\ h.oneshots = v.oneshots /\ h.shots = v.shots /\ h.enabled = v.enabled /\ h.oneshot = v.oneshot
       /\ h.pixels = v.pixels /\ h.format = v.format /\ h.mode = v.mode
  BY <1>9 DEF MouseBut, MouseFields, Lasting
<1>12. /\ v.mode \in Pointer!Modes /\ v.mode \in v.program.commands \cup {"none"} /\ v.format \in Pointer!Formats
       /\ v.pixels \in BOOLEAN /\ OnceOK(v)
  BY DEF MouseInv, MouseTypes
<1>13. h.mode \in h.program.commands \cup {"none"}
  BY <1>11, <1>12 DEF Lasting
<1>14. MouseTypes(h)
  BY <1>11, <1>12, <1>13, LastingTypes
<1>15. OnceOK(h)
  BY <1>7, <1>11, <1>12 DEF OnceOK
<1>16. HeardOK(h)
  BY <1>10 DEF HeardOK
<1>17. Commanded(v, h)
  BY <1>10, <1>11, <1>14, <1>15, <1>16 DEF Commanded, Lasting, Reportless
<1> QED BY <1>2, <1>8, <1>17, Zenon DEF c

(* DECRQLP. *)
LEMMA AskedWhere ==
    ASSUME NEW v, MouseInv(v)
    PROVE  Commanded(v, Pointer!mouse_report_locator([v EXCEPT !.out = <<>>], 1, v.p, v.held))
<1> DEFINE c == [v EXCEPT !.out = <<>>]
           h == Pointer!mouse_report_locator(c, 1, v.p, v.held)
<1>1. MouseBut(v, c, {"out"}) /\ IsMouse(c) /\ c.out = <<>>
  BY ClearIs
<1>2. /\ v.mode \in Pointer!Modes /\ v.mode \in v.program.commands \cup {"none"} /\ v.format \in Pointer!Formats
      /\ v.pixels \in BOOLEAN /\ v.p \in Int \X Int /\ OnceOK(v) /\ HeardOK(v)
  BY DEF MouseInv, MouseTypes
<1> HIDE DEF c
<1>3. c.pixels \in BOOLEAN
  BY <1>1, <1>2 DEF MouseBut, MouseFields
<1>4. MouseBut(c, h, {"out"}) /\ Reportless(h.out)
  BY <1>1, <1>2, <1>3, LocatorIs
<1> HIDE DEF h
<1>5. MouseBut(v, h, {"out"})
  BY <1>1, <1>4 DEF MouseBut
<1>6. /\ Lasting(v, h) /\ SameOnce(v, h) /\ h.filter = v.filter /\ h.asked = v.asked
      /\ h.pixels = v.pixels /\ h.format = v.format /\ h.mode = v.mode
  BY <1>5 DEF MouseBut, MouseFields, Lasting, SameOnce
<1>7. h.mode \in h.program.commands \cup {"none"}
  BY <1>2, <1>6 DEF Lasting
<1>8. MouseTypes(h)
  BY <1>2, <1>6, <1>7, LastingTypes
<1>9. OnceOK(h) /\ HeardOK(h)
  BY <1>2, <1>6 DEF SameOnce, OnceOK, HeardOK
<1>10. Commanded(v, h)
  BY <1>4, <1>6, <1>8, <1>9 DEF Commanded, Lasting
<1> QED BY <1>10 DEF c, h


(* The invariant holds at first, and every step keeps it. *)
LEMMA MouseStart == Pointer!Init => MouseInv(state)
<1> SUFFICES ASSUME Pointer!Init PROVE MouseInv(state)
  OBVIOUS
<1>1. PICK p \in MousePrograms : state =
        [program |-> p, enabled |-> FALSE, oneshot |-> FALSE, filter |-> <<>>, pixels |-> FALSE, press |-> FALSE, release |-> FALSE,
         force |-> FALSE, mode |-> "none", format |-> "default", rx |-> 0, ry |-> 0, rb |-> 0, vt52 |-> FALSE, asked |-> MouseUris,
         sel |-> "none", at |-> <<0, 0>>, uri |-> 0, pressed |-> FALSE, held |-> {}, p |-> <<0, 0>>, out |-> <<>>, done |-> "none",
         told |-> {}, clean |-> FALSE, last |-> <<>>, oneshots |-> FALSE, shots |-> 0, exits |-> 0, n |-> 0]
  BY DEF Pointer!Init
<1>2. IsMouse(state)
  BY <1>1 DEF IsMouse, MouseFields
<1>3. /\ state.program = p /\ state.filter = <<>> /\ state.pixels = FALSE /\ state.mode = "none" /\ state.format = "default"
      /\ state.rx = 0 /\ state.ry = 0 /\ state.rb = 0 /\ state.held = {} /\ state.p = <<0, 0>> /\ state.out = <<>>
      /\ state.told = {} /\ state.clean = FALSE /\ state.last = <<>> /\ state.oneshots = FALSE /\ state.shots = 0 /\ state.exits = 0
  BY <1>1
<1>4. state.asked = MouseUris
  BY <1>1
<1>5. MouseTypes(state)
  <2>1. state.format \in Pointer!Formats /\ state.mode \in Pointer!Modes
    BY <1>3 DEF Pointer!Formats, Pointer!Modes
  <2>2. state.rb \in PressCodes
    BY <1>3 DEF PressCodes
  <2>3. state.p \in Int \X Int /\ state.rx \in Int /\ state.ry \in Int
    BY <1>3
  <2> QED BY <1>1, <1>2, <1>3, <2>1, <2>2, <2>3 DEF MouseTypes
<1>6. ButtonsOK(state) /\ OnceOK(state)
  BY <1>3 DEF ButtonsOK, OnceOK
<1>7. HeardOK(state)
  BY <1>4, Zenon DEF HeardOK
<1>8. OutOK(state) /\ LatestOK(state)
  BY <1>3 DEF OutOK, LatestOK, Latest
<1> QED BY <1>5, <1>6, <1>7, <1>8 DEF MouseInv

(* One step per action. *)
LEMMA MouseStep ==
    ASSUME MouseInv(state), Pointer!Next
    PROVE  MouseInv(state')
<1> DEFINE c == [state EXCEPT !.out = <<>>]
<1>1. MouseTypes(state) /\ state.program \in MousePrograms /\ state.held \subseteq {0, 1, 2}
  BY DEF MouseInv, MouseTypes, ButtonsOK
<1>2. /\ state.program.points \subseteq Int \X Int /\ state.program.buttons \subseteq MouseButtons
      /\ state.program.mods \subseteq SUBSET Modifiers
  BY <1>1, MouseAssumption DEF Modifiers
<1>3. ASSUME NEW ev, Pointer!Event(ev), IsEvent(state, ev) PROVE MouseInv(state')
  <2>1. state' = Pointer!Counted(state, Pointer!mouse_handle_input(Fresh(state), ev), ev)
    BY <1>3, Zenon DEF Pointer!Event, Fresh
  <2> QED BY <1>3, <2>1, EventKeeps
<1>4. ASSUME NEW h, Commanded(state, h), Pointer!Do(h) PROVE MouseInv(state')
  <2>1. state' = [h EXCEPT !.n = h.n + 1, !.told = state.held, !.clean = FALSE, !.last = <<>>, !.done = "none"]
    BY <1>4 DEF Pointer!Do
  <2> QED BY <1>4, <2>1, DoneKeeps
<1>5. ASSUME NEW p \in state.program.points, NEW mods \in state.program.mods, NEW b \in state.program.buttons,
             Pointer!Press(p, b, mods)
      PROVE  MouseInv(state')
  <2> DEFINE ev == [event |-> "press", button |-> b, p |-> p, down |-> state.held, mods |-> mods]
  <2>1. Pointer!Event(ev) /\ b \notin state.held
    BY <1>5, Zenon DEF Pointer!Press
  <2>2. IsEvent(state, ev)
    BY <1>2, <2>1 DEF IsEvent
  <2> HIDE DEF ev
  <2> QED BY <1>3, <2>1, <2>2
<1>6. ASSUME NEW p \in state.program.points, NEW mods \in state.program.mods, NEW b \in state.program.buttons,
             Pointer!Release(p, b, mods)
      PROVE  MouseInv(state')
  <2> DEFINE ev == [event |-> "release", button |-> b, p |-> p, down |-> state.held, mods |-> mods]
  <2>1. Pointer!Event(ev) /\ (b \in state.held \/ b > 2)
    BY <1>6, Zenon DEF Pointer!Release
  <2>2. IsEvent(state, ev)
    BY <1>2, <2>1 DEF IsEvent
  <2> HIDE DEF ev
  <2> QED BY <1>3, <2>1, <2>2
<1>7. ASSUME NEW p \in state.program.points, NEW mods \in state.program.mods, Pointer!Motion(p, mods)
      PROVE  MouseInv(state')
  <2> DEFINE ev == [event |-> "motion", button |-> 0, p |-> p, down |-> state.held, mods |-> mods]
  <2>1. Pointer!Event(ev)
    BY <1>7, Zenon DEF Pointer!Motion
  <2>2. 0 \in MouseButtons
    BY DEF MouseButtons
  <2>3. IsEvent(state, ev)
    BY <1>2, <2>2 DEF IsEvent
  <2> HIDE DEF ev
  <2> QED BY <1>3, <2>1, <2>3
<1>8. MouseBut(state, c, {"out"}) /\ IsMouse(c) /\ c.out = <<>> /\ Pointer!Clear = c
  BY ClearIs DEF Pointer!Clear
<1>9. state.format \in Pointer!Formats
  BY <1>1 DEF MouseTypes
<1>10. ASSUME NEW f \in {"force", "vt52", "format"}, NEW x, Pointer!Do([c EXCEPT ![f] = x]), f = "format" => x \in Pointer!Formats
       PROVE  MouseInv(state')
  <2> DEFINE h == [c EXCEPT ![f] = x]
  <2>1. f \in MouseFields
    BY DEF MouseFields
  <2> HIDE DEF c
  <2>2. MouseBut(c, h, {f}) /\ h[f] = x
    BY <1>8, <2>1, OneMouseField
  <2> HIDE DEF h
  <2>3. IsMouse(h) /\ MouseBut(state, h, {"out", "force", "vt52", "press", "release", "format"})
    BY <1>8, <2>2 DEF MouseBut
  <2>4. h.out = <<>>
    BY <1>8, <2>2 DEF MouseBut, MouseFields
  <2>5. h.format \in Pointer!Formats
    BY <1>8, <1>9, <1>10, <2>2 DEF MouseBut, MouseFields
  <2>6. Commanded(state, h)
    BY <2>3, <2>4, <2>5, OtherField
  <2> QED BY <1>4, <1>10, <2>6 DEF h
<1>11. ASSUME NEW mode \in Pointer!Modes, Pointer!SetMode(mode) PROVE MouseInv(state')
  <2> DEFINE h == Pointer!window_set_mouse([c EXCEPT !.mode = mode], mode = "motion" \/ MouseUris)
  <2>1. mode \in state.program.commands /\ Pointer!Do(h)
    BY <1>8, <1>11 DEF Pointer!SetMode, Pointer!Command
  <2>2. Commanded(state, h)
    BY <2>1, ModeKeeps
  <2> HIDE DEF h
  <2> QED BY <1>4, <2>1, <2>2
<1>12. ASSUME NEW format \in Pointer!Formats, Pointer!SetFormat(format) PROVE MouseInv(state')
  <2>1. Pointer!Do([c EXCEPT !["format"] = format])
    BY <1>8, <1>12 DEF Pointer!SetFormat
  <2> HIDE DEF c
  <2> QED BY <1>10, <2>1
<1>13. ASSUME NEW a \in 0..2, NEW pixels \in BOOLEAN, Pointer!DECELR(a, pixels) PROVE MouseInv(state')
  <2> DEFINE h == Located(c, a, pixels)
  <2>1. Pointer!Do(h)
    BY <1>13, Zenon DEF Pointer!DECELR, Pointer!Clear, Located
  <2>2. Commanded(state, h)
    BY LocatorKeeps
  <2> HIDE DEF h
  <2> QED BY <1>4, <2>1, <2>2
<1>14. ASSUME NEW a \in 0..4, Pointer!DECSLE(a) PROVE MouseInv(state')
  <2> DEFINE x == IF a = 1 THEN TRUE ELSE IF a \in {0, 2} THEN FALSE ELSE c.press
             f == [c EXCEPT !["press"] = x]
             y == IF a = 3 THEN TRUE ELSE IF a \in {0, 4} THEN FALSE ELSE c.release
             h == [f EXCEPT !["release"] = y]
  <2>1. Pointer!Do(h)
    <3>1. Pointer!Do([c EXCEPT !.press = x, !.release = y])
      BY <1>8, <1>14, Zenon DEF Pointer!DECSLE
    <3>2. [c EXCEPT !.press = x, !.release = y] = h
      OBVIOUS
    <3> HIDE DEF c, x, y, f, h
    <3> QED BY <3>1, <3>2
  <2> HIDE DEF c, x, y
  <2>2. MouseBut(c, f, {"press"})
    BY <1>8, OneMouseField, MouseFieldNames
  <2>3. IsMouse(f)
    BY <2>2 DEF MouseBut
  <2> HIDE DEF f
  <2>4. MouseBut(f, h, {"release"})
    BY <2>3, OneMouseField, MouseFieldNames
  <2> HIDE DEF h
  <2>5. IsMouse(h) /\ MouseBut(state, h, {"out", "force", "vt52", "press", "release", "format"})
    BY <1>8, <2>2, <2>4 DEF MouseBut
  <2>6. h.out = <<>> /\ h.format = state.format
    BY <1>8, <2>2, <2>4 DEF MouseBut, MouseFields
  <2>7. Commanded(state, h)
    BY <1>9, <2>5, <2>6, OtherField
  <2> QED BY <1>4, <2>1, <2>7
<1>15. ASSUME NEW top, NEW left, NEW right, Pointer!DECEFR(top, left, right) PROVE MouseInv(state')
  <2>1. PICK fifth \in {state.p[1], 1} : Pointer!Do([Pointer!mouse_set_filter(c, left, top, right, fifth) EXCEPT !.exits = 0])
    BY <1>8, <1>15 DEF Pointer!DECEFR
  <2> DEFINE h == [Pointer!mouse_set_filter(c, left, top, right, fifth) EXCEPT !.exits = 0]
  <2>2. Commanded(state, h)
    BY FilterKeeps
  <2>3. Pointer!Do(h)
    BY <2>1
  <2> HIDE DEF h
  <2> QED BY <1>4, <2>2, <2>3
<1>16. CASE Pointer!DECRQLP
  <2> DEFINE h == Pointer!mouse_report_locator(c, 1, state.p, state.held)
  <2>1. Pointer!Do(h)
    BY <1>8, <1>16 DEF Pointer!DECRQLP
  <2>2. Commanded(state, h)
    BY AskedWhere
  <2> HIDE DEF h
  <2> QED BY <1>4, <2>1, <2>2
<1>17. CASE Pointer!term_toggle_force_mouse_mode
  <2> DEFINE x == ~c.force
  <2>1. Pointer!Do([c EXCEPT !["force"] = x])
    BY <1>17, Zenon DEF Pointer!term_toggle_force_mouse_mode, Pointer!Clear
  <2> HIDE DEF c, x
  <2> QED BY <1>10, <2>1
<1>18. CASE Pointer!Vt52
  <2> DEFINE x == ~c.vt52
  <2>1. Pointer!Do([c EXCEPT !["vt52"] = x])
    BY <1>18, Zenon DEF Pointer!Vt52, Pointer!Clear
  <2> HIDE DEF c, x
  <2> QED BY <1>10, <2>1
<1> QED BY <1>5, <1>6, <1>7, <1>11, <1>12, <1>13, <1>14, <1>15, <1>16, <1>17, <1>18, Zenon DEF Pointer!Next

(* The invariant says what is checked. *)
LEMMA MouseMeans ==
    ASSUME MouseInv(state)
    PROVE  /\ Pointer!ButtonsTold /\ Pointer!DragNames /\ Pointer!InGrid
           /\ Pointer!Once /\ Pointer!MotionHeard /\ Pointer!NotRepeated
<1>1. Pointer!ButtonsTold
  BY DEF MouseInv, ButtonsOK, Pointer!ButtonsTold
<1>2. OnceOK(state) /\ HeardOK(state) /\ OutOK(state)
  BY DEF MouseInv
<1>3. Pointer!Once
  <2>1. state.shots \in {0, 1} \/ ~state.oneshots
    BY <1>2, Zenon DEF OnceOK
  <2>2. state.exits \in {0, 1}
    BY <1>2 DEF OnceOK
  <2> QED BY <2>1, <2>2 DEF Pointer!Once
<1>4. Pointer!MotionHeard
  BY <1>2, Zenon DEF HeardOK, Pointer!MotionHeard
<1>5. CASE state.out = <<>>
  <2>1. DOMAIN state.out = {}
    BY <1>5
  <2> QED BY <1>1, <1>3, <1>4, <1>5, <2>1 DEF Pointer!DragNames, Pointer!InGrid, Pointer!NotRepeated
<1>6. ASSUME NEW r, state.out = <<r>>,
             LocatorReport(r) \/ (r.kind = "mouse" /\ DragOK(state, r) /\ GridOK(r) /\ MovedOK(state, r))
      PROVE  Pointer!DragNames /\ Pointer!InGrid /\ Pointer!NotRepeated
  <2>1. \A k \in DOMAIN state.out : state.out[k] = r
    BY <1>6
  <2>2. state.out[1] = r
    BY <1>6
  <2>3. CASE LocatorReport(r)
    <3>1. r.kind # "mouse" /\ (r.kind = "locator" => r.x \in 1..Pointer!Width /\ r.y \in 1..Pointer!Height)
      BY <2>3 DEF LocatorReport
    <3>2. Pointer!DragNames
      BY <2>1, <3>1, Zenon DEF Pointer!DragNames
    <3>3. Pointer!InGrid
      BY <2>1, <3>1, Zenon DEF Pointer!InGrid
    <3>4. Pointer!NotRepeated
      BY <2>2, <3>1, Zenon DEF Pointer!NotRepeated
    <3> QED BY <3>2, <3>3, <3>4
  <2>4. CASE r.kind = "mouse" /\ DragOK(state, r) /\ GridOK(r) /\ MovedOK(state, r)
    <3>1. Pointer!DragNames
      BY <2>1, <2>4, Zenon DEF Pointer!DragNames, DragOK
    <3>2. Pointer!InGrid
      <4>1. r.kind # "locator"
        BY <2>4
      <4> QED BY <2>1, <2>4, <4>1, Zenon DEF Pointer!InGrid, GridOK
    <3>3. Pointer!NotRepeated
      BY <2>2, <2>4, Zenon DEF Pointer!NotRepeated, MovedOK
    <3> QED BY <3>1, <3>2, <3>3
  <2> QED BY <1>6, <2>3, <2>4
<1> QED BY <1>1, <1>2, <1>3, <1>4, <1>5, <1>6, Zenon DEF OutOK

MouseHolds == part = "mouse" => MouseInv(state)

(* What programs are told of the mouse is where it is and which buttons    *)
(* are down, once: of any number of events and commands, for any points of *)
(* a window of any size and any programs that MouseAssumption has, with    *)
(* and without links (mouse_handle_input(), mouse_report_locator(), the    *)
(* commands of the locator and of the mouse modes).                        *)
THEOREM MouseIsRight == FrontSpec => []MouseRight
<1>1. FrontInit => MouseHolds
  BY MouseStart DEF FrontInit, Chosen, MouseHolds
<1>2. MouseHolds /\ [FrontNext]_all => MouseHolds'
  <2> SUFFICES ASSUME MouseHolds, [FrontNext]_all, part' = "mouse"
               PROVE  MouseInv(state')
    BY DEF MouseHolds
  <2>1. part = "mouse" /\ (Pointer!Next \/ state' = state)
    BY DEF FrontNext, all
  <2> QED BY <2>1, MouseStep DEF MouseHolds
<1>3. MouseHolds => MouseRight
  BY MouseMeans DEF MouseHolds, MouseRight
<1> QED BY <1>1, <1>2, <1>3, PTL DEF FrontSpec
=============================================================================
