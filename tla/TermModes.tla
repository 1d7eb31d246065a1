------------------------------ MODULE TermModes -----------------------------
(***************************************************************************)
(* term.c: the modes that programs set, reset, query, save and restore     *)
(* (SM, RM, DECSET, DECRST, DECRQM, XTSAVE, XTRESTORE), VT52 mode, resets  *)
(* and the levels of emulation, with the parts of the screen and of the    *)
(* window that they switch.                                                *)
(*                                                                         *)
(* A mode is the number of the private mode, or minus the number of the    *)
(* ANSI mode. Most modes are one flag. Reports are not modelled.           *)
(***************************************************************************)
EXTENDS Integers, Sequences

CONSTANTS
    Groups,          \* bound: sets of modes that are used together
    Versions,        \* bound: vt_version / 100, from the configuration
    ConfigOn,        \* flags that the configuration turns on
    USE_URI,
    Vt52InAlt        \* TRUE: VT52 mode is entered in the alternative screen too

VARIABLE term
vars == term

----------------------------------------------------------------------------
Table(pairs) == [n \in {p[1] : p \in pairs} |-> (CHOOSE p \in pairs : p[1] = n)[2]]
(* The flags, by the structure they are in *)
TermFlag ==
    {<<3, "columns_132">>, <<5, "reverse_video">>, <<35, "allow_change_font">>, <<40, "enable_columns_132">>, <<42, "enable_nrcs">>,
     <<95, "preserve_display_132">>, <<1004, "track_focus">>, <<1007, "altscreen_scroll">>,
     <<1010, "scroll_on_output">>, <<1011, "no_scroll_on_input">>, <<1042, "bell_urgent">>, <<1043, "bell_raise">>,
     <<1044, "keep_clipboard">>, <<2004, "bracketed_paste">>, <<2005, "paste_quote">>, <<2006, "paste_literal_nl">>,
     <<2048, "inband_resize">>, <<-12, "echo">>, <<-20, "crlf">>}
ScreenFlag ==
    {<<4, "smooth_scroll">>, <<7, "wrap">>, <<18, "print_form_feed">>, <<19, "print_extend">>, <<25, "hide_cursor">>,
     <<41, "xterm_more_hack">>, <<44, "margin_bell">>, <<45, "reverse_wrap">>, <<69, "lr_margins">>, <<-4, "insert">>}
KeyFlag ==
    {<<1, "appcursor">>, <<66, "appkey">>, <<67, "backspace_is_del">>, <<1034, "has_meta">>, <<1035, "allow_numlock">>,
     <<1036, "meta_escape">>, <<1037, "backspace_is_del">>, <<-2, "keylock">>}
(* The window, the selection and the cursor *)
OtherFlag == {<<8, "autorepeat">>, <<1040, "keep_selection">>, <<1041, "select_to_clipboard">>, <<6, "origin">>}
Flag == Table(TermFlag \cup ScreenFlag \cup KeyFlag \cup OtherFlag)
Inverted == {25, 67, 1011}

MouseModes == Table({<<9, "x10">>, <<1000, "button">>, <<1002, "drag">>, <<1003, "motion">>})
MouseFormats == Table({<<1005, "utf8">>, <<1006, "sgr">>, <<1015, "uxvt">>, <<1016, "pixel">>})
Keymaps == Table({<<1051, "sun">>, <<1052, "hp">>, <<1053, "sco">>, <<1060, "legacy">>, <<1061, "vt220">>})
AltModes == {47, 1047, 1049}
AlwaysReset == {10, 13, 14, 30, 80, 1001, 1050, -1, -5, -7, -10, -11, -13, -14, -15, -16, -17, -18, -19}

TermFlags == {p[2] : p \in TermFlag}
ScreenFlags == {p[2] : p \in ScreenFlag} \cup {"altscreen", "disable_altscreen"}
KeyFlags == {p[2] : p \in KeyFlag}

Known ==
    DOMAIN Flag \cup DOMAIN MouseModes \cup DOMAIN MouseFormats \cup DOMAIN Keymaps \cup AltModes \cup AlwaysReset
        \cup {2, 12, 1046, 1048, 2026}

(* Those that CHK_VT() keeps out of lower levels *)
Needs(n) == CASE n = 42 -> 3 [] n = 69 -> 4 [] n = 95 -> 5 [] OTHER -> 0
Allowed(t, n) ==
    /\ t.level >= Needs(n)
    /\ n = 3 => "enable_columns_132" \in t.on
    /\ n \in AltModes => "disable_altscreen" \notin t.on

----------------------------------------------------------------------------
With(t, flags, b) == [t EXCEPT !.on = IF b THEN @ \cup flags ELSE @ \ flags]
Put(t, flag, b) == With(t, {flag}, b)

(* DECSC and DECRC, of the cursor only the origin mode *)
screen_save_cursor(t, save) == IF save THEN [t EXCEPT !.saved = "origin" \in t.on] ELSE Put(t, "origin", t.saved)
screen_swap_screen(t) ==
    [Put(t, "altscreen", "altscreen" \notin t.on) EXCEPT
        !.saved = t.back, !.back = t.saved, !.shown = IF "altscreen" \in t.on THEN "main" ELSE "alt"]

SavedBefore(t, set, save) == IF set /\ save THEN screen_save_cursor(t, TRUE) ELSE t
RestoredAfter(t, set, save) == IF ~set /\ save THEN screen_save_cursor(t, FALSE) ELSE t
screen_set_altscreen(t, set, save) ==
    IF "disable_altscreen" \in t.on \/ set = ("altscreen" \in t.on) THEN t
    ELSE RestoredAfter(screen_swap_screen(SavedBefore(t, set, save)), set, save)

(* window_set_mouse(): whether the window gets the motion of the pointer *)
window_set_mouse(t, motion) == [t EXCEPT !.motion = motion]

(* VT52 mode starts from the structures cleared, and gives them back *)
KeptInVt52 == KeyFlags \cup {"autorepeat", "keep_selection", "select_to_clipboard", "reverse_video"}
InVt52(t) == {"wrap"} \cup (t.on \cap KeptInVt52)
EnterVt52(t) ==
    screen_set_altscreen(
        [t EXCEPT !.level = 0, !.on = InVt52(t),
                  !.vt52 = t.on \cap (TermFlags \cup ScreenFlags \cup {"origin"})], FALSE, FALSE)
Given(t) == (t.on \ (TermFlags \cup ScreenFlags \cup {"origin"})) \cup (t.vt52 \ {"altscreen"})
LeaveVt52(t) ==
    screen_set_altscreen([t EXCEPT !.level = 1, !.on = Given(t)], "altscreen" \in t.vt52, FALSE)
term_set_vt52(t, set) == IF set THEN EnterVt52(t) ELSE LeaveVt52(t)

(* Cursors come in pairs, the odd one blinks *)
BlinkShape(shape, set) == (2 * ((shape + 1) \div 2)) - (IF set THEN 1 ELSE 0)

(* term_srm() *)
SetMouse(t, n, set) == window_set_mouse([t EXCEPT !.mouse = IF set THEN MouseModes[n] ELSE "none"], (n = 1003 /\ set) \/ USE_URI)

AllowAlt(t, set) == Put(IF set THEN t ELSE screen_set_altscreen(t, FALSE, FALSE), "disable_altscreen", ~set)
SetFlag(t, n, set) == IF Allowed(t, n) THEN Put(t, Flag[n], set # (n \in Inverted)) ELSE t
term_srm(t, n, set) ==
    CASE n = 2 -> IF set THEN t ELSE term_set_vt52(t, TRUE)
      [] n = 12 -> [t EXCEPT !.shape = BlinkShape(@, set)]
      [] n \in DOMAIN MouseModes -> SetMouse(t, n, set)
      [] n \in DOMAIN MouseFormats -> [t EXCEPT !.format = IF set THEN MouseFormats[n] ELSE "default"]
      [] n \in DOMAIN Keymaps -> [t EXCEPT !.keymap = IF set THEN Keymaps[n] ELSE "default"]
      [] n \in AltModes -> screen_set_altscreen(t, set, n = 1049)
      [] n = 1046 -> AllowAlt(t, set)
      [] n = 1048 -> screen_save_cursor(t, set)
      [] n = 2026 -> [t EXCEPT !.sync = set]
      [] n \in AlwaysReset -> t
      [] OTHER -> SetFlag(t, n, set)

(* term_get_mode(): modes 2005 and 2006 are queried the other way round,   *)
(* mode 1000 as mode 9                                                     *)
Status(b) == IF b THEN "set" ELSE "reset"
Asked(n) == CASE n = 2005 -> "paste_literal_nl" [] n = 2006 -> "paste_quote" [] OTHER -> Flag[n]
AskedMouse(n) == IF n = 1000 THEN "x10" ELSE MouseModes[n]
term_get_mode(t, n) ==
    CASE n = 2 -> "reset"
      [] n = 12 -> Status(t.shape % 2 = 1)
      [] n \in DOMAIN MouseModes -> Status(t.mouse = AskedMouse(n))
      [] n \in DOMAIN MouseFormats -> Status(t.format = MouseFormats[n])
      [] n \in DOMAIN Keymaps -> Status(t.keymap = Keymaps[n])
      [] n \in AltModes -> Status("altscreen" \in t.on)
      [] n = 1046 -> Status("disable_altscreen" \notin t.on)
      [] n = 1048 -> "always set"
      [] n = 2026 -> Status(t.sync)
      [] n \in AlwaysReset -> "always reset"
      [] OTHER -> Status((Asked(n) \in t.on) # (n \in Inverted))

(* XTSAVE and XTRESTORE: one slot for all mouse modes, one for the         *)
(* formats, one for the keyboards, and a bit for each other mode           *)
Slot(n) ==
    CASE n \in DOMAIN MouseModes \cup {1001} -> 9 [] n \in DOMAIN MouseFormats -> 1005
      [] n \in DOMAIN Keymaps \cup {1050} -> 1051 [] n \in AltModes -> 47 [] OTHER -> n
Saved(t, n) ==
    CASE Slot(n) = 9 -> [t EXCEPT !.savedMouse = t.mouse]
      [] Slot(n) = 1005 -> [t EXCEPT !.savedFormat = t.format]
      [] Slot(n) = 1051 -> [t EXCEPT !.savedKeymap = t.keymap]
      [] n = 2026 -> t
      [] OTHER -> [t EXCEPT !.bits = IF term_get_mode(t, n) = "set" THEN @ \cup {Slot(n)} ELSE @ \ {Slot(n)}]
xtsave(t, n) == IF term_get_mode(t, n) \in {"set", "reset"} THEN Saved(t, n) ELSE t
RestoredMouse(t) == window_set_mouse([t EXCEPT !.mouse = t.savedMouse], t.savedMouse = "motion" \/ USE_URI)
xtrestore(t, n) ==
    CASE Slot(n) = 9 -> RestoredMouse(t)
      [] Slot(n) = 1005 -> [t EXCEPT !.format = t.savedFormat]
      [] Slot(n) = 1051 -> [t EXCEPT !.keymap = t.savedKeymap]
      [] n = 1048 -> screen_save_cursor(t, FALSE)
      [] OTHER -> term_srm(t, Slot(n), Slot(n) \in t.bits)

(* term_load_config() and screen_load_config() *)
TermConfig == {"reverse_video", "no_scroll_on_input", "scroll_on_output", "keep_clipboard", "bell_raise", "bell_urgent"}
AlwaysConfig == TermConfig \cup {"smooth_scroll", "keep_selection", "select_to_clipboard"}
Reloaded(t) == [t EXCEPT !.on = (@ \ AlwaysConfig) \cup (ConfigOn \cap AlwaysConfig)]
(* Mutant: the screen is not left before its modes are reset *)
OnMain_stay(t) == t
OnMain(t) == screen_set_altscreen(t, FALSE, FALSE)
Defaults(t) ==
    window_set_mouse([t EXCEPT !.on = ConfigOn \cup {"enable_columns_132"}, !.mouse = "none", !.format = "default",
                               !.keymap = "default", !.saved = FALSE, !.back = FALSE], USE_URI)
Leveled(t) == IF t.version = 0 THEN EnterVt52([t EXCEPT !.level = 0]) ELSE [t EXCEPT !.level = t.version]
term_do_reset(t, hard) == IF hard THEN Leveled(Defaults(OnMain(t))) ELSE Defaults(OnMain(t))
DECSCL(t, p) == LET r == term_do_reset(t, TRUE) IN IF p \in 1..t.version THEN [r EXCEPT !.level = p] ELSE r

----------------------------------------------------------------------------
(* was holds what a query answered when the mode was saved, of the last    *)
(* mode of each slot. The modes of a group are those of the tables.        *)
New(version, group) ==
    Leveled([on |-> ConfigOn \cup {"enable_columns_132"}, mouse |-> "none", format |-> "default", keymap |-> "default",
             saved |-> FALSE, back |-> FALSE, shown |-> "main", motion |-> USE_URI, sync |-> FALSE, shape |-> 2,
             bits |-> {}, savedMouse |-> "none", savedFormat |-> "default", savedKeymap |-> "default",
             vt52 |-> {}, level |-> version, version |-> version, group |-> group, was |-> <<>>, did |-> <<"start">>])
Init == \E version \in Versions, group \in Groups : term = New(version, group)

Does(t, did) == term' = [t EXCEPT !.did = did]
(* Sequences of a VT52 are others *)
Ansi == term.level > 0
Set == \E n \in term.group, b \in BOOLEAN :
          /\ Ansi
          /\ n = 2 /\ ~b => Vt52InAlt \/ "altscreen" \notin term.on
          /\ Does(term_srm(term, n, b), <<"set", n, b>>)
Noted(t, slot, answer) == [t EXCEPT !.was = [k \in DOMAIN @ \cup {slot} |-> IF k = slot THEN answer ELSE @[k]]]
Save == \E n \in {k \in term.group : k > 0} :
           /\ Ansi
           /\ Does(Noted(xtsave(term, n), Slot(n), <<n, term_get_mode(term, n)>>), <<"save", n>>)
Restore == \E n \in {k \in term.group \ {2, 2026} : k > 0} : Ansi /\ Does(xtrestore(term, n), <<"restore", n>>)
SaveCursor == \E save \in BOOLEAN : Ansi /\ 6 \in term.group /\ Does(screen_save_cursor(term, save), <<"cursor">>)
ExitVt52 == term.level = 0 /\ term.version > 0 /\ Does(term_set_vt52(term, FALSE), <<"ansi">>)
Keypad == \E app \in BOOLEAN : 66 \in term.group /\ Does(Put(term, "appkey", app), <<"keypad">>)
Reset == \E hard \in BOOLEAN : Ansi /\ Does(term_do_reset(term, hard), <<"reset", hard>>)
ConformanceLevel == \E p \in 0..5 : Ansi /\ term.version >= 2 /\ Does(DECSCL(term, p), <<"level">>)
Reload == Does(Reloaded(term), <<"reload">>)

Next == Set \/ Save \/ Restore \/ SaveCursor \/ ExitVt52 \/ Keypad \/ Reset \/ ConformanceLevel \/ Reload
Spec == Init /\ [][Next]_vars

----------------------------------------------------------------------------
(* A query answers what has been set, and a mode restored is what it was   *)
(* when it was saved, whatever has been set, reset or entered meanwhile.   *)
(* Modes 2005, 2006 and 1000 are queried wrongly.                          *)
Asks(n) == term_get_mode(term, n)
SetAnswered(n, b) ==
    Allowed(term, n) /\ n \notin {2, 1000, 2005, 2006, 1048} \cup AlwaysReset => Asks(n) = Status(b)
RestoredAnswered(n) ==
    Allowed(term, n) /\ n \notin {1048, 2005, 2006} /\ Slot(n) \in DOMAIN term.was => Asks(term.was[Slot(n)][1]) = term.was[Slot(n)][2]
Answered ==
    /\ term.did[1] = "set" => SetAnswered(term.did[2], term.did[3])
    /\ term.did[1] = "restore" => RestoredAnswered(term.did[2])

(* The screen that is shown is the one the mode says, and an alternative   *)
(* screen that is disabled is not shown: through VT52 mode, resets and     *)
(* whatever else replaces the modes as a whole.                            *)
ShownIsMode ==
    /\ term.shown = IF "altscreen" \in term.on THEN "alt" ELSE "main"
    /\ "disable_altscreen" \in term.on => term.shown = "main"

(* The window is asked for motion exactly while the mode wants it: what    *)
(* window_set_mouse() was last told fits the mode that tracks.             *)
MotionAsked == term.motion = (term.mouse = "motion" \/ USE_URI)

(* After a hard reset nothing is left of what was set, but what has been   *)
(* saved, the shape of the cursor and a synchronized update.               *)
ResetIsNew ==
    LET new == New(term.version, term.group)
    IN  term.did = <<"reset", TRUE>> =>
            [term EXCEPT !.bits = {}, !.savedMouse = "none", !.savedFormat = "default", !.savedKeymap = "default",
                         !.vt52 = new.vt52, !.was = <<>>, !.did = <<"start">>, !.shape = 2, !.sync = FALSE] = new
=============================================================================
