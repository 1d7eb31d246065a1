----------------------------- MODULE MCFrontend -----------------------------
(***************************************************************************)
(* What the terminal keeps for those who use it, one part beside the       *)
(* other: the attributes and links of paragraphs (Lines, whose constants   *)
(* the cfg gives), the modes, the palette and the reports of the mouse     *)
(* that programs ask for, what a window hides, blinks and is titled, and   *)
(* the daemon that opens windows. A behaviour is one of the part that its  *)
(* first state chose.                                                      *)
(***************************************************************************)
EXTENDS Lines, Integers

CONSTANTS
    Parts,          \* those that the first state may choose
    Launches,       \* clients and daemons
    MayKill,        \* clients and daemons may be killed
    MousePrograms, MouseSteps, MouseBorder, MouseCell, MouseCols, MouseRows, MouseLinks, MouseUris,    \* of the mouse: those of Mouse
    WindowSessions, WindowTitles, MaxTitles, WindowSteps,   \* of windows: those of Effects
    NewColors,      \* those that programs set
    ColorsCursor,       \* what the background under the cursor is configured to
    ReverseConfigured,  \* reverse video is
    ModeGroups, ModeVersions, ModesConfigured, ModeLinks    \* of modes: those of TermModes

ASSUME ColorsAssumption == ReverseConfigured \in BOOLEAN

VARIABLES part, state
all == <<part, state, vars>>

(* Lines: a style has the hash 0 or 1; its links may change places *)
HashDef == [s \in Styles |-> IF s = "plain" THEN 0 ELSE 1]
Links == Permutations(Keys)

Reporter(commands, points, buttons, mods) == [commands |-> commands, points |-> points, buttons |-> buttons, mods |-> mods]
ReportersDef ==
    {Reporter({"drag", "motion", "sgr", "force"}, {<<1, 1>>, <<2, 2>>, <<3, 1>>}, {0, 3}, {{}}),
     Reporter({"button", "drag", "utf8", "none"}, {<<1, 1>>, <<3, 1>>}, {0, 1}, {{}, {"control"}}),
     Reporter({"motion", "pixel", "uxvt", "vt52"}, {<<1, 1>>, <<2, 2>>}, {0, 2}, {{"shift"}}),
     Reporter({"x10"}, {<<445, 1>>, <<447, 3>>, <<1, 1>>, <<500, 0>>}, {0, 7}, {{"mod_1"}}),
     Reporter({"motion", "sgr"}, {<<445, 1>>, <<1, 1>>}, {0, 7}, {{}}),
     Reporter({"DECELR", "DECSLE", "DECRQLP"}, {<<1, 1>>, <<3, 3>>, <<0, 0>>}, {0}, {{}}),
     Reporter({"DECELR", "DECEFR", "motion"}, {<<1, 1>>, <<3, 3>>}, {0}, {{}}),
     Reporter({}, {<<1, 1>>, <<3, 3>>, <<6, 1>>}, {0, 1, 3}, {{}, {"shift"}, {"mod_1"}})}
LinkCellsDef == {<<0, 0>>, <<2, 0>>}
Pointer == INSTANCE Mouse WITH
    m <- state, Border <- MouseBorder, Cell <- MouseCell, Cols <- MouseCols, Rows <- MouseRows, LinkCells <- MouseLinks,
    USE_URI <- MouseUris, Programs <- MousePrograms, MaxEvents <- MouseSteps

(* A window of any size, and users for whom a report says what happened:   *)
(* buttons up to the 11th, whose codes are not those of motions, the       *)
(* modifiers that reports have, and in the modes that tell more than       *)
(* presses no point too far for a character of the default format.         *)
Reporting == {"button", "drag", "motion"}
Characters == 0..222
MouseButtons == 0..10
ASSUME MouseAssumption ==
    /\ \A p \in MousePrograms :
        /\ p.points \subseteq Int \X Int /\ p.buttons \subseteq MouseButtons /\ p.mods \subseteq SUBSET {"shift", "mod_1", "control"}
        /\ p.commands \cap Reporting # {} =>
               \A at \in p.points : Pointer!adj_coords(at, FALSE) \in Characters \X Characters
    /\ MouseBorder \in Nat /\ MouseCell \in Nat \ {0} /\ MouseCols \in Nat \ {0} /\ MouseRows \in Nat \ {0}
    /\ MouseUris \in BOOLEAN

Cfg(allow, shape, cursor, pointer) ==
    [allow_blinking |-> allow, blinking_shape |-> shape, cursor_hide_on_input |-> cursor, pointer_hide_on_input |-> pointer]
Session(cfg, next, does) == [cfg |-> cfg, next |-> next, does |-> does]
SessionsDef ==
    {Session(Cfg(TRUE, TRUE, TRUE, TRUE), Cfg(TRUE, FALSE, FALSE, FALSE), {"output", "text", "reload", "key", "motion"}),
     Session(Cfg(TRUE, TRUE, FALSE, TRUE), Cfg(TRUE, TRUE, TRUE, TRUE), {"output", "text", "reload"}),
     Session(Cfg(TRUE, FALSE, FALSE, TRUE), Cfg(TRUE, TRUE, TRUE, FALSE), {"output", "text", "reload"}),
     Session(Cfg(FALSE, FALSE, FALSE, TRUE), Cfg(TRUE, TRUE, FALSE, TRUE), {"output", "reload"}),
     Session(Cfg(TRUE, FALSE, FALSE, TRUE), Cfg(TRUE, FALSE, FALSE, FALSE), {"key", "motion", "mode", "reload"}),
     Session(Cfg(TRUE, FALSE, FALSE, FALSE), Cfg(TRUE, FALSE, FALSE, FALSE), {"title"})}
Looks == INSTANCE Effects WITH
    w <- state, Sessions <- WindowSessions, Titles <- WindowTitles, MaxStack <- MaxTitles, MaxSteps <- WindowSteps

(* The configurations for which the cursor comes back: what blinks has a   *)
(* timer, a cursor that is hidden on input blinks, and a window that has   *)
(* the timer keeps it. And titles are names.                               *)
AnyCfg == [allow_blinking : BOOLEAN, blinking_shape : BOOLEAN,
           cursor_hide_on_input : BOOLEAN, pointer_hide_on_input : BOOLEAN]
AnySession == [cfg : AnyCfg, next : AnyCfg, does : SUBSET STRING]
Supported(cfg) == (cfg.cursor_hide_on_input => cfg.blinking_shape) /\ (cfg.blinking_shape => cfg.allow_blinking)
ASSUME WindowsAssumption ==
    /\ \A s \in WindowSessions :
        /\ s \in AnySession /\ Supported(s.cfg) /\ Supported(s.next)
        /\ s.cfg.allow_blinking => s.next.allow_blinking
    /\ Looks!NULL \notin WindowTitles

Item(kind, value) == [kind |-> kind, value |-> value]
Caller(demand, ends, items) == [demand |-> demand, ends |-> ends, items |-> items]
Several(clients, daemons, running) == [clients |-> clients, daemons |-> daemons, running |-> running]
LaunchesDef ==
    {Several(<<Caller(TRUE, "open", <<Item("long", "t"), Item("arg", "a"), Item("arg", ""), Item("arg", "b")>>),
               Caller(FALSE, "open", <<Item("short", "f"), Item("arg", "c")>>)>>, 1, FALSE),
     Several(<<Caller(FALSE, "open", <<Item("long", "t"), Item("long", "u")>>), Caller(TRUE, "quit", <<>>),
               Caller(TRUE, "open", <<Item("arg", "a")>>)>>, 2, TRUE),
     Several(<<Caller(TRUE, "version", <<>>), Caller(FALSE, "usage", <<>>)>>, 1, FALSE)}
(* Two clients, both of which may start the daemon *)
OnDemandDef == {Several(<<Caller(TRUE, "open", <<>>), Caller(TRUE, "open", <<>>)>>, 2, FALSE)}
Daemon == INSTANCE Launch WITH l <- state, Sessions <- Launches, Kills <- MayKill

(* What the command lines of clients have, and how a run may start: when a *)
(* daemon runs there is one.                                               *)
AnyItem == [kind : {"long", "short", "arg"}, value : STRING]
AnyClient == [demand : BOOLEAN, ends : {"open", "usage", "version", "quit"}, items : Seq(AnyItem)]
AnyLaunch == [clients : Seq(AnyClient), daemons : Nat, running : BOOLEAN]
ASSUME LaunchesAssumption == \A s \in Launches : s \in AnyLaunch /\ (s.running => s.daemons > 0)

Colors == INSTANCE Palette WITH pal <- state, CursorBg <- ColorsCursor, AnyOrder <- FALSE

ModeGroupsDef ==
    {{3, 40}, {7, 25}, {6, 1048, 1049}, {47, 1046}, {2, 69, -4}, {1047, 2}, {9, 1002, 1003}, {1005, 1006, 12},
     {1051, 1060, 1050}, {1037, 67}, {66, 2004, 2026}, {1011, 1, -20}, {2005, 2006}}
Modes == INSTANCE TermModes WITH
    term <- state, Groups <- ModeGroups, Versions <- ModeVersions, USE_URI <- ModeLinks, Vt52InAlt <- FALSE,
    ConfigOn <- ModesConfigured

(* Any modes that there are, any level, and a configuration that turns on  *)
(* no alternative screen: no option does.                                  *)
ASSUME ModesAssumption ==
    /\ \A modes \in ModeGroups : modes \subseteq Modes!Known
    /\ ModeVersions \subseteq Nat /\ ModeLinks \in BOOLEAN /\ "altscreen" \notin ModesConfigured

Chosen(p) == p \in Parts /\ part = p
FrontInit ==
    /\ Init
    /\ \/ Chosen("lines") /\ state = 0
       \/ Chosen("mouse") /\ Pointer!Init
       \/ Chosen("effects") /\ Looks!Init
       \/ Chosen("daemon") /\ Daemon!Init
       \/ Chosen("colors") /\ Colors!Init
       \/ Chosen("modes") /\ Modes!Init
FrontNext ==
    /\ UNCHANGED part
    /\ \/ part = "lines" /\ Next /\ UNCHANGED state
       \/ part = "mouse" /\ Pointer!Next /\ UNCHANGED vars
       \/ part = "effects" /\ Looks!Next /\ UNCHANGED vars
       \/ part = "daemon" /\ Daemon!Next /\ UNCHANGED vars
       \/ part = "colors" /\ Colors!Next /\ UNCHANGED vars
       \/ part = "modes" /\ Modes!Next /\ UNCHANGED vars
FrontSpec == FrontInit /\ [][FrontNext]_all

----------------------------------------------------------------------------
(* No number of an attribute points outside its table, no link is given    *)
(* back while something shows it, and the free list has all the slots that *)
(* were (Lines).                                                           *)
LinesRight == TypeOK /\ NumbersInTable /\ LinksCounted /\ SlotsExact

(* What programs are told of the mouse is where it is and which buttons    *)
(* are down, once (Mouse).                                                 *)
MouseRight ==
    part = "mouse" =>
        /\ Pointer!ButtonsTold /\ Pointer!DragNames /\ Pointer!InGrid
        /\ Pointer!Once /\ Pointer!MotionHeard /\ Pointer!NotRepeated

(* What is hidden for a time or blinks comes back, and so do titles that   *)
(* were pushed (Effects).                                                  *)
EffectsRight ==
    part = "effects" => Looks!InhibitEnds /\ Looks!CursorSettles /\ Looks!PointerAsAsked /\ Looks!TitleRestored

(* A window has the command line of one client, all of it, and the daemon  *)
(* keeps nothing of clients that ended (Launch).                           *)
LaunchRight == part = "daemon" => Daemon!WholeCommand /\ Daemon!Settled /\ Daemon!Reachable

(* What is drawn is the palette as programs set it, reversed once or not   *)
(* at all, and the window's own two colours are the palette's (Palette).   *)
ColorsRight == part = "colors" => Colors!PaletteExact /\ Colors!WindowColors

(* Modes are what was last requested when asked for or shown, motion is    *)
(* asked of the window exactly in the modes that report it, and a reset    *)
(* leaves what a new terminal has (TermModes).                             *)
ModesRight == part = "modes" => Modes!Answered /\ Modes!ShownIsMode /\ Modes!MotionAsked /\ Modes!ResetIsNew

(* A client that may start the daemon (-d) ends with its command sent when *)
(* a daemon listens: "Daemon can be auto-launched by nsstc on demand".     *)
OnDemand == part = "daemon" => Daemon!OnDemand
=============================================================================
