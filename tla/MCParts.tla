------------------------------ MODULE MCParts -------------------------------
(***************************************************************************)
(* Parts of the program one beside the other, each with constants of its   *)
(* own: the parser, rectangles and attributes, what is saved of the        *)
(* cursor, what is selected, printed and found to be a link, and the       *)
(* keyboards, pointers and selections of Wayland and X11. A behaviour is   *)
(* one of the part that its first state chose.                             *)
(***************************************************************************)
EXTENDS Integers, Sequences

VARIABLES part, state
vars == <<part, state>>

Stream(level, utf8, bytes) == [level |-> level, utf8 |-> utf8, bytes |-> bytes]
StreamsDef ==
    {Stream(4, TRUE, {"ESC", "[", "1", ";", ":", "?", "m"}), Stream(1, FALSE, {"ESC", "[", "NUL", "DEL", "HI", "IND", "m"}),
     Stream(4, TRUE, {"[", "m", "IND", "LEAD", "SP", "CAN", "ESC"}), Stream(4, TRUE, {"ESC", "P", "1", ":", "\\"}),
     Stream(4, TRUE, {"ESC", "P", "SP", "BEL"}), Stream(4, TRUE, {"ESC", "P", "LEAD", "ST"}),
     Stream(4, FALSE, {"ESC", "P", "\\", "LEAD", "CAN"}), Stream(4, TRUE, {"ESC", "]", "1", ";", "BEL"}),
     Stream(4, TRUE, {"ESC", "]", ";", "l", "\\"}), Stream(4, TRUE, {"ESC", "]", ";", "ST", "LEAD", "HI"}),
     Stream(1, TRUE, {"ESC", "]", ";", "ST", "BEL", "X"}), Stream(0, TRUE, {"ESC", "X", "l", "CAN", "NUL"})}
Parser == INSTANCE EscapeParser WITH
    pair <- state, Streams <- StreamsDef, ESC_MAX_PARAM <- 2, ESC_MAX_STR <- 3, MaxChunk <- 2, MaxStr <- 2,
    ControlsInStrings <- FALSE, Abandoned <- FALSE

Cells == INSTANCE Regions WITH
    scr <- state, Width <- 3, Height <- 3, Amounts <- {1, 2, 5}, Lines <- {1, 2, 9}, Columns <- {1, 2, 9}, TopBeyondLeft <- FALSE

Sub == 1000
SgrGroups ==
    {<<0>>, <<1>>, <<22>>, <<3>>, <<23>>, <<4>>, <<4, 3 + Sub>>, <<21>>, <<24>>, <<31>>, <<39>>, <<41>>, <<49>>, <<59>>, <<95>>,
     <<38, 5, 200>>, <<38, 5 + Sub, 200 + Sub>>, <<48, 2, 7, 8, 9>>, <<48, 2 + Sub, 7 + Sub, 8 + Sub, 9 + Sub>>,
     <<48, 2 + Sub, 1 + Sub, 7 + Sub, 8 + Sub, 9 + Sub>>, <<58, 5, 3>>, <<58, 2, 1, 1, 1>>, <<38, 7>>}
Attributes == INSTANCE Sgr WITH sgr <- state, ESC_MAX_PARAM <- 32, Groups <- SgrGroups

Cursor == INSTANCE CursorState WITH
    t <- state, Width <- 2, Height <- 2, TabWidth <- 1, MaxCommands <- 3, vt_version <- 5, extended_cir <- TRUE,
    Sets <- {"french", "turkish", "dec_sup_graph", "latin_5", "french_canadian"},
    Characters <- {35, 36, 38, 64, 65, 92, 123, 163, 168, 176, 215, 233, 255, 338, 376, 287, 304, 9500}

Paragraph(cells, wrapped, ps1, cmd) == [cells |-> cells, wrapped |-> wrapped, ps1 |-> ps1, cmd |-> cmd]
Plain(cells, wrapped) == Paragraph(cells, wrapped, FALSE, FALSE)
User(L, mods, snaps, points, does) == [L |-> L, mods |-> mods, snaps |-> snaps, points |-> points, does |-> does]
UsersDef ==
    {User(<<Plain(<<1, 1, 0>>, TRUE), Paragraph(<<0, 1>>, FALSE, FALSE, TRUE), Paragraph(<<>>, FALSE, TRUE, FALSE)>>,
          {{}}, {"none", "word"}, {<<1, 0>>, <<0, 1>>}, {"view"}),
     User(<<Paragraph(<<1, 1>>, TRUE, TRUE, FALSE), Plain(<<0, 1>>, FALSE)>>, {{}}, {"line"}, {<<1, 0>>, <<1, 1>>}, {"write"}),
     User(<<Plain(<<1, 1, 0, 1>>, FALSE), Paragraph(<<1>>, FALSE, TRUE, FALSE)>>,
          {{"rect"}}, {"none", "command"}, {<<1, 0>>, <<0, 1>>}, {"lines"}),
     User(<<Plain(<<1, 1, 1>>, FALSE), Plain(<<1>>, FALSE)>>, {{"control"}}, {"none"}, {<<0, 0>>, <<1, 0>>, <<0, 1>>}, {}),
     User(<<Plain(<<1, 0>>, TRUE), Plain(<<0>>, FALSE)>>, {{}, {"shift"}}, {"word"}, {<<1, 0>>, <<0, 1>>}, {"lines"})}
Select == INSTANCE Selection WITH
    g <- state, Width <- 2, Height <- 2, Users <- UsersDef, keep_selection <- FALSE, MaxCommands <- 4, LeavesPressed <- FALSE

Printing(command, start, bytes, commands) == [command |-> command, start |-> start, bytes |-> bytes, commands |-> commands]
PrintingDef ==
    {Printing(FALSE, <<"CSI", "5", "i">>, {"CSI", "4", "i", "x"}, {}),
     Printing(FALSE, <<"CSI", "5", "i", "ESC">>, {"ESC", "[", "4", "5", "i"}, {}),
     Printing(FALSE, <<"CSI", "5", "i", "CSI", "4", "i">>, {"CSI", "NUL", "i", "5"}, {"print"}),
     Printing(FALSE, <<>>, {"x"}, {"newline", "margins", "auto", "extend", "feed", "print"}),
     Printing(TRUE, <<"CSI">>, {"5", "i"}, {"print"})}
Paper == INSTANCE Printer WITH
    p <- state, Programs <- PrintingDef, Height <- 3, MaxRead <- 4, MaxText <- 4, MaxSteps <- 4,
    PartialWrites <- FALSE

Output(start, bytes, more) == [start |-> start, bytes |-> bytes, more |-> more]
OutputsDef ==
    {Output(<<"p", ":", "/", "/">>, {"x", "1", "@", ":", "%", " "}, 3),
     Output(<<"p", ":", "/", "/", "x">>, {"/", "?", "#", "NL", "x"}, 4),
     Output(<<"x", "p", ":", "/", "/">>, {"#", "1", "%", " "}, 5),
     Output(<<"f", ":", "/">>, {"/", "'", "%", "NL", " "}, 3),
     Output(<<"p", ":", "/", "/", "x", "ALT", "p", ":", "/", "/", "x", " ", "ALT", "p", ":", "/", "/", "?">>, {"ALT", "p", " "}, 2),
     Output(<<"p", ":", "/", "/", "x">>, {"OSC8", "SIZE", "p", "/", " "}, 3),
     Output(<<"SIZE", "OSC8", "p", ":", "/", "/", "x", " ", "OSC8", "p", ":", "/", "/">>, {"x", "SIZE", " "}, 2)}
Uris == INSTANCE UriMatch WITH reader <- state, Width <- 4, Streams <- OutputsDef, MaxChunk <- 3

Keyboards == INSTANCE Seats WITH
    s <- state, Seat <- {1, 2}, Window <- {1, 2}, Keys <- {1, 2}, MaxEvents <- 3, MaxPart <- 2, MaxText <- 3, MaxSteps <- 5,
    InFlight <- FALSE, Bursts <- FALSE,
    Situations <- {{"focus", "key", "repeat", "mode"}, {"focus", "key", "repeat", "close", "unplug"}, {"focus", "key", "paste"},
                   {"focus", "paste", "close"}, {"draw", "close"}, {"draw", "force"}}

Pointers(does, ssd) == [does |-> does, ssd |-> ssd]
Drawings(resize, uri, normal) == [resize |-> resize, uri |-> uri, normal |-> normal]
Frames == INSTANCE PointerFrames WITH
    h <- state, Window <- {"a", "b"}, Points <- {"cells", "edge", "top"}, Values <- {120, -240, 60, -80},
    Situations <- {Pointers({"frames", "close"}, FALSE), Pointers({"frames", "wheel"}, TRUE),
                   Pointers({"frames", "cursors", "close"}, FALSE)},
    Configs <- {Drawings("fleur", "hand", "xterm"), Drawings("lost", "xterm", "lost")},
    Images <- {"fleur", "hand", "xterm", "default"}, Names <- {"hand", "", "default"}, MaxSteps <- 5, Abrupt <- FALSE

Exchange(does, bracketed, own, other) == [does |-> does, bracketed |-> bracketed, own |-> own, other |-> other]
Bytes(first, last) == [i \in 1..(last - first + 1) |-> first + i - 1]
Clips == INSTANCE XSelection WITH
    x <- state, Block <- 4, MaxWhole <- 9, MaxSteps <- 5, InFlight <- FALSE,
    Sessions <- {Exchange({"paste", "select", "take", "write", "set"}, TRUE, {<<>>, <<1>>, Bytes(1, 5)}, Bytes(6, 14)),
                 Exchange({"paste", "query", "select", "take"}, TRUE, {Bytes(1, 4), Bytes(1, 7)}, Bytes(11, 18)),
                 Exchange({"paste", "overlap"}, TRUE, {}, Bytes(11, 15)),
                 Exchange({"paste", "take"}, FALSE, {}, Bytes(1, 11))}

Init ==
    \/ part = "parser" /\ Parser!Init
    \/ part = "cells" /\ Cells!Init
    \/ part = "attributes" /\ Attributes!Init
    \/ part = "cursor" /\ Cursor!Init
    \/ part = "selection" /\ Select!Init
    \/ part = "printer" /\ Paper!Init
    \/ part = "uris" /\ Uris!Init
    \/ part = "seats" /\ Keyboards!Init
    \/ part = "frames" /\ Frames!Init
    \/ part = "clipboard" /\ Clips!Init
Next == /\ UNCHANGED part
        /\ \/ part = "parser" /\ Parser!Next
           \/ part = "cells" /\ Cells!Next
           \/ part = "attributes" /\ Attributes!Next
           \/ part = "cursor" /\ Cursor!Next
           \/ part = "selection" /\ Select!Next
           \/ part = "printer" /\ Paper!Next
           \/ part = "uris" /\ Uris!Next
           \/ part = "seats" /\ Keyboards!Next
           \/ part = "frames" /\ Frames!Next
           \/ part = "clipboard" /\ Clips!Next
Spec == Init /\ [][Next]_vars

----------------------------------------------------------------------------
(* The same bytes have the same effect however they are split into reads,  *)
(* and no sequence finds parameters of the one before it (EscapeParser).   *)
ParserRight == part = "parser" => Parser!SameOutput /\ Parser!ParamsClean

(* Operations on rectangles, columns and rows change those cells and no    *)
(* other, whatever overlaps, and motions stop at the margins (Regions).    *)
CellsRight ==
    part = "cells" => Cells!RectExact /\ Cells!ShiftExact /\ Cells!CursorKept /\ Cells!LeftInOrder

(* Each group of parameters is what it is alone, and an attribute that is  *)
(* reported is decoded to itself (Sgr).                                    *)
AttributesRight == part = "attributes" => Attributes!Grouped /\ Attributes!Reported

(* What was reported of the cursor and the tab stops is what is restored,  *)
(* and an encoded character comes back as itself (CursorState, Charsets).  *)
CursorRight == part = "cursor" => Cursor!Restored /\ Cursor!SameCharacter

(* What is selected is what was meant, drawn again where it turned and     *)
(* offered to others, whatever the paragraphs do under it (Selection).     *)
SelectionRight ==
    part = "selection" =>
        /\ Select!SelectedIsMeant /\ Select!TurnedIsDrawn /\ Select!OfferedIsSelected
        /\ Select!NothingOver /\ Select!DrawnIsSelected

(* The printer gets what is for it and nothing else however the output is  *)
(* split into reads, but for sequences that a read cuts and that then are  *)
(* none, and a command that ended while its watcher is in the list is not  *)
(* signalled (Printer).                                                    *)
PrinterRight == part = "printer" => Paper!PaperExact /\ Paper!NoStray

(* The links found are the URIs of the output however it is split into    *)
(* reads, but those whose protocol's name was last in a read: the code     *)
(* loses them (UriMatch).                                                  *)
UrisRight == part = "uris" => Uris!LinkExact /\ Uris!WordsLinked /\ Uris!SameLinks

(* Keys repeat while they are held, weak pointers are linked where they    *)
(* point, pastes are whole, and frames come (Seats).                       *)
SeatsRight ==
    part = "seats" =>
        /\ Keyboards!RepeatHeld /\ Keyboards!Linked /\ Keyboards!LastSeat
        /\ Keyboards!PasteWhole /\ Keyboards!FrameComes

(* The pointer, its buttons and its wheel are the window's they are in,    *)
(* and images are counted (PointerFrames).                                 *)
FramesRight ==
    part = "frames" =>
        /\ Frames!PointerHere /\ Frames!ButtonsHeld /\ Frames!WheelExact
        /\ Frames!LastPlace /\ Frames!Counted /\ Frames!ImageShown

(* What is pasted comes whole and framed as asked, and what the window     *)
(* offers is what was selected or set last (XSelection).                   *)
ClipboardRight == part = "clipboard" => Clips!PastedWhole /\ Clips!OfferedIsMeant
=============================================================================
