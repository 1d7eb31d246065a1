------------------------------ MODULE MCScreen -----------------------------
(***************************************************************************)
(* Two instances of Screen one beside the other: one that writes, scrolls  *)
(* and cuts (its constants are those of the cfg), and one that is resized. *)
(* A behaviour is one of the part that its first state chose.              *)
(***************************************************************************)
EXTENDS Screen

VARIABLE part

OneSize == {<<2, 2>>}
Fold == INSTANCE Screen WITH
    SB_MAX <- 1, MAX_LINE_LEN <- 2, Sizes <- {<<2, 1>>, <<1, 2>>}, MaxParagraphs <- 2,
    Features <- {"write", "resize", "alt", "save", "view", "shortcuts"}

ScreenInit == \/ part = "flow" /\ Init
              \/ part = "fold" /\ Fold!Init
ScreenNext == /\ UNCHANGED part
              /\ \/ part = "flow" /\ Next
                 \/ part = "fold" /\ Fold!Next
ScreenSpec == ScreenInit /\ [][ScreenNext]_<<part, scr>>

----------------------------------------------------------------------------
(* The rows of the main screen go on through its paragraphs without a gap, *)
(* every cursor and region is on the screen, and the order of the numbers  *)
(* of lines is that of the lists, history and view included.               *)
RowsGoOn == part = "flow" => TypeOK /\ MainValid /\ Ordered

(* A view that is at the bottom follows the output.                        *)
ViewFollows == [][part = "flow" => BottomStays]_<<part, scr>>

(* After any resize the cursor is on the character it was on, and so is a  *)
(* saved one whose character is still on the screen, the view is in the    *)
(* history or on the screen, and the alternative screen has one paragraph  *)
(* for each row.                                                           *)
Refolded == part = "fold" => Fold!CursorStays /\ Fold!ViewInside /\ Fold!AltValid
=============================================================================
