----------------------------- MODULE XSelection -----------------------------
(***************************************************************************)
(* window-x11.c, window.c and term.c: what is selected in a window of nsst *)
(* and offered to other clients, and what is pasted into it, for one       *)
(* selection of the X server.                                              *)
(*                                                                         *)
(* Requests of the program reach the server in order, later, or at the     *)
(* next round trip; events wait until they are handled. Each iteration of  *)
(* receive_selection_data() is a round trip, and other clients act between *)
(* any two. A client with a long text sends it in parts (INCR), each when  *)
(* the property was deleted.                                               *)
(***************************************************************************)
EXTENDS Integers, Sequences, SequencesExt, FiniteSets

CONSTANTS
    Sessions,           \* the mode, the texts of the window and of the other client, what happens
    Block,              \* PASTE_BLOCK_SIZE, like it one more than a multiple of three
    MaxWhole,           \* the other client sends longer texts in parts
    MaxSteps,
    InFlight            \* clients act while the program has not handled what they did before

Lower(a, b) == IF a < b THEN a ELSE b
(* Bytes are numbers, and what frames them is below 0 *)
OPEN == <<-1>>
CLOSE == <<-2>>
OSC52 == <<-3>>
ST == <<-4>>
PAD == <<-5>>
NULL == <<>>
NoProp == [type |-> "none", bytes |-> <<>>]

(* x: owner, mask and prop are the server's (who has the selection, whether *)
(* the window is told of properties, the one that texts come in), clipped  *)
(* is win->clipped, highlight that the mouse selected it (targ), from that *)
(* a reply to OSC 52 is due. other is what the other client does. got is   *)
(* what the program in the terminal received, due what was answered,       *)
(* meant what the window should offer.                                     *)
VARIABLE x
Init == \E session \in Sessions, owner \in {"none", "other"} :
    x = [session |-> session, n |-> 0, owner |-> owner, mask |-> TRUE, prop |-> NoProp, reqs |-> <<>>, events |-> <<>>,
         clipped |-> NULL, highlight |-> FALSE, reading |-> FALSE, pnotify |-> FALSE, offset |-> 0,
         from |-> FALSE, bracketed |-> FALSE, leftover |-> <<>>, got |-> <<>>, due |-> <<>>, meant |-> NULL,
         other |-> [pc |-> "idle", asked |-> 0, rest |-> <<>>, told |-> FALSE]]

----------------------------------------------------------------------------
(* The server *)
Request(what, is, bytes) == [what |-> what, is |-> is, bytes |-> bytes]
Told(v, event) == [v EXCEPT !.events = Append(@, event)]
Put(v, type, bytes) ==
    LET w == [v EXCEPT !.prop = [type |-> type, bytes |-> bytes]] IN IF v.mask THEN Told(w, "property") ELSE w
Converted(v) ==
    CASE v.owner = "none" -> Told(v, "refused")
      [] v.owner = "nsst" -> Told(v, "request")
      [] v.owner = "other" -> [v EXCEPT !.other.asked = @ + 1]
Granted(v, r) ==
    CASE r.what = "convert" -> Converted(v)
      [] r.what = "delete" -> IF v.prop = NoProp THEN v ELSE [v EXCEPT !.prop = NoProp, !.other.told = TRUE]
      [] r.what = "mask" -> [v EXCEPT !.mask = r.is]
      [] r.what = "change" -> Put(v, "text", r.bytes)
      [] r.what = "notify" -> Told(v, IF r.is THEN "notify" ELSE "refused")
Sent(v, r) == [v EXCEPT !.reqs = Append(@, r)]
Flushed(v) == [FoldLeft(Granted, v, v.reqs) EXCEPT !.reqs = <<>>]

----------------------------------------------------------------------------
(* What is offered *)
x11_set_clip(v) == [Flushed(v) EXCEPT !.owner = "nsst"]
(* Mutant: without a text nothing is done *)
window_set_clip_none(v, data) == IF data = NULL THEN v ELSE [x11_set_clip(v) EXCEPT !.clipped = data]
window_set_clip(v, data) == [(IF data = NULL THEN v ELSE x11_set_clip(v)) EXCEPT !.clipped = data]
selection_clear(v) == IF v.highlight THEN [window_set_clip(v, NULL) EXCEPT !.highlight = FALSE] ELSE v
send_selection_data(v) ==
    IF v.clipped = NULL THEN Sent(v, Request("notify", FALSE, <<>>))
    ELSE [Sent(Sent(v, Request("change", TRUE, v.clipped)), Request("notify", TRUE, <<>>))
            EXCEPT !.due = Append(@, [text |-> v.clipped, reply |-> v.from])]

----------------------------------------------------------------------------
(* term_paste() of a part: as text, or encoded for OSC 52 *)
base64_encode(bytes) == bytes \o (IF Len(bytes) % 3 = 0 THEN <<>> ELSE PAD)
Got(v, bytes) == [v EXCEPT !.got = @ \o bytes]
Begun(v) ==
    Got([v EXCEPT !.bracketed = v.session.bracketed, !.leftover = <<>>],
        IF v.from THEN OSC52 ELSE IF v.session.bracketed THEN OPEN ELSE <<>>)
(* Two bytes that are left over are the same one twice *)
LeftOver(rest) ==
    CASE Len(rest) % 3 = 0 -> <<>>
      [] Len(rest) % 3 = 1 -> <<Last(rest)>>
      [] Len(rest) % 3 = 2 -> <<rest[Len(rest) - 1], rest[Len(rest) - 1]>>
Encoded(v, data, last) ==
    LET taken == Lower(3 - Len(v.leftover), Len(data))
        full == v.leftover \o SubSeq(data, 1, taken)
        rest == SubSeq(data, taken + 1, Len(data))
        left == IF last THEN full ELSE LeftOver(rest)
    IN  IF rest = <<>> THEN [v EXCEPT !.leftover = full]
        ELSE Got([v EXCEPT !.leftover = left],
                 base64_encode(full) \o base64_encode(SubSeq(rest, 1, Len(rest) - (IF last THEN 0 ELSE Len(left)))))
Given(v, data, last) == IF data = <<>> THEN v ELSE IF v.from THEN Encoded(v, data, last) ELSE Got(v, data)
Finished(v) == IF v.from THEN [Got(v, ST) EXCEPT !.from = FALSE] ELSE IF v.bracketed THEN Got(v, CLOSE) ELSE v
term_paste(v, data, first, last) ==
    LET w == Given(IF first THEN Begun(v) ELSE v, data, last) IN IF last THEN Finished(w) ELSE w

----------------------------------------------------------------------------
(* An iteration of receive_selection_data() *)
Delete == Request("delete", TRUE, <<>>)
Mask(set) == Request("mask", set, <<>>)
Ended(v) == [Sent(v, Delete) EXCEPT !.reading = FALSE]
Unmasked(v, part, left) == IF v.pnotify /\ part = <<>> /\ left = 0 THEN Sent(v, Mask(FALSE)) ELSE v
Incremental(v) == Ended(Flushed(Sent(Sent(v, Mask(TRUE)), Delete)))
Pasted(v, part, left) ==
    IF part = <<>> /\ v.offset = 0 /\ left = 0 THEN v ELSE term_paste(v, part, v.offset = 0, left = 0)
Received(v) ==
    LET size == Lower(Block, Len(v.prop.bytes) - v.offset)
        part == SubSeq(v.prop.bytes, v.offset + 1, v.offset + size)
        left == Len(v.prop.bytes) - v.offset - size
        w == Unmasked(v, part, left)
    IN  IF v.prop = NoProp THEN Ended(Pasted(Unmasked(v, <<>>, 0), <<>>, 0))
        ELSE IF size < 0 THEN [v EXCEPT !.reading = FALSE]
        ELSE IF v.prop.type = "INCR" THEN Incremental(w)
        ELSE IF left > 0 THEN [Pasted(w, part, left) EXCEPT !.offset = @ + size]
        ELSE Ended(Pasted(w, part, left))
receive_selection_data(v, pnotify) == [v EXCEPT !.reading = TRUE, !.pnotify = pnotify, !.offset = 0]

Handled(v, event) ==
    CASE event = "property" -> receive_selection_data(v, TRUE)
      [] event = "notify" -> receive_selection_data(v, FALSE)
      [] event = "request" -> send_selection_data(v)
      [] event = "clear" -> selection_clear(v)
      [] event = "refused" -> v

----------------------------------------------------------------------------
Calm == x.reqs = <<>> /\ x.events = <<>> /\ ~x.reading
Quiet == Calm /\ x.other.pc = "idle" /\ x.other.asked = 0
Do(what) == what \in x.session.does /\ ~x.reading /\ x.n < MaxSteps
Counted(v) == x' = [v EXCEPT !.n = @ + 1]

(* The program *)
HandleEvent == ~x.reading /\ x.events # <<>> /\ x' = Handled([x EXCEPT !.events = Tail(@)], Head(x.events))
Receive == x.reading /\ x' = Received(Flushed(x))
Settled == InFlight \/ \A i \in DOMAIN x.events : x.events[i] # "clear"
Select == \E data \in x.session.own :
    /\ Do("select") /\ Settled /\ data # NULL
    /\ Counted([window_set_clip(x, data) EXCEPT !.highlight = TRUE, !.meant = data])
(* OSC 52 with a text, or one that is no base64 *)
SetByProgram(data) ==
    /\ Do("set") /\ Settled /\ data \in x.session.own
    /\ Counted([window_set_clip([x EXCEPT !.highlight = FALSE], data) EXCEPT !.meant = data])
Overwritten ==
    /\ Do("write") /\ Settled /\ x.highlight
    /\ Counted([selection_clear(x) EXCEPT !.meant = NULL])
x11_paste(v) == Sent(v, Request("convert", TRUE, <<>>))
Asks == Quiet \/ "overlap" \in x.session.does
Paste == Do("paste") /\ Asks /\ Counted(x11_paste(x))
(* Where nobody answers the reply never ends: see the README *)
Query ==
    /\ Do("query") /\ Quiet /\ x.owner # "none" /\ (x.owner = "nsst" => x.clipped # NULL)
    /\ Counted(x11_paste([x EXCEPT !.from = TRUE]))

(* The server takes a request, the other client acts *)
Serve == x.reqs # <<>> /\ x' = [Granted(x, Head(x.reqs)) EXCEPT !.reqs = Tail(@)]
Take ==
    /\ Do("take") /\ x.owner # "other" /\ (InFlight \/ Calm)
    /\ Counted([(IF x.owner = "nsst" THEN Told(x, "clear") ELSE x) EXCEPT !.owner = "other", !.meant = NULL])
InParts == Len(x.session.other) > MaxWhole
Answer ==
    /\ x.other.asked > 0 /\ x.other.pc = "idle"
    /\ x' = [(IF InParts THEN Put(x, "INCR", <<0>>) ELSE Put(x, "text", x.session.other)) EXCEPT
                !.due = Append(@, [text |-> x.session.other, reply |-> x.from]),
                !.other = [pc |-> "notify", asked |-> @.asked - 1, told |-> FALSE,
                           rest |-> IF InParts THEN x.session.other ELSE <<>>]]
Notify ==
    /\ x.other.pc = "notify"
    /\ x' = [Told(x, "notify") EXCEPT !.other.pc = IF InParts THEN "parts" ELSE "idle"]
Part ==
    /\ x.other.pc = "parts" /\ x.other.told /\ (InFlight \/ Calm)
    /\ \E size \in IF x.other.rest = <<>> THEN {0} ELSE 1..Lower(MaxWhole, Len(x.other.rest)) :
          x' = [Put(x, "text", SubSeq(x.other.rest, 1, size)) EXCEPT
                   !.other.told = FALSE, !.other.pc = IF size = 0 THEN "idle" ELSE @,
                   !.other.rest = SubSeq(@, size + 1, Len(@))]

Next ==
    \/ HandleEvent \/ Receive \/ Select \/ Overwritten \/ Paste \/ Query
    \/ \E data \in x.session.own : SetByProgram(data)
    \/ Serve \/ Take \/ Answer \/ Notify \/ Part
Spec == Init /\ [][Next]_x

----------------------------------------------------------------------------
Expected(d) ==
    IF d.reply THEN OSC52 \o base64_encode(d.text) \o ST
    ELSE IF x.session.bracketed THEN OPEN \o d.text \o CLOSE ELSE d.text
All(due) == FlattenSeq([i \in DOMAIN due |-> Expected(due[i])])

(* What a program receives is each text that was answered, whole, once and *)
(* in its frame, although a property is announced twice (by the property   *)
(* and by the selection) and read in blocks, or the text comes in parts.   *)
(* Pastes that overlap share the property: a text may be lost then, not    *)
(* cut or mixed.                                                           *)
PastedWhole ==
    IF "overlap" \in x.session.does
    THEN Quiet => \E S \in SUBSET DOMAIN x.due :
                     /\ x.due # <<>> => S # {}
                     /\ x.got = FlattenSeq([i \in DOMAIN x.due |-> IF i \in S THEN Expected(x.due[i]) ELSE <<>>])
    ELSE IsPrefix(x.got, All(x.due)) /\ (Quiet => x.got = All(x.due) /\ ~x.from)

(* While the window has the selection it offers what was selected or set   *)
(* last: a selection that is overwritten takes its own text with it, and   *)
(* not that which a program has set since.                                 *)
OfferedIsMeant == x.owner = "nsst" => x.clipped = x.meant
=============================================================================
