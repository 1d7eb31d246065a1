---------------------------- MODULE EscapeParser ----------------------------
(***************************************************************************)
(* term.c: the parser of control sequences, from the buffer of the tty to  *)
(* what is dispatched (term_dispatch() and do_read()), and the decoding of *)
(* text in screen_dispatch_print().                                        *)
(*                                                                         *)
(* A byte is one of a class that the code treats alike:                    *)
(*   ESC CAN BEL NUL   controls, NUL for those a string ignores            *)
(*   SP                0x20-0x2F, intermediate                             *)
(*   1 ; : ?           a digit, the separators, 0x3C-0x3F                  *)
(*   [ P ] \ X l m     0x40-0x7E, the introducers and ST by name           *)
(*   DEL                                                                   *)
(*   IND ST            0x80-0x9F, which also continue a character          *)
(*   HI LEAD           0xA0-0xBF, and the first byte of a character of two *)
(* A parameter is absent (-1) or the number of its digits, 2 for more.     *)
(* Handlers of sequences are outputs; what they change is left to the      *)
(* modules of the components, but for the state of the parser itself.      *)
(*                                                                         *)
(* Two parsers get the same bytes: one in the chunks that read() returned, *)
(* the other a byte at a time; and that one is as new whenever it is in    *)
(* the ground state.                                                       *)
(***************************************************************************)
EXTENDS Integers, Sequences, SequencesExt

CONSTANTS
    Streams,         \* bound: which bytes arrive, at which vt_level (0 is VT52, at 1
                     \* there are no C1 controls) and in which encoding
    ESC_MAX_PARAM,
    ESC_MAX_STR,     \* what is shorter is not allocated
    MaxChunk,        \* bound: bytes of one read
    MaxStr,          \* bound: bytes of a string
    ControlsInStrings, \* TRUE: OSC and DCS strings hold NUL and DEL
    Abandoned        \* TRUE: allocated strings may end with another introducer

VARIABLE pair     \* the two parsers, and the stream
vars == pair

StrEnd == {"ESC", "CAN", "BEL"}
C0 == StrEnd \cup {"NUL"}
C1 == {"IND", "ST"}
IsControl(b) == b \in C0 \cup C1
ArgBytes == {"1", ";", ":"}
Upper == {"[", "P", "]", "\\", "X", "l", "m"}      \* 0x40-0x7E
Final == Upper \cup ArgBytes \cup {"?"}             \* 0x30-0x7E

(* ch &= 0x7F *)
Low(b) == CASE b = "HI" -> "SP" [] b = "LEAD" -> "m" [] b \in C1 -> "NUL" [] OTHER -> b

OscStates == {"osc_1", "osc_2", "osc_string"}
DcsHeader == {"dcs_entry", "dcs_0", "dcs_1", "dcs_2"}
Next1(state) ==
    CASE state = "esc_entry" -> "esc_1" [] state = "esc_1" -> "esc_2"
      [] state = "csi_0" -> "csi_1" [] state = "csi_1" -> "csi_2"
      [] state = "dcs_0" -> "dcs_1" [] state = "dcs_1" -> "dcs_2"

NoParams == [k \in 1..ESC_MAX_PARAM |-> -1]
Fresh(level, utf8) ==
    [state |-> "ground", sel |-> <<>>, oldState |-> "ground", oldSel |-> <<>>,
     i |-> 1, par |-> SubSeq(NoParams, 1, ESC_MAX_PARAM), sub |-> {},
     str |-> <<>>, heap |-> FALSE, left |-> <<>>,
     buf |-> <<>>, stop |-> FALSE, out |-> <<>>, level |-> level, utf8 |-> utf8]

Pop(p) == [p EXCEPT !.buf = Tail(@)]
Out(p, what) == [p EXCEPT !.out = Append(@, what)]
To(p, state) == [p EXCEPT !.state = state]

(* Mutant: the parameter that was being read is not cleared *)
term_esc_start_seq_i(p) ==
    [p EXCEPT !.par = [k \in 1..ESC_MAX_PARAM |-> IF k < p.i THEN -1 ELSE @[k]], !.i = 1, !.sub = {}, !.sel = <<>>]
term_esc_start_seq(p) ==
    [p EXCEPT !.par = [k \in 1..ESC_MAX_PARAM |-> IF k <= p.i THEN -1 ELSE @[k]], !.i = 1, !.sub = {}, !.sel = <<>>]

(* str_ptr is kept if it is there; what it holds is seen if nothing is     *)
(* written over it.                                                        *)
CString(p) == IF p.str = <<>> /\ p.heap THEN p.left ELSE p.str
term_esc_start_string(p) == [p EXCEPT !.left = IF p.heap THEN CString(p) ELSE <<>>, !.str = <<>>, !.sel = <<>>]
term_esc_finish_string(p) == [p EXCEPT !.heap = FALSE, !.left = <<>>]
Ended(p) == [term_esc_finish_string(p) EXCEPT !.oldState = "ground", !.state = "ground"]

Fixed(p) == [p EXCEPT !.i = IF @ <= ESC_MAX_PARAM /\ p.par[@] >= 0 THEN @ + 1 ELSE @]
Params(p) == [args |-> SubSeq(p.par, 1, p.i - 1), sub |-> p.sub]

(* Only SGR ("m") is allowed to have subparameters *)
DispatchCsi(p) ==
    To(IF p.sub # {} /\ p.sel # <<"m">> THEN p ELSE Out(p, <<"csi", p.sel, Params(p)>>), "ground")
term_dispatch_csi(p) == DispatchCsi(Fixed(p))

Resumed(p, ofStates) == IF p.state \in ofStates THEN p ELSE [p EXCEPT !.state = p.oldState, !.sel = p.oldSel]
DispatchDcs(p) == Ended(IF p.sub # {} THEN p ELSE Out(p, <<"dcs", p.sel, Params(p), CString(p)>>))
term_dispatch_dcs(p) == DispatchDcs(Resumed(Fixed(p), {"dcs_string"}))
DispatchOsc(p) == Ended(Out(p, <<"osc", p.sel, CString(p)>>))
term_dispatch_osc(p) == DispatchOsc(Resumed(p, OscStates))

(* ST ends a string if the escape came within one *)
StringTerminator(p) ==
    CASE p.oldState = "dcs_string" -> term_dispatch_dcs(p)
      [] p.oldState \in OscStates -> term_dispatch_osc(p)
      [] OTHER -> Ended(p)

Introduce(p, state) == [p EXCEPT !.state = state, !.oldState = "ground"]
term_dispatch_esc(p) ==
    CASE p.sel = <<"P">> -> Introduce(p, "dcs_entry")
      [] p.sel = <<"[">> -> Introduce(p, "csi_entry")
      [] p.sel = <<"]">> -> Introduce(p, "osc_entry")
      [] p.sel = <<"X">> -> Introduce(p, "ign_entry")
      [] p.sel \in {<<"\\">>, <<"ST">>} -> StringTerminator(p)
      [] OTHER -> Ended(Out(p, <<"esc", p.sel>>))

Remember(p) == [p EXCEPT !.oldSel = p.sel, !.oldState = p.state]
Bell(p) ==
    CASE p.state = "dcs_string" -> term_dispatch_dcs(p)
      [] p.state \in OscStates -> term_dispatch_osc(p)
      [] OTHER -> Out(p, <<"bell">>)
term_dispatch_c0(p, c) ==
    CASE c = "ESC" -> To(Remember(p), IF p.level > 0 THEN "esc_entry" ELSE "vt52_entry")
      [] c = "CAN" -> To(term_esc_finish_string(p), "ground")
      [] c = "BEL" -> Bell(p)
      [] OTHER -> Out(p, <<"c0", c>>)

----------------------------------------------------------------------------
(* The states of term_dispatch(); c is the byte, p is behind it            *)

InEscape(p, c) ==
    CASE c = "SP" /\ p.state \in {"esc_entry", "esc_1"} -> To([p EXCEPT !.sel = Append(@, c)], Next1(p.state))
      [] c \in Final /\ p.state # "esc_ignore" -> term_dispatch_esc([p EXCEPT !.sel = Append(@, c)])
      [] c \in C0 -> term_dispatch_c0(p, c)
      [] c \in Final /\ p.state = "esc_ignore" -> To(p, "ground")
      [] c = "DEL" -> p
      [] OTHER -> To(p, "esc_ignore")
Escape(p, c) == InEscape(IF p.state = "esc_entry" THEN [p EXCEPT !.sel = <<>>] ELSE p, c)

EndOfHeader(p, c) ==
    IF p.state \in DcsHeader THEN To([p EXCEPT !.sel = Append(@, c)], "dcs_string")
    ELSE term_dispatch_csi([p EXCEPT !.sel = Append(@, c)])

(* The loop over the parameters: last is the one being read *)
Digit(last) == IF last < 1 THEN 1 ELSE 2
Separated(p, c, last) ==
    [p EXCEPT !.par[p.i] = last, !.i = @ + 1, !.sub = IF c = ":" THEN @ \cup {p.i + 1} ELSE @]
RECURSIVE Args(_, _, _)
More(p, last) ==
    LET q == [p EXCEPT !.par[p.i] = last]
    IN  CASE p.buf = <<>> -> q
          [] p.buf # <<>> /\ Head(p.buf) \in ArgBytes -> Args(Pop(p), Head(p.buf), last)
          [] p.buf # <<>> /\ Head(p.buf) \in Upper -> EndOfHeader(Pop(q), Head(p.buf))
          [] OTHER -> q
Args(p, c, last) ==
    IF c = "1" THEN More(p, Digit(last))
    ELSE IF p.i < ESC_MAX_PARAM THEN More(Separated(p, c, last), -1)
    ELSE More(p, last)

(* Controls are executed within CSI, and ignored within a DCS header *)
OutOfPlace(p, c) ==
    CASE c \in C0 -> IF p.state \in DcsHeader THEN p ELSE term_dispatch_c0(p, c)
      [] c = "DEL" -> p
      [] c \notin C0 /\ c # "DEL" /\ p.state \in DcsHeader -> To(p, "ign_string")
      [] OTHER -> To(p, IF c \in Upper THEN "ground" ELSE "csi_ignore")
InHeader(p, c) ==
    CASE c \in ArgBytes /\ p.state \in {"csi_0", "dcs_0"} -> Args(p, c, p.par[p.i])
      [] c = "SP" /\ p.state \in {"csi_0", "csi_1", "dcs_0", "dcs_1"} -> To([p EXCEPT !.sel = Append(@, c)], Next1(p.state))
      [] c \in Upper /\ p.state # "csi_ignore" -> EndOfHeader(p, c)
      [] OTHER -> OutOfPlace(p, c)
FirstOf(p, c) == IF c = "?" THEN [p EXCEPT !.sel = Append(@, c)] ELSE InHeader(p, c)
Header(p, c) ==
    CASE p.state = "csi_entry" -> FirstOf(To(term_esc_start_seq(p), "csi_0"), c)
      [] p.state = "dcs_entry" -> FirstOf(To(term_esc_start_seq(term_esc_start_string(p)), "dcs_0"), c)
      [] OTHER -> InHeader(p, c)

----------------------------------------------------------------------------
(* Strings: at the end of the buffer the last byte, or an incomplete       *)
(* character, waits for the next read                                      *)
Width(p, b) == IF b = "LEAD" /\ p.utf8 THEN 2 ELSE 1
Held(p) == [p EXCEPT !.stop = TRUE]
(* A second byte is taken at once only if it looked like a control *)
Taken(p) == IF Width(p, Head(p.buf)) = 2 /\ p.buf[2] \in C1 \cup {"LEAD"} THEN 2 ELSE 1
GoesOn(p) == p.buf # <<>> /\ ~(Head(p.buf) \in StrEnd \cup C1)

RECURSIVE Ignored(_)
Ignored(p) ==
    IF Len(p.buf) <= Width(p, Head(p.buf)) THEN Held(p)
    ELSE LET q == [p EXCEPT !.buf = SubSeq(@, Taken(p) + 1, Len(@))]
         IN  IF GoesOn(q) THEN Ignored(q) ELSE q
ign_string(p, c) ==
    IF c \in StrEnd THEN term_dispatch_c0(p, c) ELSE Ignored([To(p, "ign_string") EXCEPT !.buf = <<c>> \o @])

(* What a string ignores is not read past: ch stays, the buffer goes on    *)
IgnoredIn(p, b) == b \in C0 \/ (b = "DEL" /\ p.state = "dcs_string")
(* xrealloc(), and memcpy() from str_data *)
Written(p, n) ==
    [p EXCEPT !.heap = @ \/ Len(p.str) + Width(p, Head(p.buf)) + 1 >= ESC_MAX_STR,
              !.str = @ \o SubSeq(p.buf, 1, n), !.buf = SubSeq(@, n + 1, Len(@))]
RECURSIVE Collected(_)
Collected(p) ==
    CASE IgnoredIn(p, Head(p.buf)) -> [p EXCEPT !.buf = <<>>]
      [] ~IgnoredIn(p, Head(p.buf)) /\ Len(p.buf) <= Width(p, Head(p.buf)) -> Held(p)
      [] OTHER -> LET q == Written(p, Taken(p)) IN IF GoesOn(q) THEN Collected(q) ELSE q
term_dispatch_dcs_string(p, c) ==
    IF c \in StrEnd THEN term_dispatch_c0(p, c) ELSE Collected([p EXCEPT !.buf = <<c>> \o @])

osc_1(p, c, raw) ==
    CASE c = "1" /\ p.state = "osc_1" -> [p EXCEPT !.sel = Append(@, c)]
      [] c = ";" -> To(p, "osc_string")
      [] OTHER -> ign_string(p, IF c \in StrEnd THEN c ELSE raw)
osc_entry(p, c, raw) ==
    IF c = "l" THEN To([p EXCEPT !.sel = <<"l">>], "osc_2") ELSE osc_1(p, c, raw)
Osc(p, c, raw) == IF p.state = "osc_entry" THEN osc_entry(To(term_esc_start_string(p), "osc_1"), c, raw) ELSE osc_1(p, c, raw)

ign_entry(p, c) ==
    LET q == To(term_esc_start_string(p), "ign_string") IN IF c \in StrEnd THEN term_dispatch_c0(q, c) ELSE q

(* VT52: "X" is cursor addressing with its two bytes, all other commands   *)
(* end at once                                                             *)
vt52_cup(p, c) ==
    IF p.state = "vt52_cup_0" THEN To([p EXCEPT !.par[p.i] = 1, !.i = @ + 1], "vt52_cup_1")
    ELSE To(Out([p EXCEPT !.par[p.i] = 1, !.i = @ + 1], <<"cup">>), "ground")
Vt52(p, c) ==
    LET q == IF p.state = "vt52_cup_0" THEN term_esc_start_seq(p) ELSE p
    IN  CASE c \in C0 -> term_dispatch_c0(q, c)
          [] c \notin C0 /\ p.state # "vt52_entry" -> vt52_cup(q, c)
          [] c = "X" /\ p.state = "vt52_entry" -> To(q, "vt52_cup_0")
          [] OTHER -> To(Out(q, <<"vt52", c>>), "ground")

(* screen_dispatch_print(): characters up to the next control; a character *)
(* whose second byte has not come waits                                    *)
RECURSIVE Text(_)
Text(p) ==
    CASE p.buf = <<>> \/ IsControl(Head(p.buf)) -> p
      [] p.buf # <<>> /\ Head(p.buf) = "DEL" -> Text(Pop(p))
      [] p.buf # <<>> /\ Head(p.buf) = "LEAD" /\ p.utf8 ->
            IF Len(p.buf) = 1 THEN Held(p) ELSE Text(Pop(Pop(Out(p, <<"char", "LEAD", p.buf[2]>>))))
      [] OTHER -> Text(Pop(Out(p, <<"char", Head(p.buf)>>)))

----------------------------------------------------------------------------
State(p, b, c) ==
    CASE p.state = "ground" -> term_dispatch_c0(p, c)
      [] p.state \in {"esc_entry", "esc_1", "esc_2", "esc_ignore"} -> Escape(p, c)
      [] p.state \in DcsHeader \cup {"csi_entry", "csi_0", "csi_1", "csi_2", "csi_ignore"} -> Header(p, c)
      [] p.state \in {"osc_entry", "osc_1", "osc_2"} -> Osc(p, c, b)
      [] p.state = "ign_entry" -> ign_entry(p, c)
      [] p.state = "ign_string" -> ign_string(p, IF c \in StrEnd THEN c ELSE b)
      [] p.state \in {"osc_string", "dcs_string"} -> term_dispatch_dcs_string(p, IF c \in StrEnd THEN c ELSE b)
      [] OTHER -> Vt52(p, c)
Control1(p, b) == term_dispatch_esc([To(Remember(p), "esc_entry") EXCEPT !.sel = <<b>>])
term_dispatch(p) ==
    CASE p.state = "ground" /\ ~IsControl(Head(p.buf)) -> Text(p)
      [] Head(p.buf) \in C1 /\ p.level > 1 -> Control1(Pop(p), Head(p.buf))
      [] OTHER -> State(Pop(p), Head(p.buf), Low(Head(p.buf)))

(* do_read() *)
RECURSIVE Dispatched(_)
Dispatched(p) == IF p.buf = <<>> \/ p.stop THEN [p EXCEPT !.stop = FALSE] ELSE Dispatched(term_dispatch(p))
do_read(p, bytes) == Dispatched([p EXCEPT !.buf = @ \o bytes])

----------------------------------------------------------------------------
Chunks == UNION {[1..n -> pair.bytes] : n \in 1..MaxChunk}

Init == \E s \in Streams :
            pair = [whole |-> Fresh(s.level, s.utf8), single |-> Fresh(s.level, s.utf8), bytes |-> s.bytes, same |-> TRUE]

(* What is found in a string that the instance leaves out *)
Strings == {"osc_string", "dcs_string"}
InString(p) == p.state \in Strings \/ (p.state # "ground" /\ p.oldState \in Strings)
Plain(p) == p.heap => InString(p)
Bounded(p) == Len(p.str) <= MaxStr /\ Len(p.sel) <= 2
Quiet(chunk) == \A k \in DOMAIN chunk : chunk[k] \notin {"NUL", "DEL"}

Silent(p) == [p EXCEPT !.out = <<>>]
(* A terminal that has seen nothing of what came before *)
Anew(p) == IF p.state = "ground" /\ p.buf = <<>> THEN [Fresh(p.level, p.utf8) EXCEPT !.out = p.out] ELSE p
ReadEach(chunk) == FoldLeft(LAMBDA q, b : Anew(do_read(q, <<b>>)), pair.single, chunk)
Accept(whole, single) ==
    /\ Bounded(whole)
    /\ Abandoned \/ Plain(whole)
    /\ pair' = [pair EXCEPT !.whole = Silent(whole), !.single = Silent(single), !.same = whole.out = single.out]
Read(chunk) ==
    /\ ControlsInStrings \/ Quiet(chunk) \/ ~InString(pair.whole)
    /\ Accept(do_read(pair.whole, chunk), ReadEach(chunk))

Next == \E chunk \in Chunks : Read(chunk)
Spec == Init /\ [][Next]_vars

----------------------------------------------------------------------------
(* What is dispatched depends on the bytes of the sequence only: neither   *)
(* on how read() split them, nor on the sequences before.                  *)
SameOutput ==
    /\ pair.same
    /\ pair.whole.state = pair.single.state /\ pair.whole.buf = pair.single.buf

(* Nothing is taken from an earlier sequence: the parameters that have not *)
(* been read are absent.                                                   *)
ParamsClean == \A p \in {pair.whole, pair.single} : \A k \in 1..ESC_MAX_PARAM : k > p.i => p.par[k] = -1
=============================================================================
