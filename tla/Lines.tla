------------------------------- MODULE Lines -------------------------------
(***************************************************************************)
(* line.c: what the paragraphs of the screen hold.  A cell has the number  *)
(* of an attribute in the table of its line; 0 is the default attribute.   *)
(* Tables grow, shrink, are merged and split, and every attribute that     *)
(* names a link has references to it (uri.c).  The other holders of links  *)
(* are the current and the saved attributes of the screen and the link     *)
(* under the pointer.                                                      *)
(*                                                                         *)
(* What a cell shows is its attribute: characters are left out, and so are *)
(* addresses, handles and spans (see Screen).                              *)
(***************************************************************************)
EXTENDS UriTable, SequencesExt, FiniteSets

CONSTANTS Styles,    (* renditions: colors and flags, "plain" is the default *)
          Hash,      (* attr_hash() of each, the link is not hashed          *)
          Keys,      (* links the application sets                           *)
          INIT_CAP, MAX_CAPS, LONG_BITS,
          MaxLines, MaxCells, MaxRefs (* bounds of the instance              *)

ASSUME LinesAssumption ==
    /\ "plain" \in Styles /\ Hash \in [Styles -> Nat]
    /\ INIT_CAP \in Nat \ {0} /\ MAX_CAPS \in Nat \ {0} /\ LONG_BITS \in Nat \ {0}
    /\ MaxLines \in Nat /\ MaxCells \in Nat /\ MaxRefs \in Nat

VARIABLES lines,     (* the paragraphs, in order                             *)
          uris,      (* idtab and uritab                                     *)
          sgr,       (* scr->sgr                                             *)
          saved,     (* scr->saved_sgr                                       *)
          back,      (* scr->back_saved_sgr                                  *)
          active     (* rcstate.active_uri                                   *)

vars == <<lines, uris, sgr, saved, back, active>>

ATTR_DEFAULT == [st |-> "plain", uri |-> EMPTY_URI]
NoAttr == [st |-> "empty", uri |-> EMPTY_URI]
NoTab == <<>>

(* attr_at() by number *)
AttrOf(l, id) == IF id = 0 THEN ATTR_DEFAULT ELSE l.tab[id]

CAPS_INC_STEP(n) == LET m == IF 2*n > INIT_CAP THEN 2*n ELSE INIT_CAP
                    IN  IF m < MAX_CAPS THEN m ELSE MAX_CAPS
NewTab(n) == [i \in 1..n |-> NoAttr]
Pow2(n) == CHOOSE p \in {2^k : k \in 0..n} : p >= n /\ p < 2*n

(* The slot that insert_attr() stops at, 0 when the table is full *)
Probe(tab, a) ==
    LET At(k) == ((Hash[a.st] + k) % Len(tab)) + 1
        Fits == {k \in 0..(Len(tab) - 1) : tab[At(k)] \in {NoAttr, a}}
    IN  IF Fits = {} THEN 0 ELSE At(CHOOSE k \in Fits : \A j \in Fits : k <= j)

insert_attr(tab, a) == LET i == Probe(tab, a) IN IF i = 0 THEN tab ELSE [tab EXCEPT ![i] = a]

(* free_attrs() of what a table holds, but for the attributes of kept *)
Unref(tab, kept, u) ==
    FoldLeft(LAMBDA v, a : IF a \in kept THEN v ELSE uri_unref(v, a.uri), u, tab)

(* The attributes that move_attrtab() moves, in order *)
Used(l) == Append([i \in 1..Len(l.cells) |-> AttrOf(l, l.cells[i])], AttrOf(l, l.pad))

(* The line with a table of n slots that holds what it uses *)
Moved(l, used, n) ==
    LET new == FoldLeft(LAMBDA t, a : IF a = ATTR_DEFAULT THEN t ELSE insert_attr(t, a), NewTab(n), used)
        Id(a) == IF a = ATTR_DEFAULT THEN 0 ELSE Probe(new, a)
    IN  [tab |-> new, cells |-> [i \in 1..Len(l.cells) |-> Id(used[i])], pad |-> Id(AttrOf(l, l.pad))]

move_attrtab(l, u, n) == [line |-> Moved(l, Used(l), n), uris |-> Unref(l.tab, ToSet(Used(l)), u)]

Inserted(m, a) == [line |-> [m.line EXCEPT !.tab = insert_attr(@, a)], uris |-> m.uris, id |-> Probe(m.line.tab, a)]

Alloc(l, u, a) ==
    IF Probe(l.tab, a) # 0 THEN Inserted([line |-> l, uris |-> u], a)
    ELSE Inserted(move_attrtab(l, u, CAPS_INC_STEP(Len(l.tab))), a)

(* Mutant: no reference is taken for the new attribute *)
alloc_attr_unreferenced(l, u, a) ==
    IF a = ATTR_DEFAULT THEN [line |-> l, uris |-> u, id |-> 0]
    ELSE Alloc(IF l.tab = NoTab THEN [l EXCEPT !.tab = NewTab(INIT_CAP)] ELSE l, u, a)

(* Takes the reference before it knows whether the table has it already *)
alloc_attr(l, u, a) ==
    IF a = ATTR_DEFAULT THEN [line |-> l, uris |-> u, id |-> 0]
    ELSE Alloc(IF l.tab = NoTab THEN [l EXCEPT !.tab = NewTab(INIT_CAP)] ELSE l, uri_ref(u, a.uri), a)

SetPad(r) == [line |-> [r.line EXCEPT !.pad = r.id], uris |-> r.uris]
AddCell(r) == [line |-> [r.line EXCEPT !.cells = Append(@, r.id)], uris |-> r.uris]

create_line(u, a) == SetPad(alloc_attr([tab |-> NoTab, cells |-> <<>>, pad |-> 0], u, a))

(* copy_line() past the end of another line, r is [line, uris] *)
copy_line(r, src, from) ==
    FoldLeft(LAMBDA q, id : AddCell(alloc_attr(q.line, q.uris, AttrOf(src, id))),
             r, SubSeq(src.cells, from + 1, Len(src.cells)))

(* The tail, and the table of links *)
split_tail(l, u, offset) == copy_line(create_line(u, AttrOf(l, l.pad)), l, offset)

(* Mutant: numbers are copied although both lines have a table *)
concat_raw(l1, l2, u) ==
    [line |-> [tab |-> IF l2.tab # NoTab THEN l2.tab ELSE l1.tab, cells |-> l1.cells \o l2.cells, pad |-> l2.pad],
     uris |-> IF l1.tab # NoTab THEN Unref(l2.tab, {}, u) ELSE u]

concat_line(l1, l2, u) ==
    IF l1.tab # NoTab /\ l2.tab # NoTab
    THEN LET r == copy_line(SetPad(alloc_attr(l1, u, AttrOf(l2, l2.pad))), l2, 0)
         IN  [line |-> r.line, uris |-> Unref(l2.tab, {}, r.uris)]
    ELSE [line |-> [tab |-> IF l2.tab # NoTab THEN l2.tab ELSE l1.tab, cells |-> l1.cells \o l2.cells, pad |-> l2.pad],
          uris |-> u]

(* Numbers in use that the bitmap of optimize_attributes() counts: its     *)
(* last word is the one that holds bit caps - 1                            *)
Counted(l) ==
    {id \in (ToSet(l.cells) \cup {l.pad}) \ {0} :
        id \div LONG_BITS < (Len(l.tab) + LONG_BITS - 1) \div LONG_BITS}

optimize_attributes(l, u) ==
    IF l.tab = NoTab THEN [line |-> l, uris |-> u]
    ELSE IF Counted(l) = {} THEN [line |-> [l EXCEPT !.tab = NoTab], uris |-> Unref(l.tab, {}, u)]
    ELSE move_attrtab(l, u, Pow2(Cardinality(Counted(l))))

----------------------------------------------------------------------------
Init ==
    /\ lines = <<[tab |-> NoTab, cells |-> <<>>, pad |-> 0]>>
    /\ uris = NoSlots
    /\ sgr = ATTR_DEFAULT /\ saved = ATTR_DEFAULT /\ back = ATTR_DEFAULT
    /\ active = EMPTY_URI

Bounded(u) == \A i \in 1..Len(u.slots) : u.slots[i].refc <= MaxRefs

(* OSC 8: the old link goes before the new one comes *)
SetLink(r) == uris' = r.uris /\ sgr' = [sgr EXCEPT !.uri = r.id]
Link(key) ==
    /\ SetLink(uri_add(uri_unref(uris, sgr.uri), key))
    /\ Bounded(uris')
    /\ UNCHANGED <<lines, saved, back, active>>
NoLink ==
    /\ SetLink([uris |-> uri_unref(uris, sgr.uri), id |-> EMPTY_URI])
    /\ UNCHANGED <<lines, saved, back, active>>

Style(st) ==
    /\ sgr' = [sgr EXCEPT !.st = st]
    /\ UNCHANGED <<lines, uris, saved, back, active>>

SaveCursor ==
    /\ uris' = uri_unref(uri_ref(uris, sgr.uri), saved.uri)
    /\ saved' = sgr
    /\ Bounded(uris') /\ UNCHANGED <<lines, sgr, back, active>>

RestoreCursor ==
    /\ uris' = uri_unref(uri_ref(uris, saved.uri), sgr.uri)
    /\ sgr' = saved
    /\ Bounded(uris') /\ UNCHANGED <<lines, saved, back, active>>

SwapScreen ==
    /\ saved' = back /\ back' = saved
    /\ UNCHANGED <<lines, uris, sgr, active>>

(* screen_load_config() of a reset *)
Reset ==
    /\ uris' = uri_unref(uri_unref(uri_unref(uris, sgr.uri), saved.uri), back.uri)
    /\ sgr' = ATTR_DEFAULT /\ saved' = ATTR_DEFAULT /\ back' = ATTR_DEFAULT
    /\ UNCHANGED <<lines, active>>

(* The pointer moves: window_set_active_uri() *)
Hover(id) ==
    /\ uris' = uri_unref(uri_ref(uris, id), active)
    /\ active' = id
    /\ Bounded(uris') /\ UNCHANGED <<lines, sgr, saved, back>>

Update(i, r) == lines' = [lines EXCEPT ![i] = r.line] /\ uris' = r.uris /\ Bounded(uris')
Others == UNCHANGED <<sgr, saved, back, active>>

(* print_buffer() of one cell: the attribute is allocated, then written *)
SetCell(r, x) == [line |-> [r.line EXCEPT !.cells = IF x > Len(@) THEN Append(@, r.id) ELSE [@ EXCEPT ![x] = r.id]],
                  uris |-> r.uris]
Put(i, x) ==
    /\ x <= MaxCells
    /\ Update(i, SetCell(alloc_attr(lines[i], uris, sgr), x)) /\ Others

(* apply_matched_uri(): a link found in what cell x and its followers show *)
Allocated(i, x, r) ==
    Update(i, [line |-> [r.line EXCEPT !.cells = [y \in 1..Len(@) |-> IF y >= x THEN r.id ELSE @[y]]],
               uris |-> uri_unref(r.uris, r.link)])
Found(i, x, link) ==
    LET r == alloc_attr(lines[i], link.uris, [AttrOf(lines[i], lines[i].cells[x]) EXCEPT !.uri = link.id])
    IN  Allocated(i, x, [line |-> r.line, uris |-> r.uris, id |-> r.id, link |-> link.id])
Detect(i, x, key) == Found(i, x, uri_add(uris, key)) /\ Others

(* screen_erase_fast() of one line *)
Erase(i) ==
    /\ Update(i, SetPad(alloc_attr([lines[i] EXCEPT !.cells = <<>>], uris, sgr))) /\ Others

NewLine ==
    /\ Len(lines) < MaxLines
    /\ LET r == create_line(uris, sgr) IN lines' = Append(lines, r.line) /\ uris' = r.uris
    /\ Bounded(uris') /\ Others

Divided(i, r, offset) ==
    /\ lines' = SubSeq(lines, 1, i - 1) \o <<[lines[i] EXCEPT !.cells = SubSeq(@, 1, offset)], r.line>>
                \o SubSeq(lines, i + 1, Len(lines))
    /\ uris' = r.uris
Split(i, offset) ==
    /\ Len(lines) < MaxLines
    /\ Divided(i, split_tail(lines[i], uris, offset), offset)
    /\ Bounded(uris') /\ Others

Joined(i, r) ==
    /\ lines' = SubSeq(lines, 1, i - 1) \o <<r.line>> \o SubSeq(lines, i + 2, Len(lines))
    /\ uris' = r.uris
Concat(i) ==
    /\ i < Len(lines)
    /\ Len(lines[i].cells) + Len(lines[i + 1].cells) <= MaxCells
    /\ Joined(i, concat_line(lines[i], lines[i + 1], uris))
    /\ Bounded(uris') /\ Others

(* A paragraph goes to the history *)
Optimize(i) == Update(i, optimize_attributes(lines[i], uris)) /\ Others

(* The oldest paragraph leaves the history *)
Free ==
    /\ Len(lines) > 1
    /\ lines' = Tail(lines)
    /\ uris' = Unref(lines[1].tab, {}, uris)
    /\ Others

Next ==
    \/ \E key \in Keys : Link(key)
    \/ NoLink
    \/ \E st \in Styles : Style(st)
    \/ SaveCursor \/ RestoreCursor \/ SwapScreen \/ Reset
    \/ \E i \in 1..Len(lines) :
        \/ \E x \in 1..Len(lines[i].cells) :
            \/ Hover(AttrOf(lines[i], lines[i].cells[x]).uri)
            \/ \E key \in Keys : Detect(i, x, key)
            \/ Split(i, x - 1)
        \/ \E x \in 1..(Len(lines[i].cells) + 1) : Put(i, x)
        \/ Erase(i) \/ Concat(i) \/ Optimize(i)
    \/ NewLine \/ Free

Spec == Init /\ [][Next]_vars

----------------------------------------------------------------------------
Ids == 0..URI_MAX
Attr == [st : Styles, uri : Ids]
Numbers(l) == ToSet(l.cells) \cup {l.pad}

TypeOK ==
    /\ \A i \in 1..Len(uris.slots) :
        /\ uris.slots[i].refc \in Nat /\ uris.slots[i].next \in Ids
        /\ uris.slots[i].uri \in Keys \cup {NoUri}
        /\ uris.slots[i].uri = NoUri <=> uris.slots[i].refc = 0
    /\ \A i \in 1..Len(lines) :
        /\ \A j \in 1..Len(lines[i].tab) : lines[i].tab[j] \in Attr \cup {NoAttr}
        /\ Numbers(lines[i]) \subseteq Nat
    /\ sgr \in Attr /\ saved \in Attr /\ back \in Attr /\ active \in Ids

(* Every cell has an attribute of the table of its line, in a slot that is *)
(* taken, whatever was copied, moved, merged or dropped (the assertions of *)
(* line.c:140, 146, 261 and 269).                                          *)
NumbersInTable ==
    \A i \in 1..Len(lines) : \A id \in Numbers(lines[i]) \ {0} :
        id <= Len(lines[i].tab) /\ lines[i].tab[id] # NoAttr

(* The tables and attributes that hold link id *)
Holds(a, id) == IF a.uri = id THEN 1 ELSE 0
Holders(id) ==
    Holds(sgr, id) + Holds(saved, id) + Holds(back, id) + (IF active = id THEN 1 ELSE 0)
    + FoldLeft(LAMBDA n, l : n + Len(SelectSeq(l.tab, LAMBDA a : a.uri = id)), 0, lines)

(* A link that something holds is not given back: its count is never below *)
(* the number of attributes and other holders that name it (the assertions *)
(* of uri_ref() and uri_unref()).                                          *)
LinksCounted ==
    \A id \in 1..URI_MAX :
        Holders(id) > 0 => Live(uris, id) /\ uris.slots[id].refc >= Holders(id)

(* alloc_slot() finds exactly the slots that were given back, each once,   *)
(* and no two live slots are the same link.                                *)
SlotsExact ==
    /\ {FreeAt(uris)[n] : n \in 1..Len(uris.slots)} \ {0} = {i \in 1..Len(uris.slots) : ~Live(uris, i)}
    /\ \A i, j \in 1..Len(uris.slots) :
        i # j /\ Live(uris, i) /\ Live(uris, j) => uris.slots[i].uri # uris.slots[j].uri

(* What the cells show, from the first paragraph to the last *)
LinkOf(id) == IF id = EMPTY_URI THEN NoUri ELSE uris.slots[id].uri
Shown == FlattenSeq([i \in 1..Len(lines) |-> [x \in 1..Len(lines[i].cells) |->
            LET a == AttrOf(lines[i], lines[i].cells[x]) IN <<a.st, LinkOf(a.uri)>>]])

(* No cell changes its rendition or its link when its paragraph is split,  *)
(* joined to another or put into the history, nor when links come and go.  *)
ShownKept ==
    [][Len(Shown') = Len(Shown) /\ Shown' # Shown =>
        \E i \in 1..Len(lines) : \E x \in 1..Len(lines[i].cells) :
            Put(i, x) \/ \E key \in Keys : Detect(i, x, key)]_vars
=============================================================================
