------------------------------ MODULE UriMatch ------------------------------
(***************************************************************************)
(* uri.c, term.c: links that are found in the output. do_read() looks for  *)
(* a ':' and matches backwards for the name of a protocol, then forwards,  *)
(* over reads; when a URI ends the cells from a bookmark to the cursor are *)
(* linked to it.                                                           *)
(*                                                                         *)
(* Bytes by their class: "p" is the name of a protocol and "f" that of     *)
(* files, "1" a digit, "x" another byte of a URI, "'" a graphic one that   *)
(* no URI holds. A sequence is a token: "NL" moves to the next line, "ALT" *)
(* to the other screen and back, "OSC8" begins and ends an explicit link,  *)
(* "SIZE" requests another size. Rows are of Width cells, numbered along.  *)
(***************************************************************************)
EXTENDS Integers, Sequences, FiniteSets, SequencesExt

CONSTANTS
    Width,
    Streams,            \* what programs write: how it starts, the bytes that follow, and how many
    MaxChunk            \* bound: bytes of a read

Graphic == {"p", "f", "x", "1", "'", ":", "/", "@", "?", "#", "%"}
InUri == {"p", "f", "x", "1", ":", "/", "@", "?"}

(* uri_match_state: state, saved, res, the URI so far (data) *)
Match(m, state, res) == [m EXCEPT !.state = state, !.res = res]
More(m, state) == Match(m, state, "need_more")
May(m, state) == Match(m, state, "may_finish")
End(m) == IF m.res = "may_finish" THEN Match(m, "ground", "finished") ELSE [Match(m, "ground", "ground") EXCEPT !.data = <<>>]

(* The states in which each delimiter is one *)
Before(delimiter) ==
    CASE delimiter = "@" -> {"user"}
      [] delimiter = ":" -> {"user", "host"}
      [] delimiter \in {"/", "?"} -> {"user", "host", "path", "port"}
      [] delimiter = "#" -> {"user", "host", "path", "query", "port"}
Target(delimiter) ==
    CASE delimiter = "@" -> "host" [] delimiter = ":" -> "port" [] delimiter = "/" -> "path"
      [] delimiter = "?" -> "query" [] delimiter = "#" -> "fragment"
Delimits(m, ch) == ch \in {"@", ":", "/", "?", "#"} /\ m.state \in Before(ch)
AtDelimiter(m, ch) == IF ch \in {"@", ":"} THEN More(m, Target(ch)) ELSE May(m, Target(ch))

(* m holds the byte already; an End drops it *)
Dropped(m) == End([m EXCEPT !.data = Front(@)])
Body == {"user", "host", "path", "query", "fragment"}
InBody(m, ch) ==
    IF Delimits(m, ch) THEN AtDelimiter(m, ch)
    ELSE IF ch = "%" THEN More([m EXCEPT !.saved = m.state], "p_hex1")
    ELSE IF ch \in InUri THEN May(m, m.state) ELSE Dropped(m)
Port(m, ch) == IF Delimits(m, ch) THEN AtDelimiter(m, ch) ELSE IF ch = "1" THEN May(m, "port") ELSE Dropped(m)
Expected(m, ch, expected, next) == IF ch = expected THEN next ELSE Dropped(m)
Step(m, ch) ==
    CASE m.state = "colon" -> Expected(m, ch, ":", More(m, "slash1"))
      [] m.state = "slash1" -> Expected(m, ch, "/", More(m, "slash2"))
      [] m.state = "slash2" -> Expected(m, ch, "/", More(m, IF m.file THEN "filename" ELSE "user"))
      [] m.state = "p_hex1" -> Expected(m, ch, "1", More(m, "p_hex2"))
      [] m.state = "p_hex2" -> Expected(m, ch, "1", May(m, m.saved))
      [] m.state = "port" -> Port(m, ch)
      [] m.state = "filename" -> May(m, "filename")
      [] m.state \in Body -> InBody(m, ch)
uri_match_next_from_colon(m, ch) == IF ch \notin Graphic THEN End(m) ELSE Step([m EXCEPT !.data = Append(@, ch)], ch)
match_reverse_proto_tree(m, name) ==
    IF name \in {"p", "f"} THEN [More(m, "colon") EXCEPT !.file = (name = "f"), !.data = <<name>>]
    ELSE Match(m, "ground", "ground")
uri_match_reset(m) == [Match(m, "colon", "ground") EXCEPT !.data = <<>>]

(* valid_uri_len() of a string, not 0 *)
valid_uri(s) ==
    /\ Len(s) > 1
    /\ LET from == match_reverse_proto_tree([state |-> "ground", saved |-> "ground", res |-> "ground", file |-> FALSE, data |-> <<>>], s[1])
       IN  /\ from.state = "colon"
           /\ FoldLeft(LAMBDA m, ch : IF m.state = "ground" THEN Match(m, "ground", "ground") ELSE uri_match_next_from_colon(m, ch),
                       from, Tail(s)).res = "may_finish"

----------------------------------------------------------------------------
(* The terminal: cells, the next cell n and pending; buf[start..] is to be *)
(* dispatched and buf[..(start - 1)] was                                   *)

Cursor(t) == IF t.pending THEN t.n - 1 ELSE t.n
Printed(t, ch) == IF t.alt THEN t ELSE [t EXCEPT !.cells = Append(@, ch), !.n = @ + 1, !.pending = ((t.n + 1) % Width = 0)]
NextRow(t) == IF t.pending THEN t.n ELSE (t.n \div Width + 1) * Width
NewLine(t) == IF t.alt THEN t ELSE [t EXCEPT !.cells = @ \o [k \in 1..(NextRow(t) - t.n) |-> " "], !.n = NextRow(t), !.pending = FALSE]
Dispatch(t, ch) ==
    CASE ch = "NL" -> NewLine(t)
      [] ch = "ALT" -> [t EXCEPT !.alt = ~@]
      [] ch = "OSC8" -> [t EXCEPT !.osc8 = ~@]
      [] ch = "SIZE" -> [t EXCEPT !.requested = TRUE]
      [] OTHER -> Printed(t, ch)
(* Until a byte, or a requested resize *)
DispatchOne(t, ch) == IF t.requested THEN t ELSE [Dispatch(t, ch) EXCEPT !.start = @ + 1]
DispatchTo(t, to) == FoldLeft(DispatchOne, t, SubSeq(t.buf, t.start, to - 1))

apply_matched_uri(t) ==
    [t EXCEPT !.links = IF valid_uri(t.m.data) THEN @ \cup {[from |-> t.mark, to |-> Cursor(t), uri |-> t.m.data]} ELSE @,
              !.m = uri_match_reset(@)]

(* One ':' at cur *)
NameAt(t, cur) == IF cur = 1 THEN " " ELSE t.buf[cur - 1]
NoSlash(t, cur) == cur < Len(t.buf) /\ t.buf[cur + 1] # "/"
Bookmark(t) == [t EXCEPT !.mark = Cursor(t), !.on = ~t.alt /\ ~t.osc8]
(* Mutant: the bookmark is set before what precedes the URI is printed *)
Started_early(t, cur) ==
    IF t.m.state # "colon" \/ cur - 1 < t.start THEN [t EXCEPT !.on = FALSE]
    ELSE DispatchTo(Bookmark(t), cur - 1)
Started(t, cur) ==
    IF t.m.state # "colon" \/ cur - 1 < t.start THEN [t EXCEPT !.on = FALSE]
    ELSE Bookmark(DispatchTo(t, cur - 1))
Colon(t, cur) ==
    IF NoSlash(t, cur) THEN [t EXCEPT !.on = FALSE]
    ELSE Started([t EXCEPT !.m = match_reverse_proto_tree(@, NameAt(t, cur))], cur)
Idle(t) == t.m.state \in {"ground", "colon"}
Found(t, cur) == IF t.requested THEN t ELSE apply_matched_uri(DispatchTo(t, cur))
Fed(t, cur) == IF t.m.res = "finished" THEN Found(t, cur) ELSE t
Feed(t, cur) == Fed([t EXCEPT !.m = uri_match_next_from_colon(@, t.buf[cur])], cur)
Matched(t, cur) == IF t.on /\ ~t.requested THEN Feed(t, cur) ELSE t
Scan(t, cur) ==
    IF t.requested THEN t
    ELSE IF ~Idle(t) THEN Feed(t, cur)
    ELSE IF t.buf[cur] = ":" THEN Matched(Colon(t, cur), cur) ELSE t

(* What was dispatched stays before what is read *)
Kept(buf, start) == SubSeq(buf, start - 1, Len(buf))
Rest(t) == DispatchTo(t, Len(t.buf) + 1)
Scanned(t) == FoldLeft(LAMBDA s, j : Scan(s, t.start + j - 1), t, [j \in 1..(Len(t.buf) - t.start + 1) |-> j])
do_read(t) == LET r == Rest(Scanned([t EXCEPT !.requested = FALSE])) IN [r EXCEPT !.buf = Kept(@, r.start), !.start = 2]
(* Only bytes that are left are read again after a resize *)
Drained(t) == IF t.requested THEN do_read(t) ELSE t

New == [buf |-> <<" ">>, start |-> 2, alt |-> FALSE, osc8 |-> FALSE, requested |-> FALSE, cells |-> <<>>, n |-> 0, pending |-> FALSE,
        m |-> [state |-> "ground", saved |-> "ground", res |-> "ground", file |-> FALSE, data |-> <<>>],
        mark |-> 0, on |-> FALSE, links |-> {}]
term_read(t, bytes) == Drained(Drained(do_read([t EXCEPT !.buf = @ \o bytes])))

----------------------------------------------------------------------------
(* text is what was read, cut the places of names that were last in a read *)
VARIABLE reader
Names == {"p", "f"}
Init == \E s \in Streams : reader = [t |-> New, text |-> <<>>, cut |-> {}, stream |-> s]
Left == SubSeq(reader.stream.start, Len(reader.text) + 1, Len(reader.stream.start))
Chunks == {c \in UNION {[1..k -> reader.stream.bytes \cup ToSet(Left)] : k \in 1..MaxChunk} :
              \A k \in 1..Len(c) : IF k <= Len(Left) THEN c[k] = Left[k] ELSE c[k] \in reader.stream.bytes}
Read(c) ==
    /\ Len(reader.text) + Len(c) <= Len(reader.stream.start) + reader.stream.more
    /\ reader' = [reader EXCEPT !.t = term_read(@, SubSeq(c, 1, Len(c))), !.text = @ \o c,
                                !.cut = IF Last(c) \in Names THEN @ \cup {Len(reader.text) + Len(c)} ELSE @]
Next == \E c \in Chunks : Read(c)
Spec == Init /\ [][Next]_reader

----------------------------------------------------------------------------
(* A URI, not by its states: a file's name, or an authority with or        *)
(* without a port and what follows it                                      *)
Escaped(s) == \A k \in DOMAIN s : s[k] = "%" => k + 2 <= Len(s) /\ s[k + 1] = "1" /\ s[k + 2] = "1"
Bytes(s, set) == ToSet(s) \subseteq set
Userless(a) == "@" \notin ToSet(Front(a)) /\ Last(a) = "@"
Host(a) == Bytes(a, {"p", "f", "x", "1", "@", "%"})
Authority(a) == Host(a) \/ \E i \in DOMAIN a : Host(SubSeq(a, 1, i - 1)) /\ a[i] = ":" /\ Bytes(SubSeq(a, i + 1, Len(a)), {"1"})
Follows(t) == /\ t # <<>> => Head(t) \in {"/", "?", "#"}
              /\ Bytes(t, InUri \cup {"%", "#"}) /\ Cardinality({k \in DOMAIN t : t[k] = "#"}) <= 1
Whole(r, t) == t = <<>> => r # <<>> /\ Last(r) # ":" /\ ~Userless(r)
IsRest(r) == Escaped(r) /\ \E i \in 0..Len(r) : /\ Authority(SubSeq(r, 1, i)) /\ Follows(SubSeq(r, i + 1, Len(r)))
                                                 /\ Whole(SubSeq(r, 1, i), SubSeq(r, i + 1, Len(r)))
IsUri(s) ==
    LET r == SubSeq(s, 5, Len(s)) IN
    /\ Len(s) > 4 /\ SubSeq(s, 2, 4) = <<":", "/", "/">>
    /\ \/ s[1] = "f" /\ Bytes(r, Graphic)
       \/ s[1] = "p" /\ IsRest(r)

(* What is linked is a URI and the cells are those that show it. One that  *)
(* begins or ends at the right margin is linked a cell too early, or to    *)
(* the last cell but one: see the README.                                  *)
LinkExact ==
    \A l \in reader.t.links :
        /\ IsUri(l.uri)
        /\ l.from % Width # Width - 1 /\ l.to % Width # Width - 1 => SubSeq(reader.t.cells, l.from + 1, l.to) = l.uri

(* Every URI between spaces is linked, unless on the alternate screen, in  *)
(* an explicit link, or when its protocol's name was last in a read.       *)
WordsLinked ==
    LET text == reader.text IN
    Bytes(text, Graphic \cup {" ", "NL", "SIZE"}) =>
        \A i, j \in DOMAIN text :
            (/\ i < j /\ text[j] \in {" ", "NL"} /\ IsUri(SubSeq(text, i, j - 1))
             /\ i = 1 \/ text[i - 1] \in {" ", "NL"}
             /\ i \notin reader.cut)
            => \E l \in reader.t.links : l.uri = SubSeq(text, i, j - 1)

(* The same links are found however the output is split into reads, but    *)
(* that a name that is last in a read is not known for one when its colon  *)
(* comes: it is as any other byte, and begins no link (tty.c:511 keeps it  *)
(* for matching; term.c:3510 finds it before what is to be printed).       *)
Nameless(s, places) == [k \in DOMAIN s |-> IF s[k] \in Names /\ k \in places THEN "x" ELSE s[k]]
Linked(links) == {[l EXCEPT !.uri = Nameless(@, 2..Len(@))] : l \in links}
SameLinks == Linked(reader.t.links) = Linked(term_read(New, Nameless(reader.text, reader.cut)).links)
=============================================================================
