------------------------------- MODULE Charsets -----------------------------
(***************************************************************************)
(* Character sets (nrcs.c): the selectors that designate them at each      *)
(* conformance level, and the characters their codes stand for. A code and *)
(* a character are numbers; the tables are given for the sets named here   *)
(* and the positions that differ, the others are of the same kinds.        *)
(***************************************************************************)
EXTENDS Integers, Sequences, TLC

invalid == "invalid"
Nrcs == {"french_canadian", "finnish", "french", "german", "turkish", "portuguese"}
Cs94 == {"ascii", "british", "dec_sup", "dec_sup_graph", "dec_graph"}
Cs96 == {"latin_1", "latin_5"}

(* min_vt_level, intermediate and final byte of the selector; no set named *)
(* here has a max_vt_level a terminal can exceed                           *)
descs == [french_canadian |-> <<2, "", "Q">>, finnish |-> <<2, "", "C">>, french |-> <<2, "", "R">>,
          german |-> <<2, "", "K">>, turkish |-> <<5, "%", "2">>, portuguese |-> <<3, "%", "6">>,
          ascii |-> <<1, "", "B">>, british |-> <<1, "", "A">>, dec_sup |-> <<2, "", "<">>,
          dec_sup_graph |-> <<3, "%", "5">>, dec_graph |-> <<1, "", "0">>,
          latin_1 |-> <<3, "", "A">>, latin_5 |-> <<5, "", "M">>]

nrcs_is_96(cs) == cs \in Cs96
Searched(is96, nrcs) ==
    CASE is96 /\ nrcs -> {}
      [] is96 /\ ~nrcs -> Cs96
      [] ~is96 /\ nrcs -> Nrcs \cup Cs94
      [] OTHER -> Cs94
nrcs_parse(i1, e, is96, level, nrcs) ==
    LET found == {cs \in Searched(is96, nrcs) : descs[cs][1] <= level /\ descs[cs][2] = i1 /\ descs[cs][3] = e}
    IN  IF found = {} THEN invalid ELSE CHOOSE cs \in found : TRUE
nrcs_unparse(cs) == <<descs[cs][2], descs[cs][3]>>

----------------------------------------------------------------------------
trans_idx == <<\h23, \h40, \h5B, \h5C, \h5D, \h5E, \h5F, \h60, \h7B, \h7C, \h7D, \h7E>>
nrcs_trs == [french_canadian |-> <<\h23, \hE0, \hE2, \hE7, \hEA, \hEE, \h5F, \hF4, \hE9, \hF9, \hE8, \hFB>>,
             finnish |-> <<\h23, \h40, \hC4, \hD6, \hC5, \hDC, \h5F, \hE9, \hE4, \hF6, \hE5, \hFC>>,
             french |-> <<\hA3, \hE0, \hB0, \hE7, \hA7, \h5E, \h5F, \h60, \hE9, \hF9, \hE8, \hA8>>,
             german |-> <<\h23, \hA7, \hC4, \hD6, \hDC, \h5E, \h5F, \h60, \hE4, \hF6, \hFC, \hDF>>,
             turkish |-> <<\h23, \h130, \h15E, \hD6, \hC7, \hDC, \h5F, \h11E, \h15F, \hF6, \hE7, \hFC>>,
             portuguese |-> <<\h23, \h40, \hC3, \hC7, \hD5, \h5E, \h5F, \h60, \hE3, \hE7, \hF5, \h7E>>]
SupTable == (\hA8 :> \hA4) @@ (\hD7 :> \h152) @@ (\hDD :> \h178) @@ (\hF7 :> \h153) @@ (\hFD :> \hFF)
Latin5Table == (\hD0 :> \h11E) @@ (\hDD :> \h130) @@ (\hDE :> \h15E) @@ (\hF0 :> \h11F) @@ (\hFD :> \h131) @@ (\hFE :> \h15F)
GraphCodes == <<\h20, \h25C6, \h2592, \h2409, \h240C, \h240D, \h240A, \hB0, \hB1, \h2424, \h240B, \h2518, \h2510, \h250C,
                \h2514, \h253C, \h23BA, \h23BB, \h2500, \h23BC, \h23BD, \h251C, \h2524, \h2534, \h252C, \h2502, \h2264, \h2265, \h3C0, \h2260, \hA3, \hB7>>
GraphTable == [ch \in \h5F..\h7E |-> GraphCodes[ch - \h5E]]

Key(table, v) == CHOOSE k \in DOMAIN table : table[k] = v
Values(table) == {table[k] : k \in DOMAIN table}
Seven(ch) == ch % \h80
High(ch) == \h80 + Seven(ch)
Done(ch) == [done |-> TRUE, ch |-> ch]
Not(ch) == [done |-> FALSE, ch |-> ch]

(* nrcs_encode(): the code of a character in a set, and whether it has one *)
Upper(table, ch) == ch \in \h80..\hFF /\ ch \notin DOMAIN table
Supplemental(table, ch) ==
    IF ch \in Values(table) THEN Done(Key(table, ch) - \h80)
    ELSE IF Upper(table, ch) THEN Done(ch - \h80) ELSE Not(ch)
FromNrcs(trs, ch) ==
    IF \E i \in DOMAIN trs : trs[i] = ch THEN Done(trans_idx[CHOOSE i \in DOMAIN trs : trs[i] = ch /\ \A j \in 1..(i - 1) : trs[j] # ch])
    ELSE IF (ch < \h7B /\ ch \notin {\h23, \h40} /\ ch \notin \h5B..\h60) \/ ch = \h7F THEN Done(ch) ELSE Not(ch)
nrcs_encode(set, ch, nrcs) ==
    CASE set = "ascii" -> IF ch < \h80 THEN Done(ch) ELSE Not(ch)
      [] set = "latin_1" \/ (set = "british" /\ ~nrcs) -> IF ch \in \h80..\hFF THEN Done(ch - \h80) ELSE Not(ch)
      [] set = "british" /\ nrcs -> IF ch = \hA3 THEN Done(\h24) ELSE IF ch # \h24 THEN Done(ch) ELSE Not(ch)
      [] set \in {"dec_sup", "dec_sup_graph"} -> Supplemental(SupTable, ch)
      [] set = "latin_5" -> Supplemental(Latin5Table, ch)
      [] set = "dec_graph" -> IF ch \in Values(GraphTable) THEN Done(Key(GraphTable, ch))
                              ELSE IF ch < \h5F \/ ch = \h7F THEN Done(ch) ELSE Not(ch)
      [] set = "turkish" /\ ch = \h11F -> Done(\h26)
      [] OTHER -> FromNrcs(nrcs_trs[set], ch)

(* nrcs_decode() of a code printed through gl or gr *)
Look(table, ch) == IF ch \in DOMAIN table THEN table[ch] ELSE ch
Trans(set, ch) ==
    IF \E i \in DOMAIN trans_idx : trans_idx[i] = ch THEN nrcs_trs[set][CHOOSE i \in DOMAIN trans_idx : trans_idx[i] = ch] ELSE ch
Decoded(set, ch, nrcs) ==
    CASE set = "ascii" -> ch
      [] set \in {"dec_sup", "dec_sup_graph"} -> Look(SupTable, High(ch))
      [] set = "dec_graph" -> Look(GraphTable, Seven(ch))
      [] set \in {"latin_1", "british"} -> IF nrcs THEN (IF Seven(ch) = \h23 THEN \hA3 ELSE Seven(ch)) ELSE High(ch)
      [] set = "latin_5" -> Look(Latin5Table, High(ch))
      [] set = "turkish" /\ Seven(ch) = \h26 -> \h11F
      [] OTHER -> Trans(set, Seven(ch))
nrcs_decode(gl, gr, ups, ch, nrcs) ==
    LET set == IF ch > \h7F THEN gr ELSE gl
    IN  IF ch > \hFF THEN ch ELSE IF ch = \h7F THEN \h20
        ELSE Decoded(IF set = "dec_sup" THEN ups ELSE set, ch, nrcs)
=============================================================================
