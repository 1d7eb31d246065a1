----------------------------- MODULE UriTable ------------------------------
(***************************************************************************)
(* uri.c: the table of links.  A link is a slot, its number is what        *)
(* attributes hold, and the slot is given back when the count of its       *)
(* references drops to zero.                                               *)
(***************************************************************************)
EXTENDS Naturals, Sequences

CONSTANT URI_MAX  (* numbers of slots are below *)

ASSUME UriAssumption == URI_MAX \in Nat \ {0}

EMPTY_URI == 0
NoUri == "free"
NoSlots == [slots |-> <<>>, first_free |-> 0]

Live(u, id) == id \in 1..Len(u.slots) /\ u.slots[id].refc > 0

uri_ref(u, id) == IF id = EMPTY_URI THEN u ELSE [u EXCEPT !.slots[id].refc = @ + 1]

(* free_slot(), after ht_erase() *)
free_slot(u, id) == [slots |-> [u.slots EXCEPT ![id] = [uri |-> NoUri, refc |-> 0, next |-> u.first_free]],
                     first_free |-> id]

uri_unref(u, id) ==
    IF id = EMPTY_URI THEN u
    ELSE IF u.slots[id].refc = 1 THEN free_slot(u, id)
    ELSE [u EXCEPT !.slots[id].refc = @ - 1]

(* The slot alloc_slot() gives: the first free one, else one more, 0: NULL *)
alloc_slot(u) ==
    IF u.first_free # 0 THEN u.first_free
    ELSE IF Len(u.slots) + 1 >= URI_MAX THEN 0
    ELSE Len(u.slots) + 1

(* ht_lookup_ptr() in uritab, the links that are live *)
Lookup(u, key) == {i \in 1..Len(u.slots) : u.slots[i].uri = key}

NewUri(u, i, key) ==
    LET slot == [uri |-> key, refc |-> 1, next |-> 0]
    IN  IF i > Len(u.slots) THEN [u EXCEPT !.slots = Append(@, slot)]
        ELSE [slots |-> [u.slots EXCEPT ![i] = slot], first_free |-> u.slots[i].next]

(* uri_add() of a link that valid_uri_len() accepts: the table and the     *)
(* number, EMPTY_URI when there is no slot.  The key is the path and the   *)
(* id, which is unique when the application gives none.                    *)
uri_add(u, key) ==
    LET found == Lookup(u, key)
        slot == alloc_slot(u)
    IN  IF found # {}
        THEN LET i == CHOOSE j \in found : TRUE IN [uris |-> uri_ref(u, i), id |-> i]
        ELSE IF slot = 0 THEN [uris |-> u, id |-> EMPTY_URI]
        ELSE [uris |-> NewUri(u, slot, key), id |-> slot]

(* The n-th slot of the free list *)
FreeAt(u) == [n \in 1..Len(u.slots) |->
    LET at[i \in 1..n] == IF i = 1 THEN u.first_free
                          ELSE IF at[i-1] = 0 THEN 0 ELSE u.slots[at[i-1]].next
    IN  at[n]]
=============================================================================
