------------------------------ MODULE WebLists ------------------------------
(* What the tables of the web application have in common. Rows are numbered  *)
(* in the order in which the API lists them.                                 *)
EXTENDS Naturals, FiniteSets

Nothing == 0      \* the empty id of an unset selection

FirstOf(rows) ==
    IF rows = {} THEN Nothing ELSE CHOOSE r \in rows : \A q \in rows : r <= q

(* A selection that is still listed stays, any other becomes the first row.  *)
StillOrFirst(selected, rows) == IF selected \in rows THEN selected ELSE FirstOf(rows)

RankIn(r, rows) == Cardinality({q \in rows : q <= r})

(* The rows on a page of a table. Page numbers are not corrected when rows   *)
(* vanish, so a page can be empty although the table has rows.               *)
OnPage(rows, page, size) ==
    {r \in rows : /\ (page - 1) * size < RankIn(r, rows)
                  /\ RankIn(r, rows) <= page * size}

LastPage(rows, size) ==
    IF rows = {} THEN 1 ELSE (Cardinality(rows) + size - 1) \div size

-----------------------------------------------------------------------------

(* Lists whose rows are alike but for their place: a filtered list is the    *)
(* set of the places that the filter lets through, a slice of it the first   *)
(* few of them.                                                              *)
PlacesOf(rows, Test(_)) == {i \in DOMAIN rows : Test(rows[i])}
CountOf(rows, Test(_)) == Cardinality(PlacesOf(rows, Test))
FirstFew(n, places) == {p \in places : RankIn(p, places) <= n}

(* Lists of lists, and lists of numbers: the places of all rows, and the sum *)
(* of the numbers, which is the size of a disjoint union.                    *)
DisjointUnion(part) == UNION {{k} \X part[k] : k \in DOMAIN part}
SumOf(f) == Cardinality(DisjointUnion([k \in DOMAIN f |-> 1..f[k]]))
=============================================================================
