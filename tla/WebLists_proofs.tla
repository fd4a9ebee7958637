-------------------------- MODULE WebLists_proofs --------------------------
(* What the tables and the numbers of the web application may rely on: a     *)
(* selection that is corrected is a row of the list, or nothing when the     *)
(* list is empty; parts of a list add up to it, whatever its length.         *)
EXTENDS WebLists, FiniteSetTheorems, WellFoundedInduction, TLAPS

(* A list of numbered rows that is not empty has a first row.                *)
LEMMA FirstExists ==
    ASSUME NEW rows, rows \subseteq Nat, rows # {}
    PROVE  \E r \in rows : \A q \in rows : r <= q
<1> DEFINE Less == {p \in Nat \X Nat : p[1] < p[2]}
<1>0. IsWellFoundedOn(Less, Nat)
    BY NatLessThanWellFounded DEF OpToRel
<1> HIDE DEF Less
<1>1. PICK r \in rows : \A q \in rows : <<q, r>> \notin Less
    BY <1>0, WFMin, Zenon
<1>2. \A q \in rows : ~(q < r)
    BY <1>1 DEF Less
<1> QED
    BY <1>2

(* FirstOf gives a row of the list, and the empty id only for an empty list. *)
LEMMA FirstOfIsListed ==
    ASSUME NEW rows, rows \subseteq Nat
    PROVE  /\ rows = {} => FirstOf(rows) = Nothing
           /\ rows # {} => FirstOf(rows) \in rows
    BY FirstExists DEF FirstOf

(* So does the correction of a selection.                                    *)
LEMMA StillOrFirstIsListed ==
    ASSUME NEW rows, rows \subseteq Nat, NEW selected
    PROVE  StillOrFirst(selected, rows) \in rows \cup {Nothing}
    BY FirstOfIsListed DEF StillOrFirst

(* Rows further down a list have a higher rank.                              *)
LEMMA RanksIncrease ==
    ASSUME NEW rows, rows \subseteq Nat, IsFiniteSet(rows), NEW p \in rows, NEW q \in rows, p < q
    PROVE  /\ RankIn(p, rows) \in Nat /\ RankIn(q, rows) \in Nat
           /\ RankIn(p, rows) < RankIn(q, rows)
<1> DEFINE upto(r) == {x \in rows : x <= r}
<1>1. upto(q) \in SUBSET rows /\ IsFiniteSet(upto(q))
    BY FS_Subset
<1>2. upto(p) \in SUBSET upto(q) /\ q \in upto(q) /\ q \notin upto(p)
    <2>1. \A x \in rows : x \in Nat
        OBVIOUS
    <2>2. \A x \in rows : x <= p => x <= q
        BY <2>1
    <2>3. q <= q /\ ~(q <= p)
        BY <2>1
    <2> QED
        BY <2>2, <2>3
<1>3. IsFiniteSet(upto(p)) /\ Cardinality(upto(p)) <= Cardinality(upto(q))
      /\ Cardinality(upto(p)) # Cardinality(upto(q))
    BY <1>1, <1>2, FS_Subset
<1>4. Cardinality(upto(p)) \in Nat /\ Cardinality(upto(q)) \in Nat
    BY <1>1, <1>3, FS_CardinalityType
<1>5. RankIn(p, rows) = Cardinality(upto(p)) /\ RankIn(q, rows) = Cardinality(upto(q))
    BY DEF RankIn
<1> HIDE DEF upto
<1> QED
    BY <1>3, <1>4, <1>5

(* The first page of a table, of any size, holds no more rows than that.     *)
LEMMA FirstPageFits ==
    ASSUME NEW rows, rows \subseteq Nat, IsFiniteSet(rows), NEW size \in Nat
    PROVE  /\ OnPage(rows, 1, size) \subseteq rows
           /\ IsFiniteSet(OnPage(rows, 1, size))
           /\ Cardinality(OnPage(rows, 1, size)) <= size
<1> DEFINE onPage == OnPage(rows, 1, size)
           rank == [r \in onPage |-> RankIn(r, rows)]
<1>1. onPage \subseteq rows
    BY DEF OnPage
<1>2. ASSUME NEW r \in onPage PROVE RankIn(r, rows) \in 1..size
    <2>1. {x \in rows : x <= r} \in SUBSET rows
        OBVIOUS
    <2>2. RankIn(r, rows) \in Nat
        BY <2>1, FS_Subset, FS_CardinalityType DEF RankIn
    <2>3. (1 - 1) * size < RankIn(r, rows) /\ RankIn(r, rows) <= 1 * size
        BY DEF OnPage
    <2> QED
        BY <2>2, <2>3
<1>3. ASSUME NEW p \in onPage, NEW q \in onPage, RankIn(p, rows) = RankIn(q, rows) PROVE p = q
    <2>1. p \in Nat /\ q \in Nat /\ p \in rows /\ q \in rows
        BY <1>1
    <2>2. p < q => RankIn(p, rows) < RankIn(q, rows) /\ RankIn(p, rows) \in Nat
        BY <2>1, RanksIncrease
    <2>3. q < p => RankIn(q, rows) < RankIn(p, rows) /\ RankIn(q, rows) \in Nat
        BY <2>1, RanksIncrease
    <2> QED
        BY <1>3, <2>1, <2>2, <2>3
<1>4. rank \in Injection(onPage, 1..size)
    BY <1>2, <1>3 DEF Injection, IsInjective
<1>5. IsFiniteSet(1..size) /\ Cardinality(1..size) = size
    BY FS_Interval
<1> HIDE DEF onPage, rank
<1>6. IsFiniteSet(onPage) /\ Cardinality(onPage) <= size
    BY <1>4, <1>5, FS_Injection
<1> QED
    BY <1>1, <1>6 DEF onPage

-----------------------------------------------------------------------------

(* The rows that a filter lets through are no more than the rows.            *)
LEMMA PartOfList ==
    ASSUME NEW size \in Nat, NEW part, part \subseteq 1..size
    PROVE  /\ IsFiniteSet(part) /\ Cardinality(part) \in Nat /\ Cardinality(part) <= size
           /\ part \subseteq Nat
<1> DEFINE whole == 1..size
<1>1. IsFiniteSet(whole) /\ Cardinality(whole) = size
    BY FS_Interval
<1>2. part \in SUBSET whole /\ part \subseteq Nat
    OBVIOUS
<1> HIDE DEF whole
<1>3. IsFiniteSet(part) /\ Cardinality(part) <= size
    BY <1>1, <1>2, FS_Subset
<1> QED
    BY <1>2, <1>3, FS_CardinalityType

(* Two parts of a list without a row in common add up.                       *)
LEMMA PartsAddUp ==
    ASSUME NEW whole, IsFiniteSet(whole), NEW a, NEW b, whole = a \cup b, a \cap b = {}
    PROVE  /\ Cardinality(a) \in Nat /\ Cardinality(b) \in Nat
           /\ Cardinality(whole) = Cardinality(a) + Cardinality(b)
<1>1. a \in SUBSET whole /\ b \in SUBSET whole
    OBVIOUS
<1>2. IsFiniteSet(a) /\ IsFiniteSet(b)
    BY <1>1, FS_Subset
<1>3. Cardinality(a) \in Nat /\ Cardinality(b) \in Nat /\ Cardinality({}) = 0
    BY <1>2, FS_CardinalityType, FS_EmptySet
<1>4. Cardinality(whole) = Cardinality(a) + Cardinality(b) - Cardinality({})
    BY <1>2, FS_Union
<1> QED
    BY <1>3, <1>4

(* The first few rows of a list are as many as were asked for, or all rows.  *)
LEMMA FirstFewAreFew ==
    ASSUME NEW places, places \subseteq Nat, IsFiniteSet(places), NEW n \in Nat
    PROVE  /\ FirstFew(n, places) \subseteq places
           /\ IsFiniteSet(FirstFew(n, places))
           /\ Cardinality(FirstFew(n, places)) =
                  IF Cardinality(places) <= n THEN Cardinality(places) ELSE n
<1> DEFINE size == Cardinality(places)
           rank == [p \in places |-> RankIn(p, places)]
           few == FirstFew(n, places)
           most == IF size <= n THEN size ELSE n
<1>1. size \in Nat /\ few \subseteq places
    BY FS_CardinalityType DEF FirstFew
<1>2. ASSUME NEW p \in places PROVE RankIn(p, places) \in 1..size
    <2>1. {q \in places : q <= p} \in SUBSET places /\ p \in {q \in places : q <= p}
        OBVIOUS
    <2>2. /\ IsFiniteSet({q \in places : q <= p}) /\ Cardinality({q \in places : q <= p}) <= size
          /\ Cardinality({q \in places : q <= p}) \in Nat
          /\ Cardinality({q \in places : q <= p}) # 0
        BY <2>1, FS_Subset, FS_CardinalityType, FS_EmptySet
    <2> QED
        BY <1>1, <2>2 DEF RankIn
<1>3. ASSUME NEW p \in places, NEW q \in places, RankIn(p, places) = RankIn(q, places) PROVE p = q
    <2>1. p \in Nat /\ q \in Nat
        OBVIOUS
    <2>2. p < q => RankIn(p, places) < RankIn(q, places) /\ RankIn(p, places) \in Nat
        BY <2>1, RanksIncrease
    <2>3. q < p => RankIn(q, places) < RankIn(p, places) /\ RankIn(q, places) \in Nat
        BY <2>1, RanksIncrease
    <2> QED
        BY <1>3, <2>1, <2>2, <2>3
<1>4. rank \in Injection(places, 1..size)
    BY <1>2, <1>3 DEF Injection, IsInjective
<1>5. IsFiniteSet(1..size) /\ Cardinality(1..size) = size /\ Cardinality(places) = size
    BY <1>1, FS_Interval
<1>6. rank \in Surjection(places, 1..size)
    <2> HIDE DEF rank, size
    <2> QED
        BY <1>4, <1>5, FS_Injection
<1> DEFINE place == [r \in 1..most |-> CHOOSE p \in places : rank[p] = r]
<1>7. most \in Nat /\ 1..most \subseteq 1..size
    BY <1>1
<1>8. ASSUME NEW r \in 1..most PROVE place[r] \in places /\ rank[place[r]] = r
    BY <1>6, <1>7 DEF Surjection
<1>9. ASSUME NEW r \in 1..most PROVE place[r] \in few
    <2>1. place[r] \in places /\ RankIn(place[r], places) = r
        BY <1>8
    <2>2. r <= n
        BY <1>1
    <2> QED
        BY <2>1, <2>2 DEF FirstFew
<1>10. ASSUME NEW p \in few PROVE \E r \in 1..most : place[r] = p
    <2>1. p \in places /\ rank[p] \in 1..size /\ rank[p] <= n
        BY <1>2 DEF FirstFew
    <2>2. rank[p] \in 1..most
        BY <1>1, <2>1
    <2>3. place[rank[p]] \in places /\ rank[place[rank[p]]] = rank[p]
        BY <2>2, <1>8
    <2>4. place[rank[p]] = p
        BY <1>3, <2>1, <2>3
    <2> QED
        BY <2>2, <2>4
<1>11. place \in Bijection(1..most, few)
    <2>1. place \in [1..most -> few]
        BY <1>9
    <2>2. \A r, s \in 1..most : place[r] = place[s] => r = s
        BY <1>8
    <2> QED
        BY <1>10, <2>1, <2>2 DEF Bijection, Injection, Surjection, IsInjective
<1>12. IsFiniteSet(1..most) /\ Cardinality(1..most) = most
    BY <1>7, FS_Interval
<1>13. IsFiniteSet(few) /\ Cardinality(few) = most
    <2> HIDE DEF place, few, most
    <2> QED
        BY <1>11, <1>12, FS_Bijection DEF ExistsBijection
<1> QED
    BY <1>1, <1>13

(* The disjoint union of finitely many finite sets is finite.                *)
LEMMA UnionOfParts ==
    ASSUME NEW part, IsFiniteSet(DOMAIN part), \A k \in DOMAIN part : IsFiniteSet(part[k])
    PROVE  IsFiniteSet(DisjointUnion(part))
<1> DEFINE keys == DOMAIN part
           tagged == [k \in keys |-> {k} \X part[k]]
           sets == {{k} \X part[k] : k \in keys}
<1>1. tagged \in Surjection(keys, sets)
    BY DEF Surjection
<1>2. ASSUME NEW s \in sets PROVE IsFiniteSet(s)
    <2>1. PICK k \in keys : s = {k} \X part[k]
        OBVIOUS
    <2>2. IsFiniteSet({k}) /\ IsFiniteSet(part[k])
        BY FS_Singleton
    <2> QED
        BY <2>1, <2>2, FS_Product
<1> HIDE DEF tagged, sets
<1>3. IsFiniteSet(sets)
    BY <1>1, FS_Surjection
<1>4. IsFiniteSet(UNION sets)
    BY <1>2, <1>3, FS_UNION
<1> QED
    BY <1>4 DEF sets, DisjointUnion

(* What is in a disjoint union.                                              *)
LEMMA InUnionOfParts ==
    ASSUME NEW part
    PROVE  /\ \A p \in DisjointUnion(part) :
                  p[1] \in DOMAIN part /\ p[2] \in part[p[1]] /\ p = <<p[1], p[2]>>
           /\ \A k \in DOMAIN part : \A x \in part[k] : <<k, x>> \in DisjointUnion(part)
<1>1. ASSUME NEW p \in DisjointUnion(part)
      PROVE  p[1] \in DOMAIN part /\ p[2] \in part[p[1]] /\ p = <<p[1], p[2]>>
    BY DEF DisjointUnion
<1>2. ASSUME NEW k \in DOMAIN part, NEW x \in part[k] PROVE <<k, x>> \in DisjointUnion(part)
    <2>1. <<k, x>> \in {k} \X part[k]
        OBVIOUS
    <2> QED
        BY <2>1 DEF DisjointUnion
<1> QED
    BY <1>1, <1>2

(* Where each part of one family goes one to one into the part of another    *)
(* with the same key, the disjoint unions do.                                *)
LEMMA PartsInto ==
    ASSUME NEW a, NEW b, NEW into, DOMAIN a = DOMAIN b,
           \A k \in DOMAIN a : into[k] \in Injection(a[k], b[k])
    PROVE  \E f \in Injection(DisjointUnion(a), DisjointUnion(b)) :
               \A p \in DisjointUnion(a) : f[p] = <<p[1], into[p[1]][p[2]]>>
<1> DEFINE A == DisjointUnion(a)
           B == DisjointUnion(b)
           f == [p \in A |-> <<p[1], into[p[1]][p[2]]>>]
<1>1. ASSUME NEW p \in A PROVE p[1] \in DOMAIN a /\ p[2] \in a[p[1]] /\ p = <<p[1], p[2]>>
    BY InUnionOfParts
<1>2. ASSUME NEW p \in A PROVE <<p[1], into[p[1]][p[2]]>> \in B
    <2>1. p[1] \in DOMAIN b /\ into[p[1]][p[2]] \in b[p[1]]
        BY <1>1 DEF Injection
    <2> QED
        BY <2>1, InUnionOfParts
<1>3. ASSUME NEW p \in A, NEW q \in A, f[p] = f[q] PROVE p = q
    <2>1. p[1] = q[1] /\ into[p[1]][p[2]] = into[q[1]][q[2]]
        BY <1>3
    <2>2. p[2] \in a[p[1]] /\ q[2] \in a[p[1]] /\ p[1] \in DOMAIN a
        BY <1>1, <2>1
    <2>3. p[2] = q[2]
        BY <2>1, <2>2 DEF Injection, IsInjective
    <2> QED
        BY <1>1, <2>1, <2>3
<1>4. f \in [A -> B] /\ \A p \in A : f[p] = <<p[1], into[p[1]][p[2]]>>
    BY <1>2
<1> HIDE DEF f
<1> QED
    BY <1>3, <1>4 DEF Injection, IsInjective

(* A sum of sizes is the size of the disjoint union.                         *)
LEMMA SumOfSizes ==
    ASSUME NEW part, IsFiniteSet(DOMAIN part), \A k \in DOMAIN part : IsFiniteSet(part[k]),
           NEW f, DOMAIN f = DOMAIN part, \A k \in DOMAIN part : f[k] = Cardinality(part[k])
    PROVE  /\ IsFiniteSet(DisjointUnion(part))
           /\ SumOf(f) = Cardinality(DisjointUnion(part))
<1> DEFINE keys == DOMAIN part
           upto == [k \in DOMAIN f |-> 1..f[k]]
           there == [k \in keys |-> CHOOSE g : g \in Bijection(1..f[k], part[k])]
           back == [k \in keys |-> CHOOSE g : g \in Bijection(part[k], 1..f[k])]
<1>1. ASSUME NEW k \in keys PROVE f[k] \in Nat /\ ExistsBijection(1..f[k], part[k])
    BY FS_CardinalityType
<1>2. ASSUME NEW k \in keys PROVE IsFiniteSet(upto[k]) /\ Cardinality(upto[k]) = f[k]
    BY <1>1, FS_Interval
<1>3. \A k \in keys : there[k] \in Injection(upto[k], part[k])
    BY <1>1 DEF ExistsBijection, Bijection
<1>4. \A k \in keys : back[k] \in Injection(part[k], upto[k])
    <2>1. ASSUME NEW k \in keys PROVE ExistsBijection(part[k], upto[k])
        BY <1>2, FS_SameCardinalityBij
    <2> QED
        BY <2>1 DEF ExistsBijection, Bijection
<1>5. DOMAIN upto = DOMAIN part /\ SumOf(f) = Cardinality(DisjointUnion(upto))
    BY DEF SumOf
<1> HIDE DEF upto, there, back
<1>6. PICK to : to \in Injection(DisjointUnion(upto), DisjointUnion(part))
    BY <1>3, <1>5, PartsInto
<1>7. PICK from : from \in Injection(DisjointUnion(part), DisjointUnion(upto))
    BY <1>4, <1>5, PartsInto
<1>8. IsFiniteSet(DisjointUnion(upto)) /\ IsFiniteSet(DisjointUnion(part))
    BY <1>2, <1>5, UnionOfParts
<1>9. Cardinality(DisjointUnion(upto)) = Cardinality(DisjointUnion(part))
    <2>1. /\ Cardinality(DisjointUnion(upto)) <= Cardinality(DisjointUnion(part))
          /\ Cardinality(DisjointUnion(part)) <= Cardinality(DisjointUnion(upto))
        BY <1>6, <1>7, <1>8, FS_Injection
    <2>2. Cardinality(DisjointUnion(upto)) \in Nat /\ Cardinality(DisjointUnion(part)) \in Nat
        BY <1>8, FS_CardinalityType
    <2> QED
        BY <2>1, <2>2
<1> QED
    BY <1>5, <1>8, <1>9

(* The rows under one key.                                                   *)
Under(k, key, rows) == {x \in rows : key[x] = k}

(* Rows that are shared out by a key are as many as the numbers under the    *)
(* keys add up to.                                                           *)
LEMMA SumOfCounts ==
    ASSUME NEW whole, IsFiniteSet(whole), NEW keys, IsFiniteSet(keys),
           NEW key \in [whole -> keys],
           NEW f, DOMAIN f = keys, \A k \in keys : f[k] = Cardinality(Under(k, key, whole))
    PROVE  SumOf(f) = Cardinality(whole)
<1> DEFINE part == [k \in keys |-> Under(k, key, whole)]
           tag == [x \in whole |-> <<key[x], x>>]
<1>1. ASSUME NEW k \in keys PROVE IsFiniteSet(part[k]) /\ f[k] = Cardinality(part[k])
    <2>1. part[k] \in SUBSET whole
        BY DEF Under
    <2> QED
        BY <2>1, FS_Subset
<1>2. DOMAIN part = keys
    OBVIOUS
<1>3. SumOf(f) = Cardinality(DisjointUnion(part))
    <2> HIDE DEF part
    <2> QED
        BY <1>1, <1>2, SumOfSizes
<1>4. ASSUME NEW x \in whole PROVE <<key[x], x>> \in DisjointUnion(part)
    <2>1. key[x] \in keys /\ x \in part[key[x]]
        BY DEF Under
    <2> HIDE DEF part
    <2> QED
        BY <1>2, <2>1, InUnionOfParts
<1>5. ASSUME NEW m \in DisjointUnion(part) PROVE m[2] \in whole /\ m = <<key[m[2]], m[2]>>
    <2>1. m[1] \in keys /\ m[2] \in part[m[1]] /\ m = <<m[1], m[2]>>
        <3> HIDE DEF part
        <3> QED
            BY <1>2, InUnionOfParts
    <2> QED
        BY <2>1 DEF Under
<1>6. tag \in Bijection(whole, DisjointUnion(part))
    <2> HIDE DEF part
    <2>1. tag \in [whole -> DisjointUnion(part)]
        BY <1>4
    <2>2. \A x, y \in whole : tag[x] = tag[y] => x = y
        OBVIOUS
    <2>3. \A m \in DisjointUnion(part) : \E x \in whole : tag[x] = m
        BY <1>5
    <2> HIDE DEF tag
    <2> QED
        BY <2>1, <2>2, <2>3 DEF Bijection, Injection, Surjection, IsInjective
<1> HIDE DEF tag, part
<1>7. Cardinality(DisjointUnion(part)) = Cardinality(whole)
    BY <1>6, FS_Bijection DEF ExistsBijection
<1> QED
    BY <1>3, <1>7

(* The same of multiples of the numbers.                                     *)
LEMMA SumOfMultiples ==
    ASSUME NEW whole, IsFiniteSet(whole), NEW keys, IsFiniteSet(keys),
           NEW key \in [whole -> keys], NEW times \in Nat,
           NEW f, DOMAIN f = keys,
           \A k \in keys : f[k] = times * Cardinality(Under(k, key, whole))
    PROVE  SumOf(f) = times * Cardinality(whole)
<1> DEFINE copies == 1..times
           all == whole \X copies
           copied == [p \in all |-> key[p[1]]]
<1>1. IsFiniteSet(copies) /\ Cardinality(copies) = times
    BY FS_Interval
<1>2. copied \in [all -> keys]
    OBVIOUS
<1>3. IsFiniteSet(all) /\ Cardinality(all) = times * Cardinality(whole)
    <2> HIDE DEF copies
    <2>1. /\ IsFiniteSet(whole \X copies)
          /\ Cardinality(whole \X copies) = Cardinality(whole) * Cardinality(copies)
        BY <1>1, FS_Product
    <2>2. Cardinality(whole) \in Nat
        BY FS_CardinalityType
    <2> QED
        BY <1>1, <2>1, <2>2
<1>4. ASSUME NEW k \in keys PROVE f[k] = Cardinality(Under(k, copied, all))
    <2> DEFINE own == Under(k, key, whole)
    <2>1. Under(k, copied, all) = own \X copies
        <3>1. ASSUME NEW p \in all, copied[p] = k PROVE p \in own \X copies
            BY <3>1 DEF Under
        <3>2. ASSUME NEW p \in own \X copies PROVE p \in all /\ copied[p] = k
            BY DEF Under
        <3> QED
            BY <3>1, <3>2 DEF Under
    <2>2. own \in SUBSET whole
        BY DEF Under
    <2> HIDE DEF own, copies
    <2>3. IsFiniteSet(own) /\ Cardinality(own) \in Nat
        BY <2>2, FS_Subset, FS_CardinalityType
    <2>4. Cardinality(own \X copies) = Cardinality(own) * Cardinality(copies)
        BY <1>1, <2>3, FS_Product
    <2>5. f[k] = times * Cardinality(own)
        BY DEF own
    <2>6. Cardinality(own) * Cardinality(copies) = times * Cardinality(own)
        BY <1>1, <2>3
    <2>7. f[k] = Cardinality(own \X copies)
        BY <2>4, <2>5, <2>6
    <2> HIDE DEF all, copied
    <2> QED
        BY <2>1, <2>7
<1> HIDE DEF all, copied
<1>5. SumOf(f) = Cardinality(all)
    BY <1>2, <1>3, <1>4, SumOfCounts
<1> QED
    BY <1>3, <1>5

(* Numbers that are all greater add up to more.                              *)
LEMMA SumIncreases ==
    ASSUME NEW keys, IsFiniteSet(keys), keys # {},
           NEW f \in [keys -> Nat], NEW g \in [keys -> Nat], \A k \in keys : f[k] < g[k]
    PROVE  SumOf(f) < SumOf(g)
<1> DEFINE less == [k \in DOMAIN f |-> 1..f[k]]
           more == [k \in DOMAIN g |-> 1..g[k]]
<1>1. SumOf(f) = Cardinality(DisjointUnion(less)) /\ SumOf(g) = Cardinality(DisjointUnion(more))
    BY DEF SumOf
<1>2. DOMAIN less = keys /\ DOMAIN more = keys
    OBVIOUS
<1>3. ASSUME NEW k \in keys PROVE /\ IsFiniteSet(more[k]) /\ less[k] \subseteq more[k]
                                  /\ g[k] \in more[k] /\ g[k] \notin less[k]
    <2>1. IsFiniteSet(more[k])
        BY FS_Interval
    <2>2. f[k] \in Nat /\ g[k] \in Nat /\ f[k] < g[k]
        OBVIOUS
    <2> QED
        BY <2>1, <2>2
<1> HIDE DEF less, more
<1>4. IsFiniteSet(DisjointUnion(more))
    BY <1>2, <1>3, UnionOfParts
<1>5. ASSUME NEW p \in DisjointUnion(less) PROVE p \in DisjointUnion(more)
    <2>1. p[1] \in keys /\ p[2] \in less[p[1]] /\ p = <<p[1], p[2]>>
        BY <1>2, InUnionOfParts
    <2>2. p[2] \in more[p[1]]
        BY <1>3, <2>1
    <2>3. <<p[1], p[2]>> \in DisjointUnion(more)
        BY <1>2, <2>1, <2>2, InUnionOfParts
    <2> QED
        BY <2>1, <2>3
<1>6. PICK k \in keys : TRUE
    OBVIOUS
<1>7. <<k, g[k]>> \in DisjointUnion(more) /\ <<k, g[k]>> \notin DisjointUnion(less)
    <2>1. <<k, g[k]>> \in DisjointUnion(more)
        BY <1>2, <1>3, InUnionOfParts
    <2>2. ASSUME <<k, g[k]>> \in DisjointUnion(less) PROVE FALSE
        <3>1. <<k, g[k]>>[2] \in less[<<k, g[k]>>[1]]
            BY <2>2, InUnionOfParts
        <3> QED
            BY <1>3, <3>1
    <2> QED
        BY <2>1, <2>2
<1>8. /\ IsFiniteSet(DisjointUnion(less))
      /\ Cardinality(DisjointUnion(less)) <= Cardinality(DisjointUnion(more))
      /\ Cardinality(DisjointUnion(less)) # Cardinality(DisjointUnion(more))
    <2>1. DisjointUnion(less) \in SUBSET DisjointUnion(more)
        BY <1>5
    <2> QED
        BY <1>4, <1>7, <2>1, FS_Subset
<1>9. Cardinality(DisjointUnion(less)) \in Nat /\ Cardinality(DisjointUnion(more)) \in Nat
    BY <1>4, <1>8, FS_CardinalityType
<1> QED
    BY <1>1, <1>8, <1>9

(* If a part of a list is shared out by the same key as the list, the share  *)
(* of the part in the list is not below the share under every key, nor       *)
(* above it.                                                                 *)
LEMMA SharesSurround ==
    ASSUME NEW whole, IsFiniteSet(whole), whole # {}, NEW part, part \subseteq whole,
           NEW keys, IsFiniteSet(keys), NEW key \in [whole -> keys],
           NEW all \in [keys -> Nat], NEW some \in [keys -> Nat],
           \A k \in keys : all[k] = Cardinality(Under(k, key, whole)),
           \A k \in keys : some[k] = Cardinality(Under(k, key, part))
    PROVE  /\ \E k \in keys : some[k] * Cardinality(whole) <= Cardinality(part) * all[k]
           /\ \E k \in keys : some[k] * Cardinality(whole) >= Cardinality(part) * all[k]
<1> DEFINE n == Cardinality(whole)
           s == Cardinality(part)
           ofAll == [k \in keys |-> s * all[k]]
           ofSome == [k \in keys |-> n * some[k]]
           within == [x \in part |-> key[x]]
<1>1. IsFiniteSet(part) /\ n \in Nat /\ s \in Nat
    <2>1. part \in SUBSET whole
        OBVIOUS
    <2> QED
        BY <2>1, FS_Subset, FS_CardinalityType
<1>2. keys # {}
    OBVIOUS
<1>3. ofAll \in [keys -> Nat] /\ ofSome \in [keys -> Nat]
    <2>1. ASSUME NEW k \in keys PROVE s * all[k] \in Nat /\ n * some[k] \in Nat
        <3>1. all[k] \in Nat /\ some[k] \in Nat
            OBVIOUS
        <3> HIDE DEF n, s
        <3> QED
            BY <1>1, <3>1
    <2> HIDE DEF n, s
    <2> QED
        BY <2>1
<1>4. SumOf(ofAll) = s * n
    <2>1. DOMAIN ofAll = keys
          /\ \A k \in keys : ofAll[k] = s * Cardinality(Under(k, key, whole))
        OBVIOUS
    <2> HIDE DEF n, s, ofAll
    <2> QED
        BY <1>1, <2>1, SumOfMultiples DEF n
<1>5. SumOf(ofSome) = n * s
    <2>1. within \in [part -> keys]
        OBVIOUS
    <2>2. ASSUME NEW k \in keys PROVE Under(k, key, part) = Under(k, within, part)
        BY DEF Under
    <2>3. DOMAIN ofSome = keys
          /\ \A k \in keys : ofSome[k] = n * Cardinality(Under(k, within, part))
        BY <2>2
    <2> HIDE DEF n, ofSome, within
    <2>4. IsFiniteSet(part) /\ n \in Nat
        BY <1>1
    <2> HIDE DEF s
    <2>5. SumOf(ofSome) = n * Cardinality(part)
        BY <2>1, <2>3, <2>4, SumOfMultiples
    <2> QED
        BY <2>5 DEF s
<1>6. s * n = n * s /\ s * n \in Nat
    <2> HIDE DEF n, s
    <2> QED
        BY <1>1
<1>7. \E k \in keys : ofSome[k] <= ofAll[k]
    <2>1. ASSUME \A k \in keys : ~(ofSome[k] <= ofAll[k]) PROVE FALSE
        <3>1. \A k \in keys : ofAll[k] < ofSome[k]
            <4> HIDE DEF ofAll, ofSome
            <4> QED
                BY <1>3, <2>1
        <3> HIDE DEF n, s, ofAll, ofSome
        <3>2. SumOf(ofAll) < SumOf(ofSome)
            BY <1>2, <1>3, <3>1, SumIncreases
        <3> QED
            BY <1>4, <1>5, <1>6, <3>2
    <2> QED
        BY <2>1
<1>8. \E k \in keys : ofAll[k] <= ofSome[k]
    <2>1. ASSUME \A k \in keys : ~(ofAll[k] <= ofSome[k]) PROVE FALSE
        <3>1. \A k \in keys : ofSome[k] < ofAll[k]
            <4> HIDE DEF ofAll, ofSome
            <4> QED
                BY <1>3, <2>1
        <3> HIDE DEF n, s, ofAll, ofSome
        <3>2. SumOf(ofSome) < SumOf(ofAll)
            BY <1>2, <1>3, <3>1, SumIncreases
        <3> QED
            BY <1>4, <1>5, <1>6, <3>2
    <2> QED
        BY <2>1
<1>9. ASSUME NEW k \in keys
      PROVE  ofAll[k] = s * all[k] /\ ofSome[k] = some[k] * n
    <2>1. all[k] \in Nat /\ some[k] \in Nat
        OBVIOUS
    <2>2. ofAll[k] = s * all[k] /\ ofSome[k] = n * some[k]
        OBVIOUS
    <2> HIDE DEF n, s, ofAll, ofSome
    <2> QED
        BY <1>1, <2>1, <2>2
<1>10. ASSUME NEW k \in keys PROVE ofAll[k] \in Nat /\ ofSome[k] \in Nat
    <2> HIDE DEF ofAll, ofSome
    <2> QED
        BY <1>3
<1> HIDE DEF ofAll, ofSome
<1> QED
    BY <1>7, <1>8, <1>9, <1>10
=============================================================================
