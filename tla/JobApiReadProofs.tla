-------------------------- MODULE JobApiReadProofs -------------------------
(***************************************************************************)
(* What JobApi reads, proved for any tables, page sizes and filters, with  *)
(* jobs created, worked on, exported and deleted between the calls of one  *)
(* reader (with several shards there are no jobs to read):                 *)
(*                                                                         *)
(*   - going through the pages misses nothing and repeats nothing          *)
(*     (PassesAreExact, from PassSound);                                   *)
(*   - two ways to read a row tell the same (ReadersTellTheSame);          *)
(*   - the two counts of an answer differ by what was added between them   *)
(*     (AnalyticsAddUp, from CountSound);                                  *)
(*   - every answer has the type of its message (AnswersAreMessages).      *)
(***************************************************************************)
EXTENDS JobApiProofs, FiniteSetTheorems

-----------------------------------------------------------------------------
(* Sorting: any finite set of rows at different positions has an order.     *)

\* Where a row stands in a listing: the sort column, then the id.
Positions == Int \X Int

\* The order of the positions is strict and total.
LEMMA OrderIsStrict ==
  ASSUME NEW asc, NEW a \in Positions, NEW b \in Positions
  PROVE  /\ ~InOrder(asc, a, a)
         /\ InOrder(asc, a, b) => ~InOrder(asc, b, a)
         /\ a # b => InOrder(asc, a, b) \/ InOrder(asc, b, a)
  <1>1. a[1] \in Int /\ a[2] \in Int /\ b[1] \in Int /\ b[2] \in Int
    BY DEF Positions
  <1>2. a = <<a[1], a[2]>> /\ b = <<b[1], b[2]>>
    BY DEF Positions
  <1>3. ~Less(a, a) /\ (Less(a, b) => ~Less(b, a)) /\ (a # b => Less(a, b) \/ Less(b, a))
    BY <1>1, <1>2 DEF Less
  <1>4. QED
    BY <1>3 DEF InOrder

\* The order of the positions is transitive.
LEMMA OrderIsTransitive ==
  ASSUME NEW asc, NEW a \in Positions, NEW b \in Positions, NEW c \in Positions,
         InOrder(asc, a, b), InOrder(asc, b, c)
  PROVE  InOrder(asc, a, c)
  <1>1. a[1] \in Int /\ a[2] \in Int /\ b[1] \in Int /\ b[2] \in Int /\ c[1] \in Int /\ c[2] \in Int
    BY DEF Positions
  <1>2. (Less(a, b) /\ Less(b, c) => Less(a, c)) /\ (Less(c, b) /\ Less(b, a) => Less(c, a))
    BY <1>1 DEF Less
  <1>3. QED
    BY <1>2 DEF InOrder

\* Every row has a position of its own.
Apart(rows, pos) ==
  /\ \A r \in rows : pos[r] \in Positions
  /\ \A q, r \in rows : pos[q] = pos[r] => q = r

\* A finite set of rows has a last one: induction over its size.
LEMMA Greatest ==
  ASSUME NEW rows, IsFiniteSet(rows), NEW pos, Apart(rows, pos), NEW asc, rows # {}
  PROVE  \E m \in rows : \A r \in rows \ {m} : InOrder(asc, pos[r], pos[m])
  <1> DEFINE N == Cardinality(rows)
             Great(U) == \E m \in U : \A r \in U \ {m} : InOrder(asc, pos[r], pos[m])
             Good == {n \in 0 .. N : \A U \in SUBSET rows : Cardinality(U) = n /\ U # {} => Great(U)}
  <1>1. N \in Nat
    BY FS_CardinalityType
  <1>2. \A U \in SUBSET rows : IsFiniteSet(U) /\ Cardinality(U) \in Nat /\ (Cardinality(U) = 0 <=> U = {})
    BY FS_Subset, FS_CardinalityType, FS_EmptySet
  <1>3. 0 \in Good
    BY <1>1, <1>2
  <1>4. ASSUME NEW n \in 1 .. N, n - 1 \in Good PROVE n \in Good
    <2>1. ASSUME NEW U \in SUBSET rows, Cardinality(U) = n, U # {} PROVE Great(U)
      <3>1. PICK x \in U : TRUE
        BY <2>1
      <3>2. PICK V : V = U \ {x}
        OBVIOUS
      <3>3. V \in SUBSET rows /\ Cardinality(V) = n - 1
        BY <1>2, <2>1, <3>1, <3>2, FS_RemoveElement
      <3>4. CASE V = {}
        <4>1. U \ {x} = {}
          BY <3>2, <3>4
        <4>2. QED
          BY <4>1
      <3>5. CASE V # {}
        <4>1. PICK m \in V : \A r \in V \ {m} : InOrder(asc, pos[r], pos[m])
          BY <1>4, <3>3, <3>5
        <4>2. m \in U /\ m # x /\ m \in rows /\ x \in rows
          BY <3>2, <4>1
        <4>3. pos[m] \in Positions /\ pos[x] \in Positions /\ pos[m] # pos[x]
          BY <4>2 DEF Apart
        <4>4. CASE InOrder(asc, pos[x], pos[m])
          <5>1. \A r \in U \ {m} : InOrder(asc, pos[r], pos[m])
            BY <3>2, <4>1, <4>4
          <5>2. QED
            BY <4>2, <5>1
        <4>5. CASE InOrder(asc, pos[m], pos[x])
          <5>1. ASSUME NEW r \in U \ {x} PROVE InOrder(asc, pos[r], pos[x])
            <6>1. CASE r = m
              BY <4>5, <6>1
            <6>2. CASE r # m
              <7>1. InOrder(asc, pos[r], pos[m]) /\ pos[r] \in Positions
                BY <3>2, <4>1, <6>2 DEF Apart
              <7>2. QED
                BY <4>3, <4>5, <7>1, OrderIsTransitive
            <6>3. QED
              BY <6>1, <6>2
          <5>2. QED
            BY <5>1
        <4>6. QED
          BY <4>3, <4>4, <4>5, OrderIsStrict
      <3>6. QED
        BY <3>4, <3>5
    <2>2. n \in 0 .. N
      BY <1>1
    <2>3. QED
      BY <2>1, <2>2
  <1>5. \A n \in 0 .. N : n \in Good
    <2> HIDE DEF Good, N
    <2>1. QED
      BY <1>1, <1>3, <1>4, UpTo
  <1>6. N \in 0 .. N
    BY <1>1
  <1>7. N \in Good
    BY <1>5, <1>6
  <1>8. QED
    BY <1>7

\* s lists the rows in order.
Listing(s, rows, pos, asc) ==
  /\ s \in SetToSeqs(rows)
  /\ \A i, k \in DOMAIN s : i < k => InOrder(asc, pos[s[i]], pos[s[k]])

\* A finite set of rows can be listed in order: induction over its size.
LEMMA ListingExists ==
  ASSUME NEW rows, IsFiniteSet(rows), NEW pos, Apart(rows, pos), NEW asc
  PROVE  \E s : Listing(s, rows, pos, asc)
  <1> DEFINE N == Cardinality(rows)
             Good == {n \in 0 .. N : \A U \in SUBSET rows : Cardinality(U) = n => \E s : Listing(s, U, pos, asc)}
  <1>1. N \in Nat
    BY FS_CardinalityType
  <1>2. \A U \in SUBSET rows : IsFiniteSet(U) /\ Cardinality(U) \in Nat /\ (Cardinality(U) = 0 <=> U = {})
    BY FS_Subset, FS_CardinalityType, FS_EmptySet
  <1>3. 0 \in Good
    <2>1. ASSUME NEW U \in SUBSET rows, Cardinality(U) = 0 PROVE \E s : Listing(s, U, pos, asc)
      <3>1. U = {}
        BY <1>2, <2>1
      <3>2. PICK s : s = [i \in 1 .. 0 |-> i]
        OBVIOUS
      <3>3. DOMAIN s = {} /\ s \in [1 .. 0 -> U]
        BY <3>2
      <3>4. Listing(s, U, pos, asc)
        BY <2>1, <3>3 DEF Listing, SetToSeqs
      <3>5. QED
        BY <3>4
    <2>2. 0 \in 0 .. N
      BY <1>1
    <2>3. QED
      BY <2>1, <2>2
  <1>4. ASSUME NEW n \in 1 .. N, n - 1 \in Good PROVE n \in Good
    <2>1. ASSUME NEW U \in SUBSET rows, Cardinality(U) = n PROVE \E s : Listing(s, U, pos, asc)
      <3>1. U # {} /\ IsFiniteSet(U)
        BY <1>2, <2>1
      <3>2. Apart(U, pos)
        BY DEF Apart
      <3>3. PICK m \in U : \A r \in U \ {m} : InOrder(asc, pos[r], pos[m])
        BY <3>1, <3>2, Greatest
      <3>4. PICK V : V = U \ {m}
        OBVIOUS
      <3>5. V \in SUBSET rows /\ Cardinality(V) = n - 1
        BY <2>1, <3>1, <3>4, FS_RemoveElement
      <3>6. PICK s : Listing(s, V, pos, asc)
        BY <1>4, <3>5
      <3>7. /\ s \in [1 .. n - 1 -> V] /\ (\A i, k \in 1 .. n - 1 : i # k => s[i] # s[k])
            /\ DOMAIN s = 1 .. n - 1 /\ (\A i, k \in 1 .. n - 1 : i < k => InOrder(asc, pos[s[i]], pos[s[k]]))
        BY <3>5, <3>6 DEF Listing, SetToSeqs
      <3>8. PICK t : t = [i \in 1 .. n |-> IF i < n THEN s[i] ELSE m]
        OBVIOUS
      <3>9. t[n] = m /\ \A i \in 1 .. n - 1 : t[i] = s[i] /\ s[i] \in V /\ i \in 1 .. n
        BY <3>7, <3>8
      <3>10. \A i \in 1 .. n : i = n \/ i \in 1 .. n - 1
        OBVIOUS
      <3>11. t \in [1 .. n -> U]
        <4>1. \A i \in 1 .. n : t[i] \in U
          BY <3>4, <3>9, <3>10
        <4>2. QED
          BY <3>8, <4>1
      <3>12. \A i, k \in 1 .. n : i # k => t[i] # t[k]
        BY <3>4, <3>7, <3>9, <3>10
      <3>13. ASSUME NEW i \in 1 .. n, NEW k \in 1 .. n, i < k PROVE InOrder(asc, pos[t[i]], pos[t[k]])
        <4>1. i \in 1 .. n - 1
          BY <3>13
        <4>2. CASE k = n
          BY <3>3, <3>4, <3>9, <4>1, <4>2
        <4>3. CASE k # n
          <5>1. k \in 1 .. n - 1
            BY <4>3, <3>10
          <5>2. QED
            BY <3>7, <3>9, <3>13, <4>1, <5>1
        <4>4. QED
          BY <4>2, <4>3
      <3>14. Listing(t, U, pos, asc)
        BY <2>1, <3>11, <3>12, <3>13 DEF Listing, SetToSeqs
      <3>15. QED
        BY <3>14
    <2>2. n \in 0 .. N
      BY <1>1
    <2>3. QED
      BY <2>1, <2>2
  <1>5. \A n \in 0 .. N : n \in Good
    <2> HIDE DEF Good, N
    <2>1. QED
      BY <1>1, <1>3, <1>4, UpTo
  <1>6. N \in 0 .. N
    BY <1>1
  <1>7. N \in Good
    BY <1>5, <1>6
  <1>8. QED
    BY <1>7

\* s lists the rows in order, each of them once.
Enumerates(s, rows, pos, asc) ==
  /\ s \in Seq(rows) /\ Len(s) = Cardinality(rows) /\ DOMAIN s = 1 .. Len(s)
  /\ \A i, k \in DOMAIN s : i # k => s[i] # s[k]
  /\ \A i, k \in DOMAIN s : i < k => InOrder(asc, pos[s[i]], pos[s[k]])
  /\ \A r \in rows : \E i \in DOMAIN s : s[i] = r


\* Sorted finds it, and it has each row.
LEMMA SortedLists ==
  ASSUME NEW rows, IsFiniteSet(rows), NEW pos, Apart(rows, pos), NEW asc, NEW s, s = Sorted(rows, pos, asc)
  PROVE  Enumerates(s, rows, pos, asc)
  <1>1. PICK N \in Nat : N = Cardinality(rows)
    BY FS_CardinalityType
  <1>2. PICK t : Listing(t, rows, pos, asc)
    BY ListingExists
  <1>3. \A i, k \in DOMAIN t : i < k => ~InOrder(asc, pos[t[k]], pos[t[i]])
    <2>1. ASSUME NEW i \in DOMAIN t, NEW k \in DOMAIN t, i < k PROVE ~InOrder(asc, pos[t[k]], pos[t[i]])
      <3>1. t[i] \in rows /\ t[k] \in rows /\ InOrder(asc, pos[t[i]], pos[t[k]])
        BY <1>2, <2>1 DEF Listing, SetToSeqs
      <3>2. pos[t[i]] \in Positions /\ pos[t[k]] \in Positions
        BY <3>1 DEF Apart
      <3>3. QED
        BY <3>1, <3>2, OrderIsStrict
    <2>2. QED
      BY <2>1
  <1>4. t \in SetToSeqs(rows)
    BY <1>2 DEF Listing
  <1>5. s \in SetToSeqs(rows) /\ \A i, k \in DOMAIN s : i < k => ~InOrder(asc, pos[s[k]], pos[s[i]])
    BY <1>3, <1>4 DEF Sorted
  <1>6. s \in [1 .. N -> rows] /\ \A i, k \in 1 .. N : i # k => s[i] # s[k]
    BY <1>1, <1>5 DEF SetToSeqs
  <1>7. s \in Seq(rows) /\ Len(s) = N /\ DOMAIN s = 1 .. N
    BY <1>6
  <1>8. ASSUME NEW i \in DOMAIN s, NEW k \in DOMAIN s, i < k PROVE InOrder(asc, pos[s[i]], pos[s[k]])
    <2>1. s[i] \in rows /\ s[k] \in rows /\ s[i] # s[k]
      BY <1>6, <1>7, <1>8
    <2>2. pos[s[i]] \in Positions /\ pos[s[k]] \in Positions /\ pos[s[i]] # pos[s[k]]
      BY <2>1 DEF Apart
    <2>3. ~InOrder(asc, pos[s[k]], pos[s[i]])
      BY <1>5, <1>8
    <2>4. QED
      BY <2>2, <2>3, OrderIsStrict
  <1>9. \A r \in rows : \E i \in DOMAIN s : s[i] = r
    <2>1. s \in Injection(1 .. N, rows)
      BY <1>6 DEF Injection, IsInjective
    <2>2. IsFiniteSet(1 .. N) /\ Cardinality(1 .. N) = N
      BY FS_Interval
    <2>3. s \in Surjection(1 .. N, rows)
      BY <1>1, <2>1, <2>2, FS_Injection
    <2>4. QED
      BY <1>7, <2>3 DEF Surjection
  <1>10. QED
    BY <1>1, <1>6, <1>7, <1>8, <1>9 DEF Enumerates

\* page is a page of the rows B in their order; if there are more, each row
\* is on it or behind its last one.
PageOf(page, more, B, pos, asc) ==
  /\ page \in Seq(B) /\ DOMAIN page = 1 .. Len(page)
  /\ \A i, k \in DOMAIN page : page[i] = page[k] => i = k
  /\ ~more => \A r \in B : \E i \in DOMAIN page : page[i] = r
  /\ more => /\ Len(page) \in DOMAIN page
             /\ \A i \in DOMAIN page : ~InOrder(asc, pos[page[Len(page)]], pos[page[i]])
             /\ \A r \in B : (\E i \in DOMAIN page : page[i] = r) \/ InOrder(asc, pos[page[Len(page)]], pos[r])

\* The first m rows of a list.
LEMMA FirstRows ==
  ASSUME NEW S, NEW t \in Seq(S), NEW m \in 0 .. Len(t), NEW s, s = SubSeq(t, 1, m)
  PROVE  s \in Seq(S) /\ Len(s) = m /\ DOMAIN s = 1 .. m /\ \A i \in 1 .. m : s[i] = t[i]
  OBVIOUS

\* Keyset pagination: a seek for limit + 1 rows gives a page of what is after
\* the cursor, and says whether there is more.
LEMMA SeekSpec ==
  ASSUME NEW pos, IsFiniteSet(DOMAIN pos), Apart(DOMAIN pos, pos), NEW asc, NEW after, NEW limit \in Nat \ {0},
         NEW B, B = {r \in DOMAIN pos : after = Nil \/ InOrder(asc, after, pos[r])},
         NEW s, s = Seek(pos, asc, after, limit)
  PROVE  /\ PageOf(Trim(s, limit), HasMore(s, limit), B, pos, asc)
         /\ s \in Seq(B)
         /\ Cardinality(B) <= limit => ~HasMore(s, limit)
  <1>1. IsFiniteSet(B) /\ Apart(B, pos)
    <2>1. B \in SUBSET (DOMAIN pos)
      OBVIOUS
    <2>2. QED
      BY <2>1, FS_Subset DEF Apart
  <1>2. PICK t : t = Sorted(B, pos, asc)
    OBVIOUS
  <1>3. /\ t \in Seq(B) /\ Len(t) = Cardinality(B) /\ DOMAIN t = 1 .. Len(t)
        /\ \A i, k \in DOMAIN t : i # k => t[i] # t[k]
        /\ \A i, k \in DOMAIN t : i < k => InOrder(asc, pos[t[i]], pos[t[k]])
        /\ \A r \in B : \E i \in DOMAIN t : t[i] = r
    <2>1. Enumerates(t, B, pos, asc)
      BY <1>1, <1>2, SortedLists, Zenon
    <2>2. QED
      BY <2>1 DEF Enumerates
  <1>4. PICK L \in Nat : L = Len(t)
    <2>1. t \in Seq(B)
      BY <1>3
    <2>2. QED
      BY <2>1, LenProperties
  <1>5. s = SubSeq(t, 1, IF L > limit + 1 THEN limit + 1 ELSE L)
    BY <1>2, <1>4 DEF Seek
  <1>6. CASE L <= limit
    <2>1. s = SubSeq(t, 1, L) /\ L \in 0 .. L
      BY <1>5, <1>6
    <2>2. s \in Seq(B) /\ Len(s) = L /\ DOMAIN s = 1 .. L /\ \A i \in 1 .. L : s[i] = t[i]
      <3>1. t \in Seq(B) /\ L \in 0 .. Len(t)
        BY <1>3, <1>4, <2>1
      <3>2. QED
        BY <2>1, <3>1, FirstRows
    <2>3. ~HasMore(s, limit) /\ Trim(s, limit) = s
      BY <1>6, <2>2 DEF HasMore, Trim
    <2>4. PageOf(s, FALSE, B, pos, asc)
      BY <1>3, <1>4, <2>2 DEF PageOf
    <2>5. PageOf(s, HasMore(s, limit), B, pos, asc)
      BY <2>3, <2>4 DEF PageOf
    <2>6. QED
      BY <2>2, <2>3, <2>5
  <1>7. CASE L > limit
    <2>1. PICK m \in 0 .. L : m > limit /\ s = SubSeq(t, 1, m)
      <3>1. CASE L > limit + 1
        <4>1. s = SubSeq(t, 1, limit + 1) /\ limit + 1 \in 0 .. L
          BY <1>5, <3>1
        <4>2. QED
          BY <4>1
      <3>2. CASE ~(L > limit + 1)
        <4>1. s = SubSeq(t, 1, L) /\ L \in 0 .. L
          BY <1>5, <3>2
        <4>2. QED
          BY <1>7, <4>1
      <3>3. QED
        BY <3>1, <3>2
    <2>2. s \in Seq(B) /\ Len(s) = m /\ DOMAIN s = 1 .. m /\ \A i \in 1 .. m : s[i] = t[i]
      BY <1>3, <1>4, <2>1, FirstRows
    <2>3. HasMore(s, limit) /\ Trim(s, limit) = SubSeq(s, 1, limit)
      BY <2>1, <2>2 DEF HasMore, Trim
    <2>4. PICK page : page = SubSeq(s, 1, limit)
      OBVIOUS
    <2>5. limit \in 0 .. Len(s)
      BY <2>1, <2>2
    <2>6. page \in Seq(B) /\ Len(page) = limit /\ DOMAIN page = 1 .. limit /\ \A i \in 1 .. limit : page[i] = s[i]
      BY <2>2, <2>4, <2>5, FirstRows
    <2>7. \A i \in 1 .. limit : i \in 1 .. m /\ i \in 1 .. L /\ page[i] = t[i]
      BY <1>7, <2>1, <2>2, <2>6
    <2>8. \A i, k \in DOMAIN page : page[i] = page[k] => i = k
      BY <1>3, <1>4, <2>6, <2>7
    <2>9. limit \in 1 .. limit
      OBVIOUS
    <2>10. page[Len(page)] = t[limit]
      BY <2>6, <2>7, <2>9
    <2>11. ASSUME NEW i \in DOMAIN page PROVE ~InOrder(asc, pos[t[limit]], pos[page[i]])
      <3>1. page[i] = t[i] /\ i \in 1 .. L /\ limit \in 1 .. L /\ i \in 1 .. limit
        BY <2>6, <2>7, <2>9
      <3>2. pos[t[i]] \in Positions /\ pos[t[limit]] \in Positions
        BY <1>1, <1>3, <1>4, <3>1 DEF Apart
      <3>3. CASE i = limit
        BY <3>1, <3>2, <3>3, OrderIsStrict
      <3>4. CASE i # limit
        <4>1. i < limit
          BY <3>1, <3>4
        <4>2. InOrder(asc, pos[t[i]], pos[t[limit]])
          BY <1>3, <1>4, <3>1, <4>1
        <4>3. QED
          BY <3>1, <3>2, <4>2, OrderIsStrict
      <3>5. QED
        BY <3>3, <3>4
    <2>12. ASSUME NEW r \in B PROVE (\E i \in DOMAIN page : page[i] = r) \/ InOrder(asc, pos[t[limit]], pos[r])
      <3>1. PICK i \in 1 .. L : t[i] = r
        BY <1>3, <1>4
      <3>2. CASE i \in 1 .. limit
        BY <2>6, <2>7, <3>1, <3>2
      <3>3. CASE i \notin 1 .. limit
        <4>1. limit < i /\ limit \in 1 .. L
          BY <2>7, <2>9, <3>3
        <4>2. QED
          BY <1>3, <1>4, <3>1, <4>1
      <3>4. QED
        BY <3>2, <3>3
    <2>13. PageOf(page, TRUE, B, pos, asc)
      BY <2>6, <2>8, <2>9, <2>10, <2>11, <2>12 DEF PageOf
    <2>14. PageOf(page, HasMore(s, limit), B, pos, asc)
      BY <2>3, <2>13 DEF PageOf
    <2>15. ~(Cardinality(B) <= limit)
      BY <1>3, <1>4, <1>7
    <2>16. QED
      BY <2>2, <2>3, <2>4, <2>14, <2>15
  <1>8. QED
    BY <1>6, <1>7

\* No rows, no page.
LEMMA SeekNone ==
  ASSUME NEW pos, DOMAIN pos = {}, NEW asc, NEW after, NEW limit \in Nat
  PROVE  Seek(pos, asc, after, limit) = <<>>
  <1>1. PICK B : B = {r \in DOMAIN pos : after = Nil \/ InOrder(asc, after, pos[r])}
    OBVIOUS
  <1>2. B = {} /\ IsFiniteSet(B) /\ Cardinality(B) = 0 /\ Apart(B, pos)
    BY <1>1, FS_EmptySet DEF Apart
  <1>3. PICK t : t = Sorted(B, pos, asc)
    OBVIOUS
  <1>4. t \in Seq(B) /\ Len(t) = 0
    BY <1>2, <1>3, SortedLists DEF Enumerates
  <1>5. t = <<>>
    BY <1>4
  <1>6. Seek(pos, asc, after, limit) = SubSeq(t, 1, IF Len(t) > limit + 1 THEN limit + 1 ELSE Len(t))
    BY <1>1, <1>3 DEF Seek
  <1>7. Seek(pos, asc, after, limit) = SubSeq(<<>>, 1, 0)
    BY <1>4, <1>5, <1>6
  <1>8. QED
    BY <1>7

-----------------------------------------------------------------------------
(* A query without a key: only the first shard has rows.                    *)

\* Flattening lists of which only the first has elements.
LEMMA OnlyFirst ==
  ASSUME NEW n \in Nat \ {0}, NEW S, NEW first \in Seq(S), NEW seqs, seqs = [i \in 1 .. n |-> IF i = 1 THEN first ELSE <<>>]
  PROVE  FlattenSeq(seqs) = first
  <1> DEFINE Step(f, i) == IF i = 1 THEN seqs[i] ELSE f[i - 1] \o seqs[i]
  <1>1. Len(seqs) = n /\ DOMAIN seqs = 1 .. n /\ seqs[1] = first /\ \A i \in 2 .. n : seqs[i] = <<>>
    <2>0. seqs \in Seq(Seq(S))
      <3>1. <<>> \in Seq(S)
        OBVIOUS
      <3>2. \A i \in 1 .. n : (IF i = 1 THEN first ELSE <<>>) \in Seq(S)
        BY <3>1
      <3>3. QED
        BY <3>2
    <2>1. DOMAIN seqs = 1 .. n
      OBVIOUS
    <2>2. Len(seqs) = n
      BY <2>0, <2>1, LenProperties
    <2>3. QED
      BY <2>1, <2>2
  <1>2. first \o <<>> = first
    OBVIOUS
  <1>3. PICK g : g = [i \in 1 .. n |-> first]
    OBVIOUS
  <1>4. g = [i \in 1 .. n |-> Step(g, i)]
    <2>1. ASSUME NEW i \in 1 .. n PROVE Step(g, i) = first
      <3>1. CASE i = 1
        BY <1>1, <3>1
      <3>2. CASE i # 1
        <4>1. i - 1 \in 1 .. n /\ i \in 2 .. n
          BY <3>2
        <4>2. g[i - 1] = first /\ seqs[i] = <<>>
          BY <1>1, <1>3, <4>1
        <4>3. QED
          BY <1>2, <3>2, <4>2
      <3>3. QED
        BY <3>1, <3>2
    <2>2. QED
      BY <1>3, <2>1
  <1>5. PICK f : f = (CHOOSE h : h = [i \in 1 .. n |-> Step(h, i)]) /\ FlattenSeq(seqs) = f[n]
    BY <1>1 DEF FlattenSeq
  <1>6. f = [i \in 1 .. n |-> Step(f, i)]
    BY <1>4, <1>5
  <1> DEFINE Good == {m \in 0 .. n : m = 0 \/ f[m] = first}
  <1>7. \A m \in 0 .. n : m \in Good
    <2>1. 0 \in Good
      OBVIOUS
    <2>2. ASSUME NEW m \in 1 .. n, m - 1 \in Good PROVE m \in Good
      <3>1. f[m] = Step(f, m) /\ m \in 0 .. n
        BY <1>6
      <3>2. CASE m = 1
        BY <1>1, <3>1, <3>2
      <3>3. CASE m # 1
        <4>1. m \in 2 .. n /\ m - 1 # 0
          BY <3>3
        <4>2. f[m - 1] = first /\ seqs[m] = <<>>
          BY <1>1, <2>2, <4>1
        <4>3. QED
          BY <1>2, <3>1, <3>3, <4>2
      <3>4. QED
        BY <3>2, <3>3
    <2> HIDE DEF Good
    <2>3. QED
      BY <2>1, <2>2, UpTo
  <1>8. n \in 0 .. n /\ n # 0
    OBVIOUS
  <1>9. QED
    BY <1>5, <1>7, <1>8

-----------------------------------------------------------------------------
(* A pass sees a table: the rows there are, their positions, those that    *)
(* its filter wants, and those that have been deleted for good.            *)

\* The rows of a view are finitely many, at different positions, and alive.
ViewSound(v) ==
  /\ IsFiniteSet(v.now) /\ Apart(v.now, v.at) /\ DOMAIN v.at = v.now
  /\ v.hits \subseteq v.now
  /\ v.now \cap v.dead = {}

\* The table changes: the rows in gone are deleted, those in stirred move.
ViewStep(v, w, gone, stirred) ==
  /\ \A r \in v.now : r \in w.now \cup w.dead
  /\ v.dead \subseteq w.dead
  /\ \A r \in (v.now \cap w.now) \ stirred : w.at[r] = v.at[r]
  /\ \A r \in v.hits \ (gone \cup stirred) : r \in w.hits

\* A pass that has come to position c: what it has listed lies up to c, and
\* of the steady rows it has listed each one or has it before itself.
Reached(listed, steady, moved, v, c, asc) ==
  /\ c \in Positions
  /\ \A i \in DOMAIN listed :
       listed[i] \in moved \/ (/\ listed[i] \in v.now \cup v.dead
                               /\ listed[i] \in v.now => ~InOrder(asc, c, v.at[listed[i]]))
  /\ \A r \in steady : r \in v.hits /\ ((\E i \in DOMAIN listed : listed[i] = r) \/ InOrder(asc, c, v.at[r]))

\* No row twice, unless it moved.
NoTwice(listed, moved) ==
  \A i, k \in DOMAIN listed : listed[i] = listed[k] => i = k \/ listed[i] \in moved

\* The table changes between two pages.
LEMMA ReachedKept ==
  ASSUME NEW v, ViewSound(v), NEW w, ViewSound(w), NEW gone, NEW stirred, ViewStep(v, w, gone, stirred),
         NEW listed, NEW steady, NEW moved, NEW c, NEW asc, Reached(listed, steady, moved, v, c, asc),
         NEW steady2 \in SUBSET (steady \ (gone \cup stirred)), NEW moved2, moved \cup stirred \subseteq moved2
  PROVE  Reached(listed, steady2, moved2, w, c, asc)
  <1>1. ASSUME NEW i \in DOMAIN listed, listed[i] \notin moved2
        PROVE  /\ listed[i] \in w.now \cup w.dead
               /\ listed[i] \in w.now => ~InOrder(asc, c, w.at[listed[i]])
    <2>1. PICK r : r = listed[i]
      OBVIOUS
    <2>2. r \in v.now \cup v.dead /\ (r \in v.now => ~InOrder(asc, c, v.at[r]))
      BY <1>1, <2>1 DEF Reached
    <2>3. r \in w.now \cup w.dead
      BY <2>2 DEF ViewStep
    <2>4. ASSUME r \in w.now PROVE ~InOrder(asc, c, w.at[r])
      <3>1. r \in v.now
        BY <2>2, <2>4 DEF ViewStep, ViewSound
      <3>2. w.at[r] = v.at[r]
        BY <1>1, <2>1, <2>4, <3>1 DEF ViewStep
      <3>3. QED
        BY <2>2, <3>1, <3>2
    <2>5. QED
      BY <2>1, <2>3, <2>4
  <1>2. ASSUME NEW r \in steady2
        PROVE  r \in w.hits /\ ((\E i \in DOMAIN listed : listed[i] = r) \/ InOrder(asc, c, w.at[r]))
    <2>1. r \in v.hits /\ r \in w.hits /\ ((\E i \in DOMAIN listed : listed[i] = r) \/ InOrder(asc, c, v.at[r]))
      BY DEF Reached, ViewStep
    <2>2. w.at[r] = v.at[r]
      BY <2>1 DEF ViewStep, ViewSound
    <2>3. QED
      BY <2>1, <2>2
  <1>3. QED
    BY <1>1, <1>2 DEF Reached

\* The rows behind `after` are those that the pass has before it.
Before(listed, steady, moved, v, asc, after) ==
  \/ after = Nil /\ listed = <<>> /\ steady \subseteq v.hits
  \/ after # Nil /\ Reached(listed, steady, moved, v, after, asc)

\* What is listed after a page: all, up to position c if there are more.
Taken(all, steady, moved, v, c, asc, more) ==
  /\ all \in Seq(String)
  /\ NoTwice(all, moved)
  /\ ~more => \A r \in steady : \E i \in DOMAIN all : all[i] = r
  /\ more => Reached(all, steady, moved, v, c, asc)

\* The pass takes a page of them.
LEMMA PageTaken ==
  ASSUME NEW v, ViewSound(v), NEW listed \in Seq(String), NEW steady, NEW moved, NoTwice(listed, moved), NEW asc, NEW after,
         Before(listed, steady, moved, v, asc, after), NEW more, NEW ids, ids \in Seq(String),
         NEW B, B = {r \in v.hits : after = Nil \/ InOrder(asc, after, v.at[r])}, PageOf(ids, more, B, v.at, asc),
         NEW all, all = listed \o ids
  PROVE  Taken(all, steady, moved, v, v.at[ids[Len(ids)]], asc, more)
  <1> \/ after = Nil /\ listed = <<>> /\ steady \subseteq v.hits
      \/ after # Nil /\ Reached(listed, steady, moved, v, after, asc)
    BY DEF Before
  <1>1. B = {r \in v.hits : after = Nil \/ InOrder(asc, after, v.at[r])}
    OBVIOUS
  <1>2. PageOf(ids, more, B, v.at, asc)
    OBVIOUS
  <1>3. PICK L \in Nat, K \in Nat : L = Len(listed) /\ K = Len(ids)
    BY LenProperties
  <1>4. DOMAIN listed = 1 .. L /\ DOMAIN ids = 1 .. K /\ all \in Seq(String) /\ DOMAIN all = 1 .. (L + K)
        /\ (\A i \in 1 .. L : all[i] = listed[i]) /\ (\A i \in 1 .. K : all[L + i] = ids[i])
        /\ (\A i \in (L + 1) .. (L + K) : i - L \in 1 .. K /\ all[i] = ids[i - L])
    BY <1>3
  <1>5. \A i \in 1 .. K : ids[i] \in B
    BY <1>2, <1>4 DEF PageOf
  \* A row that was listed before comes again only if it moved.
  <1>6. ASSUME NEW i \in 1 .. L, NEW k \in 1 .. K, listed[i] = ids[k] PROVE listed[i] \in moved
    <2>1. after # Nil
      <3>1. L # 0
        OBVIOUS
      <3>2. QED
        BY <1>3, <3>1
    <2>2. Reached(listed, steady, moved, v, after, asc)
      BY <2>1
    <2>3. ids[k] \in v.now /\ InOrder(asc, after, v.at[ids[k]])
      BY <1>1, <1>5, <2>1 DEF ViewSound
    <2>4. QED
      BY <1>4, <1>6, <2>2, <2>3 DEF Reached
  <1>7. NoTwice(all, moved)
    <2>1. ASSUME NEW i \in 1 .. (L + K), NEW k \in 1 .. (L + K), all[i] = all[k] PROVE i = k \/ all[i] \in moved
      <3>1. CASE i \in 1 .. L /\ k \in 1 .. L
        BY <1>4, <2>1, <3>1 DEF NoTwice
      <3>2. CASE i \in 1 .. L /\ k \notin 1 .. L
        <4>1. k - L \in 1 .. K /\ all[k] = ids[k - L] /\ all[i] = listed[i]
          BY <1>4, <3>2
        <4>2. QED
          BY <1>6, <2>1, <3>2, <4>1
      <3>3. CASE i \notin 1 .. L /\ k \in 1 .. L
        <4>1. i - L \in 1 .. K /\ all[i] = ids[i - L] /\ all[k] = listed[k]
          BY <1>4, <3>3
        <4>2. QED
          BY <1>6, <2>1, <3>3, <4>1
      <3>4. CASE i \notin 1 .. L /\ k \notin 1 .. L
        <4>1. i - L \in 1 .. K /\ all[i] = ids[i - L] /\ k - L \in 1 .. K /\ all[k] = ids[k - L]
          BY <1>4, <3>4
        <4>2. \A m, n \in 1 .. K : ids[m] = ids[n] => m = n
          BY <1>2, <1>4 DEF PageOf
        <4>3. i - L = k - L
          BY <2>1, <4>1, <4>2
        <4>4. QED
          BY <4>3
      <3>5. QED
        BY <3>1, <3>2, <3>3, <3>4
    <2>2. QED
      BY <1>4, <2>1 DEF NoTwice
  <1>8. ASSUME NEW r \in steady PROVE r \in v.hits /\ ((\E i \in DOMAIN all : all[i] = r) \/ r \in B)
    <2>1. CASE after = Nil
      BY <1>1, <2>1
    <2>2. CASE after # Nil
      <3>1. r \in v.hits /\ ((\E i \in DOMAIN listed : listed[i] = r) \/ InOrder(asc, after, v.at[r]))
        BY <2>2 DEF Reached
      <3>2. CASE \E i \in DOMAIN listed : listed[i] = r
        BY <1>4, <3>1, <3>2
      <3>3. CASE InOrder(asc, after, v.at[r])
        BY <1>1, <3>1, <3>3
      <3>4. QED
        BY <3>1, <3>2, <3>3
    <2>3. QED
      BY <2>1, <2>2
  <1>9. ASSUME NEW k \in 1 .. K PROVE \E i \in DOMAIN all : all[i] = ids[k]
    <2>1. L + k \in 1 .. (L + K)
      OBVIOUS
    <2>2. QED
      BY <1>4, <2>1
  <1>10. ASSUME ~more, NEW r \in steady PROVE \E i \in DOMAIN all : all[i] = r
    <2>1. r \in B => \E k \in 1 .. K : ids[k] = r
      BY <1>2, <1>4, <1>10 DEF PageOf
    <2>2. QED
      BY <1>8, <1>9, <2>1
  <1>11. ASSUME more PROVE Reached(all, steady, moved, v, v.at[ids[Len(ids)]], asc)
    <2>1. PICK c : c = v.at[ids[K]]
      OBVIOUS
    <2>2. /\ K \in 1 .. K
          /\ \A i \in 1 .. K : ~InOrder(asc, c, v.at[ids[i]])
          /\ \A r \in B : (\E i \in 1 .. K : ids[i] = r) \/ InOrder(asc, c, v.at[r])
      BY <1>2, <1>3, <1>4, <1>11, <2>1 DEF PageOf
    <2>3. c \in Positions /\ ids[K] \in B /\ \A r \in v.now : v.at[r] \in Positions
      BY <1>1, <1>5, <2>1, <2>2 DEF ViewSound, Apart
    <2>4. ASSUME NEW i \in 1 .. (L + K), all[i] \notin moved
          PROVE  all[i] \in v.now \cup v.dead /\ (all[i] \in v.now => ~InOrder(asc, c, v.at[all[i]]))
      <3>1. CASE i \in 1 .. L
        <4>1. PICK r : r = listed[i] /\ r = all[i]
          BY <1>4, <3>1
        <4>2. after # Nil
          <5>1. L # 0
            BY <3>1
          <5>2. QED
            BY <1>3, <5>1
        <4>3. r \in v.now \cup v.dead /\ (r \in v.now => ~InOrder(asc, after, v.at[r])) /\ after \in Positions
          BY <1>4, <2>4, <3>1, <4>1, <4>2 DEF Reached
        <4>4. InOrder(asc, after, c)
          BY <1>1, <2>1, <2>3, <4>2
        <4>5. r \in v.now => ~InOrder(asc, c, v.at[r])
          BY <2>3, <4>3, <4>4, OrderIsTransitive
        <4>6. QED
          BY <4>1, <4>3, <4>5
      <3>2. CASE i \notin 1 .. L
        <4>1. PICK k \in 1 .. K : all[i] = ids[k]
          <5>1. i \in (L + 1) .. (L + K)
            BY <3>2
          <5>2. QED
            BY <1>4, <5>1
        <4>2. ids[k] \in v.now
          BY <1>1, <1>5 DEF ViewSound
        <4>3. QED
          BY <2>2, <4>1, <4>2
      <3>3. QED
        BY <3>1, <3>2
    <2>5. ASSUME NEW r \in steady
          PROVE  r \in v.hits /\ ((\E i \in DOMAIN all : all[i] = r) \/ InOrder(asc, c, v.at[r]))
      <3>1. r \in v.hits /\ ((\E i \in DOMAIN all : all[i] = r) \/ r \in B)
        BY <1>8
      <3>2. r \in B => (\E k \in 1 .. K : ids[k] = r) \/ InOrder(asc, c, v.at[r])
        BY <2>2
      <3>3. (\E k \in 1 .. K : ids[k] = r) => \E i \in DOMAIN all : all[i] = r
        BY <1>9
      <3>4. QED
        BY <3>1, <3>2, <3>3
    <2>6. Reached(all, steady, moved, v, c, asc)
      BY <1>4, <2>3, <2>4, <2>5 DEF Reached
    <2>7. QED
      BY <1>3, <2>1, <2>6
  <1>12. QED
    BY <1>4, <1>7, <1>10, <1>11 DEF Taken

-----------------------------------------------------------------------------
(* The tables that the passes see.                                         *)

\* The rank of a string is its place in the collation.
LEMMA RankOf ==
  ASSUME NEW s \in String
  PROVE  Rank[s] \in Int /\ Collation[Rank[s]] = s
  <1>1. \E i \in DOMAIN Collation : Collation[i] = s
    BY DEF String
  <1>2. PICK k : k = CHOOSE i \in DOMAIN Collation : Collation[i] = s
    OBVIOUS
  <1>3. k \in DOMAIN Collation /\ Collation[k] = s
    BY <1>1, <1>2
  <1>4. DOMAIN Collation = 1 .. Len(Collation) /\ Len(Collation) \in Nat
    <2>1. Collation \in Seq(STRING)
      BY StoreAssumption
    <2>2. QED
      BY <2>1, LenProperties
  <1>5. Rank[s] = k
    BY <1>2, Zenon DEF Rank
  <1>6. QED
    BY <1>3, <1>4, <1>5

\* A collation is a list, so it has finitely many strings.
LEMMA StringsAreFinite == IsFiniteSet(String) /\ \A U \in SUBSET String : IsFiniteSet(U)
  <1>1. PICK n \in Nat : DOMAIN Collation = 1 .. n
    <2>1. Collation \in Seq(STRING)
      BY StoreAssumption
    <2>2. QED
      BY <2>1, LenProperties
  <1>2. IsFiniteSet(1 .. n)
    BY FS_Interval
  <1>3. Collation \in Surjection(1 .. n, String)
    <2>1. Collation \in [1 .. n -> String]
      <3>1. Collation \in Seq(STRING)
        BY StoreAssumption
      <3>2. Collation = [i \in 1 .. n |-> Collation[i]]
        BY <1>1, <3>1
      <3>3. \A i \in 1 .. n : Collation[i] \in String
        BY <1>1 DEF String
      <3>4. QED
        BY <3>2, <3>3
    <2>2. \A s \in String : \E i \in 1 .. n : Collation[i] = s
      BY <1>1 DEF String
    <2>3. QED
      BY <2>1, <2>2 DEF Surjection
  <1>4. IsFiniteSet(String)
    BY <1>2, <1>3, FS_Surjection
  <1>5. QED
    BY <1>4, FS_Subset

\* The columns of job j's row r.
Columns(j, r) == [id |-> j, name |-> r.config.name, status |-> r.job.status, createdAt |-> r.job.createdAt]

\* The columns of a sound row that a listing sorts by.
LEMMA JobColumns ==
  ASSUME NEW j \in JobIds, NEW r, RowSound(j, r)
  PROVE  /\ j \in String /\ r.config.name \in String /\ r.job.status \in {"InProgress", "Completed"}
         /\ r.job.status \in String /\ r.job.createdAt \in Timestamp /\ r.job.createdAt \in Int
  <1>1. r \in StoredJob /\ r.job.status \in {"InProgress", "Completed"}
    BY DEF RowSound
  <1>2. PICK c \in ConfigRow, b \in JobModel : c = r.config /\ b = r.job
    BY <1>1 DEF StoredJob
  <1>3. c.name \in String
    BY DEF ConfigRow, ConfigWith
  <1>4. b.createdAt \in Timestamp
    BY DEF JobModel
  <1>5. {"InProgress", "Completed"} \subseteq String
    BY ApiAssumption
  <1>6. b.createdAt \in Int
    BY <1>4 DEF Timestamp
  <1>7. QED
    BY <1>1, <1>2, <1>3, <1>4, <1>5, <1>6, StoreAssumption

\* A row or a cursor with these columns has a position, with the id at its end.
LEMMA JobPlace ==
  ASSUME NEW field, NEW r, r.id \in String, r.name \in String, r.status \in String, r.createdAt \in Int
  PROVE  JobPosition(field, r) \in Positions /\ JobPosition(field, r)[2] = Rank[r.id]
  <1>1. PICK k : k = CASE field = "name" -> Rank[r.name] [] field = "status" -> Rank[r.status] [] OTHER -> r.createdAt
    OBVIOUS
  <1>2. Rank[r.id] \in Int /\ Rank[r.name] \in Int /\ Rank[r.status] \in Int
    BY RankOf
  <1>3. k \in Int
    BY <1>1, <1>2
  <1>4. JobPosition(field, r) = <<k, Rank[r.id]>>
    BY <1>1 DEF JobPosition
  <1>5. QED
    BY <1>2, <1>3, <1>4 DEF Positions

\* The jobs as ListJobs sees them.
JobView(field, filter) ==
  [now |-> Present,
   at |-> [j \in Present |-> JobPosition(field, JobRow(j))],
   hits |-> {j \in Present : JobMatches(j, filter)},
   dead |-> {j \in JobIds : jobs[j] = Gone}]

\* The columns of a job that is there.
LEMMA PresentRows ==
  ASSUME StoreSound, NEW j \in Present
  PROVE  /\ j \in JobIds /\ RowSound(j, jobs[j]) /\ JobRow(j) = Columns(j, jobs[j])
         /\ j \in String /\ JobRow(j).id = j /\ JobRow(j).name \in String /\ JobRow(j).status \in String
         /\ JobRow(j).createdAt \in Int /\ JobRow(j).createdAt \in Timestamp
         /\ JobRow(j).status \in {"InProgress", "Completed"}
  <1>1. j \in JobIds /\ RowSound(j, jobs[j]) /\ JobRow(j) = Columns(j, jobs[j])
    BY DEF StoreSound, Present, JobRow, Columns
  <1>2. PICK r : r = jobs[j] /\ RowSound(j, r)
    BY <1>1
  <1>3. QED
    BY <1>1, <1>2, JobColumns DEF Columns

\* The view of the jobs is sound.
LEMMA JobViewSound ==
  ASSUME StoreSound, NEW field, NEW filter
  PROVE  ViewSound(JobView(field, filter))
  <1>1. PICK at : at = [j \in Present |-> JobPosition(field, JobRow(j))]
    OBVIOUS
  <1>2. ASSUME NEW j \in Present PROVE at[j] \in Positions /\ at[j][2] = Rank[j]
    <2>1. PICK r : r = JobRow(j)
      OBVIOUS
    <2>2. r.id = j /\ r.id \in String /\ r.name \in String /\ r.status \in String /\ r.createdAt \in Int
      BY <2>1, PresentRows
    <2>3. JobPosition(field, r) \in Positions /\ JobPosition(field, r)[2] = Rank[r.id]
      BY <2>2, JobPlace
    <2>4. QED
      BY <1>1, <2>1, <2>2, <2>3
  <1>3. ASSUME NEW i \in Present, NEW j \in Present, at[i] = at[j] PROVE i = j
    BY <1>2, <1>3, RankOf, PresentRows
  <1>4. Apart(Present, at)
    BY <1>2, <1>3 DEF Apart
  <1>5. IsFiniteSet(Present)
    <2>1. Present \in SUBSET String
      BY PresentRows
    <2>2. QED
      BY <2>1, StringsAreFinite
  <1>6. Present \cap {j \in JobIds : jobs[j] = Gone} = {}
    BY DEF Present
  <1>7. QED
    BY <1>1, <1>4, <1>5, <1>6 DEF JobView, ViewSound

-----------------------------------------------------------------------------
(* ListJobs asks every shard, but all rows are on the first.               *)

\* Every job is on the first shard.
LEMMA FirstShard ==
  ASSUME StoreSound
  PROVE  On(0) = Present /\ \A s \in Shards \ {0} : On(s) = {}
  <1>1. \A j \in Present : jobs[j].shard = 0
    BY DEF StoreSound, RowSound
  <1>2. QED
    BY <1>1 DEF On

\* A query without a key answers what the first shard does.
LEMMA QueryFirst ==
  ASSUME deploy.shards \in Nat \ {0}, NEW S, NEW first \in Seq(S), NEW rows, rows[0] = first,
         \A s \in Shards \ {0} : rows[s] = <<>>
  PROVE  Query(Nil, rows) = first
  <1>1. PICK n \in Nat \ {0} : n = deploy.shards
    OBVIOUS
  <1>2. Resolve(Nil) = 0
    BY DEF Resolve
  <1>3. CASE n = 1
    BY <1>1, <1>2, <1>3 DEF Query
  <1>4. CASE n # 1
    <2>1. PICK seqs : seqs = [i \in 1 .. n |-> rows[i - 1]]
      OBVIOUS
    <2>2. \A i \in 1 .. n : rows[i - 1] = IF i = 1 THEN first ELSE <<>>
      <3>1. ASSUME NEW i \in 1 .. n, i # 1 PROVE rows[i - 1] = <<>>
        <4>1. i - 1 \in Shards \ {0}
          BY <1>1, <3>1 DEF Shards
        <4>2. QED
          BY <4>1
      <3>2. QED
        BY <3>1
    <2>3. seqs = [i \in 1 .. n |-> IF i = 1 THEN first ELSE <<>>]
      BY <2>1, <2>2
    <2>4. FlattenSeq(seqs) = first
      BY <2>3, OnlyFirst
    <2>5. Query(Nil, rows) = FlattenSeq(seqs)
      BY <1>1, <1>4, <2>1 DEF Query
    <2>6. QED
      BY <2>4, <2>5
  <1>5. QED
    BY <1>3, <1>4

\* The rows that the list of jobs is made of.
LEMMA JobRowsSought ==
  ASSUME StoreSound, NEW cursor, NEW limit \in Nat \ {0}, NEW filter, NEW field, NEW asc,
         NEW q, q = [cursor |-> cursor, limit |-> limit, filter |-> filter, sortField |-> field, sortAsc |-> asc],
         NEW after, after = (IF cursor = Nil THEN Nil ELSE JobPosition(field, cursor)),
         NEW pos, pos = [j \in {j \in Present : JobMatches(j, filter)} |-> JobPosition(field, JobRow(j))]
  PROVE  JobRows(q) = Seek(pos, asc, after, limit)
  <1> DEFINE found(s) == {j \in On(s) : JobMatches(j, filter)}
             rows == [s \in Shards |-> Seek([j \in found(s) |-> JobPosition(field, JobRow(j))], asc, after, limit)]
  <1>1. deploy.shards \in Nat \ {0} /\ 0 \in Shards
    BY DEF StoreSound, Shards
  <1>2. PICK first : first = Seek(pos, asc, after, limit)
    OBVIOUS
  <1>3. first \in Seq({r \in DOMAIN pos : after = Nil \/ InOrder(asc, after, pos[r])})
    <2>1. ViewSound(JobView(field, filter))
      BY JobViewSound
    <2>2. IsFiniteSet(Present) /\ Apart(Present, [j \in Present |-> JobPosition(field, JobRow(j))])
      BY <2>1 DEF ViewSound, JobView
    <2>3. DOMAIN pos \in SUBSET Present
      OBVIOUS
    <2>4. IsFiniteSet(DOMAIN pos)
      BY <2>2, <2>3, FS_Subset
    <2>5. Apart(DOMAIN pos, pos)
      BY <2>2, <2>3 DEF Apart
    <2>6. QED
      BY <1>2, <2>4, <2>5, SeekSpec
  <1>4. rows[0] = first
    BY <1>1, <1>2, FirstShard
  <1>5. ASSUME NEW s \in Shards \ {0} PROVE rows[s] = <<>>
    <2>1. PICK none : none = [j \in found(s) |-> JobPosition(field, JobRow(j))]
      OBVIOUS
    <2>2. DOMAIN none = {}
      BY <2>1, FirstShard
    <2>3. Seek(none, asc, after, limit) = <<>>
      BY <2>2, SeekNone
    <2>4. QED
      BY <2>1, <2>3
  <1>6. JobRows(q) = Query(Nil, rows)
    BY DEF JobRows
  <1> HIDE DEF rows
  <1>7. QED
    BY <1>1, <1>2, <1>3, <1>4, <1>5, <1>6, QueryFirst

\* A limit that was accepted is positive and not above the maximum.
LEMMA LimitIsPositive ==
  ASSUME NEW n \in Int, NEW limit, limit = Limit(n), ~(limit < -1), limit # -1
  PROVE  limit \in Nat \ {0} /\ limit <= MaxLimit
  <1>1. MaxLimit \in Nat /\ DefaultLimit \in 1 .. MaxLimit
    BY ApiAssumption
  <1>2. QED
    BY <1>1 DEF Limit

\* The same rows at the same positions make the same page.
LEMMA PageElsewhere ==
  ASSUME NEW page, NEW more, NEW B, NEW pos, NEW at, NEW asc, PageOf(page, more, B, pos, asc), \A r \in B : at[r] = pos[r]
  PROVE  PageOf(page, more, B, at, asc)
  <1>1. \A i \in DOMAIN page : page[i] \in B
    BY DEF PageOf
  <1>2. QED
    BY <1>1 DEF PageOf

\* What ListJobs answers with: a page, and a cursor to its last row.
JobsAnswered(answer, req, order, limit, rows, page) ==
  /\ limit <= MaxLimit /\ limit = Limit(req.limit)
  /\ rows = JobRows([cursor |-> req.cursor, limit |-> limit, filter |-> req.filter,
                     sortField |-> order.field, sortAsc |-> order.asc])
  /\ page = Trim(rows, limit)
  /\ answer.jobs = [i \in DOMAIN page |->
                      ToProtoCrawlJob(RestoreCrawlJobFromSnapshot(jobs[page[i]].job),
                                      RestoreCrawlJobConfigFromSnapshot(jobs[page[i]].config))]
  /\ answer.hasMore = HasMore(rows, limit)
  /\ HasMore(rows, limit) => answer.nextCursor = JobCursorAt(JobRow(Last(page)), order)
  /\ ~HasMore(rows, limit) => answer.nextCursor = Nil
  /\ answer = [jobs |-> answer.jobs, nextCursor |-> answer.nextCursor, hasMore |-> answer.hasMore]
  /\ \A i \in DOMAIN rows : Readable(jobs[rows[i]].config)

\* A request that is not refused.
LEMMA JobsAccepted ==
  ASSUME NEW req, NEW limit \in Nat \ {0}, limit = Limit(req.limit), limit <= MaxLimit, ~JobFilterError(req.filter),
         NEW order, order = JobOrder(req), NEW answer, answer = ListJobs(req),
         NEW rows, rows = JobRows([cursor |-> req.cursor, limit |-> limit, filter |-> req.filter,
                                   sortField |-> order.field, sortAsc |-> order.asc]),
         \A i \in DOMAIN rows : Readable(jobs[rows[i]].config), NEW page, page = Trim(rows, limit)
  PROVE  JobsAnswered(answer, req, order, limit, rows, page)
  <1>1. PICK js : js = [i \in DOMAIN page |->
                          ToProtoCrawlJob(RestoreCrawlJobFromSnapshot(jobs[page[i]].job),
                                          RestoreCrawlJobConfigFromSnapshot(jobs[page[i]].config))]
    OBVIOUS
  <1>2. PICK next : next = IF HasMore(rows, limit) THEN JobCursorAt(JobRow(Last(page)), order) ELSE Nil
    OBVIOUS
  <1>3. answer = CASE JobFilterError(req.filter) \/ limit < -1 -> Nil
                   [] limit = -1 -> Crash
                   [] \E i \in DOMAIN rows : ~Readable(jobs[rows[i]].config) -> Nil
                   [] OTHER -> [jobs |-> js, nextCursor |-> next, hasMore |-> HasMore(rows, limit)]
    BY <1>1, <1>2, Zenon DEF ListJobs, ScanFails
  <1>4. PICK more : more = HasMore(rows, limit)
    OBVIOUS
  <1>5. ~(limit < -1) /\ limit # -1
    OBVIOUS
  <1>6. answer = [jobs |-> js, nextCursor |-> next, hasMore |-> more]
    BY <1>3, <1>4, <1>5
  <1>7. answer.jobs = js /\ answer.nextCursor = next /\ answer.hasMore = HasMore(rows, limit)
    BY <1>4, <1>6
  <1>8. HasMore(rows, limit) => answer.nextCursor = JobCursorAt(JobRow(Last(page)), order)
    BY <1>2, <1>7
  <1>9. ~HasMore(rows, limit) => answer.nextCursor = Nil
    BY <1>2, <1>7
  <1>10. answer = [jobs |-> answer.jobs, nextCursor |-> answer.nextCursor, hasMore |-> answer.hasMore]
    BY <1>6
  <1>11. QED
    BY <1>1, <1>7, <1>8, <1>9, <1>10 DEF JobsAnswered

\* The parts of an answer of ListJobs that is not an error.
LEMMA JobsAnswer ==
  ASSUME NEW req, req.limit \in Int, NEW order, order = JobOrder(req),
         NEW answer, answer = ListJobs(req), answer \notin {Nil, Crash}
  PROVE  \E limit \in Nat \ {0} : \E rows, page : JobsAnswered(answer, req, order, limit, rows, page)
  <1>1. PICK limit : limit = Limit(req.limit)
    OBVIOUS
  <1>2. PICK rows : rows = JobRows([cursor |-> req.cursor, limit |-> limit, filter |-> req.filter,
                                    sortField |-> order.field, sortAsc |-> order.asc])
    OBVIOUS
  <1>3. PICK page : page = Trim(rows, limit)
    OBVIOUS
  <1>4. PICK list : list = [jobs |-> [i \in DOMAIN page |->
                                        ToProtoCrawlJob(RestoreCrawlJobFromSnapshot(jobs[page[i]].job),
                                                        RestoreCrawlJobConfigFromSnapshot(jobs[page[i]].config))],
                            nextCursor |-> IF HasMore(rows, limit) THEN JobCursorAt(JobRow(Last(page)), order) ELSE Nil,
                            hasMore |-> HasMore(rows, limit)]
    OBVIOUS
  <1>5. answer = CASE JobFilterError(req.filter) \/ limit < -1 -> Nil
                   [] limit = -1 -> Crash
                   [] \E i \in DOMAIN rows : ~Readable(jobs[rows[i]].config) -> Nil
                   [] OTHER -> list
    BY <1>1, <1>2, <1>3, <1>4, Zenon DEF ListJobs, ScanFails
  <1>6. /\ ~JobFilterError(req.filter) /\ ~(limit < -1) /\ limit # -1
        /\ \A i \in DOMAIN rows : Readable(jobs[rows[i]].config)
    BY <1>5
  <1>7. limit \in Nat \ {0} /\ limit <= MaxLimit
    BY <1>1, <1>6, LimitIsPositive
  <1>8. JobsAnswered(answer, req, order, limit, rows, page)
    BY <1>1, <1>2, <1>3, <1>6, <1>7, JobsAccepted
  <1>9. QED
    BY <1>7, <1>8

\* The rows that a page is cut from, and their names.
Rest(v, asc, after) == {r \in v.hits : after = Nil \/ InOrder(asc, after, v.at[r])}

\* The ids of the rows on a page.
IdsOf(rows) == [i \in DOMAIN rows |-> rows[i].id]

\* The position behind which the page of a request starts.
JobsAfter(req, order) == IF req.cursor = Nil THEN Nil ELSE JobPosition(order.field, req.cursor)

\* A page of jobs: the rows behind the cursor, the flag and the next cursor.
JobsListed(ids, more, next, order, v, B) ==
  /\ ids \in Seq(Present)
  /\ PageOf(ids, more, B, v.at, order.asc)
  /\ more \in BOOLEAN
  /\ more => next = JobCursorAt(JobRow(ids[Len(ids)]), order)
  /\ ~more => next = Nil

\* ListJobs answers a page of the rows behind its cursor.
LEMMA JobsPage ==
  ASSUME StoreSound, NEW req, NEW order, NEW answer, NEW limit \in Nat \ {0}, NEW rows, NEW page,
         JobsAnswered(answer, req, order, limit, rows, page),
         NEW after, after = JobsAfter(req, order),
         NEW v, v = JobView(order.field, req.filter),
         NEW B, B = Rest(v, order.asc, after),
         NEW ids, ids = IdsOf(answer.jobs)
  PROVE  JobsListed(ids, answer.hasMore, answer.nextCursor, order, v, B)
  <1> after = (IF req.cursor = Nil THEN Nil ELSE JobPosition(order.field, req.cursor))
    BY DEF JobsAfter
  <1> B = {r \in v.hits : after = Nil \/ InOrder(order.asc, after, v.at[r])}
    BY DEF Rest
  <1> ids = [i \in DOMAIN answer.jobs |-> answer.jobs[i].id]
    BY DEF IdsOf
  <1>1. /\ rows = JobRows([cursor |-> req.cursor, limit |-> limit, filter |-> req.filter,
                           sortField |-> order.field, sortAsc |-> order.asc])
        /\ page = Trim(rows, limit)
        /\ answer.jobs = [i \in DOMAIN page |->
                            ToProtoCrawlJob(RestoreCrawlJobFromSnapshot(jobs[page[i]].job),
                                            RestoreCrawlJobConfigFromSnapshot(jobs[page[i]].config))]
        /\ answer.hasMore = HasMore(rows, limit)
        /\ HasMore(rows, limit) => answer.nextCursor = JobCursorAt(JobRow(Last(page)), order)
        /\ ~HasMore(rows, limit) => answer.nextCursor = Nil
    BY DEF JobsAnswered
  <1>2. PICK pos : pos = [j \in {j \in Present : JobMatches(j, req.filter)} |-> JobPosition(order.field, JobRow(j))]
    OBVIOUS
  <1>3. rows = Seek(pos, order.asc, after, limit)
    <2>1. PICK q : q = [cursor |-> req.cursor, limit |-> limit, filter |-> req.filter,
                        sortField |-> order.field, sortAsc |-> order.asc]
      OBVIOUS
    <2>2. JobRows(q) = Seek(pos, order.asc, after, limit)
      BY <1>2, <2>1, JobRowsSought
    <2>3. QED
      BY <1>1, <2>1, <2>2
  <1>4. ViewSound(v) /\ v.now = Present
    BY JobViewSound DEF JobView
  <1>5. v.hits = DOMAIN pos /\ \A r \in v.hits : r \in Present /\ v.at[r] = pos[r]
    BY <1>2 DEF JobView
  <1>6. B = {r \in v.hits : after = Nil \/ InOrder(order.asc, after, v.at[r])}
    OBVIOUS
  <1>7. B = {r \in DOMAIN pos : after = Nil \/ InOrder(order.asc, after, pos[r])}
    BY <1>5, <1>6
  <1>8. IsFiniteSet(DOMAIN pos) /\ Apart(DOMAIN pos, pos)
    <2>1. DOMAIN pos \in SUBSET v.now
      BY <1>4, <1>5
    <2>2. QED
      BY <1>4, <1>5, <2>1, FS_Subset DEF ViewSound, Apart
  <1>9. PageOf(page, HasMore(rows, limit), B, pos, order.asc)
    BY <1>1, <1>3, <1>7, <1>8, SeekSpec
  <1>10. PageOf(page, answer.hasMore, B, v.at, order.asc)
    <2>1. \A r \in B : v.at[r] = pos[r]
      BY <1>5, <1>6
    <2>2. PageOf(page, HasMore(rows, limit), B, v.at, order.asc)
      BY <1>9, <2>1, PageElsewhere
    <2>3. QED
      BY <1>1, <2>2
  <1>11. page \in Seq(Present)
    <2>1. page \in Seq(B)
      BY <1>10 DEF PageOf
    <2>2. \A r \in B : r \in Present
      BY <1>5, <1>6
    <2>3. QED
      BY <2>1, <2>2
  <1>12. ids = page
    <2>1. ASSUME NEW i \in DOMAIN page PROVE answer.jobs[i].id = page[i]
      <3>1. PICK j : j = page[i] /\ j \in Present
        BY <1>11
      <3>2. RowSound(j, jobs[j])
        BY <3>1, PresentRows
      <3>3. PICK b \in JobModel : b = jobs[j].job /\ b.id = j
        BY <3>2 DEF RowSound, StoredJob
      <3>4. RestoreCrawlJobFromSnapshot(b) = b
        BY RestoredJob
      <3>5. answer.jobs[i] = ToProtoCrawlJob(b, RestoreCrawlJobConfigFromSnapshot(jobs[j].config))
        BY <1>1, <3>1, <3>3, <3>4
      <3>6. QED
        BY <3>1, <3>3, <3>5 DEF ToProtoCrawlJob
    <2>2. DOMAIN answer.jobs = DOMAIN page
      BY <1>1
    <2>3. ids = [i \in DOMAIN page |-> page[i]]
      BY <2>1, <2>2
    <2>4. QED
      BY <1>11, <2>3
  <1>13. answer.hasMore => answer.nextCursor = JobCursorAt(JobRow(ids[Len(ids)]), order)
    BY <1>1, <1>12 DEF Last
  <1>14. answer.hasMore \in BOOLEAN
    BY <1>1 DEF HasMore
  <1>15. QED
    BY <1>1, <1>10, <1>11, <1>12, <1>13, <1>14 DEF JobsListed

-----------------------------------------------------------------------------
(* The tasks of one job, seen from the shard of its key.                    *)

\* The tasks of job j's row r.
RowTasks(r) == SeedRows(r.config.seeds) \cup {n \in {Len(r.config.seeds) + 1} : r.foundAt # Nil}

\* Task n of job j as it is read from row r.
RowTask(j, r, n) ==
  [id |-> TaskIds[j][IF n <= Len(r.config.seeds) THEN n ELSE Len(TaskIds[j])],
   jobId |-> j,
   url |-> IF n <= Len(r.config.seeds) THEN r.config.seeds[n].url ELSE "/link",
   finalURL |-> Nil,
   status |-> IF r.worked THEN "Parsed" ELSE "InProgress",
   enqueuedAt |-> IF n <= Len(r.config.seeds) THEN r.job.createdAt ELSE r.foundAt,
   depth |-> IF n <= Len(r.config.seeds) THEN 0 ELSE 1,
   minioObjectKey |-> IF r.worked THEN "page" ELSE "",
   resultObjectKey |-> IF r.worked THEN "result" ELSE Nil,
   errorMessage |-> Nil]

\* The tasks of a job are those of its row.
LEMMA TasksOfRow ==
  ASSUME NEW j
  PROVE  Tasks(j) = RowTasks(jobs[j]) /\ \A n : Task(j, n) = RowTask(j, jobs[j], n)
  BY Zenon DEF Tasks, Task, RowTasks, RowTask

\* A row has at most one task per seed and at most one that was found.
LEMMA RowLengths ==
  ASSUME NEW j \in JobIds, NEW r, RowSound(j, r)
  PROVE  \E L \in Nat, T \in Nat : L = Len(r.config.seeds) /\ T = Len(TaskIds[j]) /\ L < T
           /\ DOMAIN TaskIds[j] = 1 .. T /\ TaskIds[j] \in Seq(String)
           /\ r.config.seeds \in Seq(Seed) /\ DOMAIN r.config.seeds = 1 .. L
           /\ RowTasks(r) \subseteq 1 .. (L + 1) /\ SeedRows(r.config.seeds) \subseteq 1 .. L
           /\ (L + 1 \in RowTasks(r) <=> r.foundAt # Nil)
  <1>1. r \in StoredJob /\ Stored(r.config, j, ConfigOf[r.sent])
    BY DEF RowSound
  <1>2. PICK c \in ConfigRow, s \in Submissions, p \in CrawlJobConfig : c = r.config /\ s = r.sent /\ p = ConfigOf[s]
    BY <1>1, ApiAssumption DEF StoredJob
  <1>3. c.seeds = p.seeds /\ p.seeds \in Seq(Seed)
    BY <1>1, <1>2 DEF Stored, CrawlJobConfig
  <1>4. PICK t : t = TaskIds[j] /\ t \in Seq(String)
    BY StoreAssumption
  <1>5. PICK L \in Nat, T \in Nat : L = Len(p.seeds) /\ T = Len(t) /\ DOMAIN p.seeds = 1 .. L /\ DOMAIN t = 1 .. T
    BY <1>3, <1>4, LenProperties
  <1>6. L < T
    BY <1>2, <1>4, <1>5, ApiAssumption
  <1>7. PICK S : S = SeedRows(r.config.seeds)
    OBVIOUS
  <1>8. S \subseteq 1 .. L
    BY <1>2, <1>3, <1>5, <1>7 DEF SeedRows
  <1>9. RowTasks(r) \subseteq 1 .. (L + 1) /\ S \subseteq 1 .. L /\ (L + 1 \in RowTasks(r) <=> r.foundAt # Nil)
    <2>1. RowTasks(r) = S \cup {n \in {L + 1} : r.foundAt # Nil}
      BY <1>2, <1>3, <1>5, <1>7 DEF RowTasks
    <2>2. L + 1 \notin S /\ S \subseteq 1 .. (L + 1) /\ L + 1 \in 1 .. (L + 1)
      BY <1>8, SMT
    <2>3. PICK M : M = L + 1
      OBVIOUS
    <2>4. RowTasks(r) \subseteq 1 .. M
      BY <2>1, <2>2, <2>3, Zenon
    <2>5. M \in RowTasks(r) <=> r.foundAt # Nil
      BY <2>1, <2>2, <2>3, Zenon
    <2>6. QED
      BY <1>8, <2>3, <2>4, <2>5, Zenon
  <1>10. QED
    BY <1>2, <1>3, <1>4, <1>5, <1>6, <1>7, <1>9

\* A task has its columns, and its id is its own.
LEMMA TaskColumns ==
  ASSUME NEW j \in JobIds, NEW r, RowSound(j, r), NEW n \in RowTasks(r), NEW t, t = RowTask(j, r, n)
  PROVE  /\ t.id \in String /\ t.url \in String /\ t.status \in {"Parsed", "InProgress"} /\ t.status \in String
         /\ t.enqueuedAt \in Timestamp /\ t.enqueuedAt \in Int /\ t.depth \in {0, 1}
         /\ \A m \in RowTasks(r) : RowTask(j, r, m).id = t.id => m = n
  <1>1. PICK L \in Nat, T \in Nat : L = Len(r.config.seeds) /\ T = Len(TaskIds[j]) /\ L < T
           /\ DOMAIN TaskIds[j] = 1 .. T /\ TaskIds[j] \in Seq(String)
           /\ r.config.seeds \in Seq(Seed) /\ DOMAIN r.config.seeds = 1 .. L
           /\ RowTasks(r) \subseteq 1 .. (L + 1) /\ (L + 1 \in RowTasks(r) <=> r.foundAt # Nil)
    BY RowLengths, Zenon
  <1>2. \A m \in RowTasks(r) : m \in 1 .. (L + 1) /\ (IF m <= L THEN m ELSE T) \in 1 .. T
    BY <1>1
  <1>3. t.id = TaskIds[j][IF n <= L THEN n ELSE T]
    BY <1>1 DEF RowTask
  <1>4. t.id \in String
    BY <1>1, <1>2, <1>3
  <1>5. ASSUME NEW m \in RowTasks(r), RowTask(j, r, m).id = t.id PROVE m = n
    <2>1. RowTask(j, r, m).id = TaskIds[j][IF m <= L THEN m ELSE T]
      BY <1>1 DEF RowTask
    <2>2. PICK a \in 1 .. T, b \in 1 .. T : a = (IF m <= L THEN m ELSE T) /\ b = (IF n <= L THEN n ELSE T)
      BY <1>2
    <2>3. TaskIds[j][a] = TaskIds[j][b]
      BY <1>3, <1>5, <2>1, <2>2
    <2>4. a = b
      BY <1>1, <2>3, StoreAssumption
    <2>5. QED
      BY <1>1, <1>2, <2>2, <2>4
  <1>6. t.url \in String
    <2>1. t.url = IF n <= L THEN r.config.seeds[n].url ELSE "/link"
      BY <1>1 DEF RowTask
    <2>2. n <= L => r.config.seeds[n].url \in String
      <3>1. n <= L => n \in 1 .. L
        BY <1>2
      <3>2. n <= L => r.config.seeds[n] \in Seed
        BY <1>1, <3>1
      <3>3. QED
        BY <3>2 DEF Seed
    <2>3. "/link" \in String
      BY ApiAssumption
    <2>4. QED
      BY <2>1, <2>2, <2>3
  <1>7. t.status \in {"Parsed", "InProgress"} /\ t.depth \in {0, 1}
    BY DEF RowTask
  <1>8. {"Parsed", "InProgress"} \subseteq String
    BY ApiAssumption
  <1>9. t.enqueuedAt \in Timestamp
    <2>1. t.enqueuedAt = IF n <= L THEN r.job.createdAt ELSE r.foundAt
      BY <1>1 DEF RowTask
    <2>2. r.job.createdAt \in Timestamp
      BY JobColumns
    <2>3. ~(n <= L) => r.foundAt # Nil
      <3>1. ~(n <= L) => n = L + 1
        BY <1>2
      <3>2. QED
        BY <1>1, <3>1
    <2>4. r.foundAt \in Opt(Timestamp)
      BY DEF RowSound, StoredJob
    <2>5. QED
      BY <2>1, <2>2, <2>3, <2>4 DEF Opt
  <1>10. t.enqueuedAt \in Int
    BY <1>9 DEF Timestamp
  <1>11. QED
    BY <1>4, <1>5, <1>6, <1>7, <1>8, <1>9, <1>10

\* The position of a task ends with the rank of its id.
LEMMA TaskPlace ==
  ASSUME NEW field, NEW r, r.id \in String, r.url \in String, r.status \in String, r.enqueuedAt \in Int, r.depth \in Int
  PROVE  TaskPosition(field, r) \in Positions /\ TaskPosition(field, r)[2] = Rank[r.id]
  <1>1. PICK k : k = CASE field = "url" -> Rank[r.url] [] field = "status" -> Rank[r.status]
                       [] field = "depth" -> r.depth [] OTHER -> r.enqueuedAt
    OBVIOUS
  <1>2. Rank[r.id] \in Int /\ Rank[r.url] \in Int /\ Rank[r.status] \in Int
    BY RankOf
  <1>3. k \in Int
    BY <1>1, <1>2
  <1>4. TaskPosition(field, r) = <<k, Rank[r.id]>>
    BY <1>1 DEF TaskPosition
  <1>5. QED
    BY <1>2, <1>3, <1>4 DEF Positions

\* The shard key that the interceptor gives to a call about job j.
TaskKey(j) == IF deploy.shards = 1 THEN Nil ELSE j
\* The tasks of j that a query with its key reaches.
Numbers(j) == IF j \in On(Resolve(TaskKey(j))) THEN Tasks(j) ELSE {}

\* The same for one row; TaskView is this for the row of job j.
RowView(j, r, numbers, field, filter) ==
  LET now == {RowTask(j, r, n).id : n \in numbers}
  IN  [now |-> now,
       at |-> [i \in now |-> TaskPosition(field, RowTask(j, r, CHOOSE n \in numbers : RowTask(j, r, n).id = i))],
       hits |-> {RowTask(j, r, n).id : n \in {n \in numbers : TaskMatches(RowTask(j, r, n), filter)}},
       dead |-> IF r = Gone THEN String ELSE {}]

\* The tasks of a job as ListTasksByJob sees them.
TaskView(j, field, filter) == RowView(j, jobs[j], Numbers(j), field, filter)

\* A position in the view is the position of the task.
LEMMA TaskAt ==
  ASSUME NEW j \in JobIds, NEW r, RowSound(j, r), NEW numbers \in SUBSET RowTasks(r), NEW field, NEW filter,
         NEW n \in numbers
  PROVE  RowView(j, r, numbers, field, filter).at[RowTask(j, r, n).id] = TaskPosition(field, RowTask(j, r, n))
  <1>1. PICK i : i = RowTask(j, r, n).id
    OBVIOUS
  <1>2. PICK m : m = CHOOSE n2 \in numbers : RowTask(j, r, n2).id = i
    OBVIOUS
  <1>3. m \in numbers /\ RowTask(j, r, m).id = i
    BY <1>1, <1>2
  <1>4. m = n
    BY <1>1, <1>3, TaskColumns
  <1>5. i \in {RowTask(j, r, k).id : k \in numbers}
    BY <1>1
  <1>6. RowView(j, r, numbers, field, filter).at[i] = TaskPosition(field, RowTask(j, r, m))
    BY <1>2, <1>5 DEF RowView
  <1>7. QED
    BY <1>1, <1>4, <1>6

\* Any part of the tasks of a sound row is a sound view.
LEMMA RowViewSound ==
  ASSUME NEW j \in JobIds, NEW r, RowSound(j, r), NEW numbers \in SUBSET RowTasks(r), NEW field, NEW filter
  PROVE  ViewSound(RowView(j, r, numbers, field, filter))
  <1>1. PICK v : v = RowView(j, r, numbers, field, filter)
    OBVIOUS
  <1>2. v.now = {RowTask(j, r, n).id : n \in numbers} /\ v.hits \subseteq v.now /\ DOMAIN v.at = v.now
    BY <1>1 DEF RowView
  <1>3. v.now \cap v.dead = {}
    BY <1>1, RowsArePresent DEF RowView
  <1>4. \A n \in numbers : RowTask(j, r, n).id \in String
    BY TaskColumns
  <1>5. IsFiniteSet(v.now)
    <2>1. v.now \in SUBSET String
      BY <1>2, <1>4
    <2>2. QED
      BY <2>1, StringsAreFinite
  <1>6. ASSUME NEW n \in numbers
        PROVE  /\ v.at[RowTask(j, r, n).id] \in Positions
               /\ v.at[RowTask(j, r, n).id][2] = Rank[RowTask(j, r, n).id]
    <2>1. PICK t : t = RowTask(j, r, n)
      OBVIOUS
    <2>2. t.id \in String /\ t.url \in String /\ t.status \in String /\ t.enqueuedAt \in Int /\ t.depth \in Int
      BY <2>1, TaskColumns
    <2>3. TaskPosition(field, t) \in Positions /\ TaskPosition(field, t)[2] = Rank[t.id]
      BY <2>2, TaskPlace
    <2>4. QED
      BY <1>1, <2>1, <2>3, TaskAt
  <1>7. ASSUME NEW q \in v.now, NEW i \in v.now, v.at[q] = v.at[i] PROVE q = i
    <2>1. Rank[q] = Rank[i] /\ q \in String /\ i \in String
      BY <1>2, <1>4, <1>6, <1>7
    <2>2. QED
      BY <2>1, RankOf
  <1>8. Apart(v.now, v.at)
    BY <1>2, <1>6, <1>7 DEF Apart
  <1>9. QED
    BY <1>1, <1>2, <1>3, <1>5, <1>8 DEF ViewSound

\* The key of a job names one shard, and a query answers what that shard does.
LEMMA TaskShard ==
  ASSUME StoreSound, NEW j \in JobIds
  PROVE  /\ Resolve(TaskKey(j)) \in Shards
         /\ \A rows : Query(TaskKey(j), rows) = rows[Resolve(TaskKey(j))]
  <1>1. PICK n \in Nat \ {0} : n = deploy.shards
    BY DEF StoreSound
  <1>2. j # Nil
    BY StoreAssumption, NilAssumption
  <1>3. Resolve(TaskKey(j)) = IF n = 1 THEN 0 ELSE Hash[j] % n
    BY <1>1, <1>2 DEF Resolve, TaskKey, ShardIndex
  <1>4. Hash[j] \in Nat
    BY StoreAssumption
  <1>5. Hash[j] % n \in 0 .. n - 1
    BY <1>4
  <1>6. Resolve(TaskKey(j)) \in Shards
    BY <1>1, <1>3, <1>5 DEF Shards
  <1>7. \A rows : Query(TaskKey(j), rows) = rows[Resolve(TaskKey(j))]
    BY <1>2 DEF Query, TaskKey
  <1>8. QED
    BY <1>6, <1>7

\* The row behind the numbers.
LEMMA NumbersOfRow ==
  ASSUME StoreSound, NEW j \in JobIds
  PROVE  \/ Numbers(j) = {}
         \/ /\ j \in Present /\ RowSound(j, jobs[j]) /\ Numbers(j) = RowTasks(jobs[j])
            /\ Numbers(j) = Tasks(j) /\ j \in On(Resolve(TaskKey(j)))
  <1>1. CASE j \in On(Resolve(TaskKey(j)))
    <2>1. j \in Present /\ Numbers(j) = Tasks(j)
      BY <1>1 DEF On, Numbers
    <2>2. RowSound(j, jobs[j])
      BY <2>1 DEF StoreSound
    <2>3. QED
      BY <1>1, <2>1, <2>2, TasksOfRow
  <1>2. CASE j \notin On(Resolve(TaskKey(j)))
    BY <1>2 DEF Numbers
  <1>3. QED
    BY <1>1, <1>2

\* A view without tasks is sound.
LEMMA EmptyRowView ==
  ASSUME NEW j, NEW r, NEW field, NEW filter
  PROVE  /\ ViewSound(RowView(j, r, {}, field, filter))
         /\ RowView(j, r, {}, field, filter).now = {} /\ RowView(j, r, {}, field, filter).hits = {}
  <1>1. PICK v : v = RowView(j, r, {}, field, filter)
    OBVIOUS
  <1>2. v.now = {} /\ v.hits = {} /\ DOMAIN v.at = v.now
    BY <1>1 DEF RowView
  <1>3. QED
    BY <1>1, <1>2, FS_EmptySet DEF ViewSound, Apart

\* The view of the tasks of a job is sound, on its shard or not.
LEMMA TaskViewSound ==
  ASSUME StoreSound, NEW j \in JobIds, NEW field, NEW filter
  PROVE  ViewSound(TaskView(j, field, filter))
  <1>1. CASE Numbers(j) = {}
    BY <1>1, EmptyRowView DEF TaskView
  <1>2. CASE Numbers(j) # {}
    <2>1. PICK r : r = jobs[j] /\ RowSound(j, r) /\ Numbers(j) = RowTasks(r)
      BY <1>2, NumbersOfRow
    <2>2. QED
      BY <2>1, RowViewSound DEF TaskView
  <1>3. QED
    BY <1>1, <1>2

\* The rows that the list of tasks is made of.
LEMMA TaskRowsSought ==
  ASSUME StoreSound, NEW j \in JobIds, NEW cursor, NEW limit, NEW filter, NEW field, NEW asc,
         NEW q, q = [cursor |-> cursor, limit |-> limit, filter |-> filter, jobId |-> j, sortField |-> field, sortAsc |-> asc],
         NEW after, after = (IF cursor = Nil THEN Nil ELSE TaskPosition(field, cursor)),
         NEW pos, pos = [n \in {n \in Numbers(j) : TaskMatches(Task(j, n), filter)} |-> TaskPosition(field, Task(j, n))]
  PROVE  TaskRows(TaskKey(j), q) = Seek(pos, asc, after, limit)
  <1> DEFINE found(s) == IF j \in On(s) THEN {n \in Tasks(j) : TaskMatches(Task(j, n), filter)} ELSE {}
             rows == [s \in Shards |-> Seek([n \in found(s) |-> TaskPosition(field, Task(j, n))], asc, after, limit)]
  <1>1. PICK s : s = Resolve(TaskKey(j))
    OBVIOUS
  <1>2. s \in Shards
    BY <1>1, TaskShard
  <1>3. found(s) = {n \in Numbers(j) : TaskMatches(Task(j, n), filter)}
    BY <1>1 DEF Numbers
  <1>4. rows[s] = Seek(pos, asc, after, limit)
    BY <1>2, <1>3
  <1>5. TaskRows(TaskKey(j), q) = Query(TaskKey(j), rows)
    BY DEF TaskRows
  <1> HIDE DEF rows
  <1>6. QED
    BY <1>1, <1>4, <1>5, TaskShard

\* What ListTasksByJob answers with.
TasksAnswered(answer, key, req, order, limit, rows, trim) ==
  /\ limit <= MaxLimit /\ limit = Limit(req.limit)
  /\ rows = TaskRows(key, [cursor |-> req.cursor, limit |-> limit, filter |-> req.filter, jobId |-> req.jobId,
                           sortField |-> order.field, sortAsc |-> order.asc])
  /\ trim = Trim(rows, limit)
  /\ answer.tasks = [i \in DOMAIN trim |-> ToProtoCrawlTask(Task(req.jobId, trim[i]), Nil)]
  /\ answer.hasMore = HasMore(rows, limit)
  /\ HasMore(rows, limit) /\ Len(trim) \in DOMAIN trim /\ trim \in Seq(Int)
       => answer.nextCursor = TaskCursorAt(Task(req.jobId, trim[Len(trim)]), order)
  /\ ~HasMore(rows, limit) => answer.nextCursor = Nil
  /\ answer = [tasks |-> answer.tasks, nextCursor |-> answer.nextCursor, hasMore |-> answer.hasMore]

\* A request for tasks that is not refused.
LEMMA TasksAccepted ==
  ASSUME NEW key, NEW req, NEW limit \in Nat \ {0}, limit = Limit(req.limit), limit <= MaxLimit, ~TaskFilterError(req.filter),
         NEW order, order = TaskOrder(req), NEW answer, answer = ListTasksByJob(key, req),
         NEW rows, rows = TaskRows(key, [cursor |-> req.cursor, limit |-> limit, filter |-> req.filter,
                                         jobId |-> req.jobId, sortField |-> order.field, sortAsc |-> order.asc]),
         NEW trim, trim = Trim(rows, limit)
  PROVE  TasksAnswered(answer, key, req, order, limit, rows, trim)
  <1>4. PICK page : page = [i \in DOMAIN trim |-> Task(req.jobId, trim[i])]
    OBVIOUS
  <1>5. PICK ts : ts = [i \in DOMAIN page |-> ToProtoCrawlTask(page[i], Nil)]
    OBVIOUS
  <1>6. PICK next : next = IF HasMore(rows, limit) THEN TaskCursorAt(Last(page), order) ELSE Nil
    OBVIOUS
  <1>7. answer = CASE TaskFilterError(req.filter) \/ limit < -1 -> Nil
                   [] limit = -1 -> Crash
                   [] OTHER -> [tasks |-> ts, nextCursor |-> next, hasMore |-> HasMore(rows, limit)]
    BY <1>4, <1>5, <1>6, Zenon DEF ListTasksByJob, Mapped
  <1>8. PICK more : more = HasMore(rows, limit)
    OBVIOUS
  <1>9. ~(limit < -1) /\ limit # -1
    OBVIOUS
  <1>10. answer = [tasks |-> ts, nextCursor |-> next, hasMore |-> more]
    BY <1>7, <1>8, <1>9
  <1>11. answer.tasks = ts /\ answer.nextCursor = next /\ answer.hasMore = HasMore(rows, limit)
    BY <1>8, <1>10
  <1>12. ts = [i \in DOMAIN trim |-> ToProtoCrawlTask(Task(req.jobId, trim[i]), Nil)]
    BY <1>4, <1>5
  <1>13. ASSUME HasMore(rows, limit), Len(trim) \in DOMAIN trim, trim \in Seq(Int)
         PROVE  answer.nextCursor = TaskCursorAt(Task(req.jobId, trim[Len(trim)]), order)
    <2>1. PICK L \in Nat : L = Len(trim) /\ DOMAIN trim = 1 .. L
      BY <1>13, LenProperties
    <2>2. page \in Seq({Task(req.jobId, trim[i]) : i \in 1 .. L}) /\ DOMAIN page = 1 .. L
      BY <1>4, <2>1
    <2>3. Len(page) = L
      BY <2>2, LenProperties
    <2>4. Last(page) = Task(req.jobId, trim[L])
      BY <1>4, <1>13, <2>1, <2>3 DEF Last
    <2>5. QED
      BY <1>6, <1>11, <1>13, <2>1, <2>4
  <1>14. ~HasMore(rows, limit) => answer.nextCursor = Nil
    BY <1>6, <1>11
  <1>15. answer = [tasks |-> answer.tasks, nextCursor |-> answer.nextCursor, hasMore |-> answer.hasMore]
    BY <1>10
  <1>16. QED
    BY <1>11, <1>12, <1>13, <1>14, <1>15 DEF TasksAnswered

\* The parts of an answer of ListTasksByJob that is not an error.
LEMMA TasksAnswer ==
  ASSUME NEW key, NEW req, req.limit \in Int, NEW order, order = TaskOrder(req),
         NEW answer, answer = ListTasksByJob(key, req), answer \notin {Nil, Crash}
  PROVE  \E limit \in Nat \ {0} : \E rows, trim : TasksAnswered(answer, key, req, order, limit, rows, trim)
  <1>1. PICK limit : limit = Limit(req.limit)
    OBVIOUS
  <1>2. PICK rows : rows = TaskRows(key, [cursor |-> req.cursor, limit |-> limit, filter |-> req.filter,
                                          jobId |-> req.jobId, sortField |-> order.field, sortAsc |-> order.asc])
    OBVIOUS
  <1>3. PICK trim : trim = Trim(rows, limit)
    OBVIOUS
  <1>4. PICK page : page = [tasks |-> Mapped(LAMBDA t : ToProtoCrawlTask(t, Nil), Mapped(LAMBDA n : Task(req.jobId, n), trim)),
                            nextCursor |-> IF HasMore(rows, limit)
                                           THEN TaskCursorAt(Last(Mapped(LAMBDA n : Task(req.jobId, n), trim)), order)
                                           ELSE Nil,
                            hasMore |-> HasMore(rows, limit)]
    OBVIOUS
  <1>5. answer = CASE TaskFilterError(req.filter) \/ limit < -1 -> Nil
                   [] limit = -1 -> Crash
                   [] OTHER -> page
    BY <1>1, <1>2, <1>3, <1>4, Zenon DEF ListTasksByJob
  <1>6. ~TaskFilterError(req.filter) /\ ~(limit < -1) /\ limit # -1
    BY <1>5
  <1>7. limit \in Nat \ {0} /\ limit <= MaxLimit
    BY <1>1, <1>6, LimitIsPositive
  <1>8. TasksAnswered(answer, key, req, order, limit, rows, trim)
    BY <1>1, <1>2, <1>3, <1>6, <1>7, TasksAccepted
  <1>9. QED
    BY <1>7, <1>8

\* A page of rows under other names.
LEMMA PageNamed ==
  ASSUME NEW page, NEW more, NEW B, NEW pos, NEW asc, PageOf(page, more, B, pos, asc),
         NEW f, \A m, n \in B : f[m] = f[n] => m = n, NEW at, \A n \in B : at[f[n]] = pos[n],
         NEW C, C = {f[n] : n \in B}, NEW ids, ids = [i \in DOMAIN page |-> f[page[i]]]
  PROVE  PageOf(ids, more, C, at, asc)
  <1>1. page \in Seq(B) /\ DOMAIN page = 1 .. Len(page)
    BY DEF PageOf
  <1>2. PICK L \in Nat : L = Len(page)
    BY <1>1, LenProperties
  <1>3. \A i \in 1 .. L : page[i] \in B /\ ids[i] = f[page[i]] /\ ids[i] \in C
    BY <1>1, <1>2
  <1>4. ids \in Seq(C) /\ DOMAIN ids = 1 .. L
    BY <1>1, <1>2, <1>3
  <1>5. Len(ids) = L
    BY <1>4, LenProperties
  <1>6. \A i, k \in 1 .. L : ids[i] = ids[k] => i = k
    BY <1>1, <1>2, <1>3 DEF PageOf
  <1>7. ASSUME ~more, NEW r \in C PROVE \E i \in 1 .. L : ids[i] = r
    <2>1. PICK n \in B : r = f[n]
      BY <1>7
    <2>2. PICK i \in 1 .. L : page[i] = n
      BY <1>1, <1>2, <1>7 DEF PageOf
    <2>3. QED
      BY <1>3, <2>1, <2>2
  <1>8. ASSUME more PROVE
          /\ L \in 1 .. L
          /\ \A i \in 1 .. L : ~InOrder(asc, at[ids[L]], at[ids[i]])
          /\ \A r \in C : (\E i \in 1 .. L : ids[i] = r) \/ InOrder(asc, at[ids[L]], at[r])
    <2>1. /\ L \in 1 .. L
          /\ \A i \in 1 .. L : ~InOrder(asc, pos[page[L]], pos[page[i]])
          /\ \A n \in B : (\E i \in 1 .. L : page[i] = n) \/ InOrder(asc, pos[page[L]], pos[n])
      BY <1>1, <1>2, <1>8 DEF PageOf
    <2>2. \A i \in 1 .. L : at[ids[i]] = pos[page[i]]
      BY <1>3
    <2>3. ASSUME NEW r \in C PROVE (\E i \in 1 .. L : ids[i] = r) \/ InOrder(asc, at[ids[L]], at[r])
      <3>1. PICK n \in B : r = f[n]
        BY <2>3
      <3>2. CASE \E i \in 1 .. L : page[i] = n
        BY <1>3, <3>1, <3>2
      <3>3. CASE InOrder(asc, pos[page[L]], pos[n])
        BY <2>1, <2>2, <3>1, <3>3
      <3>4. QED
        BY <2>1, <3>2, <3>3
    <2>4. QED
      BY <2>1, <2>2, <2>3
  <1>9. QED
    BY <1>4, <1>5, <1>6, <1>7, <1>8 DEF PageOf

\* A task that a pass over the tasks of job j may see.
LEMMA NumberFacts ==
  ASSUME StoreSound, NEW j \in JobIds, NEW field, NEW filter, NEW v, v = TaskView(j, field, filter), NEW n \in Numbers(j)
  PROVE  /\ j \in Present /\ RowSound(j, jobs[j]) /\ n \in RowTasks(jobs[j]) /\ n \in Int
         /\ Task(j, n) = RowTask(j, jobs[j], n)
         /\ Task(j, n).id \in v.now /\ Task(j, n).id \in String
         /\ v.at[Task(j, n).id] = TaskPosition(field, Task(j, n))
         /\ Task(j, n).id \in v.hits <=> TaskMatches(Task(j, n), filter)
         /\ \A m \in Numbers(j) : Task(j, m).id = Task(j, n).id => m = n
  <1>1. PICK r : r = jobs[j] /\ RowSound(j, r) /\ Numbers(j) = RowTasks(r) /\ j \in Present
    BY NumbersOfRow
  <1>2. \A m : Task(j, m) = RowTask(j, r, m)
    BY <1>1, TasksOfRow
  <1>3. v = RowView(j, r, RowTasks(r), field, filter)
    BY <1>1 DEF TaskView
  <1>4. \A m \in RowTasks(r) : RowTask(j, r, m).id = RowTask(j, r, n).id => m = n
    BY <1>1, TaskColumns
  <1>5. RowTask(j, r, n).id \in v.now /\ v.now = {RowTask(j, r, m).id : m \in RowTasks(r)}
    BY <1>1, <1>3 DEF RowView
  <1>6. v.at[RowTask(j, r, n).id] = TaskPosition(field, RowTask(j, r, n))
    BY <1>1, <1>3, TaskAt
  <1>7. v.hits = {RowTask(j, r, m).id : m \in {m \in RowTasks(r) : TaskMatches(RowTask(j, r, m), filter)}}
    BY <1>3 DEF RowView
  <1>8. RowTask(j, r, n).id \in v.hits <=> TaskMatches(RowTask(j, r, n), filter)
    BY <1>1, <1>4, <1>7
  <1>9. RowTask(j, r, n).id \in String /\ n \in Int
    <2>1. PICK L \in Nat : RowTasks(r) \subseteq 1 .. (L + 1)
      BY <1>1, RowLengths
    <2>2. QED
      BY <1>1, <2>1, TaskColumns
  <1>10. QED
    BY <1>1, <1>2, <1>4, <1>5, <1>6, <1>8, <1>9

\* A job has finitely many tasks.
LEMMA NumbersAreFinite ==
  ASSUME StoreSound, NEW j \in JobIds
  PROVE  IsFiniteSet(Numbers(j)) /\ Numbers(j) \subseteq Int
  <1>1. CASE Numbers(j) = {}
    BY <1>1, FS_EmptySet
  <1>2. CASE Numbers(j) # {}
    <2>1. PICK r : r = jobs[j] /\ RowSound(j, r) /\ Numbers(j) = RowTasks(r)
      BY <1>2, NumbersOfRow
    <2>2. PICK L \in Nat : RowTasks(r) \subseteq 1 .. (L + 1)
      BY <2>1, RowLengths
    <2>3. IsFiniteSet(1 .. (L + 1)) /\ Numbers(j) \in SUBSET (1 .. (L + 1))
      BY <2>1, <2>2, FS_Interval
    <2>4. QED
      BY <2>3, FS_Subset
  <1>3. QED
    BY <1>1, <1>2

\* The position behind which the page of a request starts.
TasksAfter(req, order) == IF req.cursor = Nil THEN Nil ELSE TaskPosition(order.field, req.cursor)

\* A page of tasks: the rows behind the cursor, the flag and the next cursor.
TasksListed(j, ids, more, next, order, v, C) ==
  /\ ids \in Seq(v.now)
  /\ PageOf(ids, more, C, v.at, order.asc)
  /\ more \in BOOLEAN
  /\ more => \E n \in Numbers(j) : Task(j, n).id = ids[Len(ids)] /\ next = TaskCursorAt(Task(j, n), order)
  /\ ~more => next = Nil

\* ListTasksByJob answers a page of the tasks behind its cursor.
LEMMA TasksPage ==
  ASSUME StoreSound, NEW j \in JobIds, NEW req, req.jobId = j, req.limit \in Int, NEW order, order = TaskOrder(req),
         NEW answer, answer = ListTasksByJob(TaskKey(j), req), answer \notin {Nil, Crash},
         NEW after, after = TasksAfter(req, order),
         NEW v, v = TaskView(j, order.field, req.filter),
         NEW C, C = Rest(v, order.asc, after),
         NEW ids, ids = IdsOf(answer.tasks)
  PROVE  TasksListed(j, ids, answer.hasMore, answer.nextCursor, order, v, C)
  <1>a. after = (IF req.cursor = Nil THEN Nil ELSE TaskPosition(order.field, req.cursor))
    BY DEF TasksAfter
  <1>b. C = {r \in v.hits : after = Nil \/ InOrder(order.asc, after, v.at[r])}
    BY DEF Rest
  <1>c. ids = [i \in DOMAIN answer.tasks |-> answer.tasks[i].id]
    BY DEF IdsOf
  <1>1. PICK limit \in Nat \ {0} : \E rows, trim : TasksAnswered(answer, TaskKey(j), req, order, limit, rows, trim)
    BY TasksAnswer, Zenon
  <1>2. PICK rows, trim : TasksAnswered(answer, TaskKey(j), req, order, limit, rows, trim)
    BY <1>1
  <1>3. PICK pos : pos = [n \in {n \in Numbers(j) : TaskMatches(Task(j, n), req.filter)} |-> TaskPosition(order.field, Task(j, n))]
    OBVIOUS
  <1>4. rows = Seek(pos, order.asc, after, limit)
    <2>1. PICK q : q = [cursor |-> req.cursor, limit |-> limit, filter |-> req.filter, jobId |-> j,
                        sortField |-> order.field, sortAsc |-> order.asc]
      OBVIOUS
    <2>2. rows = TaskRows(TaskKey(j), q)
      BY <1>2, <2>1 DEF TasksAnswered
    <2>3. TaskRows(TaskKey(j), q) = Seek(pos, order.asc, after, limit)
      BY <1>a, <1>3, <2>1, TaskRowsSought
    <2>4. QED
      BY <2>2, <2>3
  <1>5. ViewSound(v)
    BY TaskViewSound
  <1>6. DOMAIN pos \subseteq Numbers(j) /\ \A n \in DOMAIN pos : TaskMatches(Task(j, n), req.filter)
    BY <1>3
  <1>7. PICK f : f = [n \in Numbers(j) |-> Task(j, n).id]
    OBVIOUS
  <1>8. ASSUME NEW n \in DOMAIN pos
        PROVE  f[n] \in v.hits /\ f[n] \in v.now /\ v.at[f[n]] = pos[n] /\ \A m \in DOMAIN pos : f[m] = f[n] => m = n
    <2>1. n \in Numbers(j)
      BY <1>6
    <2>2. v.at[Task(j, n).id] = TaskPosition(order.field, Task(j, n))
      BY <2>1, NumberFacts
    <2>3. Task(j, n).id \in v.hits /\ Task(j, n).id \in v.now /\ \A m \in Numbers(j) : Task(j, m).id = Task(j, n).id => m = n
      BY <1>6, <2>1, NumberFacts
    <2>4. QED
      BY <1>3, <1>6, <1>7, <2>1, <2>2, <2>3
  <1>9. \A r \in v.hits : \E n \in DOMAIN pos : f[n] = r
    <2>1. v.hits = {RowTask(j, jobs[j], n).id : n \in {n \in Numbers(j) : TaskMatches(RowTask(j, jobs[j], n), req.filter)}}
      BY DEF TaskView, RowView
    <2>2. \A n : Task(j, n) = RowTask(j, jobs[j], n)
      BY TasksOfRow
    <2>3. QED
      BY <1>3, <1>7, <2>1, <2>2
  <1>10. IsFiniteSet(DOMAIN pos) /\ Apart(DOMAIN pos, pos)
    <2>1. IsFiniteSet(Numbers(j)) /\ DOMAIN pos \in SUBSET Numbers(j)
      BY <1>6, NumbersAreFinite
    <2>2. IsFiniteSet(DOMAIN pos)
      BY <2>1, FS_Subset
    <2>3. QED
      BY <1>5, <1>8, <2>2 DEF ViewSound, Apart
  <1>11. PICK B : B = {n \in DOMAIN pos : after = Nil \/ InOrder(order.asc, after, pos[n])}
    OBVIOUS
  <1>12. PageOf(trim, HasMore(rows, limit), B, pos, order.asc)
    <2>1. trim = Trim(rows, limit)
      BY <1>2 DEF TasksAnswered
    <2>2. QED
      BY <1>4, <1>10, <1>11, <2>1, SeekSpec
  <1>13. trim \in Seq(B) /\ \A i \in DOMAIN trim : trim[i] \in B /\ trim[i] \in DOMAIN pos
    BY <1>11, <1>12 DEF PageOf
  <1>14. ids = [i \in DOMAIN trim |-> f[trim[i]]]
    <2>1. answer.tasks = [i \in DOMAIN trim |-> ToProtoCrawlTask(Task(j, trim[i]), Nil)]
      BY <1>2 DEF TasksAnswered
    <2>2. \A t : ToProtoCrawlTask(t, Nil).id = t.id
      BY DEF ToProtoCrawlTask
    <2>3. ids = [i \in DOMAIN trim |-> Task(j, trim[i]).id]
      BY <1>c, <2>1, <2>2
    <2>4. QED
      BY <1>6, <1>7, <1>13, <2>3
  <1>15. C = {r \in v.hits : after = Nil \/ InOrder(order.asc, after, v.at[r])}
    BY <1>b
  <1>16. C = {f[n] : n \in B}
    BY <1>8, <1>9, <1>11, <1>15
  <1>17. PageOf(ids, HasMore(rows, limit), C, v.at, order.asc)
    <2>1. (\A m, n \in B : f[m] = f[n] => m = n) /\ (\A n \in B : v.at[f[n]] = pos[n])
      BY <1>8, <1>11
    <2>2. QED
      BY <1>12, <1>14, <1>16, <2>1, PageNamed
  <1>18. answer.hasMore = HasMore(rows, limit) /\ (~answer.hasMore => answer.nextCursor = Nil)
    BY <1>2 DEF TasksAnswered
  <1>19. ids \in Seq(v.now)
    <2>1. ids \in Seq(C)
      BY <1>17 DEF PageOf
    <2>2. \A r \in C : r \in v.now
      BY <1>5, <1>15 DEF ViewSound
    <2>3. QED
      BY <2>1, <2>2
  <1>20. ASSUME answer.hasMore
         PROVE  \E n \in Numbers(j) : Task(j, n).id = ids[Len(ids)] /\ answer.nextCursor = TaskCursorAt(Task(j, n), order)
    <2>1. Len(trim) \in DOMAIN trim /\ HasMore(rows, limit)
      BY <1>12, <1>18, <1>20 DEF PageOf
    <2>2. PICK L \in Nat : L = Len(trim) /\ DOMAIN trim = 1 .. L
      BY <1>13, LenProperties
    <2>3. Len(ids) = L
      BY <1>14, <1>19, <2>2, LenProperties
    <2>4. trim \in Seq(Int) /\ \A i \in DOMAIN trim : trim[i] \in Numbers(j)
      BY <1>6, <1>13, NumbersAreFinite
    <2>5. answer.nextCursor = TaskCursorAt(Task(j, trim[L]), order)
      BY <1>2, <2>1, <2>2, <2>4 DEF TasksAnswered
    <2>6. ids[L] = Task(j, trim[L]).id
      BY <1>7, <1>14, <2>1, <2>2, <2>4
    <2>7. QED
      BY <2>1, <2>2, <2>3, <2>4, <2>5, <2>6
  <1>21. answer.hasMore \in BOOLEAN
    BY <1>18 DEF HasMore
  <1>22. QED
    BY <1>17, <1>18, <1>19, <1>20, <1>21 DEF TasksListed

-----------------------------------------------------------------------------
(* How the tables change under a pass.                                     *)

\* Rows that are not deleted stay, and keep their place unless they are stirred.
LEMMA JobViewStep ==
  ASSUME NEW field, NEW filter, NEW gone, NEW stirred,
         \A j \in JobIds : jobs[j] = Gone => jobs'[j] = Gone,
         \A j \in gone : jobs'[j] = Gone,
         \A j \in Present \ gone :
           /\ j \in Present'
           /\ \/ j \in stirred
              \/ /\ JobPosition(field, JobRow(j))' = JobPosition(field, JobRow(j))
                 /\ JobMatches(j, filter) => JobMatches(j, filter)'
  PROVE  ViewStep(JobView(field, filter), JobView(field, filter)', gone, stirred)
  <1>1. PICK v : v = JobView(field, filter)
    OBVIOUS
  <1>2. PICK w : w = JobView(field, filter)'
    OBVIOUS
  <1>3. v.now = Present /\ v.hits = {j \in Present : JobMatches(j, filter)} /\ v.dead = {j \in JobIds : jobs[j] = Gone}
        /\ \A j \in Present : v.at[j] = JobPosition(field, JobRow(j))
    BY <1>1 DEF JobView
  <1>4. w.now = Present' /\ w.hits = {j \in Present' : JobMatches(j, filter)'} /\ w.dead = {j \in JobIds : jobs'[j] = Gone}
        /\ \A j \in Present' : w.at[j] = JobPosition(field, JobRow(j))'
    BY <1>2 DEF JobView
  <1>5. \A j \in Present : j \in JobIds
    BY DEF Present
  <1>6. \A j \in gone : j \notin Present'
    BY DEF Present
  <1>7. \A r \in v.now : r \in w.now \cup w.dead
    BY <1>3, <1>4, <1>5
  <1>8. v.dead \subseteq w.dead
    BY <1>3, <1>4
  <1>9. \A r \in (v.now \cap w.now) \ stirred : w.at[r] = v.at[r]
    BY <1>3, <1>4, <1>6
  <1>10. \A r \in v.hits \ (gone \cup stirred) : r \in w.hits
    BY <1>3, <1>4
  <1>11. ViewStep(v, w, gone, stirred)
    BY <1>7, <1>8, <1>9, <1>10 DEF ViewStep
  <1>12. QED
    BY <1>1, <1>2, <1>11

\* A change of a row is a step of its view: tasks keep their ids, none goes,
\* and what is not stirred stays in place and keeps matching.
LEMMA RowViewStep ==
  ASSUME NEW j \in JobIds, NEW r, RowSound(j, r), NEW q, RowSound(j, q), NEW field, NEW filter, NEW gone, NEW stirred,
         NEW old \in SUBSET RowTasks(r), NEW new \in SUBSET RowTasks(q), old \subseteq new,
         \A n \in old : RowTask(j, q, n).id = RowTask(j, r, n).id,
         \A n \in old : \/ RowTask(j, r, n).id \in stirred
                        \/ /\ TaskPosition(field, RowTask(j, q, n)) = TaskPosition(field, RowTask(j, r, n))
                           /\ TaskMatches(RowTask(j, r, n), filter) => TaskMatches(RowTask(j, q, n), filter)
  PROVE  ViewStep(RowView(j, r, old, field, filter), RowView(j, q, new, field, filter), gone, stirred)
  <1>1. PICK v : v = RowView(j, r, old, field, filter)
    OBVIOUS
  <1>2. PICK w : w = RowView(j, q, new, field, filter)
    OBVIOUS
  <1>3. v.now = {RowTask(j, r, n).id : n \in old} /\ w.now = {RowTask(j, q, n).id : n \in new}
        /\ v.hits = {RowTask(j, r, n).id : n \in {n \in old : TaskMatches(RowTask(j, r, n), filter)}}
        /\ w.hits = {RowTask(j, q, n).id : n \in {n \in new : TaskMatches(RowTask(j, q, n), filter)}}
    BY <1>1, <1>2 DEF RowView
  <1>4. v.dead = {}
    BY <1>1, RowsArePresent DEF RowView
  <1>5. \A n \in old : v.at[RowTask(j, r, n).id] = TaskPosition(field, RowTask(j, r, n))
    BY <1>1, TaskAt
  <1>6. \A n \in new : w.at[RowTask(j, q, n).id] = TaskPosition(field, RowTask(j, q, n))
    BY <1>2, TaskAt
  <1>7. \A i \in v.now : i \in w.now
    BY <1>3
  <1>8. ASSUME NEW i \in v.now \ stirred PROVE w.at[i] = v.at[i]
    <2>1. PICK n \in old : i = RowTask(j, r, n).id
      BY <1>3, <1>8
    <2>2. TaskPosition(field, RowTask(j, q, n)) = TaskPosition(field, RowTask(j, r, n))
      BY <1>8, <2>1
    <2>3. QED
      BY <1>5, <1>6, <2>1, <2>2
  <1>9. ASSUME NEW i \in v.hits \ stirred PROVE i \in w.hits
    <2>1. PICK n \in old : i = RowTask(j, r, n).id /\ TaskMatches(RowTask(j, r, n), filter)
      BY <1>3, <1>9
    <2>2. TaskMatches(RowTask(j, q, n), filter) /\ i = RowTask(j, q, n).id /\ n \in new
      BY <1>9, <2>1
    <2>3. QED
      BY <1>3, <2>2
  <1>10. ViewStep(v, w, gone, stirred)
    BY <1>4, <1>7, <1>8, <1>9 DEF ViewStep
  <1>11. QED
    BY <1>1, <1>2, <1>10

\* A row that is not touched.
LEMMA TaskViewSame ==
  ASSUME NEW j \in JobIds, NEW field, NEW filter, NEW gone, NEW stirred, jobs'[j] = jobs[j], deploy' = deploy
  PROVE  ViewStep(TaskView(j, field, filter), TaskView(j, field, filter)', gone, stirred)
  <1>1. Numbers(j)' = Numbers(j)
    BY DEF Numbers, On, Present, Resolve, TaskKey, ShardIndex, Tasks
  <1>2. TaskView(j, field, filter)' = TaskView(j, field, filter)
    BY <1>1 DEF TaskView
  <1>3. PICK v : v = TaskView(j, field, filter)
    OBVIOUS
  <1>4. ViewStep(v, v, gone, stirred)
    <2>1. v.hits \subseteq v.now
      BY <1>3 DEF TaskView, RowView
    <2>2. QED
      BY <2>1 DEF ViewStep
  <1>5. QED
    BY <1>2, <1>3, <1>4

\* The job is deleted.
LEMMA TaskViewGone ==
  ASSUME StoreSound, NEW j \in JobIds, NEW field, NEW filter, NEW gone, jobs'[j] = Gone,
         {Task(j, n).id : n \in Tasks(j)} \subseteq gone
  PROVE  ViewStep(TaskView(j, field, filter), TaskView(j, field, filter)', gone, {})
  <1>1. PICK v : v = TaskView(j, field, filter)
    OBVIOUS
  <1>2. PICK w : w = TaskView(j, field, filter)'
    OBVIOUS
  <1>3. Numbers(j)' = {}
    BY DEF Numbers, On, Present
  <1>4. w.now = {} /\ w.dead = String
    BY <1>2, <1>3 DEF TaskView, RowView
  <1>5. v.now = {RowTask(j, jobs[j], n).id : n \in Numbers(j)} /\ v.hits \subseteq v.now
        /\ v.dead \subseteq String
    BY <1>1 DEF TaskView, RowView
  <1>6. \A n \in Numbers(j) : RowTask(j, jobs[j], n).id \in String /\ RowTask(j, jobs[j], n) = Task(j, n)
    BY NumberFacts
  <1>7. v.hits \subseteq gone
    <2>1. Numbers(j) \subseteq Tasks(j)
      BY DEF Numbers
    <2>2. QED
      BY <1>5, <1>6, <2>1
  <1>8. ViewStep(v, w, gone, {})
    BY <1>4, <1>5, <1>6, <1>7 DEF ViewStep
  <1>9. QED
    BY <1>1, <1>2, <1>8

\* A worker changes the row of the job.
LEMMA TaskViewStep ==
  ASSUME StoreSound, StoreSound', deploy' = deploy, NEW j \in Present, j \in Present', NEW field, NEW filter, NEW gone, NEW stirred,
         NEW r, r = jobs[j], NEW q, q = jobs'[j],
         RowTasks(r) \subseteq RowTasks(q),
         \A n \in RowTasks(r) : RowTask(j, q, n).id = RowTask(j, r, n).id,
         \A n \in RowTasks(r) :
           \/ RowTask(j, r, n).id \in stirred
           \/ /\ TaskPosition(field, RowTask(j, q, n)) = TaskPosition(field, RowTask(j, r, n))
              /\ TaskMatches(RowTask(j, r, n), filter) => TaskMatches(RowTask(j, q, n), filter)
  PROVE  ViewStep(TaskView(j, field, filter), TaskView(j, field, filter)', gone, stirred)
  <1>1. j \in JobIds /\ RowSound(j, r) /\ RowSound(j, q)
    BY DEF StoreSound, Present
  <1>2. r.shard = 0 /\ q.shard = 0
    BY <1>1 DEF RowSound
  <1>3. PICK old, new : old = Numbers(j) /\ new = Numbers(j)'
    OBVIOUS
  <1>4. Resolve(TaskKey(j))' = Resolve(TaskKey(j))
    BY DEF Resolve, TaskKey, ShardIndex
  <1>5. j \in On(Resolve(TaskKey(j)))' <=> j \in On(Resolve(TaskKey(j)))
    BY <1>2, <1>4 DEF On
  <1>6. Tasks(j) = RowTasks(r) /\ Tasks(j)' = RowTasks(q)
    BY DEF Tasks, RowTasks
  <1>7. old \subseteq RowTasks(r) /\ new \subseteq RowTasks(q) /\ old \subseteq new
    BY <1>3, <1>5, <1>6 DEF Numbers
  <1>8. PICK v, w : v = RowView(j, r, old, field, filter) /\ w = RowView(j, q, new, field, filter)
    OBVIOUS
  <1>9. v = TaskView(j, field, filter) /\ w = TaskView(j, field, filter)'
    BY <1>3, <1>8 DEF TaskView
  <1>10. \A n \in old : n \in RowTasks(r)
    BY <1>7
  <1>11. ViewStep(v, w, gone, stirred)
    BY <1>1, <1>7, <1>8, <1>10, RowViewStep
  <1>12. QED
    BY <1>9, <1>11

-----------------------------------------------------------------------------
(* The invariant of a pass.                                                *)

\* The fields of a pass that has begun.
PassFields == {"state", "kind", "job", "cursor", "limit", "filter", "field", "listed", "steady", "moved"}

\* The table that a pass goes through.
PassView(p) == IF p.kind = "jobs" THEN JobView(p.field, p.filter) ELSE TaskView(p.job, p.field, p.filter)

\* The position that a pass has come to.
CursorAt(p) == IF p.kind = "jobs" THEN JobPosition(p.field, p.cursor) ELSE TaskPosition(p.field, p.cursor)

\* The cursor of a pass, if there is one, is a cursor into its table.
CursorTyped(p) == p.cursor = Nil \/ p.cursor \in IF p.kind = "jobs" THEN JobCursor ELSE TaskCursor

\* A pass with pages to come.
OpenSound(p) ==
  /\ p.cursor \in IF p.kind = "jobs" THEN JobCursor ELSE TaskCursor
  /\ p.cursor.sortField = p.field
  /\ Reached(p.listed, p.steady, p.moved, PassView(p), CursorAt(p), p.cursor.sortAsc)

\* A pass that has begun: nothing listed twice except what moved; when done,
\* everything listed that was there all the time.
PassIs(p) ==
  /\ DOMAIN p = PassFields
  /\ p.state \in {"open", "done", "failed"} /\ p.kind \in {"jobs", "tasks"}
  /\ p.limit \in Int /\ p.listed \in Seq(String)
  /\ p.kind = "tasks" => p.job \in JobIds /\ jobs[p.job] # Nil
  /\ NoTwice(p.listed, p.moved) /\ CursorTyped(p)
  /\ p.state = "done" => \A r \in p.steady : \E i \in DOMAIN p.listed : p.listed[i] = r
  /\ p.state = "open" => OpenSound(p)

\* The inductive invariant of a pass.
PassSound == pass = Idle \/ PassIs(pass)

\* The table that a pass goes through is a sound view.
LEMMA PassViewSound ==
  StoreSound => \A p : p.kind = "jobs" \/ p.job \in JobIds => ViewSound(PassView(p))
  <1> SUFFICES ASSUME StoreSound, NEW p, p.kind = "jobs" \/ p.job \in JobIds PROVE ViewSound(PassView(p))
    OBVIOUS
  <1>1. CASE p.kind = "jobs"
    BY <1>1, JobViewSound DEF PassView
  <1>2. CASE p.kind # "jobs"
    BY <1>2, TaskViewSound DEF PassView
  <1>3. QED
    BY <1>1, <1>2

\* The same after a step.
LEMMA PassViewSoundNext ==
  StoreSound' => \A p : p.kind = "jobs" \/ p.job \in JobIds => ViewSound(PassView(p)')
  <1>1. StoreSound' => (\A p : p.kind = "jobs" \/ p.job \in JobIds => ViewSound(PassView(p)))'
    BY PassViewSound, PTL
  <1>2. (\A p : p.kind = "jobs" \/ p.job \in JobIds => ViewSound(PassView(p)))'
        => \A p : p.kind = "jobs" \/ p.job \in JobIds => ViewSound(PassView(p)')
    BY DEF ViewSound
  <1>3. QED
    BY <1>1, <1>2

\* A pass goes on while the table changes.
LEMMA PassKept ==
  ASSUME StoreSound, StoreSound', NEW p, PassIs(p), p.kind = "tasks" => jobs'[p.job] # Nil,
         NEW p2, DOMAIN p2 = PassFields, \A k \in PassFields \ {"steady", "moved"} : p2[k] = p[k],
         p.state # "open" => p2 = p,
         p.state = "open" => \E gone, stirred : /\ ViewStep(PassView(p), PassView(p)', gone, stirred)
                                                /\ p2.steady \subseteq p.steady \ (gone \cup stirred)
                                                /\ p.moved \cup stirred \subseteq p2.moved
  PROVE  PassIs(p2)'
  <1>1. p2.state = p.state /\ p2.kind = p.kind /\ p2.job = p.job /\ p2.cursor = p.cursor /\ p2.limit = p.limit
        /\ p2.filter = p.filter /\ p2.field = p.field /\ p2.listed = p.listed
    BY DEF PassFields
  <1>2. /\ p.state \in {"open", "done", "failed"} /\ p.kind \in {"jobs", "tasks"}
        /\ p.limit \in Int /\ p.listed \in Seq(String)
        /\ p.kind = "tasks" => p.job \in JobIds
        /\ NoTwice(p.listed, p.moved) /\ CursorTyped(p)
        /\ p.state = "done" => \A r \in p.steady : \E i \in DOMAIN p.listed : p.listed[i] = r
        /\ p.state = "open" => OpenSound(p)
    BY DEF PassIs
  <1>3. CASE p.state # "open"
    <2>1. p2 = p
      BY <1>3
    <2>2. QED
      BY <1>2, <1>3, <2>1 DEF PassIs
  <1>4. CASE p.state = "open"
    <2>1. PICK gone, stirred : /\ ViewStep(PassView(p), PassView(p)', gone, stirred)
                               /\ p2.steady \subseteq p.steady \ (gone \cup stirred)
                               /\ p.moved \cup stirred \subseteq p2.moved
      BY <1>4
    <2>2. PICK v, w : v = PassView(p) /\ w = PassView(p)'
      OBVIOUS
    <2>3. ViewSound(v) /\ ViewSound(w)
      BY <1>2, <2>2, PassViewSound, PassViewSoundNext
    <2>4. PICK c : c = CursorAt(p)
      OBVIOUS
    <2>5. Reached(p.listed, p.steady, p.moved, v, c, p.cursor.sortAsc)
      BY <1>2, <1>4, <2>2, <2>4 DEF OpenSound
    <2>6. ViewStep(v, w, gone, stirred)
      BY <2>1, <2>2
    <2>7. Reached(p.listed, p2.steady, p2.moved, w, c, p.cursor.sortAsc)
      BY <2>1, <2>3, <2>5, <2>6, ReachedKept
    <2>8. CursorAt(p2)' = c /\ PassView(p2)' = w
      BY <1>1, <2>2, <2>4 DEF CursorAt, PassView
    <2>9. OpenSound(p2)'
      <3>1. p.cursor \in (IF p.kind = "jobs" THEN JobCursor ELSE TaskCursor) /\ p.cursor.sortField = p.field
        BY <1>2, <1>4 DEF OpenSound
      <3>2. QED
        BY <1>1, <2>7, <2>8, <3>1 DEF OpenSound
    <2>10. NoTwice(p2.listed, p2.moved)
      BY <1>1, <1>2, <2>1 DEF NoTwice
    <2>11. CursorTyped(p2)
      BY <1>1, <1>2 DEF CursorTyped
    <2>12. QED
      BY <1>1, <1>2, <1>4, <2>9, <2>10, <2>11 DEF PassIs
  <1>5. QED
    BY <1>3, <1>4

-----------------------------------------------------------------------------
(* The steps that change the tables.                                       *)

\* The order or the filter of the pass looks at the status.
Cares(field, filter) == field = "status" \/ (filter # Nil /\ ~Equal(filter.status, Nil))

\* A filter that does not name a status accepts every status.
LEMMA FilterCares ==
  ASSUME NEW field, NEW filter, filter # Nil, ~Cares(field, filter), NEW value
  PROVE  Equal(filter.status, value)
  BY DEF Cares, Equal

\* A job whose status does not matter stays in place and keeps matching.
LEMMA JobKept ==
  ASSUME NEW j, NEW field, NEW filter, jobs'[j].config = jobs[j].config,
         jobs'[j].job.createdAt = jobs[j].job.createdAt,
         jobs'[j].job.status = jobs[j].job.status \/ ~Cares(field, filter)
  PROVE  /\ JobPosition(field, JobRow(j))' = JobPosition(field, JobRow(j))
         /\ JobMatches(j, filter) => JobMatches(j, filter)'
  <1>1. PICK a, b : a = JobRow(j) /\ b = JobRow(j)'
    OBVIOUS
  <1>2. a.id = b.id /\ a.name = b.name /\ a.createdAt = b.createdAt /\ (a.status = b.status \/ ~Cares(field, filter))
    BY <1>1 DEF JobRow
  <1>3. field = "status" => Cares(field, filter)
    BY DEF Cares
  <1>4. JobPosition(field, b) = JobPosition(field, a)
    BY <1>2, <1>3 DEF JobPosition
  <1>5. JobPosition(field, JobRow(j))' = JobPosition(field, b)
    BY <1>1 DEF JobPosition
  <1>6. ASSUME JobMatches(j, filter) PROVE JobMatches(j, filter)'
    <2>1. CASE filter = Nil
      BY <2>1 DEF JobMatches
    <2>2. CASE filter # Nil
      <3>1. Equal(filter.status, jobs'[j].job.status)
        BY <1>6, <2>2, FilterCares DEF JobMatches
      <3>2. QED
        BY <1>6, <2>2, <3>1 DEF JobMatches
    <2>3. QED
      BY <2>1, <2>2
  <1>7. QED
    BY <1>1, <1>4, <1>5, <1>6

\* The same for a task.
LEMMA TaskKept ==
  ASSUME NEW j \in JobIds, NEW r, RowSound(j, r), NEW n \in RowTasks(r), NEW field, NEW filter,
         NEW q, q.config = r.config, q.job.createdAt = r.job.createdAt, r.foundAt = Nil \/ q.foundAt = r.foundAt
  PROVE  /\ RowTask(j, q, n).id = RowTask(j, r, n).id
         /\ q.worked = r.worked \/ ~Cares(field, filter)
              => /\ TaskPosition(field, RowTask(j, q, n)) = TaskPosition(field, RowTask(j, r, n))
                 /\ TaskMatches(RowTask(j, r, n), filter) => TaskMatches(RowTask(j, q, n), filter)
         /\ n \in RowTasks(q)
  <1>1. PICK L \in Nat : L = Len(r.config.seeds) /\ RowTasks(r) \subseteq 1 .. (L + 1)
                         /\ (L + 1 \in RowTasks(r) <=> r.foundAt # Nil)
    BY RowLengths, Zenon
  <1>2. r.foundAt = Nil => n <= L
    BY <1>1
  <1>3. PICK a, b : a = RowTask(j, r, n) /\ b = RowTask(j, q, n)
    OBVIOUS
  <1>4. a.id = b.id /\ a.url = b.url /\ a.depth = b.depth /\ (q.worked = r.worked => a.status = b.status)
    BY <1>3 DEF RowTask
  <1>5. a.enqueuedAt = b.enqueuedAt
    BY <1>1, <1>2, <1>3 DEF RowTask
  <1>6. field = "status" => Cares(field, filter)
    BY DEF Cares
  <1>7. ASSUME q.worked = r.worked \/ ~Cares(field, filter)
        PROVE  TaskPosition(field, b) = TaskPosition(field, a) /\ (TaskMatches(a, filter) => TaskMatches(b, filter))
    <2>1. TaskPosition(field, b) = TaskPosition(field, a)
      BY <1>4, <1>5, <1>6, <1>7 DEF TaskPosition
    <2>2. ASSUME TaskMatches(a, filter) PROVE TaskMatches(b, filter)
      <3>1. CASE filter = Nil
        BY <3>1 DEF TaskMatches
      <3>2. CASE filter # Nil
        <4>1. Equal(filter.status, b.status)
          BY <1>4, <1>7, <2>2, <3>2, FilterCares DEF TaskMatches
        <4>2. QED
          BY <1>4, <1>5, <2>2, <3>2, <4>1 DEF TaskMatches
      <3>3. QED
        BY <3>1, <3>2
    <2>3. QED
      BY <2>1, <2>2
  <1>8. n \in RowTasks(q)
    <2>1. CASE r.foundAt = Nil
      BY <2>1 DEF RowTasks
    <2>2. CASE q.foundAt = r.foundAt
      BY <2>2 DEF RowTasks
    <2>3. QED
      BY <2>1, <2>2
  <1>9. QED
    BY <1>3, <1>4, <1>7, <1>8

\* A pass over tasks, when a worker changes its job's row.
LEMMA TasksStep ==
  ASSUME StoreSound, StoreSound', deploy' = deploy, NEW j \in Present, j \in Present', NEW field, NEW filter, NEW gone, NEW stirred,
         NEW q, q = jobs'[j], q.config = jobs[j].config, q.job.createdAt = jobs[j].job.createdAt,
         jobs[j].foundAt = Nil \/ q.foundAt = jobs[j].foundAt,
         \/ q.worked = jobs[j].worked
         \/ ~Cares(field, filter)
         \/ {Task(j, n).id : n \in Tasks(j)} \subseteq stirred
  PROVE  ViewStep(TaskView(j, field, filter), TaskView(j, field, filter)', gone, stirred)
  <1>1. PICK r : r = jobs[j] /\ RowSound(j, r) /\ j \in JobIds
    BY PresentRows
  <1>2. Tasks(j) = RowTasks(r) /\ \A n : Task(j, n) = RowTask(j, r, n)
    BY <1>1, TasksOfRow
  <1>3. ASSUME NEW n \in RowTasks(r)
        PROVE  /\ RowTask(j, q, n).id = RowTask(j, r, n).id /\ n \in RowTasks(q)
               /\ \/ RowTask(j, r, n).id \in stirred
                  \/ /\ TaskPosition(field, RowTask(j, q, n)) = TaskPosition(field, RowTask(j, r, n))
                     /\ TaskMatches(RowTask(j, r, n), filter) => TaskMatches(RowTask(j, q, n), filter)
    <2>1. /\ RowTask(j, q, n).id = RowTask(j, r, n).id
          /\ q.worked = r.worked \/ ~Cares(field, filter)
               => /\ TaskPosition(field, RowTask(j, q, n)) = TaskPosition(field, RowTask(j, r, n))
                  /\ TaskMatches(RowTask(j, r, n), filter) => TaskMatches(RowTask(j, q, n), filter)
          /\ n \in RowTasks(q)
      BY <1>1, TaskKept
    <2>2. QED
      BY <1>1, <1>2, <2>1
  <1>4. RowTasks(r) \subseteq RowTasks(q)
    BY <1>3
  <1>5. QED
    BY <1>1, <1>3, <1>4, TaskViewStep

\* What a changed row keeps.
LEMMA RowKeeps ==
  ASSUME StoreSound, RowsStep, NEW j \in Present
  PROVE  /\ j \in Present' /\ jobs'[j].config = jobs[j].config /\ jobs'[j].job.createdAt = jobs[j].job.createdAt
         /\ jobs[j].foundAt = Nil \/ jobs'[j].foundAt = jobs[j].foundAt
  <1>1. PICK r, q : r = jobs[j] /\ q = jobs'[j]
    OBVIOUS
  <1>2. RowSound(j, r) /\ j \in JobIds /\ clock \in Timestamp
    BY <1>1, PresentRows DEF StoreSound
  <1>3. RowStep(j, r, q)
    BY <1>1, <1>2 DEF RowsStep
  <1>4. RowSound(j, q) /\ q.config = r.config /\ q.job.createdAt = r.job.createdAt /\ (q.foundAt # r.foundAt => r.foundAt = Nil)
    BY <1>2, <1>3, RowStepSound
  <1>5. j \in Present'
    BY <1>1, <1>2, <1>4, RowsArePresent DEF Present
  <1>6. QED
    BY <1>1, <1>4, <1>5

\* A step of the rows is a step of the view of a pass.
LEMMA ViewUnderRows ==
  ASSUME StoreSound, StoreSound', deploy' = deploy, RowsStep, NEW p, PassIs(p), NEW stirred,
         p.kind = "jobs" => \A j \in Present : \/ jobs'[j].job.status = jobs[j].job.status
                                               \/ ~Cares(p.field, p.filter)
                                               \/ j \in stirred,
         p.kind = "tasks" /\ p.job \in Present => \/ jobs'[p.job].worked = jobs[p.job].worked
                                                  \/ ~Cares(p.field, p.filter)
                                                  \/ {Task(p.job, n).id : n \in Tasks(p.job)} \subseteq stirred
  PROVE  ViewStep(PassView(p), PassView(p)', {}, stirred) /\ (p.kind = "tasks" => jobs'[p.job] # Nil)
  <1>1. PICK field, filter : field = p.field /\ filter = p.filter
    OBVIOUS
  <1>2. CASE p.kind = "jobs"
    <2>1. \A j \in JobIds : jobs[j] = Gone => jobs'[j] = Gone
      BY DEF RowsStep, Present
    <2>2. ASSUME NEW j \in Present
          PROVE  /\ j \in Present'
                 /\ \/ j \in stirred
                    \/ /\ JobPosition(field, JobRow(j))' = JobPosition(field, JobRow(j))
                       /\ JobMatches(j, filter) => JobMatches(j, filter)'
      <3>1. j \in Present' /\ jobs'[j].config = jobs[j].config /\ jobs'[j].job.createdAt = jobs[j].job.createdAt
        BY RowKeeps
      <3>2. jobs'[j].job.status = jobs[j].job.status \/ ~Cares(field, filter) \/ j \in stirred
        BY <1>1, <1>2
      <3>3. QED
        BY <3>1, <3>2, JobKept
    <2>3. ViewStep(JobView(field, filter), JobView(field, filter)', {}, stirred)
      BY <2>1, <2>2, JobViewStep
    <2>4. QED
      BY <1>1, <1>2, <2>3 DEF PassView
  <1>3. CASE p.kind # "jobs"
    <2>1. p.kind = "tasks"
      BY <1>3 DEF PassIs
    <2>2. PICK j \in JobIds : j = p.job /\ jobs[j] # Nil
      BY <2>1 DEF PassIs
    <2>3. CASE j \in Present
      <3>1. /\ j \in Present' /\ jobs'[j].config = jobs[j].config /\ jobs'[j].job.createdAt = jobs[j].job.createdAt
            /\ jobs[j].foundAt = Nil \/ jobs'[j].foundAt = jobs[j].foundAt
        BY <2>3, RowKeeps
      <3>2. \/ jobs'[j].worked = jobs[j].worked
            \/ ~Cares(field, filter)
            \/ {Task(j, n).id : n \in Tasks(j)} \subseteq stirred
        BY <1>1, <2>1, <2>2, <2>3
      <3>3. ViewStep(TaskView(j, field, filter), TaskView(j, field, filter)', {}, stirred)
        BY <2>3, <3>1, <3>2, TasksStep
      <3>4. jobs'[j] # Nil
        BY <3>1 DEF Present
      <3>5. QED
        BY <1>1, <1>3, <2>2, <3>3, <3>4 DEF PassView
    <2>4. CASE j \notin Present
      <3>1. jobs'[j] = jobs[j]
        BY <2>4 DEF RowsStep
      <3>2. ViewStep(TaskView(j, field, filter), TaskView(j, field, filter)', {}, stirred)
        BY <3>1, TaskViewSame
      <3>3. QED
        BY <1>1, <1>3, <2>2, <3>1, <3>2 DEF PassView
    <2>5. QED
      BY <2>3, <2>4
  <1>4. QED
    BY <1>2, <1>3

\* A job is created.
LEMMA ViewUnderCreate ==
  ASSUME StoreSound, deploy' = deploy, NEW n \in JobIds, jobs[n] = Nil, NEW row, RowSound(n, row),
         jobs' = [jobs EXCEPT ![n] = row], NEW p, PassIs(p)
  PROVE  ViewStep(PassView(p), PassView(p)', {}, {}) /\ (p.kind = "tasks" => jobs'[p.job] # Nil)
  <1>1. PICK field, filter : field = p.field /\ filter = p.filter
    OBVIOUS
  <1>2. Gone # Nil /\ \A j \in JobIds : j # n => jobs'[j] = jobs[j]
    BY NilAssumption DEF StoreSound
  <1>3. CASE p.kind = "jobs"
    <2>1. \A j \in JobIds : jobs[j] = Gone => jobs'[j] = Gone
      BY <1>2
    <2>2. ASSUME NEW j \in Present
          PROVE  /\ j \in Present'
                 /\ JobPosition(field, JobRow(j))' = JobPosition(field, JobRow(j))
                 /\ JobMatches(j, filter) => JobMatches(j, filter)'
      <3>1. j \in JobIds /\ jobs'[j] = jobs[j] /\ j \in Present'
        BY <1>2 DEF Present
      <3>2. QED
        BY <3>1, JobKept
    <2>3. ViewStep(JobView(field, filter), JobView(field, filter)', {}, {})
      BY <2>1, <2>2, JobViewStep
    <2>4. QED
      BY <1>1, <1>3, <2>3 DEF PassView
  <1>4. CASE p.kind # "jobs"
    <2>1. p.kind = "tasks"
      BY <1>4 DEF PassIs
    <2>2. PICK j \in JobIds : j = p.job /\ jobs[j] # Nil
      BY <2>1 DEF PassIs
    <2>3. jobs'[j] = jobs[j]
      BY <1>2, <2>2
    <2>4. ViewStep(TaskView(j, field, filter), TaskView(j, field, filter)', {}, {})
      BY <2>3, TaskViewSame
    <2>5. QED
      BY <1>1, <1>4, <2>2, <2>3, <2>4 DEF PassView
  <1>5. QED
    BY <1>3, <1>4

\* A job is deleted, and its rows are gone.
LEMMA ViewUnderDelete ==
  ASSUME StoreSound, deploy' = deploy, NEW d \in Present, jobs' = [jobs EXCEPT ![d] = Gone], NEW p, PassIs(p),
         NEW gone, gone = (CASE p.kind = "jobs" -> {d}
                             [] p.kind = "tasks" /\ p.job = d -> {Task(d, n).id : n \in Tasks(d)}
                             [] OTHER -> {})
  PROVE  ViewStep(PassView(p), PassView(p)', gone, {}) /\ (p.kind = "tasks" => jobs'[p.job] # Nil)
  <1>1. PICK field, filter : field = p.field /\ filter = p.filter
    OBVIOUS
  <1>2. Gone # Nil /\ d \in JobIds /\ jobs'[d] = Gone /\ \A j \in JobIds : j # d => jobs'[j] = jobs[j]
    BY NilAssumption DEF StoreSound, Present
  <1>3. CASE p.kind = "jobs"
    <2>0. gone = {d}
      BY <1>3
    <2>1. \A j \in JobIds : jobs[j] = Gone => jobs'[j] = Gone
      BY <1>2
    <2>2. ASSUME NEW j \in Present \ gone
          PROVE  /\ j \in Present'
                 /\ JobPosition(field, JobRow(j))' = JobPosition(field, JobRow(j))
                 /\ JobMatches(j, filter) => JobMatches(j, filter)'
      <3>1. j \in JobIds /\ jobs'[j] = jobs[j] /\ j \in Present'
        BY <1>2, <2>0 DEF Present
      <3>2. QED
        BY <3>1, JobKept
    <2>3. \A j \in gone : jobs'[j] = Gone
      BY <1>2, <2>0
    <2>4. ViewStep(JobView(field, filter), JobView(field, filter)', gone, {})
      BY <2>1, <2>2, <2>3, JobViewStep
    <2>5. QED
      BY <1>1, <1>3, <2>4 DEF PassView
  <1>4. CASE p.kind # "jobs"
    <2>1. p.kind = "tasks"
      BY <1>4 DEF PassIs
    <2>2. PICK j \in JobIds : j = p.job /\ jobs[j] # Nil
      BY <2>1 DEF PassIs
    <2>3. CASE j = d
      <3>1. gone = {Task(j, n).id : n \in Tasks(j)}
        BY <2>1, <2>2, <2>3
      <3>2. ViewStep(TaskView(j, field, filter), TaskView(j, field, filter)', gone, {})
        BY <1>2, <2>3, <3>1, TaskViewGone
      <3>3. QED
        BY <1>1, <1>2, <1>4, <2>2, <2>3, <3>2 DEF PassView
    <2>4. CASE j # d
      <3>1. jobs'[j] = jobs[j]
        BY <1>2, <2>4
      <3>2. ViewStep(TaskView(j, field, filter), TaskView(j, field, filter)', gone, {})
        BY <3>1, TaskViewSame
      <3>3. QED
        BY <1>1, <1>4, <2>2, <3>1, <3>2 DEF PassView
    <2>5. QED
      BY <2>3, <2>4
  <1>5. QED
    BY <1>3, <1>4

\* The pass itself is left alone.
LEMMA PassUntouched ==
  ASSUME StoreSound, StoreSound', PassSound, pass' = pass,
         \A p : PassIs(p) => /\ ViewStep(PassView(p), PassView(p)', {}, {})
                             /\ p.kind = "tasks" => jobs'[p.job] # Nil
  PROVE  PassSound'
  <1>1. CASE pass = Idle
    BY <1>1 DEF PassSound
  <1>2. CASE pass # Idle
    <2>1. PICK p : p = pass
      OBVIOUS
    <2>2. PassIs(p)
      BY <1>2, <2>1 DEF PassSound
    <2>3. ViewStep(PassView(p), PassView(p)', {}, {}) /\ (p.kind = "tasks" => jobs'[p.job] # Nil)
      BY <2>2
    <2>4. DOMAIN p = PassFields
      BY <2>2 DEF PassIs
    <2>5. p.steady \subseteq p.steady \ ({} \cup {}) /\ p.moved \cup {} \subseteq p.moved
      OBVIOUS
    <2>6. PassIs(p)'
      BY <2>2, <2>3, <2>4, <2>5, PassKept
    <2>7. p = pass'
      BY <2>1
    <2>8. QED
      BY <2>6, <2>7 DEF PassSound
  <1>3. QED
    BY <1>1, <1>2

\* Rows change in what no pass that is left alone looks at.
LEMMA PassUnderQuiet ==
  ASSUME StoreSound, StoreSound', deploy' = deploy, PassSound, pass' = pass, RowsStep,
         \A j \in Present : jobs'[j].job.status = jobs[j].job.status /\ jobs'[j].worked = jobs[j].worked
  PROVE  PassSound'
  <1>1. ASSUME NEW p, PassIs(p)
        PROVE  ViewStep(PassView(p), PassView(p)', {}, {}) /\ (p.kind = "tasks" => jobs'[p.job] # Nil)
    BY <1>1, ViewUnderRows
  <1>2. QED
    BY <1>1, PassUntouched

\* A job that is created during a pass.
LEMMA PassUnderCreate ==
  ASSUME StoreSound, StoreSound', deploy' = deploy, PassSound, pass' = pass, JobCreated
  PROVE  PassSound'
  <1>1. PICK n \in JobIds : \E row : jobs[n] = Nil /\ RowSound(n, row) /\ jobs' = [jobs EXCEPT ![n] = row]
    BY DEF JobCreated
  <1>2. PICK row : jobs[n] = Nil /\ RowSound(n, row) /\ jobs' = [jobs EXCEPT ![n] = row]
    BY <1>1
  <1>3. ASSUME NEW p, PassIs(p)
        PROVE  ViewStep(PassView(p), PassView(p)', {}, {}) /\ (p.kind = "tasks" => jobs'[p.job] # Nil)
    BY <1>2, <1>3, ViewUnderCreate
  <1>4. QED
    BY <1>3, PassUntouched

\* A job that is deleted during a pass.
LEMMA PassUnderDelete ==
  ASSUME StoreSound, StoreSound', deploy' = deploy, PassSound, NEW d \in Present,
         jobs' = [jobs EXCEPT ![d] = Gone], PassSeesDeletion(d)
  PROVE  PassSound'
  <1>1. PICK p : p = pass
    OBVIOUS
  <1>2. PICK gone : gone = RowsOf(d)
    OBVIOUS
  <1>3. pass' = IF p.state = "open" THEN [p EXCEPT !.steady = @ \ gone] ELSE p
    BY <1>1, <1>2 DEF PassSeesDeletion
  <1>4. CASE p = Idle
    <2>1. p.state # "open"
      BY <1>4 DEF Idle
    <2>2. QED
      BY <1>3, <1>4, <2>1 DEF PassSound
  <1>5. CASE p # Idle
    <2>1. PassIs(p)
      BY <1>1, <1>5 DEF PassSound
    <2>2. gone = CASE p.kind = "jobs" -> {d}
                   [] p.kind = "tasks" /\ p.job = d -> {Task(d, n).id : n \in Tasks(d)}
                   [] OTHER -> {}
      BY <1>1, <1>2 DEF RowsOf
    <2>3. ViewStep(PassView(p), PassView(p)', gone, {}) /\ (p.kind = "tasks" => jobs'[p.job] # Nil)
      BY <2>1, <2>2, ViewUnderDelete
    <2>4. DOMAIN p = PassFields
      BY <2>1 DEF PassIs
    <2>5. PICK p2 : p2 = pass'
      OBVIOUS
    <2>6. /\ DOMAIN p2 = PassFields /\ \A k \in PassFields \ {"steady", "moved"} : p2[k] = p[k]
          /\ p.state # "open" => p2 = p
          /\ p.state = "open" => p2.steady = p.steady \ gone /\ p2.moved = p.moved
      BY <1>3, <2>4, <2>5 DEF PassFields
    <2>7. p.state = "open" => /\ ViewStep(PassView(p), PassView(p)', gone, {})
                              /\ p2.steady \subseteq p.steady \ (gone \cup {}) /\ p.moved \cup {} \subseteq p2.moved
      BY <2>3, <2>6
    <2>8. PassIs(p2)'
      BY <2>1, <2>3, <2>6, <2>7, PassKept
    <2>9. QED
      BY <2>5, <2>8 DEF PassSound
  <1>6. QED
    BY <1>4, <1>5

\* The rows of the jobs js change their status.
LEMMA PassUnderProgress ==
  ASSUME StoreSound, StoreSound', deploy' = deploy, PassSound, RowsStep, NEW kind \in {"jobs", "tasks"}, NEW js \in SUBSET Present,
         PassSeesProgress(kind, js),
         \A j \in Present : /\ jobs'[j].job.status = jobs[j].job.status \/ (kind = "jobs" /\ j \in js)
                            /\ jobs'[j].worked = jobs[j].worked \/ (kind = "tasks" /\ j \in js)
  PROVE  PassSound'
  <1>1. PICK p : p = pass
    OBVIOUS
  <1>2. PICK rows : rows = UNION {RowsOf(j) : j \in js}
    OBVIOUS
  <1>3. pass' = IF p.state = "open" /\ p.kind = kind /\ Cares(p.field, p.filter)
                THEN [p EXCEPT !.steady = @ \ rows, !.moved = @ \cup rows] ELSE p
    BY <1>1, <1>2 DEF PassSeesProgress, ByStatus, Cares
  <1>4. CASE p = Idle
    <2>1. p.state # "open"
      BY <1>4 DEF Idle
    <2>2. QED
      BY <1>3, <1>4, <2>1 DEF PassSound
  <1>5. CASE p # Idle
    <2>1. PassIs(p)
      BY <1>1, <1>5 DEF PassSound
    <2>2. DOMAIN p = PassFields /\ p.kind \in {"jobs", "tasks"}
      BY <2>1 DEF PassIs
    <2>3. PICK stirred : stirred = IF p.kind = kind /\ Cares(p.field, p.filter) THEN rows ELSE {}
      OBVIOUS
    <2>4. p.kind = "jobs" => js \subseteq rows
      BY <1>1, <1>2 DEF RowsOf
    <2>5. p.kind = "tasks" /\ p.job \in js => {Task(p.job, n).id : n \in Tasks(p.job)} \subseteq rows
      <3>1. ASSUME p.kind = "tasks", p.job \in js PROVE {Task(p.job, n).id : n \in Tasks(p.job)} \subseteq rows
        <4>1. RowsOf(p.job) = {Task(p.job, n).id : n \in Tasks(p.job)}
          BY <1>1, <3>1 DEF RowsOf
        <4>2. RowsOf(p.job) \subseteq rows
          BY <1>2, <3>1
        <4>3. QED
          BY <4>1, <4>2
      <3>2. QED
        BY <3>1
    <2>6. p.kind = "jobs" => \A j \in Present : \/ jobs'[j].job.status = jobs[j].job.status
                                                \/ ~Cares(p.field, p.filter)
                                                \/ j \in stirred
      BY <2>3, <2>4
    <2>7. p.kind = "tasks" /\ p.job \in Present =>
             \/ jobs'[p.job].worked = jobs[p.job].worked
             \/ ~Cares(p.field, p.filter)
             \/ {Task(p.job, n).id : n \in Tasks(p.job)} \subseteq stirred
      BY <2>3, <2>5
    <2>8. ViewStep(PassView(p), PassView(p)', {}, stirred) /\ (p.kind = "tasks" => jobs'[p.job] # Nil)
      BY <2>1, <2>6, <2>7, ViewUnderRows
    <2>9. PICK p2 : p2 = pass'
      OBVIOUS
    <2>10. /\ DOMAIN p2 = PassFields /\ \A k \in PassFields \ {"steady", "moved"} : p2[k] = p[k]
           /\ p.state # "open" => p2 = p
           /\ p.state = "open" => p2.steady = p.steady \ stirred /\ p2.moved = p.moved \cup stirred
      <3>1. CASE p.state = "open" /\ p.kind = kind /\ Cares(p.field, p.filter)
        <4>1. p2 = [p EXCEPT !.steady = @ \ rows, !.moved = @ \cup rows] /\ stirred = rows
          BY <1>3, <2>3, <2>9, <3>1
        <4>2. QED
          BY <2>2, <3>1, <4>1 DEF PassFields
      <3>2. CASE ~(p.state = "open" /\ p.kind = kind /\ Cares(p.field, p.filter))
        <4>1. p2 = p /\ (p.state = "open" => stirred = {})
          BY <1>3, <2>3, <2>9, <3>2
        <4>2. QED
          BY <2>2, <4>1
      <3>3. QED
        BY <3>1, <3>2
    <2>11. p.state = "open" => /\ ViewStep(PassView(p), PassView(p)', {}, stirred)
                               /\ p2.steady \subseteq p.steady \ ({} \cup stirred)
                               /\ p.moved \cup stirred \subseteq p2.moved
      BY <2>8, <2>10
    <2>12. PassIs(p2)'
      BY <2>1, <2>8, <2>10, <2>11, PassKept
    <2>13. QED
      BY <2>9, <2>12 DEF PassSound
  <1>6. QED
    BY <1>4, <1>5

-----------------------------------------------------------------------------
(* The pages.                                                              *)

\* A pass that is about to ask for a page, in the order asc behind `after`.
Asking(p, asc, after) ==
  /\ DOMAIN p = PassFields /\ p.state = "open" /\ p.kind \in {"jobs", "tasks"}
  /\ p.limit \in Int /\ p.listed \in Seq(String)
  /\ p.kind = "tasks" => p.job \in JobIds /\ jobs[p.job] # Nil
  /\ NoTwice(p.listed, p.moved) /\ CursorTyped(p)
  /\ Before(p.listed, p.steady, p.moved, PassView(p), asc, after)

\* A read changes no view.
LEMMA ViewsStay ==
  ASSUME jobs' = jobs, deploy' = deploy, NEW p
  PROVE  PassView(p)' = PassView(p) /\ CursorAt(p)' = CursorAt(p)
  <1>1. PICK j, field, filter : j = p.job /\ field = p.field /\ filter = p.filter
    OBVIOUS
  <1>2. JobView(field, filter)' = JobView(field, filter)
    BY DEF JobView, Present, JobRow, JobMatches
  <1>3. Numbers(j)' = Numbers(j)
    BY DEF Numbers, On, Present, Resolve, TaskKey, ShardIndex, Tasks
  <1>4. TaskView(j, field, filter)' = TaskView(j, field, filter)
    BY <1>3 DEF TaskView
  <1>5. QED
    BY <1>1, <1>2, <1>4 DEF PassView, CursorAt

\* A page that failed ends the pass.
LEMMA PageFailed ==
  ASSUME jobs' = jobs, NEW p, NEW asc, NEW after, Asking(p, asc, after), NEW p2, p2 = [p EXCEPT !.state = "failed"]
  PROVE  PassIs(p2)'
  <1>1. DOMAIN p = PassFields /\ DOMAIN p2 = PassFields /\ p2.state = "failed"
        /\ \A k \in PassFields \ {"state"} : p2[k] = p[k]
    BY DEF Asking, PassFields
  <1>2. p2.kind = p.kind /\ p2.limit = p.limit /\ p2.listed = p.listed /\ p2.job = p.job /\ p2.moved = p.moved
        /\ p2.cursor = p.cursor
    BY <1>1 DEF PassFields
  <1>3. CursorTyped(p2)
    BY <1>2 DEF Asking, CursorTyped
  <1>4. QED
    BY <1>1, <1>2, <1>3 DEF Asking, PassIs

\* The cursor that goes with the page ids.
CursorFor(p, next, ids, v, asc) ==
  /\ next \in IF p.kind = "jobs" THEN JobCursor ELSE TaskCursor
  /\ next.sortField = p.field /\ next.sortAsc = asc
  /\ v.at[ids[Len(ids)]] = IF p.kind = "jobs" THEN JobPosition(p.field, next) ELSE TaskPosition(p.field, next)

\* What TakePage makes of a pass.
Turned(p, ids, next, more) ==
  [p EXCEPT !.listed = @ \o ids, !.cursor = next, !.state = IF more THEN "open" ELSE "done"]

\* A page that was answered takes the pass on, or ends it.
LEMMA PageTurned ==
  ASSUME StoreSound, jobs' = jobs, deploy' = deploy, NEW p, NEW asc, NEW after, Asking(p, asc, after),
         NEW v, v = PassView(p), NEW more \in BOOLEAN, NEW ids, ids \in Seq(String), NEW next,
         NEW B, B = Rest(v, asc, after), PageOf(ids, more, B, v.at, asc), more => CursorFor(p, next, ids, v, asc),
         ~more => next = Nil, NEW p2, p2 = Turned(p, ids, next, more)
  PROVE  PassIs(p2)'
  <1>a. B = {r \in v.hits : after = Nil \/ InOrder(asc, after, v.at[r])}
    BY DEF Rest
  <1>b. p2 = [p EXCEPT !.listed = @ \o ids, !.cursor = next, !.state = IF more THEN "open" ELSE "done"]
    BY DEF Turned
  <1>c. more => /\ next \in IF p.kind = "jobs" THEN JobCursor ELSE TaskCursor
                /\ next.sortField = p.field /\ next.sortAsc = asc
                /\ v.at[ids[Len(ids)]] = IF p.kind = "jobs" THEN JobPosition(p.field, next) ELSE TaskPosition(p.field, next)
    BY DEF CursorFor
  <1>1. /\ DOMAIN p = PassFields /\ p.kind \in {"jobs", "tasks"} /\ p.limit \in Int /\ p.listed \in Seq(String)
        /\ p.kind = "tasks" => p.job \in JobIds /\ jobs[p.job] # Nil
        /\ NoTwice(p.listed, p.moved)
    BY DEF Asking
  <1>2. PICK st : st = IF more THEN "open" ELSE "done"
    OBVIOUS
  <1>3. PICK all : all = p.listed \o ids
    OBVIOUS
  <1>4. p2 = [p EXCEPT !.listed = all, !.cursor = next, !.state = st]
    BY <1>b, <1>2, <1>3
  <1>5. /\ DOMAIN p2 = PassFields /\ p2.listed = all /\ p2.cursor = next /\ p2.state = st
        /\ p2.kind = p.kind /\ p2.job = p.job /\ p2.limit = p.limit /\ p2.filter = p.filter /\ p2.field = p.field
        /\ p2.steady = p.steady /\ p2.moved = p.moved
    BY <1>1, <1>4 DEF PassFields
  <1>6. ViewSound(v)
    BY <1>1, PassViewSound
  <1>7. Before(p.listed, p.steady, p.moved, v, asc, after)
    BY DEF Asking
  <1>8. /\ all \in Seq(String)
        /\ NoTwice(all, p.moved)
        /\ ~more => \A r \in p.steady : \E i \in DOMAIN all : all[i] = r
        /\ more => Reached(all, p.steady, p.moved, v, v.at[ids[Len(ids)]], asc)
    <2>1. Taken(all, p.steady, p.moved, v, v.at[ids[Len(ids)]], asc, more)
      BY <1>a, <1>1, <1>3, <1>6, <1>7, PageTaken, Zenon
    <2>2. QED
      BY <2>1 DEF Taken
  <1>9. ASSUME more PROVE OpenSound(p2)'
    <2>1. PassView(p2) = v
      BY <1>5 DEF PassView
    <2>2. CursorAt(p2) = v.at[ids[Len(ids)]]
      BY <1>c, <1>5, <1>9 DEF CursorAt
    <2>3. OpenSound(p2)
      BY <1>c, <1>5, <1>8, <1>9, <2>1, <2>2 DEF OpenSound
    <2>4. PassView(p2)' = PassView(p2) /\ CursorAt(p2)' = CursorAt(p2)
      BY ViewsStay
    <2>5. QED
      BY <2>3, <2>4 DEF OpenSound
  <1>10. st \in {"open", "done"} /\ (st = "open" <=> more)
    BY <1>2
  <1>11. /\ p2.state \in {"open", "done", "failed"} /\ p2.kind \in {"jobs", "tasks"}
         /\ p2.limit \in Int /\ p2.listed \in Seq(String)
         /\ p2.kind = "tasks" => p2.job \in JobIds /\ jobs'[p2.job] # Nil
         /\ NoTwice(p2.listed, p2.moved)
    BY <1>1, <1>5, <1>8, <1>10
  <1>12. /\ p2.state = "done" => \A r \in p2.steady : \E i \in DOMAIN p2.listed : p2.listed[i] = r
         /\ p2.state = "open" => OpenSound(p2)'
    BY <1>5, <1>8, <1>9, <1>10
  <1>13. CursorTyped(p2)
    BY <1>c, <1>5 DEF CursorTyped
  <1>14. QED
    BY <1>5, <1>11, <1>12, <1>13 DEF PassIs

\* A cursor stands for its row.
LEMMA JobCursorType ==
  ASSUME StoreSound, NEW j \in Present, NEW order, order.field \in {"created_at", "name", "status"}, order.asc \in BOOLEAN,
         NEW c, c = JobCursorAt(JobRow(j), order)
  PROVE  /\ c \in JobCursor /\ c.sortField = order.field /\ c.sortAsc = order.asc
         /\ JobPosition(order.field, c) = JobPosition(order.field, JobRow(j))
  <1>1. PICK r : r = JobRow(j)
    OBVIOUS
  <1>2. j \in JobIds /\ r.id = j /\ r.name \in String /\ r.createdAt \in Timestamp /\ r.status \in {"InProgress", "Completed"}
    BY <1>1, PresentRows
  <1>3. c = [id |-> r.id, name |-> r.name, status |-> r.status, createdAt |-> r.createdAt,
             sortField |-> order.field, sortAsc |-> order.asc]
    BY <1>1 DEF JobCursorAt
  <1>4. r.status \in TaskStatuses
    BY <1>2 DEF TaskStatuses
  <1>5. c \in JobCursor /\ c.sortField = order.field /\ c.sortAsc = order.asc
    BY <1>2, <1>3, <1>4 DEF JobCursor
  <1>6. c.id = r.id /\ c.name = r.name /\ c.status = r.status /\ c.createdAt = r.createdAt
    BY <1>3
  <1>7. JobPosition(order.field, c) = JobPosition(order.field, r)
    BY <1>6 DEF JobPosition
  <1>8. QED
    BY <1>1, <1>5, <1>7

\* The cursor of a task stands where the task does.
LEMMA TaskCursorType ==
  ASSUME NEW j \in JobIds, NEW r, RowSound(j, r), NEW n \in RowTasks(r), NEW t, t = RowTask(j, r, n), NEW order,
         order.field \in {"enqueued_at", "url", "status", "depth"}, order.asc \in BOOLEAN, NEW c, c = TaskCursorAt(t, order)
  PROVE  /\ c \in TaskCursor /\ c.sortField = order.field /\ c.sortAsc = order.asc
         /\ TaskPosition(order.field, c) = TaskPosition(order.field, t)
  <1>1. /\ t.id \in String /\ t.url \in String /\ t.status \in {"Parsed", "InProgress"} /\ t.enqueuedAt \in Timestamp
        /\ t.depth \in {0, 1}
    BY TaskColumns
  <1>2. t.status \in TaskStatuses
    BY <1>1 DEF TaskStatuses
  <1>3. t.depth \in Uint
    <2>1. MaxUint \in Nat \ {0}
      BY CodecAssumption
    <2>2. QED
      BY <1>1, <2>1 DEF Uint
  <1>4. c = [id |-> t.id, url |-> t.url, status |-> t.status, enqueuedAt |-> t.enqueuedAt, depth |-> t.depth,
             sortField |-> order.field, sortAsc |-> order.asc]
    BY DEF TaskCursorAt
  <1>5. c \in TaskCursor /\ c.sortField = order.field /\ c.sortAsc = order.asc
    BY <1>1, <1>2, <1>3, <1>4 DEF TaskCursor
  <1>6. c.id = t.id /\ c.url = t.url /\ c.status = t.status /\ c.enqueuedAt = t.enqueuedAt /\ c.depth = t.depth
    BY <1>4
  <1>7. TaskPosition(order.field, c) = TaskPosition(order.field, t)
    BY <1>6 DEF TaskPosition
  <1>8. QED
    BY <1>5, <1>7

\* A page of jobs keeps the invariant.
LEMMA JobsAsked ==
  ASSUME StoreSound, jobs' = jobs, deploy' = deploy, NEW p, p.kind = "jobs", NEW req, NEW order, order = JobOrder(req),
         req.limit = p.limit, req.filter = p.filter, order.field = p.field,
         order.field \in {"created_at", "name", "status"}, order.asc \in BOOLEAN,
         NEW after, after = JobsAfter(req, order),
         Asking(p, order.asc, after), NEW ids,
         NEW answer, answer = ListJobs(req),
         ids = (IF answer \in {Nil, Crash} THEN <<>> ELSE IdsOf(answer.jobs)),
         TakePage(p, answer, ids)
  PROVE  PassSound'
  <1>1. p.limit \in Int
    BY DEF Asking
  <1>2. PICK p2 : p2 = pass'
    OBVIOUS
  <1>3. CASE answer \in {Nil, Crash}
    <2>1. p2 = [p EXCEPT !.state = "failed"]
      BY <1>2, <1>3 DEF TakePage
    <2>2. PassIs(p2)'
      BY <2>1, PageFailed
    <2>3. QED
      BY <1>2, <2>2 DEF PassSound
  <1>4. CASE answer \notin {Nil, Crash}
    <2>1. PICK more, next : more = answer.hasMore /\ next = answer.nextCursor
      OBVIOUS
    <2>2. p2 = Turned(p, ids, next, more)
      BY <1>2, <1>4, <2>1 DEF TakePage, Turned
    <2>3. ids = IdsOf(answer.jobs)
      BY <1>4
    <2>4. PICK v : v = JobView(p.field, p.filter)
      OBVIOUS
    <2>5. v = JobView(order.field, req.filter) /\ v = PassView(p)
      BY <2>4 DEF PassView
    <2>6. PICK B : B = Rest(v, order.asc, after)
      OBVIOUS
    <2>7. /\ ids \in Seq(Present)
          /\ PageOf(ids, more, B, v.at, order.asc)
          /\ more \in BOOLEAN
          /\ more => next = JobCursorAt(JobRow(ids[Len(ids)]), order)
          /\ ~more => next = Nil
      <3>1. PICK limit \in Nat \ {0} : \E rows, page : JobsAnswered(answer, req, order, limit, rows, page)
        BY <1>1, <1>4, JobsAnswer, Zenon
      <3>2. PICK rows, page : JobsAnswered(answer, req, order, limit, rows, page)
        BY <3>1
      <3>3. JobsListed(ids, answer.hasMore, answer.nextCursor, order, v, B)
        BY <2>3, <2>5, <2>6, <3>2, JobsPage, Zenon
      <3>4. QED
        BY <2>1, <3>3 DEF JobsListed
    <2>8. ids \in Seq(String)
      <3>1. Present \subseteq String
        BY PresentRows
      <3>2. QED
        BY <2>7, <3>1
    <2>9. ASSUME more
          PROVE  next \in JobCursor /\ next.sortField = p.field /\ next.sortAsc = order.asc
                 /\ v.at[ids[Len(ids)]] = JobPosition(p.field, next)
      <3>1. Len(ids) \in DOMAIN ids
        BY <2>7, <2>9 DEF PageOf
      <3>2. PICK j : j = ids[Len(ids)] /\ j \in Present
        BY <2>7, <3>1
      <3>3. next = JobCursorAt(JobRow(j), order)
        BY <2>7, <2>9, <3>2
      <3>4. /\ next \in JobCursor /\ next.sortField = order.field /\ next.sortAsc = order.asc
            /\ JobPosition(order.field, next) = JobPosition(order.field, JobRow(j))
        BY <3>2, <3>3, JobCursorType
      <3>5. v.at[j] = JobPosition(p.field, JobRow(j))
        BY <2>4, <3>2 DEF JobView
      <3>6. QED
        BY <3>2, <3>4, <3>5
    <2>10. more => CursorFor(p, next, ids, v, order.asc)
      BY <2>9 DEF CursorFor
    <2>12. PassIs(p2)'
      <3>1. PICK asc : asc = order.asc
        OBVIOUS
      <3>2. Asking(p, asc, after) /\ B = Rest(v, asc, after)
        BY <2>6, <3>1
      <3>3. v = PassView(p)
        BY <2>5
      <3>4. more \in BOOLEAN /\ (~more => next = Nil)
        BY <2>7
      <3>5. PageOf(ids, more, B, v.at, asc)
        BY <2>7, <3>1
      <3>6. more => CursorFor(p, next, ids, v, asc)
        BY <2>10, <3>1
      <3>7. QED
        BY <2>2, <2>8, <3>2, <3>3, <3>4, <3>5, <3>6, PageTurned, ZenonT(60)
    <2>13. QED
      BY <1>2, <2>12 DEF PassSound
  <1>5. QED
    BY <1>3, <1>4

\* A page of tasks keeps the invariant.
LEMMA TasksAsked ==
  ASSUME StoreSound, jobs' = jobs, deploy' = deploy, NEW p, p.kind = "tasks", NEW req, NEW order, order = TaskOrder(req),
         req.jobId = p.job, req.limit = p.limit, req.filter = p.filter, order.field = p.field,
         order.field \in {"enqueued_at", "url", "status", "depth"}, order.asc \in BOOLEAN,
         NEW after, after = TasksAfter(req, order),
         Asking(p, order.asc, after), NEW ids,
         NEW answer, answer = ListTasksByJob(TaskKey(p.job), req),
         ids = (IF answer \in {Nil, Crash} THEN <<>> ELSE IdsOf(answer.tasks)),
         TakePage(p, answer, ids)
  PROVE  PassSound'
  <1>1. p.limit \in Int /\ p.job \in JobIds
    BY DEF Asking
  <1>2. PICK p2 : p2 = pass'
    OBVIOUS
  <1>3. CASE answer \in {Nil, Crash}
    <2>1. p2 = [p EXCEPT !.state = "failed"]
      BY <1>2, <1>3 DEF TakePage
    <2>2. PassIs(p2)'
      BY <2>1, PageFailed
    <2>3. QED
      BY <1>2, <2>2 DEF PassSound
  <1>4. CASE answer \notin {Nil, Crash}
    <2>1. PICK more, next, j : more = answer.hasMore /\ next = answer.nextCursor /\ j = p.job
      OBVIOUS
    <2>2. p2 = Turned(p, ids, next, more)
      BY <1>2, <1>4, <2>1 DEF TakePage, Turned
    <2>3. ids = IdsOf(answer.tasks)
      BY <1>4
    <2>4. PICK v : v = TaskView(j, p.field, p.filter)
      OBVIOUS
    <2>5. v = TaskView(j, order.field, req.filter) /\ v = PassView(p)
      BY <2>1, <2>4 DEF PassView
    <2>6. PICK B : B = Rest(v, order.asc, after)
      OBVIOUS
    <2>7. /\ ids \in Seq(v.now)
          /\ PageOf(ids, more, B, v.at, order.asc)
          /\ more \in BOOLEAN
          /\ more => \E n \in Numbers(j) : Task(j, n).id = ids[Len(ids)] /\ next = TaskCursorAt(Task(j, n), order)
          /\ ~more => next = Nil
      <3>1. TasksListed(j, ids, answer.hasMore, answer.nextCursor, order, v, B)
        BY <1>1, <1>4, <2>1, <2>3, <2>5, <2>6, TasksPage, Zenon
      <3>2. QED
        BY <2>1, <3>1 DEF TasksListed
    <2>8. ids \in Seq(String)
      <3>1. v.now = {RowTask(j, jobs[j], n).id : n \in Numbers(j)}
        BY <2>4 DEF TaskView, RowView
      <3>2. \A n \in Numbers(j) : RowTask(j, jobs[j], n).id \in String
        BY <1>1, <2>1, NumberFacts
      <3>3. v.now \subseteq String
        BY <3>1, <3>2
      <3>4. QED
        BY <2>7, <3>3
    <2>9. ASSUME more
          PROVE  next \in TaskCursor /\ next.sortField = p.field /\ next.sortAsc = order.asc
                 /\ v.at[ids[Len(ids)]] = TaskPosition(p.field, next)
      <3>1. PICK n \in Numbers(j) : Task(j, n).id = ids[Len(ids)] /\ next = TaskCursorAt(Task(j, n), order)
        BY <2>7, <2>9
      <3>2. PICK r : r = jobs[j]
        OBVIOUS
      <3>3. RowSound(j, r) /\ n \in RowTasks(r) /\ Task(j, n) = RowTask(j, r, n)
            /\ v.at[Task(j, n).id] = TaskPosition(p.field, Task(j, n))
        BY <1>1, <2>1, <2>4, <3>2, NumberFacts
      <3>4. PICK t : t = Task(j, n)
        OBVIOUS
      <3>5. /\ next \in TaskCursor /\ next.sortField = order.field /\ next.sortAsc = order.asc
            /\ TaskPosition(order.field, next) = TaskPosition(order.field, t)
        BY <1>1, <2>1, <3>1, <3>3, <3>4, TaskCursorType
      <3>6. QED
        BY <3>1, <3>3, <3>4, <3>5
    <2>10. more => CursorFor(p, next, ids, v, order.asc)
      BY <2>9 DEF CursorFor
    <2>11. PassIs(p2)'
      <3>1. PICK asc : asc = order.asc
        OBVIOUS
      <3>2. Asking(p, asc, after) /\ B = Rest(v, asc, after)
        BY <2>6, <3>1
      <3>3. v = PassView(p)
        BY <2>5
      <3>4. more \in BOOLEAN /\ (~more => next = Nil)
        BY <2>7
      <3>5. PageOf(ids, more, B, v.at, asc)
        BY <2>7, <3>1
      <3>6. more => CursorFor(p, next, ids, v, asc)
        BY <2>10, <3>1
      <3>7. QED
        BY <2>2, <2>8, <3>2, <3>3, <3>4, <3>5, <3>6, PageTurned, ZenonT(60)
    <2>12. QED
      BY <1>2, <2>11 DEF PassSound
  <1>5. QED
    BY <1>3, <1>4

\* The order of a first page.
LEMMA FirstOrders ==
  ASSUME NEW req, req.cursor = Nil
  PROVE  /\ JobOrder(req).field \in {"created_at", "name", "status"} /\ JobOrder(req).asc \in BOOLEAN
         /\ TaskOrder(req).field \in {"enqueued_at", "url", "status", "depth"} /\ TaskOrder(req).asc \in BOOLEAN
  <1>1. PICK f, o : f = req.sortField /\ o = req.sortOrder
    OBVIOUS
  <1>2. PICK a \in BOOLEAN : a = (o # "DESC")
    OBVIOUS
  <1>3. PICK b \in BOOLEAN : b = (o = "ASC")
    OBVIOUS
  <1>4. JobOrder(req) = CASE f = "NAME" -> [field |-> "name", asc |-> a]
                          [] f = "STATUS" -> [field |-> "status", asc |-> a]
                          [] OTHER -> [field |-> "created_at", asc |-> b]
    BY <1>1, <1>2, <1>3 DEF JobOrder
  <1>5. TaskOrder(req) = [field |-> CASE f = "URL" -> "url" [] f = "STATUS" -> "status"
                                      [] f = "DEPTH" -> "depth" [] OTHER -> "enqueued_at", asc |-> a]
    BY <1>1, <1>2 DEF TaskOrder
  <1>6. JobOrder(req).field \in {"created_at", "name", "status"} /\ JobOrder(req).asc \in BOOLEAN
    BY <1>4
  <1>7. TaskOrder(req).field \in {"enqueued_at", "url", "status", "depth"} /\ TaskOrder(req).asc \in BOOLEAN
    BY <1>5
  <1>8. QED
    BY <1>6, <1>7

\* A pass that begins.
LEMMA PassBegins ==
  ASSUME NEW kind \in {"jobs", "tasks"}, NEW j, NEW req, req.limit \in Int, NEW order, NEW rows,
         NEW p, p = NewPass(kind, j, req, order, rows), rows \subseteq PassView(p).hits
  PROVE  /\ p.kind = kind /\ p.job = j /\ p.limit = req.limit /\ p.filter = req.filter /\ p.field = order.field
         /\ kind = "jobs" \/ (j \in JobIds /\ jobs[j] # Nil) => Asking(p, order.asc, Nil)
  <1>1. /\ DOMAIN p = PassFields /\ p.state = "open" /\ p.kind = kind /\ p.job = j /\ p.limit = req.limit
        /\ p.filter = req.filter /\ p.field = order.field /\ p.listed = <<>> /\ p.steady = rows /\ p.moved = {}
        /\ p.cursor = Nil
    BY DEF NewPass, PassFields
  <1>2. <<>> \in Seq(String) /\ DOMAIN <<>> = {}
    OBVIOUS
  <1>3. NoTwice(p.listed, p.moved)
    BY <1>1, <1>2 DEF NoTwice
  <1>4. Before(p.listed, p.steady, p.moved, PassView(p), order.asc, Nil)
    BY <1>1 DEF Before
  <1>5. CursorTyped(p)
    BY <1>1 DEF CursorTyped
  <1>6. QED
    BY <1>1, <1>2, <1>3, <1>4, <1>5 DEF Asking

\* A pass that goes on.
LEMMA PassGoesOn ==
  ASSUME NEW p, PassIs(p), p.state = "open"
  PROVE  /\ Asking(p, p.cursor.sortAsc, CursorAt(p)) /\ p.cursor # Nil /\ p.limit \in Int
         /\ p.cursor \in IF p.kind = "jobs" THEN JobCursor ELSE TaskCursor
         /\ p.cursor.sortField = p.field
  <1>1. OpenSound(p)
    BY DEF PassIs
  <1>2. /\ p.cursor \in IF p.kind = "jobs" THEN JobCursor ELSE TaskCursor
        /\ p.cursor.sortField = p.field
        /\ Reached(p.listed, p.steady, p.moved, PassView(p), CursorAt(p), p.cursor.sortAsc)
    BY <1>1 DEF OpenSound
  <1>3. CursorAt(p) # Nil
    BY <1>2, NilAssumption DEF Reached, Positions
  <1>4. p.cursor # Nil
    BY <1>2, NilAssumption
  <1>5. Before(p.listed, p.steady, p.moved, PassView(p), p.cursor.sortAsc, CursorAt(p))
    BY <1>2, <1>3 DEF Before
  <1>6. Asking(p, p.cursor.sortAsc, CursorAt(p))
    BY <1>5 DEF Asking, PassIs
  <1>7. QED
    BY <1>2, <1>4, <1>6 DEF PassIs

\* What a step that asks for a page does to the pass.
LEMMA JobsAskedStep ==
  ASSUME NEW p, NEW req, AskJobs(p, req)
  PROVE  \E ids, answer : /\ jobs' = jobs /\ deploy' = deploy /\ answer = ListJobs(req)
                          /\ ids = (IF answer \in {Nil, Crash} THEN <<>> ELSE IdsOf(answer.jobs))
                          /\ TakePage(p, answer, ids)
  <1>1. PICK answer : answer = ListJobs(req)
    OBVIOUS
  <1>2. Mapped(LAMBDA j : j.id, answer.jobs) = IdsOf(answer.jobs)
    BY DEF Mapped, IdsOf
  <1>3. PICK ids : ids = (IF answer \in {Nil, Crash} THEN <<>> ELSE IdsOf(answer.jobs))
    OBVIOUS
  <1>4. TakePage(p, answer, ids)
    BY <1>1, <1>2, <1>3 DEF AskJobs
  <1>5. jobs' = jobs /\ deploy' = deploy
    BY DEF AskJobs, storeVars
  <1>6. QED
    BY <1>1, <1>3, <1>4, <1>5

\* The interceptor gives a listing of tasks the key of its job.
LEMMA TaskListKey ==
  ASSUME NEW req, "jobId" \in DOMAIN req, req.jobId \in JobIds
  PROVE  ShardKeyInterceptor(deploy.shards, "ListTasksByJob", req) = TaskKey(req.jobId)
  <1>1. req.jobId # ""
    BY StoreAssumption
  <1>2. QED
    BY <1>1 DEF ShardKeyInterceptor, TaskKey, isJobEndpoint

\* What a request for a page of tasks does.
LEMMA TasksAskedStep ==
  ASSUME NEW p, NEW req, "jobId" \in DOMAIN req, req.jobId \in JobIds, AskTasks(p, req)
  PROVE  \E ids, answer : /\ jobs' = jobs /\ deploy' = deploy /\ answer = ListTasksByJob(TaskKey(req.jobId), req)
                          /\ ids = (IF answer \in {Nil, Crash} THEN <<>> ELSE IdsOf(answer.tasks))
                          /\ TakePage(p, answer, ids)
  <1>0. ShardKey(Call("grpc", "ListTasksByJob", "READ", req, "")) = TaskKey(req.jobId)
    <2>1. ShardKeyInterceptor(deploy.shards, "ListTasksByJob", req) = TaskKey(req.jobId)
      BY TaskListKey
    <2>2. QED
      BY <2>1 DEF ShardKey, Call, Message
  <1>1. PICK answer : answer = ListTasksByJob(TaskKey(req.jobId), req)
    OBVIOUS
  <1>2. Mapped(LAMBDA t : t.id, answer.tasks) = IdsOf(answer.tasks)
    BY DEF Mapped, IdsOf
  <1>3. PICK ids : ids = (IF answer \in {Nil, Crash} THEN <<>> ELSE IdsOf(answer.tasks))
    OBVIOUS
  <1>4. TakePage(p, answer, ids)
    BY <1>0, <1>1, <1>2, <1>3 DEF AskTasks
  <1>5. jobs' = jobs /\ deploy' = deploy
    BY DEF AskTasks, storeVars
  <1>6. QED
    BY <1>1, <1>3, <1>4, <1>5

\* The four steps that take a page.
LEMMA FirstJobsKept ==
  ASSUME StoreSound, NEW req \in load.jobLists, FirstJobs(req)
  PROVE  PassSound'
  <1>1. req \in ListJobsRequest({})
    BY DEF StoreSound, LoadSound
  <1>2. req.limit \in Int /\ req.cursor = Nil
    BY <1>1 DEF ListJobsRequest, Opt
  <1>3. PICK order : order = JobOrder(req)
    OBVIOUS
  <1>4. order.field \in {"created_at", "name", "status"} /\ order.asc \in BOOLEAN
    BY <1>2, <1>3, FirstOrders
  <1>5. PICK rows : rows = {j \in Present : JobMatches(j, req.filter)}
    OBVIOUS
  <1>6. PICK p : p = NewPass("jobs", Nil, req, order, rows)
    OBVIOUS
  <1>7. AskJobs(p, req)
    BY <1>3, <1>5, <1>6 DEF FirstJobs
  <1>8. rows \subseteq PassView(p).hits
    BY <1>5, <1>6 DEF PassView, NewPass, JobView
  <1>9. /\ p.kind = "jobs" /\ p.limit = req.limit /\ p.filter = req.filter /\ p.field = order.field
        /\ Asking(p, order.asc, Nil)
    BY <1>2, <1>6, <1>8, PassBegins
  <1>10. JobsAfter(req, order) = Nil
    BY <1>2 DEF JobsAfter
  <1>11. PICK ids, answer : /\ jobs' = jobs /\ deploy' = deploy /\ answer = ListJobs(req)
                            /\ ids = (IF answer \in {Nil, Crash} THEN <<>> ELSE IdsOf(answer.jobs))
                            /\ TakePage(p, answer, ids)
    BY <1>7, JobsAskedStep
  <1>12. PICK after : after = Nil
    OBVIOUS
  <1>13. QED
    BY <1>3, <1>4, <1>9, <1>10, <1>11, <1>12, JobsAsked, Zenon

\* The next page of jobs.
LEMMA NextJobsKept ==
  ASSUME StoreSound, PassSound, NextJobs
  PROVE  PassSound'
  <1>1. PICK p : p = pass
    OBVIOUS
  <1>2. p.state = "open" /\ p.kind = "jobs"
    BY <1>1 DEF NextJobs
  <1>3. PassIs(p)
    BY <1>1, <1>2 DEF PassSound, Idle
  <1>4. /\ Asking(p, p.cursor.sortAsc, CursorAt(p)) /\ p.cursor # Nil /\ p.limit \in Int
        /\ p.cursor \in JobCursor /\ p.cursor.sortField = p.field
    BY <1>2, <1>3, PassGoesOn
  <1>5. PICK req : req = [cursor |-> p.cursor, limit |-> p.limit, filter |-> p.filter,
                          sortField |-> "UNSPECIFIED", sortOrder |-> "UNSPECIFIED"]
    OBVIOUS
  <1>6. AskJobs(p, req)
    BY <1>1, <1>5 DEF NextJobs
  <1>7. req.cursor = p.cursor /\ req.limit = p.limit /\ req.filter = p.filter
    BY <1>5
  <1>8. PICK order : order = JobOrder(req)
    OBVIOUS
  <1>9. order.field = p.field /\ order.asc = p.cursor.sortAsc
    BY <1>4, <1>7, <1>8 DEF JobOrder
  <1>10. order.field \in {"created_at", "name", "status"} /\ order.asc \in BOOLEAN
    BY <1>4, <1>9 DEF JobCursor
  <1>11. PICK after : after = CursorAt(p)
    OBVIOUS
  <1>12. after = JobsAfter(req, order)
    BY <1>2, <1>4, <1>7, <1>9, <1>11 DEF JobsAfter, CursorAt
  <1>13. Asking(p, order.asc, after)
    BY <1>4, <1>9, <1>11
  <1>14. PICK ids, answer : /\ jobs' = jobs /\ deploy' = deploy /\ answer = ListJobs(req)
                            /\ ids = (IF answer \in {Nil, Crash} THEN <<>> ELSE IdsOf(answer.jobs))
                            /\ TakePage(p, answer, ids)
    BY <1>6, JobsAskedStep
  <1>15. QED
    BY <1>2, <1>7, <1>8, <1>9, <1>10, <1>12, <1>13, <1>14, JobsAsked, Zenon

\* The first page of the tasks of a job.
LEMMA TasksBegin ==
  ASSUME StoreSound, NEW j \in JobIds, NEW req, req.limit \in Int, req.cursor = Nil, req.jobId = j, "jobId" \in DOMAIN req,
         FirstTasks(req)
  PROVE  PassSound'
  <1>2. req.limit \in Int /\ req.cursor = Nil /\ req.jobId = j /\ "jobId" \in DOMAIN req
    OBVIOUS
  <1>3. PICK order : order = TaskOrder(req)
    OBVIOUS
  <1>4. order.field \in {"enqueued_at", "url", "status", "depth"} /\ order.asc \in BOOLEAN
    BY <1>2, <1>3, FirstOrders
  <1>5. PICK key : key = ShardKeyInterceptor(deploy.shards, "ListTasksByJob", req)
    OBVIOUS
  <1>6. PICK seen : seen = {Task(j, n) : n \in UNION {Tasks(i) : i \in {j} \cap On(Resolve(key))}}
    OBVIOUS
  <1>7. PICK rows : rows = {t.id : t \in {t \in seen : TaskMatches(t, req.filter)}}
    OBVIOUS
  <1>8. PICK p : p = NewPass("tasks", j, req, order, rows)
    OBVIOUS
  <1>9. AskTasks(p, req) /\ jobs[j] # Nil
    BY <1>2, <1>3, <1>5, <1>6, <1>7, <1>8 DEF FirstTasks
  <1>10. key = TaskKey(j)
    BY <1>2, <1>5, TaskListKey
  <1>11. seen = {Task(j, n) : n \in Numbers(j)}
    BY <1>6, <1>10 DEF Numbers
  <1>12. PICK v : v = TaskView(j, order.field, req.filter)
    OBVIOUS
  <1>13. rows \subseteq v.hits
    <2>1. \A n \in Numbers(j) : Task(j, n).id \in v.hits <=> TaskMatches(Task(j, n), req.filter)
      BY <1>12, NumberFacts
    <2>2. QED
      BY <1>7, <1>11, <2>1
  <1>14. PassView(p) = v
    BY <1>8, <1>12 DEF PassView, NewPass
  <1>15. /\ p.kind = "tasks" /\ p.job = j /\ p.limit = req.limit /\ p.filter = req.filter /\ p.field = order.field
         /\ Asking(p, order.asc, Nil)
    <2>1. rows \subseteq PassView(p).hits
      BY <1>13, <1>14
    <2>2. /\ p.kind = "tasks" /\ p.job = j /\ p.limit = req.limit /\ p.filter = req.filter /\ p.field = order.field
          /\ "tasks" = "jobs" \/ (j \in JobIds /\ jobs[j] # Nil) => Asking(p, order.asc, Nil)
      BY <1>2, <1>8, <2>1, PassBegins
    <2>3. QED
      BY <1>9, <2>2
  <1>16. PICK after : after = Nil
    OBVIOUS
  <1>17. after = TasksAfter(req, order)
    BY <1>2, <1>16 DEF TasksAfter
  <1>18. PICK ids, answer : /\ jobs' = jobs /\ deploy' = deploy /\ answer = ListTasksByJob(TaskKey(j), req)
                            /\ ids = (IF answer \in {Nil, Crash} THEN <<>> ELSE IdsOf(answer.tasks))
                            /\ TakePage(p, answer, ids)
    BY <1>2, <1>9, TasksAskedStep
  <1>19. QED
    BY <1>2, <1>3, <1>4, <1>15, <1>16, <1>17, <1>18, TasksAsked, Zenon

\* The same, for a request of the workload.
LEMMA FirstTasksKept ==
  ASSUME StoreSound, NEW asked \in load.taskLists, NEW j \in JobIds, FirstTasks([asked EXCEPT !.jobId = j])
  PROVE  PassSound'
  <1>1. asked \in ListTasksByJobRequest({})
    BY DEF StoreSound, LoadSound
  <1>2. PICK req : req = [asked EXCEPT !.jobId = j]
    OBVIOUS
  <1>3. req.limit \in Int /\ req.cursor = Nil /\ req.jobId = j /\ "jobId" \in DOMAIN req
    BY <1>1, <1>2 DEF ListTasksByJobRequest, Opt
  <1>4. FirstTasks(req)
    BY <1>2
  <1>5. QED
    BY <1>3, <1>4, TasksBegin, Zenon

\* The next page of tasks.
LEMMA NextTasksKept ==
  ASSUME StoreSound, PassSound, NextTasks
  PROVE  PassSound'
  <1>1. PICK p : p = pass
    OBVIOUS
  <1>2. p.state = "open" /\ p.kind = "tasks"
    BY <1>1 DEF NextTasks
  <1>3. PassIs(p)
    BY <1>1, <1>2 DEF PassSound, Idle
  <1>4. /\ Asking(p, p.cursor.sortAsc, CursorAt(p)) /\ p.cursor # Nil /\ p.limit \in Int
        /\ p.cursor \in TaskCursor /\ p.cursor.sortField = p.field
    BY <1>2, <1>3, PassGoesOn
  <1>5. PICK req : req = [jobId |-> p.job, cursor |-> p.cursor, limit |-> p.limit, filter |-> p.filter,
                          sortField |-> "UNSPECIFIED", sortOrder |-> "UNSPECIFIED"]
    OBVIOUS
  <1>6. AskTasks(p, req)
    BY <1>1, <1>5 DEF NextTasks
  <1>7. req.cursor = p.cursor /\ req.limit = p.limit /\ req.filter = p.filter /\ req.jobId = p.job
        /\ "jobId" \in DOMAIN req /\ p.job \in JobIds
    BY <1>2, <1>3, <1>5 DEF PassIs
  <1>8. PICK order : order = TaskOrder(req)
    OBVIOUS
  <1>9. order.field = p.field /\ order.asc = p.cursor.sortAsc
    BY <1>4, <1>7, <1>8 DEF TaskOrder
  <1>10. order.field \in {"enqueued_at", "url", "status", "depth"} /\ order.asc \in BOOLEAN
    BY <1>4, <1>9 DEF TaskCursor
  <1>11. PICK after : after = CursorAt(p)
    OBVIOUS
  <1>12. after = TasksAfter(req, order)
    BY <1>2, <1>4, <1>7, <1>9, <1>11 DEF TasksAfter, CursorAt
  <1>13. Asking(p, order.asc, after)
    BY <1>4, <1>9, <1>11
  <1>14. PICK ids, answer : /\ jobs' = jobs /\ deploy' = deploy /\ answer = ListTasksByJob(TaskKey(p.job), req)
                            /\ ids = (IF answer \in {Nil, Crash} THEN <<>> ELSE IdsOf(answer.tasks))
                            /\ TakePage(p, answer, ids)
    BY <1>6, <1>7, TasksAskedStep
  <1>15. QED
    BY <1>2, <1>7, <1>8, <1>9, <1>10, <1>12, <1>13, <1>14, TasksAsked, Zenon

\* A step that touches neither the table nor the pass.
LEMMA PassUnderNothing ==
  ASSUME StoreSound, StoreSound', deploy' = deploy, PassSound, pass' = pass, jobs' = jobs
  PROVE  PassSound'
  <1>1. RowsStep
    BY SameRows
  <1>2. QED
    BY <1>1, PassUnderQuiet

\* The workers during a pass.
LEMMA PassUnderWorkers ==
  ASSUME StoreSound, StoreSound', deploy' = deploy, PassSound,
         \/ \E d \in JobIds : WorkerFinds(d) \/ WorkerCompletes(d)
         \/ \E done, failed \in SUBSET JobIds : ExportBatch(done, failed)
  PROVE  PassSound'
  <1>1. ASSUME NEW d \in JobIds, WorkerFinds(d) PROVE PassSound'
    <2>1. RowsStep /\ \A j \in Present : jobs'[j].job = jobs[j].job /\ jobs'[j].worked = jobs[j].worked
      BY <1>1, FindChangesRow
    <2>2. pass' = pass
      BY <1>1 DEF WorkerFinds
    <2>3. \A j \in Present : jobs'[j].job.status = jobs[j].job.status /\ jobs'[j].worked = jobs[j].worked
      BY <2>1
    <2>4. QED
      BY <2>1, <2>2, <2>3, PassUnderQuiet
  <1>2. ASSUME NEW d \in JobIds, WorkerCompletes(d) PROVE PassSound'
    <2>1. /\ RowsStep /\ d \in Present
          /\ \A j \in Present : jobs'[j].job = jobs[j].job /\ (j # d => jobs'[j].worked = jobs[j].worked)
      BY <1>2, CompleteChangesRow
    <2>2. PICK kind, js : kind = "tasks" /\ js = {d}
      OBVIOUS
    <2>3. PassSeesProgress(kind, js) /\ kind \in {"jobs", "tasks"} /\ js \in SUBSET Present
      BY <1>2, <2>1, <2>2 DEF WorkerCompletes
    <2>4. \A j \in Present : /\ jobs'[j].job.status = jobs[j].job.status \/ (kind = "jobs" /\ j \in js)
                             /\ jobs'[j].worked = jobs[j].worked \/ (kind = "tasks" /\ j \in js)
      BY <2>1, <2>2
    <2>5. QED
      BY <2>1, <2>3, <2>4, PassUnderProgress
  <1>3. ASSUME NEW done \in SUBSET JobIds, NEW failed \in SUBSET JobIds, ExportBatch(done, failed) PROVE PassSound'
    <2>1. /\ RowsStep /\ done \subseteq Present
          /\ \A j \in Present : /\ jobs'[j].worked = jobs[j].worked
                                /\ j \notin done => jobs'[j].job.status = jobs[j].job.status
      BY <1>3, ExportChangesRows
    <2>2. PICK kind : kind = "jobs"
      OBVIOUS
    <2>3. PassSeesProgress(kind, done) /\ kind \in {"jobs", "tasks"} /\ done \in SUBSET Present
      BY <1>3, <2>1, <2>2 DEF ExportBatch, UpdateJob
    <2>4. \A j \in Present : /\ jobs'[j].job.status = jobs[j].job.status \/ (kind = "jobs" /\ j \in done)
                             /\ jobs'[j].worked = jobs[j].worked \/ (kind = "tasks" /\ j \in done)
      BY <2>1, <2>2
    <2>5. QED
      BY <2>1, <2>3, <2>4, PassUnderProgress
  <1>4. QED
    BY <1>1, <1>2, <1>3

\* Every step keeps the invariant of a pass.
LEMMA PassSoundKept ==
  ASSUME StoreSound, StoreSound', PassSound, [ApiNext]_apiVars
  PROVE  PassSound'
  <1>1. deploy' = deploy
    BY ListsKept DEF StoreSound
  <1>2. ASSUME pass' = pass, jobs' = jobs PROVE PassSound'
    BY <1>1, <1>2, PassUnderNothing
  <1>3. CASE UNCHANGED apiVars
    BY <1>2, <1>3 DEF apiVars, storeVars
  <1>4. CASE PureCall
    BY <1>2, <1>4 DEF PureCall, storeVars
  <1>5. ASSUME NEW door \in Doors, NEW caller \in Callers, NEW s \in load.submissions, CreateJob(door, caller, s)
        PROVE  PassSound'
    <2>1. JobCreated
      BY <1>5, CreateMakesRow
    <2>2. pass' = pass
      BY <1>5 DEF CreateJob, CreateCrawlJob
    <2>3. QED
      BY <1>1, <2>1, <2>2, PassUnderCreate
  <1>6. ASSUME NEW door \in Doors, NEW caller \in Callers, NEW j \in JobIds, DeleteJob(door, caller, j)
        PROVE  PassSound'
    <2>1. PICK d \in Present : jobs' = [jobs EXCEPT ![d] = Gone] /\ PassSeesDeletion(d)
      BY <1>6, DeleteRemovesRow
    <2>2. QED
      BY <1>1, <2>1, PassUnderDelete
  <1>7. CASE \/ \E d \in JobIds : WorkerFinds(d) \/ WorkerCompletes(d)
             \/ \E done, failed \in SUBSET JobIds : ExportBatch(done, failed)
    BY <1>1, <1>7, PassUnderWorkers
  <1>8. CASE Tick
    BY <1>2, <1>8 DEF Tick
  <1>9. ASSUME NEW req \in load.jobLists, FirstJobs(req) PROVE PassSound'
    BY <1>9, FirstJobsKept
  <1>10. ASSUME NEW req \in load.taskLists, NEW j \in JobIds, FirstTasks([req EXCEPT !.jobId = j]) PROVE PassSound'
    BY <1>10, FirstTasksKept
  <1>11. CASE NextJobs
    BY <1>11, NextJobsKept
  <1>12. CASE NextTasks
    BY <1>12, NextTasksKept
  <1>13. ASSUME NEW door \in Doors, NEW j \in JobIds, CountStatuses(door, j) PROVE PassSound'
    BY <1>2, <1>13 DEF CountStatuses, storeVars
  <1>14. CASE CountDepths
    BY <1>2, <1>14 DEF CountDepths, storeVars
  <1>15. ASSUME NEW door \in Doors, NEW p \in PreviewIds, NEW url \in {"/a", "/link"}, NEW final \in {"/a", "/link"},
                NEW outcome \in PreviewOutcomes, CreatePreview(door, p, url, final, outcome)
         PROVE  PassSound'
    BY <1>2, <1>15 DEF CreatePreview, PreviewTx, storeVars
  <1>16. QED
    BY <1>3, <1>4, <1>5, <1>6, <1>7, <1>8, <1>9, <1>10, <1>11, <1>12, <1>13, <1>14, <1>15 DEF ApiNext

\* The invariant implies the property.
LEMMA PassExact == PassSound => PassIsExact
  <1> SUFFICES ASSUME PassSound, pass # Idle PROVE PassIsExact
    BY DEF PassIsExact
  <1>1. PICK p : p = pass /\ PassIs(p)
    BY DEF PassSound
  <1>2. PICK L : L = p.listed
    OBVIOUS
  <1>3. NoTwice(L, p.moved) /\ (p.state = "done" => \A r \in p.steady : \E i \in DOMAIN L : L[i] = r)
    BY <1>1, <1>2 DEF PassIs
  <1>4. Range(L) = {L[i] : i \in DOMAIN L}
    BY DEF Range
  <1>5. ASSUME NEW r \in Range(L), r \notin p.moved
        PROVE  Cardinality({i \in DOMAIN L : L[i] = r}) = 1
    <2>1. PICK k \in DOMAIN L : L[k] = r
      BY <1>4
    <2>2. {i \in DOMAIN L : L[i] = r} = {k}
      BY <1>3, <1>5, <2>1 DEF NoTwice
    <2>3. QED
      BY <2>2, FS_Singleton
  <1>6. p.state = "done" => p.steady \subseteq Range(L)
    BY <1>3, <1>4
  <1>7. QED
    BY <1>1, <1>2, <1>5, <1>6 DEF PassIsExact

\* ListWithCursor of both repositories, for every table, every order, filter
\* and limit, and every change of the table between two pages.
THEOREM PassesAreExact == ApiSpec => []PassIsExact
  <1>1. ApiInit => StoreSound /\ PassSound
    BY StoreInit DEF ApiInit, PassSound
  <1>2. StoreSound /\ PassSound /\ [ApiNext]_apiVars => (StoreSound /\ PassSound)'
    <2> SUFFICES ASSUME StoreSound, PassSound, [ApiNext]_apiVars PROVE StoreSound' /\ PassSound'
      OBVIOUS
    <2>1. StoreSound'
      BY StoreKept
    <2>2. QED
      BY <2>1, PassSoundKept
  <1>3. PassSound => PassIsExact
    BY PassExact
  <1>4. QED
    BY <1>1, <1>2, <1>3, PTL DEF ApiSpec

-----------------------------------------------------------------------------
(* Lookups of tasks.                                                       *)

\* The columns of a job that the join of GetTask reads.
JoinedColumns == {"id", "jobConfigId", "status", "createdAt", "completedAt"}

\* The job as the join brings it.
JoinedRow(b) == [k \in DOMAIN b |-> IF k \in JoinedColumns THEN b[k] ELSE Nil]

\* A job read through the join agrees with its row on those columns.
LEMMA JoinedJob ==
  ASSUME NEW b \in JobModel, NEW q, q = RestoreCrawlJobFromSnapshot(JoinedRow(b))
  PROVE  q \in JobModel /\ \A k \in JoinedColumns : q[k] = b[k]
  <1>1. DOMAIN b = {"id", "jobConfigId", "userId", "name", "status", "createdAt", "completedAt", "exportJSONKey",
                    "exportCSVKey", "exportedAt", "exportStatus"}
    BY DEF JobModel
  <1>2. PICK z : z = JoinedRow(b)
    OBVIOUS
  <1>3. /\ DOMAIN z = DOMAIN b /\ z = [k \in DOMAIN b |-> z[k]]
        /\ \A k \in JoinedColumns : z[k] = b[k]
        /\ z.userId = Nil /\ z.name = Nil /\ z.exportJSONKey = Nil /\ z.exportCSVKey = Nil /\ z.exportedAt = Nil
        /\ z.exportStatus = Nil
    BY <1>1, <1>2 DEF JoinedRow, JoinedColumns
  <1>4. /\ b.id \in String /\ b.jobConfigId \in String /\ b.status \in String /\ b.createdAt \in Timestamp
        /\ b.completedAt \in Opt(Timestamp)
    BY DEF JobModel
  <1>5. NotNull(z.jobConfigId) = b.jobConfigId /\ NotNull(z.userId) = ""
    <2>1. b.jobConfigId # Nil /\ z.jobConfigId = b.jobConfigId
      BY <1>3, <1>4, NilAssumption DEF JoinedColumns
    <2>2. QED
      BY <1>3, <2>1, Zenon DEF NotNull
  <1>6. PICK c, u : c = NotNull(z.jobConfigId) /\ u = NotNull(z.userId)
    OBVIOUS
  <1>7. q = [z EXCEPT !.jobConfigId = c, !.userId = u, !.exportStatus = "NOT_STARTED"]
    BY <1>2, <1>3, <1>6 DEF RestoreCrawlJobFromSnapshot
  <1>8. /\ q = [k \in DOMAIN b |-> q[k]]
        /\ \A k \in JoinedColumns : q[k] = b[k]
        /\ q.userId = "" /\ q.name = Nil /\ q.exportJSONKey = Nil /\ q.exportCSVKey = Nil /\ q.exportedAt = Nil
        /\ q.exportStatus = "NOT_STARTED"
    <2>1. q = [k \in DOMAIN b |-> q[k]]
      BY <1>3, <1>7
    <2>2. \A k \in DOMAIN b \ {"jobConfigId", "userId", "exportStatus"} : q[k] = z[k]
      BY <1>3, <1>7
    <2>3. q.jobConfigId = c /\ q.userId = u /\ q.exportStatus = "NOT_STARTED"
      BY <1>1, <1>3, <1>7
    <2>4. \A k \in JoinedColumns \ {"jobConfigId"} : q[k] = b[k]
      BY <1>1, <1>3, <2>2 DEF JoinedColumns
    <2>5. QED
      BY <1>1, <1>3, <1>5, <1>6, <2>1, <2>2, <2>3, <2>4
  <1>9. "" \in String /\ "NOT_STARTED" \in String /\ Nil \in Opt(String) /\ Nil \in Opt(Timestamp)
    BY CodecAssumption, ApiAssumption DEF Opt
  <1>10. q \in JobModel
    BY <1>1, <1>4, <1>8, <1>9 DEF JobModel, JoinedColumns
  <1>11. QED
    BY <1>8, <1>10

\* A task's row is a task.
LEMMA TaskIsModel ==
  ASSUME NEW j \in JobIds, NEW r, RowSound(j, r), NEW n \in RowTasks(r), NEW t, t = RowTask(j, r, n)
  PROVE  t \in TaskModel
  <1>1. /\ t.id \in String /\ t.url \in String /\ t.status \in String /\ t.enqueuedAt \in Timestamp
        /\ t.depth \in {0, 1}
    BY TaskColumns
  <1>2. t.depth \in Uint
    <2>1. MaxUint \in Nat \ {0}
      BY CodecAssumption
    <2>2. QED
      BY <1>1, <2>1 DEF Uint
  <1>3. j \in String /\ "" \in String /\ "page" \in String /\ "result" \in String /\ Nil \in Opt(String)
    BY StoreAssumption, CodecAssumption, ApiAssumption DEF Opt
  <1>4. PICK w : w = r.worked
    OBVIOUS
  <1>5. PICK m, res : m = (IF w THEN "page" ELSE "") /\ res = (IF w THEN "result" ELSE Nil)
    OBVIOUS
  <1>6. m \in String /\ res \in Opt(String)
    BY <1>3, <1>5, Zenon DEF Opt
  <1>7. t = [id |-> t.id, jobId |-> j, url |-> t.url, finalURL |-> Nil, status |-> t.status, enqueuedAt |-> t.enqueuedAt,
             depth |-> t.depth, minioObjectKey |-> m, resultObjectKey |-> res, errorMessage |-> Nil]
    BY <1>4, <1>5 DEF RowTask
  <1>8. PICK i, u, s, e, d : i = t.id /\ u = t.url /\ s = t.status /\ e = t.enqueuedAt /\ d = t.depth
    OBVIOUS
  <1>9. [id |-> i, jobId |-> j, url |-> u, finalURL |-> Nil, status |-> s, enqueuedAt |-> e, depth |-> d,
         minioObjectKey |-> m, resultObjectKey |-> res, errorMessage |-> Nil] \in TaskModel
    BY <1>1, <1>2, <1>3, <1>6, <1>8 DEF TaskModel
  <1>10. QED
    BY <1>7, <1>8, <1>9

\* The id of a task names its row.
LEMMA TaskNamesRow ==
  ASSUME NEW i \in JobIds, NEW j \in JobIds, NEW q, RowSound(i, q), NEW r, RowSound(j, r),
         NEW m \in RowTasks(q), NEW n \in RowTasks(r), RowTask(i, q, m).id = RowTask(j, r, n).id
  PROVE  i = j
  <1>1. ASSUME NEW k \in JobIds, NEW s, RowSound(k, s), NEW o \in RowTasks(s)
        PROVE  \E x \in DOMAIN TaskIds[k] : RowTask(k, s, o).id = TaskIds[k][x]
    <2>1. PICK L \in Nat, T \in Nat : L = Len(s.config.seeds) /\ T = Len(TaskIds[k]) /\ L < T
             /\ DOMAIN TaskIds[k] = 1 .. T /\ RowTasks(s) \subseteq 1 .. (L + 1)
      BY <1>1, RowLengths
    <2>2. o \in 1 .. (L + 1) /\ (IF o <= L THEN o ELSE T) \in 1 .. T
      BY <2>1
    <2>3. RowTask(k, s, o).id = TaskIds[k][IF o <= L THEN o ELSE T]
      BY <2>1 DEF RowTask
    <2>4. QED
      BY <2>1, <2>2, <2>3
  <1>2. PICK x \in DOMAIN TaskIds[i], y \in DOMAIN TaskIds[j] : TaskIds[i][x] = TaskIds[j][y]
    BY <1>1
  <1>3. QED
    BY <1>2, StoreAssumption

\* GetTask finds a task on the shard of its job, and only that one.
LEMMA TaskFound ==
  ASSUME StoreSound, NEW key, NEW j \in On(Resolve(key)), NEW n \in Tasks(j), NEW id, id = Task(j, n).id
  PROVE  GetTask(key, id) = [task |-> Task(j, n), job |-> RestoreCrawlJobFromSnapshot(JoinedRow(jobs[j].job))]
  <1>1. PICK S : S = On(Resolve(key))
    OBVIOUS
  <1>2. \A i \in S : i \in JobIds /\ RowSound(i, jobs[i])
    BY <1>1, PresentRows DEF On
  <1>3. \A i : Tasks(i) = RowTasks(jobs[i]) /\ \A m : Task(i, m) = RowTask(i, jobs[i], m)
    BY TasksOfRow
  <1>4. ASSUME NEW i \in S, NEW m \in Tasks(i), Task(i, m).id = id
        PROVE  i = j /\ m = n
    <2>1. i = j
      BY <1>1, <1>2, <1>3, <1>4, TaskNamesRow
    <2>2. m = n
      BY <1>1, <1>2, <1>3, <1>4, <2>1, TaskColumns
    <2>3. QED
      BY <2>1, <2>2
  <1>5. PICK rows : rows = UNION {{<<i, m>> : m \in {m \in Tasks(i) : Task(i, m).id = id}} : i \in S}
    OBVIOUS
  <1>6. rows = {<<j, n>>}
    <2>1. <<j, n>> \in rows
      BY <1>1, <1>5
    <2>2. ASSUME NEW x \in rows PROVE x = <<j, n>>
      <3>1. PICK i \in S : x \in {<<i, m>> : m \in {m \in Tasks(i) : Task(i, m).id = id}}
        BY <1>5
      <3>2. PICK m \in Tasks(i) : x = <<i, m>> /\ Task(i, m).id = id
        BY <3>1
      <3>3. QED
        BY <1>4, <3>2
    <2>3. QED
      BY <2>1, <2>2
  <1>7. PICK row : row = CHOOSE x \in rows : TRUE
    OBVIOUS
  <1>8. row = <<j, n>> /\ rows # {}
    BY <1>6, <1>7
  <1>9. row[1] = j /\ row[2] = n
    BY <1>8
  <1>10. GetTask(key, id) =
           [task |-> Task(row[1], row[2]),
            job |-> RestoreCrawlJobFromSnapshot(
                      [k \in DOMAIN jobs[row[1]].job |->
                         IF k \in {"id", "jobConfigId", "status", "createdAt", "completedAt"} THEN jobs[row[1]].job[k] ELSE Nil])]
    BY <1>1, <1>5, <1>7, <1>8, Zenon DEF GetTask, RestoreCrawlTaskWithJobFromSnapshot
  <1>11. QED
    BY <1>9, <1>10 DEF JoinedRow, JoinedColumns

\* What the client reads of a task.
LEMMA TaskRead ==
  ASSUME StoreSound, NEW key, NEW j \in On(Resolve(key)), NEW n \in Tasks(j), NEW id, id = Task(j, n).id
  PROVE  \E q \in JobModel : /\ \A k \in JoinedColumns : q[k] = jobs[j].job[k]
                             /\ GetTask(key, id) = [task |-> Task(j, n), job |-> q] /\ GetTask(key, id) # Nil
                             /\ Task(j, n) \in TaskModel
                             /\ GetTaskHandler(key, id) = [task |-> ToProtoCrawlTask(Task(j, n), ToProtoCrawlJob(q, Nil))]
                             /\ GetTaskHandler(key, id) \in GetTaskResponse /\ GetTaskHandler(key, id) # Nil
  <1>1. PICK q : q = RestoreCrawlJobFromSnapshot(JoinedRow(jobs[j].job))
    OBVIOUS
  <1>2. j \in JobIds /\ RowSound(j, jobs[j])
    BY PresentRows DEF On
  <1>3. q \in JobModel /\ \A k \in JoinedColumns : q[k] = jobs[j].job[k]
    <2>1. jobs[j].job \in JobModel
      BY <1>2 DEF RowSound, StoredJob
    <2>2. QED
      BY <1>1, <2>1, JoinedJob
  <1>4. PICK t : t = Task(j, n)
    OBVIOUS
  <1>5. t \in TaskModel
    <2>1. n \in RowTasks(jobs[j]) /\ t = RowTask(j, jobs[j], n)
      BY <1>4, TasksOfRow
    <2>2. QED
      BY <1>2, <2>1, TaskIsModel
  <1>6. GetTask(key, id) = [task |-> t, job |-> q]
    BY <1>1, <1>4, TaskFound
  <1>7. [task |-> t, job |-> q] # Nil
    <2>1. [task |-> t, job |-> q] \in [task : TaskModel, job : JobModel]
      BY <1>3, <1>5
    <2>2. QED
      BY <2>1, NilAssumption
  <1>8. PICK c : c = ToProtoCrawlJob(q, Nil)
    OBVIOUS
  <1>9. c \in CrawlJob
    BY <1>3, <1>8, JobTyped DEF Opt
  <1>10. GetTaskHandler(key, id) = [task |-> ToProtoCrawlTask(t, c)]
    <2>1. PICK row : row = [task |-> t, job |-> q]
      OBVIOUS
    <2>2. GetTask(key, id) = row /\ row # Nil /\ row.task = t /\ row.job = q
      BY <1>6, <1>7, <2>1
    <2>3. QED
      BY <1>8, <2>2 DEF GetTaskHandler
  <1>11. ToProtoCrawlTask(t, c) \in CrawlTask
    BY <1>5, <1>9 DEF TaskModel, CrawlTask, ToProtoCrawlTask, Opt
  <1>12. GetTaskHandler(key, id) \in GetTaskResponse
    BY <1>10, <1>11 DEF GetTaskResponse, Opt
  <1>13. GetTaskHandler(key, id) # Nil
    BY <1>12, NilAssumption
  <1>14. QED
    BY <1>3, <1>4, <1>5, <1>6, <1>7, <1>8, <1>10, <1>12, <1>13

\* GetJob from every shard.
LEMMA JobReadFrom ==
  ASSUME StoreSound, NEW j \in Present, Readable(jobs[j].config), NEW key
  PROVE  /\ GetJobHandler(Nil, j) # Nil /\ GetJobHandler(Nil, j).job = ToProtoCrawlJob(jobs[j].job, jobs[j].config)
         /\ RestoreCrawlJobFromSnapshot(jobs[j].job) = jobs[j].job
         /\ RestoreCrawlJobConfigFromSnapshot(jobs[j].config) = jobs[j].config
         /\ Resolve(key) = 0 => GetJobHandler(key, j) = GetJobHandler(Nil, j)
         /\ Resolve(key) # 0 => GetJobHandler(key, j) = Nil
  <1>1. PICK r : r = jobs[j] /\ RowSound(j, r) /\ j \in JobIds /\ Readable(r.config)
    BY PresentRows
  <1>2. Resolve(Nil) = 0
    BY DEF Resolve
  <1>3. ASSUME NEW k, Resolve(k) = 0
        PROVE  /\ GetJobHandler(k, j) = [job |-> ToProtoCrawlJob(r.job, r.config)] /\ GetJobHandler(k, j) # Nil
               /\ RestoreCrawlJobFromSnapshot(r.job) = r.job /\ RestoreCrawlJobConfigFromSnapshot(r.config) = r.config
    BY <1>1, <1>3, RowRead
  <1>4. ASSUME Resolve(key) # 0 PROVE GetJobHandler(key, j) = Nil
    <2>1. r.shard = 0
      BY <1>1 DEF RowSound
    <2>2. j \notin On(Resolve(key))
      BY <1>1, <1>4, <2>1 DEF On
    <2>3. GetJob(key, j) = Nil
      BY <2>2 DEF GetJob, ScanJob
    <2>4. QED
      BY <2>3 DEF GetJobHandler
  <1>5. QED
    BY <1>1, <1>2, <1>3, <1>4

\* A list with room for all jobs.
LEMMA AllJobsListed ==
  ASSUME StoreSound, \A j \in Present : Readable(jobs[j].config), Cardinality(Present) <= MaxLimit,
         NEW list, list = ListJobs(AllJobs(MaxLimit))
  PROVE  /\ Len(list.jobs) = Cardinality(Present)
         /\ \A j \in Present : \E i \in DOMAIN list.jobs : list.jobs[i] = ToProtoCrawlJob(jobs[j].job, jobs[j].config)
  <1>1. PICK req : req = AllJobs(MaxLimit)
    OBVIOUS
  <1>2. req.cursor = Nil /\ req.limit = MaxLimit /\ req.filter = Nil
    BY <1>1 DEF AllJobs
  <1>3. PICK limit \in Nat \ {0} : limit = MaxLimit /\ limit = Limit(req.limit)
    <2>1. MaxLimit \in Nat /\ DefaultLimit \in 1 .. MaxLimit
      BY ApiAssumption
    <2>2. QED
      BY <1>2, <2>1 DEF Limit
  <1>4. PICK order : order = JobOrder(req)
    OBVIOUS
  <1>5. PICK q : q = [cursor |-> req.cursor, limit |-> limit, filter |-> req.filter,
                      sortField |-> order.field, sortAsc |-> order.asc]
    OBVIOUS
  <1>6. PICK rows, page : rows = JobRows(q) /\ page = Trim(rows, limit)
    OBVIOUS
  <1>7. PICK v : v = JobView(order.field, req.filter)
    OBVIOUS
  <1>8. v.hits = Present /\ Rest(v, order.asc, Nil) = Present
    BY <1>2, <1>7 DEF JobView, JobMatches, Rest
  <1>9. PICK pos : pos = [j \in {j \in Present : JobMatches(j, req.filter)} |-> JobPosition(order.field, JobRow(j))]
    OBVIOUS
  <1>10. DOMAIN pos = Present /\ \A r \in Present : pos[r] = v.at[r]
    BY <1>2, <1>7, <1>9 DEF JobView, JobMatches
  <1>11. rows = Seek(pos, order.asc, Nil, limit)
    BY <1>2, <1>5, <1>6, <1>9, JobRowsSought
  <1>12. rows \in Seq(Present) /\ ~HasMore(rows, limit)
    <2>1. ViewSound(v) /\ v.now = Present
      BY <1>7, JobViewSound DEF JobView
    <2>2. IsFiniteSet(DOMAIN pos) /\ Apart(DOMAIN pos, pos)
      BY <1>10, <2>1 DEF ViewSound, Apart
    <2>3. PICK B : B = {r \in DOMAIN pos : Nil = Nil \/ InOrder(order.asc, Nil, pos[r])}
      OBVIOUS
    <2>4. B = Present
      BY <1>10, <2>3
    <2>5. rows \in Seq(B) /\ (Cardinality(B) <= limit => ~HasMore(rows, limit))
      BY <1>11, <2>2, <2>3, SeekSpec
    <2>6. QED
      BY <1>3, <2>4, <2>5
  <1>13. JobsAnswered(list, req, order, limit, rows, page)
    <2>1. \A i \in DOMAIN rows : Readable(jobs[rows[i]].config)
      BY <1>12
    <2>2. ~JobFilterError(req.filter) /\ limit <= MaxLimit
      <3>1. ~JobFilterError(req.filter)
        BY <1>2, Zenon DEF JobFilterError
      <3>2. limit <= MaxLimit
        BY <1>3
      <3>3. QED
        BY <3>1, <3>2
    <2>3. list = ListJobs(req)
      BY <1>1
    <2>4. rows = JobRows([cursor |-> req.cursor, limit |-> limit, filter |-> req.filter,
                          sortField |-> order.field, sortAsc |-> order.asc])
      BY <1>5, <1>6
    <2>5. QED
      BY <1>3, <1>4, <1>6, <2>1, <2>2, <2>3, <2>4, JobsAccepted
  <1>14. PICK ids : ids = IdsOf(list.jobs)
    OBVIOUS
  <1>15. JobsListed(ids, list.hasMore, list.nextCursor, order, v, Present)
    <2>1. PICK after : after = Nil
      OBVIOUS
    <2>2. after = JobsAfter(req, order) /\ Present = Rest(v, order.asc, after)
      BY <1>2, <1>8, <2>1 DEF JobsAfter
    <2>3. QED
      BY <1>7, <1>13, <1>14, <2>2, JobsPage, Zenon
  <1>16. /\ list.jobs = [i \in DOMAIN page |->
                           ToProtoCrawlJob(RestoreCrawlJobFromSnapshot(jobs[page[i]].job),
                                           RestoreCrawlJobConfigFromSnapshot(jobs[page[i]].config))]
         /\ list.hasMore = HasMore(rows, limit)
    BY <1>13 DEF JobsAnswered
  <1>17. ~list.hasMore
    BY <1>12, <1>16
  <1>18. /\ ids \in Seq(Present) /\ DOMAIN ids = 1 .. Len(ids)
         /\ \A i, k \in DOMAIN ids : ids[i] = ids[k] => i = k
         /\ \A r \in Present : \E i \in DOMAIN ids : ids[i] = r
    BY <1>15, <1>17 DEF JobsListed, PageOf
  <1>19. page = rows
    BY <1>6, <1>12 DEF Trim
  <1>20. PICK N \in Nat : N = Len(page) /\ DOMAIN page = 1 .. N
    BY <1>12, <1>19, LenProperties
  <1>21. DOMAIN list.jobs = 1 .. N /\ DOMAIN ids = 1 .. N
    BY <1>14, <1>16, <1>20 DEF IdsOf
  <1>22. Cardinality(Present) = N
    <2>1. IsFiniteSet(1 .. N) /\ Cardinality(1 .. N) = N
      BY FS_Interval
    <2>2. ids \in Bijection(1 .. N, Present)
      <3>1. ids \in [1 .. N -> Present]
        <4>1. ids \in [1 .. Len(ids) -> Present]
          BY <1>18
        <4>2. 1 .. Len(ids) = 1 .. N
          BY <1>18, <1>21
        <4>3. QED
          BY <4>1, <4>2
      <3>2. ids \in Injection(1 .. N, Present)
        BY <1>18, <1>21, <3>1 DEF Injection, IsInjective
      <3>3. ids \in Surjection(1 .. N, Present)
        BY <1>18, <1>21, <3>1 DEF Surjection
      <3>4. QED
        BY <3>2, <3>3 DEF Bijection
    <2>3. QED
      BY <2>1, <2>2, FS_Bijection DEF ExistsBijection
  <1>23. ASSUME NEW i \in 1 .. N
         PROVE  page[i] \in Present /\ list.jobs[i] = ToProtoCrawlJob(jobs[page[i]].job, jobs[page[i]].config)
    <2>1. PICK j \in Present : j = page[i]
      BY <1>12, <1>19, <1>20
    <2>2. RestoreCrawlJobFromSnapshot(jobs[j].job) = jobs[j].job /\ RestoreCrawlJobConfigFromSnapshot(jobs[j].config) = jobs[j].config
      BY JobReadFrom
    <2>3. QED
      BY <1>16, <1>20, <2>1, <2>2
  <1>24. \A i \in 1 .. N : ids[i] = page[i]
    <2>1. ASSUME NEW i \in 1 .. N PROVE list.jobs[i].id = page[i]
      <3>1. PICK j \in Present : j = page[i] /\ list.jobs[i] = ToProtoCrawlJob(jobs[j].job, jobs[j].config)
        BY <1>23
      <3>2. jobs[j].job.id = j
        BY PresentRows DEF RowSound
      <3>3. QED
        BY <3>1, <3>2 DEF ToProtoCrawlJob
    <2>2. QED
      BY <1>14, <1>21, <2>1 DEF IdsOf
  <1>25. Len(list.jobs) = N
    <2>1. list.jobs \in Seq({list.jobs[i] : i \in 1 .. N})
      BY <1>16, <1>20
    <2>2. QED
      BY <1>21, <2>1, LenProperties
  <1>26. QED
    BY <1>18, <1>21, <1>22, <1>23, <1>24, <1>25

\* Sound tables are read alike by every reader.
LEMMA ReadersDo == StoreSound => ReadersAgree
  <1> SUFFICES ASSUME StoreSound PROVE ReadersAgree
    OBVIOUS
  <1>2. ASSUME NEW j \in Present, Readable(jobs[j].config), NEW n \in Tasks(j), NEW task, task = GetTaskHandler(Nil, Task(j, n).id)
        PROVE  /\ task # Nil
               /\ \A k \in JoinedColumns : task.task.job[k] = GetJobHandler(Nil, j).job[k]
    <2>1. j \in On(Resolve(Nil))
      <3>1. Resolve(Nil) = 0
        BY DEF Resolve
      <3>2. QED
        BY <3>1, FirstShard
    <2>2. PICK q \in JobModel : /\ \A k \in JoinedColumns : q[k] = jobs[j].job[k]
                                /\ task = [task |-> ToProtoCrawlTask(Task(j, n), ToProtoCrawlJob(q, Nil))] /\ task # Nil
      BY <1>2, <2>1, TaskRead
    <2>3. task.task.job = ToProtoCrawlJob(q, Nil)
      BY <2>2 DEF ToProtoCrawlTask
    <2>4. GetJobHandler(Nil, j).job = ToProtoCrawlJob(jobs[j].job, jobs[j].config)
      BY <1>2, JobReadFrom
    <2>5. \A k \in JoinedColumns : ToProtoCrawlJob(q, Nil)[k] = q[k] /\ ToProtoCrawlJob(jobs[j].job, jobs[j].config)[k] = jobs[j].job[k]
      BY DEF ToProtoCrawlJob, JoinedColumns
    <2>6. QED
      BY <2>2, <2>3, <2>4, <2>5
  <1>3. \A j \in Present : Readable(jobs[j].config) =>
          GetJobHandler(Nil, j) # Nil /\ GetJobHandler(Nil, j).job = ToProtoCrawlJob(jobs[j].job, jobs[j].config)
    BY JobReadFrom
  <1>4. ASSUME \A j \in Present : Readable(jobs[j].config), Cardinality(Present) <= MaxLimit, NEW list, list = ListJobs(AllJobs(MaxLimit))
        PROVE  /\ Len(list.jobs) = Cardinality(Present)
               /\ \A j \in Present : \E i \in DOMAIN list.jobs : list.jobs[i] = GetJobHandler(Nil, j).job
    <2>1. /\ Len(list.jobs) = Cardinality(Present)
          /\ \A j \in Present : \E i \in DOMAIN list.jobs : list.jobs[i] = ToProtoCrawlJob(jobs[j].job, jobs[j].config)
      BY <1>4, AllJobsListed
    <2>2. QED
      BY <1>3, <1>4, <2>1
  <1>5. QED
    BY <1>2, <1>3, <1>4 DEF ReadersAgree, JoinedColumns

\* The readers of the API, whatever was submitted, deleted, worked on and
\* exported: GetJob, GetTask and ListJobs tell of a job the same.
THEOREM ReadersTellTheSame == ApiSpec => []ReadersAgree
  <1>1. ApiInit => StoreSound
    BY StoreInit
  <1>2. StoreSound /\ [ApiNext]_apiVars => StoreSound'
    BY StoreKept
  <1>3. StoreSound => ReadersAgree
    BY ReadersDo
  <1>4. QED
    BY <1>1, <1>2, <1>3, PTL DEF ApiSpec

-----------------------------------------------------------------------------
(* What the counts of GetTaskAnalytics add up to.                          *)

\* The element that a sum over a set takes first.
Pick(s) == CHOOSE x \in s : TRUE

\* One step of a sum over a set.
SumStep(c, f, s) == IF s = {} THEN 0 ELSE c[Pick(s)] + f[s \ {Pick(s)}]

\* A total is the value of a recursive function.
LEMMA TotalUnfolded ==
  ASSUME NEW S, NEW c, DOMAIN c = S
  PROVE  \E h : h = (CHOOSE f : f = [s \in SUBSET S |-> SumStep(c, f, s)]) /\ Total(c) = h[S]
  BY DEF Total, FoldFunction, FoldFunctionOnSet, MapThenFoldSet, SumStep, Pick

\* The sum of two counts, over the part s of the values.
Part(c, a, s) == IF a \in s THEN c[a] ELSE 0

\* The total of counts that are zero except for two values.  It suffices
\* because the tasks of a job have at most two statuses and two depths at once.
LEMMA TotalOfTwo ==
  ASSUME NEW S, IsFiniteSet(S), NEW c \in [S -> Nat], NEW a \in S, NEW b \in S, a # b,
         \A x \in S : x \notin {a, b} => c[x] = 0
  PROVE  Total(c) = c[a] + c[b]
  <1>1. PICK w : w = [s \in SUBSET S |-> Part(c, a, s) + Part(c, b, s)]
    OBVIOUS
  <1>2. \A s \in SUBSET S : w[s] \in Nat
    BY <1>1 DEF Part
  <1>3. ASSUME NEW s \in SUBSET S, NEW f, s # {} => f[s \ {Pick(s)}] = w[s \ {Pick(s)}]
        PROVE  w[s] = SumStep(c, f, s)
    <2>1. CASE s = {}
      BY <1>1, <2>1 DEF Part, SumStep
    <2>2. CASE s # {}
      <3>1. PICK x \in s : x = Pick(s)
        BY <2>2 DEF Pick
      <3>2. PICK t \in SUBSET S : t = s \ {x}
        OBVIOUS
      <3>3. SumStep(c, f, s) = c[x] + w[t]
        BY <1>3, <2>2, <3>1, <3>2 DEF SumStep
      <3>4. w[t] = Part(c, a, t) + Part(c, b, t) /\ w[s] = Part(c, a, s) + Part(c, b, s)
        BY <1>1
      <3>5. c[x] \in Nat /\ c[a] \in Nat /\ c[b] \in Nat
        OBVIOUS
      <3>6. CASE x = a
        <4>1. Part(c, a, t) = 0 /\ Part(c, a, s) = c[a] /\ Part(c, b, t) = Part(c, b, s) /\ Part(c, b, s) \in Nat
          BY <3>2, <3>5, <3>6 DEF Part
        <4>2. QED
          BY <3>3, <3>4, <3>5, <3>6, <4>1
      <3>7. CASE x = b
        <4>1. Part(c, b, t) = 0 /\ Part(c, b, s) = c[b] /\ Part(c, a, t) = Part(c, a, s) /\ Part(c, a, s) \in Nat
          BY <3>2, <3>5, <3>7 DEF Part
        <4>2. QED
          BY <3>3, <3>4, <3>5, <3>7, <4>1
      <3>8. CASE x \notin {a, b}
        <4>1. c[x] = 0
          BY <3>8
        <4>2. Part(c, b, t) = Part(c, b, s) /\ Part(c, a, t) = Part(c, a, s) /\ Part(c, a, s) \in Nat /\ Part(c, b, s) \in Nat
          BY <3>2, <3>5, <3>8 DEF Part
        <4>3. QED
          BY <3>3, <3>4, <4>1, <4>2
      <3>9. QED
        BY <3>6, <3>7, <3>8
    <2>3. QED
      BY <2>1, <2>2
  <1>4. w = [s \in SUBSET S |-> SumStep(c, w, s)]
    <2>1. \A s \in SUBSET S : w[s] = SumStep(c, w, s)
      BY <1>3
    <2>2. w = [s \in SUBSET S |-> w[s]]
      BY <1>1
    <2>3. QED
      BY <2>1, <2>2
  <1>5. PICK h : h = (CHOOSE f : f = [s \in SUBSET S |-> SumStep(c, f, s)]) /\ Total(c) = h[S]
    BY TotalUnfolded
  <1>6. h = [s \in SUBSET S |-> SumStep(c, h, s)]
    BY <1>4, <1>5
  <1>7. \A s \in SUBSET S : h[s] = SumStep(c, h, s)
    BY <1>6
  <1>8. PICK N \in Nat : N = Cardinality(S)
    BY FS_CardinalityType
  <1>9. PICK Good : Good = {n \in 0 .. N : \A s \in SUBSET S : Cardinality(s) = n => h[s] = w[s]}
    OBVIOUS
  <1>10. \A s \in SUBSET S : IsFiniteSet(s) /\ Cardinality(s) \in 0 .. N
    <2>1. ASSUME NEW s \in SUBSET S PROVE IsFiniteSet(s) /\ Cardinality(s) \in 0 .. N
      <3>1. IsFiniteSet(s) /\ Cardinality(s) <= N
        BY <1>8, FS_Subset
      <3>2. Cardinality(s) \in Nat
        BY <3>1, FS_CardinalityType
      <3>3. QED
        BY <3>1, <3>2
    <2>2. QED
      BY <2>1
  <1>11. 0 \in Good
    <2>1. ASSUME NEW s \in SUBSET S, Cardinality(s) = 0 PROVE h[s] = w[s]
      <3>1. s = {}
        BY <1>10, <2>1, FS_EmptySet
      <3>2. QED
        BY <1>3, <1>7, <3>1
    <2>2. 0 \in 0 .. N
      OBVIOUS
    <2>3. QED
      BY <1>9, <2>1, <2>2
  <1>12. ASSUME NEW m \in 1 .. N, m - 1 \in Good PROVE m \in Good
    <2>1. ASSUME NEW s \in SUBSET S, Cardinality(s) = m PROVE h[s] = w[s]
      <3>1. s # {}
        BY <2>1, FS_EmptySet
      <3>2. PICK x \in s : x = Pick(s)
        BY <3>1 DEF Pick
      <3>3. Cardinality(s \ {x}) = m - 1 /\ s \ {x} \in SUBSET S
        BY <1>10, <2>1, FS_RemoveElement
      <3>4. h[s \ {x}] = w[s \ {x}]
        BY <1>9, <1>12, <3>3
      <3>5. w[s] = SumStep(c, h, s)
        BY <1>3, <3>2, <3>4
      <3>6. QED
        BY <1>7, <3>5
    <2>2. m \in 0 .. N
      OBVIOUS
    <2>3. QED
      BY <1>9, <2>1, <2>2
  <1>13. \A m \in 0 .. N : m \in Good
    BY <1>11, <1>12, UpTo
  <1>14. h[S] = w[S]
    <2>1. N \in 0 .. N
      OBVIOUS
    <2>2. N \in Good
      BY <1>13, <2>1
    <2>3. QED
      BY <1>8, <1>9, <2>2
  <1>15. w[S] = c[a] + c[b]
    BY <1>1 DEF Part
  <1>16. QED
    BY <1>5, <1>14, <1>15

\* Rows that are counted by a column with two values are all counted.
LEMMA CountsAddUp ==
  ASSUME NEW T, IsFiniteSet(T), NEW g, NEW S, IsFiniteSet(S), NEW a \in S, NEW b \in S, a # b,
         \A n \in T : g[n] \in {a, b}, NEW c, c = [x \in S |-> Cardinality({n \in T : g[n] = x})]
  PROVE  c \in [S -> Nat] /\ Total(c) = Cardinality(T)
  <1>1. ASSUME NEW x \in S PROVE IsFiniteSet({n \in T : g[n] = x}) /\ c[x] \in Nat /\ c[x] = Cardinality({n \in T : g[n] = x})
    <2>1. {n \in T : g[n] = x} \in SUBSET T
      OBVIOUS
    <2>2. IsFiniteSet({n \in T : g[n] = x})
      BY <2>1, FS_Subset
    <2>3. QED
      BY <2>2, FS_CardinalityType
  <1>2. c \in [S -> Nat]
    BY <1>1
  <1>3. ASSUME NEW x \in S, x \notin {a, b} PROVE c[x] = 0
    <2>1. {n \in T : g[n] = x} = {}
      BY <1>3
    <2>2. QED
      BY <1>1, <2>1, FS_EmptySet
  <1>4. Total(c) = c[a] + c[b]
    <2>1. \A x \in S : x \notin {a, b} => c[x] = 0
      BY <1>3
    <2>2. PICK d : d = c
      OBVIOUS
    <2>3. d \in [S -> Nat] /\ \A x \in S : x \notin {a, b} => d[x] = 0
      BY <1>2, <2>1, <2>2
    <2>4. Total(d) = d[a] + d[b]
      BY <2>3, TotalOfTwo
    <2>5. QED
      BY <2>2, <2>4
  <1>5. PICK A, B : A = {n \in T : g[n] = a} /\ B = {n \in T : g[n] = b}
    OBVIOUS
  <1>6. A \cup B = T /\ A \cap B = {}
    BY <1>5
  <1>7. IsFiniteSet(A) /\ IsFiniteSet(B) /\ c[a] = Cardinality(A) /\ c[b] = Cardinality(B) /\ c[a] \in Nat /\ c[b] \in Nat
    BY <1>1, <1>5
  <1>8. Cardinality(T) = c[a] + c[b]
    <2>1. Cardinality(A \cup B) = Cardinality(A) + Cardinality(B) - Cardinality(A \cap B)
      BY <1>7, FS_Union
    <2>2. QED
      BY <1>6, <1>7, <2>1, FS_EmptySet
  <1>9. QED
    BY <1>2, <1>4, <1>8

\* The tasks that a statement about job j counts.
NowTotal(key, j) == IF j \in On(Resolve(key)) THEN Cardinality(Tasks(j)) ELSE 0

\* Counts by a column with at most two values add up to the number of tasks.
LEMMA CountedType ==
  ASSUME StoreSound, NEW key, NEW j \in JobIds, NEW column \in {"status", "depth"}, NEW S, IsFiniteSet(S),
         NEW a \in S, NEW b \in S, a # b,
         \A r, n : RowSound(j, r) /\ n \in RowTasks(r) => RowTask(j, r, n)[column] \in {a, b},
         NEW c, c = Counted(key, j, column, S)
  PROVE  c \in [S -> Nat] /\ Total(c) = NowTotal(key, j) /\ NowTotal(key, j) \in Nat
  <1>1. CASE j \in On(Resolve(key))
    <2>1. j \in Present /\ RowSound(j, jobs[j])
      BY <1>1, PresentRows DEF On
    <2>2. PICK T : T = Tasks(j)
      OBVIOUS
    <2>3. T = RowTasks(jobs[j]) /\ \A n : Task(j, n) = RowTask(j, jobs[j], n)
      BY <2>2, TasksOfRow
    <2>4. IsFiniteSet(T)
      <3>1. PICK L \in Nat : RowTasks(jobs[j]) \subseteq 1 .. (L + 1)
        BY <2>1, RowLengths
      <3>2. IsFiniteSet(1 .. (L + 1))
        BY FS_Interval
      <3>3. QED
        BY <2>3, <3>1, <3>2, FS_Subset
    <2>5. PICK g : g = [n \in T |-> Task(j, n)[column]]
      OBVIOUS
    <2>6. \A n \in T : g[n] \in {a, b}
      BY <2>1, <2>3, <2>5
    <2>7. c = [x \in S |-> Cardinality({n \in T : Task(j, n)[column] = x})]
      BY <1>1, <2>2 DEF Counted
    <2>8. \A x : {n \in T : Task(j, n)[column] = x} = {n \in T : g[n] = x}
      BY <2>5
    <2>9. PICK d : d = c
      OBVIOUS
    <2>10. d = [x \in S |-> Cardinality({n \in T : g[n] = x})]
      BY <2>7, <2>8, <2>9
    <2>11. d \in [S -> Nat] /\ Total(d) = Cardinality(T)
      BY <2>4, <2>6, <2>10, CountsAddUp
    <2>12. QED
      BY <1>1, <2>2, <2>4, <2>9, <2>11, FS_CardinalityType DEF NowTotal
  <1>2. CASE j \notin On(Resolve(key))
    <2>1. PICK d : d = c
      OBVIOUS
    <2>2. d = [x \in S |-> 0]
      BY <1>2, <2>1 DEF Counted
    <2>3. d \in [S -> Nat] /\ (\A x \in S : x \notin {a, b} => d[x] = 0) /\ d[a] + d[b] = 0
      BY <2>2
    <2>4. Total(d) = d[a] + d[b]
      BY <2>3, TotalOfTwo
    <2>5. QED
      BY <1>2, <2>1, <2>3, <2>4 DEF NowTotal
  <1>3. QED
    BY <1>1, <1>2

\* The counts by status and by depth add up to the same number.
LEMMA CountsNow ==
  ASSUME StoreSound, NEW key, NEW j \in JobIds
  PROVE  /\ StatusCounts(key, j) \in [String -> Nat] /\ Total(StatusCounts(key, j)) = NowTotal(key, j)
         /\ DepthCounts(key, j) \in [Uint -> Nat] /\ Total(DepthCounts(key, j)) = NowTotal(key, j)
         /\ NowTotal(key, j) \in Nat
  <1>1. /\ StatusCounts(key, j) \in [String -> Nat] /\ Total(StatusCounts(key, j)) = NowTotal(key, j)
        /\ NowTotal(key, j) \in Nat
    <2>1. "Parsed" \in String /\ "InProgress" \in String /\ "Parsed" # "InProgress"
      BY ApiAssumption
    <2>2. IsFiniteSet(String)
      BY StringsAreFinite
    <2>3. \A r, n : RowSound(j, r) /\ n \in RowTasks(r) => RowTask(j, r, n)["status"] \in {"Parsed", "InProgress"}
      BY TaskColumns
    <2>4. QED
      BY <2>1, <2>2, <2>3, CountedType DEF StatusCounts
  <1>2. DepthCounts(key, j) \in [Uint -> Nat] /\ Total(DepthCounts(key, j)) = NowTotal(key, j)
    <2>1. 0 \in Uint /\ 1 \in Uint /\ IsFiniteSet(Uint)
      <3>1. MaxUint \in Nat \ {0}
        BY CodecAssumption
      <3>2. QED
        BY <3>1, FS_Interval DEF Uint
    <2>2. \A r, n : RowSound(j, r) /\ n \in RowTasks(r) => RowTask(j, r, n)["depth"] \in {0, 1}
      BY TaskColumns
    <2>3. QED
      BY <2>1, <2>2, CountedType DEF DepthCounts
  <1>3. QED
    BY <1>1, <1>2

-----------------------------------------------------------------------------
(* The invariant of a count.                                               *)

\* The fields of a count that has begun.
CountFields == {"state", "job", "key", "added", "statusCounts", "depthCounts"}

\* A count that has begun: what was added since the first query is the
\* difference between the totals.
CountIs(c) ==
  /\ DOMAIN c = CountFields
  /\ c.state \in {"half", "done", "lost"} /\ c.job \in JobIds /\ jobs[c.job] # Nil
  /\ c.added \in Nat /\ c.statusCounts \in [String -> Nat] /\ Total(c.statusCounts) \in Nat
  /\ c.state = "half" /\ c.job \in Present => NowTotal(c.key, c.job) = Total(c.statusCounts) + c.added
  /\ c.state = "done" => c.depthCounts \in [Uint -> Nat]
  /\ c.state = "done" /\ c.job \in Present => Total(c.depthCounts) = Total(c.statusCounts) + c.added

\* The inductive invariant of a count.
CountSound == count = Idle \/ CountIs(count)

\* The count goes on while other rows change.
LEMMA CountStays ==
  ASSUME NEW c, CountIs(c), jobs'[c.job] # Nil,
         c.job \in Present' => c.job \in Present /\ (c.state = "half" => NowTotal(c.key, c.job)' = NowTotal(c.key, c.job))
  PROVE  CountIs(c)'
  BY DEF CountIs

\* A step that changes no number of tasks keeps a count.
LEMMA CountKept ==
  ASSUME CountSound, count' = count,
         \A j \in JobIds : jobs[j] # Nil =>
           jobs'[j] # Nil /\ (j \in Present' => j \in Present /\ \A key : NowTotal(key, j)' = NowTotal(key, j))
  PROVE  CountSound'
  <1>1. PICK c : c = count
    OBVIOUS
  <1>2. CASE c = Idle
    BY <1>1, <1>2 DEF CountSound
  <1>3. CASE c # Idle
    <2>1. CountIs(c)
      BY <1>1, <1>3 DEF CountSound
    <2>2. c.job \in JobIds /\ jobs[c.job] # Nil
      BY <2>1 DEF CountIs
    <2>3. jobs'[c.job] # Nil /\ (c.job \in Present' => c.job \in Present /\ NowTotal(c.key, c.job)' = NowTotal(c.key, c.job))
      BY <2>2
    <2>4. CountIs(c)'
      BY <2>1, <2>3, CountStays
    <2>5. QED
      BY <1>1, <2>4 DEF CountSound
  <1>4. QED
    BY <1>2, <1>3

\* The shard of a key does not change.
LEMMA ResolveSame ==
  ASSUME deploy' = deploy
  PROVE  \A key : Resolve(key)' = Resolve(key)
  BY DEF Resolve, ShardIndex

\* What a count sees of a row.
LEMMA TotalOfRow ==
  ASSUME StoreSound, NEW j \in Present, NEW key
  PROVE  NowTotal(key, j) = IF Resolve(key) = 0 THEN Cardinality(RowTasks(jobs[j])) ELSE 0
  <1>1. jobs[j].shard = 0
    BY PresentRows DEF RowSound
  <1>2. j \in On(Resolve(key)) <=> Resolve(key) = 0
    BY <1>1 DEF On
  <1>3. Tasks(j) = RowTasks(jobs[j])
    BY TasksOfRow
  <1>4. QED
    BY <1>2, <1>3 DEF NowTotal

\* The number of tasks that a key reaches, after a step.
LEMMA TotalOfRowNext ==
  StoreSound' => \A j \in Present' : \A key :
    NowTotal(key, j)' = IF Resolve(key)' = 0 THEN Cardinality(RowTasks(jobs'[j])) ELSE 0
  <1>1. StoreSound => \A j \in Present : \A key : NowTotal(key, j) = IF Resolve(key) = 0 THEN Cardinality(RowTasks(jobs[j])) ELSE 0
    BY TotalOfRow
  <1>2. StoreSound' => (\A j \in Present : \A key :
          NowTotal(key, j) = IF Resolve(key) = 0 THEN Cardinality(RowTasks(jobs[j])) ELSE 0)'
    BY <1>1, PTL
  <1>3. QED
    BY <1>2 DEF RowTasks

\* A row with the same tasks has the same number of them.
LEMMA TotalSame ==
  ASSUME StoreSound, StoreSound', deploy' = deploy, NEW j \in Present, j \in Present',
         RowTasks(jobs'[j]) = RowTasks(jobs[j])
  PROVE  \A key : NowTotal(key, j)' = NowTotal(key, j)
  <1>1. ASSUME NEW key PROVE NowTotal(key, j)' = NowTotal(key, j)
    <2>1. NowTotal(key, j)' = IF Resolve(key)' = 0 THEN Cardinality(RowTasks(jobs'[j])) ELSE 0
      BY TotalOfRowNext
    <2>2. NowTotal(key, j) = IF Resolve(key) = 0 THEN Cardinality(RowTasks(jobs[j])) ELSE 0
      BY TotalOfRow
    <2>3. QED
      BY <2>1, <2>2, ResolveSame
  <1>2. QED
    BY <1>1

\* Steps that leave the count alone and add no task.
LEMMA CountUnderRows ==
  ASSUME StoreSound, StoreSound', deploy' = deploy, CountSound, count' = count,
         \A j \in JobIds : jobs[j] # Nil => \/ jobs'[j] = jobs[j]
                                            \/ jobs'[j] = Gone
                                            \/ j \in Present /\ j \in Present' /\ RowTasks(jobs'[j]) = RowTasks(jobs[j])
  PROVE  CountSound'
  <1>1. ASSUME NEW j \in JobIds, jobs[j] # Nil
        PROVE  jobs'[j] # Nil /\ (j \in Present' => j \in Present /\ \A key : NowTotal(key, j)' = NowTotal(key, j))
    <2>1. CASE jobs'[j] = jobs[j]
      <3>1. ASSUME j \in Present' PROVE j \in Present /\ RowTasks(jobs'[j]) = RowTasks(jobs[j])
        BY <2>1, <3>1 DEF Present
      <3>2. QED
        BY <1>1, <2>1, <3>1, TotalSame
    <2>2. CASE jobs'[j] = Gone
      BY <2>2, NilAssumption DEF Present
    <2>3. CASE j \in Present /\ j \in Present' /\ RowTasks(jobs'[j]) = RowTasks(jobs[j])
      BY <2>3, TotalSame DEF Present
    <2>4. QED
      BY <1>1, <2>1, <2>2, <2>3
  <1>2. QED
    BY <1>1, CountKept

\* A link that is found between the two queries.
LEMMA CountUnderFind ==
  ASSUME StoreSound, StoreSound', deploy' = deploy, CountSound, NEW d \in JobIds, WorkerFinds(d)
  PROVE  CountSound'
  <1>1. /\ d \in Present /\ jobs[d].foundAt = Nil /\ jobs' = [jobs EXCEPT ![d].foundAt = clock]
        /\ count' = IF count.state = "half" /\ count.job = d /\ d \in On(Resolve(count.key))
                    THEN [count EXCEPT !.added = @ + 1] ELSE count
    BY DEF WorkerFinds, Workable
  <1>2. jobs'[d] = [jobs[d] EXCEPT !.foundAt = clock] /\ (\A j \in JobIds \ {d} : jobs'[j] = jobs[j]) /\ d \in Present'
    <2>1. jobs \in [JobIds -> StoredJob \cup {Nil, Gone}]
      BY DEF StoreSound
    <2>2. RowsStep
      BY FindChangesRow
    <2>3. d \in Present'
      BY <1>1, <2>2, RowKeeps
    <2>4. QED
      BY <1>1, <2>1, <2>3
  <1>3. \A j \in JobIds \ {d} : j \in Present' <=> j \in Present
    BY <1>2 DEF Present
  <1>4. RowSound(d, jobs[d]) /\ clock # Nil
    <2>1. clock \in Nat
      BY DEF StoreSound, Timestamp
    <2>2. QED
      BY <1>1, <2>1, PresentRows, NilAssumption
  <1>5. PICK L \in Nat : Cardinality(RowTasks(jobs[d])) = L /\ Cardinality(RowTasks(jobs'[d])) = L + 1
    <2>1. PICK N, S : /\ N \in Nat /\ N = Len(jobs[d].config.seeds)
                      /\ S = SeedRows(jobs[d].config.seeds) /\ S \subseteq 1 .. N
      BY <1>1, <1>4, RowLengths, Zenon
    <2>2. DOMAIN jobs[d] = {"job", "config", "sent", "shard", "targets", "foundAt", "worked"}
      BY <1>4 DEF RowSound, StoredJob
    <2>3. jobs'[d].config = jobs[d].config /\ jobs'[d].foundAt = clock
      BY <1>2, <2>2
    <2>4. RowTasks(jobs[d]) = S /\ RowTasks(jobs'[d]) = S \cup {N + 1}
      BY <1>1, <1>4, <2>1, <2>3 DEF RowTasks
    <2>5. IsFiniteSet(S) /\ N + 1 \notin S
      <3>1. IsFiniteSet(1 .. N)
        BY <2>1, FS_Interval
      <3>2. N + 1 \notin 1 .. N
        <4>1. N \in Nat
          BY <2>1
        <4>2. QED
          BY <4>1, SMT
      <3>3. QED
        BY <2>1, <3>1, <3>2, FS_Subset, Zenon
    <2>6. Cardinality(S) \in Nat /\ Cardinality(S \cup {N + 1}) = Cardinality(S) + 1
      BY <2>5, FS_CardinalityType, FS_AddElement
    <2>7. QED
      BY <2>4, <2>6
  <1>6. PICK c : c = count
    OBVIOUS
  <1>7. CASE c = Idle
    <2>1. count' = count
      BY <1>1, <1>6, <1>7 DEF Idle
    <2>2. QED
      BY <1>6, <1>7, <2>1 DEF CountSound
  <1>8. CASE c # Idle
    <2>1. CountIs(c)
      BY <1>6, <1>8 DEF CountSound
    <2>2. /\ DOMAIN c = CountFields /\ c.state \in {"half", "done", "lost"} /\ c.job \in JobIds /\ jobs[c.job] # Nil
          /\ c.added \in Nat /\ c.statusCounts \in [String -> Nat] /\ Total(c.statusCounts) \in Nat
      BY <2>1 DEF CountIs
    <2>3. jobs'[c.job] # Nil
      BY <1>2, <2>2, <1>3 DEF Present
    <2>4. CASE c.state = "half" /\ c.job = d /\ Resolve(c.key) = 0
      <3>1. d \in On(Resolve(c.key))
        BY <1>1, <2>4, FirstShard
      <3>2. PICK e : e = count'
        OBVIOUS
      <3>3. e = [c EXCEPT !.added = c.added + 1]
        BY <1>1, <1>6, <2>4, <3>1, <3>2
      <3>4. /\ DOMAIN e = CountFields /\ e.state = "half" /\ e.job = d /\ e.key = c.key /\ e.added = c.added + 1
            /\ e.statusCounts = c.statusCounts
        BY <2>2, <2>4, <3>3 DEF CountFields
      <3>5. NowTotal(c.key, d) = Total(c.statusCounts) + c.added
        BY <1>1, <2>1, <2>4 DEF CountIs
      <3>7. NowTotal(c.key, d) = L
        BY <1>1, <1>5, <2>4, TotalOfRow
      <3>8. NowTotal(c.key, d)' = L + 1
        <4>1. Resolve(c.key)' = 0
          BY <2>4, ResolveSame
        <4>2. NowTotal(c.key, d)' = IF Resolve(c.key)' = 0 THEN Cardinality(RowTasks(jobs'[d])) ELSE 0
          BY <1>2, TotalOfRowNext
        <4>3. QED
          BY <1>5, <4>1, <4>2
      <3>9. NowTotal(e.key, e.job)' = Total(e.statusCounts) + e.added
        BY <2>2, <3>4, <3>5, <3>7, <3>8
      <3>10. CountIs(e)'
        BY <2>2, <2>3, <2>4, <3>4, <3>9 DEF CountIs
      <3>11. QED
        BY <3>2, <3>10 DEF CountSound
    <2>5. CASE ~(c.state = "half" /\ c.job = d /\ Resolve(c.key) = 0)
      <3>1. count' = c
        <4>1. d \in On(Resolve(c.key)) => Resolve(c.key) = 0
          BY <1>4 DEF On, RowSound
        <4>2. QED
          BY <1>1, <1>6, <2>5, <4>1
      <3>2. ASSUME c.state = "half", c.job \in Present' PROVE NowTotal(c.key, c.job)' = NowTotal(c.key, c.job)
        <4>1. PICK j \in JobIds : j = c.job
          BY <2>2
        <4>2. CASE j = d
          <5>1. Resolve(c.key) # 0 /\ Resolve(c.key)' # 0
            BY <2>5, <3>2, <4>1, <4>2, ResolveSame
          <5>2. NowTotal(c.key, d)' = IF Resolve(c.key)' = 0 THEN Cardinality(RowTasks(jobs'[d])) ELSE 0
            BY <1>2, TotalOfRowNext
          <5>3. NowTotal(c.key, d) = IF Resolve(c.key) = 0 THEN Cardinality(RowTasks(jobs[d])) ELSE 0
            BY <1>1, TotalOfRow
          <5>4. QED
            BY <4>1, <4>2, <5>1, <5>2, <5>3
        <4>3. CASE j # d
          <5>1. j \in Present /\ j \in Present' /\ RowTasks(jobs'[j]) = RowTasks(jobs[j])
            BY <1>2, <1>3, <3>2, <4>1, <4>3
          <5>2. QED
            BY <4>1, <5>1, TotalSame
        <4>4. QED
          BY <4>2, <4>3
      <3>3. c.job \in Present' => c.job \in Present
        BY <1>1, <1>3, <2>2
      <3>4. CountIs(c)'
        BY <2>1, <2>3, <3>2, <3>3, CountStays
      <3>5. QED
        BY <3>1, <3>4 DEF CountSound
    <2>6. QED
      BY <2>4, <2>5
  <1>9. QED
    BY <1>7, <1>8

\* A row that is completed or exported keeps its tasks.
LEMMA CompleteKeepsTasks ==
  ASSUME StoreSound, NEW d \in JobIds, WorkerCompletes(d), NEW j \in Present
  PROVE  j \in Present' /\ RowTasks(jobs'[j]) = RowTasks(jobs[j])
  <1>1. RowsStep
    BY CompleteChangesRow
  <1>2. j \in Present' /\ jobs'[j].config = jobs[j].config
    BY <1>1, RowKeeps
  <1>3. jobs'[j].foundAt = jobs[j].foundAt
    <2>1. jobs \in [JobIds -> StoredJob \cup {Nil, Gone}] /\ jobs' = [jobs EXCEPT ![d].worked = TRUE] /\ j \in JobIds
      BY DEF StoreSound, WorkerCompletes, Present
    <2>2. jobs'[j] = IF j = d THEN [jobs[j] EXCEPT !.worked = TRUE] ELSE jobs[j]
      BY <2>1
    <2>3. QED
      BY <2>2
  <1>4. QED
    BY <1>2, <1>3 DEF RowTasks

\* An export leaves the tasks alone.
LEMMA ExportKeepsTasks ==
  ASSUME StoreSound, NEW done \in SUBSET JobIds, NEW failed \in SUBSET JobIds, ExportBatch(done, failed), NEW j \in Present
  PROVE  j \in Present' /\ RowTasks(jobs'[j]) = RowTasks(jobs[j])
  <1>1. RowsStep
    BY ExportChangesRows
  <1>2. j \in Present' /\ jobs'[j].config = jobs[j].config
    BY <1>1, RowKeeps
  <1>3. jobs'[j].foundAt = jobs[j].foundAt
    <2>1. j \in JobIds
      BY DEF Present
    <2>2. jobs'[j] = CASE j \in done -> [jobs[j] EXCEPT !.job = MarkAsExported(@)]
                       [] j \in failed -> [jobs[j] EXCEPT !.job.exportStatus = "FAILED"]
                       [] OTHER -> jobs[j]
      BY <2>1 DEF ExportBatch, UpdateJob
    <2>3. done \cap failed = {}
      BY DEF ExportBatch, UpdateJob
    <2>4. CASE j \in done
      BY <2>2, <2>3, <2>4
    <2>5. CASE j \in failed
      <3>1. jobs'[j] = [jobs[j] EXCEPT !.job.exportStatus = "FAILED"]
        BY <2>2, <2>3, <2>5
      <3>2. QED
        BY <3>1
    <2>6. CASE j \notin done \cup failed
      BY <2>2, <2>6
    <2>7. QED
      BY <2>4, <2>5, <2>6
  <1>4. QED
    BY <1>2, <1>3 DEF RowTasks

\* The first statement sees the tasks of now.
LEMMA CountBegins ==
  ASSUME StoreSound, NEW j \in JobIds, jobs[j] # Nil, jobs' = jobs, deploy' = deploy, NEW key,
         count' = [state |-> "half", job |-> j, key |-> key, added |-> 0,
                   statusCounts |-> StatusCounts(key, j), depthCounts |-> Nil]
  PROVE  CountSound'
  <1>1. PICK c : c = count'
    OBVIOUS
  <1>2. /\ DOMAIN c = CountFields /\ c.state = "half" /\ c.job = j /\ c.key = key /\ c.added = 0
        /\ c.statusCounts = StatusCounts(key, j)
    BY <1>1 DEF CountFields
  <1>3. /\ StatusCounts(key, j) \in [String -> Nat] /\ Total(StatusCounts(key, j)) = NowTotal(key, j)
        /\ NowTotal(key, j) \in Nat
    BY CountsNow
  <1>4. PICK t, n : t = Total(c.statusCounts) /\ n = NowTotal(key, j)
    OBVIOUS
  <1>5. t \in Nat /\ n = t + c.added /\ c.added \in Nat
    BY <1>2, <1>3, <1>4
  <1>6. CountIs(c)
    BY <1>2, <1>3, <1>4, <1>5 DEF CountIs
  <1>7. jobs'[c.job] # Nil /\ (c.job \in Present' => c.job \in Present) /\ NowTotal(c.key, c.job)' = NowTotal(c.key, c.job)
    BY <1>2, ResolveSame DEF Present, NowTotal, On, Tasks
  <1>8. CountIs(c)'
    BY <1>6, <1>7, CountStays
  <1>9. QED
    BY <1>1, <1>8 DEF CountSound

\* The second statement sees what the first one saw, and the tasks added since.
LEMMA CountEnds ==
  ASSUME StoreSound, CountSound, CountDepths
  PROVE  CountSound'
  <1>1. PICK c : c = count
    OBVIOUS
  <1>2. c.state = "half" /\ jobs' = jobs
    BY <1>1 DEF CountDepths, storeVars
  <1>3. CountIs(c)
    BY <1>1, <1>2 DEF CountSound, Idle
  <1>4. PICK e, D : e = count' /\ D = DepthCounts(c.key, c.job)
    OBVIOUS
  <1>5. e = [c EXCEPT !.state = "done", !.depthCounts = D]
    BY <1>1, <1>4 DEF CountDepths
  <1>6. /\ DOMAIN c = CountFields /\ c.job \in JobIds /\ jobs[c.job] # Nil /\ c.added \in Nat
        /\ c.statusCounts \in [String -> Nat] /\ Total(c.statusCounts) \in Nat
        /\ c.job \in Present => NowTotal(c.key, c.job) = Total(c.statusCounts) + c.added
    BY <1>2, <1>3 DEF CountIs
  <1>7. /\ DOMAIN e = CountFields /\ e.state = "done" /\ e.job = c.job /\ e.key = c.key /\ e.added = c.added
        /\ e.statusCounts = c.statusCounts /\ e.depthCounts = D
    BY <1>5, <1>6 DEF CountFields
  <1>8. D \in [Uint -> Nat] /\ Total(D) = NowTotal(c.key, c.job)
    BY <1>4, <1>6, CountsNow
  <1>9. CountIs(e)
    BY <1>6, <1>7, <1>8 DEF CountIs
  <1>10. CountIs(e)'
    BY <1>2, <1>6, <1>7, <1>9, CountStays DEF Present
  <1>11. QED
    BY <1>4, <1>10 DEF CountSound

\* A page that crashes the server ends the request.
LEMMA CountUnderPage ==
  ASSUME StoreSound, StoreSound', CountSound, jobs' = jobs, deploy' = deploy, NEW p, NEW answer, NEW ids, TakePage(p, answer, ids)
  PROVE  CountSound'
  <1>1. CASE count' = count
    BY <1>1, CountUnderRows
  <1>2. CASE count.state = "half" /\ count' = [count EXCEPT !.state = "lost"]
    <2>1. PICK c, e : c = count /\ e = count'
      OBVIOUS
    <2>2. CountIs(c)
      BY <1>2, <2>1 DEF CountSound, Idle
    <2>3. /\ DOMAIN c = CountFields /\ c.job \in JobIds /\ jobs[c.job] # Nil /\ c.added \in Nat
          /\ c.statusCounts \in [String -> Nat] /\ Total(c.statusCounts) \in Nat
      BY <2>2 DEF CountIs
    <2>4. /\ DOMAIN e = CountFields /\ e.state = "lost" /\ e.job = c.job /\ e.added = c.added
          /\ e.statusCounts = c.statusCounts
      BY <1>2, <2>1, <2>3 DEF CountFields
    <2>5. CountIs(e)
      BY <2>3, <2>4 DEF CountIs
    <2>6. CountIs(e)'
      BY <2>4, <2>5, <2>3, CountStays DEF Present
    <2>7. QED
      BY <2>1, <2>6 DEF CountSound
  <1>3. QED
    BY <1>1, <1>2 DEF TakePage

\* Every step keeps the invariant of a count.
LEMMA CountSoundKept ==
  ASSUME StoreSound, StoreSound', CountSound, [ApiNext]_apiVars
  PROVE  CountSound'
  <1>1. deploy' = deploy
    BY ListsKept DEF StoreSound
  <1>2. ASSUME count' = count, jobs' = jobs PROVE CountSound'
    BY <1>1, <1>2, CountUnderRows
  <1>3. CASE UNCHANGED apiVars
    BY <1>2, <1>3 DEF apiVars, storeVars
  <1>4. CASE PureCall
    BY <1>2, <1>4 DEF PureCall, storeVars
  <1>5. ASSUME NEW door \in Doors, NEW caller \in Callers, NEW s \in load.submissions, CreateJob(door, caller, s)
        PROVE  CountSound'
    <2>1. JobCreated
      BY <1>5, CreateMakesRow
    <2>2. count' = count
      BY <1>5 DEF CreateJob, CreateCrawlJob
    <2>3. ASSUME NEW j \in JobIds, jobs[j] # Nil PROVE jobs'[j] = jobs[j]
      BY <2>1, <2>3 DEF JobCreated
    <2>4. QED
      BY <1>1, <2>2, <2>3, CountUnderRows
  <1>6. ASSUME NEW door \in Doors, NEW caller \in Callers, NEW j \in JobIds, DeleteJob(door, caller, j)
        PROVE  CountSound'
    <2>1. PICK d \in Present : jobs' = [jobs EXCEPT ![d] = Gone]
      BY <1>6, DeleteRemovesRow
    <2>2. count' = count
      BY <1>6 DEF DeleteJob
    <2>3. jobs \in [JobIds -> StoredJob \cup {Nil, Gone}]
      BY DEF StoreSound
    <2>4. \A i \in JobIds : jobs'[i] = jobs[i] \/ jobs'[i] = Gone
      BY <2>1, <2>3
    <2>5. QED
      BY <1>1, <2>2, <2>4, CountUnderRows
  <1>7. ASSUME NEW d \in JobIds, WorkerFinds(d) PROVE CountSound'
    BY <1>1, <1>7, CountUnderFind
  <1>8. ASSUME NEW d \in JobIds, WorkerCompletes(d) PROVE CountSound'
    <2>1. count' = count
      BY <1>8 DEF WorkerCompletes
    <2>2. RowsStep
      BY <1>8, CompleteChangesRow
    <2>3. ASSUME NEW j \in JobIds, jobs[j] # Nil
          PROVE  jobs'[j] = jobs[j] \/ (j \in Present /\ j \in Present' /\ RowTasks(jobs'[j]) = RowTasks(jobs[j]))
      <3>1. CASE j \in Present
        BY <1>8, <3>1, CompleteKeepsTasks
      <3>2. CASE j \notin Present
        BY <2>2, <3>2 DEF RowsStep
      <3>3. QED
        BY <3>1, <3>2
    <2>4. QED
      BY <1>1, <2>1, <2>3, CountUnderRows
  <1>9. ASSUME NEW done \in SUBSET JobIds, NEW failed \in SUBSET JobIds, ExportBatch(done, failed) PROVE CountSound'
    <2>1. count' = count
      BY <1>9 DEF ExportBatch, UpdateJob
    <2>2. RowsStep
      BY <1>9, ExportChangesRows
    <2>3. ASSUME NEW j \in JobIds, jobs[j] # Nil
          PROVE  jobs'[j] = jobs[j] \/ (j \in Present /\ j \in Present' /\ RowTasks(jobs'[j]) = RowTasks(jobs[j]))
      <3>1. CASE j \in Present
        BY <1>9, <3>1, ExportKeepsTasks
      <3>2. CASE j \notin Present
        BY <2>2, <3>2 DEF RowsStep
      <3>3. QED
        BY <3>1, <3>2
    <2>4. QED
      BY <1>1, <2>1, <2>3, CountUnderRows
  <1>10. CASE Tick
    BY <1>2, <1>10 DEF Tick
  <1>11. ASSUME NEW p, NEW req, AskJobs(p, req) PROVE CountSound'
    <2>1. jobs' = jobs
      BY <1>11 DEF AskJobs, storeVars
    <2>2. PICK answer, ids : TakePage(p, answer, ids)
      BY <1>11, Zenon DEF AskJobs
    <2>3. QED
      BY <1>1, <2>1, <2>2, CountUnderPage
  <1>12. ASSUME NEW p, NEW req, AskTasks(p, req) PROVE CountSound'
    <2>1. jobs' = jobs
      BY <1>12 DEF AskTasks, storeVars
    <2>2. PICK answer, ids : TakePage(p, answer, ids)
      BY <1>12, Zenon DEF AskTasks
    <2>3. QED
      BY <1>1, <2>1, <2>2, CountUnderPage
  <1>13. ASSUME NEW req, FirstJobs(req) PROVE CountSound'
    BY <1>11, <1>13, Zenon DEF FirstJobs
  <1>14. ASSUME NEW req, FirstTasks(req) PROVE CountSound'
    BY <1>12, <1>14, Zenon DEF FirstTasks
  <1>15. CASE NextJobs
    BY <1>11, <1>15, Zenon DEF NextJobs
  <1>16. CASE NextTasks
    BY <1>12, <1>16, Zenon DEF NextTasks
  <1>17. ASSUME NEW door \in Doors, NEW j \in JobIds, CountStatuses(door, j) PROVE CountSound'
    <2>1. PICK key : count' = [state |-> "half", job |-> j, key |-> key, added |-> 0,
                               statusCounts |-> StatusCounts(key, j), depthCounts |-> Nil]
      BY <1>17, Zenon DEF CountStatuses
    <2>2. jobs[j] # Nil /\ jobs' = jobs
      BY <1>17 DEF CountStatuses, storeVars
    <2>3. QED
      BY <1>1, <2>1, <2>2, CountBegins
  <1>18. CASE CountDepths
    BY <1>18, CountEnds
  <1>19. ASSUME NEW door \in Doors, NEW p \in PreviewIds, NEW url \in {"/a", "/link"}, NEW final \in {"/a", "/link"},
                NEW outcome \in PreviewOutcomes, CreatePreview(door, p, url, final, outcome)
         PROVE  CountSound'
    BY <1>2, <1>19 DEF CreatePreview, PreviewTx, storeVars
  <1>20. QED
    BY <1>3, <1>4, <1>5, <1>6, <1>7, <1>8, <1>9, <1>10, <1>13, <1>14, <1>15, <1>16, <1>17, <1>18, <1>19 DEF ApiNext

\* GetAnalyticsByJob, for every table and every interleaving of its two
\* statements with the workers: the depths add up to the statuses and the
\* tasks that the parser added between the two.
THEOREM AnalyticsAddUp == ApiSpec => []AnalyticsConsistent
  <1>1. ApiInit => StoreSound /\ CountSound
    BY StoreInit DEF ApiInit, CountSound
  <1>2. StoreSound /\ CountSound /\ [ApiNext]_apiVars => (StoreSound /\ CountSound)'
    <2> SUFFICES ASSUME StoreSound, CountSound, [ApiNext]_apiVars PROVE StoreSound' /\ CountSound'
      OBVIOUS
    <2>1. StoreSound'
      BY StoreKept
    <2>2. QED
      BY <2>1, CountSoundKept
  <1>3. CountSound => AnalyticsConsistent
    BY DEF CountSound, CountIs, Idle, AnalyticsConsistent
  <1>4. QED
    BY <1>1, <1>2, <1>3, PTL DEF ApiSpec

-----------------------------------------------------------------------------
(* Every answer is a message.                                              *)

\* A trimmed page consists of rows.
LEMMA FirstOfMany ==
  ASSUME NEW S, NEW rows \in Seq(S), NEW limit \in Nat \ {0}, NEW page, page = Trim(rows, limit)
  PROVE  /\ page \in Seq(S) /\ DOMAIN page = 1 .. Len(page)
         /\ \A i \in DOMAIN page : i \in DOMAIN rows /\ page[i] = rows[i]
  <1>1. PICK L \in Nat : L = Len(rows) /\ DOMAIN rows = 1 .. L
    BY LenProperties
  <1>2. CASE HasMore(rows, limit)
    <2>1. L > limit /\ page = SubSeq(rows, 1, limit)
      BY <1>1, <1>2 DEF Trim, HasMore
    <2>2. limit \in 0 .. Len(rows)
      BY <1>1, <2>1
    <2>3. page \in Seq(S) /\ Len(page) = limit /\ DOMAIN page = 1 .. limit /\ \A i \in 1 .. limit : page[i] = rows[i]
      BY <2>1, <2>2, FirstRows
    <2>4. QED
      BY <1>1, <2>1, <2>3
  <1>3. CASE ~HasMore(rows, limit)
    BY <1>1, <1>3 DEF Trim
  <1>4. QED
    BY <1>2, <1>3

\* One row per page is allowed.
LEMMA OneIsALimit == Limit(1) = 1 /\ 1 <= MaxLimit
  <1>1. MaxLimit \in Nat /\ DefaultLimit \in 1 .. MaxLimit
    BY ApiAssumption
  <1>2. QED
    BY <1>1 DEF Limit

\* An answer of ListJobs.
LEMMA JobsListTyped ==
  ASSUME StoreSound, NEW answer, answer = ListJobs(AllJobs(1))
  PROVE  answer \in Opt(ListJobsResponse(Opt(JobCursor)))
  <1>1. PICK req : req = AllJobs(1)
    OBVIOUS
  <1>2. req.cursor = Nil /\ req.limit = 1 /\ req.filter = Nil
    BY <1>1 DEF AllJobs
  <1>3. PICK limit \in Nat \ {0} : limit = 1 /\ limit = Limit(req.limit) /\ limit <= MaxLimit
    BY <1>2, OneIsALimit
  <1>4. PICK order : order = JobOrder(req)
    OBVIOUS
  <1>5. order.field \in {"created_at", "name", "status"} /\ order.asc \in BOOLEAN
    BY <1>2, <1>4, FirstOrders
  <1>6. PICK rows : rows = JobRows([cursor |-> req.cursor, limit |-> limit, filter |-> req.filter,
                                    sortField |-> order.field, sortAsc |-> order.asc])
    OBVIOUS
  <1>7. PICK page : page = Trim(rows, limit)
    OBVIOUS
  <1>8. ~JobFilterError(req.filter)
    BY <1>2, Zenon DEF JobFilterError
  <1>9. CASE \E i \in DOMAIN rows : ~Readable(jobs[rows[i]].config)
    <2>1. ~(limit < -1) /\ limit # -1
      BY <1>3
    <2>2. ListJobs(req) = Nil
      BY <1>3, <1>4, <1>6, <1>8, <1>9, <2>1, Zenon DEF ListJobs, ScanFails
    <2>3. QED
      BY <1>1, <2>2 DEF Opt
  <1>10. CASE \A i \in DOMAIN rows : Readable(jobs[rows[i]].config)
    <2>1. JobsAnswered(answer, req, order, limit, rows, page)
      BY <1>1, <1>3, <1>4, <1>6, <1>7, <1>8, <1>10, JobsAccepted
    <2>2. PICK ids, after, v, B : /\ ids = IdsOf(answer.jobs) /\ after = JobsAfter(req, order)
                                  /\ v = JobView(order.field, req.filter) /\ B = Rest(v, order.asc, after)
      OBVIOUS
    <2>3. JobsListed(ids, answer.hasMore, answer.nextCursor, order, v, B)
      BY <2>1, <2>2, JobsPage, Zenon
    <2>4. /\ answer.jobs = [i \in DOMAIN page |->
                              ToProtoCrawlJob(RestoreCrawlJobFromSnapshot(jobs[page[i]].job),
                                              RestoreCrawlJobConfigFromSnapshot(jobs[page[i]].config))]
          /\ answer = [jobs |-> answer.jobs, nextCursor |-> answer.nextCursor, hasMore |-> answer.hasMore]
      BY <2>1 DEF JobsAnswered
    <2>5. rows \in Seq(Present)
      <3>1. PICK pos : pos = [j \in {j \in Present : JobMatches(j, req.filter)} |-> JobPosition(order.field, JobRow(j))]
        OBVIOUS
      <3>2. PICK q : q = [cursor |-> req.cursor, limit |-> limit, filter |-> req.filter,
                          sortField |-> order.field, sortAsc |-> order.asc]
        OBVIOUS
      <3>3. rows = Seek(pos, order.asc, Nil, limit)
        BY <1>2, <1>6, <3>1, <3>2, JobRowsSought
      <3>4. ViewSound(v) /\ v.now = Present
        BY <2>2, JobViewSound DEF JobView
      <3>5. DOMAIN pos \in SUBSET Present /\ \A r \in DOMAIN pos : pos[r] = v.at[r]
        BY <2>2, <3>1 DEF JobView
      <3>6. IsFiniteSet(DOMAIN pos) /\ Apart(DOMAIN pos, pos)
        BY <3>4, <3>5, FS_Subset DEF ViewSound, Apart
      <3>7. PICK C : C = {r \in DOMAIN pos : Nil = Nil \/ InOrder(order.asc, Nil, pos[r])}
        OBVIOUS
      <3>8. rows \in Seq(C)
        BY <3>3, <3>6, <3>7, SeekSpec
      <3>9. C \subseteq Present
        BY <3>5, <3>7
      <3>10. QED
        BY <3>8, <3>9
    <2>6. /\ page \in Seq(Present) /\ DOMAIN page = 1 .. Len(page)
          /\ \A i \in DOMAIN page : i \in DOMAIN rows /\ page[i] = rows[i]
      BY <1>7, <2>5, FirstOfMany
    <2>7. ASSUME NEW i \in DOMAIN page PROVE answer.jobs[i] \in CrawlJob
      <3>1. PICK j \in Present : j = page[i]
        BY <2>6
      <3>2. Readable(jobs[j].config)
        BY <1>10, <2>6, <3>1
      <3>3. PICK r : r = jobs[j] /\ RowSound(j, r) /\ j \in JobIds
        BY <3>1, PresentRows
      <3>4. Resolve(Nil) = 0
        BY DEF Resolve
      <3>5. /\ r.config \in ConfigModel /\ RestoreCrawlJobConfigFromSnapshot(r.config) = r.config
            /\ RestoreCrawlJobFromSnapshot(r.job) = r.job
        BY <3>2, <3>3, <3>4, RowRead
      <3>6. r.job \in JobModel
        BY <3>3 DEF RowSound, StoredJob
      <3>7. ToProtoCrawlJob(r.job, r.config) \in CrawlJob
        BY <3>5, <3>6, JobTyped DEF Opt
      <3>8. answer.jobs[i] = ToProtoCrawlJob(r.job, r.config)
        BY <2>4, <3>1, <3>3, <3>5
      <3>9. QED
        BY <3>7, <3>8
    <2>8. answer.jobs \in Seq(CrawlJob)
      <3>1. PICK L \in Nat : L = Len(page)
        BY <2>6, LenProperties
      <3>2. PICK js : js = answer.jobs
        OBVIOUS
      <3>3. DOMAIN js = 1 .. L /\ js = [i \in 1 .. L |-> js[i]] /\ \A i \in 1 .. L : js[i] \in CrawlJob
        BY <2>4, <2>6, <2>7, <3>1, <3>2
      <3>4. js \in Seq(CrawlJob)
        BY <3>3
      <3>5. QED
        BY <3>2, <3>4
    <2>9. answer.hasMore \in BOOLEAN /\ answer.nextCursor \in Opt(JobCursor)
      <3>1. /\ ids \in Seq(Present) /\ answer.hasMore \in BOOLEAN /\ PageOf(ids, answer.hasMore, B, v.at, order.asc)
            /\ answer.hasMore => answer.nextCursor = JobCursorAt(JobRow(ids[Len(ids)]), order)
            /\ ~answer.hasMore => answer.nextCursor = Nil
        BY <2>3 DEF JobsListed
      <3>2. ASSUME answer.hasMore PROVE answer.nextCursor \in JobCursor
        <4>1. Len(ids) \in DOMAIN ids
          BY <3>1, <3>2 DEF PageOf
        <4>2. PICK j : j = ids[Len(ids)] /\ j \in Present
          BY <3>1, <4>1
        <4>3. PICK c : c = JobCursorAt(JobRow(j), order)
          OBVIOUS
        <4>4. c \in JobCursor
          BY <1>5, <4>2, <4>3, JobCursorType
        <4>5. QED
          BY <3>1, <3>2, <4>2, <4>3, <4>4
      <3>3. QED
        BY <3>1, <3>2 DEF Opt
    <2>10. QED
      <3>1. PICK js, c, m : js = answer.jobs /\ c = answer.nextCursor /\ m = answer.hasMore
        OBVIOUS
      <3>2. answer = [jobs |-> js, nextCursor |-> c, hasMore |-> m]
        BY <2>4, <3>1
      <3>3. [jobs |-> js, nextCursor |-> c, hasMore |-> m] \in ListJobsResponse(Opt(JobCursor))
        BY <2>8, <2>9, <3>1 DEF ListJobsResponse
      <3>4. QED
        BY <3>2, <3>3 DEF Opt
  <1>11. QED
    BY <1>9, <1>10

\* The tasks of a job that a list may be about, in the order of the list.
LEMMA TasksSought ==
  ASSUME StoreSound, NEW j \in Present, NEW D \in SUBSET Tasks(j), NEW field, NEW asc, NEW limit \in Nat \ {0},
         NEW pos, pos = [n \in D |-> TaskPosition(field, Task(j, n))]
  PROVE  Seek(pos, asc, Nil, limit) \in Seq(Tasks(j))
  <1>1. PICK r : r = jobs[j] /\ RowSound(j, r) /\ j \in JobIds
    BY PresentRows
  <1>2. Tasks(j) = RowTasks(r) /\ \A n : Task(j, n) = RowTask(j, r, n)
    BY <1>1, TasksOfRow
  <1>3. PICK v : v = RowView(j, r, D, field, Nil)
    OBVIOUS
  <1>4. ViewSound(v)
    BY <1>1, <1>2, <1>3, RowViewSound
  <1>5. ASSUME NEW n \in D
        PROVE  /\ v.at[RowTask(j, r, n).id] = pos[n] /\ RowTask(j, r, n).id \in v.now
               /\ \A m \in D : RowTask(j, r, m).id = RowTask(j, r, n).id => m = n
    <2>1. v.at[RowTask(j, r, n).id] = TaskPosition(field, RowTask(j, r, n))
      BY <1>1, <1>2, <1>3, TaskAt
    <2>2. \A m \in D : RowTask(j, r, m).id = RowTask(j, r, n).id => m = n
      BY <1>1, <1>2, TaskColumns
    <2>3. RowTask(j, r, n).id \in v.now
      BY <1>3 DEF RowView
    <2>4. QED
      BY <1>2, <2>1, <2>2, <2>3
  <1>6. Apart(DOMAIN pos, pos)
    BY <1>4, <1>5 DEF ViewSound, Apart
  <1>7. IsFiniteSet(DOMAIN pos)
    <2>1. PICK L \in Nat : RowTasks(r) \subseteq 1 .. (L + 1)
      BY <1>1, RowLengths
    <2>2. IsFiniteSet(1 .. (L + 1)) /\ D \in SUBSET (1 .. (L + 1))
      BY <1>2, <2>1, FS_Interval
    <2>3. QED
      BY <2>2, FS_Subset
  <1>8. PICK C : C = {n \in DOMAIN pos : Nil = Nil \/ InOrder(asc, Nil, pos[n])}
    OBVIOUS
  <1>9. PICK s : s = Seek(pos, asc, Nil, limit)
    OBVIOUS
  <1>10. s \in Seq(C)
    BY <1>6, <1>7, <1>8, <1>9, SeekSpec
  <1>11. C \subseteq Tasks(j)
    BY <1>8
  <1>12. QED
    BY <1>9, <1>10, <1>11

\* The rows of the list, with the key of the job or without one.
LEMMA TaskRowsTyped ==
  ASSUME StoreSound, NEW j \in Present, NEW key \in {Nil, j}, NEW limit \in Nat \ {0}, NEW field, NEW asc,
         NEW q, q = [cursor |-> Nil, limit |-> limit, filter |-> Nil, jobId |-> j, sortField |-> field, sortAsc |-> asc]
  PROVE  TaskRows(key, q) \in Seq(Tasks(j))
  <1> DEFINE found(s) == IF j \in On(s) THEN {n \in Tasks(j) : TaskMatches(Task(j, n), Nil)} ELSE {}
             place(s) == [n \in found(s) |-> TaskPosition(field, Task(j, n))]
             rows == [s \in Shards |-> Seek(place(s), asc, Nil, limit)]
  <1>1. TaskRows(key, q) = Query(key, rows)
    BY DEF TaskRows
  <1>2. \A s \in Shards : rows[s] \in Seq(Tasks(j))
    <2>1. ASSUME NEW s \in Shards PROVE Seek(place(s), asc, Nil, limit) \in Seq(Tasks(j))
      <3>1. PICK D \in SUBSET Tasks(j) : D = found(s)
        OBVIOUS
      <3>2. PICK pos : pos = [n \in D |-> TaskPosition(field, Task(j, n))]
        OBVIOUS
      <3>3. Seek(pos, asc, Nil, limit) \in Seq(Tasks(j))
        BY <3>2, TasksSought
      <3>4. QED
        BY <3>1, <3>2, <3>3
    <2>2. QED
      BY <2>1
  <1>3. deploy.shards \in Nat \ {0} /\ 0 \in Shards
    BY DEF StoreSound, Shards
  <1>4. \A s \in Shards \ {0} : rows[s] = <<>>
    <2>1. ASSUME NEW s \in Shards \ {0} PROVE Seek(place(s), asc, Nil, limit) = <<>>
      <3>1. PICK none : none = place(s)
        OBVIOUS
      <3>2. DOMAIN none = {}
        BY <3>1, FirstShard
      <3>3. QED
        BY <3>1, <3>2, SeekNone
    <2>2. QED
      BY <2>1
  <1> HIDE DEF rows
  <1>5. CASE key = Nil
    <2>1. PICK first : first = rows[0] /\ first \in Seq(Tasks(j))
      BY <1>2, <1>3
    <2>2. Query(Nil, rows) = first
      BY <1>3, <1>4, <2>1, QueryFirst
    <2>3. QED
      BY <1>1, <1>5, <2>1, <2>2
  <1>6. CASE key # Nil
    <2>1. Query(key, rows) = rows[Resolve(key)]
      BY <1>6 DEF Query
    <2>2. Resolve(key) \in Shards
      <3>1. key = j /\ j \in JobIds
        BY <1>6 DEF Present
      <3>2. PICK n \in Nat \ {0} : n = deploy.shards
        BY <1>3
      <3>3. Hash[j] \in Nat
        BY <3>1, StoreAssumption
      <3>4. Hash[j] % n \in 0 .. n - 1
        BY <3>3
      <3>5. QED
        BY <1>6, <3>1, <3>2, <3>4 DEF Resolve, ShardIndex, Shards
    <2>3. QED
      BY <1>1, <1>2, <2>1, <2>2
  <1>7. QED
    BY <1>5, <1>6

\* An answer of ListTasksByJob.
LEMMA TasksListTyped ==
  ASSUME StoreSound, NEW j \in Present, NEW key \in {Nil, j}, NEW answer, answer = ListTasksByJob(key, AllTasks(j, 1))
  PROVE  answer \in ListTasksByJobResponse(Opt(TaskCursor))
  <1>1. PICK req : req = AllTasks(j, 1)
    OBVIOUS
  <1>2. req.cursor = Nil /\ req.limit = 1 /\ req.filter = Nil /\ req.jobId = j
    BY <1>1 DEF AllTasks
  <1>3. PICK limit \in Nat \ {0} : limit = 1 /\ limit = Limit(req.limit) /\ limit <= MaxLimit
    BY <1>2, OneIsALimit
  <1>4. PICK order : order = TaskOrder(req)
    OBVIOUS
  <1>5. order.field \in {"enqueued_at", "url", "status", "depth"} /\ order.asc \in BOOLEAN
    BY <1>2, <1>4, FirstOrders
  <1>6. PICK rows : rows = TaskRows(key, [cursor |-> req.cursor, limit |-> limit, filter |-> req.filter,
                                          jobId |-> req.jobId, sortField |-> order.field, sortAsc |-> order.asc])
    OBVIOUS
  <1>7. PICK page : page = Trim(rows, limit)
    OBVIOUS
  <1>8. ~TaskFilterError(req.filter)
    BY <1>2, Zenon DEF TaskFilterError
  <1>9. TasksAnswered(answer, key, req, order, limit, rows, page)
    BY <1>1, <1>3, <1>4, <1>6, <1>7, <1>8, TasksAccepted
  <1>10. rows \in Seq(Tasks(j))
    <2>1. PICK q : q = [cursor |-> Nil, limit |-> limit, filter |-> Nil, jobId |-> j,
                        sortField |-> order.field, sortAsc |-> order.asc]
      OBVIOUS
    <2>2. TaskRows(key, q) \in Seq(Tasks(j))
      BY <2>1, TaskRowsTyped
    <2>3. QED
      BY <1>2, <1>6, <2>1, <2>2
  <1>11. /\ page \in Seq(Tasks(j)) /\ DOMAIN page = 1 .. Len(page)
    BY <1>7, <1>10, FirstOfMany
  <1>12. /\ answer.tasks = [i \in DOMAIN page |-> ToProtoCrawlTask(Task(j, page[i]), Nil)]
         /\ answer.hasMore = HasMore(rows, limit)
         /\ HasMore(rows, limit) /\ Len(page) \in DOMAIN page /\ page \in Seq(Int)
              => answer.nextCursor = TaskCursorAt(Task(j, page[Len(page)]), order)
         /\ ~HasMore(rows, limit) => answer.nextCursor = Nil
         /\ answer = [tasks |-> answer.tasks, nextCursor |-> answer.nextCursor, hasMore |-> answer.hasMore]
    BY <1>2, <1>9 DEF TasksAnswered
  <1>13. PICK r : r = jobs[j] /\ RowSound(j, r) /\ j \in JobIds
    BY PresentRows
  <1>14. Tasks(j) = RowTasks(r) /\ \A n : Task(j, n) = RowTask(j, r, n)
    BY <1>13, TasksOfRow
  <1>15. ASSUME NEW n \in Tasks(j)
         PROVE  ToProtoCrawlTask(Task(j, n), Nil) \in CrawlTask /\ TaskCursorAt(Task(j, n), order) \in TaskCursor
    <2>1. PICK t : t = Task(j, n)
      OBVIOUS
    <2>2. t \in TaskModel
      BY <1>13, <1>14, <2>1, TaskIsModel
    <2>3. ToProtoCrawlTask(t, Nil) \in CrawlTask
      BY <2>2 DEF TaskModel, CrawlTask, ToProtoCrawlTask, Opt
    <2>4. PICK c : c = TaskCursorAt(t, order)
      OBVIOUS
    <2>5. c \in TaskCursor
      BY <1>5, <1>13, <1>14, <2>1, <2>4, TaskCursorType
    <2>6. QED
      BY <2>1, <2>3, <2>4, <2>5
  <1>16. answer.tasks \in Seq(CrawlTask)
    <2>1. PICK L \in Nat : L = Len(page)
      BY <1>11, LenProperties
    <2>2. PICK ts : ts = answer.tasks
      OBVIOUS
    <2>3. ts = [i \in 1 .. L |-> ToProtoCrawlTask(Task(j, page[i]), Nil)]
      BY <1>11, <1>12, <2>1, <2>2
    <2>4. \A i \in 1 .. L : page[i] \in Tasks(j)
      BY <1>11, <2>1
    <2>5. \A i \in 1 .. L : ToProtoCrawlTask(Task(j, page[i]), Nil) \in CrawlTask
      BY <1>15, <2>4
    <2>6. ts \in Seq(CrawlTask)
      BY <2>3, <2>5
    <2>7. QED
      BY <2>2, <2>6
  <1>17. answer.hasMore \in BOOLEAN /\ answer.nextCursor \in Opt(TaskCursor)
    <2>1. answer.hasMore \in BOOLEAN
      <3>1. HasMore(rows, limit) \in BOOLEAN
        BY DEF HasMore
      <3>2. QED
        BY <1>12, <3>1, Zenon
    <2>2. CASE HasMore(rows, limit)
      <3>1. PICK L \in Nat : L = Len(rows) /\ L > limit /\ page = SubSeq(rows, 1, limit)
        BY <1>7, <1>10, <2>2, LenProperties DEF HasMore, Trim
      <3>2. limit \in 0 .. Len(rows)
        BY <3>1
      <3>3. Len(page) = limit /\ DOMAIN page = 1 .. limit
        BY <1>10, <3>1, <3>2, FirstRows
      <3>4. Len(page) \in DOMAIN page
        BY <3>3
      <3>5. page \in Seq(Int)
        <4>1. Tasks(j) \subseteq Int
          <5>1. PICK L2 \in Nat : RowTasks(r) \subseteq 1 .. (L2 + 1)
            BY <1>13, RowLengths
          <5>2. QED
            BY <1>14, <5>1
        <4>2. QED
          BY <1>11, <4>1
      <3>6. page[Len(page)] \in Tasks(j)
        BY <1>11, <3>4
      <3>7. answer.nextCursor = TaskCursorAt(Task(j, page[Len(page)]), order)
        BY <1>12, <2>2, <3>4, <3>5
      <3>8. QED
        BY <1>15, <2>1, <3>6, <3>7 DEF Opt
    <2>3. CASE ~HasMore(rows, limit)
      BY <1>12, <2>1, <2>3 DEF Opt
    <2>4. QED
      BY <2>2, <2>3
  <1>18. PICK ts, c, m : ts = answer.tasks /\ c = answer.nextCursor /\ m = answer.hasMore
    OBVIOUS
  <1>19. answer = [tasks |-> ts, nextCursor |-> c, hasMore |-> m]
    BY <1>12, <1>18
  <1>20. [tasks |-> ts, nextCursor |-> c, hasMore |-> m] \in ListTasksByJobResponse(Opt(TaskCursor))
    BY <1>16, <1>17, <1>18 DEF ListTasksByJobResponse
  <1>21. QED
    BY <1>19, <1>20

\* A presigned link.
LEMMA LinkTyped ==
  ASSUME NEW k \in Opt(String)
  PROVE  Link(k) \in Opt(GetTaskFileURLResponse) /\ Link(k) \in Opt(GetJobExportFileURLResponse)
  <1>1. CASE k \in {Nil, ""}
    BY <1>1 DEF Link, Opt
  <1>2. CASE k \notin {Nil, ""}
    <2>1. k \in String
      BY <1>2 DEF Opt
    <2>2. Link(k) = [url |-> k, expiresInSeconds |-> 600]
      BY <1>2 DEF Link
    <2>3. [url |-> k, expiresInSeconds |-> 600] \in [url : String, expiresInSeconds : Nat]
      BY <2>1
    <2>4. QED
      BY <2>2, <2>3 DEF Opt, GetTaskFileURLResponse, GetJobExportFileURLResponse
  <1>3. QED
    BY <1>1, <1>2

\* A job is read from the first shard, or not at all.
LEMMA JobAnswersTyped ==
  ASSUME StoreSound, NEW j \in Present, NEW key
  PROVE  /\ GetJobHandler(key, j) \in Opt(GetJobResponse)
         /\ GetJobExportFileURL(key, [jobId |-> j, fileType |-> "csv"]) \in Opt(GetJobExportFileURLResponse)
  <1>1. PICK r : r = jobs[j] /\ RowSound(j, r) /\ j \in JobIds
    BY PresentRows
  <1>2. PICK req : req = [jobId |-> j, fileType |-> "csv"]
    OBVIOUS
  <1>3. req.jobId = j /\ req.fileType = "csv"
    BY <1>2
  <1>4. CASE GetJob(key, j) = Nil
    <2>1. GetJobHandler(key, j) = Nil
      BY <1>4, Zenon DEF GetJobHandler
    <2>2. GetJobExportFileURL(key, req) = Nil
      BY <1>3, <1>4, Zenon DEF GetJobExportFileURL
    <2>3. QED
      BY <1>2, <2>1, <2>2 DEF Opt
  <1>5. CASE GetJob(key, j) # Nil
    <2>1. j \in On(Resolve(key)) /\ Readable(r.config)
      BY <1>1, <1>5 DEF GetJob, ScanJob
    <2>2. Resolve(key) = 0
      BY <1>1, <2>1 DEF On, RowSound
    <2>3. GetJobHandler(key, j) \in GetJobResponse /\ RestoreCrawlJobFromSnapshot(r.job) = r.job
      BY <1>1, <2>1, <2>2, RowRead
    <2>4. PICK row : row = GetJob(key, j)
      OBVIOUS
    <2>5. row.job = r.job
      BY <1>1, <2>1, <2>3, <2>4 DEF GetJob, ScanJob
    <2>6. GetJobExportFileURL(key, req) = Link(row.job.exportCSVKey)
      BY <1>3, <1>5, <2>4 DEF GetJobExportFileURL
    <2>7. r.job.exportCSVKey \in Opt(String)
      BY <1>1 DEF RowSound, StoredJob, JobModel
    <2>8. GetJobExportFileURL(key, req) \in Opt(GetJobExportFileURLResponse)
      BY <2>5, <2>6, <2>7, LinkTyped
    <2>9. QED
      BY <1>2, <2>3, <2>8 DEF Opt
  <1>6. QED
    BY <1>4, <1>5

\* The answers about one task.
LEMMA TaskAnswersTyped ==
  ASSUME StoreSound, NEW j \in Present, NEW key, NEW n \in Tasks(j)
  PROVE  /\ GetTaskHandler(key, Task(j, n).id) \in Opt(GetTaskResponse)
         /\ GetTaskFileURL(key, [taskId |-> Task(j, n).id, fileType |-> "result"]) \in Opt(GetTaskFileURLResponse)
  <1>1. PICK id : id = Task(j, n).id
    OBVIOUS
  <1>2. PICK req : req = [taskId |-> id, fileType |-> "result"]
    OBVIOUS
  <1>3. req.taskId = id /\ req.fileType = "result"
    BY <1>2
  <1>4. CASE j \notin On(Resolve(key))
    <2>1. On(Resolve(key)) = {}
      <3>1. \A i \in Present : jobs[i].shard = 0
        BY PresentRows DEF RowSound
      <3>2. QED
        BY <1>4, <3>1 DEF On
    <2>2. UNION {{<<i, m>> : m \in {m \in Tasks(i) : Task(i, m).id = id}} : i \in On(Resolve(key))} = {}
      BY <2>1
    <2>3. GetTask(key, id) = Nil
      BY <2>2, Zenon DEF GetTask, RestoreCrawlTaskWithJobFromSnapshot
    <2>4. GetTaskHandler(key, id) = Nil
      BY <2>3, Zenon DEF GetTaskHandler
    <2>5. GetTaskFileURL(key, req) = Nil
      BY <1>3, <2>3, Zenon DEF GetTaskFileURL
    <2>6. QED
      BY <1>1, <1>2, <2>4, <2>5 DEF Opt
  <1>5. CASE j \in On(Resolve(key))
    <2>1. PICK q \in JobModel : /\ GetTask(key, id) = [task |-> Task(j, n), job |-> q] /\ GetTask(key, id) # Nil
                                /\ Task(j, n) \in TaskModel /\ GetTaskHandler(key, id) \in GetTaskResponse
      BY <1>1, <1>5, TaskRead
    <2>2. PICK row : row = GetTask(key, id)
      OBVIOUS
    <2>3. row # Nil /\ row.task = Task(j, n)
      BY <2>1, <2>2
    <2>4. GetTaskFileURL(key, req) = Link(row.task.resultObjectKey)
      BY <1>3, <2>2, <2>3 DEF GetTaskFileURL
    <2>5. row.task.resultObjectKey \in Opt(String)
      BY <2>1, <2>3 DEF TaskModel
    <2>6. GetTaskFileURL(key, req) \in Opt(GetTaskFileURLResponse)
      BY <2>4, <2>5, LinkTyped
    <2>7. QED
      BY <1>1, <1>2, <2>1, <2>6 DEF Opt
  <1>6. QED
    BY <1>4, <1>5

-----------------------------------------------------------------------------
(* ApiTypeOK.                                                              *)

\* The previews have their type.
PreviewsTyped == previews \in [PreviewIds -> Opt(Preview)]

\* Every step keeps the type of the previews.
LEMMA PreviewsTypedKept ==
  ASSUME StoreSound, PreviewsTyped, [ApiNext]_apiVars
  PROVE  PreviewsTyped'
  <1>1. CASE UNCHANGED previews
    BY <1>1 DEF PreviewsTyped
  <1>2. ASSUME NEW door \in Doors, NEW p \in PreviewIds, NEW url \in {"/a", "/link"}, NEW final \in {"/a", "/link"},
               NEW outcome, CreatePreview(door, p, url, final, outcome)
        PROVE  PreviewsTyped'
    <2>1. {"/a", "/link", "text/html"} \subseteq String /\ PreviewIds \subseteq String
      BY ApiAssumption
    <2>2. PICK to : to = IF final # url THEN final ELSE Nil
      OBVIOUS
    <2>3. to \in Opt(String)
      BY <2>1, <2>2, Zenon DEF Opt
    <2>4. clock \in Opt(Timestamp) /\ Nil \in Opt(Timestamp)
      BY DEF StoreSound, Opt
    <2>5. PICK row : row = PreviewRow(p, url, final)
      OBVIOUS
    <2>6. row = [id |-> p, sourceUrl |-> url, finalUrl |-> to, minioKey |-> p,
                 contentType |-> "text/html", downloadUrl |-> p, createdAt |-> clock, expiresAt |-> Nil]
      BY <2>2, <2>5, Zenon DEF PreviewRow
    <2>7. row \in Preview
      BY <2>1, <2>3, <2>4, <2>6 DEF Preview
    <2>8. previews' = [previews EXCEPT ![p] = row] \/ previews' = previews
      BY <1>2, <2>5 DEF CreatePreview, PreviewTx
    <2>9. QED
      BY <2>7, <2>8 DEF PreviewsTyped, Opt
  <1>3. QED
    BY <1>1, <1>2 DEF ApiNext, apiVars, PureCall, CreateJob, CreateCrawlJob, DeleteJob, WorkerFinds, WorkerCompletes, ExportBatch, UpdateJob,
                      Tick, FirstJobs, FirstTasks, NextJobs, NextTasks, AskJobs, AskTasks, CountStatuses, CountDepths

\* An answer of GetPreview.
LEMMA PreviewAnswersTyped ==
  ASSUME PreviewsTyped, NEW p \in PreviewIds
  PROVE  GetPreview(p) \in Opt(GetPreviewResponse)
  <1>1. CASE previews[p] = Nil
    BY <1>1 DEF GetPreview, ToProtoPreview, Opt
  <1>2. CASE previews[p] # Nil
    <2>1. PICK row \in Preview : row = previews[p]
      BY <1>2 DEF PreviewsTyped, Opt
    <2>a. ToProtoPreview(row) = row
      BY DEF ToProtoPreview, Preview
    <2>2. GetPreview(p) = [preview |-> row]
      BY <1>2, <2>1, <2>a DEF GetPreview
    <2>3. [preview |-> row] \in GetPreviewResponse
      BY DEF GetPreviewResponse, Opt
    <2>4. QED
      BY <2>2, <2>3 DEF Opt
  <1>3. QED
    BY <1>1, <1>2

\* An answer of GetTaskAnalytics.
LEMMA AnalyticsTyped ==
  ASSUME CountSound, count.state = "done"
  PROVE  GetTaskAnalytics \in GetTaskAnalyticsResponse
  <1>1. CountIs(count)
    BY DEF CountSound, Idle
  <1>2. PICK s, d, t : s = count.statusCounts /\ d = count.depthCounts /\ t = Total(count.statusCounts)
    OBVIOUS
  <1>3. s \in [String -> Nat] /\ d \in [Uint -> Nat] /\ t \in Nat
    BY <1>1, <1>2 DEF CountIs
  <1>4. GetTaskAnalytics = [analytics |-> [statusCounts |-> s, depthCounts |-> d, totalCount |-> t]]
    BY <1>2, Zenon DEF GetTaskAnalytics
  <1>5. PICK a : a = [statusCounts |-> s, depthCounts |-> d, totalCount |-> t]
    OBVIOUS
  <1>6. a \in TaskAnalytics
    BY <1>3, <1>5 DEF TaskAnalytics
  <1>7. QED
    BY <1>4, <1>5, <1>6 DEF GetTaskAnalyticsResponse, Opt

\* The state and the cursor of a pass.
LEMMA PassTyped ==
  ASSUME PassSound
  PROVE  /\ pass.state \in {"idle", "open", "done", "failed"}
         /\ pass # Idle /\ pass.cursor # Nil => pass.cursor \in (IF pass.kind = "jobs" THEN JobCursor ELSE TaskCursor)
  <1>1. CASE pass = Idle
    BY <1>1 DEF Idle
  <1>2. CASE pass # Idle
    <2>1. PassIs(pass)
      BY <1>2 DEF PassSound
    <2>2. pass.state \in {"open", "done", "failed"} /\ CursorTyped(pass)
      BY <2>1 DEF PassIs
    <2>3. QED
      BY <2>2 DEF CursorTyped
  <1>3. QED
    BY <1>1, <1>2

\* The requests for a page.
LEMMA ListsTyped ==
  ASSUME StoreSound
  PROVE  load.jobLists \subseteq ListJobsRequest(JobCursor) /\ load.taskLists \subseteq ListTasksByJobRequest(TaskCursor)
  <1>1. ListJobsRequest({}) \subseteq ListJobsRequest(JobCursor)
    BY DEF ListJobsRequest, Opt
  <1>2. ListTasksByJobRequest({}) \subseteq ListTasksByJobRequest(TaskCursor)
    BY DEF ListTasksByJobRequest, Opt
  <1>3. QED
    BY <1>1, <1>2 DEF StoreSound, LoadSound

\* The invariants imply the type.
LEMMA StateTyped ==
  ASSUME StoreSound, PassSound, CountSound, PreviewsTyped, EveryCallIsChecked
  PROVE  ApiTypeOK
  <1>1. jobs \in [JobIds -> StoredJob \cup {Nil, Gone}] /\ clock \in Timestamp
    BY DEF StoreSound
  <1>2. \A j \in Present : jobs[j].shard < deploy.shards
    <2>1. \A j \in Present : jobs[j].shard = 0
      BY PresentRows DEF RowSound
    <2>2. deploy.shards \in Nat \ {0}
      BY DEF StoreSound
    <2>3. QED
      BY <2>1, <2>2
  <1>3. misserved \subseteq Methods \cup {"CrawlQueues"}
    BY DEF EveryCallIsChecked
  <1>4. count.state \in {"idle", "half", "done", "lost"}
    BY DEF CountSound, CountIs, Idle
  <1>5. ASSUME NEW j \in Present, NEW key \in {Nil, j}
        PROVE  /\ GetJobHandler(key, j) \in Opt(GetJobResponse)
               /\ GetJobExportFileURL(key, [jobId |-> j, fileType |-> "csv"]) \in Opt(GetJobExportFileURLResponse)
               /\ ListTasksByJob(key, AllTasks(j, 1)) \in ListTasksByJobResponse(Opt(TaskCursor))
               /\ \A n \in Tasks(j) :
                    /\ GetTaskHandler(key, Task(j, n).id) \in Opt(GetTaskResponse)
                    /\ GetTaskFileURL(key, [taskId |-> Task(j, n).id, fileType |-> "result"]) \in Opt(GetTaskFileURLResponse)
    BY JobAnswersTyped, TasksListTyped, TaskAnswersTyped
  <1>6. ListJobs(AllJobs(1)) \in Opt(ListJobsResponse(Opt(JobCursor)))
    BY JobsListTyped
  <1>7. \A p \in PreviewIds : GetPreview(p) \in Opt(GetPreviewResponse)
    BY PreviewAnswersTyped
  <1>8. QED
    BY <1>1, <1>2, <1>3, <1>4, <1>5, <1>6, <1>7, PassTyped, AnalyticsTyped, ListsTyped DEF ApiTypeOK

\* The state of the API server has its type, and every answer of its
\* handlers is a well-formed message of models.proto, in every reachable
\* state and for every workload.
THEOREM AnswersAreMessages == ApiSpec => []ApiTypeOK
  <1>1. ApiInit => StoreSound /\ PassSound /\ CountSound /\ PreviewsTyped
    <2>1. ApiInit => PreviewsTyped
      BY DEF ApiInit, PreviewsTyped, Opt
    <2>2. ApiInit => PassSound /\ CountSound
      BY DEF ApiInit, PassSound, CountSound
    <2>3. QED
      BY <2>1, <2>2, StoreInit
  <1>2. StoreSound /\ PassSound /\ CountSound /\ PreviewsTyped /\ [ApiNext]_apiVars
        => (StoreSound /\ PassSound /\ CountSound /\ PreviewsTyped)'
    <2> SUFFICES ASSUME StoreSound, PassSound, CountSound, PreviewsTyped, [ApiNext]_apiVars
                 PROVE  StoreSound' /\ PassSound' /\ CountSound' /\ PreviewsTyped'
      OBVIOUS
    <2>1. StoreSound'
      BY StoreKept
    <2>2. QED
      BY <2>1, PassSoundKept, CountSoundKept, PreviewsTypedKept
  <1>3. StoreSound /\ PassSound /\ CountSound /\ PreviewsTyped /\ EveryCallIsChecked => ApiTypeOK
    BY StateTyped
  <1>4. QED
    BY <1>1, <1>2, <1>3, CallsAreChecked, PTL DEF ApiSpec

=============================================================================
