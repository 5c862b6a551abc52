----------------------------- MODULE ListingProofs -----------------------------
(***************************************************************************)
(* Theorems about Listing, for any rows, queries, page size and number of  *)
(* changes to the table.                                                   *)
(***************************************************************************)
EXTENDS Listing, FiniteSetTheorems, SequenceTheorems, TLAPS

-------------------------------------------------------------------------------
\* Lemmas about sequences.

LEMMA FunctionIsSeq ==
  ASSUME NEW W, NEW n \in Nat, NEW s \in [1..n -> W]
  PROVE  s \in Seq(W) /\ Len(s) = n /\ DOMAIN s = 1..n
  BY SeqDef

Increasing(f) == \A k, l \in DOMAIN f : k < l => f[k] < f[l]

\* The k-th of some places is the one that has k - 1 of them before it.
LEMMA Ranks ==
  ASSUME NEW n \in Nat, NEW H \in SUBSET (1..n)
  PROVE  /\ Cardinality(H) \in Nat
         /\ \E place \in [1..Cardinality(H) -> H] :
              /\ \A k \in 1..Cardinality(H) :
                   place[k] = CHOOSE i \in H : Before(H, i) = k - 1
              /\ Increasing(place)
              /\ \A i \in H : \E k \in 1..Cardinality(H) : place[k] = i
<1> DEFINE c == Cardinality(H)
           P(i) == {j \in H : j < i}
           rank == [i \in H |-> Before(H, i) + 1]
           place == [k \in 1..c |-> CHOOSE i \in H : Before(H, i) = k - 1]
<1>1. IsFiniteSet(H) /\ H \subseteq Nat
  <2>1. IsFiniteSet(1..n) BY FS_Interval
  <2>2. IsFiniteSet(H) BY <2>1, FS_Subset
  <2>3. H \subseteq Nat OBVIOUS
  <2> QED BY <2>2, <2>3
<1>2. c \in Nat BY <1>1, FS_CardinalityType
<1>3. ASSUME NEW i \in H
      PROVE  /\ P(i) \in SUBSET H /\ IsFiniteSet(P(i)) /\ i \notin P(i)
             /\ Before(H, i) = Cardinality(P(i)) /\ Before(H, i) \in Nat
             /\ IsFiniteSet(P(i) \union {i})
             /\ Cardinality(P(i) \union {i}) = Before(H, i) + 1
             /\ rank[i] = Before(H, i) + 1
  <2>1. P(i) \in SUBSET H /\ i \notin P(i) BY <1>1
  <2>2. IsFiniteSet(P(i)) BY <1>1, <2>1, FS_Subset
  <2>3. Before(H, i) = Cardinality(P(i)) BY DEF Before
  <2> HIDE DEF P
  <2>4. Before(H, i) \in Nat BY <2>2, <2>3, FS_CardinalityType
  <2> QED BY <2>1, <2>2, <2>3, <2>4, FS_AddElement
<1>4. \A i, j \in H : i < j => P(i) \union {i} \in SUBSET P(j)
  <2> SUFFICES ASSUME NEW i \in H, NEW j \in H, i < j, NEW h \in P(i) \union {i}
               PROVE  h \in H /\ h < j
    OBVIOUS
  <2>1. h \in H /\ h \in Nat /\ i \in Nat /\ j \in Nat BY <1>1
  <2>2. h < i \/ h = i OBVIOUS
  <2> QED BY <2>1, <2>2
<1>5. place = [k \in 1..c |-> CHOOSE i \in H : Before(H, i) = k - 1] OBVIOUS
<1> HIDE DEF P, rank, place, c
<1>6. rank \in [H -> Int]
  <2>1. ASSUME NEW i \in H PROVE Before(H, i) + 1 \in Int
    <3>1. Before(H, i) \in Nat BY <1>3
    <3> QED BY <3>1
  <2> QED BY <2>1 DEF rank
<1>7. ASSUME NEW i \in H PROVE rank[i] \in 1..c
  <2>1. P(i) \union {i} \in SUBSET H BY <1>3
  <2>2. Cardinality(P(i) \union {i}) <= c BY <1>1, <2>1, FS_Subset DEF c
  <2> QED BY <1>2, <1>3, <2>2
<1>8. ASSUME NEW i \in H, NEW j \in H, i < j PROVE rank[i] < rank[j]
  <2>1. Cardinality(P(i) \union {i}) <= Cardinality(P(j))
    BY <1>3, <1>4, <1>8, FS_Subset
  <2>2. Before(H, i) + 1 <= Before(H, j) BY <1>3, <2>1
  <2>3. /\ Before(H, i) \in Nat /\ Before(H, j) \in Nat
        /\ rank[i] = Before(H, i) + 1 /\ rank[j] = Before(H, j) + 1
    BY <1>3
  <2> QED BY <2>2, <2>3
<1>9. ASSUME NEW i \in H, NEW j \in H, rank[i] = rank[j] PROVE i = j
  <2>1. i \in Nat /\ j \in Nat /\ rank[i] \in Nat /\ rank[j] \in Nat
    BY <1>1, <1>2, <1>7
  <2>2. ~ (i < j) /\ ~ (j < i) BY <1>8, <1>9, <2>1
  <2> QED BY <2>1, <2>2
<1>10. rank \in Surjection(H, 1..c)
  <2>1. rank \in [H -> 1..c] BY <1>6, <1>7
  <2>2. rank \in Injection(H, 1..c) BY <1>9, <2>1 DEF Injection, IsInjective
  <2>3. Cardinality(1..c) = c /\ IsFiniteSet(1..c) BY <1>2, FS_Interval
  <2> QED BY <2>2, <2>3, FS_Injection DEF c
<1>11. ASSUME NEW k \in 1..c PROVE place[k] \in H /\ rank[place[k]] = k
  <2>1. PICK i \in H : rank[i] = k BY <1>10 DEF Surjection
  <2>2. /\ rank[i] = Before(H, i) + 1 /\ Before(H, i) \in Nat BY <1>3
  <2>5. Before(H, i) = k - 1 BY <2>1, <2>2
  <2>3. place[k] = CHOOSE h \in H : Before(H, h) = k - 1 BY <1>5
  <2>4. place[k] \in H /\ Before(H, place[k]) = k - 1 BY <2>5, <2>3
  <2>6. rank[place[k]] = Before(H, place[k]) + 1 BY <1>3, <2>4
  <2> QED BY <1>2, <2>4, <2>6
<1>12. place \in [1..c -> H] BY <1>5, <1>11
<1>13. ASSUME NEW k \in 1..c, NEW l \in 1..c, k < l PROVE place[k] < place[l]
  <2>1. place[k] \in Nat /\ place[l] \in Nat BY <1>1, <1>11
  <2>2. k \in Nat /\ l \in Nat /\ ~ (l < k) /\ k # l BY <1>2, <1>13
  <2>3. place[k] # place[l] BY <1>11, <2>2
  <2>4. ~ (place[l] < place[k])
    BY <1>8, <1>11, <2>2
  <2> QED BY <2>1, <2>3, <2>4
<1>14. ASSUME NEW i \in H PROVE \E k \in 1..c : place[k] = i
  <2>1. rank[i] \in 1..c BY <1>7
  <2>2. place[rank[i]] \in H /\ rank[place[rank[i]]] = rank[i] BY <2>1, <1>11
  <2> QED BY <1>9, <2>1, <2>2
<1>15. \A k \in 1..c : place[k] = CHOOSE i \in H : Before(H, i) = k - 1
  BY <1>5
<1>16. Increasing(place) BY <1>12, <1>13 DEF Increasing
<1> QED BY <1>2, <1>12, <1>14, <1>15, <1>16 DEF c

\* Picked has the members at those places, all of them, as they stand.
Picks(s, places, picked, place) ==
  /\ place \in [1..Len(picked) -> places]
  /\ Increasing(place)
  /\ \A i \in places : \E k \in 1..Len(picked) : place[k] = i
  /\ \A k \in 1..Len(picked) : picked[k] = s[place[k]]

LEMMA PickedIs ==
  ASSUME NEW W, NEW s \in Seq(W), NEW H \in SUBSET DOMAIN s
  PROVE  /\ Picked(s, H) \in Seq(W)
         /\ \E place : Picks(s, H, Picked(s, H), place)
<1> DEFINE c == Cardinality(H)
<1>1. Len(s) \in Nat /\ DOMAIN s = 1..Len(s) /\ s \in [1..Len(s) -> W]
  BY LenProperties
<1>2. c \in Nat BY <1>1, Ranks
<1>3. PICK place \in [1..c -> H] :
        /\ \A k \in 1..c : place[k] = CHOOSE i \in H : Before(H, i) = k - 1
        /\ Increasing(place)
        /\ \A i \in H : \E k \in 1..c : place[k] = i
  BY <1>1, Ranks
<1>4. Picked(s, H) = [k \in 1..c |-> s[place[k]]]
  <2>1. \A k \in 1..c : s[place[k]] = s[CHOOSE i \in H : Before(H, i) = k - 1]
    BY <1>3
  <2> QED BY <2>1, Zenon DEF Picked
<1>5. Picked(s, H) \in [1..c -> W] BY <1>1, <1>3, <1>4
<1>6. Picked(s, H) \in Seq(W) /\ Len(Picked(s, H)) = c
  BY <1>2, <1>5, FunctionIsSeq
<1>7. Picks(s, H, Picked(s, H), place) BY <1>3, <1>4, <1>6 DEF Picks
<1> QED BY <1>6, <1>7
\* The sequence t is s, with w after its first i members.
WithInserted(t, s, i, w) ==
  /\ Len(t) = Len(s) + 1
  /\ \A k \in 1..(Len(s) + 1) :
       t[k] = IF k <= i THEN s[k] ELSE IF k = i + 1 THEN w ELSE s[k - 1]

LEMMA PutIs ==
  ASSUME NEW W, NEW s \in Seq(W), NEW i \in 0..Len(s), NEW w \in W
  PROVE  Put(s, i, w) \in Seq(W) /\ WithInserted(Put(s, i, w), s, i, w)
<1> DEFINE head == SubSeq(s, 1, i)
           tail == SubSeq(s, i + 1, Len(s))
<1>1. Len(s) \in Nat /\ \A k \in 1..Len(s) : s[k] \in W BY LenProperties
<1>2. /\ head \in Seq(W) /\ Len(head) = i
      /\ \A k \in 1..i : head[k] = s[k]
  BY <1>1, SubSeqProperties
<1>3. /\ tail \in Seq(W) /\ Len(tail) = Len(s) - i
      /\ \A k \in 1..(Len(s) - i) : tail[k] = s[i + k]
  BY <1>1, SubSeqProperties
<1>4. <<w>> \in Seq(W) /\ Len(<<w>>) = 1 /\ <<w>>[1] = w OBVIOUS
<1> HIDE DEF head, tail
<1>5. /\ head \o <<w>> \in Seq(W) /\ Len(head \o <<w>>) = i + 1
      /\ \A k \in 1..(i + 1) :
           (head \o <<w>>)[k] = IF k <= i THEN s[k] ELSE w
  BY <1>2, <1>4, ConcatProperties
<1>6. Put(s, i, w) = (head \o <<w>>) \o tail BY DEF Put, head, tail
<1> DEFINE front == head \o <<w>>
<1> HIDE DEF front
<1>7. /\ front \o tail \in Seq(W) /\ Len(front \o tail) = Len(front) + Len(tail)
      /\ \A k \in 1..(Len(front) + Len(tail)) :
           (front \o tail)[k] =
             IF k <= Len(front) THEN front[k] ELSE tail[k - Len(front)]
  BY <1>3, <1>5, ConcatProperties DEF front
<1>8. /\ Put(s, i, w) = front \o tail /\ Len(front) = i + 1
      /\ \A k \in 1..(i + 1) : front[k] = IF k <= i THEN s[k] ELSE w
  BY <1>5, <1>6 DEF front
<1>9. Len(front) + Len(tail) = Len(s) + 1 BY <1>1, <1>3, <1>8
<1>10. ASSUME NEW k \in 1..(Len(s) + 1)
       PROVE  (front \o tail)[k] =
                IF k <= i THEN s[k] ELSE IF k = i + 1 THEN w ELSE s[k - 1]
  <2>1. CASE k <= i + 1 BY <1>1, <1>7, <1>8, <1>9, <2>1
  <2>2. CASE k > i + 1
    <3>1. k - (i + 1) \in 1..(Len(s) - i) BY <1>1, <2>2
    <3>2. tail[k - (i + 1)] = s[i + (k - (i + 1))] BY <1>3, <3>1
    <3>3. i + (k - (i + 1)) = k - 1 BY <1>1
    <3>4. (front \o tail)[k] = tail[k - (i + 1)] BY <1>1, <1>7, <1>8, <1>9, <2>2
    <3> QED BY <1>1, <2>2, <3>2, <3>3, <3>4
  <2>3. k \in Int /\ i \in Int BY <1>1
  <2>4. k <= i + 1 \/ k > i + 1 BY <2>3
  <2> QED BY <2>1, <2>2, <2>4
<1> QED BY <1>7, <1>8, <1>9, <1>10 DEF WithInserted

Offset(page, per) == (page - 1) * per

\* A page is as many of the rows as there are from its offset on.
PageOf(cut, rows, base, per) ==
  /\ \A k \in 1..Len(cut) : base + k \in 1..Len(rows) /\ cut[k] = rows[base + k]
  /\ Len(cut) <= per
  /\ Len(cut) < per => \A i \in 1..Len(rows) : i - base <= Len(cut)

LEMMA PageIs ==
  ASSUME NEW W, NEW rows \in Seq(W), NEW page \in Nat, NEW per \in Nat, page > 0
  PROVE  /\ Offset(page, per) \in Nat
         /\ Paginate(rows, page, per) \in Seq(W)
         /\ PageOf(Paginate(rows, page, per), rows, Offset(page, per), per)
<1> DEFINE base == Offset(page, per)
           left == Len(rows) - base
           size == IF left < per THEN IF left < 0 THEN 0 ELSE left ELSE per
           cut  == [k \in 1..size |-> rows[base + k]]
<1>1. base \in Nat
  <2>1. \A a, b \in Nat : a * b \in Nat OBVIOUS
  <2> QED BY <2>1 DEF Offset
<1>2. Len(rows) \in Nat /\ \A k \in 1..Len(rows) : rows[k] \in W BY LenProperties
<1>3. 1..(IF left < per THEN left ELSE per) = 1..size
  <2> HIDE DEF base
  <2> QED BY <1>1, <1>2
<1>4. Paginate(rows, page, per) = cut
  BY <1>3 DEF Paginate, Offset
<1> HIDE DEF base
<1>5. size \in Nat /\ \A k \in 1..size : base + k \in 1..Len(rows)
  BY <1>1, <1>2
<1> HIDE DEF size
<1>6. cut \in [1..size -> W] BY <1>2, <1>5
<1>7. cut \in Seq(W) /\ Len(cut) = size BY <1>5, <1>6, FunctionIsSeq
<1>8. \A k \in 1..size : cut[k] = rows[base + k] OBVIOUS
<1> HIDE DEF cut
<1>9. size <= per /\ (size < per => \A i \in 1..Len(rows) : i - base <= size)
  BY <1>1, <1>2 DEF size
<1> QED BY <1>1, <1>4, <1>5, <1>7, <1>8, <1>9 DEF base, PageOf
\* What `trim' makes of a page: no more than is shown, and whether more follow.
LEMMA TrimIs ==
  ASSUME NEW W, NEW rows \in Seq(W), NEW page \in Nat
  PROVE  LET cut == Trim(rows, page)
         IN  /\ cut.rows \in Seq(W) /\ cut.next \in Nat
             /\ Len(cut.rows) <= perPage /\ Len(cut.rows) <= Len(rows)
             /\ \A k \in 1..Len(cut.rows) : cut.rows[k] = rows[k]
             /\ cut.next = 0 => Len(cut.rows) = Len(rows)
             /\ cut.next > 0 => cut.next = page + 1 /\ Len(cut.rows) = perPage
<1>1. Len(rows) \in Nat /\ \A k \in 1..Len(rows) : rows[k] \in W BY LenProperties
<1>2. perPage \in Nat \ {0} BY ListingAssumption
<1>3. CASE Len(rows) <= perPage BY <1>1, <1>2, <1>3 DEF Trim
<1>4. CASE ~ (Len(rows) <= perPage)
  <2>1. /\ SubSeq(rows, 1, perPage) \in Seq(W) /\ Len(SubSeq(rows, 1, perPage)) = perPage
        /\ \A k \in 1..perPage : SubSeq(rows, 1, perPage)[k] = rows[k]
    BY <1>1, <1>2, <1>4, SubSeqProperties
  <2> QED BY <1>1, <1>2, <1>4, <2>1 DEF Trim
<1> QED BY <1>3, <1>4

-------------------------------------------------------------------------------
\* What an answer is, of a table.

FoundIn(tab, query) ==
  Picked(tab, {i \in DOMAIN tab : tab[i] \in Matches[query]})

\* The rows of the request r are those of its page of tab, but for the last.
Base(r) == Offset(r.page, perPage + 1)
CutOf(tab, r) ==
  /\ \A k \in 1..Len(r.rows) :
       /\ Base(r) + k \in 1..Len(FoundIn(tab, r.query))
       /\ r.rows[k] = FoundIn(tab, r.query)[Base(r) + k]
  /\ r.next = 0 =>
       \A i \in 1..Len(FoundIn(tab, r.query)) : i - Base(r) <= Len(r.rows)
  /\ r.next > 0 => r.next = r.page + 1 /\ Len(r.rows) = perPage

MatchesOnly(rows, query) == \A k \in 1..Len(rows) : rows[k] \in Matches[query]

LEMMA FoundIs ==
  ASSUME NEW tab \in Seq(Writings), NEW query
  PROVE  /\ FoundIn(tab, query) \in Seq(Writings)
         /\ MatchesOnly(FoundIn(tab, query), query)
         /\ \E place :
              Picks(tab, {i \in DOMAIN tab : tab[i] \in Matches[query]},
                    FoundIn(tab, query), place)
<1> DEFINE H == {i \in DOMAIN tab : tab[i] \in Matches[query]}
<1>1. H \in SUBSET DOMAIN tab OBVIOUS
<1>2. FoundIn(tab, query) = Picked(tab, H) BY DEF FoundIn
<1>3. \A i \in H : tab[i] \in Matches[query] OBVIOUS
<1> HIDE DEF H
<1>4. /\ FoundIn(tab, query) \in Seq(Writings)
      /\ \E place : Picks(tab, H, FoundIn(tab, query), place)
  BY <1>1, <1>2, PickedIs
<1>5. MatchesOnly(FoundIn(tab, query), query)
  BY <1>3, <1>4 DEF Picks, MatchesOnly
<1> QED BY <1>4, <1>5 DEF H

LEMMA AnsweredIs ==
  ASSUME table \in Seq(Writings), NEW r \in Request, r.page > 0
  PROVE  LET answer == Answered(r)
         IN  /\ answer \in Request
             /\ answer.page = r.page /\ answer.query = r.query
             /\ answer.done /\ answer.shifted = r.shifted
             /\ MatchesOnly(answer.rows, answer.query)
             /\ CutOf(table, answer)
<1> DEFINE found == FoundIn(table, r.query)
           page  == Paginate(found, r.page, Fetched)
           cut   == Trim(page, r.page)
           answer == Answered(r)
<1>1. r.page \in Nat /\ r.query \in Queries BY DEF Request
<1>2. Fetched = perPage + 1 /\ perPage \in Nat /\ Fetched \in Nat
  BY ListingAssumption DEF Fetched
<1>3. found \in Seq(Writings) /\ MatchesOnly(found, r.query)
  BY FoundIs
<1>4. Found(r.query) = found BY DEF Found, FoundIn
<1>5. answer = [r EXCEPT !.done = TRUE, !.rows = cut.rows, !.next = cut.next]
  BY <1>4 DEF Answered
<1> HIDE DEF found
<1>6. /\ Offset(r.page, Fetched) \in Nat /\ page \in Seq(Writings)
      /\ PageOf(page, found, Offset(r.page, Fetched), Fetched)
  BY <1>1, <1>2, <1>3, PageIs
<1> HIDE DEF page
<1>7. /\ cut.rows \in Seq(Writings) /\ cut.next \in Nat
      /\ Len(cut.rows) <= perPage /\ Len(cut.rows) <= Len(page)
      /\ \A k \in 1..Len(cut.rows) : cut.rows[k] = page[k]
      /\ cut.next = 0 => Len(cut.rows) = Len(page)
      /\ cut.next > 0 => cut.next = r.page + 1 /\ Len(cut.rows) = perPage
  BY <1>1, <1>6, TrimIs
<1> HIDE DEF cut
<1>8. /\ answer \in Request /\ answer.page = r.page /\ answer.query = r.query
      /\ answer.done /\ answer.shifted = r.shifted
      /\ answer.rows = cut.rows /\ answer.next = cut.next
  BY <1>5, <1>7 DEF Request
<1> HIDE DEF answer
<1>9. Base(answer) = Offset(r.page, Fetched) BY <1>2, <1>8 DEF Base
<1> DEFINE base == Base(answer)
<1>10. /\ base \in Nat /\ Len(cut.rows) \in Nat /\ Len(page) \in Nat /\ Len(found) \in Nat
  BY <1>3, <1>6, <1>7, <1>9, LenProperties
<1>11. ASSUME NEW k \in 1..Len(cut.rows)
       PROVE  base + k \in 1..Len(found) /\ cut.rows[k] = found[base + k]
  <2>1. k \in 1..Len(page) BY <1>7, <1>10
  <2> QED BY <1>6, <1>7, <1>9, <2>1 DEF PageOf
<1>12. MatchesOnly(cut.rows, r.query) BY <1>3, <1>11 DEF MatchesOnly
<1>13. ASSUME cut.next = 0, NEW i \in 1..Len(found) PROVE i - base <= Len(cut.rows)
  <2>1. Len(page) < Fetched BY <1>2, <1>7, <1>10, <1>13
  <2> QED BY <1>6, <1>7, <1>9, <1>13, <2>1 DEF PageOf
<1>14. CutOf(table, answer)
  BY <1>7, <1>8, <1>11, <1>13 DEF CutOf, found
<1> QED BY <1>8, <1>12, <1>14 DEF answer
-------------------------------------------------------------------------------
\* What the screen shows, of a table: rows of its query, in their order, and of
\* the pages that were asked for all but the last of each.

LEMMA OffsetIs ==
  ASSUME NEW page \in Nat, page > 0, NEW per \in Nat \ {0}
  PROVE  /\ Offset(page, per) \in Nat /\ Offset(1, per) = 0
         /\ Offset(page + 1, per) = Offset(page, per) + per
         /\ Offset(page + 1, per) % per = 0
<1>1. \A a, b \in Nat : a * b \in Nat OBVIOUS
<1>2. Offset(page, per) \in Nat /\ Offset(1, per) = 0 BY <1>1 DEF Offset
<1>3. Offset(page + 1, per) = page * per BY DEF Offset
<1>4. page * per = (page - 1) * per + per OBVIOUS
<1>5. (page * per) % per = 0 OBVIOUS
<1> QED BY <1>2, <1>3, <1>4, <1>5 DEF Offset

Reach(scr, i) == scr.next > 0 => i <= Offset(scr.next, perPage + 1)

Follows(found, scr, place) ==
  /\ place \in [1..Len(scr.rows) -> 1..Len(found)]
  /\ Increasing(place)
  /\ \A k \in 1..Len(scr.rows) : scr.rows[k] = found[place[k]] /\ Reach(scr, place[k])
  /\ \A i \in 1..Len(found) :
       Reach(scr, i) => (\E k \in 1..Len(scr.rows) : place[k] = i) \/ i % (perPage + 1) = 0
Followed(tab, scr) == \E place : Follows(FoundIn(tab, scr.query), scr, place)

LEMMA FirstFollows ==
  ASSUME NEW tab \in Seq(Writings), NEW r \in Request, r.page = 1, CutOf(tab, r)
  PROVE  Followed(tab, Region(r))
<1> DEFINE found == FoundIn(tab, r.query)
           n     == Len(r.rows)
           scr   == Region(r)
           place == [k \in 1..n |-> k]
<1>1. perPage \in Nat /\ perPage > 0 BY ListingAssumption
<1>2. found \in Seq(Writings) /\ Len(found) \in Nat BY FoundIs, LenProperties
<1>3. r.rows \in Seq(Writings) /\ n \in Nat /\ r.next \in Nat BY LenProperties DEF Request
<1>4. scr.rows = r.rows /\ scr.next = r.next /\ scr.query = r.query BY DEF Region
<1>5. Base(r) = 0 /\ Offset(2, perPage + 1) = perPage + 1
      /\ (perPage + 1) % (perPage + 1) = 0
  BY <1>1, OffsetIs DEF Base, Offset
<1>6. /\ \A k \in 1..n : k \in 1..Len(found) /\ r.rows[k] = found[k]
      /\ r.next = 0 => \A i \in 1..Len(found) : i <= n
      /\ r.next > 0 => r.next = 2 /\ n = perPage
  BY <1>2, <1>3, <1>5 DEF CutOf
<1> HIDE DEF found, n, scr
<1>7. place \in [1..n -> 1..Len(found)] /\ Increasing(place)
  BY <1>6 DEF Increasing
<1>8. \A k \in 1..n : r.rows[k] = found[place[k]] /\ Reach(scr, place[k])
  BY <1>1, <1>3, <1>4, <1>5, <1>6 DEF Reach
<1>9. ASSUME NEW i \in 1..Len(found), Reach(scr, i)
      PROVE  (\E k \in 1..n : place[k] = i) \/ i % (perPage + 1) = 0
  <2>1. i \in 1..n \/ i = perPage + 1
    BY <1>1, <1>2, <1>3, <1>4, <1>5, <1>6, <1>9 DEF Reach
  <2>2. i \in 1..n => place[i] = i OBVIOUS
  <2> QED BY <1>5, <2>1, <2>2
<1> HIDE DEF place
<1>10. Follows(found, scr, place) BY <1>4, <1>7, <1>8, <1>9 DEF Follows, n
<1> QED BY <1>4, <1>10 DEF Followed, found, scr

LEMMA MoreFollows ==
  ASSUME NEW tab \in Seq(Writings), NEW scr \in Screen, NEW r \in Request,
         scr.next > 0, r.page = scr.next, r.query = scr.query,
         Followed(tab, scr), CutOf(tab, r)
  PROVE  Followed(tab, [scr EXCEPT !.rows = @ \o r.rows, !.next = r.next])
<1> DEFINE found == FoundIn(tab, r.query)
           m     == Len(scr.rows)
           n     == Len(r.rows)
           base  == Base(r)
           new   == [scr EXCEPT !.rows = @ \o r.rows, !.next = r.next]
<1>1. perPage \in Nat /\ perPage > 0 BY ListingAssumption
<1>2. found \in Seq(Writings) /\ Len(found) \in Nat BY FoundIs, LenProperties
<1>3. /\ scr.rows \in Seq(Writings) /\ m \in Nat /\ scr.next \in Nat
      /\ r.rows \in Seq(Writings) /\ n \in Nat /\ r.next \in Nat
  BY LenProperties DEF Request, Screen
<1>4. PICK old : Follows(found, scr, old) BY DEF Followed
<1>5. /\ base \in Nat /\ base = Offset(scr.next, perPage + 1)
      /\ Offset(scr.next + 1, perPage + 1) = base + (perPage + 1)
      /\ (base + (perPage + 1)) % (perPage + 1) = 0
  <2>1. perPage + 1 \in Nat \ {0} BY <1>1
  <2>2. base = Offset(scr.next, perPage + 1) BY DEF Base
  <2>3. /\ Offset(scr.next, perPage + 1) \in Nat
        /\ Offset(scr.next + 1, perPage + 1) = Offset(scr.next, perPage + 1) + (perPage + 1)
        /\ Offset(scr.next + 1, perPage + 1) % (perPage + 1) = 0
    BY <1>3, <2>1, OffsetIs
  <2> HIDE DEF base
  <2> QED BY <2>2, <2>3
<1>6. /\ \A k \in 1..n : base + k \in 1..Len(found) /\ r.rows[k] = found[base + k]
      /\ r.next = 0 => \A i \in 1..Len(found) : i - base <= n
      /\ r.next > 0 => r.next = scr.next + 1 /\ n = perPage
  BY DEF CutOf
<1>7. /\ new.next = r.next /\ new.query = scr.query /\ new.rows = scr.rows \o r.rows
      /\ Len(new.rows) = m + n
      /\ \A k \in 1..(m + n) :
           new.rows[k] = IF k <= m THEN scr.rows[k] ELSE r.rows[k - m]
  BY <1>3, ConcatProperties DEF Screen
<1> DEFINE place == [k \in 1..(m + n) |-> IF k <= m THEN old[k] ELSE base + (k - m)]
<1>8. /\ old \in [1..m -> 1..Len(found)]
      /\ \A k, l \in 1..m : k < l => old[k] < old[l]
      /\ \A k \in 1..m : scr.rows[k] = found[old[k]] /\ old[k] <= base
      /\ \A i \in 1..Len(found) : i <= base =>
           (\E k \in 1..m : old[k] = i) \/ i % (perPage + 1) = 0
  BY <1>4, <1>5 DEF Follows, Increasing, Reach
<1> HIDE DEF found, m, n, base, new
<1>9. \A k \in 1..(m + n) : k \in 1..m \/ (k - m \in 1..n /\ ~ (k <= m))
  BY <1>3
<1>10. place \in [1..(m + n) -> 1..Len(found)]
  BY <1>3, <1>6, <1>8, <1>9
<1>11. \A k \in 1..m : place[k] = old[k]
  BY <1>3
<1>12. \A k \in 1..n : m + k \in 1..(m + n) /\ place[m + k] = base + k
  BY <1>3
<1> HIDE DEF place
<1>13. ASSUME NEW k \in 1..(m + n), NEW l \in 1..(m + n), k < l
       PROVE  place[k] < place[l]
  <2>1. CASE l \in 1..m
    <3>1. k \in 1..m BY <1>3, <1>13, <2>1
    <3> QED BY <1>8, <1>11, <1>13, <2>1, <3>1
  <2>2. CASE k \in 1..m /\ l - m \in 1..n
    <3>1. place[l] = base + (l - m)
      <4>1. l = m + (l - m) BY <1>3
      <4> QED BY <1>12, <2>2, <4>1
    <3>2. place[k] <= base /\ place[k] \in Nat BY <1>2, <1>8, <1>11, <2>2
    <3> QED BY <1>5, <2>2, <3>1, <3>2
  <2>3. CASE k - m \in 1..n /\ l - m \in 1..n
    <3>1. k = m + (k - m) /\ l = m + (l - m) BY <1>3
    <3>2. place[k] = base + (k - m) /\ place[l] = base + (l - m)
      BY <1>12, <2>3, <3>1
    <3> QED BY <1>3, <1>5, <1>13, <2>3, <3>2
  <2>4. \/ l \in 1..m \/ (k \in 1..m /\ l - m \in 1..n)
        \/ (k - m \in 1..n /\ l - m \in 1..n)
    BY <1>3, <1>9, <1>13
  <2> QED BY <2>1, <2>2, <2>3, <2>4
<1>14. ASSUME NEW k \in 1..(m + n)
       PROVE  new.rows[k] = found[place[k]] /\ Reach(new, place[k])
  <2>1. CASE k \in 1..m
    <3>0. k <= m BY <1>3, <2>1
    <3>1. new.rows[k] = scr.rows[k] BY <1>7, <3>0
    <3>2. place[k] <= base /\ place[k] \in Nat BY <1>2, <1>8, <1>11, <2>1
    <3>3. new.next > 0 => place[k] <= Offset(new.next, perPage + 1)
      <4>1. new.next > 0 => Offset(new.next, perPage + 1) = base + (perPage + 1)
        BY <1>5, <1>6, <1>7
      <4> QED BY <1>1, <1>5, <3>2, <4>1
    <3>4. scr.rows[k] = found[place[k]] BY <1>8, <1>11, <2>1
    <3> QED BY <3>1, <3>3, <3>4 DEF Reach
  <2>2. CASE k - m \in 1..n /\ ~ (k <= m)
    <3>1. k = m + (k - m) BY <1>3
    <3>2. place[k] = base + (k - m) BY <1>12, <2>2, <3>1
    <3>3. new.rows[k] = found[place[k]] BY <1>6, <1>7, <2>2, <3>2
    <3>4. r.next > 0 => k - m <= perPage BY <1>3, <1>6, <2>2
    <3>5. new.next > 0 => place[k] <= Offset(new.next, perPage + 1)
      BY <1>1, <1>3, <1>5, <1>6, <1>7, <2>2, <3>2, <3>4
    <3> QED BY <3>3, <3>5 DEF Reach
  <2> QED BY <1>9, <2>1, <2>2
<1>15. ASSUME NEW i \in 1..Len(found), Reach(new, i)
       PROVE  (\E k \in 1..(m + n) : place[k] = i) \/ i % (perPage + 1) = 0
  <2>1. CASE i <= base
    <3>1. ASSUME NEW k \in 1..m, old[k] = i
          PROVE  k \in 1..(m + n) /\ place[k] = i
      BY <1>3, <1>11, <3>1
    <3> QED BY <1>8, <2>1, <3>1
  <2>2. CASE i > base
    <3>1. i - base \in 1..n \/ i = base + (perPage + 1)
      <4>1. i \in Nat /\ i - base > 0 BY <1>2, <1>5, <2>2
      <4>2. CASE r.next = 0 BY <1>3, <1>5, <1>6, <4>1, <4>2
      <4>3. CASE r.next > 0
        <5>1. i <= base + (perPage + 1) BY <1>5, <1>6, <1>7, <1>15, <4>3 DEF Reach
        <5>2. n = perPage BY <1>6, <4>3
        <5> QED BY <1>1, <1>5, <4>1, <5>1, <5>2
      <4> QED BY <1>3, <4>2, <4>3
    <3>2. ASSUME i - base \in 1..n
          PROVE  m + (i - base) \in 1..(m + n) /\ place[m + (i - base)] = i
      <4>1. base + (i - base) = i BY <1>2, <1>5
      <4> QED BY <1>12, <3>2, <4>1
    <3> QED BY <1>5, <3>1, <3>2
  <2> QED BY <1>2, <1>5, <2>1, <2>2
<1>16. Follows(found, new, place)
  <2>1. Increasing(place) BY <1>10, <1>13 DEF Increasing
  <2> QED BY <1>7, <1>10, <1>14, <1>15, <2>1 DEF Follows
<1> QED BY <1>7, <1>16 DEF Followed, found, new
-------------------------------------------------------------------------------
\* The inductive invariant.

\* No row is listed twice.
TableOK == \A i, j \in 1..Len(table) : table[i] = table[j] => i = j

\* Who waits for more waits for the next page of what is on the screen.
RequestsOK ==
  /\ find.page \in {0, 1}
  /\ find.done => find.page = 1 /\ MatchesOnly(find.rows, find.query)
  /\ more.done => more.page > 0 /\ MatchesOnly(more.rows, more.query)
  /\ more.page > 0 => more.page = screen.next /\ more.query = screen.query

\* What was answered since the table changed is a page of it.
CutsOK ==
  /\ find.done /\ ~ find.shifted => CutOf(table, find)
  /\ more.done /\ ~ screen.shifted => CutOf(table, more)

ScreenOK ==
  /\ MatchesOnly(screen.rows, screen.query)
  /\ ~ screen.shifted => Followed(table, screen)

Inv == TypeOK /\ TableOK /\ RequestsOK /\ CutsOK /\ ScreenOK

LEMMA QuietIs ==
  ASSUME NEW query \in Queries, NEW page \in Nat
  PROVE  /\ Quiet(query) \in Request /\ Quiet(query).page = 0 /\ ~ Quiet(query).done
         /\ Asked(page, query) \in Request /\ Asked(page, query).page = page
         /\ Asked(page, query).query = query /\ ~ Asked(page, query).done
<1>1. << >> \in Seq(Writings) BY EmptySeq
<1>2. Quiet(query) \in Request /\ Quiet(query).page = 0 /\ ~ Quiet(query).done
      /\ Quiet(query).query = query
  BY <1>1 DEF Quiet, Request
<1>3. Asked(page, query) = [Quiet(query) EXCEPT !.page = page] BY DEF Asked
<1> QED BY <1>2, <1>3 DEF Request

LEMMA RegionIs ==
  ASSUME NEW r \in Request
  PROVE  /\ Region(r) \in Screen /\ Region(r).rows = r.rows /\ Region(r).query = r.query
         /\ Region(r).next = r.next /\ Region(r).shifted = r.shifted
  BY DEF Region, Request, Screen

LEMMA WithoutIs ==
  ASSUME TypeOK, TableOK, NEW w \in Writings
  PROVE  /\ Without(w) \in Seq(Writings)
         /\ \A k \in 1..Len(Without(w)) : Without(w)[k] # w
         /\ \A k, l \in 1..Len(Without(w)) : Without(w)[k] = Without(w)[l] => k = l
<1> DEFINE H == {i \in DOMAIN table : table[i] # w}
           rest == Without(w)
<1>1. table \in Seq(Writings) /\ Len(table) \in Nat /\ DOMAIN table = 1..Len(table)
  BY LenProperties DEF TypeOK
<1>2. H \in SUBSET DOMAIN table OBVIOUS
<1>3. \A i \in H : table[i] # w /\ i \in 1..Len(table) BY <1>1
<1>4. rest = Picked(table, H) BY DEF Without
<1> HIDE DEF H, rest
<1>5. PICK place : rest \in Seq(Writings) /\ Picks(table, H, rest, place)
  BY <1>1, <1>2, <1>4, PickedIs
<1>6. /\ Len(rest) \in Nat
      /\ \A k \in 1..Len(rest) : place[k] \in H /\ rest[k] = table[place[k]]
      /\ \A k, l \in 1..Len(rest) : k < l => place[k] < place[l]
  BY <1>5, LenProperties DEF Picks, Increasing
<1>7. ASSUME NEW k \in 1..Len(rest), NEW l \in 1..Len(rest), rest[k] = rest[l]
      PROVE  k = l
  <2>1. place[k] = place[l] /\ place[k] \in Nat BY <1>3, <1>6, <1>7 DEF TableOK
  <2>2. ~ (k < l) /\ ~ (l < k) BY <1>6, <2>1
  <2> QED BY <1>6, <2>2
<1> QED BY <1>3, <1>5, <1>6, <1>7 DEF rest

LEMMA InitInv == Init => Inv
<1> SUFFICES ASSUME Init PROVE Inv OBVIOUS
<1>1. table \in Seq(Writings) /\ TableOK
  <2>1. PICK n \in FirstSizes :
          table \in {s \in [1..n -> Writings] :
                      \A i, j \in 1..n : i < j => s[i] < s[j]}
    BY DEF Init
  <2>2. n \in Nat /\ Writings \subseteq Nat BY ListingAssumption
  <2>3. table \in Seq(Writings) /\ Len(table) = n BY <2>1, <2>2, FunctionIsSeq
  <2>4. ASSUME NEW i \in 1..n, NEW j \in 1..n, table[i] = table[j] PROVE i = j
    <3>1. table[i] \in Nat BY <2>1, <2>2
    <3>2. ~ (i < j) /\ ~ (j < i) BY <2>1, <2>4, <3>1
    <3> QED BY <2>2, <3>2
  <2> QED BY <2>3, <2>4 DEF TableOK
<1>2. PICK query \in Queries :
        /\ find = Quiet(query) /\ more = Quiet(query)
        /\ screen = Region(Answered(Asked(1, query)))
  BY DEF Init
<1> DEFINE first == Answered(Asked(1, query))
<1>3. /\ Asked(1, query) \in Request /\ Asked(1, query).page = 1
      /\ find \in Request /\ find.page = 0 /\ ~ find.done
      /\ more \in Request /\ more.page = 0 /\ ~ more.done
  BY <1>2, QuietIs
<1>4. /\ first \in Request /\ first.page = 1 /\ MatchesOnly(first.rows, first.query)
      /\ CutOf(table, first)
  BY <1>1, <1>3, AnsweredIs
<1> HIDE DEF first
<1>5. screen = Region(first) BY <1>2 DEF first
<1>6. Followed(table, screen) BY <1>1, <1>4, <1>5, FirstFollows
<1>7. ScreenOK BY <1>4, <1>5, <1>6, RegionIs DEF ScreenOK
<1>8. TypeOK
  BY <1>1, <1>3, <1>4, <1>5, RegionIs, ListingAssumption DEF TypeOK, Init
<1> QED BY <1>1, <1>3, <1>7, <1>8 DEF Inv, RequestsOK, CutsOK

LEMMA StepInv == ASSUME Inv, [Next]_vars PROVE Inv'
<1> USE DEF Inv
<1>t. /\ table \in Seq(Writings) /\ screen \in Screen /\ find \in Request
      /\ more \in Request /\ changes \in 0..MaxChanges
      /\ screen.query \in Queries /\ screen.next \in Nat
      /\ find.query \in Queries /\ more.query \in Queries
  BY DEF TypeOK, Screen, Request
<1>1. ASSUME NEW query \in Queries, Search(query) PROVE Inv'
  <2>1. /\ find' \in Request /\ find'.page = 1 /\ ~ find'.done
    BY <1>1, QuietIs DEF Search
  <2> QED BY <1>1, <2>1 DEF Search, TypeOK, TableOK, RequestsOK, CutsOK, ScreenOK
<1>2. ASSUME PressMore PROVE Inv'
  <2>1. /\ more' \in Request /\ more'.page = screen.next /\ ~ more'.done
        /\ more'.query = screen.query
    BY <1>2, <1>t, QuietIs DEF PressMore
  <2> QED BY <1>2, <2>1 DEF PressMore, TypeOK, TableOK, RequestsOK, CutsOK, ScreenOK
<1>3. ASSUME FindServed PROVE Inv'
  <2>1. /\ find' \in Request /\ find'.page = find.page /\ find'.done
        /\ MatchesOnly(find'.rows, find'.query) /\ CutOf(table, find')
    BY <1>3, <1>t, AnsweredIs DEF FindServed
  <2>2. find.page = 1 BY <1>3 DEF FindServed, RequestsOK
  <2> QED BY <1>3, <2>1, <2>2
      DEF FindServed, TypeOK, TableOK, RequestsOK, CutsOK, ScreenOK
<1>4. ASSUME MoreServed PROVE Inv'
  <2>1. /\ more' \in Request /\ more'.page = more.page /\ more'.done
        /\ more'.query = more.query
        /\ MatchesOnly(more'.rows, more'.query) /\ CutOf(table, more')
    BY <1>4, <1>t, AnsweredIs DEF MoreServed
  <2> QED BY <1>4, <2>1
      DEF MoreServed, TypeOK, TableOK, RequestsOK, CutsOK, ScreenOK
<1>5. ASSUME FindShown PROVE Inv'
  <2>1. /\ find.page = 1 /\ MatchesOnly(find.rows, find.query)
        /\ ~ find.shifted => CutOf(table, find)
    BY <1>5 DEF FindShown, RequestsOK, CutsOK
  <2>2. /\ find' \in Request /\ find'.page = 0 /\ ~ find'.done
        /\ more' \in Request /\ more'.page = 0 /\ ~ more'.done
    BY <1>5, <1>t, QuietIs DEF FindShown
  <2>3. /\ screen' = Region(find) /\ screen' \in Screen /\ screen'.shifted = find.shifted
        /\ screen'.rows = find.rows /\ screen'.query = find.query
    BY <1>5, <1>t, RegionIs DEF FindShown
  <2>4. ~ screen'.shifted => Followed(table, screen')
    BY <1>t, <2>1, <2>3, FirstFollows
  <2> QED BY <1>5, <2>1, <2>2, <2>3, <2>4
      DEF FindShown, TypeOK, TableOK, RequestsOK, CutsOK, ScreenOK
<1>6. ASSUME MoreShown PROVE Inv'
  <2>1. /\ more.page > 0 /\ more.page = screen.next /\ more.query = screen.query
        /\ MatchesOnly(more.rows, more.query)
        /\ ~ screen.shifted => CutOf(table, more)
    BY <1>6 DEF MoreShown, RequestsOK, CutsOK
  <2>2. more' \in Request /\ more'.page = 0 /\ ~ more'.done
    BY <1>6, <1>t, QuietIs DEF MoreShown
  <2>3. /\ screen.rows \in Seq(Writings) /\ more.rows \in Seq(Writings)
        /\ more.next \in Nat
    BY <1>t DEF Screen, Request
  <2>4. /\ screen' = [screen EXCEPT !.rows = @ \o more.rows, !.next = more.next]
        /\ screen.rows \o more.rows \in Seq(Writings)
    BY <1>6, <2>3, ConcatProperties DEF MoreShown
  <2>5. /\ screen' \in Screen /\ screen'.query = screen.query
        /\ screen'.rows = screen.rows \o more.rows /\ screen'.shifted = screen.shifted
    BY <1>t, <2>3, <2>4 DEF Screen
  <2>6. MatchesOnly(screen'.rows, screen'.query)
    <3>1. /\ MatchesOnly(screen.rows, screen.query)
          /\ MatchesOnly(more.rows, screen.query)
      BY <2>1 DEF ScreenOK
    <3> DEFINE a == screen.rows
               b == more.rows
    <3>2. /\ Len(a \o b) = Len(a) + Len(b) /\ Len(a) \in Nat /\ Len(b) \in Nat
          /\ \A k \in 1..(Len(a) + Len(b)) :
               (a \o b)[k] = IF k <= Len(a) THEN a[k] ELSE b[k - Len(a)]
      BY <2>3, ConcatProperties, LenProperties
    <3> HIDE DEF a, b
    <3>3. /\ \A k \in 1..Len(a) : a[k] \in Matches[screen.query]
          /\ \A k \in 1..Len(b) : b[k] \in Matches[screen.query]
      BY <3>1 DEF MatchesOnly, a, b
    <3>4. ASSUME NEW k \in 1..(Len(a) + Len(b))
          PROVE  (a \o b)[k] \in Matches[screen.query]
      <4>1. k \in 1..Len(a) \/ (k - Len(a) \in 1..Len(b) /\ ~ (k <= Len(a)))
        BY <3>2
      <4> QED BY <3>2, <3>3, <4>1
    <3> QED BY <2>5, <3>2, <3>4 DEF MatchesOnly, a, b
  <2>7. ~ screen'.shifted => Followed(table, screen')
    <3> SUFFICES ASSUME ~ screen'.shifted PROVE Followed(table, screen') OBVIOUS
    <3>1. Followed(table, screen) /\ CutOf(table, more)
      BY <2>1, <2>5 DEF ScreenOK
    <3> QED BY <1>t, <2>1, <2>4, <3>1, MoreFollows
  <2> QED BY <1>6, <1>t, <2>2, <2>5, <2>6, <2>7
      DEF MoreShown, TypeOK, TableOK, RequestsOK, CutsOK, ScreenOK
<1>7. ASSUME Fail PROVE Inv'
  <2>1. CASE find' = Quiet(find.query) /\ UNCHANGED <<table, screen, more, changes>>
    <3>1. find' \in Request /\ find'.page = 0 /\ ~ find'.done
      BY <1>t, <2>1, QuietIs
    <3> QED BY <2>1, <3>1 DEF TypeOK, TableOK, RequestsOK, CutsOK, ScreenOK
  <2>2. CASE more' = Quiet(more.query) /\ UNCHANGED <<table, screen, find, changes>>
    <3>1. more' \in Request /\ more'.page = 0 /\ ~ more'.done
      BY <1>t, <2>2, QuietIs
    <3> QED BY <2>2, <3>1 DEF TypeOK, TableOK, RequestsOK, CutsOK, ScreenOK
  <2> QED BY <1>7, <2>1, <2>2 DEF Fail
<1>8. ASSUME NEW w \in Writings, NEW i \in 0..Len(table), Save(w, i) PROVE Inv'
  <2> DEFINE rest == Without(w)
  <2>1. /\ rest \in Seq(Writings) /\ Len(rest) \in Nat
        /\ \A k \in 1..Len(rest) : rest[k] # w
        /\ \A k, l \in 1..Len(rest) : rest[k] = rest[l] => k = l
    BY WithoutIs, LenProperties
  <2>2. i \in 0..Len(rest) /\ table' = Put(rest, i, w)
    <3>1. Len(table) \in Nat BY <1>t, LenProperties
    <3> QED BY <1>8, <2>1, <3>1 DEF Save
  <2> HIDE DEF rest
  <2>3. /\ table' \in Seq(Writings) /\ Len(table') = Len(rest) + 1
        /\ \A k \in 1..(Len(rest) + 1) :
             table'[k] = IF k <= i THEN rest[k] ELSE IF k = i + 1 THEN w ELSE rest[k - 1]
    <3>1. Put(rest, i, w) \in Seq(Writings) /\ WithInserted(Put(rest, i, w), rest, i, w)
      BY <2>1, <2>2, PutIs
    <3> QED BY <2>2, <3>1 DEF WithInserted
  <2>4. TableOK'
    <3>1. ASSUME NEW k \in 1..(Len(rest) + 1), NEW l \in 1..(Len(rest) + 1),
                 table'[k] = table'[l], k < l
          PROVE  FALSE
      <4> DEFINE place(x) == IF x <= i THEN x ELSE x - 1
      <4>1. \A x \in 1..(Len(rest) + 1) :
              x = i + 1 \/ (place(x) \in 1..Len(rest) /\ table'[x] = rest[place(x)])
        BY <2>1, <2>2, <2>3
      <4>2. table'[i + 1] = w BY <2>1, <2>2, <2>3
      <4>3. k # i + 1 /\ l # i + 1 BY <2>1, <3>1, <4>1, <4>2
      <4>4. place(k) = place(l) BY <2>1, <3>1, <4>1, <4>3
      <4> QED BY <2>1, <2>2, <3>1, <4>3, <4>4
    <3>2. ASSUME NEW k \in 1..Len(table'), NEW l \in 1..Len(table'), table'[k] = table'[l]
          PROVE  k = l
      <4>1. ~ (k < l) /\ ~ (l < k) BY <2>3, <3>1, <3>2
      <4> QED BY <2>1, <2>3, <4>1
    <3> QED BY <3>2 DEF TableOK
  <2>5. /\ screen' \in Screen /\ screen'.shifted
        /\ screen'.rows = screen.rows /\ screen'.query = screen.query
        /\ screen'.next = screen.next
    BY <1>8, <1>t DEF Save, Screen
  <2>6. /\ find' \in Request /\ find'.page = find.page /\ find'.done = find.done
        /\ find'.shifted = find.done
        /\ find'.rows = find.rows /\ find'.query = find.query
    BY <1>8, <1>t DEF Save, Request
  <2>7. more' = more /\ changes' \in 0..MaxChanges
    BY <1>8, <1>t, ListingAssumption DEF Save
  <2> QED BY <2>3, <2>4, <2>5, <2>6, <2>7, <1>t
      DEF TypeOK, RequestsOK, CutsOK, ScreenOK
<1>9. ASSUME UNCHANGED vars PROVE Inv'
  BY <1>9 DEF vars, TypeOK, TableOK, RequestsOK, CutsOK, ScreenOK
<1> QED BY <1>1, <1>2, <1>3, <1>4, <1>5, <1>6, <1>7, <1>8, <1>9 DEF Next

LEMMA InvHolds == Spec => []Inv
  BY InitInv, StepInv, PTL DEF Spec

-------------------------------------------------------------------------------
\* The state of the screen and its requests is always of the declared types.
THEOREM TypeCorrect == Spec => []TypeOK
<1>1. Inv => TypeOK BY DEF Inv
<1> QED BY <1>1, InvHolds, PTL

\* Whatever searches and pages are in flight together, the list on the screen
\* holds what its own query selects and nothing else.
THEOREM OneQueryAtATime == Spec => []OneQueryOnScreen
<1>1. ASSUME Inv PROVE OneQueryOnScreen
  <2>1. DOMAIN screen.rows = 1..Len(screen.rows)
    BY <1>1, LenProperties DEF Inv, TypeOK, Screen
  <2> QED BY <1>1, <2>1 DEF Inv, ScreenOK, MatchesOnly, OneQueryOnScreen, Shown
<1> QED BY <1>1, InvHolds, PTL

\* As long as nothing is saved in between, the pages on the screen are rows in
\* the order of the list, none of them twice.
THEOREM AlwaysInOrder == Spec => []ListedInOrder
<1>1. ASSUME Inv PROVE ListedInOrder
  <2> SUFFICES ASSUME ~ screen.shifted, NEW k \in DOMAIN screen.rows,
                      NEW l \in DOMAIN screen.rows, k < l
               PROVE  Place(screen.rows[k]) < Place(screen.rows[l])
    BY DEF ListedInOrder
  <2> DEFINE found == FoundIn(table, screen.query)
  <2>1. /\ table \in Seq(Writings) /\ DOMAIN table = 1..Len(table)
        /\ DOMAIN screen.rows = 1..Len(screen.rows) /\ Len(table) \in Nat
    BY <1>1, LenProperties DEF Inv, TypeOK, Screen
  <2>2. PICK place : Follows(found, screen, place)
    BY <1>1 DEF Inv, ScreenOK, Followed
  <2>3. PICK at : Picks(table, {i \in DOMAIN table : table[i] \in Matches[screen.query]},
                        found, at)
    BY <2>1, FoundIs
  <2> HIDE DEF found
  <2>4. /\ \A i \in 1..Len(found) : at[i] \in 1..Len(table) /\ found[i] = table[at[i]]
        /\ \A i, j \in 1..Len(found) : i < j => at[i] < at[j]
    BY <2>1, <2>3 DEF Picks, Increasing
  <2>5. /\ place[k] \in 1..Len(found) /\ place[l] \in 1..Len(found) /\ place[k] < place[l]
        /\ screen.rows[k] = found[place[k]] /\ screen.rows[l] = found[place[l]]
    BY <2>1, <2>2 DEF Follows, Increasing
  <2>6. ASSUME NEW i \in 1..Len(table) PROVE Place(table[i]) = i
    BY <1>1, <2>1 DEF Inv, TableOK, Place
  <2> QED BY <2>4, <2>5, <2>6
<1> QED BY <1>1, InvHolds, PTL

\* As long as nothing is saved in between, a list that offers no more lacks
\* nothing but the last row that was fetched with each page.
THEOREM LacksOnlyTheExtra == Spec => []LacksOnlyExtraRows
<1>1. ASSUME Inv PROVE LacksOnlyExtraRows
  <2> DEFINE found == FoundIn(table, screen.query)
  <2>1. Found(screen.query) = found BY DEF Found, FoundIn
  <2>2. /\ DOMAIN screen.rows = 1..Len(screen.rows) /\ found \in Seq(Writings)
    BY <1>1, LenProperties, FoundIs DEF Inv, TypeOK, Screen
  <2>3. DOMAIN found = 1..Len(found) BY <2>2, LenProperties
  <2> HIDE DEF found
  <2> SUFFICES ASSUME screen.next = 0, ~ screen.shifted, NEW i \in 1..Len(found),
                      found[i] \notin Shown
               PROVE  i % (perPage + 1) = 0
    BY <2>1, <2>3 DEF LacksOnlyExtraRows
  <2>4. PICK place : Follows(found, screen, place)
    BY <1>1 DEF Inv, ScreenOK, Followed, found
  <2>5. (\E k \in 1..Len(screen.rows) : place[k] = i) \/ i % (perPage + 1) = 0
    BY <2>4 DEF Follows, Reach
  <2>6. ASSUME NEW k \in 1..Len(screen.rows), place[k] = i PROVE found[i] \in Shown
    BY <2>2, <2>4, <2>6 DEF Follows, Shown
  <2> QED BY <2>5, <2>6
<1> QED BY <1>1, InvHolds, PTL
===============================================================================
