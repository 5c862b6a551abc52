-------------------------------- MODULE Listing --------------------------------
(***************************************************************************)
(* The list screen of one kind of writing: internal/admin/lists.go, the    *)
(* queries of internal/content/store.go it makes, and the fragments of     *)
(* internal/view/posts.templ.  One URL answers a search with its first     *)
(* page and "load more" with a later one; the two are requests of two      *)
(* elements, so they can be in flight together, while the table changes.   *)
(*                                                                         *)
(* The `shifted' fields only record history: no action reads them.  A slip *)
(* is a mistake the definition after it could have had.                    *)
(***************************************************************************)
EXTENDS Integers, Sequences, FiniteSets

CONSTANTS
  Writings,    \* the rows there may be, numbered as they are listed at first
  Queries,     \* what is typed into the search box
  Matches,     \* the rows whose title or slug holds each query
  perPage,     \* rows a list shows before it offers to load more
  FirstSizes,  \* how many rows the table starts with
  MaxChanges   \* bound: how often the table changes

ASSUME ListingAssumption ==
  /\ Writings \subseteq Nat
  /\ Matches \in [Queries -> SUBSET Writings]
  /\ perPage \in Nat \ {0}
  /\ FirstSizes \subseteq Nat
  /\ MaxChanges \in Nat

VARIABLES
  table,    \* the rows in the order of the list
  screen,   \* the region on the screen
  find,     \* the request of the search form
  more,     \* the request of the "load more" button
  changes   \* how often the table has changed

vars == <<table, screen, find, more, changes>>

\* page is 0 where there is none: nothing in flight, no button on the screen.
Request ==
  [page : Nat, query : Queries, done : BOOLEAN, rows : Seq(Writings),
   next : Nat, shifted : BOOLEAN]
Screen  == [query : Queries, rows : Seq(Writings), next : Nat, shifted : BOOLEAN]

TypeOK ==
  /\ table \in Seq(Writings)
  /\ screen \in Screen
  /\ find \in Request
  /\ more \in Request
  /\ changes \in 0..MaxChanges

-------------------------------------------------------------------------------
\* Helpers.

\* The members of s at the given places, in the order they stand: SelectSeq, in
\* a form that can be proved about.
Before(places, i) == Cardinality({j \in places : j < i})
Picked(s, places) ==
  [k \in 1..Cardinality(places) |->
     s[CHOOSE i \in places : Before(places, i) = k - 1]]

\* What the query selects, in the order of the list.
Found(query) == Picked(table, {i \in DOMAIN table : table[i] \in Matches[query]})

\* listingFrom: one row more than is shown, to discover whether there is a
\* page after this one.
Fetched == perPage + 1

\* Pop's Paginate: limit and offset.
Paginate(rows, page, per) ==
  LET offset == (page - 1) * per
      left   == Len(rows) - offset
  IN  [k \in 1..(IF left < per THEN left ELSE per) |-> rows[offset + k]]

\* Slips: no page is -1, not 0; the button asks for this page again; the rows
\* are measured against what was fetched.
TrimMinusOne(rows, page) ==
  IF Len(rows) <= perPage THEN [rows |-> rows, next |-> -1]
  ELSE [rows |-> SubSeq(rows, 1, perPage), next |-> page + 1]
TrimSamePage(rows, page) ==
  IF Len(rows) <= perPage THEN [rows |-> rows, next |-> 0]
  ELSE [rows |-> SubSeq(rows, 1, perPage), next |-> page]
TrimAtFetched(rows, page) ==
  IF Len(rows) <= Fetched THEN [rows |-> rows, next |-> 0]
  ELSE [rows |-> SubSeq(rows, 1, perPage), next |-> page + 1]

\* trim drops the extra row and reports the page after this one, or 0.
Trim(rows, page) ==
  IF Len(rows) <= perPage THEN [rows |-> rows, next |-> 0]
  ELSE [rows |-> SubSeq(rows, 1, perPage), next |-> page + 1]

\* Nobody waits for an answer.
Quiet(query) ==
  [page |-> 0, query |-> query, done |-> FALSE, rows |-> <<>>, next |-> 0,
   shifted |-> FALSE]
Asked(page, query) == [Quiet(query) EXCEPT !.page = page]

\* The answer to a request: one SELECT, then trim.
Answered(request) ==
  LET cut == Trim(Paginate(Found(request.query), request.page, Fetched),
                  request.page)
  IN  [request EXCEPT !.done = TRUE, !.rows = cut.rows, !.next = cut.next]

Region(request) ==
  [query |-> request.query, rows |-> request.rows, next |-> request.next,
   shifted |-> request.shifted]

-------------------------------------------------------------------------------
\* The screen opened cold: the whole page, with everything on it.
Init ==
  /\ \E n \in FirstSizes :
       table \in {s \in [1..n -> Writings] :
                    \A i, j \in 1..n : i < j => s[i] < s[j]}
  /\ \E query \in Queries :
       /\ find = Quiet(query)
       /\ more = Quiet(query)
       /\ screen = Region(Answered(Asked(1, query)))
  /\ changes = 0

\* The box is typed in: the form asks for the first page of what it holds.
\* One element has one request in flight.
Search(query) ==
  /\ find.page = 0
  /\ find' = Asked(1, query)
  /\ UNCHANGED <<table, screen, more, changes>>

\* Slip: the button asks for what the box holds by now.
PressMoreOfBox ==
  /\ more.page = 0
  /\ screen.next > 0
  /\ more' = Asked(screen.next, find.query)
  /\ UNCHANGED <<table, screen, find, changes>>

\* The button asks for its page of the query the region was made for.
PressMore ==
  /\ more.page = 0
  /\ screen.next > 0
  /\ more' = Asked(screen.next, screen.query)
  /\ UNCHANGED <<table, screen, find, changes>>

FindServed ==
  /\ find.page > 0 /\ ~ find.done
  /\ find' = Answered(find)
  /\ UNCHANGED <<table, screen, more, changes>>

MoreServed ==
  /\ more.page > 0 /\ ~ more.done
  /\ more' = Answered(more)
  /\ UNCHANGED <<table, screen, find, changes>>

\* Slip: the button is outside the region, and waits for its answer still.
FindShownBesideMore ==
  /\ find.done
  /\ screen' = Region(find)
  /\ find' = Quiet(find.query)
  /\ UNCHANGED <<table, more, changes>>

\* The first page replaces the region, and with it the button: an answer that
\* the old button waits for is dropped.
FindShown ==
  /\ find.done
  /\ screen' = Region(find)
  /\ find' = Quiet(find.query)
  /\ more' = Quiet(find.query)
  /\ UNCHANGED <<table, changes>>

\* A later page takes the place of the button that asked for it.
MoreShown ==
  /\ more.done
  /\ screen' = [screen EXCEPT !.rows = @ \o more.rows, !.next = more.next]
  /\ more' = Quiet(more.query)
  /\ UNCHANGED <<table, find, changes>>

\* A 500 or a cut connection: the page stays as it is, the button on it.
Fail ==
  \/ /\ find.page > 0
     /\ find' = Quiet(find.query)
     /\ UNCHANGED <<table, screen, more, changes>>
  \/ /\ more.page > 0
     /\ more' = Quiet(more.query)
     /\ UNCHANGED <<table, screen, find, changes>>

Listed == {table[i] : i \in DOMAIN table}
Without(w) == Picked(table, {i \in DOMAIN table : table[i] # w})
Put(s, i, w) == SubSeq(s, 1, i) \o <<w>> \o SubSeq(s, i + 1, Len(s))

\* Somebody saves writing: a new row enters the list, or one that is given
\* another date, title or slug moves in it.
Save(w, i) ==
  /\ changes < MaxChanges
  /\ changes' = changes + 1
  /\ i <= Len(Without(w))
  /\ table' = Put(Without(w), i, w)
  /\ screen' = [screen EXCEPT !.shifted = TRUE]
  /\ find' = [find EXCEPT !.shifted = find.done]
  /\ UNCHANGED more

Next ==
  \/ \E query \in Queries : Search(query)
  \/ PressMore \/ FindServed \/ MoreServed \/ FindShown \/ MoreShown \/ Fail
  \/ \E w \in Writings, i \in 0..Len(table) : Save(w, i)

Spec == Init /\ [][Next]_vars

-------------------------------------------------------------------------------
(***************************************************************************)
(* Properties.                                                             *)
(***************************************************************************)

Shown == {screen.rows[k] : k \in DOMAIN screen.rows}
Place(w) == CHOOSE i \in DOMAIN table : table[i] = w

\* Searches and "load more" overlap, but the region never mixes what two
\* queries found.
OneQueryOnScreen == Shown \subseteq Matches[screen.query]

\* Unless writing was saved in between, no row is shown twice and none out of
\* its order, however many pages were appended.
ListedInOrder ==
  screen.shifted \/
    \A k, l \in DOMAIN screen.rows :
      k < l => Place(screen.rows[k]) < Place(screen.rows[l])

\* Unless writing was saved in between, a list loaded to its end lacks at most
\* the one extra row fetched with each page.
LacksOnlyExtraRows ==
  (screen.next = 0 /\ ~ screen.shifted) =>
    \A i \in DOMAIN Found(screen.query) :
      Found(screen.query)[i] \notin Shown => i % (perPage + 1) = 0

\* Pages are cut by offset, out of a table that moves between them.  Each save
\* repeats at most one row on the screen, the one it moved, and costs a list
\* loaded to its end at most one row beside the extra ones: the row that slid
\* onto a page already there, or was put on one.
Missed == {w \in Listed \ Shown : w \in Matches[screen.query]}
SavesCostARowEach ==
  /\ Len(screen.rows) - Cardinality(Shown) <= changes
  /\ screen.next = 0 =>
       Cardinality(Missed) <= Len(Found(screen.query)) \div (perPage + 1) + changes

\* view.go: NextPage is "0 when the listing is complete".  The extra row that
\* trim drops is counted in the offset of the next page, so no page shows it.
CompleteWhenNoButton ==
  (screen.next = 0 /\ ~ screen.shifted) =>
    \A i \in DOMAIN Found(screen.query) : Found(screen.query)[i] \in Shown
================================================================================
