---------------------------- MODULE JournalProofs ----------------------------
(***************************************************************************)
(* What holds of the journal sheet for any journal, number of rules and of  *)
(* older pages under way, and page size, proved.                            *)
(*                                                                         *)
(* The list is faithful because the one older page that is under way, of    *)
(* those asked for in this load, was asked for with the list's own cursor,  *)
(* and its rows are the newest of those older than it: what the channel has *)
(* held since the load was answered, and was not moved up, is in the list,  *)
(* in the page or older than the page.                                      *)
(***************************************************************************)
EXTENDS JournalSheet, FiniteSetTheorems, WellFoundedInduction, TLAPS

------------------------------------------------------------------------------
(* Pages. *)

LEMMA LeastOfRank ==
    ASSUME NEW S, S # {}, NEW rank \in [S -> Nat]
    PROVE  \E m \in S : \A k \in S : rank[m] =< rank[k]
<1> DEFINE ranks == {rank[k] : k \in S}
<1>1. ranks \subseteq Nat /\ ranks # {}
  OBVIOUS
<1> HIDE DEF ranks
<1>2. \E x \in ranks : \A y \in ranks : ~(<<y, x>> \in OpToRel(<, Nat))
  BY <1>1, NatLessThanWellFounded, WFMin
<1>3. \E x \in ranks : \A y \in ranks : ~(y < x)
  BY <1>1, <1>2 DEF OpToRel
<1>4. PICK m \in S : \A y \in ranks : ~(y < rank[m])
  BY <1>3 DEF ranks
<1>5. \A k \in S : rank[k] \in ranks
  BY DEF ranks
<1> QED
  BY <1>4, <1>5

LEMMA SubsetIsSmaller ==
    ASSUME NEW S, IsFiniteSet(S), NEW T \in SUBSET S
    PROVE  /\ Cardinality(S) \in Nat /\ Cardinality(T) \in Nat
           /\ S # T => Cardinality(T) < Cardinality(S)
BY FS_Subset, FS_CardinalityType

LEMMA LeastOfInts ==
    ASSUME NEW S \in SUBSET Int, IsFiniteSet(S), S # {}
    PROVE  \E m \in S : \A k \in S : m =< k
<1> DEFINE below(m) == {k \in S : k < m}
           rank == [m \in S |-> Cardinality(below(m))]
<1>1. ASSUME NEW m \in S
      PROVE  IsFiniteSet(below(m)) /\ Cardinality(below(m)) \in Nat
  <2>1. below(m) \in SUBSET S
    OBVIOUS
  <2> QED
    BY <2>1, FS_Subset, FS_CardinalityType
<1>2. rank \in [S -> Nat]
  BY <1>1
<1>3. PICK m \in S : \A k \in S : rank[m] =< rank[k]
  BY <1>2, LeastOfRank
<1>4. ASSUME NEW k \in S, k < m
      PROVE  FALSE
  <2>1. below(k) \in SUBSET below(m)
    <3>1. \A j \in S : j < k => j < m
      BY <1>4
    <3> QED
      BY <3>1
  <2>3. k \in below(m) /\ k \notin below(k)
    BY <1>4
  <2>2. Cardinality(below(k)) < Cardinality(below(m))
    BY <1>1, <2>1, <2>3, SubsetIsSmaller
  <2> QED
    BY <1>1, <1>3, <2>2
<1> QED
  BY <1>3, <1>4

LEMMA GreatestOfInts ==
    ASSUME NEW S \in SUBSET Int, IsFiniteSet(S), S # {}
    PROVE  \E m \in S : \A k \in S : k =< m
<1> DEFINE above(m) == {k \in S : k > m}
           rank == [m \in S |-> Cardinality(above(m))]
<1>1. ASSUME NEW m \in S
      PROVE  IsFiniteSet(above(m)) /\ Cardinality(above(m)) \in Nat
  <2>1. above(m) \in SUBSET S
    OBVIOUS
  <2> QED
    BY <2>1, FS_Subset, FS_CardinalityType
<1>2. rank \in [S -> Nat]
  BY <1>1
<1>3. PICK m \in S : \A k \in S : rank[m] =< rank[k]
  BY <1>2, LeastOfRank
<1>4. ASSUME NEW k \in S, k > m
      PROVE  FALSE
  <2>1. above(k) \in SUBSET above(m)
    <3>1. \A j \in S : j > k => j > m
      BY <1>4
    <3> QED
      BY <3>1
  <2>3. k \in above(m) /\ k \notin above(k)
    BY <1>4
  <2>2. Cardinality(above(k)) < Cardinality(above(m))
    BY <1>1, <2>1, <2>3, SubsetIsSmaller
  <2> QED
    BY <1>1, <1>3, <2>2
<1> QED
  BY <1>3, <1>4

LEMMA SomeRows ==
    ASSUME NEW rows \in SUBSET Rows, rows # {}
    PROVE  /\ \E row \in rows : \A other \in rows : row.at =< other.at
           /\ \E row \in rows : \A other \in rows : other.at =< row.at
<1> DEFINE places == {row.at : row \in rows}
<1>1. places \in SUBSET Positions /\ places # {}
  BY DEF Rows
<1>2. places \in SUBSET Int /\ IsFiniteSet(places)
  BY <1>1, JournalAssumption, FS_Subset
<1> HIDE DEF places
<1>3. PICK least \in places : \A place \in places : least =< place
  BY <1>1, <1>2, LeastOfInts
<1>4. PICK greatest \in places : \A place \in places : place =< greatest
  BY <1>1, <1>2, GreatestOfInts
<1> QED
  BY <1>3, <1>4 DEF places

LEMMA HeldRows ==
    ASSUME position \in [Matches -> Positions], NEW c
    PROVE  LET rows == {RowOf(m) : m \in Held(c)} IN
           rows \subseteq Rows /\ IsFiniteSet(rows)
<1> DEFINE rows == {RowOf(m) : m \in Held(c)}
           read == [m \in Held(c) |-> RowOf(m)]
<1>1. Held(c) \subseteq Matches
  BY DEF Held
<1>2. IsFiniteSet(Held(c))
  BY <1>1, JournalAssumption, FS_Subset
<1>3. read \in Surjection(Held(c), rows)
  BY DEF Surjection
<1>4. rows \subseteq Rows
  BY <1>1 DEF RowOf, Rows
<1> QED
  BY <1>2, <1>3, <1>4, FS_Surjection

LEMMA PageSizeIsPositive == PageSize \in Nat /\ 0 < PageSize
BY JournalAssumption

(* A page is the newest of what follows its cursor, and the next one starts *)
(* after its oldest row.                                                    *)
LEMMA PageIsNewest ==
    ASSUME position \in [Matches -> Positions], NEW c, NEW cursor \in Positions \union {None}
    PROVE  LET page == PageOf(c, cursor) IN
           /\ page.is = "page"
           /\ page.rows \subseteq Rows
           /\ MatchesOf(page.rows) \subseteq Held(c)
           /\ \A row \in page.rows : cursor = None \/ row.at < cursor
           /\ page.next \in Positions \union {None}
           /\ page.next # None =>
                  /\ \E row \in page.rows : page.next = row.at
                  /\ \A row \in page.rows : page.next =< row.at
           /\ \A m \in Held(c) :
                  /\ cursor = None \/ position[m] < cursor
                  /\ page.next = None \/ page.next =< position[m]
                  => m \in MatchesOf(page.rows)
<1> DEFINE all == {RowOf(m) : m \in Held(c)}
           follow == OlderThan(cursor, all)
           rows == Newest(PageSize, follow)
           above(row) == {other \in follow : other.at > row.at}
<1>0. all \subseteq Rows /\ IsFiniteSet(all)
  BY HeldRows
<1>1. follow \subseteq all
  BY DEF OlderThan
<1>2. IsFiniteSet(follow) /\ follow \in SUBSET Rows /\ \A row \in follow : row.at \in Int
  <2>1. IsFiniteSet(follow) /\ follow \in SUBSET Rows
    BY <1>0, <1>1, FS_Subset
  <2>2. \A row \in Rows : row.at \in Int
    BY JournalAssumption DEF Rows
  <2> QED
    BY <2>1, <2>2
<1>3. rows \subseteq follow
  BY DEF Newest
<1>4. ASSUME NEW row \in follow
      PROVE  IsFiniteSet(above(row)) /\ Cardinality(above(row)) \in Nat
  <2>1. above(row) \in SUBSET follow
    OBVIOUS
  <2> QED
    BY <1>2, <2>1, FS_Subset, FS_CardinalityType
<1>5. ASSUME NEW row \in rows, NEW other \in follow, row.at =< other.at
      PROVE  other \in rows
  <2>1. above(other) \in SUBSET above(row)
    <3>1. \A third \in follow : third.at > other.at => third.at > row.at
      BY <1>2, <1>3, <1>5
    <3> QED
      BY <3>1
  <2>2. Cardinality(above(other)) =< Cardinality(above(row))
    BY <1>3, <1>4, <2>1, FS_Subset
  <2>3. Cardinality(above(row)) < PageSize
    BY DEF Newest
  <2> DEFINE i == Cardinality(above(other))
             j == Cardinality(above(row))
  <2>4. i \in Nat /\ j \in Nat /\ PageSize \in Nat /\ i =< j /\ j < PageSize
    BY <1>3, <1>4, <2>2, <2>3, PageSizeIsPositive, Zenon
  <2>5. i < PageSize
    <3> HIDE DEF i, j
    <3> QED
      BY <2>4
  <2> QED
    BY <2>5 DEF Newest
<1>6. ASSUME rows # follow
      PROVE  \E row \in rows : Oldest(rows) = row.at /\ \A other \in rows : row.at =< other.at
  <2>1. follow # {}
    BY <1>3, <1>6
  <2>2. PICK newest \in follow : \A other \in follow : other.at =< newest.at
    BY <1>2, <2>1, SomeRows
  <2>3. above(newest) = {}
    BY <1>2, <2>2
  <2>4. newest \in rows
    <3>1. Cardinality(above(newest)) = 0
      BY <2>3, FS_EmptySet, Zenon
    <3>2. Cardinality(above(newest)) < PageSize
      BY <3>1, PageSizeIsPositive
    <3> QED
      BY <3>2 DEF Newest
  <2>5. \E row \in rows : \A other \in rows : row.at =< other.at
    BY <1>2, <1>3, <2>4, SomeRows
  <2> QED
    BY <2>5 DEF Oldest
<1>7. PageOf(c, cursor)
          = [is |-> "page", rows |-> rows, next |-> IF rows = follow THEN None ELSE Oldest(rows)]
  BY DEF PageOf
<1>8. \A row \in rows : row.at \in Positions /\ row.at # None
  BY <1>2, <1>3, JournalAssumption DEF Rows
<1>9. \A row \in rows : cursor = None \/ row.at < cursor
  BY <1>3 DEF OlderThan
<1>10. ASSUME NEW m \in Held(c), cursor = None \/ position[m] < cursor
       PROVE  RowOf(m) \in follow /\ RowOf(m).match = m /\ RowOf(m).at = position[m]
  BY <1>10 DEF OlderThan, RowOf
<1>11. MatchesOf(rows) \subseteq Held(c)
  <2>1. \A row \in all : row.match \in Held(c)
    BY DEF RowOf
  <2>2. rows \subseteq all
    BY <1>1, <1>3
  <2> QED
    BY <2>1, <2>2 DEF MatchesOf
<1>12. ASSUME NEW m \in Held(c), RowOf(m) \in rows, RowOf(m).match = m
       PROVE  m \in MatchesOf(rows)
  BY <1>12 DEF MatchesOf
<1> HIDE DEF rows, follow, all
<1>13. CASE rows = follow
  <2>1. PageOf(c, cursor).next = None
    BY <1>7, <1>13
  <2> QED
    BY <1>2, <1>7, <1>9, <1>10, <1>11, <1>12, <1>13, <2>1
<1>14. CASE rows # follow
  <2>1. PICK oldest \in rows : Oldest(rows) = oldest.at /\ \A other \in rows : oldest.at =< other.at
    BY <1>6, <1>14
  <2>2. /\ PageOf(c, cursor).next = oldest.at /\ oldest.at # None /\ oldest.at \in Positions
        /\ PageOf(c, cursor).rows = rows /\ PageOf(c, cursor).is = "page"
    BY <1>7, <1>8, <1>14, <2>1
  <2>3. ASSUME NEW m \in Held(c), cursor = None \/ position[m] < cursor, oldest.at =< position[m]
        PROVE  m \in MatchesOf(rows)
    BY <1>5, <1>10, <1>12, <2>3
  <2>4. rows \subseteq Rows
    BY <1>2, <1>3
  <2> QED
    BY <1>9, <1>11, <2>1, <2>2, <2>3, <2>4
<1> QED
  BY <1>13, <1>14

------------------------------------------------------------------------------
(* Selecting, and the trace. *)

LEMMA AskKinds ==
    ASSUME NEW ask \in Asks
    PROVE  /\ ask.for \in {"list", "older", "detail"}
           /\ ask.for = "list" => ask \in ListAsks
           /\ ask.for = "older" => ask \in OlderAsks
           /\ ask.for = "detail" => ask \in DetailAsks
BY DEF Asks, ListAsks, OlderAsks, DetailAsks

(* The requests that are not for the trace. *)
ForList(requests) == {ask \in requests : ask.for # "detail"}

(* Those that are, are for this match. *)
DetailsOf(requests, match) == \A ask \in requests : ask.for = "detail" => ask.match = match

MatchOrNone == Matches \union {None}

PlaceOrNone == Positions \union {None}

Details == Resources!ResourceOf(Matches)

(* The trace that is shown is the selection's, and so is what is to land; a  *)
(* gate is inspected of the selection, or of what was before there was none. *)
TraceInv ==
    /\ DetailsOf(asks, selected)
    /\ detail.status = "ready" => detail.data = selected
    /\ inspect # None => selected \in {inspect, None}
    /\ ~mounted => inspect = None

(* The effect that selects picks a match of the list. *)
LEMMA AutoSelectedIsAMatch ==
    ASSUME NEW j, j.pages \in Seq(SUBSET Rows), NEW match \in MatchOrNone
    PROVE  AutoSelected(j, match) \in MatchOrNone
<1> SUFFICES ASSUME match = None, RowsShown(j) # {}
             PROVE  LET first == CHOOSE p \in DOMAIN j.pages :
                            j.pages[p] # {} /\ \A q \in 1 .. (p - 1) : j.pages[q] = {}
                    IN  (CHOOSE row \in j.pages[first] :
                             \A other \in j.pages[first] : other.at =< row.at).match \in Matches
  BY DEF AutoSelected, MatchOrNone
<1> DEFINE some == {p \in DOMAIN j.pages : j.pages[p] # {}}
           first == CHOOSE p \in DOMAIN j.pages :
                        j.pages[p] # {} /\ \A q \in 1 .. (p - 1) : j.pages[q] = {}
<1>1. DOMAIN j.pages = 1 .. Len(j.pages) /\ Len(j.pages) \in Nat
  OBVIOUS
<1>2. some # {}
  BY DEF RowsShown, Range
<1>3. [p \in some |-> p] \in [some -> Nat]
  BY <1>1
<1>4. PICK p \in some : \A q \in some : p =< q
  <2>1. \E p \in some : \A q \in some : [r \in some |-> r][p] =< [r \in some |-> r][q]
    BY <1>2, <1>3, LeastOfRank
  <2> QED
    BY <2>1
<1>5. \A q \in 1 .. (p - 1) : j.pages[q] = {}
  <2> SUFFICES ASSUME NEW q \in 1 .. (p - 1), j.pages[q] # {} PROVE FALSE
    OBVIOUS
  <2>1. q \in some
    BY <1>1
  <2> QED
    BY <1>1, <1>4, <2>1
<1>6. first \in DOMAIN j.pages /\ j.pages[first] # {}
  BY <1>4, <1>5
<1> HIDE DEF first
<1>7. j.pages[first] \in SUBSET Rows
  BY <1>1, <1>6
<1>8. \E row \in j.pages[first] : \A other \in j.pages[first] : other.at =< row.at
  BY <1>6, <1>7, SomeRows
<1>9. \A row \in Rows : row.match \in Matches
  BY DEF Rows
<1> QED
  BY <1>7, <1>8, <1>9 DEF first

LEMMA ResourceTypes ==
    ASSUME NEW r \in Details, NEW match \in MatchOrNone
    PROVE  /\ Resources!Landed(r, match) \in Details
           /\ Resources!Landed(r, match).status = "ready" /\ Resources!Landed(r, match).data = match
           /\ Resources!Restarted(r) \in Details /\ Resources!Restarted(r).status = "loading"
           /\ Resources!FailureLanded(r) \in Details /\ Resources!FailureLanded(r).status = "error"
BY DEF Details, MatchOrNone, Resources!ResourceOf, Resources!Landed, Resources!Restarted,
   Resources!FailureLanded

LEMMA LoadDetailTypes ==
    ASSUME NEW match \in MatchOrNone, detail \in Details, LoadDetail(detail, match)
    PROVE  /\ detail' \in Details
           /\ detail'.status = "ready" => detail'.data = match
BY ResourceTypes DEF LoadDetail, MatchOrNone

LEMMA DetailAskTypes ==
    ASSUME NEW match \in MatchOrNone
    PROVE  /\ DetailAsk(match) \subseteq Asks
           /\ \A ask \in DetailAsk(match) : ask.for = "detail" /\ ask.match = match
BY DEF DetailAsk, MatchOrNone, Asks, DetailAsks

LEMMA DetailAskedTypes ==
    ASSUME NEW match \in MatchOrNone, NEW requests \in SUBSET Asks
    PROVE  /\ DetailAsked(match, requests) \subseteq Asks
           /\ DetailsOf(DetailAsked(match, requests), match)
           /\ ForList(DetailAsked(match, requests)) = ForList(requests)
BY DetailAskTypes DEF DetailAsked, Withdrawn, DetailsOf, ForList

(* What showing a match, or choosing one, keeps of its trace. *)
LEMMA ShowKeepsTrace ==
    ASSUME NEW match \in MatchOrNone, NEW requests \in SUBSET Asks,
           detail \in Details, DetailsOf(requests, selected),
           detail.status = "ready" => detail.data = selected,
           Show(match, requests)
    PROVE  /\ selected' = match
           /\ detail' \in Details
           /\ asks' \in SUBSET Asks
           /\ DetailsOf(asks, selected)'
           /\ detail'.status = "ready" => detail'.data = selected'
           /\ ForList(asks') = ForList(requests)
<1>1. CASE match = selected
  BY <1>1 DEF Show, DetailsOf, ForList
<1>2. CASE match # selected
  <2>1. selected' = match /\ asks' = DetailAsked(match, requests) /\ LoadDetail(detail, match)
    BY <1>2 DEF Show
  <2> QED
    BY <2>1, DetailAskedTypes, LoadDetailTypes DEF DetailsOf
<1> QED
  BY <1>1, <1>2

SheetInv == SheetTypeOK /\ TraceInv

LEMMA LoadsOrStays ==
    ASSUME SheetTypeOK, LoadList \/ UNCHANGED listVars
    PROVE  journal' \in Lists /\ steady' \subseteq Matches /\ mixed' \in BOOLEAN
<1>1. <<>> \in Seq(SUBSET Rows)
  OBVIOUS
<1>2. LoadingList \in Lists
  BY <1>1 DEF LoadingList, Lists
<1>3. CASE LoadList
  BY <1>2, <1>3 DEF LoadList
<1>4. CASE UNCHANGED listVars
  BY <1>4 DEF SheetTypeOK, listVars
<1> QED
  BY <1>3, <1>4

(* What was asked for is withdrawn or late, but for the list asked for now. *)
LEMMA ListAskedTypes ==
    ASSUME NEW c \in Channels, NEW requests \in SUBSET Asks
    PROVE  /\ ListAsked(c, requests) \in SUBSET Asks
           /\ ListAsk(c) \in ListAsked(c, requests)
           /\ \A match : DetailsOf(requests, match) => DetailsOf(ListAsked(c, requests), match)
           /\ \A ask \in ForList(ListAsked(c, requests)) :
                  \/ ask = ListAsk(c)
                  \/ /\ ask \in OlderAsks /\ ask.late
                     /\ \E earlier \in requests : ask = [earlier EXCEPT !.late = TRUE]
<1>1. ListAsk(c) \in ListAsks
  BY DEF ListAsk, ListAsks, Answers
<1>2. ASSUME NEW ask \in ListAsked(c, requests)
      PROVE  \/ ask = ListAsk(c)
             \/ ask.for = "detail" /\ ask \in requests
             \/ /\ ask \in OlderAsks /\ ask.late
                /\ \E earlier \in requests : ask = [earlier EXCEPT !.late = TRUE]
  <2>1. ASSUME NEW earlier \in Withdrawn("list", requests),
               ask = IF earlier.for = "older" THEN [earlier EXCEPT !.late = TRUE] ELSE earlier
        PROVE  \/ ask.for = "detail" /\ ask \in requests
               \/ /\ ask \in OlderAsks /\ ask.late
                  /\ ask = [earlier EXCEPT !.late = TRUE]
    <3>1. earlier \in requests /\ earlier \in Asks /\ earlier.for # "list"
      BY DEF Withdrawn
    <3>2. CASE earlier.for = "older"
      <4>1. earlier \in OlderAsks
        BY <3>1, <3>2, AskKinds
      <4>2. [earlier EXCEPT !.late = TRUE] \in OlderAsks /\ [earlier EXCEPT !.late = TRUE].late
        BY <4>1 DEF OlderAsks
      <4> QED
        BY <2>1, <3>2, <4>2
    <3>3. CASE earlier.for # "older"
      BY <2>1, <3>1, <3>3, AskKinds
    <3> QED
      BY <3>2, <3>3
  <2> QED
    BY <2>1 DEF ListAsked, Outlasting, Withdrawn
<1>3. \A ask \in OlderAsks : ask.for = "older"
  BY DEF OlderAsks
<1>4. ListAsk(c).for = "list"
  BY DEF ListAsk
<1> QED
  BY <1>1, <1>2, <1>3, <1>4 DEF ListAsked, Asks, DetailsOf, ForList

LEMMA TuneKeepsTrace ==
    ASSUME SheetInv, NEW target \in Channels, Tune(target), UNCHANGED journalVars
    PROVE  SheetInv'
<1> USE DEF SheetInv
<1>1. asks \in SUBSET Asks /\ detail \in Details /\ channel' = target /\ mounted' = mounted /\ mounted
  BY DEF SheetTypeOK, Asks, Details, Tune
<1>2. PICK match \in MatchOrNone, requests \in SUBSET Asks :
        /\ Show(match, requests)
        /\ DetailsOf(requests, selected)
        /\ inspect' = None \/ (match = None /\ inspect' = inspect)
  <2>1. CASE target = channel
    <3>1. AutoSelected(journal, None) \in MatchOrNone
      BY AutoSelectedIsAMatch DEF SheetTypeOK, MatchOrNone, Lists
    <3> QED
      BY <1>1, <2>1, <3>1 DEF Tune, Choose, TraceInv, MatchOrNone
  <2>2. CASE target # channel
    <3>1. Show(None, ListAsked(target, asks)) /\ inspect' = inspect
      BY <2>2 DEF Tune
    <3> QED
      BY <1>1, <3>1, ListAskedTypes DEF TraceInv, MatchOrNone
  <2> QED
    BY <2>1, <2>2
<1>3. /\ selected' = match /\ detail' \in Details /\ asks' \in SUBSET Asks
      /\ DetailsOf(asks, selected)'
      /\ detail'.status = "ready" => detail'.data = selected'
  BY <1>1, <1>2, ShowKeepsTrace DEF TraceInv
<1>4. inspect' \in MatchOrNone
  BY <1>2 DEF SheetTypeOK, MatchOrNone
<1>5. journal' \in Lists /\ steady' \subseteq Matches /\ mixed' \in BOOLEAN
  <2>1. LoadList \/ UNCHANGED listVars
    BY DEF Tune
  <2> QED
    BY <2>1, LoadsOrStays
<1>6. SheetTypeOK'
  <2>1. stage' = stage /\ position' = position /\ armed' = armed /\ channel' \in Channels
    BY <1>1, <1>3, <1>4, <1>5 DEF SheetTypeOK, journalVars
  <2>2. (mounted \in BOOLEAN)'
    BY <1>1 DEF SheetTypeOK
  <2> QED
    BY <1>1, <1>3, <1>4, <1>5, <2>1, <2>2, ZenonT(30) DEF SheetTypeOK, Details, MatchOrNone
<1>7. TraceInv'
  <2>1. inspect' # None => selected' \in {inspect', None}
    BY <1>1, <1>2, <1>3 DEF TraceInv
  <2>2. mounted'
    BY <1>1
  <2> QED
    BY <1>1, <1>2, <1>3, <2>1, <2>2, Zenon DEF TraceInv
<1> QED
  BY <1>6, <1>7

LEMMA JumpKeepsTrace ==
    ASSUME SheetInv, NEW match \in Matches, Jump(match), UNCHANGED journalVars
    PROVE  SheetInv'
<1> USE DEF SheetInv
<1>1. asks \in SUBSET Asks /\ detail \in Details /\ mounted' = mounted /\ mounted
  BY DEF SheetTypeOK, Asks, Details, Jump
<1>2. channel' = All /\ All \in Channels /\ match \in MatchOrNone
  BY DEF Jump, Channels, MatchOrNone
<1>3. PICK requests \in SUBSET Asks :
        Show(match, requests) /\ DetailsOf(requests, selected) /\ inspect' = None
  BY <1>1, <1>2, ListAskedTypes DEF Jump, Choose, TraceInv
<1>4. /\ selected' = match /\ detail' \in Details /\ asks' \in SUBSET Asks
      /\ DetailsOf(asks, selected)'
      /\ detail'.status = "ready" => detail'.data = selected'
  BY <1>1, <1>2, <1>3, ShowKeepsTrace DEF TraceInv
<1>5. journal' \in Lists /\ steady' \subseteq Matches /\ mixed' \in BOOLEAN
  <2>1. LoadList \/ UNCHANGED listVars
    BY DEF Jump
  <2> QED
    BY <2>1, LoadsOrStays
<1>6. SheetTypeOK'
  <2>1. stage' = stage /\ position' = position /\ armed' = armed /\ channel' \in Channels
    BY <1>1, <1>2, <1>3, <1>4, <1>5 DEF SheetTypeOK, journalVars
  <2>2. (mounted \in BOOLEAN)'
    BY <1>1 DEF SheetTypeOK
  <2> QED
    BY <1>1, <1>2, <1>3, <1>4, <1>5, <2>1, <2>2, ZenonT(30) DEF SheetTypeOK, Details, MatchOrNone
<1>7. TraceInv'
  <2>1. inspect' # None => selected' \in {inspect', None}
    BY <1>1, <1>3, <1>4 DEF TraceInv
  <2>2. mounted'
    BY <1>1
  <2> QED
    BY <1>1, <1>3, <1>4, <2>1, <2>2, Zenon DEF TraceInv
<1> QED
  BY <1>6, <1>7

(* A match is chosen, by the user or because a list has come, or none is. *)
LEMMA ChooseKeepsTrace ==
    ASSUME SheetInv, NEW match \in MatchOrNone, NEW requests \in SUBSET Asks,
           DetailsOf(requests, selected),
           Show(match, requests), inspect' = None \/ (match = selected /\ inspect' = inspect),
           UNCHANGED <<journalVars, channel>>, mounted' = mounted,
           journal' \in Lists, steady' \subseteq Matches, mixed' \in BOOLEAN
    PROVE  SheetInv'
<1> USE DEF SheetInv
<1>1. detail \in Details
  BY DEF SheetTypeOK, Details
<1>2. /\ selected' = match /\ detail' \in Details /\ asks' \in SUBSET Asks
      /\ DetailsOf(asks, selected)'
      /\ detail'.status = "ready" => detail'.data = selected'
  BY <1>1, ShowKeepsTrace DEF TraceInv
<1>3. inspect' \in MatchOrNone
  BY DEF SheetTypeOK, MatchOrNone
<1>4. SheetTypeOK'
  <2>1. stage' = stage /\ position' = position /\ armed' = armed /\ channel' \in Channels
    BY <1>2, <1>3 DEF SheetTypeOK, journalVars
  <2>2. (mounted \in BOOLEAN)'
    BY <1>1 DEF SheetTypeOK
  <2> QED
    BY <1>2, <1>3, <2>1, <2>2, ZenonT(30) DEF SheetTypeOK, Details, MatchOrNone
<1>5. TraceInv'
  <2>1. inspect' # None => selected' \in {inspect', None}
    BY <1>2 DEF TraceInv
  <2>2. ~mounted' => inspect' = None
    BY DEF TraceInv
  <2> QED
    BY <1>2, <2>1, <2>2, Zenon DEF TraceInv
<1> QED
  BY <1>4, <1>5

LEMMA AutoSelectKeepsTrace ==
    ASSUME SheetInv, NEW requests \in SUBSET asks, AutoSelect(journal', requests),
           UNCHANGED <<journalVars, channel, steady>>, mounted' = mounted,
           journal' \in Lists, mixed' \in BOOLEAN
    PROVE  SheetInv'
<1> DEFINE match == AutoSelected(journal', selected)
<1>1. match \in MatchOrNone
  BY AutoSelectedIsAMatch DEF SheetInv, SheetTypeOK, MatchOrNone, Lists
<1>2. requests \in SUBSET Asks /\ DetailsOf(requests, selected)
  BY DEF SheetInv, SheetTypeOK, TraceInv, Asks, DetailsOf
<1>3. Show(match, requests) /\ (inspect' = None \/ (match = selected /\ inspect' = inspect))
  BY DEF AutoSelect, Choose
<1>4. steady' \subseteq Matches
  BY DEF SheetInv, SheetTypeOK
<1> QED
  BY <1>1, <1>2, <1>3, <1>4, ChooseKeepsTrace

LEMMA SelectKeepsTrace ==
    ASSUME SheetInv, NEW match \in Matches, Select(match), UNCHANGED journalVars
    PROVE  SheetInv'
<1>1. /\ asks \in SUBSET Asks /\ DetailsOf(asks, selected) /\ match \in MatchOrNone
      /\ Show(match, asks) /\ inspect' = None /\ channel' = channel /\ mounted' = mounted
  BY DEF SheetInv, SheetTypeOK, TraceInv, MatchOrNone, Select, Choose
<1>2. journal' \in Lists /\ steady' \subseteq Matches /\ mixed' \in BOOLEAN
  BY LoadsOrStays DEF SheetInv, Select
<1> QED
  BY <1>1, <1>2, ChooseKeepsTrace DEF journalVars

(* The steps that leave the selection and what is inspected. *)
LEMMA RequestsKeepTrace ==
    ASSUME SheetInv, asks' \in SUBSET Asks, DetailsOf(asks', selected), detail' \in Details,
           detail'.status = "ready" => detail'.data = selected,
           UNCHANGED <<journalVars, mounted, channel, selected, inspect>>,
           journal' \in Lists, steady' \subseteq Matches, mixed' \in BOOLEAN
    PROVE  SheetInv'
<1>1. SheetTypeOK'
  <2>1. /\ stage' \in [Matches -> {"new", "recorded", "deleted"}] /\ position' \in [Matches -> Positions]
        /\ armed' \subseteq Rules
        /\ channel' \in Channels /\ selected' \in Matches \union {None}
        /\ inspect' \in Matches \union {None}
    BY DEF SheetInv, SheetTypeOK, journalVars
  <2>2. (mounted \in BOOLEAN)'
    BY DEF SheetInv, SheetTypeOK
  <2> QED
    BY <2>1, <2>2, ZenonT(30) DEF SheetTypeOK, Details
<1>2. TraceInv'
  <2>1. inspect' # None => selected' \in {inspect', None}
    BY DEF SheetInv, TraceInv
  <2>2. ~mounted' => inspect' = None
    BY DEF SheetInv, TraceInv
  <2>3. DetailsOf(asks', selected') /\ (detail'.status = "ready" => detail'.data = selected')
    OBVIOUS
  <2> QED
    BY <2>1, <2>2, <2>3 DEF TraceInv, DetailsOf
<1> QED
  BY <1>1, <1>2 DEF SheetInv

LEMMA LoadMoreKeepsTrace ==
    ASSUME SheetInv, NEW slot \in Slots, LoadMore(slot), UNCHANGED journalVars
    PROVE  SheetInv'
<1> DEFINE more == [for |-> "older", slot |-> slot, channel |-> channel,
                    cursor |-> journal.next, answer |-> Unanswered, late |-> FALSE]
<1>1. more \in OlderAsks
  <2>1. Unanswered \in Answers
    BY DEF Answers
  <2>2. journal.next \in Positions /\ channel \in Channels
    BY DEF LoadMore, OffersMore, SheetInv, SheetTypeOK, Lists
  <2> QED
    BY <2>1, <2>2 DEF OlderAsks
<1>2. asks' = asks \union {more} /\ more.for = "older"
  BY DEF LoadMore
<1>3. asks' \in SUBSET Asks /\ DetailsOf(asks', selected)
  <2>1. asks' \in SUBSET Asks
    BY <1>1, <1>2 DEF SheetInv, SheetTypeOK, Asks
  <2>2. DetailsOf(asks', selected)
    BY <1>2 DEF SheetInv, TraceInv, DetailsOf
  <2> QED
    BY <2>1, <2>2
<1>4. journal' \in Lists
  BY DEF LoadMore, SheetInv, SheetTypeOK, Lists
<1>5. /\ detail' \in Details
      /\ detail'.status = "ready" => detail'.data = selected
  BY DEF LoadMore, SheetInv, SheetTypeOK, TraceInv, Details
<1>6. /\ UNCHANGED <<mounted, channel, selected, inspect>>
      /\ steady' \subseteq Matches /\ mixed' \in BOOLEAN
  BY DEF LoadMore, SheetInv, SheetTypeOK
<1> QED
  BY <1>3, <1>4, <1>5, <1>6, RequestsKeepTrace

LEMMA RetryKeepsTrace ==
    ASSUME SheetInv, Retry, UNCHANGED journalVars
    PROVE  SheetInv'
<1>1. channel \in Channels /\ asks \in SUBSET Asks /\ DetailsOf(asks, selected)
  BY DEF SheetInv, SheetTypeOK, TraceInv
<1>2. asks' \in SUBSET Asks /\ DetailsOf(asks', selected)
  BY <1>1, ListAskedTypes DEF Retry
<1>3. journal' \in Lists /\ steady' \subseteq Matches /\ mixed' \in BOOLEAN
  BY LoadsOrStays DEF Retry, SheetInv
<1>4. /\ detail' \in Details
      /\ detail'.status = "ready" => detail'.data = selected
  BY DEF Retry, SheetInv, SheetTypeOK, TraceInv, Details
<1>5. UNCHANGED <<mounted, channel, selected, inspect>>
  BY DEF Retry
<1> QED
  BY <1>2, <1>3, <1>4, <1>5, RequestsKeepTrace

LEMMA RetryDetailKeepsTrace ==
    ASSUME SheetInv, RetryDetail, UNCHANGED journalVars
    PROVE  SheetInv'
<1>1. selected \in MatchOrNone /\ asks \in SUBSET Asks /\ detail \in Details
  BY DEF SheetInv, SheetTypeOK, MatchOrNone, Details
<1>2. asks' \in SUBSET Asks /\ DetailsOf(asks', selected)
  BY <1>1, DetailAskedTypes DEF RetryDetail
<1>3. journal' \in Lists /\ steady' \subseteq Matches /\ mixed' \in BOOLEAN
  BY LoadsOrStays DEF RetryDetail, SheetInv
<1>4. /\ detail' \in Details
      /\ detail'.status = "ready" => detail'.data = selected
  BY <1>1, LoadDetailTypes DEF RetryDetail
<1>5. UNCHANGED <<mounted, channel, selected, inspect>>
  BY DEF RetryDetail
<1> QED
  BY <1>2, <1>3, <1>4, <1>5, RequestsKeepTrace

LEMMA InspectingKeepsTrace ==
    ASSUME SheetInv, Inspect \/ Unpin, UNCHANGED journalVars
    PROVE  SheetInv'
<1>1. /\ asks \in SUBSET Asks /\ DetailsOf(asks, selected) /\ selected \in MatchOrNone
      /\ channel' = channel /\ mounted' = mounted /\ UNCHANGED listVars
      /\ Show(selected, asks)
  BY DEF SheetInv, SheetTypeOK, TraceInv, MatchOrNone, Inspect, Unpin, Show
<1>2. journal' \in Lists /\ steady' \subseteq Matches /\ mixed' \in BOOLEAN
  BY <1>1, LoadsOrStays DEF SheetInv
<1>3. CASE Unpin
  BY <1>1, <1>2, <1>3, ChooseKeepsTrace DEF Unpin, journalVars
<1>4. CASE Inspect
  <2>1. SheetTypeOK'
    <3>1. /\ stage' \in [Matches -> {"new", "recorded", "deleted"}] /\ position' \in [Matches -> Positions]
          /\ armed' \subseteq Rules
          /\ channel' \in Channels /\ selected' \in Matches \union {None}
          /\ inspect' \in Matches \union {None} /\ asks' \subseteq Asks
          /\ detail' \in Resources!ResourceOf(Matches)
      BY <1>4 DEF SheetInv, SheetTypeOK, journalVars, Inspect
    <3>2. (mounted \in BOOLEAN)'
      BY <1>1 DEF SheetInv, SheetTypeOK
    <3> QED
      BY <1>2, <3>1, <3>2, ZenonT(30) DEF SheetTypeOK
  <2>2. TraceInv'
    <3>1. inspect' = selected' /\ mounted'
      BY <1>4 DEF Inspect
    <3>2. DetailsOf(asks', selected') /\ (detail'.status = "ready" => detail'.data = selected')
      BY <1>4 DEF Inspect, SheetInv, TraceInv
    <3> QED
      BY <3>1, <3>2 DEF TraceInv, DetailsOf
  <2> QED
    BY <2>1, <2>2 DEF SheetInv
<1> QED
  BY <1>3, <1>4

LEMMA LeaveKeepsTrace ==
    ASSUME SheetInv, Leave, UNCHANGED journalVars
    PROVE  SheetInv'
<1>1. journal' \in Lists /\ steady' \subseteq Matches /\ mixed' \in BOOLEAN
  BY LoadsOrStays DEF Leave, SheetInv
<1>2. /\ detail' \in Resources!ResourceOf(Matches)
      /\ detail'.status = "loading"
  BY DEF Leave, Resources!Unloaded, Resources!ResourceOf
<1>3. /\ stage' \in [Matches -> {"new", "recorded", "deleted"}] /\ position' \in [Matches -> Positions]
      /\ armed' \subseteq Rules
      /\ channel' \in Channels /\ selected' \in Matches \union {None}
  BY DEF Leave, SheetInv, SheetTypeOK, journalVars
<1>4. asks' = {} /\ inspect' = None /\ ~mounted'
  BY DEF Leave
<1>5. (mounted \in BOOLEAN)'
  BY DEF Leave
<1>6. SheetTypeOK'
  <2>1. asks' \subseteq Asks /\ inspect' \in Matches \union {None}
    BY <1>4
  <2> QED
    BY <1>1, <1>2, <1>3, <1>5, <2>1, ZenonT(30) DEF SheetTypeOK
<1>7. TraceInv'
  BY <1>2, <1>4 DEF TraceInv, DetailsOf
<1> QED
  BY <1>6, <1>7 DEF SheetInv

LEMMA ReturnKeepsTrace ==
    ASSUME SheetInv, NEW c \in Channels, NEW match \in MatchOrNone, Return(c, match),
           UNCHANGED journalVars
    PROVE  SheetInv'
<1>1. journal' \in Lists /\ steady' \subseteq Matches /\ mixed' \in BOOLEAN
  BY LoadsOrStays DEF Return, SheetInv
<1>2. detail \in Details
  BY DEF SheetInv, SheetTypeOK, Details
<1>3. /\ detail' \in Details
      /\ detail'.status = "ready" => detail'.data = match
  BY <1>2, LoadDetailTypes DEF Return
<1>4. asks' = {ListAsk(c)} \union DetailAsk(match)
  BY DEF Return
<1>5. asks' \subseteq Asks /\ DetailsOf(asks', match)
  <2>1. ListAsk(c) \in ListAsks /\ ListAsk(c).for = "list"
    BY DEF ListAsk, ListAsks, Answers
  <2> QED
    BY <1>4, <2>1, DetailAskTypes DEF Asks, DetailsOf
<1>6. /\ stage' \in [Matches -> {"new", "recorded", "deleted"}] /\ position' \in [Matches -> Positions]
      /\ armed' \subseteq Rules
      /\ channel' \in Channels /\ selected' = match /\ selected' \in Matches \union {None}
  BY DEF Return, SheetInv, SheetTypeOK, journalVars, MatchOrNone
<1>7. mounted' = TRUE /\ inspect' = None
  BY DEF Return, SheetInv, TraceInv
<1>8. SheetTypeOK'
  <2>1. (mounted \in BOOLEAN)'
    BY <1>7
  <2>2. inspect' \in Matches \union {None}
    BY <1>7
  <2> QED
    BY <1>1, <1>3, <1>5, <1>6, <2>1, <2>2, ZenonT(30) DEF SheetTypeOK, Details
<1>9. TraceInv'
  BY <1>3, <1>5, <1>6, <1>7 DEF TraceInv, DetailsOf
<1> QED
  BY <1>8, <1>9 DEF SheetInv

(* A page the server answers with is one a list can take. *)
LEMMA PageTypes ==
    ASSUME position \in [Matches -> Positions], NEW c, NEW cursor \in PlaceOrNone
    PROVE  PageOf(c, cursor) \in [is : {"page"}, rows : SUBSET Rows, next : PlaceOrNone]
<1>1. /\ PageOf(c, cursor).is = "page"
      /\ PageOf(c, cursor).rows \subseteq Rows
      /\ PageOf(c, cursor).next \in Positions \union {None}
  BY PageIsNewest DEF PlaceOrNone
<1> QED
  BY <1>1 DEF PageOf, PlaceOrNone

LEMMA AnswerTypes ==
    ASSUME SheetTypeOK, NEW ask \in asks, Answer(ask)
    PROVE  /\ ask.for # "detail"
           /\ \E answer \in Answers :
                  /\ answer # Unanswered
                  /\ answer = PageOf(ask.channel, ask.cursor) \/ answer = Failure
                  /\ asks' = (asks \ {ask}) \union {[ask EXCEPT !.answer = answer]}
                  /\ [ask EXCEPT !.answer = answer] \in Asks
                  /\ [ask EXCEPT !.answer = answer].for = ask.for
<1>1. ask \in ListAsks \union OlderAsks
  BY AskKinds DEF SheetTypeOK, Answer
<1>2. ask.cursor \in PlaceOrNone /\ position \in [Matches -> Positions]
  BY <1>1 DEF ListAsks, OlderAsks, PlaceOrNone, SheetTypeOK
<1>3. PICK answer \in {PageOf(ask.channel, ask.cursor), Failure} :
          asks' = (asks \ {ask}) \union {[ask EXCEPT !.answer = answer]}
  BY DEF Answer
<1>4. answer \in Answers /\ answer # Unanswered
  BY <1>2, <1>3, PageTypes DEF Answers, Failure, Unanswered, PlaceOrNone
<1>5. [ask EXCEPT !.answer = answer] \in Asks /\ [ask EXCEPT !.answer = answer].for = ask.for
  BY <1>1, <1>4 DEF Asks, ListAsks, OlderAsks
<1> QED
  BY <1>3, <1>4, <1>5 DEF Answer

LEMMA AnswerKeepsTrace ==
    ASSUME SheetInv, NEW ask \in asks, Answer(ask), UNCHANGED journalVars
    PROVE  SheetInv'
<1>1. PICK answer \in Answers :
        /\ ask.for # "detail"
        /\ asks' = (asks \ {ask}) \union {[ask EXCEPT !.answer = answer]}
        /\ [ask EXCEPT !.answer = answer] \in Asks
        /\ [ask EXCEPT !.answer = answer].for = ask.for
  BY AnswerTypes DEF SheetInv
<1>2. asks' \in SUBSET Asks
  BY <1>1 DEF SheetInv, SheetTypeOK
<1>3. DetailsOf(asks', selected)
  BY <1>1 DEF SheetInv, TraceInv, DetailsOf
<1>4. journal' \in Lists /\ steady' \subseteq Matches /\ mixed' \in BOOLEAN
  BY DEF Answer, SheetInv, SheetTypeOK, Held
<1>5. /\ detail' \in Details
      /\ detail'.status = "ready" => detail'.data = selected
  BY DEF Answer, SheetInv, SheetTypeOK, TraceInv, Details
<1>6. UNCHANGED <<mounted, channel, selected, inspect>>
  BY DEF Answer
<1> QED
  BY <1>2, <1>3, <1>4, <1>5, <1>6, RequestsKeepTrace

(* A page that has come: what it is made of. *)
LEMMA PageLands ==
    ASSUME NEW ask \in ListAsks \union OlderAsks, ask.answer \notin {Unanswered, Failure}
    PROVE  ask.answer.rows \in SUBSET Rows /\ ask.answer.next \in PlaceOrNone
BY DEF ListAsks, OlderAsks, Answers, PlaceOrNone

LEMMA LandListKeepsTrace ==
    ASSUME SheetInv, NEW ask \in asks, LandList(ask), UNCHANGED journalVars
    PROVE  SheetInv'
<1>1. ask \in ListAsks
  BY AskKinds DEF SheetInv, SheetTypeOK, LandList
<1>2. journal' \in Lists
  <2>1. <<>> \in Seq(SUBSET Rows)
    OBVIOUS
  <2>2. CASE ask.answer = Failure
    BY <2>1, <2>2 DEF LandList, LoadingList, Lists
  <2>3. CASE ask.answer # Failure
    <3>1. ask.answer.rows \in SUBSET Rows /\ ask.answer.next \in Positions \union {None}
      BY <1>1, <2>3, PageLands DEF LandList, PlaceOrNone
    <3>2. <<ask.answer.rows>> \in Seq(SUBSET Rows)
      BY <3>1
    <3> QED
      BY <2>3, <3>1, <3>2 DEF LandList, LoadingList, Lists
  <2> QED
    BY <2>2, <2>3
<1>3. asks \ {ask} \in SUBSET asks
  OBVIOUS
<1>4. /\ AutoSelect(journal', asks \ {ask})
      /\ UNCHANGED <<journalVars, channel, steady>> /\ mounted' = mounted /\ mixed' \in BOOLEAN
  BY DEF LandList
<1> QED
  BY <1>2, <1>3, <1>4, AutoSelectKeepsTrace

LEMMA LandOlderKeepsTrace ==
    ASSUME SheetInv, NEW ask \in asks, LandOlder(ask), UNCHANGED journalVars
    PROVE  SheetInv'
<1>1. ask \in OlderAsks /\ journal \in Lists
  BY AskKinds DEF SheetInv, SheetTypeOK, LandOlder
<1>2. journal' \in Lists
  <2>1. CASE ~SameChannel(ask)
    BY <1>1, <2>1 DEF LandOlder
  <2>2. CASE SameChannel(ask) /\ ask.answer = Failure
    BY <1>1, <2>2 DEF LandOlder, Lists
  <2>3. CASE SameChannel(ask) /\ ask.answer # Failure
    <3>1. ask.answer.rows \in SUBSET Rows /\ ask.answer.next \in Positions \union {None}
      BY <1>1, <2>3, PageLands DEF LandOlder, PlaceOrNone
    <3>2. Append(journal.pages, ask.answer.rows) \in Seq(SUBSET Rows)
      BY <1>1, <3>1 DEF Lists
    <3> QED
      BY <1>1, <2>3, <3>1, <3>2 DEF LandOlder, Lists
  <2> QED
    BY <2>1, <2>2, <2>3
<1>3. asks \ {ask} \in SUBSET asks
  OBVIOUS
<1>4. /\ AutoSelect(journal', asks \ {ask})
      /\ UNCHANGED <<journalVars, channel, steady>> /\ mounted' = mounted
  BY DEF LandOlder
<1>5. mixed' \in BOOLEAN
  BY DEF LandOlder
<1> QED
  BY <1>2, <1>3, <1>4, <1>5, AutoSelectKeepsTrace

LEMMA LandDetailKeepsTrace ==
    ASSUME SheetInv, NEW ask \in asks, LandDetail(ask), UNCHANGED journalVars
    PROVE  SheetInv'
<1>1. ask \in DetailAsks /\ ask.match = selected
  BY AskKinds DEF SheetInv, SheetTypeOK, TraceInv, DetailsOf, LandDetail
<1>2. selected \in MatchOrNone /\ detail \in Details
  BY DEF SheetInv, SheetTypeOK, MatchOrNone, Details
<1>3. /\ detail' \in Details
      /\ detail'.status = "ready" => detail'.data = selected
  BY <1>1, <1>2, ResourceTypes DEF LandDetail
<1>4. asks' \in SUBSET Asks /\ DetailsOf(asks', selected)
  BY DEF SheetInv, SheetTypeOK, TraceInv, DetailsOf, LandDetail
<1>5. journal' \in Lists /\ steady' \subseteq Matches /\ mixed' \in BOOLEAN
  BY LoadsOrStays DEF LandDetail, SheetInv
<1>6. UNCHANGED <<mounted, channel, selected, inspect>>
  BY DEF LandDetail
<1> QED
  BY <1>3, <1>4, <1>5, <1>6, RequestsKeepTrace

LEMMA JournalStepTypes ==
    ASSUME stage \in [Matches -> {"new", "recorded", "deleted"}],
           position \in [Matches -> Positions], armed \subseteq Rules, JournalStep
    PROVE  /\ stage' \in [Matches -> {"new", "recorded", "deleted"}]
           /\ position' \in [Matches -> Positions]
           /\ armed' \subseteq Rules
<1>1. ASSUME NEW m \in Matches, RecordMatch(m)
      PROVE  stage' \in [Matches -> {"new", "recorded", "deleted"}] /\ UNCHANGED <<position, armed>>
  BY <1>1 DEF RecordMatch
<1>2. ASSUME NEW rule \in Rules, DeleteMatches(rule)
      PROVE  stage' \in [Matches -> {"new", "recorded", "deleted"}] /\ UNCHANGED <<position, armed>>
  BY <1>2 DEF DeleteMatches
<1>3. ASSUME NEW rule \in Switched, Switch(rule)
      PROVE  UNCHANGED <<stage, position>> /\ armed' \subseteq Rules
  BY <1>3, JournalAssumption DEF Switch
<1>4. ASSUME NEW places \in [Matches -> Positions], Reinclude(places)
      PROVE  UNCHANGED <<stage, armed>> /\ position' = places
  BY <1>4 DEF Reinclude
<1> QED
  BY <1>1, <1>2, <1>3, <1>4 DEF JournalStep

LEMMA ServerStepKeepsTrace ==
    ASSUME SheetInv, ServerStep
    PROVE  SheetInv'
<1>1. /\ stage' \in [Matches -> {"new", "recorded", "deleted"}] /\ position' \in [Matches -> Positions]
      /\ armed' \subseteq Rules
  BY JournalStepTypes DEF SheetInv, SheetTypeOK, ServerStep
<1>2. /\ channel' \in Channels /\ selected' \in Matches \union {None} /\ journal' \in Lists
      /\ detail' \in Resources!ResourceOf(Matches) /\ inspect' \in Matches \union {None}
      /\ asks' \subseteq Asks
  BY DEF SheetInv, SheetTypeOK, ServerStep
<1>3. steady' \subseteq Matches
  BY DEF SheetInv, SheetTypeOK, ServerStep
<1>4. (mounted \in BOOLEAN)' /\ (mixed \in BOOLEAN)'
  BY DEF SheetInv, SheetTypeOK, ServerStep
<1>5. SheetTypeOK'
  BY <1>1, <1>2, <1>3, <1>4, ZenonT(30) DEF SheetTypeOK
<1>6. TraceInv'
  BY DEF SheetInv, TraceInv, DetailsOf, ServerStep
<1> QED
  BY <1>5, <1>6 DEF SheetInv

LEMMA InitHasTrace ==
    ASSUME Init
    PROVE  SheetInv
<1>1. /\ stage \in [Matches -> {"new", "recorded", "deleted"}]
      /\ position \in [Matches -> Positions] /\ armed \subseteq Rules
  BY JournalAssumption DEF Init, JournalInit
<1>2. /\ mounted \in BOOLEAN /\ channel \in Channels /\ selected \in Matches \union {None}
      /\ inspect = None /\ steady \subseteq Matches /\ mixed \in BOOLEAN
  BY DEF Init
<1>3. journal \in Lists
  <2>1. <<>> \in Seq(SUBSET Rows)
    OBVIOUS
  <2> QED
    BY <2>1 DEF Init, LoadingList, Lists
<1>4. /\ detail \in Resources!ResourceOf(Matches)
      /\ detail.status = "ready" => detail.data = selected
  BY DEF Init, Resources!Landed, Resources!Unloaded, Resources!ResourceOf
<1>5. asks \subseteq Asks /\ DetailsOf(asks, selected)
  <2>1. asks = {ListAsk(channel)} \union DetailAsk(selected)
    BY DEF Init
  <2>2. ListAsk(channel) \in ListAsks /\ ListAsk(channel).for = "list"
    BY <1>2 DEF ListAsk, ListAsks, Answers
  <2> QED
    BY <1>2, <2>1, <2>2, DetailAskTypes DEF Asks, DetailsOf, MatchOrNone
<1>6. SheetTypeOK
  BY <1>1, <1>2, <1>3, <1>4, <1>5 DEF SheetTypeOK
<1>7. TraceInv
  BY <1>2, <1>4, <1>5 DEF TraceInv, Init
<1> QED
  BY <1>6, <1>7 DEF SheetInv

LEMMA NextKeepsTrace ==
    ASSUME SheetInv, [Next]_vars
    PROVE  SheetInv'
<1>1. CASE UserStep /\ UNCHANGED journalVars
  <2>1. ASSUME NEW m \in Matches, Select(m) \/ Jump(m)
        PROVE  SheetInv'
    BY <1>1, <2>1, SelectKeepsTrace, JumpKeepsTrace
  <2>2. ASSUME NEW c \in Channels, NEW m \in Matches \union {None}, Return(c, m)
        PROVE  SheetInv'
    BY <1>1, <2>2, ReturnKeepsTrace DEF MatchOrNone
  <2> QED
    BY <1>1, <2>1, <2>2, TuneKeepsTrace, LoadMoreKeepsTrace, RetryKeepsTrace, RetryDetailKeepsTrace,
       InspectingKeepsTrace, LeaveKeepsTrace DEF UserStep
<1>2. CASE AnswerStep /\ UNCHANGED journalVars
  BY <1>2, AnswerKeepsTrace, LandListKeepsTrace, LandOlderKeepsTrace, LandDetailKeepsTrace
  DEF AnswerStep
<1>3. CASE ServerStep
  BY <1>3, ServerStepKeepsTrace
<1>4. CASE UNCHANGED vars
  <2>1. SheetTypeOK'
    BY <1>4 DEF SheetInv, SheetTypeOK, vars, sheetVars, journalVars
  <2>2. TraceInv'
    BY <1>4 DEF SheetInv, TraceInv, DetailsOf, vars, sheetVars
  <2> QED
    BY <2>1, <2>2 DEF SheetInv
<1> QED
  BY <1>1, <1>2, <1>3, <1>4 DEF Next

LEMMA TraceHolds == Spec => []SheetInv
<1>1. Init => SheetInv
  BY InitHasTrace
<1>2. SheetInv /\ [Next]_vars => SheetInv'
  BY NextKeepsTrace
<1> QED
  BY <1>1, <1>2, PTL DEF Spec

(* The sheet's variables keep to what JournalSheet can hold: a request is of *)
(* a channel and a match there are, and an answer is a page or a failure.    *)
THEOREM SheetTypeCorrect == Spec => []SheetTypeOK
<1>1. SheetInv => SheetTypeOK
  BY DEF SheetInv
<1> QED
  BY <1>1, TraceHolds, PTL

(* A detail that is ready is the selected match's, and the gate inspected is *)
(* one of the match whose trace is shown: useResource's cleanup, select()    *)
(* and TracePane, whatever lands when.                                       *)
THEOREM TraceIsOfSelection == Spec => []TraceOfSelection
<1>1. selected = None => TracePane = "none"
  BY DEF TracePane
<1>2. SheetInv => TraceOfSelection
  BY <1>1 DEF SheetInv, TraceInv, TraceOfSelection
<1> QED
  BY <1>2, TraceHolds, PTL

------------------------------------------------------------------------------
(* The list. *)

Pending == ForList(asks)

Paged(ask) == ask.answer \notin {Unanswered, Failure}

(* A page's rows are of the channel it was asked for. *)
PageOnChannel(ask) == Paged(ask) => \A m \in MatchesOf(ask.answer.rows) : OnChannel(ask.channel, m)

(* A page is of the rows past its cursor, and with what is listed already it *)
(* leaves out nothing of what has been held, down to where the next starts.  *)
Covers(ask, held, places, listed) ==
    Paged(ask) =>
        /\ ask.answer.next # None =>
               /\ \E row \in ask.answer.rows : ask.answer.next = row.at
               /\ \A row \in ask.answer.rows : ask.answer.next =< row.at
        /\ \A row \in ask.answer.rows : ask.cursor = None \/ row.at < ask.cursor
        /\ \A m \in held :
               ask.answer.next = None \/ ask.answer.next =< places[m]
                   => m \in MatchesOf(ask.answer.rows) \union listed

OfThisLoad(ask) == ask.for = "older" /\ ~ask.late

Unheard == \E ask \in Pending : ask.for = "list" /\ ask.answer = Unanswered

(* While a list is asked for, it is the only request of its load. *)
ListIsAlone(ask) ==
    /\ ask.channel = channel /\ ask.cursor = None
    /\ journal.status = "loading"
    /\ Covers(ask, steady, position, {})
    /\ \A other \in Pending : other = ask \/ (other.for = "older" /\ ~OfThisLoad(other))

(* And then an older page is, from where the list ends. *)
OlderContinues(ask) ==
    /\ ask.channel = channel /\ ask.cursor = journal.next
    /\ journal.status = "ready" /\ journal.more = "loading"
    /\ Covers(ask, steady, position, MatchesShown(journal))
    /\ \A other \in Pending : OfThisLoad(other) => other = ask

NextIsLeast == journal.next # None => \A row \in RowsShown(journal) : journal.next =< row.at

ListInv ==
    /\ ~mounted => Pending = {}
    /\ RowsOfChannel
    /\ \A ask \in Pending : PageOnChannel(ask)
    /\ \A ask \in Pending : ask.for = "list" => ListIsAlone(ask)
    /\ mounted => Unheard \/ steady \subseteq Held(channel)
    /\ ~mixed =>
           /\ ListFaithful
           /\ NextIsLeast
           /\ \A ask \in Pending : OfThisLoad(ask) => OlderContinues(ask)

LEMMA NoRows == ASSUME NEW j, j.pages = <<>> PROVE RowsShown(j) = {} /\ MatchesShown(j) = {}
BY DEF RowsShown, Range, MatchesShown, MatchesOf

LEMMA OnePage == ASSUME NEW j, NEW rows, j.pages = <<rows>> PROVE RowsShown(j) = rows
BY DEF RowsShown, Range

LEMMA UnionMatches == \A r, q : MatchesOf(r \union q) = MatchesOf(r) \union MatchesOf(q)
BY DEF MatchesOf

LEMMA AnotherPage ==
    ASSUME NEW pages \in Seq(SUBSET Rows), NEW rows \in SUBSET Rows
    PROVE  UNION Range(Append(pages, rows)) = (UNION Range(pages)) \union rows
<1> DEFINE n == Len(pages)
           more == Append(pages, rows)
<1>1. /\ n \in Nat /\ DOMAIN pages = 1 .. n /\ DOMAIN more = 1 .. (n + 1)
      /\ more[n + 1] = rows /\ \A p \in 1 .. n : more[p] = pages[p]
  OBVIOUS
<1> HIDE DEF more
<1>2. ASSUME NEW m \in UNION Range(more)
      PROVE  m \in (UNION Range(pages)) \union rows
  <2>1. PICK p \in 1 .. (n + 1) : m \in more[p]
    BY <1>1 DEF Range
  <2> QED
    BY <1>1, <2>1 DEF Range
<1>3. ASSUME NEW m \in UNION Range(pages)
      PROVE  m \in UNION Range(more)
  <2>1. PICK p \in 1 .. n : m \in pages[p]
    BY <1>1 DEF Range
  <2>2. p \in DOMAIN more /\ m \in more[p]
    BY <1>1, <2>1
  <2> QED
    BY <2>2 DEF Range
<1>4. rows \subseteq UNION Range(more)
  <2>1. n + 1 \in DOMAIN more /\ more[n + 1] = rows
    BY <1>1
  <2> QED
    BY <2>1 DEF Range
<1>5. UNION Range(more) = (UNION Range(pages)) \union rows
  BY <1>2, <1>3, <1>4
<1> QED
  BY <1>5 DEF more

(* Positions are in order. *)
LEMMA PositionsInOrder ==
    /\ \A a, b \in Positions : a =< b \/ b < a
    /\ \A a, b, c \in Positions : a < b /\ b =< c => a < c /\ a =< c
    /\ \A a, b, c \in Positions : a =< b /\ b =< c => a =< c
<1>1. \A place \in Positions : place \in Int
  BY JournalAssumption
<1> QED
  BY <1>1

(* Selecting and the trace are no part of it. *)
LEMMA SelectingKeepsList ==
    ASSUME ListInv, ForList(asks') = Pending,
           UNCHANGED <<journalVars, mounted, channel, journal, steady, mixed>>
    PROVE  ListInv'
<1>1. Pending' = Pending
  BY DEF Pending
<1>2. stage' = stage /\ position' = position /\ armed' = armed
  BY DEF journalVars
<1> QED
  BY <1>1, <1>2 DEF ListInv, RowsOfChannel, ListIsAlone, OlderContinues, Covers, PageOnChannel,
     Paged, OfThisLoad, Unheard, NextIsLeast, ListFaithful, Held, MatchesShown

(* A fresh load: what was asked for before it is late. *)
LEMMA FreshListHolds ==
    ASSUME LoadList, mounted', ListAsk(channel') \in Pending',
           \A ask \in Pending' :
               \/ ask = ListAsk(channel')
               \/ ask.for = "older" /\ ~OfThisLoad(ask) /\ PageOnChannel(ask)
    PROVE  ListInv'
<1>1. /\ journal' = LoadingList /\ journal'.pages = <<>>
      /\ RowsShown(journal') = {} /\ MatchesShown(journal') = {}
  BY NoRows DEF LoadList, LoadingList
<1>2. RowsOfChannel' /\ NextIsLeast'
  BY <1>1 DEF RowsOfChannel, NextIsLeast
<1>3. ListFaithful'
  BY <1>1 DEF ListFaithful, LoadingList
<1>4. /\ ListAsk(channel').for = "list" /\ ListAsk(channel').answer = Unanswered
      /\ ListAsk(channel').channel = channel' /\ ListAsk(channel').cursor = None
  BY DEF ListAsk
<1>5. \A ask \in Pending' : PageOnChannel(ask) /\ ~OfThisLoad(ask)
  BY <1>4 DEF PageOnChannel, Paged, OfThisLoad
<1>6. Unheard'
  BY <1>4 DEF Unheard
<1>7. ASSUME NEW ask \in Pending', ask.for = "list"
      PROVE  ListIsAlone(ask)'
  <2>1. ask = ListAsk(channel')
    BY <1>7
  <2>2. Covers(ask, steady', position', {})
    BY <1>4, <2>1 DEF Covers, Paged
  <2>3. \A other \in Pending' : other = ask \/ (other.for = "older" /\ ~OfThisLoad(other))
    BY <2>1
  <2>4. journal'.status = "loading"
    BY <1>1 DEF LoadingList
  <2> QED
    BY <1>4, <2>1, <2>2, <2>3, <2>4 DEF ListIsAlone, OfThisLoad
<1> QED
  BY <1>2, <1>3, <1>5, <1>6, <1>7 DEF ListInv, PageOnChannel, Paged, OfThisLoad

(* What the effect of a new load keeps of the requests before it. *)
LEMMA AskedAfresh ==
    ASSUME SheetInv, ListInv, NEW c \in Channels,
           ForList(asks') = ForList(ListAsked(c, asks))
    PROVE  /\ ListAsk(c) \in Pending'
           /\ \A ask \in Pending' :
                  \/ ask = ListAsk(c)
                  \/ ask.for = "older" /\ ~OfThisLoad(ask) /\ PageOnChannel(ask)
<1>1. asks \in SUBSET Asks
  BY DEF SheetInv, SheetTypeOK
<1>2. ListAsk(c) \in Pending'
  BY <1>1, ListAskedTypes DEF Pending, ForList, ListAsk
<1>3. ASSUME NEW ask \in Pending', ask # ListAsk(c)
      PROVE  ask.for = "older" /\ ~OfThisLoad(ask) /\ PageOnChannel(ask)
  <2>1. ask \in OlderAsks /\ ask.late
    BY <1>1, <1>3, ListAskedTypes DEF Pending
  <2>2. PICK earlier \in asks : ask = [earlier EXCEPT !.late = TRUE]
    BY <1>1, <1>3, ListAskedTypes DEF Pending
  <2>3. ask.for = "older"
    BY <2>1 DEF OlderAsks
  <2>4. earlier \in OlderAsks
    BY <1>1, <2>2, <2>3, AskKinds DEF ListAsks, DetailAsks
  <2>5. ask.answer = earlier.answer /\ ask.channel = earlier.channel /\ earlier.for = "older"
    BY <2>2, <2>4 DEF OlderAsks
  <2>6. PageOnChannel(earlier)
    BY <2>5 DEF ListInv, Pending, ForList
  <2> QED
    BY <2>1, <2>3, <2>5, <2>6 DEF PageOnChannel, Paged, OfThisLoad
<1> QED
  BY <1>2, <1>3

(* Only requests for the trace are touched by showing a match. *)
LEMMA ShowingKeepsRequests ==
    ASSUME SheetInv, NEW match \in MatchOrNone, NEW requests \in SUBSET Asks, Show(match, requests)
    PROVE  ForList(asks') = ForList(requests)
BY DetailAskedTypes DEF Show

LEMMA TuneKeepsList ==
    ASSUME SheetInv, ListInv, NEW target \in Channels, Tune(target), UNCHANGED journalVars
    PROVE  ListInv'
<1>1. asks \in SUBSET Asks /\ mounted' = mounted /\ mounted /\ channel' = target
  BY DEF SheetInv, SheetTypeOK, Tune
<1>2. CASE target = channel
  <2>1. AutoSelected(journal, None) \in MatchOrNone /\ None \in MatchOrNone
    BY AutoSelectedIsAMatch DEF SheetInv, SheetTypeOK, MatchOrNone, Lists
  <2>2. PICK match \in MatchOrNone : Show(match, asks)
    BY <1>2, <2>1 DEF Tune, Choose
  <2>3. ForList(asks') = Pending
    BY <1>1, <2>2, ShowingKeepsRequests DEF Pending
  <2> QED
    BY <1>1, <1>2, <2>3, SelectingKeepsList DEF Tune, listVars, journalVars
<1>3. CASE target # channel
  <2>1. LoadList /\ Show(None, ListAsked(target, asks))
    BY <1>3 DEF Tune
  <2>2. ListAsked(target, asks) \in SUBSET Asks /\ None \in MatchOrNone
    BY <1>1, ListAskedTypes DEF MatchOrNone
  <2>3. ForList(asks') = ForList(ListAsked(target, asks))
    BY <2>1, <2>2, ShowingKeepsRequests
  <2> QED
    BY <1>1, <2>1, <2>3, AskedAfresh, FreshListHolds
<1> QED
  BY <1>2, <1>3

LEMMA JumpKeepsList ==
    ASSUME SheetInv, ListInv, NEW match \in Matches, Jump(match), UNCHANGED journalVars
    PROVE  ListInv'
<1>1. /\ asks \in SUBSET Asks /\ mounted' = mounted /\ mounted /\ channel' = All
      /\ All \in Channels /\ match \in MatchOrNone
  BY DEF SheetInv, SheetTypeOK, Jump, Channels, MatchOrNone
<1>2. CASE channel = All
  <2>1. Show(match, asks) /\ UNCHANGED listVars
    BY <1>2 DEF Jump, Choose
  <2>2. ForList(asks') = Pending
    BY <1>1, <2>1, ShowingKeepsRequests DEF Pending
  <2> QED
    BY <1>1, <1>2, <2>1, <2>2, SelectingKeepsList DEF listVars, journalVars
<1>3. CASE channel # All
  <2>1. LoadList /\ Show(match, ListAsked(All, asks))
    BY <1>3 DEF Jump, Choose
  <2>2. ListAsked(All, asks) \in SUBSET Asks
    BY <1>1, ListAskedTypes
  <2>3. ForList(asks') = ForList(ListAsked(All, asks))
    BY <1>1, <2>1, <2>2, ShowingKeepsRequests
  <2> QED
    BY <1>1, <2>1, <2>3, AskedAfresh, FreshListHolds
<1> QED
  BY <1>2, <1>3

LEMMA RetryKeepsList ==
    ASSUME SheetInv, ListInv, Retry, UNCHANGED journalVars
    PROVE  ListInv'
<1>1. LoadList /\ channel' = channel /\ mounted' = mounted /\ mounted /\ channel \in Channels
  BY DEF SheetInv, SheetTypeOK, Retry
<1>2. ForList(asks') = ForList(ListAsked(channel, asks))
  BY DEF Retry
<1> QED
  BY <1>1, <1>2, AskedAfresh, FreshListHolds

LEMMA ReturnKeepsList ==
    ASSUME SheetInv, ListInv, NEW c \in Channels, NEW match \in MatchOrNone, Return(c, match),
           UNCHANGED journalVars
    PROVE  ListInv'
<1>1. /\ LoadList /\ channel' = c /\ mounted' = TRUE
      /\ asks' = {ListAsk(c)} \union DetailAsk(match)
  BY DEF Return
<1>2. Pending' = {ListAsk(c)}
  <2>1. ListAsk(c).for = "list"
    BY DEF ListAsk
  <2> QED
    BY <1>1, <2>1, DetailAskTypes DEF Pending, ForList
<1> QED
  BY <1>1, <1>2, FreshListHolds

LEMMA LeaveKeepsList ==
    ASSUME SheetInv, ListInv, Leave, UNCHANGED journalVars
    PROVE  ListInv'
<1>1. Pending' = {} /\ ~mounted'
  BY DEF Leave, Pending, ForList
<1>2. /\ journal' = LoadingList /\ journal'.pages = <<>>
      /\ RowsShown(journal') = {} /\ MatchesShown(journal') = {}
  BY NoRows DEF Leave, LoadList, LoadingList
<1>3. RowsOfChannel' /\ NextIsLeast'
  BY <1>2 DEF RowsOfChannel, NextIsLeast
<1>4. ListFaithful'
  BY <1>2 DEF ListFaithful, LoadingList
<1> QED
  BY <1>1, <1>3, <1>4 DEF ListInv

(* The steps that select or inspect, and load nothing. *)
LEMMA OtherStepsKeepList ==
    ASSUME SheetInv, ListInv, UNCHANGED journalVars,
           \/ \E m \in Matches : Select(m)
           \/ RetryDetail \/ Inspect \/ Unpin
           \/ \E ask \in asks : LandDetail(ask)
    PROVE  ListInv'
<1>1. asks \in SUBSET Asks /\ selected \in MatchOrNone
  BY DEF SheetInv, SheetTypeOK, MatchOrNone
<1>2. ForList(asks') = Pending
  <2>1. ASSUME NEW m \in Matches, Select(m)
        PROVE  ForList(asks') = Pending
    <3>1. Show(m, asks) /\ m \in MatchOrNone
      BY <2>1 DEF Select, Choose, MatchOrNone
    <3> QED
      BY <1>1, <3>1, ShowingKeepsRequests DEF Pending
  <2>2. CASE RetryDetail
    BY <1>1, <2>2, DetailAskedTypes DEF RetryDetail, Pending
  <2>3. CASE Inspect \/ Unpin
    BY <2>3 DEF Inspect, Unpin, Pending
  <2>4. ASSUME NEW ask \in asks, LandDetail(ask)
        PROVE  ForList(asks') = Pending
    BY <2>4 DEF LandDetail, Pending, ForList
  <2> QED
    BY <2>1, <2>2, <2>3, <2>4
<1>3. UNCHANGED <<mounted, channel, listVars>>
  BY DEF Select, RetryDetail, Inspect, Unpin, LandDetail
<1> QED
  BY <1>2, <1>3, SelectingKeepsList DEF listVars

LEMMA LoadMoreKeepsList ==
    ASSUME SheetInv, ListInv, NEW slot \in Slots, LoadMore(slot), UNCHANGED journalVars
    PROVE  ListInv'
<1>0. PICK more :
          more = [for |-> "older", slot |-> slot, channel |-> channel,
                  cursor |-> journal.next, answer |-> Unanswered, late |-> FALSE]
  OBVIOUS
<1>1. Pending' = Pending \union {more}
  BY <1>0 DEF LoadMore, Pending, ForList
<1>2. journal.status = "ready" /\ journal.more # "loading" /\ journal \in Lists
  <2>1. Body = "rows" /\ journal.more # "loading"
    BY DEF LoadMore, OffersMore
  <2>2. journal.status \in {"loading", "ready", "error"} /\ journal \in Lists
    BY DEF SheetInv, SheetTypeOK, Lists
  <2> QED
    BY <2>1, <2>2 DEF Body
<1>3. /\ journal' = [journal EXCEPT !.more = "loading"]
      /\ mounted /\ mounted' = mounted /\ channel' = channel /\ steady' = steady /\ mixed' = mixed
      /\ stage' = stage /\ position' = position /\ armed' = armed
  BY DEF LoadMore, journalVars
<1>4. /\ journal'.pages = journal.pages /\ journal'.next = journal.next
      /\ journal'.status = "ready" /\ journal'.more = "loading"
  BY <1>2, <1>3 DEF Lists
<1>5. /\ PageOnChannel(more) /\ Covers(more, steady', position', MatchesShown(journal'))
      /\ OfThisLoad(more) /\ more.for = "older"
  BY <1>0 DEF PageOnChannel, Covers, Paged, OfThisLoad
<1>6. \A ask \in Pending : ask.for # "list"
  BY <1>2 DEF ListInv, ListIsAlone
<1>7. ~mixed => \A ask \in Pending : ~OfThisLoad(ask)
  BY <1>2 DEF ListInv, OlderContinues
<1>8. steady' \subseteq Held(channel)'
  BY <1>3, <1>6 DEF ListInv, Unheard, Held
<1>9. /\ RowsOfChannel' /\ RowsShown(journal') = RowsShown(journal)
      /\ MatchesShown(journal') = MatchesShown(journal)
  BY <1>3, <1>4 DEF ListInv, RowsOfChannel, RowsShown, MatchesShown
<1>10. ASSUME ~mixed'
       PROVE  /\ ListFaithful' /\ NextIsLeast'
              /\ \A ask \in Pending' : OfThisLoad(ask) => OlderContinues(ask)'
  <2>1. ListFaithful' /\ NextIsLeast'
    BY <1>2, <1>3, <1>4, <1>9, <1>10 DEF ListInv, ListFaithful, NextIsLeast
  <2>2. \A ask \in Pending' : OfThisLoad(ask) => ask = more
    BY <1>1, <1>3, <1>7, <1>10
  <2>3. OlderContinues(more)'
    BY <1>0, <1>3, <1>4, <1>5, <2>2 DEF OlderContinues, OfThisLoad
  <2> QED
    BY <2>1, <2>2, <2>3
<1>11. /\ \A ask \in Pending' : PageOnChannel(ask)
       /\ \A ask \in Pending' : ask.for # "list"
  BY <1>1, <1>5, <1>6 DEF ListInv
<1> QED
  BY <1>3, <1>8, <1>9, <1>10, <1>11 DEF ListInv, PageOnChannel, Paged, OfThisLoad

(* What an answer does to its request. *)
LEMMA AnswerTold ==
    ASSUME SheetTypeOK, NEW ask \in ListAsks \union OlderAsks, NEW answer,
           answer = PageOf(ask.channel, ask.cursor) \/ answer = Failure
    PROVE  LET told == [ask EXCEPT !.answer = answer] IN
           /\ told.for = ask.for /\ told.channel = ask.channel /\ told.cursor = ask.cursor
           /\ told.answer = answer /\ OfThisLoad(told) = OfThisLoad(ask)
           /\ PageOnChannel(told)
<1> DEFINE told == [ask EXCEPT !.answer = answer]
<1>1. /\ told.for = ask.for /\ told.channel = ask.channel /\ told.cursor = ask.cursor
      /\ told.answer = answer /\ OfThisLoad(told) = OfThisLoad(ask)
  <2>1. CASE ask \in ListAsks
    BY <2>1 DEF ListAsks, OfThisLoad
  <2>2. CASE ask \in OlderAsks
    BY <2>2 DEF OlderAsks, OfThisLoad
  <2> QED
    BY <2>1, <2>2
<1>2. ask.cursor \in Positions \union {None} /\ position \in [Matches -> Positions]
  BY DEF ListAsks, OlderAsks, SheetTypeOK
<1> HIDE DEF told
<1>3. PageOnChannel(told)
  <2>1. Paged(told) => answer = PageOf(ask.channel, ask.cursor)
    BY <1>1 DEF Paged
  <2>2. \A m \in Held(ask.channel) : OnChannel(ask.channel, m)
    BY DEF Held
  <2> QED
    BY <1>1, <1>2, <2>1, <2>2, PageIsNewest DEF PageOnChannel
<1> QED
  BY <1>1, <1>3 DEF told

(* A page from the server covers what has been there, if that is what the *)
(* channel holds and the list has what is above the page's cursor.        *)
LEMMA PageFits ==
    ASSUME SheetTypeOK, NEW ask \in ListAsks \union OlderAsks, NEW answer, NEW told,
           answer = PageOf(ask.channel, ask.cursor) \/ answer = Failure,
           told.answer = answer, told.cursor = ask.cursor,
           NEW held, held \subseteq Held(ask.channel), NEW listed,
           \A m \in held : ask.cursor = None \/ position[m] < ask.cursor \/ m \in listed
    PROVE  Covers(told, held, position, listed)
<1> DEFINE page == PageOf(ask.channel, ask.cursor)
<1>1. ask.cursor \in Positions \union {None} /\ position \in [Matches -> Positions]
  BY DEF ListAsks, OlderAsks, SheetTypeOK
<1>2. /\ \A row \in page.rows : ask.cursor = None \/ row.at < ask.cursor
      /\ page.next # None =>
             /\ \E row \in page.rows : page.next = row.at
             /\ \A row \in page.rows : page.next =< row.at
      /\ \A m \in Held(ask.channel) :
             /\ ask.cursor = None \/ position[m] < ask.cursor
             /\ page.next = None \/ page.next =< position[m]
             => m \in MatchesOf(page.rows)
  BY <1>1, PageIsNewest
<1>3. Paged(told) => told.answer = page
  BY DEF Paged
<1> HIDE DEF page
<1>4. ASSUME NEW m \in held, page.next = None \/ page.next =< position[m]
      PROVE  m \in MatchesOf(page.rows) \union listed
  BY <1>2, <1>4
<1> QED
  BY <1>2, <1>3, <1>4 DEF Covers

LEMMA AnswerKeepsList ==
    ASSUME SheetInv, ListInv, NEW ask \in asks, Answer(ask), UNCHANGED journalVars
    PROVE  ListInv'
<1>1. ask \in Pending /\ ask \in ListAsks \union OlderAsks /\ ask.answer = Unanswered
  BY AskKinds DEF SheetInv, SheetTypeOK, Answer, Pending, ForList
<1>2. PICK answer \in Answers :
        /\ answer # Unanswered
        /\ answer = PageOf(ask.channel, ask.cursor) \/ answer = Failure
        /\ asks' = (asks \ {ask}) \union {[ask EXCEPT !.answer = answer]}
  BY AnswerTypes DEF SheetInv
<1> DEFINE told == [ask EXCEPT !.answer = answer]
<1>3. /\ told.for = ask.for /\ told.channel = ask.channel /\ told.cursor = ask.cursor
      /\ told.answer = answer /\ OfThisLoad(told) = OfThisLoad(ask)
      /\ PageOnChannel(told)
  BY <1>1, <1>2, AnswerTold DEF SheetInv
<1>4. asks' = (asks \ {ask}) \union {told}
  BY <1>2
<1> HIDE DEF told
<1>5. Pending' = (Pending \ {ask}) \union {told}
  BY <1>1, <1>3, <1>4 DEF Pending, ForList
<1>6. /\ mounted' = mounted /\ channel' = channel /\ journal' = journal /\ mixed' = mixed
      /\ stage' = stage /\ position' = position /\ armed' = armed
      /\ steady' = IF ask.for = "list" THEN Held(ask.channel) ELSE steady
  BY DEF Answer, journalVars
<1>7. mounted /\ RowsOfChannel' /\ NextIsLeast' = NextIsLeast
  BY <1>1, <1>6 DEF ListInv, RowsOfChannel, NextIsLeast
<1>8. \A other \in Pending' : PageOnChannel(other)
  BY <1>3, <1>5 DEF ListInv
<1>9. CASE ask.for = "list"
  <2>1. ListIsAlone(ask) /\ steady' = Held(channel)
    BY <1>1, <1>6, <1>9 DEF ListInv, ListIsAlone
  <2>0. Covers(told, steady', position', {})
    <3>1. /\ ask.channel = channel /\ ask.cursor = None
          /\ steady' \subseteq Held(ask.channel)
      BY <2>1 DEF ListIsAlone
    <3>2. Covers(told, steady', position, {})
      BY <1>1, <1>2, <1>3, <3>1, PageFits DEF SheetInv
    <3> QED
      BY <1>6, <3>2
  <2>2. \A other \in Pending' : other = told \/ (other.for = "older" /\ ~OfThisLoad(other))
    BY <1>5, <2>1 DEF ListIsAlone
  <2>3. ListIsAlone(told)'
    BY <1>3, <1>6, <2>0, <2>1, <2>2 DEF ListIsAlone, OfThisLoad
  <2>4. \A other \in Pending' : ~OfThisLoad(other)
    BY <1>3, <1>9, <2>2 DEF OfThisLoad
  <2>5. ~mixed' => ListFaithful' /\ NextIsLeast'
    BY <1>6, <1>7, <2>1 DEF ListInv, ListFaithful, ListIsAlone
  <2>6. steady' \subseteq Held(channel)'
    BY <1>6, <2>1 DEF Held
  <2>7. \A other \in Pending' : other.for = "list" => ListIsAlone(other)'
    BY <2>2, <2>3
  <2> QED
    BY <1>6, <1>7, <1>8, <2>4, <2>5, <2>6, <2>7 DEF ListInv, PageOnChannel, Paged, OfThisLoad
<1>10. CASE ask.for # "list"
  <2>1. ask.for = "older" /\ steady' = steady
    BY <1>1, <1>6, <1>10 DEF ListAsks, OlderAsks
  <2>2. steady' = steady /\ position' = position /\ journal' = journal
    BY <1>6, <2>1
  <2>3. ASSUME NEW list \in Pending', list.for = "list"
        PROVE  ListIsAlone(list)' /\ ListIsAlone(list) /\ ~OfThisLoad(ask)
    <3>1. list \in Pending /\ ListIsAlone(list)
      BY <1>3, <1>5, <2>1, <2>3 DEF ListInv
    <3>2. ~OfThisLoad(ask)
      BY <1>1, <2>1, <2>3, <3>1 DEF ListIsAlone
    <3>3. \A other \in Pending' : other = list \/ (other.for = "older" /\ ~OfThisLoad(other))
      BY <1>3, <1>5, <2>1, <3>1, <3>2 DEF ListIsAlone
    <3> QED
      BY <1>6, <2>2, <3>1, <3>2, <3>3 DEF ListIsAlone, OfThisLoad
  <2>4. Unheard \/ steady' \subseteq Held(channel)'
    BY <1>6, <1>7, <2>1 DEF ListInv, Held
  <2>5. Unheard => Unheard'
    BY <1>5, <2>1 DEF Unheard
  <2>6. ASSUME ~mixed', NEW other \in Pending', OfThisLoad(other)
        PROVE  OlderContinues(other)'
    <3>1. \A old \in Pending : OfThisLoad(old) => OlderContinues(old)
      BY <1>6, <2>6 DEF ListInv
    <3>2. CASE other \in Pending \ {ask}
      <4>1. OlderContinues(other) /\ ~OfThisLoad(ask)
        BY <1>1, <2>6, <3>1, <3>2 DEF OlderContinues
      <4>2. \A third \in Pending' : OfThisLoad(third) => third = other
        BY <1>3, <1>5, <4>1 DEF OlderContinues
      <4> QED
        BY <1>6, <2>2, <3>2, <4>1, <4>2 DEF OlderContinues, OfThisLoad
    <3>3. CASE other = told
      <4>1. OlderContinues(ask)
        BY <1>1, <1>3, <2>6, <3>1, <3>3
      <4>2. \A third \in Pending' : OfThisLoad(third) => third = told
        BY <1>5, <4>1 DEF OlderContinues
      <4>3. ~Unheard
        BY <1>1, <1>3, <2>1, <2>6, <3>3 DEF Unheard, ListInv, ListIsAlone
      <4>4. steady' \subseteq Held(ask.channel)
        BY <1>6, <2>4, <4>1, <4>3 DEF OlderContinues, Held
      <4>5. \A m \in steady' :
                ask.cursor = None \/ position[m] < ask.cursor \/ m \in MatchesShown(journal)
        <5>1. /\ ask.cursor = journal.next /\ journal.status = "ready" /\ ask.channel = channel
              /\ ListFaithful
          BY <1>6, <2>6, <4>1 DEF OlderContinues, ListInv
        <5>2. /\ steady \subseteq Matches /\ position \in [Matches -> Positions]
              /\ ask.cursor \in PlaceOrNone
          BY <1>1 DEF SheetInv, SheetTypeOK, ListAsks, OlderAsks, PlaceOrNone
        <5>3. \A m \in steady : OnChannel(channel, m)
          BY <2>1, <4>4, <5>1 DEF Held
        <5>4. ASSUME NEW m \in steady, ask.cursor # None, ~(position[m] < ask.cursor)
              PROVE  ask.cursor =< position[m]
          BY <5>2, <5>4, PositionsInOrder DEF PlaceOrNone
        <5> QED
          BY <2>1, <5>1, <5>3, <5>4 DEF ListFaithful
      <4>6. Covers(told, steady', position, MatchesShown(journal))
        BY <1>1, <1>2, <1>3, <4>4, <4>5, PageFits DEF SheetInv
      <4> QED
        BY <1>3, <1>6, <3>3, <4>1, <4>2, <4>6 DEF OlderContinues, OfThisLoad
    <3> QED
      BY <1>5, <3>2, <3>3
  <2>7. ~mixed' => ListFaithful' /\ NextIsLeast'
    BY <1>6, <1>7, <2>1 DEF ListInv, ListFaithful
  <2> QED
    BY <1>6, <1>7, <1>8, <2>3, <2>4, <2>5, <2>6, <2>7 DEF ListInv, PageOnChannel, Paged, OfThisLoad
<1> QED
  BY <1>9, <1>10

(* The effect that selects when a list has come asks for nothing else. *)
LEMMA AutoSelectKeepsRequests ==
    ASSUME SheetInv, NEW ask \in asks, journal' \in Lists, AutoSelect(journal', asks \ {ask})
    PROVE  Pending' = Pending \ {ask}
<1> DEFINE match == AutoSelected(journal', selected)
<1>1. match \in MatchOrNone /\ asks \ {ask} \in SUBSET Asks
  BY AutoSelectedIsAMatch DEF SheetInv, SheetTypeOK, MatchOrNone, Lists
<1>2. Show(match, asks \ {ask})
  BY DEF AutoSelect, Choose
<1>3. ForList(asks') = ForList(asks \ {ask})
  BY <1>1, <1>2, ShowingKeepsRequests
<1> QED
  BY <1>3 DEF Pending, ForList

LEMMA LandListKeepsList ==
    ASSUME SheetInv, ListInv, NEW ask \in asks, LandList(ask), UNCHANGED journalVars
    PROVE  ListInv'
<1>1. ask \in Pending /\ ask \in ListAsks /\ ask.for = "list" /\ ask.answer # Unanswered
  BY AskKinds DEF SheetInv, SheetTypeOK, LandList, Pending, ForList
<1>2. ListIsAlone(ask) /\ PageOnChannel(ask) /\ mounted
  BY <1>1 DEF ListInv
<1>3. journal' \in Lists
  BY LandListKeepsTrace DEF SheetInv, SheetTypeOK
<1>4. Pending' = Pending \ {ask}
  BY <1>3, AutoSelectKeepsRequests DEF LandList
<1>5. /\ mounted' = mounted /\ channel' = channel /\ steady' = steady /\ mixed' = FALSE
      /\ stage' = stage /\ position' = position /\ armed' = armed
  BY DEF LandList, journalVars
<1>6. \A other \in Pending' :
          other.for = "older" /\ ~OfThisLoad(other) /\ PageOnChannel(other)
  BY <1>2, <1>4 DEF ListInv, ListIsAlone
<1>7. steady' \subseteq Held(channel)'
  BY <1>1, <1>2, <1>5 DEF ListInv, ListIsAlone, Unheard, Held
<1>8. RowsOfChannel' /\ ListFaithful' /\ NextIsLeast'
  <2>1. CASE ask.answer = Failure
    <3>1. /\ journal'.pages = <<>> /\ journal'.status = "error"
          /\ RowsShown(journal') = {} /\ MatchesShown(journal') = {}
      BY <2>1, NoRows DEF LandList, LoadingList
    <3> QED
      BY <3>1 DEF RowsOfChannel, ListFaithful, NextIsLeast
  <2>2. CASE ask.answer # Failure
    <3>1. journal'.pages = <<ask.answer.rows>> /\ journal'.next = ask.answer.next
      BY <2>2 DEF LandList, LoadingList
    <3>2. RowsShown(journal') = ask.answer.rows /\ MatchesShown(journal') = MatchesOf(ask.answer.rows)
      BY <3>1, OnePage DEF MatchesShown
    <3>3. Paged(ask) /\ Covers(ask, steady, position, {}) /\ ask.cursor = None /\ ask.channel = channel
      BY <1>1, <1>2, <2>2 DEF Paged, ListIsAlone
    <3>4. RowsOfChannel' /\ NextIsLeast'
      BY <1>2, <1>5, <3>1, <3>2, <3>3 DEF RowsOfChannel, NextIsLeast, PageOnChannel, Covers
    <3>5. \A p, q \in DOMAIN journal'.pages : ~(p < q)
      BY <3>1
    <3>6. \A m \in steady' :
              journal'.next = None \/ journal'.next =< position'[m] => m \in MatchesShown(journal')
      BY <1>5, <3>1, <3>2, <3>3 DEF Covers
    <3>7. ListFaithful'
      BY <3>5, <3>6 DEF ListFaithful
    <3> QED
      BY <3>4, <3>7
  <2> QED
    BY <2>1, <2>2
<1>9. \A other \in Pending' : other.for # "list"
  BY <1>6
<1> QED
  BY <1>2, <1>5, <1>6, <1>7, <1>8, <1>9 DEF ListInv, PageOnChannel, Paged, OfThisLoad

LEMMA LandOlderKeepsList ==
    ASSUME SheetInv, ListInv, NEW ask \in asks, LandOlder(ask), UNCHANGED journalVars
    PROVE  ListInv'
<1>1. /\ ask \in Pending /\ ask \in OlderAsks /\ ask.for = "older" /\ ask.answer # Unanswered
      /\ journal \in Lists
  BY AskKinds DEF SheetInv, SheetTypeOK, LandOlder, Pending, ForList
<1>2. PageOnChannel(ask) /\ mounted
  BY <1>1 DEF ListInv
<1>3. journal' \in Lists
  BY LandOlderKeepsTrace DEF SheetInv, SheetTypeOK
<1>4. Pending' = Pending \ {ask}
  BY <1>3, AutoSelectKeepsRequests DEF LandOlder
<1>5. /\ mounted' = mounted /\ channel' = channel /\ steady' = steady
      /\ mixed' = (mixed \/ (SameChannel(ask) /\ ask.late))
      /\ stage' = stage /\ position' = position /\ armed' = armed
  BY DEF LandOlder, journalVars
<1>6. journal'.status = journal.status
  BY <1>1 DEF LandOlder, Lists
<1>7. \A other \in Pending' : PageOnChannel(other)
  BY <1>4, <1>5 DEF ListInv
<1>8. ASSUME NEW list \in Pending', list.for = "list"
      PROVE  ListIsAlone(list)'
  BY <1>4, <1>5, <1>6, <1>7, <1>8 DEF ListInv, ListIsAlone, OfThisLoad
<1>9. Unheard' \/ steady' \subseteq Held(channel)'
  BY <1>1, <1>2, <1>4, <1>5 DEF ListInv, Unheard, Held
<1>10. RowsOfChannel'
  <2>1. CASE SameChannel(ask) /\ ask.answer # Failure
    <3>1. ask.answer.rows \in SUBSET Rows
      BY <1>1, <2>1, PageLands
    <3>2. journal'.pages = Append(journal.pages, ask.answer.rows) /\ journal.pages \in Seq(SUBSET Rows)
      BY <1>1, <2>1 DEF LandOlder, Lists
    <3>3. RowsShown(journal') = RowsShown(journal) \union ask.answer.rows
      <4>1. UNION Range(Append(journal.pages, ask.answer.rows))
                = (UNION Range(journal.pages)) \union ask.answer.rows
        BY <3>1, <3>2, AnotherPage
      <4> QED
        BY <3>2, <4>1 DEF RowsShown
    <3>4. \A m \in MatchesOf(ask.answer.rows) : OnChannel(channel, m)
      BY <1>1, <1>2, <2>1 DEF PageOnChannel, Paged, SameChannel
    <3>5. MatchesShown(journal') = MatchesShown(journal) \union MatchesOf(ask.answer.rows)
      BY <3>3, UnionMatches DEF MatchesShown
    <3> QED
      BY <1>5, <3>4, <3>5 DEF ListInv, RowsOfChannel
  <2>2. CASE ~(SameChannel(ask) /\ ask.answer # Failure)
    <3>1. journal'.pages = journal.pages
      BY <1>1, <2>2 DEF LandOlder, Lists
    <3> QED
      BY <1>5, <3>1 DEF ListInv, RowsOfChannel, RowsShown, MatchesShown
  <2> QED
    BY <2>1, <2>2
<1>11. ASSUME ~mixed'
       PROVE  /\ ListFaithful' /\ NextIsLeast'
              /\ \A other \in Pending' : OfThisLoad(other) => OlderContinues(other)'
  <2>1. /\ ListFaithful /\ NextIsLeast
        /\ \A other \in Pending : OfThisLoad(other) => OlderContinues(other)
    BY <1>5, <1>11 DEF ListInv
  <2>2. CASE ~SameChannel(ask)
    <3>1. journal' = journal
      BY <2>2 DEF LandOlder
    <3>2. ListFaithful' /\ NextIsLeast'
      BY <1>5, <2>1, <3>1 DEF ListFaithful, NextIsLeast
    <3>3. ASSUME NEW other \in Pending', OfThisLoad(other)
          PROVE  OlderContinues(other)'
      BY <1>4, <1>5, <1>7, <2>1, <3>1, <3>3 DEF OlderContinues, OfThisLoad
    <3> QED
      BY <3>2, <3>3
  <2>3. CASE SameChannel(ask)
    <3>1. OfThisLoad(ask) /\ OlderContinues(ask)
      BY <1>1, <1>5, <1>11, <2>1, <2>3 DEF OfThisLoad
    <3>2. \A other \in Pending' : ~OfThisLoad(other)
      BY <1>4, <3>1 DEF OlderContinues
    <3>3. CASE ask.answer = Failure
      <4>1. journal'.pages = journal.pages /\ journal'.next = journal.next
        BY <1>1, <2>3, <3>3 DEF LandOlder, Lists
      <4> QED
        BY <1>5, <1>6, <2>1, <3>2, <4>1 DEF ListFaithful, NextIsLeast, RowsShown, MatchesShown
    <3>4. CASE ask.answer # Failure
      <4> DEFINE page == ask.answer
                 n == Len(journal.pages)
      <4>1. page.rows \in SUBSET Rows /\ page.next \in PlaceOrNone
        BY <1>1, <3>4, PageLands
      <4>2. /\ journal'.pages = Append(journal.pages, page.rows) /\ journal'.next = page.next
            /\ journal.pages \in Seq(SUBSET Rows)
        BY <1>1, <2>3, <3>4 DEF LandOlder, Lists
      <4>3. RowsShown(journal') = RowsShown(journal) \union page.rows
        <5>1. UNION Range(Append(journal.pages, page.rows)) = (UNION Range(journal.pages)) \union page.rows
          BY <4>1, <4>2, AnotherPage
        <5> QED
          BY <4>2, <5>1 DEF RowsShown
      <4>4. /\ ask.cursor = journal.next /\ ask.cursor \in Positions /\ journal.next # None
            /\ journal.status = "ready"
        BY <1>1, <3>1, JournalAssumption DEF OlderContinues, OlderAsks
      <4>5. /\ \A row \in page.rows : row.at \in Positions
            /\ \A row \in RowsShown(journal) : row.at \in Positions
        <5>1. RowsShown(journal) \subseteq Rows
          BY <4>2 DEF RowsShown, Range
        <5> QED
          BY <4>1, <5>1 DEF Rows
      <4>6. /\ page.next # None =>
                   /\ \E row \in page.rows : page.next = row.at
                   /\ \A row \in page.rows : page.next =< row.at
            /\ \A row \in page.rows : row.at < ask.cursor
            /\ \A m \in steady :
                   page.next = None \/ page.next =< position[m]
                       => m \in MatchesOf(page.rows) \union MatchesShown(journal)
        BY <1>1, <3>1, <3>4, <4>4, JournalAssumption DEF OlderContinues, Covers, Paged
      <4>7. \A row \in RowsShown(journal) : ask.cursor =< row.at
        BY <2>1, <4>4 DEF NextIsLeast
      <4> HIDE DEF page
      <4>8. NextIsLeast'
        <5>1. ASSUME page.next # None, NEW row \in RowsShown(journal)
              PROVE  page.next =< row.at
          <6>1. page.next \in Positions /\ page.next < ask.cursor
            BY <4>5, <4>6, <5>1
          <6> QED
            BY <4>4, <4>5, <4>7, <6>1, PositionsInOrder
        <5> QED
          BY <4>2, <4>3, <4>6, <5>1 DEF NextIsLeast
      <4>9. ASSUME NEW p \in DOMAIN journal'.pages, NEW q \in DOMAIN journal'.pages, p < q,
                   NEW row \in journal'.pages[p], NEW older \in journal'.pages[q]
            PROVE  older.at < row.at
        <5>1. /\ n \in Nat /\ DOMAIN journal.pages = 1 .. n /\ DOMAIN journal'.pages = 1 .. (n + 1)
              /\ journal'.pages[n + 1] = page.rows
              /\ \A r \in 1 .. n : journal'.pages[r] = journal.pages[r]
          BY <4>1, <4>2
        <5>2. p \in 1 .. n /\ row \in journal.pages[p] /\ row \in RowsShown(journal)
          <6>1. p \in 1 .. n
            BY <4>9, <5>1
          <6> QED
            BY <5>1, <6>1 DEF RowsShown, Range
        <5>3. CASE q \in 1 .. n
          BY <2>1, <4>9, <5>1, <5>2, <5>3 DEF ListFaithful
        <5>4. CASE q = n + 1
          <6>1. older \in page.rows /\ older.at \in Positions /\ older.at < ask.cursor
            BY <4>5, <4>6, <5>1, <5>4
          <6> QED
            BY <4>4, <4>5, <4>7, <5>2, <6>1, PositionsInOrder
        <5> QED
          BY <5>1, <5>3, <5>4
      <4>10. ASSUME NEW m \in steady', page.next = None \/ page.next =< position'[m]
             PROVE  m \in MatchesShown(journal')
        BY <1>5, <4>3, <4>6, <4>10, UnionMatches DEF MatchesShown
      <4>11. ListFaithful'
        BY <1>5, <4>2, <4>9, <4>10 DEF ListFaithful
      <4> QED
        BY <3>2, <4>8, <4>11
    <3> QED
      BY <3>3, <3>4
  <2> QED
    BY <2>2, <2>3
<1> QED
  BY <1>2, <1>5, <1>7, <1>8, <1>9, <1>10, <1>11 DEF ListInv, PageOnChannel, Paged, OfThisLoad

LEMMA ServerStepKeepsList ==
    ASSUME SheetInv, ListInv, ServerStep
    PROVE  ListInv'
<1>1. /\ UNCHANGED <<mounted, channel, journal, asks, mixed>> /\ Pending' = Pending
      /\ steady' = {m \in steady :
                        /\ stage'[m] # "deleted" /\ RuleOf[m] \in armed'
                        /\ position'[m] =< position[m]}
  BY DEF ServerStep, Pending
<1>2. ASSUME steady \subseteq Held(channel)
      PROVE  steady' \subseteq Held(channel)'
  <2>1. ASSUME NEW m \in Matches, stage[m] = "recorded"
        PROVE  stage'[m] \in {"recorded", "deleted"}
    <3>0. stage \in [Matches -> {"new", "recorded", "deleted"}]
      BY DEF SheetInv, SheetTypeOK
    <3>1. ASSUME NEW k \in Matches, RecordMatch(k)
          PROVE  stage'[m] = "recorded"
      BY <2>1, <3>0, <3>1 DEF RecordMatch
    <3>2. ASSUME NEW rule \in Rules, DeleteMatches(rule)
          PROVE  stage'[m] \in {"recorded", "deleted"}
      BY <2>1, <3>0, <3>2 DEF DeleteMatches
    <3>3. ASSUME NEW rule \in Switched, Switch(rule)
          PROVE  stage'[m] = "recorded"
      BY <2>1, <3>3 DEF Switch
    <3>4. ASSUME NEW places \in [Matches -> Positions], Reinclude(places)
          PROVE  stage'[m] = "recorded"
      BY <2>1, <3>4 DEF Reinclude
    <3> QED
      BY <3>1, <3>2, <3>3, <3>4 DEF ServerStep, JournalStep
  <2> QED
    BY <1>1, <1>2, <2>1 DEF Held
<1>3. ASSUME NEW m \in steady', NEW least \in Positions, least =< position'[m]
      PROVE  least =< position[m]
  <2>1. m \in Matches /\ position[m] \in Positions /\ position'[m] \in Positions
    BY <1>1, ServerStepKeepsTrace DEF SheetInv, SheetTypeOK
  <2>2. position'[m] =< position[m]
    BY <1>1
  <2> QED
    BY <1>3, <2>1, <2>2, PositionsInOrder
<1>4. steady' \subseteq steady
  BY <1>1
<1>5. ASSUME NEW ask \in Pending, NEW listed, Covers(ask, steady, position, listed)
      PROVE  Covers(ask, steady', position', listed)
  <2>1. ask \in ListAsks \union OlderAsks
    BY AskKinds DEF SheetInv, SheetTypeOK, Pending, ForList
  <2>2. Paged(ask) => ask.answer.next \in Positions \union {None}
    BY <2>1, PageLands DEF Paged, PlaceOrNone
  <2> QED
    BY <1>3, <1>4, <1>5, <2>2 DEF Covers
<1>6. \A ask \in Pending : ListIsAlone(ask) => ListIsAlone(ask)'
  BY <1>1, <1>5 DEF ListIsAlone, OfThisLoad
<1>7. \A ask \in Pending : OlderContinues(ask) => OlderContinues(ask)'
  BY <1>1, <1>5 DEF OlderContinues, OfThisLoad
<1>8. ListFaithful => ListFaithful'
  <2>1. journal.next \in Positions \union {None}
    BY DEF SheetInv, SheetTypeOK, Lists
  <2>2. ASSUME ListFaithful, journal.status = "ready", NEW m \in steady', OnChannel(channel, m),
               journal.next = None \/ journal.next =< position'[m]
        PROVE  m \in MatchesShown(journal)
    BY <1>3, <1>4, <2>1, <2>2 DEF ListFaithful
  <2> QED
    BY <1>1, <2>2 DEF ListFaithful
<1> QED
  BY <1>1, <1>2, <1>6, <1>7, <1>8 DEF ListInv, RowsOfChannel, PageOnChannel, Paged, OfThisLoad,
     Unheard, NextIsLeast

LEMMA InitHasList ==
    ASSUME Init
    PROVE  ListInv
<1>1. Pending = {ListAsk(channel)}
  <2>1. asks = {ListAsk(channel)} \union DetailAsk(selected) /\ ListAsk(channel).for = "list"
    BY DEF Init, ListAsk
  <2>2. selected \in MatchOrNone
    BY DEF Init, MatchOrNone
  <2> QED
    BY <2>1, <2>2, DetailAskTypes DEF Pending, ForList
<1>2. /\ ListAsk(channel).for = "list" /\ ListAsk(channel).answer = Unanswered
      /\ ListAsk(channel).channel = channel /\ ListAsk(channel).cursor = None
  BY DEF ListAsk
<1>3. /\ journal.pages = <<>> /\ RowsShown(journal) = {} /\ MatchesShown(journal) = {}
      /\ journal.status = "loading"
      /\ mounted /\ mixed = FALSE
  BY NoRows DEF Init, LoadingList
<1>4. RowsOfChannel /\ NextIsLeast /\ ListFaithful
  BY <1>3 DEF RowsOfChannel, NextIsLeast, ListFaithful
<1>5. /\ PageOnChannel(ListAsk(channel)) /\ Covers(ListAsk(channel), steady, position, {})
      /\ ~OfThisLoad(ListAsk(channel)) /\ Unheard
  BY <1>1, <1>2 DEF PageOnChannel, Covers, Paged, OfThisLoad, Unheard
<1>6. ListIsAlone(ListAsk(channel))
  BY <1>1, <1>2, <1>3, <1>5 DEF ListIsAlone
<1> QED
  BY <1>1, <1>3, <1>4, <1>5, <1>6 DEF ListInv

LEMMA NextKeepsList ==
    ASSUME SheetInv, ListInv, [Next]_vars
    PROVE  ListInv'
<1>1. CASE UserStep /\ UNCHANGED journalVars
  <2>1. ASSUME NEW m \in Matches, Jump(m)
        PROVE  ListInv'
    BY <1>1, <2>1, JumpKeepsList
  <2>2. ASSUME NEW c \in Channels, NEW m \in Matches \union {None}, Return(c, m)
        PROVE  ListInv'
    BY <1>1, <2>2, ReturnKeepsList DEF MatchOrNone
  <2> QED
    BY <1>1, <2>1, <2>2, TuneKeepsList, LoadMoreKeepsList, RetryKeepsList, OtherStepsKeepList,
       LeaveKeepsList DEF UserStep
<1>2. CASE AnswerStep /\ UNCHANGED journalVars
  BY <1>2, AnswerKeepsList, LandListKeepsList, LandOlderKeepsList, OtherStepsKeepList
  DEF AnswerStep
<1>3. CASE ServerStep
  BY <1>3, ServerStepKeepsList
<1>4. CASE UNCHANGED vars
  BY <1>4, SelectingKeepsList DEF vars, sheetVars, Pending
<1> QED
  BY <1>1, <1>2, <1>3, <1>4 DEF Next

LEMMA ListHolds == Spec => []ListInv
<1>1. Init => ListInv
  BY InitHasList
<1>2. SheetInv /\ ListInv /\ [Next]_vars => ListInv'
  BY NextKeepsList
<1> QED
  BY <1>1, <1>2, TraceHolds, PTL DEF Spec

(* The rows listed are the tuned channel's, whichever answers land when: the *)
(* checks of live and of the channel in the load effect and in loadMore.     *)
THEOREM ListIsOfChannel == Spec => []RowsOfChannel
<1>1. ListInv => RowsOfChannel
  BY DEF ListInv
<1> QED
  BY <1>1, ListHolds, PTL

(* Paging by cursor lists rows in the order of the positions they were read  *)
(* at, a match twice only if storing blocks again moved it to an older       *)
(* position between two pages, and skips none that was held all along and    *)
(* not moved to a newer one: for any page size, whatever is recorded,        *)
(* deleted, switched off or moved between pages, but for a list on which an  *)
(* older page of an earlier load landed.                                     *)
THEOREM ListIsFaithful == Spec => []OnlyMixedOrMovedMislists
<1>1. ListInv => OnlyMixedOrMovedMislists
  BY DEF ListInv, OnlyMixedOrMovedMislists
<1> QED
  BY <1>1, ListHolds, PTL
=============================================================================
