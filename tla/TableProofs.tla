--------------------------- MODULE TableProofs ---------------------------
(***************************************************************************)
(* Proofs about the tables of PageWidgets.  Of the pager, for every set of *)
(* page lengths and any number of rows: types, the alignment of page       *)
(* starts, the place in the table when the length changes or rows are      *)
(* removed, and which numbers are offered.  Of the construction: what is   *)
(* built, registered and saved, for any tables and options.  Of the        *)
(* options and the order: which word counts, what a label tells and what a *)
(* click keeps.  Of the columns: the cells of the nodes and the child rows *)
(* in the table, and the heading laid out again, for any number of         *)
(* columns, rows and draws.                                                *)
(***************************************************************************)
EXTENDS PageWidgets, ModelLemmas, FiniteSetTheorems

\* The lengths offered are page lengths.
LEMMA LengthsType == Lengths \subseteq PageLengths
BY LengthsAssumption DEF PageLengths, Counts

(***************************************************************************)
(* The page buttons.                                                       *)
(***************************************************************************)

LEMMA SpanType ==
  ASSUME NEW from \in Nat, NEW to \in Int
  PROVE  Span(from, to) \in Seq(Nat \cup {Gap})
<1>1. CASE to - from >= 0
  BY <1>1 DEF Span
<1>2. CASE ~(to - from >= 0)
  <2>1. 1 .. to - from = 1 .. 0
    BY <1>2
  <2>2. Span(from, to) = << >>
    BY <2>1 DEF Span
  <2> QED
    BY <2>2
<1> QED
  BY <1>1, <1>2

LEMMA NumbersType ==
  ASSUME NEW at \in Nat, NEW pages \in Nat, NEW n \in Nat
  PROVE  Numbers(at, pages, n) \in Seq(Nat \cup {Gap})
<1> DEFINE half == n \div 2
           S == Nat \cup {Gap}
<1>1. half \in Nat /\ 2 * half <= n
  OBVIOUS
<1>2. Span(0, pages) \in Seq(S) /\ Span(0, n - 2) \in Seq(S)
  BY SpanType
<1>3. CASE pages <= n
  BY <1>2, <1>3 DEF Numbers
<1>4. CASE ~(pages <= n)
  <2>1. pages - 1 \in Nat /\ pages - (n - 2) \in Nat
    BY <1>4
  <2>2. Span(pages - (n - 2), pages) \in Seq(S)
    BY <2>1, SpanType
  <2>3. <<Gap, pages - 1>> \in Seq(S) /\ <<0, Gap>> \in Seq(S)
    BY <2>1
  <2>4. CASE at <= half
    <3>1. Numbers(at, pages, n) = Span(0, n - 2) \o <<Gap, pages - 1>>
      BY <1>4, <2>4 DEF Numbers
    <3> QED
      BY <1>2, <2>3, <3>1
  <2>5. CASE ~(at <= half) /\ at >= pages - 1 - half
    <3>1. Numbers(at, pages, n) = <<0, Gap>> \o Span(pages - (n - 2), pages)
      BY <1>4, <2>5 DEF Numbers
    <3> QED
      BY <2>2, <2>3, <3>1
  <2>6. CASE ~(at <= half) /\ ~(at >= pages - 1 - half)
    <3> DEFINE mid == Span(at - half + 2, at + half - 1)
    <3>1. Numbers(at, pages, n) = <<0, Gap>> \o mid \o <<Gap, pages - 1>>
      BY <1>4, <2>6 DEF Numbers
    <3>2. at - half + 2 \in Nat /\ at + half - 1 \in Int
      BY <1>1, <2>6
    <3>3. mid \in Seq(S)
      BY <3>2, SpanType
    <3>4. <<0, Gap>> \o mid \in Seq(S)
      BY <2>3, <3>3
    <3> QED
      BY <2>3, <3>1, <3>4
  <2> QED
    BY <2>4, <2>5, <2>6
<1> QED
  BY <1>3, <1>4

\* A button that is offered, and is no gap, is a page number.
LEMMA OfferedAsked ==
  ASSUME NEW n \in Offered, TypeOK, Enabled(ToPage(n))
  PROVE  ToPage(n) \in Asked
<1>1. drawn.page \in Nat /\ drawn.pages \in Nat
  BY DEF TypeOK
<1> DEFINE offered == Numbers(drawn.page, drawn.pages, NumbersLength)
<1>2. offered \in Seq(Nat \cup {Gap})
  BY <1>1, NumbersType, NumbersAssumption
<1>3. PICK i \in 1 .. Len(offered) : n = offered[i]
  BY DEF Offered
<1>4. n \in Nat \cup {Gap}
  <2> HIDE DEF offered
  <2> QED
    BY <1>2, <1>3
<1>5. n # Gap
  BY DEF Enabled, ToPage
<1> QED
  BY <1>4, <1>5 DEF ToPage, Asked

LEMMA MovesAsked == Moves \subseteq Asked
BY DEF Moves, Move, Asked

(***************************************************************************)
(* Types and alignment are one inductive invariant.                        *)
(***************************************************************************)

Inv == TypeOK /\ Aligned(iDisplayStart, iDisplayLength)

LEMMA DrawnType ==
  ASSUME NEW start \in Nat, NEW len \in Lengths, NEW n \in 0 .. MaxRecords
  PROVE  Drawn(start, len, n) \in
           [start : Nat, end : 0 .. MaxRecords, total : 0 .. MaxRecords,
            page : Nat, pages : Nat]
<1>1. n \in Nat /\ DisplayEnd(start, len, n) \in 0 .. n
  BY LengthsType, DisplayEndType
<1>2. DisplayEnd(start, len, n) \in 0 .. MaxRecords
  BY <1>1, RecordsAssumption
<1>3. PagerPage(start, len) \in Nat
  BY LengthsType, LengthCases, CeilDivType DEF PagerPage
<1>4. PageCount(len, n) \in Nat
  BY <1>1, LengthsType, LengthCases, CeilDivType DEF PageCount
<1> QED
  BY <1>2, <1>3, <1>4 DEF Drawn

LEMMA InitInv == Init => Inv
<1> SUFFICES ASSUME Init PROVE Inv
  OBVIOUS
<1>1. iDisplayLength \in Lengths /\ records \in 0 .. MaxRecords
  BY DEF Init
<1> DEFINE asked(p) == IF iDisplayLength = All THEN 0 ELSE p * iDisplayLength
<1>2. PICK p \in 0 .. MaxRecords : iDisplayStart = InitialStart(records, asked(p))
  BY DEF Init
<1>3. p \in Nat
  OBVIOUS
<1>4. iDisplayStart = 0 \/ iDisplayStart = asked(p)
  BY <1>2 DEF InitialStart
<1>5. iDisplayLength # All => 0 = 0 * iDisplayLength
  BY <1>1, LengthsType, LengthCases DEF Counts
<1>6. Aligned(iDisplayStart, iDisplayLength)
  BY <1>3, <1>4, <1>5 DEF Aligned
<1>7. iDisplayStart \in Nat
  BY <1>1, <1>6, LengthsType, AlignedType
<1>8. drawn = Drawn(iDisplayStart, iDisplayLength, records)
  BY DEF Init
<1> QED
  BY <1>1, <1>6, <1>7, <1>8, DrawnType DEF Inv, TypeOK

\* A step that leaves a good place in the table, and draws it or does not.
LEMMA PlaceStep ==
  ASSUME Inv, iDisplayLength' \in Lengths, records' \in 0 .. MaxRecords,
         Aligned(iDisplayStart', iDisplayLength'),
         Draw \/ UNCHANGED drawn
  PROVE  Inv'
<1>1. iDisplayStart' \in Nat
  BY LengthsType, AlignedType
<1>2. Drawn(iDisplayStart', iDisplayLength', records') \in
         [start : Nat, end : 0 .. MaxRecords, total : 0 .. MaxRecords,
          page : Nat, pages : Nat]
  BY <1>1, DrawnType
<1>3. drawn' \in [start : Nat, end : 0 .. MaxRecords, total : 0 .. MaxRecords,
                  page : Nat, pages : Nat]
  BY <1>2 DEF Draw, Inv, TypeOK
<1> QED
  BY <1>1, <1>3 DEF Inv, TypeOK

LEMMA GotoStep ==
  ASSUME Inv, NEW action \in Asked, Goto(action), UNCHANGED <<iDisplayLength, records>>,
         Draw \/ UNCHANGED drawn
  PROVE  Inv'
<1>1. iDisplayLength \in Lengths /\ records \in 0 .. MaxRecords
      /\ Aligned(iDisplayStart, iDisplayLength)
  BY DEF Inv, TypeOK
<1>2. Aligned(iDisplayStart', iDisplayLength)
  BY <1>1, LengthsType, PageStartAligned DEF Goto
<1> QED
  BY <1>1, <1>2, PlaceStep

\* What a change of length, or of the number of rows, makes of the start.
LEMMA OverflowStep ==
  ASSUME Inv, NEW len \in Lengths, NEW n \in 0 .. MaxRecords,
         iDisplayLength' = len, records' = n,
         iDisplayStart' = LengthOverflow(iDisplayStart, len, DisplayEnd(iDisplayStart, len, n)),
         Draw \/ UNCHANGED drawn
  PROVE  Inv'
<1>1. iDisplayStart \in Nat /\ n \in Nat
  BY DEF Inv, TypeOK
<1>2. DisplayEnd(iDisplayStart, len, n) \in Nat
  BY <1>1, LengthsType, DisplayEndType
<1>3. Aligned(iDisplayStart', len)
  BY <1>1, <1>2, LengthsType, OverflowAligned
<1> QED
  BY <1>3, PlaceStep

LEMMA SearchStep == ASSUME Inv, NEW n \in 0 .. MaxRecords, Search(n) PROVE Inv'
<1>1. iDisplayLength \in Lengths
  BY DEF Inv, TypeOK
<1>2. iDisplayLength # All => 0 = 0 * iDisplayLength
  BY <1>1, LengthsType, LengthCases DEF Counts
<1>3. Aligned(iDisplayStart', iDisplayLength')
  BY <1>2 DEF Search, Aligned
<1> QED
  BY <1>1, <1>3, PlaceStep DEF Search

LEMMA HoldStep == ASSUME Inv, NEW n \in 0 .. MaxRecords, ReDrawHold(n) PROVE Inv'
BY PlaceStep DEF ReDrawHold, Inv, TypeOK

LEMMA RemoveStep == ASSUME Inv, RemoveRow PROVE Inv'
<1>1. records - 1 \in 0 .. MaxRecords
  BY RecordsAssumption DEF Inv, TypeOK, RemoveRow
<1> QED
  BY <1>1, OverflowStep DEF RemoveRow, Inv, TypeOK

LEMMA ClickStep == ASSUME Inv, Click PROVE Inv'
<1>1. ASSUME NEW b \in Moves, Press(b) PROVE Inv'
  BY <1>1, MovesAsked, GotoStep DEF Press
<1>2. ASSUME NEW n \in Offered, Press(ToPage(n)) PROVE Inv'
  <2>1. ToPage(n) \in Asked
    BY <1>2, OfferedAsked DEF Press, Inv
  <2> QED
    BY <1>2, <2>1, GotoStep DEF Press
<1> QED
  BY <1>1, <1>2 DEF Click

LEMMA NextInv == Inv /\ [Next]_vars => Inv'
<1> SUFFICES ASSUME Inv, [Next]_vars PROVE Inv'
  OBVIOUS
<1>0. iDisplayLength \in Lengths /\ records \in 0 .. MaxRecords
  BY DEF Inv, TypeOK
<1>1. ASSUME NEW a \in Moves \cup { ToPage(n) : n \in 0 .. MaxRecords }, Page(a) PROVE Inv'
  <2>1. a \in Asked
    BY MovesAsked DEF ToPage, Asked
  <2> QED
    BY <1>1, <2>1, GotoStep DEF Page
<1>2. ASSUME Click PROVE Inv'
  BY <1>2, ClickStep
<1>3. ASSUME NEW len \in Lengths, PageLen(len) \/ SelectLength(len) PROVE Inv'
  BY <1>0, <1>3, OverflowStep DEF PageLen, SelectLength, SetLength
<1>4. ASSUME NEW n \in 0 .. MaxRecords, Search(n) \/ ReDrawHold(n) PROVE Inv'
  BY <1>4, SearchStep, HoldStep
<1>5. ASSUME RemoveRow PROVE Inv'
  BY <1>5, RemoveStep
<1>6. ASSUME UNCHANGED vars PROVE Inv'
  BY <1>6 DEF vars, Inv, TypeOK
<1> QED
  BY <1>1, <1>2, <1>3, <1>4, <1>5, <1>6 DEF Next

(***************************************************************************)
(* The theorems.                                                           *)
(***************************************************************************)

THEOREM Invariance == Spec => []Inv
BY InitInv, NextInv, PTL DEF Spec

\* Every reachable state of the pager is well typed: no page starts before the
\* first row, and no page number is negative.
THEOREM TypeCorrect == Spec => []TypeOK
<1>1. Inv => TypeOK
  BY DEF Inv
<1> QED
  BY <1>1, Invariance, PTL

LEMMA OneNumber == Inv => OnePageNumber
<1> SUFFICES ASSUME Inv PROVE OnePageNumber
  OBVIOUS
<1>1. iDisplayLength \in Lengths
  BY DEF Inv, TypeOK
<1>2. CASE iDisplayLength = All
  BY <1>2 DEF OnePageNumber, InfoPage, PagerPage
<1>3. CASE iDisplayLength # All
  <2>1. iDisplayLength \in Counts
    BY <1>1, <1>3, LengthsType, LengthCases
  <2>2. PICK p \in Nat : iDisplayStart = p * iDisplayLength
    BY <1>3 DEF Inv, Aligned
  <2>3. iDisplayStart \div iDisplayLength = p /\ CeilDiv(iDisplayStart, iDisplayLength) = p
    BY <2>1, <2>2, AlignedRounds
  <2> QED
    BY <1>3, <2>3 DEF OnePageNumber, InfoPage, PagerPage
<1> QED
  BY <1>2, <1>3

\* page.info(), which rounds down, and the pager, which rounds up, always name
\* the same page: every start the code computes is a multiple of the length.
THEOREM PageNumbersAgree == Spec => []OnePageNumber
BY OneNumber, Invariance, PTL

\* A change of the length, in the state it happens.
StartStays ==
  (iDisplayLength' # iDisplayLength /\ iDisplayStart < records)
    => /\ iDisplayStart' <= iDisplayStart
       /\ iDisplayStart < DisplayEnd(iDisplayStart', iDisplayLength', records)

LEMMA LengthKeepsStart ==
  ASSUME Inv, NEW len \in Lengths, SetLength(len)
  PROVE  StartStays
<1> SUFFICES ASSUME iDisplayStart < records
             PROVE  /\ iDisplayStart' <= iDisplayStart
                    /\ iDisplayStart < DisplayEnd(iDisplayStart', len, records)
  BY DEF StartStays, SetLength
<1> DEFINE end == DisplayEnd(iDisplayStart, len, records)
<1>1. iDisplayStart \in Nat /\ records \in Nat
  BY RecordsAssumption DEF Inv, TypeOK
<1>2. end \in Nat
  BY <1>1, LengthsType, DisplayEndType
<1>3. iDisplayStart < end
  BY <1>1, LengthsType, LengthCases DEF DisplayEnd, Counts
<1>4. /\ iDisplayStart' \in Nat /\ iDisplayStart' <= iDisplayStart
      /\ len # All => iDisplayStart < iDisplayStart' + len
  BY <1>1, <1>2, <1>3, LengthsType, OverflowAligned DEF SetLength
<1> QED
  BY <1>1, <1>4, LengthsType, LengthCases DEF DisplayEnd, Counts

LEMMA RemovalShows ==
  ASSUME Inv, RemoveRow, records' > 0
  PROVE  iDisplayStart' < records'
<1>1. iDisplayStart \in Nat /\ iDisplayLength \in Lengths /\ records - 1 \in Nat
      /\ records' = records - 1
  BY RecordsAssumption DEF Inv, TypeOK, RemoveRow
<1> DEFINE end == DisplayEnd(iDisplayStart, iDisplayLength, records - 1)
<1>2. end \in 0 .. records - 1
  BY <1>1, LengthsType, DisplayEndType
<1>3. end # 0
  BY <1>1, LengthsType, LengthCases DEF DisplayEnd, Counts
<1>4. iDisplayStart' \in Nat /\ iDisplayStart' < end
  BY <1>1, <1>2, <1>3, LengthsType, OverflowAligned DEF RemoveRow
<1> QED
  BY <1>1, <1>2, <1>4

\* However many rows there are and whatever lengths are offered: a change of
\* length keeps the start record on the page, and removing rows never leaves the
\* page past the end while rows are left.
THEOREM PlaceIsKept == Spec => PlaceKept
<1>1. ASSUME Inv, [Next]_vars PROVE [StartStays]_vars
  <2>1. CASE \E len \in Lengths : PageLen(len) \/ SelectLength(len)
    BY <1>1, <2>1, LengthKeepsStart DEF PageLen, SelectLength
  <2>2. CASE ~ \E len \in Lengths : PageLen(len) \/ SelectLength(len)
    <3>1. iDisplayLength' = iDisplayLength
      BY <1>1, <2>2 DEF Next, vars, Page, Click, Press, Search, ReDrawHold, RemoveRow
    <3> QED
      BY <3>1 DEF StartStays
  <2> QED
    BY <2>1, <2>2
<1>2. ASSUME Inv, [Next]_vars
      PROVE  [(RemoveRow /\ records' > 0) => iDisplayStart' < records']_vars
  BY <1>2, RemovalShows
<1>3. Spec => StartRecordStays
  BY <1>1, Invariance, PTL DEF Spec, StartRecordStays, StartStays
<1>4. Spec => RemovalShowsRows
  BY <1>2, Invariance, PTL DEF Spec, RemovalShowsRows
<1> QED
  BY <1>3, <1>4 DEF PlaceKept

(***************************************************************************)
(* The numbers the pager offers.                                           *)
(***************************************************************************)

\* The entries of a sequence, and those of two put together.
Entries(s) == { s[i] : i \in 1 .. Len(s) }

LEMMA EntriesJoined ==
  ASSUME NEW S, NEW a \in Seq(S), NEW b \in Seq(S)
  PROVE  Entries(a \o b) = Entries(a) \cup Entries(b)
<1>1. Len(a) \in Nat /\ Len(b) \in Nat /\ Len(a \o b) = Len(a) + Len(b)
  OBVIOUS
<1>2. \A i \in 1 .. Len(a) : (a \o b)[i] = a[i]
  OBVIOUS
<1>3. \A i \in 1 .. Len(b) : (a \o b)[Len(a) + i] = b[i]
  OBVIOUS
<1>4. ASSUME NEW i \in 1 .. Len(a \o b) PROVE (a \o b)[i] \in Entries(a) \cup Entries(b)
  <2>1. CASE i <= Len(a)
    BY <1>1, <1>2, <2>1 DEF Entries
  <2>2. CASE ~(i <= Len(a))
    <3>1. i - Len(a) \in 1 .. Len(b) /\ Len(a) + (i - Len(a)) = i
      BY <1>1, <2>2
    <3>2. (a \o b)[i] = b[i - Len(a)]
      BY <1>3, <3>1
    <3> QED
      BY <3>1, <3>2 DEF Entries
  <2> QED
    BY <2>1, <2>2
<1>5. \A i \in 1 .. Len(a) : a[i] \in Entries(a \o b)
  BY <1>1, <1>2 DEF Entries
<1>6. \A i \in 1 .. Len(b) : b[i] \in Entries(a \o b)
  <2> TAKE i \in 1 .. Len(b)
  <2>1. Len(a) + i \in 1 .. Len(a \o b)
    BY <1>1
  <2> QED
    BY <1>3, <2>1 DEF Entries
<1> QED
  BY <1>4, <1>5, <1>6 DEF Entries

\* The numbers from one to before another.
LEMMA SpanEntries ==
  ASSUME NEW from \in Int, NEW to \in Int
  PROVE  Span(from, to) \in Seq(Int) /\ Entries(Span(from, to)) = from .. to - 1
<1>1. CASE to - from >= 0
  <2>1. Span(from, to) \in Seq(Int) /\ Len(Span(from, to)) = to - from
    BY <1>1 DEF Span
  <2>2. ASSUME NEW p \in from .. to - 1 PROVE p \in Entries(Span(from, to))
    <3>1. p - from + 1 \in 1 .. to - from /\ Span(from, to)[p - from + 1] = p
      BY <2>2 DEF Span
    <3> QED
      BY <2>1, <3>1 DEF Entries
  <2>3. \A i \in 1 .. to - from : Span(from, to)[i] \in from .. to - 1
    BY DEF Span
  <2> QED
    BY <2>1, <2>2, <2>3 DEF Entries
<1>2. CASE ~(to - from >= 0)
  <2>1. 1 .. to - from = 1 .. 0 /\ from .. to - 1 = {}
    BY <1>2
  <2>2. Span(from, to) = << >>
    BY <2>1 DEF Span
  <2> QED
    BY <2>1, <2>2 DEF Entries
<1> QED
  BY <1>1, <1>2

LEMMA PairEntries ==
  ASSUME NEW a \in Int, NEW b \in Int
  PROVE  <<a, b>> \in Seq(Int) /\ Entries(<<a, b>>) = {a, b}
<1>1. Len(<<a, b>>) = 2 /\ 1 .. 2 = {1, 2}
  OBVIOUS
<1> QED
  BY <1>1 DEF Entries

\* What has to be offered, and nothing else, number by number.
LEMMA Offers ==
  ASSUME NEW pages \in Nat, NEW at \in 0 .. pages - 1, NEW offered,
         0 \in offered, pages - 1 \in offered, at \in offered,
         at # 0 => at - 1 \in offered,
         at # pages - 1 => at + 1 \in offered,
         offered \subseteq 0 .. pages - 1 \cup {Gap}
  PROVE  LET near == { p \in {at - 1, at, at + 1} : p \in 0 .. pages - 1 }
         IN  /\ near \cup {0, pages - 1} \subseteq offered
             /\ offered \subseteq 0 .. pages - 1 \cup {Gap}
OBVIOUS

\* Which numbers the pager offers, of a page in the table.
LEMMA NumbersEntries ==
  ASSUME NEW pages \in Nat, NEW at \in 0 .. pages - 1, NEW n \in Nat, n >= 7
  PROVE  LET offered == Entries(Numbers(at, pages, n))
         IN  /\ 0 \in offered /\ pages - 1 \in offered /\ at \in offered
             /\ at # 0 => at - 1 \in offered
             /\ at # pages - 1 => at + 1 \in offered
             /\ offered \subseteq 0 .. pages - 1 \cup {Gap}
<1> DEFINE offered == Entries(Numbers(at, pages, n))
           half == n \div 2
           first == <<0, Gap>>
           final == <<Gap, pages - 1>>
<1>1. half \in Nat /\ half >= 3 /\ n >= half + 4 /\ n <= 2 * half + 1
  OBVIOUS
<1>2. Gap \in Int
  BY DEF Gap
<1>3. first \in Seq(Int) /\ Entries(first) = {0, Gap}
  BY <1>2, PairEntries
<1>4. final \in Seq(Int) /\ Entries(final) = {Gap, pages - 1}
  BY <1>2, PairEntries
<1> SUFFICES /\ 0 \in offered /\ pages - 1 \in offered /\ at \in offered
             /\ at # 0 => at - 1 \in offered
             /\ at # pages - 1 => at + 1 \in offered
             /\ offered \subseteq 0 .. pages - 1 \cup {Gap}
  OBVIOUS
<1>5. CASE pages <= n
  <2>1. offered = 0 .. pages - 1
    BY <1>5, SpanEntries DEF Numbers
  <2> QED
    BY <2>1
<1>6. CASE ~(pages <= n) /\ at <= half
  <2> DEFINE a == Span(0, n - 2)
  <2>1. a \in Seq(Int) /\ Entries(a) = 0 .. n - 2 - 1
    BY SpanEntries
  <2>2. offered = Entries(a \o final)
    BY <1>6 DEF Numbers
  <2> HIDE DEF a, first, final, offered
  <2>3. offered = 0 .. n - 2 - 1 \cup {Gap, pages - 1}
    BY <1>4, <2>1, <2>2, EntriesJoined
  <2> HIDE DEF half
  <2> QED
    BY <1>1, <1>6, <2>3
<1>7. CASE ~(pages <= n) /\ ~(at <= half) /\ at >= pages - 1 - half
  <2> DEFINE from == pages - (n - 2)
             b == Span(from, pages)
  <2>1. from \in Int /\ from >= 0 /\ from <= at - 1 /\ from <= pages
    BY <1>1, <1>7
  <2>2. b \in Seq(Int) /\ Entries(b) = from .. pages - 1
    BY <2>1, SpanEntries
  <2>3. offered = Entries(first \o b)
    BY <1>7 DEF Numbers
  <2> HIDE DEF b, first, final, offered
  <2>4. offered = {0, Gap} \cup from .. pages - 1
    BY <1>3, <2>2, <2>3, EntriesJoined
  <2> HIDE DEF half, from
  <2> QED
    BY <2>1, <2>4
<1>8. CASE ~(pages <= n) /\ ~(at <= half) /\ ~(at >= pages - 1 - half)
  <2> DEFINE from == at - half + 2
             to == at + half - 1
             mid == Span(from, to)
  <2>1. /\ from \in Int /\ from >= 0 /\ from <= at - 1
        /\ to \in Int /\ to - 1 >= at + 1 /\ to - 1 <= pages - 1
    BY <1>1, <1>8
  <2>2. mid \in Seq(Int) /\ Entries(mid) = from .. to - 1
    BY <2>1, SpanEntries
  <2> DEFINE most == first \o mid
  <2>3. offered = Entries(most \o final)
    BY <1>8 DEF Numbers
  <2> HIDE DEF mid, first, final, offered
  <2>4. most \in Seq(Int)
    BY <1>3, <2>2
  <2>5. Entries(most) = {0, Gap} \cup from .. to - 1
    BY <1>3, <2>2, EntriesJoined
  <2> HIDE DEF most
  <2>6. offered = {0, Gap} \cup from .. to - 1 \cup {Gap, pages - 1}
    BY <1>4, <2>3, <2>4, <2>5, EntriesJoined
  <2> HIDE DEF half, from, to
  <2> QED
    BY <2>1, <2>6
<1> QED
  BY <1>5, <1>6, <1>7, <1>8

\* Clicks reach the neighbours, the first and the last page, if the pager has
\* at least the seven numbers it comes with.
LEMMA NumbersReach ==
  ASSUME TypeOK, NumbersLength >= 7
  PROVE  ButtonsReach
<1> SUFFICES ASSUME drawn.page < drawn.pages
             PROVE  LET near == { p \in {drawn.page - 1, drawn.page, drawn.page + 1} :
                                    p \in 0 .. drawn.pages - 1 }
                    IN  /\ near \cup {0, drawn.pages - 1} \subseteq Offered
                        /\ Offered \subseteq 0 .. drawn.pages - 1 \cup {Gap}
  BY DEF ButtonsReach
<1>1. drawn.pages \in Nat /\ drawn.page \in 0 .. drawn.pages - 1
  BY DEF TypeOK
<1>2. Offered = Entries(Numbers(drawn.page, drawn.pages, NumbersLength))
  BY DEF Offered, Entries
<1> QED
  BY <1>1, <1>2, NumbersAssumption, NumbersEntries, Offers

(***************************************************************************)
(* Construction of tables.                                                 *)
(***************************************************************************)

Calls == {"language", "timer", "state", "ajax"}
Objects ==
  [table : SetupTables, opt : SetupOptions, start : Nat, initStart : Nat \cup {Setup!Used},
   ajaxStart : Nat \cup {Setup!Used}, initialised : BOOLEAN, inits : {0, 1},
   complete : BOOLEAN, rows : Nat, loaded : Nat \cup {Nil}, early : BOOLEAN,
   destroying : BOOLEAN, waits : SUBSET Calls]
Works == [s : Objects, body : BOOLEAN, store : Nat \cup {Nil}]

\* What every settings object keeps until it is built.
Untouched(s) ==
  /\ "ajax" \in s.waits => s.opt.source # "dom"
  /\ s.inits = 0 /\ ~s.early => /\ ~s.complete /\ "ajax" \notin s.waits
                                /\ s.loaded # Nil => s.initStart = s.loaded
HasRows(s) == s.initialised /\ s.opt.source = "dom" => s.rows = SetupRowCount
WaitsForFile(s) ==
  \/ "language" \in s.waits /\ "timer" \notin s.waits
  \/ "timer" \in s.waits /\ "language" \notin s.waits
NoFile(s) == "language" \notin s.waits /\ "timer" \notin s.waits

\* Before the saved state was looked for, and before it is built.
Loading(s) ==
  /\ s \in Objects /\ Untouched(s) /\ s.inits = 0 /\ ~s.initialised /\ "state" \notin s.waits
  /\ s.loaded = Nil
  /\ IF s.opt.language THEN WaitsForFile(s) ELSE NoFile(s)
Idle(s) ==
  /\ s \in Objects /\ Untouched(s) /\ s.inits = 0 /\ NoFile(s) /\ HasRows(s)
  /\ s.initialised <=> "state" \notin s.waits
  /\ ~s.initialised => s.opt.language /\ s.loaded = Nil

\* A settings object between two steps.
Object(s) ==
  /\ s \in Objects /\ Untouched(s) /\ HasRows(s)
  /\ s.initialised <=> "state" \notin s.waits
  /\ ~s.initialised => s.inits = 0 /\ s.loaded = Nil
  /\ IF s.opt.language
     THEN IF s.inits = 1 THEN NoFile(s) ELSE WaitsForFile(s)
     ELSE NoFile(s) /\ (s.inits = 1 <=> s.initialised)
  /\ s.inits = 1 /\ ~s.early /\ ~s.complete /\ s.loaded # Nil =>
       /\ s.opt.source = "ajax" => s.ajaxStart = s.loaded
       /\ s.opt.source = "ssp" => s.start = s.loaded /\ s.initStart = Setup!Used

\* A completed table that shows the page it was left on.
ShowsSaved(s) == s.loaded # Nil /\ s.loaded < SetupRowCount /\ ~s.early => s.start = s.loaded

\* What a callback or a call makes of a settings object.
Result(v, w) ==
  /\ v \in Works /\ Object(v.s)
  /\ v.s.table = w.s.table /\ v.s.destroying = w.s.destroying
  /\ w.s.destroying => v.store = w.store
  /\ v.s.complete /\ ~w.s.complete => ShowsSaved(v.s)

-----------------------------------------------------------------------------
(* Drawing. *)

\* Drawing leaves all but the starts and the waits alone.
Kept(v, s) ==
  /\ v \in Objects
  /\ v.table = s.table /\ v.opt = s.opt /\ v.ajaxStart = s.ajaxStart
  /\ v.initialised = s.initialised /\ v.inits = s.inits /\ v.complete = s.complete
  /\ v.rows = s.rows /\ v.loaded = s.loaded /\ v.early = s.early /\ v.destroying = s.destroying

Taken(s) ==
  IF s.initStart = Setup!Used THEN s.start
  ELSE IF s.opt.source = "ssp" \/ s.initStart < s.rows THEN s.initStart ELSE 0

LEMMA StartTaken ==
  ASSUME NEW s \in Objects, NEW v, v = Setup!TakeStart(s)
  PROVE  Kept(v, s) /\ v.waits = s.waits /\ v.initStart = Setup!Used /\ v.start = Taken(s)
<1>1. CASE s.initStart = Setup!Used
  BY <1>1 DEF Setup!TakeStart, Kept, Taken
<1>2. CASE s.initStart # Setup!Used
  <2> DEFINE start == IF s.opt.source = "ssp" \/ s.initStart < s.rows THEN s.initStart ELSE 0
  <2>1. start \in Nat /\ start = Taken(s)
    BY <1>2 DEF Objects, Taken
  <2>2. v = [s EXCEPT !.start = start, !.initStart = Setup!Used]
    BY <1>2 DEF Setup!TakeStart
  <2> HIDE DEF start
  <2> QED BY <2>1, <2>2 DEF Objects, Kept
<1> QED BY <1>1, <1>2

\* What DrawOrRequest makes of a settings object with a start.
Drawing(v, w) ==
  /\ v \in Works /\ Kept(v.s, w.s)
  /\ v.s.initStart = Setup!Used /\ v.s.start = Taken(w.s)
  /\ v.s.waits = IF w.s.opt.source = "ssp" /\ ~w.s.destroying THEN w.s.waits \cup {"ajax"}
                 ELSE w.s.waits
  /\ w.s.destroying => v.store = w.store

LEMMA WorkParts ==
  ASSUME NEW w \in Works
  PROVE  w.s \in Objects /\ w.body \in BOOLEAN /\ w.store \in Nat \cup {Nil}
BY DEF Works

LEMMA DrawDraws ==
  ASSUME NEW w \in Works, NEW v, v = Setup!Draw(w)
  PROVE  /\ v \in Works /\ Kept(v.s, w.s) /\ v.s.waits = w.s.waits
         /\ v.s.initStart = Setup!Used /\ v.s.start = Taken(w.s)
         /\ w.s.destroying => v.store = w.store
<1> DEFINE s == Setup!TakeStart(w.s)
           u == [w EXCEPT !.s = s, !.body = TRUE]
<1>1. w.s \in Objects
  BY WorkParts
<1>2. Kept(s, w.s) /\ s.waits = w.s.waits /\ s.initStart = Setup!Used /\ s.start = Taken(w.s)
  BY <1>1, StartTaken
<1>3. v = Setup!SaveState(u)
  BY DEF Setup!Draw
<1> HIDE DEF s
<1>4. u \in Works /\ u.s = s /\ u.store = w.store
  BY <1>2 DEF Works, Kept
<1> HIDE DEF u
<1>5. s.start \in Nat
  BY <1>2 DEF Kept, Objects
<1>6. v = u \/ (~s.destroying /\ v = [u EXCEPT !.store = s.start])
  BY <1>3, <1>4 DEF Setup!SaveState
<1>7. v \in Works /\ v.s = s /\ (s.destroying => v.store = w.store)
  BY <1>4, <1>5, <1>6 DEF Works
<1> QED BY <1>2, <1>7 DEF Kept

LEMMA RequestAsks ==
  ASSUME NEW w \in Works, NEW v, v = Setup!Request(w)
  PROVE  /\ v \in Works /\ Kept(v.s, w.s) /\ v.s.waits = w.s.waits \cup {"ajax"}
         /\ v.s.initStart = Setup!Used /\ v.s.start = Taken(w.s)
         /\ v.store = w.store
<1> DEFINE s == Setup!TakeStart(w.s)
           t == [s EXCEPT !.waits = s.waits \cup {"ajax"}]
<1>1. w.s \in Objects
  BY WorkParts
<1>2. Kept(s, w.s) /\ s.waits = w.s.waits /\ s.initStart = Setup!Used /\ s.start = Taken(w.s)
  BY <1>1, StartTaken
<1>3. v = [w EXCEPT !.s = t]
  BY DEF Setup!Request
<1> HIDE DEF s
<1>4. s \in Objects /\ s.waits \cup {"ajax"} \in SUBSET Calls
  BY <1>2 DEF Kept, Objects, Calls
<1>5. /\ t \in Objects /\ t.waits = s.waits \cup {"ajax"}
      /\ t.initStart = s.initStart /\ t.start = s.start /\ Kept(t, s)
  BY <1>4 DEF Objects, Kept
<1> HIDE DEF t
<1>6. v \in Works /\ v.s = t /\ v.store = w.store
  BY <1>3, <1>5 DEF Works
<1> QED BY <1>2, <1>5, <1>6 DEF Kept

LEMMA DrawOrRequestDraws ==
  ASSUME NEW w \in Works, NEW v, v = Setup!DrawOrRequest(w)
  PROVE  Drawing(v, w)
<1>1. CASE w.s.opt.source = "ssp" /\ ~w.s.destroying
  <2>1. v = Setup!Request(w)
    BY <1>1 DEF Setup!DrawOrRequest
  <2> QED BY <1>1, <2>1, RequestAsks DEF Drawing
<1>2. CASE ~(w.s.opt.source = "ssp" /\ ~w.s.destroying)
  <2>1. v = Setup!Draw(w)
    BY <1>2 DEF Setup!DrawOrRequest
  <2> QED BY <1>2, <2>1, DrawDraws DEF Drawing
<1> QED BY <1>1, <1>2

\* Where a draw of the first page starts.
Restarted(s) ==
  IF s.initStart = Setup!Used THEN 0
  ELSE IF s.opt.source = "ssp" \/ s.initStart < s.rows THEN s.initStart ELSE 0

Redrawn(v, w) ==
  /\ v \in Works /\ Kept(v.s, w.s)
  /\ v.s.initStart = Setup!Used /\ v.s.start = Restarted(w.s)
  /\ v.s.waits = IF w.s.opt.source = "ssp" /\ ~w.s.destroying THEN w.s.waits \cup {"ajax"}
                 ELSE w.s.waits
  /\ w.s.destroying => v.store = w.store

LEMMA ReDrawDraws ==
  ASSUME NEW w \in Works, NEW v, v = Setup!ReDraw(w)
  PROVE  Redrawn(v, w)
<1> DEFINE u == [w EXCEPT !.s.start = 0]
<1>1. w.s \in Objects
  BY WorkParts
<1> DEFINE s == [w.s EXCEPT !.start = 0]
<1>2. Kept(s, w.s) /\ s.start = 0 /\ s.initStart = w.s.initStart /\ s.waits = w.s.waits
  BY <1>1 DEF Objects, Kept
<1>3. v = Setup!DrawOrRequest(u)
  BY DEF Setup!ReDraw
<1>4. u = [w EXCEPT !.s = s]
  OBVIOUS
<1> HIDE DEF s
<1>5. u \in Works /\ u.s = s /\ u.store = w.store
  BY <1>2, <1>4 DEF Works, Kept
<1> HIDE DEF u
<1>6. Drawing(v, u)
  BY <1>3, <1>5, DrawOrRequestDraws
<1>7. Taken(s) = Restarted(w.s)
  BY <1>2 DEF Taken, Restarted, Kept
<1> QED BY <1>2, <1>5, <1>6, <1>7 DEF Drawing, Redrawn, Kept

-----------------------------------------------------------------------------
(* Building. *)

LEMMA BuildBuilds ==
  ASSUME NEW w \in Works, Idle(w.s), w.s.initialised, NEW v, v = Setup!Build(w)
  PROVE  Result(v, w)
<1> DEFINE s == [w.s EXCEPT !.inits = w.s.inits + 1]
           u == [w EXCEPT !.s.inits = w.s.inits + 1]
           d == Setup!ReDraw(u)
<1>1. w.s \in Objects /\ w.s.inits = 0
  BY WorkParts DEF Idle
<1>2. /\ s \in Objects /\ s.inits = 1 /\ s.start = w.s.start /\ s.initStart = w.s.initStart
      /\ s.waits = w.s.waits /\ s.table = w.s.table /\ s.opt = w.s.opt
      /\ s.ajaxStart = w.s.ajaxStart /\ s.initialised = w.s.initialised
      /\ s.complete = w.s.complete /\ s.rows = w.s.rows /\ s.loaded = w.s.loaded
      /\ s.early = w.s.early /\ s.destroying = w.s.destroying
  <2>1. s = [w.s EXCEPT !.inits = 1]
    BY <1>1
  <2> HIDE DEF s
  <2> QED BY <1>1, <2>1 DEF Objects
<1>3. u = [w EXCEPT !.s = s]
  OBVIOUS
<1> HIDE DEF s
<1>4. u \in Works /\ u.s = s /\ u.store = w.store
  BY <1>2, <1>3 DEF Works
<1> HIDE DEF u
<1>5. Redrawn(d, u)
  BY <1>4, ReDrawDraws
<1>6. v = CASE w.s.opt.source = "dom" -> [d EXCEPT !.s.complete = TRUE]
            [] w.s.opt.source = "ajax" -> [d EXCEPT !.s.waits = d.s.waits \cup {"ajax"},
                                                        !.s.ajaxStart = w.s.initStart]
            [] w.s.opt.source = "ssp" -> d
  BY DEF Setup!Build, u
<1> HIDE DEF d
<1>7. /\ d \in Works /\ d.s \in Objects /\ Kept(d.s, s)
      /\ d.s.initStart = Setup!Used /\ d.s.start = Restarted(s)
      /\ d.s.waits = IF s.opt.source = "ssp" /\ ~s.destroying THEN s.waits \cup {"ajax"}
                         ELSE s.waits
      /\ s.destroying => d.store = w.store
  BY <1>4, <1>5 DEF Redrawn, Kept
<1>8. w.s.initStart \in Nat \cup {Setup!Used} /\ "state" \notin s.waits /\ NoFile(s)
      /\ Untouched(w.s) /\ HasRows(w.s) /\ w.s.initialised = TRUE
  BY <1>1, <1>2 DEF Idle, Objects, NoFile
<1>9. CASE w.s.opt.source = "dom"
  <2> DEFINE t == [d.s EXCEPT !.complete = TRUE]
  <2>1. v = [d EXCEPT !.s = t]
    BY <1>6, <1>9
  <2>2. /\ t \in Objects /\ t.complete /\ t.start = Restarted(s) /\ t.waits = s.waits
        /\ t.inits = 1 /\ t.table = w.s.table /\ t.opt = w.s.opt /\ t.rows = w.s.rows
        /\ t.loaded = w.s.loaded /\ t.early = w.s.early /\ t.destroying = w.s.destroying
        /\ t.initialised = TRUE
    BY <1>2, <1>7, <1>8, <1>9 DEF Objects, Kept
  <2> HIDE DEF t
  <2>3. v \in Works /\ v.s = t /\ v.store = d.store
    BY <1>7, <2>1, <2>2 DEF Works
  <2>4. Object(t)
    BY <1>2, <1>8, <1>9, <2>2 DEF Object, Untouched, HasRows, NoFile
  <2>5. ShowsSaved(t)
    <3> SUFFICES ASSUME t.loaded # Nil, t.loaded < SetupRowCount, ~t.early
                 PROVE  t.start = t.loaded
      BY DEF ShowsSaved
    <3>1. s.initStart = t.loaded /\ s.rows = SetupRowCount
      BY <1>1, <1>2, <1>8, <1>9, <2>2 DEF Untouched, HasRows
    <3>2. t.loaded \in Nat
      BY <2>2 DEF Objects
    <3>3. s.initStart # Setup!Used
      BY <3>1, <3>2 DEF Setup!Used
    <3> QED BY <2>2, <3>1, <3>3 DEF Restarted
  <2> QED BY <1>2, <1>7, <2>2, <2>3, <2>4, <2>5 DEF Result
<1>10. CASE w.s.opt.source = "ajax"
  <2> DEFINE t == [d.s EXCEPT !.waits = d.s.waits \cup {"ajax"}, !.ajaxStart = w.s.initStart]
  <2>1. v = [d EXCEPT !.s = t]
    BY <1>6, <1>10
  <2>2. d.s.waits = s.waits /\ s.waits \cup {"ajax"} \in SUBSET Calls
    BY <1>2, <1>7, <1>10 DEF Objects, Calls
  <2>3. /\ t \in Objects /\ t.waits = s.waits \cup {"ajax"} /\ t.ajaxStart = w.s.initStart
        /\ t.complete = w.s.complete
        /\ t.inits = 1 /\ t.table = w.s.table /\ t.opt = w.s.opt /\ t.rows = w.s.rows
        /\ t.loaded = w.s.loaded /\ t.early = w.s.early /\ t.destroying = w.s.destroying
        /\ t.initialised = TRUE
    BY <1>2, <1>7, <1>8, <2>2 DEF Objects, Kept
  <2> HIDE DEF t
  <2>4. v \in Works /\ v.s = t /\ v.store = d.store
    BY <1>7, <2>1, <2>3 DEF Works
  <2>5. Object(t)
    BY <1>1, <1>2, <1>8, <1>10, <2>3 DEF Object, Untouched, HasRows, NoFile
  <2> QED BY <1>2, <1>7, <2>3, <2>4, <2>5 DEF Result
<1>11. CASE w.s.opt.source = "ssp"
  <2>1. v = d
    BY <1>6, <1>11
  <2>2. /\ v.s.start = Restarted(s) /\ v.s.initStart = Setup!Used /\ v.s.inits = 1
        /\ v.s.waits \in {s.waits, s.waits \cup {"ajax"}} /\ v.s.complete = w.s.complete
        /\ v.s.table = w.s.table /\ v.s.opt = w.s.opt /\ v.s.rows = w.s.rows
        /\ v.s.loaded = w.s.loaded /\ v.s.early = w.s.early /\ v.s.destroying = w.s.destroying
        /\ v.s.initialised = TRUE
    BY <1>2, <1>7, <1>8, <2>1 DEF Kept
  <2>3. ASSUME ~v.s.early, v.s.loaded # Nil PROVE v.s.start = v.s.loaded
    <3>1. s.initStart = v.s.loaded
      BY <1>1, <1>2, <1>8, <2>2, <2>3 DEF Untouched
    <3>2. v.s.loaded \in Nat
      BY <2>1, <2>3, <1>7 DEF Objects
    <3>3. s.initStart # Setup!Used
      BY <3>1, <3>2 DEF Setup!Used
    <3> QED BY <1>2, <1>11, <2>2, <3>1, <3>3 DEF Restarted
  <2>4. Object(v.s)
    BY <1>1, <1>2, <1>7, <1>8, <1>11, <2>1, <2>2, <2>3 DEF Object, Untouched, HasRows, NoFile
  <2> QED BY <1>2, <1>7, <2>1, <2>2, <2>4 DEF Result
<1>12. w.s.opt.source \in {"dom", "ajax", "ssp"}
  BY <1>1, SetupAssumption DEF Objects
<1> QED BY <1>9, <1>10, <1>11, <1>12

-----------------------------------------------------------------------------
(* Initialising. *)

LEMMA InitialiseWaits ==
  ASSUME NEW w \in Works, Idle(w.s), NEW v, v = Setup!Initialise(w)
  PROVE  Result(v, w)
<1>1. CASE w.s.initialised
  <2>1. v = Setup!Build(w)
    BY <1>1 DEF Setup!Initialise
  <2> QED BY <1>1, <2>1, BuildBuilds
<1>2. CASE ~w.s.initialised
  <2> DEFINE s == [w.s EXCEPT !.waits = w.s.waits \cup {"timer"}]
  <2>1. v = [w EXCEPT !.s = s]
    BY <1>2 DEF Setup!Initialise
  <2>2. w.s \in Objects /\ w.s.waits \cup {"timer"} \in SUBSET Calls
    BY WorkParts DEF Objects, Calls
  <2>3. /\ s \in Objects /\ s.waits = w.s.waits \cup {"timer"}
        /\ s.initStart = w.s.initStart /\ s.inits = w.s.inits /\ s.complete = w.s.complete
        /\ s.table = w.s.table /\ s.opt = w.s.opt /\ s.rows = w.s.rows
        /\ s.loaded = w.s.loaded /\ s.early = w.s.early /\ s.destroying = w.s.destroying
        /\ s.initialised = w.s.initialised
    BY <2>2 DEF Objects
  <2> HIDE DEF s
  <2>4. v \in Works /\ v.s = s /\ v.store = w.store
    BY <2>1, <2>3 DEF Works
  <2>5. Object(s)
    BY <1>2, <2>3 DEF Object, Idle, Untouched, HasRows, NoFile, WaitsForFile
  <2> QED BY <2>3, <2>4, <2>5 DEF Result
<1> QED BY <1>1, <1>2

\* loadedInit, with the state or without one.
Loaded(s) ==
  /\ s \in Objects /\ Untouched(s) /\ s.inits = 0 /\ ~s.initialised /\ "state" \notin s.waits
  /\ IF s.opt.language THEN WaitsForFile(s) ELSE NoFile(s)

LEMMA LoadedInitReads ==
  ASSUME NEW w \in Works, Loaded(w.s), NEW v, v = Setup!LoadedInit(w)
  PROVE  Result(v, w)
<1> DEFINE read == IF w.s.opt.source = "dom" THEN SetupRowCount ELSE 0
           s == [w.s EXCEPT !.initialised = TRUE, !.rows = read]
           u == [w EXCEPT !.s = s]
<1>1. w.s \in Objects /\ read \in Nat
  BY WorkParts, SetupAssumption
<1>2. v = IF s.opt.language THEN u ELSE Setup!Initialise(u)
  BY DEF Setup!LoadedInit
<1>3. w.s.opt.source = "dom" => read = SetupRowCount
  OBVIOUS
<1> HIDE DEF read
<1>4. /\ s \in Objects /\ s.waits = w.s.waits /\ s.initialised = TRUE /\ s.rows = read
      /\ s.initStart = w.s.initStart /\ s.inits = w.s.inits /\ s.complete = w.s.complete
      /\ s.table = w.s.table /\ s.opt = w.s.opt
      /\ s.loaded = w.s.loaded /\ s.early = w.s.early /\ s.destroying = w.s.destroying
  BY <1>1 DEF Objects
<1> HIDE DEF s
<1>5. u \in Works /\ u.s = s /\ u.store = w.store
  BY <1>4 DEF Works
<1> HIDE DEF u
<1>6. CASE s.opt.language
  <2>1. Object(s)
    BY <1>3, <1>4, <1>6 DEF Object, Loaded, Untouched, HasRows, NoFile, WaitsForFile
  <2> QED BY <1>2, <1>4, <1>5, <1>6, <2>1 DEF Result
<1>7. CASE ~s.opt.language
  <2>1. Idle(s)
    BY <1>3, <1>4, <1>7 DEF Idle, Loaded, Untouched, HasRows, NoFile
  <2>2. Result(v, u)
    BY <1>2, <1>5, <1>7, <2>1, InitialiseWaits
  <2> QED BY <1>4, <1>5, <2>2 DEF Result
<1> QED BY <1>6, <1>7

LEMMA LoadStateLoads ==
  ASSUME NEW w \in Works, Loading(w.s), NEW usable \in BOOLEAN,
         storage \in [Setup!Ids -> Nat \cup {Nil}],
         NEW v, v = Setup!LoadState(w, usable)
  PROVE  Result(v, w)
<1> DEFINE start == storage[SetupIdOf[w.s.table]]
           s == [w.s EXCEPT !.start = start, !.initStart = start, !.loaded = start]
           u == [w EXCEPT !.s = s]
<1>1. w.s \in Objects
  BY WorkParts
<1>2. start \in Nat \cup {Nil}
  BY <1>1 DEF Setup!Ids, Objects
<1>3. v = Setup!LoadedInit(IF start = Nil \/ ~usable THEN w ELSE u)
  BY DEF Setup!LoadState
<1> HIDE DEF start
<1>4. CASE start = Nil \/ ~usable
  <2>1. Loaded(w.s)
    BY DEF Loading, Loaded
  <2>2. v = Setup!LoadedInit(w)
    BY <1>3, <1>4
  <2> QED BY <2>1, <2>2, LoadedInitReads
<1>5. CASE ~(start = Nil \/ ~usable)
  <2>1. start \in Nat
    BY <1>2, <1>5
  <2>2. /\ s \in Objects /\ s.waits = w.s.waits /\ s.initialised = w.s.initialised
        /\ s.initStart = start /\ s.loaded = start /\ s.inits = w.s.inits
        /\ s.complete = w.s.complete /\ s.rows = w.s.rows
        /\ s.table = w.s.table /\ s.opt = w.s.opt
        /\ s.early = w.s.early /\ s.destroying = w.s.destroying
    BY <1>1, <2>1 DEF Objects
  <2> HIDE DEF s
  <2>3. u \in Works /\ u.s = s /\ u.store = w.store
    BY <2>2 DEF Works
  <2>4. v = Setup!LoadedInit(u)
    BY <1>3, <1>5
  <2> HIDE DEF u
  <2>5. Loaded(s)
    BY <2>2 DEF Loading, Loaded, Untouched, NoFile, WaitsForFile
  <2>6. Result(v, u)
    BY <2>3, <2>4, <2>5, LoadedInitReads
  <2> QED BY <2>2, <2>3, <2>6 DEF Result
<1> QED BY <1>4, <1>5

Storage == storage \in [Setup!Ids -> Nat \cup {Nil}]

LEMMA WorkOf ==
  ASSUME Storage, NEW s \in Objects, NEW w, w = Setup!Work(s)
  PROVE  w \in Works /\ w.s = s /\ w.store = storage[SetupIdOf[s.table]]
<1>1. storage[SetupIdOf[s.table]] \in Nat \cup {Nil}
  BY DEF Storage, Setup!Ids, Objects
<1>2. w = [s |-> s, body |-> FALSE, store |-> storage[SetupIdOf[s.table]]]
  BY DEF Setup!Work
<1> QED BY <1>1, <1>2 DEF Works

\* The work of a step on a settings object.
After(v, s) ==
  /\ v \in Works /\ Object(v.s)
  /\ v.s.table = s.table /\ v.s.destroying = s.destroying
  /\ s.destroying => v.store = storage[SetupIdOf[s.table]]
  /\ v.s.complete /\ ~s.complete => ShowsSaved(v.s)

\* An object that has been called back does not wait for that any more.
Answered(t, s, what) ==
  /\ t \in Objects /\ t.waits = s.waits \ {what}
  /\ t.initialised = s.initialised /\ t.initStart = s.initStart /\ t.ajaxStart = s.ajaxStart
  /\ t.start = s.start /\ t.loaded = s.loaded /\ t.inits = s.inits
  /\ t.complete = s.complete /\ t.rows = s.rows /\ t.table = s.table /\ t.opt = s.opt
  /\ t.early = s.early /\ t.destroying = s.destroying

LEMMA DoneAnswers ==
  ASSUME NEW s \in Objects, NEW what \in Calls, NEW t, t = [s EXCEPT !.waits = s.waits \ {what}]
  PROVE  Answered(t, s, what)
<1>1. s.waits \ {what} \in SUBSET Calls
  BY DEF Objects
<1> QED BY <1>1 DEF Answered, Objects

LEMMA FileComes ==
  ASSUME Storage, NEW s, Object(s), NEW what \in {"language", "timer"}, what \in s.waits,
         NEW v, v = Setup!Initialise(Setup!Work([s EXCEPT !.waits = s.waits \ {what}]))
  PROVE  After(v, s)
<1> DEFINE t == [s EXCEPT !.waits = s.waits \ {what}]
           w == Setup!Work(t)
<1>1. s \in Objects
  BY DEF Object
<1>2. Answered(t, s, what)
  BY <1>1, DoneAnswers DEF Calls
<1> HIDE DEF t
<1>3. Idle(t)
  <2>1. s.opt.language /\ s.inits = 0 /\ WaitsForFile(s)
    BY <1>1 DEF Object, NoFile, Objects
  <2>2. NoFile(t)
    BY <1>2, <2>1 DEF WaitsForFile, NoFile, Answered
  <2>3. "state" \in t.waits <=> "state" \in s.waits
    BY <1>2 DEF Answered
  <2>4. "ajax" \in t.waits <=> "ajax" \in s.waits
    BY <1>2 DEF Answered
  <2> QED BY <1>2, <2>1, <2>2, <2>3, <2>4 DEF Object, Idle, Answered, Untouched, HasRows
<1>4. w \in Works /\ w.s = t /\ w.store = storage[SetupIdOf[t.table]]
  BY <1>2, WorkOf DEF Answered
<1>5. v = Setup!Initialise(w)
  BY DEF t
<1> HIDE DEF w
<1>6. Result(v, w)
  BY <1>3, <1>4, <1>5, InitialiseWaits
<1> QED BY <1>2, <1>4, <1>6 DEF Result, After, Answered

LEMMA StateComes ==
  ASSUME Storage, NEW s, Object(s), "state" \in s.waits, NEW usable \in BOOLEAN,
         NEW v, v = Setup!LoadState(Setup!Work([s EXCEPT !.waits = s.waits \ {"state"}]), usable)
  PROVE  After(v, s)
<1> DEFINE t == [s EXCEPT !.waits = s.waits \ {"state"}]
           w == Setup!Work(t)
<1>1. s \in Objects
  BY DEF Object
<1>2. Answered(t, s, "state")
  BY <1>1, DoneAnswers DEF Calls
<1> HIDE DEF t
<1>3. Loading(t)
  BY <1>2 DEF Object, Loading, Answered, Untouched, NoFile, WaitsForFile
<1>4. w \in Works /\ w.s = t /\ w.store = storage[SetupIdOf[t.table]]
  BY <1>2, WorkOf DEF Answered
<1>5. v = Setup!LoadState(w, usable)
  BY DEF t
<1> HIDE DEF w
<1>6. Result(v, w)
  BY <1>3, <1>4, <1>5, LoadStateLoads DEF Storage
<1> QED BY <1>2, <1>4, <1>6 DEF Result, After, Answered

LEMMA AjaxFails ==
  ASSUME Storage, NEW s, Object(s), "ajax" \in s.waits,
         NEW v, v = Setup!Work([s EXCEPT !.waits = s.waits \ {"ajax"}])
  PROVE  After(v, s)
<1> DEFINE t == [s EXCEPT !.waits = s.waits \ {"ajax"}]
<1>1. s \in Objects
  BY DEF Object
<1>2. Answered(t, s, "ajax")
  BY <1>1, DoneAnswers DEF Calls
<1>3. v = Setup!Work(t)
  OBVIOUS
<1> HIDE DEF t
<1>4. v \in Works /\ v.s = t /\ v.store = storage[SetupIdOf[t.table]]
  BY <1>2, <1>3, WorkOf DEF Answered
<1>5. Object(t)
  BY <1>2 DEF Object, Answered, Untouched, HasRows, NoFile, WaitsForFile
<1> QED BY <1>2, <1>4, <1>5 DEF After, Answered

\* A settings object that is complete now.
Completed(z, q) ==
  /\ z \in Objects /\ z.complete = TRUE /\ z.start = q.start /\ z.waits = q.waits
  /\ z.initialised = q.initialised /\ z.loaded = q.loaded /\ z.inits = q.inits
  /\ z.rows = q.rows /\ z.table = q.table /\ z.opt = q.opt
  /\ z.early = q.early /\ z.destroying = q.destroying

LEMMA CompleteParts ==
  ASSUME NEW q \in Objects, NEW z, z = [q EXCEPT !.complete = TRUE]
  PROVE  Completed(z, q)
BY DEF Completed, Objects

\* The rows that complete a table are drawn where its saved state says.
Filled(s) == [s EXCEPT !.waits = s.waits \ {"ajax"}, !.rows = SetupRowCount]
FirstDraw(t) == IF t.opt.source = "ssp" THEN Setup!Draw(Setup!Work(t))
                ELSE Setup!ReDraw(Setup!Work([t EXCEPT !.initStart = t.ajaxStart]))
Arrived(s) == [FirstDraw(Filled(s)) EXCEPT !.s.complete = TRUE]

LEMMA RowsCome ==
  ASSUME Storage, NEW s, Object(s), "ajax" \in s.waits, NEW v, v = Arrived(s)
  PROVE  After(v, s)
<1> DEFINE t == Filled(s)
           w == FirstDraw(t)
<1>0. t = [s EXCEPT !.waits = s.waits \ {"ajax"}, !.rows = SetupRowCount]
  BY DEF Filled
<1>w. /\ t.opt.source = "ssp" => w = Setup!Draw(Setup!Work(t))
      /\ t.opt.source # "ssp" => w = Setup!ReDraw(Setup!Work([t EXCEPT !.initStart = t.ajaxStart]))
  BY DEF FirstDraw
<1>v. v = [w EXCEPT !.s.complete = TRUE]
  BY DEF Arrived
<1> HIDE DEF t, w
<1>1. s \in Objects
  BY DEF Object
<1>2. /\ t \in Objects /\ t.waits = s.waits \ {"ajax"} /\ t.rows = SetupRowCount
      /\ t.initialised = s.initialised /\ t.initStart = s.initStart /\ t.ajaxStart = s.ajaxStart
      /\ t.start = s.start /\ t.loaded = s.loaded /\ t.inits = s.inits
      /\ t.complete = s.complete /\ t.table = s.table /\ t.opt = s.opt
      /\ t.early = s.early /\ t.destroying = s.destroying
  <2>1. s.waits \ {"ajax"} \in SUBSET Calls /\ SetupRowCount \in Nat
    BY <1>1, SetupAssumption DEF Objects
  <2> QED BY <1>0, <1>1, <2>1 DEF Objects
<1>3. s.inits = 1 \/ s.early
  BY <1>1 DEF Object, Untouched, Objects
<1> DEFINE shows == s.loaded # Nil /\ s.loaded < SetupRowCount /\ ~s.early /\ ~s.complete
                       => w.s.start = s.loaded
<1>4. /\ w \in Works /\ Kept(w.s, t) /\ shows
      /\ w.s.waits \in {s.waits, s.waits \ {"ajax"}}
      /\ s.destroying => w.store = storage[SetupIdOf[s.table]]
  <2>1. CASE t.opt.source = "ssp"
    <3> DEFINE u == Setup!Work(t)
    <3>1. u \in Works /\ u.s = t /\ u.store = storage[SetupIdOf[t.table]]
      BY <1>2, WorkOf
    <3>2. w = Setup!Draw(u)
      BY <1>w, <2>1
    <3> HIDE DEF u
    <3>3. /\ w \in Works /\ Kept(w.s, u.s) /\ w.s.waits = u.s.waits
          /\ w.s.start = Taken(u.s)
          /\ u.s.destroying => w.store = u.store
      BY <3>1, <3>2, DrawDraws
    <3>4. shows
      <4> SUFFICES ASSUME s.loaded # Nil, ~s.early, ~s.complete PROVE w.s.start = s.loaded
        OBVIOUS
      <4>1. s.start = s.loaded /\ s.initStart = Setup!Used
        BY <1>2, <1>3, <2>1 DEF Object
      <4> QED BY <1>2, <3>1, <3>3, <4>1 DEF Taken
    <3> QED BY <1>2, <3>1, <3>3, <3>4
  <2>2. CASE t.opt.source # "ssp"
    <3> DEFINE r == [t EXCEPT !.initStart = t.ajaxStart]
               u == Setup!Work(r)
    <3>0. /\ r \in Objects /\ r.waits = t.waits /\ r.rows = SetupRowCount
          /\ r.initialised = s.initialised /\ r.initStart = s.ajaxStart
          /\ Kept(r, t) /\ r.opt = s.opt /\ r.destroying = s.destroying /\ r.table = s.table
      BY <1>2 DEF Objects, Kept
    <3>2. w = Setup!ReDraw(u)
      BY <1>w, <2>2
    <3> HIDE DEF r
    <3>1. u \in Works /\ u.s = r /\ u.store = storage[SetupIdOf[r.table]]
      BY <3>0, WorkOf
    <3> HIDE DEF u
    <3>3. Redrawn(w, u)
      BY <3>1, <3>2, ReDrawDraws
    <3>4. shows
      <4> SUFFICES ASSUME s.loaded # Nil, s.loaded < SetupRowCount, ~s.early, ~s.complete
                   PROVE  w.s.start = s.loaded
        OBVIOUS
      <4>1. s.opt.source = "ajax"
        BY <1>1, <1>2, <2>2, SetupAssumption DEF Object, Untouched, Objects
      <4>2. s.ajaxStart = s.loaded
        BY <1>3, <4>1 DEF Object
      <4>3. s.loaded \in Nat
        BY <1>1 DEF Objects
      <4>4. s.ajaxStart # Setup!Used
        BY <4>2, <4>3 DEF Setup!Used
      <4> QED BY <3>0, <3>1, <3>3, <4>2, <4>4 DEF Redrawn, Restarted
    <3> QED BY <1>2, <2>2, <3>0, <3>1, <3>3, <3>4 DEF Redrawn, Kept
  <2> QED BY <2>1, <2>2
<1> DEFINE z == [w.s EXCEPT !.complete = TRUE]
<1>5. v = [w EXCEPT !.s = z]
  BY <1>v
<1>6. w.s \in Objects
  BY <1>4 DEF Works
<1>7. Completed(z, w.s)
  BY <1>6, CompleteParts
<1> HIDE DEF z
<1>8. v \in Works /\ v.s = z /\ v.store = w.store
  BY <1>4, <1>5, <1>7 DEF Works, Completed
<1>9. Object(z)
  BY <1>2, <1>3, <1>4, <1>7 DEF Completed, Object, Kept, Untouched, HasRows, NoFile, WaitsForFile
<1>10. z.complete /\ ~s.complete => ShowsSaved(z)
  BY <1>2, <1>4, <1>7 DEF ShowsSaved, Kept, Completed
<1> QED BY <1>2, <1>4, <1>7, <1>8, <1>9, <1>10 DEF After, Kept, Completed

LEMMA CallDraws ==
  ASSUME Storage, NEW s, Object(s), ~s.destroying,
         NEW v, v = Setup!ReDraw(Setup!Work([s EXCEPT !.early = s.early \/ ~s.complete]))
  PROVE  After(v, s)
<1> DEFINE t == [s EXCEPT !.early = s.early \/ ~s.complete]
           w == Setup!Work(t)
<1>1. s \in Objects
  BY DEF Object
<1>2. /\ t \in Objects /\ t.waits = s.waits /\ t.rows = s.rows
      /\ t.initialised = s.initialised /\ t.loaded = s.loaded /\ t.inits = s.inits
      /\ t.complete = s.complete /\ t.table = s.table /\ t.opt = s.opt
      /\ t.early = (s.early \/ ~s.complete) /\ t.destroying = s.destroying
  <2>1. (s.early \/ ~s.complete) \in BOOLEAN
    OBVIOUS
  <2> QED BY <1>1, <2>1 DEF Objects
<1> HIDE DEF t
<1>3. w \in Works /\ w.s = t
  BY <1>2, WorkOf
<1>4. v = Setup!ReDraw(w)
  BY DEF t
<1> HIDE DEF w
<1>5. Redrawn(v, w)
  BY <1>3, <1>4, ReDrawDraws
<1>6. /\ v.s \in Objects /\ v \in Works /\ (v.s.waits = s.waits \/ v.s.waits = s.waits \cup {"ajax"})
      /\ v.s.waits # s.waits => s.opt.source = "ssp"
      /\ v.s.table = s.table /\ v.s.opt = s.opt /\ v.s.rows = s.rows
      /\ v.s.initialised = s.initialised /\ v.s.loaded = s.loaded /\ v.s.inits = s.inits
      /\ v.s.complete = s.complete /\ v.s.early = (s.early \/ ~s.complete)
      /\ v.s.destroying = s.destroying
  <2>1. /\ v.s \in Objects /\ v \in Works
        /\ (v.s.waits = s.waits \/ v.s.waits = s.waits \cup {"ajax"})
        /\ v.s.waits # s.waits => s.opt.source = "ssp"
    BY <1>2, <1>3, <1>5 DEF Redrawn, Kept
  <2>2. /\ v.s.table = s.table /\ v.s.opt = s.opt /\ v.s.rows = s.rows
        /\ v.s.initialised = s.initialised /\ v.s.loaded = s.loaded /\ v.s.inits = s.inits
        /\ v.s.complete = s.complete /\ v.s.destroying = s.destroying
    BY <1>2, <1>3, <1>5 DEF Redrawn, Kept
  <2>3. v.s.early = (s.early \/ ~s.complete)
    BY <1>2, <1>3, <1>5, Zenon DEF Redrawn, Kept
  <2> QED BY <2>1, <2>2, <2>3
<1>7. Object(v.s)
  BY <1>5, <1>6 DEF Redrawn, Kept, Object, Untouched, HasRows, NoFile, WaitsForFile
<1> QED BY <1>5, <1>6, <1>7 DEF Redrawn, After

LEMMA TurnDraws ==
  ASSUME Storage, NEW s, Object(s), ~s.destroying, s.complete, NEW start \in SetupStarts,
         NEW v, v = Setup!DrawOrRequest(Setup!Work([s EXCEPT !.start = start]))
  PROVE  After(v, s)
<1> DEFINE t == [s EXCEPT !.start = start]
           w == Setup!Work(t)
<1>1. s \in Objects
  BY DEF Object
<1>2. /\ t \in Objects /\ t.waits = s.waits /\ t.rows = s.rows
      /\ t.initialised = s.initialised /\ t.loaded = s.loaded /\ t.inits = s.inits
      /\ t.complete = s.complete /\ t.table = s.table /\ t.opt = s.opt
      /\ t.early = s.early /\ t.destroying = s.destroying
  BY <1>1, SetupAssumption DEF Objects
<1> HIDE DEF t
<1>3. w \in Works /\ w.s = t
  BY <1>2, WorkOf
<1>4. v = Setup!DrawOrRequest(w)
  BY DEF t
<1> HIDE DEF w
<1>5. Drawing(v, w)
  BY <1>3, <1>4, DrawOrRequestDraws
<1>6. /\ v.s \in Objects /\ v \in Works /\ (v.s.waits = s.waits \/ v.s.waits = s.waits \cup {"ajax"})
      /\ v.s.waits # s.waits => s.opt.source = "ssp"
      /\ v.s.table = s.table /\ v.s.opt = s.opt /\ v.s.rows = s.rows
      /\ v.s.initialised = s.initialised /\ v.s.loaded = s.loaded /\ v.s.inits = s.inits
      /\ v.s.complete = s.complete /\ v.s.early = s.early
      /\ v.s.destroying = s.destroying
  BY <1>2, <1>3, <1>5 DEF Drawing, Kept
<1>7. Object(v.s)
  BY <1>5, <1>6 DEF Drawing, Kept, Object, Untouched, HasRows, NoFile, WaitsForFile
<1> QED BY <1>5, <1>6, <1>7 DEF Drawing, After

\* The constructor.
LEMMA SetupMakes ==
  ASSUME Storage, NEW t \in SetupTables, NEW opt \in SetupOptions, NEW usable \in BOOLEAN,
         NEW v, v = Setup!Setup(Setup!New(t, opt), usable)
  PROVE  /\ v \in Works /\ Object(v.s) /\ v.s.table = t /\ ~v.s.destroying
         /\ v.s.complete => ShowsSaved(v.s)
<1> DEFINE s == Setup!New(t, opt)
           w == Setup!Work(s)
<1>1. /\ opt.source \in {"dom", "ajax", "ssp"} /\ opt.state \in {"no", "now", "later"}
      /\ opt.language \in BOOLEAN
  BY SetupAssumption
<1> DEFINE first == IF opt.language THEN {"language"} ELSE {}
<1>2. first \in SUBSET Calls
  BY DEF Calls
<1>3. /\ s \in Objects /\ s.table = t /\ s.opt = opt /\ s.waits = first /\ ~s.destroying
      /\ ~s.complete /\ ~s.initialised /\ s.inits = 0 /\ s.loaded = Nil /\ ~s.early
  <2>1. s = [table |-> t, opt |-> opt, start |-> 0, initStart |-> 0, ajaxStart |-> 0,
             initialised |-> FALSE, inits |-> 0, complete |-> FALSE, rows |-> 0,
             loaded |-> Nil, early |-> FALSE, destroying |-> FALSE, waits |-> first]
    BY DEF Setup!New
  <2> HIDE DEF first, s
  <2> QED BY <1>2, <2>1 DEF Objects
<1> HIDE DEF s
<1>4. w \in Works /\ w.s = s
  BY <1>3, WorkOf
<1>5. v = CASE opt.state = "no" -> Setup!LoadedInit(w)
            [] opt.state = "now" -> Setup!LoadState(w, usable)
            [] opt.state = "later" -> Setup!Work([s EXCEPT !.waits = s.waits \cup {"state"}])
  BY <1>3 DEF Setup!Setup, s
<1> HIDE DEF w
<1>6. Loading(s)
  BY <1>3 DEF Loading, Untouched, WaitsForFile, NoFile
<1>7. CASE opt.state = "no"
  <2>1. Loaded(s)
    BY <1>6 DEF Loading, Loaded
  <2>2. Result(v, w)
    BY <1>4, <1>5, <1>7, <2>1, LoadedInitReads
  <2> QED BY <1>3, <1>4, <2>2 DEF Result
<1>8. CASE opt.state = "now"
  <2>1. v = Setup!LoadState(w, usable)
    BY <1>5, <1>8
  <2>2. Result(v, w)
    BY <1>4, <1>6, <2>1, LoadStateLoads DEF Storage
  <2> QED BY <1>3, <1>4, <2>2 DEF Result
<1>9. CASE opt.state = "later"
  <2> DEFINE r == [s EXCEPT !.waits = s.waits \cup {"state"}]
  <2>1. v = Setup!Work(r)
    BY <1>5, <1>9
  <2>2. s.waits \cup {"state"} \in SUBSET Calls
    BY <1>2, <1>3 DEF Calls
  <2>3. /\ r \in Objects /\ r.waits = first \cup {"state"}
        /\ r.table = t /\ r.opt = opt /\ ~r.destroying
        /\ ~r.complete /\ ~r.initialised /\ r.inits = 0 /\ r.loaded = Nil /\ ~r.early
    BY <1>3, <2>2 DEF Objects
  <2> HIDE DEF r
  <2>4. v \in Works /\ v.s = r
    BY <2>1, <2>3, WorkOf
  <2>5. Object(r)
    BY <2>3 DEF Object, Untouched, HasRows, WaitsForFile, NoFile
  <2> QED BY <2>3, <2>4, <2>5
<1> QED BY <1>1, <1>7, <1>8, <1>9

\* The id attribute of the element of a settings object.
IdAt(x) == SetupIdOf[inst[x].table]
Distinct(r) ==
  /\ r \in Seq(1 .. Len(inst))
  /\ \A j, k \in 1 .. Len(r) : j # k => IdAt(r[j]) # IdAt(r[k])
  /\ \A k \in 1 .. Len(r) : ~inst[r[k]].destroying

SetupInv ==
  /\ inst \in Seq(Objects) /\ \A i \in 1 .. Len(inst) : Object(inst[i])
  /\ Storage /\ Distinct(settings)
  /\ bodies \in [SetupTables -> 1 .. Len(inst) \cup {Nil}]

LEMMA SetupParts ==
  ASSUME SetupInv
  PROVE  /\ Len(inst) \in Nat /\ DOMAIN inst = 1 .. Len(inst)
         /\ Len(settings) \in Nat /\ DOMAIN settings = 1 .. Len(settings)
         /\ \A i \in 1 .. Len(inst) : inst[i] \in Objects /\ Object(inst[i])
         /\ \A k \in 1 .. Len(settings) : settings[k] \in 1 .. Len(inst)
         /\ storage \in [Setup!Ids -> Nat \cup {Nil}]
         /\ bodies \in [SetupTables -> 1 .. Len(inst) \cup {Nil}]
BY DEF SetupInv, Distinct, Storage

LEMMA IdKnown ==
  ASSUME NEW t \in SetupTables
  PROVE  SetupIdOf[t] \in Setup!Ids
BY DEF Setup!Ids

SetupSteps == Setup!SavedPageKept /\ Setup!DestroyedSavesNothing

\* A settings object is changed, in its place.
LEMMA BecomeKeeps ==
  ASSUME SetupInv, NEW i \in DOMAIN inst, NEW v, After(v, inst[i]), Setup!Become(i, v),
         settings' = settings
  PROVE  SetupInv' /\ SetupSteps
<1> DEFINE s == inst[i]
           t == s.table
<1>0. /\ Len(inst) \in Nat /\ i \in 1 .. Len(inst) /\ DOMAIN inst = 1 .. Len(inst)
      /\ s \in Objects /\ t \in SetupTables /\ SetupIdOf[t] \in Setup!Ids
      /\ storage \in [Setup!Ids -> Nat \cup {Nil}] /\ inst \in Seq(Objects)
      /\ bodies \in [SetupTables -> 1 .. Len(inst) \cup {Nil}]
      /\ \A k \in 1 .. Len(settings) : settings[k] \in 1 .. Len(inst)
  <2>1. s \in Objects
    BY SetupParts
  <2> QED BY <2>1, SetupParts, IdKnown DEF Objects, SetupInv
<1>1. /\ v.s \in Objects /\ Object(v.s) /\ v.store \in Nat \cup {Nil} /\ v.body \in BOOLEAN
      /\ v.s.table = t /\ v.s.destroying = s.destroying
      /\ s.destroying => v.store = storage[SetupIdOf[t]]
      /\ v.s.complete /\ ~s.complete => ShowsSaved(v.s)
  BY DEF After, Works
<1>2. /\ inst' = [inst EXCEPT ![i] = v.s]
      /\ storage' = [storage EXCEPT ![SetupIdOf[t]] = v.store]
      /\ bodies' = bodies \/ bodies' = [bodies EXCEPT ![t] = i]
  BY <1>1 DEF Setup!Become, Setup!Bodies, Setup!Stored
<1>3. /\ inst' \in Seq(Objects) /\ Len(inst') = Len(inst) /\ DOMAIN inst' = 1 .. Len(inst)
      /\ inst'[i] = v.s /\ \A j \in 1 .. Len(inst) : j # i => inst'[j] = inst[j]
  BY <1>0, <1>1, <1>2
<1> HIDE DEF s, t
<1>4. \A j \in 1 .. Len(inst) : /\ inst'[j].table = inst[j].table
                                /\ inst'[j].destroying = inst[j].destroying
  BY <1>1, <1>3 DEF s, t
<1>5. Storage' /\ bodies' \in [SetupTables -> 1 .. Len(inst') \cup {Nil}]
  BY <1>0, <1>1, <1>2, <1>3 DEF Storage
<1>6. \A j \in 1 .. Len(inst') : Object(inst'[j])
  BY <1>1, <1>3 DEF SetupInv
<1>7. Distinct(settings)'
  <2>0. Distinct(settings)
    BY DEF SetupInv
  <2>1. \A k \in 1 .. Len(settings) :
           /\ SetupIdOf[inst'[settings[k]].table] = IdAt(settings[k])
           /\ inst'[settings[k]].destroying = inst[settings[k]].destroying
    BY <1>0, <1>4 DEF IdAt
  <2>2. \A j, k \in 1 .. Len(settings) :
           j # k => SetupIdOf[inst'[settings[j]].table] # SetupIdOf[inst'[settings[k]].table]
    BY <2>0, <2>1 DEF Distinct
  <2>3. settings \in Seq(1 .. Len(inst')) /\ \A k \in 1 .. Len(settings) : ~inst'[settings[k]].destroying
    BY <1>3, <2>0, <2>1 DEF Distinct
  <2> QED BY <2>2, <2>3 DEF Distinct, IdAt
<1>8. SetupInv'
  BY <1>3, <1>5, <1>6, <1>7 DEF SetupInv
<1>9. Setup!SavedPageKept
  <2> SUFFICES ASSUME NEW j \in DOMAIN inst', inst'[j].complete, j \in DOMAIN inst => ~inst[j].complete,
                      inst'[j].loaded # Nil, inst'[j].loaded < SetupRowCount, ~inst'[j].early
               PROVE  inst'[j].start = inst'[j].loaded
    BY DEF Setup!SavedPageKept
  <2>1. j = i
    BY <1>0, <1>3
  <2> QED BY <2>1, <1>0, <1>1, <1>3 DEF ShowsSaved, s
<1>10. Setup!DestroyedSavesNothing
  <2> SUFFICES ASSUME NEW j \in DOMAIN inst, inst[j].destroying,
                      \E w \in inst[j].waits : w \notin inst'[j].waits
               PROVE  storage' = storage
    BY DEF Setup!DestroyedSavesNothing
  <2>1. j = i
    BY <1>0, <1>3
  <2>2. v.store = storage[SetupIdOf[t]]
    BY <2>1, <1>1 DEF s
  <2> QED BY <2>2, <1>0, <1>2
<1> QED BY <1>8, <1>9, <1>10 DEF SetupSteps

\* An entry taken off the registry.
LEMMA OffRegistry ==
  ASSUME SetupInv, NEW k \in 1 .. Len(settings), NEW r, r = Setup!Cut(settings, k)
  PROVE  Distinct(r) /\ \A j \in 1 .. Len(r) : /\ r[j] # settings[k]
                                               /\ IdAt(r[j]) # IdAt(settings[k])
<1>0. /\ settings \in Seq(1 .. Len(inst)) /\ Len(settings) \in Nat
      /\ \A j, m \in 1 .. Len(settings) : j # m => IdAt(settings[j]) # IdAt(settings[m])
      /\ \A j \in 1 .. Len(settings) : ~inst[settings[j]].destroying
  BY SetupParts DEF SetupInv, Distinct
<1>1. r = Cut(settings, k)
  BY DEF Setup!Cut, Cut
<1>2. /\ r \in Seq(1 .. Len(inst)) /\ Len(r) = Len(settings) - 1
      /\ \A j \in 1 .. Len(r) : r[j] = IF j < k THEN settings[j] ELSE settings[j + 1]
  BY <1>0, <1>1, Removed
<1> DEFINE at(j) == IF j < k THEN j ELSE j + 1
<1>3. \A j \in 1 .. Len(r) : at(j) \in 1 .. Len(settings) /\ at(j) # k /\ r[j] = settings[at(j)]
  <2> TAKE j \in 1 .. Len(r)
  <2>1. j \in Nat /\ j >= 1 /\ j <= Len(settings) - 1 /\ Len(settings) \in Nat
    BY <1>0, <1>2
  <2>2. at(j) \in 1 .. Len(settings) /\ at(j) # k
    BY <2>1
  <2>3. r[j] = settings[at(j)]
    BY <1>2
  <2> QED BY <2>2, <2>3
<1>4. \A j, m \in 1 .. Len(r) : j # m => at(j) # at(m)
  OBVIOUS
<1> HIDE DEF at
<1>5. \A j, m \in 1 .. Len(r) : j # m => IdAt(r[j]) # IdAt(r[m])
  <2> TAKE j, m \in 1 .. Len(r)
  <2> HAVE j # m
  <2>1. at(j) # at(m) /\ at(j) \in 1 .. Len(settings) /\ at(m) \in 1 .. Len(settings)
    BY <1>3, <1>4
  <2>2. IdAt(settings[at(j)]) # IdAt(settings[at(m)])
    BY <1>0, <2>1
  <2> QED BY <1>3, <2>2
<1>6. \A j \in 1 .. Len(r) : IdAt(r[j]) # IdAt(settings[k]) /\ ~inst[r[j]].destroying
  BY <1>0, <1>3
<1> QED BY <1>2, <1>5, <1>6 DEF Distinct

\* Where the search of the registry stops.
LEMMA StopStops ==
  ASSUME SetupInv, NEW t \in SetupTables
  PROVE  \/ /\ Setup!Stop(t) = 0
            /\ \A k \in 1 .. Len(settings) : IdAt(settings[k]) # SetupIdOf[t]
         \/ /\ Setup!Stop(t) \in 1 .. Len(settings)
            /\ ~Setup!Throws(Setup!Stop(t), t) => IdAt(settings[Setup!Stop(t)]) = SetupIdOf[t]
<1> DEFINE found == { k \in DOMAIN settings : Setup!Same(k, t) \/ Setup!Throws(k, t) \/ Setup!SameId(k, t) }
<1>1. DOMAIN settings = 1 .. Len(settings) /\ Len(settings) \in Nat
  BY SetupParts
<1>2. Setup!Stop(t) = IF found = {} THEN 0 ELSE CHOOSE k \in found : \A j \in found : k <= j
  BY DEF Setup!Stop
<1>3. \A k \in found : k \in 1 .. Len(settings)
                       /\ (~Setup!Throws(k, t) => IdAt(settings[k]) = SetupIdOf[t])
  BY <1>1 DEF Setup!Same, Setup!SameId, IdAt
<1>4. \A k \in 1 .. Len(settings) : k \notin found => IdAt(settings[k]) # SetupIdOf[t]
  BY <1>1 DEF Setup!SameId, IdAt
<1>5. found \in SUBSET Nat
  BY <1>1
<1> HIDE DEF found
<1>6. CASE found = {}
  BY <1>2, <1>4, <1>6
<1>7. CASE found # {}
  <2>1. \E k \in found : \A j \in found : k <= j
    BY <1>5, <1>7, Least
  <2>2. Setup!Stop(t) \in found
    BY <1>2, <1>7, <2>1
  <2> QED BY <1>3, <2>2
<1> QED BY <1>6, <1>7

\* A settings object that is destroyed stays one.
LEMMA DestroyedObject ==
  ASSUME NEW s, Object(s), NEW d, d = [s EXCEPT !.destroying = TRUE]
  PROVE  Object(d) /\ d.table = s.table /\ d.waits = s.waits /\ d.complete = s.complete
<1>1. s \in Objects
  BY DEF Object
<1>2. /\ d \in Objects /\ d.table = s.table /\ d.opt = s.opt /\ d.start = s.start
      /\ d.initStart = s.initStart /\ d.ajaxStart = s.ajaxStart
      /\ d.initialised = s.initialised /\ d.inits = s.inits /\ d.complete = s.complete
      /\ d.rows = s.rows /\ d.loaded = s.loaded /\ d.early = s.early /\ d.waits = s.waits
  BY <1>1 DEF Objects
<1> QED BY <1>2 DEF Object, Untouched, HasRows, NoFile, WaitsForFile

LEMMA DestroyedParts ==
  ASSUME SetupInv, NEW i \in 1 .. Len(inst), NEW new, new = Setup!DestroyedBy(i)
  PROVE  /\ new \in Seq(Objects) /\ Len(new) = Len(inst)
         /\ \A j \in 1 .. Len(inst) : /\ Object(new[j]) /\ new[j].table = inst[j].table
                                      /\ new[j].waits = inst[j].waits
                                      /\ new[j].complete = inst[j].complete
                                      /\ j # i => new[j] = inst[j]
<1> DEFINE d == [inst[i] EXCEPT !.destroying = TRUE]
<1>0. inst \in Seq(Objects) /\ Object(inst[i]) /\ Len(inst) \in Nat
      /\ \A j \in 1 .. Len(inst) : Object(inst[j])
  BY SetupParts DEF SetupInv
<1>1. Object(d) /\ d.table = inst[i].table /\ d.waits = inst[i].waits
      /\ d.complete = inst[i].complete
  BY <1>0, DestroyedObject
<1>2. new = [inst EXCEPT ![i] = d]
  BY DEF Setup!DestroyedBy
<1> HIDE DEF d
<1>3. new \in Seq(Objects) /\ Len(new) = Len(inst) /\ new[i] = d
      /\ \A j \in 1 .. Len(inst) : j # i => new[j] = inst[j]
  BY <1>0, <1>1, <1>2 DEF Object
<1> QED BY <1>0, <1>1, <1>3

LEMMA DestroyKeeps ==
  ASSUME SetupInv, NEW i \in DOMAIN inst, Setup!Destroy(i)
  PROVE  SetupInv' /\ SetupSteps
<1>0. /\ Len(inst) \in Nat /\ i \in 1 .. Len(inst) /\ DOMAIN inst = 1 .. Len(inst)
      /\ DOMAIN settings = 1 .. Len(settings) /\ Len(settings) \in Nat
      /\ Distinct(settings) /\ Storage
      /\ bodies \in [SetupTables -> 1 .. Len(inst) \cup {Nil}]
      /\ inst[i] \in Objects
  BY SetupParts DEF SetupInv
<1>1. /\ inst' = Setup!DestroyedBy(i) /\ storage' = storage
      /\ bodies' = [bodies EXCEPT ![inst[i].table] = Nil]
      /\ settings' = IF Setup!Entries(i) = {} THEN settings
                     ELSE Setup!Cut(settings, CHOOSE k \in Setup!Entries(i) :
                                                     \A j \in Setup!Entries(i) : k <= j)
  BY DEF Setup!Destroy, Setup!Without
<1>2. /\ inst' \in Seq(Objects) /\ Len(inst') = Len(inst)
      /\ \A j \in 1 .. Len(inst) : /\ Object(inst'[j]) /\ inst'[j].table = inst[j].table
                                   /\ inst'[j].waits = inst[j].waits
                                   /\ inst'[j].complete = inst[j].complete
                                   /\ j # i => inst'[j] = inst[j]
  BY <1>0, <1>1, DestroyedParts
<1>3. Distinct(settings') /\ \A k \in 1 .. Len(settings') : settings'[k] # i
  <2> DEFINE E == Setup!Entries(i)
             p == CHOOSE k \in E : \A j \in E : k <= j
  <2>1. E \in SUBSET Nat /\ \A k : k \in E <=> k \in 1 .. Len(settings) /\ settings[k] = i
    BY <1>0 DEF Setup!Entries
  <2>2. settings' = IF E = {} THEN settings ELSE Setup!Cut(settings, p)
    BY <1>1
  <2> HIDE DEF E
  <2>3. CASE E = {}
    <3>1. settings' = settings
      BY <2>2, <2>3
    <3> QED BY <1>0, <2>1, <2>3, <3>1
  <2>4. CASE E # {}
    <3>1. \E k \in E : \A j \in E : k <= j
      BY <2>1, <2>4, Least
    <3>2. p \in E
      BY <3>1
    <3>3. settings' = Setup!Cut(settings, p)
      BY <2>2, <2>4
    <3> HIDE DEF p
    <3>4. p \in 1 .. Len(settings) /\ settings[p] = i
      BY <2>1, <3>2
    <3> QED BY <3>3, <3>4, OffRegistry
  <2> QED BY <2>3, <2>4
<1>4. Distinct(settings)'
  <2>1. \A k \in 1 .. Len(settings') : settings'[k] \in 1 .. Len(inst)
    BY <1>3 DEF Distinct
  <2>2. \A k \in 1 .. Len(settings') : inst'[settings'[k]] = inst[settings'[k]]
    BY <1>2, <1>3, <2>1
  <2>3. \A k \in 1 .. Len(settings') :
           SetupIdOf[inst'[settings'[k]].table] = IdAt(settings'[k])
    BY <2>2 DEF IdAt
  <2>4. \A j, k \in 1 .. Len(settings') :
           j # k => SetupIdOf[inst'[settings'[j]].table] # SetupIdOf[inst'[settings'[k]].table]
    BY <1>3, <2>3 DEF Distinct
  <2>5. settings' \in Seq(1 .. Len(inst')) /\ \A k \in 1 .. Len(settings') : ~inst'[settings'[k]].destroying
    BY <1>2, <1>3, <2>2 DEF Distinct
  <2> QED BY <2>4, <2>5 DEF Distinct, IdAt
<1>5. bodies' \in [SetupTables -> 1 .. Len(inst') \cup {Nil}] /\ Storage'
  BY <1>0, <1>1, <1>2 DEF Storage
<1>6. SetupInv'
  BY <1>2, <1>4, <1>5 DEF SetupInv
<1>7. Setup!SavedPageKept
  BY <1>0, <1>2 DEF Setup!SavedPageKept
<1>8. Setup!DestroyedSavesNothing
  BY <1>1 DEF Setup!DestroyedSavesNothing
<1> QED BY <1>6, <1>7, <1>8 DEF SetupSteps

LEMMA ConstructKeeps ==
  ASSUME SetupInv, NEW t \in SetupTables, NEW opt \in SetupOptions, NEW usable \in BOOLEAN,
         Setup!Construct(t, opt, usable)
  PROVE  SetupInv' /\ SetupSteps
<1> DEFINE k == Setup!Stop(t)
           old == IF k # 0 /\ Setup!Same(k, t) THEN Setup!DestroyedBy(settings[k]) ELSE inst
           w == Setup!Setup(Setup!New(t, opt), usable)
           r == Setup!Registry(t)
           n == Len(inst) + 1
<1>0. /\ Len(inst) \in Nat /\ DOMAIN inst = 1 .. Len(inst) /\ inst \in Seq(Objects)
      /\ DOMAIN settings = 1 .. Len(settings) /\ Len(settings) \in Nat
      /\ Distinct(settings) /\ Storage
      /\ bodies \in [SetupTables -> 1 .. Len(inst) \cup {Nil}]
      /\ \A j \in 1 .. Len(inst) : inst[j] \in Objects /\ Object(inst[j])
      /\ \A j \in 1 .. Len(settings) : settings[j] \in 1 .. Len(inst)
  BY SetupParts DEF SetupInv
<1>1. /\ Setup!Makes(t, opt)
      /\ inst' = Append(old, w.s) /\ settings' = Append(r, n)
      /\ bodies' = Setup!Bodies(w, n) /\ storage' = Setup!Stored(w)
  BY DEF Setup!Construct
<1>2. k # 0 => ~Setup!Throws(k, t)
  BY <1>1 DEF Setup!Makes
<1>3. r = IF k = 0 THEN settings ELSE Setup!Cut(settings, k)
  BY DEF Setup!Registry, Setup!Without
<1>4. /\ w \in Works /\ w.s \in Objects /\ Object(w.s) /\ w.s.table = t /\ ~w.s.destroying
      /\ w.s.complete => ShowsSaved(w.s)
  BY <1>0, SetupMakes DEF Object
<1>5. \/ k = 0 /\ \A j \in 1 .. Len(settings) : IdAt(settings[j]) # SetupIdOf[t]
      \/ k \in 1 .. Len(settings) /\ IdAt(settings[k]) = SetupIdOf[t]
  BY <1>2, StopStops
<1> HIDE DEF k, w, r
<1>6. /\ Distinct(r) /\ \A j \in 1 .. Len(r) : /\ IdAt(r[j]) # SetupIdOf[t]
                                               /\ k # 0 => r[j] # settings[k]
  <2>1. CASE k = 0
    <3>1. r = settings
      BY <1>3, <2>1
    <3> QED BY <1>0, <1>5, <2>1, <3>1
  <2>2. CASE k # 0
    <3>1. k \in 1 .. Len(settings) /\ IdAt(settings[k]) = SetupIdOf[t]
      BY <1>5, <2>2
    <3>2. r = Setup!Cut(settings, k)
      BY <1>3, <2>2
    <3> QED BY <3>1, <3>2, OffRegistry
  <2> QED BY <2>1, <2>2
<1>7. /\ old \in Seq(Objects) /\ Len(old) = Len(inst)
      /\ \A j \in 1 .. Len(inst) : /\ Object(old[j]) /\ old[j].table = inst[j].table
                                   /\ old[j].waits = inst[j].waits
                                   /\ old[j].complete = inst[j].complete
      /\ \A j \in 1 .. Len(r) : old[r[j]] = inst[r[j]]
  <2>0. \A j \in 1 .. Len(r) : r[j] \in 1 .. Len(inst)
    BY <1>6 DEF Distinct
  <2>1. CASE k # 0 /\ Setup!Same(k, t)
    <3>1. k \in 1 .. Len(settings) /\ settings[k] \in 1 .. Len(inst)
      BY <1>0, <1>5, <2>1
    <3>2. old = Setup!DestroyedBy(settings[k])
      BY <2>1
    <3> HIDE DEF old
    <3>3. /\ old \in Seq(Objects) /\ Len(old) = Len(inst)
          /\ \A j \in 1 .. Len(inst) : /\ Object(old[j]) /\ old[j].table = inst[j].table
                                       /\ old[j].waits = inst[j].waits
                                       /\ old[j].complete = inst[j].complete
                                       /\ j # settings[k] => old[j] = inst[j]
      BY <3>1, <3>2, DestroyedParts
    <3>4. \A j \in 1 .. Len(r) : old[r[j]] = inst[r[j]]
      BY <1>6, <2>0, <2>1, <3>3
    <3> QED BY <3>3, <3>4
  <2>2. CASE ~(k # 0 /\ Setup!Same(k, t))
    <3>1. old = inst
      BY <2>2
    <3> QED BY <1>0, <3>1
  <2> QED BY <2>1, <2>2
<1> HIDE DEF old
<1>8. /\ inst' \in Seq(Objects) /\ Len(inst') = Len(inst) + 1
      /\ inst'[n] = w.s /\ n \in 1 .. Len(inst')
      /\ \A j \in 1 .. Len(inst) : inst'[j] = old[j]
      /\ \A j \in 1 .. Len(inst') : j \in 1 .. Len(inst) \/ j = n
  BY <1>0, <1>1, <1>4, <1>7
<1>9. /\ r \in Seq(1 .. Len(inst)) /\ Len(r) \in Nat
      /\ \A j \in 1 .. Len(r) : r[j] \in 1 .. Len(inst)
  BY <1>6 DEF Distinct
<1>10. /\ settings' \in Seq(1 .. Len(inst')) /\ Len(settings') = Len(r) + 1
       /\ settings'[Len(r) + 1] = n
       /\ \A j \in 1 .. Len(r) : settings'[j] = r[j]
       /\ \A j \in 1 .. Len(settings') : j \in 1 .. Len(r) \/ j = Len(r) + 1
  <2>1. r \in Seq(1 .. Len(inst')) /\ n \in 1 .. Len(inst')
    BY <1>0, <1>8, <1>9
  <2> HIDE DEF n
  <2> QED BY <1>1, <1>9, <2>1
<1>11. \A j \in 1 .. Len(r) : IdAt(settings[j])' = IdAt(r[j]) /\ inst'[settings'[j]] = inst[r[j]]
  BY <1>7, <1>8, <1>9, <1>10 DEF IdAt
<1>12. SetupIdOf[inst'[settings'[Len(r) + 1]].table] = SetupIdOf[t]
       /\ ~inst'[settings'[Len(r) + 1]].destroying
  BY <1>4, <1>8, <1>10
<1>13. Distinct(settings)'
  <2>1. \A j \in 1 .. Len(r) : SetupIdOf[inst'[settings'[j]].table] = IdAt(r[j])
    BY <1>11 DEF IdAt
  <2>2. \A j, m \in 1 .. Len(settings') :
           j # m => SetupIdOf[inst'[settings'[j]].table] # SetupIdOf[inst'[settings'[m]].table]
    <3> TAKE j, m \in 1 .. Len(settings')
    <3> HAVE j # m
    <3>1. CASE j \in 1 .. Len(r) /\ m \in 1 .. Len(r)
      BY <3>1, <2>1, <1>6 DEF Distinct
    <3>2. CASE j \in 1 .. Len(r) /\ m = Len(r) + 1
      BY <3>2, <2>1, <1>6, <1>12
    <3>3. CASE j = Len(r) + 1 /\ m \in 1 .. Len(r)
      BY <3>3, <2>1, <1>6, <1>12
    <3> QED BY <3>1, <3>2, <3>3, <1>10
  <2>3. \A j \in 1 .. Len(settings') : ~inst'[settings'[j]].destroying
    <3> TAKE j \in 1 .. Len(settings')
    <3>1. CASE j \in 1 .. Len(r)
      BY <3>1, <1>11, <1>6 DEF Distinct
    <3>2. CASE j = Len(r) + 1
      BY <3>2, <1>12
    <3> QED BY <3>1, <3>2, <1>10
  <2> QED BY <1>10, <2>2, <2>3 DEF Distinct, IdAt
<1>14. bodies' \in [SetupTables -> 1 .. Len(inst') \cup {Nil}]
  <2>1. bodies' = bodies \/ bodies' = [bodies EXCEPT ![t] = n]
    BY <1>1, <1>4 DEF Setup!Bodies
  <2>2. \A x \in 1 .. Len(inst) : x \in 1 .. Len(inst')
    BY <1>0, <1>8
  <2> HIDE DEF n
  <2> QED BY <1>0, <1>8, <2>1, <2>2
<1>15. Storage'
  <2>1. storage' = [storage EXCEPT ![SetupIdOf[t]] = w.store]
    BY <1>1, <1>4 DEF Setup!Stored
  <2>2. w.store \in Nat \cup {Nil}
    BY <1>4, WorkParts
  <2> QED BY <1>0, <2>1, <2>2 DEF Storage
<1>16. \A j \in 1 .. Len(inst') : Object(inst'[j])
  BY <1>4, <1>7, <1>8
<1>17. SetupInv'
  BY <1>8, <1>13, <1>14, <1>15, <1>16 DEF SetupInv
<1>18. Setup!SavedPageKept
  <2> SUFFICES ASSUME NEW j \in DOMAIN inst', inst'[j].complete, j \in DOMAIN inst => ~inst[j].complete,
                      inst'[j].loaded # Nil, inst'[j].loaded < SetupRowCount, ~inst'[j].early
               PROVE  inst'[j].start = inst'[j].loaded
    BY DEF Setup!SavedPageKept
  <2>0. DOMAIN inst' = 1 .. Len(inst')
    BY <1>8
  <2>1. j = n
    BY <1>0, <1>7, <1>8, <2>0
  <2> QED BY <2>1, <1>4, <1>8 DEF ShowsSaved
<1>19. Setup!DestroyedSavesNothing
  <2> SUFFICES ASSUME NEW j \in DOMAIN inst, \E what \in inst[j].waits : what \notin inst'[j].waits
               PROVE  FALSE
    BY DEF Setup!DestroyedSavesNothing
  <2> QED BY <1>0, <1>7, <1>8
<1> QED BY <1>17, <1>18, <1>19 DEF SetupSteps

LEMMA SetupInit == Setup!Init => SetupInv
<1> SUFFICES ASSUME Setup!Init PROVE SetupInv
  OBVIOUS
<1>1. inst = <<>> /\ settings = <<>> /\ bodies = [t \in SetupTables |-> Nil]
      /\ storage = [id \in Setup!Ids |-> Nil]
  BY DEF Setup!Init
<1>2. inst \in Seq(Objects) /\ Len(inst) = 0 /\ settings \in Seq(1 .. Len(inst)) /\ Len(settings) = 0
  BY <1>1
<1>3. Storage /\ bodies \in [SetupTables -> 1 .. Len(inst) \cup {Nil}]
  BY <1>1 DEF Storage
<1> QED BY <1>2, <1>3 DEF SetupInv, Distinct

LEMMA SetupNext ==
  ASSUME SetupInv, Setup!Next
  PROVE  SetupInv' /\ SetupSteps
<1>0. Storage /\ \A i \in DOMAIN inst : Object(inst[i])
  BY SetupParts DEF SetupInv
<1>1. ASSUME NEW t \in SetupTables, NEW opt \in SetupOptions, NEW usable \in BOOLEAN,
             Setup!Construct(t, opt, usable)
      PROVE  SetupInv' /\ SetupSteps
  BY <1>1, ConstructKeeps
<1>2. ASSUME NEW i \in DOMAIN inst, Setup!Language(i) PROVE SetupInv' /\ SetupSteps
  <2> DEFINE v == Setup!Initialise(Setup!Work([inst[i] EXCEPT !.waits = inst[i].waits \ {"language"}]))
  <2>1. "language" \in inst[i].waits /\ Setup!Become(i, v) /\ settings' = settings
    BY <1>2 DEF Setup!Language, Setup!Waits, Setup!Done
  <2>2. After(v, inst[i])
    BY <1>0, <2>1, FileComes
  <2> HIDE DEF v
  <2> QED BY <2>1, <2>2, BecomeKeeps
<1>3. ASSUME NEW i \in DOMAIN inst, Setup!Timer(i) PROVE SetupInv' /\ SetupSteps
  <2> DEFINE v == Setup!Initialise(Setup!Work([inst[i] EXCEPT !.waits = inst[i].waits \ {"timer"}]))
  <2>1. "timer" \in inst[i].waits /\ Setup!Become(i, v) /\ settings' = settings
    BY <1>3 DEF Setup!Timer, Setup!Waits, Setup!Done
  <2>2. After(v, inst[i])
    BY <1>0, <2>1, FileComes
  <2> HIDE DEF v
  <2> QED BY <2>1, <2>2, BecomeKeeps
<1>4. ASSUME NEW i \in DOMAIN inst, Setup!Rows(i) PROVE SetupInv' /\ SetupSteps
  <2> DEFINE v == Arrived(inst[i])
  <2>1. "ajax" \in inst[i].waits /\ Setup!Become(i, v) /\ settings' = settings
    BY <1>4 DEF Setup!Rows, Setup!Waits, Setup!Done, Arrived, FirstDraw, Filled
  <2>2. After(v, inst[i])
    BY <1>0, <2>1, RowsCome
  <2> HIDE DEF v
  <2> QED BY <2>1, <2>2, BecomeKeeps
<1>5. ASSUME NEW i \in DOMAIN inst, Setup!Failed(i) PROVE SetupInv' /\ SetupSteps
  <2> DEFINE v == Setup!Work([inst[i] EXCEPT !.waits = inst[i].waits \ {"ajax"}])
  <2>1. "ajax" \in inst[i].waits /\ Setup!Become(i, v) /\ settings' = settings
    BY <1>5 DEF Setup!Failed, Setup!Waits, Setup!Done
  <2>2. After(v, inst[i])
    BY <1>0, <2>1, AjaxFails
  <2> HIDE DEF v
  <2> QED BY <2>1, <2>2, BecomeKeeps
<1>6. ASSUME NEW i \in DOMAIN inst, Setup!ApiDraw(i) PROVE SetupInv' /\ SetupSteps
  <2> DEFINE v == Setup!ReDraw(Setup!Work([inst[i] EXCEPT !.early = inst[i].early \/ ~inst[i].complete]))
  <2>1. ~inst[i].destroying /\ Setup!Become(i, v) /\ settings' = settings
    BY <1>6 DEF Setup!ApiDraw
  <2>2. After(v, inst[i])
    BY <1>0, <2>1, CallDraws
  <2> HIDE DEF v
  <2> QED BY <2>1, <2>2, BecomeKeeps
<1>7. ASSUME NEW i \in DOMAIN inst, Setup!Destroy(i) PROVE SetupInv' /\ SetupSteps
  BY <1>7, DestroyKeeps
<1>8. ASSUME NEW i \in DOMAIN inst, NEW usable \in BOOLEAN, Setup!StateLoaded(i, usable)
      PROVE SetupInv' /\ SetupSteps
  <2> DEFINE v == Setup!LoadState(Setup!Work([inst[i] EXCEPT !.waits = inst[i].waits \ {"state"}]), usable)
  <2>1. "state" \in inst[i].waits /\ Setup!Become(i, v) /\ settings' = settings
    BY <1>8 DEF Setup!StateLoaded, Setup!Waits, Setup!Done
  <2>2. After(v, inst[i])
    BY <1>0, <2>1, StateComes
  <2> HIDE DEF v
  <2> QED BY <2>1, <2>2, BecomeKeeps
<1>9. ASSUME NEW i \in DOMAIN inst, NEW start \in SetupStarts, Setup!Turn(i, start)
      PROVE SetupInv' /\ SetupSteps
  <2> DEFINE v == Setup!DrawOrRequest(Setup!Work([inst[i] EXCEPT !.start = start]))
  <2>1. inst[i].complete /\ ~inst[i].destroying /\ Setup!Become(i, v) /\ settings' = settings
    BY <1>9 DEF Setup!Turn
  <2>2. After(v, inst[i])
    BY <1>0, <2>1, TurnDraws
  <2> HIDE DEF v
  <2> QED BY <2>1, <2>2, BecomeKeeps
<1>10. ASSUME Setup!Leave PROVE SetupInv' /\ SetupSteps
  <2>1. inst' = <<>> /\ settings' = <<>> /\ bodies' = [t \in SetupTables |-> Nil]
        /\ storage' = storage
    BY <1>10 DEF Setup!Leave
  <2>2. /\ inst' \in Seq(Objects) /\ Len(inst') = 0 /\ settings' \in Seq(1 .. Len(inst'))
        /\ Len(settings') = 0
    BY <2>1
  <2>3. Storage' /\ bodies' \in [SetupTables -> 1 .. Len(inst') \cup {Nil}]
    BY <1>0, <2>1 DEF Storage
  <2>4. SetupInv'
    BY <2>2, <2>3 DEF SetupInv, Distinct
  <2>5. SetupSteps
    BY <2>1 DEF SetupSteps, Setup!SavedPageKept, Setup!DestroyedSavesNothing
  <2> QED BY <2>4, <2>5
<1> QED
  BY <1>1, <1>2, <1>3, <1>4, <1>5, <1>6, <1>7, <1>8, <1>9, <1>10 DEF Setup!Next

LEMMA SetupHolds ==
  ASSUME SetupInv
  PROVE  Setup!BuiltOnce /\ Setup!RegistryUnique /\ Setup!TypeOK
<1>0. /\ DOMAIN inst = 1 .. Len(inst) /\ DOMAIN settings = 1 .. Len(settings)
      /\ \A i \in 1 .. Len(inst) : inst[i] \in Objects /\ Object(inst[i])
      /\ Distinct(settings) /\ bodies \in [SetupTables -> 1 .. Len(inst) \cup {Nil}]
  BY SetupParts DEF SetupInv
<1>1. Setup!BuiltOnce
  <2> SUFFICES ASSUME NEW i \in DOMAIN inst
               PROVE  inst[i].inits <= 1 /\ (inst[i].inits = 0 => inst[i].waits # {})
    BY DEF Setup!BuiltOnce
  <2>1. inst[i].inits \in {0, 1}
    BY <1>0 DEF Objects
  <2>2. inst[i].inits = 0 => inst[i].waits # {}
    BY <1>0 DEF Object, WaitsForFile, NoFile
  <2> QED BY <2>1, <2>2
<1>2. Setup!RegistryUnique
  BY <1>0 DEF Setup!RegistryUnique, Setup!SameId, Distinct, IdAt
<1>3. Setup!TypeOK
  BY <1>0 DEF Setup!TypeOK, Objects, Calls, Distinct
<1> QED BY <1>1, <1>2, <1>3

(***************************************************************************)
(* The options: names, and the definitions laid over each other.           *)
(***************************************************************************)

\* Objects of options, and lists of columns.
Keys == Options!Keys
Bags == [Keys -> OptionsValues \cup {Nil, OptionsDefault}]
ColumnLists == Seq(Bags)
Definitions == [target : OptionsTargets, opts : Options!Objects]

LEMMA NamesOf ==
  ASSUME NEW n \in OptionsNames
  PROVE  /\ n.new \in Keys /\ n.old \in Keys /\ n.new # n.old
         /\ Options!NameOf(n.new) = n /\ Options!NameOf(n.old) = n
<1>1. \A m \in OptionsNames : n.new \in {m.new, m.old} => m = n
  BY OptionsAssumption
<1>2. \A m \in OptionsNames : n.old \in {m.new, m.old} => m = n
  BY OptionsAssumption
<1> QED
  BY <1>1, <1>2, OptionsAssumption DEF Keys, Options!Keys, Options!NameOf

\* Every key is a name of one option.
LEMMA KeyCases ==
  ASSUME NEW k \in Keys
  PROVE  Options!NameOf(k) \in OptionsNames
         /\ k \in {Options!NameOf(k).new, Options!NameOf(k).old}
<1>1. \E m \in OptionsNames : k \in {m.new, m.old}
  BY DEF Keys, Options!Keys
<1> QED
  BY <1>1 DEF Options!NameOf

\* The new name stays; the old one of an option that is brought over follows it.
LEMMA NormalGives ==
  ASSUME NEW obj \in Options!Objects, NEW norm, norm = Options!Normal(obj)
  PROVE  /\ norm \in Options!Objects
         /\ \A n \in OptionsNames :
              /\ norm[n.new] = obj[n.new]
              /\ n \in OptionsCompat /\ obj[n.new] # Nil => norm[n.old] = obj[n.new]
<1> DEFINE c == Options!CompatMap(obj)
<1>1. /\ \A k \in Keys : c[k] = IF /\ k = Options!NameOf(k).old /\ Options!NameOf(k) \in OptionsCompat
                                   /\ obj[Options!NameOf(k).new] # Nil
                                THEN obj[Options!NameOf(k).new] ELSE obj[k]
  BY DEF Keys, Options!CompatMap
<1>2. \A k \in Keys : norm[k] = IF k = Options!NameOf(k).old /\ c[k] = Nil
                                THEN c[Options!NameOf(k).new] ELSE c[k]
  BY DEF Keys, Options!Normal, Options!CamelToHungarian
<1>3. norm = [k \in Keys |-> norm[k]]
  BY DEF Keys, Options!Normal, Options!CamelToHungarian
<1>4. obj \in [Keys -> OptionsValues \cup {Nil}]
  BY DEF Keys, Options!Objects
<1> HIDE DEF c
<1>5. \A k \in Keys : c[k] \in OptionsValues \cup {Nil}
  <2> TAKE k \in Keys
  <2>1. Options!NameOf(k).new \in Keys
    BY KeyCases, NamesOf
  <2> QED BY <2>1, <1>1, <1>4
<1>6. \A k \in Keys : norm[k] \in OptionsValues \cup {Nil}
  <2> TAKE k \in Keys
  <2>1. Options!NameOf(k).new \in Keys
    BY KeyCases, NamesOf
  <2> QED BY <2>1, <1>2, <1>5
<1>7. norm \in Options!Objects
  BY <1>3, <1>6 DEF Keys, Options!Objects
<1>8. ASSUME NEW n \in OptionsNames
      PROVE  /\ norm[n.new] = obj[n.new]
             /\ n \in OptionsCompat /\ obj[n.new] # Nil => norm[n.old] = obj[n.new]
  <2>1. /\ n.new \in Keys /\ n.old \in Keys /\ n.new # n.old
        /\ Options!NameOf(n.new) = n /\ Options!NameOf(n.old) = n
    BY NamesOf
  <2> QED BY <2>1, <1>1, <1>2
<1> QED BY <1>7, <1>8

\* A definition is laid over the columns it is for; others are added at most.
LEMMA LayExtends ==
  ASSUME NEW cols \in ColumnLists, NEW def \in Definitions, NEW w, w = Options!Lay(cols, def)
  PROVE  /\ w \in ColumnLists /\ Len(w) >= Len(cols)
         /\ Len(w) = Len(cols) =>
              \A i \in 1 .. Len(cols), k \in Keys :
                w[i][k] = IF i \in Options!Hit(cols, def.target) /\ Options!Normal(def.opts)[k] # Nil
                          THEN Options!Normal(def.opts)[k] ELSE cols[i][k]
<1> DEFINE wide == Options!Wide(cols, def.target)
           norm == Options!Normal(def.opts)
<1>1. norm \in [Keys -> OptionsValues \cup {Nil}]
  <2>1. def.opts \in Options!Objects
    BY DEF Definitions
  <2>2. norm \in Options!Objects
    BY <2>1, NormalGives
  <2> QED BY <2>2 DEF Keys, Options!Objects
<1>2. Len(cols) \in Nat /\ DOMAIN cols = 1 .. Len(cols)
      /\ \A i \in 1 .. Len(cols) : cols[i] \in Bags
  BY DEF ColumnLists
<1>3. Options!NewColumn \in Bags
  BY DEF Options!NewColumn, Bags, Keys
<1>4. wide \in ColumnLists /\ Len(wide) >= Len(cols)
      /\ (Len(wide) = Len(cols) => wide = cols)
  <2>1. CASE def.target.kind = "number" /\ def.target.n >= 0
    <3>1. def.target.n + 1 \in Int
      BY <2>1, OptionsAssumption DEF Definitions
    <3> DEFINE n == def.target.n + 1
               m == IF Len(cols) >= n THEN Len(cols) ELSE n
    <3>2. m \in Nat /\ m >= Len(cols)
      BY <3>1, <1>2
    <3>3. wide = [i \in 1 .. m |-> IF i <= Len(cols) THEN cols[i] ELSE Options!NewColumn]
      BY <2>1 DEF Options!Wide, Options!Grown
    <3> HIDE DEF m, wide
    <3>4. \A i \in 1 .. m : (IF i <= Len(cols) THEN cols[i] ELSE Options!NewColumn) \in Bags
      BY <3>2, <1>2, <1>3
    <3>5. wide \in [1 .. m -> Bags]
      BY <3>3, <3>4
    <3>6. wide \in Seq(Bags) /\ Len(wide) = m
      BY <3>2, <3>5
    <3>7. Len(wide) = Len(cols) => wide = cols
      <4> SUFFICES ASSUME m = Len(cols) PROVE wide = cols
        BY <3>6
      <4>1. \A i \in 1 .. m : wide[i] = cols[i]
        BY <3>3, <1>2
      <4> QED BY <4>1, <3>5, <1>2 DEF ColumnLists
    <3> QED BY <3>2, <3>6, <3>7 DEF ColumnLists
  <2>2. CASE ~(def.target.kind = "number" /\ def.target.n >= 0)
    BY <2>2, <1>2 DEF Options!Wide
  <2> QED BY <2>1, <2>2
<1> DEFINE H == Options!Hit(wide, def.target)
<1>5. w = [i \in DOMAIN wide |-> IF i \in H THEN Options!Extend(wide[i], norm) ELSE wide[i]]
  BY DEF Options!Lay
<1>6. Len(wide) = Len(cols) => H = Options!Hit(cols, def.target)
  BY <1>4
<1> HIDE DEF wide, norm, H
<1>7. DOMAIN wide = 1 .. Len(wide) /\ Len(wide) \in Nat /\ \A i \in 1 .. Len(wide) : wide[i] \in Bags
  BY <1>4 DEF ColumnLists
<1>8. \A i \in 1 .. Len(wide), k \in Keys :
        Options!Extend(wide[i], norm)[k] = IF norm[k] # Nil THEN norm[k] ELSE wide[i][k]
  BY <1>7 DEF Options!Extend, Bags
<1>9. \A i \in 1 .. Len(wide) : Options!Extend(wide[i], norm) \in Bags
  BY <1>1, <1>7 DEF Options!Extend, Bags
<1>10. w \in [1 .. Len(wide) -> Bags]
  BY <1>5, <1>7, <1>9
<1>11. w \in ColumnLists /\ Len(w) = Len(wide)
  BY <1>7, <1>10 DEF ColumnLists
<1>12. ASSUME Len(w) = Len(cols), NEW i \in 1 .. Len(cols), NEW k \in Keys
       PROVE  w[i][k] = IF i \in Options!Hit(cols, def.target) /\ norm[k] # Nil
                        THEN norm[k] ELSE cols[i][k]
  <2>1. wide = cols /\ H = Options!Hit(cols, def.target)
    BY <1>12, <1>4, <1>6, <1>11
  <2>2. w[i] = IF i \in H THEN Options!Extend(wide[i], norm) ELSE wide[i]
    BY <2>1, <1>5, <1>7
  <2> QED BY <2>1, <2>2, <1>8
<1> QED BY <1>4, <1>11, <1>12 DEF norm

\* Definition e of ds has option k for column i; it is the last to have it up to d.
Giver(cols, ds, e, i, k) ==
  i \in Options!Hit(cols, ds[e].target) /\ Options!Normal(ds[e].opts)[k] # Nil
LastGiver(cols, ds, d, e, i, k) ==
  Giver(cols, ds, e, i, k) /\ \A g \in 1 .. d : Giver(cols, ds, g, i, k) => g <= e
LaidOver(w, cols, ds, d) ==
  \A i \in 1 .. Len(cols), k \in Keys :
    \/ \E e \in 1 .. d : /\ LastGiver(cols, ds, d, e, i, k)
                         /\ w[i][k] = Options!Normal(ds[e].opts)[k]
    \/ (\A e \in 1 .. d : ~Giver(cols, ds, e, i, k)) /\ w[i][k] = cols[i][k]

LaysOn(w, h, cols, ds, d) ==
  \A i \in 1 .. Len(cols), k \in Keys :
    w[i][k] = IF Giver(cols, ds, d, i, k) THEN Options!Normal(ds[d].opts)[k] ELSE h[i][k]

LEMMA LaidNext ==
  ASSUME NEW cols, NEW ds, NEW d \in Nat, NEW h, NEW w, LaidOver(h, cols, ds, d),
         LaysOn(w, h, cols, ds, d + 1)
  PROVE  LaidOver(w, cols, ds, d + 1)
<1> SUFFICES ASSUME NEW i \in 1 .. Len(cols), NEW k \in Keys
             PROVE  \/ \E e \in 1 .. d + 1 : /\ LastGiver(cols, ds, d + 1, e, i, k)
                                             /\ w[i][k] = Options!Normal(ds[e].opts)[k]
                    \/ /\ \A e \in 1 .. d + 1 : ~Giver(cols, ds, e, i, k)
                       /\ w[i][k] = cols[i][k]
  BY DEF LaidOver
<1>w. w[i][k] = IF Giver(cols, ds, d + 1, i, k)
               THEN Options!Normal(ds[d + 1].opts)[k] ELSE h[i][k]
  BY DEF LaysOn
<1>0. \A e \in 1 .. d + 1 : e \in 1 .. d \/ e = d + 1
  OBVIOUS
<1>1. CASE Giver(cols, ds, d + 1, i, k)
  <2>1. \A g \in 1 .. d + 1 : g <= d + 1
    OBVIOUS
  <2>2. d + 1 \in 1 .. d + 1
    OBVIOUS
  <2>3. LastGiver(cols, ds, d + 1, d + 1, i, k)
    BY <1>1, <2>1 DEF LastGiver
  <2> QED BY <1>1, <1>w, <2>2, <2>3
<1>2. CASE ~Giver(cols, ds, d + 1, i, k)
  <2>1. w[i][k] = h[i][k]
    BY <1>2, <1>w
  <2>2. CASE \E e \in 1 .. d : LastGiver(cols, ds, d, e, i, k)
                                /\ h[i][k] = Options!Normal(ds[e].opts)[k]
    <3>1. PICK e \in 1 .. d : LastGiver(cols, ds, d, e, i, k)
                              /\ h[i][k] = Options!Normal(ds[e].opts)[k]
      BY <2>2
    <3>2. LastGiver(cols, ds, d + 1, e, i, k) /\ e \in 1 .. d + 1
      BY <3>1, <1>0, <1>2 DEF LastGiver
    <3> QED BY <2>1, <3>1, <3>2
  <2>3. CASE (\A e \in 1 .. d : ~Giver(cols, ds, e, i, k)) /\ h[i][k] = cols[i][k]
    BY <1>0, <1>2, <2>1, <2>3
  <2> QED BY <2>2, <2>3 DEF LaidOver
<1> QED BY <1>1, <1>2

\* The definitions laid one after the other: the last to have an option counts.
LEMMA LaidAll ==
  ASSUME NEW cols \in ColumnLists, NEW ds \in Seq(Definitions), NEW w, w = Options!LayAll(cols, ds)
  PROVE  /\ w \in ColumnLists /\ Len(w) >= Len(cols)
         /\ Len(w) = Len(cols) => LaidOver(w, cols, ds, Len(ds))
<1> DEFINE size == Len(ds)
           Good(b) == b = [d \in 0 .. size |-> IF d = 0 THEN cols
                                               ELSE Options!Lay(b[d - 1], ds[d])]
           laid == CHOOSE b : Good(b)
           do == [d \in 1 .. size |-> [c \in ColumnLists |-> Options!Lay(c, ds[d])]]
<1>0. size \in Nat /\ \A d \in 1 .. size : ds[d] \in Definitions
  OBVIOUS
<1>r. /\ 0 \in 0 .. size /\ \A d \in 0 .. size : d = 0 \/ d \in 1 .. size
      /\ \A d \in 1 .. size : d # 0 /\ d \in 0 .. size /\ d - 1 \in 0 .. size
  <2> HIDE DEF size
  <2> QED BY <1>0
<1>1. w = laid[size]
  BY DEF Options!LayAll
<1>2. do \in [1 .. size -> [ColumnLists -> ColumnLists]]
  <2> HIDE DEF size
  <2> SUFFICES ASSUME NEW d \in 1 .. size, NEW c \in ColumnLists
               PROVE Options!Lay(c, ds[d]) \in ColumnLists
    OBVIOUS
  <2>1. ds[d] \in Definitions
    BY <1>0
  <2> QED BY <2>1, LayExtends
<1>3. PICK b : Loops(b, cols, size, do) /\ \A d \in 0 .. size : b[d] \in ColumnLists
  <2> HIDE DEF do, size
  <2> QED BY <1>0, <1>2, Loop
<1>4. Good(b)
  <2> HIDE DEF size
  <2>1. b = [d \in 0 .. size |-> b[d]] /\ b[0] = cols
        /\ \A d \in 1 .. size : b[d] = do[d][b[d - 1]]
    BY <1>3 DEF Loops
  <2>2. \A d \in 1 .. size : b[d] = Options!Lay(b[d - 1], ds[d])
    BY <2>1, <1>3, <1>r
  <2>3. \A d \in 0 .. size : b[d] = IF d = 0 THEN cols ELSE Options!Lay(b[d - 1], ds[d])
    BY <2>1, <2>2, <1>r
  <2> QED BY <2>1, <2>3
<1>5. Good(laid)
  <2> HIDE DEF Good
  <2> QED BY <1>4
<1>6. laid[0] = cols /\ \A d \in 1 .. size : laid[d] = Options!Lay(laid[d - 1], ds[d])
  <2> HIDE DEF laid, size
  <2>1. \A d \in 0 .. size : laid[d] = IF d = 0 THEN cols ELSE Options!Lay(laid[d - 1], ds[d])
    BY <1>5
  <2> QED BY <1>r, <2>1
<1> DEFINE Done(d) == /\ laid[d] \in ColumnLists /\ Len(laid[d]) >= Len(cols)
                      /\ Len(laid[d]) = Len(cols) => LaidOver(laid[d], cols, ds, d)
           T == { d \in 0 .. size : Done(d) }
<1> HIDE DEF laid, Good, do, size
<1>l. Len(cols) \in Nat
  BY DEF ColumnLists
<1>7. 0 \in T
  <2>1. \A e \in 1 .. 0 : ~TRUE
    OBVIOUS
  <2>2. LaidOver(cols, cols, ds, 0)
    BY <2>1 DEF LaidOver
  <2> QED BY <1>6, <1>r, <1>l, <2>2
<1>8. ASSUME NEW d \in 1 .. size, d - 1 \in T PROVE d \in T
  <2> DEFINE h == laid[d - 1]
             def == ds[d]
             v == laid[d]
  <2>1. v = Options!Lay(h, def) /\ d \in 0 .. size /\ def \in Definitions
    BY <1>0, <1>6, <1>r
  <2>2. h \in ColumnLists /\ Len(h) >= Len(cols)
        /\ (Len(h) = Len(cols) => LaidOver(h, cols, ds, d - 1))
    BY <1>8
  <2>n. d - 1 \in Nat /\ (d - 1) + 1 = d
    BY <1>0
  <2> SUFFICES v \in ColumnLists /\ Len(v) >= Len(cols)
               /\ (Len(v) = Len(cols) => LaidOver(v, cols, ds, d))
    BY <2>1
  <2> HIDE DEF h, def, v, T
  <2>3. /\ v \in ColumnLists /\ Len(v) >= Len(h)
        /\ Len(v) = Len(h) =>
             \A i \in 1 .. Len(h), k \in Keys :
                v[i][k] = IF i \in Options!Hit(h, def.target) /\ Options!Normal(def.opts)[k] # Nil
                          THEN Options!Normal(def.opts)[k] ELSE h[i][k]
    BY <2>1, <2>2, LayExtends
  <2>4. Len(v) \in Nat /\ Len(h) \in Nat
    BY <2>2, <2>3 DEF ColumnLists
  <2>5. ASSUME Len(v) = Len(cols) PROVE LaidOver(v, cols, ds, d)
    <3>1. Len(h) = Len(cols) /\ Len(v) = Len(h)
      BY <2>5, <2>2, <2>3, <2>4, <1>l
    <3>2. DOMAIN h = DOMAIN cols
      BY <3>1, <2>2 DEF ColumnLists
    <3>3. Options!Hit(h, def.target) = Options!Hit(cols, def.target)
      BY <3>1, <3>2 DEF Options!Hit
    <3>4. LaysOn(v, h, cols, ds, (d - 1) + 1)
      BY <3>1, <3>3, <2>3, <2>n DEF LaysOn, Giver, def
    <3>5. LaidOver(h, cols, ds, d - 1)
      BY <3>1, <2>2
    <3>6. LaidOver(v, cols, ds, (d - 1) + 1)
      BY <3>4, <3>5, <2>n, LaidNext
    <3> QED BY <3>6, <2>n
  <2> QED BY <2>2, <2>3, <2>4, <2>5, <1>l
<1>9. size \in T
  <2> HIDE DEF T
  <2> QED BY <1>0, <1>7, <1>8, Counted
<1> QED BY <1>1, <1>9 DEF size

NewColumns == [i \in OptionsHeadings |-> Options!NewColumn]

LEMMA Headings ==
  \E h \in Nat : /\ OptionsHeadings = 1 .. h /\ Options!Cardinality(OptionsHeadings) = h
                 /\ NewColumns \in ColumnLists /\ Len(NewColumns) = h
<1> DEFINE h == Cardinality(OptionsHeadings)
<1>1. h \in Nat /\ OptionsHeadings = 1 .. h
  BY OptionsAssumption, FS_CardinalityType
<1>3. Options!Cardinality(OptionsHeadings) = h
  BY Zenon DEF Options!Cardinality, Cardinality
<1> HIDE DEF h
<1>4. Options!NewColumn \in Bags
  BY DEF Options!NewColumn, Bags, Keys
<1>5. NewColumns \in [1 .. h -> Bags]
  BY <1>1, <1>4 DEF NewColumns
<1>6. NewColumns \in ColumnLists /\ Len(NewColumns) = h
  BY <1>1, <1>5 DEF ColumnLists
<1> QED BY <1>1, <1>3, <1>6

LEMMA BackwardsTyped ==
  ASSUME NEW ds \in Seq(Definitions), NEW b, b = Options!Backwards(ds)
  PROVE  /\ b \in Seq(Definitions) /\ Len(b) = Len(ds)
         /\ \A d \in 1 .. Len(ds) : b[d] = ds[Len(ds) + 1 - d]
<1>1. Len(ds) \in Nat /\ DOMAIN ds = 1 .. Len(ds)
  OBVIOUS
<1>2. b = [d \in 1 .. Len(ds) |-> ds[Len(ds) + 1 - d]]
  BY <1>1 DEF Options!Backwards
<1>3. \A d \in 1 .. Len(ds) : Len(ds) + 1 - d \in 1 .. Len(ds)
  BY <1>1
<1>4. b \in [1 .. Len(ds) -> Definitions]
  BY <1>2, <1>3
<1>5. b \in Seq(Definitions) /\ Len(b) = Len(ds)
  BY <1>1, <1>4
<1> QED BY <1>2, <1>5

\* The options a column has of definitions, read from the first.
First(cols, ds, d, i, k) ==
  Giver(cols, ds, d, i, k) /\ \A e \in 1 .. Len(ds) : Giver(cols, ds, e, i, k) => d <= e
FirstCounts(w, ds) ==
  \A i \in OptionsHeadings, k \in Keys :
    \/ \E d \in 1 .. Len(ds) : /\ First(NewColumns, ds, d, i, k)
                               /\ w[i][k] = Options!Normal(ds[d].opts)[k]
    \/ /\ \A d \in 1 .. Len(ds) : ~Giver(NewColumns, ds, d, i, k)
       /\ w[i][k] = Options!NewColumn[k]

LEMMA LaidBackwards ==
  ASSUME NEW ds \in Seq(Definitions), NEW w, w = Options!LayAll(NewColumns, Options!Backwards(ds))
  PROVE  /\ w \in ColumnLists /\ OptionsHeadings \subseteq DOMAIN w
         /\ Len(w) = Options!Cardinality(OptionsHeadings) => FirstCounts(w, ds)
<1> DEFINE b == Options!Backwards(ds)
           size == Len(ds)
<1>1. PICK h \in Nat : /\ OptionsHeadings = 1 .. h /\ Options!Cardinality(OptionsHeadings) = h
                       /\ NewColumns \in ColumnLists /\ Len(NewColumns) = h
  BY Headings
<1>2. b \in Seq(Definitions) /\ Len(b) = size /\ \A d \in 1 .. size : b[d] = ds[size + 1 - d]
  BY BackwardsTyped
<1>3. size \in Nat /\ \A d \in 1 .. size : /\ size + 1 - d \in 1 .. size
                                           /\ size + 1 - (size + 1 - d) = d
  OBVIOUS
<1> HIDE DEF b, size
<1>4. /\ w \in ColumnLists /\ Len(w) >= h
      /\ Len(w) = h => LaidOver(w, NewColumns, b, size)
  BY <1>1, <1>2, LaidAll DEF b
<1>5. OptionsHeadings \subseteq DOMAIN w
  <2>1. DOMAIN w = 1 .. Len(w) /\ Len(w) \in Nat
    BY <1>4 DEF ColumnLists
  <2>2. \A i \in 1 .. h : i \in 1 .. Len(w)
    <3> DEFINE l == Len(w)
    <3>1. l \in Nat /\ l >= h
      BY <2>1, <1>4
    <3> HIDE DEF l
    <3>2. \A i \in 1 .. h : i \in 1 .. l
      BY <3>1
    <3> QED BY <3>2 DEF l
  <2> QED BY <2>1, <2>2, <1>1
<1>6. ASSUME Len(w) = h, NEW i \in OptionsHeadings, NEW k \in Keys
      PROVE  \/ \E d \in 1 .. size : /\ First(NewColumns, ds, d, i, k)
                                     /\ w[i][k] = Options!Normal(ds[d].opts)[k]
             \/ /\ \A d \in 1 .. size : ~Giver(NewColumns, ds, d, i, k)
                /\ w[i][k] = Options!NewColumn[k]
  <2>0. i \in 1 .. Len(NewColumns) /\ NewColumns[i] = Options!NewColumn
    BY <1>1 DEF NewColumns
  <2>g. \A d \in 1 .. size : Giver(NewColumns, b, d, i, k) <=> Giver(NewColumns, ds, size + 1 - d, i, k)
    BY <1>2 DEF Giver
  <2>1. \/ \E e \in 1 .. size : /\ LastGiver(NewColumns, b, size, e, i, k)
                                /\ w[i][k] = Options!Normal(b[e].opts)[k]
        \/ (\A e \in 1 .. size : ~Giver(NewColumns, b, e, i, k)) /\ w[i][k] = NewColumns[i][k]
    BY <1>6, <1>4, <2>0 DEF LaidOver
  <2>2. CASE \E e \in 1 .. size : /\ LastGiver(NewColumns, b, size, e, i, k)
                                  /\ w[i][k] = Options!Normal(b[e].opts)[k]
    <3>1. PICK e \in 1 .. size : /\ LastGiver(NewColumns, b, size, e, i, k)
                                 /\ w[i][k] = Options!Normal(b[e].opts)[k]
      BY <2>2
    <3> DEFINE d == size + 1 - e
    <3>2. d \in 1 .. size /\ b[e] = ds[d] /\ Giver(NewColumns, ds, d, i, k)
      BY <3>1, <1>2, <1>3, <2>g DEF LastGiver
    <3>3. ASSUME NEW x \in 1 .. size, Giver(NewColumns, ds, x, i, k) PROVE d <= x
      <4>1. size + 1 - x \in 1 .. size /\ size + 1 - (size + 1 - x) = x
        BY <1>3
      <4>2. Giver(NewColumns, b, size + 1 - x, i, k)
        BY <4>1, <3>3, <2>g
      <4>3. size + 1 - x <= e
        BY <4>1, <4>2, <3>1 DEF LastGiver
      <4> QED BY <4>3, <1>3
    <3> HIDE DEF d
    <3>4. First(NewColumns, ds, d, i, k)
      BY <3>2, <3>3 DEF First, size
    <3> QED BY <3>1, <3>2, <3>4
  <2>3. CASE (\A e \in 1 .. size : ~Giver(NewColumns, b, e, i, k)) /\ w[i][k] = NewColumns[i][k]
    <3>1. ASSUME NEW d \in 1 .. size PROVE ~Giver(NewColumns, ds, d, i, k)
      <4>1. size + 1 - d \in 1 .. size /\ size + 1 - (size + 1 - d) = d
        BY <1>3
      <4> QED BY <4>1, <2>3, <2>g
    <3> QED BY <3>1, <2>0, <2>3
  <2> QED BY <2>1, <2>2, <2>3
<1> QED BY <1>1, <1>4, <1>5, <1>6 DEF FirstCounts, size

\* Then the columns' own options.
LEMMA OwnLaid ==
  ASSUME NEW laid \in ColumnLists, OptionsHeadings \subseteq DOMAIN laid,
         NEW o \in [OptionsHeadings -> Options!Objects], NEW w, w = Options!LayOwn(laid, o)
  PROVE  /\ w \in ColumnLists /\ Len(w) = Len(laid)
         /\ \A i \in OptionsHeadings, k \in Keys :
              w[i][k] = IF Options!Normal(o[i])[k] # Nil THEN Options!Normal(o[i])[k]
                        ELSE laid[i][k]
<1>1. DOMAIN laid = 1 .. Len(laid) /\ Len(laid) \in Nat
      /\ \A i \in 1 .. Len(laid) : laid[i] \in Bags
  BY DEF ColumnLists
<1>2. ASSUME NEW i \in OptionsHeadings
      PROVE  /\ Options!Extend(laid[i], Options!Normal(o[i])) \in Bags
             /\ \A k \in Keys : Options!Extend(laid[i], Options!Normal(o[i]))[k] =
                  IF Options!Normal(o[i])[k] # Nil THEN Options!Normal(o[i])[k] ELSE laid[i][k]
  <2> DEFINE norm == Options!Normal(o[i])
  <2>1. o[i] \in Options!Objects
    OBVIOUS
  <2>2. norm \in Options!Objects
    BY <2>1, NormalGives
  <2> HIDE DEF norm
  <2>3. norm \in [Keys -> OptionsValues \cup {Nil}] /\ laid[i] \in Bags
    BY <2>2, <1>1 DEF Options!Objects, Keys
  <2>4. /\ Options!Extend(laid[i], norm) \in Bags
        /\ \A k \in Keys : Options!Extend(laid[i], norm)[k] =
             IF norm[k] # Nil THEN norm[k] ELSE laid[i][k]
    BY <2>3 DEF Options!Extend, Bags
  <2> QED BY <2>4 DEF norm
<1>3. w = [i \in 1 .. Len(laid) |-> IF i \in OptionsHeadings
                                    THEN Options!Extend(laid[i], Options!Normal(o[i])) ELSE laid[i]]
  BY <1>1 DEF Options!LayOwn
<1>4. \A i \in 1 .. Len(laid) : (IF i \in OptionsHeadings
         THEN Options!Extend(laid[i], Options!Normal(o[i])) ELSE laid[i]) \in Bags
  BY <1>1, <1>2
<1>5. w \in [1 .. Len(laid) -> Bags]
  BY <1>3, <1>4
<1>6. w \in ColumnLists /\ Len(w) = Len(laid)
  BY <1>1, <1>5 DEF ColumnLists
<1>7. \A i \in OptionsHeadings : w[i] = Options!Extend(laid[i], Options!Normal(o[i]))
  BY <1>1, <1>3
<1> QED BY <1>2, <1>6, <1>7

OptionVars == <<defs, own, columns, written, writes, made>>

\* The objects of the caller, and where in them the last value was written.
IsWritten(w) ==
  /\ w.at \in Int /\ w.name \in OptionsNames /\ w.key \in {w.name.new, w.name.old}
  /\ w.value \in OptionsValues
  /\ w.at \in DOMAIN defs \/ -w.at \in OptionsHeadings
ObjectAt(at) == IF at > 0 THEN defs[at].opts ELSE own[-at]
NewWritten == written # Nil /\ written.key = written.name.new /\ written.name \in OptionsCompat
OptionsTyped ==
  /\ defs \in [1 .. OptionsMaxDefs -> Definitions]
  /\ own \in [OptionsHeadings -> Options!Objects]
  /\ columns \in ColumnLists
  /\ written # Nil => IsWritten(written)
WrittenStands ==
  NewWritten => /\ ObjectAt(written.at)[written.name.new] = written.value
                /\ made => ObjectAt(written.at)[written.name.old] = written.value
OptionsInv == OptionsTyped /\ WrittenStands /\ Options!Precedence

LEMMA OptionsInitially ==
  ASSUME Options!Init PROVE OptionsInv
<1>1. Options!NoOptions \in Options!Objects
  BY DEF Options!NoOptions, Options!Objects
<1>2. PICK ts \in [1 .. OptionsMaxDefs -> OptionsTargets] :
        defs = [d \in 1 .. OptionsMaxDefs |-> [target |-> ts[d], opts |-> Options!NoOptions]]
  BY DEF Options!Init
<1>3. \A d \in 1 .. OptionsMaxDefs : [target |-> ts[d], opts |-> Options!NoOptions] \in Definitions
  BY <1>1, <1>2 DEF Definitions
<1>4. defs \in [1 .. OptionsMaxDefs -> Definitions]
  BY <1>2, <1>3
<1>5. own \in [OptionsHeadings -> Options!Objects] /\ written = Nil /\ made = FALSE
  BY <1>1 DEF Options!Init
<1>6. columns \in ColumnLists
  BY DEF Options!Init, ColumnLists
<1> QED BY <1>4, <1>5, <1>6 DEF OptionsInv, OptionsTyped, WrittenStands, NewWritten, Options!Precedence

\* What the caller writes is of its object and no other option of it.
LEMMA OptionWritten ==
  ASSUME OptionsInv, NEW d \in Int, NEW n \in OptionsNames, NEW key \in {n.new, n.old},
         NEW v \in OptionsValues, Options!Write(d, n, key, v)
  PROVE  OptionsInv'
<1>1. /\ defs \in [1 .. OptionsMaxDefs -> Definitions] /\ DOMAIN defs = 1 .. OptionsMaxDefs
      /\ own \in [OptionsHeadings -> Options!Objects]
      /\ OptionsMaxDefs \in Nat
  BY OptionsAssumption DEF OptionsInv, OptionsTyped
<1>2. key \in Keys
  BY NamesOf
<1>3. /\ written' = [at |-> d, name |-> n, key |-> key, value |-> v] /\ made' = FALSE
  BY DEF Options!Write
<1>4. ASSUME NEW obj \in Options!Objects
      PROVE  [obj EXCEPT ![key] = v] \in Options!Objects /\ [obj EXCEPT ![key] = v][key] = v
  BY <1>2 DEF Options!Objects, Keys
<1>h. \A i \in OptionsHeadings : i \in Int /\ i > 0
  <2>1. PICK h \in Nat : OptionsHeadings = 1 .. h
    BY Headings
  <2> QED BY <2>1
<1>5. /\ defs' \in [1 .. OptionsMaxDefs -> Definitions] /\ own' \in [OptionsHeadings -> Options!Objects]
      /\ (d \in DOMAIN defs' \/ -d \in OptionsHeadings) /\ ObjectAt(d)'[key] = v
  <2>1. CASE d \in DOMAIN defs /\ defs' = [defs EXCEPT ![d].opts[key] = v] /\ UNCHANGED own
    <3>1. defs[d] \in Definitions /\ defs[d].opts \in Options!Objects /\ d > 0
      BY <1>1, <2>1 DEF Definitions
    <3> DEFINE obj == [defs[d].opts EXCEPT ![key] = v]
               def == [defs[d] EXCEPT !.opts = obj]
    <3>2. obj \in Options!Objects /\ obj[key] = v
      BY <1>4, <3>1
    <3>3. defs' = [defs EXCEPT ![d] = def]
      BY <2>1
    <3> HIDE DEF obj
    <3>4. def \in Definitions /\ def.opts = obj
      BY <3>1, <3>2 DEF Definitions
    <3> HIDE DEF def
    <3>5. defs' \in [1 .. OptionsMaxDefs -> Definitions] /\ defs'[d] = def
      BY <1>1, <2>1, <3>3, <3>4
    <3>6. ObjectAt(d)' = obj
      BY <3>1, <3>4, <3>5 DEF ObjectAt
    <3> QED BY <1>1, <2>1, <3>2, <3>5, <3>6
  <2>2. CASE -d \in OptionsHeadings /\ own' = [own EXCEPT ![-d][key] = v] /\ UNCHANGED defs
    <3> DEFINE i == -d
               obj == [own[i] EXCEPT ![key] = v]
    <3>1. i \in OptionsHeadings /\ ~(d > 0) /\ own[i] \in Options!Objects
      BY <1>1, <1>h, <2>2
    <3>2. obj \in Options!Objects /\ obj[key] = v
      BY <1>4, <3>1
    <3>3. own' = [own EXCEPT ![i] = obj]
      BY <2>2
    <3>7. ObjectAt(d)' = own'[i]
      BY <3>1 DEF ObjectAt
    <3> HIDE DEF obj, i
    <3>5. own' \in [OptionsHeadings -> Options!Objects] /\ own'[i] = obj
      BY <1>1, <3>1, <3>2, <3>3
    <3> QED BY <1>1, <2>2, <3>2, <3>5, <3>7
  <2> QED BY <2>1, <2>2 DEF Options!Write
<1>6. IsWritten(written)'
  BY <1>2, <1>3, <1>5 DEF IsWritten
<1>7. OptionsTyped'
  BY <1>3, <1>5, <1>6 DEF OptionsInv, OptionsTyped, Options!Write
<1>8. WrittenStands'
  <2> SUFFICES ASSUME NewWritten'
               PROVE  ObjectAt(written.at)'[written'.name.new] = written'.value
    BY <1>3 DEF WrittenStands
  <2>1. written'.at = d /\ written'.key = key /\ written'.name = n /\ written'.value = v
    BY <1>3
  <2>2. key = n.new
    BY <2>1 DEF NewWritten
  <2>3. ObjectAt(written.at)' = ObjectAt(d)'
    BY <2>1 DEF ObjectAt
  <2> QED BY <1>5, <2>1, <2>2, <2>3
<1>9. Options!Precedence'
  BY <1>3 DEF Options!Precedence
<1> QED BY <1>7, <1>8, <1>9 DEF OptionsInv

\* The table is made: what its definitions and entries say is normalised, and
\* laid over the defaults.
LEMMA TableMade ==
  ASSUME OptionsInv, Options!Make
  PROVE  OptionsInv'
<1> DEFINE h == Options!Cardinality(OptionsHeadings)
           laid == Options!LayAll(NewColumns, Options!Backwards(defs))
<1>1. /\ defs \in [1 .. OptionsMaxDefs -> Definitions] /\ OptionsMaxDefs \in Nat
      /\ own \in [OptionsHeadings -> Options!Objects]
  BY OptionsAssumption DEF OptionsInv, OptionsTyped
<1>2. /\ defs \in Seq(Definitions) /\ Len(defs) = OptionsMaxDefs /\ DOMAIN defs = 1 .. OptionsMaxDefs
      /\ \A d \in 1 .. OptionsMaxDefs : defs[d] \in Definitions /\ defs[d].opts \in Options!Objects
  <2>1. \A d \in 1 .. OptionsMaxDefs : defs[d] \in Definitions
    BY <1>1
  <2>2. defs \in Seq(Definitions) /\ Len(defs) = OptionsMaxDefs /\ DOMAIN defs = 1 .. OptionsMaxDefs
    BY <1>1
  <2> QED BY <2>1, <2>2 DEF Definitions
<1>3. /\ columns' = Options!LayOwn(laid, own) /\ made' = TRUE /\ written' = written
      /\ defs' = [d \in 1 .. OptionsMaxDefs |-> [defs[d] EXCEPT !.opts = Options!Normal(@)]]
      /\ own' = [i \in OptionsHeadings |-> Options!Normal(own[i])]
  BY <1>2 DEF Options!Make, Options!ApplyColumnDefs, NewColumns
<1>4. \A d \in 1 .. OptionsMaxDefs : /\ defs'[d] \in Definitions
                                     /\ defs'[d].target = defs[d].target
                                     /\ defs'[d].opts = Options!Normal(defs[d].opts)
  <2> TAKE d \in 1 .. OptionsMaxDefs
  <2> DEFINE norm == Options!Normal(defs[d].opts)
  <2>1. defs'[d] = [defs[d] EXCEPT !.opts = norm]
    BY <1>3
  <2>2. norm \in Options!Objects
    BY <1>2, NormalGives
  <2> HIDE DEF norm
  <2>3. defs'[d] \in Definitions /\ defs'[d].target = defs[d].target /\ defs'[d].opts = norm
    BY <1>2, <2>1, <2>2 DEF Definitions
  <2> QED BY <2>3 DEF norm
<1>5. \A i \in OptionsHeadings : own'[i] = Options!Normal(own[i]) /\ own'[i] \in Options!Objects
  <2> TAKE i \in OptionsHeadings
  <2>1. own[i] \in Options!Objects
    BY <1>1
  <2> QED BY <1>3, <2>1, NormalGives
<1>6. defs' \in [1 .. OptionsMaxDefs -> Definitions] /\ own' \in [OptionsHeadings -> Options!Objects]
  BY <1>3, <1>4, <1>5
<1>7. OptionsTyped'
  <2>1. (written # Nil => IsWritten(written))'
    BY <1>2, <1>3, <1>6 DEF OptionsInv, OptionsTyped, IsWritten
  <2>2. laid \in ColumnLists /\ OptionsHeadings \subseteq DOMAIN laid
    BY <1>2, LaidBackwards
  <2>3. columns' \in ColumnLists
    <3> HIDE DEF laid
    <3> QED BY <1>1, <1>3, <2>2, OwnLaid
  <2> QED BY <1>6, <2>1, <2>3 DEF OptionsTyped
<1>8. WrittenStands'
  <2> SUFFICES ASSUME NewWritten
               PROVE  /\ ObjectAt(written.at)'[written.name.new] = written.value
                      /\ ObjectAt(written.at)'[written.name.old] = written.value
    BY <1>3 DEF WrittenStands, NewWritten
  <2> DEFINE at == written.at
             n == written.name
             obj == ObjectAt(at)
  <2>1. /\ n \in OptionsNames /\ n \in OptionsCompat /\ written.value \in OptionsValues
        /\ at \in Int /\ (at \in 1 .. OptionsMaxDefs \/ -at \in OptionsHeadings)
        /\ obj[n.new] = written.value
    BY <1>2 DEF OptionsInv, OptionsTyped, WrittenStands, NewWritten, IsWritten
  <2>2. written.value # Nil
    BY <2>1, OptionsAssumption
  <2>3. obj \in Options!Objects /\ ObjectAt(at)' = Options!Normal(obj)
    <3>1. CASE at \in 1 .. OptionsMaxDefs
      <4>1. at > 0
        BY <3>1
      <4> QED BY <3>1, <4>1, <1>2, <1>3, <1>4 DEF ObjectAt
    <3>2. CASE -at \in OptionsHeadings
      <4>1. PICK m \in Nat : OptionsHeadings = 1 .. m
        BY Headings
      <4>2. ~(at > 0)
        BY <3>2, <4>1, <2>1
      <4> QED BY <3>2, <4>2, <1>1, <1>3, <1>5 DEF ObjectAt
    <3> QED BY <3>1, <3>2, <2>1
  <2> DEFINE norm == Options!Normal(obj)
  <2> HIDE DEF obj, n, norm
  <2>4. norm[n.new] = obj[n.new] /\ (n \in OptionsCompat /\ obj[n.new] # Nil => norm[n.old] = obj[n.new])
    BY <2>1, <2>3, NormalGives DEF norm
  <2> QED BY <2>1, <2>2, <2>3, <2>4, <1>3 DEF norm, n
<1>9. Options!Precedence'
  <2>1. PICK m \in Nat : /\ OptionsHeadings = 1 .. m /\ h = m
                         /\ NewColumns \in ColumnLists /\ Len(NewColumns) = m
    BY Headings
  <2>2. /\ laid \in ColumnLists /\ OptionsHeadings \subseteq DOMAIN laid
        /\ Len(laid) = h => FirstCounts(laid, defs)
    BY <1>2, LaidBackwards
  <2> DEFINE w == columns'
  <2>3. /\ w \in ColumnLists /\ Len(w) = Len(laid)
        /\ \A i \in OptionsHeadings, k \in Keys :
             w[i][k] = IF Options!Normal(own[i])[k] # Nil THEN Options!Normal(own[i])[k]
                       ELSE laid[i][k]
    <3> HIDE DEF laid
    <3> QED BY <1>1, <1>3, <2>2, OwnLaid
  <2> SUFFICES ASSUME Len(w) = h, NEW i \in OptionsHeadings, NEW n \in OptionsNames
               PROVE  \/ own'[i][n.old] # Nil /\ w[i][n.old] = own'[i][n.old]
                      \/ /\ own'[i][n.old] = Nil
                         /\ \E d \in DOMAIN defs' : /\ Options!GivesFirst(d, i, n)'
                                                    /\ w[i][n.old] = defs'[d].opts[n.old]
                      \/ /\ own'[i][n.old] = Nil /\ \A d \in DOMAIN defs' : ~Options!Gives(d, i, n)'
                         /\ w[i][n.old] = OptionsDefault
    BY DEF Options!Precedence
  <2> DEFINE k == n.old
  <2>k. k \in Keys /\ Options!NameOf(k) = n
    BY NamesOf
  <2>d. DOMAIN defs' = 1 .. OptionsMaxDefs
    BY <1>3
  <2>w. w[i][k] = IF own'[i][k] # Nil THEN own'[i][k] ELSE laid[i][k]
    BY <1>5, <2>3, <2>k
  <2>g. \A d \in 1 .. OptionsMaxDefs :
          Options!Gives(d, i, n)' <=> Giver(NewColumns, defs, d, i, k)
    <3> TAKE d \in 1 .. OptionsMaxDefs
    <3>1. DOMAIN w = DOMAIN NewColumns /\ Len(w) = Len(NewColumns)
      BY <2>1, <2>3 DEF ColumnLists
    <3>2. Options!Hit(w, defs[d].target) = Options!Hit(NewColumns, defs[d].target)
      BY <3>1 DEF Options!Hit
    <3>3. Options!Gives(d, i, n)' <=> (i \in Options!Hit(w, defs'[d].target) /\ defs'[d].opts[k] # Nil)
      BY DEF Options!Gives
    <3> HIDE DEF w, k
    <3> QED BY <3>2, <3>3, <1>4 DEF Giver
  <2>f. \A d \in 1 .. OptionsMaxDefs :
          Options!GivesFirst(d, i, n)' <=> First(NewColumns, defs, d, i, k)
    <3> TAKE d \in 1 .. OptionsMaxDefs
    <3>1. Options!GivesFirst(d, i, n)' <=>
            (Options!Gives(d, i, n)' /\ \A e \in DOMAIN defs' : Options!Gives(e, i, n)' => d <= e)
      BY DEF Options!GivesFirst
    <3> HIDE DEF k
    <3> QED BY <1>2, <2>d, <2>g, <3>1 DEF First
  <2>n. Options!NewColumn[k] = OptionsDefault
    BY <2>k DEF Options!NewColumn, Keys
  <2>l. \/ \E d \in 1 .. OptionsMaxDefs : /\ First(NewColumns, defs, d, i, k)
                                          /\ laid[i][k] = Options!Normal(defs[d].opts)[k]
        \/ /\ \A d \in 1 .. OptionsMaxDefs : ~Giver(NewColumns, defs, d, i, k)
           /\ laid[i][k] = OptionsDefault
    <3>1. FirstCounts(laid, defs)
      BY <2>2, <2>3
    <3> HIDE DEF laid, k
    <3> QED BY <1>2, <2>k, <2>n, <3>1 DEF FirstCounts
  <2> HIDE DEF laid, w, h
  <2>4. CASE own'[i][k] # Nil
    BY <2>4, <2>w
  <2>5. CASE /\ own'[i][k] = Nil
             /\ \E d \in 1 .. OptionsMaxDefs : /\ First(NewColumns, defs, d, i, k)
                                               /\ laid[i][k] = Options!Normal(defs[d].opts)[k]
    <3>1. PICK d \in 1 .. OptionsMaxDefs : /\ First(NewColumns, defs, d, i, k)
                                           /\ laid[i][k] = Options!Normal(defs[d].opts)[k]
      BY <2>5
    <3>2. Options!GivesFirst(d, i, n)' /\ w[i][k] = defs'[d].opts[k]
      BY <1>4, <2>5, <2>f, <2>w, <3>1
    <3> QED BY <2>5, <2>d, <3>2
  <2>6. CASE /\ own'[i][k] = Nil
             /\ \A d \in 1 .. OptionsMaxDefs : ~Giver(NewColumns, defs, d, i, k)
             /\ laid[i][k] = OptionsDefault
    BY <2>6, <2>d, <2>g, <2>w
  <2> QED BY <2>l, <2>4, <2>5, <2>6
<1> QED BY <1>7, <1>8, <1>9 DEF OptionsInv

LEMMA OptionsUnchanged ==
  ASSUME OptionsInv, UNCHANGED OptionVars PROVE OptionsInv'
BY DEF OptionsInv, OptionsTyped, WrittenStands, NewWritten, IsWritten, ObjectAt, OptionVars,
       Options!Precedence, Options!Gives, Options!GivesFirst

LEMMA OptionsStep ==
  ASSUME OptionsInv, Options!Next PROVE OptionsInv'
<1>1. ASSUME NEW d \in (-Options!Cardinality(OptionsHeadings)) .. OptionsMaxDefs,
             NEW n \in OptionsNames, NEW v \in OptionsValues, NEW key \in {n.new, n.old},
             Options!Write(d, n, key, v)
      PROVE  OptionsInv'
  <2>1. d \in Int
    OBVIOUS
  <2> QED BY <1>1, <2>1, OptionWritten
<1> QED BY <1>1, TableMade DEF Options!Next

\* What the invariant says of the two properties.
LEMMA OptionsMeant ==
  ASSUME OptionsInv
  PROVE  Options!Precedence /\ Options!LastWordCounts /\ Options!TypeOK
<1>1. Options!LastWordCounts
  BY DEF OptionsInv, WrittenStands, NewWritten, ObjectAt, Options!LastWordCounts
<1>2. Options!TypeOK
  <2>1. \A d \in DOMAIN defs : defs[d].target \in OptionsTargets /\ defs[d].opts \in Options!Objects
    BY DEF OptionsInv, OptionsTyped, Definitions
  <2>2. \A i \in DOMAIN columns : columns[i] \in [Keys -> OptionsValues \cup {Nil, OptionsDefault}]
    BY DEF OptionsInv, OptionsTyped, ColumnLists, Bags
  <2> QED BY <2>1, <2>2 DEF OptionsInv, OptionsTyped, Options!TypeOK, Keys
<1> QED BY <1>1, <1>2 DEF OptionsInv

(***************************************************************************)
(* The order: its entries, the flat list and the labels.                   *)
(***************************************************************************)

OrderEntries == [col : OrderColumns, dir : Order!Dirs, idx : Nat \cup {-1, Nil}]
IndexedEntries == [col : OrderColumns, dir : Order!Dirs, idx : Nat \cup {-1}]
SortItems ==
  [src : OrderColumns, col : OrderColumns, dir : Order!Dirs, index : Nat \cup {-1, Nil}]

\* Where a direction stands, or -1.
LEMMA Position ==
  ASSUME NEW S, NEW s \in Seq(S), NEW x, NEW p, p = Order!InArray(x, s)
  PROVE  p \in Nat \cup {-1}
<1>0. Len(s) \in Nat /\ DOMAIN s = 1 .. Len(s)
  OBVIOUS
<1> DEFINE K == { k \in Nat : k \in 1 .. Len(s) /\ s[k] = x }
<1>1. CASE x \in Order!Range(s)
  <2>1. PICK k \in 1 .. Len(s) : s[k] = x
    BY <1>0, <1>1 DEF Order!Range
  <2>2. k \in K
    BY <1>0, <2>1
  <2>3. \E m \in K : \A j \in K : m <= j
    <3>1. K \subseteq Nat /\ K # {}
      BY <2>2
    <3> HIDE DEF K
    <3> QED BY <3>1, Least
  <2>4. PICK m \in K : \A j \in K : m <= j
    BY <2>3
  <2>5. m \in DOMAIN s /\ s[m] = x /\ \A j \in DOMAIN s : s[j] = x => m <= j
    BY <1>0, <2>4
  <2> DEFINE c == CHOOSE k2 \in DOMAIN s : s[k2] = x /\ \A j \in DOMAIN s : s[j] = x => k2 <= j
  <2>6. c \in DOMAIN s
    BY <2>5
  <2>7. p = c - 1
    BY <1>1 DEF Order!InArray
  <2> HIDE DEF c
  <2>8. c \in Nat /\ c >= 1
    BY <1>0, <2>6
  <2> QED BY <2>7, <2>8
<1>2. CASE ~(x \in Order!Range(s))
  BY <1>2 DEF Order!InArray
<1> QED BY <1>1, <1>2

\* What the columns sort by.
LEMMA Directions ==
  ASSUME NEW c \in OrderColumns
  PROVE  /\ OrderAsSorting[c] \in Seq(Order!Dirs) /\ Len(OrderAsSorting[c]) \in Nat
         /\ Len(OrderAsSorting[c]) >= 1
         /\ \A i \in Nat : i < Len(OrderAsSorting[c]) =>
              OrderAsSorting[c][i + 1] \in Order!Dirs
<1>1. OrderAsSorting[c] \in OrderDirections
  BY OrderAssumption
<1> DEFINE s == OrderAsSorting[c]
<1> HIDE DEF s
<1>2. s \in Seq(Order!Dirs) /\ s # <<>>
  BY <1>1 DEF OrderDirections, Order!Dirs, s
<1>3. Len(s) \in Nat /\ Len(s) >= 1
  BY <1>2
<1>4. ASSUME NEW i \in Nat, i < Len(s) PROVE s[i + 1] \in Order!Dirs
  <2>1. i + 1 \in 1 .. Len(s)
    BY <1>3, <1>4
  <2> QED BY <1>2, <2>1
<1> QED BY <1>2, <1>3, <1>4 DEF s

LEMMA EntryIndexed ==
  ASSUME NEW ds \in [OrderColumns -> OrderSequences], dataSort = ds, NEW e \in OrderEntries
  PROVE  Order!Indexed(e) \in IndexedEntries /\ Order!Indexed(e).col = e.col
<1>1. e.col \in OrderColumns /\ e.dir \in Order!Dirs /\ e.idx \in Nat \cup {-1, Nil}
  BY DEF OrderEntries
<1>2. CASE e.idx # Nil
  BY <1>1, <1>2 DEF OrderEntries, IndexedEntries, Order!Indexed
<1>3. CASE e.idx = Nil
  <2> DEFINE d == dataSort[e.col]
             p == Order!InArray(e.dir, OrderAsSorting[d[1]])
  <2>1. d \in OrderSequences
    BY <1>1
  <2>2. d[1] \in OrderColumns
    <3> HIDE DEF d
    <3>1. d \in Seq(OrderColumns) /\ d # <<>>
      BY <2>1 DEF OrderSequences
    <3> QED BY <3>1
  <2>3. OrderAsSorting[d[1]] \in Seq(Order!Dirs)
    BY <2>2, Directions
  <2>4. p \in Nat \cup {-1}
    <3> HIDE DEF d
    <3> QED BY <2>3, Position
  <2>5. Order!Indexed(e) = [e EXCEPT !.idx = p]
    BY <1>3 DEF Order!Indexed
  <2> HIDE DEF p
  <2> QED BY <1>1, <2>4, <2>5 DEF OrderEntries, IndexedEntries
<1> QED BY <1>2, <1>3

LEMMA EntriesIndexed ==
  ASSUME NEW ds \in [OrderColumns -> OrderSequences], dataSort = ds, NEW es \in Seq(OrderEntries),
         NEW w, w = Order!WithIndexes(es)
  PROVE  w \in Seq(IndexedEntries) /\ Len(w) = Len(es) /\ w \in Seq(OrderEntries)
<1>1. DOMAIN es = 1 .. Len(es) /\ Len(es) \in Nat /\ \A k \in 1 .. Len(es) : es[k] \in OrderEntries
  OBVIOUS
<1>2. w = [k \in 1 .. Len(es) |-> Order!Indexed(es[k])]
  BY <1>1 DEF Order!WithIndexes
<1>3. \A k \in 1 .. Len(es) : Order!Indexed(es[k]) \in IndexedEntries
  BY <1>1, EntryIndexed
<1>4. w \in [1 .. Len(es) -> IndexedEntries]
  BY <1>2, <1>3
<1>5. w \in Seq(IndexedEntries) /\ Len(w) = Len(es)
  BY <1>1, <1>4
<1>6. \A e \in IndexedEntries : e \in OrderEntries
  BY DEF IndexedEntries, OrderEntries
<1>7. w \in [1 .. Len(es) -> OrderEntries]
  BY <1>4, <1>6
<1> QED BY <1>1, <1>5, <1>7

\* An entry turned to a direction its heading has.
LEMMA EntryTurned ==
  ASSUME NEW e \in OrderEntries, NEW i \in Nat, i < Len(OrderAsSorting[e.col])
  PROVE  /\ Order!Turned(e, i) \in OrderEntries
         /\ Order!Turned(e, i).dir = OrderAsSorting[e.col][i + 1]
<1>1. e.col \in OrderColumns
  BY DEF OrderEntries
<1>2. OrderAsSorting[e.col][i + 1] \in Order!Dirs
  BY <1>1, Directions
<1> DEFINE d == OrderAsSorting[e.col][i + 1]
<1>3. Order!Turned(e, i) = [e EXCEPT !.dir = d, !.idx = i]
  BY DEF Order!Turned
<1> HIDE DEF d
<1> QED BY <1>2, <1>3 DEF OrderEntries, d

LEMMA NextIdxTyped ==
  ASSUME NEW e \in OrderEntries
  PROVE  Order!NextIdx(e) \in Nat
<1>1. e.col \in OrderColumns /\ e.idx \in Nat \cup {-1, Nil}
  BY DEF OrderEntries
<1>2. Order!InArray(e.dir, OrderAsSorting[e.col]) \in Nat \cup {-1}
  BY <1>1, Directions, Position
<1> DEFINE p == Order!InArray(e.dir, OrderAsSorting[e.col])
<1>3. Order!NextIdx(e) = (IF e.idx = Nil THEN p ELSE e.idx) + 1
  BY DEF Order!NextIdx
<1> HIDE DEF p
<1>4. (IF e.idx = Nil THEN p ELSE e.idx) \in Nat \cup {-1}
  BY <1>1, <1>2 DEF p
<1> QED BY <1>3, <1>4

LEMMA FirstTyped ==
  ASSUME NEW c \in OrderColumns
  PROVE  Order!First(c) \in OrderEntries
<1>1. OrderAsSorting[c][0 + 1] \in Order!Dirs
  BY Directions
<1> QED BY <1>1 DEF Order!First, OrderEntries

\* A click makes entries of entries.
LEMMA ClickedTyped ==
  ASSUME NEW es \in Seq(OrderEntries), NEW c \in OrderColumns
  PROVE  Order!Clicked(es, c) \in Seq(OrderEntries)
<1>1. CASE es # <<>> /\ es[1].col = c
  <2>1. es[1] \in OrderEntries
    BY <1>1
  <2> DEFINE e == es[1]
             i == IF Order!Over(e) THEN 0 ELSE Order!NextIdx(e)
  <2>2. Order!NextIdx(e) \in Nat /\ Len(OrderAsSorting[e.col]) \in Nat
        /\ Len(OrderAsSorting[e.col]) >= 1
    BY <1>1, <2>1, NextIdxTyped, Directions
  <2>3. i \in Nat /\ i < Len(OrderAsSorting[e.col])
    BY <2>2 DEF Order!Over
  <2> HIDE DEF i
  <2>4. Order!Turned(e, i) \in OrderEntries
    BY <2>1, <2>3, EntryTurned
  <2>5. Order!Clicked(es, c) = <<Order!Turned(e, i)>>
    BY <1>1 DEF Order!Clicked, i
  <2> QED BY <2>4, <2>5
<1>2. CASE ~(es # <<>> /\ es[1].col = c)
  <2>1. Order!Clicked(es, c) = <<Order!First(c)>>
    BY <1>2 DEF Order!Clicked
  <2> QED BY <2>1, FirstTyped
<1> QED BY <1>1, <1>2

LEMMA ShiftClickedTyped ==
  ASSUME NEW es \in Seq(OrderEntries), NEW c \in OrderColumns
  PROVE  Order!ShiftClicked(es, c) \in Seq(OrderEntries)
<1> DEFINE K == { k \in DOMAIN es : es[k].col = c }
           m == CHOOSE j \in K : \A i \in K : j <= i
<1>0. Len(es) \in Nat /\ DOMAIN es = 1 .. Len(es) /\ \A k \in 1 .. Len(es) : es[k] \in OrderEntries
  OBVIOUS
<1>1. CASE K = {}
  <2>1. Order!ShiftClicked(es, c) = Append(es, Order!First(c))
    BY <1>1 DEF Order!ShiftClicked
  <2> QED BY <2>1, FirstTyped
<1>2. CASE K # {}
  <2>1. m \in K
    <3>1. K \subseteq Nat
      BY <1>0
    <3> HIDE DEF K
    <3>2. PICK j \in K : \A i \in K : j <= i
      BY <1>2, <3>1, Least
    <3> QED BY <3>2
  <2>2. m \in 1 .. Len(es) /\ es[m] \in OrderEntries /\ es[m].col = c
    BY <1>0, <2>1
  <2>3. Order!ShiftClicked(es, c) =
          IF ~Order!Over(es[m])
          THEN [es EXCEPT ![m] = Order!Turned(es[m], Order!NextIdx(es[m]))]
          ELSE IF Len(es) = 1 THEN <<Order!Turned(es[1], 0)>>
          ELSE Order!Cut(es, m)
    <3>1. Order!ShiftClicked(es, c) =
            IF ~Order!Over(es[m]) THEN [es EXCEPT ![m] = Order!Turned(@, Order!NextIdx(@))]
            ELSE IF Len(es) = 1 THEN <<Order!Turned(es[1], 0)>>
            ELSE Order!Cut(es, m)
      BY <1>2 DEF Order!ShiftClicked
    <3> HIDE DEF m
    <3> QED BY <2>2, <3>1
  <2> HIDE DEF m, K
  <2>4. Order!NextIdx(es[m]) \in Nat /\ Len(OrderAsSorting[es[m].col]) \in Nat
        /\ Len(OrderAsSorting[es[m].col]) >= 1
    BY <2>2, NextIdxTyped, Directions
  <2>5. CASE ~Order!Over(es[m])
    <3> DEFINE t == Order!Turned(es[m], Order!NextIdx(es[m]))
    <3>1. Order!NextIdx(es[m]) < Len(OrderAsSorting[es[m].col])
      BY <2>4, <2>5 DEF Order!Over
    <3>2. t \in OrderEntries
      BY <2>2, <2>4, <3>1, EntryTurned
    <3> HIDE DEF t
    <3>3. [es EXCEPT ![m] = t] \in Seq(OrderEntries)
      BY <2>2, <3>2
    <3> QED BY <2>3, <2>5, <3>3 DEF t
  <2>6. CASE Order!Over(es[m]) /\ Len(es) = 1
    <3>1. m = 1
      BY <2>2, <2>6
    <3>2. Order!Turned(es[m], 0) \in OrderEntries
      BY <2>2, <2>4, EntryTurned
    <3> QED BY <2>3, <2>6, <3>1, <3>2
  <2>7. CASE Order!Over(es[m]) /\ Len(es) # 1
    <3>1. Order!ShiftClicked(es, c) = Cut(es, m)
      BY <2>3, <2>7 DEF Order!Cut, Cut
    <3> QED BY <2>2, <3>1, Removed
  <2> QED BY <2>5, <2>6, <2>7
<1> QED BY <1>1, <1>2

\* The flat list of a plain order begins with its first entry.
LEMMA FlattenBegins ==
  ASSUME Order!Plain, NEW ds \in [OrderColumns -> OrderSequences], dataSort = ds,
         NEW es \in Seq(OrderEntries), NEW w, w = Order!WithIndexes(es),
         NEW f, f = Order!Flatten(es)
  PROVE  /\ f # <<>> <=> w # <<>>
         /\ w # <<>> => f[1].col = w[1].col /\ f[1].index = w[1].idx
<1> DEFINE nested == Order!Nested(es)
           size == Len(w)
           Good(b) == b = [k \in 0 .. Len(nested) |-> IF k = 0 THEN <<>>
                                                      ELSE b[k - 1] \o Order!Sorts(nested[k])]
           flat == CHOOSE b : Good(b)
           S == Seq(SortItems)
           do == [k \in 1 .. size |-> [x \in S |-> x \o Order!Sorts(w[k])]]
<1>0. size \in Nat /\ w \in Seq(IndexedEntries) /\ \A k \in 1 .. size : w[k] \in IndexedEntries
  <2>1. w \in Seq(IndexedEntries)
    BY EntriesIndexed
  <2> QED BY <2>1
<1>1. nested = w
  <2>1. fixed.pre = <<>> /\ fixed.post = <<>>
    BY DEF Order!Plain
  <2>2. <<>> \o es \o <<>> = es
    OBVIOUS
  <2> QED BY <2>1, <2>2 DEF Order!Nested
<1>2. f = flat[size]
  BY <1>1 DEF Order!Flatten
<1>s. \A e \in IndexedEntries :
        /\ Order!Sorts(e) \in S /\ Len(Order!Sorts(e)) = 1
        /\ Order!Sorts(e)[1].col = e.col /\ Order!Sorts(e)[1].index = e.idx
  <2> TAKE e \in IndexedEntries
  <2>1. dataSort[e.col] = <<e.col>> /\ e.col \in OrderColumns
        /\ e.dir \in Order!Dirs /\ e.idx \in Nat \cup {-1}
    BY DEF IndexedEntries, Order!Plain
  <2> DEFINE item == [src |-> e.col, col |-> e.col, dir |-> e.dir, index |-> e.idx]
             sorts == Order!Sorts(e)
  <2>2. item \in SortItems
    BY <2>1 DEF SortItems
  <2>3. sorts = [j \in 1 .. 1 |-> item]
    BY <2>1 DEF Order!Sorts
  <2> HIDE DEF sorts
  <2>4. sorts \in S /\ Len(sorts) = 1 /\ sorts[1] = item
    <3> HIDE DEF item
    <3>1. sorts \in [1 .. 1 -> SortItems]
      BY <2>2, <2>3
    <3> QED BY <2>3, <3>1
  <2> QED BY <2>4 DEF sorts
<1>3. do \in [1 .. size -> [S -> S]]
  <2> HIDE DEF size
  <2> SUFFICES ASSUME NEW k \in 1 .. size, NEW x \in S
               PROVE x \o Order!Sorts(w[k]) \in S
    OBVIOUS
  <2>1. Order!Sorts(w[k]) \in S
    BY <1>0, <1>s
  <2> QED BY <2>1
<1>r. /\ 0 \in 0 .. size /\ \A d \in 0 .. size : d = 0 \/ d \in 1 .. size
      /\ \A d \in 1 .. size : d # 0 /\ d \in 0 .. size /\ d - 1 \in 0 .. size
  <2> HIDE DEF size
  <2> QED BY <1>0
<1>e. <<>> \in S
  OBVIOUS
<1>4. PICK b : Loops(b, <<>>, size, do) /\ \A k \in 0 .. size : b[k] \in S
  <2> HIDE DEF do, size, S
  <2> QED BY <1>0, <1>3, <1>e, Loop
<1>5. Good(b)
  <2> HIDE DEF size
  <2>1. b = [k \in 0 .. size |-> b[k]] /\ b[0] = <<>>
        /\ \A k \in 1 .. size : b[k] = do[k][b[k - 1]]
    BY <1>4 DEF Loops
  <2>2. \A k \in 1 .. size : b[k] = b[k - 1] \o Order!Sorts(w[k])
    <3> HIDE DEF S
    <3> QED BY <2>1, <1>4, <1>r
  <2>3. \A k \in 0 .. size : b[k] = IF k = 0 THEN <<>> ELSE b[k - 1] \o Order!Sorts(w[k])
    BY <2>1, <2>2, <1>r
  <2> HIDE DEF nested
  <2> QED BY <2>1, <2>3, <1>1 DEF size
<1>6. Good(flat)
  <2> HIDE DEF Good
  <2> QED BY <1>5
<1> HIDE DEF flat, Good, nested
<1>7. flat[0] = <<>> /\ \A k \in 1 .. size : flat[k] = flat[k - 1] \o Order!Sorts(w[k])
  <2>1. \A k \in 0 .. size : flat[k] = IF k = 0 THEN <<>> ELSE flat[k - 1] \o Order!Sorts(w[k])
    BY <1>1, <1>6 DEF Good
  <2> HIDE DEF size
  <2> QED BY <1>r, <2>1
<1> DEFINE Begins(x) == x # <<>> /\ x[1].col = w[1].col /\ x[1].index = w[1].idx
           T == { k \in 0 .. size : flat[k] \in S /\ (k # 0 => Begins(flat[k])) }
<1> HIDE DEF do, size
<1>8. 0 \in T
  BY <1>7, <1>r, <1>e
<1>9. ASSUME NEW k \in 1 .. size, k - 1 \in T PROVE k \in T
  <2> DEFINE x == flat[k - 1]
             y == Order!Sorts(w[k])
             z == flat[k]
  <2>1. x \in S /\ (k - 1 # 0 => Begins(x)) /\ k \in 0 .. size
    BY <1>9, <1>r
  <2>2. y \in S /\ Len(y) = 1 /\ y[1].col = w[k].col /\ y[1].index = w[k].idx
    BY <1>0, <1>s
  <2>3. z = x \o y
    BY <1>7
  <2> SUFFICES z \in S /\ Begins(z)
    BY <2>1
  <2> HIDE DEF x, y, z
  <2>4. z \in S /\ Len(z) = Len(x) + 1 /\ Len(x) \in Nat
    <3>1. x \in Seq(SortItems) /\ y \in Seq(SortItems)
      BY <2>1, <2>2
    <3>2. z \in Seq(SortItems) /\ Len(z) = Len(x) + Len(y)
      BY <3>1, <2>3, ConcatProperties
    <3>3. Len(x) \in Nat
      BY <3>1
    <3> QED BY <2>2, <3>2, <3>3
  <2>5. CASE k = 1
    <3>1. x = <<>>
      BY <2>5, <1>7 DEF x
    <3>2. z = y
      BY <2>2, <2>3, <3>1
    <3>3. y # <<>>
      <4>1. Len(y) # Len(<<>>)
        BY <2>2
      <4> QED BY <4>1
    <3> QED BY <2>2, <2>4, <2>5, <3>2, <3>3
  <2>6. CASE k # 1
    <3>1. k - 1 # 0
      BY <2>6, <1>0
    <3>2. x # <<>> /\ x[1].col = w[1].col /\ x[1].index = w[1].idx
      BY <2>1, <3>1
    <3>3. z[1] = x[1] /\ z # <<>>
      BY <2>1, <2>2, <2>3, <3>2
    <3> QED BY <2>4, <3>2, <3>3
  <2> QED BY <2>5, <2>6
<1>10. size \in T
  <2> HIDE DEF T
  <2> QED BY <1>0, <1>8, <1>9, Counted
<1>11. CASE size = 0
  <2>1. w = <<>> /\ f = <<>>
    BY <1>0, <1>2, <1>7, <1>11 DEF size
  <2> QED BY <2>1
<1>12. CASE size # 0
  <2>1. w # <<>> /\ Begins(f)
    BY <1>2, <1>10, <1>12 DEF size
  <2> QED BY <2>1
<1> QED BY <1>11, <1>12

OrderVars == <<aaSorting, fixed, dataSort, labels, orderDrawn>>
OrderTyped ==
  /\ aaSorting \in Seq(OrderEntries) /\ Len(aaSorting) <= OrderMaxOrder
  /\ fixed \in OrderFixedOrders /\ dataSort \in OrderDataSorts
  /\ labels \in [OrderColumns -> Order!Dirs \cup {Nil}]
OrderInv == OrderTyped /\ Order!LabelTellsNext

LEMMA LabelsTyped ==
  ASSUME NEW f
  PROVE  Order!LabelsOf(f) \in [OrderColumns -> Order!Dirs \cup {Nil}]
<1> SUFFICES ASSUME NEW c \in OrderColumns
             PROVE  /\ OrderAsSorting[c][1] \in Order!Dirs
                    /\ Order!At(OrderAsSorting[c], f[1].index + 1) \in Order!Dirs
  BY DEF Order!LabelsOf
<1>1. OrderAsSorting[c] \in Seq(Order!Dirs)
  BY Directions
<1>2. OrderAsSorting[c][0 + 1] \in Order!Dirs
  BY Directions
<1> DEFINE s == OrderAsSorting[c]
           i == f[1].index + 1
<1>3. \A j \in DOMAIN s : s[j] \in Order!Dirs
  BY <1>1
<1> HIDE DEF s, i
<1>4. Order!At(s, i) \in Order!Dirs
  BY <1>2, <1>3 DEF Order!At, s
<1> QED BY <1>2, <1>4 DEF s, i

\* A draw: its labels tell what a click would make of the entries it leaves.
LEMMA DrawnWith ==
  ASSUME OrderInv, NEW es \in Seq(OrderEntries), Len(es) <= OrderMaxOrder, Order!DrawWith(es)
  PROVE  OrderInv'
<1>1. /\ aaSorting' = Order!WithIndexes(es) /\ labels' = Order!LabelsOf(Order!Flatten(es))
      /\ fixed' = fixed /\ dataSort' = dataSort
  BY DEF Order!DrawWith
<1>2. fixed \in OrderFixedOrders /\ dataSort \in OrderDataSorts
      /\ dataSort \in [OrderColumns -> OrderSequences]
  BY OrderAssumption DEF OrderInv, OrderTyped
<1> DEFINE w == Order!WithIndexes(es)
           f == Order!Flatten(es)
<1>3. w \in Seq(IndexedEntries) /\ Len(w) = Len(es) /\ w \in Seq(OrderEntries)
  BY <1>2, EntriesIndexed
<1>4. OrderTyped'
  <2>1. Order!LabelsOf(f) \in [OrderColumns -> Order!Dirs \cup {Nil}]
    BY LabelsTyped
  <2> QED BY <1>1, <1>2, <1>3, <2>1 DEF OrderTyped
<1>5. Order!LabelTellsNext'
  <2> SUFFICES ASSUME Order!Plain', NEW c \in OrderSortable
               PROVE  labels'[c] = Order!Clicked(aaSorting', c)[1].dir
    BY DEF Order!LabelTellsNext
  <2>1. Order!Plain
    BY <1>1 DEF Order!Plain
  <2>2. c \in OrderColumns
    BY OrderAssumption
  <2>3. /\ f # <<>> <=> w # <<>>
        /\ w # <<>> => f[1].col = w[1].col /\ f[1].index = w[1].idx
    BY <1>2, <2>1, FlattenBegins
  <2>4. labels'[c] = IF f # <<>> /\ f[1].col = c
                     THEN Order!At(OrderAsSorting[c], f[1].index + 1)
                     ELSE OrderAsSorting[c][1]
    BY <1>1, <2>2 DEF Order!LabelsOf
  <2> SUFFICES labels'[c] = Order!Clicked(w, c)[1].dir
    BY <1>1
  <2> HIDE DEF w, f
  <2>5. CASE w # <<>> /\ w[1].col = c
    <3> DEFINE e == w[1]
               s == OrderAsSorting[c]
               i == IF Order!Over(e) THEN 0 ELSE Order!NextIdx(e)
    <3>1. e \in IndexedEntries /\ e.col = c
      BY <1>3, <2>5
    <3>2. e.idx \in Nat \cup {-1} /\ e.idx # Nil /\ e.idx \in Int
      BY <3>1, OrderAssumption DEF IndexedEntries
    <3>3. labels'[c] = Order!At(s, e.idx + 1)
      BY <2>3, <2>4, <2>5
    <3>4. Order!Clicked(w, c)[1] = Order!Turned(e, i)
      BY <2>5 DEF Order!Clicked
    <3>5. Order!NextIdx(e) = e.idx + 1
      BY <3>2 DEF Order!NextIdx
    <3>6. Order!Turned(e, i).dir = s[i + 1]
      <4> HIDE DEF i
      <4> QED BY <3>1 DEF Order!Turned, IndexedEntries
    <3>7. Len(s) \in Nat /\ Len(s) >= 1 /\ DOMAIN s = 1 .. Len(s)
      BY <2>2, Directions
    <3>8. Order!At(s, e.idx + 1) = IF e.idx + 1 + 1 \in 1 .. Len(s) THEN s[e.idx + 1 + 1] ELSE s[1]
      BY <3>7 DEF Order!At
    <3>9. Order!Over(e) <=> e.idx + 1 >= Len(s)
      BY <3>1, <3>5 DEF Order!Over
    <3> HIDE DEF s, e
    <3> QED BY <3>2, <3>3, <3>4, <3>5, <3>6, <3>7, <3>8, <3>9
  <2>6. CASE ~(w # <<>> /\ w[1].col = c)
    <3>1. labels'[c] = OrderAsSorting[c][1]
      BY <2>3, <2>4, <2>6
    <3>2. Order!Clicked(w, c) = <<Order!First(c)>>
      BY <2>6 DEF Order!Clicked
    <3> QED BY <3>1, <3>2 DEF Order!First
  <2> QED BY <2>5, <2>6
<1> QED BY <1>4, <1>5 DEF OrderInv

LEMMA OrderInitially ==
  ASSUME Order!Init PROVE OrderInv
<1> DEFINE f == Order!Flatten(<<>>)
<1>1. /\ aaSorting = <<>> /\ fixed \in OrderFixedOrders /\ dataSort \in OrderDataSorts
      /\ labels = Order!LabelsOf(f)
  BY DEF Order!Init
<1>2. OrderTyped
  <2>1. labels \in [OrderColumns -> Order!Dirs \cup {Nil}]
    <3> HIDE DEF f
    <3> QED BY <1>1, LabelsTyped
  <2> QED BY <1>1, <2>1, OrderAssumption DEF OrderTyped
<1>3. Order!LabelTellsNext
  <2> SUFFICES ASSUME Order!Plain, NEW c \in OrderSortable
               PROVE  labels[c] = Order!Clicked(aaSorting, c)[1].dir
    BY DEF Order!LabelTellsNext
  <2>1. dataSort \in [OrderColumns -> OrderSequences] /\ c \in OrderColumns
    BY <1>1, OrderAssumption
  <2> DEFINE w == Order!WithIndexes(<<>>)
  <2>e. <<>> \in Seq(OrderEntries) /\ Len(<<>>) = 0
    OBVIOUS
  <2>2. f # <<>> <=> w # <<>>
    BY <2>1, <2>e, FlattenBegins
  <2>3. Len(w) = 0 /\ w \in Seq(IndexedEntries)
    BY <2>1, <2>e, EntriesIndexed
  <2>4. w = <<>>
    <3> HIDE DEF w
    <3> QED BY <2>3
  <2> HIDE DEF w, f
  <2>5. labels[c] = OrderAsSorting[c][1]
    BY <1>1, <2>1, <2>2, <2>4 DEF Order!LabelsOf
  <2>6. Order!Clicked(aaSorting, c) = <<Order!First(c)>>
    BY <1>1 DEF Order!Clicked
  <2> QED BY <2>5, <2>6 DEF Order!First
<1> QED BY <1>2, <1>3 DEF OrderInv

\* A call of the API: the labels wait for the next draw.
LEMMA Ordered ==
  ASSUME OrderInv, NEW es \in Seq(OrderEntries), Len(es) <= OrderMaxOrder, Order!Order(es)
  PROVE  OrderInv'
BY DEF OrderInv, OrderTyped, Order!Order, Order!LabelTellsNext

LEMMA EntryTyped ==
  ASSUME NEW c \in OrderColumns, NEW dir \in Order!Dirs
  PROVE  Order!Entry(c, dir) \in OrderEntries
BY DEF Order!Entry, OrderEntries

LEMMA ColumnsOrdered ==
  ASSUME OrderInv, NEW cols \in SUBSET OrderColumns, NEW dir \in Order!Dirs,
         Order!Cardinality(cols) <= OrderMaxOrder, Order!ColumnsOrder(cols, dir)
  PROVE  OrderInv'
<1>1. Order!Cardinality(cols) = Cardinality(cols)
  BY Zenon DEF Order!Cardinality, Cardinality
<1>2. Cardinality(cols) \in Nat
  BY OrderAssumption, FS_Subset, FS_CardinalityType
<1> DEFINE n == Order!Cardinality(cols)
<1>3. PICK cs \in [1 .. n -> cols] : Order!Order([k \in DOMAIN cs |-> Order!Entry(cs[k], dir)])
  BY DEF Order!ColumnsOrder
<1>4. n \in Nat
  BY <1>1, <1>2
<1> DEFINE es == [k \in DOMAIN cs |-> Order!Entry(cs[k], dir)]
<1> HIDE DEF n
<1>5. \A k \in 1 .. n : Order!Entry(cs[k], dir) \in OrderEntries
  BY EntryTyped
<1>6. es \in [1 .. n -> OrderEntries]
  BY <1>5
<1>7. es \in Seq(OrderEntries) /\ Len(es) = n
  BY <1>4, <1>6
<1>8. Order!Order(es)
  BY <1>3
<1> HIDE DEF es
<1> QED BY <1>7, <1>8, Ordered DEF n

LEMMA OrderStep ==
  ASSUME OrderInv, Order!Next PROVE OrderInv'
<1>0. aaSorting \in Seq(OrderEntries) /\ Len(aaSorting) <= OrderMaxOrder
  BY DEF OrderInv, OrderTyped
<1>1. ASSUME NEW c \in OrderColumns, NEW shift \in BOOLEAN, Order!Click(c, shift) PROVE OrderInv'
  <2> DEFINE es == IF shift THEN Order!ShiftClicked(aaSorting, c) ELSE Order!Clicked(aaSorting, c)
  <2>1. Len(es) <= OrderMaxOrder /\ Order!DrawWith(es)
    BY <1>1 DEF Order!Click
  <2>2. es \in Seq(OrderEntries)
    BY <1>0, ClickedTyped, ShiftClickedTyped
  <2> HIDE DEF es
  <2> QED BY <2>1, <2>2, DrawnWith
<1>2. ASSUME NEW c \in OrderColumns, NEW d \in OrderColumns, NEW dir \in Order!Dirs,
             NEW second \in Order!Dirs, Order!Order(<<Order!Entry(c, dir), Order!Entry(d, second)>>)
      PROVE  OrderInv'
  <2> DEFINE es == <<Order!Entry(c, dir), Order!Entry(d, second)>>
  <2>1. es \in Seq(OrderEntries) /\ Len(es) <= OrderMaxOrder
    BY EntryTyped, OrderAssumption
  <2> HIDE DEF es
  <2> QED BY <1>2, <2>1, Ordered DEF es
<1>3. ASSUME NEW cols \in SUBSET OrderColumns, NEW dir \in Order!Dirs,
             Order!Cardinality(cols) <= OrderMaxOrder, Order!ColumnsOrder(cols, dir)
      PROVE  OrderInv'
  BY <1>3, ColumnsOrdered
<1>4. ASSUME NEW set \in OrderFixedOrders, Order!OrderFixed(set) PROVE OrderInv'
  BY <1>4 DEF OrderInv, OrderTyped, Order!OrderFixed, Order!LabelTellsNext
<1>5. ASSUME Order!Draw PROVE OrderInv'
  BY <1>0, <1>5, DrawnWith DEF Order!Draw
<1> QED BY <1>1, <1>2, <1>3, <1>4, <1>5 DEF Order!Next

LEMMA OrderUnchanged ==
  ASSUME OrderInv, UNCHANGED OrderVars PROVE OrderInv'
BY DEF OrderInv, OrderTyped, OrderVars, Order!LabelTellsNext, Order!Plain, Order!Clicked,
       Order!Turned, Order!Over, Order!NextIdx

LEMMA OrderMeant ==
  ASSUME OrderInv PROVE Order!LabelTellsNext /\ Order!TypeOK
<1>1. \A k \in DOMAIN aaSorting : aaSorting[k] \in OrderEntries
  BY DEF OrderInv, OrderTyped
<1> QED BY <1>1 DEF OrderInv, OrderTyped, Order!TypeOK, OrderEntries

(***************************************************************************)
(* What a shift-click keeps.                                               *)
(***************************************************************************)

OrderPairs == OrderColumns \X Order!Dirs
OtherPairs(c) == (OrderColumns \ {c}) \X Order!Dirs
PairsAlike(s, es) == Len(s) = Len(es) /\ \A k \in 1 .. Len(es) : s[k].col = es[k].col /\ s[k].dir = es[k].dir

LEMMA OthersOnly ==
  ASSUME NEW es, NEW c
  PROVE  Order!OfOthers(es, c) = Only(Order!Pairs(es), OtherPairs(c))
BY DEF Order!OfOthers, Order!Only, Only, OtherPairs

LEMMA PairsTyped ==
  ASSUME NEW es \in Seq(OrderEntries)
  PROVE  /\ Order!Pairs(es) \in Seq(OrderPairs) /\ Len(Order!Pairs(es)) = Len(es)
         /\ \A k \in 1 .. Len(es) : Order!Pairs(es)[k] = <<es[k].col, es[k].dir>>
<1>1. Len(es) \in Nat /\ DOMAIN es = 1 .. Len(es) /\ \A k \in 1 .. Len(es) : es[k] \in OrderEntries
  OBVIOUS
<1>2. Order!Pairs(es) = [k \in 1 .. Len(es) |-> <<es[k].col, es[k].dir>>]
  BY <1>1 DEF Order!Pairs
<1>3. \A k \in 1 .. Len(es) : <<es[k].col, es[k].dir>> \in OrderPairs
  BY <1>1 DEF OrderEntries, OrderPairs
<1> DEFINE l == Len(es)
<1> HIDE DEF l
<1>4. Order!Pairs(es) \in [1 .. l -> OrderPairs] /\ l \in Nat
  BY <1>1, <1>2, <1>3 DEF l
<1> DEFINE q == Order!Pairs(es)
<1>5. \A k \in 1 .. l : q[k] = <<es[k].col, es[k].dir>>
  BY <1>2 DEF l
<1> HIDE DEF q
<1>6. q \in [1 .. l -> OrderPairs]
  BY <1>4 DEF q
<1>7. q \in Seq(OrderPairs) /\ Len(q) = l
  BY <1>4, <1>6
<1> QED BY <1>5, <1>7 DEF l, q

\* An index given changes no column and no direction.
LEMMA IndexedAlike ==
  ASSUME NEW es \in Seq(OrderEntries), NEW ds \in [OrderColumns -> OrderSequences], dataSort = ds,
         NEW w, w = Order!WithIndexes(es), NEW c
  PROVE  Order!OfOthers(w, c) = Order!OfOthers(es, c)
<1>1. w \in Seq(OrderEntries) /\ Len(w) = Len(es)
  BY EntriesIndexed
<1>2. Len(es) \in Nat /\ DOMAIN es = 1 .. Len(es) /\ \A k \in 1 .. Len(es) : es[k] \in OrderEntries
  OBVIOUS
<1>3. \A k \in 1 .. Len(es) : w[k] = Order!Indexed(es[k])
  BY <1>2 DEF Order!WithIndexes
<1>4. \A e \in OrderEntries : Order!Indexed(e).col = e.col /\ Order!Indexed(e).dir = e.dir
  BY DEF Order!Indexed, OrderEntries
<1> DEFINE p == Order!Pairs(w)
           q == Order!Pairs(es)
<1>5. /\ p \in Seq(OrderPairs) /\ q \in Seq(OrderPairs) /\ Len(p) = Len(es) /\ Len(q) = Len(es)
      /\ \A k \in 1 .. Len(es) : p[k] = <<w[k].col, w[k].dir>> /\ q[k] = <<es[k].col, es[k].dir>>
  BY <1>1, PairsTyped
<1>6. ASSUME NEW k \in 1 .. Len(es) PROVE p[k] = q[k]
  <2>1. p[k] = <<w[k].col, w[k].dir>> /\ q[k] = <<es[k].col, es[k].dir>>
    BY <1>5
  <2>2. w[k].col = es[k].col /\ w[k].dir = es[k].dir
    BY <1>2, <1>3, <1>4
  <2> QED BY <2>1, <2>2
<1> HIDE DEF p, q
<1>7. Only(p, OtherPairs(c)) = Only(q, OtherPairs(c))
  BY <1>5, <1>6, OnlyAlike
<1> QED BY <1>7, OthersOnly DEF p, q

LEMMA ShiftOthers ==
  ASSUME NEW es \in Seq(OrderEntries), NEW c \in OrderColumns,
         NEW s, s = Order!ShiftClicked(es, c)
  PROVE  s # <<>> /\ Order!OfOthers(s, c) = Order!OfOthers(es, c)
<1> DEFINE K == { k \in DOMAIN es : es[k].col = c }
           m == CHOOSE j \in K : \A i \in K : j <= i
           q == Order!Pairs(es)
           p == Order!Pairs(s)
           S == OtherPairs(c)
<1>0. Len(es) \in Nat /\ DOMAIN es = 1 .. Len(es) /\ \A k \in 1 .. Len(es) : es[k] \in OrderEntries
  OBVIOUS
<1>s. s \in Seq(OrderEntries)
  BY ShiftClickedTyped
<1>q. /\ q \in Seq(OrderPairs) /\ Len(q) = Len(es)
      /\ \A k \in 1 .. Len(es) : q[k] = <<es[k].col, es[k].dir>>
  BY PairsTyped
<1>p. /\ p \in Seq(OrderPairs) /\ Len(p) = Len(s)
      /\ \A k \in 1 .. Len(s) : p[k] = <<s[k].col, s[k].dir>>
  BY <1>s, PairsTyped
<1>o. Order!OfOthers(s, c) = Only(p, S) /\ Order!OfOthers(es, c) = Only(q, S)
  BY OthersOnly
<1>n. \A dir : <<c, dir>> \notin S
  BY DEF OtherPairs
<1> HIDE DEF p, q, S
<1>1. CASE K = {}
  <2> DEFINE f == Order!First(c)
             x == <<f.col, f.dir>>
  <2>1. s = Append(es, f)
    BY <1>1 DEF Order!ShiftClicked
  <2>2. f \in OrderEntries /\ f.col = c
    BY FirstTyped DEF Order!First
  <2>3. x \in OrderPairs /\ x \notin S
    BY <1>n, <2>2 DEF OrderEntries, OrderPairs
  <2> HIDE DEF f
  <2>4. Len(s) = Len(es) + 1 /\ s[Len(es) + 1] = f /\ \A k \in 1 .. Len(es) : s[k] = es[k]
    BY <2>1, <2>2, AppendProperties
  <2> HIDE DEF x
  <2>5. Append(q, x) \in Seq(OrderPairs) /\ Len(Append(q, x)) = Len(es) + 1
        /\ (\A k \in 1 .. Len(es) : Append(q, x)[k] = q[k]) /\ Append(q, x)[Len(es) + 1] = x
    BY <1>q, <2>3, AppendProperties
  <2>6. p = Append(q, x)
    <3>1. \A k \in 1 .. Len(es) + 1 : k \in 1 .. Len(es) \/ k = Len(es) + 1
      BY <1>0
    <3>2. \A k \in 1 .. Len(es) : p[k] = Append(q, x)[k]
      <4>1. \A k \in 1 .. Len(es) : k \in 1 .. Len(s)
        BY <1>0, <2>4
      <4> QED BY <1>p, <1>q, <2>4, <2>5, <4>1
    <3>3. p[Len(es) + 1] = x
      <4>1. Len(es) + 1 \in 1 .. Len(s)
        BY <1>0, <2>4
      <4> QED BY <1>p, <2>4, <4>1 DEF x
    <3>4. \A k \in 1 .. Len(es) + 1 : p[k] = Append(q, x)[k]
      BY <2>5, <3>1, <3>2, <3>3
    <3> DEFINE v == Append(q, x)
    <3>5. v \in Seq(OrderPairs) /\ Len(v) = Len(p) /\ \A k \in 1 .. Len(p) : p[k] = v[k]
      BY <1>p, <2>4, <2>5, <3>4
    <3> HIDE DEF v
    <3>6. p = v
      BY <1>p, <3>5, SeqEqual
    <3> QED BY <3>6 DEF v
  <2>7. Only(p, S) = Only(q, S)
    BY <1>q, <2>3, <2>6, OnlyOne
  <2>8. s # <<>>
    BY <1>0, <2>4
  <2> QED BY <1>o, <2>7, <2>8
<1>2. CASE K # {}
  <2>1. m \in K
    <3>1. K \subseteq Nat
      BY <1>0
    <3> HIDE DEF K
    <3>2. PICK j \in K : \A i \in K : j <= i
      BY <1>2, <3>1, Least
    <3> QED BY <3>2
  <2>2. m \in 1 .. Len(es) /\ es[m] \in OrderEntries /\ es[m].col = c
    BY <1>0, <2>1
  <2>3. s = IF ~Order!Over(es[m])
            THEN [es EXCEPT ![m] = Order!Turned(es[m], Order!NextIdx(es[m]))]
            ELSE IF Len(es) = 1 THEN <<Order!Turned(es[1], 0)>>
            ELSE Order!Cut(es, m)
    <3>1. s = IF ~Order!Over(es[m]) THEN [es EXCEPT ![m] = Order!Turned(@, Order!NextIdx(@))]
              ELSE IF Len(es) = 1 THEN <<Order!Turned(es[1], 0)>>
              ELSE Order!Cut(es, m)
      BY <1>2 DEF Order!ShiftClicked
    <3> HIDE DEF m
    <3> QED BY <2>2, <3>1
  <2> HIDE DEF m, K
  <2>4. \A i : Order!Turned(es[m], i).col = c
    BY <2>2 DEF Order!Turned, OrderEntries
  <2>5. ASSUME Len(s) = Len(es), s[m].col = c, \A k \in 1 .. Len(es) : k # m => s[k] = es[k]
        PROVE  s # <<>> /\ Order!OfOthers(s, c) = Order!OfOthers(es, c)
    <3>1. Len(s) = Len(es) /\ s[m].col = c /\ \A k \in 1 .. Len(es) : k # m => s[k] = es[k]
      BY <2>5
    <3>2. \A k \in 1 .. Len(es) : p[k] = q[k] \/ (p[k] \notin S /\ q[k] \notin S)
      <4> TAKE k \in 1 .. Len(es)
      <4>1. p[k] = <<s[k].col, s[k].dir>> /\ q[k] = <<es[k].col, es[k].dir>>
        BY <1>p, <1>q, <3>1
      <4>2. CASE k = m
        <5>1. p[k] = <<c, s[k].dir>> /\ q[k] = <<c, es[k].dir>>
          BY <2>2, <2>5, <3>1, <4>1, <4>2
        <5> QED BY <5>1, <1>n
      <4>3. CASE k # m
        BY <3>1, <4>1, <4>3
      <4> QED BY <4>2, <4>3
    <3>3. Len(p) = Len(es) /\ Len(q) = Len(p)
      BY <1>p, <1>q, <3>1
    <3>4. Only(p, S) = Only(q, S)
      BY <1>p, <1>q, <3>2, <3>3, OnlyAlike
    <3>5. s # <<>>
      BY <2>2, <3>1
    <3> QED BY <1>o, <3>4, <3>5
  <2>6. CASE ~Order!Over(es[m])
    <3> DEFINE t == Order!Turned(es[m], Order!NextIdx(es[m]))
    <3>1. s = [es EXCEPT ![m] = t] /\ t.col = c
      BY <2>3, <2>4, <2>6
    <3> HIDE DEF t
    <3>2. Len(s) = Len(es) /\ s[m] = t /\ \A k \in 1 .. Len(es) : k # m => s[k] = es[k]
      BY <1>0, <1>s, <2>2, <3>1
    <3> QED BY <2>5, <3>1, <3>2
  <2>7. CASE Order!Over(es[m]) /\ Len(es) = 1
    <3> DEFINE t == Order!Turned(es[m], 0)
    <3>1. m = 1
      BY <2>2, <2>7
    <3>2. s = <<t>> /\ t.col = c
      BY <2>3, <2>4, <2>7, <3>1
    <3> HIDE DEF t
    <3>3. Len(s) = Len(es) /\ s[m] = t /\ \A k \in 1 .. Len(es) : k = m
      BY <2>7, <3>1, <3>2
    <3> QED BY <2>5, <3>2, <3>3
  <2>8. CASE Order!Over(es[m]) /\ Len(es) # 1
    <3>1. s = Cut(es, m)
      BY <2>3, <2>8 DEF Order!Cut, Cut
    <3>2. Len(s) = Len(es) - 1 /\ \A k \in 1 .. Len(s) : s[k] = IF k < m THEN es[k] ELSE es[k + 1]
      BY <2>2, <3>1, Removed
    <3>3. p = Cut(q, m)
      <4> DEFINE v == Cut(q, m)
      <4>1. m \in 1 .. Len(q)
        BY <1>q, <2>2
      <4>2. v \in Seq(OrderPairs) /\ Len(v) = Len(q) - 1
            /\ \A k \in 1 .. Len(v) : v[k] = IF k < m THEN q[k] ELSE q[k + 1]
        BY <1>q, <4>1, Removed
      <4> HIDE DEF v
      <4>3. Len(v) = Len(p)
        BY <1>p, <1>q, <3>2, <4>2
      <4>4. ASSUME NEW k \in 1 .. Len(p) PROVE p[k] = v[k]
        <5>1. k \in 1 .. Len(es) /\ k + 1 \in 1 .. Len(es) /\ k \in 1 .. Len(s) /\ k \in 1 .. Len(v)
          BY <1>0, <1>p, <3>2, <4>3
        <5>2. p[k] = <<s[k].col, s[k].dir>> /\ q[k] = <<es[k].col, es[k].dir>>
              /\ q[k + 1] = <<es[k + 1].col, es[k + 1].dir>>
          BY <1>p, <1>q, <5>1
        <5> QED BY <3>2, <4>2, <5>1, <5>2
      <4>5. p = v
        BY <1>p, <4>2, <4>3, <4>4, SeqEqual
      <4> QED BY <4>5 DEF v
    <3>4. q[m] \notin S /\ m \in 1 .. Len(q)
      BY <1>n, <1>q, <2>2
    <3>5. Only(p, S) = Only(q, S)
      BY <1>q, <3>3, <3>4, OnlyCut
    <3>6. s # <<>>
      <4>1. Len(s) >= 1
        BY <1>0, <2>2, <2>8, <3>2
      <4> QED BY <4>1
    <3> QED BY <1>o, <3>5, <3>6
  <2> QED BY <2>6, <2>7, <2>8
<1> QED BY <1>1, <1>2

LEMMA ShiftKeeps ==
  ASSUME OrderInv
  PROVE  Order!ShiftKeepsOthers
<1> SUFFICES ASSUME NEW c \in OrderColumns, Order!Click(c, TRUE)
             PROVE  aaSorting' # <<>> /\ Order!OfOthers(aaSorting', c) = Order!OfOthers(aaSorting, c)
  BY DEF Order!ShiftKeepsOthers
<1> DEFINE s == Order!ShiftClicked(aaSorting, c)
<1>1. aaSorting' = Order!WithIndexes(s)
  BY DEF Order!Click, Order!DrawWith
<1>2. aaSorting \in Seq(OrderEntries) /\ dataSort \in [OrderColumns -> OrderSequences]
  BY OrderAssumption DEF OrderInv, OrderTyped
<1>3. s \in Seq(OrderEntries) /\ s # <<>> /\ Order!OfOthers(s, c) = Order!OfOthers(aaSorting, c)
  BY <1>2, ShiftClickedTyped, ShiftOthers
<1> DEFINE w == Order!WithIndexes(s)
<1> HIDE DEF s
<1>4. Order!OfOthers(w, c) = Order!OfOthers(s, c) /\ w \in Seq(OrderEntries) /\ Len(w) = Len(s)
  BY <1>2, <1>3, IndexedAlike, EntriesIndexed
<1>5. w # <<>>
  <2>1. Len(s) # 0
    BY <1>3, EmptySeq
  <2> HIDE DEF w
  <2> QED BY <1>4, <2>1
<1> QED BY <1>1, <1>3, <1>4, <1>5

(***************************************************************************)
(* What an entry's index tells.                                            *)
(***************************************************************************)

\* An entry without an index, one whose index is that of its direction among
\* those of its heading, and one whose index is among those of the first column
\* it sorts by.
Told(e, ds) ==
  \/ e.idx = Nil
  \/ /\ e.idx \in Nat /\ e.idx < Len(OrderAsSorting[e.col])
     /\ OrderAsSorting[e.col][e.idx + 1] = e.dir
  \/ e.idx = Order!InArray(e.dir, OrderAsSorting[ds[e.col][1]])
AllTold(es, ds) == \A k \in 1 .. Len(es) : Told(es[k], ds)
IndexesTold == AllTold(aaSorting, dataSort)

\* Where a direction stands that is there.
LEMMA PositionOf ==
  ASSUME NEW S, NEW s \in Seq(S), NEW n \in 1 .. Len(s), NEW p, p = Order!InArray(s[n], s)
  PROVE  p \in Nat /\ p < Len(s) /\ s[p + 1] = s[n]
<1> DEFINE x == s[n]
           K == { k \in Nat : k \in 1 .. Len(s) /\ s[k] = x }
           c == CHOOSE k2 \in DOMAIN s : s[k2] = x /\ \A j \in DOMAIN s : s[j] = x => k2 <= j
<1>0. Len(s) \in Nat /\ DOMAIN s = 1 .. Len(s) /\ n \in Nat
  OBVIOUS
<1>1. x \in Order!Range(s)
  BY <1>0 DEF Order!Range
<1>2. n \in K
  BY <1>0
<1>3. \E m \in K : \A j \in K : m <= j
  <2>1. K \subseteq Nat /\ K # {}
    BY <1>2
  <2> HIDE DEF K
  <2> QED BY <2>1, Least
<1>4. PICK m \in K : \A j \in K : m <= j
  BY <1>3
<1>5. m \in DOMAIN s /\ s[m] = x /\ \A j \in DOMAIN s : s[j] = x => m <= j
  BY <1>0, <1>4
<1>6. c \in DOMAIN s /\ s[c] = x
  BY <1>5
<1>7. p = c - 1
  BY <1>1 DEF Order!InArray
<1> HIDE DEF c, x
<1>8. c \in 1 .. Len(s) /\ c \in Nat
  BY <1>0, <1>6
<1>9. p \in Nat /\ p < Len(s) /\ p + 1 = c
  BY <1>0, <1>7, <1>8
<1> QED BY <1>6, <1>9 DEF x

LEMMA TurnedTold ==
  ASSUME NEW e \in OrderEntries, NEW i \in Nat, i < Len(OrderAsSorting[e.col]), NEW ds
  PROVE  Told(Order!Turned(e, i), ds)
<1> DEFINE d == OrderAsSorting[e.col][i + 1]
           t == Order!Turned(e, i)
<1>1. t = [e EXCEPT !.dir = d, !.idx = i]
  BY DEF Order!Turned
<1> HIDE DEF d, t
<1>2. t.col = e.col /\ t.dir = d /\ t.idx = i
  BY <1>1 DEF OrderEntries
<1> QED BY <1>2 DEF Told, d, t

LEMMA FirstTold ==
  ASSUME NEW c \in OrderColumns, NEW ds
  PROVE  Told(Order!First(c), ds)
<1>1. Len(OrderAsSorting[c]) \in Nat /\ Len(OrderAsSorting[c]) >= 1
  BY Directions
<1>2. Order!First(c).col = c /\ Order!First(c).idx = 0 /\ Order!First(c).dir = OrderAsSorting[c][1]
  BY DEF Order!First
<1> QED BY <1>1, <1>2 DEF Told

LEMMA IndexedTold ==
  ASSUME NEW es \in Seq(OrderEntries), AllTold(es, dataSort)
  PROVE  AllTold(Order!WithIndexes(es), dataSort)
<1> DEFINE w == Order!WithIndexes(es)
<1>1. Len(es) \in Nat /\ DOMAIN es = 1 .. Len(es) /\ \A k \in 1 .. Len(es) : es[k] \in OrderEntries
  OBVIOUS
<1>2. w = [k \in 1 .. Len(es) |-> Order!Indexed(es[k])]
  BY <1>1 DEF Order!WithIndexes
<1>3. Len(w) = Len(es)
  BY <1>1, <1>2
<1>4. ASSUME NEW e \in OrderEntries, Told(e, dataSort)
      PROVE  Told(Order!Indexed(e), dataSort)
  <2>1. CASE e.idx # Nil
    BY <1>4, <2>1 DEF Order!Indexed
  <2>2. CASE e.idx = Nil
    <3> DEFINE p == Order!InArray(e.dir, OrderAsSorting[dataSort[e.col][1]])
               t == Order!Indexed(e)
    <3>1. t = [e EXCEPT !.idx = p]
      BY <2>2 DEF Order!Indexed
    <3> HIDE DEF p, t
    <3>2. t.col = e.col /\ t.dir = e.dir /\ t.idx = p
      BY <3>1 DEF OrderEntries
    <3> QED BY <3>2 DEF Told, p, t
  <2> QED BY <2>1, <2>2
<1>5. ASSUME NEW k \in 1 .. Len(es) PROVE Told(w[k], dataSort)
  <2>1. w[k] = Order!Indexed(es[k]) /\ es[k] \in OrderEntries /\ Told(es[k], dataSort)
    BY <1>1, <1>2 DEF AllTold
  <2> HIDE DEF w
  <2> QED BY <2>1, <1>4
<1> QED BY <1>3, <1>5 DEF AllTold

LEMMA ClickedTold ==
  ASSUME NEW es \in Seq(OrderEntries), NEW c \in OrderColumns, NEW ds
  PROVE  AllTold(Order!Clicked(es, c), ds)
<1>1. CASE es # <<>> /\ es[1].col = c
  <2>1. es[1] \in OrderEntries
    BY <1>1
  <2> DEFINE e == es[1]
             i == IF Order!Over(e) THEN 0 ELSE Order!NextIdx(e)
  <2>2. Order!NextIdx(e) \in Nat /\ Len(OrderAsSorting[e.col]) \in Nat
        /\ Len(OrderAsSorting[e.col]) >= 1
    BY <1>1, <2>1, NextIdxTyped, Directions
  <2>3. i \in Nat /\ i < Len(OrderAsSorting[e.col])
    BY <2>2 DEF Order!Over
  <2> HIDE DEF i
  <2>4. Told(Order!Turned(e, i), ds)
    BY <2>1, <2>3, TurnedTold
  <2>5. Order!Clicked(es, c) = <<Order!Turned(e, i)>>
    BY <1>1 DEF Order!Clicked, i
  <2> QED BY <2>4, <2>5 DEF AllTold
<1>2. CASE ~(es # <<>> /\ es[1].col = c)
  <2>1. Order!Clicked(es, c) = <<Order!First(c)>>
    BY <1>2 DEF Order!Clicked
  <2> QED BY <2>1, FirstTold DEF AllTold
<1> QED BY <1>1, <1>2

LEMMA ShiftClickedTold ==
  ASSUME NEW es \in Seq(OrderEntries), NEW c \in OrderColumns, NEW ds, AllTold(es, ds)
  PROVE  AllTold(Order!ShiftClicked(es, c), ds)
<1> DEFINE K == { k \in DOMAIN es : es[k].col = c }
           m == CHOOSE j \in K : \A i \in K : j <= i
           s == Order!ShiftClicked(es, c)
<1>0. Len(es) \in Nat /\ DOMAIN es = 1 .. Len(es) /\ \A k \in 1 .. Len(es) : es[k] \in OrderEntries
  OBVIOUS
<1>t. \A k \in 1 .. Len(es) : Told(es[k], ds)
  BY DEF AllTold
<1>1. CASE K = {}
  <2> DEFINE f == Order!First(c)
  <2>1. s = Append(es, f)
    BY <1>1 DEF Order!ShiftClicked
  <2>2. f \in OrderEntries /\ Told(f, ds)
    BY FirstTyped, FirstTold
  <2> HIDE DEF f, s
  <2>3. Len(s) = Len(es) + 1 /\ s[Len(es) + 1] = f /\ \A k \in 1 .. Len(es) : s[k] = es[k]
    BY <2>1, <2>2, AppendProperties
  <2>4. \A k \in 1 .. Len(s) : k \in 1 .. Len(es) \/ k = Len(es) + 1
    BY <1>0, <2>3
  <2>5. AllTold(s, ds)
    <3> SUFFICES ASSUME NEW k \in 1 .. Len(s) PROVE Told(s[k], ds)
      BY DEF AllTold
    <3>1. CASE k \in 1 .. Len(es)
      BY <1>t, <2>3, <3>1
    <3>2. CASE k = Len(es) + 1
      BY <2>2, <2>3, <3>2
    <3> QED BY <2>4, <3>1, <3>2
  <2> QED BY <2>5 DEF s
<1>2. CASE K # {}
  <2>1. m \in K
    <3>1. K \subseteq Nat
      BY <1>0
    <3> HIDE DEF K
    <3>2. PICK j \in K : \A i \in K : j <= i
      BY <1>2, <3>1, Least
    <3> QED BY <3>2
  <2>2. m \in 1 .. Len(es) /\ es[m] \in OrderEntries /\ es[m].col = c
    BY <1>0, <2>1
  <2>3. s = IF ~Order!Over(es[m])
            THEN [es EXCEPT ![m] = Order!Turned(es[m], Order!NextIdx(es[m]))]
            ELSE IF Len(es) = 1 THEN <<Order!Turned(es[1], 0)>>
            ELSE Order!Cut(es, m)
    <3>1. s = IF ~Order!Over(es[m]) THEN [es EXCEPT ![m] = Order!Turned(@, Order!NextIdx(@))]
              ELSE IF Len(es) = 1 THEN <<Order!Turned(es[1], 0)>>
              ELSE Order!Cut(es, m)
      BY <1>2 DEF Order!ShiftClicked
    <3> HIDE DEF m
    <3> QED BY <2>2, <3>1
  <2>s. s \in Seq(OrderEntries)
    BY ShiftClickedTyped
  <2> HIDE DEF m, K, s
  <2>4. Order!NextIdx(es[m]) \in Nat /\ Len(OrderAsSorting[es[m].col]) \in Nat
        /\ Len(OrderAsSorting[es[m].col]) >= 1
    BY <2>2, NextIdxTyped, Directions
  <2>5. CASE ~Order!Over(es[m])
    <3> DEFINE t == Order!Turned(es[m], Order!NextIdx(es[m]))
    <3>1. Order!NextIdx(es[m]) < Len(OrderAsSorting[es[m].col])
      BY <2>4, <2>5 DEF Order!Over
    <3>2. Told(t, ds)
      BY <2>2, <2>4, <3>1, TurnedTold
    <3>3. s = [es EXCEPT ![m] = t]
      BY <2>3, <2>5
    <3> HIDE DEF t
    <3>4. Len(s) = Len(es) /\ s[m] = t /\ \A k \in 1 .. Len(es) : k # m => s[k] = es[k]
      BY <1>0, <2>2, <2>s, <3>3
    <3>5. AllTold(s, ds)
      <4> SUFFICES ASSUME NEW k \in 1 .. Len(es) PROVE Told(s[k], ds)
        BY <3>4 DEF AllTold
      <4>1. CASE k = m
        BY <3>2, <3>4, <4>1
      <4>2. CASE k # m
        BY <1>t, <3>4, <4>2
      <4> QED BY <4>1, <4>2
    <3> QED BY <3>5 DEF s
  <2>6. CASE Order!Over(es[m]) /\ Len(es) = 1
    <3>1. m = 1
      BY <2>2, <2>6
    <3>2. Told(Order!Turned(es[m], 0), ds)
      BY <2>2, <2>4, TurnedTold
    <3>3. s = <<Order!Turned(es[m], 0)>>
      BY <2>3, <2>6, <3>1
    <3>4. AllTold(s, ds)
      BY <3>2, <3>3 DEF AllTold
    <3> QED BY <3>4 DEF s
  <2>7. CASE Order!Over(es[m]) /\ Len(es) # 1
    <3>1. s = Cut(es, m)
      BY <2>3, <2>7 DEF Order!Cut, Cut
    <3>2. Len(s) = Len(es) - 1 /\ \A k \in 1 .. Len(s) : s[k] = IF k < m THEN es[k] ELSE es[k + 1]
      BY <2>2, <3>1, Removed
    <3>3. AllTold(s, ds)
      <4> SUFFICES ASSUME NEW k \in 1 .. Len(s) PROVE Told(s[k], ds)
        BY DEF AllTold
      <4>1. k \in 1 .. Len(es) /\ k + 1 \in 1 .. Len(es)
        BY <1>0, <3>2
      <4>2. s[k] = es[k] \/ s[k] = es[k + 1]
        BY <3>2
      <4>3. Told(es[k], ds) /\ Told(es[k + 1], ds)
        BY <1>t, <4>1
      <4> QED BY <4>2, <4>3
    <3> QED BY <3>3 DEF s
  <2> QED BY <2>5, <2>6, <2>7
<1> QED BY <1>1, <1>2

\* The API's entries have no index.
LEMMA NewTold ==
  ASSUME NEW es, \A k \in 1 .. Len(es) : es[k].idx = Nil, Order!Order(es)
  PROVE  IndexesTold'
BY DEF IndexesTold, AllTold, Told, Order!Order

LEMMA ToldInitially ==
  ASSUME Order!Init PROVE IndexesTold
BY DEF Order!Init, IndexesTold, AllTold

LEMMA ToldUnchanged ==
  ASSUME IndexesTold, UNCHANGED OrderVars PROVE IndexesTold'
BY DEF IndexesTold, OrderVars

LEMMA ToldStep ==
  ASSUME OrderInv, IndexesTold, Order!Next
  PROVE  IndexesTold'
<1>0. aaSorting \in Seq(OrderEntries) /\ AllTold(aaSorting, dataSort)
  BY DEF OrderInv, OrderTyped, IndexesTold
<1>1. ASSUME NEW es \in Seq(OrderEntries), AllTold(es, dataSort), Order!DrawWith(es)
      PROVE  IndexesTold'
  <2>1. aaSorting' = Order!WithIndexes(es) /\ dataSort' = dataSort
    BY <1>1 DEF Order!DrawWith
  <2>2. AllTold(Order!WithIndexes(es), dataSort)
    BY <1>1, IndexedTold
  <2> QED BY <2>1, <2>2 DEF IndexesTold
<1>2. ASSUME NEW c \in OrderColumns, NEW shift \in BOOLEAN, Order!Click(c, shift) PROVE IndexesTold'
  <2> DEFINE es == IF shift THEN Order!ShiftClicked(aaSorting, c) ELSE Order!Clicked(aaSorting, c)
  <2>1. Order!DrawWith(es)
    BY <1>2 DEF Order!Click
  <2>2. es \in Seq(OrderEntries) /\ AllTold(es, dataSort)
    BY <1>0, ClickedTyped, ShiftClickedTyped, ClickedTold, ShiftClickedTold
  <2> HIDE DEF es
  <2> QED BY <2>1, <2>2, <1>1
<1>3. ASSUME NEW c \in OrderColumns, NEW d \in OrderColumns, NEW dir \in Order!Dirs,
             NEW second \in Order!Dirs, Order!Order(<<Order!Entry(c, dir), Order!Entry(d, second)>>)
      PROVE  IndexesTold'
  <2> DEFINE es == <<Order!Entry(c, dir), Order!Entry(d, second)>>
  <2>1. \A k \in 1 .. Len(es) : es[k].idx = Nil
    <3>1. Len(es) = 2 /\ \A k \in 1 .. 2 : k = 1 \/ k = 2
      OBVIOUS
    <3>2. es[1].idx = Nil /\ es[2].idx = Nil
      BY DEF Order!Entry
    <3> QED BY <3>1, <3>2
  <2> HIDE DEF es
  <2> QED BY <1>3, <2>1, NewTold DEF es
<1>4. ASSUME NEW cols \in SUBSET OrderColumns, NEW dir \in Order!Dirs,
             Order!Cardinality(cols) <= OrderMaxOrder, Order!ColumnsOrder(cols, dir)
      PROVE  IndexesTold'
  <2>1. Cardinality(cols) \in Nat /\ Order!Cardinality(cols) = Cardinality(cols)
    <3>1. Order!Cardinality(cols) = Cardinality(cols)
      BY Zenon DEF Order!Cardinality, Cardinality
    <3> QED BY <3>1, OrderAssumption, FS_Subset, FS_CardinalityType
  <2> DEFINE n == Order!Cardinality(cols)
  <2>2. PICK cs \in [1 .. n -> cols] : Order!Order([k \in DOMAIN cs |-> Order!Entry(cs[k], dir)])
    BY <1>4 DEF Order!ColumnsOrder
  <2>3. n \in Nat
    BY <2>1
  <2> DEFINE es == [k \in DOMAIN cs |-> Order!Entry(cs[k], dir)]
  <2> HIDE DEF n
  <2>4. Len(es) = n /\ \A k \in 1 .. n : es[k].idx = Nil
    BY <2>3 DEF Order!Entry
  <2>5. Order!Order(es)
    BY <2>2
  <2> HIDE DEF es
  <2> QED BY <2>4, <2>5, NewTold
<1>5. ASSUME NEW set \in OrderFixedOrders, Order!OrderFixed(set) PROVE IndexesTold'
  <2>1. aaSorting' = aaSorting /\ dataSort' = dataSort
    BY <1>5 DEF Order!OrderFixed
  <2> QED BY <1>0, <2>1 DEF IndexesTold
<1>6. ASSUME Order!Draw PROVE IndexesTold'
  BY <1>0, <1>1, <1>6 DEF Order!Draw
<1> QED BY <1>2, <1>3, <1>4, <1>5, <1>6 DEF Order!Next

LEMMA ClickTurns ==
  ASSUME OrderInv, IndexesTold
  PROVE  Order!ClickTurnsOver
<1> SUFFICES ASSUME NEW c \in OrderColumns, Order!Click(c, FALSE), aaSorting # <<>>,
                    aaSorting[1].col = c,
                    OrderAsSorting[c] \in {<<"asc", "desc">>, <<"desc", "asc">>},
                    OrderAsSorting[dataSort[c][1]] = OrderAsSorting[c]
             PROVE  aaSorting'[1].dir # aaSorting[1].dir
  BY DEF Order!ClickTurnsOver
<1> DEFINE e == aaSorting[1]
           s == OrderAsSorting[c]
           i == IF Order!Over(e) THEN 0 ELSE Order!NextIdx(e)
           p == Order!InArray(e.dir, s)
           q == IF e.idx = Nil THEN p ELSE e.idx
           t == Order!Turned(e, i)
<1>0. aaSorting \in Seq(OrderEntries)
  BY DEF OrderInv, OrderTyped
<1>1. e \in OrderEntries /\ e.col = c /\ 1 \in 1 .. Len(aaSorting)
  BY <1>0
<1>2. Told(e, dataSort)
  BY <1>1 DEF IndexesTold, AllTold
<1>3. Order!Clicked(aaSorting, c) = <<t>>
  BY DEF Order!Clicked
<1>4. aaSorting' = Order!WithIndexes(<<t>>)
  BY <1>3 DEF Order!Click, Order!DrawWith
<1>5. t = [e EXCEPT !.dir = s[i + 1], !.idx = i]
  BY <1>1 DEF Order!Turned
<1>6. aaSorting'[1] = Order!Indexed(t)
  BY <1>4 DEF Order!WithIndexes
<1>n. Order!NextIdx(e) = q + 1 /\ (Order!Over(e) <=> q + 1 >= Len(s))
  BY <1>1 DEF Order!NextIdx, Order!Over
<1>d. e.dir \in Order!Dirs
  BY <1>1 DEF OrderEntries
<1>s. s \in {<<"asc", "desc">>, <<"desc", "asc">>}
  OBVIOUS
<1>i. i = IF q + 1 >= Len(s) THEN 0 ELSE q + 1
  BY <1>n
<1>2a. \/ e.idx = Nil
       \/ e.idx \in Nat /\ e.idx < Len(s) /\ s[e.idx + 1] = e.dir
       \/ e.idx = p
  BY <1>1, <1>2 DEF Told
<1>p. p \in Nat /\ p < Len(s) /\ s[p + 1] = e.dir
  <2>1. s \in Seq(Order!Dirs) /\ Len(s) = 2
    <3>1. "asc" \in Order!Dirs /\ "desc" \in Order!Dirs
      BY DEF Order!Dirs
    <3>2. s = <<"asc", "desc">> \/ s = <<"desc", "asc">>
      BY <1>s
    <3>3. /\ <<"asc", "desc">> \in Seq(Order!Dirs) /\ Len(<<"asc", "desc">>) = 2
          /\ <<"desc", "asc">> \in Seq(Order!Dirs) /\ Len(<<"desc", "asc">>) = 2
      BY <3>1
    <3> HIDE DEF s
    <3> QED BY <3>2, <3>3, Zenon
  <2>2. \E n \in 1 .. Len(s) : s[n] = e.dir
    <3>1. e.dir = "asc" \/ e.dir = "desc"
      BY <1>d DEF Order!Dirs
    <3>2. (s[1] = "asc" /\ s[2] = "desc") \/ (s[1] = "desc" /\ s[2] = "asc")
      BY <1>s
    <3>3. s[1] = e.dir \/ s[2] = e.dir
      BY <3>1, <3>2
    <3>4. 1 \in 1 .. Len(s) /\ 2 \in 1 .. Len(s)
      BY <2>1
    <3> QED BY <3>3, <3>4
  <2>3. PICK n \in 1 .. Len(s) : s[n] = e.dir
    BY <2>2
  <2>4. p = Order!InArray(s[n], s)
    BY <2>3
  <2> HIDE DEF s, p
  <2> QED BY <2>1, <2>3, <2>4, PositionOf
<1> HIDE DEF e, s, i, p, t
<1>7. Order!Indexed(t).dir = s[i + 1]
  <2>1. t.dir = s[i + 1] /\ t \in [col : OrderColumns, dir : {s[i + 1]}, idx : {i}]
    BY <1>1, <1>5 DEF OrderEntries
  <2> QED BY <2>1 DEF Order!Indexed
<1>8. q \in Nat /\ q < Len(s) /\ s[q + 1] = e.dir
  BY <1>2a, <1>p
<1> HIDE DEF q
<1>9. s[i + 1] # e.dir
  <2>1. Len(s) = 2 /\ s[1] # s[2]
    BY <1>s
  <2>2. q = 0 \/ q = 1
    BY <1>8, <2>1
  <2>3. CASE q = 0
    BY <1>8, <1>i, <2>1, <2>3
  <2>4. CASE q = 1
    BY <1>8, <1>i, <2>1, <2>4
  <2> QED BY <2>2, <2>3, <2>4
<1> QED BY <1>6, <1>7, <1>9 DEF e

(***************************************************************************)
(* The columns: the rows and child rows in the table, and their cells.     *)
(***************************************************************************)

\* Two more are one more, twice.
LEMMA AppendTwo ==
  ASSUME NEW X, NEW h \in Seq(X), NEW x \in X, NEW y \in X
  PROVE  /\ h \o <<x, y>> = Append(Append(h, x), y)
         /\ Append(h, x) \in Seq(X) /\ Append(Append(h, x), y) \in Seq(X)
<1> DEFINE g == Append(h, x)
           v == Append(g, y)
           two == <<x, y>>
           w == h \o two
           n == Len(h)
<1>0. n \in Nat
  OBVIOUS
<1>1. g \in Seq(X) /\ Len(g) = n + 1 /\ (\A i \in 1 .. n : g[i] = h[i]) /\ g[n + 1] = x
  BY AppendProperties
<1>2. two \in Seq(X) /\ Len(two) = 2 /\ two[1] = x /\ two[2] = y
  OBVIOUS
<1> HIDE DEF g, two, n
<1>3. v \in Seq(X) /\ Len(v) = Len(g) + 1 /\ (\A i \in 1 .. Len(g) : v[i] = g[i]) /\ v[Len(g) + 1] = y
  BY <1>1, AppendProperties
<1>4. w \in Seq(X) /\ Len(w) = n + Len(two)
      /\ \A i \in 1 .. n + Len(two) : w[i] = IF i <= n THEN h[i] ELSE two[i - n]
  BY <1>2, ConcatProperties DEF n
<1> HIDE DEF v, w
<1>5. Len(v) = n + 2 /\ Len(w) = n + 2
  BY <1>0, <1>1, <1>2, <1>3, <1>4
<1>6. ASSUME NEW i \in 1 .. n + 2 PROVE w[i] = v[i]
  <2>1. CASE i \in 1 .. n
    BY <2>1, <1>0, <1>1, <1>2, <1>3, <1>4
  <2>2. CASE i = n + 1
    <3>1. w[i] = two[1]
      BY <2>2, <1>0, <1>2, <1>4
    <3>2. v[i] = x
      BY <2>2, <1>0, <1>1, <1>3
    <3> QED BY <3>1, <3>2, <1>2
  <2>3. CASE i = n + 2
    <3>1. w[i] = two[2]
      BY <2>3, <1>0, <1>2, <1>4
    <3>2. v[i] = y
      BY <2>3, <1>0, <1>1, <1>3
    <3> QED BY <3>1, <3>2, <1>2
  <2> QED BY <2>1, <2>2, <2>3, <1>0
<1>7. w = v
  BY <1>3, <1>4, <1>5, <1>6, SeqEqual
<1> QED BY <1>1, <1>3, <1>7 DEF g, v, w, two

\* The turns of the loop of Behind.
PutsRows(b, a, S) ==
  b = [k \in 0 .. Len(a) |->
         IF k = 0 THEN <<>>
         ELSE IF ~a[k].child /\ a[k].row \in S
              THEN b[k - 1] \o <<a[k], Heading!Child(a[k].row)>>
              ELSE Append(b[k - 1], a[k])]
PutOf(a, S) == CHOOSE b : PutsRows(b, a, S)
HasChild(x, S) == ~x.child /\ x.row \in S
TurnsPut(b, a, S, size) ==
  /\ b[0] = <<>>
  /\ \A k \in 1 .. size :
       b[k] = IF HasChild(a[k], S) THEN Append(Append(b[k - 1], a[k]), Heading!Child(a[k].row))
              ELSE Append(b[k - 1], a[k])

LEMMA HeadingNodes ==
  /\ \A x \in Heading!Nodes : /\ x.row \in Heading!TableRow /\ x.child \in BOOLEAN
                              /\ x = [row |-> x.row, child |-> x.child]
                              /\ Heading!Child(x.row) \in Heading!Nodes
  /\ \A i \in Heading!TableRow :
       /\ Heading!Node(i) \in Heading!Nodes /\ Heading!Child(i) \in Heading!Nodes
       /\ Heading!Node(i).row = i /\ ~Heading!Node(i).child
       /\ Heading!Child(i).row = i /\ Heading!Child(i).child
BY DEF Heading!Nodes, Heading!Node, Heading!Child

LEMMA PutTurns ==
  ASSUME NEW a \in Seq(Heading!Nodes), NEW S
  PROVE  /\ Heading!Behind(a, S) = PutOf(a, S)[Len(a)]
         /\ TurnsPut(PutOf(a, S), a, S, Len(a))
         /\ \A k \in 0 .. Len(a) : PutOf(a, S)[k] \in Seq(Heading!Nodes)
<1> DEFINE X == Heading!Nodes
           size == Len(a)
           b == PutOf(a, S)
           C(k) == Heading!Child(a[k].row)
           do == [k \in 1 .. size |-> [h \in Seq(X) |->
                    IF HasChild(a[k], S) THEN Append(Append(h, a[k]), C(k)) ELSE Append(h, a[k])]]
<1>0. size \in Nat /\ \A k \in 1 .. size : a[k] \in X /\ C(k) \in X
  <2>1. size \in Nat /\ \A k \in 1 .. size : a[k] \in X
    OBVIOUS
  <2> QED BY <2>1, HeadingNodes
<1>r. /\ 0 \in 0 .. size /\ \A k \in 0 .. size : k = 0 \/ k \in 1 .. size
      /\ \A k \in 1 .. size : k # 0 /\ k \in 0 .. size /\ k - 1 \in 0 .. size
  <2> HIDE DEF size
  <2> QED BY <1>0
<1>1. Heading!Behind(a, S) = b[size]
  BY DEF Heading!Behind, PutsRows, PutOf
<1>c. \A h \in Seq(X), x, y \in X : /\ h \o <<x, y>> = Append(Append(h, x), y)
                                    /\ Append(h, x) \in Seq(X) /\ Append(Append(h, x), y) \in Seq(X)
  <2> HIDE DEF X
  <2> QED BY AppendTwo
<1>2. do \in [1 .. size -> [Seq(X) -> Seq(X)]]
  <2> HIDE DEF size, X, C
  <2> SUFFICES ASSUME NEW k \in 1 .. size, NEW h \in Seq(X)
               PROVE (IF HasChild(a[k], S) THEN Append(Append(h, a[k]), C(k)) ELSE Append(h, a[k])) \in Seq(X)
    OBVIOUS
  <2> QED BY <1>0, <1>c
<1>3. PICK c : Loops(c, <<>>, size, do) /\ \A k \in 0 .. size : c[k] \in Seq(X)
  <2> HIDE DEF do, size, X
  <2>1. <<>> \in Seq(X)
    OBVIOUS
  <2> QED BY <1>0, <1>2, <2>1, Loop
<1>4. PutsRows(c, a, S)
  <2>1. c = [k \in 0 .. size |-> c[k]] /\ c[0] = <<>>
        /\ \A k \in 1 .. size : c[k] = do[k][c[k - 1]]
    BY <1>3 DEF Loops
  <2> HIDE DEF size, X
  <2>2. \A k \in 1 .. size : c[k] = IF HasChild(a[k], S) THEN c[k - 1] \o <<a[k], C(k)>>
                                    ELSE Append(c[k - 1], a[k])
    <3> SUFFICES ASSUME NEW k \in 1 .. size
                 PROVE  c[k] = IF HasChild(a[k], S) THEN c[k - 1] \o <<a[k], C(k)>>
                               ELSE Append(c[k - 1], a[k])
      OBVIOUS
    <3>1. c[k - 1] \in Seq(X) /\ a[k] \in X /\ C(k) \in X
      BY <1>0, <1>3, <1>r
    <3>2. c[k - 1] \o <<a[k], C(k)>> = Append(Append(c[k - 1], a[k]), C(k))
      <4> DEFINE h == c[k - 1]
                 x == a[k]
                 y == C(k)
      <4>1. h \in Seq(X) /\ x \in X /\ y \in X
        BY <3>1
      <4> HIDE DEF h, x, y
      <4>2. h \o <<x, y>> = Append(Append(h, x), y)
        BY <4>1, <1>c
      <4> QED BY <4>2 DEF h, x, y
    <3> QED BY <2>1, <3>1, <3>2
  <2>3. \A k \in 0 .. size : c[k] = IF k = 0 THEN <<>>
            ELSE IF HasChild(a[k], S) THEN c[k - 1] \o <<a[k], C(k)>> ELSE Append(c[k - 1], a[k])
    BY <2>1, <2>2, <1>r
  <2>4. c = [k \in 0 .. size |-> IF k = 0 THEN <<>>
            ELSE IF HasChild(a[k], S) THEN c[k - 1] \o <<a[k], C(k)>> ELSE Append(c[k - 1], a[k])]
    BY <2>1, <2>3
  <2> QED BY <2>4 DEF PutsRows, size, C, HasChild
<1>5. PutsRows(b, a, S)
  BY <1>4 DEF PutOf
<1> HIDE DEF do, b
<1> DEFINE T == {k \in 0 .. size : b[k] \in Seq(X)}
<1>6. b[0] = <<>> /\ \A k \in 1 .. size : b[k] = IF HasChild(a[k], S) THEN b[k - 1] \o <<a[k], C(k)>>
                                                 ELSE Append(b[k - 1], a[k])
  <2>1. \A k \in 0 .. size : b[k] = IF k = 0 THEN <<>>
            ELSE IF HasChild(a[k], S) THEN b[k - 1] \o <<a[k], C(k)>> ELSE Append(b[k - 1], a[k])
    BY <1>5 DEF PutsRows, HasChild
  <2> HIDE DEF size, C
  <2> QED BY <2>1, <1>r
<1> HIDE DEF size, X, C
<1>7. 0 \in T
  <2>1. <<>> \in Seq(X)
    OBVIOUS
  <2> QED BY <2>1, <1>6, <1>r
<1>8. ASSUME NEW k \in 1 .. size, k - 1 \in T
      PROVE  /\ k \in T
             /\ b[k] = IF HasChild(a[k], S) THEN Append(Append(b[k - 1], a[k]), C(k))
                       ELSE Append(b[k - 1], a[k])
  <2> DEFINE h == b[k - 1]
             x == a[k]
             y == C(k)
  <2>1. x \in X /\ y \in X /\ h \in Seq(X) /\ k \in 0 .. size
    BY <1>8, <1>0, <1>r
  <2>2. b[k] = IF HasChild(x, S) THEN h \o <<x, y>> ELSE Append(h, x)
    BY <1>6
  <2> HIDE DEF h, x, y
  <2>3. /\ h \o <<x, y>> = Append(Append(h, x), y)
        /\ Append(h, x) \in Seq(X) /\ Append(Append(h, x), y) \in Seq(X)
    BY <2>1, <1>c
  <2>4. b[k] \in Seq(X) /\ b[k] = IF HasChild(x, S) THEN Append(Append(h, x), y) ELSE Append(h, x)
    BY <2>2, <2>3
  <2> QED BY <2>1, <2>4 DEF h, x, y
<1>9. \A n \in 0 .. size : n \in T
  <2> SUFFICES ASSUME NEW n \in 0 .. size PROVE n \in T
    OBVIOUS
  <2>1. n \in Nat /\ \A k \in 1 .. n : k \in 1 .. size
    BY <1>0
  <2>2. \A k \in 1 .. n : k - 1 \in T => k \in T
    <3> HIDE DEF T
    <3> QED BY <2>1, <1>8
  <2> HIDE DEF T
  <2> QED BY <1>7, <2>1, <2>2, Counted
<1>10. TurnsPut(b, a, S, size)
  <2>1. \A k \in 1 .. size : k - 1 \in T
    <3> HIDE DEF T
    <3> QED BY <1>9, <1>r
  <2>2. \A k \in 1 .. size : b[k] = IF HasChild(a[k], S) THEN Append(Append(b[k - 1], a[k]), C(k))
                                    ELSE Append(b[k - 1], a[k])
    <3> HIDE DEF T
    <3> QED BY <2>1, <1>8
  <2> QED BY <1>6, <2>2 DEF TurnsPut, C
<1> QED BY <1>1, <1>9, <1>10 DEF size, b, X

LEMMA BehindNone ==
  ASSUME NEW S
  PROVE  Heading!Behind(<<>>, S) = <<>>
<1>1. <<>> \in Seq(Heading!Nodes) /\ Len(<<>>) = 0
  OBVIOUS
<1>2. Heading!Behind(<<>>, S) = PutOf(<<>>, S)[Len(<<>>)]
      /\ TurnsPut(PutOf(<<>>, S), <<>>, S, Len(<<>>))
  BY <1>1, PutTurns
<1> QED BY <1>1, <1>2 DEF TurnsPut

LEMMA BehindOne ==
  ASSUME NEW a \in Seq(Heading!Nodes), NEW x \in Heading!Nodes, NEW S
  PROVE  /\ Heading!Behind(a, S) \in Seq(Heading!Nodes)
         /\ Heading!Behind(Append(a, x), S) =
              IF HasChild(x, S) THEN Append(Append(Heading!Behind(a, S), x), Heading!Child(x.row))
              ELSE Append(Heading!Behind(a, S), x)
<1> DEFINE X == Heading!Nodes
           w == Append(a, x)
           b == PutOf(a, S)
           d == PutOf(w, S)
           size == Len(a)
<1>1. w \in Seq(X) /\ Len(w) = size + 1 /\ (\A i \in 1 .. size : w[i] = a[i]) /\ w[size + 1] = x
  BY AppendProperties
<1>2. Heading!Behind(a, S) = b[size] /\ TurnsPut(b, a, S, size) /\ \A k \in 0 .. size : b[k] \in Seq(X)
  BY PutTurns
<1>0. size \in Nat
  OBVIOUS
<1> HIDE DEF w, b, size, X
<1>3. Heading!Behind(w, S) = d[size + 1] /\ TurnsPut(d, w, S, size + 1)
  <2>1. Heading!Behind(w, S) = d[Len(w)] /\ TurnsPut(d, w, S, Len(w))
    BY <1>1, PutTurns DEF X
  <2> QED BY <2>1, <1>1
<1> HIDE DEF d
<1> DEFINE T == {k \in 0 .. size : d[k] = b[k]}
<1>4. 0 \in T
  BY <1>2, <1>3, <1>0 DEF TurnsPut
<1>5. \A k \in 1 .. size : k - 1 \in T => k \in T
  <2> SUFFICES ASSUME NEW k \in 1 .. size, k - 1 \in T PROVE k \in T
    OBVIOUS
  <2>1. k \in 1 .. size + 1 /\ k \in 0 .. size /\ d[k - 1] = b[k - 1]
    BY <1>0
  <2> QED BY <2>1, <1>1, <1>2, <1>3 DEF TurnsPut
<1>6. size \in T
  <2> HIDE DEF T
  <2> QED BY <1>0, <1>4, <1>5, Counted
<1>7. size + 1 \in 1 .. size + 1 /\ (size + 1) - 1 = size /\ size \in 0 .. size
  BY <1>0
<1>8. d[size + 1] = IF HasChild(w[size + 1], S)
                    THEN Append(Append(d[(size + 1) - 1], w[size + 1]), Heading!Child(w[size + 1].row))
                    ELSE Append(d[(size + 1) - 1], w[size + 1])
  BY <1>3, <1>7 DEF TurnsPut
<1>9. d[(size + 1) - 1] = b[size]
  BY <1>6, <1>7
<1> QED BY <1>1, <1>2, <1>3, <1>7, <1>8, <1>9 DEF w, X

Trs == {Heading!Node(i) : i \in Heading!TableRow}

LEMMA TrsNodes ==
  /\ Trs \subseteq Heading!Nodes /\ Seq(Trs) \subseteq Seq(Heading!Nodes)
  /\ \A x \in Trs : x \in Heading!Nodes /\ ~x.child /\ Heading!Node(x.row) = x
  /\ \A i \in Heading!TableRow : Heading!Child(i) \notin Trs
<1>1. Trs \subseteq Heading!Nodes
  BY HeadingNodes DEF Trs
<1>2. Seq(Trs) \subseteq Seq(Heading!Nodes)
  BY <1>1, SeqMonotonic
<1>3. \A x \in Trs : x \in Heading!Nodes /\ ~x.child /\ Heading!Node(x.row) = x
  BY HeadingNodes DEF Trs
<1>4. \A i \in Heading!TableRow : Heading!Child(i) \notin Trs
  BY <1>3, HeadingNodes
<1> QED BY <1>1, <1>2, <1>3, <1>4

LEMMA HeadingOnly == \A a, S : Heading!Only(a, S) = Only(a, S)
BY DEF Heading!Only, Only

\* The child row of one row is taken away.
LEMMA BehindWithout ==
  ASSUME NEW a \in Seq(Trs), NEW i \in Heading!TableRow, NEW S
  PROVE  Heading!Detach(Heading!Behind(a, S), i) = Heading!Behind(a, S \ {i})
<1> DEFINE X == Heading!Nodes
           R == X \ {Heading!Child(i)}
           B(s, V) == Heading!Behind(s, V)
           V == S \ {i}
           T == {s \in Seq(Trs) : Only(B(s, S), R) = B(s, V)}
<1>1. <<>> \in T
  <2>1. <<>> \in Seq(Trs)
    OBVIOUS
  <2> QED BY <2>1, BehindNone, OnlyNone
<1>2. ASSUME NEW s \in Seq(Trs), NEW x \in Trs, s \in T PROVE Append(s, x) \in T
  <2> DEFINE w == Append(s, x)
             b == B(s, S)
             c == Heading!Child(x.row)
             bx == Append(b, x)
             d == B(s, V)
  <2>1. s \in Seq(X) /\ x \in X /\ ~x.child /\ w \in Seq(Trs)
    BY TrsNodes, AppendProperties
  <2>2. /\ b \in Seq(X) /\ B(w, S) = IF HasChild(x, S) THEN Append(bx, c) ELSE bx
    BY <2>1, BehindOne
  <2>3. B(w, V) = IF HasChild(x, V) THEN Append(Append(d, x), c) ELSE Append(d, x)
    BY <2>1, BehindOne
  <2>4. c \in X /\ x # Heading!Child(i) /\ (c = Heading!Child(i) <=> x.row = i)
        /\ x.row \in Heading!TableRow
    BY <2>1, HeadingNodes
  <2>5. Only(b, R) = d
    BY <1>2
  <2>r. x \in R
    BY <2>1, <2>4
  <2>9. c \in R <=> x.row # i
    BY <2>4
  <2> HIDE DEF b, c, X, w, d, B, R
  <2>6. bx \in Seq(X)
    BY <2>1, <2>2, AppendProperties
  <2>7. Only(bx, R) = Append(d, x)
    <3>1. Only(bx, R) = IF x \in R THEN Append(Only(b, R), x) ELSE Only(b, R)
      BY <2>1, <2>2, OnlyOne
    <3> QED BY <3>1, <2>r, <2>5
  <2> HIDE DEF bx
  <2>8. Only(Append(bx, c), R) = IF c \in R THEN Append(Only(bx, R), c) ELSE Only(bx, R)
    BY <2>4, <2>6, OnlyOne
  <2>10. HasChild(x, V) <=> HasChild(x, S) /\ x.row # i
    BY DEF HasChild
  <2>11. Only(B(w, S), R) = B(w, V)
    BY <2>2, <2>3, <2>7, <2>8, <2>9, <2>10
  <2> QED BY <2>1, <2>11 DEF w
<1>3. a \in T
  <2> HIDE DEF T
  <2> QED BY <1>1, <1>2, SeqInduct
<1> QED BY <1>3, HeadingOnly DEF Heading!Detach

\* One more child row is put behind its row.
LEMMA BehindMore ==
  ASSUME NEW a \in Seq(Trs), NEW S, NEW i, i \notin S
  PROVE  Heading!Behind(Heading!Behind(a, S), {i}) = Heading!Behind(a, S \cup {i})
<1> DEFINE X == Heading!Nodes
           B(s, V) == Heading!Behind(s, V)
           V == S \cup {i}
           T == {s \in Seq(Trs) : B(B(s, S), {i}) = B(s, V)}
<1>1. <<>> \in T
  <2>1. <<>> \in Seq(Trs)
    OBVIOUS
  <2> QED BY <2>1, BehindNone
<1>2. ASSUME NEW s \in Seq(Trs), NEW x \in Trs, s \in T PROVE Append(s, x) \in T
  <2> DEFINE w == Append(s, x)
             b == B(s, S)
             c == Heading!Child(x.row)
             bx == Append(b, x)
             d == B(s, V)
  <2>1. s \in Seq(X) /\ x \in X /\ ~x.child /\ w \in Seq(Trs)
    BY TrsNodes, AppendProperties
  <2>2. /\ b \in Seq(X) /\ B(w, S) = IF HasChild(x, S) THEN Append(bx, c) ELSE bx
    BY <2>1, BehindOne
  <2>3. B(w, V) = IF HasChild(x, V) THEN Append(Append(d, x), c) ELSE Append(d, x)
    BY <2>1, BehindOne
  <2>4. c \in X /\ c.child
    BY <2>1, HeadingNodes
  <2>5. B(b, {i}) = d
    BY <1>2
  <2>6. bx \in Seq(X) /\ B(bx, {i}) = IF HasChild(x, {i}) THEN Append(Append(d, x), c) ELSE Append(d, x)
    <3>1. b \in Seq(X)
      BY <2>2
    <3> HIDE DEF b, B
    <3>2. B(bx, {i}) = IF HasChild(x, {i}) THEN Append(Append(B(b, {i}), x), c) ELSE Append(B(b, {i}), x)
      BY <3>1, <2>1, BehindOne DEF B
    <3>3. bx \in Seq(X)
      BY <3>1, <2>1, AppendProperties
    <3> QED BY <2>5, <3>2, <3>3
  <2>7. B(Append(bx, c), {i}) = Append(B(bx, {i}), c)
    <3>1. bx \in Seq(X) /\ c \in X /\ ~HasChild(c, {i})
      BY <2>4, <2>6 DEF HasChild
    <3> HIDE DEF bx, c, X
    <3>2. B(Append(bx, c), {i}) = IF HasChild(c, {i})
            THEN Append(Append(B(bx, {i}), c), Heading!Child(c.row)) ELSE Append(B(bx, {i}), c)
      BY <3>1, BehindOne DEF X
    <3> QED BY <3>1, <3>2
  <2>8. HasChild(x, S) => ~HasChild(x, {i})
    BY DEF HasChild
  <2>9. HasChild(x, V) <=> HasChild(x, S) \/ HasChild(x, {i})
    BY DEF HasChild
  <2> HIDE DEF b, c, X, w, d, B, bx
  <2>10. B(B(w, S), {i}) = B(w, V)
    BY <2>2, <2>3, <2>6, <2>7, <2>8, <2>9
  <2> QED BY <2>1, <2>10 DEF w
<1>3. a \in T
  <2> HIDE DEF T
  <2> QED BY <1>1, <1>2, SeqInduct
<1> QED BY <1>3

\* Without its child rows, the table has the rows drawn.
LEMMA BehindTrs ==
  ASSUME NEW a \in Seq(Trs), NEW S
  PROVE  /\ Heading!Behind(a, S) \in Seq(Heading!Nodes)
         /\ Only(Heading!Behind(a, S), Trs) = a
<1> DEFINE X == Heading!Nodes
           B(s) == Heading!Behind(s, S)
           T == {s \in Seq(Trs) : B(s) \in Seq(X) /\ Only(B(s), Trs) = s}
<1>1. <<>> \in T
  <2>1. <<>> \in Seq(Trs) /\ <<>> \in Seq(X)
    OBVIOUS
  <2> QED BY <2>1, BehindNone, OnlyNone
<1>2. ASSUME NEW s \in Seq(Trs), NEW x \in Trs, s \in T PROVE Append(s, x) \in T
  <2> DEFINE w == Append(s, x)
             b == B(s)
             c == Heading!Child(x.row)
             bx == Append(b, x)
  <2>1. s \in Seq(X) /\ x \in X /\ w \in Seq(Trs) /\ w \in Seq(X)
    BY TrsNodes, AppendProperties
  <2>2. /\ b \in Seq(X) /\ B(w) = IF HasChild(x, S) THEN Append(bx, c) ELSE bx
    BY <2>1, BehindOne
  <2>4. c \in X /\ c \notin Trs
    BY <2>1, HeadingNodes, TrsNodes
  <2>5. Only(b, Trs) = s
    BY <1>2
  <2> HIDE DEF b, c, X, B
  <2>6. bx \in Seq(X) /\ Append(bx, c) \in Seq(X)
    <3>1. bx \in Seq(X)
      BY <2>1, <2>2, AppendProperties
    <3> HIDE DEF bx
    <3> QED BY <3>1, <2>4, AppendProperties
  <2>7. Only(bx, Trs) = w
    <3>1. Only(bx, Trs) = IF x \in Trs THEN Append(Only(b, Trs), x) ELSE Only(b, Trs)
      BY <2>1, <2>2, OnlyOne
    <3> QED BY <3>1, <2>5
  <2> HIDE DEF bx
  <2>8. Only(Append(bx, c), Trs) = IF c \in Trs THEN Append(Only(bx, Trs), c) ELSE Only(bx, Trs)
    BY <2>4, <2>6, OnlyOne
  <2> HIDE DEF w
  <2>11. B(w) \in Seq(X) /\ Only(B(w), Trs) = w
    BY <2>2, <2>4, <2>6, <2>7, <2>8
  <2> QED BY <2>1, <2>11 DEF w
<1>3. a \in T
  <2> HIDE DEF T
  <2> QED BY <1>1, <1>2, SeqInduct
<1> QED BY <1>3

\* Behind its row, and nowhere else, stands the child row of a row in the set.
StandsBehind(b, x) == \E k \in 1 .. Len(b) : b[k] = x /\ k < Len(b) /\ b[k + 1] = Heading!Child(x.row)
OfRows(b, S) == \A k \in 1 .. Len(b) : b[k].child => b[k].row \in S
AllBehind(a, b, S) == \A m \in 1 .. Len(a) : a[m].row \in S => StandsBehind(b, a[m])

LEMMA BehindStill ==
  ASSUME NEW b \in Seq(Heading!Nodes), NEW y \in Heading!Nodes, NEW x, StandsBehind(b, x)
  PROVE  StandsBehind(Append(b, y), x)
<1> DEFINE w == Append(b, y)
           n == Len(b)
<1>1. n \in Nat /\ Len(w) = n + 1 /\ \A i \in 1 .. n : w[i] = b[i]
  BY AppendProperties
<1>2. PICK k \in 1 .. n : b[k] = x /\ k < n /\ b[k + 1] = Heading!Child(x.row)
  BY DEF StandsBehind
<1> HIDE DEF w, n
<1>3. k \in 1 .. Len(w) /\ k < Len(w) /\ k \in 1 .. n /\ k + 1 \in 1 .. n
  BY <1>1, <1>2
<1> QED BY <1>1, <1>2, <1>3 DEF StandsBehind, w

LEMMA StandsNow ==
  ASSUME NEW b \in Seq(Heading!Nodes), NEW x \in Heading!Nodes
  PROVE  StandsBehind(Append(Append(b, x), Heading!Child(x.row)), x)
<1> DEFINE X == Heading!Nodes
           c == Heading!Child(x.row)
           g == Append(b, x)
           w == Append(g, c)
           n == Len(b)
<1>0. c \in X
  BY HeadingNodes
<1>1. n \in Nat /\ g \in Seq(X) /\ Len(g) = n + 1 /\ g[n + 1] = x
  BY AppendProperties
<1> HIDE DEF g, n, X, c
<1>2. Len(w) = Len(g) + 1 /\ (\A i \in 1 .. Len(g) : w[i] = g[i]) /\ w[Len(g) + 1] = c
  BY <1>0, <1>1, AppendProperties
<1> HIDE DEF w
<1>3. Len(w) = n + 2 /\ n + 1 \in 1 .. Len(g) /\ n + 1 \in 1 .. Len(w) /\ n + 1 < Len(w)
      /\ Len(g) + 1 = (n + 1) + 1
  BY <1>1, <1>2
<1>4. w[n + 1] = x /\ w[(n + 1) + 1] = c
  BY <1>1, <1>2, <1>3
<1>5. StandsBehind(w, x)
  BY <1>3, <1>4 DEF StandsBehind, c
<1> QED BY <1>5 DEF w, g, c

LEMMA BehindPlaces ==
  ASSUME NEW a \in Seq(Trs), NEW S
  PROVE  OfRows(Heading!Behind(a, S), S) /\ AllBehind(a, Heading!Behind(a, S), S)
<1> DEFINE X == Heading!Nodes
           B(s) == Heading!Behind(s, S)
           T == {s \in Seq(Trs) : OfRows(B(s), S) /\ AllBehind(s, B(s), S)}
<1>1. <<>> \in T
  <2>1. <<>> \in Seq(Trs) /\ Len(<<>>) = 0
    OBVIOUS
  <2>2. OfRows(<<>>, S) /\ AllBehind(<<>>, <<>>, S)
    BY <2>1 DEF OfRows, AllBehind
  <2> QED BY <2>1, <2>2, BehindNone
<1>2. ASSUME NEW s \in Seq(Trs), NEW x \in Trs, s \in T PROVE Append(s, x) \in T
  <2> DEFINE w == Append(s, x)
             b == B(s)
             c == Heading!Child(x.row)
             bx == Append(b, x)
             bc == Append(bx, c)
  <2>1. s \in Seq(X) /\ x \in X /\ ~x.child
    BY TrsNodes
  <2>2. b \in Seq(X) /\ B(w) = IF HasChild(x, S) THEN bc ELSE bx
    BY <2>1, BehindOne
  <2>3. w \in Seq(Trs) /\ Len(w) = Len(s) + 1 /\ (\A i \in 1 .. Len(s) : w[i] = s[i])
        /\ w[Len(s) + 1] = x /\ Len(s) \in Nat
    BY AppendProperties
  <2>4. c \in X /\ c.child /\ c.row = x.row
    BY <2>1, HeadingNodes
  <2>5. OfRows(b, S) /\ AllBehind(s, b, S)
    BY <1>2
  <2>6. StandsBehind(bc, x)
    BY <2>1, <2>2, StandsNow
  <2> HIDE DEF b, c, X, B
  <2>7. /\ bx \in Seq(X) /\ Len(bx) = Len(b) + 1 /\ (\A i \in 1 .. Len(b) : bx[i] = b[i])
        /\ bx[Len(b) + 1] = x /\ Len(b) \in Nat
    BY <2>1, <2>2, AppendProperties
  <2>8. OfRows(bx, S)
    <3> HIDE DEF bx
    <3> SUFFICES ASSUME NEW k \in 1 .. Len(bx), bx[k].child PROVE bx[k].row \in S
      BY DEF OfRows
    <3>1. k \in 1 .. Len(b) \/ k = Len(b) + 1
      BY <2>7
    <3>2. CASE k \in 1 .. Len(b)
      BY <3>2, <2>5, <2>7 DEF OfRows
    <3>3. CASE k = Len(b) + 1
      BY <3>3, <2>1, <2>7
    <3> QED BY <3>1, <3>2, <3>3
  <2>9. \A m \in 1 .. Len(s) : s[m].row \in S => StandsBehind(bx, s[m])
    <3> SUFFICES ASSUME NEW m \in 1 .. Len(s), s[m].row \in S PROVE StandsBehind(bx, s[m])
      OBVIOUS
    <3> DEFINE y == s[m]
    <3>1. StandsBehind(b, y)
      BY <2>5 DEF AllBehind
    <3> HIDE DEF y
    <3>2. StandsBehind(Append(b, x), y)
      BY <3>1, <2>1, <2>2, BehindStill DEF X
    <3> QED BY <3>2 DEF y
  <2> HIDE DEF bx
  <2>10. /\ bc \in Seq(X) /\ Len(bc) = Len(bx) + 1 /\ (\A i \in 1 .. Len(bx) : bc[i] = bx[i])
         /\ bc[Len(bx) + 1] = c /\ Len(bx) \in Nat
    BY <2>4, <2>7, AppendProperties
  <2>11. x.row \in S => OfRows(bc, S)
    <3> HIDE DEF bc
    <3> SUFFICES ASSUME x.row \in S, NEW k \in 1 .. Len(bc), bc[k].child PROVE bc[k].row \in S
      BY DEF OfRows
    <3>1. k \in 1 .. Len(bx) \/ k = Len(bx) + 1
      BY <2>10
    <3>2. CASE k \in 1 .. Len(bx)
      BY <3>2, <2>8, <2>10 DEF OfRows
    <3>3. CASE k = Len(bx) + 1
      BY <3>3, <2>4, <2>10
    <3> QED BY <3>1, <3>2, <3>3
  <2>12. \A m \in 1 .. Len(s) : s[m].row \in S => StandsBehind(bc, s[m])
    <3> SUFFICES ASSUME NEW m \in 1 .. Len(s), s[m].row \in S PROVE StandsBehind(bc, s[m])
      OBVIOUS
    <3> DEFINE y == s[m]
    <3>1. StandsBehind(bx, y)
      BY <2>9
    <3> HIDE DEF y
    <3>2. StandsBehind(Append(bx, c), y)
      BY <3>1, <2>4, <2>7, BehindStill DEF X
    <3> QED BY <3>2 DEF y
  <2> HIDE DEF bc, w
  <2>13. \A m \in 1 .. Len(w) : m \in 1 .. Len(s) \/ m = Len(s) + 1
    BY <2>3
  <2>14. CASE HasChild(x, S)
    <3>1. B(w) = bc /\ x.row \in S
      BY <2>2, <2>14 DEF HasChild
    <3>2. \A m \in 1 .. Len(w) : w[m].row \in S => StandsBehind(bc, w[m])
      BY <2>3, <2>6, <2>12, <2>13
    <3>3. OfRows(bc, S)
      BY <2>11, <3>1
    <3> QED BY <2>3, <3>1, <3>2, <3>3 DEF AllBehind, w
  <2>15. CASE ~HasChild(x, S)
    <3>1. B(w) = bx /\ ~(x.row \in S)
      BY <2>1, <2>2, <2>15 DEF HasChild
    <3>2. \A m \in 1 .. Len(w) : w[m].row \in S => StandsBehind(bx, w[m])
      BY <2>3, <2>9, <2>13, <3>1
    <3> QED BY <2>3, <2>8, <3>1, <3>2 DEF AllBehind, w
  <2> QED BY <2>14, <2>15
<1>3. a \in T
  <2> HIDE DEF T
  <2> QED BY <1>1, <1>2, SeqInduct
<1> QED BY <1>3

(***************************************************************************)
(* A heading laid out again.                                               *)
(***************************************************************************)

\* Cells laid out in `high` rows and `wide` columns, each a rectangle.
Within(a, x, b) == (a <= x /\ x <= b) \/ (b <= x /\ x <= a)
Rectangles(L, high, wide) ==
  /\ high \in Nat /\ wide \in Nat
  /\ L \in [1 .. high -> [1 .. wide -> STRING]]
  /\ \A i, p, k \in 1 .. high, j, q, l \in 1 .. wide :
       L[i][j] = L[k][l] /\ Within(i, p, k) /\ Within(j, q, l) => L[p][q] = L[i][j]

\* Where a cell starts is above and left of wherever it is.
LEMMA StartsFirst ==
  ASSUME NEW high, NEW wide, NEW L, Rectangles(L, high, wide),
         NEW a \in 1 .. high, NEW b \in 1 .. wide, Heading!Starts(L, a, b),
         NEW p \in 1 .. high, NEW q \in 1 .. wide, L[p][q] = L[a][b]
  PROVE  a <= p /\ b <= q
<1>0. high \in Nat /\ wide \in Nat /\ a \in Nat /\ b \in Nat /\ p \in Nat /\ q \in Nat
  BY DEF Rectangles
<1>1. ASSUME p < a PROVE FALSE
  <2>1. a - 1 \in 1 .. high /\ Within(a, a - 1, p) /\ Within(b, b, q) /\ a # 1
    BY <1>0, <1>1 DEF Within
  <2>2. L[a - 1][b] = L[a][b]
    BY <2>1 DEF Rectangles
  <2> QED BY <2>1, <2>2 DEF Heading!Starts
<1>2. ASSUME q < b PROVE FALSE
  <2>1. b - 1 \in 1 .. wide /\ Within(a, a, p) /\ Within(b, b - 1, q) /\ b # 1
    BY <1>0, <1>2 DEF Within
  <2>2. L[a][b - 1] = L[a][b]
    BY <2>1 DEF Rectangles
  <2> QED BY <2>1, <2>2 DEF Heading!Starts
<1> QED BY <1>0, <1>1, <1>2

\* Every cell starts somewhere.
LEMMA StartsSomewhere ==
  ASSUME NEW high, NEW wide, NEW L, Rectangles(L, high, wide),
         NEW i \in 1 .. high, NEW j \in 1 .. wide
  PROVE  \E a \in 1 .. i, b \in 1 .. j : Heading!Starts(L, a, b) /\ L[a][b] = L[i][j]
<1>0. high \in Nat /\ wide \in Nat /\ i \in Nat /\ j \in Nat
  BY DEF Rectangles
<1> DEFINE A == {x \in 1 .. i : L[x][j] = L[i][j]}
<1>1. A \in SUBSET Nat /\ i \in A
  BY <1>0
<1>2. PICK a \in A : \A x \in A : a <= x
  <2> HIDE DEF A
  <2> QED BY <1>1, Least
<1>3. a \in 1 .. i /\ L[a][j] = L[i][j] /\ \A x \in 1 .. i : L[x][j] = L[i][j] => a <= x
  BY <1>2
<1> HIDE DEF A
<1> DEFINE B == {x \in 1 .. j : L[a][x] = L[i][j]}
<1>4. B \in SUBSET Nat /\ j \in B
  BY <1>0, <1>3
<1>5. PICK b \in B : \A x \in B : b <= x
  <2> HIDE DEF B
  <2> QED BY <1>4, Least
<1>6. b \in 1 .. j /\ L[a][b] = L[i][j] /\ \A x \in 1 .. j : L[a][x] = L[i][j] => b <= x
  BY <1>5
<1> HIDE DEF B
<1>7. a = 1 \/ L[a - 1][b] # L[a][b]
  <2> SUFFICES ASSUME a # 1, L[a - 1][b] = L[a][b] PROVE FALSE
    OBVIOUS
  <2>1. /\ a - 1 \in 1 .. i /\ a - 1 \in 1 .. high /\ i \in 1 .. high
        /\ b \in 1 .. wide /\ j \in 1 .. wide
        /\ Within(a - 1, a - 1, i) /\ Within(b, j, j)
    BY <1>0, <1>3, <1>6 DEF Within
  <2>2. L[a - 1][b] = L[i][j]
    BY <1>6
  <2>3. L[a - 1][j] = L[a - 1][b]
    BY <2>1, <2>2 DEF Rectangles
  <2>4. a <= a - 1
    BY <1>3, <2>1, <2>2, <2>3
  <2> QED BY <1>0, <1>3, <2>4
<1>8. b = 1 \/ L[a][b - 1] # L[a][b]
  <2> SUFFICES ASSUME b # 1, L[a][b - 1] = L[a][b] PROVE FALSE
    OBVIOUS
  <2>1. b - 1 \in 1 .. j
    BY <1>0, <1>6
  <2>2. b <= b - 1
    BY <1>6, <2>1
  <2> QED BY <1>0, <1>6, <2>2
<1> QED BY <1>3, <1>6, <1>7, <1>8 DEF Heading!Starts

\* The cells that are alike from the j-th on.
RunsOver(w, size, j, k) ==
  /\ k \in 1 .. size - j + 1 /\ \A x \in 0 .. k - 1 : w[j + x] = w[j]
  /\ j + k <= size => w[j + k] # w[j]

LEMMA AlikeRun ==
  ASSUME NEW size \in Nat, NEW S, NEW w \in [1 .. size -> S], NEW j \in 1 .. size
  PROVE  RunsOver(w, size, j, Heading!Alike(w, j))
<1> DEFINE E == {k \in 1 .. size - j + 1 : j + k <= size => w[j + k] # w[j]}
           Run(k) == /\ \A x \in 0 .. k - 1 : w[j + x] = w[j]
                     /\ j + k <= size => w[j + k] # w[j]
<1>1. E \in SUBSET Nat /\ size - j + 1 \in E
  OBVIOUS
<1>2. PICK k \in E : \A x \in E : k <= x
  <2> HIDE DEF E
  <2> QED BY <1>1, Least
<1>3. k \in 1 .. size - j + 1 /\ (j + k <= size => w[j + k] # w[j])
  BY <1>2
<1>4. \A x \in 0 .. k - 1 : w[j + x] = w[j]
  <2> SUFFICES ASSUME NEW x \in 0 .. k - 1, w[j + x] # w[j] PROVE FALSE
    OBVIOUS
  <2>1. x # 0 /\ x \in 1 .. size - j + 1
    <3>1. j + 0 = j
      OBVIOUS
    <3>2. x # 0
      BY <3>1
    <3> QED BY <1>3, <3>2
  <2>2. x \in E
    BY <2>1
  <2> HIDE DEF E
  <2> QED BY <1>2, <1>3, <2>2
<1>5. Run(k)
  BY <1>3, <1>4
<1>6. Len(w) = size
  OBVIOUS
<1>7. Heading!Alike(w, j) = CHOOSE x \in 1 .. size - j + 1 : Run(x)
  BY <1>6 DEF Heading!Alike
<1> DEFINE r == Heading!Alike(w, j)
<1>8. r \in 1 .. size - j + 1 /\ Run(r)
  <2> HIDE DEF Run
  <2>1. \E x \in 1 .. size - j + 1 : Run(x)
    BY <1>3, <1>5
  <2> QED BY <2>1, <1>7
<1> QED BY <1>8 DEF RunsOver

\* A cell drawn where it starts is spanned over where it is, and nothing else.
LEMMA ThSpans ==
  ASSUME NEW high, NEW wide, NEW L, Rectangles(L, high, wide),
         NEW a \in 1 .. high, NEW b \in 1 .. wide, Heading!Starts(L, a, b),
         NEW th, th = Heading!DrawTh(L, a, b)
  PROVE  /\ th \in HeadingThs /\ th.cell = L[a][b] /\ b + th.colspan - 1 <= wide
         /\ \A p \in 1 .. high, q \in 1 .. wide :
              (p - a \in 0 .. th.rowspan - 1 /\ q - b \in 0 .. th.colspan - 1) <=> L[p][q] = L[a][b]
<1> DEFINE u == L[a]
           v == Heading!Column(L, b)
           c == Heading!Alike(u, b)
           r == Heading!Alike(v, a)
<1>0. high \in Nat /\ wide \in Nat /\ a \in Nat /\ b \in Nat /\ DOMAIN L = 1 .. high
  BY DEF Rectangles
<1>1. u \in [1 .. wide -> STRING]
  BY DEF Rectangles
<1>2. v \in [1 .. high -> STRING] /\ \A p \in 1 .. high : v[p] = L[p][b]
  BY DEF Rectangles, Heading!Column
<1>3. th = [cell |-> L[a][b], colspan |-> c, rowspan |-> r]
  BY DEF Heading!DrawTh
<1> HIDE DEF u, v
<1>4. /\ c \in 1 .. wide - b + 1 /\ \A x \in 0 .. c - 1 : u[b + x] = u[b]
      /\ (b + c <= wide => u[b + c] # u[b])
  <2>1. RunsOver(u, wide, b, Heading!Alike(u, b))
    BY <1>0, <1>1, AlikeRun
  <2> QED BY <2>1 DEF RunsOver
<1>5. /\ r \in 1 .. high - a + 1 /\ \A x \in 0 .. r - 1 : v[a + x] = v[a]
      /\ (a + r <= high => v[a + r] # v[a])
  <2>1. RunsOver(v, high, a, Heading!Alike(v, a))
    BY <1>0, <1>2, AlikeRun
  <2> QED BY <2>1 DEF RunsOver
<1> HIDE DEF c, r
<1>6. th.cell = L[a][b] /\ th.colspan = c /\ th.rowspan = r
  BY <1>3
<1>7. th \in HeadingThs /\ b + c - 1 <= wide
  <2>1. c \in Nat \ {0} /\ r \in Nat \ {0} /\ b + c - 1 <= wide
    BY <1>0, <1>4, <1>5
  <2>2. L[a][b] \in STRING
    BY DEF Rectangles
  <2> QED BY <2>1, <2>2, <1>3 DEF HeadingThs
<1>8. ASSUME NEW p \in 1 .. high, NEW q \in 1 .. wide,
             p - a \in 0 .. r - 1, q - b \in 0 .. c - 1
      PROVE  L[p][q] = L[a][b]
  <2>1. p = a + (p - a) /\ q = b + (q - b) /\ a <= p /\ b <= q
    BY <1>0, <1>8
  <2>2. L[p][b] = L[a][b]
    <3>1. v[a + (p - a)] = v[a]
      BY <1>5, <1>8
    <3> QED BY <3>1, <2>1, <1>2
  <2>3. L[a][q] = L[a][b]
    <3>1. u[b + (q - b)] = u[b]
      BY <1>4, <1>8
    <3> QED BY <3>1, <2>1 DEF u
  <2>4. Within(p, p, a) /\ Within(b, q, q)
    BY <2>1, <1>0 DEF Within
  <2>5. L[p][b] = L[a][q]
    BY <2>2, <2>3
  <2>6. L[p][q] = L[p][b]
    BY <2>4, <2>5 DEF Rectangles
  <2> QED BY <2>2, <2>6
<1>9. ASSUME NEW p \in 1 .. high, NEW q \in 1 .. wide, L[p][q] = L[a][b]
      PROVE  p - a \in 0 .. r - 1 /\ q - b \in 0 .. c - 1
  <2>1. a <= p /\ b <= q
    BY <1>9, StartsFirst
  <2>2. ASSUME ~(p - a <= r - 1) PROVE FALSE
    <3>1. a + r \in 1 .. high /\ Within(a, a + r, p) /\ Within(b, b, q) /\ a + r <= high
      BY <1>0, <1>5, <2>1, <2>2 DEF Within
    <3>2. L[a + r][b] = L[a][b]
      BY <3>1, <1>9 DEF Rectangles
    <3> QED BY <3>1, <3>2, <1>2, <1>5
  <2>3. ASSUME ~(q - b <= c - 1) PROVE FALSE
    <3>1. b + c \in 1 .. wide /\ Within(a, a, p) /\ Within(b, b + c, q) /\ b + c <= wide
      BY <1>0, <1>4, <2>1, <2>3 DEF Within
    <3>2. L[a][b + c] = L[a][b]
      BY <3>1, <1>9 DEF Rectangles
    <3> QED BY <3>1, <3>2, <1>4 DEF u
  <2> QED BY <1>0, <1>4, <1>5, <2>1, <2>2, <2>3
<1> QED BY <1>6, <1>7, <1>8, <1>9

\* Grids that are being filled.
Grids(high, width) == [1 .. high -> [1 .. width -> HeadingThs \cup {Nil}]]

LEMMA PlaceTyped ==
  ASSUME NEW high \in Nat, NEW width \in Nat, NEW G \in Grids(high, width),
         NEW i \in 1 .. high, NEW th \in HeadingThs
  PROVE  Heading!Place(G, i, th) \in Grids(high, width)
<1> DEFINE j == CHOOSE x \in DOMAIN G[i] : Heading!Free(G[i], x)
           T(p, q) == IF p - i \in 0 .. th.rowspan - 1 /\ q - j \in 0 .. th.colspan - 1
                      THEN th ELSE G[p][q]
<1>1. /\ DOMAIN G = 1 .. high
      /\ \A p \in 1 .. high : DOMAIN G[p] = 1 .. width
      /\ \A p \in 1 .. high, q \in 1 .. width : G[p][q] \in HeadingThs \cup {Nil}
  BY DEF Grids
<1>2. Heading!Place(G, i, th) = [p \in DOMAIN G |-> [q \in DOMAIN G[p] |-> T(p, q)]]
  BY DEF Heading!Place
<1> HIDE DEF j
<1>3. \A p \in 1 .. high, q \in 1 .. width : T(p, q) \in HeadingThs \cup {Nil}
  BY <1>1
<1> HIDE DEF T
<1>4. Heading!Place(G, i, th) = [p \in 1 .. high |-> [q \in 1 .. width |-> T(p, q)]]
  BY <1>1, <1>2
<1> QED BY <1>3, <1>4 DEF Grids

\* A cell placed in a row whose first free column is j.
LEMMA PlacedAt ==
  ASSUME NEW high \in Nat, NEW width \in Nat, NEW G \in Grids(high, width),
         NEW i \in 1 .. high, NEW th \in HeadingThs,
         NEW j \in 1 .. width, G[i][j] = Nil, \A k \in 1 .. j - 1 : G[i][k] # Nil,
         NEW p \in 1 .. high, NEW q \in 1 .. width
  PROVE  Heading!Place(G, i, th)[p][q] =
           IF p - i \in 0 .. th.rowspan - 1 /\ q - j \in 0 .. th.colspan - 1 THEN th ELSE G[p][q]
<1> DEFINE x == CHOOSE y \in DOMAIN G[i] : Heading!Free(G[i], y)
<1>1. DOMAIN G = 1 .. high /\ \A r \in 1 .. high : DOMAIN G[r] = 1 .. width
  BY DEF Grids
<1>2. Heading!Free(G[i], j) /\ j \in DOMAIN G[i]
  BY <1>1 DEF Heading!Free
<1>3. x \in 1 .. width /\ Heading!Free(G[i], x)
  BY <1>1, <1>2
<1>4. x = j
  <2> HIDE DEF x
  <2>1. ~(x < j)
    <3> SUFFICES ASSUME x < j PROVE FALSE
      OBVIOUS
    <3>1. x \in 1 .. j - 1
      BY <1>3
    <3> QED BY <3>1, <1>3 DEF Heading!Free
  <2>2. ~(j < x)
    <3> SUFFICES ASSUME j < x PROVE FALSE
      OBVIOUS
    <3>1. j \in 1 .. x - 1
      BY <1>3
    <3> QED BY <3>1, <1>3 DEF Heading!Free
  <2> QED BY <1>3, <2>1, <2>2
<1>5. Heading!Place(G, i, th) =
        [r \in DOMAIN G |-> [s \in DOMAIN G[r] |->
           IF r - i \in 0 .. th.rowspan - 1 /\ s - x \in 0 .. th.colspan - 1 THEN th ELSE G[r][s]]]
  BY DEF Heading!Place
<1> HIDE DEF x
<1> QED BY <1>1, <1>4, <1>5

\* The cells that start before the c-th column of row i, in this row or above it,
\* and the grid that has these and no others.
Early(L, wide, i, c, p, q) ==
  \E a \in 1 .. i, b \in 1 .. wide :
    Heading!Starts(L, a, b) /\ L[a][b] = L[p][q] /\ (a < i \/ b <= c)
FilledUpTo(G, L, high, wide, width, i, c) ==
  /\ G \in Grids(high, width)
  /\ \A p \in 1 .. high, q \in 1 .. width :
       IF q <= wide /\ Early(L, wide, i, c, p, q) THEN G[p][q] # Nil /\ G[p][q].cell = L[p][q]
       ELSE G[p][q] = Nil

\* The next cell of the row comes where it starts.
LEMMA FilledNext ==
  ASSUME NEW high, NEW wide, NEW L, Rectangles(L, high, wide),
         NEW width \in Nat, wide <= width, Nil \notin HeadingThs,
         NEW i \in 1 .. high, NEW c \in 0 .. wide, NEW b \in 1 .. wide, c < b,
         Heading!Starts(L, i, b),
         \A x \in 1 .. wide : Heading!Starts(L, i, x) => x <= c \/ b <= x,
         NEW G, FilledUpTo(G, L, high, wide, width, i, c)
  PROVE  FilledUpTo(Heading!Place(G, i, Heading!DrawTh(L, i, b)), L, high, wide, width, i, b)
<1> DEFINE th == Heading!DrawTh(L, i, b)
           g == Heading!Place(G, i, th)
<1>0. high \in Nat /\ wide \in Nat /\ i \in Nat /\ b \in Nat /\ G \in Grids(high, width)
      /\ b \in 1 .. width /\ c \in Int
  BY DEF Rectangles, FilledUpTo
<1>1. /\ th \in HeadingThs /\ th.cell = L[i][b] /\ b + th.colspan - 1 <= wide
      /\ \A p \in 1 .. high, q \in 1 .. wide :
           (p - i \in 0 .. th.rowspan - 1 /\ q - b \in 0 .. th.colspan - 1) <=> L[p][q] = L[i][b]
  BY ThSpans
<1> HIDE DEF th
<1>2. G[i][b] = Nil
  <2>1. ~Early(L, wide, i, c, i, b)
    <3> SUFFICES ASSUME NEW x \in 1 .. i, NEW y \in 1 .. wide, Heading!Starts(L, x, y),
                        L[x][y] = L[i][b], x < i \/ y <= c
                 PROVE FALSE
      BY DEF Early
    <3>1. x \in 1 .. high
      BY <1>0
    <3>2. i <= x /\ b <= y
      BY <3>1, StartsFirst
    <3> QED BY <1>0, <3>1, <3>2
  <2> QED BY <1>0, <2>1 DEF FilledUpTo
<1>3. \A k \in 1 .. b - 1 : G[i][k] # Nil
  <2> TAKE k \in 1 .. b - 1
  <2>0. k \in 1 .. wide /\ k \in 1 .. width /\ k \in Nat /\ k < b
    BY <1>0
  <2>1. PICK x \in 1 .. i, y \in 1 .. k : Heading!Starts(L, x, y) /\ L[x][y] = L[i][k]
    BY <2>0, StartsSomewhere
  <2>2. y \in 1 .. wide /\ ~(b <= y)
    BY <1>0, <2>0
  <2>3. x < i \/ y <= c
    <3>1. CASE x = i
      BY <2>1, <2>2, <3>1
    <3>2. CASE x # i
      BY <1>0, <3>2
    <3> QED BY <3>1, <3>2
  <2>4. Early(L, wide, i, c, i, k)
    BY <2>1, <2>2, <2>3 DEF Early
  <2> QED BY <2>0, <2>4 DEF FilledUpTo
<1>4. g \in Grids(high, width)
  BY <1>0, <1>1, PlaceTyped
<1>5. ASSUME NEW p \in 1 .. high, NEW q \in 1 .. width
      PROVE  g[p][q] = IF p - i \in 0 .. th.rowspan - 1 /\ q - b \in 0 .. th.colspan - 1
                       THEN th ELSE G[p][q]
  BY <1>0, <1>1, <1>2, <1>3, PlacedAt
<1>6. ASSUME NEW p \in 1 .. high, NEW q \in 1 .. wide
      PROVE  Early(L, wide, i, b, p, q) <=> Early(L, wide, i, c, p, q) \/ L[p][q] = L[i][b]
  <2>1. ASSUME Early(L, wide, i, b, p, q), L[p][q] # L[i][b] PROVE Early(L, wide, i, c, p, q)
    <3>1. PICK x \in 1 .. i, y \in 1 .. wide :
            Heading!Starts(L, x, y) /\ L[x][y] = L[p][q] /\ (x < i \/ y <= b)
      BY <2>1 DEF Early
    <3>2. x < i \/ y <= c
      <4>1. CASE x = i
        <5>1. y # b /\ (y <= c \/ b <= y)
          BY <2>1, <3>1, <4>1
        <5> QED BY <1>0, <3>1, <4>1, <5>1
      <4>2. CASE x # i
        BY <1>0, <4>2
      <4> QED BY <4>1, <4>2
    <3> QED BY <3>1, <3>2 DEF Early
  <2>2. ASSUME Early(L, wide, i, c, p, q) PROVE Early(L, wide, i, b, p, q)
    <3>1. PICK x \in 1 .. i, y \in 1 .. wide :
            Heading!Starts(L, x, y) /\ L[x][y] = L[p][q] /\ (x < i \/ y <= c)
      BY <2>2 DEF Early
    <3>2. x < i \/ y <= b
      BY <1>0, <3>1
    <3> QED BY <3>1, <3>2 DEF Early
  <2>3. ASSUME L[p][q] = L[i][b] PROVE Early(L, wide, i, b, p, q)
    <3>1. i \in 1 .. i /\ b <= b
      BY <1>0
    <3> QED BY <2>3, <3>1 DEF Early
  <2> QED BY <2>1, <2>2, <2>3
<1>7. ASSUME NEW p \in 1 .. high, NEW q \in 1 .. width
      PROVE  IF q <= wide /\ Early(L, wide, i, b, p, q) THEN g[p][q] # Nil /\ g[p][q].cell = L[p][q]
             ELSE g[p][q] = Nil
  <2>0. IF q <= wide /\ Early(L, wide, i, c, p, q) THEN G[p][q] # Nil /\ G[p][q].cell = L[p][q]
        ELSE G[p][q] = Nil
    BY DEF FilledUpTo
  <2>1. CASE q <= wide
    <3>1. q \in 1 .. wide
      BY <1>0, <2>1
    <3>2. CASE L[p][q] = L[i][b]
      <4>1. g[p][q] = th
        BY <3>1, <3>2, <1>1, <1>5
      <4> HIDE DEF g
      <4> QED BY <2>1, <3>1, <3>2, <4>1, <1>1, <1>6
    <3>3. CASE L[p][q] # L[i][b]
      <4>1. g[p][q] = G[p][q]
        BY <3>1, <3>3, <1>1, <1>5
      <4>2. Early(L, wide, i, b, p, q) <=> Early(L, wide, i, c, p, q)
        BY <3>1, <3>3, <1>6
      <4> HIDE DEF g
      <4> QED BY <4>1, <4>2, <2>0
    <3> QED BY <3>2, <3>3
  <2>2. CASE ~(q <= wide)
    <3>1. ~(q - b \in 0 .. th.colspan - 1)
      <4>1. th.colspan \in Nat
        BY <1>1 DEF HeadingThs
      <4> QED BY <1>0, <1>1, <2>2, <4>1
    <3>2. g[p][q] = G[p][q]
      BY <3>1, <1>5
    <3> HIDE DEF g
    <3> QED BY <2>0, <2>2, <3>2
  <2> QED BY <2>1, <2>2
<1> HIDE DEF g
<1>8. FilledUpTo(g, L, high, wide, width, i, b)
  BY <1>4, <1>7 DEF FilledUpTo
<1> QED BY <1>8 DEF g, th

\* The turns of the loop over the cells of a row, and of that over the rows.
PlacesRow(b, G, i, ths) ==
  b = [k \in 0 .. Len(ths) |-> IF k = 0 THEN G ELSE Heading!Place(b[k - 1], i, ths[k])]
TurnsOfRow(b, G, i, ths, S) ==
  /\ b[0] = G /\ b[Len(ths)] = Heading!PlaceRow(G, i, ths)
  /\ \A k \in 0 .. Len(ths) : b[k] \in S
  /\ \A k \in 1 .. Len(ths) : b[k] = Heading!Place(b[k - 1], i, ths[k])

LEMMA RowTurns ==
  ASSUME NEW high \in Nat, NEW width \in Nat, NEW G \in Grids(high, width),
         NEW i \in 1 .. high, NEW ths \in Seq(HeadingThs)
  PROVE  /\ \E b : TurnsOfRow(b, G, i, ths, Grids(high, width))
         /\ Heading!PlaceRow(G, i, ths) \in Grids(high, width)
<1> DEFINE S == Grids(high, width)
           size == Len(ths)
           do == [k \in 1 .. size |-> [h \in S |-> Heading!Place(h, i, ths[k])]]
           b == CHOOSE f : PlacesRow(f, G, i, ths)
<1>0. size \in Nat /\ \A k \in 1 .. size : ths[k] \in HeadingThs
  OBVIOUS
<1>1. Heading!PlaceRow(G, i, ths) = b[size]
  BY DEF Heading!PlaceRow, PlacesRow
<1>2. do \in [1 .. size -> [S -> S]]
  <2>1. \A k \in 1 .. size, h \in S : Heading!Place(h, i, ths[k]) \in S
    <3> HIDE DEF size
    <3> QED BY <1>0, PlaceTyped
  <2> HIDE DEF size, S
  <2> QED BY <2>1
<1>3. PICK c : Loops(c, G, size, do) /\ \A k \in 0 .. size : c[k] \in S
  <2> HIDE DEF do, size, S
  <2>1. G \in S
    BY DEF S
  <2> QED BY <1>0, <1>2, <2>1, Loop
<1>4. PlacesRow(c, G, i, ths)
  <2>1. c = [k \in 0 .. size |-> c[k]] /\ c[0] = G /\ \A k \in 1 .. size : c[k] = do[k][c[k - 1]]
    BY <1>3 DEF Loops
  <2> HIDE DEF size, S
  <2>2. \A k \in 1 .. size : c[k] = Heading!Place(c[k - 1], i, ths[k])
    <3> TAKE k \in 1 .. size
    <3>1. c[k - 1] \in S
      <4>1. k - 1 \in 0 .. size
        BY <1>0
      <4> QED BY <4>1, <1>3
    <3> QED BY <2>1, <3>1
  <2>3. \A k \in 0 .. size : c[k] = IF k = 0 THEN G ELSE Heading!Place(c[k - 1], i, ths[k])
    <3> TAKE k \in 0 .. size
    <3>1. k = 0 \/ k \in 1 .. size
      BY <1>0
    <3> QED BY <2>1, <2>2, <3>1
  <2>4. c = [k \in 0 .. size |-> IF k = 0 THEN G ELSE Heading!Place(c[k - 1], i, ths[k])]
    BY <2>1, <2>3
  <2> QED BY <2>4 DEF PlacesRow, size
<1>5. PlacesRow(b, G, i, ths)
  BY <1>4
<1> HIDE DEF b, do, size
<1>6. b[0] = G /\ \A k \in 1 .. size : b[k] = Heading!Place(b[k - 1], i, ths[k])
  <2>1. b = [k \in 0 .. size |-> IF k = 0 THEN G ELSE Heading!Place(b[k - 1], i, ths[k])]
    BY <1>5 DEF PlacesRow, size
  <2>2. 0 \in 0 .. size /\ \A k \in 1 .. size : k \in 0 .. size /\ k # 0
    BY <1>0
  <2> QED BY <2>1, <2>2
<1> DEFINE T == {k \in 0 .. size : b[k] \in S}
<1>7. \A k \in 0 .. size : k \in T
  <2>1. 0 \in T
    BY <1>0, <1>6
  <2>2. ASSUME NEW m \in 0 .. size PROVE m \in T
    <3>1. \A k \in 1 .. m : k - 1 \in T => k \in T
      <4> TAKE k \in 1 .. m
      <4> HAVE k - 1 \in T
      <4>1. k \in 1 .. size /\ k \in 0 .. size /\ b[k - 1] \in S
        BY <1>0
      <4>2. Heading!Place(b[k - 1], i, ths[k]) \in S
        BY <1>0, <4>1, PlaceTyped
      <4> QED BY <1>6, <4>1, <4>2
    <3>2. m \in Nat
      BY <1>0
    <3> HIDE DEF T
    <3> QED BY <2>1, <3>1, <3>2, Counted
  <2> QED BY <2>2
<1>8. b[size] \in S
  BY <1>0, <1>7
<1>9. TurnsOfRow(b, G, i, ths, S)
  BY <1>1, <1>6, <1>7 DEF TurnsOfRow, size
<1> QED BY <1>1, <1>8, <1>9

Blank(high, width) == [p \in 1 .. high |-> [q \in 1 .. width |-> Nil]]
DetectsRows(b, trs, width) ==
  b = [i \in 0 .. Len(trs) |-> IF i = 0 THEN Blank(Len(trs), width)
                               ELSE Heading!PlaceRow(b[i - 1], i, trs[i])]
TurnsOfRows(b, trs, width, S) ==
  /\ b[0] = Blank(Len(trs), width) /\ b[Len(trs)] = Heading!DetectHeader(trs, width)
  /\ \A i \in 0 .. Len(trs) : b[i] \in S
  /\ \A i \in 1 .. Len(trs) : b[i] = Heading!PlaceRow(b[i - 1], i, trs[i])

LEMMA DetectTurns ==
  ASSUME NEW width \in Nat, NEW trs \in Seq(Seq(HeadingThs))
  PROVE  /\ \E b : TurnsOfRows(b, trs, width, Grids(Len(trs), width))
         /\ Heading!DetectHeader(trs, width) \in Grids(Len(trs), width)
<1> DEFINE size == Len(trs)
           S == Grids(size, width)
           G == Blank(size, width)
           do == [k \in 1 .. size |-> [h \in S |-> Heading!PlaceRow(h, k, trs[k])]]
           b == CHOOSE f : DetectsRows(f, trs, width)
<1>0. size \in Nat /\ \A k \in 1 .. size : trs[k] \in Seq(HeadingThs)
  OBVIOUS
<1>1. Heading!DetectHeader(trs, width) = b[size]
  BY DEF Heading!DetectHeader, DetectsRows, Blank
<1>g. G \in S
  BY DEF Grids, Blank
<1> HIDE DEF size, G
<1>p. \A k \in 1 .. size, h \in S : Heading!PlaceRow(h, k, trs[k]) \in S
  BY <1>0, RowTurns
<1>2. do \in [1 .. size -> [S -> S]]
  <2> HIDE DEF S
  <2> QED BY <1>p
<1>3. PICK c : Loops(c, G, size, do) /\ \A k \in 0 .. size : c[k] \in S
  <2> HIDE DEF do, S
  <2> QED BY <1>0, <1>2, <1>g, Loop
<1>4. DetectsRows(c, trs, width)
  <2>1. c = [k \in 0 .. size |-> c[k]] /\ c[0] = G /\ \A k \in 1 .. size : c[k] = do[k][c[k - 1]]
    BY <1>3 DEF Loops
  <2> HIDE DEF S
  <2>2. \A k \in 1 .. size : c[k] = Heading!PlaceRow(c[k - 1], k, trs[k])
    <3> TAKE k \in 1 .. size
    <3>1. c[k - 1] \in S
      <4>1. k - 1 \in 0 .. size
        BY <1>0
      <4> QED BY <4>1, <1>3
    <3> QED BY <2>1, <3>1
  <2>3. \A k \in 0 .. size : c[k] = IF k = 0 THEN G ELSE Heading!PlaceRow(c[k - 1], k, trs[k])
    <3> TAKE k \in 0 .. size
    <3>1. k = 0 \/ k \in 1 .. size
      BY <1>0
    <3> QED BY <2>1, <2>2, <3>1
  <2>4. c = [k \in 0 .. size |-> IF k = 0 THEN G ELSE Heading!PlaceRow(c[k - 1], k, trs[k])]
    BY <2>1, <2>3
  <2> QED BY <2>4 DEF DetectsRows, size, G
<1>5. DetectsRows(b, trs, width)
  BY <1>4
<1> HIDE DEF b, do
<1>6. b[0] = G /\ \A k \in 1 .. size : b[k] = Heading!PlaceRow(b[k - 1], k, trs[k])
  <2>1. b = [k \in 0 .. size |-> IF k = 0 THEN G ELSE Heading!PlaceRow(b[k - 1], k, trs[k])]
    BY <1>5 DEF DetectsRows, size, G
  <2>2. 0 \in 0 .. size /\ \A k \in 1 .. size : k \in 0 .. size /\ k # 0
    BY <1>0
  <2> QED BY <2>1, <2>2
<1> HIDE DEF S
<1> DEFINE T == {k \in 0 .. size : b[k] \in S}
<1>7. \A k \in 0 .. size : k \in T
  <2>1. 0 \in T
    BY <1>0, <1>6, <1>g
  <2>2. ASSUME NEW m \in 0 .. size PROVE m \in T
    <3>1. \A k \in 1 .. m : k - 1 \in T => k \in T
      <4> TAKE k \in 1 .. m
      <4> HAVE k - 1 \in T
      <4>1. k \in 1 .. size /\ k \in 0 .. size /\ b[k - 1] \in S
        BY <1>0
      <4> QED BY <1>6, <4>1, <1>p
    <3>2. m \in Nat
      BY <1>0
    <3> HIDE DEF T
    <3> QED BY <2>1, <3>1, <3>2, Counted
  <2> QED BY <2>2
<1>8. b[size] \in S
  BY <1>0, <1>7
<1>9. TurnsOfRows(b, trs, width, S)
  BY <1>1, <1>6, <1>7 DEF TurnsOfRows, size, G
<1> QED BY <1>1, <1>8, <1>9 DEF S, size

\* The cells of a row, and the row filled with them.
StartsOf(L, i, wide) == {j \in 1 .. wide : Heading!Starts(L, i, j)}

LEMMA RowDrawn ==
  ASSUME NEW high, NEW wide, NEW L, Rectangles(L, high, wide), NEW i \in 1 .. high
  PROVE  /\ Heading!DrawTr(L, i) \in Seq(HeadingThs)
         /\ Len(Heading!DrawTr(L, i)) = Len(Those(StartsOf(L, i, wide), wide))
         /\ \A k \in 1 .. Len(Those(StartsOf(L, i, wide), wide)) :
              Heading!DrawTr(L, i)[k] = Heading!DrawTh(L, i, Those(StartsOf(L, i, wide), wide)[k])
<1> DEFINE C == StartsOf(L, i, wide)
           w == Those(C, wide)
           z == Len(w)
           t == Heading!DrawTr(L, i)
<1>0. wide \in Nat /\ DOMAIN L[i] = 1 .. wide
  BY DEF Rectangles
<1>1. w \in Seq(Int) /\ Range(w) = C \cap (1 .. wide)
  <2> HIDE DEF C
  <2> QED BY <1>0, ThoseTyped
<1>2. z \in Nat /\ DOMAIN w = 1 .. z
  BY <1>1
<1>3. t = [k \in 1 .. z |-> Heading!DrawTh(L, i, w[k])]
  <2>1. Counting(wide) = [j \in DOMAIN L[i] |-> j]
    BY <1>0 DEF Counting
  <2>2. C = {j \in DOMAIN L[i] : Heading!Starts(L, i, j)}
    BY <1>0 DEF StartsOf
  <2>3. w = Heading!Only([j \in DOMAIN L[i] |-> j], {j \in DOMAIN L[i] : Heading!Starts(L, i, j)})
    <3>1. Heading!Only(Counting(wide), C) = w
      BY HeadingOnly DEF Those
    <3> QED BY <2>1, <2>2, <3>1
  <2> HIDE DEF w, C, z
  <2> QED BY <1>2, <2>3 DEF Heading!DrawTr
<1>4. \A k \in 1 .. z : Heading!DrawTh(L, i, w[k]) \in HeadingThs
  <2> TAKE k \in 1 .. z
  <2>1. w[k] \in 1 .. wide /\ Heading!Starts(L, i, w[k])
    <3>1. w[k] \in Range(w)
      BY <1>2 DEF Range
    <3> QED BY <3>1, <1>1 DEF StartsOf
  <2> HIDE DEF w
  <2> QED BY <2>1, ThSpans
<1> HIDE DEF z, w, t
<1>5. t \in [1 .. z -> HeadingThs] /\ \A k \in 1 .. z : t[k] = Heading!DrawTh(L, i, w[k])
  BY <1>3, <1>4
<1>6. t \in Seq(HeadingThs) /\ Len(t) = z
  BY <1>2, <1>5
<1> QED BY <1>5, <1>6 DEF z, w, t

LEMMA RowFilled ==
  ASSUME NEW high, NEW wide, NEW L, Rectangles(L, high, wide),
         NEW width \in Nat, wide <= width, Nil \notin HeadingThs,
         NEW i \in 1 .. high, NEW G, FilledUpTo(G, L, high, wide, width, i, 0)
  PROVE  FilledUpTo(Heading!PlaceRow(G, i, Heading!DrawTr(L, i)), L, high, wide, width, i + 1, 0)
<1> DEFINE C == StartsOf(L, i, wide)
           w == Those(C, wide)
           z == Len(w)
           t == Heading!DrawTr(L, i)
           At(k) == IF k = 0 THEN 0 ELSE w[k]
           H(f, k) == FilledUpTo(f, L, high, wide, width, i, At(k))
<1>0. high \in Nat /\ wide \in Nat /\ G \in Grids(high, width) /\ i \in Nat
  BY DEF Rectangles, FilledUpTo
<1>1. w \in Seq(Int) /\ Range(w) = C \cap (1 .. wide) /\ Ascending(w)
  <2> HIDE DEF C
  <2> QED BY <1>0, ThoseTyped
<1>2. z \in Nat /\ DOMAIN w = 1 .. z
  BY <1>1
<1>3. t \in Seq(HeadingThs) /\ Len(t) = z /\ \A k \in 1 .. z : t[k] = Heading!DrawTh(L, i, w[k])
  BY RowDrawn
<1> HIDE DEF t
<1>4. PICK b : TurnsOfRow(b, G, i, t, Grids(high, width))
  BY <1>0, <1>3, RowTurns
<1>5. b[0] = G /\ b[z] = Heading!PlaceRow(G, i, t)
      /\ \A k \in 1 .. z : b[k] = Heading!Place(b[k - 1], i, Heading!DrawTh(L, i, w[k]))
  BY <1>3, <1>4 DEF TurnsOfRow
<1>6. /\ \A k \in 1 .. z : w[k] \in 1 .. wide /\ Heading!Starts(L, i, w[k])
      /\ \A x \in 1 .. wide : Heading!Starts(L, i, x) => \E m \in 1 .. z : x = w[m]
  <2>1. Range(w) = {x \in 1 .. wide : Heading!Starts(L, i, x)}
    <3> HIDE DEF w
    <3> QED BY <1>1 DEF StartsOf
  <2> HIDE DEF w, C, z
  <2> QED BY <1>2, <2>1 DEF Range
<1>7. \A p, q \in 1 .. z : p < q => w[p] < w[q]
  BY <1>1 DEF Ascending
<1> HIDE DEF w, z, C
<1> DEFINE T == {k \in 0 .. z : H(b[k], k)}
<1>8. 0 \in T
  BY <1>2, <1>5
<1>9. ASSUME NEW k \in 1 .. z, k - 1 \in T PROVE k \in T
  <2> DEFINE c == At(k - 1)
             d == w[k]
  <2>0. k \in Nat /\ k # 0 /\ k \in 0 .. z /\ d \in 1 .. wide
    BY <1>2, <1>6
  <2>1. c \in 0 .. wide /\ c < d
    <3>1. CASE k = 1
      BY <1>0, <2>0, <3>1
    <3>2. CASE k # 1
      <4>1. k - 1 \in 1 .. z /\ k - 1 < k /\ k - 1 # 0
        BY <1>2, <2>0, <3>2
      <4>2. w[k - 1] \in 1 .. wide /\ w[k - 1] < w[k]
        BY <4>1, <1>6, <1>7
      <4> QED BY <4>1, <4>2
    <3> QED BY <3>1, <3>2
  <2>2. ASSUME NEW x \in 1 .. wide, Heading!Starts(L, i, x) PROVE x <= c \/ d <= x
    <3>1. PICK m \in 1 .. z : x = w[m]
      BY <1>6, <2>2
    <3>2. CASE k <= m
      <4>1. k = m \/ k < m
        BY <1>2, <3>2
      <4>2. d = x \/ d < x
        BY <4>1, <3>1, <1>7
      <4> QED BY <2>0, <4>2
    <3>3. CASE ~(k <= m)
      <4>1. k - 1 \in 1 .. z /\ k - 1 # 0 /\ (m = k - 1 \/ m < k - 1)
        BY <1>2, <3>3
      <4>2. c = w[k - 1] /\ w[k - 1] \in 1 .. wide
        BY <4>1, <1>6
      <4>3. x = c \/ x < c
        BY <4>1, <4>2, <3>1, <1>7
      <4> HIDE DEF c
      <4> QED BY <4>3, <2>1
    <3> QED BY <3>2, <3>3
  <2>3. FilledUpTo(b[k - 1], L, high, wide, width, i, c) /\ Heading!Starts(L, i, d)
    BY <1>9, <1>6
  <2>4. b[k] = Heading!Place(b[k - 1], i, Heading!DrawTh(L, i, d))
    BY <1>5
  <2> HIDE DEF c, d, H
  <2>5. FilledUpTo(Heading!Place(b[k - 1], i, Heading!DrawTh(L, i, d)), L, high, wide, width, i, d)
    BY <2>0, <2>1, <2>2, <2>3, FilledNext
  <2> QED BY <2>0, <2>4, <2>5 DEF H, d
<1>10. z \in T
  <2> HIDE DEF T
  <2> QED BY <1>2, <1>8, <1>9, Counted
<1> DEFINE g == Heading!PlaceRow(G, i, t)
<1>11. FilledUpTo(g, L, high, wide, width, i, At(z))
  BY <1>5, <1>10
<1>12. ASSUME NEW p \in 1 .. high, NEW q \in 1 .. width
       PROVE  Early(L, wide, i, At(z), p, q) <=> Early(L, wide, i + 1, 0, p, q)
  <2>1. ASSUME Early(L, wide, i, At(z), p, q) PROVE Early(L, wide, i + 1, 0, p, q)
    <3>1. PICK x \in 1 .. i, y \in 1 .. wide : Heading!Starts(L, x, y) /\ L[x][y] = L[p][q]
      BY <2>1 DEF Early
    <3>2. x \in 1 .. i + 1 /\ x < i + 1
      BY <1>0
    <3> QED BY <3>1, <3>2 DEF Early
  <2>2. ASSUME Early(L, wide, i + 1, 0, p, q) PROVE Early(L, wide, i, At(z), p, q)
    <3>1. PICK x \in 1 .. i + 1, y \in 1 .. wide :
            Heading!Starts(L, x, y) /\ L[x][y] = L[p][q] /\ (x < i + 1 \/ y <= 0)
      BY <2>2 DEF Early
    <3>2. x \in 1 .. i /\ (x < i \/ x = i)
      BY <1>0, <3>1
    <3>3. ASSUME x = i PROVE y <= At(z)
      <4>1. PICK m \in 1 .. z : y = w[m]
        BY <1>6, <3>1, <3>3
      <4>2. z \in 1 .. z /\ z # 0 /\ (m = z \/ m < z)
        BY <1>2
      <4>3. y = w[z] \/ y < w[z]
        BY <4>1, <4>2, <1>7
      <4>4. w[z] \in 1 .. wide
        BY <4>2, <1>6
      <4> QED BY <4>2, <4>3, <4>4
    <3> QED BY <3>1, <3>2, <3>3 DEF Early
  <2> QED BY <2>1, <2>2
<1> HIDE DEF g, At
<1>13. FilledUpTo(g, L, high, wide, width, i + 1, 0)
  BY <1>11, <1>12 DEF FilledUpTo
<1> QED BY <1>13 DEF g, t

\* A heading that was drawn is laid out the same when it is detected again.
LEMMA DrawnDetected ==
  ASSUME NEW high, NEW wide, NEW L, Rectangles(L, high, wide),
         NEW width \in Nat, wide <= width, Nil \notin HeadingThs,
         NEW trs, trs = [i \in 1 .. high |-> Heading!DrawTr(L, i)],
         NEW p \in 1 .. high, NEW q \in 1 .. width
  PROVE  IF q <= wide
         THEN /\ Heading!DetectHeader(trs, width)[p][q] # Nil
              /\ Heading!DetectHeader(trs, width)[p][q].cell = L[p][q]
         ELSE Heading!DetectHeader(trs, width)[p][q] = Nil
<1>0. high \in Nat /\ wide \in Nat
  BY DEF Rectangles
<1>1. trs \in [1 .. high -> Seq(HeadingThs)] /\ \A i \in 1 .. high : trs[i] = Heading!DrawTr(L, i)
  <2>1. \A i \in 1 .. high : Heading!DrawTr(L, i) \in Seq(HeadingThs)
    BY RowDrawn
  <2> QED BY <2>1
<1>2. trs \in Seq(Seq(HeadingThs)) /\ Len(trs) = high
  BY <1>0, <1>1
<1> DEFINE S == Grids(high, width)
           again == Heading!DetectHeader(trs, width)
<1>3. PICK b : TurnsOfRows(b, trs, width, S)
  BY <1>2, DetectTurns
<1>4. /\ b[0] = Blank(high, width) /\ b[high] = again
      /\ \A i \in 1 .. high : b[i] = Heading!PlaceRow(b[i - 1], i, Heading!DrawTr(L, i))
  BY <1>1, <1>2, <1>3 DEF TurnsOfRows
<1> HIDE DEF S, again
<1> DEFINE T == {k \in 0 .. high : FilledUpTo(b[k], L, high, wide, width, k + 1, 0)}
<1>5. 0 \in T
  <2> DEFINE G == Blank(high, width)
  <2>1. G \in Grids(high, width) /\ \A x \in 1 .. high, y \in 1 .. width : G[x][y] = Nil
    BY DEF Grids, Blank
  <2>2. \A x, y : ~Early(L, wide, 1, 0, x, y)
    <3> SUFFICES ASSUME NEW a \in 1 .. 1, NEW e \in 1 .. wide, a < 1 \/ e <= 0 PROVE FALSE
      BY DEF Early
    <3> QED BY <1>0
  <2> HIDE DEF G
  <2>3. FilledUpTo(G, L, high, wide, width, 1, 0)
    BY <2>1, <2>2 DEF FilledUpTo
  <2>4. b[0] = G /\ 0 + 1 = 1 /\ 0 \in 0 .. high
    BY <1>0, <1>4 DEF G
  <2> QED BY <2>3, <2>4
<1>6. ASSUME NEW k \in 1 .. high, k - 1 \in T PROVE k \in T
  <2>1. k \in 0 .. high /\ (k - 1) + 1 = k
    BY <1>0
  <2>2. FilledUpTo(b[k - 1], L, high, wide, width, k, 0)
    <3>1. FilledUpTo(b[k - 1], L, high, wide, width, (k - 1) + 1, 0)
      BY <1>6
    <3> QED BY <2>1, <3>1
  <2>3. FilledUpTo(Heading!PlaceRow(b[k - 1], k, Heading!DrawTr(L, k)), L, high, wide, width, k + 1, 0)
    BY <2>2, RowFilled
  <2> QED BY <2>1, <2>3, <1>4
<1>7. FilledUpTo(again, L, high, wide, width, high + 1, 0)
  <2>1. high \in T
    <3> HIDE DEF T
    <3> QED BY <1>0, <1>5, <1>6, Counted
  <2> QED BY <2>1, <1>4
<1>8. ASSUME q <= wide PROVE Early(L, wide, high + 1, 0, p, q)
  <2>1. q \in 1 .. wide
    BY <1>0, <1>8
  <2>2. PICK a \in 1 .. p, e \in 1 .. q : Heading!Starts(L, a, e) /\ L[a][e] = L[p][q]
    BY <2>1, StartsSomewhere
  <2>3. a \in 1 .. high + 1 /\ a < high + 1 /\ e \in 1 .. wide
    BY <1>0, <2>1
  <2> QED BY <2>2, <2>3 DEF Early
<1> QED BY <1>7, <1>8 DEF FilledUpTo, again

(***************************************************************************)
(* The columns, their heading and the child rows.                          *)
(***************************************************************************)

HeadingSize == Cardinality(HeadingColumns)
HeadingChildren == [span : HeadingColumns, shown : BOOLEAN]
HeadingRows == 1 .. HeadingRowCount
CellsOf(V) == Those(V, HeadingSize)
NodesOf(p) == [k \in DOMAIN p |-> Heading!Node(p[k])]
ShownOf(d) == {i \in HeadingRows : d[i] # Nil /\ d[i].shown}

\* What holds of the columns and the child rows in every state: every row with
\* a node has the cells of the visible columns, and the table is the page drawn
\* last with the child rows shown now, of which there are none before the events
\* are attached.
HeadingInv ==
  /\ visible \in SUBSET HeadingColumns /\ visible # {}
  /\ tr \in [HeadingRows -> {Nil, CellsOf(visible)}]
  /\ details \in [HeadingRows -> HeadingChildren \cup {Nil}]
  /\ listens \in BOOLEAN /\ (listens \/ ShownOf(details) = {})
  /\ page \in Seq(HeadingRows)
  /\ tbody = Heading!Behind(NodesOf(page), ShownOf(details))

LEMMA HeadingParts ==
  /\ HeadingSize \in Nat /\ HeadingColumns = 1 .. HeadingSize /\ IsFiniteSet(HeadingColumns)
  /\ HeadingRowCount \in Nat /\ HeadingPageLength \in Nat \ {0}
  /\ Heading!TableRow = HeadingRows
  /\ Nil \notin HeadingChildren
  /\ \A V : Heading!InOrder(V) = CellsOf(V)
<1>1. HeadingColumns = 1 .. HeadingSize /\ IsFiniteSet(HeadingColumns)
      /\ HeadingRowCount \in Nat /\ HeadingPageLength \in Nat \ {0} /\ Nil \notin HeadingChildren
  BY HeadingAssumption DEF HeadingSize, HeadingChildren
<1>2. HeadingSize \in Nat
  BY <1>1, FS_CardinalityType DEF HeadingSize
<1>3. Heading!TableRow = HeadingRows
  BY DEF Heading!TableRow, HeadingRows
<1>4. \A V : Heading!InOrder(V) = CellsOf(V)
  <2> TAKE V
  <2>1. Counting(HeadingSize) = [j \in HeadingColumns |-> j]
    BY <1>1 DEF Counting
  <2> QED BY <2>1, HeadingOnly DEF Heading!InOrder, CellsOf, Those
<1> QED BY <1>1, <1>2, <1>3, <1>4

LEMMA ShownFacts ==
  ASSUME details \in [HeadingRows -> HeadingChildren \cup {Nil}]
  PROVE  /\ ShownOf(details) = {i \in Heading!TableRow : Heading!Shown(i)}
         /\ ShownOf(details) \subseteq HeadingRows
         /\ \A i \in HeadingRows : i \in ShownOf(details) <=> Heading!Shown(i)
BY HeadingParts DEF ShownOf, Heading!Shown

LEMMA NodesTyped ==
  ASSUME NEW p \in Seq(HeadingRows)
  PROVE  /\ NodesOf(p) \in Seq(Trs) /\ Len(NodesOf(p)) = Len(p)
         /\ \A k \in 1 .. Len(p) : NodesOf(p)[k] = Heading!Node(p[k])
<1> DEFINE n == Len(p)
           w == NodesOf(p)
<1>1. n \in Nat /\ DOMAIN p = 1 .. n /\ \A k \in 1 .. n : p[k] \in HeadingRows
  OBVIOUS
<1> HIDE DEF n
<1>2. w = [k \in 1 .. n |-> Heading!Node(p[k])]
  BY <1>1 DEF NodesOf
<1>3. \A k \in 1 .. n : Heading!Node(p[k]) \in Trs
  BY <1>1, HeadingParts DEF Trs
<1>4. w \in [1 .. n -> Trs] /\ \A k \in 1 .. n : w[k] = Heading!Node(p[k])
  BY <1>2, <1>3
<1> HIDE DEF w
<1>5. w \in Seq(Trs) /\ Len(w) = n
  BY <1>1, <1>4
<1> QED BY <1>4, <1>5 DEF n, w

\* The cells of a row when a column is shown or hidden.
LEMMA CellsTurned ==
  ASSUME HeadingInv, NEW j \in HeadingColumns, NEW vis \in BOOLEAN, (j \in visible) # vis
  PROVE  Heading!CellsAfter(CellsOf(visible), j, vis)
           = CellsOf(IF vis THEN visible \cup {j} ELSE visible \ {j})
<1> DEFINE N == HeadingSize
           w == CellsOf(visible)
           later == Above(visible, j)
<1>1. N \in Nat /\ HeadingColumns = 1 .. N /\ visible \in SUBSET (1 .. N) /\ j \in 1 .. N
  BY HeadingParts DEF HeadingInv
<1>2. w = Those(visible, N)
  BY DEF CellsOf
<1> HIDE DEF N
<1>3. w \in Seq(Int) /\ Range(w) = visible \cap (1 .. N)
  BY <1>1, <1>2, ThoseTyped
<1>4. CASE ~vis
  <2> DEFINE c == Counting(N)
             D == HeadingColumns \ {j}
  <2>1. Heading!CellsAfter(w, j, vis) = Only(w, D)
    BY <1>4, HeadingOnly DEF Heading!CellsAfter
  <2>2. c \in Seq(Int)
    BY <1>1, CountingTyped
  <2>3. visible \cap D = visible \ {j}
    BY <1>1
  <2> HIDE DEF c, D
  <2>4. Only(Only(c, visible), D) = Only(c, visible \cap D)
    BY <2>2, OnlyTwice
  <2> QED BY <1>4, <2>1, <2>3, <2>4 DEF CellsOf, Those, c, N
<1>5. CASE vis
  <2> DEFINE before == CHOOSE x \in later : \A d \in later : x <= d
             k == CHOOSE x \in DOMAIN w : w[x] = before
  <2>n. j \notin visible
    BY <1>5
  <2>1. Heading!CellsAfter(w, j, vis) =
          IF later = {} THEN Append(w, j)
          ELSE SubSeq(w, 1, k - 1) \o <<j>> \o SubSeq(w, k, Len(w))
    BY <1>5 DEF Heading!CellsAfter, Above
  <2>0. OneMore(visible, j, N, w)
    BY <1>1, <1>2, <2>n, ThoseMore
  <2>2. /\ later = {} => Those(visible \cup {j}, N) = Append(w, j)
        /\ \A x \in later, i \in 1 .. Len(w) :
             (\A d \in later : x <= d) /\ w[i] = x
               => Those(visible \cup {j}, N) = SubSeq(w, 1, i - 1) \o <<j>> \o SubSeq(w, i, Len(w))
    <3> HIDE DEF w
    <3> QED BY <2>0 DEF later, OneMore
  <2>3. CASE later = {}
    BY <1>5, <2>1, <2>2, <2>3 DEF CellsOf, N
  <2>4. CASE later # {}
    <3>1. later \subseteq Nat /\ later \subseteq visible
      <4>1. visible \subseteq Nat
        BY <1>1
      <4> QED BY <4>1 DEF Above
    <3>2. \E x \in later : \A d \in later : x <= d
      <4> HIDE DEF later
      <4> QED BY <2>4, <3>1, Least
    <3>3. before \in later /\ \A d \in later : before <= d
      <4> HIDE DEF later
      <4> QED BY <3>2
    <3> HIDE DEF before, later
    <3>4. before \in Range(w)
      BY <1>1, <1>3, <3>1, <3>3
    <3>5. \E x \in DOMAIN w : w[x] = before
      BY <3>4 DEF Range
    <3>6. k \in DOMAIN w /\ w[k] = before
      BY <3>5
    <3>7. DOMAIN w = 1 .. Len(w)
      BY <1>3
    <3> HIDE DEF k, w
    <3>8. Those(visible \cup {j}, N) = SubSeq(w, 1, k - 1) \o <<j>> \o SubSeq(w, k, Len(w))
      BY <2>2, <3>3, <3>6, <3>7
    <3> QED BY <1>5, <2>1, <2>4, <3>8 DEF CellsOf, N, w
  <2> QED BY <2>3, <2>4
<1> QED BY <1>4, <1>5

LEMMA HeadingInitial == Heading!Init => HeadingInv
<1> SUFFICES ASSUME Heading!Init PROVE HeadingInv
  OBVIOUS
<1>1. /\ visible \in (SUBSET HeadingColumns) \ {{}}
      /\ tr = [i \in HeadingRows |-> Nil] /\ details = [i \in HeadingRows |-> Nil]
      /\ listens = FALSE /\ page = <<>> /\ tbody = <<>>
  BY HeadingParts DEF Heading!Init
<1>2. /\ tr \in [HeadingRows -> {Nil, CellsOf(visible)}]
      /\ details \in [HeadingRows -> HeadingChildren \cup {Nil}]
  BY <1>1
<1>3. ShownOf(details) = {}
  BY <1>1 DEF ShownOf
<1>4. page \in Seq(HeadingRows)
  BY <1>1
<1>5. NodesOf(page) = <<>>
  <2>1. NodesOf(<<>>) = <<>>
    BY DEF NodesOf
  <2> QED BY <1>1, <2>1
<1>6. tbody = Heading!Behind(NodesOf(page), ShownOf(details))
  BY <1>1, <1>5, BehindNone
<1>7. listens \in BOOLEAN /\ (listens \/ ShownOf(details) = {})
  BY <1>1, <1>3
<1>8. visible \in SUBSET HeadingColumns /\ visible # {}
  BY <1>1
<1> QED BY <1>2, <1>4, <1>6, <1>7, <1>8 DEF HeadingInv

LEMMA HeadingCount == \A V : Heading!Cardinality(V) = Cardinality(V)
BY DEF Heading!Cardinality, Cardinality

\* The table with the child row of one row put in or taken out.
LEMMA ChildMoved ==
  ASSUME HeadingInv, NEW i \in HeadingRows
  PROVE  /\ Heading!InsertAfter(tbody, i) = Heading!Behind(NodesOf(page), ShownOf(details) \cup {i})
         /\ Heading!Detach(tbody, i) = Heading!Behind(NodesOf(page), ShownOf(details) \ {i})
<1> DEFINE a == NodesOf(page)
           S == ShownOf(details)
           R == S \ {i}
<1>1. a \in Seq(Trs) /\ i \in Heading!TableRow /\ tbody = Heading!Behind(a, S)
  BY NodesTyped, HeadingParts DEF HeadingInv
<1> HIDE DEF a, S
<1>2. Heading!Detach(tbody, i) = Heading!Behind(a, R)
  BY <1>1, BehindWithout
<1>3. Heading!Behind(Heading!Behind(a, R), {i}) = Heading!Behind(a, R \cup {i})
  <2>1. i \notin R
    OBVIOUS
  <2> HIDE DEF R
  <2> QED BY <1>1, <2>1, BehindMore
<1>4. R \cup {i} = S \cup {i}
  OBVIOUS
<1> QED BY <1>2, <1>3, <1>4 DEF a, S, R, Heading!InsertAfter

LEMMA HeadingDraw ==
  ASSUME HeadingInv, NEW start \in 0 .. HeadingRowCount - 1, Heading!Draw(start)
  PROVE  HeadingInv'
<1> DEFINE some == {HeadingPageLength, HeadingRowCount - start}
           m == Heading!Min(some)
           p == [k \in 1 .. m |-> start + k]
<1>1. HeadingRowCount \in Nat /\ HeadingPageLength \in Nat \ {0} /\ HeadingRowCount - start \in Nat
  BY HeadingParts
<1>2. m \in Nat /\ m <= HeadingRowCount - start
  <2>1. \E x \in some : \A y \in some : x <= y
    <3>1. HeadingPageLength <= HeadingRowCount - start \/ HeadingRowCount - start <= HeadingPageLength
      BY <1>1
    <3> QED BY <1>1, <3>1
  <2>2. m = CHOOSE x \in some : \A y \in some : x <= y
    BY DEF Heading!Min
  <2> HIDE DEF m, some
  <2>3. m \in some /\ \A y \in some : m <= y
    BY <2>1, <2>2
  <2> QED BY <1>1, <2>3 DEF some
<1> HIDE DEF m
<1>3. p \in Seq(HeadingRows)
  <2>1. \A k \in 1 .. m : start + k \in HeadingRows
    BY <1>1, <1>2 DEF HeadingRows
  <2> QED BY <1>2, <2>1
<1>4. /\ page' = p /\ tbody' = Heading!BodyOf(p)
      /\ tr' = [i \in Heading!TableRow |-> IF i \in Heading!ToSet(p) /\ tr[i] = Nil
                                   THEN Heading!InOrder(visible) ELSE tr[i]]
      /\ UNCHANGED <<visible, details, listens>>
  BY DEF Heading!Draw, m
<1> HIDE DEF p
<1>5. tbody' = Heading!Behind(NodesOf(page'), ShownOf(details'))
  <2>1. ShownOf(details) = {i \in Heading!TableRow : Heading!Shown(i)}
    BY ShownFacts DEF HeadingInv
  <2>2. ShownOf(details) = IF listens THEN {i \in Heading!TableRow : Heading!Shown(i)} ELSE {}
    BY <2>1 DEF HeadingInv
  <2>3. Heading!BodyOf(p) = Heading!Behind(NodesOf(p), ShownOf(details))
    BY <2>2 DEF Heading!BodyOf, NodesOf
  <2> QED BY <1>4, <2>3
<1>6. tr' \in [HeadingRows -> {Nil, CellsOf(visible')}]
  <2>1. Heading!InOrder(visible) = CellsOf(visible)
    BY HeadingParts
  <2>2. \A i \in HeadingRows : tr[i] \in {Nil, CellsOf(visible)}
    BY DEF HeadingInv
  <2>3. tr' = [i \in HeadingRows |-> IF i \in Heading!ToSet(p) /\ tr[i] = Nil
                                   THEN CellsOf(visible) ELSE tr[i]]
    BY <1>4, <2>1, HeadingParts
  <2>4. tr' \in [HeadingRows -> {Nil, CellsOf(visible)}]
    BY <2>2, <2>3
  <2> QED BY <1>4, <2>4
<1>7. UNCHANGED <<visible, details, listens>> /\ page' \in Seq(HeadingRows)
  BY <1>3, <1>4
<1> QED BY <1>5, <1>6, <1>7 DEF HeadingInv

LEMMA HeadingSpan ==
  ASSUME NEW V \in SUBSET HeadingColumns, V # {}
  PROVE  Cardinality(V) \in HeadingColumns /\ IsFiniteSet(V)
<1> DEFINE c == Cardinality(V)
<1>1. IsFiniteSet(V) /\ c <= HeadingSize
  BY HeadingParts, FS_Subset DEF HeadingSize
<1>2. c \in Nat
  BY <1>1, FS_CardinalityType
<1>3. c # 0
  BY <1>1, FS_EmptySet
<1> HIDE DEF c
<1>4. c \in 1 .. HeadingSize
  BY <1>1, <1>2, <1>3, HeadingParts
<1> QED BY <1>1, <1>4, HeadingParts DEF c

LEMMA HeadingSetVisible ==
  ASSUME HeadingInv, NEW j \in HeadingColumns, NEW vis \in BOOLEAN, Heading!SetVisible(j, vis)
  PROVE  HeadingInv'
<1> DEFINE V == IF vis THEN visible \cup {j} ELSE visible \ {j}
           C == Heading!Cardinality(V)
<1>1. /\ (j \in visible) # vis /\ visible' = V /\ V # {}
      /\ tr' = [i \in HeadingRows |-> IF tr[i] = Nil THEN Nil ELSE Heading!CellsAfter(tr[i], j, vis)]
      /\ details' = [i \in HeadingRows |->
                      IF listens /\ details[i] # Nil
                      THEN [details[i] EXCEPT !.span = C] ELSE details[i]]
      /\ UNCHANGED <<listens, page, tbody>>
  BY HeadingParts DEF Heading!SetVisible
<1>2. V \in SUBSET HeadingColumns
  BY DEF HeadingInv
<1>3. C \in HeadingColumns
  BY <1>1, <1>2, HeadingSpan, HeadingCount
<1>4. Heading!CellsAfter(CellsOf(visible), j, vis) = CellsOf(V)
  BY <1>1, CellsTurned
<1> HIDE DEF V, C
<1>5. tr' \in [HeadingRows -> {Nil, CellsOf(V)}]
  <2>1. \A i \in HeadingRows : tr[i] \in {Nil, CellsOf(visible)}
    BY DEF HeadingInv
  <2>2. \A i \in HeadingRows : (IF tr[i] = Nil THEN Nil ELSE Heading!CellsAfter(tr[i], j, vis))
                                 \in {Nil, CellsOf(V)}
    BY <2>1, <1>4
  <2> QED BY <1>1, <2>2
<1>6. /\ details' \in [HeadingRows -> HeadingChildren \cup {Nil}]
      /\ ShownOf(details') = ShownOf(details)
  <2>1. ASSUME NEW i \in HeadingRows
        PROVE  /\ details'[i] \in HeadingChildren \cup {Nil}
               /\ (details'[i] # Nil /\ details'[i].shown) <=> (details[i] # Nil /\ details[i].shown)
    <3>1. details[i] \in HeadingChildren \cup {Nil}
      BY DEF HeadingInv
    <3>2. details'[i] = IF listens /\ details[i] # Nil
                        THEN [details[i] EXCEPT !.span = C] ELSE details[i]
      BY <1>1
    <3>3. CASE listens /\ details[i] # Nil
      <4>1. details[i] \in [span : HeadingColumns, shown : BOOLEAN]
        BY <3>1, <3>3 DEF HeadingChildren
      <4>2. details'[i] = [span |-> C, shown |-> details[i].shown]
        BY <3>2, <3>3, <4>1
      <4>3. details'[i] \in HeadingChildren /\ details'[i].shown = details[i].shown
        BY <4>1, <4>2, <1>3 DEF HeadingChildren
      <4> QED BY <3>3, <4>3, HeadingParts
    <3>4. CASE ~(listens /\ details[i] # Nil)
      BY <3>1, <3>2, <3>4
    <3> QED BY <3>3, <3>4
  <2>2. ShownOf(details') = ShownOf(details)
    BY <2>1 DEF ShownOf
  <2>3. DOMAIN details' = HeadingRows /\ details' = [i \in HeadingRows |-> details'[i]]
    BY <1>1
  <2> QED BY <2>1, <2>2, <2>3
<1> QED BY <1>1, <1>2, <1>5, <1>6 DEF HeadingInv

LEMMA HeadingAddChild ==
  ASSUME HeadingInv, NEW i \in HeadingRows, Heading!AddChild(i)
  PROVE  HeadingInv'
<1> DEFINE S == ShownOf(details)
           x == [span |-> Heading!Cardinality(visible), shown |-> Heading!Shown(i)]
<1>1. /\ details' = [details EXCEPT ![i] = x]
      /\ tbody' = IF Heading!Shown(i) THEN Heading!InsertAfter(tbody, i) ELSE Heading!Detach(tbody, i)
      /\ UNCHANGED <<visible, tr, listens, page>>
  BY DEF Heading!AddChild
<1>2. details \in [HeadingRows -> HeadingChildren \cup {Nil}]
  BY DEF HeadingInv
<1>3. S \subseteq HeadingRows /\ (i \in S <=> Heading!Shown(i))
  BY <1>2, ShownFacts
<1>4. x \in HeadingChildren /\ (x.shown <=> i \in S)
  <2>1. Heading!Cardinality(visible) \in HeadingColumns
    BY HeadingSpan, HeadingCount DEF HeadingInv
  <2>2. Heading!Shown(i) \in BOOLEAN
    <3>1. CASE details[i] = Nil
      BY <3>1 DEF Heading!Shown
    <3>2. CASE details[i] # Nil
      <4>1. details[i] \in HeadingChildren
        BY <1>2, <3>2
      <4> QED BY <4>1, <3>2 DEF Heading!Shown, HeadingChildren
    <3> QED BY <3>1, <3>2
  <2> HIDE DEF S
  <2> QED BY <1>3, <2>1, <2>2 DEF HeadingChildren
<1>5. ShownOf(details') = S /\ details' \in [HeadingRows -> HeadingChildren \cup {Nil}]
  <2>1. x # Nil
    BY <1>4, HeadingParts
  <2> HIDE DEF x
  <2>2. \A k \in HeadingRows : details'[k] = IF k = i THEN x ELSE details[k]
    BY <1>1, <1>2
  <2>3. \A k \in HeadingRows : (details'[k] # Nil /\ details'[k].shown) <=> k \in S
    <3>1. \A k \in HeadingRows : k \in S <=> (details[k] # Nil /\ details[k].shown)
      BY DEF ShownOf
    <3> HIDE DEF S
    <3> QED BY <2>1, <2>2, <3>1, <1>4
  <2> QED BY <1>1, <1>2, <1>4, <2>3 DEF ShownOf
<1>6. tbody' = Heading!Behind(NodesOf(page), S)
  <2>1. /\ Heading!InsertAfter(tbody, i) = Heading!Behind(NodesOf(page), S \cup {i})
        /\ Heading!Detach(tbody, i) = Heading!Behind(NodesOf(page), S \ {i})
    BY ChildMoved
  <2> HIDE DEF S
  <2>2. CASE i \in S
    <3>1. S \cup {i} = S
      BY <2>2
    <3> QED BY <1>1, <1>3, <2>1, <2>2, <3>1
  <2>3. CASE i \notin S
    <3>1. S \ {i} = S
      BY <2>3
    <3> QED BY <1>1, <1>3, <2>1, <2>3, <3>1
  <2> QED BY <2>2, <2>3
<1> QED BY <1>1, <1>5, <1>6 DEF HeadingInv

LEMMA HeadingShowChild ==
  ASSUME HeadingInv, NEW i \in HeadingRows, NEW show \in BOOLEAN, Heading!ShowChild(i, show)
  PROVE  HeadingInv'
<1> DEFINE S == ShownOf(details)
           x == [details[i] EXCEPT !.shown = show]
           T == IF show THEN S \cup {i} ELSE S \ {i}
<1>1. /\ details[i] # Nil /\ details' = [details EXCEPT ![i].shown = show]
      /\ tbody' = IF show THEN Heading!InsertAfter(tbody, i) ELSE Heading!Detach(tbody, i)
      /\ listens' = TRUE /\ UNCHANGED <<visible, tr, page>>
  BY DEF Heading!ShowChild
<1>2. details \in [HeadingRows -> HeadingChildren \cup {Nil}]
  BY DEF HeadingInv
<1>3. x \in HeadingChildren /\ x.shown = show
  <2>1. details[i] \in [span : HeadingColumns, shown : BOOLEAN]
    BY <1>1, <1>2 DEF HeadingChildren
  <2> QED BY <2>1 DEF HeadingChildren
<1>4. \A k \in HeadingRows : details'[k] = IF k = i THEN x ELSE details[k]
  BY <1>1, <1>2
<1>d. DOMAIN details' = HeadingRows /\ details' = [k \in HeadingRows |-> details'[k]]
  BY <1>1, <1>2
<1>5. x # Nil
  BY <1>3, HeadingParts
<1> HIDE DEF x
<1>6. details' \in [HeadingRows -> HeadingChildren \cup {Nil}]
  BY <1>2, <1>3, <1>4, <1>d
<1>7. ShownOf(details') = T
  <2>1. \A k \in HeadingRows : k \in S <=> (details[k] # Nil /\ details[k].shown)
    BY DEF ShownOf
  <2>2. S \subseteq HeadingRows
    BY DEF ShownOf
  <2> HIDE DEF S
  <2>3. \A k \in HeadingRows : (details'[k] # Nil /\ details'[k].shown) <=> k \in T
    <3> TAKE k \in HeadingRows
    <3>1. CASE k = i
      BY <3>1, <1>3, <1>4, <1>5
    <3>2. CASE k # i
      BY <3>2, <1>4, <2>1
    <3> QED BY <3>1, <3>2
  <2>4. T \subseteq HeadingRows
    BY <2>2
  <2> HIDE DEF T
  <2> QED BY <2>3, <2>4 DEF ShownOf
<1>8. tbody' = Heading!Behind(NodesOf(page), T)
  <2>1. /\ Heading!InsertAfter(tbody, i) = Heading!Behind(NodesOf(page), S \cup {i})
        /\ Heading!Detach(tbody, i) = Heading!Behind(NodesOf(page), S \ {i})
    BY ChildMoved
  <2> QED BY <1>1, <2>1
<1> HIDE DEF T
<1> QED BY <1>1, <1>6, <1>7, <1>8 DEF HeadingInv

LEMMA HeadingRemoveChild ==
  ASSUME HeadingInv, NEW i \in HeadingRows, Heading!RemoveChild(i)
  PROVE  HeadingInv'
<1> DEFINE S == ShownOf(details)
           T == S \ {i}
<1>1. /\ details' = [details EXCEPT ![i] = Nil]
      /\ tbody' = Heading!Detach(tbody, i) /\ UNCHANGED <<visible, tr, listens, page>>
  BY DEF Heading!RemoveChild
<1>2. details \in [HeadingRows -> HeadingChildren \cup {Nil}]
  BY DEF HeadingInv
<1>3. \A k \in HeadingRows : details'[k] = IF k = i THEN Nil ELSE details[k]
  BY <1>1, <1>2
<1>4. details' \in [HeadingRows -> HeadingChildren \cup {Nil}]
  BY <1>1, <1>2
<1>5. ShownOf(details') = T
  BY <1>3 DEF ShownOf
<1>6. tbody' = Heading!Behind(NodesOf(page), T)
  BY <1>1, ChildMoved
<1>7. listens \/ T = {}
  BY DEF HeadingInv
<1> HIDE DEF T
<1> QED BY <1>1, <1>4, <1>5, <1>6, <1>7 DEF HeadingInv

LEMMA HeadingStep == ASSUME HeadingInv, Heading!Next PROVE HeadingInv'
<1>1. ASSUME NEW start \in 0 .. HeadingRowCount - 1, Heading!Draw(start) PROVE HeadingInv'
  BY <1>1, HeadingDraw
<1>2. ASSUME NEW j \in HeadingColumns, NEW vis \in BOOLEAN, Heading!SetVisible(j, vis)
      PROVE  HeadingInv'
  BY <1>2, HeadingSetVisible
<1>3. ASSUME NEW i \in HeadingRows,
             Heading!AddChild(i) \/ Heading!RemoveChild(i) \/ \E show \in BOOLEAN : Heading!ShowChild(i, show)
      PROVE  HeadingInv'
  BY <1>3, HeadingAddChild, HeadingRemoveChild, HeadingShowChild
<1> QED BY <1>1, <1>2, <1>3, HeadingParts DEF Heading!Next

LEMMA HeadingStays ==
  ASSUME HeadingInv, UNCHANGED <<visible, tr, details, listens, page, tbody>>
  PROVE  HeadingInv'
BY DEF HeadingInv

LEMMA HeadingHolds ==
  ASSUME HeadingInv
  PROVE  Heading!TypeOK /\ Heading!CellsInPlace /\ Heading!ChildRowsInPlace
<1> DEFINE N == HeadingSize
           a == NodesOf(page)
           S == ShownOf(details)
           w == CellsOf(visible)
<1>1. /\ visible \in SUBSET (1 .. N) /\ visible # {} /\ N \in Nat /\ HeadingColumns = 1 .. N
      /\ page \in Seq(HeadingRows)
  BY HeadingParts DEF HeadingInv
<1>2. a \in Seq(Trs) /\ Len(a) = Len(page) /\ \A k \in 1 .. Len(page) : a[k] = Heading!Node(page[k])
  BY <1>1, NodesTyped
<1>3. tbody = Heading!Behind(a, S)
  BY DEF HeadingInv
<1>4. \A i \in HeadingRows : i \in S <=> Heading!Shown(i)
  BY ShownFacts DEF HeadingInv
<1>5. /\ w \in Seq(Int) /\ Range(w) = visible /\ Len(w) = Cardinality(visible)
  <2>1. visible \cap (1 .. N) = visible
    BY <1>1
  <2>2. /\ Those(visible, N) \in Seq(Int) /\ Range(Those(visible, N)) = visible \cap (1 .. N)
        /\ Len(Those(visible, N)) = Cardinality(visible \cap (1 .. N))
    <3> HIDE DEF N
    <3> QED BY <1>1, ThoseTyped
  <2> QED BY <2>1, <2>2 DEF CellsOf
<1>6. Cardinality(visible) \in 1 .. N
  BY <1>1, HeadingSpan
<1> HIDE DEF a, S, w, N
<1>7. Heading!TypeOK
  <2>1. w \in Seq(HeadingColumns)
    <3>1. DOMAIN w = 1 .. Len(w) /\ Len(w) \in Nat
      BY <1>5
    <3>2. \A k \in 1 .. Len(w) : w[k] \in HeadingColumns
      <4>1. \A k \in 1 .. Len(w) : w[k] \in Range(w)
        BY <3>1 DEF Range
      <4> QED BY <4>1, <1>1, <1>5
    <3> QED BY <3>1, <3>2, <1>5
  <2>2. tr \in [HeadingRows -> Seq(HeadingColumns) \cup {Nil}]
    BY <2>1 DEF HeadingInv, w
  <2>3. \A i \in HeadingRows : details[i] = Nil \/ details[i] \in [span : HeadingColumns, shown : BOOLEAN]
    BY DEF HeadingInv, HeadingChildren
  <2>4. tbody \in Seq(Heading!Nodes)
    BY <1>2, <1>3, BehindTrs
  <2>5. listens \in BOOLEAN
    BY DEF HeadingInv
  <2> QED BY <1>1, <2>2, <2>3, <2>4, <2>5, HeadingParts DEF Heading!TypeOK
<1>8. Heading!CellsInPlace
  <2> SUFFICES ASSUME NEW i \in HeadingRows, tr[i] # Nil
      PROVE  /\ tr[i] = Heading!InOrder(visible)
             /\ \A j \in visible : tr[i][Heading!ColumnToVisible(j) + 1] = j
             /\ tr[i][Len(tr[i])] = Heading!VisibleSelector(-1)
    BY HeadingParts DEF Heading!CellsInPlace
  <2>1. tr[i] = w /\ Heading!InOrder(visible) = w
    BY HeadingParts DEF HeadingInv, w
  <2>2. ASSUME NEW j \in visible PROVE w[Heading!ColumnToVisible(j) + 1] = j
    <3>1. w = Those(visible, N)
      BY DEF w, CellsOf, N
    <3>2. w[Cardinality({c \in visible : c < j}) + 1] = j
      BY <1>1, <3>1, ThosePlaced
    <3> QED BY <3>2, HeadingCount DEF Heading!ColumnToVisible
  <2>3. Heading!VisibleSelector(-1) = w[Len(w)]
    <3> DEFINE c == Heading!Cardinality(visible)
    <3>0. c = Cardinality(visible)
      BY HeadingCount
    <3>1. c \in 1 .. c /\ c \in Nat
      BY <3>0, <1>1, <1>6
    <3>2. Heading!VisibleSelector(-1) = Heading!VisibleToColumn(c + -1)
      BY DEF Heading!VisibleSelector
    <3>3. (c + -1) + 1 = c
      BY <3>1
    <3>4. Heading!VisibleToColumn(c + -1)
            = IF (c + -1) + 1 \in 1 .. c THEN Heading!InOrder(visible)[(c + -1) + 1] ELSE Nil
      BY DEF Heading!VisibleToColumn
    <3> HIDE DEF c
    <3>5. Heading!VisibleToColumn(c + -1) = Heading!InOrder(visible)[c]
      BY <3>1, <3>3, <3>4
    <3> QED BY <3>0, <3>2, <3>5, <2>1, <1>5
  <2> QED BY <2>1, <2>2, <2>3
<1>9. Heading!ChildRowsInPlace
  <2>p. DOMAIN page = 1 .. Len(page) /\ Len(page) \in Nat /\ \A k \in 1 .. Len(page) : page[k] \in HeadingRows
    BY <1>1
  <2>t. tbody \in Seq(Heading!Nodes) /\ Only(tbody, Trs) = a
    BY <1>2, <1>3, BehindTrs
  <2>d. DOMAIN tbody = 1 .. Len(tbody) /\ Len(tbody) \in Nat
    BY <2>t
  <2>o. OfRows(tbody, S) /\ AllBehind(a, tbody, S)
    BY <1>2, <1>3, BehindPlaces
  <2>1. Heading!Only(tbody, { Heading!Node(i) : i \in Heading!TableRow })
          = [k \in DOMAIN page |-> Heading!Node(page[k])]
    BY <2>t, HeadingOnly DEF Trs, a, NodesOf
  <2>2. \A k \in DOMAIN tbody : tbody[k].child => Heading!Shown(tbody[k].row)
    <3> TAKE k \in DOMAIN tbody
    <3> HAVE tbody[k].child
    <3>1. tbody[k].row \in S
      BY <2>d, <2>o DEF OfRows
    <3>2. tbody[k].row \in HeadingRows
      BY <3>1 DEF S, ShownOf
    <3> QED BY <3>1, <3>2, <1>4
  <2>3. ASSUME NEW i \in { page[k] : k \in DOMAIN page }
        PROVE  Heading!Shown(i) <=> \E k \in DOMAIN tbody : /\ tbody[k] = Heading!Node(i) /\ k < Len(tbody)
                                                          /\ tbody[k + 1] = Heading!Child(i)
    <3>1. PICK m \in 1 .. Len(page) : page[m] = i
      BY <2>p
    <3>2. i \in HeadingRows /\ a[m] = Heading!Node(i) /\ m \in 1 .. Len(a)
      BY <3>1, <2>p, <1>2
    <3>3. i \in Heading!TableRow
      BY <3>2, HeadingParts
    <3>n. Heading!Node(i).row = i /\ Heading!Child(i).row = i /\ Heading!Child(i).child
      BY <3>3, HeadingNodes
    <3>4. ASSUME Heading!Shown(i)
          PROVE  \E k \in DOMAIN tbody : /\ tbody[k] = Heading!Node(i) /\ k < Len(tbody)
                                         /\ tbody[k + 1] = Heading!Child(i)
      <4>1. i \in S
        BY <3>2, <3>4, <1>4
      <4>2. StandsBehind(tbody, a[m])
        BY <3>2, <3>n, <4>1, <2>o DEF AllBehind
      <4> QED BY <4>2, <3>2, <3>n, <2>d DEF StandsBehind
    <3>5. ASSUME NEW k \in DOMAIN tbody, tbody[k] = Heading!Node(i) /\ k < Len(tbody)
                                         /\ tbody[k + 1] = Heading!Child(i)
          PROVE  Heading!Shown(i)
      <4>1. k + 1 \in DOMAIN tbody
        BY <2>d, <3>5
      <4> QED BY <4>1, <2>2, <3>5, <3>n
    <3> QED BY <3>4, <3>5
  <2> QED BY <2>1, <2>2, <2>3 DEF Heading!ChildRowsInPlace
<1> QED BY <1>7, <1>8, <1>9

(***************************************************************************)
(* The heading under the columns shown.                                    *)
(***************************************************************************)

\* The layout is that of a heading of the page, the cell of each column is one of
\* those above it, and the heading is drawn for the columns shown now.
LayoutInv ==
  /\ \E trs \in HeadingLayouts : layout = Heading!DetectHeader(trs, HeadingSize)
  /\ \A j \in HeadingColumns : \E i \in DOMAIN layout : nTh[j] = layout[i][j].cell
  /\ head = Heading!DrawHeadOf(layout, visible)

\* What the layout of a heading of the page is like.
LEMMA LayoutWhole ==
  ASSUME NEW trs \in HeadingLayouts, NEW grid, grid = Heading!DetectHeader(trs, HeadingSize)
  PROVE  /\ HeadingWhole(grid) /\ Nil \notin HeadingThs
         /\ \E high \in Nat : grid \in Grids(high, HeadingSize) /\ DOMAIN grid = 1 .. high
<1>1. HeadingWhole(grid) /\ Nil \notin HeadingThs /\ trs \in Seq(Seq(HeadingThs))
  BY HeadingAssumption DEF HeadingSize
<1>2. grid \in Grids(Len(trs), HeadingSize)
  BY <1>1, DetectTurns, HeadingParts
<1>3. Len(trs) \in Nat /\ DOMAIN grid = 1 .. Len(trs)
  BY <1>1, <1>2 DEF Grids
<1> QED BY <1>1, <1>2, <1>3

LEMMA UniqueThAbove ==
  ASSUME NEW trs \in HeadingLayouts, NEW grid, grid = Heading!DetectHeader(trs, HeadingSize),
         NEW j \in HeadingColumns
  PROVE  \E i \in DOMAIN grid : Heading!UniqueTh(grid, j) = grid[i][j]
<1> DEFINE unique == {i \in DOMAIN grid : grid[i][j].colspan = 1}
           least == CHOOSE i \in unique : \A k \in unique : i <= k
           greatest == CHOOSE i \in unique : \A k \in unique : i >= k
<1>1. PICK high \in Nat : DOMAIN grid = 1 .. high
  BY LayoutWhole
<1>2. unique # {} /\ unique \in SUBSET (1 .. high)
  <2>1. \E i \in DOMAIN grid : grid[i][j].colspan = 1
    BY LayoutWhole DEF HeadingWhole
  <2> QED BY <2>1, <1>1
<1>3. Heading!UniqueTh(grid, j) = grid[IF HeadingBSortCellsTop THEN least ELSE greatest][j]
  BY DEF Heading!UniqueTh
<1> HIDE DEF unique
<1>4. least \in unique
  <2>1. unique \in SUBSET Nat
    BY <1>2
  <2>2. \E i \in unique : \A k \in unique : i <= k
    BY <1>2, <2>1, Least
  <2> QED BY <2>2
<1>5. greatest \in unique
  <2> DEFINE below == {high - i : i \in unique}
  <2>1. below \in SUBSET Nat /\ below # {}
    <3>1. \A i \in unique : high - i \in Nat
      BY <1>2
    <3>2. \E i \in unique : TRUE
      BY <1>2
    <3> QED BY <3>1, <3>2
  <2>2. PICK x \in below : \A y \in below : x <= y
    <3> HIDE DEF below
    <3> QED BY <2>1, Least
  <2>3. PICK i \in unique : x = high - i
    BY <2>2
  <2>4. \A k \in unique : i >= k
    <3> TAKE k \in unique
    <3>1. high - k \in below
      OBVIOUS
    <3>2. high - i <= high - k
      <4> HIDE DEF below
      <4> QED BY <2>2, <2>3, <3>1
    <3> QED BY <3>2, <1>2
  <2> QED BY <2>4
<1> HIDE DEF least, greatest
<1> QED BY <1>2, <1>1, <1>3, <1>4, <1>5

LEMMA LayoutInitial == Heading!Init => LayoutInv
<1> SUFFICES ASSUME Heading!Init PROVE LayoutInv
  OBVIOUS
<1>1. Heading!Cardinality(HeadingColumns) = HeadingSize
  BY HeadingCount DEF HeadingSize
<1>2. PICK trs \in HeadingLayouts :
        /\ layout = Heading!DetectHeader(trs, HeadingSize)
        /\ nTh = [j \in HeadingColumns |-> Heading!UniqueTh(layout, j).cell]
  BY <1>1 DEF Heading!Init
<1>3. \A j \in HeadingColumns : \E i \in DOMAIN layout : nTh[j] = layout[i][j].cell
  <2> TAKE j \in HeadingColumns
  <2>1. PICK i \in DOMAIN layout : Heading!UniqueTh(layout, j) = layout[i][j]
    BY <1>2, UniqueThAbove
  <2> QED BY <1>2, <2>1
<1>4. head = Heading!DrawHeadOf(layout, visible)
  BY DEF Heading!Init
<1> QED BY <1>2, <1>3, <1>4 DEF LayoutInv

LEMMA LayoutStep == ASSUME LayoutInv, Heading!Next PROVE LayoutInv'
<1>1. UNCHANGED <<layout, nTh>>
  BY DEF Heading!Next, Heading!Draw, Heading!SetVisible, Heading!AddChild, Heading!ShowChild,
         Heading!RemoveChild
<1>2. head' = Heading!DrawHeadOf(layout, visible')
  <2>1. ASSUME NEW j, NEW vis, Heading!SetVisible(j, vis)
        PROVE  head' = Heading!DrawHeadOf(layout, visible')
    BY <2>1 DEF Heading!SetVisible, Heading!DrawHead
  <2>2. (\E j \in HeadingColumns, vis \in BOOLEAN : Heading!SetVisible(j, vis))
        \/ UNCHANGED <<head, visible>>
    BY DEF Heading!Next, Heading!Draw, Heading!AddChild, Heading!ShowChild, Heading!RemoveChild
  <2>3. head = Heading!DrawHeadOf(layout, visible)
    BY DEF LayoutInv
  <2> QED BY <2>1, <2>2, <2>3
<1> QED BY <1>1, <1>2 DEF LayoutInv

LEMMA LayoutStays ==
  ASSUME LayoutInv, UNCHANGED <<layout, visible, head, nTh>>
  PROVE  LayoutInv'
BY DEF LayoutInv

LEMMA CellCovers ==
  ASSUME NEW grid, HeadingWhole(grid), NEW i \in DOMAIN grid, NEW k \in DOMAIN grid,
         NEW x \in HeadingColumns, NEW y \in HeadingColumns, grid[i][x].cell = grid[k][y].cell,
         NEW p \in (i .. k) \cup (k .. i), NEW z \in (x .. y) \cup (y .. x)
  PROVE  grid[p][z].cell = grid[i][x].cell
BY DEF HeadingWhole

\* The layout without the hidden columns: the cells are still rectangles.
LEMMA LocalRectangles ==
  ASSUME NEW trs \in HeadingLayouts, NEW grid, grid = Heading!DetectHeader(trs, HeadingSize),
         NEW V \in SUBSET HeadingColumns, V # {}, NEW high \in Nat, DOMAIN grid = 1 .. high
  PROVE  /\ Rectangles(Heading!Local(grid, V), high, Cardinality(V))
         /\ Cardinality(V) <= HeadingSize /\ Len(CellsOf(V)) = Cardinality(V)
         /\ \A j \in 1 .. Cardinality(V) : CellsOf(V)[j] \in HeadingColumns
         /\ \A i \in 1 .. high, j \in 1 .. Cardinality(V) :
              Heading!Local(grid, V)[i][j] = grid[i][CellsOf(V)[j]].cell
<1> DEFINE wide == Cardinality(V)
           w == CellsOf(V)
           L == Heading!Local(grid, V)
<1>1. wide \in Nat /\ wide <= HeadingSize /\ HeadingSize \in Nat /\ HeadingColumns = 1 .. HeadingSize
  <2>1. Cardinality(V) \in HeadingColumns
    BY HeadingSpan
  <2> QED BY <2>1, HeadingParts
<1>2. w \in Seq(Int) /\ Range(w) = V /\ Ascending(w) /\ Len(w) = wide
  <2>1. V \cap (1 .. HeadingSize) = V
    BY <1>1
  <2>2. /\ Those(V, HeadingSize) \in Seq(Int) /\ Range(Those(V, HeadingSize)) = V \cap (1 .. HeadingSize)
        /\ Ascending(Those(V, HeadingSize))
        /\ Len(Those(V, HeadingSize)) = Cardinality(V \cap (1 .. HeadingSize))
    BY <1>1, ThoseTyped
  <2> QED BY <2>1, <2>2 DEF CellsOf
<1>3. HeadingWhole(grid)
  BY LayoutWhole
<1>4. L = [i \in 1 .. high |-> [j \in 1 .. wide |-> grid[i][w[j]].cell]]
  BY HeadingParts, HeadingCount DEF Heading!Local
<1> HIDE DEF w, L, wide
<1>5. \A j \in 1 .. wide : w[j] \in HeadingColumns /\ w[j] \in Int
  <2> TAKE j \in 1 .. wide
  <2>1. w[j] \in Range(w)
    BY <1>2 DEF Range
  <2> QED BY <1>1, <1>2, <2>1
<1>6. \A p, q \in 1 .. wide : p <= q => w[p] <= w[q]
  <2> SUFFICES ASSUME NEW p \in 1 .. wide, NEW q \in 1 .. wide, p <= q PROVE w[p] <= w[q]
    OBVIOUS
  <2>1. p = q \/ p < q
    BY <1>1
  <2>2. p < q => w[p] < w[q]
    BY <1>2 DEF Ascending
  <2> QED BY <2>1, <2>2, <1>5
<1>7. \A i \in 1 .. high, j \in 1 .. wide : L[i][j] = grid[i][w[j]].cell
  BY <1>4
<1>8. L \in [1 .. high -> [1 .. wide -> STRING]]
  <2>1. \A i \in 1 .. high, j \in 1 .. wide : grid[i][w[j]].cell \in STRING
    <3> TAKE i \in 1 .. high, j \in 1 .. wide
    <3>1. grid[i][w[j]] \in HeadingThs
      BY <1>3, <1>5 DEF HeadingWhole
    <3> QED BY <3>1 DEF HeadingThs
  <2> QED BY <1>4, <2>1
<1>9. ASSUME NEW i \in 1 .. high, NEW p \in 1 .. high, NEW k \in 1 .. high,
             NEW j \in 1 .. wide, NEW q \in 1 .. wide, NEW l \in 1 .. wide,
             L[i][j] = L[k][l], Within(i, p, k), Within(j, q, l)
      PROVE  L[p][q] = L[i][j]
  <2>1. p \in (i .. k) \cup (k .. i)
    BY <1>9 DEF Within
  <2>2. w[q] \in (w[j] .. w[l]) \cup (w[l] .. w[j])
    <3>1. (w[j] <= w[q] /\ w[q] <= w[l]) \/ (w[l] <= w[q] /\ w[q] <= w[j])
      BY <1>9, <1>6 DEF Within
    <3> QED BY <3>1, <1>5
  <2>3. grid[i][w[j]].cell = grid[k][w[l]].cell
    BY <1>7, <1>9
  <2>4. /\ i \in DOMAIN grid /\ k \in DOMAIN grid
        /\ w[j] \in HeadingColumns /\ w[l] \in HeadingColumns
    BY <1>5
  <2>5. grid[p][w[q]].cell = grid[i][w[j]].cell
    BY <1>3, <2>1, <2>2, <2>3, <2>4, CellCovers
  <2> QED BY <2>5, <1>7
<1>10. Rectangles(L, high, wide)
  BY <1>1, <1>8, <1>9 DEF Rectangles
<1> QED BY <1>1, <1>2, <1>5, <1>7, <1>10 DEF w, L, wide

LEMMA LayoutHolds ==
  ASSUME HeadingInv, LayoutInv
  PROVE  Heading!HeadingsStay
<1> DEFINE cols == Heading!InOrder(visible)
           wide == Cardinality(visible)
           L == Heading!Local(layout, visible)
           again == Heading!DetectHeader(head, HeadingSize)
<1>1. PICK trs \in HeadingLayouts : layout = Heading!DetectHeader(trs, HeadingSize)
  BY DEF LayoutInv
<1>2. PICK high \in Nat : DOMAIN layout = 1 .. high
  BY <1>1, LayoutWhole
<1>3. visible \in SUBSET HeadingColumns /\ visible # {}
  BY DEF HeadingInv
<1>4. cols = CellsOf(visible) /\ HeadingSize \in Nat /\ HeadingColumns = 1 .. HeadingSize
  BY HeadingParts
<1>5. /\ Rectangles(L, high, wide) /\ wide <= HeadingSize /\ Len(cols) = wide
      /\ \A j \in 1 .. wide : cols[j] \in HeadingColumns
      /\ \A i \in 1 .. high, j \in 1 .. wide : L[i][j] = layout[i][cols[j]].cell
  BY <1>1, <1>2, <1>3, <1>4, LocalRectangles
<1>6. Nil \notin HeadingThs
  BY <1>1, LayoutWhole
<1>7. head = [i \in 1 .. high |-> Heading!DrawTr(L, i)]
  BY <1>2 DEF LayoutInv, Heading!DrawHeadOf
<1>8. wide \in Nat /\ DOMAIN cols = 1 .. wide
  <2>1. wide \in Nat
    BY <1>5 DEF Rectangles
  <2>2. cols \in Seq(Int)
    BY <1>4, ThoseTyped DEF CellsOf
  <2> HIDE DEF cols, wide
  <2> QED BY <1>5, <2>1, <2>2
<1> HIDE DEF cols, wide, L, again
<1>9. \A i \in 1 .. high, j \in 1 .. HeadingSize :
        IF j <= wide THEN again[i][j] # Nil /\ again[i][j].cell = L[i][j] ELSE again[i][j] = Nil
  BY <1>4, <1>5, <1>6, <1>7, DrawnDetected DEF again
<1>10. \A i \in DOMAIN layout, j \in HeadingColumns :
         IF j > Len(cols) THEN again[i][j] = Nil
         ELSE again[i][j] # Nil /\ again[i][j].cell = layout[i][cols[j]].cell
  <2> TAKE i \in DOMAIN layout, j \in HeadingColumns
  <2>1. i \in 1 .. high /\ j \in 1 .. HeadingSize
    BY <1>2, <1>4
  <2>2. CASE j <= wide
    <3>1. j \in 1 .. wide /\ ~(j > Len(cols))
      BY <1>4, <1>5, <1>8, <2>1, <2>2
    <3> QED BY <2>1, <2>2, <3>1, <1>5, <1>9
  <2>3. CASE ~(j <= wide)
    <3>1. j > Len(cols)
      BY <1>4, <1>5, <1>8, <2>1, <2>3
    <3> QED BY <2>1, <2>3, <3>1, <1>9
  <2> QED BY <2>2, <2>3
<1>11. \A j \in DOMAIN cols : \E i \in DOMAIN layout : again[i][j].cell = nTh[cols[j]]
  <2> TAKE j \in DOMAIN cols
  <2>1. j \in 1 .. wide /\ cols[j] \in HeadingColumns
    BY <1>5, <1>8
  <2>2. PICK i \in DOMAIN layout : nTh[cols[j]] = layout[i][cols[j]].cell
    BY <2>1 DEF LayoutInv
  <2>3. j \in HeadingColumns /\ ~(j > Len(cols))
    BY <1>4, <1>5, <1>8, <2>1
  <2> QED BY <2>2, <2>3, <1>10
<1>12. Heading!Cardinality(HeadingColumns) = HeadingSize
  BY HeadingCount DEF HeadingSize
<1> QED BY <1>10, <1>11, <1>12 DEF Heading!HeadingsStay, cols, again

(***************************************************************************)
(* The theorems about the widgets.                                         *)
(***************************************************************************)

LEMMA PagerRuns ==
  (PageInit /\ widget = "pager" => Init)
  /\ (widget = "pager" /\ [PageNext]_pageVars => widget' = "pager" /\ [Next]_vars)
BY DEF PageInit, PageNext, pageVars, vars

LEMMA SetupRuns ==
  (PageInit /\ widget = "setup" => Setup!Init)
  /\ (widget = "setup" /\ [PageNext]_pageVars => widget' = "setup" /\ [Setup!Next]_(Setup!vars))
BY DEF PageInit, PageNext, pageVars, setupVars, Setup!vars

LEMMA OptionsRun ==
  (PageInit /\ widget = "options" => Options!Init)
  /\ (widget = "options" /\ [PageNext]_pageVars
        => widget' = "options" /\ [Options!Next]_OptionVars)
BY DEF PageInit, PageNext, pageVars, optionVars, OptionVars

LEMMA OrderRuns ==
  (PageInit /\ widget = "order" => Order!Init)
  /\ (widget = "order" /\ [PageNext]_pageVars => widget' = "order" /\ [Order!Next]_OrderVars)
BY DEF PageInit, PageNext, pageVars, orderVars, OrderVars

LEMMA HeadingRuns ==
  (PageInit /\ widget = "heading" => Heading!Init)
  /\ (widget = "heading" /\ [PageNext]_pageVars
        => widget' = "heading"
           /\ (Heading!Next \/ UNCHANGED columnVars))
BY DEF PageInit, PageNext, pageVars

\* Which widget a behaviour is about does not change.
Widgets == {"pager", "rows", "heading", "setup", "options", "order", "cells",
            "form", "field", "messages"}

LEMMA WidgetStays ==
  (PageInit => widget \in Widgets) /\ ([PageNext]_pageVars => widget' = widget)
BY DEF PageInit, PageNext, pageVars, Widgets

TablesInv ==
  /\ widget \in Widgets
  /\ widget = "pager" => Inv
  /\ widget = "heading" => HeadingInv /\ LayoutInv
  /\ widget = "setup" => SetupInv
  /\ widget = "options" => OptionsInv
  /\ widget = "order" => OrderInv /\ IndexesTold

LEMMA SetupStays == SetupInv /\ [Setup!Next]_(Setup!vars) => SetupInv'
<1> SUFFICES ASSUME SetupInv, [Setup!Next]_(Setup!vars) PROVE SetupInv'
  OBVIOUS
<1>1. ASSUME UNCHANGED Setup!vars PROVE SetupInv'
  BY <1>1 DEF Setup!vars, SetupInv, Storage, Distinct, IdAt, Object, WaitsForFile, NoFile
<1> QED
  BY <1>1, SetupNext

\* The inductive invariant of the pager, of the columns (the cells of the nodes,
\* the child rows in the table and the heading), of the construction of tables
\* (what each settings object still waits for, and what the state saved has of
\* it), of the options of the columns and of the order, with what its indexes
\* stand for.
THEOREM TablesInvariance == PageSpec => []TablesInv
<1>1. PageInit => TablesInv
  BY PagerRuns, HeadingRuns, SetupRuns, OptionsRun, OrderRuns, WidgetStays, InitInv,
     HeadingInitial, LayoutInitial, SetupInit, OptionsInitially, OrderInitially, ToldInitially
  DEF TablesInv
<1>2. TablesInv /\ [PageNext]_pageVars => TablesInv'
  <2> SUFFICES ASSUME TablesInv, [PageNext]_pageVars PROVE TablesInv'
    OBVIOUS
  <2>1. ASSUME widget = "pager" PROVE Inv'
    BY <2>1, PagerRuns, NextInv DEF TablesInv
  <2>2. ASSUME widget = "setup" PROVE SetupInv'
    BY <2>2, SetupRuns, SetupStays DEF TablesInv
  <2>3. ASSUME widget = "options" PROVE OptionsInv'
    BY <2>3, OptionsRun, OptionsStep, OptionsUnchanged DEF TablesInv
  <2>4. ASSUME widget = "order" PROVE OrderInv' /\ IndexesTold'
    BY <2>4, OrderRuns, OrderStep, OrderUnchanged, ToldStep, ToldUnchanged DEF TablesInv
  <2>5. ASSUME widget = "heading" PROVE HeadingInv' /\ LayoutInv'
    <3>1. HeadingInv /\ LayoutInv /\ (Heading!Next \/ UNCHANGED columnVars)
      BY <2>5, HeadingRuns DEF TablesInv
    <3>2. CASE Heading!Next
      BY <3>1, <3>2, HeadingStep, LayoutStep
    <3>3. CASE UNCHANGED columnVars
      <4>1. /\ UNCHANGED <<visible, tr, details, listens, page, tbody>>
            /\ UNCHANGED <<layout, visible, head, nTh>>
        BY <3>3 DEF columnVars
      <4> QED BY <3>1, <4>1, HeadingStays, LayoutStays
    <3> QED BY <3>1, <3>2, <3>3
  <2> QED
    BY <2>1, <2>2, <2>3, <2>4, <2>5, WidgetStays DEF TablesInv
<1> QED
  BY <1>1, <1>2, PTL DEF PageSpec

\* With as many numbers as the pager comes with, or more: whatever was clicked,
\* searched or removed, page.info() and the pager name the same page, and the
\* numbers offered reach the neighbours, the first and the last page.
THEOREM PagersAgree == NumbersLength >= 7 => (PageSpec => []PagerAgrees)
<1> SUFFICES ASSUME NumbersLength >= 7 PROVE PageSpec => []PagerAgrees
  OBVIOUS
<1>1. TablesInv => PagerAgrees
  BY OneNumber, NumbersReach DEF TablesInv, PagerAgrees, Inv
<1> QED
  BY <1>1, TablesInvariance, PTL

\* However tables are made, made again and destroyed while their files and
\* answers are on their way: each is built at most once, and will be, and the
\* registry has no two of one id.
THEOREM SetupIsOnce == PageSpec => []SetupOnce
<1>1. TablesInv => SetupOnce
  BY SetupHolds DEF TablesInv, SetupOnce
<1> QED
  BY <1>1, TablesInvariance, PTL

\* For any options and any order of the calls: a table is completed on the page
\* that was saved, and no call for a destroyed table changes what is saved.
THEOREM SavedStateIsKept == PageSpec => SavedStateKept
<1>1. TablesInv /\ [PageNext]_pageVars
        => [widget = "setup" => Setup!SavedPageKept /\ Setup!DestroyedSavesNothing]_pageVars
  <2> SUFFICES ASSUME TablesInv, [PageNext]_pageVars, widget = "setup"
               PROVE  (Setup!SavedPageKept /\ Setup!DestroyedSavesNothing)
                      \/ UNCHANGED pageVars
    OBVIOUS
  <2>1. CASE UNCHANGED pageVars
    BY <2>1
  <2>2. CASE PageNext
    <3>1. Setup!Next
      BY <2>2 DEF PageNext
    <3>2. SetupInv
      BY DEF TablesInv
    <3> QED
      BY <3>1, <3>2, SetupNext DEF SetupSteps
  <2> QED
    BY <2>1, <2>2
<1> QED
  BY <1>1, TablesInvariance, PTL DEF PageSpec, SavedStateKept

\* For any headings without holes whose cells are rectangles and whose rows each
\* have a cell of their own, of any number of rows and columns: whatever columns
\* were hidden and shown, a browser that lays out the heading again finds each
\* visible column under its own cells, the one that sorts it included, and no
\* cell beside them.
THEOREM HeadingsDoAgree == PageSpec => []HeadingsAgree
<1>1. TablesInv => HeadingsAgree
  BY LayoutHolds DEF TablesInv, HeadingsAgree
<1> QED
  BY <1>1, TablesInvariance, PTL

\* For any definitions, entries and names of options, made and made again: an
\* option of a column is the first word there is for it, the caller's last word
\* counts for the options brought over, and the labels of the headings announce
\* what a click will do.
THEOREM OptionsAndOrderHold == PageSpec => []OptionsAndOrder
<1>1. TablesInv => OptionsAndOrder
  BY OptionsMeant, OrderMeant DEF TablesInv, OptionsAndOrder
<1> QED
  BY <1>1, TablesInvariance, PTL
=============================================================================
