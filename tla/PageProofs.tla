---------------------------- MODULE PageProofs ----------------------------
(***************************************************************************)
(* Proofs about what a page holds, for every value of the constants: the   *)
(* rows and the cells of its tables, the form, the checks of a field and   *)
(* the messages; and the theorems about PageWidgets as a whole, which rest *)
(* on those of TableProofs too.                                            *)
(***************************************************************************)
EXTENDS TableProofs

(***************************************************************************)
(* The rows: what the invariant says.                                      *)
(***************************************************************************)

\* Row objects and what they hold.
RowData == [id : RowsIds, val : RowsVals]
RowNodes == [index : Nat, html : RowsVals, id : RowsIds]
RowRecords == [data : RowData \cup {Nil}, idx : Nat, filter : RowsVals \cup {Nil},
               sort : RowsVals \cup {Nil}, nTr : RowNodes \cup {Nil}]

\* A row object at place i: its indexes are i, what it caches is its value.
IsRow(r, i) ==
  /\ r.data \in RowData /\ r.idx = i
  /\ r.filter \in {Nil, r.data.val} /\ r.sort \in {Nil, r.data.val}
  /\ r.nTr # Nil => r.nTr.index = i /\ r.nTr.html = r.data.val
RowsPlaced(rw, data) ==
  /\ rw \in [RowsObjects -> RowRecords]
  /\ data \in Seq(RowsObjects) /\ IsInjective(data)
  /\ \A i \in 1 .. Len(data) : IsRow(rw[data[i]], i)

\* The index arrays of n rows.
IndexesOf(master, display, n) ==
  /\ master \in Seq(Int) /\ IsInjective(master) /\ Range(master) = 1 .. n
  /\ display = Only(master, Range(display))

\* The ids lead to the rows.
IdsLead(ids, rw, data) == \A i \in 1 .. Len(data) : ids[rw[data[i]].data.id] = data[i]

\* A row whose text is cached is displayed if both searches find its value.
Found(rw, data, s, c) ==
  { i \in 1 .. Len(data) : rw[data[i]].data.val \in RowsMatches[s] \cap RowsMatches[c] }
SearchStands(rw, data, display, s, c) ==
  \A i \in 1 .. Len(data) :
    rw[data[i]].filter # Nil => (i \in Range(display) <=> i \in Found(rw, data, s, c))
TextsCached(rw, data) == \A i \in 1 .. Len(data) : rw[data[i]].filter # Nil

\* The order the master array is in.
InOrderOf(rw, data, master, dir) ==
  \A p, q \in DOMAIN master : p < q =>
    LET x == rw[data[master[p]]].data.val
        y == rw[data[master[q]]].data.val
    IN  IF dir = "asc" THEN x <= y ELSE x >= y

\* The page of row objects that a draw shows.
PageOf(data, display, start) ==
  LET shownRows == SubSeq(display, start + 1, DisplayEnd(start, RowsPageLength, Len(display)))
  IN  [k \in DOMAIN shownRows |-> data[shownRows[k]]]

RowsTyped ==
  /\ bDeferRender \in BOOLEAN
  /\ aIds \in [RowsIds -> RowsObjects \cup {Nil}]
  /\ order \in {"asc", "desc", Nil} /\ search \in RowsSearches /\ colSearch \in RowsColumnSearches
  /\ rowsStart \in Nat /\ body \in Seq(RowsObjects)
  /\ last \in {"init", "edit", "draw", "redraw", "search"}
RowsInv ==
  /\ RowsTyped
  /\ RowsPlaced(row, aoData)
  /\ IndexesOf(aiDisplayMaster, aiDisplay, Len(aoData))
  /\ ~RowsNewIds => IdsLead(aIds, row, aoData)
  /\ SearchStands(row, aoData, aiDisplay, search, colSearch)
  /\ last \in {"search", "redraw"} => TextsCached(row, aoData)
  /\ last = "redraw" /\ order # Nil => InOrderOf(row, aoData, aiDisplayMaster, order)
  /\ last \in {"draw", "redraw"} => body = PageOf(aoData, aiDisplay, rowsStart)

\* The table's operators on sequences are those of the lemmas.
LEMMA RowsOps ==
  /\ \A a, S : Rows!Only(a, S) = Only(a, S)
  /\ \A a : Rows!Range(a) = Range(a) /\ (Rows!IsInjective(a) <=> IsInjective(a))
  /\ \A start, len, n : Rows!DisplayEnd(start, len, n) = DisplayEnd(start, len, n)
  /\ \A start, len, n : Rows!LengthOverflow(start, len, n) = LengthOverflow(start, len, n)
<1>1. \A a, S : Rows!Only(a, S) = Only(a, S)
  BY DEF Rows!Only, Only
<1>2. \A a : Rows!Range(a) = Range(a) /\ (Rows!IsInjective(a) <=> IsInjective(a))
  BY DEF Rows!Range, Range, Rows!IsInjective, IsInjective
<1>3. \A start, len, n : Rows!DisplayEnd(start, len, n) = DisplayEnd(start, len, n)
  BY DEF Rows!DisplayEnd, DisplayEnd, Rows!All, All
<1>4. \A start, len, n : Rows!LengthOverflow(start, len, n) = LengthOverflow(start, len, n)
  BY DEF Rows!LengthOverflow, LengthOverflow, Rows!All, All
<1> QED BY <1>1, <1>2, <1>3, <1>4

\* What the records of two states have in common for the rows of data.
SameData(rw, old, data) == \A i \in 1 .. Len(data) : rw[data[i]].data = old[data[i]].data
SameTexts(rw, old, data) == \A i \in 1 .. Len(data) : rw[data[i]].filter = old[data[i]].filter

LEMMA RowParts ==
  ASSUME NEW rw, NEW data, RowsPlaced(rw, data)
  PROVE  /\ Len(data) \in Nat /\ DOMAIN data = 1 .. Len(data)
         /\ \A i \in 1 .. Len(data) : /\ data[i] \in RowsObjects /\ rw[data[i]] \in RowRecords
                                      /\ IsRow(rw[data[i]], i)
                                      /\ rw[data[i]].data.val \in RowsVals
                                      /\ rw[data[i]].data.id \in RowsIds
         /\ \A o \in Range(data) : \E i \in 1 .. Len(data) : o = data[i]
         /\ \A i, j \in 1 .. Len(data) : data[i] = data[j] => i = j
<1>1. Len(data) \in Nat /\ DOMAIN data = 1 .. Len(data)
      /\ \A i \in 1 .. Len(data) : data[i] \in RowsObjects /\ IsRow(rw[data[i]], i)
  BY DEF RowsPlaced
<1>2. \A i \in 1 .. Len(data) : rw[data[i]] \in RowRecords
  BY <1>1 DEF RowsPlaced
<1>3. \A i \in 1 .. Len(data) : rw[data[i]].data.val \in RowsVals /\ rw[data[i]].data.id \in RowsIds
  BY <1>1 DEF IsRow, RowData
<1>4. \A o \in Range(data) : \E i \in 1 .. Len(data) : o = data[i]
  BY <1>1 DEF Range
<1>5. \A i, j \in 1 .. Len(data) : data[i] = data[j] => i = j
  BY <1>1 DEF RowsPlaced, IsInjective
<1> QED BY <1>1, <1>2, <1>3, <1>4, <1>5

\* Caching the text, and the sort value, of every row.
LEMMA FilterCaches ==
  ASSUME NEW rw, RowsPlaced(rw, aoData), NEW new, new = Rows!FilterData(rw)
  PROVE  /\ RowsPlaced(new, aoData) /\ SameData(new, rw, aoData) /\ TextsCached(new, aoData)
         /\ \A i \in 1 .. Len(aoData) : new[aoData[i]].filter = new[aoData[i]].data.val
<1>1. new = [o \in RowsObjects |-> IF o \in Range(aoData) /\ rw[o].filter = Nil
                                   THEN [rw[o] EXCEPT !.filter = rw[o].data.val] ELSE rw[o]]
  BY RowsOps DEF Rows!FilterData, Rows!Rows
<1>2. rw \in [RowsObjects -> RowRecords]
  BY DEF RowsPlaced
<1>p. /\ Len(aoData) \in Nat /\ DOMAIN aoData = 1 .. Len(aoData)
      /\ \A i \in 1 .. Len(aoData) : /\ aoData[i] \in RowsObjects /\ rw[aoData[i]] \in RowRecords
                                     /\ IsRow(rw[aoData[i]], i) /\ rw[aoData[i]].data.val \in RowsVals
      /\ \A o \in Range(aoData) : \E i \in 1 .. Len(aoData) : o = aoData[i]
      /\ \A i \in 1 .. Len(aoData) : aoData[i] \in Range(aoData)
  BY RowParts DEF Range
<1>3. \A o \in RowsObjects : new[o] \in RowRecords
  <2> TAKE o \in RowsObjects
  <2>1. rw[o] \in RowRecords
    BY <1>2
  <2>2. CASE o \in Range(aoData) /\ rw[o].filter = Nil
    <3>1. rw[o].data.val \in RowsVals
      BY <2>2, <1>p
    <3>2. new[o] = [rw[o] EXCEPT !.filter = rw[o].data.val]
      BY <1>1, <2>2
    <3> QED BY <2>1, <3>1, <3>2 DEF RowRecords
  <2>3. CASE ~(o \in Range(aoData) /\ rw[o].filter = Nil)
    BY <2>1, <2>3, <1>1
  <2> QED BY <2>2, <2>3
<1>4. ASSUME NEW i \in 1 .. Len(aoData)
      PROVE  /\ IsRow(new[aoData[i]], i) /\ new[aoData[i]].data = rw[aoData[i]].data
             /\ new[aoData[i]].filter = new[aoData[i]].data.val /\ new[aoData[i]].filter # Nil
  <2> DEFINE r == rw[aoData[i]]
             n == new[aoData[i]]
  <2>1. aoData[i] \in RowsObjects /\ aoData[i] \in Range(aoData)
    BY <1>p
  <2>2. n = IF r.filter = Nil THEN [r EXCEPT !.filter = r.data.val] ELSE r
    BY <1>1, <2>1
  <2>3. r \in RowRecords /\ IsRow(r, i) /\ r.data.val \in RowsVals /\ r.data.val # Nil
    BY <1>p, RowsAssumption
  <2> HIDE DEF r, n
  <2>4. CASE r.filter = Nil
    <3>1. /\ n.data = r.data /\ n.idx = r.idx /\ n.filter = r.data.val /\ n.sort = r.sort
          /\ n.nTr = r.nTr
      BY <2>2, <2>3, <2>4 DEF RowRecords
    <3> QED BY <3>1, <2>3 DEF IsRow, r, n
  <2>5. CASE r.filter # Nil
    BY <2>2, <2>3, <2>5 DEF IsRow, r, n
  <2> QED BY <2>4, <2>5
<1>5. new \in [RowsObjects -> RowRecords]
  BY <1>1, <1>3
<1> QED BY <1>4, <1>5 DEF RowsPlaced, SameData, TextsCached

LEMMA SortCaches ==
  ASSUME NEW rw, RowsPlaced(rw, aoData), NEW new, new = Rows!SortData(rw)
  PROVE  /\ RowsPlaced(new, aoData) /\ SameData(new, rw, aoData) /\ SameTexts(new, rw, aoData)
         /\ \A i \in 1 .. Len(aoData) : new[aoData[i]].sort = new[aoData[i]].data.val
<1>1. new = [o \in RowsObjects |-> IF o \in Range(aoData) /\ rw[o].sort = Nil
                                   THEN [rw[o] EXCEPT !.sort = rw[o].data.val] ELSE rw[o]]
  BY RowsOps DEF Rows!SortData, Rows!Rows
<1>2. rw \in [RowsObjects -> RowRecords]
  BY DEF RowsPlaced
<1>p. /\ Len(aoData) \in Nat /\ DOMAIN aoData = 1 .. Len(aoData)
      /\ \A i \in 1 .. Len(aoData) : /\ aoData[i] \in RowsObjects /\ rw[aoData[i]] \in RowRecords
                                     /\ IsRow(rw[aoData[i]], i) /\ rw[aoData[i]].data.val \in RowsVals
      /\ \A o \in Range(aoData) : \E i \in 1 .. Len(aoData) : o = aoData[i]
      /\ \A i \in 1 .. Len(aoData) : aoData[i] \in Range(aoData)
  BY RowParts DEF Range
<1>3. \A o \in RowsObjects : new[o] \in RowRecords
  <2> TAKE o \in RowsObjects
  <2>1. rw[o] \in RowRecords
    BY <1>2
  <2>2. CASE o \in Range(aoData) /\ rw[o].sort = Nil
    <3>1. rw[o].data.val \in RowsVals
      BY <2>2, <1>p
    <3>2. new[o] = [rw[o] EXCEPT !.sort = rw[o].data.val]
      BY <1>1, <2>2
    <3> QED BY <2>1, <3>1, <3>2 DEF RowRecords
  <2>3. CASE ~(o \in Range(aoData) /\ rw[o].sort = Nil)
    BY <2>1, <2>3, <1>1
  <2> QED BY <2>2, <2>3
<1>4. ASSUME NEW i \in 1 .. Len(aoData)
      PROVE  /\ IsRow(new[aoData[i]], i) /\ new[aoData[i]].data = rw[aoData[i]].data
             /\ new[aoData[i]].filter = rw[aoData[i]].filter
             /\ new[aoData[i]].sort = new[aoData[i]].data.val
  <2> DEFINE r == rw[aoData[i]]
             n == new[aoData[i]]
  <2>1. aoData[i] \in RowsObjects /\ aoData[i] \in Range(aoData)
    BY <1>p
  <2>2. n = IF r.sort = Nil THEN [r EXCEPT !.sort = r.data.val] ELSE r
    BY <1>1, <2>1
  <2>3. r \in RowRecords /\ IsRow(r, i) /\ r.data.val \in RowsVals /\ r.data.val # Nil
    BY <1>p, RowsAssumption
  <2> HIDE DEF r, n
  <2>4. CASE r.sort = Nil
    <3>1. /\ n.data = r.data /\ n.idx = r.idx /\ n.filter = r.filter /\ n.sort = r.data.val
          /\ n.nTr = r.nTr
      BY <2>2, <2>3, <2>4 DEF RowRecords
    <3> QED BY <3>1, <2>3 DEF IsRow, r, n
  <2>5. CASE r.sort # Nil
    BY <2>2, <2>3, <2>5 DEF IsRow, r, n
  <2> QED BY <2>4, <2>5
<1>5. new \in [RowsObjects -> RowRecords]
  BY <1>1, <1>3
<1> QED BY <1>4, <1>5 DEF RowsPlaced, SameData, SameTexts

\* The rows whose value a search finds.
With(s) == { i \in 1 .. Len(aoData) : row[aoData[i]].data.val \in RowsMatches[s] }

LEMMA Passes ==
  ASSUME RowsPlaced(row, aoData), NEW s \in RowsSearches
  PROVE  Rows!Passing(s) = With(s)
<1> DEFINE new == Rows!FilterData(row)
<1>1. /\ SameData(new, row, aoData)
      /\ \A i \in 1 .. Len(aoData) : new[aoData[i]].filter = new[aoData[i]].data.val
  BY FilterCaches
<1>2. Rows!Passing(s) = { i \in 1 .. Len(aoData) : new[aoData[i]].filter \in RowsMatches[s] }
  BY DEF Rows!Passing, Rows!Indexes
<1> HIDE DEF new
<1> QED BY <1>1, <1>2 DEF With, SameData

\* A search, narrowed or not, leaves the rows that both strings find.
SearchesAll(master, column, force) ==
  force \/ /\ master = aiDisplayMaster /\ aiDisplay = Only(master, Range(aiDisplay))
           /\ column = colSearch /\ search \in RowsSearches
           /\ SearchStands(row, aoData, aiDisplay, search, colSearch)

LEMMA Recompleted ==
  ASSUME RowsPlaced(row, aoData), NEW master \in Seq(Int), Range(master) = 1 .. Len(aoData),
         NEW text \in RowsSearches, NEW column \in RowsColumnSearches, NEW force \in BOOLEAN,
         SearchesAll(master, column, force)
  PROVE  Rows!FilterComplete(master, text, column, force)
           = Only(master, Found(row, aoData, text, column))
<1> DEFINE n == Len(aoData)
           F == Rows!Filter(master, text, force)
           A == With(text)
           C == With(column)
<1>0. column \in RowsSearches /\ RowsNoSearch \in RowsSearches
  BY RowsAssumption
<1>1. Found(row, aoData, text, column) = A \cap C
  BY DEF Found, With
<1>2. A \subseteq 1 .. n /\ C \subseteq 1 .. n /\ With(RowsNoSearch) = 1 .. n
  <2>1. \A i \in 1 .. n : row[aoData[i]].data.val \in RowsVals
    BY RowParts
  <2> QED BY <2>1, RowsAssumption DEF With
<1>3. \E G \in SUBSET (1 .. n) : F = Only(master, G) /\ G \cap C = A \cap C
  <2> DEFINE invalidated == \E o \in Rows!Rows : row[o].filter = Nil
             whole == invalidated \/ force \/ <<search, text>> \notin RowsExtends
  <2>1. F = IF text = RowsNoSearch THEN master
            ELSE IF whole THEN Only(master, A) ELSE Only(aiDisplay, A)
    BY RowsOps, Passes DEF Rows!Filter
  <2> HIDE DEF F
  <2>2. CASE text = RowsNoSearch
    <3>1. F = Only(master, 1 .. n)
      BY <2>1, <2>2, OnlyWhole
    <3> QED BY <3>1, <2>2, <1>2
  <2>3. CASE text # RowsNoSearch /\ whole
    BY <2>1, <2>3, <1>2
  <2>4. CASE text # RowsNoSearch /\ ~whole
    <3> DEFINE D == Range(aiDisplay)
    <3>1. /\ master = aiDisplayMaster /\ aiDisplay = Only(master, D)
          /\ column = colSearch /\ search \in RowsSearches
          /\ SearchStands(row, aoData, aiDisplay, search, colSearch)
      BY <2>4 DEF SearchesAll
    <3>2. \A i \in 1 .. n : aoData[i] \in Rows!Rows
      BY RowParts, RowsOps DEF Rows!Rows, Range
    <3>3. \A i \in 1 .. n : i \in D <=> i \in With(search) \cap C
      BY <2>4, <3>1, <3>2 DEF SearchStands, Found, With
    <3>4. F = Only(aiDisplay, A)
      BY <2>1, <2>4
    <3> HIDE DEF D
    <3>5. F = Only(master, D \cap A)
      BY <3>1, <3>4, OnlyTwice
    <3>6. A \subseteq With(search)
      BY <2>4, <3>1, RowsAssumption DEF With
    <3>7. (D \cap A) \cap C = A \cap C /\ D \cap A \in SUBSET (1 .. n)
      BY <3>3, <3>6, <1>2
    <3> QED BY <3>5, <3>7
  <2> QED BY <2>2, <2>3, <2>4
<1>4. PICK G \in SUBSET (1 .. n) : F = Only(master, G) /\ G \cap C = A \cap C
  BY <1>3
<1>5. Rows!FilterComplete(master, text, column, force)
        = IF column = RowsNoSearch THEN F ELSE Only(F, C)
  BY <1>0, Passes, RowsOps DEF Rows!FilterComplete, Rows!FilterColumn
<1> HIDE DEF F, A, C
<1>6. CASE column = RowsNoSearch
  <2>1. C = 1 .. n
    BY <1>2, <1>6 DEF C
  <2> QED BY <2>1, <1>1, <1>2, <1>4, <1>5, <1>6
<1>7. CASE column # RowsNoSearch
  <2>1. Only(F, C) = Only(master, G \cap C)
    BY <1>4, OnlyTwice
  <2> QED BY <2>1, <1>1, <1>4, <1>5, <1>7
<1> QED BY <1>6, <1>7

\* What a search displays is what it found, and the part of the master array
\* that is displayed.
LEMMA FoundDisplayed ==
  ASSUME NEW master \in Seq(Int), NEW n \in Nat, Range(master) = 1 .. n,
         NEW G \in SUBSET (1 .. n), NEW display, display = Only(master, G)
  PROVE  /\ display \in Seq(Int) /\ Range(display) = G
         /\ display = Only(master, Range(display))
<1>1. display \in Seq(Int) /\ Range(display) = Range(master) \cap G
  BY OnlyTyped
<1>2. Range(display) = G
  BY <1>1
<1> QED BY <1>1, <1>2

LEMMA DisplayTyped ==
  ASSUME NEW master, NEW display, NEW n \in Nat, IndexesOf(master, display, n)
  PROVE  /\ display \in Seq(Int) /\ Range(display) \subseteq 1 .. n /\ IsInjective(display)
  <1>1. master \in Seq(Int) /\ Range(master) = 1 .. n /\ IsInjective(master)
        /\ display = Only(master, Range(display))
    BY DEF IndexesOf
  <1> QED BY <1>1, OnlyTyped

\* The page a draw shows is made of row objects.
LEMMA PageTyped ==
  ASSUME NEW rw, NEW data, RowsPlaced(rw, data), NEW display \in Seq(Int),
         Range(display) \subseteq 1 .. Len(data), NEW start \in Nat
  PROVE  /\ PageOf(data, display, start) \in Seq(RowsObjects)
         /\ Range(PageOf(data, display, start)) \subseteq Range(data)
<1> DEFINE e == DisplayEnd(start, RowsPageLength, Len(display))
           part == SubSeq(display, start + 1, e)
<1>1. e \in 0 .. Len(display) /\ Len(display) \in Nat
  <2>1. RowsPageLength \in PageLengths /\ Len(display) \in Nat
    BY RowsAssumption DEF PageLengths, Counts
  <2> QED BY <2>1, DisplayEndType
<1> HIDE DEF e
<1>2. part \in Seq(Int) /\ \A k \in DOMAIN part : part[k] \in Range(display)
  <2>1. CASE start + 1 <= e
    <3>1. /\ part \in Seq(Int) /\ DOMAIN part = 1 .. e - start
          /\ \A k \in 1 .. e - start : part[k] = display[start + k]
      BY <1>1, <2>1
    <3>2. \A k \in 1 .. e - start : start + k \in DOMAIN display
      BY <1>1, <2>1
    <3> QED BY <3>1, <3>2 DEF Range
  <2>2. CASE start + 1 > e
    <3>1. part = <<>>
      BY <1>1, <2>2, SubSeqEmpty
    <3>2. <<>> \in Seq(Int) /\ DOMAIN <<>> = {}
      OBVIOUS
    <3> HIDE DEF part
    <3> QED BY <3>1, <3>2
  <2> QED BY <1>1, <2>1, <2>2
<1> HIDE DEF part
<1>3. \A k \in DOMAIN part : data[part[k]] \in RowsObjects
  BY <1>2, RowParts
<1>4. DOMAIN part = 1 .. Len(part) /\ Len(part) \in Nat
  BY <1>2
<1> DEFINE shownRows == [k \in DOMAIN part |-> data[part[k]]]
<1>5. shownRows \in Seq(RowsObjects)
  BY <1>3, <1>4
<1>6. Range(shownRows) \subseteq Range(data)
  <2>1. \A k \in DOMAIN part : part[k] \in DOMAIN data
    BY <1>2, RowParts
  <2> QED BY <2>1 DEF Range
<1>7. shownRows = PageOf(data, display, start)
  BY DEF PageOf, part, e
<1> HIDE DEF shownRows
<1> QED BY <1>5, <1>6, <1>7

\* A draw makes the nodes of the page it shows.
LEMMA DrawnRows ==
  ASSUME NEW rw, RowsPlaced(rw, aoData), NEW display \in Seq(Int),
         Range(display) \subseteq 1 .. Len(aoData), NEW start \in Nat,
         Rows!DrawRows(rw, display, start)
  PROVE  /\ RowsPlaced(row', aoData) /\ SameData(row', rw, aoData) /\ SameTexts(row', rw, aoData)
         /\ body' = PageOf(aoData, display, start) /\ body' \in Seq(RowsObjects)
<1>1. body' = PageOf(aoData, display, start)
  BY RowsOps DEF Rows!DrawRows, PageOf
<1>2. body' \in Seq(RowsObjects)
  BY <1>1, PageTyped
<1>3. row' = [o \in RowsObjects |-> IF o \in Range(body') THEN Rows!CreateTr(rw[o], Rows!IndexOf(o))
                                    ELSE rw[o]]
  BY RowsOps DEF Rows!DrawRows
<1>p. /\ Len(aoData) \in Nat /\ DOMAIN aoData = 1 .. Len(aoData)
      /\ \A i \in 1 .. Len(aoData) : /\ aoData[i] \in RowsObjects /\ rw[aoData[i]] \in RowRecords
                                     /\ IsRow(rw[aoData[i]], i)
                                     /\ rw[aoData[i]].data.val \in RowsVals
                                     /\ rw[aoData[i]].data.id \in RowsIds
      /\ \A i, j \in 1 .. Len(aoData) : aoData[i] = aoData[j] => i = j
  BY RowParts
<1>4. \A o \in Range(body') : \E i \in 1 .. Len(aoData) : o = aoData[i]
  BY <1>1, PageTyped, RowParts
<1>5. \A i \in 1 .. Len(aoData) : Rows!IndexOf(aoData[i]) = i
  BY <1>p DEF Rows!IndexOf, Rows!Indexes
<1>6. ASSUME NEW i \in 1 .. Len(aoData)
      PROVE  LET r == rw[aoData[i]]
                 n == Rows!CreateTr(r, i)
             IN  /\ n \in RowRecords /\ IsRow(n, i) /\ n.data = r.data /\ n.filter = r.filter
  <2> DEFINE r == rw[aoData[i]]
             n == Rows!CreateTr(r, i)
  <2>1. r \in RowRecords /\ IsRow(r, i) /\ r.data.val \in RowsVals /\ r.data.id \in RowsIds /\ i \in Nat
    BY <1>p
  <2>2. CASE r.nTr # Nil
    BY <2>1, <2>2 DEF Rows!CreateTr
  <2>3. CASE r.nTr = Nil
    <3> DEFINE node == [index |-> i, html |-> r.data.val, id |-> r.data.id]
    <3>1. n = [r EXCEPT !.nTr = node]
      BY <2>3 DEF Rows!CreateTr
    <3>2. node \in RowNodes /\ node.index = i /\ node.html = r.data.val
      BY <2>1 DEF RowNodes
    <3> HIDE DEF r, n, node
    <3>3. n \in RowRecords /\ n.data = r.data /\ n.idx = r.idx /\ n.filter = r.filter
          /\ n.sort = r.sort /\ n.nTr = node
      BY <2>1, <3>1, <3>2 DEF RowRecords
    <3> QED BY <2>1, <3>2, <3>3 DEF IsRow, r, n
  <2> QED BY <2>2, <2>3
<1>7. ASSUME NEW i \in 1 .. Len(aoData)
      PROVE  /\ row'[aoData[i]] \in RowRecords /\ IsRow(row'[aoData[i]], i)
             /\ row'[aoData[i]].data = rw[aoData[i]].data
             /\ row'[aoData[i]].filter = rw[aoData[i]].filter
  <2>1. row'[aoData[i]] = IF aoData[i] \in Range(body') THEN Rows!CreateTr(rw[aoData[i]], i)
                         ELSE rw[aoData[i]]
    BY <1>3, <1>5, <1>p
  <2> QED BY <2>1, <1>6, <1>p
<1>8. row' \in [RowsObjects -> RowRecords]
  <2>1. \A o \in RowsObjects : row'[o] \in RowRecords
    <3> TAKE o \in RowsObjects
    <3>1. CASE o \in Range(body')
      BY <3>1, <1>4, <1>7
    <3>2. CASE o \notin Range(body')
      BY <3>2, <1>3 DEF RowsPlaced
    <3> QED BY <3>1, <3>2
  <2> QED BY <2>1, <1>3
<1> QED BY <1>1, <1>2, <1>7, <1>8 DEF RowsPlaced, SameData, SameTexts

\* The order a sort may leave the master array in.
StandsStill(old, new, rw, data) ==
  \A p, q \in DOMAIN old :
    p < q /\ rw[data[old[p]]].data.val = rw[data[old[q]]].data.val
    => \E u, v \in DOMAIN new : u < v /\ new[u] = old[p] /\ new[v] = old[q]

LEMMA Sorted ==
  ASSUME RowsPlaced(row, aoData), IndexesOf(aiDisplayMaster, aiDisplay, Len(aoData)),
         NEW dir \in {"asc", "desc", Nil}, NEW a \in Rows!Sort(dir)
  PROVE  /\ a \in Seq(Int) /\ IsInjective(a) /\ Range(a) = 1 .. Len(aoData)
         /\ dir # Nil => InOrderOf(row, aoData, a, dir)
         /\ StandsStill(aiDisplayMaster, a, row, aoData)
<1> DEFINE n == Len(aoData)
           m == aiDisplayMaster
           Val(i) == row[aoData[i]].data.val
<1>n. n \in Nat /\ \A i \in 1 .. n : Val(i) \in RowsVals /\ aoData[i] \in RowsObjects
  BY RowParts
<1>i. \A i \in 1 .. n : Val(i) \in Int
  BY <1>n, RowsAssumption
<1>m. m \in Seq(Int) /\ IsInjective(m) /\ Range(m) = 1 .. n
  BY DEF IndexesOf
<1>d. /\ DOMAIN m \subseteq Int /\ \A p \in DOMAIN m : m[p] \in 1 .. n
      /\ \A p, q \in DOMAIN m : m[p] = m[q] => p = q
  BY <1>m DEF Range, IsInjective
<1>1. CASE dir = Nil
  <2>1. a = m
    BY <1>1 DEF Rows!Sort
  <2>2. StandsStill(m, a, row, aoData)
    <3> HIDE DEF m
    <3> QED BY <2>1 DEF StandsStill
  <2> QED BY <1>1, <2>1, <2>2, <1>m
<1>2. CASE dir # Nil
  <2> DEFINE Orders(i, j) == Rows!Orders(dir, i, j)
             orig(i) == CHOOSE p \in DOMAIN m : m[p] = i
             key(i) == Rows!SortData(row)[aoData[i]].sort
  <2>1. /\ a \in [1 .. n -> 1 .. n] /\ IsInjective(a) /\ \A i \in 1 .. n : \E u \in 1 .. n : a[u] = i
        /\ \A p, q \in 1 .. n : p < q => Orders(a[p], a[q])
    BY <1>2, RowsOps DEF Rows!Sort, Rows!Bijection, Rows!Injection, Rows!Surjection, Rows!Indexes
  <2>2. \A i \in 1 .. n : key(i) = Val(i)
    <3> DEFINE new == Rows!SortData(row)
    <3>1. SameData(new, row, aoData) /\ \A i \in 1 .. n : new[aoData[i]].sort = new[aoData[i]].data.val
      BY SortCaches
    <3> HIDE DEF new
    <3>2. \A i \in 1 .. n : new[aoData[i]].sort = Val(i)
      BY <3>1 DEF SameData
    <3> QED BY <3>2 DEF new
  <2>3. \A p \in DOMAIN m : orig(m[p]) = p
    BY <1>d
  <2>4. \A i, j : Orders(i, j) <=> \/ dir = "asc" /\ key(i) < key(j)
                                   \/ dir = "desc" /\ key(i) > key(j)
                                   \/ key(i) = key(j) /\ orig(i) < orig(j)
    BY DEF Rows!Orders
  <2> HIDE DEF Orders, orig, key
  <2>5. a \in Seq(Int) /\ Len(a) = n /\ DOMAIN a = 1 .. n /\ \A p \in 1 .. n : a[p] \in 1 .. n
    <3> HIDE DEF n
    <3>1. DOMAIN a = 1 .. n /\ \A p \in 1 .. n : a[p] \in 1 .. n
      BY <2>1
    <3>2. a \in [1 .. n -> Int]
      BY <2>1
    <3>3. a \in Seq(Int) /\ Len(a) = n
      BY <3>2, <1>n
    <3> QED BY <3>1, <3>3
  <2>6. Range(a) = 1 .. n
    BY <2>1, <2>5 DEF Range
  <2> HIDE DEF n, m, Val
  <2>7. InOrderOf(row, aoData, a, dir)
    <3> SUFFICES ASSUME NEW p \in 1 .. n, NEW q \in 1 .. n, p < q
                 PROVE IF dir = "asc" THEN Val(a[p]) <= Val(a[q]) ELSE Val(a[p]) >= Val(a[q])
      BY <2>5 DEF InOrderOf, Val
    <3>1. Orders(a[p], a[q]) /\ a[p] \in 1 .. n /\ a[q] \in 1 .. n
      BY <2>1, <2>5
    <3>2. Val(a[p]) \in Int /\ Val(a[q]) \in Int /\ key(a[p]) = Val(a[p]) /\ key(a[q]) = Val(a[q])
      BY <3>1, <2>2, <1>i
    <3>3. \/ dir = "asc" /\ Val(a[p]) < Val(a[q])
          \/ dir = "desc" /\ Val(a[p]) > Val(a[q])
          \/ Val(a[p]) = Val(a[q])
      BY <3>1, <3>2, <2>4
    <3> QED BY <3>2, <3>3
  <2>8. StandsStill(m, a, row, aoData)
    <3> SUFFICES ASSUME NEW p \in DOMAIN m, NEW q \in DOMAIN m, p < q, Val(m[p]) = Val(m[q])
                 PROVE \E u, v \in DOMAIN a : u < v /\ a[u] = m[p] /\ a[v] = m[q]
      BY DEF StandsStill, Val
    <3>1. m[p] \in 1 .. n /\ m[q] \in 1 .. n /\ p \in Int /\ q \in Int
      BY <1>d
    <3>2. PICK u \in 1 .. n : a[u] = m[p]
      BY <2>1, <3>1
    <3>3. PICK v \in 1 .. n : a[v] = m[q]
      BY <2>1, <3>1
    <3>4. u # v
      BY <3>1, <3>2, <3>3, <1>d
    <3>5. ASSUME v < u PROVE FALSE
      <4>1. Orders(m[q], m[p])
        BY <2>1, <3>2, <3>3, <3>5
      <4>2. key(m[q]) = Val(m[q]) /\ key(m[p]) = Val(m[p]) /\ Val(m[q]) \in Int
        BY <2>2, <3>1, <1>i
      <4>3. orig(m[q]) < orig(m[p])
        BY <4>1, <4>2, <2>4
      <4>4. q < p
        BY <4>3, <2>3
      <4> QED BY <4>4, <3>1
    <3>6. u < v
      BY <3>4, <3>5, <1>n
    <3> QED BY <3>6, <3>2, <3>3, <2>5
  <2> QED BY <1>2, <2>1, <2>5, <2>6, <2>7, <2>8 DEF n, m
<1> QED BY <1>1, <1>2

\* After a search the rows displayed are those found, for their data.
LEMMA FoundStands ==
  ASSUME NEW rw, NEW old, NEW data, SameData(rw, old, data), NEW s, NEW c,
         NEW display, Range(display) = Found(old, data, s, c)
  PROVE  SearchStands(rw, data, display, s, c)
<1>1. \A i \in 1 .. Len(data) : rw[data[i]].data = old[data[i]].data
  BY DEF SameData
<1> QED BY <1>1 DEF SearchStands, Found

\* The order asked for holds for records with the same data.
LEMMA SameOrder ==
  ASSUME NEW rw, NEW old, NEW data, SameData(rw, old, data), NEW m, NEW dir,
         Range(m) \subseteq 1 .. Len(data), InOrderOf(old, data, m, dir)
  PROVE  InOrderOf(rw, data, m, dir)
<1>1. \A p \in DOMAIN m : rw[data[m[p]]].data = old[data[m[p]]].data
  BY DEF SameData, Range
<1> QED BY <1>1 DEF InOrderOf

LEMMA SameTrans ==
  ASSUME NEW rw, NEW old, NEW new, NEW data, SameData(rw, old, data), SameData(new, rw, data)
  PROVE  SameData(new, old, data)
BY DEF SameData

LEMMA SameLead ==
  ASSUME NEW rw, NEW old, NEW data, NEW ids, SameData(rw, old, data), IdsLead(ids, old, data)
  PROVE  IdsLead(ids, rw, data)
BY DEF SameData, IdsLead

LEMMA SameCached ==
  ASSUME NEW rw, NEW old, NEW data, SameTexts(rw, old, data), TextsCached(old, data)
  PROVE  TextsCached(rw, data)
BY DEF SameTexts, TextsCached

LEMMA SameStands ==
  ASSUME NEW rw, NEW old, NEW data, SameData(rw, old, data), SameTexts(rw, old, data),
         NEW display, NEW s, NEW c, SearchStands(old, data, display, s, c)
  PROVE  SearchStands(rw, data, display, s, c)
BY DEF SameData, SameTexts, SearchStands, Found

\* Sort, search, draw.
LEMMA RedrawKeeps ==
  ASSUME RowsInv, NEW hold \in BOOLEAN, NEW dir \in {"asc", "desc", Nil},
         Rows!ReDrawWith(dir, hold), order' = dir
  PROVE  RowsInv'
<1> DEFINE n == Len(aoData)
           m == aiDisplayMaster'
           G == Found(row, aoData, search, colSearch)
           rw == Rows!FilterData(IF dir = Nil THEN row ELSE Rows!SortData(row))
<1>0. /\ m \in Rows!Sort(dir) /\ aiDisplay' = Rows!FilterComplete(m, search, colSearch, TRUE)
      /\ rowsStart' = (IF hold THEN rowsStart ELSE 0) /\ Rows!DrawRows(rw, aiDisplay', rowsStart')
      /\ last' = "redraw"
      /\ UNCHANGED <<bDeferRender, aoData, aIds, search, colSearch>>
  BY DEF Rows!ReDrawWith
<1>h. /\ RowsTyped /\ RowsPlaced(row, aoData) /\ IndexesOf(aiDisplayMaster, aiDisplay, n)
      /\ ~RowsNewIds => IdsLead(aIds, row, aoData)
  BY DEF RowsInv
<1>n. n \in Nat
  BY <1>h, RowParts
<1>1. /\ m \in Seq(Int) /\ IsInjective(m) /\ Range(m) = 1 .. n
      /\ dir # Nil => InOrderOf(row, aoData, m, dir)
  BY <1>0, <1>h, Sorted
<1>2. aiDisplay' = Only(m, G)
  <2>1. search \in RowsSearches /\ colSearch \in RowsColumnSearches /\ TRUE \in BOOLEAN
    BY <1>h DEF RowsTyped
  <2>2. SearchesAll(m, colSearch, TRUE)
    BY DEF SearchesAll
  <2> HIDE DEF m
  <2> QED BY <1>0, <1>1, <1>h, <2>1, <2>2, Recompleted
<1>3. G \in SUBSET (1 .. n)
  BY DEF Found
<1> HIDE DEF G, m, n
<1>4. aiDisplay' \in Seq(Int) /\ Range(aiDisplay') = G /\ aiDisplay' = Only(m, Range(aiDisplay'))
  BY <1>1, <1>2, <1>3, <1>n, FoundDisplayed
<1>5. RowsPlaced(rw, aoData) /\ SameData(rw, row, aoData) /\ TextsCached(rw, aoData)
  <2> DEFINE sorted == IF dir = Nil THEN row ELSE Rows!SortData(row)
  <2>1. RowsPlaced(sorted, aoData) /\ SameData(sorted, row, aoData)
    <3>1. SameData(row, row, aoData)
      BY DEF SameData
    <3>2. RowsPlaced(Rows!SortData(row), aoData) /\ SameData(Rows!SortData(row), row, aoData)
      BY <1>h, SortCaches
    <3> QED BY <3>1, <3>2, <1>h
  <2> HIDE DEF sorted
  <2>2. RowsPlaced(Rows!FilterData(sorted), aoData) /\ SameData(Rows!FilterData(sorted), sorted, aoData)
        /\ TextsCached(Rows!FilterData(sorted), aoData)
    BY <2>1, FilterCaches
  <2> QED BY <2>1, <2>2, SameTrans DEF sorted
<1> HIDE DEF rw
<1>6. rowsStart' \in Nat
  BY <1>0, <1>h DEF RowsTyped
<1>7. /\ RowsPlaced(row', aoData) /\ SameData(row', rw, aoData) /\ SameTexts(row', rw, aoData)
      /\ body' = PageOf(aoData, aiDisplay', rowsStart') /\ body' \in Seq(RowsObjects)
  <2>1. Range(aiDisplay') \subseteq 1 .. Len(aoData)
    BY <1>3, <1>4 DEF n
  <2> QED BY <2>1, <1>0, <1>4, <1>5, <1>6, DrawnRows
<1>8. SameData(row', row, aoData) /\ TextsCached(row', aoData)
  BY <1>5, <1>7, SameTrans, SameCached
<1>9. RowsTyped'
  BY <1>0, <1>6, <1>7, <1>h DEF RowsTyped
<1>10. IndexesOf(aiDisplayMaster', aiDisplay', n)
  BY <1>1, <1>4 DEF IndexesOf, m
<1>11. ~RowsNewIds => IdsLead(aIds, row', aoData)
  BY <1>8, <1>h, SameLead
<1>12. SearchStands(row', aoData, aiDisplay', search, colSearch)
  BY <1>4, <1>8, FoundStands DEF G
<1>13. dir # Nil => InOrderOf(row', aoData, aiDisplayMaster', dir)
  <2>1. Range(m) \subseteq 1 .. Len(aoData)
    BY <1>1 DEF n
  <2> QED BY <2>1, <1>1, <1>8, SameOrder DEF m
<1> QED BY <1>0, <1>7, <1>8, <1>9, <1>10, <1>11, <1>12, <1>13 DEF RowsInv, n

LEMMA RowsInitial == Rows!Init => RowsInv
<1> SUFFICES ASSUME Rows!Init PROVE RowsInv
  OBVIOUS
<1>0. /\ bDeferRender \in BOOLEAN /\ row = [o \in RowsObjects |-> Rows!NewRow(Nil, 0)]
      /\ aoData = <<>> /\ aiDisplayMaster = <<>> /\ aiDisplay = <<>>
      /\ aIds = [d \in RowsIds |-> Nil] /\ order \in {"asc", Nil}
      /\ search = RowsNoSearch /\ colSearch = RowsNoSearch /\ rowsStart = 0 /\ body = <<>>
      /\ last = "init"
  BY DEF Rows!Init
<1>1. Rows!NewRow(Nil, 0) \in RowRecords
  BY DEF Rows!NewRow, RowRecords
<1>2. row \in [RowsObjects -> RowRecords]
  BY <1>0, <1>1
<1>3. /\ <<>> \in Seq(RowsObjects) /\ <<>> \in Seq(Int) /\ Len(<<>>) = 0
      /\ Range(<<>>) = {} /\ IsInjective(<<>>) /\ <<>> = Only(<<>>, {}) /\ 1 .. 0 = {}
  BY NoElement, OnlyNone
<1>4. RowsTyped
  BY <1>0, <1>3, RowsAssumption DEF RowsTyped
<1>5. RowsPlaced(row, <<>>)
  BY <1>2, <1>3 DEF RowsPlaced
<1>6. IndexesOf(<<>>, <<>>, 0)
  BY <1>3 DEF IndexesOf
<1>7. IdsLead(aIds, row, <<>>)
  BY <1>3 DEF IdsLead
<1>8. SearchStands(row, <<>>, <<>>, search, colSearch)
  BY <1>3 DEF SearchStands
<1> QED BY <1>0, <1>3, <1>4, <1>5, <1>6, <1>7, <1>8 DEF RowsInv

LEMMA DrawPageKeeps == ASSUME RowsInv, Rows!DrawPage PROVE RowsInv'
<1>0. /\ Rows!DrawRows(row, aiDisplay, rowsStart) /\ last' = "draw"
      /\ UNCHANGED <<bDeferRender, aoData, aiDisplayMaster, aiDisplay, aIds, order, search,
                     colSearch, rowsStart>>
  BY DEF Rows!DrawPage
<1>h. /\ RowsTyped /\ RowsPlaced(row, aoData) /\ IndexesOf(aiDisplayMaster, aiDisplay, Len(aoData))
      /\ ~RowsNewIds => IdsLead(aIds, row, aoData)
      /\ SearchStands(row, aoData, aiDisplay, search, colSearch)
  BY DEF RowsInv
<1>1. aiDisplay \in Seq(Int) /\ Range(aiDisplay) \subseteq 1 .. Len(aoData)
  <2>1. Len(aoData) \in Nat
    BY <1>h, RowParts
  <2> QED BY <2>1, <1>h, DisplayTyped
<1>2. /\ RowsPlaced(row', aoData) /\ SameData(row', row, aoData) /\ SameTexts(row', row, aoData)
      /\ body' = PageOf(aoData, aiDisplay, rowsStart) /\ body' \in Seq(RowsObjects)
  <2>1. rowsStart \in Nat
    BY <1>h DEF RowsTyped
  <2> QED BY <2>1, <1>0, <1>1, <1>h, DrawnRows
<1>3. ~RowsNewIds => IdsLead(aIds, row', aoData)
  BY <1>2, <1>h, SameLead
<1>4. SearchStands(row', aoData, aiDisplay, search, colSearch)
  BY <1>2, <1>h, SameStands
<1>5. RowsTyped'
  BY <1>0, <1>2, <1>h DEF RowsTyped
<1> QED BY <1>0, <1>2, <1>3, <1>4, <1>5, <1>h DEF RowsInv

LEMMA TypeSearchKeeps ==
  ASSUME RowsInv, NEW text \in RowsSearches, Rows!TypeSearch(text)
  PROVE  RowsInv'
<1> DEFINE n == Len(aoData)
           G == Found(row, aoData, text, colSearch)
           rw == Rows!FilterData(row)
<1>0. /\ search' = text
      /\ aiDisplay' = Rows!FilterComplete(aiDisplayMaster, text, colSearch, FALSE)
      /\ rowsStart' = 0 /\ Rows!DrawRows(rw, aiDisplay', 0) /\ last' = "search"
      /\ UNCHANGED <<bDeferRender, aoData, aiDisplayMaster, aIds, order, colSearch>>
  BY DEF Rows!TypeSearch
<1>h. /\ RowsTyped /\ RowsPlaced(row, aoData) /\ IndexesOf(aiDisplayMaster, aiDisplay, n)
      /\ ~RowsNewIds => IdsLead(aIds, row, aoData)
      /\ SearchStands(row, aoData, aiDisplay, search, colSearch)
  BY DEF RowsInv
<1>n. n \in Nat
  BY <1>h, RowParts
<1>m. /\ aiDisplayMaster \in Seq(Int) /\ IsInjective(aiDisplayMaster)
      /\ Range(aiDisplayMaster) = 1 .. n /\ aiDisplay = Only(aiDisplayMaster, Range(aiDisplay))
  BY <1>h DEF IndexesOf
<1>2. aiDisplay' = Only(aiDisplayMaster, G)
  <2>1. search \in RowsSearches /\ colSearch \in RowsColumnSearches /\ FALSE \in BOOLEAN
    BY <1>h DEF RowsTyped
  <2>2. SearchesAll(aiDisplayMaster, colSearch, FALSE)
    BY <1>h, <1>m, <2>1 DEF SearchesAll
  <2> QED BY <1>0, <1>m, <1>h, <2>1, <2>2, Recompleted
<1>3. G \in SUBSET (1 .. n)
  BY DEF Found
<1> HIDE DEF G, n
<1>4. aiDisplay' \in Seq(Int) /\ Range(aiDisplay') = G
      /\ aiDisplay' = Only(aiDisplayMaster, Range(aiDisplay'))
  BY <1>m, <1>2, <1>3, <1>n, FoundDisplayed
<1>5. RowsPlaced(rw, aoData) /\ SameData(rw, row, aoData) /\ TextsCached(rw, aoData)
  BY <1>h, FilterCaches
<1> HIDE DEF rw
<1>7. /\ RowsPlaced(row', aoData) /\ SameData(row', rw, aoData) /\ SameTexts(row', rw, aoData)
      /\ body' \in Seq(RowsObjects)
  <2>1. Range(aiDisplay') \subseteq 1 .. Len(aoData) /\ 0 \in Nat
    BY <1>3, <1>4 DEF n
  <2> QED BY <2>1, <1>0, <1>4, <1>5, DrawnRows
<1>8. SameData(row', row, aoData) /\ TextsCached(row', aoData)
  BY <1>5, <1>7, SameTrans, SameCached
<1>9. RowsTyped'
  BY <1>0, <1>7, <1>h DEF RowsTyped
<1>10. IndexesOf(aiDisplayMaster, aiDisplay', n)
  BY <1>m, <1>4 DEF IndexesOf
<1>11. ~RowsNewIds => IdsLead(aIds, row', aoData)
  BY <1>8, <1>h, SameLead
<1>12. SearchStands(row', aoData, aiDisplay', text, colSearch)
  BY <1>4, <1>8, FoundStands DEF G
<1> QED BY <1>0, <1>7, <1>8, <1>9, <1>10, <1>11, <1>12 DEF RowsInv, n

LEMMA ApiSearchKeeps ==
  ASSUME RowsInv, NEW text \in RowsSearches, NEW column \in RowsColumnSearches,
         Rows!ApiSearch(text, column)
  PROVE  RowsInv'
<1> DEFINE n == Len(aoData)
           G == Found(row, aoData, text, column)
<1>0. /\ search' = text /\ colSearch' = column
      /\ aiDisplay' = Rows!FilterComplete(aiDisplayMaster, text, column, TRUE)
      /\ row' = Rows!FilterData(row) /\ last' = "search"
      /\ UNCHANGED <<bDeferRender, aoData, aiDisplayMaster, aIds, order, rowsStart, body>>
  BY DEF Rows!ApiSearch
<1>h. /\ RowsTyped /\ RowsPlaced(row, aoData) /\ IndexesOf(aiDisplayMaster, aiDisplay, n)
      /\ ~RowsNewIds => IdsLead(aIds, row, aoData)
  BY DEF RowsInv
<1>n. n \in Nat
  BY <1>h, RowParts
<1>m. /\ aiDisplayMaster \in Seq(Int) /\ IsInjective(aiDisplayMaster)
      /\ Range(aiDisplayMaster) = 1 .. n
  BY <1>h DEF IndexesOf
<1>2. aiDisplay' = Only(aiDisplayMaster, G)
  <2>1. TRUE \in BOOLEAN /\ SearchesAll(aiDisplayMaster, column, TRUE)
    BY DEF SearchesAll
  <2> QED BY <1>0, <1>m, <1>h, <2>1, Recompleted
<1>3. G \in SUBSET (1 .. n)
  BY DEF Found
<1> HIDE DEF G, n
<1>4. aiDisplay' \in Seq(Int) /\ Range(aiDisplay') = G
      /\ aiDisplay' = Only(aiDisplayMaster, Range(aiDisplay'))
  BY <1>m, <1>2, <1>3, <1>n, FoundDisplayed
<1>8. RowsPlaced(row', aoData) /\ SameData(row', row, aoData) /\ TextsCached(row', aoData)
  BY <1>0, <1>h, FilterCaches
<1>9. RowsTyped'
  BY <1>0, <1>h DEF RowsTyped
<1>10. IndexesOf(aiDisplayMaster, aiDisplay', n)
  BY <1>m, <1>4 DEF IndexesOf
<1>11. ~RowsNewIds => IdsLead(aIds, row', aoData)
  BY <1>8, <1>h, SameLead
<1>12. SearchStands(row', aoData, aiDisplay', text, column)
  BY <1>4, <1>8, FoundStands DEF G
<1> QED BY <1>0, <1>8, <1>9, <1>10, <1>11, <1>12 DEF RowsInv, n

LEMMA ClearKeeps == ASSUME RowsInv, Rows!Clear PROVE RowsInv'
<1>0. /\ aoData' = <<>> /\ aiDisplayMaster' = <<>> /\ aiDisplay' = <<>>
      /\ aIds' = [d \in RowsIds |-> Nil] /\ row' = [o \in RowsObjects |-> Rows!NewRow(Nil, 0)]
      /\ last' = "edit"
      /\ UNCHANGED <<bDeferRender, order, search, colSearch, rowsStart, body>>
  BY DEF Rows!Clear
<1>1. Rows!NewRow(Nil, 0) \in RowRecords
  BY DEF Rows!NewRow, RowRecords
<1>2. row' \in [RowsObjects -> RowRecords]
  BY <1>0, <1>1
<1>3. /\ <<>> \in Seq(RowsObjects) /\ <<>> \in Seq(Int) /\ Len(<<>>) = 0
      /\ Range(<<>>) = {} /\ IsInjective(<<>>) /\ <<>> = Only(<<>>, {}) /\ 1 .. 0 = {}
  BY NoElement, OnlyNone
<1>4. RowsTyped'
  BY <1>0, <1>3, RowsAssumption DEF RowsTyped, RowsInv
<1>5. RowsPlaced(row', <<>>)
  BY <1>2, <1>3 DEF RowsPlaced
<1>6. IndexesOf(<<>>, <<>>, 0)
  BY <1>3 DEF IndexesOf
<1>7. IdsLead(aIds', row', <<>>)
  BY <1>3 DEF IdsLead
<1>8. SearchStands(row', <<>>, <<>>, search, colSearch)
  BY <1>3 DEF SearchStands
<1> QED BY <1>0, <1>3, <1>4, <1>5, <1>6, <1>7, <1>8 DEF RowsInv

LEMMA AddKeeps ==
  ASSUME RowsInv, NEW o \in RowsObjects, NEW data \in RowData, Rows!Add(o, data)
  PROVE  RowsInv'
<1> DEFINE n == Len(aoData)
           i == n + 1
           r == IF bDeferRender THEN Rows!NewRow(data, i)
                ELSE Rows!CreateTr(Rows!NewRow(data, i), i)
           m == aiDisplayMaster
           D == Range(aiDisplay)
<1>0. /\ o \notin Rows!Rows
      /\ \A p \in Rows!Rows : row[p].data.id # data.id
      /\ aoData' = Append(aoData, o)
      /\ row' = [row EXCEPT ![o] = r]
      /\ aiDisplayMaster' = Append(m, i)
      /\ aIds' = [aIds EXCEPT ![data.id] = o] /\ last' = "edit"
      /\ UNCHANGED <<bDeferRender, aiDisplay, order, search, colSearch, rowsStart, body>>
  BY DEF Rows!Add
<1>h. /\ RowsTyped /\ RowsPlaced(row, aoData) /\ IndexesOf(m, aiDisplay, n)
      /\ ~RowsNewIds => IdsLead(aIds, row, aoData)
      /\ SearchStands(row, aoData, aiDisplay, search, colSearch)
  BY DEF RowsInv
<1>n. n \in Nat /\ \A j \in 1 .. n : aoData[j] \in RowsObjects /\ IsRow(row[aoData[j]], j)
  BY <1>h, RowParts
<1>r. Rows!Rows = Range(aoData)
  BY RowsOps DEF Rows!Rows
<1>1. /\ aoData' \in Seq(RowsObjects) /\ Len(aoData') = i
      /\ \A j \in 1 .. n : aoData'[j] = aoData[j] /\ aoData[j] # o
      /\ aoData'[i] = o /\ IsInjective(aoData')
  <2>1. aoData \in Seq(RowsObjects) /\ IsInjective(aoData)
    BY <1>h DEF RowsPlaced
  <2>2. \A j \in 1 .. n : aoData[j] \in Range(aoData)
    BY <2>1 DEF Range
  <2>3. aoData' \in Seq(RowsObjects) /\ Len(aoData') = i /\ aoData'[i] = o
        /\ \A j \in 1 .. n : aoData'[j] = aoData[j]
    BY <2>1, <1>0, AppendProperties
  <2>4. IsInjective(aoData')
    BY <2>1, <1>0, <1>r, Appended
  <2> QED BY <2>2, <2>3, <2>4, <1>0, <1>r
<1>2. r \in RowRecords /\ IsRow(r, i) /\ r.data = data /\ r.filter = Nil
  <2> DEFINE w == Rows!NewRow(data, i)
             node == [index |-> i, html |-> data.val, id |-> data.id]
  <2>1. /\ w = [data |-> data, idx |-> i, filter |-> Nil, sort |-> Nil, nTr |-> Nil]
        /\ data.val \in RowsVals /\ data.id \in RowsIds /\ i \in Nat
    BY <1>n DEF Rows!NewRow, RowData
  <2>2. node \in RowNodes /\ node.index = i /\ node.html = data.val
    BY <2>1 DEF RowNodes
  <2>3. Rows!CreateTr(w, i) = [w EXCEPT !.nTr = node]
    BY <2>1 DEF Rows!CreateTr
  <2> HIDE DEF w, node, i
  <2>4. r = w \/ r = [w EXCEPT !.nTr = node]
    BY <2>3 DEF w
  <2>5. CASE r = w
    BY <2>1, <2>5 DEF RowRecords, IsRow
  <2>6. CASE r = [w EXCEPT !.nTr = node]
    <3> HIDE DEF r
    <3>1. r = [data |-> data, idx |-> i, filter |-> Nil, sort |-> Nil, nTr |-> node]
      BY <2>1, <2>6
    <3> QED BY <3>1, <2>1, <2>2 DEF RowRecords, IsRow
  <2> QED BY <2>4, <2>5, <2>6
<1> HIDE DEF r
<1>3. /\ row' \in [RowsObjects -> RowRecords] /\ row'[o] = r
      /\ \A j \in 1 .. n : row'[aoData[j]] = row[aoData[j]]
  <2>1. row \in [RowsObjects -> RowRecords]
    BY <1>h DEF RowsPlaced
  <2> HIDE DEF n, i
  <2> QED BY <2>1, <1>0, <1>1, <1>2, <1>n
<1> HIDE DEF n, m
<1>j. /\ \A j \in 1 .. i : j \in 1 .. n \/ j = i
      /\ \A j \in 1 .. n : j \in 1 .. i /\ j # i
      /\ i \in 1 .. i /\ i \in Int /\ i \notin 1 .. n /\ 1 .. i = (1 .. n) \cup {i}
  BY <1>n
<1> HIDE DEF i
<1>4. RowsPlaced(row', aoData')
  <2>1. \A j \in 1 .. i : IsRow(row'[aoData'[j]], j)
    BY <1>1, <1>2, <1>3, <1>n, <1>j
  <2> QED BY <2>1, <1>1, <1>3 DEF RowsPlaced
<1>5. IndexesOf(aiDisplayMaster', aiDisplay, i)
  <2>1. m \in Seq(Int) /\ IsInjective(m) /\ Range(m) = 1 .. n /\ aiDisplay = Only(m, D)
    BY <1>h DEF IndexesOf
  <2>2. aiDisplayMaster' \in Seq(Int) /\ IsInjective(aiDisplayMaster') /\ Range(aiDisplayMaster') = 1 .. i
    <3>1. Append(m, i) \in Seq(Int) /\ Range(Append(m, i)) = Range(m) \cup {i}
          /\ IsInjective(Append(m, i))
      BY <2>1, <1>j, Appended, AppendProperties
    <3> QED BY <3>1, <2>1, <1>0, <1>j
  <2>3. D \subseteq 1 .. n
    BY <1>h, <1>n, DisplayTyped
  <2> HIDE DEF D
  <2>4. Only(Append(m, i), D) = Only(m, D)
    BY <2>1, <2>3, <1>j, OnlyOne
  <2>5. aiDisplay = Only(aiDisplayMaster', D)
    BY <2>1, <2>4, <1>0
  <2> QED BY <2>2, <2>5 DEF IndexesOf, D
<1>6. ~RowsNewIds => IdsLead(aIds', row', aoData')
  <2> SUFFICES ASSUME ~RowsNewIds, NEW j \in 1 .. i
               PROVE aIds'[row'[aoData'[j]].data.id] = aoData'[j]
    BY <1>1 DEF IdsLead
  <2>1. data.id \in RowsIds /\ aIds \in [RowsIds -> RowsObjects \cup {Nil}]
    BY <1>h DEF RowData, RowsTyped
  <2>2. CASE j = i
    <3>1. aoData'[j] = o /\ row'[o].data.id = data.id
      BY <2>2, <1>1, <1>2, <1>3
    <3> QED BY <3>1, <2>1, <1>0
  <2>3. CASE j \in 1 .. n
    <3>1. aoData'[j] = aoData[j] /\ row'[aoData[j]] = row[aoData[j]]
          /\ aIds[row[aoData[j]].data.id] = aoData[j]
      BY <2>3, <1>1, <1>3, <1>h DEF IdsLead, n
    <3>2. aoData[j] \in Rows!Rows /\ row[aoData[j]].data.id \in RowsIds
      BY <2>3, <1>r, <1>h, RowParts DEF Range, n
    <3>3. row[aoData[j]].data.id # data.id
      BY <3>2, <1>0
    <3> QED BY <3>1, <3>2, <3>3, <2>1, <1>0
  <2> QED BY <2>2, <2>3, <1>j
<1>7. SearchStands(row', aoData', aiDisplay, search, colSearch)
  <2> SUFFICES ASSUME NEW j \in 1 .. i, row'[aoData'[j]].filter # Nil
               PROVE j \in Range(aiDisplay) <=> j \in Found(row', aoData', search, colSearch)
    BY <1>1 DEF SearchStands
  <2>1. j \in 1 .. n
    BY <1>1, <1>2, <1>3, <1>j
  <2>2. aoData'[j] = aoData[j] /\ row'[aoData[j]] = row[aoData[j]]
    BY <2>1, <1>1, <1>3
  <2>3. j \in Range(aiDisplay) <=> j \in Found(row, aoData, search, colSearch)
    BY <2>1, <2>2, <1>h DEF SearchStands, n
  <2> QED BY <2>1, <2>2, <2>3, <1>1 DEF Found, n
<1>8. RowsTyped'
  <2>1. aIds' \in [RowsIds -> RowsObjects \cup {Nil}]
    BY <1>0, <1>h DEF RowsTyped
  <2> QED BY <2>1, <1>0, <1>h DEF RowsTyped
<1> QED BY <1>0, <1>1, <1>4, <1>5, <1>6, <1>7, <1>8 DEF RowsInv

\* A changed row has lost what was cached, and its node shows the new data.
LEMMA InvalidatedRow ==
  ASSUME NEW r \in RowRecords, NEW i, IsRow(r, i), NEW data \in RowData,
         NEW w, w = Rows!Invalidate([r EXCEPT !.data = data])
  PROVE  w \in RowRecords /\ IsRow(w, i) /\ w.data = data /\ w.filter = Nil
<1> DEFINE node == IF r.nTr = Nil THEN Nil
                   ELSE [r.nTr EXCEPT !.html = data.val, !.id = data.id]
<1>1. data.val \in RowsVals /\ data.id \in RowsIds
  BY DEF RowData
<1>2. r.nTr = Nil \/ r.nTr \in RowNodes
  BY DEF RowRecords
<1>3. node \in RowNodes \cup {Nil}
      /\ (r.nTr # Nil => node \in RowNodes /\ node.index = r.nTr.index /\ node.html = data.val)
      /\ (r.nTr = Nil => node = Nil)
  BY <1>1, <1>2 DEF RowNodes
<1>4. w = [data |-> data, idx |-> r.idx, filter |-> Nil, sort |-> Nil, nTr |-> node]
  <2> DEFINE q == [r EXCEPT !.data = data]
             s == Rows!InvalidateSearchOnly(q)
  <2>1. q = [data |-> data, idx |-> r.idx, filter |-> r.filter, sort |-> r.sort, nTr |-> r.nTr]
    BY DEF RowRecords
  <2>2. s = [q EXCEPT !.filter = Nil,
               !.nTr = IF @ = Nil THEN Nil ELSE [@ EXCEPT !.html = q.data.val, !.id = q.data.id]]
    BY DEF Rows!InvalidateSearchOnly
  <2>3. s = [data |-> data, idx |-> r.idx, filter |-> Nil, sort |-> r.sort, nTr |-> node]
    BY <2>1, <2>2
  <2>4. w = [s EXCEPT !.sort = Nil]
    BY DEF Rows!Invalidate
  <2> HIDE DEF s, node
  <2> QED BY <2>3, <2>4
<1> HIDE DEF node
<1>5. w \in RowRecords
  BY <1>3, <1>4 DEF RowRecords
<1>6. /\ w.data = data /\ w.idx = r.idx /\ w.filter = Nil /\ w.sort = Nil /\ w.nTr = node
  BY <1>4
<1>7. r.idx = i /\ (r.nTr # Nil => r.nTr.index = i)
  BY DEF IsRow
<1> QED BY <1>3, <1>5, <1>6, <1>7 DEF IsRow

LEMMA SetDataKeeps ==
  ASSUME RowsInv, NEW i \in 1 .. Len(aoData), NEW data \in RowData, Rows!SetData(i, data)
  PROVE  RowsInv'
<1> DEFINE n == Len(aoData)
           o == aoData[i]
           w == Rows!Invalidate([row[o] EXCEPT !.data = data])
<1>0. /\ row' = [row EXCEPT ![o] = w] /\ last' = "edit"
      /\ RowsNewIds \/ data.id = row[o].data.id
      /\ UNCHANGED <<bDeferRender, aoData, aiDisplayMaster, aiDisplay, aIds, order, search,
                     colSearch, rowsStart, body>>
  BY DEF Rows!SetData
<1>h. /\ RowsTyped /\ RowsPlaced(row, aoData) /\ IndexesOf(aiDisplayMaster, aiDisplay, n)
      /\ ~RowsNewIds => IdsLead(aIds, row, aoData)
      /\ SearchStands(row, aoData, aiDisplay, search, colSearch)
  BY DEF RowsInv
<1>p. /\ \A j \in 1 .. n : aoData[j] \in RowsObjects /\ row[aoData[j]] \in RowRecords
                           /\ IsRow(row[aoData[j]], j)
      /\ \A j \in 1 .. n : aoData[j] = o => j = i
  BY <1>h, RowParts
<1>1. w \in RowRecords /\ IsRow(w, i) /\ w.data = data /\ w.filter = Nil
  <2>1. row[o] \in RowRecords /\ IsRow(row[o], i)
    BY <1>p
  <2> HIDE DEF o
  <2> QED BY <2>1, InvalidatedRow
<1> HIDE DEF w
<1>2. /\ row' \in [RowsObjects -> RowRecords] /\ row'[o] = w
      /\ \A j \in 1 .. n : j # i => row'[aoData[j]] = row[aoData[j]]
  <2>1. row \in [RowsObjects -> RowRecords] /\ o \in RowsObjects
    BY <1>h, <1>p DEF RowsPlaced
  <2>2. \A j \in 1 .. n : j # i => aoData[j] # o /\ aoData[j] \in RowsObjects
    BY <1>p
  <2> HIDE DEF n, o
  <2> QED BY <2>1, <2>2, <1>0, <1>1
<1>3. \A j \in 1 .. n : IsRow(row'[aoData[j]], j)
  BY <1>1, <1>2, <1>p
<1>4. RowsPlaced(row', aoData)
  BY <1>2, <1>3, <1>h DEF RowsPlaced
<1>5. ~RowsNewIds => IdsLead(aIds, row', aoData)
  <2> SUFFICES ASSUME ~RowsNewIds, NEW j \in 1 .. n PROVE aIds[row'[aoData[j]].data.id] = aoData[j]
    BY DEF IdsLead
  <2>1. aIds[row[aoData[j]].data.id] = aoData[j]
    BY <1>h DEF IdsLead
  <2>2. row'[aoData[j]].data.id = row[aoData[j]].data.id
    BY <1>0, <1>1, <1>2
  <2> QED BY <2>1, <2>2
<1>6. SearchStands(row', aoData, aiDisplay, search, colSearch)
  <2> SUFFICES ASSUME NEW j \in 1 .. n, row'[aoData[j]].filter # Nil
               PROVE j \in Range(aiDisplay) <=> j \in Found(row', aoData, search, colSearch)
    BY DEF SearchStands
  <2>1. row'[aoData[j]] = row[aoData[j]]
    BY <1>1, <1>2
  <2>2. j \in Range(aiDisplay) <=> j \in Found(row, aoData, search, colSearch)
    BY <2>1, <1>h DEF SearchStands
  <2> QED BY <2>1, <2>2 DEF Found
<1>7. RowsTyped'
  BY <1>0, <1>h DEF RowsTyped
<1> QED BY <1>0, <1>4, <1>5, <1>6, <1>7, <1>h DEF RowsInv

\* What the loop of rows().remove() works on.
Tables == [data : Seq(RowsObjects), rows : [RowsObjects -> RowRecords], master : Seq(Int),
           display : Seq(Int), sel : Seq(Int), start : Nat,
           ids : [RowsIds -> RowsObjects \cup {Nil}]]

\* Operators of the loop as the lemmas have them.
LEMMA RemoveOps ==
  /\ \A s, i : Rows!Cut(s, i) = Cut(s, i)
  /\ \A i \in Int, a \in Seq(Int) : /\ Rows!Renumber(a, i) = Mapped(a, Down(i))
                                    /\ Rows!Shift(a, i) = Mapped(a, Down(i))
                                    /\ Rows!DeleteIndex(a, i) = Deleted(a, i)
<1>1. \A s, i : Rows!Cut(s, i) = Cut(s, i)
  BY DEF Rows!Cut, Cut
<1>2. ASSUME NEW i \in Int, NEW a \in Seq(Int) PROVE Rows!Renumber(a, i) = Mapped(a, Down(i))
  <2>1. \A k \in DOMAIN a : a[k] \in Int
    OBVIOUS
  <2>2. \A k \in DOMAIN a : (IF a[k] > i THEN a[k] - 1 ELSE a[k]) = Down(i)[a[k]]
    BY <2>1 DEF Down
  <2> QED BY <2>2 DEF Rows!Renumber, Mapped
<1>3. ASSUME NEW i \in Int, NEW a \in Seq(Int) PROVE Rows!DeleteIndex(a, i) = Deleted(a, i)
  <2>1. Rows!DeleteIndex(a, i) = Rows!Renumber(Only(a, Int \ {i}), i)
    BY RowsOps DEF Rows!DeleteIndex
  <2>2. Only(a, Int \ {i}) \in Seq(Int)
    BY OnlyTyped
  <2> QED BY <2>1, <2>2, <1>2 DEF Deleted
<1> QED BY <1>1, <1>2, <1>3 DEF Rows!Shift

\* A row keeps what it holds; its node has the index i.
KeepsRow(r, old, i) ==
  /\ r.data = old.data /\ r.filter = old.filter /\ r.sort = old.sort
  /\ r.nTr # Nil => old.nTr # Nil /\ r.nTr.index = i /\ r.nTr.html = old.nTr.html

\* Nodes are told where their rows are.
LEMMA NodesTold ==
  ASSUME NEW rw \in [RowsObjects -> RowRecords], NEW data \in Seq(RowsObjects),
         NEW new, new = Rows!TellNodes(rw, data)
  PROVE  /\ new \in [RowsObjects -> RowRecords]
         /\ IsInjective(data) => \A x \in 1 .. Len(data) : KeepsRow(new[data[x]], rw[data[x]], x)
<1>1. new = [o \in RowsObjects |->
               IF o \in Range(data) /\ rw[o].nTr # Nil
               THEN [rw[o] EXCEPT !.nTr.index = Rows!Position(o, data)] ELSE rw[o]]
  BY RowsOps DEF Rows!TellNodes
<1>2. DOMAIN data = 1 .. Len(data) /\ Len(data) \in Nat
      /\ \A x \in 1 .. Len(data) : data[x] \in RowsObjects /\ data[x] \in Range(data)
  BY DEF Range
<1>3. \A o \in Range(data) : Rows!Position(o, data) \in Nat /\ data[Rows!Position(o, data)] = o
                             /\ Rows!Position(o, data) \in DOMAIN data
  <2> TAKE o \in Range(data)
  <2>1. \E x \in DOMAIN data : data[x] = o
    BY DEF Range
  <2>2. Rows!Position(o, data) \in DOMAIN data /\ data[Rows!Position(o, data)] = o
    BY <2>1 DEF Rows!Position
  <2> QED BY <2>2, <1>2
<1>4. ASSUME NEW r \in RowRecords, r.nTr # Nil, NEW p \in Nat,
             NEW w, w = [r EXCEPT !.nTr.index = p]
      PROVE  w \in RowRecords /\ KeepsRow(w, r, p)
  <2>1. r.nTr \in RowNodes
    BY <1>4 DEF RowRecords
  <2> DEFINE node == [r.nTr EXCEPT !.index = p]
  <2>2. node \in RowNodes /\ node.index = p /\ node.html = r.nTr.html
    BY <2>1 DEF RowNodes
  <2>3. w = [r EXCEPT !.nTr = node]
    BY <1>4
  <2> HIDE DEF node
  <2>4. w \in RowRecords /\ w.data = r.data /\ w.filter = r.filter /\ w.sort = r.sort /\ w.nTr = node
    BY <2>2, <2>3 DEF RowRecords
  <2> QED BY <2>2, <2>4, <1>4 DEF KeepsRow
<1>5. ASSUME NEW o \in RowsObjects PROVE new[o] \in RowRecords
  <2>1. CASE o \in Range(data) /\ rw[o].nTr # Nil
    BY <2>1, <1>1, <1>3, <1>4
  <2>2. CASE ~(o \in Range(data) /\ rw[o].nTr # Nil)
    BY <2>2, <1>1
  <2> QED BY <2>1, <2>2
<1>6. ASSUME IsInjective(data), NEW x \in 1 .. Len(data) PROVE KeepsRow(new[data[x]], rw[data[x]], x)
  <2>1. Rows!Position(data[x], data) = x
    BY <1>2, <1>3, <1>6 DEF IsInjective
  <2>2. x \in Nat
    BY <1>2
  <2>3. CASE rw[data[x]].nTr # Nil
    <3>1. new[data[x]] = [rw[data[x]] EXCEPT !.nTr.index = x]
      BY <2>1, <2>3, <1>1, <1>2
    <3> QED BY <3>1, <2>2, <2>3, <1>2, <1>4
  <2>4. CASE rw[data[x]].nTr = Nil
    <3>1. new[data[x]] = rw[data[x]]
      BY <2>4, <1>1, <1>2
    <3> QED BY <3>1, <2>4 DEF KeepsRow
  <2> QED BY <2>3, <2>4
<1> QED BY <1>1, <1>5, <1>6

\* One turn of the loop, typed.
RemovedOnce(u, t, i) ==
  /\ u.data = Cut(t.data, i) /\ u.rows = Rows!TellNodes(t.rows, u.data)
  /\ u.master = Deleted(t.master, i) /\ u.display = Deleted(t.display, i)
  /\ u.sel = Mapped(t.sel, Down(i)) /\ u.ids = [t.ids EXCEPT ![t.rows[t.data[i]].data.id] = Nil]
LEMMA RemoveTyped ==
  ASSUME NEW t \in Tables, NEW k
  PROVE  /\ Rows!RemoveOne(t, k) \in Tables
         /\ t.sel[k] \in DOMAIN t.data => RemovedOnce(Rows!RemoveOne(t, k), t, t.sel[k])
<1> DEFINE i == t.sel[k]
           u == Rows!RemoveOne(t, k)
<1>0. /\ t.data \in Seq(RowsObjects) /\ t.rows \in [RowsObjects -> RowRecords]
      /\ t.master \in Seq(Int) /\ t.display \in Seq(Int) /\ t.sel \in Seq(Int) /\ t.start \in Nat
      /\ t.ids \in [RowsIds -> RowsObjects \cup {Nil}]
  BY DEF Tables
<1>1. CASE i \notin DOMAIN t.data
  BY <1>1 DEF Rows!RemoveOne
<1>2. CASE i \in DOMAIN t.data
  <2> DEFINE data == Cut(t.data, i)
             display == Deleted(t.display, i)
             start == Rows!LengthOverflow(t.start, RowsPageLength,
                                          Rows!DisplayEnd(t.start, RowsPageLength, Len(display)))
             ids == [t.ids EXCEPT ![t.rows[t.data[i]].data.id] = Nil]
  <2>1. i \in Int /\ i \in 1 .. Len(t.data)
    BY <1>0, <1>2
  <2>2. u = [data |-> data, rows |-> Rows!TellNodes(t.rows, data),
             master |-> Deleted(t.master, i), display |-> display,
             sel |-> Mapped(t.sel, Down(i)), start |-> start, ids |-> ids]
    BY <1>0, <1>2, <2>1, RemoveOps DEF Rows!RemoveOne
  <2>3. data \in Seq(RowsObjects)
    BY <1>0, <2>1, Removed
  <2>4. Down(i) \in [Int -> Int]
    BY <2>1, DownUp
  <2>5. \A a \in Seq(Int) : Mapped(a, Down(i)) \in Seq(Int)
    <3> SUFFICES ASSUME NEW a \in Seq(Int) PROVE Mapped(a, Down(i)) \in Seq(Int)
      OBVIOUS
    <3> DEFINE f == Down(i)
               Z == Int
    <3>1. f \in [Z -> Z] /\ a \in Seq(Z)
      BY <2>4
    <3> HIDE DEF f, Z
    <3>2. Mapped(a, f) \in Seq(Z)
      BY <3>1, MappedTyped
    <3> QED BY <3>2 DEF f, Z
  <2>6. \A a \in Seq(Int) : Deleted(a, i) \in Seq(Int)
    <3> SUFFICES ASSUME NEW a \in Seq(Int) PROVE Deleted(a, i) \in Seq(Int)
      OBVIOUS
    <3>1. Only(a, Int \ {i}) \in Seq(Int)
      BY OnlyTyped
    <3> QED BY <3>1, <2>5 DEF Deleted
  <2>7. Rows!TellNodes(t.rows, data) \in [RowsObjects -> RowRecords]
    <3> HIDE DEF data
    <3> QED BY <1>0, <2>3, NodesTold
  <2>8. start \in Nat
    <3> DEFINE end == DisplayEnd(t.start, RowsPageLength, Len(display))
    <3>1. RowsPageLength \in PageLengths /\ Len(display) \in Nat
      BY <1>0, <2>6, RowsAssumption DEF PageLengths, Counts
    <3>2. end \in Nat
      <4> HIDE DEF display
      <4>1. end \in 0 .. Len(display)
        BY <3>1, <1>0, DisplayEndType
      <4> QED BY <4>1
    <3> HIDE DEF end
    <3>3. LengthOverflow(t.start, RowsPageLength, end) \in Nat
      BY <3>1, <3>2, <1>0, OverflowAligned
    <3> QED BY <3>3, RowsOps DEF end
  <2>9. ids \in [RowsIds -> RowsObjects \cup {Nil}]
    BY <1>0
  <2>10. Deleted(t.master, i) \in Seq(Int) /\ display \in Seq(Int) /\ Mapped(t.sel, Down(i)) \in Seq(Int)
    BY <1>0, <2>5, <2>6
  <2> HIDE DEF data, display, start, ids
  <2>11. u \in Tables
    <3> HIDE DEF u, i
    <3> QED BY <2>2, <2>3, <2>7, <2>8, <2>9, <2>10 DEF Tables
  <2>12. /\ u.data = data /\ u.rows = Rows!TellNodes(t.rows, data)
         /\ u.master = Deleted(t.master, i) /\ u.display = display
         /\ u.sel = Mapped(t.sel, Down(i)) /\ u.ids = ids
    <3> HIDE DEF u, i
    <3> QED BY <2>2
  <2> QED BY <2>11, <2>12 DEF data, display, ids, RemovedOnce
<1> QED BY <1>1, <1>2

\* The table after k turns for the selection sel: the first k of its rows are
\* gone, the others are selected where they are now, nothing else changed.
RowsLeft(t, sel, k) ==
  \A o : o \in Range(t.data) <=> o \in Range(aoData) /\ \A j \in 1 .. k : o # aoData[sel[j]]
StillSelected(t, sel, k) ==
  \A j \in 1 .. Len(sel) : j > k => t.sel[j] \in 1 .. Len(t.data) /\ t.data[t.sel[j]] = aoData[sel[j]]
RowsUnchanged(t) == \A i \in 1 .. Len(t.data) : KeepsRow(t.rows[t.data[i]], row[t.data[i]], i)
SameDisplayed(t) ==
  \A i \in 1 .. Len(t.data), j \in 1 .. Len(aoData) :
    t.data[i] = aoData[j] => (i \in Range(t.display) <=> j \in Range(aiDisplay))
Removing(t, sel, k) ==
  /\ t \in Tables /\ IsInjective(t.data) /\ Len(t.sel) = Len(sel)
  /\ RowsLeft(t, sel, k) /\ StillSelected(t, sel, k) /\ RowsUnchanged(t)
  /\ IndexesOf(t.master, t.display, Len(t.data))
  /\ SameDisplayed(t)
  /\ ~RowsNewIds => IdsLead(t.ids, row, t.data)

LEMMA DownUpWithin ==
  ASSUME NEW n \in Nat, NEW i \in 1 .. n
  PROVE  /\ \A x \in 1 .. n : x # i => Down(i)[x] \in 1 .. n - 1
         /\ \A x \in 1 .. n - 1 : Up(i, x) \in 1 .. n /\ Up(i, x) # i
<1>1. ASSUME NEW x \in 1 .. n, x # i PROVE Down(i)[x] \in 1 .. n - 1
  <2>1. Down(i)[x] = IF x > i THEN x - 1 ELSE x
    BY DEF Down
  <2> QED BY <2>1, <1>1
<1>2. ASSUME NEW x \in 1 .. n - 1 PROVE Up(i, x) \in 1 .. n /\ Up(i, x) # i
  BY DEF Up
<1> QED BY <1>1, <1>2

LEMMA OneRemoved ==
  ASSUME RowsPlaced(row, aoData), NEW sel \in Seq(Int), IsInjective(sel),
         Range(sel) \subseteq 1 .. Len(aoData), NEW k \in 1 .. Len(sel),
         NEW t, Removing(t, sel, k - 1)
  PROVE  Removing(Rows!RemoveOne(t, k), sel, k)
<1> DEFINE i == t.sel[k]
           u == Rows!RemoveOne(t, k)
           n == Len(t.data)
           f == Down(i)
<1>h. /\ t \in Tables /\ IsInjective(t.data) /\ Len(t.sel) = Len(sel)
      /\ RowsLeft(t, sel, k - 1) /\ StillSelected(t, sel, k - 1) /\ RowsUnchanged(t)
      /\ IndexesOf(t.master, t.display, n)
      /\ SameDisplayed(t)
      /\ ~RowsNewIds => IdsLead(t.ids, row, t.data)
  BY DEF Removing
<1>t. /\ t.data \in Seq(RowsObjects) /\ t.rows \in [RowsObjects -> RowRecords]
      /\ t.master \in Seq(Int) /\ t.display \in Seq(Int) /\ t.sel \in Seq(Int)
      /\ t.ids \in [RowsIds -> RowsObjects \cup {Nil}]
  BY <1>h DEF Tables
<1>n. n \in Nat /\ DOMAIN t.data = 1 .. n /\ \A x, y \in 1 .. n : t.data[x] = t.data[y] => x = y
  BY <1>h, <1>t DEF IsInjective
<1>s. /\ Len(sel) \in Nat /\ k \in Int
      /\ \A j \in 1 .. Len(sel) : sel[j] \in 1 .. Len(aoData)
      /\ \A j, l \in 1 .. Len(sel) : sel[j] = sel[l] => j = l
  BY DEF Range, IsInjective
<1>p. \A x, y \in 1 .. Len(aoData) : aoData[x] = aoData[y] => x = y
  BY RowParts
<1>i. i \in 1 .. n /\ t.data[i] = aoData[sel[k]] /\ i \in Int
  <2>1. k > k - 1
    BY <1>s
  <2> QED BY <2>1, <1>h, <1>n DEF StillSelected
<1>u. /\ u \in Tables /\ u.data = Cut(t.data, i) /\ u.rows = Rows!TellNodes(t.rows, u.data)
      /\ u.master = Deleted(t.master, i) /\ u.display = Deleted(t.display, i)
      /\ u.sel = Mapped(t.sel, f) /\ u.ids = [t.ids EXCEPT ![t.rows[t.data[i]].data.id] = Nil]
  BY <1>h, <1>i, <1>n, RemoveTyped DEF RemovedOnce
<1>f. f \in [Int -> Int] /\ Undoes(f, i)
  BY <1>i, DownUp
<1>d. \A x \in 1 .. n : x # i => f[x] \in 1 .. n - 1
  BY <1>n, <1>i, DownUpWithin
<1>v. \A x \in 1 .. n - 1 : Up(i, x) \in 1 .. n /\ Up(i, x) # i
  BY <1>n, <1>i, DownUpWithin
<1>c. /\ u.data \in Seq(RowsObjects) /\ Len(u.data) = n - 1 /\ DOMAIN u.data = 1 .. n - 1
      /\ \A x \in 1 .. n - 1 : u.data[x] = t.data[Up(i, x)]
  <2>1. /\ u.data \in Seq(RowsObjects) /\ Len(u.data) = n - 1
        /\ \A x \in 1 .. Len(u.data) : u.data[x] = IF x < i THEN t.data[x] ELSE t.data[x + 1]
    <3> DEFINE s == t.data
               r == u.data
    <3>1. s \in Seq(RowsObjects) /\ i \in 1 .. Len(s) /\ r = Cut(s, i)
      BY <1>t, <1>i, <1>u
    <3> HIDE DEF s, r, i
    <3>2. /\ r \in Seq(RowsObjects) /\ Len(r) = Len(s) - 1
          /\ \A x \in 1 .. Len(r) : r[x] = IF x < i THEN s[x] ELSE s[x + 1]
      BY <3>1, Removed
    <3> QED BY <3>2 DEF s, r
  <2>2. \A x \in 1 .. n - 1 : u.data[x] = t.data[Up(i, x)]
    <3> HIDE DEF u, i, n
    <3> QED BY <2>1, <1>i, <1>n DEF Up
  <2>3. DOMAIN u.data = 1 .. Len(u.data)
    BY <2>1
  <2> QED BY <2>1, <2>2, <2>3
<1> HIDE DEF u, i, f, n
<1>1. IsInjective(u.data)
  <2> SUFFICES ASSUME NEW x \in 1 .. n - 1, NEW y \in 1 .. n - 1, u.data[x] = u.data[y]
               PROVE x = y
    BY <1>c DEF IsInjective
  <2>1. Up(i, x) = Up(i, y)
    BY <1>c, <1>v, <1>n
  <2>2. x \in Int /\ y \in Int
    BY <1>n
  <2>3. f[Up(i, x)] = x /\ f[Up(i, y)] = y
    BY <2>2, <1>f DEF Undoes
  <2> QED BY <2>1, <2>3
<1>2. RowsLeft(u, sel, k)
  <2>1. \A o : o \in Range(u.data) <=> o \in Range(t.data) /\ o # t.data[i]
    <3>1. ASSUME NEW x \in 1 .. n - 1 PROVE u.data[x] \in Range(t.data) /\ u.data[x] # t.data[i]
      BY <1>c, <1>v, <1>n, <1>i DEF Range
    <3>2. ASSUME NEW x \in 1 .. n, x # i PROVE t.data[x] \in Range(u.data)
      <4>1. x \in Int /\ f[x] \in 1 .. n - 1
        BY <1>d, <1>n, <3>2
      <4>2. Up(i, f[x]) = x
        BY <4>1, <1>f, <3>2 DEF Undoes
      <4>3. u.data[f[x]] = t.data[x]
        BY <4>1, <4>2, <1>c
      <4> QED BY <4>1, <4>3, <1>c DEF Range
    <3>3. ASSUME NEW o \in Range(u.data) PROVE o \in Range(t.data) /\ o # t.data[i]
      <4>1. PICK x \in 1 .. n - 1 : o = u.data[x]
        BY <1>c DEF Range
      <4> QED BY <4>1, <3>1
    <3>4. ASSUME NEW o \in Range(t.data), o # t.data[i] PROVE o \in Range(u.data)
      <4>1. PICK x \in 1 .. n : o = t.data[x]
        BY <1>n DEF Range
      <4> QED BY <4>1, <3>2, <3>4
    <3> QED BY <3>3, <3>4
  <2>2. \A j \in 1 .. k : j \in 1 .. k - 1 \/ j = k
    BY <1>s
  <2>3. k \in 1 .. k /\ \A j \in 1 .. k - 1 : j \in 1 .. k
    BY <1>s
  <2> QED BY <2>1, <2>2, <2>3, <1>h, <1>i DEF RowsLeft
<1>3. Len(u.sel) = Len(sel) /\ StillSelected(u, sel, k)
  <2>1. Len(u.sel) = Len(t.sel) /\ MapsTo(u.sel, t.sel, f)
    <3> DEFINE Z == Int
               a == t.sel
    <3>1. f \in [Z -> Z] /\ a \in Seq(Z)
      BY <1>f, <1>t
    <3> HIDE DEF Z, a
    <3>2. Len(Mapped(a, f)) = Len(a) /\ MapsTo(Mapped(a, f), a, f)
      BY <3>1, MappedTyped
    <3> QED BY <3>2, <1>u DEF a
  <2>2. ASSUME NEW j \in 1 .. Len(sel), j > k
        PROVE  u.sel[j] \in 1 .. n - 1 /\ u.data[u.sel[j]] = aoData[sel[j]]
    <3>1. j > k - 1 /\ j # k
      BY <2>2, <1>s
    <3>2. t.sel[j] \in 1 .. n /\ t.data[t.sel[j]] = aoData[sel[j]]
      BY <3>1, <1>h DEF StillSelected, n
    <3>3. t.sel[j] # i
      BY <3>1, <3>2, <1>i, <1>s, <1>p
    <3>4. u.sel[j] = f[t.sel[j]]
      BY <2>1, <1>h DEF MapsTo
    <3>5. f[t.sel[j]] \in 1 .. n - 1 /\ t.sel[j] \in Int
      BY <3>2, <3>3, <1>d, <1>n
    <3>6. Up(i, f[t.sel[j]]) = t.sel[j]
      BY <3>3, <3>5, <1>f DEF Undoes
    <3> QED BY <3>2, <3>4, <3>5, <3>6, <1>c
  <2> QED BY <2>1, <2>2, <1>h, <1>c DEF StillSelected
<1>4. RowsUnchanged(u)
  <2> SUFFICES ASSUME NEW x \in 1 .. n - 1 PROVE KeepsRow(u.rows[u.data[x]], row[u.data[x]], x)
    BY <1>c DEF RowsUnchanged
  <2>1. KeepsRow(u.rows[u.data[x]], t.rows[u.data[x]], x)
    BY <1>1, <1>c, <1>t, <1>u, NodesTold
  <2>2. KeepsRow(t.rows[t.data[Up(i, x)]], row[t.data[Up(i, x)]], Up(i, x))
    BY <1>v, <1>h DEF RowsUnchanged, n
  <2>3. u.data[x] = t.data[Up(i, x)]
    BY <1>c
  <2> QED BY <2>1, <2>2, <2>3 DEF KeepsRow
<1>m. /\ t.master \in Seq(Int) /\ IsInjective(t.master) /\ Range(t.master) = 1 .. n
      /\ t.display = Only(t.master, Range(t.display))
  BY <1>h DEF IndexesOf
<1>y. t.display \in Seq(Int) /\ Range(t.display) \subseteq 1 .. n
  BY <1>h, <1>n, DisplayTyped
<1>5. IndexesOf(u.master, u.display, n - 1)
  <2> DEFINE m == t.master
             a == t.display
  <2>1. m \in Seq(Int) /\ IsInjective(m) /\ Range(m) \subseteq 1 .. n /\ a = Only(m, Range(a))
    BY <1>m
  <2> HIDE DEF m, a
  <2>2. /\ Deleted(m, i) \in Seq(Int) /\ Range(Deleted(m, i)) \subseteq 1 .. n - 1
        /\ \A x \in Int : x \in Range(Deleted(m, i)) <=> Up(i, x) \in Range(m)
        /\ IsInjective(Deleted(m, i))
    BY <2>1, <1>i, <1>n, DeletedTyped
  <2>3. Deleted(a, i) = Only(Deleted(m, i), Range(Deleted(a, i)))
    BY <2>1, <1>i, <1>n, DeletedOnly
  <2>4. \A x \in 1 .. n - 1 : x \in Range(Deleted(m, i))
    <3>1. \A x \in 1 .. n - 1 : x \in Int
      BY <1>n
    <3> QED BY <3>1, <2>2, <1>v, <1>m DEF m
  <2> QED BY <2>2, <2>3, <2>4, <1>u DEF IndexesOf, m, a
<1>6. SameDisplayed(u)
  <2> SUFFICES ASSUME NEW x \in 1 .. n - 1, NEW j \in 1 .. Len(aoData), u.data[x] = aoData[j]
               PROVE x \in Range(u.display) <=> j \in Range(aiDisplay)
    BY <1>c DEF SameDisplayed
  <2>1. x \in Int
    BY <1>n
  <2>2. x \in Range(u.display) <=> Up(i, x) \in Range(t.display)
    <3> DEFINE a == t.display
    <3>1. a \in Seq(Int) /\ Range(a) \subseteq 1 .. n
      BY <1>y
    <3> HIDE DEF a
    <3>2. \A z \in Int : z \in Range(Deleted(a, i)) <=> Up(i, z) \in Range(a)
      BY <3>1, <1>i, <1>n, DeletedTyped
    <3> QED BY <2>1, <3>2, <1>u DEF a
  <2>3. Up(i, x) \in 1 .. n /\ t.data[Up(i, x)] = aoData[j]
    BY <1>c, <1>v
  <2>4. Up(i, x) \in Range(t.display) <=> j \in Range(aiDisplay)
    BY <2>3, <1>h DEF SameDisplayed, n
  <2> QED BY <2>2, <2>4
<1>7. ~RowsNewIds => IdsLead(u.ids, row, u.data)
  <2> SUFFICES ASSUME ~RowsNewIds, NEW x \in 1 .. n - 1
               PROVE u.ids[row[u.data[x]].data.id] = u.data[x]
    BY <1>c DEF IdsLead
  <2> DEFINE d == row[t.data[i]].data.id
             e == row[u.data[x]].data.id
  <2>1. t.ids[e] = u.data[x] /\ t.ids[d] = t.data[i]
    BY <1>c, <1>v, <1>i, <1>h DEF IdsLead, n
  <2>2. u.data[x] # t.data[i]
    BY <1>c, <1>v, <1>i, <1>n
  <2>3. t.rows[t.data[i]].data.id = d
    BY <1>h, <1>i DEF RowsUnchanged, KeepsRow, n
  <2>4. u.data[x] \in Range(aoData)
    <3>1. u.data[x] \in Range(u.data)
      BY <1>c DEF Range
    <3> QED BY <3>1, <1>2 DEF RowsLeft
  <2>5. e \in RowsIds
    BY <2>4, RowParts
  <2> HIDE DEF d, e
  <2>6. u.ids[e] = t.ids[e]
    BY <2>1, <2>2, <2>3, <2>5, <1>t, <1>u
  <2> QED BY <2>1, <2>6 DEF e
<1> QED BY <1>u, <1>1, <1>2, <1>3, <1>4, <1>5, <1>6, <1>7, <1>c DEF Removing, u, n

\* The turns of the loop of rows().remove().
TurnsRemoving(b, sel) ==
  b = [k \in 0 .. Len(sel) |->
         IF k > 0 THEN Rows!RemoveOne(b[k - 1], k)
         ELSE [data |-> aoData, rows |-> row, master |-> aiDisplayMaster,
               display |-> aiDisplay, sel |-> sel,
               start |-> rowsStart, ids |-> aIds]]
AfterRemoving(sel) == (CHOOSE b : TurnsRemoving(b, sel))[Len(sel)]

LEMMA AllRemoved ==
  ASSUME RowsInv, NEW sel \in Seq(Int), IsInjective(sel), Range(sel) \subseteq 1 .. Len(aoData)
  PROVE  Removing(AfterRemoving(sel), sel, Len(sel))
<1> DEFINE size == Len(sel)
           base == [data |-> aoData, rows |-> row, master |-> aiDisplayMaster,
                    display |-> aiDisplay, sel |-> sel, start |-> rowsStart, ids |-> aIds]
           do == [k \in 1 .. size |-> [h \in Tables |-> Rows!RemoveOne(h, k)]]
           b == CHOOSE c : TurnsRemoving(c, sel)
<1>h. /\ RowsTyped /\ RowsPlaced(row, aoData) /\ IndexesOf(aiDisplayMaster, aiDisplay, Len(aoData))
      /\ ~RowsNewIds => IdsLead(aIds, row, aoData)
  BY DEF RowsInv
<1>0. /\ size \in Nat /\ 0 \in 0 .. size /\ \A k \in 0 .. size : k = 0 \/ k \in 1 .. size
      /\ \A k \in 1 .. size : k > 0 /\ k \in 0 .. size /\ k - 1 \in 0 .. size /\ ~(0 > 0)
  <2>1. size \in Nat
    OBVIOUS
  <2> HIDE DEF size
  <2> QED BY <2>1
<1>p. /\ Len(aoData) \in Nat /\ DOMAIN aoData = 1 .. Len(aoData)
      /\ \A i \in 1 .. Len(aoData) : aoData[i] \in RowsObjects /\ IsRow(row[aoData[i]], i)
      /\ \A i, j \in 1 .. Len(aoData) : aoData[i] = aoData[j] => i = j
  BY <1>h, RowParts
<1>1. Removing(base, sel, 0)
  <2>1. base \in Tables
    <3>1. aiDisplay \in Seq(Int)
      BY <1>h, <1>p, DisplayTyped
    <3>2. aiDisplayMaster \in Seq(Int)
      BY <1>h DEF IndexesOf
    <3>3. aoData \in Seq(RowsObjects) /\ row \in [RowsObjects -> RowRecords]
      BY <1>h DEF RowsPlaced
    <3>4. rowsStart \in Nat /\ aIds \in [RowsIds -> RowsObjects \cup {Nil}]
      BY <1>h DEF RowsTyped
    <3> QED BY <3>1, <3>2, <3>3, <3>4 DEF Tables
  <2>2. /\ base.data = aoData /\ base.rows = row /\ base.master = aiDisplayMaster
        /\ base.display = aiDisplay /\ base.sel = sel /\ base.ids = aIds
    OBVIOUS
  <2> HIDE DEF base
  <2>3. IsInjective(aoData)
    BY <1>h DEF RowsPlaced
  <2>4. RowsLeft(base, sel, 0)
    BY <2>2 DEF RowsLeft
  <2>5. StillSelected(base, sel, 0)
    <3>1. \A j \in 1 .. Len(sel) : sel[j] \in 1 .. Len(aoData)
      BY DEF Range
    <3> QED BY <3>1, <2>2 DEF StillSelected
  <2>6. RowsUnchanged(base)
    BY <2>2, <1>p DEF RowsUnchanged, KeepsRow, IsRow
  <2>7. SameDisplayed(base)
    BY <2>2, <1>p DEF SameDisplayed
  <2> QED BY <2>1, <2>2, <2>3, <2>4, <2>5, <2>6, <2>7, <1>h DEF Removing
<1>2. do \in [1 .. size -> [Tables -> Tables]]
  <2>1. \A h \in Tables, k \in 1 .. size : Rows!RemoveOne(h, k) \in Tables
    BY RemoveTyped
  <2> HIDE DEF size
  <2> QED BY <2>1
<1>3. PICK c : Loops(c, base, size, do) /\ \A k \in 0 .. size : c[k] \in Tables
  <2>1. base \in Tables
    BY <1>1 DEF Removing
  <2> HIDE DEF do, size, base
  <2> QED BY <1>0, <1>2, <2>1, Loop
<1>4. TurnsRemoving(c, sel)
  <2>1. c = [k \in 0 .. size |-> c[k]] /\ c[0] = base
        /\ \A k \in 1 .. size : c[k] = do[k][c[k - 1]]
    BY <1>3 DEF Loops
  <2> HIDE DEF size, base
  <2>2. \A k \in 1 .. size : c[k] = Rows!RemoveOne(c[k - 1], k)
    BY <2>1, <1>3, <1>0
  <2>3. ASSUME NEW k \in 0 .. size
        PROVE  c[k] = IF k > 0 THEN Rows!RemoveOne(c[k - 1], k) ELSE base
    <3>1. CASE k = 0
      BY <3>1, <2>1, <1>0
    <3>2. CASE k \in 1 .. size
      BY <3>2, <2>2, <1>0
    <3> QED BY <3>1, <3>2, <1>0
  <2> QED BY <2>1, <2>3 DEF TurnsRemoving, size, base
<1>5. TurnsRemoving(b, sel)
  BY <1>4
<1> HIDE DEF do, b, base
<1>6. b[0] = base /\ \A k \in 1 .. size : b[k] = Rows!RemoveOne(b[k - 1], k)
  <2>1. \A k \in 0 .. size : b[k] = IF k > 0 THEN Rows!RemoveOne(b[k - 1], k) ELSE base
    BY <1>5 DEF TurnsRemoving, base
  <2> HIDE DEF size
  <2> QED BY <2>1, <1>0
<1> DEFINE T == {k \in 0 .. size : Removing(b[k], sel, k)}
<1>7. 0 \in T
  BY <1>0, <1>1, <1>6
<1>8. \A k \in 1 .. size : k - 1 \in T => k \in T
  <2> SUFFICES ASSUME NEW k \in 1 .. size, k - 1 \in T PROVE k \in T
    OBVIOUS
  <2>1. Removing(b[k - 1], sel, k - 1)
    OBVIOUS
  <2>2. Removing(Rows!RemoveOne(b[k - 1], k), sel, k)
    BY <2>1, <1>h, OneRemoved
  <2> QED BY <2>2, <1>0, <1>6
<1>9. size \in T
  <2> HIDE DEF T, size
  <2> QED BY <1>0, <1>7, <1>8, Counted
<1> QED BY <1>9 DEF AfterRemoving, b

\* A function selects the rows it picks, each once.
LEMMA Selected ==
  ASSUME RowsInv, NEW S \in SUBSET (1 .. Len(aoData)),
         NEW sel, sel = Rows!RowSelector(S)
  PROVE  sel \in Seq(Int) /\ IsInjective(sel) /\ Range(sel) = S
<1>1. Rows!RowIndexes("none", "current", "all") = aiDisplayMaster
  BY DEF Rows!RowIndexes
<1>2. sel = Only(aiDisplayMaster, S)
  BY <1>1, RowsOps DEF Rows!RowSelector
<1>3. aiDisplayMaster \in Seq(Int) /\ IsInjective(aiDisplayMaster)
      /\ Range(aiDisplayMaster) = 1 .. Len(aoData)
  BY DEF RowsInv, IndexesOf
<1>4. sel \in Seq(Int) /\ IsInjective(sel) /\ Range(sel) = Range(aiDisplayMaster) \cap S
  BY <1>2, <1>3, OnlyTyped
<1> QED BY <1>3, <1>4

LEMMA RemoveParts ==
  ASSUME NEW S, Rows!RemoveRows(S), NEW t, t = AfterRemoving(Rows!RowSelector(S))
  PROVE  /\ aoData' = t.data
         /\ row' = [o \in RowsObjects |-> IF o \in Range(t.data)
                      THEN Rows!TellRows(t.rows, t.data)[o] ELSE Rows!Dropped(o, t.ids)]
         /\ aiDisplayMaster' = t.master /\ aiDisplay' = t.display
         /\ rowsStart' = t.start /\ aIds' = t.ids /\ last' = "edit"
         /\ UNCHANGED <<bDeferRender, order, search, colSearch, body>>
BY RowsOps DEF Rows!RemoveRows, AfterRemoving, TurnsRemoving

\* The rows selected go, and no other.
LEMMA SelectedGo ==
  ASSUME RowsInv, NEW S \in SUBSET (1 .. Len(aoData)), Rows!RemoveRows(S)
  PROVE  Range(aoData') = Range(aoData) \ {aoData[i] : i \in S}
<1> DEFINE sel == Rows!RowSelector(S)
           t == AfterRemoving(sel)
<1>1. sel \in Seq(Int) /\ IsInjective(sel) /\ Range(sel) = S
  BY Selected
<1> HIDE DEF sel
<1>2. RowsLeft(t, sel, Len(sel))
  BY <1>1, AllRemoved DEF Removing
<1>3. aoData' = t.data
  BY RemoveParts DEF sel
<1> HIDE DEF t
<1>4. DOMAIN sel = 1 .. Len(sel)
  BY <1>1
<1>5. \A o : (\E j \in 1 .. Len(sel) : o = aoData[sel[j]]) <=> \E i \in S : o = aoData[i]
  BY <1>1, <1>4 DEF Range
<1>6. \A o : o \in Range(t.data) <=> o \in Range(aoData) /\ ~\E i \in S : o = aoData[i]
  <2> TAKE o
  <2>1. o \in Range(t.data) <=> o \in Range(aoData) /\ \A j \in 1 .. Len(sel) : o # aoData[sel[j]]
    BY <1>2 DEF RowsLeft
  <2> QED BY <2>1, <1>5
<1> QED BY <1>3, <1>6

LEMMA RemoveRowsKeeps ==
  ASSUME RowsInv, NEW S \in SUBSET (1 .. Len(aoData)), Rows!RemoveRows(S)
  PROVE  RowsInv'
<1> DEFINE sel == Rows!RowSelector(S)
           t == AfterRemoving(sel)
           n == Len(t.data)
<1>1. sel \in Seq(Int) /\ IsInjective(sel) /\ Range(sel) = S
  BY Selected
<1>0. /\ aoData' = t.data
      /\ row' = [o \in RowsObjects |-> IF o \in Range(t.data)
                   THEN Rows!TellRows(t.rows, t.data)[o] ELSE Rows!Dropped(o, t.ids)]
      /\ aiDisplayMaster' = t.master /\ aiDisplay' = t.display
      /\ rowsStart' = t.start /\ aIds' = t.ids /\ last' = "edit"
      /\ UNCHANGED <<bDeferRender, order, search, colSearch, body>>
  BY RemoveParts
<1> HIDE DEF sel
<1>2. Removing(t, sel, Len(sel))
  BY <1>1, AllRemoved
<1> HIDE DEF t
<1>r. /\ t \in Tables /\ IsInjective(t.data) /\ RowsLeft(t, sel, Len(sel)) /\ RowsUnchanged(t)
      /\ IndexesOf(t.master, t.display, n) /\ SameDisplayed(t)
      /\ ~RowsNewIds => IdsLead(t.ids, row, t.data)
  BY <1>2 DEF Removing
<1>t. /\ t.data \in Seq(RowsObjects) /\ t.rows \in [RowsObjects -> RowRecords]
      /\ t.start \in Nat /\ t.ids \in [RowsIds -> RowsObjects \cup {Nil}]
  BY <1>r DEF Tables
<1>h. /\ RowsTyped /\ RowsPlaced(row, aoData)
      /\ SearchStands(row, aoData, aiDisplay, search, colSearch)
  BY DEF RowsInv
<1>n. n \in Nat /\ DOMAIN t.data = 1 .. n
      /\ \A x \in 1 .. n : t.data[x] \in RowsObjects /\ t.data[x] \in Range(t.data)
  BY <1>t DEF Range
<1>p. /\ \A x \in 1 .. n : \E j \in 1 .. Len(aoData) : t.data[x] = aoData[j]
      /\ \A j \in 1 .. Len(aoData) : IsRow(row[aoData[j]], j)
  <2>1. \A x \in 1 .. n : t.data[x] \in Range(aoData)
    BY <1>n, <1>r DEF RowsLeft
  <2> QED BY <2>1, <1>h, RowParts
<1>q. \A o \in Range(t.data) : Rows!Position(o, t.data) \in 1 .. n
                               /\ t.data[Rows!Position(o, t.data)] = o
  <2> TAKE o \in Range(t.data)
  <2>1. \E x \in DOMAIN t.data : t.data[x] = o
    BY DEF Range
  <2>2. Rows!Position(o, t.data) \in DOMAIN t.data /\ t.data[Rows!Position(o, t.data)] = o
    BY <2>1 DEF Rows!Position
  <2> QED BY <2>2, <1>n
<1> HIDE DEF n
<1>3. ASSUME NEW o \in Range(t.data), o \in RowsObjects
      PROVE  /\ row'[o] \in RowRecords
             /\ row'[o] = [t.rows[o] EXCEPT !.idx = Rows!Position(o, t.data)]
  <2>1. row'[o] = [t.rows[o] EXCEPT !.idx = Rows!Position(o, t.data)]
    BY <1>0, <1>3, RowsOps DEF Rows!TellRows
  <2>2. t.rows[o] \in RowRecords /\ Rows!Position(o, t.data) \in Nat
    BY <1>t, <1>q, <1>3, <1>n
  <2> QED BY <2>1, <2>2 DEF RowRecords
<1>4. row' \in [RowsObjects -> RowRecords]
  <2>1. ASSUME NEW o \in RowsObjects, o \notin Range(t.data) PROVE row'[o] \in RowRecords
    <3>1. row'[o] = Rows!Dropped(o, t.ids)
      BY <2>1, <1>0
    <3>2. row[o].idx \in Nat
      BY <1>h DEF RowsPlaced, RowRecords
    <3> DEFINE p == IF \E d \in RowsIds : t.ids[d] = o THEN row[o].idx ELSE 0
    <3>3. p \in Nat
      BY <3>2
    <3>4. row'[o] = [data |-> Nil, idx |-> p, filter |-> Nil, sort |-> Nil, nTr |-> Nil]
      BY <3>1 DEF Rows!Dropped, Rows!NewRow
    <3> HIDE DEF p
    <3> QED BY <3>3, <3>4 DEF RowRecords
  <2>2. \A o \in RowsObjects : row'[o] \in RowRecords
    BY <2>1, <1>3
  <2> QED BY <2>2, <1>0
<1>5. ASSUME NEW x \in 1 .. n
      PROVE  /\ row'[t.data[x]].data = row[t.data[x]].data
             /\ row'[t.data[x]].filter = row[t.data[x]].filter
             /\ IsRow(row'[t.data[x]], x)
  <2> DEFINE r == t.rows[t.data[x]]
             w == row'[t.data[x]]
             v == row[t.data[x]]
  <2>1. t.data[x] \in Range(t.data) /\ t.data[x] \in RowsObjects /\ r \in RowRecords
    BY <1>n, <1>t
  <2>2. Rows!Position(t.data[x], t.data) = x
    BY <2>1, <1>q, <1>r, <1>n DEF IsInjective
  <2>3. w = [r EXCEPT !.idx = x]
    BY <2>1, <2>2, <1>3
  <2>4. KeepsRow(r, v, x)
    BY <1>r DEF RowsUnchanged, n
  <2>5. PICK j \in 1 .. Len(aoData) : IsRow(v, j)
    BY <1>p
  <2> HIDE DEF r, w, v
  <2>6. w.data = r.data /\ w.filter = r.filter /\ w.sort = r.sort /\ w.nTr = r.nTr /\ w.idx = x
    BY <2>1, <2>3 DEF RowRecords
  <2>7. IsRow(w, x)
    BY <2>4, <2>5, <2>6 DEF KeepsRow, IsRow
  <2> QED BY <2>4, <2>6, <2>7 DEF KeepsRow, w, v
<1>6. RowsPlaced(row', t.data)
  BY <1>4, <1>5, <1>r, <1>t DEF RowsPlaced, n
<1>7. ~RowsNewIds => IdsLead(t.ids, row', t.data)
  BY <1>5, <1>r DEF IdsLead, n
<1>8. SearchStands(row', t.data, t.display, search, colSearch)
  <2> SUFFICES ASSUME NEW x \in 1 .. n, row'[t.data[x]].filter # Nil
               PROVE x \in Range(t.display) <=> x \in Found(row', t.data, search, colSearch)
    BY DEF SearchStands, n
  <2>1. PICK j \in 1 .. Len(aoData) : t.data[x] = aoData[j]
    BY <1>p
  <2>2. x \in Range(t.display) <=> j \in Range(aiDisplay)
    BY <2>1, <1>r DEF SameDisplayed, n
  <2>3. row[aoData[j]].filter # Nil /\ row'[t.data[x]].data = row[aoData[j]].data
    BY <2>1, <1>5
  <2>4. j \in Range(aiDisplay) <=> j \in Found(row, aoData, search, colSearch)
    BY <2>3, <1>h DEF SearchStands
  <2> QED BY <2>2, <2>3, <2>4 DEF Found, n
<1>9. RowsTyped'
  BY <1>0, <1>t, <1>h DEF RowsTyped
<1> QED BY <1>0, <1>6, <1>7, <1>8, <1>9, <1>r DEF RowsInv, n

LEMMA RowsStep == ASSUME RowsInv, [Rows!Next]_rowVars PROVE RowsInv'
<1>d. Rows!Data = RowData /\ Rows!Indexes = 1 .. Len(aoData)
  BY DEF Rows!Data, RowData, Rows!Indexes
<1>o. order \in {"asc", "desc", Nil}
  BY DEF RowsInv, RowsTyped
<1>1. CASE UNCHANGED rowVars
  BY <1>1 DEF RowsInv, RowsTyped, rowVars
<1>2. ASSUME NEW o \in RowsObjects, NEW data \in RowData, Rows!Add(o, data) PROVE RowsInv'
  BY <1>2, AddKeeps
<1>3. ASSUME NEW i \in 1 .. Len(aoData), NEW data \in RowData, Rows!SetData(i, data) PROVE RowsInv'
  BY <1>3, SetDataKeeps
<1>4. ASSUME NEW S \in SUBSET (1 .. Len(aoData)), Rows!RemoveRows(S) PROVE RowsInv'
  BY <1>4, RemoveRowsKeeps
<1>5. CASE Rows!Clear
  BY <1>5, ClearKeeps
<1>6. ASSUME NEW hold \in BOOLEAN, Rows!ReDraw(hold) PROVE RowsInv'
  <2>1. Rows!ReDrawWith(order, hold) /\ order' = order
    BY <1>6 DEF Rows!ReDraw
  <2> QED BY <2>1, <1>o, RedrawKeeps
<1>7. CASE Rows!DrawPage
  BY <1>7, DrawPageKeeps
<1>8. CASE Rows!SortClick
  <2> DEFINE dir == IF order = "asc" THEN "desc" ELSE "asc"
  <2>1. order' = dir /\ Rows!ReDrawWith(dir, FALSE) /\ FALSE \in BOOLEAN
    BY <1>8 DEF Rows!SortClick
  <2>2. dir \in {"asc", "desc", Nil}
    OBVIOUS
  <2> HIDE DEF dir
  <2> QED BY <2>1, <2>2, RedrawKeeps
<1>9. ASSUME NEW text \in RowsSearches, Rows!TypeSearch(text) PROVE RowsInv'
  BY <1>9, TypeSearchKeeps
<1>10. ASSUME NEW text \in RowsSearches, NEW column \in RowsColumnSearches,
              Rows!ApiSearch(text, column)
       PROVE  RowsInv'
  BY <1>10, ApiSearchKeeps
<1> QED BY <1>d, <1>1, <1>2, <1>3, <1>4, <1>5, <1>6, <1>7, <1>8, <1>9, <1>10 DEF Rows!Next

\* The invariant says all that the table is meant to keep.
LEMMA Divided ==
  ASSUME NEW a \in Seq(Int), NEW b \in Seq(Int), IsInjective(a), IsInjective(b),
         Range(a) \cap Range(b) = {}
  PROVE  IsInjective(a \o b) /\ Range(a \o b) = Range(a) \cup Range(b)
<1> DEFINE m == Len(a)
           n == Len(b)
           c == a \o b
<1>1. /\ m \in Nat /\ n \in Nat /\ DOMAIN a = 1 .. m /\ DOMAIN b = 1 .. n /\ DOMAIN c = 1 .. m + n
      /\ \A i \in 1 .. m : c[i] = a[i]
  OBVIOUS
<1>2. \A i \in 1 .. n : c[m + i] = b[i]
  OBVIOUS
<1> HIDE DEF m, n, c
<1>3. /\ \A i \in 1 .. m + n : i \in 1 .. m \/ \E j \in 1 .. n : i = m + j
      /\ \A i \in 1 .. m : i \in 1 .. m + n /\ \A j \in 1 .. n : m + j \in 1 .. m + n
  <2>1. \A i \in 1 .. m + n : i \notin 1 .. m => i - m \in 1 .. n /\ i = m + (i - m)
    BY <1>1
  <2>2. \A i \in 1 .. m : i \in 1 .. m + n
    BY <1>1
  <2>3. \A j \in 1 .. n : m + j \in 1 .. m + n
    BY <1>1
  <2> QED BY <2>1, <2>2, <2>3
<1>4. \A i \in 1 .. m, j \in 1 .. n : a[i] # b[j]
  BY <1>1 DEF Range
<1>5. IsInjective(c)
  <2> SUFFICES ASSUME NEW x \in 1 .. m + n, NEW y \in 1 .. m + n, c[x] = c[y] PROVE x = y
    BY <1>1 DEF IsInjective
  <2>1. CASE x \in 1 .. m /\ y \in 1 .. m
    BY <2>1, <1>1 DEF IsInjective
  <2>2. ASSUME NEW i \in 1 .. n, NEW j \in 1 .. n, x = m + i, y = m + j PROVE x = y
    BY <2>2, <1>1, <1>2 DEF IsInjective
  <2>3. ASSUME NEW i \in 1 .. m, NEW j \in 1 .. n, {x, y} = {i, m + j} PROVE FALSE
    <3>1. c[i] = c[m + j]
      BY <2>3
    <3> QED BY <3>1, <1>1, <1>2, <1>4
  <2>4. CASE x \in 1 .. m /\ y \notin 1 .. m
    <3>1. PICK j \in 1 .. n : y = m + j
      BY <2>4, <1>3
    <3> QED BY <3>1, <2>3, <2>4
  <2>5. CASE x \notin 1 .. m /\ y \in 1 .. m
    <3>1. PICK j \in 1 .. n : x = m + j
      BY <2>5, <1>3
    <3> QED BY <3>1, <2>3, <2>5
  <2>6. CASE x \notin 1 .. m /\ y \notin 1 .. m
    <3>1. PICK i \in 1 .. n : x = m + i
      BY <2>6, <1>3
    <3>2. PICK j \in 1 .. n : y = m + j
      BY <2>6, <1>3
    <3> QED BY <3>1, <3>2, <2>2
  <2> QED BY <2>1, <2>4, <2>5, <2>6
<1>6. Range(c) = Range(a) \cup Range(b)
  <2>1. ASSUME NEW x \in 1 .. m + n PROVE c[x] \in Range(a) \cup Range(b)
    <3>1. CASE x \in 1 .. m
      BY <3>1, <1>1 DEF Range
    <3>2. CASE x \notin 1 .. m
      <4>1. PICK j \in 1 .. n : x = m + j
        BY <3>2, <1>3
      <4> QED BY <4>1, <1>1, <1>2 DEF Range
    <3> QED BY <3>1, <3>2
  <2>2. \A x \in DOMAIN a : a[x] \in Range(c)
    <3> SUFFICES ASSUME NEW x \in 1 .. m PROVE a[x] \in Range(c)
      BY <1>1
    <3>1. x \in DOMAIN c /\ c[x] = a[x]
      <4>1. x \in 1 .. m + n
        BY <1>1
      <4> QED BY <4>1, <1>1
    <3> QED BY <3>1 DEF Range
  <2>3. ASSUME NEW x \in 1 .. n PROVE b[x] \in Range(c)
    <3>1. m + x \in DOMAIN c /\ c[m + x] = b[x]
      BY <1>1, <1>2
    <3> DEFINE z == m + x
    <3> HIDE DEF z
    <3>2. z \in DOMAIN c /\ c[z] = b[x]
      BY <3>1 DEF z
    <3> QED BY <3>2 DEF Range
  <2>4. Range(c) \subseteq Range(a) \cup Range(b)
    BY <2>1, <1>1 DEF Range
  <2>5. Range(a) \subseteq Range(c)
    BY <2>2 DEF Range
  <2>6. Range(b) \subseteq Range(c)
    BY <2>3, <1>1 DEF Range
  <2> QED BY <2>4, <2>5, <2>6
<1> QED BY <1>5, <1>6 DEF c

\* What is displayed and what is not, of all indexes in some order.
LEMMA PartsDivide ==
  ASSUME NEW n \in Nat, NEW m \in Seq(Int), IsInjective(m), Range(m) = 1 .. n,
         NEW D \in SUBSET (1 .. n),
         NEW part, part = Only(m, D), NEW rest, rest = Only(m, (1 .. n) \ D)
  PROVE  IsInjective(part \o rest) /\ Range(part \o rest) = Range(m) /\ Range(part) = D
<1>1. /\ part \in Seq(Int) /\ Range(part) = Range(m) \cap D /\ IsInjective(part)
      /\ rest \in Seq(Int) /\ Range(rest) = Range(m) \cap ((1 .. n) \ D) /\ IsInjective(rest)
  BY OnlyTyped
<1>2. IsInjective(part \o rest) /\ Range(part \o rest) = Range(part) \cup Range(rest)
  <2>1. Range(part) \cap Range(rest) = {}
    BY <1>1
  <2> QED BY <1>1, <2>1, Divided
<1>3. Range(part) \cup Range(rest) = Range(m) /\ Range(part) = D
  BY <1>1
<1> QED BY <1>2, <1>3

LEMMA Spanned ==
  ASSUME NEW n \in Nat
  PROVE  LET s == Rows!Span(1, n + 1) IN s \in Seq(Int) /\ IsInjective(s) /\ Range(s) = 1 .. n
<1> DEFINE s == Rows!Span(1, n + 1)
<1>1. s = [i \in 1 .. n |-> i]
  <2>1. (n + 1) - 1 = n /\ \A i \in 1 .. n : 1 + i - 1 = i
    OBVIOUS
  <2> QED BY <2>1 DEF Rows!Span
<1> HIDE DEF s
<1>2. s \in [1 .. n -> Int]
  BY <1>1
<1>3. s \in Seq(Int) /\ DOMAIN s = 1 .. n /\ \A i \in 1 .. n : s[i] = i
  BY <1>1, <1>2
<1> QED BY <1>3 DEF IsInjective, Range, s

LEMMA DisplaysFound ==
  ASSUME RowsInv, last \in {"search", "redraw"}
  PROVE  aiDisplay = Only(aiDisplayMaster, Found(row, aoData, search, colSearch))
<1> DEFINE m == aiDisplayMaster
           n == Len(aoData)
           D == Range(aiDisplay)
           G == Found(row, aoData, search, colSearch)
<1>1. m \in Seq(Int) /\ Range(m) = 1 .. n /\ aiDisplay = Only(m, D)
  BY DEF RowsInv, IndexesOf
<1>2. \A i \in 1 .. n : i \in D <=> i \in G
  BY DEF RowsInv, TextsCached, SearchStands
<1>3. Range(m) \cap D = Range(m) \cap G
  BY <1>1, <1>2
<1> HIDE DEF m, D, G
<1>4. Only(m, D) = Only(m, G)
  BY <1>1, <1>3, OnlySame
<1> QED BY <1>1, <1>4 DEF m, D, G

LEMMA RowsSafe ==
  ASSUME RowsInv
  PROVE  /\ Rows!TypeOK /\ Rows!IndexesAgree /\ Rows!NothingStale
         /\ Rows!DisplayMatchesSearch /\ Rows!RedrawSorts /\ Rows!SelectorsDivide
         /\ ~RowsNewIds => Rows!IdSelectsRow
<1> DEFINE n == Len(aoData)
           m == aiDisplayMaster
           D == Range(aiDisplay)
<1>h. /\ RowsTyped /\ RowsPlaced(row, aoData) /\ IndexesOf(m, aiDisplay, n)
      /\ ~RowsNewIds => IdsLead(aIds, row, aoData)
      /\ SearchStands(row, aoData, aiDisplay, search, colSearch)
  BY DEF RowsInv
<1>p. /\ n \in Nat /\ DOMAIN aoData = 1 .. n /\ aoData \in Seq(RowsObjects)
      /\ \A i \in 1 .. n : /\ aoData[i] \in RowsObjects /\ IsRow(row[aoData[i]], i)
                           /\ row[aoData[i]] \in RowRecords
      /\ \A o \in Range(aoData) : \E i \in 1 .. n : o = aoData[i]
  BY <1>h, RowParts DEF RowsPlaced
<1>m. m \in Seq(Int) /\ IsInjective(m) /\ Range(m) = 1 .. n /\ aiDisplay = Only(m, D)
  BY <1>h DEF IndexesOf
<1>y. aiDisplay \in Seq(Int) /\ D \subseteq 1 .. n /\ IsInjective(aiDisplay)
  BY <1>h, <1>p, DisplayTyped
<1>r. Rows!Rows = Range(aoData) /\ Rows!Indexes = 1 .. n /\ Rows!Data = RowData
  BY RowsOps DEF Rows!Rows, Rows!Indexes, Rows!Data, RowData
<1>q. \A o \in Rows!Rows : \E i \in 1 .. n : o = aoData[i] /\ IsRow(row[o], i) /\ row[o] \in RowRecords
  BY <1>p, <1>r
<1>1. Rows!TypeOK
  <2>1. \A o \in Rows!Rows : /\ row[o].data \in Rows!Data
                             /\ row[o].filter \in RowsVals \cup {Nil} /\ row[o].sort \in RowsVals \cup {Nil}
    BY <1>q, <1>r DEF IsRow, RowRecords
  <2>2. \A a \in Seq(Int) : Range(a) \subseteq 1 .. n => a \in Seq(1 .. n)
    <3> SUFFICES ASSUME NEW a \in Seq(Int), Range(a) \subseteq 1 .. n PROVE a \in Seq(1 .. n)
      OBVIOUS
    <3>1. \A k \in 1 .. Len(a) : a[k] \in 1 .. n
      BY DEF Range
    <3> DEFINE Z == 1 .. n
    <3> HIDE DEF Z
    <3>2. a \in [1 .. Len(a) -> Z] /\ Len(a) \in Nat
      BY <3>1 DEF Z
    <3>3. a \in Seq(Z)
      BY <3>2
    <3> QED BY <3>3 DEF Z
  <2>3. m \in Seq(Rows!Indexes) /\ aiDisplay \in Seq(Rows!Indexes)
    BY <2>2, <1>m, <1>y, <1>r
  <2> QED BY <2>1, <2>3, <1>h, <1>p, RowsAssumption DEF Rows!TypeOK, RowsTyped
<1>2. Rows!IndexesAgree
  <2>1. \A i \in 1 .. n : /\ row[aoData[i]].idx = i
                          /\ row[aoData[i]].nTr # Nil => row[aoData[i]].nTr.index = i
    BY <1>p DEF IsRow
  <2> QED BY <2>1, <1>m, <1>y, <1>r, RowsOps DEF Rows!IndexesAgree
<1>3. Rows!NothingStale
  BY <1>q DEF Rows!NothingStale, IsRow
<1>4. Rows!DisplayMatchesSearch
  <2> SUFFICES ASSUME last \in {"search", "redraw"}
               PROVE aiDisplay = Rows!Only(m, { i \in Rows!Indexes :
                       row[aoData[i]].data.val \in RowsMatches[search] \cap RowsMatches[colSearch] })
    BY DEF Rows!DisplayMatchesSearch
  <2>1. aiDisplay = Only(m, Found(row, aoData, search, colSearch))
    BY DisplaysFound
  <2> QED BY <2>1, <1>r, RowsOps DEF Found
<1>5. Rows!RedrawSorts
  BY DEF RowsInv, InOrderOf, Rows!RedrawSorts
<1>6. Rows!SelectorsDivide
  <2> DEFINE Index(searched, ordered, range) == Rows!RowIndexes(searched, ordered, range)
             span == Rows!Span(1, n + 1)
             Out == (1 .. n) \ D
  <2>1. /\ Index("applied", "current", "all") = aiDisplay
        /\ Index("removed", "current", "all") = Only(m, Out)
        /\ Index("none", "current", "all") = m
        /\ Index("applied", "index", "all") = Only(span, D)
        /\ Index("removed", "index", "all") = Only(span, Out)
        /\ Index("none", "index", "all") = span
    BY <1>r, RowsOps DEF Rows!RowIndexes
  <2>2. body = PageOf(aoData, aiDisplay, rowsStart) =>
          body = [k \in DOMAIN Index("none", "current", "current") |->
                    aoData[Index("none", "current", "current")[k]]]
    BY RowsOps DEF Rows!RowIndexes, PageOf
  <2>3. span \in Seq(Int) /\ IsInjective(span) /\ Range(span) = 1 .. n
    BY <1>p, Spanned
  <2> HIDE DEF Index, span, n, m, D
  <2>4. /\ IsInjective(Only(m, D) \o Only(m, Out)) /\ Range(Only(m, D)) = D
        /\ Range(Only(m, D) \o Only(m, Out)) = Range(m)
    BY <1>m, <1>p, <1>y, PartsDivide
  <2>5. /\ IsInjective(Only(span, D) \o Only(span, Out)) /\ Range(Only(span, D)) = D
        /\ Range(Only(span, D) \o Only(span, Out)) = Range(span)
    BY <2>3, <1>p, <1>y, PartsDivide
  <2>6. \A ordered \in {"current", "index"} :
          LET applied == Index("applied", ordered, "all")
              removed == Index("removed", ordered, "all")
          IN  /\ IsInjective(applied \o removed)
              /\ Range(applied \o removed) = Range(Index("none", ordered, "all"))
              /\ Range(applied) = D
    BY <2>1, <2>4, <2>5, <1>m
  <2>7. last \in {"draw", "redraw"} => body = PageOf(aoData, aiDisplay, rowsStart)
    BY DEF RowsInv
  <2> QED BY <2>2, <2>6, <2>7, RowsOps DEF Rows!SelectorsDivide, Index, D
<1>7. ~RowsNewIds => Rows!IdSelectsRow
  <2> SUFFICES ASSUME ~RowsNewIds, NEW i \in 1 .. n
               PROVE Rows!RowById(row[aoData[i]].data.id) = {i}
    BY <1>r DEF Rows!IdSelectsRow
  <2>1. aIds[row[aoData[i]].data.id] = aoData[i] /\ aoData[i] # Nil /\ row[aoData[i]].idx = i
    BY <1>h, <1>p, RowsAssumption DEF IdsLead, IsRow
  <2> QED BY <2>1 DEF Rows!RowById
<1> QED BY <1>1, <1>2, <1>3, <1>4, <1>5, <1>6, <1>7

\* What a step may not do.
LEMMA RowsStepKeeps ==
  ASSUME RowsInv, [Rows!Next]_rowVars
  PROVE  Rows!SortIsStable /\ Rows!RemovesSelected
<1>d. Rows!Rows = Range(aoData) /\ Rows!Indexes = 1 .. Len(aoData) /\ Range(aoData') = Rows!Range(aoData')
  BY RowsOps DEF Rows!Rows, Rows!Indexes
<1>h. /\ order \in {"asc", "desc", Nil} /\ RowsPlaced(row, aoData)
      /\ IndexesOf(aiDisplayMaster, aiDisplay, Len(aoData))
  BY DEF RowsInv, RowsTyped
<1>1. Rows!RemovesSelected
  <2> SUFFICES ASSUME NEW S \in SUBSET (1 .. Len(aoData)), Rows!RemoveRows(S)
               PROVE Range(aoData') = Range(aoData) \ {aoData[i] : i \in S}
    BY <1>d DEF Rows!RemovesSelected
  <2> QED BY SelectedGo
<1>2. Rows!SortIsStable
  <2>1. StandsStill(aiDisplayMaster, aiDisplayMaster', row, aoData) => Rows!SortIsStable
    BY DEF StandsStill, Rows!SortIsStable
  <2>2. ASSUME NEW dir \in {"asc", "desc", Nil}, NEW hold, Rows!ReDrawWith(dir, hold)
        PROVE  StandsStill(aiDisplayMaster, aiDisplayMaster', row, aoData)
    <3>1. aiDisplayMaster' \in Rows!Sort(dir)
      BY <2>2 DEF Rows!ReDrawWith
    <3> QED BY <3>1, <1>h, Sorted
  <2>3. CASE UNCHANGED rowVars
    <3>1. aiDisplayMaster' = aiDisplayMaster
      BY <2>3 DEF rowVars
    <3>2. StandsStill(aiDisplayMaster, aiDisplayMaster', row, aoData)
      BY <3>1 DEF StandsStill
    <3> QED BY <2>1, <3>2
  <2>4. ASSUME NEW hold \in BOOLEAN, Rows!ReDraw(hold) PROVE Rows!SortIsStable
    BY <2>1, <2>2, <2>4, <1>h DEF Rows!ReDraw
  <2>5. CASE Rows!SortClick
    <3> DEFINE dir == IF order = "asc" THEN "desc" ELSE "asc"
    <3>1. Rows!ReDrawWith(dir, FALSE) /\ dir \in {"asc", "desc", Nil}
      BY <2>5 DEF Rows!SortClick
    <3> QED BY <3>1, <2>1, <2>2
  <2>6. ASSUME last' # "redraw" PROVE Rows!SortIsStable
    BY <2>6 DEF Rows!SortIsStable
  <2>7. ASSUME NEW o, NEW data, Rows!Add(o, data) PROVE last' # "redraw"
    BY <2>7 DEF Rows!Add
  <2>8. ASSUME NEW i, NEW data, Rows!SetData(i, data) PROVE last' # "redraw"
    BY <2>8 DEF Rows!SetData
  <2>9. ASSUME NEW S, Rows!RemoveRows(S) PROVE last' # "redraw"
    BY <2>9 DEF Rows!RemoveRows
  <2>10. Rows!Clear \/ Rows!DrawPage => last' # "redraw"
    BY DEF Rows!Clear, Rows!DrawPage
  <2>11. ASSUME NEW text, Rows!TypeSearch(text) PROVE last' # "redraw"
    BY <2>11 DEF Rows!TypeSearch
  <2>12. ASSUME NEW text, NEW column, Rows!ApiSearch(text, column) PROVE last' # "redraw"
    BY <2>12 DEF Rows!ApiSearch
  <2> QED BY <2>3, <2>4, <2>5, <2>6, <2>7, <2>8, <2>9, <2>10, <2>11, <2>12 DEF Rows!Next
<1> QED BY <1>1, <1>2

(***************************************************************************)
(* The cells.                                                              *)
(***************************************************************************)

\* Rows of cells, and what they show.
CellKeys == [type : Cells!Types, text : CellsTexts]
CellRows == [item : [Cells!Paths -> CellsContents], html : [CellsColumns -> CellsTexts],
             key : [CellsColumns -> CellKeys \cup {Nil}]]
KeysOf(item, key) == \A c \in CellsColumns : key[c] # Nil => key[c].text = Cells!CellText(item, c)
RowShows(r) ==
  /\ r \in CellRows /\ CellsWhole(r.item)
  /\ \A c \in CellsColumns : r.html[c] = Cells!CellText(r.item, c)
  /\ KeysOf(r.item, r.key)
TypeSuits(type, data, c) ==
  type \in Cells!ToSet(Cells!Detectors)
    => \A i \in DOMAIN data : Cells!Accepts(type, Cells!CellText(data[i].item, c))
CellsInv ==
  /\ rows \in Seq(CellRows) /\ \A i \in DOMAIN rows : RowShows(rows[i])
  /\ types \in [CellsColumns -> Cells!Types \cup {Nil}]
  /\ \A c \in CellsColumns : TypeSuits(types[c], rows, c)

\* What leads to a path leads on to where that leads.
LEMMA LeadsOn ==
  ASSUME NEW P \in Seq(STRING), NEW p \in Cells!Before(P), NEW q \in Cells!Before(p)
  PROVE  q \in Cells!Before(P)
<1>1. PICK n \in 1 .. Len(P) - 1 : p = SubSeq(P, 1, n)
  BY DEF Cells!Before
<1>2. PICK m \in 1 .. Len(p) - 1 : q = SubSeq(p, 1, m)
  BY DEF Cells!Before
<1>3. Len(P) \in Nat /\ p \in Seq(STRING) /\ Len(p) = n /\ \A k \in 1 .. n : p[k] = P[k]
  BY <1>1
<1>4. q \in Seq(STRING) /\ Len(q) = m /\ \A k \in 1 .. m : q[k] = p[k]
  BY <1>2, <1>3
<1>5. m \in 1 .. Len(P) - 1 /\ m \in Nat
  BY <1>3
<1> DEFINE r == SubSeq(P, 1, m)
<1>6. r \in Seq(STRING) /\ Len(r) = m /\ \A k \in 1 .. m : r[k] = P[k]
  BY <1>5
<1> HIDE DEF r
<1>7. \A k \in 1 .. m : k \in 1 .. n
  BY <1>3, <1>5
<1>8. q = r
  BY <1>3, <1>4, <1>6, <1>7, SeqEqual
<1> QED BY <1>5, <1>8 DEF r, Cells!Before

\* Every path is that of a column or leads to one, and none of a column leads on.
LEMMA PathsLead ==
  /\ \A c \in CellsColumns : /\ CellsMData[c] \in Cells!Paths
                             /\ \A q \in Cells!Before(CellsMData[c]) : q \in Cells!Paths
                             /\ \A p \in Cells!Paths : CellsMData[c] \notin Cells!Before(p)
  /\ \A c \in CellsColumns : \A p \in Cells!Before(CellsMData[c]) :
       \A q \in Cells!Before(p) : q \in Cells!Before(CellsMData[c])
<1>m. \A c \in CellsColumns : CellsMData[c] \in Seq(STRING)
  BY CellsAssumption
<1>a. \A c, d \in CellsColumns : CellsMData[c] \notin Cells!Before(CellsMData[d])
  BY CellsAssumption
<1>1. \A c \in CellsColumns : \A p \in Cells!Before(CellsMData[c]) :
        \A q \in Cells!Before(p) : q \in Cells!Before(CellsMData[c])
  BY <1>m, LeadsOn
<1>2. \A p \in Cells!Paths : \E d \in CellsColumns : p = CellsMData[d] \/ p \in Cells!Before(CellsMData[d])
  BY DEF Cells!Paths
<1>3. ASSUME NEW c \in CellsColumns, NEW p \in Cells!Paths, CellsMData[c] \in Cells!Before(p)
      PROVE  FALSE
  <2>1. PICK d \in CellsColumns : p = CellsMData[d] \/ p \in Cells!Before(CellsMData[d])
    BY <1>2
  <2>2. CellsMData[c] \in Cells!Before(CellsMData[d])
    BY <2>1, <1>1, <1>3
  <2> QED BY <2>2, <1>a
<1>4. \A c \in CellsColumns : CellsMData[c] \in Cells!Paths
                              /\ \A q \in Cells!Before(CellsMData[c]) : q \in Cells!Paths
  BY DEF Cells!Paths
<1> QED
  <2>1. \A c \in CellsColumns : \A p \in Cells!Paths : CellsMData[c] \notin Cells!Before(p)
    BY <1>3
  <2> QED BY <1>1, <2>1, <1>4

\* What a whole object has for a column is a text.
LEMMA TextsRead ==
  ASSUME NEW item, CellsWhole(item), NEW c \in CellsColumns
  PROVE  Cells!CellText(item, c) \in CellsTexts
<1>1. item[CellsMData[c]] \in CellsTexts \cup {Cells!Undefined, Cells!Null}
  BY PathsLead DEF CellsWhole, CellsContents
<1>2. Cells!Read(item, CellsMData[c]) \in CellsTexts \cup {Cells!Undefined, Cells!Null}
  BY <1>1 DEF Cells!Read
<1> QED BY <1>2, CellsAssumption DEF Cells!CellText

\* A text written is read back, and every other column reads what it did.
LEMMA WritesOne ==
  ASSUME NEW item, CellsWhole(item), NEW c \in CellsColumns, NEW text \in CellsTexts,
         NEW new, new = Cells!SetCellData(item, c, text)
  PROVE  /\ CellsWhole(new)
         /\ \A d \in CellsColumns : Cells!Read(new, CellsMData[d])
                                     = IF d = c THEN text ELSE Cells!Read(item, CellsMData[d])
<1> DEFINE P == CellsMData[c]
           B == Cells!Before(P)
           Obj == Cells!Object
<1>1. new = [q \in Cells!Paths |-> IF q = P THEN text ELSE IF q \in B THEN Obj ELSE item[q]]
  BY DEF Cells!SetCellData, Cells!Write
<1>2. P \in Cells!Paths /\ P \notin B /\ (\A p \in Cells!Paths : P \notin Cells!Before(p))
      /\ \A p \in B : \A q \in Cells!Before(p) : q \in B
  BY PathsLead
<1>3. text # Obj /\ Obj \in CellsContents /\ text \in CellsContents
  BY CellsAssumption DEF CellsContents
<1>4. /\ item \in [Cells!Paths -> CellsContents]
      /\ \A q, p \in Cells!Paths : q \in Cells!Before(p) /\ item[q] # Obj => item[p] = Cells!Undefined
      /\ \A d \in CellsColumns : item[CellsMData[d]] # Obj
  BY DEF CellsWhole
<1>5. \A d \in CellsColumns : /\ CellsMData[d] \in Cells!Paths /\ CellsMData[d] \notin B
                              /\ \A q \in Cells!Before(CellsMData[d]) : q \in Cells!Paths /\ q # P
                              /\ CellsMData[d] = P => d = c
  BY PathsLead, CellsAssumption
<1> HIDE DEF P, B, Obj
<1>6. CellsWhole(new)
  <2>1. new \in [Cells!Paths -> CellsContents]
    BY <1>1, <1>3, <1>4
  <2>2. ASSUME NEW q \in Cells!Paths, NEW p \in Cells!Paths, q \in Cells!Before(p), new[q] # Obj
        PROVE  new[p] = Cells!Undefined
    <3>1. q # P
      BY <1>2, <2>2
    <3>2. q \notin B /\ new[q] = item[q]
      BY <1>1, <2>2, <3>1
    <3>3. item[p] = Cells!Undefined
      BY <1>4, <2>2, <3>2
    <3>4. p # P /\ p \notin B
      BY <1>2, <2>2, <3>2 DEF B
    <3> QED BY <1>1, <3>3, <3>4
  <2>3. \A d \in CellsColumns : new[CellsMData[d]] # Obj
    BY <1>1, <1>3, <1>4, <1>5
  <2> QED BY <2>1, <2>2, <2>3 DEF CellsWhole, Obj
<1>7. Cells!Read(new, P) = text
  <2>1. \A q \in B : new[q] = Obj
    BY <1>1, <1>2, PathsLead DEF B, P
  <2>2. new[P] = text
    BY <1>1, <1>2
  <2> QED BY <2>1, <2>2 DEF Cells!Read, B, Obj
<1>8. ASSUME NEW d \in CellsColumns, d # c
      PROVE Cells!Read(new, CellsMData[d]) = Cells!Read(item, CellsMData[d])
  <2> DEFINE p == CellsMData[d]
  <2>1. p \in Cells!Paths /\ p \notin B /\ p # P
    BY <1>5, <1>8
  <2>2. new[p] = item[p]
    BY <1>1, <2>1
  <2>3. CASE \A q \in Cells!Before(p) : item[q] = Obj
    <3>1. \A q \in Cells!Before(p) : new[q] = Obj
      BY <1>1, <1>5, <2>3
    <3> QED BY <2>2, <2>3, <3>1 DEF Cells!Read, Obj
  <2>4. CASE ~\A q \in Cells!Before(p) : item[q] = Obj
    <3>1. item[p] = Cells!Undefined
      BY <1>4, <1>5, <2>1, <2>4
    <3> QED BY <2>2, <2>4, <3>1 DEF Cells!Read, Obj
  <2> QED BY <2>3, <2>4
<1> QED BY <1>6, <1>7, <1>8 DEF P

\* The type detected suits every cell.
LEMMA DetectsSuiting ==
  ASSUME NEW c \in CellsColumns
  PROVE  Cells!DetectedType(c) \in Cells!Types /\ TypeSuits(Cells!DetectedType(c), rows, c)
<1> DEFINE D == Cells!Detectors
           Fits(type) == \A i \in DOMAIN rows : Cells!Accepts(type, Cells!CellText(rows[i].item, c))
           fitting == {k \in DOMAIN D : Fits(D[k])}
           least == CHOOSE k \in fitting : \A j \in fitting : k <= j
           type == Cells!DetectedType(c)
           html == IF \E i \in DOMAIN rows : Cells!Accepts("html", Cells!CellText(rows[i].item, c))
                   THEN "html" ELSE "string"
<1>d. D = <<"num", "date", "num-fmt", "html-num", "html-num-fmt">>
  BY DEF Cells!Detectors
<1>n. DOMAIN D = 1 .. 5
  BY <1>d
<1>t. /\ \A k \in DOMAIN D : D[k] \in Cells!Types
      /\ Cells!ToSet(D) = {"num", "date", "num-fmt", "html-num", "html-num-fmt"}
      /\ html \in Cells!Types /\ "string" \in Cells!Types
      /\ html \notin Cells!ToSet(D) /\ "string" \notin Cells!ToSet(D)
  <2>1. Cells!ToSet(D) = {"num", "date", "num-fmt", "html-num", "html-num-fmt"}
    BY <1>d DEF Cells!ToSet
  <2>2. \A k \in DOMAIN D : D[k] \in Cells!ToSet(D)
    BY DEF Cells!ToSet
  <2> QED BY <2>1, <2>2 DEF Cells!Types
<1>1. type = IF rows = <<>> THEN "string" ELSE IF fitting # {} THEN D[least] ELSE html
  BY DEF Cells!DetectedType
<1> HIDE DEF D, type, html
<1>2. CASE rows = <<>>
  BY <1>1, <1>2, <1>t DEF TypeSuits, D, type
<1>3. CASE rows # <<>> /\ fitting # {}
  <2>1. fitting \in SUBSET Nat
    BY <1>n
  <2>2. \E x \in fitting : \A y \in fitting : x <= y
    <3> HIDE DEF fitting
    <3> QED BY <1>3, <2>1, Least
  <2>3. least \in fitting
    <3> HIDE DEF fitting
    <3> QED BY <2>2
  <2>4. type = D[least] /\ least \in DOMAIN D /\ Fits(D[least])
    <3>1. type = D[least]
      BY <1>1, <1>3
    <3> HIDE DEF least
    <3> QED BY <3>1, <2>3
  <2> QED BY <2>4, <1>t DEF TypeSuits, type
<1>4. CASE rows # <<>> /\ fitting = {}
  BY <1>1, <1>4, <1>t DEF TypeSuits, D, type
<1> QED BY <1>2, <1>3, <1>4

\* A table starts without rows.
LEMMA CellsInitial ==
  ASSUME Cells!Init
  PROVE  CellsInv
<1>1. rows = <<>> /\ types = [c \in CellsColumns |-> Nil] /\ DOMAIN rows = {}
  BY DEF Cells!Init
<1>2. rows \in Seq(CellRows)
  BY <1>1
<1> QED BY <1>1, <1>2 DEF CellsInv, TypeSuits

\* Nil is the type of no column yet detected.
LEMMA NilSuits ==
  /\ Nil \notin Cells!Types /\ \A data, c : TypeSuits(Nil, data, c)
<1>1. Nil \notin Cells!Types
  BY CellsAssumption
<1>2. Nil \notin Cells!ToSet(Cells!Detectors)
  BY <1>1 DEF Cells!Types
<1> QED BY <1>1, <1>2 DEF TypeSuits

\* A row is added: its node shows its object, no key is made of it yet.
LEMMA CellsAdds ==
  ASSUME CellsInv, NEW item \in CellsItems, Cells!Add(item)
  PROVE  CellsInv' /\ Len(rows') = Len(rows) + 1
<1> DEFINE r == [item |-> item, key |-> Cells!NoKeys, html |-> Cells!Shown(item)]
<1>1. rows' = Append(rows, r) /\ types' = [c \in CellsColumns |-> Nil]
  BY DEF Cells!Add, Cells!TypesForgotten
<1>2. CellsWhole(item)
  BY CellsAssumption
<1>3. RowShows(r)
  <2>1. r.item = item /\ r.key = [c \in CellsColumns |-> Nil]
        /\ r.html = [c \in CellsColumns |-> Cells!CellText(item, c)]
    BY DEF Cells!NoKeys, Cells!Shown
  <2>2. r.html \in [CellsColumns -> CellsTexts]
    BY <1>2, <2>1, TextsRead
  <2>3. r.key \in [CellsColumns -> CellKeys \cup {Nil}]
    BY <2>1
  <2>4. r.item \in [Cells!Paths -> CellsContents]
    BY <1>2, <2>1 DEF CellsWhole
  <2>5. r \in CellRows
    BY <2>2, <2>3, <2>4 DEF CellRows
  <2> HIDE DEF r
  <2> QED BY <1>2, <2>1, <2>5 DEF RowShows, KeysOf
<1> HIDE DEF r
<1>4. rows' \in Seq(CellRows) /\ Len(rows') = Len(rows) + 1
      /\ rows'[Len(rows) + 1] = r
      /\ \A i \in 1 .. Len(rows) : rows'[i] = rows[i]
  BY <1>1, <1>3, AppendProperties DEF CellsInv, RowShows
<1>5. DOMAIN rows = 1 .. Len(rows) /\ Len(rows) \in Nat /\ DOMAIN rows' = 1 .. Len(rows) + 1
  BY <1>4 DEF CellsInv
<1>6. \A i \in DOMAIN rows' : i \in DOMAIN rows \/ i = Len(rows) + 1
  BY <1>5
<1>7. ASSUME NEW i \in DOMAIN rows' PROVE RowShows(rows'[i])
  <2>1. CASE i \in DOMAIN rows
    <3>1. rows'[i] = rows[i]
      BY <1>4, <1>5, <2>1
    <3> QED BY <2>1, <3>1 DEF CellsInv
  <2>2. CASE i = Len(rows) + 1
    <3>1. rows'[i] = r
      BY <1>4, <2>2
    <3> QED BY <1>3, <3>1
  <2> QED BY <1>6, <2>1, <2>2
<1>8. types' \in [CellsColumns -> Cells!Types \cup {Nil}]
  BY <1>1
<1>9. \A c \in CellsColumns : TypeSuits(types'[c], rows', c)
  BY <1>1, NilSuits
<1> QED BY <1>4, <1>7, <1>8, <1>9 DEF CellsInv

\* A row is removed: the others keep what they hold, show and are sorted by.
LEMMA CellsLose ==
  ASSUME CellsInv, NEW i \in DOMAIN rows, Cells!RemoveRow(i)
  PROVE  CellsInv' /\ Len(rows') = Len(rows) - 1
<1>1. rows' = Cut(rows, i) /\ types' = types
  BY DEF Cells!RemoveRow, Cells!RemoveAt, Cut
<1>2. rows \in Seq(CellRows) /\ i \in 1 .. Len(rows) /\ Len(rows) \in Nat
  BY DEF CellsInv
<1>3. rows' \in Seq(CellRows) /\ Len(rows') = Len(rows) - 1
      /\ \A k \in 1 .. Len(rows') : rows'[k] = IF k < i THEN rows[k] ELSE rows[k + 1]
  BY <1>1, <1>2, Removed
<1>4. \A k \in DOMAIN rows' : \E j \in DOMAIN rows : rows'[k] = rows[j]
  <2> TAKE k \in DOMAIN rows'
  <2>1. k \in 1 .. Len(rows) - 1 /\ DOMAIN rows = 1 .. Len(rows)
    BY <1>2, <1>3
  <2>2. k \in DOMAIN rows /\ k + 1 \in DOMAIN rows
    BY <2>1, <1>2
  <2>3. rows'[k] = rows[k] \/ rows'[k] = rows[k + 1]
    BY <2>1, <1>3
  <2> QED BY <2>2, <2>3
<1>5. \A k \in DOMAIN rows' : RowShows(rows'[k])
  BY <1>4 DEF CellsInv
<1>6. \A c \in CellsColumns : TypeSuits(types'[c], rows', c)
  BY <1>1, <1>4 DEF CellsInv, TypeSuits
<1> QED BY <1>1, <1>3, <1>5, <1>6 DEF CellsInv

\* What rewriting the cell of row i in column c for text does, whole.
Rewritten(i, c, text) ==
  /\ rows \in Seq(CellRows) /\ DOMAIN rows' = DOMAIN rows
  /\ \A j \in DOMAIN rows, d \in CellsColumns :
       Cells!Read(rows'[j].item, CellsMData[d])
         = IF j = i /\ d = c THEN text ELSE Cells!Read(rows[j].item, CellsMData[d])

\* A cell is written: its node shows it, the keys of its row are gone and so is
\* the type of its column; the others read, and are drawn, as they were.
LEMMA CellsWrite ==
  ASSUME CellsInv, NEW text \in CellsTexts, NEW i \in DOMAIN rows, NEW c \in CellsColumns,
         NEW item, item = Cells!SetCellData(rows[i].item, c, text),
         NEW r, r = [item |-> item, key |-> Cells!NoKeys,
                     html |-> [rows[i].html EXCEPT ![c] = Cells!CellText(item, c)]],
         rows' = [rows EXCEPT ![i] = r], types' = [types EXCEPT ![c] = Nil]
  PROVE  CellsInv' /\ Rewritten(i, c, text)
<1>0. /\ rows \in Seq(CellRows) /\ RowShows(rows[i]) /\ rows[i] \in CellRows
      /\ types \in [CellsColumns -> Cells!Types \cup {Nil}]
  BY DEF CellsInv, RowShows
<1> DEFINE old == rows[i].item
<1>1. CellsWhole(old)
  BY <1>0 DEF RowShows
<1> HIDE DEF old
<1>2. /\ CellsWhole(item)
      /\ \A d \in CellsColumns : Cells!Read(item, CellsMData[d])
                                  = IF d = c THEN text ELSE Cells!Read(old, CellsMData[d])
  BY <1>1, WritesOne DEF old
<1>3. \A d \in CellsColumns : d # c => Cells!CellText(item, d) = Cells!CellText(old, d)
  BY <1>2 DEF Cells!CellText
<1>4. \A d \in CellsColumns : Cells!CellText(item, d) \in CellsTexts
  BY <1>2, TextsRead
<1>5. /\ r.item = item /\ r.key = [d \in CellsColumns |-> Nil]
      /\ r.html = [rows[i].html EXCEPT ![c] = Cells!CellText(item, c)]
      /\ rows[i].html \in [CellsColumns -> CellsTexts]
      /\ \A d \in CellsColumns : rows[i].html[d] = Cells!CellText(old, d)
  BY <1>0 DEF Cells!NoKeys, CellRows, RowShows, old
<1>6. RowShows(r)
  <2>1. r.html \in [CellsColumns -> CellsTexts]
    BY <1>4, <1>5
  <2>2. r.key \in [CellsColumns -> CellKeys \cup {Nil}]
    BY <1>5
  <2>3. r.item \in [Cells!Paths -> CellsContents]
    BY <1>2, <1>5 DEF CellsWhole
  <2>4. r \in CellRows
    BY <2>1, <2>2, <2>3 DEF CellRows
  <2>5. \A d \in CellsColumns : r.html[d] = Cells!CellText(r.item, d)
    BY <1>3, <1>5
  <2>6. KeysOf(r.item, r.key)
    BY <1>5 DEF KeysOf
  <2> QED BY <1>2, <1>5, <2>4, <2>5, <2>6 DEF RowShows
<1>7. /\ rows' \in Seq(CellRows) /\ DOMAIN rows' = DOMAIN rows /\ rows'[i] = r
      /\ \A j \in DOMAIN rows : j # i => rows'[j] = rows[j]
  <2>1. r \in CellRows
    BY <1>6 DEF RowShows
  <2>2. rows' \in [1 .. Len(rows) -> CellRows]
    BY <1>0, <2>1
  <2>3. Len(rows) \in Nat
    BY <1>0
  <2> QED BY <1>0, <2>2, <2>3
<1>8. \A j \in DOMAIN rows' : RowShows(rows'[j])
  BY <1>6, <1>7 DEF CellsInv
<1>9. \A d \in CellsColumns : TypeSuits(types'[d], rows', d)
  <2> TAKE d \in CellsColumns
  <2>1. CASE d = c
    BY <1>0, <2>1, NilSuits
  <2>2. CASE d # c
    <3>1. types'[d] = types[d] /\ TypeSuits(types[d], rows, d)
      BY <1>0, <2>2 DEF CellsInv
    <3>2. \A j \in DOMAIN rows : Cells!CellText(rows'[j].item, d) = Cells!CellText(rows[j].item, d)
      BY <1>3, <1>5, <1>7, <2>2 DEF old
    <3> QED BY <1>7, <3>1, <3>2 DEF TypeSuits
  <2> QED BY <2>1, <2>2
<1>10. types' \in [CellsColumns -> Cells!Types \cup {Nil}]
  BY <1>0
<1>11. Rewritten(i, c, text)
  <2>1. \A d \in CellsColumns : Cells!Read(rows'[i].item, CellsMData[d])
             = IF d = c THEN text ELSE Cells!Read(rows[i].item, CellsMData[d])
    BY <1>2, <1>5, <1>7 DEF old
  <2> QED BY <1>0, <1>7, <2>1 DEF Rewritten
<1> QED BY <1>7, <1>8, <1>9, <1>10, <1>11 DEF CellsInv

\* The table is sorted by a column: every column has its type and every row its
\* key, and no row holds or shows anything else.
LEMMA CellsSort ==
  ASSUME CellsInv, NEW c \in CellsColumns, Cells!Sort(c)
  PROVE  CellsInv' /\ DOMAIN rows' = DOMAIN rows /\ \A i \in DOMAIN rows : rows'[i].item = rows[i].item
<1>0. /\ rows \in Seq(CellRows) /\ (\A i \in DOMAIN rows : RowShows(rows[i]) /\ rows[i] \in CellRows)
      /\ types \in [CellsColumns -> Cells!Types \cup {Nil}]
  BY DEF CellsInv, RowShows
<1>1. types' = [d \in CellsColumns |-> IF types[d] = Nil THEN Cells!DetectedType(d) ELSE types[d]]
  BY DEF Cells!Sort, Cells!ColumnTypes
<1>2. \A d \in CellsColumns : types'[d] \in Cells!Types /\ TypeSuits(types'[d], rows, d)
  BY <1>0, <1>1, DetectsSuiting DEF CellsInv
<1> DEFINE type == types'[c]
           Key(i) == Cells!OrderKey(type, Cells!CellText(rows[i].item, c))
           Keyed(i) == [rows[i] EXCEPT !.key[c] = Key(i)]
<1>3. rows' = [i \in DOMAIN rows |-> IF Cells!Cached(rows[i].key[c]) THEN rows[i] ELSE Keyed(i)]
  BY DEF Cells!Sort, Cells!SortData
<1>4. ASSUME NEW i \in DOMAIN rows
      PROVE  RowShows(Keyed(i)) /\ Keyed(i).item = rows[i].item
  <2> DEFINE r == rows[i]
             k == Key(i)
             s == Keyed(i)
  <2>1. r \in CellRows /\ RowShows(r)
    BY <1>0
  <2>2. k.text = Cells!CellText(r.item, c) /\ k \in CellKeys
    <3>1. Cells!CellText(r.item, c) \in CellsTexts
      BY <2>1, TextsRead DEF RowShows
    <3>2. type \in Cells!Types
      BY <1>2
    <3> HIDE DEF type, r
    <3> QED BY <3>1, <3>2 DEF Cells!OrderKey, CellKeys, r
  <2>3. s = [r EXCEPT !.key[c] = k]
    OBVIOUS
  <2> HIDE DEF r, k, s
  <2>4. /\ s.item = r.item /\ s.html = r.html /\ s.key = [r.key EXCEPT ![c] = k]
        /\ r.key \in [CellsColumns -> CellKeys \cup {Nil}] /\ s \in CellRows
    BY <2>1, <2>2, <2>3 DEF CellRows
  <2>5. KeysOf(s.item, s.key)
    <3>1. KeysOf(r.item, r.key)
      BY <2>1 DEF RowShows
    <3>2. \A d \in CellsColumns : s.key[d] = IF d = c THEN k ELSE r.key[d]
      BY <2>4
    <3> QED BY <2>2, <2>4, <3>1, <3>2 DEF KeysOf
  <2> QED BY <2>1, <2>4, <2>5 DEF RowShows, r, s
<1> HIDE DEF type, Key, Keyed
<1>5. DOMAIN rows' = DOMAIN rows /\ \A i \in DOMAIN rows : rows'[i] = rows[i] \/ rows'[i] = Keyed(i)
  BY <1>3
<1>6. \A i \in DOMAIN rows' : RowShows(rows'[i]) /\ rows'[i].item = rows[i].item
  BY <1>0, <1>4, <1>5
<1>7. rows' \in Seq(CellRows)
  <2>1. \A i \in DOMAIN rows' : rows'[i] \in CellRows
    BY <1>6 DEF RowShows
  <2>2. DOMAIN rows' = 1 .. Len(rows) /\ Len(rows) \in Nat
    BY <1>0, <1>5
  <2>3. rows' \in [1 .. Len(rows) -> CellRows]
    <3>1. rows' = [i \in DOMAIN rows' |-> rows'[i]]
      BY <1>3
    <3> QED BY <2>1, <2>2, <3>1
  <2> QED BY <2>2, <2>3
<1>8. \A d \in CellsColumns : TypeSuits(types'[d], rows', d)
  BY <1>2, <1>5, <1>6 DEF TypeSuits
<1>9. types' \in [CellsColumns -> Cells!Types \cup {Nil}]
  BY <1>1, <1>2
<1> QED BY <1>5, <1>6, <1>7, <1>8, <1>9 DEF CellsInv

\* A write of a cell of no row but in a column only puts its column's type in doubt.
LEMMA CellsMiss ==
  ASSUME CellsInv, rows' = rows, NEW c \in CellsColumns, types' = [types EXCEPT ![c] = Nil]
  PROVE  CellsInv'
<1>1. types' \in [CellsColumns -> Cells!Types \cup {Nil}]
  BY DEF CellsInv
<1>2. \A d \in CellsColumns : types'[d] = types[d] \/ types'[d] = Nil
  BY DEF CellsInv
<1> QED BY <1>1, <1>2, NilSuits DEF CellsInv

\* Every step keeps the rows and the types in agreement.
LEMMA CellsStep ==
  ASSUME CellsInv, [Cells!Next]_cellVars
  PROVE  CellsInv' /\ Cells!ReadsBack
<1>0. rows \in Seq(CellRows) /\ DOMAIN rows = 1 .. Len(rows) /\ Len(rows) \in Nat
  BY DEF CellsInv
<1>1. ASSUME NEW item \in CellsItems, Cells!Add(item) PROVE CellsInv' /\ Cells!ReadsBack
  <2>1. CellsInv' /\ Len(rows') = Len(rows) + 1
    BY <1>1, CellsAdds
  <2>2. DOMAIN rows' = 1 .. Len(rows) + 1
    BY <2>1 DEF CellsInv
  <2>3. Len(rows) + 1 \in DOMAIN rows' /\ Len(rows) + 1 \notin DOMAIN rows
    BY <1>0, <2>2
  <2> QED BY <2>1, <2>3 DEF Cells!ReadsBack, Cells!Rewrites
<1>2. ASSUME NEW i \in DOMAIN rows, Cells!RemoveRow(i) PROVE CellsInv' /\ Cells!ReadsBack
  <2>1. CellsInv' /\ Len(rows') = Len(rows) - 1
    BY <1>2, CellsLose
  <2>2. DOMAIN rows' = 1 .. Len(rows) - 1
    BY <2>1 DEF CellsInv
  <2>3. Len(rows) \in DOMAIN rows /\ Len(rows) \notin DOMAIN rows'
    BY <1>0, <1>2, <2>2
  <2> QED BY <2>1, <2>3 DEF Cells!ReadsBack, Cells!Rewrites
<1>3. ASSUME NEW rowSel \in CellsRowSelectors, NEW colSel \in CellsColumnSelectors,
             NEW text \in CellsTexts, Cells!SetCell(rowSel, colSel, text)
      PROVE  CellsInv' /\ Cells!ReadsBack
  <2>1. PICK cell \in Cells!Cell(rowSel, colSel) :
          /\ cell.column \in CellsColumns
          /\ rows' = [rows EXCEPT ![cell.row] =
               [item |-> Cells!SetCellData(rows[cell.row].item, cell.column, text),
                key |-> Cells!NoKeys,
                html |-> [@.html EXCEPT ![cell.column] =
                  Cells!CellText(Cells!SetCellData(rows[cell.row].item, cell.column, text), cell.column)]]]
          /\ types' = [types EXCEPT ![cell.column] = Nil]
    BY <1>3 DEF Cells!SetCell
  <2>2. CASE cell.row \in DOMAIN rows
    <3> DEFINE i == cell.row
               c == cell.column
               item == Cells!SetCellData(rows[i].item, c, text)
               r == [item |-> item, key |-> Cells!NoKeys,
                     html |-> [rows[i].html EXCEPT ![c] = Cells!CellText(item, c)]]
    <3>1. rows' = [rows EXCEPT ![i] = r] /\ types' = [types EXCEPT ![c] = Nil]
      BY <2>1, <2>2
    <3>2. i \in DOMAIN rows /\ c \in CellsColumns
      BY <2>1, <2>2
    <3>3. CellsInv' /\ Rewritten(i, c, text)
      <4> HIDE DEF i, c
      <4> QED BY <3>1, <3>2, CellsWrite
    <3>4. \A j \in DOMAIN rows, d \in CellsColumns :
            Cells!Read(rows'[j].item, CellsMData[d])
              = IF j = cell.row /\ d = cell.column THEN text ELSE Cells!Read(rows[j].item, CellsMData[d])
      BY <3>3 DEF Rewritten
    <3>5. Cells!ReadsBack
      BY <1>3, <2>1, <3>4 DEF Cells!ReadsBack
    <3> QED BY <3>3, <3>5
  <2>3. CASE cell.row \notin DOMAIN rows
    <3>1. rows' = rows
      BY <1>0, <2>1, <2>3
    <3>2. CellsInv'
      BY <2>1, <3>1, CellsMiss
    <3> QED BY <3>1, <3>2 DEF Cells!ReadsBack, Cells!Rewrites
  <2> QED BY <2>2, <2>3
<1>4. ASSUME NEW c \in CellsColumns, Cells!Sort(c) PROVE CellsInv' /\ Cells!ReadsBack
  BY <1>4, CellsSort DEF Cells!ReadsBack, Cells!Rewrites
<1>5. ASSUME UNCHANGED cellVars PROVE CellsInv' /\ Cells!ReadsBack
  <2>1. rows' = rows /\ types' = types
    BY <1>5 DEF cellVars
  <2> QED BY <2>1 DEF CellsInv, Cells!ReadsBack, Cells!Rewrites
<1> QED BY <1>1, <1>2, <1>3, <1>4, <1>5 DEF Cells!Next

\* What the rows and the types agree on is what the table promises.
LEMMA CellsSafe ==
  ASSUME CellsInv
  PROVE  Cells!TypeOK /\ Cells!CellsAgree
<1>1. ASSUME NEW i \in DOMAIN rows
      PROVE  /\ rows[i].item \in [Cells!Paths -> CellsContents]
             /\ rows[i].html \in [CellsColumns -> CellsTexts]
             /\ rows[i].key \in [CellsColumns -> CellKeys \cup {Nil}]
  BY DEF CellsInv, RowShows, CellRows
<1>2. Cells!TypeOK
  BY <1>1 DEF Cells!TypeOK, CellKeys, CellsContents, CellsInv
<1>3. Cells!CellsAgree
  BY DEF Cells!CellsAgree, CellsInv, RowShows, KeysOf, TypeSuits
<1> QED BY <1>2, <1>3

(***************************************************************************)
(* The form.                                                               *)
(***************************************************************************)

Contents == { vals \in [FormFields -> UNION { FormValues[f] : f \in FormFields }] :
                \A f \in FormFields : vals[f] \in FormValues[f] }
Requests == [value : Form!Asked, status : {"asked", "ok", "bad"}]
Submissions == [values : Contents, state : {"sent", "refused", "waiting", "asking"}]

\* Every field accepted, the remote check's by an answer among these requests.
Accepted(vals, xs) ==
  \A f \in FormFields :
    /\ Form!Failing(f, vals[f]) = {}
    /\ Form!Asks(f, vals[f]) =>
         \E x \in 1 .. Len(xs) : xs[x] = [value |-> vals[f], status |-> "ok"]

\* What the cache remembers for a value is a request for that value.
CacheRight(c, xs) ==
  /\ c \in [Form!Asked -> Nat]
  /\ \A v \in Form!Asked : c[v] # 0 => c[v] \in 1 .. Len(xs) /\ xs[c[v]].value = v

\* A waiting validation waits for an open request, for the value its form has.
RunRight(r, xs, fs) ==
  /\ r \in [xhr : 1 .. Len(xs), form : 0 .. Len(fs), quiet : BOOLEAN]
  /\ xs[r.xhr].status = "asked"
  /\ r.form # 0 => xs[r.xhr].value = fs[r.form].values[FormRemoteField]

\* A form that waits was accepted but for the remote check.
FormRight(form, xs) ==
  /\ form.state = "waiting" => \A f \in FormFields : Form!Failing(f, form.values[f]) = {}
  /\ form.state = "sent" => Accepted(form.values, xs)

RunsRight == \A r \in runs : RunRight(r, xhrs, forms)
FormsRight == \A i \in 1 .. Len(forms) : FormRight(forms[i], xhrs)
SentInv ==
  /\ value \in Contents /\ xhrs \in Seq(Requests) /\ forms \in Seq(Submissions)
  /\ CacheRight(cache, xhrs) /\ RunsRight /\ FormsRight

\* Requests are only added and answered.
Later(xs) ==
  /\ xs \in Seq(Requests) /\ Len(xhrs) <= Len(xs)
  /\ \A x \in 1 .. Len(xhrs) : /\ xs[x].value = xhrs[x].value
                               /\ xhrs[x].status # "asked" => xs[x] = xhrs[x]

LEMMA AcceptedStays ==
  ASSUME NEW xs, NEW vals, xhrs \in Seq(Requests), Later(xs), Accepted(vals, xhrs)
  PROVE  Accepted(vals, xs)
<1> SUFFICES ASSUME NEW f \in FormFields, Form!Asks(f, vals[f])
             PROVE  \E x \in 1 .. Len(xs) : xs[x] = [value |-> vals[f], status |-> "ok"]
  BY DEF Accepted
<1>1. PICK x \in 1 .. Len(xhrs) : xhrs[x] = [value |-> vals[f], status |-> "ok"]
  BY DEF Accepted
<1>2. xs[x] = xhrs[x] /\ x \in 1 .. Len(xs)
  BY <1>1 DEF Later
<1> QED
  BY <1>1, <1>2

LEMMA FormStays ==
  ASSUME NEW xs, NEW form, xhrs \in Seq(Requests), Later(xs), FormRight(form, xhrs)
  PROVE  FormRight(form, xs)
BY AcceptedStays DEF FormRight

LEMMA RemoteValue ==
  ASSUME NEW vals \in Contents
  PROVE  vals[FormRemoteField] \in Form!Asked
BY FormAssumption DEF Contents, Form!Asked

(***************************************************************************)
(* What validating some fields comes to.                                   *)
(***************************************************************************)

\* Results are kept by field.
IsTable(res) == res = [f \in FormFields |-> res[f]]

\* A validation that waits, does so for an open request for the value.
Waiting(val, vals) ==
  /\ val.xhr \in 1 .. Len(val.xhrs)
  /\ val.xhrs[val.xhr].value = vals[FormRemoteField]
  /\ val.xhrs[val.xhr].status = "asked"

LEMMA Validates ==
  ASSUME SentInv, NEW S \in SUBSET FormFields, NEW vals \in Contents, NEW known,
         CacheRight(known, xhrs)
  PROVE  LET val == Form!Validation(S, vals, known)
         IN  /\ Later(val.xhrs) /\ CacheRight(val.cache, val.xhrs)
             /\ \A y \in 1 .. Len(xhrs) : val.xhrs[y] = xhrs[y]
             /\ val.waits \in BOOLEAN
             /\ val.waits => Waiting(val, vals) /\ FormRemoteField \in S
             /\ IsTable(val.result)
             /\ \A f \in S : Form!Failing(f, vals[f]) \subseteq val.result[f]
             /\ \A f \in S \ {FormRemoteField} : val.result[f] = Form!Failing(f, vals[f])
             /\ \A f \in FormFields \ S : val.result[f] = result[f]
             /\ (S = FormFields /\ ~val.waits /\ \A f \in FormFields : val.result[f] = {})
                => Accepted(vals, val.xhrs)
<1> DEFINE val == Form!Validation(S, vals, known)
           v == vals[FormRemoteField]
           asking == FormRemoteField \in S /\ Form!Asks(FormRemoteField, v)
           asked == asking /\ known[v] # 0
           x == IF asked THEN known[v] ELSE Len(xhrs) + 1
           status == IF asked THEN xhrs[x].status ELSE "asked"
           new == [value |-> v, status |-> "asked"]
<1>1. /\ val.result = [f \in FormFields |->
                         IF f \notin S THEN result[f]
                         ELSE Form!Failing(f, vals[f]) \cup
                              IF asking /\ f = FormRemoteField /\ status = "bad"
                              THEN {FormRemote} ELSE {}]
      /\ val.xhrs = IF asking /\ ~asked THEN Append(xhrs, new) ELSE xhrs
      /\ val.cache = IF asking THEN [known EXCEPT ![v] = x] ELSE known
      /\ val.waits = (asking /\ status = "asked")
      /\ val.xhr = x
  BY DEF Form!Validation, Form!Lookup
<1>a. IsTable(val.result)
  BY DEF IsTable, Form!Validation
<1>2. v \in Form!Asked
  BY RemoteValue
<1>3. new \in Requests
  BY <1>2 DEF Requests
<1>4. xhrs \in Seq(Requests) /\ known \in [Form!Asked -> Nat]
  BY DEF SentInv, CacheRight
<1>5. known[v] # 0 => known[v] \in 1 .. Len(xhrs) /\ xhrs[known[v]].value = v
  BY <1>2 DEF CacheRight
<1> HIDE DEF val, v, new
<1>6. CASE asking /\ ~asked
  <2>1. val.xhrs = Append(xhrs, new) /\ x = Len(xhrs) + 1 /\ status = "asked" /\ val.waits
    BY <1>1, <1>6
  <2>2. /\ val.xhrs \in Seq(Requests) /\ Len(val.xhrs) = Len(xhrs) + 1
        /\ \A y \in 1 .. Len(xhrs) : val.xhrs[y] = xhrs[y]
        /\ val.xhrs[x] = new
    BY <1>3, <1>4, <2>1
  <2>3. new.value = v /\ new.status = "asked"
    BY DEF new
  <2>4. Later(val.xhrs)
    BY <1>4, <2>2 DEF Later
  <2>5. val.cache = [known EXCEPT ![v] = x] /\ x \in 1 .. Len(val.xhrs)
    BY <1>1, <1>4, <1>6, <2>1, <2>2
  <2>6. ASSUME NEW w \in Form!Asked, val.cache[w] # 0
        PROVE  val.cache[w] \in 1 .. Len(val.xhrs) /\ val.xhrs[val.cache[w]].value = w
    <3>1. CASE w = v
      BY <1>2, <1>4, <2>2, <2>3, <2>5, <3>1
    <3>2. CASE w # v
      BY <1>2, <1>4, <2>2, <2>5, <2>6, <3>2 DEF CacheRight
    <3> QED
      BY <3>1, <3>2
  <2>7. CacheRight(val.cache, val.xhrs)
    BY <1>2, <1>4, <2>5, <2>6 DEF CacheRight
  <2>8. Waiting(val, vals)
    BY <1>1, <2>2, <2>3, <2>5 DEF Waiting, v
  <2> QED
    BY <1>1, <1>a, <1>6, <2>1, <2>4, <2>7, <2>8 DEF val
<1>7. CASE ~asking
  <2>1. val.xhrs = xhrs /\ val.cache = known /\ val.waits = FALSE
    BY <1>1, <1>7
  <2>2. Later(val.xhrs) /\ CacheRight(val.cache, val.xhrs)
    BY <1>4, <2>1 DEF Later
  <2>3. \A f \in S : val.result[f] = Form!Failing(f, vals[f])
    BY <1>1, <1>7
  <2>4. ASSUME S = FormFields, \A f \in FormFields : val.result[f] = {}
        PROVE  Accepted(vals, val.xhrs)
    BY <1>7, <2>3, <2>4 DEF Accepted, v, Form!Asks
  <2> QED
    BY <1>1, <1>a, <2>1, <2>2, <2>3, <2>4 DEF val
<1>8. CASE asked
  <2>1. val.xhrs = xhrs /\ x = known[v] /\ x \in 1 .. Len(xhrs) /\ xhrs[x].value = v
        /\ status = xhrs[x].status
    BY <1>1, <1>5, <1>8
  <2>2. val.cache = known
    BY <1>1, <1>2, <1>4, <1>8, <2>1
  <2>3. Later(val.xhrs) /\ CacheRight(val.cache, val.xhrs)
    BY <1>4, <2>1, <2>2 DEF Later
  <2>4. val.waits => Waiting(val, vals)
    BY <1>1, <2>1 DEF Waiting, v
  <2>5. ASSUME S = FormFields, ~val.waits, \A f \in FormFields : val.result[f] = {}
        PROVE  Accepted(vals, val.xhrs)
    <3>1. status # "asked" /\ status # "bad"
      BY <1>1, <1>8, <2>5, FormAssumption
    <3>2. xhrs[x] \in Requests
      BY <1>4, <2>1
    <3>3. xhrs[x] = [value |-> v, status |-> "ok"]
      BY <2>1, <3>1, <3>2 DEF Requests
    <3>4. \A f \in FormFields : Form!Failing(f, vals[f]) = {}
      BY <1>1, <2>5
    <3> QED
      BY <2>1, <3>3, <3>4 DEF Accepted, v, Form!Asks
  <2> QED
    BY <1>1, <1>a, <1>8, <2>3, <2>4, <2>5 DEF val
<1> QED
  BY <1>6, <1>7, <1>8

\* The values of a form never change; forms are only added.
Longer(fs) ==
  /\ fs \in Seq(Submissions) /\ Len(forms) <= Len(fs)
  /\ \A i \in 1 .. Len(forms) : fs[i].values = forms[i].values

LEMMA RunStays ==
  ASSUME NEW r, NEW xs, NEW fs, xhrs \in Seq(Requests), forms \in Seq(Submissions),
         RunRight(r, xhrs, forms), Later(xs), Longer(fs), xs[r.xhr] = xhrs[r.xhr]
  PROVE  RunRight(r, xs, fs)
BY DEF RunRight, Later, Longer

\* The steps that validate: the requests and the cache are the validation's, the
\* runs added wait for its request, and a form that is added may be sent only
\* if nothing failed and nothing is waited for.
LEMMA ValidationStep ==
  ASSUME SentInv, NEW S \in SUBSET FormFields, NEW vals \in Contents, NEW known,
         CacheRight(known, xhrs), NEW val, val = Form!Validation(S, vals, known),
         xhrs' = val.xhrs, cache' = val.cache \/ cache' = Form!NoCache,
         Longer(forms'), value' \in Contents,
         \A r \in runs' : \/ r \in runs
                          \/ /\ val.waits
                             /\ r \in [xhr : {val.xhr}, form : 0 .. Len(forms'), quiet : BOOLEAN]
                             /\ r.form # 0 => forms'[r.form].values = vals,
         \A i \in 1 .. Len(forms') : \/ i \in 1 .. Len(forms) /\ forms'[i] = forms[i]
                                     \/ FormRight(forms'[i], val.xhrs)
  PROVE  SentInv'
<1>1. /\ Later(val.xhrs) /\ CacheRight(val.cache, val.xhrs)
      /\ \A y \in 1 .. Len(xhrs) : val.xhrs[y] = xhrs[y]
      /\ val.waits => Waiting(val, vals)
  BY Validates
<1>2. xhrs \in Seq(Requests) /\ forms \in Seq(Submissions) /\ RunsRight /\ FormsRight
  BY DEF SentInv
<1>3. CacheRight(Form!NoCache, val.xhrs)
  BY DEF CacheRight, Form!NoCache
<1>4. CacheRight(cache', xhrs')
  BY <1>1, <1>3
<1>5. ASSUME NEW r \in runs' PROVE RunRight(r, xhrs', forms')
  <2>1. CASE r \in runs
    <3>1. RunRight(r, xhrs, forms)
      BY <1>2, <2>1 DEF RunsRight
    <3>2. xhrs'[r.xhr] = xhrs[r.xhr]
      BY <1>1, <3>1 DEF RunRight
    <3> QED
      BY <1>1, <1>2, <3>1, <3>2, RunStays
  <2>2. CASE r \notin runs
    <3>1. /\ val.waits /\ r.xhr = val.xhr
          /\ r \in [xhr : {val.xhr}, form : 0 .. Len(forms'), quiet : BOOLEAN]
          /\ r.form # 0 => forms'[r.form].values = vals
      BY <1>5, <2>2
    <3>2. Waiting(val, vals)
      BY <1>1, <3>1
    <3> QED
      BY <3>1, <3>2 DEF RunRight, Waiting
  <2> QED
    BY <2>1, <2>2
<1>6. ASSUME NEW i \in 1 .. Len(forms') PROVE FormRight(forms'[i], xhrs')
  <2>1. CASE i \in 1 .. Len(forms) /\ forms'[i] = forms[i]
    BY <1>1, <1>2, <2>1, FormStays DEF FormsRight
  <2> QED
    BY <2>1
<1> QED
  BY <1>1, <1>4, <1>5, <1>6 DEF SentInv, RunsRight, FormsRight, Later, Longer

LEMMA FieldStep ==
  ASSUME SentInv, NEW f \in FormFields, NEW vals \in Contents, value' \in Contents,
         Form!ValidateField(f, vals), UNCHANGED forms
  PROVE  SentInv'
<1> DEFINE val == Form!Validation({f}, vals, cache)
<1>1. /\ xhrs' = val.xhrs /\ cache' = val.cache
      /\ runs' = IF val.waits THEN runs \cup {Form!Run(val.xhr, 0, FALSE)} ELSE runs
  BY DEF Form!ValidateField, Form!Begin
<1>2. CacheRight(cache, xhrs) /\ forms \in Seq(Submissions)
  BY DEF SentInv
<1>3. Longer(forms')
  BY <1>2 DEF Longer
<1> HIDE DEF val
<1>4. \A r \in runs' : \/ r \in runs
                       \/ /\ val.waits
                          /\ r \in [xhr : {val.xhr}, form : 0 .. Len(forms'), quiet : BOOLEAN]
                          /\ r.form # 0 => forms'[r.form].values = vals
  <2> DEFINE run == Form!Run(val.xhr, 0, FALSE)
  <2>1. 0 \in 0 .. Len(forms')
    BY <1>2
  <2>2. run \in [xhr : {val.xhr}, form : 0 .. Len(forms'), quiet : BOOLEAN] /\ run.form = 0
    BY <2>1 DEF Form!Run
  <2> HIDE DEF run
  <2> QED
    BY <1>1, <2>2 DEF run
<1>5. val = Form!Validation({f}, vals, cache) /\ {f} \in SUBSET FormFields
  BY DEF val
<1>6. \A i \in 1 .. Len(forms') : \/ i \in 1 .. Len(forms) /\ forms'[i] = forms[i]
                                  \/ FormRight(forms'[i], val.xhrs)
  OBVIOUS
<1>7. xhrs' = val.xhrs /\ (cache' = val.cache \/ cache' = Form!NoCache)
  BY <1>1
<1>8. CacheRight(cache, xhrs)
  BY <1>2
<1> QED
  BY <1>3, <1>4, <1>5, <1>6, <1>7, <1>8, ValidationStep

LEMMA QuietStep ==
  ASSUME SentInv, value' \in Contents, UNCHANGED <<xhrs, cache, runs, forms>>
  PROVE  SentInv'
BY DEF SentInv, RunsRight, FormsRight

LEMMA TypeStep ==
  ASSUME SentInv, NEW f \in FormFields, NEW v \in FormValues[f], Form!Type(f, v)
  PROVE  SentInv'
<1> DEFINE vals == [value EXCEPT ![f] = v]
<1>1. value' = vals /\ UNCHANGED forms
  BY DEF Form!Type
<1>2. vals \in Contents
  BY DEF SentInv, Contents
<1>3. CASE Form!HearsInput(f)
  <2>1. Form!ValidateField(f, value')
    BY <1>3 DEF Form!Type
  <2>2. Form!ValidateField(f, vals)
    BY <1>1, <2>1
  <2> HIDE DEF vals
  <2> QED
    BY <1>1, <1>2, <2>2, FieldStep
<1>4. CASE ~Form!HearsInput(f)
  <2>1. UNCHANGED <<xhrs, cache, runs>>
    BY <1>4 DEF Form!Type
  <2> QED
    BY <1>1, <1>2, <2>1, QuietStep
<1> QED
  BY <1>3, <1>4

LEMMA LeaveStep ==
  ASSUME SentInv, NEW f \in FormFields, Form!Leave(f)
  PROVE  SentInv'
<1>1. value \in Contents /\ UNCHANGED <<value, forms>>
  BY DEF SentInv, Form!Leave
<1>2. CASE Form!HearsChange(f)
  BY <1>1, <1>2, FieldStep DEF Form!Leave
<1>3. CASE ~Form!HearsChange(f)
  BY <1>1, <1>3, QuietStep DEF Form!Leave
<1> QED
  BY <1>2, <1>3

LEMMA FillStep ==
  ASSUME SentInv, NEW vals \in FormFills, Form!Fill(vals)
  PROVE  SentInv'
BY FormAssumption, QuietStep DEF Form!Fill, Contents

\* Submit and Press add a form, which is sent if all its fields are accepted.
LEMMA FormStep ==
  ASSUME SentInv, NEW known, CacheRight(known, xhrs), NEW state \in {"waiting", "asking"},
         NEW val, val = Form!Validation(FormFields, value, known),
         NEW form, form = Form!Form(value, IF Form!Invalid(val) THEN "refused"
                                           ELSE IF val.waits THEN state ELSE "sent"),
         UNCHANGED value, xhrs' = val.xhrs, cache' = val.cache \/ cache' = Form!NoCache,
         forms' = Append(forms, form),
         runs' \subseteq runs \cup
           IF val.waits THEN [xhr : {val.xhr}, form : {Len(forms) + 1}, quiet : BOOLEAN] ELSE {}
  PROVE  SentInv'
<1>1. value \in Contents /\ forms \in Seq(Submissions)
  BY DEF SentInv
<1>2. form \in Submissions
  BY <1>1 DEF Submissions, Form!Form
<1>3. /\ forms' \in Seq(Submissions) /\ Len(forms') = Len(forms) + 1
      /\ \A i \in 1 .. Len(forms) : forms'[i] = forms[i]
      /\ forms'[Len(forms) + 1] = form
  BY <1>1, <1>2
<1>4. Longer(forms')
  BY <1>1, <1>3 DEF Longer
<1>5. form.values = value
  BY DEF Form!Form
<1>6. FormRight(form, val.xhrs)
  <2>1. form.state = "waiting" => ~Form!Invalid(val)
    BY DEF Form!Form
  <2>2. form.state = "sent" => ~Form!Invalid(val) /\ ~val.waits
    BY DEF Form!Form
  <2>3. /\ \A f \in FormFields : Form!Failing(f, value[f]) \subseteq val.result[f]
        /\ (~val.waits /\ \A f \in FormFields : val.result[f] = {}) => Accepted(value, val.xhrs)
    BY <1>1, Validates
  <2> QED
    BY <1>5, <2>1, <2>2, <2>3 DEF FormRight, Form!Invalid
<1>7. \A r \in runs' : \/ r \in runs
                       \/ /\ val.waits
                          /\ r \in [xhr : {val.xhr}, form : 0 .. Len(forms'), quiet : BOOLEAN]
                          /\ r.form # 0 => forms'[r.form].values = value
  <2> SUFFICES ASSUME NEW r \in runs', r \notin runs
               PROVE  /\ val.waits
                      /\ r \in [xhr : {val.xhr}, form : 0 .. Len(forms'), quiet : BOOLEAN]
                      /\ r.form # 0 => forms'[r.form].values = value
    OBVIOUS
  <2>1. val.waits /\ r \in [xhr : {val.xhr}, form : {Len(forms) + 1}, quiet : BOOLEAN]
    OBVIOUS
  <2>2. r.form = Len(forms) + 1 /\ r.form \in 0 .. Len(forms')
    BY <1>1, <1>3, <2>1
  <2> QED
    BY <1>3, <1>5, <2>1, <2>2
<1>8. \A i \in 1 .. Len(forms') : \/ i \in 1 .. Len(forms) /\ forms'[i] = forms[i]
                                  \/ FormRight(forms'[i], val.xhrs)
  BY <1>1, <1>3, <1>6
<1> QED
  BY <1>1, <1>4, <1>7, <1>8, ValidationStep

LEMMA SubmitStep == ASSUME SentInv, Form!Submit PROVE SentInv'
<1> DEFINE val == Form!Validation(FormFields, value, Form!NoCache)
           form == Form!Form(value, IF Form!Invalid(val) THEN "refused"
                                    ELSE IF val.waits THEN "waiting" ELSE "sent")
<1>1. /\ UNCHANGED value /\ xhrs' = val.xhrs /\ cache' \in {val.cache, Form!NoCache}
      /\ forms' = Append(forms, form)
      /\ runs' = IF val.waits THEN runs \cup {Form!Run(val.xhr, Len(forms) + 1, FALSE)} ELSE runs
  BY DEF Form!Submit, Form!Begin
<1>2. CacheRight(Form!NoCache, xhrs)
  BY DEF CacheRight, Form!NoCache
<1>3. runs' \subseteq runs \cup
        IF val.waits THEN [xhr : {val.xhr}, form : {Len(forms) + 1}, quiet : BOOLEAN] ELSE {}
  <2> DEFINE new == [xhr : {val.xhr}, form : {Len(forms) + 1}, quiet : BOOLEAN]
  <2>1. /\ Form!Run(val.xhr, Len(forms) + 1, FALSE) \in new
        /\ Form!Run(val.xhr, Len(forms) + 1, TRUE) \in new
    BY DEF Form!Run
  <2> HIDE DEF val, form, new
  <2>2. val.waits => runs' \subseteq runs \cup new
    BY <1>1, <2>1
  <2>3. ~val.waits => runs' \subseteq runs
    BY <1>1
  <2> QED
    BY <2>2, <2>3 DEF new
<1> HIDE DEF val, form
<1>4. val = Form!Validation(FormFields, value, Form!NoCache)
  BY DEF val
<1>5. form = Form!Form(value, IF Form!Invalid(val) THEN "refused"
                              ELSE IF val.waits THEN "waiting" ELSE "sent")
  BY DEF form
<1> QED
  BY <1>1, <1>2, <1>3, <1>4, <1>5, FormStep

LEMMA PressStep == ASSUME SentInv, Form!Press PROVE SentInv'
<1> DEFINE val == Form!Validation(FormFields, value, cache)
           form == Form!Form(value, IF Form!Invalid(val) THEN "refused"
                                    ELSE IF val.waits THEN "asking" ELSE "sent")
<1>1. /\ UNCHANGED value /\ xhrs' = val.xhrs /\ cache' = val.cache
      /\ forms' = Append(forms, form)
      /\ runs' = IF val.waits THEN runs \cup {Form!Run(val.xhr, Len(forms) + 1, FALSE),
                                              Form!Run(val.xhr, Len(forms) + 1, TRUE)}
                 ELSE runs
  BY DEF Form!Press, Form!Begin
<1>2. CacheRight(cache, xhrs)
  BY DEF SentInv
<1>3. runs' \subseteq runs \cup
        IF val.waits THEN [xhr : {val.xhr}, form : {Len(forms) + 1}, quiet : BOOLEAN] ELSE {}
  <2> DEFINE new == [xhr : {val.xhr}, form : {Len(forms) + 1}, quiet : BOOLEAN]
  <2>1. /\ Form!Run(val.xhr, Len(forms) + 1, FALSE) \in new
        /\ Form!Run(val.xhr, Len(forms) + 1, TRUE) \in new
    BY DEF Form!Run
  <2> HIDE DEF val, form, new
  <2>2. val.waits => runs' \subseteq runs \cup new
    BY <1>1, <2>1
  <2>3. ~val.waits => runs' \subseteq runs
    BY <1>1
  <2> QED
    BY <2>2, <2>3 DEF new
<1> HIDE DEF val, form
<1>4. val = Form!Validation(FormFields, value, cache)
  BY DEF val
<1>5. form = Form!Form(value, IF Form!Invalid(val) THEN "refused"
                              ELSE IF val.waits THEN "asking" ELSE "sent")
  BY DEF form
<1> QED
  BY <1>1, <1>2, <1>3, <1>4, <1>5, FormStep

LEMMA AnswerLater ==
  ASSUME SentInv, NEW x \in 1 .. Len(xhrs), NEW answer \in {"ok", "bad"},
         xhrs[x].status = "asked", xhrs' = [xhrs EXCEPT ![x].status = answer]
  PROVE  /\ Later(xhrs') /\ Len(xhrs') = Len(xhrs)
         /\ \A y \in 1 .. Len(xhrs) : y # x => xhrs'[y] = xhrs[y]
         /\ xhrs'[x] = [value |-> xhrs[x].value, status |-> answer]
<1>1. xhrs \in Seq(Requests)
  BY DEF SentInv
<1>2. xhrs[x] \in Requests
  BY <1>1
<1> DEFINE new == [xhrs[x] EXCEPT !.status = answer]
<1>3. new = [value |-> xhrs[x].value, status |-> answer] /\ new \in Requests
      /\ new.value = xhrs[x].value
  BY <1>2 DEF Requests
<1>4. xhrs' = [xhrs EXCEPT ![x] = new]
  OBVIOUS
<1> HIDE DEF new
<1>5. /\ xhrs' \in Seq(Requests) /\ Len(xhrs') = Len(xhrs)
      /\ \A y \in 1 .. Len(xhrs) : y # x => xhrs'[y] = xhrs[y]
      /\ xhrs'[x] = new
  BY <1>1, <1>3, <1>4
<1>6. \A y \in 1 .. Len(xhrs) : /\ xhrs'[y].value = xhrs[y].value
                                /\ xhrs[y].status # "asked" => xhrs'[y] = xhrs[y]
  BY <1>3, <1>5
<1>7. Later(xhrs')
  BY <1>1, <1>5, <1>6 DEF Later
<1> QED
  BY <1>3, <1>5, <1>7

\* An answer makes a waiting form go out only if it is about the form's value.
LEMMA AnsweredForm ==
  ASSUME SentInv, NEW x \in 1 .. Len(xhrs), NEW answer \in {"ok", "bad"},
         xhrs[x].status = "asked", xhrs' = [xhrs EXCEPT ![x].status = answer],
         NEW i \in 1 .. Len(forms), NEW r \in runs, r.xhr = x, r.form = i,
         NEW res
  PROVE  LET form == Form!AfterAnswer(forms[i], Form!Resolved(answer, res))
         IN  form \in Submissions /\ form.values = forms[i].values /\ FormRight(form, xhrs')
<1> DEFINE form == Form!AfterAnswer(forms[i], Form!Resolved(answer, res))
<1>1. forms[i] \in Submissions /\ xhrs \in Seq(Requests)
  BY DEF SentInv
<1>2. FormRight(forms[i], xhrs) /\ RunRight(r, xhrs, forms)
  BY DEF SentInv, FormsRight, RunsRight
<1>3. Later(xhrs') /\ xhrs'[x] = [value |-> xhrs[x].value, status |-> answer]
      /\ Len(xhrs') = Len(xhrs)
  BY AnswerLater
<1>4. xhrs[x].value = forms[i].values[FormRemoteField]
  BY <1>2 DEF RunRight
<1>5. CASE forms[i].state = "waiting" /\ Form!Resolved(answer, res) /\ formOk
  <2>1. form = [forms[i] EXCEPT !.state = "sent"]
    BY <1>5 DEF Form!AfterAnswer
  <2>2. form \in Submissions /\ form.values = forms[i].values /\ form.state = "sent"
    BY <1>1, <2>1 DEF Submissions
  <2>3. Accepted(forms[i].values, xhrs')
    <3>1. \A f \in FormFields : Form!Failing(f, forms[i].values[f]) = {}
      BY <1>2, <1>5 DEF FormRight
    <3>2. xhrs'[x] = [value |-> forms[i].values[FormRemoteField], status |-> "ok"]
      BY <1>3, <1>4, <1>5 DEF Form!Resolved
    <3> QED
      BY <1>3, <3>1, <3>2 DEF Accepted, Form!Asks
  <2> HIDE DEF form
  <2> QED
    BY <2>2, <2>3 DEF FormRight, form
<1>6. CASE forms[i].state \in {"waiting", "asking"}
           /\ ~(forms[i].state = "waiting" /\ Form!Resolved(answer, res) /\ formOk)
  <2>1. form = [forms[i] EXCEPT !.state = "refused"]
    BY <1>6 DEF Form!AfterAnswer
  <2>2. form \in Submissions /\ form.values = forms[i].values /\ form.state = "refused"
    BY <1>1, <2>1 DEF Submissions
  <2> QED
    BY <2>2 DEF FormRight
<1>7. CASE forms[i].state \notin {"waiting", "asking"}
  <2>1. form = forms[i]
    BY <1>7 DEF Form!AfterAnswer
  <2> QED
    BY <1>1, <1>2, <1>3, <2>1, FormStays
<1> QED
  BY <1>5, <1>6, <1>7

LEMMA AnswerStep ==
  ASSUME SentInv, NEW x \in DOMAIN xhrs, NEW answer \in {"ok", "bad"}, Form!Answer(x, answer)
  PROVE  SentInv'
<1> DEFINE settled == { r \in runs : r.xhr = x }
           told == { r.form : r \in { q \in settled : ~q.quiet } }
           res == IF answer = "bad" /\ settled # {}
                  THEN [result EXCEPT ![FormRemoteField] = @ \cup {FormRemote}] ELSE result
           ok == Form!Resolved(answer, res[FormRemoteField])
<1>1. /\ xhrs[x].status = "asked" /\ xhrs' = [xhrs EXCEPT ![x].status = answer]
      /\ runs' = runs \ settled
      /\ forms' = [i \in DOMAIN forms |->
                     IF i \in told THEN Form!AfterAnswer(forms[i], ok) ELSE forms[i]]
      /\ cache' = Form!NoCache \/ cache' = cache
      /\ UNCHANGED value
  BY DEF Form!Answer
<1>2. /\ xhrs \in Seq(Requests) /\ forms \in Seq(Submissions) /\ CacheRight(cache, xhrs)
      /\ RunsRight /\ FormsRight
  BY DEF SentInv
<1>3. x \in 1 .. Len(xhrs) /\ DOMAIN forms = 1 .. Len(forms)
  BY <1>2
<1>4. /\ Later(xhrs') /\ Len(xhrs') = Len(xhrs)
      /\ \A y \in 1 .. Len(xhrs) : y # x => xhrs'[y] = xhrs[y]
  BY <1>1, <1>3, AnswerLater
<1> HIDE DEF res, ok
<1>5. ASSUME NEW i \in 1 .. Len(forms)
      PROVE  forms'[i] \in Submissions /\ forms'[i].values = forms[i].values
             /\ FormRight(forms'[i], xhrs')
  <2>1. CASE i \in told
    <3>1. PICK r \in settled : r.form = i
      BY <2>1
    <3>2. r \in runs /\ r.xhr = x
      OBVIOUS
    <3>3. forms'[i] = Form!AfterAnswer(forms[i], Form!Resolved(answer, res[FormRemoteField]))
      BY <1>1, <1>3, <2>1 DEF ok
    <3> HIDE DEF settled, told
    <3> DEFINE rest == res[FormRemoteField]
               form == Form!AfterAnswer(forms[i], Form!Resolved(answer, rest))
    <3>4. forms'[i] = form
      BY <3>3
    <3> HIDE DEF rest
    <3>5. form \in Submissions /\ form.values = forms[i].values /\ FormRight(form, xhrs')
      BY <1>1, <1>3, <3>1, <3>2, AnsweredForm
    <3> QED
      BY <3>4, <3>5
  <2>2. CASE i \notin told
    <3>1. forms'[i] = forms[i]
      BY <1>1, <1>3, <2>2
    <3> QED
      BY <1>2, <1>4, <3>1, FormStays DEF FormsRight
  <2> QED
    BY <2>1, <2>2
<1>6. forms' \in Seq(Submissions) /\ Len(forms') = Len(forms)
  BY <1>1, <1>2, <1>3, <1>5
<1>7. Longer(forms')
  BY <1>2, <1>5, <1>6 DEF Longer
<1>8. FormsRight'
  BY <1>5, <1>6 DEF FormsRight
<1>9. ASSUME NEW r \in runs' PROVE RunRight(r, xhrs', forms')
  <2>1. r \in runs /\ r.xhr # x
    BY <1>1
  <2>2. RunRight(r, xhrs, forms)
    BY <1>2, <2>1 DEF RunsRight
  <2>3. xhrs'[r.xhr] = xhrs[r.xhr]
    BY <1>4, <2>1, <2>2 DEF RunRight
  <2> QED
    BY <1>2, <1>4, <1>7, <2>2, <2>3, RunStays
<1>10. CacheRight(cache', xhrs')
  <2>1. CacheRight(Form!NoCache, xhrs')
    BY DEF CacheRight, Form!NoCache
  <2>2. CacheRight(cache, xhrs')
    BY <1>2, <1>4 DEF CacheRight, Later
  <2> QED
    BY <1>1, <2>1, <2>2
<1>11. value' \in Contents /\ xhrs' \in Seq(Requests) /\ RunsRight'
  BY <1>1, <1>4, <1>9 DEF SentInv, Later, RunsRight
<1> QED
  BY <1>6, <1>8, <1>10, <1>11 DEF SentInv

LEMMA SentInit == Form!Init => SentInv
<1> SUFFICES ASSUME Form!Init PROVE SentInv
  OBVIOUS
<1>1. /\ value \in FormFills /\ xhrs = <<>> /\ runs = {} /\ forms = <<>>
      /\ cache = Form!NoCache
  BY DEF Form!Init
<1>2. value \in Contents
  BY <1>1, FormAssumption DEF Contents
<1>3. <<>> \in Seq(Requests) /\ <<>> \in Seq(Submissions)
  OBVIOUS
<1>4. CacheRight(cache, xhrs)
  BY <1>1 DEF CacheRight, Form!NoCache
<1> QED
  BY <1>1, <1>2, <1>3, <1>4 DEF SentInv, RunsRight, FormsRight

LEMMA SentNext == SentInv /\ [Form!Next]_(Form!vars) => SentInv'
<1> SUFFICES ASSUME SentInv, [Form!Next]_(Form!vars) PROVE SentInv'
  OBVIOUS
<1>1. ASSUME Form!Reset PROVE SentInv'
  BY <1>1, QuietStep DEF Form!Reset, SentInv
<1>2. ASSUME UNCHANGED Form!vars PROVE SentInv'
  BY <1>2, QuietStep DEF Form!vars, SentInv
<1> QED
  BY <1>1, <1>2, TypeStep, LeaveStep, FillStep, SubmitStep, PressStep, AnswerStep DEF Form!Next

LEMMA SentChecked == ASSUME SentInv PROVE Form!SentWasChecked
<1>1. /\ xhrs \in Seq(Requests) /\ forms \in Seq(Submissions) /\ FormsRight
  BY DEF SentInv
<1>2. DOMAIN forms = 1 .. Len(forms) /\ DOMAIN xhrs = 1 .. Len(xhrs)
  BY <1>1
<1> QED
  BY <1>1, <1>2 DEF Form!SentWasChecked, FormsRight, FormRight, Accepted

(***************************************************************************)
(* The errors a field shows.                                               *)
(***************************************************************************)

Marks == {"success", "error", "none"}
Sources == {"filled", "typed", "left"}
AliasRight == aliased => /\ lastResult[FormRemoteField] = result[FormRemoteField]
                         /\ result[FormRemoteField] # {}
\* The results a field compares with the next ones, `stored`: it lists errors of
\* those only, all of them unless it has the remote check.
StoredRight(stored) ==
  \A f \in FormFields : /\ stored[f] \subseteq Form!CheckNames(f)
                        /\ shown[f] \subseteq stored[f]
                        /\ class[f] = "error" <=> stored[f] # {}
                        /\ f # FormRemoteField => shown[f] = stored[f]
ErrorsInv ==
  /\ IsTable(result) /\ IsTable(lastResult)
  /\ origin \in [FormFields -> Sources] /\ class \in [FormFields -> Marks]
  /\ \A f \in FormFields : result[f] \subseteq Form!CheckNames(f)
  /\ StoredRight(lastResult) /\ AliasRight
  /\ failedOnce \subseteq FormFields /\ formOk \in BOOLEAN /\ aliased \in BOOLEAN
  /\ Form!ErrorsFollowTyping

LEMMA FailingNames ==
  ASSUME NEW f, NEW v
  PROVE  Form!Failing(f, v) \subseteq Form!CheckNames(f)
BY DEF Form!Failing, Form!TopGroup, Form!CheckNames

\* The fields in D store what was found wrong with them and list no other errors;
\* the rest list what they listed.
ShownAfter(D, stored) ==
  /\ class' \in [FormFields -> Marks] /\ IsTable(lastResult')
  /\ \A f \in D : /\ lastResult'[f] = result'[f] /\ shown'[f] \subseteq result'[f]
                  /\ f # FormRemoteField => shown'[f] = result'[f]
                  /\ class'[f] = "error" <=> result'[f] # {}
  /\ \A f \in FormFields \ D : /\ lastResult'[f] = stored[f]
                               /\ shown'[f] = shown[f] /\ class'[f] = class[f]
  /\ failedOnce' \subseteq failedOnce \cup D

LEMMA ReflowShows ==
  ASSUME ErrorsInv, NEW D \in SUBSET FormFields, NEW stored, StoredRight(stored), NEW res, NEW vals,
         result' = res, Form!Reflow(D, stored, res, vals)
  PROVE  ShownAfter(D, stored)
<1>1. ASSUME NEW f \in FormFields
      PROVE  /\ Form!ErrorsAfter(shown[f], stored[f], res[f]) \subseteq res[f]
             /\ f # FormRemoteField => Form!ErrorsAfter(shown[f], stored[f], res[f]) = res[f]
  BY DEF StoredRight, Form!ErrorsAfter, Form!DiffResults
<1>2. \A f \in FormFields : /\ Form!ClassAfter(f, res[f], vals[f]) \in Marks
                            /\ Form!ClassAfter(f, res[f], vals[f]) = "error" <=> res[f] # {}
  BY DEF Form!ClassAfter, Marks
<1>3. /\ lastResult' = [f \in FormFields |-> IF f \in D THEN res[f] ELSE stored[f]]
      /\ shown' = [f \in FormFields |->
                     IF f \in D THEN Form!ErrorsAfter(shown[f], stored[f], res[f]) ELSE shown[f]]
      /\ class' = [f \in FormFields |-> IF f \in D THEN Form!ClassAfter(f, res[f], vals[f])
                                        ELSE class[f]]
      /\ failedOnce' = failedOnce \cup {f \in D : res[f] # {}}
  BY DEF Form!Reflow
<1>4. \A f \in FormFields : class[f] \in Marks
  BY DEF ErrorsInv
<1>5. class' \in [FormFields -> Marks]
  BY <1>2, <1>3, <1>4
<1>6. IsTable(lastResult')
  BY <1>3 DEF IsTable
<1> QED
  BY <1>1, <1>2, <1>3, <1>5, <1>6 DEF ShownAfter

LEMMA QuietShows ==
  ASSUME ErrorsInv, UNCHANGED Form!ui
  PROVE  ShownAfter({}, lastResult)
BY DEF ErrorsInv, ShownAfter, Form!ui

LEMMA ErrorsStep ==
  ASSUME ErrorsInv, NEW D \in SUBSET FormFields, NEW stored, StoredRight(stored),
         ShownAfter(D, stored),
         IsTable(result'), aliased' \in BOOLEAN, AliasRight',
         \A f \in FormFields : result'[f] \subseteq Form!CheckNames(f),
         origin' \in [FormFields -> Sources], formOk' \in BOOLEAN,
         \A f \in D \ {FormRemoteField} : result'[f] = Form!Failing(f, value'[f]),
         \A f \in FormFields \ (D \cup {FormRemoteField}) :
           \/ f \notin failedOnce
           \/ origin'[f] = "filled"
           \/ value'[f] = value[f] /\ origin[f] # "filled"
  PROVE  ErrorsInv'
<1>1. ASSUME NEW f \in failedOnce' \ {FormRemoteField}, origin'[f] # "filled"
      PROVE  shown'[f] = Form!Failing(f, value'[f])
  <2>1. f \in FormFields
    BY DEF ErrorsInv, ShownAfter
  <2>2. CASE f \in D
    BY <1>1, <2>2 DEF ShownAfter
  <2>3. CASE f \notin D
    <3>1. f \in failedOnce /\ shown'[f] = shown[f]
      BY <2>1, <2>3 DEF ShownAfter
    <3>2. value'[f] = value[f] /\ origin[f] # "filled"
      BY <1>1, <2>1, <2>3, <3>1
    <3> QED
      BY <3>1, <3>2 DEF ErrorsInv, Form!ErrorsFollowTyping
  <2> QED
    BY <2>2, <2>3
<1>2. Form!ErrorsFollowTyping'
  BY <1>1 DEF Form!ErrorsFollowTyping
<1>3. class' \in [FormFields -> Marks] /\ failedOnce' \subseteq FormFields /\ IsTable(lastResult')
  BY DEF ErrorsInv, ShownAfter
<1>4. StoredRight(lastResult)'
  BY DEF StoredRight, ShownAfter, Form!CheckNames
<1> QED
  BY <1>2, <1>3, <1>4 DEF ErrorsInv, Form!CheckNames

\* What a validation finds is a check of the field.
LEMMA FoundNames ==
  ASSUME ErrorsInv, NEW S \in SUBSET FormFields, NEW vals, NEW known, NEW f \in FormFields
  PROVE  Form!Validation(S, vals, known).result[f] \subseteq Form!CheckNames(f)
<1>1. result[f] \subseteq Form!CheckNames(f) /\ Form!Failing(f, vals[f]) \subseteq Form!CheckNames(f)
  BY FailingNames DEF ErrorsInv
<1>2. f = FormRemoteField => FormRemote \in Form!CheckNames(f)
  BY DEF Form!CheckNames
<1>3. Form!Validation(S, vals, known).result[f]
        \subseteq result[f] \cup Form!Failing(f, vals[f])
                 \cup (IF f = FormRemoteField THEN {FormRemote} ELSE {})
  BY DEF Form!Validation
<1> QED
  BY <1>1, <1>2, <1>3

\* Without a remote check, that is what fails.
LEMMA FoundFailing ==
  ASSUME NEW S \in SUBSET FormFields, NEW vals, NEW known, NEW f \in S \ {FormRemoteField}
  PROVE  Form!Validation(S, vals, known).result[f] = Form!Failing(f, vals[f])
BY DEF Form!Validation

\* A validation that waits has found nothing yet.
LEMMA WaitingFound ==
  ASSUME NEW S \in SUBSET FormFields, NEW vals, NEW known,
         Form!Validation(S, vals, known).waits
  PROVE  Form!Validation(S, vals, known).result[FormRemoteField] = {}
BY FormAssumption DEF Form!Validation, Form!Asks

\* Begin of a validation of S: the fields show what it found at once, but the
\* one that waits for its answer.
LEMMA BeginErrors ==
  ASSUME SentInv, ErrorsInv, NEW S \in SUBSET FormFields, NEW vals \in Contents, NEW known,
         CacheRight(known, xhrs), NEW val, val = Form!Validation(S, vals, known),
         result' = val.result,
         Form!Reflow(S \ (IF val.waits THEN {FormRemoteField} ELSE {}), lastResult, val.result, vals),
         origin' \in [FormFields -> Sources], formOk' \in BOOLEAN, aliased' \in BOOLEAN,
         aliased' => IF FormRemoteField \in S THEN Form!StoresArray(result') ELSE aliased,
         \A f \in S : value'[f] = vals[f],
         \A f \in FormFields \ S : \/ f \notin failedOnce
                                   \/ origin'[f] = "filled"
                                   \/ value'[f] = value[f] /\ origin[f] # "filled"
  PROVE  ErrorsInv'
<1>1. /\ IsTable(val.result)
      /\ \A f \in S \ {FormRemoteField} : val.result[f] = Form!Failing(f, vals[f])
  <2>1. val = Form!Validation(S, vals, known) /\ CacheRight(known, xhrs)
    OBVIOUS
  <2>2. IsTable(val.result)
    BY ONLY <2>1, SentInv, S \in SUBSET FormFields, vals \in Contents, Validates
  <2>3. \A f \in S \ {FormRemoteField} : val.result[f] = Form!Failing(f, vals[f])
    BY <2>1, FoundFailing
  <2> QED
    BY <2>2, <2>3
<1> DEFINE D == S \ (IF val.waits THEN {FormRemoteField} ELSE {})
<1>2. D \in SUBSET FormFields /\ D \subseteq S /\ S \subseteq D \cup {FormRemoteField}
  OBVIOUS
<1>3. /\ Form!Reflow(D, lastResult, val.result, vals)
      /\ FormRemoteField \in D <=> FormRemoteField \in S /\ ~val.waits
  OBVIOUS
<1> HIDE DEF D
<1>9. StoredRight(lastResult)
  BY DEF ErrorsInv
<1>4. ShownAfter(D, lastResult)
  BY <1>2, <1>3, <1>9, ReflowShows
<1>10. AliasRight'
  <2> SUFFICES ASSUME aliased'
               PROVE  /\ lastResult'[FormRemoteField] = result'[FormRemoteField]
                      /\ result'[FormRemoteField] # {}
    BY DEF AliasRight
  <2>1. CASE FormRemoteField \in S
    <3>1. result'[FormRemoteField] # {}
      BY <2>1 DEF Form!StoresArray
    <3>2. ~val.waits
      BY <3>1, WaitingFound
    <3> QED
      BY <1>3, <1>4, <2>1, <3>1, <3>2 DEF ShownAfter
  <2>2. CASE FormRemoteField \notin S
    <3>1. aliased
      BY <2>2
    <3>2. result'[FormRemoteField] = result[FormRemoteField]
      BY <2>2, FormAssumption DEF Form!Validation
    <3> QED
      BY <1>3, <1>4, <2>2, <3>1, <3>2, FormAssumption DEF ShownAfter, ErrorsInv, AliasRight
  <2> QED
    BY <2>1, <2>2
<1>5. \A f \in FormFields : result'[f] \subseteq Form!CheckNames(f)
  BY FoundNames
<1>6. \A f \in D \ {FormRemoteField} : result'[f] = Form!Failing(f, value'[f])
  BY <1>1, <1>2
<1>7. IsTable(result')
  BY <1>1
<1>8. \A f \in FormFields \ (D \cup {FormRemoteField}) :
           \/ f \notin failedOnce
           \/ origin'[f] = "filled"
           \/ value'[f] = value[f] /\ origin[f] # "filled"
  BY <1>2
<1> QED
  BY <1>2, <1>4, <1>5, <1>6, <1>7, <1>8, <1>9, <1>10, ErrorsStep

\* A step that validates nothing.
LEMMA QuietErrors ==
  ASSUME ErrorsInv, UNCHANGED <<result, lastResult, aliased, shown, class, failedOnce, formOk>>,
         origin' \in [FormFields -> Sources],
         \A f \in FormFields \ {FormRemoteField} :
           \/ f \notin failedOnce
           \/ origin'[f] = "filled"
           \/ value'[f] = value[f] /\ origin[f] # "filled"
  PROVE  ErrorsInv'
<1>1. ShownAfter({}, lastResult)
  BY QuietShows DEF Form!ui
<1>2. StoredRight(lastResult) /\ AliasRight' /\ aliased' \in BOOLEAN
  BY DEF ErrorsInv, AliasRight
<1> QED
  BY <1>1, <1>2, ErrorsStep DEF ErrorsInv

LEMMA FieldErrors ==
  ASSUME SentInv, ErrorsInv, NEW f \in FormFields, NEW vals \in Contents,
         Form!ValidateField(f, vals), value'[f] = vals[f], UNCHANGED formOk,
         \A g \in FormFields \ {f} : value'[g] = value[g] /\ origin'[g] = origin[g],
         origin' \in [FormFields -> Sources]
  PROVE  ErrorsInv'
<1> DEFINE val == Form!Validation({f}, vals, cache)
<1>1. /\ result' = val.result
      /\ Form!Reflow({f} \ (IF val.waits THEN {FormRemoteField} ELSE {}), lastResult, val.result, vals)
      /\ aliased' = IF f = FormRemoteField THEN Form!StoresArray(result') ELSE aliased
  BY DEF Form!ValidateField, Form!Begin
<1>2. val = Form!Validation({f}, vals, cache) /\ {f} \in SUBSET FormFields
      /\ CacheRight(cache, xhrs) /\ formOk' \in BOOLEAN
  BY DEF SentInv, ErrorsInv
<1> HIDE DEF val
<1>3. \A g \in FormFields \ {f} : \/ g \notin failedOnce
                                  \/ origin'[g] = "filled"
                                  \/ value'[g] = value[g] /\ origin[g] # "filled"
  OBVIOUS
<1>4. /\ aliased' \in BOOLEAN
      /\ aliased' => IF FormRemoteField \in {f} THEN Form!StoresArray(result') ELSE aliased
  BY <1>1 DEF ErrorsInv, Form!StoresArray
<1> QED
  BY <1>1, <1>2, <1>3, <1>4, BeginErrors

LEMMA TypeErrors ==
  ASSUME SentInv, ErrorsInv, NEW f \in FormFields, NEW v \in FormValues[f], Form!Type(f, v)
  PROVE  ErrorsInv'
<1> DEFINE vals == [value EXCEPT ![f] = v]
<1>1. value' = vals /\ origin' = [origin EXCEPT ![f] = "typed"] /\ UNCHANGED formOk
  BY DEF Form!Type
<1>2. vals \in Contents
  BY DEF SentInv, Contents
<1>3. /\ origin' \in [FormFields -> Sources]
      /\ \A g \in FormFields \ {f} : value'[g] = value[g] /\ origin'[g] = origin[g]
  BY <1>1 DEF ErrorsInv, Sources, SentInv, Contents
<1>4. CASE Form!HearsInput(f)
  <2>1. Form!ValidateField(f, value')
    BY <1>4 DEF Form!Type
  <2>2. Form!ValidateField(f, vals) /\ value'[f] = vals[f]
    BY <1>1, <2>1
  <2> HIDE DEF vals
  <2> QED
    BY <1>1, <1>2, <1>3, <2>2, FieldErrors
<1>5. CASE ~Form!HearsInput(f)
  <2>1. f \notin failedOnce /\ UNCHANGED <<result, lastResult, aliased, shown, class, failedOnce>>
    BY <1>5 DEF Form!Type, Form!HearsInput, Form!ui
  <2> HIDE DEF vals
  <2> QED
    BY <1>1, <1>3, <2>1, QuietErrors
<1> QED
  BY <1>4, <1>5

LEMMA LeaveErrors ==
  ASSUME SentInv, ErrorsInv, NEW f \in FormFields, Form!Leave(f)
  PROVE  ErrorsInv'
<1>1. /\ origin[f] = "typed" /\ origin' = [origin EXCEPT ![f] = "left"]
      /\ UNCHANGED <<value, formOk>> /\ value \in Contents
  BY DEF Form!Leave, SentInv
<1>2. /\ origin' \in [FormFields -> Sources]
      /\ \A g \in FormFields \ {f} : value'[g] = value[g] /\ origin'[g] = origin[g]
  BY <1>1 DEF ErrorsInv, Sources
<1>3. CASE Form!HearsChange(f)
  BY <1>1, <1>2, <1>3, FieldErrors DEF Form!Leave
<1>4. CASE ~Form!HearsChange(f)
  <2>1. UNCHANGED <<result, lastResult, aliased, shown, class, failedOnce>>
    BY <1>4 DEF Form!Leave, Form!ui
  <2> QED
    BY <1>1, <1>2, <2>1, QuietErrors
<1> QED
  BY <1>3, <1>4

LEMMA FillErrors ==
  ASSUME ErrorsInv, NEW vals \in FormFills, Form!Fill(vals)
  PROVE  ErrorsInv'
<1>1. /\ origin' = [f \in FormFields |-> "filled"]
      /\ UNCHANGED <<result, lastResult, aliased, shown, class, failedOnce, formOk>>
  BY DEF Form!Fill, Form!ui
<1> QED
  BY <1>1, QuietErrors DEF Sources

LEMMA FormErrors ==
  ASSUME SentInv, ErrorsInv, NEW known, CacheRight(known, xhrs),
         NEW val, val = Form!Validation(FormFields, value, known),
         result' = val.result, UNCHANGED <<value, origin>>, formOk' \in BOOLEAN,
         Form!Reflow(FormFields \ (IF val.waits THEN {FormRemoteField} ELSE {}), lastResult,
                     val.result, value),
         aliased' \in BOOLEAN, aliased' => Form!StoresArray(result')
  PROVE  ErrorsInv'
<1>1. /\ value \in Contents /\ origin' \in [FormFields -> Sources] /\ FormFields \in SUBSET FormFields
      /\ aliased' => IF FormRemoteField \in FormFields THEN Form!StoresArray(result') ELSE aliased
  BY FormAssumption DEF SentInv, ErrorsInv
<1> QED
  BY <1>1, BeginErrors

LEMMA SubmitErrors == ASSUME SentInv, ErrorsInv, Form!Submit PROVE ErrorsInv'
<1> DEFINE val == Form!Validation(FormFields, value, Form!NoCache)
<1>1. /\ UNCHANGED <<value, origin>> /\ result' = val.result /\ formOk' = ~Form!Invalid(val)
      /\ Form!Reflow(FormFields \ (IF val.waits THEN {FormRemoteField} ELSE {}), lastResult,
                     val.result, value)
      /\ aliased' = Form!StoresArray(result')
  BY DEF Form!Submit, Form!Begin
<1>2. val = Form!Validation(FormFields, value, Form!NoCache) /\ formOk' \in BOOLEAN
      /\ aliased' \in BOOLEAN /\ (aliased' => Form!StoresArray(result'))
  BY <1>1 DEF Form!Invalid, Form!StoresArray
<1>3. CacheRight(Form!NoCache, xhrs)
  BY DEF CacheRight, Form!NoCache
<1> HIDE DEF val
<1> QED
  BY <1>1, <1>2, <1>3, FormErrors

LEMMA PressErrors == ASSUME SentInv, ErrorsInv, Form!Press PROVE ErrorsInv'
<1> DEFINE val == Form!Validation(FormFields, value, cache)
<1>1. /\ UNCHANGED <<value, origin>> /\ result' = val.result /\ formOk' = ~Form!Invalid(val)
      /\ Form!Reflow(FormFields \ (IF val.waits THEN {FormRemoteField} ELSE {}), lastResult,
                     val.result, value)
      /\ aliased' = FALSE
  BY DEF Form!Press, Form!Begin
<1>2. val = Form!Validation(FormFields, value, cache) /\ formOk' \in BOOLEAN
      /\ aliased' \in BOOLEAN /\ (aliased' => Form!StoresArray(result'))
  BY <1>1 DEF Form!Invalid, Form!StoresArray
<1>3. CacheRight(cache, xhrs)
  BY DEF SentInv
<1> HIDE DEF val
<1> QED
  BY <1>1, <1>2, <1>3, FormErrors

LEMMA AnswerErrors ==
  ASSUME ErrorsInv, NEW x \in DOMAIN xhrs, NEW answer \in {"ok", "bad"}, Form!Answer(x, answer)
  PROVE  ErrorsInv'
<1> DEFINE settled == { r \in runs : r.xhr = x }
           told == { r.form : r \in { q \in settled : ~q.quiet } }
           D == IF told = {} THEN {} ELSE {FormRemoteField}
           stored == IF aliased
                     THEN [lastResult EXCEPT ![FormRemoteField] = result'[FormRemoteField]]
                     ELSE lastResult
<1>1. /\ \/ result' = result
         \/ result' = [result EXCEPT ![FormRemoteField] = @ \cup {FormRemote}]
      /\ Form!Reflow(D, stored, result', value) /\ formOk' \in BOOLEAN
      /\ aliased' = ((aliased \/ told # {}) /\ Form!StoresArray(result'))
      /\ UNCHANGED <<value, origin>>
  BY DEF Form!Answer
<1>2. /\ D \in SUBSET FormFields /\ D \subseteq {FormRemoteField}
      /\ FormRemoteField \in D <=> told # {}
  BY FormAssumption
<1>3. FormRemote \in Form!CheckNames(FormRemoteField)
  BY DEF Form!CheckNames
<1>4. /\ IsTable(result')
      /\ \A f \in FormFields : /\ result'[f] \subseteq Form!CheckNames(f)
                               /\ result[f] \subseteq result'[f]
  <2>1. CASE result' = result
    BY <2>1 DEF ErrorsInv
  <2>2. CASE result' = [result EXCEPT ![FormRemoteField] = @ \cup {FormRemote}]
    BY <1>3, <2>2, FormAssumption DEF ErrorsInv, IsTable
  <2> QED
    BY <1>1, <2>1, <2>2
<1>5. /\ \A f \in FormFields : f # FormRemoteField => stored[f] = lastResult[f]
      /\ ~aliased => stored = lastResult
  OBVIOUS
<1>6. aliased => stored[FormRemoteField] = result'[FormRemoteField]
  BY FormAssumption DEF ErrorsInv, IsTable
<1> HIDE DEF settled, told, D, stored
<1>7. StoredRight(stored)
  BY <1>4, <1>5, <1>6, FormAssumption DEF StoredRight, ErrorsInv, AliasRight
<1>8. ShownAfter(D, stored)
  BY <1>1, <1>2, <1>7, ReflowShows
<1>9. aliased' \in BOOLEAN /\ AliasRight'
  BY <1>1, <1>2, <1>6, <1>8, FormAssumption DEF AliasRight, ShownAfter, Form!StoresArray
<1>10. /\ origin' \in [FormFields -> Sources] /\ formOk' \in BOOLEAN
       /\ \A f \in D \ {FormRemoteField} : result'[f] = Form!Failing(f, value'[f])
       /\ \A f \in FormFields \ (D \cup {FormRemoteField}) :
            origin'[f] = "filled" \/ (value'[f] = value[f] /\ origin[f] # "filled")
  BY <1>1, <1>2 DEF ErrorsInv
<1>11. \A f \in FormFields : result'[f] \subseteq Form!CheckNames(f)
  BY <1>4
<1> QED
  BY <1>2, <1>4, <1>7, <1>8, <1>9, <1>10, <1>11, ErrorsStep

LEMMA ResetErrors == ASSUME ErrorsInv, Form!Reset PROVE ErrorsInv'
BY DEF IsTable, ErrorsInv, StoredRight, AliasRight, Form!Reset, Form!ErrorsFollowTyping,
       Marks, Form!CheckNames

LEMMA ErrorsInit == Form!Init => ErrorsInv
<1> SUFFICES ASSUME Form!Init PROVE ErrorsInv
  OBVIOUS
<1>1. /\ origin = [f \in FormFields |-> "filled"]
      /\ result = [f \in FormFields |-> {}] /\ lastResult = [f \in FormFields |-> {}]
      /\ shown = [f \in FormFields |-> {}] /\ class = [f \in FormFields |-> "none"]
      /\ failedOnce = {} /\ aliased = FALSE /\ formOk = TRUE
  BY DEF Form!Init
<1>2. IsTable(result) /\ IsTable(lastResult)
  BY <1>1 DEF IsTable
<1>3. StoredRight(lastResult) /\ AliasRight
  BY <1>1, FormAssumption DEF StoredRight, AliasRight
<1> QED
  BY <1>1, <1>2, <1>3 DEF ErrorsInv, Form!ErrorsFollowTyping, Marks, Sources

LEMMA ErrorsNext == SentInv /\ ErrorsInv /\ [Form!Next]_(Form!vars) => ErrorsInv'
<1> SUFFICES ASSUME SentInv, ErrorsInv, [Form!Next]_(Form!vars) PROVE ErrorsInv'
  OBVIOUS
<1>1. ASSUME UNCHANGED Form!vars PROVE ErrorsInv'
  BY <1>1 DEF Form!vars, ErrorsInv, StoredRight, AliasRight, Form!ErrorsFollowTyping, Form!CheckNames
<1> QED
  BY <1>1, TypeErrors, LeaveErrors, FillErrors, SubmitErrors, PressErrors, AnswerErrors,
     ResetErrors DEF Form!Next

LEMMA FormTypes == ASSUME SentInv, ErrorsInv PROVE Form!TypeOK
<1>0. value \in Contents /\ xhrs \in Seq(Requests)
  BY DEF SentInv
<1>1. \A f \in FormFields : value[f] \in FormValues[f]
  BY <1>0 DEF Contents
<1>4. \A x \in DOMAIN xhrs : /\ xhrs[x].value \in Form!Asked
                            /\ xhrs[x].status \in {"asked", "ok", "bad"}
  <2> SUFFICES ASSUME NEW x \in DOMAIN xhrs
               PROVE  xhrs[x].value \in Form!Asked /\ xhrs[x].status \in {"asked", "ok", "bad"}
    OBVIOUS
  <2>1. xhrs[x] \in Requests
    BY <1>0
  <2> QED
    BY <2>1 DEF Requests
<1>2. cache \in [Form!Asked -> 0 .. Len(xhrs)]
  BY DEF SentInv, CacheRight
<1>3. \A r \in runs : xhrs[r.xhr].status = "asked" /\ r.form \in 0 .. Len(forms)
  BY DEF SentInv, RunsRight, RunRight
<1> QED
  BY <1>1, <1>2, <1>3, <1>4 DEF Form!TypeOK, ErrorsInv, StoredRight, Marks, Sources

(***************************************************************************)
(* The checks of a field: the list and the map.                            *)
(***************************************************************************)

\* The list and the map of a field, as one value.
FieldValues == [list : Seq(FieldConstraints), map : [FieldNames -> FieldConstraints \cup {Nil}]]
Lists(f, n) == \E k \in 1 .. Len(f.list) : f.list[k].name = n
Agree(f) ==
  /\ f \in FieldValues
  /\ \A k, j \in 1 .. Len(f.list) : f.list[k].name = f.list[j].name => k = j
  /\ \A k \in 1 .. Len(f.list) : f.map[f.list[k].name] = f.list[k]
  /\ \A n \in FieldNames : f.map[n] # Nil => Lists(f, n)

LEMMA ListTyped ==
  ASSUME NEW f, f \in FieldValues
  PROVE  /\ f.list \in Seq(FieldConstraints) /\ Len(f.list) \in Nat
         /\ DOMAIN f.list = 1 .. Len(f.list)
         /\ f.map \in [FieldNames -> FieldConstraints \cup {Nil}]
         /\ \A k \in 1 .. Len(f.list) : /\ f.list[k] \in FieldConstraints
                                        /\ f.list[k].name \in FieldNames
                                        /\ f.list[k].version \in FieldVersions
                                        /\ f.list[k].dom \in BOOLEAN
                                        /\ f.list[k] # Nil
<1>1. f.list \in Seq(FieldConstraints) /\ f.map \in [FieldNames -> FieldConstraints \cup {Nil}]
  BY DEF FieldValues
<1>2. \A k \in 1 .. Len(f.list) : f.list[k] \in FieldConstraints
  BY <1>1
<1>3. \A c \in FieldConstraints : /\ c.name \in FieldNames /\ c.version \in FieldVersions
                                  /\ c.dom \in BOOLEAN /\ c # Nil
  BY FieldAssumption DEF FieldConstraints
<1> QED
  BY <1>1, <1>2, <1>3

LEMMA WithoutAgrees ==
  ASSUME NEW f, Agree(f), NEW n \in FieldNames, NEW g, g = Field!Without(f, n)
  PROVE  Agree(g) /\ ~Lists(g, n) /\ g.map = [f.map EXCEPT ![n] = Nil]
<1> DEFINE At == { k \in DOMAIN f.list : f.list[k].name = n }
           p == CHOOSE k \in At : \A j \in At : k <= j
<1>1. f \in FieldValues
  BY DEF Agree
<1>2. /\ f.list \in Seq(FieldConstraints) /\ Len(f.list) \in Nat
      /\ DOMAIN f.list = 1 .. Len(f.list)
      /\ f.map \in [FieldNames -> FieldConstraints \cup {Nil}]
      /\ \A k \in 1 .. Len(f.list) : f.list[k].name \in FieldNames
  BY <1>1, ListTyped
<1>3. g = [list |-> IF At = {} THEN f.list ELSE Field!RemoveAt(f.list, p),
           map |-> [f.map EXCEPT ![n] = Nil]]
  BY DEF Field!Without
<1>4. g.map = [f.map EXCEPT ![n] = Nil] /\ g.map \in [FieldNames -> FieldConstraints \cup {Nil}]
  <2>1. g.map = [f.map EXCEPT ![n] = Nil]
    BY <1>3
  <2> QED BY <2>1, <1>2
<1>5. \A m \in FieldNames : m # n => g.map[m] = f.map[m]
  BY <1>4, <1>2
<1>6. g.map[n] = Nil
  BY <1>4, <1>2
<1>7. CASE At = {}
  <2>1. g.list = f.list
    BY <1>3, <1>7
  <2>2. \A k \in 1 .. Len(f.list) : f.list[k].name # n
    BY <1>2, <1>7
  <2>3. g \in FieldValues
    BY <2>1, <1>2, <1>3, <1>4 DEF FieldValues
  <2> QED BY <1>2, <1>4, <1>5, <1>6, <2>1, <2>2, <2>3 DEF Agree, Lists
<1>8. CASE At # {}
  <2>1. PICK q \in At : TRUE
    BY <1>8
  <2>2. \A j \in At : j = q
    BY <2>1, <1>2 DEF Agree
  <2>3. q \in Nat
    BY <2>1, <1>2
  <2>4. p = q
    <3>1. \A j \in At : q <= j
      BY <2>2, <2>3
    <3>2. \E k \in At : \A j \in At : k <= j
      BY <2>1, <3>1
    <3>3. p \in At
      BY <3>2
    <3> QED BY <3>3, <2>2
  <2>5. q \in 1 .. Len(f.list) /\ f.list[q].name = n
    BY <2>1, <1>2
  <2>6. g.list = Field!RemoveAt(f.list, q)
    <3>1. g.list = IF At = {} THEN f.list ELSE Field!RemoveAt(f.list, p)
      BY <1>3
    <3> HIDE DEF At, p
    <3> QED BY <3>1, <1>8, <2>4
  <2>7. /\ g.list \in Seq(FieldConstraints) /\ Len(g.list) = Len(f.list) - 1
        /\ \A i \in 1 .. Len(g.list) : g.list[i] = IF i < q THEN f.list[i] ELSE f.list[i + 1]
    <3> DEFINE r == g.list
               s == f.list
    <3>1. r = Cut(s, q)
      BY <2>6 DEF Field!RemoveAt, Cut
    <3>2. s \in Seq(FieldConstraints) /\ q \in 1 .. Len(s)
      BY <1>2, <2>5
    <3> HIDE DEF r, s
    <3>3. /\ r \in Seq(FieldConstraints) /\ Len(r) = Len(s) - 1
          /\ \A i \in 1 .. Len(r) : r[i] = IF i < q THEN s[i] ELSE s[i + 1]
      BY <3>1, <3>2, Removed
    <3> QED BY <3>3 DEF r, s
  <2> DEFINE at(i) == IF i < q THEN i ELSE i + 1
  <2>8. \A i \in 1 .. Len(g.list) : /\ at(i) \in 1 .. Len(f.list) /\ at(i) # q
                                    /\ g.list[i] = f.list[at(i)]
    BY <2>7, <2>5, <1>2
  <2>9. \A i, j \in 1 .. Len(g.list) : at(i) = at(j) => i = j
    BY <2>3
  <2>10. g \in FieldValues
    BY <2>7, <1>3, <1>4 DEF FieldValues
  <2>11. \A k \in 1 .. Len(f.list) : k # q => \E i \in 1 .. Len(g.list) : at(i) = k
    <3> TAKE k \in 1 .. Len(f.list)
    <3>1. CASE k < q
      <4>1. k \in 1 .. Len(g.list) /\ at(k) = k
        BY <3>1, <2>5, <2>7, <1>2
      <4> QED BY <4>1
    <3>2. CASE k > q
      <4>1. k - 1 \in 1 .. Len(g.list) /\ at(k - 1) = k
        BY <3>2, <2>5, <2>7, <1>2
      <4> QED BY <4>1
    <3> QED BY <3>1, <3>2, <2>3, <1>2
  <2> HIDE DEF at, At, p
  <2>12. \A k, j \in 1 .. Len(f.list) : f.list[k].name = f.list[j].name => k = j
    BY DEF Agree
  <2>13. \A i \in 1 .. Len(g.list) : g.list[i].name # n /\ g.list[i].name \in FieldNames
    BY <2>8, <2>12, <2>5, <1>2
  <2>14. \A i, j \in 1 .. Len(g.list) : g.list[i].name = g.list[j].name => i = j
    BY <2>8, <2>9, <2>12
  <2>15. \A i \in 1 .. Len(g.list) : g.map[g.list[i].name] = g.list[i]
    <3> TAKE i \in 1 .. Len(g.list)
    <3>1. g.map[g.list[i].name] = f.map[g.list[i].name]
      BY <2>13, <1>5
    <3>2. f.map[f.list[at(i)].name] = f.list[at(i)]
      BY <2>8 DEF Agree
    <3> QED BY <3>1, <3>2, <2>8
  <2>16. \A m \in FieldNames : g.map[m] # Nil => Lists(g, m)
    <3> SUFFICES ASSUME NEW m \in FieldNames, g.map[m] # Nil PROVE Lists(g, m)
      OBVIOUS
    <3>1. m # n /\ f.map[m] # Nil
      BY <1>5, <1>6
    <3>2. PICK k \in 1 .. Len(f.list) : f.list[k].name = m
      BY <3>1 DEF Agree, Lists
    <3>3. k # q
      BY <3>1, <3>2, <2>5
    <3>4. PICK i \in 1 .. Len(g.list) : at(i) = k
      BY <3>3, <2>11
    <3>5. g.list[i].name = m
      BY <3>2, <3>4, <2>8
    <3> QED BY <3>5 DEF Lists
  <2> QED BY <1>4, <2>10, <2>13, <2>14, <2>15, <2>16 DEF Agree, Lists
<1> QED BY <1>7, <1>8

\* A constraint of a new name, at the end of the list and in the map.
Adds(g, f, c) == \A m \in FieldNames : g.map[m] = IF m = c.name THEN c ELSE f.map[m]

LEMMA AppendAgrees ==
  ASSUME NEW f, Agree(f), NEW c \in FieldConstraints, ~Lists(f, c.name), NEW g,
         g = Field!Keep(f, c)
  PROVE  Agree(g) /\ Adds(g, f, c)
<1>1. f \in FieldValues
  BY DEF Agree
<1>2. /\ f.list \in Seq(FieldConstraints) /\ Len(f.list) \in Nat
      /\ f.map \in [FieldNames -> FieldConstraints \cup {Nil}]
      /\ \A k \in 1 .. Len(f.list) : f.list[k].name \in FieldNames
  BY <1>1, ListTyped
<1>3. c.name \in FieldNames
  BY DEF FieldConstraints
<1>4. g.list = Append(f.list, c) /\ g.map = [f.map EXCEPT ![c.name] = c]
  BY DEF Field!Keep
<1>5. g.map \in [FieldNames -> FieldConstraints \cup {Nil}]
  BY <1>2, <1>4
<1>6. /\ g.list \in Seq(FieldConstraints) /\ Len(g.list) = Len(f.list) + 1
      /\ \A k \in 1 .. Len(f.list) : g.list[k] = f.list[k]
      /\ g.list[Len(f.list) + 1] = c
  BY <1>2, <1>4
<1>7. g \in FieldValues
  <2>1. g = [list |-> g.list, map |-> g.map]
    BY <1>4 DEF Field!Keep
  <2> QED BY <2>1, <1>5, <1>6 DEF FieldValues
<1>8. g.map[c.name] = c /\ \A m \in FieldNames : m # c.name => g.map[m] = f.map[m]
  BY <1>2, <1>3, <1>4
<1>9. \A k \in 1 .. Len(g.list) : k \in 1 .. Len(f.list) \/ k = Len(f.list) + 1
  BY <1>2, <1>6
<1>10. \A k \in 1 .. Len(f.list) : g.list[k].name # c.name
  BY <1>6 DEF Lists
<1>11. \A k, j \in 1 .. Len(g.list) : g.list[k].name = g.list[j].name => k = j
  BY <1>6, <1>9, <1>10 DEF Agree
<1>12. \A k \in 1 .. Len(g.list) : g.map[g.list[k].name] = g.list[k]
  <2> TAKE k \in 1 .. Len(g.list)
  <2>1. CASE k = Len(f.list) + 1
    BY <2>1, <1>6, <1>8
  <2>2. CASE k \in 1 .. Len(f.list)
    <3>1. g.list[k] = f.list[k] /\ f.list[k].name \in FieldNames /\ g.list[k].name # c.name
      BY <2>2, <1>2, <1>6, <1>10
    <3>2. g.map[g.list[k].name] = f.map[f.list[k].name]
      BY <3>1, <1>8
    <3>3. f.map[f.list[k].name] = f.list[k]
      BY <2>2 DEF Agree
    <3> QED BY <3>1, <3>2, <3>3
  <2> QED BY <2>1, <2>2, <1>9
<1>13. \A m \in FieldNames : g.map[m] # Nil => Lists(g, m)
  <2> SUFFICES ASSUME NEW m \in FieldNames, g.map[m] # Nil PROVE Lists(g, m)
    OBVIOUS
  <2>0. Len(f.list) + 1 \in 1 .. Len(g.list)
    BY <1>2, <1>6
  <2>1. CASE m = c.name
    BY <2>0, <2>1, <1>6 DEF Lists
  <2>2. CASE m # c.name
    <3>1. PICK k \in 1 .. Len(f.list) : f.list[k].name = m
      BY <2>2, <1>8 DEF Agree, Lists
    <3>2. k \in 1 .. Len(g.list) /\ g.list[k].name = m
      BY <3>1, <1>2, <1>6
    <3> QED BY <3>2 DEF Lists
  <2> QED BY <2>1, <2>2
<1> QED BY <1>7, <1>8, <1>11, <1>12, <1>13 DEF Agree, Adds

Registry == validators \in [FieldNames -> FieldVersions \cup {Nil}]

\* What addConstraint does to the map.
Puts(g, f, n, dom) ==
  \A m \in FieldNames : g.map[m] = IF m = n /\ validators[n] # Nil
                                   THEN Field!Constraint(n, dom) ELSE f.map[m]

LEMMA WithAgrees ==
  ASSUME Registry, NEW f, Agree(f), NEW n \in FieldNames, NEW dom \in BOOLEAN,
         NEW g, g = Field!With(f, n, dom)
  PROVE  Agree(g) /\ Puts(g, f, n, dom)
<1>1. CASE validators[n] = Nil
  BY <1>1 DEF Field!With, Puts
<1>2. CASE validators[n] # Nil
  <2> DEFINE r == Field!Without(f, n)
             c == Field!Constraint(n, dom)
  <2>1. Agree(r) /\ ~Lists(r, n) /\ r.map = [f.map EXCEPT ![n] = Nil]
    BY WithoutAgrees
  <2>2. c \in FieldConstraints /\ c.name = n
    BY <1>2 DEF Field!Constraint, FieldConstraints, Registry
  <2>3. g = Field!Keep(r, c)
    BY <1>2, <2>2 DEF Field!With, Field!Keep
  <2> HIDE DEF r, c
  <2>4. Agree(g) /\ \A m \in FieldNames : g.map[m] = IF m = n THEN c ELSE r.map[m]
    <3>1. ~Lists(r, c.name)
      BY <2>1, <2>2
    <3>2. Agree(r) /\ c \in FieldConstraints
      BY <2>1, <2>2
    <3>3. Agree(g) /\ Adds(g, r, c)
      BY <2>3, <3>1, <3>2, AppendAgrees
    <3> QED BY <3>3, <2>2 DEF Adds
  <2>5. f.map \in [FieldNames -> FieldConstraints \cup {Nil}]
    BY ListTyped DEF Agree
  <2>6. \A m \in FieldNames : m # n => r.map[m] = f.map[m]
    BY <2>1, <2>5
  <2>7. Puts(g, f, n, dom)
    BY <1>2, <2>4, <2>6 DEF c, Puts
  <2> QED BY <2>4, <2>7
<1> QED BY <1>1, <1>2

\* The list tells the map.
LEMMA MapOfList ==
  ASSUME NEW f, Agree(f)
  PROVE  f.map = Field!MapOf(f.list)
<1>1. /\ DOMAIN f.list = 1 .. Len(f.list)
      /\ f.map \in [FieldNames -> FieldConstraints \cup {Nil}]
  BY ListTyped DEF Agree
<1>2. ASSUME NEW n \in FieldNames
      PROVE  f.map[n] = IF \E k \in DOMAIN f.list : f.list[k].name = n
                        THEN f.list[CHOOSE k \in DOMAIN f.list : f.list[k].name = n] ELSE Nil
  <2>1. CASE \E k \in DOMAIN f.list : f.list[k].name = n
    <3> DEFINE q == CHOOSE k \in DOMAIN f.list : f.list[k].name = n
    <3>1. q \in 1 .. Len(f.list) /\ f.list[q].name = n
      BY <1>1, <2>1
    <3> HIDE DEF q
    <3>2. f.map[n] = f.list[q]
      BY <3>1 DEF Agree
    <3> QED BY <2>1, <3>2 DEF q
  <2>2. CASE ~\E k \in DOMAIN f.list : f.list[k].name = n
    BY <1>1, <2>2 DEF Agree, Lists
  <2> QED BY <2>1, <2>2
<1> QED BY <1>1, <1>2 DEF Field!MapOf

(***************************************************************************)
(* Binding a field.                                                        *)
(***************************************************************************)

\* What binding a list of names does to the map.
BoundBy(g, f, names) ==
  \A n \in FieldNames :
     g.map[n] = IF validators[n] # Nil /\ \E j \in 1 .. Len(names) : names[j] = n
                THEN Field!Constraint(n, TRUE) ELSE f.map[n]

LEMMA BoundNames ==
  ASSUME Registry, NEW f, Agree(f), NEW names \in Seq(FieldNames), NEW g,
         g = Field!BindAll(f, names)
  PROVE  Agree(g) /\ BoundBy(g, f, names)
<1> DEFINE size == Len(names)
           S == { h \in FieldValues : Agree(h) }
           step == [k \in Nat |-> [h \in S |-> IF k + 1 \in 1 .. size
                                               THEN Field!With(h, names[k + 1], TRUE) ELSE h]]
           Good(b) == b = [k \in 0 .. size |-> IF k = 0 THEN f
                                               ELSE Field!With(b[k - 1], names[k], TRUE)]
           bound == CHOOSE b : Good(b)
<1>0. size \in Nat /\ \A k \in 1 .. size : names[k] \in FieldNames
  OBVIOUS
<1>r. /\ 0 \in 0 .. size /\ \A k \in 0 .. size : k = 0 \/ k \in 1 .. size
      /\ \A k \in 1 .. size : k # 0 /\ k \in 0 .. size
  <2> HIDE DEF size
  <2> QED BY <1>0
<1>1. g = bound[size]
  BY DEF Field!BindAll
<1>2. Steps(step, S)
  <2> SUFFICES ASSUME NEW k \in Nat, NEW h \in S, k + 1 \in 1 .. size
               PROVE Field!With(h, names[k + 1], TRUE) \in S
    BY DEF Steps
  <2> DEFINE w == Field!With(h, names[k + 1], TRUE)
  <2>1. Agree(w)
    BY <1>0, WithAgrees
  <2> QED BY <2>1 DEF Agree
<1>3. f \in S
  BY DEF Agree
<1>4. PICK F : Follows(F, S, f, step)
  <2> HIDE DEF S, step
  <2> QED BY <1>2, <1>3, Recursion
<1>5. \A n \in Nat : n + 1 \in 1 .. size => F[n + 1] = Field!With(F[n], names[n + 1], TRUE)
  <2> TAKE n \in Nat
  <2>1. F[n] \in S /\ F[n + 1] = step[n][F[n]]
    <3> HIDE DEF S, step
    <3> QED BY <1>4 DEF Follows
  <2> QED BY <2>1
<1>6. PICK b : b = [k \in 0 .. size |-> F[k]]
  OBVIOUS
<1>7. Good(bound)
  <2> HIDE DEF size
  <2>1. b[0] = f
    BY <1>0, <1>4, <1>6 DEF Follows
  <2>2. ASSUME NEW k \in 1 .. size PROVE b[k] = Field!With(b[k - 1], names[k], TRUE)
    <3>1. k - 1 \in Nat /\ (k - 1) + 1 = k /\ k - 1 \in 0 .. size /\ k \in 0 .. size
      BY <1>0
    <3>2. F[k] = Field!With(F[k - 1], names[k], TRUE)
      BY <3>1, <1>5
    <3> QED BY <3>1, <3>2, <1>6
  <2>3. \A k \in 0 .. size : b[k] = IF k = 0 THEN f ELSE Field!With(b[k - 1], names[k], TRUE)
    BY <1>r, <2>1, <2>2
  <2>4. Good(b)
    BY <1>6, <2>3
  <2> HIDE DEF Good
  <2> QED BY <2>4
<1>8. bound[0] = f /\ \A k \in 1 .. size : bound[k] = Field!With(bound[k - 1], names[k], TRUE)
  <2> HIDE DEF bound, size
  <2>1. \A k \in 0 .. size :
           bound[k] = IF k = 0 THEN f ELSE Field!With(bound[k - 1], names[k], TRUE)
    BY <1>7
  <2> QED BY <1>r, <2>1
<1> DEFINE Named(k, n) == \E j \in 1 .. k : names[j] = n
           Done(k) == /\ Agree(bound[k])
                      /\ \A n \in FieldNames :
                           bound[k].map[n] = IF validators[n] # Nil /\ Named(k, n)
                                             THEN Field!Constraint(n, TRUE) ELSE f.map[n]
           T == { k \in Nat : k <= size => Done(k) }
<1> HIDE DEF bound, Good, step, S, size, Done
<1>9. 0 \in T
  <2>1. \A n \in FieldNames : ~Named(0, n)
    OBVIOUS
  <2> HIDE DEF Named
  <2>2. Done(0)
    BY <1>8, <2>1 DEF Done
  <2> QED BY <2>2
<1>10. ASSUME NEW k \in Nat, k \in T PROVE k + 1 \in T
  <2> SUFFICES ASSUME k + 1 <= size PROVE Done(k + 1)
    OBVIOUS
  <2>1. Done(k) /\ k + 1 \in 1 .. size /\ (k + 1) - 1 = k
    BY <1>0, <1>10
  <2> DEFINE h == bound[k]
             w == bound[k + 1]
             m == names[k + 1]
  <2>2. m \in FieldNames
    BY <1>0, <2>1
  <2>3. w = Field!With(h, m, TRUE)
    BY <1>8, <2>1
  <2>4. Agree(h)
    BY <2>1 DEF Done
  <2> HIDE DEF h, w, m
  <2>5. Agree(w) /\ Puts(w, h, m, TRUE)
    BY <2>2, <2>3, <2>4, WithAgrees
  <2>7. \A n \in FieldNames : Named(k + 1, n) <=> Named(k, n) \/ n = m
    BY DEF m
  <2>8. ASSUME NEW n \in FieldNames
        PROVE  w.map[n] = IF validators[n] # Nil /\ Named(k + 1, n)
                          THEN Field!Constraint(n, TRUE) ELSE f.map[n]
    <3>1. h.map[n] = IF validators[n] # Nil /\ Named(k, n)
                     THEN Field!Constraint(n, TRUE) ELSE f.map[n]
      BY <2>1 DEF h, Done
    <3> HIDE DEF Named
    <3> QED BY <3>1, <2>5, <2>7 DEF Puts
  <2> QED BY <2>5, <2>8 DEF w, Done
<1>11. \A k \in Nat : k \in T
  <2> HIDE DEF T
  <2> QED BY <1>9, <1>10, Induct
<1>12. Done(size)
  BY <1>0, <1>11
<1> QED BY <1>1, <1>12 DEF size, Done, BoundBy

\* What the page added is kept, in the same map.
LEMMA UserConstraints ==
  ASSUME NEW f, Agree(f), NEW g, g = Field!UserOnly(f.list)
  PROVE  /\ Agree(g)
         /\ \A n \in FieldNames :
              g.map[n] = IF f.map[n] # Nil /\ ~f.map[n].dom THEN f.map[n] ELSE Nil
<1> DEFINE list == f.list
           size == Len(list)
           none == Field!NoConstraints
           S == { h \in FieldValues : TRUE }
           step == [k \in Nat |-> [h \in S |-> IF k + 1 \in 1 .. size /\ ~list[k + 1].dom
                                               THEN Field!Keep(h, list[k + 1]) ELSE h]]
           Good(b) == b = [k \in 0 .. size |-> IF k = 0 THEN none
                                               ELSE IF list[k].dom THEN b[k - 1]
                                               ELSE Field!Keep(b[k - 1], list[k])]
           kept == CHOOSE b : Good(b)
<1>0. /\ list \in Seq(FieldConstraints) /\ size \in Nat
      /\ \A k \in 1 .. size : /\ list[k] \in FieldConstraints /\ list[k].name \in FieldNames
                              /\ list[k].dom \in BOOLEAN /\ list[k] # Nil
  BY ListTyped DEF Agree
<1>r. /\ 0 \in 0 .. size /\ \A k \in 0 .. size : k = 0 \/ k \in 1 .. size
      /\ \A k \in 1 .. size : k # 0 /\ k \in 0 .. size
  <2> HIDE DEF size
  <2> QED BY <1>0
<1>1. g = kept[size]
  BY DEF Field!UserOnly
<1>2. Steps(step, S)
  <2> SUFFICES ASSUME NEW k \in Nat, NEW h \in S, k + 1 \in 1 .. size
               PROVE Field!Keep(h, list[k + 1]) \in S
    BY DEF Steps
  <2>1. list[k + 1] \in FieldConstraints /\ list[k + 1].name \in FieldNames
    BY <1>0
  <2>2. h.list \in Seq(FieldConstraints) /\ h.map \in [FieldNames -> FieldConstraints \cup {Nil}]
    BY DEF FieldValues
  <2> HIDE DEF list
  <2> QED BY <2>1, <2>2 DEF Field!Keep, FieldValues
<1>3. none \in S
  <2>1. <<>> \in Seq(FieldConstraints)
    OBVIOUS
  <2> QED BY <2>1 DEF Field!NoConstraints, FieldValues
<1>4. PICK F : Follows(F, S, none, step)
  <2> HIDE DEF S, step, none
  <2> QED BY <1>2, <1>3, Recursion
<1>5. \A n \in Nat : n + 1 \in 1 .. size =>
         F[n + 1] = IF list[n + 1].dom THEN F[n] ELSE Field!Keep(F[n], list[n + 1])
  <2> TAKE n \in Nat
  <2>1. F[n] \in S /\ F[n + 1] = step[n][F[n]]
    <3> HIDE DEF S, step
    <3> QED BY <1>4 DEF Follows
  <2> HIDE DEF list, size
  <2> QED BY <2>1
<1>6. PICK b : b = [k \in 0 .. size |-> F[k]]
  OBVIOUS
<1>7. Good(kept)
  <2> HIDE DEF list, size
  <2>1. b[0] = none
    BY <1>0, <1>4, <1>6 DEF Follows
  <2>2. ASSUME NEW k \in 1 .. size
        PROVE b[k] = IF list[k].dom THEN b[k - 1] ELSE Field!Keep(b[k - 1], list[k])
    <3>1. k - 1 \in Nat /\ (k - 1) + 1 = k /\ k - 1 \in 0 .. size /\ k \in 0 .. size
      BY <1>0
    <3>2. F[k] = IF list[k].dom THEN F[k - 1] ELSE Field!Keep(F[k - 1], list[k])
      BY <3>1, <1>5
    <3> QED BY <3>1, <3>2, <1>6
  <2>3. \A k \in 0 .. size : b[k] = IF k = 0 THEN none ELSE IF list[k].dom THEN b[k - 1]
                                  ELSE Field!Keep(b[k - 1], list[k])
    BY <1>r, <2>1, <2>2
  <2>4. Good(b)
    BY <1>6, <2>3
  <2> HIDE DEF Good
  <2> QED BY <2>4
<1>8. kept[0] = none
      /\ \A k \in 1 .. size : kept[k] = IF list[k].dom THEN kept[k - 1]
                                        ELSE Field!Keep(kept[k - 1], list[k])
  <2> HIDE DEF kept, size, list, none
  <2>1. \A k \in 0 .. size : kept[k] = IF k = 0 THEN none ELSE IF list[k].dom THEN kept[k - 1]
                                     ELSE Field!Keep(kept[k - 1], list[k])
    BY <1>7
  <2> QED BY <1>r, <2>1
<1> DEFINE User(k, n) == \E j \in 1 .. k : list[j].name = n /\ ~list[j].dom
           Done(k) == /\ Agree(kept[k])
                      /\ \A n \in FieldNames :
                           kept[k].map[n] = IF User(k, n) THEN f.map[n] ELSE Nil
           T == { k \in Nat : k <= size => Done(k) }
<1> HIDE DEF kept, Good, step, S, Done
<1>9. 0 \in T
  <2>1. Agree(none) /\ \A n \in FieldNames : none.map[n] = Nil
    <3>1. none \in FieldValues
      <4>1. <<>> \in Seq(FieldConstraints)
        OBVIOUS
      <4> QED BY <4>1 DEF Field!NoConstraints, FieldValues
    <3>2. none.list = <<>> /\ Len(none.list) = 0 /\ \A n \in FieldNames : none.map[n] = Nil
      BY DEF Field!NoConstraints
    <3> HIDE DEF none
    <3> QED BY <3>1, <3>2 DEF Agree
  <2>2. \A n \in FieldNames : ~User(0, n)
    OBVIOUS
  <2> HIDE DEF none, User
  <2>3. Done(0)
    BY <1>8, <2>1, <2>2 DEF Done
  <2> QED BY <2>3
<1>10. ASSUME NEW k \in Nat, k \in T PROVE k + 1 \in T
  <2> SUFFICES ASSUME k + 1 <= size PROVE Done(k + 1)
    OBVIOUS
  <2>1. Done(k) /\ k + 1 \in 1 .. size /\ (k + 1) - 1 = k
    BY <1>0, <1>10
  <2> DEFINE h == kept[k]
             w == kept[k + 1]
             c == list[k + 1]
  <2>2. c \in FieldConstraints /\ c.name \in FieldNames /\ c.dom \in BOOLEAN /\ c # Nil
    BY <1>0, <2>1
  <2>3. w = IF c.dom THEN h ELSE Field!Keep(h, c)
    BY <1>8, <2>1
  <2>4. Agree(h) /\ \A n \in FieldNames : h.map[n] = IF User(k, n) THEN f.map[n] ELSE Nil
    BY <2>1 DEF Done
  <2>5. f.map[c.name] = c
    BY <2>1 DEF Agree
  <2>6. \A n \in FieldNames : User(k + 1, n) <=> User(k, n) \/ (n = c.name /\ ~c.dom)
    BY DEF c
  <2>7. ~User(k, c.name)
    <3>1. \A j \in 1 .. k : j \in 1 .. size /\ j # k + 1
      BY <2>1, <1>0
    <3> QED BY <3>1, <2>1 DEF Agree
  <2> HIDE DEF h, w, c, User
  <2>8. CASE c.dom
    <3>1. w = h
      BY <2>3, <2>8
    <3>2. \A n \in FieldNames : User(k + 1, n) <=> User(k, n)
      BY <2>6, <2>8
    <3>3. Agree(w) /\ \A n \in FieldNames : w.map[n] = IF User(k + 1, n) THEN f.map[n] ELSE Nil
      BY <2>4, <3>1, <3>2
    <3> QED BY <3>3 DEF w, Done
  <2>9. CASE ~c.dom
    <3>1. w = Field!Keep(h, c)
      BY <2>3, <2>9
    <3>2. h.map[c.name] = Nil
      BY <2>2, <2>4, <2>7
    <3>3. ~Lists(h, c.name)
      BY <3>2, <2>4, ListTyped DEF Agree, Lists
    <3>4. Agree(w) /\ Adds(w, h, c)
      BY <2>2, <2>4, <3>1, <3>3, AppendAgrees
    <3>5. \A n \in FieldNames : w.map[n] = IF User(k + 1, n) THEN f.map[n] ELSE Nil
      BY <2>4, <2>5, <2>6, <2>9, <3>4 DEF Adds
    <3> QED BY <3>4, <3>5 DEF w, Done
  <2> QED BY <2>2, <2>8, <2>9
<1>11. \A k \in Nat : k \in T
  <2> HIDE DEF T
  <2> QED BY <1>9, <1>10, Induct
<1>12. Done(size)
  BY <1>0, <1>11
<1>13. \A n \in FieldNames : User(size, n) <=> f.map[n] # Nil /\ ~f.map[n].dom
  <2> TAKE n \in FieldNames
  <2>1. User(size, n) => f.map[n] # Nil /\ ~f.map[n].dom
    BY <1>0 DEF Agree
  <2>2. f.map[n] # Nil /\ ~f.map[n].dom => User(size, n)
    BY DEF Agree, Lists
  <2> QED BY <2>1, <2>2
<1>14. \A n \in FieldNames : g.map[n] = IF f.map[n] # Nil /\ ~f.map[n].dom THEN f.map[n] ELSE Nil
  <2> HIDE DEF User
  <2> QED BY <1>1, <1>12, <1>13 DEF Done
<1> QED BY <1>1, <1>12, <1>14 DEF Done

LEMMA AnyOrder ==
  ASSUME NEW S \in SUBSET FieldNames, NEW s, s = Field!SetToSeq(S)
  PROVE  s \in Seq(FieldNames)
<1>1. IsFiniteSet(S)
  BY FieldAssumption, FS_Subset
<1>2. Cardinality(S) \in Nat /\ ExistsBijection(1 .. Cardinality(S), S)
  BY <1>1, FS_CardinalityType, Zenon
<1>3. PICK g \in Bijection(1 .. Cardinality(S), S) : TRUE
  BY <1>2 DEF ExistsBijection
<1>4. g \in [1 .. Cardinality(S) -> S] /\ Field!IsInjective(g)
  BY <1>3 DEF Bijection, Injection, Surjection, Field!IsInjective, IsInjective
<1>5. Field!Cardinality(S) = Cardinality(S)
  BY Zenon DEF Field!Cardinality, Cardinality
<1>6. s \in [1 .. Cardinality(S) -> S]
  BY <1>4, <1>5 DEF Field!SetToSeq
<1> QED
  BY <1>2, <1>6

LEMMA DeclaredNames ==
  ASSUME NEW set \in FieldAttributes, NEW names, names = Field!Declared(set)
  PROVE  names \in Seq(FieldNames)
<1> DEFINE given == Field!OptionNames(set)
           html == Field!Html5Names(set)
<1>1. given \in Seq(FieldNames)
  <2> DEFINE S == { n \in FieldNames : Field!Option(n) \in set }
  <2>1. S \in SUBSET FieldNames /\ given = Field!SetToSeq(S)
    BY DEF Field!OptionNames
  <2> HIDE DEF S, given
  <2> QED BY <2>1, AnyOrder
<1>2. html \in Seq(FieldNames)
  BY FieldAssumption
<1>3. names = given \o html
  BY DEF Field!Declared
<1> HIDE DEF given, html
<1> QED BY <1>1, <1>2, <1>3, ConcatProperties

\* What a field has after its attributes are bound.
IsBound(g, f, set) ==
  \A n \in FieldNames :
     g.map[n] = IF n \in Field!Taken(set) THEN Field!Constraint(n, TRUE)
                ELSE IF f.map[n] # Nil /\ ~f.map[n].dom THEN f.map[n] ELSE Nil

LEMMA BindAgrees ==
  ASSUME Registry, NEW f, Agree(f), NEW set \in FieldAttributes, NEW g, g = Field!Bind(f, set)
  PROVE  Agree(g) /\ IsBound(g, f, set)
<1> DEFINE user == Field!UserOnly(f.list)
           names == Field!Declared(set)
<1>1. Agree(user) /\ \A n \in FieldNames :
        user.map[n] = IF f.map[n] # Nil /\ ~f.map[n].dom THEN f.map[n] ELSE Nil
  BY UserConstraints
<1>2. names \in Seq(FieldNames)
  BY DeclaredNames
<1>3. g = Field!BindAll(user, names)
  BY DEF Field!Bind
<1>4. \A n : n \in Field!Taken(set)
             <=> validators[n] # Nil /\ \E j \in 1 .. Len(names) : names[j] = n
  BY <1>2 DEF Field!Taken, Field!ToSet
<1> HIDE DEF user, names
<1>5. Agree(g) /\ BoundBy(g, user, names)
  BY <1>1, <1>2, <1>3, BoundNames
<1> QED BY <1>1, <1>4, <1>5 DEF IsBound, BoundBy

FieldInv ==
  /\ Registry /\ attributes \in FieldAttributes
  /\ added \in [FieldNames -> FieldVersions \cup {Nil}]
  /\ Agree(Field!Field)
  /\ Field!AddedStays

LEMMA FieldParts ==
  Field!Field = [list |-> constraints, map |-> byName]
BY DEF Field!Field

LEMMA Becomes ==
  ASSUME NEW f, Agree(f), Field!Becomes(f)
  PROVE  Agree(Field!Field)' /\ byName' = f.map
<1>1. constraints' = f.list /\ byName' = f.map
  BY DEF Field!Becomes
<1>2. Field!Field' = [list |-> f.list, map |-> f.map]
  BY <1>1 DEF Field!Field
<1>3. f = [list |-> f.list, map |-> f.map]
  BY DEF Agree, FieldValues
<1>4. Field!Field' = f
  BY <1>2, <1>3
<1>5. Agree(Field!Field')
  BY <1>4
<1> QED BY <1>1, <1>5 DEF Agree, Lists

LEMMA NoneAgrees ==
  Agree(Field!NoConstraints) /\ \A n \in FieldNames : Field!NoConstraints.map[n] = Nil
<1> DEFINE none == Field!NoConstraints
<1>1. none \in FieldValues
  <2>1. <<>> \in Seq(FieldConstraints)
    OBVIOUS
  <2> QED BY <2>1 DEF Field!NoConstraints, FieldValues
<1>2. none.list = <<>> /\ Len(none.list) = 0 /\ \A n \in FieldNames : none.map[n] = Nil
  BY DEF Field!NoConstraints
<1> HIDE DEF none
<1>3. Agree(none) /\ \A n \in FieldNames : none.map[n] = Nil
  BY <1>1, <1>2 DEF Agree
<1> QED BY <1>3 DEF none

LEMMA ConstraintParts ==
  ASSUME Registry, NEW n \in FieldNames, validators[n] # Nil, NEW dom \in BOOLEAN,
         NEW c, c = Field!Constraint(n, dom)
  PROVE  c \in FieldConstraints /\ c # Nil /\ c.dom = dom /\ c.version = validators[n]
<1>1. c \in FieldConstraints /\ c.dom = dom /\ c.version = validators[n]
  BY DEF Field!Constraint, FieldConstraints, Registry
<1> QED BY <1>1, FieldAssumption

LEMMA FieldInit == Field!Init => FieldInv
<1> SUFFICES ASSUME Field!Init PROVE FieldInv
  OBVIOUS
<1> DEFINE f == Field!Bind(Field!NoConstraints, attributes)
<1>1. Registry
  <2>1. (CHOOSE v \in FieldVersions : TRUE) \in FieldVersions
    BY FieldAssumption
  <2> DEFINE v0 == CHOOSE v \in FieldVersions : TRUE
  <2>2. validators = [n \in FieldNames |-> IF n \in FieldRegistered THEN v0 ELSE Nil]
    BY DEF Field!Init
  <2>3. v0 \in FieldVersions
    BY <2>1
  <2> HIDE DEF v0
  <2> QED BY <2>2, <2>3 DEF Registry
<1>2. attributes \in FieldAttributes /\ added = [n \in FieldNames |-> Nil]
      /\ constraints = f.list /\ byName = f.map
  BY DEF Field!Init
<1>3. Agree(f) /\ IsBound(f, Field!NoConstraints, attributes)
  BY <1>1, <1>2, NoneAgrees, BindAgrees
<1>4. f = Field!Field
  <2>1. f = [list |-> f.list, map |-> f.map]
    <3> HIDE DEF f
    <3> QED BY <1>3 DEF Agree, FieldValues
  <2> HIDE DEF f
  <2> QED BY <1>2, <2>1 DEF Field!Field
<1> HIDE DEF f
<1>5. \A n \in Field!Taken(attributes) : validators[n] # Nil
  BY DEF Field!Taken
<1>6. Field!AddedStays
  <2> SUFFICES ASSUME NEW n \in FieldNames PROVE byName[n] = Nil \/ byName[n].dom
    BY <1>2 DEF Field!AddedStays
  <2>1. CASE n \in Field!Taken(attributes)
    <3>1. byName[n] = Field!Constraint(n, TRUE) /\ validators[n] # Nil
      BY <2>1, <1>2, <1>3, <1>5 DEF IsBound
    <3> QED BY <3>1, <1>1, ConstraintParts
  <2>2. CASE n \notin Field!Taken(attributes)
    <3>1. byName[n] = Nil
      BY <2>2, <1>2, <1>3, NoneAgrees DEF IsBound
    <3> QED BY <3>1
  <2> QED BY <2>1, <2>2
<1>7. added \in [FieldNames -> FieldVersions \cup {Nil}]
  BY <1>2
<1>8. Agree(Field!Field)
  BY <1>3, <1>4
<1> QED BY <1>1, <1>2, <1>6, <1>7, <1>8 DEF FieldInv

LEMMA FieldNext == FieldInv /\ [Field!Next]_(Field!vars) => FieldInv'
<1> SUFFICES ASSUME FieldInv, [Field!Next]_(Field!vars) PROVE FieldInv'
  OBVIOUS
<1>0. /\ Registry /\ attributes \in FieldAttributes /\ Agree(Field!Field) /\ Field!AddedStays
      /\ added \in [FieldNames -> FieldVersions \cup {Nil}]
      /\ Field!Field.map = byName /\ byName \in [FieldNames -> FieldConstraints \cup {Nil}]
  <2>1. Registry /\ attributes \in FieldAttributes /\ Agree(Field!Field) /\ Field!AddedStays
        /\ added \in [FieldNames -> FieldVersions \cup {Nil}]
    BY DEF FieldInv
  <2>2. Field!Field.map = byName
    BY DEF Field!Field
  <2>3. Field!Field.map \in [FieldNames -> FieldConstraints \cup {Nil}]
    BY <2>1, ListTyped DEF Agree
  <2> QED BY <2>1, <2>2, <2>3
<1>s. ASSUME UNCHANGED <<constraints, byName>> PROVE Agree(Field!Field)'
  <2>1. Field!Field' = Field!Field
    BY <1>s DEF Field!Field
  <2> QED BY <2>1, <1>0 DEF Agree, Lists
<1>a. ASSUME NEW n \in FieldNames, NEW v \in FieldVersions, validators' = [validators EXCEPT ![n] = v],
             UNCHANGED <<attributes, constraints, byName, added>>
      PROVE  FieldInv'
  <2>1. Registry'
    BY <1>a, <1>0 DEF Registry
  <2>2. Field!AddedStays'
    BY <1>a, <1>0 DEF Field!AddedStays
  <2> QED BY <2>1, <2>2, <1>a, <1>s, <1>0 DEF FieldInv
<1>1. ASSUME NEW n \in FieldNames, NEW v \in FieldVersions,
             Field!AddValidator(n, v) \/ Field!UpdateValidator(n, v)
      PROVE  FieldInv'
  BY <1>1, <1>a DEF Field!AddValidator, Field!UpdateValidator
<1>2. ASSUME NEW n \in FieldNames, Field!RemoveValidator(n) PROVE FieldInv'
  <2>1. validators' = [validators EXCEPT ![n] = Nil]
        /\ UNCHANGED <<attributes, constraints, byName, added>>
    BY <1>2 DEF Field!RemoveValidator
  <2>2. Registry'
    BY <2>1, <1>0 DEF Registry
  <2>3. Field!AddedStays'
    BY <2>1, <1>0 DEF Field!AddedStays
  <2> QED BY <2>1, <2>2, <2>3, <1>s, <1>0 DEF FieldInv
<1>3. ASSUME NEW n \in FieldNames, Field!AddConstraint(n) PROVE FieldInv'
  <2> DEFINE g == Field!With(Field!Field, n, FALSE)
  <2>1. /\ Field!Becomes(g) /\ UNCHANGED <<validators, attributes>>
        /\ added' = IF validators[n] = Nil THEN added ELSE [added EXCEPT ![n] = validators[n]]
    BY <1>3 DEF Field!AddConstraint
  <2>2. Agree(g) /\ Puts(g, Field!Field, n, FALSE)
    BY <1>0, WithAgrees
  <2> HIDE DEF g
  <2>3. Agree(Field!Field)' /\ byName' = g.map
    BY <2>1, <2>2, Becomes
  <2>4. Registry' /\ added' \in [FieldNames -> FieldVersions \cup {Nil}]
    BY <2>1, <1>0 DEF Registry
  <2>5. Field!AddedStays'
    <3> SUFFICES ASSUME NEW m \in FieldNames
                 PROVE  IF added'[m] # Nil
                        THEN byName'[m] # Nil /\ ~byName'[m].dom /\ byName'[m].version = added'[m]
                        ELSE byName'[m] = Nil \/ byName'[m].dom
      BY DEF Field!AddedStays
    <3>1. CASE m = n /\ validators[n] # Nil
      <4>1. byName'[m] = Field!Constraint(n, FALSE)
        BY <3>1, <2>2, <2>3 DEF Puts
      <4>2. added'[m] = validators[n]
        BY <3>1, <2>1, <1>0
      <4> QED BY <3>1, <4>1, <4>2, <1>0, ConstraintParts
    <3>2. CASE ~(m = n /\ validators[n] # Nil)
      <4>1. byName'[m] = byName[m]
        BY <3>2, <2>2, <2>3, <1>0 DEF Puts
      <4>2. added'[m] = added[m]
        BY <3>2, <2>1, <1>0
      <4> QED BY <4>1, <4>2, <1>0 DEF Field!AddedStays
    <3> QED BY <3>1, <3>2
  <2> QED BY <2>1, <2>3, <2>4, <2>5, <1>0 DEF FieldInv
<1>4. ASSUME NEW n \in FieldNames, Field!RemoveConstraint(n) PROVE FieldInv'
  <2> DEFINE g == Field!Without(Field!Field, n)
  <2>1. /\ Field!Becomes(g) /\ UNCHANGED <<validators, attributes>>
        /\ added' = [added EXCEPT ![n] = Nil]
    BY <1>4 DEF Field!RemoveConstraint
  <2>2. Agree(g) /\ g.map = [byName EXCEPT ![n] = Nil]
    BY <1>0, WithoutAgrees
  <2> HIDE DEF g
  <2>3. Agree(Field!Field)' /\ byName' = [byName EXCEPT ![n] = Nil]
    BY <2>1, <2>2, Becomes
  <2>4. Registry' /\ added' \in [FieldNames -> FieldVersions \cup {Nil}]
    BY <2>1, <1>0 DEF Registry
  <2>5. Field!AddedStays'
    BY <2>1, <2>3, <1>0 DEF Field!AddedStays
  <2> QED BY <2>1, <2>3, <2>4, <2>5, <1>0 DEF FieldInv
<1>5. ASSUME NEW n \in FieldNames, Field!UpdateConstraint(n) PROVE FieldInv'
  <2> DEFINE r == Field!Without(Field!Field, n)
             g == Field!With(r, n, FALSE)
  <2>1. /\ Field!Becomes(g) /\ UNCHANGED <<validators, attributes>>
        /\ added' = [added EXCEPT ![n] = validators[n]]
    BY <1>5 DEF Field!UpdateConstraint
  <2>2. Agree(r) /\ r.map = [byName EXCEPT ![n] = Nil]
    BY <1>0, WithoutAgrees
  <2>3. Agree(g) /\ Puts(g, r, n, FALSE)
    <3> HIDE DEF r
    <3> QED BY <1>0, <2>2, WithAgrees
  <2> HIDE DEF g, r
  <2>4. Agree(Field!Field)' /\ byName' = g.map
    BY <2>1, <2>3, Becomes
  <2>5. Registry' /\ added' \in [FieldNames -> FieldVersions \cup {Nil}]
    BY <2>1, <1>0 DEF Registry
  <2>6. Field!AddedStays'
    <3> SUFFICES ASSUME NEW m \in FieldNames
                 PROVE  IF added'[m] # Nil
                        THEN byName'[m] # Nil /\ ~byName'[m].dom /\ byName'[m].version = added'[m]
                        ELSE byName'[m] = Nil \/ byName'[m].dom
      BY DEF Field!AddedStays
    <3>1. CASE m = n /\ validators[n] # Nil
      <4>1. byName'[m] = Field!Constraint(n, FALSE)
        BY <3>1, <2>3, <2>4 DEF Puts
      <4>2. added'[m] = validators[n]
        BY <3>1, <2>1, <1>0
      <4> QED BY <3>1, <4>1, <4>2, <1>0, ConstraintParts
    <3>2. CASE m = n /\ validators[n] = Nil
      <4>1. byName'[m] = Nil /\ added'[m] = Nil
        BY <3>2, <2>1, <2>2, <2>3, <2>4, <1>0 DEF Puts
      <4> QED BY <4>1
    <3>3. CASE m # n
      <4>1. byName'[m] = byName[m]
        BY <3>3, <2>2, <2>3, <2>4, <1>0 DEF Puts
      <4>2. added'[m] = added[m]
        BY <3>3, <2>1, <1>0
      <4> QED BY <4>1, <4>2, <1>0 DEF Field!AddedStays
    <3> QED BY <3>1, <3>2, <3>3
  <2> QED BY <2>1, <2>4, <2>5, <2>6, <1>0 DEF FieldInv
<1>6. ASSUME NEW set \in FieldAttributes, Field!SetAttributes(set) PROVE FieldInv'
  <2>1. attributes' = set /\ UNCHANGED <<validators, constraints, byName, added>>
    BY <1>6 DEF Field!SetAttributes
  <2>2. Registry' /\ Field!AddedStays'
    BY <2>1, <1>0 DEF Registry, Field!AddedStays
  <2> QED BY <2>1, <2>2, <1>s, <1>0 DEF FieldInv
<1>7. ASSUME Field!Refresh PROVE FieldInv'
  <2> DEFINE g == Field!Bind(Field!Field, attributes)
             taken == Field!Taken(attributes)
  <2>1. /\ Field!Becomes(g) /\ UNCHANGED <<validators, attributes>>
        /\ added' = [n \in FieldNames |-> IF n \in taken THEN Nil ELSE added[n]]
    BY <1>7 DEF Field!Refresh
  <2>2. Agree(g) /\ IsBound(g, Field!Field, attributes)
    BY <1>0, BindAgrees
  <2>3. \A n \in taken : validators[n] # Nil
    BY DEF Field!Taken
  <2>4. \A n \in FieldNames : g.map[n] = IF n \in taken THEN Field!Constraint(n, TRUE)
                                        ELSE IF byName[n] # Nil /\ ~byName[n].dom THEN byName[n] ELSE Nil
    BY <2>2, <1>0 DEF IsBound
  <2> HIDE DEF g, taken
  <2>5. Agree(Field!Field)' /\ byName' = g.map
    BY <2>1, <2>2, Becomes
  <2>6. Registry' /\ added' \in [FieldNames -> FieldVersions \cup {Nil}]
    BY <2>1, <1>0 DEF Registry
  <2>7. Field!AddedStays'
    <3> SUFFICES ASSUME NEW m \in FieldNames
                 PROVE  IF added'[m] # Nil
                        THEN byName'[m] # Nil /\ ~byName'[m].dom /\ byName'[m].version = added'[m]
                        ELSE byName'[m] = Nil \/ byName'[m].dom
      BY DEF Field!AddedStays
    <3>1. CASE m \in taken
      <4>1. byName'[m] = Field!Constraint(m, TRUE) /\ added'[m] = Nil /\ validators[m] # Nil
        BY <3>1, <2>1, <2>3, <2>4, <2>5
      <4> QED BY <4>1, <1>0, ConstraintParts
    <3>2. CASE m \notin taken
      <4>1. /\ byName'[m] = IF byName[m] # Nil /\ ~byName[m].dom THEN byName[m] ELSE Nil
            /\ added'[m] = added[m]
        BY <3>2, <2>1, <2>4, <2>5
      <4>2. IF added[m] # Nil THEN byName[m] # Nil /\ ~byName[m].dom /\ byName[m].version = added[m]
            ELSE byName[m] = Nil \/ byName[m].dom
        BY <1>0 DEF Field!AddedStays
      <4> QED BY <4>1, <4>2
    <3> QED BY <3>1, <3>2
  <2> QED BY <2>1, <2>5, <2>6, <2>7, <1>0 DEF FieldInv
<1>8. ASSUME UNCHANGED Field!vars PROVE FieldInv'
  <2>1. UNCHANGED <<validators, attributes, constraints, byName, added>>
    BY <1>8 DEF Field!vars
  <2>2. Registry' /\ Field!AddedStays'
    BY <2>1, <1>0 DEF Registry, Field!AddedStays
  <2> QED BY <2>1, <2>2, <1>s, <1>0 DEF FieldInv
<1> QED
  BY <1>1, <1>2, <1>3, <1>4, <1>5, <1>6, <1>7, <1>8 DEF Field!Next

LEMMA FieldChecked ==
  FieldInv => Field!ListAndMapAgree /\ Field!AddedStays /\ Field!TypeOK
<1> SUFFICES ASSUME FieldInv PROVE Field!ListAndMapAgree /\ Field!AddedStays /\ Field!TypeOK
  OBVIOUS
<1> DEFINE f == Field!Field
<1>1. Agree(f) /\ f.list = constraints /\ f.map = byName
  BY DEF FieldInv, Field!Field
<1> HIDE DEF f
<1>2. f.map = Field!MapOf(f.list)
  BY <1>1, MapOfList
<1>3. /\ DOMAIN f.list = 1 .. Len(f.list)
      /\ \A k \in 1 .. Len(f.list) : /\ f.list[k].name \in FieldNames
                                     /\ f.list[k].version \in FieldVersions
  BY <1>1, ListTyped DEF Agree
<1>4. Field!ListAndMapAgree
  BY <1>1, <1>2, <1>3 DEF Field!ListAndMapAgree, Agree
<1>5. Field!TypeOK
  BY <1>1, <1>3 DEF Field!TypeOK, FieldInv, Registry
<1> QED BY <1>4, <1>5 DEF FieldInv

\* What a validation does to the checks.
LEMMA FieldBound == FieldInv => Field!BoundAsDeclared
<1> SUFFICES ASSUME FieldInv, Field!Refresh, NEW n \in FieldNames
             PROVE  IF n \in Field!Taken(attributes) THEN byName'[n] = Field!Constraint(n, TRUE)
                    ELSE byName'[n] = IF byName[n] # Nil /\ ~byName[n].dom THEN byName[n] ELSE Nil
  BY DEF Field!BoundAsDeclared
<1> DEFINE g == Field!Bind(Field!Field, attributes)
<1>1. Registry /\ attributes \in FieldAttributes /\ Agree(Field!Field)
  BY DEF FieldInv
<1>2. Agree(g) /\ IsBound(g, Field!Field, attributes)
  BY <1>1, BindAgrees
<1>3. byName' = g.map /\ Field!Field.map = byName
  BY DEF Field!Refresh, Field!Becomes, Field!Field
<1> HIDE DEF g
<1> QED BY <1>2, <1>3 DEF IsBound

(***************************************************************************)
(* The messages.                                                           *)
(***************************************************************************)

\* A table of messages has them under their names, in its language.
TableOf(l, table) ==
  /\ table \in MessageTables
  /\ \A n \in Messages!Names : table[n] # Nil => table[n].language = l /\ table[n].name = n

MessagesInv ==
  /\ catalog = [l \in Messages!Locales |-> catalog[l]]
  /\ \A l \in Messages!Locales : catalog[l] # Nil => TableOf(l, catalog[l])
  /\ locale = spoken /\ locale \in Messages!Locales /\ loads \subseteq MessagesFiles
  /\ catalog[locale] # Nil
  /\ catalog["en"] # Nil /\ catalog["en"]["defaultMessage"] # Nil
  /\ \A f \in loads : /\ catalog[f.locale] # Nil
                      /\ \A n \in f.names : catalog[f.locale][n] # Nil

LEMMA FileLocale ==
  /\ \A f \in MessagesFiles : f.locale \in Messages!Locales
  /\ "en" \in Messages!Locales
BY DEF Messages!Locales

LEMMA NamesKnown ==
  "defaultMessage" \in Messages!Names /\ "type" \in Messages!Names
BY DEF Messages!Names, Messages!Bundled

LEMMA TextMade ==
  ASSUME NEW l \in Messages!Locales, NEW n \in Messages!Names, NEW only \in SUBSET Messages!Types
  PROVE  LET text == Messages!Text(l, n, Messages!Covered(n, only))
         IN  text \in MessageTexts /\ text # Nil /\ text.language = l /\ text.name = n
<1> DEFINE text == Messages!Text(l, n, Messages!Covered(n, only))
<1>1. text \in MessageTexts /\ text.language = l /\ text.name = n
  BY DEF MessageTexts, Messages!Text, Messages!Covered
<1> HIDE DEF text
<1>2. text # Nil
  BY <1>1, MessagesAssumption
<1> QED
  BY <1>1, <1>2 DEF text

\* A table that gets messages of its language, or only has these.
Made(l, names, only, old) ==
  [n \in Messages!Names |->
     IF n \in names THEN Messages!Text(l, n, Messages!Covered(n, only)) ELSE old[n]]

LEMMA MessageTableMade ==
  ASSUME NEW l \in Messages!Locales, NEW names, NEW only \in SUBSET Messages!Types,
         NEW old, TableOf(l, old), NEW table, table = Made(l, names, only, old)
  PROVE  /\ TableOf(l, table) /\ table # Nil
         /\ \A n \in Messages!Names : /\ n \in names => table[n] # Nil
                                      /\ old[n] # Nil => table[n] # Nil
<1>1. \A n \in Messages!Names : /\ table[n] \in MessageTexts \cup {Nil}
                                /\ table[n] # Nil => table[n].language = l /\ table[n].name = n
                                /\ n \in names => table[n] # Nil
                                /\ old[n] # Nil => table[n] # Nil
  <2> TAKE n \in Messages!Names
  <2>1. CASE n \in names
    <3>1. table[n] = Messages!Text(l, n, Messages!Covered(n, only))
      BY <2>1 DEF Made
    <3> QED
      BY <2>1, <3>1, TextMade
  <2>2. CASE n \notin names
    BY <2>2 DEF TableOf, MessageTables, Made
  <2> QED
    BY <2>1, <2>2
<1>2. table \in MessageTables
  BY <1>1 DEF MessageTables, Made
<1>3. table # Nil
  BY <1>2, MessagesAssumption
<1> QED
  BY <1>1, <1>2, <1>3 DEF TableOf

LEMMA EmptyTable ==
  ASSUME NEW l \in Messages!Locales
  PROVE  TableOf(l, Messages!None)
BY DEF TableOf, Messages!None, MessageTables

\* addMessages.
LEMMA MessagesAdded ==
  ASSUME MessagesInv, NEW l \in Messages!Locales, NEW names, NEW only \in SUBSET Messages!Types,
         catalog' = Messages!AddMessages(l, names, only)
  PROVE  /\ catalog' = [k \in Messages!Locales |-> catalog'[k]]
         /\ \A k \in Messages!Locales \ {l} : catalog'[k] = catalog[k]
         /\ TableOf(l, catalog'[l]) /\ catalog'[l] # Nil
         /\ \A n \in Messages!Names :
              /\ n \in names => catalog'[l][n] # Nil
              /\ catalog[l] # Nil /\ catalog[l][n] # Nil => catalog'[l][n] # Nil
<1> DEFINE old == Messages!Messages(l)
           table == Made(l, names, only, old)
<1>1. TableOf(l, old)
  BY EmptyTable DEF MessagesInv, Messages!Messages
<1>2. catalog' = [catalog EXCEPT ![l] = table]
  BY DEF Messages!AddMessages, Made
<1>3. catalog[l] # Nil => old = catalog[l]
  BY DEF Messages!Messages
<1> HIDE DEF old
<1>4. /\ TableOf(l, table) /\ table # Nil
      /\ \A n \in Messages!Names : /\ n \in names => table[n] # Nil
                                   /\ old[n] # Nil => table[n] # Nil
  BY <1>1, MessageTableMade
<1> HIDE DEF table
<1> QED
  BY <1>2, <1>3, <1>4 DEF MessagesInv

\* What a step that changes the table of one locale has to respect.
LEMMA TableStep ==
  ASSUME MessagesInv, NEW l \in Messages!Locales,
         catalog' = [k \in Messages!Locales |-> catalog'[k]],
         \A k \in Messages!Locales \ {l} : catalog'[k] = catalog[k],
         TableOf(l, catalog'[l]), catalog'[l] # Nil,
         l = "en" => catalog'[l]["defaultMessage"] # Nil,
         locale' = spoken', locale' \in {l, locale}, loads' \subseteq MessagesFiles,
         \A f \in loads' : \/ f.locale = l /\ \A n \in f.names : catalog'[l][n] # Nil
                           \/ f.locale # l /\ f \in loads
  PROVE  MessagesInv'
<1>1. /\ locale' \in Messages!Locales /\ catalog'[locale'] # Nil
      /\ catalog'["en"] # Nil /\ catalog'["en"]["defaultMessage"] # Nil
  BY FileLocale DEF MessagesInv
<1>2. \A f \in loads' : /\ catalog'[f.locale] # Nil
                        /\ \A n \in f.names : catalog'[f.locale][n] # Nil
  BY FileLocale DEF MessagesInv
<1>3. \A k \in Messages!Locales : catalog'[k] # Nil => TableOf(k, catalog'[k])
  BY DEF MessagesInv
<1> QED
  BY <1>1, <1>2, <1>3 DEF MessagesInv

LEMMA LoadStep ==
  ASSUME MessagesInv, NEW f \in MessagesFiles, Messages!Load(f)
  PROVE  MessagesInv'
<1>1. /\ loads' = loads \cup {f} /\ catalog' = Messages!AddMessages(f.locale, f.names, Messages!Types)
      /\ locale' = IF f.sets = Nil THEN locale ELSE f.sets
      /\ spoken' = IF f.sets = Nil THEN spoken ELSE f.locale
  BY DEF Messages!Load
<1> DEFINE l == f.locale
<1>2. l \in Messages!Locales
  BY FileLocale
<1>3. f.names \subseteq Messages!Names /\ f.sets \in {Nil, l}
  BY MessagesAssumption
<1> HIDE DEF l
<1>4. /\ catalog' = [k \in Messages!Locales |-> catalog'[k]]
      /\ \A k \in Messages!Locales \ {l} : catalog'[k] = catalog[k]
      /\ TableOf(l, catalog'[l]) /\ catalog'[l] # Nil
      /\ \A n \in Messages!Names :
           /\ n \in f.names => catalog'[l][n] # Nil
           /\ catalog[l] # Nil /\ catalog[l][n] # Nil => catalog'[l][n] # Nil
  BY <1>1, <1>2, MessagesAdded DEF l
<1>5. l = "en" => catalog'[l]["defaultMessage"] # Nil
  BY <1>4, NamesKnown DEF MessagesInv
<1>6. locale' = spoken' /\ locale' \in {l, locale} /\ loads' \subseteq MessagesFiles
  BY <1>1, <1>3 DEF MessagesInv, l
<1>7. ASSUME NEW g \in loads'
      PROVE  \/ g.locale = l /\ \A n \in g.names : catalog'[l][n] # Nil
             \/ g.locale # l /\ g \in loads
  <2>1. CASE g = f
    BY <1>3, <1>4, <2>1 DEF l
  <2>2. CASE g # f
    <3>1. g \in loads /\ g \in MessagesFiles
      BY <1>1, <2>2 DEF MessagesInv
    <3>2. g.names \subseteq Messages!Names
      BY <3>1, MessagesAssumption
    <3> QED
      BY <1>4, <3>1, <3>2 DEF MessagesInv
  <2> QED
    BY <2>1, <2>2
<1> QED
  BY <1>2, <1>4, <1>5, <1>6, <1>7, TableStep

LEMMA AddMessageStep ==
  ASSUME MessagesInv, NEW name, NEW only \in SUBSET Messages!Types,
         Messages!AddMessage(locale, name, only)
  PROVE  MessagesInv'
<1> DEFINE l == locale
<1>1. l \in Messages!Locales /\ catalog' = Messages!AddMessages(l, {name}, only)
      /\ UNCHANGED <<locale, loads, spoken>>
  BY DEF Messages!AddMessage, MessagesInv
<1> HIDE DEF l
<1>2. /\ catalog' = [k \in Messages!Locales |-> catalog'[k]]
      /\ \A k \in Messages!Locales \ {l} : catalog'[k] = catalog[k]
      /\ TableOf(l, catalog'[l]) /\ catalog'[l] # Nil
      /\ \A n \in Messages!Names :
           catalog[l] # Nil /\ catalog[l][n] # Nil => catalog'[l][n] # Nil
  BY <1>1, MessagesAdded
<1>3. l = "en" => catalog'[l]["defaultMessage"] # Nil
  BY <1>2, NamesKnown DEF MessagesInv
<1>4. locale' = spoken' /\ locale' \in {l, locale} /\ loads' \subseteq MessagesFiles
  BY <1>1 DEF MessagesInv
<1>5. ASSUME NEW g \in loads'
      PROVE  \/ g.locale = l /\ \A n \in g.names : catalog'[l][n] # Nil
             \/ g.locale # l /\ g \in loads
  <2>1. g \in loads /\ g \in MessagesFiles
    BY <1>1 DEF MessagesInv
  <2>2. g.names \subseteq Messages!Names
    BY <2>1, MessagesAssumption
  <2> QED
    BY <1>2, <2>1, <2>2 DEF MessagesInv
<1> QED
  BY <1>1, <1>2, <1>3, <1>4, <1>5, TableStep

LEMMA AddCatalogStep ==
  ASSUME MessagesInv, NEW f \in MessagesFiles, f.sets # Nil, NEW set, Messages!AddCatalog(f, set)
  PROVE  MessagesInv'
<1> DEFINE l == f.locale
           table == [n \in Messages!Names |->
                       IF n \in f.names
                       THEN Messages!Text(l, n, Messages!Covered(n, Messages!Types)) ELSE Nil]
<1>1. /\ catalog' = [catalog EXCEPT ![l] = table]
      /\ locale' = (IF set THEN l ELSE locale) /\ spoken' = (IF set THEN l ELSE spoken)
      /\ loads' = { g \in loads : g.locale # l } \cup {f}
  BY DEF Messages!AddCatalog
<1>2. l \in Messages!Locales
  BY FileLocale
<1>3. f.names \subseteq Messages!Names /\ "defaultMessage" \in f.names
  BY MessagesAssumption
<1>4. table = Made(l, f.names, Messages!Types, Messages!None)
  BY DEF Messages!None, Made
<1>5. TableOf(l, Messages!None)
  BY <1>2, EmptyTable
<1>6. /\ TableOf(l, table) /\ table # Nil
      /\ \A n \in Messages!Names : n \in f.names => table[n] # Nil
  <2> HIDE DEF l, table
  <2> QED
    BY <1>2, <1>4, <1>5, MessageTableMade
<1> HIDE DEF table
<1>7. /\ catalog' = [k \in Messages!Locales |-> catalog'[k]]
      /\ \A k \in Messages!Locales \ {l} : catalog'[k] = catalog[k]
      /\ TableOf(l, catalog'[l]) /\ catalog'[l] # Nil
      /\ \A n \in f.names : catalog'[l][n] # Nil
  BY <1>1, <1>2, <1>3, <1>6 DEF MessagesInv
<1>8. locale' = spoken' /\ locale' \in {l, locale} /\ loads' \subseteq MessagesFiles
  BY <1>1 DEF MessagesInv
<1>9. \A g \in loads' : \/ g.locale = l /\ \A n \in g.names : catalog'[l][n] # Nil
                        \/ g.locale # l /\ g \in loads
  BY <1>1, <1>7
<1>10. l = "en" => catalog'[l]["defaultMessage"] # Nil
  BY <1>3, <1>7
<1> HIDE DEF l
<1> QED
  BY <1>2, <1>7, <1>8, <1>9, <1>10, TableStep

LEMMA MessagesInit == Messages!Init => MessagesInv
<1> SUFFICES ASSUME Messages!Init PROVE MessagesInv
  OBVIOUS
<1> DEFINE table == [n \in Messages!Names |->
                       IF n \in Messages!Bundled
                       THEN Messages!Text("en", n, Messages!Covered(n, Messages!Types)) ELSE Nil]
<1>1. /\ catalog = [l \in Messages!Locales |-> IF l = "en" THEN table ELSE Nil]
      /\ locale = "en" /\ spoken = "en" /\ loads = {}
  BY DEF Messages!Init
<1>2. "en" \in Messages!Locales /\ "defaultMessage" \in Messages!Bundled
      /\ "defaultMessage" \in Messages!Names
  BY FileLocale, NamesKnown DEF Messages!Bundled
<1>3. table = Made("en", Messages!Bundled, Messages!Types, Messages!None)
  BY DEF Messages!None, Made
<1>4. /\ TableOf("en", table) /\ table # Nil
      /\ \A n \in Messages!Names : n \in Messages!Bundled => table[n] # Nil
  <2> HIDE DEF table
  <2> QED
    BY <1>2, <1>3, EmptyTable, MessageTableMade
<1> HIDE DEF table
<1> QED
  BY <1>1, <1>2, <1>4 DEF MessagesInv

LEMMA MessagesNext == MessagesInv /\ [Messages!Next]_(Messages!vars) => MessagesInv'
<1> SUFFICES ASSUME MessagesInv, [Messages!Next]_(Messages!vars) PROVE MessagesInv'
  OBVIOUS
<1>1. ASSUME NEW l \in Messages!Locales, Messages!SetLocale(l) PROVE MessagesInv'
  BY <1>1 DEF Messages!SetLocale, MessagesInv
<1>2. ASSUME \/ Messages!AddMessage(locale, "type", {"email"})
             \/ Messages!AddMessage(locale, "required", {})
      PROVE  MessagesInv'
  <2>1. {"email"} \in SUBSET Messages!Types /\ {} \in SUBSET Messages!Types
    BY DEF Messages!Types
  <2> QED
    BY <1>2, <2>1, AddMessageStep
<1>3. ASSUME UNCHANGED Messages!vars PROVE MessagesInv'
  BY <1>3 DEF Messages!vars, MessagesInv
<1> QED
  BY <1>1, <1>2, <1>3, LoadStep, AddCatalogStep DEF Messages!Next

\* The message of a check: one of its name or a default, in the language in
\* effect if that has a default.
LEMMA MessagesShown ==
  ASSUME MessagesInv
  PROVE  Messages!MessageIsSpoken /\ Messages!OwnMessageShown /\ Messages!TypeOK
<1>1. /\ TableOf(locale, catalog[locale]) /\ TableOf("en", catalog["en"])
      /\ locale \in Messages!Locales /\ "defaultMessage" \in Messages!Names
  BY FileLocale, NamesKnown DEF MessagesInv
<1>2. \A check \in Messages!Checks : check.name \in Messages!Names
  BY NamesKnown DEF Messages!Checks
<1>3. ASSUME NEW check \in Messages!Checks
      PROVE  /\ Messages!OwnMessage(check) # Nil =>
                  /\ Messages!OwnMessage(check).language = locale
                  /\ Messages!OwnMessage(check).name = check.name
             /\ (check.name # "type" /\ catalog[locale][check.name] # Nil)
                  => Messages!OwnMessage(check) # Nil
  BY <1>1, <1>2 DEF Messages!OwnMessage, TableOf
<1>4. Messages!MessageIsSpoken
  BY <1>1, <1>3 DEF Messages!MessageIsSpoken, Messages!ErrorMessage, MessagesInv, TableOf
<1>5. Messages!OwnMessageShown
  <2> SUFFICES ASSUME NEW f \in loads, f.locale = locale,
                      NEW check \in Messages!Checks, check.name \in f.names \ {"type"}
               PROVE  Messages!ErrorMessage(check).name = check.name
    BY DEF Messages!OwnMessageShown
  <2>1. catalog[locale][check.name] # Nil
    BY DEF MessagesInv
  <2> QED
    BY <1>3, <2>1 DEF Messages!ErrorMessage
<1>6. Messages!TypeOK
  BY DEF Messages!TypeOK, MessagesInv, TableOf
<1> QED
  BY <1>4, <1>5, <1>6

(***************************************************************************)
(* The theorems.                                                           *)
(***************************************************************************)

LEMMA FormRuns ==
  (PageInit /\ widget = "form" => Form!Init)
  /\ (widget = "form" /\ [PageNext]_pageVars => widget' = "form" /\ [Form!Next]_(Form!vars))
BY DEF PageInit, PageNext, pageVars, formVars, Form!vars

LEMMA FieldRuns ==
  (PageInit /\ widget = "field" => Field!Init)
  /\ (widget = "field" /\ [PageNext]_pageVars => widget' = "field" /\ [Field!Next]_(Field!vars))
BY DEF PageInit, PageNext, pageVars, fieldVars, Field!vars

LEMMA MessagesRun ==
  (PageInit /\ widget = "messages" => Messages!Init)
  /\ (widget = "messages" /\ [PageNext]_pageVars
        => widget' = "messages" /\ [Messages!Next]_(Messages!vars))
BY DEF PageInit, PageNext, pageVars, messageVars, Messages!vars

LEMMA RowsRun ==
  (PageInit /\ widget = "rows" => Rows!Init)
  /\ (widget = "rows" /\ [PageNext]_pageVars => widget' = "rows" /\ [Rows!Next]_rowVars)
BY DEF PageInit, PageNext, pageVars

LEMMA CellsRun ==
  (PageInit /\ widget = "cells" => Cells!Init)
  /\ (widget = "cells" /\ [PageNext]_pageVars => widget' = "cells" /\ [Cells!Next]_cellVars)
BY DEF PageInit, PageNext, pageVars

ContentInv ==
  /\ widget = "rows" => RowsInv
  /\ widget = "cells" => CellsInv
  /\ widget = "form" => SentInv /\ ErrorsInv
  /\ widget = "field" => FieldInv
  /\ widget = "messages" => MessagesInv

\* The inductive invariant of the rows: one list of objects that the indexes,
\* the ids, the caches and the nodes lead to, and what the last search, sort and
\* draw left; of the cells: what every node shows, every key is made of and every
\* type suits; of the form: which answer each value waits for or has had, which
\* errors are shown since when; of a field, that its list and its map are one set
\* of checks; of the messages, whose tables they are.
THEOREM ContentInvariance == PageSpec => []ContentInv
<1>1. PageInit => ContentInv
  BY RowsRun, CellsRun, FormRuns, FieldRuns, MessagesRun, RowsInitial, CellsInitial,
     SentInit, ErrorsInit, FieldInit, MessagesInit
  DEF ContentInv
<1>2. ContentInv /\ [PageNext]_pageVars => ContentInv'
  <2> SUFFICES ASSUME ContentInv, [PageNext]_pageVars PROVE ContentInv'
    OBVIOUS
  <2>1. ASSUME widget = "form" PROVE SentInv' /\ ErrorsInv'
    BY <2>1, FormRuns, SentNext, ErrorsNext DEF ContentInv
  <2>2. ASSUME widget = "field" PROVE FieldInv'
    BY <2>2, FieldRuns, FieldNext DEF ContentInv
  <2>3. ASSUME widget = "messages" PROVE MessagesInv'
    BY <2>3, MessagesRun, MessagesNext DEF ContentInv
  <2>4. ASSUME widget = "rows" PROVE RowsInv'
    BY <2>4, RowsRun, RowsStep DEF ContentInv
  <2>5. ASSUME widget = "cells" PROVE CellsInv'
    BY <2>5, CellsRun, CellsStep DEF ContentInv
  <2> QED
    BY <2>1, <2>2, <2>3, <2>4, <2>5, WidgetStays DEF ContentInv
<1> QED
  BY <1>1, <1>2, PTL DEF PageSpec

\* What every widget keeps in its variables is what it should be; a field is
\* marked as an error exactly when its last result was one, and lists errors of
\* that result only.
THEOREM PageTypeCorrect == PageSpec => []TypesOK
<1>1. TablesInv /\ ContentInv => TypesOK
  <2> SUFFICES ASSUME TablesInv, ContentInv PROVE TypesOK
    OBVIOUS
  <2>1. /\ widget = "pager" => TypeOK
        /\ widget = "heading" => Heading!TypeOK
        /\ widget = "setup" => Setup!TypeOK
        /\ widget = "options" => Options!TypeOK
        /\ widget = "order" => Order!TypeOK
    BY HeadingHolds, SetupHolds, OptionsMeant, OrderMeant DEF TablesInv, Inv
  <2>2. /\ widget = "rows" => Rows!TypeOK
        /\ widget = "cells" => Cells!TypeOK
        /\ widget = "form" => Form!TypeOK
        /\ widget = "field" => Field!TypeOK
        /\ widget = "messages" => Messages!TypeOK
    BY RowsSafe, CellsSafe, FormTypes, FieldChecked, MessagesShown DEF ContentInv
  <2>3. widget \in Widgets
    BY DEF TablesInv
  <2> QED
    BY <2>1, <2>2, <2>3 DEF TypesOK, Widgets
<1> QED
  BY <1>1, TablesInvariance, ContentInvariance, PTL

\* Where rows keep their ids when their data change: through any adding, changing,
\* sorting, searching and removing, with and without draws, the indexes, the
\* nodes, the caches, the ids and the selectors agree with the data, and so do
\* the cells, their sort keys and the types of their columns; columns hidden and
\* shown leave every node the cells of the visible ones, and child rows stand
\* behind their rows exactly when they are shown.
THEOREM RowsDoAgree == ~RowsNewIds => (PageSpec => []RowsAgree)
<1> SUFFICES ASSUME ~RowsNewIds PROVE PageSpec => []RowsAgree
  OBVIOUS
<1>1. TablesInv /\ ContentInv => RowsAgree
  BY RowsSafe, CellsSafe, HeadingHolds DEF TablesInv, ContentInv, RowsAgree
<1> QED
  BY <1>1, TablesInvariance, ContentInvariance, PTL

\* With ids that may change too: sorting keeps equal rows in their order,
\* removing removes the rows selected and no other, a cell written reads back
\* and changes no other, a shift-click keeps the other columns' order, a click
\* turns the order over, and a validation gives a field the checks it declares
\* and keeps those the page added.
THEOREM RowsAreKept == PageSpec => RowsKept
<1> DEFINE Kinds == CASE widget = "rows" -> Rows!SortIsStable /\ Rows!RemovesSelected
                      [] widget = "cells" -> Cells!ReadsBack
                      [] widget = "order" -> Order!ShiftKeepsOthers /\ Order!ClickTurnsOver
                      [] widget = "field" -> Field!BoundAsDeclared
                      [] OTHER -> TRUE
<1>1. TablesInv /\ ContentInv /\ [PageNext]_pageVars => Kinds
  <2> SUFFICES ASSUME TablesInv, ContentInv, [PageNext]_pageVars PROVE Kinds
    OBVIOUS
  <2>1. ASSUME widget = "rows" PROVE Rows!SortIsStable /\ Rows!RemovesSelected
    BY <2>1, RowsRun, RowsStepKeeps DEF ContentInv
  <2>2. ASSUME widget = "cells" PROVE Cells!ReadsBack
    BY <2>2, CellsRun, CellsStep DEF ContentInv
  <2>3. ASSUME widget = "order" PROVE Order!ShiftKeepsOthers /\ Order!ClickTurnsOver
    BY <2>3, ShiftKeeps, ClickTurns DEF TablesInv
  <2>4. ASSUME widget = "field" PROVE Field!BoundAsDeclared
    BY <2>4, FieldBound DEF ContentInv
  <2> QED
    BY <2>1, <2>2, <2>3, <2>4
<1>2. TablesInv /\ ContentInv /\ [PageNext]_pageVars => [Kinds]_pageVars
  BY <1>1
<1> HIDE DEF Kinds
<1>3. PageSpec => [][Kinds]_pageVars
  BY <1>2, TablesInvariance, ContentInvariance, PTL DEF PageSpec
<1> QED
  BY <1>3 DEF RowsKept, Kinds

\* Whatever is typed, asked and answered in any order: a submission is let through
\* only if every check accepted the values it was made with, whatever was typed
\* while it waited; the errors shown are those of the value typed
\* once there was one, a field's list and map of checks agree, a check added by
\* the page stays, and the message of a failed check is its own, in the language
\* of the file that was loaded last.
THEOREM FormIsChecked == PageSpec => []FormChecked
<1>1. ContentInv => FormChecked
  <2> SUFFICES ASSUME ContentInv PROVE FormChecked
    OBVIOUS
  <2>1. ASSUME widget = "form" PROVE Form!SentWasChecked /\ Form!ErrorsFollowTyping
    BY <2>1, SentChecked DEF ContentInv, ErrorsInv
  <2>2. ASSUME widget = "field" PROVE Field!ListAndMapAgree /\ Field!AddedStays
    BY <2>2, FieldChecked DEF ContentInv
  <2>3. ASSUME widget = "messages"
        PROVE  Messages!MessageIsSpoken /\ Messages!OwnMessageShown
    BY <2>3, MessagesShown DEF ContentInv
  <2> QED
    BY <2>1, <2>2, <2>3 DEF FormChecked
<1> QED
  BY <1>1, ContentInvariance, PTL
=============================================================================
