----------------------------- MODULE TableRows -----------------------------
(***************************************************************************)
(* The rows of a client-side DataTable: the row objects and their caches,  *)
(* the two index arrays (aiDisplayMaster, in sort order, and aiDisplay,    *)
(* what of it passes the search), the id index, and the nodes on the page. *)
(* Rows are added, changed and removed by the API; searching, ordering and *)
(* drawing each refresh part of this.  Indexes count from 1 here.          *)
(*                                                                         *)
(* A row's data is its id and one value; `Matches` says which values a     *)
(* search finds and `Extends` which searches begin with the text of which. *)
(***************************************************************************)
EXTENDS PagingOps, FiniteSets, Functions

CONSTANTS Objects,      \* row objects (models.oRow); a dropped one is used again
          Ids,          \* what rowId reads from the data
          Vals,         \* cell values, compared by <
          Searches,     \* search strings, the empty one among them
          NoSearch,     \* the empty search string
          ColumnSearches, \* search strings given to column().search()
          Matches,      \* [Searches -> SUBSET Vals]
          Extends,      \* pairs <<s, t>>: string t starts with string s
          PageLength,   \* settings._iDisplayLength
          NewIds,       \* whether row().data() may bring another id
          Nil           \* JavaScript's null or undefined

VARIABLES bDeferRender,    \* oFeatures.bDeferRender, as the table was set up
          row,             \* [Objects -> models.oRow]
          aoData,          \* sequence of row objects
          aiDisplayMaster, \* indexes into aoData, in sort order
          aiDisplay,       \* those of them that passed the last search
          aIds,            \* [Ids -> row object or Nil]
          order,           \* aaSorting of the value column: "asc", "desc" or Nil
          search,          \* oPreviousSearch.sSearch
          colSearch,       \* aoPreSearchCols[column].sSearch
          iDisplayStart,
          body,            \* the row objects whose nodes are in tbody
          last             \* the kind of call that ran last, for the properties

vars == <<bDeferRender, row, aoData, aiDisplayMaster, aiDisplay, aIds, order, search,
          colSearch, iDisplayStart, body, last>>

Data == [id : Ids, val : Vals]
Indexes == 1 .. Len(aoData)
Rows == Range(aoData)
IndexOf(o) == CHOOSE i \in Indexes : aoData[i] = o
NewRow(data, i) == [data |-> data, idx |-> i, filter |-> Nil, sort |-> Nil, nTr |-> Nil]

Init == /\ bDeferRender \in BOOLEAN
        /\ row = [o \in Objects |-> NewRow(Nil, 0)]
        /\ aoData = <<>> /\ aiDisplayMaster = <<>> /\ aiDisplay = <<>>
        /\ aIds = [d \in Ids |-> Nil]
        /\ order \in {"asc", Nil}
        /\ search = NoSearch /\ colSearch = NoSearch
        /\ iDisplayStart = 0
        /\ body = <<>>
        /\ last = "init"

\* _fnCreateTr and _fnRowAttributes: a node is made once, with the index its
\* row has then.
CreateTr(r, i) ==
    IF r.nTr # Nil THEN r
    ELSE [r EXCEPT !.nTr = [index |-> i, html |-> r.data.val, id |-> r.data.id]]

-----------------------------------------------------------------------------
(* Searching *)

\* _fnFilterData: the searchable text of every row that lacks it.
FilterData(rows) ==
    [o \in Objects |-> IF o \in Rows /\ rows[o].filter = Nil
                       THEN [rows[o] EXCEPT !.filter = rows[o].data.val] ELSE rows[o]]

\* The indexes of the rows whose text a search finds.
Passing(text) == { i \in Indexes : FilterData(row)[aoData[i]].filter \in Matches[text] }

\* Were the rows whose cached text is gone not noticed:
FilterStale(master, text, force) ==
    IF text = NoSearch THEN master
    ELSE Only(IF force \/ <<search, text>> \notin Extends THEN master ELSE aiDisplay,
              Passing(text))

\* _fnFilter: search the master array, or only what is displayed already.
Filter(master, text, force) ==
    LET invalidated == \E o \in Rows : row[o].filter = Nil
        base == IF invalidated \/ force \/ <<search, text>> \notin Extends
                THEN master ELSE aiDisplay
    IN  IF text = NoSearch THEN master ELSE Only(base, Passing(text))

\* _fnFilterColumn narrows what the search left.
FilterColumn(display, text) ==
    IF text = NoSearch THEN display ELSE Only(display, Passing(text))

\* _fnFilterComplete.
FilterComplete(master, text, column, force) ==
    FilterColumn(Filter(master, text, force), column)

-----------------------------------------------------------------------------
(* Ordering *)

\* _fnSortData: the sort value of every row that lacks it.
SortData(rows) ==
    [o \in Objects |-> IF o \in Rows /\ rows[o].sort = Nil
                       THEN [rows[o] EXCEPT !.sort = rows[o].data.val] ELSE rows[o]]

\* _fnSort: by cached value; rows of equal value stay in the order they had.
Orders(dir, i, j) ==
    LET key(n) == SortData(row)[aoData[n]].sort
        aiOrig(n) == CHOOSE p \in DOMAIN aiDisplayMaster : aiDisplayMaster[p] = n
    IN  \/ dir = "asc" /\ key(i) < key(j)
        \/ dir = "desc" /\ key(i) > key(j)
        \/ key(i) = key(j) /\ aiOrig(i) < aiOrig(j)
Sort(dir) ==
    IF dir = Nil THEN {aiDisplayMaster}
    ELSE { a \in Bijection(Indexes, Indexes) :
             \A p, q \in Indexes : p < q => Orders(dir, a[p], a[q]) }

-----------------------------------------------------------------------------
(* Drawing *)

\* _fnDraw puts the nodes of one page of aiDisplay in tbody, made if need be.
DrawRows(rows, display, start) ==
    LET page == SubSeq(display, start + 1, DisplayEnd(start, PageLength, Len(display)))
    IN  /\ body' = [k \in DOMAIN page |-> aoData[page[k]]]
        /\ row' = [o \in Objects |-> IF o \in Range(body') THEN CreateTr(rows[o], IndexOf(o))
                                     ELSE rows[o]]

\* _fnReDraw: sort, search with the strings in force, go to the first page
\* unless the position is held, draw.
ReDrawWith(dir, hold) ==
    /\ aiDisplayMaster' \in Sort(dir)
    /\ aiDisplay' = FilterComplete(aiDisplayMaster', search, colSearch, TRUE)
    /\ iDisplayStart' = IF hold THEN iDisplayStart ELSE 0
    /\ DrawRows(FilterData(IF dir = Nil THEN row ELSE SortData(row)), aiDisplay', iDisplayStart')
    /\ last' = "redraw"
    /\ UNCHANGED <<bDeferRender, aoData, aIds, search, colSearch>>

\* table.draw() and table.draw(false).
ReDraw(hold) == ReDrawWith(order, hold) /\ UNCHANGED order

\* A click on the heading of the value column: the other direction.
SortClick ==
    /\ order' = IF order = "asc" THEN "desc" ELSE "asc"
    /\ ReDrawWith(order', FALSE)

\* table.draw('page').
DrawPage ==
    /\ DrawRows(row, aiDisplay, iDisplayStart)
    /\ last' = "draw"
    /\ UNCHANGED <<bDeferRender, aoData, aiDisplayMaster, aiDisplay, aIds, order, search,
                   colSearch, iDisplayStart>>

\* A string typed in the search box: search, first page, draw.
TypeSearch(text) ==
    /\ text # search
    /\ search' = text
    /\ aiDisplay' = FilterComplete(aiDisplayMaster, text, colSearch, FALSE)
    /\ iDisplayStart' = 0
    /\ DrawRows(FilterData(row), aiDisplay', 0)
    /\ last' = "search"
    /\ UNCHANGED <<bDeferRender, aoData, aiDisplayMaster, aIds, order, colSearch>>

\* table.search(text) and column().search(text): no draw.
ApiSearch(text, column) ==
    /\ search' = text
    /\ colSearch' = column
    /\ aiDisplay' = FilterComplete(aiDisplayMaster, text, column, TRUE)
    /\ row' = FilterData(row)
    /\ last' = "search"
    /\ UNCHANGED <<bDeferRender, aoData, aiDisplayMaster, aIds, order, iDisplayStart, body>>

-----------------------------------------------------------------------------
(* Changing the rows *)

\* _fnAddData through row.add(), for an id no other row has.
Add(o, data) ==
    /\ o \notin Rows \cup Range(body) /\ \A d \in Ids : aIds[d] # o
    /\ \A p \in Rows : row[p].data.id # data.id
    /\ LET i == Len(aoData) + 1
       IN  /\ aoData' = Append(aoData, o)
           /\ row' = [row EXCEPT ![o] = IF bDeferRender THEN NewRow(data, i)
                                        ELSE CreateTr(NewRow(data, i), i)]
           /\ aiDisplayMaster' = Append(aiDisplayMaster, i)
    /\ aIds' = [aIds EXCEPT ![data.id] = o]
    /\ last' = "edit"
    /\ UNCHANGED <<bDeferRender, aiDisplay, order, search, colSearch, iDisplayStart, body>>

\* _fnInvalidate after a change of data: cells rewritten, caches dropped.
InvalidateSearchOnly(r) ==
    [r EXCEPT !.filter = Nil,
              !.nTr = IF @ = Nil THEN Nil ELSE [@ EXCEPT !.html = r.data.val, !.id = r.data.id]]
Invalidate(r) == [InvalidateSearchOnly(r) EXCEPT !.sort = Nil]

\* row(i).data(data).
SetData(i, data) ==
    LET o == aoData[i]
    IN  /\ \A p \in Rows \ {o} : row[p].data.id # data.id
        /\ NewIds \/ data.id = row[o].data.id
        /\ row' = [row EXCEPT ![o] = Invalidate([@ EXCEPT !.data = data])]
        /\ last' = "edit"
        /\ UNCHANGED <<bDeferRender, aoData, aiDisplayMaster, aiDisplay, aIds, order, search,
                       colSearch, iDisplayStart, body>>

\* _fnDeleteIndex, without and with the removal of the index itself.
Renumber(a, i) == [k \in DOMAIN a |-> IF a[k] > i THEN a[k] - 1 ELSE a[k]]
DeleteIndex(a, i) == Renumber(Only(a, Int \ {i}), i)

\* The local list of selected indexes shifts as rows go.
SelectionUnshifted(sel, i) == sel
Shift(sel, i) == Renumber(sel, i)

\* Nodes, and after the loop row objects, are told where their rows are now.
Position(o, data) == CHOOSE n \in DOMAIN data : data[n] = o
TellNodes(rows, data) ==
    [o \in Objects |-> IF o \in Range(data) /\ rows[o].nTr # Nil
                       THEN [rows[o] EXCEPT !.nTr.index = Position(o, data)] ELSE rows[o]]
TellRows(rows, data) ==
    [o \in Objects |-> IF o \in Range(data)
                       THEN [rows[o] EXCEPT !.idx = Position(o, data)] ELSE rows[o]]

\* _selector_row_indexes: the rows the options { search, order, page } name.
RowIndexes(searched, ordered, page) ==
    LET InOrder == IF ordered = "index" THEN Span(1, Len(aoData) + 1) ELSE aiDisplayMaster
        displayed == Range(aiDisplay)
    IN  CASE page = "current" ->
               SubSeq(aiDisplay, iDisplayStart + 1,
                      DisplayEnd(iDisplayStart, PageLength, Len(aiDisplay)))
          [] page = "all" /\ searched = "none" -> InOrder
          [] page = "all" /\ searched = "removed" -> Only(InOrder, Indexes \ displayed)
          [] page = "all" /\ searched = "applied" ->
               IF ordered = "index" THEN Only(InOrder, displayed) ELSE aiDisplay

\* rows(function): those the function picks, in the current order.
RowSelector(picked) == Only(RowIndexes("none", "current", "all"), picked)

\* One turn of the loop of rows().remove() over the table t, whose selection
\* is t.sel; an index past the end would throw there.
RemoveOne(t, k) ==
    LET i == t.sel[k]
        data == Cut(t.data, i)
        display == DeleteIndex(t.display, i)
    IN  IF i \notin DOMAIN t.data THEN t ELSE
        [data |-> data,
         rows |-> TellNodes(t.rows, data),
         master |-> DeleteIndex(t.master, i),
         display |-> display,
         sel |-> Shift(t.sel, i),
         start |-> LengthOverflow(t.start, PageLength,
                                  DisplayEnd(t.start, PageLength, Len(display))),
         ids |-> [t.ids EXCEPT ![t.rows[t.data[i]].data.id] = Nil]]

\* Of a row object no longer in aoData only the index can still be read, if
\* aIds leads to it.
Dropped(o, ids) ==
    NewRow(Nil, IF \E d \in Ids : ids[d] = o THEN row[o].idx ELSE 0)

\* rows(S).remove(): the selection lists the indexes in the current order.
RemoveRows(S) ==
    LET selected == RowSelector(S)
        turn[k \in 0 .. Len(selected)] ==
          IF k > 0 THEN RemoveOne(turn[k - 1], k)
          ELSE [data |-> aoData, rows |-> row, master |-> aiDisplayMaster,
                display |-> aiDisplay, sel |-> selected,
                start |-> iDisplayStart, ids |-> aIds]
        t == turn[Len(selected)]
    IN  /\ aoData' = t.data
        /\ row' = [o \in Objects |-> IF o \in Range(t.data)
                     THEN TellRows(t.rows, t.data)[o] ELSE Dropped(o, t.ids)]
        /\ aiDisplayMaster' = t.master /\ aiDisplay' = t.display
        /\ iDisplayStart' = t.start /\ aIds' = t.ids
        /\ last' = "edit"
        /\ UNCHANGED <<bDeferRender, order, search, colSearch, body>>

\* table.clear().
Clear ==
    /\ aoData' = <<>> /\ aiDisplayMaster' = <<>> /\ aiDisplay' = <<>>
    /\ aIds' = [d \in Ids |-> Nil]
    /\ row' = [o \in Objects |-> NewRow(Nil, 0)]
    /\ last' = "edit"
    /\ UNCHANGED <<bDeferRender, order, search, colSearch, iDisplayStart, body>>

Next == \/ \E o \in Objects, data \in Data : Add(o, data)
        \/ \E i \in Indexes, data \in Data : SetData(i, data)
        \/ \E S \in SUBSET Indexes \ {{}} : RemoveRows(S)
        \/ Clear
        \/ \E hold \in BOOLEAN : ReDraw(hold)
        \/ DrawPage
        \/ SortClick
        \/ \E text \in Searches : TypeSearch(text)
        \/ \E text \in Searches, column \in ColumnSearches :
             ApiSearch(text, column) /\ (text = search \/ column = colSearch)

Spec == Init /\ [][Next]_vars
-----------------------------------------------------------------------------
TypeOK ==
    /\ \A o \in Rows : /\ row[o].data \in Data
                       /\ row[o].filter \in Vals \cup {Nil} /\ row[o].sort \in Vals \cup {Nil}
    /\ aoData \in Seq(Objects) /\ body \in Seq(Objects)
    /\ aiDisplayMaster \in Seq(Indexes) /\ aiDisplay \in Seq(Indexes)
    /\ aIds \in [Ids -> Objects \cup {Nil}]
    /\ order \in {"asc", "desc", Nil} /\ {search, colSearch} \subseteq Searches
    /\ iDisplayStart \in Nat
    /\ last \in {"init", "edit", "draw", "redraw", "search"}

\* However rows were added, sorted, searched and removed, in whatever mixture
\* with and without draws: each row has its place in aiDisplayMaster once,
\* aiDisplay repeats none, and what a row object and its node say of their
\* index is where the row is.
IndexesAgree ==
    /\ Range(aiDisplayMaster) = Indexes /\ IsInjective(aiDisplayMaster)
    /\ IsInjective(aiDisplay)
    /\ \A i \in Indexes : /\ row[aoData[i]].idx = i
                          /\ row[aoData[i]].nTr # Nil => row[aoData[i]].nTr.index = i

\* A node shows the data its row has now, and so does everything cached.
NothingStale ==
    \A o \in Rows : /\ row[o].nTr # Nil => row[o].nTr.html = row[o].data.val
                    /\ row[o].filter \in {Nil, row[o].data.val}
                    /\ row[o].sort \in {Nil, row[o].data.val}

\* Searching what is already displayed finds what searching every row would:
\* after a search or a redraw, aiDisplay holds the rows that match both
\* searches and nothing else, in the order of aiDisplayMaster.
DisplayMatchesSearch ==
    last \in {"search", "redraw"} =>
        aiDisplay = Only(aiDisplayMaster, { i \in Indexes :
            row[aoData[i]].data.val \in Matches[search] \cap Matches[colSearch] })

\* After a redraw the rows stand in the order asked for, by the data they have
\* now and not by a value cached before row().data().
RedrawSorts ==
    (last = "redraw" /\ order # Nil) =>
        \A p, q \in DOMAIN aiDisplayMaster : p < q =>
            LET x == row[aoData[aiDisplayMaster[p]]].data.val
                y == row[aoData[aiDisplayMaster[q]]].data.val
            IN  IF order = "asc" THEN x <= y ELSE x >= y

\* Sorting keeps rows of equal value in the order they were in.
SortIsStable ==
    (last' = "redraw") =>
        \A p, q \in DOMAIN aiDisplayMaster :
            (p < q /\ row[aoData[aiDisplayMaster[p]]].data.val
                      = row[aoData[aiDisplayMaster[q]]].data.val)
            => \E u, v \in DOMAIN aiDisplayMaster' :
                  /\ u < v /\ aiDisplayMaster'[u] = aiDisplayMaster[p]
                  /\ aiDisplayMaster'[v] = aiDisplayMaster[q]

\* rows().remove() removes the rows that were selected, all of them and no
\* other, although each removal renumbers the rows behind it.
RemovesSelected ==
    Len(aoData') < Len(aoData) =>
        \A S \in SUBSET Indexes : (S # {} /\ RemoveRows(S)) =>
          Range(aoData') = Rows \ { aoData[i] : i \in S }

\* Through all of this the options of a selector divide the rows: each row is
\* either searched for or removed by the search, in either order, and the rows
\* of the current page are those a draw has put on the page.
SelectorsDivide ==
    /\ \A ordered \in {"current", "index"} :
         LET applied == RowIndexes("applied", ordered, "all")
             removed == RowIndexes("removed", ordered, "all")
         IN  /\ IsInjective(applied \o removed)
             /\ Range(applied \o removed) = Range(RowIndexes("none", ordered, "all"))
             /\ Range(applied) = Range(aiDisplay)
    /\ last \in {"draw", "redraw"} =>
         body = [k \in DOMAIN RowIndexes("none", "current", "current") |->
                   aoData[RowIndexes("none", "current", "current")[k]]]

\* row('#id'): the index from aIds, or else the nodes with that DOM id.
RowById(d) ==
    IF aIds[d] # Nil THEN {row[aIds[d]].idx}
    ELSE { row[o].nTr.index : o \in { p \in Rows : row[p].nTr # Nil /\ row[p].nTr.id = d } }

\* __row_selector's comment: "Want to always be able to select rows by id,
\* regardless of if the tr element has been created or not".
IdSelectsRow == \A i \in Indexes : RowById(row[aoData[i]].data.id) = {i}
=============================================================================
