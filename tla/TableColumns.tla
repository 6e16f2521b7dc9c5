---------------------------- MODULE TableColumns ----------------------------
(***************************************************************************)
(* The columns of a DataTable on the page: the heading cells with their    *)
(* spans (_fnDetectHeader, _fnDrawHead), the cells of the rows that have a *)
(* node, and the child rows shown below a row.  Columns are shown and      *)
(* hidden while rows are still being created, drawn and expanded.          *)
(***************************************************************************)
EXTENDS PagingOps, FiniteSets, SequencesExt

CONSTANTS Columns,       \* 1 .. the number of columns
          RowCount,      \* rows of the table, in display order
          PageLength,
          Layouts,       \* headings: rows of cells [cell, colspan, rowspan]
          bSortCellsTop, \* which of several unique cells names a column
          Nil

VARIABLES layout,  \* aoHeader: which cell covers which column, row by row
          visible, \* the columns with bVisible
          head,    \* the heading rows on the page
          nTh,     \* the heading cell of each column, found at initialisation
          tr,      \* [row -> the columns whose cells its node holds, or Nil]
          details, \* [row -> its child row [span, shown], or Nil]
          listens, \* whether the events of child rows are attached
          page,    \* the rows drawn last
          tbody    \* what follows what in tbody: [row, child]

vars == <<layout, visible, head, nTh, tr, details, listens, page, tbody>>

TableRow == 1 .. RowCount
InOrder(S) == Only([j \in Columns |-> j], S)

-----------------------------------------------------------------------------
(* The heading *)

\* _fnDetectHeader: a cell of row i takes the first free column (fnShiftCol) and
\* the columns and rows its spans cover.  Every row of the layouts has a cell of
\* its own, so its nTr is the row itself.
Free(cells, j) == cells[j] = Nil /\ \A k \in 1 .. j - 1 : cells[k] # Nil
Place(grid, i, th) ==
    LET j == CHOOSE x \in DOMAIN grid[i] : Free(grid[i], x)
    IN  [p \in DOMAIN grid |-> [q \in DOMAIN grid[p] |->
           IF p - i \in 0 .. th.rowspan - 1 /\ q - j \in 0 .. th.colspan - 1
           THEN th ELSE grid[p][q]]]
PlaceRow(grid, i, ths) ==
    LET placed[k \in 0 .. Len(ths)] ==
          IF k = 0 THEN grid ELSE Place(placed[k - 1], i, ths[k])
    IN  placed[Len(ths)]
DetectHeader(trs, width) ==
    LET placed[i \in 0 .. Len(trs)] ==
          IF i = 0 THEN [p \in 1 .. Len(trs) |-> [q \in 1 .. width |-> Nil]]
          ELSE PlaceRow(placed[i - 1], i, trs[i])
    IN  placed[Len(trs)]

\* _fnGetUniqueThs: the heading cell of each column, among those of one column.
UniqueTh(grid, j) ==
    LET unique == { i \in DOMAIN grid : grid[i][j].colspan = 1 }
    IN  grid[IF bSortCellsTop THEN CHOOSE i \in unique : \A k \in unique : i <= k
             ELSE CHOOSE i \in unique : \A k \in unique : i >= k][j]

\* _fnDrawHead: the layout without the hidden columns (aoLocal), each cell put
\* where it starts with the spans it has left; each row is emptied before it
\* gets its cells, since no two rows of the layout share an nTr.
Local(grid, shown) ==
    [i \in DOMAIN grid |->
       [j \in 1 .. Cardinality(shown) |-> grid[i][InOrder(shown)[j]].cell]]
Column(local, j) == [i \in DOMAIN local |-> local[i][j]]
Starts(local, i, j) == /\ i = 1 \/ local[i - 1][j] # local[i][j]
                       /\ j = 1 \/ local[i][j - 1] # local[i][j]
Alike(cells, j) ==
    CHOOSE k \in 1 .. Len(cells) - j + 1 : /\ \A x \in 0 .. k - 1 : cells[j + x] = cells[j]
                                           /\ j + k <= Len(cells) => cells[j + k] # cells[j]
DrawTh(local, i, j) ==
    [cell |-> local[i][j], colspan |-> Alike(local[i], j), rowspan |-> Alike(Column(local, j), i)]
DrawTr(local, i) ==
    LET starts == Only([j \in DOMAIN local[i] |-> j],
                       { j \in DOMAIN local[i] : Starts(local, i, j) })
    IN  [k \in DOMAIN starts |-> DrawTh(local, i, starts[k])]
DrawHeadOf(grid, shown) ==
    [i \in DOMAIN grid |-> DrawTr(Local(grid, shown), i)]

\* Were the heading drawn before the column is shown or hidden:
DrawHeadEarly == head' = DrawHeadOf(layout, visible)
\* __setColumnVis draws it afterwards.
DrawHead == head' = DrawHeadOf(layout, visible')

-----------------------------------------------------------------------------
(* Rows and child rows *)

\* tbody after `rows` are drawn: _fnDraw detaches everything and appends the
\* rows; the draw event puts the shown child rows behind theirs.
Node(i) == [row |-> i, child |-> FALSE]
Child(i) == [row |-> i, child |-> TRUE]
Shown(i) == details[i] # Nil /\ details[i].shown
Nodes == [row : TableRow, child : BOOLEAN]
Behind(trs, S) ==
    LET put[k \in 0 .. Len(trs)] ==
          IF k = 0 THEN <<>>
          ELSE IF ~trs[k].child /\ trs[k].row \in S
               THEN put[k - 1] \o <<trs[k], Child(trs[k].row)>>
               ELSE Append(put[k - 1], trs[k])
    IN  put[Len(trs)]
BodyOf(rows) ==
    Behind([k \in DOMAIN rows |-> Node(rows[k])],
           IF listens THEN { i \in TableRow : Shown(i) } ELSE {})

\* jQuery's detach and insertAfter; nothing happens behind a row not in tbody.
Detach(trs, i) == Only(trs, Nodes \ {Child(i)})
InsertAfter(trs, i) == Behind(Detach(trs, i), {i})

\* _fnVisibleToColumnIndex, _fnColumnIndexToVisible, and the selector
\* "n:visible", which counts from the right if n is negative.
VisibleToColumn(n) == IF n + 1 \in 1 .. Cardinality(visible) THEN InOrder(visible)[n + 1] ELSE Nil
ColumnToVisible(j) ==
    IF j \in visible THEN Cardinality({ c \in visible : c < j }) ELSE Nil
VisibleSelector(n) ==
    VisibleToColumn(IF n < 0 THEN Cardinality(visible) + n ELSE n)

Init == /\ \E trs \in Layouts :
             /\ layout = DetectHeader(trs, Cardinality(Columns))
             /\ nTh = [j \in Columns |-> UniqueTh(layout, j).cell]
        /\ visible \in (SUBSET Columns) \ {{}}
        /\ head = DrawHeadOf(layout, visible)
        /\ tr = [i \in TableRow |-> Nil]
        /\ details = [i \in TableRow |-> Nil]
        /\ listens = FALSE
        /\ page = <<>> /\ tbody = <<>>

\* _fnDraw of the page starting at row `start`; _fnCreateTr gives a new node
\* the cells of the visible columns only.
Draw(start) ==
    LET rows == [k \in 1 .. Min({PageLength, RowCount - start}) |-> start + k]
    IN  /\ page' = rows
        /\ tbody' = BodyOf(rows)
        /\ tr' = [i \in TableRow |-> IF i \in ToSet(rows) /\ tr[i] = Nil
                                     THEN InOrder(visible) ELSE tr[i]]
        /\ UNCHANGED <<layout, visible, head, nTh, details, listens>>

\* __setColumnVis: cells of rows with a node are inserted before the next
\* visible column's, or removed; hidden cells are kept.
CellsAfter(cells, j, vis) ==
    LET later == { c \in visible : c > j }
        before == CHOOSE c \in later : \A d \in later : c <= d
        k == CHOOSE x \in DOMAIN cells : cells[x] = before
    IN  IF ~vis THEN Only(cells, Columns \ {j})
        ELSE IF later = {} THEN Append(cells, j)
        ELSE SubSeq(cells, 1, k - 1) \o <<j>> \o SubSeq(cells, k, Len(cells))

\* column(j).visible(vis), with the column-visibility event that fits the
\* child rows to the table.
SetVisible(j, vis) ==
    /\ (j \in visible) # vis
    /\ visible' = IF vis THEN visible \cup {j} ELSE visible \ {j}
    /\ visible' # {}
    /\ tr' = [i \in TableRow |-> IF tr[i] = Nil THEN Nil ELSE CellsAfter(tr[i], j, vis)]
    /\ DrawHead
    /\ details' = [i \in TableRow |->
                     IF listens /\ details[i] # Nil
                     THEN [details[i] EXCEPT !.span = Cardinality(visible')] ELSE details[i]]
    /\ UNCHANGED <<layout, nTh, listens, page, tbody>>

\* row(i).child(data): a new child row, shown if the old one was.
AddChild(i) ==
    LET shown == Shown(i)
    IN  /\ details' = [details EXCEPT ![i] = [span |-> Cardinality(visible), shown |-> shown]]
        /\ tbody' = IF shown THEN InsertAfter(tbody, i) ELSE Detach(tbody, i)
        /\ UNCHANGED <<layout, visible, head, nTh, tr, listens, page>>

\* row(i).child.show() and .hide(), which attach the events.
ShowChild(i, show) ==
    /\ details[i] # Nil
    /\ details' = [details EXCEPT ![i].shown = show]
    /\ tbody' = IF show THEN InsertAfter(tbody, i) ELSE Detach(tbody, i)
    /\ listens' = TRUE
    /\ UNCHANGED <<layout, visible, head, nTh, tr, page>>

\* row(i).child.remove().
RemoveChild(i) ==
    /\ details[i] # Nil
    /\ details' = [details EXCEPT ![i] = Nil]
    /\ tbody' = Detach(tbody, i)
    /\ UNCHANGED <<layout, visible, head, nTh, tr, listens, page>>

Next == \/ \E start \in 0 .. RowCount - 1 : start % PageLength = 0 /\ Draw(start)
        \/ \E j \in Columns, vis \in BOOLEAN : SetVisible(j, vis)
        \/ \E i \in TableRow : \/ AddChild(i) \/ RemoveChild(i)
                               \/ \E show \in BOOLEAN : ShowChild(i, show)

Spec == Init /\ [][Next]_vars
-----------------------------------------------------------------------------
TypeOK ==
    /\ visible \subseteq Columns
    /\ tr \in [TableRow -> Seq(Columns) \cup {Nil}]
    /\ \A i \in TableRow : details[i] = Nil
                           \/ details[i] \in [span : Columns, shown : BOOLEAN]
    /\ listens \in BOOLEAN /\ page \in Seq(TableRow)
    /\ tbody \in Seq(Nodes)

\* Whatever columns were hidden and shown again, before or after a row had a
\* node: its cells are those of the visible columns in order, and a column's
\* cell is where the column's number among the visible ones says.
CellsInPlace ==
    \A i \in TableRow : tr[i] # Nil =>
      /\ tr[i] = InOrder(visible)
      /\ \A j \in visible : tr[i][ColumnToVisible(j) + 1] = j
      /\ tr[i][Len(tr[i])] = VisibleSelector(-1)

\* In headings with cells that span columns and rows: a browser that lays out
\* the heading again finds each visible column under its own cells, the cell
\* that sorts it included, and no cell beside them.
HeadingsStay ==
    LET cols == InOrder(visible)
        again == DetectHeader(head, Cardinality(Columns))
    IN  /\ \A i \in DOMAIN layout, j \in Columns :
             IF j > Len(cols) THEN again[i][j] = Nil
             ELSE again[i][j] # Nil /\ again[i][j].cell = layout[i][cols[j]].cell
        /\ \A j \in DOMAIN cols : \E i \in DOMAIN layout : again[i][j].cell = nTh[cols[j]]

\* A child row stands in the table exactly when it was asked to be shown and
\* its row is on the page, right behind it, through every draw in between.
ChildRowsInPlace ==
    /\ Only(tbody, { Node(i) : i \in TableRow }) = [k \in DOMAIN page |-> Node(page[k])]
    /\ \A i \in { page[k] : k \in DOMAIN page } :
         Shown(i) <=> \E k \in DOMAIN tbody : /\ tbody[k] = Node(i) /\ k < Len(tbody)
                                              /\ tbody[k + 1] = Child(i)
    /\ \A k \in DOMAIN tbody : tbody[k].child => Shown(tbody[k].row)
=============================================================================
