----------------------------- MODULE TableOrder -----------------------------
(***************************************************************************)
(* The order of a table: what clicks and shift-clicks on headings make of  *)
(* aaSorting, the API's order(), columns().order() and order.fixed(), the  *)
(* flat list _fnSort works from, and the labels that tell a screen reader  *)
(* what a click would do.  Only a draw brings the labels up to date.       *)
(***************************************************************************)
EXTENDS PagingOps, FiniteSets, Functions

CONSTANTS Columns,
          asSorting, \* [Columns -> the directions its heading goes through]
          Sortable,  \* the columns with bSortable
          DataSorts, \* values of aDataSort: [Columns -> sequence of Columns]
          FixedOrders, \* values of aaSortingFixed: [pre, post], lists of entries
          MaxOrder,  \* bound on the entries of aaSorting
          Nil

VARIABLES aaSorting, \* entries [col, dir, idx]: idx is _idx, Nil if undefined
          fixed,     \* aaSortingFixed
          dataSort,  \* [Columns -> aDataSort]
          labels,    \* [Columns -> the direction its aria-label announces]
          drawn      \* whether a draw followed the last change of the order

vars == <<aaSorting, fixed, dataSort, labels, drawn>>

Dirs == {"asc", "desc"}
Entry(col, dir) == [col |-> col, dir |-> dir, idx |-> Nil]

\* $.inArray, and the element at an index, which may be undefined.
InArray(x, seq) ==
    IF x \in Range(seq) THEN (CHOOSE k \in DOMAIN seq : seq[k] = x
                                       /\ \A j \in DOMAIN seq : seq[j] = x => k <= j) - 1
    ELSE -1
At(seq, idx) == IF idx + 1 \in DOMAIN seq THEN seq[idx + 1] ELSE seq[1]

-----------------------------------------------------------------------------
(* _fnSortFlatten *)

\* An entry is given its index once, among the directions of the first column
\* it sorts by.
Indexed(e) ==
    IF e.idx # Nil THEN e
    ELSE [e EXCEPT !.idx = InArray(e.dir, asSorting[dataSort[e.col][1]])]
WithIndexes(entries) == [k \in DOMAIN entries |-> Indexed(entries[k])]

Nested(entries) == WithIndexes(fixed.pre \o entries \o fixed.post)
Sorts(e) == [j \in DOMAIN dataSort[e.col] |->
               [src |-> e.col, col |-> dataSort[e.col][j], dir |-> e.dir, index |-> e.idx]]
Flatten(entries) ==
    LET nested == Nested(entries)
        flat[k \in 0 .. Len(nested)] ==
          IF k = 0 THEN <<>> ELSE flat[k - 1] \o Sorts(nested[k])
    IN  flat[Len(nested)]

\* _fnSortAria: what the label of each heading says comes next.
LabelsOf(aSort) ==
    [c \in Columns |->
       IF c \notin Sortable THEN Nil
       ELSE IF aSort # <<>> /\ aSort[1].col = c THEN At(asSorting[c], aSort[1].index + 1)
       ELSE asSorting[c][1]]

\* A draw with these entries in aaSorting.
DrawWith(entries) ==
    /\ aaSorting' = WithIndexes(entries)
    /\ labels' = LabelsOf(Flatten(entries))
    /\ drawn' = TRUE
    /\ UNCHANGED <<fixed, dataSort>>

-----------------------------------------------------------------------------
(* _fnSortListener *)

NextIdx(e) == (IF e.idx = Nil THEN InArray(e.dir, asSorting[e.col]) ELSE e.idx) + 1
Over(e) == NextIdx(e) >= Len(asSorting[e.col])
Turned(e, idx) == [e EXCEPT !.dir = asSorting[e.col][idx + 1], !.idx = idx]
First(c) == [col |-> c, dir |-> asSorting[c][1], idx |-> 0]

\* A click: the column alone, turned over if it came first already.
Clicked(entries, c) ==
    IF entries # <<>> /\ entries[1].col = c
    THEN <<Turned(entries[1], IF Over(entries[1]) THEN 0 ELSE NextIdx(entries[1]))>>
    ELSE <<First(c)>>

\* With shift: the column's entry is turned over, or taken out after its last
\* direction unless it is the only one; a column without one is added.
ShiftClicked(entries, c) ==
    LET own == { k \in DOMAIN entries : entries[k].col = c }
        k == CHOOSE j \in own : \A i \in own : j <= i
    IN  IF own = {} THEN Append(entries, First(c))
        ELSE IF ~Over(entries[k]) THEN [entries EXCEPT ![k] = Turned(@, NextIdx(@))]
        ELSE IF Len(entries) = 1 THEN <<Turned(entries[1], 0)>>
        ELSE Cut(entries, k)

Click(c, shift) ==
    /\ c \in Sortable
    /\ LET entries == IF shift THEN ShiftClicked(aaSorting, c) ELSE Clicked(aaSorting, c)
       IN  Len(entries) <= MaxOrder /\ DrawWith(entries)

-----------------------------------------------------------------------------
(* The API *)

\* table.order(entries), columns(cols).order(dir).
Order(entries) ==
    /\ aaSorting' = entries
    /\ drawn' = FALSE
    /\ UNCHANGED <<fixed, dataSort, labels>>
ColumnsOrder(cols, dir) ==
    \E cs \in [1 .. Cardinality(cols) -> cols] :
         /\ \A i, j \in DOMAIN cs : i < j => cs[i] < cs[j]
         /\ Order([k \in DOMAIN cs |-> Entry(cs[k], dir)])

\* table.order.fixed(set).
OrderFixed(set) ==
    /\ fixed' = set
    /\ drawn' = FALSE
    /\ UNCHANGED <<aaSorting, dataSort, labels>>

Draw == DrawWith(aaSorting)

Init == /\ aaSorting = <<>> /\ fixed \in FixedOrders /\ dataSort \in DataSorts
        /\ labels = LabelsOf(Flatten(<<>>))
        /\ drawn = TRUE

Next == \/ \E c \in Columns, shift \in BOOLEAN : Click(c, shift)
        \/ \E c \in Columns, d \in Columns, dir \in Dirs, second \in Dirs :
             Order(<<Entry(c, dir), Entry(d, second)>>)
        \/ \E cols \in SUBSET Columns, dir \in Dirs :
             Cardinality(cols) <= MaxOrder /\ ColumnsOrder(cols, dir)
        \/ \E set \in FixedOrders : OrderFixed(set)
        \/ Draw

Spec == Init /\ [][Next]_vars
-----------------------------------------------------------------------------
TypeOK ==
    /\ \A k \in DOMAIN aaSorting :
         aaSorting[k] \in [col : Columns, dir : Dirs, idx : Nat \cup {-1, Nil}]
    /\ Len(aaSorting) <= MaxOrder
    /\ labels \in [Columns -> Dirs \cup {Nil}]

\* Of a table without a fixed order whose columns sort by their own values: the
\* label of each heading, which _fnSortAria works out for itself, announces the
\* direction a click on it will give, whatever clicks, shift-clicks and calls
\* of the API came before.
Plain == fixed.pre = <<>> /\ fixed.post = <<>> /\ \A c \in Columns : dataSort[c] = <<c>>
LabelTellsNext ==
    (drawn /\ Plain) => \A c \in Sortable : labels[c] = Clicked(aaSorting, c)[1].dir

\* Shift-clicks never take the order away altogether, nor touch what the other
\* columns have in it.
Pairs(s) == [k \in DOMAIN s |-> <<s[k].col, s[k].dir>>]
OfOthers(s, c) == Only(Pairs(s), (Columns \ {c}) \X Dirs)
ShiftKeepsOthers ==
    \A c \in Columns :
       Click(c, TRUE) => aaSorting' # <<>> /\ OfOthers(aaSorting', c) = OfOthers(aaSorting, c)

\* A click on the heading the table is ordered by gives another direction, if
\* the heading has another, also when it sorts by the values of other columns
\* that go through the same directions.
ClickTurnsOver ==
    \A c \in Columns :
          (/\ Click(c, FALSE) /\ aaSorting # <<>> /\ aaSorting[1].col = c
           /\ asSorting[c] \in {<<"asc", "desc">>, <<"desc", "asc">>}
           /\ asSorting[dataSort[c][1]] = asSorting[c])
          => aaSorting'[1].dir # aaSorting[1].dir
=============================================================================
