----------------------------- MODULE TableCells -----------------------------
(***************************************************************************)
(* The cells of a client-side table: where `data: "name.first"` of a       *)
(* column leads in a row's object, for reading and for writing; the cell   *)
(* that cell(rows, columns) picks; the type found in a column, which a     *)
(* change of the data puts in doubt; and the sort keys cached for it.      *)
(* Paths with array or function notation are left out, as are two columns  *)
(* with the same path and a column whose path leads on to another's.       *)
(***************************************************************************)
EXTENDS Integers, FiniteSets, SequencesExt

CONSTANTS Columns,   \* 1 .. the number of columns
          mData,     \* [Columns -> path: sequence of keys]
          Texts,     \* what a cell may hold
          Empty,     \* the empty text, sDefaultContent of every column
          Kind,      \* [Texts -> what the detectors tell apart]
          Items,     \* objects given to row.add()
          RowSelectors, ColumnSelectors, \* sequences of numbers, from 0
          MaxRows,
          Nil

VARIABLES rows,  \* aoData: [item, key, html]: _aData, _aSortData and the cells
          types  \* [Columns -> sType, Nil until it is detected]

vars == <<rows, types>>

\* An object: at each path undefined, null, an object of its own or a text.
Undefined == "undefined"
Null == "null"
Object == "{}"
Before(path) == { SubSeq(path, 1, n) : n \in 1 .. Len(path) - 1 }
Paths == UNION { {mData[c]} \cup Before(mData[c]) : c \in Columns }

\* _fnGetObjectDataFn and _fnGetCellData: undefined where a step is missing.
Read(item, path) ==
    IF \A q \in Before(path) : item[q] = Object THEN item[path] ELSE Undefined
CellText(item, c) ==
    LET cellData == Read(item, mData[c])
    IN  IF cellData \in {Undefined, Null} THEN Empty ELSE cellData

\* _fnSetObjectDataFn: missing steps become objects; a text on the way throws.
WriteThrows(item, path) == \E q \in Before(path) : item[q] \in Texts
WriteFresh(item, path, text) ==
    [q \in Paths |-> IF q = path THEN text
                     ELSE IF q \in Before(path) THEN Object
                     ELSE IF q[1] = path[1] THEN Undefined ELSE item[q]]
Write(item, path, text) ==
    [q \in Paths |-> IF q = path THEN text
                     ELSE IF q \in Before(path) THEN Object ELSE item[q]]

-----------------------------------------------------------------------------
(* Types *)

\* DataTable.ext.type.detect, in the order they are tried.
Detectors == <<"num", "date", "num-fmt", "html-num", "html-num-fmt">>
Accepts(type, text) ==
    Kind[text] \in
      CASE type = "num" -> {"empty", "number"}
        [] type = "date" -> {"empty", "date"}
        [] type = "num-fmt" -> {"empty", "number", "formatted"}
        [] type = "html-num" -> {"empty", "number", "html-number"}
        [] type = "html-num-fmt" ->
             {"empty", "number", "formatted", "html-number", "html-formatted"}
        [] type = "html" -> {"empty", "html-number", "html-formatted", "html"}

\* _fnColumnTypes: the first that accepts every cell; html if it accepts one.
DetectedType(c) ==
    LET Fits(type) == \A i \in DOMAIN rows : Accepts(type, CellText(rows[i].item, c))
        fitting == { k \in DOMAIN Detectors : Fits(Detectors[k]) }
    IN  CASE rows = <<>> -> "string"
          [] rows # <<>> /\ fitting # {} ->
               Detectors[CHOOSE k \in fitting : \A j \in fitting : k <= j]
          [] OTHER -> IF \E i \in DOMAIN rows : Accepts("html", CellText(rows[i].item, c))
                      THEN "html" ELSE "string"
ColumnTypes == [c \in Columns |-> IF types[c] = Nil THEN DetectedType(c) ELSE types[c]]

\* The key a type's "-pre" function makes of a text; only the empty string of
\* types string and html matters, which is falsy.
OrderKey(type, text) == [type |-> type, text |-> text]

\* _fnSortData makes the keys it does not find; an empty string is not found.
Cached(key) == key # Nil /\ ~(key.text = Empty /\ key.type \in {"string", "html"})
SortData(c, type) ==
    [i \in DOMAIN rows |->
       IF Cached(rows[i].key[c]) THEN rows[i]
       ELSE [rows[i] EXCEPT !.key[c] = OrderKey(type, CellText(rows[i].item, c))]]

-----------------------------------------------------------------------------
(* Selecting cells *)

\* _selector_run leaves out what it has already; a row number must be that of
\* a row, a column number counts from the right if it is negative.
Unique(s) == FoldLeft(LAMBDA out, e : IF e \in ToSet(out) THEN out ELSE Append(out, e), <<>>, s)
RowsPicked(sel) == Unique(SelectSeq(sel, LAMBDA n : n + 1 \in DOMAIN rows))
ColumnsPicked(sel) ==
    Unique([k \in DOMAIN sel |-> IF sel[k] >= 0 THEN sel[k] ELSE Cardinality(Columns) + sel[k]])

\* cells(rows, columns), and the one cell() leaves of them.
Cells(rowSel, colSel) ==
    FlattenSeq([i \in DOMAIN RowsPicked(rowSel) |->
      [j \in DOMAIN ColumnsPicked(colSel) |->
         [row |-> RowsPicked(rowSel)[i] + 1, column |-> ColumnsPicked(colSel)[j] + 1]]])
SelectorFirst(cells) == { cells[n] : n \in {1} \cap DOMAIN cells }
Cell(rowSel, colSel) == SelectorFirst(Cells(rowSel, colSel))

-----------------------------------------------------------------------------
NoKeys == [c \in Columns |-> Nil]
Shown(item) == [c \in Columns |-> CellText(item, c)]

\* row.add(item): _fnAddData puts every type in doubt.
TypesForgotten == [c \in Columns |-> Nil]
Add(item) ==
    /\ Len(rows) < MaxRows
    /\ rows' = Append(rows, [item |-> item, key |-> NoKeys, html |-> Shown(item)])
    /\ types' = TypesForgotten

\* row(i).remove().
RemoveRow(i) == rows' = RemoveAt(rows, i) /\ UNCHANGED types

\* cell(rowSel, colSel).data(text): written, then _fnInvalidate of the cell.
SetCellData(item, c, text) == Write(item, mData[c], text)
SetCell(rowSel, colSel, text) ==
    \E cell \in Cell(rowSel, colSel) :
       LET row == rows[cell.row]
           item == SetCellData(row.item, cell.column, text)
       IN  /\ cell.column \in Columns
           /\ ~WriteThrows(row.item, mData[cell.column])
           /\ rows' = [rows EXCEPT ![cell.row] =
                         [item |-> item, key |-> NoKeys,
                          html |-> [@.html EXCEPT ![cell.column] = CellText(item, cell.column)]]]
           /\ types' = [types EXCEPT ![cell.column] = Nil]

\* The table is ordered by column c (_fnSort).
Sort(c) ==
    /\ types' = ColumnTypes
    /\ rows' = SortData(c, types'[c])

Init == rows = <<>> /\ types = [c \in Columns |-> Nil]

Next == \/ \E item \in Items : Add(item)
        \/ \E i \in DOMAIN rows : RemoveRow(i)
        \/ \E rowSel \in RowSelectors, colSel \in ColumnSelectors, text \in Texts :
             SetCell(rowSel, colSel, text)
        \/ \E c \in Columns : Sort(c)

Spec == Init /\ [][Next]_vars
-----------------------------------------------------------------------------
Types == ToSet(Detectors) \cup {"html", "string"}
TypeOK ==
    /\ \A i \in DOMAIN rows :
         /\ rows[i].item \in [Paths -> Texts \cup {Undefined, Null, Object}]
         /\ rows[i].html \in [Columns -> Texts]
         /\ rows[i].key \in [Columns -> [type : Types, text : Texts] \cup {Nil}]
    /\ types \in [Columns -> Types \cup {Nil}]

\* Through rows added and removed and cells written: every node shows what its
\* row's object holds, every cached key is made from it, and the type a column
\* is ordered by still suits every cell.
CellsAgree ==
    /\ \A i \in DOMAIN rows, c \in Columns :
         LET text == CellText(rows[i].item, c)
         IN  /\ rows[i].html[c] = text
             /\ rows[i].key[c] # Nil => rows[i].key[c].text = text
             /\ types[c] \in ToSet(Detectors) => Accepts(types[c], text)

\* A cell written reads back, and nothing else in the table reads differently,
\* whatever objects were missing on the way to it.
Rewrites == /\ DOMAIN rows' = DOMAIN rows
            /\ \E i \in DOMAIN rows : rows'[i].item # rows[i].item
ReadsBack ==
    Rewrites =>
          \E rowSel \in RowSelectors, colSel \in ColumnSelectors, text \in Texts :
          \E cell \in Cell(rowSel, colSel) :
            /\ SetCell(rowSel, colSel, text)
            /\ \A i \in DOMAIN rows, c \in Columns :
                 Read(rows'[i].item, mData[c]) =
                   IF i = cell.row /\ c = cell.column THEN text ELSE Read(rows[i].item, mData[c])
=============================================================================
