---------------------------- MODULE PageWidgets ----------------------------
(***************************************************************************)
(* The widgets of the pages, one per behaviour: the table's pager, its     *)
(* rows, heading and child rows, construction, column options, order and   *)
(* cells, and the form's validation, the checks of a field and the         *)
(* messages.  They keep no state in common, so `widget` says which one this *)
(* behaviour is about and the variables of the others hold Nil (the pager  *)
(* is one of an empty table).                                              *)
(***************************************************************************)
EXTENDS TablePaging

\* The constants of each widget's module.
CONSTANTS Nil,
          RowsObjects, RowsIds, RowsVals, RowsSearches, RowsNoSearch, RowsColumnSearches,
          RowsMatches, RowsExtends, RowsPageLength, RowsNewIds,
          HeadingColumns, HeadingRowCount, HeadingPageLength, HeadingLayouts,
          HeadingBSortCellsTop,
          SetupTables, SetupIdOf, SetupOptions, SetupStarts, SetupRowCount, SetupMaxInstances,
          OptionsNames, OptionsCompat, OptionsValues, OptionsDefault, OptionsHeadings,
          OptionsMarked, OptionsTargets, OptionsMaxDefs, OptionsMaxWrites,
          OrderColumns, OrderSortable, OrderMaxOrder, OrderAsSorting, OrderDataSorts,
          OrderFixedOrders,
          CellsColumns, CellsMData, CellsTexts, CellsEmpty, CellsKind, CellsItems,
          CellsRowSelectors, CellsColumnSelectors, CellsMaxRows,
          FormFields, FormValues, FormFills, FormEmpty, FormChecks, FormRejects, FormOnChange,
          FormRemoteField, FormRemote, FormMaxAsks, FormMaxForms,
          FieldNames, FieldRestricted, FieldRegistered, FieldVersions, FieldAttributes,
          MessagesFiles, MessagesMaxLoads

\* The contents scripts give the form are values of its fields.
ASSUME FormAssumption ==
    /\ FormRemoteField \in FormFields
    /\ \A vals \in FormFills : /\ vals \in [FormFields -> UNION { FormValues[f] : f \in FormFields }]
                               /\ \A f \in FormFields : vals[f] \in FormValues[f]

VARIABLES widget,
          bDeferRender, row, aoData, aiDisplayMaster, aiDisplay, aIds, order, search, colSearch,
          rowsStart, body, last,
          layout, visible, head, nTh, tr, details, listens, page, tbody,
          inst, settings, bodies, storage,
          defs, own, columns, written, writes, made,
          aaSorting, fixed, dataSort, labels, orderDrawn,
          rows, types,
          value, origin, result, lastResult, aliased, shown, class, failedOnce, xhrs, cache, runs, forms, formOk,
          validators, attributes, constraints, byName, added,
          catalog, locale, loads, spoken

rowVars == <<bDeferRender, row, aoData, aiDisplayMaster, aiDisplay, aIds, order, search,
             colSearch, rowsStart, body, last>>
columnVars == <<layout, visible, head, nTh, tr, details, listens, page, tbody>>
setupVars == <<inst, settings, bodies, storage>>
optionVars == <<defs, own, columns, written, writes, made>>
orderVars == <<aaSorting, fixed, dataSort, labels, orderDrawn>>
cellVars == <<rows, types>>
formVars == <<value, origin, result, lastResult, aliased, shown, class, failedOnce, xhrs, cache,
              runs, forms, formOk>>
fieldVars == <<validators, attributes, constraints, byName, added>>
messageVars == <<catalog, locale, loads, spoken>>
pageVars == <<widget, vars, rowVars, columnVars, setupVars, optionVars, orderVars, cellVars,
              formVars, fieldVars, messageVars>>

-----------------------------------------------------------------------------
Rows == INSTANCE TableRows WITH
    Objects <- RowsObjects, Ids <- RowsIds, Vals <- RowsVals, Searches <- RowsSearches,
    NoSearch <- RowsNoSearch, ColumnSearches <- RowsColumnSearches, Matches <- RowsMatches,
    Extends <- RowsExtends, PageLength <- RowsPageLength, NewIds <- RowsNewIds,
    iDisplayStart <- rowsStart
Heading == INSTANCE TableColumns WITH
    Columns <- HeadingColumns, RowCount <- HeadingRowCount, PageLength <- HeadingPageLength,
    Layouts <- HeadingLayouts, bSortCellsTop <- HeadingBSortCellsTop
Setup == INSTANCE TableSetup WITH
    Tables <- SetupTables, IdOf <- SetupIdOf, Options <- SetupOptions, Starts <- SetupStarts,
    RowCount <- SetupRowCount, MaxInstances <- SetupMaxInstances, tbody <- bodies
Options == INSTANCE TableOptions WITH
    Names <- OptionsNames, Compat <- OptionsCompat, Values <- OptionsValues,
    Default <- OptionsDefault, Headings <- OptionsHeadings, Marked <- OptionsMarked,
    Targets <- OptionsTargets, MaxDefs <- OptionsMaxDefs, MaxWrites <- OptionsMaxWrites
Order == INSTANCE TableOrder WITH
    Columns <- OrderColumns, Sortable <- OrderSortable, MaxOrder <- OrderMaxOrder,
    asSorting <- OrderAsSorting, DataSorts <- OrderDataSorts, FixedOrders <- OrderFixedOrders,
    drawn <- orderDrawn
Cells == INSTANCE TableCells WITH
    Columns <- CellsColumns, mData <- CellsMData, Texts <- CellsTexts, Empty <- CellsEmpty,
    Kind <- CellsKind, Items <- CellsItems, RowSelectors <- CellsRowSelectors,
    ColumnSelectors <- CellsColumnSelectors, MaxRows <- CellsMaxRows
Form == INSTANCE ParsleyForm WITH
    Fields <- FormFields, Values <- FormValues, Fills <- FormFills, Empty <- FormEmpty,
    Checks <- FormChecks, Rejects <- FormRejects, OnChange <- FormOnChange,
    RemoteField <- FormRemoteField, Remote <- FormRemote, MaxAsks <- FormMaxAsks,
    MaxForms <- FormMaxForms
Field == INSTANCE ParsleyConstraints WITH
    Names <- FieldNames, Restricted <- FieldRestricted, Registered <- FieldRegistered,
    Versions <- FieldVersions, Attributes <- FieldAttributes
Messages == INSTANCE ParsleyMessages WITH
    Files <- MessagesFiles, MaxLoads <- MessagesMaxLoads

-----------------------------------------------------------------------------
\* What the language files of Parsley have in common: their messages are of the
\* checks it knows, one that sets the locale sets its own, and every call of
\* addCatalog has a default message.  Nil is no message and no table of them.
MessageTexts == [language : Messages!Locales, name : Messages!Names,
                 types : SUBSET Messages!Types]
MessageTables == [Messages!Names -> MessageTexts \cup {Nil}]
ASSUME MessagesAssumption ==
    /\ \A f \in MessagesFiles : /\ f.names \subseteq Messages!Names
                                /\ f.sets \in {Nil, f.locale}
                                /\ f.sets # Nil => "defaultMessage" \in f.names
    /\ Nil \notin MessageTexts /\ Nil \notin MessageTables

\* Values are compared by <; the empty search finds all of them, and what a
\* longer text finds, its beginning finds too.  Nil is no row object and no value.
ASSUME RowsAssumption ==
    /\ RowsVals \subseteq Int /\ Nil \notin RowsVals /\ Nil \notin RowsObjects
    /\ RowsMatches \in [RowsSearches -> SUBSET RowsVals]
    /\ RowsNoSearch \in RowsColumnSearches /\ RowsColumnSearches \subseteq RowsSearches
    /\ RowsMatches[RowsNoSearch] = RowsVals
    /\ \A s, t \in RowsSearches : <<s, t>> \in RowsExtends => RowsMatches[t] \subseteq RowsMatches[s]
    /\ RowsPageLength \in Nat \ {0} \/ RowsPageLength = All

\* No column's path is that of another or leads to it.  What is below a path that
\* leads to no object is undefined, in the objects given to row.add() too, and a
\* column finds no object there.  Nil is no type.
CellsContents == CellsTexts \cup {Cells!Undefined, Cells!Null, Cells!Object}
CellsWhole(item) ==
    /\ item \in [Cells!Paths -> CellsContents]
    /\ \A q, p \in Cells!Paths :
         q \in Cells!Before(p) /\ item[q] # Cells!Object => item[p] = Cells!Undefined
    /\ \A c \in CellsColumns : item[CellsMData[c]] # Cells!Object
ASSUME CellsAssumption ==
    /\ CellsMData \in [CellsColumns -> Seq(STRING)]
    /\ \A c, d \in CellsColumns : /\ CellsMData[c] \notin Cells!Before(CellsMData[d])
                                  /\ CellsMData[c] = CellsMData[d] => c = d
    /\ CellsEmpty \in CellsTexts /\ Nil \notin Cells!Types
    /\ CellsTexts \cap {Cells!Undefined, Cells!Null, Cells!Object} = {}
    /\ \A item \in CellsItems : CellsWhole(item)

\* The columns of the heading are numbered; every option has two names, its own,
\* and Nil is no value of one.
ASSUME OptionsAssumption ==
    /\ IsFiniteSet(OptionsHeadings) /\ OptionsHeadings = 1 .. Cardinality(OptionsHeadings)
    /\ OptionsTargets \subseteq [kind : {"number", "_all", "class"}, n : Int]
    /\ OptionsMaxDefs \in Nat /\ Nil \notin OptionsValues
    /\ \A m, n \in OptionsNames :
         m.new # n.old /\ ((m.new = n.new \/ m.old = n.old) => m = n)

\* Every heading goes through some directions, every column sorts by the values
\* of some columns, and the entries of a fixed order have no index yet.  An order
\* of two entries is within the bound.
OrderSequences == Seq(OrderColumns) \ {<<>>}
OrderDirections == Seq({"asc", "desc"}) \ {<<>>}
OrderFixedEntries == Seq([col : OrderColumns, dir : {"asc", "desc"}, idx : {Nil}])
ASSUME OrderAssumption ==
    /\ IsFiniteSet(OrderColumns) /\ OrderSortable \subseteq OrderColumns
    /\ OrderAsSorting \in [OrderColumns -> OrderDirections]
    /\ OrderDataSorts \subseteq [OrderColumns -> OrderSequences]
    /\ OrderFixedOrders \subseteq [pre : OrderFixedEntries, post : OrderFixedEntries]
    /\ OrderMaxOrder \in Nat /\ OrderMaxOrder >= 2 /\ Nil \notin Int

\* The columns are numbered from the left; Nil is no child row and no cell.  The
\* heading of a page has no holes, its cells cover rectangles and end with its
\* last row, and every column has a cell of its own.  So has every row:
\* _fnDetectHeader gives a row without one the nTr of the row above whose cells
\* cover it, and _fnDrawHead would empty that row again.
HeadingThs == [cell : STRING, colspan : Nat \ {0}, rowspan : Nat \ {0}]
HeadingWhole(grid) ==
    /\ \A i \in DOMAIN grid, j \in HeadingColumns : grid[i][j] \in HeadingThs
    /\ \A i, k \in DOMAIN grid, j, l \in HeadingColumns :
         grid[i][j].cell = grid[k][l].cell =>
           \A p \in (i .. k) \cup (k .. i), q \in (j .. l) \cup (l .. j) :
             grid[p][q].cell = grid[i][j].cell
    /\ \A j \in HeadingColumns : \E i \in DOMAIN grid : grid[i][j].colspan = 1
ASSUME HeadingAssumption ==
    /\ IsFiniteSet(HeadingColumns) /\ HeadingColumns = 1 .. Cardinality(HeadingColumns)
    /\ HeadingRowCount \in Nat /\ HeadingPageLength \in Nat \ {0}
    /\ Nil \notin [span : HeadingColumns, shown : BOOLEAN] /\ Nil \notin HeadingThs
    /\ \A trs \in HeadingLayouts :
         /\ trs \in Seq(Seq(HeadingThs))
         /\ \A i \in DOMAIN trs :
              /\ trs[i] # <<>>
              /\ \A k \in DOMAIN trs[i] : i + trs[i][k].rowspan - 1 <= Len(trs)
         /\ HeadingWhole(Heading!DetectHeader(trs, Cardinality(HeadingColumns)))

\* How a table may be set up.
ASSUME SetupAssumption ==
    /\ SetupOptions \subseteq [source : {"dom", "ajax", "ssp"}, state : {"no", "now", "later"},
                               language : BOOLEAN, again : {"retrieve", "destroy", "no"}]
    /\ SetupStarts \subseteq Nat /\ SetupRowCount \in Nat

\* The HTML attributes stand for validators that may be registered.  Nil is no
\* constraint of a field and no version of a validator.
FieldConstraints == [name : FieldNames, version : FieldVersions, dom : BOOLEAN]
ASSUME FieldAssumption ==
    /\ IsFiniteSet(FieldNames) /\ FieldRegistered \subseteq FieldNames /\ FieldVersions # {}
    /\ \A set \in FieldAttributes : Field!Html5Names(set) \in Seq(FieldNames)
    /\ Nil \notin FieldConstraints /\ Nil \notin FieldVersions
-----------------------------------------------------------------------------
Off(variable) == variable = Nil
NoPager == iDisplayStart = 0 /\ iDisplayLength = 1 /\ records = 0 /\ drawn = Nil
NoRows == /\ Off(bDeferRender) /\ Off(row) /\ Off(aoData) /\ Off(aiDisplayMaster) /\ Off(aiDisplay)
          /\ Off(aIds) /\ Off(order) /\ Off(search) /\ Off(colSearch) /\ Off(rowsStart) /\ Off(body)
          /\ Off(last)
NoColumns == /\ Off(layout) /\ Off(visible) /\ Off(head) /\ Off(nTh) /\ Off(tr) /\ Off(details)
             /\ Off(listens) /\ Off(page) /\ Off(tbody)
NoSetup == Off(inst) /\ Off(settings) /\ Off(bodies) /\ Off(storage)
NoOptions == Off(defs) /\ Off(own) /\ Off(columns) /\ Off(written) /\ Off(writes) /\ Off(made)
NoOrder == Off(aaSorting) /\ Off(fixed) /\ Off(dataSort) /\ Off(labels) /\ Off(orderDrawn)
NoCells == Off(rows) /\ Off(types)
NoForm == /\ Off(value) /\ Off(origin) /\ Off(result) /\ Off(lastResult) /\ Off(aliased)
          /\ Off(shown) /\ Off(class)
          /\ Off(failedOnce) /\ Off(xhrs) /\ Off(cache) /\ Off(runs) /\ Off(forms) /\ Off(formOk)
NoField == Off(validators) /\ Off(attributes) /\ Off(constraints) /\ Off(byName) /\ Off(added)
NoMessages == Off(catalog) /\ Off(locale) /\ Off(loads) /\ Off(spoken)

PageInit ==
    /\ widget \in {"pager", "rows", "heading", "setup", "options", "order", "cells",
                   "form", "field", "messages"}
    /\ IF widget = "pager" THEN Init ELSE NoPager
    /\ IF widget = "rows" THEN Rows!Init ELSE NoRows
    /\ IF widget = "heading" THEN Heading!Init ELSE NoColumns
    /\ IF widget = "setup" THEN Setup!Init ELSE NoSetup
    /\ IF widget = "options" THEN Options!Init ELSE NoOptions
    /\ IF widget = "order" THEN Order!Init ELSE NoOrder
    /\ IF widget = "cells" THEN Cells!Init ELSE NoCells
    /\ IF widget = "form" THEN Form!Init ELSE NoForm
    /\ IF widget = "field" THEN Field!Init ELSE NoField
    /\ IF widget = "messages" THEN Messages!Init ELSE NoMessages

\* Each widget's step leaves the variables of the others alone.
PageNext ==
    /\ UNCHANGED widget
    /\ \/ widget = "pager" /\ Next
       \/ widget # "pager" /\ UNCHANGED vars
    /\ \/ widget = "rows" /\ Rows!Next
       \/ widget # "rows" /\ UNCHANGED rowVars
    /\ \/ widget = "heading" /\ Heading!Next
       \/ widget # "heading" /\ UNCHANGED columnVars
    /\ \/ widget = "setup" /\ Setup!Next
       \/ widget # "setup" /\ UNCHANGED setupVars
    /\ \/ widget = "options" /\ Options!Next
       \/ widget # "options" /\ UNCHANGED optionVars
    /\ \/ widget = "order" /\ Order!Next
       \/ widget # "order" /\ UNCHANGED orderVars
    /\ \/ widget = "cells" /\ Cells!Next
       \/ widget # "cells" /\ UNCHANGED cellVars
    /\ \/ widget = "form" /\ Form!Next
       \/ widget # "form" /\ UNCHANGED formVars
    /\ \/ widget = "field" /\ Field!Next
       \/ widget # "field" /\ UNCHANGED fieldVars
    /\ \/ widget = "messages" /\ Messages!Next
       \/ widget # "messages" /\ UNCHANGED messageVars

PageSpec == PageInit /\ [][PageNext]_pageVars
-----------------------------------------------------------------------------
\* The types of whichever widget runs; a field of the form is marked as an error
\* exactly when its last result was one and lists errors of that result only.
TypesOK ==
    CASE widget = "pager" -> TypeOK
      [] widget = "rows" -> Rows!TypeOK
      [] widget = "heading" -> Heading!TypeOK
      [] widget = "setup" -> Setup!TypeOK
      [] widget = "options" -> Options!TypeOK
      [] widget = "order" -> Order!TypeOK
      [] widget = "cells" -> Cells!TypeOK
      [] widget = "form" -> Form!TypeOK
      [] widget = "field" -> Field!TypeOK
      [] widget = "messages" -> Messages!TypeOK

\* After any page changes, searches and removals, page.info() and the pager
\* name the same page, and clicks reach every page.
PagerAgrees == widget = "pager" => OnePageNumber /\ ButtonsReach

\* Rows added, changed, sorted, searched and removed with and without draws:
\* the indexes, the nodes, the caches, the ids and the selectors agree with the
\* data, row by row and cell by cell.  On the page the cells of a row are those
\* of the visible columns, and its child row stands behind it when it is shown.
RowsAgree ==
    CASE widget = "rows" -> /\ Rows!IndexesAgree /\ Rows!NothingStale
                            /\ Rows!DisplayMatchesSearch /\ Rows!RedrawSorts
                            /\ Rows!SelectorsDivide /\ Rows!IdSelectsRow
      [] widget = "cells" -> Cells!CellsAgree
      [] widget = "heading" -> Heading!CellsInPlace /\ Heading!ChildRowsInPlace
      [] OTHER -> TRUE

\* What a step may not do to what it is not about: sorting keeps equal rows in
\* their order, removing removes the rows selected and no other, a cell written
\* reads back and changes no other, a shift-click keeps the other columns'
\* order, a click turns the order over, and binding a field's attributes keeps
\* the checks the page added.
RowsKept ==
    [][ CASE widget = "rows" -> Rows!SortIsStable /\ Rows!RemovesSelected
          [] widget = "cells" -> Cells!ReadsBack
          [] widget = "order" -> Order!ShiftKeepsOthers /\ Order!ClickTurnsOver
          [] widget = "field" -> Field!BoundAsDeclared
          [] OTHER -> TRUE ]_pageVars

\* Columns hidden and shown in headings that span: each column stays under its
\* own heading cells.
HeadingsAgree == widget = "heading" => Heading!HeadingsStay

\* Tables made, made again and destroyed, with files and answers on their way:
\* each is built once, and the registry has none twice.
SetupOnce == widget = "setup" => Setup!BuiltOnce /\ Setup!RegistryUnique

\* The saved state survives: a table is completed on the page it was left on,
\* and what arrives for a destroyed table does not change what is saved.
SavedStateKept ==
    [][ widget = "setup" => Setup!SavedPageKept /\ Setup!DestroyedSavesNothing ]_pageVars

\* What was asked for is what is in effect: of the column definitions, of the
\* names an option has had, and of a heading's label against its click.
OptionsAndOrder ==
    /\ widget = "options" => Options!Precedence /\ Options!LastWordCounts
    /\ widget = "order" => Order!LabelTellsNext

\* A submission is let through only if the values it was made with were accepted
\* (not those typed while it waited), the errors follow the typing, a field keeps
\* the checks it was given, and a failed check shows its message in the language
\* that was loaded last.
FormChecked ==
    /\ widget = "form" => Form!SentWasChecked /\ Form!ErrorsFollowTyping
    /\ widget = "field" => Field!ListAndMapAgree /\ Field!AddedStays
    /\ widget = "messages" => Messages!MessageIsSpoken /\ Messages!OwnMessageShown
=============================================================================
