---------------------------- MODULE TablePaging ----------------------------
(***************************************************************************)
(* Paging of a table whose rows are all in the browser: the API's page()   *)
(* and page.len(), the bootstrap page buttons, the length menu, and what   *)
(* searching, reloading and removing rows do to the page shown.  The page  *)
(* buttons are drawn with a page and are only redrawn with the next one,   *)
(* so a click may come from buttons that no longer match the table.        *)
(***************************************************************************)
EXTENDS PagingOps, FiniteSets

CONSTANTS Lengths,        \* page lengths offered, All among them
          MaxRecords,     \* bound on the rows of the table
          NumbersLength   \* DataTable.ext.pager.numbers_length

ASSUME LengthsAssumption == Lengths \subseteq (Nat \ {0}) \cup {All}
ASSUME RecordsAssumption == MaxRecords \in Nat
ASSUME NumbersAssumption == NumbersLength \in Nat

VARIABLES iDisplayStart,  \* settings._iDisplayStart
          iDisplayLength, \* settings._iDisplayLength
          records,        \* fnRecordsDisplay(): rows that pass the search
          drawn           \* what the last draw put on the page

vars == <<iDisplayStart, iDisplayLength, records, drawn>>

\* What _fnDraw leaves on the page: the rows, and the pager's page and pages.
Drawn(start, len, n) ==
    [start |-> start, end |-> DisplayEnd(start, len, n), total |-> n,
     page |-> PagerPage(start, len), pages |-> PageCount(len, n)]

Draw == drawn' = Drawn(iDisplayStart', iDisplayLength', records')

\* The first draw takes the start the options or the saved state ask for.
InitialStart(n, asked) == IF asked >= n THEN 0 ELSE asked

Init == /\ iDisplayLength \in Lengths
        /\ records \in 0 .. MaxRecords
        /\ \E p \in 0 .. MaxRecords :
             LET asked == IF iDisplayLength = All THEN 0 ELSE p * iDisplayLength
             IN  iDisplayStart = InitialStart(records, asked)
        /\ drawn = Drawn(iDisplayStart, iDisplayLength, records)

Goto(action) ==
    iDisplayStart' = PageStart(iDisplayStart, iDisplayLength, records, action)

\* table.page(action), without a draw.
Page(action) ==
    /\ Goto(action)
    /\ UNCHANGED <<iDisplayLength, records, drawn>>

\* The buttons of the full_numbers pager, as the last draw rendered them.
Enabled(button) ==
    CASE button.to \in {"first", "previous"} -> drawn.page > 0
      [] button.to \in {"next", "last"} -> drawn.page < drawn.pages - 1
      [] button.to = "page" -> button.page # Gap
Offered == LET shown == Numbers(drawn.page, drawn.pages, NumbersLength)
           IN  { shown[i] : i \in 1 .. Len(shown) }

Press(button) ==
    /\ Enabled(button)
    /\ ~(button.to = "page" /\ InfoPage(iDisplayStart, iDisplayLength) = button.page)
    /\ Goto(button)
    /\ UNCHANGED <<iDisplayLength, records>>
    /\ Draw
Click == \/ \E b \in Moves : Press(b)
         \/ \E n \in Offered : Press(ToPage(n))

SetLength(len) ==
    /\ iDisplayLength' = len
    /\ iDisplayStart' = LengthOverflow(iDisplayStart, len,
                                       DisplayEnd(iDisplayStart, len, records))
    /\ UNCHANGED records

\* table.page.len(len), without a draw.
PageLen(len) == SetLength(len) /\ UNCHANGED drawn

\* A choice in the length menu.
SelectLength(len) == SetLength(len) /\ Draw

\* A search, or a redraw that resets the paging, leaving n rows.
Search(n) ==
    /\ records' = n
    /\ iDisplayStart' = 0
    /\ UNCHANGED iDisplayLength
    /\ Draw

\* draw(false) or ajax.reload(callback, false): the page is held.
ReDrawHold(n) ==
    /\ records' = n
    /\ UNCHANGED <<iDisplayStart, iDisplayLength>>
    /\ Draw

\* row().remove(), without a draw.
RemoveRow ==
    /\ records > 0
    /\ records' = records - 1
    /\ iDisplayStart' = LengthOverflow(iDisplayStart, iDisplayLength,
                           DisplayEnd(iDisplayStart, iDisplayLength, records - 1))
    /\ UNCHANGED <<iDisplayLength, drawn>>

Next == \/ \E a \in Moves \cup { ToPage(n) : n \in 0 .. MaxRecords } : Page(a)
        \/ Click
        \/ \E len \in Lengths : PageLen(len) \/ SelectLength(len)
        \/ \E n \in 0 .. MaxRecords : Search(n) \/ ReDrawHold(n)
        \/ RemoveRow

Spec == Init /\ [][Next]_vars
-----------------------------------------------------------------------------
TypeOK ==
    /\ iDisplayStart \in Nat
    /\ iDisplayLength \in Lengths
    /\ records \in 0 .. MaxRecords
    /\ drawn \in [start : Nat, end : 0 .. MaxRecords, total : 0 .. MaxRecords,
                  page : Nat, pages : Nat]

\* Whatever sequence of page changes, length changes, searches and removals
\* ran, a page starts at a multiple of the page length, so page.info() and the
\* pager, which round differently, name the same page.
OnePageNumber ==
    InfoPage(iDisplayStart, iDisplayLength) = PagerPage(iDisplayStart, iDisplayLength)

\* _fnLengthOverflow's comment: a change of page length keeps the start record
\* on the current page.
StartRecordStays ==
    [][ (iDisplayLength' # iDisplayLength /\ iDisplayStart < records)
        => /\ iDisplayStart' <= iDisplayStart
           /\ iDisplayStart < DisplayEnd(iDisplayStart', iDisplayLength', records) ]_vars

\* Removing rows never strands the reader past the end: while rows are left,
\* the page that is current afterwards shows some of them (rows().remove()
\* calls _fnLengthOverflow for this).
RemovalShowsRows ==
    [][ (RemoveRow /\ records' > 0) => iDisplayStart' < records' ]_vars

\* The place in the table is kept: nobody who changes the length or removes rows
\* is taken from the records being read to others, or past the end.
PlaceKept == StartRecordStays /\ RemovalShowsRows

\* Every page can be reached by clicks: the buttons of a page offer the page
\* itself, its neighbours, the first and the last one, and nothing else than
\* pages of the table.
ButtonsReach ==
    drawn.page < drawn.pages =>
        LET near == { p \in {drawn.page - 1, drawn.page, drawn.page + 1} :
                        p \in 0 .. drawn.pages - 1 }
        IN  /\ near \cup {0, drawn.pages - 1} \subseteq Offered
            /\ Offered \subseteq 0 .. drawn.pages - 1 \cup {Gap}
=============================================================================
