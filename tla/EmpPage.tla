------------------------------ MODULE EmpPage ------------------------------
(***************************************************************************)
(* The employees page (initEmp of default.js): a DataTable whose pages     *)
(* come from the server, the dialogs that delete and edit employees, and   *)
(* what survives a reload of the page in localStorage.  Requests overlap:  *)
(* nothing stops the user from paging, deleting or saving while an answer  *)
(* is on its way, answers arrive in any order or not at all, and other     *)
(* administrators change the table meanwhile.                              *)
(***************************************************************************)
EXTENDS EmpRoster, FiniteSets

CONSTANTS Lengths,    \* choices of the select #page
          FirstLength, \* DATA_TABLES.DEFAULT_OPTION.pageLength
          MaxDraw,    \* bound on the draws of one visit
          MaxCalls,   \* bound on saves and deletions under way
          MaxVisits   \* bound on the visits of the page

ASSUME LengthsAssumption == Lengths \subseteq Nat \ {0} /\ FirstLength \in Lengths
ASSUME BoundsAssumption == MaxDraw \in Nat \ {0} /\ MaxCalls \in Nat

VARIABLES iDraw,          \* settings.iDraw: the number of the newest request
          iDisplayStart, iDisplayLength,
          records,        \* _iRecordsDisplay, of the last answer drawn
          shown,          \* the rows on the page: [draw, rows, table]
          flight,         \* the list requests under way
          overlay,        \* the spinner over the table
          lost,           \* the newest list request that failed
          dialog,         \* bootbox's question about these rows, or Nil
          form,           \* [fields -> contents] of emp-form, Nil for empty
          modal,          \* the form's window: "closed", "add" or "edit"
          calls,          \* saves and deletions under way
          saved,          \* the state in localStorage, or Nil
          visit,          \* number of the visit
          gone            \* history: the ids whose deletion was answered

pageVars == <<iDraw, iDisplayStart, iDisplayLength, records, shown, flight, overlay, lost,
              dialog, form, modal, calls, saved, visit, gone>>
vars == <<rosterVars, pageVars>>

-----------------------------------------------------------------------------
(* Fetching the rows *)

\* `table` is history: the employees there were when the rows were read.
Request(draw, start, len) ==
    [draw |-> draw, start |-> start, len |-> len, rows |-> Nil, table |-> {}, total |-> Nil]

\* _fnDraw of a server-side table: _fnAjaxUpdate sends a request and nothing
\* is drawn before its answer; table_ajax puts the overlay on.
Fetch(start, len) ==
    /\ iDraw < MaxDraw
    /\ iDraw' = iDraw + 1
    /\ iDisplayStart' = start
    /\ iDisplayLength' = len
    /\ overlay' = TRUE

\* listEmp reads the page and then counts the rows, outside a transaction.
Answering(q, a) ==
    /\ flight' = (flight \ {q}) \cup {a}
    /\ UNCHANGED <<rosterVars, iDraw, iDisplayStart, iDisplayLength, records, shown, overlay,
                   lost, dialog, form, modal, calls, saved, visit, gone>>
ListEmp(q) ==
    /\ q.rows = Nil
    /\ Answering(q, [q EXCEPT !.rows = PageRows(q.start, q.len), !.table = emps])
CountEmp(q) ==
    /\ q.rows # Nil /\ q.total = Nil
    /\ Answering(q, [q EXCEPT !.total = Cardinality(emps)])

\* _fnAjaxUpdateDraw drops an answer that is older than the newest request.
StaleNever(draw) == FALSE
Stale(draw) == draw < iDraw

\* The answer's timer: the overlay goes, then the rows are drawn and the state
\* is saved.
Deliver(q) ==
    /\ q.total # Nil
    /\ flight' = flight \ {q}
    /\ overlay' = FALSE
    /\ IF Stale(q.draw) THEN UNCHANGED <<iDraw, records, shown, saved>>
       ELSE /\ iDraw' = q.draw
            /\ records' = q.total
            /\ shown' = [draw |-> q.draw, rows |-> q.rows, table |-> q.table]
            /\ saved' = [start |-> iDisplayStart, len |-> iDisplayLength]
    /\ UNCHANGED <<rosterVars, iDisplayStart, iDisplayLength, lost, dialog, form, modal, calls,
                   visit, gone>>

\* The error callback of table_ajax only takes the overlay away.
OverlayStays == overlay
OverlayOff == FALSE
Lose(q) ==
    /\ flight' = flight \ {q}
    /\ overlay' = OverlayOff
    /\ lost' = IF q.draw > lost THEN q.draw ELSE lost
    /\ UNCHANGED <<rosterVars, iDraw, iDisplayStart, iDisplayLength, records, shown, dialog,
                   form, modal, calls, saved, visit, gone>>

\* A page button: nothing is fetched when the page does not change.
Turn(action) ==
    LET start == PageStart(iDisplayStart, iDisplayLength, records, action)
    IN  /\ start # iDisplayStart
        /\ Fetch(start, iDisplayLength)
        /\ flight' = flight \cup {Request(iDraw + 1, start, iDisplayLength)}
        /\ UNCHANGED <<rosterVars, records, shown, lost, dialog, form, modal, calls, saved, visit, gone>>

\* The select #page: page.len(n).draw().
ChangeLength(len) ==
    /\ len # iDisplayLength
    /\ Fetch(0, len)
    /\ flight' = flight \cup {Request(iDraw + 1, 0, len)}
    /\ UNCHANGED <<rosterVars, records, shown, lost, dialog, form, modal, calls, saved, visit, gone>>

-----------------------------------------------------------------------------
(* Deleting and editing *)

\* Rows are ticked (or one row's button is pressed) and the question is asked;
\* their data is taken from the table now.
AskDelete(at) ==
    /\ dialog = Nil /\ modal = "closed"
    /\ dialog' = [at |-> at, ids |-> { shown.rows[k] : k \in at }]
    /\ UNCHANGED <<rosterVars, iDraw, iDisplayStart, iDisplayLength, records, shown, flight,
                   overlay, lost, form, modal, calls, saved, visit, gone>>

\* The rows to delete: those of the question, not those now in their place.
RowsInPlace(d) == { shown.rows[k] : k \in d.at \cap DOMAIN shown.rows }
RowsAsked(d) == d.ids

Answer(yes) ==
    /\ dialog # Nil
    /\ dialog' = Nil
    /\ IF yes
       THEN /\ Cardinality(calls) < MaxCalls
            /\ calls' = calls \cup {[op |-> "delete", ids |-> RowsAsked(dialog),
                                     asked |-> dialog.ids]}
       ELSE UNCHANGED calls
    /\ UNCHANGED <<rosterVars, iDraw, iDisplayStart, iDisplayLength, records, shown, flight,
                   overlay, lost, form, modal, saved, visit, gone>>

\* The button that opens the empty form; it does not empty it.
OpenAdd ==
    /\ dialog = Nil /\ modal = "closed"
    /\ modal' = "add"
    /\ UNCHANGED <<rosterVars, iDraw, iDisplayStart, iDisplayLength, records, shown, flight,
                   overlay, lost, dialog, form, calls, saved, visit, gone>>

\* loadJson fills the fields that have the name of a key.
Item(emp) == [id |-> emp, username |-> emp]
LoadJsonKeys(fields, json) ==
    [f \in DOMAIN fields \cup DOMAIN json |-> IF f \in DOMAIN json THEN json[f] ELSE fields[f]]
LoadJson(fields, json) ==
    [f \in DOMAIN fields |-> IF f \in DOMAIN json THEN json[f] ELSE fields[f]]

\* A row's edit button.
OpenEdit(emp) ==
    /\ dialog = Nil /\ modal = "closed"
    /\ emp \in Range(shown.rows)
    /\ modal' = "edit"
    /\ form' = LoadJson(form, Item(emp))
    /\ UNCHANGED <<rosterVars, iDraw, iDisplayStart, iDisplayLength, records, shown, flight,
                   overlay, lost, dialog, calls, saved, visit, gone>>

CloseForm ==
    /\ modal # "closed"
    /\ modal' = "closed"
    /\ UNCHANGED <<rosterVars, iDraw, iDisplayStart, iDisplayLength, records, shown, flight,
                   overlay, lost, dialog, form, calls, saved, visit, gone>>

\* The save button, with valid fields: an employee without an id is added; for
\* one with an id the handler calls $.updateJSONObject, which does not exist.
SubmitEmp ==
    /\ modal # "closed"
    /\ form["hidden_id"] = Nil
    /\ Cardinality(calls) < MaxCalls
    /\ calls' = calls \cup {[op |-> "add", for |-> modal, done |-> FALSE]}
    /\ UNCHANGED <<rosterVars, iDraw, iDisplayStart, iDisplayLength, records, shown, flight,
                   overlay, lost, dialog, form, modal, saved, visit, gone>>

\* The server works on a call: removeEmps deletes one after another.
Serve(c) ==
    /\ \/ /\ c.op = "add" /\ ~c.done
          /\ Insert
          /\ calls' = (calls \ {c}) \cup {[c EXCEPT !.done = TRUE]}
       \/ /\ c.op = "delete" /\ c.ids # {}
          /\ LET id == CHOOSE i \in c.ids : \A j \in c.ids : i <= j
             IN  /\ Delete(id)
                 /\ calls' = (calls \ {c}) \cup {[c EXCEPT !.ids = @ \ {id}]}
    /\ UNCHANGED <<iDraw, iDisplayStart, iDisplayLength, records, shown, flight, overlay, lost,
                   dialog, form, modal, saved, visit, gone>>

\* The table is drawn again from its first page.
RedrawUnlessUnderWay ==
    IF flight # {}
    THEN UNCHANGED <<iDraw, iDisplayStart, iDisplayLength, overlay, flight>>
    ELSE /\ Fetch(0, iDisplayLength)
         /\ flight' = {Request(iDraw + 1, 0, iDisplayLength)}
Redraw ==
    /\ Fetch(0, iDisplayLength)
    /\ flight' = flight \cup {Request(iDraw + 1, 0, iDisplayLength)}

\* Its answer: the table is drawn again; after an addition the form is emptied
\* and closed.
Succeed(c) ==
    /\ IF c.op = "add" THEN c.done ELSE c.ids = {}
    /\ calls' = calls \ {c}
    /\ IF c.op = "add" THEN /\ form' = [f \in DOMAIN form |-> Nil]
                            /\ modal' = "closed"
                            /\ UNCHANGED gone
       ELSE gone' = gone \cup c.asked /\ UNCHANGED <<form, modal>>
    /\ Redraw
    /\ UNCHANGED <<rosterVars, records, shown, lost, dialog, saved, visit>>

\* An error, at any point of the server's work: an alert.
Refuse(c) ==
    /\ calls' = calls \ {c}
    /\ UNCHANGED <<rosterVars, iDraw, iDisplayStart, iDisplayLength, records, shown, flight,
                   overlay, lost, dialog, form, modal, saved, visit, gone>>

-----------------------------------------------------------------------------
(* Visiting the page *)

\* _fnLoadState: both the start and the length of the state saved.
RestoreStartOnly(state) == IF state = Nil THEN [start |-> 0, len |-> FirstLength]
                       ELSE [start |-> state.start, len |-> FirstLength]
Restore(state) == IF state = Nil THEN [start |-> 0, len |-> FirstLength] ELSE state

Empty == [hidden_id |-> Nil, username |-> Nil]
NothingShown == [draw |-> 0, rows |-> <<>>, table |-> {}]

Init == LET first == Restore(Nil)
        IN  /\ RosterInit
            /\ iDraw = 1 /\ iDisplayStart = first.start /\ iDisplayLength = first.len
            /\ records = 0 /\ shown = NothingShown
            /\ flight = {Request(1, first.start, first.len)}
            /\ overlay = TRUE /\ lost = 0
            /\ dialog = Nil /\ form = Empty /\ modal = "closed" /\ calls = {}
            /\ saved = Nil /\ visit = 1 /\ gone = {}

\* The page is loaded again.  No answer reaches it any more; what the server
\* still does for an old call is one of the changes others make.
Reload ==
    LET first == Restore(saved)
    IN  /\ visit < MaxVisits
        /\ visit' = visit + 1
        /\ iDraw' = 1 /\ iDisplayStart' = first.start /\ iDisplayLength' = first.len
        /\ records' = 0 /\ shown' = NothingShown
        /\ flight' = {Request(1, first.start, first.len)}
        /\ overlay' = TRUE /\ lost' = 0
        /\ dialog' = Nil /\ form' = Empty /\ modal' = "closed" /\ calls' = {}
        /\ UNCHANGED <<rosterVars, saved, gone>>

\* Other administrators.
Others == /\ \/ Insert
             \/ \E id \in emps : Delete(id)
             \/ BatchNext
          /\ UNCHANGED pageVars

Fetching == \E q \in flight : ListEmp(q) \/ CountEmp(q) \/ Deliver(q)
Next == \/ Fetching
        \/ \E q \in flight : Lose(q)
        \/ \E a \in Moves : Turn(a)
        \/ \E n \in 0 .. MaxId - 1 : Turn(ToPage(n))
        \/ \E len \in Lengths : ChangeLength(len)
        \/ \E at \in SUBSET DOMAIN shown.rows \ {{}} : AskDelete(at)
        \/ \E yes \in BOOLEAN : Answer(yes)
        \/ OpenAdd \/ CloseForm \/ SubmitEmp
        \/ \E emp \in emps : OpenEdit(emp)
        \/ \E c \in calls : Serve(c) \/ Succeed(c) \/ Refuse(c)
        \/ Reload
        \/ Others

Spec == Init /\ [][Next]_vars
-----------------------------------------------------------------------------
TypeOK ==
    /\ emps \subseteq 1 .. MaxId /\ nextId \in 1 .. MaxId + 1 /\ batch \in {Nil} \cup Batch
    /\ iDraw \in 1 .. MaxDraw /\ lost \in 0 .. MaxDraw
    /\ iDisplayStart \in Nat /\ iDisplayLength \in Lengths
    /\ records \in 0 .. MaxId /\ shown.rows \in Seq(1 .. MaxId)
    /\ form \in [DOMAIN Empty -> 1 .. MaxId \cup {Nil}]
    /\ overlay \in BOOLEAN /\ modal \in {"closed", "add", "edit"}
    /\ Cardinality(calls) <= MaxCalls

NewestDrawn == lost # iDraw /\ \A q \in flight : q.draw # iDraw

PageOf(table, start, len) ==
    SubSeq(InOrder(table), start + 1, DisplayEnd(start, len, Cardinality(table)))

\* In whatever order the answers arrive: once the newest request was answered,
\* the page that the pager is on is the one saved, and the rows shown are those
\* of that page in the table as it was when they were read. A page that had
\* gone by then is excepted: PageHelper answers with the rows of the last page.
ShowsCurrentPage ==
    NewestDrawn =>
        /\ shown.draw = iDraw
        /\ saved = [start |-> iDisplayStart, len |-> iDisplayLength]
        /\ iDisplayStart < Cardinality(shown.table) =>
             shown.rows = PageOf(shown.table, iDisplayStart, iDisplayLength)

\* Rows whose deletion was answered do not come back, after a reload of the page
\* neither: no list that was read before the deletion is drawn after its answer.
DeletedAreGone == NewestDrawn => Range(shown.rows) \cap gone = {}

\* The server divides the start by the page length: what is asked for is that
\* page of the table exactly, or it does not exist.
AskedIsPage ==
    \A q \in flight : q.start < Cardinality(emps) =>
        PageRows(q.start, q.len) = PageOf(emps, q.start, q.len)

\* Whatever was drawn while the question was open, no row is deleted but those
\* it was about.
DeletesAsked == \A c \in calls : c.op = "delete" => c.ids \subseteq c.asked

\* The overlay never stays: it is taken away even if requests overlap or fail.
OverlayGoes == overlay ~> ~overlay

\* The button says "修改", to change; what it opens does not add an employee.
EditAddsNobody == \A c \in calls : c.op = "add" => c.for # "edit"
=============================================================================
