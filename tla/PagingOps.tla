----------------------------- MODULE PagingOps -----------------------------
(***************************************************************************)
(* The arithmetic of DataTables paging: where a page starts, where it ends *)
(* and which page buttons are offered.  Records and pages count from 0, as *)
(* in the code; a page length of -1 shows every record on one page.        *)
(***************************************************************************)
EXTENDS Integers, Sequences

All == -1

\* The elements of a sequence that are in a set, in their order.
Only(a, S) ==
    LET kept[k \in 0 .. Len(a)] ==
          IF k = 0 THEN <<>>
          ELSE IF a[k] \in S THEN Append(kept[k - 1], a[k]) ELSE kept[k - 1]
    IN  kept[Len(a)]

\* A sequence without its p-th element, as after splice(p, 1).
Cut(s, p) == SubSeq(s, 1, p - 1) \o SubSeq(s, p + 1, Len(s))

\* fnDisplayEnd when the whole table is in the browser.
DisplayEnd(start, len, records) ==
    IF len = All \/ start + len > records THEN records ELSE start + len

CeilDiv(a, b) == (a + b - 1) \div b

\* The number of pages, as page.info() and the pager count them.
PageCount(len, records) == IF len = All THEN 1 ELSE CeilDiv(records, len)

\* page.info().page rounds down; the page the pager marks rounds up.
InfoPage(start, len) == IF len = All THEN 0 ELSE start \div len
PagerPage(start, len) == IF len = All THEN 0 ELSE CeilDiv(start, len)

\* An action of _fnPageChange: a move, or the number of a page.
Move(name) == [to |-> name, page |-> 0]
ToPage(n) == [to |-> "page", page |-> n]
Moves == { Move(name) : name \in {"first", "previous", "next", "last"} }

PreviousUnclamped(start, len, records, action) ==
    IF action.to = "previous" THEN start - len ELSE 0

\* _fnPageChange: the start a page number or a move leads to.
PageStart(start, len, records, action) ==
    IF records = 0 \/ len = All THEN 0
    ELSE CASE action.to = "page" ->
                IF action.page * len > records THEN 0 ELSE action.page * len
           [] action.to = "first" -> 0
           [] action.to = "previous" -> IF start < len THEN 0 ELSE start - len
           [] action.to = "next" -> IF start + len < records THEN start + len ELSE start
           [] action.to = "last" -> ((records - 1) \div len) * len

OverflowUnaligned(start, len, end) ==
    IF len = All \/ start < 0 THEN 0 ELSE IF start >= end /\ end > len THEN end - len ELSE start
OverflowLate(start, len, end) ==
    LET backed == IF start > end THEN end - len ELSE start
    IN  IF len = All \/ backed < 0 THEN 0 ELSE backed - (backed % len)

\* _fnLengthOverflow: back up from the end, then align to the page length.
LengthOverflow(start, len, end) ==
    LET backed == IF start >= end THEN end - len ELSE start
    IN  IF len = All \/ backed < 0 THEN 0 ELSE backed - (backed % len)

\* _numbers: the page numbers offered, at most n of them, with gaps.
Gap == -2
Span(from, to) == [i \in 1 .. to - from |-> from + i - 1]
Numbers(page, pages, n) ==
    LET half == n \div 2
    IN  IF pages <= n THEN Span(0, pages)
        ELSE IF page <= half THEN Span(0, n - 2) \o <<Gap, pages - 1>>
        ELSE IF page >= pages - 1 - half THEN <<0, Gap>> \o Span(pages - (n - 2), pages)
        ELSE <<0, Gap>> \o Span(page - half + 2, page + half - 1) \o <<Gap, pages - 1>>
=============================================================================
