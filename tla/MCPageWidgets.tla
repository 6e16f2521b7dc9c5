--------------------------- MODULE MCPageWidgets ---------------------------
(***************************************************************************)
(* Small instances of the widgets; the constants that are not simple sets  *)
(* are here, the others in the configuration.  At most three validations   *)
(* of a form wait at a time, and the language files are two at a time      *)
(* beside the English built in.                                            *)
(***************************************************************************)
EXTENDS PageWidgets, TLC

CONSTANTS r1, r2, r3, d1, d2, d3, t1, t2

LengthsValue == {1, 2, 5, All}

\* Cell values 1 and 2 stand for "a" and "ab"; each string but the last is the
\* beginning of the next.
RowsMatchesValue == ("" :> {1, 2}) @@ ("a" :> {1, 2}) @@ ("ab" :> {2})
RowsExtendsValue == {<<"", "a">>, <<"", "ab">>, <<"a", "ab">>}
\* A table that defers its nodes is searched, with two rows; one that does not
\* is sorted with three.
RowsApart ==
    widget = "rows" => IF bDeferRender THEN Len(aoData') <= 2
                       ELSE search' = RowsNoSearch /\ colSearch' = RowsNoSearch
RowSymmetry == Permutations({r1, r2, r3}) \cup Permutations({d1, d2, d3})

\* Headings of two rows, with cells that span columns or rows.
Th(cell, colspan, rowspan) == [cell |-> cell, colspan |-> colspan, rowspan |-> rowspan]
HeadingLayoutsValue ==
    { << <<Th("a", 1, 2), Th("g", 2, 1)>>, <<Th("b", 1, 1), Th("c", 1, 1)>> >>,
      << <<Th("g", 2, 1), Th("c", 1, 2)>>, <<Th("a", 1, 1), Th("b", 1, 1)>> >> }

\* The tables differ in nothing but their names, so the first made may be t1.
FirstTable == widget = "setup" => inst' = <<>> \/ inst'[1].table = t1
SetupIdOfValue == (t1 :> "a") @@ (t2 :> "b")
Option(source, state, language, again) ==
    [source |-> source, state |-> state, language |-> language, again |-> again]
SetupOptionsValue ==
    {Option("ajax", "later", TRUE, "destroy"), Option("ssp", "now", FALSE, "destroy"),
     Option("dom", "no", FALSE, "retrieve")}

\* Of the two options one is brought over by _fnCompatCols.
OptionName(new, old) == [new |-> new, old |-> old]
OptionsCompatValue == {OptionName("orderable", "bSortable")}
OptionsNamesValue == OptionsCompatValue \cup {OptionName("visible", "bVisible")}
Target(kind, n) == [kind |-> kind, n |-> n]
OptionsTargetsValue ==
    {Target("number", 0), Target("number", 2), Target("_all", 0), Target("class", 0)}

OrderAsSortingValue == << <<"asc", "desc">>, <<"desc", "asc", "asc">>, <<"asc">> >>
OrderDataSortsValue == { << <<1>>, <<2>>, <<3>> >>, << <<1, 2>>, <<1>>, <<3>> >> }
Entry(col, dir) == [col |-> col, dir |-> dir, idx |-> Nil]
FixedOrder(pre, post) == [pre |-> pre, post |-> post]
OrderFixedOrdersValue ==
    {FixedOrder(<<>>, <<>>), FixedOrder(<<Entry(2, "asc")>>, <<>>),
     FixedOrder(<<>>, <<Entry(2, "asc")>>)}

\* Two cells below one object, which may be missing; one empty text, a number
\* and a word.
Name == <<"name">>
First == <<"name", "first">>
Last == <<"name", "last">>
CellsMDataValue == <<First, Last>>
CellsKindValue == ("" :> "empty") @@ ("9" :> "number") @@ ("ab" :> "text")
CellsItemsValue ==
    {(Name :> "undefined") @@ (First :> "undefined") @@ (Last :> "undefined"),
     (Name :> "{}") @@ (First :> "9") @@ (Last :> "ab")}
CellsRowSelectorsValue == {<<7, 1, 0>>}
CellsColumnSelectorsValue == {<<1>>, <<-2, 1>>}

FormValuesValue == [password |-> {"none", "long"}, email |-> {"a", "b", "x"}]
FormFillsValue == {[password |-> "none", email |-> "a"]}
Check(name, priority) == [name |-> name, priority |-> priority]
FormChecksValue == [password |-> {Check("required", 512), Check("minlength", 30)},
                    email |-> {Check("required", 512), Check("type", 256)}]
FormRejectsValue == [required |-> {"none"}, minlength |-> {"none"}, type |-> {"none", "x"}]
ThreeWaiting == widget = "form" => Cardinality(runs') <= 3
\* Nothing happens when the password is left, which no script hears.
PasswordUnheard == widget = "form" => origin'.password # "left"
\* "x" is not an e-mail address; it is typed before the form is first submitted,
\* while an answer about "a" may be on its way.
MistypedEarly ==
    widget = "form" /\ value'.email = "x" =>
      /\ forms' = <<>> /\ value'.password = "long"
      /\ \A i \in DOMAIN xhrs' : xhrs'[i].value = "a"

\* The attributes min and max are one range if both are given; trigger is the
\* name of an option.
Attr(kind, name) == [kind |-> kind, name |-> name]
FieldAttributesValue ==
    { {}, {Attr("html", "min"), Attr("option", "trigger")},
      {Attr("html", "min"), Attr("html", "max"), Attr("option", "min")},
      {Attr("option", "range")} }

\* Every language file, of two languages at a time beside the English built in:
\* one of them Chinese, as the pages are.
AllMessages == INSTANCE ParsleyMessages WITH Files <- {}, MaxLoads <- 0
MessagesFilesValue == AllMessages!AllFiles
TwoLanguages ==
    widget = "messages" => Cardinality({ f.locale : f \in loads' } \ {"zh-cn"}) <= 1

MCPageSpec ==
    PageInit /\ [][/\ PageNext
                   /\ RowsApart /\ FirstTable /\ TwoLanguages
                   /\ ThreeWaiting /\ PasswordUnheard /\ MistypedEarly]_pageVars
=============================================================================
