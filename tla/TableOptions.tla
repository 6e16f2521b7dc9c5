---------------------------- MODULE TableOptions ----------------------------
(***************************************************************************)
(* What a DataTable makes of its options: the names of two generations of  *)
(* the API brought together in the object the caller passed, the defaults, *)
(* and the columns' definitions laid over each other.  The caller keeps    *)
(* the object, may change it and may make the table again with it.         *)
(***************************************************************************)
EXTENDS Integers, FiniteSets, Sequences

CONSTANTS Names,    \* options: [new |-> camelCase name, old |-> Hungarian name]
          Compat,   \* those that _fnCompatOpts or _fnCompatCols brings over
          Values,   \* values of an option
          Default,  \* the value in DataTable.defaults
          Headings, \* columns found in the heading of the page
          Marked,   \* those of them with the class name that definitions use
          Targets,  \* what a column definition may be for: [kind, n], the kind
                    \* "number", "_all" or "class"
          MaxDefs,  \* number of column definitions
          MaxWrites, \* bound on the options the caller sets
          Nil       \* undefined

VARIABLES defs,    \* aoColumnDefs: [target, opts], objects of the caller
          own,     \* aoColumns: [Headings -> options of the column]
          columns, \* the columns made: their effective options, by old name
          written, \* what the caller wrote last: [at, name, key, value], or Nil
          writes,  \* how many options the caller has set
          made     \* whether the columns were made since

vars == <<defs, own, columns, written, writes, made>>

Keys == { n.new : n \in Names } \cup { n.old : n \in Names }
Objects == [Keys -> Values \cup {Nil}]
NoOptions == [k \in Keys |-> Nil]

\* _fnMap with a list of names, and $.extend: what is undefined is not copied.
Extend(out, obj) == [k \in DOMAIN out |-> IF obj[k] # Nil THEN obj[k] ELSE out[k]]

NameOf(k) == CHOOSE n \in Names : k \in {n.new, n.old}

\* _fnCompatMap: the new name's value is written under the old name, whatever
\* stands there.
CompatMap(obj) ==
    [k \in Keys |-> IF /\ k = NameOf(k).old /\ NameOf(k) \in Compat
                       /\ obj[NameOf(k).new] # Nil
                    THEN obj[NameOf(k).new] ELSE obj[k]]

\* _fnCamelToHungarian, not forced: the same for every option, where the old
\* name is not set yet.
CamelToHungarian(obj) ==
    [k \in Keys |-> IF k = NameOf(k).old /\ obj[k] = Nil THEN obj[NameOf(k).new] ELSE obj[k]]
Normal(obj) == CamelToHungarian(CompatMap(obj))

-----------------------------------------------------------------------------
(* The columns *)

\* _fnAddColumn: a column has the defaults.
NewColumn == [k \in Keys |-> IF k = NameOf(k).old THEN Default ELSE Nil]
Grown(cols, n) ==
    [i \in 1 .. IF Len(cols) >= n THEN Len(cols) ELSE n |->
       IF i <= Len(cols) THEN cols[i] ELSE NewColumn]

\* The columns a target names; a number past the end adds columns first.
Wide(cols, target) ==
    IF target.kind = "number" /\ target.n >= 0 THEN Grown(cols, target.n + 1) ELSE cols
Hit(cols, target) ==
    CASE target.kind = "_all" -> DOMAIN cols
      [] target.kind = "class" -> Marked
      [] target.kind = "number" ->
           {IF target.n >= 0 THEN target.n + 1 ELSE Len(cols) + target.n + 1} \cap DOMAIN cols

\* _fnColumnOptions for every column a definition is for.
Lay(cols, def) ==
    LET wide == Wide(cols, def.target)
    IN  [i \in DOMAIN wide |-> IF i \in Hit(wide, def.target)
                               THEN Extend(wide[i], Normal(def.opts)) ELSE wide[i]]

\* _fnApplyColumnDefs: the definitions one after the other, from the last to
\* the first, then the columns' own options.
LayAll(cols, ds) ==
    LET laid[d \in 0 .. Len(ds)] == IF d = 0 THEN cols ELSE Lay(laid[d - 1], ds[d])
    IN  laid[Len(ds)]
LayOwn(laid, o) ==
    [i \in DOMAIN laid |-> IF i \in Headings THEN Extend(laid[i], Normal(o[i])) ELSE laid[i]]
Backwards(ds) == [d \in DOMAIN ds |-> ds[Len(ds) + 1 - d]]
ApplyForwards(cols, ds, o) == LayOwn(LayAll(cols, ds), o)
ApplyColumnDefs(cols, ds, o) == LayOwn(LayAll(cols, Backwards(ds)), o)

-----------------------------------------------------------------------------
Init == /\ \E ts \in [1 .. MaxDefs -> Targets] :
             defs = [d \in 1 .. MaxDefs |-> [target |-> ts[d], opts |-> NoOptions]]
        /\ own = [i \in Headings |-> NoOptions]
        /\ columns = <<>>
        /\ written = Nil /\ writes = 0 /\ made = FALSE

\* The caller sets an option under either name.
Write(d, name, key, value) ==
    /\ writes < MaxWrites /\ writes' = writes + 1
    /\ \/ /\ d \in DOMAIN defs
          /\ defs' = [defs EXCEPT ![d].opts[key] = value]
          /\ UNCHANGED own
       \/ /\ -d \in Headings
          /\ own' = [own EXCEPT ![-d][key] = value]
          /\ UNCHANGED defs
    /\ written' = [at |-> d, name |-> name, key |-> key, value |-> value]
    /\ made' = FALSE
    /\ UNCHANGED columns

\* The table is made, or made again after destroy(): the objects are normalised
\* in place.
Make ==
    /\ columns' = ApplyColumnDefs([i \in Headings |-> NewColumn], defs, own)
    /\ defs' = [d \in DOMAIN defs |-> [defs[d] EXCEPT !.opts = Normal(@)]]
    /\ own' = [i \in Headings |-> Normal(own[i])]
    /\ made' = TRUE
    /\ UNCHANGED <<written, writes>>

Next == \/ \E d \in (-Cardinality(Headings)) .. MaxDefs, n \in Names, v \in Values :
             \E key \in {n.new, n.old} : Write(d, n, key, v)
        \/ Make

Spec == Init /\ [][Next]_vars
-----------------------------------------------------------------------------
TypeOK ==
    /\ \A d \in DOMAIN defs : defs[d].target \in Targets /\ defs[d].opts \in Objects
    /\ own \in [Headings -> Objects]
    /\ \A i \in DOMAIN columns : columns[i] \in [Keys -> Values \cup {Nil, Default}]

\* An option of a column is what its own entry says, or else the first of the
\* definitions that are for it, or else the default, whichever names were used
\* and in whichever order the definitions are laid over each other.
Gives(d, i, n) == i \in Hit(columns, defs[d].target) /\ defs[d].opts[n.old] # Nil
GivesFirst(d, i, n) == Gives(d, i, n) /\ \A e \in DOMAIN defs : Gives(e, i, n) => d <= e
Precedence ==
    (made /\ Len(columns) = Cardinality(Headings)) =>
      \A i \in Headings, n \in Names :
        \/ own[i][n.old] # Nil /\ columns[i][n.old] = own[i][n.old]
        \/ /\ own[i][n.old] = Nil
           /\ \E d \in DOMAIN defs : /\ GivesFirst(d, i, n)
                                    /\ columns[i][n.old] = defs[d].opts[n.old]
        \/ /\ own[i][n.old] = Nil /\ \A d \in DOMAIN defs : ~Gives(d, i, n)
           /\ columns[i][n.old] = Default

\* The caller's last word counts: a value written under the new name of an
\* option takes effect when the table is made again with the same object.  For
\* options that are not brought over by _fnCompatOpts or _fnCompatCols this is
\* so for the first table only.
LastWordCounts ==
    (made /\ written # Nil /\ written.key = written.name.new /\ written.name \in Compat) =>
      LET obj == IF written.at > 0 THEN defs[written.at].opts ELSE own[-written.at]
      IN  obj[written.name.old] = written.value
=============================================================================
