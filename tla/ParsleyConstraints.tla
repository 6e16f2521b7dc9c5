------------------------- MODULE ParsleyConstraints -------------------------
(***************************************************************************)
(* Which checks a field of Parsley has: the registry of validators, the    *)
(* constraints the page adds, and those bound from the attributes of the   *)
(* element before every validation.  A constraint takes a copy of its      *)
(* validator with it.                                                      *)
(***************************************************************************)
EXTENDS Naturals, SequencesExt

CONSTANTS Nil,
          Names,       \* names of validators
          Restricted,  \* those that are names of options too
          Registered,  \* those Parsley brings
          Versions,    \* what a name may be registered as
          Attributes   \* sets of attributes the element may have

VARIABLES validators,    \* name -> Nil or its version
          attributes,    \* the attributes now on the element
          constraints,   \* the field's constraints, in their order
          byName,        \* constraintsByName
          added          \* history: name -> what the page last added and not removed

vars == <<validators, attributes, constraints, byName, added>>
-----------------------------------------------------------------------------
(* The registry *)

\* addValidator refuses the name of an option, unless it is registered; of a
\* name registered already it warns and goes on.
AddValidator(n, v) ==
    /\ validators[n] # Nil \/ n \notin Restricted
    /\ validators' = [validators EXCEPT ![n] = v]
    /\ UNCHANGED <<attributes, constraints, byName, added>>

\* updateValidator warns of a name that is not registered and adds it.
UpdateValidator(n, v) ==
    \/ validators[n] = Nil /\ AddValidator(n, v)
    \/ /\ validators[n] # Nil
       /\ validators' = [validators EXCEPT ![n] = v]
       /\ UNCHANGED <<attributes, constraints, byName, added>>

RemoveValidator(n) ==
    /\ validators' = [validators EXCEPT ![n] = Nil]
    /\ UNCHANGED <<attributes, constraints, byName, added>>

-----------------------------------------------------------------------------
(* The constraints of the field, as the pair of the list and the map *)

Constraint(n, dom) == [name |-> n, version |-> validators[n], dom |-> dom]

\* removeConstraint takes out the first of that name.
Without(f, n) ==
    LET At == { k \in DOMAIN f.list : f.list[k].name = n }
    IN  [list |-> IF At = {} THEN f.list
                  ELSE RemoveAt(f.list, CHOOSE k \in At : \A j \in At : k <= j),
         map |-> [f.map EXCEPT ![n] = Nil]]

\* addConstraint: nothing for a name that is not registered, or instead of the
\* one of that name.
With(f, n, dom) ==
    IF validators[n] = Nil THEN f
    ELSE LET rest == Without(f, n)
             c == Constraint(n, dom)
         IN  [list |-> Append(rest.list, c), map |-> [rest.map EXCEPT ![n] = c]]

Field == [list |-> constraints, map |-> byName]
Becomes(f) == constraints' = f.list /\ byName' = f.map

AddConstraint(n) ==
    /\ Becomes(With(Field, n, FALSE))
    /\ added' = IF validators[n] = Nil THEN added ELSE [added EXCEPT ![n] = validators[n]]
    /\ UNCHANGED <<validators, attributes>>

RemoveConstraint(n) ==
    /\ Becomes(Without(Field, n))
    /\ added' = [added EXCEPT ![n] = Nil]
    /\ UNCHANGED <<validators, attributes>>

\* updateConstraint removes first, and adds only what is registered.
UpdateConstraint(n) ==
    /\ Becomes(With(Without(Field, n), n, FALSE))
    /\ added' = [added EXCEPT ![n] = validators[n]]
    /\ UNCHANGED <<validators, attributes>>

-----------------------------------------------------------------------------
(* Binding *)

\* The attributes data-parsley-<name> are options; those of HTML come after
\* them, min and max together as one range, minlength and maxlength as length.
Attr(kind, name) == [kind |-> kind, name |-> name]
Option(n) == Attr("option", n)
Html(n) == Attr("html", n)
OptionNames(set) == SetToSeq({ n \in Names : Option(n) \in set })
Both(set, min, max, range) ==
    IF {Html(min), Html(max)} \subseteq set THEN <<range>>
    ELSE IF Html(min) \in set THEN <<min>>
    ELSE IF Html(max) \in set THEN <<max>>
    ELSE <<>>
One(set, n) == IF Html(n) \in set THEN <<n>> ELSE <<>>
Html5Names(set) ==
    One(set, "required") \o One(set, "pattern") \o Both(set, "min", "max", "range")
    \o Both(set, "minlength", "maxlength", "length") \o One(set, "type")
Declared(set) == OptionNames(set) \o Html5Names(set)

\* _bindConstraints: only what the page added stays, in a new list and a new
\* map, then the attributes are bound one after another; by refresh, and before
\* every validation.
NoConstraints == [list |-> <<>>, map |-> [n \in Names |-> Nil]]
Keep(f, c) == [list |-> Append(f.list, c), map |-> [f.map EXCEPT ![c.name] = c]]
UserOnly(list) ==
    LET kept[k \in 0 .. Len(list)] ==
            IF k = 0 THEN NoConstraints
            ELSE IF list[k].dom THEN kept[k - 1] ELSE Keep(kept[k - 1], list[k])
    IN  kept[Len(list)]
BindAll(f, names) ==
    LET bound[k \in 0 .. Len(names)] ==
            IF k = 0 THEN f ELSE With(bound[k - 1], names[k], TRUE)
    IN  bound[Len(names)]
Bind(f, set) == BindAll(UserOnly(f.list), Declared(set))

\* What an attribute declares takes the place of what the page added.
Taken(set) == { n \in ToSet(Declared(set)) : validators[n] # Nil }
Refresh ==
    /\ Becomes(Bind(Field, attributes))
    /\ added' = [n \in Names |-> IF n \in Taken(attributes) THEN Nil ELSE added[n]]
    /\ UNCHANGED <<validators, attributes>>

\* Scripts of the page change the attributes.
SetAttributes(set) ==
    /\ attributes' = set
    /\ UNCHANGED <<validators, constraints, byName, added>>

\* A field binds its constraints when it is made.
Init ==
    /\ validators = [n \in Names |-> IF n \in Registered THEN CHOOSE v \in Versions : TRUE ELSE Nil]
    /\ attributes \in Attributes
    /\ LET f == Bind(NoConstraints, attributes)
       IN  constraints = f.list /\ byName = f.map
    /\ added = [n \in Names |-> Nil]

Next ==
    \/ \E n \in Names, v \in Versions : AddValidator(n, v) \/ UpdateValidator(n, v)
    \/ \E n \in Names : RemoveValidator(n) \/ AddConstraint(n) \/ RemoveConstraint(n)
                        \/ UpdateConstraint(n)
    \/ \E set \in Attributes : SetAttributes(set)
    \/ Refresh

Spec == Init /\ [][Next]_vars
-----------------------------------------------------------------------------
TypeOK ==
    /\ validators \in [Names -> Versions \cup {Nil}] /\ attributes \in Attributes
    /\ \A k \in DOMAIN constraints : /\ constraints[k].name \in Names
                                     /\ constraints[k].version \in Versions
    /\ added \in [Names -> Versions \cup {Nil}]

MapOf(list) ==
    [n \in Names |-> IF \E k \in DOMAIN list : list[k].name = n
                     THEN list[CHOOSE k \in DOMAIN list : list[k].name = n] ELSE Nil]

\* The list that is validated and the map that says whether a field is required
\* tell the same: each name once, the same constraint in both.
ListAndMapAgree ==
    /\ \A k, j \in DOMAIN constraints : constraints[k].name = constraints[j].name => k = j
    /\ byName = MapOf(constraints)

\* What the page adds stays, with the validator it had then, whatever is bound,
\* registered or removed around it, until the page takes it away or the element
\* declares one of that name.
AddedStays ==
    \A n \in Names : LET c == byName[n]
                     IN  IF added[n] # Nil THEN c # Nil /\ ~c.dom /\ c.version = added[n]
                         ELSE c = Nil \/ c.dom

\* After a validation begins the field has every check its element declares, as
\* registered at that time, and no other but those the page added.
BoundAsDeclared ==
    Refresh => \A n \in Names :
          IF n \in Taken(attributes) THEN byName'[n] = Constraint(n, TRUE)
          ELSE byName'[n] = IF byName[n] # Nil /\ ~byName[n].dom THEN byName[n] ELSE Nil
=============================================================================
