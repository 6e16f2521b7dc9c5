---------------------------- MODULE ParsleyForm ----------------------------
(***************************************************************************)
(* Parsley's validation of a form: the validation of its fields, the       *)
(* errors each field shows, the events that validate a field again, the    *)
(* submit that waits for a remote check, and the page's own button, which  *)
(* calls validate() and then isValid().  jQuery 1.11 settles promises      *)
(* synchronously, so everything but the remote answer happens in the       *)
(* handler that started it.                                                *)
(***************************************************************************)
EXTENDS Integers, FiniteSets, Sequences

CONSTANTS Fields,
          Values,    \* [Fields -> what it may hold, as far as the checks tell]
          Fills,     \* the contents scripts give the form: [Fields -> a value]
          Empty,     \* the value without characters
          Checks,    \* [Fields -> set of [name, priority]]: the constraints bound
          Rejects,   \* [names of checks -> the values they reject]
          OnChange,  \* the fields with data-parsley-trigger="change"
          RemoteField, \* the field with a remote check
          Remote,    \* the name of that check
          MaxAsks,   \* bound on the requests of the remote check
          MaxForms   \* bound on the validations of the whole form

VARIABLES value,     \* [Fields -> a value], what the elements hold
          origin,    \* [Fields -> who set the value: a script or the user]
          result,    \* [Fields -> failed checks]: validationResult, {} for true
          lastResult, \* [Fields -> failed checks]: _ui.lastValidationResult
          aliased,   \* whether RemoteField's is the array validationResult is
          shown,     \* [Fields -> names of the errors listed under the field]
          class,     \* [Fields -> parsley-success, parsley-error or none]
          failedOnce, \* the fields with _failedOnce, validated at every input
          xhrs,      \* the remote check's requests: [value, status]
          cache,     \* _remoteCache: [remote values -> number of the request, or 0]
          runs,      \* validations of RemoteField that wait: [xhr, form, quiet]
          forms,     \* validations of the form: [values when it began, state]
          formOk     \* the form's validationResult

vars == <<value, origin, result, lastResult, aliased, shown, class, failedOnce,
          xhrs, cache, runs, forms, formOk>>
ui == <<lastResult, aliased, shown, class, failedOnce>>

Asked == Values[RemoteField]
NoCache == [v \in Asked |-> 0]

-----------------------------------------------------------------------------
(* One field *)

Required(f) == \E c \in Checks[f] : c.name = "required"

\* needsValidation: an empty optional field does not.
NeedsValidation(f, v) == v # Empty \/ Required(f)

\* The groups by descending priority; the first group that fails is the last.
TopGroup(checks) == {c \in checks : \A d \in checks : d.priority <= c.priority}
Failing(f, v) ==
    IF ~NeedsValidation(f, v) THEN {}
    ELSE {c.name : c \in TopGroup({c \in Checks[f] : v \in Rejects[c.name]})}

\* The remote check has the lowest priority: it runs when nothing else failed.
Asks(f, v) == f = RemoteField /\ NeedsValidation(f, v) /\ Failing(f, v) = {}

\* The request _remoteCache holds for this value.
LookupAnyValue(c, v) == IF \E w \in Asked : c[w] # 0
                        THEN c[CHOOSE w \in Asked : c[w] # 0] ELSE 0
Lookup(c, v) == c[v]

\* _reflowUI of the fields in D with these results, `last` being the results it
\* stored before: the removed errors go and the added ones are listed; the kept
\* ones are looked for in the list, not put there.
DiffResults(new, old) == [added |-> new \ old, kept |-> new \cap old,
                          removed |-> old \ new]
ErrorsAfter(listed, last, r) == LET diff == DiffResults(r, last)
                                IN  (listed \ diff.removed) \cup diff.added
ClassAfter(f, r, v) == IF r # {} THEN "error"
                       ELSE IF (Checks[f] # {} \/ f = RemoteField) /\ NeedsValidation(f, v)
                       THEN "success" ELSE "none"
Reflow(D, last, res, vals) ==
    /\ lastResult' = [f \in Fields |-> IF f \in D THEN res[f] ELSE last[f]]
    /\ shown' = [f \in Fields |-> IF f \in D THEN ErrorsAfter(shown[f], last[f], res[f])
                                  ELSE shown[f]]
    /\ class' = [f \in Fields |-> IF f \in D THEN ClassAfter(f, res[f], vals[f])
                                  ELSE class[f]]
    /\ failedOnce' = failedOnce \cup {f \in D : res[f] # {}}

-----------------------------------------------------------------------------
(* whenValidate of the fields in S, for validation `form` of the form (0: the
   field alone), with _remoteCache as given: [result, xhrs, cache, waits, xhr] *)

Validation(S, vals, known) ==
    LET v == vals[RemoteField]
        asking == RemoteField \in S /\ Asks(RemoteField, v)
        asked == asking /\ Lookup(known, v) # 0
        x == IF asked THEN Lookup(known, v) ELSE Len(xhrs) + 1
        status == IF asked THEN xhrs[x].status ELSE "asked"
    IN  [result |-> [f \in Fields |->
                       IF f \notin S THEN result[f]
                       ELSE Failing(f, vals[f]) \cup
                            IF asking /\ f = RemoteField /\ status = "bad"
                            THEN {Remote} ELSE {}],
         xhrs |-> IF asking /\ ~asked THEN Append(xhrs, [value |-> v, status |-> "asked"])
                  ELSE xhrs,
         cache |-> IF asking THEN [known EXCEPT ![v] = x] ELSE known,
         waits |-> asking /\ status = "asked",
         xhr |-> x]

\* The promises a validation leaves behind and what the fields show at once.
Begin(S, vals, known, newRuns(_)) ==
    LET val == Validation(S, vals, known) IN
    /\ Len(val.xhrs) <= MaxAsks
    /\ result' = val.result
    /\ xhrs' = val.xhrs
    /\ runs' = IF val.waits THEN runs \cup newRuns(val.xhr) ELSE runs
    /\ Reflow(S \ (IF val.waits THEN {RemoteField} ELSE {}), lastResult, val.result, vals)

Run(x, form, quiet) == [xhr |-> x, form |-> form, quiet |-> quiet]
\* _reflowUI stores the array itself, when there is one; whenValid starts a new.
StoresArray(res) == res[RemoteField] # {}
ValidateField(f, vals) ==
    /\ Begin({f}, vals, cache, LAMBDA x : {Run(x, 0, FALSE)})
    /\ aliased' = IF f = RemoteField THEN StoresArray(result') ELSE aliased
    /\ cache' = Validation({f}, vals, cache).cache

-----------------------------------------------------------------------------
(* What the user does to a field *)

\* _actualizeTriggers: options.trigger until the first failure, then input.
HearsInput(f) == f \in failedOnce
HearsChange(f) == f \in OnChange \ failedOnce

Type(f, v) ==
    /\ v # value[f]
    /\ value' = [value EXCEPT ![f] = v]
    /\ origin' = [origin EXCEPT ![f] = "typed"]
    /\ IF HearsInput(f) THEN ValidateField(f, value')
       ELSE UNCHANGED <<result, xhrs, cache, runs, ui>>
    /\ UNCHANGED <<forms, formOk>>

\* change, when the field is left.
Leave(f) ==
    /\ origin[f] = "typed"
    /\ origin' = [origin EXCEPT ![f] = "left"]
    /\ IF HearsChange(f) THEN ValidateField(f, value)
       ELSE UNCHANGED <<result, xhrs, cache, runs, ui>>
    /\ UNCHANGED <<value, forms, formOk>>

\* loadJson and the form element's own reset() fire no event Parsley hears.
Fill(vals) ==
    /\ value' = vals
    /\ origin' = [f \in Fields |-> "filled"]
    /\ UNCHANGED <<result, xhrs, cache, runs, ui, forms, formOk>>

-----------------------------------------------------------------------------
(* The form *)

Invalid(val) == \E f \in Fields : val.result[f] # {}
Form(vals, state) == [values |-> vals, state |-> state]

\* onSubmitValidate: sent at once, refused, or prevented until the answer.
Submit ==
    LET val == Validation(Fields, value, NoCache)
        i == Len(forms) + 1
        state == IF Invalid(val) THEN "refused" ELSE IF val.waits THEN "waiting" ELSE "sent"
    IN  /\ i <= MaxForms
        /\ Begin(Fields, value, NoCache, LAMBDA x : {Run(x, i, FALSE)})
        /\ aliased' = StoresArray(result')
        /\ cache' = IF state = "sent" THEN NoCache ELSE val.cache
        /\ forms' = Append(forms, Form(value, state))
        /\ formOk' = ~Invalid(val)
        /\ UNCHANGED <<value, origin>>

\* The page's validate(): form.validate(), then form.isValid(), which must be
\* true at once and leaves new results that no field has stored; the handler
\* then sends the form itself.
Press ==
    LET val == Validation(Fields, value, cache)
        i == Len(forms) + 1
        state == IF Invalid(val) THEN "refused" ELSE IF val.waits THEN "asking" ELSE "sent"
    IN  /\ i <= MaxForms
        /\ Begin(Fields, value, cache, LAMBDA x : {Run(x, i, FALSE), Run(x, i, TRUE)})
        /\ aliased' = FALSE
        /\ cache' = val.cache
        /\ forms' = Append(forms, Form(value, state))
        /\ formOk' = ~Invalid(val)
        /\ UNCHANGED <<value, origin>>

\* A waiting form goes out if its field's promise and its own are resolved:
\* neither validationResult may have become other than true meanwhile.
Resolved(answer, res) == answer = "ok" /\ res = {}
AfterAnswer(form, resolved) ==
    CASE form.state = "waiting" ->
           [form EXCEPT !.state = IF resolved /\ formOk THEN "sent" ELSE "refused"]
      [] form.state = "asking" -> [form EXCEPT !.state = "refused"]
      [] OTHER -> form

\* The remote check answers request x: the failure is pushed to the field's
\* current result, which its last one may be, and every validation that waited
\* for x settles.  A form goes out with what its fields hold by then.
Answer(x, answer) ==
    LET settled == {r \in runs : r.xhr = x}
        told == {r.form : r \in {q \in settled : ~q.quiet}}
        res == IF answer = "bad" /\ settled # {}
               THEN [result EXCEPT ![RemoteField] = @ \cup {Remote}] ELSE result
        last == IF aliased THEN [lastResult EXCEPT ![RemoteField] = res[RemoteField]]
                ELSE lastResult
        ok == Resolved(answer, res[RemoteField])
    IN  /\ xhrs[x].status = "asked"
        /\ xhrs' = [xhrs EXCEPT ![x].status = answer]
        /\ result' = res
        /\ runs' = runs \ settled
        /\ Reflow(IF told = {} THEN {} ELSE {RemoteField}, last, res, value)
        /\ aliased' = ((aliased \/ told # {}) /\ StoresArray(res))
        /\ forms' = [i \in DOMAIN forms |->
                       IF i \in told THEN AfterAnswer(forms[i], ok) ELSE forms[i]]
        /\ formOk' = (formOk /\ (ok \/ \A i \in told \ {0} :
                                   forms[i].state \notin {"waiting", "asking"}))
        /\ cache' = IF \E i \in DOMAIN forms : forms'[i].state = "sent" /\ forms[i].state # "sent"
                    THEN NoCache ELSE cache
        /\ UNCHANGED <<value, origin>>

\* form.reset(): the fields' UI starts again; waiting validations go on.
Reset ==
    /\ lastResult' = [f \in Fields |-> {}]
    /\ aliased' = FALSE
    /\ shown' = [f \in Fields |-> {}]
    /\ class' = [f \in Fields |-> "none"]
    /\ failedOnce' = {}
    /\ UNCHANGED <<value, origin, result, xhrs, cache, runs, forms, formOk>>

Init ==
    /\ value \in Fills
    /\ origin = [f \in Fields |-> "filled"]
    /\ result = [f \in Fields |-> {}]
    /\ lastResult = [f \in Fields |-> {}]
    /\ aliased = FALSE
    /\ shown = [f \in Fields |-> {}]
    /\ class = [f \in Fields |-> "none"]
    /\ failedOnce = {}
    /\ xhrs = <<>>
    /\ cache = NoCache
    /\ runs = {}
    /\ forms = <<>>
    /\ formOk = TRUE

Next ==
    \/ \E f \in Fields : \E v \in Values[f] : Type(f, v)
    \/ \E f \in Fields : Leave(f)
    \/ \E vals \in Fills : Fill(vals)
    \/ Submit
    \/ Press
    \/ \E x \in DOMAIN xhrs, answer \in {"ok", "bad"} : Answer(x, answer)
    \/ Reset

Spec == Init /\ [][Next]_vars

-----------------------------------------------------------------------------
CheckNames(f) == {c.name : c \in Checks[f]} \cup (IF f = RemoteField THEN {Remote} ELSE {})

\* The state's types.  A field is marked as an error when its last result was
\* one, and lists no other errors than that result's; it lists them all unless
\* it has a remote check, whose late failure is in the last result already when
\* the two are compared.
TypeOK ==
    /\ \A f \in Fields : value[f] \in Values[f]
    /\ origin \in [Fields -> {"filled", "typed", "left"}]
    /\ \A f \in Fields : /\ result[f] \subseteq CheckNames(f)
                         /\ lastResult[f] \subseteq CheckNames(f)
                         /\ shown[f] \subseteq lastResult[f]
                         /\ class[f] = "error" <=> lastResult[f] # {}
                         /\ f # RemoteField => shown[f] = lastResult[f]
    /\ class \in [Fields -> {"success", "error", "none"}]
    /\ aliased \in BOOLEAN
    /\ failedOnce \subseteq Fields
    /\ \A x \in DOMAIN xhrs : xhrs[x].value \in Asked /\ xhrs[x].status \in {"asked", "ok", "bad"}
    /\ cache \in [Asked -> 0..Len(xhrs)]
    /\ \A r \in runs : xhrs[r.xhr].status = "asked" /\ r.form \in 0..Len(forms)
    /\ formOk \in BOOLEAN

\* A submission is let through, at once or after an answer that came while the
\* user typed on, pressed again or reset the form, only if every value the form
\* held when it was submitted had been accepted by all its checks, the remote
\* one for that very value (Form.onSubmitValidate, Form.whenValidate,
\* Field.whenValid, remote).  What was typed while the answer was awaited goes
\* out with it, accepted or not: _submit validates nothing.
SentWasChecked ==
    \A i \in DOMAIN forms : forms[i].state = "sent" =>
      \A f \in Fields :
        /\ Failing(f, forms[i].values[f]) = {}
        /\ Asks(f, forms[i].values[f]) =>
             \E x \in DOMAIN xhrs :
               xhrs[x] = [value |-> forms[i].values[f], status |-> "ok"]

\* Once a field has failed, the errors under it are those of what the user has
\* typed since, keystroke by keystroke, until the form is reset; a field with a
\* remote check shows an older answer's error too (UI.Field._reflowUI,
\* _actualizeTriggers).
ErrorsFollowTyping ==
    \A f \in failedOnce \ {RemoteField} :
      origin[f] # "filled" => shown[f] = Failing(f, value[f])
=============================================================================
