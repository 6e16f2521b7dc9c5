----------------------------- MODULE TableSetup -----------------------------
(***************************************************************************)
(* From `$(table).DataTable(options)` to a table that works: the registry  *)
(* of tables, the language file, the saved state and the first rows, which *)
(* come at once or from callbacks in any order; a second call for the same *)
(* element; and destroy().  An instance is a settings object.              *)
(***************************************************************************)
EXTENDS PagingOps, FiniteSets

CONSTANTS Tables,       \* table elements
          IdOf,         \* [Tables -> their id attributes]
          Options,      \* [source, state, language, again]: where rows come from
                        \* ("dom", "ajax" or "ssp"), how the state is loaded ("no",
                        \* "now" or "later"), whether oLanguage.sUrl is set, and what
                        \* a second call asks for ("retrieve", "destroy" or "no")
          Starts,       \* page starts the user turns to
          RowCount,     \* rows of every table
          MaxInstances, \* bound on the settings objects
          Nil

VARIABLES inst,     \* settings objects, in order of creation
          settings, \* DataTable.settings: indexes into inst
          tbody,    \* [Tables -> the instance that drew its body last, or Nil]
          storage   \* [ids -> the start saved in localStorage, or Nil]

vars == <<inst, settings, tbody, storage>>

Ids == { IdOf[t] : t \in Tables }
Used == -1

\* A new settings object: `waits` is what will call back.
New(t, opt) ==
    [table |-> t, opt |-> opt, start |-> 0, initStart |-> 0, ajaxStart |-> 0,
     initialised |-> FALSE, inits |-> 0, complete |-> FALSE, rows |-> 0,
     loaded |-> Nil, early |-> FALSE, destroying |-> FALSE,
     waits |-> IF opt.language THEN {"language"} ELSE {}]

\* What the steps below work on: a settings object and the storage.
Work(s) == [s |-> s, body |-> FALSE, store |-> storage[IdOf[s.table]]]

-----------------------------------------------------------------------------
(* Drawing *)

\* _fnSaveState, a draw callback: nothing is saved while destroying.
SaveStateAlways(w) == IF w.s.opt.state = "no" THEN w ELSE [w EXCEPT !.store = w.s.start]
SaveState(w) ==
    IF w.s.opt.state = "no" \/ w.s.destroying THEN w ELSE [w EXCEPT !.store = w.s.start]

\* _fnDraw: the start asked for by the options or the state is taken once.
TakeStart(s) ==
    IF s.initStart = Used THEN s
    ELSE [s EXCEPT !.start = IF s.opt.source = "ssp" \/ s.initStart < s.rows
                             THEN s.initStart ELSE 0,
                   !.initStart = Used]
Draw(w) == SaveState([w EXCEPT !.s = TakeStart(w.s), !.body = TRUE])

\* A server-side table draws with the answer only (_fnAjaxUpdate).
Request(w) == [w EXCEPT !.s = [TakeStart(w.s) EXCEPT !.waits = @ \cup {"ajax"}]]
DrawOrRequest(w) ==
    IF w.s.opt.source = "ssp" /\ ~w.s.destroying THEN Request(w) ELSE Draw(w)
ReDraw(w) == DrawOrRequest([w EXCEPT !.s.start = 0])

-----------------------------------------------------------------------------
(* Initialising *)

\* _fnInitialise, from where it finds the table ready; for rows that come by
\* ajax, the first draw uses up the start, which is kept for the second.
Build(w) ==
    LET drawn == ReDraw([w EXCEPT !.s.inits = @ + 1])
    IN  CASE w.s.opt.source = "dom" -> [drawn EXCEPT !.s.complete = TRUE]
          [] w.s.opt.source = "ajax" -> [drawn EXCEPT !.s.waits = @ \cup {"ajax"},
                                                      !.s.ajaxStart = w.s.initStart]
          [] w.s.opt.source = "ssp" -> drawn

\* _fnInitialise: look again in 200 ms if the state is not loaded yet.
Initialise(w) ==
    IF w.s.initialised THEN Build(w) ELSE [w EXCEPT !.s.waits = @ \cup {"timer"}]

\* loadedInit: the rows in the page are read; initialising was handed off to
\* the callback of the language file if there is one.
LoadedInit(w) ==
    LET s == [w.s EXCEPT !.initialised = TRUE,
                         !.rows = IF w.s.opt.source = "dom" THEN RowCount ELSE 0]
    IN  IF s.opt.language THEN [w EXCEPT !.s = s] ELSE Initialise([w EXCEPT !.s = s])

\* _fnLoadState, when it has the state; one that is too old, or of a table
\* with other columns, is left alone.
LoadState(w, usable) ==
    LoadedInit(IF storage[IdOf[w.s.table]] = Nil \/ ~usable THEN w
               ELSE LET start == storage[IdOf[w.s.table]]
                    IN  [w EXCEPT !.s = [@ EXCEPT !.start = start, !.initStart = start,
                                                  !.loaded = start]])

\* The constructor, after the registry was searched.
Setup(s, usable) ==
    CASE s.opt.state = "no" -> LoadedInit(Work(s))
      [] s.opt.state = "now" -> LoadState(Work(s), usable)
      [] s.opt.state = "later" -> Work([s EXCEPT !.waits = @ \cup {"state"}])

Bodies(w, i) == IF w.body THEN [tbody EXCEPT ![w.s.table] = i] ELSE tbody
Stored(w) == [storage EXCEPT ![IdOf[w.s.table]] = w.store]

\* The work on instance i is done.
Become(i, w) ==
    /\ inst' = [inst EXCEPT ![i] = w.s]
    /\ tbody' = Bodies(w, i)
    /\ storage' = Stored(w)

-----------------------------------------------------------------------------
(* The registry *)

\* The search stops at an entry of the element, at one whose heading is not
\* known yet, which throws, or at one with the same id.
Same(k, t) == inst[settings[k]].table = t
Throws(k, t) == ~Same(k, t) /\ ~inst[settings[k]].initialised
SameId(k, t) == IdOf[inst[settings[k]].table] = IdOf[t]
Stop(t) ==
    LET found == { k \in DOMAIN settings : Same(k, t) \/ Throws(k, t) \/ SameId(k, t) }
    IN  IF found = {} THEN 0 ELSE CHOOSE k \in found : \A j \in found : k <= j

\* destroy() throws at once if the table has no wrapper yet.
CanDestroy(i) == inst[i].inits > 0
DestroyedBy(i) == [inst EXCEPT ![i].destroying = TRUE]
Unspliced(k) == settings
Without(k) == Cut(settings, k)

\* Whether a new settings object is made, and the registry it is added to.
Makes(t, opt) ==
    LET k == Stop(t)
    IN  k # 0 => /\ ~Throws(k, t)
                 /\ Same(k, t) => opt.again = "destroy" /\ CanDestroy(settings[k])
Registry(t) == IF Stop(t) = 0 THEN settings ELSE Without(Stop(t))

Construct(t, opt, usable) ==
    /\ Len(inst) < MaxInstances
    /\ Makes(t, opt)
    /\ LET k == Stop(t)
           old == IF k # 0 /\ Same(k, t) THEN DestroyedBy(settings[k]) ELSE inst
           w == Setup(New(t, opt), usable)
       IN  /\ inst' = Append(old, w.s)
           /\ settings' = Append(Registry(t), Len(inst) + 1)
           /\ tbody' = Bodies(w, Len(inst) + 1)
           /\ storage' = Stored(w)

\* table.destroy(), which takes the first entry of the table off the registry,
\* if it is on it.
Entries(i) == { k \in DOMAIN settings : settings[k] = i }
Destroy(i) ==
    /\ CanDestroy(i) /\ ~inst[i].destroying
    /\ inst' = DestroyedBy(i)
    /\ settings' = IF Entries(i) = {} THEN settings
                   ELSE Without(CHOOSE k \in Entries(i) : \A j \in Entries(i) : k <= j)
    /\ tbody' = [tbody EXCEPT ![inst[i].table] = Nil]
    /\ UNCHANGED storage

-----------------------------------------------------------------------------
(* Callbacks and calls *)

Waits(i, what) == what \in inst[i].waits
Done(i, what) == [inst[i] EXCEPT !.waits = @ \ {what}]

\* The language file, or its failure; the 200 ms.
Language(i) == /\ Waits(i, "language")
               /\ Become(i, Initialise(Work(Done(i, "language"))))
               /\ UNCHANGED settings
Timer(i) == /\ Waits(i, "timer")
            /\ Become(i, Initialise(Work(Done(i, "timer"))))
            /\ UNCHANGED settings

\* The callback given to fnStateLoadCallback.
StateLoaded(i, usable) ==
    /\ Waits(i, "state")
    /\ Become(i, LoadState(Work(Done(i, "state")), usable))
    /\ UNCHANGED settings

\* Rows from the server: the first ones complete the initialisation.
Rows(i) ==
    /\ Waits(i, "ajax")
    /\ LET s == [Done(i, "ajax") EXCEPT !.rows = RowCount]
           w == IF s.opt.source = "ssp" THEN Draw(Work(s))
                ELSE ReDraw(Work([s EXCEPT !.initStart = s.ajaxStart]))
       IN  Become(i, [w EXCEPT !.s.complete = TRUE])
    /\ UNCHANGED settings
Failed(i) == /\ Waits(i, "ajax")
             /\ Become(i, Work(Done(i, "ajax")))
             /\ UNCHANGED settings

\* table.draw(), which nothing forbids before the table is complete.
ApiDraw(i) ==
    /\ ~inst[i].destroying
    /\ Become(i, ReDraw(Work([inst[i] EXCEPT !.early = @ \/ ~inst[i].complete])))
    /\ UNCHANGED settings

\* A page button of a complete table.
Turn(i, start) ==
    /\ inst[i].complete /\ ~inst[i].destroying
    /\ start # inst[i].start /\ start < inst[i].rows
    /\ Become(i, DrawOrRequest(Work([inst[i] EXCEPT !.start = start])))
    /\ UNCHANGED settings

\* The page is left and opened again.
Leave == /\ inst # <<>>
         /\ inst' = <<>> /\ settings' = <<>>
         /\ tbody' = [t \in Tables |-> Nil]
         /\ UNCHANGED storage

Init == /\ inst = <<>> /\ settings = <<>>
        /\ tbody = [t \in Tables |-> Nil]
        /\ storage = [id \in Ids |-> Nil]

Next == \/ \E t \in Tables, opt \in Options, usable \in BOOLEAN : Construct(t, opt, usable)
        \/ \E i \in DOMAIN inst :
             \/ Language(i) \/ Timer(i) \/ Rows(i) \/ Failed(i)
             \/ ApiDraw(i) \/ Destroy(i)
             \/ \E usable \in BOOLEAN : StateLoaded(i, usable)
             \/ \E start \in Starts : Turn(i, start)
        \/ Leave

Spec == Init /\ [][Next]_vars
-----------------------------------------------------------------------------
TypeOK ==
    /\ \A i \in DOMAIN inst : /\ inst[i].table \in Tables /\ inst[i].opt \in Options
                              /\ inst[i].start \in Nat /\ inst[i].initStart \in Nat \cup {Used}
                              /\ inst[i].waits \subseteq {"language", "timer", "state", "ajax"}
    /\ settings \in Seq(DOMAIN inst)
    /\ tbody \in [Tables -> DOMAIN inst \cup {Nil}]

\* In whatever order the language file and the saved state arrive, a table is
\* built once, and one that is not built waits for something that builds it.
BuiltOnce ==
    \A i \in DOMAIN inst : /\ inst[i].inits <= 1
                           /\ inst[i].inits = 0 => inst[i].waits # {}

\* A table shows the page it was left on: whatever came first, the rows that
\* complete it are drawn at the start the saved state has, unless draw() was
\* called before.
SavedPageKept ==
    inst' # <<>> =>
        \A i \in DOMAIN inst' :
          (/\ inst'[i].complete /\ (i \in DOMAIN inst => ~inst[i].complete)
           /\ inst'[i].loaded # Nil /\ inst'[i].loaded < RowCount /\ ~inst'[i].early)
          => inst'[i].start = inst'[i].loaded

\* Tables are made, made again and destroyed: the registry never has an
\* element or an id twice, and a destroyed table is off it.
RegistryUnique ==
    /\ \A j, k \in DOMAIN settings : j # k => ~SameId(j, inst[settings[k]].table)
    /\ \A k \in DOMAIN settings : ~inst[settings[k]].destroying

\* What is still on its way to a destroyed table does not change the state
\* saved for the element, which a new table may have by now.
DestroyedSavesNothing ==
    \A i \in DOMAIN inst : (inst[i].destroying /\ inst' # <<>> /\ inst' # inst
                                /\ \E w \in inst[i].waits : w \notin inst'[i].waits)
                               => storage' = storage
=============================================================================
