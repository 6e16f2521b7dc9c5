---------------------------- MODULE EmpPageProofs ----------------------------
(***************************************************************************)
(* Theorems about the employees page and the roster behind it, for any     *)
(* number of employees, requests, calls and visits: types, the page that a *)
(* request gets, late answers, and what is deleted.                        *)
(***************************************************************************)
EXTENDS EmpPage, ModelLemmas, FiniteSetTheorems

(***************************************************************************)
(* The numbers of the requests.                                            *)
(***************************************************************************)

IsRequest(q) ==
  q = [draw |-> q.draw, start |-> q.start, len |-> q.len, rows |-> q.rows, table |-> q.table,
       total |-> q.total]

\* A request under way is not newer than the newest one, which is about the page
\* the table is on; nor is one that failed.
Numbered ==
  /\ iDraw \in Nat /\ lost \in Nat /\ lost <= iDraw
  /\ \A q \in flight :
       /\ IsRequest(q) /\ q.draw \in Nat /\ q.draw <= iDraw
       /\ q.draw = iDraw => q.start = iDisplayStart /\ q.len = iDisplayLength

numberVars == <<iDraw, iDisplayStart, iDisplayLength, flight, lost>>

LEMMA RequestFields ==
  ASSUME NEW d, NEW s, NEW l
  PROVE  /\ IsRequest(Request(d, s, l)) /\ Request(d, s, l).draw = d
         /\ Request(d, s, l).start = s /\ Request(d, s, l).len = l
         /\ Request(d, s, l).rows = Nil /\ Request(d, s, l).table = {}
         /\ Request(d, s, l).total = Nil
BY DEF IsRequest, Request

LEMMA InitNumbered == Init => Numbered
<1> SUFFICES ASSUME Init PROVE Numbered
  OBVIOUS
<1>1. iDraw = 1 /\ lost = 0 /\ flight = {Request(1, iDisplayStart, iDisplayLength)}
  BY DEF Init
<1> QED
  BY <1>1, RequestFields DEF Numbered

\* The server's part of an answer.
LEMMA ListAnswers ==
  ASSUME Numbered, NEW q \in flight, ListEmp(q)
  PROVE  \E a : /\ Answering(q, a) /\ IsRequest(a) /\ a.draw = q.draw /\ a.start = q.start
                /\ a.len = q.len /\ a.rows = PageRows(q.start, q.len) /\ a.table = emps
                /\ a.total = q.total
<1> DEFINE rows == PageRows(q.start, q.len)
           a == [q EXCEPT !.rows = rows, !.table = emps]
<1>1. IsRequest(q) /\ Answering(q, a)
  BY DEF Numbered, ListEmp
<1> HIDE DEF rows
<1> DEFINE R == [draw : {q.draw}, start : {q.start}, len : {q.len}, rows : {q.rows, rows},
                 table : {q.table, emps}, total : {q.total}]
<1>2. q \in R
  BY <1>1 DEF IsRequest
<1>3. a \in R /\ a.rows = rows /\ a.table = emps
  BY <1>2
<1> HIDE DEF a
<1>4. /\ IsRequest(a) /\ a.draw = q.draw /\ a.start = q.start /\ a.len = q.len
      /\ a.rows = rows /\ a.table = emps /\ a.total = q.total
  BY <1>3 DEF IsRequest
<1> QED
  BY <1>1, <1>4 DEF rows

LEMMA CountAnswers ==
  ASSUME Numbered, NEW q \in flight, CountEmp(q)
  PROVE  \E a : /\ Answering(q, a) /\ IsRequest(a) /\ a.draw = q.draw /\ a.start = q.start
                /\ a.len = q.len /\ a.rows = q.rows /\ a.table = q.table
                /\ a.total = Cardinality(emps)
<1> DEFINE a == [q EXCEPT !.total = Cardinality(emps)]
<1>1. IsRequest(q) /\ Answering(q, a)
  BY DEF Numbered, CountEmp
<1>2. /\ IsRequest(a) /\ a.draw = q.draw /\ a.start = q.start /\ a.len = q.len
      /\ a.rows = q.rows /\ a.table = q.table /\ a.total = Cardinality(emps)
  BY <1>1 DEF IsRequest
<1> QED
  BY <1>1, <1>2

LEMMA FetchNumbered ==
  ASSUME Numbered, NEW start, NEW len, Fetch(start, len), UNCHANGED lost,
         flight' = flight \cup {Request(iDraw + 1, start, len)}
  PROVE  Numbered'
<1> DEFINE new == Request(iDraw + 1, start, len)
<1>1. iDraw' = iDraw + 1 /\ iDisplayStart' = start /\ iDisplayLength' = len /\ iDraw \in Nat
  BY DEF Fetch, Numbered
<1>2. IsRequest(new) /\ new.draw = iDraw' /\ new.start = start /\ new.len = len
  BY <1>1, RequestFields
<1> HIDE DEF new
<1>3. \A q \in flight : q.draw # iDraw' /\ q.draw <= iDraw' /\ q.draw \in Nat /\ IsRequest(q)
  BY <1>1 DEF Numbered
<1>4. flight' = flight \cup {new} /\ lost' = lost /\ lost \in Nat /\ lost <= iDraw
  BY DEF new, Numbered
<1> QED
  BY <1>1, <1>2, <1>3, <1>4 DEF Numbered

LEMMA NextNumbered == Numbered /\ [Next]_vars => Numbered'
<1> SUFFICES ASSUME Numbered, [Next]_vars PROVE Numbered'
  OBVIOUS
<1>0. ASSUME UNCHANGED numberVars PROVE Numbered'
  BY <1>0 DEF numberVars, Numbered
<1>1. ASSUME NEW q \in flight, ListEmp(q) \/ CountEmp(q) PROVE Numbered'
  <2>1. PICK a : Answering(q, a) /\ IsRequest(a) /\ a.draw = q.draw /\ a.start = q.start
                 /\ a.len = q.len
    BY <1>1, ListAnswers, CountAnswers
  <2>2. UNCHANGED <<iDraw, iDisplayStart, iDisplayLength, lost>>
        /\ flight' = (flight \ {q}) \cup {a}
    BY <2>1 DEF Answering
  <2> QED
    BY <2>1, <2>2 DEF Numbered
<1>2. ASSUME NEW q \in flight, Deliver(q) PROVE Numbered'
  <2>1. UNCHANGED <<iDisplayStart, iDisplayLength, lost>> /\ flight' = flight \ {q}
        /\ iDraw' = iDraw
    BY <1>2 DEF Deliver, Stale, Numbered
  <2> QED
    BY <2>1 DEF Numbered
<1>3. ASSUME NEW q \in flight, Lose(q) PROVE Numbered'
  BY <1>3 DEF Lose, Numbered
<1>4. ASSUME NEW action, Turn(action) PROVE Numbered'
  BY <1>4, FetchNumbered DEF Turn
<1>5. ASSUME NEW len \in Lengths, ChangeLength(len) PROVE Numbered'
  BY <1>5, FetchNumbered DEF ChangeLength
<1>6. ASSUME NEW c \in calls, Succeed(c) PROVE Numbered'
  BY <1>6, FetchNumbered DEF Succeed, Redraw
<1>7. ASSUME Reload PROVE Numbered'
  <2>1. iDraw' = 1 /\ lost' = 0 /\ flight' = {Request(1, iDisplayStart', iDisplayLength')}
    BY <1>7 DEF Reload
  <2> QED
    BY <2>1, RequestFields DEF Numbered
<1>8. ASSUME \/ \E at \in SUBSET DOMAIN shown.rows \ {{}} : AskDelete(at)
             \/ \E yes \in BOOLEAN : Answer(yes)
             \/ OpenAdd \/ CloseForm \/ SubmitEmp
             \/ \E emp \in emps : OpenEdit(emp)
             \/ \E c \in calls : Serve(c) \/ Refuse(c)
             \/ Others \/ UNCHANGED vars
      PROVE  UNCHANGED numberVars
  BY <1>8 DEF AskDelete, Answer, OpenAdd, CloseForm, SubmitEmp, OpenEdit, Serve, Refuse, Others,
              vars, pageVars, numberVars
<1> QED
  BY <1>0, <1>1, <1>2, <1>3, <1>4, <1>5, <1>6, <1>7, <1>8 DEF Next, Fetching

(***************************************************************************)
(* Deletions.                                                              *)
(***************************************************************************)

Modals == {"closed", "add", "edit"}
Addition == [op : {"add"}, for : Modals, done : BOOLEAN]

\* Each call is an addition, or a deletion of rows that were asked about.
IsCall(c) ==
  \/ c \in Addition
  \/ /\ c = [op |-> "delete", ids |-> c.ids, asked |-> c.asked]
     /\ c.ids \subseteq c.asked

Calls == modal \in Modals /\ \A c \in calls : IsCall(c)

LEMMA ServeCall ==
  ASSUME NEW c, IsCall(c), Serve(c)
  PROVE  \E d : IsCall(d) /\ calls' = (calls \ {c}) \cup {d}
<1>1. CASE c.op = "add"
  <2>1. c \in Addition
    BY <1>1 DEF IsCall
  <2>2. [c EXCEPT !.done = TRUE] \in Addition
    BY <2>1 DEF Addition
  <2> DEFINE d == [c EXCEPT !.done = TRUE]
  <2>3. c.op # "delete"
    BY <1>1
  <2>4. calls' = (calls \ {c}) \cup {d}
    BY <2>3 DEF Serve
  <2>5. IsCall(d)
    BY <2>2 DEF IsCall
  <2> HIDE DEF d
  <2> QED
    BY <2>4, <2>5
<1>2. CASE c.op = "delete"
  <2>1. c = [op |-> "delete", ids |-> c.ids, asked |-> c.asked] /\ c.ids \subseteq c.asked
    BY <1>2 DEF IsCall, Addition
  <2>2. PICK id : calls' = (calls \ {c}) \cup {[c EXCEPT !.ids = c.ids \ {id}]}
    BY <1>2 DEF Serve
  <2>3. IsCall([c EXCEPT !.ids = c.ids \ {id}])
    BY <2>1 DEF IsCall
  <2> QED
    BY <2>2, <2>3
<1> QED
  BY <1>1, <1>2 DEF Serve

LEMMA NextCalls == Calls /\ [Next]_vars => Calls'
<1> SUFFICES ASSUME Calls, [Next]_vars PROVE Calls'
  OBVIOUS
<1>0. modal' \in Modals
  BY DEF Calls, Modals, Next, Fetching, ListEmp, CountEmp, Answering, Deliver, Lose, Turn,
         ChangeLength, AskDelete, Answer, OpenAdd, CloseForm, SubmitEmp, OpenEdit, Serve, Succeed,
         Refuse, Reload, Others, vars, pageVars
<1>1. ASSUME calls' \subseteq calls PROVE Calls'
  BY <1>0, <1>1 DEF Calls
<1>2. ASSUME NEW yes \in BOOLEAN, Answer(yes) PROVE Calls'
  <2>1. IsCall([op |-> "delete", ids |-> RowsAsked(dialog), asked |-> dialog.ids])
    BY DEF IsCall, RowsAsked
  <2> QED
    BY <1>0, <1>2, <2>1 DEF Answer, Calls
<1>3. ASSUME SubmitEmp PROVE Calls'
  <2>1. IsCall([op |-> "add", for |-> modal, done |-> FALSE])
    BY DEF IsCall, Addition, Calls
  <2> QED
    BY <1>0, <1>3, <2>1 DEF SubmitEmp, Calls
<1>4. ASSUME NEW c \in calls, Serve(c) PROVE Calls'
  <2>1. PICK d : IsCall(d) /\ calls' = (calls \ {c}) \cup {d}
    BY <1>4, ServeCall DEF Calls
  <2> QED
    BY <1>0, <2>1 DEF Calls
<1>5. ASSUME NEW c \in calls, Succeed(c) \/ Refuse(c) PROVE calls' \subseteq calls
  BY <1>5 DEF Succeed, Refuse
<1>6. ASSUME \/ Fetching \/ \E q \in flight : Lose(q)
             \/ \E a \in Moves : Turn(a)
             \/ \E n \in 0 .. MaxId - 1 : Turn(ToPage(n))
             \/ \E len \in Lengths : ChangeLength(len)
             \/ \E at \in SUBSET DOMAIN shown.rows \ {{}} : AskDelete(at)
             \/ OpenAdd \/ CloseForm
             \/ \E emp \in emps : OpenEdit(emp)
             \/ Reload \/ Others \/ UNCHANGED vars
      PROVE  calls' \subseteq calls
  BY <1>6 DEF Fetching, ListEmp, CountEmp, Answering, Deliver, Lose, Turn, ChangeLength,
              AskDelete, OpenAdd, CloseForm, OpenEdit, Reload, Others, vars, pageVars
<1> QED
  BY <1>1, <1>2, <1>3, <1>4, <1>5, <1>6 DEF Next

\* Whatever is drawn while the question is open, and wherever a deletion stops:
\* no row is deleted but those the question was about.
THEOREM OnlyAskedDeleted == Spec => []DeletesAsked
<1>1. Init => Calls
  BY DEF Init, Calls, Modals
<1>2. Calls => DeletesAsked
  BY DEF Calls, IsCall, Addition, DeletesAsked
<1> QED
  BY <1>1, <1>2, NextCalls, PTL DEF Spec

(***************************************************************************)
(* Ids.                                                                    *)
(***************************************************************************)

\* Ids are given out once; those of an open batch are not in the table.
Ids ==
  /\ nextId \in Nat \ {0}
  /\ \A i \in emps : i \in Nat /\ i < nextId
  /\ batch \in {Nil} \cup Batch
  /\ batch # Nil => \A i \in batch.ids : i \in Nat /\ i < nextId

LEMMA InitIds == Init => Ids
<1> SUFFICES ASSUME Init PROVE Ids
  OBVIOUS
<1>1. PICK n \in 0 .. MaxId : emps = 1 .. n /\ nextId = n + 1
  BY DEF Init, RosterInit
<1>2. batch = Nil
  BY DEF Init, RosterInit
<1> QED
  BY <1>1, <1>2 DEF Ids

LEMMA InsertOfBatchIds ==
  ASSUME Ids, InsertOfBatch
  PROVE  Ids'
<1> DEFINE b == [ids |-> batch.ids \cup {nextId}, left |-> batch.left - 1]
<1>1. batch \in Batch /\ batch.left > 0
  BY DEF Ids, InsertOfBatch
<1>2. batch' = b /\ nextId' = nextId + 1 /\ emps' = emps
  BY DEF InsertOfBatch
<1>3. b \in Batch /\ b.ids = batch.ids \cup {nextId}
  BY <1>1 DEF Batch, Ids
<1> HIDE DEF b
<1>4. \A i \in b.ids : i \in Nat /\ i < nextId + 1
  BY <1>1, <1>3 DEF Ids, InsertOfBatch
<1>5. \A i \in emps : i \in Nat /\ i < nextId + 1
  BY DEF Ids
<1>6. nextId + 1 \in Nat \ {0}
  BY DEF Ids
<1> QED
  BY <1>2, <1>3, <1>4, <1>5, <1>6 DEF Ids

LEMMA NextIds == Ids /\ [Next]_vars => Ids'
<1> SUFFICES ASSUME Ids, [Next]_vars PROVE Ids'
  OBVIOUS
<1>1. ASSUME UNCHANGED rosterVars PROVE Ids'
  BY <1>1 DEF rosterVars, Ids
<1>2. ASSUME NEW n \in 1 .. MaxBatch, BeginBatch(n) PROVE Ids'
  <2>1. batch' = [ids |-> {}, left |-> n] /\ UNCHANGED <<emps, nextId>> /\ n \in Nat
    BY <1>2 DEF BeginBatch
  <2>2. batch' \in Batch /\ batch'.ids = {}
    BY <2>1 DEF Batch
  <2> QED
    BY <2>1, <2>2 DEF Ids
<1>3. ASSUME NEW fails \in BOOLEAN, EndBatch(fails) PROVE Ids'
  <2>1. /\ batch # Nil /\ batch' = Nil /\ nextId' = nextId
        /\ emps' = IF fails THEN emps ELSE emps \cup batch.ids
    BY <1>3 DEF EndBatch
  <2>2. \A i \in emps' : i \in Nat /\ i < nextId
    BY <2>1 DEF Ids
  <2> QED
    BY <2>1, <2>2 DEF Ids
<1>4. ASSUME Insert PROVE Ids'
  <2>1. emps' = emps \cup {nextId} /\ nextId' = nextId + 1 /\ batch' = batch
    BY <1>4 DEF Insert
  <2>2. \A i \in emps' : i \in Nat /\ i < nextId'
    BY <2>1 DEF Ids
  <2>3. batch # Nil => \A i \in batch.ids : i \in Nat /\ i < nextId'
    BY <2>1 DEF Ids
  <2> QED
    BY <2>1, <2>2, <2>3 DEF Ids
<1>5. ASSUME NEW id, Delete(id) PROVE Ids'
  BY <1>5 DEF Delete, Ids
<1>6. ASSUME Others PROVE Ids'
  <2>1. ASSUME BatchNext PROVE Ids'
    BY <1>2, <1>3, <2>1, InsertOfBatchIds DEF BatchNext
  <2> QED
    BY <1>4, <1>5, <1>6, <2>1 DEF Others
<1>7. ASSUME NEW c \in calls, Serve(c) PROVE Ids'
  BY <1>4, <1>5, <1>7 DEF Serve
<1>8. ASSUME \/ Fetching \/ \E q \in flight : Lose(q)
             \/ \E a \in Moves : Turn(a)
             \/ \E n \in 0 .. MaxId - 1 : Turn(ToPage(n))
             \/ \E len \in Lengths : ChangeLength(len)
             \/ \E at \in SUBSET DOMAIN shown.rows \ {{}} : AskDelete(at)
             \/ \E yes \in BOOLEAN : Answer(yes)
             \/ OpenAdd \/ CloseForm \/ SubmitEmp
             \/ \E emp \in emps : OpenEdit(emp)
             \/ \E c \in calls : Succeed(c) \/ Refuse(c)
             \/ Reload \/ UNCHANGED vars
      PROVE  UNCHANGED rosterVars
  BY <1>8 DEF Fetching, ListEmp, CountEmp, Answering, Deliver, Lose, Turn, ChangeLength,
              AskDelete, Answer, OpenAdd, CloseForm, SubmitEmp, OpenEdit, Succeed, Refuse,
              Reload, vars, rosterVars
<1> QED
  BY <1>1, <1>6, <1>7, <1>8 DEF Next

(***************************************************************************)
(* The rows in order.                                                      *)
(***************************************************************************)

Rank(S, x) == Cardinality({ y \in S : y < x })

LEMMA ProperSubset ==
  ASSUME NEW S, IsFiniteSet(S), NEW R \in SUBSET S, NEW x \in S \ R
  PROVE  Cardinality(R) \in Nat /\ Cardinality(S) \in Nat /\ Cardinality(R) < Cardinality(S)
<1>1. IsFiniteSet(R) /\ Cardinality(R) <= Cardinality(S) /\ Cardinality(R) # Cardinality(S)
  BY FS_Subset
<1>2. Cardinality(R) \in Nat /\ Cardinality(S) \in Nat
  BY <1>1, FS_CardinalityType
<1> QED
  BY <1>1, <1>2

\* Ranks are numbers below that of all rows, and greater for a greater row.
LEMMA RankBounds ==
  ASSUME NEW S \in SUBSET Nat, IsFiniteSet(S), NEW x \in S
  PROVE  Rank(S, x) \in 0 .. Cardinality(S) - 1
<1> DEFINE R == { y \in S : y < x }
<1>1. R \in SUBSET S /\ x \in S \ R
  OBVIOUS
<1> HIDE DEF R
<1>2. Cardinality(R) \in Nat /\ Cardinality(S) \in Nat /\ Cardinality(R) < Cardinality(S)
  BY <1>1, ProperSubset
<1> QED
  BY <1>2 DEF Rank, R

LEMMA RankGrows ==
  ASSUME NEW S \in SUBSET Nat, IsFiniteSet(S), NEW x \in S, NEW z \in S, x < z
  PROVE  Rank(S, x) < Rank(S, z)
<1> DEFINE R == { y \in S : y < x }
           T == { y \in S : y < z }
<1>0. (\A y \in S : y < x => y < z) /\ ~(x < x)
  OBVIOUS
<1>1. R \in SUBSET T /\ x \in T \ R /\ T \in SUBSET S
  BY <1>0
<1> HIDE DEF R, T
<1>2. IsFiniteSet(T)
  BY <1>1, FS_Subset
<1>3. Cardinality(R) < Cardinality(T)
  BY <1>1, <1>2, ProperSubset
<1> QED
  BY <1>3 DEF Rank, R, T

\* Every rank is that of a row: there are as many ranks as rows.
LEMMA RankReached ==
  ASSUME NEW S \in SUBSET Nat, IsFiniteSet(S), NEW i \in 1 .. Cardinality(S)
  PROVE  \E x \in S : Rank(S, x) = i - 1
<1> DEFINE n == Cardinality(S)
           f == [x \in S |-> Rank(S, x)]
<1>1. n \in Nat
  BY FS_CardinalityType
<1>2. IsFiniteSet(0 .. n - 1) /\ Cardinality(0 .. n - 1) = n
  <2>0. 0 \in Int /\ n - 1 \in Int
    BY <1>1
  <2> HIDE DEF n
  <2>1. IsFiniteSet(0 .. n - 1) /\ Cardinality(0 .. n - 1) = IF 0 > n - 1 THEN 0 ELSE n - 1 - 0 + 1
    BY <2>0, FS_Interval
  <2> QED
    BY <1>1, <2>1
<1>3. f \in [S -> 0 .. n - 1]
  BY RankBounds
<1>4. \A x, z \in S : f[x] = f[z] => x = z
  <2> SUFFICES ASSUME NEW x \in S, NEW z \in S, Rank(S, x) = Rank(S, z) PROVE x = z
    OBVIOUS
  <2>1. Rank(S, x) \in Int /\ Rank(S, z) \in Int
    BY <1>1, RankBounds
  <2>2. ~(x < z) /\ ~(z < x)
    BY <2>1, RankGrows
  <2> QED
    BY <2>2
<1>5. f \in Injection(S, 0 .. n - 1)
  BY <1>3, <1>4 DEF Injection, IsInjective
<1>6. f \in Surjection(S, 0 .. n - 1)
  <2> HIDE DEF n, f
  <2> QED
    BY <1>2, <1>5, FS_Injection DEF n
<1>7. i - 1 \in 0 .. n - 1
  BY <1>1
<1>8. PICK x \in S : f[x] = i - 1
  <2> HIDE DEF f
  <2> QED
    BY <1>6, <1>7 DEF Surjection
<1> QED
  BY <1>8

\* What the statement returns: each row once, in ascending order.
LEMMA InOrderSorts ==
  ASSUME NEW S \in SUBSET Nat, IsFiniteSet(S)
  PROVE  /\ InOrder(S) \in Seq(S) /\ Len(InOrder(S)) = Cardinality(S)
         /\ \A x \in S : \E i \in 1 .. Cardinality(S) : InOrder(S)[i] = x
         /\ \A i, j \in 1 .. Cardinality(S) : i < j => InOrder(S)[i] < InOrder(S)[j]
<1> DEFINE n == Cardinality(S)
           s == InOrder(S)
<1>1. n \in Nat
  BY FS_CardinalityType
<1>2. \A i \in 1 .. n : s[i] \in S /\ Rank(S, s[i]) = i - 1
  <2> TAKE i \in 1 .. n
  <2>1. \E x \in S : Rank(S, x) = i - 1
    BY RankReached
  <2>2. s[i] = CHOOSE x \in S : Rank(S, x) = i - 1
    BY DEF InOrder, Rank
  <2> QED
    BY <2>1, <2>2
<1>3. DOMAIN s = 1 .. n /\ s = [i \in 1 .. n |-> s[i]]
  BY DEF InOrder
<1> HIDE DEF s
<1>4. s \in Seq(S) /\ Len(s) = n
  BY <1>1, <1>2, <1>3
<1>5. \A x, z \in S : Rank(S, x) = Rank(S, z) => x = z
  <2> SUFFICES ASSUME NEW x \in S, NEW z \in S, Rank(S, x) = Rank(S, z) PROVE x = z
    OBVIOUS
  <2>1. Rank(S, x) \in Int /\ Rank(S, z) \in Int
    BY <1>1, RankBounds
  <2>2. ~(x < z) /\ ~(z < x)
    BY <2>1, RankGrows
  <2> QED
    BY <2>2
<1>6. ASSUME NEW x \in S PROVE \E i \in 1 .. n : s[i] = x
  <2>1. Rank(S, x) + 1 \in 1 .. n /\ (Rank(S, x) + 1) - 1 = Rank(S, x)
    BY <1>1, RankBounds
  <2>2. s[Rank(S, x) + 1] = x
    BY <1>2, <1>5, <2>1
  <2> QED
    BY <2>1, <2>2
<1>7. ASSUME NEW i \in 1 .. n, NEW j \in 1 .. n, i < j PROVE s[i] < s[j]
  <2>1. s[i] \in S /\ s[j] \in S /\ Rank(S, s[i]) = i - 1 /\ Rank(S, s[j]) = j - 1
    BY <1>2
  <2>0. i \in Nat /\ j \in Nat /\ ~(j - 1 < i - 1) /\ i - 1 # j - 1
    BY <1>1, <1>7
  <2>2. ~(s[j] < s[i])
    BY <2>0, <2>1, RankGrows
  <2>3. s[i] # s[j]
    BY <2>0, <2>1
  <2>4. s[i] \in Nat /\ s[j] \in Nat
    BY <2>1
  <2> QED
    BY <2>2, <2>3, <2>4
<1> QED
  BY <1>4, <1>6, <1>7 DEF s

(***************************************************************************)
(* The page that a request gets.                                           *)
(***************************************************************************)

Rows == 1 .. MaxId

LEMMA SubSeqType ==
  ASSUME NEW T, NEW s \in Seq(T), NEW from \in Nat \ {0}, NEW to \in 0 .. Len(s)
  PROVE  SubSeq(s, from, to) \in Seq(T)
OBVIOUS

LEMMA LengthIsCount == ASSUME NEW len \in Lengths PROVE len \in Counts /\ len \in PageLengths
BY LengthsAssumption DEF Counts, PageLengths

LEMMA RosterInOrder ==
  ASSUME emps \subseteq Rows
  PROVE  /\ InOrder(emps) \in Seq(emps) /\ Len(InOrder(emps)) = Cardinality(emps)
         /\ Cardinality(emps) \in 0 .. MaxId
<1>1. IsFiniteSet(Rows) /\ Cardinality(Rows) = MaxId
  <2>1. 1 \in Int /\ MaxId \in Int /\ MaxId >= 0
    BY IdsAssumption
  <2>2. IsFiniteSet(1 .. MaxId) /\ Cardinality(1 .. MaxId) = IF 1 > MaxId THEN 0 ELSE MaxId - 1 + 1
    BY <2>1, FS_Interval
  <2> QED
    BY <2>1, <2>2 DEF Rows
<1>2. IsFiniteSet(emps) /\ Cardinality(emps) <= MaxId
  BY <1>1, FS_Subset
<1>3. Cardinality(emps) \in Nat
  BY <1>2, FS_CardinalityType
<1>4. emps \in SUBSET Nat
  BY DEF Rows
<1>5. InOrder(emps) \in Seq(emps) /\ Len(InOrder(emps)) = Cardinality(emps)
  BY <1>2, <1>4, InOrderSorts
<1> QED
  BY <1>2, <1>3, <1>5, IdsAssumption

LEMMA PageRowsType ==
  ASSUME emps \subseteq Rows, NEW start \in Nat, NEW len \in Lengths
  PROVE  PageRows(start, len) \in Seq(emps)
<1> DEFINE all == InOrder(emps)
           page == Reasonable(start \div len + 1, CeilDiv(Len(all), len))
           first == (page - 1) * len
<1>1. all \in Seq(emps) /\ Len(all) \in Nat /\ len \in Counts
  BY RosterInOrder, LengthIsCount
<1>2. page \in Nat
  <2> HIDE DEF all
  <2>1. start \div len \in Nat /\ CeilDiv(Len(all), len) \in Nat
    BY <1>1, DivFacts, CeilDivType
  <2> QED
    BY <2>1 DEF Reasonable
<1>3. CASE page = 0
  <2>1. PageRows(start, len) = << >>
    BY <1>3 DEF PageRows
  <2>2. << >> \in Seq(emps)
    OBVIOUS
  <2> QED
    BY <2>1, <2>2
<1>4. CASE page # 0
  <2>1. PageRows(start, len) = SubSeq(all, first + 1, DisplayEnd(first, len, Len(all)))
    BY <1>4 DEF PageRows
  <2> HIDE DEF all, page
  <2>2. first \in Nat
    <3>1. page - 1 \in Nat /\ len \in Nat
      BY <1>1, <1>2, <1>4 DEF Counts
    <3> QED
      BY <3>1
  <2> HIDE DEF first
  <2>3. DisplayEnd(first, len, Len(all)) \in 0 .. Len(all)
    BY <1>1, <2>2, LengthIsCount, DisplayEndType
  <2> QED
    BY <1>1, <2>1, <2>2, <2>3, SubSeqType
<1> QED
  BY <1>3, <1>4

\* The page that starts at a multiple of the length before the end is there.
LEMMA PageIsThere ==
  ASSUME NEW len \in Counts, NEW p \in Nat, NEW n \in Nat, p * len < n
  PROVE  Reasonable((p * len) \div len + 1, CeilDiv(n, len)) = p + 1
<1> DEFINE q == CeilDiv(n, len)
           r == (n + len - 1) % len
<1>1. n + len - 1 \in Nat
  BY DEF Counts
<1>2. q \in Nat /\ r \in 0 .. len - 1 /\ n + len - 1 = len * q + r
  BY <1>1, DivFacts DEF CeilDiv
<1>3. (p * len) \div len = p
  BY AlignedRounds
<1> HIDE DEF q, r
<1>4. len * q > p * len
  BY <1>2 DEF Counts
<1>5. len * (q - p) > 0
  BY <1>2, <1>4 DEF Counts
<1>6. q - p > 0
  BY <1>2, <1>5 DEF Counts
<1>7. ~(p + 1 > q)
  BY <1>2, <1>6
<1> QED
  BY <1>3, <1>7 DEF Reasonable, q

LEMMA PageOfAligned ==
  ASSUME emps \subseteq Rows, NEW len \in Lengths, NEW start, Aligned(start, len),
         start < Cardinality(emps)
  PROVE  PageRows(start, len) = PageOf(emps, start, len)
<1>1. len \in Counts /\ len # All
  BY LengthIsCount DEF Counts, All
<1>2. PICK p \in Nat : start = p * len
  BY <1>1 DEF Aligned
<1>3. Len(InOrder(emps)) = Cardinality(emps) /\ Cardinality(emps) \in Nat
  BY RosterInOrder
<1>4. Reasonable(start \div len + 1, CeilDiv(Cardinality(emps), len)) = p + 1
  BY <1>1, <1>2, <1>3, PageIsThere
<1>5. p + 1 # 0 /\ (p + 1) - 1 = p
  OBVIOUS
<1> QED
  BY <1>2, <1>3, <1>4, <1>5 DEF PageRows, PageOf

(***************************************************************************)
(* Types, and the alignment of what is asked for.                          *)
(***************************************************************************)

AlignedPage(start, len) == len \in Lengths /\ Aligned(start, len)

RosterTypes ==
  /\ emps \subseteq Rows /\ nextId \in 1 .. MaxId + 1
  /\ batch # Nil => batch.ids \subseteq Rows

RequestTypes ==
  \A q \in flight : /\ AlignedPage(q.start, q.len)
                    /\ q.rows # Nil => q.rows \in Seq(Rows)
                    /\ q.total # Nil => q.rows # Nil /\ q.total \in 0 .. MaxId

\* Whatever is asked for, shown as current or saved is a whole page.
PageTypes ==
  /\ iDraw \in 1 .. MaxDraw /\ records \in 0 .. MaxId /\ shown.rows \in Seq(Rows)
  /\ AlignedPage(iDisplayStart, iDisplayLength)
  /\ saved # Nil => AlignedPage(saved.start, saved.len)
  /\ RequestTypes

FormFields == [DOMAIN Empty -> 1 .. MaxId \cup {Nil}]
DialogTypes ==
  /\ overlay \in BOOLEAN /\ modal \in Modals /\ form \in FormFields
  /\ IsFiniteSet(calls) /\ Cardinality(calls) <= MaxCalls

LEMMA FirstPage == ASSUME saved # Nil => AlignedPage(saved.start, saved.len)
                   PROVE  AlignedPage(Restore(Nil).start, Restore(Nil).len)
                          /\ AlignedPage(Restore(saved).start, Restore(saved).len)
<1>1. FirstLength \in Lengths /\ FirstLength \in Counts /\ FirstLength # All
  BY LengthsAssumption DEF Counts, All
<1>2. 0 = 0 * FirstLength
  BY <1>1 DEF Counts
<1>3. AlignedPage(0, FirstLength)
  BY <1>1, <1>2 DEF AlignedPage, Aligned
<1> QED
  BY <1>3 DEF Restore

LEMMA InitTypes == Init => RosterTypes /\ PageTypes /\ DialogTypes
<1> SUFFICES ASSUME Init PROVE RosterTypes /\ PageTypes /\ DialogTypes
  OBVIOUS
<1>1. RosterTypes
  BY IdsAssumption DEF Init, RosterInit, RosterTypes, Rows
<1>2. PageTypes
  <2>1. saved = Nil /\ iDisplayStart = Restore(Nil).start /\ iDisplayLength = Restore(Nil).len
        /\ flight = {Request(1, iDisplayStart, iDisplayLength)} /\ iDraw = 1 /\ records = 0
        /\ shown.rows = << >>
    BY DEF Init, NothingShown
  <2>2. AlignedPage(iDisplayStart, iDisplayLength)
    BY <2>1, FirstPage
  <2>3. \A q \in flight : AlignedPage(q.start, q.len) /\ q.rows = Nil /\ q.total = Nil
    BY <2>1, <2>2 DEF Request
  <2>4. << >> \in Seq(Rows)
    OBVIOUS
  <2>5. iDraw \in 1 .. MaxDraw /\ records \in 0 .. MaxId
    BY <2>1, IdsAssumption, BoundsAssumption
  <2> QED
    BY <2>1, <2>2, <2>3, <2>4, <2>5 DEF PageTypes, RequestTypes
<1>3. DialogTypes
  BY FS_EmptySet, BoundsAssumption DEF Init, DialogTypes, Modals, FormFields, Empty
<1> QED
  BY <1>1, <1>2, <1>3

LEMMA NextRosterTypes ==
  ASSUME Ids, RosterTypes, [Next]_vars
  PROVE  RosterTypes'
<1>0. ASSUME UNCHANGED rosterVars PROVE RosterTypes'
  BY <1>0 DEF rosterVars, RosterTypes
<1>1. ASSUME Insert \/ InsertOfBatch PROVE RosterTypes'
  <2>1. nextId \in Rows /\ nextId' = nextId + 1 /\ nextId' \in 1 .. MaxId + 1
    BY <1>1, IdsAssumption DEF Insert, InsertOfBatch, RosterTypes, Rows
  <2>2. CASE Insert
    BY <2>1, <2>2 DEF Insert, RosterTypes
  <2>3. CASE InsertOfBatch
    BY <2>1, <2>3 DEF InsertOfBatch, RosterTypes
  <2> QED
    BY <1>1, <2>2, <2>3
<1>2. ASSUME NEW id, Delete(id) PROVE RosterTypes'
  BY <1>2 DEF Delete, RosterTypes
<1>3. ASSUME NEW n, BeginBatch(n) PROVE RosterTypes'
  BY <1>3 DEF BeginBatch, RosterTypes
<1>4. ASSUME NEW fails \in BOOLEAN, EndBatch(fails) PROVE RosterTypes'
  BY <1>4 DEF EndBatch, RosterTypes
<1>5. ASSUME Others PROVE RosterTypes'
  BY <1>1, <1>2, <1>3, <1>4, <1>5 DEF Others, BatchNext
<1>6. ASSUME NEW c \in calls, Serve(c) PROVE RosterTypes'
  BY <1>1, <1>2, <1>6 DEF Serve
<1>7. ASSUME \/ Fetching \/ \E q \in flight : Lose(q)
             \/ \E a \in Moves : Turn(a)
             \/ \E n \in 0 .. MaxId - 1 : Turn(ToPage(n))
             \/ \E len \in Lengths : ChangeLength(len)
             \/ \E at \in SUBSET DOMAIN shown.rows \ {{}} : AskDelete(at)
             \/ \E yes \in BOOLEAN : Answer(yes)
             \/ OpenAdd \/ CloseForm \/ SubmitEmp
             \/ \E emp \in emps : OpenEdit(emp)
             \/ \E c \in calls : Succeed(c) \/ Refuse(c)
             \/ Reload \/ UNCHANGED vars
      PROVE  UNCHANGED rosterVars
  BY <1>7 DEF Fetching, ListEmp, CountEmp, Answering, Deliver, Lose, Turn, ChangeLength,
              AskDelete, Answer, OpenAdd, CloseForm, SubmitEmp, OpenEdit, Succeed, Refuse,
              Reload, vars, rosterVars
<1> QED
  BY <1>0, <1>5, <1>6, <1>7 DEF Next

LEMMA FetchTypes ==
  ASSUME PageTypes, NEW start, NEW len, AlignedPage(start, len), Fetch(start, len),
         flight' = flight \cup {Request(iDraw + 1, start, len)},
         UNCHANGED <<records, shown, saved>>
  PROVE  PageTypes'
<1>1. LET q == Request(iDraw + 1, start, len)
      IN  q.start = start /\ q.len = len /\ q.rows = Nil /\ q.total = Nil
  BY DEF Request
<1>2. iDraw' \in 1 .. MaxDraw /\ AlignedPage(iDisplayStart, iDisplayLength)'
  BY BoundsAssumption DEF Fetch, PageTypes, AlignedPage
<1>3. RequestTypes'
  BY <1>1 DEF PageTypes, RequestTypes, AlignedPage
<1> QED
  BY <1>2, <1>3 DEF PageTypes, AlignedPage

LEMMA NextPageTypes ==
  ASSUME Numbered, RosterTypes, PageTypes, [Next]_vars
  PROVE  PageTypes'
<1> DEFINE pagingVars == <<iDraw, iDisplayStart, iDisplayLength, records, shown, flight, saved>>
<1>0. ASSUME UNCHANGED pagingVars PROVE PageTypes'
  BY <1>0 DEF PageTypes, RequestTypes, AlignedPage
<1>1. ASSUME NEW q \in flight, ListEmp(q) PROVE PageTypes'
  <2> DEFINE rows == PageRows(q.start, q.len)
  <2>1. rows \in Seq(Rows)
    <3>1. q.start \in Nat /\ q.len \in Lengths
      BY LengthIsCount, AlignedType DEF PageTypes, RequestTypes, AlignedPage
    <3>2. rows \in Seq(emps) /\ emps \subseteq Rows
      BY <3>1, PageRowsType DEF RosterTypes
    <3> HIDE DEF rows
    <3> QED
      BY <3>2
  <2>2. PICK a : /\ Answering(q, a) /\ a.start = q.start /\ a.len = q.len /\ a.rows = rows
                 /\ a.total = q.total
    BY <1>1, ListAnswers
  <2> HIDE DEF rows
  <2>4. flight' = (flight \ {q}) \cup {a} /\ UNCHANGED <<iDraw, iDisplayStart, iDisplayLength,
                                                          records, shown, saved>>
    BY <2>2 DEF Answering
  <2>5. q.total = Nil
    BY <1>1 DEF ListEmp, PageTypes, RequestTypes
  <2>6. RequestTypes'
    BY <2>1, <2>2, <2>4, <2>5 DEF PageTypes, RequestTypes, AlignedPage
  <2> QED
    BY <2>4, <2>6 DEF PageTypes, AlignedPage
<1>2. ASSUME NEW q \in flight, CountEmp(q) PROVE PageTypes'
  <2> DEFINE n == Cardinality(emps)
  <2>1. n \in 0 .. MaxId
    BY RosterInOrder DEF RosterTypes
  <2>2. PICK a : /\ Answering(q, a) /\ a.start = q.start /\ a.len = q.len /\ a.rows = q.rows
                 /\ a.total = n
    BY <1>2, CountAnswers
  <2> HIDE DEF n
  <2>3. q.rows # Nil
    BY <1>2 DEF CountEmp
  <2>4. flight' = (flight \ {q}) \cup {a} /\ UNCHANGED <<iDraw, iDisplayStart, iDisplayLength,
                                                          records, shown, saved>>
    BY <2>2 DEF Answering
  <2>5. RequestTypes'
    BY <2>1, <2>2, <2>3, <2>4 DEF PageTypes, RequestTypes, AlignedPage
  <2> QED
    BY <2>4, <2>5 DEF PageTypes, AlignedPage
<1>3. ASSUME NEW q \in flight, Deliver(q) PROVE PageTypes'
  <2>1. flight' = flight \ {q} /\ UNCHANGED <<iDisplayStart, iDisplayLength>>
    BY <1>3 DEF Deliver
  <2>2. iDraw' = iDraw
    BY <1>3 DEF Deliver, Stale, Numbered
  <2>3. records' \in 0 .. MaxId /\ shown'.rows \in Seq(Rows)
    BY <1>3 DEF Deliver, PageTypes, RequestTypes
  <2>4. saved' = saved \/ saved' = [start |-> iDisplayStart, len |-> iDisplayLength]
    BY <1>3 DEF Deliver
  <2>5. saved' # Nil => AlignedPage(saved'.start, saved'.len)
    BY <2>4 DEF PageTypes
  <2> QED
    BY <2>1, <2>2, <2>3, <2>5 DEF PageTypes, RequestTypes, AlignedPage
<1>4. ASSUME NEW q \in flight, Lose(q) PROVE PageTypes'
  BY <1>4 DEF Lose, PageTypes, RequestTypes, AlignedPage
<1>5. ASSUME NEW action \in Asked, Turn(action) PROVE PageTypes'
  <2> DEFINE start == PageStart(iDisplayStart, iDisplayLength, records, action)
  <2>1. AlignedPage(iDisplayStart, iDisplayLength) /\ records \in Nat
    BY DEF PageTypes
  <2>2. AlignedPage(start, iDisplayLength)
    BY <2>1, LengthIsCount, PageStartAligned DEF AlignedPage
  <2> QED
    BY <1>5, <2>2, FetchTypes DEF Turn
<1>6. Moves \subseteq Asked /\ \A n \in 0 .. MaxId - 1 : ToPage(n) \in Asked
  BY IdsAssumption DEF Moves, Move, ToPage, Asked
<1>7. ASSUME NEW len \in Lengths, ChangeLength(len) PROVE PageTypes'
  <2>1. len \in Counts /\ len # All /\ 0 = 0 * len
    BY LengthIsCount DEF Counts, All
  <2>2. AlignedPage(0, len)
    BY <2>1 DEF AlignedPage, Aligned
  <2> QED
    BY <1>7, <2>2, FetchTypes DEF ChangeLength
<1>8. ASSUME NEW c \in calls, Succeed(c) PROVE PageTypes'
  <2>1. iDisplayLength \in Lengths
    BY DEF PageTypes, AlignedPage
  <2>2. iDisplayLength \in Counts /\ iDisplayLength # All /\ 0 = 0 * iDisplayLength
    BY <2>1, LengthIsCount DEF Counts, All
  <2>3. AlignedPage(0, iDisplayLength)
    BY <2>1, <2>2 DEF AlignedPage, Aligned
  <2> QED
    BY <1>8, <2>3, FetchTypes DEF Succeed, Redraw
<1>9. ASSUME Reload PROVE PageTypes'
  <2>1. iDisplayStart' = Restore(saved).start /\ iDisplayLength' = Restore(saved).len
        /\ flight' = {Request(1, iDisplayStart', iDisplayLength')} /\ saved' = saved
        /\ iDraw' = 1 /\ records' = 0 /\ shown'.rows = << >>
    BY <1>9 DEF Reload, NothingShown
  <2>2. AlignedPage(iDisplayStart', iDisplayLength')
    BY <2>1, FirstPage DEF PageTypes
  <2>3. \A q \in flight' : AlignedPage(q.start, q.len) /\ q.rows = Nil /\ q.total = Nil
    BY <2>1, <2>2 DEF Request
  <2>4. << >> \in Seq(Rows)
    OBVIOUS
  <2>5. iDraw' \in 1 .. MaxDraw /\ records' \in 0 .. MaxId
    BY <2>1, IdsAssumption, BoundsAssumption
  <2> QED
    BY <2>1, <2>2, <2>3, <2>4, <2>5 DEF PageTypes, RequestTypes, AlignedPage
<1>10. ASSUME \/ \E at \in SUBSET DOMAIN shown.rows \ {{}} : AskDelete(at)
              \/ \E yes \in BOOLEAN : Answer(yes)
              \/ OpenAdd \/ CloseForm \/ SubmitEmp
              \/ \E emp \in emps : OpenEdit(emp)
              \/ \E c \in calls : Serve(c) \/ Refuse(c)
              \/ Others \/ UNCHANGED vars
       PROVE  UNCHANGED pagingVars
  BY <1>10 DEF AskDelete, Answer, OpenAdd, CloseForm, SubmitEmp, OpenEdit, Serve, Refuse, Others,
               vars, pageVars
<1> HIDE DEF pagingVars
<1> QED
  BY <1>0, <1>1, <1>2, <1>3, <1>4, <1>5, <1>6, <1>7, <1>8, <1>9, <1>10 DEF Next, Fetching

LEMMA CallsBounded ==
  ASSUME NEW cs, IsFiniteSet(cs), NEW old \in SUBSET cs, NEW c, Cardinality(cs) <= MaxCalls,
         old = cs => Cardinality(cs) < MaxCalls
  PROVE  /\ IsFiniteSet(old \cup {c}) /\ Cardinality(old \cup {c}) <= MaxCalls
         /\ IsFiniteSet(old) /\ Cardinality(old) <= MaxCalls
<1>1. IsFiniteSet(old) /\ Cardinality(old) <= Cardinality(cs)
      /\ (Cardinality(cs) = Cardinality(old) => cs = old)
  BY FS_Subset
<1>2. Cardinality(old) \in Nat /\ Cardinality(cs) \in Nat /\ MaxCalls \in Nat
  BY <1>1, FS_CardinalityType, BoundsAssumption
<1>3. Cardinality(old) < MaxCalls
  BY <1>1, <1>2
<1>4. /\ IsFiniteSet(old \cup {c})
      /\ Cardinality(old \cup {c}) = IF c \in old THEN Cardinality(old) ELSE Cardinality(old) + 1
  BY <1>1, FS_AddElement
<1> QED
  BY <1>1, <1>2, <1>3, <1>4

LEMMA NextDialogTypes ==
  ASSUME RosterTypes, DialogTypes, [Next]_vars
  PROVE  DialogTypes'
<1>1. overlay' \in BOOLEAN
  BY DEF DialogTypes, Next, Fetching, ListEmp, CountEmp, Answering, Deliver, Lose, OverlayOff, Turn,
         Fetch, ChangeLength, AskDelete, Answer, OpenAdd, CloseForm, SubmitEmp, OpenEdit, Serve,
         Succeed, Redraw, Refuse, Reload, Others, vars, pageVars
<1>2. modal' \in Modals
  BY DEF DialogTypes, Modals, Next, Fetching, ListEmp, CountEmp, Answering, Deliver, Lose, Turn,
         ChangeLength, AskDelete, Answer, OpenAdd, CloseForm, SubmitEmp, OpenEdit, Serve, Succeed,
         Refuse, Reload, Others, vars, pageVars
<1>3. form' \in FormFields
  <2>1. ASSUME NEW emp \in emps, OpenEdit(emp) PROVE form' \in FormFields
    <3>1. form' = LoadJson(form, Item(emp)) /\ emp \in 1 .. MaxId /\ form \in FormFields
      BY <2>1 DEF OpenEdit, RosterTypes, Rows, DialogTypes
    <3>2. \A f \in DOMAIN Item(emp) : Item(emp)[f] = emp
      BY DEF Item
    <3> QED
      BY <3>1, <3>2 DEF LoadJson, FormFields
  <2>2. [f \in DOMAIN form |-> Nil] \in FormFields /\ Empty \in FormFields
    BY DEF DialogTypes, FormFields, Empty
  <2>3. ASSUME ~ \E emp \in emps : OpenEdit(emp)
        PROVE  form' \in {form, Empty, [f \in DOMAIN form |-> Nil]}
    BY <2>3 DEF Next, Fetching, ListEmp, CountEmp, Answering, Deliver, Lose, Turn, ChangeLength,
         AskDelete, Answer, OpenAdd, CloseForm, SubmitEmp, Serve, Succeed, Refuse, Reload, Others,
         vars, pageVars
  <2> QED
    BY <2>1, <2>2, <2>3 DEF DialogTypes
<1>4. IsFiniteSet(calls') /\ Cardinality(calls') <= MaxCalls
  <2>0. IsFiniteSet(calls) /\ Cardinality(calls) <= MaxCalls
    BY DEF DialogTypes
  <2>1. ASSUME NEW yes \in BOOLEAN, Answer(yes)
        PROVE  \/ calls' = calls
               \/ Cardinality(calls) < MaxCalls /\ \E d : calls' = calls \cup {d}
    BY <2>1 DEF Answer
  <2>2. ASSUME SubmitEmp
        PROVE  Cardinality(calls) < MaxCalls /\ \E d : calls' = calls \cup {d}
    BY <2>2 DEF SubmitEmp
  <2>3. ASSUME NEW c \in calls, Serve(c)
        PROVE  \E d : calls' = (calls \ {c}) \cup {d}
    <3>1. CASE calls' = (calls \ {c}) \cup {[c EXCEPT !.done = TRUE]}
      BY <3>1
    <3>2. ASSUME NEW id, calls' = (calls \ {c}) \cup {[c EXCEPT !.ids = @ \ {id}]}
          PROVE  \E d : calls' = (calls \ {c}) \cup {d}
      BY <3>2
    <3> QED
      BY <2>3, <3>1, <3>2 DEF Serve
  <2>4. ASSUME NEW c \in calls, Succeed(c) \/ Refuse(c) PROVE calls' = calls \ {c}
    BY <2>4 DEF Succeed, Refuse
  <2>5. ASSUME Reload PROVE calls' = {}
    BY <2>5 DEF Reload
  <2>6. ASSUME \/ Fetching \/ \E q \in flight : Lose(q)
               \/ \E a \in Moves : Turn(a)
               \/ \E n \in 0 .. MaxId - 1 : Turn(ToPage(n))
               \/ \E len \in Lengths : ChangeLength(len)
               \/ \E at \in SUBSET DOMAIN shown.rows \ {{}} : AskDelete(at)
               \/ OpenAdd \/ CloseForm
               \/ \E emp \in emps : OpenEdit(emp)
               \/ Others \/ UNCHANGED vars
        PROVE  calls' = calls
    BY <2>6 DEF Fetching, ListEmp, CountEmp, Answering, Deliver, Lose, Turn, ChangeLength,
                AskDelete, OpenAdd, CloseForm, OpenEdit, Others, vars, pageVars
  <2>7. \/ calls' = calls \/ calls' = {}
        \/ Cardinality(calls) < MaxCalls /\ \E d : calls' = calls \cup {d}
        \/ \E c \in calls : calls' = calls \ {c} \/ \E d : calls' = (calls \ {c}) \cup {d}
    BY <2>1, <2>2, <2>3, <2>4, <2>5, <2>6 DEF Next
  <2>8. CASE calls' = {}
    BY <2>8, FS_EmptySet, BoundsAssumption
  <2>9. CASE Cardinality(calls) < MaxCalls /\ \E d : calls' = calls \cup {d}
    BY <2>0, <2>9, CallsBounded
  <2>10. ASSUME NEW c \in calls,
                calls' = calls \ {c} \/ \E d : calls' = (calls \ {c}) \cup {d}
         PROVE  IsFiniteSet(calls') /\ Cardinality(calls') <= MaxCalls
    <3>1. calls \ {c} \in SUBSET calls /\ calls \ {c} # calls
      OBVIOUS
    <3>2. CASE calls' = calls \ {c}
      BY <2>0, <3>1, <3>2, CallsBounded
    <3>3. ASSUME NEW d, calls' = (calls \ {c}) \cup {d}
          PROVE  IsFiniteSet(calls') /\ Cardinality(calls') <= MaxCalls
      BY <2>0, <3>1, <3>3, CallsBounded
    <3> QED
      BY <2>10, <3>2, <3>3
  <2> QED
    BY <2>0, <2>7, <2>8, <2>9, <2>10
<1> QED
  BY <1>1, <1>2, <1>3, <1>4 DEF DialogTypes

PageInv == Numbered /\ Ids /\ RosterTypes /\ PageTypes /\ DialogTypes

LEMMA PageInvariant == Spec => []PageInv
<1>1. Init => PageInv
  BY InitNumbered, InitIds, InitTypes DEF PageInv
<1>2. PageInv /\ [Next]_vars => PageInv'
  <2> SUFFICES ASSUME PageInv, [Next]_vars PROVE PageInv'
    OBVIOUS
  <2> QED
    BY NextNumbered, NextIds, NextRosterTypes, NextPageTypes, NextDialogTypes DEF PageInv
<1> QED
  BY <1>1, <1>2, PTL DEF Spec

\* Types, for any number of employees, requests, calls and visits: the pages
\* asked for are of a length offered, the rows shown are ids the table gave
\* out, and the form holds an employee's fields or none.
THEOREM PageTypeCorrect == Spec => []TypeOK
<1>1. PageInv => TypeOK
  <2> SUFFICES ASSUME PageInv PROVE TypeOK
    OBVIOUS
  <2>1. lost \in 0 .. MaxDraw
    BY BoundsAssumption DEF PageInv, Numbered, PageTypes
  <2>2. iDisplayStart \in Nat /\ iDisplayLength \in Lengths
    BY LengthIsCount, AlignedType DEF PageInv, PageTypes, AlignedPage
  <2> QED
    BY <2>1, <2>2 DEF PageInv, Ids, RosterTypes, PageTypes, DialogTypes, Modals, FormFields, Rows,
                      TypeOK
<1> QED
  BY <1>1, PageInvariant, PTL

\* However the page was turned, its length changed or the state restored, and
\* whatever was added or deleted meanwhile: the rows the server takes are those
\* of the page asked for, if the table still has it.
THEOREM AskedPageTaken == Spec => []AskedIsPage
<1>1. PageInv => AskedIsPage
  BY PageOfAligned DEF PageInv, RosterTypes, PageTypes, RequestTypes, AlignedPage, AskedIsPage
<1> QED
  BY <1>1, PageInvariant, PTL

(***************************************************************************)
(* Answers in any order.                                                   *)
(***************************************************************************)

\* The page of a table, unless the table does not have it.
IsPageOf(rows, table, start, len) ==
  start < Cardinality(table) => rows = PageOf(table, start, len)

\* Whatever was read is the page asked for.
ReadsPages == \A q \in flight : q.rows # Nil => IsPageOf(q.rows, q.table, q.start, q.len)

Answered == ReadsPages /\ ShowsCurrentPage

answerVars == <<iDraw, iDisplayStart, iDisplayLength, shown, flight, lost, saved>>

LEMMA InitAnswered == Init => Answered
<1> SUFFICES ASSUME Init PROVE Answered
  OBVIOUS
<1>1. iDraw = 1 /\ flight = {Request(1, iDisplayStart, iDisplayLength)}
  BY DEF Init
<1> QED
  BY <1>1, RequestFields DEF Answered, ReadsPages, ShowsCurrentPage, NewestDrawn

\* The server's part of an answer: the newest request stays under way.
LEMMA ServerAnswered ==
  ASSUME PageInv, Answered, NEW q \in flight, ListEmp(q) \/ CountEmp(q)
  PROVE  Answered'
<1>1. PICK a : /\ Answering(q, a) /\ a.draw = q.draw /\ a.start = q.start /\ a.len = q.len
               /\ a.rows # Nil => IsPageOf(a.rows, a.table, a.start, a.len)
  <2>1. CASE ListEmp(q)
    <3>1. emps \subseteq Rows /\ q.len \in Lengths /\ Aligned(q.start, q.len)
      BY DEF PageInv, RosterTypes, PageTypes, RequestTypes, AlignedPage
    <3>2. IsPageOf(PageRows(q.start, q.len), emps, q.start, q.len)
      BY <3>1, PageOfAligned DEF IsPageOf
    <3> QED
      BY <2>1, <3>2, ListAnswers DEF PageInv
  <2>2. CASE CountEmp(q)
    <3>1. q.rows # Nil /\ IsPageOf(q.rows, q.table, q.start, q.len)
      BY <2>2 DEF CountEmp, Answered, ReadsPages
    <3> QED
      BY <2>2, <3>1, CountAnswers DEF PageInv
  <2> QED
    BY <2>1, <2>2
<1>2. /\ UNCHANGED <<iDraw, iDisplayStart, iDisplayLength, shown, lost, saved>>
      /\ flight' = (flight \ {q}) \cup {a}
  BY <1>1 DEF Answering
<1>3. NewestDrawn' => NewestDrawn
  BY <1>1, <1>2 DEF NewestDrawn
<1>4. ReadsPages'
  BY <1>1, <1>2 DEF Answered, ReadsPages
<1> QED
  BY <1>2, <1>3, <1>4 DEF Answered, ShowsCurrentPage

\* An answer that is dropped is not the newest one.
LEMMA DroppedAnswer ==
  ASSUME Numbered, NEW q \in flight, Deliver(q), Stale(q.draw)
  PROVE  NewestDrawn' => NewestDrawn
<1>1. UNCHANGED <<iDraw, lost>> /\ flight' = flight \ {q} /\ q.draw < iDraw /\ q.draw \in Nat
      /\ iDraw \in Nat
  BY DEF Deliver, Stale, Numbered
<1> QED
  BY <1>1 DEF NewestDrawn

LEMMA DrawnAnswer ==
  ASSUME Numbered, NEW q \in flight, Deliver(q), ~Stale(q.draw)
  PROVE  /\ iDraw' = iDraw /\ q.draw = iDraw /\ q.start = iDisplayStart
         /\ q.len = iDisplayLength /\ UNCHANGED <<iDisplayStart, iDisplayLength>>
         /\ q.total # Nil
         /\ shown' = [draw |-> q.draw, rows |-> q.rows, table |-> q.table]
         /\ saved' = [start |-> iDisplayStart, len |-> iDisplayLength]
BY DEF Deliver, Stale, Numbered

LEMMA DeliverAnswered ==
  ASSUME PageInv, Answered, NEW q \in flight, Deliver(q)
  PROVE  Answered'
<1>0. Numbered
  BY DEF PageInv
<1>1. ReadsPages'
  BY DEF Deliver, Answered, ReadsPages
<1>2. CASE Stale(q.draw)
  <2>1. UNCHANGED <<iDraw, iDisplayStart, iDisplayLength, shown, saved>>
    BY <1>2 DEF Deliver
  <2> QED
    BY <1>0, <1>1, <1>2, <2>1, DroppedAnswer DEF Answered, ShowsCurrentPage
<1>3. CASE ~Stale(q.draw)
  <2>1. q.rows # Nil
    BY <1>0, <1>3, DrawnAnswer DEF PageInv, PageTypes, RequestTypes
  <2>2. IsPageOf(q.rows, q.table, iDisplayStart, iDisplayLength)
    BY <1>0, <1>3, <2>1, DrawnAnswer DEF Answered, ReadsPages
  <2>3. ShowsCurrentPage'
    BY <1>0, <1>3, <2>2, DrawnAnswer DEF ShowsCurrentPage, IsPageOf
  <2> QED
    BY <1>1, <2>3 DEF Answered
<1> QED
  BY <1>2, <1>3

\* A request that fails is the newest one, or another is.
LEMMA LostAnswer ==
  ASSUME Numbered, NEW q \in flight, Lose(q)
  PROVE  NewestDrawn' => NewestDrawn
<1>1. iDraw' = iDraw /\ flight' = flight \ {q}
      /\ lost' = IF q.draw > lost THEN q.draw ELSE lost
  BY DEF Lose
<1>2. q.draw \in Nat /\ q.draw <= iDraw /\ iDraw \in Nat /\ lost \in Nat /\ lost <= iDraw
  BY DEF Numbered
<1>3. (q.draw = iDraw => lost' = iDraw) /\ (lost = iDraw => lost' = iDraw)
  BY <1>1, <1>2
<1> QED
  BY <1>1, <1>3 DEF NewestDrawn

LEMMA LoseAnswered ==
  ASSUME PageInv, Answered, NEW q \in flight, Lose(q)
  PROVE  Answered'
<1>1. UNCHANGED <<iDraw, iDisplayStart, iDisplayLength, shown, saved>> /\ flight' = flight \ {q}
  BY DEF Lose
<1> QED
  BY <1>1, LostAnswer DEF PageInv, Answered, ReadsPages, ShowsCurrentPage

\* A request that is sent is the newest.
LEMMA SentIsNewest ==
  ASSUME NEW start, NEW len, Fetch(start, len),
         flight' = flight \cup {Request(iDraw + 1, start, len)}
  PROVE  ~NewestDrawn'
BY RequestFields DEF Fetch, NewestDrawn

LEMMA FetchAnswered ==
  ASSUME Answered, NEW start, NEW len, Fetch(start, len),
         flight' = flight \cup {Request(iDraw + 1, start, len)}
  PROVE  Answered'
<1>1. ReadsPages'
  BY RequestFields DEF Answered, ReadsPages
<1> QED
  BY <1>1, SentIsNewest DEF Answered, ShowsCurrentPage

LEMMA ReloadIsNewest ==
  ASSUME Reload
  PROVE  ~NewestDrawn' /\ \A q \in flight' : q.rows = Nil
<1>1. iDraw' = 1 /\ flight' = {Request(1, iDisplayStart', iDisplayLength')}
  BY DEF Reload
<1> QED
  BY <1>1, RequestFields DEF NewestDrawn

LEMMA NextAnswered == PageInv /\ Answered /\ [Next]_vars => Answered'
<1> SUFFICES ASSUME PageInv, Answered, [Next]_vars PROVE Answered'
  OBVIOUS
<1>0. ASSUME UNCHANGED answerVars PROVE Answered'
  BY <1>0 DEF answerVars, Answered, ReadsPages, ShowsCurrentPage, NewestDrawn
<1>1. ASSUME NEW q \in flight, ListEmp(q) \/ CountEmp(q) PROVE Answered'
  BY <1>1, ServerAnswered
<1>2. ASSUME NEW q \in flight, Deliver(q) \/ Lose(q) PROVE Answered'
  BY <1>2, DeliverAnswered, LoseAnswered
<1>3. ASSUME NEW action, Turn(action) PROVE Answered'
  BY <1>3, FetchAnswered DEF Turn
<1>4. ASSUME NEW len \in Lengths, ChangeLength(len) PROVE Answered'
  BY <1>4, FetchAnswered DEF ChangeLength
<1>5. ASSUME NEW c \in calls, Succeed(c) PROVE Answered'
  BY <1>5, FetchAnswered DEF Succeed, Redraw
<1>6. ASSUME Reload PROVE Answered'
  BY <1>6, ReloadIsNewest DEF Answered, ReadsPages, ShowsCurrentPage
<1>7. ASSUME \/ \E at \in SUBSET DOMAIN shown.rows \ {{}} : AskDelete(at)
             \/ \E yes \in BOOLEAN : Answer(yes)
             \/ OpenAdd \/ CloseForm \/ SubmitEmp
             \/ \E emp \in emps : OpenEdit(emp)
             \/ \E c \in calls : Serve(c) \/ Refuse(c)
             \/ Others \/ UNCHANGED vars
      PROVE  UNCHANGED answerVars
  BY <1>7 DEF AskDelete, Answer, OpenAdd, CloseForm, SubmitEmp, OpenEdit, Serve, Refuse, Others,
              vars, pageVars, answerVars
<1> QED
  BY <1>0, <1>1, <1>2, <1>3, <1>4, <1>5, <1>6, <1>7 DEF Next, Fetching

\* However many requests overlap and in whatever order their answers come: once
\* the newest was answered, the rows shown are those of the page the pager is on
\* and the saved state names, in the table as it was when they were read, unless
\* that page had gone by then.
THEOREM CurrentPageShown == Spec => []ShowsCurrentPage
<1>1. Init => Answered
  BY InitAnswered
<1>2. PageInv /\ Answered /\ [Next]_vars => Answered'
  BY NextAnswered
<1>3. Answered => ShowsCurrentPage
  BY DEF Answered
<1> QED
  BY <1>1, <1>2, <1>3, PageInvariant, PTL DEF Spec

(***************************************************************************)
(* Deleted rows.                                                           *)
(***************************************************************************)

\* Id i was given out, and not to a row of the open batch b.
Given(i, next, b) == i \in Nat /\ i < next /\ (b # Nil => i \notin b.ids)
AreGiven(S) == \A i \in S : Given(i, nextId, batch)

\* A deletion under way has deleted what is no longer on its list.
Deletes(c) == c.op = "delete" => AreGiven(c.asked) /\ \A i \in c.asked \ c.ids : i \notin emps

\* Rows read for the newest request are none of those known to be deleted.
ReadsOnlyLeft ==
  \A q \in flight : q.rows # Nil =>
    AreGiven(Range(q.rows)) /\ (q.draw = iDraw => Range(q.rows) \cap gone = {})

ToldRows ==
  /\ AreGiven(emps) /\ AreGiven(gone) /\ gone \cap emps = {}
  /\ AreGiven(Range(shown.rows))
  /\ ReadsOnlyLeft
  /\ DeletedAreGone

ToldCalls ==
  /\ dialog # Nil => AreGiven(dialog.ids)
  /\ \A c \in calls : Deletes(c)

Told == ToldRows /\ ToldCalls

LEMMA InitTold == Init => Told
<1> SUFFICES ASSUME Init PROVE Told
  OBVIOUS
<1>1. AreGiven(emps) /\ gone = {} /\ dialog = Nil /\ calls = {}
  BY IdsAssumption DEF Init, RosterInit, AreGiven, Given
<1>2. Range(shown.rows) = {}
  BY DEF Init, NothingShown, Range
<1>3. \A q \in flight : q.rows = Nil
  BY RequestFields DEF Init
<1> QED
  BY <1>1, <1>2, <1>3 DEF Told, ToldRows, ToldCalls, AreGiven, ReadsOnlyLeft, DeletedAreGone

\* Ids are not given out twice: one that was and is not in the table does not
\* come into it.
GivenStay ==
  \A i : Given(i, nextId, batch) =>
    Given(i, nextId', batch') /\ (i \notin emps => i \notin emps')

LEMMA RosterGivenStay ==
  ASSUME Ids, \/ Insert \/ \E id : Delete(id) \/ BatchNext \/ UNCHANGED rosterVars
  PROVE  GivenStay /\ (AreGiven(emps) => AreGiven(emps)')
<1>1. CASE Insert
  BY <1>1 DEF Insert, Ids, GivenStay, AreGiven, Given
<1>2. ASSUME NEW id, Delete(id)
      PROVE  GivenStay /\ (AreGiven(emps) => AreGiven(emps)')
  BY <1>2 DEF Delete, GivenStay, AreGiven, Given
<1>3. CASE InsertOfBatch
  BY <1>3 DEF InsertOfBatch, Ids, GivenStay, AreGiven, Given
<1>4. ASSUME NEW n \in 1 .. MaxBatch, BeginBatch(n)
      PROVE  GivenStay /\ (AreGiven(emps) => AreGiven(emps)')
  BY <1>4 DEF BeginBatch, GivenStay, AreGiven, Given
<1>5. ASSUME NEW fails \in BOOLEAN, EndBatch(fails)
      PROVE  GivenStay /\ (AreGiven(emps) => AreGiven(emps)')
  BY <1>5 DEF EndBatch, Ids, GivenStay, AreGiven, Given
<1>6. CASE UNCHANGED rosterVars
  BY <1>6 DEF rosterVars, GivenStay, AreGiven
<1> QED
  BY <1>1, <1>2, <1>3, <1>4, <1>5, <1>6 DEF BatchNext

LEMMA NextGivenStay ==
  ASSUME Ids, [Next]_vars
  PROVE  GivenStay /\ (AreGiven(emps) => AreGiven(emps)')
<1>1. ASSUME \/ Fetching \/ \E q \in flight : Lose(q)
             \/ \E a \in Moves : Turn(a)
             \/ \E n \in 0 .. MaxId - 1 : Turn(ToPage(n))
             \/ \E len \in Lengths : ChangeLength(len)
             \/ \E at \in SUBSET DOMAIN shown.rows \ {{}} : AskDelete(at)
             \/ \E yes \in BOOLEAN : Answer(yes)
             \/ OpenAdd \/ CloseForm \/ SubmitEmp
             \/ \E emp \in emps : OpenEdit(emp)
             \/ \E c \in calls : Succeed(c) \/ Refuse(c)
             \/ Reload \/ UNCHANGED vars
      PROVE  UNCHANGED rosterVars
  BY <1>1 DEF Fetching, ListEmp, CountEmp, Answering, Deliver, Lose, Turn, ChangeLength,
              AskDelete, Answer, OpenAdd, CloseForm, SubmitEmp, OpenEdit, Succeed, Refuse,
              Reload, vars, rosterVars
<1>2. ASSUME Others PROVE Insert \/ (\E id : Delete(id)) \/ BatchNext
  BY <1>2 DEF Others
<1>3. ASSUME NEW c \in calls, Serve(c) PROVE Insert \/ \E id : Delete(id)
  BY <1>3 DEF Serve
<1> QED
  BY <1>1, <1>2, <1>3, RosterGivenStay DEF Next

\* What is said of rows and calls that a step leaves alone stays so.
LEMMA RowsFrame ==
  ASSUME GivenStay, AreGiven(emps)', ToldRows, UNCHANGED <<gone, shown, flight, iDraw, lost>>
  PROVE  ToldRows'
BY DEF GivenStay, ToldRows, AreGiven, ReadsOnlyLeft, DeletedAreGone, NewestDrawn

LEMMA CallsFrame ==
  ASSUME GivenStay, ToldCalls, dialog' \in {dialog, Nil}, calls' \subseteq calls
  PROVE  ToldCalls'
BY DEF GivenStay, ToldCalls, AreGiven, Deletes

\* A call is added or replaced.
LEMMA CallChanged ==
  ASSUME GivenStay, ToldCalls, dialog' \in {dialog, Nil}, NEW d, calls' \subseteq calls \cup {d},
         Deletes(d)'
  PROVE  ToldCalls'
BY DEF GivenStay, ToldCalls, AreGiven, Deletes

LEMMA AskTold ==
  ASSUME Told, GivenStay, NEW at \in SUBSET DOMAIN shown.rows \ {{}}, AskDelete(at)
  PROVE  ToldCalls'
<1>1. dialog' = [at |-> at, ids |-> { shown.rows[k] : k \in at }] /\ calls' = calls
  BY DEF AskDelete
<1>2. dialog'.ids \subseteq Range(shown.rows)
  BY <1>1 DEF Range
<1> QED
  BY <1>1, <1>2 DEF Told, ToldRows, ToldCalls, GivenStay, AreGiven, Deletes

LEMMA AnswerTold ==
  ASSUME Told, GivenStay, NEW yes \in BOOLEAN, Answer(yes)
  PROVE  ToldCalls'
<1>1. dialog # Nil /\ dialog' = Nil
  BY DEF Answer
<1>2. PICK d : calls' \subseteq calls \cup {d} /\ d.asked = dialog.ids /\ d.ids = dialog.ids
  <2> DEFINE x == [op |-> "delete", ids |-> dialog.ids, asked |-> dialog.ids]
  <2>1. calls' \subseteq calls \cup {x} /\ x.asked = dialog.ids /\ x.ids = dialog.ids
    BY DEF Answer, RowsAsked
  <2> HIDE DEF x
  <2> QED
    BY <2>1
<1>3. AreGiven(d.asked) /\ d.asked \ d.ids = {}
  BY <1>1, <1>2 DEF Told, ToldCalls
<1>4. Deletes(d)'
  BY <1>3 DEF Deletes, GivenStay, AreGiven
<1> QED
  BY <1>1, <1>2, <1>4, CallChanged DEF Told

LEMMA ServeTold ==
  ASSUME Told, Calls, GivenStay, NEW c \in calls, Serve(c)
  PROVE  ToldCalls'
<1>1. dialog' = dialog /\ IsCall(c)
  BY DEF Serve, Calls
<1>2. CASE c.op = "add"
  <2> DEFINE d == [c EXCEPT !.done = TRUE]
  <2>1. calls' \subseteq calls \cup {d} /\ d.op = "add"
    BY <1>1, <1>2 DEF Serve, IsCall, Addition
  <2> HIDE DEF d
  <2>2. Deletes(d)'
    BY <2>1 DEF Deletes
  <2> QED
    BY <1>1, <2>1, <2>2, CallChanged DEF Told
<1>3. CASE c.op = "delete"
  <2>1. PICK id : /\ emps' = emps \ {id}
                  /\ calls' = (calls \ {c}) \cup {[c EXCEPT !.ids = c.ids \ {id}]}
    BY <1>3 DEF Serve, Delete
  <2> DEFINE d == [c EXCEPT !.ids = c.ids \ {id}]
  <2>2. c = [op |-> "delete", ids |-> c.ids, asked |-> c.asked]
    BY <1>1, <1>3 DEF IsCall, Addition
  <2>3. d.asked = c.asked /\ d.ids = c.ids \ {id} /\ calls' \subseteq calls \cup {d}
    BY <2>1, <2>2
  <2> HIDE DEF d
  <2>4. AreGiven(c.asked) /\ \A i \in c.asked \ c.ids : i \notin emps
    BY <1>3 DEF Told, ToldCalls, Deletes
  <2>5. Deletes(d)'
    BY <2>1, <2>3, <2>4 DEF Deletes, GivenStay, AreGiven
  <2> QED
    BY <1>1, <2>3, <2>5, CallChanged DEF Told
<1> QED
  BY <1>1, <1>2, <1>3 DEF IsCall, Addition

\* The answer to a deletion: what it asked for is gone, and the list that is
\* asked for now is the newest.
LEMMA SucceedTold ==
  ASSUME Numbered, Told, Calls, GivenStay, AreGiven(emps)', NEW c \in calls, Succeed(c)
  PROVE  ToldRows'
<1>1. /\ UNCHANGED <<shown, emps>> /\ Fetch(0, iDisplayLength)
      /\ flight' = flight \cup {Request(iDraw + 1, 0, iDisplayLength)}
  BY DEF Succeed, Redraw, rosterVars
<1>2. AreGiven(gone)' /\ gone' \cap emps' = {}
  <2>1. CASE c.op = "add"
    BY <1>1, <2>1 DEF Succeed, Told, ToldRows, GivenStay, AreGiven
  <2>2. CASE c.op # "add"
    <3>1. c.op = "delete" /\ c.ids = {} /\ gone' = gone \cup c.asked
      BY <2>2 DEF Succeed, Calls, IsCall, Addition
    <3>2. AreGiven(c.asked) /\ c.asked \cap emps = {}
      BY <3>1 DEF Told, ToldCalls, Deletes
    <3> QED
      BY <1>1, <3>1, <3>2 DEF Told, ToldRows, GivenStay, AreGiven
  <2> QED
    BY <2>1, <2>2
<1>3. \A q \in flight : q.draw # iDraw'
  BY <1>1 DEF Fetch, Numbered
<1>4. ReadsOnlyLeft'
  BY <1>1, <1>3, RequestFields DEF Told, ToldRows, ReadsOnlyLeft, GivenStay, AreGiven
<1>5. ~NewestDrawn'
  BY <1>1, SentIsNewest
<1> QED
  BY <1>1, <1>2, <1>4, <1>5 DEF Told, ToldRows, GivenStay, AreGiven, DeletedAreGone

LEMMA FetchTold ==
  ASSUME Numbered, ToldRows, GivenStay, AreGiven(emps)', UNCHANGED <<gone, shown>>,
         NEW start, NEW len, Fetch(start, len),
         flight' = flight \cup {Request(iDraw + 1, start, len)}
  PROVE  ToldRows'
<1>1. \A q \in flight : q.draw # iDraw'
  BY DEF Fetch, Numbered
<1>2. ReadsOnlyLeft'
  BY <1>1, RequestFields DEF ToldRows, ReadsOnlyLeft, GivenStay, AreGiven
<1>3. ~NewestDrawn'
  BY SentIsNewest
<1>4. \A i \in gone : Given(i, nextId, batch) /\ i \notin emps
  BY DEF ToldRows, AreGiven
<1>5. AreGiven(gone)' /\ gone' \cap emps' = {}
  BY <1>4 DEF GivenStay, AreGiven
<1> QED
  BY <1>2, <1>3, <1>5 DEF ToldRows, GivenStay, AreGiven, DeletedAreGone

\* Rows that are read are in the table, and so not gone.
LEMMA ListTold ==
  ASSUME PageInv, Told, GivenStay, AreGiven(emps)', NEW q \in flight, ListEmp(q)
  PROVE  ToldRows'
<1>1. PICK a : Answering(q, a) /\ a.draw = q.draw /\ a.rows = PageRows(q.start, q.len)
  BY ListAnswers DEF PageInv
<1>2. /\ UNCHANGED <<emps, iDraw, shown, lost, gone>>
      /\ flight' = (flight \ {q}) \cup {a}
  BY <1>1 DEF Answering, rosterVars
<1>3. Range(a.rows) \subseteq emps
  <2>1. q.start \in Nat /\ q.len \in Lengths
    BY LengthIsCount, AlignedType DEF PageInv, PageTypes, RequestTypes, AlignedPage
  <2>2. a.rows \in Seq(emps)
    BY <1>1, <2>1, PageRowsType DEF PageInv, RosterTypes
  <2> QED
    BY <2>2 DEF Range
<1>4. AreGiven(Range(a.rows))' /\ Range(a.rows) \cap gone' = {}
  BY <1>2, <1>3 DEF Told, ToldRows, AreGiven
<1>5. ReadsOnlyLeft'
  BY <1>2, <1>4 DEF Told, ToldRows, ReadsOnlyLeft, GivenStay, AreGiven
<1>6. NewestDrawn' => NewestDrawn
  BY <1>1, <1>2 DEF NewestDrawn
<1> QED
  BY <1>2, <1>5, <1>6 DEF Told, ToldRows, GivenStay, AreGiven, DeletedAreGone

LEMMA CountTold ==
  ASSUME PageInv, Told, GivenStay, AreGiven(emps)', NEW q \in flight, CountEmp(q)
  PROVE  ToldRows'
<1>1. PICK a : Answering(q, a) /\ a.draw = q.draw /\ a.rows = q.rows
  BY CountAnswers DEF PageInv
<1>2. /\ UNCHANGED <<emps, iDraw, shown, lost, gone>>
      /\ flight' = (flight \ {q}) \cup {a}
  BY <1>1 DEF Answering, rosterVars
<1>3. ReadsOnlyLeft'
  BY <1>1, <1>2 DEF Told, ToldRows, ReadsOnlyLeft, GivenStay, AreGiven
<1>4. NewestDrawn' => NewestDrawn
  BY <1>1, <1>2 DEF NewestDrawn
<1> QED
  BY <1>2, <1>3, <1>4 DEF Told, ToldRows, GivenStay, AreGiven, DeletedAreGone

LEMMA DeliverTold ==
  ASSUME PageInv, Told, GivenStay, AreGiven(emps)', NEW q \in flight, Deliver(q) \/ Lose(q)
  PROVE  ToldRows'
<1>0. Numbered
  BY DEF PageInv
<1>1. UNCHANGED <<emps, gone>> /\ flight' = flight \ {q} /\ iDraw' = iDraw
  BY <1>0 DEF Deliver, Stale, Lose, rosterVars, Numbered
<1>2. AreGiven(gone)' /\ gone' \cap emps' = {} /\ ReadsOnlyLeft'
  BY <1>1 DEF Told, ToldRows, ReadsOnlyLeft, GivenStay, AreGiven
<1>3. ASSUME shown' = shown, NewestDrawn' => NewestDrawn PROVE ToldRows'
  BY <1>1, <1>2, <1>3 DEF Told, ToldRows, GivenStay, AreGiven, DeletedAreGone
<1>4. CASE Lose(q)
  BY <1>0, <1>3, <1>4, LostAnswer DEF Lose
<1>5. CASE Deliver(q) /\ Stale(q.draw)
  BY <1>0, <1>3, <1>5, DroppedAnswer DEF Deliver
<1>6. CASE Deliver(q) /\ ~Stale(q.draw)
  <2>1. q.rows # Nil /\ q.draw = iDraw /\ shown'.rows = q.rows
    BY <1>0, <1>6, DrawnAnswer DEF PageInv, PageTypes, RequestTypes
  <2>2. AreGiven(Range(q.rows)) /\ Range(q.rows) \cap gone = {}
    BY <2>1 DEF Told, ToldRows, ReadsOnlyLeft
  <2>3. AreGiven(Range(shown.rows))' /\ DeletedAreGone'
    BY <1>1, <2>1, <2>2 DEF GivenStay, AreGiven, DeletedAreGone
  <2> QED
    BY <1>2, <2>3 DEF ToldRows
<1> QED
  BY <1>4, <1>5, <1>6

LEMMA ReloadTold ==
  ASSUME Told, GivenStay, AreGiven(emps)', Reload
  PROVE  ToldRows' /\ ToldCalls'
<1>1. /\ UNCHANGED <<gone, emps>> /\ shown' = NothingShown /\ dialog' = Nil
      /\ calls' = {}
  BY DEF Reload, rosterVars
<1>2. Range(shown.rows)' = {}
  BY <1>1 DEF NothingShown, Range
<1>3. AreGiven(gone)' /\ gone' \cap emps' = {}
  BY <1>1 DEF Told, ToldRows, GivenStay, AreGiven
<1>4. ReadsOnlyLeft' /\ DeletedAreGone'
  BY ReloadIsNewest DEF ReadsOnlyLeft, DeletedAreGone
<1>5. AreGiven(Range(shown.rows))'
  BY <1>2 DEF AreGiven
<1> QED
  BY <1>1, <1>3, <1>4, <1>5 DEF ToldRows, ToldCalls

LEMMA NextTold == PageInv /\ Calls /\ Told /\ [Next]_vars => Told'
<1> SUFFICES ASSUME PageInv, Calls, Told, [Next]_vars PROVE ToldRows' /\ ToldCalls'
  BY DEF Told
<1>0. GivenStay /\ AreGiven(emps)' /\ Numbered
  BY NextGivenStay DEF PageInv, Told, ToldRows
<1>1. ASSUME UNCHANGED <<gone, shown, flight, iDraw, lost>> PROVE ToldRows'
  BY <1>0, <1>1, RowsFrame DEF Told
<1>2. ASSUME dialog' \in {dialog, Nil}, calls' \subseteq calls PROVE ToldCalls'
  BY <1>0, <1>2, CallsFrame DEF Told
<1>3. ASSUME \/ \E q \in flight : ListEmp(q) \/ CountEmp(q) \/ Deliver(q) \/ Lose(q)
      PROVE  ToldRows' /\ ToldCalls'
  <2>1. UNCHANGED <<dialog, calls>>
    BY <1>3 DEF ListEmp, CountEmp, Answering, Deliver, Lose
  <2> QED
    BY <1>0, <1>2, <1>3, <2>1, ListTold, CountTold, DeliverTold
<1>4. ASSUME (\E action : Turn(action)) \/ (\E len \in Lengths : ChangeLength(len))
      PROVE  ToldRows' /\ ToldCalls'
  <2>1. UNCHANGED <<dialog, calls, gone, shown>>
        /\ \E start, len : /\ Fetch(start, len)
                           /\ flight' = flight \cup {Request(iDraw + 1, start, len)}
    BY <1>4 DEF Turn, ChangeLength
  <2> QED
    BY <1>0, <1>2, <2>1, FetchTold DEF Told
<1>5. ASSUME NEW at \in SUBSET DOMAIN shown.rows \ {{}}, AskDelete(at)
      PROVE  ToldRows' /\ ToldCalls'
  <2>1. UNCHANGED <<gone, shown, flight, iDraw, lost>>
    BY <1>5 DEF AskDelete
  <2> QED
    BY <1>0, <1>1, <1>5, <2>1, AskTold
<1>6. ASSUME NEW yes \in BOOLEAN, Answer(yes) PROVE ToldRows' /\ ToldCalls'
  <2>1. UNCHANGED <<gone, shown, flight, iDraw, lost>>
    BY <1>6 DEF Answer
  <2> QED
    BY <1>0, <1>1, <1>6, <2>1, AnswerTold
<1>7. ASSUME SubmitEmp PROVE ToldRows' /\ ToldCalls'
  <2>1. UNCHANGED <<gone, shown, flight, iDraw, lost, dialog>>
    BY <1>7 DEF SubmitEmp
  <2>2. PICK d : calls' = calls \cup {d} /\ d.op = "add"
    <3> DEFINE x == [op |-> "add", for |-> modal, done |-> FALSE]
    <3>1. calls' = calls \cup {x} /\ x.op = "add"
      BY <1>7 DEF SubmitEmp
    <3> HIDE DEF x
    <3> QED
      BY <3>1
  <2>3. Deletes(d)'
    BY <2>2 DEF Deletes
  <2> QED
    BY <1>0, <1>1, <2>1, <2>2, <2>3, CallChanged DEF Told
<1>8. ASSUME NEW c \in calls, Serve(c) PROVE ToldRows' /\ ToldCalls'
  <2>1. UNCHANGED <<gone, shown, flight, iDraw, lost>>
    BY <1>8 DEF Serve
  <2> QED
    BY <1>0, <1>1, <1>8, <2>1, ServeTold
<1>9. ASSUME NEW c \in calls, Succeed(c) PROVE ToldRows' /\ ToldCalls'
  <2>1. dialog' = dialog /\ calls' \subseteq calls
    BY <1>9 DEF Succeed
  <2> QED
    BY <1>0, <1>2, <1>9, <2>1, SucceedTold
<1>10. CASE Reload
  BY <1>0, <1>10, ReloadTold
<1>11. ASSUME \/ OpenAdd \/ CloseForm \/ \E emp \in emps : OpenEdit(emp)
              \/ \E c \in calls : Refuse(c)
              \/ Others \/ UNCHANGED vars
       PROVE  ToldRows' /\ ToldCalls'
  <2>1. UNCHANGED <<gone, shown, flight, iDraw, lost, dialog>> /\ calls' \subseteq calls
    BY <1>11 DEF OpenAdd, CloseForm, OpenEdit, Refuse, Others, vars, pageVars
  <2> QED
    BY <1>1, <1>2, <2>1
<1> QED
  BY <1>3, <1>4, <1>5, <1>6, <1>7, <1>8, <1>9, <1>10, <1>11 DEF Next, Fetching

\* However the list requests and the deletions overlap: once the newest list was
\* drawn, no row is shown whose deletion was answered.
THEOREM DeletedDoGo == Spec => []DeletedAreGone
<1>1. Init => Told /\ Calls
  BY InitTold DEF Init, Calls, Modals
<1>2. PageInv /\ Calls /\ Told /\ [Next]_vars => Told'
  BY NextTold
<1>3. Told => DeletedAreGone
  BY DEF Told, ToldRows
<1> QED
  BY <1>1, <1>2, <1>3, NextCalls, PageInvariant, PTL DEF Spec
==============================================================================
