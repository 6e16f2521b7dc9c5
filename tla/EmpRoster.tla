----------------------------- MODULE EmpRoster -----------------------------
(***************************************************************************)
(* The employees on the server: EmpApiController over EmpServiceImpl and   *)
(* the table T_EMP.  save and deleteById are inherited from                *)
(* BaseServiceImpl, outside the pointcut of the transactions, so each      *)
(* statement commits by itself; saveBatch is inside it, and its own        *)
(* commits are taken to do nothing, as SpringManagedTransaction.commit     *)
(* does while a transaction of Spring is open.  There is no mapped         *)
(* statement updateByPrimaryKey in EmpMapper.xml: save of an employee with *)
(* an id and updateBatch fail and change nothing.                          *)
(***************************************************************************)
EXTENDS PagingOps, SequencesExt

CONSTANTS MaxId,    \* bound on the ids T_EMP gives out
          MaxBatch, \* bound on the rows of a batch
          Nil

\* A saveBatch under way.
Batch == [ids : SUBSET Nat, left : Nat]

ASSUME BatchAssumption == Nil \notin Batch
ASSUME IdsAssumption == MaxId \in Nat

VARIABLES emps,   \* the ids in T_EMP
          nextId, \* AUTO_INCREMENT, never given back
          batch   \* the saveBatch under way, or Nil

rosterVars == <<emps, nextId, batch>>

\* PageHelper, told to be reasonable: the page after the last is the last one.
Reasonable(page, pages) == IF page > pages THEN pages ELSE page

\* The rows as the statement orders them: each comes after those before it.
InOrder(rows) ==
    [i \in 1 .. Cardinality(rows) |-> CHOOSE x \in rows : Cardinality({ y \in rows : y < x }) = i - 1]

\* getAllByOrder: the page that startIndex / pageSize + 1 names, in order.
PageRows(start, size) ==
    LET all == InOrder(emps)
        page == Reasonable(start \div size + 1, CeilDiv(Len(all), size))
    IN  IF page = 0 THEN <<>>
        ELSE SubSeq(all, (page - 1) * size + 1, DisplayEnd((page - 1) * size, size, Len(all)))

Insert == /\ nextId <= MaxId
          /\ emps' = emps \cup {nextId}
          /\ nextId' = nextId + 1
          /\ UNCHANGED batch
Delete(id) == emps' = emps \ {id} /\ UNCHANGED <<nextId, batch>>

\* saveBatch: rows are inserted one by one, and seen by nobody yet.
BeginBatch(n) ==
    /\ batch = Nil /\ nextId + n - 1 <= MaxId
    /\ batch' = [ids |-> {}, left |-> n]
    /\ UNCHANGED <<emps, nextId>>
InsertOfBatch ==
    /\ batch # Nil /\ batch.left > 0 /\ nextId <= MaxId
    /\ batch' = [ids |-> batch.ids \cup {nextId}, left |-> batch.left - 1]
    /\ nextId' = nextId + 1
    /\ UNCHANGED emps

\* The method returns and Spring commits, or an exception rolls back.
EndBatch(fails) ==
    /\ batch # Nil /\ (fails \/ batch.left = 0)
    /\ emps' = IF fails THEN emps ELSE emps \cup batch.ids
    /\ batch' = Nil
    /\ UNCHANGED nextId

RosterInit == /\ \E n \in 0 .. MaxId : emps = 1 .. n /\ nextId = n + 1
              /\ batch = Nil
BatchNext == \/ \E n \in 1 .. MaxBatch : BeginBatch(n)
             \/ InsertOfBatch
             \/ \E fails \in BOOLEAN : EndBatch(fails)
=============================================================================
