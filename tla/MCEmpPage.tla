----------------------------- MODULE MCEmpPage -----------------------------
(***************************************************************************)
(* The employees page with a bounded number of the events beside fetching: *)
(* changes by other administrators, dialogs and forms opened, reloads.     *)
(* Batches are saved and forms opened while the page rests.                *)
(***************************************************************************)
EXTENDS EmpPage

CONSTANT MaxEvents

VARIABLE events

Resting == flight = {} /\ calls = {} /\ dialog = Nil /\ modal = "closed"
\* Two employees at first, or one, with room for a batch and an event less.
MCInit == Init /\ Cardinality(emps) \in 1 .. 2 /\ events = 2 - Cardinality(emps)
MCNext ==
    /\ Next
    /\ batch' # batch => Resting
    /\ modal = "closed" /\ modal' # "closed" => Resting
    /\ events' = IF \/ emps' # emps /\ calls' = calls /\ batch' = batch
                    \/ dialog = Nil /\ dialog' # Nil
                    \/ modal = "closed" /\ modal' # "closed"
                    \/ visit' # visit
                    \/ batch = Nil /\ batch' # Nil
                 THEN events + 1 ELSE events
    /\ events' <= MaxEvents
MCSpec == MCInit /\ [][MCNext]_<<vars, events>> /\ WF_<<vars, events>>(Fetching /\ MCNext)
=============================================================================
