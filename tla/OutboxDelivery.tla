--------------------------- MODULE OutboxDelivery ---------------------------
(***************************************************************************)
(* What the hand-over from the collection database to the main database    *)
(* promises, without queues, acknowledgements, locks or crashes: batches    *)
(* are published one after another, each is applied to the main store       *)
(* exactly once, in the order of publication, and what the store has        *)
(* received it keeps.  The store may also grow by writers of its own        *)
(* (the fetch that precedes the cut-over to decoupled ingestion).           *)
(*                                                                          *)
(* ADR 20260916-e3a8, decisions 2-4, is the promise; Ingestion.tla is the   *)
(* code that implements it, and refines this module.                        *)
(***************************************************************************)
EXTENDS Naturals, Sequences

CONSTANT Content(_)   \* the posts a batch carries

VARIABLES
  log,       \* every batch the collector ever committed, in commit order
  received,  \* the batches the main store has applied, in that order
  store      \* the posts the main store holds

deliveryVars == <<log, received, store>>

Init ==
  /\ log = <<>>
  /\ received = <<>>
  /\ store = {}

\* The collector commits one more batch at the end of the log.
Publish ==
  /\ Len(log') = Len(log) + 1
  /\ log' = Append(log, log'[Len(log')])
  /\ UNCHANGED <<received, store>>

\* The consumer applies the first batch that has not been applied yet.
Deliver ==
  /\ Len(received) < Len(log)
  /\ LET b == log[Len(received) + 1] IN
       /\ received' = Append(received, b)
       /\ store' = store \cup Content(b)
  /\ UNCHANGED log

\* Another writer of the main store adds posts.
WriteDirectly ==
  /\ store \subseteq store'
  /\ UNCHANGED <<log, received>>

Next == Publish \/ Deliver \/ WriteDirectly

Spec == Init /\ [][Next]_deliveryVars
=============================================================================
