------------------------------- MODULE Outbox -------------------------------
(***************************************************************************)
(* The transactional outbox: OutboxEventPublisher writes an event into     *)
(* table event_outbox inside the caller's transaction (or inside one of    *)
(* its own), and OutboxPoller fetches the oldest PENDING and FAILED rows,  *)
(* sends them to Kafka concurrently and then marks the whole batch in one  *)
(* statement.  A send that times out counts as failed although the record  *)
(* may still reach the broker; a poller that dies, or whose update fails,  *)
(* leaves the rows of its batch as they were.                              *)
(*                                                                         *)
(* The definitions no other one refers to (VisibleTooEarly, ForgetsFailed, *)
(* FetchedAgain, MarkOptimistically) are faulty variants of their          *)
(* successors; the README says which property rules out which.             *)
(***************************************************************************)
EXTENDS Naturals, FiniteSets

CONSTANTS
  Event,        \* events the services may publish
  Unparseable,  \* events no registered deserialiser accepts
  BatchSize,    \* rows fetched per cycle
  MaxTime,      \* bound: ticks of the clock
  MaxFailures   \* bound: timeouts, failed updates and crashes together

ASSUME OutboxAssumption ==
  /\ Unparseable \subseteq Event
  /\ BatchSize \in Nat \ {0}
  /\ MaxTime \in Nat
  /\ MaxFailures \in Nat

VARIABLES
  clock,       \* wall clock, in the whole seconds an event is stamped with
  stamp,       \* EventOutbox.timestamp, taken when the event object is built
  status,      \* of the row: EventStatus once its transaction has committed
  published,   \* records of an event in its Kafka topic
  inTransit,   \* records that timed out but may still be stored by the broker
  pc,          \* where the poller stands
  batch,       \* rows of the current cycle
  result,      \* what _emit_event returned for a row of the batch
  failures     \* timeouts, failed updates and crashes so far

pollerVars == <<pc, batch, result>>
vars == <<clock, stamp, status, published, inTransit, pollerVars, failures>>

(* A row is absent until a transaction inserts it, open until that         *)
(* transaction ends, and aborted when it was rolled back.                  *)
RowStatus == {"absent", "open", "aborted", "PENDING", "FAILED", "COMPLETED"}
Committed == {"PENDING", "FAILED", "COMPLETED"}

Init ==
  /\ clock = 0
  /\ stamp = [e \in Event |-> 0]
  /\ status = [e \in Event |-> "absent"]
  /\ published = [e \in Event |-> 0]
  /\ inTransit = [e \in Event |-> 0]
  /\ pc = "idle"
  /\ batch = {}
  /\ result = [e \in Event |-> "none"]
  /\ failures = 0

-----------------------------------------------------------------------------
(* The services that publish.                                              *)

Tick ==
  /\ clock < MaxTime
  /\ clock' = clock + 1
  /\ UNCHANGED <<stamp, status, published, inTransit, pollerVars, failures>>

(* publish(): the event is built, stamped and inserted.  Given no session  *)
(* the publisher opens one and commits it at once; given the caller's, the *)
(* row shares the fate of the caller's transaction.                        *)
Publish(e) ==
  /\ status[e] = "absent"
  /\ status' = [status EXCEPT ![e] = "open"]
  /\ stamp' = [stamp EXCEPT ![e] = clock]
  /\ UNCHANGED <<clock, published, inTransit, pollerVars, failures>>

CommitTx(e) ==
  /\ status[e] = "open"
  /\ status' = [status EXCEPT ![e] = "PENDING"]
  /\ UNCHANGED <<clock, stamp, published, inTransit, pollerVars, failures>>

RollbackTx(e) ==
  /\ status[e] = "open"
  /\ status' = [status EXCEPT ![e] = "aborted"]
  /\ UNCHANGED <<clock, stamp, published, inTransit, pollerVars, failures>>

-----------------------------------------------------------------------------
(* The poller.                                                             *)

VisibleTooEarly == {e \in Event : status[e] \in {"open", "PENDING", "FAILED"}}
ForgetsFailed   == {e \in Event : status[e] = "PENDING"}
FetchedAgain    == {e \in Event : status[e] \in Committed}
Fetchable       == {e \in Event : status[e] \in {"PENDING", "FAILED"}}

OldestFirst(rows, from) == \A e \in rows, f \in from \ rows : stamp[e] <= stamp[f]

(* _fetch_events: order_by(timestamp).limit(batch_size); rows stamped with *)
(* the same second come in any order.                                      *)
Fetch(rows) ==
  /\ pc = "idle"
  /\ rows # {}
  /\ rows \subseteq Fetchable
  /\ Cardinality(rows) = IF Cardinality(Fetchable) < BatchSize
                         THEN Cardinality(Fetchable) ELSE BatchSize
  /\ OldestFirst(rows, Fetchable)
  /\ pc' = "emit"
  /\ batch' = rows
  /\ result' = [e \in Event |-> "none"]
  /\ UNCHANGED <<clock, stamp, status, published, inTransit, failures>>

InWork(e) == pc = "emit" /\ e \in batch /\ result[e] = "none"

(* _emit_event, when no deserialiser is registered for the event.          *)
Reject(e) ==
  /\ InWork(e)
  /\ e \in Unparseable
  /\ result' = [result EXCEPT ![e] = "failed"]
  /\ UNCHANGED <<clock, stamp, status, published, inTransit, pc, batch, failures>>

(* _emit_event, when the broker stores and acknowledges the record.        *)
Acknowledge(e) ==
  /\ InWork(e)
  /\ e \notin Unparseable
  /\ published' = [published EXCEPT ![e] = @ + 1]
  /\ result' = [result EXCEPT ![e] = "sent"]
  /\ UNCHANGED <<clock, stamp, status, inTransit, pc, batch, failures>>

(* _emit_event, when wait_for gives up or the client raises: the record    *)
(* may be lost, stored already with its acknowledgement lost, or stored    *)
(* later.                                                                  *)
TimeOut(e) ==
  /\ InWork(e)
  /\ e \notin Unparseable
  /\ failures < MaxFailures
  /\ failures' = failures + 1
  /\ inTransit' = [inTransit EXCEPT ![e] = @ + 1]
  /\ result' = [result EXCEPT ![e] = "failed"]
  /\ UNCHANGED <<clock, stamp, status, published, pc, batch>>

ArriveLate(e) ==
  /\ inTransit[e] > 0
  /\ inTransit' = [inTransit EXCEPT ![e] = @ - 1]
  /\ published' = [published EXCEPT ![e] = @ + 1]
  /\ UNCHANGED <<clock, stamp, status, pollerVars, failures>>

MarkOptimistically(e) == "COMPLETED"
Mark(e) == IF result[e] = "sent" THEN "COMPLETED" ELSE "FAILED"

(* _update_events, once gather() has the result of every row.              *)
Update ==
  /\ pc = "emit"
  /\ \A e \in batch : result[e] # "none"
  /\ status' = [e \in Event |-> IF e \in batch THEN Mark(e) ELSE status[e]]
  /\ pc' = "idle"
  /\ batch' = {}
  /\ UNCHANGED <<clock, stamp, published, inTransit, result, failures>>

(* The update fails; run() logs the exception and starts the next cycle.   *)
UpdateFails ==
  /\ pc = "emit"
  /\ \A e \in batch : result[e] # "none"
  /\ failures < MaxFailures
  /\ failures' = failures + 1
  /\ pc' = "idle"
  /\ batch' = {}
  /\ UNCHANGED <<clock, stamp, status, published, inTransit, result>>

(* The poller is killed and restarted.  A send it was waiting for may or   *)
(* may not reach the broker, at once or later.                             *)
Crash ==
  /\ failures < MaxFailures
  /\ failures' = failures + 1
  /\ inTransit' = [e \in Event |-> IF InWork(e) /\ e \notin Unparseable
                                 THEN inTransit[e] + 1 ELSE inTransit[e]]
  /\ pc' = "idle"
  /\ batch' = {}
  /\ UNCHANGED <<clock, stamp, status, published, result>>

Next ==
  \/ Tick
  \/ \E e \in Event : Publish(e) \/ CommitTx(e) \/ RollbackTx(e)
  \/ \E rows \in SUBSET Event : Fetch(rows)
  \/ \E e \in Event : Reject(e) \/ Acknowledge(e) \/ TimeOut(e) \/ ArriveLate(e)
  \/ Update
  \/ UpdateFails
  \/ Crash

Spec == Init /\ [][Next]_vars

(* The poller's loop never ends and a cycle has no unbounded wait: it      *)
(* keeps fetching, every send returns or times out, and an update is       *)
(* attempted.  Services owe nobody an event, nor a commit.                 *)
Fairness ==
  /\ WF_vars(\E rows \in SUBSET Event : Fetch(rows))
  /\ \A e \in Event : WF_vars(Reject(e)) /\ WF_vars(Acknowledge(e))
  /\ WF_vars(Update)

FairSpec == Spec /\ Fairness

-----------------------------------------------------------------------------
(* Properties.                                                             *)

(* Every variable has its type.                                            *)
TypeOK ==
  /\ clock \in Nat
  /\ stamp \in [Event -> Nat]
  /\ status \in [Event -> RowStatus]
  /\ published \in [Event -> Nat]
  /\ inTransit \in [Event -> Nat]
  /\ pc \in {"idle", "emit"}
  /\ batch \in SUBSET Event
  /\ result \in [Event -> {"none", "sent", "failed"}]
  /\ failures \in Nat

(* A row is only marked COMPLETED when a record of the event is in Kafka:  *)
(* the mark is what stops the poller from ever sending it again.           *)
CompletedWasPublished ==
  \A e \in Event : status[e] = "COMPLETED" => published[e] >= 1

(* No consumer sees an event of a transaction that was rolled back, or has *)
(* not committed yet.                                                      *)
OnlyCommittedPublished ==
  \A e \in Event : published[e] + inTransit[e] > 0 => status[e] \in Committed

(* Every record of an event beyond the first is owed to a timeout, a       *)
(* failed update or a crash.                                               *)
DuplicatesBoundedByFailures ==
  \A e \in Event : published[e] <= 1 + failures

(* Every committed event some deserialiser accepts reaches Kafka and is    *)
(* marked, although events that can never be sent stay at the head of the  *)
(* queue: as long as those do not fill a batch.                            *)
EventuallyCompleted ==
  \A e \in Event \ Unparseable : status[e] = "PENDING" ~> status[e] = "COMPLETED"

(* The outbox is an at-least-once stage: it accepts a row when its         *)
(* transaction commits, hands it on when Kafka stores a record and settles *)
(* it with the COMPLETED mark.                                             *)
Stage == INSTANCE AtLeastOnce WITH
  Item     <- Event,
  accepted <- {e \in Event : status[e] \in Committed},
  copies   <- published,
  settled  <- {e \in Event : status[e] = "COMPLETED"}

IsAtLeastOnce == Stage!Spec
=============================================================================
