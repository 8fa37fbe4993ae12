---------------------------- MODULE OutboxProofs ----------------------------
(***************************************************************************)
(* Proofs about Outbox, for every set of events, every batch size and any  *)
(* number of failures: its safety properties, and that it implements       *)
(* AtLeastOnce.                                                            *)
(***************************************************************************)
EXTENDS Outbox, TLAPS

(* The poller works on rows it found PENDING or FAILED; nobody else writes *)
(* the status of a committed row.                                          *)
BatchOpen ==
  /\ pc = "idle" => batch = {}
  /\ \A e \in batch : status[e] \in {"PENDING", "FAILED"}

(* The poller has, or has recorded, an acknowledgement for the event.      *)
Acknowledged(e) == status[e] = "COMPLETED" \/ (e \in batch /\ result[e] = "sent")

AcknowledgedPublished == \A e \in Event : Acknowledged(e) => published[e] >= 1

(* All records of an event but the acknowledged one are owed to failures.  *)
RecordsPaidFor ==
  \A e \in Event :
    published[e] + inTransit[e] <= IF Acknowledged(e) THEN failures + 1 ELSE failures

IndInv ==
  /\ TypeOK
  /\ BatchOpen
  /\ AcknowledgedPublished
  /\ OnlyCommittedPublished
  /\ RecordsPaidFor

(* Init establishes the inductive invariant.                               *)
LEMMA InitInd == Init => IndInv
BY DEF Init, IndInv, TypeOK, RowStatus, BatchOpen, AcknowledgedPublished, Acknowledged,
   OnlyCommittedPublished, RecordsPaidFor

(* A service's transactions touch only rows the poller cannot see yet.     *)
LEMMA ServiceInd ==
  ASSUME IndInv, NEW e \in Event, Publish(e) \/ CommitTx(e) \/ RollbackTx(e)
  PROVE  IndInv'
<1> USE DEF IndInv, Publish, CommitTx, RollbackTx, pollerVars
<1>1. TypeOK'
  BY DEF TypeOK, RowStatus
<1>2. e \notin batch /\ status[e] \in {"absent", "open"}
  BY DEF BatchOpen
<1>3. \A f \in Event : Acknowledged(f)' <=> Acknowledged(f)
  BY <1>2 DEF Acknowledged, TypeOK
<1>4. BatchOpen'
  BY <1>2 DEF BatchOpen, TypeOK
<1>5. OnlyCommittedPublished'
  BY DEF OnlyCommittedPublished, Committed, TypeOK
<1>6. AcknowledgedPublished' /\ RecordsPaidFor'
  BY <1>3 DEF AcknowledgedPublished, RecordsPaidFor
<1>7. QED
  BY <1>1, <1>4, <1>5, <1>6

(* The poller's steps on one event of its batch, and late arrivals.        *)
LEMMA EmitInd ==
  ASSUME IndInv, NEW e \in Event,
         Reject(e) \/ Acknowledge(e) \/ TimeOut(e) \/ ArriveLate(e)
  PROVE  IndInv'
<1> USE DEF IndInv, Reject, Acknowledge, TimeOut, ArriveLate, InWork, pollerVars
<1>1. TypeOK'
  BY DEF TypeOK
<1>2. BatchOpen'
  BY DEF BatchOpen
<1>3. OnlyCommittedPublished'
  BY DEF OnlyCommittedPublished, Committed, BatchOpen, TypeOK
<1>4. AcknowledgedPublished'
  BY DEF AcknowledgedPublished, Acknowledged, TypeOK
<1>5. RecordsPaidFor'
  <2>1. SUFFICES ASSUME NEW f \in Event
                 PROVE  published'[f] + inTransit'[f]
                          <= IF Acknowledged(f)' THEN failures' + 1 ELSE failures'
    BY DEF RecordsPaidFor
  <2>2. /\ published[f] \in Nat /\ inTransit[f] \in Nat /\ failures \in Nat
        /\ published[f] + inTransit[f] <= IF Acknowledged(f) THEN failures + 1 ELSE failures
    BY DEF TypeOK, RecordsPaidFor
  <2>3. InWork(e) => ~Acknowledged(e)
    BY DEF Acknowledged, BatchOpen
  <2>4. QED
    BY <2>2, <2>3 DEF Acknowledged, TypeOK
<1>6. QED
  BY <1>1, <1>2, <1>3, <1>4, <1>5

(* A fetch starts a cycle without any result.                              *)
LEMMA FetchInd ==
  ASSUME IndInv, NEW rows \in SUBSET Event, Fetch(rows)
  PROVE  IndInv'
<1> USE DEF IndInv, Fetch
<1>1. TypeOK'
  BY DEF TypeOK
<1>2. BatchOpen'
  BY DEF BatchOpen, Fetchable
<1>3. \A f \in Event : Acknowledged(f)' <=> Acknowledged(f)
  BY DEF Acknowledged, BatchOpen
<1>4. (AcknowledgedPublished /\ OnlyCommittedPublished /\ RecordsPaidFor)'
  BY <1>3 DEF AcknowledgedPublished, OnlyCommittedPublished, RecordsPaidFor
<1>5. QED
  BY <1>1, <1>2, <1>4

(* The bulk update turns acknowledgements into COMPLETED marks, one to one. *)
LEMMA UpdateInd ==
  ASSUME IndInv, Update
  PROVE  IndInv'
<1> USE DEF IndInv, Update
<1>1. TypeOK'
  BY DEF TypeOK, Mark, RowStatus
<1>2. BatchOpen'
  BY DEF BatchOpen
<1>3. \A f \in Event : Acknowledged(f)' <=> Acknowledged(f)
  BY DEF Acknowledged, Mark, BatchOpen, TypeOK
<1>4. OnlyCommittedPublished'
  BY DEF OnlyCommittedPublished, Mark, Committed, TypeOK
<1>5. AcknowledgedPublished' /\ RecordsPaidFor'
  BY <1>3 DEF AcknowledgedPublished, RecordsPaidFor
<1>6. QED
  BY <1>1, <1>2, <1>4, <1>5

(* A cycle that ends without its update forgets its acknowledgements; the  *)
(* failure it counts as pays for the records they stood for.               *)
LEMMA LostCycleInd ==
  ASSUME IndInv, UpdateFails \/ Crash
  PROVE  IndInv'
<1> USE DEF IndInv, UpdateFails, Crash, InWork
<1>1. TypeOK'
  BY DEF TypeOK
<1>2. BatchOpen'
  BY DEF BatchOpen
<1>3. \A f \in Event : Acknowledged(f)' <=> status[f] = "COMPLETED"
  BY DEF Acknowledged
<1>4. AcknowledgedPublished'
  BY <1>3 DEF AcknowledgedPublished, Acknowledged
<1>5. OnlyCommittedPublished'
  BY DEF OnlyCommittedPublished, Committed, BatchOpen, TypeOK
<1>6. RecordsPaidFor'
  <2>1. SUFFICES ASSUME NEW f \in Event
                 PROVE  published'[f] + inTransit'[f]
                          <= IF Acknowledged(f)' THEN failures' + 1 ELSE failures'
    BY DEF RecordsPaidFor
  <2>2. /\ published[f] \in Nat /\ inTransit[f] \in Nat /\ failures \in Nat
        /\ published[f] + inTransit[f] <= IF Acknowledged(f) THEN failures + 1 ELSE failures
    BY DEF TypeOK, RecordsPaidFor
  <2>3. f \in batch => status[f] # "COMPLETED"
    BY DEF BatchOpen
  <2>4. QED
    BY <1>3, <2>2, <2>3 DEF Acknowledged, TypeOK
<1>7. QED
  BY <1>1, <1>2, <1>4, <1>5, <1>6

(* IndInv is an invariant of the outbox.                                   *)
THEOREM Inductive == Spec => []IndInv
<1>1. Init => IndInv
  BY InitInd
<1>2. IndInv /\ [Next]_vars => IndInv'
  <2>1. SUFFICES ASSUME IndInv, [Next]_vars PROVE IndInv'
    OBVIOUS
  <2>2. CASE Tick
    BY <2>1, <2>2 DEF Tick, pollerVars, IndInv, TypeOK, BatchOpen, AcknowledgedPublished,
       Acknowledged, OnlyCommittedPublished, RecordsPaidFor
  <2>3. ASSUME NEW e \in Event, Publish(e) \/ CommitTx(e) \/ RollbackTx(e)
        PROVE  IndInv'
    BY <2>1, <2>3, ServiceInd
  <2>4. ASSUME NEW rows \in SUBSET Event, Fetch(rows) PROVE IndInv'
    BY <2>1, <2>4, FetchInd
  <2>5. ASSUME NEW e \in Event,
               Reject(e) \/ Acknowledge(e) \/ TimeOut(e) \/ ArriveLate(e)
        PROVE  IndInv'
    BY <2>1, <2>5, EmitInd
  <2>6. CASE Update
    BY <2>1, <2>6, UpdateInd
  <2>7. CASE UpdateFails \/ Crash
    BY <2>1, <2>7, LostCycleInd
  <2>8. CASE UNCHANGED vars
    BY <2>1, <2>8 DEF vars, pollerVars, IndInv, TypeOK, BatchOpen, AcknowledgedPublished,
       Acknowledged, OnlyCommittedPublished, RecordsPaidFor
  <2>9. QED
    BY <2>1, <2>2, <2>3, <2>4, <2>5, <2>6, <2>7, <2>8 DEF Next
<1>3. QED
  BY <1>1, <1>2, PTL DEF Spec

(* Every variable of the outbox keeps its type.                            *)
THEOREM TypeCorrect == Spec => []TypeOK
<1>1. IndInv => TypeOK
  BY DEF IndInv
<1>2. QED
  BY <1>1, Inductive, PTL

(* A row marked COMPLETED has a record in Kafka.                           *)
THEOREM CompletedImpliesPublished == Spec => []CompletedWasPublished
<1>1. IndInv => CompletedWasPublished
  BY DEF IndInv, CompletedWasPublished, AcknowledgedPublished, Acknowledged
<1>2. QED
  BY <1>1, Inductive, PTL

(* Nothing reaches Kafka before, or without, the commit of its transaction. *)
THEOREM NothingUncommitted == Spec => []OnlyCommittedPublished
<1>1. IndInv => OnlyCommittedPublished
  BY DEF IndInv
<1>2. QED
  BY <1>1, Inductive, PTL

(* An event has at most one record more than there were failures.          *)
THEOREM DuplicatesBounded == Spec => []DuplicatesBoundedByFailures
<1>1. IndInv => DuplicatesBoundedByFailures
  <2>1. SUFFICES ASSUME IndInv, NEW e \in Event PROVE published[e] <= 1 + failures
    BY DEF DuplicatesBoundedByFailures
  <2>2. /\ published[e] \in Nat /\ inTransit[e] \in Nat /\ failures \in Nat
        /\ published[e] + inTransit[e] <= IF Acknowledged(e) THEN failures + 1 ELSE failures
    BY <2>1 DEF IndInv, TypeOK, RecordsPaidFor
  <2>3. QED
    BY <2>2
<1>2. QED
  BY <1>1, Inductive, PTL

-----------------------------------------------------------------------------
(* The outbox implements AtLeastOnce.                                      *)

(* An outbox without rows has accepted nothing.                            *)
LEMMA InitRefines == Init => Stage!Init
BY DEF Init, Stage!Init, Committed

(* A transaction's commit is the stage's acceptance.                       *)
LEMMA CommitRefines ==
  ASSUME IndInv, NEW e \in Event, CommitTx(e)
  PROVE  Stage!Accept({e})
<1> USE DEF IndInv, TypeOK, CommitTx, pollerVars
<1>1. {f \in Event : status'[f] \in Committed} = {f \in Event : status[f] \in Committed} \cup {e}
  BY DEF Committed
<1>2. {f \in Event : status'[f] = "COMPLETED"} = {f \in Event : status[f] = "COMPLETED"}
  OBVIOUS
<1>3. QED
  BY <1>1, <1>2 DEF Stage!Accept

(* A record that Kafka stores, in time or late, hands its event on.        *)
LEMMA StoreRefines ==
  ASSUME IndInv, NEW e \in Event, Acknowledge(e) \/ ArriveLate(e)
  PROVE  Stage!HandOn({e}, {})
<1> USE DEF IndInv, TypeOK, Acknowledge, ArriveLate, InWork, pollerVars
<1>1. status[e] \in Committed
  BY DEF BatchOpen, OnlyCommittedPublished, Committed
<1>2. published' = [f \in Event |-> IF f \in {e} THEN published[f] + 1 ELSE published[f]]
  OBVIOUS
<1>3. QED
  BY <1>1, <1>2 DEF Stage!HandOn

(* The bulk update settles what was acknowledged and nothing else.         *)
LEMMA UpdateRefines ==
  ASSUME IndInv, Update
  PROVE  Stage!Next
<1> USE DEF IndInv, TypeOK, Update, Mark
<1>0. PICK done \in SUBSET Event : done = {e \in batch : result[e] = "sent"}
  OBVIOUS
<1>1. done \subseteq {f \in Event : status[f] \in Committed}
  BY <1>0 DEF BatchOpen, Committed
<1>2. published' = [f \in Event |-> IF f \in {} THEN published[f] + 1 ELSE published[f]]
  OBVIOUS
<1>3. \A f \in done : published'[f] >= 1
  BY <1>0 DEF AcknowledgedPublished, Acknowledged
<1>4. {f \in Event : status'[f] = "COMPLETED"} = {f \in Event : status[f] = "COMPLETED"} \cup done
  BY <1>0 DEF BatchOpen
<1>5. {f \in Event : status'[f] \in Committed} = {f \in Event : status[f] \in Committed}
  BY DEF BatchOpen, Committed
<1>6. Stage!HandOn({}, done)
  BY <1>1, <1>2, <1>3, <1>4, <1>5 DEF Stage!HandOn
<1>7. QED
  BY <1>6 DEF Stage!Next

(* Every step of the outbox is a step of the stage, or none of its         *)
(* business.                                                               *)
THEOREM ImplementsAtLeastOnce == Spec => IsAtLeastOnce
<1>1. Init => Stage!Init
  BY InitRefines
<1>2. IndInv /\ [Next]_vars => [Stage!Next]_(Stage!vars)
  <2>1. SUFFICES ASSUME IndInv, [Next]_vars PROVE Stage!Next \/ UNCHANGED Stage!vars
    OBVIOUS
  <2> DEFINE Goal == Stage!Next \/ UNCHANGED Stage!vars
  <2>2. ASSUME NEW e \in Event, Publish(e) \/ CommitTx(e) \/ RollbackTx(e) PROVE Goal
    <3>1. CommitTx(e) => Stage!Next
      BY <2>1, CommitRefines DEF Stage!Next
    <3>2. Publish(e) \/ RollbackTx(e) => UNCHANGED Stage!vars
      BY <2>1 DEF Publish, RollbackTx, pollerVars, Stage!vars, IndInv, TypeOK, Committed
    <3>3. QED
      BY <2>2, <3>1, <3>2
  <2>3. ASSUME NEW e \in Event,
               Reject(e) \/ Acknowledge(e) \/ TimeOut(e) \/ ArriveLate(e)
        PROVE  Goal
    <3>1. Acknowledge(e) \/ ArriveLate(e) => Stage!Next
      BY <2>1, StoreRefines DEF Stage!Next
    <3>2. Reject(e) \/ TimeOut(e) => UNCHANGED Stage!vars
      BY DEF Reject, TimeOut, Stage!vars
    <3>3. QED
      BY <2>3, <3>1, <3>2
  <2>4. Update => Goal
    BY <2>1, UpdateRefines
  <2>5. ASSUME NEW rows \in SUBSET Event, Fetch(rows) PROVE Goal
    BY <2>5 DEF Fetch, Stage!vars
  <2>6. Tick \/ UpdateFails \/ Crash \/ UNCHANGED vars => Goal
    BY DEF Tick, UpdateFails, Crash, vars, pollerVars, Stage!vars
  <2> HIDE DEF Goal
  <2>7. Goal
    BY <2>1, <2>2, <2>3, <2>4, <2>5, <2>6 DEF Next
  <2>8. QED
    BY <2>7 DEF Goal
<1>3. QED
  BY <1>1, <1>2, Inductive, PTL DEF Spec, IsAtLeastOnce, Stage!Spec
=============================================================================
