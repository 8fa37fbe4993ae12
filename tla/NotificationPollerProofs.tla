---------------------- MODULE NotificationPollerProofs ----------------------
(***************************************************************************)
(* Proofs about NotificationPoller, for every set of notices, batch size,  *)
(* number of retries and number of failures: its safety properties, and    *)
(* that it implements AtLeastOnce.                                         *)
(***************************************************************************)
EXTENDS NotificationPoller, SequenceTheorems, TLAPS

(* The poller works on committed rows that may be attempted once more, and *)
(* has outcomes of these only.                                             *)
BatchOpen ==
  \A r \in Row :
    /\ r \in batch => /\ phase[r[1]] = "stored"
                      /\ status[r] # "COMPLETED"
                      /\ retries[r] < MaxRetries
    /\ r \notin batch => result[r] = NoResult

(* A send of the row succeeded, whether or not this is written yet.        *)
Succeeded(r) == status[r] = "COMPLETED" \/ result[r] = "COMPLETED"

(* All copies but the one of the successful send are owed to failures.     *)
CopiesPaidFor ==
  \A r \in Row :
    /\ sent[r] <= IF Succeeded(r) THEN 1 + failures ELSE failures
    /\ phase[r[1]] # "stored" => sent[r] = 0

SucceededWasSent == \A r \in Row : Succeeded(r) => sent[r] > 0 \/ Vanishes(r)

(* Failed attempts of a row, the one not written yet included.             *)
FailedAttempts(r) == retries[r] + (IF result[r] = "FAILED" THEN 1 ELSE 0)

(* Each failed attempt of a row that can be sent is owed to a failure.     *)
AttemptsPaidFor ==
  \A r \in Row :
    ~ Undeliverable(r) /\ status[r] # "COMPLETED" => FailedAttempts(r) <= failures

IndInv ==
  /\ TypeOK
  /\ BatchOpen
  /\ CopiesPaidFor
  /\ SucceededWasSent
  /\ AttemptsPaidFor

LEMMA RowOfNotice == ASSUME NEW r \in Row PROVE r[1] \in Notice
BY DEF Row

LEMMA RetriesPositive == MaxRetries \in Nat /\ 0 < MaxRetries
BY PollerAssumption

LEMMA NoOutcome == NoResult # "FAILED" /\ NoResult # "COMPLETED"
BY DEF NoResult

USE RowOfNotice, RetriesPositive, NoOutcome

LEMMA Numbers ==
  ASSUME TypeOK
  PROVE  /\ failures \in Nat
         /\ \A r \in Row : sent[r] \in Nat /\ retries[r] \in Nat /\ retries[r] <= MaxRetries
<1>1. \A r \in Row : retries[r] \in 0 .. MaxRetries
  BY DEF TypeOK
<1>2. QED
  BY <1>1 DEF TypeOK

(* Init establishes the inductive invariant.                               *)
LEMMA InitInd == Init => IndInv
<1> SUFFICES ASSUME Init PROVE IndInv
  OBVIOUS
<1> USE DEF Init
<1>1. TypeOK
  <2>1. created \in Seq(Notice)
    BY EmptySeq
  <2>2. retries \in [Row -> 0 .. MaxRetries]
    OBVIOUS
  <2>3. QED
    BY <2>1, <2>2 DEF TypeOK
<1>2. BatchOpen /\ CopiesPaidFor /\ SucceededWasSent
  BY DEF BatchOpen, CopiesPaidFor, SucceededWasSent, Succeeded
<1>3. AttemptsPaidFor
  BY DEF AttemptsPaidFor, FailedAttempts
<1>4. QED
  BY <1>1, <1>2, <1>3 DEF IndInv

(* Publishers and their transactions change no row the poller works on.    *)
LEMMA PublisherInd ==
  ASSUME IndInv, NEW n \in Notice, Publish(n) \/ CommitTx(n) \/ RollbackTx(n)
  PROVE  IndInv'
<1> USE DEF IndInv, Publish, CommitTx, RollbackTx, rowVars, pollerVars
<1>1. TypeOK'
  <2>1. created' \in Seq(Notice)
    <3>1. created \in Seq(Notice)
      BY DEF TypeOK
    <3>2. Append(created, n) \in Seq(Notice)
      BY <3>1, AppendProperties
    <3>3. QED
      BY <3>1, <3>2
  <2>2. QED
    BY <2>1 DEF TypeOK
<1>2. BatchOpen'
  BY DEF BatchOpen, TypeOK
<1>3. \A r \in Row : (Vanishes(r)' <=> Vanishes(r)) /\ (Succeeded(r)' <=> Succeeded(r))
  BY DEF Vanishes, Undeliverable, Discord, Succeeded
<1>4. CopiesPaidFor'
  BY <1>3 DEF CopiesPaidFor, TypeOK
<1>5. SucceededWasSent'
  BY <1>3 DEF SucceededWasSent
<1>6. AttemptsPaidFor'
  BY DEF AttemptsPaidFor, FailedAttempts, Undeliverable, Discord
<1>7. QED
  BY <1>1, <1>2, <1>4, <1>5, <1>6

(* A fetch takes rows without an outcome.                                  *)
LEMMA FetchInd ==
  ASSUME IndInv, Fetch
  PROVE  IndInv'
<1> USE DEF IndInv, Fetch, rowVars, publishVars
<1>1. batch = {} /\ batch' \subseteq Fetchable
  OBVIOUS
<1>2. TypeOK'
  BY <1>1 DEF TypeOK, Fetchable
<1>3. BatchOpen'
  BY <1>1 DEF BatchOpen, Fetchable
<1>4. CopiesPaidFor' /\ SucceededWasSent' /\ AttemptsPaidFor'
  BY DEF CopiesPaidFor, SucceededWasSent, AttemptsPaidFor, Succeeded, FailedAttempts, Vanishes,
     Undeliverable, Discord
<1>5. QED
  BY <1>2, <1>3, <1>4

(* The end of one send.                                                    *)
LEMMA EmitInd ==
  ASSUME IndInv, NEW r \in Row, Emit(r) \/ TimeOut(r)
  PROVE  IndInv'
<1> USE DEF IndInv, Emit, Reject, Vanish, Deliver, TimeOut, Waiting, Outcome, rowVars, publishVars
<1>1. TypeOK'
  <2>1. failures' \in Nat /\ sent' \in [Row -> Nat]
    BY Numbers DEF TypeOK
  <2>2. result' \in [Row -> {NoResult, "FAILED", "COMPLETED"}]
    BY DEF TypeOK
  <2>3. QED
    BY <2>1, <2>2 DEF TypeOK
<1>2. BatchOpen'
  BY DEF BatchOpen, TypeOK
<1>3. /\ r \in batch /\ phase[r[1]] = "stored" /\ status[r] # "COMPLETED"
      /\ result[r] = NoResult
      /\ sent[r] <= failures
  BY DEF BatchOpen, CopiesPaidFor, Succeeded
<1>4. \A q \in Row : (Vanishes(q)' <=> Vanishes(q)) /\ (Undeliverable(q)' <=> Undeliverable(q))
  BY DEF Vanishes, Undeliverable, Discord
<1>5. CopiesPaidFor'
  <2>1. SUFFICES ASSUME NEW q \in Row
                 PROVE  /\ sent'[q] <= IF Succeeded(q)' THEN 1 + failures' ELSE failures'
                        /\ phase'[q[1]] # "stored" => sent'[q] = 0
    BY DEF CopiesPaidFor
  <2>2. /\ sent[q] \in Nat /\ failures \in Nat
        /\ sent[q] <= IF Succeeded(q) THEN 1 + failures ELSE failures
        /\ phase[q[1]] # "stored" => sent[q] = 0
    BY DEF CopiesPaidFor, TypeOK
  <2>3. CASE q = r
    BY <2>2, <2>3, <1>3 DEF TypeOK, Succeeded
  <2>4. CASE q # r
    BY <2>2, <2>4 DEF TypeOK, Succeeded
  <2>5. QED
    BY <2>3, <2>4
<1>6. SucceededWasSent'
  <2>1. SUFFICES ASSUME NEW q \in Row, Succeeded(q)'
                 PROVE  sent'[q] > 0 \/ Vanishes(q)
    BY <1>4 DEF SucceededWasSent
  <2>2. sent[q] \in Nat /\ (Succeeded(q) => sent[q] > 0 \/ Vanishes(q))
    BY DEF SucceededWasSent, TypeOK
  <2>3. CASE q = r
    BY <2>1, <2>2, <2>3, <1>3 DEF TypeOK, Succeeded
  <2>4. CASE q # r
    BY <2>1, <2>2, <2>4 DEF TypeOK, Succeeded
  <2>5. QED
    BY <2>3, <2>4
<1>7. AttemptsPaidFor'
  <2>1. SUFFICES ASSUME NEW q \in Row, ~ Undeliverable(q), status[q] # "COMPLETED"
                 PROVE  FailedAttempts(q)' <= failures'
    BY <1>4 DEF AttemptsPaidFor
  <2>2. retries[q] \in Nat /\ failures \in Nat /\ FailedAttempts(q) <= failures
    BY <2>1, Numbers DEF AttemptsPaidFor
  <2>3. CASE q = r
    <3>1. FailedAttempts(q) = retries[q]
      BY <2>2, <2>3, <1>3 DEF FailedAttempts
    <3>2. FailedAttempts(q)' \in {retries[q], retries[q] + 1}
      BY <2>2 DEF FailedAttempts
    <3>3. failures' = failures => result'[q] = "COMPLETED"
      BY <2>1, <2>3 DEF TypeOK
    <3>4. failures' = failures => FailedAttempts(q)' = retries[q]
      BY <2>2, <3>3 DEF FailedAttempts
    <3>5. failures' \in {failures, failures + 1}
      OBVIOUS
    <3>6. QED
      BY <2>2, <3>1, <3>2, <3>4, <3>5
  <2>4. CASE q # r
    BY <2>2, <2>4 DEF TypeOK, FailedAttempts
  <2>5. QED
    BY <2>3, <2>4
<1>8. QED
  BY <1>1, <1>2, <1>5, <1>6, <1>7

(* The bulk update turns outcomes into statuses, one to one.               *)
LEMMA UpdateInd ==
  ASSUME IndInv, Update
  PROVE  IndInv'
<1> USE DEF IndInv, Update, EndBatch, Finished, publishVars, Written, RetriesWritten
<1>1. TypeOK'
  <2>1. \A r \in Row : r \in batch => result[r] \in {"FAILED", "COMPLETED"} /\ retries[r] < MaxRetries
    BY DEF TypeOK, BatchOpen
  <2>2. status' \in [Row -> {"PENDING", "FAILED", "COMPLETED"}]
    BY <2>1 DEF TypeOK
  <2>3. retries' \in [Row -> 0 .. MaxRetries]
    BY <2>1 DEF TypeOK
  <2>4. QED
    BY <2>2, <2>3 DEF TypeOK
<1>2. BatchOpen'
  BY DEF BatchOpen
<1>3. \A r \in Row : Succeeded(r)' <=> Succeeded(r)
  BY DEF Succeeded, BatchOpen, TypeOK
<1>4. \A r \in Row : (Vanishes(r)' <=> Vanishes(r)) /\ (Undeliverable(r)' <=> Undeliverable(r))
  BY DEF Vanishes, Undeliverable, Discord
<1>5. CopiesPaidFor'
  BY <1>3 DEF CopiesPaidFor
<1>6. SucceededWasSent'
  BY <1>3, <1>4 DEF SucceededWasSent
<1>7. AttemptsPaidFor'
  <2>1. SUFFICES ASSUME NEW r \in Row, ~ Undeliverable(r), status'[r] # "COMPLETED"
                 PROVE  FailedAttempts(r)' <= failures
    BY <1>4 DEF AttemptsPaidFor
  <2>2. retries[r] \in Nat /\ failures \in Nat
    BY Numbers
  <2>3. status[r] # "COMPLETED" /\ FailedAttempts(r) <= failures
    BY <2>1 DEF AttemptsPaidFor, BatchOpen
  <2>4. r \in batch => result[r] = "FAILED"
    BY <2>1 DEF TypeOK
  <2>5. QED
    BY <2>2, <2>3, <2>4 DEF FailedAttempts
<1>8. QED
  BY <1>1, <1>2, <1>5, <1>6, <1>7

(* An abandoned batch forgets its outcomes; the failure pays for the copy  *)
(* of each row that was sent.                                              *)
LEMMA AbandonInd ==
  ASSUME IndInv, Abandon
  PROVE  IndInv'
<1> USE DEF IndInv, Abandon, EndBatch, publishVars, rowVars
<1>1. TypeOK'
  BY DEF TypeOK
<1>2. BatchOpen'
  BY DEF BatchOpen
<1>3. \A r \in Row : (Vanishes(r)' <=> Vanishes(r)) /\ (Undeliverable(r)' <=> Undeliverable(r))
  BY DEF Vanishes, Undeliverable, Discord
<1>4. CopiesPaidFor'
  <2>1. \A r \in Row : sent[r] <= failures + 1 /\ sent[r] \in Nat /\ failures \in Nat
    BY Numbers DEF CopiesPaidFor
  <2>2. \A r \in Row : sent'[r] <= IF Succeeded(r)' THEN 1 + failures' ELSE failures'
    BY <2>1
  <2>3. QED
    BY <2>2 DEF CopiesPaidFor
<1>5. SucceededWasSent'
  BY <1>3 DEF SucceededWasSent, Succeeded
<1>6. AttemptsPaidFor'
  <2>1. SUFFICES ASSUME NEW r \in Row, ~ Undeliverable(r), status[r] # "COMPLETED"
                 PROVE  FailedAttempts(r)' <= failures'
    BY <1>3 DEF AttemptsPaidFor
  <2>2. retries[r] \in Nat /\ failures \in Nat /\ FailedAttempts(r) <= failures
    BY <2>1, Numbers DEF AttemptsPaidFor
  <2>3. FailedAttempts(r)' = retries[r]
    BY <2>2 DEF FailedAttempts
  <2>4. QED
    BY <2>2, <2>3 DEF FailedAttempts
<1>7. QED
  BY <1>1, <1>2, <1>4, <1>5, <1>6

(* Every step preserves the inductive invariant.                           *)
LEMMA NextInd ==
  ASSUME IndInv, [Next]_vars
  PROVE  IndInv'
<1>1. CASE UNCHANGED vars
  BY <1>1 DEF vars, publishVars, rowVars, pollerVars, IndInv, TypeOK, BatchOpen, CopiesPaidFor,
     SucceededWasSent, AttemptsPaidFor, Succeeded, FailedAttempts, Vanishes, Undeliverable, Discord
<1>2. CASE Next
  BY <1>2, PublisherInd, FetchInd, EmitInd, UpdateInd, AbandonInd DEF Next
<1>3. QED
  BY <1>1, <1>2

(* The inductive invariant holds in every reachable state.                 *)
THEOREM Inductive == Spec => []IndInv
<1>1. Init => IndInv
  BY InitInd
<1>2. IndInv /\ [Next]_vars => IndInv'
  BY NextInd
<1>3. QED
  BY <1>1, <1>2, PTL DEF Spec

(* Every reachable state is type-correct: no row is attempted, with an     *)
(* outcome written, more often than max_retries allows.                    *)
THEOREM TypeCorrect == Spec => []TypeOK
<1>1. IndInv => TypeOK
  BY DEF IndInv
<1>2. QED
  BY <1>1, Inductive, PTL

(* A committed notice is delivered at most once more than there were       *)
(* failures, and a notice that was not committed is never delivered.       *)
THEOREM CopiesFew == Spec => []CopiesBounded
<1>1. IndInv => CopiesBounded
  BY DEF IndInv, CopiesBounded, CopiesPaidFor, TypeOK
<1>2. QED
  BY <1>1, Inductive, PTL

(* A row marked COMPLETED was delivered, or goes to a Discord channel the  *)
(* client does not know.                                                   *)
THEOREM CompletedMeansDelivered == Spec => []CompletedUnlessUnknown
<1>1. IndInv => CompletedUnlessUnknown
  BY DEF IndInv, CompletedUnlessUnknown, SucceededWasSent, Succeeded
<1>2. QED
  BY <1>1, Inductive, PTL

(* A row that could be sent is given up only after as many failures as it  *)
(* has retries.                                                            *)
THEOREM NothingGivenUpLightly == Spec => []GivenUpForCause
<1>1. IndInv => GivenUpForCause
  <2>1. SUFFICES ASSUME IndInv, NEW r \in Row, status[r] = "FAILED", retries[r] = MaxRetries,
                        ~ Undeliverable(r)
                 PROVE  failures >= MaxRetries
    BY DEF GivenUpForCause
  <2>2. retries[r] \in Nat /\ failures \in Nat /\ FailedAttempts(r) <= failures
    BY <2>1, Numbers DEF IndInv, AttemptsPaidFor
  <2>3. QED
    BY <2>1, <2>2 DEF FailedAttempts
<1>2. QED
  BY <1>1, Inductive, PTL

-----------------------------------------------------------------------------
(* The poller implements AtLeastOnce.                                      *)

LEMMA InitRefines == Init => Stage!Init
BY DEF Init, Stage!Init, Owed

(* Whether a row vanishes is a matter of constants.                        *)
LEMMA VanishesStays == ASSUME NEW r \in Row PROVE Vanishes(r)' <=> Vanishes(r)
BY DEF Vanishes, Undeliverable, Discord

(* The commit of a notice is the acceptance of its rows, in a transaction  *)
(* of the caller's or in one of its own.                                   *)
LEMMA PublisherRefines ==
  ASSUME IndInv, NEW n \in Notice, Publish(n) \/ CommitTx(n) \/ RollbackTx(n)
  PROVE  Stage!Next \/ UNCHANGED Stage!vars
<1> USE DEF IndInv, Publish, CommitTx, RollbackTx, rowVars, pollerVars
<1>1. UNCHANGED <<status, sent>>
  OBVIOUS
<1>2. \A r \in Row : phase[r[1]] = "stored" => phase'[r[1]] = "stored"
  BY DEF TypeOK
<1>3. \A r \in Row : status[r] = "COMPLETED" => sent[r] > 0 \/ Vanishes(r)
  BY DEF SucceededWasSent, Succeeded
<1>4. \A r \in Row : sent[r] > 0 => phase[r[1]] = "stored"
  BY DEF CopiesPaidFor, TypeOK
<1>5. PICK new \in SUBSET Row : new = Owed'
  BY DEF Owed
<1>6. Owed' = Owed \cup new
  BY <1>2, <1>5, VanishesStays DEF Owed
<1>7. {r \in Owed : status[r] = "COMPLETED"}' = {r \in Owed : status[r] = "COMPLETED"}
  BY <1>1, <1>2, <1>3, <1>4, VanishesStays DEF Owed
<1>8. Stage!Accept(new)
  BY <1>1, <1>6, <1>7 DEF Stage!Accept
<1>9. QED
  BY <1>8 DEF Stage!Next

(* A copy hands its row on: on success, or before the send timed out.      *)
LEMMA EmitRefines ==
  ASSUME IndInv, NEW r \in Row, Emit(r) \/ TimeOut(r)
  PROVE  Stage!Next \/ UNCHANGED Stage!vars
<1> USE DEF IndInv, Emit, Reject, Vanish, Deliver, TimeOut, Waiting, Outcome, rowVars, publishVars
<1>1. UNCHANGED <<status, phase>>
  OBVIOUS
<1>2. Owed' = Owed /\ UNCHANGED {q \in Owed : status[q] = "COMPLETED"}
  BY <1>1, VanishesStays DEF Owed
<1>3. CASE sent' = sent
  BY <1>2, <1>3 DEF Stage!vars
<1>4. CASE sent' # sent
  <2>1. r \in Owed
    BY <1>4 DEF BatchOpen, TypeOK, Owed
  <2>2. sent' = [sent EXCEPT ![r] = @ + 1]
    BY <1>4, Numbers DEF TypeOK
  <2>3. sent' = [q \in Row |-> IF q \in {r} THEN sent[q] + 1 ELSE sent[q]]
    BY <2>2 DEF TypeOK
  <2>4. Stage!HandOn({r}, {})
    BY <1>2, <2>1, <2>3 DEF Stage!HandOn
  <2>5. QED
    BY <2>4 DEF Stage!Next
<1>5. QED
  BY <1>3, <1>4

(* The bulk update settles the rows whose send succeeded and takes no      *)
(* COMPLETED back.                                                         *)
LEMMA UpdateRefines ==
  ASSUME IndInv, Update
  PROVE  Stage!Next
<1> USE DEF IndInv, Update, EndBatch, Written, publishVars
<1>0. PICK done \in SUBSET Row : done = {r \in batch \cap Owed : result[r] = "COMPLETED"}
  BY DEF TypeOK
<1>1. done \subseteq Owed
  BY <1>0
<1>2. sent' = [r \in Row |-> IF r \in {} THEN sent[r] + 1 ELSE sent[r]]
  BY DEF TypeOK
<1>3. \A r \in done : sent'[r] >= 1
  BY <1>0, Numbers DEF SucceededWasSent, Succeeded, Owed
<1>4. Owed' = Owed
  BY VanishesStays DEF Owed
<1>5. {r \in Owed : status[r] = "COMPLETED"}' = {r \in Owed : status[r] = "COMPLETED"} \cup done
  BY <1>0, <1>4 DEF BatchOpen, Owed
<1>6. Stage!HandOn({}, done)
  BY <1>1, <1>2, <1>3, <1>4, <1>5 DEF Stage!HandOn
<1>7. QED
  BY <1>6 DEF Stage!Next

(* IsAtLeastOnce: every step of the poller is a step of the stage, or none *)
(* of its business.                                                        *)
THEOREM ImplementsAtLeastOnce == Spec => IsAtLeastOnce
<1>1. Init => Stage!Init
  BY InitRefines
<1>2. IndInv /\ [Next]_vars => [Stage!Next]_(Stage!vars)
  <2>1. SUFFICES ASSUME IndInv, [Next]_vars PROVE Stage!Next \/ UNCHANGED Stage!vars
    OBVIOUS
  <2> DEFINE Goal == Stage!Next \/ UNCHANGED Stage!vars
  <2>2. CASE Fetch \/ Abandon \/ UNCHANGED vars
    <3>1. UNCHANGED <<phase, status, sent>>
      BY <2>2 DEF Fetch, Abandon, vars, publishVars, rowVars
    <3>2. QED
      BY <3>1, VanishesStays DEF Stage!vars, Owed
  <2> HIDE DEF Goal
  <2>3. Goal
    BY <2>1, <2>2, PublisherRefines, EmitRefines, UpdateRefines DEF Next, Goal
  <2>4. QED
    BY <2>3 DEF Goal
<1>3. QED
  BY <1>1, <1>2, Inductive, PTL DEF Spec, IsAtLeastOnce, Stage!Spec
=============================================================================
