-------------------------- MODULE EthListenerProofs --------------------------
(***************************************************************************)
(* Proofs about EthListener, for every set of payments, every window and   *)
(* any number of blocks and crashes.  The properties of EthListener are    *)
(* not inductive: whether a range is recorded when its transaction commits *)
(* depends on what the worker holds in its local variables.  IndInv adds   *)
(* that.                                                                   *)
(***************************************************************************)
EXTENDS EthListener, TLAPS

(* What the worker's local variables say in each of its phases.            *)
LocalState ==
  /\ pc \in {"down", "poll", "fetch"} => staged = {} /\ todo = {}
  /\ pc \in {"recover", "fetch", "process"} => ethBlocks # <<>>
  /\ pc = "poll" /\ onChain => ethBlocks = <<>> /\ fromBlock \in 1 .. head
  /\ pc = "poll" /\ ~onChain =>
       /\ ethBlocks # <<>>
       /\ fromBlock \in LatestBlock.from .. LatestBlock.to
  /\ staged \subseteq listed

(* Ranges lie on the chain, so the logs in them never change.              *)
RangesOnChain ==
  /\ head >= 1
  /\ \A p \in Payment : minedIn[p] <= head
  /\ \A i \in DOMAIN ethBlocks :
       /\ 1 <= ethBlocks[i].from
       /\ ethBlocks[i].from <= ethBlocks[i].to
       /\ ethBlocks[i].to <= head

(* While the loop waits, the newest range is finished too.                 *)
WaitingIsFinished ==
  pc = "poll" => \A i \in DOMAIN ethBlocks : ethBlocks[i].completed

(* A log of the range in work is still to be processed or already staged.  *)
NothingDropped ==
  pc \in {"recover", "process"} =>
    LogsIn(LatestBlock) \cap listed \subseteq todo \cup staged

IndInv ==
  /\ TypeOK
  /\ LocalState
  /\ RangesOnChain
  /\ WaitingIsFinished
  /\ OnlyLatestUnfinished
  /\ NothingDropped
  /\ CompletedRangesRecorded
  /\ CheckpointsLeaveNoGap
  /\ RowsMatchEvents

(* Init establishes the inductive invariant.                               *)
LEMMA InitInd == Init => IndInv
<1>1. SUFFICES ASSUME Init PROVE IndInv
  OBVIOUS
<1>2. ethBlocks = <<>> /\ DOMAIN ethBlocks = {} /\ ethBlocks \in Seq(BlockRange)
  BY <1>1 DEF Init
<1>3. TypeOK
  BY <1>1, <1>2 DEF Init, TypeOK
<1>4. QED
  BY <1>1, <1>2, <1>3 DEF Init, IndInv, LocalState, RangesOnChain, WaitingIsFinished,
     OnlyLatestUnfinished, NothingDropped, CompletedRangesRecorded,
     CheckpointsLeaveNoGap, RowsMatchEvents

(* The table is a sequence of ranges, and the newest checkpoint its last.  *)
LEMMA TableFacts ==
  ASSUME TypeOK
  PROVE  /\ Len(ethBlocks) \in Nat
         /\ DOMAIN ethBlocks = 1 .. Len(ethBlocks)
         /\ \A i \in DOMAIN ethBlocks : /\ ethBlocks[i] \in BlockRange
                                       /\ ethBlocks[i].from \in Nat
                                       /\ ethBlocks[i].to \in Nat
                                       /\ ethBlocks[i].completed \in BOOLEAN
         /\ ethBlocks # <<>> => Len(ethBlocks) \in DOMAIN ethBlocks
<1>1. ethBlocks \in Seq(BlockRange)
  BY DEF TypeOK
<1>2. /\ Len(ethBlocks) \in Nat
      /\ DOMAIN ethBlocks = 1 .. Len(ethBlocks)
      /\ \A i \in DOMAIN ethBlocks : ethBlocks[i] \in BlockRange
      /\ ethBlocks # <<>> => Len(ethBlocks) \in DOMAIN ethBlocks
  BY <1>1
<1>3. \A r \in BlockRange : r.from \in Nat /\ r.to \in Nat /\ r.completed \in BOOLEAN
  BY DEF BlockRange
<1>4. QED
  BY <1>2, <1>3

(* A block added to the chain lies above every range.                      *)
LEMMA MineInd ==
  ASSUME IndInv, NEW ps \in SUBSET Payment, Mine(ps)
  PROVE  IndInv'
<1> USE DEF IndInv, Mine, dbVars, localVars
<1>1. TypeOK'
  BY DEF TypeOK
<1>2. \A i \in DOMAIN ethBlocks : LogsIn(ethBlocks[i])' = LogsIn(ethBlocks[i])
  <2>1. TAKE i \in DOMAIN ethBlocks
  <2>2. /\ ethBlocks[i].from \in Nat /\ ethBlocks[i].to \in Nat
        /\ 1 <= ethBlocks[i].from /\ ethBlocks[i].to <= head
    BY TableFacts DEF RangesOnChain
  <2>3. \A p \in Payment : minedIn'[p] \in ethBlocks[i].from .. ethBlocks[i].to
                             <=> minedIn[p] \in ethBlocks[i].from .. ethBlocks[i].to
    BY <2>2 DEF TypeOK
  <2>4. QED
    BY <2>3 DEF LogsIn
<1>3. RangesOnChain'
  BY TableFacts DEF RangesOnChain, TypeOK
<1>4. LocalState'
  BY DEF LocalState, LatestBlock, TypeOK
<1>5. NothingDropped'
  BY <1>2, TableFacts DEF NothingDropped, LatestBlock, LocalState
<1>6. CompletedRangesRecorded'
  <2>1. SUFFICES ASSUME NEW i \in DOMAIN ethBlocks, ethBlocks[i].completed, NEW p \in listed,
                        minedIn'[p] \in ethBlocks[i].from .. ethBlocks[i].to
                 PROVE  events[p] >= 1
    BY DEF CompletedRangesRecorded
  <2>2. p \in Payment /\ p \in LogsIn(ethBlocks[i])'
    BY <2>1 DEF TypeOK, LogsIn
  <2>3. p \in LogsIn(ethBlocks[i])
    BY <2>2, <1>2
  <2>4. QED
    BY <2>1, <2>3 DEF CompletedRangesRecorded, LogsIn
<1>7. (WaitingIsFinished /\ OnlyLatestUnfinished /\ CheckpointsLeaveNoGap
         /\ RowsMatchEvents)'
  BY DEF WaitingIsFinished, OnlyLatestUnfinished, CheckpointsLeaveNoGap, Covered,
         LatestBlock, RowsMatchEvents
<1>8. QED
  BY <1>1, <1>3, <1>4, <1>5, <1>6, <1>7

(* A deletion only takes payments out of what must be recorded.            *)
LEMMA DelistInd ==
  ASSUME IndInv, NEW p \in Payment, Delist(p)
  PROVE  IndInv'
<1> USE DEF IndInv, Delist, chainVars, localVars
<1>1. TypeOK'
  BY DEF TypeOK
<1>2. LocalState'
  BY DEF LocalState, LatestBlock
<1>3. NothingDropped' /\ CompletedRangesRecorded'
  BY DEF NothingDropped, CompletedRangesRecorded, LogsIn, LatestBlock
<1>4. RowsMatchEvents'
  BY DEF RowsMatchEvents, TypeOK
<1>5. (RangesOnChain /\ WaitingIsFinished /\ OnlyLatestUnfinished
         /\ CheckpointsLeaveNoGap)'
  BY DEF RangesOnChain, WaitingIsFinished, OnlyLatestUnfinished,
         CheckpointsLeaveNoGap, Covered, LatestBlock
<1>6. QED
  BY <1>1, <1>2, <1>3, <1>4, <1>5

(* Steps that leave the tables, the chain and the catalogue alone keep all *)
(* of the invariant that does not speak of the worker's local variables.   *)
LEMMA LocalStepInd ==
  ASSUME IndInv, TypeOK', LocalState', WaitingIsFinished', NothingDropped',
         UNCHANGED <<chainVars, listed, dbVars>>
  PROVE  IndInv'
BY DEF IndInv, chainVars, dbVars, RangesOnChain, OnlyLatestUnfinished,
       CompletedRangesRecorded, LogsIn, CheckpointsLeaveNoGap, Covered, LatestBlock,
       RowsMatchEvents

LEMMA BootFreshInd ==
  ASSUME IndInv, BootFresh
  PROVE  IndInv'
<1> USE DEF IndInv, BootFresh, ScanStart, chainVars, dbVars
<1>1. TypeOK'
  BY DEF TypeOK
<1>2. LocalState'
  BY DEF LocalState, RangesOnChain, TypeOK
<1>3. WaitingIsFinished' /\ NothingDropped'
  BY TableFacts DEF WaitingIsFinished, NothingDropped
<1>4. QED
  BY <1>1, <1>2, <1>3, LocalStepInd

(* The restart takes every log of the newest range into todo.              *)
LEMMA BootResumeInd ==
  ASSUME IndInv, BootResume
  PROVE  IndInv'
<1> USE DEF IndInv, BootResume, chainVars, dbVars
<1>1. TypeOK'
  BY DEF TypeOK, LogsIn
<1>2. LocalState'
  BY DEF LocalState
<1>3. WaitingIsFinished' /\ NothingDropped'
  BY DEF WaitingIsFinished, NothingDropped, LogsIn, LatestBlock
<1>4. QED
  BY <1>1, <1>2, <1>3, LocalStepInd

LEMMA FetchInd ==
  ASSUME IndInv, Fetch
  PROVE  IndInv'
<1> USE DEF IndInv, Fetch, chainVars, dbVars
<1>1. TypeOK'
  BY DEF TypeOK, LogsIn
<1>2. LocalState'
  BY DEF LocalState
<1>3. WaitingIsFinished' /\ NothingDropped'
  BY DEF WaitingIsFinished, NothingDropped, LogsIn, LatestBlock
<1>4. QED
  BY <1>1, <1>2, <1>3, LocalStepInd

(* A log leaves todo for staged, or because its product is gone.           *)
LEMMA ProcessEventInd ==
  ASSUME IndInv, NEW p \in Payment, ProcessEvent(p)
  PROVE  IndInv'
<1> USE DEF IndInv, ProcessEvent, chainVars, dbVars
<1>1. TypeOK'
  BY DEF TypeOK
<1>2. LocalState'
  BY DEF LocalState
<1>3. WaitingIsFinished' /\ NothingDropped'
  BY DEF WaitingIsFinished, NothingDropped, LogsIn, LatestBlock
<1>4. QED
  BY <1>1, <1>2, <1>3, LocalStepInd

LEMMA CrashInd ==
  ASSUME IndInv, Crash
  PROVE  IndInv'
<1> USE DEF IndInv, Crash, chainVars, dbVars
<1>1. TypeOK'
  <2>1. crashes' \in Nat
    BY DEF TypeOK
  <2>2. QED
    BY <2>1 DEF TypeOK
<1>2. LocalState'
  BY DEF LocalState
<1>3. WaitingIsFinished' /\ NothingDropped'
  BY DEF WaitingIsFinished, NothingDropped
<1>4. QED
  BY <1>1, <1>2, <1>3, LocalStepInd

(* A new checkpoint starts right above, or inside, the newest one.         *)
LEMMA CheckpointInd ==
  ASSUME IndInv, Checkpoint
  PROVE  IndInv'
<1> USE DEF IndInv
<1> DEFINE n == Len(ethBlocks)
           to == ToBlock
           row == [from |-> StartBlock, to |-> to, completed |-> FALSE]
<1>1. /\ pc = "poll" /\ pc' = "fetch" /\ head > fromBlock
      /\ ethBlocks' = Append(ethBlocks, row)
      /\ UNCHANGED <<chainVars, listed, transactions, events, fromBlock, onChain,
                     todo, staged, crashes>>
  BY DEF Checkpoint, NewBlocks
<1>2. /\ fromBlock \in Nat /\ head \in Nat /\ Window \in Nat \ {0}
      /\ onChain \in BOOLEAN
  BY ListenerAssumption DEF TypeOK
<1>3. /\ row \in BlockRange /\ to \in Nat
      /\ row.from \in Nat /\ row.to = to /\ row.completed = FALSE
      /\ row.from = (IF onChain THEN fromBlock ELSE fromBlock + 1)
      /\ to > fromBlock /\ to <= head
  BY <1>1, <1>2 DEF BlockRange, StartBlock, ToBlock
<1> HIDE DEF row, to
<1>4. /\ n \in Nat /\ ethBlocks' \in Seq(BlockRange)
      /\ Len(ethBlocks') = n + 1 /\ DOMAIN ethBlocks' = 1 .. n + 1
      /\ \A i \in DOMAIN ethBlocks : i \in 1 .. n /\ ethBlocks'[i] = ethBlocks[i]
      /\ ethBlocks'[n + 1] = row /\ ethBlocks' # <<>>
      /\ DOMAIN ethBlocks = 1 .. n
  BY <1>1, <1>3, TableFacts DEF TypeOK
<1>5. TypeOK'
  BY <1>1, <1>4 DEF TypeOK, chainVars
<1>6. LocalState'
  BY <1>1, <1>4 DEF LocalState
<1>7. row.from >= 1
  BY <1>1, <1>2, <1>3 DEF LocalState
<1>8. RangesOnChain'
  BY <1>1, <1>2, <1>3, <1>4, <1>7 DEF RangesOnChain, chainVars
<1>9. OnlyLatestUnfinished'
  <2>1. \A i \in 1 .. n : ethBlocks'[i].completed
    BY <1>1, <1>4 DEF WaitingIsFinished
  <2>2. QED
    BY <2>1, <1>4 DEF OnlyLatestUnfinished
<1>10. CompletedRangesRecorded'
  BY <1>1, <1>3, <1>4 DEF CompletedRangesRecorded, chainVars
<1>11. CheckpointsLeaveNoGap'
  <2>1. LatestBlock' = row
    BY <1>4 DEF LatestBlock
  <2>2. SUFFICES ASSUME NEW b \in ethBlocks'[1].from .. to
                 PROVE  Covered(b)'
    BY <1>3, <2>1 DEF CheckpointsLeaveNoGap
  <2>3. CASE n = 0
    BY <2>3, <1>3, <1>4 DEF Covered
  <2>4. CASE n > 0
    <3>1. ethBlocks # <<>> /\ 1 \in DOMAIN ethBlocks /\ n \in DOMAIN ethBlocks
      BY <2>4, <1>4
    <3>2. ethBlocks'[1] = ethBlocks[1] /\ ethBlocks[1].from \in Nat
          /\ ethBlocks[n].from \in Nat /\ ethBlocks[n].to \in Nat
      BY <3>1, <1>4, TableFacts
    <3>3. ~onChain /\ fromBlock \in ethBlocks[n].from .. ethBlocks[n].to
      BY <3>1, <1>1, <1>2 DEF LocalState, LatestBlock
    <3>4. CASE b <= ethBlocks[n].to
      <4>1. Covered(b)
        BY <3>1, <3>2, <3>4, <1>3 DEF CheckpointsLeaveNoGap, LatestBlock
      <4>2. QED
        BY <4>1, <1>4 DEF Covered
    <3>5. CASE b > ethBlocks[n].to
      <4>1. b \in row.from .. row.to
        BY <3>2, <3>3, <3>5, <1>2, <1>3
      <4>2. QED
        BY <4>1, <1>4 DEF Covered
    <3>6. QED
      BY <3>2, <3>4, <3>5, <1>3
  <2>5. QED
    BY <2>3, <2>4, <1>4
<1>12. (WaitingIsFinished /\ NothingDropped /\ RowsMatchEvents)'
  BY <1>1 DEF WaitingIsFinished, NothingDropped, RowsMatchEvents
<1>13. QED
  BY <1>5, <1>6, <1>8, <1>9, <1>10, <1>11, <1>12

(* When the transaction of a range commits, todo is empty, so every log of *)
(* the range whose product is still on sale is staged.                     *)
LEMMA CommitInd ==
  ASSUME IndInv, CommitRange, pc \in {"recover", "process"},
         fromBlock' \in {LatestBlock.from, LatestBlock.to}
  PROVE  IndInv'
<1> USE DEF IndInv
<1> DEFINE n == Len(ethBlocks)
<1>1. /\ ethBlocks # <<>> /\ n \in DOMAIN ethBlocks /\ n \in Nat \ {0}
      /\ DOMAIN ethBlocks = 1 .. n
      /\ LatestBlock.from \in Nat /\ LatestBlock.to \in Nat
      /\ LatestBlock.from <= LatestBlock.to
  BY TableFacts DEF LocalState, RangesOnChain, LatestBlock
<1>2. ethBlocks' = [ethBlocks EXCEPT ![n].completed = TRUE]
  BY DEF CommitRange
<1>3. [ethBlocks[n] EXCEPT !.completed = TRUE] \in BlockRange
  BY <1>1, TableFacts DEF BlockRange
<1>4. /\ ethBlocks' \in Seq(BlockRange)
      /\ Len(ethBlocks') = n /\ DOMAIN ethBlocks' = 1 .. n /\ ethBlocks' # <<>>
      /\ \A i \in 1 .. n : i # n => ethBlocks'[i] = ethBlocks[i]
      /\ ethBlocks'[n] = [ethBlocks[n] EXCEPT !.completed = TRUE]
  BY <1>1, <1>2, <1>3 DEF TypeOK
<1>5. \A i \in 1 .. n : /\ ethBlocks'[i].from = ethBlocks[i].from
                        /\ ethBlocks'[i].to = ethBlocks[i].to
  BY <1>1, <1>4, TableFacts DEF BlockRange
<1>6. ethBlocks'[n].completed = TRUE
  BY <1>1, <1>4, TableFacts DEF BlockRange
<1>7. /\ \A i \in 1 .. n : i # n => ethBlocks[i].completed
      /\ \A i \in 1 .. n : ethBlocks'[i].completed
  <2>0. \A m \in Nat : \A i \in 1 .. m : i # m => i < m
    OBVIOUS
  <2>1. \A i \in 1 .. n : i # n => i \in DOMAIN ethBlocks /\ i < n
    BY <1>1, <2>0
  <2>2. \A i \in 1 .. n : i # n => ethBlocks[i].completed
    BY <2>1 DEF OnlyLatestUnfinished
  <2>3. QED
    BY <2>2, <1>4, <1>6
<1>8. TypeOK'
  <2>1. transactions' \in [Payment -> Nat] /\ events' \in [Payment -> Nat]
    BY DEF TypeOK, CommitRange
  <2>2. fromBlock' \in Nat
    BY <1>1
  <2>3. QED
    BY <2>1, <2>2, <1>4 DEF TypeOK, CommitRange, chainVars
<1>9. LatestBlock'.from = LatestBlock.from /\ LatestBlock'.to = LatestBlock.to
  BY <1>1, <1>4, <1>5 DEF LatestBlock
<1>10. LocalState'
  BY <1>1, <1>4, <1>9 DEF LocalState, CommitRange
<1>11. RangesOnChain'
  BY <1>1, <1>4, <1>5 DEF RangesOnChain, CommitRange, chainVars
<1>12. (WaitingIsFinished /\ OnlyLatestUnfinished /\ NothingDropped)'
  BY <1>4, <1>7 DEF WaitingIsFinished, OnlyLatestUnfinished, NothingDropped, CommitRange
<1>13. \A p \in Payment : events'[p] = (IF p \in staged THEN events[p] + 1 ELSE events[p])
  BY DEF CommitRange
<1>14. CompletedRangesRecorded'
  <2>1. SUFFICES ASSUME NEW i \in 1 .. n, NEW p \in listed,
                        minedIn[p] \in ethBlocks[i].from .. ethBlocks[i].to
                 PROVE  events'[p] >= 1
    BY <1>4, <1>5 DEF CompletedRangesRecorded, CommitRange, chainVars
  <2>2. p \in Payment /\ events[p] \in Nat /\ p \in LogsIn(ethBlocks[i])
    BY <2>1 DEF TypeOK, LogsIn
  <2>3. CASE i = n
    <3>1. p \in LogsIn(LatestBlock) \cap listed
      BY <2>1, <2>2, <2>3 DEF LatestBlock
    <3>2. p \in staged
      BY <3>1 DEF NothingDropped, CommitRange
    <3>3. QED
      BY <3>2, <2>2, <1>13
  <2>4. CASE i # n
    <3>1. events[p] >= 1
      BY <2>1, <2>4, <1>1, <1>7 DEF CompletedRangesRecorded
    <3>2. QED
      BY <3>1, <2>2, <1>13
  <2>5. QED
    BY <2>3, <2>4
<1>15. CheckpointsLeaveNoGap'
  <2>1. \A b : Covered(b)' <=> Covered(b)
    BY <1>1, <1>4, <1>5 DEF Covered
  <2>2. ethBlocks'[1].from = ethBlocks[1].from
    BY <1>1, <1>5
  <2>3. QED
    BY <2>1, <2>2, <1>1, <1>9 DEF CheckpointsLeaveNoGap
<1>16. RowsMatchEvents'
  BY DEF RowsMatchEvents, CommitRange, TypeOK
<1>17. QED
  BY <1>8, <1>10, <1>11, <1>12, <1>14, <1>15, <1>16

LEMMA StutterInd ==
  ASSUME IndInv, UNCHANGED vars
  PROVE  IndInv'
BY LocalStepInd DEF vars, chainVars, dbVars, localVars, IndInv, TypeOK, LocalState,
   WaitingIsFinished, NothingDropped, LogsIn, LatestBlock

(* The inductive invariant holds in every reachable state.                 *)
THEOREM Inductive == Spec => []IndInv
<1>1. IndInv /\ [Next]_vars => IndInv'
  <2>1. SUFFICES ASSUME IndInv, [Next]_vars PROVE IndInv'
    OBVIOUS
  <2>2. CASE \E ps \in SUBSET Payment : Mine(ps)
    BY <2>1, <2>2, MineInd
  <2>3. CASE \E p \in Payment : Delist(p)
    BY <2>1, <2>3, DelistInd
  <2>4. CASE BootFresh
    BY <2>1, <2>4, BootFreshInd
  <2>5. CASE BootResume
    BY <2>1, <2>5, BootResumeInd
  <2>6. CASE Checkpoint
    BY <2>1, <2>6, CheckpointInd
  <2>7. CASE Fetch
    BY <2>1, <2>7, FetchInd
  <2>8. CASE \E p \in Payment : ProcessEvent(p)
    BY <2>1, <2>8, ProcessEventInd
  <2>9. CASE CommitRecovered
    BY <2>1, <2>9, CommitInd DEF CommitRecovered
  <2>10. CASE CommitScanned
    BY <2>1, <2>10, CommitInd DEF CommitScanned, LastBlock
  <2>11. CASE Crash
    BY <2>1, <2>11, CrashInd
  <2>12. CASE UNCHANGED vars
    BY <2>1, <2>12, StutterInd
  <2>13. QED
    BY <2>1, <2>2, <2>3, <2>4, <2>5, <2>6, <2>7, <2>8, <2>9, <2>10, <2>11, <2>12
       DEF Next
<1>2. QED
  BY InitInd, <1>1, PTL DEF Spec

(* Type correctness of the listener.                                       *)
THEOREM TypeCorrect == Spec => []TypeOK
<1>1. IndInv => TypeOK
  BY DEF IndInv
<1>2. QED
  BY Inductive, <1>1, PTL

(* From the first checkpointed block on, no block is ever skipped.         *)
THEOREM NoGap == Spec => []CheckpointsLeaveNoGap
<1>1. IndInv => CheckpointsLeaveNoGap
  BY DEF IndInv
<1>2. QED
  BY Inductive, <1>1, PTL

(* A completed range has recorded its payments, and only the newest range  *)
(* may be unfinished.                                                      *)
THEOREM CompletedMeansRecorded == Spec => [](CompletedRangesRecorded /\ OnlyLatestUnfinished)
<1>1. IndInv => CompletedRangesRecorded /\ OnlyLatestUnfinished
  BY DEF IndInv
<1>2. QED
  BY Inductive, <1>1, PTL

(* A payment on sale has as many rows as events, whatever crashes.         *)
THEOREM RowAndEventTogether == Spec => []RowsMatchEvents
<1>1. IndInv => RowsMatchEvents
  BY DEF IndInv
<1>2. QED
  BY Inductive, <1>1, PTL

(* The listener loses no payment: the ranges leave no gap, all of them are *)
(* finished while it waits, and a finished range is recorded.              *)
THEOREM NothingLost == Spec => []NoPaymentLost
<1>1. IndInv => NoPaymentLost
  <2>1. SUFFICES ASSUME IndInv, pc = "poll", ethBlocks # <<>>, NEW p \in listed,
                        minedIn[p] \in ethBlocks[1].from .. fromBlock
                 PROVE  events[p] >= 1
    BY DEF NoPaymentLost
  <2>2. p \in Payment /\ minedIn[p] \in Nat
    BY <2>1 DEF IndInv, TypeOK
  <2>3. fromBlock <= LatestBlock.to /\ fromBlock \in Nat /\ LatestBlock.to \in Nat
    BY <2>1, TableFacts DEF IndInv, LocalState, TypeOK, LatestBlock
  <2>4. minedIn[p] \in ethBlocks[1].from .. LatestBlock.to
    BY <2>1, <2>2, <2>3
  <2>5. PICK i \in DOMAIN ethBlocks : minedIn[p] \in ethBlocks[i].from .. ethBlocks[i].to
    BY <2>1, <2>4 DEF IndInv, CheckpointsLeaveNoGap, Covered
  <2>6. ethBlocks[i].completed
    BY <2>1, <2>5 DEF IndInv, WaitingIsFinished
  <2>7. QED
    BY <2>1, <2>5, <2>6 DEF IndInv, CompletedRangesRecorded
<1>2. QED
  BY Inductive, <1>1, PTL

-----------------------------------------------------------------------------
(* The bound on duplicates.  Each phase has its own bound: a payment that  *)
(* the newest range is about to record again has one recording less.       *)

(* Ranges never shrink below the newest one, and nothing above it has been *)
(* recorded; what is in work lies in it.                                   *)
Frontier ==
  /\ ethBlocks # <<>> => LatestBlock.to <= LatestBlock.from + Window
  /\ \A p \in Payment :
       (ethBlocks = <<>> \/ minedIn[p] = 0 \/ minedIn[p] > LatestBlock.to) => events[p] = 0
  /\ pc \in {"recover", "process"} => todo \cup staged \subseteq LogsIn(LatestBlock)

RecordedPerPhase ==
  /\ pc = "down" /\ crashes = 0 => ethBlocks = <<>>
  /\ pc = "recover" => crashes > 0
  /\ pc \in {"down", "recover"} =>
       \A p \in Payment : events[p] = 0 \/ events[p] + 1 <= 2 * crashes
  /\ pc = "poll" =>
       \A p \in Payment : /\ events[p] <= 1 + 2 * crashes
                          /\ minedIn[p] > fromBlock => events[p] <= 2 * crashes
  /\ pc \in {"fetch", "process"} =>
       \A p \in Payment : /\ events[p] <= 1 + 2 * crashes
                          /\ p \in LogsIn(LatestBlock) => events[p] <= 2 * crashes

DuplicateInv == Frontier /\ RecordedPerPhase

(* What the counting needs of types.                                       *)
LEMMA CountingTypes ==
  ASSUME IndInv
  PROVE  /\ crashes \in Nat /\ head \in Nat /\ fromBlock \in Nat /\ Window \in Nat \ {0}
         /\ \A p \in Payment : events[p] \in Nat /\ minedIn[p] \in Nat /\ minedIn[p] <= head
         /\ ethBlocks # <<>> =>
              /\ LatestBlock.from \in Nat /\ LatestBlock.to \in Nat
              /\ 1 <= LatestBlock.from /\ LatestBlock.from <= LatestBlock.to
              /\ LatestBlock.to <= head
<1>1. ethBlocks # <<>> => LatestBlock = ethBlocks[Len(ethBlocks)]
                          /\ Len(ethBlocks) \in DOMAIN ethBlocks
  BY TableFacts DEF LatestBlock, IndInv
<1>2. QED
  BY <1>1, TableFacts, ListenerAssumption DEF IndInv, TypeOK, RangesOnChain

LEMMA MineDup ==
  ASSUME IndInv, DuplicateInv, NEW ps \in SUBSET Payment, Mine(ps)
  PROVE  DuplicateInv'
<1> USE DEF DuplicateInv, Mine, dbVars, localVars
<1>1. /\ UNCHANGED <<ethBlocks, transactions, events, pc, fromBlock, todo, staged, crashes>>
      /\ LatestBlock' = LatestBlock
      /\ \A p \in Payment : minedIn'[p] = (IF p \in ps THEN head + 1 ELSE minedIn[p])
      /\ \A p \in ps : minedIn[p] = 0
  BY DEF LatestBlock
<1>2. ethBlocks # <<>> => LogsIn(LatestBlock)' = LogsIn(LatestBlock)
  BY <1>1, CountingTypes DEF LogsIn
<1>3. Frontier'
  BY <1>1, <1>2, CountingTypes DEF Frontier, IndInv, LocalState
<1>4. \A p \in ps : events[p] = 0
  BY <1>1 DEF Frontier
<1>5. RecordedPerPhase'
  BY <1>1, <1>2, <1>4, CountingTypes DEF RecordedPerPhase, IndInv, LocalState
<1>6. QED
  BY <1>3, <1>5

LEMMA LocalDup ==
  ASSUME IndInv, DuplicateInv,
         \/ \E p \in Payment : Delist(p)
         \/ BootFresh \/ BootResume \/ Fetch
         \/ \E p \in Payment : ProcessEvent(p)
         \/ UNCHANGED vars
  PROVE  DuplicateInv'
<1>1. /\ UNCHANGED <<ethBlocks, events, minedIn, crashes, head>>
      /\ LatestBlock' = LatestBlock
      /\ LogsIn(LatestBlock)' = LogsIn(LatestBlock)
  BY DEF Delist, BootFresh, BootResume, Fetch, ProcessEvent, vars, chainVars, dbVars,
         localVars, LatestBlock, LogsIn
<1>2. Frontier'
  BY <1>1 DEF DuplicateInv, Frontier, Delist, BootFresh, BootResume, Fetch, ProcessEvent,
         vars, localVars, IndInv, LocalState, TypeOK
<1>3. CASE \E p \in Payment : Delist(p) \/ ProcessEvent(p)
  BY <1>1, <1>2, <1>3 DEF DuplicateInv, RecordedPerPhase, Delist, ProcessEvent, localVars
<1>4. CASE BootFresh
  BY <1>1, <1>2, <1>4, CountingTypes DEF DuplicateInv, RecordedPerPhase, Frontier, BootFresh, ScanStart
<1>5. CASE BootResume
  BY <1>1, <1>2, <1>5, CountingTypes DEF DuplicateInv, RecordedPerPhase, Frontier, BootResume
<1>6. CASE Fetch \/ UNCHANGED vars
  BY <1>1, <1>2, <1>6 DEF DuplicateInv, RecordedPerPhase, Fetch, vars, localVars
<1>7. QED
  BY <1>3, <1>4, <1>5, <1>6

(* The new range reaches at least as far as the newest one; what it holds  *)
(* lies above from_block or was never recorded.                            *)
LEMMA CheckpointDup ==
  ASSUME IndInv, DuplicateInv, Checkpoint, IndInv'
  PROVE  DuplicateInv'
<1> DEFINE to == ToBlock
           from == StartBlock
<1>1. /\ UNCHANGED <<events, minedIn, crashes, head, todo, staged, fromBlock>>
      /\ pc = "poll" /\ pc' = "fetch" /\ head > fromBlock
      /\ ethBlocks' = Append(ethBlocks, [from |-> from, to |-> to, completed |-> FALSE])
  BY DEF Checkpoint, chainVars, NewBlocks
<1>2. /\ ethBlocks' # <<>>
      /\ LatestBlock'.from = from /\ LatestBlock'.to = to
  <2>1. [from |-> from, to |-> to, completed |-> FALSE] \in BlockRange
    BY CountingTypes DEF BlockRange, StartBlock, ToBlock
  <2>2. /\ Len(ethBlocks') = Len(ethBlocks) + 1 /\ ethBlocks' # <<>>
        /\ ethBlocks'[Len(ethBlocks) + 1] = [from |-> from, to |-> to, completed |-> FALSE]
    <3>1. ethBlocks \in Seq(BlockRange)
      BY DEF IndInv, TypeOK
    <3>2. QED
      BY <3>1, <2>1, <1>1
  <2>3. QED
    BY <2>2 DEF LatestBlock
<1>3. /\ to \in Nat /\ to <= from + Window
      /\ ethBlocks # <<>> => ~onChain /\ to >= LatestBlock.to
  BY <1>1, CountingTypes DEF DuplicateInv, Frontier, IndInv, LocalState, TypeOK,
     StartBlock, ToBlock
<1>4. Frontier'
  BY <1>1, <1>2, <1>3, CountingTypes DEF DuplicateInv, Frontier
<1>5. \A p \in LogsIn(LatestBlock)' : events[p] <= 2 * crashes
  <2>1. SUFFICES ASSUME NEW p \in Payment, minedIn[p] \in from .. to
                 PROVE  events[p] <= 2 * crashes
    BY <1>1, <1>2 DEF LogsIn
  <2>2. CASE onChain
    BY <2>2, <1>1, CountingTypes DEF DuplicateInv, Frontier, IndInv, LocalState, StartBlock
  <2>3. CASE ~onChain
    BY <2>1, <2>3, <1>1, <1>3, CountingTypes DEF DuplicateInv, RecordedPerPhase, StartBlock
  <2>4. QED
    BY <2>2, <2>3
<1>6. RecordedPerPhase'
  BY <1>1, <1>5 DEF DuplicateInv, RecordedPerPhase
<1>7. QED
  BY <1>4, <1>6 DEF DuplicateInv

(* A commit adds one recording to payments of the newest range only.       *)
LEMMA CommitDup ==
  ASSUME IndInv, DuplicateInv, CommitRecovered \/ CommitScanned, IndInv'
  PROVE  DuplicateInv'
<1>1. /\ UNCHANGED <<minedIn, crashes, head>>
      /\ pc' = "poll" /\ ethBlocks # <<>> /\ ethBlocks' # <<>>
      /\ pc \in {"recover", "process"}
      /\ ethBlocks' = [ethBlocks EXCEPT ![Len(ethBlocks)].completed = TRUE]
      /\ \A p \in Payment : events'[p] = (IF p \in staged THEN events[p] + 1 ELSE events[p])
  BY DEF CommitRecovered, CommitScanned, CommitRange, chainVars, IndInv, LocalState, TypeOK
<1>2. LatestBlock'.from = LatestBlock.from /\ LatestBlock'.to = LatestBlock.to
  BY <1>1, TableFacts DEF LatestBlock, IndInv, TypeOK, BlockRange
<1>3. \A p \in staged : p \in Payment /\ minedIn[p] \in LatestBlock.from .. LatestBlock.to
  BY <1>1 DEF DuplicateInv, Frontier, LogsIn
<1>4. Frontier'
  BY <1>1, <1>2, <1>3, CountingTypes DEF DuplicateInv, Frontier
<1>5. CASE pc = "recover"
  <2>1. crashes > 0 /\ \A p \in Payment : events[p] = 0 \/ events[p] + 1 <= 2 * crashes
    BY <1>5 DEF DuplicateInv, RecordedPerPhase
  <2>2. \A p \in Payment : events'[p] <= 2 * crashes
    BY <2>1, <1>1, CountingTypes
  <2>3. \A p \in Payment : events'[p] \in Nat
    BY <1>1, CountingTypes
  <2>4. RecordedPerPhase'
    BY <2>2, <2>3, <1>1, CountingTypes DEF RecordedPerPhase
  <2>5. QED
    BY <2>4, <1>4 DEF DuplicateInv
<1>6. CASE pc = "process"
  <2>1. fromBlock' = LatestBlock.to
    BY <1>6 DEF CommitRecovered, CommitScanned, LastBlock
  <2>2. \A p \in Payment : events'[p] <= 1 + 2 * crashes
    BY <1>1, <1>3, <1>6, CountingTypes DEF DuplicateInv, RecordedPerPhase, LogsIn
  <2>3. \A p \in Payment : minedIn[p] > LatestBlock.to => events'[p] = 0
    BY <1>1, <1>3, CountingTypes DEF DuplicateInv, Frontier
  <2>4. QED
    BY <1>1, <1>4, <2>1, <2>2, <2>3, CountingTypes DEF DuplicateInv, RecordedPerPhase
<1>7. RecordedPerPhase' /\ Frontier'
  BY <1>1, <1>4, <1>5, <1>6 DEF DuplicateInv
<1>8. QED
  BY <1>7 DEF DuplicateInv

(* Every phase implies the overall bound.                                  *)
LEMMA InvBound ==
  ASSUME IndInv, DuplicateInv
  PROVE  \A p \in Payment : events[p] <= 1 + 2 * crashes
<1>1. pc \in {"down", "recover"} \/ pc = "poll" \/ pc \in {"fetch", "process"}
  BY DEF IndInv, TypeOK
<1>2. CASE pc \in {"down", "recover"}
  <2>1. \A p \in Payment : events[p] = 0 \/ events[p] + 1 <= 2 * crashes
    BY <1>2 DEF DuplicateInv, RecordedPerPhase
  <2>2. QED
    BY <2>1, CountingTypes
<1>3. CASE pc = "poll" \/ pc \in {"fetch", "process"}
  BY <1>3 DEF DuplicateInv, RecordedPerPhase
<1>4. QED
  BY <1>1, <1>2, <1>3

LEMMA CrashDup ==
  ASSUME IndInv, DuplicateInv, Crash
  PROVE  DuplicateInv'
<1>1. /\ UNCHANGED <<ethBlocks, events, minedIn, head>>
      /\ crashes' = crashes + 1 /\ pc # "down" /\ pc' = "down"
      /\ LatestBlock' = LatestBlock
  BY DEF Crash, chainVars, dbVars, LatestBlock
<1>2. Frontier'
  BY <1>1 DEF DuplicateInv, Frontier
<1>3. \A p \in Payment : events[p] <= 1 + 2 * crashes
  BY CountingTypes, InvBound
<1>4. RecordedPerPhase'
  BY <1>1, <1>3, CountingTypes DEF RecordedPerPhase
<1>5. QED
  BY <1>2, <1>4 DEF DuplicateInv

(* A payment is recorded at most once, plus twice per crash.               *)
THEOREM DuplicatesBounded == Spec => []DuplicatesBoundedByCrashes
<1>1. Init => DuplicateInv
  BY DEF Init, DuplicateInv, Frontier, RecordedPerPhase
<1>2. IndInv /\ IndInv' /\ DuplicateInv /\ [Next]_vars => DuplicateInv'
  <2>1. SUFFICES ASSUME IndInv, IndInv', DuplicateInv, [Next]_vars
                 PROVE  DuplicateInv'
    OBVIOUS
  <2>2. CASE \E ps \in SUBSET Payment : Mine(ps)
    BY <2>1, <2>2, MineDup
  <2>3. CASE Checkpoint
    BY <2>1, <2>3, CheckpointDup
  <2>4. CASE CommitRecovered \/ CommitScanned
    BY <2>1, <2>4, CommitDup
  <2>5. CASE Crash
    BY <2>1, <2>5, CrashDup
  <2>6. QED
    BY <2>1, <2>2, <2>3, <2>4, <2>5, LocalDup DEF Next
<1>3. IndInv /\ DuplicateInv => DuplicatesBoundedByCrashes
  BY InvBound DEF DuplicatesBoundedByCrashes
<1>4. QED
  BY Inductive, <1>1, <1>2, <1>3, PTL DEF Spec

-----------------------------------------------------------------------------
(* The listener implements AtLeastOnce.                                    *)

(* What the worker holds belongs to the range in work.                     *)
OnlyFromRange ==
  pc \in {"recover", "process"} => todo \cup staged \subseteq LogsIn(LatestBlock)

(* OnlyFromRange is inductive relative to IndInv.                          *)
LEMMA FromRangeInd ==
  ASSUME IndInv, OnlyFromRange, [Next]_vars
  PROVE  OnlyFromRange'
<1> USE DEF OnlyFromRange
<1>1. ASSUME NEW ps \in SUBSET Payment, Mine(ps) PROVE OnlyFromRange'
  <2>1. pc \in {"recover", "process"} => ethBlocks # <<>>
    BY DEF IndInv, LocalState
  <2>2. LatestBlock' = LatestBlock
    BY <1>1 DEF Mine, dbVars, LatestBlock
  <2>3. ASSUME ethBlocks # <<>>, NEW p \in LogsIn(LatestBlock)
        PROVE  p \in LogsIn(LatestBlock)'
    <3>1. LatestBlock.from \in Nat /\ LatestBlock.to \in Nat /\ LatestBlock.from >= 1
      BY <2>3, TableFacts DEF IndInv, RangesOnChain, LatestBlock
    <3>2. p \in Payment /\ minedIn[p] \in LatestBlock.from .. LatestBlock.to
      BY <2>3 DEF LogsIn
    <3>3. minedIn'[p] = minedIn[p]
      BY <1>1, <3>1, <3>2 DEF Mine
    <3>4. QED
      BY <2>2, <3>2, <3>3 DEF LogsIn
  <2>4. QED
    BY <1>1, <2>1, <2>3 DEF Mine, localVars
<1>2. ASSUME NEW p \in Payment, Delist(p) PROVE OnlyFromRange'
  BY <1>2 DEF Delist, localVars, chainVars, LogsIn, LatestBlock
<1>3. CASE BootFresh
  BY <1>3 DEF BootFresh
<1>4. CASE BootResume
  BY <1>4 DEF BootResume, IndInv, LocalState, LogsIn, LatestBlock, chainVars, dbVars
<1>5. CASE Checkpoint
  BY <1>5 DEF Checkpoint
<1>6. CASE Fetch
  BY <1>6 DEF Fetch, IndInv, LocalState, LogsIn, LatestBlock, chainVars, dbVars
<1>7. ASSUME NEW p \in Payment, ProcessEvent(p) PROVE OnlyFromRange'
  BY <1>7 DEF ProcessEvent, LogsIn, LatestBlock, chainVars, dbVars
<1>8. CASE CommitRecovered \/ CommitScanned
  BY <1>8 DEF CommitRecovered, CommitScanned, CommitRange
<1>9. CASE Crash
  BY <1>9 DEF Crash
<1>10. CASE UNCHANGED vars
  BY <1>10 DEF vars, localVars, chainVars, dbVars, LogsIn, LatestBlock
<1>11. QED
  BY <1>1, <1>2, <1>3, <1>4, <1>5, <1>6, <1>7, <1>8, <1>9, <1>10 DEF Next

(* A worker that has never run has accepted nothing.                       *)
LEMMA InitRefines == Init => Stage!Init
BY DEF Init, Stage!Init, Checkpointed, Finished

(* A new block holds payments of no range yet.                             *)
LEMMA MineRefines ==
  ASSUME IndInv, NEW ps \in SUBSET Payment, Mine(ps)
  PROVE  UNCHANGED Stage!vars
<1> USE DEF Mine, dbVars
<1>1. \A p \in Payment, i \in DOMAIN ethBlocks : InRange(p, i)' <=> InRange(p, i)
  <2>1. TAKE p \in Payment, i \in DOMAIN ethBlocks
  <2>2. /\ ethBlocks[i].from \in Nat /\ ethBlocks[i].to \in Nat
        /\ 1 <= ethBlocks[i].from /\ ethBlocks[i].to <= head
    BY TableFacts DEF IndInv, RangesOnChain
  <2>3. QED
    BY <2>2 DEF IndInv, TypeOK, InRange
<1>2. QED
  BY <1>1 DEF IndInv, TypeOK, Stage!vars, Checkpointed, Finished

(* A deletion withdraws the payment.                                       *)
LEMMA DelistRefines ==
  ASSUME IndInv, NEW p \in Payment, Delist(p)
  PROVE  Stage!Next
<1>1. Stage!Withdraw({p})
  BY DEF Delist, chainVars, Stage!Withdraw, Checkpointed, Finished, InRange
<1>2. QED
  BY <1>1 DEF Stage!Next

(* A checkpoint accepts the payments on sale in its range.                 *)
LEMMA CheckpointRefines ==
  ASSUME IndInv, Checkpoint
  PROVE  Stage!Next
<1> DEFINE n == Len(ethBlocks)
<1>1. /\ n \in Nat /\ DOMAIN ethBlocks = 1 .. n /\ DOMAIN ethBlocks' = 1 .. n + 1
      /\ \A i \in 1 .. n : ethBlocks'[i] = ethBlocks[i]
      /\ ethBlocks'[n + 1].completed = FALSE
  BY TableFacts DEF Checkpoint, IndInv, TypeOK
<1>2. UNCHANGED <<listed, minedIn, events>>
  BY DEF Checkpoint, chainVars
<1>3. PICK new \in SUBSET Payment : new = Checkpointed'
  BY <1>2 DEF IndInv, TypeOK, Checkpointed
<1>4. Checkpointed \subseteq new
  BY <1>1, <1>2, <1>3 DEF Checkpointed, InRange
<1>5. Finished' = Finished
  BY <1>1, <1>2 DEF Finished, InRange
<1>6. Stage!Accept(new)
  BY <1>2, <1>3, <1>4, <1>5 DEF Stage!Accept
<1>7. QED
  BY <1>6 DEF Stage!Next

(* The commit of a range hands on what was staged and settles the range.   *)
LEMMA CommitRefines ==
  ASSUME IndInv, OnlyFromRange, CommitRange, pc \in {"recover", "process"}
  PROVE  Stage!Next
<1> DEFINE n == Len(ethBlocks)
<1>1. /\ n \in DOMAIN ethBlocks /\ DOMAIN ethBlocks' = DOMAIN ethBlocks
      /\ \A i \in DOMAIN ethBlocks : /\ ethBlocks'[i].from = ethBlocks[i].from
                                     /\ ethBlocks'[i].to = ethBlocks[i].to
      /\ \A i \in DOMAIN ethBlocks : i # n => ethBlocks'[i].completed = ethBlocks[i].completed
      /\ ethBlocks'[n].completed = TRUE
  BY TableFacts DEF IndInv, LocalState, CommitRange, BlockRange
<1>2. UNCHANGED <<listed, minedIn>>
  BY DEF CommitRange, chainVars
<1>3. Checkpointed' = Checkpointed
  BY <1>1, <1>2 DEF Checkpointed, InRange
<1>4. PICK done \in SUBSET Payment : done = {p \in listed : InRange(p, n)}
  BY DEF IndInv, TypeOK
<1>5. PICK out \in SUBSET Payment : out = staged
  BY DEF IndInv, TypeOK
<1>6. Finished' = Finished \cup done
  BY <1>1, <1>2, <1>4 DEF Finished, InRange
<1>7. out \subseteq Checkpointed /\ done \subseteq Checkpointed
  BY <1>1, <1>4, <1>5 DEF OnlyFromRange, LogsIn, LatestBlock, Checkpointed, InRange,
     IndInv, LocalState
<1>8. done \subseteq out
  BY <1>4, <1>5 DEF IndInv, TypeOK, NothingDropped, LogsIn, LatestBlock, InRange,
     CommitRange
<1>9. events' = [p \in Payment |-> IF p \in out THEN events[p] + 1 ELSE events[p]]
  BY <1>5 DEF CommitRange
<1>10. \A p \in done : events'[p] >= 1
  BY <1>4, <1>8, <1>9 DEF IndInv, TypeOK
<1>11. Stage!HandOn(out, done)
  BY <1>3, <1>6, <1>7, <1>9, <1>10 DEF Stage!HandOn
<1>12. QED
  BY <1>11 DEF Stage!Next

(* Every step of the listener is a step of the stage, or none of its       *)
(* business: no crash or restart lets a payment it became responsible for  *)
(* be settled without having been handed on.                               *)
THEOREM ImplementsAtLeastOnce == Spec => IsAtLeastOnce
<1>1. Init => Stage!Init /\ OnlyFromRange
  BY InitRefines DEF Init, OnlyFromRange
<1>2. IndInv /\ OnlyFromRange /\ [Next]_vars => OnlyFromRange'
  BY FromRangeInd
<1>3. IndInv /\ OnlyFromRange /\ [Next]_vars => [Stage!Next]_(Stage!vars)
  <2> DEFINE Goal == Stage!Next \/ UNCHANGED Stage!vars
  <2>1. SUFFICES ASSUME IndInv, OnlyFromRange, [Next]_vars PROVE Goal
    OBVIOUS
  <2>2. ASSUME NEW ps \in SUBSET Payment, Mine(ps) PROVE Goal
    BY <2>1, <2>2, MineRefines
  <2>3. ASSUME NEW p \in Payment, Delist(p) PROVE Goal
    BY <2>1, <2>3, DelistRefines
  <2>4. ASSUME NEW p \in Payment, ProcessEvent(p) PROVE Goal
    BY <2>4 DEF ProcessEvent, chainVars, dbVars, Stage!vars, Checkpointed, Finished, InRange
  <2>5. Checkpoint => Goal
    BY <2>1, CheckpointRefines
  <2>6. CommitRecovered \/ CommitScanned => Goal
    BY <2>1, CommitRefines DEF CommitRecovered, CommitScanned
  <2>7. BootFresh \/ BootResume \/ Fetch \/ Crash \/ UNCHANGED vars => Goal
    BY DEF BootFresh, BootResume, Fetch, Crash, vars, chainVars, dbVars, Stage!vars,
       Checkpointed, Finished, InRange
  <2> HIDE DEF Goal
  <2>8. QED
    BY <2>1, <2>2, <2>3, <2>4, <2>5, <2>6, <2>7 DEF Next
<1>4. QED
  BY <1>1, <1>2, <1>3, Inductive, PTL DEF Spec, IsAtLeastOnce, Stage!Spec
=============================================================================
