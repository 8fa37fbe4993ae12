----------------------------- MODULE EthListener -----------------------------
(***************************************************************************)
(* EthListener (chrima/transaction/service/listener.py): the worker that   *)
(* scans the chain for TransactionComplete logs and turns every payment    *)
(* into a Transaction row and a TransactionCompleted outbox event.         *)
(*                                                                         *)
(* Before it queries a range of blocks it commits a checkpoint row         *)
(* (EthBlocks); the rows and the events of a range and the `completed`     *)
(* mark of its checkpoint share one database transaction.  The loop has no *)
(* error handling: any failed await ends the process, and the container is *)
(* restarted, so Crash is possible at every point.                         *)
(*                                                                         *)
(* The definitions no other one refers to (HalfOpenLogsIn,                 *)
(* BootWithoutRecovery, SeveralNewBlocks, BeforeLastBlock,                 *)
(* CrashKeepsEvents) are faulty variants of their successors; the README   *)
(* says which property rules out which.                                    *)
(***************************************************************************)
EXTENDS Naturals, Sequences, FiniteSets

CONSTANTS
  Payment,    \* the payments buyers may make, one TransactionComplete log each
  Window,     \* blocks added to from_block to end a range (10 in the code)
  MaxBlock,   \* bound: blocks the chain produces
  MaxCrash    \* bound: times the worker dies

ASSUME ListenerAssumption ==
  /\ Window \in Nat \ {0}
  /\ MaxBlock \in Nat \ {0}
  /\ MaxCrash \in Nat

VARIABLES
  head,          \* number of the newest block
  minedIn,       \* block that holds the log of a payment, 0 while it has none
  listed,        \* payments whose product and price rows exist
  ethBlocks,     \* table eth_blocks, in the order of created_at
  transactions,  \* rows of table transactions for a payment
  events,        \* TransactionCompleted rows of event_outbox for a payment
  pc,            \* where the worker stands
  fromBlock,     \* its local from_block
  onChain,       \* its local on_chain
  todo,          \* logs returned by get_logs and not yet processed
  staged,        \* payments inserted in the open database transaction
  crashes        \* how often the worker has died

chainVars == <<head, minedIn>>
dbVars    == <<ethBlocks, transactions, events>>
localVars == <<pc, fromBlock, onChain, todo, staged>>
vars      == <<chainVars, listed, dbVars, localVars, crashes>>

BlockRange == [from : Nat, to : Nat, completed : BOOLEAN]

(* The row _get_latest_block returns, and the one every update targets.    *)
LatestBlock == ethBlocks[Len(ethBlocks)]

(* What get_logs returns for a range: both of its ends belong to it.       *)
HalfOpenLogsIn(range) == {p \in Payment : minedIn[p] \in range.from .. range.to - 1}
LogsIn(range) == {p \in Payment : minedIn[p] \in range.from .. range.to}

Init ==
  /\ head = 1
  /\ minedIn = [p \in Payment |-> 0]
  /\ listed = Payment
  /\ ethBlocks = <<>>
  /\ transactions = [p \in Payment |-> 0]
  /\ events = [p \in Payment |-> 0]
  /\ pc = "down"
  /\ fromBlock = 0
  /\ onChain = FALSE
  /\ todo = {}
  /\ staged = {}
  /\ crashes = 0

-----------------------------------------------------------------------------
(* The environment.                                                        *)

(* The chain grows by one block, which holds the logs of some payments.    *)
Mine(ps) ==
  /\ head < MaxBlock
  /\ \A p \in ps : minedIn[p] = 0
  /\ head' = head + 1
  /\ minedIn' = [p \in Payment |-> IF p \in ps THEN head + 1 ELSE minedIn[p]]
  /\ UNCHANGED <<listed, dbVars, localVars, crashes>>

(* The owner deletes the product or the price of a payment.  The foreign   *)
(* keys cascade to the Transaction rows; the outbox rows stay.  A row that *)
(* the worker has inserted but not committed holds a lock on its parents,  *)
(* so the deletion waits for the end of that transaction.                  *)
Delist(p) ==
  /\ p \in listed \ staged
  /\ listed' = listed \ {p}
  /\ transactions' = [transactions EXCEPT ![p] = 0]
  /\ UNCHANGED <<chainVars, ethBlocks, events, localVars, crashes>>

-----------------------------------------------------------------------------
(* The worker.                                                             *)

(* Where a scan without any checkpoint begins.                             *)
ScanStart == head

(* First start: no checkpoint exists and the scan begins at the newest     *)
(* block, which on_chain keeps inside the first range.                     *)
BootFresh ==
  /\ pc = "down"
  /\ ethBlocks = <<>>
  /\ pc' = "poll"
  /\ fromBlock' = ScanStart
  /\ onChain' = TRUE
  /\ UNCHANGED <<chainVars, listed, dbVars, todo, staged, crashes>>

BootWithoutRecovery ==
  /\ pc = "down"
  /\ ethBlocks # <<>>
  /\ pc' = "poll"
  /\ fromBlock' = LatestBlock.to
  /\ onChain' = FALSE
  /\ UNCHANGED <<chainVars, listed, dbVars, todo, staged, crashes>>

(* Restart: the newest checkpoint, completed or not, is queried again.     *)
BootResume ==
  /\ pc = "down"
  /\ ethBlocks # <<>>
  /\ pc' = "recover"
  /\ todo' = LogsIn(LatestBlock)
  /\ UNCHANGED <<chainVars, listed, dbVars, fromBlock, onChain, staged, crashes>>

SeveralNewBlocks == head > fromBlock + 1
NewBlocks == head > fromBlock

StartBlock == IF onChain THEN fromBlock ELSE fromBlock + 1
ToBlock    == IF fromBlock + Window < head THEN fromBlock + Window ELSE head

(* One pass of the loop sees new blocks and commits the checkpoint of the  *)
(* range it is about to query.                                             *)
Checkpoint ==
  /\ pc = "poll"
  /\ NewBlocks
  /\ ethBlocks' = Append(ethBlocks,
                         [from |-> StartBlock, to |-> ToBlock, completed |-> FALSE])
  /\ pc' = "fetch"
  /\ UNCHANGED <<chainVars, listed, transactions, events, fromBlock, onChain,
                 todo, staged, crashes>>

Fetch ==
  /\ pc = "fetch"
  /\ pc' = "process"
  /\ todo' = LogsIn(LatestBlock)
  /\ UNCHANGED <<chainVars, listed, dbVars, fromBlock, onChain, staged, crashes>>

(* _process_event: a log whose product or price is gone is dropped; for    *)
(* any other a Transaction and its event join the open transaction.        *)
ProcessEvent(p) ==
  /\ pc \in {"recover", "process"}
  /\ p \in todo
  /\ todo' = todo \ {p}
  /\ staged' = staged \cup ({p} \cap listed)
  /\ UNCHANGED <<chainVars, listed, dbVars, pc, fromBlock, onChain, crashes>>

(* The transaction of a range commits: its rows, its events and the mark   *)
(* on its checkpoint.                                                      *)
CommitRange ==
  /\ todo = {}
  /\ ethBlocks' = [ethBlocks EXCEPT ![Len(ethBlocks)].completed = TRUE]
  /\ transactions' = [p \in Payment |-> IF p \in staged THEN transactions[p] + 1
                                                        ELSE transactions[p]]
  /\ events' = [p \in Payment |-> IF p \in staged THEN events[p] + 1
                                                  ELSE events[p]]
  /\ staged' = {}
  /\ onChain' = FALSE
  /\ pc' = "poll"
  /\ UNCHANGED <<chainVars, listed, todo, crashes>>

(* After the restart's range the loop resumes from its FIRST block.        *)
CommitRecovered ==
  /\ pc = "recover"
  /\ CommitRange
  /\ fromBlock' = LatestBlock.from

(* After a range of the loop it resumes from its last block.               *)
BeforeLastBlock == LatestBlock.to - 1
LastBlock       == LatestBlock.to

CommitScanned ==
  /\ pc = "process"
  /\ CommitRange
  /\ fromBlock' = LastBlock

CrashKeepsEvents ==
  /\ pc # "down"
  /\ crashes < MaxCrash
  /\ crashes' = crashes + 1
  /\ pc' = "down"
  /\ fromBlock' = 0
  /\ onChain' = FALSE
  /\ todo' = {}
  /\ staged' = {}
  /\ events' = [p \in Payment |-> IF p \in staged THEN events[p] + 1 ELSE events[p]]
  /\ UNCHANGED <<chainVars, listed, ethBlocks, transactions>>

(* Any exception, or a kill: local state is lost and the open transaction  *)
(* is rolled back.                                                         *)
Crash ==
  /\ pc # "down"
  /\ crashes < MaxCrash
  /\ crashes' = crashes + 1
  /\ pc' = "down"
  /\ fromBlock' = 0
  /\ onChain' = FALSE
  /\ todo' = {}
  /\ staged' = {}
  /\ UNCHANGED <<chainVars, listed, dbVars>>

Next ==
  \/ \E ps \in SUBSET Payment : Mine(ps)
  \/ \E p \in Payment : Delist(p)
  \/ BootFresh
  \/ BootResume
  \/ Checkpoint
  \/ Fetch
  \/ \E p \in Payment : ProcessEvent(p)
  \/ CommitRecovered
  \/ CommitScanned
  \/ Crash

Spec == Init /\ [][Next]_vars

(* The container runtime restarts the worker and every await of the worker *)
(* ends, so each of its steps is weakly fair.  Nothing obliges the chain   *)
(* to grow, an owner to delete or the worker to die.                       *)
Fairness ==
  /\ WF_vars(BootFresh)
  /\ WF_vars(BootResume)
  /\ WF_vars(Checkpoint)
  /\ WF_vars(Fetch)
  /\ \A p \in Payment : WF_vars(ProcessEvent(p))
  /\ WF_vars(CommitRecovered)
  /\ WF_vars(CommitScanned)

FairSpec == Spec /\ Fairness

-----------------------------------------------------------------------------
(* Properties.                                                             *)

(* Every variable has its type; the worker's phases are the five of        *)
(* listen().                                                               *)
TypeOK ==
  /\ head \in Nat
  /\ minedIn \in [Payment -> Nat]
  /\ listed \in SUBSET Payment
  /\ ethBlocks \in Seq(BlockRange)
  /\ transactions \in [Payment -> Nat]
  /\ events \in [Payment -> Nat]
  /\ pc \in {"down", "recover", "poll", "fetch", "process"}
  /\ fromBlock \in Nat
  /\ onChain \in BOOLEAN
  /\ todo \in SUBSET Payment
  /\ staged \in SUBSET Payment
  /\ crashes \in Nat

Covered(b) == \E i \in DOMAIN ethBlocks :
                b \in ethBlocks[i].from .. ethBlocks[i].to

(* No block falls between two ranges: from the first block ever            *)
(* checkpointed to the last one, every block lies in some range, whatever  *)
(* restarts moved from_block back in between.                              *)
CheckpointsLeaveNoGap ==
  ethBlocks # <<>> =>
    \A b \in ethBlocks[1].from .. LatestBlock.to : Covered(b)

(* At most the newest checkpoint is unfinished, which is why the restart   *)
(* may look at that row alone.                                             *)
OnlyLatestUnfinished ==
  \A i \in DOMAIN ethBlocks : i < Len(ethBlocks) => ethBlocks[i].completed

(* A range marked completed has recorded every payment in it whose product *)
(* and price still exist: the mark never runs ahead of the rows.           *)
CompletedRangesRecorded ==
  \A i \in DOMAIN ethBlocks :
    ethBlocks[i].completed =>
      \A p \in listed :
        minedIn[p] \in ethBlocks[i].from .. ethBlocks[i].to => events[p] >= 1

(* Whenever the loop waits for new blocks, every payment of a product      *)
(* still on sale between the first checkpointed block and from_block has   *)
(* been recorded: no payment is lost to a crash or a restart.              *)
NoPaymentLost ==
  (pc = "poll" /\ ethBlocks # <<>>) =>
    \A p \in listed :
      minedIn[p] \in ethBlocks[1].from .. fromBlock => events[p] >= 1

(* Row and event are written together or not at all: a payment on sale has *)
(* as many Transaction rows as outbox events.                              *)
RowsMatchEvents == \A p \in listed : transactions[p] = events[p]

(* The price of a restart: the range of the newest checkpoint is recorded  *)
(* again by the recovery, and all of it but its first block once more by   *)
(* the loop.  Without a restart a payment is recorded once.                *)
DuplicatesBoundedByCrashes ==
  \A p \in Payment : events[p] <= 1 + 2 * crashes

(* Every payment mined at or after the first checkpointed block is         *)
(* eventually recorded, unless its product or price is deleted first.      *)
EventuallyRecorded ==
  \A p \in Payment :
    (ethBlocks # <<>> /\ minedIn[p] # 0 /\ minedIn[p] >= ethBlocks[1].from)
      ~> (events[p] >= 1 \/ p \notin listed)

(* The listener is an at-least-once stage: it accepts the payments of a    *)
(* range with the range's checkpoint, hands a payment on with each outbox  *)
(* event and settles a range with its completed mark.  A payment whose     *)
(* product or price is deleted is withdrawn.                               *)
InRange(p, i) == minedIn[p] \in ethBlocks[i].from .. ethBlocks[i].to

Checkpointed == {p \in listed : \E i \in DOMAIN ethBlocks : InRange(p, i)}

Finished == {p \in listed :
               \E i \in DOMAIN ethBlocks : ethBlocks[i].completed /\ InRange(p, i)}

Stage == INSTANCE AtLeastOnce WITH
  Item     <- Payment,
  accepted <- Checkpointed,
  copies   <- events,
  settled  <- Finished

IsAtLeastOnce == Stage!Spec
=============================================================================
