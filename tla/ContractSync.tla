---------------------------- MODULE ContractSync ----------------------------
(***************************************************************************)
(* PriceSyncService and ProductSyncService: two Kafka consumers that copy  *)
(* prices and wallet addresses into the ChrimaPayment contract.  Each      *)
(* handles one record at a time: it reads the nonce of the signer, builds, *)
(* signs and sends a transaction and waits for its receipt.                *)
(*                                                                         *)
(* Both processes sign with the same key, so they compete for nonces.  The *)
(* product consumer commits its offset after each record; the price        *)
(* consumer never commits one, so each of its starts begins at the end of  *)
(* the topic.  An exception ends the process and the container restarts    *)
(* it.                                                                     *)
(*                                                                         *)
(* The definitions no other one refers to (RestartAtBeginning,             *)
(* ResumeAtEnd, SendReplacing, ConfirmUnmined) are faulty variants of the  *)
(* definition after them; the README says which property rules out which.  *)
(***************************************************************************)
EXTENDS Integers, Sequences, FiniteSets

CONSTANTS
  PriceEvent,    \* price.updated events
  ProductEvent,  \* product.wallet_updated events
  Entry,         \* the product a wallet event is about
  Unsendable,    \* events whose transaction cannot be built: an amount that
                 \* converts to zero, a wallet address that is none
  MaxTopic,      \* bound: records per topic
  MaxCrash       \* bound: failures of a worker's network or process

Event == PriceEvent \cup ProductEvent

ASSUME ContractSyncAssumption ==
  /\ PriceEvent \cap ProductEvent = {}
  /\ Unsendable \subseteq Event
  /\ MaxTopic \in Nat
  /\ MaxCrash \in Nat

VARIABLES
  topic,       \* the Kafka topic of each worker
  committed,   \* offset of its consumer group
  base,        \* records before the first one the group's first offset covers
  walletGone,  \* wallet events whose wallet has been deleted
  sent,        \* transactions of the signer in the order of their nonces
  mined,       \* how many of them are in a block
  pc,          \* where a worker stands
  pos,         \* its position in its topic
  nonce,       \* the nonce it has read
  attempt,     \* its tries at the record in work
  crashes      \* its failures so far

chainVars == <<sent, mined>>
kafkaVars == <<topic, committed, base>>
localVars == <<pc, pos, nonce, attempt>>
vars == <<kafkaVars, walletGone, chainVars, localVars, crashes>>

Worker == {"price", "product"}
EventOf == [price |-> PriceEvent, product |-> ProductEvent]
NoOffset == -1

(* A transaction of the signer: who sent it, and for which record.         *)
Tx == [by : Worker, record : Nat]

Current(w) == topic[w][pos[w]]

(* Records whose transaction is in a block.                                *)
AppliedBy(w) == {sent[i].record : i \in {j \in 1 .. mined : sent[j].by = w}}

Init ==
  /\ topic = [w \in Worker |-> <<>>]
  /\ committed = [w \in Worker |-> NoOffset]
  /\ base = [w \in Worker |-> 0]
  /\ walletGone = {}
  /\ sent = <<>>
  /\ mined = 0
  /\ pc = [w \in Worker |-> "down"]
  /\ pos = [w \in Worker |-> 0]
  /\ nonce = [w \in Worker |-> 0]
  /\ attempt = [w \in Worker |-> 0]
  /\ crashes = [w \in Worker |-> 0]

-----------------------------------------------------------------------------
(* The environment.                                                        *)

Publish(w, e) ==
  /\ e \in EventOf[w]
  /\ Len(topic[w]) < MaxTopic
  /\ topic' = [topic EXCEPT ![w] = Append(@, e)]
  /\ UNCHANGED <<committed, base, walletGone, chainVars, localVars, crashes>>

(* WalletService.delete, for a wallet no product uses any more.            *)
DeleteWallet(e) ==
  /\ e \in ProductEvent \ walletGone
  /\ walletGone' = walletGone \cup {e}
  /\ UNCHANGED <<kafkaVars, chainVars, localVars, crashes>>

(* The next transaction of the signer enters a block: in nonce order.      *)
Mine ==
  /\ mined < Len(sent)
  /\ mined' = mined + 1
  /\ UNCHANGED <<kafkaVars, walletGone, sent, localVars, crashes>>

-----------------------------------------------------------------------------
(* The workers.                                                            *)

RestartAtBeginning(w) == IF committed[w] = NoOffset THEN 0 ELSE committed[w]
ResumeAtEnd(w) == Len(topic[w])
ResumeAt(w) == IF committed[w] = NoOffset THEN Len(topic[w]) ELSE committed[w]

Start(w) ==
  /\ pc[w] = "down"
  /\ pc' = [pc EXCEPT ![w] = "ready"]
  /\ pos' = [pos EXCEPT ![w] = ResumeAt(w)]
  /\ UNCHANGED <<kafkaVars, walletGone, chainVars, nonce, attempt, crashes>>

(* The next record.                                                        *)
Take(w) ==
  /\ pc[w] = "ready"
  /\ pos[w] < Len(topic[w])
  /\ topic[w][pos[w] + 1] \notin walletGone
  /\ pos' = [pos EXCEPT ![w] = @ + 1]
  /\ attempt' = [attempt EXCEPT ![w] = 1]
  /\ pc' = [pc EXCEPT ![w] = "nonce"]
  /\ UNCHANGED <<kafkaVars, walletGone, chainVars, nonce, crashes>>

(* handle_wallet_updated: an event whose wallet is gone is passed.         *)
PassGoneWallet ==
  /\ pc["product"] = "ready"
  /\ pos["product"] < Len(topic["product"])
  /\ topic["product"][pos["product"] + 1] \in walletGone
  /\ pos' = [pos EXCEPT !["product"] = @ + 1]
  /\ pc' = [pc EXCEPT !["product"] = "offset"]
  /\ UNCHANGED <<kafkaVars, walletGone, chainVars, nonce, attempt, crashes>>

(* get_transaction_count(..., "pending").                                  *)
ReadNonce(w) ==
  /\ pc[w] = "nonce"
  /\ nonce' = [nonce EXCEPT ![w] = Len(sent)]
  /\ pc' = [pc EXCEPT ![w] = "send"]
  /\ UNCHANGED <<kafkaVars, walletGone, chainVars, pos, attempt, crashes>>

Sending(w) == pc[w] = "send" /\ Current(w) \notin Unsendable

SendReplacing(w) ==
  /\ Sending(w)
  /\ nonce[w] >= mined
  /\ sent' = [i \in 1 .. nonce[w] + 1 |->
               IF i = nonce[w] + 1 THEN [by |-> w, record |-> pos[w]] ELSE sent[i]]
  /\ pc' = [pc EXCEPT ![w] = "wait"]
  /\ UNCHANGED <<kafkaVars, walletGone, mined, pos, nonce, attempt, crashes>>

(* send_raw_transaction, while nobody else has used the nonce.             *)
Send(w) ==
  /\ Sending(w)
  /\ nonce[w] = Len(sent)
  /\ sent' = Append(sent, [by |-> w, record |-> pos[w]])
  /\ pc' = [pc EXCEPT ![w] = "wait"]
  /\ UNCHANGED <<kafkaVars, walletGone, mined, pos, nonce, attempt, crashes>>

(* "nonce too low": the other worker's transaction with this nonce is in a *)
(* block.  The worker tries three times in all.                            *)
Retry(w) ==
  /\ Sending(w)
  /\ nonce[w] < mined
  /\ attempt[w] < 3
  /\ attempt' = [attempt EXCEPT ![w] = @ + 1]
  /\ pc' = [pc EXCEPT ![w] = "nonce"]
  /\ UNCHANGED <<kafkaVars, walletGone, chainVars, pos, nonce, crashes>>

(* An exception leaves run() and ends the process.                         *)
Die(w) ==
  /\ pc' = [pc EXCEPT ![w] = "down"]
  /\ UNCHANGED <<kafkaVars, walletGone, pos, nonce, attempt>>

(* The third "nonce too low"; or the other worker's transaction with this  *)
(* nonce still waits for a block, which the node answers differently; or   *)
(* the transaction cannot be built.                                        *)
GiveUp(w) ==
  /\ pc[w] = "send"
  /\ \/ Current(w) \in Unsendable
     \/ nonce[w] < mined /\ attempt[w] = 3
     \/ nonce[w] \in mined .. Len(sent) - 1
  /\ Die(w)
  /\ UNCHANGED <<chainVars, crashes>>

ConfirmUnmined(w) ==
  /\ pc[w] = "wait"
  /\ pc' = [pc EXCEPT ![w] = IF w = "price" THEN "ready" ELSE "offset"]
  /\ UNCHANGED <<kafkaVars, walletGone, chainVars, pos, nonce, attempt, crashes>>

(* The receipt arrives.                                                    *)
Confirm(w) ==
  /\ pc[w] = "wait"
  /\ nonce[w] < mined
  /\ pc' = [pc EXCEPT ![w] = IF w = "price" THEN "ready" ELSE "offset"]
  /\ UNCHANGED <<kafkaVars, walletGone, chainVars, pos, nonce, attempt, crashes>>

NextOffset == pos["product"]

(* Only ProductSyncService commits offsets.                                *)
CommitOffset ==
  /\ pc["product"] = "offset"
  /\ committed' = [committed EXCEPT !["product"] = NextOffset]
  /\ base' = IF committed["product"] = NoOffset
             THEN [base EXCEPT !["product"] = pos["product"] - 1] ELSE base
  /\ pc' = [pc EXCEPT !["product"] = "ready"]
  /\ UNCHANGED <<topic, walletGone, chainVars, pos, nonce, attempt, crashes>>

Fail(w) ==
  /\ pc[w] # "down"
  /\ crashes[w] < MaxCrash
  /\ crashes' = [crashes EXCEPT ![w] = @ + 1]
  /\ Die(w)

(* Any await fails, the wait for a receipt times out, or the process is    *)
(* killed.                                                                 *)
Crash(w) == Fail(w) /\ UNCHANGED chainVars

(* The node accepts a transaction but its answer is lost.                  *)
SendUnanswered(w) ==
  /\ Sending(w)
  /\ nonce[w] = Len(sent)
  /\ sent' = Append(sent, [by |-> w, record |-> pos[w]])
  /\ Fail(w)
  /\ UNCHANGED mined

Handle(w) == ReadNonce(w) \/ Send(w) \/ Retry(w) \/ GiveUp(w) \/ Confirm(w)

Next ==
  \/ \E w \in Worker : \E e \in EventOf[w] : Publish(w, e)
  \/ \E e \in ProductEvent : DeleteWallet(e)
  \/ Mine
  \/ \E w \in Worker : Start(w) \/ Take(w) \/ Handle(w) \/ Crash(w) \/ SendUnanswered(w)
  \/ PassGoneWallet
  \/ CommitOffset

Spec == Init /\ [][Next]_vars

(* Containers are restarted and every call of a worker returns or raises,  *)
(* so a process keeps taking its one next step; and the chain takes up the *)
(* transactions of the signer.                                             *)
Proceed(w) ==
  \/ Start(w) \/ Take(w) \/ Handle(w)
  \/ w = "product" /\ (PassGoneWallet \/ CommitOffset)

Fairness ==
  /\ WF_vars(Mine)
  /\ \A w \in Worker : WF_vars(Proceed(w))

FairSpec == Spec /\ Fairness

-----------------------------------------------------------------------------
(* Properties.                                                             *)

(* Every variable has its type; the signer's transactions are numbered     *)
(* without holes, and blocks take them up in that order.                   *)
TypeOK ==
  /\ topic \in [Worker -> Seq(Event)]
  /\ committed \in [Worker -> Nat \cup {NoOffset}]
  /\ base \in [Worker -> Nat]
  /\ walletGone \in SUBSET ProductEvent
  /\ sent \in Seq(Tx)
  /\ mined \in 0 .. Len(sent)
  /\ pc \in [Worker -> {"down", "ready", "nonce", "send", "wait", "offset"}]
  /\ pos \in [Worker -> Nat]
  /\ \A w \in Worker : topic[w] \in Seq(EventOf[w]) /\ pos[w] <= Len(topic[w])
  /\ nonce \in [Worker -> Nat]
  /\ attempt \in [Worker -> 0 .. 3]
  /\ crashes \in [Worker -> Nat]

(* The receipt a worker waits for is that of its own transaction for the   *)
(* record in work, although the other worker uses the same account.        *)
ReceiptIsOwn ==
  \A w \in Worker :
    pc[w] = "wait" =>
      /\ nonce[w] < Len(sent)
      /\ sent[nonce[w] + 1] = [by |-> w, record |-> pos[w]]

(* ProductSyncService commits an offset only over records whose recipient  *)
(* has reached the contract, or whose wallet is gone.                      *)
OffsetBehindContract ==
  \A i \in base["product"] + 1 .. committed["product"] :
    i \in AppliedBy("product") \/ topic["product"][i] \in walletGone

(* Transactions of one worker follow the order of its topic, whatever dies *)
(* and restarts in between; the price worker, which cannot go back, never  *)
(* sends a record twice.                                                   *)
SubmittedInOrder ==
  \A i, j \in 1 .. Len(sent) :
    (i < j /\ sent[i].by = sent[j].by) =>
      /\ sent[i].record <= sent[j].record
      /\ sent[i].by = "price" => sent[i].record < sent[j].record

(* A record costs more than one transaction only when its worker failed.   *)
ResendsBounded ==
  \A w \in Worker : \A r \in 1 .. Len(topic[w]) :
    Cardinality({i \in 1 .. Len(sent) : sent[i] = [by |-> w, record |-> r]})
      <= 1 + crashes[w]

(* The mined transactions for product k; the last one's wallet is the      *)
(* recipient of k in the contract.                                         *)
RecipientSet(k) == {i \in 1 .. mined :
                      /\ sent[i].by = "product"
                      /\ Entry[topic["product"][sent[i].record]] = k}

Recipient(k) == {topic["product"][sent[i].record] :
                   i \in {i \in RecipientSet(k) : \A j \in RecipientSet(k) : j <= i}}

(* Once ProductSyncService has passed its whole topic, the contract pays   *)
(* each product's revenue to the wallet its newest record names: retries   *)
(* and restarts leave no older recipient behind.                           *)
CaughtUpMeansCurrent ==
  \A i \in base["product"] + 1 .. Len(topic["product"]) :
    LET e == topic["product"][i]
    IN  ( /\ committed["product"] = Len(topic["product"])
          /\ e \notin walletGone
          /\ \A j \in i + 1 .. Len(topic["product"]) :
               Entry[topic["product"][j]] # Entry[e] )
        => Recipient(Entry[e]) = {e}

(* Once its group has an offset, the product worker catches up with its    *)
(* topic again and again, or stands at a record that can never be sent.    *)
ProductEventuallyPassed ==
  committed["product"] # NoOffset ~>
    \/ committed["product"] = Len(topic["product"])
    \/ \E i \in DOMAIN topic["product"] :
         i = committed["product"] + 1 /\ topic["product"][i] \in Unsendable

(* Consumers are done with an event only after success, says the README of *)
(* the program: a price record taken from the topic reaches the contract.  *)
PriceEventuallyApplied ==
  \A i \in 1 .. MaxTopic :
    (pc["price"] = "nonce" /\ pos["price"] = i) ~> i \in AppliedBy("price")
=============================================================================
