------------------------- MODULE CatalogSyncProofs -------------------------
(***************************************************************************)
(* Proofs about ContractSync and about Catalog, for every set of events,   *)
(* products, prices and wallets and any number of requests and failures,   *)
(* and about the two together: which wallet the contract pays.             *)
(*                                                                         *)
(* ContractSync: what a worker has sent so far is bounded by the record it *)
(* holds, and by where it would resume: Positions and SentSoFar relate the *)
(* two, and OffsetEarned says what the product worker knows when it is     *)
(* about to commit an offset.                                              *)
(*                                                                         *)
(* Catalog: a request writes long after it has read.  RowsRead says which  *)
(* of what it read still holds, LockHeld what its uncommitted insert keeps *)
(* in place, AloneIsOnly and AloneAfterAll what it may rely on as long as  *)
(* no other request of its object has begun, and WalletNamed and           *)
(* QuietAgree how far tables and events agree meanwhile.                   *)
(***************************************************************************)
EXTENDS Catalog, ContractSync, FiniteSetTheorems, WellFoundedInduction, TLAPS

CONSTANT WalletIn   \* the wallet a record of product.wallet_updated names, as
                    \* Entry is the product

-----------------------------------------------------------------------------
(* ContractSync.                                                           *)

InRecord == {"nonce", "send", "wait", "offset"}

(* The product worker is one record ahead of its offset while it works on  *)
(* a record; the price worker never has an offset.                         *)
Positions ==
  /\ committed["price"] = NoOffset
  /\ committed["product"] <= Len(topic["product"])
  /\ pc["price"] # "offset"
  /\ \A w \in Worker : pc[w] \in InRecord => pos[w] >= 1
  /\ committed["product"] # NoOffset =>
       /\ pc["product"] = "ready" => pos["product"] = committed["product"]
       /\ pc["product"] \in InRecord => pos["product"] = committed["product"] + 1

(* No transaction is for a record after the one in work.                   *)
SentSoFar ==
  \A i \in 1 .. Len(sent) :
    /\ sent[i].by = "price" =>
         /\ sent[i].record <= pos["price"]
         /\ pc["price"] \in {"nonce", "send"} => sent[i].record < pos["price"]
    /\ sent[i].by = "product" =>
         IF committed["product"] # NoOffset
         THEN sent[i].record <= committed["product"] + 1
         ELSE /\ sent[i].record <= Len(topic["product"])
              /\ pc["product"] # "down" => sent[i].record <= pos["product"]

(* A record done with is in the contract, or its wallet is gone.           *)
Settled(r) == r \in AppliedBy("product") \/ topic["product"][r] \in walletGone

OffsetEarned == pc["product"] = "offset" => Settled(pos["product"])

IndInv ==
  /\ TypeOK
  /\ Positions
  /\ ReceiptIsOwn
  /\ SentSoFar
  /\ SubmittedInOrder
  /\ OffsetEarned
  /\ OffsetBehindContract

(* Facts about the types that the proofs cite.                             *)
LEMMA Facts ==
  ASSUME TypeOK
  PROVE  /\ \A w \in Worker : /\ Len(topic[w]) \in Nat
                              /\ DOMAIN topic[w] = 1 .. Len(topic[w])
                              /\ \A i \in 1 .. Len(topic[w]) : topic[w][i] \in EventOf[w]
                              /\ pos[w] \in Nat
         /\ Len(sent) \in Nat
         /\ DOMAIN sent = 1 .. Len(sent)
         /\ \A i \in 1 .. Len(sent) : /\ sent[i] \in Tx
                                      /\ sent[i].by \in Worker
                                      /\ sent[i].record \in Nat
         /\ "price" \in Worker /\ "product" \in Worker
<1>1. "price" \in Worker /\ "product" \in Worker
  BY DEF Worker
<1>2. ASSUME NEW w \in Worker
      PROVE  /\ Len(topic[w]) \in Nat
             /\ DOMAIN topic[w] = 1 .. Len(topic[w])
             /\ \A i \in 1 .. Len(topic[w]) : topic[w][i] \in EventOf[w]
             /\ pos[w] \in Nat
  <2>1. topic[w] \in Seq(EventOf[w])
    BY DEF TypeOK
  <2>2. Len(topic[w]) \in Nat /\ DOMAIN topic[w] = 1 .. Len(topic[w])
    BY <2>1
  <2>3. pos[w] \in 0 .. Len(topic[w])
    BY DEF TypeOK
  <2>4. QED
    BY <2>1, <2>2, <2>3
<1>3. sent \in Seq(Tx)
  BY DEF TypeOK
<1>4. /\ Len(sent) \in Nat
      /\ DOMAIN sent = 1 .. Len(sent)
      /\ \A i \in 1 .. Len(sent) : sent[i] \in Tx
  BY <1>3
<1>5. \A t \in Tx : t.by \in Worker /\ t.record \in Nat
  BY DEF Tx
<1>6. QED
  BY <1>1, <1>2, <1>4, <1>5

(* Init establishes the inductive invariant.                               *)
LEMMA InitInd == Init => IndInv
<1>1. SUFFICES ASSUME Init PROVE IndInv
  OBVIOUS
<1>2. Len(sent) = 0 /\ sent \in Seq(Tx)
  BY <1>1 DEF Init
<1>3. \A w \in Worker : topic[w] \in Seq(EventOf[w]) /\ Len(topic[w]) = 0
  BY <1>1 DEF Init
<1>4. TypeOK
  BY <1>1, <1>2, <1>3 DEF Init, TypeOK, NoOffset
<1>5. Positions /\ ReceiptIsOwn /\ SentSoFar /\ SubmittedInOrder /\ OffsetEarned
  BY <1>1, <1>2, <1>3 DEF Init, Positions, ReceiptIsOwn, SentSoFar, SubmittedInOrder,
     OffsetEarned, Worker, InRecord, NoOffset
<1>6. OffsetBehindContract
  BY <1>1 DEF Init, OffsetBehindContract, Worker, NoOffset
<1>7. QED
  BY <1>4, <1>5, <1>6 DEF IndInv

(* What is settled stays settled: the chain and the topics only grow.      *)
LEMMA SettledStays ==
  ASSUME TypeOK, TypeOK', NEW r \in 1 .. Len(topic["product"]), Settled(r),
         \A i \in 1 .. Len(topic["product"]) : topic'["product"][i] = topic["product"][i],
         walletGone \subseteq walletGone',
         mined <= mined',
         \A i \in 1 .. mined : sent'[i] = sent[i]
  PROVE  Settled(r)'
<1>1. AppliedBy("product") \subseteq AppliedBy("product")'
  <2>1. mined \in Nat /\ mined' \in Nat
    BY Facts DEF TypeOK
  <2>2. SUFFICES ASSUME NEW i \in 1 .. mined, sent[i].by = "product"
                 PROVE  sent[i].record \in AppliedBy("product")'
    BY DEF AppliedBy
  <2>3. i \in 1 .. mined' /\ sent'[i] = sent[i]
    BY <2>1
  <2>4. QED
    BY <2>2, <2>3 DEF AppliedBy
<1>2. QED
  BY <1>1 DEF Settled

(* The offsets committed so far are those of records.                      *)
LEMMA OffsetRange ==
  ASSUME TypeOK, Positions
  PROVE  base["product"] + 1 .. committed["product"] \subseteq 1 .. Len(topic["product"])
<1>1. /\ base["product"] \in Nat
      /\ committed["product"] \in Nat \cup {-1}
      /\ Len(topic["product"]) \in Nat
  BY Facts DEF TypeOK, NoOffset
<1>2. committed["product"] <= Len(topic["product"])
  BY DEF Positions
<1>3. QED
  BY <1>1, <1>2

(* Steps that leave the topics, the offsets and the transactions alone     *)
(* keep what has been said of those.                                       *)
LEMMA QuietInd ==
  ASSUME IndInv, TypeOK', Positions', ReceiptIsOwn', SentSoFar', OffsetEarned',
         UNCHANGED <<kafkaVars, sent>>,
         walletGone \subseteq walletGone', mined <= mined'
  PROVE  IndInv'
<1> USE DEF IndInv, kafkaVars
<1>1. SubmittedInOrder'
  BY DEF SubmittedInOrder
<1>2. OffsetBehindContract'
  <2>1. SUFFICES ASSUME NEW i \in base["product"] + 1 .. committed["product"]
                 PROVE  Settled(i)'
    BY DEF OffsetBehindContract, Settled
  <2>2. i \in 1 .. Len(topic["product"])
    BY OffsetRange
  <2>3. Settled(i)
    BY <2>1 DEF OffsetBehindContract, Settled
  <2>4. QED
    BY <2>2, <2>3, SettledStays
<1>3. QED
  BY <1>1, <1>2

(* What Append does.                                                       *)
LEMMA AppendFacts ==
  ASSUME NEW S, NEW s \in Seq(S), NEW e \in S
  PROVE  /\ Append(s, e) \in Seq(S)
         /\ Len(Append(s, e)) = Len(s) + 1
         /\ \A i \in 1 .. Len(s) : Append(s, e)[i] = s[i]
         /\ Append(s, e)[Len(s) + 1] = e
OBVIOUS

(* Publish appends to one topic.                                           *)
LEMMA PublishGrows ==
  ASSUME TypeOK, NEW w \in Worker, NEW e \in EventOf[w], Publish(w, e)
  PROVE  /\ topic' \in [Worker -> Seq(Event)]
         /\ \A v \in Worker : /\ topic'[v] \in Seq(EventOf[v])
                              /\ Len(topic'[v]) \in Nat
                              /\ Len(topic[v]) <= Len(topic'[v])
                              /\ \A i \in 1 .. Len(topic[v]) : topic'[v][i] = topic[v][i]
<1>1. PICK t : t = Append(topic[w], e)
  OBVIOUS
<1>2. topic \in [Worker -> Seq(Event)] /\ topic' = [topic EXCEPT ![w] = t]
  BY <1>1 DEF TypeOK, Publish
<1>3. PICK S : S = EventOf[w]
  OBVIOUS
<1>4. topic[w] \in Seq(S) /\ e \in S
  BY <1>3 DEF TypeOK
<1>5. /\ t \in Seq(S)
      /\ Len(t) = Len(topic[w]) + 1
      /\ \A i \in 1 .. Len(topic[w]) : t[i] = topic[w][i]
  BY <1>1, <1>4, AppendFacts
<1>6. t \in Seq(Event)
  <2>1. topic[w] \in Seq(Event) /\ e \in Event
    BY DEF TypeOK, Event, EventOf, Worker
  <2>2. QED
    BY <1>1, <2>1, AppendFacts
<1>7. topic' \in [Worker -> Seq(Event)] /\ topic'[w] = t
  BY <1>2, <1>6
<1>8. ASSUME NEW v \in Worker
      PROVE  /\ topic'[v] \in Seq(EventOf[v])
             /\ Len(topic'[v]) \in Nat
             /\ Len(topic[v]) <= Len(topic'[v])
             /\ \A i \in 1 .. Len(topic[v]) : topic'[v][i] = topic[v][i]
  <2>1. Len(topic[v]) \in Nat
    BY Facts
  <2>2. CASE v = w
    BY <1>3, <1>5, <1>7, <2>1, <2>2
  <2>3. CASE v # w
    <3>1. topic'[v] = topic[v]
      BY <1>2, <2>3
    <3>2. QED
      BY <2>1, <3>1 DEF TypeOK
  <2>4. QED
    BY <2>2, <2>3
<1>9. QED
  BY <1>7, <1>8

(* A new record disturbs none of those before it.                          *)
LEMMA PublishInd ==
  ASSUME IndInv, NEW w \in Worker, NEW e \in EventOf[w], Publish(w, e)
  PROVE  IndInv'
<1> USE DEF IndInv, Publish, chainVars, localVars
<1>1. /\ topic' \in [Worker -> Seq(Event)]
      /\ \A v \in Worker : /\ topic'[v] \in Seq(EventOf[v])
                           /\ Len(topic'[v]) \in Nat
                           /\ Len(topic[v]) <= Len(topic'[v])
                           /\ \A i \in 1 .. Len(topic[v]) : topic'[v][i] = topic[v][i]
  BY PublishGrows
<1>2. TypeOK'
  <2>1. \A v \in Worker : pos'[v] \in 0 .. Len(topic'[v])
    BY <1>1, Facts DEF TypeOK
  <2>2. QED
    BY <1>1, <2>1 DEF TypeOK
<1>3. Positions'
  <2>1. committed["product"] <= Len(topic'["product"])
    <3>1. committed["product"] \in Int
      BY Facts DEF TypeOK, NoOffset
    <3>2. /\ Len(topic["product"]) <= Len(topic'["product"])
          /\ Len(topic["product"]) \in Nat /\ Len(topic'["product"]) \in Nat
      BY <1>1, Facts
    <3>3. QED
      BY <3>1, <3>2 DEF Positions
  <2>2. QED
    BY <2>1 DEF Positions
<1>4. ReceiptIsOwn' /\ SubmittedInOrder'
  BY DEF ReceiptIsOwn, SubmittedInOrder
<1>5. SentSoFar'
  BY <1>1, Facts DEF SentSoFar
<1>6. \A r \in 1 .. Len(topic["product"]) : Settled(r) => Settled(r)'
  <2>1. mined <= mined' /\ \A i \in 1 .. mined : sent'[i] = sent[i]
    BY DEF TypeOK
  <2>2. \A i \in 1 .. Len(topic["product"]) : topic'["product"][i] = topic["product"][i]
    BY <1>1, Facts
  <2>3. QED
    BY <1>2, <2>1, <2>2, SettledStays
<1>7. OffsetEarned'
  <2>1. pc["product"] = "offset" => pos["product"] \in 1 .. Len(topic["product"])
    BY Facts DEF Positions, InRecord, TypeOK
  <2>2. QED
    BY <1>6, <2>1 DEF OffsetEarned
<1>8. OffsetBehindContract'
  BY <1>6, OffsetRange DEF OffsetBehindContract, Settled
<1>9. QED
  BY <1>2, <1>3, <1>4, <1>5, <1>7, <1>8

(* The other environment steps.                                            *)
LEMMA EnvironmentInd ==
  ASSUME IndInv, (\E e \in ProductEvent : DeleteWallet(e)) \/ Mine
  PROVE  IndInv'
<1> USE DEF IndInv, DeleteWallet, Mine, kafkaVars, chainVars, localVars
<1>1. mined \in Nat /\ Len(sent) \in Nat /\ mined <= Len(sent)
  BY Facts DEF TypeOK
<1>2. /\ UNCHANGED <<kafkaVars, sent, localVars, crashes>>
      /\ walletGone' \in SUBSET ProductEvent /\ walletGone \subseteq walletGone'
      /\ mined' \in 0 .. Len(sent) /\ mined <= mined'
  BY <1>1 DEF TypeOK
<1> HIDE DEF DeleteWallet, Mine
<1>3. TypeOK'
  BY <1>2 DEF TypeOK
<1>4. Positions' /\ ReceiptIsOwn' /\ SentSoFar'
  BY <1>2 DEF Positions, ReceiptIsOwn, SentSoFar
<1>5. OffsetEarned'
  <2>1. pc["product"] = "offset" => pos["product"] \in 1 .. Len(topic["product"])
    BY Facts DEF Positions, InRecord, TypeOK
  <2>2. \A r \in 1 .. Len(topic["product"]) : Settled(r) => Settled(r)'
    <3>1. \A i \in 1 .. mined : sent'[i] = sent[i]
      BY <1>2
    <3>2. \A i \in 1 .. Len(topic["product"]) : topic'["product"][i] = topic["product"][i]
      BY <1>2
    <3>3. QED
      BY <1>2, <1>3, <3>1, <3>2, SettledStays
  <2>3. QED
    BY <1>2, <2>1, <2>2 DEF OffsetEarned
<1>6. QED
  BY <1>2, <1>3, <1>4, <1>5, QuietInd

(* A start begins behind everything sent, or at the first unsettled record.*)
LEMMA StartInd ==
  ASSUME IndInv, NEW w \in Worker, Start(w)
  PROVE  IndInv'
<1> USE DEF IndInv, Start, kafkaVars, chainVars
<1>1. /\ Len(topic[w]) \in Nat
      /\ committed[w] # NoOffset => committed[w] \in Nat /\ committed[w] <= Len(topic[w])
  BY Facts DEF TypeOK, Positions, Worker
<1>2. ResumeAt(w) \in 0 .. Len(topic[w])
  BY <1>1 DEF ResumeAt
<1>3. TypeOK'
  BY <1>2 DEF TypeOK
<1>4. Positions'
  BY <1>2 DEF Positions, TypeOK, ResumeAt, InRecord, Worker
<1>5. ReceiptIsOwn'
  BY DEF ReceiptIsOwn, TypeOK
<1>6. SentSoFar'
  <2>1. SUFFICES ASSUME NEW i \in 1 .. Len(sent) PROVE
          /\ sent[i].by = "price" =>
               /\ sent[i].record <= pos'["price"]
               /\ pc'["price"] \in {"nonce", "send"} => sent[i].record < pos'["price"]
          /\ sent[i].by = "product" =>
               IF committed["product"] # NoOffset
               THEN sent[i].record <= committed["product"] + 1
               ELSE /\ sent[i].record <= Len(topic["product"])
                    /\ pc'["product"] # "down" => sent[i].record <= pos'["product"]
    BY DEF SentSoFar
  <2>2. CASE w = "price"
    <3>1. pos["price"] <= Len(topic["price"]) /\ pos'["price"] = Len(topic["price"])
      BY <2>2 DEF TypeOK, Positions, ResumeAt
    <3>2. /\ pc'["price"] = "ready"
          /\ pos'["product"] = pos["product"] /\ pc'["product"] = pc["product"]
      BY <2>2 DEF TypeOK, Worker
    <3>3. QED
      BY <3>1, <3>2, Facts DEF SentSoFar
  <2>3. CASE w = "product"
    <3>1. pos'["price"] = pos["price"] /\ pc'["price"] = pc["price"]
      BY <2>3 DEF TypeOK, Worker
    <3>2. committed["product"] = NoOffset => pos'["product"] = Len(topic["product"])
      BY <2>3 DEF TypeOK, ResumeAt
    <3>3. QED
      BY <3>1, <3>2 DEF SentSoFar
  <2>4. QED
    BY <2>2, <2>3 DEF Worker
<1>7. OffsetEarned'
  BY DEF OffsetEarned, TypeOK, Settled, AppliedBy, Worker
<1>8. mined <= mined'
  BY Facts DEF TypeOK
<1>9. QED
  BY <1>3, <1>4, <1>5, <1>6, <1>7, <1>8, QuietInd

(* The worker turns to the next record.                                    *)
LEMMA TakeInd ==
  ASSUME IndInv, NEW w \in Worker, Take(w)
  PROVE  IndInv'
<1> USE DEF IndInv, Take, kafkaVars, chainVars
<1>1. /\ Len(topic[w]) \in Nat /\ pos[w] \in Nat
      /\ pos' = [pos EXCEPT ![w] = pos[w] + 1] /\ pos[w] + 1 <= Len(topic[w])
      /\ pc' = [pc EXCEPT ![w] = "nonce"] /\ pc[w] = "ready"
  BY Facts
<1>2. TypeOK'
  BY <1>1 DEF TypeOK
<1>3. Positions'
  BY <1>1 DEF Positions, TypeOK, InRecord, Worker
<1>4. ReceiptIsOwn'
  BY DEF ReceiptIsOwn, TypeOK
<1>5. SentSoFar'
  <2>1. CASE w = "price"
    <3>1. /\ pos'["price"] = pos["price"] + 1
          /\ pos'["product"] = pos["product"] /\ pc'["product"] = pc["product"]
      BY <1>1, <2>1 DEF TypeOK, Worker
    <3>2. QED
      BY <1>1, <2>1, <3>1, Facts DEF SentSoFar
  <2>2. CASE w = "product"
    <3>1. /\ pos'["product"] = pos["product"] + 1 /\ pc["product"] = "ready"
          /\ pos'["price"] = pos["price"] /\ pc'["price"] = pc["price"]
      BY <1>1, <2>2 DEF TypeOK, Worker
    <3>2. QED
      BY <1>1, <2>2, <3>1, Facts DEF SentSoFar
  <2>3. QED
    BY <2>1, <2>2 DEF Worker
<1>6. OffsetEarned'
  BY DEF OffsetEarned, TypeOK, Settled, AppliedBy, Worker
<1>7. mined <= mined'
  BY Facts DEF TypeOK
<1>8. QED
  BY <1>2, <1>3, <1>4, <1>5, <1>6, <1>7, QuietInd

(* A record whose wallet is gone is settled.                               *)
LEMMA PassInd ==
  ASSUME IndInv, PassGoneWallet
  PROVE  IndInv'
<1> USE DEF IndInv, PassGoneWallet, kafkaVars, chainVars
<1>1. /\ Len(topic["product"]) \in Nat /\ pos["product"] \in Nat
      /\ pos' = [pos EXCEPT !["product"] = pos["product"] + 1]
      /\ pos["product"] + 1 <= Len(topic["product"])
      /\ pc' = [pc EXCEPT !["product"] = "offset"] /\ pc["product"] = "ready"
  BY Facts
<1>2. TypeOK'
  BY <1>1 DEF TypeOK, Worker
<1>3. Positions'
  BY <1>1 DEF Positions, TypeOK, InRecord, Worker
<1>4. ReceiptIsOwn'
  BY DEF ReceiptIsOwn, TypeOK, Worker
<1>5. SentSoFar'
  BY <1>1, Facts DEF SentSoFar, TypeOK, Worker
<1>6. OffsetEarned'
  BY Facts DEF OffsetEarned, TypeOK, Settled, Worker
<1>7. mined <= mined'
  BY Facts DEF TypeOK
<1>8. QED
  BY <1>2, <1>3, <1>4, <1>5, <1>6, <1>7, QuietInd

(* Steps that leave the worker with the record it holds, or end it.        *)
LEMMA TryInd ==
  ASSUME IndInv, NEW w \in Worker, ReadNonce(w) \/ Retry(w) \/ GiveUp(w) \/ Crash(w)
  PROVE  IndInv'
<1> USE DEF IndInv, ReadNonce, Retry, GiveUp, Crash, Fail, Die, Sending, kafkaVars, chainVars
<1>1. /\ UNCHANGED <<kafkaVars, walletGone, chainVars, pos>>
      /\ \E to \in {"down", "nonce", "send"} : pc' = [pc EXCEPT ![w] = to]
      /\ pc[w] # "down"
      /\ pc'[w] \in {"nonce", "send"} => pc[w] \in {"nonce", "send"}
      /\ nonce' \in [Worker -> Nat]
      /\ \A v \in Worker : pc'[v] = "wait" => nonce'[v] = nonce[v]
      /\ attempt' \in [Worker -> 0 .. 3] /\ crashes' \in [Worker -> Nat]
  <2>1. CASE ReadNonce(w)
    BY <2>1, Facts DEF TypeOK
  <2>2. CASE Retry(w)
    <3>1. attempt[w] \in 0 .. 3 /\ attempt[w] < 3
      BY <2>2 DEF TypeOK
    <3>2. attempt[w] + 1 \in 0 .. 3
      BY <3>1
    <3>3. QED
      BY <2>2, <3>2 DEF TypeOK
  <2>3. CASE GiveUp(w)
    BY <2>3, Facts DEF TypeOK
  <2>4. CASE Crash(w)
    <3>1. crashes[w] + 1 \in Nat
      BY DEF TypeOK
    <3>2. QED
      BY <2>4, <3>1 DEF TypeOK
  <2>5. QED
    BY <2>1, <2>2, <2>3, <2>4
<1> HIDE DEF ReadNonce, Retry, GiveUp, Crash, Fail, Die, Sending
<1>2. TypeOK'
  BY <1>1 DEF TypeOK
<1>3. Positions'
  BY <1>1 DEF Positions, TypeOK, InRecord, Worker
<1>4. ReceiptIsOwn'
  BY <1>1 DEF ReceiptIsOwn, TypeOK
<1>5. SentSoFar'
  BY <1>1, Facts DEF SentSoFar, TypeOK, Worker
<1>6. OffsetEarned'
  BY <1>1 DEF OffsetEarned, TypeOK, Settled, AppliedBy, Worker
<1>7. mined <= mined'
  BY <1>1, Facts DEF TypeOK
<1>8. QED
  BY <1>1, <1>2, <1>3, <1>4, <1>5, <1>6, <1>7, QuietInd

(* The receipt that arrives is the record's own, so it is in the contract. *)
LEMMA ConfirmInd ==
  ASSUME IndInv, NEW w \in Worker, Confirm(w)
  PROVE  IndInv'
<1> USE DEF IndInv, Confirm, kafkaVars, chainVars
<1>1. /\ pc[w] = "wait" /\ nonce[w] < mined
      /\ pc' = [pc EXCEPT ![w] = IF w = "price" THEN "ready" ELSE "offset"]
  OBVIOUS
<1>2. TypeOK'
  BY DEF TypeOK
<1>3. Positions'
  BY <1>1 DEF Positions, TypeOK, InRecord, Worker, NoOffset
<1>4. ReceiptIsOwn'
  BY <1>1 DEF ReceiptIsOwn, TypeOK
<1>5. SentSoFar'
  BY <1>1, Facts DEF SentSoFar, TypeOK, Worker
<1>6. OffsetEarned'
  <2>1. CASE w = "product"
    <3>1. nonce[w] \in Nat /\ mined \in Nat
      BY Facts DEF TypeOK
    <3>2. nonce[w] + 1 \in 1 .. mined
      BY <1>1, <3>1
    <3>3. sent[nonce[w] + 1] = [by |-> w, record |-> pos[w]]
      BY <1>1 DEF ReceiptIsOwn
    <3>4. pos["product"] \in AppliedBy("product")
      BY <2>1, <3>2, <3>3 DEF AppliedBy
    <3>5. QED
      BY <3>4 DEF OffsetEarned, Settled, AppliedBy
  <2>2. CASE w = "price"
    BY <2>2 DEF OffsetEarned, TypeOK, Settled, AppliedBy, Worker
  <2>3. QED
    BY <2>1, <2>2 DEF Worker
<1>7. mined <= mined'
  BY Facts DEF TypeOK
<1>8. QED
  BY <1>2, <1>3, <1>4, <1>5, <1>6, <1>7, QuietInd

(* A transaction goes behind all of the worker's earlier ones.             *)
LEMMA SubmitInd ==
  ASSUME IndInv, NEW w \in Worker, Send(w) \/ SendUnanswered(w)
  PROVE  IndInv'
<1> USE DEF IndInv
<1>1. /\ pc[w] = "send" /\ nonce[w] = Len(sent)
      /\ sent' = Append(sent, [by |-> w, record |-> pos[w]])
      /\ UNCHANGED <<kafkaVars, walletGone, mined, pos, nonce, attempt>>
      /\ \E to \in {"wait", "down"} : pc' = [pc EXCEPT ![w] = to]
      /\ crashes' \in [Worker -> Nat]
  <2>1. CASE Send(w)
    BY <2>1 DEF Send, Sending, TypeOK
  <2>2. CASE SendUnanswered(w)
    <3>1. crashes[w] + 1 \in Nat
      BY DEF TypeOK
    <3>2. QED
      BY <2>2, <3>1 DEF SendUnanswered, Sending, Fail, Die, TypeOK, kafkaVars
  <2>3. QED
    BY <2>1, <2>2
<1>2. [by |-> w, record |-> pos[w]] \in Tx
  BY Facts DEF Tx
<1>3. /\ sent' \in Seq(Tx) /\ Len(sent') = Len(sent) + 1
      /\ \A i \in 1 .. Len(sent) : sent'[i] = sent[i]
      /\ sent'[Len(sent) + 1] = [by |-> w, record |-> pos[w]]
  BY <1>1, <1>2, AppendFacts DEF TypeOK
<1>4. Len(sent) \in Nat /\ mined \in Nat /\ mined <= Len(sent)
  BY Facts DEF TypeOK
<1>5. TypeOK'
  <2>1. mined' \in 0 .. Len(sent')
    BY <1>1, <1>3, <1>4
  <2>2. pc' \in [Worker -> {"down", "ready", "nonce", "send", "wait", "offset"}]
    BY <1>1 DEF TypeOK
  <2>3. QED
    BY <1>1, <1>3, <2>1, <2>2 DEF TypeOK, kafkaVars
<1>6. Positions'
  BY <1>1 DEF Positions, kafkaVars, TypeOK, InRecord, Worker
<1>7. ReceiptIsOwn'
  <2>1. SUFFICES ASSUME NEW v \in Worker, pc'[v] = "wait"
                 PROVE  /\ nonce[v] < Len(sent')
                        /\ sent'[nonce[v] + 1] = [by |-> v, record |-> pos[v]]
    BY <1>1 DEF ReceiptIsOwn
  <2>2. CASE v = w
    BY <1>1, <1>3, <1>4, <2>2
  <2>3. CASE v # w
    <3>1. pc[v] = "wait" /\ nonce[v] \in Nat
      BY <1>1, <2>1, <2>3 DEF TypeOK
    <3>2. nonce[v] < Len(sent) /\ sent[nonce[v] + 1] = [by |-> v, record |-> pos[v]]
      BY <3>1 DEF ReceiptIsOwn
    <3>3. QED
      BY <1>3, <1>4, <3>1, <3>2
  <2>4. QED
    BY <2>2, <2>3
(* Everything the worker has sent is for records up to the one in work,    *)
(* and before it if the worker is the price worker.                        *)
<1>8. /\ pos[w] \in Nat /\ pos[w] <= Len(topic[w])
      /\ w = "product" /\ committed["product"] # NoOffset =>
           pos[w] = committed["product"] + 1
      /\ pc'["price"] \notin {"nonce", "send"} \/ w = "product"
  BY <1>1, Facts DEF Positions, TypeOK, InRecord, Worker
<1>9. \A i \in 1 .. Len(sent) : sent[i].by = w =>
        /\ sent[i].record <= pos[w]
        /\ w = "price" => sent[i].record < pos[w]
  <2>1. TAKE i \in 1 .. Len(sent)
  <2>2. CASE w = "price"
    BY <1>1, <2>2 DEF SentSoFar
  <2>3. CASE w = "product"
    BY <1>1, <1>8, <2>3 DEF SentSoFar
  <2>4. QED
    BY <2>2, <2>3 DEF Worker
<1>10. SentSoFar'
  <2>1. \A i \in 1 .. Len(sent') : i \in 1 .. Len(sent) \/ i = Len(sent) + 1
    BY <1>3, <1>4
  <2>2. ASSUME NEW i \in 1 .. Len(sent), sent[i].by = "price"
        PROVE  /\ sent[i].record <= pos'["price"]
               /\ pc'["price"] \in {"nonce", "send"} => sent[i].record < pos'["price"]
    BY <1>1, <2>2 DEF SentSoFar, TypeOK, Worker
  <2>3. ASSUME NEW i \in 1 .. Len(sent), sent[i].by = "product"
        PROVE  IF committed'["product"] # NoOffset
               THEN sent[i].record <= committed'["product"] + 1
               ELSE /\ sent[i].record <= Len(topic'["product"])
                    /\ pc'["product"] # "down" => sent[i].record <= pos'["product"]
    <3>1. pc'["product"] # "down" => pc["product"] # "down"
      BY <1>1 DEF TypeOK, Worker
    <3>2. QED
      BY <1>1, <2>3, <3>1 DEF SentSoFar, kafkaVars
  <2>4. w = "price" => pos[w] <= pos'["price"] /\ pc'["price"] \notin {"nonce", "send"}
    BY <1>1, <1>8
  <2>5. w = "product" => IF committed'["product"] # NoOffset
                         THEN pos[w] <= committed'["product"] + 1
                         ELSE pos[w] <= Len(topic'["product"]) /\ pos[w] <= pos'["product"]
    BY <1>1, <1>8 DEF kafkaVars
  <2>6. QED
    BY <1>3, <2>1, <2>2, <2>3, <2>4, <2>5 DEF SentSoFar
<1>11. SubmittedInOrder'
  <2>1. SUFFICES ASSUME NEW i \in 1 .. Len(sent'), NEW j \in 1 .. Len(sent'),
                        i < j, sent'[i].by = sent'[j].by
                 PROVE  /\ sent'[i].record <= sent'[j].record
                        /\ sent'[i].by = "price" => sent'[i].record < sent'[j].record
    BY DEF SubmittedInOrder
  <2>2. i \in 1 .. Len(sent) /\ (j \in 1 .. Len(sent) \/ j = Len(sent) + 1)
    BY <1>3, <1>4, <2>1
  <2>3. CASE j \in 1 .. Len(sent)
    BY <1>3, <2>1, <2>2, <2>3 DEF SubmittedInOrder
  <2>4. CASE j = Len(sent) + 1
    BY <1>3, <1>9, <2>1, <2>2, <2>4
  <2>5. QED
    BY <2>2, <2>3, <2>4
<1>12. OffsetEarned' /\ OffsetBehindContract'
  <2>1. \A r \in 1 .. Len(topic["product"]) : Settled(r) => Settled(r)'
    <3>1. \A i \in 1 .. mined : sent'[i] = sent[i]
      BY <1>3, <1>4
    <3>2. mined <= mined' /\ walletGone \subseteq walletGone'
      BY <1>1, <1>4
    <3>3. \A i \in 1 .. Len(topic["product"]) : topic'["product"][i] = topic["product"][i]
      BY <1>1 DEF kafkaVars
    <3>4. QED
      BY <1>5, <3>1, <3>2, <3>3, SettledStays
  <2>2. pc'["product"] = "offset" => pc["product"] = "offset"
    BY <1>1 DEF TypeOK, Worker
  <2>3. pc["product"] = "offset" => pos["product"] \in 1 .. Len(topic["product"])
    BY Facts DEF Positions, InRecord, TypeOK
  <2>4. OffsetEarned'
    BY <1>1, <2>1, <2>2, <2>3 DEF OffsetEarned
  <2>5. OffsetBehindContract'
    BY <1>1, <2>1, OffsetRange DEF OffsetBehindContract, Settled, kafkaVars
  <2>6. QED
    BY <2>4, <2>5
<1>13. QED
  BY <1>5, <1>6, <1>7, <1>10, <1>11, <1>12

(* The offset moves over one settled record.                               *)
LEMMA CommitInd ==
  ASSUME IndInv, CommitOffset
  PROVE  IndInv'
<1> USE DEF IndInv, CommitOffset, NextOffset, chainVars
<1>1. /\ pos["product"] \in Nat \ {0} /\ Len(topic["product"]) \in Nat
      /\ pos["product"] <= Len(topic["product"])
      /\ committed["product"] # NoOffset => pos["product"] = committed["product"] + 1
      /\ committed'["product"] = pos["product"] /\ committed'["price"] = committed["price"]
      /\ committed["product"] \in Nat \cup {NoOffset}
      /\ base["product"] \in Nat
      /\ base' \in [Worker -> Nat]
      /\ base'["product"] = IF committed["product"] = NoOffset
                            THEN pos["product"] - 1 ELSE base["product"]
      /\ pc'["product"] = "ready" /\ pc'["price"] = pc["price"]
  <2>1. /\ pos["product"] \in Nat \ {0} /\ Len(topic["product"]) \in Nat
        /\ pos["product"] <= Len(topic["product"])
        /\ committed["product"] # NoOffset => pos["product"] = committed["product"] + 1
    BY Facts DEF Positions, TypeOK, InRecord
  <2>2. pos["product"] - 1 \in Nat
    BY <2>1
  <2>3. QED
    BY <2>1, <2>2 DEF TypeOK, Worker
<1>2. TypeOK'
  BY <1>1 DEF TypeOK, Worker
<1>3. Positions'
  BY <1>1 DEF Positions, TypeOK, InRecord, Worker, NoOffset
<1>4. ReceiptIsOwn'
  BY <1>1 DEF ReceiptIsOwn, TypeOK, Worker
<1>5. SentSoFar'
  <2>1. SUFFICES ASSUME NEW i \in 1 .. Len(sent), sent[i].by = "product"
                 PROVE  sent[i].record <= pos["product"] + 1
    BY <1>1 DEF SentSoFar, NoOffset
  <2>2. sent[i].record \in Nat
    BY Facts
  <2>3. sent[i].record <= pos["product"]
    BY <1>1, <2>1 DEF SentSoFar
  <2>4. QED
    BY <1>1, <2>2, <2>3
<1>6. SubmittedInOrder'
  BY DEF SubmittedInOrder
<1>7. OffsetEarned'
  BY <1>1 DEF OffsetEarned
<1>8. OffsetBehindContract'
  <2>1. SUFFICES ASSUME NEW i \in base'["product"] + 1 .. pos["product"]
                 PROVE  Settled(i)
    BY <1>1 DEF OffsetBehindContract, Settled, AppliedBy
  <2>2. CASE i = pos["product"]
    BY <2>2 DEF OffsetEarned
  <2>3. CASE i # pos["product"]
    <3>1. committed["product"] # NoOffset /\ i \in base["product"] + 1 .. committed["product"]
      BY <1>1, <2>1, <2>3
    <3>2. QED
      BY <3>1 DEF OffsetBehindContract, Settled
  <2>4. QED
    BY <2>2, <2>3
<1>9. QED
  BY <1>2, <1>3, <1>4, <1>5, <1>6, <1>7, <1>8

(* Every step keeps the inductive invariant.                               *)
LEMMA StepInd == IndInv /\ [Next]_vars => IndInv'
<1> SUFFICES ASSUME IndInv, [Next]_vars PROVE IndInv'
  OBVIOUS
<1>1. CASE \E w \in Worker : \E e \in EventOf[w] : Publish(w, e)
  BY <1>1, PublishInd
<1>2. CASE (\E e \in ProductEvent : DeleteWallet(e)) \/ Mine
  BY <1>2, EnvironmentInd
<1>3. CASE \E w \in Worker : Start(w) \/ Take(w)
  BY <1>3, StartInd, TakeInd
<1>4. CASE \E w \in Worker : ReadNonce(w) \/ Retry(w) \/ GiveUp(w) \/ Crash(w)
  BY <1>4, TryInd
<1>5. CASE \E w \in Worker : Send(w) \/ SendUnanswered(w)
  BY <1>5, SubmitInd
<1>6. CASE \E w \in Worker : Confirm(w)
  BY <1>6, ConfirmInd
<1>7. CASE PassGoneWallet
  BY <1>7, PassInd
<1>8. CASE CommitOffset
  BY <1>8, CommitInd
<1>9. CASE UNCHANGED vars
  BY <1>9 DEF IndInv, vars, kafkaVars, chainVars, localVars, TypeOK, Positions, ReceiptIsOwn,
     SentSoFar, SubmittedInOrder, OffsetEarned, Settled, AppliedBy, OffsetBehindContract
<1>10. QED
  BY <1>1, <1>2, <1>3, <1>4, <1>5, <1>6, <1>7, <1>8, <1>9 DEF Next, Handle

LEMMA AlwaysInd == Spec => []IndInv
BY InitInd, StepInd, PTL DEF Spec

(* TypeOK holds in every reachable state: in particular the signer's       *)
(* transactions are mined in the order of their nonces, without holes.     *)
THEOREM TypeCorrect == Spec => []TypeOK
<1>1. IndInv => TypeOK
  BY DEF IndInv
<1>2. QED
  BY <1>1, AlwaysInd, PTL

(* ReceiptIsOwn: two workers share one account, and yet the receipt a      *)
(* worker waits for is the one of its own transaction.                     *)
THEOREM OwnReceipt == Spec => []ReceiptIsOwn
<1>1. IndInv => ReceiptIsOwn
  BY DEF IndInv
<1>2. QED
  BY <1>1, AlwaysInd, PTL

(* SubmittedInOrder: restarts do not make a worker send an older record    *)
(* after a newer one, and a price is never sent twice.                     *)
THEOREM InOrder == Spec => []SubmittedInOrder
<1>1. IndInv => SubmittedInOrder
  BY DEF IndInv
<1>2. QED
  BY <1>1, AlwaysInd, PTL

(* OffsetBehindContract: the committed offset of ProductSyncService never  *)
(* covers a record that is neither in the contract nor void.               *)
THEOREM OffsetCoversContract == Spec => []OffsetBehindContract
<1>1. IndInv => OffsetBehindContract
  BY DEF IndInv
<1>2. QED
  BY <1>1, AlwaysInd, PTL

-----------------------------------------------------------------------------
(* ResendsBounded.  A record not yet sent since the worker's last failure  *)
(* has at most as many transactions as the worker has failed.              *)

Copies(w, r) == {i \in 1 .. Len(sent) : sent[i] = [by |-> w, record |-> r]}

Ahead(w, r) ==
  \/ r > pos[w]
  \/ r = pos[w] /\ pc[w] \in {"nonce", "send"}
  \/ pc[w] = "down" /\ committed[w] # NoOffset /\ r > committed[w]

CountInv ==
  \A w \in Worker : \A r \in Nat :
    Cardinality(Copies(w, r)) <= IF Ahead(w, r) THEN crashes[w] ELSE crashes[w] + 1

LEMMA CopiesFinite ==
  ASSUME TypeOK, NEW w, NEW r
  PROVE  IsFiniteSet(Copies(w, r)) /\ Cardinality(Copies(w, r)) \in Nat
<1>0. Len(sent) \in Int
  BY Facts
<1>1. IsFiniteSet(1 .. Len(sent))
  BY <1>0, FS_Interval
<1>2. IsFiniteSet(Copies(w, r))
  BY <1>1, FS_Subset DEF Copies
<1>3. QED
  BY <1>2, FS_CardinalityType

(* Steps that send nothing, and put no record ahead of its worker again    *)
(* but by a failure.                                                       *)
LEMMA QuietCount ==
  ASSUME TypeOK, CountInv, sent' = sent,
         \A w \in Worker : \A r \in Nat :
           \/ crashes'[w] = crashes[w] /\ (Ahead(w, r)' => Ahead(w, r))
           \/ crashes'[w] = crashes[w] + 1
  PROVE  CountInv'
<1>1. SUFFICES ASSUME NEW w \in Worker, NEW r \in Nat
               PROVE  Cardinality(Copies(w, r)) <=
                        IF Ahead(w, r)' THEN crashes'[w] ELSE crashes'[w] + 1
  BY DEF CountInv, Copies
<1>2. Cardinality(Copies(w, r)) \in Nat /\ crashes[w] \in Nat
  BY CopiesFinite DEF TypeOK
<1>3. Cardinality(Copies(w, r)) <= IF Ahead(w, r) THEN crashes[w] ELSE crashes[w] + 1
  BY DEF CountInv
<1>4. QED
  BY <1>2, <1>3

(* Init sends nothing.                                                     *)
LEMMA InitCount == Init => CountInv
<1>1. SUFFICES ASSUME Init, NEW w \in Worker, NEW r \in Nat
               PROVE  Cardinality(Copies(w, r)) <=
                        IF Ahead(w, r) THEN crashes[w] ELSE crashes[w] + 1
  BY DEF CountInv
<1>2. Copies(w, r) = {} /\ crashes[w] = 0
  BY <1>1 DEF Init, Copies
<1>3. QED
  BY <1>2, FS_EmptySet

(* A transaction is one more copy of the record in work.                   *)
LEMMA SubmitCount ==
  ASSUME IndInv, CountInv, NEW w \in Worker, Send(w) \/ SendUnanswered(w)
  PROVE  CountInv'
<1>1. TypeOK
  BY DEF IndInv
<1>2. /\ pc[w] = "send"
      /\ sent' = Append(sent, [by |-> w, record |-> pos[w]])
      /\ UNCHANGED <<committed, pos>>
      /\ \A v \in Worker \ {w} : pc'[v] = pc[v] /\ crashes'[v] = crashes[v]
      /\ \/ pc'[w] = "wait" /\ crashes'[w] = crashes[w]
         \/ crashes'[w] = crashes[w] + 1
  BY <1>1 DEF Send, SendUnanswered, Sending, Fail, Die, kafkaVars, TypeOK
<1>3. /\ Len(sent) \in Nat /\ Len(sent') = Len(sent) + 1
      /\ \A i \in 1 .. Len(sent) : sent'[i] = sent[i]
      /\ sent'[Len(sent) + 1] = [by |-> w, record |-> pos[w]]
  <2>1. [by |-> w, record |-> pos[w]] \in Tx
    BY <1>1, Facts DEF Tx
  <2>2. QED
    BY <1>1, <1>2, <2>1, Facts, AppendFacts DEF TypeOK
<1>4. SUFFICES ASSUME NEW v \in Worker, NEW r \in Nat
               PROVE  Cardinality(Copies(v, r)') <=
                        IF Ahead(v, r)' THEN crashes'[v] ELSE crashes'[v] + 1
  BY DEF CountInv
<1>5. /\ IsFiniteSet(Copies(v, r)) /\ Cardinality(Copies(v, r)) \in Nat
      /\ crashes[v] \in Nat /\ pos[v] \in Nat
      /\ Cardinality(Copies(v, r)) <= IF Ahead(v, r) THEN crashes[v] ELSE crashes[v] + 1
  BY <1>1, CopiesFinite, Facts DEF CountInv, TypeOK
<1>6. CASE v = w /\ r = pos[w]
  <2>1. Copies(v, r)' = Copies(v, r) \cup {Len(sent) + 1}
    BY <1>3, <1>6 DEF Copies
  <2>2. Len(sent) + 1 \notin Copies(v, r)
    BY <1>3 DEF Copies
  <2>3. Cardinality(Copies(v, r)') = Cardinality(Copies(v, r)) + 1
    BY <1>5, <2>1, <2>2, FS_AddElement
  <2>4. Ahead(v, r)
    BY <1>2, <1>6 DEF Ahead
  <2>5. pc'[w] = "wait" => ~Ahead(v, r)'
    BY <1>2, <1>5, <1>6 DEF Ahead
  <2>6. QED
    BY <1>2, <1>5, <1>6, <2>3, <2>4, <2>5
<1>7. CASE ~(v = w /\ r = pos[w])
  <2>1. Copies(v, r)' = Copies(v, r)
    BY <1>3, <1>7 DEF Copies
  <2>2. crashes'[v] = crashes[v] => (Ahead(v, r)' => Ahead(v, r))
    BY <1>2, <1>5, <1>7 DEF Ahead
  <2>3. crashes'[v] = crashes[v] \/ crashes'[v] = crashes[v] + 1
    BY <1>2
  <2>4. QED
    BY <1>5, <2>1, <2>2, <2>3
<1>8. QED
  BY <1>6, <1>7

(* Every step keeps the count.                                             *)
LEMMA StepCount == IndInv /\ CountInv /\ [Next]_vars => CountInv'
<1> SUFFICES ASSUME IndInv, CountInv, [Next]_vars PROVE CountInv'
  OBVIOUS
<1>1. TypeOK /\ Positions
  BY DEF IndInv
<1>2. \A w \in Worker : pos[w] \in Nat /\ Len(topic[w]) \in Nat /\ pos[w] <= Len(topic[w])
                       /\ crashes[w] \in Nat
  BY <1>1, Facts DEF TypeOK
<1>3. ASSUME NEW w \in Worker, Start(w) PROVE CountInv'
  <2>1. ASSUME NEW v \in Worker, NEW r \in Nat, Ahead(v, r)' PROVE Ahead(v, r)
    BY <1>1, <1>2, <1>3, <2>1 DEF Start, Ahead, ResumeAt, TypeOK, kafkaVars
  <2>2. QED
    BY <1>1, <1>3, <2>1, QuietCount DEF Start, chainVars
<1>4. ASSUME NEW w \in Worker, Take(w) PROVE CountInv'
  <2>1. ASSUME NEW v \in Worker, NEW r \in Nat, Ahead(v, r)' PROVE Ahead(v, r)
    BY <1>1, <1>2, <1>4, <2>1 DEF Take, Ahead, TypeOK, kafkaVars
  <2>2. QED
    BY <1>1, <1>4, <2>1, QuietCount DEF Take, chainVars
<1>5. ASSUME PassGoneWallet PROVE CountInv'
  <2>1. ASSUME NEW v \in Worker, NEW r \in Nat, Ahead(v, r)' PROVE Ahead(v, r)
    BY <1>1, <1>2, <1>5, <2>1 DEF PassGoneWallet, Ahead, TypeOK, kafkaVars
  <2>2. QED
    BY <1>1, <1>5, <2>1, QuietCount DEF PassGoneWallet, chainVars
<1>6. ASSUME NEW w \in Worker, ReadNonce(w) \/ Retry(w) \/ Confirm(w) PROVE CountInv'
  <2>1. ASSUME NEW v \in Worker, NEW r \in Nat, Ahead(v, r)' PROVE Ahead(v, r)
    BY <1>1, <1>2, <1>6, <2>1
       DEF ReadNonce, Retry, Sending, Confirm, Ahead, TypeOK, kafkaVars
  <2>2. QED
    BY <1>1, <1>6, <2>1, QuietCount DEF ReadNonce, Retry, Confirm, chainVars
<1>7. ASSUME NEW w \in Worker, GiveUp(w) PROVE CountInv'
  <2>1. ASSUME NEW v \in Worker, NEW r \in Nat, Ahead(v, r)' PROVE Ahead(v, r)
    <3>1. CASE v = w
      <4>1. pc[w] = "send" /\ UNCHANGED <<pos, committed>>
        BY <1>7 DEF GiveUp, Die, kafkaVars
      <4>2. committed[w] # NoOffset => pos[w] = committed[w] + 1 /\ committed[w] \in Nat
        BY <1>1, <4>1 DEF Positions, TypeOK, InRecord, Worker
      <4>3. QED
        BY <1>2, <2>1, <3>1, <4>1, <4>2 DEF Ahead
    <3>2. CASE v # w
      BY <1>1, <1>7, <2>1, <3>2 DEF GiveUp, Die, Ahead, TypeOK, kafkaVars
    <3>3. QED
      BY <3>1, <3>2
  <2>2. QED
    BY <1>1, <1>7, <2>1, QuietCount DEF GiveUp, Die, chainVars
<1>8. ASSUME NEW w \in Worker, Crash(w) PROVE CountInv'
  <2>1. ASSUME NEW v \in Worker, v # w, NEW r \in Nat, Ahead(v, r)' PROVE Ahead(v, r)
    BY <1>1, <1>8, <2>1 DEF Crash, Fail, Die, Ahead, TypeOK, kafkaVars
  <2>2. \A v \in Worker : crashes'[v] = IF v = w THEN crashes[v] + 1 ELSE crashes[v]
    BY <1>1, <1>8 DEF Crash, Fail, TypeOK
  <2>3. QED
    BY <1>1, <1>8, <2>1, <2>2, QuietCount DEF Crash, chainVars
<1>9. ASSUME CommitOffset PROVE CountInv'
  <2>1. ASSUME NEW v \in Worker, NEW r \in Nat, Ahead(v, r)' PROVE Ahead(v, r)
    BY <1>1, <1>2, <1>9, <2>1 DEF CommitOffset, Ahead, TypeOK
  <2>2. QED
    BY <1>1, <1>9, <2>1, QuietCount DEF CommitOffset, chainVars
<1>10. ASSUME \/ \E w \in Worker : \E e \in EventOf[w] : Publish(w, e)
              \/ \E e \in ProductEvent : DeleteWallet(e)
              \/ Mine
              \/ UNCHANGED vars
       PROVE  CountInv'
  <2>1. UNCHANGED <<sent, committed, pos, pc, crashes>>
    BY <1>10 DEF Publish, DeleteWallet, Mine, vars, kafkaVars, chainVars, localVars
  <2>2. QED
    BY <2>1 DEF CountInv, Copies, Ahead
<1>11. QED
  BY <1>3, <1>4, <1>5, <1>6, <1>7, <1>8, <1>9, <1>10, SubmitCount DEF Next, Handle

(* ResendsBounded: a record costs at most one transaction more than its    *)
(* worker has failed.                                                      *)
THEOREM ResendsPaidFor == Spec => []ResendsBounded
<1>1. IndInv /\ CountInv => ResendsBounded
  <2>1. SUFFICES ASSUME IndInv, CountInv, NEW w \in Worker, NEW r \in 1 .. Len(topic[w])
                 PROVE  Cardinality(Copies(w, r)) <= 1 + crashes[w]
    BY DEF ResendsBounded, Copies
  <2>2. TypeOK
    BY <2>1 DEF IndInv
  <2>3. r \in Nat
    BY <2>2, Facts
  <2>4. crashes[w] \in Nat /\ Cardinality(Copies(w, r)) \in Nat
    BY <2>2, CopiesFinite DEF TypeOK
  <2>5. QED
    BY <2>1, <2>3, <2>4 DEF CountInv
<1>2. Spec => []CountInv
  BY AlwaysInd, InitCount, StepCount, PTL DEF Spec
<1>3. QED
  BY <1>1, <1>2, AlwaysInd, PTL

-----------------------------------------------------------------------------
(* CaughtUpMeansCurrent.  The newest record of a product is settled, and   *)
(* by the order of the transactions nothing older is mined after it.       *)

(* A transaction is for a record of its worker's topic.                    *)
SentRecords == \A i \in 1 .. Len(sent) : sent[i].record \in 1 .. Len(topic[sent[i].by])

LEMMA StepRecords == IndInv /\ SentRecords /\ [Next]_vars => SentRecords'
<1> SUFFICES ASSUME IndInv, SentRecords, [Next]_vars PROVE SentRecords'
  OBVIOUS
<1>1. TypeOK /\ Positions
  BY DEF IndInv
<1>2. ASSUME NEW w \in Worker, NEW e \in EventOf[w], Publish(w, e) PROVE SentRecords'
  <2>1. \A v \in Worker : /\ Len(topic'[v]) \in Nat /\ Len(topic[v]) \in Nat
                         /\ Len(topic[v]) <= Len(topic'[v])
    BY <1>1, <1>2, Facts, PublishGrows
  <2>2. sent' = sent
    BY <1>2 DEF Publish, chainVars
  <2>3. SUFFICES ASSUME NEW i \in 1 .. Len(sent)
                 PROVE  sent[i].record \in 1 .. Len(topic'[sent[i].by])
    BY <2>2 DEF SentRecords
  <2>4. sent[i].by \in Worker /\ sent[i].record \in 1 .. Len(topic[sent[i].by])
    BY <1>1, Facts DEF SentRecords
  <2>5. QED
    BY <2>1, <2>4
<1>3. ASSUME NEW w \in Worker, Send(w) \/ SendUnanswered(w) PROVE SentRecords'
  <2>1. /\ sent' = Append(sent, [by |-> w, record |-> pos[w]])
        /\ topic' = topic /\ pc[w] = "send"
    BY <1>3 DEF Send, SendUnanswered, Sending, Fail, Die, kafkaVars
  <2>2. [by |-> w, record |-> pos[w]] \in Tx
    BY <1>1, Facts DEF Tx
  <2>3. /\ Len(sent) \in Nat /\ Len(sent') = Len(sent) + 1
        /\ \A i \in 1 .. Len(sent) : sent'[i] = sent[i]
        /\ sent'[Len(sent) + 1] = [by |-> w, record |-> pos[w]]
    BY <1>1, <2>1, <2>2, Facts, AppendFacts DEF TypeOK
  <2>4. pos[w] \in 1 .. Len(topic[w])
    BY <1>1, <2>1, Facts DEF TypeOK, Positions, InRecord
  <2>5. \A i \in 1 .. Len(sent') : i \in 1 .. Len(sent) \/ i = Len(sent) + 1
    BY <2>3
  <2>6. QED
    BY <2>1, <2>3, <2>4, <2>5 DEF SentRecords
<1>4. CASE UNCHANGED <<topic, sent>>
  BY <1>4 DEF SentRecords
<1>5. ASSUME NEW w \in Worker, \/ Start(w) \/ Take(w) \/ ReadNonce(w) \/ Retry(w)
                              \/ GiveUp(w) \/ Confirm(w) \/ Crash(w)
      PROVE  UNCHANGED <<topic, sent>>
  BY <1>5 DEF Start, Take, ReadNonce, Retry, GiveUp, Confirm, Crash, Fail, Die, kafkaVars,
     chainVars
<1>6. \/ \E e \in ProductEvent : DeleteWallet(e)
      \/ Mine \/ PassGoneWallet \/ CommitOffset \/ UNCHANGED vars
      => UNCHANGED <<topic, sent>>
  BY DEF DeleteWallet, Mine, PassGoneWallet, CommitOffset, vars, kafkaVars, chainVars
<1>7. QED
  BY <1>2, <1>3, <1>4, <1>5, <1>6 DEF Next, Handle

LEMMA AlwaysRecords == Spec => []SentRecords
<1>1. Init => SentRecords
  BY DEF Init, SentRecords
<1>2. QED
  BY <1>1, AlwaysInd, StepRecords, PTL DEF Spec

(* A set of positions that is not empty has a last one.                    *)
LEMMA LastExists ==
  ASSUME NEW n \in Nat, NEW S, S \subseteq 1 .. n, S # {}
  PROVE  \E m \in S : \A k \in S : k <= m
<1> DEFINE Gap == {n - k : k \in S}
<1>0. \A k \in S : k \in Nat /\ k <= n
  <2>1. \A k \in 1 .. n : k \in Nat /\ k <= n
    OBVIOUS
  <2>2. QED
    BY <2>1
<1>1. Gap \subseteq Nat /\ Gap # {}
  <2>1. \A k \in S : n - k \in Nat
    BY <1>0
  <2>2. QED
    BY <2>1
<1>2. PICK g \in Gap : \A h \in Gap : <<h, g>> \notin OpToRel(<, Nat)
  <2> HIDE DEF Gap
  <2>1. QED
    BY <1>1, WFMin, NatLessThanWellFounded, Zenon
<1>3. \A h \in Gap : ~(h < g)
  BY <1>1, <1>2 DEF OpToRel
<1>4. PICK m \in S : g = n - m
  OBVIOUS
<1>5. \A k \in S : ~(n - k < n - m)
  BY <1>3, <1>4
<1>6. \A k \in S : k <= m
  <2>1. TAKE k \in S
  <2>2. k \in Nat /\ m \in Nat /\ ~(n - k < n - m)
    BY <1>0, <1>4, <1>5
  <2>3. QED
    BY <2>2
<1>7. QED
  BY <1>6

(* CaughtUpMeansCurrent: with its whole topic behind it, ProductSyncService *)
(* has left in the contract the wallet of each product's newest record.    *)
THEOREM ContractIsCurrent == Spec => []CaughtUpMeansCurrent
<1>1. IndInv /\ SentRecords => CaughtUpMeansCurrent
  <2>1. SUFFICES ASSUME IndInv, SentRecords,
                        NEW i \in base["product"] + 1 .. Len(topic["product"]),
                        committed["product"] = Len(topic["product"]),
                        topic["product"][i] \notin walletGone,
                        \A j \in i + 1 .. Len(topic["product"]) :
                          Entry[topic["product"][j]] # Entry[topic["product"][i]]
                 PROVE  Recipient(Entry[topic["product"][i]]) = {topic["product"][i]}
    BY DEF CaughtUpMeansCurrent
  <2> DEFINE k == Entry[topic["product"][i]]
             Set == RecipientSet(k)
  <2>2. /\ TypeOK /\ mined \in Nat /\ mined <= Len(sent) /\ Len(sent) \in Nat
        /\ base["product"] \in Nat /\ Len(topic["product"]) \in Nat
    BY <2>1, Facts DEF IndInv, TypeOK, Worker
  <2>3. PICK n \in 1 .. mined : sent[n].by = "product" /\ sent[n].record = i
    BY <2>1 DEF IndInv, OffsetBehindContract, AppliedBy
  <2>4. n \in Set
    BY <2>3 DEF RecipientSet
  <2>5. Set \subseteq 1 .. mined
    BY DEF RecipientSet
  <2>6. PICK last \in Set : \A j \in Set : j <= last
    <3> HIDE DEF Set
    <3>1. QED
      BY <2>2, <2>4, <2>5, LastExists
  <2>7. sent[last].record = i
    <3>1. /\ last \in 1 .. mined /\ sent[last].by = "product"
          /\ Entry[topic["product"][sent[last].record]] = k
      BY <2>6 DEF RecipientSet
    <3>2. n \in 1 .. Len(sent) /\ last \in 1 .. Len(sent) /\ n <= last
      BY <2>2, <2>3, <2>4, <2>6, <3>1
    <3>3. sent[last].record \in 1 .. Len(topic["product"])
      BY <2>1, <3>1, <3>2 DEF SentRecords
    <3>4. i <= sent[last].record
      BY <2>1, <2>2, <2>3, <3>1, <3>2 DEF IndInv, SubmittedInOrder
    <3>5. sent[last].record \notin i + 1 .. Len(topic["product"])
      BY <2>1, <3>1
    <3>6. QED
      BY <2>2, <3>3, <3>4, <3>5
  <2>8. {m \in Set : \A j \in Set : j <= m} = {last}
    BY <2>2, <2>5, <2>6
  <2>9. QED
    BY <2>7, <2>8 DEF Recipient
<1>2. QED
  BY <1>1, AlwaysInd, AlwaysRecords, PTL

-----------------------------------------------------------------------------
(* Catalog.                                                                *)

(* A request under way.                                                    *)
UnderWay ==
  [op : Operation, object : Thing, arg : Argument, stamp : Nat, began : Nat,
   told : BOOLEAN, alone : BOOLEAN]

RequestsTyped == request \in [Request -> {Idle} \cup UnderWay]

AboutWallet == {"create product", "update product"}
AboutProduct == AboutWallet \cup {"delete product"}
AboutAmount == {"create price", "update price"}
AboutPrice == AboutAmount \cup {"delete price"}

(* What a request was made with fits what it does.                         *)
Sound(q) ==
  /\ request[q].op \in AboutProduct => Object(q) \in Product
  /\ request[q].op \in AboutWallet => Arg(q).new \in Wallet
  /\ request[q].op \in AboutPrice => Object(q) \in Price
  /\ request[q].op \in AboutAmount => Arg(q).new \in Amount
  /\ Does(q, "create price") => Arg(q).changed
  /\ Does(q, "delete wallet") => Object(q) \in Wallet
  /\ Does(q, "delete workspace") => Object(q) = "workspace"
Stamped(q) == request[q].stamp = request[q].began /\ request[q].began <= now
RequestsSound ==
  \A q \in Active : /\ Sound(q)
                    /\ Stamped(q)
                    /\ request[q].told => request[q].op \in AboutAmount

(* A request that has run alone so far is the only one of its object; one  *)
(* that creates it has.                                                    *)
AloneIsOnly ==
  \A q, x \in Active : request[q].alone /\ Object(x) = Object(q) => x = q
CreateAlone ==
  \A q \in Active : request[q].op \in {"create product", "create price"} => request[q].alone

(* A row that a request has read has been created; a row that a request    *)
(* creates has not.                                                        *)
RowRead(q) ==
  /\ Does(q, "create product") => walletOf[Object(q)] = Never
  /\ request[q].op \in {"update product", "delete product"} => walletOf[Object(q)] # Never
  /\ Does(q, "create price") => amount[Object(q)] = Never
  /\ request[q].op \in {"update price", "delete price"} => amount[Object(q)] # Never
RowsRead == \A q \in Active : RowRead(q)

(* The price that a request has inserted locks its product.                *)
LockHeld ==
  \A q \in Active : Does(q, "create price") /\ request[q].told =>
    Exists(walletOf[ProductOf[Object(q)]])

RequestInv ==
  /\ RequestsSound
  /\ AloneIsOnly
  /\ CreateAlone
  /\ RowsRead
  /\ LockHeld

IsLast(i, S) == i \in S /\ \A j \in S : j <= i

(* An event is stamped when its request begins.                            *)
EventsStamped ==
  \A i \in DOMAIN walletEvents :
    /\ walletEvents[i].stamp = walletEvents[i].began
    /\ walletEvents[i].began <= walletEvents[i].committed
    /\ walletEvents[i].committed <= now

(* The last event of a product names its wallet, and the request that had  *)
(* the product to itself began after the others were committed.            *)
WalletNamed ==
  \A p \in Product : Exists(walletOf[p]) =>
    \E i \in WalletEventsOf(p) :
      /\ IsLast(i, WalletEventsOf(p))
      /\ walletEvents[i].wallet = walletOf[p]
      /\ p \notin disturbed =>
           \A j \in WalletEventsOf(p) \ {i} : walletEvents[j].committed <= walletEvents[i].began
AloneAfterAll ==
  \A q \in Active : request[q].alone =>
    \A i \in WalletEventsOf(Object(q)) : walletEvents[i].committed <= request[q].began

WalletInv ==
  /\ EventsStamped
  /\ WalletNamed
  /\ AloneAfterAll

(* An amount in force, or one that is about to be, has been announced.     *)
PriceNamed ==
  \A r \in Price : Exists(amount[r]) =>
    \E i \in PriceEventsOf(r) : priceEvents[i].amount = amount[r]
ToldNamed ==
  \A q \in Active : request[q].told =>
    \E i \in PriceEventsOf(Object(q)) : priceEvents[i].amount = Arg(q).new

(* The last event of a price names its amount, unless a request has told   *)
(* its event and not yet committed.                                        *)
LastNames(r, a) ==
  \E i \in PriceEventsOf(r) : IsLast(i, PriceEventsOf(r)) /\ priceEvents[i].amount = a
Agree(r) ==
  /\ PriceEventsOf(r) # {} => amount[r] # Never
  /\ Exists(amount[r]) => LastNames(r, amount[r])
QuietAgree ==
  \A r \in Price \ disturbed :
    (\A q \in Active : request[q].told => Object(q) # r) => Agree(r)

(* A request that has run alone so far has told the last event, and knows  *)
(* the amount in force.                                                    *)
AloneTold ==
  \A q \in Active : request[q].alone /\ request[q].told => LastNames(Object(q), Arg(q).new)
AloneUnchanged ==
  \A q \in Active :
    (request[q].alone /\ Does(q, "update price") /\ ~ Arg(q).changed /\ Exists(amount[Object(q)]))
      => amount[Object(q)] = Arg(q).new

PriceInv ==
  /\ PriceNamed
  /\ ToldNamed
  /\ QuietAgree
  /\ AloneTold
  /\ AloneUnchanged

CatalogInd ==
  /\ CatalogTypeOK
  /\ RequestInv
  /\ NothingDangles
  /\ WalletInv
  /\ PriceInv

-----------------------------------------------------------------------------
(* Requests.                                                               *)

LEMMA NotIdle == ASSUME NEW r \in UnderWay PROVE r # Idle
<1>1. r.op \in Operation /\ Idle.op = "none"
  BY DEF UnderWay, Idle
<1>2. QED
  BY <1>1 DEF Operation

LEMMA ActiveTyped ==
  ASSUME RequestsTyped, NEW q \in Active
  PROVE  q \in Request /\ request[q] \in UnderWay
BY DEF RequestsTyped, Active

LEMMA TypedRequests == CatalogTypeOK => RequestsTyped
BY DEF CatalogTypeOK, RequestsTyped, UnderWay

LEMMA Ended ==
  ASSUME RequestsTyped, NEW q \in Active, EndRequest(q)
  PROVE  /\ RequestsTyped'
         /\ Active' = Active \ {q}
         /\ \A x \in Active' : x \in Active /\ request'[x] = request[x]
<1> USE DEF EndRequest, RequestsTyped
<1>1. q \in Request
  BY DEF Active
<1>2. RequestsTyped' /\ request'[q] = Idle /\ \A x \in Request \ {q} : request'[x] = request[x]
  BY <1>1
<1>3. Active' = Active \ {q}
  BY <1>2 DEF Active
<1>4. QED
  BY <1>2, <1>3 DEF Active

(* What a request says stays so, except that its event has been told.      *)
Kept(x) ==
  /\ x \in Active
  /\ request'[x].op = request[x].op /\ request'[x].object = request[x].object
  /\ request'[x].arg = request[x].arg
  /\ request'[x].stamp = request[x].stamp /\ request'[x].began = request[x].began

LEMMA TellFacts ==
  ASSUME RequestsTyped, NEW q \in Active, request' = [request EXCEPT ![q].told = TRUE]
  PROVE  /\ RequestsTyped'
         /\ Active' = Active
         /\ \A x \in Active : Kept(x) /\ request'[x].alone = request[x].alone
         /\ \A x \in Active \ {q} : request'[x] = request[x]
         /\ request'[q].told
<1>1. q \in Request /\ request[q] \in UnderWay
  BY ActiveTyped
<1>2. request'[q] = [request[q] EXCEPT !.told = TRUE]
  BY <1>1 DEF RequestsTyped
<1> DEFINE r == request[q]
           n == request'[q]
<1>3. r \in UnderWay /\ n = [r EXCEPT !.told = TRUE]
  BY <1>1, <1>2
<1> HIDE DEF r, n
<1>4. n \in UnderWay /\ n.told /\ n.op = r.op /\ n.object = r.object
  BY <1>3 DEF UnderWay
<1>5. n.arg = r.arg /\ n.stamp = r.stamp /\ n.began = r.began /\ n.alone = r.alone
  BY <1>3 DEF UnderWay
<1>6. \A x \in Request \ {q} : request'[x] = request[x]
  BY <1>1 DEF RequestsTyped
<1>7. RequestsTyped'
  BY <1>1, <1>4, <1>6 DEF RequestsTyped, n
<1>8. Active' = Active
  BY <1>1, <1>4, <1>6, NotIdle DEF Active, n
<1>9. QED
  BY <1>4, <1>5, <1>6, <1>7, <1>8 DEF Kept, Active, r, n

LEMMA BeginFacts ==
  ASSUME RequestsTyped, NEW q \in Request, NEW op \in Operation, NEW object \in Thing,
         NEW arg \in Argument, now \in Nat, Begin(q, op, object, arg)
  PROVE  /\ RequestsTyped'
         /\ q \notin Active /\ Active' = Active \cup {q}
         /\ \A x \in Active :
              /\ Kept(x) /\ request'[x].told = request[x].told
              /\ request'[x].alone => request[x].object # object
              /\ request[x].object # object => request'[x] = request[x]
              /\ request'[x].alone => request[x].alone
         /\ request'[q] = Begun(op, object, arg)
<1>1. /\ q \notin Active /\ request'[q] = Begun(op, object, arg)
      /\ \A x \in Active : IF request[x].object = object
                           THEN request'[x] = [request[x] EXCEPT !.alone = FALSE]
                           ELSE request'[x] = request[x]
      /\ \A x \in Request : x # q /\ x \notin Active => request'[x] = request[x]
      /\ DOMAIN request' = Request /\ request' = [x \in Request |-> request'[x]]
  BY DEF Begin, Active
<1>2. Begun(op, object, arg) \in UnderWay
  BY DEF UnderWay, Begun
<1>3. ASSUME NEW x \in Active
      PROVE  /\ request'[x] \in UnderWay
             /\ Kept(x) /\ request'[x].told = request[x].told
             /\ request'[x].alone => request[x].object # object
             /\ request[x].object # object => request'[x] = request[x]
             /\ request'[x].alone => request[x].alone
  <2> DEFINE r == request[x]
             m == [request[x] EXCEPT !.alone = FALSE]
  <2>1. r \in UnderWay
    BY ActiveTyped
  <2>2. m \in UnderWay /\ m.alone = FALSE /\ m.op = r.op /\ m.object = r.object
    BY <2>1 DEF UnderWay
  <2>3. m.arg = r.arg /\ m.stamp = r.stamp /\ m.began = r.began /\ m.told = r.told
    BY <2>1 DEF UnderWay
  <2>4. IF r.object = object THEN request'[x] = m ELSE request'[x] = r
    BY <1>1
  <2> HIDE DEF m
  <2>5. QED
    BY <2>1, <2>2, <2>3, <2>4 DEF Kept
<1>4. RequestsTyped'
  BY <1>1, <1>2, <1>3 DEF RequestsTyped, Active
<1>5. Active' = Active \cup {q}
  BY <1>1, <1>2, <1>3, NotIdle DEF Active
<1>6. QED
  BY <1>1, <1>3, <1>4, <1>5

-----------------------------------------------------------------------------
(* Frames: what an invariant needs of a step to hold after it.             *)

LEMMA SoundKept ==
  ASSUME RequestsSound, NEW x, Kept(x)
  PROVE  Sound(x)'
<1>1. Sound(x)
  BY DEF RequestsSound, Kept
<1>2. QED
  BY <1>1 DEF Sound, Kept, Object, Arg, Does

LEMMA StampedKept ==
  ASSUME RequestsSound, RequestsTyped, NEW x, Kept(x), now \in Nat, now' \in Nat, now <= now'
  PROVE  Stamped(x)'
<1>1. request[x].began \in Nat /\ Stamped(x)
  BY ActiveTyped DEF Kept, UnderWay, RequestsSound
<1>2. request'[x].stamp = request[x].stamp /\ request'[x].began = request[x].began
  BY DEF Kept
<1>3. QED
  BY <1>1, <1>2 DEF Stamped

LEMMA SoundFrame ==
  ASSUME RequestsSound, RequestsTyped, \A x \in Active' : Kept(x),
         \A x \in Active' : request'[x].told => request[x].told \/ request[x].op \in AboutAmount,
         now \in Nat, now' \in Nat, now <= now'
  PROVE  RequestsSound'
<1>1. ASSUME NEW x \in Active'
      PROVE  Sound(x)' /\ Stamped(x)' /\ (request'[x].told => request'[x].op \in AboutAmount)
  <2>1. Kept(x)
    OBVIOUS
  <2>2. Sound(x)' /\ Stamped(x)'
    BY <2>1, SoundKept, StampedKept
  <2>3. request[x].told => request[x].op \in AboutAmount
    BY <2>1 DEF Kept, RequestsSound
  <2>4. QED
    BY <2>1, <2>2, <2>3 DEF Kept
<1>2. QED
  BY <1>1 DEF RequestsSound

LEMMA AloneFrame ==
  ASSUME AloneIsOnly, CreateAlone, \A x \in Active' : x \in Active /\ request'[x] = request[x]
  PROVE  AloneIsOnly' /\ CreateAlone'
BY DEF AloneIsOnly, CreateAlone, Object

LEMMA RowKept ==
  ASSUME RowsRead, NEW x, Kept(x),
         request[x].op \in AboutProduct =>
           (walletOf'[Object(x)] = Never <=> walletOf[Object(x)] = Never),
         request[x].op \in AboutPrice =>
           (amount'[Object(x)] = Never <=> amount[Object(x)] = Never)
  PROVE  RowRead(x)'
<1>1. RowRead(x)
  BY DEF RowsRead, Kept
<1>2. request'[x].op = request[x].op /\ request'[x].object = request[x].object
  BY DEF Kept
<1>3. /\ request[x].op \in {"create product", "update product", "delete product"} =>
           (walletOf'[request[x].object] = Never <=> walletOf[request[x].object] = Never)
      /\ request[x].op \in {"create price", "update price", "delete price"} =>
           (amount'[request[x].object] = Never <=> amount[request[x].object] = Never)
  BY DEF Object, AboutProduct, AboutWallet, AboutPrice, AboutAmount
<1>4. /\ request[x].op = "create product" => walletOf'[request[x].object] = Never
      /\ request[x].op \in {"update product", "delete product"} => walletOf'[request[x].object] # Never
  BY <1>1, <1>3 DEF RowRead, Object, Does
<1>5. /\ request[x].op = "create price" => amount'[request[x].object] = Never
      /\ request[x].op \in {"update price", "delete price"} => amount'[request[x].object] # Never
  BY <1>1, <1>3 DEF RowRead, Object, Does
<1>6. QED
  BY <1>2, <1>4, <1>5 DEF RowRead, Object, Does

LEMMA LockFrame ==
  ASSUME LockHeld, \A x \in Active' : Kept(x),
         \A x \in Active' : Does(x, "create price") /\ request'[x].told =>
           \/ request[x].told /\ (Exists(walletOf[ProductOf[Object(x)]]) =>
                                    Exists(walletOf'[ProductOf[Object(x)]]))
           \/ Exists(walletOf'[ProductOf[Object(x)]])
  PROVE  LockHeld'
BY DEF LockHeld, Kept, Object, Does

(* What an event holds.                                                    *)
LEMMA WalletEventTyped ==
  ASSUME CatalogTypeOK, NEW i \in DOMAIN walletEvents
  PROVE  /\ Len(walletEvents) \in Nat /\ DOMAIN walletEvents = 1 .. Len(walletEvents)
         /\ i \in Nat
         /\ walletEvents[i].product \in Product /\ walletEvents[i].wallet \in Wallet
         /\ walletEvents[i].began \in Nat /\ walletEvents[i].committed \in Nat
<1> DEFINE E == [product : Product, wallet : Wallet, stamp : Nat, began : Nat, committed : Nat]
<1>1. walletEvents \in Seq(E)
  BY DEF CatalogTypeOK
<1>2. walletEvents[i] \in E /\ Len(walletEvents) \in Nat /\ DOMAIN walletEvents = 1 .. Len(walletEvents)
  <2> HIDE DEF E
  <2>1. QED
    BY <1>1
<1>3. QED
  BY <1>2

LEMMA WalletFrame ==
  ASSUME WalletInv, UNCHANGED walletEvents,
         CatalogTypeOK, CatalogTypeOK', now <= now',
         \A x \in Active' : \/ Kept(x) /\ (request'[x].alone => request[x].alone)
                           \/ request'[x].began = now,
         \A p \in Product : Exists(walletOf'[p]) =>
           walletOf'[p] = walletOf[p] /\ (p \notin disturbed' => p \notin disturbed)
  PROVE  WalletInv'
<1>1. ASSUME NEW i \in DOMAIN walletEvents
      PROVE  walletEvents[i].committed \in Nat
  BY <1>1, WalletEventTyped
<1>2. EventsStamped'
  <2>1. now \in Nat /\ now' \in Nat
    BY DEF CatalogTypeOK
  <2>2. QED
    BY <1>1, <2>1 DEF WalletInv, EventsStamped
<1>3. WalletNamed'
  BY DEF WalletInv, WalletNamed, IsLast, WalletEventsOf
<1>4. AloneAfterAll'
  <2>1. ASSUME NEW x \in Active', request'[x].alone,
               NEW i \in DOMAIN walletEvents, walletEvents[i].product = Object(x)'
        PROVE  walletEvents[i].committed <= request'[x].began
    <3>1. CASE request'[x].began = now
      BY <3>1 DEF WalletInv, EventsStamped
    <3>2. CASE Kept(x) /\ request[x].alone
      BY <2>1, <3>2 DEF WalletInv, AloneAfterAll, WalletEventsOf, Kept, Object
    <3>3. QED
      BY <2>1, <3>1, <3>2
  <2>2. QED
    BY <2>1 DEF AloneAfterAll, WalletEventsOf
<1>5. QED
  BY <1>2, <1>3, <1>4 DEF WalletInv

LEMMA PriceFrame ==
  ASSUME PriceInv, RequestsSound, UNCHANGED priceEvents,
         \A x \in Active' : x \in Active /\ request'[x] = request[x],
         \A x \in Active \ Active' : request[x].told => Object(x) \in disturbed',
         \A r \in Price : \/ amount'[r] = amount[r] /\ (r \notin disturbed' => r \notin disturbed)
                          \/ amount'[r] = Gone /\ amount[r] # Never
  PROVE  PriceInv'
<1>0. ~ Exists(Gone) /\ Gone # Never
  BY DEF Exists, Gone, Never
<1>1. PriceNamed'
  BY <1>0 DEF PriceInv, PriceNamed, PriceEventsOf, Exists
<1>2. ToldNamed'
  BY DEF PriceInv, ToldNamed, PriceEventsOf, Object, Arg
<1>3. AloneTold'
  BY DEF PriceInv, AloneTold, LastNames, PriceEventsOf, Object, Arg
<1>4. AloneUnchanged'
  <2>1. SUFFICES ASSUME NEW x \in Active', request'[x].alone, Does(x, "update price")',
                        ~ Arg(x)'.changed, Exists(amount'[Object(x)'])
                 PROVE  amount'[Object(x)'] = Arg(x)'.new
    BY DEF AloneUnchanged
  <2>2. x \in Active /\ request'[x] = request[x] /\ Object(x) \in Price
    BY <2>1 DEF RequestsSound, Sound, Does, AboutPrice, AboutAmount
  <2>3. amount'[Object(x)] = amount[Object(x)]
    BY <2>1, <2>2, <1>0 DEF Object
  <2>4. QED
    BY <2>1, <2>2, <2>3 DEF PriceInv, AloneUnchanged, Object, Arg, Does
<1>5. QuietAgree'
  <2>1. SUFFICES ASSUME NEW r \in Price, r \notin disturbed',
                        \A x \in Active' : request'[x].told => Object(x)' # r
                 PROVE  Agree(r)'
    BY DEF QuietAgree
  <2>2. CASE amount'[r] = Gone
    BY <1>0, <2>2 DEF Agree
  <2>3. CASE amount'[r] = amount[r] /\ r \notin disturbed
    <3>1. \A x \in Active : request[x].told => Object(x) # r
      BY <2>1 DEF Object
    <3>2. Agree(r)
      BY <2>3, <3>1 DEF PriceInv, QuietAgree
    <3>3. QED
      BY <2>3, <3>2 DEF Agree, LastNames, PriceEventsOf
  <2>4. QED
    BY <2>1, <2>2, <2>3
<1>6. QED
  BY <1>1, <1>2, <1>3, <1>4, <1>5 DEF PriceInv

-----------------------------------------------------------------------------
(* Types, in parts.                                                        *)

TablesTyped ==
  /\ workspace \in {Never, "present", Gone}
  /\ wallet \in [Wallet -> {Never, "present", Gone}]
  /\ walletOf \in [Product -> Wallet \cup {Never, Gone}]
  /\ amount \in [Price -> Amount \cup {Never, Gone}]

WalletMessage == [product : Product, wallet : Wallet, stamp : Nat, began : Nat, committed : Nat]
PriceMessage == [price : Price, amount : Amount]

EventsTyped == walletEvents \in Seq(WalletMessage) /\ priceEvents \in Seq(PriceMessage)

CountersTyped == disturbed \in SUBSET Thing /\ begun \in Nat /\ now \in Nat /\ failures \in Nat

LEMMA TypeParts ==
  CatalogTypeOK <=> TablesTyped /\ EventsTyped /\ RequestsTyped /\ CountersTyped
BY DEF CatalogTypeOK, TablesTyped, EventsTyped, RequestsTyped, CountersTyped, UnderWay, WalletMessage,
   PriceMessage

LEMMA CatalogInitInd == CatalogInit => CatalogInd
<1>1. SUFFICES ASSUME CatalogInit PROVE CatalogInd
  OBVIOUS
<1>2. Active = {}
  BY <1>1 DEF CatalogInit, Active
<1>3. DOMAIN walletEvents = {} /\ DOMAIN priceEvents = {}
  BY <1>1 DEF CatalogInit
<1>4. CatalogTypeOK
  <2>1. TablesTyped
    BY <1>1 DEF CatalogInit, TablesTyped
  <2>2. EventsTyped /\ RequestsTyped /\ CountersTyped
    BY <1>1 DEF CatalogInit, EventsTyped, RequestsTyped, CountersTyped
  <2>3. QED
    BY <2>1, <2>2, TypeParts
<1>5. RequestInv
  BY <1>2 DEF RequestInv, RequestsSound, Sound, AloneIsOnly, CreateAlone, RowsRead, RowRead, LockHeld
<1>6. \A x : x = Never => ~ Exists(x)
  BY DEF Exists
<1>7. NothingDangles
  BY <1>1, <1>6 DEF CatalogInit, NothingDangles
<1>8. WalletInv
  BY <1>1, <1>2, <1>3, <1>6 DEF CatalogInit, WalletInv, EventsStamped, WalletNamed, AloneAfterAll
<1>9. PriceInv
  <2>1. \A r \in Price : ~ Exists(amount[r]) /\ PriceEventsOf(r) = {}
    BY <1>1, <1>3, <1>6 DEF CatalogInit, PriceEventsOf
  <2>2. QED
    BY <1>2, <2>1 DEF PriceInv, PriceNamed, ToldNamed, QuietAgree, Agree, AloneTold, AloneUnchanged
<1>10. QED
  BY <1>4, <1>5, <1>7, <1>8, <1>9 DEF CatalogInd

-----------------------------------------------------------------------------
(* Steps that leave the requests as they are.                              *)

LEMMA CatalogQuiet ==
  ASSUME CatalogInd, CatalogTypeOK', NothingDangles', now <= now',
         UNCHANGED <<walletOf, amount, events, request, disturbed>>
  PROVE  CatalogInd'
<1>1. RequestsTyped /\ now \in Nat /\ now' \in Nat
  BY TypeParts DEF CatalogInd, CountersTyped, CatalogTypeOK
<1>2. Active' = Active /\ \A x \in Active' : Kept(x) /\ request'[x] = request[x]
  BY DEF Active, Kept
<1>3. RequestsSound'
  BY <1>1, <1>2, SoundFrame DEF CatalogInd, RequestInv
<1>4. AloneIsOnly' /\ CreateAlone' /\ RowsRead' /\ LockHeld'
  BY <1>2, AloneFrame, RowKept, LockFrame DEF CatalogInd, RequestInv, RowsRead, RowRead
<1>5. WalletInv'
  BY <1>2, WalletFrame DEF CatalogInd, events
<1>6. PriceInv'
  BY <1>2, PriceFrame DEF CatalogInd, events, RequestInv
<1>7. QED
  BY <1>3, <1>4, <1>5, <1>6 DEF CatalogInd, RequestInv

LEMMA OwnerInd ==
  ASSUME CatalogInd,
         Tick \/ CreateWorkspace \/ (\E w \in Wallet : CreateWallet(w)) \/ UNCHANGED catalogVars
  PROVE  CatalogInd'
<1> USE DEF CatalogInd
<1>1. TablesTyped /\ EventsTyped /\ RequestsTyped /\ CountersTyped
  BY TypeParts
<1>2. EventsTyped' /\ RequestsTyped' /\ CountersTyped' /\ now <= now'
  BY <1>1 DEF Tick, CreateWorkspace, CreateWallet, catalogVars, tables, events, EventsTyped,
     RequestsTyped, CountersTyped, UnderWay, Active
<1>3. UNCHANGED <<walletOf, amount, events, request, disturbed>>
  BY DEF Tick, CreateWorkspace, CreateWallet, catalogVars, tables
<1>4. TablesTyped' /\ NothingDangles'
  <2> USE <1>1 DEF TablesTyped, NothingDangles, Exists, Never, Gone
  <2>1. CASE Tick
    BY <2>1 DEF Tick, tables
  <2>2. CASE CreateWorkspace
    BY <2>2 DEF CreateWorkspace
  <2>3. ASSUME NEW w \in Wallet, CreateWallet(w)
        PROVE  TablesTyped' /\ NothingDangles'
    <3>1. workspace # Never /\ workspace # Gone
      BY <2>3 DEF CreateWallet
    <3>2. wallet' \in [Wallet -> {Never, "present", Gone}]
      BY <2>3 DEF CreateWallet
    <3>3. \A v \in Wallet : Exists(wallet[v]) => Exists(wallet'[v])
      BY <2>3 DEF CreateWallet
    <3>4. TablesTyped'
      BY <2>3, <3>2 DEF CreateWallet
    <3>5. \A p \in Product : Exists(walletOf[p]) => walletOf[p] \in Wallet
      OBVIOUS
    <3>6. NothingDangles'
      BY <2>3, <3>1, <3>3, <3>5 DEF CreateWallet
    <3>7. QED
      BY <3>4, <3>6
  <2>4. CASE UNCHANGED catalogVars
    BY <2>4 DEF catalogVars, tables
  <2>5. QED
    BY <2>1, <2>2, <2>3, <2>4
<1>5. CatalogTypeOK'
  <2>1. (CatalogTypeOK <=> TablesTyped /\ EventsTyped /\ RequestsTyped /\ CountersTyped)'
    BY TypeParts, PTL
  <2>2. QED
    BY <1>2, <1>4, <2>1
<1>6. QED
  BY <1>2, <1>3, <1>4, <1>5, CatalogQuiet

-----------------------------------------------------------------------------
(* Requests that end and write no event.                                   *)

LEMMA ClockStands == now \in Nat /\ now' = now => now' \in Nat /\ now <= now'
OBVIOUS

(* A row can be deleted, and nothing that lasts becomes undisturbed.       *)
ProductsStay ==
  \A p \in Product :
    /\ walletOf'[p] = Never <=> walletOf[p] = Never
    /\ Exists(walletOf'[p]) =>
         walletOf'[p] = walletOf[p] /\ (p \notin disturbed' => p \notin disturbed)
PricesStay ==
  \A r \in Price : \/ amount'[r] = amount[r] /\ (r \notin disturbed' => r \notin disturbed)
                   \/ amount'[r] = Gone /\ amount[r] # Never

LEMMA EndInd ==
  ASSUME CatalogInd, NEW q \in Active, request' = [request EXCEPT ![q] = Idle],
         UNCHANGED walletEvents, UNCHANGED priceEvents, now' = now, CatalogTypeOK', NothingDangles',
         request[q].told => Object(q) \in disturbed',
         ProductsStay, PricesStay,
         \A x \in Active : Does(x, "create price") /\ request[x].told =>
           Exists(walletOf'[ProductOf[Object(x)]])
  PROVE  CatalogInd'
<1> USE DEF CatalogInd
<1>1. RequestsTyped /\ now \in Nat /\ now' \in Nat /\ now <= now'
  <2>1. RequestsTyped /\ now \in Nat
    BY TypeParts DEF CountersTyped
  <2>2. QED
    BY <2>1, ClockStands, Zenon
<1>2. /\ Active' = Active \ {q}
      /\ \A x \in Active' : x \in Active /\ request'[x] = request[x] /\ Kept(x)
  BY <1>1, Ended DEF Kept, EndRequest
<1>3. RequestsSound'
  BY <1>1, <1>2, SoundFrame DEF RequestInv
<1>4. AloneIsOnly' /\ CreateAlone'
  BY <1>2, AloneFrame DEF RequestInv
<1>5. RowsRead'
  <2>1. \A x \in Active' : request[x].op \in AboutProduct =>
          (walletOf'[Object(x)] = Never <=> walletOf[Object(x)] = Never)
    BY <1>2 DEF RequestInv, RequestsSound, Sound, ProductsStay
  <2>2. \A r \in Price : amount'[r] = Never <=> amount[r] = Never
    BY DEF Never, Gone, PricesStay
  <2>3. \A x \in Active' : request[x].op \in AboutPrice =>
          (amount'[Object(x)] = Never <=> amount[Object(x)] = Never)
    BY <1>2, <2>2 DEF RequestInv, RequestsSound, Sound
  <2>4. QED
    BY <1>2, <2>1, <2>3, RowKept DEF RequestInv, RowsRead, RowRead
<1>6. LockHeld'
  BY <1>2, LockFrame DEF RequestInv
<1>7. WalletInv'
  BY <1>1, <1>2, WalletFrame DEF ProductsStay
<1>8. PriceInv'
  <2>1. \A x \in Active \ Active' : request[x].told => Object(x) \in disturbed'
    BY <1>2
  <2>2. QED
    BY <1>2, <2>1, PriceFrame DEF PricesStay, RequestInv
<1>9. QED
  BY <1>3, <1>4, <1>5, <1>6, <1>7, <1>8 DEF RequestInv

(* A request that is refused, fails or gets no connection.                 *)
LEMMA NoCommitInd ==
  ASSUME CatalogInd, NEW q \in Active, PoolTimeout(q) \/ Refuse(q) \/ FailRequest(q)
  PROVE  CatalogInd'
<1>1. EndRequest(q) /\ UNCHANGED <<tables, events, now, begun>> /\ failures' \in Nat
      /\ disturbed' \in {disturbed, disturbed \cup {Object(q)}}
      /\ (request[q].told => Object(q) \in disturbed')
  <2>1. failures \in Nat
    BY DEF CatalogInd, CatalogTypeOK
  <2>2. CASE PoolTimeout(q)
    BY <2>1, <2>2 DEF PoolTimeout, Unanswered, Announces
  <2>3. CASE Refuse(q)
    BY <2>1, <2>3 DEF Refuse
  <2>4. CASE FailRequest(q)
    BY <2>1, <2>4 DEF FailRequest
  <2>5. QED
    BY <2>2, <2>3, <2>4
<1>2. CatalogTypeOK'
  <2>1. TablesTyped /\ EventsTyped /\ RequestsTyped /\ CountersTyped
    BY TypeParts DEF CatalogInd
  <2>2. RequestsTyped' /\ Object(q) \in Thing
    BY <1>1, <2>1, Ended, ActiveTyped DEF UnderWay, Object
  <2>3. TablesTyped' /\ EventsTyped' /\ CountersTyped'
    BY <1>1, <2>1, <2>2 DEF TablesTyped, EventsTyped, CountersTyped, tables, events
  <2>4. (CatalogTypeOK <=> TablesTyped /\ EventsTyped /\ RequestsTyped /\ CountersTyped)'
    BY TypeParts, PTL
  <2>5. QED
    BY <2>2, <2>3, <2>4
<1>3. NothingDangles'
  BY <1>1 DEF CatalogInd, NothingDangles, tables
<1>4. \A x \in Active : Does(x, "create price") /\ request[x].told =>
        Exists(walletOf'[ProductOf[Object(x)]])
  BY <1>1 DEF CatalogInd, RequestInv, LockHeld, tables
<1>5. QED
  BY <1>1, <1>2, <1>3, <1>4, EndInd DEF tables, events, EndRequest, ProductsStay, PricesStay

(* What a commit does to any table.                                        *)
LEMMA CommitFacts ==
  ASSUME CatalogInd, NEW q \in Active, NEW op \in Operation, Committing(q, op),
         TablesTyped', EventsTyped'
  PROVE  /\ CatalogTypeOK'
         /\ EndRequest(q) /\ UNCHANGED <<begun, now, failures>>
         /\ request[q].op = op /\ ~ Violates(q)
         /\ disturbed' \in {disturbed \cup {Object(q)}, disturbed \ {Object(q)}}
         /\ request[q].alone <=> Object(q) \notin disturbed'
<1>1. TablesTyped /\ EventsTyped /\ RequestsTyped /\ CountersTyped
  BY TypeParts DEF CatalogInd
<1>2. RequestsTyped' /\ Object(q) \in Thing
  BY <1>1, Ended, ActiveTyped DEF UnderWay, Object, Committing
<1>3. /\ EndRequest(q) /\ UNCHANGED <<begun, now, failures>>
      /\ request[q].op = op /\ ~ Violates(q)
      /\ disturbed' \in {disturbed \cup {Object(q)}, disturbed \ {Object(q)}}
      /\ request[q].alone <=> Object(q) \notin disturbed'
  BY DEF Committing, Settle, Does
<1>4. CountersTyped'
  BY <1>1, <1>2, <1>3 DEF CountersTyped
<1>5. (CatalogTypeOK <=> TablesTyped /\ EventsTyped /\ RequestsTyped /\ CountersTyped)'
  BY TypeParts, PTL
<1>6. QED
  BY <1>2, <1>3, <1>4, <1>5

-----------------------------------------------------------------------------
(* Deletions.                                                              *)

LEMMA Kinds ==
  /\ \A p \in Product : p \notin Price /\ p \notin Wallet /\ p # "workspace"
  /\ \A r \in Price : r \notin Product /\ r \notin Wallet /\ r # "workspace"
BY CatalogAssumption

LEMMA States ==
  ASSUME CatalogTypeOK
  PROVE  /\ \A p \in Product : Exists(walletOf[p]) => walletOf[p] \in Wallet
         /\ \A r \in Price : Exists(amount[r]) => amount[r] \in Amount
         /\ \A w \in Wallet : Exists(w) /\ w # Never /\ w # Gone
         /\ \A a \in Amount : Exists(a) /\ a # Never /\ a # Gone
         /\ ~ Exists(Never) /\ ~ Exists(Gone) /\ Gone # Never /\ Exists("present")
         /\ \A r \in Price : ProductOf[r] \in Product
<1>1. \A w \in Wallet \cup Amount : w # Never /\ w # Gone
  BY CatalogAssumption
<1>2. \A r \in Price : ProductOf[r] \in Product
  BY CatalogAssumption
<1>3. QED
  BY <1>1, <1>2 DEF CatalogTypeOK, Exists, Never, Gone

LEMMA DroppedIs ==
  ASSUME NEW s
  PROVE  /\ ~ Exists(Dropped(s)) /\ (Dropped(s) = Never <=> s = Never)
         /\ Dropped(s) = s \/ (Dropped(s) = Gone /\ s # Never)
         /\ Dropped(s) \in {Never, Gone}
BY DEF Dropped, Exists, Never, Gone

LEMMA DeleteProductInd ==
  ASSUME CatalogInd, NEW q \in Active, CommitDeleteProduct(q)
  PROVE  CatalogInd'
<1> DEFINE p == Object(q)
<1>1. p \in Product /\ request[q].told = FALSE
  <2>1. request[q].told \in BOOLEAN
    BY TypeParts, ActiveTyped DEF CatalogInd, UnderWay
  <2>2. QED
    BY <2>1 DEF CommitDeleteProduct, Committing, Does, CatalogInd, RequestInv, RequestsSound, Sound,
       AboutProduct, AboutAmount
<1>2. TablesTyped /\ EventsTyped
  BY TypeParts DEF CatalogInd
<1>3. /\ walletOf' = [walletOf EXCEPT ![p] = Dropped(walletOf[p])]
      /\ amount' = [r \in Price |-> IF ProductOf[r] = p THEN Dropped(amount[r]) ELSE amount[r]]
      /\ UNCHANGED <<workspace, wallet, events>>
      /\ Committing(q, "delete product")
      /\ \A x \in Active : Does(x, "create price") /\ request[x].told => ProductOf[Object(x)] # p
  BY DEF CommitDeleteProduct, Locked
<1>4. TablesTyped' /\ EventsTyped'
  BY <1>1, <1>2, <1>3, DroppedIs DEF TablesTyped, EventsTyped, events
<1>5. /\ CatalogTypeOK' /\ EndRequest(q) /\ now' = now
      /\ disturbed' \in {disturbed \cup {p}, disturbed \ {p}}
  BY <1>3, <1>4, CommitFacts DEF Operation
<1>6. /\ ~ Exists(walletOf'[p]) /\ (walletOf'[p] = Never <=> walletOf[p] = Never)
      /\ \A o \in Product \ {p} : walletOf'[o] = walletOf[o]
  BY <1>1, <1>2, <1>3, DroppedIs DEF TablesTyped
<1>7. NothingDangles'
  <2>1. \A r \in Price : Exists(amount'[r]) => amount'[r] = amount[r] /\ ProductOf[r] # p
    BY <1>3, DroppedIs
  <2>2. \A r \in Price : ProductOf[r] \in Product
    BY CatalogAssumption
  <2>3. QED
    BY <1>3, <1>6, <2>1, <2>2 DEF CatalogInd, NothingDangles
<1>8. ProductsStay
  BY <1>1, <1>5, <1>6 DEF ProductsStay
<1>9. PricesStay
  <2>1. \A r \in Price : amount'[r] = amount[r] \/ (amount'[r] = Gone /\ amount[r] # Never)
    BY <1>3, DroppedIs
  <2>2. \A r \in Price : r \notin disturbed' => r \notin disturbed
    BY <1>1, <1>5, Kinds
  <2>3. QED
    BY <2>1, <2>2 DEF PricesStay
<1>10. \A x \in Active : Does(x, "create price") /\ request[x].told =>
         Exists(walletOf'[ProductOf[Object(x)]])
  <2>1. ASSUME NEW x \in Active, Does(x, "create price"), request[x].told
        PROVE  Exists(walletOf'[ProductOf[Object(x)]])
    <3>1. Object(x) \in Price /\ Exists(walletOf[ProductOf[Object(x)]])
      BY <2>1 DEF CatalogInd, RequestInv, RequestsSound, Sound, LockHeld, Does, AboutPrice, AboutAmount
    <3>2. ProductOf[Object(x)] \in Product \ {p}
      BY <2>1, <3>1, <1>3, CatalogAssumption
    <3>3. QED
      BY <3>1, <3>2, <1>6
  <2>2. QED
    BY <2>1
<1>11. QED
  BY <1>1, <1>3, <1>5, <1>7, <1>8, <1>9, <1>10, EndInd DEF EndRequest, events

LEMMA DeletePriceInd ==
  ASSUME CatalogInd, NEW q \in Active, CommitDeletePrice(q)
  PROVE  CatalogInd'
<1> DEFINE r == Object(q)
<1>1. r \in Price /\ request[q].told = FALSE /\ amount[r] # Never
  <2>1. request[q].told \in BOOLEAN
    BY TypeParts, ActiveTyped DEF CatalogInd, UnderWay
  <2>2. request[q].op = "delete price"
    BY DEF CommitDeletePrice, Committing, Does
  <2>3. QED
    BY <2>1, <2>2 DEF CatalogInd, RequestInv, RequestsSound, Sound, RowsRead, RowRead, AboutPrice, AboutAmount
<1>2. TablesTyped /\ EventsTyped
  BY TypeParts DEF CatalogInd
<1>3. /\ amount' = [amount EXCEPT ![r] = Dropped(amount[r])]
      /\ UNCHANGED <<workspace, wallet, walletOf, events>>
      /\ Committing(q, "delete price")
  BY DEF CommitDeletePrice
<1>4. TablesTyped' /\ EventsTyped'
  BY <1>1, <1>2, <1>3, DroppedIs DEF TablesTyped, EventsTyped, events
<1>5. /\ CatalogTypeOK' /\ EndRequest(q) /\ now' = now
      /\ disturbed' \in {disturbed \cup {r}, disturbed \ {r}}
  BY <1>3, <1>4, CommitFacts DEF Operation
<1>6. amount'[r] = Gone /\ \A o \in Price \ {r} : amount'[o] = amount[o]
  <2>1. Dropped(amount[r]) = Gone
    BY <1>1, DroppedIs
  <2>2. QED
    BY <1>1, <1>2, <1>3, <2>1 DEF TablesTyped
<1>7. NothingDangles'
  <2>1. \A o \in Price : Exists(amount'[o]) => amount'[o] = amount[o]
    BY <1>6 DEF Exists
  <2>2. QED
    BY <1>3, <2>1 DEF CatalogInd, NothingDangles
<1>8. ProductsStay
  BY <1>1, <1>3, <1>5, Kinds DEF ProductsStay
<1>9. PricesStay
  BY <1>1, <1>5, <1>6 DEF PricesStay
<1>10. \A x \in Active : Does(x, "create price") /\ request[x].told =>
         Exists(walletOf'[ProductOf[Object(x)]])
  BY <1>3 DEF CatalogInd, RequestInv, LockHeld
<1>11. QED
  BY <1>1, <1>3, <1>5, <1>7, <1>8, <1>9, <1>10, EndInd DEF EndRequest, events

LEMMA DeleteWalletInd ==
  ASSUME CatalogInd, NEW q \in Active, CommitDeleteWallet(q)
  PROVE  CatalogInd'
<1> DEFINE w == Object(q)
<1>1. w \in Wallet /\ request[q].told = FALSE
  <2>1. request[q].told \in BOOLEAN
    BY TypeParts, ActiveTyped DEF CatalogInd, UnderWay
  <2>2. request[q].op = "delete wallet"
    BY DEF CommitDeleteWallet, Committing, Does
  <2>3. QED
    BY <2>1, <2>2 DEF CatalogInd, RequestInv, RequestsSound, Sound, Does, AboutAmount
<1>2. TablesTyped /\ EventsTyped
  BY TypeParts DEF CatalogInd
<1>3. /\ wallet' = [wallet EXCEPT ![w] = Dropped(wallet[w])]
      /\ UNCHANGED <<workspace, walletOf, amount, events>>
      /\ Committing(q, "delete wallet")
  BY DEF CommitDeleteWallet
<1>4. TablesTyped' /\ EventsTyped'
  BY <1>1, <1>2, <1>3, DroppedIs DEF TablesTyped, EventsTyped, events
<1>5. /\ CatalogTypeOK' /\ EndRequest(q) /\ now' = now /\ ~ Violates(q)
      /\ disturbed' \in {disturbed \cup {w}, disturbed \ {w}}
  BY <1>3, <1>4, CommitFacts DEF Operation
<1>6. \A p \in Product : walletOf[p] # w
  BY <1>3, <1>5 DEF Violates, Unused, Committing
<1>7. NothingDangles'
  <2>1. /\ \A v \in Wallet \ {w} : wallet'[v] = wallet[v]
        /\ ~ Exists(wallet'[w])
    BY <1>1, <1>2, <1>3, DroppedIs DEF TablesTyped
  <2>2. \A p \in Product : Exists(walletOf[p]) => walletOf[p] \in Wallet
    BY States DEF CatalogInd
  <2>3. QED
    BY <1>3, <1>6, <2>1, <2>2 DEF CatalogInd, NothingDangles
<1>8. ProductsStay
  BY <1>1, <1>3, <1>5, Kinds DEF ProductsStay
<1>9. PricesStay
  BY <1>1, <1>3, <1>5, Kinds DEF PricesStay
<1>10. \A x \in Active : Does(x, "create price") /\ request[x].told =>
         Exists(walletOf'[ProductOf[Object(x)]])
  BY <1>3 DEF CatalogInd, RequestInv, LockHeld
<1>11. QED
  BY <1>1, <1>3, <1>5, <1>7, <1>8, <1>9, <1>10, EndInd DEF EndRequest, events

(* Nothing is left of a workspace; no price is half created in it.         *)
LEMMA DeleteWorkspaceInd ==
  ASSUME CatalogInd, NEW q \in Active, CommitDeleteWorkspace(q)
  PROVE  CatalogInd'
<1>1. Object(q) = "workspace" /\ request[q].told = FALSE
  <2>1. request[q].told \in BOOLEAN
    BY TypeParts, ActiveTyped DEF CatalogInd, UnderWay
  <2>2. request[q].op = "delete workspace"
    BY DEF CommitDeleteWorkspace, Committing, Does
  <2>3. QED
    BY <2>1, <2>2 DEF CatalogInd, RequestInv, RequestsSound, Sound, Does, AboutAmount
<1>2. TablesTyped /\ EventsTyped
  BY TypeParts DEF CatalogInd
<1>3. /\ workspace' = Gone
      /\ wallet' = [w \in Wallet |-> Dropped(wallet[w])]
      /\ walletOf' = [p \in Product |-> Dropped(walletOf[p])]
      /\ amount' = [r \in Price |-> Dropped(amount[r])]
      /\ UNCHANGED events
      /\ Committing(q, "delete workspace")
      /\ \A p \in Product : ~ Locked(p)
  BY DEF CommitDeleteWorkspace
<1>4. TablesTyped' /\ EventsTyped'
  BY <1>2, <1>3, DroppedIs DEF TablesTyped, EventsTyped, events
<1>5. /\ CatalogTypeOK' /\ EndRequest(q) /\ now' = now
      /\ disturbed' \in {disturbed \cup {Object(q)}, disturbed \ {Object(q)}}
  BY <1>3, <1>4, CommitFacts DEF Operation
<1>6. /\ \A p \in Product : ~ Exists(walletOf'[p]) /\ (walletOf'[p] = Never <=> walletOf[p] = Never)
      /\ \A w \in Wallet : ~ Exists(wallet'[w])
      /\ \A r \in Price : /\ ~ Exists(amount'[r])
                          /\ amount'[r] = amount[r] \/ (amount'[r] = Gone /\ amount[r] # Never)
  BY <1>3, DroppedIs
<1>7. NothingDangles'
  BY <1>6 DEF NothingDangles
<1>8. ProductsStay
  BY <1>6 DEF ProductsStay
<1>9. PricesStay
  BY <1>1, <1>5, <1>6, Kinds DEF PricesStay
<1>10. \A x \in Active : ~ (Does(x, "create price") /\ request[x].told)
  <2>1. ASSUME NEW x \in Active, Does(x, "create price"), request[x].told
        PROVE  FALSE
    <3>1. Object(x) \in Price
      BY <2>1 DEF CatalogInd, RequestInv, RequestsSound, Sound, Does, AboutPrice, AboutAmount
    <3>2. ProductOf[Object(x)] \in Product
      BY <3>1, CatalogAssumption
    <3>3. QED
      BY <2>1, <3>2, <1>3 DEF Locked
  <2>2. QED
    BY <2>1
<1>11. QED
  BY <1>1, <1>3, <1>5, <1>7, <1>8, <1>9, <1>10, EndInd DEF EndRequest, events

-----------------------------------------------------------------------------
(* A request arrives.                                                      *)

(* What the services have read before a request goes on.                   *)
Admitted(op, o, g) ==
  /\ op \in Operation /\ o \in Thing /\ g \in Argument
  /\ op \in AboutProduct => o \in Product
  /\ op \in AboutWallet => g.new \in Wallet
  /\ op \in AboutPrice => o \in Price
  /\ op \in AboutAmount => g.new \in Amount
  /\ op = "create price" => g.changed
  /\ op = "delete wallet" => o \in Wallet
  /\ op = "delete workspace" => o = "workspace"
  /\ op = "create product" => walletOf[o] = Never /\ ~ Busy(o)
  /\ op \in {"update product", "delete product"} => walletOf[o] # Never
  /\ op = "create price" => amount[o] = Never /\ ~ Busy(o)
  /\ op \in {"update price", "delete price"} => amount[o] # Never
  /\ op = "update price" /\ ~ g.changed => g.new = amount[o]

LEMMA ArriveFacts ==
  ASSUME CatalogTypeOK, NEW q \in Request, Arrive(q)
  PROVE  \E op \in Operation, o \in Thing, g \in Argument :
           Admitted(op, o, g) /\ Begin(q, op, o, g)
<1>1. \A w \in Wallet : Given(w, TRUE) \in Argument /\ Given(w, TRUE).new = w
  BY DEF Given, Argument
<1>2. Given(Keep, FALSE) \in Argument
  BY DEF Given, Argument
<1>3. \A a \in Amount, b \in BOOLEAN :
        /\ Given(a, b) \in Argument /\ Given(a, b).new = a /\ Given(a, b).changed = b
  BY DEF Given, Argument
<1>4. /\ \A p \in Product : p \in Thing
      /\ \A r \in Price : r \in Thing
      /\ \A w \in Wallet : w \in Thing
      /\ "workspace" \in Thing
  BY DEF Thing
<1> USE DEF Admitted, AboutProduct, AboutWallet, AboutPrice, AboutAmount, Operation
<1>5. ASSUME NEW p \in Product, DeleteProduct(q, p)
      PROVE  Admitted("delete product", p, Given(Keep, FALSE))
             /\ Begin(q, "delete product", p, Given(Keep, FALSE))
  BY <1>2, <1>4, <1>5, States DEF DeleteProduct
<1>6. ASSUME NEW p \in Product, NEW w \in Wallet, CreateProduct(q, p, w)
      PROVE  Admitted("create product", p, Given(w, TRUE))
             /\ Begin(q, "create product", p, Given(w, TRUE))
  BY <1>1, <1>4, <1>6 DEF CreateProduct
<1>7. ASSUME NEW p \in Product, NEW w \in Wallet, UpdateProduct(q, p, w)
      PROVE  Admitted("update product", p, Given(w, TRUE))
             /\ Begin(q, "update product", p, Given(w, TRUE))
  BY <1>1, <1>4, <1>7, States DEF UpdateProduct
<1>8. ASSUME NEW r \in Price, DeletePrice(q, r)
      PROVE  Admitted("delete price", r, Given(Keep, FALSE))
             /\ Begin(q, "delete price", r, Given(Keep, FALSE))
  BY <1>2, <1>4, <1>8, States DEF DeletePrice
<1>9. ASSUME NEW r \in Price, NEW a \in Amount \cup {Keep}, CreatePrice(q, r, a)
      PROVE  Admitted("create price", r, Given(a, TRUE))
             /\ Begin(q, "create price", r, Given(a, TRUE))
  <2>1. a \in Amount
    BY <1>9 DEF CreatePrice
  <2>2. /\ amount[r] = Never /\ ~ Busy(r)
        /\ Begin(q, "create price", r, Given(a, TRUE))
    BY <1>9 DEF CreatePrice
  <2>3. /\ Given(a, TRUE) \in Argument /\ Given(a, TRUE).new \in Amount
        /\ Given(a, TRUE).changed = TRUE
    BY <1>3, <2>1
  <2>4. QED
    BY <1>4, <2>2, <2>3
<1>10. ASSUME NEW r \in Price, NEW a \in Amount \cup {Keep}, UpdatePrice(q, r, a)
       PROVE  \E g \in Argument : Admitted("update price", r, g) /\ Begin(q, "update price", r, g)
  <2>1. Exists(amount[r]) /\ amount[r] \in Amount
    BY <1>10, States DEF UpdatePrice
  <2>2. amount[r] # Never
    BY <2>1, States
  <2>3. CASE a = Keep
    <3>1. Given(amount[r], FALSE) \in Argument /\ Given(amount[r], FALSE).new = amount[r]
      BY <2>1, <1>3
    <3>2. Admitted("update price", r, Given(amount[r], FALSE))
      BY <1>4, <2>1, <2>2, <3>1
    <3>3. QED
      BY <1>10, <2>3, <3>1, <3>2 DEF UpdatePrice
  <2>4. CASE a # Keep
    <3> DEFINE c == a # amount[r]
    <3>1. a \in Amount /\ c \in BOOLEAN
      BY <2>4
    <3>2. Given(a, c) \in Argument /\ Given(a, c).new = a /\ Given(a, c).changed = c
      BY <3>1, <1>3
    <3>3. Admitted("update price", r, Given(a, c))
      BY <1>4, <2>1, <2>2, <3>1, <3>2
    <3>4. QED
      BY <1>10, <2>4, <3>2, <3>3 DEF UpdatePrice
  <2>5. QED
    BY <2>3, <2>4
<1>11. ASSUME NEW w \in Wallet, DeleteUnusedWallet(q, w)
       PROVE  Admitted("delete wallet", w, Given(Keep, FALSE))
              /\ Begin(q, "delete wallet", w, Given(Keep, FALSE))
  BY <1>2, <1>4, <1>11 DEF DeleteUnusedWallet
<1>12. ASSUME DeleteWorkspace(q)
       PROVE  Admitted("delete workspace", "workspace", Given(Keep, FALSE))
              /\ Begin(q, "delete workspace", "workspace", Given(Keep, FALSE))
  BY <1>2, <1>4, <1>12 DEF DeleteWorkspace
<1> HIDE DEF Admitted, AboutProduct, AboutWallet, AboutPrice, AboutAmount, Operation
<1>13. \A op, o, g : Admitted(op, o, g) => op \in Operation /\ o \in Thing /\ g \in Argument
  BY DEF Admitted
<1>14. \E op, o, g : Admitted(op, o, g) /\ Begin(q, op, o, g)
  BY <1>5, <1>6, <1>7, <1>8, <1>9, <1>10, <1>11, <1>12, Zenon DEF Arrive
<1>15. QED
  BY <1>13, <1>14

LEMMA BeginInd ==
  ASSUME CatalogInd, NEW q \in Request, Arrive(q)
  PROVE  CatalogInd'
<1> USE DEF CatalogInd
<1>1. PICK op \in Operation, o \in Thing, g \in Argument :
        Admitted(op, o, g) /\ Begin(q, op, o, g)
  BY ArriveFacts
<1>2. TablesTyped /\ EventsTyped /\ RequestsTyped /\ CountersTyped
  BY TypeParts
<1>3. now \in Nat /\ begun \in Nat /\ begun' = begun + 1
      /\ UNCHANGED <<tables, events, disturbed, now, failures>>
  BY <1>1, <1>2 DEF Begin, CountersTyped
<1> DEFINE n == request'[q]
<1>4. /\ RequestsTyped'
      /\ q \notin Active /\ Active' = Active \cup {q}
      /\ \A x \in Active :
           /\ Kept(x) /\ request'[x].told = request[x].told
           /\ request'[x].alone => request[x].object # o
           /\ request[x].object # o => request'[x] = request[x]
           /\ request'[x].alone => request[x].alone
      /\ n = Begun(op, o, g)
  BY <1>1, <1>2, <1>3, BeginFacts
<1>5. /\ n.op = op /\ n.object = o /\ n.arg = g /\ n.stamp = now /\ n.began = now
      /\ n.told = FALSE /\ n.alone = ~ Busy(o)
  BY <1>4 DEF Begun
<1> HIDE DEF n
<1>6. CatalogTypeOK'
  <2>1. TablesTyped' /\ EventsTyped' /\ CountersTyped'
    BY <1>2, <1>3 DEF TablesTyped, EventsTyped, CountersTyped, tables, events
  <2>2. (CatalogTypeOK <=> TablesTyped /\ EventsTyped /\ RequestsTyped /\ CountersTyped)'
    BY TypeParts, PTL
  <2>3. QED
    BY <1>4, <2>1, <2>2
<1>7. NothingDangles'
  BY <1>3 DEF NothingDangles, tables
<1>8. RequestInv'
  <2>1. Sound(q)' /\ Stamped(q)'
    <3>1. Sound(q)'
      BY <1>1, <1>5 DEF Admitted, Sound, Object, Arg, Does, n
    <3>2. Stamped(q)'
      BY <1>3, <1>5 DEF Stamped, n
    <3>3. QED
      BY <3>1, <3>2
  <2>2. \A x \in Active : Sound(x)' /\ Stamped(x)'
    BY <1>2, <1>3, <1>4, SoundKept, StampedKept DEF RequestInv
  <2>3. RequestsSound'
    BY <1>4, <1>5, <2>1, <2>2 DEF RequestInv, RequestsSound, Kept, n
  <2>4. AloneIsOnly'
    <3>1. SUFFICES ASSUME NEW x \in Active', NEW y \in Active', request'[x].alone,
                          request'[y].object = request'[x].object
                   PROVE  y = x
      BY DEF AloneIsOnly, Object
    <3>2. CASE x = q /\ y # q
      <4>1. y \in Active /\ request[y].object = o
        BY <1>4, <1>5, <3>1, <3>2 DEF Kept, n
      <4>2. Busy(o)
        BY <4>1 DEF Busy
      <4>3. QED
        BY <1>5, <3>1, <3>2, <4>2 DEF n
    <3>3. CASE x # q /\ y = q
      BY <1>4, <1>5, <3>1, <3>3 DEF Kept, n
    <3>4. CASE x # q /\ y # q
      <4>1. x \in Active /\ y \in Active /\ request[x].alone /\ request[y].object = request[x].object
        BY <1>4, <3>1, <3>4 DEF Kept
      <4>2. QED
        BY <4>1 DEF RequestInv, AloneIsOnly, Object
    <3>5. QED
      BY <3>2, <3>3, <3>4
  <2>5. CreateAlone'
    <3>1. \A x \in Active : request[x].op \in {"create product", "create price"} =>
            request[x].object # o
      <4>1. ASSUME NEW x \in Active, request[x].op = "create product", request[x].object = o
            PROVE  FALSE
        <5>1. o \in Product /\ walletOf[o] = Never /\ Busy(o)
          BY <4>1 DEF RequestInv, RequestsSound, Sound, RowsRead, RowRead, Does, Object, Busy,
             AboutProduct, AboutWallet
        <5>2. op \notin {"create price", "update price", "delete price", "delete wallet",
                         "delete workspace"}
          BY <1>1, <5>1, Kinds DEF Admitted, AboutPrice, AboutAmount
        <5>3. op \notin {"create product", "update product", "delete product"}
          BY <1>1, <5>1 DEF Admitted
        <5>4. QED
          BY <5>2, <5>3 DEF Operation
      <4>2. ASSUME NEW x \in Active, request[x].op = "create price", request[x].object = o
            PROVE  FALSE
        <5>1. o \in Price /\ amount[o] = Never /\ Busy(o)
          BY <4>2 DEF RequestInv, RequestsSound, Sound, RowsRead, RowRead, Does, Object, Busy,
             AboutPrice, AboutAmount
        <5>2. op \notin {"create product", "update product", "delete product", "delete wallet",
                         "delete workspace"}
          BY <1>1, <5>1, Kinds DEF Admitted, AboutProduct, AboutWallet
        <5>3. op \notin {"create price", "update price", "delete price"}
          BY <1>1, <5>1 DEF Admitted
        <5>4. QED
          BY <5>2, <5>3 DEF Operation
      <4>3. QED
        BY <4>1, <4>2
    <3>2. op \in {"create product", "create price"} => ~ Busy(o)
      BY <1>1 DEF Admitted
    <3>3. QED
      BY <1>4, <1>5, <3>1, <3>2 DEF RequestInv, CreateAlone, Kept, n
  <2>6. RowsRead'
    <3>1. RowRead(q)'
      BY <1>1, <1>3, <1>5 DEF Admitted, RowRead, Object, Does, n, tables
    <3>2. walletOf' = walletOf /\ amount' = amount
      BY <1>3 DEF tables
    <3>3. \A x \in Active : RowRead(x)'
      BY <1>4, <3>2, RowKept DEF RequestInv
    <3>4. QED
      BY <1>4, <3>1, <3>3 DEF RowsRead
  <2>7. LockHeld'
    BY <1>3, <1>4, <1>5 DEF RequestInv, LockHeld, Kept, Does, Object, tables, n
  <2>8. QED
    BY <2>3, <2>4, <2>5, <2>6, <2>7 DEF RequestInv
<1>9. WalletInv'
  <2>1. now <= now' /\ UNCHANGED <<walletEvents, walletOf, disturbed>>
    BY <1>3 DEF events, tables
  <2>2. QED
    BY <1>4, <1>5, <1>6, <2>1, WalletFrame DEF n
<1>10. PriceInv'
  <2>1. priceEvents' = priceEvents /\ amount' = amount /\ disturbed' = disturbed
    BY <1>3 DEF events, tables
  <2>2. PriceNamed'
    BY <2>1 DEF PriceInv, PriceNamed, PriceEventsOf
  <2>3. ToldNamed'
    BY <2>1, <1>4, <1>5 DEF PriceInv, ToldNamed, PriceEventsOf, Object, Arg, Kept, n
  <2>4. QuietAgree'
    <3>1. \A x \in Active : request[x].told => x \in Active' /\ request'[x].told
                                               /\ request'[x].object = request[x].object
      BY <1>4 DEF Kept
    <3>2. QED
      BY <2>1, <3>1 DEF PriceInv, QuietAgree, Agree, LastNames, PriceEventsOf, Object
  <2>5. AloneTold'
    BY <2>1, <1>4, <1>5 DEF PriceInv, AloneTold, LastNames, PriceEventsOf, Object, Arg, Kept, n
  <2>6. AloneUnchanged'
    <3>1. op = "update price" /\ ~ g.changed => amount[o] = g.new
      BY <1>1 DEF Admitted
    <3>2. QED
      BY <2>1, <1>4, <1>5, <3>1 DEF PriceInv, AloneUnchanged, Object, Arg, Kept, Does, n
  <2>7. QED
    BY <2>2, <2>3, <2>4, <2>5, <2>6 DEF PriceInv
<1>11. QED
  BY <1>6, <1>7, <1>8, <1>9, <1>10

-----------------------------------------------------------------------------
(* Requests that write an event.                                           *)

LEMMA Appended ==
  ASSUME NEW T, NEW s \in Seq(T), NEW e \in T
  PROVE  /\ Append(s, e) \in Seq(T)
         /\ Len(s) \in Nat
         /\ DOMAIN s = 1 .. Len(s)
         /\ DOMAIN Append(s, e) = 1 .. (Len(s) + 1)
         /\ Append(s, e)[Len(s) + 1] = e
         /\ \A i \in DOMAIN s : Append(s, e)[i] = s[i] /\ i \in DOMAIN Append(s, e)
         /\ \A i \in DOMAIN Append(s, e) : i \in DOMAIN s \/ i = Len(s) + 1
         /\ Len(s) + 1 \notin DOMAIN s
         /\ \A i \in DOMAIN s : i <= Len(s) + 1 /\ i \in Nat
OBVIOUS

(* A price's event.                                                        *)
LEMMA PriceTold ==
  ASSUME CatalogInd, NEW q \in Active, PublishPrice(q),
         NEW r, r = Object(q), NEW k, k = Len(priceEvents) + 1
  PROVE  /\ r \in Price /\ Arg(q).new \in Amount /\ request[q].told = FALSE
         /\ EventsTyped' /\ walletEvents' = walletEvents
         /\ PriceEventsOf(r)' = PriceEventsOf(r) \cup {k}
         /\ \A o \in Price \ {r} : PriceEventsOf(o)' = PriceEventsOf(o)
         /\ \A o \in Price : \A i \in PriceEventsOf(o) :
              priceEvents'[i] = priceEvents[i] /\ i < k /\ i \in Nat
         /\ priceEvents'[k].amount = Arg(q).new /\ k \in Nat
<1> DEFINE e == [price |-> r, amount |-> Arg(q).new]
<1>1. EventsTyped /\ RequestsTyped
  BY TypeParts DEF CatalogInd
<1>2. r \in Price /\ Arg(q).new \in Amount
  BY DEF PublishPrice, Announces, CatalogInd, RequestInv, RequestsSound, Sound, AboutPrice, AboutAmount
<1>3. request[q].told = FALSE
  BY <1>1, ActiveTyped DEF PublishPrice, Announces, UnderWay
<1>4. e \in PriceMessage /\ e.price = r /\ e.amount = Arg(q).new
  BY <1>2 DEF PriceMessage
<1>5. priceEvents' = Append(priceEvents, e) /\ walletEvents' = walletEvents
  BY DEF PublishPrice, Announced
<1>6. priceEvents \in Seq(PriceMessage) /\ walletEvents \in Seq(WalletMessage)
  BY <1>1 DEF EventsTyped
<1> HIDE DEF e
<1>7. /\ priceEvents' \in Seq(PriceMessage)
      /\ priceEvents'[k] = e
      /\ \A i \in DOMAIN priceEvents : /\ priceEvents'[i] = priceEvents[i] /\ i \in DOMAIN priceEvents'
                                       /\ i < k /\ i \in Nat
      /\ \A i \in DOMAIN priceEvents' : i \in DOMAIN priceEvents \/ i = k
      /\ k \in DOMAIN priceEvents' /\ k \in Nat
  BY <1>4, <1>5, <1>6, Appended
<1>8. EventsTyped'
  BY <1>5, <1>6, <1>7 DEF EventsTyped
<1>9. PriceEventsOf(r)' = PriceEventsOf(r) \cup {k}
  BY <1>4, <1>7 DEF PriceEventsOf
<1>10. \A o \in Price \ {r} : PriceEventsOf(o)' = PriceEventsOf(o)
  BY <1>4, <1>7 DEF PriceEventsOf
<1>11. \A o \in Price : \A i \in PriceEventsOf(o) :
         priceEvents'[i] = priceEvents[i] /\ i < k /\ i \in Nat
  BY <1>7 DEF PriceEventsOf
<1>12. QED
  BY <1>2, <1>3, <1>4, <1>5, <1>7, <1>8, <1>9, <1>10, <1>11

LEMMA PublishPriceInd ==
  ASSUME CatalogInd, NEW q \in Active, PublishPrice(q)
  PROVE  CatalogInd'
<1>0. PICK r, k : r = Object(q) /\ k = Len(priceEvents) + 1
  OBVIOUS
<1>1. /\ r \in Price /\ Arg(q).new \in Amount /\ request[q].told = FALSE
      /\ EventsTyped' /\ walletEvents' = walletEvents
      /\ PriceEventsOf(r)' = PriceEventsOf(r) \cup {k}
      /\ \A o \in Price \ {r} : PriceEventsOf(o)' = PriceEventsOf(o)
      /\ \A o \in Price : \A i \in PriceEventsOf(o) :
           priceEvents'[i] = priceEvents[i] /\ i < k /\ i \in Nat
      /\ priceEvents'[k].amount = Arg(q).new /\ k \in Nat
  BY <1>0, PriceTold
<1>2. TablesTyped /\ EventsTyped /\ RequestsTyped /\ CountersTyped
  BY TypeParts DEF CatalogInd
<1>3. /\ request[q].op \in AboutAmount
      /\ request[q].op = "create price" => Exists(walletOf[ProductOf[r]])
      /\ UNCHANGED <<tables, disturbed, begun, now, failures>>
      /\ request' = [request EXCEPT ![q].told = TRUE]
  BY <1>0 DEF PublishPrice, Announces, Does, AboutAmount
<1>4. /\ RequestsTyped'
      /\ Active' = Active
      /\ \A x \in Active : Kept(x) /\ request'[x].alone = request[x].alone
      /\ \A x \in Active \ {q} : request'[x] = request[x]
      /\ request'[q].told
  BY <1>2, <1>3, TellFacts
<1>5. CatalogTypeOK'
  <2>1. TablesTyped' /\ CountersTyped'
    BY <1>2, <1>3 DEF TablesTyped, CountersTyped, tables
  <2>2. (CatalogTypeOK <=> TablesTyped /\ EventsTyped /\ RequestsTyped /\ CountersTyped)'
    BY TypeParts, PTL
  <2>3. QED
    BY <1>1, <1>4, <2>1, <2>2
<1>6. walletOf' = walletOf /\ amount' = amount /\ disturbed' = disturbed
      /\ now \in Nat /\ now' \in Nat /\ now <= now'
  <2>1. now \in Nat /\ now' = now
    BY <1>2, <1>3 DEF CountersTyped
  <2>2. now' \in Nat /\ now <= now'
    BY <2>1, ClockStands
  <2>3. QED
    BY <1>3, <2>1, <2>2 DEF tables
<1>7. NothingDangles'
  BY <1>3 DEF CatalogInd, NothingDangles, tables
<1>8. RequestInv'
  <2> USE DEF CatalogInd, RequestInv
  <2>1. RequestsSound'
    BY <1>2, <1>3, <1>4, <1>6, SoundFrame
  <2>2. AloneIsOnly' /\ CreateAlone'
    <3>1. \A x \in Active : /\ request'[x].op = request[x].op
                            /\ request'[x].object = request[x].object
                            /\ request'[x].alone = request[x].alone
      BY <1>4 DEF Kept
    <3>2. AloneIsOnly'
      BY <1>4, <3>1 DEF AloneIsOnly, Object
    <3>3. CreateAlone'
      BY <1>4, <3>1 DEF CreateAlone
    <3>4. QED
      BY <3>2, <3>3
  <2>3. RowsRead'
    BY <1>4, <1>6, RowKept DEF RowsRead
  <2>4. LockHeld'
    <3>1. ASSUME NEW x \in Active, Does(x, "create price")', request'[x].told
          PROVE  Exists(walletOf'[ProductOf[Object(x)']])
      <4>0. request'[x].op = request[x].op /\ request'[x].object = request[x].object
        BY <1>4 DEF Kept
      <4>1. CASE x = q
        BY <1>0, <1>3, <1>6, <3>1, <4>0, <4>1 DEF Does, Object
      <4>2. CASE x # q
        BY <1>4, <1>6, <3>1, <4>2 DEF LockHeld, Does, Object
      <4>3. QED
        BY <4>1, <4>2
    <3>2. QED
      BY <1>4, <3>1 DEF LockHeld
  <2>5. QED
    BY <2>1, <2>2, <2>3, <2>4
<1>9. WalletInv'
  BY <1>1, <1>4, <1>5, <1>6, WalletFrame DEF CatalogInd
<1>10. PriceInv'
  <2> USE DEF CatalogInd, PriceInv
  <2>1. ASSUME NEW o \in Price, NEW a, NEW i \in PriceEventsOf(o), priceEvents[i].amount = a
        PROVE  \E j \in PriceEventsOf(o)' : priceEvents'[j].amount = a
    <3>1. i \in PriceEventsOf(o)'
      BY <1>1
    <3>2. priceEvents'[i].amount = a
      BY <1>1, <2>1
    <3>3. QED
      BY <3>1, <3>2
  <2> DEFINE a == Arg(q).new
  <2>2. k \in PriceEventsOf(r)' /\ \A b : b = a => LastNames(r, b)'
    <3>1. k \in PriceEventsOf(r)'
      BY <1>1
    <3>2. \A j \in PriceEventsOf(r)' : j <= k
      BY <1>1
    <3>3. QED
      BY <1>1, <3>1, <3>2 DEF LastNames, IsLast
  <2>3. \A o \in Price \ {r} : \A b : LastNames(o, b) <=> LastNames(o, b)'
    BY <1>1 DEF LastNames, IsLast
  <2>4. PriceNamed'
    BY <1>6, <2>1 DEF PriceNamed
  <2>5. \A x \in Active : /\ Object(x)' = Object(x) /\ Arg(x)' = Arg(x)
                          /\ request[x].told => Object(x) \in Price
    BY <1>4 DEF Kept, Object, Arg, RequestInv, RequestsSound, Sound, AboutPrice
  <2>6. ToldNamed'
    <3>1. ASSUME NEW x \in Active, request'[x].told,
                 NEW o, o = Object(x), NEW b, b = Arg(x).new
          PROVE  \E i \in PriceEventsOf(o)' : priceEvents'[i].amount = b
      <4>1. CASE x = q
        BY <1>0, <1>1, <2>2, <3>1, <4>1
      <4>2. CASE x # q
        <5>1. o \in Price /\ \E i \in PriceEventsOf(o) : priceEvents[i].amount = b
          BY <1>4, <2>5, <3>1, <4>2 DEF ToldNamed
        <5>2. QED
          BY <2>1, <5>1
      <4>3. QED
        BY <4>1, <4>2
    <3>2. QED
      BY <1>4, <2>5, <3>1 DEF ToldNamed
  <2>7. QuietAgree'
    <3>1. ASSUME NEW o \in Price, o \notin disturbed', \A x \in Active' : request'[x].told => Object(x)' # o
          PROVE  Agree(o)'
      <4>1. o # r
        BY <1>0, <1>4, <2>5, <3>1
      <4>2. \A x \in Active : request[x].told => Object(x) # o
        BY <1>1, <1>4, <2>5, <3>1
      <4>3. Agree(o)
        BY <1>6, <3>1, <4>2 DEF QuietAgree
      <4>4. QED
        BY <1>1, <1>6, <2>3, <4>1, <4>3 DEF Agree
    <3>2. QED
      BY <3>1 DEF QuietAgree
  <2>8. AloneTold'
    <3>1. ASSUME NEW x \in Active, request[x].alone, request'[x].told,
                 NEW o, o = Object(x), NEW b, b = Arg(x).new
          PROVE  LastNames(o, b)'
      <4>1. CASE x = q
        BY <1>0, <2>2, <3>1, <4>1
      <4>2. CASE x # q
        <5>1. request[x].told /\ o \in Price
          BY <1>4, <2>5, <4>2, <3>1
        <5>2. o # r
          BY <1>0, <3>1, <4>2 DEF RequestInv, AloneIsOnly
        <5>3. LastNames(o, b)
          BY <3>1, <5>1 DEF AloneTold
        <5>4. QED
          BY <2>3, <5>1, <5>2, <5>3
      <4>3. QED
        BY <4>1, <4>2
    <3>2. QED
      BY <1>4, <2>5, <3>1 DEF AloneTold
  <2>9. AloneUnchanged'
    BY <1>4, <1>6 DEF AloneUnchanged, Kept, Object, Arg, Does
  <2>10. QED
    BY <2>4, <2>6, <2>7, <2>8, <2>9
<1>11. QED
  BY <1>5, <1>7, <1>8, <1>9, <1>10 DEF CatalogInd

(* A product's event: nobody else who had the product to himself is left.  *)
LEMMA ProductCommitted ==
  ASSUME CatalogInd, NEW q \in Active, CommitProduct(q)
  PROVE  \E p, w, k, e :
         /\ p = Object(q) /\ w = Arg(q).new /\ k = Len(walletEvents) + 1
         /\ e = [product |-> p, wallet |-> w, stamp |-> request[q].stamp,
                 began |-> request[q].began, committed |-> now]
         /\ p \in Product /\ w \in Wallet /\ Exists(wallet[w]) /\ request[q].told = FALSE
         /\ request[q].op \in AboutWallet
         /\ CatalogTypeOK' /\ now' = now
         /\ request' = [request EXCEPT ![q] = Idle]
         /\ disturbed' \in {disturbed \cup {p}, disturbed \ {p}}
         /\ request[q].alone <=> p \notin disturbed'
         /\ UNCHANGED <<workspace, wallet, amount, priceEvents>>
         /\ walletOf'[p] = w /\ \A o \in Product \ {p} : walletOf'[o] = walletOf[o]
         /\ DOMAIN walletEvents' = DOMAIN walletEvents \cup {k}
         /\ \A i \in DOMAIN walletEvents : walletEvents'[i] = walletEvents[i] /\ i < k /\ i \in Nat
         /\ k \in Nat
         /\ walletEvents'[k] = e
<1>0. PICK p, w, k, e :
        /\ p = Object(q) /\ w = Arg(q).new /\ k = Len(walletEvents) + 1
        /\ e = [product |-> p, wallet |-> w, stamp |-> request[q].stamp,
                began |-> request[q].began, committed |-> now]
  OBVIOUS
<1>1. TablesTyped /\ EventsTyped /\ RequestsTyped /\ CountersTyped
  BY TypeParts DEF CatalogInd
<1>2. PICK op \in AboutWallet : Committing(q, op)
  BY DEF CommitProduct, AboutWallet
<1>3. request[q].op \in AboutWallet
  BY <1>2 DEF Committing, Does
<1>4. p \in Product /\ w \in Wallet
  BY <1>0, <1>3 DEF CatalogInd, RequestInv, RequestsSound, Sound, AboutProduct
<1>5. request[q].told = FALSE
  <2>1. request[q].told \in BOOLEAN
    BY <1>1, ActiveTyped DEF UnderWay
  <2>2. QED
    BY <1>3, <2>1 DEF CatalogInd, RequestInv, RequestsSound, AboutWallet, AboutAmount
<1>6. /\ UNCHANGED <<workspace, wallet, amount, priceEvents>>
      /\ walletOf' = [walletOf EXCEPT ![p] = w]
      /\ walletEvents' = Append(walletEvents, e)
  BY <1>0 DEF CommitProduct, WalletTold
<1>7. e \in WalletMessage
  <2>1. request[q].stamp \in Nat /\ request[q].began \in Nat /\ now \in Nat
    BY <1>1, ActiveTyped DEF UnderWay, CountersTyped
  <2>2. QED
    BY <1>0, <1>4, <2>1 DEF WalletMessage
<1>8. walletEvents \in Seq(WalletMessage) /\ priceEvents \in Seq(PriceMessage)
  BY <1>1 DEF EventsTyped
<1>9. /\ walletEvents' \in Seq(WalletMessage) /\ k \in Nat
      /\ DOMAIN walletEvents' = DOMAIN walletEvents \cup {k}
      /\ \A i \in DOMAIN walletEvents : walletEvents'[i] = walletEvents[i] /\ i < k /\ i \in Nat
      /\ walletEvents'[k] = e
  BY <1>0, <1>6, <1>7, <1>8, Appended
<1>10. EventsTyped'
  BY <1>6, <1>8, <1>9 DEF EventsTyped
<1>11. TablesTyped' /\ walletOf'[p] = w /\ \A o \in Product \ {p} : walletOf'[o] = walletOf[o]
  BY <1>1, <1>4, <1>6 DEF TablesTyped
<1>12. /\ CatalogTypeOK' /\ now' = now /\ ~ Violates(q)
       /\ request' = [request EXCEPT ![q] = Idle]
       /\ disturbed' \in {disturbed \cup {p}, disturbed \ {p}}
       /\ request[q].alone <=> p \notin disturbed'
  BY <1>0, <1>2, <1>10, <1>11, CommitFacts DEF AboutWallet, Operation, EndRequest
<1>13. Exists(wallet[w])
  BY <1>0, <1>3, <1>12 DEF Violates, Does, AboutWallet
<1>14. WITNESS p, w, k, e
<1>15. QED
  BY <1>0, <1>3, <1>4, <1>5, <1>6, <1>9, <1>11, <1>12, <1>13, Zenon

LEMMA CommitProductInd ==
  ASSUME CatalogInd, NEW q \in Active, CommitProduct(q)
  PROVE  CatalogInd'
<1>1. PICK p, w, k, e :
        /\ p = Object(q) /\ w = Arg(q).new /\ k = Len(walletEvents) + 1
        /\ e = [product |-> p, wallet |-> w, stamp |-> request[q].stamp,
                began |-> request[q].began, committed |-> now]
        /\ p \in Product /\ w \in Wallet /\ Exists(wallet[w]) /\ request[q].told = FALSE
        /\ request[q].op \in AboutWallet
        /\ CatalogTypeOK' /\ now' = now
        /\ request' = [request EXCEPT ![q] = Idle]
        /\ disturbed' \in {disturbed \cup {p}, disturbed \ {p}}
        /\ request[q].alone <=> p \notin disturbed'
        /\ UNCHANGED <<workspace, wallet, amount, priceEvents>>
        /\ walletOf'[p] = w /\ \A o \in Product \ {p} : walletOf'[o] = walletOf[o]
        /\ DOMAIN walletEvents' = DOMAIN walletEvents \cup {k}
        /\ \A i \in DOMAIN walletEvents : walletEvents'[i] = walletEvents[i] /\ i < k /\ i \in Nat
        /\ k \in Nat
        /\ walletEvents'[k] = e
  BY ProductCommitted
<1>2. RequestsTyped /\ now \in Nat /\ now' \in Nat /\ now <= now'
  <2>1. RequestsTyped /\ now \in Nat
    BY TypeParts DEF CatalogInd, CountersTyped
  <2>2. QED
    BY <1>1, <2>1, ClockStands
<1>3. /\ Active' = Active \ {q}
      /\ \A x \in Active' : x \in Active /\ request'[x] = request[x] /\ Kept(x)
  BY <1>1, <1>2, Ended DEF Kept, EndRequest
<1>4. /\ e.product = p /\ e.wallet = w /\ e.stamp = request[q].stamp
      /\ e.began = request[q].began /\ e.committed = now
  BY <1>1
<1>5. Exists(w) /\ w # Never
  BY <1>1, States DEF CatalogInd
<1>6. NothingDangles'
  <2>1. \A o \in Product : Exists(walletOf[o]) => Exists(walletOf'[o])
    BY <1>1, <1>5
  <2>2. \A o \in Product : Exists(walletOf'[o]) => Exists(wallet'[walletOf'[o]])
    BY <1>1 DEF CatalogInd, NothingDangles
  <2>3. \A r \in Price : ProductOf[r] \in Product
    BY CatalogAssumption
  <2>4. QED
    BY <1>1, <2>1, <2>2, <2>3 DEF CatalogInd, NothingDangles
<1>7. \A x \in Active' : Object(x) = p => ~ request[x].alone /\ ~ request[q].alone
  BY <1>1, <1>3 DEF CatalogInd, RequestInv, AloneIsOnly
<1>8. RequestInv'
  <2> USE DEF CatalogInd, RequestInv
  <2>1. RequestsSound'
    BY <1>2, <1>3, SoundFrame
  <2>2. AloneIsOnly' /\ CreateAlone'
    BY <1>3, AloneFrame
  <2>3. RowsRead'
    <3>1. ASSUME NEW x \in Active', request[x].op \in AboutProduct
          PROVE  walletOf'[Object(x)] = Never <=> walletOf[Object(x)] = Never
      <4>1. Object(x) \in Product
        BY <1>3, <3>1 DEF RequestsSound, Sound
      <4>2. CASE Object(x) = p
        <5>1. request[q].op # "create product"
          BY <1>7, <4>2 DEF CreateAlone
        <5>2. request[q].op = "update product"
          BY <1>1, <5>1 DEF AboutWallet
        <5>3. walletOf[p] # Never
          BY <1>1, <5>2 DEF RowsRead, RowRead
        <5>4. QED
          BY <1>1, <1>5, <4>2, <5>3
      <4>3. CASE Object(x) # p
        BY <1>1, <4>1, <4>3
      <4>4. QED
        BY <4>2, <4>3
    <3>2. QED
      BY <1>1, <1>3, <3>1, RowKept DEF RowsRead
  <2>4. LockHeld'
    <3>1. ASSUME NEW x \in Active', Does(x, "create price"), request[x].told
          PROVE  Exists(walletOf'[ProductOf[Object(x)]])
      <4>1. Exists(walletOf[ProductOf[Object(x)]]) /\ Object(x) \in Price
        BY <1>3, <3>1 DEF LockHeld, RequestsSound, Sound, Does, AboutPrice, AboutAmount
      <4>2. ProductOf[Object(x)] \in Product
        BY <4>1, CatalogAssumption
      <4>3. QED
        BY <1>1, <1>5, <4>1, <4>2
    <3>2. QED
      BY <1>3, <3>1, LockFrame
  <2>5. QED
    BY <2>1, <2>2, <2>3, <2>4
<1>9. WalletInv'
  <2> USE DEF CatalogInd, WalletInv
  <2>1. request[q].stamp = request[q].began /\ request[q].began <= now
    BY DEF RequestInv, RequestsSound, Stamped
  <2>2. EventsStamped'
    <3>1. ASSUME NEW i \in DOMAIN walletEvents'
          PROVE  /\ walletEvents'[i].stamp = walletEvents'[i].began
                 /\ walletEvents'[i].began <= walletEvents'[i].committed
                 /\ walletEvents'[i].committed <= now'
      <4>1. CASE i = k
        BY <1>1, <1>2, <1>4, <2>1, <4>1
      <4>2. CASE i \in DOMAIN walletEvents
        BY <1>1, <1>2, <4>2 DEF EventsStamped
      <4>3. QED
        BY <1>1, <4>1, <4>2
    <3>2. QED
      BY <3>1 DEF EventsStamped
  <2>3. WalletEventsOf(p)' = WalletEventsOf(p) \cup {k}
    BY <1>1, <1>4 DEF WalletEventsOf
  <2>4. \A o \in Product \ {p} : WalletEventsOf(o)' = WalletEventsOf(o)
    BY <1>1, <1>4 DEF WalletEventsOf
  <2>5. \A o : WalletEventsOf(o) \subseteq DOMAIN walletEvents
    BY DEF WalletEventsOf
  <2>6. WalletNamed'
    <3>1. ASSUME NEW o \in Product \ {p}, Exists(walletOf'[o])
          PROVE  \E i \in WalletEventsOf(o)' :
                   /\ IsLast(i, WalletEventsOf(o)')
                   /\ walletEvents'[i].wallet = walletOf'[o]
                   /\ o \notin disturbed' => \A j \in WalletEventsOf(o)' \ {i} :
                        walletEvents'[j].committed <= walletEvents'[i].began
      <4>1. walletOf'[o] = walletOf[o] /\ (o \notin disturbed' => o \notin disturbed)
        BY <1>1
      <4>2. PICK i \in WalletEventsOf(o) :
              /\ IsLast(i, WalletEventsOf(o))
              /\ walletEvents[i].wallet = walletOf[o]
              /\ o \notin disturbed => \A j \in WalletEventsOf(o) \ {i} :
                   walletEvents[j].committed <= walletEvents[i].began
        BY <3>1, <4>1 DEF WalletNamed
      <4>3. \A j \in WalletEventsOf(o) : walletEvents'[j] = walletEvents[j]
        BY <1>1, <2>5
      <4>4. QED
        BY <2>4, <4>1, <4>2, <4>3
    <3>2. IsLast(k, WalletEventsOf(p)')
      BY <1>1, <2>3, <2>5 DEF IsLast
    <3>3. p \notin disturbed' => \A j \in WalletEventsOf(p)' \ {k} :
            walletEvents'[j].committed <= walletEvents'[k].began
      BY <1>1, <1>4, <2>3, <2>5 DEF AloneAfterAll
    <3>4. walletEvents'[k].wallet = walletOf'[p] /\ k \in WalletEventsOf(p)'
      BY <1>1, <1>4, <2>3
    <3>5. QED
      BY <3>1, <3>2, <3>3, <3>4 DEF WalletNamed, IsLast
  <2>7. AloneAfterAll'
    <3>1. ASSUME NEW x \in Active', request[x].alone, NEW i \in DOMAIN walletEvents',
                 walletEvents'[i].product = Object(x)
          PROVE  walletEvents'[i].committed <= request[x].began
      <4>1. i # k
        BY <1>1, <1>4, <1>7, <3>1
      <4>2. i \in DOMAIN walletEvents /\ walletEvents'[i] = walletEvents[i]
        BY <1>1, <4>1
      <4>3. QED
        BY <1>3, <3>1, <4>2 DEF AloneAfterAll, WalletEventsOf
    <3>2. \A x \in Active' : Object(x)' = Object(x)
      BY <1>3 DEF Object
    <3>3. QED
      BY <1>3, <3>1, <3>2 DEF AloneAfterAll, WalletEventsOf
  <2>8. QED
    BY <2>2, <2>6, <2>7
<1>10. PriceInv'
  <2>1. \A r \in Price : amount'[r] = amount[r] /\ (r \notin disturbed' => r \notin disturbed)
    BY <1>1, Kinds
  <2>2. \A x \in Active \ Active' : ~ request[x].told
    BY <1>1, <1>3
  <2>3. QED
    BY <1>1, <1>3, <2>1, <2>2, PriceFrame DEF CatalogInd, RequestInv
<1>11. QED
  BY <1>1, <1>6, <1>8, <1>9, <1>10 DEF CatalogInd

(* The price that was announced.                                           *)
LEMMA PriceCommitted ==
  ASSUME CatalogInd, NEW q \in Active, CommitPrice(q), NEW r, r = Object(q), NEW a, a = Arg(q).new
  PROVE  /\ r \in Price /\ a \in Amount /\ Exists(a) /\ request[q].told
         /\ request[q].op \in AboutAmount
         /\ CatalogTypeOK' /\ now' = now /\ ~ Violates(q)
         /\ request' = [request EXCEPT ![q] = Idle]
         /\ disturbed' \in {disturbed \cup {r}, disturbed \ {r}}
         /\ request[q].alone <=> r \notin disturbed'
         /\ UNCHANGED <<workspace, wallet, walletOf>>
         /\ UNCHANGED <<walletEvents, priceEvents>>
         /\ amount'[r] = IF Arg(q).changed THEN a ELSE amount[r]
         /\ \A o \in Price \ {r} : amount'[o] = amount[o]
<1>1. TablesTyped /\ EventsTyped /\ RequestsTyped /\ CountersTyped
  BY TypeParts DEF CatalogInd
<1>2. PICK op \in AboutAmount : Committing(q, op)
  BY DEF CommitPrice, AboutAmount
<1>3. request[q].op \in AboutAmount /\ request[q].told
  BY <1>2 DEF Committing, Does, CommitPrice
<1>4. r \in Price /\ a \in Amount
  BY <1>3 DEF CatalogInd, RequestInv, RequestsSound, Sound, AboutPrice
<1>5. Exists(a)
  BY <1>4, States DEF CatalogInd
<1>6. /\ UNCHANGED <<workspace, wallet, walletOf>> /\ UNCHANGED <<walletEvents, priceEvents>>
      /\ amount' = IF Arg(q).changed THEN [amount EXCEPT ![r] = a] ELSE amount
  BY DEF CommitPrice, PriceWritten, events
<1>7. /\ amount'[r] = IF Arg(q).changed THEN a ELSE amount[r]
      /\ \A o \in Price \ {r} : amount'[o] = amount[o]
      /\ amount' \in [Price -> Amount \cup {Never, Gone}]
  BY <1>1, <1>4, <1>6 DEF TablesTyped
<1>8. TablesTyped' /\ EventsTyped'
  BY <1>1, <1>6, <1>7 DEF TablesTyped, EventsTyped
<1>9. /\ CatalogTypeOK' /\ now' = now /\ ~ Violates(q)
      /\ request' = [request EXCEPT ![q] = Idle]
      /\ disturbed' \in {disturbed \cup {r}, disturbed \ {r}}
      /\ request[q].alone <=> r \notin disturbed'
  BY <1>2, <1>8, CommitFacts DEF AboutAmount, Operation, EndRequest
<1>10. QED
  BY <1>3, <1>4, <1>5, <1>6, <1>7, <1>9, Zenon

LEMMA CommitPriceInd ==
  ASSUME CatalogInd, NEW q \in Active, CommitPrice(q)
  PROVE  CatalogInd'
<1>0. PICK r, a : r = Object(q) /\ a = Arg(q).new
  OBVIOUS
<1>1. /\ r \in Price /\ a \in Amount /\ Exists(a) /\ request[q].told
      /\ request[q].op \in AboutAmount
      /\ CatalogTypeOK' /\ now' = now /\ ~ Violates(q)
      /\ request' = [request EXCEPT ![q] = Idle]
      /\ disturbed' \in {disturbed \cup {r}, disturbed \ {r}}
      /\ request[q].alone <=> r \notin disturbed'
      /\ UNCHANGED <<workspace, wallet, walletOf>>
      /\ UNCHANGED <<walletEvents, priceEvents>>
      /\ amount'[r] = IF Arg(q).changed THEN a ELSE amount[r]
      /\ \A o \in Price \ {r} : amount'[o] = amount[o]
  BY <1>0, PriceCommitted
<1>2. RequestsTyped /\ now \in Nat /\ now' \in Nat /\ now <= now'
  <2>1. RequestsTyped /\ now \in Nat
    BY TypeParts DEF CatalogInd, CountersTyped
  <2>2. QED
    BY <1>1, <2>1, ClockStands
<1>3. /\ Active' = Active \ {q}
      /\ \A x \in Active' : x \in Active /\ request'[x] = request[x] /\ Kept(x)
  BY <1>1, <1>2, Ended DEF Kept, EndRequest
<1>4. /\ request[q].op = "create price" => Arg(q).changed /\ Exists(walletOf[ProductOf[r]])
      /\ request[q].op = "update price" => amount[r] # Never
      /\ request[q].op = "update price" /\ Arg(q).changed => Exists(amount[r])
  <2>1. Arg(q).changed /\ request[q].op = "update price" => Exists(amount[r])
    BY <1>0, <1>1 DEF Violates, Does
  <2>2. QED
    BY <1>0, <1>1, <2>1 DEF CatalogInd, RequestInv, RequestsSound, Sound, LockHeld, RowsRead, RowRead,
       Does
<1>5. amount'[r] # Never
  <2>1. a # Never
    BY <1>1, States DEF CatalogInd
  <2>2. CASE Arg(q).changed
    BY <1>1, <2>1, <2>2
  <2>3. CASE ~ Arg(q).changed
    <3>1. amount[r] # Never
      BY <1>1, <1>4, <2>3 DEF AboutAmount
    <3>2. amount'[r] = amount[r]
      BY <1>1, <2>3
    <3>3. QED
      BY <3>1, <3>2
  <2>4. QED
    BY <2>2, <2>3
<1>6. NothingDangles'
  <2>1. ASSUME NEW o \in Price, Exists(amount'[o])
        PROVE  Exists(walletOf[ProductOf[o]])
    <3>1. CASE o = r
      <4>1. CASE request[q].op = "create price"
        BY <1>4, <3>1, <4>1
      <4>2. CASE request[q].op = "update price"
        <5>1. Arg(q).changed => Exists(amount[r])
          BY <1>4, <4>2
        <5>2. ~ Arg(q).changed => amount'[r] = amount[r]
          BY <1>1
        <5>3. Exists(amount[r])
          BY <2>1, <3>1, <5>1, <5>2
        <5>4. QED
          BY <1>1, <3>1, <5>3 DEF CatalogInd, NothingDangles
      <4>3. QED
        BY <1>1, <4>1, <4>2 DEF AboutAmount
    <3>2. CASE o # r
      BY <1>1, <2>1, <3>2 DEF CatalogInd, NothingDangles
    <3>3. QED
      BY <3>1, <3>2
  <2>2. QED
    BY <1>1, <2>1 DEF CatalogInd, NothingDangles
<1>7. \A x \in Active' : Object(x) = r => ~ request[x].alone /\ ~ request[q].alone
  BY <1>0, <1>3 DEF CatalogInd, RequestInv, AloneIsOnly
<1>8. RequestInv'
  <2> USE DEF CatalogInd, RequestInv
  <2>1. RequestsSound'
    BY <1>2, <1>3, SoundFrame
  <2>2. AloneIsOnly' /\ CreateAlone'
    BY <1>3, AloneFrame
  <2>3. RowsRead'
    <3>1. ASSUME NEW x \in Active', request[x].op \in AboutPrice
          PROVE  amount'[Object(x)] = Never <=> amount[Object(x)] = Never
      <4>1. Object(x) \in Price
        BY <1>3, <3>1 DEF RequestsSound, Sound
      <4>2. CASE Object(x) = r
        <5>1. request[q].op # "create price"
          BY <1>7, <4>2 DEF CreateAlone
        <5>2. request[q].op = "update price"
          BY <1>1, <5>1 DEF AboutAmount
        <5>3. amount[r] # Never
          BY <1>4, <5>2
        <5>4. QED
          BY <1>5, <4>2, <5>3
      <4>3. CASE Object(x) # r
        BY <1>1, <4>1, <4>3
      <4>4. QED
        BY <4>2, <4>3
    <3>2. QED
      BY <1>1, <1>3, <3>1, RowKept DEF RowsRead
  <2>4. LockHeld'
    BY <1>1, <1>3, LockFrame DEF LockHeld
  <2>5. QED
    BY <2>1, <2>2, <2>3, <2>4
<1>9. WalletInv'
  <2>1. \A p \in Product : p \notin disturbed' => p \notin disturbed
    BY <1>1, Kinds
  <2>2. QED
    BY <1>1, <1>2, <1>3, <2>1, WalletFrame DEF CatalogInd
<1>10. PriceInv'
  <2> USE DEF CatalogInd, PriceInv
  <2>1. \A o : PriceEventsOf(o)' = PriceEventsOf(o) /\ \A b : LastNames(o, b)' <=> LastNames(o, b)
    BY <1>1 DEF PriceEventsOf, LastNames
  <2>2. \A x \in Active' : Object(x)' = Object(x) /\ Arg(x)' = Arg(x)
    BY <1>3 DEF Object, Arg
  <2>3. PriceNamed'
    <3>1. \E i \in PriceEventsOf(r) : priceEvents[i].amount = a
      BY <1>0, <1>1 DEF ToldNamed
    <3>2. \A o \in Price : Exists(amount'[o]) => \E i \in PriceEventsOf(o) : priceEvents[i].amount = amount'[o]
      BY <1>1, <3>1 DEF PriceNamed
    <3>3. QED
      BY <1>1, <2>1, <3>2 DEF PriceNamed
  <2>4. ToldNamed'
    BY <1>1, <1>3 DEF ToldNamed, PriceEventsOf, Object, Arg
  <2>5. AloneTold'
    BY <1>1, <1>3 DEF AloneTold, LastNames, PriceEventsOf, Object, Arg
  <2>6. AloneUnchanged'
    <3>1. ASSUME NEW x \in Active', request[x].alone, Does(x, "update price"),
                 ~ Arg(x).changed, Exists(amount'[Object(x)])
          PROVE  amount'[Object(x)] = Arg(x).new
      <4>1. Object(x) \in Price \ {r}
        BY <1>3, <1>7, <3>1 DEF RequestInv, RequestsSound, Sound, Does, AboutPrice, AboutAmount
      <4>2. amount'[Object(x)] = amount[Object(x)]
        BY <1>1, <4>1
      <4>3. QED
        BY <1>3, <3>1, <4>2 DEF AloneUnchanged
    <3>2. \A x \in Active' : Does(x, "update price")' <=> Does(x, "update price")
      BY <1>3 DEF Does
    <3>3. QED
      BY <1>3, <2>2, <3>1, <3>2 DEF AloneUnchanged
  <2>7. QuietAgree'
    <3>1. ASSUME NEW o \in Price, o \notin disturbed', \A x \in Active' : request[x].told => Object(x) # o
          PROVE  Agree(o)'
      <4>1. CASE o # r
        <5>1. \A x \in Active : request[x].told => Object(x) # o
          BY <1>0, <1>3, <3>1, <4>1
        <5>2. Agree(o)
          BY <1>1, <3>1, <4>1, <5>1 DEF QuietAgree
        <5>3. QED
          BY <1>1, <2>1, <4>1, <5>2 DEF Agree
      <4>2. CASE o = r
        <5>1. LastNames(r, a) /\ request[q].alone
          BY <1>0, <1>1, <3>1, <4>2 DEF AloneTold
        <5>2. Exists(amount'[r]) => amount'[r] = a
          BY <1>0, <1>1, <1>4, <5>1 DEF AloneUnchanged, AboutAmount, Does
        <5>3. QED
          BY <1>5, <2>1, <4>2, <5>1, <5>2 DEF Agree
      <4>3. QED
        BY <4>1, <4>2
    <3>2. QED
      BY <1>3, <2>2, <3>1 DEF QuietAgree
  <2>8. QED
    BY <2>3, <2>4, <2>5, <2>6, <2>7
<1>11. QED
  BY <1>1, <1>6, <1>8, <1>9, <1>10 DEF CatalogInd

-----------------------------------------------------------------------------
(* Every step.                                                             *)

LEMMA CatalogStep == CatalogInd /\ [CatalogNext]_catalogVars => CatalogInd'
<1>1. SUFFICES ASSUME CatalogInd, [CatalogNext]_catalogVars
               PROVE  CatalogInd'
  OBVIOUS
<1>2. CASE Tick \/ CreateWorkspace \/ (\E w \in Wallet : CreateWallet(w)) \/ UNCHANGED catalogVars
  BY <1>1, <1>2, OwnerInd
<1>3. ASSUME NEW q \in Request, Arrive(q)
      PROVE  CatalogInd'
  BY <1>1, <1>3, BeginInd
<1>4. ASSUME NEW q \in Active, ProceedWith(q)
      PROVE  CatalogInd'
  BY <1>1, <1>4, NoCommitInd, PublishPriceInd, CommitProductInd, CommitPriceInd, DeleteProductInd,
     DeletePriceInd, DeleteWalletInd, DeleteWorkspaceInd DEF ProceedWith
<1>5. ASSUME NEW q \in Request, FailRequest(q)
      PROVE  CatalogInd'
  <2>1. q \in Active
    BY <1>5 DEF FailRequest
  <2>2. QED
    BY <1>1, <1>5, <2>1, NoCommitInd
<1>6. QED
  BY <1>1, <1>2, <1>3, <1>4, <1>5 DEF CatalogNext

LEMMA CatalogAlways == CatalogSpec => []CatalogInd
BY CatalogInitInd, CatalogStep, PTL DEF CatalogSpec

(* CatalogTypeOK: every variable has its type, so every event names a      *)
(* wallet or an amount.                                                    *)
THEOREM CatalogTypeCorrect == CatalogSpec => []CatalogTypeOK
<1>1. CatalogInd => CatalogTypeOK
  BY DEF CatalogInd
<1>2. QED
  BY <1>1, CatalogAlways, PTL

(* NothingDangles: keys and locks keep a product's wallet and a price's    *)
(* product, however requests overlap.                                      *)
THEOREM NoDangling == CatalogSpec => []NothingDangles
<1>1. CatalogInd => NothingDangles
  BY DEF CatalogInd
<1>2. QED
  BY <1>1, CatalogAlways, PTL

LEMMA LastIs ==
  ASSUME NEW S, S \subseteq Nat, NEW i, IsLast(i, S)
  PROVE  Last(S) = i
<1> DEFINE l == Last(S)
<1>1. l \in S /\ \A j \in S : j <= l
  BY DEF Last, IsLast
<1>2. i \in S /\ \A j \in S : j <= i
  BY DEF IsLast
<1>3. l \in Nat /\ i \in Nat /\ l <= i /\ i <= l
  BY <1>1, <1>2
<1>4. QED
  BY <1>3

(* WalletEventsCurrent: the last event committed for a product names its   *)
(* wallet, and unless its updates overlapped it carries the newest stamp.  *)
THEOREM WalletEventsRight == CatalogSpec => []WalletEventsCurrent
<1>1. CatalogInd => WalletEventsCurrent
  <2>1. SUFFICES ASSUME CatalogInd, NEW p \in Product, Exists(walletOf[p])
                 PROVE  LET l == Last(WalletEventsOf(p))
                        IN  /\ WalletEventsOf(p) # {}
                            /\ walletEvents[l].wallet = walletOf[p]
                            /\ p \notin disturbed => \A i \in WalletEventsOf(p) \ {l} :
                                 \/ walletEvents[i].stamp < walletEvents[l].stamp
                                 \/ /\ walletEvents[i].stamp = walletEvents[l].stamp
                                    /\ walletEvents[i].committed = walletEvents[l].began
    BY DEF WalletEventsCurrent, WalletAnnounced, NewestEventIsCurrent
  <2>2. PICK i \in WalletEventsOf(p) :
          /\ IsLast(i, WalletEventsOf(p))
          /\ walletEvents[i].wallet = walletOf[p]
          /\ p \notin disturbed =>
               \A j \in WalletEventsOf(p) \ {i} : walletEvents[j].committed <= walletEvents[i].began
    BY <2>1 DEF CatalogInd, WalletInv, WalletNamed
  <2>3. \A j \in WalletEventsOf(p) :
          /\ j \in Nat /\ walletEvents[j].began \in Nat /\ walletEvents[j].committed \in Nat
          /\ walletEvents[j].stamp = walletEvents[j].began
          /\ walletEvents[j].began <= walletEvents[j].committed
    BY <2>1, WalletEventTyped DEF CatalogInd, WalletInv, EventsStamped, WalletEventsOf
  <2>4. Last(WalletEventsOf(p)) = i
    BY <2>2, <2>3, LastIs
  <2>5. ASSUME NEW j \in WalletEventsOf(p) \ {i}, p \notin disturbed
        PROVE  \/ walletEvents[j].stamp < walletEvents[i].stamp
               \/ /\ walletEvents[j].stamp = walletEvents[i].stamp
                  /\ walletEvents[j].committed = walletEvents[i].began
    <3>1. walletEvents[j].committed <= walletEvents[i].began
      BY <2>2, <2>5
    <3>2. QED
      BY <2>3, <2>5, <3>1
  <2>6. QED
    BY <2>2, <2>4, <2>5
<1>2. QED
  BY <1>1, CatalogAlways, PTL

(* PriceEventsCurrent: no price is in force unannounced, and the last      *)
(* event names the price's amount once nothing is under way, unless        *)
(* requests overlapped or failed.                                          *)
THEOREM PriceEventsRight == CatalogSpec => []PriceEventsCurrent
<1>1. CatalogInd => PriceEventsCurrent
  <2>1. SUFFICES ASSUME CatalogInd, NEW r \in Price
                 PROVE  /\ Exists(amount[r]) => \E i \in PriceEventsOf(r) : priceEvents[i].amount = amount[r]
                        /\ (r \notin disturbed /\ ~ Busy(r)) =>
                             /\ PriceEventsOf(r) # {} => amount[r] # Never
                             /\ Exists(amount[r]) =>
                                  priceEvents[Last(PriceEventsOf(r))].amount = amount[r]
    BY DEF PriceEventsCurrent
  <2>2. Exists(amount[r]) => \E i \in PriceEventsOf(r) : priceEvents[i].amount = amount[r]
    BY <2>1 DEF CatalogInd, PriceInv, PriceNamed
  <2>3. ASSUME r \notin disturbed, ~ Busy(r)
        PROVE  Agree(r)
    BY <2>1, <2>3 DEF CatalogInd, PriceInv, QuietAgree, Busy, Object
  <2>4. PriceEventsOf(r) \subseteq Nat
    BY <2>1, TypeParts DEF CatalogInd, EventsTyped, PriceEventsOf
  <2>5. LastNames(r, amount[r]) => priceEvents[Last(PriceEventsOf(r))].amount = amount[r]
    BY <2>4, LastIs DEF LastNames
  <2>6. QED
    BY <2>2, <2>3, <2>5 DEF Agree
<1>2. QED
  BY <1>1, CatalogAlways, PTL

-----------------------------------------------------------------------------
(* The two together.  An owner deletes and updates in Catalog; the product *)
(* worker of ContractSync finds the events in its topic and looks up the   *)
(* wallets they name.  Nothing is assumed about the steps the two take;    *)
(* what the outbox and Kafka have to have done by then is a premise.       *)

Carries(record, i) ==
  Entry[record] = walletEvents[i].product /\ WalletIn[record] = walletEvents[i].wallet

(* The worker has passed its whole topic, and wallets it did not find are  *)
(* those that were deleted.                                                *)
CaughtUp ==
  /\ committed["product"] = Len(topic["product"])
  /\ \A e \in walletGone : ~ Exists(wallet[WalletIn[e]])

(* Record i is the last of product p, and not one of those that came       *)
(* before the worker had an offset.                                        *)
LastRecord(p, i) ==
  /\ i \in base["product"] + 1 .. Len(topic["product"])
  /\ Entry[topic["product"][i]] = p
  /\ \A j \in i + 1 .. Len(topic["product"]) : Entry[topic["product"][j]] # p

(* Its last record is its last event in the order of the commits.          *)
LastInOrder(p) ==
  \E i \in Nat : /\ LastRecord(p, i)
                 /\ Carries(topic["product"][i], Last(WalletEventsOf(p)))

(* Its last record is its event with the newest stamp.                     *)
LastByStamp(p) ==
  \E i \in Nat, n \in WalletEventsOf(p) :
    /\ LastRecord(p, i)
    /\ Carries(topic["product"][i], n)
    /\ \A m \in WalletEventsOf(p) \ {n} : walletEvents[m].stamp < walletEvents[n].stamp

(* The contract pays what p earns to wallet w.                             *)
Pays(p, w) == \E e : Recipient(p) = {e} /\ WalletIn[e] = w

LEMMA Delivered ==
  ASSUME NothingDangles, WalletAnnounced, CaughtUpMeansCurrent, CaughtUp,
         NEW p \in Product, Exists(walletOf[p]), LastInOrder(p)
  PROVE  Pays(p, walletOf[p])
<1>1. PICK i \in Nat : /\ LastRecord(p, i)
                       /\ Carries(topic["product"][i], Last(WalletEventsOf(p)))
  BY DEF LastInOrder
<1> DEFINE e == topic["product"][i]
<1>2. Entry[e] = p /\ WalletIn[e] = walletOf[p]
  BY <1>1 DEF LastRecord, Carries, WalletAnnounced
<1>3. e \notin walletGone
  BY <1>2 DEF CaughtUp, NothingDangles
<1>4. Recipient(Entry[e]) = {e}
  BY <1>1, <1>2, <1>3 DEF CaughtUpMeansCurrent, CaughtUp, LastRecord
<1>5. QED
  BY <1>2, <1>4 DEF Pays

(* As long as its updates did not overlap, the newest stamp is on the last *)
(* event.                                                                  *)
LEMMA StampOrder ==
  ASSUME CatalogInd, WalletEventsCurrent,
         NEW p \in Product \ disturbed, Exists(walletOf[p]), LastByStamp(p)
  PROVE  LastInOrder(p)
<1>1. PICK i \in Nat, n \in WalletEventsOf(p) :
        /\ LastRecord(p, i)
        /\ Carries(topic["product"][i], n)
        /\ \A m \in WalletEventsOf(p) \ {n} : walletEvents[m].stamp < walletEvents[n].stamp
  BY DEF LastByStamp
<1> DEFINE l == Last(WalletEventsOf(p))
<1>2. SUFFICES ASSUME n # l PROVE FALSE
  BY <1>1 DEF LastInOrder
<1>3. \/ walletEvents[n].stamp < walletEvents[l].stamp
      \/ walletEvents[n].stamp = walletEvents[l].stamp
  BY <1>2 DEF WalletEventsCurrent, NewestEventIsCurrent
<1>4. l \in WalletEventsOf(p)
  <2>1. PICK k \in WalletEventsOf(p) : IsLast(k, WalletEventsOf(p))
    BY DEF CatalogInd, WalletInv, WalletNamed
  <2>2. WalletEventsOf(p) \subseteq Nat
    BY TypeParts DEF CatalogInd, EventsTyped, WalletEventsOf
  <2>3. QED
    BY <2>1, <2>2, LastIs
<1>5. walletEvents[l].stamp < walletEvents[n].stamp
  BY <1>1, <1>2, <1>4
<1>6. walletEvents[l].stamp \in Nat /\ walletEvents[n].stamp \in Nat
  BY <1>4, WalletEventTyped DEF CatalogInd, WalletInv, EventsStamped, WalletEventsOf
<1>7. QED
  BY <1>3, <1>5, <1>6

(* Whatever overlaps, retries and fails in either: once the worker has     *)
(* passed a topic that ends, for a product, with the event committed last, *)
(* the contract pays the product's wallet.                                 *)
THEOREM PaidToItsWallet ==
  CatalogSpec /\ Spec =>
    [](\A p \in Product :
         Exists(walletOf[p]) /\ CaughtUp /\ LastInOrder(p) => Pays(p, walletOf[p]))
<1>1. ASSUME NothingDangles, WalletEventsCurrent, CaughtUpMeansCurrent
      PROVE  \A p \in Product :
               Exists(walletOf[p]) /\ CaughtUp /\ LastInOrder(p) => Pays(p, walletOf[p])
  BY <1>1, Delivered DEF WalletEventsCurrent
<1>2. QED
  BY <1>1, NoDangling, WalletEventsRight, ContractIsCurrent, PTL

(* The outbox orders events by their stamps, not by their commits.  That   *)
(* is as good for a product whose last updates did not overlap and came in *)
(* different seconds.                                                      *)
THEOREM PaidInStampOrder ==
  CatalogSpec /\ Spec =>
    [](\A p \in Product \ disturbed :
         Exists(walletOf[p]) /\ CaughtUp /\ LastByStamp(p) => Pays(p, walletOf[p]))
<1>1. ASSUME CatalogInd, NothingDangles, WalletEventsCurrent, CaughtUpMeansCurrent
      PROVE  \A p \in Product \ disturbed :
               Exists(walletOf[p]) /\ CaughtUp /\ LastByStamp(p) => Pays(p, walletOf[p])
  BY <1>1, Delivered, StampOrder DEF WalletEventsCurrent
<1>2. QED
  BY <1>1, CatalogAlways, NoDangling, WalletEventsRight, ContractIsCurrent, PTL
=============================================================================
