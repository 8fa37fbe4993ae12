--------------------------- MODULE BillingProofs ---------------------------
(***************************************************************************)
(* Proofs about Billing, for every set of subscriptions, any number of     *)
(* requests at a time and of failures: its safety properties.              *)
(***************************************************************************)
EXTENDS Billing, TLAPS

Completed(s) == [type |-> "completed", sub |-> s]
Deleted(s) == [type |-> "deleted", sub |-> s]

(* Stripe raises the events of what has happened.                          *)
RaisedAgrees ==
  \A s \in Sub :
    /\ Deleted(s) \in raised <=> stripe[s] = "deleted"
    /\ Completed(s) \in raised <=> stripe[s] \in {"active", "deleted"}

(* A webhook under way is about an event that Stripe raised.               *)
HooksRaised == \A d \in Delivery : hook[d].pc = "read" => EventOf(d) \in raised

(* A row names a subscription only when its activation is recorded.        *)
RowsRecorded ==
  \A s \in Sub : Completed(s) \notin processed =>
    /\ billing.sub # s
    /\ \A d \in Delivery : hook[d].pc = "read" => Seen(d).sub # s

(* A cancel request has read a row that was active.                        *)
RequestsRecorded ==
  \A c \in Cancel : request[c].pc # "idle" => Completed(request[c].seen.sub) \in processed

(* A row is there as soon as one subscription has been activated.          *)
RowExists == \A s \in Sub : Completed(s) \in processed => billing # NoRow

(* A status goes from ACTIVE to CANCELLED and not back, while the row      *)
(* names one subscription.                                                 *)
CancelledStays ==
  \A d \in Delivery :
    hook[d].pc = "read" /\ Seen(d).status = "CANCELLED" =>
      billing # [sub |-> Seen(d).sub, status |-> "ACTIVE"]

(* A deletion that was recorded has ended the row, or was ignored.         *)
DeletionSettled ==
  \A s \in Sub : Deleted(s) \in processed =>
    s \in ignored \/ (Completed(s) \in processed /\ billing # [sub |-> s, status |-> "ACTIVE"])

(* What was cancelled, on a row that was current, is deleted at Stripe.    *)
CancelledIsDeleted ==
  \A s \in Sub :
    ~ overwrote /\ billing = [sub |-> s, status |-> "CANCELLED"] => stripe[s] = "deleted"

Called(c) == request[c].pc = "called"

(* One request at most has cancelled a subscription at Stripe.             *)
CalledOnce ==
  \A c \in Cancel : Called(c) =>
    /\ stripe[request[c].seen.sub] = "deleted"
    /\ \A b \in Cancel : Called(b) /\ request[b].seen.sub = request[c].seen.sub => b = c

(* A cancellation is told by the webhook and by the request that made it.  *)
ByWebhook(s) == IF Deleted(s) \in processed THEN 1 ELSE 0
ByRequest(s) ==
  IF stripe[s] = "deleted" /\ \A c \in Cancel : Called(c) => request[c].seen.sub # s
  THEN 1 ELSE 0
CancellationsPaidFor == \A s \in Sub : cancelled[s] <= ByWebhook(s) + ByRequest(s)

IndInv ==
  /\ TypeOK
  /\ RaisedAgrees
  /\ HooksRaised
  /\ ActivatedOnce
  /\ RowsRecorded
  /\ RequestsRecorded
  /\ RowExists
  /\ CancelledStays
  /\ DeletionSettled
  /\ TierFollowsBilling
  /\ CancelledIsDeleted
  /\ CalledOnce
  /\ CancellationsPaidFor

-----------------------------------------------------------------------------
(* Records.                                                                *)

LEMMA EventForms ==
  /\ \A s \in Sub : Completed(s) \in Event /\ Deleted(s) \in Event
  /\ \A e \in Event : e.sub \in Sub /\ (e = Completed(e.sub) \/ e = Deleted(e.sub))
  /\ \A e \in Event : e.type = "completed" => e = Completed(e.sub)
  /\ \A e \in Event : e.type = "deleted" => e = Deleted(e.sub)
  /\ \A s, t : Completed(s) # Deleted(t)
  /\ \A s, t : Completed(s) = Completed(t) => s = t
  /\ \A s, t : Deleted(s) = Deleted(t) => s = t
<1>1. \A s : Completed(s).sub = s /\ Deleted(s).sub = s
  BY DEF Completed, Deleted
<1>2. \A s : Completed(s).type = "completed" /\ Deleted(s).type = "deleted"
  BY DEF Completed, Deleted
<1>3. \A s, t : Completed(s) # Deleted(t)
  BY <1>2
<1>4. \A s, t : (Completed(s) = Completed(t) => s = t) /\ (Deleted(s) = Deleted(t) => s = t)
  BY <1>1
<1>5. \A e \in Event : e.sub \in Sub /\ (e = Completed(e.sub) \/ e = Deleted(e.sub))
  BY DEF Event, Completed, Deleted
<1>6. \A s \in Sub : Completed(s) \in Event /\ Deleted(s) \in Event
  BY DEF Event, Completed, Deleted
<1>7. QED
  BY <1>2, <1>3, <1>4, <1>5, <1>6

LEMMA RowForms ==
  /\ NoRow \in Row /\ NoRow.sub \notin Sub /\ NoRow.status = "none"
  /\ \A r \in Row : r # NoRow => r.sub \in Sub /\ r.status \in {"ACTIVE", "CANCELLED"}
  /\ \A r \in Row : r.status \in {"ACTIVE", "CANCELLED"} => r # NoRow
  /\ \A r \in Row : r # NoRow => r = [sub |-> r.sub, status |-> r.status]
  /\ \A s \in Sub, x \in {"ACTIVE", "CANCELLED"} :
       /\ [sub |-> s, status |-> x] \in Row
       /\ [sub |-> s, status |-> x].sub = s
       /\ [sub |-> s, status |-> x].status = x
BY BillingAssumption DEF Row, NoRow

(* What TypeOK says of the requests under way.                             *)
LEMMA Typed ==
  ASSUME TypeOK
  PROVE  /\ \A d \in Delivery : hook[d].pc = "read" => EventOf(d) \in Event /\ Seen(d) \in Row
         /\ \A c \in Cancel : request[c].pc # "idle" =>
              request[c].seen \in Row /\ request[c].seen # NoRow
         /\ \A s \in Sub : cancelled[s] \in Nat /\ activated[s] \in Nat
         /\ billing \in Row /\ failures \in Nat
BY DEF TypeOK, Hook, Request, IdleHook, IdleRequest, EventOf, Seen

-----------------------------------------------------------------------------
(* The steps.                                                              *)

(* What is said of the tables and of the webhooks under way.               *)
TableInv ==
  /\ ActivatedOnce
  /\ RowsRecorded
  /\ RowExists
  /\ CancelledStays
  /\ DeletionSettled
  /\ TierFollowsBilling

(* What is said of the cancel requests.                                    *)
RequestInv == CalledOnce /\ CancellationsPaidFor /\ RequestsRecorded

LEMMA Parts ==
  IndInv <=> TypeOK /\ RaisedAgrees /\ HooksRaised /\ TableInv /\ CancelledIsDeleted /\ RequestInv
BY DEF IndInv, TableInv, RequestInv

LEMMA TableFrame ==
  ASSUME TableInv, UNCHANGED <<billing, tier, processed, activated, ignored, overwrote>>,
         \A d \in Delivery : hook'[d].pc = "read" => hook[d].pc = "read" /\ Seen(d)' = Seen(d)
  PROVE  TableInv'
BY DEF TableInv, ActivatedOnce, RowsRecorded, RowExists, CancelledStays, DeletionSettled,
   TierFollowsBilling, Completed, Deleted

(* No request begins to cancel at Stripe, and nothing is told.             *)
LEMMA RequestFrame ==
  ASSUME TypeOK, RequestInv, UNCHANGED cancelled,
         processed \subseteq processed',
         \A s \in Sub : stripe[s] = "deleted" => stripe'[s] = "deleted",
         \A c \in Cancel :
           /\ Called(c)' => Called(c)
           /\ request'[c].pc # "idle" =>
                request[c].pc # "idle" /\ request'[c].seen = request[c].seen
  PROVE  RequestInv'
<1>1. CalledOnce'
  <2>1. SUFFICES ASSUME NEW c \in Cancel, Called(c)'
                 PROVE  /\ stripe'[request[c].seen.sub] = "deleted"
                        /\ \A b \in Cancel : Called(b)' /\ request[b].seen.sub = request[c].seen.sub
                             => b = c
    BY DEF CalledOnce, Called
  <2>2. Called(c) /\ request[c].seen.sub \in Sub
    BY <2>1, Typed, RowForms DEF Called
  <2>3. QED
    BY <2>1, <2>2 DEF RequestInv, CalledOnce
<1>2. CancellationsPaidFor'
  <2>1. SUFFICES ASSUME NEW s \in Sub
                 PROVE  cancelled[s] <= ByWebhook(s)' + ByRequest(s)'
    BY DEF CancellationsPaidFor
  <2>2. cancelled[s] \in Nat /\ cancelled[s] <= ByWebhook(s) + ByRequest(s)
    BY Typed DEF RequestInv, CancellationsPaidFor
  <2>3. ByWebhook(s) = 1 => ByWebhook(s)' = 1
    BY DEF ByWebhook, Deleted
  <2>4. ByRequest(s) = 1 => ByRequest(s)' = 1
    BY DEF ByRequest, Called
  <2>5. {ByWebhook(s), ByRequest(s), ByWebhook(s)', ByRequest(s)'} \subseteq {0, 1}
    BY DEF ByWebhook, ByRequest
  <2>6. QED
    BY <2>2, <2>3, <2>4, <2>5
<1>3. RequestsRecorded'
  BY DEF RequestInv, RequestsRecorded, Completed
<1>4. QED
  BY <1>1, <1>2, <1>3 DEF RequestInv

(* A checkout is offered, or paid.                                         *)
LEMMA CheckoutInd ==
  ASSUME IndInv, NEW s \in Sub, CreateCheckoutSession(s) \/ Pay(s)
  PROVE  IndInv'
<1> USE Parts DEF CreateCheckoutSession, Pay, tableVars, historyVars
<1>1. TypeOK'
  BY EventForms DEF TypeOK, Completed
<1>2. RaisedAgrees'
  <2>1. \A t \in Sub : t # s => stripe'[t] = stripe[t]
    BY DEF TypeOK
  <2>2. stripe[s] \in {"none", "offered"} /\ stripe'[s] \in {"offered", "active"}
    BY DEF TypeOK
  <2>3. CASE CreateCheckoutSession(s)
    BY <2>1, <2>3 DEF RaisedAgrees, TypeOK
  <2>4. CASE Pay(s)
    <3>1. raised' = raised \cup {Completed(s)} /\ stripe'[s] = "active"
      BY <2>4 DEF TypeOK, Completed
    <3>2. QED
      BY <3>1, <2>1, <2>2, EventForms DEF RaisedAgrees
  <2>5. QED
    BY <2>3, <2>4
<1>3. HooksRaised'
  BY DEF HooksRaised, EventOf
<1>4. TableInv'
  BY TableFrame DEF Seen
<1>5. \A t \in Sub : stripe'[t] = "deleted" <=> stripe[t] = "deleted"
  BY DEF TypeOK
<1>6. CancelledIsDeleted'
  BY <1>5 DEF CancelledIsDeleted
<1>7. RequestInv'
  BY <1>5, RequestFrame DEF Called
<1>8. QED
  BY <1>1, <1>2, <1>3, <1>4, <1>6, <1>7 DEF IndInv, TableInv, RequestInv

(* Stripe deletes a subscription, by whatever cause.                       *)
LEMMA DeletesInd ==
  ASSUME IndInv, NEW s \in Sub, StripeDeletes(s),
         UNCHANGED <<billing, tier, processed, activated, hook, ignored, overwrote>>
  PROVE  /\ RaisedAgrees' /\ HooksRaised' /\ TableInv' /\ CancelledIsDeleted'
         /\ stripe' \in [Sub -> {"none", "offered", "active", "deleted"}]
         /\ raised' \in SUBSET Event /\ processed \subseteq raised'
         /\ stripe[s] # "deleted" /\ stripe'[s] = "deleted" /\ Deleted(s) \notin processed
         /\ \A t \in Sub : t # s => stripe'[t] = stripe[t]
<1> USE Parts DEF StripeDeletes
<1>1. raised' = raised \cup {Deleted(s)}
  BY DEF Deleted
<1>2. /\ stripe' \in [Sub -> {"none", "offered", "active", "deleted"}]
      /\ stripe[s] # "deleted" /\ stripe'[s] = "deleted"
      /\ \A t \in Sub : t # s => stripe'[t] = stripe[t]
  BY DEF TypeOK
<1>3. raised' \in SUBSET Event /\ processed \subseteq raised'
  BY <1>1, EventForms DEF TypeOK
<1>4. RaisedAgrees'
  BY <1>1, <1>2, EventForms DEF RaisedAgrees
<1>5. HooksRaised'
  BY <1>1 DEF HooksRaised, EventOf
<1>6. TableInv'
  BY TableFrame DEF Seen
<1>7. CancelledIsDeleted'
  BY <1>2 DEF CancelledIsDeleted
<1>8. Deleted(s) \notin processed
  BY <1>2 DEF RaisedAgrees, TypeOK
<1>9. QED
  BY <1>2, <1>3, <1>4, <1>5, <1>6, <1>7, <1>8

LEMMA EndInd ==
  ASSUME IndInv, NEW s \in Sub, End(s)
  PROVE  IndInv'
<1> USE Parts DEF End, tableVars, historyVars
<1>1. TypeOK'
  BY DeletesInd DEF TypeOK
<1>2. \A t \in Sub : stripe[t] = "deleted" => stripe'[t] = "deleted"
  BY DeletesInd
<1>3. RequestInv'
  BY <1>2, RequestFrame DEF Called
<1>4. QED
  BY <1>1, <1>3, DeletesInd DEF IndInv, TableInv, RequestInv

(* A webhook request reads the row.                                        *)
LEMMA DeliverInd ==
  ASSUME IndInv, NEW d \in Delivery, NEW e \in Event, Deliver(d, e)
  PROVE  IndInv'
<1> USE Parts DEF Deliver, stripeVars, tableVars, historyVars
<1>1. hook' \in [Delivery -> Hook]
  BY DEF TypeOK, Hook
<1>2. TypeOK'
  BY <1>1 DEF TypeOK
<1>3. \A x \in Delivery : hook'[x].pc = "read" =>
        \/ x = d /\ Seen(x)' = billing /\ EventOf(x)' \in raised
        \/ hook[x].pc = "read" /\ Seen(x)' = Seen(x) /\ EventOf(x)' = EventOf(x)
  BY DEF Seen, EventOf, TypeOK
<1>4. HooksRaised'
  BY <1>3 DEF HooksRaised
<1>5. RaisedAgrees' /\ CancelledIsDeleted'
  BY DEF RaisedAgrees, CancelledIsDeleted
<1>6. TableInv'
  <2>1. RowsRecorded'
    BY <1>3 DEF TableInv, RowsRecorded
  <2>2. CancelledStays'
    BY <1>3, Typed, RowForms DEF TableInv, CancelledStays
  <2>3. QED
    BY <2>1, <2>2 DEF TableInv, ActivatedOnce, RowExists, DeletionSettled, TierFollowsBilling
<1>7. RequestInv'
  BY RequestFrame DEF Called
<1>8. QED
  BY <1>2, <1>4, <1>5, <1>6, <1>7 DEF IndInv, TableInv, RequestInv

(* A webhook is recorded: what its commit does to the request, whatever    *)
(* the webhook is about.                                                   *)
LEMMA RecordInd ==
  ASSUME IndInv, NEW d \in Delivery, Record(d)
  PROVE  /\ hook' \in [Delivery -> Hook]
         /\ processed' = processed \cup {EventOf(d)} /\ EventOf(d) \in raised \ processed
         /\ \A x \in Delivery : hook'[x].pc = "read" =>
              x # d /\ hook[x].pc = "read" /\ Seen(x)' = Seen(x) /\ EventOf(x)' = EventOf(x)
         /\ Seen(d) \in Row /\ EventOf(d) \in Event /\ EventOf(d).sub \in Sub
         /\ stripe[EventOf(d).sub] \in {"active", "deleted"}
<1> USE Parts DEF Record, EndHook
<1>1. hook' \in [Delivery -> Hook]
  BY DEF TypeOK, Hook
<1>2. \A x \in Delivery : hook'[x].pc = "read" =>
        x # d /\ hook[x].pc = "read" /\ Seen(x)' = Seen(x) /\ EventOf(x)' = EventOf(x)
  BY DEF Seen, EventOf, TypeOK, IdleHook
<1>3. Seen(d) \in Row /\ EventOf(d) \in Event /\ EventOf(d).sub \in Sub
  BY Typed, EventForms
<1>4. processed' = processed \cup {EventOf(d)} /\ EventOf(d) \in raised \ processed
  BY DEF HooksRaised
<1>5. stripe[EventOf(d).sub] \in {"active", "deleted"}
  BY <1>3, <1>4, EventForms DEF RaisedAgrees
<1>6. QED
  BY <1>1, <1>2, <1>3, <1>4, <1>5

(* An activation makes the row name a subscription it never named before.  *)
LEMMA ActivateInd ==
  ASSUME IndInv, NEW d \in Delivery, Activate(d)
  PROVE  IndInv'
<1> DEFINE s == EventOf(d).sub
<1> USE Parts DEF Activate, stripeVars
<1>1. /\ hook' \in [Delivery -> Hook]
      /\ processed' = processed \cup {Completed(s)} /\ Completed(s) \in raised \ processed
      /\ \A x \in Delivery : hook'[x].pc = "read" =>
           hook[x].pc = "read" /\ Seen(x)' = Seen(x) /\ EventOf(x)' = EventOf(x)
      /\ Seen(d) \in Row /\ s \in Sub
  BY RecordInd, EventForms
<1>2. hook[d].pc = "read" /\ ~ (Seen(d) = NoRow /\ billing # NoRow)
  BY DEF Record, Duplicate
<1>3. Seen(d).status = "ACTIVE" => billing # NoRow
  <2>1. SUFFICES ASSUME Seen(d).status = "ACTIVE" PROVE billing # NoRow
    OBVIOUS
  <2>2. Seen(d).sub \in Sub
    BY <1>1, <2>1, RowForms
  <2>3. Completed(Seen(d).sub) \in processed
    BY <1>2, <2>2 DEF TableInv, RowsRecorded
  <2>4. QED
    BY <2>2, <2>3 DEF TableInv, RowExists
<1>4. \E x \in {"ACTIVE", "CANCELLED"} :
        /\ billing' = [sub |-> s, status |-> x]
        /\ x = "ACTIVE" \/ (Seen(d).status = "ACTIVE" /\ billing.status = "CANCELLED")
  <2>1. billing \in Row
    BY Typed
  <2>2. QED
    BY <1>3, <2>1, RowForms DEF Activated
<1>5. billing' \in Row /\ billing' # NoRow /\ billing'.sub = s
  <2>1. PICK x \in {"ACTIVE", "CANCELLED"} : billing' = [sub |-> s, status |-> x]
    BY <1>4
  <2>2. s \in Sub
    BY <1>1
  <2>3. billing' \in Row /\ billing'.sub = s
    <3>1. [sub |-> s, status |-> x] \in Row /\ [sub |-> s, status |-> x].sub = s
      BY <2>2, RowForms
    <3>2. QED
      BY <2>1, <3>1
  <2>4. QED
    BY <2>2, <2>3, RowForms
<1>6. TypeOK'
  <2>1. activated' \in [Sub -> Nat] /\ processed' \in SUBSET raised /\ overwrote' \in BOOLEAN
    BY <1>1 DEF TypeOK
  <2>2. QED
    BY <1>1, <1>5, <2>1 DEF TypeOK
<1>7. RaisedAgrees' /\ HooksRaised'
  BY <1>1 DEF RaisedAgrees, HooksRaised
<1>8. ActivatedOnce'
  <2>1. \A t \in Sub : activated'[t] = IF t = s THEN activated[t] + 1 ELSE activated[t]
    BY <1>1 DEF TypeOK
  <2>2. SUFFICES ASSUME NEW t \in Sub
                 PROVE  activated'[t] = IF Completed(t) \in processed' THEN 1 ELSE 0
    BY DEF ActivatedOnce, Completed
  <2>3. activated[t] = IF Completed(t) \in processed THEN 1 ELSE 0
    BY DEF TableInv, ActivatedOnce, Completed
  <2>4. CASE t = s
    BY <2>1, <2>3, <2>4, <1>1
  <2>5. CASE t # s
    <3>1. Completed(t) \in processed' <=> Completed(t) \in processed
      BY <2>5, <1>1, EventForms
    <3>2. QED
      BY <2>1, <2>3, <2>5, <3>1
  <2>6. QED
    BY <2>4, <2>5
<1>9. RowsRecorded'
  BY <1>1, <1>5 DEF TableInv, RowsRecorded
<1>10. RowExists'
  BY <1>5 DEF RowExists
<1>11. CancelledStays'
  <2>1. SUFFICES ASSUME NEW x \in Delivery, hook'[x].pc = "read",
                        billing' = [sub |-> Seen(x)'.sub, status |-> "ACTIVE"]
                 PROVE  FALSE
    BY DEF CancelledStays
  <2>2. Seen(x).sub = s /\ hook[x].pc = "read"
    BY <2>1, <1>1, <1>5
  <2>3. QED
    BY <2>2, <1>1 DEF TableInv, RowsRecorded
<1>12. DeletionSettled'
  <2>1. SUFFICES ASSUME NEW t \in Sub, Deleted(t) \in processed', t \notin ignored
                 PROVE  Completed(t) \in processed' /\ billing' # [sub |-> t, status |-> "ACTIVE"]
    BY DEF DeletionSettled
  <2>2. Deleted(t) \in processed
    BY <2>1, <1>1, EventForms
  <2>3. Completed(t) \in processed
    BY <2>1, <2>2 DEF TableInv, DeletionSettled
  <2>4. t # s
    BY <2>3, <1>1
  <2>5. QED
    BY <2>3, <2>4, <1>1, <1>5, RowForms
<1>13. ~ overwrote' => billing'.status = "ACTIVE"
  <2>1. ~ overwrote' => Seen(d) = billing
    BY DEF historyVars
  <2>2. QED
    BY <2>1, <1>4, RowForms
<1>14. TierFollowsBilling'
  BY <1>13 DEF TierFollowsBilling
<1>15. CancelledIsDeleted'
  BY <1>13, RowForms DEF CancelledIsDeleted
<1>16. RequestInv'
  BY <1>1, RequestFrame DEF Called
<1>17. QED
  BY <1>6, <1>7, <1>8, <1>9, <1>10, <1>11, <1>12, <1>14, <1>15, <1>16
     DEF IndInv, TableInv, RequestInv

(* The row loses its ACTIVE, if it had it.                                 *)
LEMMA CancelRow ==
  ASSUME NEW r \in Row, r # NoRow
  PROVE  /\ [r EXCEPT !.status = "CANCELLED"] = [sub |-> r.sub, status |-> "CANCELLED"]
         /\ [r EXCEPT !.status = "CANCELLED"] \in Row
         /\ [r EXCEPT !.status = "CANCELLED"] # NoRow
BY RowForms DEF Row, NoRow

LEMMA CancelByWebhookInd ==
  ASSUME IndInv, NEW d \in Delivery, CancelByWebhook(d)
  PROVE  IndInv'
<1> DEFINE s == EventOf(d).sub
<1> USE Parts DEF CancelByWebhook, stripeVars
<1>1. /\ hook' \in [Delivery -> Hook]
      /\ processed' = processed \cup {Deleted(s)} /\ Deleted(s) \in raised \ processed
      /\ \A x \in Delivery : hook'[x].pc = "read" =>
           hook[x].pc = "read" /\ Seen(x)' = Seen(x) /\ EventOf(x)' = EventOf(x)
      /\ Seen(d) = [sub |-> s, status |-> "ACTIVE"] /\ s \in Sub /\ hook[d].pc = "read"
  BY RecordInd, EventForms DEF Cancels, Record
<1>2. Completed(s) \in processed /\ billing # NoRow
  BY <1>1, RowForms DEF TableInv, RowsRecorded, RowExists
<1>3. /\ billing' = [sub |-> billing.sub, status |-> "CANCELLED"]
      /\ billing' \in Row /\ billing' # NoRow /\ billing.sub \in Sub
  BY <1>2, Typed, CancelRow, RowForms
<1>4. TypeOK'
  <2>1. cancelled' \in [Sub -> Nat] /\ processed' \in SUBSET raised /\ overwrote' \in BOOLEAN
    BY <1>1 DEF TypeOK
  <2>2. QED
    BY <1>1, <1>3, <2>1 DEF TypeOK
<1>5. RaisedAgrees' /\ HooksRaised'
  BY <1>1 DEF RaisedAgrees, HooksRaised
<1>6. \A t \in Sub : Completed(t) \in processed' <=> Completed(t) \in processed
  BY <1>1, EventForms
<1>7. \A t : billing' # [sub |-> t, status |-> "ACTIVE"]
  BY <1>3
<1>8. TableInv'
  <2>1. ActivatedOnce'
    BY <1>6 DEF TableInv, ActivatedOnce, Completed
  <2>2. RowsRecorded'
    BY <1>1, <1>3, <1>6, RowForms DEF TableInv, RowsRecorded
  <2>3. RowExists' /\ CancelledStays' /\ TierFollowsBilling'
    BY <1>3, <1>7, RowForms DEF RowExists, CancelledStays, TierFollowsBilling
  <2>4. DeletionSettled'
    BY <1>1, <1>2, <1>6, <1>7, EventForms DEF TableInv, DeletionSettled
  <2>5. QED
    BY <2>1, <2>2, <2>3, <2>4 DEF TableInv
<1>9. CancelledIsDeleted'
  <2>1. SUFFICES ASSUME NEW t \in Sub, ~ overwrote',
                        billing' = [sub |-> t, status |-> "CANCELLED"]
                 PROVE  stripe[t] = "deleted"
    BY DEF CancelledIsDeleted
  <2>2. Seen(d) = billing
    BY <2>1
  <2>3. t = s
    BY <2>1, <2>2, <1>1, <1>3, RowForms
  <2>4. QED
    BY <2>3, <1>1 DEF RaisedAgrees
<1>10. RequestInv'
  <2>1. CalledOnce'
    BY DEF RequestInv, CalledOnce, Called
  <2>2. CancellationsPaidFor'
    <3>1. SUFFICES ASSUME NEW t \in Sub
                   PROVE  cancelled'[t] <= ByWebhook(t)' + ByRequest(t)'
      BY DEF CancellationsPaidFor
    <3>2. cancelled[t] \in Nat /\ cancelled[t] <= ByWebhook(t) + ByRequest(t)
      BY Typed DEF RequestInv, CancellationsPaidFor
    <3>3. ByRequest(t)' = ByRequest(t) /\ ByRequest(t) \in {0, 1}
      BY DEF ByRequest, Called
    <3>4. CASE t = s
      <4>1. ByWebhook(t) = 0 /\ ByWebhook(t)' = 1
        BY <3>4, <1>1 DEF ByWebhook, Deleted
      <4>2. cancelled'[t] = cancelled[t] + 1
        BY <3>4 DEF TypeOK
      <4>3. QED
        BY <3>2, <3>3, <4>1, <4>2
    <3>5. CASE t # s
      <4>1. ByWebhook(t)' = ByWebhook(t)
        BY <3>5, <1>1, EventForms DEF ByWebhook, Deleted
      <4>2. cancelled'[t] = cancelled[t]
        BY <3>5 DEF TypeOK
      <4>3. QED
        BY <3>2, <3>3, <4>1, <4>2
    <3>6. QED
      BY <3>4, <3>5
  <2>3. RequestsRecorded'
    BY <1>1 DEF RequestInv, RequestsRecorded, Completed
  <2>4. QED
    BY <2>1, <2>2, <2>3 DEF RequestInv
<1>11. QED
  BY <1>4, <1>5, <1>8, <1>9, <1>10 DEF IndInv, TableInv, RequestInv

(* A deletion is ignored: the row never named the subscription, or is      *)
(* cancelled.                                                              *)
LEMMA IgnoreDeletionInd ==
  ASSUME IndInv, NEW d \in Delivery, IgnoreDeletion(d)
  PROVE  IndInv'
<1> DEFINE s == EventOf(d).sub
<1> USE Parts DEF IgnoreDeletion, stripeVars
<1>1. /\ hook' \in [Delivery -> Hook]
      /\ processed' = processed \cup {Deleted(s)} /\ Deleted(s) \in raised \ processed
      /\ \A x \in Delivery : hook'[x].pc = "read" =>
           hook[x].pc = "read" /\ Seen(x)' = Seen(x) /\ EventOf(x)' = EventOf(x)
      /\ Seen(d) \in Row /\ s \in Sub /\ hook[d].pc = "read"
  BY RecordInd, EventForms DEF Record
<1>2. TypeOK'
  BY <1>1 DEF TypeOK
<1>3. RaisedAgrees' /\ HooksRaised' /\ CancelledIsDeleted'
  BY <1>1 DEF RaisedAgrees, HooksRaised, CancelledIsDeleted
<1>4. \A t \in Sub : Completed(t) \in processed' <=> Completed(t) \in processed
  BY <1>1, EventForms
<1>5. TableInv'
  <2>1. ActivatedOnce'
    BY <1>4 DEF TableInv, ActivatedOnce, Completed
  <2>2. RowsRecorded' /\ RowExists' /\ CancelledStays' /\ TierFollowsBilling'
    BY <1>1, <1>4
       DEF TableInv, RowsRecorded, RowExists, CancelledStays, TierFollowsBilling
  <2>3. DeletionSettled'
    <3>1. SUFFICES ASSUME NEW t \in Sub, Deleted(t) \in processed', t \notin ignored'
                   PROVE  /\ Completed(t) \in processed
                          /\ billing # [sub |-> t, status |-> "ACTIVE"]
      BY <1>4 DEF DeletionSettled
    <3>2. CASE t # s
      BY <3>1, <3>2, <1>1, EventForms DEF TableInv, DeletionSettled
    <3>3. CASE t = s
      <4>1. Seen(d).sub = s
        BY <3>1, <3>3
      <4>2. Completed(s) \in processed
        BY <4>1, <1>1 DEF TableInv, RowsRecorded
      <4>3. Seen(d) # [sub |-> s, status |-> "ACTIVE"]
        BY DEF Cancels
      <4>4. Seen(d).status = "CANCELLED"
        BY <4>1, <4>3, <1>1, RowForms
      <4>5. billing # [sub |-> s, status |-> "ACTIVE"]
        BY <4>1, <4>4, <1>1 DEF TableInv, CancelledStays
      <4>6. QED
        BY <3>3, <4>2, <4>5
    <3>4. QED
      BY <3>2, <3>3
  <2>4. QED
    BY <2>1, <2>2, <2>3 DEF TableInv
<1>6. RequestInv'
  BY <1>1, RequestFrame DEF Called
<1>7. QED
  BY <1>2, <1>3, <1>5, <1>6 DEF IndInv, TableInv, RequestInv

(* A webhook that is rejected, or fails, leaves no trace.                  *)
LEMMA RejectInd ==
  ASSUME IndInv, NEW d \in Delivery, Reject(d) \/ FailHook(d)
  PROVE  IndInv'
<1> USE Parts DEF Reject, FailHook, EndHook, stripeVars, tableVars, historyVars
<1>1. hook' \in [Delivery -> Hook]
  BY DEF TypeOK, Hook
<1>2. TypeOK'
  BY <1>1 DEF TypeOK
<1>3. \A x \in Delivery : hook'[x].pc = "read" =>
        hook[x].pc = "read" /\ Seen(x)' = Seen(x) /\ EventOf(x)' = EventOf(x)
  BY DEF Seen, EventOf, TypeOK, IdleHook
<1>4. RaisedAgrees' /\ HooksRaised' /\ CancelledIsDeleted'
  BY <1>3 DEF RaisedAgrees, HooksRaised, CancelledIsDeleted
<1>5. TableInv'
  BY <1>3, TableFrame
<1>6. RequestInv'
  BY RequestFrame DEF Called
<1>7. QED
  BY <1>2, <1>4, <1>5, <1>6 DEF IndInv, TableInv, RequestInv

(* A cancel request reads the active row.                                  *)
LEMMA LoadBillingInd ==
  ASSUME IndInv, NEW c \in Cancel, LoadBilling(c)
  PROVE  IndInv'
<1> USE Parts DEF LoadBilling, stripeVars, tableVars, historyVars
<1>1. billing \in Row /\ billing # NoRow /\ billing.sub \in Sub
  BY Typed, RowForms
<1>2. request' \in [Cancel -> Request]
  BY <1>1 DEF TypeOK, Request
<1>3. TypeOK'
  BY <1>2 DEF TypeOK
<1>4. RaisedAgrees' /\ HooksRaised' /\ CancelledIsDeleted'
  BY DEF RaisedAgrees, HooksRaised, CancelledIsDeleted, EventOf
<1>5. TableInv'
  BY TableFrame DEF Seen
<1>6. \A x \in Cancel : /\ request'[x].pc # "idle" => x = c \/ request'[x] = request[x]
                        /\ Called(x)' => Called(x) /\ request'[x] = request[x]
                        /\ Called(x) => Called(x)'
  BY DEF Called, TypeOK
<1>7. CalledOnce' /\ CancellationsPaidFor'
  BY <1>6 DEF RequestInv, CalledOnce, CancellationsPaidFor, ByWebhook, ByRequest, Deleted
<1>8. RequestsRecorded'
  <2>1. Completed(billing.sub) \in processed
    BY <1>1 DEF TableInv, RowsRecorded
  <2>2. request'[c].seen = billing
    BY DEF TypeOK
  <2>3. QED
    BY <1>6, <2>1, <2>2 DEF RequestInv, RequestsRecorded, Completed
<1>9. QED
  BY <1>3, <1>4, <1>5, <1>7, <1>8 DEF IndInv, TableInv, RequestInv

(* A cancel request ends without a trace in the database.                  *)
LEMMA QuietRequestInd ==
  ASSUME IndInv, NEW c \in Cancel, StripeRefuses(c) \/ FailRequest(c)
  PROVE  IndInv'
<1> USE Parts DEF StripeRefuses, FailRequest, EndRequest, stripeVars, tableVars, historyVars
<1>1. request' \in [Cancel -> Request]
  BY DEF TypeOK, Request
<1>2. TypeOK'
  BY <1>1 DEF TypeOK
<1>3. RaisedAgrees' /\ HooksRaised' /\ CancelledIsDeleted'
  BY DEF RaisedAgrees, HooksRaised, CancelledIsDeleted, EventOf
<1>4. TableInv'
  BY TableFrame DEF Seen
<1>5. RequestInv'
  <2>1. \A x \in Cancel : request'[x].pc # "idle" => request'[x] = request[x]
    BY DEF TypeOK, IdleRequest
  <2>2. QED
    BY <2>1, RequestFrame DEF Called
<1>6. QED
  BY <1>2, <1>3, <1>4, <1>5 DEF IndInv, TableInv, RequestInv

LEMMA CancelUnansweredInd ==
  ASSUME IndInv, NEW c \in Cancel, CancelUnanswered(c)
  PROVE  IndInv'
<1> USE Parts DEF CancelUnanswered, EndRequest, tableVars, historyVars
<1>1. request[c].seen.sub \in Sub
  BY Typed, RowForms
<1>2. request' \in [Cancel -> Request]
  BY DEF TypeOK, Request
<1>3. TypeOK'
  BY <1>1, <1>2, DeletesInd DEF TypeOK
<1>4. RequestInv'
  <2>1. \A x \in Cancel : request'[x].pc # "idle" => request'[x] = request[x]
    BY DEF TypeOK, IdleRequest
  <2>2. \A t \in Sub : stripe[t] = "deleted" => stripe'[t] = "deleted"
    BY <1>1, DeletesInd
  <2>3. QED
    BY <2>1, <2>2, RequestFrame DEF Called
<1>5. QED
  BY <1>1, <1>3, <1>4, DeletesInd DEF IndInv, TableInv, RequestInv

(* A request cancels at Stripe: nobody has cancelled there before.         *)
LEMMA CancelAtStripeInd ==
  ASSUME IndInv, NEW c \in Cancel, CancelAtStripe(c)
  PROVE  IndInv'
<1> DEFINE s == request[c].seen.sub
<1> USE Parts DEF CancelAtStripe, tableVars, historyVars
<1>1. s \in Sub
  BY Typed, RowForms
<1>2. /\ RaisedAgrees' /\ HooksRaised' /\ TableInv' /\ CancelledIsDeleted'
      /\ stripe' \in [Sub -> {"none", "offered", "active", "deleted"}]
      /\ raised' \in SUBSET Event /\ processed \subseteq raised'
      /\ stripe[s] # "deleted" /\ stripe'[s] = "deleted" /\ Deleted(s) \notin processed
      /\ \A t \in Sub : t # s => stripe'[t] = stripe[t]
  BY <1>1, DeletesInd
<1>3. request' \in [Cancel -> Request]
  BY DEF TypeOK, Request, IdleRequest
<1>4. TypeOK'
  BY <1>2, <1>3 DEF TypeOK
<1>5. /\ \A x \in Cancel : request'[x].seen = request[x].seen
      /\ \A x \in Cancel : Called(x)' <=> x = c \/ Called(x)
  BY DEF Called, TypeOK, Request, IdleRequest
<1>6. \A x \in Cancel : Called(x) => request[x].seen.sub \in Sub /\ request[x].seen.sub # s
  BY <1>2, Typed, RowForms DEF RequestInv, CalledOnce, Called
<1>7. CalledOnce'
  <2>1. SUFFICES ASSUME NEW x \in Cancel, Called(x)'
                 PROVE  /\ stripe'[request[x].seen.sub] = "deleted"
                        /\ \A b \in Cancel : Called(b)' /\ request[b].seen.sub = request[x].seen.sub
                             => b = x
    BY <1>5 DEF CalledOnce
  <2>2. CASE x = c
    BY <2>2, <1>2, <1>5, <1>6
  <2>3. CASE x # c
    BY <2>1, <2>3, <1>2, <1>5, <1>6 DEF RequestInv, CalledOnce
  <2>4. QED
    BY <2>2, <2>3
<1>8. CancellationsPaidFor'
  <2>1. SUFFICES ASSUME NEW t \in Sub
                 PROVE  cancelled[t] <= ByWebhook(t)' + ByRequest(t)'
    BY DEF CancellationsPaidFor
  <2>2. cancelled[t] \in Nat /\ cancelled[t] <= ByWebhook(t) + ByRequest(t)
    BY Typed DEF RequestInv, CancellationsPaidFor
  <2>3. ByWebhook(t)' = ByWebhook(t) /\ ByWebhook(t) \in {0, 1} /\ ByRequest(t)' \in {0, 1}
    BY DEF ByWebhook, ByRequest, Deleted
  <2>4. ByRequest(t) = 1 => ByRequest(t)' = 1
    BY <1>2, <1>5 DEF ByRequest
  <2>5. ByRequest(t) \in {0, 1}
    BY DEF ByRequest
  <2>6. QED
    BY <2>2, <2>3, <2>4, <2>5
<1>9. RequestsRecorded'
  <2>1. \A x \in Cancel : request'[x].pc # "idle" => request[x].pc # "idle"
    BY DEF TypeOK
  <2>2. QED
    BY <1>5, <2>1 DEF RequestInv, RequestsRecorded, Completed
<1>10. QED
  BY <1>2, <1>4, <1>7, <1>8, <1>9 DEF IndInv, TableInv, RequestInv

(* The commit of a cancel request: it alone had cancelled at Stripe.       *)
LEMMA CommitCancelInd ==
  ASSUME IndInv, NEW c \in Cancel, CommitCancel(c)
  PROVE  IndInv'
<1> DEFINE s == request[c].seen.sub
<1> USE Parts DEF CommitCancel, EndRequest, stripeVars
<1>1. s \in Sub /\ Called(c) /\ stripe[s] = "deleted" /\ request[c].seen \in Row
  BY Typed, RowForms DEF Called, RequestInv, CalledOnce
<1>2. request' \in [Cancel -> Request]
  BY DEF TypeOK, Request
<1>3. billing # NoRow
  BY <1>1 DEF TableInv, RowExists, RequestInv, RequestsRecorded, Called
<1>4. /\ billing' = [sub |-> billing.sub, status |-> "CANCELLED"]
      /\ billing' \in Row /\ billing' # NoRow /\ billing.sub \in Sub
  BY <1>3, Typed, CancelRow, RowForms
<1>5. TypeOK'
  <2>1. cancelled' \in [Sub -> Nat]
    <3>1. cancelled \in [Sub -> Nat]
      BY DEF TypeOK
    <3>2. cancelled' = [cancelled EXCEPT ![s] = cancelled[s] + 1]
      OBVIOUS
    <3>3. QED
      BY <3>1, <3>2, <1>1
  <2>2. overwrote' \in BOOLEAN
    OBVIOUS
  <2>3. QED
    BY <1>2, <1>4, <2>1, <2>2 DEF TypeOK, TierAfterCancel
<1>6. RaisedAgrees' /\ HooksRaised'
  BY DEF RaisedAgrees, HooksRaised, EventOf
<1>7. \A t : billing' # [sub |-> t, status |-> "ACTIVE"]
  BY <1>4
<1>8. TableInv'
  <2>1. ActivatedOnce'
    BY DEF TableInv, ActivatedOnce
  <2>2. RowsRecorded'
    BY <1>4, RowForms DEF TableInv, RowsRecorded, Seen, Completed
  <2>3. RowExists' /\ CancelledStays' /\ TierFollowsBilling'
    BY <1>4, <1>7, RowForms
       DEF RowExists, CancelledStays, TierFollowsBilling, TierAfterCancel
  <2>4. DeletionSettled'
    BY <1>7 DEF TableInv, DeletionSettled, Completed, Deleted
  <2>5. QED
    BY <2>1, <2>2, <2>3, <2>4 DEF TableInv
<1>9. CancelledIsDeleted'
  <2>1. SUFFICES ASSUME NEW t \in Sub, ~ overwrote',
                        billing' = [sub |-> t, status |-> "CANCELLED"]
                 PROVE  stripe[t] = "deleted"
    BY DEF CancelledIsDeleted
  <2>2. request[c].seen = billing
    BY <2>1
  <2>3. t = s
    BY <2>1, <2>2, <1>4, RowForms
  <2>4. QED
    BY <2>3, <1>1
<1>10. \A x \in Cancel : /\ request'[x].pc # "idle" => request'[x] = request[x]
                         /\ Called(x)' <=> x # c /\ Called(x)
  BY DEF Called, TypeOK, IdleRequest
<1>11. CalledOnce' /\ RequestsRecorded'
  BY <1>10 DEF RequestInv, CalledOnce, RequestsRecorded, Called, Completed
<1>12. CancellationsPaidFor'
  <2>1. SUFFICES ASSUME NEW t \in Sub
                 PROVE  cancelled'[t] <= ByWebhook(t)' + ByRequest(t)'
    BY DEF CancellationsPaidFor
  <2>2. cancelled[t] \in Nat /\ cancelled[t] <= ByWebhook(t) + ByRequest(t)
    BY Typed DEF RequestInv, CancellationsPaidFor
  <2>3. ByWebhook(t)' = ByWebhook(t) /\ ByWebhook(t) \in {0, 1}
    BY DEF ByWebhook, Deleted
  <2>4. ByRequest(t) \in {0, 1} /\ ByRequest(t)' \in {0, 1}
    BY DEF ByRequest
  <2>5. CASE t = s
    <3>1. ByRequest(t) = 0
      BY <2>5, <1>1 DEF ByRequest
    <3>2. ByRequest(t)' = 1
      BY <2>5, <1>1, <1>10 DEF ByRequest, RequestInv, CalledOnce, Called
    <3>3. cancelled'[t] = cancelled[t] + 1
      BY <2>5 DEF TypeOK
    <3>4. QED
      BY <2>2, <2>3, <3>1, <3>2, <3>3
  <2>6. CASE t # s
    <3>1. ByRequest(t) = 1 => ByRequest(t)' = 1
      BY <1>10 DEF ByRequest, Called
    <3>2. cancelled'[t] = cancelled[t]
      BY <2>6 DEF TypeOK
    <3>3. QED
      BY <2>2, <2>3, <2>4, <3>1, <3>2
  <2>7. QED
    BY <2>5, <2>6
<1>13. QED
  BY <1>5, <1>6, <1>8, <1>9, <1>11, <1>12 DEF IndInv, TableInv, RequestInv

-----------------------------------------------------------------------------
(* Init establishes the inductive invariant.                               *)
LEMMA InitInd == Init => IndInv
<1> SUFFICES ASSUME Init PROVE IndInv
  OBVIOUS
<1> USE DEF Init
<1>1. TypeOK
  BY BillingAssumption, RowForms DEF TypeOK, Hook, Request, IdleHook, IdleRequest
<1>2. RaisedAgrees /\ HooksRaised /\ CancelledIsDeleted
  BY RowForms DEF RaisedAgrees, HooksRaised, CancelledIsDeleted, IdleHook
<1>3. TableInv
  BY RowForms DEF TableInv, ActivatedOnce, RowsRecorded, RowExists, CancelledStays,
     DeletionSettled, TierFollowsBilling, IdleHook
<1>4. RequestInv
  BY DEF RequestInv, CalledOnce, Called, CancellationsPaidFor, ByWebhook, ByRequest,
     RequestsRecorded, IdleRequest
<1>5. QED
  BY <1>1, <1>2, <1>3, <1>4, Parts

(* Every step preserves the inductive invariant.                           *)
LEMMA NextInd ==
  ASSUME IndInv, [Next]_vars
  PROVE  IndInv'
<1>1. CASE UNCHANGED vars
  <2> USE <1>1, Parts DEF vars, stripeVars, tableVars, historyVars
  <2>1. TypeOK' /\ RaisedAgrees' /\ HooksRaised' /\ CancelledIsDeleted'
    BY DEF TypeOK, RaisedAgrees, HooksRaised, CancelledIsDeleted, EventOf
  <2>2. TableInv'
    BY TableFrame DEF Seen
  <2>3. RequestInv'
    BY RequestFrame DEF Called
  <2>4. QED
    BY <2>1, <2>2, <2>3 DEF IndInv, TableInv, RequestInv
<1>2. CASE Next
  BY <1>2, CheckoutInd, EndInd, DeliverInd, ActivateInd, CancelByWebhookInd, IgnoreDeletionInd,
     RejectInd, LoadBillingInd, CancelAtStripeInd, QuietRequestInd, CommitCancelInd,
     CancelUnansweredInd DEF Next, Finish, Proceed
<1>3. QED
  BY <1>1, <1>2

(* The inductive invariant holds in every reachable state.                 *)
THEOREM Inductive == Spec => []IndInv
<1>1. Init => IndInv
  BY InitInd
<1>2. IndInv /\ [Next]_vars => IndInv'
  BY NextInd
<1>3. QED
  BY <1>1, <1>2, PTL DEF Spec

(* Every reachable state is type-correct.                                  *)
THEOREM TypeCorrect == Spec => []TypeOK
<1>1. IndInv => TypeOK
  BY DEF IndInv
<1>2. QED
  BY <1>1, Inductive, PTL

(* What events and notifications say of a subscription has happened,       *)
(* however often and in whatever order Stripe delivers its webhooks.       *)
THEOREM AnnouncementsTrue == Spec => []AnnouncedTruly
<1>1. IndInv => AnnouncedTruly
  <2> SUFFICES ASSUME IndInv PROVE AnnouncedTruly
    OBVIOUS
  <2>1. ToldOfRealCancellation
    <3>1. SUFFICES ASSUME NEW s \in Sub
                   PROVE  /\ cancelled[s] > 0 => stripe[s] = "deleted"
                          /\ cancelled[s] <= 2
                          /\ cancelled[s] = 2 => Deleted(s) \in processed
      BY DEF ToldOfRealCancellation, Deleted
    <3>2. cancelled[s] \in Nat /\ cancelled[s] <= ByWebhook(s) + ByRequest(s)
      BY Typed DEF IndInv, CancellationsPaidFor
    <3>3. ByWebhook(s) \in {0, 1} /\ (ByWebhook(s) = 1 => Deleted(s) \in processed)
      BY DEF ByWebhook
    <3>4. ByRequest(s) \in {0, 1} /\ (ByRequest(s) = 1 => stripe[s] = "deleted")
      BY DEF ByRequest
    <3>5. Deleted(s) \in processed => stripe[s] = "deleted"
      BY DEF IndInv, TypeOK, RaisedAgrees
    <3>6. QED
      BY <3>2, <3>3, <3>4, <3>5
  <2>2. QED
    BY <2>1 DEF AnnouncedTruly, IndInv
<1>2. QED
  BY <1>1, Inductive, PTL

(* The user's tier and the billing row agree unless a commit was based on  *)
(* a row that was no longer current.                                       *)
THEOREM TierRight == Spec => []TierFollowsBilling
<1>1. IndInv => TierFollowsBilling
  BY DEF IndInv
<1>2. QED
  BY <1>1, Inductive, PTL

(* When the webhooks have come to rest Stripe and the database agree.      *)
THEOREM AgreesAtRest == Spec => []SettledAgrees
<1>1. IndInv => SettledMeansPaid
  <2>1. SUFFICES ASSUME IndInv, Quiet, billing.status = "ACTIVE", billing.sub \notin ignored
                 PROVE  stripe[billing.sub] = "active"
    BY DEF SettledMeansPaid
  <2> DEFINE s == billing.sub
  <2>2. billing \in Row /\ s \in Sub /\ billing = [sub |-> s, status |-> "ACTIVE"]
    BY <2>1, Typed, RowForms DEF IndInv
  <2>3. Completed(s) \in processed /\ Deleted(s) \notin processed
    BY <2>1, <2>2 DEF IndInv, RowsRecorded, DeletionSettled
  <2>4. QED
    BY <2>1, <2>2, <2>3 DEF IndInv, Quiet, RaisedAgrees
<1>2. IndInv => PayingUserIsPro
  <2>1. SUFFICES ASSUME IndInv, Quiet, ~ overwrote, NEW s \in Sub, stripe[s] = "active",
                        billing.sub = s \/ \A t \in Sub \ {s} : activated[t] = 0
                 PROVE  tier = "PRO" /\ billing = [sub |-> s, status |-> "ACTIVE"]
    BY DEF PayingUserIsPro
  <2>2. Completed(s) \in processed
    BY <2>1 DEF IndInv, Quiet, RaisedAgrees
  <2>3. billing \in Row /\ billing # NoRow
    BY <2>1, <2>2, Typed DEF IndInv, RowExists
  <2>4. billing.sub = s
    <3>1. billing.sub \in Sub /\ Completed(billing.sub) \in processed
      BY <2>1, <2>3, RowForms DEF IndInv, RowsRecorded
    <3>2. activated[billing.sub] = 1
      BY <2>1, <3>1 DEF IndInv, ActivatedOnce, Completed
    <3>3. QED
      BY <2>1, <3>1, <3>2
  <2>5. billing = [sub |-> s, status |-> billing.status]
        /\ billing.status \in {"ACTIVE", "CANCELLED"}
    BY <2>3, <2>4, RowForms
  <2>6. billing.status = "ACTIVE"
    BY <2>1, <2>5 DEF IndInv, CancelledIsDeleted
  <2>7. tier = "PRO"
    BY <2>1, <2>6 DEF IndInv, TierFollowsBilling
  <2>8. QED
    BY <2>5, <2>6, <2>7
<1>3. IndInv => SettledAgrees
  BY <1>1, <1>2 DEF SettledAgrees
<1>4. QED
  BY <1>3, Inductive, PTL
=============================================================================
