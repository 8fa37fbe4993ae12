------------------------------ MODULE Billing ------------------------------
(***************************************************************************)
(* The PRO subscription of one user: BillingService, the webhook listener  *)
(* and what they share with Stripe.  A paid checkout activates the user's  *)
(* only billing row, a deletion cancels it, and a cancel request first     *)
(* cancels at Stripe and then in the database.  Stripe delivers a webhook  *)
(* until it is answered, any number of times, in any order.                *)
(*                                                                         *)
(* A request reads, and later writes and commits.  From its first write it *)
(* holds the lock of the billing row, and what it has written is invisible *)
(* until it commits, so writing and committing are one step.  SQLAlchemy   *)
(* writes only the columns that differ from what the request has read. The *)
(* user is read under that lock, and events and notifications share the    *)
(* request's transaction.                                                  *)
(*                                                                         *)
(* The definitions no other one refers to (CancelsAny, CancelsCancelled,   *)
(* CommitAgain, TierKept) are faulty variants of their successors; see the *)
(* README.                                                                 *)
(***************************************************************************)
EXTENDS Naturals

CONSTANTS
  Sub,         \* Stripe subscriptions, one per checkout of the user
  Delivery,    \* webhook requests that may run at the same time
  Cancel,      \* cancel requests that may run at the same time
  MaxFailures  \* bound: requests that end with an exception of a call

Event == [type : {"completed", "deleted"}, sub : Sub]
NoSub == "no subscription"
NoRow == [sub |-> NoSub, status |-> "none"]
Row == {NoRow} \cup [sub : Sub, status : {"ACTIVE", "CANCELLED"}]

ASSUME BillingAssumption ==
  /\ NoSub \notin Sub
  /\ MaxFailures \in Nat

VARIABLES
  stripe,     \* of each subscription: none, offered, active or deleted
  raised,     \* events Stripe sends webhooks for
  billing,    \* the user's row in table billing
  tier,       \* User.tier
  processed,  \* table billing_webhook_events
  activated,  \* subscription_activated events committed
  cancelled,  \* subscription_cancelled events committed
  hook,       \* webhook requests: the event, and the row as it was read
  request,    \* cancel requests: the row as it was read
  ignored,    \* subscriptions whose deletion was for no row
  overwrote,  \* a commit was based on a row no longer current
  failures    \* requests failed so far

stripeVars == <<stripe, raised>>
tableVars == <<billing, tier, processed, activated, cancelled>>
historyVars == <<ignored, overwrote>>
vars == <<stripeVars, tableVars, hook, request, historyVars, failures>>

IdleHook == [pc |-> "idle"]
IdleRequest == [pc |-> "idle"]

Init ==
  /\ stripe = [s \in Sub |-> "none"]
  /\ raised = {}
  /\ billing = NoRow
  /\ tier = "FREE"
  /\ processed = {}
  /\ activated = [s \in Sub |-> 0]
  /\ cancelled = [s \in Sub |-> 0]
  /\ hook = [d \in Delivery |-> IdleHook]
  /\ request = [c \in Cancel |-> IdleRequest]
  /\ ignored = {}
  /\ overwrote = FALSE
  /\ failures = 0

-----------------------------------------------------------------------------
(* Stripe and the customer.                                                *)

(* create_checkout_session: nothing is stored but a key in Redis nobody    *)
(* reads, and a user who is PRO already is offered another subscription.   *)
CreateCheckoutSession(s) ==
  /\ stripe[s] = "none"
  /\ stripe' = [stripe EXCEPT ![s] = "offered"]
  /\ UNCHANGED <<raised, tableVars, hook, request, historyVars, failures>>

Pay(s) ==
  /\ stripe[s] = "offered"
  /\ stripe' = [stripe EXCEPT ![s] = "active"]
  /\ raised' = raised \cup {[type |-> "completed", sub |-> s]}
  /\ UNCHANGED <<tableVars, hook, request, historyVars, failures>>

StripeDeletes(s) ==
  /\ stripe[s] = "active"
  /\ stripe' = [stripe EXCEPT ![s] = "deleted"]
  /\ raised' = raised \cup {[type |-> "deleted", sub |-> s]}

(* The subscription ends without a cancel request.                         *)
End(s) ==
  /\ StripeDeletes(s)
  /\ UNCHANGED <<tableVars, hook, request, historyVars, failures>>

-----------------------------------------------------------------------------
(* Webhooks.                                                               *)

(* handle(): an event not yet recorded; the billing row is read.           *)
Deliver(d, e) ==
  /\ hook[d].pc = "idle"
  /\ e \in raised \ processed
  /\ hook' = [hook EXCEPT ![d] = [pc |-> "read", event |-> e, seen |-> billing]]
  /\ UNCHANGED <<stripeVars, tableVars, request, historyVars, failures>>

EventOf(d) == hook[d].event
Seen(d) == hook[d].seen

CancelsAny(d) == EventOf(d).type = "deleted" /\ Seen(d).status = "ACTIVE"

CancelsCancelled(d) ==
  /\ EventOf(d).type = "deleted"
  /\ Seen(d) = [sub |-> EventOf(d).sub, status |-> "CANCELLED"]

(* cancel_subscription_webhook finds a row to cancel.                      *)
Cancels(d) ==
  /\ EventOf(d).type = "deleted"
  /\ Seen(d) = [sub |-> EventOf(d).sub, status |-> "ACTIVE"]

EndHook(d) == hook' = [hook EXCEPT ![d] = IdleHook]

(* The unique user_id of table billing.                                    *)
Duplicate(d) == Seen(d) = NoRow /\ billing # NoRow

CommitAgain(d) ==
  /\ hook[d].pc = "read"
  /\ EndHook(d)
  /\ processed' = processed \cup {EventOf(d)}

(* The commit of a webhook: the primary key of billing_webhook_events lets *)
(* one delivery of an event through.                                       *)
Record(d) ==
  /\ hook[d].pc = "read"
  /\ EventOf(d) \notin processed
  /\ EndHook(d)
  /\ processed' = processed \cup {EventOf(d)}

(* activate_subscription writes the subscription, and the status unless it *)
(* read ACTIVE.                                                            *)
Activated(d) ==
  [sub    |-> EventOf(d).sub,
   status |-> IF Seen(d).status = "ACTIVE" THEN billing.status ELSE "ACTIVE"]

Activate(d) ==
  /\ Record(d)
  /\ EventOf(d).type = "completed"
  /\ ~ Duplicate(d)
  /\ billing' = Activated(d)
  /\ tier' = "PRO"
  /\ activated' = [activated EXCEPT ![EventOf(d).sub] = @ + 1]
  /\ overwrote' = (overwrote \/ Seen(d) # billing)
  /\ UNCHANGED <<stripeVars, cancelled, request, ignored, failures>>

CancelByWebhook(d) ==
  /\ Record(d)
  /\ Cancels(d)
  /\ billing' = [billing EXCEPT !.status = "CANCELLED"]
  /\ tier' = "FREE"
  /\ cancelled' = [cancelled EXCEPT ![EventOf(d).sub] = @ + 1]
  /\ overwrote' = (overwrote \/ Seen(d) # billing)
  /\ UNCHANGED <<stripeVars, activated, request, ignored, failures>>

(* An unknown subscription, or one cancelled already.                      *)
IgnoreDeletion(d) ==
  /\ Record(d)
  /\ EventOf(d).type = "deleted"
  /\ ~ Cancels(d)
  /\ ignored' = IF Seen(d).sub = EventOf(d).sub THEN ignored
                ELSE ignored \cup {EventOf(d).sub}
  /\ UNCHANGED <<stripeVars, billing, tier, activated, cancelled, request,
                 overwrote, failures>>

(* Another delivery has recorded the event, or another activation has      *)
(* created the row: the insert raises, and Stripe delivers again.          *)
Reject(d) ==
  /\ hook[d].pc = "read"
  /\ \/ EventOf(d) \in processed
     \/ EventOf(d).type = "completed" /\ Duplicate(d)
  /\ EndHook(d)
  /\ UNCHANGED <<stripeVars, tableVars, request, historyVars, failures>>

(* An exception before the commit.                                         *)
FailHook(d) ==
  /\ hook[d].pc = "read"
  /\ failures < MaxFailures
  /\ failures' = failures + 1
  /\ EndHook(d)
  /\ UNCHANGED <<stripeVars, tableVars, request, historyVars>>

-----------------------------------------------------------------------------
(* Cancel requests.                                                        *)

(* cancel_subscription: without an active row the request is refused.      *)
LoadBilling(c) ==
  /\ request[c].pc = "idle"
  /\ billing.status = "ACTIVE"
  /\ request' = [request EXCEPT ![c] = [pc |-> "loaded", seen |-> billing]]
  /\ UNCHANGED <<stripeVars, tableVars, hook, historyVars, failures>>

EndRequest(c) == request' = [request EXCEPT ![c] = IdleRequest]

CancelAtStripe(c) ==
  /\ request[c].pc = "loaded"
  /\ StripeDeletes(request[c].seen.sub)
  /\ request' = [request EXCEPT ![c].pc = "called"]
  /\ UNCHANGED <<tableVars, hook, historyVars, failures>>

(* Stripe refuses to cancel what is cancelled.                             *)
StripeRefuses(c) ==
  /\ request[c].pc = "loaded"
  /\ stripe[request[c].seen.sub] = "deleted"
  /\ EndRequest(c)
  /\ UNCHANGED <<stripeVars, tableVars, hook, historyVars, failures>>

(* Stripe cancels but its answer is lost.                                  *)
CancelUnanswered(c) ==
  /\ request[c].pc = "loaded"
  /\ failures < MaxFailures
  /\ failures' = failures + 1
  /\ StripeDeletes(request[c].seen.sub)
  /\ EndRequest(c)
  /\ UNCHANGED <<tableVars, hook, historyVars>>

TierKept == tier

TierAfterCancel == "FREE"

(* The transaction of cancel_subscription, and its commit.                 *)
CommitCancel(c) ==
  /\ request[c].pc = "called"
  /\ billing' = [billing EXCEPT !.status = "CANCELLED"]
  /\ tier' = TierAfterCancel
  /\ cancelled' = [cancelled EXCEPT ![request[c].seen.sub] = @ + 1]
  /\ overwrote' = (overwrote \/ request[c].seen # billing)
  /\ EndRequest(c)
  /\ UNCHANGED <<stripeVars, processed, activated, hook, ignored, failures>>

(* An exception before the commit; what Stripe did stays.                  *)
FailRequest(c) ==
  /\ request[c].pc # "idle"
  /\ failures < MaxFailures
  /\ failures' = failures + 1
  /\ EndRequest(c)
  /\ UNCHANGED <<stripeVars, tableVars, hook, historyVars>>

Finish(d) == Activate(d) \/ CancelByWebhook(d) \/ IgnoreDeletion(d) \/ Reject(d)

Proceed(c) == CancelAtStripe(c) \/ StripeRefuses(c) \/ CommitCancel(c)

Next ==
  \/ \E s \in Sub : CreateCheckoutSession(s) \/ Pay(s) \/ End(s)
  \/ \E d \in Delivery : \E e \in Event : Deliver(d, e)
  \/ \E d \in Delivery : Finish(d) \/ FailHook(d)
  \/ \E c \in Cancel : LoadBilling(c) \/ Proceed(c) \/ CancelUnanswered(c) \/ FailRequest(c)

Spec == Init /\ [][Next]_vars

(* Stripe delivers every event until it is recorded, and a request that    *)
(* has begun ends.  Nobody has to pay, to cancel or to fail.               *)
Fairness ==
  /\ \A e \in Event : WF_vars(\E d \in Delivery : Deliver(d, e))
  /\ \A d \in Delivery : WF_vars(Finish(d))
  /\ \A c \in Cancel : WF_vars(Proceed(c))

FairSpec == Spec /\ Fairness

-----------------------------------------------------------------------------
(* Properties.                                                             *)

Hook == {IdleHook} \cup [pc : {"read"}, event : Event, seen : Row]
Request ==
  {IdleRequest} \cup [pc : {"loaded", "called"}, seen : Row \ {NoRow}]

(* Every variable has its type.                                            *)
TypeOK ==
  /\ stripe \in [Sub -> {"none", "offered", "active", "deleted"}]
  /\ raised \in SUBSET Event
  /\ billing \in Row
  /\ tier \in {"FREE", "PRO"}
  /\ processed \in SUBSET raised
  /\ activated \in [Sub -> Nat]
  /\ cancelled \in [Sub -> Nat]
  /\ hook \in [Delivery -> Hook]
  /\ request \in [Cancel -> Request]
  /\ ignored \in SUBSET Sub
  /\ overwrote \in BOOLEAN
  /\ failures \in Nat

(* However often a webhook is delivered, and to however many requests at   *)
(* once, a checkout activates once, and the records of what was processed  *)
(* agree with what took effect.                                            *)
ActivatedOnce ==
  \A s \in Sub :
    activated[s] = IF [type |-> "completed", sub |-> s] \in processed THEN 1 ELSE 0

(* The user is told that a subscription is cancelled only when Stripe has  *)
(* stopped to charge for it, and at most twice: by the request that        *)
(* cancelled it and by the webhook this caused.                            *)
ToldOfRealCancellation ==
  \A s \in Sub :
    /\ cancelled[s] > 0 => stripe[s] = "deleted"
    /\ cancelled[s] <= 2
    /\ cancelled[s] = 2 => [type |-> "deleted", sub |-> s] \in processed

(* What events and notifications say of a subscription has happened.       *)
AnnouncedTruly == ActivatedOnce /\ ToldOfRealCancellation

(* The two tables agree on who is PRO, unless a request overwrote what it  *)
(* had read before another one changed it.                                 *)
TierFollowsBilling ==
  overwrote \/ (tier = "PRO" <=> billing.status = "ACTIVE")

Quiet ==
  /\ raised = processed
  /\ \A d \in Delivery : hook[d].pc = "idle"
  /\ \A c \in Cancel : request[c].pc = "idle"

(* Once all webhooks are handled nobody is PRO for a subscription that has *)
(* ended, whatever failed between Stripe and the database, unless its      *)
(* deletion came when the row did not name it (yet).                       *)
SettledMeansPaid ==
  Quiet /\ billing.status = "ACTIVE" =>
    stripe[billing.sub] = "active" \/ billing.sub \in ignored

(* Once all webhooks are handled a user who pays for a subscription is     *)
(* PRO, whatever other subscriptions began or ended meanwhile, if it was   *)
(* the last to be activated: the row forgets the earlier ones.             *)
PayingUserIsPro ==
  \A s \in Sub :
    ( /\ Quiet /\ ~ overwrote
      /\ stripe[s] = "active"
      /\ billing.sub = s \/ \A t \in Sub \ {s} : activated[t] = 0 )
    => tier = "PRO" /\ billing = [sub |-> s, status |-> "ACTIVE"]

(* Stripe and the database agree when the webhooks have come to rest.      *)
SettledAgrees == SettledMeansPaid /\ PayingUserIsPro

(* A payment is eventually taken note of.                                  *)
EventuallyActivated ==
  \A s \in Sub : stripe[s] = "active" ~> activated[s] = 1

(* A subscription that has ended at Stripe, by a cancel request that died  *)
(* half way or by itself, does not stay active in the database.            *)
EventuallyReconciled ==
  \A s \in Sub :
    (stripe[s] = "deleted" /\ billing = [sub |-> s, status |-> "ACTIVE"])
      ~> (billing # [sub |-> s, status |-> "ACTIVE"] \/ s \in ignored)

(* The database follows what happens at Stripe.                            *)
EventuallyAgrees == EventuallyActivated /\ EventuallyReconciled
=============================================================================
