------------------------- MODULE NotificationPoller -------------------------
(***************************************************************************)
(* Notifications: NotificationPublisher stores one row per notice and      *)
(* channel, NotificationPoller sends the rows, a batch at a time, to       *)
(* Discord or by email and writes the outcome of the batch in one          *)
(* statement.  A row is looked at again until it is COMPLETED or its       *)
(* retries are used up; retries counts every outcome written, so what a    *)
(* poller that dies has sent is sent again.                                *)
(*                                                                         *)
(* No caller sets expires_at, and Notification.status is never updated:    *)
(* neither is modelled.  The definitions no other one refers to            *)
(* (SentTwice, CompletedAnyway, RetriesOfAll, RetriesOfSuccess) are faulty *)
(* variants of their successors; see the README.                           *)
(***************************************************************************)
EXTENDS Naturals, FiniteSets, Sequences

CONSTANTS
  Notice,       \* notifications
  TypeOf,       \* the NotificationType of each
  MediaOf,      \* its channels, a set of "discord" and "email"
  Configured,   \* the channels the poller was started with
  Reachable,    \* notices whose Discord channel the client has in its cache
  Mailable,     \* notices whose recipient the email service accepts
  BatchSize,    \* limit of the query
  MaxRetries,   \* max_retries of every row
  MaxFailures   \* bound: timeouts, failed updates and crashes

Medium == {"discord", "email"}

(* _parse_context knows five of the seven types.                           *)
ParsedTypes ==
  {"subscription.sufficient", "subscription.expiring", "subscription.expired",
   "billing.subscription_activated", "billing.subscription_cancelled"}

(* The types each template engine renders, and the contexts it needs.      *)
DiscordTypes ==
  {"subscription.sufficient", "subscription.expiring", "subscription.expired",
   "subscription.renewed", "one_time.purchase"}

EmailTypes ==
  DiscordTypes \cup {"billing.subscription_activated", "billing.subscription_cancelled"}

NotificationType == EmailTypes

Row == {r \in Notice \X Medium : r[2] \in MediaOf[r[1]]}

ASSUME PollerAssumption ==
  /\ IsFiniteSet(Notice)
  /\ TypeOf \in [Notice -> NotificationType]
  /\ MediaOf \in [Notice -> SUBSET Medium]
  /\ Configured \subseteq Medium
  /\ Reachable \subseteq Notice /\ Mailable \subseteq Notice
  /\ BatchSize \in Nat \ {0}
  /\ MaxRetries \in Nat \ {0}
  /\ MaxFailures \in Nat

VARIABLES
  created,   \* notices in the order of created_at
  phase,     \* of each notice: absent, open, stored or aborted
  status,    \* NotificationChannel.status
  retries,   \* NotificationChannel.retries
  sent,      \* copies of each row that were delivered
  batch,     \* rows the poller works on; {} while it sleeps
  result,    \* outcome of the sends of the batch
  failures   \* timeouts, failed updates and crashes so far

publishVars == <<created, phase>>
rowVars == <<status, retries>>
pollerVars == <<batch, result>>
vars == <<publishVars, rowVars, sent, pollerVars, failures>>

NoResult == "no result"

Init ==
  /\ created = << >>
  /\ phase = [n \in Notice |-> "absent"]
  /\ status = [r \in Row |-> "PENDING"]
  /\ retries = [r \in Row |-> 0]
  /\ sent = [r \in Row |-> 0]
  /\ batch = {}
  /\ result = [r \in Row |-> NoResult]
  /\ failures = 0

-----------------------------------------------------------------------------
(* The publisher: rows in the caller's transaction, or in one of their own *)
(* that is committed at once.                                              *)

Publish(n) ==
  /\ phase[n] = "absent"
  /\ created' = Append(created, n)
  /\ \E p \in {"open", "stored"} : phase' = [phase EXCEPT ![n] = p]
  /\ UNCHANGED <<rowVars, sent, pollerVars, failures>>

CommitTx(n) ==
  /\ phase[n] = "open"
  /\ phase' = [phase EXCEPT ![n] = "stored"]
  /\ UNCHANGED <<created, rowVars, sent, pollerVars, failures>>

RollbackTx(n) ==
  /\ phase[n] = "open"
  /\ phase' = [phase EXCEPT ![n] = "aborted"]
  /\ UNCHANGED <<created, rowVars, sent, pollerVars, failures>>

-----------------------------------------------------------------------------
(* The poller.                                                             *)

SentTwice == {r \in Row : phase[r[1]] = "stored" /\ retries[r] < MaxRetries}

(* The WHERE clause of _fetch_events.                                      *)
Fetchable ==
  {r \in Row : /\ phase[r[1]] = "stored"
               /\ status[r] \in {"PENDING", "FAILED"}
               /\ retries[r] < MaxRetries}

Older(n, k) ==
  \E i, j \in DOMAIN created : i < j /\ created[i] = n /\ created[j] = k

(* ORDER BY created_at; the rows of one notice come in any order.          *)
OldestFirst(b) ==
  \A r \in b : \A q \in Fetchable \ b : ~ Older(q[1], r[1])

Fetch ==
  /\ batch = {}
  /\ Fetchable # {}
  /\ \E b \in SUBSET Fetchable :
       /\ Cardinality(b) <= BatchSize
       /\ b = Fetchable \/ Cardinality(b) = BatchSize
       /\ OldestFirst(b)
       /\ batch' = b
  /\ UNCHANGED <<publishVars, rowVars, sent, result, failures>>

Discord(r) == r[2] = "discord"

(* _emit_notification raises before anything is sent, or the email service *)
(* answers with an error: a type that is not parsed, a channel that is not *)
(* configured, a type that is not rendered, a recipient that is refused.   *)
Undeliverable(r) ==
  \/ TypeOf[r[1]] \notin ParsedTypes
  \/ r[2] \notin Configured
  \/ Discord(r) /\ TypeOf[r[1]] \notin DiscordTypes
  \/ ~ Discord(r) /\ (TypeOf[r[1]] \notin EmailTypes \/ r[1] \notin Mailable)

(* DiscordNotificationChannel.send returns if the client does not know the *)
(* channel: nothing is sent, and nothing is raised.                        *)
Vanishes(r) == ~ Undeliverable(r) /\ Discord(r) /\ r[1] \notin Reachable

Waiting(r) == r \in batch /\ result[r] = NoResult
Outcome(r, s) == result' = [result EXCEPT ![r] = s]

Reject(r) ==
  /\ Waiting(r)
  /\ Undeliverable(r)
  /\ Outcome(r, "FAILED")
  /\ UNCHANGED <<publishVars, rowVars, sent, batch, failures>>

Vanish(r) ==
  /\ Waiting(r)
  /\ Vanishes(r)
  /\ Outcome(r, "COMPLETED")
  /\ UNCHANGED <<publishVars, rowVars, sent, batch, failures>>

Deliver(r) ==
  /\ Waiting(r)
  /\ ~ Undeliverable(r) /\ ~ Vanishes(r)
  /\ sent' = [sent EXCEPT ![r] = @ + 1]
  /\ Outcome(r, "COMPLETED")
  /\ UNCHANGED <<publishVars, rowVars, batch, failures>>

(* The send raises or exceeds the timeout; it may have been delivered.     *)
TimeOut(r) ==
  /\ Waiting(r)
  /\ ~ Undeliverable(r) /\ ~ Vanishes(r)
  /\ failures < MaxFailures
  /\ failures' = failures + 1
  /\ \E k \in {0, 1} : sent' = [sent EXCEPT ![r] = @ + k]
  /\ Outcome(r, "FAILED")
  /\ UNCHANGED <<publishVars, rowVars, batch>>

Finished == batch # {} /\ \A r \in batch : result[r] # NoResult

CompletedAnyway(r) == IF r \in batch THEN "COMPLETED" ELSE status[r]

(* The CASE of the bulk update.                                            *)
Written(r) == IF r \in batch THEN result[r] ELSE status[r]

RetriesOfAll(r) == retries[r] + 1

RetriesOfSuccess(r) ==
  IF r \in batch /\ result[r] = "COMPLETED" THEN retries[r] + 1 ELSE retries[r]

RetriesWritten(r) == IF r \in batch THEN retries[r] + 1 ELSE retries[r]

EndBatch == batch' = {} /\ result' = [r \in Row |-> NoResult]

(* _update_events.                                                         *)
Update ==
  /\ Finished
  /\ status' = [r \in Row |-> Written(r)]
  /\ retries' = [r \in Row |-> RetriesWritten(r)]
  /\ EndBatch
  /\ UNCHANGED <<publishVars, sent, failures>>

(* The update raises and the loop goes on, or the poller dies, at any      *)
(* point of a batch, and is restarted: no outcome is written.              *)
Abandon ==
  /\ batch # {}
  /\ failures < MaxFailures
  /\ failures' = failures + 1
  /\ EndBatch
  /\ UNCHANGED <<publishVars, rowVars, sent>>

Emit(r) == Reject(r) \/ Vanish(r) \/ Deliver(r)

Next ==
  \/ \E n \in Notice : Publish(n) \/ CommitTx(n) \/ RollbackTx(n)
  \/ Fetch
  \/ \E r \in Row : Emit(r) \/ TimeOut(r)
  \/ Update
  \/ Abandon

Spec == Init /\ [][Next]_vars

(* The poller is restarted when it ends, and every send ends or times out. *)
Fairness ==
  /\ WF_vars(Fetch)
  /\ \A r \in Row : WF_vars(Emit(r))
  /\ WF_vars(Update)

FairSpec == Spec /\ Fairness

-----------------------------------------------------------------------------
(* Properties.                                                             *)

(* Every variable has its type, and no row is attempted, with an outcome   *)
(* written, more often than it may.                                        *)
TypeOK ==
  /\ created \in Seq(Notice)
  /\ phase \in [Notice -> {"absent", "open", "stored", "aborted"}]
  /\ status \in [Row -> {"PENDING", "FAILED", "COMPLETED"}]
  /\ retries \in [Row -> 0 .. MaxRetries]
  /\ sent \in [Row -> Nat]
  /\ batch \in SUBSET Row
  /\ result \in [Row -> {NoResult, "FAILED", "COMPLETED"}]
  /\ failures \in Nat

(* Nobody is told of what was rolled back.  Of a committed notice a        *)
(* recipient gets one copy, and one more for each timeout, failed update   *)
(* or crash at most.                                                       *)
CopiesBounded ==
  \A r \in Row : sent[r] <= IF phase[r[1]] = "stored" THEN 1 + failures ELSE 0

(* What is marked COMPLETED has been delivered, but for a Discord channel  *)
(* the client does not know.                                               *)
CompletedUnlessUnknown ==
  \A r \in Row : status[r] = "COMPLETED" => sent[r] > 0 \/ Vanishes(r)

(* A row is given up only when it cannot be sent or each attempt has       *)
(* failed: a successful send, or one of another row of the batch, does not *)
(* use up its retries.                                                     *)
GivenUpForCause ==
  \A r \in Row : (status[r] = "FAILED" /\ retries[r] = MaxRetries) =>
                   Undeliverable(r) \/ failures >= MaxRetries

(* Every row of a committed notice is completed or given up: a row that    *)
(* can only fail, even a whole batch of them, does not starve the others.  *)
EventuallySettled ==
  \A r \in Row :
    phase[r[1]] = "stored" ~> status[r] = "COMPLETED" \/ retries[r] = MaxRetries

(* The poller is an at-least-once stage for the rows whose channel its     *)
(* client knows: it accepts a row when its notice is committed, hands it   *)
(* on with each copy and settles it with the COMPLETED mark, which nothing *)
(* takes back.  A row it gives up is never settled.                        *)
Owed == {r \in Row : phase[r[1]] = "stored" /\ ~ Vanishes(r)}

Stage == INSTANCE AtLeastOnce WITH
  Item     <- Row,
  accepted <- Owed,
  copies   <- sent,
  settled  <- {r \in Owed : status[r] = "COMPLETED"}

IsAtLeastOnce == Stage!Spec

(* The README says that the Discord bot delivers notifications; the code   *)
(* marks COMPLETED what the poller's client could not deliver.             *)
CompletedWasDelivered ==
  \A r \in Row : status[r] = "COMPLETED" => sent[r] > 0
=============================================================================
