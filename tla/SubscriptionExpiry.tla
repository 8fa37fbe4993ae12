------------------------- MODULE SubscriptionExpiry -------------------------
(***************************************************************************)
(* SubscriptionExpiryChecker and SubscriptionBalanceService.cancel, the    *)
(* two writers of subscription_balances in the running system.             *)
(*                                                                         *)
(* The checker wakes at intervals and reads the balances near or past the  *)
(* end of their cycle.  For each it commits a notification in a            *)
(* transaction of that notification's own, and updates the balance; the    *)
(* updates of all balances are committed together at the end.  A cancel    *)
(* request updates the status, commits an event in a transaction of the    *)
(* event's own, and commits.  Both write only the columns they change, and *)
(* an update waits for the transaction that has updated the row before it. *)
(*                                                                         *)
(* The definitions no other one refers to (SelectedWhileActive,            *)
(* ExpiredAtEnd, FlushForgetting, CommitKeepingTime, CommitUnpublished)    *)
(* are faulty variants of the definition after them; the README says which *)
(* property rules out which.                                               *)
(***************************************************************************)
EXTENDS Integers, Sequences

CONSTANTS
  Balance,      \* rows of subscription_balances
  End,          \* cycle_end of a balance
  Request,      \* cancel requests, by the API or the Discord bot
  Interval,     \* hours between two checks
  Cooldown,     \* hours between two notifications of a balance
  Window,       \* hours before its end in which a balance is expiring
  MaxAttempts,  \* notifications of a balance
  MaxTime,      \* bound: the clock
  MaxFailure    \* bound: failed checks, and failed requests

ASSUME ExpiryAssumption ==
  /\ End \in [Balance -> Nat]
  /\ Interval \in Nat \ {0}
  /\ Cooldown \in Nat \ {0}
  /\ Window \in Nat
  /\ MaxAttempts \in Nat \ {0}
  /\ MaxTime \in Nat
  /\ MaxFailure \in Nat

VARIABLES
  now,         \* the clock
  status,      \* column of a balance; "gone" once its product is deleted
  attempts,    \* column attempt_count
  notifiedAt,  \* column last_notified_at
  notices,     \* notifications of a balance: type, time, failed checks so far
  cancelled,   \* subscription.cancelled events of a balance
  checking,    \* the checker is in the middle of a check
  wake,        \* when it wakes
  checkTime,   \* the time its current check has read
  stage,       \* how far the check is with a balance
  wasExpired,  \* balances it has read with status EXPIRED
  failures,    \* checks that have failed
  request,     \* where a cancel request stands
  target,      \* the balance it is about
  aborts       \* requests that have failed

rowVars == <<status, attempts, notifiedAt>>
checkVars == <<checking, wake, checkTime, stage, wasExpired, failures>>
requestVars == <<request, target, aborts>>
vars == <<now, rowVars, notices, cancelled, checkVars, requestVars>>

Never == -1
Status == {"active", "incomplete", "expired", "cancelled", "gone"}
Stage == {"none", "todo", "found", "notified", "flushed"}
Notice == [type : {"expiring", "expired"}, at : Nat, failures : Nat]

(* The next check comes an interval later; the bound ends the clock, not   *)
(* the checker.                                                            *)
Later == IF now + Interval <= MaxTime THEN now + Interval ELSE MaxTime

(* Transactions that have updated the balance and are open.                *)
HeldByCheck(b) == stage[b] = "flushed"
HeldByRequest(b) ==
  \E r \in Request : target[r] = b /\ request[r] \in {"flushed", "published"}

Init ==
  /\ now = 0
  /\ status \in [Balance -> {"active", "incomplete"}]
  /\ attempts = [b \in Balance |-> 0]
  /\ notifiedAt = [b \in Balance |-> Never]
  /\ notices = [b \in Balance |-> <<>>]
  /\ cancelled = [b \in Balance |-> 0]
  /\ checking = FALSE
  /\ wake = 0
  /\ checkTime = 0
  /\ stage = [b \in Balance |-> "none"]
  /\ wasExpired = {}
  /\ failures = 0
  /\ request = [r \in Request |-> "new"]
  /\ target \in [Request -> Balance]
  /\ aborts = 0

-----------------------------------------------------------------------------
(* The environment.                                                        *)

Tick ==
  /\ now < MaxTime
  /\ now' = now + 1
  /\ UNCHANGED <<rowVars, notices, cancelled, checkVars, requestVars>>

(* The product is deleted, and its balances with it.                       *)
DeleteProduct(b) ==
  /\ status[b] # "gone"
  /\ ~HeldByCheck(b) /\ ~HeldByRequest(b)
  /\ status' = [status EXCEPT ![b] = "gone"]
  /\ UNCHANGED <<now, attempts, notifiedAt, notices, cancelled, checkVars, requestVars>>

-----------------------------------------------------------------------------
(* The checker.                                                            *)

Due(b) ==
  \/ now <= End[b] /\ End[b] <= now + Window /\ status[b] = "active"
  \/ End[b] < now /\ status[b] \notin {"cancelled", "gone"}

SelectedWhileActive(b) == Due(b) /\ attempts[b] < MaxAttempts /\ End[b] > now

Selected(b) ==
  /\ Due(b)
  /\ attempts[b] < MaxAttempts
  /\ notifiedAt[b] = Never \/ notifiedAt[b] <= now - Cooldown

(* The query of check_expirations.                                         *)
Select ==
  /\ ~checking
  /\ wake <= now
  /\ checking' = TRUE
  /\ checkTime' = now
  /\ stage' = [b \in Balance |-> IF Selected(b) THEN "todo" ELSE "none"]
  /\ wasExpired' = {b \in Balance : Selected(b) /\ status[b] = "expired"}
  /\ UNCHANGED <<now, rowVars, notices, cancelled, wake, failures, requestVars>>

(* The check moves on with one balance.                                    *)
Advance(b, from, to) ==
  /\ stage[b] = from
  /\ stage' = [stage EXCEPT ![b] = to]
  /\ UNCHANGED <<now, rowVars, cancelled, checking, wake, checkTime, wasExpired, failures,
                 requestVars>>

(* The next balance; one whose product is gone is skipped.                 *)
Look(b) ==
  /\ \A c \in Balance : stage[c] \notin {"found", "notified"}
  /\ Advance(b, "todo", IF status[b] = "gone" THEN "none" ELSE "found")
  /\ UNCHANGED notices

ExpiredAtEnd(b) == End[b] <= checkTime
Expired(b) == End[b] < checkTime

(* The notification is committed at once.                                  *)
Notify(b) ==
  /\ Advance(b, "found", "notified")
  /\ notices' = [notices EXCEPT ![b] =
                   Append(@, [type     |-> IF Expired(b) THEN "expired" ELSE "expiring",
                              at       |-> checkTime,
                              failures |-> failures])]

FlushForgetting(b) ==
  /\ status[b] # "gone"
  /\ ~HeldByRequest(b)
  /\ Advance(b, "notified", "none")
  /\ UNCHANGED notices

(* The balance is updated in the open transaction of the check.            *)
Flush(b) ==
  /\ status[b] # "gone"
  /\ ~HeldByRequest(b)
  /\ Advance(b, "notified", "flushed")
  /\ UNCHANGED notices

(* The columns a check has changed: the status only if it is another one   *)
(* than the one read.                                                      *)
StatusWritten == [b \in Balance |->
  IF HeldByCheck(b) /\ Expired(b) /\ b \notin wasExpired THEN "expired" ELSE status[b]]
AttemptsWritten == [b \in Balance |-> IF HeldByCheck(b) THEN attempts[b] + 1 ELSE attempts[b]]
TimesWritten == [b \in Balance |-> IF HeldByCheck(b) THEN checkTime ELSE notifiedAt[b]]

EndCheck ==
  /\ checking
  /\ checking' = FALSE
  /\ stage' = [b \in Balance |-> "none"]
  /\ wasExpired' = {}
  /\ UNCHANGED <<now, notices, cancelled, checkTime, requestVars>>

Finished == \A b \in Balance : stage[b] \in {"none", "flushed"}

CommitKeepingTime ==
  /\ Finished
  /\ status' = StatusWritten
  /\ attempts' = AttemptsWritten
  /\ wake' = Later
  /\ EndCheck
  /\ UNCHANGED <<notifiedAt, failures>>

CommitCheck ==
  /\ Finished
  /\ status' = StatusWritten
  /\ attempts' = AttemptsWritten
  /\ notifiedAt' = TimesWritten
  /\ wake' = Later
  /\ EndCheck
  /\ UNCHANGED failures

(* The row of the balance is gone: the update finds nothing and raises.    *)
FlushFindsNothing(b) ==
  /\ stage[b] = "notified"
  /\ status[b] = "gone"
  /\ failures' = failures + 1
  /\ wake' = Later
  /\ EndCheck
  /\ UNCHANGED rowVars

(* Any other await fails, or the process dies and is restarted.            *)
FailCheck ==
  /\ failures < MaxFailure
  /\ failures' = failures + 1
  /\ wake' \in {now, Later}
  /\ EndCheck
  /\ UNCHANGED rowVars

-----------------------------------------------------------------------------
(* Cancel requests.                                                        *)

(* The request reads the balance; a cancelled or missing one is an error.  *)
Read(r) ==
  /\ request[r] = "new"
  /\ request' = [request EXCEPT ![r] =
                   IF status[target[r]] \in {"cancelled", "gone"} THEN "done" ELSE "read"]
  /\ UNCHANGED <<now, rowVars, notices, cancelled, checkVars, target, aborts>>

(* The update of the status, which waits for other open updates.           *)
Update(r) ==
  /\ request[r] = "read"
  /\ ~HeldByCheck(target[r]) /\ ~HeldByRequest(target[r])
  /\ request' = [request EXCEPT ![r] =
                   IF status[target[r]] = "gone" THEN "done" ELSE "flushed"]
  /\ UNCHANGED <<now, rowVars, notices, cancelled, checkVars, target, aborts>>

(* The event is committed at once.                                         *)
PublishCancelled(r) ==
  /\ request[r] = "flushed"
  /\ cancelled' = [cancelled EXCEPT ![target[r]] = @ + 1]
  /\ request' = [request EXCEPT ![r] = "published"]
  /\ UNCHANGED <<now, rowVars, notices, checkVars, target, aborts>>

CommitUnpublished(r) ==
  /\ request[r] \in {"flushed", "published"}
  /\ status' = [status EXCEPT ![target[r]] = "cancelled"]
  /\ request' = [request EXCEPT ![r] = "done"]
  /\ UNCHANGED <<now, attempts, notifiedAt, notices, cancelled, checkVars, target, aborts>>

CommitCancel(r) ==
  /\ request[r] = "published"
  /\ status' = [status EXCEPT ![target[r]] = "cancelled"]
  /\ request' = [request EXCEPT ![r] = "done"]
  /\ UNCHANGED <<now, attempts, notifiedAt, notices, cancelled, checkVars, target, aborts>>

(* A failure rolls the update back.                                        *)
Abort(r) ==
  /\ request[r] \in {"read", "flushed", "published"}
  /\ aborts < MaxFailure
  /\ aborts' = aborts + 1
  /\ request' = [request EXCEPT ![r] = "done"]
  /\ UNCHANGED <<now, rowVars, notices, cancelled, checkVars, target>>

-----------------------------------------------------------------------------
Check ==
  \/ Select
  \/ \E b \in Balance : Look(b) \/ Notify(b) \/ Flush(b) \/ FlushFindsNothing(b)
  \/ CommitCheck

Serve(r) == Update(r) \/ PublishCancelled(r) \/ CommitCancel(r)

Next ==
  \/ Tick
  \/ \E b \in Balance : DeleteProduct(b)
  \/ Check
  \/ FailCheck
  \/ \E r \in Request : Read(r) \/ Serve(r) \/ Abort(r)

Spec == Init /\ [][Next]_vars

(* Time passes, the checker is restarted and its awaits end, and so do     *)
(* those of a request that has begun.                                      *)
Fairness ==
  /\ WF_vars(Tick)
  /\ WF_vars(Check)
  /\ \A r \in Request : WF_vars(Serve(r))

FairSpec == Spec /\ Fairness

-----------------------------------------------------------------------------
(* Properties.                                                             *)

(* Every variable has its type.                                            *)
TypeOK ==
  /\ now \in Nat
  /\ status \in [Balance -> Status]
  /\ attempts \in [Balance -> 0 .. MaxAttempts]
  /\ notifiedAt \in [Balance -> Nat \cup {Never}]
  /\ notices \in [Balance -> Seq(Notice)]
  /\ cancelled \in [Balance -> Nat]
  /\ checking \in BOOLEAN
  /\ wake \in Nat
  /\ checkTime \in Nat
  /\ stage \in [Balance -> Stage]
  /\ wasExpired \in SUBSET Balance
  /\ failures \in Nat
  /\ request \in [Request -> {"new", "read", "flushed", "published", "done"}]
  /\ target \in [Request -> Balance]
  /\ aborts \in Nat

(* A customer gets at most max_attempts notifications, and one more for    *)
(* each check that failed after its notifications were committed.          *)
NoticesBounded == \A b \in Balance : Len(notices[b]) <= MaxAttempts + failures

(* Two notifications of a balance are a cooldown apart, unless a check     *)
(* that failed has lost the time of the first.                             *)
CooldownKept ==
  \A b \in Balance : \A i \in 1 .. Len(notices[b]) - 1 :
    \/ notices[b][i + 1].at >= notices[b][i].at + Cooldown
    \/ notices[b][i + 1].failures > notices[b][i].failures

(* No balance is marked expired of which the customer was not told so, and *)
(* what he was told was true of the time it was written.                   *)
ExpiredWasTold ==
  \A b \in Balance :
    /\ status[b] = "expired" => \E i \in 1 .. Len(notices[b]) : notices[b][i].type = "expired"
    /\ \A i \in 1 .. Len(notices[b]) :
         IF notices[b][i].type = "expired" THEN End[b] < notices[b][i].at
         ELSE End[b] \in notices[b][i].at .. notices[b][i].at + Window

(* A cancelled balance has its subscription.cancelled event.               *)
CancelledHasEvent == \A b \in Balance : status[b] = "cancelled" => cancelled[b] >= 1

(* Every active balance is eventually notified of, or cancelled or gone.   *)
EventuallyTold ==
  \A b \in Balance :
    (status[b] = "active" /\ End[b] < MaxTime)
      ~> (notices[b] # <<>> \/ status[b] \in {"cancelled", "gone"})

(* With its attempts used up, a balance past its end is EXPIRED, say the   *)
(* tests of the checker.                                                   *)
LastAttemptExpires ==
  \A b \in Balance : attempts[b] = MaxAttempts /\ End[b] < now => status[b] # "active"
=============================================================================
