---------------------- MODULE SubscriptionExpiryProofs ----------------------
(***************************************************************************)
(* Proofs about SubscriptionExpiry, for all balances and ends of cycles,   *)
(* any proportion of interval, cooldown and window, and any number of      *)
(* requests and failures.  A notification is committed before the columns  *)
(* that account for it, so the invariant tells apart the balances whose    *)
(* last notification is accounted for from those in between.               *)
(***************************************************************************)
EXTENDS SubscriptionExpiry, TLAPS

(* The notification of the current check is committed, the update is not.  *)
Unaccounted(b) == stage[b] \in {"notified", "flushed"}

LastNotice(b) == notices[b][Len(notices[b])]

(* What the query has established of a balance that is yet to be notified. *)
SelectedInv ==
  /\ ~checking => \A b \in Balance : stage[b] = "none"
  /\ \A b \in Balance : stage[b] # "none" => attempts[b] < MaxAttempts
  /\ \A b \in Balance : stage[b] \in {"todo", "found"} =>
       /\ End[b] <= checkTime + Window
       /\ notifiedAt[b] = Never \/ notifiedAt[b] <= checkTime - Cooldown

(* What the last notification says of the columns.                         *)
LastInv ==
  \A b \in Balance :
    /\ Unaccounted(b) =>
         /\ notices[b] # <<>>
         /\ LastNotice(b).at = checkTime
         /\ LastNotice(b).type = IF Expired(b) THEN "expired" ELSE "expiring"
    /\ notices[b] # <<>> =>
         /\ LastNotice(b).failures <= failures
         /\ ~Unaccounted(b) => \/ LastNotice(b).failures < failures
                               \/ notifiedAt[b] = LastNotice(b).at

CountInv ==
  \A b \in Balance :
    Len(notices[b]) <= attempts[b] + failures + (IF Unaccounted(b) THEN 1 ELSE 0)

PublishedFirst == \A r \in Request : request[r] = "published" => cancelled[target[r]] >= 1

IndInv ==
  /\ TypeOK
  /\ SelectedInv
  /\ LastInv
  /\ CountInv
  /\ CooldownKept
  /\ ExpiredWasTold
  /\ PublishedFirst
  /\ CancelledHasEvent

(* Init establishes the inductive invariant.                               *)
LEMMA InitInd == Init => IndInv
<1>1. SUFFICES ASSUME Init PROVE IndInv
  OBVIOUS
<1>2. \A b \in Balance : notices[b] = <<>> /\ Len(notices[b]) = 0
  BY <1>1 DEF Init
<1>3. TypeOK
  <2>1. notices \in [Balance -> Seq(Notice)]
    BY <1>1 DEF Init
  <2>2. attempts \in [Balance -> 0 .. MaxAttempts]
    BY <1>1, ExpiryAssumption DEF Init
  <2>3. QED
    BY <1>1, <2>1, <2>2 DEF Init, TypeOK, Status, Stage, Never
<1>4. SelectedInv /\ LastInv /\ CountInv /\ PublishedFirst
  BY <1>1, <1>2, ExpiryAssumption DEF Init, SelectedInv, LastInv, CountInv, PublishedFirst,
     Unaccounted
<1>5. CooldownKept /\ ExpiredWasTold /\ CancelledHasEvent
  BY <1>1, <1>2 DEF Init, CooldownKept, ExpiredWasTold, CancelledHasEvent
<1>6. QED
  BY <1>3, <1>4, <1>5 DEF IndInv

(* Steps that touch neither a notification nor the columns that account    *)
(* for them.                                                               *)
LEMMA QuietInd ==
  ASSUME IndInv, TypeOK', SelectedInv', PublishedFirst', CancelledHasEvent',
         UNCHANGED <<notices, attempts, notifiedAt, failures, checkTime>>,
         \A b \in Balance : Unaccounted(b)' <=> Unaccounted(b),
         \A b \in Balance : status'[b] = "expired" => status[b] = "expired"
  PROVE  IndInv'
<1> USE DEF IndInv
<1>1. LastInv' /\ CountInv'
  BY DEF LastInv, CountInv, LastNotice, Expired
<1>2. CooldownKept' /\ ExpiredWasTold'
  BY DEF CooldownKept, ExpiredWasTold
<1>3. QED
  BY <1>1, <1>2

(* What requests, the clock and deletions may do.                          *)
Others ==
  /\ UNCHANGED <<attempts, notifiedAt, notices, checkVars, target>>
  /\ now' \in Nat /\ aborts' \in Nat
  /\ status' \in [Balance -> Status]
  /\ cancelled' \in [Balance -> Nat]
  /\ \A b \in Balance : cancelled[b] <= cancelled'[b]
  /\ request' \in [Request -> {"new", "read", "flushed", "published", "done"}]
  /\ \A b \in Balance : \/ status'[b] = status[b]
                        \/ status'[b] = "gone"
                        \/ status'[b] = "cancelled" /\ cancelled[b] >= 1
  /\ PublishedFirst'

LEMMA OthersStep ==
  ASSUME TypeOK, PublishedFirst,
         \/ Tick
         \/ \E b \in Balance : DeleteProduct(b)
         \/ \E r \in Request : Read(r) \/ Serve(r) \/ Abort(r)
  PROVE  Others
<1> USE DEF rowVars, requestVars
<1>1. \A b \in Balance : cancelled[b] \in Nat
  BY DEF TypeOK
<1>2. CASE Tick
  BY <1>1, <1>2 DEF Tick, TypeOK, PublishedFirst, Others
<1>3. ASSUME NEW b \in Balance, DeleteProduct(b) PROVE Others
  BY <1>1, <1>3 DEF DeleteProduct, TypeOK, Status, PublishedFirst, Others
<1>4. ASSUME NEW r \in Request, Read(r) \/ Update(r) PROVE Others
  <2>1. PICK to \in {"done", "read", "flushed"} : request' = [request EXCEPT ![r] = to]
    BY <1>4 DEF Read, Update
  <2>2. PublishedFirst' /\ request' \in [Request -> {"new", "read", "flushed", "published", "done"}]
    BY <1>4, <2>1 DEF Read, Update, TypeOK, PublishedFirst
  <2>3. QED
    BY <1>1, <1>4, <2>2 DEF Read, Update, TypeOK, Others
<1>5. ASSUME NEW r \in Request, Abort(r) PROVE Others
  BY <1>1, <1>5 DEF Abort, TypeOK, PublishedFirst, Others
<1>6. ASSUME NEW r \in Request, PublishCancelled(r) PROVE Others
  <2>1. /\ cancelled' = [cancelled EXCEPT ![target[r]] = cancelled[target[r]] + 1]
        /\ target[r] \in Balance /\ cancelled[target[r]] + 1 \in Nat
    BY <1>1, <1>6 DEF PublishCancelled, TypeOK
  <2>2. /\ cancelled' \in [Balance -> Nat]
        /\ \A b \in Balance : cancelled[b] <= cancelled'[b]
        /\ cancelled'[target[r]] >= 1
    BY <1>1, <2>1 DEF TypeOK
  <2>3. PublishedFirst'
    BY <1>1, <1>6, <2>2 DEF PublishCancelled, TypeOK, PublishedFirst
  <2>4. QED
    BY <1>6, <2>2, <2>3 DEF PublishCancelled, TypeOK, Others
<1>7. ASSUME NEW r \in Request, CommitCancel(r) PROVE Others
  <2>1. cancelled[target[r]] >= 1
    BY <1>7 DEF CommitCancel, PublishedFirst
  <2>2. PublishedFirst'
    BY <1>7 DEF CommitCancel, TypeOK, PublishedFirst
  <2>3. QED
    BY <1>1, <1>7, <2>1, <2>2 DEF CommitCancel, TypeOK, Status, Others
<1>8. QED
  BY <1>2, <1>3, <1>4, <1>5, <1>6, <1>7 DEF Serve

LEMMA OthersInd ==
  ASSUME IndInv, Others
  PROVE  IndInv'
<1> USE DEF IndInv, Others, checkVars
<1>1. TypeOK'
  BY DEF TypeOK
<1>2. SelectedInv'
  BY DEF SelectedInv
<1>3. CancelledHasEvent'
  BY DEF CancelledHasEvent, TypeOK
<1>4. \A b \in Balance : Unaccounted(b)' <=> Unaccounted(b)
  BY DEF Unaccounted
<1>5. QED
  BY <1>1, <1>2, <1>3, <1>4, QuietInd

(* The query, and the step to a balance.                                   *)
LEMMA LookInd ==
  ASSUME IndInv, Select \/ \E b \in Balance : Look(b)
  PROVE  IndInv'
<1> USE DEF IndInv, rowVars, requestVars
<1>1. CASE Select
  <2>1. \A b \in Balance : stage[b] = "none" /\ stage'[b] \in {"none", "todo"}
    BY <1>1 DEF Select, SelectedInv
  <2>2. \A b \in Balance : ~Unaccounted(b) /\ ~Unaccounted(b)'
    BY <2>1 DEF Unaccounted
  <2>3. UNCHANGED <<now, rowVars, notices, cancelled, wake, failures, requestVars>>
    BY <1>1 DEF Select
  <2>4. TypeOK'
    BY <1>1 DEF Select, TypeOK, Stage
  <2>5. SelectedInv'
    <3>1. SUFFICES ASSUME NEW b \in Balance, stage'[b] # "none"
                   PROVE  /\ attempts[b] < MaxAttempts
                          /\ End[b] <= now + Window
                          /\ notifiedAt[b] = Never \/ notifiedAt[b] <= now - Cooldown
      BY <1>1 DEF Select, SelectedInv
    <3>2. Selected(b)
      BY <1>1, <3>1 DEF Select
    <3>3. End[b] <= now + Window
      BY <3>2, ExpiryAssumption DEF Selected, Due, TypeOK
    <3>4. QED
      BY <3>2, <3>3 DEF Selected
  <2>6. LastInv' /\ CountInv'
    BY <2>2, <2>3 DEF LastInv, CountInv, LastNotice
  <2>7. CooldownKept' /\ ExpiredWasTold' /\ PublishedFirst' /\ CancelledHasEvent'
    BY <2>3 DEF CooldownKept, ExpiredWasTold, PublishedFirst, CancelledHasEvent
  <2>8. QED
    BY <2>4, <2>5, <2>6, <2>7
<1>2. ASSUME NEW b \in Balance, Look(b) PROVE IndInv'
  <2>1. /\ stage[b] = "todo"
        /\ \E to \in {"none", "found"} : stage' = [stage EXCEPT ![b] = to]
        /\ UNCHANGED <<now, rowVars, notices, cancelled, checking, wake, checkTime,
                       wasExpired, failures, requestVars>>
    BY <1>2 DEF Look, Advance
  <2>2. TypeOK'
    BY <2>1 DEF TypeOK, Stage
  <2>3. SelectedInv'
    BY <2>1 DEF SelectedInv, TypeOK
  <2>4. \A c \in Balance : Unaccounted(c)' <=> Unaccounted(c)
    BY <2>1 DEF Unaccounted, TypeOK
  <2>5. PublishedFirst' /\ CancelledHasEvent'
    BY <2>1 DEF PublishedFirst, CancelledHasEvent
  <2>6. QED
    BY <2>1, <2>2, <2>3, <2>4, <2>5, QuietInd
<1>3. QED
  BY <1>1, <1>2

(* The update of a balance in the open transaction.                        *)
LEMMA FlushInd ==
  ASSUME IndInv, NEW b \in Balance, Flush(b)
  PROVE  IndInv'
<1> USE DEF IndInv, Flush, Advance, rowVars, requestVars
<1>1. TypeOK'
  BY DEF TypeOK, Stage
<1>2. SelectedInv'
  BY DEF SelectedInv, TypeOK
<1>3. \A c \in Balance : Unaccounted(c)' <=> Unaccounted(c)
  BY DEF Unaccounted, TypeOK
<1>4. PublishedFirst' /\ CancelledHasEvent'
  BY DEF PublishedFirst, CancelledHasEvent
<1>5. QED
  BY <1>1, <1>2, <1>3, <1>4, QuietInd

(* What Append does.                                                       *)
LEMMA AppendFacts ==
  ASSUME NEW S, NEW s \in Seq(S), NEW e \in S
  PROVE  /\ Append(s, e) \in Seq(S)
         /\ Len(Append(s, e)) = Len(s) + 1
         /\ \A i \in 1 .. Len(s) : Append(s, e)[i] = s[i]
         /\ Append(s, e)[Len(s) + 1] = e
         /\ Append(s, e) # <<>>
OBVIOUS

(* One more notification: it is a cooldown after the last one, or the last *)
(* one's columns were lost.                                                *)
LEMMA NotifyInd ==
  ASSUME IndInv, NEW b \in Balance, Notify(b)
  PROVE  IndInv'
<1> USE DEF IndInv, rowVars, requestVars
<1> DEFINE new == [type     |-> IF Expired(b) THEN "expired" ELSE "expiring",
                   at       |-> checkTime,
                   failures |-> failures]
           len == Len(notices[b])
<1>1. /\ stage[b] = "found" /\ stage' = [stage EXCEPT ![b] = "notified"]
      /\ notices' = [notices EXCEPT ![b] = Append(notices[b], new)]
      /\ UNCHANGED <<now, rowVars, cancelled, checking, wake, checkTime, wasExpired, failures,
                     requestVars>>
  BY DEF Notify, Advance
<1>2. new \in Notice /\ notices[b] \in Seq(Notice) /\ len \in Nat
  BY DEF Notice, TypeOK
<1>3. /\ notices'[b] \in Seq(Notice) /\ Len(notices'[b]) = len + 1
      /\ \A i \in 1 .. len : notices'[b][i] = notices[b][i]
      /\ notices'[b][len + 1] = new
      /\ notices'[b] # <<>>
  <2> HIDE DEF new
  <2>1. notices'[b] = Append(notices[b], new)
    BY <1>1 DEF TypeOK
  <2>2. QED
    BY <1>2, <2>1, AppendFacts
<1>4. \A c \in Balance \ {b} : notices'[c] = notices[c] /\ stage'[c] = stage[c]
  BY <1>1 DEF TypeOK
<1>5. stage'[b] = "notified" /\ ~Unaccounted(b) /\ Unaccounted(b)'
  BY <1>1 DEF TypeOK, Unaccounted
<1>6. TypeOK'
  <2>1. notices' \in [Balance -> Seq(Notice)]
    BY <1>1, <1>3, <1>4 DEF TypeOK
  <2>2. QED
    BY <1>1, <2>1 DEF TypeOK, Stage
<1>7. SelectedInv'
  BY <1>1 DEF SelectedInv, TypeOK
<1>8. LastNotice(b)' = new
  BY <1>3 DEF LastNotice
<1>9. LastInv'
  <2>1. ASSUME NEW c \in Balance \ {b}
        PROVE  LastNotice(c)' = LastNotice(c) /\ (Unaccounted(c)' <=> Unaccounted(c))
    BY <1>4 DEF LastNotice, Unaccounted
  <2>2. new.at = checkTime /\ new.failures = failures
    OBVIOUS
  <2>3. new.type = IF Expired(b) THEN "expired" ELSE "expiring"
    OBVIOUS
  <2>4. failures \in Nat
    BY DEF TypeOK
  <2> HIDE DEF new
  <2>5. \A c \in Balance : Expired(c)' <=> Expired(c)
    BY <1>1 DEF Expired
  <2>6. QED
    BY <1>1, <1>3, <1>4, <1>5, <1>8, <2>1, <2>2, <2>3, <2>4, <2>5 DEF LastInv
<1>10. CountInv'
  <2>1. ASSUME NEW c \in Balance \ {b}
        PROVE  Len(notices'[c]) = Len(notices[c]) /\ (Unaccounted(c)' <=> Unaccounted(c))
    BY <1>4 DEF Unaccounted
  <2>2. len + 1 <= attempts[b] + failures + 1
    BY <1>2, <1>5 DEF CountInv, TypeOK
  <2>3. QED
    BY <1>1, <1>3, <1>5, <2>1, <2>2 DEF CountInv
<1>11. CooldownKept'
  <2>1. SUFFICES ASSUME NEW i \in 1 .. len
                 PROVE  \/ notices'[b][i + 1].at >= notices'[b][i].at + Cooldown
                        \/ notices'[b][i + 1].failures > notices'[b][i].failures
    <3>1. Len(notices'[b]) - 1 = len
      BY <1>2, <1>3
    <3>2. QED
      BY <1>4, <3>1 DEF CooldownKept
  <2>2. CASE i # len
    <3>1. i \in 1 .. len - 1 /\ i \in 1 .. len /\ i + 1 \in 1 .. len
      BY <1>2, <2>2
    <3>2. QED
      BY <1>3, <3>1 DEF CooldownKept
  <2>3. CASE i = len
    <3>1. /\ notices[b] # <<>> /\ notices'[b][i] = LastNotice(b)
          /\ notices'[b][i + 1] = new
      BY <1>2, <1>3, <2>3 DEF LastNotice
    <3>2. LastNotice(b) \in Notice
      BY <1>2, <2>3 DEF LastNotice
    <3>3. LastNotice(b).at \in Nat /\ LastNotice(b).failures \in Nat
      BY <3>2 DEF Notice
    <3>4. \/ LastNotice(b).failures < failures
          \/ notifiedAt[b] = LastNotice(b).at
      BY <1>5, <3>1 DEF LastInv
    <3>5. notifiedAt[b] = Never \/ notifiedAt[b] <= checkTime - Cooldown
      BY <1>1 DEF SelectedInv
    <3>6. checkTime \in Nat /\ failures \in Nat /\ Cooldown \in Nat
      BY ExpiryAssumption DEF TypeOK
    <3>7. new.at = checkTime /\ new.failures = failures
      OBVIOUS
    <3> HIDE DEF new
    <3>8. CASE LastNotice(b).failures < failures
      BY <3>1, <3>3, <3>6, <3>7, <3>8
    <3>9. CASE notifiedAt[b] = LastNotice(b).at
      BY <3>1, <3>3, <3>5, <3>6, <3>7, <3>9 DEF Never
    <3>10. QED
      BY <3>4, <3>8, <3>9
  <2>4. QED
    BY <2>2, <2>3
<1>12. ExpiredWasTold'
  <2>1. /\ End[b] \in Nat /\ checkTime \in Nat /\ Window \in Nat
        /\ End[b] <= checkTime + Window
    BY <1>1, ExpiryAssumption DEF TypeOK, SelectedInv
  <2>2. IF new.type = "expired" THEN End[b] < new.at
        ELSE End[b] \in new.at .. new.at + Window
    BY <2>1 DEF Expired
  <2> HIDE DEF new
  <2>3. ASSUME NEW c \in Balance, status'[c] = "expired"
        PROVE  \E i \in 1 .. Len(notices'[c]) : notices'[c][i].type = "expired"
    <3>1. PICK i \in 1 .. Len(notices[c]) : notices[c][i].type = "expired"
      BY <1>1, <2>3 DEF ExpiredWasTold
    <3>2. i \in 1 .. Len(notices'[c]) /\ notices'[c][i] = notices[c][i]
      BY <1>2, <1>3, <1>4
    <3>3. QED
      BY <3>1, <3>2
  <2>4. ASSUME NEW c \in Balance, NEW i \in 1 .. Len(notices'[c])
        PROVE  IF notices'[c][i].type = "expired" THEN End[c] < notices'[c][i].at
               ELSE End[c] \in notices'[c][i].at .. notices'[c][i].at + Window
    <3>1. CASE c = b
      <4>1. i \in 1 .. len \/ i = len + 1
        BY <1>2, <1>3, <2>4, <3>1
      <4>2. QED
        BY <1>3, <2>2, <3>1, <4>1 DEF ExpiredWasTold
    <3>2. CASE c # b
      BY <1>4, <2>4, <3>2 DEF ExpiredWasTold
    <3>3. QED
      BY <3>1, <3>2
  <2>5. QED
    BY <2>3, <2>4 DEF ExpiredWasTold
<1>13. PublishedFirst' /\ CancelledHasEvent'
  BY <1>1 DEF PublishedFirst, CancelledHasEvent
<1>14. QED
  BY <1>6, <1>7, <1>9, <1>10, <1>11, <1>12, <1>13

(* The commit writes the columns that account for the notifications.       *)
LEMMA CommitInd ==
  ASSUME IndInv, CommitCheck
  PROVE  IndInv'
<1> USE DEF IndInv, rowVars, requestVars
<1>1. /\ status' = StatusWritten /\ attempts' = AttemptsWritten /\ notifiedAt' = TimesWritten
      /\ stage' = [b \in Balance |-> "none"] /\ checking' = FALSE /\ wasExpired' = {}
      /\ UNCHANGED <<now, notices, cancelled, checkTime, failures, requestVars>>
      /\ wake' = Later
      /\ \A b \in Balance : stage[b] \in {"none", "flushed"}
  BY DEF CommitCheck, EndCheck, Finished
<1>2. \A b \in Balance : /\ Unaccounted(b) <=> HeldByCheck(b)
                        /\ ~Unaccounted(b)'
  BY <1>1 DEF Unaccounted, HeldByCheck
<1>3. \A b \in Balance :
        /\ attempts'[b] = IF Unaccounted(b) THEN attempts[b] + 1 ELSE attempts[b]
        /\ notifiedAt'[b] = IF Unaccounted(b) THEN checkTime ELSE notifiedAt[b]
        /\ \/ status'[b] = status[b]
           \/ status'[b] = "expired" /\ Unaccounted(b) /\ Expired(b)
  BY <1>1, <1>2 DEF StatusWritten, AttemptsWritten, TimesWritten
<1>4. \A b \in Balance : attempts[b] \in 0 .. MaxAttempts /\ attempts'[b] \in 0 .. MaxAttempts
  <2>1. TAKE b \in Balance
  <2>2. attempts[b] \in 0 .. MaxAttempts /\ MaxAttempts \in Nat
    BY ExpiryAssumption DEF TypeOK
  <2>3. Unaccounted(b) => attempts[b] < MaxAttempts
    BY DEF SelectedInv, Unaccounted
  <2>4. QED
    BY <1>3, <2>2, <2>3
<1>5. TypeOK'
  <2>1. attempts' \in [Balance -> 0 .. MaxAttempts]
    BY <1>1, <1>4 DEF AttemptsWritten
  <2>2. notifiedAt' \in [Balance -> Nat \cup {Never}]
    BY <1>1 DEF TimesWritten, TypeOK
  <2>3. status' \in [Balance -> Status]
    BY <1>1 DEF StatusWritten, TypeOK, Status
  <2>4. wake' \in Nat
    BY <1>1, ExpiryAssumption DEF Later, TypeOK
  <2>5. QED
    BY <1>1, <2>1, <2>2, <2>3, <2>4 DEF TypeOK, Stage
<1>6. SelectedInv'
  BY <1>1 DEF SelectedInv
<1>7. LastInv'
  BY <1>1, <1>2, <1>3 DEF LastInv, LastNotice
<1>8. CountInv'
  <2>1. \A b \in Balance : Len(notices[b]) \in Nat /\ failures \in Nat
    BY DEF TypeOK
  <2>2. QED
    BY <1>1, <1>2, <1>3, <1>4, <2>1 DEF CountInv
<1>9. CooldownKept' /\ PublishedFirst'
  BY <1>1 DEF CooldownKept, PublishedFirst
<1>10. ExpiredWasTold'
  <2>1. ASSUME NEW b \in Balance, Unaccounted(b), Expired(b)
        PROVE  \E i \in 1 .. Len(notices[b]) : notices[b][i].type = "expired"
    <3>1. notices[b] # <<>> /\ LastNotice(b).type = "expired" /\ notices[b] \in Seq(Notice)
      BY <2>1 DEF LastInv, TypeOK
    <3>2. Len(notices[b]) \in 1 .. Len(notices[b])
      BY <3>1
    <3>3. QED
      BY <3>1, <3>2 DEF LastNotice
  <2>2. QED
    BY <1>1, <1>3, <2>1 DEF ExpiredWasTold
<1>11. CancelledHasEvent'
  BY <1>1, <1>3 DEF CancelledHasEvent
<1>12. QED
  BY <1>5, <1>6, <1>7, <1>8, <1>9, <1>10, <1>11

(* A failed check loses the columns, and is counted.                       *)
LEMMA FailInd ==
  ASSUME IndInv, FailCheck \/ \E b \in Balance : FlushFindsNothing(b)
  PROVE  IndInv'
<1> USE DEF IndInv, rowVars, requestVars
<1>1. /\ failures' = failures + 1 /\ wake' \in {now, Later}
      /\ stage' = [b \in Balance |-> "none"] /\ checking' = FALSE /\ wasExpired' = {}
      /\ UNCHANGED <<now, rowVars, notices, cancelled, checkTime, requestVars>>
  BY DEF FailCheck, FlushFindsNothing, EndCheck
<1>2. \A b \in Balance : ~Unaccounted(b)'
  BY <1>1 DEF Unaccounted
<1>3. failures \in Nat /\ \A b \in Balance : Len(notices[b]) \in Nat /\ attempts[b] \in Nat
  BY DEF TypeOK
<1>4. TypeOK'
  <2>1. now \in Nat /\ Later \in Nat
    BY ExpiryAssumption DEF Later, TypeOK
  <2>2. wake' \in Nat /\ failures' \in Nat
    BY <1>1, <1>3, <2>1
  <2>3. stage' \in [Balance -> Stage]
    BY <1>1 DEF Stage
  <2>4. QED
    BY <1>1, <2>2, <2>3 DEF TypeOK
<1>5. SelectedInv'
  BY <1>1 DEF SelectedInv
<1>6. LastInv'
  <2>1. SUFFICES ASSUME NEW b \in Balance, notices[b] # <<>>
                 PROVE  /\ LastNotice(b).failures <= failures + 1
                        /\ LastNotice(b).failures < failures + 1
    BY <1>1, <1>2 DEF LastInv, LastNotice
  <2>2. LastNotice(b) \in Notice
    BY <2>1 DEF LastNotice, TypeOK
  <2>3. LastNotice(b).failures \in Nat /\ LastNotice(b).failures <= failures
    BY <2>1, <2>2 DEF LastInv, Notice
  <2>4. QED
    BY <1>3, <2>3
<1>7. CountInv'
  BY <1>1, <1>2, <1>3 DEF CountInv
<1>8. CooldownKept' /\ ExpiredWasTold' /\ PublishedFirst' /\ CancelledHasEvent'
  BY <1>1 DEF CooldownKept, ExpiredWasTold, PublishedFirst, CancelledHasEvent
<1>9. QED
  BY <1>4, <1>5, <1>6, <1>7, <1>8

(* Every step keeps the inductive invariant.                               *)
LEMMA StepInd == IndInv /\ [Next]_vars => IndInv'
<1> SUFFICES ASSUME IndInv, [Next]_vars PROVE IndInv'
  OBVIOUS
<1>1. CASE \/ Tick
           \/ \E b \in Balance : DeleteProduct(b)
           \/ \E r \in Request : Read(r) \/ Serve(r) \/ Abort(r)
  BY <1>1, OthersStep, OthersInd DEF IndInv
<1>2. CASE Select \/ \E b \in Balance : Look(b)
  BY <1>2, LookInd
<1>3. CASE \E b \in Balance : Notify(b) \/ Flush(b)
  BY <1>3, NotifyInd, FlushInd
<1>4. CASE CommitCheck
  BY <1>4, CommitInd
<1>5. CASE FailCheck \/ \E b \in Balance : FlushFindsNothing(b)
  BY <1>5, FailInd
<1>6. CASE UNCHANGED vars
  BY <1>6 DEF vars, rowVars, checkVars, requestVars, IndInv, TypeOK, SelectedInv, LastInv,
     LastNotice, Expired, CountInv, Unaccounted, CooldownKept, ExpiredWasTold, PublishedFirst,
     CancelledHasEvent
<1>7. QED
  BY <1>1, <1>2, <1>3, <1>4, <1>5, <1>6 DEF Next, Check

LEMMA AlwaysInd == Spec => []IndInv
BY InitInd, StepInd, PTL DEF Spec

(* TypeOK holds in every reachable state; attempt_count never exceeds      *)
(* max_attempts.                                                           *)
THEOREM TypeCorrect == Spec => []TypeOK
<1>1. IndInv => TypeOK
  BY DEF IndInv
<1>2. QED
  BY <1>1, AlwaysInd, PTL

(* NoticesBounded: a customer is notified at most max_attempts times, and  *)
(* once more for each failed check.                                        *)
THEOREM FewNotices == Spec => []NoticesBounded
<1>1. IndInv => NoticesBounded
  <2>1. SUFFICES ASSUME IndInv, NEW b \in Balance
                 PROVE  Len(notices[b]) <= MaxAttempts + failures
    BY DEF NoticesBounded
  <2>2. /\ Len(notices[b]) \in Nat /\ failures \in Nat /\ MaxAttempts \in Nat
        /\ attempts[b] \in 0 .. MaxAttempts
    BY <2>1, ExpiryAssumption DEF IndInv, TypeOK
  <2>3. Unaccounted(b) => attempts[b] < MaxAttempts
    BY <2>1 DEF IndInv, SelectedInv, Unaccounted
  <2>4. Len(notices[b]) <= attempts[b] + failures + (IF Unaccounted(b) THEN 1 ELSE 0)
    BY <2>1 DEF IndInv, CountInv
  <2>5. QED
    BY <2>2, <2>3, <2>4
<1>2. QED
  BY <1>1, AlwaysInd, PTL

(* CooldownKept: notifications of a balance are a cooldown apart, but for  *)
(* failed checks.                                                          *)
THEOREM CooldownHolds == Spec => []CooldownKept
<1>1. IndInv => CooldownKept
  BY DEF IndInv
<1>2. QED
  BY <1>1, AlwaysInd, PTL

(* ExpiredWasTold: a balance is EXPIRED only if its customer has been told *)
(* so, and notifications are true when they are written.                   *)
THEOREM ToldTheTruth == Spec => []ExpiredWasTold
<1>1. IndInv => ExpiredWasTold
  BY DEF IndInv
<1>2. QED
  BY <1>1, AlwaysInd, PTL

(* CancelledHasEvent: the event of a cancellation comes before it.         *)
THEOREM CancellationAnnounced == Spec => []CancelledHasEvent
<1>1. IndInv => CancelledHasEvent
  BY DEF IndInv
<1>2. QED
  BY <1>1, AlwaysInd, PTL
=============================================================================
