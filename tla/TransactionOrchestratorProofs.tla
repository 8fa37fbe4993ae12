------------------- MODULE TransactionOrchestratorProofs -------------------
(***************************************************************************)
(* Proofs about TransactionOrchestrator, for every set of events and       *)
(* customers, any assignment of buyers and any number of records and       *)
(* crashes.  What the offset covers depends on what the handler has done   *)
(* with the record it holds, and that on where it stands: AccessInv adds   *)
(* both, and CountInv how many notifications each record can have caused.  *)
(***************************************************************************)
EXTENDS TransactionOrchestrator, FiniteSetTheorems, TLAPS

InHandler == pc \in {"discord", "join", "grant", "notice", "receipt", "commit", "offset"}

(* The position is one ahead of the offset while a record is in work.      *)
Positions ==
  /\ pos <= Len(topic)
  /\ committed # NoOffset => committed <= Len(topic)
  /\ InHandler => pos >= 1
  /\ InHandler /\ committed # NoOffset => committed = pos - 1
  /\ pc = "ready" /\ committed # NoOffset => committed = pos

Confirmable == {"granted", "forbidden"}

(* What the phases after the Discord part know about its end.              *)
DiscordDone ==
  /\ pc \in {"notice", "receipt"} => outcome[Current] \cap Confirmable # {}
  /\ pc \in {"commit", "offset"} => outcome[Current] # {}

AccessInv ==
  /\ TypeOK
  /\ Positions
  /\ DiscordDone
  /\ OffsetBehindWork
  /\ ConfirmedHasAccess

(* Init establishes AccessInv.                                             *)
LEMMA InitAccess == Init => AccessInv
<1>1. SUFFICES ASSUME Init PROVE AccessInv
  OBVIOUS
<1>2. topic \in Seq(Event) /\ Len(topic) = 0
  BY <1>1 DEF Init
<1>3. TypeOK
  BY <1>1, <1>2 DEF Init, TypeOK, TokenState, Obstacle
<1>4. Positions /\ DiscordDone
  BY <1>1, <1>2 DEF Init, Positions, InHandler, DiscordDone
<1>5. OffsetBehindWork
  BY <1>1 DEF Init, OffsetBehindWork, NoOffset
<1>6. ConfirmedHasAccess
  BY <1>1 DEF Init, ConfirmedHasAccess
<1>7. QED
  BY <1>3, <1>4, <1>5, <1>6 DEF AccessInv

(* The record in work is one of the topic's.                               *)
LEMMA CurrentFacts ==
  ASSUME TypeOK, Positions
  PROVE  /\ Len(topic) \in Nat
         /\ DOMAIN topic = 1 .. Len(topic)
         /\ \A i \in 1 .. Len(topic) : topic[i] \in Event
         /\ InHandler => pos \in 1 .. Len(topic) /\ Current \in Event /\ Payer \in Customer
<1>1. /\ Len(topic) \in Nat
      /\ DOMAIN topic = 1 .. Len(topic)
      /\ \A i \in 1 .. Len(topic) : topic[i] \in Event
  BY DEF TypeOK
<1>2. InHandler => pos \in 1 .. Len(topic)
  BY <1>1 DEF TypeOK, Positions
<1>3. QED
  BY <1>1, <1>2, OrchestratorAssumption DEF Current, Payer

(* A new record disturbs none of those before it.                          *)
LEMMA PublishAccess ==
  ASSUME AccessInv, NEW e \in Event, Publish(e)
  PROVE  AccessInv'
<1> USE DEF AccessInv, Publish, discordVars, noteVars, failVars, localVars
<1>1. /\ topic' \in Seq(Event) /\ Len(topic') = Len(topic) + 1
      /\ \A i \in 1 .. Len(topic) : topic'[i] = topic[i]
  BY DEF TypeOK
<1>2. TypeOK'
  BY <1>1 DEF TypeOK
<1>3. Positions'
  BY <1>1, CurrentFacts DEF Positions, InHandler, TypeOK, NoOffset
<1>4. DiscordDone'
  BY <1>1, CurrentFacts DEF DiscordDone, InHandler, Current
<1>5. OffsetBehindWork'
  <2>1. ASSUME NEW i \in base + 1 .. committed PROVE i \in 1 .. Len(topic)
    BY <2>1, CurrentFacts DEF TypeOK, Positions, NoOffset
  <2>2. QED
    BY <2>1, <1>1 DEF OffsetBehindWork
<1>6. ConfirmedHasAccess'
  BY DEF ConfirmedHasAccess
<1>7. QED
  BY <1>2, <1>3, <1>4, <1>5, <1>6

(* Steps that change neither the topic, the offset, an outcome nor a       *)
(* notification keep what AccessInv says of those.                         *)
LEMMA QuietAccess ==
  ASSUME AccessInv, TypeOK', Positions', DiscordDone',
         UNCHANGED <<topic, committed, base, outcome, notices>>
  PROVE  AccessInv'
BY DEF AccessInv, OffsetBehindWork, ConfirmedHasAccess

LEMMA EnvironmentAccess ==
  ASSUME AccessInv,
         \/ \E e \in Event, o \in Obstacle : Obstruct(e, o)
         \/ \E c \in Customer : Login(c) \/ Expire(c)
  PROVE  AccessInv'
<1> USE DEF AccessInv, Obstruct, Login, Expire, discordVars, noteVars, failVars, localVars
<1>1. TypeOK'
  BY DEF TypeOK, TokenState
<1>2. UNCHANGED <<topic, committed, base, outcome, notices, localVars>>
  OBVIOUS
<1>3. Positions' /\ DiscordDone'
  BY <1>2 DEF Positions, InHandler, DiscordDone, Current
<1>4. QED
  BY <1>1, <1>2, <1>3, QuietAccess

(* The steps of the consumer's loop that are not the handler's, and the    *)
(* handler's steps up to the customer's arrival in the guild.              *)
LEMMA MoveAccess ==
  ASSUME AccessInv, Start \/ TakeMessage \/ FindMember \/ ObtainToken
  PROVE  AccessInv'
<1> USE DEF AccessInv, Start, TakeMessage, FindMember, ObtainToken, WantsToken, discordVars,
            noteVars, failVars
<1>1. Len(topic) \in Nat
  BY CurrentFacts
<1>2. TypeOK'
  <2>1. pos' \in Nat /\ pc' \in {"ready", "discord", "join", "grant"}
    BY <1>1 DEF TypeOK, ResumeAt
  <2>2. token' \in [Customer -> TokenState] /\ renewed' \in BOOLEAN
    BY DEF TypeOK, TokenState
  <2>3. QED
    BY <2>1, <2>2 DEF TypeOK
<1>3. Positions'
  <2>1. CASE Start
    BY <1>1, <2>1 DEF Positions, InHandler, TypeOK, ResumeAt
  <2>2. CASE TakeMessage
    BY <1>1, <2>2 DEF Positions, InHandler, TypeOK
  <2>3. CASE FindMember \/ ObtainToken
    BY <1>1, <2>3 DEF Positions, InHandler
  <2>4. QED
    BY <2>1, <2>2, <2>3
<1>4. DiscordDone'
  BY DEF DiscordDone
<1>5. UNCHANGED <<topic, committed, base, outcome, notices>>
  OBVIOUS
<1>6. QED
  BY <1>2, <1>3, <1>4, <1>5, QuietAccess

(* The end of the process, by whatever failure.                            *)
LEMMA DieAccess ==
  ASSUME AccessInv, Die, crashes' \in Nat, refused' \in SUBSET Customer
  PROVE  AccessInv'
<1> USE DEF AccessInv, Die, discordVars, noteVars, failVars
<1>1. TypeOK'
  BY DEF TypeOK
<1>2. Positions' /\ DiscordDone'
  BY DEF Positions, InHandler, DiscordDone
<1>3. QED
  BY <1>1, <1>2, QuietAccess

(* The Discord part ends, or the customer enters the guild.                *)
LEMMA DiscordAccess ==
  ASSUME AccessInv, NoToken \/ Join \/ (\E how \in {"granted", "forbidden"} : Grant(how))
  PROVE  AccessInv'
<1> USE DEF AccessInv
<1>1. /\ pc \in {"discord", "join", "grant"} /\ pc' \in {"grant", "notice", "commit"}
      /\ UNCHANGED <<topic, committed, base, token, obstacle, notices, receipts, pos,
                     renewed, failVars>>
      /\ member' \in {member, member \cup {Payer}}
  BY DEF NoToken, Join, Grant, WantsToken, noteVars, failVars
<1>2. pos \in 1 .. Len(topic) /\ Current \in Event /\ Payer \in Customer
  BY <1>1, CurrentFacts DEF InHandler
<1>3. \/ outcome' = outcome /\ pc' = "grant"
      \/ outcome' = [outcome EXCEPT ![Current] = @ \cup {"tokenless"}] /\ pc' = "commit"
      \/ outcome' = [outcome EXCEPT ![Current] = @ \cup {"granted"}] /\ pc' = "notice"
      \/ outcome' = [outcome EXCEPT ![Current] = @ \cup {"forbidden"}] /\ pc' = "notice"
  BY DEF NoToken, Join, Grant
<1>4. TypeOK'
  <2>1. outcome' \in [Event -> SUBSET Outcome]
    BY <1>2, <1>3 DEF TypeOK, Outcome
  <2>2. QED
    BY <1>1, <1>2, <2>1 DEF TypeOK, failVars
<1>5. Positions'
  BY <1>1 DEF Positions, InHandler
<1>6. Current' = Current
  BY <1>1 DEF Current
<1>7. DiscordDone'
  BY <1>2, <1>3, <1>6 DEF DiscordDone, Confirmable, TypeOK
<1>8. \A e \in Event : outcome[e] \subseteq outcome'[e]
  BY <1>2, <1>3 DEF TypeOK
<1>9. OffsetBehindWork'
  <2>1. ASSUME NEW i \in base + 1 .. committed PROVE topic[i] \in Event
    BY <2>1, CurrentFacts DEF TypeOK, Positions, NoOffset
  <2>2. QED
    BY <1>1, <1>8, <2>1 DEF OffsetBehindWork
<1>10. ConfirmedHasAccess'
  BY <1>1, <1>8 DEF ConfirmedHasAccess
<1>11. QED
  BY <1>4, <1>5, <1>7, <1>9, <1>10

(* A customer is notified in phases only access leads to.                  *)
LEMMA NoticeAccess ==
  ASSUME AccessInv, Notify \/ NotifyAgain
  PROVE  AccessInv'
<1> USE DEF AccessInv, Notify, NotifyAgain, discordVars, failVars
<1>1. Current \in Event
  BY CurrentFacts DEF InHandler
<1>2. TypeOK'
  <2>1. Notify => notices' \in [Event -> Nat] /\ receipts' \in [Event -> Nat]
    BY <1>1 DEF TypeOK
  <2>2. NotifyAgain => notices' \in [Event -> Nat] /\ receipts' \in [Event -> Nat]
    BY <1>1 DEF TypeOK
  <2>3. QED
    BY <2>1, <2>2 DEF TypeOK
<1>3. Positions'
  BY DEF Positions, InHandler
<1>4. DiscordDone'
  BY DEF DiscordDone, Current
<1>5. OffsetBehindWork'
  BY DEF OffsetBehindWork
<1>6. ConfirmedHasAccess'
  BY <1>1 DEF ConfirmedHasAccess, DiscordDone, Confirmable, TypeOK
<1>7. QED
  BY <1>2, <1>3, <1>4, <1>5, <1>6

(* The offset moves over the one record whose Discord part has ended.      *)
LEMMA CommitAccess ==
  ASSUME AccessInv, CommitSession \/ CommitOffset
  PROVE  AccessInv'
<1> USE DEF AccessInv, discordVars, noteVars, failVars
<1>1. pos \in 1 .. Len(topic) /\ Current \in Event /\ Payer \in Customer /\ Len(topic) \in Nat
  BY CurrentFacts DEF InHandler, CommitSession, CommitOffset
<1>2. CASE CommitSession
  <2>1. TypeOK'
    <3>1. token' \in [Customer -> TokenState]
      <4>1. [token EXCEPT ![Payer] = "fresh"] \in [Customer -> TokenState]
        BY <1>1 DEF TypeOK, TokenState
      <4>2. QED
        BY <1>2, <4>1 DEF TypeOK, CommitSession
    <3>2. QED
      BY <1>2, <3>1 DEF TypeOK, CommitSession
  <2>2. Positions' /\ DiscordDone'
    BY <1>2 DEF Positions, InHandler, DiscordDone, Current, CommitSession
  <2>3. QED
    BY <1>2, <2>1, <2>2, QuietAccess DEF CommitSession
<1>3. CASE CommitOffset
  <2> USE <1>3 DEF CommitOffset, NextOffset
  <2>1. TypeOK'
    BY <1>1 DEF TypeOK
  <2>2. Positions' /\ DiscordDone'
    BY <1>1 DEF Positions, InHandler, DiscordDone
  <2>3. OffsetBehindWork'
    <3>1. SUFFICES ASSUME NEW i \in base' + 1 .. pos PROVE outcome[topic[i]] # {}
      BY DEF OffsetBehindWork
    <3>2. CASE i = pos
      BY <3>2 DEF DiscordDone, Current
    <3>3. CASE i # pos
      <4>1. committed # NoOffset /\ base' = base /\ committed = pos - 1
        BY <3>3, <1>1 DEF Positions, InHandler, TypeOK
      <4>2. i \in base + 1 .. committed
        BY <3>3, <4>1, <1>1 DEF TypeOK
      <4>3. QED
        BY <4>2 DEF OffsetBehindWork
    <3>4. QED
      BY <3>2, <3>3
  <2>4. ConfirmedHasAccess'
    BY DEF ConfirmedHasAccess
  <2>5. QED
    BY <2>1, <2>2, <2>3, <2>4
<1>4. QED
  BY <1>2, <1>3

(* AccessInv is an invariant of the orchestrator.                          *)
THEOREM AccessInductive == Spec => []AccessInv
<1>1. Init => AccessInv
  BY InitAccess
<1>2. AccessInv /\ [Next]_vars => AccessInv'
  <2>1. SUFFICES ASSUME AccessInv, [Next]_vars PROVE AccessInv'
    OBVIOUS
  <2>2. ASSUME NEW e \in Event, Publish(e) PROVE AccessInv'
    BY <2>1, <2>2, PublishAccess
  <2>3. ASSUME NEW e \in Event, NEW o \in Obstacle, Obstruct(e, o) PROVE AccessInv'
    BY <2>1, <2>3, EnvironmentAccess
  <2>4. ASSUME NEW c \in Customer, Login(c) \/ Expire(c) PROVE AccessInv'
    BY <2>1, <2>4, EnvironmentAccess
  <2>5. CASE Start \/ TakeMessage \/ FindMember \/ ObtainToken
    BY <2>1, <2>5, MoveAccess
  <2>6. CASE LookupFails \/ RefreshFails \/ Refuse \/ Crash
    <3>1. Die /\ crashes' \in Nat
      BY <2>1, <2>6 DEF LookupFails, RefreshFails, Refuse, Crash, AccessInv, TypeOK, failVars
    <3>2. refused' \in SUBSET Customer
      <4>1. Refuse => Payer \in Customer
        BY <2>1, CurrentFacts DEF Refuse, Refusal, AccessInv, InHandler
      <4>2. QED
        BY <2>1, <2>6, <4>1 DEF LookupFails, RefreshFails, Refuse, Crash, AccessInv, TypeOK,
           failVars
    <3>3. QED
      BY <2>1, <3>1, <3>2, DieAccess
  <2>7. CASE NoToken \/ Join \/ (\E how \in {"granted", "forbidden"} : Grant(how))
    BY <2>1, <2>7, DiscordAccess
  <2>8. CASE Notify \/ NotifyAgain
    BY <2>1, <2>8, NoticeAccess
  <2>9. CASE CommitSession \/ CommitOffset
    BY <2>1, <2>9, CommitAccess
  <2>10. CASE UNCHANGED vars
    BY <2>1, <2>10, QuietAccess DEF vars, discordVars, noteVars, failVars, localVars, AccessInv,
       TypeOK, Positions, InHandler, DiscordDone, Current
  <2>11. QED
    BY <2>1, <2>2, <2>3, <2>4, <2>5, <2>6, <2>7, <2>8, <2>9, <2>10 DEF Next, Handler
<1>3. QED
  BY <1>1, <1>2, PTL DEF Spec

(* Every variable of the orchestrator keeps its type.                      *)
THEOREM TypeCorrect == Spec => []TypeOK
<1>1. AccessInv => TypeOK
  BY DEF AccessInv
<1>2. QED
  BY <1>1, AccessInductive, PTL

(* The committed offset covers no record whose Discord part is open.       *)
THEOREM NoRecordSkipped == Spec => []OffsetBehindWork
<1>1. AccessInv => OffsetBehindWork
  BY DEF AccessInv
<1>2. QED
  BY <1>1, AccessInductive, PTL

(* No purchase is confirmed without access, or the bot's lack of it.       *)
THEOREM ConfirmationsTrue == Spec => []ConfirmedHasAccess
<1>1. AccessInv => ConfirmedHasAccess
  BY DEF AccessInv
<1>2. QED
  BY <1>1, AccessInductive, PTL

-----------------------------------------------------------------------------
(* How often a customer is notified.                                       *)

(* Records of an event among the first n of a sequence.                    *)
UpTo(s, e, n) == {i \in 1 .. n : s[i] = e}
CountTo(s, e, n) == Cardinality(UpTo(s, e, n))

(* The records that may have caused a notification by now: those the       *)
(* process has dealt with, and those a restarted one will start behind.    *)
Told ==
  IF pc = "down" THEN ResumeAt
  ELSE IF pc \in {"discord", "join", "grant", "notice"} THEN pos - 1
  ELSE pos

CountInv ==
  /\ \A e \in Event : receipts[e] <= notices[e]
  /\ pc = "receipt" => receipts[Current] < notices[Current]
  /\ \A e \in Event : notices[e] <= CountTo(topic, e, Told) + crashes

(* The first n records hold a finite number of an event.                   *)
LEMMA CountType ==
  ASSUME NEW s, NEW e, NEW n \in Nat
  PROVE  IsFiniteSet(UpTo(s, e, n)) /\ CountTo(s, e, n) \in Nat
<1>1. IsFiniteSet(1 .. n)
  BY FS_Interval
<1>2. IsFiniteSet(UpTo(s, e, n))
  BY <1>1, FS_Subset DEF UpTo
<1>3. QED
  BY <1>2, FS_CardinalityType DEF CountTo

(* More records give no lower a count.                                     *)
LEMMA CountGrows ==
  ASSUME NEW s, NEW e, NEW n \in Nat, NEW m \in 0 .. n
  PROVE  CountTo(s, e, m) <= CountTo(s, e, n)
<1>1. UpTo(s, e, m) \in SUBSET UpTo(s, e, n)
  BY DEF UpTo
<1>2. QED
  BY <1>1, CountType, FS_Subset DEF CountTo

(* One more record adds at most one, and does so if it is of the event.    *)
LEMMA CountNext ==
  ASSUME NEW s, NEW e, NEW n \in Nat
  PROVE  /\ CountTo(s, e, n + 1) <= CountTo(s, e, n) + 1
         /\ s[n + 1] = e => CountTo(s, e, n + 1) = CountTo(s, e, n) + 1
<1>1. n + 1 \notin UpTo(s, e, n) /\ IsFiniteSet(UpTo(s, e, n)) /\ CountTo(s, e, n) \in Nat
  BY CountType DEF UpTo
<1>2. CASE s[n + 1] = e
  <2>1. UpTo(s, e, n + 1) = UpTo(s, e, n) \cup {n + 1}
    BY <1>2 DEF UpTo
  <2>2. QED
    BY <1>1, <1>2, <2>1, FS_AddElement DEF CountTo
<1>3. CASE s[n + 1] # e
  <2>1. UpTo(s, e, n + 1) = UpTo(s, e, n)
    BY <1>3 DEF UpTo
  <2>2. QED
    BY <1>1, <1>3, <2>1 DEF CountTo
<1>4. QED
  BY <1>2, <1>3

(* What is told lies within the topic.                                     *)
LEMMA ToldType ==
  AccessInv => Len(topic) \in Nat /\ Told \in 0 .. Len(topic) /\ crashes \in Nat
BY CurrentFacts DEF AccessInv, TypeOK, Positions, InHandler, Told, ResumeAt, NoOffset

(* A step that notifies nobody keeps CountInv if it takes no record out of *)
(* those told, or only one and counts a crash for it.                      *)
LEMMA QuietCount ==
  ASSUME AccessInv, CountInv, AccessInv',
         UNCHANGED <<notices, receipts>>,
         \A i \in 1 .. Len(topic) : topic'[i] = topic[i],
         pc' = "receipt" => pc = "receipt" /\ pos' = pos,
         \/ Told' >= Told /\ crashes' = crashes
         \/ Told' >= Told - 1 /\ crashes' = crashes + 1
  PROVE  CountInv'
<1>1. pc' = "receipt" => receipts'[Current'] < notices'[Current']
  BY CurrentFacts DEF CountInv, AccessInv, InHandler, Current
<1>2. PICK t \in Nat : t = Told
  BY ToldType
<1>3. PICK u \in Nat : u = Told'
  <2>1. (AccessInv => Len(topic) \in Nat /\ Told \in 0 .. Len(topic) /\ crashes \in Nat)'
    BY ToldType, PTL
  <2>2. QED
    BY <2>1
<1>4. ASSUME NEW e \in Event PROVE notices'[e] <= CountTo(topic', e, u) + crashes'
  <2>1. PICK n \in Nat : n \in 0 .. t /\ n \in 0 .. u /\ (n = t \/ n = t - 1) /\
                        (n = t - 1 => crashes' = crashes + 1)
    <3>1. CASE u >= t
      BY <3>1
    <3>2. CASE u < t
      <4>1. u = t - 1 /\ crashes' = crashes + 1
        BY <3>2, <1>2, <1>3 DEF AccessInv, TypeOK
      <4>2. QED
        BY <4>1
    <3>3. QED
      BY <3>1, <3>2
  <2>2. UpTo(topic', e, n) = UpTo(topic, e, n)
    BY <1>2, <2>1, ToldType DEF UpTo
  <2>3. CountTo(topic', e, n) = CountTo(topic, e, n)
    BY <2>2 DEF CountTo
  <2>4. CountTo(topic', e, n) <= CountTo(topic', e, u)
    BY <2>1, CountGrows
  <2>5. /\ CountTo(topic, e, t) \in Nat /\ CountTo(topic, e, n) \in Nat
        /\ CountTo(topic', e, u) \in Nat
    BY CountType
  <2>6. CountTo(topic, e, t) <= CountTo(topic, e, n) + (IF n = t THEN 0 ELSE 1)
    <3>1. n = t - 1 => CountTo(topic, e, n + 1) <= CountTo(topic, e, n) + 1
      BY CountNext
    <3>2. n = t - 1 => n + 1 = t
      OBVIOUS
    <3>3. QED
      BY <2>1, <2>5, <3>1, <3>2
  <2>7. /\ notices[e] <= CountTo(topic, e, t) + crashes
        /\ notices[e] \in Nat /\ crashes \in Nat
    BY <1>2 DEF CountInv, AccessInv, TypeOK
  <2>8. crashes' \in {crashes, crashes + 1} /\ notices'[e] = notices[e]
    OBVIOUS
  <2>9. QED
    BY <2>1, <2>3, <2>4, <2>5, <2>6, <2>7, <2>8
<1>5. \A e \in Event : receipts'[e] <= notices'[e]
  BY DEF CountInv
<1>6. QED
  BY <1>1, <1>3, <1>4, <1>5 DEF CountInv

(* The environment and the handler's steps but the notifications.          *)
LEMMA EnvironmentCount ==
  ASSUME AccessInv, CountInv, AccessInv',
         \/ \E e \in Event : Publish(e) \/ \E o \in Obstacle : Obstruct(e, o)
         \/ \E c \in Customer : Login(c) \/ Expire(c)
         \/ UNCHANGED vars
  PROVE  CountInv'
<1>1. /\ UNCHANGED <<notices, receipts, pc, pos, committed, crashes>>
      /\ topic' = topic \/ \E e \in Event : topic' = Append(topic, e)
  BY DEF Publish, Obstruct, Login, Expire, discordVars, noteVars, failVars, localVars, vars
<1>2. Len(topic) \in Nat /\ Told \in Nat
  BY ToldType
<1>3. Len(topic') >= Len(topic) /\ \A i \in 1 .. Len(topic) : topic'[i] = topic[i]
  <2>1. topic \in Seq(Event)
    BY DEF AccessInv, TypeOK
  <2>2. ASSUME NEW e \in Event, topic' = Append(topic, e)
        PROVE  Len(topic') >= Len(topic) /\ \A i \in 1 .. Len(topic) : topic'[i] = topic[i]
    BY <1>2, <2>1, <2>2
  <2>3. QED
    BY <1>1, <1>2, <2>2
<1>4. Told' >= Told
  BY <1>1, <1>2, <1>3 DEF Told, ResumeAt
<1>5. QED
  BY <1>1, <1>3, <1>4, QuietCount

LEMMA ConsumerCount ==
  ASSUME AccessInv, CountInv, AccessInv',
         \/ Start \/ TakeMessage \/ FindMember \/ NoToken \/ ObtainToken \/ Join
         \/ \E how \in {"granted", "forbidden"} : Grant(how)
         \/ CommitSession \/ CommitOffset
  PROVE  CountInv'
<1>1. UNCHANGED <<notices, receipts, topic, crashes>> /\ pc' # "receipt"
  BY DEF Start, TakeMessage, FindMember, NoToken, ObtainToken, Join, Grant, CommitSession,
     CommitOffset, noteVars, failVars
<1>2. Len(topic) \in Nat /\ Told \in Nat /\ pos \in Nat
  BY ToldType DEF AccessInv, TypeOK
<1>3. Told' >= Told
  <2>1. CASE Start
    BY <1>2, <2>1 DEF Start, Told
  <2>2. CASE TakeMessage
    BY <1>2, <2>2 DEF TakeMessage, Told
  <2>3. CASE \/ FindMember \/ NoToken \/ ObtainToken \/ Join
             \/ \E how \in {"granted", "forbidden"} : Grant(how)
    BY <1>2, <2>3 DEF FindMember, NoToken, ObtainToken, Join, Grant, WantsToken, Told
  <2>4. CASE CommitSession \/ CommitOffset
    BY <1>2, <2>4 DEF CommitSession, CommitOffset, Told
  <2>5. QED
    BY <2>1, <2>2, <2>3, <2>4
<1>4. QED
  BY <1>1, <1>2, <1>3, QuietCount

(* The process ends: before the notification of the record in work, or     *)
(* after it and by a crash.                                                *)
LEMMA DieCount ==
  ASSUME AccessInv, CountInv, AccessInv',
         LookupFails \/ RefreshFails \/ Refuse \/ Crash
  PROVE  CountInv'
<1>1. UNCHANGED <<notices, receipts, topic, committed, pos>> /\ pc' = "down"
  BY DEF LookupFails, RefreshFails, Refuse, Crash, Die, noteVars, failVars
<1>2. /\ Len(topic) \in Nat /\ Told \in Nat /\ pos \in Nat /\ pos <= Len(topic)
      /\ committed \in Nat \cup {NoOffset}
      /\ Told' = IF committed = NoOffset THEN Len(topic) ELSE committed
  BY <1>1, ToldType DEF AccessInv, TypeOK, Positions, Told, ResumeAt
<1>3. CASE LookupFails \/ RefreshFails \/ Refuse
  <2>1. Told' >= Told /\ crashes' = crashes
    BY <1>2, <1>3 DEF LookupFails, RefreshFails, Refuse, Refusal, WantsToken, Told, AccessInv,
       Positions, InHandler, failVars
  <2>2. QED
    BY <1>1, <1>2, <2>1, QuietCount
<1>4. CASE Crash
  <2>1. pc \in {"ready", "discord", "join", "grant", "notice", "receipt", "commit", "offset"}
    BY <1>4 DEF Crash, AccessInv, TypeOK
  <2>2. Told' >= Told - 1 /\ crashes' = crashes + 1
    BY <1>2, <1>4, <2>1 DEF Crash, Told, AccessInv, Positions, InHandler
  <2>3. QED
    BY <1>1, <1>2, <2>2, QuietCount
<1>5. QED
  BY <1>3, <1>4

(* The first notification of a record is paid for by the record itself.    *)
LEMMA NotifyCount ==
  ASSUME AccessInv, CountInv, Notify
  PROVE  CountInv'
<1>1. pos \in 1 .. Len(topic) /\ Current \in Event /\ Len(topic) \in Nat
  BY CurrentFacts DEF AccessInv, InHandler, Notify
<1>2. /\ notices \in [Event -> Nat] /\ receipts \in [Event -> Nat] /\ crashes \in Nat
      /\ pos - 1 \in Nat /\ pos \in Nat
  BY <1>1 DEF AccessInv, TypeOK
<1>3. /\ UNCHANGED <<topic, pos, receipts, crashes>> /\ pc = "notice" /\ pc' = "receipt"
      /\ notices' = [notices EXCEPT ![Current] = @ + 1]
  BY DEF Notify, failVars
<1>4. Told = pos - 1 /\ Told' = pos /\ Current' = Current
  BY <1>3 DEF Told, Current
<1>5. ASSUME NEW e \in Event PROVE notices'[e] <= CountTo(topic, e, pos) + crashes
  <2>1. /\ notices[e] <= CountTo(topic, e, pos - 1) + crashes
        /\ CountTo(topic, e, pos - 1) \in Nat /\ CountTo(topic, e, pos) \in Nat
    BY <1>2, <1>4, CountType DEF CountInv
  <2>2. CountTo(topic, e, pos - 1) <= CountTo(topic, e, pos)
    BY <1>2, CountGrows
  <2>3. topic[pos] = e => CountTo(topic, e, pos) = CountTo(topic, e, pos - 1) + 1
    <3>1. (pos - 1) + 1 = pos
      BY <1>2
    <3>2. topic[(pos - 1) + 1] = e =>
            CountTo(topic, e, (pos - 1) + 1) = CountTo(topic, e, pos - 1) + 1
      BY <1>2, CountNext
    <3>3. QED
      BY <3>1, <3>2
  <2>4. notices'[e] = IF topic[pos] = e THEN notices[e] + 1 ELSE notices[e]
    BY <1>1, <1>2, <1>3 DEF Current
  <2>5. QED
    BY <1>2, <2>1, <2>2, <2>3, <2>4
<1>6. \A e \in Event : receipts'[e] <= notices'[e]
  BY <1>1, <1>2, <1>3 DEF CountInv
<1>7. receipts'[Current'] < notices'[Current']
  BY <1>1, <1>2, <1>3, <1>4 DEF CountInv
<1>8. QED
  BY <1>3, <1>4, <1>5, <1>6, <1>7 DEF CountInv

(* The second one follows the first.                                       *)
LEMMA NotifyAgainCount ==
  ASSUME AccessInv, CountInv, NotifyAgain
  PROVE  CountInv'
<1>1. Current \in Event
  BY CurrentFacts DEF AccessInv, InHandler, NotifyAgain
<1>2. /\ UNCHANGED <<topic, pos, notices, crashes>> /\ pc = "receipt" /\ pc' = "commit"
      /\ receipts' = [receipts EXCEPT ![Current] = @ + 1]
  BY DEF NotifyAgain, failVars
<1>3. Told' = Told
  BY <1>2 DEF Told
<1>4. \A e \in Event : receipts'[e] <= notices'[e]
  BY <1>1, <1>2 DEF CountInv, AccessInv, TypeOK
<1>5. QED
  BY <1>2, <1>3, <1>4 DEF CountInv

(* CountInv is an invariant too.                                           *)
THEOREM CountInductive == Spec => []CountInv
<1>1. Init => CountInv
  <2>1. SUFFICES ASSUME Init PROVE CountInv
    OBVIOUS
  <2>2. Told = 0 /\ \A e \in Event : CountTo(topic, e, 0) \in Nat
    BY <2>1, CountType DEF Init, Told, ResumeAt
  <2>3. QED
    BY <2>1, <2>2 DEF Init, CountInv
<1>2. AccessInv /\ AccessInv' /\ CountInv /\ [Next]_vars => CountInv'
  <2>1. SUFFICES ASSUME AccessInv, AccessInv', CountInv, [Next]_vars PROVE CountInv'
    OBVIOUS
  <2>2. CASE \/ \E e \in Event : Publish(e) \/ \E o \in Obstacle : Obstruct(e, o)
             \/ \E c \in Customer : Login(c) \/ Expire(c)
             \/ UNCHANGED vars
    BY <2>1, <2>2, EnvironmentCount
  <2>3. CASE \/ Start \/ TakeMessage \/ FindMember \/ NoToken \/ ObtainToken \/ Join
             \/ \E how \in {"granted", "forbidden"} : Grant(how)
             \/ CommitSession \/ CommitOffset
    BY <2>1, <2>3, ConsumerCount
  <2>4. CASE LookupFails \/ RefreshFails \/ Refuse \/ Crash
    BY <2>1, <2>4, DieCount
  <2>5. CASE Notify
    BY <2>1, <2>5, NotifyCount
  <2>6. CASE NotifyAgain
    BY <2>1, <2>6, NotifyAgainCount
  <2>7. QED
    BY <2>1, <2>2, <2>3, <2>4, <2>5, <2>6 DEF Next, Handler
<1>3. QED
  BY <1>1, <1>2, AccessInductive, PTL DEF Spec

(* A purchase is notified at most once for each of its records and each    *)
(* crash, however often its customer, product or guild make the handler    *)
(* fail.                                                                   *)
THEOREM NotificationsFew == Spec => []NotificationsBounded
<1>1. AccessInv /\ CountInv => NotificationsBounded
  <2>1. SUFFICES ASSUME AccessInv, CountInv, NEW e \in Event
                 PROVE  receipts[e] <= notices[e] /\ notices[e] <= Deliveries(e) + crashes
    BY DEF NotificationsBounded
  <2>2. Len(topic) \in Nat /\ Told \in 0 .. Len(topic) /\ crashes \in Nat
    BY <2>1, ToldType
  <2>3. Deliveries(e) = CountTo(topic, e, Len(topic))
    BY <2>1, CurrentFacts DEF Deliveries, CountTo, UpTo, AccessInv
  <2>4. /\ CountTo(topic, e, Told) <= CountTo(topic, e, Len(topic))
        /\ CountTo(topic, e, Told) \in Nat /\ CountTo(topic, e, Len(topic)) \in Nat
    BY <2>2, CountGrows, CountType
  <2>5. notices[e] \in Nat /\ notices[e] <= CountTo(topic, e, Told) + crashes
        /\ receipts[e] <= notices[e]
    BY <2>1 DEF AccessInv, TypeOK, CountInv
  <2>6. QED
    BY <2>2, <2>3, <2>4, <2>5
<1>2. QED
  BY <1>1, AccessInductive, CountInductive, PTL

-----------------------------------------------------------------------------
(* Tokens.                                                                 *)

(* The session holds a payload from the refresh to its commit.             *)
RenewedInHandler == renewed => pc \in {"join", "grant", "notice", "receipt", "commit"}

TokenInv ==
  /\ AccessInv
  /\ RenewedInHandler
  /\ TokenLostByFailureOnly

(* Steps that use up no token, and after which all reasons for a lost one  *)
(* still hold.                                                             *)
LEMMA TokensKept ==
  ASSUME TokenInv, renewed' = renewed, renewed => Payer' = Payer,
         crashes' = crashes, refused \subseteq refused',
         \A c \in Customer : token'[c] = "dead" => token[c] = "dead"
  PROVE  TokenLostByFailureOnly'
BY DEF TokenInv, TokenLostByFailureOnly

LEMMA EnvironmentTokens ==
  ASSUME TokenInv,
         \/ \E e \in Event : Publish(e) \/ \E o \in Obstacle : Obstruct(e, o)
         \/ \E c \in Customer : Login(c) \/ Expire(c)
  PROVE  RenewedInHandler' /\ TokenLostByFailureOnly'
<1> USE DEF Publish, Obstruct, Login, Expire, discordVars, noteVars, failVars, localVars
<1>1. UNCHANGED <<pc, pos, renewed, refused, crashes>>
  OBVIOUS
<1>2. RenewedInHandler'
  BY <1>1 DEF TokenInv, RenewedInHandler
<1>3. ASSUME renewed PROVE Payer' = Payer
  <2>1. pos \in 1 .. Len(topic) /\ topic \in Seq(Event)
    BY <1>3, CurrentFacts DEF TokenInv, AccessInv, RenewedInHandler, InHandler, TypeOK
  <2>2. topic'[pos] = topic[pos]
    BY <2>1
  <2>3. QED
    BY <1>1, <2>2 DEF Payer, Current
<1>4. \A c \in Customer : token'[c] = "dead" => token[c] = "dead"
  BY DEF TokenInv, AccessInv, TypeOK
<1>5. QED
  BY <1>1, <1>2, <1>3, <1>4, TokensKept

(* Steps of the consumer that leave tokens and session alone.              *)
LEMMA MoveTokens ==
  ASSUME TokenInv,
         \/ Start \/ TakeMessage \/ FindMember \/ NoToken \/ Join
         \/ \E how \in {"granted", "forbidden"} : Grant(how)
         \/ Notify \/ NotifyAgain \/ CommitOffset
  PROVE  RenewedInHandler' /\ TokenLostByFailureOnly'
<1> USE DEF Start, TakeMessage, FindMember, NoToken, WantsToken, Join, Grant, Notify,
            NotifyAgain, CommitOffset, discordVars, noteVars, failVars
<1>1. UNCHANGED <<topic, token, refused, renewed, crashes>>
  OBVIOUS
<1>2. RenewedInHandler'
  BY <1>1 DEF TokenInv, RenewedInHandler
<1>3. ASSUME renewed PROVE Payer' = Payer
  BY <1>1, <1>3 DEF TokenInv, RenewedInHandler, Payer, Current
<1>4. QED
  BY <1>1, <1>2, <1>3, TokensKept

(* The refresh uses up the payer's token only, and its successor is in the *)
(* session.                                                                *)
LEMMA ObtainTokens ==
  ASSUME TokenInv, ObtainToken
  PROVE  RenewedInHandler' /\ TokenLostByFailureOnly'
<1>1. /\ pc = "discord" /\ pc' = "join"
      /\ UNCHANGED <<topic, pos, refused, crashes>>
  BY DEF ObtainToken, WantsToken, discordVars, failVars
<1>2. renewed = FALSE
  BY <1>1 DEF TokenInv, RenewedInHandler, AccessInv, TypeOK
<1>3. RenewedInHandler'
  BY <1>1 DEF RenewedInHandler
<1>4. Payer' = Payer
  BY <1>1 DEF Payer, Current
<1>5. ASSUME NEW c \in Customer, token'[c] = "dead", token[c] # "dead"
      PROVE  renewed' /\ Payer = c
  BY <1>5 DEF ObtainToken, TokenInv, AccessInv, TypeOK
<1>6. QED
  BY <1>1, <1>2, <1>3, <1>4, <1>5 DEF TokenInv, TokenLostByFailureOnly

(* A rollback loses the payload: to a crash, or to a refusal of Discord.   *)
LEMMA DieTokens ==
  ASSUME TokenInv, LookupFails \/ RefreshFails \/ Refuse \/ Crash
  PROVE  RenewedInHandler' /\ TokenLostByFailureOnly'
<1>1. renewed' = FALSE /\ UNCHANGED token /\ refused \subseteq refused'
  BY DEF LookupFails, RefreshFails, Refuse, Crash, Die, failVars
<1>2. RenewedInHandler'
  BY <1>1 DEF RenewedInHandler
<1>3. CASE LookupFails \/ RefreshFails
  BY <1>1, <1>2, <1>3 DEF LookupFails, RefreshFails, WantsToken, TokenInv, RenewedInHandler,
     TokenLostByFailureOnly, failVars
<1>4. CASE Refuse
  <2>1. Payer \in refused' /\ crashes' = crashes
    BY <1>4 DEF Refuse
  <2>2. QED
    BY <1>1, <1>2, <2>1 DEF TokenInv, TokenLostByFailureOnly, Payer
<1>5. CASE Crash
  BY <1>2, <1>5 DEF Crash, TokenLostByFailureOnly, TokenInv, AccessInv, TypeOK
<1>6. QED
  BY <1>3, <1>4, <1>5

(* The commit stores the successor of the one token that was used up.      *)
LEMMA CommitTokens ==
  ASSUME TokenInv, CommitSession
  PROVE  RenewedInHandler' /\ TokenLostByFailureOnly'
<1>1. renewed' = FALSE /\ UNCHANGED <<refused, crashes>>
  BY DEF CommitSession, failVars
<1>2. ASSUME NEW c \in Customer, token'[c] = "dead"
      PROVE  token[c] = "dead" /\ ~ (renewed /\ Payer = c)
  BY <1>2 DEF CommitSession, TokenInv, AccessInv, TypeOK
<1>3. QED
  BY <1>1, <1>2 DEF TokenInv, RenewedInHandler, TokenLostByFailureOnly

(* A customer's token is lost to a failure between refresh and commit      *)
(* only, however records, logins and expiries follow each other.           *)
THEOREM TokensNotWasted == Spec => []TokenLostByFailureOnly
<1>1. Init => RenewedInHandler /\ TokenLostByFailureOnly
  BY DEF Init, RenewedInHandler, TokenLostByFailureOnly
<1>2. AccessInv /\ AccessInv' /\ RenewedInHandler /\ TokenLostByFailureOnly /\ [Next]_vars
        => (RenewedInHandler /\ TokenLostByFailureOnly)'
  <2>1. SUFFICES ASSUME TokenInv, [Next]_vars PROVE RenewedInHandler' /\ TokenLostByFailureOnly'
    BY DEF TokenInv
  <2>2. CASE \/ \E e \in Event : Publish(e) \/ \E o \in Obstacle : Obstruct(e, o)
             \/ \E c \in Customer : Login(c) \/ Expire(c)
    BY <2>1, <2>2, EnvironmentTokens
  <2>3. CASE \/ Start \/ TakeMessage \/ FindMember \/ NoToken \/ Join
             \/ \E how \in {"granted", "forbidden"} : Grant(how)
             \/ Notify \/ NotifyAgain \/ CommitOffset
    BY <2>1, <2>3, MoveTokens
  <2>4. CASE ObtainToken
    BY <2>1, <2>4, ObtainTokens
  <2>5. CASE LookupFails \/ RefreshFails \/ Refuse \/ Crash
    BY <2>1, <2>5, DieTokens
  <2>6. CASE CommitSession
    BY <2>1, <2>6, CommitTokens
  <2>7. CASE UNCHANGED vars
    BY <2>1, <2>7 DEF vars, localVars, failVars, TokenInv, RenewedInHandler,
       TokenLostByFailureOnly, Payer, Current
  <2>8. QED
    BY <2>1, <2>2, <2>3, <2>4, <2>5, <2>6, <2>7 DEF Next, Handler
<1>3. QED
  BY <1>1, <1>2, AccessInductive, PTL DEF Spec

-----------------------------------------------------------------------------
(* The consumer implements AtLeastOnce.                                    *)

LEMMA InitRefines == Init => Stage!Init
<1>1. SUFFICES ASSUME Init PROVE Stage!Init
  OBVIOUS
<1>2. Stored = {} /\ Passed = {}
  BY <1>1 DEF Init, Stored, Passed, NoOffset
<1>3. [e \in Event |-> IF outcome[e] = {} THEN 0 ELSE 1] = [e \in Event |-> 0]
  BY <1>1 DEF Init
<1>4. QED
  BY <1>2, <1>3 DEF Stage!Init

(* The records an offset covers are among those stored.                    *)
LEMMA PassedRange ==
  ASSUME AccessInv
  PROVE  \A i \in base + 1 .. committed : i \in 1 .. Len(topic)
BY CurrentFacts DEF AccessInv, TypeOK, Positions, NoOffset

(* An offset covers at least the record it was committed for.              *)
OffsetSet == committed # NoOffset => base < committed

LEMMA OffsetAlways == Spec => []OffsetSet
<1>1. Init => OffsetSet
  BY DEF Init, OffsetSet
<1>2. AccessInv /\ OffsetSet /\ [Next]_vars => OffsetSet'
  <2>1. SUFFICES ASSUME AccessInv, OffsetSet, [Next]_vars PROVE OffsetSet'
    OBVIOUS
  <2>2. CASE CommitOffset
    <3>1. pos \in Nat /\ base \in Nat /\ committed \in Nat \cup {-1}
      BY <2>1 DEF AccessInv, TypeOK, NoOffset
    <3>2. committed # NoOffset => committed = pos - 1
      BY <2>1, <2>2 DEF AccessInv, Positions, InHandler, CommitOffset
    <3>3. QED
      BY <2>1, <2>2, <3>1, <3>2 DEF CommitOffset, NextOffset, OffsetSet, NoOffset
  <2>3. CASE UNCHANGED <<committed, base>>
    BY <2>1, <2>3 DEF OffsetSet
  <2>4. CommitOffset \/ UNCHANGED <<committed, base>>
    BY <2>1 DEF Next, Handler, Publish, Obstruct, Login, Expire, Start, TakeMessage,
       LookupFails, FindMember, NoToken, ObtainToken, RefreshFails, Join, Grant, Refuse,
       Notify, NotifyAgain, CommitSession, Crash, Die, vars
  <2>5. QED
    BY <2>2, <2>3, <2>4
<1>3. QED
  BY <1>1, <1>2, AccessInductive, PTL DEF Spec

LEMMA PublishRefines ==
  ASSUME AccessInv, NEW e \in Event, Publish(e)
  PROVE  Stage!Accept({e})
<1> USE DEF Publish, discordVars
<1>1. /\ DOMAIN topic' = DOMAIN topic \cup {Len(topic) + 1}
      /\ topic'[Len(topic) + 1] = e
      /\ \A i \in 1 .. Len(topic) : topic'[i] = topic[i]
      /\ DOMAIN topic = 1 .. Len(topic)
  BY DEF AccessInv, TypeOK
<1>2. Stored' = Stored \cup {e}
  BY <1>1 DEF Stored
<1>3. Passed' = Passed
  BY <1>1, PassedRange DEF Passed
<1>4. QED
  BY <1>2, <1>3 DEF Stage!Accept

(* The end of the Discord part: an outcome of the record in work.          *)
LEMMA OutcomeRefines ==
  ASSUME AccessInv, InHandler, UNCHANGED <<topic, committed, base>>,
         NEW how \in Outcome, outcome' = [outcome EXCEPT ![Current] = @ \cup {how}]
  PROVE  Stage!Next \/ UNCHANGED Stage!vars
<1> DEFINE done == [e \in Event |-> IF outcome[e] = {} THEN 0 ELSE 1]
<1>1. Current \in Event /\ Current \in Stored
  BY CurrentFacts DEF AccessInv, Stored, Current
<1>2. Stored' = Stored /\ Passed' = Passed
  BY DEF Stored, Passed
<1>3. CASE outcome[Current] # {}
  <2>1. done' = done
    BY <1>1, <1>3 DEF AccessInv, TypeOK
  <2>2. QED
    BY <1>2, <2>1 DEF Stage!vars
<1>4. CASE outcome[Current] = {}
  <2>1. outcome'[Current] # {} /\ \A e \in Event \ {Current} : outcome'[e] = outcome[e]
    BY <1>1 DEF AccessInv, TypeOK
  <2>2. done' = [e \in Event |-> IF e \in {Current} THEN done[e] + 1 ELSE done[e]]
    BY <1>4, <2>1
  <2>3. Stage!HandOn({Current}, {})
    BY <1>1, <1>2, <2>2 DEF Stage!HandOn
  <2>4. QED
    BY <1>1, <2>3 DEF Stage!Next
<1>5. QED
  BY <1>3, <1>4

(* The offset moves over the record in work, whose Discord part has ended. *)
LEMMA OffsetRefines ==
  ASSUME AccessInv, OffsetSet, CommitOffset
  PROVE  Stage!Next
<1> USE DEF CommitOffset, NextOffset, discordVars
<1> DEFINE done == [e \in Event |-> IF outcome[e] = {} THEN 0 ELSE 1]
<1>1. pos \in 1 .. Len(topic) /\ Current \in Event /\ outcome[Current] # {}
  BY CurrentFacts DEF AccessInv, InHandler, DiscordDone
<1>2. PICK passed \in SUBSET Event : passed = {Current}
  BY <1>1
<1>3. Current \in Stored /\ Stored' = Stored
  BY <1>1, CurrentFacts DEF AccessInv, Stored, Current
<1>4. Passed' = Passed \cup {Current}
  <2>1. base' + 1 .. committed' = (base + 1 .. committed) \cup {pos}
    <3>1. CASE committed = NoOffset
      BY <1>1, <3>1 DEF AccessInv, TypeOK, NoOffset
    <3>2. CASE committed # NoOffset
      <4>1. committed = pos - 1 /\ base' = base /\ committed' = pos
        BY <3>2 DEF AccessInv, Positions, InHandler
      <4>2. base \in Nat /\ pos \in Nat /\ base <= committed
        BY <1>1, <3>2, <4>1 DEF AccessInv, TypeOK, OffsetSet, NoOffset
      <4>3. QED
        BY <4>1, <4>2
    <3>3. QED
      BY <3>1, <3>2
  <2>2. QED
    BY <2>1 DEF Passed, Current
<1>5. /\ done' = [e \in Event |-> IF e \in {} THEN done[e] + 1 ELSE done[e]]
      /\ done'[Current] = 1
  BY <1>1
<1>6. Stage!HandOn({}, passed)
  BY <1>2, <1>3, <1>4, <1>5 DEF Stage!HandOn
<1>7. QED
  BY <1>6 DEF Stage!Next

(* IsAtLeastOnce: every step of the consumer is a step of the stage, or    *)
(* none of its business.                                                   *)
THEOREM ImplementsAtLeastOnce == Spec => IsAtLeastOnce
<1>1. AccessInv /\ OffsetSet /\ [Next]_vars => [Stage!Next]_(Stage!vars)
  <2>1. SUFFICES ASSUME AccessInv, OffsetSet, [Next]_vars
                 PROVE  Stage!Next \/ UNCHANGED Stage!vars
    OBVIOUS
  <2>2. CASE UNCHANGED <<topic, committed, base, outcome>>
    BY <2>2 DEF Stage!vars, Stored, Passed
  <2>3. ASSUME NEW e \in Event, Publish(e) PROVE Stage!Next
    BY <2>1, <2>3, PublishRefines DEF Stage!Next
  <2>4. CASE CommitOffset
    BY <2>1, <2>4, OffsetRefines
  <2>5. CASE NoToken \/ Join \/ \E how \in {"granted", "forbidden"} : Grant(how)
    <3>1. InHandler /\ UNCHANGED <<topic, committed, base>>
      BY <2>5 DEF NoToken, WantsToken, Join, Grant, InHandler
    <3>2. \/ UNCHANGED outcome
          \/ \E how \in Outcome : outcome' = [outcome EXCEPT ![Current] = @ \cup {how}]
      BY <2>5 DEF NoToken, Join, Grant, Outcome
    <3>3. QED
      BY <2>1, <2>2, <3>1, <3>2, OutcomeRefines
  <2>6. \/ UNCHANGED <<topic, committed, base, outcome>>
        \/ \E e \in Event : Publish(e)
        \/ CommitOffset
        \/ NoToken \/ Join \/ \E how \in {"granted", "forbidden"} : Grant(how)
    BY <2>1 DEF Next, Handler, Obstruct, Login, Expire, Start, TakeMessage,
       LookupFails, FindMember, ObtainToken, RefreshFails, Refuse, Notify, NotifyAgain,
       CommitSession, Crash, Die, vars, discordVars, noteVars, failVars
  <2>7. QED
    BY <2>2, <2>3, <2>4, <2>5, <2>6
<1>2. QED
  BY <1>1, InitRefines, AccessInductive, OffsetAlways, PTL DEF Spec, IsAtLeastOnce, Stage!Spec
=============================================================================
