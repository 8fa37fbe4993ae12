---------------------- MODULE TransactionOrchestrator ----------------------
(***************************************************************************)
(* TransactionOrchestrator: the Kafka consumer that turns a completed      *)
(* transaction into access to a Discord guild (an invitation or roles) and *)
(* two notifications.                                                      *)
(*                                                                         *)
(* Messages are handled one at a time.  Everything the handler writes with *)
(* its own session, a refreshed OAuth payload, commits when the handler    *)
(* returns; notifications commit at once in sessions of their own; Discord *)
(* cannot be rolled back at all; and the Kafka offset is committed last.   *)
(* Nothing catches an exception but a missing access token, so any failure *)
(* ends the process and the restarted one starts from the committed        *)
(* offset, or, while the group has none, from the end of the topic.        *)
(*                                                                         *)
(* The definitions no other one refers to (ResumeAtEnd, ThisOffset,        *)
(* TakeAndCommit, NotifyAnyway, CommitUnstored) are faulty variants of     *)
(* their successors; the README says which property rules out which.       *)
(***************************************************************************)
EXTENDS Integers, Sequences, FiniteSets

CONSTANTS
  Event,     \* transaction.completed events
  Customer,  \* Discord users who buy
  Buyer,     \* the customer of an event
  Invite,    \* events whose product is fulfilled by an invitation, not by roles
  MaxTopic,  \* bound: records in the topic
  MaxCrash   \* bound: failures of the network, of Discord or of the process

ASSUME OrchestratorAssumption ==
  /\ Buyer \in [Event -> Customer]
  /\ Invite \subseteq Event
  /\ MaxTopic \in Nat
  /\ MaxCrash \in Nat

VARIABLES
  topic,      \* transaction-events, in the order Kafka stored the records
  committed,  \* offset of the consumer group, as the number of records passed
  base,       \* records before the first one the group's first offset covers
  obstacle,   \* what stands in the way of handling an event
  token,      \* row of discord_access_tokens of a customer
  member,     \* customers in the guild
  outcome,    \* how the Discord part of an event has ended so far
  notices,    \* SUBSCRIPTION_SUFFICIENT notifications of an event
  receipts,   \* its SUBSCRIPTION_RENEWED or ONE_TIME_PURCHASE notifications
  pc,         \* where the consumer stands
  pos,        \* its position: records it has taken or skipped
  renewed,    \* its session holds a refreshed payload
  refused,    \* customers for whom Discord has refused a purchase
  crashes     \* failures so far

discordVars == <<obstacle, member, outcome>>
noteVars    == <<notices, receipts>>
localVars   == <<pc, pos, renewed>>
failVars    == <<refused, crashes>>
vars == <<topic, committed, base, token, discordVars, noteVars, localVars, failVars>>

NoOffset == -1

(* none: no row; fresh: the access token works; stale: it has expired;     *)
(* dead: and the refresh token of the row has been used up.                *)
TokenState == {"none", "fresh", "stale", "dead"}

Outcome == {"granted", "forbidden", "tokenless"}

(* none; lookup: the product or the price is deleted, or the event or its  *)
(* workspace names the customer or the guild by something that is no       *)
(* number; guild: the bot is not in the guild; join: Discord does not let  *)
(* the customer in, for want of a permission, a ban, or a token it does    *)
(* not take; role: the guild has no such role.  The invitation asks for    *)
(* the guild when it lets the customer in, and for no role.                *)
Obstacle == {"none", "lookup", "guild", "join", "role"}
Obstacles(e) == IF e \in Invite THEN {"none", "lookup", "join"} ELSE Obstacle

(* The record in work, and whose purchase it is.                           *)
Current == topic[pos]
Payer   == Buyer[Current]

Init ==
  /\ topic = <<>>
  /\ committed = NoOffset
  /\ base = 0
  /\ obstacle \in [Event -> {"none", "lookup"}]
  /\ token \in [Customer -> {"none", "fresh"}]
  /\ member \in SUBSET Customer
  /\ outcome = [e \in Event |-> {}]
  /\ notices = [e \in Event |-> 0]
  /\ receipts = [e \in Event |-> 0]
  /\ pc = "down"
  /\ pos = 0
  /\ renewed = FALSE
  /\ refused = {}
  /\ crashes = 0

-----------------------------------------------------------------------------
(* The environment.                                                        *)

(* The outbox publishes an event, possibly once more.                      *)
Publish(e) ==
  /\ Len(topic) < MaxTopic
  /\ topic' = Append(topic, e)
  /\ UNCHANGED <<committed, base, token, discordVars, noteVars, localVars, failVars>>

(* The product or the price is deleted; or the guild's owner removes or    *)
(* admits the bot, bans customers, changes permissions and roles, and sets *)
(* them right again.                                                       *)
Obstruct(e, o) ==
  /\ obstacle[e] \notin {o, "lookup"}
  /\ o \in Obstacles(e)
  /\ obstacle' = [obstacle EXCEPT ![e] = o]
  /\ UNCHANGED <<topic, committed, base, token, member, outcome, noteVars,
                 localVars, failVars>>

(* handle_subscriber_callback(): the customer logs in with Discord.        *)
Login(c) ==
  /\ token' = [token EXCEPT ![c] = "fresh"]
  /\ UNCHANGED <<topic, committed, base, discordVars, noteVars, localVars, failVars>>

Expire(c) ==
  /\ token[c] = "fresh"
  /\ token' = [token EXCEPT ![c] = "stale"]
  /\ UNCHANGED <<topic, committed, base, discordVars, noteVars, localVars, failVars>>

-----------------------------------------------------------------------------
(* The consumer.                                                           *)

(* aiokafka resumes at the committed offset, and at the end of the topic   *)
(* when there is none (auto_offset_reset is left at 'latest').             *)
ResumeAtEnd == Len(topic)
ResumeAt == IF committed = NoOffset THEN Len(topic) ELSE committed

Start ==
  /\ pc = "down"
  /\ pc' = "ready"
  /\ pos' = ResumeAt
  /\ UNCHANGED <<topic, committed, base, token, discordVars, noteVars, renewed,
                 failVars>>

(* Product, price and workspace exist, and int() takes the ids.            *)
Readable(e) == obstacle[e] # "lookup"

TakeAndCommit ==
  /\ pc = "ready"
  /\ pos < Len(topic)
  /\ Readable(topic[pos + 1])
  /\ pos' = pos + 1
  /\ pc' = "discord"
  /\ committed' = pos + 1
  /\ UNCHANGED <<topic, base, token, discordVars, noteVars, renewed, failVars>>

(* The next record, and the handler's reads before it turns to Discord.    *)
TakeMessage ==
  /\ pc = "ready"
  /\ pos < Len(topic)
  /\ Readable(topic[pos + 1])
  /\ pos' = pos + 1
  /\ pc' = "discord"
  /\ UNCHANGED <<topic, committed, base, token, discordVars, noteVars, renewed,
                 failVars>>

(* An exception: the session is rolled back and the process ends.          *)
Die ==
  /\ pc' = "down"
  /\ renewed' = FALSE
  /\ UNCHANGED <<topic, committed, base, token, discordVars, noteVars, pos>>

(* get_by_id raises, as product or price are gone, or int() does.          *)
LookupFails ==
  /\ pc = "ready"
  /\ pos < Len(topic)
  /\ ~ Readable(topic[pos + 1])
  /\ Die
  /\ UNCHANGED failVars

(* Both fulfilments need a token to bring the customer into the guild.     *)
NeedsToken(e) == e \in Invite \/ Buyer[e] \notin member
WantsToken == pc = "discord" /\ obstacle[Current] # "guild" /\ NeedsToken(Current)

(* assign_roles for a customer already in the guild needs no token.        *)
FindMember ==
  /\ pc = "discord"
  /\ obstacle[Current] # "guild"
  /\ ~ NeedsToken(Current)
  /\ pc' = "grant"
  /\ UNCHANGED <<topic, committed, base, token, discordVars, noteVars, pos, renewed,
                 failVars>>

NotifyAnyway ==
  /\ WantsToken
  /\ token[Payer] = "none"
  /\ outcome' = [outcome EXCEPT ![Current] = @ \cup {"tokenless"}]
  /\ pc' = "notice"
  /\ UNCHANGED <<topic, committed, base, token, obstacle, member, noteVars, pos,
                 renewed, failVars>>

(* get_access_token finds no row; _handle_discord logs that and reports    *)
(* failure, and the handler returns without an error.                      *)
NoToken ==
  /\ WantsToken
  /\ token[Payer] = "none"
  /\ outcome' = [outcome EXCEPT ![Current] = @ \cup {"tokenless"}]
  /\ pc' = "commit"
  /\ UNCHANGED <<topic, committed, base, token, obstacle, member, noteVars, pos,
                 renewed, failVars>>

(* get_access_token returns the stored access token, or refreshes it       *)
(* first.  Discord may invalidate the refresh token it has just honoured;  *)
(* the payload that replaces it is in the open session only.               *)
ObtainToken ==
  /\ WantsToken
  /\ \/ /\ token[Payer] = "fresh"
        /\ UNCHANGED <<token, renewed>>
     \/ /\ token[Payer] = "stale"
        /\ \E after \in {"stale", "dead"} : token' = [token EXCEPT ![Payer] = after]
        /\ renewed' = TRUE
  /\ pc' = "join"
  /\ UNCHANGED <<topic, committed, base, discordVars, noteVars, pos, failVars>>

(* refresh_access_token raises: the stored refresh token is used up.       *)
RefreshFails ==
  /\ WantsToken
  /\ token[Payer] = "dead"
  /\ Die
  /\ UNCHANGED failVars

(* add_user_to_guild succeeds, which is all an invitation needs.           *)
Join ==
  /\ pc = "join"
  /\ obstacle[Current] \notin {"guild", "join"}
  /\ member' = member \cup {Payer}
  /\ IF Current \in Invite
     THEN /\ outcome' = [outcome EXCEPT ![Current] = @ \cup {"granted"}]
          /\ pc' = "notice"
     ELSE /\ pc' = "grant"
          /\ UNCHANGED outcome
  /\ UNCHANGED <<topic, committed, base, token, obstacle, noteVars, pos, renewed,
                 failVars>>

(* add_roles; a lack of permission is logged and counts as success.        *)
Grant(how) ==
  /\ pc = "grant"
  /\ obstacle[Current] # "role"
  /\ obstacle[Current] = "guild" => how = "forbidden"
  /\ outcome' = [outcome EXCEPT ![Current] = @ \cup {how}]
  /\ pc' = "notice"
  /\ UNCHANGED <<topic, committed, base, token, obstacle, member, noteVars, pos,
                 renewed, failVars>>

(* An exception of fetch_guild, of add_user_to_guild, or, once the customer *)
(* is a member, of fetch_member, get_role or add_roles.                    *)
Refusal ==
  \/ pc = "discord" /\ obstacle[Current] = "guild"
  \/ pc = "join" /\ obstacle[Current] \in {"guild", "join"}
  \/ pc = "grant" /\ obstacle[Current] \in {"guild", "role"}

Refuse ==
  /\ Refusal
  /\ refused' = refused \cup {Payer}
  /\ Die
  /\ UNCHANGED crashes

Notify ==
  /\ pc = "notice"
  /\ notices' = [notices EXCEPT ![Current] = @ + 1]
  /\ pc' = "receipt"
  /\ UNCHANGED <<topic, committed, base, token, discordVars, receipts, pos, renewed,
                 failVars>>

NotifyAgain ==
  /\ pc = "receipt"
  /\ receipts' = [receipts EXCEPT ![Current] = @ + 1]
  /\ pc' = "commit"
  /\ UNCHANGED <<topic, committed, base, token, discordVars, notices, pos, renewed,
                 failVars>>

CommitUnstored ==
  /\ pc = "commit"
  /\ renewed' = FALSE
  /\ pc' = "offset"
  /\ UNCHANGED <<topic, committed, base, token, discordVars, noteVars, pos, failVars>>

(* The session commits, and with it a refreshed payload.                   *)
CommitSession ==
  /\ pc = "commit"
  /\ token' = IF renewed THEN [token EXCEPT ![Payer] = "fresh"] ELSE token
  /\ renewed' = FALSE
  /\ pc' = "offset"
  /\ UNCHANGED <<topic, committed, base, discordVars, noteVars, pos, failVars>>

ThisOffset == pos - 1
NextOffset == pos

CommitOffset ==
  /\ pc = "offset"
  /\ committed' = NextOffset
  /\ base' = IF committed = NoOffset THEN pos - 1 ELSE base
  /\ pc' = "ready"
  /\ UNCHANGED <<topic, token, discordVars, noteVars, pos, renewed, failVars>>

(* Any await of the consumer fails, or the process is killed.              *)
Crash ==
  /\ pc # "down"
  /\ crashes < MaxCrash
  /\ crashes' = crashes + 1
  /\ Die
  /\ UNCHANGED refused

Handler ==
  \/ FindMember \/ NoToken \/ ObtainToken \/ RefreshFails
  \/ Join \/ (\E how \in {"granted", "forbidden"} : Grant(how)) \/ Refuse
  \/ Notify \/ NotifyAgain \/ CommitSession \/ CommitOffset

Next ==
  \/ \E e \in Event : Publish(e) \/ \E o \in Obstacle : Obstruct(e, o)
  \/ \E c \in Customer : Login(c) \/ Expire(c)
  \/ Start \/ TakeMessage \/ LookupFails
  \/ Handler
  \/ Crash

Spec == Init /\ [][Next]_vars

(* The container is restarted whenever it stops, the consumer's loop       *)
(* always waits for one thing only, and every call it waits for returns or *)
(* raises.  Tokens may expire and customers log in at any rate.            *)
Fairness ==
  /\ WF_vars(Start)
  /\ WF_vars(TakeMessage \/ LookupFails)
  /\ WF_vars(Handler)

FairSpec == Spec /\ Fairness

-----------------------------------------------------------------------------
(* Properties.                                                             *)

(* Every variable has its type; positions are never negative, although the *)
(* group may have no offset.                                               *)
TypeOK ==
  /\ topic \in Seq(Event)
  /\ committed \in Nat \cup {NoOffset}
  /\ base \in Nat
  /\ obstacle \in [Event -> Obstacle]
  /\ token \in [Customer -> TokenState]
  /\ member \in SUBSET Customer
  /\ outcome \in [Event -> SUBSET Outcome]
  /\ notices \in [Event -> Nat]
  /\ receipts \in [Event -> Nat]
  /\ pc \in {"down", "ready", "discord", "join", "grant", "notice", "receipt",
             "commit", "offset"}
  /\ pos \in Nat
  /\ renewed \in BOOLEAN
  /\ refused \in SUBSET Customer
  /\ crashes \in Nat

(* The offset never runs ahead of the work: the Discord part of every      *)
(* record it covers has come to an end, if only to the discovery that the  *)
(* customer has no token.                                                  *)
OffsetBehindWork == \A i \in base + 1 .. committed : outcome[topic[i]] # {}

Deliveries(e) == Cardinality({i \in DOMAIN topic : topic[i] = e})

(* A customer is only told twice of one purchase when the record was in    *)
(* the topic twice or a crash came between the notification and the        *)
(* offset; failures that repeat forever (a deleted product, a refusal of   *)
(* Discord, a dead token) do not repeat notifications.                     *)
NotificationsBounded ==
  \A e \in Event : receipts[e] <= notices[e] /\ notices[e] <= Deliveries(e) + crashes

(* The purchase is only confirmed to a customer who has access, or whose   *)
(* roles the bot was not allowed to assign.                                *)
ConfirmedHasAccess ==
  \A e \in Event : notices[e] > 0 => outcome[e] \cap {"granted", "forbidden"} # {}

(* A refresh uses up the stored token before its successor is stored.      *)
(* Outside of a handler in progress, a customer's token is only lost to a  *)
(* failure between the two: a crash, or a purchase of the same customer    *)
(* that Discord refused.                                                   *)
TokenLostByFailureOnly ==
  \A c \in Customer :
    token[c] = "dead" =>
      \/ renewed /\ Payer = c
      \/ crashes > 0
      \/ c \in refused

(* As things are, the handler of e can only raise an exception.            *)
CanOnlyFail(e) ==
  \/ ~ Readable(e)
  \/ obstacle[e] = "guild"
  \/ NeedsToken(e) /\ token[Buyer[e]] = "dead"
  \/ NeedsToken(e) /\ token[Buyer[e]] # "none" /\ obstacle[e] = "join"
  \/ obstacle[e] = "role" /\ ~ (NeedsToken(e) /\ token[Buyer[e]] = "none")

Blocked == committed + 1 \in DOMAIN topic /\ CanOnlyFail(topic[committed + 1])

(* Once the group has an offset, every record of the bounded topic is      *)
(* passed, unless the one next to be passed can only fail.  This is true   *)
(* again and again for ever, so an obstacle that comes once and goes for   *)
(* good keeps no record waiting: one login of the customer is enough to    *)
(* get over a dead token, and a guild set right over a refusal.            *)
EventuallyPassed == []<>(committed \in {NoOffset, Len(topic)} \/ Blocked)

(* The consumer is an at-least-once stage: it accepts what Kafka stores,   *)
(* hands an event on when its Discord part comes to an end, however often  *)
(* it does, and settles it with an offset, which never goes back.          *)
Stored == {topic[i] : i \in DOMAIN topic}
Passed == {topic[i] : i \in base + 1 .. committed}

Stage == INSTANCE AtLeastOnce WITH
  Item     <- Event,
  accepted <- Stored,
  copies   <- [e \in Event |-> IF outcome[e] = {} THEN 0 ELSE 1],
  settled  <- Passed

IsAtLeastOnce == Stage!Spec
=============================================================================
