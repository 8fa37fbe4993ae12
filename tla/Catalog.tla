------------------------------ MODULE Catalog ------------------------------
(***************************************************************************)
(* What an owner sells: the workspace, its wallets, products and prices,   *)
(* as the requests of ProductService, PriceService, WalletService and      *)
(* WorkspaceService change them, and the events they write for the workers *)
(* that keep the contract up to date.                                      *)
(*                                                                         *)
(* A request reads, then writes and commits.  What it writes is invisible  *)
(* and locked until it commits, so the last two are one step, in which the *)
(* foreign keys are checked.  A product's event is written in that         *)
(* transaction; a price's event is written before, in one of its own, for  *)
(* which the request needs a second connection of the pool.                *)
(*                                                                         *)
(* Names, descriptions and currencies are left out: a price may be changed *)
(* without its amount.  The definitions no other one refers to             *)
(* (BegunAtStart, AnnounceGiven, WaitForEver, NoWalletKey) are faulty      *)
(* variants of their successors; see the README.                           *)
(*                                                                         *)
(* Names carry a prefix where ContractSync, the consumer of the wallet     *)
(* events, has the same: CatalogSyncProofs extends both modules.           *)
(***************************************************************************)
EXTENDS Naturals, Sequences, FiniteSets

CONSTANTS
  Wallet, Product, Price,
  ProductOf,    \* the product a price is created for
  Amount,
  Request,      \* requests that may run at the same time
  Pool,         \* connections of the database pool
  MaxRequests,  \* bound: requests on products, prices and deletions
  MaxTime,      \* bound: seconds
  MaxFailures   \* bound: requests that end with an exception of a call

Never == "never created"
Gone == "deleted"
Keep == "amount not given"

ASSUME CatalogAssumption ==
  /\ ProductOf \in [Price -> Product]
  \* rows of different tables
  /\ Product \cap Price = {} /\ Wallet \cap (Product \cup Price) = {}
  /\ "workspace" \notin Product \cup Price
  /\ {Never, Gone} \cap (Wallet \cup Amount) = {}
  /\ Keep \notin Amount
  /\ Pool \in Nat \ {0}
  /\ MaxRequests \in Nat /\ MaxTime \in Nat /\ MaxFailures \in Nat

VARIABLES
  workspace,     \* never created, "present" or deleted
  wallet,        \* the same of each wallet
  walletOf,      \* Product.wallet_id, or never created, or deleted
  amount,        \* Price.amount, or never created, or deleted
  walletEvents,  \* ProductWalletUpdatedEvents in the order of their commits
  priceEvents,   \* PriceUpdatedEvents in the order of their commits
  request,       \* what each request does, and what it has read
  disturbed,     \* objects with overlapping requests, or one that failed
                 \* after its event, since the last request that had it alone
  begun,         \* requests begun so far
  now,           \* seconds, as events are stamped
  failures       \* requests failed so far

tables == <<workspace, wallet, walletOf, amount>>
events == <<walletEvents, priceEvents>>
catalogVars == <<tables, events, request, disturbed, begun, now, failures>>

Idle == [op |-> "none"]
Exists(state) == state \notin {Never, Gone}
Active == {q \in Request : request[q] # Idle}

CatalogInit ==
  /\ workspace = Never
  /\ wallet = [w \in Wallet |-> Never]
  /\ walletOf = [p \in Product |-> Never]
  /\ amount = [r \in Price |-> Never]
  /\ walletEvents = << >>
  /\ priceEvents = << >>
  /\ request = [q \in Request |-> Idle]
  /\ disturbed = {}
  /\ begun = 0
  /\ now = 0
  /\ failures = 0

Tick ==
  /\ now < MaxTime
  /\ now' = now + 1
  /\ UNCHANGED <<tables, events, request, disturbed, begun, failures>>

-----------------------------------------------------------------------------
(* Requests that only insert a row: whoever deletes the workspace does so  *)
(* before or after.                                                        *)

CreateWorkspace ==
  /\ workspace = Never
  /\ workspace' = "present"
  /\ UNCHANGED <<wallet, walletOf, amount, events, request, disturbed, begun, now,
                 failures>>

CreateWallet(w) ==
  /\ Exists(workspace)
  /\ wallet[w] = Never
  /\ wallet' = [wallet EXCEPT ![w] = "present"]
  /\ UNCHANGED <<workspace, walletOf, amount, events, request, disturbed, begun, now,
                 failures>>

-----------------------------------------------------------------------------
(* The other requests begin: the token, the object and the owner's         *)
(* workspace are read, and what the service reads before it writes.        *)

Busy(object) == \E q \in Active : request[q].object = object

BegunAtStart(op, object, arg) ==
  [op |-> op, object |-> object, arg |-> arg, stamp |-> 0, began |-> now,
   told |-> FALSE, alone |-> ~ Busy(object)]

(* The request's event is stamped with the second in which it is made.     *)
Begun(op, object, arg) ==
  [op |-> op, object |-> object, arg |-> arg, stamp |-> now, began |-> now,
   told |-> FALSE, alone |-> ~ Busy(object)]

Begin(q, op, object, arg) ==
  /\ request[q] = Idle
  /\ begun < MaxRequests
  /\ Cardinality(Active) < Pool
  /\ Exists(workspace)
  /\ request' = [x \in Request |->
       IF x = q THEN Begun(op, object, arg)
       ELSE IF x \in Active /\ request[x].object = object
       THEN [request[x] EXCEPT !.alone = FALSE]
       ELSE request[x]]
  /\ begun' = begun + 1
  /\ UNCHANGED <<tables, events, disturbed, now, failures>>

Given(new, changed) == [new |-> new, changed |-> changed]

CreateProduct(q, p, w) ==
  /\ walletOf[p] = Never /\ ~ Busy(p)
  /\ Exists(wallet[w])
  /\ Begin(q, "create product", p, Given(w, TRUE))

(* update: without a change of the wallet no event is written.             *)
UpdateProduct(q, p, w) ==
  /\ Exists(walletOf[p]) /\ walletOf[p] # w
  /\ Begin(q, "update product", p, Given(w, TRUE))

DeleteProduct(q, p) == Exists(walletOf[p]) /\ Begin(q, "delete product", p, Given(Keep, FALSE))

(* create takes the product's id as it is given.                           *)
CreatePrice(q, r, a) ==
  /\ a # Keep
  /\ amount[r] = Never /\ ~ Busy(r)
  /\ \A e \in DOMAIN priceEvents : priceEvents[e].price # r
  /\ Begin(q, "create price", r, Given(a, TRUE))

(* update: an amount that is not given is the one read.                    *)
UpdatePrice(q, r, a) ==
  /\ Exists(amount[r])
  /\ Begin(q, "update price", r,
           IF a = Keep THEN Given(amount[r], FALSE) ELSE Given(a, a # amount[r]))

DeletePrice(q, r) == Exists(amount[r]) /\ Begin(q, "delete price", r, Given(Keep, FALSE))

Unused(w) == \A p \in Product : walletOf[p] # w

DeleteUnusedWallet(q, w) ==
  /\ Exists(wallet[w])
  /\ Unused(w)
  /\ Begin(q, "delete wallet", w, Given(Keep, FALSE))

DeleteWorkspace(q) == Begin(q, "delete workspace", "workspace", Given(Keep, FALSE))

-----------------------------------------------------------------------------
(* They end: with an exception, or with a commit.                          *)

Does(q, op) == request[q].op = op
Object(q) == request[q].object
Arg(q) == request[q].arg

EndRequest(q) == request' = [request EXCEPT ![q] = Idle]

(* A request nobody interfered with leaves table and events in agreement.  *)
Settle(q) ==
  disturbed' = IF request[q].alone THEN disturbed \ {Object(q)}
               ELSE disturbed \cup {Object(q)}

Announces(q) == request[q].op \in {"create price", "update price"} /\ ~ request[q].told

AnnounceGiven(q) == IF Arg(q).changed THEN Arg(q).new ELSE Keep

Announced(q) == Arg(q).new

(* The price's event, in a session of its own.  create has inserted its    *)
(* row, with a lock on the product, before.                                *)
PublishPrice(q) ==
  /\ Announces(q)
  /\ Does(q, "create price") => Exists(walletOf[ProductOf[Object(q)]])
  /\ Cardinality(Active) < Pool
  /\ priceEvents' = Append(priceEvents, [price |-> Object(q), amount |-> Announced(q)])
  /\ request' = [request EXCEPT ![q].told = TRUE]
  /\ UNCHANGED <<tables, walletEvents, disturbed, begun, now, failures>>

Unanswered(q) ==
  /\ EndRequest(q)
  /\ UNCHANGED <<tables, events, disturbed, begun, now, failures>>

WaitForEver(q) == FALSE

(* No connection becomes free in time, for all wait for a second one.      *)
PoolTimeout(q) ==
  /\ Announces(q)
  /\ Cardinality(Active) = Pool
  /\ Unanswered(q)

NoWalletKey(q) ==
  \/ Does(q, "create product") /\ ~ Exists(workspace)
  \/ Does(q, "update product") /\ ~ Exists(walletOf[Object(q)])
  \/ Does(q, "create price") /\ ~ request[q].told /\ ~ Exists(walletOf[ProductOf[Object(q)]])
  \/ /\ Does(q, "update price") /\ request[q].told
     /\ Arg(q).changed /\ ~ Exists(amount[Object(q)])

(* A foreign key, or a row that is gone.                                   *)
Violates(q) ==
  \/ Does(q, "create product") /\ ~ (Exists(workspace) /\ Exists(wallet[Arg(q).new]))
  \/ Does(q, "update product") /\ ~ (Exists(walletOf[Object(q)]) /\ Exists(wallet[Arg(q).new]))
  \/ Does(q, "create price") /\ ~ request[q].told /\ ~ Exists(walletOf[ProductOf[Object(q)]])
  \/ /\ Does(q, "update price") /\ request[q].told
     /\ Arg(q).changed /\ ~ Exists(amount[Object(q)])
  \/ Does(q, "delete wallet") /\ ~ Unused(Object(q))

Refuse(q) ==
  /\ Violates(q)
  /\ EndRequest(q)
  /\ disturbed' = IF request[q].told THEN disturbed \cup {Object(q)} ELSE disturbed
  /\ UNCHANGED <<tables, events, begun, now, failures>>

(* An exception before the commit; an event that was committed stays.      *)
FailRequest(q) ==
  /\ q \in Active
  /\ failures < MaxFailures
  /\ failures' = failures + 1
  /\ EndRequest(q)
  /\ disturbed' = IF request[q].told THEN disturbed \cup {Object(q)} ELSE disturbed
  /\ UNCHANGED <<tables, events, begun, now>>

Committing(q, op) ==
  /\ Does(q, op)
  /\ ~ Violates(q)
  /\ EndRequest(q)
  /\ Settle(q)
  /\ UNCHANGED <<begun, now, failures>>

(* The event of a product's wallet, in the request's transaction.          *)
WalletTold(q) ==
  Append(walletEvents, [product |-> Object(q), wallet |-> Arg(q).new, stamp |-> request[q].stamp,
                        began |-> request[q].began, committed |-> now])

CommitProduct(q) ==
  /\ Committing(q, "create product") \/ Committing(q, "update product")
  /\ walletOf' = [walletOf EXCEPT ![Object(q)] = Arg(q).new]
  /\ walletEvents' = WalletTold(q)
  /\ UNCHANGED <<workspace, wallet, amount, priceEvents>>

PriceWritten(q) ==
  IF Arg(q).changed THEN [amount EXCEPT ![Object(q)] = Arg(q).new] ELSE amount

CommitPrice(q) ==
  /\ request[q] # Idle /\ request[q].told
  /\ Committing(q, "create price") \/ Committing(q, "update price")
  /\ amount' = PriceWritten(q)
  /\ UNCHANGED <<workspace, wallet, walletOf, events>>

Dropped(state) == IF Exists(state) THEN Gone ELSE state

(* A price that is inserted but not committed locks its parents.           *)
Locked(p) ==
  \E x \in Active : Does(x, "create price") /\ request[x].told /\ ProductOf[Object(x)] = p

CommitDeleteProduct(q) ==
  /\ Committing(q, "delete product")
  /\ ~ Locked(Object(q))
  /\ walletOf' = [walletOf EXCEPT ![Object(q)] = Dropped(@)]
  /\ amount' = [r \in Price |-> IF ProductOf[r] = Object(q) THEN Dropped(amount[r])
                                ELSE amount[r]]
  /\ UNCHANGED <<workspace, wallet, events>>

CommitDeletePrice(q) ==
  /\ Committing(q, "delete price")
  /\ amount' = [amount EXCEPT ![Object(q)] = Dropped(@)]
  /\ UNCHANGED <<workspace, wallet, walletOf, events>>

CommitDeleteWallet(q) ==
  /\ Committing(q, "delete wallet")
  /\ wallet' = [wallet EXCEPT ![Object(q)] = Dropped(@)]
  /\ UNCHANGED <<workspace, walletOf, amount, events>>

(* The foreign keys cascade.                                               *)
CommitDeleteWorkspace(q) ==
  /\ Committing(q, "delete workspace")
  /\ \A p \in Product : ~ Locked(p)
  /\ workspace' = Gone
  /\ wallet' = [w \in Wallet |-> Dropped(wallet[w])]
  /\ walletOf' = [p \in Product |-> Dropped(walletOf[p])]
  /\ amount' = [r \in Price |-> Dropped(amount[r])]
  /\ UNCHANGED events

ProceedWith(q) ==
  \/ PublishPrice(q) \/ PoolTimeout(q) \/ Refuse(q)
  \/ CommitProduct(q) \/ CommitPrice(q) \/ CommitDeleteProduct(q) \/ CommitDeletePrice(q)
  \/ CommitDeleteWallet(q) \/ CommitDeleteWorkspace(q)

Arrive(q) ==
  \/ \E p \in Product :
       DeleteProduct(q, p) \/ \E w \in Wallet : CreateProduct(q, p, w) \/ UpdateProduct(q, p, w)
  \/ \E r \in Price :
       DeletePrice(q, r) \/ \E a \in Amount \cup {Keep} : CreatePrice(q, r, a) \/ UpdatePrice(q, r, a)
  \/ \E w \in Wallet : DeleteUnusedWallet(q, w)
  \/ DeleteWorkspace(q)

CatalogNext ==
  \/ Tick \/ CreateWorkspace \/ \E w \in Wallet : CreateWallet(w)
  \/ \E q \in Request : Arrive(q) \/ (q \in Active /\ ProceedWith(q)) \/ FailRequest(q)

CatalogSpec == CatalogInit /\ [][CatalogNext]_catalogVars

(* A request that has begun goes on.  Nobody has to send one.              *)
CatalogFairness == \A q \in Request : WF_catalogVars(q \in Active /\ ProceedWith(q))

CatalogFairSpec == CatalogSpec /\ CatalogFairness

-----------------------------------------------------------------------------
(* Properties.                                                             *)

Thing == Product \cup Price \cup Wallet \cup {"workspace"}
Argument == [new : Wallet \cup Amount \cup {Keep}, changed : BOOLEAN]
Operation ==
  {"create product", "update product", "delete product", "create price", "update price",
   "delete price", "delete wallet", "delete workspace"}

(* Every variable has its type; in particular every event names a wallet   *)
(* or an amount.                                                           *)
CatalogTypeOK ==
  /\ workspace \in {Never, "present", Gone}
  /\ wallet \in [Wallet -> {Never, "present", Gone}]
  /\ walletOf \in [Product -> Wallet \cup {Never, Gone}]
  /\ amount \in [Price -> Amount \cup {Never, Gone}]
  /\ walletEvents \in Seq([product : Product, wallet : Wallet, stamp : Nat, began : Nat,
                           committed : Nat])
  /\ priceEvents \in Seq([price : Price, amount : Amount])
  /\ request \in [Request -> {Idle} \cup
       [op : Operation, object : Thing, arg : Argument, stamp : Nat, began : Nat,
        told : BOOLEAN, alone : BOOLEAN]]
  /\ disturbed \in SUBSET Thing
  /\ begun \in Nat /\ now \in Nat /\ failures \in Nat

(* Whatever overlaps, a product is paid to a wallet that exists, a price   *)
(* belongs to a product, and nothing outlives its workspace.               *)
NothingDangles ==
  /\ \A p \in Product : Exists(walletOf[p]) => Exists(wallet[walletOf[p]])
  /\ \A r \in Price : Exists(amount[r]) => Exists(walletOf[ProductOf[r]])
  /\ \A w \in Wallet : Exists(wallet[w]) => Exists(workspace)

WalletEventsOf(p) == {i \in DOMAIN walletEvents : walletEvents[i].product = p}

Last(S) == CHOOSE i \in S : \A j \in S : j <= i

(* The last wallet event committed for a product names its wallet, however *)
(* its updates overlap.                                                    *)
WalletAnnounced ==
  \A p \in Product : Exists(walletOf[p]) =>
    /\ WalletEventsOf(p) # {}
    /\ walletEvents[Last(WalletEventsOf(p))].wallet = walletOf[p]

(* The poller sends events in the order of their stamps.  Unless the last  *)
(* two updates of a product overlapped, the event it sends last is the one *)
(* that names the product's wallet, or both came within a second.          *)
NewestEventIsCurrent ==
  \A p \in Product \ disturbed : Exists(walletOf[p]) =>
    LET last == walletEvents[Last(WalletEventsOf(p))]
    IN \A i \in WalletEventsOf(p) \ {Last(WalletEventsOf(p))} :
         \/ walletEvents[i].stamp < last.stamp
         \/ walletEvents[i].stamp = last.stamp /\ walletEvents[i].committed = last.began

(* The contract can be brought up to date from the events.                 *)
WalletEventsCurrent == WalletAnnounced /\ NewestEventIsCurrent

PriceEventsOf(r) == {i \in DOMAIN priceEvents : priceEvents[i].price = r}

(* No price is in force of which the contract will not hear, whatever      *)
(* fails or overlaps.  Price events are committed before the price; still  *)
(* the last of them names the price's amount once no request is under way, *)
(* unless requests overlapped or one failed in between, and then from the  *)
(* next request on that has the price to itself.                           *)
PriceEventsCurrent ==
  \A r \in Price :
    /\ Exists(amount[r]) => \E i \in PriceEventsOf(r) : priceEvents[i].amount = amount[r]
    /\ (r \notin disturbed /\ ~ Busy(r)) =>
         /\ PriceEventsOf(r) # {} => amount[r] # Never
         /\ Exists(amount[r]) => priceEvents[Last(PriceEventsOf(r))].amount = amount[r]

(* Every request is answered, even when all connections of the pool are    *)
(* held by requests that wait for a second one.                            *)
EventuallyAnswered == \A q \in Request : q \in Active ~> q \notin Active
=============================================================================
