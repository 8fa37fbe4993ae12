--------------------------- MODULE AccountProofs ---------------------------
(***************************************************************************)
(* Proofs about Account, for any number of users, browsers, emails,        *)
(* workspaces, requests and failures: its safety properties.               *)
(***************************************************************************)
EXTENDS Account, TLAPS

Argument == Email \cup Workspace \cup DiscordUser \cup {None}

(* A request under way.                                                    *)
UnderWay ==
  [op : Operation, browser : Browser, arg : Argument,
   seen : Email \cup Grant, jwt : Session, serial : Nat,
   phase : {"begun", "obtained", "answered"}, reply : Session, alone : BOOLEAN]

RequestsTyped == request \in [Request -> {Idle} \cup UnderWay]

(* Registering and logging in need no token.                               *)
Unauthenticated == {"register", "login"}

(* What a request was made with fits what it does.                         *)
RequestsSound ==
  \A q \in Active :
    /\ Op(q) \in {"register", "change_email"} => Arg(q) \in Email
    /\ Op(q) = "select" => Arg(q) \in Workspace
    /\ Op(q) = "link" => Arg(q) \in DiscordUser
    /\ Op(q) = "login" => request[q].seen \in Email
    /\ Op(q) = "query" => request[q].seen \in Grant /\ request[q].seen # None
    /\ Op(q) \notin Unauthenticated => request[q].jwt # None
    /\ Op(q) # "register" => email[UserIn(q)] # None
    /\ request[q].phase = "obtained" => Op(q) \in {"link", "query"}

(* A request that has run alone so far is the only one of its user.        *)
AloneIsOnly ==
  \A q, x \in Active : request[q].alone /\ UserIn(x) = UserIn(q) => x = q

(* What a request that has run alone so far has read is still so.          *)
AloneIsCurrent ==
  \A q \in Active : request[q].alone /\ request[q].phase = "begun" =>
    /\ Op(q) \notin Unauthenticated => request[q].jwt = token[UserIn(q)]
    /\ Op(q) = "login" => request[q].seen = email[UserIn(q)]

(* An answer on its way to a user without overlapping requests carries the *)
(* valid token.                                                            *)
AnswerIsCurrent ==
  \A q \in Active : request[q].phase = "answered" /\ UserIn(q) \notin disturbed =>
    request[q].reply = token[UserIn(q)]

(* The valid token is in a browser, or on its way to one.                  *)
Answering(q, u) == q \in Active /\ request[q].phase = "answered" /\ UserIn(q) = u
Held(u) ==
  \/ token[u] = None
  \/ \E b \in Browser : UserOf[b] = u /\ cookie[b] = token[u]
  \/ \E q \in Request : Answering(q, u)
TokenHeld == \A u \in User \ disturbed : Held(u)

SessionInv ==
  /\ AloneIsOnly
  /\ AloneIsCurrent
  /\ AnswerIsCurrent
  /\ TokenHeld
  /\ TokenIsCurrent

(* Grants carry the number of the request they were obtained by, so no two *)
(* are alike.                                                              *)
SerialsFresh ==
  /\ made \in Nat
  /\ \A q \in Active : request[q].serial < made
  /\ \A q, x \in Active : request[q].serial = request[x].serial => q = x
GrantsFresh ==
  /\ \A u \in User : link[u] # None => link[u].serial < made
  /\ \A u \in User, q \in Active : link[u] # None => link[u].serial # request[q].serial
  /\ \A u, v \in User : link[u] # None /\ link[v] # None /\ link[u].serial = link[v].serial => u = v
SeenFresh ==
  \A q \in Active : Op(q) = "query" =>
    /\ request[q].seen.serial < made
    /\ \A x \in Active : request[q].seen.serial # request[x].serial
    /\ \A u \in User : link[u] # None /\ link[u].serial = request[q].seen.serial => u = UserIn(q)

(* Discord takes the refresh token of a grant that is not stored yet.      *)
ObtainedHonoured == \A q \in Active : HasObtained(q) => request[q].serial \in honoured

(* A row that a request has read is still there, and names the account it  *)
(* named then if no callback has come between.                             *)
HasRead(q) == Op(q) = "query" \/ (Op(q) = "link" /\ HasObtained(q))
RowsKept ==
  \A q \in Active : HasRead(q) =>
    /\ request[q].seen \in Grant
    /\ request[q].seen # None => link[UserIn(q)] # None

Undisturbed(q) == IF Op(q) = "link" THEN request[q].alone ELSE UserIn(q) \notin crossed
RowsAgree ==
  \A q \in Active : HasRead(q) /\ Undisturbed(q) =>
    IF request[q].seen = None THEN link[UserIn(q)] = None
    ELSE link[UserIn(q)].id = request[q].seen.id

LinkInv ==
  /\ SerialsFresh
  /\ GrantsFresh
  /\ SeenFresh
  /\ ObtainedHonoured
  /\ RowsKept
  /\ RowsAgree
  /\ LinkHonoured

IndInv ==
  /\ TypeOK
  /\ RequestsTyped
  /\ RequestsSound
  /\ EmailsDiffer
  /\ SessionInv
  /\ LinkInv

-----------------------------------------------------------------------------
(* Requests.                                                               *)

(* A request that is under way after a step was so before, and is the same *)
(* but for its phase, its answer, and the row a callback reads on its way. *)
Kept(q) ==
  /\ q \in Active
  /\ request'[q].op = request[q].op /\ request'[q].browser = request[q].browser
  /\ request'[q].arg = request[q].arg
  /\ request[q].op # "link" => request'[q].seen = request[q].seen
  /\ request'[q].jwt = request[q].jwt /\ request'[q].serial = request[q].serial
  /\ request'[q].alone = request[q].alone

LEMMA NotIdle == ASSUME NEW r \in UnderWay PROVE r # Idle
<1>1. r.op \in Operation /\ Idle.op = None
  BY DEF UnderWay, Idle
<1>2. QED
  BY <1>1, AccountAssumption

LEMMA ActiveTyped ==
  ASSUME RequestsTyped, NEW q \in Active
  PROVE  q \in Request /\ request[q] \in UnderWay /\ UserIn(q) \in User
<1>1. q \in Request /\ request[q] \in UnderWay
  BY DEF RequestsTyped, Active
<1>2. request[q].browser \in Browser
  BY <1>1 DEF UnderWay
<1>3. QED
  BY <1>1, <1>2, AccountAssumption DEF UserIn

LEMMA Ended ==
  ASSUME RequestsTyped, NEW q \in Request, EndRequest(q)
  PROVE  /\ RequestsTyped'
         /\ Active' = Active \ {q}
         /\ \A x \in Active' : Kept(x) /\ request'[x] = request[x]
<1> USE DEF EndRequest, RequestsTyped
<1>1. RequestsTyped' /\ request'[q] = Idle /\ \A x \in Request \ {q} : request'[x] = request[x]
  OBVIOUS
<1>2. Active' = Active \ {q}
  BY <1>1 DEF Active
<1>3. QED
  BY <1>1, <1>2 DEF Kept, Active

LEMMA Proceeded ==
  ASSUME RequestsTyped, NEW q \in Active, NEW p \in {"obtained", "answered"}, NEW t \in Session,
         NEW row \in Email \cup Grant, request[q].op # "link" => row = request[q].seen,
         request' = [request EXCEPT ![q].phase = p, ![q].seen = row, ![q].reply = t]
  PROVE  /\ RequestsTyped'
         /\ Active' = Active
         /\ \A x \in Active : Kept(x)
         /\ \A x \in Active \ {q} : request'[x] = request[x]
         /\ request'[q].phase = p /\ request'[q].seen = row /\ request'[q].reply = t
<1>1. q \in Request /\ request[q] \in UnderWay
  BY ActiveTyped
<1>2. request'[q] = [request[q] EXCEPT !.phase = p, !.seen = row, !.reply = t]
  BY <1>1 DEF RequestsTyped
<1>3. /\ request'[q] \in UnderWay
      /\ request'[q].op = request[q].op /\ request'[q].browser = request[q].browser
      /\ request'[q].arg = request[q].arg
      /\ request'[q].jwt = request[q].jwt /\ request'[q].serial = request[q].serial
      /\ request'[q].alone = request[q].alone
      /\ request'[q].phase = p /\ request'[q].seen = row /\ request'[q].reply = t
  <2> DEFINE r == request[q]
             n == request'[q]
  <2>1. r \in UnderWay /\ n = [r EXCEPT !.phase = p, !.seen = row, !.reply = t]
    BY <1>1, <1>2
  <2> HIDE DEF r, n
  <2>2. /\ n \in UnderWay
        /\ n.op = r.op /\ n.browser = r.browser /\ n.arg = r.arg
        /\ n.jwt = r.jwt /\ n.serial = r.serial /\ n.alone = r.alone
        /\ n.phase = p /\ n.seen = row /\ n.reply = t
    <3> USE <2>1 DEF UnderWay
    <3>1. n \in UnderWay
      OBVIOUS
    <3>2. n.op = r.op /\ n.browser = r.browser /\ n.arg = r.arg
      OBVIOUS
    <3>3. n.jwt = r.jwt
      OBVIOUS
    <3>4. n.serial = r.serial /\ n.alone = r.alone
      OBVIOUS
    <3>5. n.phase = p /\ n.seen = row /\ n.reply = t
      OBVIOUS
    <3>6. QED
      BY <3>1, <3>2, <3>3, <3>4, <3>5
  <2>3. QED
    BY <2>2 DEF r, n
<1>4. \A x \in Request \ {q} : request'[x] = request[x]
  BY <1>1 DEF RequestsTyped
<1>5. RequestsTyped'
  BY <1>1, <1>3, <1>4 DEF RequestsTyped
<1>6. Active' = Active
  BY <1>1, <1>3, <1>4, NotIdle DEF Active
<1>7. QED
  BY <1>3, <1>4, <1>5, <1>6 DEF Kept, Active

LEMMA ObtainedFacts ==
  ASSUME RequestsTyped, NEW q \in Active, NEW row \in Email \cup Grant, Obtained(q, row),
         request[q].op # "link" => row = request[q].seen
  PROVE  /\ RequestsTyped'
         /\ Active' = Active
         /\ \A x \in Active : Kept(x)
         /\ \A x \in Active \ {q} : request'[x] = request[x]
         /\ request'[q].phase = "obtained" /\ request'[q].seen = row
         /\ request'[q].reply = request[q].reply
<1>1. request[q] \in UnderWay /\ q \in Request
  BY ActiveTyped
<1>2. request[q].reply \in Session
  BY <1>1 DEF UnderWay
<1>3. request' = [request EXCEPT ![q].phase = "obtained", ![q].seen = row,
                                 ![q].reply = request[q].reply]
  BY <1>1 DEF Obtained, RequestsTyped, UnderWay
<1>4. QED
  BY <1>2, <1>3, Proceeded

-----------------------------------------------------------------------------
(* Frames.                                                                 *)

LEMMA SoundFrame ==
  ASSUME RequestsSound, \A q \in Active' : Kept(q),
         \A q \in Active' : request'[q].phase = "obtained" =>
           request[q].phase = "obtained" \/ Op(q) \in {"link", "query"},
         \A u \in User : email[u] # None => email'[u] # None,
         \A q \in Active : UserIn(q) \in User
  PROVE  RequestsSound'
BY DEF RequestsSound, Kept, Op, Arg, UserIn

LEMMA LinkFrame ==
  ASSUME LinkInv, UNCHANGED <<discordVars, made>>,
         \A q \in Active' : Kept(q),
         \A q \in Active' : HasObtained(q)' => HasObtained(q) /\ request'[q].seen = request[q].seen,
         \A q \in Active : HasObtained(q) => HasObtained(q)'
  PROVE  LinkInv'
<1> USE DEF LinkInv, discordVars, Kept
<1>1. SerialsFresh' /\ GrantsFresh'
  BY DEF SerialsFresh, GrantsFresh
<1>2. SeenFresh'
  BY DEF SeenFresh, Op, UserIn
<1>3. ObtainedHonoured'
  BY DEF ObtainedHonoured
<1>4. RowsKept' /\ RowsAgree'
  BY DEF RowsKept, RowsAgree, HasRead, Undisturbed, Op, UserIn
<1>5. LinkHonoured'
  BY DEF LinkHonoured, HasObtained, Op
<1>6. QED
  BY <1>1, <1>2, <1>3, <1>4, <1>5

LEMMA SessionFrame ==
  ASSUME SessionInv, UNCHANGED <<accountVars, cookie>>,
         \A q \in Active' : Kept(q),
         \A q \in Active' : request'[q].phase # "obtained" => request'[q] = request[q],
         \A q \in Active : request[q].phase = "answered" => q \in Active' /\ request'[q] = request[q]
  PROVE  SessionInv'
<1> USE DEF SessionInv, accountVars, Kept
<1>1. AloneIsOnly'
  BY DEF AloneIsOnly, UserIn
<1>2. AloneIsCurrent'
  BY DEF AloneIsCurrent, UserIn, Op
<1>3. AnswerIsCurrent'
  BY DEF AnswerIsCurrent, UserIn
<1>4. TokenHeld'
  BY DEF TokenHeld, Held, Answering, UserIn
<1>5. TokenIsCurrent'
  BY DEF TokenIsCurrent
<1>6. QED
  BY <1>1, <1>2, <1>3, <1>4, <1>5

-----------------------------------------------------------------------------
(* A request arrives.                                                      *)

LEMMA BeginFacts ==
  ASSUME RequestsTyped, NEW q \in Request, NEW b \in Browser, NEW op \in Operation,
         NEW arg \in Argument, NEW seen \in Email \cup Grant,
         cookie[b] \in Session, made \in Nat,
         Begin(q, b, op, arg, seen)
  PROVE  /\ RequestsTyped'
         /\ q \notin Active /\ Active' = Active \cup {q}
         /\ \A x \in Active :
              /\ request'[x].op = request[x].op /\ request'[x].browser = request[x].browser
              /\ request'[x].arg = request[x].arg /\ request'[x].seen = request[x].seen
              /\ request'[x].jwt = request[x].jwt /\ request'[x].serial = request[x].serial
              /\ request'[x].phase = request[x].phase /\ request'[x].reply = request[x].reply
              /\ request'[x].alone => request[x].alone /\ UserIn(x) # UserOf[b]
         /\ request'[q].op = op /\ request'[q].browser = b
         /\ request'[q].arg = arg /\ request'[q].seen = seen
         /\ request'[q].jwt = cookie[b] /\ request'[q].serial = made
         /\ request'[q].phase = "begun"
         /\ request'[q].alone => ~ Busy(UserOf[b])
<1> DEFINE n == [op |-> op, browser |-> b, arg |-> arg, seen |-> seen, jwt |-> cookie[b],
                 serial |-> made, phase |-> "begun", reply |-> None, alone |-> ~ Busy(UserOf[b])]
<1>1. /\ q \notin Active /\ request'[q] = n
      /\ \A x \in Active : request'[x] \in {request[x], [request[x] EXCEPT !.alone = FALSE]}
      /\ \A x \in Active : UserIn(x) = UserOf[b] => request'[x] = [request[x] EXCEPT !.alone = FALSE]
      /\ \A x \in Request : x # q /\ x \notin Active => request'[x] = request[x]
      /\ DOMAIN request' = Request /\ request' = [x \in Request |-> request'[x]]
  BY DEF Begin, Active
<1>2. n \in UnderWay
  BY DEF UnderWay, Session
<1>3. \A x \in Active : request[x] \in UnderWay /\ x \in Request
  BY ActiveTyped
<1>4. \A x \in Active :
        /\ request'[x] \in UnderWay
        /\ request'[x].op = request[x].op /\ request'[x].browser = request[x].browser
        /\ request'[x].arg = request[x].arg /\ request'[x].seen = request[x].seen
        /\ request'[x].jwt = request[x].jwt /\ request'[x].serial = request[x].serial
        /\ request'[x].phase = request[x].phase /\ request'[x].reply = request[x].reply
        /\ request'[x].alone => request[x].alone /\ UserIn(x) # UserOf[b]
  <2>1. SUFFICES ASSUME NEW x \in Active
                 PROVE  /\ request'[x] \in UnderWay
                        /\ request'[x].op = request[x].op
                        /\ request'[x].browser = request[x].browser
                        /\ request'[x].arg = request[x].arg /\ request'[x].seen = request[x].seen
                        /\ request'[x].jwt = request[x].jwt
                        /\ request'[x].serial = request[x].serial
                        /\ request'[x].phase = request[x].phase
                        /\ request'[x].reply = request[x].reply
                        /\ request'[x].alone => request[x].alone /\ UserIn(x) # UserOf[b]
    OBVIOUS
  <2> DEFINE r == request[x]
             m == [request[x] EXCEPT !.alone = FALSE]
  <2>2. r \in UnderWay
    BY <1>3
  <2>3. m \in UnderWay /\ m.alone = FALSE /\ m.op = r.op /\ m.browser = r.browser
    BY <2>2 DEF UnderWay
  <2>4. m.arg = r.arg /\ m.seen = r.seen /\ m.jwt = r.jwt
    BY <2>2 DEF UnderWay
  <2>5. m.serial = r.serial /\ m.phase = r.phase /\ m.reply = r.reply
    BY <2>2 DEF UnderWay
  <2>6. request'[x] = m \/ (request'[x] = r /\ UserIn(x) # UserOf[b])
    BY <1>1
  <2> HIDE DEF r, m
  <2>7. CASE request'[x] = m
    BY <2>2, <2>3, <2>4, <2>5, <2>7 DEF r
  <2>8. CASE request'[x] = r /\ UserIn(x) # UserOf[b]
    BY <2>2, <2>8 DEF r
  <2>9. QED
    BY <2>6, <2>7, <2>8
<1>5. RequestsTyped'
  BY <1>1, <1>2, <1>4 DEF RequestsTyped, Active
<1>6. Active' = Active \cup {q}
  BY <1>1, <1>2, <1>3, <1>4, NotIdle DEF Active
<1>7. /\ request'[q].op = op /\ request'[q].browser = b
      /\ request'[q].arg = arg /\ request'[q].seen = seen
      /\ request'[q].jwt = cookie[b] /\ request'[q].serial = made
      /\ request'[q].phase = "begun"
  BY <1>1
<1>8. request'[q].alone => ~ Busy(UserOf[b])
  <2>1. n.alone <=> ~ Busy(UserOf[b])
    OBVIOUS
  <2>2. request'[q].alone = n.alone
    BY <1>1
  <2> HIDE DEF n
  <2>3. QED
    BY <2>1, <2>2
<1> HIDE DEF n
<1>9. QED
  BY <1>1, <1>4, <1>5, <1>6, <1>7, <1>8

(* What is asked of a request that arrives.                                *)
Admitted(b, op, arg, seen) ==
  /\ op \in Operation /\ arg \in Argument /\ seen \in Email \cup Grant
  /\ op \in {"register", "change_email"} => arg \in Email
  /\ op = "select" => arg \in Workspace
  /\ op = "link" => arg \in DiscordUser
  /\ op = "login" => seen = email[UserOf[b]] /\ seen \in Email
  /\ op = "query" => seen = link[UserOf[b]] /\ seen \in Grant /\ seen # None
  /\ op \notin Unauthenticated => cookie[b] # None /\ cookie[b] = token[UserOf[b]]
  /\ op # "register" => email[UserOf[b]] # None

LEMMA ArriveAdmitted ==
  ASSUME TypeOK, NEW q \in Request, NEW b \in Browser, Arrive(q, b)
  PROVE  \E op, arg, seen : Admitted(b, op, arg, seen) /\ Begin(q, b, op, arg, seen)
<1> DEFINE u == UserOf[b]
<1> USE DEF Unauthenticated, Operation, Argument
<1>1. u \in User /\ None \in Grant
  BY AccountAssumption DEF Grant
<1>2. Authenticated(b) => cookie[b] # None /\ cookie[b] = token[u] /\ email[u] # None
  BY <1>1 DEF Authenticated, TypeOK
<1>3. ASSUME NEW e \in Email, BeginRegister(q, b, e)
      PROVE  Admitted(b, "register", e, None) /\ Begin(q, b, "register", e, None)
  BY <1>1, <1>3 DEF BeginRegister, Admitted
<1>4. ASSUME NEW e \in Email, BeginChangeEmail(q, b, e)
      PROVE  Admitted(b, "change_email", e, email[u]) /\ Begin(q, b, "change_email", e, email[u])
  BY <1>1, <1>2, <1>4 DEF BeginChangeEmail, Admitted, TypeOK
<1>5. ASSUME NEW w \in Workspace, BeginSelect(q, b, w)
      PROVE  Admitted(b, "select", w, None) /\ Begin(q, b, "select", w, None)
  BY <1>1, <1>2, <1>5 DEF BeginSelect, Admitted
<1>6. ASSUME BeginLogin(q, b)
      PROVE  Admitted(b, "login", None, email[u]) /\ Begin(q, b, "login", None, email[u])
  BY <1>1, <1>6 DEF BeginLogin, Admitted, TypeOK
<1>7. ASSUME BeginLogout(q, b)
      PROVE  Admitted(b, "logout", None, None) /\ Begin(q, b, "logout", None, None)
  BY <1>1, <1>2, <1>7 DEF BeginLogout, Admitted
<1>8. ASSUME BeginChangeProfile(q, b)
      PROVE  Admitted(b, "change_profile", None, None) /\ Begin(q, b, "change_profile", None, None)
  BY <1>1, <1>2, <1>8 DEF BeginChangeProfile, Admitted
<1>9. ASSUME NEW a \in DiscordUser, BeginLink(q, b, a)
      PROVE  Admitted(b, "link", a, None) /\ Begin(q, b, "link", a, None)
  BY <1>1, <1>2, <1>9 DEF BeginLink, Admitted
<1>10. ASSUME BeginQuery(q, b)
       PROVE  Admitted(b, "query", None, link[u]) /\ Begin(q, b, "query", None, link[u])
  BY <1>1, <1>2, <1>10 DEF BeginQuery, Admitted, TypeOK
<1>11. QED
  BY <1>3, <1>4, <1>5, <1>6, <1>7, <1>8, <1>9, <1>10 DEF Arrive

LEMMA ArriveInd ==
  ASSUME IndInv, NEW q \in Request, NEW b \in Browser, Arrive(q, b)
  PROVE  IndInv'
<1> DEFINE u == UserOf[b]
<1>1. PICK op, arg, seen : Admitted(b, op, arg, seen) /\ Begin(q, b, op, arg, seen)
  BY ArriveAdmitted DEF IndInv
<1>2. /\ made \in Nat /\ made < MaxRequests /\ made' = made + 1 /\ MaxRequests \in Nat
      /\ UNCHANGED <<email, token, selected, disturbed, discordVars, cookie, failures>>
      /\ cookie[b] \in Session /\ u \in User
      /\ op \in Operation /\ arg \in Argument /\ seen \in Email \cup Grant
  BY <1>1, AccountAssumption DEF IndInv, TypeOK, Begin, accountVars, Admitted
<1>3. /\ RequestsTyped'
      /\ q \notin Active /\ Active' = Active \cup {q}
      /\ \A x \in Active :
           /\ request'[x].op = request[x].op /\ request'[x].browser = request[x].browser
           /\ request'[x].arg = request[x].arg /\ request'[x].seen = request[x].seen
           /\ request'[x].jwt = request[x].jwt /\ request'[x].serial = request[x].serial
           /\ request'[x].phase = request[x].phase /\ request'[x].reply = request[x].reply
           /\ request'[x].alone => request[x].alone /\ UserIn(x) # UserOf[b]
      /\ request'[q].op = op /\ request'[q].browser = b
      /\ request'[q].arg = arg /\ request'[q].seen = seen
      /\ request'[q].jwt = cookie[b] /\ request'[q].serial = made
      /\ request'[q].phase = "begun"
      /\ request'[q].alone => ~ Busy(UserOf[b])
  BY <1>1, <1>2, BeginFacts DEF IndInv
<1>4. \A x \in Active : UserIn(x) \in User
  BY ActiveTyped DEF IndInv
<1>5. TypeOK'
  <2>1. \A x \in Active' : /\ request'[x].browser \in Browser
                           /\ request'[x].jwt \in Session /\ request'[x].reply \in Session
                           /\ request'[x].phase \in {"begun", "obtained", "answered"}
    <3>1. \A x \in Active' : request'[x] \in UnderWay
      BY <1>3 DEF RequestsTyped, Active
    <3>2. QED
      BY <3>1 DEF UnderWay
  <2>2. made' \in 0 .. MaxRequests
    BY <1>2
  <2>3. QED
    BY <1>2, <2>1, <2>2 DEF IndInv, TypeOK, discordVars
<1>6. RequestsSound'
  <2>1. SUFFICES ASSUME NEW x \in Active'
                 PROVE  /\ Op(x)' \in {"register", "change_email"} => Arg(x)' \in Email
                        /\ Op(x)' = "select" => Arg(x)' \in Workspace
                        /\ Op(x)' = "link" => Arg(x)' \in DiscordUser
                        /\ Op(x)' = "login" => request'[x].seen \in Email
                        /\ Op(x)' = "query" => request'[x].seen \in Grant /\ request'[x].seen # None
                        /\ Op(x)' \notin Unauthenticated => request'[x].jwt # None
                        /\ Op(x)' # "register" => email[UserIn(x)'] # None
                        /\ request'[x].phase = "obtained" => Op(x)' \in {"link", "query"}
    BY <1>2 DEF RequestsSound
  <2>2. CASE x = q
    BY <1>1, <1>3, <2>2 DEF Admitted, Op, Arg, UserIn
  <2>3. CASE x \in Active
    BY <1>3, <2>3 DEF IndInv, RequestsSound, Op, Arg, UserIn
  <2>4. QED
    BY <1>3, <2>2, <2>3
<1>7. EmailsDiffer'
  BY <1>2 DEF IndInv, EmailsDiffer
<1>8. SessionInv'
  <2>1. AloneIsOnly'
    BY <1>3 DEF IndInv, SessionInv, AloneIsOnly, UserIn, Busy
  <2>2. AloneIsCurrent'
    BY <1>1, <1>2, <1>3 DEF IndInv, SessionInv, AloneIsCurrent, UserIn, Op, Admitted
  <2>3. AnswerIsCurrent'
    BY <1>2, <1>3 DEF IndInv, SessionInv, AnswerIsCurrent, UserIn
  <2>4. TokenHeld'
    BY <1>2, <1>3 DEF IndInv, SessionInv, TokenHeld, Held, Answering, UserIn
  <2>5. TokenIsCurrent'
    BY <1>2 DEF IndInv, SessionInv, TokenIsCurrent
  <2>6. QED
    BY <2>1, <2>2, <2>3, <2>4, <2>5 DEF SessionInv
<1>9. LinkInv'
  <2> USE DEF IndInv, LinkInv, discordVars
  <2>0. \A v \in User : link[v] # None => link[v].serial \in Nat
    BY DEF TypeOK, Grant, Row
  <2>1. \A x \in Active : request[x].serial \in Nat /\ request[x].serial < made
    BY ActiveTyped DEF UnderWay, SerialsFresh
  <2>2. SerialsFresh'
    BY <1>2, <1>3, <2>1 DEF SerialsFresh
  <2>3. GrantsFresh'
    BY <1>2, <1>3, <2>0 DEF GrantsFresh
  <2>4. SeenFresh'
    <3>1. SUFFICES ASSUME NEW x \in Active', Op(x)' = "query"
                   PROVE  /\ request'[x].seen.serial < made'
                          /\ \A y \in Active' : request'[x].seen.serial # request'[y].serial
                          /\ \A v \in User : link[v] # None /\ link[v].serial = request'[x].seen.serial
                                               => v = UserIn(x)'
      BY <1>2 DEF SeenFresh
    <3>2. CASE x = q
      <4>1. request'[x].seen = link[u] /\ link[u] # None /\ UserIn(x)' = u
        BY <1>1, <1>3, <3>1, <3>2 DEF Admitted, Op, UserIn
      <4>2. link[u].serial \in Nat /\ link[u].serial < made
        BY <1>2, <2>0, <4>1 DEF GrantsFresh
      <4>3. \A y \in Active : link[u].serial # request[y].serial
        BY <1>2, <4>1 DEF GrantsFresh
      <4>4. QED
        BY <1>2, <1>3, <4>1, <4>2, <4>3 DEF GrantsFresh
    <3>3. CASE x \in Active
      <4>1. Op(x) = "query" /\ request'[x].seen = request[x].seen /\ UserIn(x)' = UserIn(x)
        BY <1>3, <3>1, <3>3 DEF Op, UserIn
      <4>2. request[x].seen.serial \in Nat /\ request[x].seen.serial < made
        BY <3>3, <4>1 DEF RequestsSound, Grant, Row, SeenFresh
      <4>3. QED
        BY <1>2, <1>3, <3>3, <4>1, <4>2 DEF SeenFresh
    <3>4. QED
      BY <1>3, <3>2, <3>3
  <2>5. ObtainedHonoured'
    BY <1>2, <1>3 DEF ObtainedHonoured, HasObtained
  <2>6. RowsKept' /\ RowsAgree'
    <3>1. SUFFICES ASSUME NEW x \in Active', HasRead(x)'
                   PROVE  /\ request'[x].seen \in Grant
                          /\ request'[x].seen # None => link[UserIn(x)'] # None
                          /\ Undisturbed(x)' =>
                               IF request'[x].seen = None THEN link[UserIn(x)'] = None
                               ELSE link[UserIn(x)'].id = request'[x].seen.id
      BY <1>2 DEF RowsKept, RowsAgree
    <3>2. CASE x = q
      <4>1. request'[x].seen = link[u] /\ link[u] \in Grant /\ link[u] # None /\ UserIn(x)' = u
        BY <1>1, <1>3, <3>1, <3>2 DEF Admitted, Op, UserIn, HasRead, HasObtained
      <4>2. QED
        BY <4>1
    <3>3. CASE x \in Active
      <4>1. /\ HasRead(x) /\ request'[x].seen = request[x].seen /\ UserIn(x)' = UserIn(x)
            /\ Undisturbed(x)' => Undisturbed(x)
        BY <1>2, <1>3, <3>1, <3>3 DEF HasRead, HasObtained, Undisturbed, Op, UserIn
      <4>2. QED
        BY <3>3, <4>1 DEF RowsKept, RowsAgree
    <3>4. QED
      BY <1>3, <3>2, <3>3
  <2>7. LinkHonoured'
    BY <1>2, <1>3 DEF LinkHonoured, HasObtained, Op
  <2>8. QED
    BY <2>2, <2>3, <2>4, <2>5, <2>6, <2>7
<1>10. QED
  BY <1>3, <1>5, <1>6, <1>7, <1>8, <1>9 DEF IndInv

-----------------------------------------------------------------------------
(* A session is changed.                                                   *)

(* A commit that writes token t, which is right if the request was alone.  *)
LEMMA CommitInd ==
  ASSUME IndInv, NEW q \in Active, request[q].phase = "begun", Op(q) \notin {"link", "query"},
         NEW t \in Session, Commit(q, t),
         t # None => t.user = UserIn(q),
         UserIn(q) \notin disturbed' /\ t # None =>
           t.em = email'[UserIn(q)] /\ t.workspace = selected'[UserIn(q)],
         selected' \in [User -> Workspace \cup {None}],
         \A v \in User : v # UserIn(q) => selected'[v] = selected[v],
         email'[UserIn(q)] \in Email
  PROVE  IndInv'
<1> DEFINE u == UserIn(q)
<1>1. /\ q \in Request /\ request[q] \in UnderWay /\ u \in User
      /\ \A x \in Active : UserIn(x) \in User
  BY ActiveTyped DEF IndInv
<1>2. /\ UNCHANGED <<link, honoured, lost, crossed, cookie, made, failures>>
      /\ request' = [request EXCEPT ![q].phase = "answered", ![q].reply = t]
      /\ token' = [token EXCEPT ![u] = t]
      /\ email' = EmailWritten(q) /\ disturbed' = Disturbed(q) /\ ~ Taken(q)
  BY DEF Commit, discordVars, TokenWritten
<1>3. /\ RequestsTyped'
      /\ Active' = Active
      /\ \A x \in Active : Kept(x)
      /\ \A x \in Active \ {q} : request'[x] = request[x]
      /\ request'[q].phase = "answered" /\ request'[q].reply = t
  <2>1. request' = [request EXCEPT ![q].phase = "answered", ![q].seen = request[q].seen,
                                   ![q].reply = t]
    BY <1>1, <1>2 DEF IndInv, RequestsTyped, UnderWay
  <2>2. request[q].seen \in Email \cup Grant
    BY <1>1 DEF UnderWay
  <2>3. QED
    BY <2>1, <2>2, Proceeded DEF IndInv
<1>4. /\ token'[u] = t
      /\ \A v \in User : v # u => token'[v] = token[v] /\ email'[v] = email[v]
                                  /\ (v \in disturbed' <=> v \in disturbed)
      /\ email' \in [User -> Email \cup {None}]
      /\ token' \in [User -> Session]
  <2>1. token'[u] = t /\ token' \in [User -> Session]
        /\ \A v \in User : v # u => token'[v] = token[v]
    BY <1>1, <1>2 DEF IndInv, TypeOK
  <2>2. email' \in [User -> Email \cup {None}] /\ \A v \in User : v # u => email'[v] = email[v]
    BY <1>1, <1>2 DEF IndInv, TypeOK, EmailWritten, WritesEmail, RequestsSound
  <2>3. \A v \in User : v # u => (v \in disturbed' <=> v \in disturbed)
    BY <1>2 DEF Disturbed
  <2>4. QED
    BY <2>1, <2>2, <2>3
<1>5. u \notin disturbed' => request[q].alone
  BY <1>2 DEF Disturbed
<1>6. email'[u] # None
  BY AccountAssumption
<1>7. TypeOK'
  <2>1. \A x \in Active' : /\ request'[x].browser \in Browser
                           /\ request'[x].jwt \in Session /\ request'[x].reply \in Session
                           /\ request'[x].phase \in {"begun", "obtained", "answered"}
    <3>1. \A x \in Active' : request'[x] \in UnderWay
      BY <1>3, ActiveTyped DEF RequestsTyped, Active
    <3>2. QED
      BY <3>1 DEF UnderWay
  <2>2. \A v \in User : token'[v] # None => token'[v].user = v /\ email'[v] # None
    BY <1>4, <1>6 DEF IndInv, TypeOK
  <2>3. disturbed' \in SUBSET User
    BY <1>1, <1>2 DEF IndInv, TypeOK, Disturbed
  <2>4. QED
    BY <1>2, <1>4, <2>1, <2>2, <2>3 DEF IndInv, TypeOK
<1>8. RequestsSound'
  <2>1. \A v \in User : email[v] # None => email'[v] # None
    BY <1>4, <1>6
  <2>2. \A x \in Active' : request'[x].phase = "obtained" => request[x].phase = "obtained"
    BY <1>3
  <2>3. QED
    BY <1>1, <1>3, <2>1, <2>2, SoundFrame DEF IndInv
<1>9. EmailsDiffer'
  <2>1. \A v \in User : v # u => email'[v] # email'[u]
    <3>1. CASE WritesEmail(q)
      <4>1. email'[u] = Arg(q)
        BY <1>1, <1>2, <3>1 DEF IndInv, TypeOK, EmailWritten
      <4>2. QED
        BY <1>2, <1>4, <3>1, <4>1 DEF Taken
    <3>2. CASE ~ WritesEmail(q)
      BY <1>1, <1>2, <1>4, <1>6, <3>2 DEF IndInv, EmailsDiffer, EmailWritten
    <3>3. QED
      BY <3>1, <3>2
  <2>2. QED
    BY <1>1, <1>4, <2>1 DEF IndInv, EmailsDiffer
<1>10. SessionInv'
  <2> USE DEF IndInv, SessionInv
  <2>1. AloneIsOnly'
    BY <1>3 DEF AloneIsOnly, Kept, UserIn
  <2>2. \A x \in Active : request[x].alone /\ x # q => UserIn(x) # u
    BY DEF AloneIsOnly
  <2>3. \A x \in Active : u \notin disturbed' /\ x # q => UserIn(x) # u
    BY <1>5 DEF AloneIsOnly
  <2>4. AloneIsCurrent'
    BY <1>1, <1>3, <1>4, <2>2 DEF AloneIsCurrent, Kept, UserIn, Op
  <2>5. AnswerIsCurrent'
    BY <1>1, <1>3, <1>4, <2>3 DEF AnswerIsCurrent, Kept, UserIn
  <2>6. TokenHeld'
    <3>1. SUFFICES ASSUME NEW v \in User, v \notin disturbed' PROVE Held(v)'
      BY DEF TokenHeld
    <3>2. CASE v = u
      BY <1>1, <1>3, <3>2 DEF Held, Answering, Kept, UserIn
    <3>3. CASE v # u
      <4>1. Held(v) /\ token'[v] = token[v]
        BY <1>4, <3>1, <3>3 DEF TokenHeld
      <4>2. \A x \in Request : Answering(x, v) => Answering(x, v)'
        BY <1>3, <3>3 DEF Answering, Kept, UserIn
      <4>3. QED
        BY <1>2, <4>1, <4>2 DEF Held
    <3>4. QED
      BY <3>2, <3>3
  <2>7. TokenIsCurrent'
    BY <1>1, <1>4 DEF TokenIsCurrent
  <2>8. QED
    BY <2>1, <2>4, <2>5, <2>6, <2>7
<1>11. LinkInv'
  <2>1. \A x \in Active : HasObtained(x) => x # q
    BY DEF HasObtained
  <2>2. \A x \in Active : HasObtained(x) <=> HasObtained(x)'
    BY <1>3 DEF HasObtained
  <2>3. QED
    BY <1>2, <1>3, <2>1, <2>2, LinkFrame DEF IndInv, discordVars
<1>12. QED
  BY <1>3, <1>7, <1>8, <1>9, <1>10, <1>11 DEF IndInv

LEMMA SessionStepInd ==
  ASSUME IndInv, NEW q \in Request,
         Register(q) \/ Login(q) \/ SelectWorkspace(q) \/ Logout(q) \/ Change(q)
  PROVE  IndInv'
<1> DEFINE u == UserIn(q)
           r == request[q]
<1>1. q \in Active /\ r.phase = "begun"
  BY DEF Register, Login, SelectWorkspace, Logout, Change, Begun
<1>2. r \in UnderWay /\ u \in User /\ r.serial \in Nat /\ r.jwt \in Session
  BY <1>1, ActiveTyped DEF IndInv, UnderWay
<1>3. \A e \in Email, w \in Workspace \cup {None} :
        /\ Token(q, e, w) \in Session
        /\ Token(q, e, w).user = u /\ Token(q, e, w).em = e /\ Token(q, e, w).workspace = w
  BY <1>2 DEF Token, Session
<1>4. \A w \in Workspace \cup {None} : Select(q, w) =>
        /\ selected' \in [User -> Workspace \cup {None}] /\ selected'[u] = w
        /\ \A v \in User : v # u => selected'[v] = selected[v]
  BY <1>2 DEF IndInv, TypeOK, Select
<1>5. email[u] \in Email \/ Op(q) = "register"
  BY <1>1, <1>2 DEF IndInv, TypeOK, RequestsSound
<1>6. r.jwt # None => r.jwt.em \in Email /\ r.jwt.workspace \in Workspace \cup {None}
  BY <1>2 DEF Session
<1>7. ASSUME NEW t, Commit(q, t), Op(q) \notin {"register", "change_email"}
      PROVE  email'[u] = email[u]
  BY <1>7 DEF Commit, EmailWritten, WritesEmail
<1>8. ASSUME NEW t, Commit(q, t), u \notin disturbed'
      PROVE  /\ r.alone
             /\ u \in disturbed => Op(q) \in {"register", "login", "logout"}
  BY <1>8 DEF Commit, Disturbed
<1>9. CASE Register(q)
  <2>1. Op(q) = "register" /\ Arg(q) \in Email
    BY <1>1, <1>9 DEF Register, Begun, IndInv, RequestsSound
  <2>2. Commit(q, Token(q, Arg(q), None)) /\ Select(q, None) /\ email'[u] = Arg(q)
    BY <1>2, <1>9, <2>1 DEF Register, Commit, EmailWritten, WritesEmail, IndInv, TypeOK
  <2>3. QED
    BY <1>1, <1>3, <1>4, <2>1, <2>2, CommitInd
<1>10. CASE Login(q)
  <2>1. Op(q) = "login" /\ r.seen \in Email
    BY <1>1, <1>10 DEF Login, Begun, IndInv, RequestsSound
  <2>2. Commit(q, Token(q, r.seen, None)) /\ Select(q, None)
    BY <1>10 DEF Login
  <2>3. email'[u] = email[u] /\ email[u] \in Email
    BY <1>5, <1>7, <2>1, <2>2
  <2>4. u \notin disturbed' => r.seen = email'[u]
    BY <1>1, <1>8, <2>1, <2>2, <2>3 DEF IndInv, SessionInv, AloneIsCurrent
  <2>5. QED
    BY <1>1, <1>3, <1>4, <2>1, <2>2, <2>3, <2>4, CommitInd
<1>11. CASE SelectWorkspace(q)
  <2>1. Op(q) = "select" /\ Arg(q) \in Workspace /\ r.jwt # None
    BY <1>1, <1>11 DEF SelectWorkspace, Begun, IndInv, RequestsSound, Unauthenticated
  <2>2. Commit(q, Token(q, r.jwt.em, Arg(q))) /\ Select(q, Arg(q))
    BY <1>11 DEF SelectWorkspace
  <2>3. email'[u] = email[u] /\ email[u] \in Email
    BY <1>5, <1>7, <2>1, <2>2
  <2>4. u \notin disturbed' => r.jwt.em = email'[u]
    BY <1>1, <1>2, <1>8, <2>1, <2>2, <2>3
       DEF IndInv, SessionInv, AloneIsCurrent, TokenIsCurrent, Unauthenticated
  <2>5. QED
    BY <1>1, <1>3, <1>4, <1>6, <2>1, <2>2, <2>3, <2>4, CommitInd
<1>12. CASE Logout(q)
  <2>1. Op(q) = "logout" /\ Commit(q, None) /\ Select(q, None)
    BY <1>12 DEF Logout, Begun
  <2>2. email'[u] = email[u] /\ email[u] \in Email
    BY <1>5, <1>7, <2>1
  <2>3. None \in Session
    BY DEF Session
  <2>4. QED
    BY <1>1, <1>4, <2>1, <2>2, <2>3, CommitInd
<1>13. CASE Change(q)
  <2>1. Op(q) \in {"change_email", "change_profile"} /\ r.jwt # None
        /\ (Op(q) = "change_email" => Arg(q) \in Email)
    BY <1>1, <1>13 DEF Change, Begun, IndInv, RequestsSound, Unauthenticated
  <2>2. Commit(q, TokenOfChange(q)) /\ selected' = selected
    BY <1>13 DEF Change
  <2>3. email' = EmailWritten(q) /\ email'[u] \in Email
    BY <1>2, <1>5, <2>1, <2>2 DEF Commit, EmailWritten, WritesEmail, IndInv, TypeOK
  <2>4. TokenOfChange(q) = Token(q, email'[u], r.jwt.workspace)
    BY <2>3 DEF TokenOfChange
  <2>5. u \notin disturbed' => r.jwt.workspace = selected[u]
    BY <1>1, <1>2, <1>8, <2>1, <2>2
       DEF IndInv, SessionInv, AloneIsCurrent, TokenIsCurrent, Unauthenticated
  <2>6. selected' \in [User -> Workspace \cup {None}]
    BY <2>2 DEF IndInv, TypeOK
  <2>7. QED
    BY <1>1, <1>3, <1>6, <2>1, <2>2, <2>3, <2>4, <2>5, <2>6, CommitInd
<1>14. QED
  BY <1>9, <1>10, <1>11, <1>12, <1>13

(* What TypeOK says of the requests follows from their types.              *)
LEMMA RequestTypes ==
  ASSUME RequestsTyped
  PROVE  \A q \in Active :
           /\ request[q].browser \in Browser
           /\ request[q].jwt \in Session /\ request[q].reply \in Session
           /\ request[q].phase \in {"begun", "obtained", "answered"}
<1>1. \A q \in Active : request[q] \in UnderWay
  BY ActiveTyped
<1>2. QED
  BY <1>1 DEF UnderWay

(* An answer comes to its browser, or is lost.                             *)
LEMMA AnswerInd ==
  ASSUME IndInv, NEW q \in Request, Receive(q) \/ LoseAnswer(q)
  PROVE  IndInv'
<1> DEFINE u == UserIn(q)
           b == request[q].browser
<1>1. /\ q \in Active /\ request[q].phase = "answered" /\ EndRequest(q)
      /\ UNCHANGED <<email, token, selected, discordVars, made>>
      /\ failures' \in {failures, failures + 1}
      /\ \/ cookie' = [cookie EXCEPT ![b] = request[q].reply] /\ disturbed' = disturbed
         \/ cookie' = cookie /\ disturbed' = disturbed \cup {u}
  BY DEF Receive, LoseAnswer, accountVars, IndInv, TypeOK
<1>2. /\ RequestsTyped'
      /\ Active' = Active \ {q}
      /\ \A x \in Active' : Kept(x) /\ request'[x] = request[x]
  BY <1>1, Ended DEF IndInv
<1>3. /\ request[q] \in UnderWay /\ u \in User
      /\ b \in Browser /\ request[q].reply \in Session /\ u = UserOf[b]
      /\ \A x \in Active : UserIn(x) \in User
  BY <1>1, ActiveTyped, RequestTypes DEF IndInv, UserIn
<1>4. TypeOK'
  <2>1. cookie' \in [Browser -> Session] /\ disturbed' \in SUBSET User /\ failures' \in Nat
    BY <1>1, <1>3 DEF IndInv, TypeOK
  <2>2. \A x \in Active' : /\ request'[x].browser \in Browser
                           /\ request'[x].jwt \in Session /\ request'[x].reply \in Session
                           /\ request'[x].phase \in {"begun", "obtained", "answered"}
    BY <1>2 DEF IndInv, TypeOK
  <2>3. QED
    BY <1>1, <2>1, <2>2 DEF IndInv, TypeOK, discordVars
<1>5. RequestsSound'
  BY <1>1, <1>2, <1>3, SoundFrame DEF IndInv
<1>6. EmailsDiffer'
  BY <1>1 DEF IndInv, EmailsDiffer
<1>7. SessionInv'
  <2> USE DEF IndInv, SessionInv
  <2>1. disturbed \subseteq disturbed'
    BY <1>1
  <2>2. AloneIsOnly' /\ AloneIsCurrent' /\ AnswerIsCurrent' /\ TokenIsCurrent'
    BY <1>1, <1>2, <2>1
       DEF AloneIsOnly, AloneIsCurrent, AnswerIsCurrent, TokenIsCurrent, UserIn, Op
  <2>3. TokenHeld'
    <3>1. SUFFICES ASSUME NEW v \in User, v \notin disturbed' PROVE Held(v)'
      BY DEF TokenHeld
    <3>2. CASE v = u
      <4>1. cookie' = [cookie EXCEPT ![b] = request[q].reply]
        BY <1>1, <3>1, <3>2
      <4>2. request[q].reply = token[u]
        BY <1>1, <3>1, <3>2, <2>1 DEF AnswerIsCurrent
      <4>3. cookie'[b] = token'[v]
        BY <1>1, <1>3, <3>2, <4>1, <4>2 DEF TypeOK
      <4>4. QED
        BY <1>3, <3>2, <4>3 DEF Held
    <3>3. CASE v # u
      <4>1. Held(v) /\ token'[v] = token[v]
        BY <1>1, <2>1, <3>1 DEF TokenHeld
      <4>2. \A x \in Request : Answering(x, v) => Answering(x, v)'
        BY <1>2, <3>3 DEF Answering, UserIn
      <4>3. \A c \in Browser : UserOf[c] = v => cookie'[c] = cookie[c]
        BY <1>1, <1>3, <3>3 DEF TypeOK
      <4>4. QED
        BY <4>1, <4>2, <4>3 DEF Held
    <3>4. QED
      BY <3>2, <3>3
  <2>4. QED
    BY <2>2, <2>3
<1>8. LinkInv'
  <2>1. \A x \in Active : HasObtained(x) => x # q
    BY <1>1 DEF HasObtained
  <2>2. \A x \in Active' : HasObtained(x)' <=> HasObtained(x)
    BY <1>2 DEF HasObtained
  <2>3. QED
    BY <1>1, <1>2, <2>1, <2>2, LinkFrame DEF IndInv
<1>9. QED
  BY <1>2, <1>4, <1>5, <1>6, <1>7, <1>8 DEF IndInv

-----------------------------------------------------------------------------
(* The link to Discord.                                                    *)

(* A request that ends without an answer changes no session.               *)
LEMMA EndsQuietly ==
  ASSUME IndInv, NEW q \in Request, q \in Active, request[q].phase # "answered", EndRequest(q),
         UNCHANGED <<accountVars, cookie, made>>,
         link' \in [User -> Grant], honoured' \in SUBSET Nat, lost' \in SUBSET Nat,
         crossed' \in SUBSET User, failures' \in Nat
  PROVE  TypeOK' /\ RequestsTyped' /\ RequestsSound' /\ EmailsDiffer' /\ SessionInv'
<1>1. /\ RequestsTyped'
      /\ Active' = Active \ {q}
      /\ \A x \in Active' : Kept(x) /\ request'[x] = request[x]
  BY Ended DEF IndInv
<1>2. TypeOK'
  BY <1>1 DEF IndInv, TypeOK, accountVars
<1>3. \A x \in Active : UserIn(x) \in User
  BY ActiveTyped DEF IndInv
<1>4. RequestsSound'
  BY <1>1, <1>3, SoundFrame DEF IndInv, accountVars
<1>5. EmailsDiffer'
  BY DEF IndInv, EmailsDiffer, accountVars
<1>6. SessionInv'
  BY <1>1, SessionFrame DEF IndInv
<1>7. QED
  BY <1>1, <1>2, <1>4, <1>5, <1>6

(* Nothing was obtained from Discord, or what was is lost.                 *)
LEMMA FailInd ==
  ASSUME IndInv, NEW q \in Request,
         Refuse(q) \/ EndQuery(q) \/ NotFound(q) \/ DuplicateLink(q) \/ Fail(q)
  PROVE  IndInv'
<1>1. /\ q \in Active /\ request[q].phase # "answered" /\ EndRequest(q)
      /\ UNCHANGED <<accountVars, cookie, made, link, honoured, crossed>>
      /\ \/ lost' = lost /\ (~ HasObtained(q) \/ Op(q) = "link")
         \/ lost' = lost \cup LostBy(q)
      /\ failures' \in {failures, failures + 1}
  BY DEF Refuse, EndQuery, NotFound, DuplicateLink, InsertFails, Fail, Begun, HasObtained,
     discordVars
<1>2. /\ Active' = Active \ {q}
      /\ \A x \in Active' : Kept(x) /\ request'[x] = request[x]
  BY <1>1, Ended DEF IndInv
<1>3. LostBy(q) \subseteq Nat
  BY <1>1 DEF LostBy, IndInv, RequestsSound, Grant, Row
<1>4. TypeOK' /\ RequestsTyped' /\ RequestsSound' /\ EmailsDiffer' /\ SessionInv'
  <2>1. link' \in [User -> Grant] /\ honoured' \in SUBSET Nat /\ lost' \in SUBSET Nat
    BY <1>1, <1>3 DEF IndInv, TypeOK
  <2>2. failures' \in Nat /\ crossed' \in SUBSET User
    BY <1>1 DEF IndInv, TypeOK
  <2>3. QED
    BY <1>1, <2>1, <2>2, EndsQuietly
<1>5. LinkInv'
  <2> USE DEF IndInv, LinkInv
  <2>1. SerialsFresh' /\ GrantsFresh' /\ SeenFresh' /\ ObtainedHonoured'
    BY <1>1, <1>2
       DEF SerialsFresh, GrantsFresh, SeenFresh, ObtainedHonoured, HasObtained, Op, UserIn
  <2>2. RowsKept' /\ RowsAgree'
    BY <1>1, <1>2 DEF RowsKept, RowsAgree, HasRead, Undisturbed, HasObtained, Op, UserIn
  <2>3. LinkHonoured'
    <3>1. SUFFICES ASSUME NEW v \in User, link[v] # None
                   PROVE  \/ link[v].serial \in honoured \cup lost'
                          \/ \E x \in Active' : /\ HasObtained(x)' /\ Op(x)' = "query"
                                                /\ request'[x].seen.serial = link[v].serial
      BY <1>1 DEF LinkHonoured
    <3>2. CASE link[v].serial \in honoured \cup lost
      BY <1>1, <3>2
    <3>3. ASSUME NEW x \in Active, HasObtained(x), Op(x) = "query",
                 request[x].seen.serial = link[v].serial
          PROVE  \/ link[v].serial \in lost'
                 \/ x \in Active' /\ HasObtained(x)' /\ Op(x)' = "query"
                    /\ request'[x].seen.serial = link[v].serial
      <4>1. CASE x = q
        BY <1>1, <3>3, <4>1 DEF LostBy
      <4>2. CASE x # q
        BY <1>2, <3>3, <4>2 DEF HasObtained, Op
      <4>3. QED
        BY <4>1, <4>2
    <3>4. QED
      BY <3>1, <3>2, <3>3 DEF LinkHonoured
  <2>4. QED
    BY <2>1, <2>2, <2>3
<1>6. QED
  BY <1>4, <1>5 DEF IndInv

(* What is written is a row for the account the grant is of.               *)
LEMMA WrittenFacts ==
  ASSUME IndInv, NEW q \in Active, HasObtained(q)
  PROVE  /\ Written(q) \in Row
         /\ Written(q).serial = request[q].serial /\ Written(q).aad = Holder(q)
<1> USE DEF IndInv, LinkInv
<1>1. request[q].serial \in Nat /\ UserIn(q) \in User /\ request[q].phase = "obtained"
  BY ActiveTyped DEF UnderWay, HasObtained
<1>2. HasRead(q)
  BY <1>1 DEF RequestsSound, HasRead
<1>3. /\ request[q].seen \in Row \cup {None}
      /\ request[q].seen # None => link[UserIn(q)] \in Row
  BY <1>1, <1>2 DEF RowsKept, Grant, TypeOK
<1>4. Holder(q) \in DiscordUser
  BY <1>1, <1>3 DEF Holder, RequestsSound, Row
<1>5. QED
  BY <1>1, <1>3, <1>4 DEF Written, Row

(* A grant is stored: it takes the place of the one that was refreshed.    *)
LEMMA CommitLinkInd ==
  ASSUME IndInv, NEW q \in Request, CommitLink(q)
  PROVE  IndInv'
<1> DEFINE u == UserIn(q)
           s == request[q].serial
<1>1. /\ q \in Active /\ HasObtained(q) /\ request[q].phase = "obtained" /\ EndRequest(q)
      /\ UNCHANGED <<accountVars, cookie, made, honoured, lost, failures>>
      /\ link' = [link EXCEPT ![u] = Written(q)] /\ crossed' = Crossed(q) /\ ~ InsertFails(q)
  BY DEF CommitLink, HasObtained, Stored
<1>2. /\ Active' = Active \ {q}
      /\ \A x \in Active' : Kept(x) /\ request'[x] = request[x]
  BY <1>1, Ended DEF IndInv
<1>3. u \in User /\ s \in Nat /\ \A x \in Active : request[x].serial \in Nat
  BY <1>1, ActiveTyped DEF IndInv, UnderWay
<1>4. /\ link' \in [User -> Grant] /\ link'[u] # None /\ link'[u].serial = s
      /\ link'[u].aad = Holder(q) /\ link'[u].id = Written(q).id
      /\ \A v \in User : v # u => link'[v] = link[v]
  BY <1>1, <1>3, WrittenFacts, AccountAssumption DEF IndInv, TypeOK, Grant
<1>5. TypeOK' /\ RequestsTyped' /\ RequestsSound' /\ EmailsDiffer' /\ SessionInv'
  <2>1. /\ honoured' \in SUBSET Nat /\ lost' \in SUBSET Nat /\ failures' \in Nat
        /\ crossed' \in SUBSET User
    BY <1>1, <1>3 DEF IndInv, TypeOK, Crossed
  <2>2. QED
    BY <1>1, <1>4, <2>1, EndsQuietly
<1>6. LinkInv'
  <2> USE DEF IndInv, LinkInv
  <2>1. SerialsFresh'
    BY <1>1, <1>2 DEF SerialsFresh
  <2>2. GrantsFresh'
    BY <1>1, <1>2, <1>4 DEF GrantsFresh, SerialsFresh
  <2>3. SeenFresh'
    BY <1>1, <1>2, <1>4 DEF SeenFresh, Op, UserIn
  <2>4. ObtainedHonoured'
    BY <1>1, <1>2 DEF ObtainedHonoured, HasObtained
  <2>5. RowsKept'
    BY <1>1, <1>2, <1>4 DEF RowsKept, HasRead, HasObtained, Op, UserIn
  <2>6. RowsAgree'
    <3>1. SUFFICES ASSUME NEW x \in Active', HasRead(x), Undisturbed(x)', UserIn(x) = u
                   PROVE  request[x].seen # None /\ link'[u].id = request[x].seen.id
      <4>1. ASSUME NEW x \in Active', UserIn(x) # u
            PROVE  /\ UserIn(x)' = UserIn(x) /\ request'[x].seen = request[x].seen
                   /\ (HasRead(x)' <=> HasRead(x)) /\ (Undisturbed(x)' => Undisturbed(x))
        BY <1>1, <1>2, <4>1 DEF HasRead, HasObtained, Undisturbed, Op, UserIn, Crossed
      <4>2. ASSUME NEW x \in Active'
            PROVE  /\ UserIn(x)' = UserIn(x) /\ request'[x].seen = request[x].seen
                   /\ (HasRead(x)' <=> HasRead(x)) /\ UserIn(x) \in User
        BY <1>2, <4>2, ActiveTyped DEF HasRead, HasObtained, Op, UserIn
      <4>3. QED
        BY <1>2, <1>4, <4>1, <4>2 DEF RowsAgree
    <3>2. x \in Active /\ x # q
      BY <1>2
    <3>3. ~ request[x].alone /\ ~ request[q].alone
      BY <1>1, <3>1, <3>2 DEF SessionInv, AloneIsOnly
    <3>4. Op(x) = "query" /\ u \notin crossed'
      BY <1>2, <3>1, <3>3 DEF HasRead, Undisturbed, Op, UserIn
    <3>5. Op(q) = "query" /\ u \notin crossed
      BY <1>1, <3>3, <3>4 DEF Crossed, RequestsSound
    <3>6. link'[u].id = link[u].id
      BY <1>1, <1>4, <3>5 DEF Written, Holder, RequestsSound
    <3>7. QED
      BY <1>1, <3>1, <3>2, <3>4, <3>5, <3>6
         DEF RowsAgree, RequestsSound, HasRead, Undisturbed
  <2>7. u \notin crossed' => Decrypts(link'[u])
    <3>1. SUFFICES ASSUME u \notin crossed' PROVE Written(q).id = Holder(q)
      BY <1>4 DEF Decrypts
    <3>2. HasRead(q) /\ Undisturbed(q)
      BY <1>1, <3>1 DEF HasRead, Undisturbed, Crossed, RequestsSound
    <3>3. QED
      BY <1>1, <3>2 DEF RowsAgree, Written
  <2>8. LinkHonoured'
    <3>1. SUFFICES ASSUME NEW v \in User, link'[v] # None
                   PROVE  \/ link'[v].serial \in honoured \cup lost
                          \/ \E x \in Active' : /\ HasObtained(x)' /\ Op(x)' = "query"
                                                /\ request'[x].seen.serial = link'[v].serial
      <4>1. \A v \in User : link'[v] # None => (v \notin crossed' => Decrypts(link'[v]))
        BY <1>1, <1>4, <2>7 DEF LinkHonoured, Crossed
      <4>2. QED
        BY <1>1, <4>1 DEF LinkHonoured, Decrypts
    <3>2. CASE v = u
      BY <1>1, <1>4, <3>2 DEF ObtainedHonoured
    <3>3. CASE v # u
      <4>1. link'[v] = link[v]
        BY <1>4, <3>3
      <4>2. \A x \in Active : HasObtained(x) /\ Op(x) = "query"
              /\ request[x].seen.serial = link[v].serial => x # q
        BY <3>1, <3>3, <4>1 DEF SeenFresh
      <4>3. \A x \in Active' : (HasObtained(x) <=> HasObtained(x)') /\ (Op(x)' = Op(x))
              /\ request'[x].seen = request[x].seen
        BY <1>2 DEF HasObtained, Op
      <4>4. QED
        BY <1>2, <3>1, <4>1, <4>2, <4>3 DEF LinkHonoured
    <3>4. QED
      BY <3>2, <3>3
  <2>9. QED
    BY <2>1, <2>2, <2>3, <2>4, <2>5, <2>6, <2>8
<1>7. QED
  BY <1>5, <1>6 DEF IndInv

(* A grant is obtained, for a code or for the refresh token that was read. *)
LEMMA ObtainInd ==
  ASSUME IndInv, NEW q \in Request, ExchangeCode(q) \/ RefreshAccessToken(q)
  PROVE  IndInv'
<1> DEFINE s == request[q].serial
           row == IF Op(q) = "link" THEN link[UserIn(q)] ELSE request[q].seen
           old == IF Op(q) = "query" THEN {request[q].seen.serial} ELSE {}
<1>1. /\ q \in Active /\ request[q].phase = "begun" /\ Op(q) \in {"link", "query"}
      /\ Obtained(q, row)
      /\ UNCHANGED <<accountVars, link, lost, crossed, cookie, made, failures>>
      /\ honoured' = (honoured \ old) \cup {s}
  BY DEF ExchangeCode, RefreshAccessToken, NeedsRefresh, Begun
<1>2. /\ RequestsTyped'
      /\ Active' = Active
      /\ \A x \in Active : Kept(x)
      /\ \A x \in Active \ {q} : request'[x] = request[x]
      /\ request'[q].phase = "obtained" /\ request'[q].seen = row
      /\ request'[q].reply = request[q].reply
  <2>1. row \in Grant /\ (request[q].op # "link" => row = request[q].seen)
    BY <1>1, ActiveTyped DEF IndInv, TypeOK, RequestsSound, Op
  <2>2. QED
    BY <1>1, <2>1, ObtainedFacts DEF IndInv
<1>3. s \in Nat /\ \A x \in Active : UserIn(x) \in User
  BY <1>1, ActiveTyped DEF IndInv, UnderWay
<1>4. TypeOK'
  <2>1. honoured' \in SUBSET Nat
    BY <1>1, <1>3 DEF IndInv, TypeOK
  <2>2. QED
    BY <1>1, <1>2, <2>1, RequestTypes DEF IndInv, TypeOK, accountVars, Kept
<1>5. RequestsSound'
  BY <1>1, <1>2, <1>3, SoundFrame DEF IndInv, accountVars
<1>6. EmailsDiffer'
  BY <1>1 DEF IndInv, EmailsDiffer, accountVars
<1>7. SessionInv'
  BY <1>1, <1>2, SessionFrame DEF IndInv
<1>8. LinkInv'
  <2> USE DEF IndInv, LinkInv
  <2>1. SerialsFresh' /\ GrantsFresh'
    BY <1>1, <1>2 DEF SerialsFresh, GrantsFresh, Kept
  <2>2. SeenFresh'
    BY <1>1, <1>2 DEF SeenFresh, Op, UserIn, Kept
  <2>3. ObtainedHonoured'
    <3>1. SUFFICES ASSUME NEW x \in Active, HasObtained(x)' PROVE request[x].serial \in honoured'
      BY <1>2 DEF ObtainedHonoured, Kept
    <3>2. CASE x = q
      BY <1>1, <3>2
    <3>3. CASE x # q
      <4>1. request[x].serial \in honoured
        BY <1>2, <3>1, <3>3 DEF ObtainedHonoured, HasObtained
      <4>2. request[x].serial \notin old
        BY <1>1 DEF SeenFresh
      <4>3. QED
        BY <1>1, <4>1, <4>2
    <3>4. QED
      BY <3>2, <3>3
  <2>4. RowsKept' /\ RowsAgree'
    <3>1. SUFFICES ASSUME NEW x \in Active, HasRead(x)'
                   PROVE  /\ request'[x].seen \in Grant
                          /\ request'[x].seen # None => link[UserIn(x)] # None
                          /\ Undisturbed(x)' =>
                               IF request'[x].seen = None THEN link[UserIn(x)] = None
                               ELSE link[UserIn(x)].id = request'[x].seen.id
      BY <1>1, <1>2 DEF RowsKept, RowsAgree, Kept, UserIn
    <3>2. Undisturbed(x)' => Undisturbed(x)
      BY <1>1, <1>2 DEF Undisturbed, Kept, Op, UserIn
    <3>3. CASE x = q /\ Op(q) = "link"
      BY <1>2, <1>3, <3>3 DEF TypeOK
    <3>4. CASE x # q \/ Op(q) # "link"
      <4>1. HasRead(x) /\ request'[x].seen = request[x].seen
        BY <1>1, <1>2, <3>1, <3>4 DEF HasRead, HasObtained, Kept, Op
      <4>2. QED
        BY <3>2, <4>1 DEF RowsKept, RowsAgree
    <3>5. QED
      BY <3>3, <3>4
  <2>5. LinkHonoured'
    <3>1. SUFFICES ASSUME NEW v \in User, link[v] # None
                   PROVE  \/ link[v].serial \in honoured' \cup lost
                          \/ \E x \in Active : /\ HasObtained(x)' /\ Op(x)' = "query"
                                               /\ request'[x].seen.serial = link[v].serial
      BY <1>1, <1>2 DEF LinkHonoured
    <3>2. CASE link[v].serial \in old
      <4>1. Op(q) = "query" /\ request[q].seen.serial = link[v].serial
        BY <3>2
      <4>2. HasObtained(q)' /\ Op(q)' = "query" /\ request'[q].seen.serial = link[v].serial
        BY <1>1, <1>2, <4>1 DEF HasObtained, Op, Kept
      <4>3. QED
        BY <1>1, <4>2
    <3>3. CASE link[v].serial \notin old
      <4>1. \A x \in Active : HasObtained(x) =>
              HasObtained(x)' /\ Op(x)' = Op(x) /\ request'[x].seen = request[x].seen
        BY <1>1, <1>2 DEF HasObtained, Op, Kept
      <4>2. QED
        BY <1>1, <3>1, <3>3, <4>1 DEF LinkHonoured
    <3>4. QED
      BY <3>2, <3>3
  <2>6. QED
    BY <2>1, <2>2, <2>3, <2>4, <2>5
<1>9. QED
  BY <1>2, <1>4, <1>5, <1>6, <1>7, <1>8 DEF IndInv

(* A token that expires keeps its refresh token.                           *)
LEMMA ExpireInd ==
  ASSUME IndInv, NEW u \in User, Expire(u)
  PROVE  IndInv'
<1> USE DEF IndInv
<1>1. /\ UNCHANGED <<accountVars, honoured, lost, crossed, cookie, request, made, failures>>
      /\ link' = [link EXCEPT ![u].fresh = FALSE] /\ link[u] # None
  BY DEF Expire
<1>2. /\ link' \in [User -> Grant]
      /\ \A v \in User : (link'[v] # None <=> link[v] # None)
      /\ \A v \in User : link[v] # None =>
           /\ link'[v].serial = link[v].serial
           /\ link'[v].id = link[v].id /\ link'[v].aad = link[v].aad
  <2>1. link[u] \in Row
    BY <1>1 DEF TypeOK, Grant
  <2>2. link'[u] = [link[u] EXCEPT !.fresh = FALSE] /\ \A v \in User : v # u => link'[v] = link[v]
    BY <1>1 DEF TypeOK
  <2>3. /\ link'[u] \in Row /\ link'[u].serial = link[u].serial
        /\ link'[u].id = link[u].id /\ link'[u].aad = link[u].aad
    BY <2>1, <2>2 DEF Row
  <2>4. link' \in [User -> Grant]
    BY <1>1, <2>2, <2>3 DEF TypeOK, Grant
  <2>5. link'[u] # None
    BY <2>3, AccountAssumption
  <2>6. QED
    BY <1>1, <2>2, <2>3, <2>4, <2>5
<1>3. Active' = Active
  BY <1>1 DEF Active
<1>4. TypeOK'
  BY <1>1, <1>2, <1>3 DEF TypeOK, accountVars
<1>5. RequestsTyped' /\ RequestsSound' /\ EmailsDiffer'
  BY <1>1, <1>3 DEF RequestsTyped, RequestsSound, EmailsDiffer, accountVars, Op, Arg, UserIn
<1>6. SessionInv'
  BY <1>1, <1>3, SessionFrame DEF Kept
<1>7. LinkInv'
  BY <1>1, <1>2, <1>3 DEF LinkInv, SerialsFresh, GrantsFresh, SeenFresh, ObtainedHonoured,
     RowsKept, RowsAgree, HasRead, Undisturbed, LinkHonoured, Decrypts, HasObtained, Op, UserIn
<1>8. QED
  BY <1>1, <1>4, <1>5, <1>6, <1>7

-----------------------------------------------------------------------------
(* Init establishes the inductive invariant.                               *)
LEMMA InitInd == Init => IndInv
<1> SUFFICES ASSUME Init PROVE IndInv
  OBVIOUS
<1> USE DEF Init
<1>1. Active = {}
  BY DEF Active
<1>2. TypeOK
  BY <1>1, AccountAssumption DEF TypeOK, Session, Grant
<1>3. RequestsTyped /\ RequestsSound /\ EmailsDiffer
  BY <1>1 DEF RequestsTyped, RequestsSound, EmailsDiffer
<1>4. SessionInv
  BY <1>1 DEF SessionInv, AloneIsOnly, AloneIsCurrent, AnswerIsCurrent, TokenHeld, Held,
     TokenIsCurrent
<1>5. LinkInv
  BY <1>1 DEF LinkInv, SerialsFresh, GrantsFresh, SeenFresh, ObtainedHonoured, RowsKept,
     RowsAgree, LinkHonoured
<1>6. QED
  BY <1>2, <1>3, <1>4, <1>5 DEF IndInv

(* Every step preserves the inductive invariant.                           *)
LEMMA NextInd ==
  ASSUME IndInv, [Next]_vars
  PROVE  IndInv'
<1>1. CASE UNCHANGED vars
  <2> USE <1>1 DEF vars, accountVars, discordVars
  <2>1. Active' = Active
    BY DEF Active
  <2>2. TypeOK' /\ RequestsTyped' /\ RequestsSound' /\ EmailsDiffer'
    BY <2>1
       DEF IndInv, TypeOK, RequestsTyped, RequestsSound, EmailsDiffer, Op, Arg, UserIn
  <2>3. SessionInv'
    BY <2>1, SessionFrame DEF IndInv, Kept
  <2>4. LinkInv'
    BY <2>1, LinkFrame DEF IndInv, Kept, HasObtained
  <2>5. QED
    BY <2>2, <2>3, <2>4 DEF IndInv
<1>2. CASE Next
  <2>1. ASSUME NEW q \in Request, Proceed(q) PROVE IndInv'
    BY <2>1, SessionStepInd, FailInd, ObtainInd, CommitLinkInd DEF Proceed
  <2>2. ASSUME NEW q \in Request, Receive(q) \/ LoseAnswer(q) PROVE IndInv'
    BY <2>2, AnswerInd
  <2>3. ASSUME NEW q \in Request, NotFound(q) \/ Fail(q) PROVE IndInv'
    BY <2>3, FailInd
  <2>4. QED
    BY <1>2, <2>1, <2>2, <2>3, ArriveInd, ExpireInd DEF Next
<1>3. QED
  BY <1>1, <1>2

(* The inductive invariant holds in every reachable state.                 *)
THEOREM Inductive == Spec => []IndInv
<1>1. Init => IndInv
  BY InitInd
<1>2. IndInv /\ [Next]_vars => IndInv'
  BY NextInd
<1>3. QED
  BY <1>1, <1>2, PTL DEF Spec

(* Every reachable state is type-correct; whoever has a token has          *)
(* registered.                                                             *)
THEOREM TypeCorrect == Spec => []TypeOK
<1>1. IndInv => TypeOK
  BY DEF IndInv
<1>2. QED
  BY <1>1, Inductive, PTL

(* No two users get one email, whatever requests overlap.                  *)
THEOREM EmailsUnique == Spec => []EmailsDiffer
<1>1. IndInv => EmailsDiffer
  BY DEF IndInv
<1>2. QED
  BY <1>1, Inductive, PTL

(* The valid token of a user whose requests did not overlap says what was  *)
(* committed last.                                                         *)
THEOREM TokenRight == Spec => []TokenIsCurrent
<1>1. IndInv => TokenIsCurrent
  BY DEF IndInv, SessionInv
<1>2. QED
  BY <1>1, Inductive, PTL

(* The valid token of such a user is in one of the user's browsers.        *)
THEOREM TokenInBrowser == Spec => []SessionHeld
<1>1. IndInv => SessionHeld
  <2>1. SUFFICES ASSUME IndInv, NEW u \in User, u \notin disturbed, ~ Busy(u), token[u] # None
                 PROVE  \E b \in Browser : UserOf[b] = u /\ cookie[b] = token[u]
    BY DEF SessionHeld
  <2>2. \A q \in Request : ~ Answering(q, u)
    BY <2>1 DEF Busy, Answering
  <2>3. QED
    BY <2>1, <2>2 DEF IndInv, SessionInv, TokenHeld, Held
<1>2. QED
  BY <1>1, Inductive, PTL

(* A stored refresh token that Discord does not take was used up by a      *)
(* request that is under way, or has failed; and a row that cannot be      *)
(* decrypted is the work of a callback that overlapped another request.    *)
THEOREM LinkKept == Spec => []LinkHonoured
<1>1. IndInv => LinkHonoured
  BY DEF IndInv, LinkInv
<1>2. QED
  BY <1>1, Inductive, PTL

(* A step that makes a token valid where there was none is a login, a      *)
(* registration, or an overlapping request.                                *)
LEMMA LogoutStep ==
  ASSUME IndInv, [Next]_vars, NEW u \in User, token[u] = None, token'[u] # None
  PROVE  \/ u \in disturbed'
         \/ \E q \in Active : UserIn(q) = u /\ (Begun(q, "register") \/ Begun(q, "login"))
<1>1. PICK q \in Request :
        Register(q) \/ Login(q) \/ SelectWorkspace(q) \/ Logout(q) \/ Change(q)
  BY DEF Next, vars, accountVars, Arrive, Proceed, BeginRegister, BeginLogin, BeginSelect,
     BeginLogout, BeginChangeEmail, BeginChangeProfile, BeginLink, BeginQuery, Begin, Receive,
     LoseAnswer, NotFound, Fail, Refuse, ExchangeCode, RefreshAccessToken, EndQuery, CommitLink,
     DuplicateLink, Expire
<1>2. PICK t : Commit(q, t)
  BY <1>1 DEF Register, Login, SelectWorkspace, Logout, Change
<1>3. q \in Active /\ request[q].phase = "begun" /\ token' = [token EXCEPT ![UserIn(q)] = t]
  BY <1>1, <1>2 DEF Register, Login, SelectWorkspace, Logout, Change, Begun, Commit, TokenWritten
<1>4. UserIn(q) = u
  BY <1>3 DEF IndInv, TypeOK
<1>5. CASE Op(q) \in Unauthenticated
  BY <1>3, <1>4, <1>5 DEF Begun, Unauthenticated
<1>6. CASE Op(q) \notin Unauthenticated
  <2>1. request[q].jwt # None
    BY <1>3, <1>6 DEF IndInv, RequestsSound
  <2>2. ~ request[q].alone
    BY <1>3, <1>4, <1>6, <2>1 DEF IndInv, SessionInv, AloneIsCurrent
  <2>3. QED
    BY <1>2, <1>4, <2>2 DEF Commit, Disturbed
<1>7. QED
  BY <1>5, <1>6

(* After a logout only a login makes a token valid, or a request that      *)
(* overlapped the logout.                                                  *)
THEOREM LogoutRespected == Spec => LogoutHolds
<1>1. IndInv /\ [Next]_vars =>
        [\A u \in User : (token[u] = None /\ token'[u] # None) =>
           \/ u \in disturbed'
           \/ \E q \in Active : UserIn(q) = u /\ (Begun(q, "register") \/ Begun(q, "login"))]_vars
  BY LogoutStep
<1>2. QED
  BY <1>1, Inductive, PTL DEF Spec, LogoutHolds
=============================================================================
