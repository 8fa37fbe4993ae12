------------------------------ MODULE Account ------------------------------
(***************************************************************************)
(* The sessions of the users and their link to Discord: the requests of    *)
(* auth/router.py and discord/router.py with AuthService, UserService,     *)
(* JWTService and the owner's part of DiscordService.                      *)
(*                                                                         *)
(* A user has one valid token, in column jwt_token.  Almost every request  *)
(* replaces it: it checks the token its browser sent, writes a new one,    *)
(* commits, and answers with the new one as a cookie.  What it writes is   *)
(* invisible and locked until the commit, so both are one step.  Requests  *)
(* of one user may overlap, in two browsers or two tabs of one.            *)
(*                                                                         *)
(* Usernames and passwords are left out: ChangeProfile is the change of    *)
(* either.  Tokens do not expire.  The definitions no other one refers to  *)
(* (AnyToken, MadeFromCookie, CookieOnly, Unstored) are faulty variants of *)
(* their successors; see the README.                                       *)
(***************************************************************************)
EXTENDS Naturals

CONSTANTS
  User, Browser, Email, Workspace,
  DiscordUser,  \* accounts at Discord
  None,         \* no token, no workspace, no row
  UserOf,       \* the user of each browser
  Request,      \* requests that may run at the same time
  MaxRequests,  \* bound: requests
  MaxFailures   \* bound: exceptions of a call and answers that are lost

Operation ==
  {"register", "login", "select", "logout", "change_email", "change_profile", "link", "query"}

(* A row of user_discord_access_tokens: its discord_user_id, the one its   *)
(* payload was encrypted for, the refresh token in it, known by the number *)
(* of the request it was obtained by, and whether the access token has not *)
(* expired.                                                                *)
Row == [id : DiscordUser, aad : DiscordUser, serial : Nat, fresh : BOOLEAN]

ASSUME AccountAssumption ==
  /\ UserOf \in [Browser -> User]
  /\ None \notin Email \cup Workspace \cup DiscordUser \cup Operation
  /\ None \notin Row
  /\ MaxRequests \in Nat /\ MaxFailures \in Nat

VARIABLES
  email,      \* User.email; none before the user has registered
  token,      \* User.jwt_token
  cookie,     \* the token each browser holds
  link,       \* the owner's row in table user_discord_access_tokens
  honoured,   \* refresh tokens Discord would take
  request,    \* what each request does, and what it has read
  made,       \* requests made so far
  selected,   \* the workspace last selected in the user's session
  disturbed,  \* users with overlapping requests or a lost answer since the
              \* last login or logout they had to themselves
  lost,       \* refresh tokens whose replacement was not committed
  crossed,    \* users whose last callback overlapped another of their requests
  failures    \* failures so far

accountVars == <<email, token, selected, disturbed>>
discordVars == <<link, honoured, lost, crossed>>
vars == <<accountVars, discordVars, cookie, request, made, failures>>

Idle == [op |-> None]
Active == {q \in Request : request[q] # Idle}
Op(q) == request[q].op
UserIn(q) == UserOf[request[q].browser]
Arg(q) == request[q].arg

Init ==
  /\ email = [u \in User |-> None]
  /\ token = [u \in User |-> None]
  /\ cookie = [b \in Browser |-> None]
  /\ link = [u \in User |-> None]
  /\ honoured = {}
  /\ request = [q \in Request |-> Idle]
  /\ made = 0
  /\ selected = [u \in User |-> None]
  /\ disturbed = {}
  /\ lost = {}
  /\ crossed = {}
  /\ failures = 0

-----------------------------------------------------------------------------
(* A request begins: the token and what the services read are read.        *)

Busy(u) == \E q \in Active : UserIn(q) = u

Begin(q, b, op, arg, seen) ==
  /\ request[q] = Idle
  /\ made < MaxRequests
  /\ request' = [x \in Request |->
       IF x = q
       THEN [op |-> op, browser |-> b, arg |-> arg, seen |-> seen, jwt |-> cookie[b],
             serial |-> made, phase |-> "begun", reply |-> None, alone |-> ~ Busy(UserOf[b])]
       ELSE IF x \in Active /\ UserIn(x) = UserOf[b]
       THEN [request[x] EXCEPT !.alone = FALSE]
       ELSE request[x]]
  /\ made' = made + 1
  /\ UNCHANGED <<accountVars, discordVars, cookie, failures>>

AnyToken(b) == cookie[b] # None

(* validate_jwt: the token is the one stored.                              *)
Authenticated(b) == cookie[b] # None /\ cookie[b] = token[UserOf[b]]

Free(e) == \A u \in User : email[u] # e

BeginRegister(q, b, e) ==
  /\ email[UserOf[b]] = None
  /\ \A x \in Active : Op(x) = "register" => UserIn(x) # UserOf[b]
  /\ Free(e)
  /\ Begin(q, b, "register", e, None)

(* verify_credentials reads the user, and the email the token will name.   *)
BeginLogin(q, b) ==
  /\ email[UserOf[b]] # None
  /\ Begin(q, b, "login", None, email[UserOf[b]])

BeginSelect(q, b, w) == Authenticated(b) /\ Begin(q, b, "select", w, None)

BeginLogout(q, b) == Authenticated(b) /\ Begin(q, b, "logout", None, None)

(* The user's own email, which is read, may be given again.                *)
BeginChangeEmail(q, b, e) ==
  /\ Authenticated(b)
  /\ Free(e) \/ email[UserOf[b]] = e
  /\ Begin(q, b, "change_email", e, email[UserOf[b]])

BeginChangeProfile(q, b) == Authenticated(b) /\ Begin(q, b, "change_profile", None, None)

(* The user has admitted the application with the Discord account a.       *)
BeginLink(q, b, a) == Authenticated(b) /\ Begin(q, b, "link", a, None)

(* get_me, get_guilds and those that call it: the stored token is read.    *)
BeginQuery(q, b) ==
  /\ Authenticated(b)
  /\ link[UserOf[b]] # None
  /\ Begin(q, b, "query", None, link[UserOf[b]])

-----------------------------------------------------------------------------
(* Sessions.                                                               *)

Begun(q, op) == q \in Active /\ Op(q) = op /\ request[q].phase = "begun"

Token(q, e, w) == [user |-> UserIn(q), em |-> e, workspace |-> w, serial |-> request[q].serial]

(* An email that is the one read is not written.                           *)
WritesEmail(q) == Op(q) = "register" \/ (Op(q) = "change_email" /\ Arg(q) # request[q].seen)

(* The unique email of table users: another request was faster.            *)
Taken(q) ==
  /\ WritesEmail(q)
  /\ \E u \in User \ {UserIn(q)} : email[u] = Arg(q)

EmailWritten(q) == IF WritesEmail(q) THEN [email EXCEPT ![UserIn(q)] = Arg(q)] ELSE email

MadeFromCookie(q) == Token(q, request[q].jwt.em, request[q].jwt.workspace)

(* The token of a changed profile names the email as it is committed.      *)
TokenOfChange(q) == Token(q, EmailWritten(q)[UserIn(q)], request[q].jwt.workspace)

CookieOnly(q, t) == IF t = None THEN token ELSE [token EXCEPT ![UserIn(q)] = t]

TokenWritten(q, t) == [token EXCEPT ![UserIn(q)] = t]

Disturbed(q) ==
  IF ~ request[q].alone THEN disturbed \cup {UserIn(q)}
  ELSE IF Op(q) \in {"register", "login", "logout"} THEN disturbed \ {UserIn(q)}
  ELSE disturbed

(* The commit, and the answer with its cookie on its way to the browser.   *)
Commit(q, t) ==
  /\ ~ Taken(q)
  /\ email' = EmailWritten(q)
  /\ token' = TokenWritten(q, t)
  /\ disturbed' = Disturbed(q)
  /\ request' = [request EXCEPT ![q].phase = "answered", ![q].reply = t]
  /\ UNCHANGED <<discordVars, cookie, made, failures>>

Select(q, w) == selected' = [selected EXCEPT ![UserIn(q)] = w]

Register(q) == Begun(q, "register") /\ Commit(q, Token(q, Arg(q), None)) /\ Select(q, None)

Login(q) == Begun(q, "login") /\ Commit(q, Token(q, request[q].seen, None)) /\ Select(q, None)

SelectWorkspace(q) ==
  /\ Begun(q, "select")
  /\ Commit(q, Token(q, request[q].jwt.em, Arg(q)))
  /\ Select(q, Arg(q))

Logout(q) == Begun(q, "logout") /\ Commit(q, None) /\ Select(q, None)

Change(q) ==
  /\ Begun(q, "change_email") \/ Begun(q, "change_profile")
  /\ Commit(q, TokenOfChange(q))
  /\ UNCHANGED selected

EndRequest(q) == request' = [request EXCEPT ![q] = Idle]

Refuse(q) ==
  /\ q \in Active /\ request[q].phase = "begun"
  /\ Taken(q)
  /\ EndRequest(q)
  /\ UNCHANGED <<accountVars, discordVars, cookie, made, failures>>

Receive(q) ==
  /\ q \in Active /\ request[q].phase = "answered"
  /\ cookie' = [cookie EXCEPT ![request[q].browser] = request[q].reply]
  /\ EndRequest(q)
  /\ UNCHANGED <<accountVars, discordVars, made, failures>>

(* The answer does not reach the browser.                                  *)
LoseAnswer(q) ==
  /\ q \in Active /\ request[q].phase = "answered"
  /\ failures < MaxFailures
  /\ failures' = failures + 1
  /\ disturbed' = disturbed \cup {UserIn(q)}
  /\ EndRequest(q)
  /\ UNCHANGED <<email, token, selected, discordVars, cookie, made>>

-----------------------------------------------------------------------------
(* The link to Discord.                                                    *)

Expire(u) ==
  /\ link[u] # None /\ link[u].fresh
  /\ link' = [link EXCEPT ![u].fresh = FALSE]
  /\ UNCHANGED <<accountVars, honoured, lost, crossed, cookie, request, made, failures>>

(* A new grant, and the row that store_oauth_payload works on.             *)
Obtained(q, row) ==
  request' = [request EXCEPT ![q].phase = "obtained", ![q].seen = row]

(* handle_callback: the code is exchanged for a grant, and the row read.   *)
ExchangeCode(q) ==
  /\ Begun(q, "link")
  /\ honoured' = honoured \cup {request[q].serial}
  /\ Obtained(q, link[UserIn(q)])
  /\ UNCHANGED <<accountVars, link, lost, crossed, cookie, made, failures>>

(* decrypt takes a payload that was encrypted for the account of the row.  *)
Decrypts(row) == row.aad = row.id

NeedsRefresh(q) ==
  /\ Begun(q, "query")
  /\ Decrypts(request[q].seen)
  /\ ~ request[q].seen.fresh

(* Discord takes a refresh token once, and gives a new one.  The row is    *)
(* the object get_access_token has read; it is not read again.             *)
RefreshAccessToken(q) ==
  /\ NeedsRefresh(q)
  /\ request[q].seen.serial \in honoured
  /\ honoured' = (honoured \ {request[q].seen.serial}) \cup {request[q].serial}
  /\ Obtained(q, request[q].seen)
  /\ UNCHANGED <<accountVars, link, lost, crossed, cookie, made, failures>>

(* The token needs no refresh; or the row cannot be decrypted, or another  *)
(* request has used the refresh token, which raises.                       *)
EndQuery(q) ==
  /\ Begun(q, "query")
  /\ NeedsRefresh(q) => request[q].seen.serial \notin honoured
  /\ EndRequest(q)
  /\ UNCHANGED <<accountVars, discordVars, cookie, made, failures>>

HasObtained(q) == q \in Active /\ request[q].phase = "obtained"

(* The Discord account of the grant: the callback's, or the row's.         *)
Holder(q) == IF Op(q) = "link" THEN Arg(q) ELSE request[q].seen.id

(* Of the row that was read, what differs is written: payload always, and  *)
(* discord_user_id if it is another account's than the one read.           *)
Written(q) ==
  LET row == request[q].seen IN
  [id |-> IF row # None /\ row.id = Holder(q) THEN link[UserIn(q)].id ELSE Holder(q),
   aad |-> Holder(q), serial |-> request[q].serial, fresh |-> TRUE]

Unstored(q) ==
  IF Op(q) = "link" THEN [link EXCEPT ![UserIn(q)] = Written(q)] ELSE link

(* store_oauth_payload, over whatever has been stored since the read.      *)
Stored(q) == [link EXCEPT ![UserIn(q)] = Written(q)]

(* The primary key of user_discord_access_tokens: there was no row to      *)
(* read, and another callback has inserted one.                            *)
InsertFails(q) == Op(q) = "link" /\ request[q].seen = None /\ link[UserIn(q)] # None

Crossed(q) ==
  IF Op(q) # "link" THEN crossed
  ELSE IF request[q].alone THEN crossed \ {UserIn(q)} ELSE crossed \cup {UserIn(q)}

CommitLink(q) ==
  /\ HasObtained(q)
  /\ ~ InsertFails(q)
  /\ link' = Stored(q)
  /\ crossed' = Crossed(q)
  /\ EndRequest(q)
  /\ UNCHANGED <<accountVars, honoured, lost, cookie, made, failures>>

DuplicateLink(q) ==
  /\ HasObtained(q)
  /\ InsertFails(q)
  /\ EndRequest(q)
  /\ UNCHANGED <<accountVars, discordVars, cookie, made, failures>>

LostBy(q) == IF HasObtained(q) /\ Op(q) = "query" THEN {request[q].seen.serial} ELSE {}

(* A guild, channel or role that is not the owner's raises after the token *)
(* was refreshed, and the new one is rolled back.                          *)
NotFound(q) ==
  /\ HasObtained(q) /\ Op(q) = "query"
  /\ lost' = lost \cup LostBy(q)
  /\ EndRequest(q)
  /\ UNCHANGED <<accountVars, link, honoured, crossed, cookie, made, failures>>

(* An exception of a call before the commit.                               *)
Fail(q) ==
  /\ q \in Active /\ request[q].phase # "answered"
  /\ failures < MaxFailures
  /\ failures' = failures + 1
  /\ lost' = lost \cup LostBy(q)
  /\ EndRequest(q)
  /\ UNCHANGED <<accountVars, link, honoured, crossed, cookie, made>>

Arrive(q, b) ==
  \/ \E e \in Email : BeginRegister(q, b, e) \/ BeginChangeEmail(q, b, e)
  \/ \E w \in Workspace : BeginSelect(q, b, w)
  \/ BeginLogin(q, b) \/ BeginLogout(q, b) \/ BeginChangeProfile(q, b)
  \/ \E a \in DiscordUser : BeginLink(q, b, a)
  \/ BeginQuery(q, b)

Proceed(q) ==
  \/ Register(q) \/ Login(q) \/ SelectWorkspace(q) \/ Logout(q) \/ Change(q) \/ Refuse(q)
  \/ ExchangeCode(q) \/ RefreshAccessToken(q) \/ EndQuery(q) \/ CommitLink(q)
  \/ DuplicateLink(q)

Next ==
  \/ \E q \in Request :
       \/ Proceed(q) \/ Receive(q) \/ LoseAnswer(q) \/ NotFound(q) \/ Fail(q)
       \/ \E b \in Browser : Arrive(q, b)
  \/ \E u \in User : Expire(u)

Spec == Init /\ [][Next]_vars

-----------------------------------------------------------------------------
(* Properties.                                                             *)

Session ==
  [user : User, em : Email, workspace : Workspace \cup {None}, serial : Nat] \cup {None}
Grant == Row \cup {None}

(* Every variable has its type; whoever has a token has registered.        *)
TypeOK ==
  /\ email \in [User -> Email \cup {None}]
  /\ token \in [User -> Session]
  /\ \A u \in User : token[u] # None => token[u].user = u /\ email[u] # None
  /\ cookie \in [Browser -> Session]
  /\ link \in [User -> Grant]
  /\ honoured \in SUBSET Nat /\ lost \in SUBSET Nat
  /\ \A q \in Active :
       /\ request[q].browser \in Browser
       /\ request[q].jwt \in Session /\ request[q].reply \in Session
       /\ request[q].phase \in {"begun", "obtained", "answered"}
  /\ selected \in [User -> Workspace \cup {None}]
  /\ disturbed \in SUBSET User /\ crossed \in SUBSET User
  /\ made \in 0 .. MaxRequests /\ failures \in Nat

(* No two users have one email, though it is looked up before it is        *)
(* written and two registrations or changes may find it free.              *)
EmailsDiffer ==
  \A u, v \in User : u # v /\ email[u] # None => email[u] # email[v]

(* The user's token names the user's email and the workspace last          *)
(* selected, however often it was replaced, unless requests overlapped:    *)
(* each copies what the token it was sent with says.                       *)
TokenIsCurrent ==
  \A u \in User \ disturbed : token[u] # None =>
    token[u].em = email[u] /\ token[u].workspace = selected[u]

(* A session does not get out of hand: while no request of the user is     *)
(* under way, the valid token is in one of the user's browsers, and a      *)
(* logout has left none.                                                   *)
SessionHeld ==
  \A u \in User \ disturbed : ~ Busy(u) =>
    token[u] = None \/ \E b \in Browser : UserOf[b] = u /\ cookie[b] = token[u]

(* After a logout only a login makes a token valid, whatever tokens are    *)
(* left in other browsers, unless a request that had been admitted before  *)
(* the logout commits after it.                                            *)
LogoutHolds ==
  [][\A u \in User : (token[u] = None /\ token'[u] # None) =>
       \/ u \in disturbed'
       \/ \E q \in Active : UserIn(q) = u /\ (Begun(q, "register") \/ Begun(q, "login"))]_vars

(* Discord would take the stored refresh token, or a request has used it   *)
(* up: one still under way, which will store the replacement, or one that  *)
(* failed and lost it.  And the row can be decrypted, unless the user's    *)
(* last callback overlapped another request of the user.  Overlapping      *)
(* queries alone lose nothing.                                             *)
LinkHonoured ==
  \A u \in User : link[u] # None =>
    /\ \/ link[u].serial \in honoured \cup lost
       \/ \E q \in Active :
            HasObtained(q) /\ Op(q) = "query" /\ request[q].seen.serial = link[u].serial
    /\ u \notin crossed => Decrypts(link[u])
=============================================================================
