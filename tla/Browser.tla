------------------------------- MODULE Browser --------------------------------
(***************************************************************************)
(* A browser and the HTTP layer between it and the tokens: the handlers    *)
(* Login, Refresh, Logout and GetProfile, the cookie they set and delete,  *)
(* the access token they hand out (jwtService) and the middleware that     *)
(* looks at it.                                                            *)
(*                                                                         *)
(* The refresh tokens themselves are those of TokenLedger, which           *)
(* RefreshTokens implements: what a handler does to them happens at one    *)
(* instant, between the arrival of its request and its answer.  Requests   *)
(* of one browser overlap, answers overtake each other or are lost         *)
(* (Server.Run gives the connection deadlines), and a COMMIT may take      *)
(* effect although the handler is told that it failed.  Of an answer, the  *)
(* browser obeys Set-Cookie when the headers come; the page reads the      *)
(* access token out of the body later, or never.                           *)
(*                                                                         *)
(* The clock ticks in fractions of a second, because the exp claim of a    *)
(* JWT has whole seconds only.                                             *)
(***************************************************************************)
EXTENDS TokenLedger, FiniteSets

CONSTANTS
    Request,        \* the requests the browser may have under way at once
    Malformed,      \* the value of a cookie that is no UUID
    AccessDuration, \* JWT_DURATION, in ticks of the clock
    Second,         \* ticks in a second
    MaxTime         \* bound: the clock stops here

ASSUME BrowserNoneIsNothing == None \notin User \cup Token \cup Request \cup Nat
ASSUME BrowserMalformedIsNoToken == Malformed \notin Token \cup {None}
ASSUME BrowserDurationsArePositive ==
    /\ Duration \in Nat \ {0}
    /\ AccessDuration \in Nat \ {0}
    /\ Second \in Nat \ {0}
    /\ MaxTime \in Nat

AccessToken == [user: User, signed: Nat, expires: Nat]
Kind == {"login", "refresh", "logout", "profile"}
Cookie == Token \cup {None, Malformed}
Response == [status: {200, 204, 401, 403, 404, 500}, sets: Token \cup {None},
             clears: BOOLEAN, access: AccessToken \cup {None}]

ASSUME BrowserNoneIsNoRecord ==
    None \notin [user: User, expires: Nat] \cup AccessToken \cup Response

VARIABLES
    jar,        \* the value of the cookie auth_cookie, or None
    access,     \* the access token the page has kept, or None
    kind,       \* what the request asks for; "none" when there is none
    about,      \* the user who signs in, or whose profile is asked for
    cookie,     \* the cookie that went with the request
    bearer,     \* the access token that went with it
    began,      \* when its handler began, or None
    answer,     \* the response on its way, or None
    body,       \* the access token in a body whose headers have come, or None
    rotated,    \* history: the tokens that were rotated
    refused,    \* history: the least beginning of a Refresh answered 401
    spoilt,     \* history: see HeldTokenIsGood
    quiet,      \* history: the logins and logouts nothing else overlapped, see Send
    signedOut,  \* history: when the answer to such a logout came, or None
    identity    \* history: "crossed" when other requests overlapped a login, "stale"
                \*          while the page reads the answer to one, else "one"

server == <<now, ledger, gone, rotated, refused>>
local == <<about, bearer, began>>
browser == <<jar, access, body, spoilt, quiet, signedOut, identity>>
vars == <<server, kind, cookie, local, answer, browser>>

BrowserTypeOK ==
    /\ now \in 0..MaxTime
    /\ ledger \in [Token -> [user: User, expires: Nat] \cup {None}]
    /\ gone \subseteq Token
    /\ jar \in Cookie
    /\ access \in AccessToken \cup {None}
    /\ kind \in [Request -> Kind \cup {"none"}]
    /\ about \in [Request -> User \cup {None}]
    /\ cookie \in [Request -> Cookie]
    /\ bearer \in [Request -> AccessToken \cup {None}]
    /\ began \in [Request -> 0..MaxTime \cup {None}]
    /\ answer \in [Request -> Response \cup {None}]
    /\ body \in [Request -> AccessToken \cup {None}]
    /\ rotated \subseteq Token
    /\ refused \in [Token -> 0..MaxTime \cup {None}]
    /\ spoilt \subseteq Token
    /\ quiet \subseteq Request
    /\ signedOut \in 0..MaxTime \cup {None}
    /\ identity \in {"one", "stale", "crossed"}

Init ==
    /\ LedgerInit
    /\ jar = None
    /\ access = None
    /\ kind = [r \in Request |-> "none"]
    /\ about = [r \in Request |-> None]
    /\ cookie = [r \in Request |-> None]
    /\ bearer = [r \in Request |-> None]
    /\ began = [r \in Request |-> None]
    /\ answer = [r \in Request |-> None]
    /\ body = [r \in Request |-> None]
    /\ rotated = {}
    /\ refused = [t \in Token |-> None]
    /\ spoilt = {}
    /\ quiet = {}
    /\ signedOut = None
    /\ identity = "one"

-----------------------------------------------------------------------------
\* Requests whose answer may bring a new cookie.
SigningIn == {r \in Request : kind[r] \in {"login", "refresh"}}

\* Requests whose answer the page is still reading.
Reading == {r \in Request : body[r] # None}

\* Whether a new request of this kind and a login overlap.
Crosses(k) ==
    \/ k = "login" /\ SigningIn \cup Reading # {}
    \/ k = "refresh" /\ \E q \in SigningIn : kind[q] = "login"

\* Bound: a request that will call uuid.New() is sent only while there is an id
\* for it and for every other on its way there.
IdsLeft == Cardinality({r \in SigningIn : answer[r] = None})
               < Cardinality(Token \ (Existing \cup gone))

\* The browser sends its cookie, of which only Refresh and Logout take notice; the
\* page adds the access token when it asks for a profile.
Send(r, k, u) ==
    /\ kind[r] = "none"
    /\ body[r] = None
    /\ k \in {"login", "refresh"} => IdsLeft
    /\ kind' = [kind EXCEPT ![r] = k]
    /\ about' = [about EXCEPT ![r] = u]
    /\ cookie' = [cookie EXCEPT ![r] = IF k \in {"refresh", "logout"} THEN jar ELSE None]
    /\ bearer' = [bearer EXCEPT ![r] = IF k = "profile" THEN access ELSE None]
    /\ quiet' = CASE k = "refresh" \/ Crosses(k) -> {}
                  [] k = "login" /\ ~ Crosses(k) -> {r}
                  [] k = "logout" /\ SigningIn = {} -> quiet \cup {r}
                  [] OTHER -> quiet
    /\ signedOut' = IF k = "login" THEN None ELSE signedOut
    /\ identity' = IF Crosses(k) THEN "crossed" ELSE identity
    /\ UNCHANGED <<server, began, answer, jar, access, body, spoilt>>

\* The handler looks at the credentials, or begins its transaction.
Begin(r) ==
    /\ kind[r] \in {"login", "refresh"}
    /\ began[r] = None
    /\ answer[r] = None
    /\ began' = [began EXCEPT ![r] = now]
    /\ UNCHANGED <<server, kind, about, cookie, bearer, answer, browser>>

Handling(r, k) ==
    /\ kind[r] = k
    /\ answer[r] = None
    /\ k \in {"login", "refresh"} => began[r] # None

-----------------------------------------------------------------------------
\* The status for a domain error.
StatusOf(code) ==
    CASE code = "InvalidInput" -> 400
      [] code = "Unauthenticated" -> 401
      [] code = "PermissionDenied" -> 403
      [] code = "ResourceNotFound" -> 404
      [] code = "AlreadyExists" -> 409
      [] code = "InvalidState" -> 422

Reply(status, sets, clears, token) ==
    [status |-> status, sets |-> sets, clears |-> clears, access |-> token]

\* What a ClientErr says, or a body without tokens: the status, and no cookie.
Plain(status) == Reply(status, None, FALSE, None)

\* SetCookie, and then the body.
Welcome(t, a) == Reply(200, t, FALSE, a)

\* Mutant of Farewell: DeleteCookie on success only.
MutantForgetsOnSuccess(status) == Reply(status, None, status = 204, None)

\* DeleteCookie, whatever became of the token.
Farewell(status) == Reply(status, None, TRUE, None)

\* Mutant of Failure: an error of the database is taken for a missing token.
MutantFailureRefuses(k) ==
    CASE k = "logout" -> Farewell(500)
      [] k = "refresh" -> Plain(StatusOf("Unauthenticated"))
      [] OTHER -> Plain(500)

\* HandleError of any other error.
Failure(k) == IF k = "logout" THEN Farewell(500) ELSE Plain(500)

\* The history of refusals, when r is answered with this status.
Refusals(r, status) ==
    LET t == cookie[r]
    IN  IF /\ kind[r] = "refresh"
           /\ status = 401
           /\ t \in Token
           /\ refused[t] = None \/ began[r] < refused[t]
        THEN [refused EXCEPT ![t] = began[r]]
        ELSE refused

\* The response leaves, and what the handler knew is forgotten.
Respond(r, response) ==
    /\ answer' = [answer EXCEPT ![r] = response]
    /\ refused' = Refusals(r, response.status)
    /\ about' = [about EXCEPT ![r] = None]
    /\ bearer' = [bearer EXCEPT ![r] = None]
    /\ began' = [began EXCEPT ![r] = None]

\* Mutant of Report: SetCookie before the error is looked at.
MutantCookieAnyway(r, response) ==
    \/ Respond(r, response)
    \/ Respond(r, Reply(500, response.sets, response.clears, None))

\* The work is done; the handler may still be told that it is not.
Report(r, response) == Respond(r, response) \/ Respond(r, Failure(kind[r]))

\* Mutant of Expires: rounded to the nearest second.
MutantRounded(signed) == ((signed + AccessDuration + Second \div 2) \div Second) * Second

\* jwt.NewNumericDate drops the fraction of the second.
Expires(signed) == ((signed + AccessDuration) \div Second) * Second

\* A token for u, signed while the request was being handled.
Signed(r, u) ==
    {[user |-> u, signed |-> s, expires |-> Expires(s)] : s \in began[r]..now}

\* A row built while the request was being handled.
BuiltMeanwhile(r, t) == ledger'[t].expires >= began[r] + Duration

-----------------------------------------------------------------------------
\* Login and LoginWithOtp: the credentials are good ...
SignIn(r, t) ==
    /\ Handling(r, "login")
    /\ Issue(t, about[r])
    /\ BuiltMeanwhile(r, t)
    /\ \E a \in Signed(r, about[r]) : Report(r, Welcome(t, a))
    /\ UNCHANGED <<rotated, kind, cookie, browser>>

\* ... or not: no such user, a wrong password, or a code that does not match.
RefuseSignIn(r) ==
    /\ Handling(r, "login")
    /\ \E code \in {"Unauthenticated", "ResourceNotFound"} : Respond(r, Plain(StatusOf(code)))
    /\ UNCHANGED <<now, ledger, gone, rotated, kind, cookie, browser>>

\* Mutant of Refresh: no SetCookie, as if the token were the same for ever.
MutantSameCookie(r, s) ==
    /\ Handling(r, "refresh")
    /\ cookie[r] \in Token
    /\ Rotate(cookie[r], s)
    /\ ledger'[cookie[r]].expires = began[r]
    /\ BuiltMeanwhile(r, s)
    /\ rotated' = rotated \cup {cookie[r]}
    /\ \E a \in Signed(r, ledger[cookie[r]].user) : Report(r, Reply(200, None, FALSE, a))
    /\ UNCHANGED <<kind, cookie, browser>>

\* Refresh: the transaction commits.
Refresh(r, s) ==
    /\ Handling(r, "refresh")
    /\ cookie[r] \in Token
    /\ Rotate(cookie[r], s)
    /\ ledger'[cookie[r]].expires = began[r]
    /\ BuiltMeanwhile(r, s)
    /\ rotated' = rotated \cup {cookie[r]}
    /\ \E a \in Signed(r, ledger[cookie[r]].user) : Report(r, Welcome(s, a))
    /\ UNCHANGED <<kind, cookie, browser>>

\* There is no cookie, or it is malformed, or its token is unknown, revoked or has
\* expired.  The answer leaves the cookie where it is.
RefuseRefresh(r) ==
    /\ Handling(r, "refresh")
    /\ cookie[r] \in Existing => ledger[cookie[r]].expires <= began[r]
    /\ Respond(r, Plain(StatusOf("Unauthenticated")))
    /\ UNCHANGED <<now, ledger, gone, rotated, kind, cookie, browser>>

\* Logout: the row is deleted, if there is one and a cookie to name it.  A malformed
\* cookie is refused, and deleted all the same.
Logout(r) ==
    /\ Handling(r, "logout")
    /\ IF cookie[r] \in Existing THEN Revoke({cookie[r]}, ledger[cookie[r]].user)
                                 ELSE UNCHANGED <<now, ledger, gone>>
    /\ \/ cookie[r] \in Token /\ Report(r, Farewell(204))
       \/ cookie[r] = None /\ Respond(r, Farewell(204))
       \/ cookie[r] = Malformed /\ Respond(r, Farewell(StatusOf("Unauthenticated")))
    /\ UNCHANGED <<rotated, kind, cookie, browser>>

\* ValidateAccessToken, on the clock of the server.
Validates(a) == a # None /\ now < a.expires

\* Authenticate, and for the right user the profile.
ProfileStatus(a, u) ==
    CASE ~Validates(a) -> StatusOf("Unauthenticated")
      [] Validates(a) /\ a.user # u -> StatusOf("PermissionDenied")
      [] Validates(a) /\ a.user = u -> 200

GetProfile(r) ==
    /\ Handling(r, "profile")
    /\ Respond(r, Plain(ProfileStatus(bearer[r], about[r])))
    /\ UNCHANGED <<now, ledger, gone, rotated, kind, cookie, browser>>

-----------------------------------------------------------------------------
\* Whether the handler comes to ask the database.
Asking(r) ==
    \/ Handling(r, "login")
    \/ \E k \in {"refresh", "logout"} : Handling(r, k) /\ cookie[r] \in Token
    \/ Handling(r, "profile") /\ ProfileStatus(bearer[r], about[r]) = 200

\* Nothing is done, and the handler knows.
Fail(r) ==
    /\ Asking(r)
    /\ Respond(r, Failure(kind[r]))
    /\ UNCHANGED <<now, ledger, gone, rotated, kind, cookie, browser>>

Over(r) ==
    /\ kind' = [kind EXCEPT ![r] = "none"]
    /\ cookie' = [cookie EXCEPT ![r] = None]
    /\ answer' = [answer EXCEPT ![r] = None]
    /\ quiet' = quiet \ {r}
    /\ UNCHANGED local

\* A refresh or logout that may have ended its token, and the browser cannot tell.
Spoils(r) == IF kind[r] \in {"refresh", "logout"} THEN {cookie[r]} \cap Token ELSE {}

\* The headers come, in whatever order, and the browser does as they say.
Receive(r) ==
    LET a == answer[r]
    IN  /\ a # None
        /\ jar' = IF a.clears THEN None ELSE IF a.sets # None THEN a.sets ELSE jar
        /\ body' = [body EXCEPT ![r] = a.access]
        /\ spoilt' = IF a.status = 500 THEN spoilt \cup Spoils(r) ELSE spoilt
        /\ signedOut' = IF r \in quiet /\ kind[r] = "logout" /\ signedOut = None
                         THEN now ELSE signedOut
        /\ identity' = IF r \in quiet /\ kind[r] = "login" /\ a.access # None
                        THEN "stale" ELSE identity
        /\ Over(r)
        /\ UNCHANGED <<server, access>>

\* The connection breaks, or the deadline for writing has passed.
Lose(r) ==
    /\ answer[r] # None
    /\ spoilt' = spoilt \cup Spoils(r)
    /\ Over(r)
    /\ UNCHANGED <<server, jar, access, body, signedOut, identity>>

\* The page reads the body, in whatever order ...
Read(r) ==
    /\ body[r] # None
    /\ access' = body[r]
    /\ body' = [body EXCEPT ![r] = None]
    /\ identity' = IF identity = "stale" THEN "one" ELSE identity
    /\ UNCHANGED <<server, kind, cookie, local, answer, jar, spoilt, quiet, signedOut>>

\* ... or it is lost after the headers, and the new cookie has come alone.
LoseBody(r) ==
    /\ body[r] # None
    /\ body' = [body EXCEPT ![r] = None]
    /\ UNCHANGED <<server, kind, cookie, local, answer, jar, access, spoilt, quiet, signedOut,
                   identity>>

\* The Max-Age of the cookie has passed, the user clears it, or it is overwritten with
\* something that is no UUID.
DropCookie ==
    /\ jar # None
    /\ jar' \in {None, Malformed} \ {jar}
    /\ UNCHANGED <<server, kind, cookie, local, answer, access, body, spoilt, quiet, signedOut,
                   identity>>

\* A password reset, from wherever.
Elsewhere(S, u) ==
    /\ S # {}
    /\ Revoke(S, u)
    /\ spoilt' = spoilt \cup S
    /\ UNCHANGED <<rotated, refused, kind, cookie, local, answer, jar, access, body, quiet,
                   signedOut, identity>>

Tick ==
    /\ now < MaxTime
    /\ TimePasses
    /\ UNCHANGED <<rotated, refused, kind, cookie, local, answer, browser>>

Asks(r) ==
    \/ \E k \in {"login", "profile"}, u \in User : Send(r, k, u)
    \/ \E k \in {"refresh", "logout"} : Send(r, k, None)

Handles(r) ==
    \/ Begin(r)
    \/ \E t \in Token : SignIn(r, t) \/ Refresh(r, t)
    \/ RefuseSignIn(r)
    \/ RefuseRefresh(r)
    \/ Logout(r)
    \/ GetProfile(r)
    \/ Fail(r)

Next ==
    \/ Tick
    \/ DropCookie
    \/ \E S \in SUBSET Existing, u \in User : Elsewhere(S, u)
    \/ \E r \in Request : Asks(r) \/ Handles(r) \/ Receive(r) \/ Lose(r) \/ Read(r) \/ LoseBody(r)

Spec == Init /\ [][Next]_vars

-----------------------------------------------------------------------------
\* Rotation must not lock an honest browser out.  However its requests overlap
\* and the answers overtake each other, the token in its cookie has not been
\* rotated or revoked, unless the answer to a Refresh or Logout that carried it
\* is still to come, was lost or was a 500, or somebody else revoked it.  That a
\* body is lost, or read late, does not lock it out.
HeldTokenIsGood ==
    jar \in rotated \cup gone =>
        \/ jar \in spoilt
        \/ \E r \in Request : kind[r] \in {"refresh", "logout"} /\ cookie[r] = jar

\* Cookie and access token are of one user, although the cookie comes with the headers
\* and the token is read later or never, however many refreshes and logouts overlap
\* and whatever is lost.  Excepted are the moments between the two parts of the answer
\* to a login ("stale"), and a login that is overlapped by another or by a refresh
\* ("crossed"), until the next that is not.
OneIdentity ==
    identity = "one" /\ jar \in Existing /\ access # None => ledger[jar].user = access.user

\* Logout, if no sign-in or refresh overlaps it, is the end whatever it answers:
\* the browser has no cookie from then on until it signs in again, and an access
\* token it may still have, which no logout revokes, ends within JWT_DURATION.
SignedOutStaysOut ==
    signedOut # None =>
        /\ jar = None
        /\ access # None => access.expires <= signedOut + AccessDuration

\* A 401 from Refresh is final: a client may throw its session away.  No refresh
\* of that token which begins later succeeds, although the handlers of earlier
\* ones may still be at work.
RefusalIsFinal ==
    [][\A r \in Request :
          /\ answer[r] = None /\ answer'[r] # None
          /\ kind[r] = "refresh"
          /\ cookie[r] \in Token
          /\ refused[cookie[r]] # None
          /\ began[r] >= refused[cookie[r]]
          => answer'[r].sets = None /\ ledger' = ledger]_vars

\* An access token opens its user's profile for JWT_DURATION from the moment it
\* was signed, short of less than a second, and nobody else's.
AccessIsTimely ==
    [][\A r \in Request :
          answer[r] = None /\ answer'[r] # None /\ bearer[r] # None =>
              LET end == bearer[r].signed + AccessDuration
              IN  CASE answer'[r].status = 200 -> now < end /\ about[r] = bearer[r].user
                    [] answer'[r].status = 401 -> now > end - Second
                    [] OTHER -> TRUE]_vars
=============================================================================
