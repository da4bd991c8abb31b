----------------------------- MODULE BrowserProofs -----------------------------
(***************************************************************************)
(* Browser, proved for any number of requests, users and tokens and for    *)
(* any durations: also for the rotations of one token within each other,   *)
(* which need more tokens than TLC can be given here.                      *)
(*                                                                         *)
(* A token on its way to the browser is nowhere else (InFlight), so only   *)
(* a request that carries the token in the jar, or somebody else, can have *)
(* ended it; and what such a request brings back (Ending) takes that token *)
(* out of the jar or is a 500.  Unless a login was overlapped, all that a  *)
(* browser has, sends and is sent belongs to one user (Session).           *)
(***************************************************************************)
EXTENDS Browser, TLAPS

Known == Existing \cup gone \cup {None, Malformed}

\* What a request still has or no longer has to do with.
Requests ==
    \A r \in Request :
        /\ kind[r] = "none" => answer[r] = None
        /\ kind[r] \notin {"refresh", "logout"} => cookie[r] = None
        /\ bearer[r] # None => kind[r] = "profile" /\ answer[r] = None
        /\ began[r] # None => /\ kind[r] \in {"login", "refresh"}
                              /\ answer[r] = None
                              /\ began[r] <= now
        /\ kind[r] = "login" /\ answer[r] = None => about[r] \in User
        /\ kind[r] = "logout" /\ answer[r] # None => answer[r].clears

\* Nobody has heard of a token before it exists.
Heard ==
    /\ jar \in Known
    /\ rotated \subseteq Existing \cup gone
    /\ \A r \in Request : cookie[r] \in Known
    /\ \A r \in Request : answer[r] # None => answer[r].sets \in Known \ {Malformed}
    /\ \A t \in Token : refused[t] # None => t \in Existing \cup gone

\* A new cookie comes with an access token of the same user, and is in one place.
InFlight ==
    \A r \in Request : answer[r] # None =>
        /\ answer[r].sets = None <=> answer[r].access = None
        /\ answer[r].sets # None =>
            /\ kind[r] \in {"login", "refresh"}
            /\ kind[r] = "refresh" => cookie[r] \in Token
            /\ ~ answer[r].clears
            /\ answer[r].sets # jar
            /\ \A q \in Request : cookie[q] # answer[r].sets
            /\ \A q \in Request \ {r} : answer[q] # None => answer[q].sets # answer[r].sets
            /\ answer[r].sets \in rotated \cup gone => answer[r].sets \in spoilt
            /\ answer[r].sets \in Existing => ledger[answer[r].sets].user = answer[r].access.user

\* The answer of r does not leave the cookie that r carried as good as it was.
Ending(r) ==
    /\ kind[r] \in {"refresh", "logout"}
    /\ answer[r] # None
    /\ answer[r].sets # None \/ answer[r].clears \/ answer[r].status = 500

JarIsAccounted ==
    jar \in rotated \cup gone =>
        jar \in spoilt \/ \E r \in Request : cookie[r] = jar /\ Ending(r)

\* A token was signed by now and carries the exp claim it was given.
Genuine(a) == a # None => a.expires = Expires(a.signed) /\ a.signed <= now

AccessTokens ==
    /\ Genuine(access)
    /\ \A r \in Request : Genuine(bearer[r]) /\ Genuine(body[r])
    /\ \A r \in Request : answer[r] # None => Genuine(answer[r].access)

\* A quiet logout has no sign-in beside it, and a quiet login not even a body that the
\* page still reads.
Quiet ==
    \A r \in quiet :
        /\ kind[r] = "logout" => SigningIn = {}
        /\ kind[r] = "login" => SigningIn = {r} /\ Reading = {}
        /\ kind[r] \in {"login", "logout"}

\* After a quiet logout nothing under way can bring a cookie, or an access token that
\* ends later than those there were.
Leaving ==
    signedOut # None =>
        /\ signedOut <= now
        /\ \A r \in SigningIn : kind[r] = "refresh" /\ cookie[r] \notin Token
        /\ \A r \in Reading : body[r].expires <= signedOut + AccessDuration

\* All that there is of the session of one user.
SessionOf(u) ==
    /\ jar \in Existing => ledger[jar].user = u
    /\ identity = "one" /\ access # None => access.user = u
    /\ \A r \in Request : body[r] # None => body[r].user = u
    /\ \A r \in Request : kind[r] = "refresh" =>
          /\ cookie[r] \in Existing => ledger[cookie[r]].user = u
          /\ answer[r] # None /\ answer[r].access # None => answer[r].access.user = u

\* There is one session, unless a login was overlapped.
Session ==
    identity # "crossed" =>
        /\ \A r \in Request : kind[r] = "login" => r \in quiet
        /\ \E u \in User \cup {None} : SessionOf(u)

\* A refused token has expired by the clock of whoever asked.
Refusing ==
    \A t \in Existing : refused[t] # None => ledger[t].expires <= refused[t]

BrowserInv ==
    /\ BrowserTypeOK
    /\ Requests
    /\ Heard
    /\ InFlight
    /\ JarIsAccounted
    /\ Session
    /\ AccessTokens
    /\ Quiet
    /\ Leaving
    /\ SignedOutStaysOut
    /\ Refusing

-----------------------------------------------------------------------------
\* Dropping the fraction of a second costs less than a second.
LEMMA ExpiresLemma ==
    ASSUME NEW s \in Nat
    PROVE  /\ Expires(s) \in Nat
           /\ Expires(s) <= s + AccessDuration
           /\ s + AccessDuration < Expires(s) + Second
<1> DEFINE x == s + AccessDuration
<1>1. x \in Nat /\ Second \in Nat /\ Second > 0
    BY BrowserDurationsArePositive
<1>2. PICK q \in Nat : q = x \div Second
    BY <1>1
<1>3. q * Second <= x /\ x < q * Second + Second
    BY <1>1, <1>2
<1>4. q * Second \in Nat
    BY <1>1
<1> QED BY <1>2, <1>3, <1>4 DEF Expires

\* What a sign-in does to the ledger.
LEMMA IssueLemma ==
    ASSUME BrowserTypeOK, NEW t \in Token, NEW u \in User, Issue(t, u)
    PROVE  /\ t \notin Existing \cup gone
           /\ ledger' \in [Token -> [user: User, expires: Nat] \cup {None}]
           /\ Existing' = Existing \cup {t}
           /\ \A x \in Token \ {t} : ledger'[x] = ledger[x]
           /\ ledger'[t].user = u
           /\ now' = now /\ gone' = gone
<1>1. PICK built \in 0..now : ledger' = [ledger EXCEPT ![t] = NewEntry(u, built)]
    BY DEF Issue
<1>2. NewEntry(u, built) \in [user: User, expires: Nat] /\ NewEntry(u, built).user = u
    BY BrowserDurationsArePositive DEF NewEntry, BrowserTypeOK
<1> QED BY <1>1, <1>2, BrowserNoneIsNoRecord DEF Issue, BrowserTypeOK, Existing

\* What a rotation does to the ledger.
LEMMA RotateLemma ==
    ASSUME BrowserTypeOK, NEW t \in Token, NEW s \in Token, Rotate(t, s)
    PROVE  /\ t \in Existing /\ s \notin Existing \cup gone /\ t # s
           /\ ledger' \in [Token -> [user: User, expires: Nat] \cup {None}]
           /\ Existing' = Existing \cup {s}
           /\ \A x \in Token \ {s, t} : ledger'[x] = ledger[x]
           /\ ledger'[t].user = ledger[t].user
           /\ ledger'[s].user = ledger[t].user
           /\ ledger'[t].expires < ledger[t].expires
           /\ now' = now /\ gone' = gone
<1>1. PICK began_, built \in 0..now :
        /\ began_ < ledger[t].expires
        /\ ledger' = [ledger EXCEPT ![t] = [user |-> @.user, expires |-> began_],
                                    ![s] = NewEntry(ledger[t].user, built)]
    BY DEF Rotate
<1>2. t \in Existing /\ s \notin Existing \cup gone /\ t # s
    BY DEF Rotate
<1>3. ledger[t] \in [user: User, expires: Nat]
    BY <1>2 DEF Existing, BrowserTypeOK
<1> DEFINE old == [user |-> ledger[t].user, expires |-> began_]
           new == NewEntry(ledger[t].user, built)
<1>4. /\ old \in [user: User, expires: Nat]
      /\ old.user = ledger[t].user /\ old.expires = began_
      /\ new \in [user: User, expires: Nat]
      /\ new.user = ledger[t].user
    BY <1>3, BrowserDurationsArePositive DEF NewEntry, BrowserTypeOK
<1>5. ledger' = [ledger EXCEPT ![t] = old, ![s] = new]
    BY <1>1
<1> HIDE DEF old, new
<1>6. /\ ledger' \in [Token -> [user: User, expires: Nat] \cup {None}]
      /\ ledger'[t] = old /\ ledger'[s] = new
      /\ \A x \in Token \ {s, t} : ledger'[x] = ledger[x]
    BY <1>2, <1>4, <1>5 DEF BrowserTypeOK
<1>7. Existing' = Existing \cup {s}
    BY <1>2, <1>4, <1>6, BrowserNoneIsNoRecord DEF Existing
<1> QED BY <1>1, <1>2, <1>4, <1>6, <1>7 DEF Rotate

\* What a logout or a reset does to the ledger.
LEMMA RevokeLemma ==
    ASSUME BrowserTypeOK, NEW S \in SUBSET Existing, NEW u, Revoke(S, u)
    PROVE  /\ ledger' \in [Token -> [user: User, expires: Nat] \cup {None}]
           /\ Existing' = Existing \ S
           /\ \A x \in Token \ S : ledger'[x] = ledger[x]
           /\ gone' = gone \cup S /\ gone' \subseteq Token
           /\ now' = now
BY DEF Revoke, BrowserTypeOK, Existing

-----------------------------------------------------------------------------
\* The parts of a response without tokens.
LEMMA PlainLemma ==
    ASSUME NEW status \in {200, 204, 401, 403, 404, 500}
    PROVE  /\ Plain(status) \in Response /\ Farewell(status) \in Response
           /\ Plain(status).sets = None /\ Plain(status).access = None
           /\ Plain(status).status = status /\ ~ Plain(status).clears
           /\ Farewell(status).sets = None /\ Farewell(status).access = None
           /\ Farewell(status).status = status /\ Farewell(status).clears
BY DEF Plain, Farewell, Reply, Response

\* The parts of a response with a cookie and an access token.
LEMMA WelcomeLemma ==
    ASSUME NEW t \in Token, NEW a \in AccessToken
    PROVE  /\ Welcome(t, a) \in Response
           /\ Welcome(t, a).sets = t /\ Welcome(t, a).access = a
           /\ ~ Welcome(t, a).clears
           /\ Welcome(t, a).status = 200
BY DEF Welcome, Reply, Response

\* What an answer does to the request.
LEMMA RespondLemma ==
    ASSUME BrowserTypeOK, NEW r \in Request, NEW response \in Response, Respond(r, response),
           kind[r] = "refresh" => began[r] # None, cookie' = cookie, kind' = kind
    PROVE  /\ answer' \in [Request -> Response \cup {None}]
           /\ about' \in [Request -> User \cup {None}]
           /\ bearer' \in [Request -> AccessToken \cup {None}]
           /\ began' \in [Request -> 0..MaxTime \cup {None}]
           /\ refused' \in [Token -> 0..MaxTime \cup {None}]
           /\ answer'[r] = response /\ response # None
           /\ about'[r] = None /\ bearer'[r] = None /\ began'[r] = None
           /\ \A q \in Request \ {r} : /\ answer'[q] = answer[q] /\ about'[q] = about[q]
                                      /\ bearer'[q] = bearer[q] /\ began'[q] = began[q]
           /\ \A t \in Token :
                 \/ refused'[t] = refused[t]
                 \/ /\ t = cookie[r] /\ kind[r] = "refresh" /\ response.status = 401
                    /\ refused'[t] = began[r]
<1>1. \A t \in Token : refused[t] \in 0..MaxTime \cup {None}
    BY DEF BrowserTypeOK
<1>2. refused' = Refusals(r, response.status)
    BY DEF Respond
<1>3. /\ refused' \in [Token -> 0..MaxTime \cup {None}]
      /\ \A t \in Token :
            \/ refused'[t] = refused[t]
            \/ /\ t = cookie[r] /\ kind[r] = "refresh" /\ response.status = 401
               /\ refused'[t] = began[r]
    BY <1>1, <1>2 DEF Refusals, BrowserTypeOK
<1> QED
    BY <1>3, BrowserNoneIsNoRecord DEF Respond, BrowserTypeOK

\* An answer keeps the invariant, if the work that was done for it has ended at most
\* the token that the request carried, and then the answer says so; if a new cookie
\* names a new row of the user of its access token; and if a refused token has expired.
LEMMA AnswerKeepsInv ==
    ASSUME BrowserInv, NEW r \in Request, NEW response \in Response, Respond(r, response),
           UNCHANGED <<kind, cookie, browser, now>>,
           kind[r] # "none", answer[r] = None,
           kind[r] \in {"login", "refresh"} => began[r] # None,
           kind[r] = "logout" => response.clears,
           ledger' \in [Token -> [user: User, expires: Nat] \cup {None}],
           gone' \in SUBSET Token,
           rotated' \in SUBSET (Existing' \cup gone'),
           Existing \cup gone \subseteq Existing' \cup gone',
           \A t \in Existing' : t \in Existing \/ t \notin gone,
           \A t \in Existing \cap Existing' : /\ ledger'[t].user = ledger[t].user
                                            /\ ledger'[t].expires <= ledger[t].expires,
           rotated' \cup gone' \subseteq rotated \cup gone \cup {cookie[r]},
           cookie[r] \in rotated' \cup gone' => cookie[r] \in rotated \cup gone \/ Ending(r)',
           response.sets = None <=> response.access = None,
           response.sets # None =>
               /\ kind[r] \in {"login", "refresh"}
               /\ kind[r] = "refresh" =>
                     cookie[r] \in Existing /\ response.access.user = ledger[cookie[r]].user
               /\ ~ response.clears
               /\ response.sets \in Existing'
               /\ response.sets \notin Existing \cup gone \cup rotated' \cup gone'
               /\ ledger'[response.sets].user = response.access.user
               /\ Genuine(response.access),
           kind[r] = "refresh" /\ response.status = 401 /\ cookie[r] \in Existing' =>
               ledger'[cookie[r]].expires <= began[r]
    PROVE  BrowserInv'
<1> USE BrowserNoneIsNothing, BrowserMalformedIsNoToken
<1>1. BrowserTypeOK
    BY DEF BrowserInv
<1>2. /\ answer' \in [Request -> Response \cup {None}]
      /\ about' \in [Request -> User \cup {None}]
      /\ bearer' \in [Request -> AccessToken \cup {None}]
      /\ began' \in [Request -> 0..MaxTime \cup {None}]
      /\ refused' \in [Token -> 0..MaxTime \cup {None}]
      /\ answer'[r] = response /\ response # None
      /\ about'[r] = None /\ bearer'[r] = None /\ began'[r] = None
      /\ \A q \in Request \ {r} : /\ answer'[q] = answer[q] /\ about'[q] = about[q]
                                 /\ bearer'[q] = bearer[q] /\ began'[q] = began[q]
      /\ \A t \in Token :
            \/ refused'[t] = refused[t]
            \/ /\ t = cookie[r] /\ kind[r] = "refresh" /\ response.status = 401
               /\ refused'[t] = began[r]
    BY <1>1, RespondLemma
<1>3. BrowserTypeOK'
    BY <1>1, <1>2 DEF BrowserTypeOK, browser, Existing
<1>4. Requests'
    BY <1>2 DEF BrowserInv, Requests
<1>fresh. /\ response.sets # None => response.sets \in Existing' /\ response.sets \notin Known
      /\ Known \subseteq Known'
    BY DEF Known, Existing
<1>5. Heard'
    BY <1>fresh, <1>2 DEF BrowserInv, Heard, Known, Existing, browser
<1>6. InFlight'
    <2> SUFFICES ASSUME NEW q \in Request, answer'[q] # None
                 PROVE  /\ answer'[q].sets = None <=> answer'[q].access = None
                        /\ answer'[q].sets # None =>
                            /\ kind[q] \in {"login", "refresh"}
                            /\ kind[q] = "refresh" => cookie[q] \in Token
                            /\ ~ answer'[q].clears
                            /\ answer'[q].sets # jar
                            /\ \A p \in Request : cookie[p] # answer'[q].sets
                            /\ \A p \in Request \ {q} : answer'[p] # None => answer'[p].sets # answer'[q].sets
                            /\ answer'[q].sets \in rotated' \cup gone' => answer'[q].sets \in spoilt
                            /\ answer'[q].sets \in Existing' =>
                                   ledger'[answer'[q].sets].user = answer'[q].access.user
        BY DEF InFlight, browser
    <2>1. CASE q = r
        BY <2>1, <1>fresh, <1>2 DEF BrowserInv, Heard, Existing
    <2>2. CASE q # r
        <3>1. answer'[q] = answer[q]
            BY <1>2, <2>2
        <3>2. (answer[q].sets \in Known \ {Malformed} /\ answer[q].sets # cookie[r]) \/ answer[q].sets = None
            BY <3>1 DEF BrowserInv, Heard, InFlight
        <3>3. answer[q].sets # None => \A p \in Request \ {q} : answer'[p] # None => answer'[p].sets # answer[q].sets
            BY <1>fresh, <1>2, <3>1, <3>2 DEF BrowserInv, InFlight
        <3>4. answer[q].sets \in Existing' /\ answer[q].sets # None =>
                  answer[q].sets \in Existing /\ ledger'[answer[q].sets].user = ledger[answer[q].sets].user
            BY <3>1, <3>2 DEF Known
        <3>5. answer[q].sets \in rotated' \cup gone' /\ answer[q].sets # None =>
                  answer[q].sets \in rotated \cup gone
            BY <3>1, <3>2
        <3> QED
            BY <3>1, <3>3, <3>4, <3>5 DEF BrowserInv, InFlight, browser
    <2> QED BY <2>1, <2>2
<1>7. JarIsAccounted'
    <2>1. \A q \in Request : Ending(q) => Ending(q)'
        BY <1>2 DEF Ending
    <2>2. CASE jar \in rotated \cup gone
        BY <2>1, <2>2 DEF BrowserInv, JarIsAccounted, browser
    <2>3. CASE jar \notin rotated \cup gone
        BY <2>3 DEF JarIsAccounted, browser
    <2> QED BY <2>2, <2>3
<1>8. Session'
    <2> SUFFICES ASSUME identity # "crossed"
                 PROVE  \E u \in User \cup {None} : SessionOf(u)'
        BY DEF BrowserInv, Session, browser
    <2>1. PICK u \in User \cup {None} : SessionOf(u)
        BY DEF BrowserInv, Session
    <2>2. ASSUME NEW t \in Known, t \in Existing', t \in Existing => ledger[t].user = u
          PROVE  ledger'[t].user = u
        BY <2>2 DEF Known, Existing
    <2>3. jar \in Existing' => ledger'[jar].user = u
        BY <2>1, <2>2 DEF BrowserInv, Heard, SessionOf
    <2>4. ASSUME NEW q \in Request, kind[q] = "refresh", cookie[q] \in Existing'
          PROVE  ledger'[cookie[q]].user = u
        BY <2>1, <2>2, <2>4 DEF BrowserInv, Heard, SessionOf
    <2>5. ASSUME NEW q \in Request, kind[q] = "refresh", answer'[q] # None, answer'[q].access # None
          PROVE  answer'[q].access.user = u
        BY <1>2, <2>1, <2>5 DEF SessionOf
    <2>6. SessionOf(u)'
        BY <2>1, <2>3, <2>4, <2>5 DEF SessionOf, browser
    <2> QED BY <2>6
<1>9. AccessTokens'
    BY <1>2 DEF BrowserInv, AccessTokens, Genuine, browser
<1>10. Quiet' /\ Leaving'
    BY <1>2 DEF BrowserInv, Quiet, Leaving, SigningIn, Reading, browser
<1>11. SignedOutStaysOut'
    BY DEF BrowserInv, SignedOutStaysOut, browser
<1>12. Refusing'
    <2> SUFFICES ASSUME NEW t \in Existing', refused'[t] # None
                 PROVE  ledger'[t].expires <= refused'[t]
        BY DEF Refusing
    <2>1. t \in Token /\ ledger'[t] \in [user: User, expires: Nat]
        BY <1>3 DEF BrowserTypeOK, Existing
    <2>2. CASE refused'[t] = refused[t]
        <3>1. t \in Existing
            BY <2>1, <2>2 DEF BrowserInv, Heard
        <3>2. ledger[t] \in [user: User, expires: Nat]
            BY <1>1, <2>1, <3>1 DEF BrowserTypeOK, Existing
        <3>3. refused[t] \in Nat
            BY <1>1, <2>1, <2>2, BrowserDurationsArePositive DEF BrowserTypeOK
        <3> QED BY <2>1, <2>2, <3>1, <3>2, <3>3 DEF BrowserInv, Refusing
    <2>3. CASE refused'[t] # refused[t]
        BY <1>2, <2>1, <2>3
    <2> QED BY <2>2, <2>3
<1> QED
    BY <1>3, <1>4, <1>5, <1>6, <1>7, <1>8, <1>9, <1>10, <1>11, <1>12 DEF BrowserInv

-----------------------------------------------------------------------------
\* What may be signed is an access token, and genuine.
LEMMA SignedLemma ==
    ASSUME BrowserTypeOK, NEW r \in Request, began[r] # None, NEW u \in User,
           NEW a \in Signed(r, u)
    PROVE  a \in AccessToken /\ a # None /\ a.user = u /\ Genuine(a)
<1>1. began[r] \in Nat /\ now \in Nat
    BY BrowserDurationsArePositive DEF BrowserTypeOK
<1>2. PICK s \in began[r]..now : a = [user |-> u, signed |-> s, expires |-> Expires(s)]
    BY DEF Signed
<1>3. s \in Nat /\ s <= now /\ Expires(s) \in Nat
    BY <1>1, ExpiresLemma
<1> QED
    BY <1>2, <1>3, BrowserNoneIsNoRecord DEF AccessToken, Genuine

\* The answer to a failure: a 500, and the cookie goes with a logout.
LEMMA FailureLemma ==
    ASSUME NEW k \in Kind
    PROVE  /\ Failure(k) \in Response
           /\ Failure(k).sets = None /\ Failure(k).access = None
           /\ Failure(k).status = 500
           /\ Failure(k).clears <=> k = "logout"
BY PlainLemma DEF Failure

\* A sign-in keeps the invariant, whether its handler hears of it or not.
LEMMA SignInKeepsInv ==
    ASSUME BrowserInv, NEW r \in Request, NEW t \in Token, SignIn(r, t)
    PROVE  BrowserInv'
<1>1. /\ BrowserTypeOK /\ kind[r] = "login" /\ kind[r] \in Kind /\ cookie[r] = None
      /\ about[r] \in User /\ answer[r] = None /\ began[r] # None
      /\ rotated \subseteq Existing \cup gone
    BY DEF BrowserInv, Requests, Heard, SignIn, Handling, Kind
<1>2. Issue(t, about[r])
    BY DEF SignIn
<1>3. /\ t \notin Existing \cup gone
      /\ ledger' \in [Token -> [user: User, expires: Nat] \cup {None}]
      /\ Existing' = Existing \cup {t}
      /\ \A x \in Token \ {t} : ledger'[x] = ledger[x]
      /\ ledger'[t].user = about[r]
      /\ now' = now /\ gone' = gone
    BY <1>1, <1>2, IssueLemma
<1>4. \A x \in Existing : x \in Token /\ ledger[x] \in [user: User, expires: Nat] /\ x # t
    BY <1>1, <1>3 DEF BrowserTypeOK, Existing
<1>5. PICK a \in Signed(r, about[r]) : Report(r, Welcome(t, a))
    BY DEF SignIn
<1>6. a \in AccessToken /\ a # None /\ a.user = about[r] /\ Genuine(a)
    BY <1>1, <1>5, SignedLemma
<1>7. UNCHANGED <<kind, cookie, browser, now>> /\ rotated' = rotated
    BY <1>3 DEF SignIn
<1>8. CASE Respond(r, Welcome(t, a))
    BY <1>1, <1>3, <1>4, <1>6, <1>7, <1>8, WelcomeLemma, AnswerKeepsInv, BrowserNoneIsNothing
    DEF BrowserTypeOK
<1>9. CASE Respond(r, Failure(kind[r]))
    BY <1>1, <1>3, <1>4, <1>7, <1>9, FailureLemma, AnswerKeepsInv, BrowserNoneIsNothing
    DEF BrowserTypeOK
<1> QED BY <1>5, <1>8, <1>9 DEF Report

\* A rotation keeps it: the token it ends is the one the request carried.
LEMMA RefreshKeepsInv ==
    ASSUME BrowserInv, NEW r \in Request, NEW s \in Token, Refresh(r, s)
    PROVE  BrowserInv'
<1> DEFINE t == cookie[r]
<1>1. /\ BrowserTypeOK /\ kind[r] = "refresh" /\ kind[r] \in Kind
      /\ answer[r] = None /\ began[r] # None
      /\ rotated \subseteq Existing \cup gone /\ t \in Token
    BY DEF BrowserInv, BrowserTypeOK, Heard, Refresh, Handling, Kind
<1>2. Rotate(t, s)
    BY DEF Refresh
<1>3. /\ t \in Existing /\ s \notin Existing \cup gone /\ t # s
      /\ ledger' \in [Token -> [user: User, expires: Nat] \cup {None}]
      /\ Existing' = Existing \cup {s}
      /\ \A x \in Token \ {s, t} : ledger'[x] = ledger[x]
      /\ ledger'[t].user = ledger[t].user
      /\ ledger'[s].user = ledger[t].user
      /\ ledger'[t].expires < ledger[t].expires
      /\ now' = now /\ gone' = gone
    BY <1>1, <1>2, RotateLemma
<1>4. \A x \in Existing : x \in Token /\ ledger[x] \in [user: User, expires: Nat] /\ x # s
    BY <1>1, <1>3 DEF BrowserTypeOK, Existing
<1>5. ledger'[t] \in [user: User, expires: Nat]
    BY <1>1, <1>3 DEF Existing
<1>6. \A x \in Existing : /\ ledger'[x].user = ledger[x].user
                          /\ ledger'[x].expires <= ledger[x].expires
    <2> SUFFICES ASSUME NEW x \in Existing
                 PROVE  ledger'[x].user = ledger[x].user /\ ledger'[x].expires <= ledger[x].expires
        OBVIOUS
    <2>1. x \in Token /\ x # s /\ ledger[x] \in [user: User, expires: Nat]
        BY <1>4
    <2>2. CASE x = t
        <3>1. ledger'[x].expires \in Nat /\ ledger[x].expires \in Nat
            BY <1>5, <2>1, <2>2
        <3> QED BY <1>3, <2>2, <3>1
    <2>3. CASE x # t
        BY <1>3, <2>1, <2>3
    <2> QED BY <2>2, <2>3
<1>7. PICK a \in Signed(r, ledger[t].user) : Report(r, Welcome(s, a))
    BY DEF Refresh
<1>8. a \in AccessToken /\ a # None /\ a.user = ledger[t].user /\ Genuine(a)
    BY <1>1, <1>3, <1>4, <1>7, SignedLemma
<1>9. UNCHANGED <<kind, cookie, browser, now>> /\ rotated' = rotated \cup {t}
    BY <1>3 DEF Refresh
<1>10. CASE Respond(r, Welcome(s, a))
    <2>1. answer'[r] = Welcome(s, a) /\ Welcome(s, a) # None
        BY <1>1, <1>8, <1>9, <1>10, WelcomeLemma, RespondLemma
    <2>2. Ending(r)'
        BY <1>1, <1>8, <1>9, <2>1, WelcomeLemma, BrowserNoneIsNothing DEF Ending
    <2>3. s # None /\ s \in Existing' /\ s \notin rotated' \cup gone'
        BY <1>1, <1>3, <1>9, BrowserNoneIsNothing
    <2> HIDE DEF t
    <2> QED
        BY <1>1, <1>3, <1>6, <1>8, <1>9, <1>10, <2>2, <2>3, WelcomeLemma, AnswerKeepsInv,
           BrowserNoneIsNothing
        DEF BrowserTypeOK, t
<1>11. CASE Respond(r, Failure(kind[r]))
    <2>1. answer'[r] = Failure(kind[r]) /\ Failure(kind[r]) # None
        BY <1>1, <1>9, <1>11, FailureLemma, RespondLemma
    <2>2. Ending(r)'
        BY <1>1, <1>9, <2>1, FailureLemma DEF Ending
    <2> QED
        BY <1>1, <1>3, <1>6, <1>9, <1>11, <2>2, FailureLemma, AnswerKeepsInv,
           BrowserNoneIsNothing
        DEF BrowserTypeOK
<1> QED BY <1>7, <1>10, <1>11 DEF Report

\* A logout keeps it: it ends at most the token the request carried, and every answer
\* to it deletes the cookie.
LEMMA LogoutKeepsInv ==
    ASSUME BrowserInv, NEW r \in Request, Logout(r)
    PROVE  BrowserInv'
<1>1. /\ BrowserTypeOK /\ kind[r] = "logout" /\ kind[r] \in Kind /\ answer[r] = None
      /\ rotated \subseteq Existing \cup gone
    BY DEF BrowserInv, Heard, Logout, Handling, Kind
<1>2. PICK response \in Response :
        /\ Respond(r, response)
        /\ response.sets = None /\ response.access = None /\ response.clears
    <2>1. PICK status \in {204, 401} : Respond(r, Farewell(status)) \/ Respond(r, Failure("logout"))
        BY <1>1 DEF Logout, Report, StatusOf
    <2> QED BY <2>1, PlainLemma, FailureLemma DEF Kind
<1>3. UNCHANGED <<kind, cookie, browser>> /\ rotated' = rotated
    BY DEF Logout
<1>4. answer'[r] = response /\ response # None
    BY <1>1, <1>2, <1>3, RespondLemma
<1>5. Ending(r)'
    BY <1>1, <1>2, <1>3, <1>4 DEF Ending
<1>6. \A x \in Existing : x \in Token /\ ledger[x] \in [user: User, expires: Nat]
    BY <1>1 DEF BrowserTypeOK, Existing
<1>7. CASE cookie[r] \in Existing /\ Revoke({cookie[r]}, ledger[cookie[r]].user)
    <2>1. /\ ledger' \in [Token -> [user: User, expires: Nat] \cup {None}]
          /\ Existing' = Existing \ {cookie[r]}
          /\ \A x \in Token \ {cookie[r]} : ledger'[x] = ledger[x]
          /\ gone' = gone \cup {cookie[r]} /\ gone' \subseteq Token
          /\ now' = now
        BY <1>1, <1>7, RevokeLemma
    <2> QED
        BY <1>1, <1>2, <1>3, <1>5, <1>6, <2>1, AnswerKeepsInv
<1>8. CASE UNCHANGED <<now, ledger, gone>>
    BY <1>1, <1>2, <1>3, <1>5, <1>6, <1>8, AnswerKeepsInv DEF BrowserTypeOK, Existing
<1> QED BY <1>7, <1>8 DEF Logout

\* So does every answer for which nothing was done.
LEMMA PlainKeepsInv ==
    ASSUME BrowserInv, NEW r \in Request,
           RefuseSignIn(r) \/ RefuseRefresh(r) \/ GetProfile(r) \/ Fail(r)
    PROVE  BrowserInv'
<1>1. /\ BrowserTypeOK /\ kind[r] \in Kind /\ answer[r] = None
      /\ kind[r] \in {"login", "refresh"} => began[r] # None
      /\ rotated \subseteq Existing \cup gone
    BY DEF BrowserInv, Heard, RefuseSignIn, RefuseRefresh, GetProfile, Fail, Asking, Handling, Kind
<1>2. UNCHANGED <<kind, cookie, browser, now, ledger, gone, rotated>>
    BY DEF RefuseSignIn, RefuseRefresh, GetProfile, Fail
<1>3. PICK response \in Response :
        /\ Respond(r, response)
        /\ response.sets = None /\ response.access = None
        /\ kind[r] = "logout" => response.clears
        /\ kind[r] = "refresh" /\ response.status = 401 /\ cookie[r] \in Existing =>
               ledger[cookie[r]].expires <= began[r]
    <2>1. CASE RefuseSignIn(r)
        BY <2>1, PlainLemma DEF RefuseSignIn, Handling, StatusOf
    <2>2. CASE RefuseRefresh(r)
        BY <2>2, PlainLemma DEF RefuseRefresh, Handling, StatusOf
    <2>3. CASE GetProfile(r)
        <3>1. ProfileStatus(bearer[r], about[r]) \in {200, 401, 403}
            BY DEF ProfileStatus, StatusOf
        <3> QED BY <2>3, <3>1, PlainLemma DEF GetProfile, Handling
    <2>4. CASE Fail(r)
        BY <1>1, <2>4, FailureLemma DEF Fail
    <2> QED BY <2>1, <2>2, <2>3, <2>4
<1>4. \A x \in Existing : x \in Token /\ ledger[x] \in [user: User, expires: Nat]
    BY <1>1 DEF BrowserTypeOK, Existing
<1>5. Existing' = Existing
    BY <1>2 DEF Existing
<1> QED
    BY <1>1, <1>2, <1>3, <1>4, <1>5, AnswerKeepsInv DEF BrowserTypeOK, Kind

-----------------------------------------------------------------------------
\* A new request carries what the browser has, and is not in anybody's way.
LEMMA SendKeepsInv ==
    ASSUME BrowserInv, NEW r \in Request, Asks(r)
    PROVE  BrowserInv'
<1> USE BrowserNoneIsNothing, BrowserMalformedIsNoToken
<1>1. PICK k \in Kind, u \in User \cup {None} :
        /\ Send(r, k, u)
        /\ k = "login" => u \in User
    BY DEF Asks, Kind
<1>2. /\ BrowserTypeOK /\ kind[r] = "none" /\ answer[r] = None /\ cookie[r] = None
      /\ bearer[r] = None /\ began[r] = None /\ body[r] = None
    BY <1>1 DEF BrowserInv, Requests, Send
<1>3. /\ kind' \in [Request -> Kind \cup {"none"}] /\ kind'[r] = k
      /\ about' \in [Request -> User \cup {None}] /\ about'[r] = u
      /\ cookie' \in [Request -> Cookie]
      /\ cookie'[r] = IF k \in {"refresh", "logout"} THEN jar ELSE None
      /\ bearer' \in [Request -> AccessToken \cup {None}]
      /\ bearer'[r] = IF k = "profile" THEN access ELSE None
      /\ \A q \in Request \ {r} : /\ kind'[q] = kind[q] /\ about'[q] = about[q]
                                 /\ cookie'[q] = cookie[q] /\ bearer'[q] = bearer[q]
    BY <1>1, <1>2 DEF Send, BrowserTypeOK, Cookie
<1>4. /\ UNCHANGED <<now, ledger, gone, rotated, refused, began, answer, jar, access, body, spoilt>>
      /\ Existing' = Existing /\ Reading' = Reading
    BY <1>1 DEF Send, server, Existing, Reading
<1>5. /\ quiet' = CASE k = "refresh" \/ Crosses(k) -> {}
                    [] k = "login" /\ ~ Crosses(k) -> {r}
                    [] k = "logout" /\ SigningIn = {} -> quiet \cup {r}
                    [] OTHER -> quiet
      /\ signedOut' = IF k = "login" THEN None ELSE signedOut
      /\ identity' = IF Crosses(k) THEN "crossed" ELSE identity
    BY <1>1 DEF Send
<1>6. SigningIn' = IF k \in {"login", "refresh"} THEN SigningIn \cup {r} ELSE SigningIn
    BY <1>2, <1>3 DEF SigningIn
<1>7. BrowserTypeOK'
    BY <1>2, <1>3, <1>4, <1>5 DEF BrowserTypeOK
<1>8. Requests'
    <2> SUFFICES ASSUME NEW q \in Request
                 PROVE  /\ kind'[q] = "none" => answer[q] = None
                        /\ kind'[q] \notin {"refresh", "logout"} => cookie'[q] = None
                        /\ bearer'[q] # None => kind'[q] = "profile" /\ answer[q] = None
                        /\ began[q] # None => /\ kind'[q] \in {"login", "refresh"}
                                              /\ answer[q] = None
                                              /\ began[q] <= now
                        /\ kind'[q] = "login" /\ answer[q] = None => about'[q] \in User
                        /\ kind'[q] = "logout" /\ answer[q] # None => answer[q].clears
        BY <1>4 DEF Requests
    <2>1. CASE q = r
        BY <1>1, <1>2, <1>3, <2>1 DEF Kind
    <2>2. CASE q # r
        BY <1>3, <2>2 DEF BrowserInv, Requests
    <2> QED BY <2>1, <2>2
<1>9. Heard'
    BY <1>2, <1>3, <1>4 DEF BrowserInv, Heard, Known
<1>10. InFlight'
    <2>1. \A q \in Request : answer[q] # None => q # r
        BY <1>2
    <2>2. \A p \in Request : cookie'[p] \in {cookie[p], jar, None}
        BY <1>3
    <2> QED BY <1>2, <1>3, <1>4, <2>1, <2>2 DEF BrowserInv, InFlight
<1>11. JarIsAccounted'
    <2>1. \A q \in Request : Ending(q) => Ending(q)' /\ cookie'[q] = cookie[q]
        BY <1>2, <1>3, <1>4 DEF Ending
    <2> QED BY <1>4, <2>1 DEF BrowserInv, JarIsAccounted
<1>12. Session'
    <2> SUFFICES ASSUME identity' # "crossed"
                 PROVE  /\ \A q \in Request : kind'[q] = "login" => q \in quiet'
                        /\ \E u_ \in User \cup {None} : SessionOf(u_)'
        BY DEF Session
    <2>1. ~ Crosses(k) /\ identity' = identity /\ identity # "crossed"
        BY <1>5
    <2>2. PICK u_ \in User \cup {None} : SessionOf(u_)
        BY <2>1 DEF BrowserInv, Session
    <2>3. \A q \in Request : kind'[q] = "login" => q \in quiet'
        <3>1. ASSUME NEW q \in Request, q # r, kind[q] = "login"
              PROVE  q \in quiet /\ q \in SigningIn /\ k \notin {"login", "refresh"}
            BY <2>1, <3>1 DEF BrowserInv, Session, SigningIn, Crosses
        <3> QED BY <1>3, <1>5, <2>1, <3>1 DEF Kind
    <2>4. SessionOf(u_)'
        BY <1>2, <1>3, <1>4, <2>1, <2>2 DEF SessionOf
    <2> QED BY <2>3, <2>4
<1>13. AccessTokens'
    BY <1>3, <1>4 DEF BrowserInv, AccessTokens, Genuine
<1>14. SignedOutStaysOut'
    BY <1>4, <1>5 DEF BrowserInv, SignedOutStaysOut
<1>15. Quiet' /\ Leaving'
    <2>1. k # "login" /\ signedOut # None => jar = None
        BY DEF BrowserInv, SignedOutStaysOut
    <2>2. \A q \in quiet \cup SigningIn : q \in Request \ {r}
        BY <1>2 DEF BrowserInv, Quiet, BrowserTypeOK, SigningIn
    <2>3. Quiet'
        <3>1. CASE k = "login" /\ ~ Crosses(k)
            BY <1>3, <1>4, <1>5, <1>6, <3>1 DEF Quiet, Crosses
        <3>2. CASE k = "refresh" \/ Crosses(k)
            BY <1>5, <3>2 DEF Quiet, Crosses
        <3>3. CASE k = "logout" /\ SigningIn = {} /\ ~ Crosses(k)
            BY <1>3, <1>4, <1>5, <1>6, <2>2, <3>3 DEF BrowserInv, Quiet
        <3>4. CASE (k = "logout" /\ SigningIn # {} /\ ~ Crosses(k)) \/ k = "profile"
            BY <1>3, <1>4, <1>5, <1>6, <2>2, <3>4 DEF BrowserInv, Quiet, Crosses
        <3> QED BY <3>1, <3>2, <3>3, <3>4 DEF Kind
    <2>4. ASSUME signedOut' # None
          PROVE  /\ signedOut' <= now
                 /\ \A q \in SigningIn' : kind'[q] = "refresh" /\ cookie'[q] \notin Token
                 /\ \A q \in Reading : body[q].expires <= signedOut' + AccessDuration
        <3>1. signedOut # None /\ signedOut' = signedOut /\ k # "login"
            BY <1>5, <2>4
        <3> QED
            BY <1>3, <1>6, <2>1, <2>2, <3>1 DEF BrowserInv, Leaving
    <2> QED
        BY <1>4, <2>3, <2>4 DEF Leaving
<1>16. Refusing'
    BY <1>4 DEF BrowserInv, Refusing
<1> QED
    BY <1>7, <1>8, <1>9, <1>10, <1>11, <1>12, <1>13, <1>14, <1>15, <1>16 DEF BrowserInv

\* A handler that begins changes nothing but its own knowledge of the time.
LEMMA BeginKeepsInv ==
    ASSUME BrowserInv, NEW r \in Request, Begin(r)
    PROVE  BrowserInv'
<1> USE BrowserNoneIsNothing, BrowserMalformedIsNoToken
<1>1. /\ BrowserTypeOK
      /\ UNCHANGED <<now, ledger, gone, rotated, refused, kind, about, cookie, bearer, answer,
                     jar, access, body, spoilt, quiet, signedOut, identity>>
      /\ Existing' = Existing /\ SigningIn' = SigningIn /\ Reading' = Reading
    BY DEF BrowserInv, Begin, server, browser, Existing, SigningIn, Reading
<1>2. /\ began' \in [Request -> 0..MaxTime \cup {None}] /\ began'[r] = now
      /\ \A q \in Request \ {r} : began'[q] = began[q]
      /\ now \in Nat
    BY <1>1, BrowserDurationsArePositive DEF Begin, BrowserTypeOK
<1>3. BrowserTypeOK'
    BY <1>1, <1>2 DEF BrowserTypeOK
<1>4. Requests'
    BY <1>1, <1>2 DEF BrowserInv, Requests, Begin
<1>5. Heard' /\ InFlight'
    BY <1>1 DEF BrowserInv, Heard, Known, InFlight
<1>6. JarIsAccounted'
    BY <1>1 DEF BrowserInv, JarIsAccounted, Ending
<1>7. Session' /\ AccessTokens' /\ SignedOutStaysOut' /\ Refusing'
    BY <1>1 DEF BrowserInv, Session, SessionOf, AccessTokens, Genuine, SignedOutStaysOut, Refusing
<1>8. Quiet' /\ Leaving'
    BY <1>1 DEF BrowserInv, Quiet, Leaving
<1> QED BY <1>3, <1>4, <1>5, <1>6, <1>7, <1>8 DEF BrowserInv

\* A request that is over leaves the others as they were.
LEMMA OverLemma ==
    ASSUME BrowserTypeOK, NEW r \in Request, Over(r)
    PROVE  /\ kind' \in [Request -> Kind \cup {"none"}] /\ kind'[r] = "none"
           /\ cookie' \in [Request -> Cookie] /\ cookie'[r] = None
           /\ answer' \in [Request -> Response \cup {None}] /\ answer'[r] = None
           /\ \A q \in Request \ {r} : /\ kind'[q] = kind[q] /\ cookie'[q] = cookie[q]
                                      /\ answer'[q] = answer[q]
           /\ UNCHANGED <<about, bearer, began>>
           /\ quiet' = quiet \ {r} /\ quiet' \subseteq quiet
           /\ SigningIn' = SigningIn \ {r}
BY DEF Over, BrowserTypeOK, Cookie, local, SigningIn

\* The browser does as the headers say; only an answer that brings a token can change
\* the jar into anything but None.
LEMMA ReceiveKeepsInv ==
    ASSUME BrowserInv, NEW r \in Request, Receive(r)
    PROVE  BrowserInv'
<1> USE BrowserNoneIsNothing, BrowserMalformedIsNoToken
<1> DEFINE a == answer[r]
<1>1. /\ BrowserTypeOK /\ a # None /\ a \in Response
      /\ UNCHANGED <<now, ledger, gone, rotated, refused, access>> /\ Existing' = Existing
    BY DEF BrowserInv, BrowserTypeOK, Receive, server, Existing
<1>2. /\ kind' \in [Request -> Kind \cup {"none"}] /\ kind'[r] = "none"
      /\ cookie' \in [Request -> Cookie] /\ cookie'[r] = None
      /\ answer' \in [Request -> Response \cup {None}] /\ answer'[r] = None
      /\ \A q \in Request \ {r} : /\ kind'[q] = kind[q] /\ cookie'[q] = cookie[q]
                                 /\ answer'[q] = answer[q]
      /\ UNCHANGED <<about, bearer, began>>
      /\ quiet' = quiet \ {r} /\ quiet' \subseteq quiet
      /\ SigningIn' = SigningIn \ {r}
    BY <1>1, OverLemma DEF Receive
<1>3. /\ jar' = IF a.clears THEN None ELSE IF a.sets # None THEN a.sets ELSE jar
      /\ body' = [body EXCEPT ![r] = a.access]
      /\ spoilt' = IF a.status = 500 THEN spoilt \cup Spoils(r) ELSE spoilt
      /\ signedOut' = IF r \in quiet /\ kind[r] = "logout" /\ signedOut = None
                       THEN now ELSE signedOut
      /\ identity' = IF r \in quiet /\ kind[r] = "login" /\ a.access # None
                      THEN "stale" ELSE identity
      /\ spoilt \subseteq spoilt'
    BY DEF Receive
<1>4. /\ a.sets = None <=> a.access = None
      /\ a.sets \in Known \ {Malformed}
      /\ a.sets # None =>
            /\ kind[r] \in {"login", "refresh"}
            /\ kind[r] = "refresh" => cookie[r] \in Token
            /\ ~ a.clears /\ a.sets # jar
            /\ \A q \in Request : cookie[q] # a.sets
            /\ \A q \in Request \ {r} : answer[q] # None => answer[q].sets # a.sets
            /\ a.sets \in rotated \cup gone => a.sets \in spoilt
            /\ a.sets \in Existing => ledger[a.sets].user = a.access.user
      /\ Genuine(a.access)
      /\ kind[r] = "logout" => a.clears
    BY <1>1 DEF BrowserInv, InFlight, Heard, AccessTokens, Requests
<1>5. Spoils(r) \subseteq Token
    BY <1>1 DEF Spoils, BrowserTypeOK
<1> HIDE DEF a
<1>6. a \in [status: {200, 204, 401, 403, 404, 500}, sets: Token \cup {None}, clears: BOOLEAN,
              access: AccessToken \cup {None}]
    BY <1>1 DEF Response
<1>bodies. /\ body' \in [Request -> AccessToken \cup {None}] /\ body'[r] = a.access
           /\ \A q \in Request \ {r} : body'[q] = body[q]
           /\ Reading' \subseteq Reading \cup {r}
    BY <1>1, <1>3, <1>6 DEF BrowserTypeOK, Reading
<1>7. BrowserTypeOK'
    BY <1>1, <1>2, <1>3, <1>5, <1>6, <1>bodies DEF BrowserTypeOK, Cookie
<1>8. Requests'
    <2>1. began[r] = None /\ bearer[r] = None
        BY <1>1 DEF BrowserInv, Requests, a
    <2> QED BY <1>1, <1>2, <2>1 DEF BrowserInv, Requests
<1>9. Heard'
    BY <1>1, <1>2, <1>3, <1>4 DEF BrowserInv, Heard, Known
<1>10. InFlight'
    BY <1>1, <1>2, <1>3, <1>4 DEF BrowserInv, InFlight
<1>11. JarIsAccounted'
    <2> SUFFICES ASSUME jar' \in rotated \cup gone, jar' \notin spoilt'
                 PROVE  \E q \in Request : cookie'[q] = jar' /\ Ending(q)'
        BY <1>1 DEF JarIsAccounted
    <2>1. jar' \in Token
        BY <1>1 DEF BrowserTypeOK
    <2>2. ~ a.clears /\ a.sets = None /\ jar' = jar
        BY <1>3, <1>4, <2>1
    <2>3. PICK q \in Request : cookie[q] = jar /\ Ending(q)
        BY <1>3, <2>2 DEF BrowserInv, JarIsAccounted
    <2>4. q # r
        <3> SUFFICES ASSUME q = r PROVE FALSE
            OBVIOUS
        <3>1. a.status = 500 /\ kind[r] \in {"refresh", "logout"}
            BY <2>2, <2>3 DEF Ending, a
        <3>2. jar \in spoilt'
            BY <1>3, <2>1, <2>2, <2>3, <3>1 DEF Spoils
        <3> QED BY <2>2, <3>2
    <2>5. Ending(q)' /\ cookie'[q] = jar'
        BY <1>2, <2>2, <2>3, <2>4 DEF Ending
    <2> QED BY <2>5
<1>12. Session'
    <2> SUFFICES ASSUME identity' # "crossed"
                 PROVE  /\ \A q \in Request : kind'[q] = "login" => q \in quiet'
                        /\ \E u \in User \cup {None} : SessionOf(u)'
        BY DEF Session
    <2>1. CASE r \in quiet /\ kind[r] = "login" /\ a.access # None
        <3>1. SigningIn = {r} /\ Reading = {}
            BY <2>1 DEF BrowserInv, Quiet
        <3>user. PICK u \in User : u = a.access.user
            BY <1>6, <2>1 DEF AccessToken
        <3>2. \A q \in Request : kind'[q] \notin {"login", "refresh"}
            BY <1>2, <3>1 DEF SigningIn
        <3>3. \A q \in Request \ {r} : body'[q] = None
            BY <1>bodies, <3>1 DEF Reading
        <3>4. identity' = "stale" /\ jar' = a.sets
            BY <1>3, <1>4, <2>1
        <3>5. SessionOf(u)'
            BY <1>1, <1>4, <1>bodies, <2>1, <3>2, <3>3, <3>4, <3>user DEF SessionOf
        <3> QED BY <3>2, <3>5
    <2>2. CASE ~ (r \in quiet /\ kind[r] = "login" /\ a.access # None)
        <3>1. identity' = identity /\ identity # "crossed"
            BY <1>3, <2>2
        <3>2. /\ \A q \in Request : kind[q] = "login" => q \in quiet
              /\ \E u \in User \cup {None} : SessionOf(u)
            BY <3>1 DEF BrowserInv, Session
        <3>3. PICK u \in User \cup {None} : SessionOf(u)
            BY <3>2
        <3>4. a.access # None => kind[r] = "refresh" /\ a.access.user = u
            BY <1>1, <1>4, <2>2, <3>2, <3>3 DEF SessionOf, a
        <3>5. jar' \in Existing => ledger[jar'].user = u
            BY <1>1, <1>3, <1>4, <3>3, <3>4 DEF SessionOf, BrowserTypeOK, Existing
        <3>6. SessionOf(u)'
            BY <1>1, <1>2, <1>bodies, <3>1, <3>3, <3>4, <3>5 DEF SessionOf
        <3>7. \A q \in Request : kind'[q] = "login" => q \in quiet'
            BY <1>2, <3>2
        <3> QED BY <3>6, <3>7
    <2> QED BY <2>1, <2>2
<1>13. AccessTokens'
    BY <1>1, <1>2, <1>4, <1>bodies DEF BrowserInv, AccessTokens, Genuine
<1>14. Quiet'
    <2> SUFFICES ASSUME NEW q \in quiet'
                 PROVE  /\ kind'[q] = "logout" => SigningIn' = {}
                        /\ kind'[q] = "login" => SigningIn' = {q} /\ Reading' = {}
                        /\ kind'[q] \in {"login", "logout"}
        BY DEF Quiet
    <2>1. /\ q # r /\ q \in Request /\ kind'[q] = kind[q] /\ kind[q] \in {"login", "logout"}
          /\ kind[q] = "logout" => SigningIn = {}
          /\ kind[q] = "login" => SigningIn = {q} /\ Reading = {}
        BY <1>1, <1>2 DEF BrowserInv, Quiet, BrowserTypeOK
    <2>2. kind[q] = "login" => a.access = None
        BY <1>1, <1>4, <2>1 DEF SigningIn
    <2> QED BY <1>2, <1>bodies, <2>1, <2>2 DEF Reading
<1>15. Leaving' /\ SignedOutStaysOut'
    <2> SUFFICES ASSUME signedOut' # None
                 PROVE  /\ signedOut' <= now
                        /\ \A q \in SigningIn' : kind'[q] = "refresh" /\ cookie'[q] \notin Token
                        /\ \A q \in Reading' : body'[q].expires <= signedOut' + AccessDuration
                        /\ jar' = None
                        /\ access # None => access.expires <= signedOut' + AccessDuration
        BY <1>1 DEF Leaving, SignedOutStaysOut
    <2>1. CASE signedOut # None
        <3>1. a.sets = None /\ a.access = None /\ signedOut' = signedOut
            BY <1>1, <1>3, <1>4, <2>1 DEF BrowserInv, Leaving, SigningIn
        <3>2. Reading' \subseteq Reading /\ \A q \in Reading' : body'[q] = body[q]
            BY <1>bodies, <3>1 DEF Reading
        <3> QED
            BY <1>2, <1>3, <2>1, <3>1, <3>2 DEF BrowserInv, Leaving, SignedOutStaysOut, SigningIn
    <2>2. CASE signedOut = None
        <3>1. r \in quiet /\ kind[r] = "logout" /\ signedOut' = now
            BY <1>3, <2>2
        <3>2. a.clears /\ a.sets = None /\ a.access = None /\ jar' = None /\ SigningIn' = {}
            BY <1>2, <1>3, <1>4, <3>1 DEF BrowserInv, Quiet
        <3>3. ASSUME NEW token \in AccessToken, Genuine(token), token # None
              PROVE  token.expires <= now + AccessDuration
            <4>1. token.signed \in Nat /\ token.signed <= now /\ token.expires = Expires(token.signed)
                BY <3>3 DEF Genuine, AccessToken
            <4>2. now \in Nat /\ AccessDuration \in Nat /\ Expires(token.signed) \in Nat
                BY <1>1, <4>1, ExpiresLemma, BrowserDurationsArePositive DEF BrowserTypeOK
            <4>3. Expires(token.signed) <= token.signed + AccessDuration
                BY <4>1, ExpiresLemma
            <4> QED BY <4>1, <4>2, <4>3
        <3>4. access # None => access.expires <= now + AccessDuration
            BY <1>1, <3>3 DEF BrowserInv, AccessTokens, BrowserTypeOK
        <3>5. \A q \in Reading' : body'[q] \in AccessToken /\ body'[q] # None /\ Genuine(body'[q])
            BY <1>bodies, <3>2 DEF BrowserInv, AccessTokens, Reading
        <3>6. now \in Nat
            BY <1>1, BrowserDurationsArePositive DEF BrowserTypeOK
        <3> QED BY <3>1, <3>2, <3>3, <3>4, <3>5, <3>6
    <2> QED BY <2>1, <2>2
<1>16. Refusing'
    BY <1>1 DEF BrowserInv, Refusing
<1> QED
    BY <1>7, <1>8, <1>9, <1>10, <1>11, <1>12, <1>13, <1>14, <1>15, <1>16 DEF BrowserInv

\* A lost answer spoils the token it may have ended.
LEMMA LoseKeepsInv ==
    ASSUME BrowserInv, NEW r \in Request, Lose(r)
    PROVE  BrowserInv'
<1> USE BrowserNoneIsNothing, BrowserMalformedIsNoToken
<1>1. /\ BrowserTypeOK /\ answer[r] # None
      /\ UNCHANGED <<now, ledger, gone, rotated, refused, jar, access, body, signedOut, identity>>
      /\ Existing' = Existing /\ Reading' = Reading
      /\ spoilt' = spoilt \cup Spoils(r)
    BY DEF BrowserInv, Lose, server, Existing, Reading
<1>2. /\ kind' \in [Request -> Kind \cup {"none"}] /\ kind'[r] = "none"
      /\ cookie' \in [Request -> Cookie] /\ cookie'[r] = None
      /\ answer' \in [Request -> Response \cup {None}] /\ answer'[r] = None
      /\ \A q \in Request \ {r} : /\ kind'[q] = kind[q] /\ cookie'[q] = cookie[q]
                                 /\ answer'[q] = answer[q]
      /\ UNCHANGED <<about, bearer, began>>
      /\ quiet' = quiet \ {r} /\ quiet' \subseteq quiet
      /\ SigningIn' = SigningIn \ {r}
    BY <1>1, OverLemma DEF Lose
<1>3. Spoils(r) \subseteq Token
    BY <1>1 DEF Spoils, BrowserTypeOK
<1>4. BrowserTypeOK'
    BY <1>1, <1>2, <1>3 DEF BrowserTypeOK
<1>5. Requests'
    <2>1. began[r] = None /\ bearer[r] = None
        BY <1>1 DEF BrowserInv, Requests
    <2> QED BY <1>1, <1>2, <2>1 DEF BrowserInv, Requests
<1>6. Heard'
    BY <1>1, <1>2 DEF BrowserInv, Heard, Known
<1>7. InFlight'
    BY <1>1, <1>2, <1>6 DEF BrowserInv, InFlight, Heard, Known, BrowserTypeOK
<1>8. JarIsAccounted'
    <2> SUFFICES ASSUME jar \in rotated \cup gone, jar \notin spoilt'
                 PROVE  \E q \in Request : cookie'[q] = jar /\ Ending(q)'
        BY <1>1 DEF JarIsAccounted
    <2>1. jar \in Token
        BY <1>1 DEF BrowserTypeOK
    <2>2. PICK q \in Request : cookie[q] = jar /\ Ending(q)
        BY <1>1 DEF BrowserInv, JarIsAccounted
    <2>3. q # r
        BY <1>1, <2>1, <2>2 DEF Spoils, Ending
    <2> QED BY <1>2, <2>2, <2>3 DEF Ending
<1>9. SignedOutStaysOut' /\ Refusing'
    BY <1>1 DEF BrowserInv, SignedOutStaysOut, Refusing
<1>10. AccessTokens'
    BY <1>1, <1>2 DEF BrowserInv, AccessTokens, Genuine
<1>11. Quiet' /\ Leaving'
    BY <1>1, <1>2 DEF BrowserInv, Quiet, Leaving, BrowserTypeOK, SigningIn
<1>12. Session'
    BY <1>1, <1>2 DEF BrowserInv, Session, SessionOf
<1> QED BY <1>4, <1>5, <1>6, <1>7, <1>8, <1>9, <1>10, <1>11, <1>12 DEF BrowserInv

\* What is left of an answer is the access token, which the page keeps or loses.
LEMMA ReadKeepsInv ==
    ASSUME BrowserInv, NEW r \in Request, Read(r) \/ LoseBody(r)
    PROVE  BrowserInv'
<1> USE BrowserNoneIsNothing, BrowserMalformedIsNoToken
<1>1. /\ BrowserTypeOK /\ body[r] # None /\ r \in Reading
      /\ UNCHANGED <<now, ledger, gone, rotated, refused, kind, cookie, about, bearer, began,
                     answer, jar, spoilt, quiet, signedOut>>
      /\ Existing' = Existing /\ SigningIn' = SigningIn /\ Known' = Known
      /\ access' \in {access, body[r]}
      /\ identity' = identity \/ (identity = "stale" /\ identity' = "one" /\ access' = body[r])
    BY DEF BrowserInv, Read, LoseBody, server, local, Existing, SigningIn, Known, Reading
<1>2. /\ body' \in [Request -> AccessToken \cup {None}] /\ body'[r] = None
      /\ \A q \in Request \ {r} : body'[q] = body[q]
    BY <1>1 DEF BrowserTypeOK, Read, LoseBody
<1>3. Reading' \subseteq Reading /\ \A q \in Reading' : body'[q] = body[q]
    BY <1>2 DEF Reading
<1>4. BrowserTypeOK'
    BY <1>1, <1>2 DEF BrowserTypeOK
<1>5. Requests' /\ Heard' /\ InFlight' /\ JarIsAccounted' /\ Refusing'
    BY <1>1 DEF BrowserInv, Requests, Heard, InFlight, JarIsAccounted, Ending, Refusing
<1>6. AccessTokens'
    BY <1>1, <1>2 DEF BrowserInv, AccessTokens, Genuine
<1>7. Quiet'
    BY <1>1, <1>3 DEF BrowserInv, Quiet
<1>8. Leaving' /\ SignedOutStaysOut'
    BY <1>1, <1>3 DEF BrowserInv, Leaving, SignedOutStaysOut
<1>9. Session'
    <2> SUFFICES ASSUME identity # "crossed"
                 PROVE  \E u \in User \cup {None} : SessionOf(u)'
        BY <1>1 DEF BrowserInv, Session
    <2>1. PICK u \in User \cup {None} : SessionOf(u)
        BY DEF BrowserInv, Session
    <2>2. SessionOf(u)'
        BY <1>1, <1>2, <2>1 DEF SessionOf
    <2> QED BY <2>2
<1> QED BY <1>4, <1>5, <1>6, <1>7, <1>8, <1>9 DEF BrowserInv

\* A browser without a token in its cookie has nothing to be locked out of.
LEMMA DropCookieKeepsInv ==
    ASSUME BrowserInv, DropCookie
    PROVE  BrowserInv'
<1> USE BrowserNoneIsNothing, BrowserMalformedIsNoToken
<1>1. /\ BrowserTypeOK /\ jar # None /\ jar' \in {None, Malformed}
      /\ UNCHANGED <<now, ledger, gone, rotated, refused, kind, cookie, about, bearer, began,
                     answer, access, body, spoilt, quiet, signedOut, identity>>
      /\ Existing' = Existing /\ SigningIn' = SigningIn /\ Reading' = Reading
    BY DEF BrowserInv, DropCookie, server, local, Existing, SigningIn, Reading
<1>2. jar' \notin rotated \cup gone \cup Existing
    BY <1>1 DEF BrowserTypeOK, Existing
<1>3. BrowserTypeOK'
    BY <1>1 DEF BrowserTypeOK, Cookie
<1>4. Requests' /\ AccessTokens' /\ Quiet' /\ Leaving' /\ Refusing'
    BY <1>1 DEF BrowserInv, Requests, AccessTokens, Genuine, Quiet, Leaving, Refusing
<1>5. Heard'
    BY <1>1 DEF BrowserInv, Heard, Known
<1>6. InFlight'
    BY <1>1 DEF BrowserInv, InFlight, Heard
<1>7. JarIsAccounted' /\ Session'
    BY <1>1, <1>2 DEF BrowserInv, JarIsAccounted, Session, SessionOf
<1>8. SignedOutStaysOut'
    BY <1>1 DEF BrowserInv, SignedOutStaysOut
<1> QED BY <1>3, <1>4, <1>5, <1>6, <1>7, <1>8 DEF BrowserInv

\* What a reset ends elsewhere is spoilt.
LEMMA ElsewhereKeepsInv ==
    ASSUME BrowserInv, NEW S \in SUBSET Existing, NEW u \in User, Elsewhere(S, u)
    PROVE  BrowserInv'
<1> USE BrowserNoneIsNothing, BrowserMalformedIsNoToken
<1>1. /\ BrowserTypeOK
      /\ UNCHANGED <<rotated, refused, kind, cookie, about, bearer, began, answer, jar, access,
                     body, quiet, signedOut, identity>>
      /\ spoilt' = spoilt \cup S
      /\ S \subseteq Token
      /\ SigningIn' = SigningIn /\ Reading' = Reading
    BY DEF BrowserInv, Elsewhere, local, Existing, SigningIn, Reading
<1>2. /\ ledger' \in [Token -> [user: User, expires: Nat] \cup {None}]
      /\ Existing' = Existing \ S
      /\ \A x \in Token \ S : ledger'[x] = ledger[x]
      /\ gone' = gone \cup S /\ gone' \subseteq Token
      /\ now' = now
    BY <1>1, RevokeLemma DEF Elsewhere
<1>3. \A x \in Existing' : x \in Existing /\ ledger'[x] = ledger[x]
    BY <1>2 DEF Existing
<1>4. BrowserTypeOK'
    BY <1>1, <1>2 DEF BrowserTypeOK
<1>5. Requests' /\ AccessTokens' /\ Quiet' /\ Leaving' /\ SignedOutStaysOut'
    BY <1>1, <1>2 DEF BrowserInv, Requests, AccessTokens, Genuine, Quiet, Leaving, SignedOutStaysOut
<1>6. Known' = Known
    BY <1>1, <1>2 DEF Known
<1>7. Heard'
    BY <1>1, <1>2, <1>6 DEF BrowserInv, Heard
<1>8. InFlight'
    BY <1>1, <1>2, <1>3 DEF BrowserInv, InFlight
<1>9. JarIsAccounted'
    BY <1>1, <1>2 DEF BrowserInv, JarIsAccounted, Ending
<1>10. Session' /\ Refusing'
    BY <1>1, <1>3 DEF BrowserInv, Session, SessionOf, Refusing
<1> QED BY <1>4, <1>5, <1>7, <1>8, <1>9, <1>10 DEF BrowserInv

\* Time alone changes nothing.
LEMMA TickKeepsInv ==
    ASSUME BrowserInv, Tick
    PROVE  BrowserInv'
<1>1. /\ BrowserTypeOK /\ now \in Nat /\ now' = now + 1 /\ now' \in 0..MaxTime
      /\ UNCHANGED <<ledger, gone, rotated, refused, kind, cookie, about, bearer, began,
                     answer, jar, access, body, spoilt, quiet, signedOut, identity>>
      /\ Existing' = Existing /\ SigningIn' = SigningIn /\ Reading' = Reading /\ Known' = Known
    BY BrowserDurationsArePositive
    DEF BrowserInv, BrowserTypeOK, Tick, TimePasses, local, browser, Existing, SigningIn, Reading, Known
<1>2. BrowserTypeOK'
    BY <1>1 DEF BrowserTypeOK
<1>3. Requests'
    <2>1. \A r \in Request : began[r] # None => began[r] \in Nat
        BY <1>1, BrowserDurationsArePositive DEF BrowserTypeOK
    <2> QED BY <1>1, <2>1 DEF BrowserInv, Requests
<1>4. Heard' /\ InFlight' /\ JarIsAccounted' /\ Session' /\ Quiet' /\ SignedOutStaysOut' /\ Refusing'
    BY <1>1 DEF BrowserInv, Heard, InFlight, JarIsAccounted, Ending, Session, SessionOf, Quiet,
                SignedOutStaysOut, Refusing
<1>5. AccessTokens'
    <2>1. ASSUME NEW a, a \in AccessToken \cup {None}, Genuine(a) PROVE Genuine(a)'
        BY <1>1, <2>1 DEF Genuine, AccessToken
    <2>2. /\ access \in AccessToken \cup {None}
          /\ \A r \in Request : bearer[r] \in AccessToken \cup {None}
          /\ \A r \in Request : body[r] \in AccessToken \cup {None}
          /\ \A r \in Request : answer[r] # None => answer[r].access \in AccessToken \cup {None}
        BY <1>1 DEF BrowserTypeOK, Response
    <2>3. /\ Genuine(access)
          /\ \A r \in Request : Genuine(bearer[r]) /\ Genuine(body[r])
          /\ \A r \in Request : answer[r] # None => Genuine(answer[r].access)
        BY DEF BrowserInv, AccessTokens
    <2> QED BY <1>1, <2>1, <2>2, <2>3 DEF AccessTokens, Genuine
<1>6. Leaving'
    <2>1. signedOut # None => signedOut \in Nat
        BY <1>1, BrowserDurationsArePositive DEF BrowserTypeOK
    <2> QED BY <1>1, <2>1 DEF BrowserInv, Leaving
<1> QED BY <1>2, <1>3, <1>4, <1>5, <1>6 DEF BrowserInv

-----------------------------------------------------------------------------
\* Nothing has happened at first.
LEMMA BrowserInvInit == Init => BrowserInv
<1> SUFFICES ASSUME Init PROVE BrowserInv
    OBVIOUS
<1> USE BrowserNoneIsNothing, BrowserMalformedIsNoToken, BrowserDurationsArePositive
    DEF Init, LedgerInit
<1>1. BrowserTypeOK
    BY DEF BrowserTypeOK, Cookie
<1>2. Requests /\ Heard /\ InFlight
    BY DEF Requests, Heard, Known, Existing, InFlight
<1>3. JarIsAccounted /\ Session /\ SignedOutStaysOut
    BY DEF JarIsAccounted, Session, SessionOf, SignedOutStaysOut, Existing
<1>4. AccessTokens /\ Quiet /\ Leaving /\ Refusing
    BY DEF AccessTokens, Genuine, Quiet, Leaving, Refusing, Existing
<1> QED BY <1>1, <1>2, <1>3, <1>4 DEF BrowserInv

\* Every step keeps the invariant.
LEMMA BrowserStep == BrowserInv /\ [Next]_vars => BrowserInv'
<1> SUFFICES ASSUME BrowserInv, [Next]_vars PROVE BrowserInv'
    OBVIOUS
<1>1. CASE Tick
    BY <1>1, TickKeepsInv
<1>2. CASE DropCookie
    BY <1>2, DropCookieKeepsInv
<1>3. ASSUME NEW S \in SUBSET Existing, NEW u \in User, Elsewhere(S, u)
      PROVE  BrowserInv'
    BY <1>3, ElsewhereKeepsInv
<1>4. ASSUME NEW r \in Request, Asks(r)
      PROVE  BrowserInv'
    BY <1>4, SendKeepsInv
<1>5. ASSUME NEW r \in Request, Handles(r)
      PROVE  BrowserInv'
    BY <1>5, BeginKeepsInv, SignInKeepsInv, RefreshKeepsInv, LogoutKeepsInv, PlainKeepsInv
    DEF Handles
<1>6. ASSUME NEW r \in Request, Receive(r)
      PROVE  BrowserInv'
    BY <1>6, ReceiveKeepsInv
<1>7. ASSUME NEW r \in Request, Lose(r)
      PROVE  BrowserInv'
    BY <1>7, LoseKeepsInv
<1>8. ASSUME NEW r \in Request, Read(r) \/ LoseBody(r)
      PROVE  BrowserInv'
    BY <1>8, ReadKeepsInv
<1>9. CASE UNCHANGED vars
    <2> USE <1>9 DEF vars, server, local, browser
    <2>1. Existing' = Existing /\ SigningIn' = SigningIn /\ Reading' = Reading /\ Known' = Known
        BY DEF Existing, SigningIn, Reading, Known
    <2>2. BrowserTypeOK' /\ Requests' /\ Heard' /\ InFlight' /\ JarIsAccounted'
        BY <2>1 DEF BrowserInv, BrowserTypeOK, Requests, Heard, InFlight, JarIsAccounted, Ending
    <2>3. /\ Session' /\ AccessTokens' /\ Quiet' /\ Leaving'
          /\ SignedOutStaysOut' /\ Refusing'
        BY <2>1 DEF BrowserInv, Session, SessionOf, AccessTokens, Genuine, Quiet, Leaving,
                    SignedOutStaysOut, Refusing
    <2> QED BY <2>2, <2>3 DEF BrowserInv
<1> QED
    BY <1>1, <1>2, <1>3, <1>4, <1>5, <1>6, <1>7, <1>8, <1>9 DEF Next

\* The inductive invariant of Browser.
THEOREM BrowserInvariance == Spec => []BrowserInv
BY BrowserInvInit, BrowserStep, PTL DEF Spec

\* The variables of Browser keep their types.
THEOREM BrowserTypeCorrect == Spec => []BrowserTypeOK
<1>1. BrowserInv => BrowserTypeOK
    BY DEF BrowserInv
<1> QED BY BrowserInvariance, <1>1, PTL

\* Rotation does not lock an honest browser out, however its requests overlap.
THEOREM NotLockedOut == Spec => []HeldTokenIsGood
<1>1. BrowserInv => HeldTokenIsGood
    BY DEF BrowserInv, JarIsAccounted, Ending, HeldTokenIsGood
<1> QED BY BrowserInvariance, <1>1, PTL

\* Cookie and access token are of one user, unless a login was overlapped or its answer
\* is being read.
THEOREM IdentityIsOne == Spec => []OneIdentity
<1>1. BrowserInv => OneIdentity
    BY DEF BrowserInv, Session, SessionOf, OneIdentity
<1> QED BY BrowserInvariance, <1>1, PTL

\* A quiet logout is the end.
THEOREM LogoutIsTheEnd == Spec => []SignedOutStaysOut
<1>1. BrowserInv => SignedOutStaysOut
    BY DEF BrowserInv
<1> QED BY BrowserInvariance, <1>1, PTL

-----------------------------------------------------------------------------
\* A response appears by the doing of its own handler only.
LEMMA WhoAnswers ==
    ASSUME BrowserInv, [Next]_vars, NEW r \in Request, answer[r] = None, answer'[r] # None
    PROVE  \/ \E t \in Token : SignIn(r, t) \/ Refresh(r, t)
           \/ RefuseSignIn(r) \/ RefuseRefresh(r) \/ Logout(r) \/ GetProfile(r) \/ Fail(r)
<1>1. BrowserTypeOK
    BY DEF BrowserInv
<1>2. ASSUME NEW q \in Request, NEW response, Respond(q, response)
      PROVE  q = r
    BY <1>1, <1>2 DEF Respond, BrowserTypeOK
<1>3. ASSUME NEW q \in Request, Over(q)
      PROVE  FALSE
    BY <1>1, <1>3 DEF Over, BrowserTypeOK
<1>4. ASSUME NEW q \in Request, Handles(q)
      PROVE  q = r /\ ~ Begin(q)
    <2>1. ~ Begin(q)
        BY DEF Begin
    <2>2. ASSUME NEW response, Report(q, response) PROVE q = r
        BY <1>2, <2>2 DEF Report
    <2>3. CASE \E t \in Token : SignIn(q, t) \/ Refresh(q, t)
        BY <2>1, <2>2, <2>3 DEF SignIn, Refresh
    <2>4. CASE Logout(q)
        BY <1>2, <2>1, <2>2, <2>4 DEF Logout
    <2>5. CASE RefuseSignIn(q) \/ RefuseRefresh(q) \/ GetProfile(q) \/ Fail(q)
        BY <1>2, <2>1, <2>5 DEF RefuseSignIn, RefuseRefresh, GetProfile, Fail
    <2> QED BY <1>4, <2>1, <2>3, <2>4, <2>5 DEF Handles
<1>5. ~ Tick /\ ~ DropCookie /\ ~ UNCHANGED vars
    BY DEF Tick, DropCookie, vars
<1>6. \A S \in SUBSET Existing, u \in User : ~ Elsewhere(S, u)
    BY DEF Elsewhere
<1>7. \A q \in Request : ~ Asks(q) /\ ~ Receive(q) /\ ~ Lose(q) /\ ~ Read(q) /\ ~ LoseBody(q)
    BY <1>3 DEF Asks, Send, Receive, Lose, Read, LoseBody
<1> QED
    BY <1>4, <1>5, <1>6, <1>7 DEF Next, Handles

\* A refresh that begins after a refused one of the same token is refused or fails.
THEOREM RefusedForGood == Spec => RefusalIsFinal
<1>1. ASSUME BrowserInv, [Next]_vars, NEW r \in Request,
             answer[r] = None, answer'[r] # None, kind[r] = "refresh", cookie[r] \in Token,
             refused[cookie[r]] # None, began[r] >= refused[cookie[r]]
      PROVE  answer'[r].sets = None /\ ledger' = ledger
    <2>1. BrowserTypeOK /\ cookie[r] \in Token /\ kind[r] \in Kind /\ refused[cookie[r]] \in Nat
        BY <1>1, BrowserDurationsArePositive DEF BrowserInv, BrowserTypeOK, Kind
    <2>2. ASSUME NEW s \in Token, Refresh(r, s) PROVE FALSE
        <3>1. began[r] # None
            BY <1>1, <2>2 DEF Refresh, Handling
        <3>2. began[r] \in Nat
            BY <2>1, <3>1, BrowserDurationsArePositive DEF BrowserTypeOK
        <3>3. Rotate(cookie[r], s) /\ ledger'[cookie[r]].expires = began[r]
            BY <2>2 DEF Refresh
        <3>4. cookie[r] \in Existing /\ ledger'[cookie[r]].expires < ledger[cookie[r]].expires
            BY <2>1, <3>3, RotateLemma
        <3>5. ledger[cookie[r]].expires <= refused[cookie[r]]
            BY <1>1, <3>4 DEF BrowserInv, Refusing
        <3>6. ledger[cookie[r]].expires \in Nat
            BY <2>1, <3>4 DEF BrowserTypeOK, Existing
        <3> QED BY <1>1, <2>1, <3>2, <3>3, <3>4, <3>5, <3>6
    <2>3. CASE RefuseRefresh(r)
        BY <2>1, <2>3, PlainLemma DEF RefuseRefresh, Respond, BrowserTypeOK, StatusOf
    <2>4. CASE Fail(r)
        BY <2>1, <2>4, FailureLemma DEF Fail, Respond, BrowserTypeOK
    <2>5. ~ RefuseSignIn(r) /\ ~ Logout(r) /\ ~ GetProfile(r) /\ \A t \in Token : ~ SignIn(r, t)
        BY <1>1 DEF RefuseSignIn, Logout, GetProfile, SignIn, Handling
    <2> QED
        BY <1>1, <2>2, <2>3, <2>4, <2>5, WhoAnswers
<1>2. BrowserInv /\ [Next]_vars =>
        [\A r \in Request :
            /\ answer[r] = None /\ answer'[r] # None
            /\ kind[r] = "refresh"
            /\ cookie[r] \in Token
            /\ refused[cookie[r]] # None
            /\ began[r] >= refused[cookie[r]]
            => answer'[r].sets = None /\ ledger' = ledger]_vars
    BY <1>1
<1> QED
    BY <1>2, BrowserInvariance, PTL DEF Spec, RefusalIsFinal

\* An access token is good for JWT_DURATION less at most the fraction of a second.
THEOREM AccessEndsInTime == Spec => AccessIsTimely
<1>1. ASSUME BrowserInv, [Next]_vars, NEW r \in Request,
             answer[r] = None, answer'[r] # None, bearer[r] # None
      PROVE  LET end == bearer[r].signed + AccessDuration
             IN  CASE answer'[r].status = 200 -> now < end /\ about[r] = bearer[r].user
                   [] answer'[r].status = 401 -> now > end - Second
                   [] OTHER -> TRUE
    <2>1. BrowserTypeOK /\ kind[r] = "profile" /\ kind[r] \in Kind
        BY <1>1 DEF BrowserInv, Requests, Kind
    <2>2. /\ bearer[r] \in AccessToken /\ bearer[r].signed \in Nat
          /\ bearer[r].expires = Expires(bearer[r].signed)
          /\ now \in Nat /\ AccessDuration \in Nat /\ Second \in Nat
        BY <1>1, <2>1, BrowserDurationsArePositive
        DEF BrowserInv, AccessTokens, Genuine, BrowserTypeOK, AccessToken
    <2>3. /\ bearer[r].expires \in Nat
          /\ bearer[r].expires <= bearer[r].signed + AccessDuration
          /\ bearer[r].signed + AccessDuration < bearer[r].expires + Second
        BY <2>2, ExpiresLemma
    <2>4. CASE GetProfile(r)
        <3>1. ProfileStatus(bearer[r], about[r]) \in {200, 401, 403}
            BY DEF ProfileStatus, StatusOf
        <3>2. answer'[r].status = ProfileStatus(bearer[r], about[r])
            BY <2>1, <2>4, <3>1, PlainLemma DEF GetProfile, Respond, BrowserTypeOK
        <3>3. ProfileStatus(bearer[r], about[r]) = 200 =>
                 now < bearer[r].expires /\ about[r] = bearer[r].user
            BY DEF ProfileStatus, StatusOf, Validates
        <3>4. ProfileStatus(bearer[r], about[r]) = 401 => ~ (now < bearer[r].expires)
            BY <1>1 DEF ProfileStatus, StatusOf, Validates
        <3> QED BY <2>2, <2>3, <3>1, <3>2, <3>3, <3>4
    <2>5. CASE Fail(r)
        BY <2>1, <2>5, FailureLemma DEF Fail, Respond, BrowserTypeOK
    <2>6. /\ ~ RefuseSignIn(r) /\ ~ Logout(r) /\ ~ RefuseRefresh(r)
          /\ \A t \in Token : ~ SignIn(r, t) /\ ~ Refresh(r, t)
        BY <2>1 DEF RefuseSignIn, Logout, RefuseRefresh, Refresh, SignIn, Handling
    <2> QED
        BY <1>1, <2>4, <2>5, <2>6, WhoAnswers
<1>2. BrowserInv /\ [Next]_vars =>
        [\A r \in Request :
            answer[r] = None /\ answer'[r] # None /\ bearer[r] # None =>
              LET end == bearer[r].signed + AccessDuration
              IN  CASE answer'[r].status = 200 -> now < end /\ about[r] = bearer[r].user
                    [] answer'[r].status = 401 -> now > end - Second
                    [] OTHER -> TRUE]_vars
    BY <1>1
<1> QED
    BY <1>2, BrowserInvariance, PTL DEF Spec, AccessIsTimely
-----------------------------------------------------------------------------
\* What is joined to the ledger here, a browser, the handlers and other clients, never
\* asks of it what TokenLedger does not allow: each step is a sign-in, a rotation,
\* a revocation or a tick of the ledger, or leaves it alone.
THEOREM BrowserKeepsLedger == Spec => LedgerSpec
<1> DEFINE entries == <<now, ledger, gone>>
<1>1. Init => LedgerInit
    BY DEF Init
<1>2. BrowserInv /\ [Next]_vars => [LedgerNext]_entries
    <2> SUFFICES ASSUME BrowserInv, [Next]_vars PROVE LedgerNext \/ UNCHANGED entries
        OBVIOUS
    <2>1. CASE Tick
        BY <2>1 DEF Tick, LedgerNext
    <2>2. ASSUME NEW S \in SUBSET Existing, NEW u \in User, Elsewhere(S, u)
          PROVE  LedgerNext
        BY <2>2 DEF Elsewhere, LedgerNext
    <2>3. ASSUME NEW r \in Request, NEW t \in Token, SignIn(r, t)
          PROVE  LedgerNext
        <3>1. about[r] \in User /\ Issue(t, about[r])
            BY <2>3 DEF BrowserInv, Requests, Heard, SignIn, Handling, Kind
        <3> QED BY <3>1 DEF LedgerNext
    <2>4. ASSUME NEW r \in Request, NEW s \in Token, Refresh(r, s)
          PROVE  LedgerNext
        <3>1. Rotate(cookie[r], s) /\ cookie[r] \in Token
            BY <2>4 DEF Refresh, Rotate, Existing
        <3> QED BY <3>1 DEF LedgerNext
    <2>5. ASSUME NEW r \in Request, Logout(r)
          PROVE  LedgerNext \/ UNCHANGED entries
        <3>1. CASE cookie[r] \in Existing
            <4>1. ledger[cookie[r]].user \in User /\ {cookie[r]} \in SUBSET Existing
                BY <3>1 DEF BrowserInv, BrowserTypeOK, Existing
            <4>2. Revoke({cookie[r]}, ledger[cookie[r]].user)
                BY <2>5, <3>1 DEF Logout
            <4> QED BY <4>1, <4>2 DEF LedgerNext
        <3> QED BY <2>5, <3>1 DEF Logout
    <2>6. ASSUME NEW r \in Request,
                 RefuseSignIn(r) \/ RefuseRefresh(r) \/ GetProfile(r) \/ Fail(r)
          PROVE  UNCHANGED entries
        BY <2>6 DEF RefuseSignIn, RefuseRefresh, GetProfile, Fail
    <2>7. ASSUME NEW r \in Request, Asks(r) \/ Begin(r) \/ Receive(r) \/ Lose(r) \/ Read(r) \/ LoseBody(r)
          PROVE  UNCHANGED entries
        BY <2>7 DEF Asks, Send, Begin, Receive, Lose, Read, LoseBody, server
    <2>8. CASE DropCookie \/ UNCHANGED vars
        BY <2>8 DEF DropCookie, vars, server
    <2> QED
        BY <2>1, <2>2, <2>3, <2>4, <2>5, <2>6, <2>7, <2>8 DEF Next, Handles
<1> QED
    BY <1>1, <1>2, BrowserInvariance, PTL DEF Spec, LedgerSpec
=============================================================================
