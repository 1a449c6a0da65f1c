------------------------------ MODULE AuthFlow ------------------------------
(***************************************************************************)
(* Sign-in: Begin, Complete, ReadSession and Logout of internal/auth, and  *)
(* the handlers of internal/web/admin.go around them.  One browser has     *)
(* several tabs, each of which signs in once, and they share its cookies;  *)
(* a request carries the cookies the browser has when it is sent, and the  *)
(* answer changes them when it arrives.                                    *)
(*                                                                         *)
(* The state and the PKCE verifier of a login are fresh random values, so  *)
(* a login is named by the tab that began it.  A cookie is what is sealed  *)
(* in it.  The clock is the server's; the browser keeps a cookie for its   *)
(* Max-Age, counted from when it gets it.                                  *)
(***************************************************************************)
EXTENDS Integers

CONSTANTS
    Tabs,       \* the tabs that sign in
    Users,      \* the accounts at the identity provider
    Authors,    \* those in the author group
    None,       \* no cookie, no holder of the mutex, no user
    LoginTTL,   \* how long a login may take
    SessionTTL, \* how long a session lasts
    MaxTime,    \* the clock stops here (bound)
    MaxFaults   \* outages of the provider and restarts of the server (bound)

\* What the two cookies may hold.
LoginStates == [tab : Tabs, expires : Nat, dropped : Nat]
Sessions == [tab : Tabs, user : Users, expires : Nat, dropped : Nat]

ASSUME AuthAssumption ==
    /\ None \notin Tabs \cup Users \cup LoginStates \cup Sessions
    /\ Authors \subseteq Users
    /\ LoginTTL \in Nat \ {0} /\ SessionTTL \in Nat \ {0}
    /\ MaxTime \in Nat /\ MaxFaults \in Nat

VARIABLES
    now,      \* time.Now
    up,       \* the identity provider answers
    faults,   \* how many outages and restarts there were (bound)
    cached,   \* a.oauth # nil: discovery has succeeded
    mu,       \* the holder of a.mu
    login,    \* the browser's login cookie
    session,  \* the browser's session cookie
    pc,       \* where each tab's sign-in is
    user,     \* who signs in at the provider in each tab
    carried,  \* the login cookie that each callback carries
    begun,    \* when each login was sealed
    issued,   \* when each session was sealed
    visit,    \* the session cookie that an admin request carries
    cause     \* history: what got in the way of each sign-in

world == <<now, up, faults>>
server == <<cached, mu>>
jar == <<login, session>>
tabs == <<user, carried, begun, issued>>
vars == <<world, server, jar, pc, tabs, visit, cause>>

\* The sealed content of a cookie, and when the browser that gets it now drops it.
LoginState(t) == [tab |-> t, expires |-> begun[t] + LoginTTL, dropped |-> now + LoginTTL]
\* Mutant: the session's lifetime counts from the start of the login.
SessionFromBegin(t) ==
    [tab |-> t, user |-> user[t], expires |-> begun[t] + SessionTTL, dropped |-> now + SessionTTL]

Session(t) ==
    [tab |-> t, user |-> user[t], expires |-> issued[t] + SessionTTL, dropped |-> now + SessionTTL]

Init ==
    /\ now = 0 /\ up \in BOOLEAN /\ faults = 0
    /\ cached = FALSE /\ mu = None
    /\ login = None /\ session = None
    /\ pc = [t \in Tabs |-> "closed"]
    /\ user \in [Tabs -> Users]
    /\ carried = [t \in Tabs |-> None]
    /\ begun = [t \in Tabs |-> 0]
    /\ issued = [t \in Tabs |-> 0]
    /\ visit = None
    /\ cause = [t \in Tabs |-> {}]

Goto(t, label) == pc' = [pc EXCEPT ![t] = label]

\* The places at which a request is at the server, or its answer on the way.
AtServer == {"begin", "discover for begin", "seal", "callback",
             "discover for callback", "check", "exchange"}
Answering == {"redirecting", "refusing", "signing in"}

\* Something outside the handlers disturbs these tabs' sign-ins.
Disturb(ts, what) ==
    cause' = [t \in Tabs |-> IF t \in ts THEN cause[t] \cup {what} ELSE cause[t]]

-----------------------------------------------------------------------------
(* The browser and the provider *)

\* A tab asks for /auth/login.
Open(t) ==
    /\ pc[t] = "closed"
    /\ Goto(t, "begin")
    /\ UNCHANGED <<world, server, jar, tabs, visit, cause>>

\* The redirect to the provider arrives, with the login cookie: a login of
\* another tab is forgotten.
Redirected(t) ==
    /\ pc[t] = "redirecting"
    /\ login' = LoginState(t)
    /\ Disturb({u \in Tabs \ {t} : login # None /\ login.tab = u}, "overwritten")
    /\ Goto(t, "provider")
    /\ UNCHANGED <<world, server, session, tabs, visit>>

\* The user signs in, and the provider sends the tab to /auth/callback, with the
\* state of this tab's login and the cookie the browser has by now.
SignIn(t) ==
    /\ pc[t] = "provider" /\ up
    /\ carried' = [carried EXCEPT ![t] = login]
    /\ Goto(t, "callback")
    /\ UNCHANGED <<world, server, jar, user, begun, issued, visit, cause>>

\* Mutant: the callback's answer leaves the login cookie.
LoginKept == login
LoginCleared == None

\* The callback's answer arrives; whichever login cookie there is goes.
Answered(t) ==
    /\ pc[t] \in {"refusing", "signing in"}
    /\ login' = LoginCleared
    /\ session' = IF pc[t] = "signing in" THEN Session(t) ELSE session
    /\ Disturb({u \in Tabs \ {t} : login # None /\ login.tab = u}, "cleared")
    /\ Goto(t, IF pc[t] = "signing in" THEN "done" ELSE "failed")
    /\ UNCHANGED <<world, server, tabs, visit>>

\* /auth/logout, request and answer.
Logout ==
    /\ session # None
    /\ session' = None
    /\ UNCHANGED <<world, server, login, pc, tabs, visit, cause>>

\* Time passes; cookies reach their Max-Age, logins their TTL.
Tick ==
    /\ now < MaxTime
    /\ now' = now + 1
    /\ login' = IF login # None /\ login.dropped <= now' THEN None ELSE login
    /\ session' = IF session # None /\ session.dropped <= now' THEN None ELSE session
    /\ Disturb({t \in Tabs : pc[t] \notin {"closed", "begin", "discover for begin", "seal"}
                               /\ begun[t] + LoginTTL <= now'}, "late")
    /\ UNCHANGED <<up, faults, server, pc, tabs, visit>>

ProviderDown ==
    /\ up /\ faults < MaxFaults
    /\ up' = FALSE /\ faults' = faults + 1
    /\ UNCHANGED <<now, server, jar, pc, tabs, visit, cause>>

ProviderUp ==
    /\ ~up /\ up' = TRUE
    /\ UNCHANGED <<now, faults, server, jar, pc, tabs, visit, cause>>

-----------------------------------------------------------------------------
(* setup: discovery, under the mutex *)

\* Where Begin and Complete go on once setup has returned.
AfterSetup(t) == IF pc[t] \in {"begin", "discover for begin"} THEN "seal" ELSE "check"

\* setup finds the provider discovered before.
SetupCached(t) ==
    /\ pc[t] \in {"begin", "callback"} /\ mu = None /\ cached
    /\ Goto(t, AfterSetup(t))
    /\ UNCHANGED <<world, server, jar, tabs, visit, cause>>

\* It does not, and asks the provider while it holds the mutex.
Discover(t) ==
    /\ pc[t] \in {"begin", "callback"} /\ mu = None /\ ~cached
    /\ mu' = t
    /\ Goto(t, IF pc[t] = "begin" THEN "discover for begin" ELSE "discover for callback")
    /\ UNCHANGED <<world, cached, jar, tabs, visit, cause>>

Discovering(t) == pc[t] \in {"discover for begin", "discover for callback"}

\* Mutant: a return without the deferred unlock.
StillLocked == mu
Unlocked == None

DiscoveryWorks(t) ==
    /\ Discovering(t) /\ up
    /\ cached' = TRUE /\ mu' = None
    /\ Goto(t, AfterSetup(t))
    /\ UNCHANGED <<world, jar, tabs, visit, cause>>

\* Only success is cached; the sign-in fails, and the browser keeps its cookies.
DiscoveryFails(t) ==
    /\ Discovering(t) /\ ~up
    /\ mu' = Unlocked
    /\ Goto(t, "failed")
    /\ Disturb({t}, "provider")
    /\ UNCHANGED <<world, cached, jar, tabs, visit>>

-----------------------------------------------------------------------------
(* Begin and Complete *)

\* Begin seals a fresh state, verifier and expiry.
Seal(t) ==
    /\ pc[t] = "seal"
    /\ begun' = [begun EXCEPT ![t] = now]
    /\ Goto(t, "redirecting")
    /\ UNCHANGED <<world, server, jar, user, carried, issued, visit, cause>>

\* Mutant: the comparison is the wrong way round.
ExpiredEarly(cookie) == now < cookie.expires
Expired(cookie) == now > cookie.expires

\* No cookie, and nothing to clear; a cookie that is late, or that another tab
\* has overwritten, is cleared; the rest goes on to the exchange.
Check(t) ==
    /\ pc[t] = "check"
    /\ Goto(t, IF carried[t] = None THEN "failed"
               ELSE IF Expired(carried[t]) \/ carried[t].tab # t THEN "refusing"
               ELSE "exchange")
    /\ UNCHANGED <<world, server, jar, tabs, visit, cause>>

\* The code is exchanged, the token verified, the session sealed: the provider
\* wants the verifier of the login that the code was made for.
Exchange(t) ==
    /\ pc[t] = "exchange" /\ up /\ carried[t].tab = t
    /\ issued' = [issued EXCEPT ![t] = now]
    /\ Goto(t, "signing in")
    /\ UNCHANGED <<world, server, jar, user, carried, begun, visit, cause>>

ExchangeFails(t) ==
    /\ pc[t] = "exchange" /\ (~up \/ carried[t].tab # t)
    /\ Goto(t, "refusing")
    /\ Disturb({u \in {t} : ~up}, "provider")
    /\ UNCHANGED <<world, server, jar, tabs, visit>>

\* The server restarts: requests in it are lost, cookies are not.
Restart ==
    /\ faults < MaxFaults
    /\ faults' = faults + 1
    /\ cached' = FALSE /\ mu' = None
    /\ pc' = [t \in Tabs |-> IF pc[t] \in AtServer THEN "failed" ELSE pc[t]]
    /\ Disturb({t \in Tabs : pc[t] \in AtServer}, "restart")
    /\ UNCHANGED <<now, up, jar, tabs, visit>>

-----------------------------------------------------------------------------
(* requireAuthor *)

\* An admin page is asked for, with the session cookie the browser has.
Visit ==
    /\ visit = None /\ session # None
    /\ visit' = session
    /\ UNCHANGED <<world, server, jar, pc, tabs, cause>>

\* Mutant: the browser is left to drop the cookie in time.
AnyAge(cookie) == TRUE
Valid(cookie) == now < cookie.expires

Admits(cookie) == Valid(cookie) /\ cookie.user \in Authors

\* The handler runs.
Admit ==
    /\ visit # None /\ Admits(visit)
    /\ visit' = None
    /\ UNCHANGED <<world, server, jar, pc, tabs, cause>>

\* No valid session: 401, the sign-in page.
Unauthorized ==
    /\ visit # None /\ ~Valid(visit)
    /\ visit' = None
    /\ UNCHANGED <<world, server, jar, pc, tabs, cause>>

\* A session without the author group: 403, the page with the note on it.
Forbidden ==
    /\ visit # None /\ Valid(visit) /\ ~Admits(visit)
    /\ visit' = None
    /\ UNCHANGED <<world, server, jar, pc, tabs, cause>>

-----------------------------------------------------------------------------
Handler(t) ==
    \/ SetupCached(t) \/ Discover(t) \/ DiscoveryWorks(t) \/ DiscoveryFails(t)
    \/ Seal(t) \/ Check(t) \/ Exchange(t) \/ ExchangeFails(t)

Network(t) == Redirected(t) \/ Answered(t)

Next ==
    \/ \E t \in Tabs : Open(t) \/ SignIn(t) \/ Handler(t) \/ Network(t)
    \/ Logout \/ Tick \/ ProviderDown \/ ProviderUp \/ Restart
    \/ Visit \/ Admit \/ Unauthorized \/ Forbidden

Spec == Init /\ [][Next]_vars

\* Handlers run, and their answers arrive; nothing else is forced.
FairSpec == Spec /\ \A t \in Tabs : WF_vars(Handler(t)) /\ WF_vars(Network(t))

-----------------------------------------------------------------------------
(* What must hold *)

LoginCookies == LoginStates \cup {None}
SessionCookies == Sessions \cup {None}

\* Every variable has its type.
TypeOK ==
    /\ now \in 0..MaxTime /\ up \in BOOLEAN /\ faults \in 0..MaxFaults
    /\ cached \in BOOLEAN /\ mu \in Tabs \cup {None}
    /\ login \in LoginCookies /\ session \in SessionCookies /\ visit \in SessionCookies
    /\ pc \in [Tabs -> {"closed", "provider", "done", "failed"} \cup AtServer \cup Answering]
    /\ user \in [Tabs -> Users]
    /\ carried \in [Tabs -> LoginCookies]
    /\ begun \in [Tabs -> 0..MaxTime] /\ issued \in [Tabs -> 0..MaxTime]
    /\ cause \in [Tabs -> SUBSET {"overwritten", "cleared", "late", "provider", "restart"}]

\* A sign-in that nothing disturbed succeeds: it fails only if another tab
\* overwrote or cleared its cookie, it took too long, the server restarted, or
\* the provider was down when this very sign-in needed it.  In particular a
\* failed discovery is retried by the next login (oidc.go:75-76).
FailuresHaveCause == \A t \in Tabs : pc[t] \in {"refusing", "failed"} => cause[t] # {}

\* "The login cookie exists only for the redirect round trip": it does not
\* outlive the sign-in that it served.
LoginCookieSpent == login # None => pc[login.tab] # "done"

\* A session is that of the user who signed in, in a tab that finished its own
\* login; no two tabs' logins get mixed up, however their cookies cross.
SessionsEarned ==
    \A cookie \in {session, visit} \ {None} :
        LET t == cookie.tab IN
        /\ pc[t] = "done" /\ cookie.user = user[t]
        /\ carried[t] # None /\ carried[t].tab = t
        /\ cookie.expires = issued[t] + SessionTTL /\ begun[t] <= issued[t]

\* The admin handlers run for authors only, who signed in less than the session's
\* lifetime ago, also when the request was long on its way.
AuthorsOnly ==
    [][Admit => LET t == visit.tab IN user[t] \in Authors /\ now < issued[t] + SessionTTL]_vars

\* Each request of a sign-in is answered: no tab waits for the mutex for ever.
EveryRequestAnswered ==
    \A t \in Tabs : pc[t] \in AtServer \cup Answering ~> pc[t] \notin AtServer \cup Answering
=============================================================================
