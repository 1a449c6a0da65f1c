--------------------------- MODULE AuthFlowProofs ---------------------------
(***************************************************************************)
(* Theorems about AuthFlow, for any number of tabs and users, any          *)
(* lifetimes, and any outages and restarts.                                *)
(***************************************************************************)
EXTENDS AuthFlow, TLAPS

(* Type correctness *)

\* The bounds are numbers, and no lifetime is zero.
LEMMA Numbers ==
    /\ LoginTTL \in Nat /\ LoginTTL > 0 /\ SessionTTL \in Nat /\ SessionTTL > 0
    /\ MaxTime \in Nat /\ MaxFaults \in Nat
BY AuthAssumption

\* The clock stays below its bound.
LEMMA TickType == now \in 0..MaxTime /\ Tick => now' \in 0..MaxTime
<1> SUFFICES ASSUME now \in 0..MaxTime, Tick
             PROVE  now' \in 0..MaxTime
  OBVIOUS
<1>1. now < MaxTime /\ now' = now + 1
  BY DEF Tick
<1>2. QED
  BY <1>1, Numbers

LEMMA InitType == Init => TypeOK
<1> SUFFICES ASSUME Init
             PROVE  TypeOK
  OBVIOUS
<1>1. now \in 0..MaxTime /\ faults \in 0..MaxFaults
  BY AuthAssumption DEF Init
<1>2. begun \in [Tabs -> 0..MaxTime] /\ issued \in [Tabs -> 0..MaxTime]
  BY AuthAssumption DEF Init
<1>3. carried \in [Tabs -> LoginCookies]
  BY DEF Init, LoginCookies
<1>4. QED
  BY <1>1, <1>2, <1>3 DEF Init, TypeOK, LoginCookies, SessionCookies

\* What is sealed into the cookies has the type of a cookie.
LEMMA SealedTypes ==
    ASSUME TypeOK, NEW t \in Tabs
    PROVE  LoginState(t) \in LoginStates /\ Session(t) \in Sessions
BY AuthAssumption DEF TypeOK, LoginState, Session, LoginStates, Sessions

\* Disturbing some tabs keeps the type of cause.
LEMMA DisturbType ==
    ASSUME TypeOK, NEW ts,
           NEW what \in {"overwritten", "cleared", "late", "provider", "restart"},
           Disturb(ts, what)
    PROVE  cause' \in [Tabs -> SUBSET {"overwritten", "cleared", "late", "provider", "restart"}]
BY DEF TypeOK, Disturb

LEMMA StepType == TypeOK /\ [Next]_vars => TypeOK'
<1> SUFFICES ASSUME TypeOK, [Next]_vars
             PROVE  TypeOK'
  OBVIOUS
<1> USE DEF TypeOK, world, server, jar, tabs
<1>1. ASSUME NEW t \in Tabs, Open(t) \/ SetupCached(t) \/ Discover(t)
      PROVE  TypeOK'
  BY <1>1 DEF Open, SetupCached, Discover, Goto, AfterSetup, AtServer
<1>2. ASSUME NEW t \in Tabs, Redirected(t)
      PROVE  TypeOK'
  <2>1. login' \in LoginCookies
    BY <1>2, SealedTypes DEF Redirected, LoginCookies
  <2>2. cause' \in [Tabs -> SUBSET {"overwritten", "cleared", "late", "provider", "restart"}]
    BY <1>2, DisturbType DEF Redirected
  <2>3. QED
    BY <1>2, <2>1, <2>2 DEF Redirected, Goto
<1>3. ASSUME NEW t \in Tabs, SignIn(t)
      PROVE  TypeOK'
  BY <1>3 DEF SignIn, Goto, AtServer
<1>4. ASSUME NEW t \in Tabs, Answered(t)
      PROVE  TypeOK'
  <2>1. login' \in LoginCookies /\ session' \in SessionCookies
    BY <1>4, SealedTypes DEF Answered, LoginCleared, LoginCookies, SessionCookies
  <2>2. cause' \in [Tabs -> SUBSET {"overwritten", "cleared", "late", "provider", "restart"}]
    BY <1>4, DisturbType DEF Answered
  <2>3. QED
    BY <1>4, <2>1, <2>2 DEF Answered, Goto
<1>5. ASSUME NEW t \in Tabs, DiscoveryWorks(t) \/ DiscoveryFails(t)
      PROVE  TypeOK'
  <2>1. cause' \in [Tabs -> SUBSET {"overwritten", "cleared", "late", "provider", "restart"}]
    BY <1>5, DisturbType DEF DiscoveryWorks, DiscoveryFails
  <2>2. QED
    BY <1>5, <2>1 DEF DiscoveryWorks, DiscoveryFails, Unlocked, Goto, AfterSetup, AtServer
<1>6. ASSUME NEW t \in Tabs, Seal(t) \/ Check(t) \/ Exchange(t)
      PROVE  TypeOK'
  <2>1. CASE Seal(t)
    BY <2>1 DEF Seal, Goto, Answering
  <2>2. CASE Check(t)
    BY <2>2 DEF Check, Goto, AtServer, Answering
  <2>3. CASE Exchange(t)
    BY <2>3 DEF Exchange, Goto, Answering
  <2>4. QED
    BY <1>6, <2>1, <2>2, <2>3
<1>7. ASSUME NEW t \in Tabs, ExchangeFails(t)
      PROVE  TypeOK'
  <2>1. cause' \in [Tabs -> SUBSET {"overwritten", "cleared", "late", "provider", "restart"}]
    BY <1>7, DisturbType DEF ExchangeFails
  <2>2. QED
    BY <1>7, <2>1 DEF ExchangeFails, Goto, Answering
<1>8. ASSUME Tick
      PROVE  TypeOK'
  <2>1. cause' \in [Tabs -> SUBSET {"overwritten", "cleared", "late", "provider", "restart"}]
    BY <1>8, DisturbType DEF Tick
  <2>2. now' \in 0..MaxTime
    BY <1>8, TickType
  <2>3. login' \in LoginCookies /\ session' \in SessionCookies
    BY <1>8, Zenon DEF Tick, LoginCookies, SessionCookies
  <2>4. QED
    BY <1>8, <2>1, <2>2, <2>3 DEF Tick
<1>9. ASSUME Restart
      PROVE  TypeOK'
  <2>1. cause' \in [Tabs -> SUBSET {"overwritten", "cleared", "late", "provider", "restart"}]
    BY <1>9, DisturbType DEF Restart
  <2>2. faults' \in 0..MaxFaults
    BY <1>9, Numbers DEF Restart
  <2>3. QED
    BY <1>9, <2>1, <2>2 DEF Restart
<1>10. ASSUME ProviderDown \/ ProviderUp \/ Logout
       PROVE  TypeOK'
  <2>1. faults' \in 0..MaxFaults
    BY <1>10, Numbers DEF ProviderDown, ProviderUp, Logout
  <2>2. QED
    BY <1>10, <2>1 DEF ProviderDown, ProviderUp, Logout, SessionCookies
<1>11. ASSUME Visit \/ Admit \/ Unauthorized \/ Forbidden
       PROVE  TypeOK'
  BY <1>11 DEF Visit, Admit, Unauthorized, Forbidden, SessionCookies
<1>12. ASSUME UNCHANGED vars
       PROVE  TypeOK'
  BY <1>12 DEF vars
<1>13. QED
  BY <1>1, <1>2, <1>3, <1>4, <1>5, <1>6, <1>7, <1>8, <1>9, <1>10, <1>11, <1>12
     DEF Next, Handler, Network

\* Every variable keeps its type.
THEOREM TypeCorrect == Spec => []TypeOK
BY InitType, StepType, PTL DEF Spec

-----------------------------------------------------------------------------
(* What a sign-in in progress relies on *)

\* The clock does not run backwards.
ClockOK == \A t \in Tabs : begun[t] <= now /\ issued[t] <= now

\* A sealed login whose time is over is known to be late.
LateOK ==
    \A t \in Tabs :
        /\ pc[t] \in {"redirecting", "provider", "callback", "discover for callback", "check"}
        /\ begun[t] + LoginTTL <= now
        => "late" \in cause[t]

\* The cookie is the one that this tab's login was sealed in.
Own(t, cookie) ==
    /\ cookie # None /\ cookie.tab = t
    /\ cookie.expires = begun[t] + LoginTTL /\ cookie.expires <= cookie.dropped

\* While the user is at the provider the jar holds the tab's own login, and
\* until it is checked the callback carries it, unless something got in the way.
UndisturbedOK ==
    \A t \in Tabs :
        /\ pc[t] = "provider" => cause[t] # {} \/ Own(t, login)
        /\ pc[t] \in {"callback", "discover for callback", "check"} =>
              cause[t] # {} \/ Own(t, carried[t])

\* Only a callback that carries its own login gets to the exchange, and from
\* there to a session.
ExchangeOK ==
    \A t \in Tabs :
        /\ pc[t] \in {"exchange", "signing in", "done"} =>
              carried[t] # None /\ carried[t].tab = t
        /\ pc[t] \in {"signing in", "done"} => begun[t] <= issued[t]

AuthInv ==
    /\ ClockOK /\ LateOK /\ UndisturbedOK /\ ExchangeOK
    /\ FailuresHaveCause /\ LoginCookieSpent /\ SessionsEarned
\* What the proof needs of the types.
LEMMA Types ==
    ASSUME TypeOK
    PROVE  /\ now \in Nat /\ begun \in [Tabs -> Nat] /\ issued \in [Tabs -> Nat]
           /\ pc = [t \in Tabs |-> pc[t]] /\ carried = [t \in Tabs |-> carried[t]]
           /\ cause = [t \in Tabs |-> cause[t]]
           /\ login # None => /\ login.tab \in Tabs
                              /\ login.expires \in Nat /\ login.dropped \in Nat
           /\ session # None => session.tab \in Tabs
           /\ visit # None => visit.tab \in Tabs
           /\ \A t \in Tabs : carried[t] # None => carried[t].expires \in Nat
BY AuthAssumption DEF TypeOK, LoginCookies, SessionCookies, LoginStates, Sessions

LEMMA InitInv == Init => AuthInv
BY Numbers DEF Init, AuthInv, ClockOK, LateOK, UndisturbedOK, ExchangeOK, FailuresHaveCause,
   LoginCookieSpent, SessionsEarned

LEMMA StepInv == TypeOK /\ AuthInv /\ [Next]_vars => AuthInv'
<1> SUFFICES ASSUME TypeOK, AuthInv, [Next]_vars
             PROVE  AuthInv'
  OBVIOUS
<1> USE Types, Numbers DEF world, server, jar, tabs
<1>1. ASSUME NEW t \in Tabs, Open(t)
      PROVE  AuthInv'
  <2>1. ClockOK' /\ LateOK'
    BY <1>1 DEF AuthInv, Open, Goto, ClockOK, LateOK
  <2>2. UndisturbedOK'
    BY <1>1 DEF AuthInv, Open, Goto, UndisturbedOK, Own
  <2>3. ExchangeOK'
    BY <1>1 DEF AuthInv, Open, Goto, ExchangeOK
  <2>4. FailuresHaveCause' /\ LoginCookieSpent'
    BY <1>1 DEF AuthInv, Open, Goto, FailuresHaveCause, LoginCookieSpent
  <2>5. SessionsEarned'
    BY <1>1 DEF AuthInv, Open, Goto, SessionsEarned
  <2>6. QED
    BY <2>1, <2>2, <2>3, <2>4, <2>5 DEF AuthInv
<1>2. ASSUME NEW t \in Tabs, Redirected(t)
      PROVE  AuthInv'
  <2>1. ClockOK' /\ LateOK'
    BY <1>2 DEF AuthInv, Redirected, LoginState, Disturb, Goto, ClockOK, LateOK
  <2>2. UndisturbedOK'
    <3>1. Own(t, login)'
      <4>1. login' = LoginState(t) /\ begun' = begun /\ LoginState(t) # None
        BY <1>2, SealedTypes, AuthAssumption DEF Redirected
      <4>2. /\ LoginState(t).tab = t /\ LoginState(t).expires = begun[t] + LoginTTL
            /\ LoginState(t).dropped = now + LoginTTL
        BY DEF LoginState
      <4>3. begun[t] + LoginTTL <= now + LoginTTL
        BY DEF AuthInv, ClockOK
      <4>4. QED
        BY <4>1, <4>2, <4>3 DEF Own
    <3>2. \A u \in Tabs \ {t} : pc'[u] = pc[u]
                                /\ (cause[u] # {} => cause'[u] # {})
                                /\ (Own(u, login) => cause'[u] # {})
      BY <1>2 DEF Redirected, Goto, Disturb, Own
    <3>3. pc'[t] = "provider" /\ carried' = carried /\ begun' = begun
      BY <1>2 DEF Redirected, Goto
    <3>4. QED
      BY <3>1, <3>2, <3>3 DEF AuthInv, UndisturbedOK, Own
  <2>3. ExchangeOK'
    BY <1>2 DEF AuthInv, Redirected, LoginState, Disturb, Goto, ExchangeOK
  <2>4. FailuresHaveCause' /\ LoginCookieSpent'
    BY <1>2 DEF AuthInv, Redirected, LoginState, Disturb, Goto, FailuresHaveCause, LoginCookieSpent
  <2>5. SessionsEarned'
    BY <1>2 DEF AuthInv, Redirected, LoginState, Disturb, Goto, SessionsEarned
  <2>6. QED
    BY <2>1, <2>2, <2>3, <2>4, <2>5 DEF AuthInv
<1>3. ASSUME NEW t \in Tabs, SignIn(t)
      PROVE  AuthInv'
  <2>1. ClockOK' /\ LateOK'
    BY <1>3 DEF AuthInv, SignIn, Goto, ClockOK, LateOK
  <2>2. UndisturbedOK'
    BY <1>3 DEF AuthInv, SignIn, Goto, UndisturbedOK, Own
  <2>3. ExchangeOK'
    BY <1>3 DEF AuthInv, SignIn, Goto, ExchangeOK
  <2>4. FailuresHaveCause' /\ LoginCookieSpent'
    BY <1>3 DEF AuthInv, SignIn, Goto, FailuresHaveCause, LoginCookieSpent
  <2>5. SessionsEarned'
    BY <1>3 DEF AuthInv, SignIn, Goto, SessionsEarned
  <2>6. QED
    BY <2>1, <2>2, <2>3, <2>4, <2>5 DEF AuthInv
<1>4. ASSUME NEW t \in Tabs, Answered(t)
      PROVE  AuthInv'
  <2>1. ClockOK' /\ LateOK'
    BY <1>4 DEF AuthInv, Answered, LoginCleared, Session, Disturb, Goto, ClockOK, LateOK
  <2>2. UndisturbedOK'
    BY <1>4 DEF AuthInv, Answered, LoginCleared, Session, Disturb, Goto, UndisturbedOK, Own
  <2>3. ExchangeOK'
    BY <1>4 DEF AuthInv, Answered, LoginCleared, Session, Disturb, Goto, ExchangeOK
  <2>4. FailuresHaveCause' /\ LoginCookieSpent'
    BY <1>4 DEF AuthInv, Answered, LoginCleared, Session, Disturb, Goto, FailuresHaveCause, LoginCookieSpent
  <2>5. SessionsEarned'
    <3>1. CASE pc[t] = "refusing"
      BY <1>4, <3>1 DEF AuthInv, Answered, Goto, SessionsEarned
    <3>2. CASE pc[t] = "signing in"
      <4>1. /\ session' = Session(t) /\ pc'[t] = "done"
            /\ carried[t] # None /\ carried[t].tab = t /\ begun[t] <= issued[t]
        BY <1>4, <3>2 DEF AuthInv, Answered, Goto, ExchangeOK
      <4>2. /\ session'.tab = t /\ session'.user = user[t]
            /\ session'.expires = issued[t] + SessionTTL
        BY <4>1 DEF Session
      <4>3. /\ \A u \in Tabs : pc[u] = "done" => pc'[u] = "done"
            /\ UNCHANGED <<user, carried, issued, begun, visit>>
        BY <1>4 DEF Answered, Goto
      <4>4. QED
        BY <4>1, <4>2, <4>3 DEF AuthInv, SessionsEarned
    <3>3. QED
      BY <1>4, <3>1, <3>2 DEF Answered
  <2>6. QED
    BY <2>1, <2>2, <2>3, <2>4, <2>5 DEF AuthInv
<1>5. ASSUME NEW t \in Tabs, SetupCached(t)
      PROVE  AuthInv'
  <2>1. ClockOK' /\ LateOK'
    BY <1>5 DEF AuthInv, SetupCached, AfterSetup, Goto, ClockOK, LateOK
  <2>2. UndisturbedOK'
    BY <1>5 DEF AuthInv, SetupCached, AfterSetup, Goto, UndisturbedOK, Own
  <2>3. ExchangeOK'
    BY <1>5 DEF AuthInv, SetupCached, AfterSetup, Goto, ExchangeOK
  <2>4. FailuresHaveCause' /\ LoginCookieSpent'
    BY <1>5 DEF AuthInv, SetupCached, AfterSetup, Goto, FailuresHaveCause, LoginCookieSpent
  <2>5. SessionsEarned'
    BY <1>5 DEF AuthInv, SetupCached, AfterSetup, Goto, SessionsEarned
  <2>6. QED
    BY <2>1, <2>2, <2>3, <2>4, <2>5 DEF AuthInv
<1>6. ASSUME NEW t \in Tabs, Discover(t)
      PROVE  AuthInv'
  <2>1. ClockOK' /\ LateOK'
    BY <1>6 DEF AuthInv, Discover, Goto, ClockOK, LateOK
  <2>2. UndisturbedOK'
    BY <1>6 DEF AuthInv, Discover, Goto, UndisturbedOK, Own
  <2>3. ExchangeOK'
    BY <1>6 DEF AuthInv, Discover, Goto, ExchangeOK
  <2>4. FailuresHaveCause' /\ LoginCookieSpent'
    BY <1>6 DEF AuthInv, Discover, Goto, FailuresHaveCause, LoginCookieSpent
  <2>5. SessionsEarned'
    BY <1>6 DEF AuthInv, Discover, Goto, SessionsEarned
  <2>6. QED
    BY <2>1, <2>2, <2>3, <2>4, <2>5 DEF AuthInv
<1>7. ASSUME NEW t \in Tabs, DiscoveryWorks(t)
      PROVE  AuthInv'
  <2>1. ClockOK' /\ LateOK'
    BY <1>7 DEF AuthInv, DiscoveryWorks, Discovering, AfterSetup, Goto, ClockOK, LateOK
  <2>2. UndisturbedOK'
    BY <1>7 DEF AuthInv, DiscoveryWorks, Discovering, AfterSetup, Goto, UndisturbedOK, Own
  <2>3. ExchangeOK'
    BY <1>7 DEF AuthInv, DiscoveryWorks, Discovering, AfterSetup, Goto, ExchangeOK
  <2>4. FailuresHaveCause' /\ LoginCookieSpent'
    BY <1>7 DEF AuthInv, DiscoveryWorks, Discovering, AfterSetup, Goto, FailuresHaveCause, LoginCookieSpent
  <2>5. SessionsEarned'
    BY <1>7 DEF AuthInv, DiscoveryWorks, Discovering, AfterSetup, Goto, SessionsEarned
  <2>6. QED
    BY <2>1, <2>2, <2>3, <2>4, <2>5 DEF AuthInv
<1>8. ASSUME NEW t \in Tabs, DiscoveryFails(t)
      PROVE  AuthInv'
  <2>1. ClockOK' /\ LateOK'
    BY <1>8 DEF AuthInv, DiscoveryFails, Discovering, Unlocked, Disturb, Goto, ClockOK, LateOK
  <2>2. UndisturbedOK'
    BY <1>8 DEF AuthInv, DiscoveryFails, Discovering, Unlocked, Disturb, Goto, UndisturbedOK, Own
  <2>3. ExchangeOK'
    BY <1>8 DEF AuthInv, DiscoveryFails, Discovering, Unlocked, Disturb, Goto, ExchangeOK
  <2>4. FailuresHaveCause' /\ LoginCookieSpent'
    BY <1>8 DEF AuthInv, DiscoveryFails, Discovering, Unlocked, Disturb, Goto, FailuresHaveCause, LoginCookieSpent
  <2>5. SessionsEarned'
    BY <1>8 DEF AuthInv, DiscoveryFails, Discovering, Unlocked, Disturb, Goto, SessionsEarned
  <2>6. QED
    BY <2>1, <2>2, <2>3, <2>4, <2>5 DEF AuthInv
<1>9. ASSUME NEW t \in Tabs, Seal(t)
      PROVE  AuthInv'
  <2>1. ClockOK' /\ LateOK'
    <3>1. now' = now /\ begun' = [begun EXCEPT ![t] = now] /\ issued' = issued /\ cause' = cause
      BY <1>9 DEF Seal
    <3>2. ~(begun'[t] + LoginTTL <= now')
      BY <3>1
    <3>3. \A u \in Tabs \ {t} : pc'[u] = pc[u] /\ begun'[u] = begun[u]
      BY <1>9, <3>1 DEF Seal, Goto
    <3>4. QED
      <4>1. ClockOK'
        BY <3>1 DEF AuthInv, ClockOK
      <4>2. LateOK'
        BY <3>1, <3>2, <3>3 DEF AuthInv, LateOK
      <4>3. QED
        BY <4>1, <4>2
  <2>2. UndisturbedOK'
    BY <1>9 DEF AuthInv, Seal, Goto, UndisturbedOK, Own
  <2>3. ExchangeOK'
    BY <1>9 DEF AuthInv, Seal, Goto, ExchangeOK
  <2>4. FailuresHaveCause' /\ LoginCookieSpent'
    BY <1>9 DEF AuthInv, Seal, Goto, FailuresHaveCause, LoginCookieSpent
  <2>5. SessionsEarned'
    BY <1>9 DEF AuthInv, Seal, Goto, SessionsEarned
  <2>6. QED
    BY <2>1, <2>2, <2>3, <2>4, <2>5 DEF AuthInv
<1>10. ASSUME NEW t \in Tabs, Check(t)
       PROVE  AuthInv'
  <2>1. ClockOK' /\ LateOK'
    BY <1>10 DEF AuthInv, Check, Expired, Goto, ClockOK, LateOK
  <2>2. UndisturbedOK'
    BY <1>10 DEF AuthInv, Check, Expired, Goto, UndisturbedOK, Own
  <2>3. ExchangeOK'
    BY <1>10 DEF AuthInv, Check, Expired, Goto, ExchangeOK
  <2>4. FailuresHaveCause' /\ LoginCookieSpent'
    <3>1. LoginCookieSpent'
      BY <1>10 DEF AuthInv, Check, Goto, LoginCookieSpent
    <3>2. cause[t] # {} \/ Own(t, carried[t])
      BY <1>10 DEF AuthInv, Check, UndisturbedOK
    <3>3. Own(t, carried[t]) /\ Expired(carried[t]) => cause[t] # {}
      <4>1. Own(t, carried[t]) /\ Expired(carried[t]) => begun[t] + LoginTTL <= now
        BY DEF Own, Expired
      <4>2. QED
        BY <1>10, <4>1 DEF AuthInv, Check, LateOK
    <3>4. pc'[t] \in {"refusing", "failed"} => cause'[t] # {}
      BY <1>10, <3>2, <3>3 DEF Check, Goto, Own
    <3>5. QED
      BY <1>10, <3>1, <3>4 DEF AuthInv, Check, Goto, FailuresHaveCause
  <2>5. SessionsEarned'
    BY <1>10 DEF AuthInv, Check, Expired, Goto, SessionsEarned
  <2>6. QED
    BY <2>1, <2>2, <2>3, <2>4, <2>5 DEF AuthInv
<1>11. ASSUME NEW t \in Tabs, Exchange(t)
       PROVE  AuthInv'
  <2>1. ClockOK' /\ LateOK'
    <3>1. now' = now /\ begun' = begun /\ issued' = [issued EXCEPT ![t] = now] /\ cause' = cause
      BY <1>11 DEF Exchange
    <3>2. \A u \in Tabs : pc'[u] # "signing in" => pc'[u] = pc[u]
      BY <1>11 DEF Exchange, Goto
    <3>3. QED
      <4>1. ClockOK'
        BY <3>1 DEF AuthInv, ClockOK
      <4>2. LateOK'
        BY <3>1, <3>2 DEF AuthInv, LateOK
      <4>3. QED
        BY <4>1, <4>2
  <2>2. UndisturbedOK'
    BY <1>11 DEF AuthInv, Exchange, Goto, UndisturbedOK, Own
  <2>3. ExchangeOK'
    <3>1. issued' = [issued EXCEPT ![t] = now] /\ UNCHANGED <<carried, begun>>
      BY <1>11 DEF Exchange
    <3>2. begun[t] <= issued'[t] /\ carried[t] # None /\ carried[t].tab = t
      BY <1>11, <3>1 DEF AuthInv, ClockOK, ExchangeOK, Exchange
    <3>3. \A u \in Tabs \ {t} : pc'[u] = pc[u] /\ issued'[u] = issued[u]
      BY <1>11, <3>1 DEF Exchange, Goto
    <3>4. QED
      BY <3>1, <3>2, <3>3 DEF AuthInv, ExchangeOK
  <2>4. FailuresHaveCause' /\ LoginCookieSpent'
    BY <1>11 DEF AuthInv, Exchange, Goto, FailuresHaveCause, LoginCookieSpent
  <2>5. SessionsEarned'
    BY <1>11 DEF AuthInv, Exchange, Goto, SessionsEarned
  <2>6. QED
    BY <2>1, <2>2, <2>3, <2>4, <2>5 DEF AuthInv
<1>12. ASSUME NEW t \in Tabs, ExchangeFails(t)
       PROVE  AuthInv'
  <2>1. ClockOK' /\ LateOK'
    BY <1>12 DEF AuthInv, ExchangeFails, Disturb, Goto, ClockOK, LateOK
  <2>2. UndisturbedOK'
    BY <1>12 DEF AuthInv, ExchangeFails, Disturb, Goto, UndisturbedOK, Own
  <2>3. ExchangeOK'
    BY <1>12 DEF AuthInv, ExchangeFails, Disturb, Goto, ExchangeOK
  <2>4. FailuresHaveCause' /\ LoginCookieSpent'
    <3>1. LoginCookieSpent'
      BY <1>12 DEF AuthInv, ExchangeFails, Goto, LoginCookieSpent
    <3>2. ~up
      BY <1>12 DEF AuthInv, ExchangeFails, ExchangeOK
    <3>3. cause'[t] # {}
      BY <1>12, <3>2 DEF ExchangeFails, Disturb
    <3>4. \A u \in Tabs \ {t} : pc'[u] = pc[u] /\ cause'[u] = cause[u]
      BY <1>12 DEF ExchangeFails, Goto, Disturb
    <3>5. QED
      BY <3>1, <3>3, <3>4 DEF AuthInv, FailuresHaveCause
  <2>5. SessionsEarned'
    BY <1>12 DEF AuthInv, ExchangeFails, Disturb, Goto, SessionsEarned
  <2>6. QED
    BY <2>1, <2>2, <2>3, <2>4, <2>5 DEF AuthInv
<1>13. ASSUME Tick
       PROVE  AuthInv'
  <2>1. ClockOK' /\ LateOK'
    <3>1. now' = now + 1 /\ UNCHANGED <<begun, issued, pc>>
      BY <1>13 DEF Tick
    <3>2. \A u \in Tabs : begun[u] <= now + 1 /\ issued[u] <= now + 1
      BY DEF AuthInv, ClockOK
    <3>3. LateOK'
      BY <1>13, <3>1 DEF AuthInv, Tick, Disturb, LateOK
    <3>4. QED
      BY <3>1, <3>2, <3>3 DEF ClockOK
  <2>2. UndisturbedOK'
    <3>1. UNCHANGED <<begun, carried, pc>> /\ \A u \in Tabs : cause[u] # {} => cause'[u] # {}
      BY <1>13 DEF Tick, Disturb
    <3>2. ASSUME NEW u \in Tabs, pc[u] = "provider", Own(u, login)
          PROVE  cause'[u] # {} \/ Own(u, login)'
      <4>1. CASE login.dropped <= now'
        <5>1. begun[u] + LoginTTL <= now'
          <6>1. login.expires = begun[u] + LoginTTL /\ login.expires <= login.dropped
            BY <3>2 DEF Own
          <6>2. now' = now + 1 /\ login.dropped \in Nat /\ login.expires \in Nat
            BY <1>13, <3>2 DEF Own, Tick
          <6>3. QED
            BY <4>1, <6>1, <6>2
        <5>2. QED
          BY <1>13, <3>2, <5>1 DEF Tick, Disturb
      <4>2. CASE ~(login.dropped <= now')
        BY <1>13, <3>1, <3>2, <4>2 DEF Tick, Own
      <4>3. QED
        BY <4>1, <4>2
    <3>3. QED
      BY <3>1, <3>2 DEF AuthInv, UndisturbedOK, Own
  <2>3. ExchangeOK'
    BY <1>13 DEF AuthInv, Tick, Disturb, ExchangeOK
  <2>4. FailuresHaveCause' /\ LoginCookieSpent'
    BY <1>13 DEF AuthInv, Tick, Disturb, FailuresHaveCause, LoginCookieSpent
  <2>5. SessionsEarned'
    BY <1>13 DEF AuthInv, Tick, Disturb, SessionsEarned
  <2>6. QED
    BY <2>1, <2>2, <2>3, <2>4, <2>5 DEF AuthInv
<1>14. ASSUME Restart
       PROVE  AuthInv'
  <2>1. ClockOK' /\ LateOK'
    BY <1>14 DEF AuthInv, Restart, Disturb, AtServer, ClockOK, LateOK
  <2>2. UndisturbedOK'
    BY <1>14 DEF AuthInv, Restart, Disturb, AtServer, UndisturbedOK, Own
  <2>3. ExchangeOK'
    BY <1>14 DEF AuthInv, Restart, Disturb, AtServer, ExchangeOK
  <2>4. FailuresHaveCause' /\ LoginCookieSpent'
    BY <1>14 DEF AuthInv, Restart, Disturb, AtServer, FailuresHaveCause, LoginCookieSpent
  <2>5. SessionsEarned'
    BY <1>14 DEF AuthInv, Restart, Disturb, AtServer, SessionsEarned
  <2>6. QED
    BY <2>1, <2>2, <2>3, <2>4, <2>5 DEF AuthInv
<1>15. ASSUME \/ Logout \/ ProviderDown \/ ProviderUp
              \/ Visit \/ Admit \/ Unauthorized \/ Forbidden \/ UNCHANGED vars
      PROVE  AuthInv'
  <2>1. /\ UNCHANGED <<now, login, pc, user, carried, begun, issued, cause>>
        /\ session' \in {session, None} /\ visit' \in {session, visit, None}
    BY <1>15 DEF Logout, ProviderDown, ProviderUp, Visit, Admit, Unauthorized, Forbidden, vars
  <2>2. SessionsEarned'
    BY <2>1 DEF AuthInv, SessionsEarned
  <2>3. QED
    BY <2>1, <2>2 DEF AuthInv, ClockOK, LateOK, UndisturbedOK, Own, ExchangeOK,
                      FailuresHaveCause, LoginCookieSpent
<1>16. QED
  BY <1>1, <1>2, <1>3, <1>4, <1>5, <1>6, <1>7, <1>8, <1>9, <1>10, <1>11, <1>12, <1>13, <1>14, <1>15 DEF Next, Handler, Network

LEMMA Invariance == Spec => [](TypeOK /\ AuthInv)
BY InitType, StepType, InitInv, StepInv, PTL DEF Spec

\* A sign-in fails only for a cause outside of it, whatever other tabs do.
THEOREM FailuresExplained == Spec => []FailuresHaveCause
BY Invariance, PTL DEF AuthInv

\* No login cookie outlives the sign-in it was for.
THEOREM LoginSpent == Spec => []LoginCookieSpent
BY Invariance, PTL DEF AuthInv

\* Every session cookie, in the jar or on its way, comes from a login of its own
\* tab and names the user who signed in there.
THEOREM SessionProvenance == Spec => []SessionsEarned
BY Invariance, PTL DEF AuthInv

\* Every admin request that is let in is an author's, within the lifetime of a
\* session that was earned: requireAuthor sees only a cookie, the theorem is
\* about the sign-in behind it.
THEOREM OnlyAuthorsEnter == Spec => AuthorsOnly
<1>1. TypeOK /\ AuthInv =>
        (Admit => LET t == visit.tab IN user[t] \in Authors /\ now < issued[t] + SessionTTL)
  BY DEF AuthInv, SessionsEarned, Admit, Admits, Valid
<1>2. QED
  BY Invariance, <1>1, PTL DEF AuthorsOnly
=============================================================================
