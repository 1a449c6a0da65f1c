\* Two tabs of one browser, of an author and of any user, with a fault.
CONSTANTS
    Tabs = {t1, t2}
    Users = {ann, bob}
    Authors = {ann}
    None = none
    LoginTTL = 1
    SessionTTL = 1
    MaxTime = 3
    MaxFaults = 1
\* A browser whose user does nothing stops.
CHECK_DEADLOCK FALSE
SPECIFICATION FairSpec
INVARIANTS
    FailuresHaveCause
    LoginCookieSpent
    SessionsEarned
PROPERTIES
    AuthorsOnly
    EveryRequestAnswered
