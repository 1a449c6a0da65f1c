-------------------------------- MODULE Boot --------------------------------
(***************************************************************************)
(* One container of the app, from its start to its end: config.Parse,      *)
(* serve and syncDBCmd of cmd/codepuke/main.go, waitForMermaid of          *)
(* syncdb.go, and the store's pool, against the clock.  Beside it run the  *)
(* kubelet, with the probes and the grace period of                        *)
(* deploy/base/deployment.yaml, the Mermaid sidecar, the database and the  *)
(* requests.                                                               *)
(*                                                                         *)
(* A tick is two seconds.  What the program waits for may answer at any    *)
(* time, and fail or not; where the code sets a limit, no tick passes      *)
(* beyond it.  What runs under a context that a signal has cancelled ends  *)
(* within the tick.                                                        *)
(***************************************************************************)
EXTENDS Integers, FiniteSets

CONSTANTS
    Requests,         \* the requests that may be in flight at one time
    Environments,     \* the environments a container may be given
    MermaidDeadline,  \* the limits, in ticks: waitForMermaid's ninety seconds,
    PollEvery,        \* its pause,
    CallTimeout,      \* the client timeout of a call to the sidecar,
    ShutdownTimeout,  \* the ten seconds of srv.Shutdown,
    ProbeBudget,      \* failureThreshold * periodSeconds of the startup probe,
    Grace,            \* terminationGracePeriodSeconds,
    MaxRestarts       \* bound: how often the kubelet starts the container again

AuthVars == {"SESSION_KEY", "OIDC_ISSUER", "OIDC_CLIENT_ID", "OIDC_CLIENT_SECRET"}

\* What Parse tells apart in an environment; set are the auth variables that are
\* not empty, key says that the session key is 32 hex-encoded bytes.
EnvType == [command : {"serve", "sync-db"}, database : BOOLEAN, log : BOOLEAN,
            set : SUBSET AuthVars, key : BOOLEAN, mermaid : BOOLEAN]

ASSUME BootAssumption ==
    /\ Environments \subseteq EnvType
    /\ {MermaidDeadline, PollEvery, CallTimeout, ShutdownTimeout,
        ProbeBudget, Grace} \subseteq Nat \ {0}
    /\ ShutdownTimeout < Grace
    /\ MaxRestarts \in Nat

VARIABLES
    env,       \* the container's environment
    app,       \* where main is; "exited" when the process is gone
    exit,      \* its exit status, or "killed"
    clock,     \* ticks since the container started, until it is ready
    wait,      \* ticks since waitForMermaid began (bound: the longest there is)
    call,      \* ticks of its call to the sidecar, or of its pause
    hung,      \* history: such a call of this boot took a tick or more
    ready,     \* the startup probe has succeeded
    term,      \* who sent SIGTERM: "nobody", the "probe", or "retire"
    stopping,  \* ticks since then
    requests,  \* where each request's handler is
    restarts

timers == <<clock, wait, call, hung>>
kubelet == <<ready, term, stopping>>
vars == <<env, app, exit, timers, kubelet, requests, restarts>>

Booting == {"migrate", "connect", "poll", "asking", "pause", "sync"}
Waiting == {"poll", "asking", "pause"}

InFlight == {q \in Requests : requests[q] \in {"handler", "statement"}}
\* A handler that has a connection of the pool.
Holding == {q \in Requests : requests[q] = "statement"}

-----------------------------------------------------------------------------
(* config.Parse *)

\* All four or none, and a key of 32 bytes.
AuthOK(e) == e.set = {} \/ (e.set = AuthVars /\ e.key)

\* Parse returns a Config, not an error.
Parses(e) == e.database /\ e.log /\ AuthOK(e)

-----------------------------------------------------------------------------
(* The boot *)

\* The boot's timers start, or are of no more use.
NoTimers == clock' = 0 /\ wait' = 0 /\ call' = 0 /\ hung' = FALSE

\* A container starts: Parse, then the signal handler.  An invalid value is a
\* startup error.
Started ==
    /\ app' = IF Parses(env) THEN "migrate" ELSE "exited"
    /\ exit' = IF Parses(env) THEN "none" ELSE "failed"
    /\ NoTimers
    /\ ready' = FALSE /\ term' = "nobody" /\ stopping' = 0
    /\ requests' = [q \in Requests |-> "none"]

Init ==
    /\ env \in Environments
    /\ app = "created" /\ exit = "none"
    /\ clock = 0 /\ wait = 0 /\ call = 0 /\ hung = FALSE
    /\ ready = FALSE /\ term = "nobody" /\ stopping = 0
    /\ requests = [q \in Requests |-> "none"]
    /\ restarts = 0

Start == app = "created" /\ Started /\ UNCHANGED <<env, restarts>>

\* main is at one place, and goes on to another.
Goto(from, to) ==
    /\ app = from /\ app' = to
    /\ UNCHANGED <<env, exit, kubelet, requests, restarts>>

\* The context of serve, while no signal has cancelled it.
Running == term = "nobody"

\* RunMigrations applies what is pending.
Migrate == Running /\ Goto("migrate", "connect") /\ UNCHANGED timers

\* store.New: the pool is made and pinged.
Connect ==
    /\ Running
    /\ Goto("connect", IF env.mermaid THEN "poll" ELSE "sync")
    /\ wait' = 0
    /\ UNCHANGED <<clock, call, hung>>

\* Ready is called.
Ask == Goto("poll", "asking") /\ call' = 0 /\ UNCHANGED <<clock, wait, hung>>

\* The sidecar answers, whatever its status.
Answer ==
    /\ Running /\ Goto("asking", "sync")
    /\ wait' = 0 /\ call' = 0 /\ hung' = FALSE /\ UNCHANGED clock

\* Mutant: the deadline starts anew with every call.
DeadlineOfCall == call > MermaidDeadline
PastDeadline == wait > MermaidDeadline

\* The call is refused or times out: a pause, unless the deadline has passed.
Refused ==
    /\ Running /\ ~PastDeadline
    /\ Goto("asking", "pause") /\ call' = 0
    /\ UNCHANGED <<clock, wait, hung>>

\* time.After fires.
Again ==
    /\ call = PollEvery /\ Running
    /\ Goto("pause", "poll") /\ UNCHANGED timers

\* syncDB has written the docs pages: serve goes on to listen, sync-db is done.
Synced ==
    /\ Running
    /\ Goto("sync", IF env.command = "serve" THEN "listening" ELSE "closing")
    /\ UNCHANGED timers

\* A step of the boot returns an error: the database's, the sidecar's during the
\* sync, the deadline's, or the cancelled context's; the pool is closed.
BootFails ==
    /\ app \in Booting \ {"poll"}
    /\ app = "asking" => PastDeadline \/ ~Running
    /\ app = "pause" => ~Running
    /\ app' = "closing" /\ exit' = "failed" /\ NoTimers
    /\ UNCHANGED <<env, kubelet, requests, restarts>>

-----------------------------------------------------------------------------
(* Serving, and the shutdown *)

\* ListenAndServe cannot listen.
ListenFails ==
    /\ app = "listening" /\ ~ready
    /\ app' = "closing" /\ exit' = "failed" /\ NoTimers
    /\ UNCHANGED <<env, kubelet, requests, restarts>>

\* ctx.Done: the listener is closed, no request is accepted any more.  The
\* requests' own contexts go on.
Shutdown == ~Running /\ Goto("listening", "shutdown") /\ NoTimers

\* Mutant: main does not wait for Shutdown to return.
NobodyLeft == TRUE
Drained == InFlight = {}

\* srv.Shutdown returns once no connection is active, or at its deadline.
ShutdownReturns ==
    /\ app = "shutdown"
    /\ Drained \/ stopping >= ShutdownTimeout
    /\ app' = "closing"
    /\ exit' = IF Drained THEN exit ELSE "failed"
    /\ UNCHANGED <<env, timers, kubelet, requests, restarts>>

\* The process is gone, and the handlers that still ran with it.
Gone ==
    /\ NoTimers /\ stopping' = 0
    /\ requests' = [q \in Requests |->
                      IF q \in InFlight THEN "cut" ELSE "none"]
    /\ UNCHANGED <<env, ready, term, restarts>>

\* The deferred st.Close waits for the connections that handlers hold; then main
\* returns, and handlers that still run are cut off.
Close ==
    /\ app = "closing" /\ Holding = {}
    /\ app' = "exited"
    /\ exit' = IF exit = "failed" THEN "failed" ELSE "ok"
    /\ Gone

-----------------------------------------------------------------------------
(* The requests *)

Stage(q, stage) ==
    /\ requests' = [requests EXCEPT ![q] = stage]
    /\ UNCHANGED <<env, app, exit, timers, kubelet, restarts>>

\* A handler begins, once the pod is ready and until the listener is closed.
Arrive(q) ==
    /\ app = "listening" /\ ready /\ requests[q] = "none"
    /\ Stage(q, "handler")

\* A statement takes a connection, which a closed pool does not give.
Acquire(q) ==
    app \notin {"closing", "exited"} /\ requests[q] = "handler" /\ Stage(q, "statement")

\* The statement ends: it is done, it fails, or the client goes away.
Release(q) == app # "exited" /\ requests[q] = "statement" /\ Stage(q, "handler")

\* The handler returns.
Return(q) ==
    /\ app # "exited" /\ requests[q] = "handler" /\ Stage(q, "none")

-----------------------------------------------------------------------------
(* The kubelet *)

\* readyz answers, from a database that does: the startup probe succeeds.
Probes ==
    /\ app = "listening" /\ ~ready /\ env.command = "serve"
    /\ ready' = TRUE /\ clock' = 0
    /\ UNCHANGED <<env, app, exit, wait, call, hung, term, stopping, requests, restarts>>

Alive == app \notin {"created", "exited"}

Signal(who) ==
    /\ Alive /\ Running
    /\ term' = who /\ stopping' = 0
    /\ UNCHANGED <<env, app, exit, timers, ready, requests, restarts>>

\* The startup probe has failed for the last time.
ProbeStops == env.command = "serve" /\ ~ready /\ clock = ProbeBudget /\ Signal("probe")

\* The pod is deleted, or the command interrupted.
Retire == Signal("retire")

\* SIGKILL, at the end of the grace period.
Kill ==
    /\ Alive /\ stopping = Grace
    /\ app' = "exited" /\ exit' = "killed"
    /\ Gone

\* A container that ended is started again, unless its pod is deleted.
Restart ==
    /\ app = "exited" /\ env.command = "serve" /\ term # "retire"
    /\ restarts < MaxRestarts /\ restarts' = restarts + 1
    /\ Started
    /\ UNCHANGED env

\* The container is not started again.
Over ==
    /\ app = "exited"
    /\ term = "retire" \/ env.command = "sync-db" \/ restarts = MaxRestarts
    /\ UNCHANGED vars

-----------------------------------------------------------------------------
(* Time *)

\* A limit that this tick would pass.
Due ==
    \/ app = "poll"
    \/ app = "asking" /\ call = CallTimeout
    \/ app = "pause" /\ call = PollEvery
    \/ ~Running /\ app \in Booting \cup {"listening"}
    \/ app = "shutdown" /\ (Drained \/ stopping >= ShutdownTimeout)
    \/ app = "closing" /\ Holding = {}
    \/ env.command = "serve" /\ ~ready /\ Running /\ clock = ProbeBudget
    \/ stopping = Grace

Tick ==
    /\ Alive /\ ~Due
    /\ clock' = IF ready \/ env.command = "sync-db" THEN clock ELSE clock + 1
    /\ wait' = IF app \in Waiting /\ wait <= MermaidDeadline + ProbeBudget THEN wait + 1 ELSE wait
    /\ call' = IF app \in {"asking", "pause"} THEN call + 1 ELSE call
    /\ hung' = (hung \/ app = "asking")
    /\ stopping' = IF Running THEN stopping ELSE stopping + 1
    /\ UNCHANGED <<env, app, exit, ready, term, requests, restarts>>

BootStep ==
    \/ Start \/ Migrate \/ Connect \/ Ask \/ Answer \/ Refused \/ Again
    \/ Synced \/ BootFails \/ ListenFails

Request(q) == Arrive(q) \/ Acquire(q) \/ Release(q) \/ Return(q)

Next ==
    \/ BootStep \/ Shutdown \/ ShutdownReturns \/ Close
    \/ \E q \in Requests : Request(q)
    \/ Probes \/ ProbeStops \/ Retire \/ Kill \/ Restart \/ Over
    \/ Tick

\* Time passes; the program, the timers it has set and the kubelet do what is due.
\* The database, the sidecar and the handlers need not go on.
Limits == Ask \/ Again \/ (app = "asking" /\ call = CallTimeout /\ (Refused \/ BootFails))
            \/ (~Running /\ BootFails) \/ ShutdownReturns \/ Close

Fairness ==
    /\ WF_vars(Start) /\ WF_vars(Tick) /\ WF_vars(Limits) /\ WF_vars(Shutdown)
    /\ WF_vars(ProbeStops) /\ WF_vars(Kill)

Spec == Init /\ [][Next]_vars
FairSpec == Spec /\ Fairness

-----------------------------------------------------------------------------
(* What must hold *)

\* The startup probe "allows for that" (deployment.yaml:50-51): as long as no call
\* to the sidecar hangs and what comes before takes no longer than what the probe
\* leaves, waitForMermaid gives up by itself and says why.
WaitFitsProbe ==
    term = "probe" /\ app \in Waiting =>
        hung \/ clock - wait >= ProbeBudget - MermaidDeadline - PollEvery

\* A stop cuts nobody short: a request is cut off only if it outlived the shutdown's
\* ten seconds, which the exit status tells, and SIGKILL comes only when a handler
\* has not given its connection back.
StopsCleanly ==
    [][/\ \A q \in Requests : requests'[q] = "cut" /\ requests[q] # "cut" =>
              stopping >= ShutdownTimeout /\ exit' # "ok"
       /\ exit' = "killed" /\ exit # "killed" => app = "closing"]_vars

\* No boot hangs: a pod comes to listen or its process ends, whatever the database
\* and the sidecar fail to answer; the wait for the sidecar ends by itself, also
\* where no kubelet watches, as under sync-db; and a stop comes to its end.
BootSettles ==
    /\ env.command = "serve" /\ app \in Booting ~> app \in {"listening", "exited"}
    /\ app \in Waiting ~> app \notin Waiting
    /\ term # "nobody" ~> app = "exited" \/ term = "nobody"
=============================================================================
