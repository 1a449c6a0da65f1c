----------------------------- MODULE BootProofs -----------------------------
(***************************************************************************)
(* Whatever the limits are, as long as srv.Shutdown's is shorter than the  *)
(* grace period, and for any number of requests: a stop cuts off nobody    *)
(* who would have been done in time (StopsCleanly), and the wait for the   *)
(* sidecar is shorter than the startup probe (WaitFitsProbe).              *)
(***************************************************************************)
EXTENDS Boot, TLAPS

Phases == Booting \cup {"created", "listening", "shutdown", "closing", "exited"}

\* Where a stop is: nothing passes a limit, and a handler that is still there when
\* main closes has outlived the shutdown.
StopInv ==
    /\ app \in Phases
    /\ stopping \in Nat
    /\ DOMAIN requests = Requests
    /\ app \in Booting \cup {"created", "listening"} => stopping = 0
    /\ app = "shutdown" => stopping <= ShutdownTimeout /\ ~Running
    /\ InFlight # {} => app \in {"listening", "shutdown", "closing"}
    /\ app = "listening" /\ InFlight # {} => ready
    /\ app = "closing" /\ InFlight # {} =>
           stopping >= ShutdownTimeout /\ exit = "failed" /\ ~Running

\* The clocks of the wait: without a hanging call it is past its deadline by one
\* pause at most, and the probe's own clock stands where the probe gave up.
WaitInv ==
    /\ clock \in Nat /\ wait \in Nat /\ call \in Nat
    /\ app \in {"poll", "asking"} => hung \/ wait <= MermaidDeadline + PollEvery
    /\ app = "pause" => hung \/ (call <= PollEvery /\ wait <= MermaidDeadline + call)
    /\ term = "probe" /\ app \in Booting => clock = ProbeBudget

Inv == StopInv /\ WaitInv

LEMMA Limits0 ==
    /\ MermaidDeadline \in Nat /\ PollEvery \in Nat /\ ProbeBudget \in Nat
    /\ ShutdownTimeout \in Nat /\ Grace \in Nat
    /\ ShutdownTimeout > 0 /\ Grace > 0 /\ ShutdownTimeout < Grace
BY BootAssumption

-----------------------------------------------------------------------------
(* The stop *)

LEMMA StartedStop == ASSUME Started PROVE StopInv'
<1>1. InFlight' = {} /\ DOMAIN requests' = Requests
  BY DEF Started, InFlight
<1>2. app' \in {"migrate", "exited"} /\ stopping' = 0
  BY DEF Started
<1> QED
  BY <1>1, <1>2 DEF StopInv, Phases, Booting

\* A step of main that leaves the requests and the kubelet alone.
LEMMA MainStop ==
    ASSUME StopInv, UNCHANGED <<requests, kubelet>>,
           \/ app \in Booting /\ app' \in Booting \cup {"listening", "closing"}
           \/ app = "listening" /\ ~ready /\ app' = "closing"
           \/ app = "listening" /\ ~Running /\ app' = "shutdown"
           \/ /\ app = "shutdown" /\ app' = "closing"
              /\ Drained \/ (stopping >= ShutdownTimeout /\ exit' = "failed")
    PROVE  StopInv'
<1>1. InFlight' = InFlight /\ stopping' = stopping /\ ready' = ready /\ Running' = Running
  BY DEF InFlight, kubelet, Running
<1> QED
  BY <1>1, Limits0 DEF StopInv, Phases, Booting, Drained

LEMMA GoneStop == ASSUME StopInv, Gone, app' = "exited" PROVE StopInv'
<1>1. InFlight' = {} /\ DOMAIN requests' = Requests
  BY DEF Gone, InFlight
<1> QED
  BY <1>1 DEF StopInv, Phases, Booting, Gone

LEMMA RequestStop == ASSUME StopInv, NEW q \in Requests, Request(q) PROVE StopInv'
<1>1. /\ DOMAIN requests' = Requests
      /\ UNCHANGED <<app, exit, kubelet>>
      /\ InFlight' = {} \/ InFlight # {} \/ (app = "listening" /\ ready)
  <2>1. CASE Arrive(q)
    BY <2>1 DEF Arrive, Stage, StopInv
  <2>2. CASE Acquire(q) \/ Release(q) \/ Return(q)
    BY <2>2 DEF Acquire, Release, Return, Stage, StopInv, InFlight
  <2> QED
    BY <2>1, <2>2 DEF Request
<1> QED
  BY <1>1 DEF StopInv, kubelet, Running

LEMMA SignalStop == ASSUME StopInv, NEW who \in {"probe", "retire"}, Signal(who) PROVE StopInv'
<1>1. InFlight' = InFlight
  BY DEF Signal, InFlight
<1> QED
  BY <1>1 DEF StopInv, Signal, Running

LEMMA TickStop == ASSUME StopInv, Tick PROVE StopInv'
<1>1. InFlight' = InFlight /\ Running' = Running
  BY DEF Tick, InFlight, Running
<1>2. stopping' = IF Running THEN stopping ELSE stopping + 1
  BY DEF Tick
<1>3. app \in Booting \cup {"created", "listening"} => Running
  BY DEF Tick, Due, Alive
<1>4. app = "shutdown" => stopping < ShutdownTimeout
  BY Limits0 DEF Tick, Due, StopInv
<1>5. UNCHANGED <<app, exit, ready, requests>>
  BY DEF Tick
<1> QED
  BY <1>1, <1>2, <1>3, <1>4, <1>5, Limits0 DEF StopInv

LEMMA NextStop == ASSUME StopInv, [Next]_vars PROVE StopInv'
<1>1. CASE Start \/ Restart
  BY <1>1, StartedStop DEF Start, Restart
<1>2. CASE Migrate \/ Connect \/ Ask \/ Answer \/ Refused \/ Again \/ Synced \/ BootFails
  BY <1>2, MainStop
     DEF Migrate, Connect, Ask, Answer, Refused, Again, Synced, BootFails, Goto, Booting
<1>3. CASE ListenFails \/ Shutdown \/ ShutdownReturns
  BY <1>3, MainStop DEF ListenFails, Shutdown, ShutdownReturns, Goto
<1>4. CASE Close \/ Kill
  BY <1>4, GoneStop DEF Close, Kill
<1>5. CASE Probes
  <2>1. InFlight' = InFlight /\ Running' = Running
    BY <1>5 DEF Probes, InFlight, Running
  <2> QED
    BY <1>5, <2>1 DEF Probes, StopInv
<1>6. CASE ProbeStops \/ Retire
  BY <1>6, SignalStop DEF ProbeStops, Retire
<1>7. CASE UNCHANGED vars
  BY <1>7 DEF vars, kubelet, StopInv, InFlight, Running
<1> QED
  BY <1>1, <1>2, <1>3, <1>4, <1>5, <1>6, <1>7, RequestStop, TickStop
     DEF Next, BootStep, Over

-----------------------------------------------------------------------------
(* The wait for the sidecar *)

LEMMA NoTimersWait == ASSUME NoTimers, app' \notin Booting \/ term' = "nobody",
                             app' \notin Waiting
                      PROVE  WaitInv'
BY DEF NoTimers, WaitInv, Waiting

LEMMA TickWait == ASSUME WaitInv, Tick PROVE WaitInv'
<1>1. clock' \in Nat /\ wait' \in Nat /\ call' \in Nat
  BY DEF WaitInv, Tick
<1>2. UNCHANGED <<app, term>> /\ app # "poll"
  BY DEF Tick, Due
<1>3. app = "asking" => hung'
  BY DEF Tick
<1>4. app = "pause" => hung' \/ (call' <= PollEvery /\ wait' <= MermaidDeadline + call')
  <2> SUFFICES ASSUME app = "pause", ~hung
               PROVE  call' <= PollEvery /\ wait' <= MermaidDeadline + call'
    BY DEF Tick
  <2>1. call < PollEvery
    BY Limits0 DEF Tick, Due, WaitInv
  <2>2. call' = call + 1 /\ wait' <= wait + 1
    BY DEF Tick, WaitInv
  <2> QED
    BY <1>1, <2>1, <2>2, Limits0 DEF WaitInv
<1>5. ~(term = "probe" /\ app \in Booting)
  BY DEF Tick, Due, Running
<1> QED
  BY <1>1, <1>2, <1>3, <1>4, <1>5 DEF WaitInv

LEMMA PollWait ==
    ASSUME WaitInv, Connect \/ Ask \/ Answer \/ Refused \/ Again
    PROVE  WaitInv'
<1>1. CASE Connect
  BY <1>1, Limits0 DEF Connect, Goto, WaitInv, Booting, kubelet
<1>2. CASE Ask
  BY <1>2, Limits0 DEF Ask, Goto, WaitInv, Booting, kubelet
<1>3. CASE Answer
  BY <1>3 DEF Answer, Goto, WaitInv, Booting, kubelet
<1>4. CASE Refused
  BY <1>4, Limits0 DEF Refused, PastDeadline, Goto, WaitInv, Booting, kubelet
<1>5. CASE Again
  BY <1>5, Limits0 DEF Again, Goto, WaitInv, Booting, kubelet, timers
<1> QED
  BY <1>1, <1>2, <1>3, <1>4, <1>5

LEMMA SameWait ==
    ASSUME WaitInv, UNCHANGED timers,
           app' = app \/ app' \notin Waiting,
           term' = term \/ term' # "probe" \/ clock = ProbeBudget,
           app' \in Booting => app \in Booting
    PROVE  WaitInv'
BY DEF WaitInv, timers, Waiting, Booting

LEMMA NextWait == ASSUME StopInv, WaitInv, [Next]_vars PROVE WaitInv'
<1>1. CASE Start \/ Restart
  BY <1>1, NoTimersWait DEF Start, Restart, Started, Waiting
<1>2. CASE Connect \/ Ask \/ Answer \/ Refused \/ Again
  BY <1>2, PollWait
<1>3. CASE Migrate \/ Synced
  BY <1>3, SameWait DEF Migrate, Synced, Goto, Waiting, Booting, kubelet
<1>4. CASE BootFails \/ ListenFails \/ Shutdown \/ Close \/ Kill
  BY <1>4, NoTimersWait
     DEF BootFails, ListenFails, Shutdown, Goto, Close, Kill, Gone, Waiting, Booting
<1>5. CASE ShutdownReturns
  BY <1>5, SameWait DEF ShutdownReturns, Waiting, Booting, kubelet
<1>6. ASSUME NEW q \in Requests, Request(q) PROVE WaitInv'
  BY <1>6, SameWait DEF Request, Arrive, Acquire, Release, Return, Stage, kubelet
<1>7. CASE Probes
  BY <1>7, Limits0 DEF Probes, WaitInv, Booting
<1>8. CASE ProbeStops \/ Retire
  BY <1>8, SameWait DEF ProbeStops, Retire, Signal, timers
<1>9. CASE UNCHANGED vars
  BY <1>9, SameWait DEF vars, timers, kubelet
<1> QED
  BY <1>1, <1>2, <1>3, <1>4, <1>5, <1>6, <1>7, <1>8, <1>9, TickWait
     DEF Next, BootStep, Over

-----------------------------------------------------------------------------

LEMMA InitInv == Init => Inv
<1> SUFFICES ASSUME Init PROVE Inv
  OBVIOUS
<1>1. InFlight = {} /\ DOMAIN requests = Requests
  BY DEF Init, InFlight
<1> QED
  BY <1>1 DEF Init, Inv, StopInv, WaitInv, Phases, Booting

\* The strengthening is an invariant of every behaviour of a container.
THEOREM BootInvariant == Spec => []Inv
<1>1. Inv /\ [Next]_vars => Inv'
  BY NextStop, NextWait DEF Inv
<1> QED
  BY InitInv, <1>1, PTL DEF Spec

\* The startup probe leaves waitForMermaid its deadline and one pause.
THEOREM WaitAlwaysFits == Spec => []WaitFitsProbe
<1>1. Inv => WaitFitsProbe
  <2> SUFFICES ASSUME Inv, term = "probe", app \in Waiting, ~hung
               PROVE  clock - wait >= ProbeBudget - MermaidDeadline - PollEvery
    BY DEF WaitFitsProbe
  <2>1. clock = ProbeBudget
    BY DEF Inv, WaitInv, Waiting, Booting
  <2>2. wait \in Nat /\ wait <= MermaidDeadline + PollEvery
    BY Limits0 DEF Inv, WaitInv, Waiting
  <2> QED
    BY <2>1, <2>2, Limits0
<1> QED
  BY BootInvariant, <1>1, PTL

\* A stop cuts off only requests that outlived the shutdown, and says so; SIGKILL
\* comes only when a handler keeps its connection.
THEOREM StopsAreClean == Spec => StopsCleanly
<1> DEFINE Cut == /\ \A q \in Requests : requests'[q] = "cut" /\ requests[q] # "cut" =>
                         stopping >= ShutdownTimeout /\ exit' # "ok"
                  /\ exit' = "killed" /\ exit # "killed" => app = "closing"
<1>1. ASSUME Inv, [Next]_vars PROVE Cut
  <2>1. CASE Close
    <3>1. exit' \in {"failed", "ok"} /\ (exit = "failed" => exit' = "failed")
      BY <2>1 DEF Close
    <3>2. ASSUME NEW q \in Requests, requests'[q] = "cut", requests[q] # "cut"
          PROVE  q \in InFlight
      BY <2>1, <3>2 DEF Close, Gone
    <3> QED
      BY <1>1, <2>1, <3>1, <3>2 DEF Inv, StopInv, Close
  <2>2. CASE Kill
    BY <1>1, <2>2, Limits0 DEF Inv, StopInv, Kill, Alive, Phases
  <2>3. CASE Start \/ Restart
    BY <2>3 DEF Start, Restart, Started
  <2>4. ASSUME NEW q \in Requests, Request(q) PROVE Cut
    BY <1>1, <2>4 DEF Request, Arrive, Acquire, Release, Return, Stage, Inv, StopInv
  <2>5. CASE requests' = requests /\ (exit' # "killed" \/ exit' = exit)
    BY <2>5
  <2> QED
    BY <1>1, <2>1, <2>2, <2>3, <2>4, <2>5
       DEF Next, BootStep, Migrate, Connect, Ask, Answer, Refused, Again, Synced,
           BootFails, ListenFails, Shutdown, ShutdownReturns, Probes, ProbeStops, Retire,
           Signal, Over, Tick, Goto, vars
<1>2. Inv /\ [Next]_vars => [Cut]_vars
  BY <1>1
<1> QED
  BY BootInvariant, <1>2, PTL DEF Spec, StopsCleanly
=============================================================================
