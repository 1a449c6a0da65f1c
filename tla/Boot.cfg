\* The limits of the code and of deployment.yaml, in ticks of two seconds.
CONSTANTS
    Requests = {q1, q2}
    Environments <- MCEnvironments
    MermaidDeadline = 45
    PollEvery = 1
    CallTimeout = 15
    ShutdownTimeout = 5
    ProbeBudget = 60
    Grace = 15
    MaxRestarts = 1
SPECIFICATION FairSpec
INVARIANTS
    WaitFitsProbe
PROPERTIES
    StopsCleanly
    BootSettles
