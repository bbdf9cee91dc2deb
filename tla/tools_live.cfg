CONSTANTS
    Runs = {"r1", "r2", "r3"}
    RunsIn <- MCRunsIn
    MaxRestarts = 1
    Queries = {"q1", "q2"}
    MaxLines = 3
    Hosts = {"h1", "h2"}
    Wanted <- MCWanted
    Ports = {"p1", "p2"}
SPECIFICATION Spec
INVARIANTS OutputKept OwnResults ServerIsOwn NoStrays
PROPERTIES CommandAnswered QueryAnswered StartupEnds
CHECK_DEADLOCK FALSE
