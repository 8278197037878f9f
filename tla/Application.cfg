SPECIFICATION FairSpec
CONSTANTS
    Job = {j1, j2, j3}
    Waited = {j1, j2}
    RelayJob = {j1, j2}
    Worker = {w1, w2}
    NoJob = NoJob
    Capacity = 1
    Request = {q1}
INVARIANTS
    NoPanic
    JobsAccounted
    AnswersTrue
    StoppedInOrder
PROPERTIES
    ShutdownEnds
    AcceptedRuns
