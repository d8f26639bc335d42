SPECIFICATION FairSpec
CONSTANTS
    Callers = {c1, c2}
    Exited = Exited
    None = None
    Ids = 3
    MaxUpsets = 3
INVARIANTS AnswerIsCurrent
PROPERTIES StartIsGivenTime LaneRecovers
