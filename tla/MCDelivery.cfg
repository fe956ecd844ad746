SPECIFICATION Spec
CONSTANTS
    c1 = c1
    c2 = c2
    r1 = r1
    Coders <- OneCoder
    Reviewers <- OneReviewer
    PhaseCount = 2
    MaxRuns = 2
    MaxFaults = 2
    Faults = {"clone", "ls-remote", "add", "squash", "commit", "push", "pull", "comment"}
VIEW MCView
INVARIANTS
    CompleteRun
    RecordedIsPublished
    FastForward
PROPERTIES
    ImplementsPublication
CHECK_DEADLOCK FALSE
