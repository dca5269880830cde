\* Every interleaving of loop, threads, clock and close() for three submissions
\* and a mailbox of one.
SPECIFICATION CloseSpec
CONSTANTS
    Keys = {k1, k2}
    Deadline = 1
    CallTime = 1
    MaxResults = 1
    Threads = {1, 2}
    Prompt = FALSE
    Numbered = TRUE
    MaxJobs = 3
    MaxHangs = 1
    MaxDeaths = 1
INVARIANTS
    TypeOK
    JobsOnce
PROPERTIES
    CloseEnds
