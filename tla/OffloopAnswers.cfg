\* A loop that never stops asking, one hung call.
SPECIFICATION LoopSpec
CONSTANTS
    Keys = {k1, k2}
    Deadline = 4
    CallTime = 1
    MaxResults = 2
    Threads = {1, 2, 3, 4}
    Prompt = TRUE
    Numbered = FALSE
    MaxJobs = 0
    MaxHangs = 1
    MaxDeaths = 0
PROPERTIES
    Released
    Answered
