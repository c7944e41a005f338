SPECIFICATION FairElection
CONSTANTS
    Standalone = {s1}
    Guis = {g1, g2}
    Slaves = {c1}
    Retries = 10
    PollSleeps = 2
    Backlog = 2
    NoOne = NoOne
INVARIANTS
    ElectionSound

    
