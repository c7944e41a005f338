SPECIFICATION ElectionSpec
CONSTANTS
    Standalone = {s1}
    Guis = {g1}
    Slaves = {c1}
    Retries = 2
    PollSleeps = 2
    Backlog = 2
    NoOne = NoOne
INVARIANTS
    GuiReachable
