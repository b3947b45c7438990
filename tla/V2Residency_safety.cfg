\* Two concurrent tool calls with follow-ups, more agents than slots.
CONSTANTS
    Agents = {a1, a2, a3}
    Callers = {c1, c2}
    Followups = {f1, f2}
    Notes = {}
    MaxSessions = 3
    Capacity = 1
    None = None
SPECIFICATION Spec
SYMMETRY MCSymmetry
INVARIANTS TypeOK SlotsBalanced  
\* A session to which nobody sends anything more rests.
CHECK_DEADLOCK FALSE
