\* Spawns and resumes bounded by agent_max_threads, with paths and nicknames.
CONSTANTS
    Agents = {a1, a2, a3, a4}
    Roots = {z1, z2}
    Paths = {p1, p2}
    RootPath = root
    Reservations = {r1, r2}
    Releasers = {c1}
    Names <- MCNames
    Pools <- MCPools
    Preferred <- MCPreferred
    Limits <- MCLimits
    None = None
    MaxCount = 3
    MaxResets = 1
    bob = bob
    amy = amy
    eve = eve
SPECIFICATION Spec
SYMMETRY MCSymmetry
INVARIANTS TypeOK IndexConsistent ReservedPathsHeld DrawnNicknamesUnique SlotsAccounted LimitRespected
PROPERTIES PathNeverReassigned
