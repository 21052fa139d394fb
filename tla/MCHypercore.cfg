CONSTANTS
    a = a
    b = b
    Values <- MCValues
    None = None
    Prologues <- MCPrologues
    MaxLen = 2
    MaxFork = 1
SYMMETRY MCSymmetry
SPECIFICATION Spec
INVARIANTS HeadAuthentic NoEquivocation PresentReadable
PROPERTIES PrologueKept Implements
