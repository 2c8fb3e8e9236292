CONSTANTS
    Stacks = {}
    Tracks = {t1}
    Clips = {c1}
    Media = {m1}
    Timelines = {}
    Collections = {k1}
    Handles = {h1, h2, h3}
    NoObject = NoObject
    NoHandle = NoHandle
    MaxChildren = 2
    Positions = {0, 1, 3}
    Annotated = {}
    Reentrant = FALSE
SPECIFICATION Spec
SYMMETRY Symmetry
INVARIANTS CountExact NoDangling RawLive NothingLeaks
PROPERTY KeepsPromise
