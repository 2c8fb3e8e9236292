CONSTANTS
    Stacks = {s1, s2}
    Tracks = {t1}
    Clips = {c1}
    Media = {}
    Timelines = {tl1}
    Collections = {}
    Handles = {h1, h2, h3}
    NoObject = NoObject
    NoHandle = NoHandle
    MaxChildren = 1
    Positions = {1}
    Annotated = {}
    Reentrant = FALSE
SPECIFICATION Spec
SYMMETRY Symmetry
INVARIANTS CountExact TreeLinks NoDangling RawLive NothingLeaks
PROPERTY KeepsPromise
