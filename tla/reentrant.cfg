CONSTANTS
    Stacks = {s1}
    Tracks = {t1}
    Clips = {c1}
    Media = {}
    Timelines = {}
    Collections = {}
    Handles = {h1, h2, h3, h4}
    NoObject = NoObject
    NoHandle = NoHandle
    MaxChildren = 2
    Positions = {1, 3}
    Annotated = {}
    Reentrant = TRUE
SPECIFICATION Spec
SYMMETRY Symmetry
INVARIANTS IInv KeptRawLive
