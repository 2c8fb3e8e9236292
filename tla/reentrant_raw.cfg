CONSTANTS
    Stacks = {s1}
    Tracks = {t1}
    Clips = {c1}
    Media = {}
    Timelines = {}
    Collections = {}
    Handles = {h1, h2, h3}
    NoObject = NoObject
    NoHandle = NoHandle
    MaxChildren = 2
    Positions = {1}
    Annotated = {}
    Reentrant = TRUE
SPECIFICATION Spec
INVARIANT RawLive
