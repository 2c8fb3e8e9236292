CONSTANTS
    Stacks = {}
    Tracks = {t1}
    Clips = {c1, c2}
    Media = {}
    Timelines = {}
    Collections = {}
    Handles = {h1, h2, h3}
    NoObject = NoObject
    NoHandle = NoHandle
    MaxChildren = 1
    Positions = {1}
    Annotated = {t1, c1}
    Reentrant = FALSE
SPECIFICATION FairSpec
INVARIANTS IInv RawLive NothingLeaks
PROPERTIES KeepsPromise Reclaimed CallsEnd
