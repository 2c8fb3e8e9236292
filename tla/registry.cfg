CONSTANTS
    Schemas = {"Clip", "Marker"}
    Unknown = "Other"
    NoName = "none"
    Functions = {f, g}
    NoFunction = NoFunction
    Own = Own
    Evolved = {"Clip"}
    Current <- MCCurrent
    IntMax = 3
    NotWhole = NotWhole
    NaNumber = NaNumber
    Slots <- MCSlots
    Requests <- MCRequests
    Trees <- MCTrees
    Documents <- MCDocuments
    MaxDepth = 2
    Outermost = 1
SPECIFICATION FairSpec
INVARIANTS TypeOK HooksAlive WrittenAsAsked OwnVersionsNeedNoHook
PROPERTIES CallsEnd InnerCallsUnseen
