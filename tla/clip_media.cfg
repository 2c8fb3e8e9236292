CONSTANTS
    proxy = proxy
    r1 = r1
    r2 = r2
    DefaultKey = DefaultKey
    Keys = {proxy}
    NaKey = NaKey
    NaText = proxy
    EmptyKey = EmptyKey
    NoString = NoString
    Refs = {r1, r2}
    Made = {m1}
    NoRef = NoRef
    NotRef = NotRef
    NaReal = 99
    NameLists <- MCNameLists
    Ranges <- MCRanges
    Documents <- MCDocuments
SYMMETRY Symmetry
SPECIFICATION Spec
INVARIANTS RangesFinite AcceptedReadsBack
PROPERTIES ActiveStays RefusedChangesNothing CopyRestores RangesMove
