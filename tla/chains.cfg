CONSTANTS
    NoArg = NoArg
    NoCall = NoCall
SPECIFICATION Spec
INVARIANTS ChainIsAncestry DocumentedCalls
