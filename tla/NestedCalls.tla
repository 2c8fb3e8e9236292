---------------------------- MODULE NestedCalls ----------------------------
(***************************************************************************)
(* JSON calls that hooks make, as the calls outside them see it.  Nothing  *)
(* in src/src/registry.cpp or src/src/serializable.cpp knows that calls    *)
(* nest: each has its dictionary, its targets and its place in the         *)
(* traversal on its own C++ stack, and what they share is the registry.    *)
(***************************************************************************)
EXTENDS SchemaRegistry

CONSTANT Outermost  \* how many of the calls are looked at

ASSUME OutermostAssumption == Outermost \in Nat \ {0}

(* The innermost call comes first.                                         *)
Visible(s) == IF Len(s) <= Outermost THEN s
              ELSE SubSeq(s, Len(s) - Outermost + 1, Len(s))

(* What a call further inside gave is known to the hook that made it.      *)
VisibleResult == IF Len(calls) < Outermost THEN ended ELSE Nothing

Outer == INSTANCE SchemaRegistry
           WITH MaxDepth <- Outermost, calls <- Visible(calls), ended <- VisibleResult

(* Nested calls are of no consequence: whatever JSON hooks read and write, *)
(* to whatever depth, and however that ends, the outermost calls go and    *)
(* end as they could if the hooks in the last of them made no JSON calls   *)
(* at all, and did only the rest of what they do.                          *)
InnerCallsUnseen == Outer!Spec
=============================================================================
