---------------------------- MODULE NamedValues ----------------------------
(***************************************************************************)
(* What metadata(x), metadata(x) <- value and metadata(x)$key <- value are *)
(* to R code (src/R/serializable.R:128-153): a list with names that is     *)
(* part of the object, with no conversion, no other side and no order.  A  *)
(* value that R code assigns is replaced once and for all by the one that  *)
(* is read; a call that is refused does nothing.                           *)
(***************************************************************************)
CONSTANTS Names,    \* the names under which one value is assigned
          Singles,  \* what may then be read under one
          Wholes    \* what may be read after a whole list is assigned or loaded

VARIABLES seen,     \* name -> value, as R code would read it now
          kept      \* the same of a list read earlier

listed == <<seen, kept>>

Without(f, n) == [m \in DOMAIN f \ {n} |-> f[m]]

ListInit == seen = <<>> /\ kept = <<>>

Replace == seen' \in Wholes /\ UNCHANGED kept
Put     == /\ \E n \in Names : /\ n \in DOMAIN seen' /\ seen'[n] \in Singles
                               /\ Without(seen', n) = Without(seen, n)
           /\ UNCHANGED kept
Drop    == (\E n \in Names : seen' = Without(seen, n)) /\ UNCHANGED kept
Keep    == kept' = seen /\ UNCHANGED seen
PutBack == seen' = kept /\ UNCHANGED kept

ListSpec == ListInit /\ [][Replace \/ Put \/ Drop \/ Keep \/ PutBack]_listed
=============================================================================
