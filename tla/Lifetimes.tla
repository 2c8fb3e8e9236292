----------------------------- MODULE Lifetimes -----------------------------
(***************************************************************************)
(* What the package promises about the lifetime of schema objects, told    *)
(* without reference counts: the README ("the object self-deletes only     *)
(* when the last reference (R handle or tree parent) goes away") and the   *)
(* comment at src/src/otio_xptr.h:14-16.  An object that the R session can *)
(* reach, directly or through the objects that hold it, is never taken     *)
(* away, and nothing that is gone is ever referred to again.               *)
(***************************************************************************)
CONSTANT Objects        \* every object the process may ever create

VARIABLES live,         \* the objects that exist
          gone,         \* the objects that existed and were destroyed
          roots,        \* the objects R handles and running calls refer to
          holds         \* <<p, c>>: object p holds a reference to object c

abstract == <<live, gone, roots, holds>>

(* S has every root, and with an object everything that object holds.      *)
Closed(S) == roots \subseteq S /\ \A e \in holds : e[1] \in S => e[2] \in S

(* No chain of references leads from a root to o.                          *)
Unreachable(o) == \E S \in SUBSET live : Closed(S) /\ o \notin S

(* Everything that is referred to exists.                                  *)
Sound == roots \subseteq live /\ holds \subseteq live \X live

AbsInit == live = {} /\ gone = {} /\ roots = {} /\ holds = {}

(* Calls create objects and change who refers to whom; they destroy none.  *)
Work == /\ live \subseteq live' /\ live' \subseteq Objects
        /\ live' \cap gone = {} /\ gone' = gone
        /\ Sound'

(* One object that nothing reachable refers to is destroyed, and with it   *)
(* the references it held.                                                 *)
Reclaim(o) == /\ o \in live /\ Unreachable(o)
              /\ live' = live \ {o} /\ gone' = gone \cup {o}
              /\ roots' = roots
              /\ holds' = {e \in holds : e[1] # o}
              /\ Sound'

(* The R process ends: every object goes with it.                          *)
ProcessEnd == /\ live' = {} /\ gone' = gone \cup live
              /\ roots' = {} /\ holds' = {}

AbsNext == Work \/ (\E o \in Objects : Reclaim(o)) \/ ProcessEnd

AbsSpec == AbsInit /\ [][AbsNext]_abstract
=============================================================================
