----------------------------- MODULE ServerView -----------------------------
(* What a screen of the web application promises of the data it shows: each  *)
(* view shows some version of its resource, at first none, never one that    *)
(* the server has not reached, and it never goes back. A view that is kept   *)
(* current shows, in the end, what the server holds.                         *)
EXTENDS Naturals

CONSTANTS
    Resources,
    Views,
    Source,            \* the resource that each view shows: [Views -> Resources]
    KeptCurrent        \* the views that refresh themselves, among Views

VARIABLES
    current,           \* version of each resource, counted from 1
    shown              \* version that each view shows, 0 for none

viewVars == <<current, shown>>

ViewInit ==
    /\ current = [r \in Resources |-> 1]
    /\ shown = [k \in Views |-> 0]

Change(r) ==
    /\ current' = [current EXCEPT ![r] = @ + 1]
    /\ UNCHANGED shown

Show(k) ==
    /\ \E v \in 1 .. current[Source[k]] :
           /\ shown[k] < v
           /\ shown' = [shown EXCEPT ![k] = v]
    /\ UNCHANGED current

ViewNext == (\E r \in Resources : Change(r)) \/ (\E k \in Views : Show(k))

ViewSpec == ViewInit /\ [][ViewNext]_viewVars

-----------------------------------------------------------------------------

(* Every version that the server reaches is shown, or a later one is.        *)
CatchesUp(versions) ==
    \A k \in KeptCurrent : \A v \in versions :
        (current[Source[k]] >= v) ~> (shown[k] >= v)
=============================================================================
