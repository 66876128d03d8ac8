--------------------------- MODULE MCFuriEventLoop ---------------------------
(* Small instances of FuriEventLoop: the subscription kinds in use and the *)
(* calls that the loop's own callbacks make.                               *)
EXTENDS FuriEventLoop, TLC

Kind(d, e, o) == [dir |-> d, edge |-> e, once |-> o]

LevelIn  == {Kind("In", FALSE, FALSE)}
AllKinds == {Kind("In", FALSE, FALSE), Kind("Out", FALSE, FALSE), Kind("In", TRUE, FALSE)}
OnceEdge == {Kind("In", TRUE, TRUE)}

SafetyOps == {"get", "subscribe", "unsubscribe", "pend", "repend", "set_callback", "stop"}
ServedOps == {"subscribe", "pend", "set_callback"}
OnceOps   == {"get", "subscribe", "unsubscribe"}

Symmetry == Permutations(Objects) \union Permutations(Items)
=============================================================================
