------------------------ MODULE MCFuriEventLoopTimer ------------------------
(* Small instances of FuriEventLoopTimer: the calls that callbacks make.   *)
EXTENDS FuriEventLoopTimer, TLC

TimerOps == {"alloc", "start", "restart", "stop", "free"}
StopOps  == {"alloc", "start", "stop"}
PassOps  == {"alloc", "start", "pend", "tick_set"}

Symmetry == Permutations(Timers)
=============================================================================
