-------------------------- MODULE MCEventLoopTimers --------------------------
(***************************************************************************)
(* EventLoopTimed with timers only: a flag may wake the loop, and no event *)
(* handler listens for it.                                                 *)
(***************************************************************************)
EXTENDS EventLoopTimed, TLC

CONSTANT f1

MCMask == <<>>

Symmetry == Permutations(TimerNode)
=============================================================================
