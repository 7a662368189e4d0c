---------------------------- MODULE MCEventLoop ----------------------------
(***************************************************************************)
(* EventLoop on two event handlers with overlapping masks.                 *)
(***************************************************************************)
EXTENDS EventLoop, TLC

CONSTANTS e1, e2, f1, f2

MCEventNode == {e1, e2}
MCFlag == {f1, f2}
MCMask == (e1 :> {f1}) @@ (e2 :> {f1, f2})
=============================================================================
