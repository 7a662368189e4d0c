------------------------ MODULE MCEventLoopRequests ------------------------
(***************************************************************************)
(* EventLoopRequests on one event handler.                                 *)
(***************************************************************************)
EXTENDS EventLoopRequests, TLC

CONSTANTS e1, f1

MCMask == e1 :> {f1}
=============================================================================
