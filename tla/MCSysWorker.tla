---------------------------- MODULE MCSysWorker ----------------------------
(***************************************************************************)
(* Two workers that share a thread with room for one job, and one other    *)
(* event handler; the library's thread triggers one of the two.            *)
(***************************************************************************)
EXTENDS SysWorker, TLC

CONSTANTS w1, w2, t1, t2, e1, e2, ec, f1, f2, fc

MCTimerNode == {t1, t2}
MCEventNode == {e1, e2, ec}
MCFlag == {f1, f2, fc}
MCMask == (e1 :> {f1}) @@ (e2 :> {f2}) @@ (ec :> {fc})
MCWorker == {w1, w2}
MCtimer_node == (w1 :> t1) @@ (w2 :> t2)
MCevent_node == (w1 :> e1) @@ (w2 :> e2)
MCevent_flag == (w1 :> f1) @@ (w2 :> f2)
MCClientEvent == {ec}
MCRemote == {w1}
=============================================================================
