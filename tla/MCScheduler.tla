---------------------------- MODULE MCScheduler ----------------------------
(* An instance of Scheduler for TLC: the timer task and a task t1 of two   *)
(* coroutines, of which m1 is the main one.                                *)
EXTENDS Scheduler, TLC

CONSTANTS timer, t1, tick, m1, c1

OneTaskOf == tick :> timer @@ m1 :> t1 @@ c1 :> t1
OneMain == timer :> tick @@ t1 :> m1
=============================================================================
