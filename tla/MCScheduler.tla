---------------------------- MODULE MCScheduler ----------------------------
(* Instances of Scheduler for TLC. *)
EXTENDS Scheduler

\* Processes come, go and sleep; they sleep while the clock accounts; setpriority raises
\* priorities while it accounts; setpriority raises and lowers them.
MCLoads == {[ops |-> {"fork", "sleep", "exit"}, statics |-> {}, maxTick |-> 0],
            [ops |-> {"fork", "sleep"}, statics |-> {}, maxTick |-> 1],
            [ops |-> {"fork"}, statics |-> {10}, maxTick |-> 1],
            [ops |-> {"fork", "exit"}, statics |-> {10, 100}, maxTick |-> 0]}
=============================================================================
