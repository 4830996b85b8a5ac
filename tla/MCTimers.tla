------------------------------ MODULE MCTimers ------------------------------
(* Three timers for a table of two, and a counter that wraps at 7.            *)
EXTENDS Timers, TLC

CONSTANTS a, b, c

MCPeriod == (a :> 1) @@ (b :> 2) @@ (c :> 2)
MCFirstDelay == (a :> 1) @@ (b :> 2) @@ (c :> 1)
=============================================================================
