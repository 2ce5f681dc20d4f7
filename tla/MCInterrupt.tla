---------------------------- MODULE MCInterrupt ----------------------------
(* Model values, routings and bounds for Interrupt.                        *)
EXTENDS Interrupt

CONSTANTS p1, p2, s1, s2, c1, c2, r1, r2, q1, none, redis, local

\* Every request of a session reaches one pod; any request reaches any pod.
Sticky == [s \in Sessions |-> {IF s = s1 THEN p1 ELSE CHOOSE p \in Pods : TRUE}]
Spread == [s \in Sessions |-> Pods]

\* All pods share Redis; or one of them keeps checkpoints in its own memory.
Shared == [p \in Pods |-> redis]
Mixed == [p \in Pods |-> IF p = p1 THEN redis ELSE local]
============================================================================
