------------------------- MODULE MCRestorationQueue -------------------------
\* Small instances of RestorationQueue for TLC.
EXTENDS RestorationQueue, TLC

CONSTANTS t1, t2, r1, r2, r3, e1, e2, w1, w2, c1, c2, default, west

\* Two restorations of t1, and one of t2.
OneTargetOf == (r1 :> t1) @@ (r2 :> t1)
TwoTargetsOf == (r1 :> t1) @@ (r2 :> t1) @@ (r3 :> t2)

NoPresetTag == [t \in Targets |-> default]
WestTag == [t \in Targets |-> IF t = t1 THEN west ELSE default]

EveryTag == [w \in Workers |-> Tags]
=============================================================================
