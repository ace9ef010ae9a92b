--------------------------- MODULE MCConfigFiles ----------------------------
\* A small instance of ConfigFiles for TLC.
EXTENDS ConfigFiles, TLC

CONSTANTS p1, p2, s1, s2, file, a

\* Both handlers on the first pod, so the second one only follows.
OnFirst == s1 :> p1 @@ s2 :> p1
=============================================================================
