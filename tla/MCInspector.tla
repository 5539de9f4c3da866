---------------------------- MODULE MCInspector -----------------------------
\* Inspector and Panel with three keys in two slabs.
EXTENDS Panel

CONSTANTS e, f, t

InSlabs == [k \in Key |-> IF k = t THEN 2 ELSE 1]

=============================================================================
