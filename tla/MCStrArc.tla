------------------------------ MODULE MCStrArc -------------------------------
\* Values for the constants of StrArcCycle: a directory with a file in it
\* beside another file, or files only; the switches of a restore.
EXTENDS StrArcCycle

CONSTANTS root, sub, a, b, c

TreeParent == [p \in {sub, a, b} |-> IF p = a THEN sub ELSE root]
FlatParent == [p \in File |-> root]

Everything == <<root>>
Overlapping == <<root, a>>

Switches(set) == [s \in {"o", "a", "n", "f", "l"} |-> s \in set]
OptO == Switches({"o"})
OptOA == Switches({"o", "a"})
OptON == Switches({"o", "n"})
OptNone == Switches({})
OptL == Switches({"l"})
==============================================================================
