--------------------------------- MODULE MCVM ---------------------------------
EXTENDS VM, TLC

CONSTANTS p1, p2, s1, d1, d2, k1, k2, f1, f2, f3, f4

One == {p1}
Two == {p1, p2}
StackPage == {s1}
Data2 == {d1, d2}
Buffer2 == {d2}
MappedOne == {d2}
Kpages == {k1, k2}
Frames4 == {f1, f2, f3, f4}
Tagged(e) == {e[2]}
Unchanged(e) == {"file"}
All(p) == Page
Uneven(p) == IF p = p1 THEN {d1, d2} ELSE {d1}
Symmetry == Permutations(Kpages) \cup Permutations(Frames4)
===============================================================================
