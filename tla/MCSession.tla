----------------------------- MODULE MCSession -----------------------------
\* Two tabs and two browsers: the tabs share one, or have one each.
EXTENDS Session, TLC

Symmetry == Permutations(Tab) \cup Permutations(Browser)
=============================================================================
