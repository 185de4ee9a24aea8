----------------------------- MODULE MCWithdraw -----------------------------
EXTENDS Withdraw

CONSTANT alice

\* All requests are made by the same user.
OneOwner == [r \in Request |-> alice]
=============================================================================
