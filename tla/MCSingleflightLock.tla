------------------------- MODULE MCSingleflightLock -------------------------
\* Three clients of two keys; one lock object more than can be in use at once.
EXTENDS SingleflightLock, TLC

CONSTANTS c1, c2, c3, k1, k2, o1, o2, o3

MCClients == {c1, c2, c3}
MCKeys    == {k1, k2}
MCLocks   == {o1, o2, o3}

=============================================================================
