---------------------------- MODULE MCNewsCache ----------------------------
\* Two requests for the news of one stock.
EXTENDS NewsCache

CONSTANTS r1, r2, all

MCRequests == {r1, r2}
MCOneKey   == {all}

=============================================================================
