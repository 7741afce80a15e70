--------------------------- MODULE MCSessionStore ---------------------------
EXTENDS SessionStore
CONSTANTS w1, w2, s1
MCTtl == {1, 2}
=============================================================================
