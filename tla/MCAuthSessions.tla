--------------------------- MODULE MCAuthSessions ---------------------------
EXTENDS AuthSessions

CONSTANTS r1, r2

TheRequests == {r1, r2}

AnyRequest == Permutations(TheRequests)
=============================================================================
