------------------------- MODULE MCExtensionSession -------------------------
EXTENDS ExtensionSession, TLC

CONSTANTS g1, g2, c1, c2

TheGames == {g1, g2}
TheCalls == {c1, c2}

Interchangeable == Permutations(TheGames) \cup Permutations(TheCalls)
=============================================================================
