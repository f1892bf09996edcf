------------------------- MODULE MCSetupTransaction -------------------------
EXTENDS SetupTransaction, TLC

CONSTANTS canonical, other, b1, b2, s1, p1

MCManifests == {canonical, other}
MCCanonical == {canonical}
MCBrowsers == {b1, b2}
MCStores == {s1}
MCPayloads == {p1}
MCNone == {}

Renaming == Permutations(MCBrowsers)
=============================================================================
