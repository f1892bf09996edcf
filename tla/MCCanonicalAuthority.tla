------------------------ MODULE MCCanonicalAuthority ------------------------
(* An instance of CanonicalAuthority for TLC: r1 meets two proxies and two  *)
(* roots, or races with r2 over one of each.                                *)
EXTENDS CanonicalAuthority

CONSTANTS r1, r2, rootA, rootB

\* Every request that took the locks ends, whatever invalidates it on the way.
\* r1 runs in the crowd and alone, so it stands for each of them.
RequestEnds == Ends(r1)
=============================================================================
