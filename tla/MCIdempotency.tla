--------------------------- MODULE MCIdempotency ---------------------------
EXTENDS Idempotency, TLC

CONSTANTS c1, c2, c3, k1, f1, f2

MCCalls == {c1, c2, c3}
MCKeys == {k1}
MCFingerprints == {f1, f2}
MCTimes == 0..5
MCCoarse == {5}
MCCompletedTTLs == {2, None}

CallsAndInputs == Permutations(MCCalls) \cup Permutations(MCFingerprints)
=============================================================================
