------------------------------ MODULE MCSafeMap ------------------------------
EXTENDS SafeMap, TLC

CONSTANTS t1, t2, t3, k1, k2, k3, fresh, stale, none, s1, s2

MCTasks == {t1, t2, t3}
TwoTasks == {t1, t2}
TaskSymmetry == Permutations(Tasks)
MCValues == {fresh, stale}
MCExpired == {stale}
MCSegments == {s1, s2}

\* one key; two keys of different segments
OneKey == {k1}
OneSegment == k1 :> s1
TwoKeys == {k1, k3}
OtherSegment == (k1 :> s1) @@ (k3 :> s2)

\* every operation on a key; those and all others, one after the other or mixed
LockedKinds == Atomic \cup Compound \cup {"cleanupExpired"}
AllMixes == {LockedKinds,
             {"update", "safeForEach", "clear", "batch"} \cup Unlocked}
BatchMix == {{"update", "batch"}}
CleanupMix == {{"set", "cleanupExpired"}}
=============================================================================
