------------------------ MODULE MCSharedBalanceCache -------------------------
EXTENDS SharedBalanceCache

CONSTANTS p1, p2, a1, a2, b1

MCProcs == {p1, p2}
\* the calls of one process overlap
MCCalls == {a1, a2, b1}
MCOf == [c \in MCCalls |-> IF c = b1 THEN p2 ELSE p1]

MCFor(x1, x2) == [p \in MCProcs |-> IF p = p1 THEN x1 ELSE x2]
\* one clock is ahead of the other, so far that a record just stored looks stale
MCClocks == {MCFor(0, 2)}
\* the ways to configure the processes that make sense: anyone may fill the
\* cache, or one only
MCRoleSets == {MCFor("auto", "auto")}
              \cup {MCFor(r, "follower") : r \in {"auto", "leader"}}
              \cup {MCFor("follower", r) : r \in {"auto", "leader"}}
==============================================================================
