--------------------------- MODULE MCOrderExecutor ---------------------------
EXTENDS OrderExecutor, TLC

CONSTANTS c1, c2, c3

MCChecks == {c1, c2, c3}
MCSymmetry == Permutations(MCChecks)

\* failures that neither lose the answer of an accepted order nor hit a
\* cancellation
AnswerFaults == {"rateLimit", "nonce", "rejected", "network", "fetch"}

Plan(kinds, calls, byUser) ==
    [kinds |-> kinds, faults |-> calls, cancels |-> byUser]

\* two failed calls; or one, which may be a cancellation, and a cancelOrder()
MCPlans == {Plan(AnswerFaults, 2, 0), Plan(AnswerFaults \cup {"cancel"}, 1, 1)}

NoTrouble == {Plan({}, 0, 0)}
OneRejection == {Plan({"rejected"}, 1, 0)}
OneUser == {Plan({}, 0, 1)}
OneFailedCancel == {Plan({"cancel"}, 1, 0)}
RateLimits == {Plan({"rateLimit"}, 2, 0)}
=============================================================================
