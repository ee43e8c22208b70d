--------------------------- MODULE MCEventWrite ---------------------------
EXTENDS EventWrite, TLC

CONSTANTS k1, b1, b2

Req(key, body, ttl, barrier) == [key |-> key, body |-> body, ttl |-> ttl, barrier |-> barrier]

\* Keyed retries with and without the same payload, with and without a barrier,
\* keyless calls, and calls whose events expire.
Requests == {Req(k1, b1, FALSE, FALSE), Req(k1, b2, FALSE, FALSE), Req(k1, b1, FALSE, TRUE),
             Req(NoKey, b1, TRUE, FALSE), Req(k1, b1, TRUE, TRUE)}
=============================================================================
