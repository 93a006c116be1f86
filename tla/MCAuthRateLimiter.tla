------------------------- MODULE MCAuthRateLimiter -------------------------
(* Two addresses, one of them with two connections, and room for two, so    *)
(* that the second address's arrival makes the next failure evict.          *)
EXTENDS AuthRateLimiter

CONSTANTS a, b, a1, a2, b1

MCIPs == {a, b}
MCRequests == {a1, a2, b1}
MCIpOf == [r \in MCRequests |-> IF r = b1 THEN b ELSE a]
=============================================================================
