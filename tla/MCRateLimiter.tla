---------------------------- MODULE MCRateLimiter ----------------------------
(* Instances of RateLimiter for TLC.                                        *)
EXTENDS RateLimiter, TLC

CONSTANTS c1, c2

\* Requests of one client; a bucket is named by a request, so that requests are
\* interchangeable.
FromOne == [r \in Request |-> c1]

Interchangeable == Permutations(Request)
=============================================================================
