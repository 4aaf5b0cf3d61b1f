--------------------------- MODULE MCRateLimiter ---------------------------
EXTENDS RateLimiter, TLC

Symmetric == Permutations(Clients) \cup Permutations(Requests)
=============================================================================
