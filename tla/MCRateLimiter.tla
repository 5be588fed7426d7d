---------------------------- MODULE MCRateLimiter ----------------------------
(* The requests that differ for csrfMiddleware: one without Origin, one    *)
(* from another site, one whose Referer is ours.                           *)
EXTENDS RateLimiter

R(post, origin, referer) == [post |-> post, origin |-> origin, referer |-> referer]

MCRequest == { R(FALSE, "cross", "none"), R(TRUE, "cross", "same"), R(TRUE, "none", "same") }
=============================================================================
