----------------------------- MODULE Freshness -----------------------------
(***************************************************************************)
(* The arithmetic of lifetimes (common/cache/freshness.ts).  A value is    *)
(* fresh until the end of the source's refresh interval its arrival falls  *)
(* in, and servable until it is MaxStale old.  Time is a natural number of *)
(* ticks; both lifetimes are given in the same unit.                       *)
(***************************************************************************)
EXTENDS Naturals

\* The refresh interval, numbered from the epoch, that a moment falls in.
Interval(t, ttl) == t \div ttl

FreshUntil(at, ttl) == Interval(at, ttl) * ttl + ttl

ExpiresAt(obtainedAt, maxStale) == obtainedAt + maxStale
=============================================================================
