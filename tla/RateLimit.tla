------------------------------ MODULE RateLimit ------------------------------
(***************************************************************************)
(* The sliding window of one bucket (a token or a client address): each    *)
(* request reads the time of Redis and then, in one transaction, drops old *)
(* entries, adds its own, counts, and sets the expiry of the key.  Between *)
(* the two commands other requests and time pass.                          *)
(***************************************************************************)
EXTENDS Naturals, FiniteSets

CONSTANTS
  Hits,          \* requests of the bucket
  LimitOf,       \* [Paths -> Nat]
  Window,        \* length of the window, in ticks
  RateHorizon    \* bound of the clock

Paths == {"strict", "general"}

ASSUME RateAssumption ==
  /\ LimitOf \in [Paths -> Nat]
  /\ Window \in Nat \ {0} /\ RateHorizon \in Nat
  /\ IsFiniteSet(Hits)

VARIABLES
  hit,      \* each request: progress, path, the time it has read, and when it
            \* was counted (history)
  entries,  \* the sorted set of each path: the requests it holds
  expires,  \* when the key of each path expires
  rateClock,
  rateRedis \* Redis answers

rateVars == <<hit, entries, expires, rateClock, rateRedis>>

RateTypeOK ==
  /\ hit \in [Hits -> [pc : {"new", "timed", "passed", "refused", "unavailable",
                             "uncounted"},
                       path : Paths, stamp : 0 .. RateHorizon, at : 0 .. RateHorizon]]
  /\ entries \in [Paths -> SUBSET Hits]
  /\ expires \in [Paths -> 0 .. RateHorizon + Window]
  /\ rateClock \in 0 .. RateHorizon
  /\ rateRedis \in BOOLEAN

RateInit ==
  /\ hit = [h \in Hits |-> [pc |-> "new", path |-> "general", stamp |-> 0,
                          at |-> 0]]
  /\ entries = [p \in Paths |-> {}]
  /\ expires = [p \in Paths |-> 0]
  /\ rateClock = 0
  /\ rateRedis = TRUE

\* A failing command: the strict paths answer 503, the others go on.
WithoutRedis(path) == IF path = "strict" THEN "unavailable" ELSE "uncounted"

ReadTime(h) ==
  /\ hit[h].pc = "new"
  /\ \E path \in Paths :
       hit' = [hit EXCEPT ![h] =
         [pc |-> IF rateRedis THEN "timed" ELSE WithoutRedis(path),
          path |-> path, stamp |-> rateClock, at |-> 0]]
  /\ UNCHANGED <<entries, expires, rateClock, rateRedis>>

\* ZREMRANGEBYSCORE 0 .. now - window, with the time the request has read.
Recent(path, now) == {h \in entries[path] : hit[h].stamp + Window > now}

\* Mutant of Counted: the entries are counted before the request is added.
CountedBefore(h) == Cardinality(Recent(hit[h].path, hit[h].stamp))

\* ZCARD after ZADD.
Counted(h) == Cardinality(Recent(hit[h].path, hit[h].stamp) \union {h})

\* The transaction; a refused request stays counted.
Count(h) ==
  /\ hit[h].pc = "timed" /\ rateRedis
  /\ LET path == hit[h].path IN
     /\ entries' = [entries EXCEPT ![path] = Recent(path, hit[h].stamp) \union {h}]
     /\ expires' = [expires EXCEPT ![path] = rateClock + Window]
     /\ hit' = [hit EXCEPT ![h].at = rateClock, ![h].pc =
          IF Counted(h) > LimitOf[path] THEN "refused" ELSE "passed"]
  /\ UNCHANGED <<rateClock, rateRedis>>

CountFails(h) ==
  /\ hit[h].pc = "timed" /\ ~rateRedis
  /\ hit' = [hit EXCEPT ![h].pc = WithoutRedis(hit[h].path)]
  /\ UNCHANGED <<entries, expires, rateClock, rateRedis>>

\* Time passes; a key that is not refreshed for a window is deleted.
RateTick ==
  /\ rateClock < RateHorizon
  /\ rateClock' = rateClock + 1
  /\ entries' = [p \in Paths |-> IF expires[p] <= rateClock' THEN {} ELSE entries[p]]
  /\ UNCHANGED <<hit, expires, rateRedis>>

RateOutage ==
  /\ rateRedis' = ~rateRedis
  /\ UNCHANGED <<hit, entries, expires, rateClock>>

RateNext ==
  \/ \E h \in Hits : ReadTime(h) \/ Count(h) \/ CountFails(h)
  \/ RateTick \/ RateOutage

RateSpec == RateInit /\ [][RateNext]_rateVars
-----------------------------------------------------------------------------
\* In every stretch of a window's length, past or present, no more requests
\* than the limit both read the time and are let through, although keys expire
\* on their own (RateLimitMiddleware.dispatch).  A request counted only after
\* the stretch is not among them: it may find the entries of its own window
\* gone with the key.
WindowHolds ==
  \A path \in Paths, from \in 0 .. RateHorizon :
    Cardinality({h \in Hits : /\ hit[h].pc = "passed" /\ hit[h].path = path
                              /\ from <= hit[h].stamp
                              /\ hit[h].at < from + Window})
      <= LimitOf[path]
==============================================================================
