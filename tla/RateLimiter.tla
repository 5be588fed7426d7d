----------------------------- MODULE RateLimiter -----------------------------
(***************************************************************************)
(* The handlers' way through csrfMiddleware, rateLimitMiddleware and       *)
(* authMiddleware (server.go: chain), the token buckets they share, and    *)
(* the goroutine that evicts buckets nobody uses.  get and allow take      *)
(* different locks, so a handler may hold a bucket that is evicted.        *)
(*                                                                         *)
(* Time is in ticks; a tick adds one unit to a bucket, a token is Cost     *)
(* units, the fraction of a token that tokens (a float64) can hold is what *)
(* is below Cost.                                                          *)
(***************************************************************************)
EXTENDS Naturals, FiniteSets

CONSTANTS Ip,          \* client addresses
          Handler,     \* requests served at a time
          Number,      \* tell apart the bucket objects of one address
          NoIp, NoBucket,
          Request,     \* [post, origin, referer]: what csrfMiddleware looks at
          Cost,        \* ticks per token: 1 / ratePerSecond
          Burst,       \* rateBurst, in tokens
          IdleTime     \* 10 * time.Minute

Capacity == Burst * Cost

Bucket == Ip \X Number

Source == {"none", "same", "cross"}

ASSUME RateAssumption == /\ Cost \in Nat \ {0} /\ Burst \in Nat \ {0} /\ IdleTime \in Nat
                         /\ Capacity <= IdleTime

ASSUME RequestAssumption ==
  Request \subseteq [post : BOOLEAN, origin : Source, referer : Source]

ASSUME NamesAssumption ==
  /\ NoIp \notin Ip /\ NoBucket \notin Bucket
  /\ IsFiniteSet(Handler) /\ IsFiniteSet(Number) /\ Cardinality(Handler) < Cardinality(Number)

VARIABLES phase,     \* where each handler is; "403" and "429" are answers
          from,      \* the address it serves, until the limiter has decided
          held,      \* the bucket get returned to it
          buckets,   \* rateLimiterStore.buckets
          heap,      \* tokens, in units, and age (time since last) of the buckets in use
          unswept,   \* addresses the sweep has still to look at
          doomed,    \* the address whose bucket it found idle
          sweep,     \* the evictor: "sleep", "sweep" (it holds s.mu), "ended"
          free       \* ghost: handlers that were answered by an evicted bucket

hvars    == <<phase, from, held, free>>
svars    == <<unswept, doomed, sweep>>
rateVars == <<hvars, svars, buckets, heap>>

RateInit == /\ phase = [h \in Handler |-> "idle"]
            /\ from = [h \in Handler |-> NoIp]
            /\ held = [h \in Handler |-> NoBucket]
            /\ free = {}
            /\ buckets = [ip \in Ip |-> NoBucket]
            /\ heap = [b \in {} |-> 0]
            /\ unswept = {} /\ doomed = {} /\ sweep = "sleep"

InUse(bs, hs) == {b \in Bucket : (\E ip \in Ip : bs[ip] = b) \/ (\E h \in Handler : hs[h] = b)}

Only(hp, S) == [b \in S |-> hp[b]]

Least(a, b) == IF a < b THEN a ELSE b

(* Time goes on for the buckets; an age beyond IdleTime is one like any    *)
(* other.  A sweep is over before the next tick.                           *)
Tick == /\ sweep # "sweep"
        /\ heap' = [b \in DOMAIN heap |-> [heap[b] EXCEPT !.age = Least(@ + 1, IdleTime + 1)]]
        /\ UNCHANGED <<hvars, svars, buckets>>

-----------------------------------------------------------------------------
(* A request.                                                              *)

(* csrfMiddleware: Origin decides, Referer where there is no Origin.       *)
CrossSite(q) ==
  q.post /\ IF q.origin # "none" THEN q.origin = "cross" ELSE q.referer = "cross"

Arrive(h) ==
  /\ phase[h] = "idle"
  /\ \E ip \in Ip, q \in Request :
       IF CrossSite(q)
       THEN /\ phase' = [phase EXCEPT ![h] = "403"]
            /\ UNCHANGED from
       ELSE /\ phase' = [phase EXCEPT ![h] = "get"]
            /\ from' = [from EXCEPT ![h] = ip]
  /\ UNCHANGED <<held, free, svars, buckets, heap>>

(* Mutant of Unlocked: the sweep holds s.mu for the deletions only. *)
UnlockedAlways == TRUE

(* s.mu is free. *)
Unlocked == sweep # "sweep"

(* rateLimiterStore.get. *)
Get(h) ==
  /\ phase[h] = "get" /\ Unlocked
  /\ phase' = [phase EXCEPT ![h] = "allow"]
  /\ LET ip == from[h] IN
       \/ /\ buckets[ip] # NoBucket
          /\ held' = [held EXCEPT ![h] = buckets[ip]]
          /\ UNCHANGED <<buckets, heap>>
       \/ /\ buckets[ip] = NoBucket
          /\ LET b == <<ip, CHOOSE n \in Number : <<ip, n>> \notin DOMAIN heap>> IN
               /\ held' = [held EXCEPT ![h] = b]
               /\ buckets' = [buckets EXCEPT ![ip] = b]
               /\ heap' = [x \in DOMAIN heap \cup {b} |->
                             IF x = b THEN [tokens |-> Capacity, age |-> 0] ELSE heap[x]]
  /\ UNCHANGED <<from, free, svars>>

(* Mutant of Filled: whole tokens only, as with an integer count. *)
FilledWhole(b) == Least(heap[b].tokens + Cost * (heap[b].age \div Cost), Capacity)

Filled(b) == Least(heap[b].tokens + heap[b].age, Capacity)

(* Evicted, or found idle by a sweep that is about to delete it. *)
Lost(h) == buckets[from[h]] # held[h] \/ from[h] \in doomed

(* bucket.allow, under the bucket's own lock. *)
Allow(h) ==
  /\ phase[h] = "allow"
  /\ LET b == held[h]
         pays == Filled(b) >= Cost
         left == IF pays THEN Filled(b) - Cost ELSE Filled(b)
     IN  /\ phase' = [phase EXCEPT ![h] = IF pays THEN "passed" ELSE "429"]
         /\ held' = [held EXCEPT ![h] = NoBucket]
         /\ from' = [from EXCEPT ![h] = NoIp]
         /\ heap' = Only([heap EXCEPT ![b] = [tokens |-> left, age |-> 0]], InUse(buckets, held'))
  /\ free' = IF Lost(h) THEN free \cup {h} ELSE free
  /\ UNCHANGED <<svars, buckets>>

(* The answer: an error of the middlewares, or, of a request that passed,  *)
(* that of authMiddleware, of the handler, or of recoveryMiddleware after  *)
(* a panic, which are all the same to the limiter.                         *)
End(h) == /\ phase[h] \in {"403", "429", "passed"}
          /\ phase' = [phase EXCEPT ![h] = "idle"]
          /\ free' = free \ {h}
          /\ UNCHANGED <<from, held, svars, buckets, heap>>

-----------------------------------------------------------------------------
(* The evictor.                                                            *)

(* The ticker fires, at any time. *)
SweepBegin == /\ sweep = "sleep"
              /\ sweep' = "sweep"
              /\ unswept' = {ip \in Ip : buckets[ip] # NoBucket}
              /\ UNCHANGED <<hvars, doomed, buckets, heap>>

Idle(b) == heap[b].age > IdleTime

(* Mutant of Judge: break instead of continue at a bucket in use. *)
JudgeToFirstBusy ==
  /\ sweep = "sweep" /\ doomed = {}
  /\ \E ip \in unswept :
       /\ unswept' = IF Idle(buckets[ip]) THEN unswept \ {ip} ELSE {}
       /\ doomed' = IF Idle(buckets[ip]) THEN {ip} ELSE {}
  /\ UNCHANGED <<hvars, sweep, buckets, heap>>

(* The idle test of one bucket, in the order of the map, which is any. *)
Judge == /\ sweep = "sweep" /\ doomed = {}
         /\ \E ip \in unswept :
              /\ unswept' = unswept \ {ip}
              /\ doomed' = IF Idle(buckets[ip]) THEN {ip} ELSE {}
         /\ UNCHANGED <<hvars, sweep, buckets, heap>>

Evict == /\ \E ip \in doomed :
              /\ buckets' = [buckets EXCEPT ![ip] = NoBucket]
              /\ heap' = Only(heap, InUse(buckets', held))
         /\ doomed' = {}
         /\ UNCHANGED <<hvars, unswept, sweep>>

SweepEnd == /\ sweep = "sweep" /\ unswept = {} /\ doomed = {}
            /\ sweep' = "sleep"
            /\ UNCHANGED <<hvars, unswept, doomed, buckets, heap>>

(* Server.Shutdown ends the evictor, between two sweeps. *)
Stop == /\ sweep = "sleep"
        /\ sweep' = "ended"
        /\ UNCHANGED <<hvars, unswept, doomed, buckets, heap>>

-----------------------------------------------------------------------------
Evictor == SweepBegin \/ Judge \/ Evict \/ SweepEnd

Step(h) == Get(h) \/ Allow(h) \/ End(h)

RateNext == Tick \/ Evictor \/ Stop \/ \E h \in Handler : Arrive(h) \/ Step(h)

RateSpec == RateInit /\ [][RateNext]_rateVars

(* Time passes between the sweeps, the evictor and the handlers run. *)
RateFairness == SF_rateVars(Tick) /\ WF_rateVars(Evictor) /\ \A h \in Handler : WF_rateVars(Step(h))

RateFairSpec == RateSpec /\ RateFairness

-----------------------------------------------------------------------------
RateTypeOK ==
  /\ phase \in [Handler -> {"idle", "get", "allow", "passed", "403", "429"}]
  /\ from \in [Handler -> Ip \cup {NoIp}]
  /\ held \in [Handler -> Bucket \cup {NoBucket}]
  /\ free \subseteq Handler
  /\ buckets \in [Ip -> Bucket \cup {NoBucket}]
  /\ heap \in [InUse(buckets, held) -> [tokens : 0 .. Capacity, age : 0 .. IdleTime + 1]]
  /\ unswept \subseteq Ip /\ doomed \subseteq Ip
  /\ sweep \in {"sleep", "sweep", "ended"}

(* What an address can pay now: an evicted bucket would be full. *)
Credit == [ip \in Ip |-> IF buckets[ip] = NoBucket \/ ip \in doomed THEN Capacity
                                                                    ELSE Filled(buckets[ip])]

Verdict ==
  [h \in Handler |-> IF h \in free THEN "free"
                    ELSE CASE phase[h] \in {"idle", "403"}  -> "none"
                           [] phase[h] \in {"get", "allow"} -> "asked"
                           [] phase[h] = "429"              -> "refused"
                           [] OTHER                      -> "passed"]

(* Whatever the evictor does, requests pass and are refused as if each     *)
(* address had one bucket for ever, those with a wrong token like others;  *)
(* only answers of a bucket evicted between get and allow are free.        *)
Meter == INSTANCE RateMeter WITH credit <- Credit, verdict <- Verdict

KeepsTheRate == Meter!Spec

(* get never returns a bucket that is evicted or about to be: only who had *)
(* its bucket before a sweep found it idle gets a free answer, so that an  *)
(* eviction gives away no more answers than there are handlers.            *)
GetIsCurrent == [][\A h \in Handler : held[h] = NoBucket /\ held'[h] # NoBucket => ~Lost(h)']_rateVars

(* The store does not grow for ever: an address that asks no more loses    *)
(* its bucket, unless the server shuts down.                               *)
Silent(ip) == \A h \in Handler : from[h] # ip

IdleAreEvicted ==
  \A ip \in Ip : <>[]Silent(ip) => <>(sweep = "ended" \/ [](buckets[ip] = NoBucket))
=============================================================================
