---------------------------- MODULE UpstreamPath ----------------------------
(***************************************************************************)
(* What rpc_handler does with a request of one cacheable method that this  *)
(* node answers itself: the response cache (latency_engine.rs), the        *)
(* circuit breaker, the load balancer (load_balancer.rs), the upstream     *)
(* call, and the value stored.  The breaker's steps are those of           *)
(* CircuitBreaker, so its properties are checked here in company.          *)
(*                                                                         *)
(* Times are ages, as in CircuitBreaker.  A tick is long for the code that *)
(* runs between two awaits, and short for an upstream call, which the      *)
(* client of the connection pool ends after Timeout.  Strategies other     *)
(* than Adaptive, weights, the error count and the latency report are left *)
(* out: with no connection ever counted, Adaptive takes the least average, *)
(* and an error changes nothing that select_node reads.                    *)
(***************************************************************************)
EXTENDS CircuitBreaker

CONSTANTS Nodes,     \* endpoints of the load balancer; main adds one
          Ttl,       \* of the method's cache tier
          Timeout,   \* 10 seconds
          MaxBefore, \* bound: ticks from the handler's start to the send
          TickMs     \* milliseconds in a tick

ASSUME UpstreamAssumption ==
    /\ Nodes # {}
    /\ Ttl \in Nat \ {0} /\ Timeout \in Nat \ {0}
    /\ MaxBefore \in Nat /\ TickMs \in Nat \ {0}

VARIABLES step,     \* where a handler is, within the stages of the breaker
          chosen,   \* the node it was given
          sent,     \* ticks since it sent its request
          loaded,   \* the average it has read
          entry,    \* the cache entry: age of its value, age of its stamp
          average,  \* avg_latency_ms of every node
          slowest   \* history: the longest sample reported for every node

path == <<step, chosen, sent, loaded, entry, average, slowest>>
allVars == <<vars, path>>

\* A request is on the wire: the client's timeout is running.
Calling == {"sent", "averaging", "body"}
Steps == {"none", "expired", "missed", "selected", "storing", "failing"} \cup Calling

NoEntry == [made |-> 0, cached |-> -1]

PathTypeOK ==
    /\ step \in [Handlers -> Steps]
    /\ chosen \in [Handlers -> Nodes]
    /\ sent \in [Handlers -> 0..Timeout]
    /\ loaded \in [Handlers -> Nat]
    /\ entry \in {NoEntry} \cup [made : Nat, cached : 0..Ttl]
    /\ average \in [Nodes -> Nat]
    /\ slowest \in [Nodes -> Nat]

PathInit ==
    /\ Init
    /\ step = [h \in Handlers |-> "none"]
    /\ chosen = [h \in Handlers |-> CHOOSE n \in Nodes : TRUE]
    /\ sent = [h \in Handlers |-> 0]
    /\ loaded = [h \in Handlers |-> 0]
    /\ entry = NoEntry
    /\ average = [n \in Nodes |-> 0]
    /\ slowest = [n \in Nodes |-> 0]

Step(h, from, to) ==
    /\ step[h] = from
    /\ step' = [step EXCEPT ![h] = to]

-----------------------------------------------------------------------------
\* Mutant: the last tick of the entry's life is cut off.
MutantLive(e) == e.cached \in 0..(Ttl - 2)

\* "entry.cached_at.elapsed() < entry.ttl"
Live(e) == e.cached \in 0..(Ttl - 1)

\* Mutant: an entry that is used lives longer.
MutantTouched(e) == [e EXCEPT !.cached = 0]

\* A hit is counted in the entry, and does not renew it.
Touched(e) == e

\* get_cached finds a live entry, which answers the request.
Hit(h) ==
    /\ Step(h, "none", "none")
    /\ Live(entry)
    /\ entry' = Touched(entry)
    /\ UNCHANGED <<vars, chosen, sent, loaded, average, slowest>>

\* get_cached finds nothing, or an entry that has expired and that it lets go.
Miss(h) ==
    /\ Step(h, "none", IF entry = NoEntry THEN "missed" ELSE "expired")
    /\ ~Live(entry)
    /\ UNCHANGED <<vars, chosen, sent, loaded, entry, average, slowest>>

\* "cache.remove(&key)": whatever is there by now.
RemoveExpired(h) ==
    /\ Step(h, "expired", "missed")
    /\ entry' = NoEntry
    /\ UNCHANGED <<vars, chosen, sent, loaded, average, slowest>>

\* evict_expired, every minute.
EvictExpired ==
    /\ entry # NoEntry /\ ~Live(entry)
    /\ entry' = NoEntry
    /\ UNCHANGED <<vars, step, chosen, sent, loaded, average, slowest>>

\* select_node: a node with the least average.
SelectNode == {n \in Nodes : \A other \in Nodes : average[n] <= average[other]}

\* Where is_open leaves a handler, by the stage of the breaker.
AfterIsOpen ==
    [idle |-> "none", timing |-> "missed", comparing |-> "missed", upstream |-> "selected"]

\* is_open: 503, or select_node.
PassBreaker(h) ==
    /\ LoadFailures(h) \/ ReadNow(h, "timing", "comparing") \/ ReadLastFailure(h)
    /\ Step(h, "missed", AfterIsOpen[at'[h]])
    /\ IF at'[h] = "upstream"
       THEN \E n \in SelectNode : chosen' = [chosen EXCEPT ![h] = n]
       ELSE UNCHANGED chosen
    /\ UNCHANGED <<sent, loaded, entry, average, slowest>>

\* verify_with_brahman objects, or cannot be reached.
Forbid(h) ==
    /\ Refuse(h)
    /\ Step(h, "selected", "none")
    /\ UNCHANGED <<chosen, sent, loaded, entry, average, slowest>>

SendUpstream(h) ==
    /\ Step(h, "selected", "sent")
    /\ sent' = [sent EXCEPT ![h] = 0]
    /\ UNCHANGED <<vars, chosen, loaded, entry, average, slowest>>

\* The head of the answer has arrived: record_latency, and the load of
\* LoadBalancer::record_success.
LoadAverage(h) ==
    /\ Step(h, "sent", "averaging")
    /\ loaded' = [loaded EXCEPT ![h] = average[chosen[h]]]
    /\ UNCHANGED <<vars, chosen, sent, entry, average, slowest>>

\* Mutant: the sum of the weights is forgotten.
MutantAveraged(current, sample) == current * 9 + sample

\* The larger of two.
AtLeast(n, m) == IF n < m THEN m ELSE n

\* "(current * 9 + latency_ms as usize) / 10"
Averaged(current, sample) == (current * 9 + sample) \div 10

\* "start_instant.elapsed()" in milliseconds: before the send there were the
\* lookup, the wait for a permit, a failed forward and the verification.
Sample(before, h) == (before + sent[h]) * TickMs

\* The store: an average stored since the load is lost.
StoreAverage(h) ==
    /\ Step(h, "averaging", "body")
    /\ \E before \in 0..MaxBefore :
        /\ average' = [average EXCEPT ![chosen[h]] = Averaged(loaded[h], Sample(before, h))]
        /\ slowest' = [slowest EXCEPT ![chosen[h]] = AtLeast(@, Sample(before, h))]
    /\ loaded' = [loaded EXCEPT ![h] = 0]
    /\ UNCHANGED <<vars, chosen, sent, entry>>

LoseBody(h) ==
    /\ BodyError(h)
    /\ Step(h, "body", "none")
    /\ UNCHANGED <<chosen, sent, loaded, entry, average, slowest>>

ReadBody(h) ==
    /\ RecordSuccess(h)
    /\ Step(h, "body", "storing")
    /\ UNCHANGED <<chosen, sent, loaded, entry, average, slowest>>

\* set_cache stamps the value with the time it is stored; the upstream node has
\* read it from the chain at any time since the request was sent.
SetCache(h) ==
    /\ Step(h, "storing", "none")
    /\ \E made \in 0..sent[h] : entry' = [made |-> made, cached |-> 0]
    /\ UNCHANGED <<vars, chosen, sent, loaded, average, slowest>>

\* The body is not JSON: 502.
NotJson(h) ==
    /\ Step(h, "storing", "none")
    /\ UNCHANGED <<vars, chosen, sent, loaded, entry, average, slowest>>

\* No answer: record_error and record_failure.
CallFails(h) ==
    /\ CountFailure(h)
    /\ Step(h, "sent", "failing")
    /\ UNCHANGED <<chosen, sent, loaded, entry, average, slowest>>

\* The rest of record_failure: the clock, then the stamp.
TimeFailure(h) ==
    /\ ReadNow(h, "stamping", "locking")
    /\ Step(h, "failing", "failing")
    /\ UNCHANGED <<chosen, sent, loaded, entry, average, slowest>>

FinishFailure(h) ==
    /\ StampFailure(h)
    /\ Step(h, "failing", "none")
    /\ UNCHANGED <<chosen, sent, loaded, entry, average, slowest>>

\* Ages beyond these are not told apart.
Aged(e) ==
    IF e = NoEntry THEN e
    ELSE [made |-> UpTo(Ttl + Timeout, e.made + 1), cached |-> UpTo(Ttl, e.cached + 1)]

TickPath ==
    /\ Tick
    /\ \A h \in Handlers :
        /\ step[h] # "storing"
        /\ step[h] \in Calling => sent[h] < Timeout
    /\ sent' = [h \in Handlers |-> IF step[h] \in Calling THEN sent[h] + 1 ELSE 0]
    /\ entry' = Aged(entry)
    /\ UNCHANGED <<step, chosen, loaded, average, slowest>>

\* A handler that has a request goes on.
Go(h) ==
    \/ RemoveExpired(h) \/ PassBreaker(h) \/ Forbid(h) \/ SendUpstream(h)
    \/ LoadAverage(h) \/ StoreAverage(h) \/ LoseBody(h) \/ ReadBody(h)
    \/ SetCache(h) \/ NotJson(h)
    \/ CallFails(h) \/ TimeFailure(h) \/ FinishFailure(h)

PathNext ==
    \/ \E h \in Handlers : Hit(h) \/ Miss(h) \/ Go(h)
    \/ EvictExpired
    \/ TickPath

PathSpec == PathInit /\ [][PathNext]_allVars

PathFairSpec ==
    PathSpec /\ WF_allVars(TickPath) /\ \A h \in Handlers : WF_allVars(Go(h))

-----------------------------------------------------------------------------
\* A cached value is stamped when it is stored, not when it was read: what
\* get_cached serves is younger than the time to live plus the client's timeout,
\* also when a slow answer replaces a newer one.
ServedIsFresh ==
    Live(entry) => entry.made < Ttl + Timeout

\* Handlers load and store the average of a node without a lock and on stale
\* loads, but no average exceeds the longest time ever reported for that node.
AverageBounded ==
    \A n \in Nodes : average[n] <= slowest[n]

\* A value that could still be served is lost only to a handler that had seen
\* the entry before it expire.
FreshLostToStaleReaderOnly ==
    [][entry.cached \in 0..(Ttl - 1) /\ entry' = NoEntry
        => \E h \in Handlers : step[h] = "expired" /\ step'[h] = "missed"]_allVars
=============================================================================
