-------------------------- MODULE RequestPathProofs --------------------------
(***************************************************************************)
(* Proofs about what a request meets in rpc_handler, for any number of     *)
(* handlers.                                                               *)
(*                                                                         *)
(* The circuit breaker and the upstream path that is composed with it, for *)
(* any threshold, recovery time, time to live and timeout and any upstream *)
(* nodes.  The breaker is proved by itself; every step of the path is one  *)
(* of the breaker's steps or leaves it alone, so what holds of the breaker *)
(* holds in company.                                                       *)
(*                                                                         *)
(* Bans and rate limits (AttackPrevention), for any addresses, limits and  *)
(* windows, with sums over the seconds in which requests were admitted.    *)
(***************************************************************************)
EXTENDS UpstreamPath, AttackPrevention, SumTheorems, TLAPS

\* What record_failure owes: while no handler is between its two writes, the
\* recorded failure is older than the last one that was counted by no more
\* than a handler may hold the clock.
StampedInTime == Settled => sinceFailure <= sinceCounted + MaxHold

BreakerInv == TypeOK /\ StampedInTime

\* No failure has been counted or recorded at the start.
LEMMA BreakerInit == Init => BreakerInv
  BY BreakerAssumption DEF Init, BreakerInv, TypeOK, StampedInTime, Stages, MaxAge

\* One step per action: counting a failure opens the gap, stamping closes it
\* and time keeps the order of the two ages.
LEMMA BreakerStep == BreakerInv /\ [Next]_vars => BreakerInv'
<1> SUFFICES ASSUME BreakerInv, [Next]_vars
             PROVE  BreakerInv'
  OBVIOUS
<1> USE BreakerAssumption DEF BreakerInv, TypeOK, StampedInTime, Settled, Stages, Holding, MaxAge
<1>1. ASSUME NEW h \in Handlers, LoadFailures(h)
      PROVE  BreakerInv'
  BY <1>1 DEF LoadFailures
<1>2. ASSUME NEW h \in Handlers, ReadLastFailure(h)
      PROVE  BreakerInv'
  BY <1>2 DEF ReadLastFailure
<1>3. ASSUME NEW h \in Handlers, Refuse(h)
      PROVE  BreakerInv'
  BY <1>3 DEF Refuse
<1>4. ASSUME NEW h \in Handlers, RecordSuccess(h)
      PROVE  BreakerInv'
  BY <1>4 DEF RecordSuccess, Cleared
<1>5. ASSUME NEW h \in Handlers, BodyError(h)
      PROVE  BreakerInv'
  BY <1>5 DEF BodyError
<1>6. ASSUME NEW h \in Handlers, CountFailure(h)
      PROVE  BreakerInv'
  <2>1. at'[h] = "stamping"
    BY <1>6 DEF CountFailure
  <2> QED
    BY <1>6, <2>1 DEF CountFailure, OneMore, UpTo
<1>7. ASSUME NEW h \in Handlers, StampFailure(h)
      PROVE  BreakerInv'
  <2>1. held[h] \in 0..MaxHold /\ sinceFailure' = held[h]
    BY <1>7 DEF StampFailure, AgeStamped
  <2>2. sinceFailure' \in 0..MaxAge /\ sinceFailure' <= sinceCounted + MaxHold
    BY <2>1
  <2> QED
    BY <1>7, <2>2 DEF StampFailure
<1>8. CASE Tick
  <2>1. /\ sinceFailure' \in 0..MaxAge /\ sinceCounted' \in 0..MaxAge
        /\ sinceFailure <= sinceCounted + MaxHold => sinceFailure' <= sinceCounted' + MaxHold
    BY <1>8 DEF Tick, UpTo
  <2>2. held' \in [Handlers -> 0..MaxHold]
    BY <1>8 DEF Tick
  <2> QED
    BY <1>8, <2>1, <2>2 DEF Tick
<1>9. CASE UNCHANGED vars
  BY <1>9 DEF vars
<1>10. ASSUME NEW h \in Handlers,
              ReadNow(h, "timing", "comparing") \/ ReadNow(h, "stamping", "locking")
       PROVE  BreakerInv'
  <2>1. Settled' => Settled
    BY <1>10 DEF ReadNow
  <2> QED
    BY <1>10, <2>1 DEF ReadNow
<1> QED
  BY <1>1, <1>2, <1>3, <1>4, <1>5, <1>6, <1>7, <1>8, <1>9, <1>10 DEF Next, Handle

\* The order of the two ages holds in every state.
LEMMA BreakerInvariant == Spec => []BreakerInv
  BY BreakerInit, BreakerStep, PTL DEF Spec

\* The counters and ages of the breaker stay in their ranges, whatever the
\* handlers do.
THEOREM TypeCorrect == Spec => []TypeOK
  BY BreakerInvariant, PTL DEF BreakerInv

\* is_open and record_failure on any number of threads: once no handler is
\* inside record_failure, Threshold failures in a row keep the circuit open for
\* Recovery seconds after the last of them, less the time a handler may hold a
\* reading of the clock: stamps may be stored out of order.
THEOREM OpensWhenSettled == Spec => []OpenWhenSettled
<1>1. BreakerInv => OpenWhenSettled
  BY BreakerAssumption DEF BreakerInv, TypeOK, StampedInTime, OpenWhenSettled, IsOpen, Recent, MaxAge
<1> QED
  BY <1>1, BreakerInvariant, PTL

-----------------------------------------------------------------------------
\* rpc_handler uses the breaker as its contract says: every step of the upstream
\* path is a step of the breaker, or one that the breaker does not see.
THEOREM PathImplementsBreaker == PathSpec => Spec
<1>1. PathInit => Init
  BY DEF PathInit
<1>2. [PathNext]_allVars => [Next]_vars
  <2> SUFFICES ASSUME [PathNext]_allVars
               PROVE  [Next]_vars
    OBVIOUS
  <2>1. ASSUME NEW h \in Handlers, PassBreaker(h)
        PROVE  Next
    BY <2>1 DEF PassBreaker, Next, Handle
  <2>2. ASSUME NEW h \in Handlers, Forbid(h) \/ LoseBody(h) \/ ReadBody(h) \/ CallFails(h)
                                    \/ TimeFailure(h) \/ FinishFailure(h)
        PROVE  Next
    BY <2>2 DEF Forbid, LoseBody, ReadBody, CallFails, TimeFailure, FinishFailure, Next, Handle
  <2>3. ASSUME NEW h \in Handlers,
               \/ Hit(h) \/ Miss(h) \/ RemoveExpired(h) \/ SendUpstream(h) \/ LoadAverage(h)
               \/ StoreAverage(h) \/ SetCache(h) \/ NotJson(h)
        PROVE  UNCHANGED vars
    BY <2>3 DEF Hit, Miss, RemoveExpired, SendUpstream, LoadAverage, StoreAverage, SetCache, NotJson
  <2>4. CASE EvictExpired \/ UNCHANGED allVars
    BY <2>4 DEF EvictExpired, allVars
  <2>5. CASE TickPath
    BY <2>5 DEF TickPath, Next
  <2> QED
    BY <2>1, <2>2, <2>3, <2>4, <2>5 DEF PathNext, Go
<1> QED
  BY <1>1, <1>2, PTL DEF PathSpec, Spec

\* The circuit stays open after the last of Threshold failures, for Recovery
\* seconds less the time a clock reading may be held, also when caching,
\* balancing and late answers go on around it.
THEOREM PathOpensWhenSettled == PathSpec => []OpenWhenSettled
  BY PathImplementsBreaker, OpensWhenSettled, PTL

-----------------------------------------------------------------------------
PathTypes ==
    /\ step \in [Handlers -> Steps]
    /\ chosen \in [Handlers -> Nodes]
    /\ sent \in [Handlers -> 0..Timeout]
    /\ loaded \in [Handlers -> Nat]
    /\ average \in [Nodes -> Nat]
    /\ slowest \in [Nodes -> Nat]

Entries == [made : Nat, cached : 0..Ttl]

\* A value is at most a call older than its stamp.
EntryDated ==
    \/ entry = NoEntry
    \/ entry \in Entries /\ entry.made <= entry.cached + Timeout

\* What is stored in an average, or loaded to be stored again, is no longer
\* than what was reported for its node.
Averages ==
    /\ \A n \in Nodes : average[n] <= slowest[n]
    /\ \A h \in Handlers : step[h] = "averaging" => loaded[h] <= slowest[chosen[h]]

PathInv == PathTypes /\ EntryDated /\ Averages

\* The constants of the path are natural numbers.
LEMMA Bounds ==
    /\ Ttl \in Nat /\ 0 < Ttl /\ Timeout \in Nat /\ 0 < Timeout
    /\ TickMs \in Nat /\ MaxBefore \in Nat
  BY UpstreamAssumption

\* The weighted average of two values is no larger than the larger of them.
LEMMA AveragedIsBounded ==
    ASSUME NEW bound \in Nat, NEW current \in 0..bound, NEW sample \in 0..bound
    PROVE  Averaged(current, sample) \in 0..bound
  BY DEF Averaged

\* A sample is a number of milliseconds.
LEMMA SampleIsNat ==
    ASSUME PathTypes, NEW h \in Handlers, NEW before \in 0..MaxBefore
    PROVE  Sample(before, h) \in Nat
<1>1. sent[h] \in Nat /\ before \in Nat /\ TickMs \in Nat
  BY Bounds DEF PathTypes
<1>2. before + sent[h] \in Nat
  BY <1>1
<1> QED
  BY <1>1, <1>2 DEF Sample

\* Time keeps the value within a call of its stamp, capped or not.
LEMMA AgedIsDated ==
    ASSUME EntryDated
    PROVE  \/ entry = NoEntry /\ Aged(entry) = NoEntry
           \/ /\ entry # NoEntry /\ Aged(entry) \in Entries
              /\ Aged(entry).made <= Aged(entry).cached + Timeout
<1>1. CASE entry = NoEntry
  BY <1>1 DEF Aged
<1>2. CASE entry # NoEntry
  <2>1. entry.made \in Nat /\ entry.cached \in 0..Ttl /\ entry.made <= entry.cached + Timeout
    BY <1>2 DEF EntryDated, Entries
  <2> DEFINE made == UpTo(Ttl + Timeout, entry.made + 1)
             cached == UpTo(Ttl, entry.cached + 1)
  <2>2. Aged(entry) = [made |-> made, cached |-> cached]
    BY <1>2 DEF Aged
  <2>3. made \in Nat /\ cached \in 0..Ttl /\ made <= cached + Timeout
    BY <2>1, Bounds DEF UpTo
  <2> HIDE DEF made, cached
  <2> QED
    BY <1>2, <2>2, <2>3 DEF Entries
<1> QED
  BY <1>1, <1>2

\* The caches and averages start empty.
LEMMA PathInvInit == PathInit => PathInv
<1> SUFFICES ASSUME PathInit
             PROVE  PathInv
  OBVIOUS
<1>1. (CHOOSE n \in Nodes : TRUE) \in Nodes
  BY UpstreamAssumption
<1>2. PathTypes
  BY <1>1, Bounds DEF PathInit, PathTypes, Steps
<1>3. Averages
  BY DEF PathInit, Averages
<1> QED
  BY <1>2, <1>3 DEF PathInit, PathInv, EntryDated

\* One step per action of a handler, of the eviction task and of time.
LEMMA PathInvStep == TypeOK /\ PathInv /\ [PathNext]_allVars => PathInv'
<1> SUFFICES ASSUME TypeOK, PathInv, [PathNext]_allVars
             PROVE  PathInv'
  OBVIOUS
<1> USE DEF PathInv
<1>1. ASSUME NEW h \in Handlers, NEW from \in Steps, NEW to \in Steps, Step(h, from, to)
      PROVE  step' \in [Handlers -> Steps]
  BY <1>1 DEF Step, PathTypes
<1>2. ASSUME NEW h \in Handlers,
             Hit(h) \/ Miss(h) \/ RemoveExpired(h) \/ Forbid(h) \/ LoseBody(h) \/ ReadBody(h)
             \/ NotJson(h) \/ CallFails(h) \/ TimeFailure(h) \/ FinishFailure(h)
      PROVE  PathInv'
  <2> USE DEF Hit, Miss, RemoveExpired, Forbid, LoseBody, ReadBody, NotJson, CallFails,
              TimeFailure, FinishFailure
  <2>1. step' \in [Handlers -> Steps]
    BY <1>1, <1>2 DEF Steps, Calling
  <2>2. UNCHANGED <<chosen, sent, loaded, average, slowest>> /\ (entry' = entry \/ entry' = NoEntry)
    BY <1>2 DEF Touched
  <2>3. \A other \in Handlers : step'[other] = "averaging" => step[other] = "averaging"
    BY <1>2 DEF Step, PathTypes
  <2> QED
    BY <2>1, <2>2, <2>3 DEF PathTypes, EntryDated, Averages
<1>3. ASSUME NEW h \in Handlers, PassBreaker(h)
      PROVE  PathInv'
  <2>1. at'[h] \in {"idle", "timing", "comparing", "upstream"}
    BY <1>3 DEF PassBreaker, LoadFailures, ReadNow, ReadLastFailure, TypeOK
  <2>2. AfterIsOpen[at'[h]] \in {"none", "missed", "selected"}
    BY <2>1 DEF AfterIsOpen
  <2>3. step' = [step EXCEPT ![h] = AfterIsOpen[at'[h]]]
    BY <1>3 DEF PassBreaker, Step
  <2>4. step' \in [Handlers -> Steps]
    BY <2>2, <2>3 DEF Steps, PathTypes
  <2>5. /\ chosen' \in [Handlers -> Nodes]
        /\ \A other \in Handlers \ {h} : chosen'[other] = chosen[other]
    BY <1>3 DEF PassBreaker, SelectNode, PathTypes
  <2>6. UNCHANGED <<sent, loaded, entry, average, slowest>>
    BY <1>3 DEF PassBreaker
  <2>7. step'[h] # "averaging" /\ \A other \in Handlers \ {h} : step'[other] = step[other]
    BY <2>2, <2>3 DEF PathTypes
  <2>8. Averages'
    BY <2>5, <2>6, <2>7 DEF Averages
  <2> QED
    BY <2>4, <2>5, <2>6, <2>8 DEF PathTypes, EntryDated
<1>4. ASSUME NEW h \in Handlers, SendUpstream(h)
      PROVE  PathInv'
  <2>1. step' \in [Handlers -> Steps]
    BY <1>1, <1>4 DEF SendUpstream, Steps, Calling
  <2>2. sent' \in [Handlers -> 0..Timeout]
    BY <1>4, Bounds DEF SendUpstream, PathTypes
  <2>3. Averages'
    BY <1>4 DEF SendUpstream, Step, Averages, PathTypes
  <2> QED
    BY <1>4, <2>1, <2>2, <2>3 DEF SendUpstream, PathTypes, EntryDated
<1>5. ASSUME NEW h \in Handlers, LoadAverage(h)
      PROVE  PathInv'
  <2>1. step' \in [Handlers -> Steps]
    BY <1>1, <1>5 DEF LoadAverage, Steps, Calling
  <2>2. chosen[h] \in Nodes /\ loaded'[h] = average[chosen[h]]
    BY <1>5 DEF LoadAverage, PathTypes
  <2>3. loaded' \in [Handlers -> Nat]
    BY <1>5, <2>2 DEF LoadAverage, PathTypes
  <2>4. Averages'
    BY <1>5, <2>2 DEF LoadAverage, Step, Averages, PathTypes
  <2> QED
    BY <1>5, <2>1, <2>3, <2>4 DEF LoadAverage, PathTypes, EntryDated
<1>6. ASSUME NEW h \in Handlers, StoreAverage(h)
      PROVE  PathInv'
  <2>1. step' \in [Handlers -> Steps]
    BY <1>1, <1>6 DEF StoreAverage, Steps, Calling
  <2> DEFINE n == chosen[h]
  <2>2. PICK before \in 0..MaxBefore :
          /\ average' = [average EXCEPT ![n] = Averaged(loaded[h], Sample(before, h))]
          /\ slowest' = [slowest EXCEPT ![n] = AtLeast(@, Sample(before, h))]
    BY <1>6 DEF StoreAverage
  <2> DEFINE sample == Sample(before, h)
  <2>3. n \in Nodes /\ loaded[h] \in Nat /\ slowest[n] \in Nat /\ loaded[h] <= slowest[n]
    BY <1>6 DEF StoreAverage, Step, PathTypes, Averages
  <2>4. sample \in Nat
    BY <2>2, SampleIsNat
  <2> HIDE DEF n, sample
  <2>5. AtLeast(slowest[n], sample) \in Nat /\ slowest[n] <= AtLeast(slowest[n], sample)
        /\ sample <= AtLeast(slowest[n], sample)
    BY <2>3, <2>4 DEF AtLeast
  <2> DEFINE bound == AtLeast(slowest[n], sample)
  <2>6. bound \in Nat /\ loaded[h] \in 0..bound /\ sample \in 0..bound
    BY <2>3, <2>4, <2>5
  <2>7. Averaged(loaded[h], sample) \in 0..bound
    BY <2>6, AveragedIsBounded
  <2>8. /\ average' = [average EXCEPT ![n] = Averaged(loaded[h], sample)]
        /\ slowest' = [slowest EXCEPT ![n] = bound]
    BY <2>2 DEF n, sample
  <2>9. slowest[n] <= bound
    BY <2>5
  <2> HIDE DEF bound
  <2>10. average' \in [Nodes -> Nat] /\ slowest' \in [Nodes -> Nat]
    BY <2>3, <2>6, <2>7, <2>8 DEF PathTypes
  <2>11. \A m \in Nodes : slowest[m] <= slowest'[m] /\ average'[m] <= slowest'[m]
    BY <2>3, <2>6, <2>7, <2>8, <2>9 DEF PathTypes, Averages
  <2>12. loaded' \in [Handlers -> Nat]
    BY <1>6 DEF StoreAverage, PathTypes
  <2>13. ASSUME NEW other \in Handlers, step'[other] = "averaging"
         PROVE  loaded'[other] <= slowest'[chosen'[other]]
    <3>1. other # h /\ step[other] = "averaging"
      BY <1>6, <2>13 DEF StoreAverage, Step, PathTypes
    <3>2. /\ loaded'[other] = loaded[other] /\ chosen'[other] = chosen[other]
          /\ loaded[other] \in Nat /\ chosen[other] \in Nodes
          /\ loaded[other] <= slowest[chosen[other]]
      BY <1>6, <3>1 DEF StoreAverage, PathTypes, Averages
    <3>3. slowest[chosen[other]] \in Nat /\ slowest'[chosen[other]] \in Nat
          /\ slowest[chosen[other]] <= slowest'[chosen[other]]
      BY <2>10, <2>11, <3>2 DEF PathTypes
    <3> QED
      BY <3>2, <3>3
  <2>14. Averages'
    BY <2>11, <2>13 DEF Averages
  <2> QED
    BY <1>6, <2>1, <2>10, <2>12, <2>14 DEF StoreAverage, PathTypes, EntryDated
<1>7. ASSUME NEW h \in Handlers, SetCache(h)
      PROVE  PathInv'
  <2>1. step' \in [Handlers -> Steps]
    BY <1>1, <1>7 DEF SetCache, Steps, Calling
  <2>2. PICK made \in 0..sent[h] : entry' = [made |-> made, cached |-> 0]
    BY <1>7 DEF SetCache
  <2>3. made \in Nat /\ made <= Timeout
    BY <2>2, Bounds DEF PathTypes
  <2>4. EntryDated'
    BY <2>2, <2>3, Bounds DEF EntryDated, Entries
  <2>5. Averages'
    BY <1>7 DEF SetCache, Step, Averages, PathTypes
  <2> QED
    BY <1>7, <2>1, <2>4, <2>5 DEF SetCache, PathTypes
<1>8. CASE EvictExpired
  BY <1>8 DEF EvictExpired, PathTypes, EntryDated, Averages
<1>9. CASE TickPath
  <2>1. sent' \in [Handlers -> 0..Timeout]
    BY <1>9, Bounds DEF TickPath, PathTypes
  <2>2. EntryDated'
    BY <1>9, AgedIsDated DEF TickPath, EntryDated
  <2>3. Averages'
    BY <1>9 DEF TickPath, Averages
  <2> QED
    BY <1>9, <2>1, <2>2, <2>3 DEF TickPath, PathTypes
<1>10. CASE UNCHANGED allVars
  BY <1>10 DEF allVars, path, PathTypes, EntryDated, Averages
<1> QED
  BY <1>2, <1>3, <1>4, <1>5, <1>6, <1>7, <1>8, <1>9, <1>10 DEF PathNext, Go

\* The entries of the cache are dated correctly in every state.
LEMMA PathInvariant == PathSpec => []PathInv
<1>1. PathSpec => []TypeOK
  BY PathImplementsBreaker, TypeCorrect, PTL
<1> QED
  BY <1>1, PathInvInit, PathInvStep, PTL DEF PathSpec

-----------------------------------------------------------------------------
\* Handlers, cache entry and averages of the request path keep their types; no
\* call lasts longer than the timeout of the client.
THEOREM PathTypeCorrect == PathSpec => []PathTypeOK
<1>1. PathInv => PathTypeOK
  <2> SUFFICES ASSUME PathInv
               PROVE  PathTypeOK
    OBVIOUS
  <2>1. entry \in {NoEntry} \cup [made : Nat, cached : 0..Ttl]
    BY DEF PathInv, EntryDated, Entries
  <2> QED
    BY <2>1 DEF PathInv, PathTypes, PathTypeOK
<1> QED
  BY <1>1, PathInvariant, PTL

\* What get_cached serves was read from the chain less than the time to live
\* plus the client's timeout ago, although set_cache stamps it when it is stored
\* and a slow answer may replace a newer one.
THEOREM ServesFreshValues == PathSpec => []ServedIsFresh
<1>1. PathInv => ServedIsFresh
  <2> SUFFICES ASSUME PathInv, Live(entry)
               PROVE  entry.made < Ttl + Timeout
    BY DEF ServedIsFresh
  <2>1. entry # NoEntry
    BY Bounds DEF Live, NoEntry
  <2>2. entry.made \in Nat /\ entry.cached \in 0..Ttl /\ entry.made <= entry.cached + Timeout
    BY <2>1 DEF PathInv, EntryDated, Entries
  <2> QED
    BY <2>2, Bounds DEF Live
<1> QED
  BY <1>1, PathInvariant, PTL

\* The load and the store of record_success are not one step, and yet no
\* avg_latency_ms exceeds the longest time reported for its node, however long
\* handlers waited before they sent their requests.
THEOREM AveragesAreBounded == PathSpec => []AverageBounded
<1>1. PathInv => AverageBounded
  BY DEF PathInv, Averages, AverageBounded
<1> QED
  BY <1>1, PathInvariant, PTL

\* Of the two places that remove cache entries, only get_cached can lose a value
\* that is still live, and only in a call that saw the entry before it expire.
THEOREM OnlyStaleReadersLoseValues == PathSpec => FreshLostToStaleReaderOnly
<1> DEFINE Lost == entry.cached \in 0..(Ttl - 1) /\ entry' = NoEntry
           Stale == \E h \in Handlers : step[h] = "expired" /\ step'[h] = "missed"
<1>1. ASSUME PathInv, PathNext, Lost
      PROVE  Stale
  <2>1. entry # NoEntry /\ Live(entry)
    BY <1>1, Bounds DEF NoEntry, Live
  <2>2. ASSUME NEW h \in Handlers, RemoveExpired(h)
        PROVE  Stale
    BY <1>1, <2>2 DEF RemoveExpired, Step, PathInv, PathTypes
  <2>3. ASSUME NEW h \in Handlers, SetCache(h)
        PROVE  FALSE
    BY <1>1, <2>3 DEF SetCache, NoEntry
  <2>4. CASE EvictExpired
    BY <2>1, <2>4 DEF EvictExpired
  <2>5. CASE TickPath
    <3>1. Aged(entry) \in Entries
      BY <1>1, <2>1, AgedIsDated DEF PathInv
    <3>2. Aged(entry) # NoEntry
      BY <3>1, Bounds DEF Entries, NoEntry
    <3> QED
      BY <1>1, <2>5, <3>2 DEF TickPath
  <2>6. entry' # entry
    BY <1>1, <2>1
  <2> QED
    BY <1>1, <2>2, <2>3, <2>4, <2>5, <2>6
       DEF PathNext, Go, Hit, Touched, Miss, PassBreaker, Forbid, SendUpstream, LoadAverage, StoreAverage,
           LoseBody, ReadBody, NotJson, CallFails, TimeFailure, FinishFailure
<1>2. PathInv /\ [PathNext]_allVars => [Lost => Stale]_allVars
  BY <1>1
<1> QED
  BY <1>2, PathInvariant, PTL DEF PathSpec, FreshLostToStaleReaderOnly

-----------------------------------------------------------------------------
\* Where a handler can be, and the record of an address, at time n.
HandlerRecords(n) == [at : RateStages, ip : Ips, since : 0..n]
IpRecords(n) == [count : Nat, window_start : -1..n, last_seen : -1..n]

\* A handler goes on: the others stay where they are.
LEMMA GoToRecords ==
    ASSUME RateTypeOK, NEW h \in Workers, NEW stage \in RateStages, GoTo(h, stage)
    PROVE  /\ handler' \in [Workers -> HandlerRecords(now)]
           /\ handler'[h].at = stage /\ handler'[h].ip = handler[h].ip
           /\ handler'[h].since = IF stage = "idle" THEN 0 ELSE now
           /\ \A k \in Workers \ {h} : handler'[k] = handler[k]
<1> DEFINE since == IF stage = "idle" THEN 0 ELSE now
<1>1. since \in 0..now
  BY DEF RateTypeOK
<1>2. handler \in [Workers -> HandlerRecords(now)]
  BY DEF RateTypeOK, HandlerRecords
<1>3. \A r \in HandlerRecords(now), s \in 0..now :
        /\ [r EXCEPT !.at = stage, !.since = s] \in HandlerRecords(now)
        /\ [r EXCEPT !.at = stage, !.since = s].at = stage
        /\ [r EXCEPT !.at = stage, !.since = s].ip = r.ip
        /\ [r EXCEPT !.at = stage, !.since = s].since = s
  BY DEF HandlerRecords
<1>4. handler' = [handler EXCEPT ![h] = [handler[h] EXCEPT !.at = stage, !.since = since]]
  BY <1>2 DEF GoTo
<1> HIDE DEF since
<1>5. handler[h] \in HandlerRecords(now)
  BY <1>2
<1> DEFINE r == [handler[h] EXCEPT !.at = stage, !.since = since]
<1>6. r \in HandlerRecords(now) /\ r.at = stage /\ r.ip = handler[h].ip /\ r.since = since
  BY <1>1, <1>3, <1>5
<1> HIDE DEF r
<1>7. /\ handler' \in [Workers -> HandlerRecords(now)] /\ handler'[h] = r
      /\ \A k \in Workers \ {h} : handler'[k] = handler[k]
  BY <1>2, <1>4, <1>6 DEF r
<1> QED
  BY <1>6, <1>7 DEF since

\* The process ends: nothing but the places of handlers and cleanup changes.
LEMMA AbortRecords ==
    ASSUME RateTypeOK, NEW t, NEW u, Abort(t, u)
    PROVE  /\ handler' \in [Workers -> HandlerRecords(now)]
           /\ \A k \in Workers : handler'[k].at = "dead"
           /\ sweep' \in [at : {"idle", "records", "bans", "dead"}, t : 0..now]
           /\ UNCHANGED <<now, ip_requests, banned_ips, admitted>>
<1>1. \A r \in HandlerRecords(now) :
        [r EXCEPT !.at = "dead"] \in HandlerRecords(now) /\ [r EXCEPT !.at = "dead"].at = "dead"
  BY DEF HandlerRecords, RateStages
<1>2. handler \in [Workers -> HandlerRecords(now)]
  BY DEF RateTypeOK, HandlerRecords
<1>3. \A k \in Workers : handler[k] \in HandlerRecords(now)
  BY <1>2
<1>4. handler' = [k \in Workers |-> [handler[k] EXCEPT !.at = "dead"]]
  BY DEF Abort
<1>5. handler' \in [Workers -> HandlerRecords(now)] /\ \A k \in Workers : handler'[k].at = "dead"
  BY <1>1, <1>3, <1>4
<1>6. sweep' \in [at : {"idle", "records", "bans", "dead"}, t : 0..now]
  BY DEF Abort, RateTypeOK
<1> QED
  BY <1>5, <1>6 DEF Abort

\* What a request leaves in the record of its address: a window that holds its
\* time t, counted from the old record or from nothing.
LEMMA CountedRecord ==
    ASSUME RateTypeOK, NEW ip \in Ips, NEW t \in 0..now, t >= ip_requests[ip].window_start
    PROVE  LET old == ip_requests[ip]
               rec == Counted(ip, t)
           IN  /\ rec \in IpRecords(now) /\ rec.last_seen = t
               /\ InWindow(old, t) => rec.count = old.count + 1 /\ rec.window_start = old.window_start
               /\ ~InWindow(old, t) => rec.count = 1 /\ rec.window_start = t
<1> DEFINE old == ip_requests[ip]
<1> DEFINE rec == Counted(ip, t)
<1>1. old \in IpRecords(now) /\ t \in -1..now
  BY DEF RateTypeOK, IpRecords
<1>2. \A r \in IpRecords(now), c \in Nat :
        /\ [r EXCEPT !.count = c, !.last_seen = t] \in IpRecords(now)
        /\ [r EXCEPT !.count = c, !.last_seen = t].last_seen = t
        /\ [r EXCEPT !.count = c, !.last_seen = t].count = c
        /\ [r EXCEPT !.count = c, !.last_seen = t].window_start = r.window_start
  BY <1>1 DEF IpRecords
<1>3. CASE InWindow(old, t)
  <2>1. old.count + 1 \in Nat /\ rec = [old EXCEPT !.count = old.count + 1, !.last_seen = t]
    BY <1>1, <1>3 DEF Counted, IpRecords
  <2> HIDE DEF old, rec
  <2>2. rec \in IpRecords(now) /\ rec.last_seen = t /\ rec.count = old.count + 1 /\ rec.window_start = old.window_start
    BY <1>1, <1>2, <2>1
  <2> QED
    BY <1>3, <2>2 DEF old, rec
<1>4. CASE ~InWindow(old, t)
  <2>1. rec = [count |-> 1, window_start |-> t, last_seen |-> t]
    BY <1>4 DEF Counted
  <2>2. rec \in IpRecords(now) /\ rec.last_seen = t /\ rec.count = 1 /\ rec.window_start = t
    BY <1>1, <2>1 DEF IpRecords
  <2> QED
    BY <1>4, <2>2
<1> QED
  BY <1>3, <1>4

\* The tables are empty at the start.
LEMMA RateTypeInit == RateInit => RateTypeOK
  BY RateAssumption DEF RateInit, RateTypeOK, RateStages, NoRecord, NoBan

\* One step per action.
LEMMA RateTypeStep == RateTypeOK /\ [RateNext]_rateVars => RateTypeOK'
<1> SUFFICES ASSUME RateTypeOK, [RateNext]_rateVars
             PROVE  RateTypeOK'
  OBVIOUS
<1> USE RateAssumption
<1>1. ASSUME NEW h \in Workers, NEW ip \in Ips, Arrive(h, ip)
      PROVE  RateTypeOK'
  <2>1. [at |-> "arrived", ip |-> ip, since |-> now] \in HandlerRecords(now)
    BY DEF HandlerRecords, RateStages, RateTypeOK
  <2>2. handler \in [Workers -> HandlerRecords(now)]
    BY DEF HandlerRecords, RateTypeOK
  <2>3. handler' \in [Workers -> HandlerRecords(now)]
    BY <1>1, <2>1, <2>2 DEF Arrive
  <2> QED
    BY <1>1, <2>3 DEF Arrive, RateTypeOK, HandlerRecords
<1>2. ASSUME handler' \in [Workers -> HandlerRecords(now)], UNCHANGED <<now, ip_requests, sweep, admitted>>,
             banned_ips' \in [Ips -> {NoBan} \cup 0..(MaxTime + BanSecs)]
      PROVE  RateTypeOK'
  BY <1>2 DEF RateTypeOK, HandlerRecords
<1>3. ASSUME NEW h \in Workers, IsBanned(h)
      PROVE  RateTypeOK'
  <2>1. PICK stage \in RateStages : GoTo(h, stage)
    BY <1>3 DEF IsBanned, RateStages
  <2> QED
    BY <1>2, <1>3, <2>1, GoToRecords DEF IsBanned, RateTypeOK
<1>4. ASSUME NEW h \in Workers, RemoveBan(h)
      PROVE  RateTypeOK'
  <2>1. "checked" \in RateStages
    BY DEF RateStages
  <2>2. handler' \in [Workers -> HandlerRecords(now)]
    BY <1>4, <2>1, GoToRecords DEF RemoveBan
  <2> QED
    BY <1>2, <1>4, <2>2 DEF RemoveBan, RateTypeOK
<1>5. ASSUME NEW h \in Workers, ReadClock(h) \/ ScanPayload(h)
      PROVE  RateTypeOK'
  <2>1. PICK stage \in RateStages : GoTo(h, stage)
    BY <1>5 DEF ReadClock, ScanPayload, RateStages
  <2> QED
    BY <1>2, <1>5, <2>1, GoToRecords DEF ReadClock, ScanPayload, RateTypeOK
<1>6. ASSUME NEW t, NEW u, Abort(t, u)
      PROVE  RateTypeOK'
  BY <1>6, AbortRecords DEF RateTypeOK, HandlerRecords
<1>7. ASSUME NEW h \in Workers, CheckRateLimit(h)
      PROVE  RateTypeOK'
  <2> DEFINE ip == handler[h].ip
  <2> DEFINE t == handler[h].since
  <2> DEFINE rec == Counted(ip, t)
  <2> DEFINE verdict == Verdict(rec.count)
  <2>1. ip \in Ips /\ t \in 0..now
    BY DEF RateTypeOK
  <2>2. CASE Abort(t, ip_requests[ip].window_start)
    BY <1>6, <2>2
  <2>3. CASE /\ t >= ip_requests[ip].window_start
             /\ ip_requests' = [ip_requests EXCEPT ![ip] = rec]
             /\ IF verdict = "banned" THEN banned_ips' = [banned_ips EXCEPT ![ip] = now + BanSecs]
                                      ELSE UNCHANGED banned_ips
             /\ admitted' = IF verdict = "allowed" THEN [admitted EXCEPT ![ip][now] = @ + 1] ELSE admitted
             /\ GoTo(h, IF verdict = "allowed" THEN "allowed" ELSE "idle")
             /\ UNCHANGED <<now, sweep>>
    <3>1. rec \in IpRecords(now)
      BY <2>1, <2>3, CountedRecord
    <3>2. PICK stage \in RateStages : GoTo(h, stage)
      BY <2>3 DEF RateStages
    <3>3. handler' \in [Workers -> HandlerRecords(now)]
      BY <3>2, GoToRecords
    <3> HIDE DEF rec, verdict, ip, t
    <3>4. ip_requests' \in [Ips -> IpRecords(now)]
      BY <2>1, <2>3, <3>1 DEF RateTypeOK, IpRecords
    <3>5. banned_ips' \in [Ips -> {NoBan} \cup 0..(MaxTime + BanSecs)]
      <4>1. now + BanSecs \in 0..(MaxTime + BanSecs)
        BY DEF RateTypeOK
      <4> QED
        BY <2>1, <2>3, <4>1 DEF RateTypeOK
    <3>6. admitted' \in [Ips -> [0..MaxTime -> Nat]]
      <4>1. admitted \in [Ips -> [0..MaxTime -> Nat]] /\ now \in 0..MaxTime
        BY DEF RateTypeOK
      <4>2. admitted[ip] \in [0..MaxTime -> Nat]
        BY <2>1, <4>1
      <4>3. [admitted[ip] EXCEPT ![now] = @ + 1] \in [0..MaxTime -> Nat]
        BY <4>1, <4>2
      <4>4. [admitted EXCEPT ![ip][now] = @ + 1] \in [Ips -> [0..MaxTime -> Nat]]
        BY <2>1, <4>1, <4>3
      <4> QED
        BY <2>3, <4>1, <4>4
    <3> QED
      BY <2>3, <3>3, <3>4, <3>5, <3>6 DEF RateTypeOK, IpRecords, HandlerRecords
  <2> QED
    BY <1>7, <2>2, <2>3 DEF CheckRateLimit
<1>8. CASE BeginCleanup
  BY <1>8 DEF BeginCleanup, RateTypeOK
<1>9. CASE CleanupRecords
  <2>1. CASE \E ip \in Ips : Abort(sweep.t, ip_requests[ip].last_seen)
    BY <1>6, <2>1
  <2>2. CASE ~ \E ip \in Ips : Abort(sweep.t, ip_requests[ip].last_seen)
    <3>1. /\ ip_requests' = [ip \in Ips |-> IF Forget(ip_requests[ip]) THEN NoRecord ELSE ip_requests[ip]]
          /\ sweep' = [sweep EXCEPT !.at = "bans"]
          /\ UNCHANGED <<now, banned_ips, handler, admitted>>
      BY <1>9, <2>2 DEF CleanupRecords
    <3>2. NoRecord \in IpRecords(now) /\ \A ip \in Ips : ip_requests[ip] \in IpRecords(now)
      BY DEF NoRecord, IpRecords, RateTypeOK
    <3>3. ip_requests' \in [Ips -> IpRecords(now)]
      BY <3>1, <3>2
    <3> QED
      BY <3>1, <3>3 DEF RateTypeOK, IpRecords
  <2> QED
    BY <2>1, <2>2
<1>10. CASE CleanupBans
  BY <1>10 DEF CleanupBans, RateTypeOK
<1>11. CASE Second
  <2>1. now' = now + 1 /\ now' \in 0..MaxTime /\ UNCHANGED <<ip_requests, banned_ips, handler, sweep, admitted>>
    BY <1>11 DEF Second, RateTypeOK
  <2>2. IpRecords(now) \subseteq IpRecords(now + 1) /\ HandlerRecords(now) \subseteq HandlerRecords(now + 1)
    BY DEF RateTypeOK, IpRecords, HandlerRecords
  <2>3. ip_requests' \in [Ips -> IpRecords(now')] /\ handler' \in [Workers -> HandlerRecords(now')]
    BY <2>1, <2>2 DEF RateTypeOK, IpRecords, HandlerRecords
  <2>4. sweep' \in [at : {"idle", "records", "bans", "dead"}, t : 0..now']
    BY <2>1 DEF RateTypeOK
  <2> QED
    BY <2>1, <2>3, <2>4 DEF RateTypeOK, IpRecords, HandlerRecords
<1>12. CASE UNCHANGED rateVars
  BY <1>12 DEF rateVars, RateTypeOK
<1> QED
  BY <1>1, <1>3, <1>4, <1>5, <1>7, <1>8, <1>9, <1>10, <1>11, <1>12 DEF RateNext

\* Times never lie in the future, and the tables keep their types.
THEOREM RateTypes == RateSpec => []RateTypeOK
  BY RateTypeInit, RateTypeStep, PTL DEF RateSpec
-----------------------------------------------------------------------------
\* A handler between two calls has the time it noted at most MaxPause behind it.
OnTime ==
    \A h \in Workers : handler[h].at \notin {"idle", "dead"} => now <= handler[h].since + MaxPause

\* No ban lasts longer than one that starts now.
BansEnd == \A ip \in Ips : banned_ips[ip] <= now + BanSecs

TimesInv == RateTypeOK /\ OnTime /\ BansEnd

\* Handlers note the present time, and so does a ban.
LEMMA TimesStep == TimesInv /\ [RateNext]_rateVars => TimesInv'
<1> SUFFICES ASSUME TimesInv, [RateNext]_rateVars
             PROVE  OnTime' /\ BansEnd'
  BY RateTypeStep DEF TimesInv
<1> USE RateAssumption
<1>1. /\ RateTypeOK /\ now \in Nat
      /\ \A h \in Workers : handler[h].since \in Nat /\ handler[h].at \in RateStages
      /\ \A ip \in Ips : banned_ips[ip] \in Int
  <2>1. RateTypeOK /\ now \in Nat
    BY DEF TimesInv, RateTypeOK
  <2>2. \A h \in Workers : handler[h].since \in Nat /\ handler[h].at \in RateStages
    BY <2>1 DEF RateTypeOK
  <2>3. \A ip \in Ips : banned_ips[ip] \in Int
    BY <2>1 DEF RateTypeOK, NoBan
  <2> QED
    BY <2>1, <2>2, <2>3
<1>2. ASSUME NEW h \in Workers, NEW stage \in RateStages, GoTo(h, stage), UNCHANGED now
      PROVE  OnTime'
  <2>1. /\ handler'[h].at = stage /\ handler'[h].since = IF stage = "idle" THEN 0 ELSE now
        /\ \A k \in Workers \ {h} : handler'[k] = handler[k]
    BY <1>1, <1>2, GoToRecords
  <2>2. ASSUME NEW k \in Workers, handler'[k].at \notin {"idle", "dead"}
        PROVE  now' <= handler'[k].since + MaxPause
    BY <1>1, <1>2, <2>1, <2>2 DEF TimesInv, OnTime
  <2> QED
    BY <2>2 DEF OnTime
<1>3. ASSUME NEW h \in Workers, NEW ip \in Ips, Arrive(h, ip)
      PROVE  OnTime' /\ BansEnd'
  <2>1. /\ handler'[h].since = now /\ UNCHANGED <<now, banned_ips>>
        /\ \A k \in Workers \ {h} : handler'[k] = handler[k]
    BY <1>1, <1>3 DEF Arrive, RateTypeOK
  <2>2. OnTime'
    BY <1>1, <2>1 DEF TimesInv, OnTime
  <2> QED
    BY <2>1, <2>2 DEF TimesInv, BansEnd
<1>4. ASSUME NEW h \in Workers, IsBanned(h) \/ ReadClock(h) \/ ScanPayload(h)
      PROVE  OnTime' /\ BansEnd'
  <2>1. PICK stage \in RateStages : GoTo(h, stage)
    BY <1>4 DEF IsBanned, ReadClock, ScanPayload, RateStages
  <2>2. UNCHANGED <<now, banned_ips>>
    BY <1>4 DEF IsBanned, ReadClock, ScanPayload
  <2> QED
    BY <1>2, <2>1, <2>2 DEF TimesInv, BansEnd
<1>5. ASSUME NEW h \in Workers, RemoveBan(h)
      PROVE  OnTime' /\ BansEnd'
  <2>1. GoTo(h, "checked") /\ "checked" \in RateStages /\ UNCHANGED now
    BY <1>5 DEF RemoveBan, RateStages
  <2>2. \A ip \in Ips : banned_ips'[ip] \in {banned_ips[ip], NoBan}
    BY <1>1, <1>5 DEF RemoveBan, RateTypeOK
  <2>3. BansEnd'
    BY <1>1, <2>1, <2>2 DEF TimesInv, BansEnd, NoBan
  <2> QED
    BY <1>2, <2>1, <2>3
<1>6. ASSUME NEW t, NEW u, Abort(t, u)
      PROVE  OnTime' /\ BansEnd'
  BY <1>1, <1>6, AbortRecords DEF TimesInv, OnTime, BansEnd
<1>7. ASSUME NEW h \in Workers, CheckRateLimit(h)
      PROVE  OnTime' /\ BansEnd'
  <2>1. CASE Abort(handler[h].since, ip_requests[handler[h].ip].window_start)
    BY <1>6, <2>1
  <2>2. CASE ~Abort(handler[h].since, ip_requests[handler[h].ip].window_start)
    <3>1. PICK stage \in RateStages : GoTo(h, stage)
      BY <1>7, <2>2 DEF CheckRateLimit, RateStages
    <3>2. /\ UNCHANGED now
          /\ \/ UNCHANGED banned_ips
             \/ banned_ips' = [banned_ips EXCEPT ![handler[h].ip] = now + BanSecs]
      BY <1>7, <2>2 DEF CheckRateLimit
    <3>3. \A ip \in Ips : banned_ips'[ip] \in {banned_ips[ip], now + BanSecs}
      BY <1>1, <3>2 DEF RateTypeOK
    <3>4. BansEnd'
      BY <1>1, <3>2, <3>3 DEF TimesInv, BansEnd
    <3> QED
      BY <1>2, <3>1, <3>2, <3>4
  <2> QED
    BY <2>1, <2>2
<1>8. CASE CleanupRecords
  <2>1. CASE \E ip \in Ips : Abort(sweep.t, ip_requests[ip].last_seen)
    BY <1>6, <2>1
  <2>2. CASE ~ \E ip \in Ips : Abort(sweep.t, ip_requests[ip].last_seen)
    BY <1>8, <2>2 DEF CleanupRecords, TimesInv, OnTime, BansEnd
  <2> QED
    BY <2>1, <2>2
<1>9. CASE CleanupBans
  <2>1. UNCHANGED <<now, handler>> /\ \A ip \in Ips : banned_ips'[ip] \in {banned_ips[ip], NoBan}
    BY <1>9 DEF CleanupBans
  <2> QED
    BY <1>1, <2>1 DEF TimesInv, OnTime, BansEnd, NoBan
<1>10. CASE Second
  BY <1>1, <1>10 DEF Second, At, TimesInv, OnTime, BansEnd
<1>11. CASE BeginCleanup \/ UNCHANGED rateVars
  BY <1>11 DEF BeginCleanup, rateVars, TimesInv, OnTime, BansEnd
<1> QED
  BY <1>3, <1>4, <1>5, <1>7, <1>8, <1>9, <1>10, <1>11 DEF RateNext

\* Nobody waits and nobody is banned at the start.
LEMMA TimesInvariant == RateSpec => []TimesInv
<1>1. RateInit => OnTime /\ BansEnd
  BY RateAssumption DEF RateInit, OnTime, BansEnd, NoBan
<1> QED
  BY <1>1, RateTypeInit, TimesStep, PTL DEF RateSpec, TimesInv

\* A ban in force goes only to a handler that saw an earlier ban expire: cleanup,
\* whose clock is behind, and requests, whose ban starts later, keep it.
THEOREM BansAreKept == RateSpec => BanLostToStaleReadOnly
<1> DEFINE Kept ==
        \A ip \in Ips :
            Banned(ip) =>
                \/ banned_ips'[ip] >= banned_ips[ip]
                \/ \E h \in Workers :
                        handler[h].ip = ip /\ At(h, "expired") /\ handler'[h].at = "checked"
<1>1. TimesInv /\ [RateNext]_rateVars => [Kept]_rateVars
  <2> SUFFICES ASSUME TimesInv, RateNext, NEW ip \in Ips, Banned(ip), ~(banned_ips'[ip] >= banned_ips[ip])
               PROVE  \E h \in Workers :
                        handler[h].ip = ip /\ At(h, "expired") /\ handler'[h].at = "checked"
    OBVIOUS
  <2> USE RateAssumption
  <2>1. /\ RateTypeOK /\ now \in Nat /\ sweep.t \in Nat /\ sweep.t <= now /\ banned_ips[ip] \in Nat
        /\ now < banned_ips[ip] /\ banned_ips[ip] <= now + BanSecs
    <3>1. RateTypeOK /\ BansEnd
      BY DEF TimesInv
    <3>2. now \in Nat
      BY <3>1 DEF RateTypeOK
    <3>3. sweep.t \in 0..now
      BY <3>1 DEF RateTypeOK
    <3>4. banned_ips[ip] \in {NoBan} \cup 0..(MaxTime + BanSecs)
      BY <3>1 DEF RateTypeOK
    <3>5. banned_ips[ip] # NoBan /\ now < banned_ips[ip]
      BY DEF Banned
    <3>6. banned_ips[ip] \in Nat
      BY <3>4, <3>5 DEF NoBan
    <3>7. banned_ips[ip] <= now + BanSecs
      BY <3>1 DEF BansEnd
    <3> QED
      BY <3>1, <3>2, <3>3, <3>5, <3>6, <3>7
  <2>2. banned_ips'[ip] # banned_ips[ip]
    BY <2>1
  <2>3. ASSUME NEW h \in Workers, RemoveBan(h)
        PROVE  handler[h].ip = ip /\ At(h, "expired") /\ handler'[h].at = "checked"
    <3>1. handler'[h].at = "checked"
      BY <2>1, <2>3, GoToRecords DEF RemoveBan, RateStages
    <3> QED
      BY <2>1, <2>2, <2>3, <3>1 DEF RemoveBan, RateTypeOK
  <2>4. ASSUME NEW h \in Workers, CheckRateLimit(h)
        PROVE  FALSE
    <3>1. \/ UNCHANGED banned_ips
          \/ banned_ips' = [banned_ips EXCEPT ![handler[h].ip] = now + BanSecs]
      BY <2>4 DEF CheckRateLimit, Abort
    <3>2. banned_ips'[ip] \in {banned_ips[ip], now + BanSecs}
      BY <2>1, <3>1 DEF RateTypeOK
    <3> QED
      BY <2>1, <3>2
  <2>5. CASE CleanupBans
    BY <2>1, <2>2, <2>5 DEF CleanupBans, Lasts
  <2>6. ~UNCHANGED banned_ips
    BY <2>2
  <2> QED
    BY <2>3, <2>4, <2>5, <2>6
       DEF RateNext, Arrive, IsBanned, ReadClock, ScanPayload, BeginCleanup, CleanupRecords, Second, Abort
<1> QED
  BY <1>1, TimesInvariant, PTL DEF RateSpec, BanLostToStaleReadOnly
-----------------------------------------------------------------------------
\* The seconds a burst is counted over, those from x on, and a count that stops
\* at Limit.
Reach == Window + 1 - MaxPause
Burst(t) == {u \in 0..MaxTime : t <= u /\ u <= t + Reach}
Since(x) == {u \in 0..MaxTime : x <= u}
Capped(n) == IF n < Limit THEN n ELSE Limit

\* What a record says, at time n, of the admissions a of its address.  The window
\* started MaxPause seconds before the first admission that must be of it; the
\* admissions within Reach of now are of two windows at most, the older of which
\* admitted up to Limit.  Without a record there is no admission this second.
Accounts(rec, a, n) ==
    /\ rec.count = 0 => rec = NoRecord
    /\ rec.count > 0 =>
            /\ 0 <= rec.window_start /\ rec.window_start <= rec.last_seen
            /\ rec.last_seen <= rec.window_start + Window
            /\ SumFunctionOnSet(a, Since(rec.window_start + MaxPause)) <= Capped(rec.count)
    /\ SumFunctionOnSet(a, Since(n - Reach)) <= Limit + Capped(rec.count)
    /\ \A u \in 0..MaxTime : a[u] # 0 =>
            /\ u <= n
            /\ IF rec.count = 0 THEN u < n ELSE u <= rec.last_seen + MaxPause

Admissions == [0..MaxTime -> Nat]

\* No burst is too large.
Tame(a) == \A t \in 0..MaxTime : SumFunctionOnSet(a, Burst(t)) <= 2 * Limit

\* Counting admissions over sets of seconds.
LEMMA AdmissionSums ==
    ASSUME NEW a \in Admissions, NEW S \in SUBSET (0..MaxTime), NEW U \in SUBSET S
    PROVE  /\ IsFiniteSet(S)
           /\ SumFunctionOnSet(a, S) \in Nat
           /\ SumFunctionOnSet(a, U) \in Nat
           /\ SumFunctionOnSet(a, U) <= SumFunctionOnSet(a, S)
<1>1. IsFiniteSet(0..MaxTime)
  BY FS_Interval, RateAssumption
<1>2. IsFiniteSet(S) /\ \A u \in S : a[u] \in Nat
  BY <1>1, FS_Subset DEF Admissions
<1>3. SumFunctionOnSet(a, U) \in Nat /\ SumFunctionOnSet(a, U) <= SumFunctionOnSet(a, S)
  BY <1>2, SumSubset
<1>4. SumFunctionOnSet(a, S) \in Nat
  BY <1>2, SumSubset
<1> QED
  BY <1>2, <1>3, <1>4

\* One more admission counts where its second does.
LEMMA AdmitOne ==
    ASSUME NEW a \in Admissions, NEW n \in 0..MaxTime, NEW S \in SUBSET (0..MaxTime)
    PROVE  /\ [a EXCEPT ![n] = @ + 1] \in Admissions
           /\ n \in S => SumFunctionOnSet([a EXCEPT ![n] = @ + 1], S) = SumFunctionOnSet(a, S) + 1
           /\ n \notin S => SumFunctionOnSet([a EXCEPT ![n] = @ + 1], S) = SumFunctionOnSet(a, S)
<1> DEFINE b == [a EXCEPT ![n] = @ + 1]
<1>1. /\ b \in Admissions /\ b[n] = a[n] + 1 /\ a[n] \in Nat
      /\ \A u \in (0..MaxTime) \ {n} : b[u] = a[u]
      /\ \A u \in 0..MaxTime : a[u] \in Int /\ b[u] \in Int
  BY DEF Admissions
<1>2. IsFiniteSet(S) /\ SumFunctionOnSet(a, S) \in Nat
  BY AdmissionSums
<1> HIDE DEF b
<1>3. CASE n \in S
  <2>1. PICK x : x \in S /\ x = n
    BY <1>3
  <2> DEFINE V == S
  <2>2. /\ x \in V /\ IsFiniteSet(V) /\ \A u \in V : a[u] \in Int /\ b[u] \in Int
        /\ \A u \in V \ {x} : b[u] = a[u]
    BY <1>1, <1>2, <2>1
  <2> HIDE DEF V
  <2>3. SumFunctionOnSet(b, V) = SumFunctionOnSet(a, V) + b[x] - a[x]
    BY <2>2, SumChange
  <2> QED
    BY <1>1, <1>2, <1>3, <2>1, <2>3 DEF b, V
<1>4. CASE n \notin S
  <2>1. \A u \in S : a[u] \in Int /\ b[u] = a[u]
    BY <1>1, <1>4
  <2>2. SumFunctionOnSet(b, S) = SumFunctionOnSet(a, S)
    BY <1>2, <2>1, SumCongruent
  <2> QED
    BY <1>1, <1>4, <2>2 DEF b
<1> QED
  BY <1>3, <1>4

\* The cap.
LEMMA CappedCount ==
    \A n \in Nat : Capped(n) \in 0..Limit /\ (n <= Limit => Capped(n) = n) /\ (n > Limit => Capped(n) = Limit)
  BY RateAssumption DEF Capped

\* An old window, or no record, leaves at most Limit admissions within Reach, and
\* none in the present second or later.
LEMMA WindowIsOver ==
    ASSUME NEW n \in 0..MaxTime, NEW a \in Admissions, NEW rec \in IpRecords(n), Accounts(rec, a, n),
           NEW t \in 0..n, rec.count > 0 => rec.window_start + Window < t
    PROVE  /\ SumFunctionOnSet(a, Since(n - Reach)) <= Limit
           /\ n <= t + MaxPause => SumFunctionOnSet(a, Since(t + MaxPause)) = 0
<1> USE RateAssumption
<1>1. /\ n \in Nat /\ t \in Nat /\ t <= n /\ rec.count \in Nat
      /\ rec.window_start \in Int /\ rec.last_seen \in Int /\ Reach \in Nat
  BY DEF IpRecords, Reach
<1>2. /\ Since(n - Reach) \in SUBSET (0..MaxTime) /\ Since(t + MaxPause) \in SUBSET (0..MaxTime)
  BY DEF Since
<1>3. SumFunctionOnSet(a, Since(n - Reach)) <= Limit
  <2>1. CASE rec.count = 0
    BY <1>1, <2>1, CappedCount DEF Accounts
  <2>2. CASE rec.count > 0
    <3> DEFINE S == Since(rec.window_start + MaxPause)
    <3>1. rec.window_start + MaxPause <= n - Reach
      BY <1>1, <2>2 DEF Reach
    <3>2. Since(n - Reach) \subseteq S /\ S \in SUBSET (0..MaxTime)
      BY <1>1, <3>1 DEF Since
    <3>3. SumFunctionOnSet(a, S) <= Capped(rec.count) /\ Capped(rec.count) \in 0..Limit
      BY <1>1, <2>2, CappedCount DEF Accounts
    <3> HIDE DEF S
    <3>4. /\ SumFunctionOnSet(a, Since(n - Reach)) <= SumFunctionOnSet(a, S)
          /\ SumFunctionOnSet(a, S) \in Nat /\ SumFunctionOnSet(a, Since(n - Reach)) \in Nat
      BY <3>2, AdmissionSums
    <3> QED
      BY <3>3, <3>4
  <2> QED
    BY <1>1, <2>1, <2>2
<1>4. ASSUME n <= t + MaxPause
      PROVE  SumFunctionOnSet(a, Since(t + MaxPause)) = 0
  <2>1. ASSUME NEW u \in Since(t + MaxPause), a[u] # 0
        PROVE  FALSE
    <3>1. u \in 0..MaxTime /\ t + MaxPause <= u
      BY DEF Since
    <3>2. u <= n /\ IF rec.count = 0 THEN u < n ELSE u <= rec.last_seen + MaxPause
      BY <2>1, <3>1 DEF Accounts
    <3>3. rec.count > 0 => rec.last_seen < t
      BY <1>1 DEF Accounts
    <3> QED
      BY <1>1, <1>4, <3>1, <3>2, <3>3
  <2>2. \A u \in Since(t + MaxPause) : a[u] = 0
    BY <2>1
  <2>3. IsFiniteSet(Since(t + MaxPause))
    BY <1>2, AdmissionSums
  <2> QED
    BY <2>2, <2>3, SumZero
<1> QED
  BY <1>3, <1>4

\* check_rate_limit with the time t, at most MaxPause ago: the new record
\* accounts for the admissions with the new one among them.
LEMMA CountedAccounts ==
    ASSUME NEW n \in 0..MaxTime, NEW a \in Admissions, NEW rec \in IpRecords(n), Accounts(rec, a, n),
           NEW t \in 0..n, n <= t + MaxPause, t >= rec.window_start, NEW new \in IpRecords(n),
           new.last_seen = t,
           InWindow(rec, t) => new.count = rec.count + 1 /\ new.window_start = rec.window_start,
           ~InWindow(rec, t) => new.count = 1 /\ new.window_start = t,
           NEW b, b = IF new.count <= Limit THEN [a EXCEPT ![n] = @ + 1] ELSE a
    PROVE  b \in Admissions /\ Accounts(new, b, n)
<1> USE RateAssumption
<1> DEFINE extra == IF new.count <= Limit THEN 1 ELSE 0
<1>1. /\ n \in Nat /\ t \in Nat /\ t <= n /\ rec.count \in Nat /\ new.count \in Nat
      /\ rec.window_start \in Int /\ rec.last_seen \in Int /\ new.window_start \in Int /\ Reach \in Nat
  BY DEF IpRecords, Reach
<1>2. b \in Admissions
  BY AdmitOne
<1>3. \A S \in SUBSET (0..MaxTime) : /\ SumFunctionOnSet(b, S) <= SumFunctionOnSet(a, S) + extra
                                      /\ SumFunctionOnSet(a, S) \in Nat /\ SumFunctionOnSet(b, S) \in Nat
  <2> SUFFICES ASSUME NEW S \in SUBSET (0..MaxTime)
               PROVE  /\ SumFunctionOnSet(b, S) <= SumFunctionOnSet(a, S) + extra
                      /\ SumFunctionOnSet(a, S) \in Nat /\ SumFunctionOnSet(b, S) \in Nat
    OBVIOUS
  <2>1. SumFunctionOnSet(a, S) \in Nat /\ SumFunctionOnSet(b, S) \in Nat
    BY <1>2, AdmissionSums
  <2> QED
    BY <2>1, AdmitOne
<1>4. rec.count = 0 => ~InWindow(rec, t)
  BY DEF Accounts, InWindow
<1>5. rec.count > 0 => rec # NoRecord
  BY DEF NoRecord
<1>6. rec.count > 0 /\ ~InWindow(rec, t) => rec.window_start + Window < t
  BY <1>1, <1>5 DEF InWindow
<1>7. /\ Since(new.window_start + MaxPause) \in SUBSET (0..MaxTime)
      /\ Since(n - Reach) \in SUBSET (0..MaxTime)
  BY DEF Since
<1> HIDE DEF extra
<1>8. /\ new.count > 0 /\ 0 <= new.window_start /\ new.window_start <= t /\ t <= new.window_start + Window
      /\ SumFunctionOnSet(a, Since(new.window_start + MaxPause)) + extra <= Capped(new.count)
      /\ SumFunctionOnSet(a, Since(n - Reach)) + extra <= Limit + Capped(new.count)
  <2>1. CASE InWindow(rec, t)
    <3>1. /\ rec.count > 0 /\ new.count = rec.count + 1 /\ new.window_start = rec.window_start
          /\ t <= rec.window_start + Window
      BY <1>1, <1>4, <2>1 DEF InWindow
    <3>2. Capped(rec.count) + extra <= Capped(new.count) /\ Capped(rec.count) \in Nat /\ Capped(new.count) \in Nat
      BY <1>1, <3>1 DEF Capped, extra
    <3>3. /\ SumFunctionOnSet(a, Since(rec.window_start + MaxPause)) <= Capped(rec.count)
          /\ SumFunctionOnSet(a, Since(n - Reach)) <= Limit + Capped(rec.count)
          /\ 0 <= rec.window_start
      BY <3>1 DEF Accounts
    <3>4. extra \in Nat
      BY DEF extra
    <3>5. /\ SumFunctionOnSet(a, Since(rec.window_start + MaxPause)) \in Nat
          /\ SumFunctionOnSet(a, Since(n - Reach)) \in Nat
      BY <1>3, <1>7, <3>1
    <3> QED
      BY <1>1, <3>1, <3>2, <3>3, <3>4, <3>5
  <2>2. CASE ~InWindow(rec, t)
    <3>1. new.count = 1 /\ new.window_start = t
      BY <2>2
    <3>2. /\ SumFunctionOnSet(a, Since(n - Reach)) <= Limit
          /\ SumFunctionOnSet(a, Since(t + MaxPause)) = 0
      BY <1>6, <2>2, WindowIsOver
    <3>3. extra = Capped(1) /\ extra \in Nat
      BY <3>1 DEF Capped, extra
    <3>4. SumFunctionOnSet(a, Since(n - Reach)) \in Nat
      BY <1>3, <1>7
    <3> QED
      BY <1>1, <3>1, <3>2, <3>3, <3>4
  <2> QED
    BY <2>1, <2>2
<1>9. extra \in Nat /\ Capped(new.count) \in Nat
  BY <1>1 DEF extra, Capped
<1>10. /\ SumFunctionOnSet(b, Since(new.window_start + MaxPause)) <= Capped(new.count)
       /\ SumFunctionOnSet(b, Since(n - Reach)) <= Limit + Capped(new.count)
  <2> DEFINE S == Since(new.window_start + MaxPause)
  <2> DEFINE U == Since(n - Reach)
  <2>1. S \in SUBSET (0..MaxTime) /\ U \in SUBSET (0..MaxTime)
    BY <1>7
  <2>2. SumFunctionOnSet(a, S) + extra <= Capped(new.count) /\ SumFunctionOnSet(a, U) + extra <= Limit + Capped(new.count)
    BY <1>8
  <2> HIDE DEF S, U
  <2>3. /\ SumFunctionOnSet(b, S) <= SumFunctionOnSet(a, S) + extra
        /\ SumFunctionOnSet(a, S) \in Nat /\ SumFunctionOnSet(b, S) \in Nat
        /\ SumFunctionOnSet(b, U) <= SumFunctionOnSet(a, U) + extra
        /\ SumFunctionOnSet(a, U) \in Nat /\ SumFunctionOnSet(b, U) \in Nat
    BY <1>3, <2>1
  <2>4. SumFunctionOnSet(b, S) <= Capped(new.count) /\ SumFunctionOnSet(b, U) <= Limit + Capped(new.count)
    BY <1>9, <2>2, <2>3
  <2> QED
    BY <2>4 DEF S, U
<1>11. ASSUME NEW u \in 0..MaxTime, b[u] # 0
       PROVE  u <= n /\ u <= t + MaxPause
  <2>1. a[u] # 0 \/ u = n
    BY <1>11 DEF Admissions
  <2>2. u <= n
    BY <1>1, <2>1 DEF Accounts
  <2> QED
    BY <1>1, <2>2
<1> QED
  BY <1>1, <1>2, <1>8, <1>10, <1>11 DEF Accounts

\* A burst that the new admission falls into lies within Reach of now.
LEMMA CountedIsTame ==
    ASSUME NEW n \in 0..MaxTime, NEW a \in Admissions, Tame(a), NEW b \in Admissions,
           NEW new \in IpRecords(n), Accounts(new, b, n), b = a \/ b = [a EXCEPT ![n] = @ + 1]
    PROVE  Tame(b)
<1> USE RateAssumption
<1> SUFFICES ASSUME NEW t \in 0..MaxTime, b = [a EXCEPT ![n] = @ + 1]
             PROVE  SumFunctionOnSet(b, Burst(t)) <= 2 * Limit
  BY DEF Tame
<1>1. Burst(t) \in SUBSET (0..MaxTime) /\ Since(n - Reach) \in SUBSET (0..MaxTime)
  BY DEF Burst, Since
<1>2. CASE n \in Burst(t)
  <2>1. Burst(t) \subseteq Since(n - Reach)
    BY <1>2 DEF Burst, Since, Reach
  <2>2. /\ SumFunctionOnSet(b, Burst(t)) <= SumFunctionOnSet(b, Since(n - Reach))
        /\ SumFunctionOnSet(b, Burst(t)) \in Nat /\ SumFunctionOnSet(b, Since(n - Reach)) \in Nat
    BY <1>1, <2>1, AdmissionSums
  <2>3. SumFunctionOnSet(b, Since(n - Reach)) <= Limit + Capped(new.count) /\ new.count \in Nat
    BY DEF Accounts, IpRecords
  <2>4. Capped(new.count) \in 0..Limit
    BY <2>3, CappedCount
  <2> QED
    BY <2>2, <2>3, <2>4
<1>3. CASE n \notin Burst(t)
  <2>1. SumFunctionOnSet(b, Burst(t)) = SumFunctionOnSet(a, Burst(t))
    BY <1>1, <1>3, AdmitOne
  <2> QED
    BY <2>1 DEF Tame
<1> QED
  BY <1>2, <1>3

\* A second later the record accounts for no more.
LEMMA LaterAccounts ==
    ASSUME NEW n \in 0..MaxTime, NEW a \in Admissions, NEW rec \in IpRecords(n), Accounts(rec, a, n)
    PROVE  Accounts(rec, a, n + 1)
<1>1. n \in Nat /\ rec.count \in Nat /\ rec.last_seen \in Int /\ Reach \in Nat /\ Capped(rec.count) \in Nat
  <2>1. n \in Nat /\ rec.count \in Nat /\ rec.last_seen \in Int /\ Reach \in Nat
    BY RateAssumption DEF IpRecords, Reach
  <2> QED
    BY <2>1, RateAssumption DEF Capped
<1>2. Since(n - Reach) \in SUBSET (0..MaxTime) /\ Since((n + 1) - Reach) \in SUBSET Since(n - Reach)
  BY <1>1 DEF Since
<1>3. /\ SumFunctionOnSet(a, Since((n + 1) - Reach)) <= SumFunctionOnSet(a, Since(n - Reach))
      /\ SumFunctionOnSet(a, Since((n + 1) - Reach)) \in Nat /\ SumFunctionOnSet(a, Since(n - Reach)) \in Nat
  BY <1>2, AdmissionSums
<1>4. SumFunctionOnSet(a, Since((n + 1) - Reach)) <= Limit + Capped(rec.count)
  BY <1>1, <1>3, RateAssumption DEF Accounts
<1>5. ASSUME NEW u \in 0..MaxTime, a[u] # 0
      PROVE  u <= n + 1 /\ IF rec.count = 0 THEN u < n + 1 ELSE u <= rec.last_seen + MaxPause
  BY <1>1, <1>5 DEF Accounts
<1>6. /\ rec.count = 0 => rec = NoRecord
      /\ rec.count > 0 =>
            /\ 0 <= rec.window_start /\ rec.window_start <= rec.last_seen
            /\ rec.last_seen <= rec.window_start + Window
            /\ SumFunctionOnSet(a, Since(rec.window_start + MaxPause)) <= Capped(rec.count)
  BY Zenon DEF Accounts
<1> DEFINE m == n + 1
<1>7. SumFunctionOnSet(a, Since(m - Reach)) <= Limit + Capped(rec.count)
  BY <1>4
<1>8. \A u \in 0..MaxTime : a[u] # 0 =>
        /\ u <= m
        /\ IF rec.count = 0 THEN u < m ELSE u <= rec.last_seen + MaxPause
  BY <1>5
<1> HIDE DEF m
<1>9. Accounts(rec, a, m)
  BY <1>6, <1>7, <1>8, Zenon DEF Accounts
<1> QED
  BY <1>9 DEF m

\* A record that cleanup forgets has nothing left to account for.
LEMMA ForgottenAccounts ==
    ASSUME NEW n \in 0..MaxTime, NEW a \in Admissions, NEW rec \in IpRecords(n), Accounts(rec, a, n),
           NEW t \in 0..n, t - rec.last_seen >= IdleSecs
    PROVE  Accounts(NoRecord, a, n)
<1> USE RateAssumption
<1>1. /\ n \in Nat /\ t \in Nat /\ t <= n /\ rec.count \in Nat /\ rec.window_start \in Int
      /\ rec.last_seen \in Int
  BY DEF IpRecords
<1>2. rec.count > 0 => rec.window_start + Window < t
  BY <1>1 DEF Accounts
<1>3. SumFunctionOnSet(a, Since(n - Reach)) <= Limit
  BY <1>2, WindowIsOver
<1>4. ASSUME NEW u \in 0..MaxTime, a[u] # 0
      PROVE  u < n
  BY <1>1, <1>4 DEF Accounts
<1>5. NoRecord.count = 0 /\ Capped(0) = 0
  BY DEF NoRecord, Capped
<1> QED
  BY <1>1, <1>3, <1>4, <1>5 DEF Accounts

-----------------------------------------------------------------------------
\* Every record accounts for the admissions of its address, and no burst was too
\* large.
BurstInv ==
    \A ip \in Ips : Accounts(ip_requests[ip], admitted[ip], now) /\ Tame(admitted[ip])

\* Requests and cleanup change records, the clock moves what they account for.
LEMMA BurstStep == TimesInv /\ BurstInv /\ [RateNext]_rateVars => BurstInv'
<1> SUFFICES ASSUME TimesInv, BurstInv, [RateNext]_rateVars
             PROVE  BurstInv'
  OBVIOUS
<1>1. /\ RateTypeOK /\ now \in 0..MaxTime
      /\ \A ip \in Ips : ip_requests[ip] \in IpRecords(now) /\ admitted[ip] \in Admissions
      /\ \A h \in Workers : handler[h].ip \in Ips /\ handler[h].since \in 0..now
      /\ sweep.t \in 0..now
  <2>1. RateTypeOK
    BY DEF TimesInv
  <2>2. \A ip \in Ips : ip_requests[ip] \in IpRecords(now) /\ admitted[ip] \in Admissions
    BY <2>1 DEF RateTypeOK, IpRecords, Admissions
  <2>3. /\ \A h \in Workers : handler[h].ip \in Ips /\ handler[h].since \in 0..now
        /\ sweep.t \in 0..now /\ now \in 0..MaxTime
    BY <2>1 DEF RateTypeOK
  <2> QED
    BY <2>1, <2>2, <2>3
<1>2. CASE UNCHANGED <<now, ip_requests, admitted>>
  BY <1>2 DEF BurstInv
<1>3. ASSUME NEW h \in Workers, CheckRateLimit(h)
      PROVE  BurstInv'
  <2> DEFINE ip == handler[h].ip
  <2> DEFINE t == handler[h].since
  <2> DEFINE old == ip_requests[ip]
  <2> DEFINE new == Counted(ip, t)
  <2> DEFINE before == admitted[ip]
  <2> DEFINE after == IF new.count <= Limit THEN [before EXCEPT ![now] = @ + 1] ELSE before
  <2>1. /\ ip \in Ips /\ t \in 0..now /\ old \in IpRecords(now) /\ before \in Admissions
        /\ Accounts(old, before, now) /\ Tame(before)
    BY <1>1 DEF BurstInv
  <2>2. now <= t + MaxPause
    BY <1>3 DEF CheckRateLimit, At, TimesInv, OnTime
  <2>3. CASE Abort(t, old.window_start)
    BY <1>2, <2>3 DEF Abort
  <2>4. CASE ~Abort(t, old.window_start)
    <3>1. /\ t >= old.window_start /\ ip_requests' = [ip_requests EXCEPT ![ip] = new] /\ UNCHANGED now
          /\ admitted' = IF Verdict(new.count) = "allowed" THEN [admitted EXCEPT ![ip][now] = @ + 1] ELSE admitted
      BY <1>3, <2>4 DEF CheckRateLimit
    <3>2. /\ new \in IpRecords(now) /\ new.last_seen = t
          /\ InWindow(old, t) => new.count = old.count + 1 /\ new.window_start = old.window_start
          /\ ~InWindow(old, t) => new.count = 1 /\ new.window_start = t
      BY <1>1, <2>1, <3>1, CountedRecord
    <3>3. new.count \in Nat
      BY <3>2 DEF IpRecords
    <3>4. Verdict(new.count) = "allowed" <=> new.count <= Limit
      BY <3>3, RateAssumption DEF Verdict
    <3>5. ip_requests'[ip] = new /\ \A p \in Ips \ {ip} : ip_requests'[p] = ip_requests[p]
      BY <1>1, <2>1, <3>1 DEF RateTypeOK
    <3>6. admitted'[ip] = after /\ \A p \in Ips \ {ip} : admitted'[p] = admitted[p]
      BY <1>1, <2>1, <3>1, <3>4 DEF RateTypeOK
    <3> HIDE DEF ip, t, old, new, before
    <3>7. after \in Admissions /\ Accounts(new, after, now)
      BY <1>1, <2>1, <2>2, <3>1, <3>2, CountedAccounts
    <3>8. after = before \/ after = [before EXCEPT ![now] = @ + 1]
      OBVIOUS
    <3> HIDE DEF after
    <3>9. Tame(after)
      BY <1>1, <2>1, <3>2, <3>7, <3>8, CountedIsTame
    <3>10. ASSUME NEW p \in Ips
           PROVE  Accounts(ip_requests'[p], admitted'[p], now') /\ Tame(admitted'[p])
      <4>1. CASE p = ip
        BY <3>1, <3>5, <3>6, <3>7, <3>9, <4>1
      <4>2. CASE p # ip
        BY <3>1, <3>5, <3>6, <4>2 DEF BurstInv
      <4> QED
        BY <4>1, <4>2
    <3> QED
      BY <3>10 DEF BurstInv
  <2> QED
    BY <2>3, <2>4
<1>4. CASE CleanupRecords
  <2>1. CASE \E ip \in Ips : Abort(sweep.t, ip_requests[ip].last_seen)
    BY <1>2, <2>1 DEF Abort
  <2>2. CASE ~ \E ip \in Ips : Abort(sweep.t, ip_requests[ip].last_seen)
    <3>1. /\ \A ip \in Ips : ip_requests'[ip] = IF Forget(ip_requests[ip]) THEN NoRecord ELSE ip_requests[ip]
          /\ UNCHANGED <<now, admitted>>
      BY <1>4, <2>2 DEF CleanupRecords
    <3>2. ASSUME NEW ip \in Ips
          PROVE  Accounts(ip_requests'[ip], admitted'[ip], now')
      <4>1. Accounts(ip_requests[ip], admitted[ip], now)
        BY DEF BurstInv
      <4>2. CASE Forget(ip_requests[ip])
        <5>1. sweep.t - ip_requests[ip].last_seen >= IdleSecs
          BY <4>2 DEF Forget
        <5>2. Accounts(NoRecord, admitted[ip], now)
          BY <1>1, <4>1, <5>1, ForgottenAccounts
        <5> QED
          BY <3>1, <4>2, <5>2
      <4>3. CASE ~Forget(ip_requests[ip])
        BY <3>1, <4>1, <4>3
      <4> QED
        BY <4>2, <4>3
    <3> QED
      BY <3>1, <3>2 DEF BurstInv
  <2> QED
    BY <2>1, <2>2
<1>5. CASE Second
  <2>1. now' = now + 1 /\ UNCHANGED <<ip_requests, admitted>>
    BY <1>5 DEF Second
  <2>2. ASSUME NEW ip \in Ips
        PROVE  Accounts(ip_requests[ip], admitted[ip], now + 1)
    BY <1>1, LaterAccounts DEF BurstInv
  <2> QED
    BY <2>1, <2>2 DEF BurstInv
<1> QED
  BY <1>2, <1>3, <1>4, <1>5
     DEF RateNext, rateVars, Arrive, IsBanned, RemoveBan, ReadClock, ScanPayload, BeginCleanup, CleanupBans

\* Nothing has been admitted at the start.
LEMMA BurstInit == RateInit => BurstInv
<1> SUFFICES ASSUME RateInit, NEW ip \in Ips
             PROVE  Accounts(ip_requests[ip], admitted[ip], now) /\ Tame(admitted[ip])
  BY DEF BurstInv
<1> USE RateAssumption
<1> DEFINE a == admitted[ip]
<1>1. now = 0 /\ ip_requests[ip] = NoRecord /\ \A u \in 0..MaxTime : a[u] = 0
  BY DEF RateInit
<1>2. NoRecord.count = 0 /\ Capped(0) = 0
  BY DEF NoRecord, Capped
<1> HIDE DEF a
<1>3. ASSUME NEW S \in SUBSET (0..MaxTime)
      PROVE  SumFunctionOnSet(a, S) = 0
  <2>1. IsFiniteSet(0..MaxTime)
    BY FS_Interval
  <2>2. IsFiniteSet(S)
    BY <2>1, FS_Subset
  <2> QED
    BY <1>1, <2>2, SumZero
<1>4. SumFunctionOnSet(a, Since(now - Reach)) = 0
  BY <1>3 DEF Since
<1>5. \A t \in 0..MaxTime : SumFunctionOnSet(a, Burst(t)) = 0
  BY <1>3 DEF Burst
<1>6. Tame(a)
  BY <1>5 DEF Tame
<1>7. Accounts(NoRecord, a, now)
  BY <1>1, <1>2, <1>4 DEF Accounts
<1> QED
  BY <1>1, <1>6, <1>7 DEF a

\* However many handlers check an address at once, whatever old times they do it
\* with, wherever its windows fall and whenever cleanup forgets it: no burst of
\* seconds sees more than twice Limit requests admitted.
THEOREM BurstsAreBounded == RateSpec => []BurstBound
<1>1. BurstInv => BurstBound
  <2> SUFFICES ASSUME BurstInv, NEW ip \in Ips, NEW t \in 0..MaxTime
               PROVE  SumFunctionOnSet(admitted[ip], {u \in 0..MaxTime : t <= u /\ u <= t + Window + 1 - MaxPause})
                        <= 2 * Limit
    BY DEF BurstBound, AdmittedIn
  <2>1. {u \in 0..MaxTime : t <= u /\ u <= t + Window + 1 - MaxPause} = Burst(t)
    BY RateAssumption DEF Burst, Reach
  <2>2. SumFunctionOnSet(admitted[ip], Burst(t)) <= 2 * Limit
    BY DEF BurstInv, Tame
  <2> QED
    BY <2>1, <2>2
<1> QED
  BY <1>1, BurstInit, BurstStep, TimesInvariant, PTL DEF RateSpec
==============================================================================
