--------------------------- MODULE CircuitBreaker ---------------------------
(***************************************************************************)
(* The circuit breaker in front of the upstream RPC node (security.rs) and *)
(* the request handlers that consult it and report to it (rpc_proxy.rs).   *)
(* The failure count is an atomic and the time of the last failure a       *)
(* mutex: is_open reads them one after the other and record_failure writes *)
(* them one after the other, so handlers on other threads step in between. *)
(* Both read the clock before they take the mutex: is_open in a statement  *)
(* of its own, record_failure because an assignment evaluates its right-   *)
(* hand side first.  The second a handler has read is old when it is used, *)
(* and an older stamp may overwrite a newer one.                           *)
(*                                                                         *)
(* Only differences of times matter, so a time is kept as its age.  Ages   *)
(* stop counting where no comparison tells them apart, the failure count   *)
(* at MaxFailures.                                                         *)
(***************************************************************************)
EXTENDS Integers

CONSTANTS Handlers,
          Threshold,   \* 5 failures
          Recovery,    \* 30 seconds
          MaxHold,     \* bound: seconds from reading the clock to the mutex
          MaxFailures  \* bound: larger failure counts are not told apart

ASSUME BreakerAssumption ==
    /\ Threshold \in Nat \ {0}
    /\ Recovery \in Nat \ {0}
    /\ MaxHold \in Nat \ {0}
    /\ MaxFailures \in Nat /\ Threshold <= MaxFailures

VARIABLES failures,
          sinceFailure,  \* age of last_failure
          at,            \* where every handler is
          held,          \* age of the clock reading a handler holds
          sinceCounted   \* history: age of the last counted failure

vars == <<failures, sinceFailure, at, held, sinceCounted>>

\* Between the clock and the mutex, in is_open and in record_failure.
Holding == {"comparing", "locking"}
Stages == {"idle", "timing", "upstream", "stamping"} \cup Holding

\* A reading that is MaxHold old and a stamp of this age differ by Recovery.
MaxAge == Recovery + MaxHold

TypeOK ==
    /\ failures \in 0..MaxFailures
    /\ sinceFailure \in 0..MaxAge
    /\ at \in [Handlers -> Stages]
    /\ held \in [Handlers -> 0..MaxHold]
    /\ sinceCounted \in 0..MaxAge

\* last_failure starts as 0, long before any real time.
Init ==
    /\ failures = 0
    /\ sinceFailure = MaxAge
    /\ at = [h \in Handlers |-> "idle"]
    /\ held = [h \in Handlers |-> 0]
    /\ sinceCounted = MaxAge

-----------------------------------------------------------------------------
UpTo(bound, n) == IF n < bound THEN n ELSE bound

Tripped(n) == n >= Threshold

\* Mutant: an open circuit never gives the upstream another chance.
MutantRecent(age) == TRUE

\* "now.saturating_sub(last) < self.recovery_secs"
Recent(age) == age < Recovery

\* The age of the last failure for whoever holds a clock reading of this age.
AgeBy(reading) == IF reading < sinceFailure THEN sinceFailure - reading ELSE 0

\* is_open as a caller sees it when nobody else moves.
IsOpen == Tripped(failures) /\ Recent(sinceFailure)

\* is_open, the load of the count: below the threshold the request goes on.
LoadFailures(h) ==
    /\ at[h] = "idle"
    /\ at' = [at EXCEPT ![h] = IF Tripped(failures) THEN "timing" ELSE "upstream"]
    /\ UNCHANGED <<failures, sinceFailure, held, sinceCounted>>

\* now_secs(), in is_open and on the right-hand side of record_failure's store.
ReadNow(h, from, to) ==
    /\ at[h] = from
    /\ at' = [at EXCEPT ![h] = to]
    /\ UNCHANGED <<failures, sinceFailure, held, sinceCounted>>

\* is_open, the comparison: an open circuit answers 503.
ReadLastFailure(h) ==
    /\ at[h] = "comparing"
    /\ at' = [at EXCEPT ![h] = IF Recent(AgeBy(held[h])) THEN "idle" ELSE "upstream"]
    /\ held' = [held EXCEPT ![h] = 0]
    /\ UNCHANGED <<failures, sinceFailure, sinceCounted>>

\* The verification gateway says no before anything is sent upstream.
Refuse(h) ==
    /\ at[h] = "upstream"
    /\ at' = [at EXCEPT ![h] = "idle"]
    /\ UNCHANGED <<failures, sinceFailure, held, sinceCounted>>

\* Mutant: a success makes up for one failure.
MutantCleared == failures - 1

Cleared == 0

\* The upstream answered and its body was read: record_success.
RecordSuccess(h) ==
    /\ at[h] = "upstream"
    /\ failures' = Cleared
    /\ at' = [at EXCEPT ![h] = "idle"]
    /\ UNCHANGED <<sinceFailure, held, sinceCounted>>

\* The upstream answered but its body could not be read: neither a success
\* nor a failure is recorded.
BodyError(h) ==
    /\ at[h] = "upstream"
    /\ at' = [at EXCEPT ![h] = "idle"]
    /\ UNCHANGED <<failures, sinceFailure, held, sinceCounted>>

\* One more failure; counts beyond MaxFailures are not told apart.
OneMore(n) == UpTo(MaxFailures, n + 1)

\* No answer, or a timeout: the first half of record_failure.
CountFailure(h) ==
    /\ at[h] = "upstream"
    /\ failures' = OneMore(failures)
    /\ sinceCounted' = 0
    /\ at' = [at EXCEPT ![h] = "stamping"]
    /\ UNCHANGED <<sinceFailure, held>>

\* Mutant: only the failure that trips the breaker is timed.
MutantAgeStamped(reading) == IF failures = Threshold THEN reading ELSE sinceFailure

\* What is stored is the second that was read, however long ago.
AgeStamped(reading) == reading

\* The second half of record_failure, under the mutex.
StampFailure(h) ==
    /\ at[h] = "locking"
    /\ sinceFailure' = AgeStamped(held[h])
    /\ held' = [held EXCEPT ![h] = 0]
    /\ at' = [at EXCEPT ![h] = "idle"]
    /\ UNCHANGED <<failures, sinceCounted>>

\* A second passes; a handler that has read the clock is not kept from the
\* mutex for more than MaxHold of them.
Tick ==
    /\ \A h \in Handlers : at[h] \in Holding => held[h] < MaxHold
    /\ sinceFailure' = UpTo(MaxAge, sinceFailure + 1)
    /\ sinceCounted' = UpTo(MaxAge, sinceCounted + 1)
    /\ held' = [h \in Handlers |-> IF at[h] \in Holding THEN held[h] + 1 ELSE 0]
    /\ UNCHANGED <<failures, at>>

\* What a handler does once it has a request; the upstream client's timeout
\* sees to it that it gets some outcome.
Handle(h) ==
    \/ ReadNow(h, "timing", "comparing")
    \/ ReadNow(h, "stamping", "locking")
    \/ ReadLastFailure(h)
    \/ Refuse(h)
    \/ RecordSuccess(h)
    \/ BodyError(h)
    \/ CountFailure(h)
    \/ StampFailure(h)

Next ==
    \/ \E h \in Handlers : LoadFailures(h) \/ Handle(h)
    \/ Tick

Spec == Init /\ [][Next]_vars

\* Time passes and a handler that runs goes on; requests need not arrive.
FairSpec == Spec /\ WF_vars(Tick) /\ \A h \in Handlers : WF_vars(Handle(h))

-----------------------------------------------------------------------------
\* Nobody is inside record_failure.
Settled == \A h \in Handlers : at[h] \notin {"stamping", "locking"}

\* Once no handler is inside record_failure, Threshold failures in a row keep
\* the circuit open for Recovery seconds after the last of them, less the
\* time a handler may hold a reading of the clock: an older stamp that
\* overwrites a newer one costs no more than that.
OpenWhenSettled ==
    (/\ Settled
     /\ Tripped(failures)
     /\ sinceCounted + MaxHold < Recovery)
        => IsOpen

\* The circuit closes again, by a late success or by the passing of time, even
\* if requests that were already on their way keep failing and no new request
\* comes to try the upstream.
NeverStuckOpen == []<>~IsOpen
=============================================================================
