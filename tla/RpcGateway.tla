----------------------------- MODULE RpcGateway -----------------------------
(***************************************************************************)
(* The request pipeline of a daemon node (rpc_handler in rpc_proxy.rs):    *)
(* admission, cache, the global semaphore of the parallel executor, shard  *)
(* routing, the local answer or the upstream call, and the reward credit.  *)
(*                                                                         *)
(* A method of another shard is sent to the best node of the geo router.   *)
(* The only node that is ever registered there is this node itself         *)
(* (main.rs), so the request comes back through the front door, while the  *)
(* handler that sent it keeps its permit and waits without a timeout.  The *)
(* nested request carries no x-forwarded-for and is rate limited as        *)
(* "unknown", together with the clients that come without a proxy.         *)
(*                                                                         *)
(* A client that goes away takes its handler with it: the server drops it  *)
(* where it awaits, its permit is released, and the connection it held to  *)
(* a nested request closes.                                                *)
(*                                                                         *)
(* The ledger is history: what record_request has been called for on       *)
(* behalf of the request a client has sent last, by its own handler and by *)
(* the nested ones, those included that it no longer waits for.            *)
(***************************************************************************)
EXTENDS Integers, FiniteSetsExt

CONSTANTS Clients,
          Direct,          \* clients without x-forwarded-for
          Onion,           \* clients that may come by /onion
          Nested,          \* slots for requests the node sends to itself
          Methods,
          OwnShard,        \* methods for which should_handle says yes
          Intercepted,     \* getSlot
          Cached,          \* methods with a cache tier
          Unverified,      \* the reads that skip verification
          MaxConcurrent,   \* permits of the global semaphore
          Limit,           \* requests of "unknown" admitted in a window
          MaxSeen,         \* bound: older requests are not told apart
          MaxFalls         \* bound: failed forwards for one client request

ASSUME GatewayAssumption ==
    /\ IsFiniteSet(Clients) /\ IsFiniteSet(Nested) /\ Clients \cap Nested = {}
    /\ Direct \subseteq Clients /\ Onion \subseteq Clients \ Direct
    /\ Methods # {}
    /\ OwnShard \cup Intercepted \cup Cached \cup Unverified \subseteq Methods
    /\ MaxConcurrent \in Nat \ {0} /\ Limit \in Nat
    /\ MaxSeen \in Nat \ {0} /\ MaxFalls \in Nat
    /\ Cardinality(Nested) >= MaxConcurrent

Nobody == "nobody"
Requests == Clients \cup Nested
ASSUME NobodyAssumption == Nobody \notin Requests

VARIABLES req,       \* every request: its stage, method, caller and reply
          permits,   \* free permits of the global semaphore
          cache,     \* methods with a live cache entry
          count,     \* requests of "unknown" in the current window
          seen,      \* history: windows begun since a nested request was let in
          root,      \* history: the client a nested request is for
          paid,      \* history: credits for the request of every client
          fell       \* history: forwards that failed for it

ledger == <<root, paid, fell>>
vars == <<req, permits, cache, count, seen, ledger>>

\* A handler in one of these stages owns its permit.
Holding == {"routing", "forwarding", "local", "stored", "verifying", "upstream", "crediting"}
\* A handler in one of these stages is suspended and can be dropped.
Awaiting == {"relaying", "hit", "waiting", "forwarding", "local", "stored", "verifying",
             "upstream", "crediting"}
\* A request in one of these stages has been let in by the rate limit.
Admitted == {"lookup", "hit", "waiting"} \cup Holding
Running == Holding \cup Awaiting \cup {"peeling", "entered", "lookup"}
Stages == Running \cup {"idle", "answered"}
Replies == {"none", "ok", "relayed", "refused", "failed"}
Layers == {"unreadable", "exit", "relay", "unknown hop"}
Verdicts == {"VALID", "AMBIGUOUS", "INVALID", "none"}

TypeOK ==
    /\ req \in [Requests -> [at : Stages, method : Methods,
                             caller : Requests \cup {Nobody}, reply : Replies]]
    /\ permits \in 0..MaxConcurrent
    /\ cache \subseteq Cached
    /\ count \in Nat
    /\ seen \in [Nested -> 0..MaxSeen]
    /\ root \in [Nested -> Clients \cup {Nobody}]
    /\ paid \in [Clients -> Nat]
    /\ fell \in [Clients -> 0..MaxFalls]

Incoming(stage, m, caller) ==
    [at |-> stage, method |-> m, caller |-> caller, reply |-> "none"]

\* No request.
Free == Incoming("idle", CHOOSE m \in Methods : TRUE, Nobody)

Init ==
    /\ req = [r \in Requests |-> Free]
    /\ permits = MaxConcurrent
    /\ cache = {}
    /\ count = 0
    /\ seen = [n \in Nested |-> 0]
    /\ root = [n \in Nested |-> Nobody]
    /\ paid = [c \in Clients |-> 0]
    /\ fell = [c \in Clients |-> 0]

-----------------------------------------------------------------------------
At(r, stage) == req[r].at = stage
GoTo(r, stage) == req' = [req EXCEPT ![r].at = stage]
Answer(r, reply) == req' = [req EXCEPT ![r].at = "answered", ![r].reply = reply]

\* The client whose request r is, or is for; nobody's once that one is over.
Root(r) == IF r \in Clients THEN r ELSE root[r]

\* One more in the ledger of r's client.
Entered(book, r) ==
    [c \in Clients |-> IF c = Root(r) THEN book[c] + 1 ELSE book[c]]

\* Mutant: a handler that is dropped while it forwards keeps its permit.
MutantForgotten(r) ==
    IF req[r].at \in Holding \ {"forwarding"} THEN permits + 1 ELSE permits

\* The free permits once r's handler has returned or was dropped.
Released(r) == IF req[r].at \in Holding THEN permits + 1 ELSE permits

\* The ledger of c starts over: what is still under way for its last request
\* counts for nobody.
Clear(c) ==
    /\ root' = [n \in Nested |-> IF root[n] = c THEN Nobody ELSE root[n]]
    /\ paid' = [paid EXCEPT ![c] = 0]
    /\ fell' = [fell EXCEPT ![c] = 0]

\* A request of a client.
Arrive(c, m) ==
    /\ req[c].at \in {"idle", "answered"}
    /\ req' = [req EXCEPT ![c] = Incoming("entered", m, Nobody)]
    /\ Clear(c)
    /\ UNCHANGED <<permits, cache, count, seen>>

\* An onion layer of a client.
ArriveByOnion(c, m) ==
    /\ c \in Onion
    /\ req[c].at \in {"idle", "answered"}
    /\ req' = [req EXCEPT ![c] = Incoming("peeling", m, Nobody)]
    /\ Clear(c)
    /\ UNCHANGED <<permits, cache, count, seen>>

\* onion_handler.  A layer that cannot be peeled is a bad request; the exit, and
\* a relay whose next hop is not in the peer registry, calls rpc_handler with
\* the address "anon-routed"; a relay passes the inner layer on.
Peel(r, layer) ==
    /\ At(r, "peeling")
    /\ CASE layer = "unreadable" -> Answer(r, "refused")
         [] layer \in {"exit", "unknown hop"} -> GoTo(r, "entered")
         [] layer = "relay" -> GoTo(r, "relaying")
    /\ UNCHANGED <<permits, cache, count, seen, ledger>>

\* The next hop answers, or the connection fails: 502.  There is no timeout.
RelayEnds(r, reply) ==
    /\ At(r, "relaying")
    /\ Answer(r, reply)
    /\ UNCHANGED <<permits, cache, count, seen, ledger>>

\* Mutant: the node trusts itself.
MutantUnknown(r) == r \in Direct

\* extract_ip finds no x-forwarded-for.
Unknown(r) == r \in Nested \cup Direct

\* Low battery, a ban, the rate limit of the client's own address, a payload
\* that is blocked or does not parse.
Refuse(r) ==
    /\ At(r, "entered")
    /\ Answer(r, "refused")
    /\ UNCHANGED <<permits, cache, count, seen, ledger>>

\* The pipeline up to the cache.  Requests of "unknown" are counted together;
\* counts beyond Limit are not told apart.
Admit(r) ==
    /\ At(r, "entered")
    /\ IF Unknown(r) /\ count >= Limit
       THEN Answer(r, "refused") /\ UNCHANGED count
       ELSE /\ GoTo(r, "lookup")
            /\ count' = IF Unknown(r) THEN count + 1 ELSE count
    /\ seen' = [n \in Nested |-> IF n = r THEN 0 ELSE seen[n]]
    /\ UNCHANGED <<permits, cache, ledger>>

\* A new window begins for "unknown", whoever is still inside.
NewWindow ==
    /\ count > 0
    /\ count' = 0
    /\ seen' = [n \in Nested |-> IF req[n].at \notin Admitted THEN 0
                                 ELSE IF seen[n] < MaxSeen THEN seen[n] + 1 ELSE MaxSeen]
    /\ UNCHANGED <<req, permits, cache, ledger>>

\* get_cached.
Lookup(r) ==
    /\ At(r, "lookup")
    /\ GoTo(r, IF req[r].method \in cache THEN "hit" ELSE "waiting")
    /\ UNCHANGED <<permits, cache, count, seen, ledger>>

\* record_request; the lock it takes is an await.
RecordRequest(r) == paid' = Entered(paid, r) /\ UNCHANGED <<root, fell>>

\* A cached value is paid for like any other.
ServeHit(r) ==
    /\ At(r, "hit")
    /\ RecordRequest(r)
    /\ Answer(r, "ok")
    /\ UNCHANGED <<permits, cache, count, seen>>

\* A cache entry runs out.
Expire(m) ==
    /\ m \in cache
    /\ cache' = cache \ {m}
    /\ UNCHANGED <<req, permits, count, seen, ledger>>

\* ParallelExecutor::acquire.
Acquire(r) ==
    /\ At(r, "waiting")
    /\ permits > 0
    /\ permits' = permits - 1
    /\ GoTo(r, "routing")
    /\ UNCHANGED <<cache, count, seen, ledger>>

StayLocal(r) ==
    /\ At(r, "routing")
    /\ req[r].method \in OwnShard
    /\ GoTo(r, "local")
    /\ UNCHANGED <<permits, cache, count, seen, ledger>>

\* Mutant: forwarding is paid for too.
MutantForward(r) ==
    /\ At(r, "routing")
    /\ req[r].method \notin OwnShard
    /\ \E n \in Nested :
        /\ At(n, "idle")
        /\ req' = [req EXCEPT ![r].at = "forwarding",
                              ![n] = Incoming("entered", req[r].method, r)]
        /\ root' = [root EXCEPT ![n] = Root(r)]
    /\ paid' = Entered(paid, r)
    /\ UNCHANGED <<permits, cache, count, seen, fell>>

\* find_best_node answers with this node, and the body is posted to it.
Forward(r) ==
    /\ At(r, "routing")
    /\ req[r].method \notin OwnShard
    /\ \E n \in Nested :
        /\ At(n, "idle")
        /\ req' = [req EXCEPT ![r].at = "forwarding",
                              ![n] = Incoming("entered", req[r].method, r)]
        /\ root' = [root EXCEPT ![n] = Root(r)]
    /\ UNCHANGED <<permits, cache, count, seen, paid, fell>>

\* The nested request has been answered: its reply is passed on.
PassOn(r, n) ==
    /\ At(r, "forwarding")
    /\ At(n, "answered")
    /\ req[n].caller = r
    /\ req' = [req EXCEPT ![r].at = "answered", ![r].reply = req[n].reply, ![n] = Free]
    /\ root' = [root EXCEPT ![n] = Nobody]
    /\ permits' = Released(r)
    /\ UNCHANGED <<cache, count, seen, paid, fell>>

\* The requests once nobody waits for what r asked of this node.
Orphaned(r, rs) ==
    [q \in Requests |-> IF rs[q].caller = r THEN [rs[q] EXCEPT !.caller = Nobody] ELSE rs[q]]

\* The connection to the mesh node breaks: "falling back to local".  The nested
\* request may go on, and what it earns is for the same client.
FallBack(r) ==
    /\ At(r, "forwarding")
    /\ Root(r) \in Clients => fell[Root(r)] < MaxFalls
    /\ req' = Orphaned(r, [req EXCEPT ![r].at = "local"])
    /\ fell' = Entered(fell, r)
    /\ UNCHANGED <<permits, cache, count, seen, root, paid>>

\* The value of a method with a cache tier is kept.
Store(m) == cache' = IF m \in Cached THEN cache \cup {m} ELSE cache

\* getSlot is answered from the slot cache, and the answer is cached.
Intercept(r) ==
    /\ At(r, "local")
    /\ req[r].method \in Intercepted
    /\ Store(req[r].method)
    /\ GoTo(r, "stored")
    /\ UNCHANGED <<permits, count, seen, ledger>>

\* Then it is paid for.
CreditSlot(r) ==
    /\ At(r, "stored")
    /\ RecordRequest(r)
    /\ Answer(r, "ok")
    /\ permits' = Released(r)
    /\ UNCHANGED <<cache, count, seen>>

\* is_open (CircuitBreaker): 503.
CircuitOpen(r) ==
    /\ At(r, "local")
    /\ req[r].method \notin Intercepted
    /\ Answer(r, "refused")
    /\ permits' = Released(r)
    /\ UNCHANGED <<cache, count, seen, ledger>>

\* The circuit is closed and select_node has an upstream node: a method that is
\* not one of the listed reads is put to the verification gateway first.
GoUpstream(r) ==
    /\ At(r, "local")
    /\ req[r].method \notin Intercepted
    /\ GoTo(r, IF req[r].method \in Unverified THEN "upstream" ELSE "verifying")
    /\ UNCHANGED <<permits, cache, count, seen, ledger>>

\* verify_with_brahman.  Only a verdict that says INVALID, or none at all (no
\* connection, 50 ms passed, a body that is not JSON), stops the request: 403.
Verify(r, verdict) ==
    /\ At(r, "verifying")
    /\ IF verdict \in {"VALID", "AMBIGUOUS"}
       THEN GoTo(r, "upstream") /\ UNCHANGED permits
       ELSE Answer(r, "refused") /\ permits' = Released(r)
    /\ UNCHANGED <<cache, count, seen, ledger>>

\* No answer of the upstream node, or one whose body cannot be read: 502.
UpstreamFails(r) ==
    /\ At(r, "upstream")
    /\ Answer(r, "failed")
    /\ permits' = Released(r)
    /\ UNCHANGED <<cache, count, seen, ledger>>

\* The body has been read; the request is paid for before it is looked at.
UpstreamAnswers(r) ==
    /\ At(r, "upstream")
    /\ GoTo(r, "crediting")
    /\ UNCHANGED <<permits, cache, count, seen, ledger>>

\* record_request, then the body is parsed: JSON is cached and passed on,
\* anything else is answered with 502.
Credit(r, json) ==
    /\ At(r, "crediting")
    /\ RecordRequest(r)
    /\ Answer(r, IF json THEN "ok" ELSE "failed")
    /\ IF json THEN Store(req[r].method) ELSE UNCHANGED cache
    /\ permits' = Released(r)
    /\ UNCHANGED <<count, seen>>

\* The client of r goes away; what r asked of this node has lost its caller.
HangUp(c) ==
    /\ req[c].at \in Awaiting
    /\ req' = Orphaned(c, [req EXCEPT ![c] = Free])
    /\ Clear(c)
    /\ permits' = Released(c)
    /\ UNCHANGED <<cache, count, seen>>

\* A nested request without a caller is dropped where it awaits, or its
\* answer is.
Drop(n) ==
    /\ req[n].caller = Nobody
    /\ req[n].at \in Awaiting \cup {"answered"}
    /\ req' = Orphaned(n, [req EXCEPT ![n] = Free])
    /\ root' = [root EXCEPT ![n] = Nobody]
    /\ permits' = Released(n)
    /\ UNCHANGED <<cache, count, seen, paid, fell>>

\* What r's handler does by itself, once it runs.
Proceed(r) ==
    \/ \E layer \in Layers : Peel(r, layer)
    \/ Admit(r)
    \/ Lookup(r)
    \/ ServeHit(r)
    \/ StayLocal(r)
    \/ Forward(r)
    \/ \E n \in Nested : PassOn(r, n)
    \/ Intercept(r)
    \/ CreditSlot(r)
    \/ CircuitOpen(r)
    \/ GoUpstream(r)
    \/ \E verdict \in Verdicts : Verify(r, verdict)
    \/ UpstreamFails(r)
    \/ UpstreamAnswers(r)
    \/ \E json \in BOOLEAN : Credit(r, json)

Next ==
    \/ \E c \in Clients, m \in Methods : Arrive(c, m) \/ ArriveByOnion(c, m)
    \/ \E c \in Onion, reply \in {"relayed", "failed"} : RelayEnds(c, reply)
    \/ \E c \in Clients : HangUp(c)
    \/ \E r \in Requests : Refuse(r) \/ Acquire(r) \/ FallBack(r) \/ Proceed(r)
    \/ \E n \in Nested : Drop(n)
    \/ \E m \in Methods : Expire(m)
    \/ NewWindow

Spec == Init /\ [][Next]_vars

\* Handlers make progress: the runtime polls them, the upstream client and the
\* verification gateway time out, the server notices closed connections, and
\* the semaphore serves its waiters in turn.  Nothing makes a client hang up or
\* a connection to the node itself break.
FairSpec ==
    /\ Spec
    /\ \A r \in Requests : WF_vars(Proceed(r)) /\ SF_vars(Acquire(r))
    /\ \A n \in Nested : WF_vars(Drop(n))

-----------------------------------------------------------------------------
\* Whatever is forwarded, dropped or answered, permits are neither lost nor
\* released twice: the free ones are those no handler in the guarded part of
\* the pipeline holds.
PermitsConserved ==
    permits + Cardinality({r \in Requests : req[r].at \in Holding}) = MaxConcurrent

\* A forward that fails may leave its nested request at work, and both answer.
\* A client's request is paid for at least once when it is answered with a
\* value, at most once more than forwards have failed for it, and, when it was
\* refused or only relayed, at most for the nested requests it has left behind.
PaidPerAttempt ==
    \A c \in Clients :
        /\ paid[c] <= 1 + fell[c]
        /\ At(c, "answered") =>
            /\ req[c].reply = "ok" => paid[c] >= 1
            /\ req[c].reply \in {"refused", "relayed"} => paid[c] <= fell[c]

\* No permit is free, and every handler that has one waits for a nested request
\* that needs one too, or waits in turn.
Gridlocked ==
    /\ permits = 0
    /\ \A r \in Requests :
        /\ req[r].at \in Holding => At(r, "forwarding")
        /\ req[r].caller # Nobody => req[r].at \in {"forwarding", "waiting"}

\* Handlers keep their permits while they wait for nested requests that need
\* permits too, and nothing but the rate limit of "unknown" keeps these from
\* using up the semaphore: a gridlock takes as many windows as the limit needs
\* to let in one nested request for every permit, and a nested request that has
\* been inside for all of them.
GridlockTakesWindows ==
    Gridlocked =>
        \A k \in 0..(MaxSeen - 1) :
            (\A n \in Nested : req[n].at \in Admitted => seen[n] <= k)
                => MaxConcurrent <= Limit * (k + 1)

\* "ensuring 100% uptime": a client that waits is eventually answered.  (A
\* relayed onion layer has no timeout, so this is for requests that come by /.)
EveryRequestAnswered ==
    \A c \in Clients : (req[c].at \in Running) ~> (req[c].at \notin Running)
=============================================================================
