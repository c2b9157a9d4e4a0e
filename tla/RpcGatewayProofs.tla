-------------------------- MODULE RpcGatewayProofs --------------------------
(***************************************************************************)
(* Proofs about the request pipeline for any number of clients, permits    *)
(* and nested requests.  The first invariant says who waits for whom; most *)
(* steps are "plain": they move one request between stages that wait for   *)
(* nobody.  On it rest two counting arguments: a request that can still be *)
(* paid for is a token of its client, and a nested request that is inside  *)
(* was counted in one of the windows it has seen.                          *)
(***************************************************************************)
EXTENDS RpcGateway, FiniteSetTheorems, TLAPS

RequestRecords == [at : Stages, method : Methods, caller : Requests \cup {Nobody}, reply : Replies]

Types ==
    /\ req \in [Requests -> RequestRecords]
    /\ permits \in Nat
    /\ cache \subseteq Cached
    /\ count \in Nat
    /\ seen \in [Nested -> 0..MaxSeen]
    /\ root \in [Nested -> Clients \cup {Nobody}]
    /\ paid \in [Clients -> Nat]
    /\ fell \in [Clients -> 0..MaxFalls]

\* Only nested requests have a caller, which is one that forwards; it has no
\* second nested request, and one that forwards has one.
Chained ==
    /\ \A c \in Clients : req[c].caller = Nobody
    /\ \A n \in Nested : req[n].at = "idle" => req[n].caller = Nobody
    /\ \A n \in Nested : req[n].caller # Nobody => req[req[n].caller].at = "forwarding"
    /\ \A m, n \in Nested : req[m].caller = req[n].caller /\ req[n].caller # Nobody => m = n
    /\ \A r \in Requests : req[r].at = "forwarding" => \E n \in Nested : req[n].caller = r

Holders == {r \in Requests : req[r].at \in Holding}

GatewayInv == Types /\ Chained /\ PermitsConserved

\* The permits that a request in a stage holds.
Held(stage) == IF stage \in Holding THEN 1 ELSE 0

\* One request changes its stage, and its permit with it; the other ones stay.
MovesAlone(r) ==
    /\ \A q \in Requests \ {r} : req'[q].at = req[q].at
    /\ permits' = permits + Held(req[r].at) - Held(req'[r].at)

\* A step of one request between stages in which it waits for no nested request.
Plain(r) ==
    /\ req' \in [Requests -> RequestRecords]
    /\ \A q \in Requests \ {r} : req'[q] = req[q]
    /\ req'[r].caller = req[r].caller
    /\ req[r].at # "forwarding" /\ req'[r].at \notin {"forwarding", "idle"}
    /\ permits' = permits + Held(req[r].at) - Held(req'[r].at)

-----------------------------------------------------------------------------
\* Few requests are under way.
LEMMA HoldersAreFinite ==
    /\ IsFiniteSet(Requests)
    /\ IsFiniteSet(Holders) /\ Cardinality(Holders) \in Nat
<1>1. IsFiniteSet(Requests)
  BY GatewayAssumption, FS_Union DEF Requests
<1>2. Holders \subseteq Requests
  BY DEF Holders
<1> QED
  BY <1>1, <1>2, FS_Subset, FS_CardinalityType

\* The permit of a handler that moves goes where the handler goes.
LEMMA PermitsFollow ==
    ASSUME PermitsConserved, permits \in Nat, NEW r \in Requests, MovesAlone(r)
    PROVE  PermitsConserved'
<1>1. /\ permits + Cardinality(Holders) = MaxConcurrent
      /\ MaxConcurrent \in Nat /\ Cardinality(Holders) \in Nat /\ IsFiniteSet(Holders)
  BY GatewayAssumption, HoldersAreFinite DEF PermitsConserved, Holders
<1>2. CASE req[r].at \in Holding /\ req'[r].at \in Holding
  <2>1. Holders' = Holders
    BY <1>2 DEF MovesAlone, Holders
  <2>2. permits' = permits
    BY <1>1, <1>2 DEF MovesAlone, Held
  <2>3. permits' + Cardinality(Holders') = MaxConcurrent
    BY <1>1, <2>1, <2>2
  <2> QED
    BY <2>3 DEF PermitsConserved, Holders
<1>3. CASE req[r].at \notin Holding /\ req'[r].at \notin Holding
  <2>1. Holders' = Holders
    BY <1>3 DEF MovesAlone, Holders
  <2>2. permits' = permits
    BY <1>1, <1>3 DEF MovesAlone, Held
  <2>3. permits' + Cardinality(Holders') = MaxConcurrent
    BY <1>1, <2>1, <2>2
  <2> QED
    BY <2>3 DEF PermitsConserved, Holders
<1>4. CASE req[r].at \in Holding /\ req'[r].at \notin Holding
  <2>1. Holders' = Holders \ {r} /\ r \in Holders
    BY <1>4 DEF MovesAlone, Holders
  <2>2. Cardinality(Holders') = Cardinality(Holders) - 1
    BY <1>1, <2>1, FS_RemoveElement
  <2>3. permits' = permits + 1
    BY <1>4 DEF MovesAlone, Held
  <2>4. permits' + Cardinality(Holders') = MaxConcurrent
    BY <1>1, <2>2, <2>3
  <2> QED
    BY <2>4 DEF PermitsConserved, Holders
<1>5. CASE req[r].at \notin Holding /\ req'[r].at \in Holding
  <2>1. Holders' = Holders \cup {r} /\ r \notin Holders
    BY <1>5 DEF MovesAlone, Holders
  <2>2. Cardinality(Holders') = Cardinality(Holders) + 1
    BY <1>1, <2>1, FS_AddElement
  <2>3. permits' = permits - 1
    BY <1>5 DEF MovesAlone, Held
  <2>4. permits' + Cardinality(Holders') = MaxConcurrent
    BY <1>1, <2>2, <2>3
  <2> QED
    BY <2>4 DEF PermitsConserved, Holders
<1> QED
  BY <1>2, <1>3, <1>4, <1>5


\* A plain step keeps the chains and the permits.
LEMMA PlainKeeps ==
    ASSUME GatewayInv, NEW r \in Requests, Plain(r)
    PROVE  Chained' /\ PermitsConserved'
<1>1. Chained'
  <2>1. \A q \in Requests : req'[q].caller = req[q].caller /\ req[q].caller \in Requests \cup {Nobody}
    BY DEF GatewayInv, Types, Plain, RequestRecords
  <2>2. \A q \in Requests : req'[q].at = "forwarding" <=> req[q].at = "forwarding"
    BY DEF Plain
  <2>3. \A q \in Requests : req'[q].at = "idle" => req[q].at = "idle"
    BY DEF Plain
  <2>4. Nested \subseteq Requests /\ Clients \subseteq Requests
    BY DEF Requests
  <2> QED
    BY <2>1, <2>2, <2>3, <2>4 DEF GatewayInv, Chained
<1>2. PermitsConserved'
  <2>1. MovesAlone(r)
    BY DEF Plain, MovesAlone
  <2> QED
    BY <2>1, PermitsFollow DEF GatewayInv, Types
<1> QED
  BY <1>1, <1>2

\* A request goes to another stage; it has not been answered and is not now.
LEMMA GoToIsPlain ==
    ASSUME Types, NEW r \in Requests, NEW stage \in Stages \ {"forwarding", "idle", "answered"},
           req[r].at \notin {"forwarding", "answered"}, GoTo(r, stage),
           permits' = permits + Held(req[r].at) - Held(stage)
    PROVE  Plain(r)
<1>1. \A s \in Stages : [req EXCEPT ![r].at = s] \in [Requests -> RequestRecords]
  BY DEF Types, RequestRecords
<1>2. /\ req' \in [Requests -> RequestRecords]
      /\ \A q \in Requests \ {r} : req'[q] = req[q]
      /\ req'[r].at = stage /\ req'[r].caller = req[r].caller
  BY <1>1 DEF GoTo, Types, RequestRecords
<1> QED
  BY <1>2 DEF Plain

\* What answering changes.
LEMMA AnswerChanges ==
    ASSUME Types, NEW r \in Requests, NEW reply \in Replies, Answer(r, reply)
    PROVE  /\ req' \in [Requests -> RequestRecords]
           /\ \A q \in Requests \ {r} : req'[q] = req[q]
           /\ req'[r].caller = req[r].caller /\ req'[r].at = "answered"
           /\ req'[r].reply = reply
  BY DEF Answer, Types, RequestRecords, Stages

\* A handler answers for itself, and its permit is released.
LEMMA AnswerIsPlain ==
    ASSUME Types, NEW r \in Requests, NEW reply \in Replies,
           req[r].at # "forwarding", Answer(r, reply),
           permits' = permits + Held(req[r].at)
    PROVE  Plain(r)
<1>1. /\ req' \in [Requests -> RequestRecords]
      /\ \A q \in Requests \ {r} : req'[q] = req[q]
      /\ req'[r].caller = req[r].caller /\ req'[r].at = "answered"
  BY AnswerChanges
<1>2. Held(req'[r].at) = 0 /\ permits \in Int /\ Held(req[r].at) \in Int
  BY <1>1 DEF Held, Holding, Types
<1> QED
  BY <1>1, <1>2 DEF Plain

\* The stages in which a handler answers without a nested request.
LEMMA StagesOf ==
    /\ Holding \subseteq Stages /\ Awaiting \subseteq Stages
    /\ {"idle", "answered", "peeling", "entered", "lookup", "waiting", "relaying", "hit"} \subseteq Stages
    /\ {"idle", "answered", "peeling", "entered", "lookup", "waiting", "relaying", "hit"} \cap Holding = {}
  BY DEF Stages, Running, Holding, Awaiting

\* A handler that has answered has given its permit back.
LEMMA ReleasedIsHeld ==
    ASSUME Types, NEW r \in Requests
    PROVE  Released(r) = permits + Held(req[r].at)
  BY DEF Released, Held, Types

\* The steps that move one request, and wait for no nested one.
Arrives(r) == \E m \in Methods : r \in Clients /\ (Arrive(r, m) \/ ArriveByOnion(r, m))

\* Those of them that pay nothing, and those that do.
Quiet(r) ==
    \/ \E layer \in Layers : Peel(r, layer)
    \/ \E reply \in {"relayed", "failed"} : RelayEnds(r, reply)
    \/ Refuse(r) \/ Admit(r) \/ Lookup(r) \/ Acquire(r) \/ StayLocal(r)
    \/ Intercept(r) \/ CircuitOpen(r) \/ GoUpstream(r)
    \/ \E verdict \in Verdicts : Verify(r, verdict)
    \/ UpstreamFails(r) \/ UpstreamAnswers(r)

Pays(r) == ServeHit(r) \/ CreditSlot(r) \/ \E json \in BOOLEAN : Credit(r, json)

PlainStep(r) == Arrives(r) \/ Quiet(r) \/ Pays(r)

\* Every step of PlainStep is plain, and takes a permit only where one is left.
LEMMA PlainSteps ==
    ASSUME GatewayInv, NEW r \in Requests, PlainStep(r)
    PROVE  Plain(r) /\ permits' \in Nat
<1> USE DEF GatewayInv
<1>1. /\ permits \in Nat /\ \A stage : Held(stage) \in {0, 1}
      /\ {"ok", "relayed", "refused", "failed"} \subseteq Replies
  BY DEF Types, Held, Replies
<1>2. ASSUME Plain(r), req'[r].at \notin Holding
      PROVE  permits' \in Nat
  BY <1>1, <1>2 DEF Plain, Held
<1>3. ASSUME NEW m \in Methods, NEW stage \in {"entered", "peeling"}, r \in Clients,
             req[r].at \in {"idle", "answered"}, UNCHANGED permits,
             req' = [req EXCEPT ![r] = Incoming(stage, m, Nobody)]
      PROVE  Plain(r) /\ permits' \in Nat
  <2>1. Incoming(stage, m, Nobody) \in RequestRecords
    BY StagesOf DEF Incoming, RequestRecords, Replies
  <2>2. /\ req' \in [Requests -> RequestRecords] /\ \A q \in Requests \ {r} : req'[q] = req[q]
        /\ req'[r] = Incoming(stage, m, Nobody)
    BY <1>3, <2>1 DEF Types
  <2>3. /\ req'[r].at = stage /\ req'[r].caller = Nobody
        /\ req[r].caller = Nobody
    BY <1>3, <2>2 DEF Incoming, Chained
  <2>4. Held(req[r].at) = 0 /\ Held(stage) = 0
    BY <1>3 DEF Held, Holding
  <2>5. Plain(r)
    BY <1>1, <1>3, <2>2, <2>3, <2>4 DEF Plain
  <2> QED
    BY <1>1, <1>3, <2>5
<1>4. ASSUME NEW layer \in Layers, Peel(r, layer)
      PROVE  Plain(r) /\ permits' \in Nat
  <2>1. req[r].at = "peeling" /\ permits' = permits /\ Held(req[r].at) = 0
    BY <1>4 DEF Peel, At, Held, Holding
  <2>2. CASE layer = "unreadable"
    <3>1. Answer(r, "refused")
      BY <1>4, <2>2 DEF Peel
    <3> QED
      BY <1>1, <2>1, <3>1, AnswerIsPlain
  <2>3. CASE layer \in {"exit", "unknown hop"}
    <3>1. GoTo(r, "entered") /\ Held("entered") = 0 /\ "entered" \in Stages
      BY <1>4, <2>3, StagesOf DEF Peel, Held
    <3> QED
      BY <1>1, <2>1, <3>1, GoToIsPlain
  <2>4. CASE layer = "relay"
    <3>1. GoTo(r, "relaying") /\ Held("relaying") = 0 /\ "relaying" \in Stages
      BY <1>4, <2>4, StagesOf DEF Peel, Held
    <3> QED
      BY <1>1, <2>1, <3>1, GoToIsPlain
  <2> QED
    BY <2>2, <2>3, <2>4 DEF Layers
<1>5. ASSUME NEW reply \in {"relayed", "failed"}, RelayEnds(r, reply)
      PROVE  Plain(r) /\ permits' \in Nat
  <2>1. /\ req[r].at = "relaying" /\ permits' = permits /\ Held(req[r].at) = 0
        /\ Answer(r, reply)
    BY <1>5 DEF RelayEnds, At, Held, Holding
  <2> QED
    BY <1>1, <2>1, AnswerIsPlain
<1>6. CASE Refuse(r)
  <2>1. /\ req[r].at = "entered" /\ permits' = permits /\ Held(req[r].at) = 0
        /\ Answer(r, "refused")
    BY <1>6 DEF Refuse, At, Held, Holding
  <2> QED
    BY <1>1, <2>1, AnswerIsPlain
<1>7. CASE Admit(r)
  <2>1. /\ req[r].at = "entered" /\ permits' = permits /\ Held(req[r].at) = 0
        /\ Answer(r, "refused") \/ GoTo(r, "lookup")
        /\ Held("lookup") = 0 /\ "lookup" \in Stages
    BY <1>7, StagesOf DEF Admit, At, Held, Holding
  <2> QED
    BY <1>1, <2>1, AnswerIsPlain, GoToIsPlain
<1>8. CASE Lookup(r)
  <2>1. /\ req[r].at = "lookup" /\ permits' = permits /\ Held(req[r].at) = 0
        /\ GoTo(r, "hit") \/ GoTo(r, "waiting")
        /\ Held("hit") = 0 /\ "hit" \in Stages /\ Held("waiting") = 0 /\ "waiting" \in Stages
    BY <1>8, StagesOf DEF Lookup, At, Held, Holding
  <2> QED
    BY <1>1, <2>1, GoToIsPlain
<1>9. CASE ServeHit(r)
  <2>1. /\ req[r].at = "hit" /\ permits' = permits /\ Held(req[r].at) = 0
        /\ Answer(r, "ok")
    BY <1>9 DEF ServeHit, At, Held, Holding
  <2> QED
    BY <1>1, <2>1, AnswerIsPlain
<1>10. CASE Acquire(r)
  <2>1. /\ req[r].at = "waiting" /\ permits' = permits - 1 /\ permits > 0 /\ Held(req[r].at) = 0
        /\ GoTo(r, "routing") /\ Held("routing") = 1 /\ "routing" \in Stages
    BY <1>10, StagesOf DEF Acquire, At, Held, Holding
  <2> QED
    BY <1>1, <2>1, GoToIsPlain
<1>11. CASE StayLocal(r)
  <2>1. /\ req[r].at = "routing" /\ permits' = permits /\ Held(req[r].at) = 1
        /\ GoTo(r, "local") /\ Held("local") = 1 /\ "local" \in Stages
    BY <1>11, StagesOf DEF StayLocal, At, Held, Holding
  <2> QED
    BY <1>1, <2>1, GoToIsPlain
<1>12. CASE Intercept(r)
  <2>1. /\ req[r].at = "local" /\ permits' = permits /\ Held(req[r].at) = 1
        /\ GoTo(r, "stored") /\ Held("stored") = 1 /\ "stored" \in Stages
    BY <1>12, StagesOf DEF Intercept, At, Held, Holding
  <2> QED
    BY <1>1, <2>1, GoToIsPlain
<1>19. CASE CreditSlot(r)
  <2>1. req[r].at = "stored" /\ permits' = permits + Held(req[r].at) /\ Answer(r, "ok")
    BY <1>19, ReleasedIsHeld DEF CreditSlot, At
  <2> QED
    BY <1>1, <2>1, AnswerIsPlain
<1>13. CASE CircuitOpen(r)
  <2>1. req[r].at = "local" /\ permits' = permits + Held(req[r].at) /\ Answer(r, "refused")
    BY <1>13, ReleasedIsHeld DEF CircuitOpen, At
  <2> QED
    BY <1>1, <2>1, AnswerIsPlain
<1>14. CASE GoUpstream(r)
  <2>1. /\ req[r].at = "local" /\ permits' = permits /\ Held(req[r].at) = 1
        /\ GoTo(r, "upstream") \/ GoTo(r, "verifying")
        /\ Held("upstream") = 1 /\ "upstream" \in Stages /\ Held("verifying") = 1 /\ "verifying" \in Stages
    BY <1>14, StagesOf DEF GoUpstream, At, Held, Holding
  <2> QED
    BY <1>1, <2>1, GoToIsPlain
<1>15. ASSUME NEW verdict \in Verdicts, Verify(r, verdict)
       PROVE  Plain(r) /\ permits' \in Nat
  <2>1. /\ req[r].at = "verifying" /\ Held(req[r].at) = 1 /\ Held("upstream") = 1 /\ "upstream" \in Stages
        /\ \/ GoTo(r, "upstream") /\ permits' = permits
           \/ Answer(r, "refused") /\ permits' = permits + Held(req[r].at)
    BY <1>15, StagesOf, ReleasedIsHeld DEF Verify, At, Held, Holding
  <2> QED
    BY <1>1, <2>1, AnswerIsPlain, GoToIsPlain
<1>16. CASE UpstreamFails(r)
  <2>1. req[r].at = "upstream" /\ permits' = permits + Held(req[r].at) /\ Answer(r, "failed")
    BY <1>16, ReleasedIsHeld DEF UpstreamFails, At
  <2> QED
    BY <1>1, <2>1, AnswerIsPlain
<1>17. CASE UpstreamAnswers(r)
  <2>1. /\ req[r].at = "upstream" /\ permits' = permits /\ Held(req[r].at) = 1
        /\ GoTo(r, "crediting") /\ Held("crediting") = 1 /\ "crediting" \in Stages
    BY <1>17, StagesOf DEF UpstreamAnswers, At, Held, Holding
  <2> QED
    BY <1>1, <2>1, GoToIsPlain
<1>18. ASSUME NEW json \in BOOLEAN, Credit(r, json)
       PROVE  Plain(r) /\ permits' \in Nat
  <2>1. /\ req[r].at = "crediting" /\ permits' = permits + Held(req[r].at)
        /\ Answer(r, "ok") \/ Answer(r, "failed")
    BY <1>18, ReleasedIsHeld DEF Credit, At
  <2> QED
    BY <1>1, <2>1, AnswerIsPlain
<1> QED
  BY <1>3, <1>4, <1>5, <1>6, <1>7, <1>8, <1>9, <1>10, <1>11, <1>12, <1>13, <1>14, <1>15,
     <1>16, <1>17, <1>18, <1>19 DEF PlainStep, Arrives, Quiet, Pays, Arrive, ArriveByOnion

-----------------------------------------------------------------------------
\* An unused slot is a request nobody waits for.
LEMMA FreeIsARequest ==
    /\ Free \in RequestRecords
    /\ Free.at = "idle" /\ Free.caller = Nobody /\ Free.reply = "none"
<1>1. (CHOOSE m \in Methods : TRUE) \in Methods
  BY GatewayAssumption
<1> QED
  BY <1>1, StagesOf DEF Free, Incoming, RequestRecords, Replies

\* Orphaned takes callers away and changes nothing else.
LEMMA OrphanedFields ==
    ASSUME NEW r \in Requests, NEW rs \in [Requests -> RequestRecords]
    PROVE  /\ Orphaned(r, rs) \in [Requests -> RequestRecords]
           /\ \A q \in Requests :
                /\ Orphaned(r, rs)[q].at = rs[q].at
                /\ Orphaned(r, rs)[q].reply = rs[q].reply
                /\ rs[q].caller = r => Orphaned(r, rs)[q].caller = Nobody
                /\ rs[q].caller # r => Orphaned(r, rs)[q].caller = rs[q].caller
  BY DEF Orphaned, RequestRecords

\* One more entry in a book keeps it a book.
LEMMA EnteredBook ==
    ASSUME NEW book \in [Clients -> Nat], NEW r
    PROVE  /\ Entered(book, r) \in [Clients -> Nat]
           /\ \A c \in Clients : Entered(book, r)[c] = IF c = Root(r) THEN book[c] + 1 ELSE book[c]
  BY DEF Entered

\* The other variables keep their types.
LEMMA SideTypes ==
    ASSUME Types, [Next]_vars
    PROVE  /\ cache' \subseteq Cached /\ count' \in Nat
           /\ seen' \in [Nested -> 0..MaxSeen] /\ root' \in [Nested -> Clients \cup {Nobody}]
           /\ paid' \in [Clients -> Nat] /\ fell' \in [Clients -> 0..MaxFalls]
<1>0. MaxSeen \in Nat /\ MaxFalls \in Nat
  BY GatewayAssumption
<1>1. cache' \subseteq Cached
  BY DEF Types, Next, vars, Arrive, ArriveByOnion, RelayEnds, HangUp, Refuse, Acquire, FallBack, Drop, Expire,
         NewWindow, Proceed, Peel, Admit, Lookup, ServeHit, StayLocal, Forward, PassOn, Intercept, CreditSlot,
         CircuitOpen, GoUpstream, Verify, UpstreamFails, UpstreamAnswers, Credit, Store
<1>2. count' = count \/ count' = count + 1 \/ count' = 0
  BY DEF Next, vars, Arrive, ArriveByOnion, RelayEnds, HangUp, Refuse, Acquire, FallBack, Drop, Expire,
         NewWindow, Proceed, Peel, Admit, Lookup, ServeHit, StayLocal, Forward, PassOn, Intercept, CreditSlot,
         CircuitOpen, GoUpstream, Verify, UpstreamFails, UpstreamAnswers, Credit
<1>3. seen' \in [Nested -> 0..MaxSeen]
  <2>1. CASE seen' = seen
    BY <2>1 DEF Types
  <2>2. ASSUME NEW r \in Requests, Admit(r)
        PROVE  seen' \in [Nested -> 0..MaxSeen]
    BY <1>0, <2>2 DEF Admit, Types
  <2>3. CASE NewWindow
    BY <1>0, <2>3 DEF NewWindow, Types
  <2> QED
    BY <2>1, <2>2, <2>3
       DEF Next, vars, Arrive, ArriveByOnion, RelayEnds, HangUp, Refuse, Acquire, FallBack, Drop, Expire,
           Proceed, Peel, Lookup, ServeHit, StayLocal, Forward, PassOn, Intercept, CreditSlot,
           CircuitOpen, GoUpstream, Verify, UpstreamFails, UpstreamAnswers, Credit
<1>4. \/ UNCHANGED ledger
      \/ \E c \in Clients : Clear(c)
      \/ UNCHANGED <<root, fell>> /\ \E r \in Requests : paid' = Entered(paid, r)
      \/ UNCHANGED <<paid, fell>> /\ \E r \in Requests, n \in Nested : root' = [root EXCEPT ![n] = Root(r)]
      \/ UNCHANGED <<paid, fell>> /\ \E n \in Nested : root' = [root EXCEPT ![n] = Nobody]
      \/ \E r \in Requests : FallBack(r)
  BY DEF Next, vars, Arrive, ArriveByOnion, RelayEnds, HangUp, Refuse, Acquire, Drop, Expire,
         NewWindow, Proceed, Peel, Admit, Lookup, ServeHit, StayLocal, Forward, PassOn, Intercept, CreditSlot,
         CircuitOpen, GoUpstream, Verify, UpstreamFails, UpstreamAnswers, Credit, RecordRequest, ledger
<1>5. \A r \in Requests : Root(r) \in Clients \cup {Nobody}
  BY DEF Types, Root, Requests
<1>6. root' \in [Nested -> Clients \cup {Nobody}] /\ paid' \in [Clients -> Nat]
  <2>1. CASE UNCHANGED ledger
    BY <2>1 DEF ledger, Types
  <2>2. ASSUME NEW c \in Clients, Clear(c)
        PROVE  root' \in [Nested -> Clients \cup {Nobody}] /\ paid' \in [Clients -> Nat]
    BY <2>2 DEF Clear, Types
  <2>3. ASSUME NEW r \in Requests, paid' = Entered(paid, r), UNCHANGED <<root, fell>>
        PROVE  root' \in [Nested -> Clients \cup {Nobody}] /\ paid' \in [Clients -> Nat]
    BY <2>3, EnteredBook DEF Types
  <2>4. ASSUME NEW r \in Requests, NEW n \in Nested, UNCHANGED <<paid, fell>>,
               root' = [root EXCEPT ![n] = Root(r)] \/ root' = [root EXCEPT ![n] = Nobody]
        PROVE  root' \in [Nested -> Clients \cup {Nobody}] /\ paid' \in [Clients -> Nat]
    BY <1>5, <2>4 DEF Types
  <2>5. ASSUME NEW r \in Requests, FallBack(r)
        PROVE  root' \in [Nested -> Clients \cup {Nobody}] /\ paid' \in [Clients -> Nat]
    BY <2>5 DEF FallBack, Types
  <2>6. Nested \subseteq Requests
    BY DEF Requests
  <2> QED
    BY <1>4, <2>1, <2>2, <2>3, <2>4, <2>5, <2>6
<1>7. fell' \in [Clients -> 0..MaxFalls]
  <2>1. CASE UNCHANGED fell
    BY <2>1 DEF Types
  <2>2. ASSUME NEW c \in Clients, Clear(c)
        PROVE  fell' \in [Clients -> 0..MaxFalls]
    BY <1>0, <2>2 DEF Clear, Types
  <2>3. ASSUME NEW r \in Requests, FallBack(r)
        PROVE  fell' \in [Clients -> 0..MaxFalls]
    BY <1>0, <2>3 DEF FallBack, Entered, Types
  <2> QED
    BY <1>4, <2>1, <2>2, <2>3 DEF ledger
<1> QED
  BY <1>1, <1>2, <1>3, <1>6, <1>7 DEF Types

\* The handler that forwards, and its nested request, after Forward.
LEMMA ForwardKeeps ==
    ASSUME GatewayInv, NEW r \in Requests, Forward(r)
    PROVE  GatewayInv'
<1>1. PICK n \in Nested :
        /\ req[n].at = "idle"
        /\ req' = [req EXCEPT ![r].at = "forwarding", ![n] = Incoming("entered", req[r].method, r)]
  BY DEF Forward, At
<1>2. /\ req[r].at = "routing" /\ UNCHANGED <<permits, cache, count, seen, paid, fell>>
      /\ n \in Requests /\ n # r /\ r # Nobody
  BY <1>1, NobodyAssumption DEF Forward, At, Requests
<1>3. Incoming("entered", req[r].method, r) \in RequestRecords
  BY <1>2, StagesOf DEF GatewayInv, Types, Incoming, RequestRecords, Replies
<1>4. /\ req' \in [Requests -> RequestRecords]
      /\ \A q \in Requests \ {r, n} : req'[q] = req[q]
      /\ req'[r].at = "forwarding" /\ req'[r].caller = req[r].caller
      /\ req'[n].at = "entered" /\ req'[n].caller = r
  <2> DEFINE new == Incoming("entered", req[r].method, r)
  <2>1. new.at = "entered" /\ new.caller = r
    BY DEF Incoming
  <2> HIDE DEF new
  <2>2. [req EXCEPT ![r].at = "forwarding"] \in [Requests -> RequestRecords]
    BY StagesOf DEF GatewayInv, Types, RequestRecords, Holding
  <2>3. req' \in [Requests -> RequestRecords]
    BY <1>1, <1>2, <1>3, <2>2 DEF new
  <2>4. req'[n] = new /\ \A q \in Requests \ {r, n} : req'[q] = req[q]
    BY <1>1, <1>2 DEF new, GatewayInv, Types
  <2>5. req'[r].at = "forwarding" /\ req'[r].caller = req[r].caller
    BY <1>1, <1>2 DEF GatewayInv, Types, RequestRecords
  <2> QED
    BY <2>1, <2>3, <2>4, <2>5
<1>5. Types'
  <2>1. Next
    BY DEF Next, Proceed
  <2> QED
    BY <1>2, <1>4, <2>1, SideTypes DEF GatewayInv, Types
<1>6. req[n].caller = Nobody
  BY <1>1 DEF GatewayInv, Chained
<1>7. Chained'
  <2>1. \A c \in Clients : req'[c].caller = Nobody
    BY <1>2, <1>4, GatewayAssumption DEF GatewayInv, Chained, Requests
  <2>2. \A m \in Nested : m # n => req'[m].caller = req[m].caller /\ m \in Requests
    BY <1>4 DEF Requests
  <2>3. \A m \in Nested : m # n => req[m].caller # r
    BY <1>2 DEF GatewayInv, Chained
  <2>4. \A m \in Nested : req'[m].at = "idle" => req'[m].caller = Nobody
    BY <1>4, <2>2 DEF GatewayInv, Chained, Requests
  <2>5. \A m \in Nested : req'[m].caller # Nobody => req'[req'[m].caller].at = "forwarding"
    BY <1>1, <1>2, <1>4, <2>2 DEF GatewayInv, Types, Chained, RequestRecords
  <2>6. \A m, k \in Nested : req'[m].caller = req'[k].caller /\ req'[k].caller # Nobody => m = k
    BY <1>4, <2>2, <2>3 DEF GatewayInv, Chained
  <2>7. \A q \in Requests : req'[q].at = "forwarding" => \E m \in Nested : req'[m].caller = q
    <3> SUFFICES ASSUME NEW q \in Requests, req'[q].at = "forwarding"
                 PROVE  \E m \in Nested : req'[m].caller = q
      OBVIOUS
    <3>1. CASE q = r
      BY <1>4, <3>1
    <3>2. CASE q # r
      <4>1. req[q].at = "forwarding"
        BY <1>4, <3>2
      <4>2. PICK m \in Nested : req[m].caller = q
        BY <4>1 DEF GatewayInv, Chained
      <4> QED
        BY <1>6, <2>2, <4>2, NobodyAssumption
    <3> QED
      BY <3>1, <3>2
  <2> QED
    BY <2>1, <2>4, <2>5, <2>6, <2>7 DEF Chained
<1>9. PermitsConserved'
  <2>1. Held(req[r].at) = 1 /\ Held(req'[r].at) = 1 /\ Held(req[n].at) = 0 /\ Held(req'[n].at) = 0
    BY <1>1, <1>2, <1>4 DEF Held, Holding
  <2>2. {q \in Requests : req[q].at \in Holding}' = {q \in Requests : req[q].at \in Holding}
    BY <1>4, <2>1 DEF Held
  <2> QED
    BY <1>2, <2>2 DEF GatewayInv, PermitsConserved
<1> QED
  BY <1>5, <1>7, <1>9 DEF GatewayInv

\* A handler that falls back, hangs up or is dropped: nobody has it as caller then.
Leaves(r, rec) ==
    /\ req' \in [Requests -> RequestRecords]
    /\ req'[r].at = rec.at /\ req'[r].reply = rec.reply
    /\ \A q \in Requests \ {r} :
          req'[q].at = req[q].at /\ req'[q].reply = req[q].reply
    /\ \A q \in Requests : /\ req[q].caller = r => req'[q].caller = Nobody
                           /\ req[q].caller # r => req'[q].caller = req[q].caller

\* A handler that goes away orphans exactly the requests it has made.
LEMMA OrphanedLeaves ==
    ASSUME Types, NEW r \in Requests, NEW rec \in RequestRecords, rec.caller = req[r].caller,
           req' = Orphaned(r, [req EXCEPT ![r] = rec])
    PROVE  Leaves(r, rec)
<1> DEFINE rs == [req EXCEPT ![r] = rec]
<1>1. /\ rs \in [Requests -> RequestRecords] /\ rs[r] = rec
      /\ \A q \in Requests \ {r} : rs[q] = req[q]
  BY DEF Types
<1>2. req' = Orphaned(r, rs)
  OBVIOUS
<1> HIDE DEF rs
<1>3. req' \in [Requests -> RequestRecords]
  BY <1>1, <1>2, OrphanedFields
<1>4. ASSUME NEW q \in Requests
      PROVE  /\ req'[q].at = rs[q].at /\ req'[q].reply = rs[q].reply
             /\ req[q].caller = r => req'[q].caller = Nobody
             /\ req[q].caller # r => req'[q].caller = req[q].caller
  <2>1. rs[q].caller = req[q].caller
    BY <1>1
  <2>2. /\ Orphaned(r, rs)[q].at = rs[q].at
        /\ Orphaned(r, rs)[q].reply = rs[q].reply
        /\ rs[q].caller = r => Orphaned(r, rs)[q].caller = Nobody
        /\ rs[q].caller # r => Orphaned(r, rs)[q].caller = rs[q].caller
    BY <1>1, OrphanedFields
  <2> QED
    BY <1>2, <2>1, <2>2
<1>5. /\ req'[r].at = rec.at /\ req'[r].reply = rec.reply
      /\ \A q \in Requests \ {r} :
            req'[q].at = req[q].at /\ req'[q].reply = req[q].reply
  BY <1>1, <1>4
<1>6. \A q \in Requests : /\ req[q].caller = r => req'[q].caller = Nobody
                          /\ req[q].caller # r => req'[q].caller = req[q].caller
  BY <1>4
<1> QED
  BY <1>3, <1>5, <1>6 DEF Leaves

\* Whoever leaves hands its permit back and cuts a chain, but forks none.
LEMMA LeavingKeeps ==
    ASSUME GatewayInv, NEW r \in Requests, NEW rec \in RequestRecords, Leaves(r, rec),
           rec.at # "forwarding", rec.caller = req[r].caller,
           rec.at = "idle" => rec.caller = Nobody,
           permits' = permits + Held(req[r].at) - Held(rec.at)
    PROVE  Chained' /\ PermitsConserved' /\ req' \in [Requests -> RequestRecords]
<1>1. /\ req'[r].at = rec.at /\ req'[r].reply = rec.reply
      /\ \A q \in Requests \ {r} :
            req'[q].at = req[q].at /\ req'[q].reply = req[q].reply
  BY DEF Leaves
<1>2. \A q \in Requests : /\ req[q].caller = r => req'[q].caller = Nobody
                          /\ req[q].caller # r => req'[q].caller = req[q].caller
  BY DEF Leaves
<1>3. \A n \in Nested : n \in Requests
  BY DEF Requests
<1>4. Chained'
  <2>1. \A c \in Clients : req'[c].caller = Nobody
    BY <1>2 DEF GatewayInv, Chained, Requests
  <2>2. \A n \in Nested : req'[n].at = "idle" => req'[n].caller = Nobody
    <3> SUFFICES ASSUME NEW n \in Nested, req'[n].at = "idle"
                 PROVE  req'[n].caller = Nobody
      OBVIOUS
    <3>1. CASE n = r
      BY <1>1, <1>2, <1>3, <3>1
    <3>2. CASE n # r
      <4>1. req[n].caller = Nobody
        BY <1>1, <1>3, <3>2 DEF GatewayInv, Chained
      <4> QED
        BY <1>2, <1>3, <4>1
    <3> QED
      BY <3>1, <3>2
  <2>3. \A n \in Nested : req'[n].caller # Nobody => req'[req'[n].caller].at = "forwarding"
    <3> SUFFICES ASSUME NEW n \in Nested, req'[n].caller # Nobody
                 PROVE  req'[req'[n].caller].at = "forwarding"
      OBVIOUS
    <3>1. req'[n].caller = req[n].caller /\ req[n].caller # r /\ req[n].caller # Nobody
      BY <1>2 DEF Requests
    <3>2. req[n].caller \in Requests
      BY <3>1 DEF GatewayInv, Types, RequestRecords, Requests
    <3> QED
      BY <1>1, <3>1, <3>2 DEF GatewayInv, Chained
  <2>4. \A m, n \in Nested : req'[m].caller = req'[n].caller /\ req'[n].caller # Nobody => m = n
    <3> SUFFICES ASSUME NEW m \in Nested, NEW n \in Nested,
                        req'[m].caller = req'[n].caller, req'[n].caller # Nobody
                 PROVE  m = n
      OBVIOUS
    <3>1. req'[m].caller = req[m].caller /\ req'[n].caller = req[n].caller
      BY <1>2, <1>3
    <3>2. req[m].caller = req[n].caller /\ req[n].caller # Nobody => m = n
      BY DEF GatewayInv, Chained
    <3> QED
      BY <3>1, <3>2
  <2>5. \A q \in Requests : req'[q].at = "forwarding" => \E n \in Nested : req'[n].caller = q
    <3> SUFFICES ASSUME NEW q \in Requests, req'[q].at = "forwarding"
                 PROVE  \E n \in Nested : req'[n].caller = q
      OBVIOUS
    <3>1. q # r /\ req[q].at = "forwarding"
      BY <1>1
    <3>2. PICK n \in Nested : req[n].caller = q
      BY <3>1 DEF GatewayInv, Chained
    <3> QED
      BY <1>2, <3>1, <3>2 DEF Requests
  <2> QED
    BY <2>1, <2>2, <2>3, <2>4, <2>5 DEF Chained
<1>6. PermitsConserved'
  <2>1. MovesAlone(r)
    BY <1>1 DEF MovesAlone
  <2> QED
    BY <2>1, PermitsFollow DEF GatewayInv, Types
<1> QED
  BY <1>4, <1>6 DEF Leaves

\* The reply of a nested request goes to the caller.
LEMMA PassOnKeeps ==
    ASSUME GatewayInv, NEW r \in Requests, NEW n \in Nested, PassOn(r, n)
    PROVE  Chained' /\ PermitsConserved' /\ req' \in [Requests -> RequestRecords]
<1>1. /\ req[r].at = "forwarding" /\ req[n].at = "answered" /\ req[n].caller = r
      /\ n \in Requests /\ n # r /\ r # Nobody
      /\ permits' = permits + Held(req[r].at)
  BY ReleasedIsHeld, NobodyAssumption DEF PassOn, At, Requests, GatewayInv
<1>2. req[n].reply \in Replies
  BY <1>1 DEF GatewayInv, Types, RequestRecords
<1> DEFINE rec == [req[r] EXCEPT !.at = "answered", !.reply = req[n].reply]
<1>3. req' = [req EXCEPT ![r] = rec, ![n] = Free]
  BY DEF PassOn, GatewayInv, Types, RequestRecords
<1>4. rec.at = "answered" /\ rec.reply = req[n].reply /\ rec.caller = req[r].caller
  BY <1>1, <1>2 DEF GatewayInv, Types, RequestRecords
<1>5. rec \in RequestRecords
  <2>1. \A s \in Stages, p \in Replies :
          [req[r] EXCEPT !.at = s, !.reply = p] \in RequestRecords
    BY DEF GatewayInv, Types, RequestRecords
  <2>2. "answered" \in Stages
    BY StagesOf
  <2> QED
    BY <1>2, <2>1, <2>2, Zenon
<1> HIDE DEF rec
<1>6. /\ req' \in [Requests -> RequestRecords]
      /\ req'[r] = rec /\ req'[n] = Free /\ \A q \in Requests \ {r, n} : req'[q] = req[q]
  BY <1>1, <1>3, <1>5, FreeIsARequest DEF GatewayInv, Types
<1>7. Chained'
  <2>1. \A q \in Requests : q # n => req'[q].caller = req[q].caller
    BY <1>4, <1>6
  <2>2. \A m \in Nested : m # n => req[m].caller # r
    BY <1>1 DEF GatewayInv, Chained
  <2>3. \A m \in Nested : req[m].caller # n
    BY <1>1, NobodyAssumption DEF GatewayInv, Chained
  <2>4. \A c \in Clients : req'[c].caller = Nobody
    BY <2>1, <1>6, FreeIsARequest DEF GatewayInv, Chained, Requests
  <2>5. \A m \in Nested : req'[m].at = "idle" => req'[m].caller = Nobody
    BY <1>4, <1>6, FreeIsARequest DEF GatewayInv, Chained, Requests
  <2>6. \A m \in Nested : req'[m].caller # Nobody => req'[req'[m].caller].at = "forwarding"
    <3> SUFFICES ASSUME NEW m \in Nested, req'[m].caller # Nobody
                 PROVE  req'[req'[m].caller].at = "forwarding"
      OBVIOUS
    <3>1. m # n /\ req'[m].caller = req[m].caller
      BY <1>6, <2>1, FreeIsARequest DEF Requests
    <3>2. req[m].caller \in Requests \ {r, n}
      BY <2>2, <2>3, <3>1 DEF GatewayInv, Types, RequestRecords, Requests
    <3> QED
      BY <1>6, <3>1, <3>2 DEF GatewayInv, Chained
  <2>7. \A m, k \in Nested : req'[m].caller = req'[k].caller /\ req'[k].caller # Nobody => m = k
    BY <1>6, <2>1, FreeIsARequest DEF GatewayInv, Chained, Requests
  <2>8. \A q \in Requests : req'[q].at = "forwarding" => \E m \in Nested : req'[m].caller = q
    <3> SUFFICES ASSUME NEW q \in Requests, req'[q].at = "forwarding"
                 PROVE  \E m \in Nested : req'[m].caller = q
      OBVIOUS
    <3>1. q # r /\ q # n /\ req[q].at = "forwarding"
      BY <1>4, <1>6, FreeIsARequest
    <3>2. PICK m \in Nested : req[m].caller = q
      BY <3>1 DEF GatewayInv, Chained
    <3>3. m # n /\ m \in Requests
      BY <1>1, <3>1, <3>2 DEF Requests
    <3> QED
      BY <2>1, <3>2, <3>3
  <2> QED
    BY <2>4, <2>5, <2>6, <2>7, <2>8 DEF Chained
<1>9. PermitsConserved'
  <2> DEFINE H == {q \in Requests : req[q].at \in Holding}
  <2>1. r \in H /\ H' = H \ {r}
    BY <1>1, <1>4, <1>6, FreeIsARequest DEF Holding
  <2>2. IsFiniteSet(H) /\ Cardinality(H) \in Nat /\ permits + Cardinality(H) = MaxConcurrent
    BY HoldersAreFinite DEF Holders, GatewayInv, PermitsConserved
  <2>3. Cardinality(H') = Cardinality(H) - 1
    BY <2>1, <2>2, FS_RemoveElement
  <2>4. permits' = permits + 1 /\ permits \in Nat
    BY <1>1 DEF Held, Holding, GatewayInv, Types
  <2>5. permits' + Cardinality(H') = MaxConcurrent
    BY <2>2, <2>3, <2>4
  <2> QED
    BY <2>5 DEF PermitsConserved
<1> QED
  BY <1>6, <1>7, <1>9

-----------------------------------------------------------------------------
\* All permits are free and nothing is forwarded at the start.
LEMMA GatewayInit == Init => GatewayInv
<1> SUFFICES ASSUME Init
             PROVE  GatewayInv
  OBVIOUS
<1>1. req \in [Requests -> RequestRecords] /\ \A r \in Requests : req[r] = Free
  BY FreeIsARequest DEF Init
<1>2. Types
  BY <1>1, GatewayAssumption DEF Init, Types
<1>3. Chained
  BY <1>1, FreeIsARequest DEF Chained, Requests
<1>5. PermitsConserved
  <2>1. {r \in Requests : req[r].at \in Holding} = {}
    BY <1>1, FreeIsARequest DEF Holding
  <2>2. Cardinality({r \in Requests : req[r].at \in Holding}) = 0
    BY <2>1, FS_EmptySet
  <2> QED
    BY <2>2, GatewayAssumption DEF Init, PermitsConserved
<1> QED
  BY <1>2, <1>3, <1>5 DEF GatewayInv

\* Plain steps, forwarding, passing an answer on and leaving each keep it.
LEMMA GatewayStep == GatewayInv /\ [Next]_vars => GatewayInv'
<1> SUFFICES ASSUME GatewayInv, [Next]_vars
             PROVE  GatewayInv'
  OBVIOUS
<1>1. /\ cache' \subseteq Cached /\ count' \in Nat
      /\ seen' \in [Nested -> 0..MaxSeen] /\ root' \in [Nested -> Clients \cup {Nobody}]
      /\ paid' \in [Clients -> Nat] /\ fell' \in [Clients -> 0..MaxFalls]
  BY SideTypes DEF GatewayInv
<1>2. ASSUME NEW r \in Requests, PlainStep(r)
      PROVE  GatewayInv'
  <2>1. Plain(r) /\ permits' \in Nat
    BY <1>2, PlainSteps
  <2>2. Chained' /\ PermitsConserved'
    BY <2>1, PlainKeeps
  <2> QED
    BY <1>1, <2>1, <2>2 DEF Plain, GatewayInv, Types
<1>3. ASSUME NEW r \in Requests, Forward(r)
      PROVE  GatewayInv'
  BY <1>3, ForwardKeeps
<1>4. ASSUME NEW r \in Requests, NEW n \in Nested, PassOn(r, n)
      PROVE  GatewayInv'
  <2>1. permits' \in Nat
    BY <1>4 DEF PassOn, Released, GatewayInv, Types
  <2> QED
    BY <1>1, <1>4, <2>1, PassOnKeeps DEF GatewayInv, Types
<1>5. ASSUME NEW r \in Requests, FallBack(r)
      PROVE  GatewayInv'
  <2> DEFINE rec == [req[r] EXCEPT !.at = "local"]
  <2>1. rec \in RequestRecords /\ rec.at = "local" /\ rec.caller = req[r].caller
    BY StagesOf DEF GatewayInv, Types, RequestRecords, Holding
  <2>2. [req EXCEPT ![r].at = "local"] = [req EXCEPT ![r] = rec]
    BY DEF GatewayInv, Types, RequestRecords
  <2>3. req' = Orphaned(r, [req EXCEPT ![r] = rec]) /\ permits' = permits /\ req[r].at = "forwarding"
    BY <1>5, <2>2 DEF FallBack, At
  <2> HIDE DEF rec
  <2>4. Held(req[r].at) = 1 /\ Held(rec.at) = 1 /\ permits \in Nat
    BY <2>1, <2>3 DEF GatewayInv, Held, Holding, Types
  <2>5. Leaves(r, rec)
    BY <2>1, <2>3, OrphanedLeaves DEF GatewayInv
  <2>6. permits' = permits + Held(req[r].at) - Held(rec.at)
    BY <2>3, <2>4
  <2>7. Chained' /\ PermitsConserved' /\ req' \in [Requests -> RequestRecords]
    BY <2>1, <2>4, <2>5, <2>6, LeavingKeeps
  <2> QED
    BY <1>1, <2>3, <2>4, <2>7 DEF GatewayInv, Types
<1>6. ASSUME NEW r \in Requests, HangUp(r) \/ Drop(r), req[r].caller = Nobody
      PROVE  GatewayInv'
  <2>1. req' = Orphaned(r, [req EXCEPT ![r] = Free]) /\ permits' = permits + Held(req[r].at)
    BY <1>6, ReleasedIsHeld DEF HangUp, Drop, GatewayInv
  <2>2. Held(Free.at) = 0 /\ permits \in Nat /\ Held(req[r].at) \in Nat
    BY FreeIsARequest DEF Held, Holding, GatewayInv, Types
  <2>3. Leaves(r, Free)
    BY <1>6, <2>1, OrphanedLeaves, FreeIsARequest DEF GatewayInv
  <2>4. permits' = permits + Held(req[r].at) - Held(Free.at)
    BY <2>1, <2>2
  <2>5. Chained' /\ PermitsConserved' /\ req' \in [Requests -> RequestRecords]
    BY <1>6, <2>2, <2>3, <2>4, LeavingKeeps, FreeIsARequest
  <2>6. permits' \in Nat
    BY <2>1, <2>2
  <2> QED
    BY <1>1, <2>5, <2>6 DEF GatewayInv, Types
<1>7. CASE UNCHANGED <<req, permits>>
  BY <1>1, <1>7 DEF GatewayInv, Types, Chained, PermitsConserved
<1>8. ASSUME NEW c \in Clients
      PROVE  c \in Requests /\ req[c].caller = Nobody
  BY DEF Requests, GatewayInv, Chained
<1>9. CASE \E c \in Clients, m \in Methods : Arrive(c, m) \/ ArriveByOnion(c, m)
  BY <1>2, <1>8, <1>9 DEF PlainStep, Arrives
<1>10. CASE \E c \in Onion, reply \in {"relayed", "failed"} : RelayEnds(c, reply)
  BY <1>2, <1>8, <1>10, GatewayAssumption DEF PlainStep, Quiet
<1>11. CASE \E c \in Clients : HangUp(c)
  BY <1>6, <1>8, <1>11
<1>12. CASE \E r \in Requests : Refuse(r) \/ Acquire(r) \/ FallBack(r) \/ Proceed(r)
  BY <1>2, <1>3, <1>4, <1>5, <1>12 DEF PlainStep, Quiet, Pays, Proceed
<1>13. CASE \E n \in Nested : Drop(n)
  BY <1>6, <1>13 DEF Drop, Requests
<1>14. CASE (\E m \in Methods : Expire(m)) \/ NewWindow \/ UNCHANGED vars
  BY <1>7, <1>14 DEF Expire, NewWindow, vars
<1> QED
  BY <1>9, <1>10, <1>11, <1>12, <1>13, <1>14 DEF Next

\* Permits and chains are in order in every state.
LEMMA GatewayInvariant == Spec => []GatewayInv
  BY GatewayInit, GatewayStep, PTL DEF Spec

-----------------------------------------------------------------------------
\* However requests are forwarded, dropped, refused or answered, rpc_handler
\* neither loses a permit of the global semaphore nor releases one twice.
THEOREM PermitsAreConserved == Spec => []PermitsConserved
  BY GatewayInvariant, PTL DEF GatewayInv

\* The free permits are never negative nor more than the semaphore was made with,
\* and every request is in one of the stages of the pipeline.
THEOREM GatewayTypes == Spec => []TypeOK
<1>1. GatewayInv => TypeOK
  <2> SUFFICES ASSUME GatewayInv
               PROVE  TypeOK
    OBVIOUS
  <2>1. permits <= MaxConcurrent
    BY HoldersAreFinite, GatewayAssumption DEF GatewayInv, Types, PermitsConserved, Holders
  <2>2. permits \in 0..MaxConcurrent
    BY <2>1, GatewayAssumption DEF GatewayInv, Types
  <2> QED
    BY <2>2 DEF GatewayInv, Types, TypeOK, RequestRecords
<1> QED
  BY <1>1, GatewayInvariant, PTL

-----------------------------------------------------------------------------
\* A request that can still be paid for, or whose reply says that it was not:
\* it carries a token of its client.  A handler that forwards has handed its
\* token to the nested request.
Token(rec) ==
    \/ rec.at \in Running \ {"forwarding"}
    \/ rec.at = "answered" /\ rec.reply \in {"refused", "relayed"}

Tokens(c) == {r \in Requests : Root(r) = c /\ Token(req[r])}

\* A failed forward is the one way to get a second token.
Budget == \A c \in Clients : paid[c] + Cardinality(Tokens(c)) <= 1 + fell[c]

\* A nested request is for the client its caller is for, and a value that was
\* given was paid for.
Rooted ==
    /\ \A n \in Nested : req[n].caller # Nobody => root[n] = Root(req[n].caller)
    /\ \A r \in Requests : (/\ req[r].at = "answered" /\ req[r].reply = "ok"
                            /\ Root(r) \in Clients) => paid[Root(r)] >= 1

\* Sets of requests can be counted.
LEMMA RequestsAreCounted ==
    ASSUME NEW S \in SUBSET Requests
    PROVE  /\ IsFiniteSet(S) /\ Cardinality(S) \in Nat
           /\ \A T \in SUBSET S : Cardinality(T) <= Cardinality(S) /\ Cardinality(T) \in Nat
  BY HoldersAreFinite, FS_Subset, FS_CardinalityType

\* One element more, at most.
LEMMA OneMoreCounted ==
    ASSUME NEW S \in SUBSET Requests, NEW x \in Requests, NEW T \in SUBSET (S \cup {x})
    PROVE  Cardinality(T) <= Cardinality(S) + 1
<1>1. S \cup {x} \in SUBSET Requests
  OBVIOUS
<1>2. IsFiniteSet(S) /\ Cardinality(S) \in Nat
  BY RequestsAreCounted
<1>3. Cardinality(S \cup {x}) = IF x \in S THEN Cardinality(S) ELSE Cardinality(S) + 1
  BY <1>2, FS_AddElement
<1>4. Cardinality(T) <= Cardinality(S \cup {x}) /\ Cardinality(T) \in Nat
  BY <1>1, RequestsAreCounted
<1> QED
  BY <1>2, <1>3, <1>4

\* One element less, at least.
LEMMA OneLessCounted ==
    ASSUME NEW S \in SUBSET Requests, NEW x \in S, NEW T \in SUBSET (S \ {x})
    PROVE  Cardinality(T) + 1 <= Cardinality(S)
<1>1. IsFiniteSet(S) /\ Cardinality(S) \in Nat
  BY RequestsAreCounted
<1>2. Cardinality(S \ {x}) = Cardinality(S) - 1
  BY <1>1, FS_RemoveElement
<1>3. S \ {x} \in SUBSET Requests
  OBVIOUS
<1>4. Cardinality(T) <= Cardinality(S \ {x}) /\ Cardinality(T) \in Nat
  BY <1>3, RequestsAreCounted
<1> QED
  BY <1>1, <1>2, <1>4

\* What a step may do to the account of a client.
Keeps(c) == paid'[c] = paid[c] /\ fell'[c] = fell[c] /\ Tokens(c)' \subseteq Tokens(c)
Spends(c) ==
    /\ paid'[c] = paid[c] + 1 /\ fell'[c] = fell[c]
    /\ \E x \in Tokens(c) : Tokens(c)' \subseteq Tokens(c) \ {x}
Moves(c) ==
    /\ paid'[c] = paid[c] /\ fell'[c] = fell[c]
    /\ \E x \in Tokens(c), y \in Requests : Tokens(c)' \subseteq (Tokens(c) \ {x}) \cup {y}
Adds(c) ==
    /\ paid'[c] = paid[c] /\ fell'[c] = fell[c] + 1
    /\ \E y \in Requests : Tokens(c)' \subseteq Tokens(c) \cup {y}
StartsOver(c) == paid'[c] = 0 /\ fell'[c] = 0 /\ Tokens(c)' \subseteq {c}

\* Each of them stays within the budget.
LEMMA BudgetKept ==
    ASSUME Types, Budget,
           \A c \in Clients : Keeps(c) \/ Spends(c) \/ Moves(c) \/ Adds(c) \/ StartsOver(c)
    PROVE  Budget'
<1> SUFFICES ASSUME NEW c \in Clients
             PROVE  paid'[c] + Cardinality(Tokens(c)') <= 1 + fell'[c]
  BY DEF Budget
<1>1. /\ paid[c] \in Nat /\ fell[c] \in Nat /\ paid[c] + Cardinality(Tokens(c)) <= 1 + fell[c]
      /\ Tokens(c) \in SUBSET Requests /\ Tokens(c)' \in SUBSET Requests
  BY GatewayAssumption DEF Types, Budget, Tokens
<1>2. Cardinality(Tokens(c)) \in Nat /\ Cardinality(Tokens(c)') \in Nat
  BY <1>1, RequestsAreCounted
<1>3. CASE Keeps(c)
  <2>1. Cardinality(Tokens(c)') <= Cardinality(Tokens(c))
    BY <1>1, <1>3, RequestsAreCounted DEF Keeps
  <2> QED
    BY <1>1, <1>2, <1>3, <2>1 DEF Keeps
<1>4. CASE Spends(c)
  <2>1. Cardinality(Tokens(c)') + 1 <= Cardinality(Tokens(c))
    BY <1>1, <1>4, OneLessCounted DEF Spends
  <2> QED
    BY <1>1, <1>2, <1>4, <2>1 DEF Spends
<1>5. CASE Moves(c)
  <2>1. PICK x \in Tokens(c), y \in Requests : Tokens(c)' \subseteq (Tokens(c) \ {x}) \cup {y}
    BY <1>5 DEF Moves
  <2> DEFINE S == Tokens(c) \ {x}
  <2>2. S \in SUBSET Requests /\ S \in SUBSET (Tokens(c) \ {x}) /\ Tokens(c)' \in SUBSET (S \cup {y})
    BY <1>1, <2>1
  <2>3. Cardinality(S) + 1 <= Cardinality(Tokens(c))
    BY <1>1, <2>1, <2>2, OneLessCounted
  <2>4. Cardinality(Tokens(c)') <= Cardinality(S) + 1 /\ Cardinality(S) \in Nat
    BY <2>1, <2>2, OneMoreCounted, RequestsAreCounted
  <2> HIDE DEF S
  <2>5. paid'[c] = paid[c] /\ fell'[c] = fell[c]
    BY <1>5 DEF Moves
  <2> QED
    BY <1>1, <1>2, <2>3, <2>4, <2>5
<1>6. CASE Adds(c)
  <2>1. Cardinality(Tokens(c)') <= Cardinality(Tokens(c)) + 1
    BY <1>1, <1>6, OneMoreCounted DEF Adds
  <2> QED
    BY <1>1, <1>2, <1>6, <2>1 DEF Adds
<1>7. CASE StartsOver(c)
  <2>1. c \in Requests /\ {c} \in SUBSET Requests
    BY DEF Requests
  <2>2. Cardinality({c}) = 1 /\ Cardinality(Tokens(c)') <= Cardinality({c})
    BY <1>7, <2>1, RequestsAreCounted, FS_Singleton DEF StartsOver
  <2> QED
    BY <1>2, <1>7, <2>2 DEF StartsOver
<1> QED
  BY <1>3, <1>4, <1>5, <1>6, <1>7

-----------------------------------------------------------------------------
PaidInv == GatewayInv /\ Budget /\ Rooted

\* A quiet step starts from a stage with a token and does not end in a value.
LEMMA QuietTokens ==
    ASSUME Types, NEW r \in Requests, Quiet(r)
    PROVE  /\ Token(req[r]) /\ UNCHANGED ledger
           /\ ~(req'[r].at = "answered" /\ req'[r].reply = "ok")
<1> USE DEF At, GoTo, Answer, Types, RequestRecords
<1>1. req[r].at \in {"peeling", "relaying", "entered", "lookup", "waiting", "routing", "local", "verifying",
                     "upstream"}
  BY DEF Quiet, Peel, RelayEnds, Refuse, Admit, Lookup, Acquire, StayLocal, Intercept, CircuitOpen,
         GoUpstream, Verify, UpstreamFails, UpstreamAnswers
<1>2. Token(req[r])
  BY <1>1 DEF Token, Running, Holding, Awaiting
<1>3. UNCHANGED ledger
  BY DEF Quiet, Peel, RelayEnds, Refuse, Admit, Lookup, Acquire, StayLocal, Intercept, CircuitOpen,
         GoUpstream, Verify, UpstreamFails, UpstreamAnswers, ledger
<1>4. \/ \E stage \in {"entered", "relaying", "lookup", "hit", "waiting", "routing", "local", "stored",
                       "upstream", "verifying", "crediting"} : GoTo(r, stage)
      \/ \E reply \in {"refused", "relayed", "failed"} : Answer(r, reply)
  <2>1. ASSUME NEW layer \in Layers, Peel(r, layer)
        PROVE  GoTo(r, "entered") \/ GoTo(r, "relaying") \/ Answer(r, "refused")
    BY <2>1 DEF Peel, Layers
  <2> QED
    BY <2>1 DEF Quiet, RelayEnds, Refuse, Admit, Lookup, Acquire, StayLocal, Intercept, CircuitOpen,
                GoUpstream, Verify, UpstreamFails, UpstreamAnswers
<1>5. ~(req'[r].at = "answered" /\ req'[r].reply = "ok")
  BY <1>4
<1> QED
  BY <1>2, <1>3, <1>5

\* A paying step spends the token of the request.
LEMMA PayTokens ==
    ASSUME Types, NEW r \in Requests, Pays(r)
    PROVE  /\ Token(req[r]) /\ ~Token(req'[r])
           /\ paid' = Entered(paid, r) /\ UNCHANGED <<root, fell>>
<1>1. req[r].at \in {"hit", "stored", "crediting"}
  BY DEF Pays, ServeHit, CreditSlot, Credit, At
<1>2. Token(req[r])
  BY <1>1 DEF Token, Running, Holding, Awaiting
<1>3. paid' = Entered(paid, r) /\ UNCHANGED <<root, fell>>
  BY DEF Pays, ServeHit, CreditSlot, Credit, RecordRequest
<1>4. \E reply \in {"ok", "failed"} : Answer(r, reply)
  BY DEF Pays, ServeHit, CreditSlot, Credit
<1>5. req'[r].at = "answered" /\ req'[r].reply \in {"ok", "failed"}
  BY <1>4 DEF Answer, Types, RequestRecords
<1> QED
  BY <1>2, <1>3, <1>5 DEF Token, Running, Holding, Awaiting

\* Whose request r is after a step.
RootAfter(r) == IF r \in Clients THEN r ELSE root'[r]

\* Clients are not nested requests, and their root is themselves.
LEMMA Roots ==
    ASSUME Types
    PROVE  /\ Clients \subseteq Requests /\ Nested \subseteq Requests
           /\ \A c \in Clients : Root(c) = c /\ Root(c)' = c /\ c \notin Nested /\ c # Nobody
           /\ \A n \in Nested : Root(n) = root[n] /\ Root(n)' = root'[n]
           /\ \A r \in Requests : Root(r) \in Clients \cup {Nobody} /\ RootAfter(r) = Root(r)'
  BY GatewayAssumption, NobodyAssumption DEF Types, Root, RootAfter, Requests

\* Rooted in the next state.
LEMMA RootedAfter ==
    ASSUME \A n \in Nested : req'[n].caller # Nobody => root'[n] = RootAfter(req'[n].caller),
           \A q \in Requests : (/\ req'[q].at = "answered" /\ req'[q].reply = "ok"
                                /\ Root(q)' \in Clients) => paid'[Root(q)'] >= 1
    PROVE  Rooted'
  BY DEF Rooted, Root, RootAfter

\* Quiet and paying steps.
LEMMA PlainPaid ==
    ASSUME PaidInv, NEW r \in Requests, Quiet(r) \/ Pays(r)
    PROVE  Budget' /\ Rooted'
<1>1. Types
  BY DEF PaidInv, GatewayInv
<1>2. /\ \A q \in Requests \ {r} : req'[q] = req[q]
      /\ req'[r].caller = req[r].caller
  BY PlainSteps DEF PaidInv, PlainStep, Plain
<1>3. Token(req[r]) /\ UNCHANGED <<root, fell>>
  BY <1>1, QuietTokens, PayTokens DEF ledger
<1>4. \A q \in Requests : Root(q)' = Root(q)
  BY <1>3 DEF Root
<1>5. \A c \in Clients : Tokens(c)' \subseteq Tokens(c)
  BY <1>2, <1>3, <1>4 DEF Tokens
<1>6. \A n \in Nested : req'[n].caller # Nobody => root'[n] = RootAfter(req'[n].caller)
  <2> SUFFICES ASSUME NEW n \in Nested, req'[n].caller # Nobody
               PROVE  root'[n] = RootAfter(req'[n].caller)
    OBVIOUS
  <2>1. n \in Requests /\ req'[n].caller = req[n].caller
    BY <1>1, <1>2, Roots
  <2>2. RootAfter(req'[n].caller) = Root(req[n].caller)
    BY <1>3, <2>1 DEF Root, RootAfter
  <2> QED
    BY <1>3, <2>1, <2>2 DEF PaidInv, Rooted
<1>7. CASE Quiet(r)
  <2>1. paid' = paid /\ ~(req'[r].at = "answered" /\ req'[r].reply = "ok")
    BY <1>1, <1>7, QuietTokens DEF ledger
  <2>2. Budget'
    <3>1. \A c \in Clients : Keeps(c)
      BY <1>3, <1>5, <2>1 DEF Keeps
    <3> QED
      BY <1>1, <3>1, BudgetKept DEF PaidInv
  <2>3. Rooted'
    <3>1. \A q \in Requests : (/\ req'[q].at = "answered" /\ req'[q].reply = "ok"
                               /\ Root(q)' \in Clients) => paid'[Root(q)'] >= 1
      BY <1>2, <1>4, <2>1 DEF PaidInv, Rooted
    <3> QED
      BY <1>6, <3>1, RootedAfter
  <2> QED
    BY <2>2, <2>3
<1>8. CASE Pays(r)
  <2>1. ~Token(req'[r]) /\ paid' = Entered(paid, r)
    BY <1>1, <1>8, PayTokens
  <2>2. \A c \in Clients : paid[c] \in Nat /\ paid'[c] = IF c = Root(r) THEN paid[c] + 1 ELSE paid[c]
    BY <1>1, <2>1, EnteredBook DEF Types
  <2>3. ASSUME NEW c \in Clients
        PROVE  Keeps(c) \/ Spends(c)
    <3>1. CASE c = Root(r)
      <4>1. r \in Tokens(c) /\ r \notin Tokens(c)'
        BY <1>3, <2>1, <3>1 DEF Tokens
      <4>2. Tokens(c)' \subseteq Tokens(c) \ {r}
        BY <1>5, <4>1
      <4>3. paid'[c] = paid[c] + 1 /\ fell'[c] = fell[c]
        BY <1>3, <2>2, <3>1
      <4> QED
        BY <4>1, <4>2, <4>3 DEF Spends
    <3>2. CASE c # Root(r)
      BY <1>3, <1>5, <2>2, <3>2 DEF Keeps
    <3> QED
      BY <3>1, <3>2
  <2>4. Budget'
    BY <1>1, <2>3, BudgetKept DEF PaidInv
  <2>5. ASSUME NEW q \in Requests, req'[q].at = "answered", req'[q].reply = "ok", Root(q)' \in Clients
        PROVE  paid'[Root(q)'] >= 1
    <3>1. Root(q)' = Root(q) /\ Root(q) \in Clients
      BY <1>4, <2>5
    <3>2. CASE q = r
      BY <2>2, <3>1, <3>2
    <3>3. CASE q # r
      <4>1. paid[Root(q)] >= 1
        BY <1>2, <2>5, <3>1, <3>3 DEF PaidInv, Rooted
      <4> QED
        BY <2>2, <3>1, <4>1
    <3> QED
      BY <3>2, <3>3
  <2> QED
    BY <1>6, <2>4, <2>5, RootedAfter
<1> QED
  BY <1>7, <1>8

\* A client starts over, with a new request or none; nobody has it as caller.
LEMMA ClearPaid ==
    ASSUME PaidInv, NEW c \in Clients, Clear(c), req'[c].at # "answered",
           \A q \in Requests \ {c} : req'[q].at = req[q].at /\ req'[q].reply = req[q].reply,
           \A n \in Nested : req'[n].caller # Nobody => req'[n].caller = req[n].caller /\ req[n].caller # c
    PROVE  Budget' /\ Rooted'
<1>1. Types /\ c \in Requests
  BY Roots DEF PaidInv, GatewayInv
<1>2. /\ \A n \in Nested : root'[n] = IF root[n] = c THEN Nobody ELSE root[n]
      /\ paid'[c] = 0 /\ fell'[c] = 0
      /\ \A d \in Clients \ {c} : paid'[d] = paid[d] /\ fell'[d] = fell[d]
  BY <1>1 DEF Clear, Types
<1>3. \A q \in Requests \ {c} : Root(q)' # c /\ (Root(q)' \in Clients => Root(q)' = Root(q))
  BY <1>1, <1>2, Roots DEF Requests
<1>4. \A q \in Requests \ {c} : Token(req'[q]) <=> Token(req[q])
  BY DEF Token
<1>5. StartsOver(c)
  BY <1>1, <1>2, <1>3 DEF StartsOver, Tokens
<1>6. ASSUME NEW d \in Clients, d # c
      PROVE  Keeps(d)
  <2>1. Root(c)' = c
    BY <1>1, Roots
  <2>2. Tokens(d)' \subseteq Tokens(d)
    BY <1>3, <1>4, <1>6, <2>1 DEF Tokens
  <2> QED
    BY <1>2, <1>6, <2>2 DEF Keeps
<1>7. Budget'
  BY <1>1, <1>5, <1>6, BudgetKept DEF PaidInv
<1>8. ASSUME NEW n \in Nested, req'[n].caller # Nobody
      PROVE  root'[n] = RootAfter(req'[n].caller)
  <2>1. req'[n].caller = req[n].caller /\ req[n].caller # c /\ req[n].caller # Nobody
    BY <1>8
  <2>2. req[n].caller \in Requests /\ root[n] = Root(req[n].caller)
    BY <1>1, <2>1, Roots DEF PaidInv, Rooted, Types, RequestRecords
  <2>3. CASE req[n].caller \in Clients
    BY <1>1, <1>2, <2>1, <2>2, <2>3, Roots
  <2>4. CASE req[n].caller \in Nested
    BY <1>1, <1>2, <2>1, <2>2, <2>4, Roots
  <2> QED
    BY <2>2, <2>3, <2>4 DEF Requests
<1>9. ASSUME NEW q \in Requests, req'[q].at = "answered", req'[q].reply = "ok", Root(q)' \in Clients
      PROVE  paid'[Root(q)'] >= 1
  <2>1. q # c /\ req[q].at = "answered" /\ req[q].reply = "ok"
    BY <1>9
  <2>2. Root(q)' = Root(q) /\ Root(q) # c /\ Root(q) \in Clients
    BY <1>3, <1>9, <2>1
  <2> QED
    BY <1>2, <2>1, <2>2 DEF PaidInv, Rooted
<1> QED
  BY <1>7, <1>8, <1>9, RootedAfter

\* A new request of a client.
LEMMA ArrivalPaid ==
    ASSUME PaidInv, NEW c \in Clients, NEW m \in Methods, Arrive(c, m) \/ ArriveByOnion(c, m)
    PROVE  Budget' /\ Rooted'
<1>1. Types /\ Chained /\ c \in Requests
  BY Roots DEF PaidInv, GatewayInv
<1>2. PICK stage \in {"entered", "peeling"} : req' = [req EXCEPT ![c] = Incoming(stage, m, Nobody)]
  BY DEF Arrive, ArriveByOnion
<1>3. Clear(c) /\ req[c].at \in {"idle", "answered"}
  BY DEF Arrive, ArriveByOnion
<1>4. req'[c].at = stage /\ \A q \in Requests \ {c} : req'[q] = req[q]
  BY <1>1, <1>2 DEF Types, Incoming
<1>5. \A n \in Nested : req'[n].caller # Nobody => req'[n].caller = req[n].caller /\ req[n].caller # c
  BY <1>1, <1>3, <1>4, Roots DEF Chained
<1> QED
  BY <1>2, <1>3, <1>4, <1>5, ClearPaid

\* A client hangs up.
LEMMA HangUpPaid ==
    ASSUME PaidInv, NEW c \in Clients, HangUp(c)
    PROVE  Budget' /\ Rooted'
<1>1. Types /\ Chained /\ c \in Requests
  BY Roots DEF PaidInv, GatewayInv
<1>2. req[c].caller = Nobody /\ Clear(c) /\ req' = Orphaned(c, [req EXCEPT ![c] = Free])
  BY <1>1 DEF HangUp, Chained
<1>3. Leaves(c, Free)
  BY <1>1, <1>2, OrphanedLeaves, FreeIsARequest
<1>4. /\ req'[c].at = "idle"
      /\ \A q \in Requests \ {c} : req'[q].at = req[q].at /\ req'[q].reply = req[q].reply
  BY <1>3, FreeIsARequest DEF Leaves
<1>5. \A n \in Nested : req'[n].caller # Nobody => req'[n].caller = req[n].caller /\ req[n].caller # c
  BY <1>1, <1>3, Roots DEF Leaves
<1> QED
  BY <1>2, <1>4, <1>5, ClearPaid

\* The token goes to the nested request.
LEMMA ForwardPaid ==
    ASSUME PaidInv, NEW r \in Requests, Forward(r)
    PROVE  Budget' /\ Rooted'
<1>1. Types /\ Chained
  BY DEF PaidInv, GatewayInv
<1>2. PICK n \in Nested :
        /\ req[n].at = "idle"
        /\ req' = [req EXCEPT ![r].at = "forwarding", ![n] = Incoming("entered", req[r].method, r)]
        /\ root' = [root EXCEPT ![n] = Root(r)]
  BY DEF Forward, At
<1>3. req[r].at = "routing" /\ UNCHANGED <<paid, fell>> /\ n \in Requests /\ n # r /\ r # Nobody
  BY <1>1, <1>2, Roots, NobodyAssumption DEF Forward, At
<1>4. /\ \A q \in Requests \ {r, n} : req'[q] = req[q]
      /\ req'[r].at = "forwarding" /\ req'[r].caller = req[r].caller
      /\ req'[n].at = "entered" /\ req'[n].caller = r
  BY <1>1, <1>2, <1>3 DEF Types, RequestRecords, Incoming
<1>5. Root(n)' = Root(r) /\ \A q \in Requests \ {n} : Root(q)' = Root(q)
  <2>1. root'[n] = Root(r) /\ \A q \in Nested \ {n} : root'[q] = root[q]
    BY <1>1, <1>2 DEF Types
  <2> QED
    BY <1>1, <2>1, Roots DEF Requests
<1>6. Token(req[r]) /\ ~Token(req'[r])
  BY <1>3, <1>4 DEF Token, Running, Holding
<1>7. ASSUME NEW c \in Clients
      PROVE  Keeps(c) \/ Moves(c)
  <2>1. CASE c = Root(r)
    <3>1. r \in Tokens(c) /\ Tokens(c)' \subseteq (Tokens(c) \ {r}) \cup {n}
      BY <1>4, <1>5, <1>6, <2>1 DEF Tokens
    <3> QED
      BY <1>3, <3>1 DEF Moves
  <2>2. CASE c # Root(r)
    <3>1. Tokens(c)' \subseteq Tokens(c)
      BY <1>4, <1>5, <1>6, <2>2 DEF Tokens
    <3> QED
      BY <1>3, <3>1 DEF Keeps
  <2> QED
    BY <2>1, <2>2
<1>8. Budget'
  BY <1>1, <1>7, BudgetKept DEF PaidInv
<1>9. ASSUME NEW m \in Nested, req'[m].caller # Nobody
      PROVE  root'[m] = RootAfter(req'[m].caller)
  <2>1. CASE m = n
    BY <1>1, <1>3, <1>4, <1>5, <2>1, Roots
  <2>2. CASE m # n
    <3>1. m \in Requests /\ req'[m].caller = req[m].caller
      BY <1>1, <1>4, <2>2, Roots
    <3>2. req[m].caller \in Requests /\ req[m].caller # n
      BY <1>1, <1>2, <1>9, <3>1, Roots DEF Chained, Types, RequestRecords
    <3> QED
      BY <1>1, <1>5, <1>9, <2>2, <3>1, <3>2, Roots DEF PaidInv, Rooted
  <2> QED
    BY <2>1, <2>2
<1>10. ASSUME NEW q \in Requests, req'[q].at = "answered", req'[q].reply = "ok", Root(q)' \in Clients
       PROVE  paid'[Root(q)'] >= 1
  <2>1. q # r /\ q # n
    BY <1>4, <1>10
  <2> QED
    BY <1>3, <1>4, <1>5, <1>10, <2>1 DEF PaidInv, Rooted
<1> QED
  BY <1>8, <1>9, <1>10, RootedAfter

\* The token, if it was not spent, comes back with the reply.
LEMMA PassOnPaid ==
    ASSUME PaidInv, NEW r \in Requests, NEW n \in Nested, PassOn(r, n)
    PROVE  Budget' /\ Rooted'
<1>1. Types /\ Chained
  BY DEF PaidInv, GatewayInv
<1>2. /\ req[r].at = "forwarding" /\ req[n].at = "answered" /\ req[n].caller = r
      /\ req' = [req EXCEPT ![r].at = "answered", ![r].reply = req[n].reply, ![n] = Free]
      /\ root' = [root EXCEPT ![n] = Nobody] /\ UNCHANGED <<paid, fell>>
      /\ n \in Requests /\ n # r /\ r # Nobody
  BY <1>1, Roots, NobodyAssumption DEF PassOn, At
<1>3. /\ \A q \in Requests \ {r, n} : req'[q] = req[q]
      /\ req'[r].at = "answered" /\ req'[r].reply = req[n].reply /\ req'[r].caller = req[r].caller
      /\ req'[n] = Free
  BY <1>1, <1>2 DEF Types, RequestRecords
<1>4. Root(n) = Root(r)
  BY <1>1, <1>2, Roots DEF PaidInv, Rooted
<1>5. Root(n)' = Nobody /\ \A q \in Requests \ {n} : Root(q)' = Root(q)
  <2>1. root'[n] = Nobody /\ \A q \in Nested \ {n} : root'[q] = root[q]
    BY <1>1, <1>2 DEF Types
  <2> QED
    BY <1>1, <2>1, Roots DEF Requests
<1>6. Token(req'[r]) <=> Token(req[n])
  BY <1>2, <1>3 DEF Token, Running, Holding, Awaiting
<1>7. \A c \in Clients : Tokens(c)' \subseteq (Tokens(c) \ {n}) \cup {r} /\ (~Token(req[n]) => r \notin Tokens(c)')
  BY <1>1, <1>3, <1>5, <1>6, Roots DEF Tokens
<1>8. ASSUME NEW c \in Clients
      PROVE  Keeps(c) \/ Moves(c)
  <2>1. CASE c = Root(r) /\ Token(req[n])
    <3>1. n \in Tokens(c)
      BY <1>2, <1>4, <2>1 DEF Tokens
    <3> QED
      BY <1>2, <1>7, <3>1 DEF Moves
  <2>2. CASE ~Token(req[n])
    <3>1. Tokens(c)' \subseteq Tokens(c)
      BY <1>7, <2>2
    <3> QED
      BY <1>2, <3>1 DEF Keeps
  <2>3. CASE c # Root(r)
    <3>1. r \notin Tokens(c)'
      BY <1>2, <1>5, <2>3 DEF Tokens
    <3>2. Tokens(c)' \subseteq Tokens(c)
      BY <1>7, <3>1
    <3> QED
      BY <1>2, <3>2 DEF Keeps
  <2> QED
    BY <2>1, <2>2, <2>3
<1>9. Budget'
  BY <1>1, <1>8, BudgetKept DEF PaidInv
<1>10. ASSUME NEW m \in Nested, req'[m].caller # Nobody
       PROVE  root'[m] = RootAfter(req'[m].caller)
  <2>1. m # n /\ m \in Requests /\ req'[m].caller = req[m].caller
    BY <1>1, <1>3, <1>10, FreeIsARequest, Roots
  <2>2. req[m].caller \in Requests /\ req[m].caller # n
    BY <1>1, <1>2, <1>10, <2>1, Roots DEF Chained, Types, RequestRecords
  <2> QED
    BY <1>1, <1>5, <1>10, <2>1, <2>2, Roots DEF PaidInv, Rooted
<1>11. ASSUME NEW q \in Requests, req'[q].at = "answered", req'[q].reply = "ok", Root(q)' \in Clients
       PROVE  paid'[Root(q)'] >= 1
  <2>1. q # n
    BY <1>3, <1>11, FreeIsARequest
  <2>2. CASE q = r
    BY <1>2, <1>3, <1>4, <1>5, <1>11, <2>1, <2>2 DEF PaidInv, Rooted
  <2>3. CASE q # r
    BY <1>2, <1>3, <1>5, <1>11, <2>1, <2>3 DEF PaidInv, Rooted
  <2> QED
    BY <2>2, <2>3
<1> QED
  BY <1>9, <1>10, <1>11, RootedAfter

\* A handler that falls back gets a token of its own; the nested request keeps
\* the one it was given.
LEMMA FallBackPaid ==
    ASSUME PaidInv, NEW r \in Requests, FallBack(r)
    PROVE  Budget' /\ Rooted'
<1>1. Types
  BY DEF PaidInv, GatewayInv
<1> DEFINE rec == [req[r] EXCEPT !.at = "local"]
<1>2. rec \in RequestRecords /\ rec.at = "local" /\ rec.caller = req[r].caller
  BY <1>1, StagesOf DEF Types, RequestRecords, Holding
<1>3. [req EXCEPT ![r].at = "local"] = [req EXCEPT ![r] = rec]
  BY <1>1 DEF Types, RequestRecords
<1>4. req' = Orphaned(r, [req EXCEPT ![r] = rec])
  BY <1>3 DEF FallBack
<1> HIDE DEF rec
<1>5. Leaves(r, rec)
  BY <1>1, <1>2, <1>4, OrphanedLeaves
<1>6. UNCHANGED <<root, paid>> /\ fell' = Entered(fell, r)
  BY DEF FallBack
<1>7. \A q \in Requests : Root(q)' = Root(q)
  BY <1>6 DEF Root
<1>8. \A c \in Clients : fell'[c] = IF c = Root(r) THEN fell[c] + 1 ELSE fell[c]
  BY <1>6 DEF Entered
<1>9. \A c \in Clients : Tokens(c)' \subseteq Tokens(c) \cup {r} /\ (c # Root(r) => r \notin Tokens(c)')
  BY <1>5, <1>7 DEF Tokens, Token, Leaves
<1>10. ASSUME NEW c \in Clients
       PROVE  Keeps(c) \/ Adds(c)
  <2>1. CASE c = Root(r)
    BY <1>6, <1>8, <1>9, <2>1 DEF Adds
  <2>2. CASE c # Root(r)
    <3>1. Tokens(c)' \subseteq Tokens(c)
      BY <1>9, <2>2
    <3> QED
      BY <1>6, <1>8, <2>2, <3>1 DEF Keeps
  <2> QED
    BY <2>1, <2>2
<1>11. Budget'
  BY <1>1, <1>10, BudgetKept DEF PaidInv
<1>12. ASSUME NEW m \in Nested, req'[m].caller # Nobody
       PROVE  root'[m] = RootAfter(req'[m].caller)
  <2>1. m \in Requests /\ req'[m].caller = req[m].caller
    BY <1>1, <1>5, <1>12, Roots DEF Leaves
  <2>2. RootAfter(req'[m].caller) = Root(req[m].caller)
    BY <1>6, <2>1 DEF Root, RootAfter
  <2> QED
    BY <1>6, <1>12, <2>1, <2>2 DEF PaidInv, Rooted
<1>13. ASSUME NEW q \in Requests, req'[q].at = "answered", req'[q].reply = "ok", Root(q)' \in Clients
       PROVE  paid'[Root(q)'] >= 1
  <2>1. q # r /\ req[q].at = "answered" /\ req[q].reply = "ok"
    BY <1>2, <1>5, <1>13 DEF Leaves
  <2> QED
    BY <1>6, <1>7, <1>13, <2>1 DEF PaidInv, Rooted
<1> QED
  BY <1>11, <1>12, <1>13, RootedAfter

\* A nested request that is dropped takes its token with it.
LEMMA DropPaid ==
    ASSUME PaidInv, NEW n \in Nested, Drop(n)
    PROVE  Budget' /\ Rooted'
<1>1. Types /\ n \in Requests
  BY Roots DEF PaidInv, GatewayInv
<1>2. /\ req[n].caller = Nobody /\ req' = Orphaned(n, [req EXCEPT ![n] = Free])
      /\ root' = [root EXCEPT ![n] = Nobody] /\ UNCHANGED <<paid, fell>>
  BY DEF Drop
<1>3. Leaves(n, Free)
  BY <1>1, <1>2, OrphanedLeaves, FreeIsARequest
<1>4. Root(n)' = Nobody /\ \A q \in Requests \ {n} : Root(q)' = Root(q)
  <2>1. root'[n] = Nobody /\ \A q \in Nested \ {n} : root'[q] = root[q]
    BY <1>1, <1>2 DEF Types
  <2> QED
    BY <1>1, <2>1, Roots DEF Requests
<1>5. \A c \in Clients : Keeps(c)
  <2>1. \A q \in Requests \ {n} : Token(req'[q]) <=> Token(req[q])
    BY <1>3 DEF Token, Leaves
  <2>2. \A c \in Clients : Tokens(c)' \subseteq Tokens(c)
    BY <1>1, <1>4, <2>1, Roots DEF Tokens
  <2> QED
    BY <1>2, <2>2 DEF Keeps
<1>6. Budget'
  BY <1>1, <1>5, BudgetKept DEF PaidInv
<1>7. ASSUME NEW m \in Nested, req'[m].caller # Nobody
      PROVE  root'[m] = RootAfter(req'[m].caller)
  <2>1. m \in Requests /\ req'[m].caller = req[m].caller /\ req[m].caller # n
    BY <1>1, <1>3, <1>7, Roots DEF Leaves
  <2>2. m # n /\ req[m].caller \in Requests
    BY <1>1, <1>2, <1>7, <2>1 DEF Types, RequestRecords
  <2> QED
    BY <1>1, <1>4, <1>7, <2>1, <2>2, Roots DEF PaidInv, Rooted
<1>8. ASSUME NEW q \in Requests, req'[q].at = "answered", req'[q].reply = "ok", Root(q)' \in Clients
      PROVE  paid'[Root(q)'] >= 1
  <2>1. q # n /\ req[q].at = "answered" /\ req[q].reply = "ok"
    BY <1>3, <1>8, FreeIsARequest DEF Leaves
  <2> QED
    BY <1>2, <1>4, <1>8, <2>1 DEF PaidInv, Rooted
<1> QED
  BY <1>6, <1>7, <1>8, RootedAfter

\* One lemma per kind of step.
LEMMA PaidStep == PaidInv /\ [Next]_vars => PaidInv'
<1> SUFFICES ASSUME PaidInv, [Next]_vars
             PROVE  PaidInv'
  OBVIOUS
<1>1. GatewayInv'
  BY GatewayStep DEF PaidInv
<1>2. Clients \subseteq Requests /\ Onion \subseteq Requests
  BY GatewayAssumption DEF Requests
<1>3. ASSUME NEW r \in Requests, Quiet(r) \/ Pays(r)
      PROVE  Budget' /\ Rooted'
  BY <1>3, PlainPaid
<1>4. CASE \E c \in Clients, m \in Methods : Arrive(c, m) \/ ArriveByOnion(c, m)
  BY <1>1, <1>4, ArrivalPaid DEF PaidInv
<1>5. CASE \E c \in Onion, reply \in {"relayed", "failed"} : RelayEnds(c, reply)
  BY <1>1, <1>2, <1>3, <1>5 DEF PaidInv, Quiet
<1>6. CASE \E c \in Clients : HangUp(c)
  BY <1>1, <1>6, HangUpPaid DEF PaidInv
<1>7. CASE \E r \in Requests : Refuse(r) \/ Acquire(r) \/ FallBack(r) \/ Proceed(r)
  BY <1>1, <1>3, <1>7, FallBackPaid, ForwardPaid, PassOnPaid DEF PaidInv, Proceed, Quiet, Pays
<1>8. CASE \E n \in Nested : Drop(n)
  BY <1>1, <1>8, DropPaid DEF PaidInv
<1>9. CASE (\E m \in Methods : Expire(m)) \/ NewWindow \/ UNCHANGED vars
  <2>1. UNCHANGED <<req, root, paid, fell>>
    BY <1>9 DEF Expire, NewWindow, vars, ledger
  <2> QED
    BY <1>1, <2>1 DEF PaidInv, Budget, Rooted, Tokens, Token, Root
<1> QED
  BY <1>4, <1>5, <1>6, <1>7, <1>8, <1>9 DEF Next

\* Nothing is paid and nobody has a token at the start.
LEMMA PaidInvariant == Spec => []PaidInv
<1>1. Init => PaidInv
  <2> SUFFICES ASSUME Init
               PROVE  PaidInv
    OBVIOUS
  <2>1. \A r \in Requests : req[r].at = "idle" /\ req[r].caller = Nobody
    BY FreeIsARequest DEF Init
  <2>2. \A c \in Clients : Tokens(c) = {} /\ paid[c] = 0 /\ fell[c] = 0
    BY <2>1 DEF Tokens, Token, Running, Holding, Awaiting, Init
  <2>3. Budget
    BY <2>2, FS_EmptySet DEF Budget
  <2>4. Rooted
    BY <2>1 DEF Rooted, Requests
  <2> QED
    BY <2>3, <2>4, GatewayInit DEF PaidInv
<1> QED
  BY <1>1, PaidStep, PTL DEF Spec

\* record_request runs at least once for a client's request that gets a value,
\* at most once more than its forwards have failed, those of requests included
\* that it no longer waits for, and for one that is refused or relayed only in
\* nested requests it has left behind.
THEOREM RequestsArePaidPerAttempt == Spec => []PaidPerAttempt
<1>1. ASSUME PaidInv, NEW c \in Clients
      PROVE  /\ paid[c] <= 1 + fell[c]
             /\ At(c, "answered") =>
                /\ req[c].reply = "ok" => paid[c] >= 1
                /\ req[c].reply \in {"refused", "relayed"} => paid[c] <= fell[c]
  <2>1. /\ c \in Requests /\ Root(c) = c /\ paid[c] \in Nat /\ fell[c] \in Nat
        /\ Tokens(c) \in SUBSET Requests /\ paid[c] + Cardinality(Tokens(c)) <= 1 + fell[c]
    BY <1>1, Roots, GatewayAssumption DEF PaidInv, GatewayInv, Types, Budget, Tokens
  <2>2. Cardinality(Tokens(c)) \in Nat
    BY <2>1, RequestsAreCounted
  <2>3. paid[c] <= 1 + fell[c]
    BY <2>1, <2>2
  <2>4. At(c, "answered") /\ req[c].reply = "ok" => paid[c] >= 1
    BY <1>1, <2>1 DEF PaidInv, Rooted, At
  <2>5. ASSUME At(c, "answered"), req[c].reply \in {"refused", "relayed"}
        PROVE  paid[c] <= fell[c]
    <3>1. c \in Tokens(c)
      BY <2>1, <2>5 DEF Tokens, Token, At
    <3>2. {} \in SUBSET (Tokens(c) \ {c})
      OBVIOUS
    <3>3. Cardinality({}) + 1 <= Cardinality(Tokens(c)) /\ Cardinality({}) = 0
      BY <2>1, <3>1, <3>2, OneLessCounted, FS_EmptySet
    <3> QED
      BY <2>1, <2>2, <3>3
  <2> QED
    BY <2>3, <2>4, <2>5
<1>2. PaidInv => PaidPerAttempt
  BY <1>1 DEF PaidPerAttempt
<1> QED
  BY <1>2, PaidInvariant, PTL

-----------------------------------------------------------------------------
\* The nested requests that the rate limit has let in, and those among them that
\* have seen at most k windows begin.
Inside == {n \in Nested : req[n].at \in Admitted}
Young(k) == {n \in Inside : seen[n] <= k}

\* They were counted in this window and the k windows before.
LimitInv ==
    /\ count <= Limit
    /\ \A k \in 0..(MaxSeen - 1) : Cardinality(Young(k)) <= Limit * k + count

\* A request is let in by Admit only.
LEMMA OnlyAdmitAdmits ==
    ASSUME GatewayInv, Next, \A r \in Requests : ~Admit(r)
    PROVE  Inside' \subseteq Inside
<1>1. Types /\ Nested \subseteq Requests /\ Clients \cap Nested = {}
  BY GatewayAssumption DEF GatewayInv, Requests
<1>2. ASSUME NEW r \in Requests, PlainStep(r)
      PROVE  Inside' \subseteq Inside
  <2>1. \A q \in Requests \ {r} : req'[q] = req[q]
    BY <1>2, PlainSteps DEF Plain
  <2>2. CASE Arrives(r)
    BY <1>1, <2>1, <2>2 DEF Inside, Arrives
  <2>3. CASE req[r].at \in Admitted
    BY <1>1, <2>1, <2>3 DEF Inside
  <2>4. CASE req'[r].at \in {"answered", "entered", "relaying"}
    BY <1>1, <2>1, <2>4 DEF Inside, Admitted, Holding
  <2>5. ASSUME NEW layer \in Layers, Peel(r, layer)
        PROVE  req'[r].at \in {"answered", "entered", "relaying"}
    <3>1. Answer(r, "refused") \/ GoTo(r, "entered") \/ GoTo(r, "relaying")
      BY <2>5 DEF Peel, Layers
    <3> QED
      BY <1>1, <3>1 DEF Answer, GoTo, Types, RequestRecords
  <2>6. ASSUME NEW reply, RelayEnds(r, reply)
        PROVE  req'[r].at \in {"answered", "entered", "relaying"}
    BY <1>1, <2>6 DEF RelayEnds, Answer, Types, RequestRecords
  <2>7. ASSUME Refuse(r)
        PROVE  req'[r].at \in {"answered", "entered", "relaying"}
    BY <1>1, <2>7 DEF Refuse, Answer, Types, RequestRecords
  <2>8. ASSUME \/ Lookup(r) \/ Acquire(r) \/ StayLocal(r)
               \/ Intercept(r) \/ CircuitOpen(r) \/ GoUpstream(r)
               \/ \E verdict \in Verdicts : Verify(r, verdict)
               \/ UpstreamFails(r) \/ UpstreamAnswers(r) \/ Pays(r)
        PROVE  req[r].at \in Admitted
    BY <2>8 DEF Lookup, ServeHit, Acquire, StayLocal, Intercept, CreditSlot, CircuitOpen, GoUpstream, Verify,
                UpstreamFails, UpstreamAnswers, Credit, Pays, At, Admitted, Holding
  <2> QED
    BY <1>2, <2>2, <2>3, <2>4, <2>5, <2>6, <2>7, <2>8 DEF PlainStep, Quiet
<1>3. ASSUME NEW r \in Requests, Forward(r)
      PROVE  Inside' \subseteq Inside
  <2>1. PICK n \in Nested :
            req' = [req EXCEPT ![r].at = "forwarding", ![n] = Incoming("entered", req[r].method, r)]
    BY <1>3 DEF Forward
  <2>2. req'[n].at = "entered" /\ \A q \in Requests \ {r, n} : req'[q] = req[q]
    BY <1>1, <2>1 DEF Types, Incoming
  <2>3. req[r].at \in Admitted
    BY <1>3 DEF Forward, At, Admitted, Holding
  <2> QED
    BY <1>1, <2>2, <2>3 DEF Inside, Admitted, Holding
<1>4. ASSUME NEW r \in Requests, NEW n \in Nested, PassOn(r, n)
      PROVE  Inside' \subseteq Inside
  <2>1. \A q \in Requests \ {r, n} : req'[q] = req[q]
    BY <1>1, <1>4 DEF PassOn, Types
  <2>2. req'[n] = Free /\ req[r].at \in Admitted
    BY <1>1, <1>4 DEF PassOn, At, Types, Admitted, Holding
  <2> QED
    BY <1>1, <2>1, <2>2, FreeIsARequest DEF Inside, Admitted, Holding
<1>5. ASSUME NEW r \in Requests, NEW rec \in RequestRecords, req' = Orphaned(r, [req EXCEPT ![r] = rec]),
             rec.at = "idle" \/ req[r].at \in Admitted
      PROVE  Inside' \subseteq Inside
  <2> DEFINE rs == [req EXCEPT ![r] = rec]
  <2>1. rs \in [Requests -> RequestRecords] /\ rs[r] = rec /\ \A q \in Requests \ {r} : rs[q] = req[q]
    BY <1>1 DEF Types
  <2>2. req' = Orphaned(r, rs)
    BY <1>5
  <2> HIDE DEF rs
  <2>3. \A q \in Requests : req'[q].at = rs[q].at
    BY <2>1, <2>2, OrphanedFields
  <2> QED
    BY <1>1, <1>5, <2>1, <2>3 DEF Inside, Admitted, Holding
<1>6. ASSUME NEW r \in Requests, FallBack(r)
      PROVE  Inside' \subseteq Inside
  <2> DEFINE rec == [req[r] EXCEPT !.at = "local"]
  <2>1. rec \in RequestRecords
    BY <1>1, StagesOf DEF Types, RequestRecords, Holding
  <2>2. [req EXCEPT ![r].at = "local"] = [req EXCEPT ![r] = rec]
    BY <1>1 DEF Types, RequestRecords
  <2>3. req' = Orphaned(r, [req EXCEPT ![r] = rec]) /\ req[r].at \in Admitted
    BY <1>6, <2>2 DEF FallBack, At, Admitted, Holding
  <2> QED
    BY <1>5, <2>1, <2>3
<1>7. ASSUME NEW r \in Requests, HangUp(r) \/ Drop(r)
      PROVE  Inside' \subseteq Inside
  BY <1>5, <1>7, FreeIsARequest DEF HangUp, Drop
<1>8. CASE (\E m \in Methods : Expire(m)) \/ NewWindow
  BY <1>8 DEF Expire, NewWindow, Inside
<1>9. Clients \subseteq Requests /\ Onion \subseteq Requests
  BY GatewayAssumption DEF Requests
<1> QED
  BY <1>1, <1>2, <1>3, <1>4, <1>6, <1>7, <1>8, <1>9 DEF Next, Proceed, PlainStep, Arrives, Quiet, Pays

\* An admission is counted, and a new window makes every request older by one.
LEMMA LimitStep == GatewayInv /\ LimitInv /\ [Next]_vars => LimitInv'
<1> SUFFICES ASSUME GatewayInv, LimitInv, [Next]_vars
             PROVE  LimitInv'
  OBVIOUS
<1>1. /\ count \in Nat /\ Limit \in Nat /\ MaxSeen \in Nat \ {0} /\ count <= Limit
      /\ Nested \subseteq Requests /\ Types
  BY GatewayAssumption DEF GatewayInv, Types, Requests, LimitInv
<1>2. \A k \in Int : Young(k) \in SUBSET Requests /\ Young(k)' \in SUBSET Requests
  BY <1>1 DEF Inside, Young
<1>3. \A k \in 0..(MaxSeen - 1) : /\ Cardinality(Young(k)) <= Limit * k + count
                                  /\ Limit * k \in Nat /\ k \in Nat
  BY <1>1 DEF LimitInv
<1>4. CASE UNCHANGED vars
  BY <1>4 DEF LimitInv, Inside, Young, vars
<1>5. CASE NewWindow
  <2>1. Inside' = Inside /\ count' = 0
    BY <1>5 DEF NewWindow, Inside
  <2>2. \A n \in Inside : seen[n] \in 0..MaxSeen /\ seen'[n] = IF seen[n] < MaxSeen THEN seen[n] + 1 ELSE MaxSeen
    BY <1>1, <1>5 DEF NewWindow, Inside, Types
  <2>3. ASSUME NEW k \in 0..(MaxSeen - 1)
        PROVE  Cardinality(Young(k)') <= Limit * k + count'
    <3>1. CASE k = 0
      <4>1. Young(k)' = {}
        BY <1>1, <2>1, <2>2, <3>1 DEF Young
      <4>2. Limit * k = 0
        BY <1>1, <3>1
      <4>3. Cardinality(Young(k)') = 0
        BY <4>1, FS_EmptySet
      <4> QED
        BY <2>1, <4>2, <4>3
    <3>2. CASE k > 0
      <4>1. k - 1 \in 0..(MaxSeen - 1) /\ k - 1 \in Int
        BY <1>1, <3>2
      <4>2. Young(k)' \in SUBSET Young(k - 1)
        BY <1>1, <2>1, <2>2, <3>2 DEF Young
      <4>3. /\ Cardinality(Young(k)') <= Cardinality(Young(k - 1))
            /\ Cardinality(Young(k)') \in Nat /\ Cardinality(Young(k - 1)) \in Nat
        BY <1>2, <4>1, <4>2, RequestsAreCounted
      <4>4. Cardinality(Young(k - 1)) <= Limit * (k - 1) + count /\ Limit * (k - 1) \in Nat
        BY <1>3, <4>1
      <4>5. Limit * (k - 1) + Limit = Limit * k
        BY <1>1, <3>2
      <4> QED
        BY <1>1, <2>1, <4>3, <4>4, <4>5
    <3> QED
      BY <3>1, <3>2
  <2> QED
    BY <1>1, <2>1, <2>3 DEF LimitInv
<1>6. CASE Next /\ ~NewWindow
  <2>1. ASSUME \A k \in 0..(MaxSeen - 1) : Young(k)' \subseteq Young(k),
               count' \in Nat, count <= count', count' <= Limit
        PROVE  LimitInv'
    <3>1. ASSUME NEW k \in 0..(MaxSeen - 1)
          PROVE  Cardinality(Young(k)') <= Limit * k + count'
      <4>1. k \in Int /\ Young(k)' \in SUBSET Young(k) /\ Young(k) \in SUBSET Requests
        BY <1>2, <2>1
      <4>2. /\ Cardinality(Young(k)') <= Cardinality(Young(k))
            /\ Cardinality(Young(k)') \in Nat /\ Cardinality(Young(k)) \in Nat
        BY <4>1, RequestsAreCounted
      <4>3. Cardinality(Young(k)) <= Limit * k + count /\ Limit * k \in Nat
        BY <1>3
      <4> QED
        BY <1>1, <2>1, <4>2, <4>3
    <3> QED
      BY <2>1, <3>1 DEF LimitInv
  <2>2. ASSUME NEW r \in Requests, Admit(r)
        PROVE  LimitInv'
    <3>1. /\ \A q \in Requests \ {r} : req'[q] = req[q]
          /\ req[r].at = "entered"
          /\ \A n \in Nested \ {r} : seen'[n] = seen[n]
      BY <1>1, <2>2 DEF Admit, Answer, GoTo, At, Types
    <3>2. CASE Unknown(r) /\ count >= Limit
      <4>1. count' = count /\ req'[r].at = "answered"
        BY <1>1, <2>2, <3>2 DEF Admit, Answer, Types, RequestRecords
      <4>2. \A k \in 0..(MaxSeen - 1) : Young(k)' \subseteq Young(k)
        BY <1>1, <3>1, <4>1 DEF Inside, Young, Admitted, Holding
      <4> QED
        BY <1>1, <2>1, <4>1, <4>2
    <3>3. CASE ~(Unknown(r) /\ count >= Limit) /\ r \notin Nested
      <4>1. \A k \in 0..(MaxSeen - 1) : Young(k)' \subseteq Young(k)
        BY <1>1, <3>1, <3>3 DEF Inside, Young
      <4>2. count' = IF Unknown(r) THEN count + 1 ELSE count
        BY <2>2, <3>3 DEF Admit
      <4>3. count' \in Nat /\ count <= count' /\ count' <= Limit
        BY <1>1, <3>3, <4>2
      <4> QED
        BY <2>1, <4>1, <4>3
    <3>4. CASE ~(Unknown(r) /\ count >= Limit) /\ r \in Nested
      <4>1. count' = count + 1 /\ count < Limit
        BY <1>1, <2>2, <3>4 DEF Admit, Unknown
      <4>2. ASSUME NEW k \in 0..(MaxSeen - 1)
            PROVE  Cardinality(Young(k)') <= Limit * k + count'
        <5>1. k \in Int /\ Young(k)' \in SUBSET (Young(k) \cup {r}) /\ Young(k) \in SUBSET Requests
          BY <1>1, <1>2, <3>1 DEF Inside, Young
        <5>2. /\ Cardinality(Young(k)') <= Cardinality(Young(k)) + 1
              /\ Cardinality(Young(k)') \in Nat /\ Cardinality(Young(k)) \in Nat
          BY <1>2, <5>1, OneMoreCounted, RequestsAreCounted
        <5>3. Cardinality(Young(k)) <= Limit * k + count /\ Limit * k \in Nat
          BY <1>3
        <5> QED
          BY <1>1, <4>1, <5>2, <5>3
      <4> QED
        BY <1>1, <4>1, <4>2 DEF LimitInv
    <3> QED
      BY <3>2, <3>3, <3>4
  <2>3. CASE \A r \in Requests : ~Admit(r)
    <3>1. Inside' \subseteq Inside
      BY <1>6, <2>3, OnlyAdmitAdmits
    <3>2. count' = count /\ seen' = seen
      BY <1>6, <2>3
         DEF Next, Arrive, ArriveByOnion, RelayEnds, HangUp, Refuse, Acquire, FallBack, Drop, Expire, Proceed, Peel,
             Lookup, ServeHit, StayLocal, Forward, PassOn, Intercept, CreditSlot, CircuitOpen, GoUpstream, Verify,
             UpstreamFails, UpstreamAnswers, Credit
    <3>3. \A k \in 0..(MaxSeen - 1) : Young(k)' \subseteq Young(k)
      BY <3>1, <3>2 DEF Young
    <3> QED
      BY <1>1, <2>1, <3>2, <3>3
  <2> QED
    BY <2>2, <2>3
<1> QED
  BY <1>4, <1>5, <1>6

\* Nothing is inside at the start.
LEMMA LimitInvariant == Spec => []LimitInv
<1>1. Init => LimitInv
  <2> SUFFICES ASSUME Init
               PROVE  LimitInv
    OBVIOUS
  <2>1. \A n \in Nested : req[n].at = "idle"
    BY FreeIsARequest DEF Init, Requests
  <2>2. \A k \in 0..(MaxSeen - 1) : Young(k) = {}
    BY <2>1 DEF Inside, Young, Admitted, Holding
  <2>3. count = 0 /\ Limit \in Nat
    BY GatewayAssumption DEF Init
  <2>4. ASSUME NEW k \in 0..(MaxSeen - 1)
        PROVE  Cardinality(Young(k)) <= Limit * k + count
    <3>1. Cardinality(Young(k)) = 0
      BY <2>2, FS_EmptySet
    <3>2. Limit * k \in Nat
      BY <2>3
    <3> QED
      BY <2>3, <3>1, <3>2
  <2> QED
    BY <2>3, <2>4 DEF LimitInv
<1> QED
  BY <1>1, GatewayInvariant, LimitStep, PTL DEF Spec

\* The handlers of rpc_handler that post to their own node use up the semaphore
\* only over as many windows of the rate limit of "unknown" as let in one nested
\* request for every permit: each of them waits for a nested request of its own
\* that the limit has let in.
THEOREM GridlocksTakeWindows == Spec => []GridlockTakesWindows
<1>1. GatewayInv /\ LimitInv => GridlockTakesWindows
  <2> SUFFICES ASSUME GatewayInv, LimitInv, Gridlocked, NEW k \in 0..(MaxSeen - 1),
                      \A n \in Nested : req[n].at \in Admitted => seen[n] <= k
               PROVE  MaxConcurrent <= Limit * (k + 1)
    BY DEF GridlockTakesWindows
  <2>1. /\ MaxConcurrent \in Nat /\ Limit \in Nat /\ count \in Nat /\ count <= Limit
        /\ Limit * k \in Nat /\ k \in Nat
    BY GatewayAssumption DEF GatewayInv, Types, LimitInv
  <2>2. Cardinality(Holders) = MaxConcurrent
    <3>1. permits = 0
      BY DEF Gridlocked
    <3> QED
      BY <2>1, <3>1, HoldersAreFinite DEF GatewayInv, PermitsConserved, Holders
  <2>3. \A r \in Holders : r \in Requests /\ req[r].at = "forwarding"
    BY DEF Holders, Gridlocked, At
  <2>4. \A r \in Holders : \E n \in Nested : req[n].caller = r
    BY <2>3 DEF GatewayInv, Chained
  <2> DEFINE asked == [r \in Holders |-> CHOOSE n \in Nested : req[n].caller = r]
  <2>5. \A r \in Holders : asked[r] \in Nested /\ req[asked[r]].caller = r
    BY <2>4
  <2>6. \A r \in Holders : asked[r] \in Young(k)
    <3> HIDE DEF asked
    <3> SUFFICES ASSUME NEW r \in Holders
                 PROVE  asked[r] \in Young(k)
      OBVIOUS
    <3>1. asked[r] \in Nested /\ asked[r] \in Requests /\ req[asked[r]].caller # Nobody
      BY <2>3, <2>5, NobodyAssumption DEF Requests
    <3>2. req[asked[r]].at \in Admitted
      BY <3>1 DEF Gridlocked, Admitted, Holding
    <3> QED
      BY <3>1, <3>2 DEF Inside, Young
  <2>7. asked \in Injection(Holders, Young(k))
    <3>1. asked \in [Holders -> Young(k)]
      BY <2>6
    <3>2. \A r, s \in Holders : asked[r] = asked[s] => r = s
      BY <2>5
    <3> HIDE DEF asked
    <3> QED
      BY <3>1, <3>2 DEF Injection, IsInjective
  <2> HIDE DEF asked
  <2>8. Young(k) \in SUBSET Requests
    BY DEF Inside, Young, Requests
  <2>9. IsFiniteSet(Young(k)) /\ Cardinality(Young(k)) \in Nat
    BY <2>8, RequestsAreCounted
  <2>10. Cardinality(Holders) <= Cardinality(Young(k))
    BY <2>7, <2>9, FS_Injection
  <2>11. Cardinality(Young(k)) <= Limit * k + count
    BY DEF LimitInv
  <2>12. Limit * k + Limit = Limit * (k + 1)
    BY <2>1
  <2> QED
    BY <2>1, <2>2, <2>9, <2>10, <2>11, <2>12
<1> QED
  BY <1>1, GatewayInvariant, LimitInvariant, PTL
=============================================================================
