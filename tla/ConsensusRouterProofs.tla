----------------------- MODULE ConsensusRouterProofs -----------------------
(***************************************************************************)
(* Proofs about the consensus router for any number of nodes and of        *)
(* concurrent calls, of which at most one node is faulty: it implements    *)
(* RegularRead, frames no correct node and bounds the strikes.             *)
(***************************************************************************)
EXTENDS ConsensusRouter, FiniteSetTheorems, TLAPS

Outcomes == Votes \cup {Failed, Waiting}

CallRecords == [nodes : SUBSET Nodes,
                answer : UNION {[S -> Outcomes] : S \in SUBSET Nodes},
                from : Heights, value : Votes \cup {Failed}]

\* What the variables are, with the answers of a call as a function on the nodes
\* it has selected.
Calls ==
    /\ height \in Heights
    /\ strikes \in [Nodes -> Nat]
    /\ query \in [Queries -> CallRecords]
    /\ \A q \in Queries : query[q].answer \in [query[q].nodes -> Outcomes]

\* A correct node that has answered a call did so with a height of the time since
\* the call began.
HonestAnswers ==
    \A q \in Queries :
        /\ query[q].from <= height
        /\ \A n \in query[q].nodes \ Faulty :
            \/ query[q].answer[n] \in {Waiting, Failed}
            \/ query[q].from <= query[q].answer[n] /\ query[q].answer[n] <= height

RouterInv == Calls /\ HonestAnswers

\* The calls that may still punish n.
Pending(n) == {q \in Queries : n \in query[q].nodes}

\* A strike uses up a pending call, and a call is added only below MaxStrikes.
StrikesOwed ==
    \A n \in Nodes : strikes[n] + Cardinality(Pending(n)) < MaxStrikes + Cardinality(Queries)

-----------------------------------------------------------------------------
\* The results that are not votes.
LEMMA NotVotes == Failed \notin Votes /\ Waiting \notin Votes /\ Failed # Waiting
  BY DEF Failed, Waiting, Null, Votes, Heights

\* A choice of three nodes is not empty, and takes only nodes that are eligible.
LEMMA ChoiceIsEligible ==
    ASSUME ~TooFew, NEW chosen \in Choices
    PROVE  chosen # {} /\ chosen \subseteq Eligible /\ chosen \subseteq Nodes
  <1>1. chosen \in {c \in SUBSET Eligible : Cardinality(c) = 3}
    <2>1. ~(Cardinality(Eligible) < 3)
      BY DEF TooFew
    <2>2. QED BY <2>1 DEF Choices
  <1>2. chosen # {}
    BY <1>1, FS_EmptySet
  <1>3. QED BY <1>1, <1>2 DEF Eligible

\* Two votes are one more than the faulty nodes have: a correct node gave the
\* winning answer.
LEMMA WinnerHasAnHonestVote ==
    ASSUME Calls, NEW q \in Queries, NEW v \in Votes, Wins(q, v)
    PROVE  \E n \in query[q].nodes \ Faulty : query[q].answer[n] = v
  <1> SUFFICES ASSUME Agreeing(q, v) \subseteq Faulty
               PROVE  FALSE
    BY DEF Agreeing
  <1>1. IsFiniteSet(Faulty) /\ Cardinality(Faulty) \in Nat /\ Cardinality(Faulty) <= 1
    BY ConsensusAssumption, FS_Subset, FS_CardinalityType
  <1>2. Cardinality(Agreeing(q, v)) <= Cardinality(Faulty) /\ IsFiniteSet(Agreeing(q, v))
    BY <1>1, FS_Subset
  <1>3. Cardinality(Agreeing(q, v)) \in Nat
    BY <1>2, FS_CardinalityType
  <1>4. QED BY <1>1, <1>2, <1>3 DEF Wins

\* A winning answer was current during the call.
LEMMA WinnerIsRegular ==
    ASSUME RouterInv, NEW q \in Queries, NEW v \in Votes, Wins(q, v)
    PROVE  v \in query[q].from..height
  <1>1. PICK n \in query[q].nodes \ Faulty : query[q].answer[n] = v
    BY WinnerHasAnHonestVote DEF RouterInv
  <1>2. query[q].from <= v /\ v <= height
    BY <1>1, NotVotes DEF RouterInv, HonestAnswers
  <1>3. query[q].from \in Int /\ height \in Int /\ v \in Int
    BY ConsensusAssumption DEF RouterInv, Calls, CallRecords, Heights, Votes, Null
  <1>4. QED BY <1>2, <1>3

-----------------------------------------------------------------------------
\* The call that Over makes is one, without nodes and without answers.
LEMMA OverIsACall ==
    ASSUME NEW from \in Heights, NEW value \in Votes \cup {Failed}
    PROVE  /\ Over(from, value) \in CallRecords
           /\ Over(from, value).nodes = {}
           /\ Over(from, value).answer \in [{} -> Outcomes]
           /\ Over(from, value).from = from
           /\ Over(from, value).value = value
  <1>1. <<>> \in [{} -> Outcomes]
    OBVIOUS
  <1>2. {} \in SUBSET Nodes
    OBVIOUS
  <1>3. <<>> \in UNION {[S -> Outcomes] : S \in SUBSET Nodes}
    BY <1>1, <1>2
  <1>4. QED BY <1>1, <1>3 DEF Over, CallRecords

\* A step that ends call q, and changes only strikes besides, keeps the types.
LEMMA OverKeepsTypes ==
    ASSUME Calls, NEW q \in Queries, NEW from \in Heights, NEW value \in Votes \cup {Failed},
           query' = [query EXCEPT ![q] = Over(from, value)],
           height' = height, strikes' \in [Nodes -> Nat]
    PROVE  Calls'
  <1> DEFINE call == Over(from, value)
  <1>1. call \in CallRecords /\ call.answer \in [call.nodes -> Outcomes]
    BY OverIsACall
  <1>2. query' = [query EXCEPT ![q] = call]
    OBVIOUS
  <1> HIDE DEF call
  <1>3. query' \in [Queries -> CallRecords]
    BY <1>1, <1>2 DEF Calls
  <1>4. \A p \in Queries : query'[p].answer \in [query'[p].nodes -> Outcomes]
    BY <1>1, <1>2 DEF Calls
  <1>5. QED BY <1>3, <1>4 DEF Calls

\* No call is under way at the start.
LEMMA RouterInit == Init => RouterInv
<1> SUFFICES ASSUME Init
             PROVE  RouterInv
  OBVIOUS
<1>1. 0 \in Heights /\ height = 0
  BY ConsensusAssumption DEF Heights, Init
<1>2. \A q \in Queries : query[q] = Over(0, Failed)
  BY DEF Init
<1>3. Calls
  BY <1>1, <1>2, OverIsACall DEF Init, Calls
<1>4. HonestAnswers
  BY <1>1, <1>2, OverIsACall DEF HonestAnswers
<1> QED
  BY <1>3, <1>4 DEF RouterInv

\* One step per action: answers come from nodes as they are when asked.
LEMMA RouterStep == RouterInv /\ [Next]_vars => RouterInv'
<1> SUFFICES ASSUME RouterInv, [Next]_vars
             PROVE  RouterInv'
  OBVIOUS
<1> USE ConsensusAssumption DEF RouterInv
<1>1. CASE Advance
  <2>1. Calls'
    BY <1>1 DEF Advance, Calls, Heights
  <2>2. \A q \in Queries : /\ query'[q] = query[q] /\ query[q].from \in Int
                           /\ \A n \in query[q].nodes : query[q].answer[n] \in Int
    BY <1>1 DEF Advance, Calls, CallRecords, Outcomes, Votes, Heights, Failed, Waiting, Null
  <2>3. height \in Int /\ height' = height + 1
    BY <1>1 DEF Advance, Calls, Heights
  <2>4. HonestAnswers'
    BY <2>2, <2>3 DEF HonestAnswers
  <2> QED
    BY <2>1, <2>4
<1>2. ASSUME NEW q \in Queries, Insufficient(q)
      PROVE  RouterInv'
  <2>1. query' = [query EXCEPT ![q] = Over(height, Failed)] /\ UNCHANGED <<height, strikes>>
    BY <1>2 DEF Insufficient
  <2>2. height <= height
    BY DEF Calls, Heights
  <2>3. Calls'
    BY <2>1, OverKeepsTypes DEF Calls
  <2>4. HonestAnswers'
    BY <2>1, <2>2, OverIsACall DEF Calls, HonestAnswers
  <2> QED
    BY <2>3, <2>4
<1>3. ASSUME NEW q \in Queries, Select(q)
      PROVE  RouterInv'
  <2>1. PICK chosen \in Choices :
            query' = [query EXCEPT ![q] = [nodes |-> chosen, answer |-> [n \in chosen |-> Waiting],
                                           from |-> height, value |-> Failed]]
    BY <1>3 DEF Select
  <2>2. chosen \subseteq Nodes
    BY <1>3, ChoiceIsEligible DEF Select
  <2>3. [n \in chosen |-> Waiting] \in [chosen -> Outcomes]
    BY DEF Outcomes
  <2>4. Calls'
    BY <1>3, <2>1, <2>2, <2>3 DEF Select, Calls, CallRecords
  <2>5. HonestAnswers'
    BY <1>3, <2>1, <2>2 DEF Select, Calls, CallRecords, HonestAnswers, Heights
  <2> QED
    BY <2>4, <2>5
<1>4. ASSUME NEW q \in Queries, NEW n \in query[q].nodes, NEW v \in Answers(n), QueryNode(q, n, v)
      PROVE  RouterInv'
  <2>1. v \in Outcomes /\ (n \notin Faulty => v \in {height, Failed})
    BY DEF Answers, Outcomes, Votes, Calls
  <2>2. query' = [query EXCEPT ![q].answer[n] = v] /\ UNCHANGED <<height, strikes>>
    BY <1>4 DEF QueryNode
  <2>3. [query[q].answer EXCEPT ![n] = v] \in [query[q].nodes -> Outcomes]
    BY <2>1 DEF Calls
  <2>4. Calls'
    <3> DEFINE call == [query[q] EXCEPT !.answer[n] = v]
    <3>1. query[q] \in CallRecords /\ query' = [query EXCEPT ![q] = call]
      BY <2>2 DEF Calls
    <3>2. call.nodes = query[q].nodes /\ call.answer = [query[q].answer EXCEPT ![n] = v]
      BY <3>1 DEF CallRecords
    <3>3. query[q].nodes \in SUBSET Nodes
      BY <3>1 DEF CallRecords
    <3>4. [query[q].answer EXCEPT ![n] = v] \in UNION {[S -> Outcomes] : S \in SUBSET Nodes}
      BY <2>3, <3>3
    <3>5. call \in CallRecords
      BY <3>1, <3>4 DEF CallRecords
    <3>6. call.answer \in [call.nodes -> Outcomes]
      BY <2>3, <3>2
    <3> HIDE DEF call
    <3> QED
      BY <2>2, <3>1, <3>5, <3>6 DEF Calls
  <2>5. HonestAnswers'
    BY <2>1, <2>2 DEF Calls, CallRecords, HonestAnswers, Heights
  <2> QED
    BY <2>4, <2>5
<1>5. ASSUME NEW q \in Queries, Tally(q)
      PROVE  RouterInv'
  <2>1. height' = height /\ strikes' \in [Nodes -> Nat]
    BY <1>5 DEF Tally, Punished, Calls
  <2>2. PICK v \in Votes \cup {Failed} : query' = [query EXCEPT ![q] = Over(query[q].from, v)]
    BY <1>5 DEF Tally
  <2>3. query[q].from \in Heights
    BY DEF Calls, CallRecords
  <2>4. Calls'
    BY <2>1, <2>2, <2>3, OverKeepsTypes DEF Calls
  <2>5. HonestAnswers'
    BY <2>1, <2>2, <2>3, OverIsACall DEF Calls, HonestAnswers
  <2> QED
    BY <2>4, <2>5
<1>6. CASE UNCHANGED vars
  BY <1>6 DEF vars, Calls, HonestAnswers
<1> QED
  BY <1>1, <1>2, <1>3, <1>4, <1>5, <1>6 DEF Next

\* Both parts hold in every state.
LEMMA RouterInvariant == Spec => []RouterInv
  BY RouterInit, RouterStep, PTL DEF Spec

-----------------------------------------------------------------------------
\* What RegularRead sees of a call.
Seen(q) == [reading |-> Asking(q), from |-> query[q].from, value |-> query[q].value]

\* What it sees of all calls after a step that gives call q the record c.
LEMMA SeenAfter ==
    ASSUME Calls, NEW q \in Queries, NEW c, query' = [query EXCEPT ![q] = c]
    PROVE  [p \in Queries |-> Seen(p)]' =
             [[p \in Queries |-> Seen(p)] EXCEPT
                 ![q] = [reading |-> c.nodes # {}, from |-> c.from, value |-> c.value]]
  BY DEF Calls, Seen, Asking

\* Every step of the router is one of RegularRead, or invisible to it.
LEMMA StepIsRegular ==
    ASSUME RouterInv, [Next]_vars
    PROVE  [Reads!Next]_(Reads!vars)
<1> DEFINE seen == [q \in Queries |-> Seen(q)]
<1>1. CASE Advance
  <2>1. UNCHANGED seen
    BY <1>1 DEF Advance, Seen, Asking
  <2> QED
    BY <1>1, <2>1 DEF Advance, Reads!Next, Reads!Advance, Seen
<1>2. ASSUME NEW q \in Queries, Insufficient(q)
      PROVE  Reads!Fail(q)
  <2>1. query' = [query EXCEPT ![q] = Over(height, Failed)] /\ UNCHANGED height
    BY <1>2 DEF Insufficient
  <2>2. seen' = [seen EXCEPT ![q] = [reading |-> FALSE, from |-> height, value |-> Failed]]
    BY <2>1, SeenAfter DEF Over, RouterInv
  <2> QED
    BY <2>1, <2>2 DEF Reads!Fail, Reads!Failed, Failed, Seen
<1>3. ASSUME NEW q \in Queries, Select(q)
      PROVE  Reads!Call(q)
  <2>1. PICK chosen \in Choices :
            query' = [query EXCEPT ![q] = [nodes |-> chosen, answer |-> [n \in chosen |-> Waiting],
                                           from |-> height, value |-> Failed]]
    BY <1>3 DEF Select
  <2>2. chosen # {}
    BY <1>3, ChoiceIsEligible DEF Select
  <2>3. seen' = [seen EXCEPT ![q] = [reading |-> TRUE, from |-> height, value |-> Failed]]
    BY <2>1, <2>2, SeenAfter DEF RouterInv
  <2>4. ~seen[q].reading /\ UNCHANGED height
    BY <1>3 DEF Select, Seen
  <2> QED
    BY <2>3, <2>4 DEF Reads!Call, Reads!Failed, Failed, Seen
<1>4. ASSUME NEW q \in Queries, NEW n \in query[q].nodes, NEW v \in Answers(n), QueryNode(q, n, v)
      PROVE  UNCHANGED <<height, seen>>
  <2>1. query' = [query EXCEPT ![q].answer[n] = v] /\ UNCHANGED height
    BY <1>4 DEF QueryNode
  <2>2. \A p \in Queries : /\ query'[p].nodes = query[p].nodes
                           /\ query'[p].from = query[p].from
                           /\ query'[p].value = query[p].value
    BY <2>1 DEF RouterInv, Calls, CallRecords
  <2> QED
    BY <2>1, <2>2 DEF Seen, Asking
<1>5. ASSUME NEW q \in Queries, Tally(q)
      PROVE  Reads!Return(q) \/ Reads!Fail(q)
  <2>1. seen[q] = Seen(q) /\ Seen(q).reading /\ Seen(q).from = query[q].from /\ UNCHANGED height
    BY <1>5 DEF Tally, Seen
  <2>2. ASSUME NEW v \in Votes, Wins(q, v), query' = [query EXCEPT ![q] = Over(query[q].from, v)]
        PROVE  Reads!Return(q)
    <3>1. v \in query[q].from..height
      BY <2>2, WinnerIsRegular
    <3>2. seen' = [seen EXCEPT ![q] = [reading |-> FALSE, from |-> query[q].from, value |-> v]]
      BY <2>2, SeenAfter DEF Over, RouterInv
    <3> QED
      BY <2>1, <3>1, <3>2 DEF Reads!Return, Seen
  <2>3. ASSUME query' = [query EXCEPT ![q] = Over(query[q].from, Failed)]
        PROVE  Reads!Fail(q)
    <3>1. seen' = [seen EXCEPT ![q] = [reading |-> FALSE, from |-> query[q].from, value |-> Failed]]
      BY <2>3, SeenAfter DEF Over, RouterInv
    <3> QED
      BY <2>1, <3>1 DEF Reads!Fail, Reads!Failed, Failed, Seen
  <2> QED
    BY <1>5, <2>2, <2>3 DEF Tally
<1>6. CASE UNCHANGED vars
  BY <1>6 DEF vars, Reads!vars, Asking
<1> QED
  BY <1>1, <1>2, <1>3, <1>4, <1>5, <1>6 DEF Next, Reads!Next, Reads!vars, Seen

\* "3-node Byzantine fault-tolerant consensus": with at most one faulty node
\* among any number of nodes, query_with_consensus returns a height that was
\* current during the call, or an error: the router implements RegularRead.
THEOREM ConsensusIsRegular == Spec => ResultIsRegular
<1>1. Init => Reads!Init
  <2> SUFFICES ASSUME Init PROVE Reads!Init
    OBVIOUS
  <2>1. \A q \in Queries : [reading |-> Asking(q), from |-> query[q].from, value |-> query[q].value]
                             = [reading |-> FALSE, from |-> 0, value |-> Failed]
    BY DEF Init, Over, Asking
  <2> QED
    BY <2>1 DEF Init, Reads!Init, Reads!Failed, Failed
<1>2. RouterInv /\ [Next]_vars => [Reads!Next]_(Reads!vars)
  BY StepIsRegular
<1> QED
  BY <1>1, <1>2, RouterInvariant, PTL DEF Spec, Reads!Spec, ResultIsRegular

-----------------------------------------------------------------------------
\* A strike comes from a tally, for an answer that is not the winner's.
LEMMA StrikeIsADissent ==
    ASSUME RouterInv, [Next]_vars, NEW n \in Nodes, strikes'[n] > strikes[n]
    PROVE  \E q \in Queries : \E v \in Votes :
             /\ Tally(q) /\ Wins(q, v)
             /\ n \in query[q].nodes /\ query[q].answer[n] # v /\ query[q].answer[n] # Waiting
             /\ query'[q].nodes = {}
<1>1. strikes[n] \in Nat /\ strikes' # strikes
  BY DEF RouterInv, Calls
<1>2. PICK q \in Queries : Tally(q)
  BY <1>1 DEF Next, vars, Advance, Insufficient, Select, QueryNode
<1>3. PICK v \in Votes :
        /\ Wins(q, v)
        /\ query' = [query EXCEPT ![q] = Over(query[q].from, v)]
        /\ strikes' = [m \in Nodes |-> IF m \in Dissenting(q, v) THEN Punished(strikes[m])
                                                                  ELSE strikes[m]]
  BY <1>1, <1>2 DEF Tally
<1>4. n \in Dissenting(q, v)
  BY <1>1, <1>3
<1>5. n \in query[q].nodes /\ query[q].answer[n] # v /\ query[q].answer[n] # Waiting
  BY <1>2, <1>4 DEF Dissenting, Agreeing, Tally
<1>6. query'[q].nodes = {}
  BY <1>3 DEF RouterInv, Calls, Over
<1> QED
  BY <1>2, <1>3, <1>5, <1>6

\* punish_node is called on a correct node only when its own request failed, or
\* when the chain moved during the call: the faulty node frames nobody.
THEOREM CorrectNodesAreNotFramed == Spec => NoFraming
<1> DEFINE Framed(n) ==
             \E q \in Queries :
                /\ n \in query[q].nodes /\ n \notin query'[q].nodes
                /\ query[q].answer[n] = Failed \/ query[q].from < height
<1>1. ASSUME RouterInv, [Next]_vars, NEW n \in Nodes \ Faulty, strikes'[n] > strikes[n]
      PROVE  Framed(n)
  <2>1. PICK q \in Queries, v \in Votes :
             /\ Wins(q, v)
             /\ n \in query[q].nodes /\ query[q].answer[n] # v /\ query[q].answer[n] # Waiting
             /\ query'[q].nodes = {}
    BY <1>1, StrikeIsADissent
  <2>2. v \in query[q].from..height
    BY <1>1, <2>1, WinnerIsRegular
  <2>3. \/ query[q].answer[n] = Failed
        \/ query[q].from <= query[q].answer[n] /\ query[q].answer[n] <= height
    BY <1>1, <2>1 DEF RouterInv, HonestAnswers
  <2>4. query[q].from \in Int /\ height \in Int /\ query[q].answer[n] \in Int
    BY <1>1, <2>1, ConsensusAssumption DEF RouterInv, Calls, CallRecords, Outcomes, Votes, Heights, Failed, Waiting, Null
  <2>5. query[q].answer[n] = Failed \/ query[q].from < height
    BY <2>1, <2>2, <2>3, <2>4
  <2> QED
    BY <2>1, <2>5
<1>2. RouterInv /\ [Next]_vars
      => [\A n \in Nodes \ Faulty : strikes'[n] > strikes[n] => Framed(n)]_vars
  BY <1>1
<1> QED
  BY <1>2, RouterInvariant, PTL DEF Spec, NoFraming

-----------------------------------------------------------------------------
\* The calls that may still punish a node are finitely many.
LEMMA PendingIsFinite ==
    ASSUME NEW n
    PROVE  /\ IsFiniteSet(Pending(n)) /\ Cardinality(Pending(n)) \in Nat
           /\ Cardinality(Pending(n)) <= Cardinality(Queries) /\ Cardinality(Queries) \in Nat
  BY ConsensusAssumption, FS_Subset, FS_CardinalityType DEF Pending

\* Strikes and pending calls together stay below the bound.
LEMMA StrikesStep ==
    ASSUME RouterInv, RouterInv', StrikesOwed, [Next]_vars
    PROVE  StrikesOwed'
<1> SUFFICES ASSUME NEW n \in Nodes
             PROVE  strikes'[n] + Cardinality(Pending(n)') < MaxStrikes + Cardinality(Queries)
  BY DEF StrikesOwed
<1>1. /\ strikes[n] \in Nat /\ strikes'[n] \in Nat /\ MaxStrikes \in Nat
      /\ strikes[n] + Cardinality(Pending(n)) < MaxStrikes + Cardinality(Queries)
  BY ConsensusAssumption DEF RouterInv, Calls, StrikesOwed
<1>2. /\ IsFiniteSet(Pending(n)) /\ Cardinality(Pending(n)) \in Nat /\ Cardinality(Queries) \in Nat
      /\ Cardinality(Pending(n)) <= Cardinality(Queries)
  BY PendingIsFinite
<1>3. ASSUME UNCHANGED strikes, Pending(n)' \subseteq Pending(n)
      PROVE  strikes'[n] + Cardinality(Pending(n)') < MaxStrikes + Cardinality(Queries)
  <2>1. Cardinality(Pending(n)') <= Cardinality(Pending(n)) /\ Cardinality(Pending(n)') \in Nat
    BY <1>2, <1>3, FS_Subset, FS_CardinalityType
  <2> QED
    BY <1>1, <1>2, <1>3, <2>1
<1>4. CASE Advance \/ UNCHANGED vars
  BY <1>3, <1>4 DEF Advance, vars, Pending
<1>5. ASSUME NEW q \in Queries, Insufficient(q)
      PROVE  strikes'[n] + Cardinality(Pending(n)') < MaxStrikes + Cardinality(Queries)
  <2>1. Pending(n)' \subseteq Pending(n)
    BY <1>5 DEF Insufficient, Pending, Over, RouterInv, Calls
  <2> QED
    BY <1>3, <1>5, <2>1 DEF Insufficient
<1>6. ASSUME NEW q \in Queries, Select(q)
      PROVE  strikes'[n] + Cardinality(Pending(n)') < MaxStrikes + Cardinality(Queries)
  <2>1. PICK chosen \in Choices :
            query' = [query EXCEPT ![q] = [nodes |-> chosen, answer |-> [m \in chosen |-> Waiting],
                                           from |-> height, value |-> Failed]]
    BY <1>6 DEF Select
  <2>2. CASE n \notin chosen
    <3>1. Pending(n)' \subseteq Pending(n)
      BY <2>1, <2>2 DEF Pending, RouterInv, Calls
    <3> QED
      BY <1>3, <1>6, <3>1 DEF Select
  <2>3. CASE n \in chosen
    <3>1. strikes[n] < MaxStrikes
      <4>1. n \in Eligible
        BY <1>6, <2>3, ChoiceIsEligible DEF Select
      <4> QED
        BY <1>1, <4>1 DEF Eligible, IsBlacklisted
    <3>2. Pending(n)' \subseteq Queries
      BY DEF Pending
    <3>3. Cardinality(Pending(n)') <= Cardinality(Queries) /\ Cardinality(Pending(n)') \in Nat
      BY <3>2, ConsensusAssumption, FS_Subset, FS_CardinalityType
    <3> QED
      BY <1>1, <1>2, <1>6, <3>1, <3>3 DEF Select
  <2> QED
    BY <2>2, <2>3
<1>7. ASSUME NEW q \in Queries, NEW m \in query[q].nodes, NEW v \in Answers(m), QueryNode(q, m, v)
      PROVE  strikes'[n] + Cardinality(Pending(n)') < MaxStrikes + Cardinality(Queries)
  <2>1. \A p \in Queries : query'[p].nodes = query[p].nodes
    BY <1>7 DEF QueryNode, RouterInv, Calls, CallRecords
  <2> QED
    BY <1>3, <1>7, <2>1 DEF QueryNode, Pending
<1>8. ASSUME NEW q \in Queries, Tally(q)
      PROVE  strikes'[n] + Cardinality(Pending(n)') < MaxStrikes + Cardinality(Queries)
  <2>1. PICK c : c.nodes = {} /\ query' = [query EXCEPT ![q] = c]
    BY <1>8 DEF Tally, Over
  <2>2. Pending(n)' = Pending(n) \ {q}
    BY <2>1 DEF Pending, RouterInv, Calls
  <2>3. \/ strikes'[n] = strikes[n]
        \/ strikes'[n] = strikes[n] + 1 /\ q \in Pending(n)
    BY <1>8, <1>1 DEF Tally, Dissenting, Punished, Pending
  <2>4. CASE strikes'[n] = strikes[n]
    <3>1. Cardinality(Pending(n)') <= Cardinality(Pending(n)) /\ Cardinality(Pending(n)') \in Nat
      BY <1>2, <2>2, FS_Subset, FS_CardinalityType
    <3> QED
      BY <1>1, <1>2, <2>4, <3>1
  <2>5. CASE strikes'[n] = strikes[n] + 1 /\ q \in Pending(n)
    <3>1. Cardinality(Pending(n)') = Cardinality(Pending(n)) - 1
      BY <1>2, <2>2, <2>5, FS_RemoveElement
    <3> QED
      BY <1>1, <1>2, <2>5, <3>1
  <2> QED
    BY <2>3, <2>4, <2>5
<1> QED
  BY <1>4, <1>5, <1>6, <1>7, <1>8 DEF Next

\* A node's strike_count stays below MaxStrikes plus the calls that can run at
\* once: blacklisting stops new calls from asking the node.
THEOREM StrikesAreBounded == Spec => []StrikesBounded
<1>1. Init => StrikesOwed
  <2> SUFFICES ASSUME Init, NEW n \in Nodes
               PROVE  strikes[n] + Cardinality(Pending(n)) < MaxStrikes + Cardinality(Queries)
    BY DEF StrikesOwed
  <2>1. Pending(n) = {}
    BY DEF Init, Pending, Over
  <2>2. Cardinality(Pending(n)) = 0
    BY <2>1, FS_EmptySet
  <2> QED
    BY <2>2, PendingIsFinite, ConsensusAssumption DEF Init
<1>2. RouterInv /\ RouterInv' /\ StrikesOwed /\ [Next]_vars => StrikesOwed'
  BY StrikesStep
<1>3. RouterInv /\ StrikesOwed => StrikesBounded
  <2> SUFFICES ASSUME RouterInv, StrikesOwed, NEW n \in Nodes
               PROVE  strikes[n] < MaxStrikes + Cardinality(Queries)
    BY DEF StrikesBounded
  <2>1. strikes[n] \in Nat /\ MaxStrikes \in Nat
    BY ConsensusAssumption DEF RouterInv, Calls
  <2> QED
    BY <2>1, PendingIsFinite DEF StrikesOwed
<1> QED
  BY <1>1, <1>2, <1>3, RouterInvariant, PTL DEF Spec

-----------------------------------------------------------------------------
\* A call under way has selected three nodes.
ThreeAsked == \A q \in Queries : Cardinality(query[q].nodes) \in {0, 3}

\* Selection takes three, the tally lets all of them go.
LEMMA ThreeStep ==
    ASSUME RouterInv, ThreeAsked, [Next]_vars
    PROVE  ThreeAsked'
<1>1. query \in [Queries -> CallRecords]
  BY DEF RouterInv, Calls
<1>2. ASSUME NEW q \in Queries, NEW c, query' = [query EXCEPT ![q] = c], Cardinality(c.nodes) \in {0, 3}
      PROVE  ThreeAsked'
  BY <1>1, <1>2 DEF ThreeAsked
<1>3. CASE Advance \/ UNCHANGED vars
  BY <1>3 DEF Advance, vars, ThreeAsked
<1>4. ASSUME NEW q \in Queries, Insufficient(q) \/ Tally(q)
      PROVE  ThreeAsked'
  <2>1. PICK c : c.nodes = {} /\ query' = [query EXCEPT ![q] = c]
    BY <1>4 DEF Insufficient, Tally, Over
  <2> QED
    BY <1>2, <2>1, FS_EmptySet
<1>5. ASSUME NEW q \in Queries, Select(q)
      PROVE  ThreeAsked'
  <2>1. PICK chosen \in Choices :
            query' = [query EXCEPT ![q] = [nodes |-> chosen, answer |-> [m \in chosen |-> Waiting],
                                           from |-> height, value |-> Failed]]
    BY <1>5 DEF Select
  <2>2. ~(Cardinality(Eligible) < 3)
    BY <1>5 DEF Select, TooFew
  <2>3. Cardinality(chosen) = 3
    BY <2>2 DEF Choices
  <2> QED
    BY <1>2, <2>1, <2>3
<1>6. ASSUME NEW q \in Queries, NEW m \in query[q].nodes, NEW v \in Answers(m), QueryNode(q, m, v)
      PROVE  ThreeAsked'
  <2>1. \A p \in Queries : query'[p].nodes = query[p].nodes
    BY <1>6 DEF QueryNode, RouterInv, Calls, CallRecords
  <2> QED
    BY <2>1 DEF ThreeAsked
<1> QED
  BY <1>3, <1>4, <1>5, <1>6 DEF Next

\* Strikes and calls keep their types: query_with_consensus asks three nodes or
\* none, and the height at which a call began is one the chain has had.
THEOREM RouterTypes == Spec => []TypeOK
<1>1. Init => ThreeAsked
  BY FS_EmptySet DEF Init, Over, ThreeAsked
<1>2. RouterInv /\ ThreeAsked => TypeOK
  <2> SUFFICES ASSUME RouterInv, ThreeAsked, NEW q \in Queries
               PROVE  /\ query[q].nodes \subseteq Nodes
                      /\ query[q].answer \in [query[q].nodes -> Votes \cup {Failed, Waiting}]
                      /\ query[q].from \in 0..height
                      /\ query[q].value \in Votes \cup {Failed}
    BY DEF RouterInv, Calls, TypeOK, ThreeAsked
  <2>1. query[q] \in CallRecords
    BY DEF RouterInv, Calls
  <2>2. query[q].from \in Heights /\ query[q].from <= height /\ height \in Heights
    BY <2>1 DEF CallRecords, RouterInv, Calls, HonestAnswers
  <2>3. query[q].from \in 0..height
    BY <2>2, ConsensusAssumption DEF Heights
  <2>4. query[q].answer \in [query[q].nodes -> Votes \cup {Failed, Waiting}]
    BY DEF RouterInv, Calls, Outcomes
  <2> QED
    BY <2>1, <2>3, <2>4 DEF CallRecords
<1> QED
  BY <1>1, <1>2, RouterInvariant, ThreeStep, PTL DEF Spec
=============================================================================
