-------------------------- MODULE ConsensusRouter --------------------------
(***************************************************************************)
(* query_with_consensus (consensus.rs): three nodes that are not           *)
(* blacklisted are asked at once, two equal answers win, and the node that *)
(* did not give it gets a strike.  Several calls share the strikes.  The   *)
(* module is not wired into the daemon yet.                                *)
(*                                                                         *)
(* The chain moves on while nodes answer: an answer is the height a node   *)
(* has seen.  A correct node answers with the current height or fails (an  *)
(* error, a timeout of 5 seconds, a body that is not JSON); a faulty node  *)
(* answers anything.  A body with neither error nor result is a vote for   *)
(* null; the JSON-RPC of a correct node always has one of the two.         *)
(*                                                                         *)
(* available_nodes is a slice of endpoints.  The model presumes that it    *)
(* does not repeat one, which query_with_consensus does not check.         *)
(***************************************************************************)
EXTENDS Integers, FiniteSets

CONSTANTS Nodes,       \* available_nodes, without repetition
          Faulty,      \* the ones that may lie
          Queries,     \* concurrent calls
          MaxStrikes,  \* 3
          MaxHeight    \* bound on the chain

ASSUME ConsensusAssumption ==
    /\ IsFiniteSet(Nodes) /\ Faulty \subseteq Nodes /\ IsFiniteSet(Queries)
    /\ Cardinality(Faulty) <= 1
    /\ MaxStrikes \in Nat \ {0} /\ MaxHeight \in Nat

VARIABLES height,
          strikes,   \* strike_count of every node
          query      \* every call: the nodes selected, their answers, its result

vars == <<height, strikes, query>>

Heights == 0..MaxHeight
Failed == -1    \* an answer, or a result, that is an error
Waiting == -2   \* no answer yet
Null == -3      \* json["result"] of a body that has none
Votes == Heights \cup {Null}

TypeOK ==
    /\ height \in Heights
    /\ strikes \in [Nodes -> Nat]
    /\ \A q \in Queries :
        /\ query[q].nodes \subseteq Nodes
        /\ Cardinality(query[q].nodes) \in {0, 3}
        /\ query[q].answer \in [query[q].nodes -> Votes \cup {Failed, Waiting}]
        /\ query[q].from \in 0..height
        /\ query[q].value \in Votes \cup {Failed}

\* A call that is over, or has not begun, has selected nobody.
Over(from, value) == [nodes |-> {}, answer |-> <<>>, from |-> from, value |-> value]

Init ==
    /\ height = 0
    /\ strikes = [n \in Nodes |-> 0]
    /\ query = [q \in Queries |-> Over(0, Failed)]

-----------------------------------------------------------------------------
Advance ==
    /\ height < MaxHeight
    /\ height' = height + 1
    /\ UNCHANGED <<strikes, query>>

Asking(q) == query[q].nodes # {}

\* Mutant: the last strike does not count.
MutantIsBlacklisted(n) == strikes[n] > MaxStrikes

IsBlacklisted(n) == strikes[n] >= MaxStrikes

Eligible == {n \in Nodes : ~IsBlacklisted(n)}

TooFew == Cardinality(Eligible) < 3

\* ConsensusError::InsufficientNodes
Insufficient(q) ==
    /\ ~Asking(q)
    /\ TooFew
    /\ query' = [query EXCEPT ![q] = Over(height, Failed)]
    /\ UNCHANGED <<height, strikes>>

\* choose_multiple takes three nodes, or all when there are fewer.
Choices == IF Cardinality(Eligible) < 3 THEN {Eligible} ELSE {c \in SUBSET Eligible : Cardinality(c) = 3}

\* The three requests are sent.
Select(q) ==
    /\ ~Asking(q)
    /\ ~TooFew
    /\ \E chosen \in Choices :
           query' = [query EXCEPT ![q] =
                        [nodes |-> chosen, answer |-> [n \in chosen |-> Waiting],
                         from |-> height, value |-> Failed]]
    /\ UNCHANGED <<height, strikes>>

\* query_node: what node n may answer now.
Answers(n) == IF n \in Faulty THEN Votes \cup {Failed} ELSE {height, Failed}

QueryNode(q, n, v) ==
    /\ n \in query[q].nodes
    /\ query[q].answer[n] = Waiting
    /\ query' = [query EXCEPT ![q].answer[n] = v]
    /\ UNCHANGED <<height, strikes>>

Agreeing(q, v) == {n \in query[q].nodes : query[q].answer[n] = v}

\* Mutant: one vote is enough.
MutantWins(q, v) == Agreeing(q, v) # {}

\* "agreeing_nodes.len() >= 2"
Wins(q, v) == Cardinality(Agreeing(q, v)) >= 2

\* Mutant: the nodes that agreed are punished.
MutantDissenting(q, v) == Agreeing(q, v)

\* "if !agreeing_nodes.contains(node_id)": also a node that failed.
Dissenting(q, v) == query[q].nodes \ Agreeing(q, v)

\* punish_node: one more strike; the reason and the time are of the first.
Punished(strike_count) == strike_count + 1

\* join_all is done: the tally, the strikes (punish_node) and the result.  With
\* no winner it is AllNodesFailed or NoConsensus, and nobody is punished.
Tally(q) ==
    /\ Asking(q)
    /\ Agreeing(q, Waiting) = {}
    /\ \/ \E v \in Votes :
            /\ Wins(q, v)
            /\ query' = [query EXCEPT ![q] = Over(query[q].from, v)]
            /\ strikes' = [n \in Nodes |-> IF n \in Dissenting(q, v) THEN Punished(strikes[n])
                                                                     ELSE strikes[n]]
       \/ /\ \A v \in Votes : ~Wins(q, v)
          /\ query' = [query EXCEPT ![q] = Over(query[q].from, Failed)]
          /\ UNCHANGED strikes
    /\ UNCHANGED height

Next ==
    \/ Advance
    \/ \E q \in Queries :
        \/ Insufficient(q)
        \/ Select(q)
        \/ \E n \in query[q].nodes : \E v \in Answers(n) : QueryNode(q, n, v)
        \/ Tally(q)

Spec == Init /\ [][Next]_vars

-----------------------------------------------------------------------------
\* "3-node Byzantine fault-tolerant consensus": with at most one faulty node,
\* a result is a height that was current during the call, although correct
\* nodes answer at different times.
Reads == INSTANCE RegularRead WITH
            read <- [q \in Queries |-> [reading |-> Asking(q), from |-> query[q].from,
                                        value |-> query[q].value]]
ResultIsRegular == Reads!Spec

\* One faulty node cannot frame another: a correct node is punished only for a
\* failure of its own, or in a call during which the chain moved.
NoFraming ==
    [][\A n \in Nodes \ Faulty :
        strikes'[n] > strikes[n] =>
            \E q \in Queries :
                /\ n \in query[q].nodes /\ n \notin query'[q].nodes
                /\ query[q].answer[n] = Failed \/ query[q].from < height]_vars

\* Calls under way when a node is blacklisted still punish it, but no other
\* call does: its strikes stay below MaxStrikes plus one per concurrent call.
StrikesBounded ==
    \A n \in Nodes : strikes[n] < MaxStrikes + Cardinality(Queries)
=============================================================================
