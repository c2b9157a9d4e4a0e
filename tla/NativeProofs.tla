---------------------------- MODULE NativeProofs ----------------------------
(***************************************************************************)
(* Proofs about the mobile library: its C interface and P2P node           *)
(* (MobileNode) for any number of app threads and of calls of init_node,   *)
(* and its relay (RelayClient) for any number of overlapping calls of      *)
(* start and of forward_rpc.                                               *)
(*                                                                         *)
(* The arguments about the relay rest on what can be set once: RELAY_RT    *)
(* names the only start that goes on past it, RELAY_TX the only start that *)
(* may still raise RELAY_RUNNING.                                          *)
(***************************************************************************)
EXTENDS MobileNode, RelayClient, SumTheorems, SequenceTheorems, TLAPS

SetterRecords == [at : {"idle", "governor", "global"}, state : 0..2, alone : BOOLEAN]

GovernorTypes ==
    /\ throttle \in [ffi : 0..2, governor : 0..2, global : 0..2]
    /\ setter \in [Setters -> SetterRecords]
    /\ settled \in BOOLEAN

\* A setter that nobody has disturbed is the only one at work, and has written
\* the copies up to where it is.
Undisturbed ==
    \A r \in Setters :
        (setter[r].at # "idle" /\ setter[r].alone = TRUE) =>
            /\ \A q \in Setters \ {r} : setter[q].at = "idle"
            /\ throttle.ffi = setter[r].state
            /\ setter[r].at = "global" => throttle.governor = setter[r].state

GovernorInv == GovernorTypes /\ Undisturbed /\ CopiesAgree

\* The calls of init_node and their nodes, and the flag.
NodeInv ==
    /\ task \in [Inits -> Stages]
    /\ tx \in Inits \cup {None}
    /\ RunningHasANode

-----------------------------------------------------------------------------
\* All three copies start in standby and no setter is at work.
LEMMA GovernorInit == Init => GovernorInv
  BY DEF Init, GovernorInv, GovernorTypes, SetterRecords, Undisturbed, CopiesAgree, Standby

\* A store by one setter leaves an undisturbed setter alone only if it is that one.
LEMMA GovernorStep == GovernorInv /\ [Next]_vars => GovernorInv'
<1> SUFFICES ASSUME GovernorInv, [Next]_vars
             PROVE  GovernorInv'
  OBVIOUS
<1> USE DEF GovernorInv
<1>1. ASSUME NEW r \in Setters, NEW state \in States, NEW s \in Sessions, SetThrottle(r, state, s)
      PROVE  GovernorInv'
  <2>1. Clamped(state) \in 0..2
    BY MobileAssumption DEF Clamped
  <2>2. /\ throttle' \in [ffi : 0..2, governor : 0..2, global : 0..2]
        /\ throttle'.ffi = Clamped(state)
    BY <1>1, <2>1 DEF SetThrottle, GovernorTypes
  <2> DEFINE quiet == \A o \in Setters : setter[o].at = "idle"
  <2>3. setter' \in [Setters -> SetterRecords]
    <3> SUFFICES ASSUME NEW q \in Setters
                 PROVE  (IF q = r
                         THEN [at |-> "governor", state |-> Clamped(state), alone |-> quiet]
                         ELSE [setter[q] EXCEPT !.alone = @ /\ setter[q].at = "idle"]) \in SetterRecords
      BY <1>1 DEF SetThrottle
    <3>1. quiet \in BOOLEAN /\ (setter[q].alone /\ setter[q].at = "idle") \in BOOLEAN
      OBVIOUS
    <3> QED
      BY <2>1, <3>1 DEF GovernorTypes, SetterRecords
  <2>4. /\ setter'[r].at = "governor" /\ setter'[r].state = Clamped(state)
        /\ setter'[r].alone = quiet
    BY <1>1 DEF SetThrottle
  <2>5. ASSUME NEW q \in Setters, q # r
        PROVE  /\ setter'[q].at = setter[q].at /\ setter'[q].state = setter[q].state
               /\ setter[q].at # "idle" => setter'[q].alone = FALSE
    BY <1>1, <2>5 DEF SetThrottle, GovernorTypes, SetterRecords
  <2>6. Undisturbed'
    <3> SUFFICES ASSUME NEW q \in Setters, setter'[q].at # "idle", setter'[q].alone = TRUE
                 PROVE  /\ \A o \in Setters \ {q} : setter'[o].at = "idle"
                        /\ throttle'.ffi = setter'[q].state
                        /\ setter'[q].at = "global" => throttle'.governor = setter'[q].state
      BY DEF Undisturbed
    <3>1. q = r /\ quiet
      BY <2>4, <2>5
    <3> QED
      BY <2>2, <2>4, <2>5, <3>1
  <2>7. CopiesAgree'
    BY <2>4 DEF CopiesAgree
  <2> QED
    BY <1>1, <2>2, <2>3, <2>6, <2>7 DEF SetThrottle, GovernorTypes
<1>2. ASSUME NEW r \in Setters, SetGovernor(r)
      PROVE  GovernorInv'
  <2>1. /\ throttle' \in [ffi : 0..2, governor : 0..2, global : 0..2]
        /\ throttle'.governor = setter[r].state /\ throttle'.ffi = throttle.ffi
    BY <1>2 DEF SetGovernor, GovernorTypes, SetterRecords
  <2>2. /\ setter' \in [Setters -> SetterRecords] /\ settled' = settled
        /\ \A q \in Setters \ {r} : setter'[q] = setter[q]
        /\ setter[r].at = "governor" /\ setter'[r].at = "global"
        /\ setter'[r].state = setter[r].state /\ setter'[r].alone = setter[r].alone
    BY <1>2 DEF SetGovernor, GovernorTypes, SetterRecords
  <2>3. Undisturbed'
    <3> SUFFICES ASSUME NEW q \in Setters, setter'[q].at # "idle", setter'[q].alone = TRUE
                 PROVE  /\ \A o \in Setters \ {q} : setter'[o].at = "idle"
                        /\ throttle'.ffi = setter'[q].state
                        /\ setter'[q].at = "global" => throttle'.governor = setter'[q].state
      BY DEF Undisturbed
    <3>1. CASE q = r
      BY <2>1, <2>2, <3>1 DEF Undisturbed
    <3>2. CASE q # r
      BY <2>2, <3>2 DEF Undisturbed
    <3> QED
      BY <3>1, <3>2
  <2>4. CopiesAgree'
    BY <2>2 DEF CopiesAgree
  <2> QED
    BY <2>1, <2>2, <2>3, <2>4 DEF GovernorTypes
<1>3. ASSUME NEW r \in Setters, UpdateGlobalState(r)
      PROVE  GovernorInv'
  <2>1. /\ throttle' \in [ffi : 0..2, governor : 0..2, global : 0..2]
        /\ throttle'.global = setter[r].state
        /\ throttle'.ffi = throttle.ffi /\ throttle'.governor = throttle.governor
    BY <1>3 DEF UpdateGlobalState, Published, GovernorTypes, SetterRecords
  <2>2. /\ setter' \in [Setters -> SetterRecords] /\ settled' = setter[r].alone
        /\ \A q \in Setters \ {r} : setter'[q] = setter[q]
        /\ setter[r].at = "global" /\ setter'[r].at = "idle"
    BY <1>3 DEF UpdateGlobalState, GovernorTypes, SetterRecords, Standby
  <2>3. setter[r].alone \in BOOLEAN
    BY DEF GovernorTypes, SetterRecords
  <2>4. Undisturbed'
    <3> SUFFICES ASSUME NEW q \in Setters, setter'[q].at # "idle", setter'[q].alone = TRUE
                 PROVE  /\ \A o \in Setters \ {q} : setter'[o].at = "idle"
                        /\ throttle'.ffi = setter'[q].state
                        /\ setter'[q].at = "global" => throttle'.governor = setter'[q].state
      BY DEF Undisturbed
    <3>1. q # r
      BY <2>2
    <3> QED
      BY <2>1, <2>2, <3>1 DEF Undisturbed
  <2>5. CopiesAgree'
    BY <2>1, <2>2, <2>3 DEF CopiesAgree, Undisturbed
  <2> QED
    BY <2>1, <2>2, <2>3, <2>4, <2>5 DEF GovernorTypes
<1>4. CASE UNCHANGED governor
  BY <1>4 DEF governor, GovernorTypes, Undisturbed, CopiesAgree
<1> QED
  BY <1>1, <1>2, <1>3, <1>4
     DEF Next, vars, governor, InitGovernor, StartRelay, DialPeer, CheckRunning, Spawn, BuildSwarm,
         TakeDial, PeerConnected, PeerClosed, LeaveLoop, EndTask

\* solnet_set_throttle_state writes its three copies one by one; once no call is
\* under way they agree, unless calls overlapped.
THEOREM ThrottleCopiesAgree == Spec => []CopiesAgree
  BY GovernorInit, GovernorStep, PTL DEF Spec, GovernorInv

-----------------------------------------------------------------------------
\* No node, no flag.
LEMMA NodeInit == Init => NodeInv
  BY DEF Init, NodeInv, RunningHasANode, Stages

\* The flag goes up with a loop and comes down with it.
LEMMA NodeStep == NodeInv /\ [Next]_vars => NodeInv'
<1> SUFFICES ASSUME NodeInv, [Next]_vars
             PROVE  NodeInv'
  OBVIOUS
<1> USE DEF NodeInv
<1>1. ASSUME NEW i \in Inits, NEW s \in Sessions, CheckRunning(i, s)
      PROVE  NodeInv'
  BY <1>1 DEF CheckRunning, RunningHasANode, Stages
<1>2. ASSUME NEW i \in Inits, Spawn(i)
      PROVE  NodeInv'
  BY <1>2 DEF Spawn, Kept, RunningHasANode, Stages
<1>3. ASSUME NEW i \in Inits, NEW ok \in BOOLEAN, BuildSwarm(i, ok)
      PROVE  NodeInv'
  <2>1. task' \in [Inits -> Stages] /\ task'[i] \in {"serving", "leaving"} /\ UNCHANGED tx
    BY <1>3 DEF BuildSwarm, Stages
  <2> QED
    BY <2>1 DEF RunningHasANode
<1>4. ASSUME NEW i \in Inits, LeaveLoop(i)
      PROVE  NodeInv'
  <2>1. task' \in [Inits -> Stages] /\ task'[i] = "leaving" /\ UNCHANGED tx
    BY <1>4 DEF LeaveLoop, Stages
  <2> QED
    BY <2>1 DEF RunningHasANode
<1>5. ASSUME NEW i \in Inits, EndTask(i)
      PROVE  NodeInv'
  BY <1>5 DEF EndTask, FlagAfter, RunningHasANode, Stages
<1>6. CASE UNCHANGED <<running, tx, task>>
  BY <1>6 DEF RunningHasANode
<1> QED
  BY <1>1, <1>2, <1>3, <1>4, <1>5, <1>6
     DEF Next, vars, InitGovernor, StartRelay, DialPeer, SetThrottle, SetGovernor, UpdateGlobalState,
         TakeDial, PeerConnected, PeerClosed

\* So a raised flag always has a node.
LEMMA NodeInvariant == Spec => []NodeInv
  BY NodeInit, NodeStep, PTL DEF Spec

\* P2P_RUNNING is never left set by nodes that have ended, whatever order the
\* nodes of overlapping calls of init_node set and clear it in.
THEOREM FlagHasANode == Spec => []RunningHasANode
  BY NodeInvariant, PTL DEF NodeInv

\* The node whose sender SWARM_TX holds goes on serving and goes on being
\* reached: no later call of init_node and no other node's end stops it.
THEOREM ServingNodeStays == Spec => FirstNodeStays
<1>1. ASSUME NodeInv, Next, NEW i \in Inits, tx = i, task[i] = "serving"
      PROVE  tx' = i /\ task'[i] = "serving"
  <2>1. i # None
    BY MobileAssumption
  <2>2. tx' = i
    BY <1>1, <2>1
       DEF Next, InitGovernor, StartRelay, DialPeer, SetThrottle, SetGovernor, UpdateGlobalState,
           CheckRunning, Spawn, Kept, BuildSwarm, TakeDial, PeerConnected, PeerClosed, LeaveLoop, EndTask
  <2>3. task'[i] = "serving"
    BY <1>1
       DEF NodeInv, Next, InitGovernor, StartRelay, DialPeer, SetThrottle, SetGovernor, UpdateGlobalState,
           CheckRunning, Spawn, BuildSwarm, TakeDial, PeerConnected, PeerClosed, LeaveLoop, NoSender, EndTask
  <2> QED
    BY <2>2, <2>3
<1>2. NodeInv /\ [Next]_vars =>
        [\A i \in Inits : (tx = i /\ task[i] = "serving") => (tx' = i /\ task'[i] = "serving")]_vars
  BY <1>1
<1> QED
  BY <1>2, NodeInvariant, PTL DEF Spec, FirstNodeStays

-----------------------------------------------------------------------------
\* PEER_COUNT is kept apart from the connections of the swarms; both are natural
\* numbers, and the count covers them.
CountInv ==
    /\ open \in [Inits -> Nat]
    /\ peer_count \in Nat
    /\ PeerCountCovers

\* An event of one connection changes the count and the sum by one.
LEMMA CountStep == CountInv /\ [Next]_vars => CountInv'
<1> SUFFICES ASSUME CountInv, [Next]_vars
             PROVE  CountInv'
  OBVIOUS
<1> DEFINE connections == SumFunctionOnSet(open, Inits)
<1>1. IsFiniteSet(Inits) /\ connections \in Nat /\ \A i \in Inits : open[i] <= connections
  <2>1. IsFiniteSet(Inits) /\ \A i \in Inits : open[i] \in Nat
    BY MobileAssumption DEF CountInv
  <2>2. connections \in Nat
    BY <2>1, SumSubset
  <2>3. ASSUME NEW i \in Inits
        PROVE  open[i] <= connections
    <3>1. SumFunctionOnSet(open, Inits) = open[i] + SumFunctionOnSet(open, Inits \ {i})
      BY <2>1, SumRemove
    <3>2. SumFunctionOnSet(open, Inits \ {i}) \in Nat
      BY <2>1, SumSubset
    <3> QED
      BY <2>1, <3>1, <3>2
  <2> QED
    BY <2>1, <2>2, <2>3
<1>2. ASSUME NEW i \in Inits, NEW n \in Nat, open' = [open EXCEPT ![i] = n]
      PROVE  /\ open' \in [Inits -> Nat]
             /\ SumFunctionOnSet(open', Inits) = connections + n - open[i]
  <2>1. /\ open' \in [Inits -> Nat] /\ open \in [Inits -> Nat]
        /\ open'[i] = n /\ \A j \in Inits \ {i} : open'[j] = open[j]
    BY <1>2 DEF CountInv
  <2>2. \A j \in Inits : open[j] \in Int /\ open'[j] \in Int
    BY <2>1
  <2>3. SumFunctionOnSet(open', Inits) = SumFunctionOnSet(open, Inits) + open'[i] - open[i]
    BY <1>1, <2>1, <2>2, SumChange
  <2> QED
    BY <2>1, <2>3
<1> HIDE DEF connections
<1>3. ASSUME NEW i \in Inits, PeerConnected(i)
      PROVE  CountInv'
  <2>1. open[i] \in Nat /\ open' = [open EXCEPT ![i] = open[i] + 1] /\ peer_count' = peer_count + 1
    BY <1>3 DEF PeerConnected, CountInv
  <2>2. SumFunctionOnSet(open', Inits) = connections + 1 /\ open' \in [Inits -> Nat]
    <3> DEFINE n == open[i] + 1
    <3>1. n \in Nat /\ open' = [open EXCEPT ![i] = n]
      BY <2>1
    <3> HIDE DEF n
    <3>2. open' \in [Inits -> Nat] /\ SumFunctionOnSet(open', Inits) = connections + n - open[i]
      BY <1>2, <3>1
    <3> QED
      BY <1>1, <2>1, <3>2 DEF n
  <2> QED
    BY <1>1, <2>1, <2>2 DEF CountInv, PeerCountCovers, connections
<1>4. ASSUME NEW i \in Inits, PeerClosed(i)
      PROVE  CountInv'
  <2>1. /\ open[i] \in Nat /\ open[i] - 1 \in Nat
        /\ open' = [open EXCEPT ![i] = open[i] - 1] /\ peer_count' = peer_count - 1
    BY <1>4 DEF PeerClosed, CountInv
  <2>2. SumFunctionOnSet(open', Inits) = connections - 1 /\ open' \in [Inits -> Nat]
    <3> DEFINE n == open[i] - 1
    <3>1. n \in Nat /\ open' = [open EXCEPT ![i] = n]
      BY <2>1
    <3> HIDE DEF n
    <3>2. open' \in [Inits -> Nat] /\ SumFunctionOnSet(open', Inits) = connections + n - open[i]
      BY <1>2, <3>1
    <3> QED
      BY <1>1, <2>1, <3>2 DEF n
  <2>3. connections >= 1 /\ peer_count >= connections /\ peer_count \in Nat
    BY <1>1, <2>1 DEF CountInv, PeerCountCovers, connections
  <2> QED
    BY <1>1, <2>1, <2>2, <2>3 DEF CountInv, PeerCountCovers
<1>5. ASSUME NEW i \in Inits, LeaveLoop(i)
      PROVE  CountInv'
  <2>1. open[i] \in Nat /\ open' = [open EXCEPT ![i] = 0] /\ peer_count' = peer_count
    BY <1>5 DEF LeaveLoop, CountAfter, CountInv
  <2>2. SumFunctionOnSet(open', Inits) = connections - open[i] /\ open' \in [Inits -> Nat]
    <3> DEFINE n == 0
    <3>1. n \in Nat /\ open' = [open EXCEPT ![i] = n]
      BY <2>1
    <3> HIDE DEF n
    <3>2. open' \in [Inits -> Nat] /\ SumFunctionOnSet(open', Inits) = connections + n - open[i]
      BY <1>2, <3>1
    <3> QED
      BY <1>1, <2>1, <3>2 DEF n
  <2> QED
    BY <1>1, <2>1, <2>2 DEF CountInv, PeerCountCovers, connections
<1>6. CASE UNCHANGED <<open, peer_count>>
  BY <1>6 DEF CountInv, PeerCountCovers
<1> QED
  BY <1>3, <1>4, <1>5, <1>6
     DEF Next, vars, InitGovernor, StartRelay, DialPeer, SetThrottle, SetGovernor, UpdateGlobalState,
         CheckRunning, Spawn, BuildSwarm, TakeDial, EndTask

\* Nothing is connected and nothing counted at the start.
LEMMA CountInvariant == Spec => []CountInv
<1>1. Init => CountInv
  <2> SUFFICES ASSUME Init
               PROVE  CountInv
    OBVIOUS
  <2>1. open = [i \in Inits |-> 0] /\ peer_count = 0 /\ IsFiniteSet(Inits)
    BY MobileAssumption DEF Init
  <2>2. SumFunctionOnSet(open, Inits) = 0
    BY <2>1, SumZero
  <2> QED
    BY <2>1, <2>2 DEF CountInv, PeerCountCovers
<1> QED
  BY <1>1, CountStep, PTL DEF Spec

\* However nodes overlap and whichever of them end, PEER_COUNT covers the
\* connections of the nodes that serve: the fetch_sub of a closed connection
\* never takes it below zero.
THEOREM CountCoversConnections == Spec => []PeerCountCovers
<1>1. CountInv => PeerCountCovers
  BY DEF CountInv
<1> QED
  BY <1>1, CountInvariant, PTL

-----------------------------------------------------------------------------
\* The variables the other parts leave out: what is set once or on and off,
FlagTypes ==
    /\ token \in Sessions \cup {None}
    /\ runtime \in BOOLEAN
    /\ running \in BOOLEAN

\* and what is counted.
BoundTypes ==
    /\ dials \in 0..QueueLen
    /\ open \in [Inits -> 0..MaxOpen]

\* The flags take Boolean values only.
LEMMA FlagStep == FlagTypes /\ [Next]_vars => FlagTypes'
<1> SUFFICES ASSUME FlagTypes, [Next]_vars
             PROVE  FlagTypes'
  OBVIOUS
<1>1. ASSUME NEW s \in Sessions, InitGovernor(s)
      PROVE  FlagTypes'
  BY <1>1, Zenon DEF InitGovernor, FlagTypes
<1>2. ASSUME NEW s \in Sessions, StartRelay(s)
      PROVE  FlagTypes'
  <2>1. runtime' = TRUE /\ UNCHANGED <<token, running>>
    BY <1>2 DEF StartRelay
  <2> QED
    BY <2>1, Zenon DEF FlagTypes
<1>3. ASSUME NEW i \in Inits, NEW ok \in BOOLEAN, BuildSwarm(i, ok)
      PROVE  FlagTypes'
  <2>1. running' \in BOOLEAN /\ UNCHANGED <<token, runtime>>
    BY <1>3 DEF BuildSwarm
  <2> QED
    BY <2>1, Zenon DEF FlagTypes
<1>4. ASSUME NEW i \in Inits, EndTask(i)
      PROVE  FlagTypes'
  <2>1. running' = FALSE /\ UNCHANGED <<token, runtime>>
    BY <1>4 DEF EndTask, FlagAfter
  <2> QED
    BY <2>1, Zenon DEF FlagTypes
<1>5. CASE UNCHANGED <<token, runtime, running>>
  BY <1>5, Zenon DEF FlagTypes
<1> QED
  BY <1>1, <1>2, <1>3, <1>4, <1>5
     DEF Next, vars, DialPeer, SetThrottle, SetGovernor, UpdateGlobalState, CheckRunning, Spawn,
         TakeDial, PeerConnected, PeerClosed, LeaveLoop

\* Commands are sent into room and taken from what is there, and so are
\* connections opened and closed.
LEMMA BoundStep == BoundTypes /\ [Next]_vars => BoundTypes'
<1> SUFFICES ASSUME BoundTypes, [Next]_vars
             PROVE  BoundTypes'
  OBVIOUS
<1>1. QueueLen \in Nat /\ MaxOpen \in Nat
  BY MobileAssumption
<1>2. ASSUME NEW s \in Sessions, DialPeer(s)
      PROVE  BoundTypes'
  <2>1. dials' = dials + 1 /\ dials < QueueLen /\ open' = open
    BY <1>2 DEF DialPeer
  <2> QED
    BY <1>1, <2>1 DEF BoundTypes
<1>3. ASSUME NEW i \in Inits, TakeDial(i)
      PROVE  BoundTypes'
  <2>1. dials' = dials - 1 /\ dials > 0 /\ open' = open
    BY <1>3 DEF TakeDial
  <2> QED
    BY <1>1, <2>1 DEF BoundTypes
<1>4. ASSUME NEW i \in Inits, EndTask(i)
      PROVE  BoundTypes'
  <2>1. dials' \in {0, dials} /\ open' = open
    BY <1>4 DEF EndTask, CommandsAfter
  <2> QED
    BY <1>1, <2>1 DEF BoundTypes
<1>5. ASSUME NEW i \in Inits, PeerConnected(i) \/ PeerClosed(i) \/ LeaveLoop(i)
      PROVE  BoundTypes'
  BY <1>1, <1>5 DEF PeerConnected, PeerClosed, LeaveLoop, BoundTypes
<1>6. CASE UNCHANGED <<dials, open>>
  BY <1>6 DEF BoundTypes
<1> QED
  BY <1>2, <1>3, <1>4, <1>5, <1>6
     DEF Next, vars, InitGovernor, StartRelay, SetThrottle, SetGovernor, UpdateGlobalState,
         CheckRunning, Spawn, BuildSwarm

\* Statics, throttle copies, tasks and counters keep their types; the command
\* channel holds no more than it can, although a task that ends empties it under
\* the senders.
THEOREM NativeTypes == Spec => []TypeOK
<1>1. Init => FlagTypes
  BY Zenon DEF Init, FlagTypes
<1>2. Init => BoundTypes
  BY MobileAssumption DEF Init, BoundTypes
<1>3. GovernorInv /\ NodeInv /\ CountInv /\ FlagTypes /\ BoundTypes => TypeOK
  BY DEF GovernorInv, GovernorTypes, SetterRecords, NodeInv, CountInv, FlagTypes, BoundTypes, TypeOK
<1> QED
  BY <1>1, <1>2, <1>3, GovernorInit, GovernorStep, NodeInvariant, CountInvariant, FlagStep, BoundStep, PTL
     DEF Spec

-----------------------------------------------------------------------------
\* Which loop a start has, by how far it has come: none before it built one, and
\* past SetRuntime it owns RELAY_RT or has no loop left.
Owned ==
    /\ start \in [Starts -> StartStages]
    /\ loop \in [Starts -> LoopStages]
    /\ \A s \in Starts :
        /\ start[s] = "ready" => loop[s] = "none"
        /\ start[s] \in {"channel", "flag"} => relay_rt = s
        /\ start[s] \in {"ok", "error"} => loop[s] \in {"none", "ended", "broken"} \/ relay_rt = s

\* RELAY_RUNNING is raised once: before it is, no loop waits for requests.
RaisedOnce ==
    /\ relay_running \in BOOLEAN
    /\ relay_tx \in Starts \cup {Unset}
    /\ relay_tx = Unset => relay_running = FALSE /\ \A s \in Starts : loop[s] # "receive"
    /\ \A s \in Starts : start[s] = "flag" => relay_tx = s /\ relay_running = FALSE /\ loop[s] # "receive"

\* A request taken after stop is the last: the flag stays down, and the loop of
\* RELAY_TX does not wait for another.
TakenLate ==
    /\ late \in Nat
    /\ late <= 1
    /\ late = 1 => /\ relay_tx # Unset /\ relay_running = FALSE /\ loop[relay_tx] # "receive"
                   /\ \A s \in Starts : start[s] # "flag"

RelayInv == Owned /\ RaisedOnce /\ TakenLate

-----------------------------------------------------------------------------
\* Nothing has been set at the start.
LEMMA RelayInvInit == RelayInit => RelayInv
<1> SUFFICES ASSUME RelayInit
             PROVE  RelayInv
  OBVIOUS
<1>1. Owned
  BY DEF RelayInit, Owned, StartStages, LoopStages
<1>2. RaisedOnce
  BY DEF RelayInit, RaisedOnce
<1>3. TakenLate
  BY DEF RelayInit, TakenLate
<1> QED
  BY <1>1, <1>2, <1>3 DEF RelayInv

\* Each static is set once, by the start that owns what follows.
LEMMA RelayInvStep == RelayInv /\ [RelayNext]_relayVars => RelayInv'
<1> SUFFICES ASSUME RelayInv, [RelayNext]_relayVars
             PROVE  RelayInv'
  OBVIOUS
<1> USE UnsetAssumption DEF RelayInv
<1>1. ASSUME NEW s \in Starts, Build(s)
      PROVE  RelayInv'
  <2>1. Owned'
    BY <1>1 DEF Build, Owned, StartStages, LoopStages
  <2>2. RaisedOnce' /\ TakenLate'
    BY <1>1 DEF Build, Owned, RaisedOnce, TakenLate
  <2> QED
    BY <2>1, <2>2
<1>2. ASSUME NEW s \in Starts, SetRuntime(s)
      PROVE  RelayInv'
  <2>1. Owned'
    BY <1>2 DEF SetRuntime, Owned, StartStages, LoopStages
  <2>2. RaisedOnce' /\ TakenLate'
    BY <1>2 DEF SetRuntime, Owned, RaisedOnce, TakenLate
  <2> QED
    BY <2>1, <2>2
<1>3. ASSUME NEW s \in Starts, SetTx(s)
      PROVE  RelayInv'
  <2>1. Owned'
    BY <1>3 DEF SetTx, Owned, StartStages
  <2>2. RaisedOnce' /\ TakenLate'
    BY <1>3 DEF SetTx, Owned, RaisedOnce, TakenLate
  <2> QED
    BY <2>1, <2>2
<1>4. ASSUME NEW s \in Starts, SetRunning(s)
      PROVE  RelayInv'
  <2>1. Owned'
    BY <1>4 DEF SetRunning, Owned, StartStages
  <2>2. RaisedOnce' /\ TakenLate'
    BY <1>4 DEF SetRunning, Owned, RaisedOnce, TakenLate
  <2> QED
    BY <2>1, <2>2
<1>5. CASE Stop
  BY <1>5 DEF Stop, Owned, RaisedOnce, TakenLate
<1>6. ASSUME NEW s \in Starts, NEW how \in LoopStages \ {"receive"}, loop[s] \notin {"none", "ended", "broken"},
             loop' = [loop EXCEPT ![s] = how], UNCHANGED <<relay_running, relay_rt, relay_tx, start, late>>
      PROVE  RelayInv'
  <2>1. Owned'
    BY <1>6 DEF Owned, LoopStages
  <2>2. RaisedOnce' /\ TakenLate'
    BY <1>6 DEF Owned, RaisedOnce, TakenLate
  <2> QED
    BY <2>1, <2>2
<1>7. ASSUME NEW s \in Starts, NEW ok \in BOOLEAN, BuildClient(s, ok)
      PROVE  RelayInv'
  BY <1>6, <1>7 DEF BuildClient, End, LoopStages
<1>8. ASSUME NEW s \in Starts, Check(s)
      PROVE  RelayInv'
  <2>1. CASE relay_running
    <3>1. Owned'
      BY <1>8, <2>1 DEF Check, GoesOn, Owned, LoopStages
    <3>2. RaisedOnce' /\ TakenLate'
      BY <1>8, <2>1 DEF Check, GoesOn, Owned, RaisedOnce, TakenLate
    <3> QED
      BY <3>1, <3>2
  <2>2. CASE ~relay_running
    BY <1>6, <1>8, <2>2 DEF Check, GoesOn, End, LoopStages
  <2> QED
    BY <2>1, <2>2
<1>9. ASSUME NEW s \in Starts, Receive(s)
      PROVE  RelayInv'
  <2>1. Owned'
    BY <1>9 DEF Receive, Owned, LoopStages
  <2>2. RaisedOnce'
    BY <1>9 DEF Receive, Owned, RaisedOnce
  <2>3. TakenLate'
    BY <1>9 DEF Receive, Owned, RaisedOnce, TakenLate
  <2> QED
    BY <2>1, <2>2, <2>3
<1>10. ASSUME NEW s \in Starts, Idle(s)
       PROVE  RelayInv'
  BY <1>6, <1>10 DEF Idle, LoopStages
<1>11. CASE UNCHANGED <<relay_running, relay_rt, relay_tx, start, loop, late>>
  BY <1>11 DEF Owned, RaisedOnce, TakenLate
<1> QED
  BY <1>1, <1>2, <1>3, <1>4, <1>5, <1>7, <1>8, <1>9, <1>10, <1>11
     DEF RelayNext, relayVars, Starting, Looping, Calling, Forward, Send, Post, Respond

\* The three parts hold in every state.
LEMMA RelayInvariant == RelaySpec => []RelayInv
  BY RelayInvInit, RelayInvStep, PTL DEF RelaySpec

-----------------------------------------------------------------------------
\* However calls of start overlap, once they have returned the only relay_loop
\* left is the one on the runtime RELAY_RT holds.
THEOREM OneLoopIsLeft == RelaySpec => []OneLoop
<1>1. RelayInv => OneLoop
  BY DEF RelayInv, Owned, OneLoop
<1> QED
  BY <1>1, RelayInvariant, PTL

\* After stop the loop takes at most one more request off the channel, and no
\* later start raises the flag again.
THEOREM StopIsSeen == RelaySpec => []StopIsPrompt
<1>1. RelayInv => StopIsPrompt
  BY DEF RelayInv, TakenLate, StopIsPrompt
<1> QED
  BY <1>1, RelayInvariant, PTL

-----------------------------------------------------------------------------
\* The requests in the channel and the calls that wait for them.
ChannelTypes ==
    /\ queue \in Seq(Callers) /\ Len(queue) <= ChannelLen
    /\ call \in [Callers -> CallStages]
    /\ relay_rt \in Starts \cup {Unset}

\* try_send and recv keep the channel within its capacity.
LEMMA ChannelStep == ChannelTypes /\ [RelayNext]_relayVars => ChannelTypes'
<1> SUFFICES ASSUME ChannelTypes, [RelayNext]_relayVars
             PROVE  ChannelTypes'
  OBVIOUS
<1> USE RelayAssumption DEF ChannelTypes
<1>1. ASSUME NEW s \in Starts, Starting(s)
      PROVE  ChannelTypes'
  BY <1>1 DEF Starting, Build, SetRuntime, SetTx, SetRunning
<1>2. ASSUME NEW s \in Starts, NEW how, End(s, how), UNCHANGED relay_rt
      PROVE  ChannelTypes'
  <2>1. CASE s = relay_tx
    <3>1. call' \in [Callers -> CallStages] /\ queue' = <<>>
      BY <1>2, <2>1 DEF End, Abandoned, CallStages
    <3>2. queue' \in Seq(Callers) /\ Len(queue') = 0
      BY <3>1, EmptySeq
    <3> QED
      BY <1>2, <3>1, <3>2
  <2>2. CASE s # relay_tx
    BY <1>2, <2>2 DEF End
  <2> QED
    BY <2>1, <2>2
<1>3. ASSUME NEW s \in Starts, Receive(s)
      PROVE  ChannelTypes'
  <2>1. /\ Head(queue) \in Callers /\ Tail(queue) \in Seq(Callers)
        /\ Len(Tail(queue)) = Len(queue) - 1 /\ Len(queue) \in Nat
    BY <1>3, HeadTailProperties DEF Receive
  <2>2. call' \in [Callers -> CallStages]
    BY <1>3, <2>1 DEF Receive, CallStages
  <2> QED
    BY <1>3, <2>1, <2>2 DEF Receive
<1>4. ASSUME NEW s \in Starts, Looping(s)
      PROVE  ChannelTypes'
  BY <1>2, <1>3, <1>4 DEF Looping, BuildClient, Check, Idle
<1>5. ASSUME NEW c \in Callers, Send(c)
      PROVE  ChannelTypes'
  <2>1. CASE Closed
    BY <1>5, <2>1 DEF Send, CallStages
  <2>2. CASE ~Closed
    <3>1. /\ Append(queue, c) \in Seq(Callers) /\ Len(Append(queue, c)) = Len(queue) + 1
          /\ Len(queue) \in Nat
      BY AppendProperties
    <3> QED
      BY <1>5, <2>2, <3>1 DEF Send, Room, CallStages
  <2> QED
    BY <2>1, <2>2
<1>6. ASSUME NEW c \in Callers, Forward(c) \/ Post(c) \/ (\E ok \in BOOLEAN : Respond(c, ok))
      PROVE  ChannelTypes'
  BY <1>6 DEF Forward, Post, Respond, CallStages
<1>7. CASE Stop \/ UNCHANGED relayVars
  BY <1>7 DEF Stop, relayVars
<1> QED
  BY <1>1, <1>4, <1>5, <1>6, <1>7 DEF RelayNext, Calling

\* The channel of RELAY_TX never holds more than QueueLen requests, and every
\* variable keeps its type, although a loop that ends empties the channel under
\* the senders.
THEOREM RelayTypes == RelaySpec => []RelayTypeOK
<1>1. RelayInit => ChannelTypes
  BY RelayAssumption, EmptySeq DEF RelayInit, ChannelTypes, CallStages
<1>2. RelayInv /\ ChannelTypes => RelayTypeOK
  BY DEF RelayInv, Owned, RaisedOnce, TakenLate, ChannelTypes, RelayTypeOK
<1> QED
  BY <1>1, <1>2, ChannelStep, RelayInvariant, PTL DEF RelaySpec
=============================================================================
