----------------------------- MODULE MobileNode -----------------------------
(***************************************************************************)
(* The library the mobile app loads (sns-native): the calls of its C       *)
(* interface (lib.rs), the P2P node they start (p2p_node.rs) and the       *)
(* throttle state they set (mobile_governor.rs).  The calls come from      *)
(* threads of the app, each P2P node is a task on the runtime of the relay *)
(* (RelayClient).  GOVERNOR_TOKEN, RELAY_RT and SWARM_TX can be set once   *)
(* in the lifetime of the process.                                         *)
(*                                                                         *)
(* A call that fails its checks changes nothing and is a stuttering step.  *)
(* A node whose sender was not kept finds its channel without senders.     *)
(***************************************************************************)
EXTENDS Integers, FiniteSets, Functions

CONSTANTS Sessions,    \* the tokens callers present
          Inits,       \* the calls of init_node
          Setters,     \* the threads that call solnet_set_throttle_state
          States,      \* the arguments they pass (a u8)
          QueueLen,    \* commands the channel of a node holds (32)
          MaxOpen      \* bound: connections of a node

None == "none"

ASSUME MobileAssumption ==
    /\ IsFiniteSet(Inits) /\ None \notin Inits /\ None \notin Sessions
    /\ States \subseteq 0..255 /\ QueueLen \in Nat \ {0} /\ MaxOpen \in Nat

VARIABLES token,        \* GOVERNOR_TOKEN, or None
          throttle,     \* the three copies of the throttle state
          setter,       \* where every setter is, with which state, undisturbed so far?
          settled,      \* history: the last setter to finish was undisturbed
          runtime,      \* RELAY_RT is set
          running,      \* P2P_RUNNING
          tx,           \* the call whose sender SWARM_TX holds, or None
          task,         \* where each call of init_node, and then its node, is
          dials,        \* commands in the channel of SWARM_TX
          open,         \* connections of every node
          peer_count    \* PEER_COUNT

governor == <<throttle, setter, settled>>
vars == <<token, throttle, setter, settled, runtime, running, tx, task, dials, open, peer_count>>

Standby == 2
Stages == {"ready", "checked", "building", "serving", "leaving", "ended"}

TypeOK ==
    /\ token \in Sessions \cup {None}
    /\ throttle \in [ffi : 0..2, governor : 0..2, global : 0..2]
    /\ setter \in [Setters -> [at : {"idle", "governor", "global"}, state : 0..2, alone : BOOLEAN]]
    /\ settled \in BOOLEAN /\ runtime \in BOOLEAN /\ running \in BOOLEAN
    /\ tx \in Inits \cup {None}
    /\ task \in [Inits -> Stages]
    /\ dials \in 0..QueueLen
    /\ open \in [Inits -> 0..MaxOpen]
    /\ peer_count \in Nat

Init ==
    /\ token = None
    /\ throttle = [ffi |-> Standby, governor |-> Standby, global |-> Standby]
    /\ setter = [s \in Setters |-> [at |-> "idle", state |-> Standby, alone |-> TRUE]]
    /\ settled = TRUE
    /\ runtime = FALSE /\ running = FALSE
    /\ tx = None
    /\ task = [i \in Inits |-> "ready"]
    /\ dials = 0
    /\ open = [i \in Inits |-> 0]
    /\ peer_count = 0

-----------------------------------------------------------------------------
\* check_auth: no token matches before one was set.
Auth(s) == token = s

\* solnet_init_governor: the first token is kept.
InitGovernor(s) ==
    /\ token = None
    /\ token' = s
    /\ UNCHANGED <<governor, runtime, running, tx, task, dials, open, peer_count>>

\* "state.min(2)"
Clamped(state) == IF state < 2 THEN state ELSE 2

\* solnet_set_throttle_state stores GOVERNOR_STATE,
SetThrottle(r, state, s) ==
    /\ Auth(s)
    /\ setter[r].at = "idle"
    /\ throttle' = [throttle EXCEPT !.ffi = Clamped(state)]
    /\ setter' = [q \in Setters |->
            IF q = r
            THEN [at |-> "governor", state |-> Clamped(state),
                  alone |-> \A o \in Setters : setter[o].at = "idle"]
            ELSE [setter[q] EXCEPT !.alone = @ /\ setter[q].at = "idle"]]
    /\ UNCHANGED <<token, settled, runtime, running, tx, task, dials, open, peer_count>>

\* then the state of the governor itself,
SetGovernor(r) ==
    /\ setter[r].at = "governor"
    /\ throttle' = [throttle EXCEPT !.governor = setter[r].state]
    /\ setter' = [setter EXCEPT ![r].at = "global"]
    /\ UNCHANGED <<token, settled, runtime, running, tx, task, dials, open, peer_count>>

\* Mutant: a step down to standby is not published.
MutantPublished(r) == IF setter[r].state = Standby THEN throttle.global ELSE setter[r].state

\* What update_global_state stores.
Published(r) == setter[r].state

\* and at last the copy the statistics report.
UpdateGlobalState(r) ==
    /\ setter[r].at = "global"
    /\ throttle' = [throttle EXCEPT !.global = Published(r)]
    /\ setter' = [setter EXCEPT ![r] = [at |-> "idle", state |-> Standby, alone |-> TRUE]]
    /\ settled' = setter[r].alone
    /\ UNCHANGED <<token, runtime, running, tx, task, dials, open, peer_count>>

\* solnet_start_relay, as far as the P2P node depends on it; stopping the relay
\* does not take the runtime away.
StartRelay(s) ==
    /\ Auth(s)
    /\ ~runtime
    /\ runtime' = TRUE
    /\ UNCHANGED <<token, governor, running, tx, task, dials, open, peer_count>>

-----------------------------------------------------------------------------
\* init_node: no second node while one is running, none without the runtime.
CheckRunning(i, s) ==
    /\ task[i] = "ready"
    /\ Auth(s)
    /\ runtime /\ ~running
    /\ task' = [task EXCEPT ![i] = "checked"]
    /\ UNCHANGED <<token, governor, runtime, running, tx, dials, open, peer_count>>

\* Mutant: the last sender is kept.
MutantKept(i) == i

\* "let _ = SWARM_TX.set(tx)"
Kept(i) == IF tx = None THEN i ELSE tx

\* init_node: channel, sender and task.
Spawn(i) ==
    /\ task[i] = "checked"
    /\ tx' = Kept(i)
    /\ task' = [task EXCEPT ![i] = "building"]
    /\ UNCHANGED <<token, governor, runtime, running, dials, open, peer_count>>

\* The swarm is built, listens and dials the bootstrap node; only now the flag
\* is set.  Any of the builders may fail.
BuildSwarm(i, ok) ==
    /\ task[i] = "building"
    /\ task' = [task EXCEPT ![i] = IF ok THEN "serving" ELSE "leaving"]
    /\ running' = (running \/ ok)
    /\ UNCHANGED <<token, governor, runtime, tx, dials, open, peer_count>>

\* rx.recv gives a command.
TakeDial(i) ==
    /\ task[i] = "serving"
    /\ tx = i /\ dials > 0
    /\ dials' = dials - 1
    /\ UNCHANGED <<token, governor, runtime, running, tx, task, open, peer_count>>

PeerConnected(i) ==
    /\ task[i] = "serving"
    /\ open[i] < MaxOpen
    /\ open' = [open EXCEPT ![i] = @ + 1]
    /\ peer_count' = peer_count + 1
    /\ UNCHANGED <<token, governor, runtime, running, tx, task, dials>>

PeerClosed(i) ==
    /\ task[i] = "serving"
    /\ open[i] > 0
    /\ open' = [open EXCEPT ![i] = @ - 1]
    /\ peer_count' = peer_count - 1
    /\ UNCHANGED <<token, governor, runtime, running, tx, task, dials>>

\* Mutant: a node that ends takes all connections off the count.
MutantCountAfter(i) == 0

\* The swarm is dropped without an event for its connections.
CountAfter(i) == peer_count

\* Mutant: a node ignores that its channel has no sender.
MutantNoSender(i) == FALSE

\* "None => break"
NoSender(i) == tx # i

LeaveLoop(i) ==
    /\ task[i] = "serving"
    /\ NoSender(i)
    /\ task' = [task EXCEPT ![i] = "leaving"]
    /\ open' = [open EXCEPT ![i] = 0]
    /\ peer_count' = CountAfter(i)
    /\ UNCHANGED <<token, governor, runtime, running, tx, dials>>

\* Mutant: a node that could not be built leaves the flag alone.
MutantFlagAfter(i) == running

\* "P2P_RUNNING.store(false)"
FlagAfter(i) == FALSE

\* Mutant: commands outlive their receiver.
MutantCommandsAfter(i) == dials

\* The receiver goes, and the commands in its channel with it.
CommandsAfter(i) == IF tx = i THEN 0 ELSE dials

EndTask(i) ==
    /\ task[i] = "leaving"
    /\ running' = FlagAfter(i)
    /\ dials' = CommandsAfter(i)
    /\ task' = [task EXCEPT ![i] = "ended"]
    /\ UNCHANGED <<token, governor, runtime, tx, open, peer_count>>

\* solnet_connect_peer: try_send fails on a full channel and without receiver.
DialPeer(s) ==
    /\ Auth(s)
    /\ tx # None /\ task[tx] # "ended"
    /\ dials < QueueLen
    /\ dials' = dials + 1
    /\ UNCHANGED <<token, governor, runtime, running, tx, task, open, peer_count>>

Next ==
    \/ \E s \in Sessions :
        \/ InitGovernor(s)
        \/ StartRelay(s)
        \/ DialPeer(s)
        \/ \E r \in Setters, state \in States : SetThrottle(r, state, s)
        \/ \E i \in Inits : CheckRunning(i, s)
    \/ \E r \in Setters : SetGovernor(r) \/ UpdateGlobalState(r)
    \/ \E i \in Inits :
        \/ Spawn(i)
        \/ \E ok \in BOOLEAN : BuildSwarm(i, ok)
        \/ TakeDial(i)
        \/ PeerConnected(i)
        \/ PeerClosed(i)
        \/ LeaveLoop(i)
        \/ EndTask(i)

Spec == Init /\ [][Next]_vars

\* Tasks run and a swarm gets built or fails; select! picks at random among the
\* branches that are ready, so a command, or the end of the channel, is seen.
FairSpec ==
    /\ Spec
    /\ \A i \in Inits :
        /\ WF_vars(\E ok \in BOOLEAN : BuildSwarm(i, ok))
        /\ WF_vars(TakeDial(i))
        /\ WF_vars(LeaveLoop(i))
        /\ WF_vars(EndTask(i))

-----------------------------------------------------------------------------
\* The three copies of the throttle state are written one by one; they agree
\* again after every call that no other call overlapped.
CopiesAgree ==
    (settled /\ \A r \in Setters : setter[r].at = "idle") =>
        throttle.ffi = throttle.governor /\ throttle.governor = throttle.global

\* P2P_RUNNING is never left behind by nodes that have ended: whatever order
\* overlapping nodes set and clear it in, a flag that is set has a node.
RunningHasANode ==
    running => \E i \in Inits : task[i] \in {"serving", "leaving"}

\* PEER_COUNT may count connections of nodes that are gone, it never misses one
\* of a node that serves, and so never wraps below zero.
PeerCountCovers ==
    peer_count >= SumFunctionOnSet(open, Inits)

\* A node that commands reach keeps serving and keeps being reached, whatever
\* later calls of init_node do.
FirstNodeStays ==
    [][\A i \in Inits :
        (tx = i /\ task[i] = "serving") => (tx' = i /\ task'[i] = "serving")]_vars

\* Two calls that both found no node running start two nodes; the one that
\* cannot be commanded ends.
DuplicatesEnd ==
    \A i \in Inits : (task[i] = "serving" /\ tx # i) ~> task[i] = "ended"

\* A full command channel gets room again, also when the node cannot be built.
FullChannelDrains == (dials = QueueLen) ~> (dials < QueueLen)
=============================================================================
