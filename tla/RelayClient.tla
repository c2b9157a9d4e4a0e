---------------------------- MODULE RelayClient ----------------------------
(***************************************************************************)
(* The relay of the mobile library (sns-native, relay_client.rs): start    *)
(* and stop are called from threads of the app, relay_loop and one task    *)
(* per request run on the relay's own runtime.  RELAY_RUNNING is an        *)
(* atomic, RELAY_RT and RELAY_TX can be set once for the lifetime of the   *)
(* process.                                                                *)
(*                                                                         *)
(* forward_rpc is the only sender of the channel.  It is public, marked    *)
(* allow(dead_code), and has no caller: lib.rs does not export it.  The    *)
(* threads that call it here are what it is written for.                   *)
(*                                                                         *)
(* A start that finds RELAY_RT set drops the runtime it has built, and its *)
(* relay loop with it.  A relay loop that ends drops the receiving half of *)
(* its channel, and the requests still in it.                              *)
(***************************************************************************)
EXTENDS Integers, FiniteSets, Sequences

CONSTANTS Starts,          \* the calls of start
          Callers,         \* the threads that call forward_rpc
          ChannelLen,      \* requests a channel holds (32)
          MaxConcurrent    \* max_concurrent, at most 8

ASSUME RelayAssumption ==
    /\ IsFiniteSet(Starts) /\ IsFiniteSet(Callers)
    /\ ChannelLen \in Nat \ {0} /\ MaxConcurrent \in 0..8

Unset == "none"
ASSUME UnsetAssumption == Unset \notin Starts

VARIABLES relay_running,   \* RELAY_RUNNING
          relay_rt,        \* the start whose runtime RELAY_RT holds, or Unset
          relay_tx,        \* the start whose channel RELAY_TX holds, or Unset
          start,           \* where every call of start is
          loop,            \* where the relay loop each start has spawned is
          queue,           \* the channel of RELAY_TX
          call,            \* where every call of forward_rpc is
          late             \* history: requests the loop took after stop

relayVars == <<relay_running, relay_rt, relay_tx, start, loop, queue, call, late>>

StartStages == {"ready", "built", "channel", "flag", "ok", "error"}
LoopStages == {"none", "client", "check", "receive", "ended", "broken"}
CallStages == {"idle", "send", "queued", "task", "posting", "success", "failure"}

RelayTypeOK ==
    /\ relay_running \in BOOLEAN
    /\ relay_rt \in Starts \cup {Unset} /\ relay_tx \in Starts \cup {Unset}
    /\ start \in [Starts -> StartStages]
    /\ loop \in [Starts -> LoopStages]
    /\ queue \in Seq(Callers) /\ Len(queue) <= ChannelLen
    /\ call \in [Callers -> CallStages]
    /\ late \in Nat

RelayInit ==
    /\ relay_running = FALSE
    /\ relay_rt = Unset /\ relay_tx = Unset
    /\ start = [s \in Starts |-> "ready"]
    /\ loop = [s \in Starts |-> "none"]
    /\ queue = <<>>
    /\ call = [c \in Callers |-> "idle"]
    /\ late = 0

-----------------------------------------------------------------------------
\* start: an early return, or a runtime, a channel and a relay loop on it.
Build(s) ==
    /\ start[s] = "ready"
    /\ IF relay_running
       THEN /\ start' = [start EXCEPT ![s] = "ok"]
            /\ UNCHANGED loop
       ELSE /\ start' = [start EXCEPT ![s] = "built"]
            /\ loop' = [loop EXCEPT ![s] = "client"]
    /\ UNCHANGED <<relay_running, relay_rt, relay_tx, queue, call, late>>

\* Mutant: the last start wins.
MutantSetRuntime(s) ==
    /\ start[s] = "built"
    /\ relay_rt' = s
    /\ start' = [start EXCEPT ![s] = "channel"]
    /\ UNCHANGED <<relay_running, relay_tx, loop, queue, call, late>>

\* RELAY_RT.set: the second one fails, and takes its loop down.
SetRuntime(s) ==
    /\ start[s] = "built"
    /\ IF relay_rt = Unset
       THEN /\ relay_rt' = s
            /\ start' = [start EXCEPT ![s] = "channel"]
            /\ UNCHANGED loop
       ELSE /\ start' = [start EXCEPT ![s] = "error"]
            /\ loop' = [loop EXCEPT ![s] = "ended"]
            /\ UNCHANGED relay_rt
    /\ UNCHANGED <<relay_running, relay_tx, queue, call, late>>

\* RELAY_TX.set; the loop of the channel may have ended by now.
SetTx(s) ==
    /\ start[s] = "channel"
    /\ relay_tx' = IF relay_tx = Unset THEN s ELSE relay_tx
    /\ start' = [start EXCEPT ![s] = IF relay_tx = Unset THEN "flag" ELSE "error"]
    /\ UNCHANGED <<relay_running, relay_rt, loop, queue, call, late>>

SetRunning(s) ==
    /\ start[s] = "flag"
    /\ relay_running' = TRUE
    /\ start' = [start EXCEPT ![s] = "ok"]
    /\ UNCHANGED <<relay_rt, relay_tx, loop, queue, call, late>>

Stop ==
    /\ relay_running
    /\ relay_running' = FALSE
    /\ UNCHANGED <<relay_rt, relay_tx, start, loop, queue, call, late>>

-----------------------------------------------------------------------------
\* forward_rpc: the checks.
Forward(c) ==
    /\ call[c] \in {"idle", "success", "failure"}
    /\ relay_rt # Unset /\ relay_tx # Unset /\ relay_running
    /\ call' = [call EXCEPT ![c] = "send"]
    /\ UNCHANGED <<relay_running, relay_rt, relay_tx, start, loop, queue, late>>

\* Nobody receives: the channel is closed.
Closed == loop[relay_tx] \in {"ended", "broken"}

\* A request fits into the channel.
Room == Len(queue) < ChannelLen

\* tx.send: waits for room, fails when the channel is closed.
Send(c) ==
    /\ call[c] = "send"
    /\ IF Closed
       THEN /\ call' = [call EXCEPT ![c] = "failure"]
            /\ UNCHANGED queue
       ELSE /\ Room
            /\ queue' = Append(queue, c)
            /\ call' = [call EXCEPT ![c] = "queued"]
    /\ UNCHANGED <<relay_running, relay_rt, relay_tx, start, loop, late>>

\* A permit, then the POST.
Post(c) ==
    /\ call[c] = "task"
    /\ Cardinality({d \in Callers : call[d] = "posting"}) < MaxConcurrent
    /\ call' = [call EXCEPT ![c] = "posting"]
    /\ UNCHANGED <<relay_running, relay_rt, relay_tx, start, loop, queue, late>>

\* The answer, an error or the timeout of 8 seconds; a success is paid for.
Respond(c, ok) ==
    /\ call[c] = "posting"
    /\ call' = [call EXCEPT ![c] = IF ok THEN "success" ELSE "failure"]
    /\ UNCHANGED <<relay_running, relay_rt, relay_tx, start, loop, queue, late>>

-----------------------------------------------------------------------------
\* Mutant: queued requests stay where they are.
MutantAbandoned == call

\* The calls whose request goes down with the channel.
Abandoned == [c \in Callers |-> IF call[c] = "queued" THEN "failure" ELSE call[c]]

\* The loop of s ends: its channel closes.
End(s, how) ==
    /\ loop' = [loop EXCEPT ![s] = how]
    /\ IF s = relay_tx
       THEN queue' = <<>> /\ call' = Abandoned
       ELSE UNCHANGED <<queue, call>>

\* The HTTP client of the loop is built, or cannot be.
BuildClient(s, ok) ==
    /\ loop[s] = "client"
    /\ IF ok
       THEN /\ loop' = [loop EXCEPT ![s] = "check"]
            /\ UNCHANGED <<queue, call>>
       ELSE End(s, "broken")
    /\ UNCHANGED <<relay_running, relay_rt, relay_tx, start, late>>

\* Mutant: the loop does not look at the flag.
MutantGoesOn == TRUE

\* "while RELAY_RUNNING.load"
GoesOn == relay_running

Check(s) ==
    /\ loop[s] = "check"
    /\ IF GoesOn
       THEN /\ loop' = [loop EXCEPT ![s] = "receive"]
            /\ UNCHANGED <<queue, call>>
       ELSE End(s, "ended")
    /\ UNCHANGED <<relay_running, relay_rt, relay_tx, start, late>>

\* rx.recv, and a task for the request.
Receive(s) ==
    /\ loop[s] = "receive" /\ s = relay_tx
    /\ queue # <<>>
    /\ queue' = Tail(queue)
    /\ call' = [call EXCEPT ![Head(queue)] = "task"]
    /\ loop' = [loop EXCEPT ![s] = "check"]
    /\ late' = IF relay_running THEN late ELSE late + 1
    /\ UNCHANGED <<relay_running, relay_rt, relay_tx, start>>

\* Half a second without a request.
Idle(s) ==
    /\ loop[s] = "receive"
    /\ loop' = [loop EXCEPT ![s] = "check"]
    /\ UNCHANGED <<relay_running, relay_rt, relay_tx, start, queue, call, late>>

Starting(s) == Build(s) \/ SetRuntime(s) \/ SetTx(s) \/ SetRunning(s)
Looping(s) == \/ \E ok \in BOOLEAN : BuildClient(s, ok)
              \/ Check(s)
              \/ Receive(s)
              \/ Idle(s)
Calling(c) == Send(c) \/ Post(c) \/ \E ok \in BOOLEAN : Respond(c, ok)

RelayNext ==
    \/ \E s \in Starts : Starting(s) \/ Looping(s)
    \/ Stop
    \/ \E c \in Callers : Forward(c) \/ Calling(c)

RelaySpec == RelayInit /\ [][RelayNext]_relayVars

\* Threads and tasks run, a task gets a permit when its turn comes, and a
\* blocked send gets room when its turn comes.  The loop receives when there is
\* something to receive: recv is polled with the sleep.
RelayFairSpec ==
    /\ RelaySpec
    /\ \A s \in Starts :
        /\ WF_relayVars(Starting(s))
        /\ WF_relayVars(Looping(s))
        /\ SF_relayVars(Receive(s))
    /\ \A c \in Callers : SF_relayVars(Calling(c))

-----------------------------------------------------------------------------
\* However start calls overlap, at most the loop of the runtime that was kept
\* is left once they have returned.
OneLoop ==
    \A s \in Starts :
        (start[s] \in {"ok", "error"} /\ loop[s] \in {"client", "check", "receive"})
            => s = relay_rt

\* stop is seen before a second request is taken off the channel.
StopIsPrompt == late <= 1

\* forward_rpc blocks a thread of the app; it lets go of it, also when the relay
\* is stopped while the request waits for room, for the loop or for a permit.
ForwardReturns ==
    \A c \in Callers :
        (call[c] \in {"send", "queued", "task", "posting"})
            ~> (call[c] \in {"success", "failure"})
============================================================================
