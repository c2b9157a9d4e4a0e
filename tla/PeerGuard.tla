----------------------------- MODULE PeerGuard -----------------------------
(***************************************************************************)
(* Reputation and bans of mesh peers (peer_guard.rs) under the events of   *)
(* the swarm (p2p.rs).  The swarm loop is one task and makes the calls     *)
(* that change a record one after the other; cleanup runs in a task of its *)
(* own, and get_stats and is_allowed may be called from any thread.  The   *)
(* two tables are locked one entry at a time: a ban is written, and the    *)
(* record removed, after the record's lock is gone; cleanup reads the      *)
(* clock and get_stats counts the table before they look at the records.   *)
(*                                                                         *)
(* on_protocol_violation, on_successful_relay and is_allowed are part of   *)
(* the guard although no code calls them yet.  Differences are unsigned    *)
(* and overflow aborts the process, as in AttackPrevention.                *)
(***************************************************************************)
EXTENDS Integers, FiniteSets

CONSTANTS Peers,
          InitialScore, MaxScore,           \* 50 and 100
          ConnectBonus, RelayBonus,         \* 1 and 2
          FailPenalty, ViolationPenalty,    \* 10 and 25
          BanAfter,                         \* 5 failed handshakes
          BanSecs, IdleSecs,                \* 3600 and 86400 seconds
          MaxPerPeer,                       \* connections of a peer (3)
          MaxTime,                          \* bound on the clock
          MaxPause                          \* bound: seconds between two steps of a call

ASSUME GuardAssumption ==
    /\ IsFiniteSet(Peers)
    /\ {InitialScore, MaxScore, ConnectBonus, RelayBonus, FailPenalty, ViolationPenalty,
        BanAfter, BanSecs, IdleSecs, MaxPerPeer, MaxTime, MaxPause} \subseteq Nat
    /\ 0 < InitialScore /\ InitialScore <= MaxScore
    /\ 0 < BanAfter /\ 0 < BanSecs /\ 0 < IdleSecs
    /\ (BanAfter - 1) * FailPenalty < InitialScore

VARIABLES now,
          open,      \* connections of every peer
          scores,    \* PeerRecord of every peer, or NoRecord
          banned,    \* when the ban of a peer expires, or NoBan
          swarm,     \* what the call of the swarm loop has left to do, for whom
          sweep,     \* where cleanup is, and the time it has read
          stats,     \* where get_stats is, and the number of records it has read
          asker,     \* where is_allowed is, and for whom
          met,       \* history: scans during which a record was written
          dead       \* the scan that ended the process, or "no"

vars == <<now, open, scores, banned, swarm, sweep, stats, asker, met, dead>>

NoRecord == [score |-> 0, failed |-> 0, spam |-> FALSE, last_seen |-> -1]
NoBan == -1

\* "None = permanent": later than any time the clock shows.
Forever == MaxTime + BanSecs + 1

Scans == {"cleanup", "stats"}

TypeOK ==
    /\ now \in 0..MaxTime
    /\ open \in [Peers -> 0..MaxPerPeer]
    /\ scores \in [Peers -> [score : Int, failed : 0..BanAfter, spam : BOOLEAN, last_seen : -1..now]]
    /\ \A p \in Peers : scores[p].score <= MaxScore
    /\ banned \in [Peers -> {NoBan} \cup 1..Forever]
    /\ swarm \in [at : {"idle", "ban", "forget"}, peer : Peers, until : {"hour", "ever"}, since : 0..now]
    /\ sweep \in [at : {"idle", "bans", "scores"}, t : 0..now]
    /\ stats \in [at : {"idle", "healthy"}, total : 0..Cardinality(Peers)]
    /\ asker \in [at : {"idle", "expired"}, peer : Peers, since : 0..now]
    /\ met \subseteq Scans
    /\ dead \in Scans \cup {"no"}

Init ==
    /\ now = 0
    /\ open = [p \in Peers |-> 0]
    /\ scores = [p \in Peers |-> NoRecord]
    /\ banned = [p \in Peers |-> NoBan]
    /\ \E p \in Peers :
        /\ swarm = [at |-> "idle", peer |-> p, until |-> "hour", since |-> 0]
        /\ asker = [at |-> "idle", peer |-> p, since |-> 0]
    /\ sweep = [at |-> "idle", t |-> 0]
    /\ stats = [at |-> "idle", total |-> 0]
    /\ met = {}
    /\ dead = "no"

-----------------------------------------------------------------------------
Known == {p \in Peers : scores[p] # NoRecord}

\* default_record, and the or_insert of on_connected.
RecordOf(p) ==
    IF p \in Known
    THEN scores[p]
    ELSE [score |-> InitialScore, failed |-> 0, spam |-> FALSE, last_seen |-> now]

Raised(score, bonus) == IF score + bonus < MaxScore THEN score + bonus ELSE MaxScore

\* A call of the swarm loop writes the record of p.
WriteRecord(p, rec) ==
    /\ swarm.at = "idle"
    /\ scores' = [scores EXCEPT ![p] = rec]
    /\ met' = met \cup {s \in Scans : \/ s = "cleanup" /\ sweep.at # "idle"
                                      \/ s = "stats" /\ stats.at # "idle"}
    /\ UNCHANGED <<now, banned, sweep, stats, asker, dead>>

\* The call is done, or goes on to ban the peer.
ThenBan(p, bans, until) ==
    IF bans
    THEN swarm' = [at |-> "ban", peer |-> p, until |-> until, since |-> now]
    ELSE UNCHANGED swarm

\* SwarmEvent::ConnectionEstablished, with on_connected; nobody asks is_allowed.
ConnectionEstablished(p) ==
    /\ open[p] < MaxPerPeer
    /\ open' = [open EXCEPT ![p] = @ + 1]
    /\ WriteRecord(p, [RecordOf(p) EXCEPT !.score = Raised(@, ConnectBonus), !.last_seen = now])
    /\ UNCHANGED swarm

\* SwarmEvent::ConnectionClosed without a cause.
ConnectionClosed(p) ==
    /\ swarm.at = "idle" /\ open[p] > 0
    /\ open' = [open EXCEPT ![p] = @ - 1]
    /\ UNCHANGED <<now, scores, banned, swarm, sweep, stats, asker, met, dead>>

\* Mutant: the ban comes one failure later.
MutantTooManyFailures(rec) == rec.failed > BanAfter

\* "Auto-ban after 5 failed handshakes"
TooManyFailures(rec) == rec.failed >= BanAfter

\* SwarmEvent::ConnectionClosed with a cause, up to the lock of the record:
\* on_failed_handshake does not touch last_seen.
OnFailedHandshake(p) ==
    LET rec == [RecordOf(p) EXCEPT !.failed = @ + 1, !.score = @ - FailPenalty]
    IN  /\ open[p] > 0
        /\ open' = [open EXCEPT ![p] = @ - 1]
        /\ WriteRecord(p, rec)
        /\ ThenBan(p, TooManyFailures(rec), "hour")

\* on_protocol_violation, up to the lock of the record.
OnProtocolViolation(p) ==
    LET rec == [RecordOf(p) EXCEPT !.spam = TRUE, !.score = @ - ViolationPenalty]
    IN  /\ open[p] > 0
        /\ WriteRecord(p, rec)
        /\ ThenBan(p, rec.score <= 0, "ever")
        /\ UNCHANGED open

OnSuccessfulRelay(p) ==
    /\ open[p] > 0
    /\ WriteRecord(p, [RecordOf(p) EXCEPT !.score = Raised(@, RelayBonus), !.last_seen = now])
    /\ UNCHANGED <<open, swarm>>

\* ban, the entry: whatever ban was there is replaced.  The expiry is computed
\* just before ban is called; the swarm loop is the only writer, so one reading
\* of the clock stands for both places.
WriteBan ==
    /\ swarm.at = "ban"
    /\ banned' = [banned EXCEPT ![swarm.peer] =
                    IF swarm.until = "ever" THEN Forever ELSE now + BanSecs]
    /\ swarm' = [swarm EXCEPT !.at = "forget", !.since = now]
    /\ UNCHANGED <<now, open, scores, sweep, stats, asker, met, dead>>

\* ban, the record.
ForgetRecord ==
    /\ swarm.at = "forget"
    /\ scores' = [scores EXCEPT ![swarm.peer] = NoRecord]
    /\ swarm' = [swarm EXCEPT !.at = "idle", !.until = "hour", !.since = 0]
    /\ UNCHANGED <<now, open, banned, sweep, stats, asker, met, dead>>

-----------------------------------------------------------------------------
InForce(p) == now < banned[p]

\* is_allowed, up to the point where an expired ban is released; the score it
\* reads after that changes nothing.
IsAllowed(p) ==
    /\ asker.at = "idle"
    /\ banned[p] # NoBan /\ ~InForce(p)
    /\ asker' = [at |-> "expired", peer |-> p, since |-> now]
    /\ UNCHANGED <<now, open, scores, banned, swarm, sweep, stats, met, dead>>

\* is_allowed, the removal: whatever ban is there by now goes.
RemoveBan ==
    /\ asker.at = "expired"
    /\ banned' = [banned EXCEPT ![asker.peer] = NoBan]
    /\ asker' = [asker EXCEPT !.at = "idle", !.since = 0]
    /\ UNCHANGED <<now, open, scores, swarm, sweep, stats, met, dead>>

\* cleanup, every hour, reads the clock once.
BeginCleanup ==
    /\ sweep.at = "idle"
    /\ sweep' = [at |-> "bans", t |-> now]
    /\ met' = met \ {"cleanup"}
    /\ UNCHANGED <<now, open, scores, banned, swarm, stats, asker, dead>>

\* Mutant: bans that end within a second go too.
MutantKeepsBan(expiry) == sweep.t + 1 < expiry

KeepsBan(expiry) == sweep.t < expiry

CleanupBans ==
    /\ sweep.at = "bans"
    /\ banned' = [p \in Peers |-> IF KeepsBan(banned[p]) THEN banned[p] ELSE NoBan]
    /\ sweep' = [sweep EXCEPT !.at = "scores"]
    /\ UNCHANGED <<now, open, scores, swarm, stats, asker, met, dead>>

\* "now - r.last_seen < 86400".  Neither a failure nor an open connection is a
\* sign of life: the peer may have failed a second ago.
KeepsRecord(rec) == sweep.t - rec.last_seen < IdleSecs

CleanupScores ==
    /\ sweep.at = "scores"
    /\ IF \E p \in Peers : sweep.t < scores[p].last_seen
       THEN dead' = "cleanup" /\ UNCHANGED scores
       ELSE /\ scores' = [p \in Peers |-> IF KeepsRecord(scores[p]) THEN scores[p] ELSE NoRecord]
            /\ UNCHANGED dead
    /\ sweep' = [at |-> "idle", t |-> 0]
    /\ UNCHANGED <<now, open, banned, swarm, stats, asker, met>>

\* get_stats, from /security/stats: the size of the table first.
CountRecords ==
    /\ stats.at = "idle"
    /\ stats' = [at |-> "healthy", total |-> Cardinality(Known)]
    /\ met' = met \ {"stats"}
    /\ UNCHANGED <<now, open, scores, banned, swarm, sweep, asker, dead>>

\* Mutant: peers without a record are healthy.
MutantHealthy == {p \in Peers : scores[p].score >= InitialScore \/ scores[p] = NoRecord}

Healthy == {p \in Known : scores[p].score >= InitialScore}

\* get_stats, the healthy ones, and "total_peers - healthy".
CountHealthy ==
    /\ stats.at = "healthy"
    /\ stats' = [at |-> "idle", total |-> 0]
    /\ dead' = IF stats.total < Cardinality(Healthy) THEN "stats" ELSE dead
    /\ UNCHANGED <<now, open, scores, banned, swarm, sweep, asker, met>>

\* A second passes.  No call waits for anything between its steps.
Tick ==
    /\ now < MaxTime
    /\ swarm.at = "idle" \/ now - swarm.since < MaxPause
    /\ sweep.at = "idle" \/ now - sweep.t < MaxPause
    /\ asker.at = "idle" \/ now - asker.since < MaxPause
    /\ now' = now + 1
    /\ UNCHANGED <<open, scores, banned, swarm, sweep, stats, asker, met, dead>>

SwarmEvent(p) ==
    \/ ConnectionEstablished(p)
    \/ ConnectionClosed(p)
    \/ OnFailedHandshake(p)
    \/ OnProtocolViolation(p)
    \/ OnSuccessfulRelay(p)

Next ==
    /\ dead = "no"
    /\ \/ \E p \in Peers : SwarmEvent(p) \/ IsAllowed(p)
       \/ WriteBan
       \/ ForgetRecord
       \/ RemoveBan
       \/ BeginCleanup
       \/ CleanupBans
       \/ CleanupScores
       \/ CountRecords
       \/ CountHealthy
       \/ Tick

Spec == Init /\ [][Next]_vars

-----------------------------------------------------------------------------
\* Failed handshakes alone never use up a score: the fifth one bans the peer
\* first, and violations alone ban it when the score is gone.  So the test
\* "record.score <= 0" of is_allowed is for peers that did both.
ExhaustedNeedsBoth ==
    \A p \in Known :
        \/ scores[p].score > 0
        \/ scores[p].failed > 0 /\ scores[p].spam
        \/ swarm.at # "idle" /\ swarm.peer = p

\* A ban in force ends early in two ways only: an is_allowed that saw an older
\* ban of the peer expire removes it, and a ban of an hour takes the place of
\* one for ever.  The stale clock of cleanup never lifts one.
BanEndsEarly ==
    [][\A p \in Peers :
        InForce(p) =>
            \/ banned'[p] >= banned[p]
            \/ asker.at = "expired" /\ asker.peer = p /\ asker'.at = "idle"
            \/ banned[p] = Forever /\ swarm.at = "ban" /\ swarm.peer = p /\ swarm.until = "hour"]_vars

\* The unsigned differences of cleanup and get_stats end the process only when
\* the swarm loop wrote a record while the scan was under way.
AbortNeedsARace == dead # "no" => dead \in met
=============================================================================
