-------------------------- MODULE PeerGuardProofs --------------------------
(***************************************************************************)
(* Proofs about the peer guard for any number of peers, any penalties and  *)
(* any pauses between the steps of its calls.  The invariant says what a   *)
(* record may look like while no ban of its peer is under way, how old the *)
(* clocks are that the scans use, and what a scan has seen of the records. *)
(***************************************************************************)
EXTENDS PeerGuard, FiniteSetTheorems, TLAPS

Records == [score : Int, failed : Nat, spam : BOOLEAN, last_seen : Int]

Types ==
    /\ now \in 0..MaxTime
    /\ open \in [Peers -> 0..MaxPerPeer]
    /\ scores \in [Peers -> Records]
    /\ banned \in [Peers -> Int]
    /\ swarm \in [at : {"idle", "ban", "forget"}, peer : Peers, until : {"hour", "ever"}, since : Nat]
    /\ sweep \in [at : {"idle", "bans", "scores"}, t : Nat]
    /\ stats \in [at : {"idle", "healthy"}, total : 0..Cardinality(Peers)]
    /\ asker \in [at : {"idle", "expired"}, peer : Peers, since : Nat]
    /\ met \subseteq Scans
    /\ dead \in Scans \cup {"no"}

\* The numbers of a record.
Tracked(rec) ==
    /\ rec.score <= MaxScore
    /\ rec.failed <= BanAfter
    /\ 0 <= rec.last_seen /\ rec.last_seen <= now

\* A record that bans nobody: without violations each failure has cost its
\* penalty and no more; violations alone have left a positive score.
Solvent(rec) ==
    /\ rec.failed < BanAfter
    /\ rec.spam = FALSE => rec.score >= InitialScore - rec.failed * FailPenalty
    /\ rec.spam = TRUE /\ rec.failed = 0 => rec.score > 0

\* The swarm loop has written the record of p and not forgotten it yet.
Banning(p) == swarm.at # "idle" /\ swarm.peer = p

RecordsTracked == \A p \in Known : Tracked(scores[p])

RecordsSolvent == \A p \in Known : Banning(p) \/ Solvent(scores[p])

\* A ban ends within BanSecs, or never.
BansDated ==
    \A p \in Peers : \/ banned[p] = NoBan \/ banned[p] = Forever
                     \/ 0 < banned[p] /\ banned[p] <= now + BanSecs

ClocksPast == swarm.since <= now /\ sweep.t <= now /\ asker.since <= now

\* Unless a record was written since, cleanup's clock is as late as any record,
\* and get_stats has counted all of them.
ScansCover ==
    /\ sweep.at # "idle" /\ "cleanup" \notin met => \A p \in Known : scores[p].last_seen <= sweep.t
    /\ stats.at # "idle" /\ "stats" \notin met => Cardinality(Known) <= stats.total

GuardInv ==
    /\ Types
    /\ RecordsTracked
    /\ RecordsSolvent
    /\ BansDated
    /\ ClocksPast
    /\ ScansCover
    /\ AbortNeedsARace

-----------------------------------------------------------------------------
\* The constants, as the provers use them.
LEMMA Numbers ==
    /\ InitialScore \in Nat /\ MaxScore \in Nat /\ ConnectBonus \in Nat /\ RelayBonus \in Nat
    /\ FailPenalty \in Nat /\ ViolationPenalty \in Nat /\ BanAfter \in Nat
    /\ BanSecs \in Nat /\ IdleSecs \in Nat /\ MaxPerPeer \in Nat /\ MaxTime \in Nat
    /\ 0 < InitialScore /\ InitialScore <= MaxScore /\ 0 < BanAfter /\ 0 < BanSecs /\ 0 < IdleSecs
    /\ (BanAfter - 1) * FailPenalty < InitialScore
    /\ IsFiniteSet(Peers)
  BY GuardAssumption

\* Fewer failures cost less.
LEMMA PenaltyGrows ==
    ASSUME NEW a \in Nat, NEW b \in Nat, NEW c \in Nat, a <= b
    PROVE  a * c <= b * c /\ (a + 1) * c = a * c + c
  OBVIOUS

\* RecordOf gives a record that bans nobody while the swarm loop is idle.
LEMMA RecordOfIsSolvent ==
    ASSUME Types, RecordsTracked, RecordsSolvent, swarm.at = "idle", NEW p \in Peers
    PROVE  RecordOf(p) \in Records /\ Tracked(RecordOf(p)) /\ Solvent(RecordOf(p))
<1>1. CASE p \in Known
  BY <1>1 DEF RecordOf, Types, RecordsTracked, RecordsSolvent, Banning
<1>2. CASE p \notin Known
  <2>1. RecordOf(p) = [score |-> InitialScore, failed |-> 0, spam |-> FALSE, last_seen |-> now]
    BY <1>2 DEF RecordOf
  <2>2. now \in Nat /\ 0 * FailPenalty = 0
    BY Numbers DEF Types
  <2> QED
    BY <2>1, <2>2, Numbers DEF Records, Tracked, Solvent
<1> QED
  BY <1>1, <1>2

\* A bonus takes no score away.
LEMMA RaisedIsMore ==
    ASSUME NEW score \in Int, NEW bonus \in Nat, score <= MaxScore
    PROVE  Raised(score, bonus) \in Int /\ score <= Raised(score, bonus) /\ Raised(score, bonus) <= MaxScore
  BY Numbers DEF Raised

\* The records that on_connected and on_successful_relay write.
LEMMA RaisedIsSolvent ==
    ASSUME NEW rec \in Records, Tracked(rec), Solvent(rec), NEW bonus \in Nat, now \in Nat
    PROVE  LET new == [rec EXCEPT !.score = Raised(@, bonus), !.last_seen = now]
           IN  new \in Records /\ Tracked(new) /\ Solvent(new)
<1> DEFINE new == [rec EXCEPT !.score = Raised(@, bonus), !.last_seen = now]
<1>1. /\ rec.score \in Int /\ Raised(rec.score, bonus) \in Int
      /\ rec.score <= Raised(rec.score, bonus) /\ Raised(rec.score, bonus) <= MaxScore
  BY RaisedIsMore DEF Records, Tracked
<1>2. /\ new \in Records
      /\ new.score = Raised(rec.score, bonus) /\ new.last_seen = now
      /\ new.failed = rec.failed /\ new.spam = rec.spam
  <2>1. new.score = Raised(rec.score, bonus) /\ new.last_seen = now
    BY <1>1 DEF Records
  <2>2. new.failed = rec.failed /\ new.spam = rec.spam
    BY <1>1 DEF Records
  <2>3. \A a, b \in Int : [rec EXCEPT !.score = a, !.last_seen = b] \in Records
    BY DEF Records
  <2>4. now \in Int
    BY <1>1, Numbers
  <2>5. new \in Records
    BY <1>1, <2>3, <2>4, Zenon
  <2> QED
    BY <2>1, <2>2, <2>5
<1> HIDE DEF new
<1>3. rec.failed \in Nat /\ rec.failed * FailPenalty \in Int /\ InitialScore \in Int
  BY Numbers DEF Records
<1>4. Tracked(new)
  BY <1>1, <1>2, Numbers DEF Tracked
<1>5. Solvent(new)
  BY <1>1, <1>2, <1>3, Numbers DEF Solvent
<1> QED
  BY <1>2, <1>4, <1>5 DEF new

\* The record that on_failed_handshake writes bans nobody unless it is the last
\* failure.
LEMMA FailedIsSolvent ==
    ASSUME NEW rec \in Records, Tracked(rec), Solvent(rec), now \in Nat
    PROVE  LET new == [rec EXCEPT !.failed = @ + 1, !.score = @ - FailPenalty]
           IN  new \in Records /\ Tracked(new) /\ (~TooManyFailures(new) => Solvent(new))
<1> DEFINE new == [rec EXCEPT !.failed = @ + 1, !.score = @ - FailPenalty]
<1>1. rec.score \in Int /\ rec.failed \in Nat
  BY DEF Records
<1>2. /\ new \in Records /\ new.score = rec.score - FailPenalty /\ new.last_seen = rec.last_seen
      /\ new.failed = rec.failed + 1 /\ new.spam = rec.spam
  <2>1. new.score = rec.score - FailPenalty /\ new.last_seen = rec.last_seen
    BY <1>1 DEF Records
  <2>2. new.failed = rec.failed + 1 /\ new.spam = rec.spam
    BY <1>1 DEF Records
  <2>3. \A a \in Nat : \A b \in Int : [rec EXCEPT !.failed = a, !.score = b] \in Records
    BY DEF Records
  <2>4. rec.failed + 1 \in Nat /\ rec.score - FailPenalty \in Int
    BY <1>1, Numbers
  <2>5. new \in Records
    BY <1>1, <2>3, <2>4, Zenon
  <2> QED
    BY <2>1, <2>2, <2>5
<1> HIDE DEF new
<1>3. Tracked(new)
  BY <1>1, <1>2, Numbers DEF Tracked, Solvent
<1>4. /\ (rec.failed + 1) * FailPenalty = rec.failed * FailPenalty + FailPenalty
      /\ rec.failed * FailPenalty \in Int
  BY <1>1, PenaltyGrows, Numbers
<1>5. ASSUME ~TooManyFailures(new) PROVE Solvent(new)
  <2>1. new.failed < BanAfter
    BY <1>1, <1>2, <1>5, Numbers DEF TooManyFailures
  <2>2. new.spam = FALSE => new.score >= InitialScore - new.failed * FailPenalty
    BY <1>1, <1>2, <1>4, Numbers DEF Solvent
  <2>3. new.failed # 0
    BY <1>1, <1>2
  <2> QED
    BY <2>1, <2>2, <2>3 DEF Solvent
<1> QED
  BY <1>2, <1>3, <1>5 DEF new

\* The record that on_protocol_violation writes bans nobody unless its score is
\* used up.
LEMMA ViolationIsSolvent ==
    ASSUME NEW rec \in Records, Tracked(rec), Solvent(rec), now \in Nat
    PROVE  LET new == [rec EXCEPT !.spam = TRUE, !.score = @ - ViolationPenalty]
           IN  new \in Records /\ Tracked(new) /\ (~(new.score <= 0) => Solvent(new))
<1> DEFINE new == [rec EXCEPT !.spam = TRUE, !.score = @ - ViolationPenalty]
<1>1. rec.score \in Int /\ rec.failed \in Nat
  BY DEF Records
<1>2. /\ new \in Records /\ new.score = rec.score - ViolationPenalty /\ new.last_seen = rec.last_seen
      /\ new.failed = rec.failed /\ new.spam = TRUE
  <2>1. new.score = rec.score - ViolationPenalty /\ new.last_seen = rec.last_seen
    BY <1>1 DEF Records
  <2>2. new.failed = rec.failed /\ new.spam = TRUE
    BY <1>1 DEF Records
  <2>3. \A b \in Int : [rec EXCEPT !.spam = TRUE, !.score = b] \in Records
    BY DEF Records
  <2>4. rec.score - ViolationPenalty \in Int
    BY <1>1, Numbers
  <2>5. new \in Records
    BY <1>1, <2>3, <2>4, Zenon
  <2> QED
    BY <2>1, <2>2, <2>5
<1> HIDE DEF new
<1>3. Tracked(new)
  BY <1>1, <1>2, Numbers DEF Tracked
<1>4. ~(new.score <= 0) => Solvent(new)
  BY <1>1, <1>2, Numbers DEF Solvent
<1> QED
  BY <1>2, <1>3, <1>4 DEF new

-----------------------------------------------------------------------------
\* The tables start empty and nobody scans them.
LEMMA GuardInit == Init => GuardInv
<1> SUFFICES ASSUME Init
             PROVE  GuardInv
  OBVIOUS
<1>1. Known = {}
  BY DEF Init, Known
<1>2. Cardinality(Peers) \in Nat
  BY Numbers, FS_CardinalityType
<1>3. NoRecord \in Records
  BY DEF NoRecord, Records
<1>4. Types
  BY <1>2, <1>3, Numbers DEF Init, Types, NoBan, Scans
<1>5. RecordsTracked /\ RecordsSolvent
  BY <1>1 DEF RecordsTracked, RecordsSolvent
<1>6. BansDated /\ ClocksPast /\ ScansCover /\ AbortNeedsARace
  BY DEF Init, BansDated, ClocksPast, ScansCover, AbortNeedsARace
<1> QED
  BY <1>4, <1>5, <1>6 DEF GuardInv

\* A call of the swarm loop that writes a proper record keeps the invariant.
LEMMA WriteKeeps ==
    ASSUME GuardInv, dead = "no", NEW p \in Peers, NEW rec \in Records, WriteRecord(p, rec),
           Tracked(rec), open' \in [Peers -> 0..MaxPerPeer], NEW until \in {"hour", "ever"},
           \/ Solvent(rec) /\ UNCHANGED swarm
           \/ swarm' = [at |-> "ban", peer |-> p, until |-> until, since |-> now]
    PROVE  GuardInv'
<1>1. /\ Types /\ RecordsTracked /\ RecordsSolvent /\ BansDated /\ ClocksPast
      /\ now \in Nat /\ swarm.at = "idle" /\ scores' = [scores EXCEPT ![p] = rec]
      /\ UNCHANGED <<now, banned, sweep, stats, asker, dead>>
  BY Numbers DEF GuardInv, WriteRecord, Types
<1>2. scores'[p] = rec /\ \A q \in Peers \ {p} : scores'[q] = scores[q]
  BY <1>1 DEF Types
<1>3. Types'
  <2>1. met' \subseteq Scans
    BY <1>1 DEF Types, WriteRecord
  <2>2. scores' \in [Peers -> Records]
    BY <1>1 DEF Types
  <2>3. swarm' \in [at : {"idle", "ban", "forget"}, peer : Peers, until : {"hour", "ever"}, since : Nat]
    BY <1>1 DEF Types
  <2> QED
    BY <1>1, <2>1, <2>2, <2>3 DEF Types
<1>4. RecordsTracked'
  BY <1>1, <1>2 DEF RecordsTracked, Tracked, Known
<1>5. RecordsSolvent'
  BY <1>1, <1>2 DEF RecordsSolvent, Solvent, Known, Banning
<1>6. BansDated' /\ ClocksPast' /\ AbortNeedsARace'
  BY <1>1, Numbers DEF BansDated, ClocksPast, AbortNeedsARace
<1>7. ScansCover'
  BY <1>1 DEF ScansCover, WriteRecord, Scans
<1> QED
  BY <1>3, <1>4, <1>5, <1>6, <1>7 DEF GuardInv

\* The calls of the swarm loop write proper records.
LEMMA SwarmKeeps ==
    ASSUME GuardInv, dead = "no", NEW p \in Peers, SwarmEvent(p)
    PROVE  GuardInv'
<1> DEFINE rec == RecordOf(p)
<1>1. ASSUME swarm.at = "idle"
      PROVE  rec \in Records /\ Tracked(rec) /\ Solvent(rec)
  BY <1>1, RecordOfIsSolvent DEF GuardInv
<1>2. now \in Nat /\ \A q \in Peers : open[q] \in 0..MaxPerPeer
  BY DEF GuardInv, Types
<1>3. CASE ConnectionEstablished(p)
  <2> DEFINE new == [rec EXCEPT !.score = Raised(@, ConnectBonus), !.last_seen = now]
  <2>1. WriteRecord(p, new) /\ UNCHANGED swarm /\ open' \in [Peers -> 0..MaxPerPeer] /\ swarm.at = "idle"
    BY <1>2, <1>3, Numbers DEF ConnectionEstablished, WriteRecord, GuardInv, Types
  <2>2. new \in Records /\ Tracked(new) /\ Solvent(new)
    BY <1>1, <1>2, <2>1, RaisedIsSolvent, Numbers
  <2> HIDE DEF new
  <2> QED
    BY <2>1, <2>2, WriteKeeps
<1>4. CASE ConnectionClosed(p)
  <2>1. open' \in [Peers -> 0..MaxPerPeer]
    BY <1>2, <1>4, Numbers DEF ConnectionClosed, GuardInv, Types
  <2> QED
    BY <1>4, <2>1 DEF ConnectionClosed, GuardInv, Types, RecordsTracked, RecordsSolvent, Tracked,
                      Solvent, Known, Banning, BansDated, ClocksPast, ScansCover, AbortNeedsARace
<1>5. CASE OnFailedHandshake(p)
  <2> DEFINE new == [rec EXCEPT !.failed = @ + 1, !.score = @ - FailPenalty]
  <2>1. /\ WriteRecord(p, new) /\ ThenBan(p, TooManyFailures(new), "hour")
        /\ open' \in [Peers -> 0..MaxPerPeer] /\ swarm.at = "idle"
    BY <1>2, <1>5, Numbers DEF OnFailedHandshake, WriteRecord, GuardInv, Types
  <2>2. new \in Records /\ Tracked(new) /\ (~TooManyFailures(new) => Solvent(new))
    BY <1>1, <1>2, <2>1, FailedIsSolvent
  <2> HIDE DEF new
  <2>3. \/ Solvent(new) /\ UNCHANGED swarm
        \/ swarm' = [at |-> "ban", peer |-> p, until |-> "hour", since |-> now]
    BY <2>1, <2>2 DEF ThenBan
  <2> QED
    BY <2>1, <2>2, <2>3, WriteKeeps
<1>6. CASE OnProtocolViolation(p)
  <2> DEFINE new == [rec EXCEPT !.spam = TRUE, !.score = @ - ViolationPenalty]
  <2>1. /\ WriteRecord(p, new) /\ ThenBan(p, new.score <= 0, "ever")
        /\ open' \in [Peers -> 0..MaxPerPeer] /\ swarm.at = "idle"
    BY <1>6 DEF OnProtocolViolation, WriteRecord, GuardInv, Types
  <2>2. new \in Records /\ Tracked(new) /\ (~(new.score <= 0) => Solvent(new))
    BY <1>1, <1>2, <2>1, ViolationIsSolvent
  <2> HIDE DEF new
  <2>3. \/ Solvent(new) /\ UNCHANGED swarm
        \/ swarm' = [at |-> "ban", peer |-> p, until |-> "ever", since |-> now]
    BY <2>1, <2>2 DEF ThenBan
  <2> QED
    BY <2>1, <2>2, <2>3, WriteKeeps
<1>7. CASE OnSuccessfulRelay(p)
  <2> DEFINE new == [rec EXCEPT !.score = Raised(@, RelayBonus), !.last_seen = now]
  <2>1. WriteRecord(p, new) /\ UNCHANGED swarm /\ open' \in [Peers -> 0..MaxPerPeer] /\ swarm.at = "idle"
    BY <1>7 DEF OnSuccessfulRelay, WriteRecord, GuardInv, Types
  <2>2. new \in Records /\ Tracked(new) /\ Solvent(new)
    BY <1>1, <1>2, <2>1, RaisedIsSolvent, Numbers
  <2> HIDE DEF new
  <2> QED
    BY <2>1, <2>2, WriteKeeps
<1> QED
  BY <1>3, <1>4, <1>5, <1>6, <1>7 DEF SwarmEvent

\* A step that leaves every record alone or forgets it, and the clock alone, keeps
\* the facts about records; Banning(p) may end for a peer that is forgotten.
LEMMA ForgettingKeeps ==
    ASSUME Types, RecordsTracked, RecordsSolvent,
           \A p \in Peers : scores'[p] = scores[p] \/ scores'[p] = NoRecord,
           scores' \in [Peers -> Records], UNCHANGED now,
           \A p \in Peers : Banning(p) => Banning(p)' \/ scores'[p] = NoRecord
    PROVE  /\ RecordsTracked' /\ RecordsSolvent'
           /\ Known' \subseteq Known /\ \A p \in Known' : scores'[p] = scores[p]
           /\ Cardinality(Known') \in Nat /\ Cardinality(Known) \in Nat
           /\ Cardinality(Known') <= Cardinality(Known)
<1>1. Known' \subseteq Known /\ \A p \in Known' : scores'[p] = scores[p]
  BY DEF Known
<1>2. RecordsTracked'
  BY <1>1 DEF RecordsTracked, Tracked
<1>3. RecordsSolvent'
  BY <1>1 DEF RecordsSolvent, Solvent, Known
<1>4. IsFiniteSet(Known)
  BY Numbers, FS_Subset DEF Known
<1>5. /\ Cardinality(Known') \in Nat /\ Cardinality(Known) \in Nat
      /\ Cardinality(Known') <= Cardinality(Known)
  BY <1>1, <1>4, FS_Subset, FS_CardinalityType
<1> QED
  BY <1>1, <1>2, <1>3, <1>5

\* get_stats finds no more healthy records than there are.
LEMMA HealthyAreKnown ==
    /\ Cardinality(Healthy) \in Nat /\ Cardinality(Known) \in Nat /\ Cardinality(Peers) \in Nat
    /\ Cardinality(Healthy) <= Cardinality(Known) /\ Cardinality(Known) <= Cardinality(Peers)
<1>1. Healthy \subseteq Known /\ Known \subseteq Peers
  BY DEF Healthy, Known
<1>2. IsFiniteSet(Known) /\ IsFiniteSet(Healthy) /\ IsFiniteSet(Peers)
  BY <1>1, Numbers, FS_Subset
<1> QED
  BY <1>1, <1>2, FS_Subset, FS_CardinalityType

\* One step per lock that swarm loop, cleanup, get_stats or is_allowed takes.
LEMMA GuardStep == GuardInv /\ [Next]_vars => GuardInv'
<1> SUFFICES ASSUME GuardInv, [Next]_vars
             PROVE  GuardInv'
  OBVIOUS
<1> USE DEF GuardInv
<1>1. now \in Nat /\ MaxTime \in Nat /\ now <= MaxTime
  BY Numbers DEF Types
<1>2. CASE dead = "no" /\ \E p \in Peers : SwarmEvent(p)
  BY <1>2, SwarmKeeps
<1>3. ASSUME NEW p \in Peers, IsAllowed(p)
      PROVE  GuardInv'
  <2>1. Types'
    BY <1>1, <1>3 DEF IsAllowed, Types
  <2> QED
    BY <1>1, <1>3, <2>1 DEF IsAllowed, RecordsTracked, RecordsSolvent, Tracked, Solvent, Known, Banning,
                            BansDated, ClocksPast, ScansCover, AbortNeedsARace
<1>4. CASE WriteBan
  <2>1. now + BanSecs \in Int /\ Forever \in Int /\ swarm.peer \in Peers
    BY <1>1, Numbers DEF Forever, Types
  <2>2. banned' \in [Peers -> Int]
    BY <1>4, <2>1 DEF WriteBan, Types
  <2>3. /\ swarm' \in [at : {"idle", "ban", "forget"}, peer : Peers, until : {"hour", "ever"}, since : Nat]
        /\ swarm'.peer = swarm.peer /\ swarm'.at = "forget" /\ swarm'.since = now
    BY <1>1, <1>4 DEF WriteBan, Types
  <2>4. Types'
    BY <1>4, <2>2, <2>3 DEF WriteBan, Types
  <2>5. BansDated'
    BY <1>1, <1>4, <2>1, Numbers DEF WriteBan, BansDated, Types
  <2> QED
    BY <1>1, <1>4, <2>3, <2>4, <2>5 DEF WriteBan, RecordsTracked, RecordsSolvent, Tracked, Solvent, Known,
                                        Banning, ClocksPast, ScansCover, AbortNeedsARace
<1>5. CASE ForgetRecord
  <2>1. /\ scores' \in [Peers -> Records] /\ scores'[swarm.peer] = NoRecord
        /\ \A p \in Peers : scores'[p] = scores[p] \/ scores'[p] = NoRecord
    BY <1>5 DEF ForgetRecord, Types, Records, NoRecord
  <2>2. /\ swarm' \in [at : {"idle", "ban", "forget"}, peer : Peers, until : {"hour", "ever"}, since : Nat]
        /\ swarm'.since = 0
    BY <1>5 DEF ForgetRecord, Types
  <2>3. Types'
    BY <1>5, <2>1, <2>2 DEF ForgetRecord, Types
  <2>4. \A p \in Peers : Banning(p) => scores'[p] = NoRecord
    BY <2>1 DEF Banning
  <2>5. /\ RecordsTracked' /\ RecordsSolvent'
        /\ \A p \in Known' : scores'[p] = scores[p] /\ p \in Known
        /\ Cardinality(Known') \in Nat /\ Cardinality(Known) \in Nat
        /\ Cardinality(Known') <= Cardinality(Known)
    BY <1>5, <2>1, <2>4, ForgettingKeeps DEF ForgetRecord
  <2>6. ScansCover'
    BY <1>5, <2>5 DEF ForgetRecord, ScansCover, Types
  <2>7. BansDated' /\ ClocksPast' /\ AbortNeedsARace'
    BY <1>1, <1>5, <2>2 DEF ForgetRecord, BansDated, ClocksPast, AbortNeedsARace
  <2> QED
    BY <2>3, <2>5, <2>6, <2>7
<1>6. CASE RemoveBan
  <2>1. banned' \in [Peers -> Int] /\ \A p \in Peers : banned'[p] = banned[p] \/ banned'[p] = NoBan
    BY <1>6 DEF RemoveBan, Types, NoBan
  <2>2. asker' \in [at : {"idle", "expired"}, peer : Peers, since : Nat] /\ asker'.since = 0
    BY <1>6 DEF RemoveBan, Types
  <2>3. Types'
    BY <1>6, <2>1, <2>2 DEF RemoveBan, Types
  <2>4. BansDated'
    BY <1>6, <2>1 DEF RemoveBan, BansDated
  <2> QED
    BY <1>1, <1>6, <2>2, <2>3, <2>4 DEF RemoveBan, RecordsTracked, RecordsSolvent, Tracked, Solvent, Known,
                                        Banning, ClocksPast, ScansCover, AbortNeedsARace
<1>7. CASE BeginCleanup /\ dead = "no"
  <2>1. Types'
    BY <1>1, <1>7 DEF BeginCleanup, Types
  <2>2. ScansCover'
    BY <1>7 DEF BeginCleanup, ScansCover, RecordsTracked, Tracked, Known
  <2> QED
    BY <1>1, <1>7, <2>1, <2>2 DEF BeginCleanup, RecordsTracked, RecordsSolvent, Tracked, Solvent, Known,
                                  Banning, BansDated, ClocksPast, AbortNeedsARace
<1>8. CASE CleanupBans
  <2>1. banned' \in [Peers -> Int] /\ \A p \in Peers : banned'[p] = banned[p] \/ banned'[p] = NoBan
    BY <1>8 DEF CleanupBans, Types, NoBan
  <2>2. /\ sweep' \in [at : {"idle", "bans", "scores"}, t : Nat]
        /\ sweep'.t = sweep.t /\ sweep.at # "idle"
    BY <1>8 DEF CleanupBans, Types
  <2>3. Types'
    BY <1>8, <2>1, <2>2 DEF CleanupBans, Types
  <2>4. BansDated'
    BY <1>8, <2>1 DEF CleanupBans, BansDated
  <2> QED
    BY <1>1, <1>8, <2>2, <2>3, <2>4 DEF CleanupBans, RecordsTracked, RecordsSolvent, Tracked, Solvent, Known,
                                        Banning, ClocksPast, ScansCover, AbortNeedsARace
<1>9. CASE CleanupScores /\ dead = "no"
  <2> DEFINE stale == \E p \in Peers : sweep.t < scores[p].last_seen
  <2>1. /\ scores' \in [Peers -> Records]
        /\ \A p \in Peers : scores'[p] = scores[p] \/ scores'[p] = NoRecord
    <3>1. CASE stale
      BY <1>9, <3>1 DEF CleanupScores, Types
    <3>2. CASE ~stale
      <4>1. scores' = [p \in Peers |-> IF KeepsRecord(scores[p]) THEN scores[p] ELSE NoRecord]
        BY <1>9, <3>2 DEF CleanupScores
      <4>2. NoRecord \in Records
        BY DEF NoRecord, Records
      <4> QED
        BY <4>1, <4>2 DEF Types
    <3> QED
      BY <3>1, <3>2
  <2>2. /\ sweep' = [at |-> "idle", t |-> 0]
        /\ UNCHANGED <<now, open, banned, swarm, stats, asker, met>>
        /\ dead' = dead \/ (dead' = "cleanup" /\ stale)
    BY <1>9 DEF CleanupScores
  <2>3. Types'
    BY <2>1, <2>2 DEF Types, Scans
  <2>4. /\ RecordsTracked' /\ RecordsSolvent'
        /\ Cardinality(Known') \in Nat /\ Cardinality(Known) \in Nat
        /\ Cardinality(Known') <= Cardinality(Known)
    BY <2>1, <2>2, ForgettingKeeps DEF Banning
  <2>5. ScansCover'
    BY <2>2, <2>4 DEF ScansCover, Types
  <2>6. dead' = "cleanup" => "cleanup" \in met
    <3>1. ASSUME NEW p \in Peers, sweep.t < scores[p].last_seen
          PROVE  p \in Known
      BY <3>1 DEF Types, Known, NoRecord
    <3>2. \A p \in Peers : scores[p].last_seen \in Int /\ sweep.t \in Int
      BY DEF Types, Records
    <3> QED
      BY <1>9, <2>2, <3>1, <3>2 DEF CleanupScores, ScansCover
  <2>7. BansDated' /\ ClocksPast' /\ AbortNeedsARace'
    BY <1>1, <1>9, <2>2, <2>6 DEF BansDated, ClocksPast, AbortNeedsARace
  <2> QED
    BY <2>3, <2>4, <2>5, <2>7
<1>10. CASE CountRecords /\ dead = "no"
  <2>1. Types'
    BY <1>10, HealthyAreKnown DEF CountRecords, Types
  <2>2. ScansCover'
    BY <1>10, HealthyAreKnown DEF CountRecords, ScansCover, Known
  <2> QED
    BY <1>1, <1>10, <2>1, <2>2 DEF CountRecords, RecordsTracked, RecordsSolvent, Tracked, Solvent, Known,
                                   Banning, BansDated, ClocksPast, AbortNeedsARace
<1>11. CASE CountHealthy /\ dead = "no"
  <2>1. Types'
    BY <1>11, HealthyAreKnown DEF CountHealthy, Types, Scans
  <2>2. stats.total < Cardinality(Healthy) => "stats" \in met
    BY <1>11, HealthyAreKnown DEF CountHealthy, ScansCover, Types
  <2> QED
    BY <1>1, <1>11, <2>1, <2>2 DEF CountHealthy, RecordsTracked, RecordsSolvent, Tracked, Solvent, Known,
                                   Banning, BansDated, ClocksPast, ScansCover, AbortNeedsARace
<1>12. CASE Tick
  <2>1. Types'
    BY <1>1, <1>12 DEF Tick, Types
  <2>2. RecordsTracked'
    BY <1>1, <1>12 DEF Tick, RecordsTracked, Tracked, Known, Types, Records
  <2>3. BansDated'
    BY <1>1, <1>12, Numbers DEF Tick, BansDated, Types
  <2>4. ClocksPast'
    BY <1>1, <1>12 DEF Tick, ClocksPast, Types
  <2> QED
    BY <1>12, <2>1, <2>2, <2>3, <2>4 DEF Tick, RecordsSolvent, Solvent, Known, Banning, ScansCover, AbortNeedsARace
<1>13. CASE UNCHANGED vars
  BY <1>13 DEF vars, Types, RecordsTracked, RecordsSolvent, Tracked, Solvent, Known, Banning,
               BansDated, ClocksPast, ScansCover, AbortNeedsARace
<1> QED
  BY <1>2, <1>3, <1>4, <1>5, <1>6, <1>7, <1>8, <1>9, <1>10, <1>11, <1>12, <1>13 DEF Next

\* The bookkeeping of the guard holds in every state.
LEMMA GuardInvariant == Spec => []GuardInv
  BY GuardInit, GuardStep, PTL DEF Spec

-----------------------------------------------------------------------------
\* The tables of peer_guard.rs keep their types: a score never passes MaxScore, a
\* record never counts more than BanAfter failures or shows a time that has not
\* come, although bans are written after the record's lock is gone.
THEOREM GuardTypes == Spec => []TypeOK
<1>1. GuardInv => TypeOK
  <2> SUFFICES ASSUME GuardInv
               PROVE  TypeOK
    OBVIOUS
  <2>1. now \in Nat /\ MaxTime \in Nat /\ now <= MaxTime /\ BanSecs \in Nat /\ BanAfter \in Nat
    BY Numbers DEF GuardInv, Types
  <2>2. ASSUME NEW p \in Peers
        PROVE  /\ scores[p].score \in Int /\ scores[p].failed \in 0..BanAfter
               /\ scores[p].spam \in BOOLEAN /\ scores[p].last_seen \in -1..now
               /\ scores[p].score <= MaxScore
    <3>1. CASE p \in Known
      BY <2>1, <3>1 DEF GuardInv, Types, Records, RecordsTracked, Tracked
    <3>2. CASE p \notin Known
      <4>1. /\ scores[p].score = 0 /\ scores[p].failed = 0 /\ scores[p].spam = FALSE
            /\ scores[p].last_seen = -1
        BY <3>2 DEF Known, NoRecord
      <4>2. scores[p].spam \in BOOLEAN
        BY <4>1, Zenon
      <4>3. scores[p].failed \in 0..BanAfter /\ scores[p].last_seen \in -1..now
        BY <2>1, <4>1
      <4> QED
        BY <4>1, <4>2, <4>3, Numbers
    <3> QED
      BY <3>1, <3>2
  <2>3. scores \in [Peers -> [score : Int, failed : 0..BanAfter, spam : BOOLEAN, last_seen : -1..now]]
    BY <2>2 DEF GuardInv, Types, Records
  <2>4. banned \in [Peers -> {NoBan} \cup 1..Forever]
    BY <2>1 DEF GuardInv, Types, BansDated, Forever
  <2>5. swarm \in [at : {"idle", "ban", "forget"}, peer : Peers, until : {"hour", "ever"}, since : 0..now]
    BY <2>1 DEF GuardInv, Types, ClocksPast
  <2>6. sweep \in [at : {"idle", "bans", "scores"}, t : 0..now]
    BY <2>1 DEF GuardInv, Types, ClocksPast
  <2>7. asker \in [at : {"idle", "expired"}, peer : Peers, since : 0..now]
    BY <2>1 DEF GuardInv, Types, ClocksPast
  <2> QED
    BY <2>2, <2>3, <2>4, <2>5, <2>6, <2>7 DEF GuardInv, Types, TypeOK
<1> QED
  BY <1>1, GuardInvariant, PTL

\* The test "record.score <= 0" of is_allowed is for peers that both failed
\* handshakes and violated the protocol: the other ones are banned before.
THEOREM OnlyBothExhaust == Spec => []ExhaustedNeedsBoth
<1>1. ASSUME GuardInv, NEW p \in Known, ~Banning(p), ~(scores[p].failed > 0 /\ scores[p].spam)
      PROVE  scores[p].score > 0
  <2>1. scores[p] \in Records /\ Solvent(scores[p])
    BY <1>1 DEF GuardInv, Types, Known, RecordsSolvent
  <2>2. scores[p].score \in Int /\ scores[p].failed \in Nat /\ scores[p].spam \in BOOLEAN
    BY <2>1 DEF Records
  <2>3. CASE scores[p].spam = TRUE
    BY <1>1, <2>1, <2>2, <2>3 DEF Solvent
  <2>4. CASE scores[p].spam = FALSE
    <3>1. scores[p].failed <= BanAfter - 1 /\ BanAfter - 1 \in Nat
      BY <2>1, <2>2, Numbers DEF Solvent
    <3>2. scores[p].failed * FailPenalty <= (BanAfter - 1) * FailPenalty
      BY <2>2, <3>1, PenaltyGrows, Numbers
    <3>3. scores[p].failed * FailPenalty \in Int /\ (BanAfter - 1) * FailPenalty \in Int
      BY <2>2, <3>1, Numbers
    <3>4. scores[p].score >= InitialScore - scores[p].failed * FailPenalty
      BY <2>1, <2>4 DEF Solvent
    <3> QED
      BY <2>2, <3>2, <3>3, <3>4, Numbers
  <2> QED
    BY <2>2, <2>3, <2>4
<1>2. GuardInv => ExhaustedNeedsBoth
  BY <1>1 DEF ExhaustedNeedsBoth, Banning
<1> QED
  BY <1>2, GuardInvariant, PTL

\* "now - r.last_seen" of cleanup and "total_peers - healthy" of get_stats
\* underflow only when the swarm loop wrote a record during the scan.
THEOREM AbortsAreRaces == Spec => []AbortNeedsARace
  BY GuardInvariant, PTL DEF GuardInv

\* A ban in force is lifted early only by an is_allowed that saw an older ban
\* expire, or by a ban of an hour that replaces one for ever; cleanup's stale
\* clock lifts none.
THEOREM BansEndEarlyTwoWays == Spec => BanEndsEarly
<1> DEFINE Early(p) ==
             \/ banned'[p] >= banned[p]
             \/ asker.at = "expired" /\ asker.peer = p /\ asker'.at = "idle"
             \/ banned[p] = Forever /\ swarm.at = "ban" /\ swarm.peer = p /\ swarm.until = "hour"
<1>1. ASSUME GuardInv, Next, NEW p \in Peers, InForce(p)
      PROVE  Early(p)
  <2>1. /\ banned[p] \in Int /\ now \in Nat /\ sweep.t \in Nat /\ sweep.t <= now /\ now <= MaxTime
        /\ MaxTime \in Nat /\ BanSecs \in Nat /\ now < banned[p]
        /\ banned[p] = Forever \/ banned[p] <= now + BanSecs
    BY <1>1, Numbers DEF GuardInv, Types, ClocksPast, BansDated, InForce, NoBan
  <2>2. CASE UNCHANGED banned
    BY <2>1, <2>2
  <2>3. CASE WriteBan
    <3>1. CASE swarm.peer # p
      BY <1>1, <2>1, <2>3, <3>1 DEF WriteBan, GuardInv, Types
    <3>2. CASE swarm.peer = p /\ swarm.until = "ever"
      <4>1. banned'[p] = Forever
        BY <1>1, <2>3, <3>2 DEF WriteBan, GuardInv, Types
      <4> QED
        BY <2>1, <4>1 DEF Forever
    <3>3. CASE swarm.peer = p /\ swarm.until = "hour"
      <4>1. banned'[p] = now + BanSecs /\ swarm.at = "ban"
        BY <1>1, <2>3, <3>3 DEF WriteBan, GuardInv, Types
      <4> QED
        BY <2>1, <3>3, <4>1
    <3> QED
      BY <1>1, <3>1, <3>2, <3>3 DEF GuardInv, Types
  <2>4. CASE RemoveBan
    <3>1. CASE asker.peer # p
      BY <1>1, <2>1, <2>4, <3>1 DEF RemoveBan, GuardInv, Types
    <3>2. CASE asker.peer = p
      BY <1>1, <2>4, <3>2 DEF RemoveBan, GuardInv, Types
    <3> QED
      BY <3>1, <3>2
  <2>5. CASE CleanupBans
    <3>1. KeepsBan(banned[p])
      BY <2>1 DEF KeepsBan
    <3>2. banned'[p] = banned[p]
      BY <2>5, <3>1 DEF CleanupBans
    <3> QED
      BY <2>1, <3>2
  <2> QED
    BY <1>1, <2>2, <2>3, <2>4, <2>5
       DEF Next, SwarmEvent, ConnectionEstablished, ConnectionClosed, OnFailedHandshake,
           OnProtocolViolation, OnSuccessfulRelay, WriteRecord, IsAllowed, ForgetRecord,
           BeginCleanup, CleanupScores, CountRecords, CountHealthy, Tick
<1>2. GuardInv /\ [Next]_vars => [\A p \in Peers : InForce(p) => Early(p)]_vars
  BY <1>1
<1> QED
  BY <1>2, GuardInvariant, PTL DEF Spec, BanEndsEarly
=============================================================================
