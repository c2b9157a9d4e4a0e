-------------------------- MODULE AttackPrevention --------------------------
(***************************************************************************)
(* Bans and rate limits of the daemon (attack_prevention.rs), as the       *)
(* request handlers use them (rpc_proxy.rs): every request asks is_banned, *)
(* then check_rate_limit, then scan_payload.  The handlers run on several  *)
(* threads and the tables are concurrent maps: is_banned lets go of an     *)
(* expired entry before it removes it, and check_rate_limit and cleanup    *)
(* read the clock before they lock an entry, so others can step in.        *)
(*                                                                         *)
(* Time is counted in seconds and does not go back.  Differences of times  *)
(* are unsigned; the release build checks overflow and aborts on a panic,  *)
(* so one that would be negative ends the process.                         *)
(***************************************************************************)
EXTENDS Integers, FiniteSets, Functions

CONSTANTS Ips, Workers,
          Limit,      \* 100 requests per window
          BanLimit,   \* 1000 requests per window
          Window,     \* 60 seconds
          IdleSecs,   \* 300 seconds until a record is forgotten
          BanSecs,    \* 86400 seconds
          MaxTime,    \* bound on the clock
          MaxPause    \* bound: seconds a handler spends between two calls

ASSUME RateAssumption ==
    /\ Limit \in Nat /\ BanLimit \in Nat /\ Limit < BanLimit
    /\ Window \in Nat /\ IdleSecs \in Nat /\ BanSecs \in Nat
    /\ 0 < Window /\ Window < IdleSecs /\ IdleSecs <= BanSecs
    /\ MaxTime \in Nat /\ MaxPause \in Nat /\ MaxPause <= Window

VARIABLES now,
          ip_requests,   \* IpRecord of every address, or NoRecord
          banned_ips,    \* expiry of the ban of every address, or NoBan
          handler,       \* where every handler is, for which address, since when
          sweep,         \* where cleanup is, and the time it has read
          admitted       \* history: when requests of an address were allowed

rateVars == <<now, ip_requests, banned_ips, handler, sweep, admitted>>

NoRecord == [count |-> 0, window_start |-> -1, last_seen |-> -1]
NoBan == -1

RateStages == {"idle", "arrived", "expired", "checked", "timed", "allowed", "dead"}

RateTypeOK ==
    /\ now \in 0..MaxTime
    /\ ip_requests \in [Ips -> [count : Nat, window_start : -1..now, last_seen : -1..now]]
    /\ banned_ips \in [Ips -> {NoBan} \cup 0..(MaxTime + BanSecs)]
    /\ handler \in [Workers -> [at : RateStages, ip : Ips, since : 0..now]]
    /\ sweep \in [at : {"idle", "records", "bans", "dead"}, t : 0..now]
    /\ admitted \in [Ips -> [0..MaxTime -> Nat]]

RateInit ==
    /\ now = 0
    /\ ip_requests = [ip \in Ips |-> NoRecord]
    /\ banned_ips = [ip \in Ips |-> NoBan]
    /\ \E ip \in Ips :
        handler = [h \in Workers |-> [at |-> "idle", ip |-> ip, since |-> 0]]
    /\ sweep = [at |-> "idle", t |-> 0]
    /\ admitted = [ip \in Ips |-> [t \in 0..MaxTime |-> 0]]

-----------------------------------------------------------------------------
At(h, stage) == handler[h].at = stage
GoTo(h, stage) ==
    handler' = [handler EXCEPT ![h].at = stage, ![h].since = IF stage = "idle" THEN 0 ELSE now]

\* A request of some address reaches a handler.
Arrive(h, ip) ==
    /\ At(h, "idle")
    /\ handler' = [handler EXCEPT ![h] = [at |-> "arrived", ip |-> ip, since |-> now]]
    /\ UNCHANGED <<now, ip_requests, banned_ips, sweep, admitted>>

Banned(ip) == banned_ips[ip] # NoBan /\ now < banned_ips[ip]

\* is_banned, up to the point where the entry is released: a banned address is
\* turned away, an expired entry is about to be removed.
IsBanned(h) ==
    LET ip == handler[h].ip
    IN  /\ At(h, "arrived")
        /\ GoTo(h, CASE banned_ips[ip] = NoBan -> "checked"
                     [] Banned(ip)             -> "idle"
                     [] OTHER                  -> "expired")
        /\ UNCHANGED <<now, ip_requests, banned_ips, sweep, admitted>>

\* is_banned, the removal: whatever entry is there by now goes.
RemoveBan(h) ==
    /\ At(h, "expired")
    /\ banned_ips' = [banned_ips EXCEPT ![handler[h].ip] = NoBan]
    /\ GoTo(h, "checked")
    /\ UNCHANGED <<now, ip_requests, sweep, admitted>>

\* check_rate_limit reads the clock, then locks the record.
ReadClock(h) ==
    /\ At(h, "checked")
    /\ GoTo(h, "timed")
    /\ UNCHANGED <<now, ip_requests, banned_ips, sweep, admitted>>

\* "now - record.window_start > 60" starts a new window.
InWindow(rec, t) == rec # NoRecord /\ t - rec.window_start <= Window

\* The record of an address after one more request at time t: or_insert, the
\* window reset and the count.
Counted(ip, t) ==
    LET rec == ip_requests[ip]
    IN  IF InWindow(rec, t)
        THEN [rec EXCEPT !.count = @ + 1, !.last_seen = t]
        ELSE [count |-> 1, window_start |-> t, last_seen |-> t]

Verdict(count) ==
    CASE count > BanLimit -> "banned" [] count > Limit -> "limited" [] OTHER -> "allowed"

\* The unsigned difference t - u cannot be formed: the process ends.
Abort(t, u) ==
    /\ t < u
    /\ handler' = [h \in Workers |-> [handler[h] EXCEPT !.at = "dead"]]
    /\ sweep' = [sweep EXCEPT !.at = "dead"]
    /\ UNCHANGED <<now, ip_requests, banned_ips, admitted>>

\* The rest of check_rate_limit, with the record locked; ban_ip is part of it.
CheckRateLimit(h) ==
    LET ip == handler[h].ip
        t == handler[h].since
        rec == Counted(ip, t)
        verdict == Verdict(rec.count)
    IN  /\ At(h, "timed")
        /\ \/ Abort(t, ip_requests[ip].window_start)
           \/ /\ t >= ip_requests[ip].window_start
              /\ ip_requests' = [ip_requests EXCEPT ![ip] = rec]
              /\ IF verdict = "banned"
                 THEN banned_ips' = [banned_ips EXCEPT ![ip] = now + BanSecs]
                 ELSE UNCHANGED banned_ips
              /\ admitted' = IF verdict = "allowed"
                             THEN [admitted EXCEPT ![ip][now] = @ + 1]
                             ELSE admitted
              /\ GoTo(h, IF verdict = "allowed" THEN "allowed" ELSE "idle")
              /\ UNCHANGED <<now, sweep>>

\* scan_payload: whether the payload is blocked or not, no table changes.
ScanPayload(h) ==
    /\ At(h, "allowed")
    /\ GoTo(h, "idle")
    /\ UNCHANGED <<now, ip_requests, banned_ips, sweep, admitted>>

\* Mutant: records are forgotten while their window runs.
MutantForget(rec) == sweep.t - rec.last_seen > 0

\* cleanup keeps a record while "now - r.last_seen < 300".
Forget(rec) == sweep.t - rec.last_seen >= IdleSecs

\* cleanup, every minute from a task of its own, reads the clock once.
BeginCleanup ==
    /\ sweep.at = "idle"
    /\ sweep' = [at |-> "records", t |-> now]
    /\ UNCHANGED <<now, ip_requests, banned_ips, handler, admitted>>

\* Each retain locks the entries it looks at.
CleanupRecords ==
    /\ sweep.at = "records"
    /\ \/ \E ip \in Ips : Abort(sweep.t, ip_requests[ip].last_seen)
       \/ /\ \A ip \in Ips : sweep.t >= ip_requests[ip].last_seen
          /\ ip_requests' = [ip \in Ips |->
                IF Forget(ip_requests[ip]) THEN NoRecord ELSE ip_requests[ip]]
          /\ sweep' = [sweep EXCEPT !.at = "bans"]
          /\ UNCHANGED <<now, banned_ips, handler, admitted>>

\* Mutant: bans that end before the next cleanup go with this one.
MutantLasts(expiry) == sweep.t + 1 < expiry

\* cleanup keeps a ban while it lasts.
Lasts(expiry) == sweep.t < expiry

CleanupBans ==
    /\ sweep.at = "bans"
    /\ banned_ips' = [ip \in Ips |->
            IF Lasts(banned_ips[ip]) THEN banned_ips[ip] ELSE NoBan]
    /\ sweep' = [at |-> "idle", t |-> 0]
    /\ UNCHANGED <<now, ip_requests, handler, admitted>>

\* A second passes.  The calls of one request follow each other without an
\* await, and so do the steps of cleanup.
Second ==
    /\ now < MaxTime /\ sweep.at # "dead"
    /\ \A h \in Workers : At(h, "idle") \/ now - handler[h].since < MaxPause
    /\ sweep.at = "idle" \/ now - sweep.t < MaxPause
    /\ now' = now + 1
    /\ UNCHANGED <<ip_requests, banned_ips, handler, sweep, admitted>>

RateNext ==
    \/ \E h \in Workers :
        \/ \E ip \in Ips : Arrive(h, ip)
        \/ IsBanned(h)
        \/ RemoveBan(h)
        \/ ReadClock(h)
        \/ CheckRateLimit(h)
        \/ ScanPayload(h)
    \/ BeginCleanup
    \/ CleanupRecords
    \/ CleanupBans
    \/ Second

RateSpec == RateInit /\ [][RateNext]_rateVars

-----------------------------------------------------------------------------
\* The requests of an address admitted in a set of seconds.
AdmittedIn(ip, seconds) == SumFunctionOnSet(admitted[ip], seconds)

\* However the requests of an address fall across two windows, and although
\* cleanup forgets idle addresses, no Window seconds see more than twice Limit
\* of them admitted.  A handler that pauses with an old time in hand may be
\* admitted late: each second it can pause, beyond one, is one second less.
BurstBound ==
    \A ip \in Ips, t \in 0..MaxTime :
        AdmittedIn(ip, {u \in 0..MaxTime : t <= u /\ u <= t + Window + 1 - MaxPause}) <= 2 * Limit

\* A ban that is in force is lost in one way only: to a handler that saw an
\* earlier ban of the address expire and removes what it finds there by now.
\* Cleanup, whose time may be old, never ends a ban early, and no request
\* shortens one.
BanLostToStaleReadOnly ==
    [][\A ip \in Ips :
        Banned(ip) =>
            \/ banned_ips'[ip] >= banned_ips[ip]
            \/ \E h \in Workers :
                    handler[h].ip = ip /\ At(h, "expired") /\ handler'[h].at = "checked"]_rateVars
=============================================================================
