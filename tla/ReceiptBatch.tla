---------------------------- MODULE ReceiptBatch ----------------------------
(***************************************************************************)
(* Payment receipts of a daemon node: ZkReceiptBatch (zk_payments.rs), the *)
(* hourly settlement task (main.rs) and the /settle handler (rpc_proxy.rs) *)
(* that share it behind a mutex.                                           *)
(*                                                                         *)
(* persist_and_clear gives the file to the runtime's blocking pool and     *)
(* awaits it with the mutex held.  When the client of /settle goes away    *)
(* meanwhile, the handler is dropped and the mutex is free, but the pool   *)
(* still carries the write out.  The process may also crash and restart.   *)
(*                                                                         *)
(* A receipt stands for everything compress hashes; the file of a batch is *)
(* the set of receipts in it, and a batch id is never used again (uuid).   *)
(***************************************************************************)
EXTENDS Integers, FiniteSets

CONSTANTS Receipts,
          Hourly,       \* the settlement task
          Handlers,     \* handlers of /settle
          HangUps,      \* bound: clients of /settle that go away
          MaxBatch      \* bound on batch ids

Workers == {Hourly} \cup Handlers

ASSUME BatchAssumption ==
    /\ IsFiniteSet(Receipts)
    /\ Hourly \notin Handlers
    /\ HangUps \in Nat /\ MaxBatch \in Nat \ {0}

VARIABLES receipts,   \* receipts in memory
          batch_id,
          files,      \* the receipts in the file of every batch
          writes,     \* what the pool has been given to write, and who awaits it
          worker,     \* where every worker is
          report,     \* the receipt count in the summary returned for a batch
          earned,     \* history: receipts added, without those a crash found in memory only
          hangups     \* clients that went away

vars == <<receipts, batch_id, files, writes, worker, report, earned, hangups>>

Batches == 1..MaxBatch
NoReport == -1
Stages == {"idle", "locked", "writing", "written"}
Write == [batch : Batches, receipts : SUBSET Receipts, by : Workers \cup 1..HangUps]

TypeOK ==
    /\ receipts \subseteq Receipts
    /\ batch_id \in Batches
    /\ files \in [Batches -> SUBSET Receipts]
    /\ writes \subseteq Write
    /\ worker \in [Workers -> Stages]
    /\ report \in [Batches -> {NoReport} \cup 0..Cardinality(Receipts)]
    /\ earned \subseteq Receipts
    /\ hangups \in 0..HangUps

Init ==
    /\ receipts = {}
    /\ batch_id = 1
    /\ files = [b \in Batches |-> {}]
    /\ writes = {}
    /\ worker = [w \in Workers |-> "idle"]
    /\ report = [b \in Batches |-> NoReport]
    /\ earned = {}
    /\ hangups = 0

-----------------------------------------------------------------------------
Unlocked == \A w \in Workers : worker[w] = "idle"

\* Mutant: receipts are added without the mutex.
MutantMayAdd == TRUE

MayAdd == Unlocked

\* add_receipt takes &mut self, so whoever calls it has the mutex.  Nothing in
\* the repository calls it yet; the settlements that would follow are wired.
AddReceipt(r) ==
    /\ MayAdd
    /\ r \notin earned
    /\ receipts' = receipts \cup {r}
    /\ earned' = earned \cup {r}
    /\ UNCHANGED <<batch_id, files, writes, worker, report, hangups>>

\* zk_batch.lock, compress and create_dir_all.
Lock(w) ==
    /\ Unlocked
    /\ worker' = [worker EXCEPT ![w] = "locked"]
    /\ UNCHANGED <<receipts, batch_id, files, writes, report, earned, hangups>>

\* The file the pool is asked to write.
HandOver(w) == [batch |-> batch_id, receipts |-> receipts, by |-> w]

\* tokio::fs::write hands the write to the pool.
BeginWrite(w) ==
    /\ worker[w] = "locked"
    /\ writes' = writes \cup {HandOver(w)}
    /\ worker' = [worker EXCEPT ![w] = "writing"]
    /\ UNCHANGED <<receipts, batch_id, files, report, earned, hangups>>

\* Whoever awaits write x finds it done, or failed.
Notify(x, stage) ==
    worker' = IF x.by \in Workers THEN [worker EXCEPT ![x.by] = stage] ELSE worker

\* The pool carries out a write.
PoolWrites(x) ==
    /\ files' = [files EXCEPT ![x.batch] = x.receipts]
    /\ writes' = writes \ {x}
    /\ Notify(x, "written")
    /\ UNCHANGED <<receipts, batch_id, report, earned, hangups>>

\* Mutant: a batch that could not be written goes on under a new id.
MutantIdAfterFailure == IF batch_id < MaxBatch THEN batch_id + 1 ELSE batch_id

IdAfterFailure == batch_id

\* Mutant: the receipts are cleared in any case.
MutantKeptAfterFailure == {}

KeptAfterFailure == receipts

\* A write fails, after or before the file was truncated; persist_and_clear
\* returns the error and keeps everything.
PoolFails(x, truncated) ==
    /\ files' = IF truncated THEN [files EXCEPT ![x.batch] = {}] ELSE files
    /\ writes' = writes \ {x}
    /\ Notify(x, "idle")
    /\ batch_id' = IdAfterFailure
    /\ receipts' = KeptAfterFailure
    /\ UNCHANGED <<report, earned, hangups>>

\* The directory cannot be created.
NoDirectory(w) ==
    /\ worker[w] = "locked"
    /\ worker' = [worker EXCEPT ![w] = "idle"]
    /\ UNCHANGED <<receipts, batch_id, files, writes, report, earned, hangups>>

\* compress: the summary of a batch, told apart by its receipt count.
Compress == Cardinality(receipts)

\* The receipts are cleared, the next batch begins and the summary is returned;
\* compress has made it under the same lock.
Clear(w) ==
    /\ worker[w] = "written"
    /\ batch_id < MaxBatch
    /\ receipts' = {}
    /\ batch_id' = batch_id + 1
    /\ report' = [report EXCEPT ![batch_id] = Compress]
    /\ worker' = [worker EXCEPT ![w] = "idle"]
    /\ UNCHANGED <<files, writes, earned, hangups>>

\* The client of /settle goes away: the handler is dropped, its mutex guard with
\* it, and the write it has begun is left to the pool.
HangUp(w) ==
    /\ worker[w] # "idle"
    /\ hangups < HangUps
    /\ hangups' = hangups + 1
    /\ worker' = [worker EXCEPT ![w] = "idle"]
    /\ writes' = {IF x.by = w THEN [x EXCEPT !.by = hangups'] ELSE x : x \in writes}
    /\ UNCHANGED <<receipts, batch_id, files, report, earned>>

OnDisk == UNION {files[b] : b \in Batches}

\* The process dies and comes back: memory and unwritten files are gone.  A
\* write that the pool was carrying out may have truncated its file.
Crash(cut) ==
    /\ batch_id < MaxBatch
    /\ receipts' = {}
    /\ batch_id' = batch_id + 1
    /\ files' = [b \in Batches |-> IF \E x \in cut : x.batch = b THEN {} ELSE files[b]]
    /\ writes' = {}
    /\ worker' = [w \in Workers |-> "idle"]
    /\ earned' = earned \ (receipts \ OnDisk')
    /\ UNCHANGED <<report, hangups>>

Next ==
    \/ \E r \in Receipts : AddReceipt(r)
    \/ \E w \in Workers : Lock(w) \/ NoDirectory(w) \/ BeginWrite(w) \/ Clear(w)
    \/ \E x \in writes : PoolWrites(x) \/ \E truncated \in BOOLEAN : PoolFails(x, truncated)
    \/ \E w \in Handlers : HangUp(w)
    \/ \E cut \in SUBSET writes : Crash(cut)

Spec == Init /\ [][Next]_vars

-----------------------------------------------------------------------------
\* No receipt is in the files of two batches, whatever fails, is repeated, is
\* cut short or crashes: it would be paid for twice.
NoReceiptTwice ==
    \A b, c \in Batches : b # c => files[b] \cap files[c] = {}

\* "Save raw receipts to disk": a receipt that is no longer in memory is in a
\* file, unless a crash found it in memory only.
ReceiptsKept == earned \subseteq receipts \cup OnDisk

\* The same while no client of /settle has gone away: failed writes, a missing
\* directory and settlements that wait for each other lose nothing, and a crash,
\* in the middle of a write too, loses nothing that was settled before.
KeptUnlessCutShort == hangups = 0 => ReceiptsKept

\* While no client has gone away, the summary settlement gives of a batch is
\* that of its file: nothing is added between compressing and clearing.
ReportMatchesFile ==
    hangups = 0 =>
        \A b \in Batches : report[b] # NoReport => report[b] = Cardinality(files[b])
=============================================================================
