------------------------- MODULE ReceiptBatchProofs -------------------------
(***************************************************************************)
(* No receipt is written into two batches: a proof for any receipts, any   *)
(* number of /settle handlers, hang-ups, failed writes and crashes.        *)
(*                                                                         *)
(* NoReceiptTwice speaks of files.  What is inductive speaks of everything *)
(* that can still become a file: the receipts in memory count for the      *)
(* current batch, and a write in the pool for the batch it was begun for.  *)
(* Only add_receipt makes such a belonging; all other steps at most end    *)
(* one.                                                                    *)
(*                                                                         *)
(* As long as no client goes away, nothing is lost either and the reports  *)
(* match the files: HeldInv says what the mutex protects meanwhile.        *)
(***************************************************************************)
EXTENDS ReceiptBatch, FiniteSetTheorems, TLAPS

\* Receipt r is in batch b, or on its way there.
Belongs(r, b) ==
    \/ r \in files[b]
    \/ \E x \in writes : x.batch = b /\ r \in x.receipts
    \/ b = batch_id /\ r \in receipts

\* What belongs to a batch has been earned.
BelongingIsEarned ==
    \A r \in Receipts, b \in Batches : Belongs(r, b) => r \in earned

\* A receipt belongs to one batch.
OneBatch ==
    \A r \in Receipts : \A b, c \in Batches : Belongs(r, b) /\ Belongs(r, c) => b = c

BatchInv == TypeOK /\ BelongingIsEarned /\ OneBatch

-----------------------------------------------------------------------------
\* The variables of the batch keep their types, in every step of every worker,
\* of the pool and of a crash.
LEMMA TypeStep == TypeOK /\ [Next]_vars => TypeOK'
<1> SUFFICES ASSUME TypeOK, [Next]_vars
             PROVE  TypeOK'
  OBVIOUS
<1> USE BatchAssumption DEF TypeOK, Batches, Stages
<1>1. ASSUME NEW r \in Receipts, AddReceipt(r)
      PROVE  TypeOK'
  BY <1>1 DEF AddReceipt
<1>2. ASSUME NEW w \in Workers, Lock(w)
      PROVE  TypeOK'
  BY <1>2 DEF Lock
<1>3. ASSUME NEW w \in Workers, NoDirectory(w)
      PROVE  TypeOK'
  BY <1>3 DEF NoDirectory
<1>4. ASSUME NEW w \in Workers, BeginWrite(w)
      PROVE  TypeOK'
  <2>1. HandOver(w) \in Write
    BY DEF HandOver, Write
  <2> QED
    BY <1>4, <2>1 DEF BeginWrite
<1>5. ASSUME NEW w \in Workers, Clear(w)
      PROVE  TypeOK'
  <2>1. Compress \in 0..Cardinality(Receipts)
    BY FS_Subset, FS_CardinalityType DEF Compress
  <2> QED
    BY <1>5, <2>1 DEF Clear
<1>6. ASSUME NEW x \in writes, PoolWrites(x)
      PROVE  TypeOK'
  <2>1. x.batch \in Batches /\ x.receipts \subseteq Receipts
    BY DEF Write
  <2>2. worker' \in [Workers -> Stages]
    BY <1>6 DEF PoolWrites, Notify
  <2> QED
    BY <1>6, <2>1, <2>2 DEF PoolWrites
<1>7. ASSUME NEW x \in writes, NEW truncated \in BOOLEAN, PoolFails(x, truncated)
      PROVE  TypeOK'
  <2>1. x.batch \in Batches
    BY DEF Write
  <2>2. worker' \in [Workers -> Stages]
    BY <1>7 DEF PoolFails, Notify
  <2> QED
    BY <1>7, <2>1, <2>2 DEF PoolFails, IdAfterFailure, KeptAfterFailure
<1>8. ASSUME NEW w \in Handlers, HangUp(w)
      PROVE  TypeOK'
  <2>1. hangups' \in 0..HangUps /\ hangups' \in 1..HangUps
    BY <1>8 DEF HangUp
  <2>2. ASSUME NEW x \in writes
        PROVE  [x EXCEPT !.by = hangups'] \in Write
    BY <2>1 DEF Write
  <2>3. writes' \subseteq Write
    BY <1>8, <2>2 DEF HangUp
  <2> QED
    BY <1>8, <2>1, <2>3 DEF HangUp, Workers
<1>9. ASSUME NEW cut \in SUBSET writes, Crash(cut)
      PROVE  TypeOK'
  BY <1>9 DEF Crash
<1>10. CASE UNCHANGED vars
  BY <1>10 DEF vars
<1> QED
  BY <1>1, <1>2, <1>3, <1>4, <1>5, <1>6, <1>7, <1>8, <1>9, <1>10 DEF Next

-----------------------------------------------------------------------------
\* Apart from add_receipt, no step makes a receipt belong anywhere anew.
LEMMA NothingNew ==
    ASSUME TypeOK, Next, \A r \in Receipts : ~AddReceipt(r)
    PROVE  \A r \in Receipts, b \in Batches : Belongs(r, b)' => Belongs(r, b)
<1> USE DEF TypeOK, Belongs
<1>1. ASSUME NEW w \in Workers, Lock(w) \/ NoDirectory(w)
      PROVE  \A r \in Receipts, b \in Batches : Belongs(r, b)' => Belongs(r, b)
  BY <1>1 DEF Lock, NoDirectory
<1>2. ASSUME NEW w \in Workers, BeginWrite(w)
      PROVE  \A r \in Receipts, b \in Batches : Belongs(r, b)' => Belongs(r, b)
  BY <1>2 DEF BeginWrite, HandOver
<1>3. ASSUME NEW w \in Workers, Clear(w)
      PROVE  \A r \in Receipts, b \in Batches : Belongs(r, b)' => Belongs(r, b)
  BY <1>3 DEF Clear
<1>4. ASSUME NEW x \in writes, PoolWrites(x)
      PROVE  \A r \in Receipts, b \in Batches : Belongs(r, b)' => Belongs(r, b)
  BY <1>4 DEF PoolWrites
<1>5. ASSUME NEW x \in writes, NEW truncated \in BOOLEAN, PoolFails(x, truncated)
      PROVE  \A r \in Receipts, b \in Batches : Belongs(r, b)' => Belongs(r, b)
  BY <1>5 DEF PoolFails, IdAfterFailure, KeptAfterFailure
<1>6. ASSUME NEW w \in Handlers, HangUp(w)
      PROVE  \A r \in Receipts, b \in Batches : Belongs(r, b)' => Belongs(r, b)
  <2>1. \A y \in writes' : \E x \in writes : y.batch = x.batch /\ y.receipts = x.receipts
    BY <1>6 DEF HangUp, Write
  <2> QED
    BY <1>6, <2>1 DEF HangUp
<1>7. ASSUME NEW cut \in SUBSET writes, Crash(cut)
      PROVE  \A r \in Receipts, b \in Batches : Belongs(r, b)' => Belongs(r, b)
  BY <1>7 DEF Crash
<1> QED
  BY <1>1, <1>2, <1>3, <1>4, <1>5, <1>6, <1>7 DEF Next

\* Before the first receipt nothing belongs to any batch.
LEMMA BatchInit == Init => BatchInv
<1> SUFFICES ASSUME Init PROVE BatchInv
  OBVIOUS
<1>1. TypeOK
  BY BatchAssumption DEF Init, TypeOK, Batches, Stages
<1>2. \A r \in Receipts, b \in Batches : ~Belongs(r, b)
  BY DEF Init, Belongs
<1> QED
  BY <1>1, <1>2 DEF BatchInv, BelongingIsEarned, OneBatch

\* Only add_receipt makes a belonging, for a receipt that has none.
LEMMA BatchStep == BatchInv /\ [Next]_vars => BatchInv'
<1> SUFFICES ASSUME BatchInv, [Next]_vars
             PROVE  BelongingIsEarned' /\ OneBatch'
  BY TypeStep DEF BatchInv
<1> USE DEF BatchInv, BelongingIsEarned, OneBatch
<1>1. ASSUME NEW s \in Receipts, AddReceipt(s)
      PROVE  BelongingIsEarned' /\ OneBatch'
  <2>1. \A r \in Receipts, b \in Batches :
            Belongs(r, b)' => Belongs(r, b) \/ (r = s /\ b = batch_id)
    BY <1>1 DEF AddReceipt, Belongs
  <2>2. \A b \in Batches : ~Belongs(s, b)
    BY <1>1 DEF AddReceipt
  <2> QED
    BY <1>1, <2>1, <2>2 DEF AddReceipt
<1>2. ASSUME Next, \A r \in Receipts : ~AddReceipt(r)
      PROVE  BelongingIsEarned' /\ OneBatch'
  <2>1. \A r \in Receipts, b \in Batches : Belongs(r, b)' => Belongs(r, b)
    BY <1>2, NothingNew
  <2>2. BelongingIsEarned'
    <3>1. ASSUME NEW cut \in SUBSET writes, Crash(cut)
          PROVE  BelongingIsEarned'
      <4>1. \A r \in Receipts, b \in Batches : Belongs(r, b)' => r \in OnDisk'
        BY <3>1 DEF Crash, Belongs, OnDisk
      <4> QED
        BY <2>1, <3>1, <4>1 DEF Crash
    <3>2. CASE \A cut \in SUBSET writes : ~Crash(cut)
      <4>1. earned' = earned
        BY <1>2, <3>2 DEF Next, Lock, NoDirectory, BeginWrite, Clear, PoolWrites, PoolFails, HangUp
      <4> QED
        BY <2>1, <4>1
    <3> QED
      BY <3>1, <3>2
  <2> QED
    BY <2>1, <2>2
<1>3. CASE UNCHANGED vars
  <2>1. \A r \in Receipts, b \in Batches : Belongs(r, b)' => Belongs(r, b)
    BY <1>3 DEF vars, Belongs
  <2> QED
    BY <1>3, <2>1 DEF vars
<1> QED
  BY <1>1, <1>2, <1>3

\* Both hold in every state.
LEMMA BatchInvariant == Spec => []BatchInv
  BY BatchInit, BatchStep, PTL DEF Spec

\* The batch, its files and the writes in the pool keep their types.
THEOREM TypeCorrect == Spec => []TypeOK
  BY BatchInvariant, PTL DEF BatchInv

\* persist_and_clear, repeated after errors, cut short by hang-ups and between
\* crashes, never lets a receipt into the files of two batches.
THEOREM ReceiptInOneFile == Spec => []NoReceiptTwice
<1>1. BatchInv => NoReceiptTwice
  <2> SUFFICES ASSUME BatchInv, NEW b \in Batches, NEW c \in Batches, b # c,
                      NEW r \in files[b] \cap files[c]
               PROVE  FALSE
    BY DEF NoReceiptTwice
  <2>1. r \in Receipts
    BY DEF BatchInv, TypeOK
  <2> QED
    BY <2>1 DEF BatchInv, OneBatch, Belongs
<1> QED
  BY <1>1, BatchInvariant, PTL

-----------------------------------------------------------------------------
\* While no client has gone away, the mutex is what makes settlement safe.  What
\* it protects, stated so that every step under it keeps it: one worker is busy;
\* what the pool was given is what memory holds, for the current batch and for
\* the worker that awaits it; the file of the current batch holds nothing that is
\* not in memory, and all of it once it is written; later files are empty; and
\* only batches that are over have been reported.
OneBusy ==
    \A v, w \in Workers : worker[v] # "idle" /\ worker[w] # "idle" => v = w

WritesCurrent ==
    \A x \in writes : /\ x.by \in Workers
                      /\ worker[x.by] = "writing"
                      /\ x.batch = batch_id
                      /\ x.receipts = receipts

FileFollows ==
    /\ files[batch_id] \subseteq receipts
    /\ \A w \in Workers : worker[w] = "written" => files[batch_id] = receipts
    /\ \A b \in Batches : b > batch_id => files[b] = {}

Reported ==
    \A b \in Batches : report[b] # NoReport =>
        b < batch_id /\ report[b] = Cardinality(files[b])

Held == OneBusy /\ WritesCurrent /\ FileFollows /\ Reported /\ ReceiptsKept

HeldInv == hangups = 0 => Held

\* Nothing is busy, written, reported or earned at the start.
LEMMA HeldInit == Init => HeldInv
<1> SUFFICES ASSUME Init PROVE Held
  BY DEF HeldInv
<1>1. batch_id \in Batches
  BY BatchAssumption DEF Init, Batches
<1>2. FileFollows
  BY <1>1 DEF Init, FileFollows
<1> QED
  BY <1>2 DEF Init, Held, OneBusy, WritesCurrent, Reported, ReceiptsKept

\* Replacing the file of one batch touches no other receipt on disk.
LEMMA OtherFilesStay ==
    ASSUME TypeOK, NEW b \in Batches, NEW f, files' = [files EXCEPT ![b] = f]
    PROVE  \A r : r \in OnDisk => r \in OnDisk' \/ r \in files[b]
<1>1. \A c \in Batches : c # b => files'[c] = files[c]
  BY DEF TypeOK
<1> QED
  BY <1>1 DEF OnDisk

\* Every step that the mutex orders keeps what it protects.
LEMMA HeldStep == TypeOK /\ HeldInv /\ [Next]_vars => HeldInv'
<1> SUFFICES ASSUME TypeOK, HeldInv, [Next]_vars, hangups' = 0
             PROVE  Held'
  BY DEF HeldInv
<1>types. /\ batch_id \in Batches /\ files \in [Batches -> SUBSET Receipts]
          /\ worker \in [Workers -> Stages] /\ writes \subseteq Write
          /\ report \in [Batches -> {NoReport} \cup 0..Cardinality(Receipts)]
  BY DEF TypeOK
<1>order. Batches \subseteq Int /\ MaxBatch \in Nat
  BY BatchAssumption DEF Batches
<1>1. ASSUME NEW w \in Handlers, HangUp(w)
      PROVE  FALSE
  BY <1>1 DEF HangUp, TypeOK
<1>2. hangups = 0
  BY <1>1 DEF Next, vars, AddReceipt, Lock, NoDirectory, BeginWrite, Clear,
              PoolWrites, PoolFails, Crash
<1>3. Held
  BY <1>2 DEF HeldInv
<1> USE DEF Held
<1>4. ASSUME NEW r \in Receipts, AddReceipt(r)
      PROVE  Held'
  <2>1. writes = {}
    BY <1>3, <1>4 DEF AddReceipt, MayAdd, Unlocked, WritesCurrent
  <2>2. \A w \in Workers : worker[w] # "written"
    BY <1>4 DEF AddReceipt, MayAdd, Unlocked
  <2>3. ReceiptsKept'
    BY <1>3, <1>4 DEF AddReceipt, ReceiptsKept, OnDisk
  <2>4. FileFollows'
    BY <1>3, <1>4, <2>2 DEF AddReceipt, FileFollows
  <2> QED
    BY <1>3, <1>4, <2>1, <2>3, <2>4 DEF AddReceipt, OneBusy, WritesCurrent, Reported
<1>5. ASSUME NEW w \in Workers, Lock(w)
      PROVE  Held'
  <2>1. writes = {}
    BY <1>3, <1>5 DEF Lock, Unlocked, WritesCurrent
  <2>2. OneBusy'
    BY <1>5, <1>types DEF Lock, Unlocked, OneBusy
  <2>3. FileFollows'
    BY <1>3, <1>5, <1>types DEF Lock, FileFollows
  <2> QED
    BY <1>3, <1>5, <2>1, <2>2, <2>3 DEF Lock, WritesCurrent, Reported, ReceiptsKept, OnDisk
<1>6. ASSUME NEW w \in Workers, NoDirectory(w)
      PROVE  Held'
  <2>1. writes = {}
    BY <1>3, <1>6 DEF NoDirectory, OneBusy, WritesCurrent
  <2>2. OneBusy'
    BY <1>3, <1>6, <1>types DEF NoDirectory, OneBusy
  <2>3. FileFollows'
    BY <1>3, <1>6, <1>types DEF NoDirectory, FileFollows
  <2> QED
    BY <1>3, <1>6, <2>1, <2>2, <2>3
       DEF NoDirectory, WritesCurrent, Reported, ReceiptsKept, OnDisk
<1>7. ASSUME NEW w \in Workers, BeginWrite(w)
      PROVE  Held'
  <2>1. writes = {}
    BY <1>3, <1>7 DEF BeginWrite, OneBusy, WritesCurrent
  <2>2. OneBusy'
    BY <1>3, <1>7, <1>types DEF BeginWrite, OneBusy
  <2>3. FileFollows'
    BY <1>3, <1>7, <1>types DEF BeginWrite, FileFollows
  <2>4. WritesCurrent'
    BY <1>7, <2>1, <1>types DEF BeginWrite, HandOver, WritesCurrent
  <2> QED
    BY <1>3, <1>7, <2>2, <2>3, <2>4 DEF BeginWrite, Reported, ReceiptsKept, OnDisk
<1>8. ASSUME NEW w \in Workers, Clear(w)
      PROVE  Held'
  <2>1. writes = {}
    BY <1>3, <1>8 DEF Clear, OneBusy, WritesCurrent
  <2>2. files[batch_id] = receipts
    BY <1>3, <1>8 DEF Clear, FileFollows
  <2>3. OneBusy' /\ \A v \in Workers : worker'[v] = "idle"
    BY <1>3, <1>8, <1>types DEF Clear, OneBusy
  <2>4. batch_id' \in Batches /\ batch_id' > batch_id
    BY <1>8, <1>types, <1>order DEF Clear, Batches
  <2>5. FileFollows'
    BY <1>3, <1>8, <2>3, <2>4, <1>types, <1>order DEF Clear, FileFollows
  <2>6. Reported'
    <3>1. \A b \in Batches : b # batch_id => report'[b] = report[b]
      BY <1>8, <1>types DEF Clear
    <3>2. report'[batch_id] = Cardinality(files'[batch_id])
      BY <1>8, <2>2, <1>types DEF Clear, Compress
    <3>3. \A b \in Batches : b < batch_id => b < batch_id'
      BY <2>4, <1>types, <1>order
    <3> QED
      BY <1>3, <1>8, <2>4, <3>1, <3>2, <3>3 DEF Clear, Reported
  <2>7. ReceiptsKept'
    BY <1>3, <1>8, <2>2, <1>types DEF Clear, ReceiptsKept, OnDisk
  <2> QED
    BY <1>8, <2>1, <2>3, <2>5, <2>6, <2>7 DEF Clear, WritesCurrent
<1>9. ASSUME NEW x \in writes, PoolWrites(x) \/ \E truncated \in BOOLEAN : PoolFails(x, truncated)
      PROVE  Held'
  <2>1. /\ x.by \in Workers /\ worker[x.by] = "writing"
        /\ x.batch = batch_id /\ x.receipts = receipts
    BY <1>3 DEF WritesCurrent
  <2>2. writes' = {}
    <3>1. \A y \in writes : y.by = x.by
      BY <1>3, <2>1 DEF WritesCurrent, OneBusy
    <3>2. \A y \in writes : y = x
      BY <1>3, <2>1, <3>1, <1>types DEF WritesCurrent, Write
    <3> QED
      BY <1>9, <3>2 DEF PoolWrites, PoolFails
  <2>3. PICK stage \in {"idle", "written"} : worker' = [worker EXCEPT ![x.by] = stage]
    BY <1>9, <2>1 DEF PoolWrites, PoolFails, Notify
  <2>4. OneBusy'
    BY <1>3, <2>1, <2>3, <1>types DEF OneBusy
  <2>5. PICK f \in SUBSET receipts : files' = [files EXCEPT ![batch_id] = f]
    <3>1. files = [files EXCEPT ![batch_id] = files[batch_id]]
      BY <1>types
    <3>2. files[batch_id] \in SUBSET receipts
      BY <1>3 DEF FileFollows
    <3> QED
      BY <1>9, <2>1, <3>1, <3>2 DEF PoolWrites, PoolFails
  <2>6. /\ receipts' = receipts /\ batch_id' = batch_id
        /\ report' = report /\ earned' = earned
    BY <1>9 DEF PoolWrites, PoolFails, IdAfterFailure, KeptAfterFailure
  <2>7. \A w \in Workers : worker'[w] = "written" => files'[batch_id] = receipts
    <3>1. \A w \in Workers : w # x.by => worker'[w] = "idle"
      BY <1>3, <2>1, <2>3, <1>types DEF OneBusy
    <3>2. CASE PoolWrites(x)
      BY <3>2, <2>1, <1>types DEF PoolWrites
    <3>3. ASSUME NEW truncated \in BOOLEAN, PoolFails(x, truncated)
          PROVE  worker'[x.by] = "idle"
      BY <3>3, <2>1, <1>types DEF PoolFails, Notify
    <3> QED
      BY <1>9, <3>1, <3>2, <3>3
  <2>8. FileFollows'
    <3>1. files'[batch_id] \subseteq receipts
      BY <2>5, <1>types
    <3>2. \A b \in Batches : b > batch_id => files'[b] = {}
      BY <1>3, <2>5, <1>types, <1>order DEF FileFollows
    <3> QED
      BY <2>6, <2>7, <3>1, <3>2 DEF FileFollows
  <2>9. Reported'
    <3>1. \A b \in Batches : b < batch_id => files'[b] = files[b]
      BY <2>5, <1>types, <1>order
    <3> QED
      BY <1>3, <2>6, <3>1 DEF Reported
  <2>10. ReceiptsKept'
    <3>1. \A r : r \in OnDisk => r \in OnDisk' \/ r \in files[batch_id]
      BY <2>5, <1>types, OtherFilesStay
    <3> QED
      BY <1>3, <2>6, <3>1 DEF ReceiptsKept, FileFollows
  <2> QED
    BY <2>2, <2>4, <2>8, <2>9, <2>10 DEF WritesCurrent
<1>10. ASSUME NEW cut \in SUBSET writes, Crash(cut)
       PROVE  Held'
  <2>1. batch_id' \in Batches /\ batch_id' > batch_id
    BY <1>10, <1>types, <1>order DEF Crash, Batches
  <2>2. \A v \in Workers : worker'[v] = "idle"
    BY <1>10 DEF Crash
  <2>3. \A b \in Batches : b # batch_id => files'[b] = files[b]
    BY <1>3, <1>10, <1>types DEF Crash, WritesCurrent
  <2>4. FileFollows'
    <3>1. receipts' = {} /\ \A b \in Batches : b > batch_id => files'[b] = {}
      BY <1>3, <1>10, <2>3, <1>types, <1>order DEF Crash, FileFollows
    <3>2. \A b \in Batches : b >= batch_id' => b > batch_id
      BY <2>1, <1>types, <1>order
    <3>3. files'[batch_id'] = {} /\ \A b \in Batches : b > batch_id' => files'[b] = {}
      BY <2>1, <3>1, <3>2, <1>order
    <3> QED
      BY <2>2, <3>1, <3>3 DEF FileFollows
  <2>5. Reported'
    <3>1. \A b \in Batches : b < batch_id => b < batch_id' /\ b # batch_id
      BY <2>1, <1>types, <1>order
    <3>2. report' = report
      BY <1>10 DEF Crash
    <3> QED
      BY <1>3, <2>3, <3>1, <3>2 DEF Reported
  <2>6. ReceiptsKept'
    <3>1. \A r : r \in OnDisk => r \in OnDisk' \/ r \in files[batch_id]
      BY <2>3 DEF OnDisk
    <3>2. \A r : r \in OnDisk => r \in OnDisk' \/ r \in receipts
      BY <1>3, <3>1 DEF FileFollows
    <3>3. earned' = earned \ (receipts \ OnDisk') /\ receipts' = {}
      BY <1>10 DEF Crash
    <3> QED
      BY <1>3, <3>2, <3>3 DEF ReceiptsKept
  <2> QED
    BY <1>10, <2>2, <2>4, <2>5, <2>6 DEF Crash, OneBusy, WritesCurrent
<1>11. CASE UNCHANGED vars
  BY <1>3, <1>11
     DEF vars, OneBusy, WritesCurrent, FileFollows, Reported, ReceiptsKept, OnDisk
<1> QED
  BY <1>1, <1>4, <1>5, <1>6, <1>7, <1>8, <1>9, <1>10, <1>11 DEF Next

\* What the mutex protects holds until the first client goes away.
LEMMA HeldInvariant == Spec => []HeldInv
  BY TypeCorrect, HeldInit, HeldStep, PTL DEF Spec

\* persist_and_clear clears only what it has written: short of dropped handlers,
\* no receipt is lost, whatever writes fail, are truncated or repeated, and a
\* crash loses only what it finds in memory.
THEOREM NothingIsLost == Spec => []KeptUnlessCutShort
<1>1. HeldInv => KeptUnlessCutShort
  BY DEF HeldInv, Held, KeptUnlessCutShort
<1> QED
  BY <1>1, HeldInvariant, PTL

\* Short of dropped handlers, the summary compress made is that of the file,
\* also after later batches, failures and crashes.
THEOREM SummariesMatchFiles == Spec => []ReportMatchesFile
<1>1. HeldInv => ReportMatchesFile
  BY DEF HeldInv, Held, Reported, ReportMatchesFile
<1> QED
  BY <1>1, HeldInvariant, PTL
=============================================================================
