-------------------------- MODULE SnsProgramProofs --------------------------
(***************************************************************************)
(* Proofs about the on-chain program, for every set of owners, batch ids   *)
(* and mints, every width of the counters and every reward schedule.       *)
(*                                                                         *)
(* The rewards come first: the era loop, as the operator LoopReward and    *)
(* pass by pass (EraLoop), pays the sum the schedule promises.  Then the   *)
(* instructions, one step each.                                            *)
(***************************************************************************)
EXTENDS SnsProgram, EraLoop, SumTheorems, TLAPS

\* The right-hand side of the definition of Shifted.
ShiftStep(f, e) == IF e = 0 THEN InitialReward ELSE f[e - 1] \div 2

\* Shifting place by place is well defined: it is right up to n after n
\* replacements.
LEMMA ShiftExists == \E f \in [0..63 -> 0..InitialReward] : \A e \in 0..63 : f[e] = ShiftStep(f, e)
<1> DEFINE F == [0..63 -> 0..InitialReward]
<1> DEFINE T == {n \in Nat : \E f \in F : \A e \in 0..63 : e <= n => f[e] = ShiftStep(f, e)}
<1>1. 0 \in T
  <2> DEFINE f == [e \in 0..63 |-> InitialReward]
  <2>1. f \in F /\ \A e \in 0..63 : e <= 0 => f[e] = ShiftStep(f, e)
    BY RewardAssumption DEF ShiftStep
  <2> HIDE DEF f
  <2> QED
    BY <2>1
<1>2. ASSUME NEW n \in Nat, n \in T
      PROVE  n + 1 \in T
  <2>1. PICK f \in F : \A e \in 0..63 : e <= n => f[e] = ShiftStep(f, e)
    BY <1>2
  <2> DEFINE h == [e \in 0..63 |-> ShiftStep(f, e)]
  <2>2. ASSUME NEW e \in 0..63
        PROVE  ShiftStep(f, e) \in 0..InitialReward
    <3>1. CASE e = 0
      BY <3>1, RewardAssumption DEF ShiftStep
    <3>2. CASE e # 0
      <4>1. e - 1 \in 0..63
        BY <3>2
      <4>2. f[e - 1] \in 0..InitialReward
        BY <2>1, <4>1
      <4> QED
        BY <3>2, <4>2, RewardAssumption DEF ShiftStep
    <3> QED
      BY <3>1, <3>2
  <2>3. h \in F /\ \A e \in 0..63 : h[e] = ShiftStep(f, e)
    BY <2>2
  <2> HIDE DEF h
  <2>4. ASSUME NEW e \in 0..63, e <= n + 1
        PROVE  h[e] = ShiftStep(h, e)
    <3>1. CASE e = 0
      BY <2>3, <3>1 DEF ShiftStep
    <3>2. CASE e # 0
      <4>1. e - 1 \in 0..63 /\ e - 1 <= n
        BY <2>4, <3>2
      <4>2. h[e - 1] = f[e - 1]
        BY <2>1, <2>3, <4>1
      <4> QED
        BY <2>3, <3>2, <4>2 DEF ShiftStep
    <3> QED
      BY <3>1, <3>2
  <2> QED
    BY <2>3, <2>4
<1>3. 63 \in T
  <2> HIDE DEF T
  <2> QED
    BY <1>1, <1>2, SetInduction
<1> QED
  BY <1>3

\* No era pays more than the first.
LEMMA EraRewardBound == \A era \in Nat : EraReward(era) \in 0..InitialReward
<1> DEFINE Solves(f) ==
        f = [e \in 0..63 |-> IF e = 0 THEN InitialReward ELSE f[e - 1] \div 2]
<1>1. \E f : Solves(f)
  BY ShiftExists DEF ShiftStep
<1>2. Shifted = CHOOSE f : Solves(f)
  BY DEF Shifted
<1>3. Solves(Shifted)
  BY <1>1, <1>2
<1>4. \A e \in 0..63 : Shifted[e] = ShiftStep(Shifted, e)
  BY <1>3 DEF ShiftStep
<1> DEFINE T == {n \in Nat : n <= 63 => Shifted[n] \in 0..InitialReward}
<1>5. 0 \in T
  BY <1>4, RewardAssumption DEF ShiftStep
<1>6. ASSUME NEW n \in Nat, n \in T
      PROVE  n + 1 \in T
  <2> SUFFICES ASSUME n + 1 <= 63
               PROVE  Shifted[n + 1] \in 0..InitialReward
    OBVIOUS
  <2>1. Shifted[n] \in 0..InitialReward
    BY <1>6
  <2>2. Shifted[n + 1] = Shifted[n] \div 2
    <3>1. n + 1 \in 0..63 /\ n + 1 # 0 /\ (n + 1) - 1 = n
      OBVIOUS
    <3> QED
      BY <1>4, <3>1 DEF ShiftStep
  <2> QED
    BY <2>1, <2>2, RewardAssumption
<1>7. Nat \subseteq T
  <2> HIDE DEF T
  <2> QED
    BY <1>5, <1>6, SetInduction
<1> QED
  BY <1>7, RewardAssumption DEF EraReward

-----------------------------------------------------------------------------
\* An era holds its first receipt, and ends after HalvingInterval of them.
LEMMA EraBounds ==
    ASSUME NEW g \in Nat
    PROVE  /\ EraOf(g) \in Nat /\ NextHalving(g) \in Nat
           /\ EraOf(g) * HalvingInterval <= g /\ g < NextHalving(g)
           /\ \A h \in Nat : g <= h /\ h < NextHalving(g) => EraOf(h) = EraOf(g)
           /\ \A h \in Nat : g <= h => NextHalving(g) <= NextHalving(h)
<1> USE RewardAssumption
<1>1. EraOf(g) \in Nat /\ EraOf(g) * HalvingInterval <= g /\ g < NextHalving(g)
  BY DEF EraOf, NextHalving
<1>2. NextHalving(g) \in Nat
  BY <1>1 DEF NextHalving
<1>3. ASSUME NEW h \in Nat, g <= h, h < NextHalving(g)
      PROVE  EraOf(h) = EraOf(g)
  BY <1>1, <1>3 DEF EraOf, NextHalving
<1>4. ASSUME NEW h \in Nat, g <= h
      PROVE  NextHalving(g) <= NextHalving(h)
  <2>1. EraOf(g) <= EraOf(h) /\ EraOf(h) \in Nat
    BY <1>1, <1>4 DEF EraOf
  <2> QED
    BY <1>1, <2>1 DEF NextHalving
<1> QED
  BY <1>1, <1>2, <1>3, <1>4

\* A pass takes at least one receipt, at most what is left, and stays in the era.
LEMMA PassBounds ==
    ASSUME NEW g \in Nat, NEW r \in Nat \ {0}
    PROVE  ToProcess(g, r) \in 1..r /\ g + ToProcess(g, r) <= NextHalving(g)
  BY EraBounds DEF ToProcess

\* The schedule as one function of the receipt number.
Pay == [i \in Nat |-> EraReward(EraOf(i))]

\* A scheduled reward is a sum over an interval.
LEMMA ScheduleIsASum ==
    ASSUME NEW g \in Nat, NEW r \in Nat
    PROVE  /\ IsFiniteSet(g..(g + r - 1)) /\ g..(g + r - 1) \subseteq Nat
           /\ \A i \in Nat : Pay[i] = EraReward(EraOf(i)) /\ Pay[i] \in Nat
           /\ ScheduledReward(g, r) = SumFunctionOnSet(Pay, g..(g + r - 1))
<1> DEFINE S == g..(g + r - 1)
<1> DEFINE f == [i \in S |-> EraReward(EraOf(i))]
<1>1. IsFiniteSet(S) /\ S \subseteq Nat
  BY FS_Interval
<1>2. \A i \in Nat : Pay[i] = EraReward(EraOf(i)) /\ Pay[i] \in Nat
  BY EraBounds, EraRewardBound, RewardAssumption DEF Pay
<1>3. \A i \in S : Pay[i] \in Int /\ f[i] = Pay[i]
  BY <1>1, <1>2
<1>4. ScheduledReward(g, r) = SumFunctionOnSet(f, S)
  BY DEF ScheduledReward, SumFunction
<1> HIDE DEF f, S
<1>5. SumFunctionOnSet(f, S) = SumFunctionOnSet(Pay, S)
  BY <1>1, <1>3, SumCongruent
<1> QED
  BY <1>1, <1>2, <1>4, <1>5 DEF S

\* One more receipt is paid what its era pays.
LEMMA ScheduleGrows ==
    ASSUME NEW g \in Nat, NEW r \in Nat
    PROVE  /\ ScheduledReward(g, 0) = 0
           /\ ScheduledReward(g, r) \in Nat
           /\ ScheduledReward(g, r + 1) = ScheduledReward(g, r) + EraReward(EraOf(g + r))
<1>1. ScheduledReward(g, 0) = 0
  <2>1. g..(g + 0 - 1) = {}
    OBVIOUS
  <2>2. ScheduledReward(g, 0) = SumFunctionOnSet(Pay, g..(g + 0 - 1))
    BY ScheduleIsASum
  <2> QED
    BY <2>1, <2>2, SumEmpty
<1> DEFINE S == g..(g + r - 1)
<1>2. /\ IsFiniteSet(S) /\ S \subseteq Nat /\ ScheduledReward(g, r) = SumFunctionOnSet(Pay, S)
      /\ \A i \in Nat : Pay[i] = EraReward(EraOf(i)) /\ Pay[i] \in Nat
  BY ScheduleIsASum
<1>3. ScheduledReward(g, r + 1) = SumFunctionOnSet(Pay, S \cup {g + r})
  <2>1. r + 1 \in Nat
    OBVIOUS
  <2>2. g..(g + (r + 1) - 1) = S \cup {g + r}
    OBVIOUS
  <2>3. ScheduledReward(g, r + 1) = SumFunctionOnSet(Pay, g..(g + (r + 1) - 1))
    BY <2>1, ScheduleIsASum
  <2> QED
    BY <2>2, <2>3
<1>4. g + r \notin S /\ g + r \in Nat
  OBVIOUS
<1> HIDE DEF S
<1>5. SumFunctionOnSet(Pay, S \cup {g + r}) = SumFunctionOnSet(Pay, S) + Pay[g + r]
  <2>1. \A i \in S \cup {g + r} : Pay[i] \in Int
    BY <1>2, <1>4
  <2> QED
    BY <1>2, <1>4, <2>1, SumAdd
<1>6. SumFunctionOnSet(Pay, S) \in Nat
  <2>1. \A i \in S : Pay[i] \in Nat
    BY <1>2
  <2> QED
    BY <1>2, <2>1, SumSubset
<1> QED
  BY <1>1, <1>2, <1>3, <1>4, <1>5, <1>6

\* Receipts can be paid in two parts, and no receipt is paid more than
\* InitialReward.
LEMMA ScheduleSplits ==
    ASSUME NEW g \in Nat, NEW r \in Nat, NEW n \in Nat
    PROVE  /\ ScheduledReward(g, r + n) = ScheduledReward(g, r) + ScheduledReward(g + r, n)
           /\ ScheduledReward(g + r, n) <= InitialReward * n
<1> DEFINE T == {m \in Nat :
        /\ ScheduledReward(g, r + m) = ScheduledReward(g, r) + ScheduledReward(g + r, m)
        /\ ScheduledReward(g + r, m) <= InitialReward * m}
<1>1. 0 \in T
  <2>1. g + r \in Nat /\ r + 0 = r /\ InitialReward * 0 = 0
    BY RewardAssumption
  <2>2. ScheduledReward(g + r, 0) = 0 /\ ScheduledReward(g, r) \in Nat
    BY <2>1, ScheduleGrows
  <2> QED
    BY <2>1, <2>2
<1>2. ASSUME NEW m \in Nat, m \in T
      PROVE  m + 1 \in T
  <2>1. /\ r + m \in Nat /\ r + (m + 1) = (r + m) + 1
        /\ g + r \in Nat /\ g + (r + m) \in Nat /\ (g + r) + m = g + (r + m)
    OBVIOUS
  <2> DEFINE w == EraReward(EraOf(g + (r + m)))
  <2>2. w \in 0..InitialReward
    BY <2>1, EraBounds, EraRewardBound
  <2>3. ScheduledReward(g, r + (m + 1)) = ScheduledReward(g, r + m) + w
    BY <2>1, ScheduleGrows
  <2>4. ScheduledReward(g + r, m + 1) = ScheduledReward(g + r, m) + w
    BY <2>1, ScheduleGrows
  <2>5. ScheduledReward(g, r) \in Nat /\ ScheduledReward(g + r, m) \in Nat
    BY <2>1, ScheduleGrows
  <2> HIDE DEF w
  <2>6. InitialReward * (m + 1) = InitialReward * m + InitialReward
    BY RewardAssumption
  <2> QED
    BY <1>2, <2>2, <2>3, <2>4, <2>5, <2>6, RewardAssumption
<1>3. n \in T
  <2> HIDE DEF T
  <2> QED
    BY <1>1, <1>2, SetInduction
<1> QED
  BY <1>3

\* Receipts of one era are paid the same: the loop's shortcut.
LEMMA EraPaysEqually ==
    ASSUME NEW g \in Nat, NEW n \in Nat, g + n <= NextHalving(g)
    PROVE  ScheduledReward(g, n) = n * EraReward(EraOf(g))
<1> DEFINE w == EraReward(EraOf(g))
<1> DEFINE T == {m \in Nat : g + m <= NextHalving(g) => ScheduledReward(g, m) = m * w}
<1>1. w \in Nat
  BY EraBounds, EraRewardBound, RewardAssumption
<1>2. 0 \in T
  BY <1>1, ScheduleGrows
<1>3. ASSUME NEW m \in Nat, m \in T
      PROVE  m + 1 \in T
  <2> SUFFICES ASSUME g + (m + 1) <= NextHalving(g)
               PROVE  ScheduledReward(g, m + 1) = (m + 1) * w
    OBVIOUS
  <2>1. NextHalving(g) \in Nat
    BY EraBounds
  <2>2. EraOf(g + m) = EraOf(g)
    BY <2>1, EraBounds
  <2>3. ScheduledReward(g, m + 1) = ScheduledReward(g, m) + w
    BY <2>2, ScheduleGrows
  <2>4. ScheduledReward(g, m) = m * w
    BY <1>3, <2>1
  <2> HIDE DEF w
  <2> QED
    BY <1>1, <2>3, <2>4
<1>4. n \in T
  <2> HIDE DEF T
  <2> QED
    BY <1>2, <1>3, SetInduction
<1> QED
  BY <1>4

\* One pass pays what the schedule promises, and leaves the rest.
LEMMA PassPays ==
    ASSUME NEW g \in Nat, NEW r \in Nat \ {0}
    PROVE  LET n == ToProcess(g, r)
           IN  ScheduledReward(g, r) = n * EraReward(EraOf(g)) + ScheduledReward(g + n, r - n)
<1> DEFINE n == ToProcess(g, r)
<1>1. n \in 1..r /\ g + n <= NextHalving(g)
  BY PassBounds
<1> HIDE DEF n
<1>2. ScheduledReward(g, n + (r - n)) = ScheduledReward(g, n) + ScheduledReward(g + n, r - n)
  <2>1. n \in Nat /\ r - n \in Nat
    BY <1>1
  <2> QED
    BY <2>1, ScheduleSplits
<1>3. ScheduledReward(g, n) = n * EraReward(EraOf(g))
  BY <1>1, EraPaysEqually
<1>4. n + (r - n) = r
  BY <1>1
<1> QED
  BY <1>2, <1>3, <1>4 DEF n

\* The era loop of settle_compressed_batch, with its shortcut over whole eras,
\* computes what the halving schedule promises receipt by receipt.
THEOREM LoopPaysSchedule ==
    \A g, count \in Nat : LoopReward(g, count) = ScheduledReward(g, count)
<1> SUFFICES ASSUME NEW g \in Nat, NEW count \in Nat
             PROVE  LoopReward(g, count) = ScheduledReward(g, count)
  OBVIOUS
<1> DEFINE Cur(r) == g + count - r
<1> DEFINE Rest(f, r) ==
        IF r = 0 THEN 0 ELSE ToProcess(Cur(r), r) * EraReward(EraOf(Cur(r)))
                             + f[r - ToProcess(Cur(r), r)]
<1> DEFINE Solves(f) == f = [r \in 0..count |-> Rest(f, r)]
<1> DEFINE Promised == [r \in 0..count |-> ScheduledReward(Cur(r), r)]
<1>1. ASSUME NEW r \in 0..count, r # 0
      PROVE  /\ Cur(r) \in Nat /\ ToProcess(Cur(r), r) \in 1..r
             /\ r - ToProcess(Cur(r), r) \in 0..count
             /\ Cur(r - ToProcess(Cur(r), r)) = Cur(r) + ToProcess(Cur(r), r)
  <2>1. Cur(r) \in Nat /\ r \in Nat \ {0}
    BY <1>1
  <2>2. ToProcess(Cur(r), r) \in 1..r
    BY <2>1, PassBounds
  <2> QED
    BY <2>1, <2>2
<1>2. \A r \in 0..count : Promised[r] = Rest(Promised, r)
  <2> SUFFICES ASSUME NEW r \in 0..count
               PROVE  Promised[r] = Rest(Promised, r)
    OBVIOUS
  <2>1. CASE r = 0
    <3>1. Cur(0) \in Nat
      OBVIOUS
    <3>2. ScheduledReward(Cur(0), 0) = 0
      BY <3>1, ScheduleGrows
    <3> QED
      BY <2>1, <3>2
  <2>2. CASE r # 0
    <3> DEFINE n == ToProcess(Cur(r), r)
    <3>1. /\ Cur(r) \in Nat /\ r \in Nat \ {0} /\ r - n \in 0..count
          /\ Cur(r - n) = Cur(r) + n
      BY <1>1, <2>2
    <3>2. ScheduledReward(Cur(r), r)
            = n * EraReward(EraOf(Cur(r))) + ScheduledReward(Cur(r) + n, r - n)
      <4> HIDE DEF Cur
      <4> QED
        BY <3>1, PassPays
    <3>3. Promised[r - n] = ScheduledReward(Cur(r - n), r - n)
      BY <3>1
    <3> HIDE DEF n, Cur
    <3> QED
      BY <2>2, <3>1, <3>2, <3>3 DEF n
  <2> QED
    BY <2>1, <2>2
<1> HIDE DEF Rest, Promised
<1>3. DOMAIN Promised = 0..count /\ Promised = [r \in 0..count |-> Promised[r]]
  BY DEF Promised
<1>4. Solves(Promised)
  BY <1>2, <1>3
<1>5. PICK h : Solves(h) /\ LoopReward(g, count) = h[count]
  <2>1. LoopReward(g, count) = (CHOOSE h : Solves(h))[count]
    BY DEF LoopReward, Rest
  <2> QED
    BY <1>4, <2>1
<1>6. \A r \in 0..count : h[r] = Rest(h, r)
  BY <1>5
<1> DEFINE T == {m \in Nat : \A r \in 0..count : r <= m => h[r] = Promised[r]}
<1>7. 0 \in T
  BY <1>2, <1>6 DEF Rest
<1>8. ASSUME NEW m \in Nat, m \in T
      PROVE  m + 1 \in T
  <2> SUFFICES ASSUME NEW r \in 0..count, r <= m + 1, r # 0
               PROVE  h[r] = Promised[r]
    BY <1>7
  <2> DEFINE n == ToProcess(Cur(r), r)
  <2>1. r - n \in 0..count /\ r - n <= m
    BY <1>1
  <2>2. h[r - n] = Promised[r - n]
    BY <1>8, <2>1
  <2> QED
    BY <1>2, <1>6, <2>2 DEF Rest
<1>9. count \in T
  <2> HIDE DEF T
  <2> QED
    BY <1>7, <1>8, SetInduction
<1>10. h[count] = Promised[count]
  BY <1>9
<1>11. Promised[count] = ScheduledReward(g, count)
  BY DEF Promised
<1> QED
  BY <1>5, <1>10, <1>11
-----------------------------------------------------------------------------
\* What LoopReward and RewardFits say of the loop once it has ended.
Summarised ==
    /\ failed => ~RewardFits(start, receipt_count)
    /\ (~failed /\ remaining = 0) =>
            /\ RewardFits(start, receipt_count)
            /\ total_reward = LoopReward(start, receipt_count)

\* Besides what it has paid, a loop that has not failed remembers that the last
\* era it entered ends within a u64.
LoopInv ==
    /\ LoopTypeOK
    /\ remaining <= receipt_count
    /\ PaysSchedule
    /\ remaining < receipt_count => NextHalving(current_global - 1) <= Word
    /\ failed => ~RewardFits(start, receipt_count)

\* One pass: paid in full, or the whole batch does not fit.
LEMMA LoopStep == LoopInv /\ [LoopNext]_loopVars => LoopInv'
<1> SUFFICES ASSUME LoopInv, [LoopNext]_loopVars
             PROVE  LoopInv'
  OBVIOUS
<1>1. CASE UNCHANGED loopVars
  BY <1>1 DEF loopVars, LoopInv, LoopTypeOK, PaysSchedule
<1>2. CASE Pass
  <2> DEFINE n == ToProcess(current_global, remaining)
  <2> DEFINE w == EraReward(EraOf(current_global))
  <2> DEFINE done == receipt_count - remaining
  <2>1. /\ start \in 0..Word /\ receipt_count \in 0..Word /\ current_global \in 0..Word
        /\ remaining \in 0..Word /\ total_reward \in 0..Word /\ failed \in BOOLEAN
        /\ remaining <= receipt_count
        /\ current_global + remaining = start + receipt_count
        /\ total_reward = ScheduledReward(start, done)
        /\ Word \in Nat
    BY RewardAssumption DEF LoopInv, LoopTypeOK, PaysSchedule
  <2>2. ~failed /\ remaining > 0 /\ UNCHANGED <<start, receipt_count>>
    BY <1>2 DEF Pass
  <2>3. /\ start \in Nat /\ done \in Nat /\ current_global \in Nat /\ current_global = start + done
        /\ remaining \in Nat \ {0}
    BY <2>1, <2>2
  <2>4. n \in 1..remaining /\ current_global + n <= NextHalving(current_global)
    BY <2>3, PassBounds
  <2>5. n \in Nat /\ remaining - n \in Nat /\ done + n \in Nat /\ current_global + n \in Nat
    BY <2>3, <2>4
  <2>6. w \in Nat /\ NextHalving(current_global) \in Nat
    BY <2>3, EraBounds, EraRewardBound, RewardAssumption
  <2>7. ScheduledReward(start, done + n) = total_reward + n * w
    <3>1. ScheduledReward(start, done + n) = ScheduledReward(start, done) + ScheduledReward(start + done, n)
      BY <2>3, <2>5, ScheduleSplits
    <3>2. ScheduledReward(current_global, n) = n * w
      BY <2>3, <2>4, <2>5, EraPaysEqually
    <3> QED
      BY <2>1, <2>3, <3>1, <3>2
  <2> HIDE DEF n, w
  <2>8. CASE PassFits(n, w)
    <3>1. /\ total_reward' = total_reward + n * w /\ current_global' = current_global + n
          /\ remaining' = remaining - n /\ UNCHANGED failed
      BY <1>2, <2>8 DEF Pass, PassSize, n, w
    <3>2. /\ NextHalving(current_global) <= Word /\ total_reward + n * w <= Word
          /\ current_global + n <= Word
      BY <2>8 DEF PassFits
    <3>3. n * w \in Nat
      BY <2>5, <2>6
    <3>4. LoopTypeOK' /\ remaining' <= receipt_count'
      BY <2>1, <2>2, <2>4, <2>5, <3>1, <3>2, <3>3 DEF LoopTypeOK
    <3>5. PaysSchedule'
      <4>1. receipt_count - (remaining - n) = done + n
        BY <2>1, <2>5
      <4>2. current_global + n + (remaining - n) = start + receipt_count
        BY <2>1, <2>5
      <4> HIDE DEF done
      <4> QED
        BY <2>2, <2>7, <3>1, <4>1, <4>2 DEF PaysSchedule
    <3>6. NextHalving(current_global' - 1) <= Word
      <4> DEFINE last == current_global + n - 1
      <4>1. last \in Nat /\ current_global <= last /\ last < NextHalving(current_global)
        BY <2>3, <2>4, <2>6
      <4>2. EraOf(last) = EraOf(current_global)
        BY <2>3, <4>1, EraBounds
      <4>3. current_global' - 1 = last
        BY <2>3, <2>5, <3>1
      <4>4. NextHalving(last) = NextHalving(current_global)
        BY <4>2 DEF NextHalving
      <4> HIDE DEF last
      <4> QED
        BY <3>2, <4>3, <4>4
    <3> QED
      BY <2>2, <3>1, <3>4, <3>5, <3>6 DEF LoopInv
  <2>9. CASE ~PassFits(n, w)
    <3>1. failed' = TRUE /\ UNCHANGED <<current_global, remaining, total_reward>>
      BY <1>2, <2>9 DEF Pass, PassSize, n, w
    <3>2. ~RewardFits(start, receipt_count)
      <4>1. CASE NextHalving(current_global) > Word
        <5> DEFINE end == start + receipt_count - 1
        <5>1. end \in Nat /\ current_global <= end /\ receipt_count # 0
          BY <2>1, <2>2
        <5>2. NextHalving(current_global) <= NextHalving(end) /\ NextHalving(end) \in Nat
          BY <2>3, <5>1, EraBounds
        <5> QED
          BY <2>1, <2>6, <4>1, <5>1, <5>2 DEF RewardFits, LoopTop
      <4>2. CASE NextHalving(current_global) <= Word
        <5>1. total_reward + n * w > Word
          <6>1. n * w \in Nat
            BY <2>5, <2>6
          <6> QED
            BY <2>1, <2>4, <2>5, <2>6, <2>9, <4>2, <6>1 DEF PassFits
        <5>2. /\ ScheduledReward(start, (done + n) + (remaining - n))
                    = ScheduledReward(start, done + n) + ScheduledReward(start + (done + n), remaining - n)
              /\ (done + n) + (remaining - n) = receipt_count
          BY <2>1, <2>3, <2>5, ScheduleSplits
        <5>3. ScheduledReward(start + (done + n), remaining - n) \in Nat
          <6>1. start + (done + n) \in Nat
            BY <2>3, <2>5
          <6> QED
            BY <2>5, <6>1, ScheduleGrows
        <5>4. LoopReward(start, receipt_count) = ScheduledReward(start, receipt_count)
          <6>1. receipt_count \in Nat
            BY <2>1
          <6> QED
            BY <2>3, <6>1, LoopPaysSchedule
        <5>5. n * w \in Nat
          BY <2>5, <2>6
        <5> HIDE DEF done
        <5>6. LoopReward(start, receipt_count) > Word
          BY <2>1, <2>7, <5>1, <5>2, <5>3, <5>4, <5>5
        <5> QED
          BY <2>1, <5>6 DEF RewardFits
      <4> QED
        BY <2>1, <2>6, <4>1, <4>2
    <3> QED
      BY <2>2, <3>1, <3>2 DEF LoopInv, LoopTypeOK, PaysSchedule
  <2> QED
    BY <2>8, <2>9
<1> QED
  BY <1>1, <1>2 DEF LoopNext

\* The loop starts with nothing paid.
LEMMA LoopInvariant == LoopSpec => []LoopInv
<1>1. LoopInit => LoopInv
  <2> SUFFICES ASSUME LoopInit
               PROVE  LoopInv
    OBVIOUS
  <2>1. start \in Nat /\ receipt_count \in Nat /\ receipt_count - receipt_count = 0
    BY RewardAssumption DEF LoopInit
  <2>2. ScheduledReward(start, receipt_count - receipt_count) = 0
    BY <2>1, ScheduleGrows
  <2>3. PaysSchedule
    BY <2>1, <2>2 DEF LoopInit, PaysSchedule
  <2>4. remaining = receipt_count /\ failed = FALSE
    BY DEF LoopInit
  <2>5. LoopTypeOK
    <3>1. 0 \in 0..Word
      BY RewardAssumption
    <3> QED
      BY <2>4, <3>1 DEF LoopInit, LoopTypeOK
  <2> QED
    BY <2>1, <2>3, <2>4, <2>5 DEF LoopInv
<1> QED
  BY <1>1, LoopStep, PTL DEF LoopSpec

\* Every pass of the era loop pays its receipts what the halving schedule
\* promises, for any interval, initial reward and word size.
THEOREM PassesPaySchedule == LoopSpec => []PaysSchedule
<1>1. LoopInv => PaysSchedule
  BY DEF LoopInv
<1> QED
  BY <1>1, LoopInvariant, PTL

\* The loop's variables stay within a u64: a product or sum that would not fit
\* ends it before it is stored.
THEOREM LoopTypes == LoopSpec => []LoopTypeOK
<1>1. LoopInv => LoopTypeOK
  BY DEF LoopInv
<1> QED
  BY <1>1, LoopInvariant, PTL

\* A loop that was aborted has a reward or an era end that is no u64, one that
\* ran to its end has computed LoopReward: the operators SnsProgram settles with
\* stand for the loop.
THEOREM LoopIsSummarised == LoopSpec => []Summarised
<1>1. LoopInv => Summarised
  <2> SUFFICES ASSUME LoopInv, ~failed, remaining = 0
               PROVE  /\ RewardFits(start, receipt_count)
                      /\ total_reward = LoopReward(start, receipt_count)
    BY DEF LoopInv, Summarised
  <2>1. /\ start \in 0..Word /\ receipt_count \in 0..Word /\ total_reward \in 0..Word
        /\ current_global = start + receipt_count /\ Word \in Nat
    BY RewardAssumption DEF LoopInv, LoopTypeOK, PaysSchedule
  <2>2. start \in Nat /\ receipt_count \in Nat /\ receipt_count - 0 = receipt_count
    BY <2>1
  <2>3. total_reward = ScheduledReward(start, receipt_count)
    BY <2>2 DEF LoopInv, PaysSchedule
  <2>4. LoopReward(start, receipt_count) = ScheduledReward(start, receipt_count)
    BY <2>2, LoopPaysSchedule
  <2>5. LoopTop(start, receipt_count) <= Word
    BY <2>1, <2>2 DEF LoopInv, LoopTop
  <2> QED
    BY <2>1, <2>3, <2>4, <2>5 DEF RewardFits
<1> QED
  BY <1>1, LoopInvariant, PTL

-----------------------------------------------------------------------------
\* The reward of a batch that does not overflow is a u64.
LEMMA RewardType ==
    ASSUME NEW count, RewardFits(state.global_request_count, count)
    PROVE  BatchReward(count) \in Nat
  <1>1. BatchReward(count) \in 0..Word
    BY DEF RewardFits, BatchReward
  <1>2. QED BY <1>1, RewardAssumption

\* The record a settlement writes, and none of the others, differs from None.
LEMMA NoneIsNoRecord == None \notin BatchRecord /\ None \notin ProgramState
  BY DEF None, BatchRecord, ProgramState

\* Slashing saturates instead of wrapping around.
LEMMA SlashedType == \A r \in 0..255 : SlashedReputation(r) \in 0..255
  BY DEF SlashedReputation, SlashPenalty

\* Writing a counter of a NodeAccount leaves a NodeAccount.
LEMMA CounterUpdate ==
    ASSUME NEW n \in NodeAccount, NEW u \in U64
    PROVE  /\ [n EXCEPT !.requests_served = u] \in NodeAccount
           /\ [n EXCEPT !.stake_amount = u] \in NodeAccount
  <1>1. [n EXCEPT !.requests_served = u] \in NodeAccount
    BY DEF NodeAccount
  <1>2. [n EXCEPT !.stake_amount = u] \in NodeAccount
    BY DEF NodeAccount
  <1>3. QED BY <1>1, <1>2

\* So do the writes of slash_node.
LEMMA SlashUpdate ==
    ASSUME NEW n \in NodeAccount, NEW r \in 0..255, NEW u \in U64
    PROVE  /\ [n EXCEPT !.reputation = r, !.locked = FALSE] \in NodeAccount
           /\ [n EXCEPT !.reputation = r, !.is_initialized = FALSE,
                        !.stake_amount = u, !.locked = FALSE] \in NodeAccount
  <1>1. [n EXCEPT !.reputation = r, !.locked = FALSE] \in NodeAccount
    BY DEF NodeAccount
  <1>2. [n EXCEPT !.reputation = r, !.is_initialized = FALSE,
                  !.stake_amount = u, !.locked = FALSE] \in NodeAccount
    BY DEF NodeAccount
  <1>3. QED BY <1>1, <1>2

\* No account exists at the start.
LEMMA TypeInit == Init => TypeOK
  BY ProgramAssumption, RewardAssumption
     DEF Init, TypeOK, Unregistered, NodeAccount, U64

\* One step per instruction.
LEMMA TypeNext == TypeOK /\ [Next]_vars => TypeOK'
  <1> SUFFICES ASSUME TypeOK, [Next]_vars PROVE TypeOK'
    OBVIOUS
  <1> USE ProgramAssumption, RewardAssumption
  <1>1. ASSUME NEW bump \in Bumps, InitializeProtocol(bump) PROVE TypeOK'
    BY <1>1 DEF InitializeProtocol, TypeOK, ProgramState, U64, history
  <1>2. ASSUME NEW o \in Owners, NEW stake \in StakeArgs, RegisterNode(o, stake)
        PROVE TypeOK'
    <2>1. node' \in [Owners -> NodeAccount]
      <3>1. /\ node' = [node EXCEPT ![o].stake_amount = stake, ![o].reputation = InitialReputation,
                                    ![o].requests_served = 0, ![o].is_initialized = TRUE,
                                    ![o].locked = FALSE]
            /\ node \in [Owners -> NodeAccount] /\ stake \in U64
        BY <1>2 DEF RegisterNode, TypeOK
      <3>2. /\ node[o] \in NodeAccount /\ InitialReputation \in 0..255 /\ 0 \in U64
        BY <3>1 DEF U64, InitialReputation
      <3>3. [node[o] EXCEPT !.stake_amount = stake, !.reputation = InitialReputation,
                            !.requests_served = 0, !.is_initialized = TRUE,
                            !.locked = FALSE] \in NodeAccount
        BY <3>1, <3>2 DEF NodeAccount
      <3> QED
        BY <3>1, <3>3
    <2>2. wallet' \in [Owners -> Nat] /\ escrow' \in [Owners -> Nat] /\ pledged' \in [Owners -> Int]
      BY <1>2 DEF RegisterNode, TypeOK, U64
    <2>3. QED BY <1>2, <2>1, <2>2 DEF RegisterNode, TypeOK
  <1>3. ASSUME NEW o \in Owners, NEW b \in BatchIds, NEW total \in LamportArgs,
               NEW count \in CountArgs, SettleCompressedBatch(o, b, total, count)
        PROVE TypeOK'
    <2>1. node' \in [Owners -> NodeAccount]
      <3>1. node[o].requests_served + count \in U64
        BY <1>3 DEF SettleCompressedBatch, TypeOK, NodeAccount, U64, Fits
      <3>2. node[o] \in NodeAccount
        BY DEF TypeOK
      <3>3. [node[o] EXCEPT !.requests_served = node[o].requests_served + count]
                \in NodeAccount
        BY <3>1, <3>2, CounterUpdate
      <3>4. QED BY <1>3, <3>3 DEF SettleCompressedBatch, TypeOK
    <2>2. wallet' \in [Owners -> Nat] /\ escrow' \in [Owners -> Nat]
      BY <1>3 DEF SettleCompressedBatch, TypeOK, U64
    <2>3. BatchReward(count) \in Nat
      BY <1>3, RewardType DEF SettleCompressedBatch
    <2>4. tokens' \in [Mints -> [Owners -> Nat]]
      BY <1>3, <2>3 DEF SettleCompressedBatch, TypeOK
    <2>5. batch' \in [BatchIds -> BatchRecord \cup {None}]
      BY <1>3 DEF SettleCompressedBatch, TypeOK, BatchRecord, U64
    <2>6. state' = state
      BY <1>3 DEF SettleCompressedBatch, StateAfterSettle
    <2>7. QED
      BY <1>3, <2>1, <2>2, <2>4, <2>5, <2>6 DEF SettleCompressedBatch, TypeOK, history
  <1>4. ASSUME NEW o \in Owners, NEW m \in Mints, NEW amount \in TokenArgs,
               StakeForPriority(o, m, amount)
        PROVE TypeOK'
    <2>1. node' \in [Owners -> NodeAccount]
      <3>1. node[o].stake_amount + amount \in U64
        BY <1>4 DEF StakeForPriority, TypeOK, NodeAccount, U64, Fits
      <3>2. node[o] \in NodeAccount
        BY DEF TypeOK
      <3>3. [node[o] EXCEPT !.stake_amount = node[o].stake_amount + amount]
                \in NodeAccount
        BY <3>1, <3>2, CounterUpdate
      <3>4. QED BY <1>4, <3>3 DEF StakeForPriority, TypeOK
    <2>2. tokens' \in [Mints -> [Owners -> Nat]]
      BY <1>4 DEF StakeForPriority, TypeOK, U64
    <2>3. vault' \in [Mints -> [Owners -> Nat]]
      BY <1>4 DEF StakeForPriority, TypeOK, U64
    <2>4. QED BY <1>4, <2>1, <2>2, <2>3 DEF StakeForPriority, TypeOK, history
  <1>5. ASSUME NEW o \in Owners, NEW authority, SlashNode(authority, o) PROVE TypeOK'
    <2>1. SlashedReputation(node[o].reputation) \in 0..255
      BY SlashedType DEF TypeOK, NodeAccount
    <2>2. node' \in [Owners -> NodeAccount]
      BY <1>5, <2>1, SlashUpdate DEF SlashNode, TypeOK, U64
    <2>3. QED BY <1>5, <2>2 DEF SlashNode, TypeOK, history
  <1>6. ASSUME NEW o \in Owners, NEW authority, SlashAndEject(authority, o)
        PROVE TypeOK'
    <2>1. /\ ReturnAmount(o) \in Nat
      BY DEF ReturnAmount, TypeOK, NodeAccount, U64
    <2>2. node' \in [Owners -> NodeAccount]
      <3>1. SlashedReputation(node[o].reputation) \in 0..255
        BY SlashedType DEF TypeOK, NodeAccount
      <3>2. 0 \in U64
        BY DEF U64
      <3>3. QED BY <1>6, <3>1, <3>2, SlashUpdate DEF SlashAndEject, TypeOK
    <2>3. /\ wallet' \in [Owners -> Nat]
          /\ escrow' \in [Owners -> Nat] /\ pledged' \in [Owners -> Int]
      BY <1>6, <2>1 DEF SlashAndEject, TypeOK
    <2>4. QED BY <1>6, <2>2, <2>3 DEF SlashAndEject, TypeOK
  <1>7. ASSUME NEW o \in Owners, NEW amount \in LamportArgs, FundEscrow(o, amount)
        PROVE TypeOK'
    BY <1>7 DEF FundEscrow, TypeOK, U64
  <1>8. CASE UNCHANGED vars
    BY <1>8 DEF vars, history, TypeOK
  <1>9. QED
    BY <1>1, <1>2, <1>3, <1>4, <1>5, <1>6, <1>7, <1>8 DEF Next

\* Every account keeps its type: in particular no u64 or u8 of the program
\* overflows and no balance goes below zero.
THEOREM TypeCorrect == Spec => []TypeOK
  BY TypeInit, TypeNext, PTL DEF Spec

-----------------------------------------------------------------------------
\* ActiveIffReputable is not inductive: a slash of a node with a reputation
\* between 1 and 39 that is not 20 would eject it with reputation left.  The
\* penalty divides the initial reputation, so those values never occur.
ReputationLevels == {0, 20, 40, 60, 80, 100}

ReputationInv ==
    \A o \in Owners :
        /\ node[o].reputation \in ReputationLevels
        /\ node[o].is_initialized <=> node[o].reputation > 0

\* What one instruction does to the two fields of one node.
NodeStep(o) ==
    \/ /\ node'[o].reputation = node[o].reputation
       /\ node'[o].is_initialized <=> node[o].is_initialized
    \/ /\ node'[o].reputation = InitialReputation
       /\ node'[o].is_initialized
    \/ /\ node'[o].reputation = SlashedReputation(node[o].reputation)
       /\ SlashedReputation(node[o].reputation) >= EjectBelow
       /\ node[o].is_initialized /\ node'[o].is_initialized
    \/ /\ node'[o].reputation = SlashedReputation(node[o].reputation)
       /\ SlashedReputation(node[o].reputation) < EjectBelow
       /\ node[o].is_initialized /\ ~node'[o].is_initialized

\* Every instruction does one of these to a node.
LEMMA NodeSteps ==
    ASSUME TypeOK, [Next]_vars, NEW p \in Owners
    PROVE  NodeStep(p)
  <1> USE DEF NodeStep
  <1>0. node \in [Owners -> NodeAccount] /\ node[p].is_initialized \in BOOLEAN
    BY DEF TypeOK, NodeAccount
  <1>1. ASSUME NEW bump \in Bumps, InitializeProtocol(bump) PROVE NodeStep(p)
    BY <1>1 DEF InitializeProtocol
  <1>2. ASSUME NEW o \in Owners, NEW stake \in StakeArgs, RegisterNode(o, stake)
        PROVE NodeStep(p)
    BY <1>0, <1>2 DEF RegisterNode, NodeAccount
  <1>3. ASSUME NEW o \in Owners, NEW b \in BatchIds, NEW total \in LamportArgs,
               NEW count \in CountArgs, SettleCompressedBatch(o, b, total, count)
        PROVE NodeStep(p)
    BY <1>0, <1>3 DEF SettleCompressedBatch, NodeAccount
  <1>4. ASSUME NEW o \in Owners, NEW m \in Mints, NEW amount \in TokenArgs,
               StakeForPriority(o, m, amount)
        PROVE NodeStep(p)
    BY <1>0, <1>4 DEF StakeForPriority, NodeAccount
  <1>5. ASSUME NEW o \in Owners, NEW authority, SlashNode(authority, o)
        PROVE NodeStep(p)
    BY <1>0, <1>5 DEF SlashNode, NodeAccount
  <1>6. ASSUME NEW o \in Owners, NEW authority, SlashAndEject(authority, o)
        PROVE NodeStep(p)
    <2>1. CASE p = o
      BY <1>0, <1>6, <2>1 DEF SlashAndEject, NodeAccount
    <2>2. CASE p # o
      BY <1>0, <1>6, <2>2 DEF SlashAndEject
    <2>3. QED BY <2>1, <2>2
  <1>7. ASSUME NEW o \in Owners, NEW amount \in LamportArgs, FundEscrow(o, amount)
        PROVE NodeStep(p)
    BY <1>7 DEF FundEscrow
  <1>8. CASE UNCHANGED vars
    BY <1>8 DEF vars
  <1>9. QED
    BY <1>1, <1>2, <1>3, <1>4, <1>5, <1>6, <1>7, <1>8 DEF Next

\* Registering sets 100, and slashing takes 20 or ejects at 0.
LEMMA ReputationNext == TypeOK /\ ReputationInv /\ [Next]_vars => ReputationInv'
  <1> SUFFICES ASSUME TypeOK, ReputationInv, [Next]_vars, NEW o \in Owners
               PROVE  /\ node'[o].reputation \in ReputationLevels
                      /\ node'[o].is_initialized <=> node'[o].reputation > 0
    BY DEF ReputationInv
  <1>1. NodeStep(o)
    BY NodeSteps
  <1>2. /\ node[o].reputation \in ReputationLevels
        /\ node[o].is_initialized <=> node[o].reputation > 0
    BY DEF ReputationInv
  <1>3. node[o].is_initialized => node[o].reputation \in {20, 40, 60, 80, 100}
    BY <1>2 DEF ReputationLevels
  <1>4. node[o].is_initialized =>
            SlashedReputation(node[o].reputation) \in {0, 20, 40, 60, 80}
    BY <1>3 DEF SlashedReputation, SlashPenalty
  <1>5. QED
    BY <1>1, <1>2, <1>4 DEF NodeStep, ReputationLevels, InitialReputation, EjectBelow

\* Holding reputation and being initialized are the same thing, so the check
\* settle_compressed_batch makes keeps ejected nodes out.
THEOREM EjectedHasNoReputation == Spec => []ActiveIffReputable
  <1>1. Init => ReputationInv
    BY DEF Init, ReputationInv, Unregistered, ReputationLevels
  <1>2. ReputationInv => ActiveIffReputable
    BY DEF ReputationInv, ActiveIffReputable
  <1>3. QED
    BY <1>1, <1>2, TypeCorrect, ReputationNext, PTL DEF Spec

-----------------------------------------------------------------------------
\* The step predicate of EscrowOutflow for one owner.
OutflowStep(o) ==
    escrow'[o] < escrow[o] =>
        /\ node[o].is_initialized
        /\ \/ \E b \in BatchIds :
                /\ batch[b] = None
                /\ batch'[b] # None
                /\ batch'[b].node = o
                /\ batch'[b].total_lamports = escrow[o] - escrow'[o]
           \/ /\ ~node'[o].is_initialized
              /\ 2 * (escrow[o] - escrow'[o]) <= node[o].stake_amount

\* Every instruction that lets lamports out of an escrow accounts for them.
LEMMA OutflowSteps ==
    ASSUME TypeOK, ReputationInv, Next, NEW p \in Owners
    PROVE  OutflowStep(p)
  <1>0. /\ escrow \in [Owners -> Nat] /\ node \in [Owners -> NodeAccount]
        /\ batch \in [BatchIds -> BatchRecord \cup {None}]
        /\ StakeArgs \subseteq Nat /\ LamportArgs \subseteq Nat
        /\ LamportArgs \subseteq U64 /\ CountArgs \subseteq U64
    BY ProgramAssumption, RewardAssumption DEF TypeOK, U64
  <1>1. ASSUME NEW bump \in Bumps, InitializeProtocol(bump) PROVE OutflowStep(p)
    BY <1>0, <1>1 DEF InitializeProtocol, OutflowStep
  <1>2. ASSUME NEW o \in Owners, NEW stake \in StakeArgs, RegisterNode(o, stake)
        PROVE OutflowStep(p)
    BY <1>0, <1>2 DEF RegisterNode, OutflowStep
  <1>3. ASSUME NEW o \in Owners, NEW b \in BatchIds, NEW total \in LamportArgs,
               NEW count \in CountArgs, SettleCompressedBatch(o, b, total, count)
        PROVE OutflowStep(p)
    <2>1. CASE p # o
      BY <1>0, <1>3, <2>1 DEF SettleCompressedBatch, OutflowStep
    <2>2. CASE p = o
      <3> DEFINE rec == [node |-> o, total_lamports |-> total, receipt_count |-> count]
      <3>1. node[o].is_initialized
        BY <1>3 DEF SettleCompressedBatch, IsActive, ReputationInv
      <3>2. rec \in BatchRecord
        BY <1>0 DEF BatchRecord
      <3>3. rec # None
        BY <3>2, NoneIsNoRecord
      <3>4. batch[b] = None /\ batch'[b] = rec
        BY <1>0, <1>3 DEF SettleCompressedBatch, SettleAccounts, BatchUnused
      <3>5. escrow'[o] = escrow[o] - total
        BY <1>0, <1>3 DEF SettleCompressedBatch
      <3>6. rec.node = o /\ rec.total_lamports = escrow[o] - escrow'[o]
        BY <1>0, <3>5
      <3> HIDE DEF rec
      <3>7. QED BY <2>2, <3>1, <3>3, <3>4, <3>6 DEF OutflowStep
    <2>3. QED BY <2>1, <2>2
  <1>4. ASSUME NEW o \in Owners, NEW m \in Mints, NEW amount \in TokenArgs,
               StakeForPriority(o, m, amount)
        PROVE OutflowStep(p)
    BY <1>0, <1>4 DEF StakeForPriority, OutflowStep
  <1>5. ASSUME NEW o \in Owners, NEW authority, SlashNode(authority, o)
        PROVE OutflowStep(p)
    BY <1>0, <1>5 DEF SlashNode, OutflowStep
  <1>6. ASSUME NEW o \in Owners, NEW authority, SlashAndEject(authority, o)
        PROVE OutflowStep(p)
    <2>1. CASE p # o
      BY <1>0, <1>6, <2>1 DEF SlashAndEject, OutflowStep
    <2>2. CASE p = o
      <3>1. node[o].is_initialized /\ ~node'[o].is_initialized
        BY <1>0, <1>6 DEF SlashAndEject, NodeAccount
      <3>2. /\ ReturnAmount(o) \in Nat
            /\ 2 * ReturnAmount(o) <= node[o].stake_amount
        BY <1>0 DEF NodeAccount, U64, ReturnAmount
      <3>3. escrow'[o] = escrow[o] - ReturnAmount(o)
        BY <1>0, <1>6 DEF SlashAndEject
      <3>4. escrow[o] - escrow'[o] = ReturnAmount(o)
        BY <1>0, <3>2, <3>3
      <3>5. QED BY <2>2, <3>1, <3>2, <3>4 DEF OutflowStep
    <2>3. QED BY <2>1, <2>2
  <1>7. ASSUME NEW o \in Owners, NEW amount \in LamportArgs, FundEscrow(o, amount)
        PROVE OutflowStep(p)
    BY <1>0, <1>7 DEF FundEscrow, OutflowStep
  <1>8. QED
    BY <1>1, <1>2, <1>3, <1>4, <1>5, <1>6, <1>7 DEF Next

\* Escrowed lamports move only for a registered node, for a batch settled for
\* the first time or as the half returned by the ejection.
THEOREM OutflowIsAccounted == Spec => EscrowOutflow
  <1>1. TypeOK /\ ReputationInv /\ [Next]_vars =>
            [\A o \in Owners : OutflowStep(o)]_vars
    BY OutflowSteps
  <1>2. Init => ReputationInv
    BY DEF Init, ReputationInv, Unregistered, ReputationLevels
  <1>3. QED
    BY <1>1, <1>2, TypeCorrect, ReputationNext, PTL
       DEF Spec, EscrowOutflow, OutflowStep

-----------------------------------------------------------------------------
\* Tokens and vault of every owner, for one mint.
Held(m) == [o \in Owners |-> tokens[m][o] + vault[m][o]]

\* The receipts every batch was settled with.
Receipts == [b \in BatchIds |-> batch[b].receipt_count]

\* Supply and receipts are sums of these; Receipts counts where a BatchRecord
\* exists.
SupplyAndReceipts ==
    /\ Supply(SolnetMint) = SumFunctionOnSet(Held(SolnetMint), Owners)
    /\ \A o \in Owners : Held(SolnetMint)[o] \in Nat
    /\ IsFiniteSet(SettledBatches)
    /\ ReceiptsIn(SettledBatches) = SumFunctionOnSet(Receipts, SettledBatches)
    /\ \A b \in SettledBatches : Receipts[b] \in Nat

\* So they are in every state of the right type.
LEMMA TypedSums == TypeOK => SupplyAndReceipts
<1> SUFFICES ASSUME TypeOK
             PROVE  SupplyAndReceipts
  OBVIOUS
<1>1. Supply(SolnetMint) = SumFunctionOnSet(Held(SolnetMint), Owners)
  BY DEF Supply, Held, SumFunction
<1>2. \A o \in Owners : Held(SolnetMint)[o] \in Nat
  BY ProgramAssumption DEF TypeOK, Held
<1>3. IsFiniteSet(SettledBatches)
  BY ProgramAssumption, FS_Subset DEF SettledBatches
<1>4. \A b \in SettledBatches : Receipts[b] = batch[b].receipt_count /\ Receipts[b] \in Nat
  BY RewardAssumption DEF TypeOK, SettledBatches, Receipts, BatchRecord, U64
<1>5. ReceiptsIn(SettledBatches) = SumFunctionOnSet(Receipts, SettledBatches)
  <2> DEFINE f == [b \in SettledBatches |-> batch[b].receipt_count]
  <2>1. \A b \in SettledBatches : Receipts[b] \in Int /\ f[b] = Receipts[b]
    BY <1>4
  <2>2. ReceiptsIn(SettledBatches) = SumFunctionOnSet(f, SettledBatches)
    BY DEF ReceiptsIn, SumFunction
  <2> HIDE DEF f
  <2>3. SumFunctionOnSet(f, SettledBatches) = SumFunctionOnSet(Receipts, SettledBatches)
    BY <1>3, <2>1, SumCongruent
  <2> QED
    BY <2>2, <2>3
<1> QED
  BY <1>1, <1>2, <1>3, <1>4, <1>5 DEF SupplyAndReceipts

\* A settlement adds its reward to the supply and its receipts to the records;
\* no other instruction changes either.
LEMMA SupplyStep == TypeOK /\ TypeOK' /\ SupplyIsBacked /\ [Next]_vars => SupplyIsBacked'
<1> SUFFICES ASSUME TypeOK, TypeOK', SupplyIsBacked, [Next]_vars
             PROVE  SupplyIsBacked'
  OBVIOUS
<1> USE DEF SupplyIsBacked
<1>1. /\ Supply(SolnetMint) = SumFunctionOnSet(Held(SolnetMint), Owners)
      /\ \A o \in Owners : Held(SolnetMint)[o] \in Nat
      /\ IsFiniteSet(SettledBatches)
      /\ ReceiptsIn(SettledBatches) = SumFunctionOnSet(Receipts, SettledBatches)
      /\ \A b \in SettledBatches : Receipts[b] \in Nat
  BY TypedSums DEF SupplyAndReceipts
<1>2. /\ Supply(SolnetMint)' = SumFunctionOnSet(Held(SolnetMint)', Owners)
      /\ \A o \in Owners : Held(SolnetMint)'[o] \in Nat
      /\ ReceiptsIn(SettledBatches)' = SumFunctionOnSet(Receipts', SettledBatches')
      /\ \A b \in SettledBatches' : Receipts'[b] \in Nat
  <2>1. SupplyAndReceipts'
    BY TypedSums, PTL
  <2> QED
    BY <2>1 DEF SupplyAndReceipts
<1>3. IsFiniteSet(Owners) /\ SolnetMint \in Mints /\ InitialReward \in Nat
  BY ProgramAssumption, RewardAssumption
<1>4. ReceiptsIn(SettledBatches) \in Nat /\ Supply(SolnetMint) \in Nat
  BY <1>1, <1>3, SumSubset
<1>5. ASSUME NEW o \in Owners, NEW b \in BatchIds, NEW total \in LamportArgs, NEW count \in CountArgs,
             SettleCompressedBatch(o, b, total, count)
      PROVE  SupplyIsBacked'
  <2> DEFINE reward == BatchReward(count)
  <2>1. count \in Nat /\ reward \in Nat /\ reward <= InitialReward * count
    <3>1. count \in Nat
      BY ProgramAssumption, RewardAssumption DEF U64
    <3>2. state.global_request_count \in Nat
      BY <1>5, RewardAssumption DEF SettleCompressedBatch, SettleAccounts, TypeOK, ProgramState, U64
    <3>3. reward = ScheduledReward(state.global_request_count, count)
      BY <3>1, <3>2, LoopPaysSchedule DEF BatchReward
    <3>4. /\ ScheduledReward(state.global_request_count, count) \in Nat
          /\ ScheduledReward(state.global_request_count + 0, count) <= InitialReward * count
      BY <3>1, <3>2, ScheduleGrows, ScheduleSplits
    <3>5. state.global_request_count + 0 = state.global_request_count
      BY <3>2
    <3> HIDE DEF reward
    <3> QED
      BY <3>1, <3>3, <3>4, <3>5
  <2>2. tokens' = [tokens EXCEPT ![SolnetMint][o] = @ + reward] /\ vault' = vault
    BY <1>5 DEF SettleCompressedBatch
  <2>3. /\ batch[b] = None
        /\ batch' = [batch EXCEPT ![b] = [node |-> o, total_lamports |-> total, receipt_count |-> count]]
    BY <1>5 DEF SettleCompressedBatch, SettleAccounts, BatchUnused
  <2> HIDE DEF reward
  <2>4. Supply(SolnetMint)' = Supply(SolnetMint) + reward
    <3>1. /\ Held(SolnetMint)'[o] = Held(SolnetMint)[o] + reward
          /\ \A p \in Owners \ {o} : Held(SolnetMint)'[p] = Held(SolnetMint)[p]
      BY <1>3, <2>1, <2>2 DEF Held, TypeOK
    <3>2. \A p \in Owners : Held(SolnetMint)[p] \in Int /\ Held(SolnetMint)'[p] \in Int
      BY <1>1, <1>2
    <3>3. SumFunctionOnSet(Held(SolnetMint)', Owners)
            = SumFunctionOnSet(Held(SolnetMint), Owners) + Held(SolnetMint)'[o] - Held(SolnetMint)[o]
      <4> DEFINE before == Held(SolnetMint)
      <4> DEFINE after == Held(SolnetMint)'
      <4>1. /\ \A p \in Owners : before[p] \in Int /\ after[p] \in Int
            /\ \A p \in Owners \ {o} : after[p] = before[p]
        BY <3>1, <3>2
      <4> HIDE DEF before, after
      <4>2. SumFunctionOnSet(after, Owners) = SumFunctionOnSet(before, Owners) + after[o] - before[o]
        BY <1>3, <4>1, SumChange
      <4> QED
        BY <4>2 DEF before, after
    <3> QED
      BY <1>1, <1>2, <1>4, <2>1, <3>1, <3>2, <3>3
  <2>5. ReceiptsIn(SettledBatches)' = ReceiptsIn(SettledBatches) + count
    <3>1. SettledBatches' = SettledBatches \cup {b} /\ b \notin SettledBatches
      BY <2>3, NoneIsNoRecord DEF SettledBatches, TypeOK, None
    <3>2. Receipts'[b] = count /\ \A c \in SettledBatches : Receipts'[c] = Receipts[c]
      BY <2>3, <3>1 DEF Receipts, TypeOK, SettledBatches
    <3>3. \A c \in SettledBatches \cup {b} : Receipts'[c] \in Int
      BY <1>2, <3>1
    <3>4. SumFunctionOnSet(Receipts', SettledBatches \cup {b})
            = SumFunctionOnSet(Receipts', SettledBatches) + Receipts'[b]
      BY <1>1, <3>1, <3>3, SumAdd
    <3>5. \A c \in SettledBatches : Receipts[c] \in Int /\ Receipts'[c] = Receipts[c]
      BY <1>1, <3>2
    <3>6. SumFunctionOnSet(Receipts', SettledBatches) = SumFunctionOnSet(Receipts, SettledBatches)
      BY <1>1, <3>5, SumCongruent
    <3> QED
      BY <1>1, <1>2, <3>1, <3>2, <3>4, <3>6
  <2>6. InitialReward * (ReceiptsIn(SettledBatches) + count)
          = InitialReward * ReceiptsIn(SettledBatches) + InitialReward * count
    BY <1>3, <1>4, <2>1
  <2>7. InitialReward * ReceiptsIn(SettledBatches) \in Nat /\ InitialReward * count \in Nat
    BY <1>3, <1>4, <2>1
  <2> QED
    BY <1>4, <2>1, <2>4, <2>5, <2>6, <2>7
<1>6. ASSUME NEW o \in Owners, NEW m \in Mints, NEW amount \in TokenArgs, StakeForPriority(o, m, amount)
      PROVE  SupplyIsBacked'
  <2>1. /\ tokens' = [tokens EXCEPT ![m][o] = @ - amount] /\ vault' = [vault EXCEPT ![m][o] = @ + amount]
        /\ batch' = batch /\ amount \in Nat
    BY <1>6, ProgramAssumption, RewardAssumption DEF StakeForPriority, U64
  <2>2. \A p \in Owners : Held(SolnetMint)'[p] = Held(SolnetMint)[p] /\ Held(SolnetMint)[p] \in Int
    BY <1>1, <1>3, <2>1 DEF Held, TypeOK
  <2>3. Supply(SolnetMint)' = Supply(SolnetMint)
    BY <1>1, <1>2, <1>3, <2>2, SumCongruent
  <2>4. ReceiptsIn(SettledBatches)' = ReceiptsIn(SettledBatches)
    BY <2>1 DEF ReceiptsIn, SettledBatches
  <2> QED
    BY <2>3, <2>4
<1>7. CASE UNCHANGED <<tokens, vault, batch>>
  BY <1>7 DEF Supply, ReceiptsIn, SettledBatches
<1>8. ASSUME NEW bump \in Bumps, InitializeProtocol(bump)
      PROVE  UNCHANGED <<tokens, vault, batch>>
  BY <1>8 DEF InitializeProtocol
<1>9. ASSUME NEW o \in Owners, NEW stake \in StakeArgs, RegisterNode(o, stake)
      PROVE  UNCHANGED <<tokens, vault, batch>>
  BY <1>9 DEF RegisterNode
<1>10. ASSUME NEW o \in Owners, NEW authority \in Owners \cup {Admin},
              SlashNode(authority, o) \/ SlashAndEject(authority, o)
       PROVE  UNCHANGED <<tokens, vault, batch>>
  BY <1>10 DEF SlashNode, SlashAndEject
<1>11. ASSUME NEW o \in Owners, NEW amount \in LamportArgs, FundEscrow(o, amount)
       PROVE  UNCHANGED <<tokens, vault, batch>>
  BY <1>11 DEF FundEscrow
<1>12. CASE UNCHANGED vars
  BY <1>7, <1>12 DEF vars
<1> QED
  BY <1>5, <1>6, <1>7, <1>8, <1>9, <1>10, <1>11, <1>12 DEF Next

\* However often batches are settled, with whatever counts, and wherever the
\* tokens are staked, SOLNET exists only for receipts that a BatchRecord counts,
\* at most InitialReward for each.
THEOREM SupplyBacked == Spec => []SupplyIsBacked
<1>1. Init => SupplyIsBacked
  <2> SUFFICES ASSUME Init
               PROVE  SupplyIsBacked
    OBVIOUS
  <2>1. TypeOK
    BY TypeInit
  <2>2. /\ Supply(SolnetMint) = SumFunctionOnSet(Held(SolnetMint), Owners)
        /\ ReceiptsIn(SettledBatches) = SumFunctionOnSet(Receipts, SettledBatches)
    BY <2>1, TypedSums DEF SupplyAndReceipts
  <2>3. SettledBatches = {} /\ IsFiniteSet(Owners) /\ \A o \in Owners : Held(SolnetMint)[o] = 0
    BY ProgramAssumption DEF Init, SettledBatches, Held
  <2> QED
    BY <2>2, <2>3, SumEmpty, SumZero, RewardAssumption DEF SupplyIsBacked
<1> QED
  BY <1>1, SupplyStep, TypeCorrect, PTL DEF Spec

-----------------------------------------------------------------------------
\* The lamports every batch was settled for.
Lamports == [b \in BatchIds |-> batch[b].total_lamports]

\* What an owner was paid is a sum of these.
PaidSum(o) ==
    /\ IsFiniteSet(BatchesOf(o))
    /\ PaidBy(o) = SumFunctionOnSet(Lamports, BatchesOf(o)) /\ PaidBy(o) \in Nat
    /\ \A b \in BatchesOf(o) : Lamports[b] \in Nat

AllPaid == \A o \in Owners : PaidSum(o)

\* So it is in every state of the right type.
LEMMA PaidSums == TypeOK => AllPaid
<1> SUFFICES ASSUME TypeOK, NEW o \in Owners
             PROVE  PaidSum(o)
  BY DEF AllPaid
<1> DEFINE S == BatchesOf(o)
<1>1. IsFiniteSet(S)
  BY ProgramAssumption, FS_Subset DEF BatchesOf, SettledBatches
<1>2. \A b \in S : Lamports[b] = batch[b].total_lamports /\ Lamports[b] \in Nat
  BY RewardAssumption DEF TypeOK, BatchesOf, SettledBatches, Lamports, BatchRecord, U64
<1> DEFINE f == [b \in S |-> batch[b].total_lamports]
<1>3. \A b \in S : Lamports[b] \in Int /\ f[b] = Lamports[b]
  BY <1>2
<1>4. PaidBy(o) = SumFunctionOnSet(f, S)
  BY DEF PaidBy, SumFunction
<1> HIDE DEF f, S
<1>5. SumFunctionOnSet(f, S) = SumFunctionOnSet(Lamports, S)
  BY <1>1, <1>3, SumCongruent
<1>6. SumFunctionOnSet(Lamports, S) \in Nat
  BY <1>1, <1>2, SumSubset
<1> QED
  BY <1>1, <1>2, <1>4, <1>5, <1>6 DEF PaidSum, S

\* A settlement is a new batch of its owner, for its lamports, and no other
\* owner's records change.
LEMMA SettledOnce ==
    ASSUME TypeOK, TypeOK', NEW o \in Owners, NEW b \in BatchIds, NEW total \in LamportArgs,
           NEW count \in CountArgs, SettleCompressedBatch(o, b, total, count)
    PROVE  /\ PaidBy(o)' = PaidBy(o) + total /\ BatchesOf(o)' = BatchesOf(o) \cup {b}
           /\ \A p \in Owners \ {o} : PaidBy(p)' = PaidBy(p) /\ BatchesOf(p)' = BatchesOf(p)
<1> DEFINE rec == [node |-> o, total_lamports |-> total, receipt_count |-> count]
<1>1. total \in Nat /\ rec \in BatchRecord /\ rec # None /\ rec.node = o /\ rec.total_lamports = total
  BY ProgramAssumption, RewardAssumption, NoneIsNoRecord DEF U64, BatchRecord
<1>2. batch[b] = None /\ batch' = [batch EXCEPT ![b] = rec]
  BY DEF SettleCompressedBatch, SettleAccounts, BatchUnused
<1> HIDE DEF rec
<1>3. batch'[b] = rec /\ \A c \in BatchIds \ {b} : batch'[c] = batch[c]
  BY <1>2 DEF TypeOK
<1>4. BatchesOf(o)' = BatchesOf(o) \cup {b} /\ b \notin BatchesOf(o)
  BY <1>1, <1>2, <1>3 DEF BatchesOf, SettledBatches
<1>5. \A p \in Owners \ {o} : BatchesOf(p)' = BatchesOf(p)
  BY <1>1, <1>2, <1>3 DEF BatchesOf, SettledBatches
<1>6. Lamports'[b] = total /\ \A c \in BatchIds \ {b} : Lamports'[c] = Lamports[c]
  BY <1>1, <1>3 DEF Lamports
<1>7. \A p \in Owners : PaidSum(p) /\ b \notin BatchesOf(p) /\ BatchesOf(p) \subseteq BatchIds
  BY <1>2, PaidSums DEF AllPaid, BatchesOf, SettledBatches
<1>8. \A p \in Owners : PaidSum(p)'
  <2>1. AllPaid'
    BY PaidSums, PTL
  <2> QED
    BY <2>1 DEF AllPaid
<1>9. PaidBy(o)' = PaidBy(o) + total
  <2> DEFINE S == BatchesOf(o)
  <2> DEFINE f == Lamports
  <2> DEFINE h == Lamports'
  <2>1. /\ IsFiniteSet(S) /\ PaidBy(o) = SumFunctionOnSet(f, S) /\ b \notin S
        /\ \A c \in S : f[c] \in Int /\ h[c] = f[c]
    BY <1>6, <1>7 DEF PaidSum
  <2>2. PaidBy(o)' = SumFunctionOnSet(h, S \cup {b}) /\ h[b] = total
    BY <1>4, <1>6, <1>8 DEF PaidSum
  <2> HIDE DEF S, f, h
  <2>3. \A c \in S \cup {b} : h[c] \in Int
    BY <1>1, <2>1, <2>2
  <2>4. SumFunctionOnSet(h, S \cup {b}) = SumFunctionOnSet(h, S) + h[b]
    BY <2>1, <2>3, SumAdd
  <2>5. SumFunctionOnSet(h, S) = SumFunctionOnSet(f, S)
    BY <2>1, SumCongruent
  <2> QED
    BY <2>1, <2>2, <2>4, <2>5
<1>10. ASSUME NEW p \in Owners \ {o}
       PROVE  PaidBy(p)' = PaidBy(p)
  <2> DEFINE S == BatchesOf(p)
  <2> DEFINE f == Lamports
  <2> DEFINE h == Lamports'
  <2>1. /\ IsFiniteSet(S) /\ PaidBy(p) = SumFunctionOnSet(f, S)
        /\ \A c \in S : f[c] \in Int /\ h[c] = f[c]
    BY <1>6, <1>7 DEF PaidSum
  <2>2. PaidBy(p)' = SumFunctionOnSet(h, S)
    BY <1>5, <1>8 DEF PaidSum
  <2> HIDE DEF S, f, h
  <2> QED
    BY <2>1, <2>2, SumCongruent
<1> QED
  BY <1>4, <1>5, <1>9, <1>10

\* While nothing was settled and no token staked, the escrow has the whole stake.
StakeInv ==
    \A o \in Owners :
        /\ node[o].is_initialized
        /\ BatchesOf(o) = {}
        /\ \A m \in Mints : vault[m][o] = 0
        => node[o].stake_amount <= escrow[o]

LedgerInv == EscrowAccounted /\ StakeInv

\* Each instruction enters in the ledger of one owner what it moves.
LEMMA LedgerStep == TypeOK /\ TypeOK' /\ LedgerInv /\ [Next]_vars => LedgerInv'
<1> SUFFICES ASSUME TypeOK, TypeOK', LedgerInv, [Next]_vars, NEW p \in Owners
             PROVE  /\ escrow'[p] + PaidBy(p)' = pledged'[p] + (funded'[p] - StartingLamports)
                    /\ (/\ node'[p].is_initialized
                        /\ BatchesOf(p)' = {}
                        /\ \A m \in Mints : vault'[m][p] = 0)
                       => node'[p].stake_amount <= escrow'[p]
  BY DEF LedgerInv, EscrowAccounted, StakeInv
<1> DEFINE Accounted == escrow'[p] + PaidBy(p)' = pledged'[p] + (funded'[p] - StartingLamports)
<1> DEFINE Covered == (/\ node'[p].is_initialized
                       /\ BatchesOf(p)' = {}
                       /\ \A m \in Mints : vault'[m][p] = 0)
                      => node'[p].stake_amount <= escrow'[p]
<1>1. /\ escrow \in [Owners -> Nat] /\ funded \in [Owners -> Nat] /\ pledged \in [Owners -> Int]
      /\ node \in [Owners -> NodeAccount] /\ vault \in [Mints -> [Owners -> Nat]]
      /\ StakeArgs \subseteq Nat /\ LamportArgs \subseteq Nat /\ TokenArgs \subseteq Nat
      /\ StartingLamports \in Nat /\ MinPriority \in Nat \ {0}
      /\ node[p].stake_amount \in Nat /\ PaidBy(p) \in Nat
  BY ProgramAssumption, RewardAssumption, PaidSums DEF AllPaid, TypeOK, U64, NodeAccount, PaidSum
<1>2. /\ escrow[p] + PaidBy(p) = pledged[p] + (funded[p] - StartingLamports)
      /\ (/\ node[p].is_initialized
          /\ BatchesOf(p) = {}
          /\ \A m \in Mints : vault[m][p] = 0)
         => node[p].stake_amount <= escrow[p]
  BY DEF LedgerInv, EscrowAccounted, StakeInv
<1>3. batch' = batch => PaidBy(p)' = PaidBy(p) /\ BatchesOf(p)' = BatchesOf(p)
  BY DEF PaidBy, BatchesOf, SettledBatches
<1>0. /\ escrow[p] + PaidBy(p) = pledged[p] + (funded[p] - StartingLamports)
      /\ escrow[p] \in Nat /\ pledged[p] \in Int /\ funded[p] \in Nat
      /\ StartingLamports \in Nat /\ PaidBy(p) \in Nat
  BY <1>1, <1>2
<1>4. ASSUME NEW o \in Owners, NEW stake \in StakeArgs, RegisterNode(o, stake)
      PROVE  Accounted /\ Covered
  <2>1. CASE p = o
    <3>1. /\ escrow'[p] = escrow[p] + stake /\ pledged'[p] = pledged[p] + stake /\ funded' = funded
          /\ batch' = batch /\ node'[p].stake_amount = stake /\ stake \in Nat
      BY <1>1, <1>4, <2>1 DEF RegisterNode, NodeAccount
    <3> QED
      BY <1>1, <1>2, <1>3, <3>1
  <2>2. CASE p # o
    <3>1. /\ escrow'[p] = escrow[p] /\ pledged'[p] = pledged[p] /\ funded' = funded
          /\ batch' = batch /\ node'[p] = node[p] /\ vault' = vault
      BY <1>1, <1>4, <2>2 DEF RegisterNode
    <3> QED
      BY <1>2, <1>3, <3>1
  <2> QED
    BY <2>1, <2>2
<1>5. ASSUME NEW o \in Owners, NEW b \in BatchIds, NEW total \in LamportArgs, NEW count \in CountArgs,
             SettleCompressedBatch(o, b, total, count)
      PROVE  Accounted /\ Covered
  <2>1. funded' = funded /\ pledged' = pledged /\ vault' = vault
    BY <1>5 DEF SettleCompressedBatch, history
  <2>2. CASE p = o
    <3>1. escrow'[p] = escrow[p] - total /\ total \in Nat
      BY <1>1, <1>5, <2>2 DEF SettleCompressedBatch
    <3>2. PaidBy(p)' = PaidBy(p) + total /\ BatchesOf(p)' # {}
      BY <1>5, <2>2, SettledOnce
    <3>3. Accounted
      BY <1>1, <1>2, <2>1, <3>1, <3>2
    <3> QED
      BY <3>2, <3>3
  <2>3. CASE p # o
    <3>1. escrow'[p] = escrow[p] /\ node'[p] = node[p]
      BY <1>1, <1>5, <2>3 DEF SettleCompressedBatch
    <3>2. PaidBy(p)' = PaidBy(p) /\ BatchesOf(p)' = BatchesOf(p)
      BY <1>5, <2>3, SettledOnce
    <3> QED
      BY <1>2, <2>1, <3>1, <3>2
  <2> QED
    BY <2>2, <2>3
<1>6. ASSUME NEW o \in Owners, NEW m \in Mints, NEW amount \in TokenArgs, StakeForPriority(o, m, amount)
      PROVE  Accounted /\ Covered
  <2>1. /\ escrow' = escrow /\ batch' = batch /\ funded' = funded /\ pledged' = pledged
        /\ vault' = [vault EXCEPT ![m][o] = @ + amount] /\ amount >= MinPriority
    BY <1>6 DEF StakeForPriority, history
  <2>2. CASE p = o
    <3>1. vault'[m][p] = vault[m][p] + amount /\ vault[m][p] \in Nat /\ amount \in Nat
      BY <1>1, <2>1, <2>2
    <3>2. vault'[m][p] # 0
      BY <1>1, <2>1, <3>1
    <3>3. Covered
      BY <3>2
    <3> QED
      BY <1>2, <1>3, <2>1, <3>3
  <2>3. CASE p # o
    <3>1. node'[p] = node[p]
      BY <1>1, <1>6, <2>3 DEF StakeForPriority
    <3>2. \A k \in Mints : vault'[k][p] = vault[k][p]
      BY <1>1, <2>1, <2>3
    <3> QED
      BY <1>2, <1>3, <2>1, <3>1, <3>2
  <2> QED
    BY <2>2, <2>3
<1>7. ASSUME NEW o \in Owners, NEW authority, SlashNode(authority, o)
      PROVE  Accounted /\ Covered
  <2>1. /\ escrow' = escrow /\ batch' = batch /\ funded' = funded /\ pledged' = pledged /\ vault' = vault
        /\ node[o].is_initialized
    BY <1>7 DEF SlashNode, history
  <2>2. node'[p].stake_amount = node[p].stake_amount
    BY <1>1, <1>7 DEF SlashNode, NodeAccount
  <2>3. node'[p].is_initialized => node[p].is_initialized
    <3>1. CASE p = o
      BY <2>1, <3>1
    <3>2. CASE p # o
      BY <1>1, <1>7, <3>2 DEF SlashNode
    <3> QED
      BY <3>1, <3>2
  <2> QED
    BY <1>2, <1>3, <2>1, <2>2, <2>3
<1>8. ASSUME NEW o \in Owners, NEW authority, SlashAndEject(authority, o)
      PROVE  Accounted /\ Covered
  <2>1. funded' = funded /\ batch' = batch /\ vault' = vault
    BY <1>8 DEF SlashAndEject
  <2>2. CASE p = o
    <3>1. /\ escrow'[p] = escrow[p] - ReturnAmount(p) /\ pledged'[p] = pledged[p] - ReturnAmount(p)
          /\ ReturnAmount(p) \in Nat
      BY <1>1, <1>8, <2>2 DEF SlashAndEject, ReturnAmount
    <3>2. ~node'[p].is_initialized
      BY <1>1, <1>8, <2>2 DEF SlashAndEject, NodeAccount
    <3>3. PaidBy(p)' = PaidBy(p) /\ funded'[p] = funded[p] /\ escrow[p] \in Nat /\ pledged[p] \in Int
      BY <1>1, <1>3, <2>1
    <3>4. Accounted
      BY <1>0, <3>1, <3>3
    <3> QED
      BY <3>2, <3>4
  <2>3. CASE p # o
    <3>1. escrow'[p] = escrow[p] /\ pledged'[p] = pledged[p] /\ node'[p] = node[p]
      BY <1>1, <1>8, <2>3 DEF SlashAndEject
    <3> QED
      BY <1>2, <1>3, <2>1, <3>1
  <2> QED
    BY <2>2, <2>3
<1>9. ASSUME NEW o \in Owners, NEW amount \in LamportArgs, FundEscrow(o, amount)
      PROVE  Accounted /\ Covered
  <2>1. pledged' = pledged /\ batch' = batch /\ vault' = vault /\ node' = node
    BY <1>9 DEF FundEscrow
  <2>2. CASE p = o
    <3>1. escrow'[p] = escrow[p] + amount /\ funded'[p] = funded[p] + amount /\ amount \in Nat
      BY <1>1, <1>9, <2>2 DEF FundEscrow
    <3>2. PaidBy(p)' = PaidBy(p) /\ BatchesOf(p)' = BatchesOf(p) /\ pledged'[p] = pledged[p]
      BY <1>3, <2>1
    <3>3. escrow[p] \in Nat /\ funded[p] \in Nat /\ pledged[p] \in Int
      BY <1>1
    <3>4. Accounted
      BY <1>0, <3>1, <3>2
    <3>5. Covered
      <4>1. escrow'[p] >= escrow[p]
        BY <3>1, <3>3
      <4> QED
        BY <1>1, <1>2, <2>1, <3>1, <3>2, <3>3, <4>1
    <3> QED
      BY <3>4, <3>5
  <2>3. CASE p # o
    <3>1. escrow'[p] = escrow[p] /\ funded'[p] = funded[p]
      BY <1>1, <1>9, <2>3 DEF FundEscrow
    <3> QED
      BY <1>2, <1>3, <2>1, <3>1
  <2> QED
    BY <2>2, <2>3
<1>10. CASE UNCHANGED <<node, escrow, vault, batch, history>>
  BY <1>2, <1>3, <1>10 DEF history
<1> HIDE DEF Accounted, Covered
<1>11. Accounted /\ Covered
  BY <1>4, <1>5, <1>6, <1>7, <1>8, <1>9, <1>10 DEF Next, vars, InitializeProtocol, Accounted, Covered
<1> QED
  BY <1>11 DEF Accounted, Covered

\* The escrows start empty, without records.
LEMMA LedgerInvariant == Spec => []LedgerInv
<1>1. Init => LedgerInv
  <2> SUFFICES ASSUME Init, NEW o \in Owners
               PROVE  /\ escrow[o] + PaidBy(o) = pledged[o] + (funded[o] - StartingLamports)
                      /\ ~node[o].is_initialized
    BY DEF LedgerInv, EscrowAccounted, StakeInv
  <2>1. TypeOK
    BY TypeInit
  <2>2. PaidBy(o) = SumFunctionOnSet(Lamports, BatchesOf(o)) /\ BatchesOf(o) = {}
    BY <2>1, PaidSums DEF AllPaid, PaidSum, BatchesOf, SettledBatches, Init
  <2>3. PaidBy(o) = 0
    BY <2>2, SumEmpty
  <2>4. StartingLamports \in Nat /\ escrow[o] = 0 /\ pledged[o] = 0 /\ funded[o] = StartingLamports
    BY ProgramAssumption, RewardAssumption DEF U64, Init
  <2>5. ~node[o].is_initialized
    BY DEF Init, Unregistered
  <2> QED
    BY <2>3, <2>4, <2>5
<1> QED
  BY <1>1, LedgerStep, TypeCorrect, PTL DEF Spec

\* The balance of an escrow PDA can be explained at any time from what went in
\* and from the BatchRecords of its owner: register_node over a balance,
\* settlements out of the stake and ejections lose no lamport from the records.
THEOREM EscrowIsAccounted == Spec => []EscrowAccounted
  BY LedgerInvariant, PTL DEF LedgerInv

\* A slash_node that would eject is refused for want of lamports only to a node
\* that has settled a batch or staked tokens.
THEOREM StakeIsCovered == Spec => []StakeCovered
<1>1. TypeOK /\ LedgerInv => StakeCovered
  <2> SUFFICES ASSUME TypeOK, LedgerInv, NEW o \in Owners, node[o].is_initialized, escrow[o] < ReturnAmount(o),
                      BatchesOf(o) = {}, \A m \in Mints : ~(vault[m][o] > 0)
               PROVE  FALSE
    BY DEF StakeCovered
  <2>1. \A m \in Mints : vault[m][o] = 0
    BY DEF TypeOK
  <2>2. node[o].stake_amount <= escrow[o]
    BY <2>1 DEF LedgerInv, StakeInv
  <2>3. node[o].stake_amount \in Nat /\ escrow[o] \in Nat
    BY RewardAssumption DEF TypeOK, NodeAccount, U64
  <2> QED
    BY <2>2, <2>3 DEF ReturnAmount
<1> QED
  BY <1>1, LedgerInvariant, TypeCorrect, PTL
=============================================================================
