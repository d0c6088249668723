--------------------------- MODULE MeasureProofs ---------------------------
(* The history keeps the newest samples, a client gets all of them, and    *)
(* the values stored are fresh, for every size of the history, the ring,   *)
(* the packets and the frames, every period and every number of            *)
(* disturbances and power failures.                                        *)
EXTENDS Measure, FiniteSetTheorems, WellFoundedInduction, TLAPS

-----------------------------------------------------------------------------
(* The slots of the history.                                               *)

LEMMA Constants ==
    /\ MaxEnergy \in Nat /\ MaxEnergy > 1 /\ SampleEvery \in Nat \ {0}
    /\ MinutesOfHour \in Nat \ {0} /\ FirstMinute \in Nat
    /\ Earlier \subseteq 0 .. FirstMinute - 1
    /\ Split \in Nat \ {0} /\ MaxEnergy < 2 * Split
  BY EnergyArrayAssumption

\* A remainder is the number itself, less the divisor when it is not smaller.
LEMMA Remainders ==
    ASSUME NEW m \in Nat, m > 0, NEW a \in 0 .. m - 1
    PROVE  a % m = a /\ (a + m) % m = a
OBVIOUS

\* The slot k places before slot i.
Back(i, k) == (i + MaxEnergy - k) % MaxEnergy

LEMMA BackIs ==
    ASSUME NEW i \in Slots, NEW k \in 1 .. MaxEnergy - 1
    PROVE  /\ Back(i, k) = IF k <= i THEN i - k ELSE i + MaxEnergy - k
           /\ Back(i, k) \in Slots /\ Back(i, k) # i
<1>1. CASE k <= i
  <2>1. i - k \in 0 .. MaxEnergy - 1 /\ i + MaxEnergy - k = (i - k) + MaxEnergy
    BY <1>1, Constants DEF Slots
  <2> QED BY <1>1, <2>1, Remainders, Constants DEF Back, Slots
<1>2. CASE ~(k <= i)
  <2>1. i + MaxEnergy - k \in 0 .. MaxEnergy - 1
    BY <1>2, Constants DEF Slots
  <2> QED BY <1>2, <2>1, Remainders, Constants DEF Back, Slots
<1> QED BY <1>1, <1>2

\* A step forward moves every slot behind by one, and the slot left is one back.
LEMMA BackAfter ==
    ASSUME NEW i \in Slots, NEW k \in 1 .. MaxEnergy - 1
    PROVE  /\ AfterSlot(i) \in Slots
           /\ Back(AfterSlot(i), k) = IF k = 1 THEN i ELSE Back(i, k - 1)
<1>1. AfterSlot(i) \in Slots
  BY Constants DEF AfterSlot, Slots
<1>2. Back(AfterSlot(i), k) = IF k <= AfterSlot(i) THEN AfterSlot(i) - k
                              ELSE AfterSlot(i) + MaxEnergy - k
  BY <1>1, BackIs
<1>3. CASE k = 1
  BY <1>2, <1>3, Constants DEF AfterSlot, Slots
<1>4. CASE k # 1
  <2>1. k - 1 \in 1 .. MaxEnergy - 1
    BY <1>4, Constants
  <2>2. Back(i, k - 1) = IF k - 1 <= i THEN i - (k - 1) ELSE i + MaxEnergy - (k - 1)
    BY <2>1, BackIs
  <2> QED BY <1>1, <1>2, <1>4, <2>1, <2>2, Constants DEF AfterSlot, Slots
<1> QED BY <1>1, <1>3, <1>4

-----------------------------------------------------------------------------
(* What earlier samples left in memory.                                    *)

LEMMA Product ==
    ASSUME NEW m \in Nat, NEW q \in Int, q >= 1
    PROVE  m * q >= m
<1>1. m * q = m * (q - 1) + m /\ m * (q - 1) >= 0
  OBVIOUS
<1> QED BY <1>1

LEMMA SmallMultiple ==
    ASSUME NEW m \in Nat, NEW q \in Int, m * q < m, -m < m * q
    PROVE  q = 0
<1>1. CASE q >= 1
  BY <1>1, Product
<1>2. CASE q <= -1
  <2>1. m * (-q) >= m
    BY <1>2, Product
  <2>2. m * (-q) = -(m * q)
    OBVIOUS
  <2> QED BY <2>1, <2>2
<1> QED BY <1>1, <1>2

\* Numbers with the same remainder are equal or far apart.
LEMMA SameRemainder ==
    ASSUME NEW m \in Nat, m > 0, NEW a \in Nat, NEW b \in Nat, a % m = b % m,
           -m < b - a, b - a < m
    PROVE  a = b
<1> DEFINE q == (b \div m) - (a \div m)
<1>1. a = m * (a \div m) + (a % m) /\ b = m * (b \div m) + (b % m)
  OBVIOUS
<1>2. q \in Int /\ b - a = m * q
  BY <1>1
<1> HIDE DEF q
<1>3. q = 0
  BY <1>2, SmallMultiple
<1> QED BY <1>2, <1>3

LEMMA Divided ==
    ASSUME NEW m \in Nat, m > 0, NEW n \in Nat
    PROVE  \E q \in Nat : n = m * q + (n % m) /\ n % m \in 0 .. m - 1
<1>1. n = m * (n \div m) + (n % m) /\ n % m \in 0 .. m - 1 /\ n \div m \in Nat
  OBVIOUS
<1> QED BY <1>1

LEMMA RemainderLess ==
    ASSUME NEW m \in Nat, m > 0, NEW n \in Nat, NEW k \in 1 .. m - 1, k <= n
    PROVE  ((n % m) + m - k) % m = (n - k) % m
<1>1. PICK q \in Nat : n = m * q + (n % m) /\ n % m \in 0 .. m - 1
  BY Divided
<1>2. PICK a \in Nat : a = (n % m) + m - k
  BY <1>1
<1>3. PICK b \in Nat : b = n - k
  OBVIOUS
<1>4. PICK p \in Nat : a = m * p + (a % m) /\ a % m \in 0 .. m - 1
  BY Divided
<1>5. PICK s \in Nat : b = m * s + (b % m) /\ b % m \in 0 .. m - 1
  BY Divided
<1>6. PICK d \in Int : d = s - p - q + 1
  OBVIOUS
<1>7. m * d = m * s - m * p - m * q + m
  BY <1>6
<1>8. /\ {m * d, m * s, m * p, m * q, n % m, a % m, b % m} \subseteq Int
      /\ b - a = m * q - m
  BY <1>1, <1>2, <1>3, <1>4, <1>5, <1>6
<1>9. m * d = (a % m) - (b % m)
  BY <1>4, <1>5, <1>7, <1>8
<1>10. d = 0
  BY <1>4, <1>5, <1>9, SmallMultiple
<1>11. a % m = b % m
  BY <1>4, <1>5, <1>9, <1>10
<1> QED BY <1>2, <1>3, <1>11

\* The slot of the sample k before the n-th.
LEMMA KeptIs ==
    ASSUME NEW n \in Nat, NEW k \in 1 .. MaxEnergy - 1, k <= n
    PROVE  Kept(n, Back(n % MaxEnergy, k)) = [time |-> n + 1 - k, n |-> n + 1 - k]
<1> DEFINE i == Back(n % MaxEnergy, k)
           last == {j \in 1 .. n : (j - 1) % MaxEnergy = i /\ j + MaxEnergy > n}
<1>1. i = (n - k) % MaxEnergy
  <2>1. ((n % MaxEnergy) + MaxEnergy - k) % MaxEnergy = (n - k) % MaxEnergy
    <3>1. MaxEnergy \in Nat /\ MaxEnergy > 0
      BY Constants
    <3> QED BY <3>1, RemainderLess, Zenon
  <2> QED BY <2>1 DEF Back
<1>2. n + 1 - k \in last
  <2>1. (n + 1 - k) - 1 = n - k
    OBVIOUS
  <2> QED BY <1>1, <2>1, Constants
<1>3. ASSUME NEW j \in last
      PROVE  j = n + 1 - k
  <2>1. /\ j - 1 \in Nat /\ n - k \in Nat /\ (j - 1) % MaxEnergy = (n - k) % MaxEnergy
        /\ -MaxEnergy < (n - k) - (j - 1) /\ (n - k) - (j - 1) < MaxEnergy
    BY <1>1, Constants
  <2>2. PICK a \in Nat, b \in Nat : a = j - 1 /\ b = n - k
    BY <2>1
  <2>3. a = b
    <3>1. /\ MaxEnergy \in Nat /\ MaxEnergy > 0 /\ a % MaxEnergy = b % MaxEnergy
          /\ -MaxEnergy < b - a /\ b - a < MaxEnergy
      BY <2>1, <2>2, Constants
    <3> QED BY <3>1, SameRemainder, Zenon
  <2> QED BY <2>2, <2>3
<1>4. last = {n + 1 - k}
  BY <1>2, <1>3
<1>5. Kept(n, i) = IF last = {} THEN Cleared ELSE [time |-> CHOOSE j \in last : TRUE,
                                                   n |-> CHOOSE j \in last : TRUE]
  BY DEF Kept
<1> HIDE DEF last, i
<1>6. (CHOOSE j \in last : TRUE) = n + 1 - k
  BY <1>4
<1> QED BY <1>4, <1>5, <1>6 DEF i

LEMMA KeptType ==
    ASSUME NEW n \in Nat, NEW i \in Slots
    PROVE  Kept(n, i) \in Sample
<1> DEFINE last == {j \in 1 .. n : (j - 1) % MaxEnergy = i /\ j + MaxEnergy > n}
<1>1. Kept(n, i) = IF last = {} THEN Cleared ELSE [time |-> CHOOSE j \in last : TRUE,
                                                   n |-> CHOOSE j \in last : TRUE]
  BY DEF Kept
<1>2. last \subseteq Nat
  OBVIOUS
<1> HIDE DEF last
<1>3. last # {} => (CHOOSE j \in last : TRUE) \in Nat
  BY <1>2
<1> QED BY <1>1, <1>3 DEF Cleared, Sample

-----------------------------------------------------------------------------
(* The history.                                                            *)

HistoryType ==
    /\ now \in Nat /\ NextInArray \in Words
    /\ array \in [Slots -> Sample] /\ taken \in Nat /\ samples \in Seq(Sample)

HistoryInv == HistoryType /\ HistoryKeepsNewest /\ (NextInArray \notin Slots => Len(samples) = 0)

\* Every slot is a word, and so is the number after it, and what is on the way
\* from one word to another.
LEMMA WordsAre ==
    /\ Slots \subseteq Words /\ 0 \in Slots
    /\ \A i \in Slots : i + 1 \in Words
    /\ \A v, w \in Words : HalfStored(v, w) \subseteq Words
<1>1. ASSUME NEW v \in Words, NEW w \in Words
      PROVE  HalfStored(v, w) \subseteq Words
  <2>1. v \in 0 .. 2 * Split - 1 /\ w \in 0 .. 2 * Split - 1 /\ Split \in Nat
    BY Constants DEF Words
  <2>2. High(v) + Low(w) \in Words /\ High(w) + Low(v) \in Words
    BY <2>1 DEF Words, High, Low
  <2> QED BY <1>1, <2>2 DEF HalfStored
<1>2. Slots \subseteq Words /\ 0 \in Slots /\ \A i \in Slots : i + 1 \in Words
  BY Constants DEF Slots, Words
<1> QED BY <1>1, <1>2

LEMMA InitHistory ==
    ASSUME EnergyInit
    PROVE  HistoryInv
<1>1. PICK n \in Earlier :
          /\ samples = [k \in 1 .. n |-> [time |-> k, n |-> k]]
          /\ array = [i \in Slots |-> Kept(n, i)]
          /\ NextInArray = n % MaxEnergy
  BY DEF EnergyInit
<1>2. n \in Nat
  BY Constants
<1>3. now \in Nat /\ NextInArray \in Slots /\ taken \in Nat
  BY <1>1, <1>2, Constants DEF EnergyInit, Slots
<1>4. array \in [Slots -> Sample]
  BY <1>1, <1>2, KeptType
<1>5. samples \in Seq(Sample) /\ Len(samples) = n
  BY <1>1, <1>2 DEF Sample
<1>6. ASSUME NEW k \in 1 .. MaxEnergy - 1, k <= Len(samples)
      PROVE  array[Back(NextInArray, k)] = samples[Len(samples) + 1 - k]
  <2>1. Back(NextInArray, k) \in Slots
    BY <1>3, BackIs
  <2>2. array[Back(NextInArray, k)] = [time |-> n + 1 - k, n |-> n + 1 - k]
    BY <1>1, <1>2, <1>5, <1>6, <2>1, KeptIs
  <2> QED BY <1>1, <1>2, <1>5, <1>6, <2>2
<1> QED BY <1>3, <1>4, <1>5, <1>6, WordsAre
        DEF HistoryInv, HistoryType, HistoryKeepsNewest, Back

\* A sample in its slot, counted or not.
LEMMA StoredHistory ==
    ASSUME HistoryInv, now' \in Nat, taken' \in Nat, NextInArray \in Slots, NEW s \in Sample,
           array' = [array EXCEPT ![NextInArray] = s],
           \/ NextInArray' = AfterSlot(NextInArray) /\ samples' = Append(samples, s)
           \/ NextInArray' = NextInArray /\ samples' = samples
    PROVE  HistoryInv'
<1> USE DEF HistoryInv, HistoryType
<1>1. samples \in Seq(Sample)
  OBVIOUS
<1>2. NextInArray' \in Slots
  BY BackAfter, Constants
<1>3. array' \in [Slots -> Sample] /\ samples' \in Seq(Sample)
  BY <1>1
<1>4. ASSUME NEW k \in 1 .. MaxEnergy - 1, k <= Len(samples')
      PROVE  array'[Back(NextInArray', k)] = samples'[Len(samples') + 1 - k]
  <2>1. ASSUME NEW m \in 1 .. MaxEnergy - 1, m <= Len(samples)
        PROVE  array'[Back(NextInArray, m)] = samples[Len(samples) + 1 - m]
    <3>1. Back(NextInArray, m) \in Slots /\ Back(NextInArray, m) # NextInArray
      BY BackIs
    <3>2. array[Back(NextInArray, m)] = samples[Len(samples) + 1 - m]
      BY <2>1 DEF HistoryKeepsNewest, Back
    <3> QED BY <3>1, <3>2
  <2>2. CASE NextInArray' = NextInArray /\ samples' = samples
    BY <1>4, <2>1, <2>2
  <2>3. CASE NextInArray' = AfterSlot(NextInArray) /\ samples' = Append(samples, s)
    <3>1. Len(samples') = Len(samples) + 1 /\ Len(samples) \in Nat
      BY <1>1, <2>3
    <3>2. CASE k = 1
      <4>1. Back(NextInArray', k) = NextInArray
        BY <2>3, <3>2, BackAfter
      <4>2. samples'[Len(samples) + 1] = s
        BY <1>1, <2>3
      <4> QED BY <3>1, <3>2, <4>1, <4>2
    <3>3. CASE k # 1
      <4>1. k - 1 \in 1 .. MaxEnergy - 1 /\ k - 1 <= Len(samples)
        BY <1>4, <3>1, <3>3, Constants
      <4>2. Back(NextInArray', k) = Back(NextInArray, k - 1)
        BY <2>3, <3>3, BackAfter
      <4>3. array'[Back(NextInArray', k)] = samples[Len(samples) + 1 - (k - 1)]
        BY <2>1, <4>1, <4>2
      <4>4. /\ Len(samples) + 1 - (k - 1) = Len(samples') + 1 - k
            /\ Len(samples) + 1 - (k - 1) \in 1 .. Len(samples)
        BY <1>4, <3>1, <3>3, <4>1, Constants
      <4>5. samples'[Len(samples) + 1 - (k - 1)] = samples[Len(samples) + 1 - (k - 1)]
        BY <1>1, <2>3, <4>4
      <4> QED BY <4>3, <4>4, <4>5
    <3> QED BY <3>2, <3>3
  <2> QED BY <2>2, <2>3
<1> QED BY <1>2, <1>3, <1>4, WordsAre DEF HistoryKeepsNewest, Back

\* Without samples to keep there is nothing to lose.
LEMMA EmptyHistory ==
    ASSUME now' \in Nat, taken' \in Nat, NextInArray' \in Words, array' \in [Slots -> Sample],
           samples' \in Seq(Sample), Len(samples') = 0
    PROVE  HistoryInv'
<1>1. \A k \in 1 .. MaxEnergy - 1 : ~(k <= Len(samples'))
  OBVIOUS
<1> QED BY <1>1 DEF HistoryInv, HistoryType, HistoryKeepsNewest

\* All the history is cleared, or some of it.
LEMMA ClearedHistory ==
    ASSUME HistoryInv, now' \in Nat, taken' = taken, NextInArray \notin Slots, samples' = samples,
           NextInArray' \in Words, array' \in [Slots -> Sample]
    PROVE  HistoryInv'
BY EmptyHistory DEF HistoryInv, HistoryType

\* Power failures while a sample is added.
LEMMA CutHistory ==
    ASSUME HistoryInv, now' = now, AddingCut
    PROVE  HistoryInv'
<1>1. /\ now \in Nat /\ NextInArray \in Words /\ array \in [Slots -> Sample]
      /\ taken \in Nat /\ samples \in Seq(Sample)
  BY DEF HistoryInv, HistoryType
<1>2. CASE SampleCut
  <2>1. PICK time \in 0 .. now :
           array' = [array EXCEPT ![NextInArray] = [time |-> time, n |-> taken + 1]]
    BY <1>2 DEF SampleCut
  <2>2. PICK s : s = [time |-> time, n |-> taken + 1]
    OBVIOUS
  <2>3. s \in Sample
    <3>1. time \in Nat /\ taken + 1 \in Nat
      BY <1>1
    <3> QED BY <2>2, <3>1 DEF Sample
  <2>4. array' = [array EXCEPT ![NextInArray] = s]
    BY <2>1, <2>2, Zenon
  <2>5. /\ NextInArray \in Slots /\ taken' = taken + 1
        /\ NextInArray' = NextInArray /\ samples' = samples
    BY <1>2 DEF SampleCut
  <2>6. taken' \in Nat /\ now' \in Nat
    BY <1>1, <2>5
  <2> QED BY <2>3, <2>4, <2>5, <2>6, StoredHistory, Zenon
<1>3. CASE IndexCut
  <2>1. Newest \in Sample
    BY <1>1 DEF Newest, Sample
  <2>2. array' = [array EXCEPT ![NextInArray] = Newest] /\ NextInArray \in Slots /\ taken' \in Nat
    BY <1>1, <1>3 DEF IndexCut
  <2>3. CASE NextInArray' = NextInArray \/ NextInArray' = AfterSlot(NextInArray)
    <3>1. AfterSlot(NextInArray) # NextInArray
      BY <2>2, Constants DEF AfterSlot, Slots
    <3> QED BY <1>1, <1>3, <2>1, <2>2, <2>3, <3>1, StoredHistory DEF IndexCut
  <2>4. CASE ~(NextInArray' = NextInArray \/ NextInArray' = AfterSlot(NextInArray))
    <3>1. samples' = <<>>
      BY <1>3, <2>4 DEF IndexCut
    <3>2. samples' \in Seq(Sample) /\ Len(samples') = 0
      BY <3>1
    <3>3. NextInArray' \in Words
      BY <1>3, <2>2, WordsAre DEF IndexCut, OnTheWay
    <3>4. array' \in [Slots -> Sample]
      BY <1>1, <2>1, <2>2
    <3> QED BY <1>1, <2>2, <3>2, <3>3, <3>4, EmptyHistory
  <2> QED BY <2>3, <2>4
<1>4. CASE ClearingCut
  <2>1. NextInArray' \in Words
    BY <1>1, <1>4, WordsAre DEF ClearingCut
  <2>2. array' \in [Slots -> Sample]
    <3>1. CASE UNCHANGED array
      BY <1>1, <3>1
    <3>2. CASE ~UNCHANGED array
      <4>1. PICK s \in Slots : \E time \in 0 .. array[s].time :
               array' = [i \in Slots |-> IF i < s THEN Cleared
                                        ELSE IF i = s THEN [array[i] EXCEPT !.time = time]
                                        ELSE array[i]]
        BY <1>4, <3>2 DEF ClearingCut
      <4>2. array[s].time \in Nat /\ Cleared \in Sample
        BY <1>1 DEF Sample, Cleared
      <4>3. PICK time \in Nat :
               array' = [i \in Slots |-> IF i < s THEN Cleared
                                        ELSE IF i = s THEN [array[i] EXCEPT !.time = time]
                                        ELSE array[i]]
        BY <4>1, <4>2
      <4>4. \A i \in Slots : [array[i] EXCEPT !.time = time] \in Sample
        BY <1>1 DEF Sample
      <4> QED BY <1>1, <4>2, <4>3, <4>4
    <3> QED BY <3>1, <3>2
  <2> QED BY <1>1, <1>4, <2>1, <2>2, ClearedHistory DEF ClearingCut
<1> QED BY <1>2, <1>3, <1>4 DEF AddingCut

\* All but main_loop and power failures leave it alone.
LEMMA Untouched ==
    ASSUME now \in Nat, [Next]_vars, ~Loop, ~(Disturbance /\ PowerFails)
    PROVE  UNCHANGED historyVars /\ now' \in Nat
<1>1. CASE Line \/ SlowEnds \/ UNCHANGED vars
  BY <1>1 DEF Line, SlowEnds, vars, energyVars
<1>6. CASE DumpHangs
  BY <1>6 DEF DumpHangs, energyVars
<1>2. CASE TimePasses
  BY <1>2 DEF TimePasses, EnergyMinute
<1>3. CASE DumpsOn
  BY <1>3 DEF DumpsOn, DumpPacket
<1>4. CASE PrintEnds
  BY <1>4 DEF PrintEnds, PrintArray
<1>5. CASE Disturbance
  <2>1. CASE UNCHANGED energyVars
    BY <2>1 DEF energyVars
  <2>2. CASE DumpPacket(FALSE)
    BY <2>2 DEF DumpPacket
  <2>3. CASE SwitchRelay \/ StartDump \/ OtherDump \/ PrintArray
    BY <2>3 DEF SwitchRelay, StartDump, OtherDump, PrintArray
  <2> QED BY <1>5, <2>1, <2>2, <2>3 DEF Disturbance
<1> QED BY <1>1, <1>2, <1>3, <1>4, <1>5, <1>6 DEF Next

\* What Loop and power failures do to the history.
LEMMA LoopIs ==
    ASSUME Loop
    PROVE  /\ now' = now /\ UNCHANGED cursorVars
           /\ \/ UNCHANGED <<historyVars, dump>>
              \/ /\ NextInArray \in Slots
                 /\ array' = [array EXCEPT ![NextInArray] = Newest]
                 /\ NextInArray' = AfterSlot(NextInArray)
                 /\ taken' = taken + 1 /\ samples' = Append(samples, Newest)
                 /\ broken' = broken /\ dump' = [dump EXCEPT !.added = @ + 1]
              \/ /\ NextInArray \notin Slots
                 /\ array' = [i \in Slots |-> Cleared]
                 /\ NextInArray' = 0 /\ broken' = FALSE
                 /\ taken' = taken /\ samples' = samples
                 /\ dump' = [dump EXCEPT !.added = @ + 1]
<1>1. CASE Got = "current" /\ ~disable_add /\ SampleDue /\ old_minute # Minute
  BY <1>1 DEF Loop, AddCurrentEnergyInArray
<1>2. CASE ~(Got = "current" /\ ~disable_add /\ SampleDue /\ old_minute # Minute)
  BY <1>2 DEF Loop, AddCurrentEnergyInArray
<1>3. now' = now /\ UNCHANGED cursorVars
  BY DEF Loop
<1> QED BY <1>1, <1>2, <1>3

LEMMA StepHistory ==
    ASSUME HistoryInv, [Next]_vars
    PROVE  HistoryInv'
<1>1. now \in Nat
  BY DEF HistoryInv, HistoryType
<1>2. ASSUME UNCHANGED historyVars, now' \in Nat
      PROVE  HistoryInv'
  BY <1>2 DEF HistoryInv, HistoryType, HistoryKeepsNewest, historyVars
<1>3. CASE Loop
  <2>1. now' \in Nat /\ taken \in Nat /\ Newest \in Sample
    BY <1>1, <1>3, LoopIs DEF HistoryInv, HistoryType, Newest, Sample
  <2>2. CASE UNCHANGED historyVars
    BY <1>2, <2>1, <2>2
  <2>3. CASE /\ NextInArray \in Slots
             /\ array' = [array EXCEPT ![NextInArray] = Newest]
             /\ NextInArray' = AfterSlot(NextInArray)
             /\ taken' = taken + 1 /\ samples' = Append(samples, Newest)
    <3>1. PICK s \in Sample : s = Newest
      BY <2>1
    <3>2. taken' \in Nat
      BY <2>1, <2>3
    <3> QED BY <2>1, <2>3, <3>1, <3>2, StoredHistory
  <2>4. CASE /\ NextInArray \notin Slots /\ array' = [i \in Slots |-> Cleared]
             /\ NextInArray' = 0 /\ taken' = taken /\ samples' = samples
    <3>1. array' \in [Slots -> Sample] /\ NextInArray' \in Words
      BY <2>4, WordsAre DEF Cleared, Sample
    <3> QED BY <2>1, <2>4, <3>1, ClearedHistory
  <2> QED BY <1>3, <2>2, <2>3, <2>4, LoopIs
<1>4. CASE PowerFails
  <2>1. now' = now
    BY <1>4 DEF PowerFails, EnergyRestart
  <2> QED BY <1>1, <1>2, <1>4, <2>1, CutHistory DEF PowerFails
<1> QED BY <1>1, <1>2, <1>3, <1>4, Untouched

\* Whatever main_loop, clients and power failures do, the history holds the
\* newest of the samples that came since the index last lost its place
\* (AddCurrentEnergyInArray).
THEOREM NewestAreKept == Spec => []HistoryKeepsNewest
<1>1. Init => HistoryInv
  BY InitHistory DEF Init
<1>2. HistoryInv => HistoryKeepsNewest
  BY DEF HistoryInv
<1> QED BY <1>1, <1>2, StepHistory, PTL DEF Spec

-----------------------------------------------------------------------------
(* The Modbus master.                                                      *)

LEMMA Settings ==
    /\ Pieces \in Nat \ {0} /\ RingPieces \in Nat \ {0}
    /\ BufferPieces \in Nat \ {0} /\ WaitSeconds \in Nat \ {0}
  BY ModbusAssumption

\* What waits was never in the ring longer than the next request is off: it is
\* taken before, or the request gives it up.  In bufer it gets no older unless a
\* second passes over it.
Waiting ==
    /\ ~silent => \A i \in DOMAIN ring : ring[i].age = 0
    /\ \A i \in DOMAIN ring : wait_s + ring[i].age <= WaitSeconds
    /\ held \/ \A i \in DOMAIN bufer : bufer[i].age < WaitSeconds

ModbusInv ==
    /\ ModbusTypeOK
    /\ ~ena_protokol => bufer = <<>>
    /\ \A i \in DOMAIN meter : meter[i].age = 0
    /\ overrun \/ Waiting

LEMMA PieceTypes ==
    /\ \A kind \in Kinds : Answer(kind) \in Seq(PieceType)
    /\ \A kind \in Kinds : \A i \in DOMAIN Answer(kind) : Answer(kind)[i].age = 0
    /\ Noise \in PieceType /\ Noise.age = 0
  BY Settings DEF Answer, Piece, Noise, PieceType

LEMMA InitModbus ==
    ASSUME ModbusInit
    PROVE  ModbusInv
<1>1. /\ {meter, ring, bufer} \subseteq Seq(PieceType)
      /\ Len(ring) = 0 /\ Len(bufer) = 0 /\ meter = <<>> /\ ring = <<>> /\ bufer = <<>>
  BY DEF ModbusInit
<1>2. {enabled, silent, ena_protokol, overrun, held} \subseteq BOOLEAN
  BY Zenon DEF ModbusInit
<1>3. /\ wait_s \in 0 .. WaitSeconds /\ fl_odd \in 0 .. 1 /\ stored = "nothing"
      /\ ~overrun
  BY Settings DEF ModbusInit
<1> QED BY <1>1, <1>2, <1>3, Settings DEF ModbusInv, ModbusTypeOK, Waiting

\* What MODBUS_Master_Loop leaves, case by case.
LEMMA TakenIs ==
    /\ ring = <<>> =>
          /\ Taken.ring = ring
          /\ IF ena_protokol /\ silent THEN Taken.bufer = <<>> /\ Taken.ena = FALSE
             ELSE Taken.bufer = bufer /\ Taken.ena = ena_protokol
          /\ Taken.silent = silent
    /\ ring # <<>> /\ ~ena_protokol /\ ~silent =>
          /\ Taken.ring = Tail(ring) /\ Taken.bufer = bufer
          /\ Taken.ena = ena_protokol /\ Taken.silent = silent
    /\ ring # <<>> /\ (ena_protokol \/ silent) /\ Len(ring) <= BufferPieces - Len(bufer) =>
          /\ Taken.ring = <<>> /\ Taken.bufer = bufer \o ring
          /\ Taken.ena = TRUE /\ Taken.silent = FALSE
    /\ ring # <<>> /\ (ena_protokol \/ silent) /\ ~(Len(ring) <= BufferPieces - Len(bufer)) =>
          /\ Taken.ring = SubSeq(ring, BufferPieces - Len(bufer) + 2, Len(ring))
          /\ Taken.bufer = <<>> /\ Taken.ena = FALSE /\ Taken.silent = FALSE
  BY DEF Taken

LEMMA Buffers ==
    ASSUME ModbusInv
    PROVE  /\ ring \in Seq(PieceType) /\ Len(ring) \in Nat /\ Len(ring) <= RingPieces
           /\ bufer \in Seq(PieceType) /\ Len(bufer) \in Nat /\ Len(bufer) <= BufferPieces
           /\ meter \in Seq(PieceType)
           /\ BufferPieces \in Nat /\ RingPieces \in Nat /\ WaitSeconds \in Nat
           /\ ena_protokol \in BOOLEAN /\ silent \in BOOLEAN /\ wait_s \in 0 .. WaitSeconds
           /\ ~ena_protokol => bufer = <<>>
  BY Settings DEF ModbusInv, ModbusTypeOK

LEMMA TakenFlags ==
    ASSUME ModbusInv
    PROVE  /\ Taken.ena \in BOOLEAN /\ Taken.silent \in BOOLEAN
           /\ ~Taken.ena => Taken.bufer = <<>>
<1>1. ena_protokol \in BOOLEAN /\ silent \in BOOLEAN /\ (~ena_protokol => bufer = <<>>)
  BY Buffers
<1>2. CASE ring = <<>>
  BY <1>1, <1>2, TakenIs, Zenon
<1>3. CASE ring # <<>> /\ ~ena_protokol /\ ~silent
  BY <1>1, <1>3, TakenIs, Zenon
<1>4. CASE ring # <<>> /\ (ena_protokol \/ silent) /\ Len(ring) <= BufferPieces - Len(bufer)
  BY <1>1, <1>4, TakenIs, Zenon
<1>5. CASE ring # <<>> /\ (ena_protokol \/ silent) /\ ~(Len(ring) <= BufferPieces - Len(bufer))
  BY <1>1, <1>5, TakenIs, Zenon
<1> QED BY <1>1, <1>2, <1>3, <1>4, <1>5, Zenon

LEMMA TakenType ==
    ASSUME ModbusInv
    PROVE  /\ Taken.ring \in Seq(PieceType) /\ Len(Taken.ring) <= RingPieces
           /\ Taken.bufer \in Seq(PieceType) /\ Len(Taken.bufer) <= BufferPieces
<1>n. Len(<<>>) = 0 /\ <<>> \in Seq(PieceType)
  OBVIOUS
<1>1. CASE ring = <<>>
  <2>1. Taken.ring = ring /\ (Taken.bufer = bufer \/ Taken.bufer = <<>>)
    BY <1>1, TakenIs, Zenon
  <2>2. Taken.ring \in Seq(PieceType) /\ Len(Taken.ring) <= RingPieces
    BY <2>1, Buffers
  <2>3. CASE Taken.bufer = bufer
    BY <2>2, <2>3, Buffers
  <2>4. CASE Taken.bufer = <<>>
    <3>1. Taken.bufer \in Seq(PieceType) /\ Len(Taken.bufer) = 0
      BY <1>n, <2>4, Zenon
    <3> QED BY <2>2, <3>1, Buffers
  <2> QED BY <2>1, <2>3, <2>4
<1>2. CASE ring # <<>> /\ ~ena_protokol /\ ~silent
  <2>1. Taken.ring = Tail(ring) /\ Taken.bufer = bufer
    BY <1>2, TakenIs, Zenon
  <2>2. Tail(ring) \in Seq(PieceType) /\ Len(Tail(ring)) <= Len(ring)
    BY <1>2, Buffers
  <2> QED BY <2>1, <2>2, Buffers
<1>3. CASE ring # <<>> /\ (ena_protokol \/ silent) /\ Len(ring) <= BufferPieces - Len(bufer)
  <2>1. Taken.ring = <<>> /\ Taken.bufer = bufer \o ring
    BY <1>3, TakenIs, Zenon
  <2>2. bufer \o ring \in Seq(PieceType) /\ Len(bufer \o ring) = Len(bufer) + Len(ring)
    BY Buffers
  <2> QED BY <1>n, <1>3, <2>1, <2>2, Buffers
<1>4. CASE ring # <<>> /\ (ena_protokol \/ silent) /\ ~(Len(ring) <= BufferPieces - Len(bufer))
  <2>1. PICK n \in Nat : n = BufferPieces - Len(bufer) + 2
    BY Buffers
  <2>2. Taken.ring = SubSeq(ring, n, Len(ring)) /\ Taken.bufer = <<>>
    BY <1>4, <2>1, TakenIs, Zenon
  <2>3. /\ SubSeq(ring, n, Len(ring)) \in Seq(PieceType)
        /\ Len(SubSeq(ring, n, Len(ring))) <= Len(ring)
    BY <2>1, Buffers
  <2> QED BY <1>n, <2>2, <2>3, Buffers
<1> QED BY <1>1, <1>2, <1>3, <1>4

\* Without an overrun, what it leaves in the ring came just now, and what it
\* takes waited for less than the time between two requests.
LEMMA TakenFresh ==
    ASSUME ModbusInv, ~overrun, ~Outgrown
    PROVE  /\ \A i \in DOMAIN Taken.ring : Taken.ring[i].age = 0
           /\ wait_s # 0 => held \/ \A i \in DOMAIN Taken.bufer : Taken.bufer[i].age < WaitSeconds
<1>1. CASE ring = <<>>
  BY <1>1, Buffers, TakenIs DEF ModbusInv, Waiting
<1>2. CASE ring # <<>> /\ ~ena_protokol /\ ~silent
  <2>1. Taken.ring = Tail(ring) /\ Taken.bufer = bufer
    BY <1>2, TakenIs
  <2>2. \A i \in DOMAIN Tail(ring) : i + 1 \in DOMAIN ring /\ Tail(ring)[i] = ring[i + 1]
    BY <1>2, Buffers
  <2> QED BY <1>2, <2>1, <2>2 DEF ModbusInv, Waiting
<1>3. CASE ring # <<>> /\ (ena_protokol \/ silent)
  <2>1. Taken.ring = <<>> /\ Taken.bufer = bufer \o ring
    BY <1>3, Buffers, TakenIs DEF Outgrown
  <2>2. ASSUME NEW i \in DOMAIN (bufer \o ring), wait_s # 0, ~held
        PROVE  (bufer \o ring)[i].age < WaitSeconds
    <3>1. i \in 1 .. Len(bufer) + Len(ring)
      BY Buffers
    <3>2. CASE i <= Len(bufer)
      <4>1. (bufer \o ring)[i] = bufer[i] /\ i \in DOMAIN bufer
        BY <3>1, <3>2, Buffers
      <4>2. bufer[i].age < WaitSeconds
        BY <2>2, <4>1 DEF ModbusInv, Waiting
      <4> QED BY <4>1, <4>2, Zenon
    <3>3. CASE i > Len(bufer)
      <4>1. PICK j \in DOMAIN ring : (bufer \o ring)[i] = ring[j]
        BY <3>1, <3>3, Buffers
      <4>2. ring[j] \in PieceType
        BY Buffers
      <4>3. ring[j].age \in Nat /\ wait_s + ring[j].age <= WaitSeconds
        BY <4>2 DEF PieceType, ModbusInv, Waiting
      <4> QED BY <2>2, <4>1, <4>3, Buffers
    <3> QED BY <3>1, <3>2, <3>3, Buffers
  <2> QED BY <2>1, <2>2
<1> QED BY <1>1, <1>2, <1>3, Buffers

-----------------------------------------------------------------------------
(* The steps of the Modbus master, its line and its timers.                *)

LEMMA LoopModbus ==
    ASSUME ModbusInv, ENERGY_METER_Loop
    PROVE  ModbusInv'
<1>1. ring' = Taken.ring /\ silent' = Taken.silent /\ enabled' = enabled
  BY DEF ENERGY_METER_Loop
<1>2. /\ wait_s = 0 => /\ wait_s' = WaitSeconds /\ fl_odd' = 1 - fl_odd
                       /\ ena_protokol' = FALSE /\ bufer' = <<>>
      /\ wait_s # 0 => /\ wait_s' = wait_s /\ fl_odd' = fl_odd /\ meter' = meter
                       /\ ena_protokol' = Taken.ena /\ bufer' = Taken.bufer
  BY DEF ENERGY_METER_Loop, NextOdd, AfterSend
<1>3. meter' = meter \/ \E kind \in Kinds : meter' = Answer(kind)
  BY DEF ENERGY_METER_Loop, Kinds
<1>4. Len(<<>>) = 0 /\ <<>> \in Seq(PieceType) /\ DOMAIN <<>> = {}
  OBVIOUS
<1>5. /\ ring' \in Seq(PieceType) /\ Len(ring') <= RingPieces
      /\ bufer' \in Seq(PieceType) /\ Len(bufer') <= BufferPieces
  <2>1. ring' \in Seq(PieceType) /\ Len(ring') <= RingPieces
    BY <1>1, TakenType, Zenon
  <2>2. CASE bufer' = <<>>
    <3>1. bufer' \in Seq(PieceType) /\ Len(bufer') = 0
      BY <1>4, <2>2, Zenon
    <3> QED BY <2>1, <3>1, Settings
  <2>3. CASE bufer' = Taken.bufer
    BY <2>1, <2>3, TakenType, Zenon
  <2> QED BY <1>2, <2>2, <2>3
<1>6. /\ {enabled', silent', ena_protokol', overrun', held'} \subseteq BOOLEAN
      /\ ~ena_protokol' => bufer' = <<>>
  <2>1. enabled \in BOOLEAN /\ overrun' \in BOOLEAN /\ held' \in BOOLEAN
    BY DEF ModbusInv, ModbusTypeOK, ENERGY_METER_Loop
  <2> QED BY <1>1, <1>2, <2>1, TakenFlags, Zenon
<1>7. wait_s' \in 0 .. WaitSeconds /\ fl_odd' \in 0 .. 1
  BY <1>2, Settings DEF ModbusInv, ModbusTypeOK
<1>8. stored' \in Kinds \cup {"nothing"}
  <2>1. Got \in Kinds \cup {"nothing"}
    BY DEF Got
  <2> QED BY <2>1 DEF ENERGY_METER_Loop, ModbusInv, ModbusTypeOK
<1>9. meter' \in Seq(PieceType) /\ \A i \in DOMAIN meter' : meter'[i].age = 0
  BY <1>3, PieceTypes DEF ModbusInv, ModbusTypeOK
<1>10. overrun' \/ Waiting'
  <2> SUFFICES ASSUME ~overrun'
               PROVE  Waiting'
    OBVIOUS
  <2>1. CASE ring' = <<>> /\ bufer' = <<>>
    BY <1>4, <2>1 DEF Waiting
  <2>2. CASE ~overrun /\ ~Outgrown
    <3>1. \A i \in DOMAIN ring' : ring'[i].age = 0
      BY <1>1, <2>2, TakenFresh
    <3>2. held' \/ \A i \in DOMAIN bufer' : bufer'[i].age < WaitSeconds
      <4>1. CASE bufer' = <<>>
        BY <1>4, <4>1
      <4>2. CASE bufer' # <<>>
        <5>1. held' <=> held
          BY <4>2 DEF ENERGY_METER_Loop
        <5>2. wait_s # 0 /\ bufer' = Taken.bufer
          BY <1>2, <4>2
        <5> QED BY <2>2, <5>1, <5>2, TakenFresh
      <4> QED BY <4>1, <4>2
    <3> QED BY <1>7, <3>1, <3>2, Settings DEF Waiting
  <2> QED BY <2>1, <2>2 DEF ENERGY_METER_Loop
<1> QED BY <1>5, <1>6, <1>7, <1>8, <1>9, <1>10 DEF ModbusInv, ModbusTypeOK

LEMMA ArrivesModbus ==
    ASSUME ModbusInv, Arrives \/ NoiseArrives
    PROVE  ModbusInv'
<1>1. PICK piece \in {p \in PieceType : p.age = 0} :
          \/ ring' = Append(ring, piece) /\ Len(ring) < RingPieces
          \/ ring' = ring
  <2>1. CASE Arrives
    <3>1. Head(meter) \in PieceType /\ Head(meter).age = 0
      BY <2>1, Buffers DEF Arrives, ModbusInv
    <3> QED BY <2>1, <3>1 DEF Arrives
  <2>2. CASE NoiseArrives
    BY <2>2, PieceTypes DEF NoiseArrives
  <2> QED BY <2>1, <2>2
<1>2. meter' \in Seq(PieceType) /\ \A i \in DOMAIN meter' : meter'[i].age = 0
  <2>1. CASE Arrives
    <3>1. Tail(meter) \in Seq(PieceType)
      BY <2>1, Buffers DEF Arrives
    <3>2. \A i \in DOMAIN Tail(meter) : i + 1 \in DOMAIN meter /\ Tail(meter)[i] = meter[i + 1]
      BY <2>1, Buffers DEF Arrives
    <3> QED BY <2>1, <3>1, <3>2 DEF Arrives, ModbusInv
  <2>2. CASE NoiseArrives
    BY <2>2 DEF NoiseArrives, ModbusInv, ModbusTypeOK
  <2> QED BY <2>1, <2>2
<1>3. UNCHANGED <<enabled, wait_s, fl_odd, silent, ena_protokol, bufer, stored, overrun, held>>
  BY DEF Arrives, NoiseArrives
<1>4. ring' \in Seq(PieceType) /\ Len(ring') <= RingPieces
  BY <1>1, Buffers
<1>5. Waiting => Waiting'
  <2>1. ASSUME Waiting, NEW i \in DOMAIN ring'
        PROVE  /\ ~silent => ring'[i].age = 0
               /\ wait_s + ring'[i].age <= WaitSeconds
    <3>1. CASE i \in DOMAIN ring /\ ring'[i] = ring[i]
      BY <2>1, <3>1 DEF Waiting
    <3>2. CASE ring'[i] = piece
      <4>1. ring'[i].age = 0
        BY <3>2
      <4> QED BY <4>1, Buffers
    <3>3. (i \in DOMAIN ring /\ ring'[i] = ring[i]) \/ ring'[i] = piece
      <4>1. CASE ring' = ring
        BY <2>1, <4>1
      <4>2. CASE ring' = Append(ring, piece)
        <5>1. DOMAIN ring = 1 .. Len(ring) /\ i \in 1 .. Len(ring) + 1
          BY <2>1, <4>2, Buffers
        <5>2. \A j \in 1 .. Len(ring) + 1 :
                 Append(ring, piece)[j] = IF j <= Len(ring) THEN ring[j] ELSE piece
          BY Buffers
        <5> QED BY <4>2, <5>1, <5>2, Buffers
      <4> QED BY <1>1, <4>1, <4>2
    <3> QED BY <3>1, <3>2, <3>3
  <2> QED BY <1>3, <2>1 DEF Waiting
<1> QED BY <1>2, <1>3, <1>4, <1>5 DEF ModbusInv, ModbusTypeOK

LEMMA SecondModbus ==
    ASSUME ModbusInv, Second
    PROVE  ModbusInv'
<1>1. /\ ring' \in Seq(PieceType) /\ Len(ring') = Len(ring)
      /\ \A i \in DOMAIN ring' :
            /\ i \in DOMAIN ring /\ ring[i].age \in 0 .. WaitSeconds
            /\ ring'[i].age = IF ring[i].age < WaitSeconds THEN ring[i].age + 1
                              ELSE ring[i].age
  <2>1. \A p \in PieceType : /\ Older(p) \in PieceType /\ p.age \in 0 .. WaitSeconds
                             /\ Older(p).age = IF p.age < WaitSeconds THEN p.age + 1 ELSE p.age
    BY Settings DEF Older, PieceType
  <2>2. ring' = [i \in 1 .. Len(ring) |-> Older(ring[i])]
    BY DEF Second
  <2>3. \A i \in 1 .. Len(ring) : ring[i] \in PieceType
    BY Buffers
  <2> QED BY <2>1, <2>2, <2>3, Buffers
<1>2. wait_s' = (IF wait_s > 0 THEN wait_s - 1 ELSE 0) /\ silent' = TRUE
  BY DEF Second
<1>3. UNCHANGED <<enabled, fl_odd, meter, ena_protokol, stored, overrun>>
  BY DEF Second
<1>6. /\ bufer' \in Seq(PieceType) /\ Len(bufer') = Len(bufer)
      /\ bufer = <<>> => bufer' = <<>>
  <2>1. \A p \in PieceType : Older(p) \in PieceType
    BY Settings DEF Older, PieceType
  <2>2. bufer' = [i \in 1 .. Len(bufer) |-> Older(bufer[i])]
    BY DEF Second
  <2>3. \A i \in 1 .. Len(bufer) : bufer[i] \in PieceType
    BY Buffers
  <2> QED BY <2>1, <2>2, <2>3, Buffers
<1>7. held' \in BOOLEAN /\ (held' \/ bufer' = <<>>)
  BY <1>6 DEF Second
<1>4. Waiting => Waiting'
  <2>1. ASSUME Waiting, NEW i \in DOMAIN ring'
        PROVE  wait_s' + ring'[i].age <= WaitSeconds
    <3>1. PICK a \in 0 .. WaitSeconds :
             /\ wait_s + a <= WaitSeconds
             /\ ring'[i].age = IF a < WaitSeconds THEN a + 1 ELSE a
      BY <1>1, <2>1 DEF Waiting
    <3> QED BY <1>2, <3>1, Buffers
  <2>2. held' \/ \A i \in DOMAIN bufer' : bufer'[i].age < WaitSeconds
    BY <1>7
  <2> QED BY <1>2, <1>3, <2>1, <2>2 DEF Waiting
<1>5. wait_s' \in 0 .. WaitSeconds
  BY <1>2, Buffers
<1> QED BY <1>1, <1>2, <1>3, <1>4, <1>5, <1>6, <1>7, Buffers DEF ModbusInv, ModbusTypeOK

\* The other steps neither add to the ring nor make anything older.
LEMMA OtherModbus ==
    ASSUME ModbusInv, Silence \/ LoseBytes \/ SetEnabled \/ ModbusRestart \/ UNCHANGED modbusVars
    PROVE  ModbusInv'
<1>1. CASE Silence
  <2>1. silent' = TRUE
    BY <1>1 DEF Silence
  <2>2. UNCHANGED <<enabled, wait_s, fl_odd, meter, ring, ena_protokol, bufer, stored, overrun, held>>
    BY <1>1 DEF Silence
  <2>3. Waiting => Waiting'
    BY <2>1, <2>2 DEF Waiting
  <2> QED BY <2>1, <2>2, <2>3 DEF ModbusInv, ModbusTypeOK
<1>2. CASE LoseBytes
  <2>1. UNCHANGED <<enabled, wait_s, fl_odd, ring, silent, ena_protokol, bufer, stored, overrun, held>>
    BY <1>2 DEF LoseBytes
  <2>2. meter' \in Seq(PieceType) /\ \A i \in DOMAIN meter' : meter'[i].age = 0
    <3>1. CASE meter' = <<>>
      BY <3>1
    <3>2. CASE meter' = Tail(meter)
      <4>1. Tail(meter) \in Seq(PieceType)
        BY <1>2, Buffers DEF LoseBytes
      <4>2. \A i \in DOMAIN Tail(meter) :
               i + 1 \in DOMAIN meter /\ Tail(meter)[i] = meter[i + 1]
        BY <1>2, Buffers DEF LoseBytes
      <4> QED BY <3>2, <4>1, <4>2 DEF ModbusInv
    <3> QED BY <1>2, <3>1, <3>2 DEF LoseBytes
  <2>3. Waiting => Waiting'
    BY <2>1 DEF Waiting
  <2> QED BY <2>1, <2>2, <2>3 DEF ModbusInv, ModbusTypeOK
<1>3. CASE SetEnabled
  <2>1. UNCHANGED <<wait_s, fl_odd, meter, ring, silent, ena_protokol, bufer, stored, overrun, held>>
    BY <1>3 DEF SetEnabled
  <2>2. enabled' \in BOOLEAN
    BY <1>3 DEF SetEnabled
  <2>3. Waiting => Waiting'
    BY <2>1 DEF Waiting
  <2> QED BY <2>1, <2>2, <2>3 DEF ModbusInv, ModbusTypeOK
<1>4. CASE ModbusRestart
  <2>1. /\ meter' = <<>> /\ ring' = <<>> /\ bufer' = <<>>
        /\ Len(ring') = 0 /\ Len(bufer') = 0
        /\ {meter', ring', bufer'} \subseteq Seq(PieceType)
    BY <1>4 DEF ModbusRestart
  <2>2. {enabled', silent', ena_protokol', overrun', held'} \subseteq BOOLEAN
    <3>1. enabled \in BOOLEAN
      BY DEF ModbusInv, ModbusTypeOK
    <3> QED BY <1>4, <3>1, Zenon DEF ModbusRestart
  <2>3. wait_s' \in 0 .. WaitSeconds /\ fl_odd' \in 0 .. 1 /\ stored' = "nothing"
    BY <1>4, Settings DEF ModbusRestart
  <2> QED BY <2>1, <2>2, <2>3, Settings DEF ModbusInv, ModbusTypeOK, Waiting
<1>5. CASE UNCHANGED modbusVars
  BY <1>5 DEF modbusVars, ModbusInv, ModbusTypeOK, Waiting
<1> QED BY <1>1, <1>2, <1>3, <1>4, <1>5

LEMMA StepModbus ==
    ASSUME ModbusInv, [Next]_vars
    PROVE  ModbusInv'
<1>1. CASE Loop
  BY <1>1, LoopModbus DEF Loop
<1>2. CASE Line
  BY <1>2, ArrivesModbus, OtherModbus, SecondModbus DEF Line, SecondPasses
<1>3. CASE TimePasses
  BY <1>3, SecondModbus DEF TimePasses, SecondPasses
<1>4. CASE DumpsOn \/ DumpHangs \/ SlowEnds \/ PrintEnds \/ UNCHANGED vars
  BY <1>4, OtherModbus DEF DumpsOn, DumpHangs, SlowEnds, PrintEnds, vars
<1>5. CASE Disturbance
  BY <1>5, ArrivesModbus, OtherModbus DEF Disturbance, PowerFails
<1> QED BY <1>1, <1>2, <1>3, <1>4, <1>5 DEF Next

LEMMA ModbusInvariance == Spec => []ModbusInv
<1>1. Init => ModbusInv
  BY InitModbus DEF Init
<1> QED BY <1>1, StepModbus, PTL DEF Spec

\* What MODBUS_Master_Loop hands over never waited, in the ring and in bufer, for
\* as long as from one request to the next, unless a frame outgrew bufer, or was
\* in bufer when the metering was switched off or main_loop was held up.
THEOREM StoredAreFresh == Spec => []StoredFresh
<1>1. ModbusInv => StoredFresh
  <2> SUFFICES ASSUME ModbusInv, ~overrun, ~held, NEW p \in Range(bufer)
               PROVE  p.age < WaitSeconds
    BY DEF StoredFresh
  <2> QED BY DEF ModbusInv, Waiting, Range
<1> QED BY <1>1, ModbusInvariance, PTL

-----------------------------------------------------------------------------
(* The cursor of the dump.                                                 *)

Cursors == [i : Slots, flag : BOOLEAN, next : Words]

\* A bounded set of numbers that is not empty has a greatest element.
LEMMA GreatestOf ==
    ASSUME NEW n \in Nat, NEW T \in SUBSET (0 .. n), T # {}
    PROVE  \E m \in T : \A k \in T : k <= m
<1> DEFINE D == {d \in Nat : n - d \in T}
<1>1. D \subseteq Nat /\ D # {}
  <2>1. PICK k \in T : k \in 0 .. n
    OBVIOUS
  <2>2. n - k \in Nat /\ n - (n - k) = k
    BY <2>1
  <2>3. n - k \in D
    BY <2>2
  <2> QED BY <2>3
<1>2. PICK d \in D : \A e \in D : <<e, d>> \notin OpToRel(<, Nat)
  BY <1>1, WFMin, NatLessThanWellFounded, Zenon
<1>3. \A e \in D : ~(e < d)
  BY <1>1, <1>2, Zenon DEF OpToRel
<1>4. ASSUME NEW k \in T
      PROVE  k <= n - d
  <2>1. k \in 0 .. n /\ n - k \in Nat /\ n - (n - k) = k
    OBVIOUS
  <2>2. n - k \in D
    BY <2>1
  <2> QED BY <1>3, <2>1, <2>2
<1> QED BY <1>4

LEMMA StepsLeftType ==
    ASSUME NEW c \in Cursors
    PROVE  /\ StepsLeft(c) \in Nat
           /\ c.next \in Slots =>
                 /\ c.flag => StepsLeft(c) = MaxEnergy - c.i + c.next
                 /\ ~c.flag => StepsLeft(c) = IF c.i < c.next THEN c.next - c.i ELSE 0
<1>1. CASE c.next \in Slots
  BY <1>1, Constants DEF StepsLeft, Cursors, Slots
<1>2. CASE c.next \notin Slots
  <2>1. StepsLeft(c) = MaxEnergy * PacketSamples
    BY <1>2 DEF StepsLeft
  <2>2. MaxEnergy * PacketSamples \in Nat
    BY EnergyArrayAssumption
  <2> QED BY <1>2, <2>1, <2>2
<1> QED BY <1>1, <1>2

LEMMA SlotAfterType ==
    ASSUME NEW c \in Cursors, NEW k \in Nat
    PROVE  SlotAfter(c, k) \in Slots
<1>1. PICK n \in Nat : n = c.i + k
  BY DEF Cursors, Slots
<1>2. n % MaxEnergy \in 0 .. MaxEnergy - 1
  <2>1. MaxEnergy \in Nat /\ MaxEnergy > 0
    BY Constants
  <2> QED BY <2>1, Divided, Zenon
<1> QED BY <1>1, <1>2 DEF SlotAfter, Slots

LEMMA MovedType ==
    ASSUME NEW c \in Cursors, NEW k \in Nat
    PROVE  /\ Moved(c, k) \in Cursors
           /\ Moved(c, k).i = SlotAfter(c, k) /\ Moved(c, k).next = c.next
           /\ Moved(c, k).flag <=> (c.flag /\ c.i + k < MaxEnergy)
<1>1. Moved(c, k) = [i |-> SlotAfter(c, k), flag |-> c.flag /\ c.i + k < MaxEnergy,
                     next |-> c.next]
  BY DEF Moved
<1>2. (c.flag /\ c.i + k < MaxEnergy) \in BOOLEAN
  BY Zenon
<1>3. c.next \in Words /\ SlotAfter(c, k) \in Slots
  BY SlotAfterType DEF Cursors
<1>4. Moved(c, k) \in Cursors
  BY <1>1, <1>2, <1>3 DEF Cursors
<1>5. Moved(c, k).i = SlotAfter(c, k) /\ Moved(c, k).next = c.next
  BY <1>1
<1>6. Moved(c, k).flag = (c.flag /\ c.i + k < MaxEnergy)
  <2>1. ASSUME NEW i, NEW f, NEW n
        PROVE  [i |-> i, flag |-> f, next |-> n].flag = f
    OBVIOUS
  <2> QED BY <1>1, <2>1, Zenon
<1> QED BY <1>4, <1>5, <1>6, Zenon

\* A packet goes some of the steps that are left, and at least one if there is one.
LEMMA PacketIs ==
    ASSUME NEW c \in Cursors, NEW range
    PROVE  \E k \in 0 .. StepsLeft(c) :
              /\ Packet(c, range) = [sent |-> Sent(c, range, k), cursor |-> Moved(c, k)]
              /\ k = 0 => StepsLeft(c) = 0
<1> DEFINE fits == {m \in 0 .. StepsLeft(c) :
                      m > 0 => Cardinality(Sent(c, range, m - 1)) < PacketSamples}
<1>1. StepsLeft(c) \in Nat
  BY StepsLeftType
<1>2. 0 \in fits
  BY <1>1
<1>3. StepsLeft(c) > 0 => 1 \in fits
  <2>1. Sent(c, range, 1 - 1) = {}
    BY DEF Sent
  <2>2. Cardinality(Sent(c, range, 1 - 1)) < PacketSamples
    BY <2>1, FS_EmptySet, EnergyArrayAssumption
  <2> QED BY <1>1, <2>2
<1>4. fits \in SUBSET (0 .. StepsLeft(c))
  OBVIOUS
<1>5. Packet(c, range) = [sent |-> Sent(c, range, Max(fits)), cursor |-> Moved(c, Max(fits))]
  BY DEF Packet
<1> HIDE DEF fits
<1>6. Max(fits) \in fits /\ \A m \in fits : m <= Max(fits)
  <2>1. \E k \in fits : \A m \in fits : m <= k
    BY <1>1, <1>2, <1>4, GreatestOf
  <2>2. \E k \in fits : \A m \in fits : k >= m
    BY <1>1, <1>4, <2>1
  <2>3. Max(fits) \in fits /\ \A m \in fits : Max(fits) >= m
    BY <2>2, Zenon DEF Max
  <2> QED BY <1>1, <1>4, <2>3
<1>7. Max(fits) = 0 => StepsLeft(c) = 0
  BY <1>1, <1>3, <1>4, <1>6
<1> QED BY <1>4, <1>5, <1>6, <1>7

LEMMA PacketType ==
    ASSUME NEW c \in Cursors, NEW range
    PROVE  Packet(c, range).cursor \in Cursors
<1>1. PICK k \in 0 .. StepsLeft(c) :
         Packet(c, range) = [sent |-> Sent(c, range, k), cursor |-> Moved(c, k)]
  BY PacketIs
<1>2. k \in Nat
  BY StepsLeftType
<1> QED BY <1>1, <1>2, MovedType

LEMMA CursorsAre ==
    ASSUME EnergyTypeOK
    PROVE  Restarted \in Cursors /\ Continued \in Cursors
<1>1. /\ NextInArray \in Words /\ i_array \in Slots /\ NextAtStart \in Words
      /\ 0 \in Slots /\ flag_arrray \in BOOLEAN
  BY Constants DEF EnergyTypeOK, Slots
<1>2. PICK wrapped \in BOOLEAN : wrapped = (NextInArray \in Slots /\ array[NextInArray].time # 0)
  BY Zenon
<1>3. PICK i \in Slots : i = IF wrapped THEN NextInArray ELSE 0
  BY <1>1, <1>2
<1>4. Restarted = [i |-> i, flag |-> wrapped, next |-> NextInArray]
  BY <1>2, <1>3, Zenon DEF Restarted
<1>5. Restarted \in Cursors
  BY <1>1, <1>4 DEF Cursors
<1>6. Continued = [i |-> i_array, flag |-> flag_arrray, next |-> NextAtStart]
  BY DEF Continued, Cursor
<1> QED BY <1>1, <1>5, <1>6 DEF Cursors

-----------------------------------------------------------------------------
(* The types of the energy history.                                        *)

CursorType == i_array \in Slots /\ NextAtStart \in Words /\ flag_arrray \in BOOLEAN

LEMMA InitEnergy ==
    ASSUME EnergyInit
    PROVE  EnergyTypeOK
<1>1. HistoryType
  BY InitHistory DEF HistoryInv
<1>2. /\ relay_on \in BOOLEAN /\ disable_add = FALSE /\ flag_arrray = FALSE
      /\ i_array = 0 /\ NextAtStart = 0 /\ old_minute = NoMinute
  BY DEF EnergyInit
<1>3. 0 \in Slots /\ 0 \in Words /\ NoMinute \in 0 .. NoMinute
  BY Constants, WordsAre DEF NoMinute
<1>4. {relay_on, disable_add, flag_arrray, broken} \subseteq BOOLEAN
  <2>1. broken = FALSE
    BY DEF EnergyInit
  <2> QED BY <1>2, <2>1, Zenon
<1> QED BY <1>1, <1>2, <1>3, <1>4 DEF EnergyTypeOK, HistoryType

\* What the step does to the variables the history does not consist of.
LEMMA StepCursor ==
    ASSUME EnergyTypeOK, [Next]_vars
    PROVE  CursorType'
<1>1. CursorType /\ 0 \in Slots /\ 0 \in Words
  BY WordsAre DEF CursorType, EnergyTypeOK
<1>2. ASSUME NEW c \in {Restarted, Continued}, NEW range,
             SetCursor(Packet(c, range).cursor)
      PROVE  CursorType'
  <2>1. Packet(c, range).cursor \in Cursors
    BY <1>2, CursorsAre, PacketType
  <2>2. PICK p \in Cursors : p = Packet(c, range).cursor
    BY <2>1
  <2>3. i_array' = p.i /\ flag_arrray' = p.flag /\ NextAtStart' = p.next
    BY <1>2, <2>2, Zenon DEF SetCursor
  <2>4. p.i \in Slots /\ p.next \in Words /\ p.flag \in BOOLEAN
    BY DEF Cursors
  <2> QED BY <2>3, <2>4, Zenon DEF CursorType
<1>3. ASSUME NEW answered, DumpPacket(answered)
      PROVE  CursorType'
  <2>1. PICK c \in {Restarted, Continued} : SetCursor(Packet(c, dump.range).cursor)
    BY <1>3 DEF DumpPacket, Asked
  <2> QED BY <1>2, <2>1
<1>4. CASE UNCHANGED cursorVars
  BY <1>1, <1>4 DEF cursorVars, CursorType
<1>5. CASE Loop \/ Line \/ TimePasses \/ DumpHangs \/ SlowEnds \/ PrintEnds \/ UNCHANGED vars
  BY <1>4, <1>5 DEF Loop, Line, TimePasses, DumpHangs, SlowEnds, PrintEnds, EnergyMinute,
                    PrintArray, vars, energyVars
<1>6. CASE DumpsOn
  BY <1>3, <1>6 DEF DumpsOn
<1>7. CASE Disturbance
  <2>1. CASE UNCHANGED energyVars \/ SwitchRelay \/ StartDump \/ PrintArray
    BY <1>4, <2>1 DEF energyVars, SwitchRelay, StartDump, PrintArray
  <2>2. CASE DumpPacket(FALSE)
    BY <1>3, <2>2
  <2>3. CASE OtherDump
    BY <1>2, <2>3 DEF OtherDump
  <2>4. CASE PowerFails
    <3>1. i_array' = 0 /\ NextAtStart' = 0 /\ flag_arrray' = FALSE
      BY <2>4 DEF PowerFails, EnergyRestart
    <3>2. FALSE \in BOOLEAN
      OBVIOUS
    <3> QED BY <1>1, <3>1, <3>2, Zenon DEF CursorType
  <2> QED BY <1>7, <2>1, <2>2, <2>3, <2>4 DEF Disturbance
<1> QED BY <1>5, <1>6, <1>7 DEF Next

LEMMA StepSwitches ==
    ASSUME EnergyTypeOK, [Next]_vars
    PROVE  relay_on' \in BOOLEAN /\ disable_add' \in BOOLEAN /\ old_minute' \in 0 .. NoMinute
<1>1. /\ relay_on \in BOOLEAN /\ disable_add \in BOOLEAN /\ old_minute \in 0 .. NoMinute
      /\ Minute \in 0 .. NoMinute /\ NoMinute \in 0 .. NoMinute
  BY Constants DEF EnergyTypeOK, Minute, NoMinute
<1> USE <1>1
<1>2. CASE Loop
  <2>1. old_minute' \in {old_minute, Minute, NoMinute}
    BY <1>2 DEF Loop, AddCurrentEnergyInArray
  <2>2. relay_on' = relay_on /\ disable_add' = disable_add
    BY <1>2 DEF Loop
  <2> QED BY <2>1, <2>2
<1>3. CASE UNCHANGED <<relay_on, disable_add, old_minute>>
  BY <1>3
<1>4. CASE Line \/ TimePasses \/ SlowEnds \/ DumpsOn \/ DumpHangs \/ UNCHANGED vars
  BY <1>3, <1>4 DEF Line, TimePasses, SlowEnds, DumpsOn, DumpHangs, DumpPacket, EnergyMinute, vars,
                    energyVars
<1>5. CASE PrintArray
  <2>1. /\ disable_add' = ~disable_add
        /\ relay_on' = relay_on /\ old_minute' = old_minute
    BY <1>5 DEF PrintArray
  <2>2. disable_add' \in BOOLEAN
    BY <2>1, Zenon
  <2> QED BY <2>1, <2>2
<1>6. CASE Disturbance
  <2>1. CASE UNCHANGED energyVars \/ StartDump \/ DumpPacket(FALSE) \/ OtherDump
    BY <1>3, <2>1 DEF energyVars, StartDump, DumpPacket, OtherDump
  <2>2. CASE SwitchRelay
    <3>1. /\ relay_on' = ~relay_on
          /\ disable_add' = disable_add /\ old_minute' = old_minute
      BY <2>2 DEF SwitchRelay
    <3>2. relay_on' \in BOOLEAN
      BY <3>1, Zenon
    <3> QED BY <3>1, <3>2
  <2>3. CASE PowerFails
    <3>1. old_minute' = NoMinute /\ disable_add' = FALSE /\ relay_on' \in BOOLEAN
      BY <2>3 DEF PowerFails, EnergyRestart
    <3> QED BY <3>1
  <2> QED BY <1>5, <1>6, <2>1, <2>2, <2>3 DEF Disturbance
<1> QED BY <1>2, <1>4, <1>5, <1>6 DEF Next, PrintEnds

LEMMA StepBroken ==
    ASSUME EnergyTypeOK, [Next]_vars
    PROVE  broken' \in BOOLEAN
<1>1. broken \in BOOLEAN
  BY DEF EnergyTypeOK
<1>2. broken' = broken \/ broken' = FALSE \/ broken' = TRUE
  <2>1. CASE Loop
    BY <2>1, LoopIs DEF historyVars
  <2>2. CASE Disturbance /\ PowerFails
    BY <2>2 DEF PowerFails, AddingCut, SampleCut, IndexCut, ClearingCut, historyVars
  <2>3. CASE ~Loop /\ ~(Disturbance /\ PowerFails)
    BY <2>3, Untouched DEF EnergyTypeOK, historyVars
  <2> QED BY <2>1, <2>2, <2>3
<1> QED BY <1>1, <1>2, Zenon

\* What is held up and how many disturbances there were.
LEMMA StepBounds ==
    ASSUME events \in 0 .. MaxEvents, slow \in {"nothing", "loop", "meter", "dump"}, [Next]_vars
    PROVE  events' \in 0 .. MaxEvents /\ slow' \in {"nothing", "loop", "meter", "dump"}
<1>1. CASE UNCHANGED <<slow, events>>
  BY <1>1
<1>2. CASE Loop \/ Line \/ TimePasses \/ DumpsOn \/ PrintEnds \/ UNCHANGED vars
  BY <1>1, <1>2 DEF Loop, Line, TimePasses, DumpsOn, PrintEnds, vars
<1>3. CASE SlowEnds \/ DumpHangs
  BY <1>3 DEF SlowEnds, DumpHangs
<1>4. CASE Disturbance
  <2>1. events' \in 0 .. MaxEvents
    BY <1>4, MeasureAssumption DEF Disturbance
  <2>2. slow' = slow \/ slow' \in {"nothing", "loop", "meter", "dump"}
    BY <1>4 DEF Disturbance
  <2> QED BY <2>1, <2>2
<1> QED BY <1>2, <1>3, <1>4 DEF Next

\* Every variable keeps its type: the index of the history stays a word that the
\* clearing can deal with, whatever a power failure leaves of it, and the shared
\* cursor of the dumps a slot, also in dumps with an index that is none.
THEOREM MeasureTypeCorrect == Spec => []TypeOK
<1> DEFINE Inv == HistoryInv /\ ModbusInv /\ TypeOK
<1>1. Init => Inv
  BY InitHistory, InitModbus, InitEnergy, MeasureAssumption DEF Init, TypeOK, ModbusInv
<1>2. ASSUME Inv, [Next]_vars
      PROVE  Inv'
  <2>1. HistoryInv'
    BY <1>2, StepHistory
  <2>2. ModbusInv'
    BY <1>2, StepModbus
  <2>3. /\ EnergyTypeOK /\ events \in 0 .. MaxEvents
        /\ slow \in {"nothing", "loop", "meter", "dump"}
    BY <1>2 DEF TypeOK
  <2>4. /\ CursorType'
        /\ relay_on' \in BOOLEAN /\ disable_add' \in BOOLEAN /\ broken' \in BOOLEAN
        /\ old_minute' \in 0 .. NoMinute
    BY <1>2, <2>3, StepCursor, StepSwitches, StepBroken, Zenon
  <2>5. events' \in 0 .. MaxEvents /\ slow' \in {"nothing", "loop", "meter", "dump"}
    BY <1>2, <2>3, StepBounds
  <2>6. EnergyTypeOK'
    <3>1. HistoryType'
      BY <2>1 DEF HistoryInv
    <3>2. {relay_on', disable_add', flag_arrray', broken'} \subseteq BOOLEAN
      BY <2>4, Zenon DEF CursorType
    <3> QED BY <2>4, <3>1, <3>2 DEF EnergyTypeOK, HistoryType, CursorType
  <2>7. ModbusTypeOK'
    BY <2>2 DEF ModbusInv
  <2> QED BY <2>1, <2>2, <2>5, <2>6, <2>7 DEF TypeOK
<1>3. Inv => TypeOK
  OBVIOUS
<1> HIDE DEF Inv
<1> QED BY <1>1, <1>2, <1>3, PTL DEF Spec

-----------------------------------------------------------------------------
(* What the slots of the history hold.                                     *)

\* What earlier samples left in a slot: nothing, or a sample of that slot.
LEMMA KeptCases ==
    ASSUME NEW n \in Nat, NEW i \in Slots
    PROVE  \/ /\ Kept(n, i) = Cleared
              /\ \A k \in 1 .. n : ~((k - 1) % MaxEnergy = i /\ k + MaxEnergy > n)
           \/ \E k \in 1 .. n : /\ Kept(n, i) = [time |-> k, n |-> k]
                                /\ (k - 1) % MaxEnergy = i
<1> DEFINE last == {k \in 1 .. n : (k - 1) % MaxEnergy = i /\ k + MaxEnergy > n}
<1>1. Kept(n, i) = IF last = {} THEN Cleared ELSE [time |-> CHOOSE k \in last : TRUE,
                                                   n |-> CHOOSE k \in last : TRUE]
  BY DEF Kept
<1>2. \A k \in 1 .. n : (k - 1) % MaxEnergy = i /\ k + MaxEnergy > n => k \in last
  OBVIOUS
<1>3. \A k \in last : k \in 1 .. n /\ (k - 1) % MaxEnergy = i
  OBVIOUS
<1> HIDE DEF last
<1>4. CASE last = {}
  BY <1>1, <1>2, <1>4
<1>5. CASE last # {}
  <2>1. (CHOOSE k \in last : TRUE) \in last
    BY <1>5
  <2> QED BY <1>1, <1>3, <1>5, <2>1
<1> QED BY <1>4, <1>5

\* As many samples as the history has slots leave none of them empty.
LEMMA KeptEverywhere ==
    ASSUME NEW n \in Nat, n >= MaxEnergy, NEW i \in Slots
    PROVE  Kept(n, i).time # 0
<1> DEFINE r == n % MaxEnergy
<1>1. PICK q \in Nat : n = MaxEnergy * q + r /\ r \in 0 .. MaxEnergy - 1
  <2>1. MaxEnergy \in Nat /\ MaxEnergy > 0
    BY Constants
  <2> QED BY <2>1, Divided, Zenon
<1> HIDE DEF r
<1>2. CASE i # r
  <2>1. \E k \in 1 .. MaxEnergy - 1 : i = IF k <= r THEN r - k ELSE r + MaxEnergy - k
    <3>1. CASE i < r
      <4>1. r - i \in 1 .. MaxEnergy - 1 /\ r - (r - i) = i /\ r - i <= r
        BY <1>1, <3>1, Constants DEF Slots
      <4> QED BY <4>1
    <3>2. CASE i > r
      <4>1. /\ r + MaxEnergy - i \in 1 .. MaxEnergy - 1
            /\ r + MaxEnergy - (r + MaxEnergy - i) = i /\ ~(r + MaxEnergy - i <= r)
        BY <1>1, <3>2, Constants DEF Slots
      <4> QED BY <4>1
    <3> QED BY <1>1, <1>2, <3>1, <3>2, Constants DEF Slots
  <2>2. PICK k \in 1 .. MaxEnergy - 1 : i = IF k <= r THEN r - k ELSE r + MaxEnergy - k
    BY <2>1
  <2>3. r \in Slots
    BY <1>1 DEF Slots
  <2>4. i = Back(r, k)
    BY <2>2, <2>3, BackIs
  <2>5. k <= n
    BY Constants
  <2>6. Kept(n, i) = [time |-> n + 1 - k, n |-> n + 1 - k]
    BY <2>4, <2>5, KeptIs DEF r
  <2> QED BY <2>5, <2>6
<1>3. CASE i = r
  <2>1. PICK b \in Nat : b = n - MaxEnergy
    BY Constants
  <2>2. PICK s \in Nat : b = MaxEnergy * s + (b % MaxEnergy) /\ b % MaxEnergy \in 0 .. MaxEnergy - 1
    <3>1. MaxEnergy \in Nat /\ MaxEnergy > 0
      BY Constants
    <3> QED BY <3>1, Divided, Zenon
  <2>3. PICK d \in Int : d = q - 1 - s
    OBVIOUS
  <2>4. MaxEnergy * d = MaxEnergy * q - MaxEnergy - MaxEnergy * s
    BY <2>3, Constants
  <2>5. {MaxEnergy * d, MaxEnergy * q, MaxEnergy * s} \subseteq Int
    BY Constants
  <2>6. MaxEnergy * d = (b % MaxEnergy) - r
    BY <1>1, <2>1, <2>2, <2>4, <2>5, Constants
  <2>7. d = 0
    BY <1>1, <2>2, <2>6, SmallMultiple, Constants
  <2>8. b % MaxEnergy = r
    BY <1>1, <2>2, <2>6, <2>7, Constants
  <2>9. n - MaxEnergy + 1 \in 1 .. n /\ (n - MaxEnergy + 1) - 1 = b
        /\ (n - MaxEnergy + 1) + MaxEnergy > n
    BY <2>1, Constants
  <2>10. \E k \in 1 .. n : Kept(n, i) = [time |-> k, n |-> k]
    BY <1>3, <2>8, <2>9, KeptCases
  <2> QED BY <2>10
<1> QED BY <1>2, <1>3

\* The slots fill up from the left, and no two samples have the same number.
LeftToRight(a) == \A i, j \in Slots : i <= j /\ a[j].time # 0 => a[i].time # 0
Apart(a) ==
    \A i, j \in Slots : i # j /\ a[i].time # 0 /\ a[j].time # 0 => a[i].n # a[j].n

\* The slots before index w hold samples; before one that is no slot, those that
\* are before it when half of it is cleared.
Filled(a, w) == \A i \in Slots : i < (IF w \in Slots THEN w ELSE Split) => a[i].time # 0

SlotsInv ==
    /\ now > 0
    /\ Apart(array) /\ \A i \in Slots : array[i].n <= taken
    /\ broken \/ (LeftToRight(array) /\ Filled(array, NextInArray))

LEMMA InitSlots ==
    ASSUME EnergyInit
    PROVE  SlotsInv
<1>1. PICK n \in Earlier :
          /\ samples = [k \in 1 .. n |-> [time |-> k, n |-> k]]
          /\ array = [i \in Slots |-> Kept(n, i)]
          /\ NextInArray = n % MaxEnergy /\ taken = n
  BY DEF EnergyInit
<1>2. n \in Nat /\ now > 0
  BY Constants DEF EnergyInit
<1>3. taken = n
  BY <1>1
<1>4. n % MaxEnergy \in 0 .. MaxEnergy - 1 /\ (n < MaxEnergy => n % MaxEnergy = n)
  <2>1. MaxEnergy \in Nat /\ MaxEnergy > 0
    BY Constants
  <2>2. n < MaxEnergy => n % MaxEnergy = n
    BY <1>2, <2>1, Remainders
  <2> QED BY <1>2, <2>1, <2>2, Divided, Zenon
<1>5. ASSUME NEW i \in Slots, array[i].time # 0
      PROVE  \E k \in 1 .. n : array[i] = [time |-> k, n |-> k] /\ (k - 1) % MaxEnergy = i
  BY <1>1, <1>2, <1>5, KeptCases DEF Cleared
<1>6. ASSUME NEW i \in Slots
      PROVE  array[i].n \in Nat /\ array[i].n <= n
  <2>1. array[i] = Kept(n, i)
    BY <1>1
  <2>2. CASE array[i] = Cleared
    BY <1>2, <2>2 DEF Cleared
  <2>3. CASE \E k \in 1 .. n : array[i] = [time |-> k, n |-> k]
    BY <1>2, <2>3
  <2> QED BY <1>2, <2>1, <2>2, <2>3, KeptCases
<1>7. ASSUME NEW i \in Slots, NEW j \in Slots, i # j, array[i].time # 0, array[j].time # 0
      PROVE  array[i].n # array[j].n
  <2>1. PICK k \in 1 .. n : array[i] = [time |-> k, n |-> k] /\ (k - 1) % MaxEnergy = i
    BY <1>5, <1>7
  <2>2. PICK m \in 1 .. n : array[j] = [time |-> m, n |-> m] /\ (m - 1) % MaxEnergy = j
    BY <1>5, <1>7
  <2> QED BY <1>7, <2>1, <2>2
<1>8. CASE n >= MaxEnergy
  <2>1. \A i \in Slots : array[i].time # 0
    BY <1>1, <1>2, <1>8, KeptEverywhere
  <2> QED BY <1>2, <1>3, <1>6, <1>7, <2>1 DEF SlotsInv, Apart, LeftToRight, Filled
<1>9. CASE n < MaxEnergy
  <2>1. NextInArray = n
    BY <1>1, <1>4, <1>9
  <2>2. ASSUME NEW i \in Slots, i < n
        PROVE  array[i].time # 0
    <3>1. (i + 1) - 1 = i /\ i % MaxEnergy = i /\ i + 1 \in 1 .. n /\ i + 1 + MaxEnergy > n
      BY <1>2, <1>9, <2>2, Remainders, Constants DEF Slots
    <3>2. \E k \in 1 .. n : Kept(n, i) = [time |-> k, n |-> k]
      BY <1>2, <3>1, KeptCases
    <3> QED BY <1>1, <3>2
  <2>3. ASSUME NEW i \in Slots, n <= i
        PROVE  array[i].time = 0
    <3>1. ASSUME NEW k \in 1 .. n
          PROVE  (k - 1) % MaxEnergy # i
      <4>1. k - 1 \in 0 .. MaxEnergy - 1 /\ k - 1 # i
        BY <1>2, <1>9, <2>3, Constants DEF Slots
      <4>2. (k - 1) % MaxEnergy = k - 1
        BY <4>1, Remainders, Constants
      <4> QED BY <4>1, <4>2
    <3>2. Kept(n, i) = Cleared
      BY <1>2, <3>1, KeptCases
    <3> QED BY <1>1, <3>2 DEF Cleared
  <2>4. \A i, j \in Slots : i <= j /\ array[j].time # 0 => array[i].time # 0
    <3>1. \A i \in Slots : array[i].time # 0 => i < n
      BY <1>2, <2>3 DEF Slots
    <3> QED BY <1>2, <2>2, <3>1 DEF Slots
  <2>5. NextInArray \in Slots
    BY <1>2, <1>9, <2>1, Constants DEF Slots
  <2> QED BY <1>2, <1>3, <1>6, <1>7, <2>1, <2>2, <2>4, <2>5
          DEF SlotsInv, Apart, LeftToRight, Filled
<1> QED BY <1>2, <1>8, <1>9, Constants

\* The index on its way from slot i.
LEMMA OnTheWayIs ==
    ASSUME NEW i \in Slots
    PROVE  /\ AfterSlot(i) \in OnTheWay(i)
           /\ \A w \in OnTheWay(i) :
                 /\ w \in Words
                 /\ w \in Slots => w <= i + 1
                 /\ w \notin Slots => Split <= i + 1 \/ i = MaxEnergy - 1
<1>1. i \in 0 .. MaxEnergy - 1 /\ MaxEnergy \in Nat /\ Split \in Nat /\ MaxEnergy < 2 * Split
  BY Constants DEF Slots
<1>2. AfterSlot(i) \in OnTheWay(i)
  BY <1>1 DEF AfterSlot, OnTheWay, HalfStored
<1>3. ASSUME NEW w \in HalfStored(i, i + 1)
      PROVE  w \in Words /\ (w < MaxEnergy => w <= i + 1)
             /\ (w >= MaxEnergy => Split <= i + 1 \/ i = MaxEnergy - 1)
  BY <1>1 DEF HalfStored, High, Low, Words
<1>4. ASSUME i + 1 >= MaxEnergy, NEW w \in HalfStored(i + 1, 0)
      PROVE  w \in Words /\ w <= i + 1 /\ i = MaxEnergy - 1
  BY <1>1, <1>4 DEF HalfStored, High, Low, Words
<1>5. ASSUME NEW w \in OnTheWay(i)
      PROVE  /\ w \in Words
             /\ w \in Slots => w <= i + 1
             /\ w \notin Slots => Split <= i + 1 \/ i = MaxEnergy - 1
  <2>1. CASE w \in HalfStored(i, i + 1)
    BY <1>1, <1>3, <2>1 DEF Slots, Words
  <2>2. CASE i + 1 >= MaxEnergy /\ w \in HalfStored(i + 1, 0)
    BY <1>4, <2>2
  <2> QED BY <1>5, <2>1, <2>2 DEF OnTheWay
<1> QED BY <1>2, <1>5

\* A sample in slot i, before the index moves and on the index's way.
LEMMA StoredFilled ==
    ASSUME NEW a \in [Slots -> Sample], NEW i \in Slots, NEW s \in Sample,
           a[i].time # 0 => s.time # 0, LeftToRight(a), Filled(a, i),
           NEW b, b = [a EXCEPT ![i] = s]
    PROVE  /\ LeftToRight(b) /\ Filled(b, i)
           /\ s.time # 0 => \A w \in OnTheWay(i) : Filled(b, w)
<1>1. \A j \in Slots : b[j] = IF j = i THEN s ELSE a[j]
  OBVIOUS
<1>2. \A j \in Slots : j < i => a[j].time # 0
  BY DEF Filled
<1>3. LeftToRight(b)
  <2>1. ASSUME NEW j \in Slots, NEW k \in Slots, j <= k, b[k].time # 0
        PROVE  b[j].time # 0
    <3>1. CASE k = i
      BY <1>1, <1>2, <2>1, <3>1 DEF Slots
    <3>2. CASE k # i
      <4>1. a[k].time # 0
        BY <1>1, <2>1, <3>2
      <4>2. a[j].time # 0
        BY <2>1, <4>1 DEF LeftToRight
      <4> QED BY <1>1, <4>2
    <3> QED BY <3>1, <3>2
  <2> QED BY <2>1 DEF LeftToRight
<1>4. Filled(b, i)
  BY <1>1, <1>2 DEF Filled
<1>5. ASSUME s.time # 0, NEW w \in OnTheWay(i)
      PROVE  Filled(b, w)
  <2>1. \A j \in Slots : j <= i => b[j].time # 0
    BY <1>1, <1>2, <1>5 DEF Slots
  <2>2. /\ w \in Slots => w <= i + 1
        /\ w \notin Slots => Split <= i + 1 \/ i = MaxEnergy - 1
    BY OnTheWayIs
  <2>3. CASE w \in Slots
    BY <2>1, <2>2, <2>3 DEF Filled, Slots
  <2>4. CASE w \notin Slots
    <3>1. Split \in Nat /\ MaxEnergy \in Nat
      BY Constants
    <3> QED BY <2>1, <2>2, <2>4, <3>1 DEF Filled, Slots
  <2> QED BY <2>3, <2>4
<1> QED BY <1>3, <1>4, <1>5

LEMMA StoredApart ==
    ASSUME NEW a \in [Slots -> Sample], NEW i \in Slots, NEW s \in Sample, NEW t \in Nat,
           Apart(a), \A j \in Slots : a[j].n <= t, s.n = t + 1,
           NEW b, b = [a EXCEPT ![i] = s]
    PROVE  Apart(b) /\ \A j \in Slots : b[j].n <= t + 1
<1>1. \A j \in Slots : b[j] = IF j = i THEN s ELSE a[j]
  OBVIOUS
<1>2. \A j \in Slots : a[j].n \in Nat
  BY DEF Sample
<1>3. ASSUME NEW j \in Slots, NEW k \in Slots, j # k, b[j].time # 0, b[k].time # 0
      PROVE  b[j].n # b[k].n
  <2>1. CASE j = i
    BY <1>1, <1>2, <1>3, <2>1
  <2>2. CASE k = i
    BY <1>1, <1>2, <1>3, <2>2
  <2>3. CASE j # i /\ k # i
    BY <1>1, <1>3, <2>3 DEF Apart
  <2> QED BY <2>1, <2>2, <2>3
<1>4. \A j \in Slots : b[j].n <= t + 1
  BY <1>1, <1>2
<1> QED BY <1>3, <1>4 DEF Apart

\* A sample in its slot, whole or not, and the index there or on its way.
LEMMA StoredSlots ==
    ASSUME HistoryType, SlotsInv, now' = now, NextInArray \in Slots, taken' = taken + 1,
           NEW s \in Sample, s.n = taken + 1, array[NextInArray].time # 0 => s.time # 0,
           array' = [array EXCEPT ![NextInArray] = s], broken' = broken,
           NextInArray' = NextInArray \/ (s.time # 0 /\ NextInArray' \in OnTheWay(NextInArray))
    PROVE  SlotsInv'
<1>1. PICK a \in [Slots -> Sample], i \in Slots, t \in Nat :
         a = array /\ i = NextInArray /\ t = taken
  BY DEF HistoryType
<1> DEFINE b == array'
<1>2. b = [a EXCEPT ![i] = s] /\ Apart(a) /\ \A j \in Slots : a[j].n <= t
  BY <1>1 DEF SlotsInv
<1>3. Apart(b) /\ \A j \in Slots : b[j].n <= t + 1
  BY <1>1, <1>2, StoredApart
<1>4. ASSUME ~broken
      PROVE  LeftToRight(b) /\ Filled(b, NextInArray')
  <2>1. LeftToRight(a) /\ Filled(a, i) /\ (a[i].time # 0 => s.time # 0)
    BY <1>1, <1>4 DEF SlotsInv
  <2>2. /\ LeftToRight(b) /\ Filled(b, i)
        /\ s.time # 0 => \A w \in OnTheWay(i) : Filled(b, w)
    BY <1>2, <2>1, StoredFilled
  <2> QED BY <1>1, <2>2
<1>5. now' > 0 /\ Apart(array') /\ \A j \in Slots : array'[j].n <= taken'
  BY <1>1, <1>3 DEF SlotsInv
<1>6. broken' \/ (LeftToRight(array') /\ Filled(array', NextInArray'))
  BY <1>1, <1>4
<1> QED BY <1>5, <1>6 DEF SlotsInv

\* All the history is cleared.
LEMMA ClearedSlots ==
    ASSUME HistoryType, SlotsInv, now' = now, taken' = taken,
           array' = [i \in Slots |-> Cleared], NextInArray' = 0
    PROVE  SlotsInv'
<1>1. \A i \in Slots : array'[i].time = 0 /\ array'[i].n = 0
  BY DEF Cleared
<1>2. Apart(array') /\ LeftToRight(array') /\ \A i \in Slots : array'[i].n <= taken'
  BY <1>1 DEF Apart, LeftToRight, HistoryType
<1>3. Filled(array', NextInArray')
  BY WordsAre DEF Filled, Slots
<1> QED BY <1>2, <1>3 DEF SlotsInv

\* Power fails in the clearing: some of the history is left.
LEMMA CutSlots ==
    ASSUME HistoryType, SlotsInv, now' = now, ClearingCut
    PROVE  SlotsInv'
<1>1. PICK a \in [Slots -> Sample], w \in Words, t \in Nat :
         a = array /\ w = NextInArray /\ t = taken
  BY DEF HistoryType
<1>2. taken' = taken /\ w \notin Slots
  BY <1>1 DEF ClearingCut
<1>3. CASE NextInArray' \in HalfStored(NextInArray, 0) /\ UNCHANGED <<array, broken>>
  <2>1. PICK v : v = NextInArray'
    OBVIOUS
  <2>2. v \in Slots => v <= Split
    <3>1. w \in 0 .. 2 * Split - 1 /\ Split \in Nat /\ v \in HalfStored(w, 0)
      BY <1>1, <1>3, <2>1, Constants DEF Words
    <3>2. v = w \/ v <= Split
      BY <3>1, Constants DEF HalfStored, High, Low
    <3> QED BY <1>2, <3>2
  <2>3. ASSUME ~broken
        PROVE  LeftToRight(a) /\ Filled(a, v)
    <3>1. LeftToRight(a) /\ Filled(a, w)
      BY <1>1, <2>3 DEF SlotsInv
    <3>2. \A i \in Slots : i < Split => a[i].time # 0
      BY <1>2, <3>1 DEF Filled
    <3>3. Filled(a, v)
      BY <2>2, <3>2, Constants DEF Filled, Slots
    <3> QED BY <3>1, <3>3
  <2> QED BY <1>1, <1>2, <1>3, <2>1, <2>3 DEF SlotsInv
<1>4. CASE ~(NextInArray' \in HalfStored(NextInArray, 0) /\ UNCHANGED <<array, broken>>)
  <2>1. broken' = TRUE
    BY <1>4 DEF ClearingCut
  <2>2. PICK s \in Slots : \E time \in 0 .. array[s].time :
           array' = [i \in Slots |-> IF i < s THEN Cleared
                                    ELSE IF i = s THEN [array[i] EXCEPT !.time = time]
                                    ELSE array[i]]
    BY <1>4 DEF ClearingCut
  <2>3. PICK time \in 0 .. a[s].time :
           array' = [i \in Slots |-> IF i < s THEN Cleared
                                    ELSE IF i = s THEN [a[i] EXCEPT !.time = time]
                                    ELSE a[i]]
    BY <1>1, <2>2
  <2>4. ASSUME NEW i \in Slots
        PROVE  /\ array'[i].n \in {0, a[i].n}
               /\ array'[i].time # 0 => array'[i].n = a[i].n /\ a[i].time # 0
    <3>1. a[i] = [time |-> a[i].time, n |-> a[i].n] /\ a[i].time \in Nat
      BY DEF Sample
    <3>2. CASE i < s
      BY <2>3, <3>2 DEF Cleared
    <3>3. CASE i = s
      <4>1. array'[i] = [a[i] EXCEPT !.time = time]
        BY <2>3, <3>3 DEF Slots
      <4>2. array'[i].n = a[i].n /\ array'[i].time = time
        BY <3>1, <4>1
      <4> QED BY <3>1, <3>3, <4>2
    <3>4. CASE ~(i < s) /\ i # s
      BY <2>3, <3>4
    <3> QED BY <3>2, <3>3, <3>4
  <2>5. Apart(array')
    <3>1. Apart(a)
      BY <1>1 DEF SlotsInv
    <3> QED BY <2>4, <3>1 DEF Apart
  <2>6. \A i \in Slots : array'[i].n <= taken'
    <3>1. \A i \in Slots : a[i].n <= t /\ a[i].n \in Nat
      BY <1>1 DEF SlotsInv, Sample
    <3> QED BY <1>1, <1>2, <2>4, <3>1
  <2> QED BY <2>1, <2>5, <2>6 DEF SlotsInv
<1> QED BY <1>3, <1>4

LEMMA StepSlots ==
    ASSUME HistoryType, SlotsInv, [Next]_vars
    PROVE  SlotsInv'
<1>1. ASSUME UNCHANGED historyVars, now' \in {now, now + 1}
      PROVE  SlotsInv'
  BY <1>1 DEF HistoryType, SlotsInv, historyVars
<1>2. now' \in {now, now + 1}
  <2>1. CASE Loop \/ Line \/ SlowEnds \/ TimePasses \/ DumpsOn \/ DumpHangs \/ PrintEnds
             \/ UNCHANGED vars
    BY <2>1 DEF Loop, Line, SlowEnds, TimePasses, DumpsOn, DumpHangs, PrintEnds, vars,
                energyVars, EnergyMinute, DumpPacket, PrintArray
  <2>2. CASE Disturbance
    BY <2>2 DEF Disturbance, energyVars, SwitchRelay, StartDump, DumpPacket, OtherDump,
                PrintArray, PowerFails, EnergyRestart
  <2> QED BY <2>1, <2>2 DEF Next
<1>3. /\ Newest \in Sample /\ Newest.n = taken + 1 /\ Newest.time = now
      /\ now > 0 /\ now \in Nat /\ taken \in Nat
  BY DEF HistoryType, SlotsInv, Newest, Sample
<1>4. CASE Loop
  <2>1. now' = now
    BY <1>4, LoopIs
  <2>2. CASE UNCHANGED historyVars
    BY <1>1, <1>2, <2>2
  <2>3. CASE /\ NextInArray \in Slots
             /\ array' = [array EXCEPT ![NextInArray] = Newest]
             /\ NextInArray' = AfterSlot(NextInArray)
             /\ taken' = taken + 1 /\ broken' = broken
    <3>1. NextInArray' \in OnTheWay(NextInArray)
      BY <2>3, OnTheWayIs
    <3>2. PICK s \in Sample : s = Newest /\ s.n = taken + 1 /\ s.time # 0
      BY <1>3
    <3> QED BY <2>1, <2>3, <3>1, <3>2, StoredSlots
  <2>4. CASE /\ array' = [i \in Slots |-> Cleared]
             /\ NextInArray' = 0 /\ taken' = taken
    BY <2>1, <2>4, ClearedSlots
  <2> QED BY <1>4, <2>2, <2>3, <2>4, LoopIs
<1>5. CASE PowerFails
  <2>1. now' = now
    BY <1>5 DEF PowerFails, EnergyRestart
  <2>2. CASE SampleCut
    <3>1. PICK time \in 0 .. now :
             /\ array[NextInArray].time # 0 => time # 0
             /\ array' = [array EXCEPT ![NextInArray] = [time |-> time, n |-> taken + 1]]
      BY <2>2 DEF SampleCut
    <3>2. PICK s : s = [time |-> time, n |-> taken + 1]
      OBVIOUS
    <3>3. s \in Sample /\ s.time = time /\ s.n = taken + 1
      <4>1. time \in Nat /\ taken + 1 \in Nat
        BY <1>3
      <4> QED BY <3>2, <4>1 DEF Sample
    <3>4. array' = [array EXCEPT ![NextInArray] = s]
      BY <3>1, <3>2, Zenon
    <3>5. /\ NextInArray \in Slots /\ taken' = taken + 1
          /\ NextInArray' = NextInArray /\ broken' = broken
      BY <2>2 DEF SampleCut
    <3> QED BY <2>1, <3>1, <3>3, <3>4, <3>5, StoredSlots
  <2>3. CASE IndexCut
    <3>1. /\ NextInArray \in Slots /\ taken' = taken + 1 /\ broken' = broken
          /\ array' = [array EXCEPT ![NextInArray] = Newest]
          /\ NextInArray' \in OnTheWay(NextInArray)
      BY <2>3 DEF IndexCut
    <3>2. PICK s \in Sample : s = Newest /\ s.n = taken + 1 /\ s.time # 0
      BY <1>3
    <3> QED BY <2>1, <3>1, <3>2, StoredSlots
  <2>4. CASE ClearingCut
    BY <2>1, <2>4, CutSlots
  <2>5. CASE UNCHANGED historyVars
    BY <1>1, <1>2, <2>5
  <2> QED BY <1>5, <2>2, <2>3, <2>4, <2>5 DEF PowerFails, AddingCut
<1> QED BY <1>1, <1>2, <1>3, <1>4, <1>5, Untouched

-----------------------------------------------------------------------------
(* The walk of a cursor, over any contents of the history.                 *)

\* The end of the dump is a slot, and a cursor that has not come to the end of the
\* array is there or beyond.
Straight(c) == c.next \in Slots /\ (c.flag => c.i >= c.next)

LEMMA SlotAfterIs ==
    ASSUME NEW c \in Cursors, NEW k \in 0 .. MaxEnergy
    PROVE  SlotAfter(c, k) = IF c.i + k < MaxEnergy THEN c.i + k ELSE c.i + k - MaxEnergy
<1>1. MaxEnergy \in Nat /\ MaxEnergy > 0 /\ c.i \in 0 .. MaxEnergy - 1
  BY Constants DEF Cursors, Slots
<1>2. CASE c.i + k < MaxEnergy
  <2>1. c.i + k \in 0 .. MaxEnergy - 1
    BY <1>1, <1>2
  <2> QED BY <1>1, <1>2, <2>1, Remainders DEF SlotAfter
<1>3. CASE ~(c.i + k < MaxEnergy)
  <2>1. /\ c.i + k - MaxEnergy \in 0 .. MaxEnergy - 1
        /\ (c.i + k - MaxEnergy) + MaxEnergy = c.i + k
    BY <1>1, <1>3
  <2> QED BY <1>1, <1>3, <2>1, Remainders DEF SlotAfter
<1> QED BY <1>2, <1>3

LEMMA StepsBound ==
    ASSUME NEW c \in Cursors, Straight(c)
    PROVE  StepsLeft(c) \in 0 .. MaxEnergy
<1>1. c.i \in 0 .. MaxEnergy - 1 /\ c.next \in 0 .. MaxEnergy - 1
  BY Constants DEF Cursors, Slots, Straight
<1>2. CASE c.flag
  <2>1. StepsLeft(c) = MaxEnergy - c.i + c.next /\ c.i >= c.next
    BY <1>2, StepsLeftType DEF Straight
  <2> QED BY <1>1, <2>1, Constants
<1>3. CASE ~c.flag
  <2>1. StepsLeft(c) = IF c.i < c.next THEN c.next - c.i ELSE 0
    BY <1>3, StepsLeftType DEF Straight
  <2> QED BY <1>1, <2>1, Constants
<1> QED BY <1>2, <1>3

\* No slot is passed twice.
LEMMA SlotsApart ==
    ASSUME NEW c \in Cursors, Straight(c),
           NEW m \in 0 .. StepsLeft(c) - 1, NEW n \in 0 .. StepsLeft(c) - 1,
           SlotAfter(c, m) = SlotAfter(c, n)
    PROVE  m = n
<1>1. StepsLeft(c) \in 0 .. MaxEnergy /\ c.i \in 0 .. MaxEnergy - 1 /\ MaxEnergy \in Nat
  BY StepsBound, Constants DEF Cursors, Slots
<1>2. m \in 0 .. MaxEnergy - 1 /\ n \in 0 .. MaxEnergy - 1
  BY <1>1
<1>3. /\ SlotAfter(c, m) = IF c.i + m < MaxEnergy THEN c.i + m ELSE c.i + m - MaxEnergy
      /\ SlotAfter(c, n) = IF c.i + n < MaxEnergy THEN c.i + n ELSE c.i + n - MaxEnergy
  <2>1. m \in 0 .. MaxEnergy /\ n \in 0 .. MaxEnergy
    BY <1>1, <1>2
  <2> QED BY <2>1, SlotAfterIs
<1>4. PICK i \in 0 .. MaxEnergy - 1 : i = c.i
  BY <1>1
<1> QED
  <2>1. (IF i + m < MaxEnergy THEN i + m ELSE i + m - MaxEnergy)
            = IF i + n < MaxEnergy THEN i + n ELSE i + n - MaxEnergy
    BY <1>3, <1>4
  <2> QED BY <1>1, <1>2, <2>1

\* After k steps the cursor has the rest of its way before it.
LEMMA MovedWalk ==
    ASSUME NEW c \in Cursors, Straight(c), NEW k \in 0 .. StepsLeft(c)
    PROVE  /\ Straight(Moved(c, k))
           /\ StepsLeft(Moved(c, k)) = StepsLeft(c) - k
           /\ \A m \in 0 .. StepsLeft(c) - k - 1 :
                 SlotAfter(Moved(c, k), m) = SlotAfter(c, k + m)
<1> DEFINE d == Moved(c, k)
<1>1. /\ c.i \in 0 .. MaxEnergy - 1 /\ c.next \in 0 .. MaxEnergy - 1 /\ MaxEnergy \in Nat
      /\ StepsLeft(c) \in 0 .. MaxEnergy /\ k \in 0 .. MaxEnergy /\ k \in Nat
  <2>1. StepsLeft(c) \in 0 .. MaxEnergy
    BY StepsBound
  <2> QED BY <2>1, Constants DEF Cursors, Slots, Straight
<1>2. /\ d \in Cursors /\ d.i = SlotAfter(c, k) /\ d.next = c.next
      /\ d.flag <=> (c.flag /\ c.i + k < MaxEnergy)
  BY <1>1, MovedType
<1>3. d.i = IF c.i + k < MaxEnergy THEN c.i + k ELSE c.i + k - MaxEnergy
  BY <1>1, <1>2, SlotAfterIs
<1>4. d.i \in 0 .. MaxEnergy - 1
  BY <1>2, Constants DEF Cursors, Slots
<1>5. /\ c.flag => StepsLeft(c) = MaxEnergy - c.i + c.next /\ c.i >= c.next
      /\ ~c.flag => StepsLeft(c) = IF c.i < c.next THEN c.next - c.i ELSE 0
  BY StepsLeftType DEF Straight
<1>6. /\ d.flag => StepsLeft(d) = MaxEnergy - d.i + d.next
      /\ ~d.flag => StepsLeft(d) = IF d.i < d.next THEN d.next - d.i ELSE 0
  BY <1>2, StepsLeftType DEF Straight
<1> HIDE DEF d
<1>7. Straight(d) /\ StepsLeft(d) = StepsLeft(c) - k
  <2>1. CASE d.flag
    <3>1. c.flag /\ c.i + k < MaxEnergy
      BY <1>2, <2>1
    <3>2. StepsLeft(c) = MaxEnergy - c.i + c.next /\ c.i >= c.next
      BY <1>5, <3>1
    <3>3. StepsLeft(d) = MaxEnergy - d.i + d.next
      BY <1>6, <2>1
    <3>4. StepsLeft(d) = StepsLeft(c) - k /\ d.i >= d.next
      BY <1>1, <1>2, <1>3, <3>1, <3>2, <3>3
    <3> QED BY <1>2, <3>4 DEF Straight
  <2>2. CASE ~d.flag
    <3>1. StepsLeft(d) = IF d.i < d.next THEN d.next - d.i ELSE 0
      BY <1>6, <2>2
    <3>2. CASE c.flag
      <4>1. c.i + k >= MaxEnergy
        BY <1>1, <1>2, <2>2, <3>2
      <4>2. StepsLeft(c) = MaxEnergy - c.i + c.next
        BY <1>5, <3>2
      <4>3. StepsLeft(d) = StepsLeft(c) - k
        BY <1>1, <1>2, <1>3, <3>1, <4>1, <4>2
      <4> QED BY <1>2, <2>2, <4>3 DEF Straight
    <3>3. CASE ~c.flag
      <4>1. StepsLeft(c) = IF c.i < c.next THEN c.next - c.i ELSE 0
        BY <1>5, <3>3
      <4>2. StepsLeft(d) = StepsLeft(c) - k
        BY <1>1, <1>2, <1>3, <3>1, <4>1
      <4> QED BY <1>2, <2>2, <4>2 DEF Straight
    <3> QED BY <3>2, <3>3
  <2> QED BY <2>1, <2>2
<1>8. ASSUME NEW m \in 0 .. StepsLeft(c) - k - 1
      PROVE  SlotAfter(d, m) = SlotAfter(c, k + m)
  <2>1. m \in 0 .. MaxEnergy /\ k + m \in 0 .. MaxEnergy
    BY <1>1
  <2>2. SlotAfter(d, m) = IF d.i + m < MaxEnergy THEN d.i + m ELSE d.i + m - MaxEnergy
    BY <1>2, <2>1, SlotAfterIs
  <2>3. SlotAfter(c, k + m) = IF c.i + (k + m) < MaxEnergy THEN c.i + (k + m)
                              ELSE c.i + (k + m) - MaxEnergy
    BY <2>1, SlotAfterIs
  <2>4. c.i + k + m < MaxEnergy + MaxEnergy
    BY <1>1, <2>1, StepsBound
  <2> QED BY <1>1, <1>3, <2>1, <2>2, <2>3
<1> QED BY <1>7, <1>8 DEF d

\* A sample in range, the steps among the first k that find one, and what they
\* find: as Fits(array[..]), Sent and Packet have it, for any contents a.
Fits(sample, range) == sample.time >= range.from /\ sample.time <= range.to
Picked(a, c, range, k) == {m \in 0 .. k - 1 : Fits(a[SlotAfter(c, m)], range)}
Carried(a, c, range, k) == {a[SlotAfter(c, m)] : m \in Picked(a, c, range, k)}
Coming(a, c, range) == Carried(a, c, range, StepsLeft(c))

Bounded(range) == range.from \in Nat \ {0} /\ range.to \in Nat

LEMMA SentIs ==
    ASSUME NEW c \in Cursors, NEW range, NEW k \in Nat
    PROVE  Sent(c, range, k) = Picked(array, c, range, k)
<1>1. \A m \in 0 .. k - 1 : SlotAfter(c, m) \in Slots
  BY SlotAfterType
<1> QED BY <1>1 DEF Sent, Picked, InRange, Fits

\* Different steps carry different samples.
LEMMA CarriedApart ==
    ASSUME NEW c \in Cursors, Straight(c), NEW a \in [Slots -> Sample], Apart(a),
           NEW range, Bounded(range),
           NEW m \in Picked(a, c, range, StepsLeft(c)),
           NEW n \in Picked(a, c, range, StepsLeft(c)),
           a[SlotAfter(c, m)] = a[SlotAfter(c, n)]
    PROVE  m = n
<1>1. /\ m \in 0 .. StepsLeft(c) - 1 /\ n \in 0 .. StepsLeft(c) - 1
      /\ Fits(a[SlotAfter(c, m)], range) /\ Fits(a[SlotAfter(c, n)], range)
  BY DEF Picked
<1>2. m \in Nat /\ n \in Nat
  BY <1>1, StepsLeftType
<1>3. PICK i \in Slots, j \in Slots : i = SlotAfter(c, m) /\ j = SlotAfter(c, n)
  BY <1>2, SlotAfterType
<1>4. a[i].time # 0 /\ a[j].time # 0
  <2>1. a[i].time \in Nat /\ a[j].time \in Nat
    BY <1>3 DEF Sample
  <2> QED BY <1>1, <1>3, <2>1 DEF Fits, Bounded
<1>5. i = j
  BY <1>3, <1>4 DEF Apart
<1> QED BY <1>1, <1>3, <1>5, SlotsApart

LEMMA PickedFinite ==
    ASSUME NEW a, NEW c, NEW range, NEW k \in Nat
    PROVE  IsFiniteSet(Picked(a, c, range, k))
<1>1. IsFiniteSet(0 .. k - 1)
  BY FS_Interval
<1>2. Picked(a, c, range, k) \in SUBSET (0 .. k - 1)
  BY DEF Picked
<1> QED BY <1>1, <1>2, FS_Subset

\* What is to come before a packet is what the packet carries and what is to
\* come after it, and no sample is in both.
LEMMA CarriedSplit ==
    ASSUME NEW c \in Cursors, Straight(c), NEW a \in [Slots -> Sample], Apart(a),
           NEW range, Bounded(range), NEW k \in 0 .. StepsLeft(c)
    PROVE  /\ Coming(a, c, range) = Carried(a, c, range, k) \cup Coming(a, Moved(c, k), range)
           /\ Carried(a, c, range, k) \cap Coming(a, Moved(c, k), range) = {}
<1> DEFINE d == Moved(c, k)
<1>1. StepsLeft(c) \in Nat /\ k \in Nat
  BY StepsLeftType
<1>2. /\ StepsLeft(d) = StepsLeft(c) - k
      /\ \A m \in 0 .. StepsLeft(c) - k - 1 : SlotAfter(d, m) = SlotAfter(c, k + m)
  BY MovedWalk
<1> HIDE DEF d
<1>3. Picked(a, c, range, k) \subseteq Picked(a, c, range, StepsLeft(c))
  BY <1>1 DEF Picked
<1>4. ASSUME NEW x \in Coming(a, d, range)
      PROVE  \E m \in Picked(a, c, range, StepsLeft(c)) : m >= k /\ x = a[SlotAfter(c, m)]
  <2>1. PICK m \in Picked(a, d, range, StepsLeft(d)) : x = a[SlotAfter(d, m)]
    BY <1>4 DEF Coming, Carried
  <2>2. m \in 0 .. StepsLeft(c) - k - 1 /\ Fits(a[SlotAfter(d, m)], range)
    BY <1>2, <2>1 DEF Picked
  <2>3. SlotAfter(d, m) = SlotAfter(c, k + m)
    BY <1>2, <2>2
  <2>4. k + m \in 0 .. StepsLeft(c) - 1 /\ k + m >= k
    BY <1>1, <2>2
  <2> QED BY <2>1, <2>2, <2>3, <2>4 DEF Picked
<1>5. ASSUME NEW x \in Coming(a, c, range)
      PROVE  x \in Carried(a, c, range, k) \/ x \in Coming(a, d, range)
  <2>1. PICK m \in Picked(a, c, range, StepsLeft(c)) : x = a[SlotAfter(c, m)]
    BY <1>5 DEF Coming, Carried
  <2>2. m \in 0 .. StepsLeft(c) - 1 /\ Fits(a[SlotAfter(c, m)], range)
    BY <2>1 DEF Picked
  <2>3. CASE m < k
    <3>1. m \in Picked(a, c, range, k)
      BY <1>1, <2>2, <2>3 DEF Picked
    <3> QED BY <2>1, <3>1 DEF Carried
  <2>4. CASE ~(m < k)
    <3>1. PICK p \in 0 .. StepsLeft(c) - k - 1 : m = k + p
      <4>1. m - k \in 0 .. StepsLeft(c) - k - 1 /\ m = k + (m - k)
        BY <1>1, <2>2, <2>4
      <4> QED BY <4>1
    <3>2. SlotAfter(d, p) = SlotAfter(c, m)
      BY <1>2, <3>1
    <3>3. p \in Picked(a, d, range, StepsLeft(d))
      BY <1>2, <2>2, <3>1, <3>2 DEF Picked
    <3> QED BY <2>1, <3>2, <3>3 DEF Carried, Coming
  <2> QED BY <2>3, <2>4
<1>6. ASSUME NEW x \in Carried(a, c, range, k)
      PROVE  x \in Coming(a, c, range) /\ x \notin Coming(a, d, range)
  <2>1. PICK m \in Picked(a, c, range, k) : x = a[SlotAfter(c, m)]
    BY <1>6 DEF Carried
  <2>2. m \in Picked(a, c, range, StepsLeft(c)) /\ m \in Nat /\ m < k
    <3>1. m \in 0 .. k - 1
      BY <2>1 DEF Picked
    <3> QED BY <1>1, <1>3, <3>1
  <2>3. x \in Coming(a, c, range)
    BY <2>1, <2>2 DEF Coming, Carried
  <2>4. ASSUME x \in Coming(a, d, range)
        PROVE  FALSE
    <3>1. PICK n \in Picked(a, c, range, StepsLeft(c)) : n >= k /\ x = a[SlotAfter(c, n)]
      BY <1>4, <2>4
    <3>2. m = n
      BY <2>1, <2>2, <3>1, CarriedApart
    <3> QED BY <1>1, <2>2, <3>1, <3>2
  <2> QED BY <2>3, <2>4
<1>7. \A x \in Coming(a, d, range) : x \in Coming(a, c, range)
  BY <1>4 DEF Coming, Carried
<1> QED BY <1>5, <1>6, <1>7 DEF d

\* A packet carries as many samples as it has entries.
LEMMA CarriedCount ==
    ASSUME NEW c \in Cursors, Straight(c), NEW a \in [Slots -> Sample], Apart(a),
           NEW range, Bounded(range), NEW k \in 0 .. StepsLeft(c)
    PROVE  /\ IsFiniteSet(Carried(a, c, range, k))
           /\ Cardinality(Carried(a, c, range, k)) = Cardinality(Picked(a, c, range, k))
<1> DEFINE S == Picked(a, c, range, k)
           T == Carried(a, c, range, k)
           f == [m \in S |-> a[SlotAfter(c, m)]]
<1>1. StepsLeft(c) \in Nat /\ k \in Nat
  BY StepsLeftType
<1>2. IsFiniteSet(S)
  BY <1>1, PickedFinite
<1>3. S \subseteq Picked(a, c, range, StepsLeft(c))
  BY <1>1 DEF Picked
<1>4. f \in [S -> T] /\ \A t \in T : \E m \in S : f[m] = t
  BY DEF Carried
<1>5. \A m, n \in S : f[m] = f[n] => m = n
  BY <1>3, CarriedApart
<1>6. f \in Bijection(S, T)
  BY <1>4, <1>5 DEF Bijection, Injection, IsInjective, Surjection
<1>7. ExistsBijection(S, T)
  BY <1>6 DEF ExistsBijection
<1> HIDE DEF S, T, f
<1>8. IsFiniteSet(T) /\ Cardinality(T) = Cardinality(S)
  BY <1>2, <1>7, FS_Bijection
<1> QED BY <1>8 DEF S, T

-----------------------------------------------------------------------------
(* A dump under way.                                                       *)

DumpStates == {"none", "asking", "done"}
Dumps == [state : DumpStates, range : [from : Nat, to : Nat], got : SUBSET Sample,
          entries : Nat, expected : SUBSET Sample, added : Nat, spoiled : BOOLEAN]

\* Dump d, with cursor c on contents a and the index at slot x: what the client
\* has and what is to come make up what it expects, each sample once; the index
\* when it began is a slot, and the slot the next sample goes to is behind the
\* cursor.
Whole(d, a, c) ==
    /\ d.got \cup Coming(a, c, d.range) = d.expected
    /\ d.got \cap Coming(a, c, d.range) = {}
    /\ IsFiniteSet(d.got) /\ d.entries = Cardinality(d.got)
Behind(c) == \A m \in 0 .. StepsLeft(c) - 1 : SlotAfter(c, m) # c.next
UnderWay(d, a, c, x) ==
    Straight(c) /\ Whole(d, a, c) /\ Behind(c) /\ (d.added = 0 => x = c.next)

Undisturbed(d) == ~d.spoiled /\ d.added <= 1
Complete(d) == d.got = d.expected /\ d.entries = Cardinality(d.expected)

DumpOK(d, a, c, x) ==
    /\ d \in Dumps
    /\ d.state = "asking" => Bounded(d.range)
    /\ d.entries = 0 => d.got = {}
    /\ c.next \in Slots => Straight(c)
    /\ d.state = "asking" /\ d.entries > 0 /\ Undisturbed(d) => UnderWay(d, a, c, x)
    /\ d.state = "done" /\ Undisturbed(d) => Complete(d)

DumpInv == DumpOK(dump, array, Cursor, NextInArray)

LEMMA DumpFields ==
    ASSUME NEW d \in Dumps
    PROVE  /\ d.state \in DumpStates /\ d.range \in [from : Nat, to : Nat]
           /\ d.got \in SUBSET Sample /\ d.entries \in Nat
           /\ d.expected \in SUBSET Sample /\ d.added \in Nat
           /\ d.spoiled \in BOOLEAN
           /\ d = [state |-> d.state, range |-> d.range, got |-> d.got,
                   entries |-> d.entries, expected |-> d.expected, added |-> d.added,
                   spoiled |-> d.spoiled]
<1>1. /\ d.state \in DumpStates /\ d.range \in [from : Nat, to : Nat]
      /\ d.got \in SUBSET Sample /\ d.entries \in Nat
      /\ d.expected \in SUBSET Sample /\ d.added \in Nat
  BY DEF Dumps
<1>2. d.spoiled \in BOOLEAN
  BY DEF Dumps
<1>3. d = [state |-> d.state, range |-> d.range, got |-> d.got,
           entries |-> d.entries, expected |-> d.expected, added |-> d.added,
           spoiled |-> d.spoiled]
  BY DEF Dumps
<1> QED BY <1>1, <1>2, <1>3, Zenon

\* A packet of a whole dump leaves it whole.
LEMMA PacketWhole ==
    ASSUME NEW c \in Cursors, Straight(c), NEW a \in [Slots -> Sample], Apart(a),
           NEW d, Bounded(d.range), Whole(d, a, c), NEW k \in 0 .. StepsLeft(c),
           NEW e, e.range = d.range, e.expected = d.expected,
           e.got = d.got \cup Carried(a, c, d.range, k),
           e.entries = d.entries + Cardinality(Picked(a, c, d.range, k))
    PROVE  Whole(e, a, Moved(c, k))
<1> DEFINE new == Carried(a, c, d.range, k)
           rest == Coming(a, Moved(c, k), d.range)
<1>1. Coming(a, c, d.range) = new \cup rest /\ new \cap rest = {}
  BY CarriedSplit
<1>2. IsFiniteSet(new) /\ Cardinality(new) = Cardinality(Picked(a, c, d.range, k))
  BY CarriedCount
<1>3. /\ d.got \cup Coming(a, c, d.range) = d.expected
      /\ d.got \cap Coming(a, c, d.range) = {}
      /\ IsFiniteSet(d.got) /\ d.entries = Cardinality(d.got)
  BY DEF Whole
<1> HIDE DEF new, rest
<1>4. e.got \cup rest = e.expected /\ e.got \cap rest = {}
  BY <1>1, <1>3 DEF new
<1>5. d.got \cap new = {}
  BY <1>1, <1>3
<1>6. /\ IsFiniteSet(d.got \cup new)
      /\ Cardinality(d.got \cup new) = Cardinality(d.got) + Cardinality(new) - Cardinality({})
  BY <1>2, <1>3, <1>5, FS_Union
<1>7. Cardinality(d.got) \in Nat /\ Cardinality(new) \in Nat /\ Cardinality({}) = 0
  BY <1>2, <1>3, FS_CardinalityType, FS_EmptySet
<1>8. e.entries = Cardinality(e.got) /\ IsFiniteSet(e.got)
  BY <1>2, <1>3, <1>6, <1>7 DEF new
<1> QED BY <1>4, <1>8 DEF Whole, rest

\* When the cursor is at its end nothing is to come.
LEMMA WholeAtEnd ==
    ASSUME NEW c \in Cursors, Straight(c), NEW a, NEW d, Whole(d, a, c), Behind(c), c.i = c.next
    PROVE  Complete(d)
<1>1. c.i \in 0 .. MaxEnergy - 1 /\ MaxEnergy \in Nat
  BY Constants DEF Cursors, Slots
<1>2. StepsLeft(c) = 0
  <2>1. CASE c.flag
    <3>1. StepsLeft(c) = MaxEnergy
      BY <1>1, <2>1, StepsLeftType DEF Straight
    <3>2. SlotAfter(c, 0) = c.next
      BY <1>1, SlotAfterIs
    <3>3. 0 \in 0 .. StepsLeft(c) - 1
      BY <1>1, <3>1
    <3> QED BY <3>2, <3>3 DEF Behind
  <2>2. CASE ~c.flag
    BY <1>1, <2>2, StepsLeftType DEF Straight
  <2> QED BY <2>1, <2>2
<1>3. Coming(a, c, d.range) = {}
  BY <1>2 DEF Coming, Carried, Picked
<1> QED BY <1>3 DEF Whole, Complete

LEMMA BehindMoved ==
    ASSUME NEW c \in Cursors, Straight(c), Behind(c), NEW k \in 0 .. StepsLeft(c)
    PROVE  Behind(Moved(c, k))
<1>1. StepsLeft(c) \in Nat /\ k \in Nat
  BY StepsLeftType
<1>2. /\ StepsLeft(Moved(c, k)) = StepsLeft(c) - k
      /\ \A m \in 0 .. StepsLeft(c) - k - 1 : SlotAfter(Moved(c, k), m) = SlotAfter(c, k + m)
      /\ Moved(c, k).next = c.next
  BY <1>1, MovedWalk, MovedType
<1>3. ASSUME NEW m \in 0 .. StepsLeft(Moved(c, k)) - 1
      PROVE  SlotAfter(Moved(c, k), m) # c.next
  <2>1. m \in 0 .. StepsLeft(c) - k - 1 /\ k + m \in 0 .. StepsLeft(c) - 1
    BY <1>1, <1>2
  <2> QED BY <1>2, <2>1 DEF Behind
<1> QED BY <1>2, <1>3 DEF Behind

\* The first packet begins with all the history has: from the oldest sample on
\* when the array has been full, from its start when it has not.
LEMMA RestartedIs ==
    ASSUME EnergyTypeOK, NextInArray \in Slots
    PROVE  /\ Restarted \in Cursors /\ Straight(Restarted) /\ Restarted.next = NextInArray
           /\ array[NextInArray].time # 0 =>
                 /\ StepsLeft(Restarted) = MaxEnergy
                 /\ \A m \in 0 .. MaxEnergy - 1 :
                       SlotAfter(Restarted, m) = IF NextInArray + m < MaxEnergy
                                                 THEN NextInArray + m
                                                 ELSE NextInArray + m - MaxEnergy
           /\ array[NextInArray].time = 0 =>
                 /\ StepsLeft(Restarted) = NextInArray
                 /\ \A m \in 0 .. NextInArray - 1 : SlotAfter(Restarted, m) = m
<1>1. PICK c \in Cursors : c = Restarted
  BY CursorsAre
<1>2. NextInArray \in 0 .. MaxEnergy - 1 /\ MaxEnergy \in Nat
  BY Constants DEF Slots
<1>3. /\ c.i = IF array[NextInArray].time # 0 THEN NextInArray ELSE 0
      /\ c.next = NextInArray
  BY <1>1 DEF Restarted
<1>4. c.flag = (array[NextInArray].time # 0)
  BY <1>1 DEF Restarted
<1>5. CASE array[NextInArray].time # 0
  <2>1. c.flag /\ c.i = NextInArray
    BY <1>3, <1>4, <1>5
  <2>2. StepsLeft(c) = MaxEnergy
    BY <1>2, <1>3, <2>1, StepsLeftType
  <2>3. ASSUME NEW m \in 0 .. MaxEnergy - 1
        PROVE  SlotAfter(c, m) = IF NextInArray + m < MaxEnergy THEN NextInArray + m
                                 ELSE NextInArray + m - MaxEnergy
    BY <1>2, <2>1, SlotAfterIs
  <2>4. Straight(c)
    BY <1>2, <1>3, <2>1 DEF Straight, Slots
  <2> QED BY <1>1, <1>3, <1>5, <2>2, <2>3, <2>4
<1>6. CASE array[NextInArray].time = 0
  <2>1. ~c.flag /\ c.i = 0
    BY <1>3, <1>4, <1>6
  <2>2. StepsLeft(c) = NextInArray
    BY <1>2, <1>3, <2>1, StepsLeftType
  <2>3. ASSUME NEW m \in 0 .. NextInArray - 1
        PROVE  SlotAfter(c, m) = m
    <3>1. m \in 0 .. MaxEnergy /\ 0 + m = m /\ m < MaxEnergy
      BY <1>2
    <3> QED BY <2>1, <3>1, SlotAfterIs
  <2>4. Straight(c)
    BY <1>3, <2>1 DEF Straight
  <2> QED BY <1>1, <1>3, <1>6, <2>2, <2>3, <2>4
<1> QED BY <1>5, <1>6

LEMMA RestartedWhole ==
    ASSUME EnergyTypeOK, NextInArray \in Slots, LeftToRight(array), NEW range, Bounded(range)
    PROVE  Coming(array, Restarted, range) = {array[i] : i \in InRange(range)}
<1>1. PICK c \in Cursors : c = Restarted
  BY CursorsAre
<1>2. /\ NextInArray \in 0 .. MaxEnergy - 1 /\ MaxEnergy \in Nat
      /\ array \in [Slots -> Sample]
  BY Constants DEF EnergyTypeOK, Slots
<1>3. StepsLeft(c) \in Nat
  BY StepsLeftType
<1>4. ASSUME NEW i \in InRange(range)
      PROVE  \E m \in 0 .. StepsLeft(c) - 1 : SlotAfter(c, m) = i
  <2>1. i \in 0 .. MaxEnergy - 1 /\ i \in Slots /\ array[i].time # 0
    <3>1. i \in Slots /\ array[i].time >= range.from /\ array[i].time \in Nat
      BY <1>2 DEF InRange, Sample
    <3> QED BY <3>1 DEF Bounded, Slots
  <2>2. CASE array[NextInArray].time # 0
    <3>1. StepsLeft(c) = MaxEnergy
      BY <1>1, <2>2, RestartedIs
    <3>2. \A m \in 0 .. MaxEnergy - 1 :
             SlotAfter(c, m) = IF NextInArray + m < MaxEnergy THEN NextInArray + m
                               ELSE NextInArray + m - MaxEnergy
      BY <1>1, <2>2, RestartedIs
    <3>3. CASE i >= NextInArray
      <4>1. i - NextInArray \in 0 .. MaxEnergy - 1
        BY <1>2, <2>1, <3>3
      <4>2. NextInArray + (i - NextInArray) < MaxEnergy /\ NextInArray + (i - NextInArray) = i
        BY <1>2, <2>1
      <4>3. SlotAfter(c, i - NextInArray) = i
        BY <3>2, <4>1, <4>2
      <4> QED BY <3>1, <4>1, <4>3
    <3>4. CASE ~(i >= NextInArray)
      <4>1. i + MaxEnergy - NextInArray \in 0 .. MaxEnergy - 1
        BY <1>2, <2>1, <3>4
      <4>2. /\ ~(NextInArray + (i + MaxEnergy - NextInArray) < MaxEnergy)
            /\ NextInArray + (i + MaxEnergy - NextInArray) - MaxEnergy = i
        BY <1>2, <2>1
      <4>3. SlotAfter(c, i + MaxEnergy - NextInArray) = i
        BY <3>2, <4>1, <4>2
      <4> QED BY <3>1, <4>1, <4>3
    <3> QED BY <3>3, <3>4
  <2>3. CASE array[NextInArray].time = 0
    <3>1. i < NextInArray
      <4>1. NextInArray \in Slots
        BY <1>2 DEF Slots
      <4>2. ~(NextInArray <= i)
        BY <2>1, <2>3, <4>1 DEF LeftToRight
      <4> QED BY <1>2, <2>1, <4>2
    <3>2. i \in 0 .. NextInArray - 1
      BY <1>2, <2>1, <3>1
    <3> QED BY <1>1, <2>3, <3>2, RestartedIs
  <2> QED BY <2>2, <2>3
<1>5. ASSUME NEW i \in InRange(range)
      PROVE  array[i] \in Coming(array, c, range)
  <2>1. PICK m \in 0 .. StepsLeft(c) - 1 : SlotAfter(c, m) = i
    BY <1>4
  <2> QED BY <2>1 DEF Coming, Carried, Picked, Fits, InRange
<1>6. ASSUME NEW x \in Coming(array, c, range)
      PROVE  \E i \in InRange(range) : x = array[i]
  <2>1. PICK m \in 0 .. StepsLeft(c) - 1 :
           Fits(array[SlotAfter(c, m)], range) /\ x = array[SlotAfter(c, m)]
    BY <1>6 DEF Coming, Carried, Picked
  <2>2. m \in Nat
    BY <1>3
  <2>3. SlotAfter(c, m) \in Slots
    BY <2>2, SlotAfterType
  <2> QED BY <2>1, <2>3 DEF Fits, InRange
<1> QED BY <1>1, <1>5, <1>6

\* After the first packet the slot the next sample goes to is behind the cursor.
LEMMA RestartedBehind ==
    ASSUME EnergyTypeOK, NextInArray \in Slots, NEW k \in 0 .. StepsLeft(Restarted),
           k = 0 => StepsLeft(Restarted) = 0
    PROVE  Behind(Moved(Restarted, k))
<1>1. PICK c \in Cursors : c = Restarted
  BY CursorsAre
<1>2. /\ NextInArray \in 0 .. MaxEnergy - 1 /\ MaxEnergy \in Nat
      /\ Straight(c) /\ c.next = NextInArray
  BY <1>1, RestartedIs, Constants DEF EnergyTypeOK, Slots
<1>3. StepsLeft(c) \in Nat /\ k \in Nat /\ k \in 0 .. StepsLeft(c)
  BY <1>1, StepsLeftType
<1>4. /\ StepsLeft(Moved(c, k)) = StepsLeft(c) - k
      /\ \A m \in 0 .. StepsLeft(c) - k - 1 : SlotAfter(Moved(c, k), m) = SlotAfter(c, k + m)
      /\ Moved(c, k).next = NextInArray
  BY <1>2, <1>3, MovedWalk, MovedType
<1>5. ASSUME NEW m \in 0 .. StepsLeft(c) - k - 1
      PROVE  SlotAfter(c, k + m) # NextInArray
  <2>1. k + m \in 0 .. StepsLeft(c) - 1 /\ k + m > 0
    BY <1>1, <1>3
  <2>2. CASE array[NextInArray].time # 0
    <3>1. /\ k + m \in 0 .. MaxEnergy - 1
          /\ SlotAfter(c, k + m) = IF NextInArray + (k + m) < MaxEnergy
                                   THEN NextInArray + (k + m)
                                   ELSE NextInArray + (k + m) - MaxEnergy
      BY <1>1, <2>1, <2>2, RestartedIs
    <3> QED BY <1>2, <2>1, <3>1
  <2>3. CASE array[NextInArray].time = 0
    <3>1. k + m \in 0 .. NextInArray - 1 /\ SlotAfter(c, k + m) = k + m
      BY <1>1, <2>1, <2>3, RestartedIs
    <3> QED BY <1>2, <3>1
  <2>4. array[NextInArray].time \in Nat
    BY <1>2 DEF EnergyTypeOK, Sample, Slots
  <2> QED BY <2>2, <2>3
<1>6. Behind(Moved(c, k))
  BY <1>4, <1>5 DEF Behind
<1> QED BY <1>1, <1>6

\* The history may change where the cursor does not come any more.
LEMMA StoredWhole ==
    ASSUME NEW c \in Cursors, NEW a \in [Slots -> Sample], NEW b,
           NEW s, b = [a EXCEPT ![c.next] = s], NEW d, NEW e, Whole(d, a, c), Behind(c),
           e.range = d.range, e.expected = d.expected, e.got = d.got, e.entries = d.entries
    PROVE  Whole(e, b, c)
<1>1. StepsLeft(c) \in Nat
  BY StepsLeftType
<1>2. ASSUME NEW m \in 0 .. StepsLeft(c) - 1
      PROVE  b[SlotAfter(c, m)] = a[SlotAfter(c, m)]
  <2>1. SlotAfter(c, m) \in Slots
    BY <1>1, SlotAfterType
  <2> QED BY <2>1 DEF Behind
<1>3. Coming(b, c, d.range) = Coming(a, c, d.range)
  <2>1. Picked(b, c, d.range, StepsLeft(c)) = Picked(a, c, d.range, StepsLeft(c))
    BY <1>2 DEF Picked
  <2>2. \A m \in Picked(a, c, d.range, StepsLeft(c)) : m \in 0 .. StepsLeft(c) - 1
    BY DEF Picked
  <2> QED BY <1>2, <2>1, <2>2 DEF Coming, Carried
<1> QED BY <1>3 DEF Whole

LEMMA DumpStored ==
    ASSUME EnergyTypeOK, DumpInv, UNCHANGED cursorVars,
           dump' = [dump EXCEPT !.added = @ + 1],
           NextInArray \in Slots => array' = [array EXCEPT ![NextInArray] = Newest]
    PROVE  DumpInv'
<1>1. PICK d \in Dumps : d = dump
  BY DEF DumpInv, DumpOK
<1>2. PICK e : e = dump'
  OBVIOUS
<1>3. /\ e = [state |-> d.state, range |-> d.range, got |-> d.got, entries |-> d.entries,
             expected |-> d.expected, added |-> d.added + 1, spoiled |-> d.spoiled]
      /\ d.added + 1 \in Nat
  <2>1. d = [state |-> d.state, range |-> d.range, got |-> d.got, entries |-> d.entries,
             expected |-> d.expected, added |-> d.added, spoiled |-> d.spoiled]
    BY DumpFields
  <2>2. e = [d EXCEPT !.added = d.added + 1]
    BY <1>1, <1>2
  <2>3. d.added \in Nat
    BY DumpFields
  <2> QED BY <2>1, <2>2, <2>3
<1>4. /\ e.state = d.state /\ e.range = d.range /\ e.got = d.got /\ e.entries = d.entries
      /\ e.expected = d.expected /\ e.added = d.added + 1
  BY <1>3
<1>5. e.spoiled = d.spoiled
  BY <1>3
<1>6. e \in Dumps
  BY <1>3, DumpFields DEF Dumps
<1>7. PICK c \in Cursors : c = Cursor /\ c = Cursor'
  <2>1. Cursor \in Cursors
    BY CursorsAre DEF Continued
  <2>2. Cursor' = Cursor
    BY DEF Cursor, cursorVars
  <2> QED BY <2>1, <2>2
<1>8. DumpOK(d, array, c, NextInArray)
  BY <1>1, <1>7 DEF DumpInv
<1>9. ASSUME e.state = "asking", e.entries > 0, Undisturbed(e)
      PROVE  UnderWay(e, array', c, NextInArray')
  <2>1. d.added = 0 /\ e.added # 0
    <3>1. d.added \in Nat
      BY DumpFields
    <3> QED BY <1>4, <1>9, <3>1 DEF Undisturbed
  <2>2. Undisturbed(d)
    BY <1>5, <1>9, <2>1 DEF Undisturbed
  <2>3. UnderWay(d, array, c, NextInArray)
    BY <1>4, <1>8, <1>9, <2>2 DEF DumpOK
  <2>4. c.next = NextInArray /\ Straight(c) /\ Whole(d, array, c) /\ Behind(c)
    BY <2>1, <2>3 DEF UnderWay
  <2>5. array \in [Slots -> Sample] /\ array' = [array EXCEPT ![c.next] = Newest]
    BY <2>4 DEF EnergyTypeOK, Straight
  <2>6. Whole(e, array', c)
    BY <1>4, <2>4, <2>5, StoredWhole
  <2> QED BY <2>1, <2>4, <2>6 DEF UnderWay
<1>10. ASSUME e.state = "done", Undisturbed(e)
       PROVE  Complete(e)
  <2>1. Undisturbed(d)
    <3>1. d.added \in Nat /\ e.added <= 1 /\ ~e.spoiled
      BY <1>10, DumpFields DEF Undisturbed
    <3>2. d.added <= 1
      BY <1>4, <3>1
    <3> QED BY <1>5, <3>1, <3>2 DEF Undisturbed
  <2>2. Complete(d)
    BY <1>4, <1>8, <1>10, <2>1 DEF DumpOK
  <2> QED BY <1>4, <2>2 DEF Complete
<1>11. DumpOK(e, array', c, NextInArray')
  BY <1>4, <1>6, <1>8, <1>9, <1>10 DEF DumpOK
<1> QED BY <1>2, <1>7, <1>11 DEF DumpInv

\* The records a packet makes of a dump.
LEMMA BegunIs ==
    ASSUME NEW d \in Dumps, NEW E, NEW z
    PROVE  [d EXCEPT !.expected = E, !.added = 0, !.spoiled = z]
               = [state |-> d.state, range |-> d.range, got |-> d.got, entries |-> d.entries,
                  expected |-> E, added |-> 0, spoiled |-> z]
<1>1. d = [state |-> d.state, range |-> d.range, got |-> d.got, entries |-> d.entries,
           expected |-> d.expected, added |-> d.added, spoiled |-> d.spoiled]
  BY DumpFields
<1>2. PICK v : v = [d EXCEPT !.expected = E]
  OBVIOUS
<1>3. v = [state |-> d.state, range |-> d.range, got |-> d.got, entries |-> d.entries,
           expected |-> E, added |-> d.added, spoiled |-> d.spoiled]
  BY <1>1, <1>2
<1>4. PICK w : w = [v EXCEPT !.added = 0]
  OBVIOUS
<1>5. w = [state |-> d.state, range |-> d.range, got |-> d.got, entries |-> d.entries,
           expected |-> E, added |-> 0, spoiled |-> d.spoiled]
  BY <1>3, <1>4
<1>6. PICK q : q = [w EXCEPT !.spoiled = z]
  OBVIOUS
<1>7. q = [state |-> d.state, range |-> d.range, got |-> d.got, entries |-> d.entries,
           expected |-> E, added |-> 0, spoiled |-> z]
  BY <1>5, <1>6
<1> QED BY <1>2, <1>4, <1>6, <1>7, Zenon

LEMMA AnsweredIs ==
    ASSUME NEW s, NEW r, NEW g, NEW n, NEW x, NEW y, NEW z, NEW u,
           u = [state |-> s, range |-> r, got |-> g, entries |-> n, expected |-> x,
                added |-> y, spoiled |-> z],
           NEW G, NEW N, NEW S
    PROVE  [u EXCEPT !.got = @ \cup G, !.entries = @ + N, !.state = S]
               = [state |-> S, range |-> r, got |-> g \cup G, entries |-> n + N,
                  expected |-> x, added |-> y, spoiled |-> z]
<1>1. u.got = g /\ u.entries = n
  OBVIOUS
<1>2. PICK got, entries : got = g \cup G /\ entries = n + N
  OBVIOUS
<1>3. PICK v : v = [u EXCEPT !.got = got]
  OBVIOUS
<1>4. v = [state |-> s, range |-> r, got |-> got, entries |-> n, expected |-> x,
           added |-> y, spoiled |-> z]
  BY <1>3
<1>5. PICK w : w = [v EXCEPT !.entries = entries]
  OBVIOUS
<1>6. w = [state |-> s, range |-> r, got |-> got, entries |-> entries, expected |-> x,
           added |-> y, spoiled |-> z]
  BY <1>4, <1>5
<1>7. [w EXCEPT !.state = S]
          = [state |-> S, range |-> r, got |-> got, entries |-> entries, expected |-> x,
             added |-> y, spoiled |-> z]
  BY <1>6
<1> QED BY <1>1, <1>2, <1>3, <1>5, <1>7, Zenon

\* A packet to the client, whether its answer arrives or not.
LEMMA DumpPacketIs ==
    ASSUME EnergyTypeOK, SlotsInv, DumpInv, NEW answered \in BOOLEAN, DumpPacket(answered)
    PROVE  DumpInv'
<1> DEFINE first == dump.entries = 0
<1>1. PICK d \in Dumps : d = dump
  BY DEF DumpInv, DumpOK
<1>2. PICK c \in Cursors : c = IF first THEN Restarted ELSE Continued
  BY CursorsAre
<1>3. PICK k \in 0 .. StepsLeft(c) :
         /\ Packet(c, d.range) = [sent |-> Sent(c, d.range, k), cursor |-> Moved(c, k)]
         /\ k = 0 => StepsLeft(c) = 0
  BY PacketIs
<1>4. k \in Nat
  BY StepsLeftType
<1>5. PICK m \in Cursors : m = Moved(c, k) /\ m.next = c.next
  BY <1>4, MovedType
<1>6. Cursor' = m
  <2>1. SetCursor(m)
    <3>1. SetCursor(Packet(c, d.range).cursor)
      BY <1>1, <1>2 DEF DumpPacket, Asked
    <3> QED BY <1>3, <1>5, <3>1
  <2>2. m = [i |-> m.i, flag |-> m.flag, next |-> m.next]
    BY DEF Cursors
  <2>3. Cursor' = [i |-> m.i, flag |-> m.flag, next |-> m.next]
    BY <2>1, Zenon DEF SetCursor, Cursor
  <2> QED BY <2>2, <2>3
<1>7. DumpOK(d, array, Cursor, NextInArray) /\ d.state = "asking" /\ Bounded(d.range)
  BY <1>1 DEF DumpInv, DumpOK, DumpPacket
<1>8. /\ c.next \in Slots => Straight(c)
      /\ first => c.next = NextInArray
  <2>1. CASE first
    BY <1>2, <2>1, RestartedIs DEF Restarted
  <2>2. CASE ~first
    BY <1>2, <1>7, <2>2 DEF Continued, DumpOK
  <2> QED BY <2>1, <2>2
<1>9. m.next \in Slots => Straight(m)
  BY <1>5, <1>8, MovedWalk
<1>10. array \in [Slots -> Sample] /\ Apart(array) /\ array' = array /\ NextInArray' = NextInArray
  BY DEF EnergyTypeOK, SlotsInv, Apart, DumpPacket, historyVars
<1> DEFINE sent == Picked(array, c, d.range, k)
           new == Carried(array, c, d.range, k)
           lost == broken \/ c.next \notin Slots
           asked == IF first THEN [d EXCEPT !.expected = {array[i] : i \in InRange(d.range)},
                                            !.added = 0, !.spoiled = lost]
                    ELSE d
<1>11. Sent(c, d.range, k) = sent /\ {array[SlotAfter(c, n)] : n \in Sent(c, d.range, k)} = new
  BY <1>4, SentIs DEF Carried
<1>12. dump' = IF answered
               THEN [asked EXCEPT !.got = @ \cup new, !.entries = @ + Cardinality(sent),
                                  !.state = IF m.i = m.next THEN "done" ELSE "asking"]
               ELSE [asked EXCEPT !.spoiled = TRUE]
  <2> DEFINE C == IF first THEN Restarted ELSE Continued
             P == Packet(C, d.range)
             X == {array[SlotAfter(C, n)] : n \in P.sent}
             Z == IF first THEN [d EXCEPT !.expected = {array[i] : i \in InRange(d.range)},
                                          !.added = 0, !.spoiled = broken \/ C.next \notin Slots]
                  ELSE d
  <2>1. dump' = IF answered
                THEN [Z EXCEPT !.got = @ \cup X, !.entries = @ + Cardinality(P.sent),
                                   !.state = IF P.cursor.i = P.cursor.next
                                             THEN "done" ELSE "asking"]
                ELSE [Z EXCEPT !.spoiled = TRUE]
    BY <1>1, Zenon DEF DumpPacket, Asked
  <2>2. C = c
    BY <1>2
  <2>3. P.sent = Sent(c, d.range, k) /\ P.cursor = m
    BY <1>3, <1>5, <2>2
  <2>4. P.sent = sent /\ X = new
    BY <1>11, <2>2, <2>3
  <2> HIDE DEF C
  <2>5. Z = asked
    BY <2>2, Zenon
  <2> HIDE DEF P, X, Z, asked, new, sent
  <2> QED BY <2>1, <2>3, <2>4, <2>5, Zenon
<1> HIDE DEF new, sent, lost
\* What the client sees of it.
<1>13. PICK e : e = dump'
  OBVIOUS
<1>14. PICK E \in SUBSET Sample : E = {array[i] : i \in InRange(d.range)}
  BY <1>10 DEF InRange
<1>15. new \in SUBSET Sample /\ Cardinality(sent) \in Nat /\ (Cardinality(sent) = 0 => new = {})
  <2>1. IsFiniteSet(sent)
    BY <1>4, PickedFinite DEF sent
  <2>2. \A n \in sent : SlotAfter(c, n) \in Slots
    BY SlotAfterType DEF sent, Picked
  <2>3. new = {array[SlotAfter(c, n)] : n \in sent}
    BY DEF new, sent, Carried
  <2> QED BY <1>10, <2>1, <2>2, <2>3, FS_CardinalityType, FS_EmptySet
<1>16. PICK x \in SUBSET Sample, y \in Nat, z \in BOOLEAN :
          /\ asked = [state |-> d.state, range |-> d.range, got |-> d.got,
                      entries |-> d.entries, expected |-> x, added |-> y, spoiled |-> z]
          /\ first => x = E /\ y = 0 /\ z = lost
          /\ ~first => x = d.expected /\ y = d.added /\ z = d.spoiled
  <2>1. CASE first
    <3>1. asked = [state |-> d.state, range |-> d.range, got |-> d.got,
                   entries |-> d.entries, expected |-> E, added |-> 0, spoiled |-> lost]
      BY <1>14, <2>1, BegunIs, Zenon
    <3>2. 0 \in Nat
      OBVIOUS
    <3>3. lost \in BOOLEAN
      BY Zenon DEF lost
    <3> HIDE DEF asked, first
    <3> QED BY <2>1, <3>1, <3>2, <3>3, Zenon
  <2>2. CASE ~first
    <3>1. asked = d
      BY <2>2
    <3> HIDE DEF asked, first
    <3> QED BY <2>2, <3>1, DumpFields, Zenon
  <2> QED BY <2>1, <2>2, Zenon
<1> HIDE DEF asked
<1>17. CASE answered
  <2>1. PICK S \in DumpStates : S = IF m.i = m.next THEN "done" ELSE "asking"
    BY DEF DumpStates
  <2>2. e = [state |-> S, range |-> d.range, got |-> d.got \cup new,
             entries |-> d.entries + Cardinality(sent), expected |-> x,
             added |-> y, spoiled |-> z]
    <3>1. e = [asked EXCEPT !.got = @ \cup new, !.entries = @ + Cardinality(sent),
                            !.state = S]
      BY <1>12, <1>13, <1>17, <2>1, Zenon
    <3> QED BY <1>16, <3>1, AnsweredIs, Zenon
  <2>5. e \in Dumps
    <3>1. /\ d.range \in [from : Nat, to : Nat] /\ d.got \cup new \in SUBSET Sample
          /\ d.entries + Cardinality(sent) \in Nat
      BY <1>15, DumpFields
    <3> QED BY <2>2, <3>1 DEF Dumps
  <2>6. /\ e.state = S /\ e.range = d.range /\ e.got = d.got \cup new
        /\ e.entries = d.entries + Cardinality(sent)
        /\ first => e.expected = E /\ e.added = 0
        /\ ~first => e.expected = d.expected /\ e.added = d.added
    BY <1>16, <2>2
  <2>7. (~first => e.spoiled = d.spoiled) /\ (first => e.spoiled = lost)
    <3>1. e.spoiled = z
      BY <2>2
    <3> QED BY <1>16, <3>1, Zenon
  <2>8. ASSUME Undisturbed(e)
        PROVE  UnderWay(e, array, m, NextInArray)
    <3>1. CASE first
      <4>1. c = Restarted /\ c.next = NextInArray
        BY <1>2, <1>8, <3>1
      <4>7. ~broken /\ c.next \in Slots
        BY <2>7, <2>8, <3>1, Zenon DEF Undisturbed, lost
      <4>8. NextInArray \in Slots /\ LeftToRight(array) /\ Straight(c) /\ Straight(m)
        BY <1>5, <1>8, <1>9, <4>1, <4>7 DEF SlotsInv
      <4>2. d.entries = 0 /\ d.got = {}
        BY <1>1, <1>7, <3>1 DEF DumpOK
      <4>3. PICK u : u = [range |-> d.range, got |-> d.got, entries |-> d.entries,
                          expected |-> E]
        OBVIOUS
      <4>4. Whole(u, array, c)
        <5>1. Coming(array, c, d.range) = E
          BY <1>7, <1>14, <4>1, <4>8, RestartedWhole
        <5>2. IsFiniteSet({}) /\ Cardinality({}) = 0
          BY FS_EmptySet
        <5>3. u.got = {} /\ u.entries = 0 /\ u.expected = E /\ u.range = d.range
          BY <4>2, <4>3
        <5> QED BY <5>1, <5>2, <5>3 DEF Whole
      <4>5. Whole(e, array, m)
        <5>1. /\ e.range = u.range /\ e.expected = u.expected
              /\ e.got = u.got \cup Carried(array, c, u.range, k)
              /\ e.entries = u.entries + Cardinality(Picked(array, c, u.range, k))
              /\ Bounded(u.range)
          BY <1>7, <2>6, <3>1, <4>3 DEF new, sent
        <5> QED BY <1>5, <1>10, <4>4, <4>8, <5>1, PacketWhole
      <4>6. Behind(m)
        BY <1>3, <1>5, <4>1, <4>8, RestartedBehind
      <4> QED BY <1>5, <4>1, <4>5, <4>6, <4>8 DEF UnderWay
    <3>2. CASE ~first
      <4>1. c = Cursor
        BY <1>2, <3>2 DEF Continued
      <4>2. d.entries > 0
        BY <1>1, <3>2, DumpFields
      <4>3. Undisturbed(d)
        BY <2>6, <2>7, <2>8, <3>2 DEF Undisturbed
      <4>4. UnderWay(d, array, c, NextInArray)
        BY <1>7, <4>1, <4>2, <4>3 DEF DumpOK
      <4>7. Straight(c) /\ Straight(m)
        BY <1>5, <1>9, <4>4 DEF UnderWay, Straight
      <4>5. Whole(e, array, m)
        <5>1. /\ e.range = d.range /\ e.expected = d.expected
              /\ e.got = d.got \cup Carried(array, c, d.range, k)
              /\ e.entries = d.entries + Cardinality(Picked(array, c, d.range, k))
          BY <2>6, <3>2 DEF new, sent
        <5> QED BY <1>5, <1>7, <1>10, <4>4, <4>7, <5>1, PacketWhole DEF UnderWay
      <4>6. Behind(m)
        BY <1>5, <4>4, <4>7, BehindMoved DEF UnderWay
      <4> QED BY <1>5, <2>6, <3>2, <4>4, <4>5, <4>6, <4>7 DEF UnderWay
    <3> QED BY <3>1, <3>2
  <2>9. e.state = "done" /\ Undisturbed(e) => Complete(e)
    BY <2>1, <2>6, <2>8, WholeAtEnd DEF UnderWay
  <2>10. e.entries = 0 => e.got = {}
    <3>1. d.entries \in Nat
      BY DumpFields
    <3> QED BY <1>7, <1>15, <2>6, <3>1 DEF DumpOK
  <2>11. DumpOK(e, array, m, NextInArray)
    BY <1>7, <1>9, <2>5, <2>6, <2>8, <2>9, <2>10 DEF DumpOK
  <2> QED BY <1>6, <1>10, <1>13, <2>11 DEF DumpInv
<1>18. CASE ~answered
  <2>1. e = [state |-> d.state, range |-> d.range, got |-> d.got, entries |-> d.entries,
             expected |-> x, added |-> y, spoiled |-> TRUE]
    <3>1. e = [asked EXCEPT !.spoiled = TRUE]
      BY <1>12, <1>13, <1>18, Zenon
    <3> QED BY <1>16, <3>1
  <2>2. e \in Dumps
    BY <2>1, DumpFields DEF Dumps
  <2>3. e.state = d.state /\ e.range = d.range /\ e.got = d.got /\ e.entries = d.entries
    BY <2>1
  <2>4. ~Undisturbed(e)
    BY <2>1 DEF Undisturbed
  <2>5. DumpOK(e, array, m, NextInArray)
    BY <1>7, <1>9, <2>2, <2>3, <2>4 DEF DumpOK
  <2> QED BY <1>6, <1>10, <1>13, <2>5 DEF DumpInv
<1> QED BY <1>17, <1>18

\* A dump that has not begun, or just has.
LEMMA FreshDump ==
    ASSUME NEW e, NEW s \in DumpStates \ {"done"}, NEW r \in [from : Nat, to : Nat],
           s = "asking" => Bounded(r),
           e = [state |-> s, range |-> r, got |-> {}, entries |-> 0,
                expected |-> {}, added |-> 0, spoiled |-> FALSE],
           NEW a, NEW c, c.next \in Slots => Straight(c), NEW x
    PROVE  DumpOK(e, a, c, x)
<1>1. e \in Dumps
  BY DEF Dumps, DumpStates
<1>2. /\ e.state = s /\ e.range = r /\ e.entries = 0 /\ e.got = {}
      /\ s # "done" /\ ~(e.entries > 0)
  OBVIOUS
<1> QED BY <1>1, <1>2 DEF DumpOK

LEMMA InitDump ==
    ASSUME EnergyInit
    PROVE  DumpInv
<1>1. dump = [state |-> "none", range |-> [from |-> 0, to |-> 0], got |-> {}, entries |-> 0,
              expected |-> {}, added |-> 0, spoiled |-> FALSE]
  BY DEF EnergyInit, NoDump
<1>2. Straight(Cursor)
  BY WordsAre DEF EnergyInit, Cursor, Straight
<1>3. [from |-> 0, to |-> 0] \in [from : Nat, to : Nat] /\ "none" \in DumpStates \ {"done"}
      /\ "none" # "asking"
  BY DEF DumpStates
<1> QED BY <1>1, <1>2, <1>3, FreshDump, Zenon DEF DumpInv

LEMMA StartDumpIs ==
    ASSUME DumpInv, StartDump
    PROVE  DumpInv'
<1>1. PICK r \in Ranges : dump' = [NoDump EXCEPT !.state = "asking", !.range = r]
  BY DEF StartDump
<1>2. PICK v : v = [NoDump EXCEPT !.state = "asking"]
  OBVIOUS
<1>3. v = [state |-> "asking", range |-> [from |-> 0, to |-> 0], got |-> {}, entries |-> 0,
           expected |-> {}, added |-> 0, spoiled |-> FALSE]
  BY <1>2 DEF NoDump
<1>4. PICK e : e = [v EXCEPT !.range = r]
  OBVIOUS
<1>5. e = [state |-> "asking", range |-> r, got |-> {}, entries |-> 0,
           expected |-> {}, added |-> 0, spoiled |-> FALSE]
  BY <1>3, <1>4
<1>6. dump' = e
  BY <1>1, <1>2, <1>4, Zenon
<1>7. r \in [from : Nat, to : Nat] /\ Bounded(r)
  BY EnergyArrayAssumption DEF Bounded
<1>8. Cursor' = Cursor /\ (Cursor.next \in Slots => Straight(Cursor))
  BY DEF StartDump, cursorVars, Cursor, DumpInv, DumpOK
<1>9. PICK c : c = Cursor
  OBVIOUS
<1>10. DumpOK(e, array', c, NextInArray')
  <2>1. "asking" \in DumpStates \ {"done"}
    BY DEF DumpStates
  <2> QED BY <1>5, <1>7, <1>8, <1>9, <2>1, FreshDump
<1> QED BY <1>6, <1>8, <1>9, <1>10 DEF DumpInv

LEMMA OtherDumpIs ==
    ASSUME EnergyTypeOK, SlotsInv, DumpInv, OtherDump
    PROVE  DumpInv'
<1>1. PICK d \in Dumps : d = dump
  BY DEF DumpInv, DumpOK
<1>2. PICK r \in Ranges, c \in {Restarted, Continued} : SetCursor(Packet(c, r).cursor)
  BY DEF OtherDump
<1>3. DumpOK(d, array, Cursor, NextInArray)
  BY <1>1 DEF DumpInv
<1>4. c \in Cursors /\ (c.next \in Slots => Straight(c))
  <2>1. CASE c = Restarted
    BY <2>1, CursorsAre, RestartedIs DEF Restarted
  <2>2. CASE c = Continued
    BY <1>3, <2>2, CursorsAre DEF Continued, DumpOK
  <2> QED BY <1>2, <2>1, <2>2
<1>5. PICK k \in 0 .. StepsLeft(c) : Packet(c, r) = [sent |-> Sent(c, r, k), cursor |-> Moved(c, k)]
  BY <1>4, PacketIs
<1>6. PICK m \in Cursors : m = Moved(c, k) /\ (m.next \in Slots => Straight(m))
  <2>1. k \in Nat
    BY <1>4, StepsLeftType
  <2> QED BY <1>4, <2>1, MovedType, MovedWalk
<1>7. Cursor' = m
  <2>1. SetCursor(m)
    BY <1>2, <1>5, <1>6
  <2>2. m = [i |-> m.i, flag |-> m.flag, next |-> m.next]
    BY DEF Cursors
  <2>3. Cursor' = [i |-> m.i, flag |-> m.flag, next |-> m.next]
    BY <2>1, Zenon DEF SetCursor, Cursor
  <2> QED BY <2>2, <2>3
<1>8. PICK e : e = dump'
  OBVIOUS
<1>9. e = [state |-> d.state, range |-> d.range, got |-> d.got, entries |-> d.entries,
           expected |-> d.expected, added |-> d.added, spoiled |-> TRUE]
  <2>1. e = [d EXCEPT !.spoiled = TRUE]
    BY <1>1, <1>8 DEF OtherDump
  <2>2. d = [state |-> d.state, range |-> d.range, got |-> d.got, entries |-> d.entries,
             expected |-> d.expected, added |-> d.added, spoiled |-> d.spoiled]
    BY DumpFields
  <2> QED BY <2>1, <2>2
<1>10. e \in Dumps
  BY <1>9, DumpFields DEF Dumps
<1>11. e.state = d.state /\ e.range = d.range /\ e.got = d.got /\ e.entries = d.entries
  BY <1>9
<1>12. ~Undisturbed(e)
  BY <1>9 DEF Undisturbed
<1>13. PICK a, x : a = array' /\ x = NextInArray'
  OBVIOUS
<1>14. DumpOK(e, a, m, x)
  BY <1>3, <1>6, <1>10, <1>11, <1>12 DEF DumpOK
<1> QED BY <1>7, <1>8, <1>13, <1>14 DEF DumpInv

LEMMA RestartIs ==
    ASSUME EnergyRestart
    PROVE  DumpInv'
<1>1. PICK e, c : e = dump' /\ c = Cursor'
  OBVIOUS
<1>2. e = [state |-> "none", range |-> [from |-> 0, to |-> 0], got |-> {}, entries |-> 0,
           expected |-> {}, added |-> 0, spoiled |-> FALSE]
  BY <1>1 DEF EnergyRestart, NoDump
<1>3. Straight(c)
  BY <1>1, WordsAre DEF EnergyRestart, Cursor, Straight
<1>4. PICK a, x : a = array' /\ x = NextInArray'
  OBVIOUS
<1>5. DumpOK(e, a, c, x)
  <2>1. [from |-> 0, to |-> 0] \in [from : Nat, to : Nat] /\ "none" \in DumpStates \ {"done"}
        /\ "none" # "asking"
    BY DEF DumpStates
  <2> QED BY <1>2, <1>3, <2>1, FreshDump
<1> QED BY <1>1, <1>4, <1>5 DEF DumpInv

LEMMA StepDump ==
    ASSUME EnergyTypeOK, SlotsInv, DumpInv, [Next]_vars
    PROVE  DumpInv'
<1>1. ASSUME UNCHANGED <<historyVars, cursorVars, dump>>
      PROVE  DumpInv'
  BY <1>1 DEF historyVars, cursorVars, DumpInv, Cursor
<1>2. CASE Loop
  <2>1. UNCHANGED cursorVars
    BY <1>2, LoopIs
  <2>2. CASE UNCHANGED <<historyVars, dump>>
    BY <1>1, <2>1, <2>2
  <2>3. CASE /\ dump' = [dump EXCEPT !.added = @ + 1]
             /\ NextInArray \in Slots => array' = [array EXCEPT ![NextInArray] = Newest]
    BY <2>1, <2>3, DumpStored
  <2> QED BY <1>2, <2>2, <2>3, LoopIs
<1>3. CASE Line \/ SlowEnds \/ DumpHangs \/ UNCHANGED vars
  BY <1>1, <1>3 DEF Line, SlowEnds, DumpHangs, vars, energyVars
<1>4. CASE TimePasses \/ PrintEnds
  BY <1>1, <1>4 DEF TimePasses, EnergyMinute, PrintEnds, PrintArray
<1>5. CASE DumpsOn
  BY <1>5, DumpPacketIs DEF DumpsOn
<1>6. CASE Disturbance
  <2>1. CASE UNCHANGED energyVars \/ SwitchRelay \/ PrintArray
    BY <1>1, <2>1 DEF energyVars, SwitchRelay, PrintArray
  <2>2. CASE DumpPacket(FALSE)
    BY <2>2, DumpPacketIs
  <2>3. CASE StartDump
    BY <2>3, StartDumpIs
  <2>4. CASE OtherDump
    BY <2>4, OtherDumpIs
  <2>5. CASE PowerFails
    BY <2>5, RestartIs DEF PowerFails
  <2> QED BY <1>6, <2>1, <2>2, <2>3, <2>4, <2>5 DEF Disturbance
<1> QED BY <1>2, <1>3, <1>4, <1>5, <1>6 DEF Next

\* A client that dumps the history in packets gets every sample of its range that
\* was there when it began, and none twice, whatever its size, the packets and the
\* range, though one sample may come in meanwhile, also after power failures that
\* left the index in another slot; unless its dump is disturbed by another, an
\* answer is lost, it began when the index was no slot, or power has failed in the
\* clearing of the history (COOMAND_GET_CURRENT_ENERGY_ARRAY).
THEOREM DumpsAreComplete == Spec => []DumpComplete
<1>1. Init => SlotsInv /\ DumpInv
  BY InitSlots, InitDump DEF Init
<1>2. TypeOK => EnergyTypeOK /\ HistoryType
  BY DEF TypeOK, EnergyTypeOK, HistoryType
<1>3. TypeOK /\ SlotsInv /\ DumpInv /\ [Next]_vars => (SlotsInv /\ DumpInv)'
  BY <1>2, StepSlots, StepDump
<1>4. DumpInv => DumpComplete
  BY DEF DumpInv, DumpOK, DumpComplete, Undisturbed, Complete
<1> QED BY <1>1, <1>3, <1>4, MeasureTypeCorrect, PTL DEF Spec
=============================================================================
