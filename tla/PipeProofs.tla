----------------------------- MODULE PipeProofs -----------------------------
(***************************************************************************)
(* Proofs about pipes (module Pipe), for any numbers of readers and        *)
(* writers, any size of the ring and any range of the counters that is a   *)
(* multiple of it: pipes are bounded queues, and a read of 0 bytes means   *)
(* the end of the file.                                                    *)
(***************************************************************************)
EXTENDS Pipe, TLAPS

-----------------------------------------------------------------------------
(* Remainders. *)

\* A positive multiple of m is no less than m.
LEMMA MulAtLeast == ASSUME NEW m \in Nat \ {0}, NEW d \in Int, d >= 1 PROVE m * d >= m
  OBVIOUS

\* Quotient and remainder.
LEMMA DivMod ==
    ASSUME NEW m \in Nat \ {0}, NEW x \in Int
    PROVE  x = m * (x \div m) + (x % m) /\ x \div m \in Int /\ x % m \in 0 .. m - 1
  OBVIOUS

\* Quotient and remainder are unique.
LEMMA ModIs ==
    ASSUME NEW m \in Nat \ {0}, NEW x \in Int, NEW d \in Int, NEW r \in 0 .. m - 1, x = m * d + r
    PROVE  x % m = r
<1> DEFINE e == x \div m
           s == x % m
<1>1. e \in Int /\ s \in 0 .. m - 1 /\ x = m * e + s
  BY DivMod
<1> HIDE DEF e, s
<1>2. m * (d - e) = s - r /\ m * (e - d) = r - s
  BY <1>1
<1>3. ASSUME d - e >= 1 PROVE FALSE
  <2>1. m * (d - e) >= m
    BY <1>1, <1>3, MulAtLeast
  <2> QED
    BY <1>1, <1>2, <2>1
<1>4. ASSUME e - d >= 1 PROVE FALSE
  <2>1. m * (e - d) >= m
    BY <1>1, <1>4, MulAtLeast
  <2> QED
    BY <1>1, <1>2, <2>1
<1>5. d = e
  BY <1>1, <1>3, <1>4
<1>6. s = r
  BY <1>1, <1>5
<1> QED
  BY <1>6 DEF s

\* A number below m is its remainder.
LEMMA ModSmall == ASSUME NEW m \in Nat \ {0}, NEW x \in 0 .. m - 1 PROVE x % m = x
<1>1. x = m * 0 + x
  OBVIOUS
<1> QED
  BY <1>1, ModIs

\* A number that is over m by less than m.
LEMMA ModOver == ASSUME NEW m \in Nat \ {0}, NEW x \in m .. 2 * m - 1 PROVE x % m = x - m
<1>1. x = m * 1 + (x - m)
  OBVIOUS
<1> QED
  BY <1>1, ModIs

\* A difference that has wrapped.
LEMMA ModNegative == ASSUME NEW m \in Nat \ {0}, NEW x \in -m .. -1 PROVE x % m = x + m
<1>1. x = m * (-1) + (x + m)
  OBVIOUS
<1> QED
  BY <1>1, ModIs

\* Multiples of m leave the remainder.
LEMMA ModPeriod == ASSUME NEW m \in Nat \ {0}, NEW k \in Int, NEW x \in Int PROVE (x + m * k) % m = x % m
<1> DEFINE e == x \div m
           s == x % m
<1>1. e \in Int /\ s \in 0 .. m - 1 /\ x = m * e + s
  BY DivMod
<1> HIDE DEF e, s
<1>2. x + m * k = m * (e + k) + s
  BY <1>1
<1>3. e + k \in Int /\ x + m * k \in Int
  BY <1>1
<1>4. (x + m * k) % m = s
  BY <1>1, <1>2, <1>3, ModIs
<1> QED
  BY <1>4 DEF s

\* Numbers less than m apart have different remainders.
LEMMA ModApart ==
    ASSUME NEW m \in Nat \ {0}, NEW x \in Int, NEW y \in Int, x < y, y - x < m
    PROVE  x % m # y % m
<1> DEFINE d == x \div m
           e == y \div m
           r == x % m
           s == y % m
<1>1. d \in Int /\ r \in 0 .. m - 1 /\ x = m * d + r
  BY DivMod
<1>2. e \in Int /\ s \in 0 .. m - 1 /\ y = m * e + s
  BY DivMod
<1> HIDE DEF d, e, r, s
<1>3. ASSUME r = s PROVE FALSE
  <2>1. m * (e - d) = y - x
    BY <1>1, <1>2, <1>3
  <2>2. CASE e - d >= 1
    <3>1. m * (e - d) >= m
      BY <1>1, <1>2, <2>2, MulAtLeast
    <3> QED
      BY <2>1, <3>1
  <2>3. CASE e - d <= 0
    <3>1. m * (e - d) <= 0
      BY <1>1, <1>2, <2>3
    <3> QED
      BY <2>1, <3>1
  <2> QED
    BY <1>1, <1>2, <2>2, <2>3
<1> QED
  BY <1>3 DEF r, s

-----------------------------------------------------------------------------
(* The counters: CounterRange is a multiple of PIPESIZE, so that the slots   *)
(* go on in order where a counter wraps around.                              *)

Counters == 0 .. CounterRange - 1

\* The range of a counter is a multiple of the size of the ring.
LEMMA RangeIs == \E k \in Nat : CounterRange = PIPESIZE * k
<1>1. CounterRange \in Int /\ PIPESIZE \in Nat \ {0} /\ CounterRange % PIPESIZE = 0
  BY SizeAssumption
<1>2. CounterRange = PIPESIZE * (CounterRange \div PIPESIZE) /\ CounterRange \div PIPESIZE \in Int
  BY <1>1, DivMod
<1>3. CounterRange \div PIPESIZE \in Nat
  BY <1>1, SizeAssumption
<1> QED
  BY <1>2, <1>3

\* How far apart two counters are.
LEMMA DistanceIs ==
    ASSUME NEW a \in Counters, NEW b \in Counters
    PROVE  (b - a) % CounterRange = IF a <= b THEN b - a ELSE b - a + CounterRange
<1>1. CounterRange \in Nat \ {0}
  BY SizeAssumption
<1>2. CASE a <= b
  <2>1. b - a \in 0 .. CounterRange - 1
    BY <1>1, <1>2 DEF Counters
  <2> QED
    BY <1>1, <1>2, <2>1, ModSmall
<1>3. CASE b < a
  <2>1. b - a \in -CounterRange .. -1
    BY <1>1, <1>3 DEF Counters
  <2>2. ~(a <= b)
    BY <1>1, <1>3 DEF Counters
  <2> QED
    BY <1>1, <2>1, <2>2, ModNegative
<1> QED
  BY <1>1, <1>2, <1>3 DEF Counters

\* A counter that goes on wraps around.
LEMMA ForwardIs ==
    ASSUME NEW a \in Counters, NEW d \in 0 .. CounterRange
    PROVE  (a + d) % CounterRange = IF a + d < CounterRange THEN a + d ELSE a + d - CounterRange
<1>1. CounterRange \in Nat \ {0}
  BY SizeAssumption
<1>2. CASE a + d < CounterRange
  <2>1. a + d \in 0 .. CounterRange - 1
    BY <1>1, <1>2 DEF Counters
  <2> QED
    BY <1>1, <1>2, <2>1, ModSmall
<1>3. CASE ~(a + d < CounterRange)
  <2> DEFINE x == a + d
  <2>1. x \in CounterRange .. 2 * CounterRange - 1
    BY <1>1, <1>3 DEF Counters
  <2> HIDE DEF x
  <2>2. x % CounterRange = x - CounterRange
    BY <1>1, <2>1, ModOver
  <2> QED
    BY <1>1, <1>3, <2>2 DEF x, Counters
<1> QED
  BY <1>2, <1>3

\* The slot of a counter does not change when the counter wraps around.
LEMMA SlotWraps == ASSUME NEW x \in Int PROVE Slot(x - CounterRange) = Slot(x)
<1>1. PICK k \in Nat : CounterRange = PIPESIZE * k
  BY RangeIs
<1>2. PIPESIZE \in Nat \ {0} /\ -k \in Int
  BY SizeAssumption
<1>3. (x + PIPESIZE * (-k)) % PIPESIZE = x % PIPESIZE
  BY <1>2, ModPeriod
<1>4. x - CounterRange = x + PIPESIZE * (-k)
  BY <1>1, <1>2
<1> QED
  BY <1>3, <1>4 DEF Slot

\* pipewrite's test of a full pipe.
LEMMA FullIs ==
    ASSUME NEW a \in Counters, NEW b \in Counters
    PROVE  b = (a + PIPESIZE) % CounterRange <=> (b - a) % CounterRange = PIPESIZE
<1>1. PIPESIZE \in 0 .. CounterRange /\ CounterRange \in Nat /\ PIPESIZE < CounterRange
  BY SizeAssumption
<1>2. (a + PIPESIZE) % CounterRange = IF a + PIPESIZE < CounterRange THEN a + PIPESIZE ELSE a + PIPESIZE - CounterRange
  BY <1>1, ForwardIs
<1>3. (b - a) % CounterRange = IF a <= b THEN b - a ELSE b - a + CounterRange
  BY DistanceIs
<1> QED
  BY <1>1, <1>2, <1>3 DEF Counters

\* One byte more ...
LEMMA OneMore ==
    ASSUME NEW a \in Counters, NEW b \in Counters, (b - a) % CounterRange < PIPESIZE
    PROVE  /\ (b + 1) % CounterRange \in Counters
           /\ (((b + 1) % CounterRange) - a) % CounterRange = ((b - a) % CounterRange) + 1
<1>1. 1 \in 0 .. CounterRange /\ CounterRange \in Nat /\ PIPESIZE \in Nat /\ PIPESIZE < CounterRange
  BY SizeAssumption
<1> DEFINE c == (b + 1) % CounterRange
<1>2. c = IF b + 1 < CounterRange THEN b + 1 ELSE b + 1 - CounterRange
  BY <1>1, ForwardIs
<1>3. c \in Counters
  BY <1>1, <1>2 DEF Counters
<1> HIDE DEF c
<1>4. (c - a) % CounterRange = IF a <= c THEN c - a ELSE c - a + CounterRange
  BY <1>3, DistanceIs
<1>5. (b - a) % CounterRange = IF a <= b THEN b - a ELSE b - a + CounterRange
  BY DistanceIs
<1>6. (c - a) % CounterRange = ((b - a) % CounterRange) + 1
  BY <1>1, <1>2, <1>3, <1>4, <1>5 DEF Counters
<1> QED
  BY <1>3, <1>6 DEF c

\* ... and one less.
LEMMA OneLess ==
    ASSUME NEW a \in Counters, NEW b \in Counters, a # b
    PROVE  /\ (a + 1) % CounterRange \in Counters
           /\ (b - ((a + 1) % CounterRange)) % CounterRange = ((b - a) % CounterRange) - 1
<1>1. 1 \in 0 .. CounterRange /\ CounterRange \in Nat
  BY SizeAssumption
<1> DEFINE c == (a + 1) % CounterRange
<1>2. c = IF a + 1 < CounterRange THEN a + 1 ELSE a + 1 - CounterRange
  BY <1>1, ForwardIs
<1>3. c \in Counters
  BY <1>1, <1>2 DEF Counters
<1> HIDE DEF c
<1>4. (b - c) % CounterRange = IF c <= b THEN b - c ELSE b - c + CounterRange
  BY <1>3, DistanceIs
<1>5. (b - a) % CounterRange = IF a <= b THEN b - a ELSE b - a + CounterRange
  BY DistanceIs
<1>6. (b - c) % CounterRange = ((b - a) % CounterRange) - 1
  BY <1>1, <1>2, <1>3, <1>4, <1>5 DEF Counters
<1> QED
  BY <1>3, <1>6 DEF c

-----------------------------------------------------------------------------
(* The invariant. *)

Holding == {"loop", "put", "copy", "sleep"}
Steps == {"idle", "lock", "w_asleep", "r_asleep"} \cup Holding

TypeOK ==
    /\ lock \in Procs \cup {None}
    /\ data \in [0 .. PIPESIZE - 1 -> Vals] /\ nread \in Counters /\ nwrite \in Counters
    /\ readopen \in {0, 1} /\ writeopen \in {0, 1}
    /\ pc \in [Procs -> Steps] /\ n \in [Procs -> Nat] /\ i \in [Procs -> Nat] /\ killed \in [Procs -> BOOLEAN]

\* A process past acquire, and not asleep, has pi->lock.
Owner == \A p \in Procs : pc[p] \in Holding => lock = p

\* Where only a writer or only a reader can be, and that its end is open.
Ends ==
    /\ \A p \in Procs : pc[p] \in {"put", "w_asleep"} => p \in Writers
    /\ \A p \in Procs : pc[p] \in {"copy", "sleep", "r_asleep"} => p \in Readers
    /\ \A p \in Writers : pc[p] # "idle" => writeopen = 1
    /\ \A p \in Readers : pc[p] # "idle" => readopen = 1
    /\ \A p \in Procs : pc[p] = "put" => readopen = 1

PipeInv == TypeOK /\ Owner /\ Ends /\ Count <= PIPESIZE /\ ZeroMeansEnd

\* A step of the specification.
Step == Next \/ UNCHANGED vars

-----------------------------------------------------------------------------
(* Every step keeps the invariant. *)

\* What the step of process p may do to the others: wake them.
Others(p) ==
    \A q \in Procs \ {p} :
        /\ i'[q] = i[q]
        /\ pc'[q] = pc[q] \/ (pc[q] \in {"w_asleep", "r_asleep"} /\ pc'[q] = "lock")

\* wakeup moves only processes that sleep on the channel.
LEMMA WokenIs ==
    ASSUME TypeOK, NEW s \in {"w_asleep", "r_asleep"}
    PROVE  /\ Woken(s) \in [Procs -> Steps]
           /\ \A q \in Procs : Woken(s)[q] = pc[q] \/ (pc[q] \in {"w_asleep", "r_asleep"} /\ Woken(s)[q] = "lock")
  BY DEF TypeOK, Woken, Steps

\* A return from the call keeps every other process.
LEMMA ReturnIs ==
    ASSUME TypeOK, NEW p \in Procs, NEW npc \in {pc, Woken("r_asleep"), Woken("w_asleep")}, Return(p, npc)
    PROVE  /\ lock' = None /\ pc'[p] = "idle" /\ Others(p)
           /\ pc' \in [Procs -> Steps] /\ n' \in [Procs -> Nat] /\ i' \in [Procs -> Nat]
<1>1. /\ npc \in [Procs -> Steps]
      /\ \A q \in Procs : npc[q] = pc[q] \/ (pc[q] \in {"w_asleep", "r_asleep"} /\ npc[q] = "lock")
  BY WokenIs DEF TypeOK
<1>2. pc' = [npc EXCEPT ![p] = "idle"] /\ n' = [n EXCEPT ![p] = 1] /\ i' = [i EXCEPT ![p] = 0] /\ lock' = None
  BY DEF Return
<1>3. n' \in [Procs -> Nat] /\ i' \in [Procs -> Nat] /\ pc' \in [Procs -> Steps] /\ pc'[p] = "idle"
  BY <1>1, <1>2 DEF TypeOK, Steps
<1>4. Others(p)
  BY <1>1, <1>2 DEF Others, TypeOK
<1> QED
  BY <1>2, <1>3, <1>4

\* sleep keeps every other process.
LEMMA SleepIs ==
    ASSUME TypeOK, NEW p \in Procs, NEW npc \in {pc, Woken("r_asleep")}, NEW s \in {"w_asleep", "r_asleep"}, Sleep(p, npc, s)
    PROVE  /\ lock' = None /\ pc'[p] = s /\ Others(p) /\ pc' \in [Procs -> Steps] /\ UNCHANGED <<n, i>>
<1>1. /\ npc \in [Procs -> Steps]
      /\ \A q \in Procs : npc[q] = pc[q] \/ (pc[q] \in {"w_asleep", "r_asleep"} /\ npc[q] = "lock")
  BY WokenIs DEF TypeOK
<1>2. pc' = [npc EXCEPT ![p] = s] /\ UNCHANGED <<n, i>> /\ lock' = None
  BY DEF Sleep
<1>3. pc' \in [Procs -> Steps] /\ pc'[p] = s
  BY <1>1, <1>2 DEF Steps
<1>4. Others(p)
  BY <1>1, <1>2 DEF Others
<1> QED
  BY <1>2, <1>3, <1>4

\* The next step of a call keeps every other process.
LEMMA GoIs ==
    ASSUME TypeOK, NEW p \in Procs, NEW s \in Steps, Go(p, s)
    PROVE  pc'[p] = s /\ Others(p) /\ pc' \in [Procs -> Steps] /\ UNCHANGED <<lock, n, i>>
  BY DEF TypeOK, Go, Others

\* A step of p that leaves the ends alone, from what becomes of p: it has the
\* lock where it must, and had it if it changed the ring.
LEMMA StepKeeps ==
    ASSUME PipeInv, TypeOK', NEW p \in Procs, Others(p), UNCHANGED ends,
           lock' = lock \/ lock \in {p, None}, pc'[p] \in Holding => lock' = p,
           UNCHANGED ring \/ lock = p,
           pc'[p] # "idle" => (p \in Writers => writeopen = 1) /\ (p \in Readers => readopen = 1),
           pc'[p] \in {"put", "w_asleep"} => p \in Writers,
           pc'[p] \in {"copy", "sleep", "r_asleep"} => p \in Readers,
           pc'[p] = "put" => readopen = 1,
           pc'[p] = "copy" /\ i'[p] = 0 => ~(Empty') \/ writeopen = 0
    PROVE  Owner' /\ Ends' /\ ZeroMeansEnd'
<1>0. Owner /\ Ends /\ ZeroMeansEnd /\ TypeOK /\ readopen' = readopen /\ writeopen' = writeopen
  BY DEF PipeInv, ends
<1>1. Owner'
  <2> SUFFICES ASSUME NEW q \in Procs, pc'[q] \in Holding PROVE lock' = q
    BY DEF Owner
  <2>1. CASE q = p
    BY <2>1
  <2>2. CASE q # p
    <3>1. pc[q] \in Holding /\ q # None
      BY <2>2, ProcsAssumption DEF Others, Holding, Procs
    <3>2. lock = q
      BY <1>0, <3>1 DEF Owner
    <3> QED
      BY <2>2, <3>1, <3>2
  <2> QED
    BY <2>1, <2>2
<1>2. Ends'
  <2>1. ASSUME NEW q \in Procs
        PROVE  /\ pc'[q] \in {"put", "w_asleep"} => q \in Writers
               /\ pc'[q] \in {"copy", "sleep", "r_asleep"} => q \in Readers
               /\ pc'[q] # "idle" => (q \in Writers => writeopen = 1) /\ (q \in Readers => readopen = 1)
               /\ pc'[q] = "put" => readopen = 1
    <3>1. CASE q = p
      BY <3>1
    <3>2. CASE q # p
      BY <1>0, <3>2 DEF Others, Ends
    <3> QED
      BY <3>1, <3>2
  <2>2. Writers \subseteq Procs /\ Readers \subseteq Procs
    BY DEF Procs
  <2> QED
    BY <1>0, <2>1, <2>2 DEF Ends
<1>3. ZeroMeansEnd'
  <2> SUFFICES ASSUME NEW q \in Readers, pc'[q] = "copy", i'[q] = 0 PROVE ~(Empty') \/ writeopen' = 0
    BY DEF ZeroMeansEnd
  <2>1. CASE q = p
    BY <1>0, <2>1
  <2>2. CASE q # p
    <3>1. pc[q] = "copy" /\ i[q] = 0 /\ q \in Procs
      BY <2>2 DEF Others, Procs
    <3>2. lock = q
      BY <1>0, <3>1 DEF Owner, Holding
    <3>3. UNCHANGED ring
      BY <2>2, <3>2
    <3> QED
      BY <1>0, <3>1, <3>3 DEF ZeroMeansEnd, Empty, ring
  <2> QED
    BY <2>1, <2>2
<1> QED
  BY <1>1, <1>2, <1>3

-----------------------------------------------------------------------------
(* The ring is a queue. *)

\* Sequences are equal that have the same elements.
LEMMA SeqEqual ==
    ASSUME NEW S, NEW s \in Seq(S), NEW t \in Seq(S), Len(s) = Len(t), \A j \in 1 .. Len(s) : s[j] = t[j]
    PROVE  s = t
  OBVIOUS

\* What Append does to the elements.
LEMMA AppendIs ==
    ASSUME NEW S, NEW s \in Seq(S), NEW v \in S
    PROVE  /\ Append(s, v) \in Seq(S) /\ Len(Append(s, v)) = Len(s) + 1
           /\ \A k \in 1 .. Len(s) + 1 : Append(s, v)[k] = IF k = Len(s) + 1 THEN v ELSE s[k]
  OBVIOUS

\* What Tail does to the elements.
LEMMA TailIs ==
    ASSUME NEW S, NEW s \in Seq(S), Len(s) # 0
    PROVE  /\ Tail(s) \in Seq(S) /\ Len(Tail(s)) = Len(s) - 1
           /\ \A k \in 1 .. Len(s) - 1 : Tail(s)[k] = s[k + 1]
  OBVIOUS

\* The queue that the ring holds, element by element.
LEMMA QueueIs ==
    ASSUME TypeOK, Count <= PIPESIZE
    PROVE  /\ Count \in Nat /\ Queue \in Seq(Vals) /\ Len(Queue) = Count
           /\ \A k \in 1 .. Count : Queue[k] = data[Slot(nread + k - 1)]
           /\ Empty <=> Count = 0
           /\ Full <=> Count = PIPESIZE
<1>1. /\ Count = IF nread <= nwrite THEN nwrite - nread ELSE nwrite - nread + CounterRange
      /\ nread \in Int /\ nwrite \in Int /\ nread \in Counters /\ nwrite \in Counters
  BY DistanceIs DEF TypeOK, Count, Counters
<1>2. Count \in Nat /\ (Empty <=> Count = 0)
  BY <1>1, SizeAssumption DEF Counters, Empty
<1>3. Full <=> Count = PIPESIZE
  BY <1>1, FullIs DEF Full, Count
<1>4. ASSUME NEW k \in 1 .. Count PROVE data[Slot(nread + k - 1)] \in Vals
  <2>1. nread + k - 1 \in Int
    BY <1>1, <1>2
  <2>2. Slot(nread + k - 1) \in 0 .. PIPESIZE - 1
    BY <2>1, SizeAssumption, DivMod DEF Slot
  <2> QED
    BY <2>2 DEF TypeOK
<1> HIDE DEF Count
<1>5. Queue \in [1 .. Count -> Vals] /\ \A k \in 1 .. Count : Queue[k] = data[Slot(nread + k - 1)]
  BY <1>4 DEF Queue
<1>6. Queue \in Seq(Vals) /\ Len(Queue) = Count
  BY <1>2, <1>5
<1> QED
  BY <1>2, <1>3, <1>5, <1>6

\* pipewrite stores a byte: it is the last of the queue, and no other changes.
LEMMA PutAppends ==
    ASSUME TypeOK, Count < PIPESIZE, NEW v \in Vals,
           data' = [data EXCEPT ![Slot(nwrite)] = v], nwrite' = (nwrite + 1) % CounterRange, nread' = nread
    PROVE  /\ data' \in [0 .. PIPESIZE - 1 -> Vals] /\ nwrite' \in Counters
           /\ Count' = Count + 1 /\ Queue' = Append(Queue, v)
<1>1. nwrite' \in Counters /\ Count' = Count + 1
  BY OneMore DEF TypeOK, Count
<1>2. /\ Count \in Nat /\ Queue \in Seq(Vals) /\ Len(Queue) = Count
      /\ \A k \in 1 .. Count : Queue[k] = data[Slot(nread + k - 1)]
  <2>1. Count = IF nread <= nwrite THEN nwrite - nread ELSE nwrite - nread + CounterRange
    BY DistanceIs DEF TypeOK, Count
  <2>2. Count <= PIPESIZE
    BY <2>1, SizeAssumption DEF TypeOK, Counters
  <2> QED
    BY <2>2, QueueIs
<1>3. nread \in Int /\ nwrite \in Int /\ PIPESIZE \in Nat \ {0}
  BY SizeAssumption DEF TypeOK, Counters
<1>4. Slot(nread + Count) = Slot(nwrite)
  <2>1. Count = IF nread <= nwrite THEN nwrite - nread ELSE nwrite - nread + CounterRange
    BY DistanceIs DEF TypeOK, Count
  <2>2. nread + Count = nwrite \/ (nread + Count) - CounterRange = nwrite
    BY <1>2, <1>3, <2>1, SizeAssumption
  <2>3. Slot((nread + Count) - CounterRange) = Slot(nread + Count)
    <3>1. PICK x \in Int : x = nread + Count
      BY <1>2, <1>3
    <3>2. Slot(x - CounterRange) = Slot(x)
      BY SlotWraps
    <3> QED
      BY <3>1, <3>2, Zenon
  <2> QED
    BY <2>2, <2>3
<1>5. Slot(nwrite) \in 0 .. PIPESIZE - 1
  BY <1>3, DivMod DEF Slot
<1>6. data' \in [0 .. PIPESIZE - 1 -> Vals] /\ data'[Slot(nwrite)] = v
  BY <1>5 DEF TypeOK
<1>7. ASSUME NEW k \in 1 .. Count PROVE data'[Slot(nread + k - 1)] = Queue[k]
  <2>1. nread + k - 1 \in Int /\ nread + Count \in Int /\ nread + k - 1 < nread + Count /\ (nread + Count) - (nread + k - 1) < PIPESIZE + 1
    BY <1>2, <1>3
  <2>2. (nread + Count) - (nread + k - 1) < PIPESIZE
    BY <1>2, <1>3
  <2>3. Slot(nread + k - 1) # Slot(nread + Count)
    BY <1>3, <2>1, <2>2, ModApart DEF Slot
  <2>4. Slot(nread + k - 1) \in 0 .. PIPESIZE - 1
    BY <1>3, <2>1, DivMod DEF Slot
  <2>5. data'[Slot(nread + k - 1)] = data[Slot(nread + k - 1)]
    BY <1>4, <2>3, <2>4 DEF TypeOK
  <2> QED
    BY <1>2, <2>5
<1>8. Queue' = [k \in 1 .. Count + 1 |-> data'[Slot(nread + k - 1)]]
  BY <1>1 DEF Queue, Slot
<1> HIDE DEF Count
<1>9. data'[Slot(nread + (Count + 1) - 1)] = v
  BY <1>2, <1>3, <1>4, <1>6
<1>10. /\ Append(Queue, v) \in Seq(Vals) /\ Len(Append(Queue, v)) = Count + 1
       /\ \A k \in 1 .. Count + 1 : Append(Queue, v)[k] = IF k = Count + 1 THEN v ELSE Queue[k]
  BY <1>2, AppendIs
<1>11. ASSUME NEW k \in 1 .. Count + 1 PROVE data'[Slot(nread + k - 1)] = IF k = Count + 1 THEN v ELSE Queue[k]
  <2>1. CASE k = Count + 1
    BY <1>9, <2>1
  <2>2. CASE k # Count + 1
    <3>1. k \in 1 .. Count
      BY <1>2, <2>2
    <3> QED
      BY <1>7, <2>2, <3>1
  <2> QED
    BY <2>1, <2>2
<1>12. Queue' = Append(Queue, v)
  <2>1. \A k \in 1 .. Count + 1 : Queue'[k] = Append(Queue, v)[k]
    BY <1>8, <1>10, <1>11
  <2>2. \A k \in 1 .. Count + 1 : Append(Queue, v)[k] \in Vals
    BY <1>10
  <2>3. Queue' \in Seq(Vals) /\ Len(Queue') = Count + 1
    <3>1. \A k \in 1 .. Count + 1 : data'[Slot(nread + k - 1)] \in Vals
      BY <1>10, <1>11, <2>2
    <3>2. Queue' \in [1 .. Count + 1 -> Vals]
      BY <1>8, <3>1
    <3>3. Count + 1 \in Nat
      BY <1>2
    <3> QED
      BY <3>2, <3>3
  <2> QED
    BY <1>10, <2>1, <2>3, SeqEqual
<1> QED
  BY <1>1, <1>6, <1>12

\* piperead takes the first byte of the queue.
LEMMA CopyTakes ==
    ASSUME TypeOK, Count <= PIPESIZE, ~Empty,
           nread' = (nread + 1) % CounterRange, UNCHANGED <<data, nwrite>>
    PROVE  /\ nread' \in Counters /\ Count > 0 /\ Count' = Count - 1 /\ Queue' = Tail(Queue)
<1>1. nread' \in Counters /\ Count' = Count - 1
  BY OneLess DEF TypeOK, Count, Empty
<1>2. /\ Count \in Nat /\ Count # 0 /\ Queue \in Seq(Vals) /\ Len(Queue) = Count
      /\ \A k \in 1 .. Count : Queue[k] = data[Slot(nread + k - 1)]
  BY QueueIs
<1>3. nread \in Int /\ CounterRange \in Nat /\ nread' \in Int
  BY <1>1, SizeAssumption DEF TypeOK, Counters
<1>4. nread' = nread + 1 \/ nread' = nread + 1 - CounterRange
  BY ForwardIs, SizeAssumption DEF TypeOK
<1>5. Queue' = [k \in 1 .. Count - 1 |-> data[Slot(nread' + k - 1)]]
  BY <1>1 DEF Queue, Slot
<1> HIDE DEF Count
<1>6. ASSUME NEW k \in 1 .. Count - 1 PROVE data[Slot(nread' + k - 1)] = Queue[k + 1]
  <2>1. nread + k \in Int /\ k + 1 \in 1 .. Count
    BY <1>2, <1>3
  <2>2. Slot((nread + k) - CounterRange) = Slot(nread + k)
    <3>1. PICK x \in Int : x = nread + k
      BY <2>1
    <3>2. Slot(x - CounterRange) = Slot(x)
      BY SlotWraps
    <3> QED
      BY <3>1, <3>2, Zenon
  <2>3. nread' + k - 1 = nread + k \/ nread' + k - 1 = (nread + k) - CounterRange
    BY <1>2, <1>3, <1>4
  <2>4. Slot(nread' + k - 1) = Slot(nread + k)
    BY <2>2, <2>3
  <2>5. Queue[k + 1] = data[Slot(nread + (k + 1) - 1)]
    BY <1>2, <2>1
  <2>6. nread + (k + 1) - 1 = nread + k
    BY <1>2, <1>3
  <2> QED
    BY <2>4, <2>5, <2>6
<1>7. /\ Tail(Queue) \in Seq(Vals) /\ Len(Tail(Queue)) = Count - 1
      /\ \A k \in 1 .. Count - 1 : Tail(Queue)[k] = Queue[k + 1]
  BY <1>2, TailIs
<1>8. Queue' = Tail(Queue)
  <2>1. \A k \in 1 .. Count - 1 : Queue'[k] = Tail(Queue)[k]
    BY <1>5, <1>6, <1>7
  <2>2. \A k \in 1 .. Count - 1 : Tail(Queue)[k] \in Vals
    BY <1>7
  <2>3. Queue' \in Seq(Vals) /\ Len(Queue') = Count - 1
    BY <1>2, <1>5, <2>1, <2>2
  <2> QED
    BY <1>7, <2>1, <2>3, SeqEqual
<1> QED
  BY <1>1, <1>2, <1>8

-----------------------------------------------------------------------------
(* The steps of a call. *)

\* A step that leaves the ring and the ends alone is none of the queue.
LEMMA QuietKeeps ==
    ASSUME PipeInv, NEW p \in Procs, UNCHANGED <<ring, ends>>, Others(p),
           lock' \in Procs \cup {None}, pc' \in [Procs -> Steps], n' \in [Procs -> Nat], i' \in [Procs -> Nat],
           killed' \in [Procs -> BOOLEAN],
           lock' = lock \/ lock \in {p, None}, pc'[p] \in Holding => lock' = p,
           pc'[p] # "idle" => (p \in Writers => writeopen = 1) /\ (p \in Readers => readopen = 1),
           pc'[p] \in {"put", "w_asleep"} => p \in Writers,
           pc'[p] \in {"copy", "sleep", "r_asleep"} => p \in Readers,
           pc'[p] = "put" => readopen = 1,
           pc'[p] = "copy" /\ i'[p] = 0 => ~Empty \/ writeopen = 0
    PROVE  PipeInv' /\ UNCHANGED Abstract!fvars
<1>1. UNCHANGED <<data, nread, nwrite, readopen, writeopen>>
  BY DEF ring, ends
<1>2. TypeOK'
  BY <1>1 DEF PipeInv, TypeOK
<1>3. Count' = Count /\ Queue' = Queue
  BY <1>1 DEF Count, Queue
<1>4. ~Empty => ~(Empty')
  BY <1>1 DEF Empty
<1>5. Owner' /\ Ends' /\ ZeroMeansEnd'
  BY <1>2, <1>4, StepKeeps
<1>6. (Count <= PIPESIZE)'
  BY <1>3 DEF PipeInv
<1> QED
  BY <1>1, <1>2, <1>3, <1>5, <1>6 DEF PipeInv, Abstract!fvars

\* Whoever holds pi->lock is in a call on an open end.
LEMMA InCall ==
    ASSUME PipeInv, NEW p \in Procs, pc[p] # "idle"
    PROVE  (p \in Writers => writeopen = 1) /\ (p \in Readers => readopen = 1)
  BY DEF PipeInv, Ends

\* The ways a process with the lock lets go of it.
LEMMA ReturnKeeps ==
    ASSUME PipeInv, NEW p \in Procs, pc[p] \in Holding, NEW npc \in {pc, Woken("r_asleep"), Woken("w_asleep")},
           Return(p, npc), UNCHANGED <<ring, ends, killed>>
    PROVE  PipeInv' /\ UNCHANGED Abstract!fvars
<1>1. TypeOK /\ lock = p
  BY DEF PipeInv, Owner
<1>2. /\ lock' = None /\ pc'[p] = "idle" /\ Others(p)
      /\ pc' \in [Procs -> Steps] /\ n' \in [Procs -> Nat] /\ i' \in [Procs -> Nat]
  BY <1>1, ReturnIs
<1>3. killed' \in [Procs -> BOOLEAN]
  BY <1>1 DEF TypeOK
<1> QED
  BY <1>1, <1>2, <1>3, QuietKeeps DEF Holding

\* sleep in piperead or pipewrite, with the wakeup before it.
LEMMA SleepKeeps ==
    ASSUME PipeInv, NEW p \in Procs, NEW npc \in {pc, Woken("r_asleep")}, NEW s \in {"w_asleep", "r_asleep"},
           pc[p] = IF s = "w_asleep" THEN "put" ELSE "sleep", Sleep(p, npc, s), UNCHANGED <<ring, ends, killed>>
    PROVE  PipeInv' /\ UNCHANGED Abstract!fvars
<1>1. TypeOK /\ lock = p /\ (p \in Writers => writeopen = 1) /\ (p \in Readers => readopen = 1)
  BY InCall DEF PipeInv, Owner, Holding
<1>2. lock' = None /\ pc'[p] = s /\ Others(p) /\ pc' \in [Procs -> Steps] /\ UNCHANGED <<n, i>>
  BY <1>1, SleepIs
<1>3. n' \in [Procs -> Nat] /\ i' \in [Procs -> Nat] /\ killed' \in [Procs -> BOOLEAN]
  BY <1>1, <1>2 DEF TypeOK
<1>4. s = "w_asleep" => p \in Writers
  BY DEF PipeInv, Ends
<1>5. s = "r_asleep" => p \in Readers
  BY DEF PipeInv, Ends
<1> QED
  BY <1>1, <1>2, <1>3, <1>4, <1>5, QuietKeeps DEF Holding

\* A step that only moves the caller.
LEMMA GoKeeps ==
    ASSUME PipeInv, NEW p \in Procs, pc[p] \in Holding, NEW s \in Holding, Go(p, s), UNCHANGED <<ring, ends, killed>>,
           s = "put" => p \in Writers /\ readopen = 1, s \in {"copy", "sleep"} => p \in Readers,
           s = "copy" => ~Empty \/ writeopen = 0
    PROVE  PipeInv' /\ UNCHANGED Abstract!fvars
<1>1. TypeOK /\ lock = p /\ (p \in Writers => writeopen = 1) /\ (p \in Readers => readopen = 1) /\ s \in Steps
  BY InCall DEF PipeInv, Owner, Holding, Steps
<1>2. pc'[p] = s /\ Others(p) /\ pc' \in [Procs -> Steps] /\ UNCHANGED <<lock, n, i>>
  BY <1>1, GoIs
<1>3. n' \in [Procs -> Nat] /\ i' \in [Procs -> Nat] /\ killed' \in [Procs -> BOOLEAN] /\ lock' \in Procs \cup {None}
  BY <1>1, <1>2 DEF TypeOK
<1>4. s # "w_asleep" /\ s # "r_asleep"
  BY DEF Holding
<1> QED
  BY <1>1, <1>2, <1>3, <1>4, QuietKeeps

\* The tests at the head of the loop of pipewrite.
LEMMA WriteLoopKeeps == ASSUME PipeInv, NEW p \in Procs, WriteLoop(p) PROVE PipeInv' /\ UNCHANGED Abstract!fvars
<1>1. p \in Writers /\ pc[p] \in Holding /\ UNCHANGED <<ring, ends, killed>>
  BY DEF WriteLoop, Holding
<1>2. CASE Return(p, WakeReaders) \/ Return(p, pc)
  BY <1>1, <1>2, ReturnKeeps DEF WakeReaders
<1>3. CASE readopen = 1 /\ Go(p, "put")
  BY <1>1, <1>3, GoKeeps DEF Holding
<1> QED
  BY <1>2, <1>3 DEF WriteLoop

\* The tests at the head of the loop of piperead.
LEMMA ReadLoopKeeps == ASSUME PipeInv, NEW p \in Procs, ReadLoop(p) PROVE PipeInv' /\ UNCHANGED Abstract!fvars
<1>1. p \in Readers /\ pc[p] \in Holding /\ UNCHANGED <<ring, ends, killed>>
  BY DEF ReadLoop, Holding
<1>2. CASE Return(p, pc)
  BY <1>1, <1>2, ReturnKeeps
<1>3. CASE Go(p, "sleep")
  BY <1>1, <1>3, GoKeeps DEF Holding
<1>4. CASE ~MustWait /\ Go(p, "copy")
  <2>1. ~Empty \/ writeopen = 0
    BY <1>4 DEF MustWait, PipeInv, TypeOK
  <2> QED
    BY <1>1, <1>4, <2>1, GoKeeps DEF Holding
<1> QED
  BY <1>2, <1>3, <1>4 DEF ReadLoop

\* A call of pipewrite or piperead.
LEMMA CallKeeps ==
    ASSUME PipeInv, NEW p \in Procs, NEW len \in 1 .. MaxLen, Call(p, len)
    PROVE  PipeInv' /\ UNCHANGED Abstract!fvars
<1>1. TypeOK /\ len \in Nat
  BY SizeAssumption DEF PipeInv
<1>2. pc' \in [Procs -> Steps] /\ n' \in [Procs -> Nat] /\ i' \in [Procs -> Nat] /\ pc'[p] = "lock"
  BY <1>1 DEF Call, TypeOK, Steps
<1>3. Others(p) /\ UNCHANGED <<lock, ring, ends, killed>>
  BY <1>1 DEF Call, Others, TypeOK
<1>4. (p \in Writers => writeopen = 1) /\ (p \in Readers => readopen = 1)
  BY ProcsAssumption DEF Call
<1>5. lock' \in Procs \cup {None} /\ killed' \in [Procs -> BOOLEAN]
  BY <1>1, <1>3 DEF TypeOK
<1> QED
  BY <1>2, <1>3, <1>4, <1>5, QuietKeeps DEF Holding

\* The caller gets pi->lock.
LEMMA AcquireKeeps == ASSUME PipeInv, NEW p \in Procs, Acquire(p) PROVE PipeInv' /\ UNCHANGED Abstract!fvars
<1>1. TypeOK /\ lock = None /\ (p \in Writers => writeopen = 1) /\ (p \in Readers => readopen = 1)
  BY InCall DEF PipeInv, Acquire
<1>2. pc' \in [Procs -> Steps] /\ pc'[p] = "loop" /\ lock' = p
  BY <1>1 DEF Acquire, TypeOK, Steps, Holding
<1>3. Others(p) /\ UNCHANGED <<ring, ends, n, i, killed>>
  BY <1>1 DEF Acquire, Others, TypeOK
<1>4. n' \in [Procs -> Nat] /\ i' \in [Procs -> Nat] /\ killed' \in [Procs -> BOOLEAN]
  BY <1>1, <1>3 DEF TypeOK
<1> QED
  BY <1>1, <1>2, <1>3, <1>4, QuietKeeps

\* kill sets a flag and wakes its process.
LEMMA KillKeeps == ASSUME PipeInv, NEW p \in Procs, Kill(p) PROVE PipeInv' /\ UNCHANGED Abstract!fvars
<1>1. TypeOK /\ Owner /\ Ends /\ ZeroMeansEnd /\ (p \in Writers => writeopen = 1) /\ (p \in Readers => readopen = 1)
  BY InCall DEF PipeInv, Kill
<1>2. /\ pc' \in [Procs -> Steps] /\ killed' \in [Procs -> BOOLEAN]
      /\ pc'[p] = IF pc[p] \in {"r_asleep", "w_asleep"} THEN "lock" ELSE pc[p]
  BY <1>1 DEF Kill, TypeOK, Steps
<1>3. Others(p) /\ UNCHANGED <<lock, ring, ends, n, i>>
  BY <1>1 DEF Kill, Others, TypeOK
<1>4. n' \in [Procs -> Nat] /\ i' \in [Procs -> Nat] /\ lock' \in Procs \cup {None} /\ i'[p] = i[p]
  BY <1>1, <1>3 DEF TypeOK
<1>5. (pc'[p] = "put" => readopen = 1) /\ (pc'[p] \in {"put", "w_asleep"} => p \in Writers)
  BY <1>1, <1>2 DEF Ends
<1>6. pc'[p] \in {"copy", "sleep", "r_asleep"} => p \in Readers
  BY <1>1, <1>2 DEF Ends
<1>7. pc'[p] \in Holding => lock' = p
  BY <1>1, <1>2, <1>3 DEF Owner, Holding
<1>8. pc'[p] = "copy" /\ i'[p] = 0 => ~Empty \/ writeopen = 0
  BY <1>1, <1>2, <1>4, <1>6 DEF ZeroMeansEnd
<1> QED
  BY <1>1, <1>2, <1>3, <1>4, <1>5, <1>6, <1>7, <1>8, QuietKeeps

\* pipewrite stores a byte.
LEMMA PutKeeps ==
    ASSUME PipeInv, NEW p \in Procs, NEW v \in Vals, WritePut(p, v)
    PROVE  PipeInv' /\ Abstract!Put(v)
<1>1. TypeOK /\ lock = p /\ p \in Writers /\ writeopen = 1 /\ readopen = 1 /\ Count <= PIPESIZE
  BY DEF PipeInv, WritePut, Owner, Holding, Ends
<1>2. Count \in Nat /\ Len(Queue) = Count /\ (Full <=> Count = PIPESIZE)
  BY <1>1, QueueIs
<1>3. Count < PIPESIZE
  BY <1>1, <1>2, SizeAssumption DEF WritePut
<1>4. UNCHANGED <<lock, nread, ends, n, killed>>
  BY DEF WritePut
<1>5. /\ data' \in [0 .. PIPESIZE - 1 -> Vals] /\ nwrite' \in Counters
      /\ Count' = Count + 1 /\ Queue' = Append(Queue, v)
  BY <1>1, <1>3, <1>4, PutAppends DEF WritePut
<1>6. pc' \in [Procs -> Steps] /\ pc'[p] = "loop" /\ i' \in [Procs -> Nat] /\ Others(p)
  BY <1>1 DEF WritePut, TypeOK, Steps, Holding, Others
<1>7. TypeOK'
  BY <1>1, <1>4, <1>5, <1>6 DEF TypeOK, ends
<1>8. p \notin Readers
  BY <1>1, ProcsAssumption
<1>9. Owner' /\ Ends' /\ ZeroMeansEnd'
  BY <1>1, <1>4, <1>6, <1>7, <1>8, StepKeeps
<1>10. (Count <= PIPESIZE)'
  BY <1>2, <1>3, <1>5, SizeAssumption
<1>11. Abstract!Put(v)
  BY <1>1, <1>2, <1>3, <1>4, <1>5 DEF Abstract!Put, ends
<1> QED
  BY <1>7, <1>9, <1>10, <1>11 DEF PipeInv

\* piperead takes a byte.
LEMMA CopyKeeps == ASSUME PipeInv, NEW p \in Procs, ReadCopy(p) PROVE PipeInv' /\ Abstract!Get
<1>1. TypeOK /\ lock = p /\ p \in Readers /\ readopen = 1 /\ Count <= PIPESIZE
  BY DEF PipeInv, ReadCopy, Owner, Holding, Ends
<1>2. Count \in Nat /\ Len(Queue) = Count
  BY <1>1, QueueIs
<1>3. UNCHANGED <<lock, data, nwrite, ends, pc, n, killed>>
  BY DEF ReadCopy
<1>4. nread' \in Counters /\ Count > 0 /\ Count' = Count - 1 /\ Queue' = Tail(Queue)
  BY <1>1, <1>3, CopyTakes DEF ReadCopy
<1>5. i' \in [Procs -> Nat] /\ i'[p] # 0 /\ Others(p) /\ pc'[p] = "copy"
  BY <1>1 DEF ReadCopy, TypeOK, Others
<1>6. TypeOK'
  BY <1>1, <1>3, <1>4, <1>5 DEF TypeOK, ends
<1>7. p \notin Writers
  BY <1>1, ProcsAssumption
<1>8. Owner' /\ Ends' /\ ZeroMeansEnd'
  BY <1>1, <1>3, <1>5, <1>6, <1>7, StepKeeps
<1>9. (Count <= PIPESIZE)'
  BY <1>1, <1>2, <1>4, SizeAssumption
<1>10. Abstract!Get
  BY <1>1, <1>2, <1>3, <1>4 DEF Abstract!Get, ends
<1> QED
  BY <1>6, <1>8, <1>9, <1>10 DEF PipeInv

-----------------------------------------------------------------------------
(* pipeclose and pipealloc. *)

\* pipeclose of either end.
LEMMA CloseKeeps == ASSUME PipeInv, CloseWrite \/ CloseRead PROVE PipeInv' /\ Abstract!Close
<1>1. TypeOK /\ Owner /\ Ends /\ ZeroMeansEnd /\ lock = None
  BY DEF PipeInv, CloseWrite, CloseRead
<1>2. UNCHANGED <<lock, data, nread, nwrite, n, i, killed>>
  BY DEF CloseWrite, CloseRead, ring
<1>3. Count' = Count /\ Queue' = Queue
  BY <1>2 DEF Count, Queue
<1>4. PICK s \in {"w_asleep", "r_asleep"} : pc' = Woken(s)
  BY DEF CloseWrite, CloseRead
<1>5. /\ pc' \in [Procs -> Steps]
      /\ \A q \in Procs : pc'[q] = pc[q] \/ (pc[q] \in {"w_asleep", "r_asleep"} /\ pc'[q] = "lock")
  BY <1>1, <1>4, WokenIs
<1>6. \A q \in Procs : pc[q] \notin Holding
  BY <1>1, ProcsAssumption DEF Owner, Procs
<1>7. \A q \in Procs : pc'[q] \notin Holding
  BY <1>5, <1>6 DEF Holding
<1>8. readopen' \in {0, 1} /\ writeopen' \in {0, 1}
  BY <1>1 DEF CloseWrite, CloseRead, TypeOK
<1>9. TypeOK'
  BY <1>1, <1>2, <1>5, <1>8 DEF TypeOK
<1>10. Owner' /\ ZeroMeansEnd'
  BY <1>7 DEF Owner, ZeroMeansEnd, Holding, Procs
<1>11. Ends'
  <2>1. /\ \A q \in Procs : pc'[q] \in {"put", "w_asleep"} => q \in Writers
        /\ \A q \in Procs : pc'[q] \in {"copy", "sleep", "r_asleep"} => q \in Readers
        /\ \A q \in Procs : pc'[q] # "put"
        /\ \A q \in Procs : pc[q] = "idle" => pc'[q] = "idle"
    BY <1>1, <1>5, <1>7 DEF Ends, Holding
  <2>2. Writers \subseteq Procs /\ Readers \subseteq Procs
    BY DEF Procs
  <2>3. ASSUME NEW q \in Writers, pc'[q] # "idle" PROVE writeopen' = 1
    BY <1>1, <1>5, <2>1, <2>2, <2>3 DEF CloseWrite, CloseRead, Ends
  <2>4. ASSUME NEW q \in Readers, pc'[q] # "idle" PROVE readopen' = 1
    BY <1>1, <1>5, <2>1, <2>2, <2>4 DEF CloseWrite, CloseRead, Ends
  <2> QED
    BY <2>1, <2>3, <2>4 DEF Ends
<1>12. (Count <= PIPESIZE)'
  BY <1>3 DEF PipeInv
<1>13. Abstract!Close
  BY <1>3 DEF Abstract!Close, CloseWrite, CloseRead
<1> QED
  BY <1>9, <1>10, <1>11, <1>12, <1>13 DEF PipeInv

\* An empty pipe.
LEMMA EmptyRing == (0 - 0) % CounterRange = 0 /\ 1 .. 0 = {}
<1>1. 0 \in Counters
  BY SizeAssumption DEF Counters
<1> QED
  BY <1>1, DistanceIs

\* pipealloc makes an empty pipe of one that is closed.
LEMMA AllocKeeps == ASSUME PipeInv, PipeAlloc PROVE PipeInv' /\ Abstract!Renew
<1>1. TypeOK /\ Ends /\ readopen = 0 /\ writeopen = 0
  BY DEF PipeInv, PipeAlloc
<1>2. \A q \in Procs : pc[q] = "idle"
  BY <1>1 DEF Ends, Procs
<1>3. UNCHANGED <<lock, data, pc, n, i>> /\ nread' = 0 /\ nwrite' = 0 /\ readopen' = 1 /\ writeopen' = 1
  BY DEF PipeAlloc
<1>4. TypeOK'
  BY <1>1, <1>3, SizeAssumption DEF TypeOK, PipeAlloc, Counters
<1>5. Owner' /\ Ends' /\ ZeroMeansEnd'
  BY <1>2, <1>3 DEF Owner, Ends, ZeroMeansEnd, Holding, Procs
<1>6. Count' = 0 /\ Queue' = <<>>
  <2>1. Count' = 0
    BY <1>3, EmptyRing DEF Count
  <2> QED
    BY <1>3, <2>1, EmptyRing DEF Queue
<1>7. (Count <= PIPESIZE)'
  BY <1>6, SizeAssumption
<1>8. Abstract!Renew
  BY <1>1, <1>3, <1>6 DEF Abstract!Renew
<1> QED
  BY <1>4, <1>5, <1>7, <1>8 DEF PipeInv

-----------------------------------------------------------------------------
\* Every step keeps the invariant and is a step of the queue, or none.
LEMMA PipeStep == ASSUME PipeInv, Step PROVE PipeInv' /\ (Abstract!FNext \/ UNCHANGED Abstract!fvars)
<1>1. ASSUME PipeAlloc PROVE PipeInv' /\ Abstract!FNext
  BY <1>1, AllocKeeps DEF Abstract!FNext
<1>2. ASSUME CloseWrite \/ CloseRead PROVE PipeInv' /\ Abstract!FNext
  BY <1>2, CloseKeeps DEF Abstract!FNext
<1>3. ASSUME NEW p \in Procs, NEW v \in Vals, WritePut(p, v) PROVE PipeInv' /\ Abstract!FNext
  BY <1>3, PutKeeps DEF Abstract!FNext
<1>4. ASSUME NEW p \in Procs, ReadCopy(p) PROVE PipeInv' /\ Abstract!FNext
  BY <1>4, CopyKeeps DEF Abstract!FNext
<1>5. ASSUME NEW p \in Procs, WriteSleep(p) PROVE PipeInv' /\ UNCHANGED Abstract!fvars
  BY <1>5, SleepKeeps DEF WriteSleep
<1>6. ASSUME NEW p \in Procs, WriteCopyFails(p) PROVE PipeInv' /\ UNCHANGED Abstract!fvars
  BY <1>6, ReturnKeeps DEF WriteCopyFails, WakeReaders, Holding
<1>7. ASSUME NEW p \in Procs, ReadSleep(p) PROVE PipeInv' /\ UNCHANGED Abstract!fvars
  BY <1>7, SleepKeeps DEF ReadSleep
<1>8. ASSUME NEW p \in Procs, ReadDone(p) PROVE PipeInv' /\ UNCHANGED Abstract!fvars
  BY <1>8, ReturnKeeps DEF ReadDone, WakeWriters, Holding
<1>9. ASSUME UNCHANGED vars PROVE PipeInv' /\ UNCHANGED Abstract!fvars
  <2>1. UNCHANGED <<lock, data, nread, nwrite, readopen, writeopen, pc, n, i, killed>>
    BY <1>9 DEF vars, ring, ends
  <2>2. TypeOK' /\ Owner' /\ Ends'
    BY <2>1 DEF PipeInv, TypeOK, Owner, Ends
  <2>3. Count' = Count /\ Queue' = Queue /\ (Empty' <=> Empty)
    BY <2>1 DEF Count, Queue, Empty
  <2>4. ZeroMeansEnd' /\ (Count <= PIPESIZE)'
    BY <2>1, <2>3 DEF PipeInv, ZeroMeansEnd
  <2> QED
    BY <2>1, <2>2, <2>3, <2>4 DEF PipeInv, Abstract!fvars
<1>10. ASSUME NEW p \in Procs, Work(p) PROVE PipeInv' /\ (Abstract!FNext \/ UNCHANGED Abstract!fvars)
  BY <1>3, <1>4, <1>5, <1>6, <1>7, <1>8, <1>10, AcquireKeeps, WriteLoopKeeps, ReadLoopKeeps DEF Work
<1> QED
  BY <1>1, <1>2, <1>9, <1>10, CallKeeps, KillKeeps DEF Step, Next

\* pipealloc makes an empty queue.
LEMMA PipeInit == Init => PipeInv /\ Abstract!FInit
<1> SUFFICES ASSUME Init PROVE PipeInv /\ Abstract!FInit
  OBVIOUS
<1>1. TypeOK
  <2>1. data \in [0 .. PIPESIZE - 1 -> Vals]
    BY DEF Init
  <2> QED
    BY <2>1, SizeAssumption DEF Init, TypeOK, Counters, Steps
<1>2. Owner /\ Ends /\ ZeroMeansEnd
  BY DEF Init, Owner, Ends, ZeroMeansEnd, Holding, Procs
<1>3. Count = 0 /\ Queue = <<>>
  <2>1. Count = 0
    BY EmptyRing DEF Init, Count
  <2> QED
    BY <2>1, EmptyRing DEF Queue
<1>4. Count <= PIPESIZE
  BY <1>3, SizeAssumption
<1> QED
  BY <1>1, <1>2, <1>3, <1>4 DEF PipeInv, Abstract!FInit, Init

\* Pipes implement bounded queues, and a read of 0 bytes means the end of the
\* file: pipewrite, piperead, pipeclose and pipealloc, with any numbers of
\* readers and writers, any size of the ring, and counters that wrap around.
THEOREM PipesAreFifos == Spec => PipesCorrect
<1>1. PipeInv /\ [Next]_vars => PipeInv' /\ [Abstract!FNext]_(Abstract!fvars)
  BY PipeStep DEF Step
<1>2. PipeInv => ZeroMeansEnd
  BY DEF PipeInv
<1> QED
  BY <1>1, <1>2, PipeInit, PTL DEF Spec, PipesCorrect, ImplementsFifo, Abstract!FSpec
=============================================================================
