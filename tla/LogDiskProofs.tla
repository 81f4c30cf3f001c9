----------------------------- MODULE LogDiskProofs --------------------------
(***************************************************************************)
(* The inductive invariant of the log (module Log), and what its steps do  *)
(* to the disk and to the buffers that the log pins.  LogAtomicProofs has  *)
(* sys_sync and the refinement of AtomicDisk, LogProofs the counting of    *)
(* calls and of the log's space, and the theorems.                         *)
(***************************************************************************)
EXTENDS Log, TLAPS

Contents == Vals \cup {Torn}
CommitSteps == {"write_log", "write_head", "install", "clear", "finish"}
Steps == {"idle", "begin", "begin_sleep", "op", "sync", "sync_sleep"} \cup CommitSteps

TypeOK ==
    /\ home \in [Blocks -> Contents] /\ logd \in [1 .. LOGBLOCKS -> Contents] /\ head \in Seq(Blocks)
    /\ cache \in [Blocks -> Contents \cup {NotCached}] /\ pins \in [Blocks -> Int]
    /\ lh \in Seq(Blocks) /\ outstanding \in Nat /\ committing \in {0, 1} /\ ncommit \in Nat
    /\ pc \in [Procs -> Steps] /\ tail \in [Procs -> Nat] /\ syncn \in [Procs -> Nat]
    /\ boot \in {"up", "read_head", "install", "clear"} /\ btail \in Nat
    /\ wrote \in [Procs -> SUBSET Blocks] /\ calls \in [Procs -> Nat]
    /\ unsaved \in SUBSET Procs /\ need \in [Procs -> SUBSET Procs]

-----------------------------------------------------------------------------
\* Who is in a call, and who commits.
Ops == {p \in Procs : pc[p] = "op"}

\* At most one process commits, with no call under way; recovery is alone.
Committer ==
    /\ outstanding = Cardinality(Ops)
    /\ \A p \in Procs : pc[p] \in CommitSteps => committing = 1
    /\ committing = 1 => outstanding = 0 /\ \E p \in Procs : pc[p] \in CommitSteps
    /\ \A p, q \in Procs : pc[p] \in CommitSteps /\ pc[q] \in CommitSteps => p = q
    /\ boot # "up" => \A p \in Procs : pc[p] = "idle"
OneCommitter == Committer /\ \A p \in Procs : pc[p] = "op" => outstanding > 0 /\ committing = 0

\* Space: each call may log as many blocks more as MAXOPBLOCKS less those it
\* has written, each of which is a credit.
Credits == {x \in Procs \X (1 .. MAXOPBLOCKS) : pc[x[1]] = "op" /\ x[2] > Cardinality(wrote[x[1]])}
Space ==
    /\ Len(lh) <= LOGBLOCKS /\ Len(head) <= LOGBLOCKS
    /\ committing = 0 => Len(lh) + Cardinality(Credits) <= LOGBLOCKS
    /\ \A p \in Procs : pc[p] = "op" =>
            /\ wrote[p] \subseteq Logged /\ IsFiniteSet(wrote[p])
            /\ Cardinality(wrote[p]) <= calls[p] /\ calls[p] <= OpWrites
            /\ Cardinality(wrote[p]) <= OpBlocks

\* sys_sync: a call that has ended is saved by the commit under way or by the
\* next one.
Syncing ==
    /\ unsaved # {} => outstanding > 0 \/ committing = 1
    /\ \A p \in Procs : need[p] # {} => pc[p] \in {"sync", "sync_sleep"} /\ ncommit < syncn[p]

-----------------------------------------------------------------------------
Distinct(list) == \A i, j \in 1 .. Len(list) : list[i] = list[j] => i = j

\* Blocks of the transaction that are not at home yet.
Pending(b) ==
    /\ boot = "up"
    /\ \E i \in 1 .. Len(lh) : lh[i] = b /\ \A p \in Procs : pc[p] = "install" => i > tail[p]
    /\ \A p \in Procs : pc[p] # "clear"

\* The cache differs from the disk in pending blocks only, and they are pinned.
Pins ==
    \A b \in Blocks :
        /\ Pending(b) => pins[b] = 1 /\ cache[b] # NotCached
        /\ ~Pending(b) => pins[b] = 0 /\ cache[b] \in {NotCached, home[b]}

\* What the disk holds at each step of a commit ...
Phase(p) ==
    /\ pc[p] = "write_log" =>
            tail[p] < Len(lh) /\ \A i \in 1 .. Len(lh) : i <= tail[p] => logd[i] = cache[lh[i]]
    /\ pc[p] = "write_head" => tail[p] = 0 /\ lh # <<>> /\ \A i \in 1 .. Len(lh) : logd[i] = cache[lh[i]]
    /\ pc[p] = "install" =>
            /\ tail[p] < Len(lh)
            /\ \A i \in 1 .. Len(lh) : IF i <= tail[p] THEN home[lh[i]] = logd[i] ELSE cache[lh[i]] = logd[i]
    /\ pc[p] = "clear" => \A i \in 1 .. Len(lh) : home[lh[i]] = logd[i]
    /\ pc[p] = "finish" => lh = <<>>

\* ... and of recovery.
RecoveryPhase ==
    /\ boot = "read_head" => lh = <<>> /\ btail = 0
    /\ boot \in {"install", "clear"} => lh = head
    /\ boot = "install" => btail < Len(lh) /\ \A i \in 1 .. Len(lh) : i <= btail => home[lh[i]] = logd[i]
    /\ boot = "clear" => \A i \in 1 .. Len(lh) : home[lh[i]] = logd[i]

\* The header on the disk is not empty while a commit installs its blocks.
HeadPhase == boot = "up" => head = IF \E p \in Procs : pc[p] \in {"install", "clear"} THEN lh ELSE <<>>

Phases == Distinct(lh) /\ Distinct(head) /\ HeadPhase /\ RecoveryPhase /\ \A p \in Procs : Phase(p)

\* A step of the specification.
Step == Next \/ UNCHANGED vars

LogInv == TypeOK /\ ~panicked /\ OneCommitter /\ Space /\ Syncing /\ Pins /\ Phases
-----------------------------------------------------------------------------
\* Elements, lengths, and Append.
LEMMA ElementIs == ASSUME NEW S, NEW seq \in Seq(S), NEW j \in 1 .. Len(seq) PROVE seq[j] \in S
  OBVIOUS

\* A list has a length.
LEMMA LenIs == ASSUME NEW S, NEW seq \in Seq(S) PROVE Len(seq) \in Nat
  OBVIOUS

\* The list of an empty transaction has no entry.
LEMMA EmptyIs ==
    ASSUME NEW S
    PROVE  <<>> \in Seq(S) /\ Len(<<>>) = 0 /\ \A seq \in Seq(S) : seq = <<>> <=> Len(seq) = 0
  OBVIOUS

\* log_write adds a block at the end of the list.
LEMMA AppendIs ==
    ASSUME NEW S, NEW seq \in Seq(S), NEW elt \in S
    PROVE  /\ Append(seq, elt) \in Seq(S) /\ Len(Append(seq, elt)) = Len(seq) + 1
           /\ \A j \in 1 .. Len(seq) : Append(seq, elt)[j] = seq[j]
           /\ Append(seq, elt)[Len(seq) + 1] = elt
  OBVIOUS

\* What wakeup(&log) does to one process.
LEMMA WakeupIs ==
    ASSUME NEW f \in [Procs -> Steps]
    PROVE  /\ Wakeup(f) \in [Procs -> Steps]
           /\ \A p \in Procs :
                \/ Wakeup(f)[p] = f[p] /\ f[p] \notin {"begin_sleep", "sync_sleep"}
                \/ f[p] = "begin_sleep" /\ Wakeup(f)[p] = "begin"
                \/ f[p] = "sync_sleep" /\ Wakeup(f)[p] = "sync"
  BY DEF Wakeup, Steps, CommitSteps

\* wakeup moves only processes that sleep.
LEMMA WakeupOthers ==
    ASSUME NEW f \in [Procs -> Steps], NEW p \in Procs
    PROVE  Wakeup(f)[p] = f[p] \/ (f[p] \in {"begin_sleep", "sync_sleep"} /\ Wakeup(f)[p] \in {"begin", "sync"})
  BY DEF Wakeup

\* A process that commits is the only one in a commit or in a call.
LEMMA CommitterAlone ==
    ASSUME TypeOK, OneCommitter, NEW p \in Procs, pc[p] \in CommitSteps
    PROVE  /\ boot = "up" /\ committing = 1 /\ outstanding = 0
           /\ \A q \in Procs : pc[q] # "op" /\ (q # p => pc[q] \notin CommitSteps)
<1>1. committing = 1 /\ outstanding = 0
  BY DEF OneCommitter, Committer
<1>4. \A q \in Procs : pc[q] # "op"
  BY <1>1 DEF OneCommitter
<1>5. \A q \in Procs : q # p => pc[q] \notin CommitSteps
  BY DEF OneCommitter, Committer
<1>6. boot = "up"
  BY DEF OneCommitter, Committer, CommitSteps
<1> QED
  BY <1>1, <1>4, <1>5, <1>6

\* While the log is written, and before, every block of the transaction is
\* pending.
LEMMA PendingInLog ==
    ASSUME boot = "up", \A q \in Procs : pc[q] \notin {"install", "clear"}
    PROVE  \A b \in Blocks : Pending(b) <=> b \in Logged
  BY DEF Pending, Logged

\* The block that write_log, install_trans or recovery is at.
LEMMA NextBlock ==
    ASSUME TypeOK, NEW k \in Nat, k < Len(lh), Len(lh) <= LOGBLOCKS
    PROVE  /\ k + 1 \in 1 .. Len(lh) /\ k + 1 \in 1 .. LOGBLOCKS /\ lh[k + 1] \in Blocks
           /\ logd[k + 1] \in Contents
<1>1. Len(lh) \in Nat
  BY LenIs DEF TypeOK
<1>2. k + 1 \in 1 .. Len(lh) /\ k + 1 \in 1 .. LOGBLOCKS
  BY <1>1, SizesAssumption
<1>3. lh[k + 1] \in Blocks
  BY <1>2, ElementIs DEF TypeOK
<1> QED
  BY <1>2, <1>3 DEF TypeOK

-----------------------------------------------------------------------------
\* Pins in the next state, from what becomes of each block.
LEMMA PinsNext ==
    ASSUME \A b \in Blocks : Pending(b)' => pins'[b] = 1 /\ cache'[b] # NotCached,
           \A b \in Blocks : ~Pending(b)' => pins'[b] = 0 /\ cache'[b] \in {NotCached, home'[b]}
    PROVE  Pins'
  BY DEF Pins

\* A step that moves no block and no committer from its place.
LEMMA DiskKept ==
    ASSUME LogInv, UNCHANGED <<disk, bufs, lh, recovery>>,
           \A p \in Procs : pc[p] \in {"install", "clear"} => pc'[p] = pc[p] /\ tail'[p] = tail[p],
           \A p \in Procs : pc'[p] \in CommitSteps =>
                \/ pc'[p] = pc[p] /\ tail'[p] = tail[p]
                \/ pc'[p] = "write_log" /\ tail'[p] = 0 /\ lh # <<>>
                \/ pc'[p] = "finish" /\ lh = <<>>
    PROVE  Pins' /\ Phases'
<1>1. UNCHANGED <<home, logd, head, cache, pins, boot, btail>>
  BY DEF disk, bufs, recovery
<1>2. \A p \in Procs : (pc'[p] = "install" <=> pc[p] = "install") /\ (pc'[p] = "clear" <=> pc[p] = "clear")
  BY DEF CommitSteps
<1>3. \A p \in Procs : pc[p] = "install" => tail'[p] = tail[p]
  OBVIOUS
<1>4. \A b \in Blocks : Pending(b)' <=> Pending(b)
  BY <1>1, <1>2, <1>3 DEF Pending
<1>5. Pins'
  BY <1>1, <1>4, PinsNext DEF LogInv, Pins
<1>6. Distinct(lh)' /\ Distinct(head)' /\ RecoveryPhase'
  <2>1. Distinct(lh)'
    BY <1>1 DEF LogInv, Phases, Distinct
  <2>2. Distinct(head)'
    BY <1>1 DEF LogInv, Phases, Distinct
  <2>3. RecoveryPhase'
    BY <1>1 DEF LogInv, Phases, RecoveryPhase
  <2> QED
    BY <2>1, <2>2, <2>3
<1>7. HeadPhase'
  BY <1>1, <1>2 DEF LogInv, Phases, HeadPhase
<1>8. Len(lh) \in Nat /\ (lh # <<>> => Len(lh) > 0)
  BY EmptyIs, LenIs DEF LogInv, TypeOK
<1>9. ASSUME NEW p \in Procs PROVE Phase(p)'
  <2>1. CASE pc'[p] = pc[p] /\ tail'[p] = tail[p]
    BY <1>1, <2>1 DEF LogInv, Phases, Phase
  <2>2. CASE pc'[p] = "write_log" /\ tail'[p] = 0 /\ lh # <<>>
    BY <1>1, <1>8, <2>2 DEF Phase
  <2>3. CASE pc'[p] = "finish" /\ lh = <<>>
    BY <2>3 DEF Phase
  <2>4. CASE pc'[p] \notin CommitSteps
    BY <2>4 DEF Phase, CommitSteps
  <2> QED
    BY <2>1, <2>2, <2>3, <2>4
<1> QED
  BY <1>5, <1>6, <1>7, <1>9 DEF Phases

\* log_write: the block is in the cache, pinned and in the log.
LEMMA LogWriteDisk ==
    ASSUME LogInv, ~panicked', boot = "up",
           NEW p \in Procs, NEW b \in Blocks, NEW v \in Vals, LogWrite(p, b, v)
    PROVE  Pins' /\ Phases'
<1>0. TypeOK /\ OneCommitter /\ Pins /\ Phases /\ Len(lh) \in Nat
  BY LenIs DEF LogInv, TypeOK
<1>1. pc[p] = "op"
  BY DEF LogWrite
<1>2. \A q \in Procs : pc[q] \notin CommitSteps
  BY <1>0, <1>1 DEF OneCommitter, Committer
<1>3. /\ cache' = [cache EXCEPT ![b] = v]
      /\ lh' = IF b \in Logged THEN lh ELSE Append(lh, b)
      /\ pins' = IF b \in Logged THEN pins ELSE [pins EXCEPT ![b] = @ + 1]
  BY DEF LogWrite, Absorbed, Pinned
<1>4. UNCHANGED <<home, logd, head, pc, tail, boot, btail>>
  BY DEF LogWrite, disk, locals, recovery
<1>5. \A q \in Procs : pc[q] \notin {"install", "clear"}
  BY <1>2 DEF CommitSteps
<1>6. \A x \in Blocks : Pending(x) <=> x \in Logged
  BY <1>5, PendingInLog
<1>7. \A x \in Blocks : Pending(x)' <=> x \in Logged'
  BY <1>4, <1>5 DEF Pending, Logged
<1>8. Logged' = Logged \cup {b} /\ Distinct(lh')
  <2>1. CASE b \in Logged
    BY <1>0, <1>3, <2>1 DEF Logged, Phases
  <2>2. CASE b \notin Logged
    <3>1. Len(lh') = Len(lh) + 1 /\ lh'[Len(lh) + 1] = b /\ \A i \in 1 .. Len(lh) : lh'[i] = lh[i]
      BY <1>0, <1>3, <2>2, AppendIs DEF TypeOK
    <3>2. Logged' = Logged \cup {b}
      BY <1>0, <3>1 DEF Logged
    <3>3. \A i \in 1 .. Len(lh) : lh[i] # b
      BY <2>2 DEF Logged
    <3>4. Distinct(lh')
      BY <1>0, <3>1, <3>3 DEF Distinct, Phases
    <3> QED
      BY <3>2, <3>4
  <2> QED
    BY <2>1, <2>2
<1>9. pins'[b] = 1 /\ cache'[b] = v
  <2>1. CASE b \in Logged
    BY <1>0, <1>3, <1>6, <2>1 DEF TypeOK, Pins
  <2>2. CASE b \notin Logged
    BY <1>0, <1>3, <1>6, <2>2 DEF TypeOK, Pins
  <2> QED
    BY <2>1, <2>2
<1>10. \A x \in Blocks : x # b => pins'[x] = pins[x] /\ cache'[x] = cache[x]
  BY <1>0, <1>3 DEF TypeOK
<1>11. Pins'
  <2>1. v # NotCached
    BY ValsAssumption
  <2>2. ASSUME NEW x \in Blocks, Pending(x)' PROVE pins'[x] = 1 /\ cache'[x] # NotCached
    <3>1. x = b \/ (x # b /\ Pending(x))
      BY <1>6, <1>7, <1>8, <2>2
    <3> QED
      BY <1>0, <1>9, <1>10, <2>1, <3>1 DEF Pins
  <2>3. ASSUME NEW x \in Blocks, ~Pending(x)' PROVE pins'[x] = 0 /\ cache'[x] \in {NotCached, home'[x]}
    <3>1. x # b /\ ~Pending(x)
      BY <1>6, <1>7, <1>8, <2>3
    <3> QED
      BY <1>0, <1>4, <1>10, <3>1 DEF Pins
  <2> QED
    BY <2>2, <2>3, PinsNext
<1>12. Distinct(head)' /\ HeadPhase' /\ RecoveryPhase'
  <2>1. Distinct(head)'
    BY <1>0, <1>4, <1>5 DEF Phases, Distinct
  <2>2. HeadPhase'
    BY <1>0, <1>4, <1>5 DEF Phases, HeadPhase
  <2>3. RecoveryPhase'
    BY <1>0, <1>4, <1>5 DEF Phases, RecoveryPhase
  <2> QED
    BY <2>1, <2>2, <2>3
<1>13. \A q \in Procs : Phase(q)'
  BY <1>2, <1>4 DEF Phase, CommitSteps
<1> QED
  BY <1>8, <1>11, <1>12, <1>13 DEF Phases, Distinct

\* The steps before the commit leave the header alone, and nothing is home yet:
\* every block of the transaction is pending.
LEMMA WriteLogDisk ==
    ASSUME LogInv, NEW p \in Procs, WriteLog(p)
    PROVE  Pins' /\ Phases'
<1> DEFINE i == tail[p] + 1
<1>0. TypeOK /\ OneCommitter /\ Pins /\ Phases /\ Len(lh) \in Nat
  BY LenIs DEF LogInv, TypeOK
<1>1. pc[p] = "write_log" /\ tail[p] \in Nat /\ tail[p] < Len(lh)
  BY <1>0 DEF WriteLog, Phases, Phase, TypeOK
<1>2. boot = "up" /\ \A q \in Procs : q # p => pc[q] \notin CommitSteps
  BY <1>0, <1>1, CommitterAlone DEF CommitSteps
<1>3. i \in 1 .. Len(lh) /\ i \in 1 .. LOGBLOCKS
  BY <1>1, NextBlock DEF LogInv, Space
<1>4. UNCHANGED <<home, head, cache, pins, lh, boot, btail>>
  BY DEF WriteLog, bufs, log, recovery
<1>5. logd'[i] = cache[lh[i]] /\ \A j \in 1 .. Len(lh) : j < i => logd'[j] = logd[j]
  <2>1. Len(lh) <= LOGBLOCKS
    BY DEF LogInv, Space
  <2>2. logd' = [logd EXCEPT ![i] = cache[lh[i]]]
    BY DEF WriteLog
  <2>3. \A j \in 1 .. Len(lh) : j \in 1 .. LOGBLOCKS
    BY <1>0, <2>1, SizesAssumption
  <2> HIDE DEF i
  <2> QED
    BY <1>0, <1>3, <2>2, <2>3 DEF TypeOK
<1>6. pc'[p] = (IF i = Len(lh) THEN "write_head" ELSE "write_log") /\ tail'[p] = (IF i = Len(lh) THEN 0 ELSE i)
  BY <1>0, <1>1 DEF WriteLog, TypeOK
<1>7. \A q \in Procs : q # p => pc'[q] = pc[q]
  BY <1>0 DEF WriteLog, TypeOK
<1>8. \A q \in Procs : pc[q] \notin {"install", "clear"} /\ pc'[q] \notin {"install", "clear"}
  BY <1>1, <1>2, <1>6, <1>7 DEF CommitSteps
<1>9. \A b \in Blocks : Pending(b)' <=> Pending(b)
  BY <1>4, <1>8 DEF Pending
<1>10. Pins'
  BY <1>0, <1>4, <1>9, PinsNext DEF Pins
<1>11. Distinct(lh)' /\ Distinct(head)' /\ HeadPhase' /\ RecoveryPhase'
  <2>1. Distinct(lh)'
    BY <1>0, <1>2, <1>4, <1>8 DEF Phases, Distinct
  <2>2. Distinct(head)'
    BY <1>0, <1>2, <1>4, <1>8 DEF Phases, Distinct
  <2>3. HeadPhase'
    BY <1>0, <1>2, <1>4, <1>8 DEF Phases, HeadPhase
  <2>4. RecoveryPhase'
    BY <1>0, <1>2, <1>4, <1>8 DEF Phases, RecoveryPhase
  <2> QED
    BY <2>1, <2>2, <2>3, <2>4
<1>12. \A j \in 1 .. Len(lh) : j <= i => logd'[j] = cache[lh[j]]
  <2>1. \A j \in 1 .. Len(lh) : j <= tail[p] => logd[j] = cache[lh[j]]
    BY <1>0, <1>1 DEF Phases, Phase
  <2>2. \A j \in 1 .. Len(lh) : j <= i => j = i \/ (j < i /\ j <= tail[p])
    BY <1>1
  <2> QED
    BY <1>5, <2>1, <2>2
<1>13. Phase(p)'
  <2>1. CASE i = Len(lh)
    <3>1. lh # <<>>
      BY <1>1
    <3>2. \A j \in 1 .. Len(lh) : logd'[j] = cache[lh[j]]
      BY <1>0, <1>12, <2>1
    <3> QED
      BY <1>4, <1>6, <2>1, <3>1, <3>2 DEF Phase
  <2>2. CASE i # Len(lh)
    <3>1. i < Len(lh)
      BY <1>0, <1>1, <2>2
    <3> HIDE DEF i
    <3> QED
      BY <1>4, <1>6, <1>12, <2>2, <3>1 DEF Phase
  <2> QED
    BY <2>1, <2>2
<1>14. \A q \in Procs : q # p => Phase(q)'
  BY <1>2, <1>7 DEF Phase, CommitSteps
<1> QED
  BY <1>10, <1>11, <1>13, <1>14 DEF Phases

\* write_head of a commit: the header gets the list, all copied.
LEMMA WriteHeadDisk ==
    ASSUME LogInv, NEW p \in Procs, WriteHead(p)
    PROVE  Pins' /\ Phases'
<1>0. TypeOK /\ OneCommitter /\ Pins /\ Phases /\ Len(lh) \in Nat
  BY LenIs DEF LogInv, TypeOK
<1>1. pc[p] = "write_head" /\ tail[p] = 0 /\ lh # <<>> /\ \A i \in 1 .. Len(lh) : logd[i] = cache[lh[i]]
  BY <1>0 DEF WriteHead, Phases, Phase
<1>2. boot = "up" /\ \A q \in Procs : q # p => pc[q] \notin CommitSteps
  BY <1>0, <1>1, CommitterAlone DEF CommitSteps
<1>3. UNCHANGED <<home, logd, cache, pins, lh, boot, btail, tail>> /\ head' = lh
  BY DEF WriteHead, bufs, log, recovery
<1>4. pc'[p] = "install" /\ \A q \in Procs : q # p => pc'[q] = pc[q]
  BY <1>0 DEF WriteHead, TypeOK
<1>5. /\ \A q \in Procs : pc[q] \notin {"install", "clear"} /\ pc'[q] # "clear"
      /\ \A q \in Procs : pc'[q] = "install" => q = p
  BY <1>1, <1>2, <1>4 DEF CommitSteps
<1>6. \A b \in Blocks : Pending(b)' <=> Pending(b)
  BY <1>1, <1>3, <1>5 DEF Pending
<1>7. Pins'
  BY <1>0, <1>3, <1>6, PinsNext DEF Pins
<1>8. HeadPhase' /\ RecoveryPhase'
  <2>1. HeadPhase'
    BY <1>2, <1>3, <1>4 DEF HeadPhase
  <2>2. RecoveryPhase'
    BY <1>2, <1>3, <1>4 DEF RecoveryPhase
  <2> QED
    BY <2>1, <2>2
<1>9. Distinct(lh)' /\ Distinct(head)'
  <2>1. Distinct(lh)'
    BY <1>0, <1>3 DEF Phases, Distinct
  <2>2. Distinct(head)'
    BY <1>0, <1>3 DEF Phases, Distinct
  <2> QED
    BY <2>1, <2>2
<1>10. Phase(p)'
  <2>1. Len(lh) > 0
    BY <1>0, <1>1, EmptyIs DEF TypeOK
  <2> QED
    BY <1>0, <1>1, <1>3, <1>4, <2>1 DEF Phase
<1>11. \A q \in Procs : q # p => Phase(q)'
  BY <1>2, <1>4 DEF Phase, CommitSteps
<1> QED
  BY <1>7, <1>8, <1>9, <1>10, <1>11 DEF Phases

\* install_trans: one block less is pending, and it is home.
LEMMA InstallDisk ==
    ASSUME LogInv, NEW p \in Procs, Install(p)
    PROVE  Pins' /\ Phases'
<1> DEFINE i == tail[p] + 1
<1>0. TypeOK /\ OneCommitter /\ Pins /\ Phases /\ Len(lh) \in Nat
  BY LenIs DEF LogInv, TypeOK
<1>1. /\ pc[p] = "install" /\ tail[p] \in Nat /\ tail[p] < Len(lh)
      /\ \A j \in 1 .. Len(lh) : IF j <= tail[p] THEN home[lh[j]] = logd[j] ELSE cache[lh[j]] = logd[j]
  BY <1>0 DEF Install, Phases, Phase, TypeOK
<1>2. boot = "up" /\ \A q \in Procs : q # p => pc[q] \notin CommitSteps
  BY <1>0, <1>1, CommitterAlone DEF CommitSteps
<1>3. i \in 1 .. Len(lh) /\ lh[i] \in Blocks
  BY <1>1, NextBlock DEF LogInv, Space
<1>b. PICK b \in Blocks : b = lh[i]
  BY <1>3
<1>4. UNCHANGED <<logd, head, lh, boot, btail>>
  BY DEF Install, log, recovery
<1>5. pc'[p] = (IF i = Len(lh) THEN "clear" ELSE "install") /\ tail'[p] = (IF i = Len(lh) THEN 0 ELSE i)
  BY <1>0, <1>1 DEF Install, TypeOK
<1>6. \A q \in Procs : q # p => pc'[q] = pc[q]
  BY <1>0 DEF Install, TypeOK
<1>7. home'[b] = logd[i] /\ cache'[b] = logd[i] /\ pins'[b] = pins[b] - 1
  BY <1>0, <1>b DEF Install, TypeOK
<1>8. \A x \in Blocks : x # b => home'[x] = home[x] /\ cache'[x] = cache[x] /\ pins'[x] = pins[x]
  BY <1>0, <1>b DEF Install, TypeOK
<1>9. \A j \in 1 .. Len(lh) : lh[j] \in Blocks /\ (j # i => lh[j] # b)
  BY <1>0, <1>3, <1>b, ElementIs DEF TypeOK, Phases, Distinct
<1>10. /\ \A q \in Procs : pc[q] # "clear" /\ (pc[q] = "install" => q = p)
       /\ \A q \in Procs : (pc'[q] = "clear" \/ pc'[q] = "install") => q = p
  BY <1>1, <1>2, <1>5, <1>6 DEF CommitSteps
<1>11. \A x \in Blocks : Pending(x) <=> \E j \in 1 .. Len(lh) : lh[j] = x /\ j >= i
  <2>1. \A j \in 1 .. Len(lh) : j >= i <=> j > tail[p]
    BY <1>1
  <2> HIDE DEF i
  <2> QED
    BY <1>1, <1>2, <1>10, <2>1 DEF Pending
<1>12. \A x \in Blocks : Pending(x)' <=> \E j \in 1 .. Len(lh) : lh[j] = x /\ j > i
  <2>1. CASE i = Len(lh)
    <3>1. \A x \in Blocks : ~Pending(x)'
      BY <1>5, <2>1 DEF Pending
    <3> QED
      BY <1>0, <2>1, <3>1
  <2>2. CASE i # Len(lh)
    <3> HIDE DEF i
    <3>1. pc'[p] = "install" /\ tail'[p] = i /\ \A q \in Procs : pc'[q] # "clear"
      BY <1>5, <1>10, <2>2
    <3> QED
      BY <1>2, <1>4, <1>10, <3>1 DEF Pending
  <2> QED
    BY <2>1, <2>2
<1>13. Pending(b) /\ ~Pending(b)' /\ \A x \in Blocks : x # b => (Pending(x)' <=> Pending(x))
  <2>1. Pending(b)
    BY <1>3, <1>b, <1>11
  <2>2. ~Pending(b)'
    BY <1>9, <1>12, <1>3
  <2>3. ASSUME NEW x \in Blocks, x # b, NEW j \in 1 .. Len(lh), lh[j] = x PROVE j >= i <=> j > i
    <3>1. j # i
      BY <1>b, <2>3
    <3> QED
      BY <1>1, <3>1
  <2>4. \A x \in Blocks : x # b => (Pending(x)' <=> Pending(x))
    <3> HIDE DEF i
    <3> QED
      BY <1>11, <1>12, <2>3
  <2> QED
    BY <2>1, <2>2, <2>4
<1>14. Pins'
  <2>1. pins'[b] = 0 /\ cache'[b] = home'[b]
    BY <1>0, <1>3, <1>7, <1>13 DEF Pins
  <2> HIDE DEF i
  <2>2. ASSUME NEW x \in Blocks, Pending(x)' PROVE pins'[x] = 1 /\ cache'[x] # NotCached
    BY <1>0, <1>8, <1>13, <2>2 DEF Pins
  <2>3. ASSUME NEW x \in Blocks, ~Pending(x)' PROVE pins'[x] = 0 /\ cache'[x] \in {NotCached, home'[x]}
    BY <1>0, <1>8, <1>13, <2>1, <2>3 DEF Pins
  <2> QED
    BY <2>2, <2>3, PinsNext
<1>15. \A j \in 1 .. Len(lh) : IF j <= i THEN home'[lh[j]] = logd[j] ELSE cache'[lh[j]] = logd[j]
  <2> SUFFICES ASSUME NEW j \in 1 .. Len(lh)
               PROVE  IF j <= i THEN home'[lh[j]] = logd[j] ELSE cache'[lh[j]] = logd[j]
    OBVIOUS
  <2>1. CASE j = i
    BY <1>1, <1>b, <1>7, <2>1
  <2>2. CASE j # i
    <3>1. (j <= i <=> j <= tail[p]) /\ home'[lh[j]] = home[lh[j]] /\ cache'[lh[j]] = cache[lh[j]]
      <4>1. j <= i <=> j <= tail[p]
        BY <1>1, <2>2
      <4> HIDE DEF i
      <4> QED
        BY <1>8, <1>9, <2>2, <4>1
    <3> HIDE DEF i
    <3> QED
      BY <1>1, <3>1
  <2> QED
    BY <2>1, <2>2
<1>16. HeadPhase' /\ RecoveryPhase' /\ Distinct(lh)' /\ Distinct(head)'
  <2>1. head = lh
    BY <1>0, <1>1, <1>2 DEF Phases, HeadPhase
  <2>2. HeadPhase'
    BY <1>4, <1>5, <2>1 DEF HeadPhase
  <2>3. RecoveryPhase'
    BY <1>2, <1>4 DEF RecoveryPhase
  <2> QED
    BY <1>0, <1>4, <2>2, <2>3 DEF Phases, Distinct
<1>17. Phase(p)'
  <2>1. CASE i = Len(lh)
    <3>1. \A j \in 1 .. Len(lh) : home'[lh[j]] = logd[j]
      BY <1>0, <1>15, <2>1
    <3> HIDE DEF i
    <3> QED
      BY <1>4, <1>5, <2>1, <3>1 DEF Phase
  <2>2. CASE i # Len(lh)
    <3>1. i < Len(lh)
      BY <1>0, <1>1, <2>2
    <3> HIDE DEF i
    <3> QED
      BY <1>4, <1>5, <1>15, <2>2, <3>1 DEF Phase
  <2> QED
    BY <2>1, <2>2
<1>18. \A q \in Procs : q # p => Phase(q)'
  BY <1>2, <1>6 DEF Phase, CommitSteps
<1> QED
  BY <1>14, <1>16, <1>17, <1>18 DEF Phases

\* The second write_head: the header gets the empty list, all installed.
LEMMA ClearHeadDisk ==
    ASSUME LogInv, NEW p \in Procs, ClearHead(p)
    PROVE  Pins' /\ Phases'
<1>0. TypeOK /\ OneCommitter /\ Pins /\ Phases
  BY DEF LogInv
<1>1. pc[p] = "clear"
  BY DEF ClearHead
<1>2. boot = "up" /\ \A q \in Procs : q # p => pc[q] \notin CommitSteps
  BY <1>0, <1>1, CommitterAlone DEF CommitSteps
<1>3. UNCHANGED <<home, logd, cache, pins, boot, btail>> /\ lh' = <<>> /\ head' = <<>>
  BY DEF ClearHead, bufs, recovery
<1>4. pc'[p] = "finish" /\ \A q \in Procs : q # p => pc'[q] = pc[q]
  BY <1>0 DEF ClearHead, TypeOK
<1>5. \A b \in Blocks : ~Pending(b) /\ ~Pending(b)'
  BY <1>1, <1>3 DEF Pending
<1>6. Pins'
  BY <1>0, <1>3, <1>5, PinsNext DEF Pins
<1>7. HeadPhase' /\ RecoveryPhase' /\ Distinct(lh)' /\ Distinct(head)'
  <2>1. HeadPhase'
    BY <1>2, <1>3 DEF HeadPhase
  <2>2. RecoveryPhase'
    BY <1>2, <1>3 DEF RecoveryPhase
  <2>3. Distinct(lh)'
    BY <1>2, <1>3 DEF Distinct
  <2>4. Distinct(head)'
    BY <1>2, <1>3 DEF Distinct
  <2> QED
    BY <2>1, <2>2, <2>3, <2>4
<1>8. \A q \in Procs : Phase(q)'
  BY <1>2, <1>3, <1>4 DEF Phase, CommitSteps
<1> QED
  BY <1>6, <1>7, <1>8 DEF Phases

\* bget does not recycle a block that is pending.
LEMMA EvictDisk ==
    ASSUME LogInv, boot = "up", NEW b \in Blocks, Evict(b)
    PROVE  Pins' /\ Phases'
<1>0. TypeOK /\ OneCommitter /\ Pins /\ Phases
  BY DEF LogInv
<1>1. UNCHANGED <<home, logd, head, pins, lh, pc, tail, boot, btail>>
  BY DEF Evict, disk, log, locals, recovery
<1>2. cache'[b] = NotCached /\ \A x \in Blocks : x # b => cache'[x] = cache[x]
  BY <1>0 DEF Evict, TypeOK
<1>3. ~Pending(b)
  BY <1>0 DEF Evict, Pins
<1>4. \A x \in Blocks : Pending(x)' <=> Pending(x)
  BY <1>1 DEF Pending
<1>5. Pins'
  <2>1. ASSUME NEW x \in Blocks, Pending(x)' PROVE pins'[x] = 1 /\ cache'[x] # NotCached
    BY <1>0, <1>1, <1>2, <1>3, <1>4, <2>1 DEF Pins
  <2>2. ASSUME NEW x \in Blocks, ~Pending(x)' PROVE pins'[x] = 0 /\ cache'[x] \in {NotCached, home'[x]}
    BY <1>0, <1>1, <1>2, <1>3, <1>4, <2>2 DEF Pins
  <2> QED
    BY <2>1, <2>2, PinsNext
<1>6. HeadPhase' /\ RecoveryPhase' /\ Distinct(lh)' /\ Distinct(head)'
  <2>1. HeadPhase'
    BY <1>0, <1>1 DEF Phases, HeadPhase
  <2>2. RecoveryPhase'
    BY <1>0, <1>1 DEF Phases, RecoveryPhase
  <2>3. Distinct(lh)'
    BY <1>0, <1>1 DEF Phases, Distinct
  <2>4. Distinct(head)'
    BY <1>0, <1>1 DEF Phases, Distinct
  <2> QED
    BY <2>1, <2>2, <2>3, <2>4
<1>7. ASSUME NEW p \in Procs PROVE Phase(p)'
  <2>1. Phase(p) /\ Len(lh) \in Nat /\ tail[p] \in Nat
    BY <1>0, LenIs DEF Phases, TypeOK
  <2>2. CASE pc[p] \in {"write_log", "write_head", "install"}
    <3>1. \A q \in Procs : pc[q] # "clear" /\ (pc[q] = "install" => q = p)
      BY <1>0, <2>2, CommitterAlone DEF CommitSteps
    <3>2. ASSUME NEW j \in 1 .. Len(lh), pc[p] = "install" => j > tail[p] PROVE cache'[lh[j]] = cache[lh[j]]
      <4>1. lh[j] \in Blocks
        BY <1>0, ElementIs DEF TypeOK
      <4>2. Pending(lh[j])
        BY <3>1, <3>2 DEF Pending
      <4> QED
        BY <1>2, <1>3, <4>1, <4>2
    <3>3. CASE pc[p] \in {"write_log", "write_head"}
      BY <1>1, <2>1, <3>2, <3>3 DEF Phase
    <3>4. CASE pc[p] = "install"
      <4>1. \A j \in 1 .. Len(lh) : ~(j <= tail[p]) => cache'[lh[j]] = cache[lh[j]]
        BY <2>1, <3>2
      <4> QED
        BY <1>1, <2>1, <3>4, <4>1 DEF Phase
    <3> QED
      BY <2>2, <3>3, <3>4
  <2>3. CASE pc[p] \notin {"write_log", "write_head", "install"}
    BY <1>1, <2>1, <2>3 DEF Phase
  <2> QED
    BY <2>2, <2>3
<1> QED
  BY <1>5, <1>6, <1>7 DEF Phases

\* Power fails: only the disk is left, and recovery is at its beginning.
LEMMA CrashDisk == ASSUME LogInv, Crash PROVE Pins' /\ Phases'
<1>1. /\ boot' = "read_head" /\ btail' = 0 /\ lh' = <<>> /\ head' = head
      /\ \A p \in Procs : pc'[p] = "idle"
      /\ \A b \in Blocks : cache'[b] = NotCached /\ pins'[b] = 0
  BY DEF Crash
<1>2. \A b \in Blocks : ~Pending(b)'
  BY <1>1 DEF Pending
<1>3. Pins'
  BY <1>1, <1>2, PinsNext
<1>4. HeadPhase' /\ RecoveryPhase' /\ Distinct(lh)' /\ Distinct(head)'
  <2>1. HeadPhase'
    BY <1>1 DEF LogInv, Phases, HeadPhase
  <2>2. RecoveryPhase'
    BY <1>1 DEF LogInv, Phases, RecoveryPhase
  <2>3. Distinct(lh)'
    BY <1>1 DEF LogInv, Phases, Distinct
  <2>4. Distinct(head)'
    BY <1>1 DEF LogInv, Phases, Distinct
  <2> QED
    BY <2>1, <2>2, <2>3, <2>4
<1>5. \A p \in Procs : Phase(p)'
  BY <1>1 DEF Phase
<1> QED
  BY <1>3, <1>4, <1>5 DEF Phases

\* Recovery reads the header, ...
LEMMA ReadHeadDisk == ASSUME LogInv, ReadHead PROVE Pins' /\ Phases'
<1>0. TypeOK /\ OneCommitter /\ Pins /\ Phases
  BY DEF LogInv
<1>1. /\ UNCHANGED <<home, logd, head, cache, pins, pc, tail, btail>> /\ lh' = head /\ boot = "read_head"
      /\ boot' = IF head = <<>> THEN "clear" ELSE "install"
  BY DEF ReadHead, disk, bufs, locals
<1>2. \A p \in Procs : pc[p] = "idle"
  BY <1>0, <1>1 DEF OneCommitter, Committer
<1>3. \A b \in Blocks : ~Pending(b) /\ ~Pending(b)'
  BY <1>1 DEF Pending
<1>4. Pins'
  BY <1>0, <1>1, <1>3, PinsNext DEF Pins
<1>5. HeadPhase' /\ Distinct(lh)' /\ Distinct(head)'
  <2>1. HeadPhase'
    BY <1>0, <1>1 DEF Phases, HeadPhase
  <2>2. Distinct(lh)'
    BY <1>0, <1>1 DEF Phases, Distinct
  <2>3. Distinct(head)'
    BY <1>0, <1>1 DEF Phases, Distinct
  <2> QED
    BY <2>1, <2>2, <2>3
<1>6. RecoveryPhase'
  <2>1. btail = 0
    BY <1>0, <1>1 DEF Phases, RecoveryPhase
  <2>2. CASE head = <<>>
    BY <1>1, <2>1, <2>2 DEF RecoveryPhase
  <2>3. CASE head # <<>>
    <3>1. Len(head) \in Nat /\ Len(head) > 0
      BY <1>0, <2>3, EmptyIs, LenIs DEF TypeOK
    <3> QED
      BY <1>1, <2>1, <2>3, <3>1 DEF RecoveryPhase
  <2> QED
    BY <2>2, <2>3
<1>7. \A p \in Procs : Phase(p)'
  BY <1>1, <1>2 DEF Phase
<1> QED
  BY <1>4, <1>5, <1>6, <1>7 DEF Phases

\* ... copies the blocks home ...
LEMMA RecoverInstallDisk == ASSUME LogInv, RecoverInstall PROVE Pins' /\ Phases'
<1> DEFINE i == btail + 1
<1>0. TypeOK /\ OneCommitter /\ Pins /\ Phases /\ Len(lh) \in Nat
  BY LenIs DEF LogInv, TypeOK
<1>1. /\ UNCHANGED <<logd, head, lh, pins, pc, tail>> /\ boot = "install" /\ btail' = i
      /\ boot' = IF i = Len(lh) THEN "clear" ELSE boot
  BY DEF RecoverInstall, log, locals
<1>2. \A p \in Procs : pc[p] = "idle"
  BY <1>0, <1>1 DEF OneCommitter, Committer
<1>3. /\ btail \in Nat /\ btail < Len(lh) /\ lh = head
      /\ \A j \in 1 .. Len(lh) : j <= btail => home[lh[j]] = logd[j]
  BY <1>0, <1>1 DEF Phases, RecoveryPhase, TypeOK
<1>4. i \in 1 .. Len(lh) /\ lh[i] \in Blocks
  BY <1>3, NextBlock DEF LogInv, Space
<1>5. /\ home'[lh[i]] = logd[i] /\ cache'[lh[i]] = logd[i]
      /\ \A x \in Blocks : x # lh[i] => home'[x] = home[x] /\ cache'[x] = cache[x]
  BY <1>0, <1>4 DEF RecoverInstall, TypeOK
<1>6. \A b \in Blocks : ~Pending(b) /\ ~Pending(b)'
  BY <1>1 DEF Pending
<1>7. Pins'
  BY <1>0, <1>1, <1>5, <1>6, PinsNext DEF Pins
<1>8. HeadPhase' /\ Distinct(lh)' /\ Distinct(head)'
  <2>1. HeadPhase'
    BY <1>0, <1>1 DEF Phases, HeadPhase
  <2>2. Distinct(lh)'
    BY <1>0, <1>1 DEF Phases, Distinct
  <2>3. Distinct(head)'
    BY <1>0, <1>1 DEF Phases, Distinct
  <2> QED
    BY <2>1, <2>2, <2>3
<1>9. \A j \in 1 .. Len(lh) : j <= i => home'[lh[j]] = logd[j]
  <2> SUFFICES ASSUME NEW j \in 1 .. Len(lh), j <= i PROVE home'[lh[j]] = logd[j]
    OBVIOUS
  <2>1. CASE j = i
    BY <1>5, <2>1
  <2>2. CASE j # i
    <3>1. lh[j] \in Blocks /\ lh[j] # lh[i]
      BY <1>0, <1>4, <2>2, ElementIs DEF TypeOK, Phases, Distinct
    <3>2. j <= btail
      BY <1>3, <2>2
    <3> QED
      BY <1>3, <1>5, <3>1, <3>2
  <2> QED
    BY <2>1, <2>2
<1>10. RecoveryPhase'
  <2>1. CASE i = Len(lh)
    <3>1. \A j \in 1 .. Len(lh) : home'[lh[j]] = logd[j]
      BY <1>0, <1>9, <2>1
    <3> QED
      BY <1>1, <1>3, <2>1, <3>1 DEF RecoveryPhase
  <2>2. CASE i # Len(lh)
    <3>1. i < Len(lh)
      BY <1>0, <1>3, <2>2
    <3> HIDE DEF i
    <3> QED
      BY <1>1, <1>3, <1>9, <2>2, <3>1 DEF RecoveryPhase
  <2> QED
    BY <2>1, <2>2
<1>11. \A p \in Procs : Phase(p)'
  BY <1>1, <1>2 DEF Phase
<1> QED
  BY <1>7, <1>8, <1>10, <1>11 DEF Phases

\* ... and clears the log.
LEMMA RecoverClearDisk == ASSUME LogInv, RecoverClear PROVE Pins' /\ Phases'
<1>0. TypeOK /\ OneCommitter /\ Pins /\ Phases
  BY DEF LogInv
<1>1. /\ UNCHANGED <<home, logd, cache, pins, pc, tail>> /\ boot = "clear"
      /\ boot' = "up" /\ lh' = <<>> /\ head' = <<>>
  BY DEF RecoverClear, bufs, locals
<1>2. \A p \in Procs : pc[p] = "idle"
  BY <1>0, <1>1 DEF OneCommitter, Committer
<1>3. \A b \in Blocks : ~Pending(b) /\ ~Pending(b)'
  BY <1>1 DEF Pending
<1>4. Pins'
  BY <1>0, <1>1, <1>3, PinsNext DEF Pins
<1>5. HeadPhase' /\ RecoveryPhase' /\ Distinct(lh)' /\ Distinct(head)'
  <2>1. HeadPhase'
    BY <1>1, <1>2 DEF HeadPhase
  <2>2. RecoveryPhase'
    BY <1>1, <1>2 DEF RecoveryPhase
  <2>3. Distinct(lh)'
    BY <1>1, <1>2 DEF Distinct
  <2>4. Distinct(head)'
    BY <1>1, <1>2 DEF Distinct
  <2> QED
    BY <2>1, <2>2, <2>3, <2>4
<1>6. \A p \in Procs : Phase(p)'
  BY <1>1, <1>2 DEF Phase
<1> QED
  BY <1>4, <1>5, <1>6 DEF Phases

\* Every step keeps what the invariant says of the disk and the buffers.
LEMMA DiskStep == ASSUME LogInv, Step, ~panicked' PROVE Pins' /\ Phases'
<1>0. TypeOK /\ OneCommitter /\ Pins /\ Phases /\ ~panicked'
  BY DEF LogInv
<1>1. ASSUME NEW p \in Procs, BeginOp(p) PROVE Pins' /\ Phases'
  <2>1. UNCHANGED <<disk, bufs, lh, recovery, tail>>
    BY <1>1 DEF BeginOp
  <2>2. pc[p] \in {"idle", "begin"} /\ \E s \in {"op", "begin_sleep"} : pc' = [pc EXCEPT ![p] = s]
    BY <1>1 DEF BeginOp
  <2>3. \A q \in Procs : pc'[q] = pc[q] \/ (q = p /\ pc'[q] \in {"op", "begin_sleep"})
    BY <1>0, <2>2 DEF TypeOK
  <2> QED
    BY <2>1, <2>2, <2>3, DiskKept DEF CommitSteps
<1>2. ASSUME NEW p \in Procs, EndOp(p) PROVE Pins' /\ Phases'
  <2>1. UNCHANGED <<disk, bufs, lh, recovery>> /\ pc[p] = "op"
    BY <1>2 DEF EndOp
  <2>2. tail'[p] = 0 /\ \A q \in Procs : q # p => tail'[q] = tail[q]
    BY <1>0, <1>2 DEF EndOp, TypeOK
  <2>3. pc \in [Procs -> Steps] /\ Wakeup(pc) \in [Procs -> Steps]
    BY <1>0, WakeupIs DEF TypeOK
  <2>4. \E s : /\ s = "idle" \/ (s = "finish" /\ lh = <<>>) \/ (s = "write_log" /\ lh # <<>>)
               /\ pc' = [pc EXCEPT ![p] = s] \/ pc' = [Wakeup(pc) EXCEPT ![p] = s]
    BY <1>2 DEF EndOp
  <2>5. pc'[p] = "idle" \/ (pc'[p] = "finish" /\ lh = <<>>) \/ (pc'[p] = "write_log" /\ lh # <<>>)
    BY <2>3, <2>4
  <2>6. \A q \in Procs : q # p => pc'[q] = pc[q] \/ pc'[q] = Wakeup(pc)[q]
    BY <2>3, <2>4
  <2>7. \A q \in Procs : q # p => pc'[q] = pc[q] \/ (pc[q] \in {"begin_sleep", "sync_sleep"} /\ pc'[q] \in {"begin", "sync"})
    BY <2>3, <2>6, WakeupOthers
  <2>8. \A q \in Procs : pc[q] \in {"install", "clear"} => pc'[q] = pc[q] /\ tail'[q] = tail[q]
    BY <2>1, <2>2, <2>7
  <2>9. \A q \in Procs : pc'[q] \in CommitSteps =>
            \/ pc'[q] = pc[q] /\ tail'[q] = tail[q]
            \/ pc'[q] = "write_log" /\ tail'[q] = 0 /\ lh # <<>>
            \/ pc'[q] = "finish" /\ lh = <<>>
    BY <2>2, <2>5, <2>7 DEF CommitSteps
  <2> QED
    BY <2>1, <2>8, <2>9, DiskKept
<1>3. ASSUME NEW p \in Procs, Finish(p) PROVE Pins' /\ Phases'
  <2>1. UNCHANGED <<disk, bufs, lh, recovery, tail>> /\ pc[p] = "finish"
    BY <1>3 DEF Finish
  <2>2. pc \in [Procs -> Steps] /\ Wakeup(pc) \in [Procs -> Steps]
    BY <1>0, WakeupIs DEF TypeOK
  <2>3. pc'[p] = "idle" /\ \A q \in Procs : q # p => pc'[q] = Wakeup(pc)[q]
    BY <1>3, <2>2 DEF Finish
  <2>4. \A q \in Procs : q # p => pc'[q] = pc[q] \/ (pc[q] \in {"begin_sleep", "sync_sleep"} /\ pc'[q] \in {"begin", "sync"})
    <3>1. \A q \in Procs : Wakeup(pc)[q] = pc[q] \/ (pc[q] \in {"begin_sleep", "sync_sleep"} /\ Wakeup(pc)[q] \in {"begin", "sync"})
      BY <2>2, WakeupOthers
    <3> QED
      BY <2>3, <3>1
  <2>5. \A q \in Procs : pc[q] \in {"install", "clear"} => pc'[q] = pc[q] /\ tail'[q] = tail[q]
    BY <2>1, <2>4
  <2>6. \A q \in Procs : pc'[q] \in CommitSteps => pc'[q] = pc[q] /\ tail'[q] = tail[q]
    BY <2>1, <2>3, <2>4 DEF CommitSteps
  <2> QED
    BY <2>1, <2>5, <2>6, DiskKept
<1>4. ASSUME NEW p \in Procs, Sync(p) \/ SyncLoop(p) PROVE Pins' /\ Phases'
  <2>1. UNCHANGED <<disk, bufs, lh, recovery, tail>> /\ pc[p] \in {"idle", "sync"}
    BY <1>4 DEF Sync, SyncLoop, log
  <2>2. \/ pc' = pc \/ pc' = [pc EXCEPT ![p] = "sync"]
        \/ pc' = [pc EXCEPT ![p] = "sync_sleep"] \/ pc' = [pc EXCEPT ![p] = "idle"]
    BY <1>4 DEF Sync, SyncLoop
  <2>3. \A q \in Procs : pc'[q] = pc[q] \/ (q = p /\ pc'[q] \in {"sync", "sync_sleep", "idle"})
    BY <1>0, <2>2 DEF TypeOK
  <2> QED
    BY <2>1, <2>3, DiskKept DEF CommitSteps
<1>5. ASSUME UNCHANGED vars PROVE Pins' /\ Phases'
  <2>1. UNCHANGED <<disk, bufs, lh, recovery, pc, tail>>
    BY <1>5 DEF vars, log, locals
  <2> QED
    BY <2>1, DiskKept
<1> QED
  BY <1>0, <1>1, <1>2, <1>3, <1>4, <1>5, LogWriteDisk, WriteLogDisk, WriteHeadDisk, InstallDisk, ClearHeadDisk, EvictDisk,
     CrashDisk, ReadHeadDisk, RecoverInstallDisk, RecoverClearDisk
     DEF Step, Next, Run, Commit, Recover, Rest

=============================================================================
