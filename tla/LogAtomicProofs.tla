--------------------------- MODULE LogAtomicProofs --------------------------
(***************************************************************************)
(* The types of the log (module Log), what its steps do to the promises of *)
(* sys_sync, and that each of them is a step of AtomicDisk or none.        *)
(***************************************************************************)
EXTENDS LogDiskProofs

-----------------------------------------------------------------------------
\* Types.
LEMMA TypeStep == ASSUME LogInv, Step PROVE TypeOK'
<1> USE DEF LogInv
<1>1. ASSUME NEW p \in Procs, BeginOp(p) PROVE TypeOK'
  <2>1. pc' = [pc EXCEPT ![p] = "op"] \/ pc' = [pc EXCEPT ![p] = "begin_sleep"]
    BY <1>1 DEF BeginOp
  <2>2. pc' \in [Procs -> Steps]
    BY <2>1 DEF TypeOK, Steps
  <2>3. outstanding' = outstanding \/ outstanding' = outstanding + 1
    BY <1>1 DEF BeginOp
  <2>4. wrote' = wrote \/ wrote' = [wrote EXCEPT ![p] = {}]
    BY <1>1 DEF BeginOp
  <2>5. calls' = calls \/ calls' = [calls EXCEPT ![p] = 0]
    BY <1>1 DEF BeginOp
  <2>6. UNCHANGED <<disk, bufs, lh, committing, ncommit, tail, syncn, recovery, history>>
    BY <1>1 DEF BeginOp
  <2>7. wrote' \in [Procs -> SUBSET Blocks]
    BY <2>4 DEF TypeOK
  <2>8. calls' \in [Procs -> Nat]
    <3>1. [calls EXCEPT ![p] = 0] \in [Procs -> Nat]
      BY DEF TypeOK
    <3> QED
      BY <2>5, <3>1 DEF TypeOK
  <2>9. outstanding' \in Nat
    BY <2>3 DEF TypeOK
  <2> QED
    BY <2>2, <2>6, <2>7, <2>8, <2>9 DEF TypeOK, disk, bufs, recovery, history
<1>2. ASSUME NEW p \in Procs, NEW b \in Blocks, NEW v \in Vals, LogWrite(p, b, v) PROVE TypeOK'
  <2>1. lh' = lh \/ lh' = Append(lh, b)
    BY <1>2 DEF LogWrite
  <2>2. cache' = cache \/ cache' = [cache EXCEPT ![b] = v]
    BY <1>2 DEF LogWrite, bufs
  <2>3. pins' = pins \/ pins' = [pins EXCEPT ![b] = @ + 1]
    BY <1>2 DEF LogWrite, bufs, Pinned
  <2>4. wrote' = wrote \/ wrote' = [wrote EXCEPT ![p] = @ \cup {b}]
    BY <1>2 DEF LogWrite
  <2>5. calls' = calls \/ calls' = [calls EXCEPT ![p] = @ + 1]
    BY <1>2 DEF LogWrite
  <2>6. lh' \in Seq(Blocks)
    <3>1. lh \in Seq(Blocks)
      BY DEF TypeOK
    <3> HIDE DEF LogInv
    <3> QED
      BY <2>1, <3>1, AppendIs
  <2>7. cache' \in [Blocks -> Contents \cup {NotCached}]
    <3>1. [cache EXCEPT ![b] = v] \in [Blocks -> Contents \cup {NotCached}]
      BY DEF TypeOK, Contents
    <3> QED
      BY <2>2, <3>1 DEF TypeOK
  <2>8. pins' \in [Blocks -> Int]
    <3>1. [pins EXCEPT ![b] = @ + 1] \in [Blocks -> Int]
      BY DEF TypeOK
    <3> QED
      BY <2>3, <3>1 DEF TypeOK
  <2>9. wrote' \in [Procs -> SUBSET Blocks]
    <3>1. [wrote EXCEPT ![p] = @ \cup {b}] \in [Procs -> SUBSET Blocks]
      BY DEF TypeOK
    <3> QED
      BY <2>4, <3>1 DEF TypeOK
  <2>10. calls' \in [Procs -> Nat]
    <3>1. [calls EXCEPT ![p] = @ + 1] \in [Procs -> Nat]
      BY DEF TypeOK
    <3> QED
      BY <2>5, <3>1 DEF TypeOK
  <2>11. UNCHANGED <<disk, outstanding, committing, ncommit, locals, recovery, history>>
    BY <1>2 DEF LogWrite
  <2> QED
    BY <2>6, <2>7, <2>8, <2>9, <2>10, <2>11 DEF TypeOK, disk, locals, recovery, history
<1>3. ASSUME NEW p \in Procs, EndOp(p) PROVE TypeOK'
  <2>1. outstanding' \in Nat
    <3>2. outstanding > 0
      BY <1>3 DEF OneCommitter, EndOp
    <3> QED
      BY <1>3, <3>2 DEF EndOp, TypeOK
  <2>2. pc' \in [Procs -> Steps]
    <3>1. (IF outstanding - 1 = 0 THEN pc ELSE Wakeup(pc)) \in [Procs -> Steps]
      BY WakeupIs DEF TypeOK
    <3> QED
      BY <1>3, <3>1 DEF EndOp, Steps, CommitSteps
  <2>3. tail' \in [Procs -> Nat] /\ committing' \in {0, 1} /\ unsaved' \in SUBSET Procs
    BY <1>3 DEF EndOp, TypeOK
  <2> QED
    BY <1>3, <2>1, <2>2, <2>3 DEF TypeOK, EndOp, disk, bufs, recovery, work
<1>4. ASSUME NEW p \in Procs, WriteLog(p) PROVE TypeOK'
  <2>1. tail[p] \in Nat /\ tail[p] < Len(lh)
    BY <1>4 DEF TypeOK, WriteLog, Phases, Phase
  <2>2. tail[p] + 1 \in 1 .. LOGBLOCKS /\ lh[tail[p] + 1] \in Blocks /\ tail[p] + 1 \in 1 .. Len(lh)
    BY <2>1, NextBlock DEF Space
  <2>3. Pending(lh[tail[p] + 1])
    <3>1. boot = "up" /\ \A q \in Procs : pc[q] \notin {"install", "clear"}
      BY <1>4, CommitterAlone DEF WriteLog, CommitSteps
    <3> QED
      BY <2>2, <3>1, PendingInLog DEF Logged
  <2>4. cache[lh[tail[p] + 1]] \in Contents
    BY <2>2, <2>3 DEF Pins, TypeOK
  <2>5. logd' \in [1 .. LOGBLOCKS -> Contents]
    BY <1>4, <2>2, <2>4 DEF TypeOK, WriteLog
  <2>6. pc' \in [Procs -> Steps] /\ tail' \in [Procs -> Nat]
    BY <1>4, <2>1 DEF TypeOK, WriteLog, Steps, CommitSteps
  <2> QED
    BY <1>4, <2>5, <2>6 DEF TypeOK, WriteLog, bufs, log, recovery, work, history
<1>5. ASSUME NEW p \in Procs, WriteHead(p) PROVE TypeOK'
  <2>1. pc' \in [Procs -> Steps] /\ need' \in [Procs -> SUBSET Procs]
    BY <1>5 DEF TypeOK, WriteHead, Steps, CommitSteps
  <2> QED
    BY <1>5, <2>1 DEF TypeOK, WriteHead, bufs, log, recovery, work
<1>6. ASSUME NEW p \in Procs, Install(p) PROVE TypeOK'
  <2>1. tail[p] \in Nat /\ tail[p] < Len(lh)
    BY <1>6 DEF TypeOK, Install, Phases, Phase
  <2>2. lh[tail[p] + 1] \in Blocks /\ logd[tail[p] + 1] \in Contents
    BY <2>1, NextBlock DEF Space
  <2>3. home' \in [Blocks -> Contents]
    BY <1>6, <2>2 DEF TypeOK, Install
  <2>5. cache' \in [Blocks -> Contents \cup {NotCached}]
    BY <1>6, <2>2 DEF TypeOK, Install
  <2>6. pins' \in [Blocks -> Int]
    BY <1>6, <2>2 DEF TypeOK, Install
  <2>4. pc' \in [Procs -> Steps] /\ tail' \in [Procs -> Nat]
    BY <1>6, <2>1 DEF TypeOK, Install, Steps, CommitSteps
  <2> QED
    BY <1>6, <2>3, <2>4, <2>5, <2>6 DEF TypeOK, Install, log, recovery, work, history
<1>7. ASSUME NEW p \in Procs, ClearHead(p) PROVE TypeOK'
  <2>1. pc' \in [Procs -> Steps] /\ lh' \in Seq(Blocks) /\ head' \in Seq(Blocks)
    BY <1>7 DEF TypeOK, ClearHead, Steps, CommitSteps
  <2> QED
    BY <1>7, <2>1 DEF TypeOK, ClearHead, bufs, recovery, work, history
<1>8. ASSUME NEW p \in Procs, Finish(p) PROVE TypeOK'
  <2>1. Wakeup(pc) \in [Procs -> Steps]
    BY WakeupIs DEF TypeOK
  <2>2. pc' \in [Procs -> Steps] /\ need' \in [Procs -> SUBSET Procs]
    BY <1>8, <2>1 DEF Finish, Steps
  <2> QED
    BY <1>8, <2>2 DEF TypeOK, Finish, disk, bufs, recovery, work
<1>9. ASSUME NEW p \in Procs, Sync(p) PROVE TypeOK'
  <2>1. pc' \in [Procs -> Steps]
    BY <1>9 DEF TypeOK, Sync, Steps
  <2>2. need' \in [Procs -> SUBSET Procs]
    BY <1>9 DEF TypeOK, Sync
  <2>3. syncn' \in [Procs -> Nat]
    <3>1. [syncn EXCEPT ![p] = ncommit + 1] \in [Procs -> Nat]
      BY DEF TypeOK
    <3>2. syncn' = syncn \/ syncn' = [syncn EXCEPT ![p] = ncommit + 1]
      BY <1>9 DEF Sync, SyncTarget
    <3> QED
      BY <3>1, <3>2 DEF TypeOK
  <2> QED
    BY <1>9, <2>1, <2>2, <2>3 DEF TypeOK, Sync, disk, bufs, log, recovery, work
<1>10. ASSUME NEW p \in Procs, SyncLoop(p) PROVE TypeOK'
  <2>1. pc' \in [Procs -> Steps]
    BY <1>10 DEF TypeOK, SyncLoop, Steps
  <2> QED
    BY <1>10, <2>1 DEF TypeOK, SyncLoop, disk, bufs, log, recovery, work, history
<1>11. ASSUME NEW b \in Blocks, Evict(b) PROVE TypeOK'
  BY <1>11 DEF TypeOK, Evict, disk, log, locals, recovery, work, history
<1>12. ASSUME Crash PROVE TypeOK'
  <2>1. home' \in [Blocks -> Contents] /\ logd' \in [1 .. LOGBLOCKS -> Contents]
    BY <1>12 DEF TypeOK, Crash, Contents
  <2>2. /\ cache' \in [Blocks -> Contents \cup {NotCached}] /\ pins' \in [Blocks -> Int]
        /\ pc' \in [Procs -> Steps] /\ tail' \in [Procs -> Nat] /\ syncn' \in [Procs -> Nat]
    BY <1>12 DEF Crash, Steps
  <2>3. /\ need' \in [Procs -> SUBSET Procs] /\ wrote' \in [Procs -> SUBSET Blocks] /\ calls' \in [Procs -> Nat]
        /\ lh' \in Seq(Blocks)
    BY <1>12 DEF Crash
  <2> QED
    BY <1>12, <2>1, <2>2, <2>3 DEF TypeOK, Crash
<1>13. ASSUME ReadHead PROVE TypeOK'
  BY <1>13 DEF TypeOK, ReadHead, disk, bufs, locals, work, history
<1>14. ASSUME RecoverInstall PROVE TypeOK'
  <2>1. btail \in Nat /\ btail < Len(lh)
    BY <1>14 DEF TypeOK, RecoverInstall, Phases, RecoveryPhase
  <2>2. lh[btail + 1] \in Blocks /\ logd[btail + 1] \in Contents
    BY <2>1, NextBlock DEF Space
  <2>3. home' \in [Blocks -> Contents] /\ cache' \in [Blocks -> Contents \cup {NotCached}]
    BY <1>14, <2>2 DEF TypeOK, RecoverInstall
  <2> QED
    BY <1>14, <2>1, <2>3 DEF TypeOK, RecoverInstall, log, locals, work, history
<1>15. ASSUME RecoverClear PROVE TypeOK'
  <2>1. lh' \in Seq(Blocks) /\ head' \in Seq(Blocks)
    BY <1>15 DEF RecoverClear
  <2> QED
    BY <1>15, <2>1 DEF TypeOK, RecoverClear, bufs, locals, work, history
<1>16. ASSUME UNCHANGED vars PROVE TypeOK'
  BY <1>16 DEF TypeOK, vars, disk, bufs, log, locals, recovery, work, history
<1> QED
  BY <1>1, <1>2, <1>3, <1>4, <1>5, <1>6, <1>7, <1>8, <1>9, <1>10, <1>11, <1>12, <1>13, <1>14, <1>15, <1>16
     DEF Step, Next, Run, Commit, Recover, Rest

\* A step that ends no call, commits nothing and keeps every sys_sync waiting.
LEMMA SyncKept ==
    ASSUME LogInv, unsaved' = unsaved, need' = need, ncommit' = ncommit, syncn' = syncn,
           unsaved # {} => outstanding' > 0 \/ committing' = 1,
           \A q \in Procs : pc[q] \in {"sync", "sync_sleep"} => pc'[q] \in {"sync", "sync_sleep"}
    PROVE  Syncing'
  BY DEF LogInv, Syncing

\* A sys_sync that has something to wait for keeps waiting until a commit.
LEMMA SyncStep == ASSUME LogInv, Step PROVE Syncing'
<1>0. TypeOK /\ OneCommitter /\ Syncing /\ TypeOK'
  BY TypeStep DEF LogInv
<1>1. ASSUME NEW p \in Procs, BeginOp(p) PROVE Syncing'
  <2>1. UNCHANGED <<unsaved, need, ncommit, syncn, committing>> /\ outstanding' \in {outstanding, outstanding + 1}
    BY <1>1 DEF BeginOp, history
  <2>2. unsaved # {} => outstanding' > 0 \/ committing' = 1
    BY <1>0, <2>1 DEF Syncing, TypeOK
  <2>3. pc[p] \in {"idle", "begin"} /\ \E s : pc' = [pc EXCEPT ![p] = s]
    BY <1>1 DEF BeginOp
  <2>4. \A q \in Procs : pc[q] \in {"sync", "sync_sleep"} => pc'[q] \in {"sync", "sync_sleep"}
    BY <1>0, <2>3 DEF TypeOK
  <2> QED
    BY <2>1, <2>2, <2>4, SyncKept
<1>2. ASSUME NEW p \in Procs, NEW b \in Blocks, NEW v \in Vals, LogWrite(p, b, v) PROVE Syncing'
  <2>1. UNCHANGED <<unsaved, need, ncommit, syncn, committing, outstanding, pc>>
    BY <1>2 DEF LogWrite, history, locals
  <2> QED
    BY <1>0, <2>1 DEF Syncing
<1>3. ASSUME NEW p \in Procs, EndOp(p) PROVE Syncing'
  <2>1. UNCHANGED <<need, ncommit, syncn>> /\ pc[p] = "op" /\ outstanding' = outstanding - 1
    BY <1>3 DEF EndOp
  <2>2. outstanding' > 0 \/ committing' = 1
    <3>1. outstanding' = 0 => committing' = 1
      BY <1>3 DEF EndOp
    <3> QED
      BY <1>0, <3>1 DEF TypeOK
  <2>3. pc \in [Procs -> Steps] /\ Wakeup(pc) \in [Procs -> Steps]
    BY <1>0, WakeupIs DEF TypeOK
  <2>4. \E s : pc' = [pc EXCEPT ![p] = s] \/ pc' = [Wakeup(pc) EXCEPT ![p] = s]
    BY <1>3 DEF EndOp
  <2>6. \A q \in Procs : q # p => pc'[q] = pc[q] \/ pc'[q] = Wakeup(pc)[q]
    BY <2>3, <2>4
  <2>7. \A q \in Procs : pc[q] \in {"sync", "sync_sleep"} => Wakeup(pc)[q] = "sync"
    BY <2>3 DEF Wakeup
  <2>5. \A q \in Procs : pc[q] \in {"sync", "sync_sleep"} => pc'[q] \in {"sync", "sync_sleep"}
    BY <2>1, <2>6, <2>7
  <2> QED
    BY <1>0, <2>1, <2>2, <2>5 DEF Syncing
<1>4. ASSUME NEW p \in Procs, WriteHead(p) \/ Finish(p) PROVE Syncing'
  <2>1. unsaved' = {} /\ need' = [q \in Procs |-> {}]
    BY <1>4 DEF WriteHead, Finish
  <2> QED
    BY <2>1 DEF Syncing
<1>5. ASSUME NEW p \in Procs, WriteLog(p) \/ Install(p) \/ ClearHead(p) PROVE Syncing'
  <2>1. UNCHANGED <<unsaved, need, ncommit, syncn, committing, outstanding>>
    BY <1>5 DEF WriteLog, Install, ClearHead, history, log
  <2>2. pc[p] \in {"write_log", "install", "clear"} /\ \E s : pc' = [pc EXCEPT ![p] = s]
    BY <1>5 DEF WriteLog, Install, ClearHead
  <2>3. \A q \in Procs : pc[q] \in {"sync", "sync_sleep"} => pc'[q] \in {"sync", "sync_sleep"}
    BY <1>0, <2>2 DEF TypeOK
  <2>4. unsaved # {} => outstanding' > 0 \/ committing' = 1
    BY <1>0, <2>1 DEF Syncing
  <2> QED
    BY <2>1, <2>3, <2>4, SyncKept
<1>6. ASSUME NEW p \in Procs, Sync(p) PROVE Syncing'
  <2>1. UNCHANGED <<unsaved, ncommit, committing, outstanding>> /\ need' = [need EXCEPT ![p] = unsaved] /\ pc[p] = "idle"
    BY <1>6 DEF Sync, log
  <2>2. need'[p] = unsaved /\ \A q \in Procs : q # p => need'[q] = need[q]
    BY <1>0, <2>1 DEF TypeOK
  <2>3. CASE syncn' = [syncn EXCEPT ![p] = ncommit + 1] /\ pc' = [pc EXCEPT ![p] = "sync"]
    <3>1. syncn'[p] = ncommit + 1 /\ pc'[p] = "sync" /\ \A q \in Procs : q # p => syncn'[q] = syncn[q] /\ pc'[q] = pc[q]
      BY <1>0, <2>3 DEF TypeOK
    <3>2. ncommit' < syncn'[p]
      <4>1. ncommit \in Nat /\ ncommit' = ncommit
        BY <1>0, <2>1 DEF TypeOK
      <4> QED
        BY <3>1, <4>1
    <3> QED
      BY <1>0, <2>1, <2>2, <3>1, <3>2 DEF Syncing
  <2>4. CASE outstanding <= 0 /\ committing = 0 /\ UNCHANGED <<syncn, pc>>
    <3>1. unsaved = {}
      <4>1. outstanding \in Nat /\ (unsaved # {} => outstanding > 0 \/ committing = 1)
        BY <1>0 DEF Syncing, TypeOK
      <4> QED
        BY <2>4, <4>1
    <3>2. \A q \in Procs : need'[q] # {} => need'[q] = need[q] /\ pc'[q] = pc[q] /\ syncn'[q] = syncn[q]
      BY <2>2, <2>4, <3>1
    <3> QED
      BY <1>0, <2>1, <3>1, <3>2 DEF Syncing
  <2> QED
    BY <1>6, <2>3, <2>4 DEF Sync, SyncTarget
<1>7. ASSUME NEW p \in Procs, SyncLoop(p) PROVE Syncing'
  <2>1. UNCHANGED <<unsaved, need, ncommit, syncn, committing, outstanding>>
    BY <1>7 DEF SyncLoop, history, log
  <2>2. \A q \in Procs : q # p => pc'[q] = pc[q]
    BY <1>0, <1>7 DEF SyncLoop, TypeOK
  <2>3. ncommit < syncn[p] => pc'[p] = "sync_sleep"
    BY <1>0, <1>7 DEF SyncLoop, TypeOK
  <2> QED
    BY <1>0, <2>1, <2>2, <2>3 DEF Syncing
<1>8. ASSUME NEW b \in Blocks, Evict(b) PROVE Syncing'
  <2>1. UNCHANGED <<unsaved, need, ncommit, syncn, committing, outstanding, pc>>
    BY <1>8 DEF Evict, history, log, locals
  <2> QED
    BY <1>0, <2>1 DEF Syncing
<1>9. ASSUME Crash PROVE Syncing'
  <2>1. unsaved' = {} /\ need' = [q \in Procs |-> {}]
    BY <1>9 DEF Crash
  <2> QED
    BY <2>1 DEF Syncing
<1>10. ASSUME Recover \/ UNCHANGED vars PROVE Syncing'
  <2>1. UNCHANGED <<unsaved, need, ncommit, syncn, committing, outstanding, pc>>
    BY <1>10 DEF Recover, ReadHead, RecoverInstall, RecoverClear, vars, history, log, locals
  <2> QED
    BY <1>0, <2>1 DEF Syncing
<1> QED
  BY <1>1, <1>2, <1>3, <1>4, <1>5, <1>6, <1>7, <1>8, <1>9, <1>10 DEF Step, Next, Run, Commit, Rest

-----------------------------------------------------------------------------
\* What recovery makes of home blocks h, log blocks l and a header list.
LEMMA OverlayIs ==
    ASSUME NEW h, NEW l, NEW list \in Seq(Blocks), Distinct(list)
    PROVE  /\ \A i \in 1 .. Len(list) : Overlay(h, l, list)[list[i]] = l[i]
           /\ \A b \in Blocks : (\A i \in 1 .. Len(list) : list[i] # b) => Overlay(h, l, list)[b] = h[b]
<1>1. ASSUME NEW i \in 1 .. Len(list) PROVE Overlay(h, l, list)[list[i]] = l[i]
  <2>1. list[i] \in Blocks
    BY ElementIs
  <2>2. (CHOOSE j \in 1 .. Len(list) : list[j] = list[i]) = i
    BY DEF Distinct
  <2>3. Overlay(h, l, list)[list[i]] = l[CHOOSE j \in 1 .. Len(list) : list[j] = list[i]]
    BY <2>1 DEF Overlay
  <2> QED
    BY <2>2, <2>3
<1>2. ASSUME NEW b \in Blocks, \A i \in 1 .. Len(list) : list[i] # b PROVE Overlay(h, l, list)[b] = h[b]
  BY <1>2 DEF Overlay
<1> QED
  BY <1>1, <1>2

\* With an empty header, or once every block is home, recovery yields home.
LEMMA OverlayEmpty == ASSUME NEW S, NEW h \in [Blocks -> S], NEW l PROVE Overlay(h, l, <<>>) = h
  BY DEF Overlay

\* Recovery changes nothing once every block of the list is at home.
LEMMA OverlayHome ==
    ASSUME NEW S, NEW h \in [Blocks -> S], NEW l, NEW list \in Seq(Blocks), Distinct(list),
           \A i \in 1 .. Len(list) : h[list[i]] = l[i]
    PROVE  Overlay(h, l, list) = h
<1>1. ASSUME NEW b \in Blocks PROVE Overlay(h, l, list)[b] = h[b]
  <2>1. CASE \E i \in 1 .. Len(list) : list[i] = b
    BY <2>1, OverlayIs
  <2>2. CASE \A i \in 1 .. Len(list) : list[i] # b
    BY <2>2, OverlayIs
  <2> QED
    BY <2>1, <2>2
<1>2. Overlay(h, l, list) = [b \in Blocks |-> Overlay(h, l, list)[b]]
  BY DEF Overlay
<1> QED
  BY <1>1, <1>2

\* What bread returns for a block that is home.
LEMMA ViewHome == ASSUME TypeOK, Pins, NEW b \in Blocks, ~Pending(b) PROVE View[b] = home[b]
  BY DEF Pins, View

-----------------------------------------------------------------------------
\* What AtomicDisk sees of the log's memory, and a step it does not see.
Mem == IF boot = "up" THEN View ELSE Recovered
Unseen == Mem' = Mem /\ Recovered' = Recovered /\ Ops' = Ops

\* A step that changes neither the file system's view, nor what recovery finds,
\* nor the running operations is no step of the abstract log.
LEMMA UnseenStutters == Unseen => UNCHANGED Atomic!avars
  BY DEF Unseen, Mem, Ops, Atomic!avars

\* A step that leaves the disk and the buffers alone.
LEMMA MemKept ==
    ASSUME UNCHANGED <<home, logd, head, cache, boot>>
    PROVE  Mem' = Mem /\ Recovered' = Recovered
  BY DEF Mem, View, Recovered

\* The steps that only wait, wake or count.
LEMMA QuietSteps ==
    ASSUME LogInv, NEW p \in Procs, Finish(p) \/ Sync(p) \/ SyncLoop(p)
    PROVE  Unseen
<1>0. TypeOK /\ OneCommitter
  BY DEF LogInv
<1>1. UNCHANGED <<home, logd, head, cache, boot>>
  BY DEF Finish, Sync, SyncLoop, disk, bufs, recovery
<1>2. Ops' = Ops
  <2>1. CASE Finish(p)
    <3>1. pc \in [Procs -> Steps] /\ Wakeup(pc) \in [Procs -> Steps]
      BY <1>0, WakeupIs DEF TypeOK
    <3>2. pc'[p] = "idle" /\ pc[p] = "finish" /\ \A q \in Procs : q # p => pc'[q] = Wakeup(pc)[q]
      BY <2>1, <3>1 DEF Finish
    <3>3. \A q \in Procs : Wakeup(pc)[q] = "op" <=> pc[q] = "op"
      BY <3>1, WakeupOthers
    <3> QED
      BY <3>2, <3>3 DEF Ops
  <2>2. CASE Sync(p) \/ SyncLoop(p)
    <3>1. pc[p] \in {"idle", "sync"}
      BY <2>2 DEF Sync, SyncLoop
    <3>2. \/ pc' = pc \/ pc' = [pc EXCEPT ![p] = "sync"]
          \/ pc' = [pc EXCEPT ![p] = "sync_sleep"] \/ pc' = [pc EXCEPT ![p] = "idle"]
      BY <2>2 DEF Sync, SyncLoop
    <3>3. \A q \in Procs : pc'[q] = "op" <=> pc[q] = "op"
      BY <1>0, <3>1, <3>2 DEF TypeOK
    <3> QED
      BY <3>3 DEF Ops
  <2> QED
    BY <2>1, <2>2
<1> QED
  BY <1>1, <1>2, MemKept DEF Unseen

\* begin_op and end_op open and close a call.
LEMMA BeginOpRefines ==
    ASSUME LogInv, NEW p \in Procs, BeginOp(p)
    PROVE  Mem' = Mem /\ Recovered' = Recovered /\ (Ops' = Ops \/ Ops' = Ops \cup {p})
<1>0. TypeOK
  BY DEF LogInv
<1>1. UNCHANGED <<home, logd, head, cache, boot>> /\ pc[p] \in {"idle", "begin"}
  BY DEF BeginOp, disk, bufs, recovery
<1>2. pc' = [pc EXCEPT ![p] = "op"] \/ pc' = [pc EXCEPT ![p] = "begin_sleep"]
  BY DEF BeginOp
<1>3. \A q \in Procs : q # p => pc'[q] = pc[q]
  BY <1>0, <1>2 DEF TypeOK
<1>4. Ops' = Ops \/ Ops' = Ops \cup {p}
  BY <1>1, <1>3 DEF Ops
<1> QED
  BY <1>1, <1>4, MemKept

\* end_op makes nothing durable itself.
LEMMA EndOpRefines ==
    ASSUME LogInv, NEW p \in Procs, EndOp(p)
    PROVE  Mem' = Mem /\ Recovered' = Recovered /\ Ops' = Ops \ {p}
<1>0. TypeOK
  BY DEF LogInv
<1>1. UNCHANGED <<home, logd, head, cache, boot>>
  BY DEF EndOp, disk, bufs, recovery
<1>2. pc \in [Procs -> Steps] /\ Wakeup(pc) \in [Procs -> Steps]
  BY <1>0, WakeupIs DEF TypeOK
<1>3. \E s \in {"idle", "finish", "write_log"} : pc' = [pc EXCEPT ![p] = s] \/ pc' = [Wakeup(pc) EXCEPT ![p] = s]
  BY DEF EndOp
<1>4. pc'[p] # "op" /\ \A q \in Procs : q # p => pc'[q] = pc[q] \/ pc'[q] = Wakeup(pc)[q]
  BY <1>2, <1>3
<1>5. \A q \in Procs : Wakeup(pc)[q] = "op" <=> pc[q] = "op"
  BY <1>2, WakeupOthers
<1>6. Ops' = Ops \ {p}
  BY <1>4, <1>5 DEF Ops
<1> QED
  BY <1>1, <1>6, MemKept

\* log_write changes memory only.
LEMMA LogWriteRefines ==
    ASSUME LogInv, ~panicked', boot = "up",
           NEW p \in Procs, NEW b \in Blocks, NEW v \in Vals, LogWrite(p, b, v)
    PROVE  p \in Ops /\ Mem' = [Mem EXCEPT ![b] = v] /\ Recovered' = Recovered /\ Ops' = Ops
<1>0. TypeOK
  BY DEF LogInv
<1>1. UNCHANGED <<home, logd, head, boot, pc>> /\ p \in Ops
  BY DEF LogWrite, disk, recovery, locals, Ops
<1>2. cache' = [cache EXCEPT ![b] = v]
  BY DEF LogWrite
<1>3. cache'[b] = v /\ v # NotCached /\ \A x \in Blocks : x # b => cache'[x] = cache[x]
  BY <1>0, <1>2, ValsAssumption DEF TypeOK
<1>4. View' = [View EXCEPT ![b] = v]
  <2>1. \A x \in Blocks : View'[x] = [View EXCEPT ![b] = v][x]
    BY <1>1, <1>3 DEF View
  <2> QED
    BY <2>1 DEF View
<1>5. Recovered' = Recovered /\ Ops' = Ops
  BY <1>1 DEF Recovered, Ops
<1> QED
  BY <1>1, <1>4, <1>5 DEF Mem

\* Writing the log is not seen: the header is still empty.
LEMMA WriteLogRefines == ASSUME LogInv, NEW p \in Procs, WriteLog(p) PROVE Unseen
<1>0. TypeOK /\ OneCommitter /\ Phases
  BY DEF LogInv
<1>1. UNCHANGED <<home, head, cache, boot>> /\ pc[p] = "write_log"
  BY DEF WriteLog, bufs, recovery
<1>2. boot = "up" /\ \A q \in Procs : q # p => pc[q] \notin CommitSteps
  BY <1>0, <1>1, CommitterAlone DEF CommitSteps
<1>3. head = <<>>
  BY <1>0, <1>1, <1>2 DEF Phases, HeadPhase, CommitSteps
<1>4. Overlay(home, logd, <<>>) = Overlay(home, logd', <<>>)
  BY DEF Overlay
<1>5. Recovered' = Recovered
  BY <1>1, <1>3, <1>4 DEF Recovered
<1>6. Mem' = Mem
  BY <1>1, <1>2 DEF Mem, View
<1>7. \A q \in Procs : pc'[q] = "op" <=> pc[q] = "op"
  BY <1>0, <1>1 DEF WriteLog, TypeOK
<1> QED
  BY <1>5, <1>6, <1>7 DEF Unseen, Ops

\* The write of the header is the commit: the disk is what memory is.
LEMMA WriteHeadRefines ==
    ASSUME LogInv, NEW p \in Procs, WriteHead(p)
    PROVE  Ops = {} /\ Ops' = {} /\ Mem' = Mem /\ Recovered' = Mem
<1>0. TypeOK /\ OneCommitter /\ Pins /\ Phases /\ Distinct(lh) /\ lh \in Seq(Blocks)
  BY DEF LogInv, Phases, TypeOK
<1>1. UNCHANGED <<home, logd, cache, boot>> /\ head' = lh
  BY DEF WriteHead, bufs, recovery
<1>2. pc[p] = "write_head" /\ \A i \in 1 .. Len(lh) : logd[i] = cache[lh[i]]
  BY <1>0 DEF WriteHead, Phases, Phase
<1>3. boot = "up" /\ \A q \in Procs : pc[q] # "op" /\ (q # p => pc[q] \notin CommitSteps)
  BY <1>0, <1>2, CommitterAlone DEF CommitSteps
<1>4. \A q \in Procs : pc'[q] # "op"
  BY <1>0, <1>3 DEF WriteHead, TypeOK
<1>5. \A b \in Blocks : Pending(b) <=> b \in Logged
  BY <1>2, <1>3, PendingInLog DEF CommitSteps
<1>6. Mem' = Mem /\ Mem = View
  BY <1>1, <1>3 DEF Mem, View
<1>7. ASSUME NEW b \in Blocks PROVE Recovered'[b] = View[b]
  <2>1. /\ Recovered' = Overlay(home, logd, lh)
        /\ \A i \in 1 .. Len(lh) : Overlay(home, logd, lh)[lh[i]] = logd[i]
    <3>1. lh \in Seq(Blocks) /\ Distinct(lh)
      BY <1>0
    <3>2. \A i \in 1 .. Len(lh) : Overlay(home, logd, lh)[lh[i]] = logd[i]
      BY <3>1, OverlayIs
    <3>3. Recovered' = Overlay(home, logd, lh)
      BY <1>1 DEF Recovered
    <3> QED
      BY <3>2, <3>3
  <2>2. CASE b \in Logged
    <3>1. PICK i \in 1 .. Len(lh) : lh[i] = b
      BY <2>2 DEF Logged
    <3>2. Recovered'[b] = logd[i]
      BY <2>1, <3>1
    <3>3. cache[b] # NotCached
      BY <1>0, <1>5, <2>2 DEF Pins
    <3> QED
      BY <1>2, <3>1, <3>2, <3>3 DEF View
  <2>3. CASE b \notin Logged
    <3>1. Recovered'[b] = home[b]
      BY <1>0, <2>1, <2>3, OverlayIs DEF Logged
    <3> QED
      BY <1>0, <1>5, <2>3, <3>1, ViewHome
  <2> QED
    BY <2>2, <2>3
<1>8. Recovered' = View
  BY <1>7 DEF Recovered, Overlay, View
<1> QED
  BY <1>3, <1>4, <1>6, <1>8 DEF Ops

\* A home block that the header lists may change: recovery overwrites it.
LEMMA HomeOfListed ==
    ASSUME LogInv, NEW i \in 1 .. Len(head), NEW v, home' = [home EXCEPT ![head[i]] = v], UNCHANGED <<logd, head>>
    PROVE  Recovered' = Recovered
<1>1. home \in [Blocks -> Contents] /\ head \in Seq(Blocks) /\ Distinct(head)
  BY DEF LogInv, TypeOK, Phases
<1>2. \A b \in Blocks : b # head[i] => home[b] = home'[b]
  BY <1>1
<1>3. Overlay(home, logd, head) = Overlay(home', logd, head)
  <2>1. \A b \in Blocks : (\A j \in 1 .. Len(head) : head[j] # b) => home[b] = home'[b]
    BY <1>2
  <2> QED
    BY <2>1 DEF Overlay
<1> QED
  BY <1>3 DEF Recovered

\* Installing and clearing are not seen.
LEMMA InstallRefines == ASSUME LogInv, NEW p \in Procs, Install(p) PROVE Unseen
<1> DEFINE i == tail[p] + 1
<1>0. TypeOK /\ OneCommitter /\ Pins /\ Phases /\ Len(lh) \in Nat
  BY LenIs DEF LogInv, TypeOK
<1>1. pc[p] = "install" /\ tail[p] \in Nat /\ tail[p] < Len(lh)
  BY <1>0 DEF Install, Phases, Phase, TypeOK
<1>2. boot = "up" /\ \A q \in Procs : q # p => pc[q] \notin CommitSteps
  BY <1>0, <1>1, CommitterAlone DEF CommitSteps
<1>3. i \in 1 .. Len(lh) /\ lh[i] \in Blocks /\ head = lh
  BY <1>0, <1>1, <1>2, NextBlock DEF LogInv, Space, Phases, HeadPhase
<1>4. UNCHANGED <<logd, head, boot>> /\ home' = [home EXCEPT ![lh[i]] = logd[i]] /\ cache' = [cache EXCEPT ![lh[i]] = logd[i]]
  BY DEF Install, recovery
<1>5. logd[i] = cache[lh[i]]
  <2>1. ~(i <= tail[p])
    BY <1>1
  <2> QED
    BY <1>0, <1>1, <1>3, <2>1 DEF Phases, Phase
<1>6. cache[lh[i]] # NotCached
  <2>1. Pending(lh[i])
    <3>1. \A q \in Procs : pc[q] # "clear" /\ (pc[q] = "install" => q = p)
      BY <1>1, <1>2 DEF CommitSteps
    <3>2. i > tail[p]
      BY <1>1
    <3> HIDE DEF i
    <3> QED
      BY <1>2, <1>3, <3>1, <3>2 DEF Pending
  <2> QED
    BY <1>0, <1>3, <2>1 DEF Pins
<1> HIDE DEF i
<1>7. Recovered' = Recovered
  BY <1>3, <1>4, HomeOfListed
<1>8. View' = View
  <2>1. cache' = cache
    BY <1>0, <1>3, <1>4, <1>5 DEF TypeOK
  <2>2. \A x \in Blocks : x # lh[i] => home'[x] = home[x]
    BY <1>0, <1>3, <1>4 DEF TypeOK
  <2> QED
    BY <1>6, <2>1, <2>2 DEF View
<1>9. \A q \in Procs : pc'[q] = "op" <=> pc[q] = "op"
  BY <1>0, <1>1 DEF Install, TypeOK
<1> QED
  BY <1>2, <1>4, <1>7, <1>8, <1>9 DEF Unseen, Mem, Ops

\* Erasing the header of an installed transaction changes nothing recovery finds.
LEMMA ClearHeadRefines == ASSUME LogInv, NEW p \in Procs, ClearHead(p) PROVE Unseen
<1>0. TypeOK /\ OneCommitter /\ Phases /\ home \in [Blocks -> Contents] /\ lh \in Seq(Blocks) /\ Distinct(lh)
  BY DEF LogInv, TypeOK, Phases
<1>1. pc[p] = "clear" /\ UNCHANGED <<home, logd, cache, boot>> /\ head' = <<>>
  BY DEF ClearHead, bufs, recovery
<1>2. boot = "up"
  BY <1>0, <1>1, CommitterAlone DEF CommitSteps
<1>3. head = lh /\ \A i \in 1 .. Len(lh) : home[lh[i]] = logd[i]
  BY <1>0, <1>1, <1>2 DEF Phases, HeadPhase, Phase
<1>4. Recovered = home
  BY <1>0, <1>3, OverlayHome DEF Recovered
<1>5. Recovered' = home
  <2>2. Overlay(home, logd, <<>>) = home
    BY <1>0, OverlayEmpty
  <2> QED
    BY <1>1, <2>2 DEF Recovered
<1>6. Mem' = Mem
  BY <1>1, <1>2 DEF Mem, View
<1>7. \A q \in Procs : pc'[q] = "op" <=> pc[q] = "op"
  BY <1>0, <1>1 DEF ClearHead, TypeOK
<1> QED
  BY <1>4, <1>5, <1>6, <1>7 DEF Unseen, Ops

\* Recycling a buffer is not seen: its block is home.
LEMMA EvictRefines == ASSUME LogInv, boot = "up", NEW b \in Blocks, Evict(b) PROVE Unseen
<1>0. TypeOK /\ Pins
  BY DEF LogInv
<1>1. UNCHANGED <<home, logd, head, pc, boot>>
  BY DEF Evict, disk, locals, recovery
<1>2. cache'[b] = NotCached /\ \A x \in Blocks : x # b => cache'[x] = cache[x]
  BY <1>0 DEF Evict, TypeOK
<1>3. ~Pending(b)
  BY <1>0 DEF Evict, Pins
<1>4. View[b] = home[b]
  BY <1>0, <1>3, ViewHome
<1>5. View' = View
  <2>1. \A x \in Blocks : View'[x] = View[x]
    BY <1>1, <1>2, <1>4 DEF View
  <2> QED
    BY <2>1 DEF View
<1>6. Recovered' = Recovered /\ Ops' = Ops
  BY <1>1 DEF Recovered, Ops
<1> QED
  BY <1>1, <1>5, <1>6 DEF Unseen, Mem

\* A power failure loses memory; the torn block is one that does not matter.
LEMMA CrashRefines ==
    ASSUME LogInv, Crash
    PROVE  Mem' = Recovered /\ Recovered' = Recovered /\ Ops' = {}
<1>0. TypeOK /\ OneCommitter /\ Phases /\ Len(lh) \in Nat
  BY LenIs DEF LogInv, TypeOK
<1>1. boot' = "read_head" /\ head' = head /\ \A p \in Procs : pc'[p] = "idle"
  BY DEF Crash
<1>2. Recovered' = Recovered
  <2>1. CASE UNCHANGED <<home, logd>>
    BY <1>1, <2>1 DEF Recovered
  <2>2. ASSUME NEW p \in Procs, pc[p] = "write_log", home' = home PROVE Recovered' = Recovered
    <3>1. boot = "up" /\ \A q \in Procs : q # p => pc[q] \notin CommitSteps
      BY <1>0, <2>2, CommitterAlone DEF CommitSteps
    <3>2. head = <<>>
      BY <1>0, <2>2, <3>1 DEF Phases, HeadPhase, CommitSteps
    <3>3. Overlay(home, logd, <<>>) = Overlay(home, logd', <<>>)
      BY DEF Overlay
    <3> QED
      BY <1>1, <2>2, <3>2, <3>3 DEF Recovered
  <2>3. ASSUME NEW p \in Procs, pc[p] = "install", home' = [home EXCEPT ![lh[tail[p] + 1]] = Torn], logd' = logd
        PROVE  Recovered' = Recovered
    <3>1. boot = "up" /\ tail[p] \in Nat /\ tail[p] < Len(lh)
      BY <1>0, <2>3, CommitterAlone DEF CommitSteps, Phases, Phase, TypeOK
    <3>2. head = lh
      BY <1>0, <2>3, <3>1 DEF Phases, HeadPhase
    <3>3. tail[p] + 1 \in 1 .. Len(head)
      BY <1>0, <3>1, <3>2
    <3> QED
      BY <1>1, <2>3, <3>2, <3>3, HomeOfListed
  <2>4. ASSUME boot = "install", home' = [home EXCEPT ![lh[btail + 1]] = Torn], logd' = logd
        PROVE  Recovered' = Recovered
    <3>1. head = lh /\ btail \in Nat /\ btail < Len(lh)
      BY <1>0, <2>4 DEF Phases, RecoveryPhase, TypeOK
    <3>2. btail + 1 \in 1 .. Len(head)
      BY <1>0, <3>1
    <3> QED
      BY <1>1, <2>4, <3>1, <3>2, HomeOfListed
  <2>5. CASE \E i \in LogTarget : logd' = [logd EXCEPT ![i] = Torn] /\ UNCHANGED home
    BY <2>2, <2>5 DEF LogTarget
  <2>6. CASE \E b \in HomeTarget : home' = [home EXCEPT ![b] = Torn] /\ UNCHANGED logd
    <3>1. PICK b \in HomeTarget : home' = [home EXCEPT ![b] = Torn] /\ logd' = logd
      BY <2>6
    <3>2. (\E p \in Procs : pc[p] = "install" /\ b = lh[tail[p] + 1]) \/ (boot = "install" /\ b = lh[btail + 1])
      BY <3>1 DEF HomeTarget
    <3> QED
      BY <2>3, <2>4, <3>1, <3>2
  <2> QED
    BY <2>1, <2>5, <2>6 DEF Crash
<1> QED
  BY <1>1, <1>2 DEF Mem, Ops

\* Recovery is not seen: it makes memory what recovery was to yield.
LEMMA RecoverRefines == ASSUME LogInv, Recover PROVE Unseen
<1>0. TypeOK /\ Pins /\ Phases /\ Len(lh) \in Nat /\ home \in [Blocks -> Contents]
  BY LenIs DEF LogInv, TypeOK
<1>1. pc' = pc /\ boot # "up"
  BY DEF Recover, ReadHead, RecoverInstall, RecoverClear, locals
<1>2. Mem = Recovered /\ Ops' = Ops
  BY <1>1 DEF Mem, Ops
<1>3. CASE ReadHead
  <2>1. boot' # "up" /\ UNCHANGED <<home, logd, head>>
    BY <1>3 DEF ReadHead, disk
  <2> QED
    BY <1>2, <2>1 DEF Mem, Recovered, Unseen
<1>4. CASE RecoverInstall
  <2>1. boot = "install" /\ boot' # "up" /\ UNCHANGED <<logd, head>> /\ home' = [home EXCEPT ![lh[btail + 1]] = logd[btail + 1]]
    BY <1>4 DEF RecoverInstall
  <2>2. head = lh /\ btail \in Nat /\ btail < Len(lh)
    BY <1>0, <2>1 DEF Phases, RecoveryPhase, TypeOK
  <2>3. btail + 1 \in 1 .. Len(head)
    BY <1>0, <2>2
  <2>4. Recovered' = Recovered
    BY <2>1, <2>2, <2>3, HomeOfListed
  <2> QED
    BY <1>2, <2>1, <2>4 DEF Mem, Unseen
<1>5. CASE RecoverClear
  <2>1. boot = "clear" /\ boot' = "up" /\ UNCHANGED <<home, logd, cache>> /\ head' = <<>>
    BY <1>5 DEF RecoverClear, bufs
  <2>2. head = lh /\ Distinct(head) /\ head \in Seq(Blocks) /\ \A i \in 1 .. Len(lh) : home[lh[i]] = logd[i]
    BY <1>0, <2>1 DEF Phases, RecoveryPhase, TypeOK
  <2>3. Recovered = home
    BY <1>0, <2>2, OverlayHome DEF Recovered
  <2>4. Recovered' = home
    <3>2. Overlay(home, logd, <<>>) = home
      BY <1>0, OverlayEmpty
    <3> QED
      BY <2>1, <3>2 DEF Recovered
  <2>5. View' = home
    <3>1. \A b \in Blocks : ~Pending(b)
      BY <2>1 DEF Pending
    <3>2. \A b \in Blocks : View[b] = home[b]
      BY <1>0, <3>1, ViewHome
    <3>3. View' = View
      BY <2>1 DEF View
    <3> QED
      BY <1>0, <3>2, <3>3 DEF View
  <2> QED
    BY <1>2, <2>1, <2>3, <2>4, <2>5 DEF Mem, Unseen
<1> QED
  BY <1>3, <1>4, <1>5 DEF Recover

-----------------------------------------------------------------------------
\* AtomicDisk's operations, over what it sees of the log.
LEMMA StepRefines == ASSUME LogInv, Step, ~panicked' PROVE Atomic!ANext \/ UNCHANGED Atomic!avars
<1> USE DEF Atomic!ANext
<1>1. ASSUME NEW p \in Procs, BeginOp(p) PROVE Atomic!ANext \/ UNCHANGED Atomic!avars
  <2>1. Mem' = Mem /\ Recovered' = Recovered /\ (Ops' = Ops \/ Ops' = Ops \cup {p})
    BY <1>1, BeginOpRefines
  <2>2. CASE Ops' = Ops
    BY <2>1, <2>2, UnseenStutters DEF Unseen
  <2>3. CASE Ops' = Ops \cup {p}
    <3>1. Atomic!ABegin(p)
      BY <2>1, <2>3 DEF Atomic!ABegin, Mem, Ops
    <3> QED
      BY <3>1
  <2> QED
    BY <2>1, <2>2, <2>3
<1>2. ASSUME NEW p \in Procs, EndOp(p) PROVE Atomic!ANext
  <2>1. Mem' = Mem /\ Recovered' = Recovered /\ Ops' = Ops \ {p}
    BY <1>2, EndOpRefines
  <2>2. Atomic!AEnd(p)
    BY <2>1 DEF Atomic!AEnd, Mem, Ops
  <2> QED
    BY <2>2
<1>3. ASSUME NEW p \in Procs, NEW b \in Blocks, NEW v \in Vals, LogWrite(p, b, v), boot = "up" PROVE Atomic!ANext
  <2>1. p \in Ops /\ Mem' = [Mem EXCEPT ![b] = v] /\ Recovered' = Recovered /\ Ops' = Ops
    BY <1>3, LogWriteRefines
  <2>2. Atomic!AWrite(p, b, v)
    BY <2>1 DEF Atomic!AWrite, Mem, Ops
  <2> QED
    BY <2>2
<1>4. ASSUME NEW p \in Procs, WriteHead(p) PROVE Atomic!ANext
  <2>1. Ops = {} /\ Ops' = {} /\ Mem' = Mem /\ Recovered' = Mem
    BY <1>4, WriteHeadRefines
  <2>2. Atomic!ACommit
    BY <2>1 DEF Atomic!ACommit, Mem, Ops
  <2> QED
    BY <2>2
<1>5. ASSUME Crash PROVE Atomic!ANext
  <2>1. Mem' = Recovered /\ Recovered' = Recovered /\ Ops' = {}
    BY <1>5, CrashRefines
  <2>2. Atomic!ACrash
    BY <2>1 DEF Atomic!ACrash, Mem, Ops
  <2> QED
    BY <2>2
<1>6. ASSUME NEW p \in Procs, WriteLog(p) \/ Install(p) \/ ClearHead(p) \/ Finish(p) \/ Sync(p) \/ SyncLoop(p)
      PROVE  UNCHANGED Atomic!avars
  BY <1>6, WriteLogRefines, InstallRefines, ClearHeadRefines, QuietSteps, UnseenStutters
<1>7. ASSUME NEW b \in Blocks, Evict(b), boot = "up" PROVE UNCHANGED Atomic!avars
  BY <1>7, EvictRefines, UnseenStutters
<1>8. ASSUME Recover PROVE UNCHANGED Atomic!avars
  BY <1>8, RecoverRefines, UnseenStutters
<1>9. ASSUME UNCHANGED vars PROVE UNCHANGED Atomic!avars
  <2>1. UNCHANGED <<home, logd, head, cache, boot, pc>>
    BY <1>9 DEF vars, disk, bufs, recovery, locals
  <2> QED
    BY <2>1, MemKept, UnseenStutters DEF Unseen, Ops
<1> HIDE DEF Atomic!ANext
<1> QED
  BY <1>1, <1>2, <1>3, <1>4, <1>5, <1>6, <1>7, <1>8, <1>9 DEF Step, Next, Run, Commit, Rest

\* The log starts as the abstract log does.
LEMMA InitRefines == Init => Atomic!AInit
<1> SUFFICES ASSUME Init PROVE Atomic!AInit
  OBVIOUS
<1>1. home \in [Blocks -> Vals] /\ head = <<>> /\ boot = "up"
  BY DEF Init
<1>2. Recovered = home
  BY <1>1, OverlayEmpty DEF Recovered
<1>3. View = home
  BY <1>1 DEF Init, View
<1>4. {p \in Procs : pc[p] = "op"} = {}
  BY DEF Init
<1> QED
  BY <1>1, <1>2, <1>3, <1>4 DEF Atomic!AInit

=============================================================================
