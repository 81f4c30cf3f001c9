----------------------------- MODULE LogProofs ------------------------------
(***************************************************************************)
(* Proofs about the log (module Log), for any numbers of processes,        *)
(* blocks, contents and power failures: begin_op reserves enough space,    *)
(* sys_sync waits long enough, and the log implements AtomicDisk.          *)
(***************************************************************************)
EXTENDS LogAtomicProofs, FiniteSetTheorems

-----------------------------------------------------------------------------
\* The calls under way are finitely many, and a process in one is counted.
LEMMA OpsFinite ==
    ASSUME TypeOK, OneCommitter
    PROVE  /\ IsFiniteSet(Ops)
           /\ \A p \in Ops : outstanding > 0 /\ committing = 0
<1>1. IsFiniteSet(Ops)
  BY CallsAssumption, FS_Subset DEF Ops
<1>2. ASSUME NEW p \in Ops PROVE outstanding > 0 /\ committing = 0
  BY DEF OneCommitter, Ops
<1> QED
  BY <1>1, <1>2

\* The same processes are in a call, and the same in a commit.
SameRole(q) == (pc'[q] = "op" <=> pc[q] = "op") /\ (pc'[q] \in CommitSteps <=> pc[q] \in CommitSteps)
SameRoles == \A q \in Procs : SameRole(q)

\* A step in which nobody enters or leaves a call or a commit.
LEMMA RolesKept ==
    ASSUME LogInv, TypeOK', outstanding' = outstanding, committing' = committing,
           SameRoles, boot' # "up" => pc' = pc /\ boot # "up"
    PROVE  Committer'
<1> USE DEF SameRoles, SameRole
<1>1. Ops' = Ops
  BY DEF Ops
<1>2. (boot # "up" => \A p \in Procs : pc[p] = "idle")'
  BY DEF LogInv, OneCommitter, Committer
<1>3. outstanding' = Cardinality(Ops')
  BY <1>1 DEF LogInv, OneCommitter, Committer
<1> QED
  BY <1>2, <1>3 DEF LogInv, OneCommitter, Committer

\* Only one process commits, and only when no call is under way.
LEMMA CommitterKept == ASSUME LogInv, Step PROVE Committer'
<1>0. TypeOK /\ TypeOK' /\ OneCommitter
  BY TypeStep DEF LogInv
<1>1. ASSUME NEW p \in Procs, BeginOp(p), boot = "up" PROVE Committer'
  <2>0. boot' = "up" /\ committing' = committing
    BY <1>1 DEF BeginOp, recovery
  <2>1. CASE pc' = [pc EXCEPT ![p] = "begin_sleep"] /\ outstanding' = outstanding
    <3>1. SameRoles
      BY <1>0, <1>1, <2>1 DEF BeginOp, TypeOK, CommitSteps, SameRoles, SameRole
    <3> QED
      BY <1>0, <2>0, <2>1, <3>1, RolesKept
  <2>2. CASE CanBegin(Len(lh), outstanding, committing) /\ pc' = [pc EXCEPT ![p] = "op"] /\ outstanding' = outstanding + 1
    <3>1. Ops' = Ops \cup {p} /\ p \notin Ops
      BY <1>0, <1>1, <2>2 DEF BeginOp, TypeOK, Ops
    <3>2. outstanding' = Cardinality(Ops')
      BY <1>0, <2>2, <3>1, OpsFinite, FS_AddElement DEF OneCommitter, Committer
    <3>3. committing = 0 /\ \A q \in Procs : pc[q] \notin CommitSteps
      BY <1>0, <2>2 DEF CanBegin, OneCommitter, Committer
    <3>4. \A q \in Procs : pc'[q] \notin CommitSteps
      BY <1>0, <2>2, <3>3 DEF TypeOK, CommitSteps
    <3> QED
      BY <2>0, <3>2, <3>3, <3>4 DEF OneCommitter, Committer
  <2> QED
    BY <1>1, <2>1, <2>2 DEF BeginOp
<1>2. ASSUME NEW p \in Procs, NEW b \in Blocks, NEW v \in Vals, LogWrite(p, b, v), boot = "up" PROVE Committer'
  <2>1. UNCHANGED <<outstanding, committing, pc, boot>>
    BY <1>2 DEF LogWrite, locals, recovery
  <2> QED
    BY <1>0, <1>2, <2>1, RolesKept DEF SameRoles, SameRole
<1>3. ASSUME NEW p \in Procs, EndOp(p), boot = "up" PROVE Committer'
  <2>0. boot' = "up" /\ p \in Ops /\ outstanding' = outstanding - 1 /\ outstanding > 0 /\ committing = 0
    BY <1>0, <1>3, OpsFinite DEF EndOp, recovery, Ops
  <2>1. \A q \in Procs : q # p => SameRole(q)
    <3>1. pc \in [Procs -> Steps] /\ Wakeup(pc) \in [Procs -> Steps]
      BY <1>0, WakeupIs DEF TypeOK
    <3>2. \E s : pc' = [pc EXCEPT ![p] = s] \/ pc' = [Wakeup(pc) EXCEPT ![p] = s]
      BY <1>3 DEF EndOp
    <3>4. \A q \in Procs : q # p => pc'[q] = pc[q] \/ pc'[q] = Wakeup(pc)[q]
      BY <3>1, <3>2
    <3>3. \A q \in Procs : q # p => pc'[q] = pc[q] \/ (pc[q] \in {"begin_sleep", "sync_sleep"} /\ pc'[q] \in {"begin", "sync"})
      BY <3>1, <3>4, WakeupOthers
    <3> QED
      BY <3>3 DEF SameRole, CommitSteps
  <2>2. pc'[p] = IF outstanding # 1 THEN "idle" ELSE IF lh = <<>> THEN "finish" ELSE "write_log"
    <3>1. pc \in [Procs -> Steps] /\ Wakeup(pc) \in [Procs -> Steps] /\ outstanding \in Nat
      BY <1>0, WakeupIs DEF TypeOK
    <3> QED
      BY <1>3, <3>1 DEF EndOp
  <2>3. Ops' = Ops \ {p}
    BY <2>1, <2>2 DEF Ops, SameRole
  <2>4. outstanding' = Cardinality(Ops')
    BY <1>0, <2>0, <2>3, OpsFinite, FS_RemoveElement DEF OneCommitter, Committer
  <2>5. \A q \in Procs : pc[q] \notin CommitSteps
    BY <1>0, <2>0 DEF OneCommitter, Committer
  <2>6. CASE outstanding = 1
    <3>1. committing' = 1 /\ outstanding' = 0
      BY <1>3, <2>0, <2>6 DEF EndOp
    <3>2. pc'[p] \in CommitSteps
      BY <2>2, <2>6 DEF CommitSteps
    <3>3. \A q \in Procs : q # p => pc'[q] \notin CommitSteps
      BY <2>1, <2>5 DEF SameRole
    <3> QED
      BY <2>0, <2>4, <3>1, <3>2, <3>3 DEF OneCommitter, Committer
  <2>7. CASE outstanding # 1
    <3>1. committing' = 0
      BY <1>0, <1>3, <2>0, <2>7 DEF EndOp, TypeOK
    <3>2. \A q \in Procs : pc'[q] \notin CommitSteps
      <4>1. pc'[p] \notin CommitSteps
        BY <2>2, <2>7 DEF CommitSteps
      <4> QED
        BY <2>1, <2>5, <4>1 DEF SameRole
    <3> QED
      BY <2>0, <2>4, <3>1, <3>2 DEF OneCommitter, Committer
  <2> QED
    BY <2>6, <2>7
<1>4. ASSUME NEW p \in Procs, WriteLog(p) \/ WriteHead(p) \/ Install(p) \/ ClearHead(p), boot = "up" PROVE Committer'
  <2>1. UNCHANGED <<outstanding, committing, boot>>
    BY <1>4 DEF WriteLog, WriteHead, Install, ClearHead, log, recovery
  <2>2. pc[p] \in CommitSteps /\ \E s \in CommitSteps : pc' = [pc EXCEPT ![p] = s]
    BY <1>4 DEF WriteLog, WriteHead, Install, ClearHead, CommitSteps
  <2>3. SameRoles
    BY <1>0, <2>2 DEF TypeOK, CommitSteps, SameRoles, SameRole
  <2> QED
    BY <1>0, <1>4, <2>1, <2>3, RolesKept
<1>5. ASSUME NEW p \in Procs, Finish(p), boot = "up" PROVE Committer'
  <2>1. committing' = 0 /\ outstanding' = outstanding /\ boot' = "up"
    BY <1>5 DEF Finish, recovery
  <2>2. \A q \in Procs : pc[q] # "op" /\ (q # p => pc[q] \notin CommitSteps)
    BY <1>0, <1>5, CommitterAlone DEF Finish, CommitSteps
  <2>3. \A q \in Procs : pc'[q] # "op" /\ pc'[q] \notin CommitSteps
    <3>1. pc \in [Procs -> Steps] /\ Wakeup(pc) \in [Procs -> Steps]
      BY <1>0, WakeupIs DEF TypeOK
    <3>2. pc'[p] = "idle" /\ \A q \in Procs : q # p => pc'[q] = Wakeup(pc)[q]
      BY <1>5, <3>1 DEF Finish
    <3>3. \A q \in Procs : q # p => pc'[q] = pc[q] \/ pc'[q] \in {"begin", "sync"}
      BY <3>1, <3>2, WakeupOthers
    <3> QED
      BY <2>2, <3>2, <3>3 DEF CommitSteps
  <2>4. Ops' = Ops
    BY <2>2, <2>3 DEF Ops
  <2> QED
    BY <1>0, <2>1, <2>3, <2>4 DEF OneCommitter, Committer
<1>6. ASSUME NEW p \in Procs, Sync(p) \/ SyncLoop(p), boot = "up" PROVE Committer'
  <2>1. UNCHANGED <<outstanding, committing, boot>>
    BY <1>6 DEF Sync, SyncLoop, log, recovery
  <2>2. pc[p] \in {"idle", "sync"}
    BY <1>6 DEF Sync, SyncLoop
  <2>4. \/ pc' = pc \/ pc' = [pc EXCEPT ![p] = "sync"]
        \/ pc' = [pc EXCEPT ![p] = "sync_sleep"] \/ pc' = [pc EXCEPT ![p] = "idle"]
    BY <1>6 DEF Sync, SyncLoop
  <2>5. \A q \in Procs : pc'[q] = pc[q] \/ (q = p /\ pc'[q] \in {"sync", "sync_sleep", "idle"})
    <3>1. pc \in [Procs -> Steps]
      BY <1>0 DEF TypeOK
    <3> QED
      BY <2>4, <3>1
  <2>3. SameRoles
    BY <2>2, <2>5 DEF CommitSteps, SameRoles, SameRole
  <2> QED
    BY <1>0, <1>6, <2>1, <2>3, RolesKept
<1>7. ASSUME NEW b \in Blocks, Evict(b), boot = "up" PROVE Committer'
  <2>1. UNCHANGED <<outstanding, committing, pc, boot>>
    BY <1>7 DEF Evict, log, locals, recovery
  <2> QED
    BY <1>0, <1>7, <2>1, RolesKept DEF SameRoles, SameRole
<1>8. ASSUME Crash PROVE Committer'
  <2>1. outstanding' = 0 /\ committing' = 0 /\ \A p \in Procs : pc'[p] = "idle"
    BY <1>8 DEF Crash
  <2>2. Ops' = {}
    BY <2>1 DEF Ops
  <2> QED
    BY <2>1, <2>2, FS_EmptySet DEF OneCommitter, Committer, CommitSteps
<1>9. ASSUME Recover PROVE Committer'
  <2>1. UNCHANGED <<outstanding, committing, pc>> /\ boot # "up"
    BY <1>9 DEF Recover, ReadHead, RecoverInstall, RecoverClear, locals, log
  <2> QED
    BY <1>0, <2>1, RolesKept DEF SameRoles, SameRole
<1>10. ASSUME UNCHANGED vars PROVE Committer'
  <2>1. UNCHANGED <<outstanding, committing, pc, boot>>
    BY <1>10 DEF vars, log, locals, recovery
  <2> QED
    BY <1>0, <2>1, RolesKept DEF SameRoles, SameRole
<1> QED
  BY <1>1, <1>2, <1>3, <1>4, <1>5, <1>6, <1>7, <1>8, <1>9, <1>10 DEF Step, Next, Run, Commit, Rest

\* A process in a call is counted, so that no commit begins.
LEMMA CommitterStep == ASSUME LogInv, Step PROVE OneCommitter'
<1>1. Committer' /\ TypeOK'
  BY CommitterKept, TypeStep
<1>2. ASSUME NEW p \in Procs, pc'[p] = "op" PROVE outstanding' > 0
  <2>1. IsFiniteSet(Ops') /\ p \in Ops'
    BY <1>2, CallsAssumption, FS_Subset DEF Ops
  <2>2. Cardinality(Ops') # 0 /\ Cardinality(Ops') \in Nat
    BY <2>1, FS_EmptySet, FS_CardinalityType
  <2> QED
    BY <1>1, <2>2 DEF Committer
<1>3. committing' \in {0, 1} /\ (committing' = 1 => outstanding' = 0)
  BY <1>1 DEF Committer, TypeOK
<1>4. \A p \in Procs : pc'[p] = "op" => outstanding' > 0 /\ committing' = 0
  BY <1>2, <1>3
<1> QED
  BY <1>1, <1>4 DEF OneCommitter

-----------------------------------------------------------------------------
\* The credits are finitely many.
LEMMA CreditsFinite == IsFiniteSet(Credits)
<1>1. IsFiniteSet(1 .. MAXOPBLOCKS)
  BY FS_Interval, SizesAssumption
<1>2. IsFiniteSet(Procs \X (1 .. MAXOPBLOCKS))
  BY <1>1, CallsAssumption, FS_Product
<1> QED
  BY <1>2, FS_Subset DEF Credits

\* A call that may call log_write again has a credit left, so the log has room.
LEMMA HasCredit ==
    ASSUME LogInv, NEW p \in Procs, pc[p] = "op", calls[p] < OpWrites
    PROVE  /\ outstanding >= 1 /\ committing = 0
           /\ Cardinality(wrote[p]) \in Nat
           /\ <<p, Cardinality(wrote[p]) + 1>> \in Credits
           /\ Len(lh) + Cardinality(Credits) <= LOGBLOCKS /\ Len(lh) < LOGBLOCKS
<1>1. outstanding >= 1 /\ committing = 0
  <2>1. p \in Ops /\ outstanding \in Nat
    BY DEF LogInv, Ops, TypeOK
  <2>2. outstanding > 0 /\ committing = 0
    BY <2>1, OpsFinite DEF LogInv
  <2> QED
    BY <2>1, <2>2
<1>2. Cardinality(wrote[p]) \in Nat
  BY FS_CardinalityType DEF LogInv, Space
<1>3. Cardinality(wrote[p]) < MAXOPBLOCKS
  <2>1. /\ Cardinality(wrote[p]) <= calls[p] /\ Cardinality(wrote[p]) <= OpBlocks
        /\ calls[p] \in Nat
    BY DEF LogInv, Space, TypeOK
  <2> QED
    BY <1>2, <2>1, SizesAssumption, CallsAssumption
<1>4. <<p, Cardinality(wrote[p]) + 1>> \in Credits
  <2> DEFINE k == Cardinality(wrote[p]) + 1
             x == <<p, k>>
  <2>1. k \in 1 .. MAXOPBLOCKS /\ k > Cardinality(wrote[p])
    BY <1>2, <1>3, SizesAssumption
  <2> HIDE DEF k
  <2>2. x \in Procs \X (1 .. MAXOPBLOCKS) /\ x[1] = p /\ x[2] = k
    BY <2>1
  <2> HIDE DEF x
  <2>3. x \in Credits
    BY <2>1, <2>2 DEF Credits
  <2> QED
    BY <2>3 DEF x, k
<1>5. Len(lh) \in Nat /\ Len(lh) + Cardinality(Credits) <= LOGBLOCKS
  BY <1>1, LenIs DEF LogInv, Space, TypeOK
<1>6. Cardinality(Credits) \in Nat /\ Cardinality(Credits) # 0
  BY <1>4, CreditsFinite, FS_CardinalityType, FS_EmptySet
<1>7. Len(lh) < LOGBLOCKS
  BY <1>5, <1>6, SizesAssumption
<1> QED
  BY <1>1, <1>2, <1>4, <1>5, <1>7

\* Steps that log nothing and start no call keep the space.
LEMMA SpaceKept ==
    ASSUME LogInv, lh' = lh, Len(head') <= LOGBLOCKS, committing' = 0 => committing = 0,
           \A q \in Procs : pc'[q] = "op" => pc[q] = "op" /\ wrote'[q] = wrote[q] /\ calls'[q] = calls[q]
    PROVE  Space'
<1>1. Credits' \subseteq Credits
  BY DEF Credits
<1>2. Cardinality(Credits') <= Cardinality(Credits) /\ Cardinality(Credits') \in Nat /\ Cardinality(Credits) \in Nat
  BY <1>1, CreditsFinite, FS_Subset, FS_CardinalityType
<1>3. Len(lh) \in Nat
  BY LenIs DEF LogInv, TypeOK
<1>4. committing' = 0 => Len(lh') + Cardinality(Credits') <= LOGBLOCKS
  BY <1>2, <1>3, SizesAssumption DEF LogInv, Space
<1>5. Logged' = Logged
  BY DEF Logged
<1>6. ASSUME NEW q \in Procs, pc'[q] = "op"
      PROVE  /\ wrote'[q] \subseteq Logged' /\ IsFiniteSet(wrote'[q])
             /\ Cardinality(wrote'[q]) <= calls'[q] /\ calls'[q] <= OpWrites
             /\ Cardinality(wrote'[q]) <= OpBlocks
  <2>1. pc[q] = "op" /\ wrote'[q] = wrote[q] /\ calls'[q] = calls[q]
    BY <1>6
  <2> QED
    BY <1>5, <2>1 DEF LogInv, Space
<1>7. Len(lh') <= LOGBLOCKS
  BY DEF LogInv, Space
<1> QED
  BY <1>4, <1>6, <1>7 DEF Space

\* When no call is under way the log only has to fit.
LEMMA SpaceIdle ==
    ASSUME \A q \in Procs : pc'[q] # "op", Len(lh') <= LOGBLOCKS, Len(head') <= LOGBLOCKS, Len(lh') \in Nat
    PROVE  Space'
<1>1. Credits' = {}
  BY DEF Credits
<1>2. Cardinality(Credits') = 0
  BY <1>1, FS_EmptySet
<1> QED
  BY <1>2 DEF Space

\* begin_op's reservation is enough: whatever the calls log fits.
LEMMA SpaceStep == ASSUME LogInv, Step PROVE Space'
<1>0. TypeOK /\ TypeOK' /\ OneCommitter /\ Space
  BY TypeStep DEF LogInv
<1>a. Len(lh) <= LOGBLOCKS /\ Len(head) <= LOGBLOCKS /\ Len(lh) \in Nat /\ Len(head) \in Nat
  BY <1>0, LenIs DEF Space, TypeOK
<1>b. Len(<<>>) = 0 /\ Len(<<>>) <= LOGBLOCKS
  BY SizesAssumption
<1>1. ASSUME NEW p \in Procs, BeginOp(p) PROVE Space'
  <2>0. lh' = lh /\ head' = head /\ committing' = committing
    BY <1>1 DEF BeginOp, disk
  <2>1. CASE pc' = [pc EXCEPT ![p] = "begin_sleep"] /\ wrote' = wrote /\ calls' = calls
    <3>1. \A q \in Procs : pc'[q] = "op" => pc[q] = "op"
      BY <1>0, <2>1 DEF TypeOK
    <3> QED
      BY <1>a, <2>0, <2>1, <3>1, SpaceKept
  <2>2. CASE /\ CanBegin(Len(lh), outstanding, committing) /\ outstanding' = outstanding + 1
             /\ pc' = [pc EXCEPT ![p] = "op"]
             /\ wrote' = [wrote EXCEPT ![p] = {}] /\ calls' = [calls EXCEPT ![p] = 0]
    <3>1. wrote'[p] = {} /\ calls'[p] = 0
      BY <1>0, <2>2 DEF TypeOK
    <3>2. \A q \in Procs : q # p => pc'[q] = pc[q] /\ wrote'[q] = wrote[q] /\ calls'[q] = calls[q]
      BY <1>0, <2>2 DEF TypeOK
    <3>3. OneCommitter' /\ Logged' = Logged
      BY <2>0, CommitterStep DEF Logged
    <3>4. IsFiniteSet(Ops') /\ Cardinality(Ops') = outstanding + 1
      BY <1>0, <2>2, <3>3, CallsAssumption, FS_Subset DEF OneCommitter, Committer, Ops
    <3>5. IsFiniteSet(1 .. MAXOPBLOCKS) /\ Cardinality(1 .. MAXOPBLOCKS) = MAXOPBLOCKS
      BY SizesAssumption, FS_Interval
    <3>6. Credits' \subseteq Ops' \X (1 .. MAXOPBLOCKS)
      <4> SUFFICES ASSUME NEW x \in Credits' PROVE x \in Ops' \X (1 .. MAXOPBLOCKS)
        OBVIOUS
      <4>1. PICK q \in Procs, k \in 1 .. MAXOPBLOCKS : x = <<q, k>>
        BY DEF Credits
      <4>2. pc'[q] = "op"
        BY <4>1 DEF Credits
      <4> QED
        BY <4>1, <4>2 DEF Ops
    <3>7. Cardinality(Credits') <= (outstanding + 1) * MAXOPBLOCKS /\ Cardinality(Credits') \in Nat
      <4> DEFINE All == Ops' \X (1 .. MAXOPBLOCKS)
      <4>4. IsFiniteSet(All) /\ Cardinality(All) = Cardinality(Ops') * Cardinality(1 .. MAXOPBLOCKS)
        BY <3>4, <3>5, FS_Product, Zenon
      <4>1. IsFiniteSet(All) /\ Cardinality(All) = (outstanding + 1) * MAXOPBLOCKS
        BY <3>4, <3>5, <4>4, Zenon
      <4>2. Credits' \subseteq All
        BY <3>6
      <4> HIDE DEF All
      <4>3. IsFiniteSet(Credits') /\ Cardinality(Credits') <= Cardinality(All)
        BY <4>1, <4>2, FS_Subset
      <4> QED
        BY <4>1, <4>3, FS_CardinalityType
    <3>8. Len(lh) + (outstanding + 1) * MAXOPBLOCKS <= LOGBLOCKS
      BY <2>2 DEF CanBegin
    <3>9. (outstanding + 1) * MAXOPBLOCKS \in Nat
      BY <1>0, SizesAssumption DEF TypeOK
    <3>10. Len(lh') + Cardinality(Credits') <= LOGBLOCKS
      BY <1>a, <2>0, <3>7, <3>8, <3>9, SizesAssumption
    <3>11. ASSUME NEW q \in Procs, pc'[q] = "op"
           PROVE  /\ wrote'[q] \subseteq Logged' /\ IsFiniteSet(wrote'[q])
                  /\ Cardinality(wrote'[q]) <= calls'[q] /\ calls'[q] <= OpWrites
                  /\ Cardinality(wrote'[q]) <= OpBlocks
      <4>1. CASE q = p
        BY <3>1, <4>1, FS_EmptySet, SizesAssumption
      <4>2. CASE q # p
        BY <1>0, <3>2, <3>3, <3>11, <4>2 DEF Space
      <4> QED
        BY <4>1, <4>2
    <3> QED
      BY <1>a, <2>0, <3>10, <3>11 DEF Space
  <2> QED
    BY <1>1, <2>1, <2>2 DEF BeginOp
<1>2. ASSUME NEW p \in Procs, NEW b \in Blocks, NEW v \in Vals, LogWrite(p, b, v) PROVE Space'
  <2> DEFINE n == Cardinality(wrote[p])
             c == <<p, n + 1>>
  <2>0. pc[p] = "op" /\ calls[p] < OpWrites /\ Cardinality(wrote[p] \cup {b}) <= OpBlocks
    BY <1>2 DEF LogWrite
  <2>1. /\ outstanding >= 1 /\ committing = 0 /\ n \in Nat /\ c \in Credits
        /\ Len(lh) + Cardinality(Credits) <= LOGBLOCKS /\ Len(lh) < LOGBLOCKS
    BY <2>0, HasCredit
  <2>2. /\ wrote' = [wrote EXCEPT ![p] = @ \cup {b}] /\ calls' = [calls EXCEPT ![p] = @ + 1]
        /\ lh' = IF b \in Logged THEN lh ELSE Append(lh, b)
        /\ pc' = pc /\ committing' = committing /\ head' = head
    <3>1. ~(Len(lh) >= LOGBLOCKS \/ outstanding < 1)
      BY <1>0, <1>a, <2>1, SizesAssumption DEF TypeOK
    <3> QED
      BY <1>2, <3>1 DEF LogWrite, Absorbed, disk, locals
  <2>3. wrote'[p] = wrote[p] \cup {b} /\ calls'[p] = calls[p] + 1
    BY <1>0, <2>2 DEF TypeOK
  <2>4. \A q \in Procs : q # p => wrote'[q] = wrote[q] /\ calls'[q] = calls[q]
    BY <1>0, <2>2 DEF TypeOK
  <2>5. /\ IsFiniteSet(wrote[p]) /\ IsFiniteSet(wrote'[p])
        /\ Cardinality(wrote'[p]) = IF b \in wrote[p] THEN n ELSE n + 1
    <3>1. IsFiniteSet(wrote[p])
      BY <1>0, <2>0 DEF Space
    <3>2. /\ IsFiniteSet(wrote[p] \cup {b})
          /\ Cardinality(wrote[p] \cup {b}) = IF b \in wrote[p] THEN Cardinality(wrote[p]) ELSE Cardinality(wrote[p]) + 1
      BY <3>1, FS_AddElement, Zenon
    <3>3. wrote'[p] = wrote[p] \cup {b}
      BY <2>3
    <3> QED
      BY <3>1, <3>2, <3>3, Zenon
  <2> HIDE DEF n, c
  <2>10. b \notin Logged => Len(lh') = Len(lh) + 1 /\ lh'[Len(lh) + 1] = b /\ \A i \in 1 .. Len(lh) : lh'[i] = lh[i]
    <3>1. b \notin Logged => lh' = Append(lh, b)
      BY <2>2
    <3>2. lh \in Seq(Blocks)
      BY <1>0 DEF TypeOK
    <3> QED
      BY <3>1, <3>2, AppendIs
  <2>6. Logged \subseteq Logged' /\ b \in Logged'
    <3>1. CASE b \in Logged
      BY <2>2, <3>1 DEF Logged
    <3>2. CASE b \notin Logged
      <4>1. Len(lh') = Len(lh) + 1 /\ lh'[Len(lh) + 1] = b /\ \A i \in 1 .. Len(lh) : lh'[i] = lh[i]
        BY <2>10, <3>2
      <4> QED
        BY <1>a, <4>1 DEF Logged
    <3> QED
      BY <3>1, <3>2
  <2>7. ASSUME NEW q \in Procs, pc'[q] = "op"
        PROVE  /\ wrote'[q] \subseteq Logged' /\ IsFiniteSet(wrote'[q])
               /\ Cardinality(wrote'[q]) <= calls'[q] /\ calls'[q] <= OpWrites
               /\ Cardinality(wrote'[q]) <= OpBlocks
    <3>1. CASE q = p
      <4>1. wrote[p] \subseteq Logged /\ n <= calls[p] /\ calls[p] \in Nat
        BY <1>0, <2>0 DEF Space, TypeOK, n
      <4>2. wrote'[p] \subseteq Logged'
        BY <2>3, <2>6, <4>1
      <4>5. n \in Nat /\ Cardinality(wrote'[p]) \in {n, n + 1}
        BY <2>1, <2>5
      <4>6. calls'[p] = calls[p] + 1
        BY <2>3
      <4>3. Cardinality(wrote'[p]) <= calls'[p]
        BY <4>1, <4>5, <4>6
      <4>4. calls'[p] <= OpWrites /\ Cardinality(wrote'[p]) <= OpBlocks
        BY <2>0, <2>3, <4>1, SizesAssumption
      <4> QED
        BY <2>5, <3>1, <4>2, <4>3, <4>4
    <3>2. CASE q # p
      <4>1. pc[q] = "op" /\ wrote'[q] = wrote[q] /\ calls'[q] = calls[q]
        BY <2>2, <2>4, <2>7, <3>2
      <4> QED
        BY <1>0, <2>6, <4>1 DEF Space
    <3> QED
      BY <3>1, <3>2
  <2>8. IsFiniteSet(Credits) /\ Cardinality(Credits) \in Nat
    BY CreditsFinite, FS_CardinalityType
  <2>9. Len(lh') + Cardinality(Credits') <= LOGBLOCKS /\ Len(lh') <= LOGBLOCKS
    <3>1. CASE b \in Logged
      <4>1. Credits' \subseteq Credits
        <5> SUFFICES ASSUME NEW x \in Credits' PROVE x \in Credits
          OBVIOUS
        <5>1. PICK q \in Procs, k \in 1 .. MAXOPBLOCKS : x = <<q, k>>
          BY DEF Credits
        <5>2. pc[q] = "op" /\ k > Cardinality(wrote'[q])
          BY <2>2, <5>1 DEF Credits
        <5>3. k > Cardinality(wrote[q])
          <6>1. CASE q = p
            <7>1. n \in Nat /\ k > n
              BY <2>1, <2>5, <5>2, <6>1
            <7> QED
              BY <6>1, <7>1 DEF n
          <6>2. CASE q # p
            BY <2>4, <5>2, <6>2
          <6> QED
            BY <6>1, <6>2
        <5> QED
          BY <5>1, <5>2, <5>3 DEF Credits
      <4>2. Cardinality(Credits') <= Cardinality(Credits) /\ Cardinality(Credits') \in Nat
        BY <2>8, <4>1, FS_Subset, FS_CardinalityType
      <4> QED
        BY <1>a, <2>1, <2>2, <2>8, <3>1, <4>2, SizesAssumption
    <3>2. CASE b \notin Logged
      <4>1. b \notin wrote[p]
        BY <1>0, <2>0, <3>2 DEF Space
      <4>2. Cardinality(wrote'[p]) = n + 1
        BY <2>5, <4>1
      <4>3. Credits' \subseteq Credits \ {c}
        <5> SUFFICES ASSUME NEW x \in Credits' PROVE x \in Credits /\ x # c
          OBVIOUS
        <5>1. PICK q \in Procs, k \in 1 .. MAXOPBLOCKS : x = <<q, k>>
          BY DEF Credits
        <5>2. pc[q] = "op" /\ k > Cardinality(wrote'[q])
          BY <2>2, <5>1 DEF Credits
        <5>3. k > Cardinality(wrote[q]) /\ (q = p => k # n + 1)
          <6>1. CASE q = p
            <7>1. n \in Nat /\ k > n + 1
              BY <2>1, <4>2, <5>2, <6>1
            <7> QED
              BY <6>1, <7>1 DEF n
          <6>2. CASE q # p
            BY <2>4, <5>2, <6>2
          <6> QED
            BY <6>1, <6>2
        <5> QED
          BY <5>1, <5>2, <5>3 DEF Credits, c
      <4>4. IsFiniteSet(Credits \ {c}) /\ Cardinality(Credits \ {c}) = Cardinality(Credits) - 1
        BY <2>1, <2>8, FS_RemoveElement
      <4>5. Cardinality(Credits') <= Cardinality(Credits) - 1 /\ Cardinality(Credits') \in Nat
        BY <4>3, <4>4, FS_Subset, FS_CardinalityType
      <4>6. Len(lh') = Len(lh) + 1
        BY <2>10, <3>2
      <4>7. Len(lh) \in Nat /\ Len(lh) < LOGBLOCKS /\ Len(lh) + Cardinality(Credits) <= LOGBLOCKS
        BY <1>a, <2>1
      <4>8. Len(lh') <= LOGBLOCKS
        BY <4>6, <4>7, SizesAssumption
      <4>9. Len(lh') + Cardinality(Credits') <= LOGBLOCKS
        BY <2>8, <4>5, <4>6, <4>7, SizesAssumption
      <4> QED
        BY <4>8, <4>9
    <3> QED
      BY <3>1, <3>2
  <2> QED
    BY <1>a, <2>2, <2>7, <2>9 DEF Space

<1>3. ASSUME NEW p \in Procs, EndOp(p) PROVE Space'
  <2>1. lh' = lh /\ head' = head /\ wrote' = wrote /\ calls' = calls
    BY <1>3 DEF EndOp, disk, work
  <2>2. committing' = 0 => committing = 0
    BY <1>3 DEF EndOp
  <2>3. pc \in [Procs -> Steps] /\ Wakeup(pc) \in [Procs -> Steps]
    BY <1>0, WakeupIs DEF TypeOK
  <2>4. \E s \in {"idle", "finish", "write_log"} : pc' = [pc EXCEPT ![p] = s] \/ pc' = [Wakeup(pc) EXCEPT ![p] = s]
    BY <1>3 DEF EndOp
  <2>5. \A q \in Procs : pc'[q] = "op" => pc[q] = "op"
    BY <2>3, <2>4, WakeupOthers
  <2> QED
    BY <1>a, <2>1, <2>2, <2>5, SpaceKept
<1>4. ASSUME NEW p \in Procs, WriteLog(p) \/ WriteHead(p) \/ Install(p) PROVE Space'
  <2>1. lh' = lh /\ wrote' = wrote /\ calls' = calls /\ committing' = committing
    BY <1>4 DEF WriteLog, WriteHead, Install, log, work
  <2>2. Len(head') <= LOGBLOCKS
    BY <1>4, <1>a DEF WriteLog, WriteHead, Install
  <2>3. \E s \in CommitSteps : pc' = [pc EXCEPT ![p] = s]
    BY <1>4 DEF WriteLog, WriteHead, Install, CommitSteps
  <2>4. \A q \in Procs : pc'[q] = "op" => pc[q] = "op"
    BY <1>0, <2>3 DEF TypeOK, CommitSteps
  <2> QED
    BY <2>1, <2>2, <2>4, SpaceKept
<1>5. ASSUME NEW p \in Procs, ClearHead(p) \/ Finish(p) PROVE Space'
  <2>1. lh' \in {lh, <<>>} /\ head' \in {head, <<>>}
    BY <1>5 DEF ClearHead, Finish, disk
  <2>2. \A q \in Procs : pc[q] # "op"
    BY <1>0, <1>5, CommitterAlone DEF ClearHead, Finish, CommitSteps
  <2>3. pc \in [Procs -> Steps] /\ Wakeup(pc) \in [Procs -> Steps]
    BY <1>0, WakeupIs DEF TypeOK
  <2>4. \E s \in {"idle", "finish"} : pc' = [pc EXCEPT ![p] = s] \/ pc' = [Wakeup(pc) EXCEPT ![p] = s]
    BY <1>5 DEF ClearHead, Finish
  <2>5. \A q \in Procs : pc'[q] # "op"
    BY <2>2, <2>3, <2>4, WakeupOthers
  <2> QED
    BY <1>a, <1>b, <2>1, <2>5, SpaceIdle
<1>6. ASSUME NEW p \in Procs, Sync(p) \/ SyncLoop(p) PROVE Space'
  <2>1. lh' = lh /\ wrote' = wrote /\ calls' = calls /\ committing' = committing /\ head' = head
    BY <1>6 DEF Sync, SyncLoop, log, work, disk
  <2>2. \/ pc' = pc \/ pc' = [pc EXCEPT ![p] = "sync"]
        \/ pc' = [pc EXCEPT ![p] = "sync_sleep"] \/ pc' = [pc EXCEPT ![p] = "idle"]
    BY <1>6 DEF Sync, SyncLoop
  <2>3. \A q \in Procs : pc'[q] = "op" => pc[q] = "op"
    BY <1>0, <2>2 DEF TypeOK
  <2> QED
    BY <1>a, <2>1, <2>3, SpaceKept
<1>7. ASSUME NEW b \in Blocks, Evict(b) PROVE Space'
  BY <1>a, <1>7, SpaceKept DEF Evict, log, work, disk, locals
<1>8. ASSUME Crash PROVE Space'
  <2>1. lh' = <<>> /\ head' = head /\ \A q \in Procs : pc'[q] # "op"
    BY <1>8 DEF Crash
  <2> QED
    BY <1>a, <1>b, <2>1, SpaceIdle
<1>9. ASSUME Recover PROVE Space'
  <2>1. \A q \in Procs : pc[q] = "idle" /\ pc'[q] = pc[q]
    BY <1>0, <1>9 DEF Recover, ReadHead, RecoverInstall, RecoverClear, OneCommitter, Committer, locals
  <2>2. lh' \in {lh, head, <<>>} /\ head' \in {head, <<>>}
    BY <1>9 DEF Recover, ReadHead, RecoverInstall, RecoverClear, log, disk
  <2> QED
    BY <1>a, <1>b, <2>1, <2>2, SpaceIdle
<1>10. ASSUME UNCHANGED vars PROVE Space'
  BY <1>a, <1>10, SpaceKept DEF vars, log, work, disk, locals
<1> QED
  BY <1>1, <1>2, <1>3, <1>4, <1>5, <1>6, <1>7, <1>8, <1>9, <1>10 DEF Step, Next, Run, Commit, Rest

-----------------------------------------------------------------------------
\* log_write never finds the log full and end_op never finds a commit under way.
LEMMA PanicStep == ASSUME LogInv, Step PROVE ~panicked'
<1>1. ASSUME NEW p \in Procs, NEW b \in Blocks, NEW v \in Vals, LogWrite(p, b, v) PROVE ~panicked'
  <2>1. pc[p] = "op" /\ calls[p] < OpWrites
    BY <1>1 DEF LogWrite
  <2>2. outstanding >= 1 /\ Len(lh) < LOGBLOCKS
    BY <2>1, HasCredit
  <2>3. outstanding \in Nat /\ Len(lh) \in Nat
    BY LenIs DEF LogInv, TypeOK
  <2>4. ~(Len(lh) >= LOGBLOCKS \/ outstanding < 1)
    BY <2>2, <2>3, SizesAssumption
  <2> QED
    BY <1>1, <2>4 DEF LogWrite, LogInv
<1>2. ASSUME NEW p \in Procs, EndOp(p) PROVE ~panicked'
  <2>1. p \in Ops
    BY <1>2 DEF EndOp, Ops
  <2>2. committing = 0
    BY <2>1, OpsFinite DEF LogInv
  <2>3. panicked' = (committing = 1)
    BY <1>2 DEF EndOp
  <2>4. committing # 1
    BY <2>2
  <2> QED
    BY <2>3, <2>4, Zenon
<1>3. ASSUME NEW p \in Procs, BeginOp(p) \/ Commit(p) \/ Sync(p) \/ SyncLoop(p) PROVE ~panicked'
  BY <1>3 DEF BeginOp, Commit, WriteLog, WriteHead, Install, ClearHead, Finish, Sync, SyncLoop, LogInv
<1>4. ASSUME NEW b \in Blocks, Evict(b) PROVE ~panicked'
  BY <1>4 DEF Evict, LogInv
<1>5. ASSUME Crash \/ Recover \/ UNCHANGED vars PROVE ~panicked'
  BY <1>5 DEF Crash, Recover, ReadHead, RecoverInstall, RecoverClear, vars, LogInv
<1> QED
  BY <1>1, <1>2, <1>3, <1>4, <1>5 DEF Step, Next, Run, Rest
-----------------------------------------------------------------------------
\* After initlog nothing is in the log, or recovery is to come.
LEMMA InitOK == Init => LogInv
<1> SUFFICES ASSUME Init PROVE LogInv
  OBVIOUS
<1>1. TypeOK
  <2>1. home \in [Blocks -> Contents] /\ logd \in [1 .. LOGBLOCKS -> Contents] /\ head \in Seq(Blocks) /\ lh \in Seq(Blocks)
    BY DEF Init, Contents
  <2>2. cache \in [Blocks -> Contents \cup {NotCached}] /\ pins \in [Blocks -> Int]
    BY DEF Init
  <2>3. pc \in [Procs -> Steps] /\ tail \in [Procs -> Nat] /\ syncn \in [Procs -> Nat] /\ calls \in [Procs -> Nat]
    BY DEF Init, Steps
  <2>4. wrote \in [Procs -> SUBSET Blocks] /\ need \in [Procs -> SUBSET Procs]
    BY DEF Init
  <2> QED
    BY <2>1, <2>2, <2>3, <2>4 DEF Init, TypeOK
<1>2. OneCommitter /\ Space
  <2>1. Ops = {} /\ Credits = {} /\ \A p \in Procs : pc[p] = "idle"
    BY DEF Init, Ops, Credits
  <2>2. Cardinality(Ops) = 0 /\ Cardinality(Credits) = 0
    BY <2>1, FS_EmptySet
  <2>3. OneCommitter
    BY <2>1, <2>2 DEF Init, OneCommitter, Committer, CommitSteps
  <2>4. Space
    BY <2>1, <2>2, SizesAssumption DEF Init, Space
  <2> QED
    BY <2>3, <2>4
<1>3. Syncing
  BY DEF Init, Syncing
<1>4. Pins
  BY DEF Init, Pins, Pending
<1>5. Phases
  <2>1. \A p \in Procs : Phase(p)
    BY DEF Init, Phase
  <2>2. Distinct(lh) /\ Distinct(head) /\ HeadPhase /\ RecoveryPhase
    BY DEF Init, Distinct, HeadPhase, RecoveryPhase
  <2> QED
    BY <2>1, <2>2 DEF Phases
<1> QED
  BY <1>1, <1>2, <1>3, <1>4, <1>5 DEF LogInv, Init

\* Every step of the log, and every crash, keeps the invariant.
LEMMA LogInvStep == LogInv /\ [Next]_vars => LogInv'
<1> SUFFICES ASSUME LogInv, Step PROVE LogInv'
  BY DEF Step
<1>1. ~panicked'
  BY PanicStep
<1> QED
  BY <1>1, TypeStep, CommitterStep, SpaceStep, SyncStep, DiskStep DEF LogInv

-----------------------------------------------------------------------------
\* log_write never finds the log full and end_op never finds a commit under
\* way (the two panics of log.c), whatever calls run and whenever power fails.
THEOREM LogNeverPanics == Spec => []NeverPanics
<1>1. LogInv => NeverPanics
  BY DEF LogInv, NeverPanics
<1> QED
  BY <1>1, InitOK, LogInvStep, PTL DEF Spec

\* When sys_sync returns, what had ended before it was called is on the disk.
THEOREM SyncIsDurable == Spec => []SyncDurable
<1>1. LogInv => SyncDurable
  BY DEF LogInv, Syncing, SyncDurable
<1> QED
  BY <1>1, InitOK, LogInvStep, PTL DEF Spec
-----------------------------------------------------------------------------
\* The log implements AtomicDisk: whenever power fails, recovery yields what
\* memory held at some moment when no call was under way.
THEOREM LogIsAtomic == Spec => CrashAtomic
<1>1. LogInv /\ [Next]_vars => [Atomic!ANext]_(Atomic!avars)
  BY StepRefines, PanicStep DEF Step
<1> QED
  BY <1>1, InitOK, LogInvStep, InitRefines, PTL DEF Spec, CrashAtomic, Atomic!ASpec
=============================================================================
