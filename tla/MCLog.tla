------------------------------- MODULE MCLog -------------------------------
(***************************************************************************)
(* Log for TLC, with two sets of bounds.                                   *)
(*                                                                         *)
(* Unit "crash" has two blocks, two contents, sys_sync, a power failure    *)
(* and others while the log is recovered from it.                          *)
(* Unit "space" has as many blocks as fill the log, of one content, and    *)
(* neither power failures nor sys_sync.                                    *)
(***************************************************************************)
EXTENDS Log, TLC

CONSTANTS SpaceBlocks, SpaceVals

ASSUME SpaceAssumption == Blocks \subseteq SpaceBlocks /\ SpaceVals \subseteq Vals

VARIABLE unit    \* which set of bounds

S == INSTANCE Log WITH Blocks <- SpaceBlocks, Vals <- SpaceVals, Syncers <- {}, MaxCrashes <- 0

LogInit ==
    \/ unit = "crash" /\ Init
    \/ unit = "space" /\ S!Init

LogNext ==
    /\ \/ unit = "crash" /\ Next /\ (crashes' > crashes /\ crashes > 0 => boot # "up")
       \/ unit = "space" /\ S!Next
    /\ UNCHANGED unit

LogSpec == LogInit /\ [][LogNext]_<<unit, vars>>

\* Blocks, contents and processes are interchangeable.
Symmetry == Permutations(SpaceBlocks) \cup Permutations(Vals) \cup Permutations(Procs)

\* Once the system is up again, it does not matter how often power has failed.
LogView == <<unit, disk, bufs, log, locals, recovery, panicked, wrote, calls, left, history,
             IF boot = "up" /\ crashes > 0 THEN MaxCrashes ELSE crashes>>
=============================================================================
