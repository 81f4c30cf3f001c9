-------------------------------- MODULE Fifo --------------------------------
(***************************************************************************)
(* What a pipe promises: a bounded queue of bytes with a write end and a   *)
(* read end.  Bytes come out once each, in the order they went in; nothing *)
(* goes in after the read end is closed; a byte is lost only when both     *)
(* ends are closed.                                                        *)
(***************************************************************************)
EXTENDS Naturals, Sequences

CONSTANTS Vals, Capacity

VARIABLES q, ropen, wopen

fvars == <<q, ropen, wopen>>

FInit == q = <<>> /\ ropen = 1 /\ wopen = 1

Put(v) ==
    /\ Len(q) < Capacity /\ ropen = 1 /\ wopen = 1
    /\ q' = Append(q, v)
    /\ UNCHANGED <<ropen, wopen>>

Get ==
    /\ Len(q) > 0 /\ ropen = 1
    /\ q' = Tail(q)
    /\ UNCHANGED <<ropen, wopen>>

Close ==
    /\ \/ ropen = 1 /\ ropen' = 0 /\ UNCHANGED wopen
       \/ wopen = 1 /\ wopen' = 0 /\ UNCHANGED ropen
    /\ UNCHANGED q

\* A pipe with both ends closed is gone; the next one starts out empty.
Renew ==
    /\ ropen = 0 /\ wopen = 0
    /\ q' = <<>> /\ ropen' = 1 /\ wopen' = 1

FNext == (\E v \in Vals : Put(v)) \/ Get \/ Close \/ Renew

FSpec == FInit /\ [][FNext]_fvars
=============================================================================
