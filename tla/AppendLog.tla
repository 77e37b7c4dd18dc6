------------------------------ MODULE AppendLog ------------------------------
(***************************************************************************)
(* What a session store promises (packages/session/                        *)
(* session-persistence/README.md): stored is the log a load would return,  *)
(* acked the part a resolved append vouched for.  Failures, crashes and    *)
(* repairs may change what nobody was promised, the rest never.            *)
(***************************************************************************)
EXTENDS SequencesExt

VARIABLES stored, acked

log == <<stored, acked>>

Init == stored = <<>> /\ acked = <<>>

\* A batch, a rollback, a crash or a repair behind the acknowledged events.
Change == IsPrefix(acked, stored') /\ UNCHANGED acked

\* A resolved append vouches for stored events.
Ack ==
  /\ IsPrefix(acked, acked') /\ IsPrefix(acked', stored)
  /\ UNCHANGED stored

Next == Change \/ Ack

Spec == Init /\ [][Next]_log
=============================================================================
