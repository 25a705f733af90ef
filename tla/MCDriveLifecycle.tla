-------------------------- MODULE MCDriveLifecycle --------------------------
(* One drive of a lifetime of one tick for TLC.                             *)
EXTENDS DriveLifecycle, TLC

CONSTANTS P1, P2, V1, S1, S2, S3, S4, S5, S6

\* A session nobody refers to is as good as new.
Used == {s \in Sessions : ~ Unused(s)}

WithoutUnused ==
  <<now, row, holds, scheduled, alarm, session, closed \cap Used, tail, writer, wiper,
    deferral, faults, verify, history>>
=============================================================================
