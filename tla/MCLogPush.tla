----------------------------- MODULE MCLogPush -----------------------------
(***************************************************************************)
(* LogPush for TLC: one connection, and two devices that may be revoked.   *)
(***************************************************************************)
EXTENDS LogPush, TLC

CONSTANTS s1, d1, d2

OneSession == {s1}
MCDevices == {d1, d2}
MCDeviceOf == [s \in Sessions |-> d1]
=============================================================================
