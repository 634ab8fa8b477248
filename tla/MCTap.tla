---- MODULE MCTap ----
(***************************************************************************)
(* Tap for TLC: two watchers, the device's reader, the bridge's pump and   *)
(* the send box, channels of one frame.                                    *)
(***************************************************************************)
EXTENDS Tap

MCSource == {"reader"}
MCSink == {"pump", "sendbox"}
====
