---- MODULE MCConfigStore ----
(* Model values for TLC: five files are enough for the live file, the temp  *)
(* file and the backup beside the ones an earlier directory still names.    *)
EXTENDS ConfigStore
CONSTANTS main, w1, w2, i1, i2, i3, i4, i5
OneWorker == {w1}
TwoWorkers == {w1, w2}
MCInode == {i1, i2, i3, i4, i5}
====
