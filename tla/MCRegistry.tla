---- MODULE MCRegistry ----
(* Model values for TLC: two workers on two devices, with one entry object  *)
(* to spare so that a device can be removed and paired again.               *)
EXTENDS Registry, TLC
CONSTANTS w1, w2, d1, d2, e1, e2, e3, f1
MCWorker == {w1, w2}
MCDevice == {d1, d2}
MCOneDevice == {d1}
MCEntry == {e1, e2, e3}
MCTwoEntries == {e1, e2}
MCField == {f1}
MCTcpPort == {1, 2}
MCSymmetry == Permutations(MCWorker) \cup Permutations(MCDevice) \cup Permutations(MCEntry)
MCSmallSymmetry == Permutations(MCWorker)
====
