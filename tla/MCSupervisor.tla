---- MODULE MCSupervisor ----
(* Model values for TLC: two permitted clients and one the allowlist turns  *)
(* away, so that a second client can wait, be taken on late or be refused.  *)
EXTENDS Supervisor
CONSTANTS c1, c2, c3
MCClient == {c1, c2, c3}
MCPermitted == {c1, c2}
MCTwo == {c1, c2}
====
