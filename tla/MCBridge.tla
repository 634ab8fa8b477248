---- MODULE MCBridge ----
(* Bridge for TLC; every bound is a number, given in the configurations: two*)
(* clients one after the other, whose sockets take one byte.                *)
EXTENDS Bridge
====
