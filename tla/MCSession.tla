---- MODULE MCSession ----
(* Rfc2217Session for TLC; every bound is a number, given in the            *)
(* configuration: a socket that takes one half of a message.                *)
EXTENDS Rfc2217Session
====
