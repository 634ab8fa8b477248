---- MODULE PortService ----
(***************************************************************************)
(* What one running port promises to the people who use it, without        *)
(* threads, sockets or flags: it serves permitted clients one at a time,   *)
(* each connection at most once; once it has been asked to stop it takes   *)
(* on at most one more client; and it reports stopped only when nobody is  *)
(* being served.  Supervisor is shown to implement this module.            *)
(***************************************************************************)
EXTENDS FiniteSets

CONSTANTS Client,      \* the connections that may be made to the port
          Permitted,   \* those whose address the allowlist lets in
          NoClient     \* "nobody"

VARIABLES phase,       \* "serving", "stopping" or "stopped"
          serving,     \* the client being served, or NoClient
          served,      \* every client ever served
          late         \* a client was taken on after the stop was asked for

vars == <<phase, serving, served, late>>

Init == /\ phase = "serving"
        /\ serving = NoClient
        /\ served = {}
        /\ late = FALSE

(* A client is taken on: nobody else is being served, it was not served     *)
(* before, and this is not a second one since the stop.                     *)
Serve(c) == /\ phase # "stopped"
            /\ serving = NoClient
            /\ c \in Permitted \ served
            /\ ~late
            /\ serving' = c
            /\ served' = served \cup {c}
            /\ late' = (phase = "stopping")
            /\ UNCHANGED phase

Finish == /\ serving # NoClient
          /\ serving' = NoClient
          /\ UNCHANGED <<phase, served, late>>

AskStop == /\ phase = "serving"
           /\ phase' = "stopping"
           /\ UNCHANGED <<serving, served, late>>

Stopped == /\ phase = "stopping"
           /\ serving = NoClient
           /\ phase' = "stopped"
           /\ UNCHANGED <<serving, served, late>>

Next == (\E c \in Client : Serve(c)) \/ Finish \/ AskStop \/ Stopped

Spec == Init /\ [][Next]_vars
====
