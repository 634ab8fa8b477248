---- MODULE AtomicStore ----
(***************************************************************************)
(* What saving a configuration should look like to the next start of the   *)
(* program: a register that holds one whole version.  A save adds the new  *)
(* version to what a restart may find, the operating system sooner or      *)
(* later makes the latest one durable, and a power cut leaves one of them, *)
(* never something that is not a version.  ConfigStore implements it.      *)
(***************************************************************************)
CONSTANT Version

VARIABLES may,     \* the versions the next start may find
          latest   \* the one it finds if there is no power cut

vars == <<may, latest>>

Init == latest \in Version /\ may = {latest}

Save == /\ latest' \in Version
        /\ may' = may \cup {latest'}

Settle == may' = {latest} /\ UNCHANGED latest

PowerCut == /\ latest' \in may
            /\ may' = {latest'}

Next == Save \/ Settle \/ PowerCut
Spec == Init /\ [][Next]_vars
====
