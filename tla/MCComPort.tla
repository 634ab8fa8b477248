---- MODULE MCComPort ----
(* ComPort for TLC: a line with an ordinary flag and the one whose flag     *)
(* means only its trailing edge; one of the outputs, which are alike.       *)
EXTENDS ComPort
MCSampled == <<"cts", "ri">>
MCOutput == {"dtr"}
====
