---- MODULE MCHttp ----
(* Http and Allowlist for TLC: two workers, two streams, three requests of  *)
(* the kinds that differ; addresses of 3 and 5 bits, one peer let in by a   *)
(* rule in each of its two spellings and one left out.                      *)
EXTENDS Http
CONSTANTS w1, w2
MCWorker == {w1, w2}
MCLoop4 == {[fam |-> 4, bits |-> 2], [fam |-> 4, bits |-> 3]}
MCRules == <<Parse([fam |-> 4, bits |-> 5], 2)>>
MCPlain == [fam |-> 4, bits |-> 4]
MCMapped == [fam |-> 6, bits |-> 12]
MCOutside == [fam |-> 4, bits |-> 6]
MCPeer == {MCPlain, MCMapped, MCOutside}
MCAsk(from, kind, token) == [from |-> from, kind |-> kind, token |-> token, origin |-> token]
MCAsked == {MCAsk(MCPlain, "events", TRUE), MCAsk(MCMapped, "data", TRUE),
            MCAsk(MCPlain, "change", TRUE), MCAsk(MCPlain, "login", TRUE),
            MCAsk(MCMapped, "get", TRUE), MCAsk(MCPlain, "get", FALSE),
            [MCAsk(MCPlain, "change", TRUE) EXCEPT !.origin = FALSE],
            MCAsk(MCOutside, "data", FALSE)}
====
