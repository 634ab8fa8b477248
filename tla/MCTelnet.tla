---- MODULE MCTelnet ----
(* Text that needs escaping and, unescaped, would end a subnegotiation;     *)
(* settings with IAC in the payload; a foreign client that changes its mind,*)
(* asks for what we refuse, and sends commands whole, empty, malformed and  *)
(* for another option; a foreign server that agrees to COM-PORT, goes back  *)
(* on it and agrees again, or never does, and answers what it likes; a line *)
(* found with its outputs off, and one with all of them on.                 *)
EXTENDS Telnet
MCText == {<<65, 255, 240>>}
MCSettings == << <<1, <<0, 0, 1, 255>> >>, <<5, <<3>> >> >>
MCOption == {0, 1, 3, 44, 99}
MCLine(flow, break, dtr, rts) ==
  [i \in Item |-> CASE i = <<1, 0>> -> <<0, 0, 37, 128>>    \* 9600 baud
                    [] i = <<2, 0>> -> <<8>>
                    [] i = <<5, 0>> -> <<flow>>
                    [] i = <<5, 4>> -> <<break>>
                    [] i = <<5, 7>> -> <<dtr>>
                    [] i = <<5, 10>> -> <<rts>>
                    [] OTHER -> <<1>>]
MCFound == {MCLine(1, 6, 9, 12), MCLine(3, 5, 8, 11)}
Verbs == {<<255, v, o>> : v \in {251, 252, 253, 254}, o \in {1, 44}} \cup {<<255, 253, 99>>}
Commands == {Subnegotiation(1, <<0, 0, 0, 0>>), Subnegotiation(1, <<0, 255, 0, 0>>),
             Subnegotiation(5, <<8>>), Subnegotiation(5, <<7>>), Subnegotiation(5, <<>>),
             Subnegotiation(12, <<1>>)}
Odd == {<<255, 241>>, <<255, 250, 44, 3, 255, 65, 2, 255, 240>>, <<255, 250, 255, 240>>}
Agreements == {<<255, 253, 44>>, <<255, 254, 44, 255, 253, 44>>, <<255, 251, 44>>,
               Subnegotiation(101, <<>>)}
MCForeign == [e \in End |-> IF e = "client" THEN Verbs \cup Commands \cup Odd ELSE Agreements]
====
