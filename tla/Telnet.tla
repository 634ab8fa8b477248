---- MODULE Telnet ----
(***************************************************************************)
(* The Telnet stream of an RFC 2217 connection between the client of       *)
(* src/src/client.rs and the server of src/src/server.rs, or one of them   *)
(* and a foreign end that says what it likes                               *)
(* (src/src/rfc2217/codec.rs and comport.rs): escaping, option negotiation,*)
(* subnegotiations, and the line settings the client asks for.  write_raw  *)
(* keeps the shared socket locked for a whole message, so a message is one *)
(* append; the decoder takes one byte per step, which covers every way of  *)
(* cutting the stream into reads.  The serial port may refuse a setting;   *)
(* reading a setting back does not fail.  The modem notifier is left out.  *)
(***************************************************************************)
EXTENDS Naturals, SequencesExt

CONSTANTS Text,       \* what one write of a pump may carry: sequences of bytes
          Settings,   \* SerialArgs as the client asks for them: <<command, payload>>
          Foreign,    \* for each end, what a foreign one sends beside text
          Found,      \* the serial lines a session may find
          Option,     \* the Telnet options that occur
          MaxWrites,  \* bound: writes by the pump of each end
          MaxForeign  \* bound: messages of a foreign end

IAC == 255
DONT == 254
DO == 253
WONT == 252
WILL == 251
SB == 250
SE == 240
BINARY == 0
ECHO == 1
SGA == 3
COM_PORT == 44

End == {"client", "server"}
Other(e) == CHOOSE p \in End : p # e

ASSUME TelnetAssumption ==
  /\ MaxWrites \in Nat /\ MaxForeign \in Nat
  /\ {BINARY, ECHO, SGA, COM_PORT} \subseteq Option
  /\ \A q \in Text \cup Foreign["client"] \cup Foreign["server"] : q \in Seq(0..255)
  /\ Settings \in Seq((1..11) \X Seq(0..255))

VARIABLES foreign,    \* the end that is not this program's, or "none"
          chan,       \* bytes on their way to each end
          dec,        \* each end's Decoder: state and subneg
          table,      \* each end's Decoder: us and them
          requested,  \* agreed_fired and requested of the client, set together
          asking,     \* its option_agreed has not written the settings yet
          line,       \* the serial line, or the shadow of a virtual one
          record,     \* ServerHandler's dtr, rts and break_on
          writes,     \* writes by each end's pump so far
          odd,        \* messages a foreign end has sent
          fed,        \* history: the payload each end's pump has written
          out,        \* history: the payload each end's decoder has delivered
          heard,      \* history: the last verb each end got, by side of its sender
          invited,    \* history: the client has got a DO COM-PORT
          driven,     \* history: the outputs this session has changed on the line
          asked,      \* history: the COM-PORT commands the server got
          told        \* history: the last answer the client got, by item of the line

askVars == <<requested, asking, invited>>
lineVars == <<line, record, driven>>
vars == <<foreign, chan, dec, table, askVars, lineVars, writes, odd, fed, out, heard, asked, told>>

Side == {"us", "them"}

(* What a COM-PORT command sets: <<command, 0>>, or for SET-CONTROL the     *)
(* query code of flow (0), break (4), DTR (7) or RTS (10).                  *)
Pin == {<<5, 4>>, <<5, 7>>, <<5, 10>>}
Item == {<<1, 0>>, <<2, 0>>, <<3, 0>>, <<4, 0>>, <<5, 0>>} \cup Pin
Group(c) == CASE c \in 0..3 -> 0 [] c \in 4..6 -> 4 [] c \in 7..9 -> 7 [] c \in 10..12 -> 10

(* A line is found with its outputs on or off, whatever the record says.    *)
ASSUME FoundAssumption ==
  \A found \in Found : /\ found \in [Item -> Seq(0..255)]
                       /\ \E v \in 0..12 : found[<<5, 0>>] = <<v>> /\ Group(v) = 0
                       /\ \A i \in Pin : \E v \in 0..12 : found[i] = <<v>> /\ Group(v) = i[2]

(* Slips: nothing is escaped; or only data is.                              *)
EscapeNothing(bytes) == bytes
Escape(bytes) == FlattenSeq([i \in DOMAIN bytes |->
                   IF bytes[i] = IAC THEN <<IAC, IAC>> ELSE <<bytes[i]>>])
SubnegotiationRaw(cmd, payload) == <<IAC, SB, COM_PORT, cmd>> \o payload \o <<IAC, SE>>
Subnegotiation(cmd, payload) == <<IAC, SB, COM_PORT, cmd>> \o Escape(payload) \o <<IAC, SE>>

(* Decoder::initiate: offers and requests, recorded before they are sent.   *)
Offered == {BINARY, SGA, COM_PORT}
Offers == FlattenSeq([i \in 1..3 |-> LET o == <<BINARY, SGA, COM_PORT>>[i]
                                     IN <<IAC, WILL, o, IAC, DO, o>>])

(* Decoder::feed as far as data goes: the state a byte leaves it in, and    *)
(* what it makes of a stream.  A foreign message is whole and has no data.  *)
AfterIac(b) == CASE b = WILL -> "Will" [] b = WONT -> "Wont" [] b = DO -> "Do"
                 [] b = DONT -> "Dont" [] b = SB -> "SubNeg" [] OTHER -> "Data"
After(at, b) == CASE at = "Data" -> IF b = IAC THEN "Iac" ELSE "Data"
                  [] at = "Iac" -> AfterIac(b)
                  [] at = "SubNeg" -> IF b = IAC THEN "SubNegIac" ELSE "SubNeg"
                  [] at = "SubNegIac" -> IF b = SE THEN "Data" ELSE "SubNeg"
                  [] OTHER -> "Data"
IsData(at, b) == (at = "Data" /\ b # IAC) \/ (at = "Iac" /\ b = IAC)
Read(r, b) == [at |-> After(r.at, b),
               data |-> IF IsData(r.at, b) THEN Append(r.data, b) ELSE r.data]
Reads(r, bytes) == LET read[i \in 0..Len(bytes)] ==
                         IF i = 0 THEN r ELSE Read(read[i - 1], bytes[i])
                   IN read[Len(bytes)]

ASSUME ForeignAssumption == LET r == [at |-> "Data", data |-> <<>>]
                            IN \A e \in End : \A m \in Foreign[e] : Reads(r, m) = r

TypeOK == /\ foreign \in End \cup {"none"}
          /\ requested \in BOOLEAN /\ asking \in BOOLEAN /\ invited \in BOOLEAN
          /\ chan \in [End -> Seq(0..255)]
          /\ dec \in [End -> [at : {"Data", "Iac", "Will", "Wont", "Do", "Dont",
                                    "SubNeg", "SubNegIac"},
                              sub : Seq(0..255)]]
          /\ table \in [End -> [Side \X Option -> {"none", "yes", "no"}]]
          /\ line \in [Item -> Seq(0..255)] /\ record \in [Pin -> Seq(0..255)]
          /\ driven \subseteq Pin
          /\ writes \in [End -> 0..MaxWrites] /\ odd \in 0..MaxForeign
          /\ fed \in [End -> Seq(0..255)] /\ out \in [End -> Seq(0..255)]
          /\ heard \in [End -> [Side \X Option -> {"none", "yes", "no"}]]
          /\ asked \in Seq(Seq(0..255)) /\ told \in [Item -> Seq(0..255)]

Ours(e) == foreign # e
Init == /\ foreign \in End \cup {"none"}
        /\ chan = [e \in End |-> IF e = "server" /\ Ours("client") THEN Offers ELSE <<>>]
        /\ dec = [e \in End |-> [at |-> "Data", sub |-> <<>>]]
        /\ table = [e \in End |-> [so \in Side \X Option |->
                      IF e = "client" /\ Ours(e) /\ so[2] \in Offered THEN "yes" ELSE "none"]]
        /\ requested = FALSE /\ asking = FALSE /\ invited = FALSE
        /\ line \in Found
        /\ record = [i \in Pin |-> <<i[2] + 2>>] /\ driven = {}    \* break, DTR, RTS off
        /\ writes = [e \in End |-> 0] /\ odd = 0
        /\ fed = [e \in End |-> <<>>] /\ out = [e \in End |-> <<>>]
        /\ heard = [e \in End |-> [so \in Side \X Option |-> "none"]]
        /\ asked = <<>> /\ told = [i \in Item |-> <<>>]
----------------------------------------------------------------------------
(* EscapingWriter::write, by the pump that feeds this end's socket.         *)
WriteData(e) == \E t \in Text :
                  /\ writes[e] < MaxWrites
                  /\ writes' = [writes EXCEPT ![e] = @ + 1]
                  /\ fed' = [fed EXCEPT ![e] = @ \o t]
                  /\ chan' = [chan EXCEPT ![Other(e)] = @ \o Escape(t)]
                  /\ UNCHANGED <<foreign, dec, table, askVars, lineVars, odd, out, heard,
                                 asked, told>>

ForeignSays == /\ foreign # "none" /\ odd < MaxForeign
               /\ \E m \in Foreign[foreign] : chan' = [chan EXCEPT ![Other(foreign)] = @ \o m]
               /\ odd' = odd + 1
               /\ UNCHANGED <<foreign, dec, table, askVars, lineVars, writes, fed, out,
                              heard, asked, told>>

(* Decoder::feed takes the next byte: the state it was in, the one it goes  *)
(* to, and what the end writes while it handles the byte.  The client takes *)
(* none while it is inside option_agreed.                                   *)
At(e, here) == chan[e] # <<>> /\ dec[e].at = here /\ ~(e = "client" /\ asking)
Byte(e) == Head(chan[e])
Sub(e) == dec[e].sub
To(e, there, sub) == dec' = [dec EXCEPT ![e] = [at |-> there, sub |-> sub]]
Post(e, bytes) == chan' = [chan EXCEPT ![e] = Tail(@), ![Other(e)] = @ \o bytes]
Quietly(e) == /\ Post(e, <<>>)
              /\ UNCHANGED <<foreign, table, askVars, lineVars, writes, odd, fed, heard,
                             asked, told>>

Payload(e) == /\ \/ At(e, "Data") /\ Byte(e) # IAC
                 \/ At(e, "Iac") /\ Byte(e) = IAC
              /\ To(e, "Data", Sub(e))
              /\ out' = [out EXCEPT ![e] = Append(@, Byte(e))]
              /\ Quietly(e)
Command(e) == /\ \/ At(e, "Data") /\ Byte(e) = IAC /\ To(e, "Iac", Sub(e))
                 \/ /\ At(e, "Iac") /\ Byte(e) # IAC
                    /\ To(e, AfterIac(Byte(e)), IF Byte(e) = SB THEN <<>> ELSE Sub(e))
              /\ UNCHANGED out
              /\ Quietly(e)
Collect(e) == /\ \/ At(e, "SubNeg") /\ Byte(e) = IAC /\ To(e, "SubNegIac", Sub(e))
                 \/ /\ At(e, "SubNeg") /\ Byte(e) # IAC
                    /\ To(e, "SubNeg", Append(Sub(e), Byte(e)))
                 \/ /\ At(e, "SubNegIac") /\ Byte(e) # SE    \* a doubled IAC, or malformed
                    /\ To(e, "SubNeg", IF Byte(e) = IAC THEN Append(Sub(e), IAC) ELSE Sub(e))
              /\ UNCHANGED out
              /\ Quietly(e)

(* on_will, on_wont, on_do, on_dont and answer: reply when the state of the *)
(* option changed; then, if it is the first agreement on COM-PORT, the      *)
(* client's option_agreed writes its settings (Ask).                        *)
Accepts(side, o) == o \in IF side = "us" THEN Offered ELSE Offered \cup {ECHO}
Verb(side, agree) == IF side = "us" THEN (IF agree = "yes" THEN WILL ELSE WONT)
                                    ELSE (IF agree = "yes" THEN DO ELSE DONT)
(* Slips: a verb on COM-PORT is always answered; a refusal is not sent.     *)
AnswerAlways(e, side, o, agree) ==
  IF table[e][<<side, o>>] = agree /\ o # COM_PORT THEN <<>> ELSE <<IAC, Verb(side, agree), o>>
AnswerIfAgreed(e, side, o, agree) ==
  IF table[e][<<side, o>>] = agree \/ agree = "no" THEN <<>> ELSE <<IAC, Verb(side, agree), o>>
Answer(e, side, o, agree) ==
  IF table[e][<<side, o>>] = agree THEN <<>> ELSE <<IAC, Verb(side, agree), o>>

Requests == FlattenSeq([i \in DOMAIN Settings |-> Subnegotiation(Settings[i][1], Settings[i][2])])
(* Slip: the client asks whenever the server agrees.                        *)
AgreedEveryTime(e, side, o, agree) == /\ e = "client" /\ o = COM_PORT
                                      /\ side = "us" /\ agree = "yes"
Agreed(e, side, o, agree) == /\ e = "client" /\ o = COM_PORT
                             /\ side = "us" /\ agree = "yes" /\ ~requested

(* A foreign end only listens: what it makes of a verb is not modelled.     *)
Negotiate(e) == \E v \in {"Will", "Wont", "Do", "Dont"} :
  LET side  == IF v \in {"Will", "Wont"} THEN "them" ELSE "us"
      o     == Byte(e)
      agree == IF v \in {"Will", "Do"} /\ Accepts(side, o) THEN "yes" ELSE "no"
      hears == IF v \in {"Will", "Do"} THEN "yes" ELSE "no"
      asks  == Ours(e) /\ Agreed(e, side, o, agree)
  IN /\ At(e, v)
     /\ To(e, "Data", Sub(e))
     /\ table' = IF Ours(e) THEN [table EXCEPT ![e][<<side, o>>] = agree] ELSE table
     /\ Post(e, IF Ours(e) THEN Answer(e, side, o, agree) ELSE <<>>)
     /\ requested' = (requested \/ asks) /\ asking' = (asking \/ asks)
     /\ heard' = [heard EXCEPT ![e][<<IF side = "us" THEN "them" ELSE "us", o>>] = hears]
     /\ invited' = (invited \/ (e = "client" /\ v = "Do" /\ o = COM_PORT))
     /\ UNCHANGED <<foreign, lineVars, writes, odd, fed, out, asked, told>>

Ask == /\ asking /\ asking' = FALSE
       /\ chan' = [chan EXCEPT !["server"] = @ \o Requests]
       /\ UNCHANGED <<foreign, dec, table, requested, invited, lineVars, writes, odd, fed, out,
                      heard, asked, told>>
----------------------------------------------------------------------------
(* ServerHandler: an item takes a value it knows, if the port does, and the *)
(* answer is what the item is then: read back from the port, or for an      *)
(* output from the record.  Anything else is a query.                       *)
First(p, default) == IF p = <<>> THEN <<default>> ELSE <<p[1]>>
Value(i, p) == IF i[1] = 1 THEN SubSeq(p, 1, 4) ELSE SubSeq(p, 1, 1)
IsValue(i, p) == CASE i[1] = 1 -> Len(p) >= 4 /\ SubSeq(p, 1, 4) # <<0, 0, 0, 0>>
                   [] i[1] = 2 -> p # <<>> /\ p[1] \in 5..8
                   [] i[1] = 3 -> p # <<>> /\ p[1] \in 1..3
                   [] i[1] = 4 -> p # <<>> /\ p[1] \in 1..2
                   [] i[1] = 5 -> p # <<>> /\ p[1] # i[2]
Report(cmd, payload) == Subnegotiation(cmd + 100, payload)

Known(l, r, i) == IF i \in Pin THEN r[i] ELSE l[i]
Change(i, p) == /\ line' = [line EXCEPT ![i] = Value(i, p)]
                /\ record' = IF i \in Pin THEN [record EXCEPT ![i] = Value(i, p)] ELSE record
                /\ driven' = driven \cup ({i} \cap Pin)

(* Slip: a setting is confirmed, not read back.                             *)
SetEchoes(i, p, works) ==
  /\ IF IsValue(i, p) /\ works THEN Change(i, p) ELSE UNCHANGED lineVars
  /\ Post("server", Report(i[1], IF IsValue(i, p) THEN Value(i, p) ELSE Known(line, record, i)))
Set(i, p, works) ==
  /\ IF IsValue(i, p) /\ works THEN Change(i, p) ELSE UNCHANGED lineVars
  /\ Post("server", Report(i[1], Known(line', record', i)))

(* A SET-CONTROL of another kind, a mask, a purge, a flow command and a     *)
(* signature leave the line alone.                                          *)
Plain(cmd, p) == CASE cmd = 0 /\ p = <<>> -> Report(cmd, <<115>>)
                   [] cmd = 5 /\ p # <<>> -> Report(cmd, <<p[1]>>)
                   [] cmd \in {8, 9} -> Report(cmd, <<>>)
                   [] cmd = 10 -> Report(cmd, First(p, 0))
                   [] cmd = 11 -> Report(cmd, First(p, 255))
                   [] cmd = 12 -> Report(cmd, First(p, 3))
                   [] OTHER -> <<>>

Serve(cmd, p) ==
  \/ cmd \in 1..4 /\ \E works \in BOOLEAN : Set(<<cmd, 0>>, p, works)
  \/ /\ cmd = 5 /\ p # <<>> /\ p[1] \in 0..12
     /\ \E works \in BOOLEAN : Set(<<5, Group(p[1])>>, p, works)
  \/ /\ cmd \notin 1..4 /\ ~(cmd = 5 /\ p # <<>> /\ p[1] \in 0..12)
     /\ Post("server", Plain(cmd, p)) /\ UNCHANGED lineVars
ServerGets(cmd, p) ==
  /\ asked' = Append(asked, <<cmd>> \o p)
  /\ IF Ours("server") THEN Serve(cmd, p) ELSE Post("server", <<>>) /\ UNCHANGED lineVars
  /\ UNCHANGED told

(* The client (either one) only takes note of an answer.                    *)
ClientGets(cmd, p) ==
  /\ told' = IF cmd \in 101..104 THEN [told EXCEPT ![<<cmd - 100, 0>>] = p]
             ELSE IF cmd = 105 /\ p # <<>> /\ p[1] \in 0..12
                  THEN [told EXCEPT ![<<5, Group(p[1])>>] = p] ELSE told
  /\ Post("client", <<>>)
  /\ UNCHANGED <<lineVars, asked>>

(* dispatch_subnegotiation                                                  *)
Dispatch(e) ==
  /\ At(e, "SubNegIac") /\ Byte(e) = SE
  /\ To(e, "Data", <<>>)
  /\ LET s == Sub(e) IN
     \/ /\ Len(s) >= 2 /\ s[1] = COM_PORT
        /\ \/ e = "server" /\ ServerGets(s[2], SubSeq(s, 3, Len(s)))
           \/ e = "client" /\ ClientGets(s[2], SubSeq(s, 3, Len(s)))
     \/ /\ ~(Len(s) >= 2 /\ s[1] = COM_PORT)
        /\ Post(e, <<>>) /\ UNCHANGED <<lineVars, asked, told>>
  /\ UNCHANGED <<foreign, table, askVars, writes, odd, fed, out, heard>>

Feed(e) == Payload(e) \/ Command(e) \/ Collect(e) \/ Negotiate(e) \/ Dispatch(e)
Next == ForeignSays \/ Ask \/ \E e \in End : WriteData(e) \/ Feed(e)

(* A reader that has bytes reads them, and writes what it has begun to.     *)
(* Pumps and foreign ends owe nothing.                                      *)
Spec == Init /\ [][Next]_vars
FairSpec == Spec /\ WF_vars(Ask) /\ \A e \in End : WF_vars(Feed(e))
----------------------------------------------------------------------------
Quiet == ~asking /\ \A e \in End : chan[e] = <<>>

(* Whatever is said, the stream to an end stops on a message boundary: the  *)
(* rest of it would leave the decoder in the Data state (codec.rs:13-16).   *)
Inv == /\ TypeOK
       /\ \A e \in End : Reads([at |-> dec[e].at, data |-> out[e]], chan[e]).at = "Data"

(* The payload comes out as it went in, byte for byte, whatever negotiation *)
(* and settings pass between (codec.rs:329, tests codec.rs:444).            *)
Lossless == \A e \in End : /\ IsPrefix(out[e], fed[Other(e)])
                           /\ chan[e] = <<>> => out[e] = fed[Other(e)]

(* Once nothing is under way both ends have the same picture: each verb an  *)
(* end got last is what the other has on record, so that a reply left out   *)
(* (codec.rs:242-258) was one the other end did not need.                   *)
Settled == Quiet => \A e \in End, s \in Side, o \in Option :
             Ours(e) => heard[Other(e)][<<s, o>>] = table[e][<<s, o>>]

(* The client's settings reach the server once, whole and in order, however *)
(* often the server agrees to COM-PORT and goes back on it, never one that  *)
(* did not agree, and always one that did: a server of this program always  *)
(* does (codec.rs:231, comport.rs:433-437, client.rs:82).                   *)
SettingsOnce == Ours("client") =>
  /\ IsPrefix(asked, [i \in DOMAIN Settings |-> <<Settings[i][1]>> \o Settings[i][2]])
  /\ asked # <<>> => invited
  /\ Quiet /\ (invited \/ foreign = "none") => Len(asked) = Len(Settings)

(* What the client was last told of an item of the line is what the line    *)
(* has, even when the port refused what was asked (comport.rs:42-43).  Of an*)
(* output that this session has not changed the record knows nothing        *)
(* (comport.rs:69-71), whatever the client is told.                         *)
ReportsTheLine == Ours("server") /\ Quiet =>
  \A i \in Item \ (Pin \ driven) : told[i] # <<>> => told[i] = line[i]

(* Negotiation ends (codec.rs:242-244).                                     *)
QuietsDown == <>[]Quiet
====
