---- MODULE Bridge ----
(***************************************************************************)
(* serve_on and the bridge under it (src/src/server.rs, src/src/bridge.rs, *)
(* src/src/endpoint.rs) for raw clients: sessions one after the other on   *)
(* one device, each with two pump threads, a shutdown flag and a channel   *)
(* on which a pump reports its end.  "up" is device to client, "down"      *)
(* client to device.  A byte is its number in the stream it comes from.    *)
(* Time is left out: the reads wake up every IO_TIMEOUT, so DRAIN_GRACE    *)
(* runs out only on a pump held in a write: to a socket that is full, or to*)
(* a device that takes 4096 bytes more slowly than that.                   *)
(***************************************************************************)
EXTENDS Integers, Sequences, FiniteSets, Functions

CONSTANTS MaxSession, \* clients, served in this order
          Room,       \* bytes a client's socket takes before writes block
          MaxTraffic  \* bound: bytes the device says and the clients send

ASSUME BridgeAssumption == /\ MaxSession \in Nat /\ Room \in Nat \ {0}
                           /\ MaxTraffic \in Nat

Session == 1..MaxSession
Dir == {"up", "down"}

VARIABLES phase,   \* serve_on: "accept", "recv", "drain", "stopped"
          cur,     \* the last session begun
          flag,    \* its `shutdown`
          mail,    \* its channel (tx, rx)
          stats,   \* what bridge() returns
          pump,    \* where each pump thread is
          held,    \* buf[..n] of each pump
          put,     \* how much of it is written
          total,   \* what each pump transferred
          line,    \* the device's input buffer
          said,    \* bytes the device has said
          from,    \* history: of which a session's client was too late for these
          wire,    \* history: the bytes the device was sent, by whom
          client,  \* "away", "here", "half" (no more to send), "gone"
          sent,    \* bytes each client has sent
          toDev,   \* those the server has not read yet
          toCli,   \* bytes in each client's socket
          got      \* history: bytes each client has read

serveVars  == <<phase, cur, stats>>
pumpVars   == <<pump, held, put, total>>
deviceVars == <<line, said, from, wire>>
clientVars == <<client, sent, toDev, toCli, got>>
vars == <<serveVars, flag, mail, pumpVars, deviceVars, clientVars>>

Both(x) == [s \in Session |-> [d \in Dir |-> x]]
Init == /\ phase = "accept" /\ cur = 0 /\ stats = Both(0)
        /\ flag = [s \in Session |-> FALSE] /\ mail = [s \in Session |-> <<>>]
        /\ pump = Both("off") /\ held = Both(<<>>) /\ put = Both(0) /\ total = Both(0)
        /\ line = <<>> /\ said = 0 /\ from = [s \in Session |-> 0] /\ wire = <<>>
        /\ client = [s \in Session |-> "away"] /\ sent = [s \in Session |-> 0]
        /\ toDev = [s \in Session |-> <<>>] /\ toCli = [s \in Session |-> <<>>]
        /\ got = [s \in Session |-> <<>>]
----------------------------------------------------------------------------
(* serve_on: accept, clear the device's buffers, start the two pumps.  If   *)
(* the clear fails, the client is served with what is left in the line.     *)
Clear == line' \in {<<>>, line}
Accept == /\ phase = "accept" /\ cur < MaxSession /\ client[cur + 1] # "away"
          /\ cur' = cur + 1 /\ phase' = "recv"
          /\ Clear /\ from' = [from EXCEPT ![cur + 1] = said - Len(line')]
          /\ pump' = [pump EXCEPT ![cur + 1] = [d \in Dir |-> "check"]]
          /\ UNCHANGED <<stats, flag, mail, held, put, total, said, wire, clientVars>>

(* A handle cannot be cloned, or the socket not be set up: `session(..)?`   *)
(* leaves the loop, and with it the server.                                 *)
SessionFails == /\ phase = "accept" /\ cur < MaxSession /\ client[cur + 1] # "away"
                /\ phase' = "stopped" /\ Clear
                /\ UNCHANGED <<cur, stats, flag, mail, pumpVars, said, from, wire, clientVars>>

(* bridge: rx.recv(), shutdown.store(true), rx.recv_timeout(DRAIN_GRACE).   *)
Record == /\ mail[cur] # <<>>
          /\ mail' = [mail EXCEPT ![cur] = Tail(@)]
          /\ stats' = [stats EXCEPT ![cur][Head(mail[cur]).dir] = Head(mail[cur]).n]
          /\ UNCHANGED <<cur, pumpVars, deviceVars, clientVars>>
First == /\ phase = "recv" /\ phase' = "drain"
         /\ flag' = [flag EXCEPT ![cur] = TRUE]
         /\ Record
Second == phase = "drain" /\ phase' = "accept" /\ Record /\ UNCHANGED flag

(* The grace runs out on a pump held in a write, and it is detached.        *)
ExpireOn(stuck) ==
  /\ phase = "drain" /\ mail[cur] = <<>> /\ stuck # {}
  /\ phase' = "accept"
  /\ UNCHANGED <<cur, stats, flag, mail, pumpVars, deviceVars, clientVars>>
Writing == {d \in Dir : pump[cur][d] = "writing"}
(* Slip: no end to the wait.                                                *)
ExpireNever == ExpireOn({})
Expire == ExpireOn(Writing)
----------------------------------------------------------------------------
Step(s, d, here, there) == /\ pump[s][d] = here
                           /\ pump' = [pump EXCEPT ![s][d] = there]

(* pump: while !shutdown.load().                                            *)
CheckAs(s, d, stop) ==
  /\ Step(s, d, "check", IF stop THEN "over" ELSE "reading")
  /\ UNCHANGED <<serveVars, flag, mail, held, put, total, deviceVars, clientVars>>
(* Slip: the loop ends only on an end of its own stream.                    *)
CheckNothing(s, d) == CheckAs(s, d, FALSE)
Check(s, d) == CheckAs(s, d, flag[s])

Source(s, d) == IF d = "up" THEN line ELSE toDev[s]

(* reader.read: some of what is there, up to all of it.                     *)
ReadBytes(s, d) ==
  \E n \in 1..Len(Source(s, d)) :
    /\ Step(s, d, "reading", "writing")
    /\ held' = [held EXCEPT ![s][d] = SubSeq(Source(s, d), 1, n)]
    /\ IF d = "up" THEN /\ line' = SubSeq(line, n + 1, Len(line))
                        /\ UNCHANGED toDev
       ELSE /\ toDev' = [toDev EXCEPT ![s] = SubSeq(@, n + 1, Len(@))]
            /\ UNCHANGED line
    /\ UNCHANGED <<serveVars, flag, mail, put, total, said, from, wire, client, sent, toCli, got>>

(* It timed out: the line is idle, go round again.                          *)
Finished(s) == client[s] = "gone" \/ (client[s] = "half" /\ toDev[s] = <<>>)
Idle(s, d) == /\ Source(s, d) = <<>> /\ (d = "down" => ~Finished(s))
              /\ Step(s, d, "reading", "check")
              /\ UNCHANGED <<serveVars, flag, mail, held, put, total, deviceVars, clientVars>>

(* The client sends no more, or its socket is dead, or the device fails.    *)
ReadEnds(s, d) == /\ d = "down" => Finished(s)
                  /\ Step(s, d, "reading", "over")
                  /\ UNCHANGED <<serveVars, flag, mail, held, put, total, deviceVars, clientVars>>

(* writer.write_all, byte by byte: into the socket while it has room, or to *)
(* the device.                                                              *)
Unwritten(s, d) == put[s][d] < Len(held[s][d])
NextByte(s, d) == held[s][d][put[s][d] + 1]
WriteUp(s) ==
  /\ pump[s]["up"] = "writing" /\ Unwritten(s, "up")
  /\ client[s] # "gone" /\ Len(toCli[s]) < Room
  /\ toCli' = [toCli EXCEPT ![s] = Append(@, NextByte(s, "up"))]
  /\ put' = [put EXCEPT ![s]["up"] = @ + 1]
  /\ UNCHANGED <<serveVars, flag, mail, pump, held, total, deviceVars, client, sent, toDev, got>>
WriteDown(s) ==
  /\ pump[s]["down"] = "writing" /\ Unwritten(s, "down")
  /\ wire' = Append(wire, [by |-> s, n |-> NextByte(s, "down")])
  /\ put' = [put EXCEPT ![s]["down"] = @ + 1]
  /\ UNCHANGED <<serveVars, flag, mail, pump, held, total, line, said, from, clientVars>>

(* The chunk is written and flushed.                                        *)
Flushed(s, d) ==
  /\ ~Unwritten(s, d) /\ Step(s, d, "writing", "check")
  /\ total' = [total EXCEPT ![s][d] = @ + Len(held[s][d])]
  /\ held' = [held EXCEPT ![s][d] = <<>>] /\ put' = [put EXCEPT ![s][d] = 0]
  /\ UNCHANGED <<serveVars, flag, mail, deviceVars, clientVars>>

(* The socket is dead, or the device times out or fails: the rest of the    *)
(* chunk is lost and not counted.                                           *)
WriteFailsTo(s, d, there, n) ==
  /\ d = "up" => client[s] = "gone"
  /\ Step(s, d, "writing", there)
  /\ total' = [total EXCEPT ![s][d] = @ + n]
  /\ held' = [held EXCEPT ![s][d] = <<>>] /\ put' = [put EXCEPT ![s][d] = 0]
  /\ UNCHANGED <<serveVars, flag, mail, deviceVars, clientVars>>
(* Slips: a chunk is counted when it is read; a failed write is a timeout.  *)
WriteFailsCounted(s, d) == WriteFailsTo(s, d, "over", Len(held[s][d]))
WriteFailsIdle(s, d) == WriteFailsTo(s, d, "check", 0)
WriteFails(s, d) == WriteFailsTo(s, d, "over", 0)

(* spawn_pump: raise the flag, then report.                                 *)
Over(s, d) == /\ Step(s, d, "over", "telling")
              /\ flag' = [flag EXCEPT ![s] = TRUE]
              /\ UNCHANGED <<serveVars, mail, held, put, total, deviceVars, clientVars>>
Tell(s, d) == /\ Step(s, d, "telling", "done")
              /\ mail' = [mail EXCEPT ![s] = Append(@, [dir |-> d, n |-> total[s][d]])]
              /\ UNCHANGED <<serveVars, flag, held, put, total, deviceVars, clientVars>>
----------------------------------------------------------------------------
(* The device and the clients, which the code does not control.  What a     *)
(* client sends before it is accepted is in its socket as if sent after.    *)
Traffic == said + SumFunction(sent)
DeviceSays == /\ Traffic < MaxTraffic
              /\ said' = said + 1 /\ line' = Append(line, said + 1)
              /\ UNCHANGED <<serveVars, flag, mail, pumpVars, from, wire, clientVars>>
ClientIs(s, before, after) ==
  /\ client[s] \in before /\ client' = [client EXCEPT ![s] = after]
  /\ UNCHANGED <<serveVars, flag, mail, pumpVars, deviceVars, sent, toDev, toCli, got>>
Connect(s) == s <= cur + 1 /\ ClientIs(s, {"away"}, "here")
HalfClose(s) == s <= cur /\ ClientIs(s, {"here"}, "half")
Leave(s) == ClientIs(s, {"here", "half"}, "gone")
Send(s) == /\ s <= cur /\ client[s] = "here" /\ Traffic < MaxTraffic
           /\ sent' = [sent EXCEPT ![s] = @ + 1]
           /\ toDev' = [toDev EXCEPT ![s] = Append(@, sent[s] + 1)]
           /\ UNCHANGED <<serveVars, flag, mail, pumpVars, deviceVars, client, toCli, got>>
Take(s) == /\ client[s] \in {"here", "half"} /\ toCli[s] # <<>>
           /\ got' = [got EXCEPT ![s] = Append(@, Head(toCli[s]))]
           /\ toCli' = [toCli EXCEPT ![s] = Tail(@)]
           /\ UNCHANGED <<serveVars, flag, mail, pumpVars, deviceVars, client, sent, toDev>>

Serve == First \/ Second \/ Expire
Pump(s, d) == \/ Check(s, d) \/ ReadBytes(s, d) \/ Idle(s, d) \/ ReadEnds(s, d)
              \/ Flushed(s, d) \/ WriteFails(s, d) \/ Over(s, d) \/ Tell(s, d)
              \/ (d = "up" /\ WriteUp(s)) \/ (d = "down" /\ WriteDown(s))
World(s) == Connect(s) \/ HalfClose(s) \/ Leave(s) \/ Send(s) \/ Take(s)
Next == \/ Accept \/ SessionFails \/ Serve \/ DeviceSays
        \/ \E s \in Session : World(s) \/ \E d \in Dir : Pump(s, d)

Spec == Init /\ [][Next]_vars
(* Threads run when they can.  Nothing is asked of clients or the device's  *)
(* readings; a read of a dead or finished socket ends at once.              *)
FairSpec == /\ Spec /\ WF_vars(Serve)
            /\ \A s \in Session, d \in Dir : WF_vars(Pump(s, d))
----------------------------------------------------------------------------
PumpState == {"off", "check", "reading", "writing", "over", "telling", "done"}
TypeOK ==
  /\ phase \in {"accept", "recv", "drain", "stopped"} /\ cur \in 0..MaxSession
  /\ flag \in [Session -> BOOLEAN] /\ mail \in [Session -> Seq([dir : Dir, n : Nat])]
  /\ stats \in [Session -> [Dir -> Nat]] /\ pump \in [Session -> [Dir -> PumpState]]
  /\ held \in [Session -> [Dir -> Seq(Nat)]] /\ put \in [Session -> [Dir -> Nat]]
  /\ total \in [Session -> [Dir -> Nat]]
  /\ line \in Seq(Nat) /\ said \in Nat /\ from \in [Session -> Nat]
  /\ wire \in Seq([by : Session, n : Nat])
  /\ client \in [Session -> {"away", "here", "half", "gone"}] /\ sent \in [Session -> Nat]
  /\ toDev \in [Session -> Seq(Nat)] /\ toCli \in [Session -> Seq(Nat)]
  /\ got \in [Session -> Seq(Nat)]

Returned(s) == s < cur \/ (s = cur /\ phase \in {"accept", "stopped"})
Ended == {"over", "telling", "done"}

(* When bridge() has returned, the flag is up and what may be left of the   *)
(* session is one thread, which is writing its last chunk and reads nothing *)
(* more.                                                                    *)
Leaving == {"writing", "check"} \cup Ended
Detached == \A s \in Session : Returned(s) =>
              /\ flag[s] /\ \E d \in Dir : pump[s][d] = "done"
              /\ \A d \in Dir : pump[s][d] \in Leaving
(* A pump ends for a reason the other one is told of.                       *)
Told == \A s \in Session, d \in Dir : pump[s][d] \in {"telling", "done"} => flag[s]
(* Where on the wire, up to its k-th byte, are those of s's client.         *)
BytesOf(s, k) == {i \in 1..k : wire[i].by = s}

(* When a pump has reported, what the session says it transferred was       *)
(* written; it may leave out the chunk on which the pump failed.            *)
CountsWhatWasWritten ==
  \A s \in Session : Returned(s) =>
    /\ stats[s]["up"] <= Len(got[s]) + Len(toCli[s])
    /\ stats[s]["down"] <= Cardinality(BytesOf(s, Len(wire)))
    /\ \A d \in Dir : pump[s][d] = "done" /\ mail[s] = <<>> => stats[s][d] = total[s][d]
Inv == TypeOK /\ Detached /\ Told /\ CountsWhatWasWritten

Consecutive(q) == \A i \in 1..Len(q) - 1 : q[i + 1] = q[i] + 1

Arriving(s) == got[s] \o toCli[s] \o
  (IF pump[s]["up"] = "writing" THEN SubSeq(held[s]["up"], put[s]["up"] + 1, Len(held[s]["up"]))
   ELSE <<>>)
Bridged(s) == s = cur /\ phase = "recv" /\ pump[s]["up"] \in {"check", "reading", "writing"}

(* A client gets one unbroken stretch of what the device says, from the     *)
(* first byte after it was accepted (or, where the clear failed, the first  *)
(* nobody read): none is lost, repeated, reordered or taken by the thread of*)
(* a client before it.  What a client sends reaches the device in order and *)
(* without a gap (large_transfer_arrives_intact in src/tests/loopback.rs).  *)
Intact == \A s \in 1..cur :
  /\ Consecutive(<<from[s]>> \o Arriving(s) \o
                 (IF Bridged(s) THEN line \o <<said + 1>> ELSE <<>>))
  /\ \A i \in BytesOf(s, Len(wire)) : wire[i].n = Cardinality(BytesOf(s, i))

(* "Only one client is bridged at a time - two writers on one serial line   *)
(* would interleave into garbage" (server.rs:69-70) is not so of a pump the *)
(* grace ran out on in a write to a slow device.  What holds in its place   *)
(* (bridge.rs:68-76, 104): the bytes a client's thread writes after those of*)
(* a later client are of the one chunk it held when its session returned.   *)
InLastChunk(s, n) == \/ pump[s]["down"] \in {"check"} \cup Ended
                     \/ pump[s]["down"] = "writing" /\ n > total[s]["down"]
OneChunkLate == \A i, j \in DOMAIN wire :
  i < j /\ wire[j].by < wire[i].by => InLastChunk(wire[j].by, wire[j].n)

(* Ending in either direction ends the session, whatever the client does    *)
(* (bridge.rs 62-76, 89).                                                   *)
EndingEndsSession ==
  \A s \in Session : (\E d \in Dir : pump[s][d] = "over") ~> Returned(s)

(* Nothing of a session outlives its client.                                *)
NoThreadLeft ==
  \A s \in Session : (client[s] = "gone" /\ s <= cur) ~> \A d \in Dir : pump[s][d] \in {"off", "done"}
====
