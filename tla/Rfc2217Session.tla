---- MODULE Rfc2217Session ----
(***************************************************************************)
(* One RFC 2217 session on the server: rfc2217_session                     *)
(* (src/src/server.rs) with the two pumps of bridge (src/src/bridge.rs),   *)
(* the TelnetReader and EscapingWriter around the socket                   *)
(* (src/src/rfc2217/codec.rs) and the modem notifier                       *)
(* (src/src/rfc2217/comport.rs).  Three threads write to one socket under  *)
(* one lock, the SharedWriter.  A message is two halves, the first and the *)
(* rest of its bytes.  What the client sends are items, numbered: "data",  *)
(* or "set", anything the handler acts on and answers.  A client is "gone" *)
(* once its reset or the dashboard's shutdown of the socket has arrived.   *)
(* Time is left out, as in Bridge.                                         *)
(***************************************************************************)
EXTENDS Integers, Sequences

CONSTANTS Room,       \* halves the client's socket takes before writes block
          MaxSaid,    \* bound: chunks the device says
          MaxSent,    \* bound: items the client sends
          MaxReports  \* bound: changes of the modem lines

ASSUME SessionAssumption == /\ Room \in Nat \ {0}
                            /\ MaxSaid \in Nat /\ MaxSent \in Nat /\ MaxReports \in Nat

Dir == {"up", "down"}
Thread == Dir \cup {"notifier"}
Item == [n : Nat, is : {"data", "set"}]
Half == [by : Thread, n : Nat, part : {1, 2}]

VARIABLES main,     \* where rfc2217_session is
          flag,     \* bridge's `shutdown`
          mail,     \* the pumps that have reported on its channel
          stop,     \* stop_notifier
          at,       \* where each thread is
          lock,     \* who has the SharedWriter, or "free"
          said,     \* chunks the device has said
          reports,  \* changes the notifier has seen
          chunk,    \* raw[..n], what the decoder has still to take
          pend,     \* TelnetReader's data, then the pump's buf
          dev,      \* history: what the device was given, in order
          broken,   \* history: a read from, or a write to, the device failed
          client,   \* "here", "half" (no more to send), "gone"
          sent,     \* items the client has sent
          toSrv,    \* those not read yet
          toCli,    \* halves in the client's socket
          got       \* history: halves the client has read

mainVars   == <<main, mail, stop>>
deviceVars == <<said, reports, dev, broken>>
clientVars == <<client, sent, toSrv, toCli, got>>
vars == <<mainVars, flag, at, lock, chunk, pend, deviceVars, clientVars>>

Init == /\ main = "setup" /\ flag = FALSE /\ mail = {} /\ stop = FALSE
        /\ at = [t \in Thread |-> "off"] /\ lock = "free"
        /\ said = 0 /\ reports = 0 /\ chunk = <<>> /\ pend = <<>>
        /\ dev = <<>> /\ broken = FALSE
        /\ client = "here" /\ sent = 0 /\ toSrv = <<>> /\ toCli = <<>> /\ got = <<>>
----------------------------------------------------------------------------
(* rfc2217_session: a socket option or the first clone of the port fails;   *)
(* the notifier is spawned; the second clone fails; bridge starts its pumps.*)
MainStep(here, there) == /\ main = here /\ main' = there
                         /\ UNCHANGED <<lock, chunk, pend, deviceVars, clientVars>>
SetupFails == MainStep("setup", "failed") /\ UNCHANGED <<flag, mail, stop, at>>
SpawnNotifier == /\ MainStep("setup", "spawned") /\ at' = [at EXCEPT !["notifier"] = "check"]
                 /\ UNCHANGED <<flag, mail, stop>>
ControlFails == MainStep("spawned", "failed") /\ UNCHANGED <<flag, mail, stop, at>>
StartBridge == /\ MainStep("spawned", "recv")
               /\ at' = [t \in Thread |-> IF t \in Dir THEN "check" ELSE at[t]]
               /\ UNCHANGED <<flag, mail, stop>>

(* bridge: the first report, the second, or the end of the grace.           *)
First == /\ mail # {} /\ MainStep("recv", "grace") /\ flag' = TRUE
         /\ UNCHANGED <<mail, stop, at>>
Second == mail = Dir /\ MainStep("grace", "ended") /\ UNCHANGED <<flag, mail, stop, at>>

(* A pump outlasts the grace behind a full socket, or inside                *)
(* TelnetReader::read, which does not see the flag, while the client keeps  *)
(* control traffic coming.                                                  *)
SocketFull == client # "gone" /\ Len(toCli) >= Room
Busy(d) == \/ /\ at[d] \in {"want", "first", "second", "flush"}
              /\ lock # "free" /\ SocketFull
           \/ at[d] = "again" /\ client = "here"
ExpireOn(stuck) == /\ stuck \ mail # {} /\ MainStep("grace", "ended")
                   /\ UNCHANGED <<flag, mail, stop, at>>
(* Slip: bridge waits for both, however long.                               *)
ExpireNever == ExpireOn({})
Expire == ExpireOn({d \in Dir : Busy(d)})

StopTo(v) == MainStep("ended", "join") /\ stop' = v /\ UNCHANGED <<flag, mail, at>>
(* Slip: the notifier is joined and not told.                               *)
StopNobody == StopTo(FALSE)
StopNotifier == StopTo(TRUE)
(* Slip: the notifier is told and not joined.                               *)
JoinNobody == MainStep("join", "returned") /\ UNCHANGED <<flag, mail, stop, at>>
Join == /\ at["notifier"] = "done"
        /\ MainStep("join", "returned") /\ UNCHANGED <<flag, mail, stop, at>>
----------------------------------------------------------------------------
Step(t, here, there) == at[t] = here /\ at' = [at EXCEPT ![t] = there]

(* while !shutdown, while !stop                                             *)
CheckAs(t, over) ==
  /\ Step(t, "check", IF over THEN (IF t \in Dir THEN "over" ELSE "done") ELSE "reading")
  /\ UNCHANGED <<mainVars, flag, lock, chunk, pend, deviceVars, clientVars>>
Check(t) == CheckAs(t, IF t \in Dir THEN flag ELSE stop)

(* The pump's read of the device: a chunk, nothing for one timeout, or a    *)
(* fault.                                                                   *)
ReadDevice == /\ said < MaxSaid /\ said' = said + 1 /\ Step("up", "reading", "want")
              /\ UNCHANGED <<mainVars, flag, lock, chunk, pend, reports, dev, broken, clientVars>>
IdleDevice == /\ Step("up", "reading", "check")
              /\ UNCHANGED <<mainVars, flag, lock, chunk, pend, deviceVars, clientVars>>
DeviceEnds == /\ Step("up", "reading", "over") /\ broken' = TRUE
              /\ UNCHANGED <<mainVars, flag, lock, chunk, pend, said, reports, dev, clientVars>>

(* The notifier samples the lines: no change, or one to report.             *)
SampleSame == /\ Step("notifier", "reading", "check")
              /\ UNCHANGED <<mainVars, flag, lock, chunk, pend, deviceVars, clientVars>>
SampleChange == /\ reports < MaxReports /\ reports' = reports + 1
                /\ Step("notifier", "reading", "want")
                /\ UNCHANGED <<mainVars, flag, lock, chunk, pend, said, dev, broken, clientVars>>

(* TelnetReader::read: some of what is there; a timeout; the end.           *)
ReadSocket == /\ at["down"] \in {"reading", "again"}
              /\ \E n \in 1..Len(toSrv) :
                   /\ chunk' = SubSeq(toSrv, 1, n)
                   /\ toSrv' = SubSeq(toSrv, n + 1, Len(toSrv))
              /\ at' = [at EXCEPT !["down"] = "feed"]
              /\ UNCHANGED <<mainVars, flag, lock, pend, deviceVars, client, sent, toCli, got>>
IdleSocket == /\ at["down"] \in {"reading", "again"} /\ toSrv = <<>> /\ client = "here"
              /\ at' = [at EXCEPT !["down"] = "check"]
              /\ UNCHANGED <<mainVars, flag, lock, chunk, pend, deviceVars, clientVars>>
SocketEnds == /\ at["down"] \in {"reading", "again"}
              /\ client = "gone" \/ (client = "half" /\ toSrv = <<>>)
              /\ at' = [at EXCEPT !["down"] = "over"]
              /\ UNCHANGED <<mainVars, flag, lock, chunk, pend, deviceVars, clientVars>>
----------------------------------------------------------------------------
(* Decoder::feed: data is set aside; a setting is applied to the port and   *)
(* answered at once.  A chunk without data is followed by another read, one *)
(* with data by the pump's write to the device.                             *)
FeedData == /\ at["down"] = "feed" /\ chunk # <<>> /\ Head(chunk).is = "data"
            /\ pend' = Append(pend, Head(chunk)) /\ chunk' = Tail(chunk)
            /\ UNCHANGED <<mainVars, flag, at, lock, deviceVars, clientVars>>
FeedSet == /\ chunk # <<>> /\ Head(chunk).is = "set" /\ Step("down", "feed", "want")
           /\ dev' = Append(dev, Head(chunk))
           /\ UNCHANGED <<mainVars, flag, lock, chunk, pend, said, reports, broken, clientVars>>
FedTo(there) == /\ chunk = <<>> /\ Step("down", "feed", there)
                /\ UNCHANGED <<mainVars, flag, lock, chunk, pend, deviceVars, clientVars>>
Fed == FedTo(IF pend = <<>> THEN "again" ELSE "apply")

(* write_all and flush to the device; or a part of it, and the pump's end.  *)
ApplyKeeping(rest) ==
  /\ Step("down", "apply", "check") /\ dev' = dev \o pend /\ pend' = rest
  /\ UNCHANGED <<mainVars, flag, lock, chunk, said, reports, broken, clientVars>>
(* Slip: `data` is not cleared before the next read.                        *)
ApplyAgain == ApplyKeeping(pend)
Apply == ApplyKeeping(<<>>)
ApplyFails == /\ Step("down", "apply", "over") /\ broken' = TRUE
              /\ \E n \in 0..Len(pend) : dev' = dev \o SubSeq(pend, 1, n)
              /\ pend' = <<>>
              /\ UNCHANGED <<mainVars, flag, lock, chunk, said, reports, clientVars>>

(* write_raw: take the lock, write_all both halves, let go.                 *)
Number(t) == CASE t = "up" -> said [] t = "notifier" -> reports
               [] t = "down" -> IF chunk = <<>> THEN 0 ELSE Head(chunk).n
LockIf(t, free) == /\ free /\ Step(t, "want", "first") /\ lock' = t
                   /\ UNCHANGED <<mainVars, flag, chunk, pend, deviceVars, clientVars>>
(* Slip: the writers have the socket, and no lock.                          *)
LockNothing(t) == LockIf(t, TRUE)
Lock(t) == LockIf(t, lock = "free")
Put(t, part) == /\ client # "gone" /\ Len(toCli) < Room
                /\ toCli' = Append(toCli, [by |-> t, n |-> Number(t), part |-> part])
                /\ UNCHANGED <<mainVars, flag, pend, deviceVars, client, sent, toSrv, got>>
WriteFirst(t) == /\ Step(t, "first", "second") /\ Put(t, 1) /\ UNCHANGED <<lock, chunk>>
WriteRest(t) ==
  /\ Put(t, 2) /\ lock' = "free"
  /\ Step(t, "second", CASE t = "up" -> "flush" [] t = "down" -> "feed" [] OTHER -> "check")
  /\ chunk' = IF t = "down" THEN Tail(chunk) ELSE chunk

(* The socket is dead: a pump ends, with what it had decoded; the notifier  *)
(* breaks its loop.                                                         *)
WriteFails(t) ==
  /\ at[t] \in {"first", "second"} /\ client = "gone" /\ lock' = "free"
  /\ at' = [at EXCEPT ![t] = IF t \in Dir THEN "over" ELSE "done"]
  /\ IF t = "down" THEN chunk' = <<>> /\ pend' = <<>> ELSE UNCHANGED <<chunk, pend>>
  /\ UNCHANGED <<mainVars, flag, deviceVars, clientVars>>

(* EscapingWriter::flush takes the lock once more.                          *)
Flush == /\ lock = "free" /\ Step("up", "flush", "check")
         /\ UNCHANGED <<mainVars, flag, lock, chunk, pend, deviceVars, clientVars>>

(* spawn_pump: raise the flag and report.                                   *)
Tell(d) == /\ Step(d, "over", "done") /\ flag' = TRUE /\ mail' = mail \cup {d}
           /\ UNCHANGED <<main, stop, lock, chunk, pend, deviceVars, clientVars>>
----------------------------------------------------------------------------
(* The client, which the code does not control.                             *)
ClientIs(before, after) ==
  /\ client \in before /\ client' = after
  /\ UNCHANGED <<mainVars, flag, at, lock, chunk, pend, deviceVars, sent, toSrv, toCli, got>>
HalfClose == ClientIs({"here"}, "half")
Leave == ClientIs({"here", "half"}, "gone")
Send == /\ client = "here" /\ sent < MaxSent /\ sent' = sent + 1
        /\ \E k \in {"data", "set"} : toSrv' = Append(toSrv, [n |-> sent + 1, is |-> k])
        /\ UNCHANGED <<mainVars, flag, at, lock, chunk, pend, deviceVars, client, toCli, got>>
Take == /\ client # "gone" /\ toCli # <<>>
        /\ got' = Append(got, Head(toCli)) /\ toCli' = Tail(toCli)
        /\ UNCHANGED <<mainVars, flag, at, lock, chunk, pend, deviceVars, client, sent, toSrv>>

Main == \/ SetupFails \/ SpawnNotifier \/ ControlFails \/ StartBridge
        \/ First \/ Second \/ Expire \/ StopNotifier \/ Join
Writer(t) == Check(t) \/ Lock(t) \/ WriteFirst(t) \/ WriteRest(t) \/ WriteFails(t)
Up == Writer("up") \/ ReadDevice \/ IdleDevice \/ DeviceEnds \/ Flush \/ Tell("up")
Down == \/ Writer("down") \/ ReadSocket \/ IdleSocket \/ SocketEnds
        \/ FeedData \/ FeedSet \/ Fed \/ Apply \/ ApplyFails \/ Tell("down")
Notifier == Writer("notifier") \/ SampleSame \/ SampleChange
Next == Main \/ Up \/ Down \/ Notifier \/ HalfClose \/ Leave \/ Send \/ Take

Spec == Init /\ [][Next]_vars
(* Threads run when they can.  Nothing is asked of the client, the device   *)
(* or its lines.                                                            *)
FairSpec == Spec /\ WF_vars(Main) /\ WF_vars(Up) /\ WF_vars(Down) /\ WF_vars(Notifier)
----------------------------------------------------------------------------
TypeOK ==
  /\ main \in {"setup", "spawned", "recv", "grace", "ended", "join", "returned", "failed"}
  /\ flag \in BOOLEAN /\ stop \in BOOLEAN /\ mail \subseteq Dir
  /\ at \in [Thread -> {"off", "check", "reading", "again", "feed", "apply", "want", "first",
                        "second", "flush", "over", "done"}]
  /\ lock \in Thread \cup {"free"} /\ said \in Nat /\ reports \in Nat /\ sent \in Nat /\ broken \in BOOLEAN
  /\ chunk \in Seq(Item) /\ pend \in Seq(Item) /\ dev \in Seq(Item) /\ toSrv \in Seq(Item)
  /\ client \in {"here", "half", "gone"} /\ toCli \in Seq(Half) /\ got \in Seq(Half)

Stream == got \o toCli

(* Commands and escaped data go down one wire, "so they must not interleave *)
(* halfway through a sequence" (codec.rs:15-16): after a first half comes   *)
(* its own rest, whichever threads write.                                   *)
WholeSequences == \A i \in 1..Len(Stream) :
  IF i % 2 = 1 THEN Stream[i].part = 1 ELSE Stream[i] = [Stream[i - 1] EXCEPT !.part = 2]
Inv == TypeOK /\ WholeSequences

NumbersIn(q) == {q[i].n : i \in DOMAIN q}
Applied == {dev[i].n : i \in {j \in DOMAIN dev : dev[j].is = "set"}}
Answers == {i \in DOMAIN Stream : Stream[i].by = "down" /\ Stream[i].part = 1}
Answered == {Stream[i].n : i \in Answers}

(* Settings reach the port in the order the client sent them, and so does   *)
(* data, without a gap as long as the pump lives; every setting applied is  *)
(* answered once, in that order.  A setting may overtake data of its own    *)
(* chunk (codec.rs:320), data never overtakes a setting.                    *)
InOrder ==
  /\ \A i, j \in DOMAIN dev :
       i < j /\ (dev[i].is = "set" => dev[j].is = "set") => dev[i].n < dev[j].n
  /\ \A i, j \in Answers : i < j => Stream[i].n < Stream[j].n
  /\ Answered \subseteq Applied /\ \A a \in Answered, s \in Applied \ Answered : a < s
  /\ at["down"] \notin {"over", "done"} =>
       1..sent = NumbersIn(dev) \cup NumbersIn(pend) \cup NumbersIn(chunk) \cup NumbersIn(toSrv)

(* "Only one client is bridged at a time" (server.rs:69-70): when           *)
(* rfc2217_session has returned none of its threads reads, samples, sets or *)
(* writes the device any more.  It takes a device that does not fail: with  *)
(* a fault on the reading side alone, a pump held in an answer is detached  *)
(* and goes on with its chunk when the client reads again.                  *)
SilentAfterwards == [][main = "returned" /\ ~broken => UNCHANGED <<said, reports, dev>>]_vars

(* "until either direction ends, then tear the other down" (bridge.rs):     *)
(* the session ends with its first pump, unless the notifier has a change   *)
(* to report to a client that never reads again: the join waits for it      *)
(* (server.rs:182), which the grace of bridge does not.                     *)
NotifierHeld == SocketFull /\ at["notifier"] \in {"want", "first", "second"}
EndingEnds == (<>[]NotifierHeld) \/ ((\E d \in Dir : at[d] = "over") ~> main = "returned")

(* A client that is gone leaves no thread behind: both pumps and the        *)
(* notifier end, and the session returns, unless its setup failed.          *)
NobodyLeft == client = "gone" ~>
  \/ main = "failed"
  \/ main = "returned" /\ \A t \in Thread : at[t] = "done"
====
