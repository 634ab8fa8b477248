---- MODULE Supervisor ----
(***************************************************************************)
(* One running port of the dashboard (src/src/dashboard/supervisor.rs):    *)
(* the thread that accepts clients and bridges them one at a time, and the *)
(* HTTP worker that stops it through Control::shutdown.  A step is one     *)
(* access to what they share: the stop flag, the `active` slot, a socket,  *)
(* the device.  A session is abstract: it hands device bytes to the client *)
(* and ends with the client or the device (Bridge has its two pumps).      *)
(* PortState.client and last_error, which only the browser reads, are left *)
(* out; what is published to the monitor is in Tap.                        *)
(***************************************************************************)
EXTENDS Integers, Sequences, FiniteSets

CONSTANTS Client,       \* the TCP connections made to the port
          Permitted,    \* those from an address Allowlist::permits accepts
          NoClient,     \* None in the `active` slot
          MaxSaid       \* bound: bytes the device says

ASSUME ClientAssumption == Permitted \subseteq Client /\ NoClient \notin Client
ASSUME BoundAssumption == MaxSaid \in Nat

VARIABLES stop,        \* Control.stop
          active,      \* Control.active: the clone kept for cutting a client off
          ctl,         \* progress of Control::shutdown
          pc,          \* where the supervisor thread is
          cur,         \* the permitted stream this iteration accepted, or NoClient
          took,        \* history: taken on, and before or after the stop flag?
          conn,        \* each connection, seen from both ends
          backlog,     \* connections waiting in the listener
          lingering,   \* clients whose pump bridge() detached: it still owns
                       \* clones of the socket and of the device
          watched,     \* Tap::watchers() > 0
          line,        \* bytes in the driver's input buffer
          said,        \* bytes the device has said so far
          got,         \* history: the device bytes the latest client received
          clearedAt    \* history: the last byte not meant for that client

ctlVars  == <<stop, ctl>>
thrVars  == <<cur, active, took>>
sockVars == <<conn, backlog, lingering>>
devVars  == <<line, said, got, clearedAt, watched>>
vars == <<pc, ctlVars, thrVars, sockVars, devVars>>

ConnState == {"away", "queued", "open", "half", "gone", "closed"}

TypeOK == /\ stop \in BOOLEAN
          /\ active \in Client \cup {NoClient}
          /\ ctl \in {"running", "stored", "joining", "joined"}
          /\ pc \in {"loop", "accept", "read", "accepted", "session", "unregister", "done"}
          /\ cur \in Client \cup {NoClient}
          /\ took \in [Client -> {"no", "running", "stopping"}]
          /\ conn \in [Client -> ConnState]
          /\ backlog \in Seq(Client)
          /\ lingering \subseteq Client
          /\ watched \in BOOLEAN
          /\ line \in Seq(Nat) /\ said \in Nat
          /\ got \in Seq(Nat) /\ clearedAt \in Int

(* What supervisor::start leaves behind: device open, listener bound.       *)
Init == /\ stop = FALSE /\ active = NoClient /\ ctl = "running"
        /\ pc = "loop" /\ cur = NoClient
        /\ took = [c \in Client |-> "no"]
        /\ conn = [c \in Client |-> "away"]
        /\ backlog = <<>> /\ lingering = {} /\ watched = FALSE
        /\ line = <<>> /\ said = 0 /\ got = <<>> /\ clearedAt = 0
----------------------------------------------------------------------------
(* Our last clone of a client's socket goes, or is shut down: the peer is   *)
(* hung up on, unless it left first.                                        *)
HungUp(cs) == [c \in Client |-> IF c \in cs /\ conn[c] \in {"queued", "open", "half"}
                                THEN "closed" ELSE conn[c]]
Waiting == {backlog[i] : i \in DOMAIN backlog}
Goto(here, there) == pc = here /\ pc' = there

(* `while !stop`.  When the loop ends the listener goes with it.            *)
CheckStop == \/ /\ ~stop
                /\ Goto("loop", "accept")
                /\ UNCHANGED <<ctlVars, thrVars, sockVars, devVars>>
             \/ /\ stop
                /\ Goto("loop", "done")
                /\ conn' = HungUp(Waiting) /\ backlog' = <<>>
                /\ UNCHANGED <<ctlVars, thrVars, lingering, devVars>>

Accept == /\ backlog # <<>> /\ Head(backlog) \in Permitted
          /\ Goto("accept", "accepted")
          /\ cur' = Head(backlog)
          /\ backlog' = Tail(backlog)
          /\ conn' = IF conn[cur'] = "queued" THEN [conn EXCEPT ![cur'] = "open"] ELSE conn
          /\ took' = [took EXCEPT ![cur'] = IF stop THEN "stopping" ELSE "running"]
          /\ UNCHANGED <<ctlVars, active, lingering, devVars>>

(* Outside the allowlist, or set_nonblocking fails.                         *)
TurnAway == /\ backlog # <<>>
            /\ Goto("accept", "loop")
            /\ conn' = HungUp({Head(backlog)})
            /\ backlog' = Tail(backlog)
            /\ UNCHANGED <<ctlVars, thrVars, lingering, devVars>>

(* accept fails, or would block and idle_tick finds nobody watching: sleep. *)
Sleep == /\ Goto("accept", "loop")
         /\ UNCHANGED <<ctlVars, thrVars, sockVars, devVars>>

(* idle_tick has seen a watcher; then, the timed read that empties the line.*)
IdleTick == /\ backlog = <<>> /\ watched
            /\ Goto("accept", "read")
            /\ UNCHANGED <<ctlVars, thrVars, sockVars, devVars>>
(* Slip: a reader that does not keep to the gaps between sessions.          *)
IdleReadAnytime == /\ line # <<>> /\ watched
                   /\ line' = <<>>
                   /\ UNCHANGED <<pc, ctlVars, thrVars, sockVars, said, got, clearedAt, watched>>
IdleRead == /\ Goto("read", "loop")
            /\ line' = <<>>
            /\ UNCHANGED <<ctlVars, thrVars, sockVars, said, got, clearedAt, watched>>

(* clear(All), `active` set to a clone (either can fail and is only logged),*)
(* and the halves, without which there is no session.                       *)
Register == /\ pc = "accepted" /\ pc' \in {"session", "unregister"}
            /\ line' \in {<<>>, line}
            /\ clearedAt' = said - Len(line') /\ got' = <<>>
            /\ active' \in {cur, NoClient}
            /\ UNCHANGED <<ctlVars, cur, took, sockVars, said, watched>>

(* The device-to-network pump moves what is in the driver's buffer.         *)
Deliver == /\ pc = "session" /\ line # <<>>
           /\ line' = <<>>
           /\ got' = IF conn[cur] \in {"open", "half"} THEN got \o line ELSE got
           /\ UNCHANGED <<pc, ctlVars, thrVars, sockVars, said, clearedAt, watched>>

(* bridge() returns.  A pump still held in a write after DRAIN_GRACE, to a   *)
(* client that neither reads nor closes or to a slow device, is detached.   *)
EndSession == /\ Goto("session", "unregister")
              /\ lingering' \in {lingering, lingering \cup {cur}}
              /\ UNCHANGED <<ctlVars, thrVars, conn, backlog, devVars>>
(* A connection that is gone or shut down ends every session.  A client     *)
(* that is only half closed ends a raw one, but not always an RFC 2217 one: *)
(* after bridge() that joins the notifier, without a grace and possibly held*)
(* in a write to this client (server.rs:181-182).                           *)
(* Slip: a client that has gone is not noticed.                             *)
EndOnCut == pc = "session" /\ conn[cur] = "closed" /\ EndSession
EndOnPeer == pc = "session" /\ conn[cur] \in {"gone", "closed"} /\ EndSession
EndOnHalf == pc = "session" /\ conn[cur] = "half" /\ EndSession
EndOnDevice == pc = "session" /\ conn[cur] = "open" /\ EndSession

UnregisterTo(there, slot) == /\ Goto("unregister", there)
                             /\ active' = slot /\ cur' = NoClient
                             /\ conn' = HungUp({cur} \ lingering)
                             /\ UNCHANGED <<ctlVars, took, backlog, lingering, devVars>>
(* Slips: the slot is not reset; the stop flag is not looked at again.      *)
UnregisterKeepsSlot == UnregisterTo("loop", active)
UnregisterToAccept == UnregisterTo("accept", NoClient)
Unregister == UnregisterTo("loop", NoClient)

(* A detached pump: its write ends with the connection gone, or because the *)
(* client reads again; it sees bridge()'s shutdown flag and reads no more.  *)
PumpFails(c) == /\ c \in lingering /\ conn[c] \in {"gone", "closed"}
                /\ lingering' = lingering \ {c}
                /\ UNCHANGED <<pc, ctlVars, thrVars, conn, backlog, devVars>>
PumpResumes(c) == /\ c \in lingering \ {cur} /\ conn[c] \in {"open", "half"}
                  /\ lingering' = lingering \ {c}
                  /\ conn' = HungUp({c})
                  /\ UNCHANGED <<pc, ctlVars, thrVars, backlog, devVars>>
----------------------------------------------------------------------------
(* Control::shutdown: store the flag; lock `active` and shut down what is   *)
(* there; join the thread.                                                  *)
StoreStop == /\ ctl = "running" /\ ctl' = "stored"
             /\ stop' = TRUE
             /\ UNCHANGED <<pc, thrVars, sockVars, devVars>>
(* Slip: the thread is joined without cutting the client off.               *)
CutNobody == /\ ctl = "stored" /\ ctl' = "joining"
             /\ UNCHANGED <<pc, stop, thrVars, sockVars, devVars>>
CutActive == /\ ctl = "stored" /\ ctl' = "joining"
             /\ conn' = HungUp({active})
             /\ UNCHANGED <<pc, stop, thrVars, backlog, lingering, devVars>>
Join == /\ ctl = "joining" /\ ctl' = "joined"
        /\ pc = "done"
        /\ UNCHANGED <<pc, stop, thrVars, sockVars, devVars>>

(* The clients (half: closed for sending, and not reading), the device and  *)
(* the browsers.                                                            *)
Connect(c) == /\ conn[c] = "away" /\ pc # "done"
              /\ conn' = [conn EXCEPT ![c] = "queued"]
              /\ backlog' = Append(backlog, c)
              /\ UNCHANGED <<pc, ctlVars, thrVars, lingering, devVars>>
Leave(c) == /\ \/ conn[c] \in {"queued", "open"} /\ conn' = [conn EXCEPT ![c] = "half"]
               \/ conn[c] \in {"queued", "open", "half"} /\ conn' = [conn EXCEPT ![c] = "gone"]
            /\ UNCHANGED <<pc, ctlVars, thrVars, backlog, lingering, devVars>>
DeviceSays == /\ said < MaxSaid
              /\ said' = said + 1
              /\ line' = Append(line, said')
              /\ UNCHANGED <<pc, ctlVars, thrVars, sockVars, got, clearedAt, watched>>
Watch == /\ watched' = ~watched
         /\ UNCHANGED <<pc, ctlVars, thrVars, sockVars, line, said, got, clearedAt>>
----------------------------------------------------------------------------
Thread == CheckStop \/ Accept \/ TurnAway \/ Sleep \/ IdleTick \/ IdleRead
          \/ Register \/ EndOnPeer \/ Unregister
Shutdown == StoreStop \/ CutActive \/ Join
Pump == Deliver \/ \E c \in Client : PumpFails(c) \/ PumpResumes(c)
Environment == \/ EndOnDevice \/ EndOnHalf \/ DeviceSays \/ Watch
               \/ \E c \in Client : Connect(c) \/ Leave(c)

Next == Thread \/ Shutdown \/ Pump \/ Environment
Spec == Init /\ [][Next]_vars

(* Both threads keep running, and a blocked write fails once the connection *)
(* is gone.  Clients, half closed ones too, device and browsers owe nothing.*)
FairSpec == /\ Spec
            /\ WF_vars(Thread) /\ WF_vars(Shutdown)
            /\ WF_vars(\E c \in Client : PumpFails(c))
----------------------------------------------------------------------------
(* What ties the two threads' state together.  The slot holds nobody but    *)
(* the client of this iteration, so that CutActive cannot cut another; who  *)
(* waits was never served; and after a late client the loop only ends.      *)
Busy == {"accepted", "session", "unregister"}
Late == \E c \in Client : took[c] = "stopping"
Inv == /\ TypeOK
       /\ cur = NoClient <=> pc \notin Busy
       /\ active \in {cur, NoClient}
       /\ pc \in Busy => cur \in Permitted /\ took[cur] # "no"
       /\ \A c \in Waiting : took[c] = "no" /\ conn[c] # "away"
       /\ \A i, j \in DOMAIN backlog : i # j => backlog[i] # backlog[j]
       /\ \A c \in Client : conn[c] = "away" => took[c] = "no"
       /\ stop <=> ctl # "running"
       /\ pc = "done" => stop
       /\ ctl = "joined" => pc = "done"
       /\ Late => stop /\ pc \notin {"accept", "read"}

(* A client gets exactly what the device says from the moment its buffers   *)
(* were cleared: nothing older (supervisor.rs:216), and nothing taken by    *)
(* the idle reader (supervisor.rs:169) or by the pump of an earlier client. *)
NothingStolen == \A i \in DOMAIN got : got[i] = clearedAt + i

(* The port is what PortService promises: one permitted client at a time,   *)
(* at most one taken on after the stop, stopped only with nobody served.    *)
Port == INSTANCE PortService WITH
          phase   <- IF ctl = "joined" THEN "stopped" ELSE IF stop THEN "stopping" ELSE "serving",
          serving <- cur,
          served  <- {c \in Client : took[c] # "no"},
          late    <- Late
ImplementsPort == Port!Spec

(* Stop is prompt, whatever the clients do, unless it falls between accept  *)
(* and the assignment to `active`, or that client could not be cloned.      *)
Uncuttable == pc = "accept" \/ (pc \in {"accepted", "session"} /\ active = NoClient)
StopPromptIfCuttable == (ctl = "stored" /\ ~Uncuttable) ~> (ctl = "joined")

(* In every case stop returns if the clients all go away in the end, and do *)
(* not only stop sending: the finding at server.rs:182 is of one that does. *)
StopOnceClientsLeave == (\A c \in Client : <>[](conn[c] \notin {"open", "half"})) =>
                          ((ctl = "stored") ~> (ctl = "joined"))

(* What supervisor.rs:46-51 says without the exception: stopping does not   *)
(* wait for the client to disconnect on its own (even when no clone fails   *)
(* and no client is only half closed).                                      *)
StopPrompt == [](pc = "session" => active = cur /\ conn[cur] # "half") =>
                ((ctl = "stored") ~> (ctl = "joined"))
====
