---- MODULE SupervisorProofs ----
(***************************************************************************)
(* Supervisor, proved for any number of clients and any traffic: its       *)
(* invariant, that nothing of a client's stream is stolen, and that a      *)
(* running port is what PortService promises.  Inv is split into the part  *)
(* about the thread and the stop and the part about the listener's backlog;*)
(* StreamInv is about the bytes between the device and the client.         *)
(***************************************************************************)
EXTENDS Supervisor, SequenceTheorems, TLAPS

(* The thread, the slot and the stop flag.                                  *)
ThreadInv == /\ cur = NoClient <=> pc \notin Busy
             /\ active \in {cur, NoClient}
             /\ pc \in Busy => cur \in Permitted /\ took[cur] # "no"
             /\ stop <=> ctl # "running"
             /\ pc = "done" => stop
             /\ ctl = "joined" => pc = "done"
             /\ Late => stop /\ pc \notin {"accept", "read"}

(* Who waits was never served, and waits once.                              *)
QueueInv == /\ \A i \in DOMAIN backlog : took[backlog[i]] = "no" /\ conn[backlog[i]] # "away"
            /\ \A i, j \in DOMAIN backlog : i # j => backlog[i] # backlog[j]
            /\ \A c \in Client : conn[c] = "away" => took[c] = "no"

(* Inv is its types and the two parts above.                               *)
LEMMA InvParts == Inv <=> TypeOK /\ ThreadInv /\ QueueInv
  BY DEF Inv, ThreadInv, QueueInv, Waiting
----------------------------------------------------------------------------
(* What the provers have to be told of the sequences used here.            *)
LEMMA SeqFacts ==
  /\ <<>> \in Seq(Nat) /\ <<>> \in Seq(Client)
  /\ \A q \in Seq(Nat) : Len(q) \in Nat /\ \A r \in Seq(Nat) : q \o r \in Seq(Nat)
<1>1. <<>> \in Seq(Nat) /\ <<>> \in Seq(Client)
  BY EmptySeq
<1>2. \A q \in Seq(Nat) : Len(q) \in Nat
  BY LenProperties
<1>3. \A q, r \in Seq(Nat) : q \o r \in Seq(Nat)
  BY ConcatProperties
<1> QED  BY <1>1, <1>2, <1>3

(* supervisor::start leaves a port with an idle thread and no client.      *)
LEMMA InitInv == Init => Inv
<1> SUFFICES ASSUME Init PROVE TypeOK /\ ThreadInv /\ QueueInv
  BY InvParts
<1> USE ClientAssumption, BoundAssumption DEF Init
<1>1. line \in Seq(Nat) /\ got \in Seq(Nat) /\ backlog \in Seq(Client)
  BY SeqFacts
<1>2. TypeOK
  <2>1. stop \in BOOLEAN /\ watched \in BOOLEAN
    OBVIOUS
  <2>2. /\ took \in [Client -> {"no", "running", "stopping"}] /\ conn \in [Client -> ConnState]
        /\ said \in Nat /\ clearedAt \in Int /\ lingering \subseteq Client
        /\ ctl \in {"running", "stored", "joining", "joined"}
        /\ pc \in {"loop", "accept", "read", "accepted", "session", "unregister", "done"}
    BY DEF ConnState
  <2>3. active \in Client \cup {NoClient} /\ cur \in Client \cup {NoClient}
    OBVIOUS
  <2> QED  BY <1>1, <2>1, <2>2, <2>3, Zenon DEF TypeOK
<1>3. ThreadInv
  BY DEF ThreadInv, Busy, Late
<1>4. QueueInv
  BY DEF QueueInv
<1> QED  BY <1>1, <1>2, <1>3, <1>4

(* Every step keeps the types.                                             *)
LEMMA TypeStep ==
  ASSUME TypeOK, ThreadInv, [Next]_vars
  PROVE  TypeOK'
<1> USE ClientAssumption, BoundAssumption DEF TypeOK, ConnState
<1>1. CASE CheckStop
  BY SeqFacts, <1>1 DEF CheckStop, Goto, HungUp, ctlVars, thrVars, sockVars, devVars
<1>2. CASE Accept
  BY <1>2 DEF Accept, Goto, HungUp, ctlVars, thrVars, sockVars, devVars
<1>3. CASE TurnAway
  BY <1>3 DEF TurnAway, Goto, HungUp, ctlVars, thrVars, sockVars, devVars
<1>4. CASE Sleep
  BY <1>4 DEF Sleep, Goto, HungUp, ctlVars, thrVars, sockVars, devVars
<1>5. CASE IdleTick
  BY <1>5 DEF IdleTick, Goto, HungUp, ctlVars, thrVars, sockVars, devVars
<1>6. CASE IdleRead
  BY SeqFacts, <1>6 DEF IdleRead, Goto, HungUp, ctlVars, thrVars, sockVars, devVars
<1>7. CASE Register
  <2>1. line' \in Seq(Nat) /\ Len(line') \in Nat
    BY SeqFacts, <1>7 DEF Register
  <2>2. clearedAt' \in Int
    BY <1>7, <2>1 DEF Register
  <2> QED  BY SeqFacts, <1>7, <2>1, <2>2 DEF Register, Goto, HungUp, ctlVars, thrVars, sockVars, devVars
<1>8. CASE EndOnPeer
  BY <1>8 DEF ThreadInv, Busy, EndOnPeer, EndSession, Goto, HungUp, ctlVars, thrVars, sockVars, devVars
<1>9. CASE Unregister
  BY <1>9 DEF Unregister, UnregisterTo, Goto, HungUp, ctlVars, thrVars, sockVars, devVars
<1>10. CASE StoreStop
  BY <1>10 DEF StoreStop, Goto, HungUp, ctlVars, thrVars, sockVars, devVars
<1>11. CASE CutActive
  BY <1>11 DEF CutActive, Goto, HungUp, ctlVars, thrVars, sockVars, devVars
<1>12. CASE Join
  BY <1>12 DEF Join, Goto, HungUp, ctlVars, thrVars, sockVars, devVars
<1>13. CASE Deliver
  <2>1. line' \in Seq(Nat) /\ got' \in Seq(Nat)
    BY SeqFacts, <1>13 DEF Deliver
  <2> QED  BY <1>13, <2>1 DEF Deliver, Goto, HungUp, ctlVars, thrVars, sockVars, devVars
<1>14. CASE EndOnDevice \/ EndOnHalf
  BY <1>14 DEF ThreadInv, Busy, EndOnDevice, EndOnHalf, EndSession, Goto, HungUp, ctlVars, thrVars, sockVars, devVars
<1>15. CASE DeviceSays
  BY <1>15 DEF DeviceSays, Goto, HungUp, ctlVars, thrVars, sockVars, devVars
<1>16. CASE Watch
  BY <1>16 DEF Watch, Goto, HungUp, ctlVars, thrVars, sockVars, devVars
<1>17. ASSUME NEW c \in Client, PumpFails(c) PROVE TypeOK'
  BY <1>17 DEF PumpFails, Goto, HungUp, ctlVars, thrVars, sockVars, devVars
<1>18. ASSUME NEW c \in Client, PumpResumes(c) PROVE TypeOK'
  BY <1>18 DEF PumpResumes, Goto, HungUp, ctlVars, thrVars, sockVars, devVars
<1>19. ASSUME NEW c \in Client, Connect(c) PROVE TypeOK'
  BY <1>19 DEF Connect, Goto, HungUp, ctlVars, thrVars, sockVars, devVars
<1>20. ASSUME NEW c \in Client, Leave(c) PROVE TypeOK'
  BY <1>20 DEF Leave, Goto, HungUp, ctlVars, thrVars, sockVars, devVars
<1>21. CASE UNCHANGED vars
  BY <1>21 DEF vars, Goto, HungUp, ctlVars, thrVars, sockVars, devVars
<1> QED  BY <1>1, <1>2, <1>3, <1>4, <1>5, <1>6, <1>7, <1>8, <1>9, <1>10,
          <1>11, <1>12, <1>13, <1>14, <1>15, <1>16, <1>17, <1>18, <1>19, <1>20, <1>21
          DEF Next, Thread, Shutdown, Pump, Environment

(* Every step keeps the slot, the client being served and the progress of  *)
(* the stop in agreement.                                                  *)
LEMMA ThreadStep ==
  ASSUME TypeOK, ThreadInv, [Next]_vars
  PROVE  ThreadInv'
<1> USE ClientAssumption DEF TypeOK, ThreadInv, Busy, Late
<1>1. CASE CheckStop
  BY <1>1 DEF CheckStop, Goto, HungUp, ctlVars, thrVars, sockVars, devVars
<1>2. CASE Accept
  BY <1>2 DEF Accept, Goto, HungUp, ctlVars, thrVars, sockVars, devVars
<1>3. CASE TurnAway
  BY <1>3 DEF TurnAway, Goto, HungUp, ctlVars, thrVars, sockVars, devVars
<1>4. CASE Sleep
  BY <1>4 DEF Sleep, Goto, HungUp, ctlVars, thrVars, sockVars, devVars
<1>5. CASE IdleTick
  BY <1>5 DEF IdleTick, Goto, HungUp, ctlVars, thrVars, sockVars, devVars
<1>6. CASE IdleRead
  BY <1>6 DEF IdleRead, Goto, HungUp, ctlVars, thrVars, sockVars, devVars
<1>7. CASE Register
  BY <1>7 DEF Register, Goto, HungUp, ctlVars, thrVars, sockVars, devVars
<1>8. CASE EndOnPeer
  BY <1>8 DEF EndOnPeer, EndSession, Goto, HungUp, ctlVars, thrVars, sockVars, devVars
<1>9. CASE Unregister
  BY <1>9 DEF Unregister, UnregisterTo, Goto, HungUp, ctlVars, thrVars, sockVars, devVars
<1>10. CASE StoreStop
  BY <1>10 DEF StoreStop, Goto, HungUp, ctlVars, thrVars, sockVars, devVars
<1>11. CASE CutActive
  BY <1>11 DEF CutActive, Goto, HungUp, ctlVars, thrVars, sockVars, devVars
<1>12. CASE Join
  BY <1>12 DEF Join, Goto, HungUp, ctlVars, thrVars, sockVars, devVars
<1>13. CASE Deliver
  BY <1>13 DEF Deliver, Goto, HungUp, ctlVars, thrVars, sockVars, devVars
<1>14. CASE EndOnDevice \/ EndOnHalf
  BY <1>14 DEF EndOnDevice, EndOnHalf, EndSession, Goto, HungUp, ctlVars, thrVars, sockVars, devVars
<1>15. CASE DeviceSays
  BY <1>15 DEF DeviceSays, Goto, HungUp, ctlVars, thrVars, sockVars, devVars
<1>16. CASE Watch
  BY <1>16 DEF Watch, Goto, HungUp, ctlVars, thrVars, sockVars, devVars
<1>17. ASSUME NEW c \in Client, PumpFails(c) PROVE ThreadInv'
  BY <1>17 DEF PumpFails, Goto, HungUp, ctlVars, thrVars, sockVars, devVars
<1>18. ASSUME NEW c \in Client, PumpResumes(c) PROVE ThreadInv'
  BY <1>18 DEF PumpResumes, Goto, HungUp, ctlVars, thrVars, sockVars, devVars
<1>19. ASSUME NEW c \in Client, Connect(c) PROVE ThreadInv'
  BY <1>19 DEF Connect, Goto, HungUp, ctlVars, thrVars, sockVars, devVars
<1>20. ASSUME NEW c \in Client, Leave(c) PROVE ThreadInv'
  BY <1>20 DEF Leave, Goto, HungUp, ctlVars, thrVars, sockVars, devVars
<1>21. CASE UNCHANGED vars
  BY <1>21 DEF vars, Goto, HungUp, ctlVars, thrVars, sockVars, devVars
<1> QED  BY <1>1, <1>2, <1>3, <1>4, <1>5, <1>6, <1>7, <1>8, <1>9, <1>10,
          <1>11, <1>12, <1>13, <1>14, <1>15, <1>16, <1>17, <1>18, <1>19, <1>20, <1>21
          DEF Next, Thread, Shutdown, Pump, Environment

(* Every step keeps the backlog to connections that were never served,     *)
(* each in it once.                                                        *)
LEMMA QueueStep ==
  ASSUME TypeOK, ThreadInv, QueueInv, [Next]_vars
  PROVE  QueueInv'
<1> USE ClientAssumption DEF TypeOK, QueueInv, ConnState
<1>1. CASE CheckStop
  BY <1>1 DEF CheckStop, Goto, HungUp, ctlVars, thrVars, sockVars, devVars
<1>2. CASE Accept
  BY <1>2 DEF Accept, Goto, HungUp, ctlVars, thrVars, sockVars, devVars
<1>3. CASE TurnAway
  BY <1>3 DEF TurnAway, Goto, HungUp, ctlVars, thrVars, sockVars, devVars
<1>4. CASE Sleep
  BY <1>4 DEF Sleep, Goto, HungUp, ctlVars, thrVars, sockVars, devVars
<1>5. CASE IdleTick
  BY <1>5 DEF IdleTick, Goto, HungUp, ctlVars, thrVars, sockVars, devVars
<1>6. CASE IdleRead
  BY <1>6 DEF IdleRead, Goto, HungUp, ctlVars, thrVars, sockVars, devVars
<1>7. CASE Register
  BY <1>7 DEF Register, Goto, HungUp, ctlVars, thrVars, sockVars, devVars
<1>8. CASE EndOnPeer
  BY <1>8 DEF EndOnPeer, EndSession, Goto, HungUp, ctlVars, thrVars, sockVars, devVars
<1>9. CASE Unregister
  BY <1>9 DEF Unregister, UnregisterTo, Goto, HungUp, ctlVars, thrVars, sockVars, devVars
<1>10. CASE StoreStop
  BY <1>10 DEF StoreStop, Goto, HungUp, ctlVars, thrVars, sockVars, devVars
<1>11. CASE CutActive
  BY <1>11 DEF CutActive, Goto, HungUp, ctlVars, thrVars, sockVars, devVars
<1>12. CASE Join
  BY <1>12 DEF Join, Goto, HungUp, ctlVars, thrVars, sockVars, devVars
<1>13. CASE Deliver
  BY <1>13 DEF Deliver, Goto, HungUp, ctlVars, thrVars, sockVars, devVars
<1>14. CASE EndOnDevice \/ EndOnHalf
  BY <1>14 DEF EndOnDevice, EndOnHalf, EndSession, Goto, HungUp, ctlVars, thrVars, sockVars, devVars
<1>15. CASE DeviceSays
  BY <1>15 DEF DeviceSays, Goto, HungUp, ctlVars, thrVars, sockVars, devVars
<1>16. CASE Watch
  BY <1>16 DEF Watch, Goto, HungUp, ctlVars, thrVars, sockVars, devVars
<1>17. ASSUME NEW c \in Client, PumpFails(c) PROVE QueueInv'
  BY <1>17 DEF PumpFails, Goto, HungUp, ctlVars, thrVars, sockVars, devVars
<1>18. ASSUME NEW c \in Client, PumpResumes(c) PROVE QueueInv'
  BY <1>18 DEF PumpResumes, Goto, HungUp, ctlVars, thrVars, sockVars, devVars
<1>19. ASSUME NEW c \in Client, Connect(c) PROVE QueueInv'
  BY <1>19 DEF Connect, Goto, HungUp, ctlVars, thrVars, sockVars, devVars
<1>20. ASSUME NEW c \in Client, Leave(c) PROVE QueueInv'
  BY <1>20 DEF Leave, Goto, HungUp, ctlVars, thrVars, sockVars, devVars
<1>21. CASE UNCHANGED vars
  BY <1>21 DEF vars, Goto, HungUp, ctlVars, thrVars, sockVars, devVars
<1> QED  BY <1>1, <1>2, <1>3, <1>4, <1>5, <1>6, <1>7, <1>8, <1>9, <1>10,
          <1>11, <1>12, <1>13, <1>14, <1>15, <1>16, <1>17, <1>18, <1>19, <1>20, <1>21
          DEF Next, Thread, Shutdown, Pump, Environment

(* What flows: the driver's buffer holds the latest bytes, and while the    *)
(* client listens it has received all that came between its clearing and    *)
(* them.                                                                    *)
StreamInv == /\ \A i \in DOMAIN line : line[i] = said - Len(line) + i
             /\ pc = "session" /\ conn[cur] \in {"open", "half"} =>
                  clearedAt + Len(got) + Len(line) = said
             /\ pc \in Busy => conn[cur] \notin {"away", "queued"}
             /\ NothingStolen

(* Every step keeps what the client got and what is in the driver's buffer *)
(* one unbroken stretch.                                                   *)
LEMMA StreamStep ==
  ASSUME TypeOK, ThreadInv, QueueInv, StreamInv, [Next]_vars
  PROVE  StreamInv'
<1> USE ClientAssumption DEF TypeOK, ConnState, StreamInv, NothingStolen, ThreadInv, Busy
<1>1. CASE CheckStop
  BY <1>1 DEF CheckStop, Goto, HungUp, ctlVars, thrVars, sockVars, devVars
<1>2. CASE Accept
  <2>1. cur' \in Client /\ conn[cur'] # "away"
    BY <1>2 DEF Accept, QueueInv
  <2>2. conn'[cur'] \notin {"away", "queued"}
    BY <1>2, <2>1 DEF Accept
  <2> QED  BY <1>2, <2>2 DEF Accept, Goto, devVars
<1>3. CASE TurnAway
  BY <1>3 DEF TurnAway, Goto, HungUp, ctlVars, thrVars, sockVars, devVars
<1>4. CASE Sleep
  BY <1>4 DEF Sleep, Goto, HungUp, ctlVars, thrVars, sockVars, devVars
<1>5. CASE IdleTick
  BY <1>5 DEF IdleTick, Goto, HungUp, ctlVars, thrVars, sockVars, devVars
<1>6. CASE IdleRead
  BY <1>6 DEF IdleRead, Goto, HungUp, ctlVars, thrVars, sockVars, devVars
<1>7. CASE Register
  <2>1. DOMAIN got' = {} /\ Len(got') = 0
    BY <1>7, EmptySeq DEF Register
  <2>2. line' \in Seq(Nat) /\ \A i \in DOMAIN line' : line'[i] = said - Len(line') + i
    <3>1. CASE line' = <<>>
      BY <3>1, EmptySeq
    <3>2. CASE line' = line
      BY <3>2
    <3> QED  BY <1>7, <3>1, <3>2 DEF Register
  <2> QED  BY <1>7, <2>1, <2>2, SeqFacts DEF Register, sockVars
<1>8. CASE EndOnPeer
  BY <1>8 DEF EndOnPeer, EndSession, Goto, HungUp, ctlVars, thrVars, sockVars, devVars
<1>9. CASE Unregister
  BY <1>9 DEF Unregister, UnregisterTo, Goto, HungUp, ctlVars, thrVars, sockVars, devVars
<1>10. CASE StoreStop
  BY <1>10 DEF StoreStop, Goto, HungUp, ctlVars, thrVars, sockVars, devVars
<1>11. CASE CutActive
  BY <1>11 DEF CutActive, Goto, HungUp, ctlVars, thrVars, sockVars, devVars
<1>12. CASE Join
  BY <1>12 DEF Join, Goto, HungUp, ctlVars, thrVars, sockVars, devVars
<1>13. CASE Deliver
  <2>1. line' = <<>> /\ DOMAIN line' = {} /\ Len(line') = 0
    BY <1>13, EmptySeq DEF Deliver
  <2>2. CASE conn[cur] \in {"open", "half"}
    <3>1. got' = got \o line /\ clearedAt + Len(got) + Len(line) = said
      BY <1>13, <2>2 DEF Deliver
    <3>2. Len(got') = Len(got) + Len(line) /\ Len(got) \in Nat /\ Len(line) \in Nat
      BY <3>1, ConcatProperties, LenProperties
    <3>3. NothingStolen'
      <4> SUFFICES ASSUME NEW i \in 1 .. Len(got) + Len(line) PROVE got'[i] = clearedAt + i
        BY <3>1, <3>2, <1>13, SMTT(60) DEF Deliver, NothingStolen
      <4>1. CASE i <= Len(got)
        BY <3>1, <3>2, <4>1, ConcatProperties
      <4>2. CASE i > Len(got)
        <5>1. i - Len(got) \in DOMAIN line /\ got'[i] = line[i - Len(got)]
          BY <3>1, <3>2, <4>2, ConcatProperties
        <5>2. line[i - Len(got)] = said - Len(line) + (i - Len(got))
          BY <5>1
        <5>3. said \in Nat /\ clearedAt \in Int /\ i \in Nat
          OBVIOUS
        <5> HIDE DEF TypeOK, StreamInv, NothingStolen, ThreadInv
        <5>4. /\ Len(got) \in Nat /\ Len(line) \in Nat
              /\ clearedAt + Len(got) + Len(line) = said
              /\ got'[i] = said - Len(line) + (i - Len(got))
          BY <5>1, <5>2, <3>1, <3>2
        <5> QED  BY <5>3, <5>4
      <4> QED  BY <4>1, <4>2, <3>2
    <3>4. said' = said /\ clearedAt' = clearedAt /\ conn' = conn /\ cur' = cur /\ pc' = pc
      BY <1>13 DEF Deliver, sockVars, thrVars
    <3>5. clearedAt' + Len(got') + Len(line') = said'
      BY <2>1, <3>1, <3>2, <3>4
    <3>6. pc' \in Busy => conn'[cur'] \notin {"away", "queued"}
      BY <3>4
    <3> HIDE DEF TypeOK, NothingStolen, ThreadInv, Busy, ConnState
    <3> QED  BY <2>1, <3>3, <3>5, <3>6
  <2>3. CASE conn[cur] \notin {"open", "half"}
    <3>1. got' = got /\ clearedAt' = clearedAt /\ conn' = conn /\ cur' = cur /\ pc' = pc
      BY <1>13, <2>3 DEF Deliver, sockVars, thrVars
    <3> QED  BY <3>1, <2>1, <2>3
  <2> QED  BY <2>2, <2>3
<1>14. CASE EndOnDevice \/ EndOnHalf
  BY <1>14 DEF EndOnDevice, EndOnHalf, EndSession, Goto, HungUp, ctlVars, thrVars, sockVars, devVars
<1>15. CASE DeviceSays
  BY <1>15 DEF DeviceSays, Goto, HungUp, ctlVars, thrVars, sockVars, devVars
<1>16. CASE Watch
  BY <1>16 DEF Watch, Goto, HungUp, ctlVars, thrVars, sockVars, devVars
<1>17. ASSUME NEW c \in Client, PumpFails(c) PROVE StreamInv'
  BY <1>17 DEF PumpFails, Goto, HungUp, ctlVars, thrVars, sockVars, devVars
<1>18. ASSUME NEW c \in Client, PumpResumes(c) PROVE StreamInv'
  BY <1>18 DEF PumpResumes, Goto, HungUp, ctlVars, thrVars, sockVars, devVars
<1>19. ASSUME NEW c \in Client, Connect(c) PROVE StreamInv'
  BY <1>19 DEF Connect, Goto, HungUp, ctlVars, thrVars, sockVars, devVars
<1>20. ASSUME NEW c \in Client, Leave(c) PROVE StreamInv'
  <2>1. pc' = pc /\ cur' = cur /\ line' = line /\ got' = got /\ said' = said /\ clearedAt' = clearedAt
    BY <1>20 DEF Leave, ctlVars, thrVars, devVars
  <2>2. pc \in Busy => cur \in Client /\ conn[cur] \notin {"away", "queued"}
    OBVIOUS
  <2>3. pc \in Busy => /\ conn'[cur] \notin {"away", "queued"}
                       /\ conn'[cur] \in {"open", "half"} => conn[cur] \in {"open", "half"}
    BY <1>20, <2>2 DEF Leave
  <2>4. pc' \in Busy => conn'[cur'] \notin {"away", "queued"}
    BY <2>1, <2>3
  <2>5. pc' = "session" /\ conn'[cur'] \in {"open", "half"} =>
          clearedAt' + Len(got') + Len(line') = said'
    <3> SUFFICES ASSUME pc = "session", conn'[cur] \in {"open", "half"}
                 PROVE  conn[cur] \in {"open", "half"}
      BY <2>1
    <3> QED  BY <2>3
  <2> QED  BY <2>1, <2>4, <2>5 DEF StreamInv, NothingStolen
<1>21. CASE UNCHANGED vars
  BY <1>21 DEF vars, Goto, HungUp, ctlVars, thrVars, sockVars, devVars
<1> QED  BY <1>1, <1>2, <1>3, <1>4, <1>5, <1>6, <1>7, <1>8, <1>9, <1>10,
          <1>11, <1>12, <1>13, <1>14, <1>15, <1>16, <1>17, <1>18, <1>19, <1>20, <1>21
          DEF Next, Thread, Shutdown, Pump, Environment

(* Both invariants hold for any clients, any allowlist and any traffic.    *)
LEMMA Invariants == Spec => [](Inv /\ StreamInv)
<1>1. Init => Inv /\ StreamInv
  <2>1. ASSUME Init PROVE StreamInv
    BY <2>1, EmptySeq DEF Init, StreamInv, NothingStolen, Busy
  <2> QED  BY <2>1, InitInv
<1>2. Inv /\ StreamInv /\ [Next]_vars => (Inv /\ StreamInv)'
  <2> SUFFICES ASSUME TypeOK, ThreadInv, QueueInv, StreamInv, [Next]_vars
               PROVE  (TypeOK /\ ThreadInv /\ QueueInv)' /\ StreamInv'
    BY InvParts DEF Inv, ThreadInv, QueueInv, Waiting
  <2> QED  BY TypeStep, ThreadStep, QueueStep, StreamStep
<1> QED  BY <1>1, <1>2, PTL DEF Spec

(* The slot never names anyone but the client of this iteration, so that    *)
(* Control::shutdown cuts no other; no connection is served twice; and after*)
(* a client taken on past the stop flag the thread only winds down.         *)
THEOREM SlotIsOurs == Spec => []Inv
  BY Invariants, PTL

(* Every client receives exactly what the device said since its buffers were*)
(* cleared: the idle reader and earlier clients' pumps take nothing of it.  *)
THEOREM NothingIsStolen == Spec => []NothingStolen
<1>1. StreamInv => NothingStolen
  BY DEF StreamInv
<1> QED  BY <1>1, Invariants, PTL
----------------------------------------------------------------------------
(* A port that was just started serves nobody.                             *)
LEMMA PortInit == Init => Port!Init
<1> SUFFICES ASSUME Init PROVE Port!Init
  OBVIOUS
<1>1. ~Late /\ {c \in Client : took[c] # "no"} = {}
  BY DEF Init, Late
<1>2. cur = NoClient /\ ctl = "running" /\ stop = FALSE
  BY DEF Init
<1>3. (IF ctl = "joined" THEN "stopped" ELSE IF stop THEN "stopping" ELSE "serving") = "serving"
  BY <1>2
<1>4. Late = FALSE
  BY <1>1 DEF Late
<1> QED  BY <1>1, <1>2, <1>3, <1>4, Zenon DEF Port!Init

(* Whatever leaves the client, the history and the stop alone is a stutter. *)
LEMMA PortStutters ==
  ASSUME cur' = cur, took' = took, stop' = stop, ctl' = ctl \/ {ctl, ctl'} \subseteq {"stored", "joining"}
  PROVE  UNCHANGED Port!vars
<1>1. Late' = Late /\ {c \in Client : took[c] # "no"}' = {c \in Client : took[c] # "no"}
  BY DEF Late
<1>2. (ctl' = "joined") <=> (ctl = "joined")
  OBVIOUS
<1> QED  BY <1>1, <1>2 DEF Port!vars

(* Accept takes on one permitted client that was never served, while       *)
(* nobody else is, and none after a late one.                              *)
LEMMA PortServe ==
  ASSUME Inv, Inv', Accept
  PROVE  \E c \in Client : Port!Serve(c)
<1> DEFINE c == Head(backlog)
<1> USE ClientAssumption
<1>1. c \in Permitted /\ c \in Client /\ took[c] = "no"
  BY DEF Inv, TypeOK, Accept, Waiting
<1>2. cur = NoClient /\ cur' = c /\ ~Late /\ ctl # "joined" /\ ctl' = ctl /\ stop' = stop
  BY DEF Accept, Goto, Inv, Busy, ctlVars
<1>3. took' = [took EXCEPT ![c] = IF stop THEN "stopping" ELSE "running"]
      /\ took \in [Client -> {"no", "running", "stopping"}] /\ stop \in BOOLEAN
  BY DEF Accept, Inv, TypeOK
<1> HIDE DEF c
<1>4. {d \in Client : took'[d] # "no"} = {d \in Client : took[d] # "no"} \cup {c}
  BY <1>1, <1>3
<1>5. Late' <=> stop
  BY <1>1, <1>2, <1>3 DEF Late
<1>6. Late' = (stop = TRUE)
  BY <1>3, <1>5 DEF Late
<1>7. (IF ctl = "joined" THEN "stopped" ELSE IF stop THEN "stopping" ELSE "serving") =
      IF stop THEN "stopping" ELSE "serving"
  BY <1>2
<1> QED  BY <1>1, <1>2, <1>3, <1>4, <1>5, <1>6, <1>7 DEF Port!Serve

(* Unregister is the end of the service.                                   *)
LEMMA PortFinish ==
  ASSUME Inv, Unregister
  PROVE  Port!Finish
<1>1. cur # NoClient /\ cur' = NoClient /\ took' = took /\ stop' = stop /\ ctl' = ctl
  BY DEF Unregister, UnregisterTo, Goto, Inv, Busy, ctlVars
<1>2. Late' = Late
  BY <1>1 DEF Late
<1> QED  BY <1>1, <1>2 DEF Port!Finish

(* Storing the stop flag is the request to stop.                           *)
LEMMA PortAskStop ==
  ASSUME Inv, StoreStop
  PROVE  Port!AskStop
<1>1. ~stop /\ stop' /\ ctl = "running" /\ ctl' = "stored" /\ cur' = cur /\ took' = took
  BY DEF StoreStop, Inv, thrVars
<1>2. Late' = Late
  BY <1>1 DEF Late
<1> QED  BY <1>1, <1>2 DEF Port!AskStop

(* Joining the thread reports the port as stopped, with nobody served.     *)
LEMMA PortStopped ==
  ASSUME Inv, Join
  PROVE  Port!Stopped
<1>1. stop /\ stop' = stop /\ ctl = "joining" /\ ctl' = "joined" /\ cur' = cur /\ took' = took /\ cur = NoClient
  BY DEF Join, Inv, Busy, thrVars
<1>2. Late' = Late
  BY <1>1 DEF Late
<1> QED  BY <1>1, <1>2 DEF Port!Stopped

(* Every step of the port is a step of PortService or a stutter.           *)
LEMMA PortStep ==
  ASSUME Inv, Inv', [Next]_vars
  PROVE  [Port!Next]_(Port!vars)
<1> USE DEF ctlVars, thrVars
<1>1. CASE Accept
  BY <1>1, PortServe DEF Port!Next
<1>2. CASE Unregister
  BY <1>2, PortFinish DEF Port!Next
<1>3. CASE StoreStop
  BY <1>3, PortAskStop DEF Port!Next
<1>4. CASE Join
  BY <1>4, PortStopped DEF Port!Next
<1>5. CASE CutActive
  BY <1>5, PortStutters DEF CutActive
<1>6. CASE CheckStop \/ TurnAway \/ Sleep \/ IdleTick \/ IdleRead \/ Register \/ EndOnPeer
  BY <1>6, PortStutters DEF CheckStop, TurnAway, Sleep, IdleTick, IdleRead, Register, EndOnPeer, EndSession
<1>7. CASE Pump
  BY <1>7, PortStutters DEF Pump, Deliver, PumpFails, PumpResumes
<1>8. CASE Environment
  BY <1>8, PortStutters DEF Environment, EndOnDevice, EndOnHalf, EndSession, DeviceSays, Watch, Connect, Leave
<1>9. CASE UNCHANGED vars
  BY <1>9, PortStutters DEF vars
<1> QED  BY <1>1, <1>2, <1>3, <1>4, <1>5, <1>6, <1>7, <1>8, <1>9 DEF Next, Thread, Shutdown

(* A running port is what PortService promises: permitted clients, one at a *)
(* time and each once; after a stop at most one more; and `stopped` only    *)
(* with nobody served.  Accept serves, Unregister finishes, StoreStop asks  *)
(* for the stop, Join reports it, and every other step is a stutter.        *)
THEOREM PortImplemented == Spec => ImplementsPort
<1>1. Spec => []Inv
  BY SlotIsOurs
<1>2. Init => Port!Init
  BY PortInit
<1>3. Inv /\ Inv' /\ [Next]_vars => [Port!Next]_(Port!vars)
  BY PortStep
<1> QED  BY <1>1, <1>2, <1>3, PTL DEF Spec, ImplementsPort, Port!Spec
====
