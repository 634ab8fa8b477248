---- MODULE SessionProofs ----
(***************************************************************************)
(* What an RFC 2217 session promises its client and the next one, proved   *)
(* for any socket and any traffic: messages of the three threads stay whole*)
(* on the wire, and nothing of a session that has returned touches the     *)
(* device.                                                                 *)
(***************************************************************************)
EXTENDS Rfc2217Session, SequenceTheorems, TLAPS

(* The lock is held from the first byte of a message to its last, the      *)
(* reading pump has a setting to answer as long as it is answering it, and *)
(* no thread runs before it is spawned.                                    *)
LockInv == /\ \A t \in Thread : at[t] \in {"first", "second"} <=> lock = t
           /\ at["down"] \in {"want", "first", "second"} => chunk # <<>>
           /\ main = "setup" => at["notifier"] = "off"
           /\ main \in {"setup", "spawned"} => \A d \in Dir : at[d] = "off"

(* Half a message is on the wire only while its writer is in its second    *)
(* half, or for a client that nobody can write to any more.                *)
HalfInv ==
  /\ \A t \in Thread : at[t] = "second" =>
       /\ Len(Stream) % 2 = 1
       /\ Stream[Len(Stream)] = [by |-> t, n |-> Number(t), part |-> 1]
  /\ client # "gone" /\ (\A t \in Thread : at[t] # "second") => Len(Stream) % 2 = 0

WireInv == TypeOK /\ LockInv /\ HalfInv /\ WholeSequences
----------------------------------------------------------------------------
(* A half that is written comes last on the wire.                          *)
LEMMA StreamPut ==
  ASSUME toCli \in Seq(Half), got \in Seq(Half), NEW x \in Half,
         toCli' = Append(toCli, x), got' = got
  PROVE  /\ Len(Stream) \in Nat /\ Len(Stream') = Len(Stream) + 1
         /\ \A i \in 1..Len(Stream) : Stream'[i] = Stream[i]
         /\ Stream'[Len(Stream) + 1] = x
<1>1. toCli' = toCli \o <<x>> /\ <<x>> \in Seq(Half)
  BY AppendIsConcat
<1>2. Stream \in Seq(Half)
  BY ConcatProperties DEF Stream
<1>3. Stream' = Stream \o <<x>>
  BY <1>1, ConcatAssociative DEF Stream
<1>4. Stream' = Append(Stream, x)
  BY <1>2, <1>3, AppendIsConcat
<1> QED  BY <1>2, <1>4, AppendProperties

(* What the client reads moves from its socket to what it has read.        *)
LEMMA StreamTake ==
  ASSUME toCli \in Seq(Half), got \in Seq(Half), toCli # <<>>,
         toCli' = Tail(toCli), got' = Append(got, Head(toCli))
  PROVE  Stream' = Stream
<1>1. Head(toCli) \in Half /\ Tail(toCli) \in Seq(Half) /\ <<Head(toCli)>> \in Seq(Half)
  BY HeadTailProperties
<1>2. got' = got \o <<Head(toCli)>>
  BY <1>1, AppendIsConcat
<1>3. toCli = <<Head(toCli)>> \o Tail(toCli)
  <2>1. /\ Len(<<Head(toCli)>> \o Tail(toCli)) = Len(toCli)
        /\ \A i \in 1..Len(toCli) : (<<Head(toCli)>> \o Tail(toCli))[i] = toCli[i]
    BY <1>1, HeadTailProperties, ConcatProperties
  <2> QED  BY <1>1, <2>1, SeqEqual, ConcatProperties
<1>4. (got \o <<Head(toCli)>>) \o Tail(toCli) = got \o (<<Head(toCli)>> \o Tail(toCli))
  BY <1>1, ConcatAssociative
<1> QED  BY <1>2, <1>3, <1>4 DEF Stream

LEMMA Numbers == ASSUME TypeOK, NEW t \in Thread, t = "down" /\ chunk # <<>> => Head(chunk) \in Item
                 PROVE  Number(t) \in Nat
BY DEF TypeOK, Thread, Dir, Number, Item
----------------------------------------------------------------------------
LEMMA InitWire == Init => WireInv
<1> SUFFICES ASSUME Init PROVE WireInv
  OBVIOUS
<1>1. TypeOK
  <2>1. /\ main = "setup" /\ flag = FALSE /\ stop = FALSE /\ mail \subseteq Dir
        /\ lock = "free" /\ said = 0 /\ reports = 0 /\ sent = 0 /\ broken = FALSE
        /\ client = "here"
    BY DEF Init
  <2>2. at = [t \in Thread |-> "off"]
    BY DEF Init
  <2>3. /\ chunk \in Seq(Item) /\ pend \in Seq(Item) /\ dev \in Seq(Item)
        /\ toSrv \in Seq(Item) /\ toCli \in Seq(Half) /\ got \in Seq(Half)
    BY EmptySeq DEF Init
  <2> QED  BY <2>1, <2>2, <2>3 DEF TypeOK
<1>2. Stream = <<>>
  BY DEF Init, Stream
<1> QED  BY <1>1, <1>2 DEF WireInv, LockInv, HalfInv, WholeSequences, Init, Thread, Dir

LEMMA TypeStep == TypeOK /\ LockInv /\ [Next]_vars => TypeOK'
<1> SUFFICES ASSUME TypeOK, LockInv, [Next]_vars PROVE TypeOK'
  OBVIOUS
<1> USE SessionAssumption DEF TypeOK, Thread, Dir, mainVars, deviceVars, clientVars
<1>0. chunk # <<>> => Head(chunk) \in Item /\ Tail(chunk) \in Seq(Item)
  BY HeadTailProperties
<1>1. CASE Main
  <2>1. CASE SetupFails \/ ControlFails
    BY <2>1 DEF MainStep, SetupFails, ControlFails
  <2>2. CASE SpawnNotifier
    BY <2>2 DEF MainStep, SpawnNotifier
  <2>3. CASE StartBridge
    BY <2>3 DEF MainStep, StartBridge
  <2>4. CASE First \/ Second \/ Expire
    BY <2>4 DEF MainStep, First, Second, Expire, ExpireOn
  <2>5. CASE StopNotifier \/ Join
    BY <2>5 DEF MainStep, StopNotifier, StopTo, Join
  <2> QED  BY <1>1, <2>1, <2>2, <2>3, <2>4, <2>5 DEF Main
<1>2. ASSUME NEW t \in Thread, Writer(t) PROVE TypeOK'
  <2>0. Number(t) \in Nat
    BY <1>0, Numbers
  <2>1. CASE Check(t)
    BY <2>1 DEF Check, CheckAs, Step
  <2>2. CASE Lock(t)
    BY <2>2 DEF Lock, LockIf, Step
  <2>3. CASE WriteFirst(t)
    BY <2>0, <2>3 DEF WriteFirst, Put, Step, Half
  <2>4. CASE WriteRest(t)
    <3>1. t = "down" => chunk # <<>>
      BY <2>4 DEF WriteRest, Step, LockInv
    <3>2. [by |-> t, n |-> Number(t), part |-> 2] \in Half
      BY <2>0 DEF Half
    <3>3. at' \in [Thread -> {"off", "check", "reading", "again", "feed", "apply", "want",
                              "first", "second", "flush", "over", "done"}]
      BY <2>4 DEF WriteRest, Step
    <3> QED  BY <1>0, <2>4, <3>1, <3>2, <3>3 DEF WriteRest, Put
  <2>5. CASE WriteFails(t)
    <3>1. at' \in [Thread -> {"off", "check", "reading", "again", "feed", "apply", "want",
                              "first", "second", "flush", "over", "done"}]
      BY <2>5 DEF WriteFails
    <3>2. chunk' \in Seq(Item) /\ pend' \in Seq(Item)
      <4>1. CASE t = "down"
        BY <2>5, <4>1, EmptySeq DEF WriteFails
      <4>2. CASE t # "down"
        BY <2>5, <4>2 DEF WriteFails
      <4> QED  BY <4>1, <4>2
    <3> QED  BY <2>5, <3>1, <3>2 DEF WriteFails
  <2> QED  BY <1>2, <2>1, <2>2, <2>3, <2>4, <2>5 DEF Writer
<1>3. CASE ReadDevice \/ IdleDevice \/ DeviceEnds \/ Flush
  <2>1. CASE ReadDevice
    BY <2>1 DEF ReadDevice, Step
  <2>2. CASE IdleDevice
    BY <2>2 DEF IdleDevice, Step
  <2>3. CASE DeviceEnds
    BY <2>3 DEF DeviceEnds, Step
  <2>4. CASE Flush
    BY <2>4 DEF Flush, Step
  <2> QED  BY <1>3, <2>1, <2>2, <2>3, <2>4
<1>4. ASSUME NEW d \in Dir, Tell(d) PROVE TypeOK'
  BY <1>4 DEF Tell, Step
<1>5. CASE SampleSame \/ SampleChange
  <2>1. CASE SampleSame
    BY <2>1 DEF SampleSame, Step
  <2>2. CASE SampleChange
    BY <2>2 DEF SampleChange, Step
  <2> QED  BY <1>5, <2>1, <2>2
<1>6. CASE ReadSocket
  <2>1. PICK n \in 1..Len(toSrv) : chunk' = SubSeq(toSrv, 1, n)
                                   /\ toSrv' = SubSeq(toSrv, n + 1, Len(toSrv))
    BY <1>6 DEF ReadSocket
  <2>2. chunk' \in Seq(Item) /\ toSrv' \in Seq(Item)
    BY <2>1, SubSeqProperties, ElementOfSeq
  <2> QED  BY <1>6, <2>2 DEF ReadSocket
<1>7. CASE IdleSocket \/ SocketEnds
  <2>1. CASE IdleSocket
    BY <2>1 DEF IdleSocket
  <2>2. CASE SocketEnds
    BY <2>2 DEF SocketEnds
  <2> QED  BY <1>7, <2>1, <2>2
<1>8. CASE FeedData
  BY <1>0, <1>8, AppendProperties DEF FeedData
<1>9. CASE FeedSet
  BY <1>0, <1>9, AppendProperties DEF FeedSet, Step
<1>10. CASE Fed
  BY <1>10 DEF Fed, FedTo, Step
<1>11. CASE Apply
  BY <1>11, ConcatProperties DEF Apply, ApplyKeeping, Step
<1>12. CASE ApplyFails
  <2>1. PICK n \in 0..Len(pend) : dev' = dev \o SubSeq(pend, 1, n)
    BY <1>12 DEF ApplyFails
  <2>2. SubSeq(pend, 1, n) \in Seq(Item)
    BY SubSeqProperties, ElementOfSeq
  <2>3. dev' \in Seq(Item)
    BY <2>1, <2>2, ConcatProperties
  <2> QED  BY <1>12, <2>3 DEF ApplyFails, Step
<1>13. CASE HalfClose \/ Leave
  BY <1>13, ZenonT(60) DEF HalfClose, Leave, ClientIs
<1>14. CASE Send
  <2>1. PICK k \in {"data", "set"} : toSrv' = Append(toSrv, [n |-> sent + 1, is |-> k])
    BY <1>14 DEF Send
  <2>2. toSrv' \in Seq(Item)
    BY <2>1, AppendProperties DEF Item
  <2> QED  BY <1>14, <2>2 DEF Send
<1>15. CASE Take
  BY <1>15, HeadTailProperties, AppendProperties DEF Take
<1>16. CASE UNCHANGED vars
  BY <1>16 DEF vars
<1> QED  BY <1>1, <1>2, <1>3, <1>4, <1>5, <1>6, <1>7, <1>8, <1>9, <1>10, <1>11, <1>12, <1>13,
            <1>14, <1>15, <1>16 DEF Next, Up, Down, Notifier

(* A thread is between the halves of a message exactly while it has the    *)
(* lock, and only the reading pump consumes its chunk.                     *)
LEMMA LockStep == TypeOK /\ LockInv /\ [Next]_vars => LockInv'
<1> SUFFICES ASSUME TypeOK, LockInv, [Next]_vars PROVE LockInv'
  OBVIOUS
<1>0. /\ lock \in Thread \cup {"free"} /\ DOMAIN at = Thread
      /\ at \in [Thread -> {"off", "check", "reading", "again", "feed", "apply", "want",
                           "first", "second", "flush", "over", "done"}]
  BY DEF TypeOK
<1> USE <1>0 DEF LockInv, Thread, Dir, Step, mainVars, deviceVars, clientVars
<1>1. CASE Main
  <2>1. CASE SetupFails \/ ControlFails
    BY <2>1 DEF MainStep, SetupFails, ControlFails
  <2>2. CASE SpawnNotifier
    BY <2>2 DEF MainStep, SpawnNotifier
  <2>3. CASE StartBridge
    BY <2>3 DEF MainStep, StartBridge
  <2>4. CASE First \/ Second \/ Expire
    BY <2>4 DEF MainStep, First, Second, Expire, ExpireOn
  <2>5. CASE StopNotifier \/ Join
    BY <2>5 DEF MainStep, StopNotifier, StopTo, Join
  <2> QED  BY <1>1, <2>1, <2>2, <2>3, <2>4, <2>5 DEF Main
<1>2. ASSUME NEW t \in Thread, Writer(t) PROVE LockInv'
  <2>1. CASE Check(t)
    BY <2>1 DEF Check, CheckAs
  <2>2. CASE Lock(t)
    BY <2>2 DEF Lock, LockIf
  <2>3. CASE WriteFirst(t)
    BY <2>3 DEF WriteFirst, Put
  <2>4. CASE WriteRest(t)
    BY <2>4 DEF WriteRest, Put
  <2>5. CASE WriteFails(t)
    BY <2>5 DEF WriteFails
  <2> QED  BY <1>2, <2>1, <2>2, <2>3, <2>4, <2>5 DEF Writer
<1>3. CASE ReadDevice \/ IdleDevice \/ DeviceEnds
  BY <1>3 DEF ReadDevice, IdleDevice, DeviceEnds
<1>4. CASE Flush
  BY <1>4 DEF Flush
<1>5. ASSUME NEW d \in Dir, Tell(d) PROVE LockInv'
  BY <1>5 DEF Tell
<1>6. CASE SampleSame \/ SampleChange
  BY <1>6 DEF SampleSame, SampleChange
<1>7. CASE ReadSocket \/ IdleSocket \/ SocketEnds
  BY <1>7 DEF ReadSocket, IdleSocket, SocketEnds
<1>8. CASE FeedData \/ Fed
  BY <1>8 DEF FeedData, Fed, FedTo
<1>9. CASE FeedSet
  BY <1>9 DEF FeedSet
<1>10. CASE Apply \/ ApplyFails
  BY <1>10 DEF Apply, ApplyKeeping, ApplyFails
<1>11. CASE HalfClose \/ Leave \/ Send \/ Take
  BY <1>11 DEF HalfClose, Leave, ClientIs, Send, Take
<1>12. CASE UNCHANGED vars
  BY <1>12 DEF vars
<1> QED  BY <1>1, <1>2, <1>3, <1>4, <1>5, <1>6, <1>7, <1>8, <1>9, <1>10, <1>11, <1>12
         DEF Next, Up, Down, Notifier

(* A step that writes nothing, and neither begins nor ends a half, keeps   *)
(* the wire as it is.                                                      *)
LEMMA WireKept ==
  ASSUME HalfInv, WholeSequences, UNCHANGED Stream,
         client' # "gone" => client # "gone",
         \A t \in Thread : at'[t] = "second" <=> at[t] = "second",
         \A t \in Thread : at[t] = "second" => Number(t)' = Number(t)
  PROVE  HalfInv' /\ WholeSequences'
<1>1. Stream' = Stream
  OBVIOUS
<1>2. WholeSequences'
  BY <1>1 DEF WholeSequences
<1>3. ASSUME NEW t \in Thread, at'[t] = "second"
      PROVE  /\ Len(Stream') % 2 = 1
             /\ Stream'[Len(Stream')] = [by |-> t, n |-> Number(t)', part |-> 1]
  <2>1. at[t] = "second" /\ Number(t)' = Number(t)
    BY <1>3
  <2> QED  BY <1>1, <2>1 DEF HalfInv
<1>4. ASSUME client' # "gone", \A t \in Thread : at'[t] # "second"
      PROVE  Len(Stream') % 2 = 0
  <2>1. client # "gone" /\ \A t \in Thread : at[t] # "second"
    BY <1>4
  <2> QED  BY <1>1, <2>1 DEF HalfInv
<1>5. HalfInv'
  BY <1>3, <1>4 DEF HalfInv
<1> QED  BY <1>2, <1>5

LEMMA WireStep == TypeOK /\ LockInv /\ HalfInv /\ WholeSequences /\ [Next]_vars
                  => HalfInv' /\ WholeSequences'
<1> SUFFICES ASSUME TypeOK, LockInv, HalfInv, WholeSequences, [Next]_vars
             PROVE  HalfInv' /\ WholeSequences'
  OBVIOUS
<1>0. /\ at \in [Thread -> {"off", "check", "reading", "again", "feed", "apply", "want",
                           "first", "second", "flush", "over", "done"}]
      /\ toCli \in Seq(Half) /\ got \in Seq(Half)
      /\ \A t \in Thread : at[t] \in {"first", "second"} <=> lock = t
  BY DEF TypeOK, LockInv
<1>1. CASE Main
  <2>1. UNCHANGED <<Stream, client, chunk, said, reports>>
        /\ \A t \in Thread : at'[t] = "second" <=> at[t] = "second"
    <3>1. UNCHANGED <<Stream, client, chunk, said, reports>>
      BY <1>1 DEF Main, MainStep, SetupFails, SpawnNotifier, ControlFails, StartBridge, First,
                  Second, Expire, ExpireOn, StopNotifier, StopTo, Join, Stream, deviceVars,
                  clientVars
    <3>2. CASE SpawnNotifier
      BY <1>0, <3>1, <3>2 DEF SpawnNotifier, MainStep, LockInv
    <3>3. CASE StartBridge
      BY <1>0, <3>1, <3>3 DEF StartBridge, MainStep, LockInv
    <3>4. CASE SetupFails \/ ControlFails \/ First \/ Second \/ Expire \/ StopNotifier \/ Join
      BY <3>1, <3>4 DEF SetupFails, MainStep, ControlFails, First, Second, Expire, ExpireOn, StopNotifier,
                  StopTo, Join
    <3> QED  BY <1>1, <3>1, <3>2, <3>3, <3>4 DEF Main
  <2> QED  BY <2>1, WireKept DEF Number
<1>2. ASSUME NEW t \in Thread, Check(t) \/ Lock(t) PROVE HalfInv' /\ WholeSequences'
  <2>1. UNCHANGED <<Stream, client, chunk, said, reports>>
        /\ \A u \in Thread : at'[u] = "second" <=> at[u] = "second"
    BY <1>0, <1>2 DEF Check, CheckAs, Lock, LockIf, Step, Stream, deviceVars, clientVars
  <2> QED  BY <2>1, WireKept DEF Number
<1>3. ASSUME NEW t \in Thread, WriteFirst(t) PROVE HalfInv' /\ WholeSequences'
  <2>1. Number(t) \in Nat
    <3>1. t = "down" /\ chunk # <<>> => Head(chunk) \in Item
      BY HeadTailProperties DEF TypeOK
    <3> QED  BY <3>1, Numbers
  <2>2. [by |-> t, n |-> Number(t), part |-> 1] \in Half
    BY <2>1 DEF Half
  <2>3. /\ client # "gone" /\ UNCHANGED <<client, chunk, said, reports, got>>
        /\ toCli' = Append(toCli, [by |-> t, n |-> Number(t), part |-> 1])
        /\ at' = [at EXCEPT ![t] = "second"] /\ at[t] = "first"
    BY <1>3 DEF WriteFirst, Put, Step, deviceVars
  <2>4. /\ Len(Stream) \in Nat /\ Len(Stream') = Len(Stream) + 1
        /\ \A i \in 1..Len(Stream) : Stream'[i] = Stream[i]
        /\ Stream'[Len(Stream) + 1] = [by |-> t, n |-> Number(t), part |-> 1]
    BY <1>0, <2>2, <2>3, StreamPut
  <2>5. \A u \in Thread : at[u] # "second"
    BY <1>0, <2>3
  <2>6. Len(Stream) % 2 = 0
    BY <2>3, <2>5 DEF HalfInv
  <2>7. \A u \in Thread : at'[u] = "second" => u = t
    BY <1>0, <2>3, <2>5
  <2>8. Number(t)' = Number(t) /\ at'[t] = "second"
    BY <1>0, <2>3 DEF Number
  <2>9. HalfInv'
    BY <2>4, <2>6, <2>7, <2>8 DEF HalfInv
  <2>10. WholeSequences'
    <3> SUFFICES ASSUME NEW i \in 1..Len(Stream')
                 PROVE  IF i % 2 = 1 THEN Stream'[i].part = 1
                                     ELSE Stream'[i] = [Stream'[i - 1] EXCEPT !.part = 2]
      BY DEF WholeSequences
    <3>1. CASE i \in 1..Len(Stream)
      <4>1. i % 2 # 1 => i - 1 \in 1..Len(Stream)
        BY <2>4, <3>1
      <4> QED  BY <2>4, <3>1, <4>1 DEF WholeSequences
    <3>2. CASE i = Len(Stream) + 1
      BY <2>4, <2>6, <3>2
    <3> QED  BY <2>4, <3>1, <3>2
  <2> QED  BY <2>9, <2>10
<1>4. ASSUME NEW t \in Thread, WriteRest(t) PROVE HalfInv' /\ WholeSequences'
  <2>1. Number(t) \in Nat
    <3>1. t = "down" /\ chunk # <<>> => Head(chunk) \in Item
      BY HeadTailProperties DEF TypeOK
    <3> QED  BY <3>1, Numbers
  <2>2. [by |-> t, n |-> Number(t), part |-> 2] \in Half
    BY <2>1 DEF Half
  <2>3. /\ client # "gone" /\ UNCHANGED <<client, got>> /\ at[t] = "second"
        /\ toCli' = Append(toCli, [by |-> t, n |-> Number(t), part |-> 2])
        /\ at'[t] # "second" /\ \A u \in Thread : u # t => at'[u] = at[u]
    BY <1>0, <1>4 DEF WriteRest, Put, Step, deviceVars
  <2>4. /\ Len(Stream) \in Nat /\ Len(Stream') = Len(Stream) + 1
        /\ \A i \in 1..Len(Stream) : Stream'[i] = Stream[i]
        /\ Stream'[Len(Stream) + 1] = [by |-> t, n |-> Number(t), part |-> 2]
    BY <1>0, <2>2, <2>3, StreamPut
  <2>5. Len(Stream) % 2 = 1 /\ Stream[Len(Stream)] = [by |-> t, n |-> Number(t), part |-> 1]
    BY <2>3 DEF HalfInv
  <2>6. \A u \in Thread : at'[u] # "second"
    BY <1>0, <2>3
  <2>7. HalfInv'
    BY <2>4, <2>5, <2>6 DEF HalfInv
  <2>8. WholeSequences'
    <3> SUFFICES ASSUME NEW i \in 1..Len(Stream')
                 PROVE  IF i % 2 = 1 THEN Stream'[i].part = 1
                                     ELSE Stream'[i] = [Stream'[i - 1] EXCEPT !.part = 2]
      BY DEF WholeSequences
    <3>1. CASE i \in 1..Len(Stream)
      <4>1. i % 2 # 1 => i - 1 \in 1..Len(Stream)
        BY <2>4, <3>1
      <4> QED  BY <2>4, <3>1, <4>1 DEF WholeSequences
    <3>2. CASE i = Len(Stream) + 1
      <4>1. i % 2 # 1 /\ i - 1 = Len(Stream) /\ Len(Stream) \in 1..Len(Stream)
        BY <2>4, <2>5, <3>2
      <4>2. Stream'[i - 1] = [by |-> t, n |-> Number(t), part |-> 1]
        BY <2>4, <2>5, <4>1
      <4> QED  BY <2>4, <3>2, <4>1, <4>2
    <3> QED  BY <2>4, <3>1, <3>2
  <2> QED  BY <2>7, <2>8
<1>5. ASSUME NEW t \in Thread, WriteFails(t) PROVE HalfInv' /\ WholeSequences'
  <2>1. /\ UNCHANGED <<Stream, client, said, reports>> /\ client = "gone"
        /\ at'[t] # "second" /\ (t # "down" => chunk' = chunk)
        /\ \A u \in Thread : u # t => at'[u] = at[u] /\ at[u] # "second"
    BY <1>0, <1>5 DEF WriteFails, Stream, deviceVars, clientVars
  <2> QED  BY <1>0, <2>1 DEF HalfInv, WholeSequences, Number
<1>6. CASE Flush \/ (\E d \in Dir : Tell(d)) \/ SampleSame \/ IdleDevice \/ DeviceEnds
           \/ IdleSocket \/ SocketEnds \/ Fed \/ Apply \/ ApplyFails
  <2>1. UNCHANGED <<Stream, client, chunk, said, reports>>
        /\ \A u \in Thread : at'[u] = "second" <=> at[u] = "second"
    BY <1>0, <1>6 DEF Flush, Tell, SampleSame, IdleDevice, DeviceEnds, IdleSocket, SocketEnds,
                      Fed, FedTo, Apply, ApplyKeeping, ApplyFails, Step, Stream, deviceVars,
                      clientVars, Thread, Dir
  <2> QED  BY <2>1, WireKept DEF Number
<1>7. CASE ReadDevice
  <2>1. UNCHANGED <<Stream, client, chunk, reports>> /\ at["up"] = "reading"
        /\ \A u \in Thread : at'[u] = "second" <=> at[u] = "second"
    BY <1>0, <1>7 DEF ReadDevice, Step, Stream, clientVars
  <2> QED  BY <2>1, WireKept DEF Number, Thread, Dir
<1>8. CASE SampleChange
  <2>1. UNCHANGED <<Stream, client, chunk, said>> /\ at["notifier"] = "reading"
        /\ \A u \in Thread : at'[u] = "second" <=> at[u] = "second"
    BY <1>0, <1>8 DEF SampleChange, Step, Stream, clientVars
  <2> QED  BY <2>1, WireKept DEF Number, Thread, Dir
<1>9. CASE ReadSocket \/ FeedData \/ FeedSet
  <2>1. UNCHANGED <<Stream, client, said, reports>> /\ at["down"] # "second"
        /\ \A u \in Thread : at'[u] = "second" <=> at[u] = "second"
    BY <1>0, <1>9 DEF ReadSocket, FeedData, FeedSet, Step, Stream, deviceVars, clientVars
  <2> QED  BY <2>1, WireKept DEF Number, Thread, Dir
<1>10. CASE HalfClose \/ Leave \/ Send
  <2>1. UNCHANGED <<Stream, chunk, said, reports, at>> /\ (client' # "gone" => client # "gone")
    BY <1>10 DEF HalfClose, Leave, ClientIs, Send, Stream, deviceVars
  <2> QED  BY <2>1, WireKept DEF Number
<1>11. CASE Take
  <2>1. UNCHANGED <<chunk, said, reports, at, client>> /\ Stream' = Stream
    BY <1>0, <1>11, StreamTake DEF Take, deviceVars
  <2> QED  BY <2>1, WireKept DEF Number
<1>12. CASE UNCHANGED vars
  <2>1. UNCHANGED <<chunk, said, reports, at, client>> /\ Stream' = Stream
    BY <1>12 DEF vars, deviceVars, clientVars, Stream
  <2> QED  BY <2>1, WireKept DEF Number
<1> QED  BY <1>1, <1>2, <1>3, <1>4, <1>5, <1>6, <1>7, <1>8, <1>9, <1>10, <1>11, <1>12
         DEF Next, Up, Down, Notifier, Writer, Thread, Dir
(* The lock of SharedWriter (codec.rs:15-16) keeps every message whole,    *)
(* whatever the device says, the client sends and the lines do.            *)
THEOREM MessagesAreWhole == Spec => []Inv
<1>1. WireInv /\ [Next]_vars => WireInv'
  BY TypeStep, LockStep, WireStep DEF WireInv
<1>2. WireInv => Inv
  BY DEF WireInv, Inv
<1> QED  BY InitWire, <1>1, <1>2, PTL DEF Spec
----------------------------------------------------------------------------
(* How the pumps end.  A pump is done once it has reported; the flag is up *)
(* since the first report; the pump of the device ends, when the device    *)
(* does not fail, because its client is gone or because the other pump has *)
(* ended.  So when the grace is over, a pump that is left is the one of    *)
(* the device, with a chunk to write, and it ends before its next read.    *)
PumpInv ==
  /\ main \in {"setup", "spawned"} => \A d \in Dir : at[d] = "off"
  /\ at["up"] \notin {"again", "feed", "apply"}
  /\ \A d \in Dir : at[d] = "done" <=> d \in mail
  /\ flag <=> mail # {}
  /\ main \in {"grace", "ended", "join", "returned"} => flag
  /\ ~broken /\ at["up"] \in {"over", "done"} => client = "gone" \/ at["down"] \in {"over", "done"}
  /\ main \in {"ended", "join", "returned"} =>
       /\ at["up"] \in {"check", "want", "first", "second", "flush", "over", "done"}
       /\ ~broken => at["down"] = "done"
  /\ main = "returned" => at["notifier"] = "done"

LEMMA InitPump == Init => PumpInv
BY DEF Init, PumpInv, Thread, Dir

LEMMA PumpStep == TypeOK /\ PumpInv /\ [Next]_vars => PumpInv'
<1> SUFFICES ASSUME TypeOK, PumpInv, [Next]_vars PROVE PumpInv'
  OBVIOUS
<1>0. /\ mail \subseteq Dir /\ flag \in BOOLEAN /\ broken \in BOOLEAN /\ DOMAIN at = Thread
      /\ at \in [Thread -> {"off", "check", "reading", "again", "feed", "apply", "want",
                           "first", "second", "flush", "over", "done"}]
  BY DEF TypeOK
<1> USE <1>0 DEF PumpInv, Thread, Dir, Step, mainVars, deviceVars, clientVars
<1>1. CASE Main
  <2>1. CASE SetupFails \/ ControlFails
    BY <2>1 DEF MainStep, SetupFails, ControlFails
  <2>2. CASE SpawnNotifier
    BY <2>2 DEF MainStep, SpawnNotifier
  <2>3. CASE StartBridge
    BY <2>3 DEF MainStep, StartBridge
  <2>4. CASE First
    BY <2>4 DEF MainStep, First
  <2>5. CASE Second
    BY <2>5 DEF MainStep, Second
  <2>6. CASE Expire
    <3>1. PICK d \in Dir : Busy(d) /\ d \notin mail
      BY <2>6 DEF Expire, ExpireOn
    <3>2. /\ main = "grace" /\ main' = "ended"
          /\ UNCHANGED <<flag, mail, at, broken, client>>
      BY <2>6 DEF Expire, ExpireOn, MainStep
    <3>3. mail # {}
      BY <3>2
    <3>4. CASE d = "up"
      <4>1. at["down"] = "done"
        BY <3>1, <3>3, <3>4
      <4>2. at["up"] \in {"want", "first", "second", "flush"}
        BY <3>1, <3>4 DEF Busy
      <4>3. main' \notin {"setup", "spawned", "returned"} /\ flag'
        BY <3>2, <3>3
      <4> QED  BY <3>2, <4>1, <4>2, <4>3
    <3>5. CASE d = "down"
      <4>1. at["up"] = "done" /\ at["down"] # "done"
        BY <3>1, <3>3, <3>5
      <4>2. client # "gone" /\ at["down"] # "over"
        BY <3>1, <3>5 DEF Busy, SocketFull
      <4>3. broken
        BY <4>1, <4>2
      <4> QED  BY <3>2, <4>1, <4>3
    <3> QED  BY <3>4, <3>5
  <2>7. CASE StopNotifier \/ Join
    BY <2>7 DEF MainStep, StopNotifier, StopTo, Join
  <2> QED  BY <1>1, <2>1, <2>2, <2>3, <2>4, <2>5, <2>6, <2>7 DEF Main
<1>2. ASSUME NEW t \in Thread, Writer(t) PROVE PumpInv'
  <2>1. CASE Check(t)
    <3>1. CASE t = "up"
      BY <2>1, <3>1 DEF Check, CheckAs
    <3>2. CASE t = "down"
      BY <2>1, <3>2 DEF Check, CheckAs
    <3>3. CASE t = "notifier"
      BY <2>1, <3>3 DEF Check, CheckAs
    <3> QED  BY <3>1, <3>2, <3>3
  <2>2. CASE Lock(t)
    BY <2>2 DEF Lock, LockIf
  <2>3. CASE WriteFirst(t)
    BY <2>3 DEF WriteFirst, Put
  <2>4. CASE WriteRest(t)
    BY <2>4 DEF WriteRest, Put
  <2>5. CASE WriteFails(t)
    <3>1. UNCHANGED <<main, mail, flag, broken, client>> /\ client = "gone"
      BY <2>5 DEF WriteFails
    <3>2. /\ at[t] \in {"first", "second"}
          /\ at' = [at EXCEPT ![t] = IF t \in Dir THEN "over" ELSE "done"]
      BY <2>5 DEF WriteFails
    <3> QED  BY <3>1, <3>2
  <2> QED  BY <1>2, <2>1, <2>2, <2>3, <2>4, <2>5 DEF Writer
<1>3. CASE ReadDevice \/ IdleDevice \/ DeviceEnds
  BY <1>3 DEF ReadDevice, IdleDevice, DeviceEnds
<1>4. CASE Flush
  BY <1>4 DEF Flush
<1>5. ASSUME NEW d \in Dir, Tell(d) PROVE PumpInv'
  <2>1. CASE d = "up"
    BY <1>5, <2>1 DEF Tell
  <2>2. CASE d = "down"
    BY <1>5, <2>2 DEF Tell
  <2> QED  BY <2>1, <2>2
<1>6. CASE SampleSame \/ SampleChange
  BY <1>6 DEF SampleSame, SampleChange
<1>7. CASE ReadSocket \/ IdleSocket \/ SocketEnds
  BY <1>7 DEF ReadSocket, IdleSocket, SocketEnds
<1>8. CASE FeedData \/ Fed
  BY <1>8 DEF FeedData, Fed, FedTo
<1>9. CASE FeedSet
  BY <1>9 DEF FeedSet
<1>10. CASE Apply \/ ApplyFails
  BY <1>10 DEF Apply, ApplyKeeping, ApplyFails
<1>11. CASE HalfClose \/ Leave \/ Send \/ Take
  BY <1>11 DEF HalfClose, Leave, ClientIs, Send, Take
<1>12. CASE UNCHANGED vars
  BY <1>12 DEF vars
<1> QED  BY <1>1, <1>2, <1>3, <1>4, <1>5, <1>6, <1>7, <1>8, <1>9, <1>10, <1>11, <1>12
         DEF Next, Up, Down, Notifier

(* Only a pump that reads or writes the device, and a notifier that        *)
(* samples, touch it.                                                      *)
LEMMA WhoTouches ==
  ASSUME TypeOK, [Next]_vars, at["up"] # "reading", at["notifier"] # "reading",
         at["down"] \notin {"feed", "apply"}
  PROVE  UNCHANGED <<said, reports, dev>>
BY DEF Next, Up, Down, Notifier, Writer, Main, MainStep, SetupFails, SpawnNotifier, ControlFails,
       StartBridge, First, Second, Expire, ExpireOn, StopNotifier, StopTo, Join, Check, CheckAs,
       Lock, LockIf, WriteFirst, WriteRest, WriteFails, Put, ReadDevice, IdleDevice, DeviceEnds,
       Flush, Tell, SampleSame, SampleChange, ReadSocket, IdleSocket, SocketEnds, FeedData,
       FeedSet, Fed, FedTo, Apply, ApplyKeeping, ApplyFails, HalfClose, Leave, ClientIs, Send,
       Take, Step, vars, mainVars, deviceVars, clientVars

(* "Only one client is bridged at a time" (server.rs:69-70), as long as the*)
(* device does not fail: nothing of a session that has returned touches the*)
(* device, whichever pump outlasted bridge's grace.                        *)
THEOREM NothingTouchesAfterwards == Spec => SilentAfterwards
<1>1. WireInv /\ PumpInv /\ [Next]_vars => WireInv' /\ PumpInv'
  BY TypeStep, LockStep, WireStep, PumpStep DEF WireInv
<1>2. WireInv /\ PumpInv /\ [Next]_vars
      => [main = "returned" /\ ~broken => UNCHANGED <<said, reports, dev>>]_vars
  <2> SUFFICES ASSUME WireInv, PumpInv, [Next]_vars, main = "returned", ~broken
               PROVE  UNCHANGED <<said, reports, dev>>
    OBVIOUS
  <2>1. /\ TypeOK /\ at["notifier"] # "reading" /\ at["up"] # "reading"
        /\ at["down"] \notin {"feed", "apply"}
    BY DEF WireInv, PumpInv
  <2> QED  BY <2>1, WhoTouches
<1> QED  BY InitWire, InitPump, <1>1, <1>2, PTL DEF Spec, SilentAfterwards
----------------------------------------------------------------------------
(* Where an item is on its way.  What the pump has not read yet, and what   *)
(* it has read and not fed to the decoder, are the last items the client    *)
(* sent; Taken is the last one before those.  The setting the pump is       *)
(* answering is still the head of the chunk, and applied.                   *)
Answering == at["down"] \in {"want", "first", "second"}
Taken == sent - (Len(toSrv) + Len(chunk))
RunOf(q, n) == \A i \in DOMAIN q : q[i].n = n + i
QueueInv ==
  /\ Taken \in Nat
  /\ RunOf(chunk, Taken) /\ RunOf(toSrv, Taken + Len(chunk))
  /\ chunk # <<>> => at["down"] = "feed" \/ Answering
  /\ pend # <<>> => at["down"] \in {"feed", "apply"} \/ Answering
  /\ Answering => chunk # <<>> /\ Taken + 1 \in Applied

(* What was fed went to the device, or waits as data; data that waits comes *)
(* after all data the device has.                                           *)
Ordered(q) == \A i, j \in DOMAIN q :
  i < j /\ (q[i].is = "set" => q[j].is = "set") => q[i].n < q[j].n
Upto == IF Answering THEN Taken + 1 ELSE Taken
DeviceInv ==
  /\ Ordered(dev) /\ Ordered(pend)
  /\ NumbersIn(dev) \subseteq 1..Upto /\ NumbersIn(pend) \subseteq 1..Taken
  /\ \A j \in DOMAIN pend : pend[j].is = "data"
  /\ \A i \in DOMAIN dev, j \in DOMAIN pend : dev[i].is = "data" => dev[i].n < pend[j].n
  /\ at["down"] \notin {"over", "done"} => 1..Taken \subseteq NumbersIn(dev) \cup NumbersIn(pend)

(* Every setting applied is answered before the next item is fed, unless    *)
(* the pump ended first.                                                    *)
AnswerInv ==
  /\ \A i, j \in Answers : i < j => Stream[i].n < Stream[j].n
  /\ Answered \subseteq Applied /\ \A a \in Answered, s \in Applied \ Answered : a < s
  /\ at["down"] # "second" => Answered \subseteq 1..Taken
  /\ at["down"] = "second" => Answered \subseteq 1..(Taken + 1)
  /\ at["down"] \notin {"over", "done"} =>
       \A s \in Applied \ Answered : at["down"] \in {"want", "first"} /\ s = Taken + 1

OrderInv == QueueInv /\ DeviceInv /\ AnswerInv
----------------------------------------------------------------------------
(* Items in sequences.                                                      *)
LEMMA ItemSeq ==
  ASSUME NEW q \in Seq(Item)
  PROVE  /\ Len(q) \in Nat /\ DOMAIN q = 1..Len(q)
         /\ \A i \in DOMAIN q : q[i] \in Item /\ q[i].n \in Nat
<1>1. Len(q) \in Nat /\ DOMAIN q = 1..Len(q)
  BY LenProperties
<1>2. \A i \in DOMAIN q : q[i] \in Item
  BY <1>1, ElementOfSeq
<1> QED  BY <1>1, <1>2 DEF Item

LEMMA ItemsSplit ==
  ASSUME NEW q \in Seq(Item), NEW k \in 1..Len(q), NEW n \in Nat, RunOf(q, n)
  PROVE  /\ SubSeq(q, 1, k) \in Seq(Item) /\ Len(SubSeq(q, 1, k)) = k
         /\ SubSeq(q, k + 1, Len(q)) \in Seq(Item) /\ Len(SubSeq(q, k + 1, Len(q))) = Len(q) - k
         /\ RunOf(SubSeq(q, 1, k), n) /\ RunOf(SubSeq(q, k + 1, Len(q)), n + k)
<1>1. Len(q) \in Nat /\ \A i \in 1..Len(q) : q[i] \in Item
  BY ItemSeq
<1>2. /\ SubSeq(q, 1, k) \in Seq(Item) /\ Len(SubSeq(q, 1, k)) = k
      /\ \A i \in 1..k : SubSeq(q, 1, k)[i] = q[i]
  BY <1>1, SubSeqProperties
<1>3. /\ SubSeq(q, k + 1, Len(q)) \in Seq(Item) /\ Len(SubSeq(q, k + 1, Len(q))) = Len(q) - k
      /\ \A i \in 1..(Len(q) - k) : SubSeq(q, k + 1, Len(q))[i] = q[k + i]
  <2> DEFINE r == SubSeq(q, k + 1, Len(q))
  <2>1. k + 1 \in Int /\ Len(q) \in Int /\ \A i \in (k + 1)..Len(q) : q[i] \in Item
    BY <1>1
  <2>2. /\ r \in Seq(Item) /\ Len(r) = IF k + 1 <= Len(q) THEN Len(q) - (k + 1) + 1 ELSE 0
        /\ \A i \in 1..(Len(q) - (k + 1) + 1) : r[i] = q[k + 1 + i - 1]
    BY <2>1, SubSeqProperties
  <2> HIDE DEF r
  <2>3. Len(r) = Len(q) - k /\ \A i \in 1..(Len(q) - k) : r[i] = q[k + i]
    BY <1>1, <2>2
  <2> QED  BY <2>2, <2>3 DEF r
<1>4. RunOf(SubSeq(q, 1, k), n)
  <2> DEFINE r == SubSeq(q, 1, k)
  <2>1. r \in Seq(Item) /\ Len(r) = k /\ \A i \in 1..k : r[i] = q[i]
    BY <1>2
  <2> HIDE DEF r
  <2>2. DOMAIN r = 1..k /\ 1..k \subseteq DOMAIN q
    BY <1>1, <2>1, ItemSeq
  <2>3. RunOf(r, n)
    BY <2>1, <2>2 DEF RunOf
  <2> QED  BY <2>3 DEF r
<1>5. RunOf(SubSeq(q, k + 1, Len(q)), n + k)
  <2> DEFINE r == SubSeq(q, k + 1, Len(q))
  <2>1. r \in Seq(Item) /\ Len(r) = Len(q) - k /\ \A i \in 1..(Len(q) - k) : r[i] = q[k + i]
    BY <1>3
  <2> HIDE DEF r
  <2>2. DOMAIN r = 1..(Len(q) - k)
    BY <2>1, ItemSeq
  <2>3. \A i \in 1..(Len(q) - k) : k + i \in DOMAIN q /\ n + (k + i) = (n + k) + i
    BY <1>1, ItemSeq
  <2>4. RunOf(r, n + k)
    BY <2>1, <2>2, <2>3 DEF RunOf
  <2> QED  BY <2>4 DEF r
<1> QED  BY <1>2, <1>3, <1>4, <1>5

LEMMA ItemsTail ==
  ASSUME NEW q \in Seq(Item), q # <<>>, NEW n \in Nat, RunOf(q, n)
  PROVE  /\ Tail(q) \in Seq(Item) /\ Len(Tail(q)) = Len(q) - 1 /\ RunOf(Tail(q), n + 1)
         /\ Head(q) \in Item /\ Head(q).n = n + 1 /\ Len(q) \in Nat /\ Len(q) >= 1
<1>1. Len(q) \in Nat /\ Len(q) >= 1 /\ DOMAIN q = 1..Len(q)
  BY EmptySeq, LenProperties
<1>2. /\ Tail(q) \in Seq(Item) /\ Len(Tail(q)) = Len(q) - 1 /\ Head(q) = q[1] /\ Head(q) \in Item
      /\ \A i \in 1..(Len(q) - 1) : Tail(q)[i] = q[i + 1]
  BY <1>1, HeadTailProperties
<1>3. DOMAIN Tail(q) = 1..(Len(q) - 1)
  BY <1>2, ItemSeq
<1>4. \A i \in 1..(Len(q) - 1) : i + 1 \in DOMAIN q /\ n + (i + 1) = (n + 1) + i
  BY <1>1
<1>5. RunOf(Tail(q), n + 1)
  BY <1>2, <1>3, <1>4 DEF RunOf
<1>6. Head(q).n = n + 1
  BY <1>1, <1>2 DEF RunOf
<1> QED  BY <1>1, <1>2, <1>5, <1>6

LEMMA ItemsAppend ==
  ASSUME NEW q \in Seq(Item), NEW x \in Item
  PROVE  /\ Append(q, x) \in Seq(Item) /\ Len(Append(q, x)) = Len(q) + 1
         /\ NumbersIn(Append(q, x)) = NumbersIn(q) \cup {x.n}
         /\ \A i \in DOMAIN q : i < Len(q) + 1 /\ i \in DOMAIN Append(q, x) /\ Append(q, x)[i] = q[i]
         /\ Len(q) + 1 \in DOMAIN Append(q, x) /\ Append(q, x)[Len(q) + 1] = x
         /\ \A i \in DOMAIN Append(q, x) : i \in DOMAIN q \/ i = Len(q) + 1
<1> DEFINE r == Append(q, x)
<1>1. /\ r \in Seq(Item) /\ Len(r) = Len(q) + 1 /\ \A i \in 1..Len(q) : r[i] = q[i]
      /\ r[Len(q) + 1] = x
  BY AppendProperties
<1> HIDE DEF r
<1>2. Len(q) \in Nat /\ DOMAIN q = 1..Len(q) /\ DOMAIN r = 1..(Len(q) + 1)
  BY <1>1, ItemSeq
<1>3. /\ \A i \in DOMAIN q : i < Len(q) + 1 /\ i \in DOMAIN r /\ r[i] = q[i]
      /\ Len(q) + 1 \in DOMAIN r
      /\ \A i \in DOMAIN r : i \in DOMAIN q \/ i = Len(q) + 1
  BY <1>1, <1>2
<1>4. NumbersIn(r) = NumbersIn(q) \cup {x.n}
  BY <1>1, <1>3 DEF NumbersIn
<1> QED  BY <1>1, <1>3, <1>4 DEF r

LEMMA ItemsConcat ==
  ASSUME NEW p \in Seq(Item), NEW q \in Seq(Item)
  PROVE  /\ p \o q \in Seq(Item) /\ NumbersIn(p \o q) = NumbersIn(p) \cup NumbersIn(q)
         /\ \A i \in DOMAIN p : i \in DOMAIN (p \o q) /\ (p \o q)[i] = p[i] /\ i <= Len(p)
         /\ \A i \in DOMAIN q : Len(p) + i \in DOMAIN (p \o q) /\ (p \o q)[Len(p) + i] = q[i]
         /\ \A i \in DOMAIN (p \o q) : i \in DOMAIN p \/ \E k \in DOMAIN q : i = Len(p) + k
<1> DEFINE r == p \o q
<1>1. /\ r \in Seq(Item) /\ Len(r) = Len(p) + Len(q)
      /\ \A i \in 1..Len(r) : r[i] = IF i <= Len(p) THEN p[i] ELSE q[i - Len(p)]
  BY ConcatProperties
<1> HIDE DEF r
<1>2. /\ Len(p) \in Nat /\ Len(q) \in Nat /\ DOMAIN p = 1..Len(p) /\ DOMAIN q = 1..Len(q)
      /\ DOMAIN r = 1..(Len(p) + Len(q))
  BY <1>1, ItemSeq
<1>3. \A i \in DOMAIN p : i \in DOMAIN r /\ r[i] = p[i] /\ i <= Len(p)
  BY <1>1, <1>2
<1>4. \A i \in DOMAIN q : Len(p) + i \in DOMAIN r /\ r[Len(p) + i] = q[i]
  <2> TAKE i \in DOMAIN q
  <2>1. Len(p) + i \in 1..Len(r) /\ ~(Len(p) + i <= Len(p)) /\ (Len(p) + i) - Len(p) = i
    BY <1>1, <1>2
  <2> QED  BY <1>1, <1>2, <2>1
<1>5. \A i \in DOMAIN r : i \in DOMAIN p \/ \E k \in DOMAIN q : i = Len(p) + k
  <2> SUFFICES ASSUME NEW i \in DOMAIN r, i \notin DOMAIN p PROVE \E k \in DOMAIN q : i = Len(p) + k
    OBVIOUS
  <2>1. i - Len(p) \in DOMAIN q /\ i = Len(p) + (i - Len(p))
    BY <1>2
  <2> QED  BY <2>1
<1>6. NumbersIn(r) = NumbersIn(p) \cup NumbersIn(q)
  BY <1>3, <1>4, <1>5 DEF NumbersIn
<1> QED  BY <1>1, <1>3, <1>4, <1>5, <1>6 DEF r
----------------------------------------------------------------------------
(* Most steps move no item: they leave the sequences alone, and the pump of *)
(* the socket stays where it is, or passes a place where it has no chunk.   *)
Kept ==
  /\ UNCHANGED <<sent, toSrv, chunk, pend, dev>>
  /\ \/ at'["down"] = at["down"]
     \/ at["down"] \in {"off", "check", "reading", "again"} /\ at'["down"] \in {"check", "reading", "over"}
     \/ at["down"] = "over" /\ at'["down"] = "done"
     \/ at["down"] = "want" /\ at'["down"] = "first"
     \/ /\ at["down"] = "feed" /\ chunk = <<>>
        /\ at'["down"] = IF pend = <<>> THEN "again" ELSE "apply"

LEMMA KeptSteps ==
  ASSUME WireInv, [Next]_vars
  PROVE  \/ Kept \/ ReadSocket \/ FeedData \/ FeedSet \/ Apply \/ ApplyFails \/ Send
         \/ WriteFirst("down") \/ WriteRest("down") \/ WriteFails("down")
<1> USE DEF mainVars, deviceVars, clientVars
<1>0. /\ DOMAIN at = Thread /\ "down" \in Thread
      /\ main \in {"setup", "spawned"} => at["down"] = "off"
  BY DEF WireInv, TypeOK, LockInv, Thread, Dir
<1>1. CASE Main
  <2>1. UNCHANGED <<sent, toSrv, chunk, pend, dev>>
    BY <1>1 DEF Main, SetupFails, SpawnNotifier, ControlFails, StartBridge, First, Second, Expire,
                ExpireOn, StopNotifier, StopTo, Join, MainStep
  <2>2. at'["down"] = at["down"] \/ (at["down"] = "off" /\ at'["down"] = "check")
    BY <1>0, <1>1 DEF Main, SetupFails, SpawnNotifier, ControlFails, StartBridge, First, Second,
                Expire, ExpireOn, StopNotifier, StopTo, Join, MainStep, Thread, Dir
  <2> QED  BY <2>1, <2>2 DEF Kept
<1>2. ASSUME NEW t \in {"up", "notifier"}, Writer(t) PROVE Kept
  <2>1. at'["down"] = at["down"]
    BY <1>0, <1>2 DEF Writer, Check, CheckAs, Lock, LockIf, WriteFirst, WriteRest, WriteFails, Step
  <2>2. UNCHANGED <<sent, toSrv, chunk, pend, dev>>
    BY <1>2 DEF Writer, Check, CheckAs, Lock, LockIf, WriteFirst, WriteRest, WriteFails, Put
  <2> QED  BY <2>1, <2>2 DEF Kept
<1>3. CASE ReadDevice \/ IdleDevice \/ DeviceEnds \/ Flush \/ Tell("up") \/ SampleSame \/ SampleChange
  <2>1. at'["down"] = at["down"]
    BY <1>0, <1>3 DEF ReadDevice, IdleDevice, DeviceEnds, Flush, Tell, SampleSame, SampleChange, Step
  <2>2. UNCHANGED <<sent, toSrv, chunk, pend, dev>>
    BY <1>3 DEF ReadDevice, IdleDevice, DeviceEnds, Flush, Tell, SampleSame, SampleChange
  <2> QED  BY <2>1, <2>2 DEF Kept
<1>4. CASE Check("down") \/ Lock("down") \/ IdleSocket \/ SocketEnds \/ Fed \/ Tell("down")
  <2>1. UNCHANGED <<sent, toSrv, chunk, pend, dev>>
    BY <1>4 DEF Check, CheckAs, Lock, LockIf, IdleSocket, SocketEnds, Fed, FedTo, Tell
  <2>2. Check("down") => at["down"] = "check" /\ at'["down"] \in {"reading", "over"}
    BY <1>0 DEF Check, CheckAs, Step, Dir
  <2>3. Lock("down") => at["down"] = "want" /\ at'["down"] = "first"
    BY <1>0 DEF Lock, LockIf, Step
  <2>4. IdleSocket => at["down"] \in {"reading", "again"} /\ at'["down"] = "check"
    BY <1>0 DEF IdleSocket
  <2>5. SocketEnds => at["down"] \in {"reading", "again"} /\ at'["down"] = "over"
    BY <1>0 DEF SocketEnds
  <2>6. Fed => /\ at["down"] = "feed" /\ chunk = <<>>
               /\ at'["down"] = IF pend = <<>> THEN "again" ELSE "apply"
    BY <1>0 DEF Fed, FedTo, Step
  <2>7. Tell("down") => at["down"] = "over" /\ at'["down"] = "done"
    BY <1>0 DEF Tell, Step
  <2> QED  BY <1>4, <2>1, <2>2, <2>3, <2>4, <2>5, <2>6, <2>7 DEF Kept
<1>5. CASE HalfClose \/ Leave \/ Take \/ UNCHANGED vars
  BY <1>5 DEF HalfClose, Leave, ClientIs, Take, vars, Kept
<1> QED  BY <1>1, <1>2, <1>3, <1>4, <1>5 DEF Next, Up, Down, Notifier, Writer

LEMMA QueueTypes ==
  ASSUME WireInv
  PROVE  /\ toSrv \in Seq(Item) /\ chunk \in Seq(Item) /\ pend \in Seq(Item) /\ dev \in Seq(Item)
         /\ Len(toSrv) \in Nat /\ Len(chunk) \in Nat /\ sent \in Nat
         /\ DOMAIN at = Thread /\ "down" \in Thread
BY LenProperties DEF WireInv, TypeOK, Thread, Dir

LEMMA FeedSetAdds ==
  ASSUME WireInv, FeedSet
  PROVE  /\ Head(chunk) \in Item /\ Head(chunk).is = "set"
         /\ Applied' = Applied \cup {Head(chunk).n}
         /\ NumbersIn(dev') = NumbersIn(dev) \cup {Head(chunk).n}
<1>1. Head(chunk) \in Item /\ Head(chunk).is = "set" /\ dev' = Append(dev, Head(chunk))
  BY QueueTypes, HeadTailProperties DEF FeedSet
<1>2. dev \in Seq(Item)
  BY QueueTypes
<1> DEFINE h == Head(chunk)
<1>3. /\ NumbersIn(dev') = NumbersIn(dev) \cup {h.n}
      /\ \A i \in DOMAIN dev : i \in DOMAIN dev' /\ dev'[i] = dev[i]
      /\ Len(dev) + 1 \in DOMAIN dev' /\ dev'[Len(dev) + 1] = h
      /\ \A i \in DOMAIN dev' : i \in DOMAIN dev \/ i = Len(dev) + 1
  BY <1>1, <1>2, ItemsAppend
<1>4. Applied' = Applied \cup {h.n}
  BY <1>1, <1>3 DEF Applied
<1> QED  BY <1>1, <1>3, <1>4

(* The queues stay in order, whatever the pump does with them.              *)
LEMMA QueueStep ==
  WireInv /\ QueueInv /\ [Next]_vars => QueueInv'
<1> SUFFICES ASSUME WireInv, QueueInv, [Next]_vars PROVE QueueInv'
  OBVIOUS
<1> USE DEF deviceVars, clientVars
<1>0. /\ toSrv \in Seq(Item) /\ chunk \in Seq(Item) /\ pend \in Seq(Item) /\ dev \in Seq(Item)
      /\ Len(toSrv) \in Nat /\ Len(chunk) \in Nat /\ sent \in Nat
      /\ DOMAIN at = Thread /\ "down" \in Thread
  BY QueueTypes
<1>a. /\ Taken \in Nat /\ Taken = sent - (Len(toSrv) + Len(chunk))
      /\ RunOf(chunk, Taken) /\ RunOf(toSrv, Taken + Len(chunk))
  BY DEF QueueInv, Taken
<1>1. CASE Kept
  BY <1>1 DEF Kept, QueueInv, Taken, Answering, Applied
<1>2. CASE ReadSocket
  <2>1. PICK k \in 1..Len(toSrv) :
          chunk' = SubSeq(toSrv, 1, k) /\ toSrv' = SubSeq(toSrv, k + 1, Len(toSrv))
    BY <1>2 DEF ReadSocket
  <2>2. at["down"] \in {"reading", "again"} /\ at'["down"] = "feed" /\ sent' = sent /\ pend' = pend
    BY <1>0, <1>2 DEF ReadSocket
  <2>3. chunk = <<>> /\ pend = <<>> /\ Len(chunk) = 0
    BY <2>2 DEF QueueInv, Answering
  <2>4. RunOf(toSrv, Taken)
    BY <1>a, <2>3
  <2>5. /\ Len(chunk') = k /\ Len(toSrv') = Len(toSrv) - k
        /\ RunOf(chunk', Taken) /\ RunOf(toSrv', Taken + k)
    BY <1>0, <1>a, <2>1, <2>4, ItemsSplit
  <2>6. Taken' = Taken
    BY <1>0, <1>a, <2>2, <2>3, <2>5 DEF Taken
  <2> QED  BY <1>a, <2>2, <2>3, <2>5, <2>6 DEF QueueInv, Answering
<1>3. CASE FeedData \/ WriteRest("down")
  <2>1. /\ chunk # <<>> /\ chunk' = Tail(chunk) /\ toSrv' = toSrv /\ sent' = sent
        /\ at'["down"] = "feed"
    BY <1>0, <1>3 DEF FeedData, WriteRest, Step, Put, WireInv, LockInv
  <2>2. /\ Len(chunk') = Len(chunk) - 1 /\ RunOf(chunk', Taken + 1) /\ Len(chunk) >= 1
    BY <1>0, <1>a, <2>1, ItemsTail
  <2>3. Taken' = Taken + 1 /\ Taken' \in Nat
    BY <1>0, <1>a, <2>1, <2>2 DEF Taken
  <2>4. (Taken + 1) + Len(chunk') = Taken + Len(chunk)
    BY <1>0, <1>a, <2>2
  <2> QED  BY <1>a, <2>1, <2>2, <2>3, <2>4 DEF QueueInv, Answering
<1>4. CASE FeedSet
  <2>1. /\ UNCHANGED <<chunk, toSrv, sent, pend>> /\ chunk # <<>>
        /\ at["down"] = "feed" /\ at'["down"] = "want"
    BY <1>0, <1>4 DEF FeedSet, Step
  <2>2. Head(chunk).n = Taken + 1
    BY <1>0, <1>a, <2>1, ItemsTail
  <2>3. Taken + 1 \in Applied'
    BY <1>4, <2>2, FeedSetAdds
  <2>4. Taken' = Taken
    BY <2>1 DEF Taken
  <2> QED  BY <1>a, <2>1, <2>3, <2>4 DEF QueueInv, Answering
<1>5. CASE Apply \/ ApplyFails
  <2>1. /\ UNCHANGED <<chunk, toSrv, sent>> /\ pend' = <<>>
        /\ at["down"] = "apply" /\ at'["down"] \in {"check", "over"}
    BY <1>0, <1>5 DEF Apply, ApplyKeeping, ApplyFails, Step
  <2>2. chunk = <<>> /\ Taken' = Taken
    BY <2>1 DEF QueueInv, Answering, Taken
  <2> QED  BY <1>a, <2>1, <2>2 DEF QueueInv, Answering
<1>6. CASE Send
  <2>1. PICK k \in {"data", "set"} : toSrv' = Append(toSrv, [n |-> sent + 1, is |-> k])
    BY <1>6 DEF Send
  <2>2. UNCHANGED <<chunk, pend, dev, at>> /\ sent' = sent + 1
    BY <1>6 DEF Send
  <2> DEFINE x == [n |-> sent + 1, is |-> k]
  <2>3. x \in Item /\ x.n = sent + 1
    BY <1>0 DEF Item
  <2> HIDE DEF x
  <2>4. toSrv' = Append(toSrv, x)
    BY <2>1 DEF x
  <2>5. /\ Len(toSrv') = Len(toSrv) + 1 /\ toSrv'[Len(toSrv) + 1] = x
        /\ \A i \in DOMAIN toSrv : toSrv'[i] = toSrv[i]
        /\ \A i \in DOMAIN toSrv' : i \in DOMAIN toSrv \/ i = Len(toSrv) + 1
    BY <1>0, <2>3, <2>4, ItemsAppend
  <2>6. Taken' = Taken
    BY <1>0, <2>2, <2>5 DEF Taken
  <2>7. (Taken + Len(chunk)) + (Len(toSrv) + 1) = sent + 1
    BY <1>0, <1>a
  <2>8. RunOf(toSrv', Taken + Len(chunk))
    BY <1>a, <2>3, <2>5, <2>7 DEF RunOf
  <2> QED  BY <1>a, <2>2, <2>6, <2>8 DEF QueueInv, Answering, Applied
<1>7. CASE WriteFirst("down")
  <2>1. UNCHANGED <<chunk, toSrv, sent, pend, dev>> /\ at["down"] = "first" /\ at'["down"] = "second"
    BY <1>0, <1>7 DEF WriteFirst, Step, Put
  <2> QED  BY <2>1 DEF QueueInv, Answering, Taken, Applied
<1>8. CASE WriteFails("down")
  <2>1. /\ UNCHANGED <<toSrv, sent>> /\ chunk' = <<>> /\ pend' = <<>> /\ at'["down"] = "over"
    BY <1>0, <1>8 DEF WriteFails, Dir
  <2>2. Taken' = Taken + Len(chunk) /\ Taken' \in Nat /\ Taken' + Len(chunk') = Taken + Len(chunk)
    BY <1>0, <1>a, <2>1 DEF Taken
  <2>3. RunOf(chunk', Taken')
    BY <2>1 DEF RunOf
  <2> QED  BY <1>a, <2>1, <2>2, <2>3 DEF QueueInv, Answering
<1> QED  BY <1>1, <1>2, <1>3, <1>4, <1>5, <1>6, <1>7, <1>8, KeptSteps
----------------------------------------------------------------------------
LEMMA NumbersBound ==
  ASSUME NEW q \in Seq(Item), NEW n \in Nat, NumbersIn(q) \subseteq 1..n
  PROVE  \A i \in DOMAIN q : q[i].n \in 1..n
<1>1. \A i \in DOMAIN q : q[i].n \in NumbersIn(q)
  BY DEF NumbersIn
<1> QED  BY <1>1

LEMMA OrderedAppend ==
  ASSUME NEW q \in Seq(Item), NEW x \in Item, Ordered(q),
         \A i \in DOMAIN q : (q[i].is = "set" => x.is = "set") => q[i].n < x.n
  PROVE  Ordered(Append(q, x))
<1> DEFINE r == Append(q, x)
<1>1. /\ \A i \in DOMAIN q : i < Len(q) + 1 /\ r[i] = q[i]
      /\ r[Len(q) + 1] = x
      /\ \A i \in DOMAIN r : i \in DOMAIN q \/ i = Len(q) + 1
  BY ItemsAppend
<1> HIDE DEF r
<1>2. Len(q) \in Nat /\ \A i \in DOMAIN q : i \in Nat
  BY ItemSeq
<1>3. ASSUME NEW i \in DOMAIN r, NEW j \in DOMAIN r, i < j, r[i].is = "set" => r[j].is = "set"
      PROVE  r[i].n < r[j].n
  <2>1. i \in DOMAIN q
    BY <1>1, <1>2, <1>3
  <2>2. CASE j \in DOMAIN q
    BY <1>1, <1>3, <2>1, <2>2 DEF Ordered
  <2>3. CASE j = Len(q) + 1
    BY <1>1, <1>3, <2>1, <2>3
  <2> QED  BY <1>1, <2>2, <2>3
<1> QED  BY <1>3 DEF Ordered, r

LEMMA OrderedConcat ==
  ASSUME NEW p \in Seq(Item), NEW q \in Seq(Item), Ordered(p), Ordered(q),
         \A i \in DOMAIN p, j \in DOMAIN q : (p[i].is = "set" => q[j].is = "set") => p[i].n < q[j].n
  PROVE  Ordered(p \o q)
<1> DEFINE r == p \o q
<1>1. /\ \A i \in DOMAIN p : r[i] = p[i] /\ i <= Len(p)
      /\ \A i \in DOMAIN q : r[Len(p) + i] = q[i]
      /\ \A i \in DOMAIN r : i \in DOMAIN p \/ \E k \in DOMAIN q : i = Len(p) + k
  BY ItemsConcat
<1> HIDE DEF r
<1>2. /\ Len(p) \in Nat /\ \A i \in DOMAIN p : i \in Nat
      /\ \A i \in DOMAIN q : i \in Nat /\ i >= 1
  BY ItemSeq
<1>3. ASSUME NEW i \in DOMAIN r, NEW j \in DOMAIN r, i < j, r[i].is = "set" => r[j].is = "set"
      PROVE  r[i].n < r[j].n
  <2>1. CASE i \in DOMAIN p /\ j \in DOMAIN p
    BY <1>1, <1>3, <2>1 DEF Ordered
  <2>2. ASSUME i \in DOMAIN p, NEW k \in DOMAIN q, j = Len(p) + k PROVE r[i].n < r[j].n
    BY <1>1, <1>3, <2>2
  <2>3. ASSUME NEW l \in DOMAIN q, i = Len(p) + l, NEW k \in DOMAIN q, j = Len(p) + k
        PROVE  r[i].n < r[j].n
    <3>1. l < k
      BY <1>2, <1>3, <2>3
    <3> QED  BY <1>1, <1>3, <2>3, <3>1 DEF Ordered
  <2>4. ASSUME NEW l \in DOMAIN q, i = Len(p) + l, j \in DOMAIN p PROVE FALSE
    BY <1>1, <1>2, <1>3, <2>4
  <2> QED  BY <1>1, <2>1, <2>2, <2>3, <2>4
<1> QED  BY <1>3 DEF Ordered, r

(* A part of the data that waits.                                           *)
LEMMA Prefix ==
  ASSUME NEW q \in Seq(Item), NEW k \in 0..Len(q)
  PROVE  /\ SubSeq(q, 1, k) \in Seq(Item)
         /\ \A i \in DOMAIN SubSeq(q, 1, k) : i \in DOMAIN q /\ SubSeq(q, 1, k)[i] = q[i]
<1>1. Len(q) \in Nat /\ DOMAIN q = 1..Len(q) /\ \A i \in 1..k : q[i] \in Item
  BY ItemSeq
<1>2. /\ SubSeq(q, 1, k) \in Seq(Item) /\ Len(SubSeq(q, 1, k)) = IF 1 <= k THEN k - 1 + 1 ELSE 0
      /\ \A i \in 1..(k - 1 + 1) : SubSeq(q, 1, k)[i] = q[1 + i - 1]
  BY <1>1, SubSeqProperties
<1> DEFINE r == SubSeq(q, 1, k)
<1>3. /\ r \in Seq(Item) /\ Len(r) = IF 1 <= k THEN k - 1 + 1 ELSE 0
      /\ \A i \in 1..(k - 1 + 1) : r[i] = q[1 + i - 1]
  BY <1>2
<1> HIDE DEF r
<1>4. Len(r) = k /\ \A i \in 1..k : r[i] = q[i]
  BY <1>1, <1>3
<1>5. DOMAIN r = 1..k /\ 1..k \subseteq DOMAIN q
  BY <1>1, <1>3, <1>4, ItemSeq
<1> QED  BY <1>3, <1>4, <1>5 DEF r

(* The data that waits goes to the device, all of it or a part.             *)
LEMMA ApplyAdds ==
  ASSUME WireInv, DeviceInv, NEW q \in Seq(Item), dev' = dev \o q,
         \A i \in DOMAIN q : i \in DOMAIN pend /\ q[i] = pend[i]
  PROVE  /\ Applied' = Applied /\ NumbersIn(dev') = NumbersIn(dev) \cup NumbersIn(q)
         /\ NumbersIn(q) \subseteq NumbersIn(pend) /\ Ordered(dev')
<1>1. dev \in Seq(Item) /\ pend \in Seq(Item)
  BY QueueTypes
<1>2. /\ NumbersIn(dev') = NumbersIn(dev) \cup NumbersIn(q)
      /\ \A i \in DOMAIN dev : i \in DOMAIN dev' /\ dev'[i] = dev[i]
      /\ \A i \in DOMAIN q : dev'[Len(dev) + i] = q[i]
      /\ \A i \in DOMAIN dev' : i \in DOMAIN dev \/ \E k \in DOMAIN q : i = Len(dev) + k
  BY <1>1, ItemsConcat
<1>3. \A i \in DOMAIN q : q[i].is = "data"
  BY DEF DeviceInv
<1>4. Applied' = Applied
  <2>1. {i \in DOMAIN dev' : dev'[i].is = "set"} = {i \in DOMAIN dev : dev[i].is = "set"}
    BY <1>2, <1>3
  <2>2. \A i \in {i \in DOMAIN dev : dev[i].is = "set"} : dev'[i] = dev[i]
    BY <1>2
  <2> QED  BY <2>1, <2>2 DEF Applied
<1>5. NumbersIn(q) \subseteq NumbersIn(pend)
  BY DEF NumbersIn
<1>6. Ordered(q)
  <2>1. Ordered(pend)
    BY DEF DeviceInv
  <2> QED  BY <2>1 DEF Ordered
<1>7. \A i \in DOMAIN dev, j \in DOMAIN q : (dev[i].is = "set" => q[j].is = "set") => dev[i].n < q[j].n
  <2>1. \A i \in DOMAIN dev : dev[i] \in Item
    BY <1>1, ItemSeq
  <2>2. \A i \in DOMAIN dev : dev[i].is = "set" \/ dev[i].is = "data"
    BY <2>1 DEF Item
  <2> QED  BY <1>3, <2>2 DEF DeviceInv
<1>8. Ordered(dev')
  <2>1. Ordered(dev)
    BY DEF DeviceInv
  <2> QED  BY <1>1, <1>6, <1>7, <2>1, OrderedConcat
<1> QED  BY <1>2, <1>4, <1>5, <1>8
----------------------------------------------------------------------------
(* What a step takes from the queues: nothing, but for the pump, which      *)
(* takes the next item when it sets data aside, applies a setting before it *)
(* has answered it, and drops what is left when its client is gone.         *)
Quiet == /\ Taken' = Taken /\ Upto' = Upto
         /\ at'["down"] \notin {"over", "done"} => at["down"] \notin {"over", "done"}

LEMMA PumpItems ==
  ASSUME WireInv, QueueInv, [Next]_vars
  PROVE  /\ Taken \in Nat /\ DOMAIN at = Thread /\ "down" \in Thread
         /\ \/ Kept /\ Quiet
            \/ ReadSocket /\ Quiet
            \/ Send /\ Quiet
            \/ WriteFirst("down") /\ Quiet /\ Upto = Taken + 1 /\ Head(chunk).n = Taken + 1
            \/ /\ FeedData /\ Taken' = Taken + 1 /\ Upto = Taken /\ Upto' = Taken + 1
               /\ Head(chunk) \in Item /\ Head(chunk).n = Taken + 1
            \/ /\ FeedSet /\ Taken' = Taken /\ Upto = Taken /\ Upto' = Taken + 1
               /\ Head(chunk).n = Taken + 1
            \/ (Apply \/ ApplyFails) /\ Taken' = Taken /\ Upto' = Taken /\ Upto = Taken
            \/ WriteRest("down") /\ Taken' = Taken + 1 /\ Upto = Taken + 1 /\ Upto' = Taken + 1
            \/ /\ WriteFails("down") /\ Upto = Taken + 1
               /\ Taken' \in Nat /\ Taken' >= Taken + 1 /\ Upto' = Taken'
<1> USE DEF deviceVars, clientVars
<1>0. /\ toSrv \in Seq(Item) /\ chunk \in Seq(Item) /\ pend \in Seq(Item) /\ dev \in Seq(Item)
      /\ Len(toSrv) \in Nat /\ Len(chunk) \in Nat /\ sent \in Nat
      /\ DOMAIN at = Thread /\ "down" \in Thread
  BY QueueTypes
<1>a. /\ Taken \in Nat /\ Taken = sent - (Len(toSrv) + Len(chunk))
      /\ RunOf(chunk, Taken) /\ RunOf(toSrv, Taken + Len(chunk))
  BY DEF QueueInv, Taken
<1>b. chunk # <<>> => /\ Len(Tail(chunk)) = Len(chunk) - 1 /\ Len(chunk) >= 1
                      /\ Head(chunk) \in Item /\ Head(chunk).n = Taken + 1
  BY <1>0, <1>a, ItemsTail
<1>1. CASE Kept
  <2>1. Kept /\ Quiet
    BY <1>1 DEF Kept, Taken, Upto, Answering, Quiet
  <2> QED  BY <1>0, <1>a, <2>1
<1>2. CASE ReadSocket
  <2>1. PICK k \in 1..Len(toSrv) :
          chunk' = SubSeq(toSrv, 1, k) /\ toSrv' = SubSeq(toSrv, k + 1, Len(toSrv))
    BY <1>2 DEF ReadSocket
  <2>2. at["down"] \in {"reading", "again"} /\ at'["down"] = "feed" /\ sent' = sent
    BY <1>0, <1>2 DEF ReadSocket
  <2>3. chunk = <<>> /\ Len(chunk) = 0
    BY <2>2 DEF QueueInv, Answering
  <2>4. RunOf(toSrv, Taken)
    BY <1>a, <2>3
  <2>5. Len(chunk') = k /\ Len(toSrv') = Len(toSrv) - k
    BY <1>0, <1>a, <2>1, <2>4, ItemsSplit
  <2>6. Taken' = Taken
    BY <1>0, <1>a, <2>2, <2>3, <2>5 DEF Taken
  <2>7. Quiet
    BY <2>2, <2>6 DEF Quiet, Upto, Answering
  <2> QED  BY <1>0, <1>2, <1>a, <2>7
<1>3. CASE FeedData
  <2>1. /\ chunk # <<>> /\ chunk' = Tail(chunk) /\ toSrv' = toSrv /\ sent' = sent
        /\ at["down"] = "feed" /\ at' = at
    BY <1>3 DEF FeedData
  <2>2. Taken' = Taken + 1
    BY <1>0, <1>a, <1>b, <2>1 DEF Taken
  <2>3. Upto = Taken /\ Upto' = Taken + 1
    BY <2>1, <2>2 DEF Upto, Answering
  <2> QED  BY <1>0, <1>3, <1>a, <1>b, <2>1, <2>2, <2>3
<1>4. CASE FeedSet
  <2>1. /\ UNCHANGED <<chunk, toSrv, sent>> /\ chunk # <<>>
        /\ at["down"] = "feed" /\ at'["down"] = "want"
    BY <1>0, <1>4 DEF FeedSet, Step
  <2>2. Taken' = Taken
    BY <2>1 DEF Taken
  <2>3. Upto = Taken /\ Upto' = Taken + 1
    BY <2>1, <2>2 DEF Upto, Answering
  <2> QED  BY <1>0, <1>4, <1>a, <1>b, <2>1, <2>2, <2>3
<1>5. CASE Apply \/ ApplyFails
  <2>1. /\ UNCHANGED <<chunk, toSrv, sent>>
        /\ at["down"] = "apply" /\ at'["down"] \in {"check", "over"}
    BY <1>0, <1>5 DEF Apply, ApplyKeeping, ApplyFails, Step
  <2>2. Taken' = Taken /\ Upto' = Taken /\ Upto = Taken
    BY <2>1 DEF Taken, Upto, Answering
  <2> QED  BY <1>0, <1>5, <1>a, <2>2
<1>6. CASE Send
  <2>1. PICK k \in {"data", "set"} : toSrv' = Append(toSrv, [n |-> sent + 1, is |-> k])
    BY <1>6 DEF Send
  <2>2. UNCHANGED <<chunk, at>> /\ sent' = sent + 1
    BY <1>6 DEF Send
  <2> DEFINE x == [n |-> sent + 1, is |-> k]
  <2>3. x \in Item
    BY <1>0 DEF Item
  <2> HIDE DEF x
  <2>4. toSrv' = Append(toSrv, x)
    BY <2>1 DEF x
  <2>5. Len(toSrv') = Len(toSrv) + 1
    BY <1>0, <2>3, <2>4, ItemsAppend
  <2>6. Taken' = Taken
    BY <1>0, <2>2, <2>5 DEF Taken
  <2>7. Quiet
    BY <2>2, <2>6 DEF Quiet, Upto, Answering
  <2> QED  BY <1>0, <1>6, <1>a, <2>7
<1>7. CASE WriteFirst("down")
  <2>1. UNCHANGED <<chunk, toSrv, sent>> /\ at["down"] = "first" /\ at'["down"] = "second"
    BY <1>0, <1>7 DEF WriteFirst, Step, Put
  <2>2. Quiet /\ Upto = Taken + 1 /\ chunk # <<>>
    BY <2>1 DEF Quiet, Taken, Upto, Answering, QueueInv
  <2> QED  BY <1>0, <1>7, <1>a, <1>b, <2>2
<1>8. CASE WriteRest("down")
  <2>1. /\ chunk # <<>> /\ chunk' = Tail(chunk) /\ toSrv' = toSrv /\ sent' = sent
        /\ at["down"] = "second" /\ at'["down"] = "feed"
    BY <1>0, <1>8 DEF WriteRest, Step, Put, WireInv, LockInv
  <2>2. Taken' = Taken + 1
    BY <1>0, <1>a, <1>b, <2>1 DEF Taken
  <2>3. Upto = Taken + 1 /\ Upto' = Taken + 1
    BY <2>1, <2>2 DEF Upto, Answering
  <2> QED  BY <1>0, <1>8, <1>a, <2>2, <2>3
<1>9. CASE WriteFails("down")
  <2>1. /\ UNCHANGED <<toSrv, sent>> /\ chunk' = <<>> /\ at["down"] \in {"first", "second"}
        /\ at'["down"] = "over"
    BY <1>0, <1>9 DEF WriteFails, Dir
  <2>2. Taken' = Taken + Len(chunk)
    BY <1>0, <1>a, <2>1 DEF Taken
  <2>3. Upto = Taken + 1 /\ chunk # <<>> /\ Upto' = Taken'
    BY <2>1 DEF Upto, Answering, QueueInv
  <2>4. Taken' \in Nat /\ Taken' >= Taken + 1
    BY <1>0, <1>a, <1>b, <2>2, <2>3
  <2> QED  BY <1>0, <1>9, <1>a, <2>3, <2>4
<1> QED  BY <1>1, <1>2, <1>3, <1>4, <1>5, <1>6, <1>7, <1>8, <1>9, KeptSteps

(* The numbers the device has and those that wait grow in order, and none   *)
(* is left out.                                                             *)
LEMMA DeviceStep ==
  WireInv /\ QueueInv /\ DeviceInv /\ [Next]_vars => DeviceInv'
<1> SUFFICES ASSUME WireInv, QueueInv, DeviceInv, [Next]_vars PROVE DeviceInv'
  OBVIOUS
<1> USE DEF deviceVars, clientVars
<1>0. /\ chunk \in Seq(Item) /\ pend \in Seq(Item) /\ dev \in Seq(Item)
      /\ DOMAIN at = Thread /\ "down" \in Thread /\ Taken \in Nat
  BY QueueTypes, PumpItems
<1>a. /\ Ordered(dev) /\ Ordered(pend)
      /\ NumbersIn(dev) \subseteq 1..Upto /\ NumbersIn(pend) \subseteq 1..Taken
      /\ \A j \in DOMAIN pend : pend[j].is = "data"
      /\ \A i \in DOMAIN dev, j \in DOMAIN pend : dev[i].is = "data" => dev[i].n < pend[j].n
      /\ at["down"] \notin {"over", "done"} => 1..Taken \subseteq NumbersIn(dev) \cup NumbersIn(pend)
  BY DEF DeviceInv
<1>b. ASSUME Upto = Taken
      PROVE  /\ \A i \in DOMAIN dev : dev[i].n \in 1..Taken
             /\ \A i \in DOMAIN pend : pend[i].n \in 1..Taken
  BY <1>0, <1>a, <1>b, NumbersBound
<1>1. CASE UNCHANGED <<dev, pend>> /\ Quiet
  BY <1>a, <1>1 DEF DeviceInv, Quiet, Ordered, NumbersIn
<1>2. CASE /\ FeedData /\ Taken' = Taken + 1 /\ Upto = Taken /\ Upto' = Taken + 1
           /\ Head(chunk) \in Item /\ Head(chunk).n = Taken + 1
  <2> DEFINE h == Head(chunk)
  <2>1. pend' = Append(pend, h) /\ dev' = dev /\ at' = at /\ at["down"] = "feed"
        /\ h \in Item /\ h.n = Taken + 1 /\ h.is = "data"
    BY <1>2 DEF FeedData
  <2> HIDE DEF h
  <2>2. /\ NumbersIn(pend') = NumbersIn(pend) \cup {Taken + 1}
        /\ \A i \in DOMAIN pend : pend'[i] = pend[i]
        /\ pend'[Len(pend) + 1] = h
        /\ \A i \in DOMAIN pend' : i \in DOMAIN pend \/ i = Len(pend) + 1
    BY <1>0, <2>1, ItemsAppend
  <2>3. /\ \A i \in DOMAIN dev : dev[i].n < Taken + 1
        /\ \A i \in DOMAIN pend : pend[i].n < Taken + 1
    BY <1>0, <1>2, <1>b
  <2>4. Ordered(pend')
    BY <1>0, <1>a, <2>1, <2>3, OrderedAppend
  <2>5. /\ 1..Taken \subseteq 1..(Taken + 1) /\ Taken + 1 \in 1..(Taken + 1)
        /\ 1..(Taken + 1) = 1..Taken \cup {Taken + 1}
    BY <1>0
  <2>6. NumbersIn(pend') \subseteq 1..Taken' /\ NumbersIn(dev') \subseteq 1..Upto'
    BY <1>2, <1>a, <2>1, <2>2, <2>5
  <2>7. \A j \in DOMAIN pend' : pend'[j].is = "data"
    BY <1>a, <2>1, <2>2
  <2>8. \A i \in DOMAIN dev', j \in DOMAIN pend' : dev'[i].is = "data" => dev'[i].n < pend'[j].n
    BY <1>a, <2>1, <2>2, <2>3
  <2>9. 1..Taken' \subseteq NumbersIn(dev') \cup NumbersIn(pend')
    BY <1>2, <1>a, <2>1, <2>2, <2>5
  <2>10. Ordered(dev')
    BY <1>a, <2>1
  <2> QED  BY <2>4, <2>6, <2>7, <2>8, <2>9, <2>10 DEF DeviceInv, Ordered
<1>3. CASE /\ FeedSet /\ Taken' = Taken /\ Upto = Taken /\ Upto' = Taken + 1
           /\ Head(chunk).n = Taken + 1
  <2> DEFINE h == Head(chunk)
  <2>1. /\ pend' = pend /\ at["down"] = "feed" /\ dev' = Append(dev, h)
        /\ h \in Item /\ h.n = Taken + 1 /\ h.is = "set"
        /\ NumbersIn(dev') = NumbersIn(dev) \cup {Taken + 1}
    BY <1>3, FeedSetAdds DEF FeedSet, Step
  <2> HIDE DEF h
  <2>2. /\ \A i \in DOMAIN dev : dev'[i] = dev[i]
        /\ dev'[Len(dev) + 1] = h
        /\ \A i \in DOMAIN dev' : i \in DOMAIN dev \/ i = Len(dev) + 1
    BY <1>0, <2>1, ItemsAppend
  <2>3. \A i \in DOMAIN dev : dev[i].n < Taken + 1
    BY <1>0, <1>3, <1>b
  <2>4. Ordered(dev')
    BY <1>0, <1>a, <2>1, <2>3, OrderedAppend
  <2>5. NumbersIn(dev') \subseteq 1..Upto'
    BY <1>0, <1>3, <1>a, <2>1
  <2>6. \A i \in DOMAIN dev', j \in DOMAIN pend' : dev'[i].is = "data" => dev'[i].n < pend'[j].n
    BY <1>a, <2>1, <2>2
  <2>7. at["down"] \notin {"over", "done"}
    BY <2>1
  <2> QED  BY <1>3, <1>a, <2>1, <2>4, <2>5, <2>6, <2>7 DEF DeviceInv, Ordered, NumbersIn
<1>4. CASE (Apply \/ ApplyFails) /\ Taken' = Taken /\ Upto' = Taken /\ Upto = Taken
  <2>1. pend' = <<>> /\ at["down"] = "apply"
    BY <1>4 DEF Apply, ApplyKeeping, ApplyFails, Step
  <2>2. DOMAIN pend' = {} /\ NumbersIn(pend') = {} /\ Ordered(pend')
    BY <2>1 DEF NumbersIn, Ordered
  <2>3. /\ Ordered(dev') /\ NumbersIn(dev') \subseteq NumbersIn(dev) \cup NumbersIn(pend)
        /\ Apply => NumbersIn(dev') = NumbersIn(dev) \cup NumbersIn(pend)
        /\ ApplyFails => at'["down"] = "over"
    <3>1. CASE Apply
      <4>1. dev' = dev \o pend /\ \A i \in DOMAIN pend : i \in DOMAIN pend /\ pend[i] = pend[i]
        BY <3>1 DEF Apply, ApplyKeeping
      <4>2. Ordered(dev') /\ NumbersIn(dev') = NumbersIn(dev) \cup NumbersIn(pend)
        BY <1>0, <4>1, ApplyAdds
      <4>3. ~ApplyFails
        BY <1>0, <3>1 DEF Apply, ApplyKeeping, ApplyFails, Step
      <4> QED  BY <4>2, <4>3
    <3>2. CASE ApplyFails
      <4>1. PICK k \in 0..Len(pend) : dev' = dev \o SubSeq(pend, 1, k)
        BY <3>2 DEF ApplyFails
      <4> DEFINE q == SubSeq(pend, 1, k)
      <4>2. q \in Seq(Item) /\ \A i \in DOMAIN q : i \in DOMAIN pend /\ q[i] = pend[i]
        BY <1>0, Prefix
      <4>3. dev' = dev \o q
        BY <4>1
      <4> HIDE DEF q
      <4>4. /\ Ordered(dev') /\ NumbersIn(dev') = NumbersIn(dev) \cup NumbersIn(q)
            /\ NumbersIn(q) \subseteq NumbersIn(pend)
        BY <4>2, <4>3, ApplyAdds
      <4>5. at'["down"] = "over" /\ ~Apply
        BY <1>0, <3>2 DEF Apply, ApplyKeeping, ApplyFails, Step
      <4> QED  BY <4>4, <4>5
    <3> QED  BY <1>4, <3>1, <3>2
  <2>4. NumbersIn(dev') \subseteq 1..Upto' /\ NumbersIn(pend') \subseteq 1..Taken'
    BY <1>4, <1>a, <2>2, <2>3
  <2>5. at'["down"] \notin {"over", "done"} => 1..Taken' \subseteq NumbersIn(dev') \cup NumbersIn(pend')
    BY <1>4, <1>a, <2>1, <2>2, <2>3
  <2> QED  BY <2>2, <2>3, <2>4, <2>5 DEF DeviceInv, Ordered
<1>5. CASE WriteRest("down") /\ Taken' = Taken + 1 /\ Upto = Taken + 1 /\ Upto' = Taken + 1
  <2>1. UNCHANGED <<dev, pend>> /\ at["down"] = "second"
    BY <1>5 DEF WriteRest, Put, Step
  <2>2. Taken + 1 \in NumbersIn(dev)
    BY <2>1 DEF QueueInv, Answering, Applied, NumbersIn
  <2>3. 1..Taken \subseteq 1..(Taken + 1) /\ 1..(Taken + 1) = 1..Taken \cup {Taken + 1}
    BY <1>0
  <2>4. NumbersIn(dev') = NumbersIn(dev) /\ NumbersIn(pend') = NumbersIn(pend)
    BY <2>1 DEF NumbersIn
  <2>5. /\ NumbersIn(dev') \subseteq 1..Upto' /\ NumbersIn(pend') \subseteq 1..Taken'
        /\ 1..Taken' \subseteq NumbersIn(dev') \cup NumbersIn(pend')
    BY <1>5, <1>a, <2>1, <2>2, <2>3, <2>4
  <2> QED  BY <1>a, <2>1, <2>5 DEF DeviceInv, Ordered
<1>6. CASE /\ WriteFails("down") /\ Upto = Taken + 1
           /\ Taken' \in Nat /\ Taken' >= Taken + 1 /\ Upto' = Taken'
  <2>1. dev' = dev /\ pend' = <<>> /\ at'["down"] = "over"
    BY <1>0, <1>6 DEF WriteFails, Dir
  <2>2. DOMAIN pend' = {} /\ NumbersIn(pend') = {} /\ Ordered(pend')
    BY <2>1 DEF NumbersIn, Ordered
  <2>3. 1..(Taken + 1) \subseteq 1..Taken'
    BY <1>0, <1>6
  <2>4. NumbersIn(dev') \subseteq 1..Upto'
    BY <1>6, <1>a, <2>1, <2>3 DEF NumbersIn
  <2> QED  BY <1>a, <2>1, <2>2, <2>4 DEF DeviceInv, Ordered
<1>7. Kept \/ ReadSocket \/ Send \/ WriteFirst("down") => UNCHANGED <<dev, pend>>
  BY DEF Kept, ReadSocket, Send, WriteFirst, Put
<1> QED  BY <1>1, <1>2, <1>3, <1>4, <1>5, <1>6, <1>7, PumpItems
----------------------------------------------------------------------------
(* The answers on the wire: a step adds the first half of one, at the end,  *)
(* or leaves them as they are.                                              *)
LEMMA AnswersKept ==
  ASSUME WireInv, QueueInv, [Next]_vars, ~WriteFirst("down")
  PROVE  Answers' = Answers /\ \A i \in Answers : Stream'[i].n = Stream[i].n
<1>0. /\ toCli \in Seq(Half) /\ got \in Seq(Half) /\ TypeOK
      /\ DOMAIN at = Thread /\ "down" \in Thread
  BY QueueTypes DEF WireInv, TypeOK
<1>1. CASE Stream' = Stream
  BY <1>1 DEF Answers
<1>2. ASSUME NEW t \in Thread, NEW p \in {1, 2}, Put(t, p), t # "down" \/ p = 2,
             t = "down" => chunk # <<>>
      PROVE  Answers' = Answers /\ \A i \in Answers : Stream'[i].n = Stream[i].n
  <2>1. Number(t) \in Nat
    <3>1. t = "down" /\ chunk # <<>> => Head(chunk) \in Item
      BY QueueTypes, HeadTailProperties
    <3> QED  BY <1>0, <3>1, Numbers
  <2> DEFINE x == [by |-> t, n |-> Number(t), part |-> p]
  <2>2. x \in Half /\ ~(x.by = "down" /\ x.part = 1)
    BY <1>2, <2>1 DEF Half
  <2>3. toCli' = Append(toCli, x) /\ got' = got
    BY <1>2 DEF Put
  <2> HIDE DEF x
  <2>4. /\ Len(Stream) \in Nat /\ Len(Stream') = Len(Stream) + 1
        /\ \A i \in 1..Len(Stream) : Stream'[i] = Stream[i]
        /\ Stream'[Len(Stream) + 1] = x
    BY <1>0, <2>2, <2>3, StreamPut
  <2>5. Stream \in Seq(Half) /\ Stream' \in Seq(Half)
    BY <1>0, <2>2, <2>3, AppendProperties, ConcatProperties DEF Stream
  <2>6. DOMAIN Stream = 1..Len(Stream) /\ DOMAIN Stream' = 1..(Len(Stream) + 1)
    BY <2>4, <2>5, LenProperties
  <2>7. \A i \in DOMAIN Stream' : i \in DOMAIN Stream \/ i = Len(Stream) + 1
    BY <2>4, <2>6
  <2>8. DOMAIN Stream \subseteq DOMAIN Stream' /\ \A i \in DOMAIN Stream : Stream'[i] = Stream[i]
    BY <2>4, <2>6
  <2> QED  BY <2>2, <2>4, <2>7, <2>8 DEF Answers
<1>3. CASE UNCHANGED <<toCli, got>>
  BY <1>1, <1>3 DEF Stream
<1>4. CASE Take
  <2>1. toCli # <<>> /\ toCli' = Tail(toCli) /\ got' = Append(got, Head(toCli))
    BY <1>4 DEF Take
  <2> QED  BY <1>0, <1>1, <2>1, StreamTake
<1>5. ASSUME NEW t \in Thread, WriteFirst(t) PROVE t # "down" /\ Put(t, 1)
  BY <1>5 DEF WriteFirst
<1>6. ASSUME NEW t \in Thread, WriteRest(t)
      PROVE  Put(t, 2) /\ (t = "down" => chunk # <<>>)
  BY <1>0, <1>6 DEF WriteRest, Step, WireInv, LockInv
<1>7. ASSUME NEW t \in Thread, Writer(t)
      PROVE  UNCHANGED <<toCli, got>> \/ WriteFirst(t) \/ WriteRest(t)
  BY <1>7 DEF Writer, Check, CheckAs, Lock, LockIf, WriteFails, clientVars
<1>8. ASSUME NEW t \in Thread, WriteFirst(t) \/ WriteRest(t)
      PROVE  Answers' = Answers /\ \A i \in Answers : Stream'[i].n = Stream[i].n
  BY <1>2, <1>5, <1>6, <1>8
<1>9. \/ UNCHANGED <<toCli, got>> \/ Take
      \/ \E t \in Thread : WriteFirst(t) \/ WriteRest(t)
  <2>1. CASE Main
    BY <2>1 DEF Main, SetupFails, SpawnNotifier, ControlFails, StartBridge, First, Second, Expire,
                ExpireOn, StopNotifier, StopTo, Join, MainStep, clientVars
  <2>2. CASE \E t \in Thread : Writer(t)
    BY <1>7, <2>2
  <2>3. CASE ReadDevice \/ IdleDevice \/ DeviceEnds \/ Flush \/ Tell("up") \/ SampleSame
             \/ SampleChange \/ Tell("down")
    BY <2>3 DEF ReadDevice, IdleDevice, DeviceEnds, Flush, Tell, SampleSame, SampleChange, clientVars
  <2>4. CASE ReadSocket \/ IdleSocket \/ SocketEnds \/ FeedData \/ FeedSet \/ Fed \/ Apply \/ ApplyFails
    BY <2>4 DEF ReadSocket, IdleSocket, SocketEnds, FeedData, FeedSet, Fed, FedTo, Apply, ApplyKeeping,
                ApplyFails, clientVars
  <2>5. CASE HalfClose \/ Leave \/ Send \/ Take \/ UNCHANGED vars
    BY <2>5 DEF HalfClose, Leave, ClientIs, Send, vars, clientVars
  <2> QED  BY <2>1, <2>2, <2>3, <2>4, <2>5 DEF Next, Up, Down, Notifier, Thread, Dir
<1> QED  BY <1>3, <1>4, <1>8, <1>9

LEMMA AnswerPut ==
  ASSUME WireInv, QueueInv, WriteFirst("down")
  PROVE  /\ Len(Stream) \in Nat /\ Answers' = Answers \cup {Len(Stream) + 1}
         /\ \A i \in Answers : i < Len(Stream) + 1 /\ Stream'[i].n = Stream[i].n
         /\ Stream'[Len(Stream) + 1].n = Head(chunk).n
<1>0. toCli \in Seq(Half) /\ got \in Seq(Half) /\ "down" \in Thread
  BY DEF WireInv, TypeOK, Thread, Dir
<1>1. chunk # <<>>
  BY DEF WriteFirst, Step, WireInv, LockInv
<1>2. Head(chunk) \in Item /\ Number("down") = Head(chunk).n /\ Number("down") \in Nat
  <2>1. Head(chunk) \in Item
    BY <1>1, QueueTypes, HeadTailProperties
  <2>2. Number("down") = Head(chunk).n
    BY <1>1 DEF Number
  <2> QED  BY <2>1, <2>2 DEF Item
<1> DEFINE x == [by |-> "down", n |-> Number("down"), part |-> 1]
<1>3. x \in Half /\ x.by = "down" /\ x.part = 1 /\ x.n = Head(chunk).n
  BY <1>0, <1>2 DEF Half
<1>4. toCli' = Append(toCli, x) /\ got' = got
  BY DEF WriteFirst, Put
<1> HIDE DEF x
<1>5. /\ Len(Stream) \in Nat /\ Len(Stream') = Len(Stream) + 1
      /\ \A i \in 1..Len(Stream) : Stream'[i] = Stream[i]
      /\ Stream'[Len(Stream) + 1] = x
  BY <1>0, <1>3, <1>4, StreamPut
<1>6. Stream \in Seq(Half) /\ Stream' \in Seq(Half)
  BY <1>0, <1>3, <1>4, AppendProperties, ConcatProperties DEF Stream
<1>7. DOMAIN Stream = 1..Len(Stream) /\ DOMAIN Stream' = 1..(Len(Stream) + 1)
  BY <1>5, <1>6, LenProperties
<1>8. /\ \A i \in DOMAIN Stream' : i \in DOMAIN Stream \/ i = Len(Stream) + 1
      /\ Len(Stream) + 1 \in DOMAIN Stream'
      /\ \A i \in DOMAIN Stream : i < Len(Stream) + 1 /\ i \in DOMAIN Stream' /\ Stream'[i] = Stream[i]
  BY <1>5, <1>7
<1>9. Answers' = Answers \cup {Len(Stream) + 1}
  BY <1>3, <1>5, <1>8 DEF Answers
<1> QED  BY <1>3, <1>5, <1>8, <1>9 DEF Answers

(* Every setting is answered in its turn, before the next item is fed.      *)
LEMMA AnswerStep ==
  WireInv /\ QueueInv /\ DeviceInv /\ AnswerInv /\ [Next]_vars => AnswerInv'
<1> SUFFICES ASSUME WireInv, QueueInv, DeviceInv, AnswerInv, [Next]_vars PROVE AnswerInv'
  OBVIOUS
<1> USE DEF deviceVars, clientVars
<1>0. /\ pend \in Seq(Item) /\ dev \in Seq(Item)
      /\ DOMAIN at = Thread /\ "down" \in Thread /\ Taken \in Nat
  BY QueueTypes, PumpItems
<1>a. /\ \A i, j \in Answers : i < j => Stream[i].n < Stream[j].n
      /\ Answered \subseteq Applied /\ \A a \in Answered, s \in Applied \ Answered : a < s
      /\ at["down"] # "second" => Answered \subseteq 1..Taken
      /\ at["down"] = "second" => Answered \subseteq 1..(Taken + 1)
      /\ at["down"] \notin {"over", "done"} =>
           \A s \in Applied \ Answered : at["down"] \in {"want", "first"} /\ s = Taken + 1
  BY DEF AnswerInv
<1>b. 1..Taken \subseteq 1..(Taken + 1) /\ \A a \in 1..Taken : a < Taken + 1
  BY <1>0
<1>c. ASSUME ~WriteFirst("down")
      PROVE  Answered' = Answered /\ \A i, j \in Answers' : i < j => Stream'[i].n < Stream'[j].n
  <2>1. Answers' = Answers /\ \A i \in Answers : Stream'[i].n = Stream[i].n
    BY <1>c, AnswersKept
  <2> QED  BY <1>a, <2>1 DEF Answered
<1>d. dev' = dev => Applied' = Applied
  BY DEF Applied
<1>1. CASE Kept /\ Quiet
  <2>1. ~WriteFirst("down")
    BY <1>0, <1>1 DEF WriteFirst, Step, Kept
  <2>2. Applied' = Applied /\ Taken' = Taken
    BY <1>1, <1>d DEF Kept, Quiet
  <2>3. /\ at'["down"] = "second" <=> at["down"] = "second"
        /\ at["down"] \in {"want", "first"} => at'["down"] \in {"want", "first"}
    BY <1>1 DEF Kept
  <2>4. at'["down"] \notin {"over", "done"} => at["down"] \notin {"over", "done"}
    BY <1>1 DEF Quiet
  <2> QED  BY <1>a, <1>c, <2>1, <2>2, <2>3, <2>4 DEF AnswerInv
<1>2. CASE ReadSocket /\ Quiet
  <2>1. at["down"] \in {"reading", "again"} /\ at'["down"] = "feed" /\ dev' = dev
    BY <1>0, <1>2 DEF ReadSocket
  <2>2. ~WriteFirst("down") /\ Applied' = Applied /\ Taken' = Taken
    BY <1>2, <1>d, <2>1 DEF WriteFirst, Step, Quiet
  <2> QED  BY <1>a, <1>c, <2>1, <2>2 DEF AnswerInv
<1>3. CASE Send /\ Quiet
  <2>1. at' = at /\ dev' = dev
    BY <1>3 DEF Send
  <2>2. ~WriteFirst("down") /\ Applied' = Applied /\ Taken' = Taken
    BY <1>0, <1>3, <1>d, <2>1 DEF WriteFirst, Step, Quiet
  <2> QED  BY <1>a, <1>c, <2>1, <2>2 DEF AnswerInv
<1>4. CASE WriteFirst("down") /\ Quiet /\ Upto = Taken + 1 /\ Head(chunk).n = Taken + 1
  <2>1. at["down"] = "first" /\ at'["down"] = "second" /\ dev' = dev
    BY <1>0, <1>4 DEF WriteFirst, Step, Put
  <2>2. Applied' = Applied /\ Taken' = Taken /\ Taken + 1 \in Applied
    BY <1>4, <1>d, <2>1 DEF Quiet, QueueInv, Answering
  <2> DEFINE e == Len(Stream) + 1
  <2>3. /\ e \in Nat /\ Answers' = Answers \cup {e}
        /\ \A i \in Answers : i < e /\ Stream'[i].n = Stream[i].n
        /\ Stream'[e].n = Taken + 1
    BY <1>4, AnswerPut
  <2> HIDE DEF e
  <2>4. \A i \in Answers : Stream[i].n < Taken + 1 /\ ~(e < i)
    <3>1. \A i \in Answers : Stream[i].n \in Answered
      BY DEF Answered
    <3>2. \A i \in Answers : i \in Nat
      <4>1. Stream \in Seq(Half)
        BY ConcatProperties DEF Stream, WireInv, TypeOK
      <4> QED  BY <4>1, LenProperties DEF Answers
    <3> QED  BY <1>a, <1>b, <2>1, <2>3, <3>1, <3>2
  <2>5. \A i, j \in Answers' : i < j => Stream'[i].n < Stream'[j].n
    <3>1. ~(e < e)
      BY <2>3
    <3> QED  BY <1>a, <2>3, <2>4, <3>1
  <2>6. Answered' = Answered \cup {Taken + 1}
    BY <2>3 DEF Answered
  <2>7. Applied' \ Answered' = {}
    BY <1>a, <2>1, <2>2, <2>6
  <2>8. Answered' \subseteq 1..(Taken' + 1)
    BY <1>0, <1>a, <1>b, <2>1, <2>2, <2>6
  <2> QED  BY <1>a, <2>1, <2>2, <2>5, <2>6, <2>7, <2>8 DEF AnswerInv
<1>5. CASE FeedData /\ Taken' = Taken + 1
  <2>1. at["down"] = "feed" /\ at' = at /\ dev' = dev
    BY <1>5 DEF FeedData
  <2>2. ~WriteFirst("down") /\ Applied' = Applied
    BY <1>d, <2>1 DEF WriteFirst, Step
  <2> QED  BY <1>5, <1>a, <1>b, <1>c, <2>1, <2>2 DEF AnswerInv
<1>6. CASE FeedSet /\ Taken' = Taken /\ Head(chunk).n = Taken + 1
  <2>1. at["down"] = "feed" /\ at'["down"] = "want"
    BY <1>0, <1>6 DEF FeedSet, Step
  <2>2. ~WriteFirst("down")
    BY <2>1 DEF WriteFirst, Step
  <2>3. Applied' = Applied \cup {Taken + 1} /\ Answered' = Answered
    BY <1>6, <1>c, <2>2, FeedSetAdds
  <2>4. Answered \subseteq 1..Taken /\ \A s \in Applied' \ Answered : s = Taken + 1
    BY <1>a, <2>1, <2>3
  <2>5. \A a \in Answered', s \in Applied' \ Answered' : a < s
    BY <1>b, <2>3, <2>4
  <2> QED  BY <1>6, <1>a, <1>c, <2>1, <2>2, <2>3, <2>4, <2>5 DEF AnswerInv
<1>7. CASE (Apply \/ ApplyFails) /\ Taken' = Taken
  <2>1. at["down"] = "apply" /\ at'["down"] \in {"check", "over"}
    BY <1>0, <1>7 DEF Apply, ApplyKeeping, ApplyFails, Step
  <2>2. ~WriteFirst("down")
    BY <2>1 DEF WriteFirst, Step
  <2>3. Applied' = Applied
    <3>1. CASE Apply
      <4>1. dev' = dev \o pend /\ \A i \in DOMAIN pend : i \in DOMAIN pend /\ pend[i] = pend[i]
        BY <3>1 DEF Apply, ApplyKeeping
      <4> QED  BY <1>0, <4>1, ApplyAdds
    <3>2. CASE ApplyFails
      <4>1. PICK k \in 0..Len(pend) : dev' = dev \o SubSeq(pend, 1, k)
        BY <3>2 DEF ApplyFails
      <4> DEFINE q == SubSeq(pend, 1, k)
      <4>2. q \in Seq(Item) /\ \A i \in DOMAIN q : i \in DOMAIN pend /\ q[i] = pend[i]
        BY <1>0, Prefix
      <4>3. dev' = dev \o q
        BY <4>1
      <4> HIDE DEF q
      <4> QED  BY <4>2, <4>3, ApplyAdds
    <3> QED  BY <1>7, <3>1, <3>2
  <2> QED  BY <1>7, <1>a, <1>c, <2>1, <2>2, <2>3 DEF AnswerInv
<1>8. CASE WriteRest("down") /\ Taken' = Taken + 1
  <2>1. at["down"] = "second" /\ at'["down"] = "feed" /\ dev' = dev
    BY <1>0, <1>8 DEF WriteRest, Step, Put
  <2>2. ~WriteFirst("down") /\ Applied' = Applied
    BY <1>d, <2>1 DEF WriteFirst, Step
  <2> QED  BY <1>8, <1>a, <1>c, <2>1, <2>2 DEF AnswerInv
<1>9. CASE WriteFails("down") /\ Taken' \in Nat /\ Taken' >= Taken + 1
  <2>1. at["down"] \in {"first", "second"} /\ at'["down"] = "over" /\ dev' = dev
    BY <1>0, <1>9 DEF WriteFails, Dir
  <2>2. ~WriteFirst("down") /\ Applied' = Applied
    BY <1>0, <1>d, <2>1 DEF WriteFirst, Step
  <2>3. 1..(Taken + 1) \subseteq 1..Taken'
    BY <1>0, <1>9
  <2>4. Answered \subseteq 1..Taken'
    BY <1>a, <1>b, <2>1, <2>3
  <2> QED  BY <1>a, <1>c, <2>1, <2>2, <2>4 DEF AnswerInv
<1> QED  BY <1>1, <1>2, <1>3, <1>4, <1>5, <1>6, <1>7, <1>8, <1>9, PumpItems
----------------------------------------------------------------------------
LEMMA InitOrder == Init => OrderInv
<1> SUFFICES ASSUME Init PROVE OrderInv
  OBVIOUS
<1>1. /\ toSrv = <<>> /\ chunk = <<>> /\ pend = <<>> /\ dev = <<>> /\ toCli = <<>> /\ got = <<>>
      /\ sent = 0 /\ at["down"] = "off"
  BY DEF Init, Thread, Dir
<1>2. Taken = 0 /\ ~Answering /\ Upto = 0
  <2>1. Len(toSrv) = 0 /\ Len(chunk) = 0 /\ sent = 0
    BY <1>1
  <2>2. Taken = 0
    <3>1. sent - (Len(toSrv) + Len(chunk)) = 0
      BY <2>1
    <3> QED  BY <3>1 DEF Taken
  <2>3. ~Answering
    BY <1>1 DEF Answering
  <2> QED  BY <2>2, <2>3 DEF Upto
<1>3. QueueInv
  BY <1>1, <1>2 DEF QueueInv, RunOf
<1>4. DeviceInv
  BY <1>1, <1>2 DEF DeviceInv, Ordered, NumbersIn
<1>5. Stream = <<>>
  BY <1>1 DEF Stream
<1>6. Answers = {} /\ Answered = {} /\ Applied = {}
  BY <1>1, <1>5 DEF Answers, Answered, Applied
<1>7. AnswerInv
  BY <1>6 DEF AnswerInv
<1> QED  BY <1>3, <1>4, <1>7 DEF OrderInv

(* The items that are under way are numbered on from those taken.           *)
LEMMA RunNumbers ==
  ASSUME NEW q \in Seq(Item), NEW n \in Nat, RunOf(q, n)
  PROVE  NumbersIn(q) = (n + 1)..(n + Len(q))
<1>1. Len(q) \in Nat /\ DOMAIN q = 1..Len(q)
  BY ItemSeq
<1>2. \A k \in (n + 1)..(n + Len(q)) : \E i \in 1..Len(q) : k = n + i
  <2> TAKE k \in (n + 1)..(n + Len(q))
  <2>1. k - n \in 1..Len(q) /\ k = n + (k - n)
    BY <1>1
  <2> QED  BY <2>1
<1>3. \A i \in 1..Len(q) : n + i \in (n + 1)..(n + Len(q))
  BY <1>1
<1>4. NumbersIn(q) = {n + i : i \in 1..Len(q)}
  BY <1>1 DEF NumbersIn, RunOf
<1> QED  BY <1>2, <1>3, <1>4

(* What is sent reaches the device, and the client its answers, in order.   *)
THEOREM ItemsStayInOrder == Spec => []InOrder
<1>1. WireInv /\ OrderInv /\ [Next]_vars => WireInv' /\ OrderInv'
  BY TypeStep, LockStep, WireStep, QueueStep, DeviceStep, AnswerStep DEF WireInv, OrderInv
<1>2. WireInv /\ OrderInv => InOrder
  <2> SUFFICES ASSUME WireInv, OrderInv PROVE InOrder
    OBVIOUS
  <2>1. QueueInv /\ DeviceInv /\ AnswerInv
    BY DEF OrderInv
  <2>2. /\ toSrv \in Seq(Item) /\ chunk \in Seq(Item) /\ Len(toSrv) \in Nat /\ Len(chunk) \in Nat
        /\ sent \in Nat /\ Taken \in Nat
    BY <2>1, QueueTypes DEF QueueInv
  <2>3. /\ NumbersIn(chunk) = (Taken + 1)..(Taken + Len(chunk))
        /\ NumbersIn(toSrv) = (Taken + Len(chunk) + 1)..(Taken + Len(chunk) + Len(toSrv))
    BY <2>1, <2>2, RunNumbers DEF QueueInv
  <2>4. Taken + Len(chunk) + Len(toSrv) = sent
    BY <2>2 DEF Taken
  <2>5. 1..sent = 1..Taken \cup NumbersIn(chunk) \cup NumbersIn(toSrv)
    BY <2>2, <2>3, <2>4
  <2>6. /\ NumbersIn(dev) \subseteq 1..Upto /\ NumbersIn(pend) \subseteq 1..Taken
        /\ at["down"] \notin {"over", "done"} => 1..Taken \subseteq NumbersIn(dev) \cup NumbersIn(pend)
    BY <2>1 DEF DeviceInv
  <2>7. 1..Upto \subseteq 1..sent
    <3>1. Answering => Len(chunk) >= 1
      BY <2>1, <2>2, EmptySeq DEF QueueInv
    <3>2. Upto \in Nat /\ Upto <= sent
      BY <2>2, <2>4, <3>1 DEF Upto
    <3> QED  BY <2>2, <3>2
  <2>8. at["down"] \notin {"over", "done"} =>
          1..sent = NumbersIn(dev) \cup NumbersIn(pend) \cup NumbersIn(chunk) \cup NumbersIn(toSrv)
    BY <2>5, <2>6, <2>7
  <2> QED  BY <2>1, <2>8 DEF DeviceInv, AnswerInv, Ordered, InOrder
<1> QED  BY InitWire, InitOrder, <1>1, <1>2, PTL DEF Spec
====
