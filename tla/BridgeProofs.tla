---- MODULE BridgeProofs ----
(***************************************************************************)
(* The bridge, proved for any number of clients and any traffic: what is   *)
(* left of a session that returned and what it counted (Inv), that no byte *)
(* is lost, repeated or reordered while it is bridged (Intact), and that   *)
(* what a client's thread writes after a later client's is the one chunk it*)
(* held when its session returned (OneChunkLate).  The invariant           *)
(* has a part for each of these: who has reported what (MailInv), what is  *)
(* on its way from the device (UpInv) and what is on its way to it         *)
(* (DownInv).                                                              *)
(***************************************************************************)
EXTENDS Bridge, SequenceTheorems, FiniteSetTheorems, TLAPS

(* A report that bridge() has taken out of the channel.                     *)
Reported(s, d) == pump[s][d] = "done" /\ \A i \in DOMAIN mail[s] : mail[s][i].dir # d

(* Which session is served, and which are still to come.                    *)
ServeInv ==
  /\ phase \in {"recv", "drain"} => cur \in Session
  /\ \A s \in Session, d \in Dir : pump[s][d] = "off" <=> s > cur
  /\ \A s \in Session : s > cur =>
       mail[s] = <<>> /\ got[s] = <<>> /\ toCli[s] = <<>> /\ toDev[s] = <<>> /\ sent[s] = 0

(* A pump reports once, when it is done, what it transferred.               *)
MailInv ==
  /\ Told
  /\ \A s \in Session : \A i \in DOMAIN mail[s] :
       /\ pump[s][mail[s][i].dir] = "done"
       /\ mail[s][i].n = total[s][mail[s][i].dir]
       /\ \A j \in DOMAIN mail[s] : mail[s][j].dir = mail[s][i].dir => j = i
  /\ \A s \in Session, d \in Dir :
       stats[s][d] = IF Reported(s, d) THEN total[s][d] ELSE 0
  /\ phase = "recv" => \A d \in Dir : ~Reported(cur, d)
  /\ phase = "drain" => flag[cur] /\ \E d \in Dir : Reported(cur, d)

(* A pump holds a chunk while it writes it.                                 *)
HeldInv == \A s \in Session, d \in Dir :
  IF pump[s][d] = "writing" THEN put[s][d] <= Len(held[s][d])
                            ELSE held[s][d] = <<>> /\ put[s][d] = 0

(* q is n+1, n+2, ...                                                       *)
Run(q, n) == \A i \in 1..Len(q) : q[i] = n + i

(* A pump that started at byte b and has got w through, t of them in chunks  *)
(* it finished, holds the chunk h, of which p are through; and where it     *)
(* reads are the bytes after that chunk, up to the last one said.           *)
Chunk(h, p, t, b, w) == t + p <= w /\ p <= Len(h) /\ Run(h, b + w - p)
Feed(h, p, b, w, src, last) == /\ Run(src, b + w - p + Len(h))
                               /\ last = b + w - p + Len(h) + Len(src)

(* What the device said goes from its line through the pump and the socket  *)
(* to the client.                                                           *)
Passed(s) == Len(got[s]) + Len(toCli[s])
Reading(s) == /\ s = cur /\ phase \in {"recv", "drain"}
              /\ pump[s]["up"] \in {"check", "reading", "writing"}
UpOf(s) ==
  /\ Run(got[s], from[s]) /\ Run(toCli[s], from[s] + Len(got[s]))
  /\ Chunk(held[s]["up"], put[s]["up"], total[s]["up"], from[s], Passed(s))
  /\ Reading(s) => Feed(held[s]["up"], put[s]["up"], from[s], Passed(s), line, said)
UpInv == \A s \in Session : UpOf(s)

(* What a client sends goes through its socket and the pump onto the wire.  *)
Count(s) == Cardinality(BytesOf(s, Len(wire)))
DownOf(s) ==
  /\ Chunk(held[s]["down"], put[s]["down"], total[s]["down"], 0, Count(s))
  /\ s > cur => Count(s) = 0
  /\ pump[s]["down"] \notin Ended =>
       Feed(held[s]["down"], put[s]["down"], 0, Count(s), toDev[s], sent[s])
DownInv == /\ \A i \in DOMAIN wire : wire[i].n = Cardinality(BytesOf(wire[i].by, i))
           /\ \A s \in Session : DownOf(s)

(* In the device's line are the last bytes it said.                         *)
LineInv == Len(line) <= said /\ Run(line, said - Len(line))

BridgeInv ==
  TypeOK /\ ServeInv /\ MailInv /\ Detached /\ HeldInv /\ LineInv /\ UpInv /\ DownInv

(* A byte that comes after one of a later client is of a session that       *)
(* returned, and such a session starts no other chunk.                      *)
WriterInv == (\A i \in DOMAIN wire : wire[i].by <= cur) /\ OneChunkLate
----------------------------------------------------------------------------
(* Sequences that count up, as the bytes of a stream do.                   *)
LEMMA RunEmpty == \A n : Run(<<>>, n)
BY DEF Run

LEMMA RunAppend ==
  ASSUME NEW q \in Seq(Nat), NEW n \in Int, NEW x \in Nat, Run(q, n), x = n + Len(q) + 1
  PROVE  Append(q, x) \in Seq(Nat) /\ Run(Append(q, x), n) /\ Len(Append(q, x)) = Len(q) + 1
<1> DEFINE r == Append(q, x)
<1>1. /\ r \in Seq(Nat) /\ Len(r) = Len(q) + 1 /\ Len(q) \in Nat
      /\ \A i \in 1..Len(q) : r[i] = q[i]
      /\ r[Len(q) + 1] = x
  BY AppendProperties, LenProperties
<1> HIDE DEF r
<1>2. ASSUME NEW i \in 1..(Len(q) + 1) PROVE r[i] = n + i
  <2>1. CASE i \in 1..Len(q)
    BY <1>1, <2>1 DEF Run
  <2>2. CASE i = Len(q) + 1
    BY <1>1, <2>2
  <2> QED  BY <1>1, <2>1, <2>2
<1>3. Run(r, n)
  BY <1>1, <1>2 DEF Run
<1> QED  BY <1>1, <1>3 DEF r

LEMMA RunTail ==
  ASSUME NEW q \in Seq(Nat), NEW n \in Int, Run(q, n), q # <<>>
  PROVE  /\ Tail(q) \in Seq(Nat) /\ Len(Tail(q)) = Len(q) - 1 /\ Run(Tail(q), n + 1)
         /\ Head(q) \in Nat /\ Head(q) = n + 1
BY HeadTailProperties, LenProperties, EmptySeq DEF Run

LEMMA RunSplit ==
  ASSUME NEW q \in Seq(Nat), NEW n \in Int, Run(q, n), NEW k \in 1..Len(q)
  PROVE  /\ SubSeq(q, 1, k) \in Seq(Nat) /\ Len(SubSeq(q, 1, k)) = k
         /\ Run(SubSeq(q, 1, k), n)
         /\ SubSeq(q, k + 1, Len(q)) \in Seq(Nat) /\ Len(SubSeq(q, k + 1, Len(q))) = Len(q) - k
         /\ Run(SubSeq(q, k + 1, Len(q)), n + k)
<1>1. Len(q) \in Nat /\ \A i \in 1..Len(q) : q[i] \in Nat
  BY LenProperties, ElementOfSeq
<1>2. /\ SubSeq(q, 1, k) \in Seq(Nat) /\ Len(SubSeq(q, 1, k)) = k
      /\ \A i \in 1..k : SubSeq(q, 1, k)[i] = q[i]
  BY <1>1, SubSeqProperties
<1>3. /\ SubSeq(q, k + 1, Len(q)) \in Seq(Nat) /\ Len(SubSeq(q, k + 1, Len(q))) = Len(q) - k
      /\ \A i \in 1..(Len(q) - k) : SubSeq(q, k + 1, Len(q))[i] = q[k + i]
  <2> DEFINE r == SubSeq(q, k + 1, Len(q))
  <2>1. k + 1 \in Int /\ Len(q) \in Int /\ \A i \in (k + 1)..Len(q) : q[i] \in Nat
    BY <1>1
  <2>2. /\ r \in Seq(Nat) /\ Len(r) = IF k + 1 <= Len(q) THEN Len(q) - (k + 1) + 1 ELSE 0
        /\ \A i \in 1..(Len(q) - (k + 1) + 1) : r[i] = q[k + 1 + i - 1]
    BY <2>1, SubSeqProperties
  <2> HIDE DEF r
  <2>3. Len(r) = Len(q) - k /\ \A i \in 1..(Len(q) - k) : r[i] = q[k + i]
    BY <1>1, <2>2
  <2> QED  BY <2>2, <2>3 DEF r
<1> QED  BY <1>1, <1>2, <1>3 DEF Run

LEMMA RunConcat ==
  ASSUME NEW p \in Seq(Nat), NEW q \in Seq(Nat), NEW n \in Int, Run(p, n), Run(q, n + Len(p))
  PROVE  p \o q \in Seq(Nat) /\ Len(p \o q) = Len(p) + Len(q) /\ Run(p \o q, n)
<1>1. Len(p) \in Nat /\ Len(q) \in Nat
  BY LenProperties
<1>2. /\ p \o q \in Seq(Nat) /\ Len(p \o q) = Len(p) + Len(q)
      /\ \A i \in 1..Len(p) + Len(q) : (p \o q)[i] = IF i <= Len(p) THEN p[i] ELSE q[i - Len(p)]
  BY ConcatProperties
<1>3. ASSUME NEW i \in 1..(Len(p) + Len(q)) PROVE (p \o q)[i] = n + i
  <2>1. CASE i \in 1..Len(p)
    BY <1>1, <1>2, <2>1 DEF Run
  <2>2. CASE i \notin 1..Len(p)
    <3>1. i - Len(p) \in 1..Len(q) /\ ~(i <= Len(p))
      BY <1>1, <2>2
    <3>2. q[i - Len(p)] = n + Len(p) + (i - Len(p))
      BY <3>1 DEF Run
    <3> QED  BY <1>1, <1>2, <3>1, <3>2
  <2> QED  BY <2>1, <2>2
<1> QED  BY <1>2, <1>3 DEF Run

LEMMA RunConsecutive == ASSUME NEW q \in Seq(Nat), NEW n \in Int, Run(q, n) PROVE Consecutive(q)
<1>1. Len(q) \in Nat
  BY LenProperties
<1>2. ASSUME NEW i \in 1..(Len(q) - 1) PROVE q[i + 1] = q[i] + 1
  <2>1. i \in 1..Len(q) /\ i + 1 \in 1..Len(q) /\ i \in Int
    BY <1>1
  <2>2. q[i] = n + i /\ q[i + 1] = n + (i + 1)
    BY <2>1 DEF Run
  <2> QED  BY <2>1, <2>2
<1> QED  BY <1>2 DEF Consecutive

(* What the steps of a pump do to its chunk and to what it reads from.      *)
LEMMA ChunkEmpty ==
  ASSUME NEW h \in Seq(Nat), NEW p \in Nat, NEW t \in Nat, NEW b \in Nat, NEW w \in Nat,
         Chunk(h, p, t, b, w)
  PROVE  Chunk(<<>>, 0, t, b, w) /\ Chunk(<<>>, 0, t + 0, b, w)
<1>1. Len(<<>>) = 0
  BY EmptySeq
<1> QED  BY <1>1, RunEmpty DEF Chunk

LEMMA ChunkRead ==
  ASSUME NEW b \in Nat, NEW w \in Nat, NEW t \in Nat, NEW src \in Seq(Nat), NEW last \in Nat,
         Chunk(<<>>, 0, t, b, w), Feed(<<>>, 0, b, w, src, last), NEW n \in 1..Len(src)
  PROVE  /\ Chunk(SubSeq(src, 1, n), 0, t, b, w)
         /\ Feed(SubSeq(src, 1, n), 0, b, w, SubSeq(src, n + 1, Len(src)), last)
<1> DEFINE h == SubSeq(src, 1, n)
           r == SubSeq(src, n + 1, Len(src))
<1>1. Run(src, b + w) /\ last = b + w + Len(src) /\ t + 0 <= w
  <2>1. Len(<<>>) = 0
    BY EmptySeq
  <2> QED  BY <2>1 DEF Chunk, Feed
<1>2. /\ h \in Seq(Nat) /\ Len(h) = n /\ Run(h, b + w)
      /\ r \in Seq(Nat) /\ Len(r) = Len(src) - n /\ Run(r, b + w + n)
  BY <1>1, RunSplit
<1> HIDE DEF h, r
<1>3. Chunk(h, 0, t, b, w) /\ Feed(h, 0, b, w, r, last)
  BY <1>1, <1>2 DEF Chunk, Feed
<1> QED  BY <1>3 DEF h, r

LEMMA ChunkFlush ==
  ASSUME NEW h \in Seq(Nat), NEW p \in Nat, NEW t \in Nat, NEW b \in Nat, NEW w \in Nat,
         NEW src \in Seq(Nat), NEW last \in Nat,
         Chunk(h, p, t, b, w), ~(p < Len(h))
  PROVE  /\ Chunk(<<>>, 0, t + Len(h), b, w)
         /\ Feed(h, p, b, w, src, last) => Feed(<<>>, 0, b, w, src, last)
<1>1. p = Len(h) /\ t + Len(h) <= w
  BY DEF Chunk
<1>2. Len(<<>>) = 0
  BY EmptySeq
<1>3. Chunk(<<>>, 0, t + Len(h), b, w)
  BY <1>1, <1>2, RunEmpty DEF Chunk
<1>4. b + w - p + Len(h) = b + w - 0 + 0
  BY <1>1
<1> QED  BY <1>2, <1>3, <1>4 DEF Feed

LEMMA ChunkWrite ==
  ASSUME NEW h \in Seq(Nat), NEW p \in Nat, NEW t \in Nat, NEW b \in Nat, NEW w \in Nat,
         NEW src, NEW last, Chunk(h, p, t, b, w), p < Len(h)
  PROVE  /\ h[p + 1] = b + w + 1
         /\ Chunk(h, p + 1, t, b, w + 1)
         /\ Feed(h, p, b, w, src, last) => Feed(h, p + 1, b, w + 1, src, last)
<1>1. p + 1 \in 1..Len(h)
  OBVIOUS
<1>2. h[p + 1] = b + w - p + (p + 1)
  BY <1>1 DEF Chunk, Run
<1>3. b + (w + 1) - (p + 1) = b + w - p
  OBVIOUS
<1> QED  BY <1>2, <1>3 DEF Chunk, Feed

LEMMA FeedMore ==
  ASSUME NEW h \in Seq(Nat), NEW p \in Nat, NEW b \in Nat, NEW w \in Nat,
         NEW src \in Seq(Nat), NEW last \in Nat, Feed(h, p, b, w, src, last)
  PROVE  Feed(h, p, b, w, Append(src, last + 1), last + 1)
<1> DEFINE n == b + w - p + Len(h)
           r == Append(src, last + 1)
<1>1. n \in Int /\ Run(src, n) /\ last = n + Len(src) /\ Len(src) \in Nat
  BY LenProperties DEF Feed
<1> HIDE DEF n
<1>2. last + 1 = n + Len(src) + 1
  BY <1>1
<1>3. Run(r, n) /\ Len(r) = Len(src) + 1
  BY <1>1, <1>2, RunAppend
<1> HIDE DEF r
<1>4. last + 1 = n + Len(r)
  BY <1>1, <1>3
<1> QED  BY <1>3, <1>4 DEF Feed, n, r

(* A byte goes into the client's socket, or out of it.                      *)
LEMMA SocketGets ==
  ASSUME NEW g \in Seq(Nat), NEW c \in Seq(Nat), NEW f \in Nat, NEW x \in Nat,
         Run(c, f + Len(g)), x = f + (Len(g) + Len(c)) + 1
  PROVE  Run(Append(c, x), f + Len(g)) /\ Len(g) + Len(Append(c, x)) = Len(g) + Len(c) + 1
<1>1. Len(g) \in Nat /\ Len(c) \in Nat
  BY LenProperties
<1>2. f + Len(g) \in Int /\ x = f + Len(g) + Len(c) + 1
  BY <1>1
<1>3. Run(Append(c, x), f + Len(g)) /\ Len(Append(c, x)) = Len(c) + 1
  BY <1>2, RunAppend
<1> QED  BY <1>1, <1>3

LEMMA SocketGives ==
  ASSUME NEW g \in Seq(Nat), NEW c \in Seq(Nat), NEW f \in Nat,
         Run(g, f), Run(c, f + Len(g)), c # <<>>
  PROVE  /\ Run(Append(g, Head(c)), f)
         /\ Run(Tail(c), f + Len(Append(g, Head(c))))
         /\ Len(Append(g, Head(c))) + Len(Tail(c)) = Len(g) + Len(c)
<1>1. Len(g) \in Nat /\ Len(c) \in Nat
  BY LenProperties
<1>2. f + Len(g) \in Int
  BY <1>1
<1>3. /\ Len(Tail(c)) = Len(c) - 1 /\ Run(Tail(c), f + Len(g) + 1)
      /\ Head(c) \in Nat /\ Head(c) = f + Len(g) + 1
  BY <1>2, RunTail
<1>4. Run(Append(g, Head(c)), f) /\ Len(Append(g, Head(c))) = Len(g) + 1
  BY <1>3, RunAppend
<1>5. f + Len(Append(g, Head(c))) = f + Len(g) + 1
  BY <1>1, <1>4
<1> QED  BY <1>1, <1>3, <1>4, <1>5
----------------------------------------------------------------------------
(* A step of one pump.                                                     *)
LEMMA StepFacts ==
  ASSUME TypeOK, NEW s \in Session, NEW d \in Dir, NEW here, NEW there \in PumpState,
         Step(s, d, here, there)
  PROVE  /\ pump[s][d] = here /\ pump' \in [Session -> [Dir -> PumpState]]
         /\ pump'[s][d] = there
         /\ \A t \in Session, e \in Dir : t # s \/ e # d => pump'[t][e] = pump[t][e]
BY DEF TypeOK, Step

(* What a step may do to the state of one pump: an entry of each table.    *)
LEMMA EntryFacts ==
  ASSUME NEW T, NEW f \in [Session -> [Dir -> T]], NEW s \in Session, NEW d \in Dir, NEW x \in T
  PROVE  /\ [f EXCEPT ![s][d] = x] \in [Session -> [Dir -> T]]
         /\ [f EXCEPT ![s][d] = x][s][d] = x
         /\ \A t \in Session, e \in Dir : t # s \/ e # d => [f EXCEPT ![s][d] = x][t][e] = f[t][e]
OBVIOUS

LEMMA InitType == Init => TypeOK
<1> SUFFICES ASSUME Init PROVE TypeOK
  OBVIOUS
<1>1. /\ <<>> \in Seq(Nat) /\ <<>> \in Seq([dir : Dir, n : Nat])
      /\ <<>> \in Seq([by : Session, n : Nat])
  BY EmptySeq
<1>2. \A x : Both(x) = [s \in Session |-> [d \in Dir |-> x]]
  BY DEF Both
<1>3. /\ pump \in [Session -> [Dir -> PumpState]] /\ held \in [Session -> [Dir -> Seq(Nat)]]
      /\ stats \in [Session -> [Dir -> Nat]] /\ put \in [Session -> [Dir -> Nat]]
      /\ total \in [Session -> [Dir -> Nat]]
  BY <1>1, <1>2 DEF Init, PumpState
<1>4. /\ phase \in {"accept", "recv", "drain", "stopped"} /\ cur \in 0..MaxSession
      /\ flag \in [Session -> BOOLEAN] /\ mail \in [Session -> Seq([dir : Dir, n : Nat])]
      /\ said \in Nat /\ from \in [Session -> Nat] /\ sent \in [Session -> Nat]
      /\ client \in [Session -> {"away", "here", "half", "gone"}]
  BY <1>1, BridgeAssumption DEF Init
<1>5. /\ line \in Seq(Nat) /\ wire \in Seq([by : Session, n : Nat])
      /\ toDev \in [Session -> Seq(Nat)] /\ toCli \in [Session -> Seq(Nat)]
      /\ got \in [Session -> Seq(Nat)]
  BY <1>1 DEF Init
<1> QED  BY <1>3, <1>4, <1>5 DEF TypeOK

LEMMA TypeStep == TypeOK /\ ServeInv /\ HeldInv /\ LineInv /\ [Next]_vars => TypeOK'
<1> SUFFICES ASSUME TypeOK, ServeInv, HeldInv, LineInv, [Next]_vars PROVE TypeOK'
  OBVIOUS
<1> USE BridgeAssumption DEF serveVars, pumpVars, deviceVars, clientVars
<1>0. <<>> \in Seq(Nat) /\ \A q \in Seq(Nat) : Len(q) \in Nat
  BY EmptySeq, LenProperties
<1>1. CASE Accept
  <2>1. cur + 1 \in Session /\ cur + 1 \in 0..MaxSession
    BY <1>1 DEF Accept, TypeOK, Session
  <2>2. line' \in Seq(Nat) /\ said - Len(line') \in Nat
    <3>1. line' \in {<<>>, line} /\ line \in Seq(Nat) /\ said \in Nat /\ Len(line) <= said
      BY <1>1 DEF Accept, Clear, TypeOK, LineInv
    <3>2. Len(<<>>) = 0 /\ Len(line) \in Nat
      BY <1>0, <3>1, EmptySeq
    <3>3. CASE line' = <<>>
      BY <1>0, <3>1, <3>2, <3>3
    <3>4. CASE line' = line
      BY <3>1, <3>2, <3>4
    <3> QED  BY <3>1, <3>3, <3>4
  <2>3. pump' \in [Session -> [Dir -> PumpState]] /\ from' \in [Session -> Nat]
    BY <1>1, <2>1, <2>2 DEF Accept, TypeOK, PumpState
  <2> QED  BY <1>1, <2>1, <2>2, <2>3 DEF Accept, TypeOK
<1>2. CASE SessionFails
  BY <1>0, <1>2 DEF SessionFails, Clear, TypeOK
<1>3. CASE First \/ Second
  <2>1. cur \in Session /\ Record
    BY <1>3 DEF First, Second, ServeInv
  <2>2. /\ Head(mail[cur]) \in [dir : Dir, n : Nat]
        /\ Tail(mail[cur]) \in Seq([dir : Dir, n : Nat])
    BY <2>1, HeadTailProperties DEF Record, TypeOK
  <2>3. Head(mail[cur]).dir \in Dir /\ Head(mail[cur]).n \in Nat
    BY <2>2
  <2>4. stats' \in [Session -> [Dir -> Nat]] /\ mail' \in [Session -> Seq([dir : Dir, n : Nat])]
    BY <2>1, <2>2, <2>3 DEF Record, TypeOK
  <2> QED  BY <1>3, <2>1, <2>4 DEF First, Second, Record, TypeOK
<1>4. CASE Expire
  BY <1>4 DEF Expire, ExpireOn, TypeOK
<1>5. CASE DeviceSays
  <2>1. line' \in Seq(Nat)
    BY <1>5, AppendProperties DEF DeviceSays, TypeOK
  <2>2. said' \in Nat
    BY <1>5 DEF DeviceSays, TypeOK
  <2> QED  BY <1>5, <2>1, <2>2 DEF DeviceSays, TypeOK
<1>6. ASSUME NEW s \in Session, World(s) PROVE TypeOK'
  <2>1. CASE Connect(s) \/ HalfClose(s) \/ Leave(s)
    BY <2>1 DEF Connect, HalfClose, Leave, ClientIs, TypeOK
  <2>2. CASE Send(s)
    <3>1. Append(toDev[s], sent[s] + 1) \in Seq(Nat)
      BY AppendProperties DEF TypeOK
    <3>2. toDev' \in [Session -> Seq(Nat)] /\ sent' \in [Session -> Nat]
      BY <2>2, <3>1 DEF Send, TypeOK
    <3> QED  BY <2>2, <3>2 DEF Send, TypeOK
  <2>3. CASE Take(s)
    <3>1. Head(toCli[s]) \in Nat /\ Tail(toCli[s]) \in Seq(Nat)
      BY <2>3, HeadTailProperties DEF Take, TypeOK
    <3>2. Append(got[s], Head(toCli[s])) \in Seq(Nat)
      BY <3>1, AppendProperties DEF TypeOK
    <3> QED  BY <2>3, <3>1, <3>2 DEF Take, TypeOK
  <2> QED  BY <1>6, <2>1, <2>2, <2>3 DEF World
<1>7. ASSUME NEW s \in Session, NEW d \in Dir, Pump(s, d) PROVE TypeOK'
  <2>0. /\ line \in Seq(Nat) /\ toDev[s] \in Seq(Nat) /\ held[s][d] \in Seq(Nat)
        /\ put[s][d] \in Nat /\ total[s][d] \in Nat /\ Len(held[s][d]) \in Nat
    BY <1>0 DEF TypeOK
  <2>1. CASE Check(s, d) \/ Idle(s, d) \/ ReadEnds(s, d)
    <3>1. pump' \in [Session -> [Dir -> PumpState]]
      BY <2>1, StepFacts DEF Check, CheckAs, Idle, ReadEnds, PumpState
    <3> QED  BY <2>1, <3>1 DEF Check, CheckAs, Idle, ReadEnds, TypeOK
  <2>2. CASE ReadBytes(s, d)
    <3>1. PICK n \in 1..Len(Source(s, d)) :
            /\ Step(s, d, "reading", "writing")
            /\ held' = [held EXCEPT ![s][d] = SubSeq(Source(s, d), 1, n)]
            /\ IF d = "up" THEN /\ line' = SubSeq(line, n + 1, Len(line))
                                /\ UNCHANGED toDev
               ELSE /\ toDev' = [toDev EXCEPT ![s] = SubSeq(@, n + 1, Len(@))]
                    /\ UNCHANGED line
      BY <2>2 DEF ReadBytes
    <3>2. Source(s, d) \in Seq(Nat)
      BY <2>0 DEF Source
    <3>3. \A q \in Seq(Nat) : n \in 1..Len(q) =>
            SubSeq(q, 1, n) \in Seq(Nat) /\ SubSeq(q, n + 1, Len(q)) \in Seq(Nat)
      BY SubSeqProperties, ElementOfSeq, LenProperties
    <3>4. pump' \in [Session -> [Dir -> PumpState]]
      BY <3>1, StepFacts DEF PumpState
    <3>5. held' \in [Session -> [Dir -> Seq(Nat)]]
      BY <3>1, <3>2, <3>3 DEF TypeOK
    <3>6. line' \in Seq(Nat) /\ toDev' \in [Session -> Seq(Nat)]
      <4>1. CASE d = "up"
        BY <2>0, <3>1, <3>3, <4>1 DEF TypeOK, Source
      <4>2. CASE d # "up"
        <5>1. SubSeq(toDev[s], n + 1, Len(toDev[s])) \in Seq(Nat)
          BY <2>0, <3>3, <4>2 DEF Source
        <5> QED  BY <2>0, <3>1, <4>2, <5>1 DEF TypeOK
      <4> QED  BY <4>1, <4>2
    <3> QED  BY <2>2, <3>4, <3>5, <3>6 DEF ReadBytes, TypeOK
  <2>3. CASE Flushed(s, d) \/ WriteFails(s, d)
    <3>1. pump' \in [Session -> [Dir -> PumpState]]
      <4>1. Step(s, d, "writing", "check") \/ Step(s, d, "writing", "over")
        BY <2>3 DEF Flushed, WriteFails, WriteFailsTo
      <4> QED  BY <4>1, StepFacts DEF PumpState
    <3>2. total[s][d] + Len(held[s][d]) \in Nat /\ total[s][d] + 0 \in Nat
      <4>1. total[s][d] \in Nat /\ Len(held[s][d]) \in Nat
        BY <2>0
      <4>2. \A x, y \in Nat : x + y \in Nat /\ x + 0 \in Nat
        OBVIOUS
      <4> QED  BY <4>1, <4>2
    <3>3. \E n \in Nat : total' = [total EXCEPT ![s][d] = n]
      BY <2>3, <3>2 DEF Flushed, WriteFails, WriteFailsTo
    <3>4. total' \in [Session -> [Dir -> Nat]]
      BY <3>3 DEF TypeOK
    <3>5. held' = [held EXCEPT ![s][d] = <<>>] /\ put' = [put EXCEPT ![s][d] = 0]
      BY <2>3 DEF Flushed, WriteFails, WriteFailsTo
    <3>6. held' \in [Session -> [Dir -> Seq(Nat)]] /\ put' \in [Session -> [Dir -> Nat]]
      BY <1>0, <3>5 DEF TypeOK
    <3> QED  BY <2>3, <3>1, <3>4, <3>6 DEF Flushed, WriteFails, WriteFailsTo, TypeOK
  <2>4. CASE Over(s, d) \/ Tell(s, d)
    <3>1. pump' \in [Session -> [Dir -> PumpState]]
      BY <2>4, StepFacts DEF Over, Tell, PumpState
    <3>2. [dir |-> d, n |-> total[s][d]] \in [dir : Dir, n : Nat]
      BY <2>0
    <3>3. Append(mail[s], [dir |-> d, n |-> total[s][d]]) \in Seq([dir : Dir, n : Nat])
      BY <3>2, AppendProperties DEF TypeOK
    <3> QED  BY <2>4, <3>1, <3>3 DEF Over, Tell, TypeOK
  <2>5. Unwritten(s, d) => NextByte(s, d) \in Nat
    <3>1. Unwritten(s, d) => put[s][d] + 1 \in 1..Len(held[s][d])
      BY <2>0 DEF Unwritten
    <3>2. \A i \in 1..Len(held[s][d]) : held[s][d][i] \in Nat
      BY <2>0, ElementOfSeq
    <3> QED  BY <3>1, <3>2 DEF NextByte
  <2>6. CASE d = "up" /\ WriteUp(s)
    <3>1. toCli' \in [Session -> Seq(Nat)]
      <4>1. toCli \in [Session -> Seq(Nat)]
        BY DEF TypeOK
      <4>2. NextByte(s, "up") \in Nat /\ toCli' = [toCli EXCEPT ![s] = Append(@, NextByte(s, "up"))]
        BY <2>5, <2>6 DEF WriteUp
      <4>3. Append(toCli[s], NextByte(s, "up")) \in Seq(Nat)
        BY <4>1, <4>2, AppendProperties
      <4> QED  BY <4>1, <4>2, <4>3
    <3>2. put' \in [Session -> [Dir -> Nat]]
      <4>1. put \in [Session -> [Dir -> Nat]] /\ put' = [put EXCEPT ![s]["up"] = @ + 1]
        BY <2>6 DEF WriteUp, TypeOK
      <4> QED  BY <2>0, <2>6, <4>1
    <3> QED  BY <2>6, <3>1, <3>2 DEF WriteUp, TypeOK
  <2>7. CASE d = "down" /\ WriteDown(s)
    <3>1. wire' \in Seq([by : Session, n : Nat])
      BY <2>5, <2>7, AppendProperties DEF WriteDown, TypeOK
    <3>2. put' \in [Session -> [Dir -> Nat]]
      <4>1. put \in [Session -> [Dir -> Nat]] /\ put' = [put EXCEPT ![s]["down"] = @ + 1]
        BY <2>7 DEF WriteDown, TypeOK
      <4> QED  BY <2>0, <2>7, <4>1
    <3> QED  BY <2>7, <3>1, <3>2 DEF WriteDown, TypeOK
  <2> QED  BY <1>7, <2>1, <2>2, <2>3, <2>4, <2>6, <2>7 DEF Pump
<1>8. CASE UNCHANGED vars
  BY <1>8 DEF vars, TypeOK
<1> QED  BY <1>1, <1>2, <1>3, <1>4, <1>5, <1>6, <1>7, <1>8 DEF Next, Serve
----------------------------------------------------------------------------
(* What a step of a pump leaves alone: what serve_on keeps, and everything  *)
(* of another session.                                                      *)
LEMMA PumpFrame ==
  ASSUME TypeOK, NEW s \in Session, NEW d \in Dir, Pump(s, d)
  PROVE  /\ phase' = phase /\ cur' = cur /\ stats' = stats /\ said' = said /\ from' = from
         /\ client' = client /\ sent' = sent /\ got' = got
         /\ pump[s][d] \notin {"off", "done"} /\ pump'[s][d] # "off"
         /\ flag[s] => flag'[s]
         /\ \A t \in Session, e \in Dir : t # s \/ e # d =>
              /\ pump'[t][e] = pump[t][e] /\ held'[t][e] = held[t][e]
              /\ put'[t][e] = put[t][e] /\ total'[t][e] = total[t][e]
         /\ \A t \in Session : t # s =>
              /\ flag'[t] = flag[t] /\ mail'[t] = mail[t]
              /\ toDev'[t] = toDev[t] /\ toCli'[t] = toCli[t]
<1> USE DEF serveVars, pumpVars, deviceVars, clientVars
<1>0. /\ flag \in [Session -> BOOLEAN] /\ mail \in [Session -> Seq([dir : Dir, n : Nat])]
      /\ held \in [Session -> [Dir -> Seq(Nat)]] /\ put \in [Session -> [Dir -> Nat]]
      /\ total \in [Session -> [Dir -> Nat]]
      /\ toDev \in [Session -> Seq(Nat)] /\ toCli \in [Session -> Seq(Nat)]
  BY DEF TypeOK
<1>1. CASE Check(s, d) \/ Idle(s, d) \/ ReadEnds(s, d)
  BY <1>1, StepFacts DEF Check, CheckAs, Idle, ReadEnds, PumpState
<1>2. CASE ReadBytes(s, d)
  <2>1. Step(s, d, "reading", "writing")
    BY <1>2 DEF ReadBytes
  <2>2. \A t \in Session, e \in Dir : t # s \/ e # d => held'[t][e] = held[t][e]
    BY <1>0, <1>2 DEF ReadBytes
  <2>3. \A t \in Session : t # s => toDev'[t] = toDev[t]
    BY <1>0, <1>2 DEF ReadBytes
  <2> QED  BY <1>2, <2>1, <2>2, <2>3, StepFacts DEF ReadBytes, PumpState
<1>3. CASE Flushed(s, d) \/ WriteFails(s, d)
  <2>1. PICK there \in {"check", "over"} : Step(s, d, "writing", there)
    BY <1>3 DEF Flushed, WriteFails, WriteFailsTo
  <2>2. /\ held' = [held EXCEPT ![s][d] = <<>>] /\ put' = [put EXCEPT ![s][d] = 0]
        /\ \E n : total' = [total EXCEPT ![s][d] = n]
    BY <1>3 DEF Flushed, WriteFails, WriteFailsTo
  <2>3. \A t \in Session, e \in Dir : t # s \/ e # d =>
          held'[t][e] = held[t][e] /\ put'[t][e] = put[t][e] /\ total'[t][e] = total[t][e]
    <3>1. \A t \in Session, e \in Dir : t # s \/ e # d => held'[t][e] = held[t][e]
      BY <1>0, <2>2
    <3>2. \A t \in Session, e \in Dir : t # s \/ e # d => put'[t][e] = put[t][e]
      BY <1>0, <2>2
    <3>3. \A t \in Session, e \in Dir : t # s \/ e # d => total'[t][e] = total[t][e]
      <4>1. PICK n : total' = [total EXCEPT ![s][d] = n]
        BY <2>2
      <4> QED  BY <1>0, <4>1
    <3> QED  BY <3>1, <3>2, <3>3
  <2>4. /\ pump[s][d] = "writing" /\ pump'[s][d] \in {"check", "over"}
        /\ \A t \in Session, e \in Dir : t # s \/ e # d => pump'[t][e] = pump[t][e]
    BY <2>1, StepFacts DEF PumpState
  <2> QED  BY <1>3, <2>3, <2>4 DEF Flushed, WriteFails, WriteFailsTo
<1>4. CASE Over(s, d) \/ Tell(s, d)
  <2>1. PICK here, there \in PumpState :
          Step(s, d, here, there) /\ here \notin {"off", "done"} /\ there # "off"
    BY <1>4 DEF Over, Tell, PumpState
  <2>2. /\ pump[s][d] \notin {"off", "done"} /\ pump'[s][d] # "off"
        /\ \A t \in Session, e \in Dir : t # s \/ e # d => pump'[t][e] = pump[t][e]
    BY <2>1, StepFacts
  <2>3. /\ flag[s] => flag'[s]
        /\ \A t \in Session : t # s => flag'[t] = flag[t] /\ mail'[t] = mail[t]
    BY <1>0, <1>4 DEF Over, Tell
  <2> QED  BY <1>4, <2>2, <2>3 DEF Over, Tell
<1>5. CASE d = "up" /\ WriteUp(s)
  BY <1>0, <1>5 DEF WriteUp
<1>6. CASE d = "down" /\ WriteDown(s)
  BY <1>0, <1>6 DEF WriteDown
<1> QED  BY <1>1, <1>2, <1>3, <1>4, <1>5, <1>6 DEF Pump

LEMMA ServeStep == TypeOK /\ ServeInv /\ [Next]_vars => ServeInv'
<1> SUFFICES ASSUME TypeOK, ServeInv, [Next]_vars PROVE ServeInv'
  OBVIOUS
<1> USE BridgeAssumption DEF serveVars, pumpVars, deviceVars, clientVars
<1>0. /\ cur \in 0..MaxSession /\ pump \in [Session -> [Dir -> PumpState]]
      /\ mail \in [Session -> Seq([dir : Dir, n : Nat])]
      /\ toDev \in [Session -> Seq(Nat)] /\ toCli \in [Session -> Seq(Nat)]
      /\ got \in [Session -> Seq(Nat)] /\ sent \in [Session -> Nat]
  BY DEF TypeOK
<1>1. CASE Accept
  <2>1. cur + 1 \in Session
    BY <1>0, <1>1 DEF Accept, Session
  <2>2. /\ \A d \in Dir : pump'[cur + 1][d] = "check"
        /\ \A s \in Session : s # cur + 1 => pump'[s] = pump[s]
    BY <1>0, <1>1, <2>1 DEF Accept
  <2>3. \A s \in Session, d \in Dir : pump'[s][d] = "off" <=> s > cur + 1
    <3> TAKE s \in Session, d \in Dir
    <3>1. CASE s = cur + 1
      BY <1>0, <2>2, <3>1
    <3>2. CASE s # cur + 1
      <4>1. pump[s][d] = "off" <=> s > cur
        BY DEF ServeInv
      <4>2. pump'[s][d] = pump[s][d]
        BY <2>2, <3>2
      <4>3. s \in Int /\ cur \in Int
        BY <1>0 DEF Session
      <4> QED  BY <3>2, <4>1, <4>2, <4>3
    <3> QED  BY <3>1, <3>2
  <2>4. \A s \in Session : s > cur + 1 => s > cur
    BY <1>0 DEF Session
  <2>5. \A s \in Session : s > cur + 1 =>
          mail[s] = <<>> /\ got[s] = <<>> /\ toCli[s] = <<>> /\ toDev[s] = <<>> /\ sent[s] = 0
    BY <2>4 DEF ServeInv
  <2> QED  BY <1>1, <2>1, <2>3, <2>5 DEF Accept, ServeInv
<1>2. CASE SessionFails
  BY <1>2 DEF SessionFails, ServeInv
<1>3. CASE First \/ Second
  <2>1. cur \in Session /\ \A s \in Session : s # cur => mail'[s] = mail[s]
    BY <1>0, <1>3 DEF First, Second, Record, ServeInv
  <2>2. \A s \in Session : s > cur => s # cur
    BY <1>0 DEF Session
  <2>3. /\ cur' = cur /\ pump' = pump /\ got' = got /\ toCli' = toCli /\ toDev' = toDev
        /\ sent' = sent
    BY <1>3 DEF First, Second, Record
  <2> QED  BY <2>1, <2>2, <2>3 DEF ServeInv
<1>4. CASE Expire
  BY <1>4 DEF Expire, ExpireOn, ServeInv
<1>5. CASE DeviceSays
  BY <1>5 DEF DeviceSays, ServeInv
<1>6. ASSUME NEW s \in Session, World(s) PROVE ServeInv'
  <2>1. CASE Connect(s) \/ HalfClose(s) \/ Leave(s)
    BY <2>1 DEF Connect, HalfClose, Leave, ClientIs, ServeInv
  <2>2. CASE Send(s)
    <3>1. ~(s > cur) /\ \A t \in Session : t # s => toDev'[t] = toDev[t] /\ sent'[t] = sent[t]
      BY <1>0, <2>2 DEF Send, Session
    <3> QED  BY <2>2, <3>1 DEF Send, ServeInv
  <2>3. CASE Take(s)
    <3>1. ~(s > cur) /\ \A t \in Session : t # s => toCli'[t] = toCli[t] /\ got'[t] = got[t]
      BY <1>0, <2>3 DEF Take, ServeInv
    <3> QED  BY <2>3, <3>1 DEF Take, ServeInv
  <2> QED  BY <1>6, <2>1, <2>2, <2>3 DEF World
<1>7. ASSUME NEW s \in Session, NEW d \in Dir, Pump(s, d) PROVE ServeInv'
  <2>1. ~(s > cur) /\ \A e \in Dir : pump'[s][e] # "off"
    BY <1>7, PumpFrame DEF ServeInv
  <2> QED  BY <1>7, <2>1, PumpFrame DEF ServeInv
<1>8. CASE UNCHANGED vars
  BY <1>8 DEF vars, ServeInv
<1> QED  BY <1>1, <1>2, <1>3, <1>4, <1>5, <1>6, <1>7, <1>8 DEF Next, Serve

LEMMA HeldStep == TypeOK /\ ServeInv /\ HeldInv /\ LineInv /\ [Next]_vars => HeldInv'
<1> SUFFICES ASSUME TypeOK, ServeInv, HeldInv, LineInv, [Next]_vars PROVE HeldInv'
  OBVIOUS
<1> USE DEF serveVars, pumpVars, deviceVars, clientVars
<1>0. /\ cur \in 0..MaxSession /\ pump \in [Session -> [Dir -> PumpState]]
      /\ held \in [Session -> [Dir -> Seq(Nat)]] /\ put \in [Session -> [Dir -> Nat]]
      /\ \A q \in Seq(Nat) : Len(q) \in Nat
  BY LenProperties DEF TypeOK
<1>1. CASE Accept
  <2>1. cur + 1 \in Session /\ \A d \in Dir : pump[cur + 1][d] = "off"
    BY <1>0, <1>1, BridgeAssumption DEF Accept, Session, ServeInv
  <2>2. /\ \A d \in Dir : pump'[cur + 1][d] = "check"
        /\ \A s \in Session : s # cur + 1 => pump'[s] = pump[s]
    BY <1>0, <1>1, <2>1 DEF Accept
  <2>3. held' = held /\ put' = put
    BY <1>1 DEF Accept
  <2> QED  BY <2>1, <2>2, <2>3 DEF HeldInv
<1>2. CASE SessionFails \/ First \/ Second \/ Expire \/ DeviceSays
  BY <1>2 DEF SessionFails, First, Second, Record, Expire, ExpireOn, DeviceSays, HeldInv
<1>3. ASSUME NEW s \in Session, World(s) PROVE HeldInv'
  BY <1>3 DEF World, Connect, HalfClose, Leave, ClientIs, Send, Take, HeldInv
<1>4. ASSUME NEW s \in Session, NEW d \in Dir, Pump(s, d) PROVE HeldInv'
  <2>1. IF pump'[s][d] = "writing" THEN put'[s][d] <= Len(held'[s][d])
                                   ELSE held'[s][d] = <<>> /\ put'[s][d] = 0
    <3>1. CASE Check(s, d) \/ Idle(s, d) \/ ReadEnds(s, d)
      BY <3>1, StepFacts DEF Check, CheckAs, Idle, ReadEnds, PumpState, HeldInv
    <3>2. CASE ReadBytes(s, d)
      <4>1. pump[s][d] = "reading" /\ put' = put /\ held'[s][d] \in Seq(Nat)
        <5>1. TypeOK'
          BY <3>2, <1>4, TypeStep DEF Next
        <5> QED  BY <3>2, <5>1 DEF ReadBytes, Step, TypeOK
      <4>2. put'[s][d] = 0 /\ pump'[s][d] = "writing"
        BY <3>2, <4>1, StepFacts DEF ReadBytes, HeldInv, PumpState
      <4> QED  BY <1>0, <4>1, <4>2
    <3>3. CASE Flushed(s, d) \/ WriteFails(s, d)
      <4>1. held'[s][d] = <<>> /\ put'[s][d] = 0
        BY <1>0, <3>3 DEF Flushed, WriteFails, WriteFailsTo
      <4>2. pump'[s][d] # "writing"
        BY <3>3, StepFacts DEF Flushed, WriteFails, WriteFailsTo, PumpState
      <4> QED  BY <4>1, <4>2
    <3>4. CASE Over(s, d) \/ Tell(s, d)
      BY <3>4, StepFacts DEF Over, Tell, PumpState, HeldInv
    <3>5. CASE (d = "up" /\ WriteUp(s)) \/ (d = "down" /\ WriteDown(s))
      <4>1. /\ pump[s][d] = "writing" /\ pump' = pump /\ held' = held
            /\ put[s][d] < Len(held[s][d]) /\ put'[s][d] = put[s][d] + 1
        BY <1>0, <3>5 DEF WriteUp, WriteDown, Unwritten
      <4> QED  BY <1>0, <4>1
    <3> QED  BY <1>4, <3>1, <3>2, <3>3, <3>4, <3>5 DEF Pump
  <2> QED  BY <1>4, <2>1, PumpFrame DEF HeldInv
<1>5. CASE UNCHANGED vars
  BY <1>5 DEF vars, HeldInv
<1> QED  BY <1>1, <1>2, <1>3, <1>4, <1>5 DEF Next, Serve

(* The pumps a step does not bring to their end, in a step that leaves the  *)
(* channels alone: what is reported stays reported, and nothing else is.    *)
Quiet ==
  /\ mail' = mail /\ stats' = stats
  /\ \A s \in Session, d \in Dir :
       IF pump[s][d] = "done" THEN pump'[s][d] = "done" /\ total'[s][d] = total[s][d]
                              ELSE pump'[s][d] # "done"

LEMMA MailStep == TypeOK /\ ServeInv /\ MailInv /\ [Next]_vars => MailInv'
<1> SUFFICES ASSUME TypeOK, ServeInv, MailInv, [Next]_vars PROVE MailInv'
  OBVIOUS
<1> USE BridgeAssumption DEF serveVars, pumpVars, deviceVars, clientVars
<1>0. /\ cur \in 0..MaxSession /\ pump \in [Session -> [Dir -> PumpState]]
      /\ flag \in [Session -> BOOLEAN]
      /\ mail \in [Session -> Seq([dir : Dir, n : Nat])]
      /\ stats \in [Session -> [Dir -> Nat]] /\ total \in [Session -> [Dir -> Nat]]
  BY DEF TypeOK
<1>b. \A s \in Session : \A i \in DOMAIN mail[s] : mail[s][i].dir \in Dir
  <2> TAKE s \in Session
  <2> TAKE i \in DOMAIN mail[s]
  <2>1. mail[s] \in Seq([dir : Dir, n : Nat])
    BY <1>0
  <2>2. mail[s][i] \in [dir : Dir, n : Nat]
    BY <2>1, ElementOfSeq, LenProperties
  <2> QED  BY <2>2
<1>a. ASSUME Quiet
      PROVE  /\ \A s \in Session : \A i \in DOMAIN mail'[s] :
                  /\ pump'[s][mail'[s][i].dir] = "done"
                  /\ mail'[s][i].n = total'[s][mail'[s][i].dir]
                  /\ \A j \in DOMAIN mail'[s] : mail'[s][j].dir = mail'[s][i].dir => j = i
             /\ \A s \in Session, d \in Dir :
                  stats'[s][d] = IF Reported(s, d)' THEN total'[s][d] ELSE 0
             /\ \A s \in Session, d \in Dir : Reported(s, d)' <=> Reported(s, d)
  <2>1. \A s \in Session, d \in Dir : Reported(s, d)' <=> Reported(s, d)
    BY <1>a DEF Quiet, Reported
  <2>3. \A s \in Session : \A i \in DOMAIN mail'[s] :
          /\ pump'[s][mail'[s][i].dir] = "done"
          /\ mail'[s][i].n = total'[s][mail'[s][i].dir]
          /\ \A j \in DOMAIN mail'[s] : mail'[s][j].dir = mail'[s][i].dir => j = i
    BY <1>a, <1>b DEF Quiet, MailInv
  <2>4. \A s \in Session, d \in Dir :
          stats'[s][d] = IF Reported(s, d)' THEN total'[s][d] ELSE 0
    <3> TAKE s \in Session, d \in Dir
    <3>1. stats[s][d] = IF Reported(s, d) THEN total[s][d] ELSE 0
      BY DEF MailInv
    <3>2. Reported(s, d) => pump[s][d] = "done"
      BY DEF Reported
    <3> QED  BY <1>a, <2>1, <3>1, <3>2 DEF Quiet
  <2> QED  BY <2>1, <2>3, <2>4
<1>1. CASE Accept
  <2>1. cur + 1 \in Session /\ cur' = cur + 1
    BY <1>0, <1>1 DEF Accept, Session
  <2>2. \A d \in Dir : pump[cur + 1][d] = "off"
    BY <1>0, <2>1 DEF ServeInv
  <2>3. /\ \A d \in Dir : pump'[cur + 1][d] = "check"
        /\ \A s \in Session : s # cur + 1 => pump'[s] = pump[s]
    BY <1>0, <1>1, <2>1 DEF Accept
  <2>4. Quiet
    BY <1>1, <2>2, <2>3 DEF Accept, Quiet
  <2>5. Told'
    BY <1>1, <2>3 DEF Accept, Told, MailInv
  <2>6. \A d \in Dir : ~Reported(cur + 1, d)
    BY <2>2 DEF Reported
  <2>7. phase' = "recv"
    BY <1>1 DEF Accept
  <2>8. \A d \in Dir : ~Reported(cur, d)'
    BY <2>1, <2>3 DEF Reported
  <2> QED  BY <1>a, <2>4, <2>5, <2>7, <2>8 DEF MailInv
<1>2. CASE SessionFails \/ Expire
  <2>1. /\ Quiet /\ phase' \in {"stopped", "accept"} /\ flag' = flag /\ pump' = pump
    BY <1>2 DEF SessionFails, Expire, ExpireOn, Quiet
  <2>2. Told'
    BY <2>1 DEF Told, MailInv
  <2> QED  BY <1>a, <2>1, <2>2 DEF MailInv
<1>3. CASE First \/ Second
  <2> DEFINE q == mail[cur]
             r == Tail(q)
  <2>1. /\ cur \in Session /\ q # <<>> /\ q \in Seq([dir : Dir, n : Nat])
        /\ mail' = [mail EXCEPT ![cur] = r]
        /\ stats' = [stats EXCEPT ![cur][Head(q).dir] = Head(q).n]
        /\ pump' = pump /\ total' = total /\ cur' = cur
    BY <1>0, <1>3 DEF First, Second, Record, ServeInv
  <2>2. /\ Len(q) \in Nat \ {0} /\ DOMAIN q = 1..Len(q)
        /\ \A i \in DOMAIN q : q[i] \in [dir : Dir, n : Nat]
    BY <2>1, ElementOfSeq, LenProperties, EmptySeq
  <2>3. /\ Head(q) = q[1] /\ DOMAIN r = 1..(Len(q) - 1)
        /\ \A i \in 1..(Len(q) - 1) : r[i] = q[i + 1]
    BY <2>1, <2>2, HeadTailProperties, LenProperties
  <2>4. PICK h \in Dir :
          /\ h = Head(q).dir /\ pump[cur][h] = "done" /\ Head(q).n = total[cur][h]
          /\ \A j \in DOMAIN q : q[j].dir = h => j = 1
    <3>1. 1 \in DOMAIN q /\ q[1].dir \in Dir
      BY <2>2
    <3>2. /\ pump[cur][q[1].dir] = "done" /\ q[1].n = total[cur][q[1].dir]
          /\ \A j \in DOMAIN q : q[j].dir = q[1].dir => j = 1
      BY <2>1, <3>1 DEF MailInv
    <3> QED  BY <2>3, <3>1, <3>2
  <2>5. /\ mail'[cur] = r /\ \A s \in Session : s # cur => mail'[s] = mail[s]
        /\ stats'[cur][h] = total[cur][h]
        /\ \A s \in Session, d \in Dir : s # cur \/ d # h => stats'[s][d] = stats[s][d]
    BY <1>0, <2>1, <2>4
  <2> HIDE DEF r
  <2>6. \A i \in DOMAIN r : i + 1 \in DOMAIN q /\ i + 1 # 1 /\ r[i] = q[i + 1] /\ i \in Int
    BY <2>2, <2>3
  <2>7. Reported(cur, h)'
    <3>1. \A i \in DOMAIN r : r[i].dir # h
      BY <2>4, <2>6
    <3> QED  BY <2>1, <2>4, <2>5, <3>1 DEF Reported
  <2>8. \A d \in Dir : d # h => (Reported(cur, d)' <=> Reported(cur, d))
    <3> TAKE d \in Dir
    <3> HAVE d # h
    <3>1. ASSUME \A i \in DOMAIN r : r[i].dir # d, NEW i \in DOMAIN q PROVE q[i].dir # d
      <4>1. CASE i = 1
        BY <2>3, <2>4, <4>1
      <4>2. CASE i # 1
        <5>1. i - 1 \in DOMAIN r /\ r[i - 1] = q[i]
          BY <2>2, <2>3, <4>2
        <5> QED  BY <3>1, <5>1
      <4> QED  BY <4>1, <4>2
    <3>2. (\A i \in DOMAIN q : q[i].dir # d) => \A i \in DOMAIN r : r[i].dir # d
      BY <2>6
    <3>3. (\A i \in DOMAIN r : r[i].dir # d) <=> (\A i \in DOMAIN q : q[i].dir # d)
      BY <3>1, <3>2
    <3> QED  BY <2>1, <2>5, <3>3 DEF Reported
  <2>9. \A s \in Session, d \in Dir : s # cur => (Reported(s, d)' <=> Reported(s, d))
    BY <2>1, <2>5 DEF Reported
  <2>10. \A s \in Session, d \in Dir :
           stats'[s][d] = IF Reported(s, d)' THEN total'[s][d] ELSE 0
    <3> TAKE s \in Session, d \in Dir
    <3>1. stats[s][d] = IF Reported(s, d) THEN total[s][d] ELSE 0
      BY DEF MailInv
    <3>2. CASE s = cur /\ d = h
      BY <2>1, <2>5, <2>7, <3>2
    <3>3. CASE s # cur \/ d # h
      BY <2>1, <2>5, <2>8, <2>9, <3>1, <3>3
    <3> QED  BY <3>2, <3>3
  <2>11. \A s \in Session : \A i \in DOMAIN mail'[s] :
           /\ pump'[s][mail'[s][i].dir] = "done"
           /\ mail'[s][i].n = total'[s][mail'[s][i].dir]
           /\ \A j \in DOMAIN mail'[s] : mail'[s][j].dir = mail'[s][i].dir => j = i
    <3> TAKE s \in Session
    <3>1. \A i \in DOMAIN mail[s] :
            /\ pump[s][mail[s][i].dir] = "done"
            /\ mail[s][i].n = total[s][mail[s][i].dir]
            /\ \A j \in DOMAIN mail[s] : mail[s][j].dir = mail[s][i].dir => j = i
      BY DEF MailInv
    <3>2. CASE s = cur
      <4> SUFFICES ASSUME NEW i \in DOMAIN r
                   PROVE  /\ pump[cur][r[i].dir] = "done"
                          /\ r[i].n = total[cur][r[i].dir]
                          /\ \A j \in DOMAIN r : r[j].dir = r[i].dir => j = i
        BY <2>1, <2>5, <3>2
      <4>1. /\ pump[cur][q[i + 1].dir] = "done"
            /\ q[i + 1].n = total[cur][q[i + 1].dir]
            /\ \A j \in DOMAIN q : q[j].dir = q[i + 1].dir => j = i + 1
        BY <2>6, <3>1, <3>2
      <4>2. \A j \in DOMAIN r : r[j].dir = r[i].dir => j = i
        BY <2>6, <4>1
      <4> QED  BY <2>6, <4>1, <4>2
    <3>3. CASE s # cur
      BY <2>1, <2>5, <3>1, <3>3
    <3> QED  BY <3>2, <3>3
  <2>12. Told' /\ phase' # "recv" /\ (phase' = "drain" => flag'[cur])
    <3>1. \A s \in Session : flag[s] => flag'[s]
      BY <1>0, <1>3 DEF First, Second
    <3>2. Told'
      BY <2>1, <3>1 DEF Told, MailInv
    <3>3. First => flag'[cur]
      BY <1>0, <2>1 DEF First
    <3> QED  BY <1>3, <3>2, <3>3 DEF First, Second
  <2> QED  BY <2>1, <2>4, <2>7, <2>10, <2>11, <2>12 DEF MailInv
<1>4. ASSUME DeviceSays \/ \E s \in Session : World(s) PROVE MailInv'
  <2>1. /\ Quiet /\ phase' = phase /\ cur' = cur /\ flag' = flag /\ pump' = pump
    BY <1>4 DEF DeviceSays, World, Connect, HalfClose, Leave, ClientIs, Send, Take, Quiet
  <2>2. Told'
    BY <2>1 DEF Told, MailInv
  <2> QED  BY <1>a, <2>1, <2>2 DEF MailInv, ServeInv
<1>5. ASSUME NEW s \in Session, NEW d \in Dir, Pump(s, d), ~Tell(s, d) PROVE MailInv'
  <2>1. /\ pump'[s][d] # "done" /\ mail' = mail
        /\ pump'[s][d] = "telling" => flag'[s]
    <3>1. CASE Check(s, d) \/ Idle(s, d) \/ ReadEnds(s, d)
      BY <3>1, StepFacts DEF Check, CheckAs, Idle, ReadEnds, PumpState
    <3>2. CASE ReadBytes(s, d)
      BY <3>2, StepFacts DEF ReadBytes, PumpState
    <3>3. CASE Flushed(s, d) \/ WriteFails(s, d)
      BY <3>3, StepFacts DEF Flushed, WriteFails, WriteFailsTo, PumpState
    <3>4. CASE Over(s, d)
      BY <1>0, <3>4, StepFacts DEF Over, PumpState
    <3>5. CASE (d = "up" /\ WriteUp(s)) \/ (d = "down" /\ WriteDown(s))
      BY <3>5 DEF WriteUp, WriteDown
    <3> QED  BY <1>5, <3>1, <3>2, <3>3, <3>4, <3>5 DEF Pump
  <2>2. Quiet
    BY <1>5, <2>1, PumpFrame DEF Quiet
  <2>3. \A t \in Session : flag[t] => flag'[t]
    BY <1>5, PumpFrame
  <2>4. Told'
    BY <1>5, <2>1, <2>3, PumpFrame DEF Told, MailInv
  <2>5. phase' = phase /\ cur' = cur
    BY <1>5, PumpFrame
  <2>6. /\ phase' = "recv" => \A e \in Dir : ~Reported(cur, e)'
        /\ phase' = "drain" => flag'[cur] /\ \E e \in Dir : Reported(cur, e)'
    BY <1>a, <2>2, <2>3, <2>5 DEF MailInv, ServeInv
  <2> QED  BY <1>a, <2>2, <2>4, <2>5, <2>6 DEF MailInv
<1>6. ASSUME NEW s \in Session, NEW d \in Dir, Tell(s, d) PROVE MailInv'
  <2> DEFINE q == mail[s]
             x == [dir |-> d, n |-> total[s][d]]
  <2>0. Pump(s, d)
    BY <1>6 DEF Pump
  <2>1. /\ pump[s][d] = "telling" /\ pump'[s][d] = "done"
        /\ mail'[s] = Append(q, x) /\ total' = total /\ stats' = stats /\ flag' = flag
        /\ phase' = phase /\ cur' = cur
    BY <1>0, <1>6, StepFacts DEF Tell, PumpState
  <2>2. /\ \A t \in Session, e \in Dir : t # s \/ e # d => pump'[t][e] = pump[t][e]
        /\ \A t \in Session : t # s => mail'[t] = mail[t]
    BY <2>0, PumpFrame
  <2>3. q \in Seq([dir : Dir, n : Nat]) /\ x \in [dir : Dir, n : Nat]
    BY <1>0
  <2>4. /\ Len(q) \in Nat /\ DOMAIN q = 1..Len(q) /\ DOMAIN mail'[s] = 1..(Len(q) + 1)
        /\ \A i \in 1..Len(q) : mail'[s][i] = q[i]
        /\ mail'[s][Len(q) + 1] = x
    BY <2>1, <2>3, AppendProperties, LenProperties
  <2>5. \A i \in DOMAIN q : q[i].dir \in Dir /\ q[i].dir # d
    <3> TAKE i \in DOMAIN q
    <3>1. q[i].dir \in Dir
      BY <1>b
    <3>2. pump[s][q[i].dir] = "done"
      BY DEF MailInv
    <3> QED  BY <2>1, <3>1, <3>2
  <2>6. x.dir = d /\ x.n = total[s][d]
    OBVIOUS
  <2> HIDE DEF x, q
  <2>7. ~Reported(s, d) /\ ~Reported(s, d)'
    BY <2>1, <2>4, <2>6 DEF Reported
  <2>8. \A e \in Dir : e # d => (Reported(s, e)' <=> Reported(s, e))
    <3> TAKE e \in Dir
    <3> HAVE e # d
    <3>1. (\A i \in DOMAIN mail'[s] : mail'[s][i].dir # e) <=> (\A i \in DOMAIN q : q[i].dir # e)
      <4>1. \A i \in DOMAIN mail'[s] : i \in DOMAIN q \/ i = Len(q) + 1
        BY <2>4
      <4>2. \A i \in DOMAIN q : i \in DOMAIN mail'[s]
        BY <2>4
      <4> QED  BY <2>4, <2>6, <4>1, <4>2
    <3> QED  BY <2>2, <3>1 DEF Reported, q
  <2>9. \A t \in Session, e \in Dir : t # s => (Reported(t, e)' <=> Reported(t, e))
    BY <2>2 DEF Reported
  <2>10. \A t \in Session, e \in Dir :
           stats'[t][e] = IF Reported(t, e)' THEN total'[t][e] ELSE 0
    <3> TAKE t \in Session, e \in Dir
    <3>1. stats[t][e] = IF Reported(t, e) THEN total[t][e] ELSE 0
      BY DEF MailInv
    <3>2. CASE t = s /\ e = d
      BY <2>1, <2>7, <3>1, <3>2
    <3>3. CASE t # s \/ e # d
      BY <2>1, <2>8, <2>9, <3>1, <3>3
    <3> QED  BY <3>2, <3>3
  <2>11. \A t \in Session : \A i \in DOMAIN mail'[t] :
           /\ pump'[t][mail'[t][i].dir] = "done"
           /\ mail'[t][i].n = total'[t][mail'[t][i].dir]
           /\ \A j \in DOMAIN mail'[t] : mail'[t][j].dir = mail'[t][i].dir => j = i
    <3> TAKE t \in Session
    <3>1. \A i \in DOMAIN mail[t] :
            /\ pump[t][mail[t][i].dir] = "done"
            /\ mail[t][i].n = total[t][mail[t][i].dir]
            /\ \A j \in DOMAIN mail[t] : mail[t][j].dir = mail[t][i].dir => j = i
      BY DEF MailInv
    <3>2. CASE t = s
      <4> TAKE i \in DOMAIN mail'[t]
      <4>1. CASE i \in 1..Len(q)
        <5>1. mail'[s][i] = q[i] /\ q[i].dir # d /\ q[i].dir \in Dir
          BY <2>4, <2>5, <4>1
        <5>2. /\ pump[s][q[i].dir] = "done" /\ q[i].n = total[s][q[i].dir]
              /\ \A j \in DOMAIN q : q[j].dir = q[i].dir => j = i
          BY <2>4, <3>1, <3>2, <4>1 DEF q
        <5>3. \A j \in DOMAIN mail'[s] : mail'[s][j].dir = mail'[s][i].dir => j = i
          <6> TAKE j \in DOMAIN mail'[s]
          <6>1. CASE j \in 1..Len(q)
            BY <2>4, <5>1, <5>2, <6>1
          <6>2. CASE j = Len(q) + 1
            <7>1. mail'[s][j].dir = d
              BY <2>4, <2>6, <6>2
            <7> QED  BY <5>1, <7>1
          <6> QED  BY <2>4, <6>1, <6>2
        <5>4. pump'[s][q[i].dir] = "done" /\ total' = total
          BY <2>1, <2>2, <5>1, <5>2
        <5> QED  BY <3>2, <5>1, <5>2, <5>3, <5>4
      <4>2. CASE i = Len(q) + 1
        <5>1. \A j \in DOMAIN mail'[s] : mail'[s][j].dir = d => j = i
          BY <2>4, <2>5, <4>2
        <5> QED  BY <2>1, <2>4, <2>6, <3>2, <4>2, <5>1
      <4> QED  BY <2>4, <3>2, <4>1, <4>2
    <3>3. CASE t # s
      <4>1. mail'[t] = mail[t] /\ total' = total /\ \A e \in Dir : pump'[t][e] = pump[t][e]
        BY <2>1, <2>2, <3>3
      <4>2. \A i \in DOMAIN mail[t] : mail[t][i].dir \in Dir
        BY <1>b
      <4> QED  BY <3>1, <4>1, <4>2
    <3> QED  BY <3>2, <3>3
  <2>12. Told'
    BY <2>1, <2>2 DEF Told, MailInv
  <2>13. /\ phase' = "recv" => \A e \in Dir : ~Reported(cur, e)'
         /\ phase' = "drain" => flag'[cur] /\ \E e \in Dir : Reported(cur, e)'
    <3>1. phase \in {"recv", "drain"} => cur \in Session
      BY DEF ServeInv
    <3> QED  BY <2>1, <2>7, <2>8, <2>9, <3>1 DEF MailInv
  <2> QED  BY <2>1, <2>10, <2>11, <2>12, <2>13 DEF MailInv
<1>7. CASE UNCHANGED vars
  <2>1. /\ Quiet /\ phase' = phase /\ cur' = cur /\ flag' = flag /\ pump' = pump
    BY <1>7 DEF vars, Quiet
  <2>2. Told'
    BY <2>1 DEF Told, MailInv
  <2> QED  BY <1>a, <2>1, <2>2 DEF MailInv, ServeInv
<1> QED  BY <1>1, <1>2, <1>3, <1>4, <1>5, <1>6, <1>7 DEF Next, Serve

LEMMA DetachedStep == TypeOK /\ ServeInv /\ MailInv /\ Detached /\ [Next]_vars => Detached'
<1> SUFFICES ASSUME TypeOK, ServeInv, MailInv, Detached, [Next]_vars PROVE Detached'
  OBVIOUS
<1> USE BridgeAssumption DEF serveVars, pumpVars, deviceVars, clientVars
<1>0. /\ cur \in 0..MaxSession /\ pump \in [Session -> [Dir -> PumpState]]
      /\ flag \in [Session -> BOOLEAN]
      /\ mail \in [Session -> Seq([dir : Dir, n : Nat])]
  BY DEF TypeOK
<1>a. ASSUME phase \in {"recv", "drain"}, phase' = "accept", cur' = cur,
             pump' = pump, flag' = flag, flag[cur],
             \A d \in Dir : pump[cur][d] \in {"writing", "done"},
             \E d \in Dir : pump[cur][d] = "done"
      PROVE  Detached'
  <2>1. \A s \in Session : Returned(s)' => s = cur \/ Returned(s)
    BY <1>a DEF Returned
  <2> QED  BY <1>a, <2>1 DEF Detached, Leaving, Ended
<1>1. CASE Accept
  <2>1. cur + 1 \in Session /\ \A s \in Session : s # cur + 1 => pump'[s] = pump[s]
    BY <1>0, <1>1 DEF Accept, Session
  <2>2. \A s \in Session : Returned(s)' => Returned(s) /\ s # cur + 1
    <3>1. \A s \in Session : s \in Int
      BY DEF Session
    <3> QED  BY <1>0, <1>1, <3>1 DEF Accept, Returned
  <2> QED  BY <1>1, <2>1, <2>2 DEF Accept, Detached
<1>2. CASE SessionFails
  <2>1. \A s \in Session : Returned(s)' => Returned(s)
    BY <1>2 DEF SessionFails, Returned
  <2> QED  BY <1>2, <2>1 DEF SessionFails, Detached
<1>3. CASE First
  <2>1. \A s \in Session : (Returned(s)' => Returned(s)) /\ (flag[s] => flag'[s])
    BY <1>0, <1>3 DEF First, Record, Returned
  <2> QED  BY <1>3, <2>1 DEF First, Record, Detached
<1>4. CASE Second
  <2>1. cur \in Session /\ phase = "drain" /\ mail[cur] # <<>>
    BY <1>4 DEF Second, Record, ServeInv
  <2>2. /\ Head(mail[cur]).dir \in Dir /\ pump[cur][Head(mail[cur]).dir] = "done"
        /\ 1 \in DOMAIN mail[cur] /\ mail[cur][1] = Head(mail[cur])
    <3>1. /\ Head(mail[cur]) = mail[cur][1] /\ 1 \in DOMAIN mail[cur]
          /\ Head(mail[cur]) \in [dir : Dir, n : Nat]
      <4>1. mail[cur] \in Seq([dir : Dir, n : Nat])
        BY <1>0, <2>1
      <4>2. Len(mail[cur]) \in Nat \ {0} /\ DOMAIN mail[cur] = 1..Len(mail[cur])
        BY <2>1, <4>1, LenProperties, EmptySeq
      <4>3. Head(mail[cur]) = mail[cur][1]
        BY <2>1, <4>1, HeadTailProperties
      <4>4. 1 \in DOMAIN mail[cur] /\ mail[cur][1] \in [dir : Dir, n : Nat]
        <5>1. 1 \in 1..Len(mail[cur])
          BY <4>2
        <5> QED  BY <4>1, <4>2, <5>1, ElementOfSeq
      <4> QED  BY <4>3, <4>4
    <3>2. pump[cur][mail[cur][1].dir] = "done"
      BY <2>1, <3>1 DEF MailInv
    <3> QED  BY <3>1, <3>2
  <2>3. PICK e \in Dir : Reported(cur, e)
    BY <2>1 DEF MailInv
  <2>4. pump[cur][e] = "done" /\ e # Head(mail[cur]).dir
    BY <2>2, <2>3 DEF Reported
  <2>5. \A d \in Dir : pump[cur][d] = "done"
    BY <2>2, <2>4 DEF Dir
  <2> QED  BY <1>4, <1>a, <2>1, <2>5 DEF Second, Record, Dir, MailInv
<1>5. CASE Expire
  <2>1. PICK d \in Dir : pump[cur][d] = "writing"
    BY <1>5 DEF Expire, ExpireOn, Writing
  <2>2. phase = "drain"
    BY <1>5 DEF Expire, ExpireOn
  <2>3. PICK e \in Dir : pump[cur][e] = "done"
    BY <2>2 DEF MailInv, Reported
  <2>4. \A f \in Dir : pump[cur][f] \in {"writing", "done"}
    BY <2>1, <2>3 DEF Dir
  <2> QED  BY <1>5, <1>a, <2>2, <2>3, <2>4 DEF Expire, ExpireOn, MailInv
<1>6. ASSUME DeviceSays \/ \E s \in Session : World(s) PROVE Detached'
  BY <1>6 DEF DeviceSays, World, Connect, HalfClose, Leave, ClientIs, Send, Take,
              Detached, Returned
<1>7. ASSUME NEW s \in Session, NEW d \in Dir, Pump(s, d) PROVE Detached'
  <2> SUFFICES ASSUME NEW t \in Session, Returned(t)'
               PROVE  /\ flag'[t] /\ \E e \in Dir : pump'[t][e] = "done"
                      /\ \A e \in Dir : pump'[t][e] \in Leaving
    BY DEF Detached
  <2>1. Returned(t) /\ flag[t] /\ flag'[t]
    BY <1>7, PumpFrame DEF Returned, Detached
  <2>2. /\ \E e \in Dir : pump[t][e] = "done"
        /\ \A e \in Dir : pump[t][e] \in Leaving
    BY <2>1 DEF Detached
  <2>3. CASE t = s
    <3>0. PICK e \in Dir : pump[t][e] = "done"
      BY <2>2
    <3>1. pump'[s][d] \in Leaving
      <4>1. CASE Check(s, d)
        BY <2>1, <2>3, <4>1, StepFacts DEF Check, CheckAs, PumpState, Ended, Leaving
      <4>2. CASE Idle(s, d) \/ ReadEnds(s, d)
        BY <2>2, <2>3, <4>2, StepFacts DEF Idle, ReadEnds, PumpState, Ended, Leaving
      <4>3. CASE ReadBytes(s, d)
        BY <2>2, <2>3, <4>3, StepFacts DEF ReadBytes, PumpState, Ended, Leaving
      <4>4. CASE Flushed(s, d) \/ WriteFails(s, d)
        BY <4>4, StepFacts DEF Flushed, WriteFails, WriteFailsTo, PumpState, Ended, Leaving
      <4>5. CASE Over(s, d) \/ Tell(s, d)
        BY <4>5, StepFacts DEF Over, Tell, PumpState, Ended, Leaving
      <4>6. CASE WriteUp(s) \/ WriteDown(s)
        BY <2>2, <2>3, <4>6 DEF WriteUp, WriteDown
      <4> QED  BY <1>7, <4>1, <4>2, <4>3, <4>4, <4>5, <4>6 DEF Pump
    <3>2. pump[s][d] # "done" /\ \A f \in Dir : f # d => pump'[s][f] = pump[s][f]
      BY <1>7, PumpFrame
    <3>3. e # d /\ pump'[t][e] = "done"
      BY <2>3, <3>0, <3>2
    <3>4. \A f \in Dir : pump'[t][f] \in Leaving
      BY <2>2, <2>3, <3>1, <3>2
    <3> QED  BY <2>1, <3>3, <3>4
  <2>4. CASE t # s
    <3>1. \A e \in Dir : pump'[t][e] = pump[t][e]
      BY <1>7, <2>4, PumpFrame
    <3> QED  BY <2>1, <2>2, <3>1
  <2> QED  BY <2>3, <2>4
<1>8. CASE UNCHANGED vars
  BY <1>8 DEF vars, Detached, Returned
<1> QED  BY <1>1, <1>2, <1>3, <1>4, <1>5, <1>6, <1>7, <1>8 DEF Next, Serve
----------------------------------------------------------------------------
(* The positions of a client's bytes on the wire, when one is added.        *)
LEMMA BytesFinite ==
  ASSUME TypeOK, NEW s, NEW k \in Nat
  PROVE  IsFiniteSet(BytesOf(s, k)) /\ Cardinality(BytesOf(s, k)) \in Nat
<1>1. IsFiniteSet(1..k) /\ BytesOf(s, k) \subseteq 1..k
  BY FS_Interval DEF BytesOf
<1> QED  BY <1>1, FS_Subset, FS_CardinalityType

LEMMA WireGrows ==
  ASSUME TypeOK, TypeOK', NEW s \in Session, NEW x \in Nat,
         wire' = Append(wire, [by |-> s, n |-> x])
  PROVE  /\ Len(wire') = Len(wire) + 1 /\ Len(wire) \in Nat
         /\ DOMAIN wire = 1..Len(wire) /\ DOMAIN wire' = 1..(Len(wire) + 1)
         /\ \A i \in 1..Len(wire) : wire'[i] = wire[i]
         /\ wire'[Len(wire) + 1].by = s /\ wire'[Len(wire) + 1].n = x
         /\ \A t \in Session, k \in 0..Len(wire) :
              Cardinality(BytesOf(t, k)') = Cardinality(BytesOf(t, k))
         /\ \A t \in Session :
              Count(t)' = IF t = s THEN Count(t) + 1 ELSE Count(t)
         /\ Count(s)' = Cardinality({i \in 1..(Len(wire) + 1) : wire'[i].by = s})
<1> DEFINE L == Len(wire)
<1>1. /\ Len(wire') = L + 1 /\ L \in Nat
      /\ DOMAIN wire = 1..L /\ DOMAIN wire' = 1..(L + 1)
      /\ \A i \in 1..L : wire'[i] = wire[i]
      /\ wire'[L + 1] = [by |-> s, n |-> x]
  <2>1. wire \in Seq([by : Session, n : Nat]) /\ [by |-> s, n |-> x] \in [by : Session, n : Nat]
    BY DEF TypeOK
  <2> QED  BY <2>1, AppendProperties, LenProperties
<1>2. wire'[L + 1].by = s /\ wire'[L + 1].n = x
  BY <1>1
<1>3. \A t \in Session, k \in 0..L : BytesOf(t, k)' = BytesOf(t, k)
  BY <1>1 DEF BytesOf
<1>4. \A t \in Session :
        {i \in 1..(L + 1) : wire'[i].by = t} =
          BytesOf(t, L) \cup (IF t = s THEN {L + 1} ELSE {})
  BY <1>1, <1>2 DEF BytesOf
<1>5. \A t \in Session : Count(t)' = Cardinality({i \in 1..(L + 1) : wire'[i].by = t})
  BY <1>1 DEF Count, BytesOf
<1>6. \A t \in Session : L + 1 \notin BytesOf(t, L)
  BY <1>1 DEF BytesOf
<1>7. \A t \in Session : IsFiniteSet(BytesOf(t, L)) /\ Count(t) = Cardinality(BytesOf(t, L))
  BY <1>1, BytesFinite DEF Count
<1>8. \A t \in Session : Count(t)' = IF t = s THEN Count(t) + 1 ELSE Count(t)
  <2> TAKE t \in Session
  <2>1. CASE t = s
    <3>1. Count(t)' = Cardinality(BytesOf(t, L) \cup {L + 1})
      BY <1>4, <1>5, <2>1
    <3>2. Cardinality(BytesOf(t, L) \cup {L + 1}) = Cardinality(BytesOf(t, L)) + 1
      BY <1>6, <1>7, FS_AddElement
    <3> QED  BY <1>7, <2>1, <3>1, <3>2
  <2>2. CASE t # s
    <3>1. {i \in 1..(L + 1) : wire'[i].by = t} = BytesOf(t, L)
      BY <1>4, <2>2
    <3> QED  BY <1>5, <1>7, <2>2, <3>1
  <2> QED  BY <2>1, <2>2
<1> QED  BY <1>1, <1>2, <1>3, <1>5, <1>8
----------------------------------------------------------------------------
(* The line: the device adds to it, the pump takes from its front, and it  *)
(* is cleared as a whole.                                                   *)
LEMMA LineStep == TypeOK /\ LineInv /\ [Next]_vars => LineInv'
<1> SUFFICES ASSUME TypeOK, LineInv, [Next]_vars PROVE LineInv'
  OBVIOUS
<1> USE DEF serveVars, pumpVars, deviceVars, clientVars
<1>0. line \in Seq(Nat) /\ said \in Nat /\ Len(line) \in Nat
  BY LenProperties DEF TypeOK
<1>1. ASSUME line' = line, said' = said PROVE LineInv'
  BY <1>1 DEF LineInv
<1>2. CASE Accept \/ SessionFails
  <2>1. said' = said /\ line' \in {<<>>, line}
    BY <1>2 DEF Accept, SessionFails, Clear
  <2>2. CASE line' = <<>>
    <3>1. Len(<<>>) = 0
      BY EmptySeq
    <3> QED  BY <1>0, <2>1, <2>2, <3>1, RunEmpty DEF LineInv
  <2> QED  BY <1>1, <2>1, <2>2
<1>3. CASE DeviceSays
  <2> DEFINE n == said - Len(line)
             q == Append(line, said + 1)
  <2>1. line' = q /\ said' = said + 1
    BY <1>3 DEF DeviceSays
  <2>2. n \in Int /\ Run(line, n) /\ said + 1 = n + Len(line) + 1 /\ Len(line) <= said
    BY <1>0 DEF LineInv
  <2> HIDE DEF n
  <2>3. Run(q, n) /\ Len(q) = Len(line) + 1
    BY <1>0, <2>2, RunAppend
  <2> HIDE DEF q
  <2>4. n = (said + 1) - Len(q) /\ Len(q) <= said + 1
    BY <1>0, <2>2, <2>3
  <2> QED  BY <2>1, <2>3, <2>4 DEF LineInv
<1>4. ASSUME NEW s \in Session, ReadBytes(s, "up") PROVE LineInv'
  <2>1. PICK k \in 1..Len(line) : line' = SubSeq(line, k + 1, Len(line))
    BY <1>4 DEF ReadBytes, Source
  <2>2. said' = said
    BY <1>4 DEF ReadBytes
  <2> DEFINE n == said - Len(line)
             q == SubSeq(line, k + 1, Len(line))
  <2>3. n \in Int /\ Run(line, n) /\ n + k = said - (Len(line) - k) /\ Len(line) - k <= said
    BY <1>0 DEF LineInv
  <2> HIDE DEF n
  <2>4. Run(q, n + k) /\ Len(q) = Len(line) - k
    BY <1>0, <2>3, RunSplit
  <2> HIDE DEF q
  <2> QED  BY <2>1, <2>2, <2>3, <2>4 DEF LineInv, q
<1>5. ASSUME NEW s \in Session, NEW d \in Dir, Pump(s, d) PROVE LineInv'
  <2>1. said' = said
    BY <1>5, PumpFrame
  <2>2. line' = line \/ (d = "up" /\ ReadBytes(s, d))
    BY <1>5 DEF Pump, Check, CheckAs, ReadBytes, Idle, ReadEnds, Flushed, WriteFails,
                WriteFailsTo, Over, Tell, WriteUp, WriteDown
  <2> QED  BY <1>1, <1>4, <2>1, <2>2
<1>6. CASE Serve \/ UNCHANGED vars
  BY <1>1, <1>6 DEF vars, Serve, First, Second, Record, Expire, ExpireOn
<1>7. ASSUME NEW s \in Session, World(s) PROVE LineInv'
  BY <1>1, <1>7 DEF World, Connect, HalfClose, Leave, ClientIs, Send, Take
<1> QED  BY <1>2, <1>3, <1>5, <1>6, <1>7 DEF Next

(* A session whose way up a step leaves alone.                              *)
UpStill(s) ==
  /\ got'[s] = got[s] /\ toCli'[s] = toCli[s] /\ from'[s] = from[s]
  /\ held'[s]["up"] = held[s]["up"] /\ put'[s]["up"] = put[s]["up"]
  /\ total'[s]["up"] = total[s]["up"]
  /\ Reading(s)' => Reading(s) /\ line' = line /\ said' = said

LEMMA UpSame == ASSUME NEW s \in Session, UpOf(s), UpStill(s) PROVE UpOf(s)'
BY DEF UpOf, UpStill, Passed

LEMMA UpTypes ==
  ASSUME TypeOK, NEW s \in Session
  PROVE  /\ from[s] \in Nat /\ put[s]["up"] \in Nat /\ total[s]["up"] \in Nat
         /\ got[s] \in Seq(Nat) /\ toCli[s] \in Seq(Nat) /\ held[s]["up"] \in Seq(Nat)
         /\ line \in Seq(Nat) /\ said \in Nat /\ Passed(s) \in Nat
<1>1. /\ from[s] \in Nat /\ put[s]["up"] \in Nat /\ total[s]["up"] \in Nat
      /\ got[s] \in Seq(Nat) /\ toCli[s] \in Seq(Nat) /\ held[s]["up"] \in Seq(Nat)
      /\ line \in Seq(Nat) /\ said \in Nat
  <2>1. "up" \in Dir
    BY DEF Dir
  <2> QED  BY <2>1 DEF TypeOK
<1>2. Passed(s) \in Nat
  BY LenProperties DEF TypeOK, Passed
<1> QED  BY <1>1, <1>2

LEMMA UpStep ==
  TypeOK /\ ServeInv /\ HeldInv /\ Detached /\ LineInv' /\ UpInv /\ [Next]_vars => UpInv'
<1> SUFFICES ASSUME TypeOK, ServeInv, HeldInv, Detached, LineInv', UpInv, [Next]_vars,
                    NEW u \in Session
             PROVE  UpOf(u)'
  BY DEF UpInv
<1> USE DEF serveVars, pumpVars, deviceVars, clientVars
<1>0. UpOf(u) /\ u \in Int /\ cur \in Int
  BY DEF UpInv, Session, TypeOK
<1>1. CASE Accept
  <2>1. cur + 1 \in Session
    BY <1>1, BridgeAssumption DEF Accept, TypeOK, Session
  <2>2. CASE u = cur + 1
    <3>1. /\ got[u] = <<>> /\ toCli[u] = <<>> /\ pump[u]["up"] = "off"
      BY <1>0, <2>2 DEF ServeInv, Dir
    <3>2. held[u]["up"] = <<>> /\ put[u]["up"] = 0
      BY <3>1 DEF HeldInv, Dir
    <3>3. /\ got' = got /\ toCli' = toCli /\ held' = held /\ put' = put /\ total' = total
          /\ from'[u] = said - Len(line') /\ line' \in {<<>>, line} /\ said' = said
      BY <1>1, <2>2 DEF Accept, Clear, TypeOK
    <3>4. Len(<<>>) = 0 /\ Passed(u) = 0 /\ Passed(u)' = Passed(u)
      <4>1. Len(<<>>) = 0
        BY EmptySeq
      <4>2. Passed(u) = Len(<<>>) + Len(<<>>)
        BY <3>1 DEF Passed
      <4>3. Passed(u)' = Passed(u)
        BY <3>3 DEF Passed
      <4> QED  BY <4>1, <4>2, <4>3
    <3>5. Chunk(<<>>, 0, total[u]["up"], from'[u], 0)
      BY <1>0, <3>2, <3>4, RunEmpty DEF UpOf, Chunk
    <3>6. Feed(<<>>, 0, from'[u], 0, line', said)
      <4>1. line' \in Seq(Nat) /\ Len(line') \in Nat /\ said \in Nat
        <5>1. line \in Seq(Nat) /\ said \in Nat
          BY DEF TypeOK
        <5> QED  BY <3>3, <5>1, EmptySeq, LenProperties
      <4>2. Run(line', said - Len(line'))
        BY <3>3 DEF LineInv
      <4> QED  BY <3>3, <3>4, <4>1, <4>2 DEF Feed
    <3>7. Run(got'[u], from'[u]) /\ Run(toCli'[u], from'[u] + Len(got'[u]))
      BY <3>1, <3>3, RunEmpty
    <3> QED  BY <3>2, <3>3, <3>4, <3>5, <3>6, <3>7 DEF UpOf
  <2>3. CASE u # cur + 1
    BY <1>0, <1>1, <2>3, UpSame DEF Accept, UpStill, Reading, TypeOK
  <2> QED  BY <2>2, <2>3
<1>2. CASE SessionFails \/ First \/ Second \/ Expire
  <2>1. UpStill(u)
    BY <1>2 DEF SessionFails, First, Second, Record, Expire, ExpireOn, UpStill, Reading
  <2> QED  BY <1>0, <2>1, UpSame
<1>3. CASE DeviceSays
  <2>1. /\ got' = got /\ toCli' = toCli /\ held' = held /\ put' = put /\ total' = total
        /\ from' = from /\ line' = Append(line, said + 1) /\ said' = said + 1
        /\ (Reading(u)' <=> Reading(u)) /\ Passed(u)' = Passed(u)
    BY <1>3 DEF DeviceSays, Reading, Passed
  <2>2. Reading(u) => Feed(held[u]["up"], put[u]["up"], from[u], Passed(u),
                           Append(line, said + 1), said + 1)
    BY <1>0, UpTypes, FeedMore DEF UpOf
  <2> QED  BY <1>0, <2>1, <2>2 DEF UpOf
<1>4. ASSUME NEW s \in Session, World(s) PROVE UpOf(u)'
  <2>1. CASE Connect(s) \/ HalfClose(s) \/ Leave(s) \/ Send(s)
    <3>1. UpStill(u)
      BY <2>1 DEF Connect, HalfClose, Leave, ClientIs, Send, UpStill, Reading
    <3> QED  BY <1>0, <3>1, UpSame
  <2>2. CASE Take(s) /\ u # s
    <3>1. UpStill(u)
      BY <2>2 DEF Take, UpStill, Reading, TypeOK
    <3> QED  BY <1>0, <3>1, UpSame
  <2>3. CASE Take(s) /\ u = s
    <3>1. /\ got'[u] = Append(got[u], Head(toCli[u])) /\ toCli'[u] = Tail(toCli[u])
          /\ toCli[u] # <<>>
          /\ from' = from /\ held' = held /\ put' = put /\ total' = total
          /\ line' = line /\ said' = said /\ (Reading(u)' <=> Reading(u))
      BY <2>3 DEF Take, Reading, TypeOK
    <3>2. Run(got[u], from[u]) /\ Run(toCli[u], from[u] + Len(got[u]))
      BY <1>0 DEF UpOf
    <3>3. /\ Run(got'[u], from[u]) /\ Run(toCli'[u], from[u] + Len(got'[u]))
          /\ Len(got'[u]) + Len(toCli'[u]) = Len(got[u]) + Len(toCli[u])
      <4> DEFINE g == got[u]
                 c == toCli[u]
                 f == from[u]
      <4>1. g \in Seq(Nat) /\ c \in Seq(Nat) /\ f \in Nat
        BY UpTypes
      <4>2. Run(g, f) /\ Run(c, f + Len(g)) /\ c # <<>>
        BY <3>1, <3>2
      <4> HIDE DEF g, c, f
      <4>3. /\ Run(Append(g, Head(c)), f)
            /\ Run(Tail(c), f + Len(Append(g, Head(c))))
            /\ Len(Append(g, Head(c))) + Len(Tail(c)) = Len(g) + Len(c)
        BY <4>1, <4>2, SocketGives
      <4> QED  BY <3>1, <4>3 DEF g, c, f
    <3>4. Passed(u)' = Passed(u)
      BY <3>3 DEF Passed
    <3> QED  BY <1>0, <3>1, <3>3, <3>4 DEF UpOf
  <2> QED  BY <1>4, <2>1, <2>2, <2>3 DEF World
<1>5. ASSUME NEW s \in Session, NEW d \in Dir, Pump(s, d), u # s \/ d = "down" PROVE UpOf(u)'
  <2>1. line' = line \/ (ReadBytes(s, d) /\ d = "up")
    BY <1>5 DEF Pump, Check, CheckAs, ReadBytes, Idle, ReadEnds, Flushed, WriteFails,
                WriteFailsTo, Over, Tell, WriteUp, WriteDown
  <2>2. d = "down" => toCli' = toCli
    BY <1>5 DEF Pump, Check, CheckAs, ReadBytes, Idle, ReadEnds, Flushed, WriteFails,
                WriteFailsTo, Over, Tell, WriteUp, WriteDown
  <2>3. /\ got' = got /\ from' = from /\ said' = said /\ phase' = phase /\ cur' = cur
        /\ toCli'[u] = toCli[u] /\ pump'[u]["up"] = pump[u]["up"]
        /\ held'[u]["up"] = held[u]["up"] /\ put'[u]["up"] = put[u]["up"]
        /\ total'[u]["up"] = total[u]["up"]
    BY <1>5, <2>2, PumpFrame DEF Dir
  <2>4. ASSUME Reading(u), ReadBytes(s, d), d = "up" PROVE FALSE
    <3>1. pump[s]["up"] = "reading"
      BY <2>4 DEF ReadBytes, Step
    <3>2. ~Returned(s)
      BY <3>1 DEF Detached, Leaving, Ended, Dir
    <3>3. ~(s > cur)
      BY <3>1 DEF ServeInv, Dir
    <3>4. s = cur
      BY <1>0, <3>2, <3>3 DEF Returned, Session
    <3> QED  BY <1>5, <2>4, <3>4 DEF Reading
  <2>5. UpStill(u)
    BY <2>1, <2>3, <2>4 DEF UpStill, Reading
  <2> QED  BY <1>0, <2>5, UpSame
<1>6. ASSUME Pump(u, "up") PROVE UpOf(u)'
  <2>0. /\ got' = got /\ from' = from /\ said' = said /\ phase' = phase /\ cur' = cur
    BY <1>6, PumpFrame DEF Dir
  <2>1. CASE Check(u, "up") \/ Idle(u, "up") \/ ReadEnds(u, "up") \/ Over(u, "up") \/ Tell(u, "up")
    <3>1. /\ pump[u]["up"] \in {"check", "reading", "over", "telling"}
          /\ pump[u]["up"] \in {"over", "telling"} => pump'[u]["up"] \in {"telling", "done"}
      BY <2>1, StepFacts DEF Check, CheckAs, Idle, ReadEnds, Over, Tell, PumpState, Dir
    <3>2. UpStill(u)
      BY <2>1, <3>1 DEF Check, CheckAs, Idle, ReadEnds, Over, Tell, UpStill, Reading
    <3> QED  BY <1>0, <3>2, UpSame
  <2>2. CASE ReadBytes(u, "up")
    <3>1. PICK n \in 1..Len(line) :
            /\ Step(u, "up", "reading", "writing")
            /\ held' = [held EXCEPT ![u]["up"] = SubSeq(line, 1, n)]
            /\ line' = SubSeq(line, n + 1, Len(line))
      BY <2>2 DEF ReadBytes, Source
    <3>2. held'[u]["up"] = SubSeq(line, 1, n)
      <4>1. held \in [Session -> [Dir -> Seq(Nat)]] /\ "up" \in Dir
        BY DEF TypeOK, Dir
      <4> QED  BY <3>1, <4>1
    <3>3. toCli' = toCli /\ put' = put /\ total' = total
      BY <2>2 DEF ReadBytes
    <3>4. pump[u]["up"] = "reading"
      BY <3>1 DEF Step
    <3>5. held[u]["up"] = <<>> /\ put[u]["up"] = 0
      BY <3>4 DEF HeldInv, Dir
    <3>6. Reading(u)
      <4>1. ~Returned(u) /\ ~(u > cur)
        BY <3>4 DEF Detached, Leaving, Ended, ServeInv, Dir
      <4>2. phase \in {"accept", "recv", "drain", "stopped"}
        BY DEF TypeOK
      <4> QED  BY <1>0, <3>4, <4>1, <4>2 DEF Reading, Returned
    <3>7. /\ Chunk(SubSeq(line, 1, n), 0, total[u]["up"], from[u], Passed(u))
          /\ Feed(SubSeq(line, 1, n), 0, from[u], Passed(u), line', said)
      <4> DEFINE t == total[u]["up"]
                 b == from[u]
                 w == Passed(u)
      <4>1. Chunk(<<>>, 0, t, b, w) /\ Feed(<<>>, 0, b, w, line, said)
        BY <1>0, <3>5, <3>6 DEF UpOf
      <4>2. t \in Nat /\ b \in Nat /\ w \in Nat /\ line \in Seq(Nat) /\ said \in Nat
        BY UpTypes
      <4> HIDE DEF t, b, w
      <4>3. /\ Chunk(SubSeq(line, 1, n), 0, t, b, w)
            /\ Feed(SubSeq(line, 1, n), 0, b, w, SubSeq(line, n + 1, Len(line)), said)
        BY <4>1, <4>2, ChunkRead
      <4> QED  BY <3>1, <4>3 DEF t, b, w
    <3>8. Passed(u)' = Passed(u)
      BY <2>0, <3>3 DEF Passed
    <3> QED  BY <1>0, <2>0, <3>2, <3>3, <3>5, <3>7, <3>8 DEF UpOf
  <2>3. CASE Flushed(u, "up")
    <3>1. /\ pump[u]["up"] = "writing" /\ ~(put[u]["up"] < Len(held[u]["up"]))
          /\ line' = line /\ toCli' = toCli
          /\ total'[u]["up"] = total[u]["up"] + Len(held[u]["up"])
          /\ held'[u]["up"] = <<>> /\ put'[u]["up"] = 0
      BY <2>3 DEF Flushed, Unwritten, Step, TypeOK, Dir
    <3>2. (Reading(u)' => Reading(u)) /\ Passed(u)' = Passed(u)
      BY <2>0, <3>1 DEF Reading, Passed
    <3>3. /\ Chunk(<<>>, 0, total[u]["up"] + Len(held[u]["up"]), from[u], Passed(u))
          /\ Reading(u) => Feed(<<>>, 0, from[u], Passed(u), line, said)
      BY <1>0, <3>1, UpTypes, ChunkFlush DEF UpOf
    <3> QED  BY <1>0, <2>0, <3>1, <3>2, <3>3 DEF UpOf
  <2>4. CASE WriteFails(u, "up")
    <3>1. /\ pump'[u]["up"] = "over" /\ toCli' = toCli /\ held'[u]["up"] = <<>>
          /\ put'[u]["up"] = 0 /\ total'[u]["up"] = total[u]["up"] + 0
      <4>1. /\ pump' = [pump EXCEPT ![u]["up"] = "over"]
            /\ held' = [held EXCEPT ![u]["up"] = <<>>]
            /\ put' = [put EXCEPT ![u]["up"] = 0] /\ total' = [total EXCEPT ![u]["up"] = @ + 0]
            /\ toCli' = toCli
        BY <2>4 DEF WriteFails, WriteFailsTo, Step
      <4>2. /\ pump \in [Session -> [Dir -> PumpState]] /\ held \in [Session -> [Dir -> Seq(Nat)]]
            /\ put \in [Session -> [Dir -> Nat]] /\ total \in [Session -> [Dir -> Nat]]
            /\ "up" \in Dir
        BY DEF TypeOK, Dir
      <4> QED  BY <4>1, <4>2
    <3>2. ~Reading(u)' /\ Passed(u)' = Passed(u)
      BY <2>0, <3>1 DEF Reading, Passed
    <3>3. Chunk(<<>>, 0, total[u]["up"] + 0, from[u], Passed(u))
      <4>1. Chunk(held[u]["up"], put[u]["up"], total[u]["up"], from[u], Passed(u))
        BY <1>0 DEF UpOf
      <4> QED  BY <4>1, UpTypes, ChunkEmpty
    <3> QED  BY <1>0, <2>0, <3>1, <3>2, <3>3 DEF UpOf
  <2>5. CASE WriteUp(u)
    <3> DEFINE x == held[u]["up"][put[u]["up"] + 1]
    <3>1. /\ toCli'[u] = Append(toCli[u], x) /\ put'[u]["up"] = put[u]["up"] + 1
      <4>1. /\ toCli' = [toCli EXCEPT ![u] = Append(@, x)] /\ put' = [put EXCEPT ![u]["up"] = @ + 1]
        BY <2>5 DEF WriteUp, NextByte
      <4>2. /\ toCli \in [Session -> Seq(Nat)] /\ put \in [Session -> [Dir -> Nat]]
            /\ "up" \in Dir
        BY DEF TypeOK, Dir
      <4> QED  BY <4>1, <4>2
    <3>2. /\ put[u]["up"] < Len(held[u]["up"])
          /\ held' = held /\ total' = total /\ line' = line /\ (Reading(u)' <=> Reading(u))
      BY <2>0, <2>5 DEF WriteUp, Unwritten, Reading
    <3>3. /\ x = from[u] + Passed(u) + 1
          /\ Chunk(held[u]["up"], put[u]["up"] + 1, total[u]["up"], from[u], Passed(u) + 1)
          /\ Reading(u) => Feed(held[u]["up"], put[u]["up"] + 1, from[u], Passed(u) + 1, line, said)
      <4> DEFINE h == held[u]["up"]
                 p == put[u]["up"]
                 t == total[u]["up"]
                 b == from[u]
                 w == Passed(u)
      <4>1. Chunk(h, p, t, b, w) /\ (Reading(u) => Feed(h, p, b, w, line, said)) /\ p < Len(h)
        BY <1>0, <3>2 DEF UpOf
      <4>2. h \in Seq(Nat) /\ p \in Nat /\ t \in Nat /\ b \in Nat /\ w \in Nat
        BY UpTypes
      <4> HIDE DEF h, p, t, b, w
      <4>3. /\ h[p + 1] = b + w + 1 /\ Chunk(h, p + 1, t, b, w + 1)
            /\ Feed(h, p, b, w, line, said) => Feed(h, p + 1, b, w + 1, line, said)
        BY <4>1, <4>2, ChunkWrite
      <4> QED  BY <4>1, <4>3 DEF h, p, t, b, w
    <3> HIDE DEF x
    <3>4. x \in Nat /\ x = from[u] + (Len(got[u]) + Len(toCli[u])) + 1
      <4>1. from[u] \in Nat /\ Passed(u) \in Nat
        BY UpTypes
      <4>2. x \in Nat
        BY <3>3, <4>1
      <4> QED  BY <3>3, <4>2 DEF Passed
    <3>5. /\ Run(toCli'[u], from[u] + Len(got[u]))
          /\ Len(got[u]) + Len(toCli'[u]) = Len(got[u]) + Len(toCli[u]) + 1
      <4> DEFINE g == got[u]
                 c == toCli[u]
                 f == from[u]
      <4>1. g \in Seq(Nat) /\ c \in Seq(Nat) /\ f \in Nat
        BY UpTypes
      <4>2. Run(c, f + Len(g)) /\ x = f + (Len(g) + Len(c)) + 1
        BY <1>0, <3>4 DEF UpOf
      <4> HIDE DEF g, c, f
      <4>3. Run(Append(c, x), f + Len(g)) /\ Len(g) + Len(Append(c, x)) = Len(g) + Len(c) + 1
        BY <3>4, <4>1, <4>2, SocketGets
      <4> QED  BY <3>1, <4>3 DEF g, c, f
    <3>6. Passed(u)' = Passed(u) + 1
      BY <2>0, <3>5 DEF Passed
    <3> QED  BY <1>0, <2>0, <3>1, <3>2, <3>3, <3>5, <3>6 DEF UpOf
  <2> QED  BY <1>6, <2>1, <2>2, <2>3, <2>4, <2>5 DEF Pump
<1>7. CASE UNCHANGED vars
  <2>1. UpStill(u)
    BY <1>7 DEF vars, UpStill, Reading
  <2> QED  BY <1>0, <2>1, UpSame
<1> QED  BY <1>1, <1>2, <1>3, <1>4, <1>5, <1>6, <1>7 DEF Next, Serve, Dir
----------------------------------------------------------------------------
(* A session whose way down a step leaves alone.                            *)
DownStill(s) ==
  /\ held'[s]["down"] = held[s]["down"] /\ put'[s]["down"] = put[s]["down"]
  /\ total'[s]["down"] = total[s]["down"]
  /\ toDev'[s] = toDev[s] /\ sent'[s] = sent[s] /\ Count(s)' = Count(s)
  /\ s > cur' => s > cur
  /\ pump'[s]["down"] \notin Ended => pump[s]["down"] \notin Ended

LEMMA DownSame == ASSUME NEW s \in Session, DownOf(s), DownStill(s) PROVE DownOf(s)'
BY DEF DownOf, DownStill

LEMMA DownTypes ==
  ASSUME TypeOK, NEW s \in Session
  PROVE  /\ put[s]["down"] \in Nat /\ total[s]["down"] \in Nat /\ held[s]["down"] \in Seq(Nat)
         /\ toDev[s] \in Seq(Nat) /\ sent[s] \in Nat /\ Count(s) \in Nat
<1>1. /\ put[s]["down"] \in Nat /\ total[s]["down"] \in Nat /\ held[s]["down"] \in Seq(Nat)
      /\ toDev[s] \in Seq(Nat) /\ sent[s] \in Nat
  <2>1. "down" \in Dir
    BY DEF Dir
  <2> QED  BY <2>1 DEF TypeOK
<1>2. Len(wire) \in Nat
  BY LenProperties DEF TypeOK
<1> QED  BY <1>1, <1>2, BytesFinite DEF Count

LEMMA SameWire == ASSUME wire' = wire, NEW s \in Session PROVE Count(s)' = Count(s)
BY DEF Count, BytesOf

(* The byte a pump adds to the wire is the next of its client's.            *)
LEMMA NextDown ==
  ASSUME TypeOK, NEW s \in Session, DownOf(s), Unwritten(s, "down")
  PROVE  /\ NextByte(s, "down") = Count(s) + 1 /\ NextByte(s, "down") \in Nat
         /\ Chunk(held[s]["down"], put[s]["down"] + 1, total[s]["down"], 0, Count(s) + 1)
         /\ Feed(held[s]["down"], put[s]["down"], 0, Count(s), toDev[s], sent[s]) =>
              Feed(held[s]["down"], put[s]["down"] + 1, 0, Count(s) + 1, toDev[s], sent[s])
<1> DEFINE h == held[s]["down"]
           p == put[s]["down"]
           t == total[s]["down"]
           w == Count(s)
<1>1. Chunk(h, p, t, 0, w) /\ p < Len(h)
  BY DEF DownOf, Unwritten
<1>2. h \in Seq(Nat) /\ p \in Nat /\ t \in Nat /\ w \in Nat
  BY DownTypes
<1>3. NextByte(s, "down") = h[p + 1]
  BY DEF NextByte
<1> HIDE DEF h, p, t, w
<1>4. /\ h[p + 1] = 0 + w + 1 /\ Chunk(h, p + 1, t, 0, w + 1)
      /\ Feed(h, p, 0, w, toDev[s], sent[s]) => Feed(h, p + 1, 0, w + 1, toDev[s], sent[s])
  BY <1>1, <1>2, ChunkWrite
<1>5. NextByte(s, "down") = w + 1 /\ w + 1 \in Nat
  BY <1>2, <1>3, <1>4
<1> QED  BY <1>4, <1>5 DEF h, p, t, w

LEMMA DownStep ==
  TypeOK /\ TypeOK' /\ ServeInv /\ HeldInv /\ DownInv /\ [Next]_vars
    => \A u \in Session : DownOf(u)'
<1> SUFFICES ASSUME TypeOK, TypeOK', ServeInv, HeldInv, DownInv, [Next]_vars,
                    NEW u \in Session
             PROVE  DownOf(u)'
  OBVIOUS
<1> USE DEF serveVars, pumpVars, deviceVars, clientVars
<1>0. DownOf(u) /\ u \in Int /\ cur \in Int /\ "down" \in Dir
  BY DEF DownInv, Session, TypeOK, Dir
<1>1. CASE Accept
  <2>1. cur + 1 \in Session /\ pump[cur + 1]["down"] = "off"
    BY <1>0, <1>1, BridgeAssumption DEF Accept, TypeOK, Session, ServeInv
  <2>2. /\ u > cur' => u > cur
        /\ u # cur + 1 => pump'[u] = pump[u]
    BY <1>0, <1>1, <2>1 DEF Accept, TypeOK
  <2>3. pump'[u]["down"] \notin Ended => pump[u]["down"] \notin Ended
    BY <2>1, <2>2 DEF Ended
  <2>4. DownStill(u)
    BY <1>1, <2>2, <2>3, SameWire DEF Accept, DownStill
  <2> QED  BY <1>0, <2>4, DownSame
<1>2. CASE SessionFails \/ First \/ Second \/ Expire \/ DeviceSays
  <2>1. DownStill(u)
    BY <1>2, SameWire DEF SessionFails, First, Second, Record, Expire, ExpireOn, DeviceSays,
                          DownStill
  <2> QED  BY <1>0, <2>1, DownSame
<1>3. ASSUME NEW s \in Session, World(s) PROVE DownOf(u)'
  <2>1. CASE Connect(s) \/ HalfClose(s) \/ Leave(s) \/ Take(s)
    <3>1. DownStill(u)
      BY <2>1, SameWire DEF Connect, HalfClose, Leave, ClientIs, Take, DownStill
    <3> QED  BY <1>0, <3>1, DownSame
  <2>2. CASE Send(s) /\ u # s
    <3>1. toDev'[u] = toDev[u] /\ sent'[u] = sent[u]
      BY <2>2 DEF Send, TypeOK
    <3>2. DownStill(u)
      BY <2>2, <3>1, SameWire DEF Send, DownStill
    <3> QED  BY <1>0, <3>2, DownSame
  <2>3. CASE Send(s) /\ u = s
    <3>1. /\ toDev'[u] = Append(toDev[u], sent[u] + 1) /\ sent'[u] = sent[u] + 1
      BY <2>3 DEF Send, TypeOK
    <3>2. held' = held /\ put' = put /\ total' = total /\ pump' = pump /\ cur' = cur
          /\ Count(u)' = Count(u)
      BY <2>3, SameWire DEF Send
    <3>3. Feed(held[u]["down"], put[u]["down"], 0, Count(u), toDev[u], sent[u]) =>
            Feed(held[u]["down"], put[u]["down"], 0, Count(u), toDev'[u], sent'[u])
      <4> DEFINE h == held[u]["down"]
                 p == put[u]["down"]
                 w == Count(u)
                 q == toDev[u]
                 n == sent[u]
      <4>1. h \in Seq(Nat) /\ p \in Nat /\ w \in Nat /\ q \in Seq(Nat) /\ n \in Nat
        BY DownTypes
      <4> HIDE DEF h, p, w, q, n
      <4>2. Feed(h, p, 0, w, q, n) => Feed(h, p, 0, w, Append(q, n + 1), n + 1)
        BY <4>1, FeedMore
      <4> QED  BY <3>1, <4>2 DEF h, p, w, q, n
    <3> QED  BY <1>0, <3>2, <3>3 DEF DownOf
  <2> QED  BY <1>3, <2>1, <2>2, <2>3 DEF World
<1>4. ASSUME NEW s \in Session, NEW d \in Dir, Pump(s, d), u # s \/ d = "up" PROVE DownOf(u)'
  <2>1. CASE d = "down" /\ WriteDown(s)
    <3>1. u # s /\ cur' = cur
      BY <1>4, <2>1 DEF WriteDown
    <3>2. DownOf(s) /\ wire' = Append(wire, [by |-> s, n |-> NextByte(s, "down")])
          /\ Unwritten(s, "down")
      BY <2>1 DEF DownInv, WriteDown
    <3>3. Count(u)' = Count(u)
      BY <3>1, <3>2, NextDown, WireGrows
    <3>4. DownStill(u)
      BY <1>4, <2>1, <3>1, <3>3, PumpFrame DEF WriteDown, DownStill, Dir
    <3> QED  BY <1>0, <3>4, DownSame
  <2>2. CASE ~(d = "down" /\ WriteDown(s))
    <3>1. wire' = wire /\ (d = "up" => toDev' = toDev)
      BY <1>4, <2>2 DEF Pump, Check, CheckAs, ReadBytes, Idle, ReadEnds, Flushed, WriteFails,
                        WriteFailsTo, Over, Tell, WriteUp
    <3>2. DownStill(u)
      BY <1>0, <1>4, <3>1, PumpFrame, SameWire DEF DownStill
    <3> QED  BY <1>0, <3>2, DownSame
  <2> QED  BY <2>1, <2>2
<1>5. ASSUME Pump(u, "down") PROVE DownOf(u)'
  <2>0. /\ sent' = sent /\ cur' = cur
    BY <1>0, <1>5, PumpFrame
  <2>1. CASE \/ Check(u, "down") \/ Idle(u, "down") \/ ReadEnds(u, "down")
             \/ Over(u, "down") \/ Tell(u, "down")
    <3>1. pump'[u]["down"] \notin Ended => pump[u]["down"] \notin Ended
      BY <1>0, <2>1, StepFacts DEF Check, CheckAs, Idle, ReadEnds, Over, Tell, PumpState, Ended
    <3>2. DownStill(u)
      BY <2>0, <2>1, <3>1, SameWire DEF Check, CheckAs, Idle, ReadEnds, Over, Tell, DownStill
    <3> QED  BY <1>0, <3>2, DownSame
  <2>2. CASE ReadBytes(u, "down")
    <3> DEFINE q == toDev[u]
    <3>1. PICK n \in 1..Len(q) :
            /\ Step(u, "down", "reading", "writing")
            /\ held' = [held EXCEPT ![u]["down"] = SubSeq(q, 1, n)]
            /\ toDev' = [toDev EXCEPT ![u] = SubSeq(@, n + 1, Len(@))]
      BY <2>2 DEF ReadBytes, Source
    <3>2. held'[u]["down"] = SubSeq(q, 1, n)
      <4>1. held \in [Session -> [Dir -> Seq(Nat)]]
        BY DEF TypeOK
      <4> QED  BY <1>0, <3>1, <4>1
    <3>3. toDev'[u] = SubSeq(q, n + 1, Len(q))
      BY <3>1 DEF TypeOK
    <3>4. put' = put /\ total' = total /\ wire' = wire
      BY <2>2 DEF ReadBytes
    <3>5. pump[u]["down"] = "reading"
      BY <3>1 DEF Step
    <3>6. held[u]["down"] = <<>> /\ put[u]["down"] = 0 /\ pump[u]["down"] \notin Ended
      BY <1>0, <3>5 DEF HeldInv, Ended
    <3>7. /\ Chunk(<<>>, 0, total[u]["down"], 0, Count(u))
          /\ Feed(<<>>, 0, 0, Count(u), q, sent[u])
      BY <1>0, <3>6 DEF DownOf
    <3>8. /\ Chunk(SubSeq(q, 1, n), 0, total[u]["down"], 0, Count(u))
          /\ Feed(SubSeq(q, 1, n), 0, 0, Count(u), SubSeq(q, n + 1, Len(q)), sent[u])
      <4> DEFINE t == total[u]["down"]
                 w == Count(u)
                 m == sent[u]
      <4>1. t \in Nat /\ w \in Nat /\ m \in Nat /\ q \in Seq(Nat)
        BY DownTypes
      <4> HIDE DEF t, w, m, q
      <4>2. /\ Chunk(SubSeq(q, 1, n), 0, t, 0, w)
            /\ Feed(SubSeq(q, 1, n), 0, 0, w, SubSeq(q, n + 1, Len(q)), m)
        BY <3>7, <4>1, ChunkRead DEF t, w, m
      <4> QED  BY <4>2 DEF t, w, m
    <3>9. Count(u)' = Count(u)
      BY <3>4, SameWire
    <3> QED  BY <1>0, <2>0, <3>2, <3>3, <3>4, <3>6, <3>8, <3>9 DEF DownOf
  <2>3. CASE Flushed(u, "down")
    <3>1. /\ pump[u]["down"] = "writing" /\ ~(put[u]["down"] < Len(held[u]["down"]))
          /\ toDev' = toDev /\ Count(u)' = Count(u)
      BY <2>3, SameWire DEF Flushed, Unwritten, Step
    <3>2. /\ total'[u]["down"] = total[u]["down"] + Len(held[u]["down"])
          /\ held'[u]["down"] = <<>> /\ put'[u]["down"] = 0
      BY <2>3 DEF Flushed, TypeOK, Dir
    <3>3. pump[u]["down"] \notin Ended
      BY <3>1 DEF Ended
    <3>4. /\ Chunk(<<>>, 0, total[u]["down"] + Len(held[u]["down"]), 0, Count(u))
          /\ Feed(<<>>, 0, 0, Count(u), toDev[u], sent[u])
      <4> DEFINE h == held[u]["down"]
                 p == put[u]["down"]
                 t == total[u]["down"]
                 w == Count(u)
                 q == toDev[u]
                 n == sent[u]
      <4>1. Chunk(h, p, t, 0, w) /\ Feed(h, p, 0, w, q, n) /\ ~(p < Len(h))
        BY <1>0, <3>1, <3>3 DEF DownOf
      <4>2. /\ h \in Seq(Nat) /\ p \in Nat /\ t \in Nat /\ w \in Nat /\ q \in Seq(Nat)
            /\ n \in Nat
        BY DownTypes
      <4> HIDE DEF h, p, t, w, q, n
      <4>3. Chunk(<<>>, 0, t + Len(h), 0, w) /\ Feed(<<>>, 0, 0, w, q, n)
        BY <4>1, <4>2, ChunkFlush
      <4> QED  BY <4>3 DEF h, t, w, q, n
    <3> QED  BY <1>0, <2>0, <3>1, <3>2, <3>4 DEF DownOf
  <2>4. CASE WriteFails(u, "down")
    <3>1. /\ pump'[u]["down"] = "over" /\ held'[u]["down"] = <<>>
          /\ put'[u]["down"] = 0 /\ total'[u]["down"] = total[u]["down"] + 0
      <4>1. /\ pump' = [pump EXCEPT ![u]["down"] = "over"]
            /\ held' = [held EXCEPT ![u]["down"] = <<>>]
            /\ put' = [put EXCEPT ![u]["down"] = 0] /\ total' = [total EXCEPT ![u]["down"] = @ + 0]
            /\ toCli' = toCli
        BY <2>4 DEF WriteFails, WriteFailsTo, Step
      <4>2. /\ pump \in [Session -> [Dir -> PumpState]] /\ held \in [Session -> [Dir -> Seq(Nat)]]
            /\ put \in [Session -> [Dir -> Nat]] /\ total \in [Session -> [Dir -> Nat]]
            /\ "down" \in Dir
        BY DEF TypeOK, Dir
      <4> QED  BY <4>1, <4>2
    <3>2. pump'[u]["down"] \in Ended /\ Count(u)' = Count(u)
      BY <2>4, <3>1, SameWire DEF WriteFails, WriteFailsTo, Ended
    <3>3. Chunk(<<>>, 0, total[u]["down"] + 0, 0, Count(u))
      <4>1. Chunk(held[u]["down"], put[u]["down"], total[u]["down"], 0, Count(u))
        BY <1>0 DEF DownOf
      <4> QED  BY <4>1, DownTypes, ChunkEmpty
    <3> QED  BY <1>0, <2>0, <3>1, <3>2, <3>3 DEF DownOf
  <2>5. CASE WriteDown(u)
    <3>1. /\ put'[u]["down"] = put[u]["down"] + 1 /\ pump[u]["down"] = "writing"
      BY <2>5 DEF WriteDown, TypeOK, Dir
    <3>2. /\ wire' = Append(wire, [by |-> u, n |-> NextByte(u, "down")])
          /\ Unwritten(u, "down") /\ held' = held /\ total' = total /\ pump' = pump
          /\ toDev' = toDev
      BY <2>5 DEF WriteDown
    <3>3. Count(u)' = Count(u) + 1
      BY <1>0, <3>2, NextDown, WireGrows
    <3>4. ~(u > cur)
      BY <1>0, <3>1 DEF ServeInv
    <3> QED  BY <1>0, <2>0, <3>1, <3>2, <3>3, <3>4, NextDown DEF DownOf
  <2> QED  BY <1>5, <2>1, <2>2, <2>3, <2>4, <2>5 DEF Pump
<1>6. CASE UNCHANGED vars
  <2>1. DownStill(u)
    BY <1>6, SameWire DEF vars, DownStill
  <2> QED  BY <1>0, <2>1, DownSame
<1> QED  BY <1>1, <1>2, <1>3, <1>4, <1>5, <1>6 DEF Next, Serve, Dir

(* Every byte on the wire is the next of its client's.                      *)
LEMMA WireStep ==
  TypeOK /\ TypeOK' /\ DownInv /\ [Next]_vars
    => \A i \in DOMAIN wire' : wire'[i].n = Cardinality({j \in 1..i : wire'[j].by = wire'[i].by})
<1> SUFFICES ASSUME TypeOK, TypeOK', DownInv, [Next]_vars
             PROVE  \A i \in DOMAIN wire' :
                      wire'[i].n = Cardinality({j \in 1..i : wire'[j].by = wire'[i].by})
  OBVIOUS
<1> USE DEF serveVars, pumpVars, deviceVars, clientVars
<1>0. \A i \in DOMAIN wire : wire[i].n = Cardinality({j \in 1..i : wire[j].by = wire[i].by})
  BY DEF DownInv, BytesOf
<1>1. ASSUME NEW s \in Session, WriteDown(s)
      PROVE  \A i \in DOMAIN wire' :
               wire'[i].n = Cardinality({j \in 1..i : wire'[j].by = wire'[i].by})
  <2> DEFINE L == Len(wire)
             x == NextByte(s, "down")
  <2>1. /\ wire' = Append(wire, [by |-> s, n |-> x]) /\ x \in Nat /\ x = Count(s) + 1
    BY <1>1, NextDown DEF WriteDown, DownInv
  <2>2. /\ L \in Nat /\ DOMAIN wire = 1..L /\ DOMAIN wire' = 1..(L + 1)
        /\ \A i \in 1..L : wire'[i] = wire[i]
        /\ wire'[L + 1].by = s /\ wire'[L + 1].n = x
        /\ Count(s)' = Count(s) + 1
        /\ Count(s)' = Cardinality({i \in 1..(L + 1) : wire'[i].by = s})
    BY <2>1, WireGrows
  <2> HIDE DEF L, x
  <2>3. ASSUME NEW i \in 1..L
        PROVE  wire'[i].n = Cardinality({j \in 1..i : wire'[j].by = wire'[i].by})
    <3>1. \A j \in 1..i : wire'[j] = wire[j]
      BY <2>2
    <3>2. {j \in 1..i : wire'[j].by = wire'[i].by} = {j \in 1..i : wire[j].by = wire[i].by}
      BY <2>2, <3>1
    <3> QED  BY <1>0, <2>2, <3>2
  <2>4. wire'[L + 1].n = Cardinality({j \in 1..(L + 1) : wire'[j].by = wire'[L + 1].by})
    BY <2>1, <2>2
  <2>5. \A i \in DOMAIN wire' : i \in 1..L \/ i = L + 1
    BY <2>2
  <2> QED  BY <2>3, <2>4, <2>5
<1>2. wire' = wire \/ \E s \in Session : WriteDown(s)
  <2>1. ASSUME NEW s \in Session, NEW d \in Dir, Pump(s, d)
        PROVE  wire' = wire \/ WriteDown(s)
    BY <2>1 DEF Pump, Check, CheckAs, ReadBytes, Idle, ReadEnds, Flushed, WriteFails,
                WriteFailsTo, Over, Tell, WriteUp
  <2>2. ASSUME NEW s \in Session, World(s) PROVE wire' = wire
    BY <2>2 DEF World, Connect, HalfClose, Leave, ClientIs, Send, Take
  <2>3. CASE Accept \/ SessionFails \/ Serve \/ DeviceSays \/ UNCHANGED vars
    BY <2>3 DEF vars, Accept, SessionFails, Serve, First, Second, Record, Expire, ExpireOn,
                DeviceSays
  <2> QED  BY <2>1, <2>2, <2>3 DEF Next
<1> QED  BY <1>0, <1>1, <1>2
----------------------------------------------------------------------------
LEMMA InitBridge == Init => BridgeInv
<1> SUFFICES ASSUME Init PROVE BridgeInv
  OBVIOUS
<1>0. TypeOK
  BY InitType
<1>1. /\ phase = "accept" /\ cur = 0 /\ wire = <<>> /\ line = <<>> /\ said = 0
      /\ \A s \in Session, d \in Dir :
           /\ pump[s][d] = "off" /\ held[s][d] = <<>> /\ put[s][d] = 0
           /\ total[s][d] = 0 /\ stats[s][d] = 0
      /\ \A s \in Session :
           /\ mail[s] = <<>> /\ got[s] = <<>> /\ toCli[s] = <<>> /\ toDev[s] = <<>>
           /\ sent[s] = 0 /\ from[s] = 0
  BY DEF Init, Both
<1>2. \A s \in Session : s > cur /\ ~(s < cur) /\ s # cur
  BY <1>1, BridgeAssumption DEF Session
<1>3. ServeInv
  BY <1>1, <1>2 DEF ServeInv
<1>4. MailInv
  <2>1. \A s \in Session, d \in Dir : ~Reported(s, d)
    BY <1>1 DEF Reported
  <2>2. \A s \in Session : DOMAIN mail[s] = {}
    BY <1>1
  <2>3. Told
    BY <1>1 DEF Told
  <2> QED  BY <1>1, <2>1, <2>2, <2>3 DEF MailInv
<1>5. Detached
  BY <1>2 DEF Detached, Returned
<1>6. HeldInv
  BY <1>1 DEF HeldInv
<1>7. Len(<<>>) = 0 /\ \A t \in Nat : t = 0 => Chunk(<<>>, 0, t, 0, 0)
  BY EmptySeq, RunEmpty DEF Chunk
<1>8. Chunk(<<>>, 0, 0, 0, 0)
  BY <1>7
<1>9. UpInv
  <2> SUFFICES ASSUME NEW s \in Session PROVE UpOf(s)
    BY DEF UpInv
  <2>1. Passed(s) = Len(<<>>) + Len(<<>>)
    BY <1>1 DEF Passed
  <2>2. Passed(s) = 0 /\ ~Reading(s)
    BY <1>2, <1>7, <2>1 DEF Reading
  <2> QED  BY <1>1, <1>8, <2>2, RunEmpty DEF UpOf, Dir
<1>10. DownInv
  <2> SUFFICES ASSUME NEW s \in Session PROVE DownOf(s)
    BY <1>1 DEF DownInv
  <2>1. BytesOf(s, 0) = {}
    BY DEF BytesOf
  <2>2. Count(s) = 0
    BY <1>1, <1>7, <2>1, FS_EmptySet DEF Count
  <2>3. Feed(<<>>, 0, 0, 0, <<>>, 0)
    BY <1>7, RunEmpty DEF Feed
  <2> QED  BY <1>1, <1>8, <2>2, <2>3 DEF DownOf, Dir
<1>11. LineInv
  BY <1>1, <1>7, RunEmpty DEF LineInv
<1> QED  BY <1>0, <1>3, <1>4, <1>5, <1>6, <1>9, <1>10, <1>11 DEF BridgeInv

LEMMA BridgeStep == BridgeInv /\ [Next]_vars => BridgeInv'
<1> SUFFICES ASSUME BridgeInv, [Next]_vars PROVE BridgeInv'
  OBVIOUS
<1>1. TypeOK'
  BY TypeStep DEF BridgeInv
<1>2. ServeInv' /\ MailInv' /\ Detached' /\ HeldInv' /\ LineInv'
  BY ServeStep, MailStep, DetachedStep, HeldStep, LineStep DEF BridgeInv
<1>3. DownInv'
  BY <1>1, DownStep, WireStep DEF BridgeInv, DownInv, BytesOf
<1>4. UpInv'
  BY <1>2, UpStep DEF BridgeInv
<1> QED  BY <1>1, <1>2, <1>3, <1>4 DEF BridgeInv

LEMMA Bridging == Spec => []BridgeInv
BY InitBridge, BridgeStep, PTL DEF Spec

(* What a session returns as transferred was written.                       *)
LEMMA Counted == BridgeInv => CountsWhatWasWritten
<1> SUFFICES ASSUME BridgeInv, NEW s \in Session
             PROVE  /\ stats[s]["up"] <= Len(got[s]) + Len(toCli[s])
                    /\ stats[s]["down"] <= Cardinality(BytesOf(s, Len(wire)))
                    /\ \A d \in Dir : pump[s][d] = "done" /\ mail[s] = <<>>
                                        => stats[s][d] = total[s][d]
  BY DEF CountsWhatWasWritten
<1>1. \A d \in Dir : stats[s][d] = IF Reported(s, d) THEN total[s][d] ELSE 0
  BY DEF BridgeInv, MailInv
<1>2. /\ put[s]["up"] \in Nat /\ total[s]["up"] \in Nat /\ Passed(s) \in Nat
      /\ put[s]["down"] \in Nat /\ total[s]["down"] \in Nat /\ Count(s) \in Nat
  BY UpTypes, DownTypes DEF BridgeInv
<1>3. /\ total[s]["up"] + put[s]["up"] <= Passed(s)
      /\ total[s]["down"] + put[s]["down"] <= Count(s)
  BY DEF BridgeInv, UpInv, UpOf, DownInv, DownOf, Chunk
<1>4. \A d \in Dir : stats[s][d] \in {0, total[s][d]}
  BY <1>1
<1>5. stats[s]["up"] \in {0, total[s]["up"]} /\ stats[s]["down"] \in {0, total[s]["down"]}
  BY <1>4 DEF Dir
<1>6. stats[s]["up"] <= Passed(s) /\ stats[s]["down"] <= Count(s)
  <2> DEFINE a == total[s]["up"]
             b == total[s]["down"]
             p == put[s]["up"]
             q == put[s]["down"]
             m == Passed(s)
             n == Count(s)
  <2>1. /\ a \in Nat /\ b \in Nat /\ p \in Nat /\ q \in Nat /\ m \in Nat /\ n \in Nat
        /\ a + p <= m /\ b + q <= n
    BY <1>2, <1>3
  <2> HIDE DEF a, b, p, q, m, n
  <2>2. a <= m /\ b <= n /\ 0 <= m /\ 0 <= n
    BY <2>1
  <2> QED  BY <1>5, <2>2 DEF a, b, p, q, m, n
<1>7. ASSUME NEW d \in Dir, pump[s][d] = "done", mail[s] = <<>> PROVE stats[s][d] = total[s][d]
  <2>1. Reported(s, d)
    BY <1>7 DEF Reported
  <2> QED  BY <1>1, <2>1
<1> QED  BY <1>6, <1>7 DEF Passed, Count

(* When bridge() has returned, the flag is up and what may be left of the   *)
(* session is one thread that writes its last chunk and reads nothing more; *)
(* a pump that ended told the other one; and the session counts no byte that*)
(* was not written.                                                         *)
THEOREM SessionsReturn == Spec => []Inv
<1>1. BridgeInv => Inv
  BY Counted DEF BridgeInv, MailInv, Inv
<1> QED  BY <1>1, Bridging, PTL
----------------------------------------------------------------------------
(* What is on its way to a client counts up from the first byte after it    *)
(* was accepted.                                                            *)
LEMMA RunPending ==
  ASSUME NEW h \in Seq(Nat), NEW p \in Nat, NEW n \in Int, Run(h, n), p <= Len(h)
  PROVE  /\ SubSeq(h, p + 1, Len(h)) \in Seq(Nat)
         /\ Len(SubSeq(h, p + 1, Len(h))) = Len(h) - p
         /\ Run(SubSeq(h, p + 1, Len(h)), n + p)
<1> DEFINE r == SubSeq(h, p + 1, Len(h))
<1>1. p + 1 \in Int /\ Len(h) \in Int /\ \A i \in (p + 1)..Len(h) : h[i] \in Nat
  BY LenProperties, ElementOfSeq
<1>2. /\ r \in Seq(Nat) /\ Len(r) = IF p + 1 <= Len(h) THEN Len(h) - (p + 1) + 1 ELSE 0
      /\ \A i \in 1..(Len(h) - (p + 1) + 1) : r[i] = h[p + 1 + i - 1]
  BY <1>1, SubSeqProperties
<1> HIDE DEF r
<1>3. Len(r) = Len(h) - p /\ \A i \in 1..(Len(h) - p) : r[i] = h[p + i]
  BY <1>1, <1>2
<1>4. Run(r, n + p)
  BY <1>1, <1>3 DEF Run
<1> QED  BY <1>2, <1>3, <1>4 DEF r

LEMMA RunArriving ==
  ASSUME BridgeInv, NEW s \in Session
  PROVE  /\ Arriving(s) \in Seq(Nat) /\ Run(Arriving(s), from[s])
         /\ Len(Arriving(s)) = (Len(got[s]) + Len(toCli[s])) - put[s]["up"] + Len(held[s]["up"])
<1> DEFINE g == got[s]
           c == toCli[s]
           f == from[s]
           h == held[s]["up"]
           p == put[s]["up"]
           r == IF pump[s]["up"] = "writing" THEN SubSeq(h, p + 1, Len(h)) ELSE <<>>
<1>0. "up" \in Dir
  BY DEF Dir
<1>1. /\ g \in Seq(Nat) /\ c \in Seq(Nat) /\ f \in Nat /\ h \in Seq(Nat) /\ p \in Nat
      /\ Len(g) \in Nat /\ Len(c) \in Nat /\ Len(h) \in Nat
  BY UpTypes, LenProperties DEF BridgeInv
<1>2. Run(g, f) /\ Run(c, f + Len(g)) /\ p <= Len(h) /\ Run(h, f + (Len(g) + Len(c)) - p)
  BY DEF BridgeInv, UpInv, UpOf, Chunk, Passed
<1>3. pump[s]["up"] = "writing" \/ (h = <<>> /\ p = 0)
  BY <1>0 DEF BridgeInv, HeldInv
<1>4. Arriving(s) = (g \o c) \o r
  BY DEF Arriving
<1> HIDE DEF g, c, f, h, p
<1>5. r \in Seq(Nat) /\ Len(r) = Len(h) - p /\ Run(r, f + (Len(g) + Len(c)))
  <2>1. f + (Len(g) + Len(c)) - p \in Int /\ f + (Len(g) + Len(c)) - p + p = f + (Len(g) + Len(c))
    BY <1>1
  <2>2. CASE pump[s]["up"] = "writing"
    BY <1>1, <1>2, <2>1, <2>2, RunPending
  <2>3. CASE pump[s]["up"] # "writing"
    BY <1>3, <2>3, RunEmpty, EmptySeq
  <2> QED  BY <2>2, <2>3
<1> HIDE DEF r
<1>6. g \o c \in Seq(Nat) /\ Len(g \o c) = Len(g) + Len(c) /\ Run(g \o c, f)
  BY <1>1, <1>2, RunConcat
<1>7. /\ (g \o c) \o r \in Seq(Nat) /\ Run((g \o c) \o r, f)
      /\ Len((g \o c) \o r) = Len(g \o c) + Len(r)
  <2>1. f + Len(g \o c) = f + (Len(g) + Len(c)) /\ f \in Int
    BY <1>1, <1>6
  <2>2. Run(r, f + Len(g \o c))
    BY <1>5, <2>1
  <2> QED  BY <1>5, <1>6, <2>1, <2>2, RunConcat
<1>8. Len((g \o c) \o r) = (Len(g) + Len(c)) - p + Len(h)
  BY <1>1, <1>5, <1>6, <1>7
<1>9. Len(Arriving(s)) = (Len(got[s]) + Len(toCli[s])) - put[s]["up"] + Len(held[s]["up"])
  BY <1>4, <1>8 DEF g, c, h, p
<1>10. Arriving(s) \in Seq(Nat) /\ Run(Arriving(s), from[s])
  BY <1>4, <1>7 DEF f
<1> QED  BY <1>9, <1>10

(* A client gets one unbroken stretch of what the device says, from the     *)
(* first byte after it was accepted, and what it sends reaches the device   *)
(* in order and without a gap.                                              *)
LEMMA NothingIsLost == BridgeInv => Intact
<1> SUFFICES ASSUME BridgeInv, NEW s \in 1..cur
             PROVE  /\ Consecutive(<<from[s]>> \o Arriving(s) \o
                         (IF Bridged(s) THEN line \o <<said + 1>> ELSE <<>>))
                    /\ \A i \in BytesOf(s, Len(wire)) : wire[i].n = Cardinality(BytesOf(s, i))
  BY DEF Intact
<1>0. s \in Session
  BY BridgeAssumption DEF BridgeInv, TypeOK, Session
<1>1. \A i \in BytesOf(s, Len(wire)) : wire[i].n = Cardinality(BytesOf(s, i))
  <2> TAKE i \in BytesOf(s, Len(wire))
  <2>1. i \in 1..Len(wire) /\ wire[i].by = s
    BY DEF BytesOf
  <2>2. DOMAIN wire = 1..Len(wire)
    BY LenProperties DEF BridgeInv, TypeOK
  <2> QED  BY <2>1, <2>2 DEF BridgeInv, DownInv
<1> DEFINE f == from[s]
           a == Arriving(s)
           b == IF Bridged(s) THEN line \o <<said + 1>> ELSE <<>>
<1>2. /\ a \in Seq(Nat) /\ Run(a, f) /\ f \in Nat
      /\ Len(a) = (Len(got[s]) + Len(toCli[s])) - put[s]["up"] + Len(held[s]["up"])
  BY <1>0, RunArriving, UpTypes DEF BridgeInv
<1>3. b \in Seq(Nat) /\ Run(b, f + Len(a))
  <2>1. CASE Bridged(s)
    <3>1. Reading(s)
      BY <2>1 DEF Bridged, Reading
    <3>2. Feed(held[s]["up"], put[s]["up"], from[s], Passed(s), line, said)
      BY <1>0, <3>1 DEF BridgeInv, UpInv, UpOf
    <3> DEFINE n == f + Len(a)
    <3>3. Run(line, n) /\ said = n + Len(line) /\ n \in Int
      <4> DEFINE h == Len(held[s]["up"])
                 p == put[s]["up"]
                 w == Len(got[s]) + Len(toCli[s])
      <4>1. h \in Nat /\ p \in Nat /\ w \in Nat /\ f \in Nat
        BY <1>0, UpTypes, LenProperties DEF BridgeInv, Passed
      <4>2. Run(line, f + w - p + h) /\ said = f + w - p + h + Len(line)
        BY <3>2 DEF Feed, Passed
      <4>3. Len(a) = w - p + h
        BY <1>2
      <4> HIDE DEF h, p, w, a, f
      <4>4. f + w - p + h = f + Len(a) /\ f + Len(a) \in Int
        BY <4>1, <4>3
      <4> QED  BY <4>2, <4>4
    <3> HIDE DEF n
    <3>4. line \in Seq(Nat) /\ said \in Nat /\ Len(line) \in Nat /\ said + 1 \in Nat
      BY LenProperties DEF BridgeInv, TypeOK
    <3>5. said + 1 = n + Len(line) + 1
      BY <3>3, <3>4
    <3>6. Append(line, said + 1) \in Seq(Nat) /\ Run(Append(line, said + 1), n)
      BY <3>3, <3>4, <3>5, RunAppend
    <3>7. b = Append(line, said + 1)
      BY <2>1, <3>4, AppendIsConcat
    <3> QED  BY <3>6, <3>7 DEF n
  <2>2. CASE ~Bridged(s)
    BY <2>2, RunEmpty, EmptySeq
  <2> QED  BY <2>1, <2>2
<1> HIDE DEF f, a, b
<1>4. <<f>> \in Seq(Nat) /\ Len(<<f>>) = 1 /\ Run(<<f>>, f - 1) /\ f - 1 \in Int
  BY <1>2 DEF Run
<1>5. <<f>> \o a \in Seq(Nat) /\ Len(<<f>> \o a) = 1 + Len(a) /\ Run(<<f>> \o a, f - 1)
  <2>1. f - 1 + Len(<<f>>) = f
    BY <1>2, <1>4
  <2> QED  BY <1>2, <1>4, <2>1, RunConcat
<1>6. <<f>> \o a \o b \in Seq(Nat) /\ Run(<<f>> \o a \o b, f - 1)
  <2>1. f - 1 + Len(<<f>> \o a) = f + Len(a)
    <3>1. Len(a) \in Int /\ f \in Int
      <4>1. a \in Seq(Nat) /\ f \in Nat
        BY <1>2
      <4> QED  BY <4>1, LenProperties
    <3> QED  BY <1>5, <3>1
  <2> QED  BY <1>3, <1>4, <1>5, <2>1, RunConcat
<1>7. Consecutive(<<f>> \o a \o b)
  BY <1>4, <1>6, RunConsecutive
<1> QED  BY <1>1, <1>7 DEF f, a, b

THEOREM StreamsAreIntact == Spec => []Intact
BY Bridging, NothingIsLost, PTL
----------------------------------------------------------------------------
(* A session that returned goes on with the chunk it holds, and then ends.  *)
LEMMA LastChunkStep ==
  ASSUME BridgeInv, [Next]_vars, NEW t \in Session, t < cur, NEW n, InLastChunk(t, n)
  PROVE  InLastChunk(t, n)'
<1> USE DEF serveVars, pumpVars, deviceVars, clientVars
<1> DEFINE here == pump[t]["down"]
<1>0. TypeOK /\ "down" \in Dir /\ t \in Int /\ cur \in Int
  <2>1. TypeOK
    BY DEF BridgeInv
  <2>2. "down" \in Dir /\ t \in Int
    BY DEF Dir, Session
  <2>3. cur \in Int
    BY <2>1 DEF TypeOK
  <2> QED  BY <2>1, <2>2, <2>3
<1>1. flag[t]
  BY DEF BridgeInv, Detached, Returned
<1>2. ASSUME pump'[t]["down"] = here, total'[t]["down"] = total[t]["down"]
      PROVE  InLastChunk(t, n)'
  BY <1>2 DEF InLastChunk
<1>3. ASSUME Pump(t, "down") PROVE InLastChunk(t, n)'
  <2>1. CASE Check(t, "down")
    BY <1>0, <1>1, <2>1, StepFacts DEF Check, CheckAs, PumpState, Ended, InLastChunk
  <2>2. CASE Idle(t, "down") \/ ReadEnds(t, "down") \/ ReadBytes(t, "down")
    BY <2>2 DEF Idle, ReadEnds, ReadBytes, Step, InLastChunk, Ended
  <2>3. CASE Flushed(t, "down") \/ WriteFails(t, "down")
    BY <1>0, <2>3, StepFacts DEF Flushed, WriteFails, WriteFailsTo, PumpState, Ended, InLastChunk
  <2>4. CASE Over(t, "down") \/ Tell(t, "down")
    BY <1>0, <2>4, StepFacts DEF Over, Tell, PumpState, Ended, InLastChunk
  <2>5. CASE WriteDown(t)
    BY <1>2, <2>5 DEF WriteDown
  <2> QED  BY <1>3, <2>1, <2>2, <2>3, <2>4, <2>5 DEF Pump
<1>4. ASSUME NEW s \in Session, NEW d \in Dir, Pump(s, d) PROVE InLastChunk(t, n)'
  <2>1. CASE s = t /\ d = "down"
    BY <1>3, <1>4, <2>1
  <2>2. CASE s # t \/ d # "down"
    <3>1. pump'[t]["down"] = here /\ total'[t]["down"] = total[t]["down"]
      BY <1>0, <1>4, <2>2, PumpFrame
    <3> QED  BY <1>2, <3>1
  <2> QED  BY <2>1, <2>2
<1>5. CASE Accept
  BY <1>0, <1>2, <1>5 DEF Accept, TypeOK
<1>6. CASE SessionFails \/ Serve \/ DeviceSays \/ UNCHANGED vars
  BY <1>2, <1>6 DEF vars, SessionFails, Serve, First, Second, Record, Expire, ExpireOn, DeviceSays
<1>7. ASSUME NEW s \in Session, World(s) PROVE InLastChunk(t, n)'
  BY <1>2, <1>7 DEF World, Connect, HalfClose, Leave, ClientIs, Send, Take
<1> QED  BY <1>4, <1>5, <1>6, <1>7 DEF Next

LEMMA WriterStep == BridgeInv /\ WriterInv /\ [Next]_vars => WriterInv'
<1> SUFFICES ASSUME BridgeInv, WriterInv, [Next]_vars PROVE WriterInv'
  OBVIOUS
<1> USE DEF serveVars, pumpVars, deviceVars, clientVars
<1>0. /\ TypeOK /\ cur \in Int
      /\ \A i \in DOMAIN wire : wire[i].by \in Session /\ wire[i].by \in Int
  <2>1. TypeOK
    BY DEF BridgeInv
  <2>2. cur \in Int /\ wire \in Seq([by : Session, n : Nat])
    BY <2>1 DEF TypeOK
  <2>3. \A i \in DOMAIN wire : wire[i] \in [by : Session, n : Nat]
    BY <2>2, ElementOfSeq, LenProperties
  <2> QED  BY <2>1, <2>2, <2>3 DEF Session
<1>1. ASSUME NEW i \in DOMAIN wire, NEW j \in DOMAIN wire, i < j, wire[j].by < wire[i].by
      PROVE  /\ InLastChunk(wire[j].by, wire[j].n)
             /\ \A u, m : u = wire[j].by /\ m = wire[j].n => InLastChunk(u, m)'
  <2> DEFINE t == wire[j].by
             n == wire[j].n
  <2>1. t \in Session /\ t < cur /\ InLastChunk(t, n)
    BY <1>0, <1>1 DEF WriterInv, OneChunkLate
  <2> SUFFICES ASSUME NEW u, NEW m, u = t, m = n PROVE InLastChunk(u, m)'
    BY <2>1
  <2>2. u \in Session /\ u < cur /\ InLastChunk(u, m)
    BY <2>1
  <2> HIDE DEF t, n
  <2> QED  BY <2>2, LastChunkStep
<1>2. ASSUME wire' = wire, cur' >= cur, cur' \in Int PROVE WriterInv'
  <2>1. \A i \in DOMAIN wire' : wire'[i].by <= cur'
    BY <1>0, <1>2 DEF WriterInv
  <2>2. ASSUME NEW i \in DOMAIN wire', NEW j \in DOMAIN wire', i < j, wire'[j].by < wire'[i].by
        PROVE  InLastChunk(wire[j].by, wire[j].n)'
    BY <1>1, <1>2, <2>2
  <2> QED  BY <2>1, <2>2 DEF WriterInv, OneChunkLate
<1>3. ASSUME NEW s \in Session, WriteDown(s) PROVE WriterInv'
  <2> DEFINE L == Len(wire)
             x == NextByte(s, "down")
  <2>1. /\ wire' = Append(wire, [by |-> s, n |-> x]) /\ cur' = cur
        /\ total' = total /\ pump' = pump /\ pump[s]["down"] = "writing"
        /\ x \in Nat /\ x > total[s]["down"]
    <3>1. DownOf(s) /\ Unwritten(s, "down")
      BY <1>3 DEF WriteDown, BridgeInv, DownInv
    <3>2. x = Count(s) + 1 /\ x \in Nat
      BY <1>0, <3>1, NextDown
    <3>3. /\ total[s]["down"] + put[s]["down"] <= Count(s)
          /\ total[s]["down"] \in Nat /\ put[s]["down"] \in Nat /\ Count(s) \in Nat
      BY <1>0, <3>1, DownTypes DEF DownOf, Chunk
    <3>4. Count(s) + 1 > total[s]["down"]
      BY <3>3
    <3> HIDE DEF x
    <3>5. x > total[s]["down"]
      BY <3>2, <3>4
    <3> QED  BY <1>3, <3>2, <3>5 DEF WriteDown, x
  <2>2. /\ L \in Nat /\ DOMAIN wire = 1..L /\ DOMAIN wire' = 1..(L + 1) /\ Len(wire') = L + 1
        /\ \A i \in 1..L : wire'[i] = wire[i]
        /\ wire'[L + 1] = [by |-> s, n |-> x]
    BY <1>0, <2>1, WireGrows
  <2>3. s <= cur
    <3>1. ~(s > cur) /\ s \in Int
      BY <2>1 DEF BridgeInv, ServeInv, Dir, Session
    <3> QED  BY <1>0, <3>1
  <2> HIDE DEF L, x
  <2>4. \A i \in DOMAIN wire' : wire'[i].by <= cur'
    <3> TAKE i \in DOMAIN wire'
    <3>1. CASE i \in 1..L
      BY <2>1, <2>2, <3>1 DEF WriterInv
    <3>2. CASE i = L + 1
      BY <2>1, <2>2, <2>3, <3>2
    <3> QED  BY <2>2, <3>1, <3>2
  <2>5. ASSUME NEW i \in DOMAIN wire', NEW j \in DOMAIN wire', i < j, wire'[j].by < wire'[i].by
        PROVE  InLastChunk(wire[j].by, wire[j].n)'
    <3>1. i \in 1..L
      BY <2>2, <2>5
    <3>2. CASE j \in 1..L
      <4>1. wire'[i] = wire[i] /\ wire'[j] = wire[j] /\ wire[j].by < wire[i].by
        BY <2>2, <2>5, <3>1, <3>2
      <4> QED  BY <1>1, <2>2, <2>5, <3>1, <3>2, <4>1
    <3>3. CASE j = L + 1
      <4>1. wire'[j].by = s /\ wire'[j].n = x
        BY <2>2, <3>3
      <4> QED  BY <2>1, <4>1 DEF InLastChunk
    <3> QED  BY <2>2, <3>2, <3>3
  <2> QED  BY <2>4, <2>5 DEF WriterInv, OneChunkLate
<1>4. CASE Accept
  BY <1>0, <1>2, <1>4 DEF Accept
<1>5. CASE SessionFails \/ Serve \/ DeviceSays \/ UNCHANGED vars
  BY <1>0, <1>2, <1>5 DEF vars, SessionFails, Serve, First, Second, Record, Expire, ExpireOn,
                          DeviceSays
<1>6. ASSUME NEW s \in Session, World(s) PROVE WriterInv'
  BY <1>0, <1>2, <1>6 DEF World, Connect, HalfClose, Leave, ClientIs, Send, Take
<1>7. ASSUME NEW s \in Session, NEW d \in Dir, Pump(s, d), ~WriteDown(s) PROVE WriterInv'
  BY <1>0, <1>2, <1>7 DEF Pump, Check, CheckAs, ReadBytes, Idle, ReadEnds, Flushed, WriteFails,
                          WriteFailsTo, Over, Tell, WriteUp
<1> QED  BY <1>3, <1>4, <1>5, <1>6, <1>7 DEF Next

(* What a client's thread writes to the device after a later client's is of *)
(* the one chunk it held when its session returned, however slow the device.*)
THEOREM OneChunkIsLate == Spec => []OneChunkLate
<1>1. Init => WriterInv
  <2> SUFFICES ASSUME Init PROVE WriterInv
    OBVIOUS
  <2>1. wire = <<>> /\ Len(wire) = 0 /\ DOMAIN wire = {}
    BY EmptySeq DEF Init
  <2> QED  BY <2>1 DEF WriterInv, OneChunkLate
<1>2. WriterInv => OneChunkLate
  BY DEF WriterInv
<1> QED  BY <1>1, <1>2, WriterStep, Bridging, PTL DEF Spec
====
