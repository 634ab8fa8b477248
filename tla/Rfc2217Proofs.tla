---- MODULE Rfc2217Proofs ----
(***************************************************************************)
(* What the RFC 2217 protocol promises, proved for any text, settings,     *)
(* options and foreign messages, and for any lines, sessions and requests. *)
(* First the Telnet stream.  An end that reads is a Reader, a byte turns it*)
(* into another (Eat), and Ahead(e) is what an end will be once it has read*)
(* all that is under way to it.  The invariant says that Ahead is where the*)
(* other end has got to: its text is what was fed, the verbs it has heard  *)
(* are the other's table, the answers it has got are the line's.  A step   *)
(* that reads leaves Ahead alone; a step that writes a message moves it by *)
(* that message.  Then the COM-PORT handlers and the modem lines.          *)
(***************************************************************************)
EXTENDS Telnet, ComPort, SequenceTheorems, WellFoundedInduction, TLAPS
----------------------------------------------------------------------------
(* Induction over numbers, and over sequences.                             *)
LEMMA LeastNumber ==
  ASSUME NEW S \in SUBSET Nat, S # {}
  PROVE  \E m \in S : \A k \in S : ~(k < m)
<1> DEFINE R == OpToRel(<, Nat)
<1>1. IsWellFoundedOn(R, Nat)
  BY NatLessThanWellFounded
<1>2. \A k, m \in S : k < m => <<k, m>> \in R
  BY DEF OpToRel
<1> HIDE DEF R
<1>3. S \subseteq Nat
  OBVIOUS
<1>4. \E m \in S : \A k \in S : ~(<<k, m>> \in R)
  BY <1>1, <1>3, WFMin
<1> QED  BY <1>2, <1>4

LEMMA Induction ==
  ASSUME NEW S \in SUBSET Nat, 0 \in S, \A n \in S : n + 1 \in S
  PROVE  S = Nat
<1> SUFFICES ASSUME Nat \ S # {} PROVE FALSE
  OBVIOUS
<1>1. PICK m \in Nat \ S : \A k \in Nat \ S : ~(k < m)
  BY LeastNumber
<1>2. m # 0 /\ m - 1 \in Nat /\ m - 1 < m /\ (m - 1) + 1 = m
  BY <1>1
<1>3. m - 1 \in S
  BY <1>1, <1>2
<1> QED  BY <1>1, <1>2, <1>3

LEMMA SequenceInduction ==
  ASSUME NEW T, NEW Good \in SUBSET Seq(T), <<>> \in Good,
         \A q \in Good, x \in T : Append(q, x) \in Good
  PROVE  Good = Seq(T)
<1> DEFINE S == {n \in Nat : \A q \in Seq(T) : Len(q) = n => q \in Good}
<1>1. 0 \in S
  BY EmptySeq
<1>2. ASSUME NEW n \in S PROVE n + 1 \in S
  <2>1. ASSUME NEW q \in Seq(T), Len(q) = n + 1 PROVE q \in Good
    <3>1. q # <<>>
      BY <2>1, EmptySeq
    <3>2. PICK r \in Seq(T), x \in T : q = Append(r, x)
      BY <3>1, SequenceEmptyOrAppend
    <3>3. Len(q) = Len(r) + 1 /\ Len(r) \in Nat
      BY <3>2, AppendProperties, LenProperties
    <3>4. r \in Good
      BY <2>1, <3>3
    <3> QED  BY <3>2, <3>4
  <2> QED  BY <2>1
<1>3. S \in SUBSET Nat
  OBVIOUS
<1> HIDE DEF S
<1>4. S = Nat
  BY <1>1, <1>2, <1>3, Induction
<1>5. ASSUME NEW q \in Seq(T) PROVE q \in Good
  BY <1>4, LenProperties DEF S
<1> QED  BY <1>5

(* A function given by its first value and a step exists, and there is one.*)
Table(t, low, n, s, step) ==
  \A i \in low..n : t[i] = IF i = low THEN s ELSE step[<<t[i - 1], i>>]

LEMMA TablesExist ==
  ASSUME NEW S, NEW low \in Nat, NEW n \in Nat, NEW s \in S, NEW step \in [S \X Nat -> S]
  PROVE  \E t \in [low..(low + n) -> S] : Table(t, low, low + n, s, step)
<1> DEFINE N == {k \in Nat : \E t \in [low..(low + k) -> S] : Table(t, low, low + k, s, step)}
<1>1. 0 \in N
  <2> DEFINE t == [i \in low..(low + 0) |-> s]
  <2>1. t \in [low..(low + 0) -> S] /\ Table(t, low, low + 0, s, step)
    BY DEF Table
  <2> QED  BY <2>1
<1>2. ASSUME NEW k \in N PROVE k + 1 \in N
  <2>1. PICK t \in [low..(low + k) -> S] : Table(t, low, low + k, s, step)
    OBVIOUS
  <2> DEFINE m == low + k
             last == step[<<t[m], m + 1>>]
             u == [i \in low..(m + 1) |-> IF i = m + 1 THEN last ELSE t[i]]
  <2>2. k \in Nat /\ m \in Nat /\ m \in low..m /\ low + (k + 1) = m + 1
    OBVIOUS
  <2> HIDE DEF m
  <2>3. t[m] \in S /\ last \in S
    BY <2>1, <2>2 DEF m
  <2>4. u \in [low..(m + 1) -> S]
    BY <2>1, <2>2, <2>3 DEF m
  <2>5. ASSUME NEW i \in low..(m + 1)
        PROVE  u[i] = IF i = low THEN s ELSE step[<<u[i - 1], i>>]
    <3>1. CASE i = m + 1
      <4>1. i # low /\ i - 1 = m /\ m \in low..(m + 1) /\ m # m + 1
        BY <2>2, <3>1
      <4>2. u[i] = last /\ u[m] = t[m]
        BY <3>1, <4>1
      <4> QED  BY <3>1, <4>1, <4>2
    <3>2. CASE i # m + 1
      <4>1. i \in low..m /\ u[i] = t[i]
        BY <2>2, <3>2
      <4>2. t[i] = IF i = low THEN s ELSE step[<<t[i - 1], i>>]
        BY <2>1, <4>1 DEF Table, m
      <4>3. i # low => i - 1 \in low..(m + 1) /\ i - 1 # m + 1 /\ u[i - 1] = t[i - 1]
        BY <2>2, <4>1
      <4> QED  BY <4>1, <4>2, <4>3
    <3> QED  BY <3>1, <3>2
  <2> HIDE DEF u
  <2>6. Table(u, low, m + 1, s, step)
    BY <2>5 DEF Table
  <2>7. u \in [low..(low + (k + 1)) -> S] /\ Table(u, low, low + (k + 1), s, step)
    BY <2>2, <2>4, <2>6
  <2>8. k + 1 \in Nat
    BY <2>2
  <2> QED  BY <2>7, <2>8
<1>3. N \in SUBSET Nat
  OBVIOUS
<1> HIDE DEF N
<1>4. N = Nat
  BY <1>1, <1>2, <1>3, Induction
<1> QED  BY <1>4 DEF N

Follows(t, u, low, n) == /\ t[low] = u[low]
                         /\ \A i \in (low + 1)..n : t[i - 1] = u[i - 1] => t[i] = u[i]
LEMMA TablesAgree ==
  ASSUME NEW low \in Nat, NEW n \in Nat, low <= n, NEW t, NEW u, Follows(t, u, low, n)
  PROVE  t[n] = u[n]
<1> DEFINE N == {k \in Nat : low + k <= n => t[low + k] = u[low + k]}
<1>1. 0 \in N
  BY DEF Follows
<1>2. ASSUME NEW k \in N PROVE k + 1 \in N
  <2>1. ASSUME low + (k + 1) <= n PROVE t[low + (k + 1)] = u[low + (k + 1)]
    <3>1. /\ low + (k + 1) \in (low + 1)..n /\ (low + (k + 1)) - 1 = low + k /\ low + k <= n
      BY <2>1
    <3> QED  BY <3>1 DEF Follows
  <2> QED  BY <2>1
<1>3. N \in SUBSET Nat
  OBVIOUS
<1> HIDE DEF N
<1>4. N = Nat
  BY <1>1, <1>2, <1>3, Induction
<1>5. n - low \in Nat /\ low + (n - low) = n
  OBVIOUS
<1>6. n - low \in Nat => (low + (n - low) <= n => t[low + (n - low)] = u[low + (n - low)])
  BY <1>4 DEF N
<1> QED  BY <1>5, <1>6

(* FlattenSeq puts its sequences end to end.                               *)
LEMMA FlattenTable ==
  ASSUME NEW T, NEW q \in Seq(Seq(T)), q # <<>>
  PROVE  \E t \in [1..Len(q) -> Seq(T)] :
           /\ FlattenSeq(q) = t[Len(q)] /\ t[1] = q[1]
           /\ \A i \in 2..Len(q) : t[i] = t[i - 1] \o q[i]
<1> DEFINE n == Len(q)
           Is(f) == f = [i \in 1..n |-> IF i = 1 THEN q[i] ELSE f[i - 1] \o q[i]]
           step == [p \in Seq(T) \X Nat |-> p[1] \o (IF p[2] \in 1..n THEN q[p[2]] ELSE <<>>)]
<1>1. n \in Nat /\ n >= 1 /\ 1 \in 1..n /\ \A i \in 1..n : q[i] \in Seq(T)
  BY EmptySeq, LenProperties, ElementOfSeq
<1>2. step \in [Seq(T) \X Nat -> Seq(T)]
  <2>1. ASSUME NEW p \in Seq(T) \X Nat
        PROVE  p[1] \o (IF p[2] \in 1..n THEN q[p[2]] ELSE <<>>) \in Seq(T)
    <3>1. p[1] \in Seq(T) /\ (IF p[2] \in 1..n THEN q[p[2]] ELSE <<>>) \in Seq(T)
      BY <1>1, EmptySeq
    <3> HIDE DEF n
    <3> QED  BY <3>1, ConcatProperties
  <2> QED  BY <2>1
<1> HIDE DEF n
<1>3. PICK t \in [1..n -> Seq(T)] : Table(t, 1, n, q[1], step)
  <2>1. n - 1 \in Nat /\ 1 + (n - 1) = n
    BY <1>1
  <2> HIDE DEF step
  <2>2. q[1] \in Seq(T) /\ 1 \in Nat
    BY <1>1
  <2>3. \E t \in [1..(1 + (n - 1)) -> Seq(T)] : Table(t, 1, 1 + (n - 1), q[1], step)
    BY <1>2, <2>1, <2>2, TablesExist
  <2> QED  BY <2>1, <2>3
<1>4. /\ t[1] = q[1]
      /\ \A i \in 2..n : t[i] = t[i - 1] \o q[i]
  <2>1. t[1] = q[1]
    BY <1>1, <1>3 DEF Table
  <2>2. ASSUME NEW i \in 2..n PROVE t[i] = t[i - 1] \o q[i]
    <3>1. i \in 1..n /\ i # 1 /\ i - 1 \in 1..n /\ <<t[i - 1], i>> \in Seq(T) \X Nat
      BY <1>1, <1>3
    <3>2. t[i] = step[<<t[i - 1], i>>]
      BY <1>3, <3>1 DEF Table
    <3> QED  BY <3>1, <3>2
  <2> QED  BY <2>1, <2>2
<1>5. Is(t)
  <2>1. ASSUME NEW i \in 1..n PROVE t[i] = IF i = 1 THEN q[i] ELSE t[i - 1] \o q[i]
    <3>1. i = 1 \/ i \in 2..n
      BY <1>1
    <3> QED  BY <1>4, <3>1
  <2>2. t = [i \in 1..n |-> t[i]]
    BY <1>3
  <2> QED  BY <2>1, <2>2
<1>6. PICK f : Is(f) /\ FlattenSeq(q) = f[n]
  <2>1. Len(q) # 0
    BY <1>1 DEF n
  <2>2. FlattenSeq(q) = (CHOOSE f : Is(f))[n]
    BY <2>1 DEF FlattenSeq, n
  <2>3. Is(CHOOSE f : Is(f))
    BY <1>5
  <2> QED  BY <2>2, <2>3
<1>7. f[1] = t[1] /\ \A i \in 2..n : f[i - 1] = t[i - 1] => f[i] = t[i]
  <2>1. \A i \in 1..n : f[i] = IF i = 1 THEN q[i] ELSE f[i - 1] \o q[i]
    BY <1>6
  <2>2. \A i \in 2..n : i \in 1..n /\ i # 1
    BY <1>1
  <2> QED  BY <1>1, <1>4, <2>1, <2>2, ZenonT(60)
<1>8. f[n] = t[n]
  <2>1. Follows(f, t, 1, n)
    BY <1>7 DEF Follows
  <2>2. 1 \in Nat /\ 1 <= n
    BY <1>1
  <2> QED  BY <1>1, <2>1, <2>2, TablesAgree
<1> QED  BY <1>3, <1>4, <1>6, <1>8 DEF n

LEMMA FlattenEmpty == FlattenSeq(<<>>) = <<>>
BY DEF FlattenSeq

LEMMA FlattenAppend ==
  ASSUME NEW T, NEW q \in Seq(Seq(T)), NEW x \in Seq(T)
  PROVE  FlattenSeq(q) \in Seq(T) /\ FlattenSeq(Append(q, x)) = FlattenSeq(q) \o x
<1> DEFINE r == Append(q, x)  n == Len(q)
<1>1. /\ r \in Seq(Seq(T)) /\ r # <<>> /\ Len(r) = n + 1 /\ n \in Nat
      /\ (\A i \in 1..n : r[i] = q[i]) /\ r[n + 1] = x
  BY AppendProperties, LenProperties
<1>2. PICK u \in [1..(n + 1) -> Seq(T)] :
        /\ FlattenSeq(r) = u[n + 1] /\ u[1] = r[1]
        /\ \A i \in 2..(n + 1) : u[i] = u[i - 1] \o r[i]
  <2>1. \E u \in [1..Len(r) -> Seq(T)] :
          /\ FlattenSeq(r) = u[Len(r)] /\ u[1] = r[1]
          /\ \A i \in 2..Len(r) : u[i] = u[i - 1] \o r[i]
    <3>1. r \in Seq(Seq(T)) /\ r # <<>>
      BY <1>1
    <3> HIDE DEF r
    <3> QED  BY <3>1, FlattenTable, Zenon
  <2> QED  BY <1>1, <2>1
<1>3. CASE q = <<>>
  <2>1. n = 0 /\ FlattenSeq(q) = <<>> /\ u[1] = x
    BY <1>1, <1>2, <1>3, FlattenEmpty, EmptySeq
  <2> QED  BY <1>2, <2>1, EmptySeq, ConcatEmptySeq
<1>4. CASE q # <<>>
  <2>1. PICK t \in [1..n -> Seq(T)] :
          /\ FlattenSeq(q) = t[n] /\ t[1] = q[1]
          /\ \A i \in 2..n : t[i] = t[i - 1] \o q[i]
    BY <1>4, FlattenTable
  <2>2. n >= 1
    BY <1>1, <1>4, EmptySeq
  <2> HIDE DEF r, n
  <2>3. u[1] = t[1] /\ 1 \in Nat /\ 1 <= n
    BY <1>1, <1>2, <2>1, <2>2
  <2>4. \A i \in (1 + 1)..n : u[i - 1] = t[i - 1] => u[i] = t[i]
    <3>1. \A i \in (1 + 1)..n : i \in 2..n /\ i \in 2..(n + 1) /\ i \in 1..n
      BY <1>1
    <3> QED  BY <1>1, <1>2, <2>1, <3>1, ZenonT(60)
  <2>5. u[n] = t[n] /\ t[n] \in Seq(T)
    <3>1. Follows(u, t, 1, n)
      BY <2>3, <2>4 DEF Follows
    <3>2. u[n] = t[n]
      <4>1. n \in Nat /\ 1 \in Nat /\ 1 <= n
        BY <1>1, <2>3
      <4> QED  BY <3>1, <4>1, TablesAgree, ZenonT(60)
    <3>3. t[n] \in Seq(T)
      BY <1>1, <2>1, <2>2
    <3> QED  BY <3>2, <3>3
  <2>6. u[n + 1] = u[n] \o x
    <3>1. n + 1 \in 2..(n + 1) /\ (n + 1) - 1 = n
      BY <1>1, <2>2
    <3> QED  BY <1>1, <1>2, <3>1
  <2> QED  BY <1>2, <2>1, <2>5, <2>6 DEF r
<1> QED  BY <1>3, <1>4

Octet == 0..255
Status == {"none", "yes", "no"}
State == {"Data", "Iac", "Will", "Wont", "Do", "Dont", "SubNeg", "SubNegIac"}

(* An end as the reader it is: its decoder, and what it has made of what it *)
(* read.  "firm" is that no verb read so far refused COM-PORT.              *)
Reader == [at : State, sub : Seq(Octet), out : Seq(Octet),
           heard : [Side \X Option -> Status],
           asked : Seq(Seq(Octet)), told : [Item -> Seq(Octet)], firm : BOOLEAN]

Now(e) == [at |-> dec[e].at, sub |-> dec[e].sub, out |-> out[e], heard |-> heard[e],
           asked |-> IF e = "server" THEN asked ELSE <<>>,
           told |-> IF e = "client" THEN told ELSE [i \in Item |-> <<>>],
           firm |-> TRUE]

(* What it is once it has read a byte, and a stream: the actions of Feed,   *)
(* without what they write.                                                 *)
Kept(s, b) == IF (s.at = "Iac" /\ b = SB) \/ (s.at = "SubNegIac" /\ b = SE) THEN <<>>
              ELSE IF (s.at = "SubNeg" /\ b # IAC) \/ (s.at = "SubNegIac" /\ b = IAC)
                   THEN Append(s.sub, b) ELSE s.sub
Heard(s, b) == IF s.at \in {"Will", "Wont", "Do", "Dont"}
               THEN [s.heard EXCEPT ![<<IF s.at \in {"Will", "Wont"} THEN "us" ELSE "them", b>>] =
                                      IF s.at \in {"Will", "Do"} THEN "yes" ELSE "no"]
               ELSE s.heard
Complete(s, b) == /\ s.at = "SubNegIac" /\ b = SE
                  /\ Len(s.sub) >= 2 /\ s.sub[1] = COM_PORT
Rest(s) == SubSeq(s.sub, 3, Len(s.sub))
Noted(old, cmd, p) == IF cmd \in 101..104 THEN [old EXCEPT ![<<cmd - 100, 0>>] = p]
                      ELSE IF cmd = 105 /\ p # <<>> /\ p[1] \in 0..12
                           THEN [old EXCEPT ![<<5, Group(p[1])>>] = p] ELSE old
Eat(e, s, b) == [at |-> After(s.at, b), sub |-> Kept(s, b),
                 out |-> IF IsData(s.at, b) THEN Append(s.out, b) ELSE s.out,
                 heard |-> Heard(s, b),
                 asked |-> IF e = "server" /\ Complete(s, b)
                           THEN Append(s.asked, <<s.sub[2]>> \o Rest(s)) ELSE s.asked,
                 told |-> IF e = "client" /\ Complete(s, b)
                          THEN Noted(s.told, s.sub[2], Rest(s)) ELSE s.told,
                 firm |-> s.firm /\ ~(s.at \in {"Wont", "Dont"} /\ b = COM_PORT)]
Eaten(e, s, bytes) == LET eaten[i \in 0..Len(bytes)] ==
                            IF i = 0 THEN s ELSE Eat(e, eaten[i - 1], bytes[i])
                      IN eaten[Len(bytes)]

(* What an end will be once it has read what is under way to it.            *)
Ahead(e) == Eaten(e, Now(e), chan[e])

Target == [i \in DOMAIN Settings |-> <<Settings[i][1]>> \o Settings[i][2]]

(* The stream ends on a boundary and holds the payload that is missing.     *)
StreamInv == \A e \in End : Ahead(e).at = "Data" /\ Ahead(e).out = fed[Other(e)]

(* The last verb said of an option, read or not, is what the sayer has on   *)
(* record.                                                                  *)
VerbInv == \A e \in End, s \in Side, o \in Option :
             Ours(e) => Ahead(Other(e)).heard[<<s, o>>] = table[e][<<s, o>>]

(* The commands that are under way complete the client's settings.          *)
AskInv == /\ asking => requested
          /\ Ours("client") => /\ invited <=> requested
                               /\ Ahead("server").asked = IF requested /\ ~asking THEN Target
                                                          ELSE <<>>

(* What the server answers of an item: the last answer, read or not, is     *)
(* that, and it is one of the item's codes.  Of the outputs that the        *)
(* session has changed it is what the line has.                             *)
Fact == [i \in Item |-> Known(line, record, i)]
TellInv == Ours("server") =>
             \A i \in Item : Ahead("client").told[i] # <<>> => Ahead("client").told[i] = Fact[i]
LineInv == /\ \A g \in {0, 4, 7, 10} : \E v \in 0..12 : Fact[<<5, g>>] = <<v>> /\ Group(v) = g
           /\ \A i \in driven : record[i] = line[i]

(* Between this program's client and its server nobody goes back on         *)
(* COM-PORT, so the server's agreement reaches the client.                  *)
FirmInv == /\ Ours("server") =>
                heard["server"][<<"us", COM_PORT>>] = table["server"][<<"them", COM_PORT>>]
           /\ foreign = "none" => /\ heard["client"][<<"them", COM_PORT>>] = "yes" => requested
                                  /\ table["client"][<<"us", COM_PORT>>] = "yes"
                                  /\ \A e \in End : Ahead(e).firm
----------------------------------------------------------------------------
LEMMA RestIsOctets ==
  ASSUME NEW q \in Seq(Octet), Len(q) >= 2
  PROVE  /\ SubSeq(q, 3, Len(q)) \in Seq(Octet) /\ q[2] \in Octet
         /\ <<q[2]>> \o SubSeq(q, 3, Len(q)) \in Seq(Octet)
<1>1. Len(q) \in Nat /\ \A i \in 3..Len(q) : q[i] \in Octet
  BY LenProperties, ElementOfSeq
<1>2. SubSeq(q, 3, Len(q)) \in Seq(Octet)
  BY <1>1, SubSeqProperties
<1>3. q[2] \in Octet /\ <<q[2]>> \in Seq(Octet)
  <2>1. 2 \in 1..Len(q)
    BY <1>1
  <2> QED  BY <2>1, ElementOfSeq
<1> QED  BY <1>2, <1>3, ConcatProperties

LEMMA NotedType ==
  ASSUME NEW old \in [Item -> Seq(Octet)], NEW cmd \in Octet, NEW p \in Seq(Octet)
  PROVE  Noted(old, cmd, p) \in [Item -> Seq(Octet)]
BY DEF Noted

LEMMA EatType ==
  ASSUME NEW e, NEW s \in Reader, NEW b \in Octet
  PROVE  Eat(e, s, b) \in Reader
<1> USE DEF Reader
<1>1. After(s.at, b) \in State
  BY DEF After, AfterIac, State
<1>2. Kept(s, b) \in Seq(Octet)
  <2>1. <<>> \in Seq(Octet) /\ Append(s.sub, b) \in Seq(Octet)
        /\ (b = IAC => Append(s.sub, IAC) \in Seq(Octet))
    BY EmptySeq, AppendProperties
  <2>2. Kept(s, b) \in {<<>>, Append(s.sub, b), s.sub}
    BY DEF Kept
  <2> QED  BY <2>1, <2>2
<1>3. (IF IsData(s.at, b) THEN Append(s.out, b) ELSE s.out) \in Seq(Octet)
  BY AppendProperties
<1>4. Heard(s, b) \in [Side \X Option -> Status]
  BY DEF Heard, Status
<1>5. ASSUME Complete(s, b)
      PROVE  s.sub[2] \in Octet /\ Rest(s) \in Seq(Octet) /\ <<s.sub[2]>> \o Rest(s) \in Seq(Octet)
  BY <1>5, RestIsOctets DEF Complete, Rest
<1>6. (IF e = "server" /\ Complete(s, b) THEN Append(s.asked, <<s.sub[2]>> \o Rest(s))
       ELSE s.asked) \in Seq(Seq(Octet))
  BY <1>5, AppendProperties
<1>7. (IF e = "client" /\ Complete(s, b) THEN Noted(s.told, s.sub[2], Rest(s)) ELSE s.told)
        \in [Item -> Seq(Octet)]
  BY <1>5, NotedType
<1>8. (s.firm /\ ~(s.at \in {"Wont", "Dont"} /\ b = COM_PORT)) \in BOOLEAN
  OBVIOUS
<1> QED  BY <1>1, <1>2, <1>3, <1>4, <1>6, <1>7, <1>8 DEF Eat

(* Eaten is what its definition says: the empty stream, and a byte more.   *)
EatTable(t, e, s, q) == /\ t \in [0..Len(q) -> Reader]
                        /\ Eaten(e, s, q) = t[Len(q)] /\ t[0] = s
                        /\ \A i \in 1..Len(q) : t[i] = Eat(e, t[i - 1], q[i])
LEMMA EatenTable ==
  ASSUME NEW e, NEW s \in Reader, NEW q \in Seq(Octet)
  PROVE  \E t : EatTable(t, e, s, q)
<1> DEFINE n == Len(q)
           Is(f) == f = [i \in 0..n |-> IF i = 0 THEN s ELSE Eat(e, f[i - 1], q[i])]
           step == [p \in Reader \X Nat |-> IF p[2] \in 1..n THEN Eat(e, p[1], q[p[2]]) ELSE p[1]]
<1>1. n \in Nat /\ \A i \in 1..n : q[i] \in Octet
  BY LenProperties, ElementOfSeq
<1> HIDE DEF n
<1>2. step \in [Reader \X Nat -> Reader]
  <2>1. ASSUME NEW p \in Reader \X Nat
        PROVE  (IF p[2] \in 1..n THEN Eat(e, p[1], q[p[2]]) ELSE p[1]) \in Reader
    BY <1>1, EatType
  <2> QED  BY <2>1
<1>3. PICK t \in [0..n -> Reader] : Table(t, 0, n, s, step)
  <2> HIDE DEF step
  <2>1. \E t \in [0..(0 + n) -> Reader] : Table(t, 0, 0 + n, s, step)
    BY <1>1, <1>2, TablesExist
  <2>2. 0 + n = n
    BY <1>1
  <2> QED  BY <2>1, <2>2
<1>4. t[0] = s /\ \A i \in 1..n : t[i] = Eat(e, t[i - 1], q[i])
  <2>1. t[0] = s
    <3>1. 0 \in 0..n
      BY <1>1
    <3> QED  BY <1>3, <3>1 DEF Table
  <2>2. ASSUME NEW i \in 1..n PROVE t[i] = Eat(e, t[i - 1], q[i])
    <3>1. i \in 0..n /\ i # 0 /\ i - 1 \in 0..n /\ <<t[i - 1], i>> \in Reader \X Nat
      BY <1>1, <1>3
    <3>2. t[i] = step[<<t[i - 1], i>>]
      BY <1>3, <3>1 DEF Table
    <3> QED  BY <3>1, <3>2
  <2> QED  BY <2>1, <2>2
<1>5. Is(t)
  <2>1. ASSUME NEW i \in 0..n PROVE t[i] = IF i = 0 THEN s ELSE Eat(e, t[i - 1], q[i])
    <3>1. i = 0 \/ i \in 1..n
      BY <1>1
    <3> QED  BY <1>4, <3>1
  <2>2. t = [i \in 0..n |-> t[i]]
    BY <1>3
  <2> QED  BY <2>1, <2>2
<1>6. PICK f : Is(f) /\ Eaten(e, s, q) = f[n]
  <2>1. Eaten(e, s, q) = (CHOOSE f : Is(f))[n]
    BY DEF Eaten, n
  <2>2. Is(CHOOSE f : Is(f))
    BY <1>5
  <2> QED  BY <2>1, <2>2
<1>7. Follows(f, t, 0, n)
  <2>1. \A i \in 0..n : f[i] = IF i = 0 THEN s ELSE Eat(e, f[i - 1], q[i])
    BY <1>6
  <2>2. 0 \in 0..n /\ \A i \in (0 + 1)..n : i \in 0..n /\ i # 0 /\ i \in 1..n
    BY <1>1
  <2> QED  BY <1>4, <2>1, <2>2 DEF Follows
<1>8. f[n] = t[n]
  <2>1. 0 \in Nat /\ 0 <= n
    BY <1>1
  <2> QED  BY <1>1, <1>7, <2>1, TablesAgree
<1> QED  BY <1>3, <1>4, <1>6, <1>8 DEF n, EatTable

LEMMA EatenEmpty == ASSUME NEW e, NEW s \in Reader PROVE Eaten(e, s, <<>>) = s
<1>1. <<>> \in Seq(Octet) /\ Len(<<>>) = 0
  BY EmptySeq
<1> DEFINE q == <<>>
<1>2. q \in Seq(Octet) /\ Len(q) = 0
  BY <1>1
<1> HIDE DEF q
<1>3. PICK t : EatTable(t, e, s, q)
  BY <1>2, EatenTable
<1>4. Eaten(e, s, q) = s
  BY <1>2, <1>3 DEF EatTable
<1> QED  BY <1>4 DEF q

LEMMA EatenAppend ==
  ASSUME NEW e, NEW s \in Reader, NEW q \in Seq(Octet), NEW b \in Octet
  PROVE  /\ Eaten(e, s, q) \in Reader
         /\ Eaten(e, s, Append(q, b)) = Eat(e, Eaten(e, s, q), b)
<1> DEFINE r == Append(q, b)  n == Len(q)
<1>1. /\ r \in Seq(Octet) /\ Len(r) = n + 1 /\ n \in Nat
      /\ (\A i \in 1..n : r[i] = q[i]) /\ r[n + 1] = b
  BY AppendProperties, LenProperties
<1>2. PICK t \in [0..n -> Reader] :
        /\ Eaten(e, s, q) = t[n] /\ t[0] = s
        /\ \A i \in 1..n : t[i] = Eat(e, t[i - 1], q[i])
  <2>1. \E t : EatTable(t, e, s, q)
    BY EatenTable
  <2> QED  BY <2>1 DEF EatTable
<1>3. PICK u \in [0..(n + 1) -> Reader] :
        /\ Eaten(e, s, r) = u[n + 1] /\ u[0] = s
        /\ \A i \in 1..(n + 1) : u[i] = Eat(e, u[i - 1], r[i])
  <2>1. r \in Seq(Octet)
    BY <1>1
  <2>2. \E u : EatTable(u, e, s, r)
    <3> HIDE DEF r
    <3> QED  BY <2>1, EatenTable
  <2> QED  BY <1>1, <2>2 DEF EatTable
<1> HIDE DEF r, n
<1>4. u[n] = t[n]
  <2>1. Follows(u, t, 0, n)
    <3>1. \A i \in (0 + 1)..n : i \in 1..n /\ i \in 1..(n + 1)
      BY <1>1
    <3> QED  BY <1>1, <1>2, <1>3, <3>1 DEF Follows
  <2>2. n \in Nat /\ 0 \in Nat /\ 0 <= n
    BY <1>1
  <2> QED  BY <2>1, <2>2, TablesAgree
<1>5. u[n + 1] = Eat(e, u[n], b)
  <2>1. n + 1 \in 1..(n + 1) /\ (n + 1) - 1 = n
    BY <1>1
  <2> QED  BY <1>1, <1>3, <2>1
<1>6. t[n] \in Reader
  BY <1>1, <1>2
<1> QED  BY <1>2, <1>3, <1>4, <1>5, <1>6 DEF r

LEMMA EatenType ==
  ASSUME NEW e, NEW s \in Reader, NEW q \in Seq(Octet)
  PROVE  Eaten(e, s, q) \in Reader
<1>1. 0 \in Octet
  BY DEF Octet
<1> QED  BY <1>1, EatenAppend

(* Reading one stream after another, and the first byte before the rest.   *)
LEMMA EatenConcat ==
  ASSUME NEW e, NEW s \in Reader, NEW q \in Seq(Octet), NEW r \in Seq(Octet)
  PROVE  Eaten(e, s, q \o r) = Eaten(e, Eaten(e, s, q), r)
<1> DEFINE Good == {z \in Seq(Octet) : Eaten(e, s, q \o z) = Eaten(e, Eaten(e, s, q), z)}
<1>1. Eaten(e, s, q) \in Reader
  BY EatenType
<1>2. <<>> \in Good
  <2>1. <<>> \in Seq(Octet) /\ q \o <<>> = q
    BY EmptySeq, ConcatEmptySeq
  <2> QED  BY <1>1, <2>1, EatenEmpty
<1>3. ASSUME NEW z \in Good, NEW b \in Octet PROVE Append(z, b) \in Good
  <2>1. z \in Seq(Octet) /\ Eaten(e, s, q \o z) = Eaten(e, Eaten(e, s, q), z)
    OBVIOUS
  <2>2. Append(z, b) \in Seq(Octet) /\ q \o z \in Seq(Octet)
    BY <2>1, AppendProperties, ConcatProperties
  <2>3. q \o Append(z, b) = Append(q \o z, b)
    BY <2>1, <2>2
  <2>4. Eaten(e, s, Append(q \o z, b)) = Eat(e, Eaten(e, s, q \o z), b)
    BY <2>2, EatenAppend
  <2>5. Eaten(e, Eaten(e, s, q), Append(z, b)) = Eat(e, Eaten(e, Eaten(e, s, q), z), b)
    BY <1>1, <2>1, EatenAppend
  <2> QED  BY <2>1, <2>2, <2>3, <2>4, <2>5
<1>4. Good \in SUBSET Seq(Octet)
  OBVIOUS
<1> HIDE DEF Good
<1>5. Good = Seq(Octet)
  BY <1>2, <1>3, <1>4, SequenceInduction
<1> QED  BY <1>5 DEF Good

LEMMA EatenOne ==
  ASSUME NEW e, NEW s \in Reader, NEW b \in Octet
  PROVE  <<b>> \in Seq(Octet) /\ Eaten(e, s, <<b>>) = Eat(e, s, b)
<1>1. <<>> \in Seq(Octet) /\ <<b>> = Append(<<>>, b) /\ <<b>> \in Seq(Octet)
  BY EmptySeq
<1>2. Eaten(e, s, Append(<<>>, b)) = Eat(e, Eaten(e, s, <<>>), b)
  BY <1>1, EatenAppend
<1> QED  BY <1>1, <1>2, EatenEmpty

LEMMA EatenHead ==
  ASSUME NEW e, NEW s \in Reader, NEW q \in Seq(Octet), q # <<>>
  PROVE  /\ Head(q) \in Octet /\ Tail(q) \in Seq(Octet)
         /\ Eaten(e, s, q) = Eaten(e, Eat(e, s, Head(q)), Tail(q))
<1>1. Head(q) \in Octet /\ Tail(q) \in Seq(Octet) /\ q = <<Head(q)>> \o Tail(q)
  BY HeadTailProperties
<1>2. <<Head(q)>> \in Seq(Octet) /\ Eaten(e, s, <<Head(q)>>) = Eat(e, s, Head(q))
  BY <1>1, EatenOne
<1>3. Eaten(e, s, <<Head(q)>> \o Tail(q)) = Eaten(e, Eaten(e, s, <<Head(q)>>), Tail(q))
  BY <1>1, <1>2, EatenConcat
<1> QED  BY <1>1, <1>2, <1>3

(* What an end has made of a stream it does not lose again, and a refusal  *)
(* stays one.                                                              *)
Grown(s, r) == /\ \E x \in Seq(Octet) : r.out = s.out \o x
               /\ \E y \in Seq(Seq(Octet)) : r.asked = s.asked \o y
               /\ r.firm => s.firm

LEMMA GrownTrans ==
  ASSUME NEW s \in Reader, NEW r \in Reader, NEW u \in Reader, Grown(s, r), Grown(r, u)
  PROVE  Grown(s, u)
<1>1. PICK x \in Seq(Octet) : r.out = s.out \o x
  BY DEF Grown
<1>2. PICK y \in Seq(Octet) : u.out = r.out \o y
  BY DEF Grown
<1>3. u.out = s.out \o (x \o y) /\ x \o y \in Seq(Octet)
  <2> DEFINE o == s.out
  <2>1. o \in Seq(Octet)
    BY DEF Reader
  <2> HIDE DEF o
  <2>2. (o \o x) \o y = o \o (x \o y)
    BY <1>1, <1>2, <2>1, ConcatAssociative, SMTT(30)
  <2>3. x \o y \in Seq(Octet)
    BY <1>1, <1>2, ConcatProperties
  <2> QED  BY <1>1, <1>2, <2>2, <2>3 DEF o
<1>4. PICK v \in Seq(Seq(Octet)) : r.asked = s.asked \o v
  BY DEF Grown
<1>5. PICK w \in Seq(Seq(Octet)) : u.asked = r.asked \o w
  BY DEF Grown
<1>6. u.asked = s.asked \o (v \o w) /\ v \o w \in Seq(Seq(Octet))
  <2> DEFINE T == Seq(Octet)  a == s.asked
  <2>1. a \in Seq(T) /\ v \in Seq(T) /\ w \in Seq(T)
    BY <1>4, <1>5 DEF Reader
  <2> HIDE DEF T, a
  <2>2. (a \o v) \o w = a \o (v \o w)
    BY <2>1, ConcatAssociative, SMTT(30)
  <2>3. v \o w \in Seq(T)
    BY <2>1, ConcatProperties
  <2> QED  BY <1>4, <1>5, <2>2, <2>3 DEF a, T
<1> QED  BY <1>3, <1>6 DEF Grown

LEMMA EatGrown ==
  ASSUME NEW e, NEW s \in Reader, NEW b \in Octet
  PROVE  Grown(s, Eat(e, s, b))
<1> DEFINE r == Eat(e, s, b)
<1>1. \E x \in Seq(Octet) : r.out = s.out \o x
  <2>1. s.out \in Seq(Octet) /\ <<>> \in Seq(Octet) /\ <<b>> \in Seq(Octet)
    BY EmptySeq DEF Reader
  <2>2. s.out \o <<>> = s.out /\ Append(s.out, b) = s.out \o <<b>>
    BY <2>1, ConcatEmptySeq, AppendIsConcat
  <2>3. r.out \in {s.out, Append(s.out, b)}
    BY DEF Eat
  <2> QED  BY <2>1, <2>2, <2>3
<1>2. \E y \in Seq(Seq(Octet)) : r.asked = s.asked \o y
  <2>1. s.asked \in Seq(Seq(Octet)) /\ s.sub \in Seq(Octet) /\ <<>> \in Seq(Seq(Octet))
    BY EmptySeq DEF Reader
  <2>2. s.asked \o <<>> = s.asked
    BY <2>1, ConcatEmptySeq
  <2>3. CASE Complete(s, b)
    <3> DEFINE c == <<s.sub[2]>> \o Rest(s)
    <3>1. c \in Seq(Octet)
      BY <2>1, <2>3, RestIsOctets DEF Complete, Rest
    <3> HIDE DEF c
    <3>2. <<c>> \in Seq(Seq(Octet)) /\ Append(s.asked, c) = s.asked \o <<c>>
      BY <2>1, <3>1, AppendIsConcat
    <3>3. r.asked \in {s.asked, Append(s.asked, c)}
      BY DEF Eat, c
    <3> QED  BY <2>1, <2>2, <3>2, <3>3
  <2>4. CASE ~Complete(s, b)
    BY <2>1, <2>2, <2>4 DEF Eat
  <2> QED  BY <2>3, <2>4
<1>3. r.firm => s.firm
  BY DEF Eat
<1> QED  BY <1>1, <1>2, <1>3 DEF Grown

LEMMA EatenGrown ==
  ASSUME NEW e, NEW s \in Reader, NEW q \in Seq(Octet)
  PROVE  Grown(s, Eaten(e, s, q))
<1> DEFINE Good == {z \in Seq(Octet) : Grown(s, Eaten(e, s, z))}
<1>1. <<>> \in Good
  <2>1. <<>> \in Seq(Octet) /\ <<>> \in Seq(Seq(Octet)) /\ Eaten(e, s, <<>>) = s
    BY EmptySeq, EatenEmpty
  <2>2. s.out \o <<>> = s.out /\ s.asked \o <<>> = s.asked
    <3>1. s.out \in Seq(Octet) /\ s.asked \in Seq(Seq(Octet))
      BY DEF Reader
    <3> QED  BY <3>1, ConcatEmptySeq
  <2> QED  BY <2>1, <2>2 DEF Grown
<1>2. ASSUME NEW z \in Good, NEW b \in Octet PROVE Append(z, b) \in Good
  <2>1. z \in Seq(Octet) /\ Grown(s, Eaten(e, s, z)) /\ Append(z, b) \in Seq(Octet)
    BY AppendProperties
  <2>2. Eaten(e, s, Append(z, b)) = Eat(e, Eaten(e, s, z), b) /\ Eaten(e, s, z) \in Reader
    BY <2>1, EatenAppend
  <2>3. Grown(Eaten(e, s, z), Eat(e, Eaten(e, s, z), b)) /\ Eat(e, Eaten(e, s, z), b) \in Reader
    BY <2>2, EatGrown, EatType
  <2>4. Grown(s, Eat(e, Eaten(e, s, z), b))
    BY <2>1, <2>2, <2>3, GrownTrans
  <2> QED  BY <2>1, <2>2, <2>4
<1>3. Good \in SUBSET Seq(Octet)
  OBVIOUS
<1> HIDE DEF Good
<1>4. Good = Seq(Octet)
  BY <1>1, <1>2, <1>3, SequenceInduction
<1> QED  BY <1>4 DEF Good

(* What an end makes of a stream does not depend on the payload before it, *)
(* nor on refusals.                                                        *)
Like(r, s, before) == /\ r.at = s.at /\ r.sub = s.sub /\ r.heard = s.heard
                      /\ r.asked = s.asked /\ r.told = s.told /\ (s.firm => r.firm)
                      /\ s.out = before \o r.out

LEMMA EatLike ==
  ASSUME NEW e, NEW r \in Reader, NEW s \in Reader, NEW before \in Seq(Octet), NEW b \in Octet,
         Like(r, s, before)
  PROVE  Like(Eat(e, r, b), Eat(e, s, b), before)
<1>1. /\ Kept(r, b) = Kept(s, b) /\ Heard(r, b) = Heard(s, b) /\ Rest(r) = Rest(s)
      /\ Complete(r, b) <=> Complete(s, b)
  BY DEF Like, Kept, Heard, Rest, Complete
<1>2. Append(before \o r.out, b) = before \o Append(r.out, b)
  <2> DEFINE o == r.out
  <2>1. o \in Seq(Octet) /\ <<b>> \in Seq(Octet)
    BY EatenOne DEF Reader
  <2> HIDE DEF o
  <2>2. Append(before \o o, b) = (before \o o) \o <<b>> /\ Append(o, b) = o \o <<b>>
    BY <2>1, ConcatProperties, AppendIsConcat
  <2>3. (before \o o) \o <<b>> = before \o (o \o <<b>>)
    BY <2>1, ConcatAssociative
  <2> QED  BY <2>2, <2>3 DEF o
<1> QED  BY <1>1, <1>2 DEF Like, Eat

LEMMA EatenLike ==
  ASSUME NEW e, NEW r \in Reader, NEW s \in Reader, NEW before \in Seq(Octet),
         NEW q \in Seq(Octet), Like(r, s, before)
  PROVE  Like(Eaten(e, r, q), Eaten(e, s, q), before)
<1> DEFINE Good == {z \in Seq(Octet) : Like(Eaten(e, r, z), Eaten(e, s, z), before)}
<1>1. <<>> \in Good
  BY EmptySeq, EatenEmpty
<1>2. ASSUME NEW z \in Good, NEW b \in Octet PROVE Append(z, b) \in Good
  <2>1. z \in Seq(Octet) /\ Like(Eaten(e, r, z), Eaten(e, s, z), before)
        /\ Append(z, b) \in Seq(Octet)
    BY AppendProperties
  <2>2. /\ Eaten(e, s, Append(z, b)) = Eat(e, Eaten(e, s, z), b) /\ Eaten(e, s, z) \in Reader
        /\ Eaten(e, r, Append(z, b)) = Eat(e, Eaten(e, r, z), b) /\ Eaten(e, r, z) \in Reader
    BY <2>1, EatenAppend
  <2> QED  BY <2>1, <2>2, EatLike
<1>3. Good \in SUBSET Seq(Octet)
  OBVIOUS
<1> HIDE DEF Good
<1>4. Good = Seq(Octet)
  BY <1>1, <1>2, <1>3, SequenceInduction
<1> QED  BY <1>4 DEF Good

(* Reads follows the payload alone.                                        *)
LEMMA ReadsEaten ==
  ASSUME NEW e, NEW s \in Reader, NEW q \in Seq(Octet)
  PROVE  Reads([at |-> s.at, data |-> s.out], q) =
           [at |-> Eaten(e, s, q).at, data |-> Eaten(e, s, q).out]
<1> DEFINE n == Len(q)
           r == [at |-> s.at, data |-> s.out]
           Is(f) == f = [i \in 0..n |-> IF i = 0 THEN r ELSE Read(f[i - 1], q[i])]
<1>1. PICK t : EatTable(t, e, s, q)
  BY EatenTable
<1> DEFINE u == [i \in 0..n |-> [at |-> t[i].at, data |-> t[i].out]]
<1>2. n \in Nat
  BY LenProperties
<1> HIDE DEF n, r
<1>3. ASSUME NEW i \in 0..n PROVE u[i] = IF i = 0 THEN r ELSE Read(u[i - 1], q[i])
  <2>1. CASE i = 0
    BY <1>1, <1>2, <2>1 DEF EatTable, n, r
  <2>2. CASE i # 0
    <3>1. i \in 1..n /\ i - 1 \in 0..n
      BY <1>2, <2>2
    <3>2. t[i] = Eat(e, t[i - 1], q[i])
      BY <1>1, <3>1 DEF EatTable, n
    <3>3. u[i - 1] = [at |-> t[i - 1].at, data |-> t[i - 1].out]
      BY <3>1
    <3>4. Read(u[i - 1], q[i]) = [at |-> t[i].at, data |-> t[i].out]
      <4> DEFINE v == t[i - 1]
      <4>1. u[i - 1] = [at |-> v.at, data |-> v.out] /\ t[i] = Eat(e, v, q[i])
        BY <3>2, <3>3
      <4> HIDE DEF v, u
      <4> QED  BY <4>1 DEF Read, Eat
    <3> QED  BY <2>2, <3>4
  <2> QED  BY <2>1, <2>2
<1>4. Is(u)
  <2> DEFINE w == u
  <2>1. w = [i \in 0..n |-> w[i]]
    OBVIOUS
  <2>2. \A i \in 0..n : w[i] = IF i = 0 THEN r ELSE Read(w[i - 1], q[i])
    BY <1>3
  <2> HIDE DEF w
  <2>3. w = [i \in 0..n |-> IF i = 0 THEN r ELSE Read(w[i - 1], q[i])]
    BY <2>1, <2>2
  <2> QED  BY <2>3 DEF w
<1> HIDE DEF u
<1>5. PICK f : Is(f) /\ Reads(r, q) = f[n]
  <2>1. Reads(r, q) = (CHOOSE f : Is(f))[n]
    BY DEF Reads, n
  <2>2. Is(CHOOSE f : Is(f))
    BY <1>4
  <2> QED  BY <2>1, <2>2
<1>6. Follows(f, u, 0, n)
  <2>1. \A i \in 0..n : f[i] = IF i = 0 THEN r ELSE Read(f[i - 1], q[i])
    BY <1>5
  <2>2. 0 \in 0..n /\ \A i \in (0 + 1)..n : i \in 0..n /\ i # 0
    BY <1>2
  <2> QED  BY <1>3, <2>1, <2>2 DEF Follows
<1>7. f[n] = u[n]
  <2>1. 0 \in Nat /\ 0 <= n
    BY <1>2
  <2> QED  BY <1>2, <1>6, <2>1, TablesAgree
<1>8. n \in 0..n
  BY <1>2
<1> QED  BY <1>1, <1>5, <1>7, <1>8 DEF u, r, n, EatTable

(* What is written and what is made of it: text, a verb, a command.        *)
Code(x) == IF x = IAC THEN <<IAC, IAC>> ELSE <<x>>

Mapped(g, q) == [i \in DOMAIN q |-> g[q[i]]]
Maps(T, U, g, q, x) == /\ Mapped(g, q) \in Seq(U)
                       /\ Mapped(g, Append(q, x)) = Append(Mapped(g, q), g[x])
LEMMA MapAppend ==
  ASSUME NEW T, NEW U, NEW g \in [T -> U], NEW q \in Seq(T), NEW x \in T
  PROVE  Maps(T, U, g, q, x)
<1> DEFINE n == Len(q)  r == Append(q, x)  a == Mapped(g, r)  c == Mapped(g, q)
           b == Append(c, g[x])
<1>1. /\ DOMAIN q = 1..n /\ n \in Nat /\ r \in Seq(T) /\ DOMAIN r = 1..(n + 1)
      /\ \A i \in 1..(n + 1) : r[i] \in T /\ r[i] = IF i = n + 1 THEN x ELSE q[i]
      /\ \A i \in 1..n : q[i] \in T
  BY AppendProperties, LenProperties, ElementOfSeq
<1> HIDE DEF n, r
<1>2. /\ c \in Seq(U) /\ Len(c) = n /\ \A i \in 1..n : c[i] = g[q[i]]
      /\ a \in Seq(U) /\ Len(a) = n + 1 /\ \A i \in 1..(n + 1) : a[i] = g[r[i]]
  BY <1>1 DEF Mapped
<1> HIDE DEF a, c
<1>3. /\ b \in Seq(U) /\ Len(b) = n + 1
      /\ \A i \in 1..n : b[i] = c[i]
      /\ b[n + 1] = g[x]
  BY <1>2, AppendProperties
<1> HIDE DEF b
<1>4. ASSUME NEW i \in 1..(n + 1) PROVE a[i] = b[i]
  <2>1. CASE i = n + 1
    BY <1>1, <1>2, <1>3, <2>1
  <2>2. CASE i # n + 1
    <3>1. i \in 1..n
      BY <1>1, <2>2
    <3> QED  BY <1>1, <1>2, <1>3, <2>2, <3>1
  <2> QED  BY <2>1, <2>2
<1>5. a = b
  BY <1>2, <1>3, <1>4, SeqEqual
<1> QED  BY <1>2, <1>5 DEF Maps, a, b, c, r

LEMMA EscapeAppend ==
  /\ Escape(<<>>) = <<>>
  /\ \A t \in Seq(Octet), x \in Octet :
       Escape(t) \in Seq(Octet) /\ Escape(Append(t, x)) = Escape(t) \o Code(x)
<1> DEFINE g == [x \in Octet |-> Code(x)]
<1>1. \A t \in Seq(Octet) : Escape(t) = FlattenSeq(Mapped(g, t))
  <2> TAKE t \in Seq(Octet)
  <2>1. \A i \in DOMAIN t : t[i] \in Octet
    BY LenProperties, ElementOfSeq
  <2>2. Mapped(g, t) = [i \in DOMAIN t |-> Code(t[i])]
    BY <2>1 DEF Mapped
  <2> QED  BY <2>2 DEF Escape, Code
<1>2. \A x \in Octet : Code(x) \in Seq(Octet)
  <2>1. IAC \in Octet
    BY DEF Octet, IAC
  <2>2. \A x \in Octet : <<x>> \in Seq(Octet) /\ <<x, x>> \in Seq(Octet)
    OBVIOUS
  <2> QED  BY <2>1, <2>2 DEF Code
<1>3. g \in [Octet -> Seq(Octet)] /\ \A x \in Octet : g[x] = Code(x)
  BY <1>2
<1> HIDE DEF g
<1>4. Escape(<<>>) = <<>>
  <2>1. Mapped(g, <<>>) = <<>> /\ <<>> \in Seq(Octet)
    BY EmptySeq DEF Mapped
  <2> QED  BY <1>1, <2>1, FlattenEmpty
<1>5. ASSUME NEW t \in Seq(Octet), NEW x \in Octet
      PROVE  Escape(t) \in Seq(Octet) /\ Escape(Append(t, x)) = Escape(t) \o Code(x)
  <2> DEFINE c == Mapped(g, t)
  <2>1. c \in Seq(Seq(Octet)) /\ Mapped(g, Append(t, x)) = Append(c, Code(x))
    <3>1. Maps(Octet, Seq(Octet), g, t, x)
      BY <1>3, MapAppend
    <3> QED  BY <1>3, <3>1 DEF Maps
  <2>2. Append(t, x) \in Seq(Octet) /\ Code(x) \in Seq(Octet)
    BY <1>2, AppendProperties
  <2>3. Escape(t) = FlattenSeq(c) /\ Escape(Append(t, x)) = FlattenSeq(Append(c, Code(x)))
    BY <1>1, <2>1, <2>2
  <2> HIDE DEF c
  <2> QED  BY <2>1, <2>2, <2>3, FlattenAppend
<1> QED  BY <1>4, <1>5

LEMMA EscapeType == ASSUME NEW t \in Seq(Octet) PROVE Escape(t) \in Seq(Octet)
<1>1. 0 \in Octet
  BY DEF Octet
<1> QED  BY <1>1, EscapeAppend

LEMMA EatenTwo ==
  ASSUME NEW e, NEW s \in Reader, NEW a \in Octet, NEW b \in Octet
  PROVE  Eaten(e, s, <<a, b>>) = Eat(e, Eat(e, s, a), b)
<1>1. <<a>> \in Seq(Octet) /\ Eaten(e, s, <<a>>) = Eat(e, s, a)
  BY EatenOne
<1>2. <<a, b>> = Append(<<a>>, b) /\ <<a, b>> \in Seq(Octet)
  OBVIOUS
<1>3. Eaten(e, s, Append(<<a>>, b)) = Eat(e, Eaten(e, s, <<a>>), b)
  BY <1>1, EatenAppend
<1> QED  BY <1>1, <1>2, <1>3

LEMMA ReaderEqual ==
  ASSUME NEW s \in Reader, NEW r \in Reader,
         s.at = r.at, s.sub = r.sub, s.out = r.out, s.heard = r.heard, s.asked = r.asked,
         s.told = r.told, s.firm = r.firm
  PROVE  s = r
<1> DEFINE Rec(z) == [at |-> z.at, sub |-> z.sub, out |-> z.out, heard |-> z.heard,
                      asked |-> z.asked, told |-> z.told, firm |-> z.firm]
<1>1. s = Rec(s) /\ r = Rec(r)
  BY DEF Reader
<1>2. Rec(s) = Rec(r)
  OBVIOUS
<1> QED  BY <1>1, <1>2

With(s, o) == [s EXCEPT !.out = o]
Gathers(s, p) == [s EXCEPT !.sub = p]

Goes(s, there) == [s EXCEPT !.at = there]

LEMMA EatData ==
  ASSUME NEW e, NEW s \in Reader, NEW b \in Octet, s.at = "Data"
  PROVE  Eat(e, s, b) = IF b = IAC THEN Goes(s, "Iac") ELSE With(s, Append(s.out, b))
<1>1. Eat(e, s, b) \in Reader
  BY EatType
<1>2. Append(s.out, b) \in Seq(Octet) /\ "Iac" \in State
  BY AppendProperties DEF Reader, State
<1>3. Goes(s, "Iac") \in Reader /\ With(s, Append(s.out, b)) \in Reader
  BY <1>2 DEF Reader, Goes, With
<1>4. /\ Kept(s, b) = s.sub /\ Heard(s, b) = s.heard /\ ~Complete(s, b)
      /\ IsData(s.at, b) <=> b # IAC
      /\ After(s.at, b) = IF b = IAC THEN "Iac" ELSE "Data"
  BY DEF Kept, Heard, Complete, IsData, After
<1>5. CASE b = IAC
  BY <1>1, <1>3, <1>4, <1>5, ReaderEqual DEF Eat, Goes, Reader
<1>6. CASE b # IAC
  BY <1>1, <1>3, <1>4, <1>6, ReaderEqual DEF Eat, With, Reader
<1> QED  BY <1>5, <1>6

LEMMA EatIac ==
  ASSUME NEW e, NEW s \in Reader, NEW b \in Octet, s.at = "Iac"
  PROVE  /\ b = IAC => Eat(e, s, b) = With(Goes(s, "Data"), Append(s.out, b))
         /\ b = SB => Eat(e, s, b) = Gathers(Goes(s, "SubNeg"), <<>>)
         /\ b \in {WILL, WONT, DO, DONT} => Eat(e, s, b) = Goes(s, AfterIac(b))
<1>1. Eat(e, s, b) \in Reader
  BY EatType
<1>2. Append(s.out, b) \in Seq(Octet) /\ <<>> \in Seq(Octet) /\ AfterIac(b) \in State
  BY AppendProperties, EmptySeq DEF Reader, State, AfterIac
<1>3. /\ With(Goes(s, "Data"), Append(s.out, b)) \in Reader
      /\ Gathers(Goes(s, "SubNeg"), <<>>) \in Reader /\ Goes(s, AfterIac(b)) \in Reader
  BY <1>2 DEF Reader, Goes, With, Gathers, State
<1>4. /\ Kept(s, b) = (IF b = SB THEN <<>> ELSE s.sub) /\ Heard(s, b) = s.heard
      /\ ~Complete(s, b) /\ (IsData(s.at, b) <=> b = IAC) /\ After(s.at, b) = AfterIac(b)
      /\ (b = IAC => AfterIac(b) = "Data") /\ (b = SB => AfterIac(b) = "SubNeg") /\ SB # IAC
      /\ (b \in {WILL, WONT, DO, DONT} => b # SB /\ b # IAC)
  BY DEF Kept, Heard, Complete, IsData, After, AfterIac, IAC, SB, WILL, WONT, DO, DONT
<1>5. ASSUME b = IAC PROVE Eat(e, s, b) = With(Goes(s, "Data"), Append(s.out, b))
  <2>1. ~(b = SB) /\ Kept(s, b) = s.sub /\ IsData(s.at, b) /\ After(s.at, b) = "Data"
    BY <1>4, <1>5
  <2> QED  BY <1>1, <1>3, <1>4, <2>1, ReaderEqual DEF Eat, Goes, With, Reader
<1>6. ASSUME b = SB PROVE Eat(e, s, b) = Gathers(Goes(s, "SubNeg"), <<>>)
  <2>1. ~(b = IAC) /\ Kept(s, b) = <<>> /\ ~IsData(s.at, b) /\ After(s.at, b) = "SubNeg"
    BY <1>4, <1>6
  <2> QED  BY <1>1, <1>3, <1>4, <2>1, ReaderEqual DEF Eat, Goes, Gathers, Reader
<1>7. ASSUME b \in {WILL, WONT, DO, DONT} PROVE Eat(e, s, b) = Goes(s, AfterIac(b))
  <2>1. Kept(s, b) = s.sub /\ ~IsData(s.at, b)
    BY <1>4, <1>7
  <2> QED  BY <1>1, <1>3, <1>4, <2>1, ReaderEqual DEF Eat, Goes, Reader
<1> QED  BY <1>5, <1>6, <1>7

LEMMA EatSub ==
  ASSUME NEW e, NEW s \in Reader, NEW b \in Octet, s.at = "SubNeg"
  PROVE  Eat(e, s, b) = IF b = IAC THEN Goes(s, "SubNegIac") ELSE Gathers(s, Append(s.sub, b))
<1>1. Eat(e, s, b) \in Reader
  BY EatType
<1>2. Append(s.sub, b) \in Seq(Octet) /\ "SubNegIac" \in State
  BY AppendProperties DEF Reader, State
<1>3. Goes(s, "SubNegIac") \in Reader /\ Gathers(s, Append(s.sub, b)) \in Reader
  BY <1>2 DEF Reader, Goes, Gathers
<1>4. /\ Kept(s, b) = (IF b = IAC THEN s.sub ELSE Append(s.sub, b)) /\ Heard(s, b) = s.heard
      /\ ~Complete(s, b) /\ ~IsData(s.at, b)
      /\ After(s.at, b) = IF b = IAC THEN "SubNegIac" ELSE "SubNeg"
  BY DEF Kept, Heard, Complete, IsData, After
<1>5. CASE b = IAC
  BY <1>1, <1>3, <1>4, <1>5, ReaderEqual DEF Eat, Goes, Reader
<1>6. CASE b # IAC
  BY <1>1, <1>3, <1>4, <1>6, ReaderEqual DEF Eat, Gathers, Reader
<1> QED  BY <1>5, <1>6

(* The end of a subnegotiation is acted on when it is a COM-PORT command.  *)
Handled(e, s, cmd, p) ==
  [s EXCEPT !.at = "Data", !.sub = <<>>,
            !.asked = IF e = "server" THEN Append(@, <<cmd>> \o p) ELSE @,
            !.told = IF e = "client" THEN Noted(@, cmd, p) ELSE @]

LEMMA HandledType ==
  ASSUME NEW e, NEW s \in Reader, NEW cmd \in Octet, NEW p \in Seq(Octet)
  PROVE  Handled(e, s, cmd, p) \in Reader
<1>1. <<cmd>> \o p \in Seq(Octet)
  BY EatenOne, ConcatProperties
<1>2. Append(s.asked, <<cmd>> \o p) \in Seq(Seq(Octet)) /\ <<>> \in Seq(Octet)
  BY <1>1, AppendProperties, EmptySeq DEF Reader
<1>3. Noted(s.told, cmd, p) \in [Item -> Seq(Octet)]
  BY NotedType DEF Reader
<1> QED  BY <1>2, <1>3 DEF Handled, Reader, State

LEMMA EatSubIac ==
  ASSUME NEW e, NEW s \in Reader, s.at = "SubNegIac"
  PROVE  /\ Eat(e, s, IAC) = Gathers(Goes(s, "SubNeg"), Append(s.sub, IAC))
         /\ Len(s.sub) >= 2 /\ s.sub[1] = COM_PORT => Eat(e, s, SE) = Handled(e, s, s.sub[2], Rest(s))
<1>0. IAC \in Octet /\ SE \in Octet /\ IAC # SE
  BY DEF IAC, SE, Octet
<1>1. Eat(e, s, IAC) \in Reader /\ Eat(e, s, SE) \in Reader
  BY <1>0, EatType
<1>2. Append(s.sub, IAC) \in Seq(Octet) /\ "SubNeg" \in State
  BY <1>0, AppendProperties DEF Reader, State
<1>3. Gathers(Goes(s, "SubNeg"), Append(s.sub, IAC)) \in Reader
  BY <1>2 DEF Reader, Goes, Gathers
<1>4. /\ Kept(s, IAC) = Append(s.sub, IAC) /\ Heard(s, IAC) = s.heard
      /\ ~Complete(s, IAC) /\ ~IsData(s.at, IAC) /\ After(s.at, IAC) = "SubNeg"
  BY <1>0 DEF Kept, Heard, Complete, IsData, After
<1>5. Eat(e, s, IAC) = Gathers(Goes(s, "SubNeg"), Append(s.sub, IAC))
  BY <1>1, <1>3, <1>4, ReaderEqual DEF Eat, Gathers, Goes, Reader
<1>6. ASSUME Len(s.sub) >= 2, s.sub[1] = COM_PORT
      PROVE  Eat(e, s, SE) = Handled(e, s, s.sub[2], Rest(s))
  <2>1. Handled(e, s, s.sub[2], Rest(s)) \in Reader
    BY <1>6, RestIsOctets, HandledType DEF Reader, Rest
  <2>2. /\ Kept(s, SE) = <<>> /\ Heard(s, SE) = s.heard
        /\ Complete(s, SE) /\ ~IsData(s.at, SE) /\ After(s.at, SE) = "Data"
    BY <1>0, <1>6 DEF Kept, Heard, Complete, IsData, After
  <2> QED  BY <1>1, <2>1, <2>2, ReaderEqual, ZenonT(60) DEF Eat, Handled, Reader
<1> QED  BY <1>5, <1>6

(* A verb is heard.                                                        *)
Said(s, verb, o) ==
  [s EXCEPT !.heard = [@ EXCEPT ![<<IF verb \in {WILL, WONT} THEN "us" ELSE "them", o>>] =
                                  IF verb \in {WILL, DO} THEN "yes" ELSE "no"],
            !.firm = @ /\ ~(verb \in {WONT, DONT} /\ o = COM_PORT)]

LEMMA VerbRead ==
  ASSUME NEW e, NEW s \in Reader, s.at = "Data", NEW verb \in {WILL, WONT, DO, DONT}, NEW o \in Octet
  PROVE  /\ <<IAC, verb, o>> \in Seq(Octet) /\ Said(s, verb, o) \in Reader
         /\ Eaten(e, s, <<IAC, verb, o>>) = Said(s, verb, o)
<1>1. IAC \in Octet /\ verb \in Octet
  BY DEF IAC, WILL, WONT, DO, DONT, Octet
<1>2. /\ <<IAC, verb, o>> = Append(<<IAC, verb>>, o) /\ <<IAC, verb>> \in Seq(Octet)
      /\ <<IAC, verb, o>> \in Seq(Octet)
  BY <1>1
<1>3. Eaten(e, s, <<IAC, verb>>) = Eat(e, Eat(e, s, IAC), verb)
  BY <1>1, EatenTwo
<1>4. Eaten(e, s, <<IAC, verb, o>>) = Eat(e, Eaten(e, s, <<IAC, verb>>), o)
  <2> DEFINE q == <<IAC, verb>>
  <2>1. q \in Seq(Octet) /\ <<IAC, verb, o>> = Append(q, o)
    BY <1>2
  <2> HIDE DEF q
  <2>2. Eaten(e, s, Append(q, o)) = Eat(e, Eaten(e, s, q), o)
    BY <2>1, EatenAppend
  <2> QED  BY <2>1, <2>2 DEF q
<1>5. Eat(e, s, IAC) = Goes(s, "Iac") /\ Goes(s, "Iac") \in Reader
  <2>1. Eat(e, s, IAC) = Goes(s, "Iac")
    BY <1>1, EatData
  <2>2. Eat(e, s, IAC) \in Reader
    BY <1>1, EatType
  <2> QED  BY <2>1, <2>2
<1> DEFINE r == Goes(s, AfterIac(verb))
<1>6. Eat(e, Goes(s, "Iac"), verb) = r /\ r \in Reader
  <2>1. Goes(s, "Iac").at = "Iac" /\ Goes(Goes(s, "Iac"), AfterIac(verb)) = r
    BY DEF Goes, Reader
  <2>2. Eat(e, Goes(s, "Iac"), verb) = Goes(Goes(s, "Iac"), AfterIac(verb))
    BY <1>1, <1>5, <2>1, EatIac
  <2>3. Eat(e, Goes(s, "Iac"), verb) \in Reader
    BY <1>1, <1>5, EatType
  <2> QED  BY <2>1, <2>2, <2>3
<1>7. /\ AfterIac(verb) \in {"Will", "Wont", "Do", "Dont"}
      /\ AfterIac(verb) \in {"Will", "Wont"} <=> verb \in {WILL, WONT}
      /\ AfterIac(verb) \in {"Will", "Do"} <=> verb \in {WILL, DO}
      /\ AfterIac(verb) \in {"Wont", "Dont"} <=> verb \in {WONT, DONT}
  <2>1. /\ AfterIac(WILL) = "Will" /\ AfterIac(WONT) = "Wont"
        /\ AfterIac(DO) = "Do" /\ AfterIac(DONT) = "Dont"
    <3>0. /\ WILL # WONT /\ WILL # DO /\ WILL # DONT /\ WONT # DO /\ WONT # DONT /\ DO # DONT
          /\ WILL # SB /\ WONT # SB /\ DO # SB /\ DONT # SB
      BY DEF WILL, WONT, DO, DONT, SB
    <3>1. AfterIac(WILL) = "Will"
      BY <3>0 DEF AfterIac
    <3>2. AfterIac(WONT) = "Wont"
      BY <3>0 DEF AfterIac
    <3>3. AfterIac(DO) = "Do"
      BY <3>0 DEF AfterIac
    <3>4. AfterIac(DONT) = "Dont"
      BY <3>0 DEF AfterIac
    <3> QED  BY <3>1, <3>2, <3>3, <3>4
  <2>2. WILL # WONT /\ WILL # DO /\ WILL # DONT /\ WONT # DO /\ WONT # DONT /\ DO # DONT
    BY DEF WILL, WONT, DO, DONT
  <2> QED  BY <2>1, <2>2
<1>8. Said(s, verb, o) \in Reader
  BY DEF Said, Reader, Status
<1>9. Eat(e, r, o) = Said(s, verb, o)
  <2>1. /\ r.at = AfterIac(verb) /\ r.sub = s.sub /\ r.out = s.out /\ r.heard = s.heard
        /\ r.asked = s.asked /\ r.told = s.told /\ r.firm = s.firm
    BY DEF Goes, Reader
  <2> HIDE DEF r
  <2>2. /\ Kept(r, o) = s.sub /\ ~Complete(r, o) /\ ~IsData(r.at, o) /\ After(r.at, o) = "Data"
        /\ Heard(r, o) = [s.heard EXCEPT ![<<IF verb \in {WILL, WONT} THEN "us" ELSE "them", o>>] =
                                             IF verb \in {WILL, DO} THEN "yes" ELSE "no"]
    BY <1>7, <2>1 DEF Kept, Complete, IsData, After, Heard
  <2>3. Eat(e, r, o) \in Reader
    BY <1>6, EatType
  <2>4. /\ Eat(e, r, o).at = "Data" /\ Eat(e, r, o).sub = s.sub /\ Eat(e, r, o).out = s.out
        /\ Eat(e, r, o).heard = Heard(r, o) /\ Eat(e, r, o).asked = s.asked
        /\ Eat(e, r, o).told = s.told
        /\ Eat(e, r, o).firm = (s.firm /\ ~(verb \in {WONT, DONT} /\ o = COM_PORT))
    BY <1>7, <2>1, <2>2 DEF Eat
  <2>5. /\ Said(s, verb, o).at = "Data" /\ Said(s, verb, o).sub = s.sub
        /\ Said(s, verb, o).out = s.out /\ Said(s, verb, o).heard = Heard(r, o)
        /\ Said(s, verb, o).asked = s.asked /\ Said(s, verb, o).told = s.told
        /\ Said(s, verb, o).firm = (s.firm /\ ~(verb \in {WONT, DONT} /\ o = COM_PORT))
    BY <2>2 DEF Said, Reader
  <2> HIDE DEF r
  <2> QED  BY <1>8, <2>3, <2>4, <2>5, ReaderEqual
<1> QED  BY <1>2, <1>3, <1>4, <1>5, <1>6, <1>8, <1>9

(* What is escaped comes out as it was: as text, and inside a command.     *)
LEMMA CodeRead ==
  ASSUME NEW e, NEW s \in Reader, NEW x \in Octet
  PROVE  /\ Code(x) \in Seq(Octet)
         /\ s.at = "Data" => Eaten(e, s, Code(x)) = With(s, Append(s.out, x))
         /\ s.at = "SubNeg" => Eaten(e, s, Code(x)) = Gathers(s, Append(s.sub, x))
<1>1. IAC \in Octet /\ <<IAC, IAC>> \in Seq(Octet) /\ <<x>> \in Seq(Octet)
  BY DEF IAC, Octet
<1>2. Eaten(e, s, Code(x)) = IF x = IAC THEN Eat(e, Eat(e, s, IAC), IAC) ELSE Eat(e, s, x)
  BY <1>1, EatenOne, EatenTwo DEF Code
<1>3. Append(s.out, x) \in Seq(Octet) /\ Append(s.sub, x) \in Seq(Octet)
  BY AppendProperties DEF Reader
<1>4. ASSUME s.at = "Data" PROVE Eaten(e, s, Code(x)) = With(s, Append(s.out, x))
  <2>1. CASE x # IAC
    BY <1>2, <1>4, <2>1, EatData
  <2>2. CASE x = IAC
    <3> DEFINE r == Goes(s, "Iac")
    <3>1. Eat(e, s, IAC) = r /\ r \in Reader
      <4>1. Eat(e, s, IAC) = r
        BY <1>1, <1>4, EatData
      <4>2. Eat(e, s, IAC) \in Reader
        BY <1>1, EatType
      <4> QED  BY <4>1, <4>2
    <3>2. r.at = "Iac" /\ r.out = s.out /\ With(Goes(r, "Data"), Append(s.out, x)) = With(s, Append(s.out, x))
      BY <1>3, <1>4 DEF Goes, With, Reader
    <3> HIDE DEF r
    <3>3. Eat(e, r, IAC) = With(Goes(r, "Data"), Append(r.out, IAC))
      BY <1>1, <3>1, <3>2, EatIac
    <3> QED  BY <1>2, <2>2, <3>1, <3>2, <3>3
  <2> QED  BY <2>1, <2>2
<1>5. ASSUME s.at = "SubNeg" PROVE Eaten(e, s, Code(x)) = Gathers(s, Append(s.sub, x))
  <2>1. CASE x # IAC
    BY <1>2, <1>5, <2>1, EatSub
  <2>2. CASE x = IAC
    <3> DEFINE r == Goes(s, "SubNegIac")
    <3>1. Eat(e, s, IAC) = r /\ r \in Reader
      <4>1. Eat(e, s, IAC) = r
        BY <1>1, <1>5, EatSub
      <4>2. Eat(e, s, IAC) \in Reader
        BY <1>1, EatType
      <4> QED  BY <4>1, <4>2
    <3>2. /\ r.at = "SubNegIac" /\ r.sub = s.sub
          /\ Gathers(Goes(r, "SubNeg"), Append(s.sub, x)) = Gathers(s, Append(s.sub, x))
      BY <1>3, <1>5 DEF Goes, Gathers, Reader
    <3> HIDE DEF r
    <3>3. Eat(e, r, IAC) = Gathers(Goes(r, "SubNeg"), Append(r.sub, IAC))
      BY <1>1, <3>1, <3>2, EatSubIac
    <3> QED  BY <1>2, <2>2, <3>1, <3>2, <3>3
  <2> QED  BY <2>1, <2>2
<1> QED  BY <1>1, <1>4, <1>5 DEF Code

LEMMA TextRead ==
  ASSUME NEW e, NEW s \in Reader, s.at = "Data", NEW t \in Seq(Octet)
  PROVE  Eaten(e, s, Escape(t)) = With(s, s.out \o t)
<1> DEFINE o == s.out
           Good == {z \in Seq(Octet) : Eaten(e, s, Escape(z)) = With(s, o \o z)}
<1>0. o \in Seq(Octet)
  BY DEF Reader
<1>1. <<>> \in Good
  <2>1. o \o <<>> = o /\ With(s, o) = s
    BY <1>0, ConcatEmptySeq DEF With, Reader
  <2> QED  BY <2>1, EmptySeq, EscapeAppend, EatenEmpty
<1>2. ASSUME NEW z \in Good, NEW x \in Octet PROVE Append(z, x) \in Good
  <2> DEFINE r == With(s, o \o z)
  <2>1. z \in Seq(Octet) /\ Eaten(e, s, Escape(z)) = r /\ Append(z, x) \in Seq(Octet)
    BY AppendProperties
  <2>2. /\ Escape(z) \in Seq(Octet) /\ Code(x) \in Seq(Octet)
        /\ Escape(Append(z, x)) = Escape(z) \o Code(x)
    BY <2>1, EscapeAppend, CodeRead
  <2>3. Eaten(e, s, Escape(z) \o Code(x)) = Eaten(e, r, Code(x)) /\ r \in Reader
    BY <2>1, <2>2, EatenConcat, EatenType
  <2>4. r.at = "Data" /\ r.out = o \o z /\ With(r, o \o Append(z, x)) = With(s, o \o Append(z, x))
    BY DEF With, Reader
  <2>5. Append(o \o z, x) = o \o Append(z, x)
    <3> HIDE DEF o
    <3>1. <<x>> \in Seq(Octet) /\ Append(z, x) = z \o <<x>>
      BY <2>1, AppendIsConcat
    <3>2. Append(o \o z, x) = (o \o z) \o <<x>>
      BY <1>0, <2>1, ConcatProperties, AppendIsConcat
    <3>3. (o \o z) \o <<x>> = o \o (z \o <<x>>)
      BY <1>0, <2>1, <3>1, ConcatAssociative
    <3> QED  BY <3>1, <3>2, <3>3
  <2> HIDE DEF r, o
  <2>6. Eaten(e, r, Code(x)) = With(r, Append(o \o z, x))
    BY <2>3, <2>4, CodeRead
  <2> QED  BY <2>1, <2>2, <2>3, <2>4, <2>5, <2>6
<1>3. Good \in SUBSET Seq(Octet)
  OBVIOUS
<1> HIDE DEF Good
<1>4. Good = Seq(Octet)
  BY <1>1, <1>2, <1>3, SequenceInduction
<1> QED  BY <1>4 DEF Good

LEMMA PayloadRead ==
  ASSUME NEW e, NEW s \in Reader, s.at = "SubNeg", NEW p \in Seq(Octet)
  PROVE  Eaten(e, s, Escape(p)) = Gathers(s, s.sub \o p)
<1> DEFINE o == s.sub
           Good == {z \in Seq(Octet) : Eaten(e, s, Escape(z)) = Gathers(s, o \o z)}
<1>0. o \in Seq(Octet)
  BY DEF Reader
<1>1. <<>> \in Good
  <2>1. o \o <<>> = o /\ Gathers(s, o) = s
    BY <1>0, ConcatEmptySeq DEF Gathers, Reader
  <2> QED  BY <2>1, EmptySeq, EscapeAppend, EatenEmpty
<1>2. ASSUME NEW z \in Good, NEW x \in Octet PROVE Append(z, x) \in Good
  <2> DEFINE r == Gathers(s, o \o z)
  <2>1. z \in Seq(Octet) /\ Eaten(e, s, Escape(z)) = r /\ Append(z, x) \in Seq(Octet)
    BY AppendProperties
  <2>2. /\ Escape(z) \in Seq(Octet) /\ Code(x) \in Seq(Octet)
        /\ Escape(Append(z, x)) = Escape(z) \o Code(x)
    BY <2>1, EscapeAppend, CodeRead
  <2>3. Eaten(e, s, Escape(z) \o Code(x)) = Eaten(e, r, Code(x)) /\ r \in Reader
    BY <2>1, <2>2, EatenConcat, EatenType
  <2>4. /\ r.at = "SubNeg" /\ r.sub = o \o z
        /\ Gathers(r, o \o Append(z, x)) = Gathers(s, o \o Append(z, x))
    BY DEF Gathers, Reader
  <2>5. Append(o \o z, x) = o \o Append(z, x)
    <3> HIDE DEF o
    <3>1. <<x>> \in Seq(Octet) /\ Append(z, x) = z \o <<x>>
      BY <2>1, AppendIsConcat
    <3>2. Append(o \o z, x) = (o \o z) \o <<x>>
      BY <1>0, <2>1, ConcatProperties, AppendIsConcat
    <3>3. (o \o z) \o <<x>> = o \o (z \o <<x>>)
      BY <1>0, <2>1, <3>1, ConcatAssociative
    <3> QED  BY <3>1, <3>2, <3>3
  <2> HIDE DEF r, o
  <2>6. Eaten(e, r, Code(x)) = Gathers(r, Append(o \o z, x))
    BY <2>3, <2>4, CodeRead
  <2> QED  BY <2>1, <2>2, <2>3, <2>4, <2>5, <2>6
<1>3. Good \in SUBSET Seq(Octet)
  OBVIOUS
<1> HIDE DEF Good
<1>4. Good = Seq(Octet)
  BY <1>1, <1>2, <1>3, SequenceInduction
<1> QED  BY <1>4 DEF Good

(* A command is taken out whole, and acted on.                             *)
LEMMA SubnegotiationRead ==
  ASSUME NEW e, NEW s \in Reader, s.at = "Data", NEW cmd \in Octet, cmd # IAC,
         NEW p \in Seq(Octet)
  PROVE  /\ Subnegotiation(cmd, p) \in Seq(Octet) /\ Handled(e, s, cmd, p) \in Reader
         /\ Eaten(e, s, Subnegotiation(cmd, p)) = Handled(e, s, cmd, p)
<1> DEFINE head == <<IAC, SB, COM_PORT, cmd>>
           tail == <<IAC, SE>>
           r == Gathers(Goes(s, "SubNeg"), <<COM_PORT, cmd>>)
           q == <<COM_PORT, cmd>> \o p
           u == Gathers(r, q)
           v == Goes(u, "SubNegIac")
<1>1. /\ IAC \in Octet /\ SB \in Octet /\ COM_PORT \in Octet /\ SE \in Octet
      /\ COM_PORT # IAC /\ SB # IAC
  BY DEF IAC, SB, COM_PORT, SE, Octet
<1>2. /\ <<IAC, SB>> \in Seq(Octet) /\ <<COM_PORT, cmd>> \in Seq(Octet) /\ <<COM_PORT>> \in Seq(Octet)
      /\ head \in Seq(Octet) /\ tail \in Seq(Octet) /\ head = <<IAC, SB>> \o <<COM_PORT, cmd>>
      /\ Append(<<>>, COM_PORT) = <<COM_PORT>> /\ Append(<<COM_PORT>>, cmd) = <<COM_PORT, cmd>>
  <2>1. /\ <<IAC, SB>> \in Seq(Octet) /\ <<COM_PORT, cmd>> \in Seq(Octet)
        /\ <<COM_PORT>> \in Seq(Octet) /\ head \in Seq(Octet) /\ tail \in Seq(Octet)
    BY <1>1
  <2>2. head = <<IAC, SB>> \o <<COM_PORT, cmd>>
    OBVIOUS
  <2>3. Append(<<>>, COM_PORT) = <<COM_PORT>> /\ Append(<<COM_PORT>>, cmd) = <<COM_PORT, cmd>>
    <3>1. ASSUME NEW x \in Octet PROVE <<x>> = Append(<<>>, x)
      OBVIOUS
    <3>2. ASSUME NEW x \in Octet, NEW y \in Octet PROVE <<x, y>> = Append(<<x>>, y)
      OBVIOUS
    <3> QED  BY <1>1, <3>1, <3>2
  <2> QED  BY <2>1, <2>2, <2>3
<1>3. Eaten(e, s, head) = r /\ r \in Reader
  <2> DEFINE a == Goes(s, "Iac")
             b == Gathers(Goes(s, "SubNeg"), <<>>)
             c == Gathers(Goes(s, "SubNeg"), <<COM_PORT>>)
  <2>1. Eat(e, s, IAC) = a
    BY <1>1, EatData
  <2>2. a \in Reader /\ a.at = "Iac" /\ Gathers(Goes(a, "SubNeg"), <<>>) = b
    <3>1. a \in Reader
      BY <1>1, <2>1, EatType
    <3>2. a.at = "Iac" /\ Gathers(Goes(a, "SubNeg"), <<>>) = b
      BY DEF Goes, Gathers, Reader
    <3> QED  BY <3>1, <3>2
  <2>3. Eat(e, a, SB) = b
    <3> HIDE DEF a, b
    <3> QED  BY <1>1, <2>2, EatIac
  <2>4. b \in Reader /\ b.at = "SubNeg" /\ b.sub = <<>> /\ Gathers(b, <<COM_PORT>>) = c
    <3>1. b \in Reader
      BY <1>1, <2>2, <2>3, EatType
    <3>2. b.at = "SubNeg" /\ b.sub = <<>> /\ Gathers(b, <<COM_PORT>>) = c
      BY DEF Goes, Gathers, Reader
    <3> QED  BY <3>1, <3>2
  <2>5. Eat(e, b, COM_PORT) = c
    <3> HIDE DEF b, c
    <3> QED  BY <1>1, <1>2, <2>4, EatSub
  <2>6. c \in Reader /\ c.at = "SubNeg" /\ c.sub = <<COM_PORT>> /\ Gathers(c, <<COM_PORT, cmd>>) = r
    <3>1. c \in Reader
      BY <1>1, <2>4, <2>5, EatType
    <3>2. c.at = "SubNeg" /\ c.sub = <<COM_PORT>> /\ Gathers(c, <<COM_PORT, cmd>>) = r
      BY DEF Goes, Gathers, Reader
    <3> QED  BY <3>1, <3>2
  <2>7. Eat(e, c, cmd) = r
    <3> HIDE DEF c, r
    <3> QED  BY <1>2, <2>6, EatSub
  <2> HIDE DEF a, b, c, r
  <2>8. Eaten(e, s, <<IAC, SB>>) = b
    BY <1>1, <2>1, <2>3, EatenTwo
  <2>9. Eaten(e, b, <<COM_PORT, cmd>>) = r /\ r \in Reader
    BY <1>1, <2>4, <2>5, <2>6, <2>7, EatenTwo, EatType
  <2>10. Eaten(e, s, <<IAC, SB>> \o <<COM_PORT, cmd>>) = Eaten(e, Eaten(e, s, <<IAC, SB>>), <<COM_PORT, cmd>>)
    BY <1>2, EatenConcat, ZenonT(60)
  <2> QED  BY <1>2, <2>8, <2>9, <2>10
<1>4. r.at = "SubNeg" /\ r.sub = <<COM_PORT, cmd>>
  BY DEF Gathers, Goes, Reader
<1>5. Eaten(e, r, Escape(p)) = u /\ u \in Reader /\ Escape(p) \in Seq(Octet)
  <2> HIDE DEF r
  <2>1. Eaten(e, r, Escape(p)) = u /\ Escape(p) \in Seq(Octet)
    BY <1>3, <1>4, PayloadRead, EscapeType
  <2> HIDE DEF u
  <2> QED  BY <1>3, <2>1, EatenType
<1>6. q \in Seq(Octet) /\ Len(q) = Len(p) + 2 /\ q[1] = COM_PORT /\ q[2] = cmd
      /\ SubSeq(q, 3, Len(q)) = p
  <2>1. q \in Seq(Octet) /\ Len(q) = 2 + Len(p) /\ Len(p) \in Nat
    BY <1>2, ConcatProperties, LenProperties
  <2>2. \A i \in 1..(2 + Len(p)) : q[i] = IF i <= 2 THEN <<COM_PORT, cmd>>[i] ELSE p[i - 2]
    BY <1>2, <2>1, ConcatProperties
  <2>3. q[1] = COM_PORT /\ q[2] = cmd
    BY <2>1, <2>2
  <2> DEFINE z == SubSeq(q, 3, Len(q))
  <2>4. z \in Seq(Octet) /\ Len(z) = Len(p) /\ \A i \in 1..Len(z) : z[i] = q[3 + i - 1]
    <3>1. \A i \in 3..Len(q) : q[i] \in Octet
      BY <2>1, ElementOfSeq
    <3> HIDE DEF q
    <3> QED  BY <2>1, <3>1, SubSeqProperties
  <2>5. \A i \in 1..Len(p) : z[i] = p[i]
    BY <2>1, <2>2, <2>4
  <2> HIDE DEF z
  <2>6. z = p
    BY <2>4, <2>5, SeqEqual
  <2> QED  BY <2>1, <2>3, <2>6 DEF z
<1>7. u.at = "SubNeg" /\ u.sub = q
  BY DEF Gathers, Goes, Reader
<1>8. Eat(e, u, IAC) = v /\ v \in Reader
  <2> HIDE DEF u, v
  <2>1. Eat(e, u, IAC) = v
    BY <1>1, <1>5, <1>7, EatSub DEF v
  <2> QED  BY <1>1, <1>5, <2>1, EatType
<1>9. /\ v.at = "SubNegIac" /\ v.sub = q /\ Rest(v) = p
      /\ Handled(e, v, cmd, p) = Handled(e, s, cmd, p)
  <2>1. /\ v.at = "SubNegIac" /\ v.sub = q /\ v.out = s.out /\ v.heard = s.heard
        /\ v.asked = s.asked /\ v.told = s.told /\ v.firm = s.firm
    BY DEF Goes, Gathers, Reader
  <2> HIDE DEF v
  <2>2. Rest(v) = p
    BY <1>6, <2>1 DEF Rest
  <2>3. Handled(e, v, cmd, p) \in Reader /\ Handled(e, s, cmd, p) \in Reader
    BY <1>8, HandledType
  <2>4. Handled(e, v, cmd, p) = Handled(e, s, cmd, p)
    BY <1>8, <2>1, <2>3, ReaderEqual, ZenonT(60) DEF Handled, Reader
  <2> QED  BY <2>1, <2>2, <2>4
<1>10. Eat(e, v, SE) = Handled(e, s, cmd, p)
  <2> HIDE DEF v, q
  <2>1. Len(v.sub) >= 2 /\ v.sub[1] = COM_PORT /\ v.sub[2] = cmd
    <3>1. Len(p) \in Nat
      BY LenProperties
    <3> QED  BY <1>6, <1>9, <3>1
  <2>2. Eat(e, v, SE) = Handled(e, v, v.sub[2], Rest(v))
    BY <1>8, <1>9, <2>1, EatSubIac
  <2> QED  BY <1>9, <2>1, <2>2
<1>11. Eaten(e, u, tail) = Handled(e, s, cmd, p)
  <2> HIDE DEF u, v
  <2> QED  BY <1>1, <1>5, <1>8, <1>10, EatenTwo
<1>12. Subnegotiation(cmd, p) = (head \o Escape(p)) \o tail
  BY DEF Subnegotiation
<1>13. Handled(e, s, cmd, p) \in Reader
  BY HandledType
<1> HIDE DEF head, tail, r, u
<1> DEFINE m == Escape(p)  w == head \o m
<1>14. /\ m \in Seq(Octet) /\ w \in Seq(Octet) /\ w \o tail \in Seq(Octet)
  BY <1>2, <1>5, ConcatProperties
<1> HIDE DEF m
<1>15. Eaten(e, s, w) = Eaten(e, Eaten(e, s, head), m)
  <2>1. ASSUME NEW a \in Seq(Octet), NEW b \in Seq(Octet)
        PROVE  Eaten(e, s, a \o b) = Eaten(e, Eaten(e, s, a), b)
    BY EatenConcat
  <2> QED  BY <1>2, <1>14, <2>1
<1> HIDE DEF w
<1>16. Eaten(e, s, w \o tail) = Eaten(e, Eaten(e, s, w), tail)
  BY <1>2, <1>14, EatenConcat
<1> QED  BY <1>3, <1>5, <1>11, <1>12, <1>13, <1>14, <1>15, <1>16 DEF m, w

(* A sequence of settings arrives as it is.                                *)
Setting == (1..11) \X Seq(Octet)
Frames == [x \in Setting |-> Subnegotiation(x[1], x[2])]
Meant == [x \in Setting |-> <<x[1]>> \o x[2]]
Asks(s, r, asks) == /\ r.at = s.at /\ r.out = s.out /\ r.heard = s.heard /\ r.told = s.told
                    /\ r.firm = s.firm /\ r.asked = s.asked \o asks

LEMMA SettingsRead ==
  ASSUME NEW s \in Reader, s.at = "Data", NEW q \in Seq(Setting)
  PROVE  /\ FlattenSeq(Mapped(Frames, q)) \in Seq(Octet)
         /\ Asks(s, Eaten("server", s, FlattenSeq(Mapped(Frames, q))), Mapped(Meant, q))
<1> DEFINE F(z) == FlattenSeq(Mapped(Frames, z))
           M(z) == Mapped(Meant, z)
           Good == {z \in Seq(Setting) : F(z) \in Seq(Octet) /\ Asks(s, Eaten("server", s, F(z)), M(z))}
<1>1. ASSUME NEW x \in Setting
      PROVE  /\ x[1] \in Octet /\ x[1] # IAC /\ x[2] \in Seq(Octet)
             /\ Subnegotiation(x[1], x[2]) \in Seq(Octet) /\ <<x[1]>> \o x[2] \in Seq(Octet)
             /\ Frames[x] = Subnegotiation(x[1], x[2]) /\ Meant[x] = <<x[1]>> \o x[2]
  <2>1. x[1] \in Octet /\ x[1] # IAC /\ x[2] \in Seq(Octet)
    BY DEF Setting, Octet, IAC
  <2>2. s.at = "Data" /\ s \in Reader
    OBVIOUS
  <2>3. Subnegotiation(x[1], x[2]) \in Seq(Octet)
    BY <2>1, <2>2, SubnegotiationRead
  <2>4. <<x[1]>> \o x[2] \in Seq(Octet)
    BY <2>1, EatenOne, <2>2, ConcatProperties
  <2> QED  BY <2>1, <2>3, <2>4 DEF Frames, Meant
<1>2. Frames \in [Setting -> Seq(Octet)] /\ Meant \in [Setting -> Seq(Octet)]
  BY <1>1 DEF Frames, Meant
<1>3. <<>> \in Good
  <2>1. Mapped(Frames, <<>>) = <<>> /\ Mapped(Meant, <<>>) = <<>>
    BY DEF Mapped
  <2>2. <<>> \in Seq(Setting) /\ <<>> \in Seq(Octet)
    BY EmptySeq
  <2>3. Eaten("server", s, <<>>) = s
    BY EatenEmpty
  <2>4. s.asked \o <<>> = s.asked
    <3>1. s.asked \in Seq(Seq(Octet))
      BY DEF Reader
    <3> QED  BY <3>1, ConcatEmptySeq
  <2> QED  BY <2>1, <2>2, <2>3, <2>4, FlattenEmpty DEF Asks
<1>4. ASSUME NEW z \in Good, NEW x \in Setting PROVE Append(z, x) \in Good
  <2>1. /\ z \in Seq(Setting) /\ F(z) \in Seq(Octet) /\ Asks(s, Eaten("server", s, F(z)), M(z))
        /\ Append(z, x) \in Seq(Setting)
    BY AppendProperties
  <2> DEFINE m == Subnegotiation(x[1], x[2])  y == <<x[1]>> \o x[2]
             r == Eaten("server", s, F(z))
  <2>2. M(z) \in Seq(Seq(Octet)) /\ M(Append(z, x)) = Append(M(z), y)
    <3>1. Maps(Setting, Seq(Octet), Meant, z, x)
      BY <1>2, <2>1, MapAppend
    <3> QED  BY <1>1, <3>1 DEF Maps
  <2>3. F(Append(z, x)) = F(z) \o m
    <3>1. Maps(Setting, Seq(Octet), Frames, z, x)
      BY <1>2, <2>1, MapAppend
    <3> DEFINE c == Mapped(Frames, z)
    <3>2. c \in Seq(Seq(Octet)) /\ Mapped(Frames, Append(z, x)) = Append(c, m) /\ m \in Seq(Octet)
      BY <1>1, <3>1 DEF Maps
    <3> HIDE DEF c, m
    <3>3. FlattenSeq(Append(c, m)) = FlattenSeq(c) \o m
      BY <3>2, FlattenAppend
    <3> QED  BY <3>2, <3>3 DEF c
  <2>4. r \in Reader /\ r.at = "Data"
    <3>1. r \in Reader
      <4> HIDE DEF F
      <4> QED  BY <2>1, EatenType
    <3>2. r.at = "Data"
      BY <2>1 DEF Asks
    <3> QED  BY <3>1, <3>2
  <2>5. x[1] \in Octet /\ x[1] # IAC /\ x[2] \in Seq(Octet) /\ m \in Seq(Octet) /\ y \in Seq(Octet)
    BY <1>1
  <2>6. Eaten("server", s, F(z) \o m) = Eaten("server", r, m) /\ F(z) \o m \in Seq(Octet)
    <3> HIDE DEF F, m
    <3> QED  BY <2>1, <2>5, EatenConcat, ConcatProperties
  <2>7. Eaten("server", r, m) = Handled("server", r, x[1], x[2])
    <3> HIDE DEF r
    <3> QED  BY <2>4, <2>5, SubnegotiationRead
  <2> DEFINE u == Handled("server", r, x[1], x[2])
  <2>8. /\ u.at = "Data" /\ u.out = r.out /\ u.heard = r.heard /\ u.told = r.told
        /\ u.firm = r.firm /\ u.asked = Append(r.asked, y)
    <3> HIDE DEF r
    <3> QED  BY <2>4 DEF Handled, Reader
  <2>9. /\ r.out = s.out /\ r.heard = s.heard /\ r.told = s.told /\ r.firm = s.firm
        /\ r.asked = s.asked \o M(z)
    BY <2>1 DEF Asks
  <2>10. Append(s.asked \o M(z), y) = s.asked \o Append(M(z), y)
    <3> DEFINE o == s.asked  Chunk == Seq(Octet)
    <3> DEFINE k == M(z)
    <3>1. o \in Seq(Chunk) /\ k \in Seq(Chunk) /\ y \in Chunk
      BY <2>2, <2>5 DEF Reader
    <3> HIDE DEF o, Chunk, k, y
    <3>2. Append(o \o k, y) = o \o Append(k, y)
      <4>1. <<y>> \in Seq(Chunk) /\ Append(k, y) = k \o <<y>>
        BY <3>1, AppendIsConcat
      <4>2. Append(o \o k, y) = (o \o k) \o <<y>>
        BY <3>1, ConcatProperties, AppendIsConcat
      <4>3. (o \o k) \o <<y>> = o \o (k \o <<y>>)
        BY <3>1, <4>1, ConcatAssociative
      <4> QED  BY <4>1, <4>2, <4>3
    <3> QED  BY <3>2 DEF o, k
  <2>11. Asks(s, u, Append(M(z), y))
    <3> HIDE DEF u, r, M
    <3> QED  BY <2>8, <2>9, <2>10 DEF Asks
  <2> HIDE DEF F, M, r, u, m, y
  <2> QED  BY <2>1, <2>2, <2>3, <2>6, <2>7, <2>11 DEF u
<1>5. Good \in SUBSET Seq(Setting)
  OBVIOUS
<1> HIDE DEF Good
<1>6. Good = Seq(Setting)
  BY <1>3, <1>4, <1>5, SequenceInduction
<1> QED  BY <1>6 DEF Good

LEMMA RequestsRead ==
  ASSUME NEW s \in Reader, s.at = "Data"
  PROVE  /\ Requests \in Seq(Octet) /\ Target \in Seq(Seq(Octet)) /\ Len(Target) = Len(Settings)
         /\ Asks(s, Eaten("server", s, Requests), Target)
<1>1. Settings \in Seq(Setting)
  BY TelnetAssumption DEF Setting, Octet
<1>2. \A i \in DOMAIN Settings : Settings[i] \in Setting
  BY <1>1, LenProperties, ElementOfSeq
<1>3. Mapped(Frames, Settings) =
        [i \in DOMAIN Settings |-> Subnegotiation(Settings[i][1], Settings[i][2])]
  BY <1>2 DEF Mapped, Frames
<1>4. Mapped(Meant, Settings) = Target
  BY <1>2 DEF Mapped, Meant, Target
<1>5. Target \in Seq(Seq(Octet)) /\ Len(Target) = Len(Settings)
  <2>1. DOMAIN Settings = 1..Len(Settings) /\ Len(Settings) \in Nat
    BY <1>1, LenProperties
  <2>2. \A i \in DOMAIN Settings : <<Settings[i][1]>> \o Settings[i][2] \in Seq(Octet)
    <3> TAKE i \in DOMAIN Settings
    <3>1. Settings[i][1] \in Octet /\ Settings[i][2] \in Seq(Octet)
      BY <1>2 DEF Setting, Octet
    <3> QED  BY <3>1, EatenOne, ConcatProperties
  <2> QED  BY <2>1, <2>2 DEF Target
<1> QED  BY <1>1, <1>3, <1>4, <1>5, SettingsRead DEF Requests

(* The offers this program begins with.                                    *)
Unheard == [so \in Side \X Option |-> "none"]
AllOffered == [so \in Side \X Option |-> IF so[2] \in Offered THEN "yes" ELSE "none"]
LEMMA OffersRead ==
  ASSUME NEW e, NEW s \in Reader, s.at = "Data", s.heard = Unheard
  PROVE  /\ Offers \in Seq(Octet)
         /\ LET r == Eaten(e, s, Offers)
            IN  /\ r.at = "Data" /\ r.out = s.out /\ r.asked = s.asked /\ r.told = s.told
                /\ r.firm = s.firm
                /\ r.heard = AllOffered
<1> DEFINE Offer(o) == <<IAC, WILL, o, IAC, DO, o>>
           Both(z, o) == Said(Said(z, WILL, o), DO, o)
<1>1. /\ BINARY \in Octet /\ SGA \in Octet /\ COM_PORT \in Octet
      /\ BINARY \in Option /\ SGA \in Option /\ COM_PORT \in Option
  BY TelnetAssumption DEF BINARY, SGA, COM_PORT, Octet
<1>2. ASSUME NEW z \in Reader, z.at = "Data", NEW o \in Octet
      PROVE  /\ Offer(o) \in Seq(Octet) /\ Both(z, o) \in Reader /\ Both(z, o).at = "Data"
             /\ Eaten(e, z, Offer(o)) = Both(z, o)
  <2> DEFINE r == Said(z, WILL, o)
  <2>1. <<IAC, WILL, o>> \in Seq(Octet) /\ r \in Reader /\ Eaten(e, z, <<IAC, WILL, o>>) = r
    BY <1>2, VerbRead
  <2>2. r.at = "Data"
    BY <1>2 DEF Said, Reader
  <2> HIDE DEF r
  <2>3. <<IAC, DO, o>> \in Seq(Octet) /\ Said(r, DO, o) \in Reader
        /\ Eaten(e, r, <<IAC, DO, o>>) = Said(r, DO, o)
    BY <2>1, <2>2, VerbRead
  <2>4. Said(r, DO, o).at = "Data"
    BY <2>1, <2>2 DEF Said, Reader
  <2>5. Offer(o) = <<IAC, WILL, o>> \o <<IAC, DO, o>>
    OBVIOUS
  <2> DEFINE a == <<IAC, WILL, o>>  b == <<IAC, DO, o>>
  <2>6. a \in Seq(Octet) /\ b \in Seq(Octet) /\ Offer(o) = a \o b
    BY <2>1, <2>3, <2>5
  <2> HIDE DEF a, b, Offer
  <2>7. Eaten(e, z, a \o b) = Eaten(e, Eaten(e, z, a), b) /\ a \o b \in Seq(Octet)
    BY <2>6, EatenConcat, ConcatProperties
  <2> QED  BY <2>1, <2>3, <2>4, <2>6, <2>7 DEF a, b, r
<1> DEFINE a == Offer(BINARY)  b == Offer(SGA)  c == Offer(COM_PORT)
           x == Both(s, BINARY)  y == Both(x, SGA)  z == Both(y, COM_PORT)
<1>3. /\ a \in Seq(Octet) /\ x \in Reader /\ x.at = "Data" /\ Eaten(e, s, a) = x
  BY <1>1, <1>2
<1>4. /\ b \in Seq(Octet) /\ y \in Reader /\ y.at = "Data" /\ Eaten(e, x, b) = y
  <2> HIDE DEF x, Both, Offer
  <2> QED  BY <1>1, <1>2, <1>3
<1>5. /\ c \in Seq(Octet) /\ z \in Reader /\ z.at = "Data" /\ Eaten(e, y, c) = z
  <2> HIDE DEF y, Both, Offer
  <2> QED  BY <1>1, <1>2, <1>4
<1>6. Offers = (a \o b) \o c
  <2> DEFINE q == [i \in 1..3 |-> LET o == <<BINARY, SGA, COM_PORT>>[i]
                                  IN  <<IAC, WILL, o, IAC, DO, o>>]
  <2>1. q = <<a, b, c>>
    <3>1. q[1] = a /\ q[2] = b /\ q[3] = c
      OBVIOUS
    <3>2. q = [i \in 1..3 |-> q[i]] /\ <<a, b, c>> = [i \in 1..3 |-> <<a, b, c>>[i]]
      OBVIOUS
    <3>3. \A i \in 1..3 : i = 1 \/ i = 2 \/ i = 3
      OBVIOUS
    <3> HIDE DEF q, a, b, c
    <3> QED  BY <3>1, <3>2, <3>3
  <2> HIDE DEF q, a, b, c
  <2>2. /\ <<>> \in Seq(Seq(Octet)) /\ <<a>> \in Seq(Seq(Octet)) /\ <<a, b>> \in Seq(Seq(Octet))
    BY <1>3, <1>4, EmptySeq
  <2>3. <<a>> = Append(<<>>, a)
    OBVIOUS
  <2>4. <<a, b>> = Append(<<a>>, b)
    OBVIOUS
  <2>5. <<a, b, c>> = Append(<<a, b>>, c)
    OBVIOUS
  <2>6. FlattenSeq(<<a>>) = a
    <3>1. FlattenSeq(Append(<<>>, a)) = FlattenSeq(<<>>) \o a
      BY <1>3, <2>2, FlattenAppend
    <3> QED  BY <1>3, <2>3, <3>1, FlattenEmpty, ConcatEmptySeq
  <2>7. FlattenSeq(<<a, b>>) = a \o b
    <3> DEFINE u == <<a>>
    <3>1. u \in Seq(Seq(Octet)) /\ <<a, b>> = Append(u, b) /\ FlattenSeq(u) = a
      BY <2>2, <2>4, <2>6
    <3> HIDE DEF u
    <3> QED  BY <1>4, <3>1, FlattenAppend
  <2>8. FlattenSeq(<<a, b, c>>) = (a \o b) \o c
    <3> DEFINE u == <<a, b>>
    <3>1. u \in Seq(Seq(Octet)) /\ <<a, b, c>> = Append(u, c) /\ FlattenSeq(u) = a \o b
      BY <2>2, <2>5, <2>7
    <3> HIDE DEF u
    <3> QED  BY <1>5, <3>1, FlattenAppend
  <2>9. Offers = FlattenSeq(q)
    BY DEF Offers, q
  <2> QED  BY <2>1, <2>8, <2>9
<1>7. Eaten(e, s, (a \o b) \o c) = z /\ (a \o b) \o c \in Seq(Octet)
  <2> HIDE DEF a, b, c, x, y, z
  <2>1. Eaten(e, s, a \o b) = y /\ a \o b \in Seq(Octet)
    BY <1>3, <1>4, EatenConcat, ConcatProperties
  <2> DEFINE u == a \o b
  <2>2. u \in Seq(Octet) /\ Eaten(e, s, u) = y
    BY <2>1
  <2> HIDE DEF u
  <2>3. Eaten(e, s, u \o c) = z /\ u \o c \in Seq(Octet)
    BY <1>5, <2>2, EatenConcat, ConcatProperties
  <2> QED  BY <2>3 DEF u
<1>8. ASSUME NEW w \in Reader, NEW o \in Octet
      PROVE  /\ Both(w, o).out = w.out /\ Both(w, o).asked = w.asked /\ Both(w, o).told = w.told
             /\ Both(w, o).firm = w.firm
             /\ Both(w, o).heard = [w.heard EXCEPT ![<<"us", o>>] = "yes", ![<<"them", o>>] = "yes"]
  BY DEF Said, Reader, WILL, WONT, DO, DONT
<1>9. /\ z.out = s.out /\ z.asked = s.asked /\ z.told = s.told /\ z.firm = s.firm
  <2>1. x.out = s.out /\ x.asked = s.asked /\ x.told = s.told /\ x.firm = s.firm
    BY <1>1, <1>8
  <2>2. y.out = x.out /\ y.asked = x.asked /\ y.told = x.told /\ y.firm = x.firm
    <3> HIDE DEF x, Both
    <3> QED  BY <1>1, <1>3, <1>8
  <2>3. z.out = y.out /\ z.asked = y.asked /\ z.told = y.told /\ z.firm = y.firm
    <3> HIDE DEF y, Both
    <3> QED  BY <1>1, <1>4, <1>8
  <2> HIDE DEF x, y, z
  <2> QED  BY <2>1, <2>2, <2>3
<1>10. z.heard = AllOffered
  <2>1. x.heard = [s.heard EXCEPT ![<<"us", BINARY>>] = "yes", ![<<"them", BINARY>>] = "yes"]
    BY <1>1, <1>8
  <2>2. y.heard = [x.heard EXCEPT ![<<"us", SGA>>] = "yes", ![<<"them", SGA>>] = "yes"]
    <3> HIDE DEF x, Both
    <3> QED  BY <1>1, <1>3, <1>8
  <2>3. z.heard = [y.heard EXCEPT ![<<"us", COM_PORT>>] = "yes", ![<<"them", COM_PORT>>] = "yes"]
    <3> HIDE DEF y, Both
    <3> QED  BY <1>1, <1>4, <1>8
  <2> HIDE DEF x, y, z
  <2>4. z.heard = [so \in Side \X Option |-> z.heard[so]]
    BY <2>1, <2>2, <2>3 DEF Unheard
  <2>5. ASSUME NEW d \in Side, NEW o \in Option
        PROVE  z.heard[<<d, o>>] = IF o \in Offered THEN "yes" ELSE "none"
    BY <1>1, <2>1, <2>2, <2>3 DEF Side, Offered, Unheard
  <2> DEFINE w == z.heard
  <2>6. \A so \in Side \X Option : w[so] = IF so[2] \in Offered THEN "yes" ELSE "none"
    <3> TAKE so \in Side \X Option
    <3>1. so = <<so[1], so[2]>> /\ so[1] \in Side /\ so[2] \in Option
      OBVIOUS
    <3> QED  BY <2>5, <3>1
  <2>7. w = [so \in Side \X Option |-> w[so]]
    BY <2>4
  <2> HIDE DEF w
  <2>8. w = [so \in Side \X Option |-> IF so[2] \in Offered THEN "yes" ELSE "none"]
    BY <2>6, <2>7
  <2> QED  BY <2>8 DEF w, AllOffered
<1> HIDE DEF a, b, c, z
<1> QED  BY <1>5, <1>6, <1>7, <1>9, <1>10

(* The ends, and what a state makes of them.                               *)
LEMMA Ends ==
  /\ End = {"client", "server"} /\ Other("client") = "server" /\ Other("server") = "client"
  /\ \A e \in End : Other(e) \in End /\ Other(e) # e /\ Other(Other(e)) = e
<1>1. Other("client") \in End /\ Other("client") # "client"
  <2>1. \E p \in End : p # "client"
    BY DEF End
  <2> QED  BY <2>1 DEF Other
<1>2. Other("server") \in End /\ Other("server") # "server"
  <2>1. \E p \in End : p # "server"
    BY DEF End
  <2> QED  BY <2>1 DEF Other
<1> QED  BY <1>1, <1>2 DEF End

LEMMA Types ==
  TypeOK <=> /\ foreign \in End \cup {"none"}
             /\ requested \in BOOLEAN /\ asking \in BOOLEAN /\ invited \in BOOLEAN
             /\ chan \in [End -> Seq(Octet)]
             /\ dec \in [End -> [at : State, sub : Seq(Octet)]]
             /\ table \in [End -> [Side \X Option -> Status]]
             /\ line \in [Item -> Seq(Octet)] /\ record \in [Pin -> Seq(Octet)]
             /\ driven \subseteq Pin
             /\ writes \in [End -> 0..MaxWrites] /\ odd \in 0..MaxForeign
             /\ fed \in [End -> Seq(Octet)] /\ out \in [End -> Seq(Octet)]
             /\ heard \in [End -> [Side \X Option -> Status]]
             /\ asked \in Seq(Seq(Octet)) /\ told \in [Item -> Seq(Octet)]
BY DEF TypeOK, Octet, State, Status

LEMMA NowType ==
  ASSUME TypeOK, NEW e \in End
  PROVE  Now(e) \in Reader /\ chan[e] \in Seq(Octet) /\ Ahead(e) \in Reader
<1>1. Now(e) \in Reader
  <2>1. /\ dec[e].at \in State /\ dec[e].sub \in Seq(Octet) /\ out[e] \in Seq(Octet)
        /\ heard[e] \in [Side \X Option -> Status] /\ asked \in Seq(Seq(Octet))
        /\ told \in [Item -> Seq(Octet)]
    BY Types
  <2>2. <<>> \in Seq(Seq(Octet)) /\ [i \in Item |-> <<>>] \in [Item -> Seq(Octet)]
    BY EmptySeq
  <2> QED  BY <2>1, <2>2 DEF Now, Reader
<1>2. chan[e] \in Seq(Octet)
  BY Types
<1> QED  BY <1>1, <1>2, EatenType DEF Ahead

LEMMA NextNowType == TypeOK' => (\A e \in End : Now(e) \in Reader)'
<1>1. TypeOK => \A e \in End : Now(e) \in Reader
  BY NowType
<1> QED  BY <1>1, PTL

(* A reader that has read a byte and lost nothing of it goes on as before. *)
Same(r, s) == /\ r.at = s.at /\ r.sub = s.sub /\ r.out = s.out /\ r.heard = s.heard
              /\ r.asked = s.asked /\ r.told = s.told /\ (s.firm => r.firm)
LEMMA ReadOn ==
  ASSUME NEW e, NEW s \in Reader, NEW r \in Reader, NEW q \in Seq(Octet), q # <<>>,
         Same(r, Eat(e, s, Head(q)))
  PROVE  Same(Eaten(e, r, Tail(q)), Eaten(e, s, q))
<1>1. /\ Head(q) \in Octet /\ Tail(q) \in Seq(Octet)
      /\ Eaten(e, s, q) = Eaten(e, Eat(e, s, Head(q)), Tail(q))
  BY EatenHead
<1> DEFINE z == Eat(e, s, Head(q))  none == <<>>
<1>2. z \in Reader /\ none \in Seq(Octet)
  BY <1>1, EatType, EmptySeq
<1>3. ASSUME NEW x \in Seq(Octet) PROVE none \o x = x
  BY <1>3, ConcatEmptySeq
<1>4. Like(r, z, none)
  <2>1. r.out \in Seq(Octet)
    BY DEF Reader
  <2> HIDE DEF none, z
  <2>2. none \o r.out = r.out
    BY <1>3, <2>1
  <2> QED  BY <2>2 DEF Same, Like, z
<1> HIDE DEF z, none
<1>5. Like(Eaten(e, r, Tail(q)), Eaten(e, z, Tail(q)), none)
  BY <1>1, <1>2, <1>4, EatenLike
<1>6. Eaten(e, r, Tail(q)).out \in Seq(Octet)
  <2>1. Eaten(e, r, Tail(q)) \in Reader
    BY <1>1, EatenType
  <2> QED  BY <2>1 DEF Reader
<1> QED  BY <1>1, <1>3, <1>5, <1>6 DEF Like, Same, z

(* Next takes a byte from an end's stream: what that end makes of it, and   *)
(* what it says.                                                           *)
Takes(e, m) == /\ chan[e] # <<>> /\ m \in Seq(Octet) /\ Post(e, m)
               /\ Same(Now(e)', Eat(e, Now(e), Byte(e)))
               /\ Now(Other(e))' = Now(Other(e))
LEMMA Taken ==
  ASSUME TypeOK, TypeOK', NEW e \in End, NEW m, Takes(e, m)
  PROVE  /\ Same(Ahead(e)', Ahead(e))
         /\ Ahead(Other(e))' = Eaten(Other(e), Ahead(Other(e)), m)
         /\ Ahead(e).firm => Eat(e, Now(e), Byte(e)).firm
<1> DEFINE o == Other(e)
<1>1. o \in End /\ o # e
  BY Ends
<1> HIDE DEF o
<1>2. chan'[e] = Tail(chan[e]) /\ chan'[o] = chan[o] \o m
  BY <1>1, Types DEF Takes, Post, o
<1>3. /\ Now(e) \in Reader /\ Now(o) \in Reader /\ chan[e] \in Seq(Octet) /\ chan[o] \in Seq(Octet)
      /\ Ahead(o) = Eaten(o, Now(o), chan[o]) /\ Ahead(e) = Eaten(e, Now(e), chan[e])
  BY <1>1, NowType DEF Ahead
<1>4. Now(e)' \in Reader
  BY NextNowType
<1>5. Same(Ahead(e)', Ahead(e))
  <2>1. Ahead(e)' = Eaten(e, Now(e)', Tail(chan[e]))
    BY <1>2 DEF Ahead
  <2> QED  BY <1>3, <1>4, <2>1, ReadOn DEF Takes, Byte
<1>6. Ahead(o)' = Eaten(o, Ahead(o), m)
  <2>1. Ahead(o)' = Eaten(o, Now(o), chan[o] \o m)
    BY <1>2 DEF Ahead, Takes, o
  <2> QED  BY <1>3, <2>1, EatenConcat DEF Takes
<1>7. Ahead(e).firm => Eat(e, Now(e), Byte(e)).firm
  <2> DEFINE s == Now(e)  q == chan[e]
  <2>1. s \in Reader /\ q \in Seq(Octet) /\ q # <<>> /\ Ahead(e) = Eaten(e, s, q) /\ Byte(e) = Head(q)
    BY <1>3 DEF Takes, Byte
  <2> HIDE DEF s, q
  <2>2. /\ Head(q) \in Octet /\ Tail(q) \in Seq(Octet)
        /\ Eaten(e, s, q) = Eaten(e, Eat(e, s, Head(q)), Tail(q))
    BY <2>1, EatenHead
  <2>3. Eat(e, s, Head(q)) \in Reader
    BY <2>1, <2>2, EatType
  <2>4. Grown(Eat(e, s, Head(q)), Eaten(e, Eat(e, s, Head(q)), Tail(q)))
    BY <2>2, <2>3, EatenGrown
  <2> QED  BY <2>1, <2>2, <2>4 DEF Grown, s
<1> QED  BY <1>5, <1>6, <1>7 DEF o

(* The messages an end sends are bytes.                                    *)
LEMMA SubnegotiationType ==
  ASSUME NEW cmd \in Octet, NEW p \in Seq(Octet)
  PROVE  Subnegotiation(cmd, p) \in Seq(Octet)
<1> DEFINE head == <<IAC, SB, COM_PORT, cmd>>  m == Escape(p)  tail == <<IAC, SE>>
<1>1. head \in Seq(Octet) /\ tail \in Seq(Octet)
  BY DEF IAC, SB, COM_PORT, SE, Octet
<1>2. m \in Seq(Octet)
  BY EscapeType
<1>3. Subnegotiation(cmd, p) = head \o m \o tail
  BY DEF Subnegotiation
<1> HIDE DEF head, m, tail
<1> QED  BY <1>1, <1>2, <1>3, ConcatProperties

LEMMA VerbType ==
  ASSUME NEW side \in Side, NEW agree \in {"yes", "no"}, NEW o \in Octet
  PROVE  /\ Verb(side, agree) \in {WILL, WONT, DO, DONT}
         /\ <<IAC, Verb(side, agree), o>> \in Seq(Octet)
         /\ Verb(side, agree) \in {WILL, WONT} <=> side = "us"
         /\ Verb(side, agree) \in {WILL, DO} <=> agree = "yes"
<1>1. WILL # WONT /\ WILL # DO /\ WILL # DONT /\ WONT # DO /\ WONT # DONT /\ DO # DONT
  BY DEF WILL, WONT, DO, DONT
<1>2. Verb(side, agree) \in {WILL, WONT, DO, DONT}
  BY DEF Verb
<1>3. <<IAC, Verb(side, agree), o>> \in Seq(Octet)
  BY <1>2 DEF IAC, WILL, WONT, DO, DONT, Octet
<1>4. Verb(side, agree) \in {WILL, WONT} <=> side = "us"
  BY <1>1 DEF Verb, Side
<1>5. Verb(side, agree) \in {WILL, DO} <=> agree = "yes"
  BY <1>1 DEF Verb, Side
<1> QED  BY <1>2, <1>3, <1>4, <1>5

LEMMA ConstantTypes ==
  /\ Requests \in Seq(Octet) /\ Offers \in Seq(Octet)
  /\ \A t \in Text : t \in Seq(Octet)
  /\ \A e \in End : \A t \in Foreign[e] : t \in Seq(Octet)
  /\ <<>> \in Seq(Octet)
<1> DEFINE s == [at |-> "Data", sub |-> <<>>, out |-> <<>>,
                 heard |-> Unheard, asked |-> <<>>,
                 told |-> [i \in Item |-> <<>>], firm |-> TRUE]
<1>1. <<>> \in Seq(Octet) /\ <<>> \in Seq(Seq(Octet))
  BY EmptySeq
<1>2. s \in Reader /\ s.at = "Data" /\ s.heard = Unheard
  BY <1>1 DEF Reader, State, Status, Unheard
<1> HIDE DEF s
<1>3. Requests \in Seq(Octet) /\ Offers \in Seq(Octet)
  BY <1>2, RequestsRead, OffersRead
<1>4. /\ \A t \in Text : t \in Seq(Octet)
      /\ \A e \in End : \A t \in Foreign[e] : t \in Seq(Octet)
  BY TelnetAssumption DEF Octet, End
<1> QED  BY <1>1, <1>3, <1>4

LEMMA ValueType ==
  ASSUME NEW i \in Item, NEW p \in Seq(Octet), IsValue(i, p)
  PROVE  /\ Value(i, p) \in Seq(Octet)
         /\ i[1] = 5 => Value(i, p) = <<p[1]>>
<1>1. Len(p) \in Nat /\ (\A j \in 1..Len(p) : p[j] \in Octet) /\ (p # <<>> => Len(p) >= 1)
  BY LenProperties, ElementOfSeq, EmptySeq
<1>2. CASE i[1] = 1
  <2>1. Len(p) >= 4
    BY <1>2 DEF IsValue
  <2>2. \A j \in 1..4 : p[j] \in Octet
    BY <1>1, <2>1
  <2>3. SubSeq(p, 1, 4) \in Seq(Octet)
    BY <2>2, SubSeqProperties
  <2> QED  BY <1>2, <2>3 DEF Value
<1>3. CASE i[1] # 1
  <2>1. p # <<>>
    <3>1. i[1] \in {2, 3, 4, 5}
      BY <1>3 DEF Item, Pin
    <3> DEFINE c == i[1]
    <3>2. c \in {2, 3, 4, 5} /\ CASE c = 1 -> Len(p) >= 4 /\ SubSeq(p, 1, 4) # <<0, 0, 0, 0>>
                               [] c = 2 -> p # <<>> /\ p[1] \in 5..8
                               [] c = 3 -> p # <<>> /\ p[1] \in 1..3
                               [] c = 4 -> p # <<>> /\ p[1] \in 1..2
                               [] c = 5 -> p # <<>> /\ p[1] # i[2]
      BY <3>1 DEF IsValue
    <3> HIDE DEF c
    <3>3. c = 2 => p # <<>>
      BY <3>2
    <3>4. c = 3 => p # <<>>
      BY <3>2
    <3>5. c = 4 => p # <<>>
      BY <3>2
    <3>6. c = 5 => p # <<>>
      BY <3>2
    <3> QED  BY <3>2, <3>3, <3>4, <3>5, <3>6
  <2>2. p[1] \in Octet
    BY <1>1, <2>1
  <2>3. SubSeq(p, 1, 1) = <<p[1]>>
    <3> DEFINE z == SubSeq(p, 1, 1)
    <3>1. \A j \in 1..1 : p[j] \in Octet
      BY <2>2
    <3>2. z \in Seq(Octet) /\ Len(z) = 1 /\ \A j \in 1..1 : z[j] = p[1 + j - 1]
      BY <3>1, SubSeqProperties
    <3>3. <<p[1]>> \in Seq(Octet) /\ Len(<<p[1]>>) = 1 /\ \A j \in 1..1 : <<p[1]>>[j] = p[1]
      BY <2>2
    <3>4. \A j \in 1..1 : z[j] = <<p[1]>>[j]
      BY <3>2, <3>3
    <3> DEFINE w == <<p[1]>>
    <3>5. w \in Seq(Octet) /\ Len(w) = Len(z) /\ \A j \in 1..Len(w) : z[j] = w[j]
      BY <3>2, <3>3, <3>4
    <3> HIDE DEF z, w
    <3>6. z = w
      BY <3>2, <3>5, SeqEqual
    <3> QED  BY <3>6 DEF z, w
  <2> QED  BY <1>3, <2>2, <2>3 DEF Value
<1> QED  BY <1>2, <1>3

(* An answer of the server says what it is meant to say.                   *)
LEMMA ReportType ==
  ASSUME NEW cmd \in Octet, NEW p \in Seq(Octet), cmd <= 12
  PROVE  /\ Report(cmd, p) \in Seq(Octet) /\ cmd + 100 \in Octet /\ cmd + 100 # IAC
<1>1. cmd + 100 \in Octet /\ cmd + 100 # IAC
  BY DEF Octet, IAC
<1> QED  BY <1>1, SubnegotiationType DEF Report

(* An end that turns into the reader Eat says has taken the byte.          *)
Turns(e, z) == /\ dec' = [dec EXCEPT ![e] = [at |-> z.at, sub |-> z.sub]]
               /\ out' = [out EXCEPT ![e] = z.out] /\ heard' = [heard EXCEPT ![e] = z.heard]
               /\ asked' = (IF e = "server" THEN z.asked ELSE asked)
               /\ told' = (IF e = "client" THEN z.told ELSE told)
StreamTypes == /\ chan \in [End -> Seq(Octet)]
               /\ dec \in [End -> [at : State, sub : Seq(Octet)]]
               /\ out \in [End -> Seq(Octet)]
               /\ heard \in [End -> [Side \X Option -> Status]]
               /\ asked \in Seq(Seq(Octet)) /\ told \in [Item -> Seq(Octet)]
StillTypes == /\ foreign \in End \cup {"none"}
              /\ requested \in BOOLEAN /\ asking \in BOOLEAN /\ invited \in BOOLEAN
              /\ table \in [End -> [Side \X Option -> Status]]
              /\ line \in [Item -> Seq(Octet)] /\ record \in [Pin -> Seq(Octet)]
              /\ driven \subseteq Pin
              /\ writes \in [End -> 0..MaxWrites] /\ odd \in 0..MaxForeign
              /\ fed \in [End -> Seq(Octet)]
LEMMA TypesNext == /\ TypeOK <=> StreamTypes /\ StillTypes
                   /\ TypeOK' <=> StreamTypes' /\ StillTypes'
<1>1. TypeOK <=> StreamTypes /\ StillTypes
  BY DEF TypeOK, StreamTypes, StillTypes, Octet, State, Status
<1> QED  BY <1>1, PTL
LEMMA Reading ==
  ASSUME TypeOK, NEW e \in End, chan[e] # <<>>, NEW m \in Seq(Octet), Post(e, m),
         Turns(e, Eat(e, Now(e), Byte(e)))
  PROVE  Takes(e, m) /\ StreamTypes'
<1> DEFINE z == Eat(e, Now(e), Byte(e))  o == Other(e)
<1>1. o \in End /\ o # e /\ (e = "server" <=> o = "client") /\ (e = "client" <=> o = "server")
  BY Ends
<1>2. Byte(e) \in Octet /\ Tail(chan[e]) \in Seq(Octet) /\ chan[o] \o m \in Seq(Octet)
  <2>1. chan[e] \in Seq(Octet) /\ chan[o] \in Seq(Octet)
    BY <1>1, Types
  <2> QED  BY <2>1, HeadTailProperties, ConcatProperties DEF Byte
<1>3. z \in Reader
  BY <1>2, NowType, EatType
<1> HIDE DEF z, o
<1>4. /\ dec' = [dec EXCEPT ![e] = [at |-> z.at, sub |-> z.sub]]
      /\ out' = [out EXCEPT ![e] = z.out] /\ heard' = [heard EXCEPT ![e] = z.heard]
      /\ asked' = (IF e = "server" THEN z.asked ELSE asked)
      /\ told' = (IF e = "client" THEN z.told ELSE told)
  BY DEF Turns, z
<1>5. /\ z.at \in State /\ z.sub \in Seq(Octet) /\ z.out \in Seq(Octet)
      /\ z.heard \in [Side \X Option -> Status] /\ z.asked \in Seq(Seq(Octet))
      /\ z.told \in [Item -> Seq(Octet)]
  BY <1>3 DEF Reader
<1>6. chan' \in [End -> Seq(Octet)]
  BY <1>1, <1>2, Types DEF Post, o
<1>7. StreamTypes'
  BY <1>4, <1>5, <1>6, Types DEF StreamTypes
<1>8. Same(Now(e)', z)
  <2>1. dec'[e].at = z.at /\ dec'[e].sub = z.sub /\ out'[e] = z.out /\ heard'[e] = z.heard
    BY <1>4, Types
  <2>2. /\ e # "server" => z.asked = <<>>
        /\ e # "client" => z.told = [i \in Item |-> <<>>]
    BY DEF z, Eat, Now
  <2> QED  BY <1>4, <2>1, <2>2 DEF Same, Now
<1>9. Now(o)' = Now(o)
  <2>1. dec'[o] = dec[o] /\ out'[o] = out[o] /\ heard'[o] = heard[o]
    BY <1>1, <1>4, Types
  <2> QED  BY <1>1, <1>4, <2>1 DEF Now
<1> QED  BY <1>7, <1>8, <1>9 DEF Takes, z, o

(* Bytes nothing is said about.                                            *)
LEMMA QuietBytes ==
  ASSUME TypeOK, NEW e \in End, Payload(e) \/ Command(e) \/ Collect(e)
  PROVE  /\ Takes(e, <<>>) /\ TypeOK'
         /\ UNCHANGED <<foreign, table, requested, asking, invited, line, record, driven, fed>>
         /\ heard' = heard
<1> DEFINE b == Byte(e)  s == Now(e)  z == Eat(e, s, b)
<1>1. /\ chan[e] # <<>> /\ Post(e, <<>>) /\ <<>> \in Seq(Octet)
      /\ UNCHANGED <<foreign, table, requested, asking, invited>>
      /\ UNCHANGED <<line, record, driven, writes, odd, fed, heard, asked, told>>
  BY EmptySeq DEF Payload, Command, Collect, At, Quietly, askVars, lineVars
<1>2. /\ s.at = dec[e].at /\ s.sub = Sub(e) /\ s.out = out[e] /\ s.heard = heard[e]
      /\ s.asked = (IF e = "server" THEN asked ELSE <<>>)
      /\ s.told = (IF e = "client" THEN told ELSE [i \in Item |-> <<>>])
  BY DEF Now, Sub
<1> HIDE DEF s, b
<1>3. s.at \in {"Data", "Iac", "SubNeg", "SubNegIac"} /\ ~(s.at = "SubNegIac" /\ b = SE)
  BY <1>2 DEF Payload, Command, Collect, At, b
<1>4. z.heard = heard[e] /\ z.asked = s.asked /\ z.told = s.told
  BY <1>2, <1>3 DEF Eat, Heard, Complete
<1>5. /\ dec' = [dec EXCEPT ![e] = [at |-> z.at, sub |-> z.sub]]
      /\ out' = [out EXCEPT ![e] = z.out]
  <2>0. IAC # SB /\ IAC # SE /\ AfterIac(IAC) = "Data"
    BY DEF IAC, SB, SE, WILL, WONT, DO, DONT, AfterIac
  <2>1. z.at = After(s.at, b) /\ z.sub = Kept(s, b)
        /\ z.out = IF IsData(s.at, b) THEN Append(s.out, b) ELSE s.out
    BY DEF Eat
  <2>2. out = [out EXCEPT ![e] = out[e]]
    BY Types
  <2> HIDE DEF z
  <2>3. CASE Payload(e)
    <3>1. IsData(s.at, b) /\ After(s.at, b) = "Data" /\ Kept(s, b) = s.sub
      BY <1>2, <2>0, <2>3 DEF Payload, At, b, IsData, After, Kept
    <3> QED  BY <1>2, <2>1, <2>3, <3>1 DEF Payload, To, b
  <2>4. CASE Command(e)
    <3>1. ~IsData(s.at, b) /\ out' = out
      BY <1>2, <2>0, <2>4 DEF Command, At, b, IsData
    <3>2. CASE s.at = "Data" /\ b = IAC /\ To(e, "Iac", Sub(e))
      <4>1. After(s.at, b) = "Iac" /\ Kept(s, b) = s.sub
        BY <2>0, <3>2 DEF After, Kept
      <4> QED  BY <1>2, <2>1, <2>2, <3>1, <3>2, <4>1 DEF To
    <3>3. CASE s.at = "Iac" /\ b # IAC /\ To(e, AfterIac(b), IF b = SB THEN <<>> ELSE Sub(e))
      <4>1. After(s.at, b) = AfterIac(b) /\ Kept(s, b) = IF b = SB THEN <<>> ELSE s.sub
        BY <2>0, <3>3 DEF After, Kept
      <4> QED  BY <1>2, <2>1, <2>2, <3>1, <3>3, <4>1 DEF To
    <3> QED  BY <1>2, <2>4, <3>2, <3>3 DEF Command, At, b
  <2>5. CASE Collect(e)
    <3>1. ~IsData(s.at, b) /\ out' = out
      BY <1>2, <2>0, <2>5 DEF Collect, At, b, IsData
    <3>2. CASE s.at = "SubNeg" /\ b = IAC /\ To(e, "SubNegIac", Sub(e))
      <4>1. After(s.at, b) = "SubNegIac" /\ Kept(s, b) = s.sub
        BY <2>0, <3>2 DEF After, Kept
      <4> QED  BY <1>2, <2>1, <2>2, <3>1, <3>2, <4>1 DEF To
    <3>3. CASE s.at = "SubNeg" /\ b # IAC /\ To(e, "SubNeg", Append(Sub(e), b))
      <4>1. After(s.at, b) = "SubNeg" /\ Kept(s, b) = Append(s.sub, b)
        BY <2>0, <3>3 DEF After, Kept
      <4> QED  BY <1>2, <2>1, <2>2, <3>1, <3>3, <4>1 DEF To
    <3>4. CASE s.at = "SubNegIac" /\ b # SE /\ To(e, "SubNeg", IF b = IAC THEN Append(Sub(e), IAC) ELSE Sub(e))
      <4>1. After(s.at, b) = "SubNeg" /\ Kept(s, b) = IF b = IAC THEN Append(s.sub, b) ELSE s.sub
        BY <2>0, <3>4 DEF After, Kept
      <4>2. (IF b = IAC THEN Append(s.sub, b) ELSE s.sub) = IF b = IAC THEN Append(Sub(e), IAC) ELSE Sub(e)
        BY <1>2
      <4> HIDE DEF Sub
      <4> QED  BY <2>1, <2>2, <3>1, <3>4, <4>1, <4>2, <1>2 DEF To
    <3> QED  BY <1>2, <2>5, <3>2, <3>3, <3>4 DEF Collect, At, b
  <2> QED  BY <2>3, <2>4, <2>5
<1>6. heard' = [heard EXCEPT ![e] = z.heard]
  <2> HIDE DEF z
  <2> QED  BY <1>1, <1>4, Types
<1>7. Turns(e, z)
  <2> HIDE DEF z
  <2> QED  BY <1>1, <1>2, <1>4, <1>5, <1>6 DEF Turns
<1>8. Takes(e, <<>>) /\ StreamTypes'
  BY <1>1, <1>7, Reading DEF z, s, b
<1>9. TypeOK'
  <2>1. StillTypes'
    BY <1>1, TypesNext DEF StillTypes
  <2> QED  BY <1>8, <2>1, TypesNext
<1> QED  BY <1>1, <1>8, <1>9

IInv == /\ TypeOK /\ StreamInv /\ VerbInv /\ AskInv /\ TellInv /\ LineInv /\ FirmInv

(* Nothing is said, and nothing changes but how far the ends have read.    *)
LEMMA SameStep ==
  ASSUME IInv, TypeOK', UNCHANGED <<foreign, table, requested, asking, invited, line, record, driven, fed>>,
         UNCHANGED heard,
         \A e \in End : Same(Ahead(e)', Ahead(e))
  PROVE  IInv'
<1>1. \A e \in End : Other(e) \in End
  BY Ends
<1>2. "client" \in End /\ "server" \in End
  BY Ends
<1>3. StreamInv'
  BY DEF IInv, StreamInv, Same
<1>4. VerbInv'
  BY <1>1 DEF IInv, VerbInv, Same, Ours
<1>5. AskInv'
  <2>1. Ahead("server")'.asked = Ahead("server").asked
    BY <1>2 DEF Same
  <2>2. Target' = Target
    BY DEF Target
  <2> QED  BY <2>1, <2>2 DEF IInv, AskInv, Ours
<1>6. TellInv'
  BY <1>2 DEF IInv, TellInv, Same, Fact, Known, Ours
<1>7. LineInv'
  BY DEF IInv, LineInv, Fact, Known
<1>8. FirmInv'
  BY DEF IInv, FirmInv, Same, Ours
<1> QED  BY <1>3, <1>4, <1>5, <1>6, <1>7, <1>8 DEF IInv

LEMMA QuietStep ==
  ASSUME IInv, NEW e \in End, Payload(e) \/ Command(e) \/ Collect(e)
  PROVE  IInv'
<1>1. /\ TypeOK /\ TypeOK' /\ Takes(e, <<>>)
      /\ UNCHANGED <<foreign, table, requested, asking, invited, line, record, driven, fed, heard>>
  BY QuietBytes DEF IInv
<1>2. /\ Same(Ahead(e)', Ahead(e))
      /\ Ahead(Other(e))' = Eaten(Other(e), Ahead(Other(e)), <<>>)
  BY <1>1, Taken
<1>3. Other(e) \in End /\ Ahead(Other(e)) \in Reader
  BY <1>1, Ends, NowType
<1>4. Ahead(Other(e))' = Ahead(Other(e))
  BY <1>2, <1>3, EatenEmpty
<1>5. \A p \in End : p = e \/ p = Other(e)
  BY Ends
<1>6. \A p \in End : Same(Ahead(p)', Ahead(p))
  BY <1>2, <1>4, <1>5 DEF Same
<1> QED  BY <1>1, <1>6, SameStep

(* What is sent to an end is read after the rest.                          *)
LEMMA Sending ==
  ASSUME TypeOK, NEW e \in End, NEW m \in Seq(Octet), chan' = [chan EXCEPT ![e] = @ \o m],
         UNCHANGED <<dec, out, heard, asked, told>>
  PROVE  /\ StreamTypes' /\ Ahead(e)' = Eaten(e, Ahead(e), m)
         /\ Ahead(Other(e))' = Ahead(Other(e))
<1>1. Other(e) \in End /\ Other(e) # e
  BY Ends
<1>2. Now(e) \in Reader /\ chan[e] \in Seq(Octet) /\ Now(e)' = Now(e) /\ Now(Other(e))' = Now(Other(e))
  BY NowType DEF Now
<1>3. chan'[e] = chan[e] \o m /\ chan'[Other(e)] = chan[Other(e)]
  BY <1>1, Types
<1>4. Ahead(e)' = Eaten(e, Ahead(e), m)
  <2>1. Ahead(e)' = Eaten(e, Now(e), chan[e] \o m)
    BY <1>2, <1>3 DEF Ahead
  <2> QED  BY <1>2, <2>1, EatenConcat DEF Ahead
<1>5. Ahead(Other(e))' = Ahead(Other(e))
  BY <1>2, <1>3 DEF Ahead
<1>6. chan' \in [End -> Seq(Octet)]
  BY <1>2, Types, ConcatProperties
<1>7. StreamTypes'
  BY <1>6, TypesNext DEF StreamTypes
<1> QED  BY <1>4, <1>5, <1>7

LEMMA WriteStep ==
  ASSUME IInv, NEW e \in End, WriteData(e)
  PROVE  IInv'
<1> DEFINE o == Other(e)
<1>0. /\ TypeOK /\ o \in End /\ o # e /\ Other(o) = e
      /\ \A p \in End : p = e \/ p = o
      /\ "client" \in End /\ "server" \in End
  BY Ends DEF IInv
<1> HIDE DEF o
<1>1. PICK t \in Text :
        /\ writes[e] < MaxWrites
        /\ writes' = [writes EXCEPT ![e] = @ + 1]
        /\ fed' = [fed EXCEPT ![e] = @ \o t]
        /\ chan' = [chan EXCEPT ![o] = @ \o Escape(t)]
        /\ UNCHANGED <<foreign, dec, table, requested, asking, invited>>
        /\ UNCHANGED <<line, record, driven, odd, out, heard, asked, told>>
  BY DEF WriteData, o, askVars, lineVars
<1>2. t \in Seq(Octet) /\ Escape(t) \in Seq(Octet)
  BY ConstantTypes, EscapeType
<1>3. /\ StreamTypes' /\ Ahead(o)' = Eaten(o, Ahead(o), Escape(t)) /\ Ahead(e)' = Ahead(e)
  BY <1>0, <1>1, <1>2, Sending
<1>4. TypeOK'
  <2>1. writes' \in [End -> 0..MaxWrites] /\ fed' \in [End -> Seq(Octet)]
    <3>1. writes[e] + 1 \in 0..MaxWrites
      <4>1. writes[e] \in 0..MaxWrites /\ MaxWrites \in Nat
        BY <1>0, Types, TelnetAssumption
      <4> QED  BY <1>1, <4>1
    <3>2. fed[e] \o t \in Seq(Octet)
      BY <1>0, <1>2, Types, ConcatProperties
    <3> QED  BY <1>0, <1>1, <3>1, <3>2, Types
  <2>2. StillTypes'
    BY <1>0, <1>1, <2>1, Types DEF StillTypes
  <2> QED  BY <1>3, <2>2, TypesNext
<1> DEFINE a == Ahead(o)
<1>5. a \in Reader /\ a.at = "Data" /\ a.out = fed[e]
  BY <1>0, NowType DEF IInv, StreamInv
<1>6. Ahead(o)' = With(a, a.out \o t)
  <2> HIDE DEF a
  <2> QED  BY <1>2, <1>3, <1>5, TextRead DEF a
<1>7. /\ Ahead(o)'.at = "Data" /\ Ahead(o)'.out = fed'[e]
      /\ Ahead(o)'.heard = a.heard /\ Ahead(o)'.asked = a.asked
      /\ Ahead(o)'.told = a.told /\ Ahead(o)'.firm = a.firm
  <2>1. fed'[e] = a.out \o t
    BY <1>0, <1>1, <1>5, Types
  <2> HIDE DEF a
  <2> QED  BY <1>5, <1>6, <2>1 DEF With, Reader
<1>8. \A p \in End : /\ Ahead(p)'.heard = Ahead(p).heard /\ Ahead(p)'.asked = Ahead(p).asked
                     /\ Ahead(p)'.told = Ahead(p).told /\ Ahead(p)'.firm = Ahead(p).firm
                     /\ Other(p) \in End
  BY <1>0, <1>3, <1>7, Ends
<1>9. StreamInv'
  <2>1. fed'[o] = fed[o]
    BY <1>0, <1>1, Types
  <2> QED  BY <1>0, <1>3, <1>7, <2>1 DEF IInv, StreamInv, o
<1>10. VerbInv'
  BY <1>1, <1>8 DEF IInv, VerbInv, Ours
<1>11. AskInv'
  <2>1. Target' = Target
    BY DEF Target
  <2> QED  BY <1>0, <1>1, <1>8, <2>1 DEF IInv, AskInv, Ours
<1>12. TellInv' /\ LineInv'
  <2>1. /\ UNCHANGED <<foreign, line, record, driven>>
        /\ Ahead("client")'.told = Ahead("client").told
    BY <1>0, <1>1, <1>8
  <2>2. TellInv'
    BY <2>1 DEF IInv, TellInv, Fact, Known, Ours
  <2>3. LineInv'
    BY <2>1 DEF IInv, LineInv, Fact, Known
  <2> QED  BY <2>2, <2>3
<1>13. FirmInv'
  BY <1>1, <1>8 DEF IInv, FirmInv, Ours
<1> QED  BY <1>4, <1>9, <1>10, <1>11, <1>12, <1>13 DEF IInv

(* A foreign message leaves the stream where it was.                       *)
LEMMA ForeignRead ==
  ASSUME NEW e, NEW s \in Reader, s.at = "Data", NEW f \in End, NEW m \in Foreign[f]
  PROVE  m \in Seq(Octet) /\ Eaten(e, s, m).at = "Data" /\ Eaten(e, s, m).out = s.out
<1> DEFINE r == With(s, <<>>)  o == s.out  u == Eaten(e, r, m)
<1>1. m \in Seq(Octet) /\ <<>> \in Seq(Octet) /\ o \in Seq(Octet)
  BY ConstantTypes DEF Reader
<1>2. r \in Reader /\ r.at = "Data" /\ r.out = <<>>
  BY <1>1 DEF With, Reader
<1>3. Like(r, s, o)
  <2>1. o \o <<>> = o
    BY <1>1, ConcatEmptySeq
  <2> QED  BY <2>1 DEF Like, With, Reader
<1>4. Like(u, Eaten(e, s, m), o)
  <2> HIDE DEF r, o
  <2> QED  BY <1>1, <1>2, <1>3, EatenLike
<1>5. u.at = "Data" /\ u.out = <<>>
  <2> DEFINE x == [at |-> "Data", data |-> <<>>]
  <2>1. Reads(x, m) = x
    BY ForeignAssumption
  <2>2. Reads([at |-> r.at, data |-> r.out], m) = [at |-> u.at, data |-> u.out]
    <3> HIDE DEF r
    <3> QED  BY <1>1, <1>2, ReadsEaten
  <2>3. [at |-> r.at, data |-> r.out] = x
    BY <1>2
  <2>4. [at |-> u.at, data |-> u.out] = x
    BY <2>1, <2>2, <2>3
  <2> DEFINE y == [at |-> u.at, data |-> u.out]
  <2>5. y.at = u.at /\ y.data = u.out /\ y.at = "Data" /\ y.data = <<>>
    BY <2>4
  <2> QED  BY <2>5
<1>6. o \o <<>> = o
  BY <1>1, ConcatEmptySeq
<1> HIDE DEF u, r
<1> QED  BY <1>1, <1>4, <1>5, <1>6 DEF Like

LEMMA ForeignStep == ASSUME IInv, ForeignSays PROVE IInv'
<1>0. foreign \in End
  BY Types DEF ForeignSays, IInv
<1> PICK f \in End : foreign = f
  BY <1>0
<1> DEFINE o == Other(f)
<1>1. /\ foreign = f /\ odd < MaxForeign /\ odd' = odd + 1
      /\ UNCHANGED <<foreign, dec, table, requested, asking, invited>>
      /\ UNCHANGED <<line, record, driven, writes, fed, out, heard, asked, told>>
      /\ TypeOK
  BY Types DEF ForeignSays, askVars, lineVars, IInv
<1>2. PICK m \in Foreign[f] : chan' = [chan EXCEPT ![o] = @ \o m]
  BY DEF ForeignSays
<1>3. /\ o \in End /\ o # f /\ Other(o) = f /\ \A e \in End : e = f \/ e = o
      /\ "server" \in End /\ "client" \in End
  BY <1>1, Ends
<1> DEFINE a == Ahead(o)
<1>4. a \in Reader /\ a.at = "Data" /\ a.out = fed[f]
  BY <1>1, <1>3, NowType DEF IInv, StreamInv
<1> HIDE DEF o
<1>5. m \in Seq(Octet) /\ Eaten(o, a, m).at = "Data" /\ Eaten(o, a, m).out = a.out
  <2> HIDE DEF a
  <2> QED  BY <1>1, <1>2, <1>4, ForeignRead
<1>6. StreamTypes' /\ Ahead(o)' = Eaten(o, Ahead(o), m) /\ Ahead(f)' = Ahead(f)
  BY <1>1, <1>2, <1>3, <1>5, Sending
<1>7. TypeOK'
  <2>1. odd' \in 0..MaxForeign
    <3>1. odd \in 0..MaxForeign /\ MaxForeign \in Nat
      BY <1>1, Types, TelnetAssumption
    <3> QED  BY <1>1, <3>1
  <2>2. StillTypes'
    BY <1>1, <2>1, Types DEF StillTypes
  <2> QED  BY <1>6, <2>2, TypesNext
<1>8. StreamInv'
  <2>1. Ahead(o)'.at = "Data" /\ Ahead(o)'.out = fed'[f]
    BY <1>1, <1>4, <1>5, <1>6
  <2>2. Ahead(f)'.at = "Data" /\ Ahead(f)'.out = fed'[o]
    BY <1>1, <1>3, <1>6, Ends DEF IInv, StreamInv
  <2>3. \A e \in End : (e = o /\ Other(e) = f) \/ (e = f /\ Other(e) = o)
    BY <1>3 DEF o
  <2> QED  BY <2>1, <2>2, <2>3 DEF StreamInv
<1>9. VerbInv'
  <2>1. ASSUME NEW e \in End, Ours(e)', NEW s \in Side, NEW p \in Option
        PROVE  Ahead(Other(e))'.heard[<<s, p>>] = table'[e][<<s, p>>]
    <3>1. Ours(e) /\ e = o /\ Other(e) = f
      BY <1>1, <1>3, <2>1 DEF Ours
    <3>2. Ahead(Other(e)).heard[<<s, p>>] = table[e][<<s, p>>]
      BY <3>1 DEF IInv, VerbInv
    <3> QED  BY <1>1, <1>6, <3>1, <3>2
  <2> QED  BY <2>1 DEF VerbInv
<1>10. AskInv'
  <2>1. Target' = Target
    BY DEF Target
  <2>2. Ours("client")' => Ours("client") /\ f = "server"
    BY <1>1 DEF Ours, End
  <2> QED  BY <1>1, <1>6, <2>1, <2>2 DEF IInv, AskInv
<1>11. TellInv' /\ LineInv'
  <2>1. Ours("server")' => Ours("server") /\ f = "client"
    BY <1>1 DEF Ours, End
  <2>2. Fact' = Fact
    BY <1>1 DEF Fact, Known
  <2>3. TellInv'
    BY <1>1, <1>6, <2>1, <2>2 DEF IInv, TellInv
  <2>4. LineInv'
    BY <1>1, <2>2 DEF IInv, LineInv
  <2> QED  BY <2>3, <2>4
<1>12. FirmInv'
  <2>1. f # "none" /\ foreign' = f
    BY <1>1 DEF End
  <2> QED  BY <1>1, <2>1 DEF IInv, FirmInv, Ours
<1> QED  BY <1>7, <1>8, <1>9, <1>10, <1>11, <1>12 DEF IInv

(* The settings are written, and complete what the server will have got.   *)
LEMMA AskStep == ASSUME IInv, Ask PROVE IInv'
<1>1. /\ asking /\ asking' = FALSE /\ TypeOK
      /\ chan' = [chan EXCEPT !["server"] = @ \o Requests]
      /\ UNCHANGED <<foreign, dec, table, requested, invited>>
      /\ UNCHANGED <<line, record, driven, writes, odd, fed, out, heard, asked, told>>
  BY DEF Ask, IInv, lineVars
<1>2. /\ "server" \in End /\ "client" \in End /\ Other("server") = "client"
      /\ Other("client") = "server" /\ End = {"client", "server"}
  BY Ends
<1> DEFINE a == Ahead("server")  r == Ahead("server")'
<1>3. a \in Reader /\ a.at = "Data" /\ a.out = fed["client"]
  BY <1>1, <1>2, NowType DEF IInv, StreamInv
<1>4. StreamTypes' /\ r = Eaten("server", a, Requests) /\ Ahead("client")' = Ahead("client")
  BY <1>1, <1>2, ConstantTypes, Sending
<1> HIDE DEF a, r
<1>5. Asks(a, r, Target) /\ Target \in Seq(Seq(Octet))
  BY <1>3, <1>4, RequestsRead
<1>6. TypeOK'
  <2>1. StillTypes'
    BY <1>1, Types DEF StillTypes
  <2> QED  BY <1>4, <2>1, TypesNext
<1>7. StreamInv'
  <2>1. r.at = "Data" /\ r.out = fed'["client"]
    BY <1>1, <1>3, <1>5 DEF Asks
  <2>2. Ahead("client")'.at = "Data" /\ Ahead("client")'.out = fed'["server"]
    BY <1>1, <1>2, <1>4 DEF IInv, StreamInv
  <2> QED  BY <1>2, <2>1, <2>2 DEF StreamInv, r
<1>8. VerbInv'
  <2>1. \A e \in End : Ahead(Other(e))'.heard = Ahead(Other(e)).heard
    BY <1>2, <1>4, <1>5 DEF Asks, a, r
  <2> QED  BY <1>1, <2>1 DEF IInv, VerbInv, Ours
<1>9. AskInv'
  <2>1. Target' = Target
    BY DEF Target
  <2>2. requested
    BY <1>1 DEF IInv, AskInv
  <2>3. ASSUME Ours("client") PROVE (invited <=> requested) /\ r.asked = Target
    <3>1. (invited <=> requested) /\ a.asked = <<>>
      BY <1>1, <2>3 DEF IInv, AskInv, a
    <3>2. <<>> \o Target = Target
      BY <1>5, ConcatEmptySeq
    <3> QED  BY <1>5, <3>1, <3>2 DEF Asks
  <2> QED  BY <1>1, <2>1, <2>2, <2>3 DEF AskInv, Ours, r
<1>10. TellInv' /\ LineInv'
  <2>1. Fact' = Fact
    BY <1>1 DEF Fact, Known
  <2>2. TellInv'
    BY <1>1, <1>4, <2>1 DEF IInv, TellInv, Ours
  <2>3. LineInv'
    BY <1>1, <2>1 DEF IInv, LineInv
  <2> QED  BY <2>2, <2>3
<1>11. FirmInv'
  <2>1. \A e \in End : Ahead(e).firm => Ahead(e)'.firm
    BY <1>2, <1>4, <1>5 DEF Asks, a, r
  <2> QED  BY <1>1, <2>1 DEF IInv, FirmInv, Ours
<1> QED  BY <1>6, <1>7, <1>8, <1>9, <1>10, <1>11 DEF IInv

(* A reply is heard as the state it announces.                             *)
Replied(r, a, side, o, agree, silent) ==
  /\ r \in Reader /\ r.at = "Data" /\ r.out = a.out /\ r.told = a.told /\ r.asked = a.asked
  /\ r.heard = IF silent THEN a.heard ELSE [a.heard EXCEPT ![<<side, o>>] = agree]
  /\ a.firm /\ ~(agree = "no" /\ o = COM_PORT) => r.firm
LEMMA ReplyRead ==
  ASSUME NEW p, NEW a \in Reader, a.at = "Data", NEW side \in Side, NEW agree \in {"yes", "no"},
         NEW o \in Octet, NEW silent \in BOOLEAN
  PROVE  LET reply == IF silent THEN <<>> ELSE <<IAC, Verb(side, agree), o>>
         IN reply \in Seq(Octet) /\ Replied(Eaten(p, a, reply), a, side, o, agree, silent)
<1>1. CASE silent
  <2>1. <<>> \in Seq(Octet) /\ Eaten(p, a, <<>>) = a
    BY EmptySeq, EatenEmpty
  <2> QED  BY <1>1, <2>1 DEF Replied
<1>2. CASE ~silent
  <2> DEFINE verb == Verb(side, agree)
  <2>1. /\ verb \in {WILL, WONT, DO, DONT} /\ <<IAC, verb, o>> \in Seq(Octet)
        /\ verb \in {WILL, WONT} <=> side = "us"
        /\ verb \in {WILL, DO} <=> agree = "yes"
    BY VerbType
  <2> HIDE DEF verb
  <2>2. Eaten(p, a, <<IAC, verb, o>>) = Said(a, verb, o) /\ Said(a, verb, o) \in Reader
    BY <2>1, VerbRead
  <2>3. verb \in {WONT, DONT} => agree = "no"
    <3>1. WILL # WONT /\ WILL # DONT /\ DO # WONT /\ DO # DONT
      BY DEF WILL, WONT, DO, DONT
    <3> QED  BY <2>1, <3>1
  <2>4. (IF verb \in {WILL, WONT} THEN "us" ELSE "them") = side
        /\ (IF verb \in {WILL, DO} THEN "yes" ELSE "no") = agree
    BY <2>1 DEF Side
  <2> DEFINE r == Said(a, verb, o)
  <2>5. /\ r.at = a.at /\ r.out = a.out /\ r.told = a.told /\ r.asked = a.asked
        /\ r.heard = [a.heard EXCEPT ![<<side, o>>] = agree]
        /\ r.firm = (a.firm /\ ~(verb \in {WONT, DONT} /\ o = COM_PORT))
    BY <2>4 DEF Said, Reader
  <2> HIDE DEF r
  <2>6. Replied(r, a, side, o, agree, silent)
    BY <1>2, <2>2, <2>3, <2>5 DEF Replied, r
  <2> QED  BY <1>2, <2>1, <2>2, <2>6 DEF verb, r
<1> QED  BY <1>1, <1>2

LEMMA NegotiateStep ==
  ASSUME IInv, NEW e \in End, Negotiate(e)
  PROVE  IInv'
<1> DEFINE o == Byte(e)
           p == Other(e)
           Side1(v) == IF v \in {"Will", "Wont"} THEN "them" ELSE "us"
           Agree1(v) == IF v \in {"Will", "Do"} /\ Accepts(Side1(v), o) THEN "yes" ELSE "no"
           Hears1(v) == IF v \in {"Will", "Do"} THEN "yes" ELSE "no"
           ours == Ours(e)
<1>1. PICK v \in {"Will", "Wont", "Do", "Dont"} :
        /\ At(e, v)
        /\ To(e, "Data", Sub(e))
        /\ table' = IF ours THEN [table EXCEPT ![e][<<Side1(v), o>>] = Agree1(v)] ELSE table
        /\ Post(e, IF ours THEN Answer(e, Side1(v), o, Agree1(v)) ELSE <<>>)
        /\ requested' = (requested \/ (ours /\ Agreed(e, Side1(v), o, Agree1(v))))
        /\ asking' = (asking \/ (ours /\ Agreed(e, Side1(v), o, Agree1(v))))
        /\ heard' = [heard EXCEPT ![e][<<IF Side1(v) = "us" THEN "them" ELSE "us", o>>] = Hears1(v)]
        /\ invited' = (invited \/ (e = "client" /\ v = "Do" /\ o = COM_PORT))
        /\ UNCHANGED <<foreign, line, record, driven, writes, odd, fed, out, asked, told>>
  BY DEF Negotiate, lineVars
<1> DEFINE side == Side1(v)
           agree == Agree1(v)
           hears == Hears1(v)
           back == IF side = "us" THEN "them" ELSE "us"
           asks == ours /\ Agreed(e, side, o, agree)
           invites == e = "client" /\ v = "Do" /\ o = COM_PORT
           silent == table[e][<<side, o>>] = agree
           reply == IF silent THEN <<>> ELSE <<IAC, Verb(side, agree), o>>
           m == IF ours THEN reply ELSE <<>>
<1>2. /\ TypeOK /\ p \in End /\ p # e /\ Other(p) = e /\ (e = "client" <=> p = "server")
      /\ \A x \in End : x = e \/ x = p
      /\ "client" \in End /\ "server" \in End
      /\ End = {"client", "server"}
  BY Ends DEF IInv
<1>3. /\ side \in Side /\ back \in Side /\ back # side /\ agree \in {"yes", "no"}
      /\ hears \in {"yes", "no"} /\ asks \in BOOLEAN /\ silent \in BOOLEAN /\ ours \in BOOLEAN
      /\ invites \in BOOLEAN
  BY <1>2, Types DEF Side, Agreed, Ours
<1>4. /\ chan[e] # <<>> /\ dec[e].at = v /\ dec' = [dec EXCEPT ![e] = [at |-> "Data", sub |-> Sub(e)]]
      /\ table' = (IF ours THEN [table EXCEPT ![e][<<side, o>>] = agree] ELSE table)
      /\ requested' = (requested \/ asks) /\ asking' = (asking \/ asks)
      /\ invited' = (invited \/ invites) /\ ~(e = "client" /\ asking)
      /\ Post(e, m)
      /\ heard' = [heard EXCEPT ![e][<<back, o>>] = hears]
      /\ UNCHANGED <<foreign, line, record, driven, writes, odd, fed, out, asked, told>>
  BY <1>1 DEF At, To, Answer
<1>5. /\ hears = IF v \in {"Will", "Do"} THEN "yes" ELSE "no"
      /\ back = IF v \in {"Will", "Wont"} THEN "us" ELSE "them"
      /\ agree = "yes" => hears = "yes"
      /\ o = COM_PORT => agree = hears
      /\ asks <=> ours /\ invites /\ ~requested
  <2>1. Accepts("us", COM_PORT) /\ Accepts("them", COM_PORT)
    BY DEF Accepts, Offered
  <2> QED  BY <2>1 DEF Side, Agreed
<1>6. o \in Octet
  <2>1. chan[e] \in Seq(Octet)
    BY <1>2, Types
  <2> QED  BY <1>4, <2>1, HeadTailProperties DEF Byte
<1> DEFINE a == Ahead(p)
<1>7. a \in Reader /\ a.at = "Data" /\ a.out = fed[e]
  BY <1>2, NowType DEF IInv, StreamInv
<1> HIDE DEF a
<1>8. reply \in Seq(Octet) /\ Replied(Eaten(p, a, reply), a, side, o, agree, silent)
  <2> HIDE DEF side, agree, o, silent
  <2> QED  BY <1>3, <1>6, <1>7, ReplyRead
<1> HIDE DEF side, agree, hears, back, asks, invites, silent, reply, o, p, ours
<1>9. m \in Seq(Octet)
  BY <1>8, EmptySeq
<1> DEFINE s == Now(e)  z == Eat(e, s, o)
<1>10. /\ z.at = "Data" /\ z.sub = Sub(e) /\ z.out = out[e]
       /\ z.heard = [heard[e] EXCEPT ![<<back, o>>] = hears]
       /\ z.asked = (IF e = "server" THEN asked ELSE <<>>)
       /\ z.told = (IF e = "client" THEN told ELSE [i \in Item |-> <<>>])
       /\ z.firm => ~(hears = "no" /\ o = COM_PORT)
  <2>1. /\ s.at = v /\ s.sub = Sub(e) /\ s.out = out[e] /\ s.heard = heard[e]
        /\ s.asked = (IF e = "server" THEN asked ELSE <<>>)
        /\ s.told = (IF e = "client" THEN told ELSE [i \in Item |-> <<>>])
    BY <1>4 DEF Now, Sub
  <2> HIDE DEF s
  <2>2. /\ After(s.at, o) = "Data" /\ Kept(s, o) = s.sub /\ ~IsData(s.at, o) /\ ~Complete(s, o)
        /\ Heard(s, o) = [s.heard EXCEPT ![<<back, o>>] = hears]
    BY <1>5, <2>1 DEF After, Kept, IsData, Complete, Heard
  <2> QED  BY <1>5, <2>1, <2>2 DEF Eat
<1>11. Turns(e, z)
  <2> HIDE DEF z
  <2>1. out' = [out EXCEPT ![e] = z.out] /\ heard' = [heard EXCEPT ![e] = z.heard]
    BY <1>2, <1>4, <1>10, Types
  <2> QED  BY <1>4, <1>10, <2>1 DEF Turns
<1>12. Takes(e, m) /\ StreamTypes'
  <2> HIDE DEF m
  <2> QED  BY <1>2, <1>4, <1>9, <1>11, Reading DEF z, s, o
<1>13. TypeOK'
  <2>1. table' \in [End -> [Side \X Option -> Status]]
    BY <1>2, <1>3, <1>4, Types DEF Status
  <2>2. StillTypes'
    BY <1>2, <1>3, <1>4, <2>1, Types DEF StillTypes
  <2> QED  BY <1>12, <2>2, TypesNext
<1>14. /\ Same(Ahead(e)', Ahead(e)) /\ Ahead(p)' = Eaten(p, a, m)
       /\ Ahead(e).firm => ~(hears = "no" /\ o = COM_PORT)
  <2> HIDE DEF m
  <2> QED  BY <1>2, <1>10, <1>12, <1>13, Taken DEF a, p, z, s, o
<1> HIDE DEF m, z, s
<1> DEFINE r == Ahead(p)'
<1>15. /\ r.at = "Data" /\ r.out = a.out /\ r.told = a.told /\ r.asked = a.asked
       /\ r.heard = (IF ~ours \/ silent THEN a.heard ELSE [a.heard EXCEPT ![<<side, o>>] = agree])
       /\ a.firm /\ ~(agree = "no" /\ o = COM_PORT) => r.firm
  <2>1. CASE ~ours
    <3>1. r = a
      BY <1>7, <1>14, <2>1, EatenEmpty DEF m
    <3> HIDE DEF r
    <3> QED  BY <1>7, <2>1, <3>1
  <2>2. CASE ours
    <3>1. r = Eaten(p, a, reply)
      BY <1>14, <2>2 DEF m
    <3> HIDE DEF r
    <3> QED  BY <1>8, <2>2, <3>1 DEF Replied
  <2> QED  BY <2>1, <2>2
<1> HIDE DEF r
<1>16. StreamInv'
  BY <1>2, <1>4, <1>7, <1>14, <1>15 DEF IInv, StreamInv, Same, r
<1>17. VerbInv'
  <2>1. ASSUME ours, NEW d \in Side, NEW x \in Option
        PROVE  r.heard[<<d, x>>] = table'[e][<<d, x>>]
    <3>1. a.heard[<<d, x>>] = table[e][<<d, x>>]
      BY <1>2, <2>1 DEF IInv, VerbInv, a, p, ours
    <3>2. a.heard \in [Side \X Option -> Status] /\ table[e] \in [Side \X Option -> Status]
      BY <1>2, <1>7, Types DEF Reader
    <3>3. table'[e] = [table[e] EXCEPT ![<<side, o>>] = agree]
      BY <1>2, <1>4, <2>1, Types
    <3>4. CASE <<d, x>> = <<side, o>>
      BY <1>15, <2>1, <3>1, <3>2, <3>3, <3>4 DEF silent
    <3>5. CASE <<d, x>> # <<side, o>>
      BY <1>15, <2>1, <3>1, <3>2, <3>3, <3>5
    <3> QED  BY <3>4, <3>5
  <2>2. ASSUME Ours(p), NEW d \in Side, NEW x \in Option
        PROVE  Ahead(e)'.heard[<<d, x>>] = table'[p][<<d, x>>]
    <3>1. Ahead(e).heard[<<d, x>>] = table[p][<<d, x>>]
      BY <1>2, <2>2 DEF IInv, VerbInv
    <3>2. table'[p] = table[p]
      BY <1>2, <1>4, Types
    <3> QED  BY <1>14, <3>1, <3>2 DEF Same
  <2>3. (ours <=> Ours(e)') /\ (Ours(p) <=> Ours(p)')
    BY <1>4 DEF Ours, ours
  <2>4. VerbInv' <=> \A x \in End, d \in Side, n \in Option :
                       Ours(x)' => Ahead(Other(x))'.heard[<<d, n>>] = table'[x][<<d, n>>]
    BY DEF VerbInv
  <2>5. Other(e) = p /\ Other(p) = e
    BY <1>2 DEF p
  <2> QED  BY <1>2, <2>1, <2>2, <2>3, <2>4, <2>5 DEF r
<1>18. AskInv'
  <2>1. Target' = Target
    BY DEF Target
  <2>2. asking' => requested'
    BY <1>4 DEF IInv, AskInv
  <2>3. ASSUME Ours("client")
        PROVE  /\ invited' <=> requested'
               /\ Ahead("server")'.asked = IF requested' /\ ~asking' THEN Target ELSE <<>>
    <3>1. /\ invited <=> requested
          /\ Ahead("server").asked = IF requested /\ ~asking THEN Target ELSE <<>>
          /\ asking => requested
      BY <2>3 DEF IInv, AskInv
    <3>2. CASE e = "server"
      <4>1. ~asks /\ ~invites
        BY <1>5, <3>2 DEF invites
      <4> QED  BY <1>4, <1>14, <3>1, <3>2, <4>1 DEF Same
    <3>3. CASE e = "client"
      <4>1. p = "server" /\ ours /\ ~asking
        BY <1>2, <1>4, <2>3, <3>3 DEF ours
      <4>2. a.asked = (IF requested THEN Target ELSE <<>>) /\ r.asked = a.asked
        BY <1>15, <3>1, <4>1 DEF a
      <4>3. r = Ahead("server")'
        BY <4>1 DEF r
      <4> QED  BY <1>4, <1>5, <3>1, <4>1, <4>2, <4>3
    <3> QED  BY <1>2, <3>2, <3>3
  <2>4. Ours("client")' <=> Ours("client")
    BY <1>4 DEF Ours
  <2> QED  BY <2>1, <2>2, <2>3, <2>4 DEF AskInv
<1>19. TellInv' /\ LineInv'
  <2>1. Ahead("client")'.told = Ahead("client").told
    BY <1>2, <1>14, <1>15 DEF Same, a, r
  <2>2. Fact' = Fact
    BY <1>4 DEF Fact, Known
  <2>3. TellInv'
    BY <1>4, <2>1, <2>2 DEF IInv, TellInv, Ours
  <2>4. LineInv'
    BY <1>4, <2>2 DEF IInv, LineInv
  <2> QED  BY <2>3, <2>4
<1>20. FirmInv'
  <2>0. /\ COM_PORT \in Option /\ <<"us", COM_PORT>> \in Side \X Option
        /\ <<"them", COM_PORT>> \in Side \X Option
    BY TelnetAssumption DEF Side
  <2>1. ASSUME Ours("server")
        PROVE  heard'["server"][<<"us", COM_PORT>>] = table'["server"][<<"them", COM_PORT>>]
    <3>1. heard["server"][<<"us", COM_PORT>>] = table["server"][<<"them", COM_PORT>>]
      BY <2>1 DEF IInv, FirmInv
    <3>2. CASE e = "client"
      BY <1>2, <1>4, <3>1, <3>2, Types
    <3>3. CASE e = "server"
      <4>1. /\ heard'[e] = [heard[e] EXCEPT ![<<back, o>>] = hears]
            /\ table'[e] = [table[e] EXCEPT ![<<side, o>>] = agree]
        BY <1>2, <1>4, <2>1, <3>3, Types DEF ours
      <4>2. heard[e] \in [Side \X Option -> Status] /\ table[e] \in [Side \X Option -> Status]
        BY <1>2, Types
      <4>3. CASE o = COM_PORT /\ back = "us"
        <5>1. side = "them" /\ agree = hears
          BY <1>3, <1>5, <4>3 DEF Side
        <5> QED  BY <2>0, <3>3, <4>1, <4>2, <4>3, <5>1
      <4>4. CASE ~(o = COM_PORT /\ back = "us")
        <5>1. <<back, o>> # <<"us", COM_PORT>> /\ <<side, o>> # <<"them", COM_PORT>>
          BY <1>3, <4>4 DEF Side
        <5> QED  BY <2>0, <3>1, <3>3, <4>1, <4>2, <5>1
      <4> QED  BY <4>3, <4>4
    <3> QED  BY <1>2, <3>2, <3>3
  <2>2. ASSUME foreign = "none" PROVE /\ heard'["client"][<<"them", COM_PORT>>] = "yes" => requested'
                              /\ table'["client"][<<"us", COM_PORT>>] = "yes"
                              /\ \A x \in End : Ahead(x)'.firm
    <3>1. /\ heard["client"][<<"them", COM_PORT>>] = "yes" => requested
          /\ table["client"][<<"us", COM_PORT>>] = "yes"
          /\ Ahead(e).firm /\ a.firm
      BY <1>2, <2>2 DEF IInv, FirmInv, a
    <3>2. o = COM_PORT => hears = "yes" /\ agree = "yes"
      BY <1>3, <1>5, <1>14, <3>1
    <3>3. \A x \in End : Ahead(x)'.firm
      <4>1. r.firm
        BY <1>15, <3>1, <3>2
      <4>2. Ahead(e)'.firm
        BY <1>14, <3>1 DEF Same
      <4> QED  BY <1>2, <4>1, <4>2 DEF r
    <3>4. CASE e = "server"
      BY <1>2, <1>4, <3>1, <3>3, <3>4, Types
    <3>5. CASE e = "client"
      <4>1. /\ heard'[e] = [heard[e] EXCEPT ![<<back, o>>] = hears]
            /\ table'[e] = [table[e] EXCEPT ![<<side, o>>] = agree] /\ ours
        BY <1>2, <1>4, <2>2, <3>5, Types DEF ours, Ours, End
      <4>2. heard[e] \in [Side \X Option -> Status] /\ table[e] \in [Side \X Option -> Status]
        BY <1>2, Types
      <4>3. table'["client"][<<"us", COM_PORT>>] = "yes"
        BY <2>0, <3>1, <3>2, <3>5, <4>1, <4>2
      <4>4. ASSUME heard'["client"][<<"them", COM_PORT>>] = "yes" PROVE requested'
        <5>1. CASE o = COM_PORT /\ back = "them"
          <6>1. side = "us"
            BY <1>3, <5>1 DEF Side
          <6>2. asks \/ requested
            BY <3>2, <3>5, <4>1, <5>1, <6>1 DEF asks, Agreed
          <6> QED  BY <1>4, <4>1, <6>2
        <5>2. CASE ~(o = COM_PORT /\ back = "them")
          <6>1. <<back, o>> # <<"them", COM_PORT>>
            BY <5>2
          <6>2. heard'[e][<<"them", COM_PORT>>] = heard[e][<<"them", COM_PORT>>]
            BY <2>0, <4>1, <4>2, <6>1
          <6>3. requested
            BY <3>1, <3>5, <4>4, <6>2
          <6> QED  BY <1>4, <6>3
        <5> QED  BY <5>1, <5>2
      <4> QED  BY <3>3, <4>3, <4>4
    <3> QED  BY <1>2, <3>4, <3>5
  <2>3. foreign' = foreign
    BY <1>4
  <2> QED  BY <2>1, <2>2, <2>3 DEF FirmInv, Ours
<1> QED  BY <1>13, <1>16, <1>17, <1>18, <1>19, <1>20 DEF IInv

(* The client takes an answer about an item for what the server then knows *)
(* of it.                                                                  *)
Answers(a, r) ==
  /\ r.at = "Data" /\ r.out = a.out /\ r.heard = a.heard /\ r.asked = a.asked
  /\ a.firm => r.firm
  /\ \/ r.told = a.told /\ Fact' = Fact
     \/ \E i \in Item : /\ r.told = [a.told EXCEPT ![i] = Fact'[i]]
                        /\ \A j \in Item : j # i => Fact'[j] = Fact[j]
Answered(m) == /\ Post("server", m) /\ m \in Seq(Octet)
               /\ \A a \in Reader : a.at = "Data" => Answers(a, Eaten("client", a, m))
LineType == line \in [Item -> Seq(Octet)] /\ record \in [Pin -> Seq(Octet)] /\ driven \subseteq Pin

LEMMA Groups == \A x \in 0..12 : Group(x) \in {0, 4, 7, 10} /\ <<5, Group(x)>> \in Item
<1> SUFFICES ASSUME NEW x \in 0..12 PROVE Group(x) \in {0, 4, 7, 10}
  BY DEF Item, Pin
<1>1. CASE x \in 0..3
  BY <1>1 DEF Group
<1>2. CASE x \in 4..6
  <2>1. x \notin 0..3
    BY <1>2
  <2> QED  BY <1>2, <2>1 DEF Group
<1>3. CASE x \in 7..9
  <2>1. x \notin 0..3 /\ x \notin 4..6
    BY <1>3
  <2> QED  BY <1>3, <2>1 DEF Group
<1>4. CASE x \in 10..12
  <2>1. x \notin 0..3 /\ x \notin 4..6 /\ x \notin 7..9
    BY <1>4
  <2> QED  BY <1>4, <2>1 DEF Group
<1> QED  BY <1>1, <1>2, <1>3, <1>4

(* An answer that is written is read, and noted.                           *)
LEMMA AnswerRead ==
  ASSUME NEW cmd \in Octet, cmd <= 12, NEW p \in Seq(Octet), NEW a \in Reader, a.at = "Data"
  PROVE  LET r == Eaten("client", a, Report(cmd, p))
         IN  /\ Report(cmd, p) \in Seq(Octet)
             /\ r.at = "Data" /\ r.out = a.out /\ r.heard = a.heard /\ r.asked = a.asked
             /\ r.firm = a.firm /\ r.told = Noted(a.told, cmd + 100, p)
<1>1. /\ Report(cmd, p) \in Seq(Octet) /\ cmd + 100 \in Octet /\ cmd + 100 # IAC
      /\ Report(cmd, p) = Subnegotiation(cmd + 100, p)
  BY ReportType DEF Report
<1> DEFINE r == Handled("client", a, cmd + 100, p)
<1>2. Eaten("client", a, Report(cmd, p)) = r
  BY <1>1, SubnegotiationRead
<1>3. /\ r.at = "Data" /\ r.out = a.out /\ r.heard = a.heard /\ r.asked = a.asked
      /\ r.firm = a.firm /\ r.told = Noted(a.told, cmd + 100, p)
  BY DEF Handled, Reader
<1> HIDE DEF r
<1> QED  BY <1>1, <1>2, <1>3

LEMMA SetAnswers ==
  ASSUME TypeOK, LineInv, NEW i \in Item, NEW p \in Seq(Octet), NEW works \in BOOLEAN,
         Set(i, p, works),
         i[1] = 5 => p # <<>> /\ p[1] \in 0..12 /\ i[2] = Group(p[1])
  PROVE  /\ LineType' /\ LineInv'
         /\ \E m : Answered(m)
<1> DEFINE v == Known(line', record', i)  takes == IsValue(i, p) /\ works
<1>1. LineType /\ Pin \subseteq Item
  BY Types DEF LineType, Item
<1>2. IsValue(i, p) => Value(i, p) \in Seq(Octet)
  BY ValueType
<1>3. /\ LineType'
      /\ \A j \in Item : j # i => line'[j] = line[j]
      /\ \A j \in Pin : j # i => record'[j] = record[j]
      /\ takes => line'[i] = Value(i, p) /\ (i \in Pin => record'[i] = Value(i, p))
      /\ ~takes => UNCHANGED <<line, record, driven>>
      /\ driven \subseteq driven' /\ driven' \subseteq driven \cup {i}
  <2>1. CASE takes
    <3>1. /\ line' = [line EXCEPT ![i] = Value(i, p)]
          /\ record' = (IF i \in Pin THEN [record EXCEPT ![i] = Value(i, p)] ELSE record)
          /\ driven' = driven \cup ({i} \cap Pin)
      BY <2>1 DEF Set, Change
    <3>2. Value(i, p) \in Seq(Octet)
      BY <1>2, <2>1
    <3>3. LineType'
      BY <1>1, <3>1, <3>2 DEF LineType
    <3> QED  BY <1>1, <2>1, <3>1, <3>3 DEF LineType
  <2>2. CASE ~takes
    BY <1>1, <2>2 DEF Set, lineVars, LineType
  <2> QED  BY <2>1, <2>2
<1> HIDE DEF takes
<1>10. /\ Fact \in [Item -> Seq(Octet)] /\ Fact' \in [Item -> Seq(Octet)] /\ Fact'[i] = v
       /\ \A j \in Item : j # i => Fact'[j] = Fact[j]
       /\ takes => v = Value(i, p)
       /\ ~takes => Fact' = Fact
  <2>1. \A j \in Item : /\ Fact[j] = (IF j \in Pin THEN record[j] ELSE line[j])
                        /\ Fact'[j] = (IF j \in Pin THEN record'[j] ELSE line'[j])
    BY DEF Fact, Known
  <2>2. Fact = [j \in Item |-> Fact[j]] /\ Fact' = [j \in Item |-> Fact'[j]]
    BY DEF Fact
  <2>3. v = IF i \in Pin THEN record'[i] ELSE line'[i]
    BY DEF Known
  <2> HIDE DEF v
  <2>4. \A j \in Item : Fact[j] \in Seq(Octet) /\ Fact'[j] \in Seq(Octet)
    BY <1>1, <1>3, <2>1 DEF LineType
  <2>5. ~takes => Fact' = Fact
    BY <1>3 DEF Fact, Known
  <2> QED  BY <1>3, <2>1, <2>2, <2>3, <2>4, <2>5
<1>4. LineInv'
  <2>1. ASSUME NEW g \in {0, 4, 7, 10}
        PROVE  \E x \in 0..12 : Fact'[<<5, g>>] = <<x>> /\ Group(x) = g
    <3>1. <<5, g>> \in Item
      BY DEF Item, Pin
    <3>2. \E x \in 0..12 : Fact[<<5, g>>] = <<x>> /\ Group(x) = g
      BY DEF LineInv
    <3>3. CASE <<5, g>> = i /\ takes
      <4>1. i[1] = 5 /\ i[2] = g
        BY <3>3
      <4>2. Value(i, p) = <<p[1]>> /\ p[1] \in 0..12 /\ Group(p[1]) = g
        BY <3>3, <4>1, ValueType DEF takes
      <4>3. Fact'[<<5, g>>] = Value(i, p)
        BY <1>10, <3>3
      <4> QED  BY <4>2, <4>3
    <3>4. CASE ~(<<5, g>> = i /\ takes)
      <4>1. Fact'[<<5, g>>] = Fact[<<5, g>>]
        BY <1>10, <3>1, <3>4
      <4> QED  BY <3>2, <4>1
    <3> QED  BY <3>3, <3>4
  <2>2. ASSUME NEW j \in driven' PROVE record'[j] = line'[j]
    <3>1. j \in Pin /\ j \in Item
      BY <1>1, <1>3 DEF LineType
    <3>2. j \in driven => record[j] = line[j]
      BY DEF LineInv
    <3>3. CASE j = i /\ takes
      BY <1>3, <3>1, <3>3
    <3>4. CASE j = i /\ ~takes
      BY <1>3, <2>2, <3>2, <3>4
    <3>5. CASE j # i
      <4>1. j \in driven
        BY <1>3, <2>2, <3>5
      <4> QED  BY <1>3, <3>1, <3>2, <3>5, <4>1
    <3> QED  BY <3>3, <3>4, <3>5
  <2> QED  BY <2>1, <2>2 DEF LineInv
<1>5. v \in Seq(Octet) /\ i[1] \in 1..5 /\ i[1] \in Octet /\ i[1] <= 12
  <2>1. i[1] \in 1..5
    BY DEF Item, Pin
  <2> QED  BY <1>10, <2>1 DEF Octet
<1>6. \A old : Noted(old, i[1] + 100, v) = [old EXCEPT ![i] = v]
  <2>1. CASE i[1] \in 1..4
    <3>1. i = <<i[1], 0>>
      BY <2>1 DEF Item, Pin
    <3>2. i[1] + 100 \in 101..104 /\ (i[1] + 100) - 100 = i[1]
      BY <2>1
    <3> QED  BY <3>1, <3>2 DEF Noted
  <2>2. CASE i[1] = 5
    <3>1. i = <<5, i[2]>> /\ i[2] \in {0, 4, 7, 10}
      BY <2>2 DEF Item, Pin
    <3>2. PICK x \in 0..12 : v = <<x>> /\ Group(x) = i[2]
      <4>1. \E x \in 0..12 : Fact'[<<5, i[2]>>] = <<x>> /\ Group(x) = i[2]
        BY <1>4, <3>1 DEF LineInv
      <4> HIDE DEF v
      <4> QED  BY <1>10, <3>1, <4>1
    <3>3. v # <<>> /\ v[1] = x
      BY <3>2
    <3>4. i[1] + 100 = 105 /\ ~(i[1] + 100 \in 101..104)
      BY <2>2
    <3> HIDE DEF v
    <3> QED  BY <3>1, <3>2, <3>3, <3>4 DEF Noted
  <2> QED  BY <1>5, <2>1, <2>2
<1> DEFINE m == Report(i[1], v)
<1>7. Post("server", m)
  BY DEF Set
<1>8. m \in Seq(Octet)
  BY <1>5, ReportType
<1>9. ASSUME NEW a \in Reader, a.at = "Data" PROVE Answers(a, Eaten("client", a, m))
  <2> DEFINE r == Eaten("client", a, m)
  <2>1. /\ r.at = "Data" /\ r.out = a.out /\ r.heard = a.heard /\ r.asked = a.asked
        /\ r.firm = a.firm /\ r.told = Noted(a.told, i[1] + 100, v)
    <3> HIDE DEF v
    <3> QED  BY <1>5, <1>9, AnswerRead
  <2> HIDE DEF r, m
  <2> HIDE DEF v
  <2>2. r.told = [a.told EXCEPT ![i] = Fact'[i]]
    BY <1>6, <1>10, <2>1
  <2> QED  BY <1>10, <2>1, <2>2 DEF Answers, r
<1> HIDE DEF m
<1> QED  BY <1>3, <1>4, <1>7, <1>8, <1>9 DEF Answered

(* The other answers are about no item.                                    *)
LEMMA PlainAnswers ==
  ASSUME TypeOK, LineInv, NEW cmd \in Octet, NEW p \in Seq(Octet), cmd \notin 1..4,
         ~(cmd = 5 /\ p # <<>> /\ p[1] \in 0..12), UNCHANGED <<line, record, driven>>,
         Post("server", Plain(cmd, p))
  PROVE  /\ LineType' /\ LineInv'
         /\ \E m : Answered(m)
<1>1. LineType' /\ LineInv' /\ Fact' = Fact
  <2>1. LineType' /\ Fact' = Fact
    BY Types DEF LineType, Fact, Known
  <2> QED  BY <2>1 DEF LineInv
<1>2. Plain(cmd, p) = <<>> \/ \E q \in Seq(Octet) :
        /\ Plain(cmd, p) = Report(cmd, q) /\ cmd <= 12
        /\ cmd = 5 => q # <<>> /\ q[1] \notin 0..12
  <2>1. /\ <<>> \in Seq(Octet) /\ \A x \in Octet : <<x>> \in Seq(Octet) /\ <<x>> # <<>> /\ <<x>>[1] = x
        /\ p # <<>> => p[1] \in Octet
    <3>1. p # <<>> => 1 \in 1..Len(p)
      BY EmptySeq, LenProperties
    <3> QED  BY <3>1, EmptySeq, ElementOfSeq
  <2>2. First(p, 0) \in Seq(Octet) /\ First(p, 255) \in Seq(Octet) /\ First(p, 3) \in Seq(Octet)
        /\ <<115>> \in Seq(Octet)
    <3>1. 0 \in Octet /\ 3 \in Octet /\ 115 \in Octet /\ 255 \in Octet
      BY DEF Octet
    <3> QED  BY <2>1, <3>1 DEF First
  <2> DEFINE Goal == Plain(cmd, p) = <<>> \/ \E q \in Seq(Octet) :
                       /\ Plain(cmd, p) = Report(cmd, q) /\ cmd <= 12
                       /\ cmd = 5 => q # <<>> /\ q[1] \notin 0..12
  <2>10. ASSUME NEW q \in Seq(Octet), Plain(cmd, p) = Report(cmd, q), cmd <= 12, cmd # 5
         PROVE  Goal
    BY <2>10
  <2> SUFFICES Goal
    OBVIOUS
  <2> HIDE DEF Goal
  <2>3. CASE cmd = 0
    <3>1. Plain(cmd, p) = IF p = <<>> THEN Report(cmd, <<115>>) ELSE <<>>
      BY <2>3 DEF Plain
    <3>2. cmd <= 12 /\ cmd # 5
      BY <2>3
    <3>3. Plain(cmd, p) = <<>> => Goal
      BY DEF Goal
    <3> QED  BY <2>2, <2>10, <3>1, <3>2, <3>3
  <2>4. CASE cmd = 5
    <3>1. Plain(cmd, p) = IF p # <<>> THEN Report(cmd, <<p[1]>>) ELSE <<>>
      BY <2>4 DEF Plain
    <3>2. CASE p = <<>>
      BY <3>1, <3>2 DEF Goal
    <3>3. CASE p # <<>>
      <4> DEFINE q == <<p[1]>>
      <4>1. q \in Seq(Octet) /\ q # <<>> /\ q[1] \notin 0..12 /\ Plain(cmd, p) = Report(cmd, q)
        BY <2>1, <2>4, <3>1, <3>3
      <4>2. cmd <= 12
        BY <2>4
      <4> HIDE DEF q
      <4> QED  BY <4>1, <4>2 DEF Goal
    <3> QED  BY <3>2, <3>3
  <2>5. CASE cmd \in {8, 9}
    <3>1. Plain(cmd, p) = Report(cmd, <<>>)
      BY <2>5 DEF Plain
    <3>2. cmd <= 12 /\ cmd # 5
      BY <2>5
    <3> QED  BY <2>1, <2>10, <3>1, <3>2
  <2>6. CASE cmd = 10
    <3>1. Plain(cmd, p) = Report(cmd, First(p, 0))
      BY <2>6 DEF Plain
    <3>2. cmd <= 12 /\ cmd # 5
      BY <2>6
    <3> QED  BY <2>2, <2>10, <3>1, <3>2
  <2>7. CASE cmd = 11
    <3>1. Plain(cmd, p) = Report(cmd, First(p, 255))
      BY <2>7 DEF Plain
    <3>2. cmd <= 12 /\ cmd # 5
      BY <2>7
    <3> QED  BY <2>2, <2>10, <3>1, <3>2
  <2>8. CASE cmd = 12
    <3>1. Plain(cmd, p) = Report(cmd, First(p, 3))
      BY <2>8 DEF Plain
    <3>2. cmd <= 12 /\ cmd # 5
      BY <2>8
    <3> QED  BY <2>2, <2>10, <3>1, <3>2
  <2>9. CASE cmd \notin {0, 5, 8, 9, 10, 11, 12}
    BY <2>9 DEF Plain, Goal
  <2> QED  BY <2>3, <2>4, <2>5, <2>6, <2>7, <2>8, <2>9
<1> DEFINE m == Plain(cmd, p)
<1>3. m \in Seq(Octet) /\ \A a \in Reader : a.at = "Data" => Answers(a, Eaten("client", a, m))
  <2>1. CASE m = <<>>
    <3>1. \A a \in Reader : Eaten("client", a, <<>>) = a
      BY EatenEmpty
    <3> QED  BY <1>1, <2>1, <3>1, EmptySeq DEF Answers
  <2>2. CASE m # <<>>
    <3>1. PICK q \in Seq(Octet) : /\ m = Report(cmd, q) /\ cmd <= 12
                                  /\ cmd = 5 => q # <<>> /\ q[1] \notin 0..12
      BY <1>2, <2>2
    <3> HIDE DEF m
    <3>2. \A old : Noted(old, cmd + 100, q) = old
      <4>1. cmd + 100 \notin 101..104 /\ (cmd + 100 = 105 => q[1] \notin 0..12)
        BY <3>1 DEF Octet
      <4> QED  BY <4>1 DEF Noted
    <3>3. ASSUME NEW a \in Reader, a.at = "Data" PROVE Answers(a, Eaten("client", a, m))
      <4> DEFINE r == Eaten("client", a, m)
      <4>1. /\ r.at = "Data" /\ r.out = a.out /\ r.heard = a.heard /\ r.asked = a.asked
            /\ r.firm = a.firm /\ r.told = Noted(a.told, cmd + 100, q)
        BY <3>1, <3>3, AnswerRead
      <4> HIDE DEF r
      <4> QED  BY <1>1, <3>2, <4>1 DEF Answers, r
    <3> QED  BY <3>1, <3>3, ReportType
  <2> QED  BY <2>1, <2>2
<1> HIDE DEF m
<1>4. Post("server", m)
  BY DEF m
<1> QED  BY <1>1, <1>3, <1>4 DEF Answered

(* The end of a subnegotiation turns a reader into what Eat says.          *)
LEMMA DispatchTurns ==
  ASSUME TypeOK, NEW e \in End, Dispatch(e)
  PROVE  /\ Turns(e, Eat(e, Now(e), Byte(e)))
         /\ chan[e] # <<>>
         /\ UNCHANGED <<foreign, table, requested, asking, invited, writes, odd, fed, heard>>
         /\ \/ Post(e, <<>>) /\ UNCHANGED <<line, record, driven>>
            \/ /\ e = "server" /\ Ours("server")
               /\ \E cmd \in Octet, p \in Seq(Octet) : Serve(cmd, p)
<1> DEFINE b == Byte(e)  s == Now(e)  z == Eat(e, s, b)  q == Sub(e)
           cmd == q[2]  p == SubSeq(q, 3, Len(q))
<1>1. /\ chan[e] # <<>> /\ dec[e].at = "SubNegIac" /\ b = SE
      /\ dec' = [dec EXCEPT ![e] = [at |-> "Data", sub |-> <<>>]]
      /\ UNCHANGED <<foreign, table, requested, asking, invited, writes, odd, fed, out, heard>>
      /\ \/ /\ Len(q) >= 2 /\ q[1] = COM_PORT
            /\ \/ e = "server" /\ ServerGets(cmd, p)
               \/ e = "client" /\ ClientGets(cmd, p)
         \/ /\ ~(Len(q) >= 2 /\ q[1] = COM_PORT)
            /\ Post(e, <<>>) /\ UNCHANGED <<line, record, driven, asked, told>>
  BY DEF Dispatch, At, To, askVars, lineVars
<1>2. /\ s.at = "SubNegIac" /\ s.sub = q /\ s.out = out[e] /\ s.heard = heard[e]
      /\ s.asked = (IF e = "server" THEN asked ELSE <<>>)
      /\ s.told = (IF e = "client" THEN told ELSE [i \in Item |-> <<>>])
  BY <1>1 DEF Now, Sub
<1>3. q \in Seq(Octet)
  BY Types DEF Sub
<1> HIDE DEF s, b, q
<1>4. /\ z.at = "Data" /\ z.sub = <<>> /\ z.out = out[e] /\ z.heard = heard[e]
      /\ Complete(s, b) <=> Len(q) >= 2 /\ q[1] = COM_PORT
      /\ Rest(s) = p
      /\ z.asked = (IF e = "server" /\ Complete(s, b) THEN Append(s.asked, <<cmd>> \o p) ELSE s.asked)
      /\ z.told = (IF e = "client" /\ Complete(s, b) THEN Noted(s.told, cmd, p) ELSE s.told)
  <2>1. After(s.at, b) = "Data" /\ Kept(s, b) = <<>> /\ ~IsData(s.at, b) /\ Heard(s, b) = s.heard
    BY <1>1, <1>2 DEF After, Kept, IsData, Heard
  <2>2. /\ Complete(s, b) <=> Len(q) >= 2 /\ q[1] = COM_PORT
        /\ Rest(s) = p
    BY <1>1, <1>2 DEF Complete, Rest
  <2> QED  BY <1>2, <2>1, <2>2 DEF Eat
<1>5. out' = [out EXCEPT ![e] = z.out] /\ heard' = [heard EXCEPT ![e] = z.heard]
  <2> HIDE DEF z
  <2> QED  BY <1>1, <1>4, Types
<1>6. e = "client" \/ e = "server"
  BY DEF End
<1> HIDE DEF z
<1>7. CASE ~Complete(s, b)
  BY <1>1, <1>2, <1>4, <1>5, <1>7 DEF Turns, z, s, b
<1>8. CASE Complete(s, b) /\ e = "client"
  <2>1. ClientGets(cmd, p)
    BY <1>1, <1>4, <1>8
  <2>2. told' = Noted(told, cmd, p) /\ asked' = asked /\ Post(e, <<>>)
       /\ UNCHANGED <<line, record, driven>>
    <3> HIDE DEF cmd, p
    <3> QED  BY <1>8, <2>1 DEF ClientGets, Noted, lineVars
  <2> QED  BY <1>1, <1>2, <1>4, <1>5, <1>8, <2>2 DEF Turns, z, s, b
<1>9. CASE Complete(s, b) /\ e = "server"
  <2>1. ServerGets(cmd, p)
    BY <1>1, <1>4, <1>9
  <2>2. cmd \in Octet /\ p \in Seq(Octet)
    BY <1>3, <1>4, <1>9, RestIsOctets
  <2>3. asked' = Append(asked, <<cmd>> \o p) /\ told' = told
    BY <2>1 DEF ServerGets
  <2>4. Turns(e, z)
    BY <1>1, <1>2, <1>4, <1>5, <1>9, <2>3 DEF Turns
  <2> HIDE DEF cmd, p
  <2>5. \/ Post(e, <<>>) /\ UNCHANGED <<line, record, driven>>
        \/ Ours("server") /\ Serve(cmd, p)
    BY <1>9, <2>1 DEF ServerGets, lineVars
  <2> QED  BY <1>1, <1>9, <2>2, <2>4, <2>5 DEF z, s, b
<1> QED  BY <1>6, <1>7, <1>8, <1>9

LEMMA ServerAnswers ==
  ASSUME TypeOK, LineInv, NEW cmd \in Octet, NEW p \in Seq(Octet), Serve(cmd, p)
  PROVE  /\ LineType' /\ LineInv'
         /\ \E m : Answered(m)
<1>1. CASE cmd \in 1..4 /\ \E works \in BOOLEAN : Set(<<cmd, 0>>, p, works)
  <2> DEFINE i == <<cmd, 0>>
  <2>1. i \in Item /\ i[1] # 5
    BY <1>1 DEF Item, Pin
  <2>2. PICK works \in BOOLEAN : Set(i, p, works)
    BY <1>1
  <2> HIDE DEF i
  <2> QED  BY <2>1, <2>2, SetAnswers
<1>2. CASE /\ cmd = 5 /\ p # <<>> /\ p[1] \in 0..12
           /\ \E works \in BOOLEAN : Set(<<5, Group(p[1])>>, p, works)
  <2> DEFINE i == <<5, Group(p[1])>>
  <2>1. i \in Item /\ i[2] = Group(p[1])
    BY <1>2, Groups
  <2>2. PICK works \in BOOLEAN : Set(i, p, works)
    BY <1>2
  <2> HIDE DEF i
  <2> QED  BY <1>2, <2>1, <2>2, SetAnswers
<1>3. CASE /\ cmd \notin 1..4 /\ ~(cmd = 5 /\ p # <<>> /\ p[1] \in 0..12)
           /\ UNCHANGED <<line, record, driven>> /\ Post("server", Plain(cmd, p))
  BY <1>3, PlainAnswers
<1> QED  BY <1>1, <1>2, <1>3 DEF Serve, lineVars

LEMMA DispatchStep ==
  ASSUME IInv, NEW e \in End, Dispatch(e)
  PROVE  IInv'
<1>1. /\ Turns(e, Eat(e, Now(e), Byte(e))) /\ chan[e] # <<>>
      /\ UNCHANGED <<foreign, table, requested, asking, invited, writes, odd, fed, heard>>
      /\ \/ Post(e, <<>>) /\ UNCHANGED <<line, record, driven>>
         \/ /\ e = "server" /\ Ours("server")
            /\ \E cmd \in Octet, p \in Seq(Octet) : Serve(cmd, p)
  BY DispatchTurns DEF IInv
<1>2. TypeOK /\ \A x \in End : x = e \/ x = Other(e)
  BY Ends DEF IInv
<1>3. CASE Post(e, <<>>) /\ UNCHANGED <<line, record, driven>>
  <2>1. Takes(e, <<>>) /\ StreamTypes'
    BY <1>1, <1>2, <1>3, EmptySeq, Reading
  <2>2. TypeOK'
    <3>1. StillTypes'
      BY <1>1, <1>2, <1>3, Types DEF StillTypes
    <3> QED  BY <2>1, <3>1, TypesNext
  <2>3. /\ Same(Ahead(e)', Ahead(e))
        /\ Ahead(Other(e))' = Eaten(Other(e), Ahead(Other(e)), <<>>)
    BY <1>2, <2>1, <2>2, Taken
  <2>4. Ahead(Other(e))' = Ahead(Other(e))
    <3>1. Other(e) \in End
      BY Ends
    <3> QED  BY <1>2, <2>3, <3>1, NowType, EatenEmpty
  <2>5. \A x \in End : Same(Ahead(x)', Ahead(x))
    BY <1>2, <2>3, <2>4 DEF Same
  <2> QED  BY <1>1, <1>3, <2>2, <2>5, SameStep
<1>4. CASE /\ e = "server" /\ Ours("server")
           /\ \E cmd \in Octet, p \in Seq(Octet) : Serve(cmd, p)
  <2>1. PICK cmd \in Octet, p \in Seq(Octet) : Serve(cmd, p)
    BY <1>4
  <2>2. LineType' /\ LineInv' /\ \E m : Answered(m)
    BY <1>2, <2>1, ServerAnswers DEF IInv
  <2>3. PICK m : Answered(m)
    BY <2>2
  <2>4. /\ Post("server", m) /\ m \in Seq(Octet)
        /\ \A a \in Reader : a.at = "Data" => Answers(a, Eaten("client", a, m))
    BY <2>3 DEF Answered
  <2>5. Takes("server", m) /\ StreamTypes'
    BY <1>1, <1>2, <1>4, <2>4, Reading
  <2>6. TypeOK'
    <3>1. StillTypes'
      BY <1>1, <1>2, <2>2, Types DEF StillTypes, LineType
    <3> QED  BY <2>5, <3>1, TypesNext
  <2>7. /\ "server" \in End /\ "client" \in End /\ Other("server") = "client"
        /\ Other("client") = "server" /\ End = {"client", "server"}
    BY Ends
  <2>8. /\ Same(Ahead("server")', Ahead("server"))
        /\ Ahead("client")' = Eaten("client", Ahead("client"), m)
    BY <1>2, <2>5, <2>6, <2>7, Taken
  <2> DEFINE a == Ahead("client")  r == Ahead("client")'
  <2>9. a \in Reader /\ a.at = "Data" /\ a.out = fed["server"]
    BY <1>2, <2>7, NowType DEF IInv, StreamInv
  <2>10. Answers(a, r)
    <3> HIDE DEF a
    <3> QED  BY <2>4, <2>8, <2>9 DEF a
  <2> HIDE DEF a, r
  <2>11. StreamInv'
    <3>1. r.at = "Data" /\ r.out = fed'["server"]
      BY <1>1, <2>9, <2>10 DEF Answers
    <3>2. Ahead("server")'.at = "Data" /\ Ahead("server")'.out = fed'["client"]
      BY <1>1, <2>7, <2>8 DEF IInv, StreamInv, Same
    <3> QED  BY <2>7, <3>1, <3>2 DEF StreamInv, r
  <2>12. VerbInv'
    <3>1. r.heard = a.heard
      BY <2>10 DEF Answers
    <3>2. \A x \in End : Ahead(Other(x))'.heard = Ahead(Other(x)).heard
      BY <2>7, <2>8, <3>1 DEF Same, a, r
    <3> QED  BY <1>1, <3>2 DEF IInv, VerbInv, Ours
  <2>13. AskInv'
    <3>1. Target' = Target
      BY DEF Target
    <3> QED  BY <1>1, <2>8, <3>1 DEF IInv, AskInv, Same, Ours
  <2>14. TellInv'
    <3>1. \A i \in Item : a.told[i] # <<>> => a.told[i] = Fact[i]
      BY <1>4 DEF IInv, TellInv, a
    <3>2. \A i \in Item : r.told[i] # <<>> => r.told[i] = Fact'[i]
      <4>1. CASE r.told = a.told /\ Fact' = Fact
        BY <3>1, <4>1
      <4>2. CASE \E i \in Item : /\ r.told = [a.told EXCEPT ![i] = Fact'[i]]
                                 /\ \A j \in Item : j # i => Fact'[j] = Fact[j]
        <5>1. PICK i \in Item : /\ r.told = [a.told EXCEPT ![i] = Fact'[i]]
                                /\ \A j \in Item : j # i => Fact'[j] = Fact[j]
          BY <4>2
        <5>2. a.told \in [Item -> Seq(Octet)]
          BY <2>9 DEF Reader
        <5>3. ASSUME NEW j \in Item, r.told[j] # <<>> PROVE r.told[j] = Fact'[j]
          <6>1. CASE j = i
            BY <5>1, <5>2, <6>1
          <6>2. CASE j # i
            <7>1. r.told[j] = a.told[j] /\ Fact'[j] = Fact[j]
              BY <5>1, <5>2, <6>2
            <7> QED  BY <3>1, <5>3, <7>1
          <6> QED  BY <6>1, <6>2
        <5> QED  BY <5>3
      <4> QED  BY <2>10, <4>1, <4>2 DEF Answers
    <3> QED  BY <3>2 DEF TellInv, r
  <2>15. FirmInv'
    <3>1. foreign = "none" => Ahead("server")'.firm /\ r.firm
      BY <2>7, <2>8, <2>10 DEF IInv, FirmInv, Same, Answers, a
    <3>2. foreign = "none" => \A x \in End : Ahead(x)'.firm
      BY <2>7, <3>1 DEF r
    <3> QED  BY <1>1, <3>2 DEF IInv, FirmInv, Ours
  <2> QED  BY <2>2, <2>6, <2>11, <2>12, <2>13, <2>14, <2>15 DEF IInv
<1> QED  BY <1>1, <1>3, <1>4

LEMMA InitIInv == ASSUME Init PROVE IInv
<1> USE DEF Init
<1>1. /\ End = {"client", "server"} /\ Other("client") = "server" /\ Other("server") = "client"
      /\ "client" \in End /\ "server" \in End
  BY Ends
<1>2. /\ <<>> \in Seq(Octet) /\ <<>> \in Seq(Seq(Octet)) /\ Offers \in Seq(Octet)
      /\ \A x \in Octet : <<x>> \in Seq(Octet)
      /\ \A x \in Octet, y \in Octet, z \in Octet, w \in Octet : <<x, y, z, w>> \in Seq(Octet)
  BY EmptySeq, ConstantTypes
<1>3. /\ line \in [Item -> Seq(Octet)] /\ record \in [Pin -> Seq(Octet)] /\ driven \subseteq Pin
      /\ \E v \in 0..12 : line[<<5, 0>>] = <<v>> /\ Group(v) = 0
  <2>1. line \in [Item -> Seq(Octet)] /\ \E v \in 0..12 : line[<<5, 0>>] = <<v>> /\ Group(v) = 0
    <3>1. line \in Found
      OBVIOUS
    <3> HIDE DEF Init
    <3>2. line \in [Item -> Seq(0..255)] /\ \E v \in 0..12 : line[<<5, 0>>] = <<v>> /\ Group(v) = 0
      BY <3>1, FoundAssumption, Zenon
    <3> QED  BY <3>2 DEF Octet
  <2>2. \A i \in Pin : i[2] + 2 \in Octet
    <3> HIDE DEF Init
    <3>1. \A i \in Pin : i[2] \in {4, 7, 10}
      BY DEF Pin
    <3>2. \A x \in {4, 7, 10} : x + 2 \in Octet
      BY DEF Octet
    <3> QED  BY <3>1, <3>2
  <2>3. record \in [Pin -> Seq(Octet)]
    BY <1>2, <2>2
  <2> QED  BY <2>1, <2>3
<1>4. TypeOK
  <2>1. chan \in [End -> Seq(Octet)] /\ dec \in [End -> [at : State, sub : Seq(Octet)]]
    BY <1>2 DEF State
  <2>2. table \in [End -> [Side \X Option -> Status]]
        /\ heard \in [End -> [Side \X Option -> Status]]
    BY DEF Status
  <2>3. writes \in [End -> 0..MaxWrites] /\ odd \in 0..MaxForeign
    BY TelnetAssumption
  <2>4. fed \in [End -> Seq(Octet)] /\ out \in [End -> Seq(Octet)]
        /\ asked \in Seq(Seq(Octet)) /\ told \in [Item -> Seq(Octet)]
    BY <1>2
  <2> QED  BY <1>3, <2>1, <2>2, <2>3, <2>4, Types
<1> DEFINE a == Ahead("client")  r == Ahead("server")  s == Now("server")
<1>5. a = Now("client") /\ Now("client") \in Reader /\ s \in Reader
  <2>1. Now("client") \in Reader /\ s \in Reader /\ chan["client"] = <<>>
    BY <1>1, <1>4, NowType
  <2> QED  BY <2>1, EatenEmpty DEF Ahead
<1>6. /\ a.at = "Data" /\ a.out = <<>> /\ a.heard = Unheard /\ a.asked = <<>>
      /\ a.told = [i \in Item |-> <<>>] /\ a.firm
      /\ s.at = "Data" /\ s.out = <<>> /\ s.heard = Unheard /\ s.asked = <<>>
      /\ s.told = [i \in Item |-> <<>>] /\ s.firm
  <2>1. /\ a.at = "Data" /\ a.out = <<>> /\ a.heard = Unheard /\ a.asked = <<>>
        /\ a.told = [i \in Item |-> <<>>] /\ a.firm
    BY <1>1, <1>5 DEF Now, Unheard
  <2>2. /\ s.at = "Data" /\ s.out = <<>> /\ s.heard = Unheard /\ s.asked = <<>>
        /\ s.told = [i \in Item |-> <<>>] /\ s.firm
    BY <1>1 DEF Now, Unheard
  <2> QED  BY <2>1, <2>2
<1> HIDE DEF a, s
<1>7. /\ r.at = "Data" /\ r.out = <<>> /\ r.asked = <<>> /\ r.firm
      /\ r.heard = IF ~Ours("client") THEN Unheard ELSE AllOffered
  <2>1. CASE ~Ours("client")
    <3>1. r = s
      <4>1. chan["server"] = <<>>
        BY <1>1, <2>1
      <4>2. r = Eaten("server", s, <<>>)
        BY <4>1 DEF Ahead, s
      <4> QED  BY <1>5, <4>2, EatenEmpty
    <3> HIDE DEF r
    <3> QED  BY <1>6, <2>1, <3>1
  <2>2. CASE Ours("client")
    <3>1. r = Eaten("server", s, Offers)
      <4>1. chan["server"] = Offers
        BY <1>1, <2>2
      <4> QED  BY <4>1 DEF Ahead, s
    <3>2. LET h == Eaten("server", s, Offers)
          IN  h.at = "Data" /\ h.out = s.out /\ h.asked = s.asked /\ h.firm = s.firm /\ h.heard = AllOffered
      <4>1. s \in Reader /\ s.at = "Data" /\ s.heard = Unheard
        BY <1>5, <1>6
      <4> HIDE DEF Init
      <4> QED  BY <4>1, OffersRead
    <3> HIDE DEF r
    <3> QED  BY <1>6, <2>2, <3>1, <3>2
  <2> QED  BY <2>1, <2>2
<1> HIDE DEF r
<1>8. StreamInv
  <2>1. a.out = fed["server"] /\ r.out = fed["client"]
    BY <1>1, <1>6, <1>7
  <2> QED  BY <1>1, <1>6, <1>7, <2>1 DEF StreamInv, a, r
<1>9. table["server"] = Unheard /\ (Ours("client") => table["client"] = AllOffered)
  BY <1>1 DEF Unheard, AllOffered
<1>10. VerbInv
  <2>1. Ours("client") => \A d \in Side, o \in Option : r.heard[<<d, o>>] = table["client"][<<d, o>>]
    BY <1>7, <1>9
  <2>2. \A d \in Side, o \in Option : a.heard[<<d, o>>] = table["server"][<<d, o>>]
    BY <1>6, <1>9
  <2> HIDE DEF Init
  <2> QED  BY <1>1, <2>1, <2>2 DEF VerbInv, a, r
<1>11. AskInv
  BY <1>7 DEF AskInv, r
<1>12. TellInv
  BY <1>6 DEF TellInv, a
<1>13. LineInv
  <2>1. /\ record[<<5, 4>>] = <<6>> /\ record[<<5, 7>>] = <<9>> /\ record[<<5, 10>>] = <<12>>
    <3>1. <<5, 4>> \in Pin /\ <<5, 7>> \in Pin /\ <<5, 10>> \in Pin
      BY DEF Pin
    <3>2. <<5, 4>>[2] + 2 = 6 /\ <<5, 7>>[2] + 2 = 9 /\ <<5, 10>>[2] + 2 = 12
      OBVIOUS
    <3> QED  BY <3>1, <3>2
  <2>2. Group(6) = 4 /\ Group(9) = 7 /\ Group(12) = 10
    BY DEF Group
  <2>3. driven = {}
    OBVIOUS
  <2> HIDE DEF Init
  <2>4. /\ Fact[<<5, 0>>] = line[<<5, 0>>] /\ Fact[<<5, 4>>] = record[<<5, 4>>]
        /\ Fact[<<5, 7>>] = record[<<5, 7>>] /\ Fact[<<5, 10>>] = record[<<5, 10>>]
    BY DEF Fact, Known, Item, Pin
  <2>5. /\ \E v \in 0..12 : Fact[<<5, 0>>] = <<v>> /\ Group(v) = 0
        /\ \E v \in 0..12 : Fact[<<5, 4>>] = <<v>> /\ Group(v) = 4
        /\ \E v \in 0..12 : Fact[<<5, 7>>] = <<v>> /\ Group(v) = 7
        /\ \E v \in 0..12 : Fact[<<5, 10>>] = <<v>> /\ Group(v) = 10
    BY <1>3, <2>1, <2>2, <2>4
  <2> QED  BY <2>3, <2>5 DEF LineInv
<1>14. FirmInv
  <2>1. /\ COM_PORT \in Option /\ <<"us", COM_PORT>> \in Side \X Option
        /\ <<"them", COM_PORT>> \in Side \X Option /\ COM_PORT \in Offered
    BY TelnetAssumption DEF Side, Offered
  <2>2. Unheard[<<"us", COM_PORT>>] = "none" /\ Unheard[<<"them", COM_PORT>>] = "none"
        /\ AllOffered[<<"us", COM_PORT>>] = "yes"
    BY <2>1 DEF Unheard, AllOffered
  <2>3. heard["server"] = Unheard /\ heard["client"] = Unheard
    BY <1>1 DEF Unheard
  <2>4. \A e \in End : Ahead(e).firm
    BY <1>1, <1>6, <1>7 DEF a, r
  <2>5. foreign = "none" => Ours("client")
    BY DEF Ours
  <2> HIDE DEF Init
  <2> QED  BY <1>9, <2>2, <2>3, <2>4, <2>5 DEF FirmInv
<1> QED  BY <1>4, <1>8, <1>10, <1>11, <1>12, <1>13, <1>14 DEF IInv

LEMMA NextIInv == IInv /\ [Next]_vars => IInv'
<1> SUFFICES ASSUME IInv, [Next]_vars PROVE IInv'
  OBVIOUS
<1>1. CASE ForeignSays
  BY <1>1, ForeignStep
<1>2. ASSUME NEW e \in End, WriteData(e) PROVE IInv'
  BY <1>2, WriteStep
<1>3. ASSUME NEW e \in End, Feed(e) PROVE IInv'
  BY <1>3, QuietStep, NegotiateStep, DispatchStep DEF Feed
<1>4. CASE UNCHANGED vars
  <2>1. /\ UNCHANGED <<foreign, chan, dec, table, requested, asking, invited>>
        /\ UNCHANGED <<line, record, driven, writes, odd, fed, out, heard, asked, told>>
    BY <1>4 DEF vars, askVars, lineVars
  <2>2. TypeOK'
    BY <2>1, Types, TypesNext DEF IInv, TypeOK
  <2>3. \A e \in End : Ahead(e)' = Ahead(e)
    BY <2>1 DEF Ahead, Now
  <2> QED  BY <2>1, <2>2, <2>3, SameStep DEF Same
<1>5. CASE Ask
  BY <1>5, AskStep
<1> QED  BY <1>1, <1>2, <1>3, <1>4, <1>5 DEF Next

LEMMA TargetType == Len(Target) = Len(Settings) /\ Target \in Seq(Seq(Octet))
<1> DEFINE s == [at |-> "Data", sub |-> <<>>, out |-> <<>>,
                 heard |-> Unheard, asked |-> <<>>,
                 told |-> [i \in Item |-> <<>>], firm |-> TRUE]
<1>1. s \in Reader /\ s.at = "Data"
  BY EmptySeq DEF Reader, State, Status, Unheard
<1> HIDE DEF s
<1> QED  BY <1>1, RequestsRead
----------------------------------------------------------------------------
(* What an end makes of what is under way is what the other end has on      *)
(* record, in every state.                                                  *)
THEOREM Invariance == Spec => []IInv
BY InitIInv, NextIInv, PTL DEF Spec

(* Whatever is said, what is under way to an end is whole messages after    *)
(* the one it is in: it never waits inside a command for a byte nobody      *)
(* sends (codec.rs:13-16).                                                  *)
THEOREM StreamsEndOnABoundary == Spec => []Inv
<1>1. IInv => Inv
  <2> SUFFICES ASSUME IInv, NEW e \in End
               PROVE  Reads([at |-> dec[e].at, data |-> out[e]], chan[e]).at = "Data"
    BY DEF IInv, Inv
  <2>1. Now(e) \in Reader /\ chan[e] \in Seq(Octet) /\ Now(e).at = dec[e].at /\ Now(e).out = out[e]
    BY NowType DEF IInv, Now
  <2> DEFINE s == Now(e)
  <2>2. s \in Reader /\ s.at = dec[e].at /\ s.out = out[e] /\ Ahead(e) = Eaten(e, s, chan[e])
    BY <2>1 DEF Ahead
  <2> HIDE DEF s
  <2>3. Reads([at |-> s.at, data |-> s.out], chan[e]) =
          [at |-> Eaten(e, s, chan[e]).at, data |-> Eaten(e, s, chan[e]).out]
    BY <2>1, <2>2, ReadsEaten
  <2>4. Ahead(e).at = "Data"
    BY DEF IInv, StreamInv
  <2> QED  BY <2>2, <2>3, <2>4
<1> QED  BY <1>1, Invariance, PTL

LEMMA ConcatPrefix ==
  ASSUME NEW T, NEW q \in Seq(T), NEW x \in Seq(T)
  PROVE  IsPrefix(q, q \o x)
<1> DEFINE r == q \o x  n == Len(q)  u == SubSeq(q, 1, n)  v == SubSeq(r, 1, n)
<1>1. /\ r \in Seq(T) /\ Len(r) = n + Len(x) /\ n \in Nat /\ Len(x) \in Nat
      /\ \A i \in 1..n : r[i] = q[i] /\ q[i] \in T /\ r[i] \in T
  BY ConcatProperties, LenProperties, ElementOfSeq
<1> HIDE DEF r, n
<1>2. /\ u \in Seq(T) /\ Len(u) = n /\ \A i \in 1..n : u[i] = q[1 + i - 1]
      /\ v \in Seq(T) /\ Len(v) = n /\ \A i \in 1..n : v[i] = r[1 + i - 1]
  <2>1. \A i \in 1..n : i \in 1..Len(q) /\ i \in 1..Len(r)
    BY <1>1 DEF n
  <2>2. n = (IF 1 <= n THEN n - 1 + 1 ELSE 0)
    BY <1>1
  <2>3. u \in Seq(T) /\ Len(u) = n /\ \A i \in 1..n : u[i] = q[1 + i - 1]
    BY <1>1, <2>1, <2>2, SubSeqProperties
  <2>4. v \in Seq(T) /\ Len(v) = n /\ \A i \in 1..n : v[i] = r[1 + i - 1]
    BY <1>1, <2>1, <2>2, SubSeqProperties
  <2> QED  BY <2>3, <2>4
<1>3. \A i \in 1..n : u[i] = v[i]
  BY <1>1, <1>2
<1> HIDE DEF u, v
<1>4. u = v
  BY <1>2, <1>3, SeqEqual
<1> QED  BY <1>1, <1>4 DEF IsPrefix, u, v, r, n

(* The payload comes out as it went in, byte for byte and in order,         *)
(* whatever negotiation and settings pass between (codec.rs:329, tests      *)
(* codec.rs:444).                                                           *)
THEOREM NothingIsLost == Spec => []Lossless
<1>1. IInv => Lossless
  <2> SUFFICES ASSUME IInv, NEW e \in End
               PROVE  /\ IsPrefix(out[e], fed[Other(e)])
                      /\ chan[e] = <<>> => out[e] = fed[Other(e)]
    BY DEF Lossless
  <2>1. /\ Now(e) \in Reader /\ chan[e] \in Seq(Octet) /\ Now(e).out = out[e]
        /\ Ahead(e) = Eaten(e, Now(e), chan[e]) /\ Ahead(e).out = fed[Other(e)]
    BY NowType DEF IInv, StreamInv, Ahead, Now
  <2>2. Grown(Now(e), Ahead(e))
    BY <2>1, EatenGrown
  <2>3. PICK x \in Seq(Octet) : fed[Other(e)] = out[e] \o x
    BY <2>1, <2>2 DEF Grown
  <2>4. out[e] \in Seq(Octet)
    BY Types DEF IInv
  <2>5. IsPrefix(out[e], out[e] \o x)
    <3> DEFINE q == out[e]
    <3>1. q \in Seq(Octet)
      BY <2>4
    <3> HIDE DEF q
    <3>2. IsPrefix(q, q \o x)
      BY <2>3, <3>1, ConcatPrefix
    <3> QED  BY <3>2 DEF q
  <2>6. chan[e] = <<>> => out[e] = fed[Other(e)]
    BY <2>1, EatenEmpty
  <2> QED  BY <2>3, <2>5, <2>6
<1> QED  BY <1>1, Invariance, PTL

LEMMA WhenQuiet ==
  ASSUME IInv, Quiet, NEW e \in End
  PROVE  Ahead(e) = Now(e)
<1>1. chan[e] = <<>> /\ Now(e) \in Reader
  BY NowType DEF IInv, Quiet
<1> QED  BY <1>1, EatenEmpty DEF Ahead

(* When nothing is under way both ends have the same picture of every       *)
(* option, though a verb that changes nothing is not answered               *)
(* (codec.rs:242-258).                                                      *)
THEOREM PicturesAgree == Spec => []Settled
<1>1. IInv => Settled
  <2> SUFFICES ASSUME IInv, Quiet, NEW e \in End, NEW s \in Side, NEW o \in Option,
                      Ours(e)
               PROVE  heard[Other(e)][<<s, o>>] = table[e][<<s, o>>]
    BY DEF Settled
  <2>1. Other(e) \in End
    BY Ends
  <2>2. Ahead(Other(e)).heard = heard[Other(e)]
    BY <2>1, WhenQuiet DEF Now
  <2> QED  BY <2>2 DEF IInv, VerbInv
<1> QED  BY <1>1, Invariance, PTL

(* When nothing is under way the client was last told of every item what    *)
(* the line has, refused settings included (comport.rs:42-43), whatever the *)
(* line was found like.  An output the session has not changed is left out: *)
(* the record the answer comes from knows nothing of it (comport.rs:69-71). *)
THEOREM AnswersMatchTheLine == Spec => []ReportsTheLine
<1>1. IInv => ReportsTheLine
  <2> SUFFICES ASSUME IInv, Quiet, Ours("server"), NEW i \in Item, i \notin Pin \ driven,
                      told[i] # <<>>
               PROVE  told[i] = line[i]
    BY DEF ReportsTheLine
  <2>1. Ahead("client").told = told
    <3>1. "client" \in End
      BY Ends
    <3> QED  BY <3>1, WhenQuiet DEF Now
  <2>2. told[i] = Known(line, record, i)
    BY <2>1 DEF IInv, TellInv, Fact
  <2>3. i \in Pin => record[i] = line[i]
    BY DEF IInv, LineInv
  <2> QED  BY <2>2, <2>3 DEF Known
<1> QED  BY <1>1, Invariance, PTL

(* The client's settings reach any server once, whole and in order, however *)
(* often it agrees to COM-PORT and goes back on it; never one that did not  *)
(* agree; and have when nothing is under way, if it agreed or is a server   *)
(* of this program (codec.rs:231, comport.rs:433-437, client.rs:82).        *)
THEOREM SettingsArriveOnce == Spec => []SettingsOnce
<1>1. IInv => SettingsOnce
  <2> SUFFICES ASSUME IInv, Ours("client")
               PROVE  /\ IsPrefix(asked, Target)
                      /\ asked # <<>> => invited
                      /\ Quiet /\ (invited \/ foreign = "none") => Len(asked) = Len(Settings)
    BY DEF SettingsOnce, Target
  <2> DEFINE s == Now("server")  r == Ahead("server")  all == requested /\ ~asking
  <2>0. /\ "server" \in End /\ "client" \in End /\ Other("server") = "client"
        /\ Other("client") = "server"
    BY Ends
  <2>1. /\ s \in Reader /\ r = Eaten("server", s, chan["server"]) /\ chan["server"] \in Seq(Octet)
        /\ s.asked = asked /\ r.asked = (IF all THEN Target ELSE <<>>)
    BY <2>0, NowType DEF IInv, AskInv, Ahead, Now
  <2>2. Grown(s, r)
    <3> HIDE DEF s, r
    <3> QED  BY <2>1, EatenGrown
  <2>3. PICK y \in Seq(Seq(Octet)) : (IF all THEN Target ELSE <<>>) = asked \o y
    <3> HIDE DEF s, r
    <3> QED  BY <2>1, <2>2 DEF Grown
  <2>4. asked \in Seq(Seq(Octet)) /\ Len(Target) = Len(Settings) /\ Target \in Seq(Seq(Octet))
    <3>1. asked \in Seq(Seq(Octet))
      BY Types DEF IInv
    <3>2. Len(Target) = Len(Settings) /\ Target \in Seq(Seq(Octet))
      BY TargetType
    <3> QED  BY <3>1, <3>2
  <2>5. IsPrefix(asked, asked \o y)
    <3> DEFINE Chunk == Seq(Octet)
    <3>1. asked \in Seq(Chunk) /\ y \in Seq(Chunk)
      BY <2>3, <2>4
    <3> HIDE DEF Chunk
    <3> QED  BY <3>1, ConcatPrefix
  <2>6. IsPrefix(asked, Target) /\ (asked # <<>> => invited)
    <3>1. CASE all
      <4>1. invited
        BY <3>1 DEF IInv, AskInv
      <4> QED  BY <2>3, <2>5, <3>1, <4>1
    <3>2. CASE ~all
      <4>1. asked = <<>>
        <5> DEFINE Chunk == Seq(Octet)
        <5>1. asked \in Seq(Chunk) /\ y \in Seq(Chunk) /\ asked \o y = <<>>
          BY <2>3, <2>4, <3>2
        <5> HIDE DEF Chunk
        <5>2. Len(asked \o y) = Len(asked) + Len(y) /\ Len(asked) \in Nat /\ Len(y) \in Nat
          BY <5>1, ConcatProperties, LenProperties
        <5>3. Len(asked) = 0
          BY <5>1, <5>2, EmptySeq
        <5> QED  BY <5>1, <5>3, EmptySeq
      <4>2. <<>> \o Target = Target
        BY <2>4, ConcatEmptySeq
      <4>3. IsPrefix(<<>>, <<>> \o Target)
        <5> DEFINE Chunk == Seq(Octet)  q == <<>>
        <5>1. q \in Seq(Chunk) /\ Target \in Seq(Chunk)
          BY <2>4, EmptySeq
        <5> HIDE DEF Chunk, q
        <5>2. IsPrefix(q, q \o Target)
          BY <5>1, ConcatPrefix
        <5> QED  BY <5>2 DEF q
      <4> QED  BY <4>1, <4>2, <4>3
    <3> QED  BY <3>1, <3>2
  <2>7. ASSUME Quiet, invited \/ foreign = "none" PROVE Len(asked) = Len(Settings)
    <3>1. Ahead("server") = Now("server") /\ Ahead("client") = Now("client")
      BY <2>0, <2>7, WhenQuiet
    <3>2. COM_PORT \in Option /\ "us" \in Side /\ "them" \in Side
      BY TelnetAssumption DEF Side
    <3>3. ASSUME foreign = "none"
          PROVE  \A d \in Side :
                          /\ heard["server"][<<d, COM_PORT>>] = table["client"][<<d, COM_PORT>>]
                          /\ heard["client"][<<d, COM_PORT>>] = table["server"][<<d, COM_PORT>>]
      <4>1. Ahead("server").heard = heard["server"] /\ Ahead("client").heard = heard["client"]
        BY <3>1 DEF Now
      <4>2. Ours("client") /\ Ours("server")
        BY <3>3 DEF Ours
      <4> QED  BY <2>0, <3>2, <4>1, <4>2 DEF IInv, VerbInv
    <3>4. ASSUME foreign = "none"
          PROVE  /\ table["client"][<<"us", COM_PORT>>] = "yes"
                 /\ heard["server"][<<"us", COM_PORT>>] = table["server"][<<"them", COM_PORT>>]
                 /\ heard["client"][<<"them", COM_PORT>>] = "yes" => requested
      BY <3>4 DEF IInv, FirmInv, Ours
    <3>5. requested /\ ~asking
      <4>1. invited => requested
        BY DEF IInv, AskInv
      <4>2. foreign = "none" => requested
        BY <3>2, <3>3, <3>4
      <4> QED  BY <2>7, <4>1, <4>2 DEF Quiet
    <3>6. asked = Target
      BY <2>1, <3>1, <3>5
    <3> QED  BY <2>4, <3>6
  <2> QED  BY <2>6, <2>7
<1> QED  BY <1>1, Invariance, PTL
----------------------------------------------------------------------------
(* The COM-PORT handlers and the notifier (ComPort.tla), beside the stream: *)
(* the outputs need what the handler's own record is worth (Books), the     *)
(* inputs what the notifier's last sample is worth between two reports      *)
(* (Seen).                                                                  *)

(* The record of an output set in this session is the device's, any other  *)
(* is FALSE, and answers are read off the record.                          *)
Books == \A o \in Output :
  /\ o \in set => virtual \/ book[o] = hw[o]
  /\ o \notin set => book[o] = FALSE
  /\ answered[o] # "none" => answered[o] = Wire(book[o])

(* A report flags what differs from the one before it.                     *)
Flags(before, after) == \A x \in after.kept :
  LET was == x \in before.lines  is == x \in after.lines
  IN x \in after.deltas <=> ~(was <=> is) /\ (x = "ri" => was)

(* Between reports, a line that stayed in the mask was last sampled as it  *)
(* was last reported; a report under way is the last sample.               *)
Seen == /\ at \in {"check", "sample"} /\ reports # <<>> =>
             previous # Never
             /\ \A x \in kept : x \in reports[Len(reports)].lines <=> x \in previous
        /\ at = "write" =>
             /\ previous # Never /\ previous = report.lines
             /\ reports # <<>> => Flags(reports[Len(reports)], report)

CPIInv == CPTypeOK /\ Books /\ Seen /\ FlagsMatchReports
----------------------------------------------------------------------------
LEMMA LineFacts == Input \subseteq {"cts", "dsr", "ri", "cd"} /\ Len(Sampled) \in Nat
               /\ \A s \in SUBSET Input : s # Never
<1>1. Input \subseteq {"cts", "dsr", "ri", "cd"} /\ Len(Sampled) \in Nat
  BY ComPortAssumption DEF Input, ToSet
<1> QED  BY <1>1 DEF Never

LEMMA CPInitIInv == CPInit => CPIInv
<1> SUFFICES ASSUME CPInit PROVE CPIInv
  OBVIOUS
<1> USE LineFacts, ComPortAssumption DEF CPInit
<1>1. CPTypeOK
  BY DEF CPTypeOK, Notice, Nothing
<1>2. Books
  BY DEF Books
<1>3. Seen
  BY DEF Seen
<1>4. FlagsMatchReports
  BY DEF FlagsMatchReports
<1> QED  BY <1>1, <1>2, <1>3, <1>4 DEF CPIInv

LEMMA TypeStep == CPTypeOK /\ [CPNext]_cpVars => CPTypeOK'
<1> SUFFICES ASSUME CPTypeOK, [CPNext]_cpVars PROVE CPTypeOK'
  OBVIOUS
<1> USE LineFacts, ComPortAssumption DEF CPTypeOK
<1>1. CASE Begin
  BY <1>1 DEF Begin, BeginWith
<1>2. CASE Stop \/ Joined
  BY <1>2 DEF Stop, Joined, outVars, notifyVars
<1>3. CASE Check
  BY <1>3 DEF Check, NotifierStep, outVars
<1>4. CASE Sample
  <2>1. Len(Sampled) \in Nat /\ reading \in Nat /\ reading < Len(Sampled)
    BY <1>4 DEF Sample
  <2>2. reading' \in 0..Len(Sampled)
    BY <1>4, <2>1 DEF Sample
  <2>3. state' \subseteq Input
    BY <1>4 DEF Sample
  <2> QED  BY <1>4, <2>2, <2>3 DEF Sample, NotifierStep, outVars
<1>5. CASE Notify
  <2>1. Deltas \subseteq Input
    BY <1>5 DEF Deltas, Changed
  <2>2. Changed \subseteq Input
    BY DEF Changed
  <2>3. [lines |-> state, deltas |-> Deltas, kept |-> kept \cap mask] \in Notice
    BY <2>1 DEF Notice
  <2>4. report' \in Notice
    BY <1>5, <2>3 DEF Notify, NotifyKeeping
  <2>5. missed' \subseteq Input /\ kept' \subseteq Input /\ at' \in {"write", "check"}
    BY <1>5, <2>2 DEF Notify, NotifyKeeping
  <2>6. previous' \subseteq Input /\ reading' = 0 /\ state' = {}
    BY <1>5 DEF Notify, NotifyKeeping
  <2> QED  BY <1>5, <2>4, <2>5, <2>6 DEF Notify, NotifyKeeping, NotifierStep, outVars
<1>6. CASE Write
  BY <1>6 DEF Write, NotifierStep, outVars, Notice, Nothing
<1>7. CASE WriteFails
  BY <1>7 DEF WriteFails, NotifierStep, outVars, Notice, Nothing
<1>8. ASSUME NEW o \in Output, Query(o) PROVE CPTypeOK'
  BY <1>8 DEF Query, Request, Wire, notifyVars
<1>9. ASSUME NEW o \in Output, NEW on \in BOOLEAN, NEW works \in BOOLEAN, Apply(o, on, works)
      PROVE  CPTypeOK'
  BY <1>9 DEF Apply, ApplyAs, Request, Wire, notifyVars
<1>10. ASSUME NEW m \in SUBSET Input, SetMask(m) PROVE CPTypeOK'
  BY <1>10 DEF SetMask, Request, outVars, notifyVars
<1>11. ASSUME NEW x \in Input, LineMoves(x) PROVE CPTypeOK'
  BY <1>11 DEF LineMoves, outVars, notifyVars
<1>12. CASE UNCHANGED cpVars
  BY <1>12 DEF cpVars, outVars, notifyVars
<1> QED  BY <1>1, <1>2, <1>3, <1>4, <1>5, <1>6, <1>7, <1>8, <1>9, <1>10, <1>11, <1>12
         DEF CPNext, Notifier

(* Only the handler touches the outputs and its record of them; whoever    *)
(* begins a session wipes the record.                                      *)
LEMMA BooksStep == CPTypeOK /\ Books /\ [CPNext]_cpVars => Books'
<1> SUFFICES ASSUME CPTypeOK, Books, [CPNext]_cpVars PROVE Books'
  OBVIOUS
<1> USE DEF Books
<1>1. CASE Begin
  BY <1>1 DEF Begin, BeginWith
<1>2. ASSUME NEW o \in Output, Query(o) PROVE Books'
  BY <1>2 DEF Query, CPTypeOK
<1>3. ASSUME NEW o \in Output, NEW on \in BOOLEAN, NEW works \in BOOLEAN, Apply(o, on, works)
      PROVE  Books'
  BY <1>3 DEF Apply, ApplyAs, CPTypeOK
<1>4. ASSUME UNCHANGED <<virtual, outVars>> PROVE Books'
  BY <1>4 DEF outVars, Wire
<1> QED  BY <1>1, <1>2, <1>3, <1>4
         DEF CPNext, Notifier, Stop, Joined, Check, Sample, Notify, NotifyKeeping, Write,
             WriteFails, NotifierStep, SetMask, LineMoves, cpVars

(* A sample that is not reported moved nothing in the mask, and a report   *)
(* is flagged against the sample before it.                                *)
LEMMA SeenStep == CPTypeOK /\ Seen /\ [CPNext]_cpVars => Seen'
<1> SUFFICES ASSUME CPTypeOK, Seen, [CPNext]_cpVars PROVE Seen'
  OBVIOUS
<1> USE LineFacts DEF CPTypeOK
<1>1. CASE Begin
  BY <1>1 DEF Begin, BeginWith, Seen
<1>2. CASE Check
  BY <1>2 DEF Check, Seen
<1>3. CASE Sample
  BY <1>3 DEF Sample, Seen
<1>4. CASE Notify
  <2> USE <1>4 DEF Notify, NotifyKeeping
  <2>1. previous' = state /\ state # Never /\ reports' = reports
    OBVIOUS
  <2>2. CASE Changed \cap mask # {}
    <3>1. at' = "write" /\ previous' = report'.lines
      BY <2>2
    <3>2. ASSUME reports # <<>> PROVE Flags(reports[Len(reports)], report')
      <4>1. previous # Never
            /\ \A x \in kept : x \in reports[Len(reports)].lines <=> x \in previous
        BY <3>2 DEF Seen
      <4>2. report' = [lines |-> state, deltas |-> Deltas, kept |-> kept \cap mask]
        BY <2>2
      <4>3. Changed = (previous \ state) \cup (state \ previous)
        BY <4>1 DEF Changed
      <4>4. ASSUME NEW x \in kept \cap mask
            PROVE  x \in Deltas <=> ~(x \in reports[Len(reports)].lines <=> x \in state)
                                    /\ (x = "ri" => x \in reports[Len(reports)].lines)
        <5>1. x \in Input /\ (x \in reports[Len(reports)].lines <=> x \in previous)
          BY <4>1
        <5>2. x \in Deltas <=> x \in Changed /\ (x = "ri" => x \notin state)
          BY <4>1, <4>3, <5>1 DEF Deltas
        <5>3. x \in Changed <=> ~(x \in previous <=> x \in state)
          BY <4>3
        <5> QED  BY <5>1, <5>2, <5>3
      <4> QED  BY <4>2, <4>4 DEF Flags
    <3> QED  BY <2>1, <3>1, <3>2 DEF Seen
  <2>3. CASE Changed \cap mask = {}
    <3>1. at' = "check" /\ kept' = kept \cap mask
      BY <2>3
    <3>2. ASSUME reports # <<>>, NEW x \in kept'
          PROVE  x \in reports[Len(reports)].lines <=> x \in state
      <4>1. previous # Never /\ (x \in reports[Len(reports)].lines <=> x \in previous)
        BY <3>1, <3>2 DEF Seen
      <4>2. x \notin Changed
        BY <2>3, <3>1, <3>2
      <4>3. Changed = (previous \ state) \cup (state \ previous)
        BY <4>1 DEF Changed
      <4> QED  BY <4>1, <4>2, <4>3
    <3> QED  BY <2>1, <3>1, <3>2 DEF Seen
  <2> QED  BY <2>2, <2>3
<1>5. CASE Write
  <2>1. reports'[Len(reports')] = report /\ reports' # <<>>
    BY <1>5 DEF Write
  <2> QED  BY <1>5, <2>1 DEF Write, Seen
<1>6. CASE WriteFails
  BY <1>6 DEF WriteFails, Seen
<1>7. ASSUME UNCHANGED notifyVars PROVE Seen'
  BY <1>7 DEF notifyVars, Seen, Flags
<1> QED  BY <1>1, <1>2, <1>3, <1>4, <1>5, <1>6, <1>7
         DEF CPNext, Notifier, Stop, Joined, Query, Apply, ApplyAs, SetMask, LineMoves, cpVars

(* Only a report that is written adds to what the client was told, and it  *)
(* was flagged against the last one.                                       *)
LEMMA FlagsStep == CPTypeOK /\ Seen /\ FlagsMatchReports /\ [CPNext]_cpVars => FlagsMatchReports'
<1> SUFFICES ASSUME CPTypeOK, Seen, FlagsMatchReports, [CPNext]_cpVars PROVE FlagsMatchReports'
  OBVIOUS
<1>1. CASE Begin
  BY <1>1 DEF Begin, BeginWith, FlagsMatchReports
<1>2. CASE Write
  <2>1. reports' = Append(reports, report) /\ at = "write" /\ reports \in Seq(Notice)
    BY <1>2 DEF Write, CPTypeOK
  <2>2. \A i \in 2..Len(reports) : Flags(reports[i - 1], reports[i])
    BY DEF FlagsMatchReports, Flags
  <2>3. ASSUME NEW i \in 2..Len(reports') PROVE Flags(reports'[i - 1], reports'[i])
    <3>1. CASE i \in 2..Len(reports)
      BY <2>1, <2>2, <3>1
    <3>2. CASE i = Len(reports) + 1
      <4>1. reports # <<>> /\ reports'[i - 1] = reports[Len(reports)] /\ reports'[i] = report
        BY <2>1, <3>2
      <4> QED  BY <2>1, <4>1 DEF Seen
    <3> QED  BY <2>1, <3>1, <3>2
  <2> QED  BY <2>3 DEF FlagsMatchReports, Flags
<1>3. CASE UNCHANGED reports
  BY <1>3 DEF FlagsMatchReports
<1> QED  BY <1>1, <1>2, <1>3
         DEF CPNext, Notifier, Stop, Joined, Check, Sample, Notify, NotifyKeeping, WriteFails,
             Query, Apply, ApplyAs, SetMask, LineMoves, notifyVars, cpVars
----------------------------------------------------------------------------
(* The record and the last sample are what they are said to be in every    *)
(* state.                                                                  *)
THEOREM CPInvariance == CPSpec => []CPIInv
<1>1. CPIInv /\ [CPNext]_cpVars => CPIInv'
  BY TypeStep, BooksStep, SeenStep, FlagsStep DEF CPIInv
<1> QED  BY CPInitIInv, <1>1, PTL DEF CPSpec

(* What a client was last told of an output it has set is what the device  *)
(* has, through refusals and queries, in every session; of the others it   *)
(* is told "off" (comport.rs:42-43, 221-260).                              *)
THEOREM AnswersAreTheDevices == CPSpec => []CPInv
<1>1. CPIInv => CPInv
  BY DEF CPIInv, Books, CPInv, Wire
<1> QED  BY <1>1, CPInvariance, PTL

(* Of every line that stayed in the client's mask a report flags exactly   *)
(* the changes since the report before it (comport.rs:331-346, 369-388).   *)
THEOREM FlagsAreRight == CPSpec => []FlagsMatchReports
<1>1. CPIInv => FlagsMatchReports
  BY DEF CPIInv
<1> QED  BY <1>1, CPInvariance, PTL
====
