---- MODULE HttpProofs ----
(***************************************************************************)
(* The pool of workers and its streams, for any number of either, any      *)
(* rules and any requests: the count of streams is honest and the allowlist*)
(* comes first; and the allowlist itself, at any widths of the addresses:  *)
(* its masks compare the bits a rule means, and no others.                 *)
(***************************************************************************)
EXTENDS Http, SequenceTheorems, FiniteSetTheorems, WellFoundedInduction, TLAPS

(* A request is in the queue, or with a worker, or neither: it is handed   *)
(* out once, and its stream is begun by the worker that has it.            *)
JobInv ==
  /\ \A w \in Worker : at[w] = "idle" <=> job[w] = None
  /\ \A v, w \in Worker : job[v] = job[w] /\ job[w] # None => v = w
  /\ \A w \in Worker : job[w] # None => asked[job[w]] # Nobody /\ thread[job[w]] = "off"

QueueInv ==
  /\ \A i, j \in 1..Len(queue) : queue[i] = queue[j] => i = j
  /\ \A i \in 1..Len(queue) : /\ asked[queue[i]] # Nobody /\ thread[queue[i]] = "off"
                              /\ \A w \in Worker : job[w] # queue[i]

(* Nothing has happened to a request that has not been made.               *)
UnmadeInv == \A r \in Request : asked[r] = Nobody => thread[r] = "off" /\ answer[r] = 0

HandInv == JobInv /\ QueueInv /\ UnmadeInv
----------------------------------------------------------------------------
LEMMA Finite == TypeOK => /\ IsFiniteSet(Live) /\ Cardinality(Live) \in Nat
                          /\ \A here : /\ IsFiniteSet(Workers(here))
                                       /\ Cardinality(Workers(here)) \in Nat
<1>1. IsFiniteSet(Request)
  BY HttpAssumption, FS_Interval DEF Request
<1>2. IsFiniteSet(Live) /\ Cardinality(Live) \in Nat
  <2>1. Live \in SUBSET Request
    BY DEF Live
  <2> QED  BY <1>1, <2>1, FS_Subset, FS_CardinalityType
<1>3. ASSUME NEW here PROVE IsFiniteSet(Workers(here)) /\ Cardinality(Workers(here)) \in Nat
  <2>1. Workers(here) \in SUBSET Worker
    BY DEF Workers
  <2> QED  BY <2>1, HttpAssumption, FS_Subset, FS_CardinalityType
<1> QED  BY <1>2, <1>3

(* The count is above 0 when there is a stream, begun or being refused.    *)
LEMMA Counted ==
  ASSUME TypeOK, Honest, Live # {} \/ Workers({"spawn", "refuse"}) # {}
  PROVE  streams - 1 \in Nat
BY Finite, FS_EmptySet DEF Honest

(* A worker that moves changes the number at the places it leaves and      *)
(* comes to.                                                               *)
LEMMA Moved ==
  ASSUME NEW S, IsFiniteSet(S), NEW T, NEW w, T \in {S, S \cup {w}, S \ {w}}
  PROVE  /\ Cardinality(S) \in Nat /\ Cardinality(T) \in Nat
         /\ Cardinality(T) = Cardinality(S) + (IF w \in T THEN 1 ELSE 0)
                                           - (IF w \in S THEN 1 ELSE 0)
<1>1. Cardinality(S) \in Nat /\ IsFiniteSet(T) /\ Cardinality(T) \in Nat
  BY FS_AddElement, FS_RemoveElement, FS_CardinalityType
<1>2. CASE T = S
  BY <1>1, <1>2
<1>3. CASE T = S \cup {w}
  BY <1>1, <1>3, FS_AddElement
<1>4. CASE T = S \ {w}
  BY <1>1, <1>4, FS_RemoveElement
<1> QED  BY <1>1, <1>2, <1>3, <1>4

Shifts(w, there) ==
  /\ Cardinality(Workers({"spawn"})') = Cardinality(Workers({"spawn"}))
       + (IF there = "spawn" THEN 1 ELSE 0) - (IF at[w] = "spawn" THEN 1 ELSE 0)
  /\ Cardinality(Workers({"spawn", "refuse"})') = Cardinality(Workers({"spawn", "refuse"}))
       + (IF there \in {"spawn", "refuse"} THEN 1 ELSE 0)
       - (IF at[w] \in {"spawn", "refuse"} THEN 1 ELSE 0)
LEMMA WorkerMoves ==
  ASSUME TypeOK, NEW w \in Worker, NEW there, at' = [at EXCEPT ![w] = there]
  PROVE  Shifts(w, there)
<1> DEFINE S == Workers({"spawn"})  R == Workers({"spawn", "refuse"})
<1>1. DOMAIN at = Worker /\ IsFiniteSet(S) /\ IsFiniteSet(R)
  BY Finite DEF TypeOK
<1>2. /\ S' \in {S, S \cup {w}, S \ {w}} /\ (w \in S <=> at[w] = "spawn")
      /\ (w \in S' <=> there = "spawn")
  BY <1>1 DEF Workers
<1>3. /\ R' \in {R, R \cup {w}, R \ {w}} /\ (w \in R <=> at[w] \in {"spawn", "refuse"})
      /\ (w \in R' <=> there \in {"spawn", "refuse"})
  BY <1>1 DEF Workers
<1> HIDE DEF S, R
<1>4. Cardinality(S') = Cardinality(S) + (IF w \in S' THEN 1 ELSE 0) - (IF w \in S THEN 1 ELSE 0)
  BY <1>1, <1>2, Moved
<1>5. Cardinality(R') = Cardinality(R) + (IF w \in R' THEN 1 ELSE 0) - (IF w \in R THEN 1 ELSE 0)
  BY <1>1, <1>3, Moved
<1>6. /\ Cardinality(S') = Cardinality(S)
              + (IF there = "spawn" THEN 1 ELSE 0) - (IF at[w] = "spawn" THEN 1 ELSE 0)
      /\ Cardinality(R') = Cardinality(R)
              + (IF there \in {"spawn", "refuse"} THEN 1 ELSE 0)
              - (IF at[w] \in {"spawn", "refuse"} THEN 1 ELSE 0)
  BY <1>2, <1>3, <1>4, <1>5
<1> QED  BY <1>6 DEF S, R, Shifts

(* So does a stream that begins or ends.                                   *)
LiveShifts(r, v) == Cardinality(Live') = Cardinality(Live)
                    + (IF v = "live" THEN 1 ELSE 0) - (IF thread[r] = "live" THEN 1 ELSE 0)
LEMMA StreamMoves ==
  ASSUME TypeOK, NEW r \in Request, NEW v, thread' = [thread EXCEPT ![r] = v]
  PROVE  LiveShifts(r, v)
<1>1. DOMAIN thread = Request /\ IsFiniteSet(Live) /\ Cardinality(Live) \in Nat
  BY Finite DEF TypeOK
<1>0. r \in Live <=> thread[r] = "live"
  BY DEF Live
<1>2. CASE v = "live"
  <2>1. Live' = Live \cup {r}
    BY <1>1, <1>2 DEF Live
  <2>2. Cardinality(Live') = IF r \in Live THEN Cardinality(Live) ELSE Cardinality(Live) + 1
    BY <1>1, <2>1, FS_AddElement
  <2> QED  BY <1>0, <1>1, <1>2, <2>2 DEF LiveShifts
<1>3. CASE v # "live"
  <2>1. Live' = Live \ {r}
    BY <1>1, <1>3 DEF Live
  <2>2. Cardinality(Live') = IF r \in Live THEN Cardinality(Live) - 1 ELSE Cardinality(Live)
    BY <1>1, <2>1, FS_RemoveElement
  <2> QED  BY <1>0, <1>1, <1>3, <2>2 DEF LiveShifts
<1> QED  BY <1>2, <1>3
----------------------------------------------------------------------------
LEMMA InitHttp == Init => Inv /\ HandInv
<1> SUFFICES ASSUME Init PROVE Inv /\ HandInv
  OBVIOUS
<1>1. TypeOK
  BY EmptySeq DEF Init, TypeOK
<1>2. Live = {} /\ Workers({"spawn"}) = {} /\ Workers({"spawn", "refuse"}) = {}
  BY DEF Init, Live, Workers
<1>3. Honest
  <2>1. streams = 0 /\ Cardinality({}) = 0 /\ MaxStreams \in Nat
    BY FS_EmptySet, HttpAssumption DEF Init
  <2> QED  BY <1>2, <2>1 DEF Honest
<1>4. SettledFirst
  BY DEF Init, SettledFirst
<1>5. JobInv /\ UnmadeInv
  BY DEF Init, JobInv, UnmadeInv, Request, None
<1>6. QueueInv
  BY DEF Init, QueueInv
<1> QED  BY <1>1, <1>3, <1>4, <1>5, <1>6 DEF Inv, HandInv

LEMMA TypeStep == TypeOK /\ HandInv /\ Honest /\ [Next]_vars => TypeOK'
<1> SUFFICES ASSUME TypeOK, HandInv, Honest, [Next]_vars PROVE TypeOK'
  OBVIOUS
<1> USE DEF TypeOK
<1>0. \A w \in Worker : at[w] # "idle" => job[w] \in Request
  BY DEF HandInv, JobInv
<1>1. ASSUME NEW w \in Worker, Take(w) PROVE TypeOK'
  <2>1. Head(queue) \in Request /\ Tail(queue) \in Seq(Request)
    BY <1>1, HeadTailProperties DEF Take
  <2> QED  BY <1>1, <2>1 DEF Take
<1>2. ASSUME NEW w \in Worker, job[w] \in Request, streams' \in Nat,
             NEW status \in {200, 302, 401, 403, 404, 500, 503}, Responds(w, status)
      PROVE  TypeOK'
  <2>1. answer' \in [Request -> {0, 200, 302, 401, 403, 404, 500, 503}]
    BY <1>2 DEF Responds
  <2>2. /\ at' \in [Worker -> {"idle", "gate", "sleep", "waiting", "work", "claim",
                              "spawn", "refuse"}]
        /\ job' \in [Worker -> Request \cup {None}]
    BY <1>2 DEF Responds
  <2> QED  BY <1>2, <2>1, <2>2 DEF Responds
<1>3. ASSUME NEW w \in Worker, NEW there \in {"sleep", "waiting", "work", "claim"},
             Goes(w, there)
      PROVE  TypeOK'
  BY <1>3 DEF Goes
<1>4. ASSUME NEW w \in Worker, Claim(w) PROVE TypeOK'
  BY <1>4 DEF Claim
<1>5. ASSUME NEW w \in Worker, Refuse(w) \/ SpawnFails(w) PROVE TypeOK'
  <2>1. w \in Workers({"spawn", "refuse"}) /\ job[w] \in Request
    BY <1>0, <1>5 DEF Refuse, RefuseTo, SpawnFails, Workers
  <2>2. streams - 1 \in Nat
    BY <2>1, Counted DEF Honest
  <2>3. streams' \in Nat /\ (Responds(w, 503) \/ Responds(w, 500))
    BY <1>5, <2>2 DEF Refuse, RefuseTo, SpawnFails
  <2> QED  BY <1>2, <2>1, <2>3
<1>6. ASSUME NEW w \in Worker, Spawn(w) PROVE TypeOK'
  BY <1>0, <1>6 DEF Spawn, SpawnIf
<1>7. ASSUME NEW r \in Request, End(r) PROVE TypeOK'
  <2>1. r \in Live
    BY <1>7 DEF End, EndIf, Live
  <2>2. streams - 1 \in Nat
    BY <2>1, Counted DEF Honest
  <2> QED  BY <1>7, <2>2 DEF End, EndIf
<1>8. ASSUME NEW r \in Request, Close(r) PROVE TypeOK'
  BY <1>8 DEF Close
<1>9. ASSUME NEW r \in Request, NEW q \in Asked, Make(r, q) PROVE TypeOK'
  BY <1>9, HttpAssumption, AppendProperties DEF Make
<1>10. CASE UNCHANGED vars
  BY <1>10 DEF vars
<1>11. ASSUME NEW w \in Worker, Handle(w) PROVE TypeOK'
  <2>1. job[w] \in Request
    BY <1>11 DEF Handle
  <2>2. \/ streams' \in Nat /\ (Responds(w, 403) \/ Responds(w, 302))
        \/ \E there \in {"sleep", "waiting", "work", "claim"} : Goes(w, there)
    BY <1>11 DEF Handle, Gate
  <2> QED  BY <1>2, <1>3, <2>1, <2>2
<1>12. ASSUME NEW w \in Worker, Reject(w) \/ Finish(w) \/ NoPort(w) PROVE TypeOK'
  <2>1. /\ job[w] \in Request /\ streams' \in Nat
        /\ Responds(w, 401) \/ Responds(w, 200) \/ Responds(w, 404)
    BY <1>0, <1>12 DEF Reject, Finish, NoPort
  <2> QED  BY <1>2, <2>1
<1>13. ASSUME NEW w \in Worker, Waited(w) PROVE TypeOK'
  BY <1>3, <1>13 DEF Waited
<1> QED  BY <1>1, <1>4, <1>5, <1>6, <1>7, <1>8, <1>9, <1>10, <1>11, <1>12, <1>13 DEF Next, Work

(* A request is handed out once.                                           *)
LEMMA JobStep == TypeOK /\ HandInv /\ [Next]_vars => JobInv'
<1> SUFFICES ASSUME TypeOK, HandInv, [Next]_vars PROVE JobInv'
  OBVIOUS
<1>0. /\ JobInv /\ DOMAIN at = Worker /\ DOMAIN job = Worker /\ DOMAIN thread = Request
      /\ DOMAIN asked = Request /\ None \notin Request
      /\ \A w \in Worker : job[w] \in Request \cup {None}
  BY DEF TypeOK, HandInv, Request, None
<1>1. ASSUME NEW w \in Worker, Take(w) PROVE JobInv'
  <2>1. /\ Head(queue) = queue[1] /\ 1 \in 1..Len(queue) /\ queue[1] \in Request
    BY <1>1, HeadTailProperties DEF Take, TypeOK
  <2>2. /\ asked[queue[1]] # Nobody /\ thread[queue[1]] = "off"
        /\ \A v \in Worker : job[v] # queue[1]
    BY <2>1 DEF HandInv, QueueInv
  <2> QED  BY <1>0, <1>1, <2>1, <2>2 DEF Take, JobInv
<1>2. ASSUME NEW w \in Worker, NEW there, there # "idle", at[w] # "idle", at' = [at EXCEPT ![w] = there],
             UNCHANGED <<asked, job, thread>>
      PROVE  JobInv'
  BY <1>0, <1>2 DEF JobInv
<1>3. ASSUME NEW w \in Worker, NEW status, Responds(w, status) PROVE JobInv'
  BY <1>0, <1>3 DEF JobInv, Responds
<1>4. ASSUME NEW w \in Worker, Spawn(w) PROVE JobInv'
  BY <1>0, <1>4 DEF JobInv, Spawn, SpawnIf
<1>5. ASSUME NEW w \in Worker, Handle(w) PROVE JobInv'
  BY <1>2, <1>3, <1>5 DEF Handle, Gate, Goes
<1>6. ASSUME NEW w \in Worker, Reject(w) \/ Finish(w) \/ NoPort(w) \/ Refuse(w) \/ SpawnFails(w)
      PROVE  JobInv'
  BY <1>3, <1>6 DEF Reject, Finish, NoPort, Refuse, RefuseTo, SpawnFails
<1>7. ASSUME NEW w \in Worker, Waited(w) \/ Claim(w) PROVE JobInv'
  BY <1>2, <1>7 DEF Waited, Claim, Goes
<1>8. ASSUME NEW r \in Request, End(r) PROVE JobInv'
  BY <1>0, <1>8 DEF End, EndIf, JobInv
<1>9. ASSUME NEW r \in Request, Close(r) PROVE JobInv'
  BY <1>0, <1>9 DEF Close, JobInv
<1>10. ASSUME NEW r \in Request, NEW q \in Asked, Make(r, q) PROVE JobInv'
  <2>1. q # Nobody
    BY HttpAssumption DEF Ask, Kind, Nobody
  <2> QED  BY <1>0, <1>10, <2>1 DEF Make, JobInv
<1>11. CASE UNCHANGED vars
  BY <1>0, <1>11 DEF vars, JobInv
<1> QED  BY <1>1, <1>4, <1>5, <1>6, <1>7, <1>8, <1>9, <1>10, <1>11 DEF Next, Work

LEMMA QueueStep == TypeOK /\ HandInv /\ [Next]_vars => QueueInv' /\ UnmadeInv'
<1> SUFFICES ASSUME TypeOK, HandInv, [Next]_vars PROVE QueueInv' /\ UnmadeInv'
  OBVIOUS
<1>0. /\ JobInv /\ QueueInv /\ UnmadeInv
      /\ DOMAIN at = Worker /\ DOMAIN job = Worker /\ DOMAIN thread = Request
      /\ DOMAIN asked = Request /\ DOMAIN answer = Request /\ None \notin Request
      /\ queue \in Seq(Request) /\ \A i \in 1..Len(queue) : queue[i] \in Request
      /\ \A w \in Worker : job[w] \in Request \cup {None}
  <2>1. queue \in Seq(Request) /\ \A i \in 1..Len(queue) : queue[i] \in Request
    BY ElementOfSeq DEF TypeOK
  <2> QED  BY <2>1 DEF TypeOK, HandInv, Request, None
<1>1. ASSUME NEW w \in Worker, Take(w) PROVE QueueInv' /\ UnmadeInv'
  <2>1. /\ Head(queue) = queue[1] /\ Len(queue) \in Nat /\ Len(queue) > 0
        /\ Len(queue') = Len(queue) - 1 /\ \A i \in 1..Len(queue') : queue'[i] = queue[i + 1]
    BY <1>0, <1>1, HeadTailProperties DEF Take
  <2>2. UNCHANGED <<asked, thread, answer>> /\ job' = [job EXCEPT ![w] = queue[1]]
    BY <1>1, <2>1 DEF Take
  <2>3. \A i, j \in 1..Len(queue') : queue'[i] = queue'[j] => i = j
    <3> SUFFICES ASSUME NEW i \in 1..Len(queue'), NEW j \in 1..Len(queue'), queue'[i] = queue'[j]
                 PROVE  i = j
      OBVIOUS
    <3>1. i + 1 \in 1..Len(queue) /\ j + 1 \in 1..Len(queue) /\ queue[i + 1] = queue[j + 1]
      BY <2>1
    <3>2. i + 1 = j + 1
      BY <1>0, <3>1 DEF QueueInv
    <3> QED  BY <3>2
  <2>4. ASSUME NEW i \in 1..Len(queue')
        PROVE  /\ asked'[queue'[i]] # Nobody /\ thread'[queue'[i]] = "off"
               /\ \A v \in Worker : job'[v] # queue'[i]
    <3>1. i + 1 \in 1..Len(queue) /\ queue'[i] = queue[i + 1] /\ 1 \in 1..Len(queue) /\ i + 1 # 1
      BY <2>1
    <3>2. queue[i + 1] # queue[1]
      BY <1>0, <3>1 DEF QueueInv
    <3> QED  BY <1>0, <2>2, <3>1, <3>2 DEF QueueInv
  <2> QED  BY <1>0, <2>2, <2>3, <2>4 DEF QueueInv, UnmadeInv
<1>2. ASSUME UNCHANGED <<asked, queue, thread>>, \A v \in Worker : job'[v] \in {job[v], None},
             \A r \in Request : answer'[r] = answer[r] \/ asked[r] # Nobody
      PROVE  QueueInv' /\ UnmadeInv'
  <2>1. QueueInv'
    BY <1>0, <1>2 DEF QueueInv
  <2>2. UnmadeInv'
    BY <1>0, <1>2 DEF UnmadeInv
  <2> QED  BY <2>1, <2>2
<1>3. ASSUME NEW w \in Worker, NEW there, Goes(w, there) PROVE QueueInv' /\ UnmadeInv'
  BY <1>2, <1>3 DEF Goes
<1>4. ASSUME NEW w \in Worker, NEW status, at[w] # "idle", Responds(w, status)
      PROVE  QueueInv' /\ UnmadeInv'
  <2>1. job[w] \in Request /\ asked[job[w]] # Nobody
    BY <1>0, <1>4 DEF JobInv
  <2>2. \A v \in Worker : job'[v] \in {job[v], None}
    BY <1>0, <1>4 DEF Responds
  <2>3. \A r \in Request : answer'[r] = answer[r] \/ asked[r] # Nobody
    BY <1>0, <1>4, <2>1 DEF Responds
  <2> QED  BY <1>2, <1>4, <2>2, <2>3 DEF Responds
<1>5. ASSUME NEW w \in Worker, Spawn(w) PROVE QueueInv' /\ UnmadeInv'
  <2>1. job[w] \in Request /\ asked[job[w]] # Nobody
    BY <1>0, <1>5 DEF JobInv, Spawn, SpawnIf
  <2>2. /\ UNCHANGED <<asked, queue>> /\ \A v \in Worker : job'[v] \in {job[v], None}
        /\ \A r \in Request : r # job[w] => thread'[r] = thread[r] /\ answer'[r] = answer[r]
    BY <1>0, <1>5, <2>1 DEF Spawn, SpawnIf
  <2>3. \A i \in 1..Len(queue) : queue[i] # job[w]
    BY <1>0 DEF QueueInv
  <2>4. QueueInv'
    BY <1>0, <2>2, <2>3 DEF QueueInv
  <2>5. UnmadeInv'
    BY <1>0, <2>1, <2>2 DEF UnmadeInv
  <2> QED  BY <2>4, <2>5
<1>6. ASSUME NEW w \in Worker, Handle(w) PROVE QueueInv' /\ UnmadeInv'
  BY <1>3, <1>4, <1>6 DEF Handle, Gate
<1>7. ASSUME NEW w \in Worker, Reject(w) \/ Finish(w) \/ NoPort(w) \/ Refuse(w) \/ SpawnFails(w)
      PROVE  QueueInv' /\ UnmadeInv'
  BY <1>4, <1>7 DEF Reject, Finish, NoPort, Refuse, RefuseTo, SpawnFails
<1>8. ASSUME NEW w \in Worker, Waited(w) PROVE QueueInv' /\ UnmadeInv'
  BY <1>3, <1>8 DEF Waited
<1>9. ASSUME NEW w \in Worker, Claim(w) PROVE QueueInv' /\ UnmadeInv'
  BY <1>2, <1>9 DEF Claim
<1>10. ASSUME NEW r \in Request, End(r) PROVE QueueInv' /\ UnmadeInv'
  <2>1. /\ UNCHANGED <<asked, queue, job, answer>> /\ thread[r] = "live"
        /\ \A p \in Request : p # r => thread'[p] = thread[p]
    BY <1>0, <1>10 DEF End, EndIf
  <2>2. \A i \in 1..Len(queue) : queue[i] # r
    BY <1>0, <2>1 DEF QueueInv
  <2>3. QueueInv'
    BY <1>0, <2>1, <2>2 DEF QueueInv
  <2>4. UnmadeInv'
    BY <1>0, <2>1 DEF UnmadeInv
  <2> QED  BY <2>3, <2>4
<1>11. ASSUME NEW r \in Request, Close(r) PROVE QueueInv' /\ UnmadeInv'
  BY <1>2, <1>11 DEF Close
<1>12. ASSUME NEW r \in Request, NEW q \in Asked, Make(r, q) PROVE QueueInv' /\ UnmadeInv'
  <2>1. q # Nobody
    BY HttpAssumption DEF Ask, Kind, Nobody
  <2>2. /\ asked[r] = Nobody /\ asked'[r] = q /\ UNCHANGED <<job, thread, answer>>
        /\ \A p \in Request : p # r => asked'[p] = asked[p]
    BY <1>0, <1>12 DEF Make
  <2>3. /\ Len(queue) \in Nat /\ Len(queue') = Len(queue) + 1 /\ queue'[Len(queue) + 1] = r
        /\ \A i \in 1..Len(queue) : queue'[i] = queue[i]
    BY <1>0, <1>12, AppendProperties DEF Make
  <2>4. (\A i \in 1..Len(queue) : queue[i] # r) /\ \A w \in Worker : job[w] # r
    BY <1>0, <2>2 DEF QueueInv, JobInv
  <2>5. \A i, j \in 1..Len(queue') : queue'[i] = queue'[j] => i = j
    <3> SUFFICES ASSUME NEW i \in 1..Len(queue'), NEW j \in 1..Len(queue'), queue'[i] = queue'[j]
                 PROVE  i = j
      OBVIOUS
    <3>1. CASE i \in 1..Len(queue) /\ j \in 1..Len(queue)
      BY <1>0, <2>3, <3>1 DEF QueueInv
    <3>2. CASE i = Len(queue) + 1 \/ j = Len(queue) + 1
      BY <2>3, <2>4, <3>2
    <3> QED  BY <2>3, <3>1, <3>2
  <2>6. ASSUME NEW i \in 1..Len(queue')
        PROVE  /\ asked'[queue'[i]] # Nobody /\ thread'[queue'[i]] = "off"
               /\ \A w \in Worker : job'[w] # queue'[i]
    <3>1. CASE i \in 1..Len(queue)
      BY <1>0, <2>2, <2>3, <2>4, <3>1 DEF QueueInv
    <3>2. CASE i = Len(queue) + 1
      BY <1>0, <2>1, <2>2, <2>3, <2>4, <3>2 DEF UnmadeInv
    <3> QED  BY <2>3, <3>1, <3>2
  <2>7. UnmadeInv'
    BY <1>0, <2>1, <2>2 DEF UnmadeInv
  <2> QED  BY <2>5, <2>6, <2>7 DEF QueueInv
<1>13. CASE UNCHANGED vars
  BY <1>2, <1>13 DEF vars
<1> QED  BY <1>1, <1>5, <1>6, <1>7, <1>8, <1>9, <1>10, <1>11, <1>12, <1>13 DEF Next, Work
----------------------------------------------------------------------------
(* Every claim is counted until its stream is over or it is given back.    *)
LEMMA HonestStep == TypeOK /\ HandInv /\ Honest /\ [Next]_vars => Honest'
<1> SUFFICES ASSUME TypeOK, HandInv, Honest, [Next]_vars PROVE Honest'
  OBVIOUS
<1>0. /\ JobInv /\ DOMAIN thread = Request /\ streams \in Nat /\ MaxStreams \in Nat
      /\ \A w \in Worker : job[w] \in Request \cup {None}
      /\ Cardinality(Live) \in Nat /\ Cardinality(Workers({"spawn"})) \in Nat
      /\ Cardinality(Workers({"spawn", "refuse"})) \in Nat
  BY HttpAssumption, Finite DEF TypeOK, HandInv
<1>1. ASSUME NEW w \in Worker, NEW there, at' = [at EXCEPT ![w] = there],
             at[w] \notin {"spawn", "refuse"}, there \notin {"spawn", "refuse"},
             UNCHANGED <<streams, thread>>
      PROVE  Honest'
  <2>1. Shifts(w, there)
    BY <1>1, WorkerMoves
  <2>2. Live' = Live
    BY <1>1 DEF Live
  <2> QED  BY <1>0, <1>1, <2>1, <2>2 DEF Shifts, Honest
<1>2. ASSUME NEW w \in Worker, Claim(w) PROVE Honest'
  <2>0. at[w] = "claim" /\ streams' = streams + 1 /\ Live' = Live
    BY <1>2 DEF Claim, Live
  <2>1. CASE streams >= MaxStreams
    <3>1. at' = [at EXCEPT ![w] = "refuse"]
      BY <1>2, <2>1 DEF Claim
    <3>2. Shifts(w, "refuse")
      BY <3>1, WorkerMoves
    <3> QED  BY <1>0, <2>0, <3>2 DEF Shifts, Honest
  <2>2. CASE ~(streams >= MaxStreams)
    <3>1. at' = [at EXCEPT ![w] = "spawn"]
      BY <1>2, <2>2 DEF Claim
    <3>2. Shifts(w, "spawn")
      BY <3>1, WorkerMoves
    <3>3. Cardinality(Workers({"spawn"})) <= Cardinality(Workers({"spawn", "refuse"}))
      <4>1. Workers({"spawn"}) \in SUBSET Workers({"spawn", "refuse"})
        BY DEF Workers
      <4> QED  BY <4>1, Finite, FS_Subset
    <3> QED  BY <1>0, <2>0, <2>2, <3>2, <3>3 DEF Shifts, Honest
  <2> QED  BY <2>1, <2>2
<1>3. ASSUME NEW w \in Worker, Refuse(w) \/ SpawnFails(w) PROVE Honest'
  <2>1. /\ at' = [at EXCEPT ![w] = "idle"] /\ streams' = streams - 1 /\ Live' = Live
        /\ at[w] \in {"spawn", "refuse"}
    BY <1>3 DEF Refuse, RefuseTo, SpawnFails, Responds, Live
  <2>2. Shifts(w, "idle")
    BY <2>1, WorkerMoves
  <2> QED  BY <1>0, <2>1, <2>2 DEF Shifts, Honest
<1>4. ASSUME NEW w \in Worker, Spawn(w) PROVE Honest'
  <2>1. /\ at' = [at EXCEPT ![w] = "idle"] /\ streams' = streams /\ at[w] = "spawn"
        /\ job[w] \in Request /\ thread[job[w]] = "off"
        /\ thread' = [thread EXCEPT ![job[w]] = "live"]
    BY <1>0, <1>4 DEF Spawn, SpawnIf, JobInv
  <2>2. Shifts(w, "idle")
    BY <2>1, WorkerMoves
  <2>3. LiveShifts(job[w], "live")
    BY <2>1, StreamMoves
  <2> QED  BY <1>0, <2>1, <2>2, <2>3 DEF Shifts, LiveShifts, Honest
<1>5. ASSUME NEW r \in Request, End(r) PROVE Honest'
  <2>1. /\ UNCHANGED at /\ streams' = streams - 1 /\ thread[r] = "live"
        /\ thread' = [thread EXCEPT ![r] = "done"]
    BY <1>5 DEF End, EndIf
  <2>2. LiveShifts(r, "done")
    BY <2>1, StreamMoves
  <2>3. /\ Workers({"spawn"})' = Workers({"spawn"})
        /\ Workers({"spawn", "refuse"})' = Workers({"spawn", "refuse"})
    BY <2>1 DEF Workers
  <2> QED  BY <1>0, <2>1, <2>2, <2>3 DEF LiveShifts, Honest
<1>6. ASSUME NEW w \in Worker, Take(w) \/ Waited(w) PROVE Honest'
  <2>1. /\ at[w] \in {"idle", "waiting"} /\ UNCHANGED <<streams, thread>>
        /\ at' = [at EXCEPT ![w] = "gate"] \/ at' = [at EXCEPT ![w] = "work"]
    BY <1>6 DEF Take, Waited, Goes
  <2> QED  BY <1>1, <2>1
<1>7. ASSUME NEW w \in Worker, Handle(w) PROVE Honest'
  <2>1. /\ at[w] = "gate" /\ UNCHANGED <<streams, thread>>
        /\ \/ at' = [at EXCEPT ![w] = "idle"]
           \/ \E there \in {"sleep", "waiting", "work", "claim"} : at' = [at EXCEPT ![w] = there]
    BY <1>7 DEF Handle, Gate, Goes, Responds
  <2>2. PICK there \in {"idle", "sleep", "waiting", "work", "claim"} :
             at' = [at EXCEPT ![w] = there]
    BY <2>1
  <2> QED  BY <1>1, <2>1, <2>2
<1>8. ASSUME NEW w \in Worker, Reject(w) \/ Finish(w) \/ NoPort(w) PROVE Honest'
  <2>1. /\ at[w] \in {"sleep", "work", "claim"} /\ UNCHANGED <<streams, thread>>
        /\ at' = [at EXCEPT ![w] = "idle"]
    BY <1>8 DEF Reject, Finish, NoPort, Responds
  <2> QED  BY <1>1, <2>1
<1>9. ASSUME UNCHANGED <<streams, thread, at>> PROVE Honest'
  BY <1>9 DEF Honest, Live, Workers
<1>10. CASE \E r \in Request : Close(r) \/ \E q \in Asked : Make(r, q)
  BY <1>9, <1>10 DEF Close, Make
<1>11. CASE UNCHANGED vars
  BY <1>9, <1>11 DEF vars
<1> QED  BY <1>2, <1>3, <1>4, <1>5, <1>6, <1>7, <1>8, <1>10, <1>11 DEF Next, Work

(* A request from outside stays at the gate until it is answered 403 there,*)
(* if the rules permit no outsider, which is proved below.                 *)
LEMMA SettledStep ==
  ASSUME Permitted \cap Outsider = {}, TypeOK, HandInv, SettledFirst, [Next]_vars
  PROVE  SettledFirst'
<1> SUFFICES ASSUME NEW r \in Request, asked'[r] # Nobody, asked'[r].from \in Outsider
             PROVE  /\ answer'[r] \in {0, 403} /\ thread'[r] = "off"
                    /\ \A w \in Worker : job'[w] = r => at'[w] = "gate"
  BY DEF SettledFirst, Outsider
<1>0. /\ JobInv /\ QueueInv /\ UnmadeInv
      /\ DOMAIN at = Worker /\ DOMAIN job = Worker /\ DOMAIN thread = Request
      /\ DOMAIN asked = Request /\ DOMAIN answer = Request /\ None \notin Request
      /\ \A w \in Worker : job[w] \in Request \cup {None}
  BY DEF TypeOK, HandInv, Request, None
<1>1. CASE \E p \in Request, q \in Asked : Make(p, q)
  <2>1. PICK p \in Request, q \in Asked : Make(p, q)
    BY <1>1
  <2>2. CASE p = r
    <3>1. asked[r] = Nobody /\ UNCHANGED <<job, thread, answer>>
      BY <2>1, <2>2 DEF Make
    <3> QED  BY <1>0, <3>1 DEF JobInv, UnmadeInv
  <2>3. CASE p # r
    <3>1. asked'[r] = asked[r] /\ UNCHANGED <<at, job, thread, answer>>
      BY <1>0, <2>1, <2>3 DEF Make
    <3> QED  BY <3>1 DEF SettledFirst
  <2> QED  BY <2>2, <2>3
<1>2. CASE UNCHANGED asked
  <2>1. /\ answer[r] \in {0, 403} /\ thread[r] = "off"
        /\ \A w \in Worker : job[w] = r => at[w] = "gate"
    BY <1>2 DEF SettledFirst
  <2>2. ASSUME NEW w \in Worker, Take(w)
        PROVE  /\ answer'[r] \in {0, 403} /\ thread'[r] = "off"
               /\ \A v \in Worker : job'[v] = r => at'[v] = "gate"
    BY <1>0, <2>1, <2>2 DEF Take
  <2>3. ASSUME NEW w \in Worker, NEW there, Goes(w, there), job[w] # r
        PROVE  /\ answer'[r] \in {0, 403} /\ thread'[r] = "off"
               /\ \A v \in Worker : job'[v] = r => at'[v] = "gate"
    BY <1>0, <2>1, <2>3 DEF Goes
  <2>4. ASSUME NEW w \in Worker, NEW status, Responds(w, status), job[w] = r => status = 403
        PROVE  /\ answer'[r] \in {0, 403} /\ thread'[r] = "off"
               /\ \A v \in Worker : job'[v] = r => at'[v] = "gate"
    <3>1. answer'[r] \in {0, 403} /\ thread'[r] = "off"
      BY <1>0, <2>1, <2>4 DEF Responds
    <3>2. \A v \in Worker : job'[v] = r => job[v] = r /\ v # w
      BY <1>0, <2>4 DEF Responds
    <3>3. \A v \in Worker : v # w => at'[v] = at[v]
      BY <1>0, <2>4 DEF Responds
    <3> QED  BY <2>1, <3>1, <3>2, <3>3
  <2>5. ASSUME NEW w \in Worker, Handle(w)
        PROVE  /\ answer'[r] \in {0, 403} /\ thread'[r] = "off"
               /\ \A v \in Worker : job'[v] = r => at'[v] = "gate"
    <3>1. CASE job[w] = r
      <4>1. asked[job[w]].from \notin Permitted
        BY <1>2, <3>1
      <4>2. Responds(w, 403)
        BY <2>5, <4>1 DEF Handle, Gate
      <4> QED  BY <2>4, <4>2
    <3>2. CASE job[w] # r
      BY <2>3, <2>4, <2>5, <3>2 DEF Handle, Gate
    <3> QED  BY <3>1, <3>2
  <2>6. ASSUME NEW w \in Worker, at[w] # "gate",
               Reject(w) \/ Finish(w) \/ NoPort(w) \/ Refuse(w) \/ SpawnFails(w)
        PROVE  /\ answer'[r] \in {0, 403} /\ thread'[r] = "off"
               /\ \A v \in Worker : job'[v] = r => at'[v] = "gate"
    BY <2>1, <2>4, <2>6 DEF Reject, Finish, NoPort, Refuse, RefuseTo, SpawnFails
  <2>7. ASSUME NEW w \in Worker, Waited(w) \/ Claim(w)
        PROVE  /\ answer'[r] \in {0, 403} /\ thread'[r] = "off"
               /\ \A v \in Worker : job'[v] = r => at'[v] = "gate"
    <3>1. job[w] # r
      BY <2>1, <2>7 DEF Waited, Claim
    <3>2. CASE Waited(w)
      BY <2>3, <3>1, <3>2 DEF Waited
    <3>3. CASE Claim(w)
      BY <1>0, <2>1, <3>1, <3>3 DEF Claim
    <3> QED  BY <2>7, <3>2, <3>3
  <2>8. ASSUME NEW w \in Worker, Spawn(w)
        PROVE  /\ answer'[r] \in {0, 403} /\ thread'[r] = "off"
               /\ \A v \in Worker : job'[v] = r => at'[v] = "gate"
    <3>1. job[w] # r
      BY <2>1, <2>8 DEF Spawn, SpawnIf
    <3>2. job[w] \in Request
      BY <1>0, <2>8 DEF Spawn, SpawnIf, JobInv
    <3> QED  BY <1>0, <2>1, <2>8, <3>1, <3>2 DEF Spawn, SpawnIf
  <2>9. ASSUME NEW p \in Request, End(p) \/ Close(p)
        PROVE  /\ answer'[r] \in {0, 403} /\ thread'[r] = "off"
               /\ \A v \in Worker : job'[v] = r => at'[v] = "gate"
    BY <1>0, <2>1, <2>9 DEF End, EndIf, Close
  <2>10. \A w \in Worker : Reject(w) \/ Finish(w) \/ NoPort(w) \/ Refuse(w) \/ SpawnFails(w)
                            => at[w] # "gate"
    BY DEF Reject, Finish, NoPort, Refuse, RefuseTo, SpawnFails
  <2>11. CASE UNCHANGED vars
    BY <2>1, <2>11 DEF vars
  <2>12. CASE \E p \in Request, q \in Asked : Make(p, q)
    BY <1>1, <2>12
  <2> QED  BY <2>2, <2>5, <2>6, <2>7, <2>8, <2>9, <2>10, <2>11, <2>12 DEF Next, Work
<1>3. UNCHANGED asked \/ \E p \in Request, q \in Asked : Make(p, q)
  BY DEF Next, Work, Take, Handle, Gate, Goes, Responds, Reject, Finish, NoPort, Claim, Refuse,
         RefuseTo, Spawn, SpawnIf, Waited, SpawnFails, End, EndIf, Close, vars
<1> QED  BY <1>1, <1>2, <1>3
----------------------------------------------------------------------------
(* Induction over data: a set of numbers that is not empty has a least one. *)
LEMMA LeastNumber ==
  ASSUME NEW S \in SUBSET Nat, S # {}
  PROVE  \E m \in S : \A k \in S : ~(k < m)
<1> DEFINE R == OpToRel(<, Nat)
<1>1. IsWellFoundedOn(R, Nat)
  BY NatLessThanWellFounded
<1>2. \A k, m \in S : k < m => <<k, m>> \in R
  BY DEF OpToRel
<1> HIDE DEF R
<1>3. S \subseteq Nat
  OBVIOUS
<1>4. \E m \in S : \A k \in S : ~(<<k, m>> \in R)
  BY <1>1, <1>3, WFMin
<1> QED  BY <1>2, <1>4

LEMMA Induction ==
  ASSUME NEW S \in SUBSET Nat, 0 \in S, \A n \in S : n + 1 \in S
  PROVE  S = Nat
<1> SUFFICES ASSUME Nat \ S # {} PROVE FALSE
  OBVIOUS
<1>1. PICK m \in Nat \ S : \A k \in Nat \ S : ~(k < m)
  BY LeastNumber
<1>2. m # 0 /\ m - 1 \in Nat /\ m - 1 < m /\ (m - 1) + 1 = m
  BY <1>1
<1>3. m - 1 \in S
  BY <1>1, <1>2
<1> QED  BY <1>1, <1>2, <1>3
(* Power2 is what its definition says: tables of its first values exist,    *)
(* and agree.                                                               *)
Table(g, n) == /\ g \in [0..n -> Nat \ {0}]
               /\ \A i \in 0..n : g[i] = IF i = 0 THEN 1 ELSE 2 * g[i - 1]

LEMMA TablesExist == \A n \in Nat : \E g : Table(g, n)
<1> DEFINE S == {n \in Nat : \E g : Table(g, n)}
<1>1. 0 \in S
  <2>1. Table([i \in 0..0 |-> 1], 0)
    BY DEF Table
  <2> QED  BY <2>1
<1>2. ASSUME NEW n \in S PROVE n + 1 \in S
  <2>1. n \in Nat /\ \E g : Table(g, n)
    OBVIOUS
  <2>2. PICK g : Table(g, n)
    BY <2>1
  <2> DEFINE h == [i \in 0..(n + 1) |-> IF i = n + 1 THEN 2 * g[n] ELSE g[i]]
  <2>3. /\ n \in 0..n /\ g[n] \in Nat \ {0} /\ 2 * g[n] \in Nat \ {0}
        /\ \A i \in 0..n : g[i] \in Nat \ {0}
    BY <2>1, <2>2 DEF Table
  <2>4. \A i \in 0..(n + 1) : (i = n + 1 \/ i \in 0..n) /\ (i # 0 => i - 1 \in 0..n)
    BY <2>1
  <2>5. h \in [0..(n + 1) -> Nat \ {0}]
    BY <2>3, <2>4
  <2>6. ASSUME NEW i \in 0..(n + 1)
        PROVE  h[i] = IF i = 0 THEN 1 ELSE 2 * h[i - 1]
    <3>1. CASE i = n + 1
      <4>1. i # 0 /\ i - 1 = n /\ n # n + 1 /\ n \in 0..(n + 1)
        BY <2>1, <3>1
      <4>2. h[i] = 2 * g[n] /\ h[n] = g[n]
        BY <3>1, <4>1
      <4> QED  BY <4>1, <4>2
    <3>2. CASE i # n + 1 /\ i # 0
      <4>1. i \in 0..n /\ i - 1 \in 0..(n + 1) /\ i - 1 # n + 1
        BY <2>1, <3>2
      <4>2. h[i] = g[i] /\ h[i - 1] = g[i - 1]
        BY <3>2, <4>1
      <4>3. g[i] = 2 * g[i - 1]
        BY <2>2, <3>2, <4>1 DEF Table
      <4> QED  BY <3>2, <4>2, <4>3
    <3>3. CASE i = 0 /\ i # n + 1
      <4>1. g[0] = 1 /\ h[0] = g[0]
        BY <2>1, <2>2, <3>3 DEF Table
      <4> QED  BY <3>3, <4>1
    <3> QED  BY <3>1, <3>2, <3>3
  <2> HIDE DEF h
  <2>7. Table(h, n + 1)
    BY <2>5, <2>6 DEF Table
  <2> QED  BY <2>1, <2>7
<1>3. S \in SUBSET Nat
  OBVIOUS
<1> HIDE DEF S
<1>4. S = Nat
  BY <1>1, <1>2, <1>3, Induction
<1> QED  BY <1>4 DEF S

LEMMA TablesAgree ==
  ASSUME NEW n \in Nat, NEW g, NEW h, Table(g, n), Table(h, n + 1)
  PROVE  g[n] = h[n]
<1> DEFINE S == {i \in Nat : i <= n => g[i] = h[i]}
<1>1. 0 \in S
  BY DEF Table
<1>2. ASSUME NEW i \in S PROVE i + 1 \in S
  <2>1. i \in Nat /\ (i <= n => g[i] = h[i])
    OBVIOUS
  <2>2. ASSUME i + 1 <= n PROVE g[i + 1] = h[i + 1]
    <3>1. i + 1 \in 0..n /\ i + 1 \in 0..(n + 1) /\ i + 1 # 0 /\ (i + 1) - 1 = i /\ i <= n
      BY <2>1, <2>2
    <3>2. g[i + 1] = 2 * g[i] /\ h[i + 1] = 2 * h[i]
      BY <3>1 DEF Table
    <3> QED  BY <2>1, <3>1, <3>2
  <2> QED  BY <2>1, <2>2
<1>3. S \in SUBSET Nat
  OBVIOUS
<1> HIDE DEF S
<1>4. S = Nat
  BY <1>1, <1>2, <1>3, Induction
<1> QED  BY <1>4 DEF S

LEMMA PowersOfTwo ==
  /\ \A n \in Nat : Power2[n] \in Nat \ {0} /\ Power2[n + 1] = 2 * Power2[n]
  /\ Power2[0] = 1
<1> DEFINE T(n) == CHOOSE g : Table(g, n)
           F == [n \in Nat |-> T(n)[n]]
<1>1. \A n \in Nat : Table(T(n), n)
  BY TablesExist
<1> HIDE DEF T
<1>2. F[0] = 1
  BY <1>1 DEF Table
<1>3. ASSUME NEW n \in Nat PROVE F[n + 1] = 2 * F[n]
  <2>1. Table(T(n), n) /\ Table(T(n + 1), n + 1)
    BY <1>1
  <2>2. T(n)[n] = T(n + 1)[n]
    BY <2>1, TablesAgree
  <2>3. n + 1 \in 0..(n + 1) /\ n + 1 # 0 /\ (n + 1) - 1 = n /\ n + 1 \in Nat
    OBVIOUS
  <2>4. T(n + 1)[n + 1] = 2 * T(n + 1)[n]
    BY <2>1, <2>3 DEF Table
  <2> QED  BY <2>2, <2>3, <2>4
<1>4. F = [n \in Nat |-> IF n = 0 THEN 1 ELSE 2 * F[n - 1]]
  <2>1. ASSUME NEW n \in Nat PROVE F[n] = IF n = 0 THEN 1 ELSE 2 * F[n - 1]
    <3>1. CASE n = 0
      BY <1>2, <3>1
    <3>2. CASE n # 0
      <4>1. n - 1 \in Nat /\ (n - 1) + 1 = n
        BY <3>2
      <4>2. F[(n - 1) + 1] = 2 * F[n - 1]
        BY <1>3, <4>1
      <4> QED  BY <3>2, <4>1, <4>2
    <3> QED  BY <3>1, <3>2
  <2>2. F = [n \in Nat |-> F[n]]
    OBVIOUS
  <2> HIDE DEF F
  <2> QED  BY <2>1, <2>2
<1>5. Power2 = [n \in Nat |-> IF n = 0 THEN 1 ELSE 2 * Power2[n - 1]]
  <2> HIDE DEF F
  <2> QED  BY <1>4 DEF Power2
<1> HIDE DEF F
<1>6. \A n \in Nat : Power2[n + 1] = 2 * Power2[n]
  <2> TAKE n \in Nat
  <2>1. n + 1 \in Nat /\ n + 1 # 0 /\ (n + 1) - 1 = n
    OBVIOUS
  <2> QED  BY <1>5, <2>1
<1> DEFINE S == {n \in Nat : Power2[n] \in Nat \ {0}}
<1>7. 0 \in S /\ Power2[0] = 1
  BY <1>5
<1>8. ASSUME NEW n \in S PROVE n + 1 \in S
  BY <1>6, <1>8
<1>9. S \in SUBSET Nat
  OBVIOUS
<1> HIDE DEF S
<1>10. S = Nat
  BY <1>7, <1>8, <1>9, Induction
<1> QED  BY <1>6, <1>7, <1>10 DEF S
----------------------------------------------------------------------------
(* Division by a number that is not fixed.                                  *)
LEMMA Division ==
  ASSUME NEW N \in Nat \ {0}, NEW b \in Nat
  PROVE  /\ b \div N \in Nat /\ b % N \in 0..(N - 1) /\ b = N * (b \div N) + (b % N)
         /\ b < N => b \div N = 0
OBVIOUS

LEMMA Quotient ==
  ASSUME NEW N \in Nat \ {0}, NEW q \in Nat, NEW r \in 0..(N - 1)
  PROVE  (N * q + r) \div N = q /\ (N * q + r) % N = r
OBVIOUS

LEMMA Halves ==
  ASSUME NEW N \in Nat \ {0}, NEW b \in Nat
  PROVE  /\ b \div (2 * N) = (b \div N) \div 2
         /\ b \div N = 2 * (b \div (2 * N)) + ((b \div N) % 2)
<1> DEFINE q == b \div N  r == b % N  s == q \div 2  t == q % 2
<1>1. q \in Nat /\ r \in 0..(N - 1) /\ b = N * q + r
  BY Division
<1> HIDE DEF q, r
<1>2. s \in Nat /\ t \in 0..1 /\ q = 2 * s + t
  BY <1>1
<1> HIDE DEF s, t
<1>3. N * t + r \in 0..(2 * N - 1) /\ 2 * N \in Nat \ {0}
  <2>1. t = 0 \/ t = 1
    BY <1>2
  <2>2. N * t = 0 \/ N * t = N
    BY <2>1
  <2> QED  BY <1>1, <2>2
<1>4. b = (2 * N) * s + (N * t + r)
  BY <1>1, <1>2
<1>5. b \div (2 * N) = s
  BY <1>2, <1>3, <1>4, Quotient
<1> QED  BY <1>2, <1>5 DEF q, s, t

LEMMA Same ==
  ASSUME NEW N \in Nat \ {0}, NEW a \in Nat, NEW b \in Nat
  PROVE  a - (a % N) = b - (b % N) <=> a \div N = b \div N
<1> DEFINE p == a \div N  q == b \div N
<1>1. p \in Nat /\ q \in Nat /\ a - (a % N) = N * p /\ b - (b % N) = N * q
  BY Division
<1> HIDE DEF p, q
<1>2. N * p = N * q <=> p = q
  BY <1>1
<1> QED  BY <1>1, <1>2 DEF p, q

(* Two numbers agree from bit k on exactly if they do without their k low   *)
(* bits.                                                                    *)
LEMMA BitStep ==
  ASSUME NEW a \in Nat, NEW k \in Nat
  PROVE  /\ a \div Power2[k] \in Nat
         /\ a \div Power2[k] = 2 * (a \div Power2[k + 1]) + Bit(a, k)
         /\ a \div Power2[k + 1] = (a \div Power2[k]) \div 2
<1>1. Power2[k] \in Nat \ {0} /\ Power2[k + 1] = 2 * Power2[k]
  BY PowersOfTwo
<1> QED  BY <1>1, Division, Halves DEF Bit

LEMMA HighBitsAgree ==
  ASSUME NEW a \in Nat, NEW b \in Nat, NEW k \in Nat, a \div Power2[k] = b \div Power2[k]
  PROVE  \A i \in Nat : i >= k => Bit(a, i) = Bit(b, i)
<1> DEFINE S == {n \in Nat : a \div Power2[k + n] = b \div Power2[k + n]}
<1>1. 0 \in S
  <2>1. k + 0 = k
    OBVIOUS
  <2> QED  BY <2>1
<1>2. ASSUME NEW n \in S PROVE n + 1 \in S
  <2>1. n \in Nat /\ k + n \in Nat /\ k + (n + 1) = (k + n) + 1
        /\ a \div Power2[k + n] = b \div Power2[k + n]
    OBVIOUS
  <2>2. a \div Power2[(k + n) + 1] = b \div Power2[(k + n) + 1]
    BY <2>1, BitStep
  <2> QED  BY <2>1, <2>2
<1>3. S \in SUBSET Nat
  OBVIOUS
<1> HIDE DEF S
<1>4. S = Nat
  BY <1>1, <1>2, <1>3, Induction
<1>5. ASSUME NEW i \in Nat, i >= k PROVE Bit(a, i) = Bit(b, i)
  <2>1. i - k \in S /\ k + (i - k) = i
    BY <1>4, <1>5
  <2>2. a \div Power2[k + (i - k)] = b \div Power2[k + (i - k)]
    BY <2>1 DEF S
  <2> QED  BY <2>1, <2>2 DEF Bit
<1> QED  BY <1>5

LEMMA HighBitsSuffice ==
  ASSUME NEW w \in Nat, NEW a \in 0..(Power2[w] - 1), NEW b \in 0..(Power2[w] - 1),
         NEW k \in 0..w, \A i \in k..(w - 1) : Bit(a, i) = Bit(b, i)
  PROVE  a \div Power2[k] = b \div Power2[k]
<1> DEFINE S == {n \in Nat : n <= w - k => a \div Power2[w - n] = b \div Power2[w - n]}
<1>0. a \in Nat /\ b \in Nat /\ Power2[w] \in Nat \ {0} /\ a < Power2[w] /\ b < Power2[w]
  BY PowersOfTwo
<1>1. 0 \in S
  <2>1. w - 0 = w
    OBVIOUS
  <2>2. a \div Power2[w] = 0 /\ b \div Power2[w] = 0
    BY <1>0, Division
  <2> QED  BY <2>1, <2>2
<1>2. ASSUME NEW n \in S PROVE n + 1 \in S
  <2> DEFINE j == w - (n + 1)
  <2>1. n \in Nat /\ (n <= w - k => a \div Power2[w - n] = b \div Power2[w - n])
    OBVIOUS
  <2>2. ASSUME n + 1 <= w - k PROVE a \div Power2[j] = b \div Power2[j]
    <3>1. j \in k..(w - 1) /\ j \in Nat /\ w - n = j + 1 /\ n <= w - k
      BY <2>1, <2>2
    <3>2. a \div Power2[j + 1] = b \div Power2[j + 1] /\ Bit(a, j) = Bit(b, j)
      BY <2>1, <3>1
    <3> HIDE DEF j
    <3>3. /\ a \div Power2[j] = 2 * (a \div Power2[j + 1]) + Bit(a, j)
          /\ b \div Power2[j] = 2 * (b \div Power2[j + 1]) + Bit(b, j)
      BY <1>0, <3>1, BitStep
    <3> QED  BY <3>2, <3>3
  <2> QED  BY <2>1, <2>2
<1>3. S \in SUBSET Nat
  OBVIOUS
<1> HIDE DEF S
<1>4. S = Nat
  BY <1>1, <1>2, <1>3, Induction
<1>5. w - k \in S /\ w - (w - k) = k
  BY <1>4
<1> QED  BY <1>5 DEF S
----------------------------------------------------------------------------
(* mask_v4 and mask_v6 compare the first `prefix` bits, no more, no fewer.  *)
LEMMA MaskComparesPrefix ==
  ASSUME NEW w \in Nat, NEW p \in 0..w,
         NEW a \in 0..(Power2[w] - 1), NEW b \in 0..(Power2[w] - 1)
  PROVE  Mask(a, w, p) = Mask(b, w, p) <=> \A i \in 1..p : Bit(a, w - i) = Bit(b, w - i)
<1>0. a \in Nat /\ b \in Nat /\ p \in Nat
  BY PowersOfTwo
<1>1. CASE p = 0
  BY <1>1 DEF Mask
<1>2. CASE p # 0
  <2> DEFINE k == w - p
  <2>1. k \in 0..w /\ k \in Nat /\ Power2[k] \in Nat \ {0}
    BY PowersOfTwo
  <2>2. Mask(a, w, p) = Mask(b, w, p) <=> a \div Power2[k] = b \div Power2[k]
    BY <1>0, <1>2, <2>1, Same DEF Mask, Cleared
  <2>3. ASSUME a \div Power2[k] = b \div Power2[k], NEW i \in 1..p
        PROVE  Bit(a, w - i) = Bit(b, w - i)
    <3>1. w - i \in Nat /\ w - i >= k
      BY <1>0
    <3> HIDE DEF k
    <3> QED  BY <1>0, <2>1, <2>3, <3>1, HighBitsAgree
  <2>4. ASSUME \A i \in 1..p : Bit(a, w - i) = Bit(b, w - i)
        PROVE  a \div Power2[k] = b \div Power2[k]
    <3>1. ASSUME NEW j \in k..(w - 1) PROVE Bit(a, j) = Bit(b, j)
      <4>1. w - j \in 1..p /\ w - (w - j) = j
        BY <1>0
      <4>2. Bit(a, w - (w - j)) = Bit(b, w - (w - j))
        BY <2>4, <4>1
      <4> QED  BY <4>1, <4>2
    <3> HIDE DEF k
    <3> QED  BY <2>1, <3>1, HighBitsSuffice
  <2> QED  BY <2>2, <2>3, <2>4
<1> QED  BY <1>1, <1>2

(* An address, in whichever of its spellings, is the host it belongs to.    *)
LEMMA CanonicalIsHost ==
  ASSUME NEW ip \in Address
  PROVE  /\ Canonical(ip) = Host(ip) /\ Host(ip) \in Address
         /\ Host(ip).fam \in {4, 6} /\ Host(ip).bits \in 0..(Power2[Width(Host(ip).fam)] - 1)
<1> DEFINE N == Power2[W4]
<1>0. /\ N \in Nat \ {0} /\ Power2[W6] \in Nat \ {0} /\ Power2[W6 - W4] \in Nat \ {0}
      /\ MappedTag \in Nat
  BY AllowlistAssumption, PowersOfTwo
<1>1. CASE ip \in V4
  <2>1. ip.fam = 4 /\ ip.bits \in 0..(Power2[W4] - 1)
    BY <1>1 DEF V4
  <2>2. Canonical(ip) = ip /\ Host(ip) = ip
    BY <2>1 DEF Canonical, Host
  <2> QED  BY <2>1, <2>2 DEF Width
<1>2. CASE ip \in V6
  <2>1. ip.fam = 6 /\ ip.bits \in 0..(Power2[W6] - 1) /\ ip.bits \in Nat
    BY <1>0, <1>2 DEF V6
  <2> DEFINE b == ip.bits
  <2>2. b \div N \in Nat /\ b % N \in 0..(N - 1) /\ b = N * (b \div N) + (b % N)
    BY <1>0, <2>1, Division
  <2>3. CASE b \div N = MappedTag
    <3>1. b = MappedTag * N + (b % N) /\ b - MappedTag * N = b % N
      <4>1. b \in Nat /\ N * MappedTag = MappedTag * N /\ MappedTag * N \in Nat
        BY <1>0, <2>1
      <4>2. b = N * MappedTag + (b % N) /\ b % N \in Nat
        BY <1>0, <2>2, <2>3
      <4> HIDE DEF N, b
      <4> QED  BY <4>1, <4>2
    <3> DEFINE v == [fam |-> 4, bits |-> b % N]
    <3>2. v \in V4 /\ v.fam = 4 /\ v.bits = b % N
      BY <2>2 DEF V4
    <3>3. Canonical(ip) = v
      BY <2>1, <2>3 DEF Canonical
    <3>4. Host(ip) = v
      <4>1. \E v4 \in V4 : ip.fam = 6 /\ ip.bits = MappedTag * Power2[W4] + v4.bits
        BY <2>1, <3>1, <3>2
      <4> QED  BY <3>1, <4>1 DEF Host
    <3> QED  BY <2>2, <3>2, <3>3, <3>4 DEF Address, Width
  <2>4. CASE b \div N # MappedTag
    <3>1. Canonical(ip) = ip
      BY <2>4 DEF Canonical
    <3>2. ASSUME NEW v4 \in V4, ip.bits = MappedTag * Power2[W4] + v4.bits PROVE FALSE
      <4>1. v4.bits \in 0..(N - 1)
        BY DEF V4
      <4>2. (N * MappedTag + v4.bits) \div N = MappedTag
        BY <1>0, <4>1, Quotient
      <4>3. N * MappedTag = MappedTag * N
        BY <1>0
      <4> QED  BY <2>4, <3>2, <4>2, <4>3
    <3>3. Host(ip) = ip
      BY <3>2 DEF Host
    <3> QED  BY <2>1, <3>1, <3>3 DEF Width
  <2> QED  BY <2>3, <2>4
<1> QED  BY <1>1, <1>2 DEF Address

(* What Cidr::parse lets through has a prefix and a base of its family's    *)
(* width.                                                                   *)
LEMMA RulesFit ==
  ASSUME NEW rule \in Cidr
  PROVE  /\ rule.fam \in {4, 6} /\ Width(rule.fam) \in Nat /\ rule.prefix \in 0..Width(rule.fam)
         /\ rule.bits \in 0..(Power2[Width(rule.fam)] - 1)
<1>1. PICK a \in Address, p \in {NoPrefix} \cup 0..W6 : rule = Parse(a, p)
  BY DEF Cidr
<1> DEFINE base == Canonical(a)
           q == IF p = NoPrefix THEN Width(base.fam) ELSE p
<1>2. base.fam \in {4, 6} /\ base.bits \in 0..(Power2[Width(base.fam)] - 1)
  BY CanonicalIsHost
<1>3. rule # Refused
  BY DEF Cidr
<1>4. ~(q > Width(base.fam)) /\ rule = [fam |-> base.fam, bits |-> base.bits, prefix |-> q]
  BY <1>1, <1>3 DEF Parse
<1>5. Width(base.fam) \in Nat /\ W6 \in Nat
  BY AllowlistAssumption DEF Width
<1> HIDE DEF base
<1>6. q \in 0..Width(base.fam)
  BY <1>4, <1>5 DEF NoPrefix
<1> HIDE DEF q
<1> QED  BY <1>2, <1>4, <1>5, <1>6

LEMMA ContainsAsMeant ==
  ASSUME NEW rule \in Cidr, NEW ip \in Address
  PROVE  Contains(rule, ip) <=> Covers(rule, Host(ip))
<1> DEFINE h == Host(ip)  w == Width(rule.fam)
<1>1. Canonical(ip) = h /\ h.fam \in {4, 6} /\ h.bits \in 0..(Power2[Width(h.fam)] - 1)
  BY CanonicalIsHost
<1>2. w \in Nat /\ rule.prefix \in 0..w /\ rule.bits \in 0..(Power2[w] - 1)
  BY RulesFit
<1>3. CASE rule.fam # h.fam
  BY <1>1, <1>3 DEF Contains, Covers
<1>4. CASE rule.fam = h.fam
  <2>1. h.bits \in 0..(Power2[w] - 1)
    BY <1>1, <1>4
  <2>2. Contains(rule, ip) <=> Mask(rule.bits, w, rule.prefix) = Mask(h.bits, w, rule.prefix)
    BY <1>1, <1>4 DEF Contains
  <2>3. Covers(rule, h) <=> \A i \in 1..rule.prefix : Bit(h.bits, w - i) = Bit(rule.bits, w - i)
    BY <1>4 DEF Covers
  <2> HIDE DEF h, w
  <2>4. Mask(rule.bits, w, rule.prefix) = Mask(h.bits, w, rule.prefix)
        <=> \A i \in 1..rule.prefix : Bit(rule.bits, w - i) = Bit(h.bits, w - i)
    BY <1>2, <2>1, MaskComparesPrefix
  <2> QED  BY <2>2, <2>3, <2>4 DEF h
<1> QED  BY <1>3, <1>4

LEMMA PermitsAsMeant ==
  ASSUME NEW rules \in Seq(Cidr), NEW ip \in Address
  PROVE  Permits(rules, ip) <=> Meant(rules, ip)
<1>1. \A i \in DOMAIN rules : rules[i] \in Cidr
  OBVIOUS
<1>2. \A i \in DOMAIN rules : Contains(rules[i], ip) <=> Covers(rules[i], Host(ip))
  BY <1>1, ContainsAsMeant
<1>3. Canonical(ip) = Host(ip)
  BY CanonicalIsHost
<1> QED  BY <1>2, <1>3 DEF Permits, Meant

LEMMA SuggestedCovers ==
  ASSUME NEW ip \in Address, Host(ip).fam = 4
  PROVE  Meant(<<Suggested(ip)>>, ip)
<1> DEFINE h == Host(ip)  r == Suggested(ip)
<1>1. /\ Canonical(ip) = h /\ h.fam = 4 /\ h.bits \in 0..(Power2[W4] - 1)
      /\ Power2[W4] \in Nat \ {0} /\ W4 \in Nat \ {0}
  BY CanonicalIsHost, PowersOfTwo, AllowlistAssumption DEF Width
<1>2. r.fam = 4 /\ r.bits = 2 * (h.bits \div 2) /\ r.prefix = W4 - 1
  BY <1>1 DEF Suggested
<1> HIDE DEF h, r
<1>3. h.bits \in Nat /\ r.bits \in Nat /\ h.bits \div 2 = r.bits \div 2
  BY <1>1, <1>2
<1>4. Power2[1] = 2
  <2>1. Power2[0 + 1] = 2 * Power2[0]
    BY PowersOfTwo
  <2> QED  BY <2>1, PowersOfTwo
<1>5. \A i \in Nat : i >= 1 => Bit(h.bits, i) = Bit(r.bits, i)
  BY <1>3, <1>4, HighBitsAgree
<1>6. \A i \in 1..(W4 - 1) : W4 - i \in Nat /\ W4 - i >= 1
  BY <1>1
<1>7. Covers(r, h)
  BY <1>1, <1>2, <1>5, <1>6 DEF Covers, Width
<1> QED  BY <1>7 DEF Meant, h, r

(* A rule lets in the hosts it covers and nobody else, whichever way an    *)
(* IPv4 client's address is written, and the network the program suggests  *)
(* has the address it was made for (net.rs:38-39, 66, 138-142), at any     *)
(* widths of the addresses.                                                *)
THEOREM RulesMeanWhatTheySay == Spec => []AsMeant
<1>1. AsMeant
  <2> SUFFICES ASSUME NEW ip \in Address
               PROVE  /\ Permits(<<>>, ip)
                      /\ \A rule \in Cidr : Permits(<<rule>>, ip) <=> Meant(<<rule>>, ip)
                      /\ Host(ip).fam = 4 => Meant(<<Suggested(ip)>>, ip)
    BY DEF AsMeant
  <2>1. \A rule \in Cidr : <<rule>> \in Seq(Cidr)
    OBVIOUS
  <2>2. Permits(<<>>, ip)
    BY DEF Permits
  <2> QED  BY <2>1, <2>2, PermitsAsMeant, SuggestedCovers
<1> QED  BY <1>1, PTL

(* The count is honest (http.rs:303) and the allowlist settled first       *)
(* (http.rs:121-122), with any rules and any number of workers, streams and*)
(* requests.                                                               *)
THEOREM OutsidersStayOut == Spec => []Inv
<1>1. Permitted \cap Outsider = {}
  BY HttpAssumption, PermitsAsMeant DEF Permitted, Outsider
<1>2. Inv /\ HandInv /\ [Next]_vars => Inv' /\ HandInv'
  BY <1>1, TypeStep, JobStep, QueueStep, HonestStep, SettledStep DEF Inv, HandInv
<1> QED  BY InitHttp, <1>2, PTL DEF Spec
====
