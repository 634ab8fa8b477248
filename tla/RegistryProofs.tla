---- MODULE RegistryProofs ----
(***************************************************************************)
(* The registry, proved for any number of workers, devices and requests:   *)
(* supervisors are neither lost nor confused, a device has one entry, and  *)
(* what the page shows of a port that two requests never worked on at once *)
(* is real.  None of the four is inductive: the first three rest on what a *)
(* worker holds at each step (WorkInv) and on the device being opened      *)
(* exclusively (DeviceInv), the last on where the one request that works   *)
(* on a port stands (PortInv).                                             *)
(***************************************************************************)
EXTENDS Registry, TLAPS

Pc == {"idle", "check", "take", "clash", "inject", "persist", "was", "patch", "join", "clear",
       "retain", "copy", "open", "bind", "write", "store", "mark"}
Op == {"start", "stop", "remove", "update", "send", "add"}
Supervisor == 1..MaxStarts
Job == [pc : Pc, op : Op \cup {None}, e : Entry \cup {None}, s : Supervisor \cup {None},
        set : SUBSET Field, port : TcpPort \cup {None}, was : BOOLEAN]
Started == [e : Entry, port : TcpPort \cup {None}, set : SUBSET Field]

Types == /\ listed \subseteq Entry
         /\ dev \in [Entry -> Device \cup {None}]
         /\ tcp \in [Entry -> TcpPort \cup {None}]
         /\ cfg \in [Entry -> SUBSET Field]
         /\ running \in [Entry -> BOOLEAN]
         /\ control \in [Entry -> Supervisor \cup {None}]
         /\ spawned \in 0..MaxStarts
         /\ alive \subseteq 1..spawned
         /\ sup \in [Supervisor -> Started \cup {None}]
         /\ wk \in [Worker -> Job]
         /\ left \in [Worker -> Nat]
         /\ raced \subseteq Entry

(* What a worker has at each step: a port that was paired, an operation    *)
(* that has this step, and a Control exactly between taking it and joining *)
(* it, or between spawning its supervisor and storing it.                  *)
Working(w) ==
  /\ wk[w].op = None <=> wk[w].pc = "idle"
  /\ wk[w].op # None => wk[w].e \in Entry /\ dev[wk[w].e] # None
  /\ wk[w].op = "send" <=> wk[w].pc \in {"inject", "write"}
  /\ wk[w].pc \in {"take", "join", "clear"} => wk[w].op \in {"stop", "remove", "update"}
  /\ wk[w].pc = "retain" => wk[w].op = "remove"
  /\ wk[w].pc \in {"clash", "was", "patch"} => wk[w].op = "update"
  /\ wk[w].pc = "persist" => wk[w].op \in {"add", "remove", "update"}
  /\ wk[w].s # None <=> wk[w].pc \in {"join", "store"}
WorkInv == \A w \in Worker : Working(w)

(* Entries that are listed or were started have a device; the others were  *)
(* never used.                                                             *)
EntryInv == \A e \in Entry : dev[e] = None =>
  e \notin listed /\ control[e] = None /\ ~running[e]

(* Every Control is in one place, and belongs to a live supervisor of that *)
(* place's entry.                                                          *)
HandInv ==
  /\ \A w \in Worker : wk[w].s # None =>
       /\ wk[w].s \in alive /\ sup[wk[w].s].e = wk[w].e
       /\ \A v \in Worker : wk[v].s = wk[w].s => v = w
       /\ \A e \in Entry : control[e] # wk[w].s
  /\ ControlIsLive
  /\ NoLeak

(* A device is open once: in one supervisor, or in one start before its    *)
(* bind.                                                                   *)
DeviceInv ==
  /\ \A s \in alive : sup[s] \in Started /\ dev[sup[s].e] # None
  /\ \A s, t \in alive : dev[sup[s].e] = dev[sup[t].e] => s = t
  /\ \A w \in Worker : wk[w].pc = "bind" =>
       /\ \A s \in alive : dev[sup[s].e] # dev[wk[w].e]
       /\ \A v \in Worker : wk[v].pc = "bind" /\ dev[wk[v].e] = dev[wk[w].e] => v = w

OwnInv == Types /\ WorkInv /\ EntryInv /\ HandInv /\ DeviceInv /\ OneEntryPerDevice

(* A port two requests never worked on at once: whoever works on its device*)
(* is alone and works on this entry.  Between its take and its clear, and  *)
(* between its store and its mark, the flag and the slot may disagree.     *)
Changes(w, e) == wk[w].op \notin {None, "send"} /\ dev[wk[w].e] = dev[e]
Alone(e) == \A v, w \in Worker : Changes(v, e) /\ Changes(w, e) => v = w
Where(w, e) ==
  /\ wk[w].e = e
  /\ wk[w].pc \in {"join", "clear", "patch"} => control[e] = None
  /\ wk[w].pc \in {"copy", "open", "bind", "store", "mark"} => ~running[e]
  /\ wk[w].pc \in {"open", "bind"} => wk[w].set = cfg[e]
  /\ wk[w].pc = "store" => sup[wk[w].s].set = cfg[e] /\ sup[wk[w].s].port = tcp[e]
  /\ wk[w].pc = "mark" => control[e] # None
  /\ wk[w].pc = "persist" => wk[w].op # "remove"
Steady(e) == (\A w \in Worker : Changes(w, e) => wk[w].pc \notin {"join", "clear", "mark"})
               => (running[e] <=> control[e] # None)
AsConfigured(e) == control[e] # None =>
  sup[control[e]].set = cfg[e] /\ sup[control[e]].port = tcp[e]
PortOk(e) == /\ Alone(e) /\ Steady(e) /\ AsConfigured(e)
             /\ \A w \in Worker : Changes(w, e) => Where(w, e)
PortInv == \A e \in listed \ raced : PortOk(e)
----------------------------------------------------------------------------
(* A worker's step leaves the other workers where they are.                *)
LEMMA PutFacts ==
  ASSUME NEW w \in Worker, NEW r \in Job, wk \in [Worker -> Job], Put(w, r)
  PROVE  /\ wk' \in [Worker -> Job]
         /\ wk'[w] = r
         /\ \A v \in Worker \ {w} : wk'[v] = wk[v]
BY DEF Put

LEMMA IdleJob == Idle \in Job
BY DEF Idle, Job, Pc

LEMMA InitTypes == Init => Types
<1> SUFFICES ASSUME Init PROVE Types
  OBVIOUS
<1> QED  BY NumberAssumption, IdleJob DEF Init, Types, Supervisor

(* What each step makes of its worker's record.                            *)
LEMMA JobEdits ==
  ASSUME NEW r \in Job, NEW pc \in Pc
  PROVE  /\ [r EXCEPT !.pc = pc] \in Job
         /\ \A e \in Entry : [r EXCEPT !.e = e, !.pc = pc] \in Job
         /\ \A s \in Supervisor \cup {None} : [r EXCEPT !.s = s, !.pc = pc] \in Job
         /\ \A set \in SUBSET Field : [r EXCEPT !.set = set, !.pc = pc] \in Job
         /\ \A was \in BOOLEAN : [r EXCEPT !.was = was, !.pc = pc] \in Job
BY DEF Job

LEMMA JobOfRequest ==
  ASSUME NEW pc \in Pc, NEW op \in Op, NEW e \in Entry, NEW set \in SUBSET Field,
         NEW port \in TcpPort \cup {None}
  PROVE  /\ [Idle EXCEPT !.pc = pc, !.op = op, !.e = e, !.set = set, !.port = port] \in Job
         /\ [Idle EXCEPT !.pc = pc, !.op = op, !.e = e] \in Job
BY IdleJob DEF Job, Idle

LEMMA JobStep ==
  ASSUME Types, WorkInv, NEW w \in Worker, Request(w) \/ Add(w) \/ Work(w)
  PROVE  wk' \in [Worker -> Job] /\ \A v \in Worker \ {w} : wk'[v] = wk[v]
<1> USE NumberAssumption, NoneAssumption
<1>0. wk \in [Worker -> Job] /\ wk[w] \in Job
  BY DEF Types
<1> SUFFICES \E r \in Job : Put(w, r)
  BY <1>0, PutFacts
<1>1. CASE Request(w)
  <2>1. PICK op \in DOMAIN FirstStep, e \in listed :
          \E set \in {{}} \cup (IF op = "update" THEN {cfg[e] \cup {f} : f \in Field} ELSE {}),
             port \in {None} \cup (IF op = "update" THEN TcpPort ELSE {}) :
            Put(w, [Idle EXCEPT !.pc = FirstStep[op], !.op = op, !.e = e,
                                !.set = set, !.port = port])
    BY <1>1 DEF Request
  <2>2. PICK set \in SUBSET Field, port \in TcpPort \cup {None} :
            Put(w, [Idle EXCEPT !.pc = FirstStep[op], !.op = op, !.e = e,
                                !.set = set, !.port = port])
    <3>1. \A set \in {{}} \cup (IF op = "update" THEN {cfg[e] \cup {f} : f \in Field} ELSE {}) :
            set \in SUBSET Field
      BY DEF Types
    <3>2. \A port \in {None} \cup (IF op = "update" THEN TcpPort ELSE {}) :
            port \in TcpPort \cup {None}
      OBVIOUS
    <3> QED  BY <2>1, <3>1, <3>2
  <2>3. FirstStep[op] \in Pc /\ op \in Op /\ e \in Entry
    BY DEF FirstStep, Pc, Op, Types
  <2> QED  BY <2>2, <2>3, JobOfRequest
<1>2. CASE Add(w)
  <2>1. PICK e \in Entry : Put(w, [Idle EXCEPT !.pc = "persist", !.op = "add", !.e = e])
    BY <1>2 DEF Add, AddTo
  <2>2. "persist" \in Pc /\ "add" \in Op /\ {} \in SUBSET Field
    BY DEF Pc, Op
  <2> QED  BY <2>1, <2>2, JobOfRequest
<1>3. CASE Clash(w) \/ Check(w) \/ Open(w) \/ Inject(w) \/ Write(w) \/ Mark(w) \/ Patch(w)
           \/ Retain(w)
  BY <1>0, <1>3, JobEdits, IdleJob
  DEF Clash, Check, Open, OpenIf, Inject, Write, Mark, Patch, Retain, Go, Done, Pc
<1>4. CASE WasRunning(w)
  <2>1. running[wk[w].e] \in BOOLEAN
    BY <1>4 DEF Types, WorkInv, Working, WasRunning, WasRunningIf, At
  <2> QED  BY <1>0, <1>4, <2>1, JobEdits DEF WasRunning, WasRunningIf, Pc
<1>5. CASE Take(w)
  <2>1. control[wk[w].e] \in Supervisor \cup {None}
    BY <1>5 DEF Types, WorkInv, Working, Take, TakeLeaving, At
  <2>2. "clear" \in Pc /\ "join" \in Pc
    BY DEF Pc
  <2> QED  BY <1>0, <1>5, <2>1, <2>2, JobEdits DEF Take, TakeLeaving
<1>6. CASE Join(w)
  BY <1>0, <1>6, JobEdits DEF Join, Pc
<1>7. CASE ClearRunning(w)
  <2>1. wk[w].op \in DOMAIN AfterStop
    BY <1>7 DEF WorkInv, Working, ClearRunning, At, AfterStop
  <2>2. AfterStop[wk[w].op] \in Pc
    BY <2>1 DEF AfterStop, Pc
  <2> QED  BY <1>0, <1>7, <2>2, JobEdits, IdleJob DEF ClearRunning, Go, Done
<1>8. CASE Persist(w)
  BY <1>0, <1>8, JobEdits, IdleJob DEF Persist, Done, Pc, Types
<1>9. CASE Copy(w)
  <2>1. cfg[wk[w].e] \in SUBSET Field
    BY <1>9 DEF Types, WorkInv, Working, Copy, At
  <2> QED  BY <1>0, <1>9, <2>1, JobEdits DEF Copy, Pc
<1>10. CASE Bind(w)
  <2>1. CASE Done(w)
    BY <2>1, IdleJob DEF Done
  <2>2. CASE spawned < MaxStarts /\ spawned' = spawned + 1
             /\ Put(w, [wk[w] EXCEPT !.s = spawned', !.pc = "store"])
    <3>1. spawned' \in Supervisor
      BY <2>2 DEF Types, Supervisor
    <3> QED  BY <1>0, <2>2, <3>1, JobEdits DEF Pc
  <2> QED  BY <1>10, <2>1, <2>2 DEF Bind
<1>11. CASE Store(w)
  BY <1>0, <1>11, JobEdits DEF Store, Pc
<1> QED  BY <1>1, <1>2, <1>3, <1>4, <1>5, <1>6, <1>7, <1>8, <1>9, <1>10, <1>11
         DEF Work, Stop, Start

LEMMA TypesStep == OwnInv /\ [Next]_vars => Types'
<1> SUFFICES ASSUME Types, WorkInv, [Next]_vars PROVE Types'
  BY DEF OwnInv
<1> USE NumberAssumption, NoneAssumption DEF entryVars, portVars
<1>1. ASSUME NEW w \in Worker, Request(w) \/ Add(w) \/ Work(w) PROVE Types'
  <2>0. wk' \in [Worker -> Job] /\ (wk[w].op # None => wk[w].e \in Entry)
    BY <1>1, JobStep DEF WorkInv, Working
  <2>1. CASE Request(w)
    BY <2>0, <2>1 DEF Types, Request
  <2>2. CASE Add(w)
    BY <2>0, <2>2 DEF Types, Add, AddTo, Choice
  <2>3. CASE Clash(w) \/ WasRunning(w) \/ Persist(w) \/ Check(w) \/ Copy(w) \/ Open(w)
             \/ Inject(w) \/ Write(w)
    BY <2>0, <2>3 DEF Types, Clash, WasRunning, WasRunningIf, Persist, Check, Copy, Open,
                      OpenIf, Inject, Write
  <2>4. CASE Stop(w) \/ Mark(w)
    BY <2>0, <2>4 DEF Types, Stop, Take, TakeLeaving, Join, ClearRunning, Mark
  <2>5. CASE Retain(w)
    BY <2>0, <2>5 DEF Types, Retain
  <2>6. CASE Patch(w)
    <3>1. wk[w] \in Job
      BY DEF Types
    <3>2. wk[w].set \in SUBSET Field /\ wk[w].port \in TcpPort \cup {None}
      BY <3>1 DEF Job
    <3> QED  BY <2>0, <2>6, <3>2 DEF Types, Patch
  <2>7. CASE Bind(w)
    <3>1. wk[w] \in Job /\ wk[w].e \in Entry
      BY <2>0, <2>7 DEF Types, Bind, At, WorkInv, Working
    <3>2. tcp[wk[w].e] \in TcpPort \cup {None} /\ wk[w].set \in SUBSET Field
      BY <3>1 DEF Types, Job
    <3>3. [e |-> wk[w].e, port |-> tcp[wk[w].e], set |-> wk[w].set] \in Started
      BY <3>1, <3>2 DEF Started
    <3>4. CASE UNCHANGED <<alive, sup, spawned>>
      BY <2>0, <2>7, <3>4 DEF Types, Bind
    <3>5. CASE /\ spawned < MaxStarts /\ spawned' = spawned + 1 /\ alive' = alive \cup {spawned'}
               /\ sup' = [sup EXCEPT ![spawned'] =
                            [e |-> wk[w].e, port |-> tcp[wk[w].e], set |-> wk[w].set]]
      <4>1. spawned' \in 0..MaxStarts /\ alive' \subseteq 1..spawned'
        BY <3>5 DEF Types
      <4>2. sup' \in [Supervisor -> Started \cup {None}]
        BY <3>3, <3>5 DEF Types
      <4> QED  BY <2>0, <2>7, <4>1, <4>2 DEF Types, Bind
    <3> QED  BY <2>7, <3>4, <3>5 DEF Bind
  <2>8. CASE Store(w)
    <3>1. wk[w] \in Job
      BY DEF Types
    <3>2. wk[w].s \in Supervisor \cup {None}
      BY <3>1 DEF Job
    <3> QED  BY <2>0, <2>8, <3>2 DEF Types, Store
  <2> QED  BY <1>1, <2>1, <2>2, <2>3, <2>4, <2>5, <2>6, <2>7, <2>8 DEF Work, Start
<1>2. CASE UNCHANGED vars
  BY <1>2 DEF Types, vars
<1> QED  BY <1>1, <1>2 DEF Next
----------------------------------------------------------------------------
(* The records of the workers, field by field, after each step.            *)
Now(w, pc, op, e, s, set) ==
  wk'[w].pc = pc /\ wk'[w].op = op /\ wk'[w].e = e /\ wk'[w].s = s /\ wk'[w].set = set
Moves(w, pc) == Now(w, pc, wk[w].op, wk[w].e, wk[w].s, wk[w].set)
Rests(w) == Now(w, "idle", None, None, None, {})

LEMMA PutNow ==
  ASSUME Types, NEW w \in Worker, NEW pc, NEW x
  PROVE  /\ Go(w, pc) => Moves(w, pc)
         /\ Done(w) => Rests(w)
         /\ Put(w, [wk[w] EXCEPT !.s = x, !.pc = pc]) =>
              Now(w, pc, wk[w].op, wk[w].e, x, wk[w].set)
         /\ Put(w, [wk[w] EXCEPT !.e = x, !.pc = pc]) =>
              Now(w, pc, wk[w].op, x, wk[w].s, wk[w].set)
         /\ Put(w, [wk[w] EXCEPT !.set = x, !.pc = pc]) =>
              Now(w, pc, wk[w].op, wk[w].e, wk[w].s, x)
         /\ Put(w, [wk[w] EXCEPT !.was = x, !.pc = pc]) => Moves(w, pc)
<1>1. wk[w] \in Job /\ wk \in [Worker -> Job]
  BY DEF Types
<1>2. ASSUME NEW r, Put(w, r) PROVE wk'[w] = r
  BY <1>1, <1>2 DEF Put
<1>3. Go(w, pc) => Moves(w, pc)
  BY <1>1, <1>2 DEF Go, Moves, Now, Job
<1>4. Done(w) => Rests(w)
  BY <1>2 DEF Done, Rests, Now, Idle
<1> QED  BY <1>1, <1>2, <1>3, <1>4 DEF Moves, Now, Job

LEMMA PutRequest ==
  ASSUME Types, NEW w \in Worker, NEW pc, NEW op, NEW e, NEW set, NEW port
  PROVE  /\ Put(w, [Idle EXCEPT !.pc = pc, !.op = op, !.e = e, !.set = set, !.port = port])
              => Now(w, pc, op, e, None, set)
         /\ Put(w, [Idle EXCEPT !.pc = pc, !.op = op, !.e = e]) => Now(w, pc, op, e, None, {})
<1>1. ASSUME NEW r, Put(w, r) PROVE wk'[w] = r
  BY <1>1 DEF Put, Types
<1> QED  BY <1>1 DEF Now, Idle

LEMMA PairEffects ==
  ASSUME Types, NEW w \in Worker
  PROVE  /\ Request(w) => At(w, "idle") /\ \E op \in DOMAIN FirstStep, e \in listed : \E set :
              /\ Now(w, FirstStep[op], op, e, None, set)
              /\ raced' = raced \cup IF op # "send" /\ Worked(w, dev[e])
                                     THEN {x \in Entry : dev[x] = dev[e]} ELSE {}
         /\ \A d, e, p : AddTo(w, d, e, p) => At(w, "idle") /\ Now(w, "persist", "add", e, None, {})
         /\ Persist(w) => /\ At(w, "persist")
                          /\ \/ Rests(w)
                             \/ \E e \in listed : dev[e] = dev[wk[w].e] /\
                                  /\ wk[w].op \in {"add", "update"}
                                  /\ Now(w, "check", wk[w].op, e, wk[w].s, wk[w].set)
BY PutNow, PutRequest DEF Request, AddTo, Persist

LEMMA StopEffects ==
  ASSUME Types, NEW w \in Worker
  PROVE  /\ Clash(w) => At(w, "clash") /\ (Rests(w) \/ Moves(w, "was"))
         /\ WasRunning(w) => At(w, "was") /\ Moves(w, IF running[wk[w].e] THEN "take" ELSE "patch")
         /\ Take(w) => At(w, "take") /\ Now(w, IF control[wk[w].e] = None THEN "clear" ELSE "join",
                                            wk[w].op, wk[w].e, control[wk[w].e], wk[w].set)
         /\ Join(w) => At(w, "join") /\ Now(w, "clear", wk[w].op, wk[w].e, None, wk[w].set)
         /\ ClearRunning(w) => /\ At(w, "clear")
                               /\ IF wk[w].op = "stop" THEN Rests(w)
                                                       ELSE Moves(w, AfterStop[wk[w].op])
         /\ Retain(w) => At(w, "retain") /\ Moves(w, "persist")
         /\ Patch(w) => At(w, "patch") /\ Moves(w, "persist")
         /\ Inject(w) => At(w, "inject") /\ (Rests(w) \/ Moves(w, "write"))
         /\ Write(w) => At(w, "write") /\ Rests(w)
BY PutNow DEF Clash, WasRunning, WasRunningIf, Take, TakeLeaving, Join, ClearRunning, Retain, Patch,
              Inject, Write

LEMMA StartEffects ==
  ASSUME Types, NEW w \in Worker
  PROVE  /\ Check(w) => At(w, "check") /\ IF running[wk[w].e] THEN Rests(w) ELSE Moves(w, "copy")
         /\ Copy(w) => At(w, "copy") /\ Now(w, "open", wk[w].op, wk[w].e, wk[w].s, cfg[wk[w].e])
         /\ Open(w) => At(w, "open") /\ (Rests(w) \/ (~Held(dev[wk[w].e]) /\ Moves(w, "bind")))
         /\ Bind(w) => /\ At(w, "bind")
                       /\ \/ Rests(w) /\ UNCHANGED <<alive, sup, spawned>>
                          \/ Now(w, "store", wk[w].op, wk[w].e, spawned', wk[w].set)
         /\ Store(w) => At(w, "store") /\ Now(w, "mark", wk[w].op, wk[w].e, None, wk[w].set)
         /\ Mark(w) => At(w, "mark") /\ Rests(w)
BY PutNow DEF Check, Copy, Open, OpenIf, Bind, Store, Mark
----------------------------------------------------------------------------
(* A device is named once and for all.                                     *)
LEMMA DevStep ==
  ASSUME Types, NEW w \in Worker, Request(w) \/ Add(w) \/ Work(w)
  PROVE  \A e \in Entry : dev[e] # None => dev'[e] = dev[e]
<1>1. CASE Request(w) \/ Work(w)
  BY <1>1 DEF Request, Work, Stop, Start, Clash, WasRunning, WasRunningIf, Take, TakeLeaving, Join,
       ClearRunning, Retain, Patch, Persist, Check, Copy, Open, OpenIf, Bind, Store, Mark, Inject,
       Write, entryVars
<1>2. CASE Add(w)
  BY <1>2 DEF Add, AddTo, Types
<1> QED  BY <1>1, <1>2

LEMMA WorkStep == OwnInv /\ [Next]_vars => WorkInv'
<1> SUFFICES ASSUME Types, WorkInv, EntryInv, [Next]_vars PROVE WorkInv'
  BY DEF OwnInv
<1>1. ASSUME NEW w \in Worker, Request(w) \/ Add(w) \/ Work(w) PROVE WorkInv'
  <2>0. /\ \A v \in Worker \ {w} : wk'[v] = wk[v]
        /\ \A v \in Worker : Working(v)
    BY <1>1, JobStep DEF WorkInv
  <2>1. \A e \in Entry : dev[e] # None => dev'[e] # None
    BY <1>1, DevStep
  <2>2. ASSUME NEW v \in Worker \ {w} PROVE Working(v)'
    BY <2>0, <2>1 DEF Working
  <2> SUFFICES Working(w)'
    BY <2>2 DEF WorkInv
  <2>3. CASE Request(w)
    BY <2>1, <2>3, PairEffects, NoneAssumption DEF Types, EntryInv, FirstStep, Now, Working
  <2>4. CASE Add(w)
    <3>1. PICK d \in Device, e \in Entry, p \in Choice : AddTo(w, d, e, p)
      BY <2>4 DEF Add
    <3>2. dev'[e] # None
      BY <3>1, NoneAssumption DEF AddTo, Types
    <3> QED  BY <3>1, <3>2, PairEffects, NoneAssumption DEF Now, Working
  <2>5. CASE Persist(w)
    <3>1. \A e \in listed : e \in Entry /\ dev[e] # None
      BY DEF Types, EntryInv
    <3> QED  BY <2>0, <2>1, <2>5, <3>1, PairEffects, NoneAssumption DEF Working, Now, Rests, At
  <2>6. CASE Clash(w) \/ WasRunning(w) \/ Inject(w) \/ Write(w)
    BY <2>0, <2>1, <2>6, StopEffects, NoneAssumption DEF Working, Now, Rests, Moves, At
  <2>7. CASE Take(w)
    BY <2>0, <2>1, <2>7, StopEffects, NoneAssumption DEF Working, Now, At
  <2>8. CASE Join(w)
    BY <2>0, <2>1, <2>8, StopEffects, NoneAssumption DEF Working, Now, At
  <2>9. CASE ClearRunning(w)
    BY <2>0, <2>1, <2>9, StopEffects, NoneAssumption DEF AfterStop, Working, Now, Rests, Moves, At
  <2>10. CASE Retain(w) \/ Patch(w)
    BY <2>0, <2>1, <2>10, StopEffects, NoneAssumption DEF Working, Now, Moves, At
  <2>11. CASE Check(w) \/ Copy(w) \/ Open(w) \/ Mark(w)
    BY <2>0, <2>1, <2>11, StartEffects, NoneAssumption DEF Working, Now, Rests, Moves, At
  <2>12. CASE Bind(w) \/ Store(w)
    <3>1. spawned + 1 # None /\ spawned # None
      BY NumberAssumption, NoneAssumption DEF Types
    <3>2. spawned' # None
      BY <2>12, <3>1 DEF Bind, Store
    <3> QED  BY <2>0, <2>1, <2>12, <3>2, StartEffects, NoneAssumption DEF Working, Now, Rests, At
  <2> QED  BY <1>1, <2>3, <2>4, <2>5, <2>6, <2>7, <2>8, <2>9, <2>10, <2>11, <2>12
           DEF Work, Stop, Start
<1>2. CASE UNCHANGED vars
  BY <1>2 DEF WorkInv, Working, vars, entryVars
<1> QED  BY <1>1, <1>2 DEF Next
----------------------------------------------------------------------------
LEMMA EntryStep == OwnInv /\ [Next]_vars => EntryInv'
<1> SUFFICES ASSUME Types, WorkInv, EntryInv, [Next]_vars PROVE EntryInv'
  BY DEF OwnInv
<1>1. ASSUME NEW w \in Worker, Request(w) \/ Add(w) \/ Work(w) PROVE EntryInv'
  <2>0. /\ \A e \in Entry : dev'[e] = None => dev[e] = None
        /\ wk[w].op # None => wk[w].e \in Entry /\ dev[wk[w].e] # None
    BY <1>1, DevStep DEF WorkInv, Working
  <2>1. CASE Add(w)
    <3>1. PICK d \in Device, e \in Entry, p \in Choice : AddTo(w, d, e, p)
      BY <2>1 DEF Add
    <3>2. dev'[e] # None /\ UNCHANGED <<control, running>> /\ listed' = listed \cup {e}
      BY <3>1, NoneAssumption DEF AddTo, Types, portVars
    <3> QED  BY <2>0, <3>2 DEF EntryInv
  <2>2. CASE Request(w) \/ Clash(w) \/ WasRunning(w) \/ Patch(w) \/ Persist(w) \/ Join(w)
             \/ Check(w) \/ Copy(w) \/ Open(w) \/ Bind(w) \/ Inject(w) \/ Write(w)
    <3>1. UNCHANGED <<listed, control, running>>
      BY <2>2 DEF Request, Clash, WasRunning, WasRunningIf, Patch, Persist, Join, Check, Copy, Open,
                  OpenIf, Bind, Inject, Write, entryVars, portVars
    <3> QED  BY <2>0, <3>1 DEF EntryInv
  <2>3. CASE Retain(w)
    BY <2>0, <2>3 DEF EntryInv, Retain, portVars
  <2>4. CASE Take(w) \/ Store(w)
    <3>1. wk[w].op # None
      BY <2>4 DEF WorkInv, Working, Take, TakeLeaving, Store, At
    <3>2. UNCHANGED <<listed, running>> /\ \E x : control' = [control EXCEPT ![wk[w].e] = x]
      BY <2>4 DEF Take, TakeLeaving, Store, entryVars
    <3> QED  BY <2>0, <3>1, <3>2 DEF EntryInv, Types
  <2>5. CASE ClearRunning(w) \/ Mark(w)
    <3>1. wk[w].op # None
      BY <2>5 DEF WorkInv, Working, ClearRunning, Mark, At
    <3>2. /\ UNCHANGED <<listed, control>>
          /\ \E x \in BOOLEAN : running' = [running EXCEPT ![wk[w].e] = x]
      BY <2>5 DEF ClearRunning, Mark, entryVars
    <3> QED  BY <2>0, <3>1, <3>2 DEF EntryInv, Types
  <2> QED  BY <1>1, <2>1, <2>2, <2>3, <2>4, <2>5 DEF Work, Stop, Start
<1>2. CASE UNCHANGED vars
  BY <1>2 DEF EntryInv, vars, entryVars, portVars
<1> QED  BY <1>1, <1>2 DEF Next
----------------------------------------------------------------------------
(* A step that moves no Control and neither begins nor ends a supervisor.  *)
Quiet(w) == \/ Request(w) \/ Add(w) \/ Clash(w) \/ WasRunning(w) \/ ClearRunning(w) \/ Retain(w)
            \/ Patch(w) \/ Persist(w) \/ Check(w) \/ Copy(w) \/ Open(w) \/ Mark(w) \/ Inject(w)
            \/ Write(w) \/ (Bind(w) /\ UNCHANGED <<alive, sup, spawned>>)
Spawns(w) ==
  /\ Bind(w) /\ spawned < MaxStarts
  /\ spawned' = spawned + 1
  /\ alive' = alive \cup {spawned'}
  /\ sup' = [sup EXCEPT ![spawned'] = [e |-> wk[w].e, port |-> tcp[wk[w].e], set |-> wk[w].set]]
  /\ Now(w, "store", wk[w].op, wk[w].e, spawned', wk[w].set)

LEMMA QuietKeeps ==
  ASSUME Types, WorkInv, NEW w \in Worker, Quiet(w)
  PROVE  /\ UNCHANGED <<control, alive, sup, spawned>>
         /\ \A v \in Worker : /\ wk'[v].s = wk[v].s
                              /\ wk[v].s # None => wk'[v].e = wk[v].e
<1>0. Request(w) \/ Add(w) \/ Work(w)
  BY DEF Quiet, Work, Stop, Start
<1>1. /\ \A v \in Worker \ {w} : wk'[v] = wk[v]
      /\ Working(w)
  BY <1>0, JobStep DEF WorkInv
<1>2. UNCHANGED <<control, alive, sup, spawned>>
  BY DEF Quiet, Request, Add, AddTo, Clash, WasRunning, WasRunningIf, ClearRunning, Retain, Patch,
         Persist, Check, Copy, Open, OpenIf, Mark, Inject, Write, Bind, portVars
<1>3. wk[w].s = None /\ wk'[w].s = None
  <2> USE NoneAssumption DEF Working, Now, Rests, Moves, At
  <2>1. CASE Request(w) \/ Persist(w)
    BY <1>1, <2>1, PairEffects
  <2>2. CASE Add(w)
    <3>1. PICK d \in Device, e \in Entry, p \in Choice : AddTo(w, d, e, p)
      BY <2>2 DEF Add
    <3> QED  BY <1>1, <3>1, PairEffects
  <2>3. CASE Clash(w) \/ WasRunning(w) \/ ClearRunning(w) \/ Retain(w) \/ Patch(w) \/ Inject(w)
             \/ Write(w)
    BY <1>1, <2>3, StopEffects
  <2>4. CASE Check(w) \/ Copy(w) \/ Open(w) \/ Mark(w)
    BY <1>1, <2>4, StartEffects
  <2>5. CASE Bind(w) /\ UNCHANGED <<alive, sup, spawned>>
    <3>1. spawned' # spawned + 1
      BY <2>5, NumberAssumption DEF Types
    <3>2. Done(w)
      BY <2>5, <3>1 DEF Bind
    <3> QED  BY <1>1, <2>5, <3>2, PutNow, StartEffects
  <2> QED  BY <2>1, <2>2, <2>3, <2>4, <2>5 DEF Quiet
<1> QED  BY <1>1, <1>2, <1>3

LEMMA BindKinds ==
  ASSUME Types, NEW w \in Worker, Bind(w)
  PROVE  Spawns(w) \/ UNCHANGED <<alive, sup, spawned>>
BY PutNow DEF Bind, Spawns

LEMMA Kinds ==
  ASSUME Types, NEW w \in Worker, Request(w) \/ Add(w) \/ Work(w)
  PROVE  Quiet(w) \/ Take(w) \/ Join(w) \/ Spawns(w) \/ Store(w)
<1>1. Bind(w) => Quiet(w) \/ Spawns(w)
  BY BindKinds DEF Quiet
<1> QED  BY <1>1 DEF Quiet, Work, Stop, Start

(* A supervisor that is spawned has a number of its own.                   *)
LEMMA SpawnFacts ==
  ASSUME Types, WorkInv, NEW w \in Worker, Spawns(w)
  PROVE  /\ wk[w].pc = "bind" /\ wk[w].s = None /\ wk[w].e \in Entry /\ spawned + 1 \notin alive
         /\ wk'[w].pc = "store" /\ wk'[w].s = spawned + 1 /\ wk'[w].e = wk[w].e
         /\ UNCHANGED <<control, dev>> /\ alive' = alive \cup {spawned + 1}
         /\ \A s \in alive : sup'[s] = sup[s]
         /\ sup'[spawned + 1].e = wk[w].e /\ sup'[spawned + 1].port = tcp[wk[w].e]
         /\ sup'[spawned + 1].set = wk[w].set /\ sup'[spawned + 1] \in Started
<1>1. wk[w].pc = "bind" /\ wk[w].s = None /\ wk[w].e \in Entry /\ wk[w] \in Job
  BY NoneAssumption DEF Spawns, Bind, At, WorkInv, Working, Types
<1>2. spawned + 1 \in Supervisor /\ alive \subseteq 1..spawned /\ spawned \in Nat
  BY NumberAssumption DEF Spawns, Types, Supervisor
<1>3. sup'[spawned + 1] = [e |-> wk[w].e, port |-> tcp[wk[w].e], set |-> wk[w].set]
  BY <1>2 DEF Spawns, Types
<1>4. tcp[wk[w].e] \in TcpPort \cup {None} /\ wk[w].set \in SUBSET Field
  BY <1>1 DEF Types, Job
<1>5. \A s \in alive : sup'[s] = sup[s]
  BY <1>2 DEF Spawns, Types
<1>6. /\ wk'[w].pc = "store" /\ wk'[w].s = spawned + 1 /\ wk'[w].e = wk[w].e
      /\ UNCHANGED <<control, dev>> /\ alive' = alive \cup {spawned + 1}
  BY DEF Spawns, Bind, Now, entryVars
<1> QED  BY <1>1, <1>2, <1>3, <1>4, <1>5, <1>6 DEF Started

LEMMA HandStep == OwnInv /\ [Next]_vars => HandInv'
<1> SUFFICES ASSUME OwnInv, [Next]_vars PROVE HandInv'
  OBVIOUS
<1>0. Types /\ WorkInv /\ HandInv /\ DeviceInv
  BY DEF OwnInv
<1>1. ASSUME NEW w \in Worker, Request(w) \/ Add(w) \/ Work(w) PROVE HandInv'
  <2>0. /\ \A v \in Worker \ {w} : wk'[v] = wk[v]
        /\ Working(w)
        /\ Quiet(w) \/ Take(w) \/ Join(w) \/ Spawns(w) \/ Store(w)
        /\ spawned \in Nat /\ alive \subseteq 1..spawned
        /\ \A s \in alive : s # None /\ sup[s].e \in Entry
    BY <1>0, <1>1, JobStep, Kinds, NumberAssumption, NoneAssumption
    DEF WorkInv, Types, DeviceInv, Started
  <2>1. CASE Quiet(w)
    BY <1>0, <2>1, QuietKeeps DEF HandInv, ControlIsLive, NoLeak
  <2>2. CASE Take(w)
    <3>1. /\ UNCHANGED <<alive, sup>> /\ wk[w].s = None /\ wk[w].e \in Entry
          /\ control' = [control EXCEPT ![wk[w].e] = None]
          /\ wk'[w].e = wk[w].e /\ wk'[w].s = control[wk[w].e]
      BY <1>0, <2>0, <2>2, StopEffects, NoneAssumption DEF Take, TakeLeaving, Working, Now, At
    <3>2. /\ control'[wk[w].e] = None /\ \A e \in Entry \ {wk[w].e} : control'[e] = control[e]
          /\ \A v \in Worker : wk[v].s # None => v # w /\ wk'[v] = wk[v]
      BY <1>0, <2>0, <3>1 DEF Types
    <3>3. ControlIsLive'
      BY <1>0, <3>1, <3>2 DEF HandInv, ControlIsLive
    <3>4. NoLeak'
      BY <1>0, <2>0, <3>1, <3>2 DEF HandInv, NoLeak
    <3>5. ASSUME NEW v \in Worker, wk'[v].s # None
          PROVE  /\ wk'[v].s \in alive' /\ sup'[wk'[v].s].e = wk'[v].e
                 /\ \A u \in Worker : wk'[u].s = wk'[v].s => u = v
                 /\ \A e \in Entry : control'[e] # wk'[v].s
      <4>1. CASE v = w
        BY <1>0, <2>0, <3>1, <3>2, <3>5, <4>1 DEF HandInv, ControlIsLive
      <4>2. CASE v # w
        BY <1>0, <2>0, <3>1, <3>2, <3>5, <4>2 DEF HandInv, ControlIsLive
      <4> QED  BY <4>1, <4>2
    <3> QED  BY <3>3, <3>4, <3>5 DEF HandInv
  <2>3. CASE Join(w)
    <3>1. /\ UNCHANGED <<control, sup>> /\ wk[w].s # None /\ wk'[w].s = None
          /\ alive' = alive \ {wk[w].s}
      BY <1>0, <2>0, <2>3, StopEffects DEF Join, Working, Now, At
    <3> QED  BY <1>0, <2>0, <3>1 DEF HandInv, ControlIsLive, NoLeak
  <2>4. CASE Spawns(w)
    <3> DEFINE new == spawned + 1
    <3>1. /\ wk[w].s = None /\ wk'[w].s = new /\ wk'[w].e = wk[w].e /\ wk[w].e \in Entry
          /\ control' = control /\ alive' = alive \cup {new} /\ new \notin alive /\ new # None
          /\ sup'[new].e = wk[w].e /\ \A s \in alive : sup'[s] = sup[s]
      <4>1. new # None
        BY <2>0, NoneAssumption
      <4> QED  BY <1>0, <2>4, <4>1, SpawnFacts
    <3> HIDE DEF new
    <3>2. \A v \in Worker : wk[v].s # None => v # w /\ wk'[v] = wk[v] /\ wk[v].s \in alive
      BY <1>0, <2>0, <3>1 DEF HandInv
    <3>3. ControlIsLive'
      BY <1>0, <3>1 DEF HandInv, ControlIsLive
    <3>4. NoLeak'
      <4>1. ASSUME NEW s \in alive, NEW v \in Worker, wk[v].s = s PROVE wk'[v].s = s
        BY <2>0, <3>2, <4>1
      <4> QED  BY <1>0, <3>1, <4>1 DEF HandInv, NoLeak
    <3>5. ASSUME NEW v \in Worker, wk'[v].s # None
          PROVE  /\ wk'[v].s \in alive' /\ sup'[wk'[v].s].e = wk'[v].e
                 /\ \A u \in Worker : wk'[u].s = wk'[v].s => u = v
                 /\ \A e \in Entry : control'[e] # wk'[v].s
      <4>1. CASE v = w
        BY <1>0, <2>0, <3>1, <3>2, <3>5, <4>1 DEF HandInv, ControlIsLive
      <4>2. CASE v # w
        <5>1. /\ wk'[v] = wk[v] /\ wk[v].s # None /\ wk[v].s \in alive /\ sup[wk[v].s].e = wk[v].e
              /\ \A u \in Worker : wk[u].s = wk[v].s => u = v
              /\ \A e \in Entry : control[e] # wk[v].s
          BY <1>0, <2>0, <3>5, <4>2 DEF HandInv
        <5> QED  BY <2>0, <3>1, <5>1
      <4> QED  BY <4>1, <4>2
    <3> QED  BY <3>3, <3>4, <3>5 DEF HandInv
  <2>5. CASE Store(w)
    <3>1. /\ UNCHANGED <<alive, sup>> /\ wk[w].s # None /\ wk[w].e \in Entry
          /\ control' = [control EXCEPT ![wk[w].e] = wk[w].s] /\ wk'[w].s = None
      BY <1>0, <2>0, <2>5, StartEffects, NoneAssumption DEF Store, Working, Now, At
    <3>2. control[wk[w].e] = None
      <4>1. /\ wk[w].s \in alive /\ sup[wk[w].s].e = wk[w].e /\ control[wk[w].e] # wk[w].s
        BY <1>0, <3>1 DEF HandInv
      <4>2. control[wk[w].e] # None =>
              control[wk[w].e] \in alive /\ sup[control[wk[w].e]].e = wk[w].e
        BY <1>0, <3>1 DEF HandInv, ControlIsLive
      <4> QED  BY <1>0, <4>1, <4>2 DEF DeviceInv
    <3> QED  BY <1>0, <2>0, <3>1, <3>2 DEF Types, HandInv, ControlIsLive, NoLeak
  <2> QED  BY <2>0, <2>1, <2>2, <2>3, <2>4, <2>5
<1>2. CASE UNCHANGED vars
  BY <1>0, <1>2 DEF vars, portVars, HandInv, ControlIsLive, NoLeak
<1> QED  BY <1>1, <1>2 DEF Next

LEMMA DeviceStep == OwnInv /\ [Next]_vars => DeviceInv'
<1> SUFFICES ASSUME OwnInv, [Next]_vars PROVE DeviceInv'
  OBVIOUS
<1>0. Types /\ WorkInv /\ DeviceInv
  BY DEF OwnInv
<1> USE DEF DeviceInv
<1>1. ASSUME NEW w \in Worker, Request(w) \/ Add(w) \/ Work(w) PROVE DeviceInv'
  <2>0. /\ \A v \in Worker \ {w} : wk'[v] = wk[v]
        /\ Working(w)
        /\ \A v \in Worker : wk[v].pc = "bind" => wk[v].e \in Entry /\ dev[wk[v].e] # None
        /\ \A e \in Entry : dev[e] # None => dev'[e] = dev[e]
        /\ spawned \in Nat /\ alive \subseteq 1..spawned /\ \A s \in alive : sup[s].e \in Entry
    BY <1>0, <1>1, JobStep, DevStep, NumberAssumption
    DEF WorkInv, Working, Types, Started
  <2>1. ASSUME alive' \subseteq alive, UNCHANGED sup, wk'[w].pc # "bind" PROVE DeviceInv'
    <3>1. \A s \in alive' : s \in alive /\ sup'[s] = sup[s] /\ dev'[sup[s].e] = dev[sup[s].e]
      BY <1>0, <2>0, <2>1
    <3>2. \A v \in Worker : wk'[v].pc = "bind" =>
            wk[v].pc = "bind" /\ wk'[v] = wk[v] /\ dev'[wk[v].e] = dev[wk[v].e]
      BY <2>0, <2>1
    <3> QED  BY <1>0, <3>1, <3>2
  <2>2. CASE Open(w)
    <3>1. /\ UNCHANGED <<alive, sup>> /\ wk[w].pc = "open"
          /\ wk'[w].pc # "bind" \/ (~Held(dev[wk[w].e]) /\ wk'[w].e = wk[w].e)
      BY <1>0, <2>2, StartEffects DEF Open, OpenIf, Rests, Moves, Now, At, portVars
    <3>2. wk[w].e \in Entry /\ dev[wk[w].e] # None
      BY <2>0, <3>1 DEF Working
    <3>3. CASE wk'[w].pc = "bind"
      <4>1. /\ \A s \in alive : dev[sup[s].e] # dev[wk[w].e]
            /\ \A v \in Worker : wk[v].pc = "bind" => dev[wk[v].e] # dev[wk[w].e]
        BY <3>1, <3>3 DEF Held
      <4>2. /\ \A s \in alive : dev'[sup[s].e] = dev[sup[s].e]
            /\ wk'[w].e = wk[w].e /\ dev'[wk[w].e] = dev[wk[w].e]
            /\ \A v \in Worker \ {w} : wk[v].pc = "bind" => dev'[wk[v].e] = dev[wk[v].e]
        BY <1>0, <2>0, <3>1, <3>2, <3>3
      <4> QED  BY <1>0, <2>0, <3>1, <4>1, <4>2
    <3> QED  BY <2>1, <3>1, <3>3
  <2>3. CASE Spawns(w)
    <3>1. \A v \in Worker : wk'[v].pc = "bind" => v # w /\ wk'[v] = wk[v]
      BY <1>0, <2>0, <2>3, SpawnFacts
    <3>2. \A s \in alive : dev[sup[s].e] # dev[wk[w].e]
      BY <1>0, <2>3, SpawnFacts
    <3> DEFINE new == spawned + 1
    <3>3. /\ alive' = alive \cup {new} /\ sup'[new].e = wk[w].e /\ dev' = dev
          /\ sup'[new] \in Started /\ \A s \in alive : sup'[s] = sup[s]
          /\ wk[w].pc = "bind"
      BY <1>0, <2>3, SpawnFacts
    <3> HIDE DEF new
    <3>4. \A s \in alive' : sup'[s] \in Started /\ dev'[sup'[s].e] # None
      <4>1. dev[wk[w].e] # None
        BY <2>0, <3>3
      <4> QED  BY <1>0, <3>3, <4>1
    <3>5. \A s, t \in alive' : dev'[sup'[s].e] = dev'[sup'[t].e] => s = t
      BY <1>0, <2>0, <3>2, <3>3
    <3>6. ASSUME NEW v \in Worker, wk'[v].pc = "bind"
          PROVE  /\ \A s \in alive' : dev'[sup'[s].e] # dev'[wk'[v].e]
                 /\ \A u \in Worker : wk'[u].pc = "bind" /\ dev'[wk'[u].e] = dev'[wk'[v].e] => u = v
      <4>1. v # w /\ wk'[v] = wk[v] /\ dev[wk[v].e] # dev[wk[w].e]
        BY <1>0, <3>1, <3>3, <3>6
      <4> QED  BY <1>0, <3>1, <3>3, <3>6, <4>1
    <3> QED  BY <3>4, <3>5, <3>6
  <2>4. CASE Take(w) \/ Join(w) \/ Store(w)
    <3>1. alive' \subseteq alive /\ UNCHANGED sup
      BY <2>4 DEF Take, TakeLeaving, Join, Store
    <3>2. wk'[w].pc # "bind"
      BY <1>0, <2>4, StopEffects, StartEffects DEF Now
    <3> QED  BY <2>1, <3>1, <3>2
  <2>5. CASE Quiet(w) /\ ~Open(w)
    <3>1. UNCHANGED <<alive, sup>>
      BY <1>0, <2>5, QuietKeeps
    <3>2. wk'[w].pc # "bind"
      <4> USE DEF Now, Rests, Moves
      <4>1. CASE Request(w) \/ Persist(w)
        BY <1>0, <4>1, PairEffects DEF FirstStep
      <4>2. CASE Add(w)
        <5>1. PICK d \in Device, e \in Entry, p \in Choice : AddTo(w, d, e, p)
          BY <4>2 DEF Add
        <5> QED  BY <1>0, <5>1, PairEffects
      <4>3. CASE Clash(w) \/ WasRunning(w) \/ Retain(w) \/ Patch(w) \/ Inject(w) \/ Write(w)
        BY <1>0, <4>3, StopEffects
      <4>4. CASE ClearRunning(w)
        BY <1>0, <2>0, <4>4, StopEffects DEF AfterStop, Working, At
      <4>5. CASE Check(w) \/ Copy(w) \/ Bind(w) \/ Mark(w)
        BY <1>0, <4>5, StartEffects
      <4> QED  BY <2>5, <4>1, <4>2, <4>3, <4>4, <4>5 DEF Quiet
    <3> QED  BY <2>1, <3>1, <3>2
  <2> QED  BY <1>0, <1>1, <2>2, <2>3, <2>4, <2>5, Kinds
<1>2. CASE UNCHANGED vars
  BY <1>0, <1>2 DEF vars, entryVars, portVars
<1> QED  BY <1>1, <1>2 DEF Next

LEMMA OneEntryStep == OwnInv /\ [Next]_vars => OneEntryPerDevice'
<1> SUFFICES ASSUME OwnInv, [Next]_vars PROVE OneEntryPerDevice'
  OBVIOUS
<1>0. Types /\ WorkInv /\ EntryInv /\ OneEntryPerDevice
  BY DEF OwnInv
<1> USE DEF OneEntryPerDevice
<1>1. ASSUME NEW w \in Worker, Request(w) \/ Add(w) \/ Work(w) PROVE OneEntryPerDevice'
  <2>1. CASE Add(w)
    <3>1. PICK d \in Device, e \in Entry, p \in Choice :
            (\A x \in listed : dev[x] # d) /\ AddTo(w, d, e, p)
      BY <2>1 DEF Add
    <3> QED  BY <1>0, <3>1 DEF AddTo, Types
  <2>2. CASE Request(w) \/ Work(w)
    <3>1. listed' \subseteq listed /\ dev' = dev
      BY <2>2 DEF Request, Work, Stop, Start, Clash, WasRunning, WasRunningIf, Take, TakeLeaving,
         Join, ClearRunning, Retain, Patch, Persist, Check, Copy, Open, OpenIf, Bind, Store, Mark,
         Inject, Write, entryVars
    <3> QED  BY <1>0, <3>1
  <2> QED  BY <1>1, <2>1, <2>2
<1>2. CASE UNCHANGED vars
  BY <1>0, <1>2 DEF vars, entryVars
<1> QED  BY <1>1, <1>2 DEF Next

LEMMA InitOwn == Init => OwnInv
<1> SUFFICES ASSUME Init PROVE OwnInv
  OBVIOUS
<1>1. Types
  BY InitTypes
<1>2. WorkInv
  BY NoneAssumption DEF Init, WorkInv, Working, Idle
<1>3. EntryInv /\ HandInv /\ DeviceInv /\ OneEntryPerDevice
  BY DEF Init, EntryInv, HandInv, ControlIsLive, NoLeak, DeviceInv, OneEntryPerDevice, Idle
<1> QED  BY <1>1, <1>2, <1>3 DEF OwnInv

LEMMA OwnStep == OwnInv /\ [Next]_vars => OwnInv'
BY TypesStep, WorkStep, EntryStep, HandStep, DeviceStep, OneEntryStep DEF OwnInv
----------------------------------------------------------------------------
(* A port no change of which is under way, or one that only w works on.    *)
LEMMA Untouched ==
  ASSUME OwnInv, OwnInv', NEW e \in listed, PortOk(e),
         UNCHANGED <<control[e], running[e], cfg[e], tcp[e]>>,
         \A s \in alive : sup'[s] = sup[s],
         \A v \in Worker : Changes(v, e)' <=> Changes(v, e),
         \A v \in Worker : Changes(v, e) => wk'[v] = wk[v]
  PROVE  PortOk(e)'
<1>1. e \in Entry /\ (control[e] # None => sup'[control[e]] = sup[control[e]])
  BY DEF OwnInv, Types, HandInv, ControlIsLive
<1>2. Alone(e)'
  BY DEF PortOk, Alone
<1>3. Steady(e)'
  BY <1>1 DEF PortOk, Steady
<1>4. AsConfigured(e)'
  BY <1>1 DEF PortOk, AsConfigured
<1>5. ASSUME NEW v \in Worker, Changes(v, e) PROVE Where(v, e)'
  <2>1. Where(v, e) /\ wk'[v] = wk[v]
    BY <1>5 DEF PortOk
  <2>2. wk[v].pc = "store" => sup'[wk[v].s] = sup[wk[v].s]
    BY DEF OwnInv, WorkInv, Working, HandInv
  <2> QED  BY <1>1, <2>1, <2>2 DEF Where
<1> QED  BY <1>2, <1>3, <1>4, <1>5 DEF PortOk

(* A request under way stays with its operation and its device.            *)
LEMMA SameJob ==
  ASSUME Types, NEW w \in Worker, Work(w)
  PROVE  \/ wk'[w].op = None /\ wk'[w].pc = "idle"
         \/ /\ wk'[w].op = wk[w].op /\ dev[wk'[w].e] = dev[wk[w].e] /\ dev' = dev
            /\ wk'[w].e = wk[w].e \/ wk'[w].e \in listed
<1>1. dev' = dev
  BY DEF Work, Stop, Start, Clash, WasRunning, WasRunningIf, Take, TakeLeaving, Join, ClearRunning,
         Retain, Patch, Persist, Check, Copy, Open, OpenIf, Bind, Store, Mark, Inject, Write,
         entryVars
<1> USE DEF Now, Rests, Moves
<1>2. CASE Persist(w)
  BY <1>1, <1>2, PairEffects
<1>3. CASE Clash(w) \/ WasRunning(w) \/ Stop(w) \/ Retain(w) \/ Patch(w) \/ Inject(w) \/ Write(w)
  BY <1>1, <1>3, StopEffects DEF Stop
<1>4. CASE Start(w)
  BY <1>1, <1>4, StartEffects DEF Start
<1> QED  BY <1>2, <1>3, <1>4 DEF Work

(* The step of the one request that works on a port.                       *)
LEMMA OwnWork ==
  ASSUME OwnInv, NEW w \in Worker, Work(w), NEW e \in listed, e \in listed',
         PortOk(e), Changes(w, e)
  PROVE  PortOk(e)'
<1>0. Types /\ WorkInv /\ Working(w) /\ e \in Entry
  BY DEF OwnInv, WorkInv, Types
<1>1. /\ wk[w].e = e /\ Where(w, e) /\ AsConfigured(e)
      /\ wk[w].pc \notin {"join", "clear", "mark"} => (running[e] <=> control[e] # None)
      /\ \A v \in Worker \ {w} : ~Changes(v, e)
  BY DEF PortOk, Alone, Steady, Where
<1>2. dev' = dev /\ wk[w].op \notin {None, "send"}
  BY DEF Changes, Work, Stop, Start, Clash, WasRunning, WasRunningIf, Take, TakeLeaving, Join,
         ClearRunning, Retain, Patch, Persist, Check, Copy, Open, OpenIf, Bind, Store, Mark, Inject,
         Write, entryVars
<1>3. \A v \in Worker \ {w} : ~Changes(v, e)'
  BY <1>0, <1>1, <1>2, JobStep DEF Changes
<1>4. \/ wk'[w].op = None /\ wk'[w].pc = "idle"
      \/ wk'[w].op = wk[w].op /\ wk'[w].e = e
  BY <1>0, <1>1, SameJob DEF OwnInv, OneEntryPerDevice
<1> SUFFICES /\ wk'[w].op # None => Where(w, e)'
             /\ wk'[w].pc \notin {"join", "clear", "mark"} => (running'[e] <=> control'[e] # None)
             /\ AsConfigured(e)'
  BY <1>2, <1>3, <1>4 DEF PortOk, Alone, Steady, Changes
<1> USE DEF At, Now, Rests, Moves
<1>5. CASE Clash(w) \/ WasRunning(w) \/ Persist(w) \/ Check(w) \/ Copy(w) \/ Open(w)
           \/ (Bind(w) /\ UNCHANGED <<alive, sup, spawned>>)
  <2>1. UNCHANGED <<control, running, cfg, tcp, sup>>
    BY <1>5 DEF Clash, WasRunning, WasRunningIf, Persist, Check, Copy, Open, OpenIf, Bind,
                entryVars, portVars
  <2>2. /\ wk[w].pc \notin {"join", "clear", "mark"}
        /\ wk'[w].pc \notin {"join", "clear", "mark", "store", "persist"}
    <3>1. CASE Persist(w)
      BY <1>0, <3>1, PairEffects
    <3>2. CASE Clash(w) \/ WasRunning(w)
      BY <1>0, <3>2, StopEffects
    <3>3. CASE Check(w) \/ Copy(w) \/ Open(w)
      BY <1>0, <3>3, StartEffects
    <3>4. CASE Bind(w) /\ UNCHANGED <<alive, sup, spawned>>
      <4>1. spawned' # spawned + 1
        BY <1>0, <3>4, NumberAssumption DEF Types
      <4>2. Done(w) /\ At(w, "bind")
        BY <3>4, <4>1 DEF Bind
      <4> QED  BY <1>0, <4>2, PutNow
    <3> QED  BY <1>5, <3>1, <3>2, <3>3, <3>4
  <2>3. Where(w, e)' \/ wk'[w].op = None
    BY <1>0, <1>1, <1>4, <1>5, <2>1, <2>2, PairEffects, StopEffects, StartEffects DEF Where
  <2> QED  BY <1>1, <2>1, <2>2, <2>3 DEF AsConfigured
<1>6. CASE Take(w)
  BY <1>0, <1>1, <1>4, <1>6, StopEffects DEF Take, TakeLeaving, Types, Where, AsConfigured,
                                               entryVars
<1>7. CASE Join(w)
  BY <1>0, <1>1, <1>4, <1>7, StopEffects DEF Join, Where, AsConfigured, entryVars
<1>8. CASE ClearRunning(w)
  <2>1. wk[w].pc = "clear" /\ running'[e] = FALSE /\ UNCHANGED <<control, cfg, tcp, sup>>
    BY <1>0, <1>1, <1>8 DEF ClearRunning, Types, entryVars
  <2>2. wk'[w].op # None => wk'[w].pc \in {"retain", "patch"}
    BY <1>0, <1>8, <2>1, StopEffects DEF AfterStop, Working
  <2> QED  BY <1>1, <1>4, <2>1, <2>2 DEF Where, AsConfigured
<1>9. CASE Retain(w)
  BY <1>1, <1>9 DEF Retain
<1>10. CASE Patch(w)
  BY <1>0, <1>1, <1>4, <1>10, StopEffects DEF Patch, Working, Where, AsConfigured, portVars
<1>11. CASE Spawns(w)
  <2>1. /\ wk[w].pc = "bind" /\ wk'[w].pc = "store" /\ wk'[w].s = spawned + 1
        /\ sup'[spawned + 1].port = tcp[e] /\ sup'[spawned + 1].set = wk[w].set
        /\ \A s \in alive : sup'[s] = sup[s]
    BY <1>0, <1>1, <1>11, SpawnFacts
  <2>2. UNCHANGED <<control, running, cfg, tcp>>
    BY <1>11 DEF Spawns, Bind, entryVars
  <2>3. control[e] # None => sup'[control[e]] = sup[control[e]]
    BY <1>0, <2>1 DEF OwnInv, HandInv, ControlIsLive
  <2> QED  BY <1>1, <1>4, <2>1, <2>2, <2>3 DEF Where, AsConfigured
<1>12. CASE Store(w)
  <2>1. /\ wk[w].pc = "store" /\ wk[w].s # None /\ wk'[w].pc = "mark"
        /\ control'[e] = wk[w].s /\ UNCHANGED <<running, cfg, tcp, sup>>
    BY <1>0, <1>1, <1>12, StartEffects DEF Store, Types, Working, entryVars
  <2> QED  BY <1>1, <1>4, <2>1 DEF Where, AsConfigured
<1>13. CASE Mark(w)
  <2>1. /\ wk[w].pc = "mark" /\ wk'[w].pc = "idle" /\ wk'[w].op = None
        /\ running'[e] = TRUE /\ UNCHANGED <<control, cfg, tcp, sup>>
    BY <1>0, <1>1, <1>13, StartEffects DEF Mark, Types, entryVars
  <2> QED  BY <1>1, <2>1 DEF Where, AsConfigured
<1>14. Bind(w) => Spawns(w) \/ UNCHANGED <<alive, sup, spawned>>
  BY <1>0, BindKinds
<1>15. ~Inject(w) /\ ~Write(w)
  BY <1>0, <1>2 DEF Working, Inject, Write
<1> QED  BY <1>5, <1>6, <1>7, <1>8, <1>9, <1>10, <1>11, <1>12, <1>13, <1>14, <1>15
         DEF Work, Stop, Start

(* Only a request that changes a port touches it.                          *)
LEMMA Elsewhere ==
  ASSUME Types, WorkInv, EntryInv, NEW w \in Worker, Request(w) \/ Add(w) \/ Work(w),
         NEW e \in listed, ~Changes(w, e)
  PROVE  UNCHANGED <<control[e], running[e], cfg[e], tcp[e]>> /\ \A s \in alive : sup'[s] = sup[s]
<1>0. Working(w) /\ e \in Entry
  BY DEF WorkInv, Types
<1>1. CASE Add(w)
  <2>1. PICK d \in Device, x \in Entry, p \in Choice : AddTo(w, d, x, p)
    BY <1>1 DEF Add
  <2> QED  BY <1>0, <2>1 DEF AddTo, EntryInv, Types, portVars
<1>2. CASE Take(w) \/ ClearRunning(w) \/ Patch(w) \/ Store(w) \/ Mark(w)
  <2>1. wk[w].op \notin {None, "send"}
    BY <1>0, <1>2, NoneAssumption
    DEF Working, Take, TakeLeaving, ClearRunning, Patch, Store, Mark, At
  <2>2. wk[w].e # e
    BY <2>1 DEF Changes
  <2> QED  BY <1>0, <1>2, <2>2
           DEF Take, TakeLeaving, ClearRunning, Patch, Store, Mark, entryVars, portVars, Types
<1>3. CASE Request(w) \/ Clash(w) \/ WasRunning(w) \/ Join(w) \/ Retain(w) \/ Persist(w)
           \/ Check(w) \/ Copy(w) \/ Open(w) \/ Inject(w) \/ Write(w)
  BY <1>3 DEF Request, Clash, WasRunning, WasRunningIf, Join, Retain, Persist, Check, Copy, Open,
              OpenIf, Inject, Write, entryVars, portVars
<1>4. CASE Bind(w)
  <2>1. UNCHANGED <<control, running, cfg, tcp>>
    BY <1>4 DEF Bind, entryVars
  <2>2. \A s \in alive : sup'[s] = sup[s]
    BY <1>4, BindKinds, SpawnFacts
  <2> QED  BY <2>1, <2>2
<1> QED  BY <1>1, <1>2, <1>3, <1>4 DEF Work, Stop, Start

(* What was raced stays so.                                                *)
LEMMA NotRaced ==
  ASSUME NEW w \in Worker, Request(w) \/ Add(w) \/ Work(w)
  PROVE  raced \subseteq raced'
BY DEF Request, Add, AddTo, Work, Stop, Start, Clash, WasRunning, WasRunningIf, Take, TakeLeaving,
       Join, ClearRunning, Retain, Patch, Persist, Check, Copy, Open, OpenIf, Bind, Store, Mark,
       Inject, Write

LEMMA PortStep == OwnInv /\ PortInv /\ [Next]_vars => PortInv'
<1> SUFFICES ASSUME OwnInv, PortInv, [Next]_vars PROVE PortInv'
  OBVIOUS
<1>0. OwnInv' /\ Types /\ WorkInv /\ EntryInv /\ OneEntryPerDevice
  BY OwnStep DEF OwnInv
<1>1. ASSUME NEW w \in Worker, Request(w) \/ Add(w) \/ Work(w),
             NEW e \in listed', e \notin raced'
      PROVE  PortOk(e)'
  <2>0. /\ \A v \in Worker \ {w} : wk'[v] = wk[v]
        /\ Working(w)
        /\ \A v \in Worker : wk[v].op # None => wk[v].e \in Entry /\ dev[wk[v].e] # None
        /\ \A x \in Entry : dev[x] # None => dev'[x] = dev[x]
        /\ e \notin raced
    BY <1>0, <1>1, JobStep, DevStep, NotRaced DEF WorkInv, Working
  <2>1. e \in Entry /\ \A x \in listed : x \in Entry /\ dev[x] # None
    BY <1>0 DEF OwnInv, Types, EntryInv
  <2>2. CASE e \notin listed
    <3>1. PICK d \in Device, p \in Choice : AddTo(w, d, e, p)
      <4>1. listed' \subseteq listed \/ Add(w)
        BY <1>1 DEF Request, Work, Stop, Start, Clash, WasRunning, WasRunningIf, Take, TakeLeaving,
           Join, ClearRunning, Retain, Patch, Persist, Check, Copy, Open, OpenIf, Bind, Store, Mark,
           Inject, Write, entryVars
      <4> QED  BY <1>1, <2>2, <4>1 DEF Add, AddTo
    <3>2. /\ dev[e] = None /\ dev'[e] = d /\ UNCHANGED <<control, running>>
          /\ control[e] = None /\ ~running[e]
      BY <1>0, <2>1, <3>1 DEF AddTo, Types, EntryInv, portVars
    <3>3. wk'[w].pc = "persist" /\ wk'[w].op = "add" /\ wk'[w].e = e
      BY <1>0, <3>1, PairEffects DEF Now
    <3>4. ~Worked(w, d)
      BY <1>1, <2>1, <3>1, <3>2 DEF AddTo
    <3>5. \A v \in Worker \ {w} : ~Changes(v, e)'
      BY <2>0, <3>2, <3>4 DEF Worked, Changes
    <3> QED  BY <3>2, <3>3, <3>5 DEF PortOk, Alone, Steady, AsConfigured, Where
  <2>3. CASE e \in listed /\ ~Changes(w, e) /\ ~Changes(w, e)'
    <3>1. \A v \in Worker : Changes(v, e)' <=> Changes(v, e)
      BY <2>0, <2>1, <2>3 DEF Changes
    <3>2. \A v \in Worker : Changes(v, e) => wk'[v] = wk[v]
      BY <2>0, <2>3
    <3>3. UNCHANGED <<control[e], running[e], cfg[e], tcp[e]>> /\ \A s \in alive : sup'[s] = sup[s]
      BY <1>0, <1>1, <2>3, Elsewhere
    <3> QED  BY <1>0, <2>0, <2>3, <3>1, <3>2, <3>3, Untouched DEF PortInv
  <2>4. CASE e \in listed /\ ~Changes(w, e) /\ Changes(w, e)'
    <3>1. Request(w)
      <4>1. ~Work(w)
        BY <1>0, <2>4, SameJob DEF Changes
      <4>2. ~Add(w)
        <5>1. ASSUME NEW d \in Device, NEW x \in Entry, NEW p, AddTo(w, d, x, p) PROVE dev[e] = d
          <6>1. wk'[w].e = x
            BY <1>0, <5>1, PairEffects DEF Now
          <6>2. dev'[x] = d
            BY <1>0, <5>1 DEF AddTo, Types
          <6> QED  BY <2>0, <2>1, <2>4, <6>1, <6>2 DEF Changes
        <5> QED  BY <2>4, <5>1 DEF Add
      <4> QED  BY <1>1, <4>1, <4>2
    <3>a. PICK op \in DOMAIN FirstStep, x \in listed :
            /\ \E set : Now(w, FirstStep[op], op, x, None, set)
            /\ raced' = raced \cup IF op # "send" /\ Worked(w, dev[x])
                                   THEN {y \in Entry : dev[y] = dev[x]} ELSE {}
      BY <1>0, <3>1, PairEffects
    <3>2. PICK set : /\ Now(w, FirstStep[op], op, x, None, set)
                     /\ raced' = raced \cup IF op # "send" /\ Worked(w, dev[x])
                                            THEN {y \in Entry : dev[y] = dev[x]} ELSE {}
      BY <3>a
    <3>3. wk'[w].e = e /\ op # "send" /\ wk'[w].pc \in {"check", "take", "clash"} /\ dev' = dev
      BY <1>0, <2>0, <2>1, <2>4, <3>1, <3>2
      DEF Changes, Now, FirstStep, Request, OneEntryPerDevice, entryVars
    <3>4. ~Worked(w, dev[e])
      BY <1>1, <2>1, <3>2, <3>3 DEF Now
    <3>5. \A v \in Worker \ {w} : ~Changes(v, e) /\ ~Changes(v, e)'
      BY <2>0, <3>3, <3>4 DEF Worked, Changes
    <3>6. UNCHANGED <<control, running, cfg, tcp, sup>>
      BY <3>1 DEF Request, entryVars, portVars
    <3>7. AsConfigured(e) /\ (running[e] <=> control[e] # None)
      BY <2>0, <2>4, <3>5 DEF PortInv, PortOk, Steady
    <3> QED  BY <3>3, <3>5, <3>6, <3>7 DEF PortOk, Alone, Steady, AsConfigured, Where
  <2>5. CASE e \in listed /\ Changes(w, e)
    <3>1. ~Add(w) /\ ~Request(w)
      <4>1. ~At(w, "idle")
        BY <2>0, <2>5 DEF Changes, Working, At
      <4> QED  BY <4>1 DEF Add, AddTo, Request
    <3> QED  BY <1>1, <2>0, <2>5, <3>1, OwnWork DEF PortInv
  <2> QED  BY <2>2, <2>3, <2>4, <2>5
<1>2. ASSUME UNCHANGED vars, NEW e \in listed', e \notin raced' PROVE PortOk(e)'
  <2>1. e \in listed /\ PortOk(e)
    BY <1>2 DEF PortInv, vars, entryVars
  <2>2. UNCHANGED <<control[e], running[e], cfg[e], tcp[e], sup, wk, dev>>
    BY <1>2 DEF vars, entryVars, portVars
  <2> QED  BY <1>0, <2>1, <2>2, Untouched DEF Changes
<1> QED  BY <1>1, <1>2 DEF Next, PortInv
----------------------------------------------------------------------------
LEMMA OwnInvariance == Spec => []OwnInv
<1>1. OwnInv /\ [Next]_vars => OwnInv'
  BY OwnStep
<1> QED  BY InitOwn, <1>1, PTL DEF Spec

(* Whatever the workers interleave, the Control in a slot belongs to a live*)
(* supervisor of that very port (registry.rs, PortEntry::start and stop).  *)
THEOREM ControlsAreLive == Spec => []ControlIsLive
<1>1. OwnInv => ControlIsLive
  BY DEF OwnInv, HandInv
<1> QED  BY OwnInvariance, <1>1, PTL

(* Every live supervisor can still be stopped: its Control is in the slot  *)
(* of its port or in the hands of one worker.                              *)
THEOREM NothingLeaks == Spec => []NoLeak
<1>1. OwnInv => NoLeak
  BY DEF OwnInv, HandInv
<1> QED  BY OwnInvariance, <1>1, PTL

(* Two entries never share a device (registry.rs:107).                     *)
THEOREM DevicesAreListedOnce == Spec => []OneEntryPerDevice
<1>1. OwnInv => OneEntryPerDevice
  BY DEF OwnInv
<1> QED  BY OwnInvariance, <1>1, PTL

(* Between requests, a port that two of them never changed at once is what *)
(* the page shows: running if and only if it has a supervisor, and that one*)
(* was started with what is now configured.                                *)
THEOREM PageIsReal == Spec => []ShownIsReal
<1>1. Init => OwnInv /\ PortInv
  <2> SUFFICES ASSUME Init PROVE PortInv
    BY InitOwn
  <2>1. \A w \in Worker : wk[w].op = None
    BY DEF Init, Idle
  <2>2. \A e \in Entry : control[e] = None /\ ~running[e]
    BY DEF Init
  <2>3. \A e \in listed : e \in Entry
    BY DEF Init
  <2> QED  BY <2>1, <2>2, <2>3 DEF PortInv, PortOk, Alone, Steady, AsConfigured, Changes
<1>2. OwnInv /\ PortInv /\ [Next]_vars => (OwnInv /\ PortInv)'
  BY OwnStep, PortStep
<1>3. OwnInv /\ PortInv => ShownIsReal
  <2> SUFFICES ASSUME OwnInv, PortInv, NEW e \in Entry, AtRest(e)
               PROVE  /\ running[e] <=> control[e] # None
                      /\ running[e] => sup[control[e]].set = cfg[e] /\ sup[control[e]].port = tcp[e]
    BY DEF ShownIsReal
  <2>1. PortOk(e) /\ \A w \in Worker : ~Changes(w, e)
    BY DEF AtRest, PortInv, Changes
  <2> QED  BY <2>1 DEF PortOk, Steady, AsConfigured
<1> QED  BY <1>1, <1>2, <1>3, PTL DEF Spec
====
