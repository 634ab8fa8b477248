---- MODULE Registry ----
(***************************************************************************)
(* The dashboard's set of ports (src/src/dashboard/registry.rs) under the  *)
(* HTTP workers that call it.  A worker runs one request at a time; a step *)
(* is one lock-protected access, one atomic flag, or one call that can     *)
(* fail or block.  Supervisor has the inside of a running port: here it is *)
(* alive from the spawn in supervisor::start until Control::shutdown has   *)
(* joined it.  A port's id is its device: unique_id keeps apart the ids of *)
(* the paired ports (devices whose slugs collide are left out).            *)
(* ConfigStore has persist's file; here persist only succeeds or fails.    *)
(* Labels, errors and uptime, which only the browser reads, are left out.  *)
(***************************************************************************)
EXTENDS Naturals, FiniteSets

CONSTANTS Worker,      \* the threads of the HTTP pool
          Device,      \* device names, and the port ids derived from them
          Entry,       \* PortEntry objects, as many as are ever paired
          Field,       \* the line settings a PATCH may send
          TcpPort,     \* TCP port numbers, at or above base_port
          None,
          MaxStarts,   \* bound: supervisors ever spawned
          MaxRequests  \* bound: requests a worker handles

ASSUME NumberAssumption == TcpPort \subseteq Nat /\ MaxStarts \in Nat /\ MaxRequests \in Nat
ASSUME NoneAssumption == /\ None \notin Device \cup Entry \cup TcpPort \cup Nat
                         /\ None \notin {"start", "stop", "remove", "update", "send", "add"}

VARIABLES listed,     \* Registry.entries
          dev,        \* PortEntry.device (and id), None before add
          tcp,        \* PortConfig.tcp_port
          cfg,        \* PortConfig.serial: the fields changed since pairing
          running,    \* PortState.running
          control,    \* PortEntry.control: a supervisor, or None
          alive,      \* the supervisors that have not ended
          sup,        \* what each supervisor was started with
          spawned,    \* number of supervisors so far
          wk,         \* each worker's request and locals
          left,       \* requests each worker may still take
          raced       \* history: entries two requests worked on at once

entryVars == <<listed, dev, tcp, cfg>>
portVars  == <<running, control, alive, sup, spawned>>
vars == <<entryVars, portVars, wk, left, raced>>

Idle == [pc |-> "idle", op |-> None, e |-> None, s |-> None,
         set |-> {}, port |-> None, was |-> FALSE]

(* Registry::new: the ports of the config file, stopped, whose TCP ports    *)
(* nobody compares.  A file that names a device twice, which add never      *)
(* writes, is left out.  autostart_all's starts are requests like others.   *)
Init == /\ dev \in [Entry -> Device \cup {None}]
        /\ \A e, f \in Entry : dev[e] = dev[f] => e = f \/ dev[e] = None
        /\ tcp \in [Entry -> TcpPort \cup {None}]
        /\ \A e \in Entry : tcp[e] = None <=> dev[e] = None
        /\ listed = {e \in Entry : dev[e] # None}
        /\ cfg = [e \in Entry |-> {}]
        /\ running = [e \in Entry |-> FALSE]
        /\ control = [e \in Entry |-> None]
        /\ alive = {} /\ spawned = 0
        /\ sup = [s \in 1..MaxStarts |-> None]
        /\ wk = [w \in Worker |-> Idle]
        /\ left = [w \in Worker |-> MaxRequests]
        /\ raced = {}
----------------------------------------------------------------------------
At(w, pc) == wk[w].pc = pc
Put(w, r) == wk' = [wk EXCEPT ![w] = r]
Go(w, pc) == Put(w, [wk[w] EXCEPT !.pc = pc])
Done(w) == Put(w, Idle)

(* What is exclusive outside the program.  A device is held by a supervisor *)
(* until Control::shutdown drops it, by a start that has opened it, and by  *)
(* a send that has cloned `inject`; a TCP port by a supervisor's listener.  *)
Held(d) == \/ \E s \in alive : dev[sup[s].e] = d
           \/ \E w \in Worker : wk[w].pc \in {"bind", "write"} /\ dev[wk[w].e] = d
Bound == {sup[s].port : s \in alive}
Taken == {tcp[e] : e \in listed}

(* Somebody but w is changing port d (a send changes nothing).              *)
Worked(w, d) == \E v \in Worker \ {w} : wk[v].op \notin {None, "send"} /\ dev[wk[v].e] = d

(* A request for a port arrives and Registry::entry finds it (an unknown id *)
(* changes nothing).  update first reads the settings api::update builds on.*)
FirstStep == [start |-> "check", stop |-> "take", remove |-> "take",
              update |-> "clash", send |-> "inject"]
Request(w) ==
  /\ At(w, "idle") /\ left[w] > 0
  /\ left' = [left EXCEPT ![w] = @ - 1]
  /\ \E op \in DOMAIN FirstStep, e \in listed :
       /\ \E set \in {{}} \cup (IF op = "update" THEN {cfg[e] \cup {f} : f \in Field} ELSE {}),
             port \in {None} \cup (IF op = "update" THEN TcpPort ELSE {}) :
            Put(w, [Idle EXCEPT !.pc = FirstStep[op], !.op = op, !.e = e,
                                !.set = set, !.port = port])
       /\ raced' = raced \cup IF op # "send" /\ Worked(w, dev[e])
                              THEN {x \in Entry : dev[x] = dev[e]} ELSE {}
  /\ UNCHANGED <<entryVars, portVars>>

(* Registry::add up to `drop(entries)`: one critical section.  A requested  *)
(* port must not be taken; otherwise allocate_port gives the lowest that is *)
(* neither taken nor in use.                                                *)
Free(p) == p \notin Taken \cup Bound
Choice == {p \in TcpPort : p \notin Taken}
            \cup {p \in TcpPort : Free(p) /\ \A q \in TcpPort : Free(q) => p <= q}
AddTo(w, d, e, p) ==
  /\ At(w, "idle") /\ left[w] > 0
  /\ left' = [left EXCEPT ![w] = @ - 1]
  /\ dev[e] = None
  /\ dev' = [dev EXCEPT ![e] = d]
  /\ tcp' = [tcp EXCEPT ![e] = p]
  /\ listed' = listed \cup {e}
  /\ Put(w, [Idle EXCEPT !.pc = "persist", !.op = "add", !.e = e])
  /\ raced' = raced \cup IF Worked(w, d) THEN {x \in Entry : dev'[x] = d} ELSE {}
  /\ UNCHANGED <<cfg, portVars>>
(* Slip: the device is not looked for among the entries.                    *)
AddAnyDevice(w) == \E d \in Device, e \in Entry, p \in Choice : AddTo(w, d, e, p)
Add(w) == \E d \in Device, e \in Entry, p \in Choice :
             (\A x \in listed : dev[x] # d) /\ AddTo(w, d, e, p)

(* update: the TCP port asked for is compared with the other entries', and  *)
(* the lock released.                                                       *)
Clash(w) == /\ At(w, "clash")
            /\ IF \E x \in listed : dev[x] # dev[wk[w].e] /\ tcp[x] = wk[w].port
               THEN Done(w) ELSE Go(w, "was")
            /\ UNCHANGED <<entryVars, portVars, left, raced>>
WasRunningIf(w, was) == /\ At(w, "was")
                        /\ Put(w, [wk[w] EXCEPT !.was = was, !.pc = IF was THEN "take" ELSE "patch"])
                        /\ UNCHANGED <<entryVars, portVars, left, raced>>
(* Slip: a running port is not stopped and reopened.                        *)
NeverRestarted(w) == WasRunningIf(w, FALSE)
WasRunning(w) == WasRunningIf(w, running[wk[w].e])
----------------------------------------------------------------------------
(* PortEntry::stop.  The Control is taken out of its slot, then shut down   *)
(* and joined with no lock held, then the flag is cleared.                  *)
TakeLeaving(w, s) == /\ At(w, "take")
                     /\ Put(w, [wk[w] EXCEPT !.s = control[wk[w].e],
                                  !.pc = IF control[wk[w].e] = None THEN "clear" ELSE "join"])
                     /\ control' = [control EXCEPT ![wk[w].e] = s]
                     /\ UNCHANGED <<entryVars, running, alive, sup, spawned, left, raced>>
(* Slip: the Control is used where it is and stays in its slot.             *)
TakeNothing(w) == TakeLeaving(w, control[wk[w].e])
Take(w) == TakeLeaving(w, None)
Join(w) == /\ At(w, "join")
           /\ alive' = alive \ {wk[w].s}
           /\ Put(w, [wk[w] EXCEPT !.s = None, !.pc = "clear"])
           /\ UNCHANGED <<entryVars, running, control, sup, spawned, left, raced>>
AfterStop == [stop |-> "idle", remove |-> "retain", update |-> "patch"]
ClearRunning(w) == /\ At(w, "clear")
                   /\ running' = [running EXCEPT ![wk[w].e] = FALSE]
                   /\ IF wk[w].op = "stop" THEN Done(w) ELSE Go(w, AfterStop[wk[w].op])
                   /\ UNCHANGED <<entryVars, control, alive, sup, spawned, left, raced>>

(* remove: every entry with this id goes.                                   *)
Retain(w) == /\ At(w, "retain")
             /\ listed' = {x \in listed : dev[x] # dev[wk[w].e]}
             /\ Go(w, "persist")
             /\ UNCHANGED <<dev, tcp, cfg, portVars, left, raced>>

(* update: the fields are written under the entry's own lock.               *)
Patch(w) == /\ At(w, "patch")
            /\ cfg' = [cfg EXCEPT ![wk[w].e] = IF wk[w].set = {} THEN @ ELSE wk[w].set]
            /\ tcp' = [tcp EXCEPT ![wk[w].e] = IF wk[w].port = None THEN @ ELSE wk[w].port]
            /\ Go(w, "persist")
            /\ UNCHANGED <<listed, dev, portVars, left, raced>>

(* persist()?  What was done stays done when it fails.  After it, update    *)
(* looks the id up again and starts what it finds, and api::create starts   *)
(* the new entry if the request says so.                                    *)
Persist(w) ==
  /\ At(w, "persist")
  /\ \/ Done(w)
     \/ /\ wk[w].op = "add" \/ (wk[w].op = "update" /\ wk[w].was)
        /\ \E e \in listed : dev[e] = dev[wk[w].e] /\ Put(w, [wk[w] EXCEPT !.e = e, !.pc = "check"])
  /\ UNCHANGED <<entryVars, portVars, left, raced>>
----------------------------------------------------------------------------
(* Registry::start and supervisor::start.  The settings are copied, the     *)
(* device opened, and the listener bound to whatever the port is by then.   *)
Check(w) == /\ At(w, "check")
            /\ IF running[wk[w].e] THEN Done(w) ELSE Go(w, "copy")
            /\ UNCHANGED <<entryVars, portVars, left, raced>>
Copy(w) == /\ At(w, "copy")
           /\ Put(w, [wk[w] EXCEPT !.set = cfg[wk[w].e], !.pc = "open"])
           /\ UNCHANGED <<entryVars, portVars, left, raced>>
OpenIf(w, ok) == /\ At(w, "open")
                 /\ (ok /\ Go(w, "bind")) \/ Done(w)
                 /\ UNCHANGED <<entryVars, portVars, left, raced>>
(* Slip: the device is not opened exclusively.                              *)
OpenShared(w) == OpenIf(w, TRUE)
Open(w) == OpenIf(w, ~Held(dev[wk[w].e]))
Bind(w) == /\ At(w, "bind")
           /\ \/ /\ tcp[wk[w].e] \notin Bound /\ spawned < MaxStarts
                 /\ spawned' = spawned + 1
                 /\ alive' = alive \cup {spawned'}
                 /\ sup' = [sup EXCEPT ![spawned'] =
                              [e |-> wk[w].e, port |-> tcp[wk[w].e], set |-> wk[w].set]]
                 /\ Put(w, [wk[w] EXCEPT !.s = spawned', !.pc = "store"])
              \/ Done(w) /\ UNCHANGED <<alive, sup, spawned>>
           /\ UNCHANGED <<entryVars, running, control, left, raced>>
(* Whatever Control was in the slot is dropped, its thread left running.    *)
Store(w) == /\ At(w, "store")
            /\ control' = [control EXCEPT ![wk[w].e] = wk[w].s]
            /\ Put(w, [wk[w] EXCEPT !.s = None, !.pc = "mark"])
            /\ UNCHANGED <<entryVars, running, alive, sup, spawned, left, raced>>
Mark(w) == /\ At(w, "mark")
           /\ running' = [running EXCEPT ![wk[w].e] = TRUE]
           /\ Done(w)
           /\ UNCHANGED <<entryVars, control, alive, sup, spawned, left, raced>>

(* send: `inject` is cloned under the control lock, and written to without. *)
Inject(w) == /\ At(w, "inject")
             /\ IF control[wk[w].e] = None THEN Done(w) ELSE Go(w, "write")
             /\ UNCHANGED <<entryVars, portVars, left, raced>>
Write(w) == /\ At(w, "write")
            /\ Done(w)
            /\ UNCHANGED <<entryVars, portVars, left, raced>>
----------------------------------------------------------------------------
Stop(w) == Take(w) \/ Join(w) \/ ClearRunning(w)
Start(w) == Check(w) \/ Copy(w) \/ Open(w) \/ Bind(w) \/ Store(w) \/ Mark(w)
Work(w) == Clash(w) \/ WasRunning(w) \/ Stop(w) \/ Retain(w) \/ Patch(w)
           \/ Persist(w) \/ Start(w) \/ Inject(w) \/ Write(w)
Next == \E w \in Worker : Request(w) \/ Add(w) \/ Work(w)
Spec == Init /\ [][Next]_vars
----------------------------------------------------------------------------
(* Supervisors are neither lost nor confused, whatever the workers          *)
(* interleave: a Control in a slot belongs to a live supervisor of that     *)
(* very entry, and every live supervisor can still be stopped, because its  *)
(* Control is in its entry's slot or in the hands of one worker.            *)
ControlIsLive == \A e \in Entry : control[e] # None =>
                   control[e] \in alive /\ sup[control[e]].e = e
NoLeak == \A s \in alive : \/ control[sup[s].e] = s
                           \/ \E w \in Worker : wk[w].s = s

(* registry.rs:107: one entry per device.                                   *)
OneEntryPerDevice == \A e, f \in listed : dev[e] = dev[f] => e = f

(* A port that two requests never changed at once is, between requests,     *)
(* what the page shows: running exactly when it has a supervisor, and that  *)
(* one was started with the settings and the TCP port now configured, even  *)
(* when a persist, an open or a bind failed halfway.                        *)
AtRest(e) == e \in listed \ raced /\ \A w \in Worker : wk[w].op = None \/ dev[wk[w].e] # dev[e]
ShownIsReal == \A e \in Entry : AtRest(e) =>
  /\ running[e] <=> control[e] # None
  /\ running[e] => sup[control[e]].set = cfg[e] /\ sup[control[e]].port = tcp[e]

(* registry.rs:326, "tear the port down and release the device": a removed  *)
(* port that no request is working on has no supervisor.                    *)
NoOrphan == \A s \in alive : \/ sup[s].e \in listed
                             \/ \E w \in Worker : wk[w].op # None /\ wk[w].e = sup[s].e
====
