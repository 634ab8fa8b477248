---- MODULE Tap ----
(***************************************************************************)
(* The monitor of one port (src/src/dashboard/tap.rs): what goes over the  *)
(* device is counted and offered to every watching browser without ever    *)
(* waiting for one.  Publishers are the reader of the device (TapReader or *)
(* idle_tick) and the two writers to it (TapSink: the bridge's pump and    *)
(* the send box).  A watcher is one Subscription, driven by the stream     *)
(* thread of http::stream_data.  Locks are explicit; what the code does    *)
(* under the subscribers lock without touching a queue is one step.  A     *)
(* frame is known by its turn under that lock; at_ms, the byte counts and  *)
(* the order of the subscriber list are left out.                          *)
(***************************************************************************)
EXTENDS Integers, Sequences, FiniteSets

CONSTANTS Watcher,    \* subscriptions
          Source,     \* publishers that read the device
          Sink,       \* publishers that write to it through TapSink
          Backlog,    \* SUBSCRIBER_BACKLOG
          None,
          MaxFrames   \* bound: frames published

Publisher == Source \cup Sink

ASSUME TapAssumption == /\ Backlog \in Nat \ {0} /\ MaxFrames \in Nat
                        /\ None \notin Publisher \cup Watcher
                        /\ IsFiniteSet(Watcher)

VARIABLES subs,      \* Tap.subscribers
          count,     \* Tap.subscriber_count, read without the lock
          holder,    \* who holds the subscribers lock across steps
          serial,    \* frames that had their turn under it
          queue,     \* each watcher's channel
          dropped,   \* Subscription.dropped
          watch,     \* "no", "in" (subscribed) or "left"
          base,      \* history: `serial` when the watcher subscribed
          took,      \* history: frames the watcher received,
          at,        \*          the last of them,
          shown,     \*          and the drop count sent to the browser with it
          pc,        \* where each publisher is
          todo,      \* watchers the frame is still to be offered to
          full,      \* the watcher whose channel was full, until that is counted
          owed,      \* history: watchers there since before the publish began
                     \* whom its frame was not offered to yet
          out,       \* who holds the device's write lock
          wire,      \* history: the last half of a frame written to the device
          frames     \* frames begun

watchVars == <<watch, base, took, at, shown>>
wireVars  == <<out, wire, frames>>
pubVars   == <<pc, todo, full, owed>>
subVars   == <<subs, count, holder, serial>>
vars == <<subVars, queue, dropped, watchVars, pubVars, wireVars>>

Init == /\ subs = {} /\ count = 0 /\ holder = None /\ serial = 0
        /\ queue = [w \in Watcher |-> <<>>]
        /\ dropped = [w \in Watcher |-> 0]
        /\ watch = [w \in Watcher |-> "no"]
        /\ base = [w \in Watcher |-> 0] /\ took = [w \in Watcher |-> 0]
        /\ at = [w \in Watcher |-> 0] /\ shown = [w \in Watcher |-> 0]
        /\ pc = [p \in Publisher |-> "idle"]
        /\ todo = [p \in Publisher |-> {}] /\ full = [p \in Publisher |-> None]
        /\ owed = [p \in Publisher |-> {}]
        /\ out = None /\ wire = [by |-> None, half |-> 2] /\ frames = 0
----------------------------------------------------------------------------
Goto(p, here, there) == pc[p] = here /\ pc' = [pc EXCEPT ![p] = there]
In == {w \in Watcher : watch[w] = "in"}
Owe(p) == owed' = [owed EXCEPT ![p] = In]

(* TapReader::read returns bytes: publish begins.                           *)
Read(p) == /\ p \in Source /\ frames < MaxFrames
           /\ Goto(p, "idle", "counted")
           /\ frames' = frames + 1
           /\ Owe(p)
           /\ UNCHANGED <<subVars, queue, dropped, watchVars, todo, full, out, wire>>

(* TapSink::write: write_all under the device's write lock, in two halves;  *)
(* publish once it is released, or nothing if the write failed.             *)
WriteUnder(p, lock) ==
  /\ p \in Sink /\ frames < MaxFrames
  /\ out = None \/ lock = None
  /\ Goto(p, "idle", "writing")
  /\ out' = lock
  /\ frames' = frames + 1
  /\ wire' = [by |-> p, half |-> 1]
  /\ UNCHANGED <<subVars, queue, dropped, watchVars, todo, full, owed>>
(* Slip: the handle is shared without a lock.                               *)
WriteUnlocked(p) == WriteUnder(p, None)
Write(p) == WriteUnder(p, p)
Written(p) == /\ Goto(p, "writing", "counted")
              /\ out' = None
              /\ wire' = [by |-> p, half |-> 2]
              /\ Owe(p)
              /\ UNCHANGED <<subVars, queue, dropped, watchVars, todo, full, frames>>
WriteFails(p) == /\ Goto(p, "writing", "idle")
                 /\ out' = None
                 /\ wire' = [by |-> p, half |-> 2]
                 /\ UNCHANGED <<subVars, queue, dropped, watchVars, todo, full, owed, frames>>

(* publish: nobody watching costs one load; otherwise take the lock, and    *)
(* the frame has its turn.                                                  *)
Skip(p) == /\ count = 0
           /\ Goto(p, "counted", "idle")
           /\ UNCHANGED <<subVars, queue, dropped, watchVars, todo, full, owed, wireVars>>
Look(p) == /\ count > 0
           /\ Goto(p, "counted", "locking")
           /\ UNCHANGED <<subVars, queue, dropped, watchVars, todo, full, owed, wireVars>>
Lock(p) == /\ holder = None
           /\ Goto(p, "locking", "offering")
           /\ holder' = p
           /\ serial' = serial + 1
           /\ todo' = [todo EXCEPT ![p] = subs]
           /\ UNCHANGED <<subs, count, queue, dropped, watchVars, full, owed, wireVars>>

(* try_send to each subscriber; Full is counted, in a step of its own.  It  *)
(* is never Disconnected: a Subscription leaves the list before its         *)
(* receiver goes.                                                           *)
Offer(p, w) == /\ pc[p] = "offering" /\ full[p] = None
               /\ w \in todo[p] /\ Len(queue[w]) < Backlog
               /\ queue' = [queue EXCEPT ![w] = Append(@, serial)]
               /\ todo' = [todo EXCEPT ![p] = @ \ {w}]
               /\ owed' = [owed EXCEPT ![p] = @ \ {w}]
               /\ UNCHANGED <<subVars, dropped, watchVars, pc, full, wireVars>>
FullIf(p, w, refused) ==
  /\ pc[p] = "offering" /\ full[p] = None
  /\ w \in todo[p] /\ refused
  /\ full' = [full EXCEPT ![p] = w]
  /\ UNCHANGED <<subVars, queue, dropped, watchVars, pc, todo, owed, wireVars>>
(* Slip: a plain send, which waits for room and never refuses.              *)
FullBlocks(p, w) == FullIf(p, w, FALSE)
Full(p, w) == FullIf(p, w, Len(queue[w]) >= Backlog)

CountDropAs(p, w, n) ==
  /\ full[p] = w
  /\ dropped' = [dropped EXCEPT ![w] = @ + n]
  /\ full' = [full EXCEPT ![p] = None]
  /\ todo' = [todo EXCEPT ![p] = @ \ {w}]
  /\ owed' = [owed EXCEPT ![p] = @ \ {w}]
  /\ UNCHANGED <<subVars, queue, watchVars, pc, wireVars>>
(* Slip: the frame is dropped and nobody is told.                           *)
DropSilently(p, w) == CountDropAs(p, w, 0)
CountDrop(p, w) == CountDropAs(p, w, 1)

(* The guard goes, the count stored under it.                               *)
Unlock(p) == /\ todo[p] = {}
             /\ Goto(p, "offering", "idle")
             /\ holder' = None
             /\ count' = Cardinality(subs)
             /\ UNCHANGED <<subs, serial, queue, dropped, watchVars, todo, full, owed, wireVars>>
----------------------------------------------------------------------------
(* Tap::subscribe, one critical section; n is the count it stores.          *)
SubscribeAs(w, n) ==
  /\ holder = None /\ watch[w] = "no"
  /\ subs' = subs \cup {w} /\ count' = n
  /\ watch' = [watch EXCEPT ![w] = "in"]
  /\ base' = [base EXCEPT ![w] = serial] /\ at' = [at EXCEPT ![w] = serial]
  /\ UNCHANGED <<holder, serial, queue, dropped, took, shown, pubVars, wireVars>>
(* Slip: the count is left for the next publish to bring up to date.        *)
SubscribeUncounted(w) == SubscribeAs(w, count)
Subscribe(w) == SubscribeAs(w, Cardinality(subs \cup {w}))

(* Drop for Subscription.                                                   *)
Unsubscribe(w) ==
  /\ holder = None /\ watch[w] = "in"
  /\ subs' = subs \ {w} /\ count' = Cardinality(subs \ {w})
  /\ watch' = [watch EXCEPT ![w] = "left"]
  /\ owed' = [p \in Publisher |-> owed[p] \ {w}]
  /\ UNCHANGED <<holder, serial, queue, dropped, base, took, at, shown, pc, todo, full, wireVars>>

(* http::stream_data: recv_timeout, then dropped() for the same event.      *)
Receive(w) ==
  /\ watch[w] = "in" /\ queue[w] # <<>>
  /\ queue' = [queue EXCEPT ![w] = Tail(@)]
  /\ took' = [took EXCEPT ![w] = @ + 1]
  /\ at' = [at EXCEPT ![w] = Head(queue[w])]
  /\ shown' = [shown EXCEPT ![w] = dropped[w]]
  /\ UNCHANGED <<subVars, dropped, watch, base, pubVars, wireVars>>

Publish(p) == \/ Written(p) \/ WriteFails(p) \/ Skip(p) \/ Look(p) \/ Lock(p) \/ Unlock(p)
              \/ \E w \in Watcher : Offer(p, w) \/ Full(p, w) \/ CountDrop(p, w)

Next == \/ \E p \in Publisher : Read(p) \/ Write(p) \/ Publish(p)
        \/ \E w \in Watcher : Subscribe(w) \/ Unsubscribe(w) \/ Receive(w)

Spec == Init /\ [][Next]_vars
(* A thread that publishes goes on until it needs the lock, and the lock    *)
(* does not starve it.  Nothing is asked of the watchers.                   *)
FairSpec == /\ Spec
            /\ \A p \in Publisher : WF_vars(Publish(p)) /\ SF_vars(Lock(p))
----------------------------------------------------------------------------
TypeOK ==
  /\ subs \subseteq Watcher /\ count \in Nat /\ serial \in Nat
  /\ holder \in Publisher \cup {None} /\ out \in Publisher \cup {None}
  /\ queue \in [Watcher -> Seq(Nat)] /\ dropped \in [Watcher -> Nat]
  /\ watch \in [Watcher -> {"no", "in", "left"}]
  /\ base \in [Watcher -> Nat] /\ took \in [Watcher -> Nat]
  /\ at \in [Watcher -> Nat] /\ shown \in [Watcher -> Nat]
  /\ pc \in [Publisher -> {"idle", "writing", "counted", "locking", "offering"}]
  /\ todo \in [Publisher -> SUBSET Watcher]
  /\ full \in [Publisher -> Watcher \cup {None}]
  /\ owed \in [Publisher -> SUBSET Watcher]
  /\ wire \in [by : Publisher \cup {None}, half : {1, 2}] /\ frames \in Nat

(* Who holds the subscribers lock is the publisher that is offering, and    *)
(* the list does not change under it.                                       *)
LockInv == /\ subs = In
           /\ \A p \in Publisher :
                /\ pc[p] = "offering" <=> holder = p
                /\ todo[p] # {} => holder = p
                /\ todo[p] \subseteq subs
                /\ full[p] # None => full[p] \in todo[p]

Pending(w) == IF \E p \in Publisher : w \in todo[p] THEN 1 ELSE 0
(* The books of one watcher: every frame that had its turn since it         *)
(* subscribed is still to be offered, waiting in its channel, received or   *)
(* counted as dropped; and the drop count already covers every frame        *)
(* missing before one that waits or was received.                           *)
Books(w) == watch[w] = "in" =>
  /\ serial - base[w] = dropped[w] + Len(queue[w]) + took[w] + Pending(w)
  /\ \A j \in 1..Len(queue[w]) : queue[w][j] - base[w] - (took[w] + j) <= dropped[w]
Inv == TypeOK /\ LockInv /\ \A w \in Watcher : Books(w)

(* A lossy view is never mistaken for a lossy link: with every frame shown, *)
(* the browser is told of at least as many drops as frames are missing      *)
(* before it (tap.rs 11-13).                                                *)
NoSilentLoss == \A w \in Watcher : at[w] - base[w] - took[w] <= shown[w]

(* The lock-free look at the count overlooks nobody: when a publish is over *)
(* every watcher that was subscribed before it began, and still is, was     *)
(* offered the frame (tap.rs 103-105).                                      *)
NobodyOverlooked == \A p \in Publisher : pc[p] = "idle" => owed[p] = {}

(* Two writers never interleave into a corrupt frame: what follows the      *)
(* first half of one is its second (tap.rs 214-216).                        *)
WholeFrames == [][wire' # wire => (wire'.half = 2 <=> wire = [by |-> wire'.by, half |-> 1])]_vars

(* A browser never slows the wire down: a publish ends although no watcher  *)
(* need ever take a frame (tap.rs 7-11).                                    *)
NeverSlowsTheWire == \A p \in Publisher : pc[p] = "counted" ~> pc[p] = "idle"
====
