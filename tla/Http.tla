---- MODULE Http ----
(***************************************************************************)
(* The dashboard's web server (src/src/dashboard/http.rs): a pool of       *)
(* workers that take requests off one queue, and live streams, which run on*)
(* threads of their own and are counted.  What a request does to the ports *)
(* is in Registry and what a data stream carries in Tap; here a request is *)
(* where it comes from, what it shows at the gates and how long it keeps   *)
(* its worker.                                                             *)
(***************************************************************************)
EXTENDS Allowlist, FiniteSets

CONSTANTS Worker,     \* the pool: POOL_THREADS of them
          MaxStreams, \* MAX_STREAMS
          Rules,      \* the allowlist, as parsed at start-up
          Peer,       \* addresses requests come from
          Asked,      \* the requests that are made
          MaxRequest  \* bound: requests

Request == 1..MaxRequest
None == 0

(* "login" brings a token in the URL, the others a cookie; token says that  *)
(* it is right, or that none is required.  "events" and "data" are the      *)
(* streams, "get" is any other read, "change" a POST, PATCH or DELETE.      *)
Kind == {"login", "get", "change", "events", "data"}
Ask == [from : Peer, kind : Kind, token : BOOLEAN, origin : BOOLEAN]
Nobody == [kind |-> "none"]
IsStream(q) == q.kind \in {"events", "data"}

ASSUME HttpAssumption == /\ Rules \in Seq(Cidr) /\ Peer \subseteq Address /\ Asked \subseteq Ask
                         /\ IsFiniteSet(Worker)
                         /\ MaxStreams \in Nat \ {0} /\ MaxRequest \in Nat

Permitted == {ip \in Peer : Permits(Rules, ip)}
Outsider == {ip \in Peer : ~Meant(Rules, ip)}

VARIABLES asked,   \* what each request is, Nobody before it is made
          queue,   \* tiny_http's queue
          at,      \* each worker: "idle", "gate", "sleep", "waiting", "work",
                   \* "claim", "spawn", "refuse"
          job,     \* the request each worker has
          answer,  \* each request's: 0, a status, or 200 for a stream begun
          streams, \* the atomic count
          thread,  \* each request's stream: "off", "live", "done"
          browser  \* "here" or "closed", by request

vars == <<asked, queue, at, job, answer, streams, thread, browser>>

Init == /\ asked = [r \in Request |-> Nobody] /\ queue = <<>>
        /\ at = [w \in Worker |-> "idle"] /\ job = [w \in Worker |-> None]
        /\ answer = [r \in Request |-> 0] /\ streams = 0
        /\ thread = [r \in Request |-> "off"] /\ browser = [r \in Request |-> "here"]
----------------------------------------------------------------------------
(* server.recv()                                                            *)
Take(w) == /\ at[w] = "idle" /\ queue # <<>>
           /\ at' = [at EXCEPT ![w] = "gate"] /\ job' = [job EXCEPT ![w] = Head(queue)]
           /\ queue' = Tail(queue) /\ UNCHANGED <<asked, answer, streams, thread, browser>>

Goes(w, there) == /\ at' = [at EXCEPT ![w] = there]
                  /\ UNCHANGED <<asked, queue, job, answer, streams, thread, browser>>
Responds(w, status) == /\ answer' = [answer EXCEPT ![job[w]] = status]
                       /\ at' = [at EXCEPT ![w] = "idle"] /\ job' = [job EXCEPT ![w] = None]
                       /\ UNCHANGED <<asked, queue, thread, browser>>

(* handle: the allowlist, then the token, then the origin of a change, then *)
(* the route.  A failed token is answered after a delay.  Over TCP, which   *)
(* is all the server listens on, a request always has its peer's address.   *)
Gate(w, permitted) ==
  LET q == asked[job[w]] IN
  /\ at[w] = "gate"
  /\ \/ ~permitted /\ Responds(w, 403) /\ UNCHANGED streams
     \/ permitted /\ ~q.token /\ Goes(w, "sleep")
     \/ /\ permitted /\ q.token
        /\ \/ q.kind = "login" /\ Responds(w, 302) /\ UNCHANGED streams
           \/ q.kind = "change" /\ ~q.origin /\ Responds(w, 403) /\ UNCHANGED streams
           \/ q.kind = "change" /\ q.origin /\ Goes(w, "waiting")
           \/ q.kind = "get" /\ Goes(w, "waiting")
           \/ IsStream(q) /\ Goes(w, "claim")
Handle(w) == job[w] # None /\ Gate(w, asked[job[w]].from \in Permitted)

(* reject, after throttle.note_failure's delay of at most 5 s.              *)
Reject(w) == at[w] = "sleep" /\ Responds(w, 401) /\ UNCHANGED streams
(* What may keep a worker: the body of a change is slow to come, a stop     *)
(* waits for its client (Control::shutdown), the device does not take what  *)
(* is sent to it, or the browser does not read an answer longer than its    *)
(* socket takes.  Then the registry's answer, whatever it is.               *)
Waited(w) == at[w] = "waiting" /\ Goes(w, "work")
Finish(w) == at[w] = "work" /\ Responds(w, 200) /\ UNCHANGED streams
----------------------------------------------------------------------------
(* stream_data of a port that is not there.                                 *)
NoPort(w) == /\ at[w] = "claim" /\ asked[job[w]].kind = "data"
             /\ Responds(w, 404) /\ UNCHANGED streams
(* StreamGuard::acquire: fetch_add, and what was there before decides.      *)
Claim(w) == /\ at[w] = "claim" /\ streams' = streams + 1
            /\ at' = [at EXCEPT ![w] = IF streams >= MaxStreams THEN "refuse" ELSE "spawn"]
            /\ UNCHANGED <<asked, queue, job, answer, thread, browser>>
RefuseTo(w, n) == at[w] = "refuse" /\ streams' = n /\ Responds(w, 503)
(* Slip: a refused claim stays counted.                                     *)
RefuseCounted(w) == RefuseTo(w, streams)
Refuse(w) == RefuseTo(w, streams - 1)

SpawnIf(w, ready) ==
  /\ at[w] = "spawn" /\ ready
  /\ thread' = [thread EXCEPT ![job[w]] = "live"]
  /\ answer' = [answer EXCEPT ![job[w]] = 200]
  /\ at' = [at EXCEPT ![w] = "idle"] /\ job' = [job EXCEPT ![w] = None]
  /\ UNCHANGED <<asked, queue, streams, browser>>
(* Slip: the worker runs the stream itself.                                 *)
SpawnNothing(w) == SpawnIf(w, browser[job[w]] = "closed")
Spawn(w) == SpawnIf(w, TRUE)
(* The thread cannot be started: its closure is dropped, the guard with it. *)
SpawnFails(w) == at[w] = "spawn" /\ streams' = streams - 1 /\ Responds(w, 500)

(* The stream's thread: the headers, then an event, a state or a ping at    *)
(* least every PING_INTERVAL, until a write fails.  It holds its port's     *)
(* entry, so that the tap's end of the channel is there as long.            *)
EndIf(r, writes) ==
  /\ thread[r] = "live" /\ browser[r] = "closed" /\ writes
  /\ thread' = [thread EXCEPT ![r] = "done"] /\ streams' = streams - 1
  /\ UNCHANGED <<asked, queue, at, job, answer, browser>>
(* Slip: a data stream writes when its port says something, and only then.  *)
EndUnpinged(r) == EndIf(r, asked[r].kind = "events")
End(r) == EndIf(r, TRUE)
----------------------------------------------------------------------------
(* Browsers, which the code does not control.  That one is gone only shows  *)
(* on a stream: an answer that cannot be written is dropped.                *)
Make(r, q) == /\ asked[r] = Nobody /\ \A p \in Request : p < r => asked[p] # Nobody
              /\ asked' = [asked EXCEPT ![r] = q] /\ queue' = Append(queue, r)
              /\ UNCHANGED <<at, job, answer, streams, thread, browser>>
Close(r) == /\ IsStream(asked[r]) /\ browser[r] = "here"
            /\ browser' = [browser EXCEPT ![r] = "closed"]
            /\ UNCHANGED <<asked, queue, at, job, answer, streams, thread>>

Work(w) == \/ Take(w) \/ Handle(w) \/ Reject(w) \/ Finish(w) \/ NoPort(w)
           \/ Claim(w) \/ Refuse(w) \/ Spawn(w)
Next == \/ \E w \in Worker : Work(w) \/ Waited(w) \/ SpawnFails(w)
        \/ \E r \in Request : End(r) \/ Close(r) \/ \E q \in Asked : Make(r, q)

Spec == Init /\ [][Next]_vars
(* Threads run; bodies, the clients a stop waits for and browsers come and  *)
(* go as they like.                                                         *)
FairSpec == /\ Spec /\ \A w \in Worker : WF_vars(Work(w))
            /\ \A r \in Request : WF_vars(End(r))
----------------------------------------------------------------------------
TypeOK == /\ asked \in [Request -> Ask \cup {Nobody}] /\ queue \in Seq(Request)
          /\ at \in [Worker -> {"idle", "gate", "sleep", "waiting", "work", "claim",
                                "spawn", "refuse"}]
          /\ job \in [Worker -> Request \cup {None}]
          /\ answer \in [Request -> {0, 200, 302, 401, 403, 404, 500, 503}]
          /\ streams \in Nat /\ thread \in [Request -> {"off", "live", "done"}]
          /\ browser \in [Request -> {"here", "closed"}]

Live == {r \in Request : thread[r] = "live"}
Workers(here) == {w \in Worker : at[w] \in here}

(* The count is "honest" (http.rs:303): it is the streams there are, and    *)
(* those being begun or refused at the moment; there are never more than    *)
(* MAX_STREAMS.                                                             *)
Honest == /\ streams = Cardinality(Live) + Cardinality(Workers({"spawn", "refuse"}))
          /\ Cardinality(Live) + Cardinality(Workers({"spawn"})) <= MaxStreams
(* "An address that is not allowed should not get as far as learning        *)
(* whether its guess was right" (http.rs:121-122), nor as a stream.         *)
SettledFirst == \A r \in Request :
  asked[r] # Nobody /\ asked[r].from \in Outsider =>
    answer[r] \in {0, 403} /\ thread[r] = "off" /\ \A w \in Worker : job[w] = r => at[w] = "gate"
(* What a reader of the pool may rely on in every state.                    *)
Inv == TypeOK /\ Honest /\ SettledFirst

(* A rule lets in the hosts it covers and nobody else, at every prefix      *)
(* from 0 to the full width, whichever way an IPv4 client's address is      *)
(* written (net.rs:38-39, 66, 138-142; its tests, from 197 on); the network *)
(* the program suggests for --allow has the address it was made for.  Once, *)
(* before the first request: rules do not change.                           *)
AsMeant == (\A r \in Request : asked[r] = Nobody) =>
  \A ip \in Address :
    /\ Permits(<<>>, ip)
    /\ \A rule \in Cidr : Permits(<<rule>>, ip) <=> Meant(<<rule>>, ip)
    /\ Host(ip).fam = 4 => Meant(<<Suggested(ip)>>, ip)

(* Once the browsers have gone, no stream keeps its slot.                   *)
SlotsComeBack == <>[](\A r \in Request : IsStream(asked[r]) => browser[r] = "closed")
                 /\ (\A w \in Worker : []<>(at[w] # "waiting")) => <>[](streams = 0)

(* However many streams are open, a request is answered, unless what keeps  *)
(* a worker (Waited) keeps it for good: "a couple of monitor panes would    *)
(* otherwise drain the pool and hang the whole dashboard" (http.rs:5-6).    *)
EveryoneAnswered == (\A w \in Worker : []<>(at[w] # "waiting")) =>
  \A r \in Request : (asked[r] # Nobody) ~> (answer[r] # 0)
====
