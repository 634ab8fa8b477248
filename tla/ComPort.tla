---- MODULE ComPort ----
(***************************************************************************)
(* The control lines of a port over RFC 2217 sessions, one after the other *)
(* (src/src/rfc2217/comport.rs): what ServerHandler answers about DTR, RTS *)
(* and break, and what the modem notifier reports of CTS, DSR, RI and CD.  *)
(* Line settings are in Telnet, the threads and their lock in              *)
(* Rfc2217Session; an answer or a report counts as told when it is written.*)
(* Names that Telnet has too begin with CP: proofs use the two together.   *)
(***************************************************************************)
EXTENDS Naturals, SequencesExt

CONSTANTS Sampled,     \* the input lines, in the order they are read
          Output,      \* the lines a client can set
          MaxSession,  \* bound: sessions
          MaxChange,   \* bound: changes of the input lines
          MaxRequest   \* bound: requests of each client

Input == ToSet(Sampled)

ASSUME ComPortAssumption == /\ Sampled \in Seq({"cts", "dsr", "ri", "cd"})
                            /\ Output \subseteq {"dtr", "rts", "break"}
                            /\ MaxSession \in Nat /\ MaxChange \in Nat /\ MaxRequest \in Nat

VARIABLES session,  \* how many have begun
          phase,    \* "none", "on", or "ending": stop_notifier is set
          virtual,  \* shadow.is_some()
          hw,       \* the outputs as the device has them
          book,     \* dtr, rts, break_on
          set,      \* history: outputs this session has changed on the device
          answered, \* history: the last answer about each output, or "none"
          requests, \* requests of this session's client
          mask,     \* modem_mask
          lines,    \* the inputs that are high
          changes,  \* how often they have changed
          at,       \* the notifier: "off", "check", "sample", "write"
          reading,  \* how many inputs it has read, and
          state,    \* those of them it found high
          previous, \* its last sample, or Never
          report,   \* what it is about to write
          reports,  \* history: what it has told this client
          kept,     \* history: inputs in the mask whenever it looked since a report
          missed    \* history: inputs that changed behind the mask since a report

outVars    == <<hw, book, set, answered>>
notifyVars == <<at, reading, state, previous, report, reports, kept, missed>>
cpVars == <<session, phase, virtual, outVars, requests, mask, lines, changes, notifyVars>>

Never == {"never"}
Notice == [lines : SUBSET Input, deltas : SUBSET Input, kept : SUBSET Input]
Nothing == [lines |-> {}, deltas |-> {}, kept |-> {}]

(* A port is found with its outputs in any state; a pseudo-terminal has no  *)
(* control lines, and every read of an input fails.                         *)
CPInit == /\ session = 0 /\ phase = "none" /\ virtual \in BOOLEAN
          /\ hw \in [Output -> BOOLEAN] /\ book = [o \in Output |-> FALSE] /\ set = {}
          /\ answered = [o \in Output |-> "none"] /\ requests = 0 /\ mask = Input
          /\ lines \in SUBSET Input /\ (virtual => lines = {}) /\ changes = 0
          /\ at = "off" /\ reading = 0 /\ state = {} /\ previous = Never
          /\ report = Nothing /\ reports = <<>> /\ kept = Input /\ missed = {}
----------------------------------------------------------------------------
(* rfc2217_session: a new mask, a new notifier and a new handler, whose     *)
(* bookkeeping starts from FALSE.                                           *)
BeginWith(first) ==
  /\ phase = "none" /\ session < MaxSession
  /\ session' = session + 1 /\ phase' = "on" /\ requests' = 0 /\ mask' = Input
  /\ book' = [o \in Output |-> FALSE] /\ set' = {} /\ answered' = [o \in Output |-> "none"]
  /\ at' = "check" /\ previous' = first /\ reports' = <<>> /\ kept' = Input /\ missed' = {}
  /\ UNCHANGED <<virtual, hw, lines, changes, reading, state, report>>
(* Slip: the notifier starts from "everything low" and not from None.       *)
BeginLow == BeginWith({})
Begin == BeginWith(Never)

(* The bridge is over, for whatever reason: stop_notifier, join.            *)
Stop == /\ phase = "on" /\ phase' = "ending"
        /\ UNCHANGED <<session, virtual, outVars, requests, mask, lines, changes, notifyVars>>
Joined == /\ phase = "ending" /\ at = "off" /\ phase' = "none"
          /\ UNCHANGED <<session, virtual, outVars, requests, mask, lines, changes, notifyVars>>
----------------------------------------------------------------------------
(* set_control: apply_dtr, apply_rts, apply_break, and their queries.  The  *)
(* port may refuse; a virtual line has nothing to refuse with.              *)
Request == phase = "on" /\ requests < MaxRequest /\ requests' = requests + 1
Wire(on) == IF on THEN "on" ELSE "off"
ApplyAs(o, on, works, booked) ==
  /\ Request
  /\ hw' = IF works /\ ~virtual THEN [hw EXCEPT ![o] = on] ELSE hw
  /\ set' = IF works THEN set \cup {o} ELSE set
  /\ book' = IF booked THEN [book EXCEPT ![o] = on] ELSE book
  /\ answered' = [answered EXCEPT ![o] = Wire(book'[o])]
  /\ UNCHANGED <<session, phase, virtual, mask, lines, changes, notifyVars>>
(* Slip: the request is remembered, whatever became of it.                  *)
ApplyBlindly(o, on, works) == ApplyAs(o, on, works, TRUE)
Apply(o, on, works) == (virtual => works) /\ ApplyAs(o, on, works, works)
Query(o) == /\ Request /\ answered' = [answered EXCEPT ![o] = Wire(book[o])]
            /\ UNCHANGED <<session, phase, virtual, hw, book, set, mask, lines, changes,
                           notifyVars>>
SetMask(m) == /\ Request /\ mask' = m
              /\ UNCHANGED <<session, phase, virtual, outVars, lines, changes, notifyVars>>
----------------------------------------------------------------------------
(* spawn_modem_notifier: while !stop; sample_modem_state, line by line.     *)
NotifierStep == UNCHANGED <<session, phase, virtual, outVars, requests, mask, lines, changes>>
Check == /\ at = "check" /\ NotifierStep
         /\ at' = IF phase = "ending" THEN "off" ELSE "sample"
         /\ UNCHANGED <<reading, state, previous, report, reports, kept, missed>>
Sample == /\ at = "sample" /\ reading < Len(Sampled) /\ NotifierStep
          /\ reading' = reading + 1
          /\ state' = state \cup ({Sampled[reading + 1]} \cap lines)
          /\ UNCHANGED <<at, previous, report, reports, kept, missed>>

(* changed & mask, and deltas_for: a ring that ends is an event, one that   *)
(* begins is not.                                                           *)
Changed == IF previous = Never THEN Input
           ELSE (previous \ state) \cup (state \ previous)
Deltas == {x \in Changed : x = "ri" => previous # Never /\ x \notin state}
NotifyKeeping(last) ==
  /\ at = "sample" /\ reading = Len(Sampled) /\ NotifierStep
  /\ previous' = last /\ reading' = 0 /\ state' = {}
  /\ IF Changed \cap mask # {}
     THEN /\ at' = "write" /\ missed' = missed /\ kept' = kept
          /\ report' = [lines |-> state, deltas |-> Deltas, kept |-> kept \cap mask]
     ELSE /\ at' = "check" /\ missed' = missed \cup Changed /\ kept' = kept \cap mask
          /\ UNCHANGED report
  /\ UNCHANGED reports
(* Slip: a reported sample is not remembered.                               *)
NotifyForgetting == NotifyKeeping(IF Changed \cap mask = {} THEN state ELSE previous)
Notify == NotifyKeeping(state)

(* write_raw; or the socket is dead, the thread ends and the bridge, which  *)
(* has the same socket, is about to.                                        *)
Write == /\ at = "write" /\ NotifierStep /\ at' = "check"
         /\ reports' = Append(reports, report) /\ report' = Nothing
         /\ kept' = Input /\ missed' = {} /\ UNCHANGED <<reading, state, previous>>
WriteFails == /\ at = "write" /\ NotifierStep /\ at' = "off"
              /\ report' = Nothing
              /\ UNCHANGED <<reading, state, previous, reports, kept, missed>>

(* The device, which the code does not control.                             *)
LineMoves(x) == /\ ~virtual /\ changes < MaxChange /\ changes' = changes + 1
                /\ lines' = IF x \in lines THEN lines \ {x} ELSE lines \cup {x}
                /\ UNCHANGED <<session, phase, virtual, outVars, requests, mask, notifyVars>>

Notifier == Check \/ Sample \/ Notify \/ Write \/ WriteFails
CPNext == \/ Begin \/ Stop \/ Joined \/ Notifier
          \/ \E o \in Output : Query(o) \/ \E on, works \in BOOLEAN : Apply(o, on, works)
          \/ \E m \in SUBSET Input : SetMask(m)
          \/ \E x \in Input : LineMoves(x)

CPSpec == CPInit /\ [][CPNext]_cpVars
(* The notifier runs; clients and lines do as they like.                    *)
CPFairSpec == CPSpec /\ WF_cpVars(Notifier)
----------------------------------------------------------------------------
CPTypeOK ==
  /\ session \in 0..MaxSession /\ phase \in {"none", "on", "ending"} /\ virtual \in BOOLEAN
  /\ hw \in [Output -> BOOLEAN] /\ book \in [Output -> BOOLEAN] /\ set \subseteq Output
  /\ answered \in [Output -> {"none", "on", "off"}] /\ requests \in 0..MaxRequest
  /\ mask \subseteq Input /\ lines \subseteq Input /\ changes \in 0..MaxChange
  /\ at \in {"off", "check", "sample", "write"} /\ reading \in 0..Len(Sampled)
  /\ state \subseteq Input /\ (previous = Never \/ previous \subseteq Input)
  /\ report \in Notice /\ reports \in Seq(Notice) /\ kept \subseteq Input
  /\ missed \subseteq Input

(* "There we always report what the hardware actually did" (comport.rs:44): *)
(* what the client was last told of an output it has set in this session is *)
(* what the device has, through refusals and queries.  Of the others it is  *)
(* told "off", whatever an earlier session left behind.                     *)
CPInv == CPTypeOK /\ (phase = "on" => \A o \in Output : answered[o] # "none" =>
         IF o \in set THEN virtual \/ answered[o] = Wire(hw[o]) ELSE answered[o] = "off")

(* A line is flagged as changed exactly when it differs from the report     *)
(* before, if the client had it in the mask all the while: no change is     *)
(* flagged twice, none lost between two reports (comport.rs:331-346).       *)
FlagsMatchReports == \A i \in 2..Len(reports) : \A x \in reports[i].kept :
  LET was == x \in reports[i - 1].lines  is == x \in reports[i].lines
  IN x \in reports[i].deltas <=> ~(was <=> is) /\ (x = "ri" => was)

(* Once a line stays as it is, the last report of a client that is there to *)
(* be told has it so: also of one that never moved in the session, and      *)
(* though the line is read at intervals and moves between them.  A line     *)
(* that moved behind the mask is left out: setting the mask again reports   *)
(* nothing (comport.rs:346).                                                *)
Informed == \A x \in Input, high \in BOOLEAN :
  <>[](phase = "on" /\ at # "off" /\ x \notin missed /\ (x \in lines) = high) =>
    <>[](reports # <<>> /\ (x \in Last(reports).lines) = high)
====
