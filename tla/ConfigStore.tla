---- MODULE ConfigStore ----
(***************************************************************************)
(* The dashboard's config file: Registry::persist and Config::save called  *)
(* by HTTP workers, Config::load_or_create and the save after it in        *)
(* dashboard::run, and power cuts at any step.  A configuration is a       *)
(* number: how many changes it holds.  The file system is the usual POSIX  *)
(* one: data reaches the disk for sure only by sync_all, directory changes *)
(* in order but some time later.                                           *)
(***************************************************************************)
EXTENDS Naturals, FiniteSets, Sequences

CONSTANTS Worker,       \* the HTTP workers that change the registry
          Main,         \* the main thread, which loads and saves at startup
          None,
          Bad,          \* what a file holds that this program did not write
          Empty, Torn,  \* what a file holds that is created, or partly written
          Inode,        \* bound: files that exist at once
          MaxChanges,   \* bound: changes to the registry
          MaxCuts       \* bound: power cuts

ASSUME StoreAssumption == /\ MaxChanges \in Nat /\ MaxCuts \in Nat
                          /\ Main \notin Worker /\ None \notin Inode
                          /\ {Bad, Empty, Torn} \cap Nat = {}

VARIABLES mem,       \* the registry's entries, as a version
          changes,   \* versions made so far
          th,        \* each thread's progress through persist and save
          data,      \* what reading each file gives now
          synced,    \* the files whose data is on the disk
          dirs,      \* the directory: as on the disk, then after each change since
          acked,     \* history: the latest version a save reported stored
          safe,      \* history: `acked` when the directory last reached the disk
          cuts

diskVars == <<data, synced, dirs>>
vars == <<mem, changes, th, diskVars, acked, safe, cuts>>

Thread == Worker \cup {Main}
Version == 0..MaxChanges
Off == [pc |-> "off", fd |-> None, val |-> 0]
Ready == [Off EXCEPT !.pc = "ready"]

Dir == dirs[Len(dirs)]
ChangeDir(d) == dirs' = Append(dirs, d)
Used == {dirs[k][f] : k \in DOMAIN dirs, f \in {"live", "tmp", "bak"}}
          \cup {th[t].fd : t \in Thread}
Fresh == CHOOSE i \in Inode : i \notin Used

(* No file yet, one this program saved, or one it cannot parse (Bad: hand  *)
(* edited, or from a later version).                                        *)
Init == /\ mem = 0 /\ changes = 0 /\ acked = 0 /\ safe = 0 /\ cuts = 0
        /\ th = [t \in Thread |-> IF t = Main THEN [Off EXCEPT !.pc = "load"] ELSE Off]
        /\ \E i \in Inode : /\ data \in {[j \in Inode |-> IF j = i THEN x ELSE Empty] : x \in {0, Bad}}
                            /\ synced = {i}
                            /\ \E l \in {i, None} : dirs = <<[live |-> l, tmp |-> None, bak |-> None]>>
----------------------------------------------------------------------------
Go(t, pc) == th' = [th EXCEPT ![t].pc = pc]

(* A registry operation changes the entries; persist snapshots them under   *)
(* the lock and calls save without it.                                      *)
Change(t) == /\ th[t].pc = "ready" /\ t # Main /\ changes < MaxChanges
             /\ changes' = changes + 1
             /\ mem' = changes'
             /\ Go(t, "snapshot")
             /\ UNCHANGED <<diskVars, acked, safe, cuts>>
Snapshot(t) == /\ th[t].pc = "snapshot"
               /\ th' = [th EXCEPT ![t].pc = "create", ![t].val = mem]
               /\ UNCHANGED <<mem, changes, diskVars, acked, safe, cuts>>

(* File::create(tmp): a new file, or the one of that name truncated.        *)
CreateAs(t, f) == /\ th[t].pc = "create" /\ Inode \ Used # {}
                  /\ LET i == IF Dir[f] = None THEN Fresh ELSE Dir[f]
                     IN  /\ data' = [data EXCEPT ![i] = Empty]
                         /\ synced' = synced \ {i}
                         /\ th' = [th EXCEPT ![t].pc = "write", ![t].fd = i]
                         /\ IF Dir[f] = None THEN ChangeDir([Dir EXCEPT ![f] = i])
                                             ELSE UNCHANGED dirs
                  /\ UNCHANGED <<mem, changes, acked, safe, cuts>>
(* Slip: the config is rewritten in place.                                  *)
CreateLive(t) == CreateAs(t, "live")
Create(t) == CreateAs(t, "tmp")

(* write_all from the start of the file: over a longer version another      *)
(* thread wrote there, the rest of that one stays.                          *)
WriteAll(t) == /\ th[t].pc = "write"
               /\ \E x \in {th[t].val} \cup (IF data[th[t].fd] = Empty THEN {} ELSE {Torn}) :
                    data' = [data EXCEPT ![th[t].fd] = x]
               /\ synced' = synced \ {th[t].fd}
               /\ Go(t, "sync")
               /\ UNCHANGED <<mem, changes, dirs, acked, safe, cuts>>
SyncOf(t, files) == /\ th[t].pc = "sync"
                    /\ synced' = synced \cup files
                    /\ Go(t, "rename")
                    /\ UNCHANGED <<mem, changes, data, dirs, acked, safe, cuts>>
(* Slip: no sync_all before the rename.                                     *)
SyncNothing(t) == SyncOf(t, {})
SyncAll(t) == SyncOf(t, {th[t].fd})

(* rename(tmp, path) replaces the live file, or fails when there is no tmp. *)
Rename(t) == /\ th[t].pc = "rename"
             /\ th' = [th EXCEPT ![t] = Ready]
             /\ IF Dir.tmp = None
                THEN UNCHANGED <<dirs, acked>>
                ELSE /\ ChangeDir([Dir EXCEPT !.live = Dir.tmp, !.tmp = None])
                     /\ acked' = th[t].val
             /\ UNCHANGED <<mem, changes, data, synced, safe, cuts>>

(* Any of these calls fails (a full disk, say): save returns the error, and *)
(* the temp file stays as it is.  At startup that ends the program.         *)
SaveFails(t) == /\ th[t].pc \in {"create", "write", "sync", "rename"}
                /\ th' = [th EXCEPT ![t] = IF t = Main THEN [Off EXCEPT !.pc = "load"] ELSE Ready]
                /\ UNCHANGED <<mem, changes, diskVars, acked, safe, cuts>>
----------------------------------------------------------------------------
(* load_or_create: a missing file and one that does not parse both start an *)
(* empty configuration; the latter's text is copied to .bak first.  When it *)
(* cannot be read otherwise, the program ends, and the next start, which is *)
(* where it was, tries again.                                               *)
LoadIf(usable) ==
        /\ th[Main].pc = "load" /\ Inode \ Used # {}
        /\ IF usable
           THEN mem' = data[Dir.live] /\ UNCHANGED diskVars
           ELSE /\ mem' = 0
                /\ IF Dir.live = None THEN UNCHANGED diskVars
                   ELSE LET i == IF Dir.bak = None THEN Fresh ELSE Dir.bak
                        IN  /\ data' = [data EXCEPT ![i] = data[Dir.live]]
                            /\ synced' = synced \ {i}
                            /\ IF Dir.bak = None THEN ChangeDir([Dir EXCEPT !.bak = i])
                                                 ELSE UNCHANGED dirs
        /\ th' = [th EXCEPT ![Main] = [pc |-> "create", fd |-> None, val |-> mem']]
        /\ UNCHANGED <<changes, acked, safe, cuts>>

(* Slip: `version < CURRENT_VERSION`, which no saved file satisfies.         *)
LoadOlder == LoadIf(FALSE)
Load == LoadIf(Dir.live # None /\ data[Dir.live] \in Version)

(* The server starts answering.                                             *)
Serve == /\ th[Main].pc = "ready"
         /\ th' = [t \in Thread |-> IF t = Main THEN Off ELSE Ready]
         /\ UNCHANGED <<mem, changes, diskVars, acked, safe, cuts>>

(* The operating system writes out the directory.                           *)
Settle == /\ Len(dirs) > 1
          /\ dirs' = <<Dir>>
          /\ safe' = acked
          /\ UNCHANGED <<mem, changes, th, data, synced, acked, cuts>>

(* The power fails: the directory is as it was at some point since it last  *)
(* reached the disk, and of a file not synced any part may be there.        *)
PowerCut == /\ cuts < MaxCuts /\ cuts' = cuts + 1
            /\ \E k \in DOMAIN dirs : dirs' = <<dirs[k]>>
            /\ \E lost \in SUBSET (Inode \ synced) :
                 data' = [i \in Inode |-> IF i \in lost THEN Torn ELSE data[i]]
            /\ synced' = Inode
            /\ mem' = 0 /\ acked' = safe
            /\ th' = [t \in Thread |-> IF t = Main THEN [Off EXCEPT !.pc = "load"] ELSE Off]
            /\ UNCHANGED <<changes, safe>>
----------------------------------------------------------------------------
Next == \/ \E t \in Thread : Change(t) \/ Snapshot(t) \/ Create(t) \/ WriteAll(t)
                             \/ SyncAll(t) \/ Rename(t) \/ SaveFails(t)
        \/ Load \/ Serve \/ Settle \/ PowerCut
Spec == Init /\ [][Next]_vars
----------------------------------------------------------------------------
(* What the next start may find: an absent or unreadable file gives the     *)
(* empty configuration, 0; a torn one is no configuration at all.           *)
Parsed(x) == IF x = Bad THEN 0 ELSE x
Found(i) == IF i = None THEN {0}
            ELSE {Parsed(data[i])} \cup (IF i \in synced THEN {} ELSE {Torn})
May == UNION {Found(dirs[k].live) : k \in DOMAIN dirs}

TypeOK == /\ mem \in Version /\ changes \in Version /\ acked \in Version /\ safe \in Version
          /\ cuts \in 0..MaxCuts
          /\ th \in [Thread -> [pc : {"off", "ready", "snapshot", "create", "write", "sync",
                                      "rename", "load"},
                                fd : Inode \cup {None}, val : Version]]
          /\ data \in [Inode -> Version \cup {Empty, Torn, Bad}]
          /\ synced \subseteq Inode
          /\ dirs \in Seq([{"live", "tmp", "bak"} -> Inode \cup {None}]) /\ dirs # <<>>

(* Types, and: nobody writes to a file that a restart may take for the      *)
(* configuration; what it may take is synced.                               *)
Inv == /\ TypeOK
       /\ \A k \in DOMAIN dirs, t \in Thread :
            th[t].pc \in {"write", "sync"} => th[t].fd # dirs[k].live
       /\ \A k \in DOMAIN dirs : dirs[k].live \in synced \cup {None}

(* config.rs:3-5: whenever the power fails, the next start finds one whole  *)
(* configuration; only the rename changes which.                            *)
Store == INSTANCE AtomicStore WITH
           may <- May, latest <- IF Dir.live = None THEN 0 ELSE Parsed(data[Dir.live])
ImplementsStore == Store!Spec

(* A change whose save was reported and has reached the disk is never       *)
(* undone, neither by a power cut nor by a later save.                      *)
AckedSurvives == \A x \in May : x \in Version => x >= safe

(* The file the next start reads is whole, or one this program did not      *)
(* write (config.rs:3, "written atomically").                               *)
AllOrNothing == May \subseteq Version
====
