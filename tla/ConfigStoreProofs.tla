---- MODULE ConfigStoreProofs ----
(***************************************************************************)
(* The config file, proved for any number of changes, power cuts and files *)
(* when one HTTP worker at a time saves (OneSaver): a restart finds one    *)
(* whole configuration (Inv), never one older than what was reported and   *)
(* reached the disk (AckedSurvives), and the file behaves as a register    *)
(* (AtomicStore).  That the hypothesis is needed is what MCTornConfig      *)
(* shows.                                                                  *)
(***************************************************************************)
EXTENDS ConfigStore, SequenceTheorems, TLAPS

OneSaver == \A v, w \in Worker : v = w

File == Inode \cup {None}
Name == {"live", "tmp", "bak"}
Saving == {"create", "write", "sync", "rename"}
Open == {"write", "sync", "rename"}
Progress == [Thread -> [pc : {"off", "ready", "snapshot", "create", "write", "sync",
                              "rename", "load"},
                        fd : Inode \cup {None}, val : Version]]

(* The files a restart may take for the configuration.                      *)
Lives == {dirs[k].live : k \in DOMAIN dirs}

(* The main thread is done before the workers start.                        *)
TurnInv ==
  /\ th[Main].pc # "off" => \A w \in Worker : th[w].pc = "off"
  /\ th[Main].pc # "snapshot" /\ \A w \in Worker : th[w].pc # "load"

(* What a thread holds open is the temp file, which is empty until it is    *)
(* written, then the version saved, and on the disk before it is renamed.   *)
Saves(t) ==
  /\ th[t].pc \in Open => th[t].fd = Dir.tmp /\ Dir.tmp # None
  /\ th[t].pc = "write" => data[Dir.tmp] = Empty
  /\ th[t].pc \in {"sync", "rename"} => data[Dir.tmp] = th[t].val
  /\ th[t].pc = "rename" => Dir.tmp \in synced
  /\ th[t].pc \in Saving => acked <= th[t].val /\ th[t].val <= mem
SaveInv == \A t \in Thread : Saves(t)

(* The three names of a directory are three files; what is written, the     *)
(* temp file and the backup, is not a file a restart may find; and that one *)
(* is whole and on the disk.                                                *)
Apart(d) == /\ d.tmp # None => d.tmp # d.live /\ d.tmp # d.bak
            /\ d.bak # None => d.bak # d.live
FileInv ==
  /\ \A k \in DOMAIN dirs : Apart(dirs[k])
  /\ Dir.tmp # None => Dir.tmp \notin Lives
  /\ Dir.bak # None => Dir.bak \notin Lives
  /\ \A f \in Lives : f # None => f \in synced /\ data[f] \in Version \cup {Bad}

(* The version a live file stands for.                                      *)
Value(f) == IF f = None THEN 0 ELSE Parsed(data[f])
VersionInv ==
  /\ safe <= acked /\ acked <= changes /\ mem <= changes
  /\ th[Main].pc # "load" => acked <= mem
  /\ acked <= Value(Dir.live)
  /\ \A f \in Lives : safe <= Value(f) /\ Value(f) <= changes

StoreInv == TypeOK /\ TurnInv /\ SaveInv /\ FileInv /\ VersionInv
----------------------------------------------------------------------------
(* Directories are never the empty sequence, and the last is the current.   *)
LEMMA Directories ==
  ASSUME TypeOK
  PROVE  /\ Len(dirs) \in Nat /\ Len(dirs) >= 1 /\ DOMAIN dirs = 1..Len(dirs)
         /\ \A k \in DOMAIN dirs : dirs[k] \in [Name -> File]
         /\ Len(dirs) \in DOMAIN dirs /\ Dir \in [Name -> File]
         /\ Lives \subseteq File /\ Dir.live \in Lives /\ Dir.tmp \in File /\ Dir.bak \in File
<1>1. dirs \in Seq([Name -> File]) /\ dirs # <<>>
  BY DEF TypeOK, Name, File
<1>2. Len(dirs) \in Nat /\ DOMAIN dirs = 1..Len(dirs) /\ Len(dirs) >= 1
  BY <1>1
<1>3. \A k \in DOMAIN dirs : dirs[k] \in [Name -> File]
  BY <1>1, ElementOfSeq, <1>2
<1>4. Len(dirs) \in DOMAIN dirs
  BY <1>2
<1>5. Dir \in [Name -> File]
  BY <1>3, <1>4 DEF Dir
<1>6. \A d \in [Name -> File] : d.live \in File /\ d.tmp \in File /\ d.bak \in File
  BY DEF Name
<1>7. Lives \subseteq File /\ Dir.live \in Lives
  BY <1>3, <1>4, <1>6 DEF Lives, Dir
<1> QED  BY <1>2, <1>3, <1>4, <1>5, <1>6, <1>7

(* A change of the directory adds one to the ones a restart may see.        *)
LEMMA Grown ==
  ASSUME TypeOK, NEW d \in [Name -> File], ChangeDir(d)
  PROVE  /\ dirs' \in Seq([Name -> File]) /\ dirs' # <<>> /\ Dir' = d
         /\ \A k \in DOMAIN dirs' : dirs'[k] = d \/ (k \in DOMAIN dirs /\ dirs'[k] = dirs[k])
         /\ Lives' = Lives \cup {d.live}
<1>1. dirs \in Seq([Name -> File])
  BY DEF TypeOK, Name, File
<1>2. dirs' = Append(dirs, d)
  BY DEF ChangeDir
<1>3. /\ dirs' \in Seq([Name -> File]) /\ dirs' # <<>> /\ Len(dirs') = Len(dirs) + 1
      /\ \A i \in 1..Len(dirs) : dirs'[i] = dirs[i]
      /\ dirs'[Len(dirs) + 1] = d
  BY <1>1, <1>2, AppendProperties
<1>4. Len(dirs) \in Nat /\ DOMAIN dirs = 1..Len(dirs) /\ DOMAIN dirs' = 1..(Len(dirs) + 1)
  BY <1>1, <1>3
<1>5. \A k \in DOMAIN dirs' : k = Len(dirs) + 1 \/ k \in DOMAIN dirs
  BY <1>4
<1>6. DOMAIN dirs \subseteq DOMAIN dirs' /\ Len(dirs) + 1 \in DOMAIN dirs'
  BY <1>4
<1>7. \A k \in DOMAIN dirs' : dirs'[k] = d \/ (k \in DOMAIN dirs /\ dirs'[k] = dirs[k])
  BY <1>3, <1>4, <1>5
<1>8. Lives' = Lives \cup {d.live}
  BY <1>3, <1>4, <1>5, <1>6 DEF Lives
<1> QED  BY <1>3, <1>7, <1>8 DEF Dir

(* The directory settles, or the power fails: one of them is left.          *)
LEMMA Shrunk ==
  ASSUME TypeOK, NEW k \in DOMAIN dirs, dirs' = <<dirs[k]>>
  PROVE  /\ dirs' \in Seq([Name -> File]) /\ dirs' # <<>> /\ Dir' = dirs[k]
         /\ \A j \in DOMAIN dirs' : dirs'[j] = dirs[k]
         /\ Lives' = {dirs[k].live} /\ Lives' \subseteq Lives
<1>1. dirs[k] \in [Name -> File]
  BY Directories
<1>2. /\ dirs' \in Seq([Name -> File]) /\ dirs' # <<>> /\ Len(dirs') = 1
      /\ dirs'[1] = dirs[k] /\ DOMAIN dirs' = {1}
  BY <1>1
<1>3. Lives' = {dirs[k].live} /\ Lives' \subseteq Lives
  BY <1>2 DEF Lives
<1> QED  BY <1>2, <1>3 DEF Dir

LEMMA FreshFile ==
  ASSUME Inode \ Used # {}
  PROVE  /\ Fresh \in Inode /\ Fresh \notin Lives /\ Fresh # None
         /\ \A k \in DOMAIN dirs :
              Fresh # dirs[k].live /\ Fresh # dirs[k].tmp /\ Fresh # dirs[k].bak
<1>1. Fresh \in Inode /\ Fresh \notin Used
  BY DEF Fresh
<1>2. \A k \in DOMAIN dirs : dirs[k].live \in Used /\ dirs[k].tmp \in Used /\ dirs[k].bak \in Used
  BY DEF Used
<1> QED  BY <1>1, <1>2, StoreAssumption DEF Lives

(* At most one thread does anything.                                        *)
LEMMA Alone ==
  ASSUME TurnInv, OneSaver, NEW t \in Thread, NEW u \in Thread,
         th[t].pc # "off", th[u].pc # "off"
  PROVE  t = u
<1>1. CASE t = Main
  BY <1>1 DEF TurnInv, Thread
<1>2. CASE u = Main
  BY <1>2 DEF TurnInv, Thread
<1> QED  BY <1>1, <1>2 DEF Thread, OneSaver

(* A thread writes to the temp file, no restart may find it.                *)
LEMMA TempFacts ==
  ASSUME StoreInv, NEW t \in Thread, th[t].pc \in Open
  PROVE  th[t].fd = Dir.tmp /\ Dir.tmp \in Inode /\ Dir.tmp \notin Lives
<1>1. th[t].fd = Dir.tmp /\ Dir.tmp # None
  BY DEF StoreInv, SaveInv, Saves
<1>2. Dir.tmp \in File
  BY Directories DEF StoreInv
<1> QED  BY <1>1, <1>2 DEF File, StoreInv, FileInv

(* Threads are where they were, but for the one that takes the step.        *)
LEMMA ThreadTypes ==
  ASSUME TypeOK, NEW t \in Thread
  PROVE  /\ th[t].pc \in {"off", "ready", "snapshot", "load"} \cup Saving
         /\ th[t].fd \in File /\ th[t].val \in Version
         /\ th[t] = [pc |-> th[t].pc, fd |-> th[t].fd, val |-> th[t].val]
BY DEF TypeOK, Saving, File
----------------------------------------------------------------------------
(* A thread record with fields of the right types.                          *)
LEMMA ThreadMoves ==
  ASSUME TypeOK, NEW t \in Thread, NEW p \in {"off", "ready", "snapshot", "load"} \cup Saving,
         NEW f \in File, NEW v \in Version,
         th' = [th EXCEPT ![t] = [pc |-> p, fd |-> f, val |-> v]]
  PROVE  /\ th' \in Progress
         /\ th'[t].pc = p /\ th'[t].fd = f /\ th'[t].val = v
         /\ \A u \in Thread : u # t => th'[u] = th[u]
BY DEF TypeOK, Saving, File, Progress

(* What each step makes of the thread that takes it.                        *)
LEMMA ThreadSteps ==
  ASSUME TypeOK, NEW t \in Thread
  PROVE  /\ Change(t) =>
              th' = [th EXCEPT ![t] = [pc |-> "snapshot", fd |-> th[t].fd, val |-> th[t].val]]
         /\ Snapshot(t) =>
              th' = [th EXCEPT ![t] = [pc |-> "create", fd |-> th[t].fd, val |-> mem]]
         /\ Create(t) =>
              th' = [th EXCEPT ![t] =
                      [pc |-> "write", fd |-> IF Dir.tmp = None THEN Fresh ELSE Dir.tmp,
                       val |-> th[t].val]]
         /\ WriteAll(t) =>
              th' = [th EXCEPT ![t] = [pc |-> "sync", fd |-> th[t].fd, val |-> th[t].val]]
         /\ SyncAll(t) =>
              th' = [th EXCEPT ![t] = [pc |-> "rename", fd |-> th[t].fd, val |-> th[t].val]]
         /\ Rename(t) =>
              th' = [th EXCEPT ![t] = [pc |-> "ready", fd |-> None, val |-> 0]]
         /\ SaveFails(t) =>
              th' = [th EXCEPT ![t] =
                      [pc |-> IF t = Main THEN "load" ELSE "ready", fd |-> None, val |-> 0]]
<1>1. th[t] = [pc |-> th[t].pc, fd |-> th[t].fd, val |-> th[t].val]
  BY ThreadTypes
<1>2. th \in Progress
  BY DEF TypeOK, Progress
<1>3. Change(t) =>
        th' = [th EXCEPT ![t] = [pc |-> "snapshot", fd |-> th[t].fd, val |-> th[t].val]]
  BY <1>1, <1>2 DEF Progress, Change, Go
<1>4. Snapshot(t) =>
        th' = [th EXCEPT ![t] = [pc |-> "create", fd |-> th[t].fd, val |-> mem]]
  BY <1>1, <1>2 DEF Progress, Snapshot
<1>5. Create(t) =>
        th' = [th EXCEPT ![t] =
                [pc |-> "write", fd |-> IF Dir.tmp = None THEN Fresh ELSE Dir.tmp,
                 val |-> th[t].val]]
  BY <1>1, <1>2 DEF Progress, Create, CreateAs
<1>6. WriteAll(t) =>
        th' = [th EXCEPT ![t] = [pc |-> "sync", fd |-> th[t].fd, val |-> th[t].val]]
  BY <1>1, <1>2 DEF Progress, WriteAll, Go
<1>7. SyncAll(t) =>
        th' = [th EXCEPT ![t] = [pc |-> "rename", fd |-> th[t].fd, val |-> th[t].val]]
  BY <1>1, <1>2 DEF Progress, SyncAll, SyncOf, Go
<1>8. Rename(t) =>
        th' = [th EXCEPT ![t] = [pc |-> "ready", fd |-> None, val |-> 0]]
  BY <1>1, <1>2 DEF Progress, Rename, Ready, Off
<1>9. SaveFails(t) =>
        th' = [th EXCEPT ![t] =
                [pc |-> IF t = Main THEN "load" ELSE "ready", fd |-> None, val |-> 0]]
  BY <1>1, <1>2 DEF Progress, SaveFails, Ready, Off
<1> QED  BY <1>3, <1>4, <1>5, <1>6, <1>7, <1>8, <1>9

LEMMA ThreadsMove ==
  ASSUME StoreInv, NEW t \in Thread,
         \/ Change(t) \/ Snapshot(t) \/ Create(t) \/ WriteAll(t)
         \/ SyncAll(t) \/ Rename(t) \/ SaveFails(t)
  PROVE  /\ th' \in Progress
         /\ \A u \in Thread : u # t => th'[u] = th[u]
<1> DEFINE Pc == {"off", "ready", "snapshot", "load"} \cup Saving
<1>0. TypeOK /\ th[t].fd \in File /\ th[t].val \in Version /\ None \in File /\ 0 \in Version
  <2>1. TypeOK /\ None \in File /\ 0 \in Version
    BY StoreAssumption DEF StoreInv, File, Version
  <2> QED  BY <2>1, ThreadTypes
<1>1. "snapshot" \in Pc /\ "create" \in Pc /\ "write" \in Pc /\ "sync" \in Pc
      /\ "rename" \in Pc /\ "ready" \in Pc /\ (IF t = Main THEN "load" ELSE "ready") \in Pc
  BY DEF Saving
<1>2. \E p \in Pc, f \in File, v \in Version :
        th' = [th EXCEPT ![t] = [pc |-> p, fd |-> f, val |-> v]]
  <2> HIDE DEF Pc
  <2>1. CASE Change(t)
    BY <1>0, <1>1, <2>1, ThreadSteps
  <2>2. CASE Snapshot(t)
    <3>1. mem \in Version
      BY <1>0 DEF TypeOK
    <3> QED  BY <1>0, <1>1, <2>2, <3>1, ThreadSteps
  <2>3. CASE Create(t)
    <3>1. (IF Dir.tmp = None THEN Fresh ELSE Dir.tmp) \in File
      BY <1>0, <2>3, FreshFile, Directories DEF Create, CreateAs, File
    <3> QED  BY <1>0, <1>1, <2>3, <3>1, ThreadSteps
  <2>4. CASE WriteAll(t)
    BY <1>0, <1>1, <2>4, ThreadSteps
  <2>5. CASE SyncAll(t)
    BY <1>0, <1>1, <2>5, ThreadSteps
  <2>6. CASE Rename(t)
    BY <1>0, <1>1, <2>6, ThreadSteps
  <2>7. CASE SaveFails(t)
    BY <1>0, <1>1, <2>7, ThreadSteps
  <2> QED  BY <2>1, <2>2, <2>3, <2>4, <2>5, <2>6, <2>7
<1> QED  BY <1>0, <1>2, ThreadMoves DEF Progress

(* At a restart only the main thread runs.                                  *)
LEMMA Restarted ==
  ASSUME th' = [t \in Thread |-> IF t = Main THEN [Off EXCEPT !.pc = "load"] ELSE Off]
  PROVE  /\ th' \in Progress
         /\ \A t \in Thread : th'[t].pc = (IF t = Main THEN "load" ELSE "off")
<1>1. 0 \in Version
  BY StoreAssumption DEF Version
<1> QED  BY <1>1 DEF Off, Progress

LEMMA Serving ==
  ASSUME Serve
  PROVE  /\ th' \in Progress
         /\ \A t \in Thread : th'[t].pc = (IF t = Main THEN "off" ELSE "ready")
<1>1. 0 \in Version
  BY StoreAssumption DEF Version
<1> QED  BY <1>1 DEF Serve, Ready, Off, Progress
----------------------------------------------------------------------------
(* Creating the temp file touches no file a restart may find.               *)
LEMMA CreateDisk ==
  ASSUME StoreInv, NEW t \in Thread, Create(t)
  PROVE  \E i \in Inode \ Lives :
           /\ data' = [data EXCEPT ![i] = Empty] /\ synced' = synced \ {i}
           /\ th'[t].fd = i
           /\ dirs' \in Seq([Name -> File]) /\ dirs' # <<>> /\ Lives' = Lives
           /\ Dir'.live = Dir.live /\ Dir'.tmp = i /\ Dir'.bak = Dir.bak
           /\ \A k \in DOMAIN dirs' : Apart(dirs'[k])
<1>0. TypeOK /\ \A k \in DOMAIN dirs : Apart(dirs[k])
  BY DEF StoreInv, FileInv
<1>1. /\ Dir \in [Name -> File] /\ Dir.live \in Lives /\ Dir.tmp \in File /\ Dir.bak \in File
      /\ Len(dirs) \in DOMAIN dirs /\ Lives \subseteq File /\ Apart(Dir)
  BY <1>0, Directories DEF Dir
<1>2. CASE Dir.tmp = None
  <2> DEFINE d == [Dir EXCEPT !.tmp = Fresh]
  <2>1. /\ Fresh \in Inode /\ Fresh \notin Lives /\ Fresh # None
        /\ Fresh # Dir.live /\ Fresh # Dir.bak
    <3>1. Inode \ Used # {}
      BY DEF Create, CreateAs
    <3> QED  BY <1>1, <3>1, FreshFile DEF Dir
  <2>2. /\ data' = [data EXCEPT ![Fresh] = Empty] /\ synced' = synced \ {Fresh}
        /\ ChangeDir(d) /\ th' = [th EXCEPT ![t].pc = "write", ![t].fd = Fresh]
    BY <1>2 DEF Create, CreateAs
  <2>3. d \in [Name -> File] /\ d.live = Dir.live /\ d.tmp = Fresh /\ d.bak = Dir.bak
    BY <1>1, <2>1 DEF Name, File
  <2>4. Apart(d)
    BY <1>1, <2>1, <2>3 DEF Apart
  <2> HIDE DEF d
  <2>5. /\ dirs' \in Seq([Name -> File]) /\ dirs' # <<>> /\ Dir' = d
        /\ \A k \in DOMAIN dirs' : dirs'[k] = d \/ (k \in DOMAIN dirs /\ dirs'[k] = dirs[k])
        /\ Lives' = Lives \cup {d.live}
    BY <1>0, <2>2, <2>3, Grown
  <2>6. \A k \in DOMAIN dirs' : Apart(dirs'[k])
    BY <1>0, <2>4, <2>5
  <2>7. th'[t].fd = Fresh
    BY <1>0, <2>2 DEF TypeOK
  <2>8. Lives' = Lives
    BY <1>1, <2>3, <2>5
  <2>9. Dir'.live = Dir.live /\ Dir'.tmp = Fresh /\ Dir'.bak = Dir.bak
    BY <2>3, <2>5
  <2> QED  BY <2>1, <2>2, <2>5, <2>6, <2>7, <2>8, <2>9
<1>3. CASE Dir.tmp # None
  <2>1. /\ data' = [data EXCEPT ![Dir.tmp] = Empty] /\ synced' = synced \ {Dir.tmp}
        /\ dirs' = dirs /\ th' = [th EXCEPT ![t].pc = "write", ![t].fd = Dir.tmp]
    BY <1>3 DEF Create, CreateAs
  <2>2. Dir.tmp \in Inode \ Lives
    BY <1>1, <1>3 DEF StoreInv, FileInv, File
  <2>3. th'[t].fd = Dir.tmp
    BY <1>0, <2>1 DEF TypeOK
  <2>4. dirs' \in Seq([Name -> File]) /\ dirs' # <<>> /\ Lives' = Lives /\ Dir' = Dir
    BY <1>0, <2>1 DEF TypeOK, Name, File, Lives, Dir
  <2> QED  BY <1>0, <2>1, <2>2, <2>3, <2>4
<1> QED  BY <1>2, <1>3

(* Neither does the backup of a file that does not parse.                   *)
LEMMA LoadDisk ==
  ASSUME StoreInv, Load
  PROVE  \/ UNCHANGED diskVars
         \/ \E i \in Inode \ Lives :
              /\ data' = [data EXCEPT ![i] = data[Dir.live]] /\ synced' = synced \ {i}
              /\ Dir.live \in Inode
              /\ dirs' \in Seq([Name -> File]) /\ dirs' # <<>> /\ Lives' = Lives
              /\ Dir'.live = Dir.live /\ Dir'.tmp = Dir.tmp /\ Dir'.bak = i
              /\ \A k \in DOMAIN dirs' : Apart(dirs'[k])
<1>0. TypeOK /\ \A k \in DOMAIN dirs : Apart(dirs[k])
  BY DEF StoreInv, FileInv
<1>1. /\ Dir \in [Name -> File] /\ Dir.live \in Lives /\ Dir.tmp \in File /\ Dir.bak \in File
      /\ Len(dirs) \in DOMAIN dirs /\ Lives \subseteq File /\ Apart(Dir)
  BY <1>0, Directories DEF Dir
<1>2. SUFFICES ASSUME ~UNCHANGED diskVars
               PROVE  \E i \in Inode \ Lives :
              /\ data' = [data EXCEPT ![i] = data[Dir.live]] /\ synced' = synced \ {i}
              /\ Dir.live \in Inode
              /\ dirs' \in Seq([Name -> File]) /\ dirs' # <<>> /\ Lives' = Lives
              /\ Dir'.live = Dir.live /\ Dir'.tmp = Dir.tmp /\ Dir'.bak = i
              /\ \A k \in DOMAIN dirs' : Apart(dirs'[k])
  OBVIOUS
<1>3. Dir.live # None
  BY <1>2 DEF Load, LoadIf
<1>4. Dir.live \in Inode
  BY <1>1, <1>3 DEF File
<1>5. CASE Dir.bak = None
  <2> DEFINE d == [Dir EXCEPT !.bak = Fresh]
  <2>1. /\ Fresh \in Inode /\ Fresh \notin Lives /\ Fresh # None
        /\ Fresh # Dir.live /\ Fresh # Dir.tmp
    <3>1. Inode \ Used # {}
      BY DEF Load, LoadIf
    <3> QED  BY <1>1, <3>1, FreshFile DEF Dir
  <2>2. /\ data' = [data EXCEPT ![Fresh] = data[Dir.live]] /\ synced' = synced \ {Fresh}
        /\ ChangeDir(d)
    BY <1>2, <1>3, <1>5 DEF Load, LoadIf
  <2>3. d \in [Name -> File] /\ d.live = Dir.live /\ d.tmp = Dir.tmp /\ d.bak = Fresh
    BY <1>1, <2>1 DEF Name, File
  <2>4. Apart(d)
    BY <1>1, <2>1, <2>3 DEF Apart
  <2> HIDE DEF d
  <2>5. /\ dirs' \in Seq([Name -> File]) /\ dirs' # <<>> /\ Dir' = d
        /\ \A k \in DOMAIN dirs' : dirs'[k] = d \/ (k \in DOMAIN dirs /\ dirs'[k] = dirs[k])
        /\ Lives' = Lives \cup {d.live}
    BY <1>0, <2>2, <2>3, Grown
  <2>6. \A k \in DOMAIN dirs' : Apart(dirs'[k])
    BY <1>0, <2>4, <2>5
  <2>8. Lives' = Lives
    BY <1>1, <2>3, <2>5
  <2>9. Dir'.live = Dir.live /\ Dir'.tmp = Dir.tmp /\ Dir'.bak = Fresh
    BY <2>3, <2>5
  <2> QED  BY <1>4, <2>1, <2>2, <2>5, <2>6, <2>8, <2>9
<1>6. CASE Dir.bak # None
  <2>1. /\ data' = [data EXCEPT ![Dir.bak] = data[Dir.live]] /\ synced' = synced \ {Dir.bak}
        /\ dirs' = dirs
    BY <1>2, <1>3, <1>6 DEF Load, LoadIf
  <2>2. Dir.bak \in Inode \ Lives
    BY <1>1, <1>6 DEF StoreInv, FileInv, File
  <2>4. dirs' \in Seq([Name -> File]) /\ dirs' # <<>> /\ Lives' = Lives /\ Dir' = Dir
    BY <1>0, <2>1 DEF TypeOK, Name, File, Lives, Dir
  <2> QED  BY <1>0, <1>4, <2>1, <2>2, <2>4
<1> QED  BY <1>5, <1>6

(* What a rename leaves, when there is a temp file.                         *)
LEMMA RenameDisk ==
  ASSUME StoreInv, NEW t \in Thread, Rename(t), Dir.tmp # None
  PROVE  /\ dirs' \in Seq([Name -> File]) /\ dirs' # <<>> /\ Lives' = Lives \cup {Dir.tmp}
         /\ Dir'.live = Dir.tmp /\ Dir'.tmp = None /\ Dir'.bak = Dir.bak
         /\ \A k \in DOMAIN dirs' : Apart(dirs'[k])
         /\ acked' = th[t].val
<1> DEFINE d == [Dir EXCEPT !.live = Dir.tmp, !.tmp = None]
<1>0. TypeOK /\ \A k \in DOMAIN dirs : Apart(dirs[k])
  BY DEF StoreInv, FileInv
<1>1. Dir \in [Name -> File] /\ Dir.tmp \in File /\ Len(dirs) \in DOMAIN dirs /\ Apart(Dir)
  BY <1>0, Directories DEF Dir
<1>2. ChangeDir(d) /\ acked' = th[t].val
  BY DEF Rename
<1>3. d \in [Name -> File] /\ d.live = Dir.tmp /\ d.tmp = None /\ d.bak = Dir.bak
  BY <1>1 DEF Name, File
<1>4. Apart(d)
  BY <1>1, <1>3 DEF Apart
<1> HIDE DEF d
<1>5. /\ dirs' \in Seq([Name -> File]) /\ dirs' # <<>> /\ Dir' = d
      /\ \A k \in DOMAIN dirs' : dirs'[k] = d \/ (k \in DOMAIN dirs /\ dirs'[k] = dirs[k])
      /\ Lives' = Lives \cup {d.live}
  BY <1>0, <1>2, <1>3, Grown
<1>6. \A k \in DOMAIN dirs' : Apart(dirs'[k])
  BY <1>0, <1>4, <1>5
<1> QED  BY <1>2, <1>3, <1>5, <1>6
----------------------------------------------------------------------------
(* Everything keeps its type.                                               *)
LEMMA LoadThread ==
  ASSUME StoreInv, Load
  PROVE  /\ mem' \in Version
         /\ th' \in Progress
         /\ th'[Main].pc = "create" /\ th'[Main].val = mem'
         /\ \A u \in Thread : u # Main => th'[u] = th[u]
         /\ mem' = Value(Dir.live)
<1>1. mem' \in Version
  BY StoreAssumption DEF Load, LoadIf, Version
<1>2. Main \in Thread /\ None \in File /\ "create" \in Saving
  BY DEF Thread, File, Saving
<1>3. th' = [th EXCEPT ![Main] = [pc |-> "create", fd |-> None, val |-> mem']]
  BY DEF Load, LoadIf
<1>4. TypeOK
  BY DEF StoreInv
<1>5. mem' = Value(Dir.live)
  <2>1. CASE Dir.live = None
    BY <2>1 DEF Load, LoadIf, Value
  <2>2. CASE Dir.live # None /\ data[Dir.live] \in Version
    <3>1. data[Dir.live] # Bad
      BY <2>2, StoreAssumption DEF Version
    <3> QED  BY <2>2, <3>1 DEF Load, LoadIf, Value, Parsed
  <2>3. CASE Dir.live # None /\ data[Dir.live] \notin Version
    <3>1. data[Dir.live] = Bad
      BY <1>4, <2>3, Directories DEF StoreInv, FileInv
    <3> QED  BY <2>3, <3>1 DEF Load, LoadIf, Value, Parsed
  <2> QED  BY <2>1, <2>2, <2>3
<1> QED  BY <1>1, <1>2, <1>3, <1>4, <1>5, ThreadMoves DEF Progress

LEMMA DirType ==
  ASSUME dirs' \in Seq([Name -> File]), dirs' # <<>>
  PROVE  dirs' \in Seq([{"live", "tmp", "bak"} -> Inode \cup {None}]) /\ dirs' # <<>>
BY DEF Name, File

LEMMA TypeStep == StoreInv /\ [Next]_vars => TypeOK'
<1> SUFFICES ASSUME StoreInv, [Next]_vars PROVE TypeOK'
  OBVIOUS
<1> USE DEF diskVars
<1>0. TypeOK
  BY DEF StoreInv
<1>z. 0 \in Version
  BY StoreAssumption DEF Version
<1>1. ASSUME NEW t \in Thread, Change(t) PROVE TypeOK'
  <2>1. changes' \in Version /\ mem' \in Version
    BY <1>0, <1>1, StoreAssumption DEF TypeOK, Progress, Change, Version
  <2> QED  BY <1>0, <1>1, <2>1, ThreadsMove DEF TypeOK, Progress, Change
<1>2. ASSUME NEW t \in Thread, Snapshot(t) PROVE TypeOK'
  BY <1>0, <1>2, ThreadsMove DEF TypeOK, Progress, Snapshot
<1>3. ASSUME NEW t \in Thread, Create(t) PROVE TypeOK'
  <2>1. PICK i \in Inode \ Lives :
           /\ data' = [data EXCEPT ![i] = Empty] /\ synced' = synced \ {i}
           /\ dirs' \in Seq([Name -> File]) /\ dirs' # <<>>
    BY <1>3, CreateDisk
  <2>2. data' \in [Inode -> Version \cup {Empty, Torn, Bad}] /\ synced' \subseteq Inode
    BY <1>0, <2>1 DEF TypeOK, Progress
  <2>4. th' \in Progress
    BY <1>3, ThreadsMove
  <2> QED  BY <1>0, <1>3, <2>1, <2>2, <2>4, DirType DEF TypeOK, Progress, Create, CreateAs
<1>4. ASSUME NEW t \in Thread, WriteAll(t) PROVE TypeOK'
  <2>1. th[t].val \in Version /\ th[t].pc \in Open
    BY <1>0, <1>4, ThreadTypes DEF WriteAll, Open
  <2>2. data' \in [Inode -> Version \cup {Empty, Torn, Bad}] /\ synced' \subseteq Inode
    BY <1>0, <1>4, <2>1, TempFacts DEF TypeOK, Progress, WriteAll
  <2>3. th' \in Progress
    BY <1>4, ThreadsMove
  <2> QED  BY <1>0, <1>4, <2>2, <2>3 DEF TypeOK, Progress, WriteAll
<1>5. ASSUME NEW t \in Thread, SyncAll(t) PROVE TypeOK'
  <2>1. th[t].pc \in Open
    BY <1>5 DEF SyncAll, SyncOf, Open
  <2>2. synced' \subseteq Inode
    BY <1>0, <1>5, <2>1, TempFacts DEF TypeOK, Progress, SyncAll, SyncOf
  <2>3. th' \in Progress
    BY <1>5, ThreadsMove
  <2> QED  BY <1>0, <1>5, <2>2, <2>3 DEF TypeOK, Progress, SyncAll, SyncOf
<1>6. ASSUME NEW t \in Thread, Rename(t) PROVE TypeOK'
  <2>1. th' \in Progress
    BY <1>6, ThreadsMove
  <2>2. CASE Dir.tmp = None
    BY <1>0, <1>6, <2>1, <2>2 DEF TypeOK, Progress, Rename
  <2>3. CASE Dir.tmp # None
    <3>1. acked' \in Version
      BY <1>0, <1>6, <2>3, RenameDisk, ThreadTypes
    <3> QED  BY <1>0, <1>6, <2>1, <2>3, <3>1, RenameDisk, DirType DEF TypeOK, Progress, Rename
  <2> QED  BY <2>2, <2>3
<1>7. ASSUME NEW t \in Thread, SaveFails(t) PROVE TypeOK'
  <2>2. th' \in Progress
    BY <1>7, ThreadsMove
  <2> QED  BY <1>0, <1>7, <2>2 DEF TypeOK, Progress, SaveFails
<1>8. CASE Load
  <2>1. CASE UNCHANGED diskVars
    BY <1>0, <1>8, <2>1, LoadThread DEF TypeOK, Progress, Load, LoadIf
  <2>2. CASE ~UNCHANGED diskVars
    <3>1. PICK i \in Inode \ Lives :
              /\ data' = [data EXCEPT ![i] = data[Dir.live]] /\ synced' = synced \ {i}
              /\ Dir.live \in Inode
              /\ dirs' \in Seq([Name -> File]) /\ dirs' # <<>>
      BY <1>8, <2>2, LoadDisk
    <3>2. data' \in [Inode -> Version \cup {Empty, Torn, Bad}] /\ synced' \subseteq Inode
      BY <1>0, <3>1 DEF TypeOK, Progress
    <3> QED  BY <1>0, <1>8, <3>1, <3>2, LoadThread, DirType DEF TypeOK, Progress, Load, LoadIf
  <2> QED  BY <2>1, <2>2
<1>9. CASE Serve
  BY <1>0, <1>9, Serving DEF TypeOK, Progress, Serve
<1>10. CASE Settle
  <2>1. Len(dirs) \in DOMAIN dirs /\ dirs' = <<dirs[Len(dirs)]>>
    BY <1>0, <1>10, Directories DEF Settle, Dir
  <2>2. dirs' \in Seq([Name -> File]) /\ dirs' # <<>>
    BY <1>0, <2>1, Shrunk
  <2> QED  BY <1>0, <1>10, <2>2, DirType DEF TypeOK, Progress, Settle
<1>11. CASE PowerCut
  <2>1. PICK k \in DOMAIN dirs : dirs' = <<dirs[k]>>
    BY <1>11 DEF PowerCut
  <2>2. dirs' \in Seq([Name -> File]) /\ dirs' # <<>>
    BY <1>0, <2>1, Shrunk
  <2>3. data' \in [Inode -> Version \cup {Empty, Torn, Bad}] /\ synced' \subseteq Inode
    BY <1>0, <1>11 DEF TypeOK, Progress, PowerCut
  <2>4. cuts' \in 0..MaxCuts
    BY <1>0, <1>11, StoreAssumption DEF TypeOK, Progress, PowerCut
  <2> QED  BY <1>0, <1>11, <1>z, <2>2, <2>3, <2>4, Restarted, DirType DEF TypeOK, Progress, PowerCut
<1>12. CASE UNCHANGED vars
  BY <1>0, <1>12 DEF TypeOK, Progress, vars
<1> QED  BY <1>1, <1>2, <1>3, <1>4, <1>5, <1>6, <1>7, <1>8, <1>9, <1>10, <1>11, <1>12 DEF Next

LEMMA TurnStep == OneSaver /\ StoreInv /\ [Next]_vars => TurnInv'
<1> SUFFICES ASSUME OneSaver, StoreInv, [Next]_vars PROVE TurnInv'
  OBVIOUS
<1>0. TypeOK /\ TurnInv /\ Main \in Thread /\ Worker \subseteq Thread /\ Main \notin Worker
  BY StoreAssumption DEF StoreInv, Thread
<1>1. ASSUME NEW t \in Thread,
             \/ Change(t) \/ Snapshot(t) \/ Create(t) \/ WriteAll(t)
             \/ SyncAll(t) \/ Rename(t) \/ SaveFails(t)
      PROVE  TurnInv'
  <2>1. \A u \in Thread : u # t => th'[u] = th[u]
    BY <1>1, ThreadsMove
  <2>2. /\ th[t].pc # "off" /\ (t # Main => th'[t].pc # "load")
        /\ (t = Main => th'[t].pc # "snapshot")
    <3>1. /\ Change(t) => th[t].pc = "ready" /\ t # Main
          /\ Snapshot(t) => th[t].pc = "snapshot"
          /\ Create(t) => th[t].pc = "create"
          /\ WriteAll(t) => th[t].pc = "write"
          /\ SyncAll(t) => th[t].pc = "sync"
          /\ Rename(t) => th[t].pc = "rename"
          /\ SaveFails(t) => th[t].pc \in {"create", "write", "sync", "rename"}
      BY DEF Change, Snapshot, Create, CreateAs, WriteAll, SyncAll, SyncOf, Rename, SaveFails
    <3>2. t = Main => ~Snapshot(t)
      BY <1>0, <3>1 DEF TurnInv
    <3>3. /\ Change(t) => th'[t].pc = "snapshot"
          /\ Snapshot(t) => th'[t].pc = "create"
          /\ Create(t) => th'[t].pc = "write"
          /\ WriteAll(t) => th'[t].pc = "sync"
          /\ SyncAll(t) => th'[t].pc = "rename"
          /\ Rename(t) => th'[t].pc = "ready"
          /\ SaveFails(t) => th'[t].pc = IF t = Main THEN "load" ELSE "ready"
      BY <1>0, ThreadSteps DEF TypeOK
    <3> QED  BY <1>1, <3>1, <3>2, <3>3
  <2>3. CASE t = Main
    BY <1>0, <2>1, <2>2, <2>3 DEF TurnInv
  <2>4. CASE t # Main
    <3>1. th[Main].pc = "off" /\ th'[Main] = th[Main]
      BY <1>0, <2>1, <2>2, <2>4 DEF TurnInv, Thread
    <3> QED  BY <1>0, <2>1, <2>2, <3>1 DEF TurnInv
  <2> QED  BY <2>3, <2>4
<1>2. CASE Load
  <2>1. /\ th[Main].pc = "load" /\ th'[Main].pc = "create"
        /\ \A u \in Thread : u # Main => th'[u] = th[u]
    BY <1>2, LoadThread DEF Load, LoadIf
  <2> QED  BY <1>0, <2>1 DEF TurnInv
<1>3. CASE Serve
  BY <1>0, <1>3, Serving DEF TurnInv
<1>4. CASE PowerCut
  BY <1>0, <1>4, Restarted DEF TurnInv, PowerCut, Progress
<1>5. CASE Settle \/ UNCHANGED vars
  BY <1>0, <1>5 DEF TurnInv, Settle, vars
<1> QED  BY <1>1, <1>2, <1>3, <1>4, <1>5 DEF Next
----------------------------------------------------------------------------
(* One thread saves, so what it finds in the temp file is its own.          *)
LEMMA SavesAlone ==
  ASSUME OneSaver, StoreInv, NEW t \in Thread, th[t].pc # "off", Saves(t)',
         \A u \in Thread : u # t => th'[u] = th[u]
  PROVE  SaveInv'
<1>1. ASSUME NEW u \in Thread, u # t PROVE Saves(u)'
  <2>1. th[u].pc = "off" /\ th'[u] = th[u]
    BY <1>1, Alone DEF StoreInv
  <2>2. /\ th'[u].pc \notin Saving /\ th'[u].pc \notin Open
        /\ th'[u].pc \notin {"write", "sync", "rename"}
    BY <2>1 DEF Saving, Open
  <2> QED  BY <2>2 DEF Saves
<1> QED  BY <1>1 DEF SaveInv

LEMMA Idle ==
  ASSUME NEW t, th'[t].pc \in {"off", "ready", "load", "snapshot"}
  PROVE  Saves(t)'
BY DEF Saves, Saving, Open

LEMMA SaveStep == OneSaver /\ StoreInv /\ [Next]_vars => SaveInv'
<1> SUFFICES ASSUME OneSaver, StoreInv, [Next]_vars PROVE SaveInv'
  OBVIOUS
<1> USE DEF diskVars
<1>0. TypeOK /\ TurnInv /\ VersionInv /\ \A t \in Thread : Saves(t)
  BY DEF StoreInv, SaveInv
<1>1. ASSUME NEW t \in Thread, Change(t) PROVE SaveInv'
  <2>1. th[t].pc # "off" /\ th'[t].pc = "snapshot"
    BY <1>0, <1>1, ThreadSteps DEF Change, TypeOK
  <2> QED  BY <1>1, <2>1, Idle, SavesAlone, ThreadsMove
<1>2. ASSUME NEW t \in Thread, Snapshot(t) PROVE SaveInv'
  <2>1. th[t].pc = "snapshot" /\ th'[t].pc = "create" /\ th'[t].val = mem
    <3>1. th' = [th EXCEPT ![t] = [pc |-> "create", fd |-> th[t].fd, val |-> mem]]
      BY <1>0, <1>2, ThreadSteps
    <3>2. th'[t] = [pc |-> "create", fd |-> th[t].fd, val |-> mem]
      BY <1>0, <3>1 DEF TypeOK
    <3> QED  BY <1>2, <3>2 DEF Snapshot
  <2>2. acked <= mem
    <3>1. t # Main
      BY <1>0, <2>1 DEF TurnInv
    <3>2. th[Main].pc # "load"
      BY <1>0, <2>1, <3>1 DEF TurnInv, Thread
    <3> QED  BY <1>0, <3>2 DEF VersionInv
  <2>3. acked' = acked /\ mem' = mem /\ mem \in Nat
    BY <1>0, <1>2 DEF Snapshot, TypeOK, Version
  <2>4. Saves(t)'
    BY <2>1, <2>2, <2>3 DEF Saves, Saving, Open
  <2> QED  BY <1>2, <2>1, <2>4, SavesAlone, ThreadsMove
<1>3. ASSUME NEW t \in Thread, Create(t) PROVE SaveInv'
  <2>1. th[t].pc = "create" /\ th'[t].pc = "write" /\ th'[t].val = th[t].val
    <3>1. th' = [th EXCEPT ![t] =
            [pc |-> "write", fd |-> IF Dir.tmp = None THEN Fresh ELSE Dir.tmp,
             val |-> th[t].val]]
      BY <1>0, <1>3, ThreadSteps
    <3>2. th'[t] =
            [pc |-> "write", fd |-> IF Dir.tmp = None THEN Fresh ELSE Dir.tmp,
             val |-> th[t].val]
      BY <1>0, <3>1 DEF TypeOK
    <3> QED  BY <1>3, <3>2 DEF Create, CreateAs
  <2>2. acked' = acked /\ mem' = mem /\ acked <= th[t].val /\ th[t].val <= mem
    BY <1>0, <1>3, <2>1 DEF Create, CreateAs, Saves, Saving
  <2>3. PICK i \in Inode \ Lives :
          data' = [data EXCEPT ![i] = Empty] /\ th'[t].fd = i /\ Dir'.tmp = i
    BY <1>3, CreateDisk
  <2>4. i # None /\ data'[i] = Empty
    BY <1>0, <2>3, StoreAssumption DEF TypeOK
  <2>5. Saves(t)'
    BY <2>1, <2>2, <2>3, <2>4 DEF Saves, Saving, Open
  <2> QED  BY <1>3, <2>1, <2>5, SavesAlone, ThreadsMove
<1>4. ASSUME NEW t \in Thread, WriteAll(t) PROVE SaveInv'
  <2>1. /\ th[t].pc = "write" /\ th'[t].pc = "sync"
        /\ th'[t].val = th[t].val /\ th'[t].fd = th[t].fd
    <3>1. th' = [th EXCEPT ![t] = [pc |-> "sync", fd |-> th[t].fd, val |-> th[t].val]]
      BY <1>0, <1>4, ThreadSteps
    <3>2. th'[t] = [pc |-> "sync", fd |-> th[t].fd, val |-> th[t].val]
      BY <1>0, <3>1 DEF TypeOK
    <3> QED  BY <1>4, <3>2 DEF WriteAll
  <2>2. acked' = acked /\ mem' = mem /\ acked <= th[t].val /\ th[t].val <= mem
    BY <1>0, <1>4, <2>1 DEF WriteAll, Saves, Saving
  <2>3. th[t].fd = Dir.tmp /\ Dir.tmp \in Inode /\ Dir.tmp # None /\ data[Dir.tmp] = Empty
    BY <1>0, <2>1, TempFacts, StoreAssumption DEF Saves, Open
  <2>4. data' = [data EXCEPT ![Dir.tmp] = th[t].val] /\ dirs' = dirs
    BY <1>4, <2>3 DEF WriteAll
  <2>5. data'[Dir.tmp] = th[t].val /\ Dir' = Dir
    BY <1>0, <2>3, <2>4 DEF TypeOK, Dir
  <2>6. Saves(t)'
    BY <2>1, <2>2, <2>3, <2>5 DEF Saves, Saving, Open
  <2> QED  BY <1>4, <2>1, <2>6, SavesAlone, ThreadsMove
<1>5. ASSUME NEW t \in Thread, SyncAll(t) PROVE SaveInv'
  <2>1. /\ th[t].pc = "sync" /\ th'[t].pc = "rename"
        /\ th'[t].val = th[t].val /\ th'[t].fd = th[t].fd
    BY <1>0, <1>5, ThreadSteps DEF SyncAll, SyncOf, TypeOK
  <2>2. acked' = acked /\ mem' = mem /\ acked <= th[t].val /\ th[t].val <= mem
    BY <1>0, <1>5, <2>1 DEF SyncAll, SyncOf, Saves, Saving
  <2>3. th[t].fd = Dir.tmp /\ Dir.tmp # None /\ data[Dir.tmp] = th[t].val
    BY <1>0, <2>1 DEF Saves, Open
  <2>4. data' = data /\ Dir' = Dir /\ Dir.tmp \in synced'
    BY <1>5, <2>3 DEF SyncAll, SyncOf, Dir
  <2>5. Saves(t)'
    BY <2>1, <2>2, <2>3, <2>4 DEF Saves, Saving, Open
  <2> QED  BY <1>5, <2>1, <2>5, SavesAlone, ThreadsMove
<1>6. ASSUME NEW t \in Thread, Rename(t) \/ SaveFails(t) PROVE SaveInv'
  <2>1. th[t].pc # "off" /\ th'[t].pc \in {"ready", "load"}
    BY <1>0, <1>6, ThreadSteps DEF Rename, SaveFails, TypeOK
  <2> QED  BY <1>6, <2>1, Idle, SavesAlone, ThreadsMove
<1>7. CASE Load
  <2>1. /\ th[Main].pc = "load" /\ th'[Main].pc = "create" /\ th'[Main].val = mem'
        /\ mem' \in Nat /\ acked' = acked /\ acked <= mem'
        /\ \A u \in Thread : u # Main => th'[u] = th[u]
    BY <1>0, <1>7, LoadThread DEF Load, LoadIf, VersionInv, Version
  <2>2. Saves(Main)'
    BY <2>1 DEF Saves, Saving, Open
  <2>3. Main \in Thread
    BY DEF Thread
  <2> QED  BY <2>1, <2>2, <2>3, SavesAlone
<1>8. CASE Serve
  BY <1>8, Serving, Idle DEF SaveInv
<1>9. CASE PowerCut
  BY <1>9, Restarted, Idle DEF SaveInv, PowerCut
<1>10. CASE Settle
  <2>1. Len(dirs) \in DOMAIN dirs /\ dirs' = <<dirs[Len(dirs)]>>
    BY <1>0, <1>10, Directories DEF Settle, Dir
  <2>2. Dir' = Dir
    BY <1>0, <2>1, Shrunk DEF Dir
  <2> QED  BY <1>0, <1>10, <2>2 DEF Settle, SaveInv, Saves
<1>11. CASE UNCHANGED vars
  BY <1>0, <1>11 DEF vars, SaveInv, Saves, Dir
<1> QED  BY <1>1, <1>2, <1>3, <1>4, <1>5, <1>6, <1>7, <1>8, <1>9, <1>10, <1>11 DEF Next
----------------------------------------------------------------------------
(* Most steps leave the files a restart may find as they are.               *)
Quiet == /\ Lives' = Lives /\ Dir'.live = Dir.live
         /\ \A f \in Lives : f # None => data'[f] = data[f] /\ (f \in synced => f \in synced')

LEMMA OtherFile ==
  ASSUME TypeOK, NEW i \in Inode \ Lives, NEW x, data' = [data EXCEPT ![i] = x],
         synced \ {i} \subseteq synced'
  PROVE  \A f \in Lives : f # None => data'[f] = data[f] /\ (f \in synced => f \in synced')
<1>1. Lives \subseteq File
  BY Directories
<1>2. data \in [Inode -> Version \cup {Empty, Torn, Bad}]
  BY DEF TypeOK
<1>3. \A f \in File \ {None} : f # i => data'[f] = data[f]
  BY <1>2 DEF File
<1> QED  BY <1>1, <1>3

LEMMA SettleDisk ==
  ASSUME TypeOK, Settle
  PROVE  /\ Dir' = Dir /\ Lives' = {Dir.live} /\ Lives' \subseteq Lives
         /\ \E k \in DOMAIN dirs : \A j \in DOMAIN dirs' : dirs'[j] = dirs[k]
<1>1. Len(dirs) \in DOMAIN dirs /\ dirs' = <<dirs[Len(dirs)]>>
  BY Directories DEF Settle, Dir
<1> QED  BY <1>1, Shrunk DEF Dir

LEMMA QuietSteps ==
  ASSUME StoreInv, [Next]_vars
  PROVE  Quiet \/ (\E t \in Thread : Rename(t) /\ Dir.tmp # None) \/ Settle \/ PowerCut
<1> USE DEF diskVars
<1>0. TypeOK
  BY DEF StoreInv
<1>1. ASSUME UNCHANGED diskVars PROVE Quiet
  BY <1>1 DEF Quiet, Lives, Dir
<1>2. ASSUME NEW t \in Thread, Create(t) PROVE Quiet
  <2>1. PICK i \in Inode \ Lives :
           /\ data' = [data EXCEPT ![i] = Empty] /\ synced' = synced \ {i}
           /\ Lives' = Lives /\ Dir'.live = Dir.live
    BY <1>2, CreateDisk
  <2>2. synced \ {i} \subseteq synced'
    BY <2>1
  <2>3. \A f \in Lives : f # None => data'[f] = data[f] /\ (f \in synced => f \in synced')
    BY <1>0, <2>1, <2>2, OtherFile
  <2> QED  BY <2>1, <2>3 DEF Quiet
<1>3. ASSUME NEW t \in Thread, WriteAll(t) PROVE Quiet
  <2>1. th[t].pc \in Open
    BY <1>3 DEF WriteAll, Open
  <2>2. th[t].fd \in Inode \ Lives
    BY <2>1, TempFacts
  <2>3. PICK x : data' = [data EXCEPT ![th[t].fd] = x]
    BY <1>3 DEF WriteAll
  <2>4. synced \ {th[t].fd} \subseteq synced' /\ dirs' = dirs
    BY <1>3 DEF WriteAll
  <2>5. \A f \in Lives : f # None => data'[f] = data[f] /\ (f \in synced => f \in synced')
    BY <1>0, <2>2, <2>3, <2>4, OtherFile
  <2> QED  BY <2>4, <2>5 DEF Quiet, Lives, Dir
<1>4. ASSUME NEW t \in Thread, SyncAll(t) PROVE Quiet
  BY <1>4 DEF SyncAll, SyncOf, Quiet, Lives, Dir
<1>5. CASE Load /\ ~UNCHANGED diskVars
  <2>1. PICK i \in Inode \ Lives :
           /\ data' = [data EXCEPT ![i] = data[Dir.live]] /\ synced' = synced \ {i}
           /\ Lives' = Lives /\ Dir'.live = Dir.live
    BY <1>5, LoadDisk
  <2>2. synced \ {i} \subseteq synced'
    BY <2>1
  <2>3. \A f \in Lives : f # None => data'[f] = data[f] /\ (f \in synced => f \in synced')
    BY <1>0, <2>1, <2>2, OtherFile
  <2> QED  BY <2>1, <2>3 DEF Quiet
<1>6. ASSUME NEW t \in Thread, Change(t) \/ Snapshot(t) \/ SaveFails(t) PROVE Quiet
  <2>1. UNCHANGED diskVars
    BY <1>6 DEF Change, Snapshot, SaveFails
  <2> QED  BY <1>1, <2>1
<1>7. ASSUME NEW t \in Thread, Rename(t), Dir.tmp = None PROVE Quiet
  <2>1. UNCHANGED diskVars
    BY <1>7 DEF Rename
  <2> QED  BY <1>1, <2>1
<1>8. CASE Serve \/ UNCHANGED vars
  <2>1. UNCHANGED diskVars
    BY <1>8 DEF Serve, vars
  <2> QED  BY <1>1, <2>1
<1> QED  BY <1>1, <1>2, <1>3, <1>4, <1>5, <1>6, <1>7, <1>8 DEF Next

LEMMA QuietFiles ==
  ASSUME StoreInv, Quiet
  PROVE  \A f \in Lives : /\ f # None => f \in synced' /\ data'[f] \in Version \cup {Bad}
                          /\ Value(f)' = Value(f)
BY DEF StoreInv, FileInv, Quiet, Value, Parsed

(* A version is what any file a restart may find stands for.                *)
LEMMA Values ==
  ASSUME StoreInv, NEW f \in Lives
  PROVE  Value(f) \in Version
<1>1. f # None => data[f] \in Version \cup {Bad}
  BY DEF StoreInv, FileInv
<1> QED  BY <1>1, StoreAssumption DEF Value, Parsed, Version

LEMMA FileStep == StoreInv /\ [Next]_vars => FileInv'
<1> SUFFICES ASSUME StoreInv, [Next]_vars PROVE FileInv'
  OBVIOUS
<1> USE DEF diskVars
<1>0. TypeOK /\ FileInv /\ TypeOK'
  BY TypeStep DEF StoreInv
<1>1. CASE Quiet
  <2>1. \A f \in Lives' : f # None => f \in synced' /\ data'[f] \in Version \cup {Bad}
    BY <1>1, QuietFiles DEF Quiet
  <2>2. /\ \A k \in DOMAIN dirs' : Apart(dirs'[k])
        /\ Dir'.tmp # None => Dir'.tmp \notin Lives'
        /\ Dir'.bak # None => Dir'.bak \notin Lives'
    <3>0. Lives' = Lives
      BY <1>1 DEF Quiet
    <3>1. CASE dirs' = dirs
      BY <1>0, <3>1 DEF FileInv, Dir, Lives
    <3>2. ASSUME NEW t \in Thread, Create(t)
          PROVE  /\ \A k \in DOMAIN dirs' : Apart(dirs'[k])
                 /\ Dir'.tmp \notin Lives' /\ Dir'.bak = Dir.bak
      <4>1. PICK i \in Inode \ Lives :
              Dir'.tmp = i /\ Dir'.bak = Dir.bak /\ \A k \in DOMAIN dirs' : Apart(dirs'[k])
        BY <3>2, CreateDisk
      <4> QED  BY <3>0, <4>1
    <3>3. ASSUME Load, ~UNCHANGED diskVars
          PROVE  /\ \A k \in DOMAIN dirs' : Apart(dirs'[k])
                 /\ Dir'.bak \notin Lives' /\ Dir'.tmp = Dir.tmp
      <4>1. PICK i \in Inode \ Lives :
              Dir'.tmp = Dir.tmp /\ Dir'.bak = i /\ \A k \in DOMAIN dirs' : Apart(dirs'[k])
        BY <3>3, LoadDisk
      <4> QED  BY <3>0, <4>1
    <3>4. ASSUME NEW t \in Thread, Rename(t), Dir.tmp # None
          PROVE  /\ \A k \in DOMAIN dirs' : Apart(dirs'[k])
                 /\ Dir'.tmp = None /\ Dir'.bak = Dir.bak
      BY <3>4, RenameDisk
    <3>5. CASE Settle
      BY <1>0, <3>5, SettleDisk DEF FileInv
    <3>6. CASE PowerCut
      <4>1. PICK k \in DOMAIN dirs : dirs' = <<dirs[k]>>
        BY <3>6 DEF PowerCut
      <4> QED  BY <1>0, <4>1, Shrunk DEF FileInv, Apart
    <3>7. \/ dirs' = dirs \/ (\E t \in Thread : Create(t))
          \/ (Load /\ ~UNCHANGED diskVars) \/ (\E t \in Thread : Rename(t) /\ Dir.tmp # None)
          \/ Settle \/ PowerCut
      <4>1. ASSUME NEW t \in Thread,
                   Change(t) \/ Snapshot(t) \/ WriteAll(t) \/ SyncAll(t) \/ SaveFails(t)
            PROVE  dirs' = dirs
        BY <4>1 DEF Change, Snapshot, WriteAll, SyncAll, SyncOf, SaveFails
      <4>2. ASSUME NEW t \in Thread, Rename(t), Dir.tmp = None PROVE dirs' = dirs
        BY <4>2 DEF Rename
      <4>3. Serve \/ UNCHANGED vars => dirs' = dirs
        BY DEF Serve, vars
      <4> QED  BY <4>1, <4>2, <4>3 DEF Next
    <3> QED  BY <1>0, <3>0, <3>1, <3>2, <3>3, <3>4, <3>5, <3>6, <3>7 DEF FileInv
  <2> QED  BY <2>1, <2>2 DEF FileInv
<1>2. ASSUME NEW t \in Thread, Rename(t), Dir.tmp # None PROVE FileInv'
  <2>1. /\ Lives' = Lives \cup {Dir.tmp} /\ Dir'.tmp = None /\ Dir'.bak = Dir.bak
        /\ \A k \in DOMAIN dirs' : Apart(dirs'[k])
    BY <1>2, RenameDisk
  <2>2. data' = data /\ synced' = synced
    BY <1>2 DEF Rename
  <2>3. Dir.tmp \in synced /\ data[Dir.tmp] \in Version
    <3>1. th[t].pc = "rename"
      BY <1>2 DEF Rename
    <3> QED  BY <1>0, <3>1, ThreadTypes DEF StoreInv, SaveInv, Saves
  <2>4. Dir.bak # Dir.tmp
    BY <1>0, <1>2, Directories DEF FileInv, Apart, Dir
  <2> QED  BY <1>0, <2>1, <2>2, <2>3, <2>4 DEF FileInv
<1>3. CASE Settle
  <2>1. data' = data /\ synced' = synced
    BY <1>3 DEF Settle
  <2> QED  BY <1>0, <1>3, <2>1, SettleDisk DEF FileInv
<1>4. CASE PowerCut
  <2>1. PICK k \in DOMAIN dirs : dirs' = <<dirs[k]>>
    BY <1>4 DEF PowerCut
  <2>2. /\ Dir' = dirs[k] /\ Lives' = {dirs[k].live} /\ dirs[k].live \in Lives
        /\ \A j \in DOMAIN dirs' : dirs'[j] = dirs[k]
    BY <1>0, <2>1, Shrunk
  <2>3. Apart(dirs[k])
    BY <1>0 DEF FileInv
  <2>4. \A f \in Lives : f # None => f \in synced' /\ data'[f] = data[f]
    <3>1. Lives \subseteq File
      BY <1>0, Directories
    <3>2. \A f \in synced : data'[f] = data[f]
      BY <1>0, <1>4 DEF PowerCut, TypeOK
    <3>3. synced' = Inode
      BY <1>4 DEF PowerCut
    <3> QED  BY <1>0, <3>1, <3>2, <3>3 DEF FileInv, File
  <2>5. \A f \in Lives' : f # None => f \in synced' /\ data'[f] \in Version \cup {Bad}
    BY <1>0, <2>2, <2>4 DEF FileInv
  <2> QED  BY <2>2, <2>3, <2>5 DEF FileInv, Apart
<1> QED  BY <1>1, <1>2, <1>3, <1>4, QuietSteps

(* Versions only grow, but for a power cut, which goes back to one a save   *)
(* reported before the directory reached the disk.                          *)
LEMMA VersionStep == StoreInv /\ [Next]_vars => VersionInv'
<1> SUFFICES ASSUME StoreInv, [Next]_vars PROVE VersionInv'
  OBVIOUS
<1> USE DEF diskVars
<1>0. /\ TypeOK /\ VersionInv /\ TypeOK' /\ Main \in Thread /\ Dir.live \in Lives
      /\ mem \in Nat /\ changes \in Nat /\ acked \in Nat /\ safe \in Nat
      /\ \A f \in Lives : Value(f) \in Nat
  <2>1. TypeOK /\ VersionInv /\ TypeOK' /\ Main \in Thread
    BY TypeStep DEF StoreInv, Thread
  <2>2. mem \in Nat /\ changes \in Nat /\ acked \in Nat /\ safe \in Nat
    BY <2>1 DEF TypeOK, Version
  <2> QED  BY <2>1, <2>2, Directories, Values DEF Version
<1>1. CASE Quiet /\ ~Settle /\ ~PowerCut /\ ~\E t \in Thread : Rename(t) /\ Dir.tmp # None
  <2>1. safe' = safe /\ acked' = acked
    <3>1. ASSUME NEW t \in Thread,
                 Change(t) \/ Snapshot(t) \/ Create(t) \/ WriteAll(t) \/ SyncAll(t) \/ SaveFails(t)
          PROVE  safe' = safe /\ acked' = acked
      BY <3>1 DEF Change, Snapshot, Create, CreateAs, WriteAll, SyncAll, SyncOf, SaveFails
    <3>2. ASSUME NEW t \in Thread, Rename(t), Dir.tmp = None PROVE safe' = safe /\ acked' = acked
      BY <3>2 DEF Rename
    <3>3. Load \/ Serve \/ UNCHANGED vars => safe' = safe /\ acked' = acked
      BY DEF Load, LoadIf, Serve, vars
    <3> QED  BY <1>1, <3>1, <3>2, <3>3 DEF Next
  <2>2. /\ changes <= changes' /\ mem' <= changes' /\ changes' \in Nat /\ mem' \in Nat
        /\ th'[Main].pc # "load" => acked <= mem'
    <3>1. ASSUME NEW t \in Thread, Change(t)
          PROVE  changes' = changes + 1 /\ mem' = changes'
      BY <3>1 DEF Change
    <3>2. CASE Load
      <4>1. mem' = Value(Dir.live) /\ changes' = changes
        BY <3>2, LoadThread DEF Load, LoadIf
      <4> QED  BY <1>0, <4>1 DEF VersionInv
    <3>3. ASSUME NEW t \in Thread,
                 \/ Snapshot(t) \/ Create(t) \/ WriteAll(t)
                 \/ SyncAll(t) \/ Rename(t) \/ SaveFails(t)
          PROVE  changes' = changes /\ mem' = mem /\ (th'[Main].pc # "load" => th[Main].pc # "load")
      <4>1. changes' = changes /\ mem' = mem
        BY <3>3 DEF Snapshot, Create, CreateAs, WriteAll, SyncAll, SyncOf, Rename, SaveFails
      <4>2. th[t].pc # "load"
        BY <3>3 DEF Snapshot, Create, CreateAs, WriteAll, SyncAll, SyncOf, Rename, SaveFails
      <4>3. t # Main => th'[Main] = th[Main]
        BY <1>0, <3>3, ThreadsMove
      <4> QED  BY <4>1, <4>2, <4>3
    <3>4. CASE Serve \/ UNCHANGED vars
      <4>1. changes' = changes /\ mem' = mem /\ (th'[Main].pc # "load" => th[Main].pc # "load")
        BY <3>4 DEF Serve, vars
      <4> QED  BY <1>0, <4>1 DEF VersionInv
    <3> QED  BY <1>0, <1>1, <3>1, <3>2, <3>3, <3>4 DEF Next, VersionInv
  <2>3. /\ acked <= Value(Dir.live)'
        /\ \A f \in Lives' : safe <= Value(f)' /\ Value(f)' <= changes
    <3>1. PICK l \in Lives : l = Dir.live
      BY <1>0
    <3>2. Value(l)' = Value(l) /\ Value(Dir.live)' = Value(l)'
      BY <1>1, <3>1, QuietFiles DEF Quiet, Value
    <3>3. acked <= Value(l)
      BY <1>0, <3>1 DEF VersionInv
    <3>4. \A f \in Lives' : safe <= Value(f)' /\ Value(f)' <= changes
      BY <1>0, <1>1, QuietFiles DEF Quiet, VersionInv
    <3> QED  BY <3>2, <3>3, <3>4
  <2>4. \A f \in Lives' : Value(f)' \in Nat
    BY <1>0, <1>1, QuietFiles DEF Quiet
  <2>5. \A f \in Lives' : safe <= Value(f)' /\ Value(f)' <= changes'
    BY <1>0, <2>2, <2>3, <2>4
  <2>6. safe <= acked /\ acked <= changes'
    BY <1>0, <2>2 DEF VersionInv
  <2> QED  BY <2>1, <2>2, <2>3, <2>5, <2>6 DEF VersionInv
<1>2. ASSUME NEW t \in Thread, Rename(t), Dir.tmp # None PROVE VersionInv'
  <2>1. /\ Lives' = Lives \cup {Dir.tmp} /\ Dir'.live = Dir.tmp /\ acked' = th[t].val
        /\ data' = data /\ mem' = mem /\ changes' = changes /\ safe' = safe
    BY <1>2, RenameDisk DEF Rename
  <2>2. /\ data[Dir.tmp] = th[t].val /\ acked <= th[t].val /\ th[t].val <= mem
        /\ th[t].val \in Nat
    <3>1. th[t].pc = "rename"
      BY <1>2 DEF Rename
    <3>2. Saves(t)
      BY DEF StoreInv, SaveInv
    <3>3. th[t].val \in Nat
      <4>1. TypeOK
        BY <1>0
      <4>2. th[t].val \in Version
        BY <4>1, ThreadTypes
      <4> QED  BY <4>2 DEF Version
    <3> QED  BY <3>1, <3>2, <3>3 DEF Saves, Saving
  <2>3. \A f \in Lives : Value(f)' = Value(f)
    BY <2>1 DEF Value, Parsed
  <2>4. PICK i : i = Dir.tmp
    OBVIOUS
  <2>5. Value(i)' = th[t].val
    BY <1>2, <2>1, <2>2, <2>4, StoreAssumption DEF Value, Parsed
  <2>6. Value(Dir.live)' = Value(i)'
    BY <2>1, <2>4 DEF Value
  <2>7. \A f \in Lives' : safe <= Value(f)' /\ Value(f)' <= changes
    BY <1>0, <2>1, <2>2, <2>3, <2>4, <2>5 DEF VersionInv
  <2>8. safe <= th[t].val /\ th[t].val <= changes /\ mem <= changes
    BY <1>0, <2>2 DEF VersionInv
  <2> QED  BY <2>1, <2>2, <2>5, <2>6, <2>7, <2>8 DEF VersionInv
<1>3. CASE Settle
  <2>1. /\ mem' = mem /\ changes' = changes /\ acked' = acked /\ safe' = acked
        /\ th' = th /\ data' = data /\ Dir' = Dir /\ Lives' = {Dir.live}
    BY <1>0, <1>3, SettleDisk DEF Settle
  <2>2. \A f \in Lives : Value(f)' = Value(f)
    BY <2>1 DEF Value, Parsed
  <2>3. Value(Dir.live)' = Value(Dir.live)
    BY <2>1 DEF Value, Parsed
  <2> QED  BY <1>0, <2>1, <2>2, <2>3 DEF VersionInv
<1>4. CASE PowerCut
  <2>1. PICK k \in DOMAIN dirs : dirs' = <<dirs[k]>>
    BY <1>4 DEF PowerCut
  <2>2. PICK l \in Lives : Dir'.live = l /\ Lives' = {l}
    BY <1>0, <2>1, Shrunk
  <2>3. mem' = 0 /\ acked' = safe /\ safe' = safe /\ changes' = changes /\ th'[Main].pc = "load"
    BY <1>0, <1>4, Restarted DEF PowerCut
  <2>4. Value(l)' = Value(l)
    <3>1. l # None => l \in synced
      BY DEF StoreInv, FileInv
    <3>2. \A f \in synced : data'[f] = data[f]
      BY <1>0, <1>4 DEF PowerCut, TypeOK
    <3> QED  BY <3>1, <3>2 DEF Value, Parsed
  <2>5. Value(Dir.live)' = Value(l)'
    BY <2>2 DEF Value
  <2>6. safe <= Value(l) /\ Value(l) <= changes /\ safe <= changes
    BY <1>0 DEF VersionInv
  <2> QED  BY <1>0, <2>2, <2>3, <2>4, <2>5, <2>6 DEF VersionInv
<1> QED  BY <1>1, <1>2, <1>3, <1>4, QuietSteps
----------------------------------------------------------------------------
LEMMA InitStore == Init => StoreInv
<1> SUFFICES ASSUME Init PROVE StoreInv
  OBVIOUS
<1>1. PICK i \in Inode : \E l \in {i, None} :
        /\ data \in {[j \in Inode |-> IF j = i THEN x ELSE Empty] : x \in {0, Bad}}
        /\ synced = {i} /\ dirs = <<[live |-> l, tmp |-> None, bak |-> None]>>
  BY DEF Init
<1>l. PICK l \in {i, None} : dirs = <<[live |-> l, tmp |-> None, bak |-> None]>>
  BY <1>1
<1>2. /\ mem = 0 /\ changes = 0 /\ acked = 0 /\ safe = 0 /\ cuts = 0
      /\ th = [t \in Thread |-> IF t = Main THEN [Off EXCEPT !.pc = "load"] ELSE Off]
  BY DEF Init
<1>3. 0 \in Version /\ 0 \in 0..MaxCuts /\ 0 <= 0 /\ Bad # 0
  BY StoreAssumption DEF Version
<1> DEFINE d == [live |-> l, tmp |-> None, bak |-> None]
<1>4. d \in [Name -> File] /\ d.live = l /\ d.tmp = None /\ d.bak = None
  BY <1>l DEF Name, File
<1> HIDE DEF d
<1>5. dirs = <<d>>
  BY <1>l DEF d
<1>6. /\ dirs \in Seq([Name -> File]) /\ dirs # <<>> /\ DOMAIN dirs = {1} /\ dirs[1] = d
      /\ Len(dirs) = 1 /\ Dir = d /\ Lives = {l}
  <2>1. /\ dirs \in Seq([Name -> File]) /\ dirs # <<>> /\ DOMAIN dirs = {1} /\ dirs[1] = d
        /\ Len(dirs) = 1
    BY <1>4, <1>5
  <2> QED  BY <1>4, <2>1 DEF Dir, Lives
<1>7. PICK x \in {0, Bad} : data = [j \in Inode |-> IF j = i THEN x ELSE Empty]
  BY <1>1
<1>8. /\ th \in Progress
      /\ \A t \in Thread : th[t].pc = (IF t = Main THEN "load" ELSE "off")
  BY <1>2, <1>3 DEF Off, Progress
<1>9. TypeOK
  BY <1>1, <1>2, <1>3, <1>6, <1>7, <1>8 DEF TypeOK, Name, File, Progress
<1>10. TurnInv
  BY <1>8, StoreAssumption DEF TurnInv, Thread
<1>11. SaveInv
  <2>1. \A t \in Thread : th[t].pc \notin Open /\ th[t].pc \notin Saving
                          /\ th[t].pc \notin {"write", "sync", "rename"}
    BY <1>8 DEF Open, Saving
  <2> QED  BY <2>1 DEF SaveInv, Saves
<1>12. FileInv
  BY <1>1, <1>l, <1>3, <1>4, <1>6, <1>7 DEF FileInv, Apart
<1>13. Value(l) = 0
  BY <1>1, <1>l, <1>3, <1>7, StoreAssumption DEF Value, Parsed
<1>14. VersionInv
  <2>1. Dir.live = l
    BY <1>4, <1>6
  <2> QED  BY <1>2, <1>3, <1>6, <1>13, <2>1 DEF VersionInv
<1> QED  BY <1>9, <1>10, <1>11, <1>12, <1>14 DEF StoreInv

(* The inductive invariant, when one worker saves.                          *)
THEOREM Storing == ASSUME OneSaver PROVE Spec => []StoreInv
<1>1. Init => StoreInv
  BY InitStore
<1>2. StoreInv /\ [Next]_vars => StoreInv'
  BY TypeStep, TurnStep, SaveStep, FileStep, VersionStep DEF StoreInv
<1> QED  BY <1>1, <1>2, PTL DEF Spec

(* What a restart may find is what the live files stand for: all of them    *)
(* are on the disk.                                                         *)
LEMMA MayIsValues ==
  ASSUME StoreInv
  PROVE  May = {Value(f) : f \in Lives}
<1>1. \A f \in Lives : Found(f) = {Value(f)}
  <2>1. \A f \in Lives : f # None => f \in synced
    BY DEF StoreInv, FileInv
  <2> QED  BY <2>1 DEF Found, Value
<1>2. May = UNION {Found(f) : f \in Lives}
  BY DEF May, Lives
<1> QED  BY <1>1, <1>2

(* Nobody writes to a file that a restart may take for the configuration,   *)
(* and what it may take is on the disk.                                     *)
THEOREM LiveFilesAreSafe == ASSUME OneSaver PROVE Spec => []Inv
<1>1. StoreInv => Inv
  <2> SUFFICES ASSUME StoreInv PROVE Inv
    OBVIOUS
  <2>1. \A k \in DOMAIN dirs : dirs[k].live \in Lives
    BY DEF Lives
  <2>2. ASSUME NEW k \in DOMAIN dirs, NEW t \in Thread, th[t].pc \in {"write", "sync"}
        PROVE  th[t].fd # dirs[k].live
    <3>1. th[t].pc \in Open
      BY <2>2 DEF Open
    <3> QED  BY <2>1, <3>1, TempFacts
  <2>3. \A k \in DOMAIN dirs : dirs[k].live \in synced \cup {None}
    BY <2>1 DEF StoreInv, FileInv
  <2> QED  BY <2>2, <2>3 DEF Inv, StoreInv
<1> QED  BY <1>1, Storing, PTL

(* No power cut and no later save goes back before a save that was reported *)
(* and whose directory reached the disk.                                    *)
THEOREM SavesSurvive == ASSUME OneSaver PROVE Spec => []AckedSurvives
<1>1. StoreInv => AckedSurvives
  <2> SUFFICES ASSUME StoreInv, NEW x \in May PROVE x >= safe
    BY DEF AckedSurvives
  <2>1. PICK f \in Lives : x = Value(f)
    BY MayIsValues
  <2>2. safe <= Value(f) /\ safe \in Nat /\ Value(f) \in Nat
    <3>1. safe \in Nat
      BY DEF StoreInv, TypeOK, Version
    <3> QED  BY <3>1, Values DEF StoreInv, VersionInv, Version
  <2> QED  BY <2>1, <2>2
<1> QED  BY <1>1, Storing, PTL
----------------------------------------------------------------------------
(* The steps of the register are the rename, the directory reaching the     *)
(* disk, and the power cut; the rest of a save does not show.               *)
Latest == IF Dir.live = None THEN 0 ELSE Parsed(data[Dir.live])

LEMMA RegisterInit == StoreInv /\ Init => Store!Init
<1> SUFFICES ASSUME StoreInv, Init PROVE Store!Init
  OBVIOUS
<1>1. PICK l : dirs = <<[live |-> l, tmp |-> None, bak |-> None]>>
  BY DEF Init
<1>2. DOMAIN dirs = {1} /\ Len(dirs) = 1
  BY <1>1
<1>3. Lives = {Dir.live}
  BY <1>2 DEF Lives, Dir
<1>4. May = {Value(Dir.live)}
  BY <1>3, MayIsValues
<1>5. Value(Dir.live) \in Version
  BY <1>3, Values
<1> QED  BY <1>4, <1>5 DEF Store!Init, Value

LEMMA RegisterStep ==
  StoreInv /\ StoreInv' /\ [Next]_vars => [Store!Next]_<<May, Latest>>
<1> SUFFICES ASSUME StoreInv, StoreInv', [Next]_vars PROVE [Store!Next]_<<May, Latest>>
  OBVIOUS
<1>0. TypeOK /\ Dir.live \in Lives
  BY Directories DEF StoreInv
<1>1. May = {Value(f) : f \in Lives}
  BY MayIsValues
<1>2. May' = {Value(f)' : f \in Lives'}
  <2>1. \A f \in Lives' : Found(f)' = {Value(f)'}
    BY DEF StoreInv, FileInv, Found, Value
  <2>2. May' = UNION {Found(f)' : f \in Lives'}
    BY DEF May, Lives
  <2> QED  BY <2>1, <2>2
<1>3. PICK l \in Lives : l = Dir.live
  BY <1>0
<1>4. Latest = Value(l)
  BY <1>3 DEF Latest, Value
<1>5. PICK m : m = Dir'.live
  OBVIOUS
<1>6. Latest' = Value(m)'
  BY <1>5 DEF Latest, Value
<1>7. CASE Quiet
  <2>1. m = l /\ Lives' = Lives /\ \A f \in Lives : Value(f)' = Value(f)
    BY <1>3, <1>5, <1>7, QuietFiles DEF Quiet
  <2>2. May' = May /\ Latest' = Latest
    BY <1>1, <1>2, <1>3, <1>4, <1>6, <2>1
  <2> QED  BY <2>2
<1>8. ASSUME NEW t \in Thread, Rename(t), Dir.tmp # None PROVE Store!Save
  <2>1. m = Dir.tmp /\ Lives' = Lives \cup {m} /\ data' = data
    BY <1>5, <1>8, RenameDisk DEF Rename
  <2>2. \A f \in Lives : Value(f)' = Value(f)
    BY <2>1 DEF Value, Parsed
  <2>3. May' = May \cup {Latest'}
    BY <1>1, <1>2, <1>6, <2>1, <2>2
  <2>4. Latest' \in Version
    <3>1. m # None => data'[m] \in Version \cup {Bad}
      BY <2>1 DEF StoreInv, FileInv
    <3> QED  BY <1>6, <3>1, StoreAssumption DEF Value, Parsed, Version
  <2> QED  BY <2>3, <2>4 DEF Store!Save, Latest
<1>9. CASE Settle
  <2>1. m = l /\ Lives' = {l} /\ data' = data
    BY <1>0, <1>3, <1>5, <1>9, SettleDisk DEF Settle
  <2>2. Value(l)' = Value(l)
    BY <2>1 DEF Value, Parsed
  <2>3. May' = {Latest} /\ Latest' = Latest
    BY <1>2, <1>4, <1>6, <2>1, <2>2
  <2> QED  BY <2>3 DEF Store!Next, Store!Settle, Latest
<1>10. CASE PowerCut
  <2>1. PICK k \in DOMAIN dirs : dirs' = <<dirs[k]>>
    BY <1>10 DEF PowerCut
  <2>2. m \in Lives /\ Lives' = {m}
    BY <1>0, <1>5, <2>1, Shrunk
  <2>3. Value(m)' = Value(m)
    <3>1. m # None => m \in synced
      BY <2>2 DEF StoreInv, FileInv
    <3>2. \A f \in synced : data'[f] = data[f]
      BY <1>0, <1>10 DEF PowerCut, TypeOK
    <3> QED  BY <3>1, <3>2 DEF Value, Parsed
  <2>4. Latest' \in May /\ May' = {Latest'}
    BY <1>1, <1>2, <1>6, <2>2, <2>3
  <2> QED  BY <2>4 DEF Store!Next, Store!PowerCut, Latest
<1> QED  BY <1>7, <1>8, <1>9, <1>10, QuietSteps DEF Store!Next

(* Whatever fails, and whenever the power does, the file is a register that *)
(* holds one whole version.                                                 *)
THEOREM StoreImplemented == ASSUME OneSaver PROVE Spec => ImplementsStore
<1>1. StoreInv /\ Init => Store!Init
  BY RegisterInit
<1>2. StoreInv /\ StoreInv' /\ [Next]_vars => [Store!Next]_Store!vars
  BY RegisterStep DEF Store!vars, Latest
<1> QED  BY <1>1, <1>2, Storing, PTL DEF Spec, ImplementsStore, Store!Spec
====
