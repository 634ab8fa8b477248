---- MODULE TapProofs ----
(***************************************************************************)
(* What Tap promises its watchers and the device, proved for any number of *)
(* watchers, any publishers, any backlog and any traffic.  The invariant   *)
(* is IInv: the books of Tap, who may be in the lists, and where the halves*)
(* of a frame are.                                                         *)
(***************************************************************************)
EXTENDS Tap, FiniteSetTheorems, TLAPS

(* A watcher that has not subscribed has nothing in its books.              *)
Fresh(w) == watch[w] = "no" => /\ queue[w] = <<>>
                               /\ dropped[w] = 0 /\ took[w] = 0 /\ shown[w] = 0

(* The frame goes to everyone it is owed to: nobody is owed one but during  *)
(* a publish, and under the lock what is owed is still to be offered.       *)
OwedInv == /\ count = Cardinality(subs)
           /\ \A p \in Publisher :
                /\ owed[p] \subseteq subs
                /\ pc[p] \in {"idle", "writing"} => owed[p] = {}
                /\ pc[p] = "offering" => owed[p] \subseteq todo[p]

(* The device's write lock is held from the first half to the second.       *)
WireInv == /\ \A p \in Publisher : pc[p] = "writing" <=> out = p
           /\ out # None => wire = [by |-> out, half |-> 1]
           /\ out = None => wire.half = 2

IInv == /\ TypeOK /\ LockInv /\ OwedInv /\ WireInv
        /\ \A w \in Watcher : Books(w) /\ Fresh(w)
        /\ NoSilentLoss
----------------------------------------------------------------------------
(* A watcher's frame is pending exactly while its holder has it to offer.   *)
LEMMA PendingOfHolder ==
  ASSUME LockInv, NEW w \in Watcher
  PROVE  /\ holder = None => Pending(w) = 0
         /\ \A p \in Publisher : holder = p => Pending(w) = IF w \in todo[p] THEN 1 ELSE 0
<1>1. \A p \in Publisher : w \in todo[p] => holder = p
  BY DEF LockInv
<1>2. holder = None => Pending(w) = 0
  BY <1>1, TapAssumption DEF Pending
<1>3. ASSUME NEW p \in Publisher, holder = p
      PROVE  Pending(w) = IF w \in todo[p] THEN 1 ELSE 0
  BY <1>1, <1>3 DEF Pending
<1> QED  BY <1>2, <1>3

(* A tap that was just created has empty books, nobody in its lists and    *)
(* nothing half written.                                                   *)
LEMMA InitIInv == Init => IInv
<1> SUFFICES ASSUME Init PROVE IInv
  OBVIOUS
<1> USE TapAssumption DEF Init
<1>1. TypeOK
  BY DEF TypeOK
<1>2. LockInv
  BY DEF LockInv, In
<1>3. OwedInv
  BY FS_EmptySet DEF OwedInv
<1>4. WireInv
  BY DEF WireInv
<1>5. ASSUME NEW w \in Watcher PROVE Books(w) /\ Fresh(w)
  BY DEF Books, Fresh
<1>6. NoSilentLoss
  BY DEF NoSilentLoss
<1> QED  BY <1>1, <1>2, <1>3, <1>4, <1>5, <1>6 DEF IInv
----------------------------------------------------------------------------
(* Every step of a publisher or a watcher keeps the types.                 *)
LEMMA TypeStep == TypeOK /\ [Next]_vars => TypeOK'
<1> SUFFICES ASSUME TypeOK, [Next]_vars PROVE TypeOK'
  OBVIOUS
<1> USE TapAssumption DEF TypeOK
<1>0. \A S \in SUBSET Watcher : Cardinality(S) \in Nat
  BY FS_CardinalityType, FS_Subset
<1>1. ASSUME NEW p \in Publisher, Read(p) PROVE TypeOK'
  BY <1>1 DEF Read, Goto, Owe, In, watchVars, wireVars, subVars, pubVars
<1>2. ASSUME NEW p \in Publisher, Write(p) PROVE TypeOK'
  BY <1>2 DEF Write, WriteUnder, Goto, watchVars, wireVars, subVars, pubVars
<1>3. ASSUME NEW p \in Publisher, Written(p) PROVE TypeOK'
  BY <1>3 DEF Written, Goto, Owe, In, watchVars, wireVars, subVars, pubVars
<1>4. ASSUME NEW p \in Publisher, WriteFails(p) PROVE TypeOK'
  BY <1>4 DEF WriteFails, Goto, watchVars, wireVars, subVars, pubVars
<1>5. ASSUME NEW p \in Publisher, Skip(p) PROVE TypeOK'
  BY <1>5 DEF Skip, Goto, watchVars, wireVars, subVars, pubVars
<1>6. ASSUME NEW p \in Publisher, Look(p) PROVE TypeOK'
  BY <1>6 DEF Look, Goto, watchVars, wireVars, subVars, pubVars
<1>7. ASSUME NEW p \in Publisher, Lock(p) PROVE TypeOK'
  BY <1>7 DEF Lock, Goto, watchVars, wireVars, subVars, pubVars
<1>8. ASSUME NEW p \in Publisher, Unlock(p) PROVE TypeOK'
  BY <1>0, <1>8 DEF Unlock, Goto, watchVars, wireVars, subVars, pubVars
<1>9. ASSUME NEW p \in Publisher, NEW w \in Watcher, Offer(p, w) PROVE TypeOK'
  BY <1>9 DEF Offer, watchVars, wireVars, subVars, pubVars
<1>10. ASSUME NEW p \in Publisher, NEW w \in Watcher, Full(p, w) PROVE TypeOK'
  BY <1>10 DEF Full, FullIf, watchVars, wireVars, subVars, pubVars
<1>11. ASSUME NEW p \in Publisher, NEW w \in Watcher, CountDrop(p, w) PROVE TypeOK'
  BY <1>11 DEF CountDrop, CountDropAs, watchVars, wireVars, subVars, pubVars
<1>12. ASSUME NEW w \in Watcher, Subscribe(w) PROVE TypeOK'
  BY <1>0, <1>12 DEF Subscribe, SubscribeAs, watchVars, wireVars, subVars, pubVars
<1>13. ASSUME NEW w \in Watcher, Unsubscribe(w) PROVE TypeOK'
  <2>1. /\ subs' \subseteq Watcher /\ count' \in Nat
        /\ watch' \in [Watcher -> {"no", "in", "left"}]
    BY <1>0, <1>13 DEF Unsubscribe
  <2>2. owed' \in [Publisher -> SUBSET Watcher]
    BY <1>13 DEF Unsubscribe
  <2> QED  BY <1>13, <2>1, <2>2 DEF Unsubscribe, wireVars
<1>14. ASSUME NEW w \in Watcher, Receive(w) PROVE TypeOK'
  <2>1. Head(queue[w]) \in Nat /\ Tail(queue[w]) \in Seq(Nat)
    BY <1>14 DEF Receive
  <2>2. queue' \in [Watcher -> Seq(Nat)]
    BY <1>14, <2>1 DEF Receive
  <2>3. took' \in [Watcher -> Nat] /\ at' \in [Watcher -> Nat] /\ shown' \in [Watcher -> Nat]
    BY <1>14, <2>1 DEF Receive
  <2> QED  BY <1>14, <2>2, <2>3 DEF Receive, wireVars, subVars, pubVars
<1>15. CASE UNCHANGED vars
  BY <1>15 DEF vars, watchVars, wireVars, subVars, pubVars
<1> QED  BY <1>1, <1>2, <1>3, <1>4, <1>5, <1>6, <1>7, <1>8, <1>9, <1>10, <1>11, <1>12, <1>13, <1>14, <1>15 DEF Next, Publish

(* Only the publisher that holds the subscribers lock offers, and the list *)
(* does not change under it.                                               *)
LEMMA LockStep == TypeOK /\ LockInv /\ [Next]_vars => LockInv'
<1> SUFFICES ASSUME TypeOK, LockInv, [Next]_vars PROVE LockInv'
  OBVIOUS
<1> USE TapAssumption DEF TypeOK, LockInv, In
<1>1. ASSUME NEW p \in Publisher, Read(p) PROVE LockInv'
  BY <1>1 DEF Read, Goto, Owe, watchVars, wireVars, subVars, pubVars
<1>2. ASSUME NEW p \in Publisher, Write(p) PROVE LockInv'
  BY <1>2 DEF Write, WriteUnder, Goto, watchVars, wireVars, subVars, pubVars
<1>3. ASSUME NEW p \in Publisher, Written(p) PROVE LockInv'
  BY <1>3 DEF Written, Goto, Owe, watchVars, wireVars, subVars, pubVars
<1>4. ASSUME NEW p \in Publisher, WriteFails(p) PROVE LockInv'
  BY <1>4 DEF WriteFails, Goto, watchVars, wireVars, subVars, pubVars
<1>5. ASSUME NEW p \in Publisher, Skip(p) PROVE LockInv'
  BY <1>5 DEF Skip, Goto, watchVars, wireVars, subVars, pubVars
<1>6. ASSUME NEW p \in Publisher, Look(p) PROVE LockInv'
  BY <1>6 DEF Look, Goto, watchVars, wireVars, subVars, pubVars
<1>7. ASSUME NEW p \in Publisher, Lock(p) PROVE LockInv'
  BY <1>7 DEF Lock, Goto, watchVars, wireVars, subVars, pubVars
<1>8. ASSUME NEW p \in Publisher, Unlock(p) PROVE LockInv'
  BY <1>8 DEF Unlock, Goto, watchVars, wireVars, subVars, pubVars
<1>9. ASSUME NEW p \in Publisher, NEW w \in Watcher, Offer(p, w) PROVE LockInv'
  BY <1>9 DEF Offer, watchVars, wireVars, subVars, pubVars
<1>10. ASSUME NEW p \in Publisher, NEW w \in Watcher, Full(p, w) PROVE LockInv'
  BY <1>10 DEF Full, FullIf, watchVars, wireVars, subVars, pubVars
<1>11. ASSUME NEW p \in Publisher, NEW w \in Watcher, CountDrop(p, w) PROVE LockInv'
  BY <1>11 DEF CountDrop, CountDropAs, watchVars, wireVars, subVars, pubVars
<1>12. ASSUME NEW w \in Watcher, Subscribe(w) PROVE LockInv'
  BY <1>12 DEF Subscribe, SubscribeAs, watchVars, wireVars, subVars, pubVars
<1>13. ASSUME NEW w \in Watcher, Unsubscribe(w) PROVE LockInv'
  BY <1>13 DEF Unsubscribe, watchVars, wireVars, subVars, pubVars
<1>14. ASSUME NEW w \in Watcher, Receive(w) PROVE LockInv'
  BY <1>14 DEF Receive, watchVars, wireVars, subVars, pubVars
<1>15. CASE UNCHANGED vars
  BY <1>15 DEF vars, watchVars, wireVars, subVars, pubVars
<1> QED  BY <1>1, <1>2, <1>3, <1>4, <1>5, <1>6, <1>7, <1>8, <1>9, <1>10, <1>11, <1>12, <1>13, <1>14, <1>15 DEF Next, Publish

(* The stored count is that of the list, so a publish that finds 0 owes    *)
(* nobody; and what is owed under the lock is still on the holder's list.  *)
LEMMA OwedStep == TypeOK /\ LockInv /\ OwedInv /\ [Next]_vars => OwedInv'
<1> SUFFICES ASSUME TypeOK, LockInv, OwedInv, [Next]_vars PROVE OwedInv'
  OBVIOUS
<1> USE TapAssumption DEF TypeOK, LockInv, OwedInv, In
<1>1. ASSUME NEW p \in Publisher, Read(p) PROVE OwedInv'
  BY <1>1 DEF Read, Goto, Owe, watchVars, wireVars, subVars, pubVars
<1>2. ASSUME NEW p \in Publisher, Write(p) PROVE OwedInv'
  BY <1>2 DEF Write, WriteUnder, Goto, watchVars, wireVars, subVars, pubVars
<1>3. ASSUME NEW p \in Publisher, Written(p) PROVE OwedInv'
  BY <1>3 DEF Written, Goto, Owe, watchVars, wireVars, subVars, pubVars
<1>4. ASSUME NEW p \in Publisher, WriteFails(p) PROVE OwedInv'
  BY <1>4 DEF WriteFails, Goto, watchVars, wireVars, subVars, pubVars
<1>5. ASSUME NEW p \in Publisher, Skip(p) PROVE OwedInv'
  <2>1. IsFiniteSet(subs)
    BY FS_Subset
  <2>2. subs = {}
    <3>1. Cardinality(subs) = 0
      <4>1. count = 0
        BY <1>5 DEF Skip
      <4>2. count = Cardinality(subs)
        BY Zenon
      <4> QED  BY <4>1, <4>2
    <3>2. IsFiniteSet(subs) => (Cardinality(subs) = 0 <=> subs = {})
      BY FS_EmptySet
    <3> QED  BY <2>1, <3>1, <3>2
  <2> QED  BY <1>5, <2>2 DEF Skip, Goto, watchVars, wireVars, subVars, pubVars
<1>6. ASSUME NEW p \in Publisher, Look(p) PROVE OwedInv'
  BY <1>6 DEF Look, Goto, watchVars, wireVars, subVars, pubVars
<1>7. ASSUME NEW p \in Publisher, Lock(p) PROVE OwedInv'
  BY <1>7 DEF Lock, Goto, watchVars, wireVars, subVars, pubVars
<1>8. ASSUME NEW p \in Publisher, Unlock(p) PROVE OwedInv'
  BY <1>8 DEF Unlock, Goto, watchVars, wireVars, subVars, pubVars
<1>9. ASSUME NEW p \in Publisher, NEW w \in Watcher, Offer(p, w) PROVE OwedInv'
  BY <1>9 DEF Offer, watchVars, wireVars, subVars, pubVars
<1>10. ASSUME NEW p \in Publisher, NEW w \in Watcher, Full(p, w) PROVE OwedInv'
  BY <1>10 DEF Full, FullIf, watchVars, wireVars, subVars, pubVars
<1>11. ASSUME NEW p \in Publisher, NEW w \in Watcher, CountDrop(p, w) PROVE OwedInv'
  BY <1>11 DEF CountDrop, CountDropAs, watchVars, wireVars, subVars, pubVars
<1>12. ASSUME NEW w \in Watcher, Subscribe(w) PROVE OwedInv'
  BY <1>12 DEF Subscribe, SubscribeAs, watchVars, wireVars, subVars, pubVars
<1>13. ASSUME NEW w \in Watcher, Unsubscribe(w) PROVE OwedInv'
  BY <1>13 DEF Unsubscribe, watchVars, wireVars, subVars, pubVars
<1>14. ASSUME NEW w \in Watcher, Receive(w) PROVE OwedInv'
  BY <1>14 DEF Receive, watchVars, wireVars, subVars, pubVars
<1>15. CASE UNCHANGED vars
  BY <1>15 DEF vars, watchVars, wireVars, subVars, pubVars
<1> QED  BY <1>1, <1>2, <1>3, <1>4, <1>5, <1>6, <1>7, <1>8, <1>9, <1>10, <1>11, <1>12, <1>13, <1>14, <1>15 DEF Next, Publish

(* The write lock of the device is held from the first half of a frame to  *)
(* the second, whichever thread writes.                                    *)
LEMMA WireStep == TypeOK /\ WireInv /\ [Next]_vars => WireInv'
<1> SUFFICES ASSUME TypeOK, WireInv, [Next]_vars PROVE WireInv'
  OBVIOUS
<1> USE TapAssumption DEF TypeOK, WireInv
<1>1. ASSUME NEW p \in Publisher, Read(p) PROVE WireInv'
  BY <1>1 DEF Read, Goto, Owe, watchVars, wireVars, subVars, pubVars
<1>2. ASSUME NEW p \in Publisher, Write(p) PROVE WireInv'
  BY <1>2 DEF Write, WriteUnder, Goto, watchVars, wireVars, subVars, pubVars
<1>3. ASSUME NEW p \in Publisher, Written(p) PROVE WireInv'
  BY <1>3 DEF Written, Goto, Owe, watchVars, wireVars, subVars, pubVars
<1>4. ASSUME NEW p \in Publisher, WriteFails(p) PROVE WireInv'
  BY <1>4 DEF WriteFails, Goto, watchVars, wireVars, subVars, pubVars
<1>5. ASSUME NEW p \in Publisher, Skip(p) PROVE WireInv'
  BY <1>5 DEF Skip, Goto, watchVars, wireVars, subVars, pubVars
<1>6. ASSUME NEW p \in Publisher, Look(p) PROVE WireInv'
  BY <1>6 DEF Look, Goto, watchVars, wireVars, subVars, pubVars
<1>7. ASSUME NEW p \in Publisher, Lock(p) PROVE WireInv'
  BY <1>7 DEF Lock, Goto, watchVars, wireVars, subVars, pubVars
<1>8. ASSUME NEW p \in Publisher, Unlock(p) PROVE WireInv'
  BY <1>8 DEF Unlock, Goto, watchVars, wireVars, subVars, pubVars
<1>9. ASSUME NEW p \in Publisher, NEW w \in Watcher, Offer(p, w) PROVE WireInv'
  BY <1>9 DEF Offer, watchVars, wireVars, subVars, pubVars
<1>10. ASSUME NEW p \in Publisher, NEW w \in Watcher, Full(p, w) PROVE WireInv'
  BY <1>10 DEF Full, FullIf, watchVars, wireVars, subVars, pubVars
<1>11. ASSUME NEW p \in Publisher, NEW w \in Watcher, CountDrop(p, w) PROVE WireInv'
  BY <1>11 DEF CountDrop, CountDropAs, watchVars, wireVars, subVars, pubVars
<1>12. ASSUME NEW w \in Watcher, Subscribe(w) PROVE WireInv'
  BY <1>12 DEF Subscribe, SubscribeAs, watchVars, wireVars, subVars, pubVars
<1>13. ASSUME NEW w \in Watcher, Unsubscribe(w) PROVE WireInv'
  BY <1>13 DEF Unsubscribe, watchVars, wireVars, subVars, pubVars
<1>14. ASSUME NEW w \in Watcher, Receive(w) PROVE WireInv'
  BY <1>14 DEF Receive, watchVars, wireVars, subVars, pubVars
<1>15. CASE UNCHANGED vars
  BY <1>15 DEF vars, watchVars, wireVars, subVars, pubVars
<1> QED  BY <1>1, <1>2, <1>3, <1>4, <1>5, <1>6, <1>7, <1>8, <1>9, <1>10, <1>11, <1>12, <1>13, <1>14, <1>15 DEF Next, Publish

----------------------------------------------------------------------------
(* The books of one watcher, and what its browser was told.                 *)
Account(w) == /\ Books(w) /\ Fresh(w)
              /\ at[w] - base[w] - took[w] <= shown[w]

(* The values a watcher's account is made of are numbers, which the        *)
(* arithmetic below needs said.                                            *)
LEMMA AccountTypes ==
  ASSUME TypeOK, NEW w \in Watcher
  PROVE  /\ queue[w] \in Seq(Nat) /\ Len(queue[w]) \in Nat
         /\ \A j \in 1..Len(queue[w]) : queue[w][j] \in Nat
         /\ dropped[w] \in Nat /\ took[w] \in Nat /\ base[w] \in Nat /\ serial \in Nat
         /\ at[w] \in Nat /\ shown[w] \in Nat
<1>1. queue[w] \in Seq(Nat)
  BY DEF TypeOK
<1> QED  BY <1>1 DEF TypeOK

(* Nothing a watcher's account is made of changes.                          *)
LEMMA AccountKept ==
  ASSUME NEW w \in Watcher, Account(w),
         serial' = serial, queue'[w] = queue[w], dropped'[w] = dropped[w], watch'[w] = watch[w],
         base'[w] = base[w], took'[w] = took[w], at'[w] = at[w], shown'[w] = shown[w],
         Pending(w)' = Pending(w)
  PROVE  Account(w)'
  BY DEF Account, Books, Fresh

(* While p holds the lock and has w left to offer, nobody else has.         *)
LEMMA OnlyHolderOwes ==
  ASSUME TypeOK, LockInv, NEW p \in Publisher, NEW w \in Watcher, w \in todo[p],
         todo' = [todo EXCEPT ![p] = @ \ {w}], NEW v \in Watcher
  PROVE  /\ Pending(w) = 1 /\ Pending(w)' = 0
         /\ v # w => Pending(v)' = Pending(v)
<1>1. \A q \in Publisher : w \in todo[q] => q = p
  BY DEF LockInv
<1>2. \A q \in Publisher : todo'[q] = IF q = p THEN todo[p] \ {w} ELSE todo[q]
  BY DEF TypeOK
<1>3. \A q \in Publisher : w \notin todo'[q]
  BY <1>1, <1>2
<1>4. v # w => \A q \in Publisher : v \in todo'[q] <=> v \in todo[q]
  BY <1>2
<1> QED  BY <1>3, <1>4 DEF Pending

(* A frame has its turn: it becomes pending for each subscriber.           *)
LEMMA LockAccount ==
  ASSUME TypeOK, LockInv, NEW p \in Publisher, Lock(p), NEW v \in Watcher, Account(v)
  PROVE  Account(v)'
<1>1. watch[v] = "in" => Pending(v)' = 1
  BY DEF Lock, Pending, LockInv, In, TypeOK
<1>2. Pending(v) = 0
  BY PendingOfHolder DEF Lock
<1> QED  BY <1>1, <1>2 DEF Lock, Account, Books, Fresh, watchVars, TypeOK

(* A frame is put into a watcher's channel: no longer pending, it waits,   *)
(* and the drop count covers what is missing before it.                    *)
LEMMA OfferAccount ==
  ASSUME TypeOK, LockInv, NEW p \in Publisher, NEW w \in Watcher, Offer(p, w),
         NEW v \in Watcher, Account(v)
  PROVE  Account(v)'
<1>t. dropped[w] \in Nat /\ took[w] \in Nat /\ base[w] \in Nat /\ serial \in Nat
  BY AccountTypes
<1>e. /\ w \in todo[p] /\ todo' = [todo EXCEPT ![p] = @ \ {w}]
      /\ queue' = [queue EXCEPT ![w] = Append(@, serial)]
      /\ serial' = serial /\ dropped' = dropped /\ watch' = watch /\ base' = base
      /\ took' = took /\ at' = at /\ shown' = shown
  BY DEF Offer, watchVars, subVars
<1>1. CASE v # w
  <2>1. Pending(v)' = Pending(v)
    BY <1>1, <1>e, OnlyHolderOwes
  <2> QED  BY <1>1, <1>e, <2>1, AccountKept DEF TypeOK
<1>2. CASE v = w
  <2>1. watch[w] = "in"
    BY <1>e DEF LockInv, In
  <2>2. Pending(w) = 1 /\ Pending(w)' = 0
    BY <1>e, OnlyHolderOwes
  <2>3. queue'[w] = Append(queue[w], serial)
    BY <1>e DEF TypeOK
  <2>4. PICK n \in Nat : n = Len(queue[w])
    BY AccountTypes
  <2>5. /\ Len(queue'[w]) = n + 1
        /\ \A j \in 1..n : queue'[w][j] = queue[w][j]
        /\ queue'[w][n + 1] = serial
    BY <2>3, <2>4, AccountTypes
  <2>6. serial - base[w] = dropped[w] + n + took[w] + 1
    BY <1>2, <2>1, <2>2, <2>4 DEF Account, Books
  <2>10. \A j \in 1..n : queue[w][j] - base[w] - (took[w] + j) <= dropped[w]
    BY <1>2, <2>1, <2>4 DEF Account, Books
  <2>7. serial - base[w] = dropped[w] + (n + 1) + took[w] + 0
    BY <1>t, <2>6
  <2>8. ASSUME NEW j \in 1..(n + 1)
        PROVE  queue'[w][j] - base[w] - (took[w] + j) <= dropped[w]
    <3>1. CASE j = n + 1
      <4>1. queue'[w][j] = serial
        BY <2>5, <3>1
      <4>2. serial - base[w] - (took[w] + (n + 1)) <= dropped[w]
        BY <1>t, <2>6
      <4> QED  BY <3>1, <4>1, <4>2
    <3>2. CASE j \in 1..n
      BY <2>5, <2>10, <3>2
    <3> QED  BY <3>1, <3>2
  <2>9. Books(w)'
    BY <1>e, <2>2, <2>5, <2>7, <2>8 DEF Books
  <2> QED  BY <1>2, <1>e, <2>1, <2>9 DEF Account, Fresh
<1> QED  BY <1>1, <1>2

(* A frame that found a full channel is counted as dropped.                *)
LEMMA CountDropAccount ==
  ASSUME TypeOK, LockInv, NEW p \in Publisher, NEW w \in Watcher, CountDrop(p, w),
         NEW v \in Watcher, Account(v)
  PROVE  Account(v)'
<1>t. dropped[w] \in Nat /\ took[w] \in Nat /\ base[w] \in Nat /\ serial \in Nat
  BY AccountTypes
<1>e. /\ full[p] = w /\ todo' = [todo EXCEPT ![p] = @ \ {w}]
      /\ dropped' = [dropped EXCEPT ![w] = @ + 1]
      /\ serial' = serial /\ queue' = queue /\ watch' = watch /\ base' = base
      /\ took' = took /\ at' = at /\ shown' = shown
  BY DEF CountDrop, CountDropAs, watchVars, subVars
<1>0. w \in todo[p]
  BY <1>e, TapAssumption DEF LockInv, TypeOK
<1>1. CASE v # w
  <2>1. Pending(v)' = Pending(v)
    BY <1>0, <1>1, <1>e, OnlyHolderOwes
  <2> QED  BY <1>1, <1>e, <2>1, AccountKept DEF TypeOK
<1>2. CASE v = w
  <2>1. watch[w] = "in"
    BY <1>0 DEF LockInv, In
  <2>2. Pending(w) = 1 /\ Pending(w)' = 0
    BY <1>0, <1>e, OnlyHolderOwes
  <2>3. dropped'[w] = dropped[w] + 1
    BY <1>e DEF TypeOK
  <2>4. PICK n \in Nat : n = Len(queue[w])
    BY AccountTypes
  <2>5. /\ serial - base[w] = dropped[w] + n + took[w] + 1
        /\ \A j \in 1..n : queue[w][j] - base[w] - (took[w] + j) <= dropped[w]
    BY <1>2, <2>1, <2>2, <2>4 DEF Account, Books
  <2>6. serial - base[w] = dropped'[w] + n + took[w] + 0
    BY <2>3, <2>5, AccountTypes
  <2>7. ASSUME NEW j \in 1..n
        PROVE  queue[w][j] - base[w] - (took[w] + j) <= dropped'[w]
    <3>1. queue[w][j] \in Nat
      BY <2>4, AccountTypes
    <3>2. queue[w][j] - base[w] - (took[w] + j) <= dropped[w]
      BY <2>5
    <3> QED  BY <1>t, <2>3, <3>1, <3>2
  <2>8. Books(w)'
    BY <1>e, <2>2, <2>4, <2>6, <2>7 DEF Books
  <2>9. (at[w] - base[w] - took[w] <= shown[w])'
    BY <1>2, <1>e, <2>3, AccountTypes DEF Account
  <2> QED  BY <1>2, <1>e, <2>1, <2>8, <2>9 DEF Account, Fresh
<1> QED  BY <1>1, <1>2

(* A new watcher's books open at the frame that had its turn last.         *)
LEMMA SubscribeAccount ==
  ASSUME TypeOK, LockInv, NEW w \in Watcher, Subscribe(w), NEW v \in Watcher, Account(v)
  PROVE  Account(v)'
<1> USE DEF Subscribe, SubscribeAs, pubVars
<1>0. Pending(v) = 0 /\ Pending(v)' = 0
  BY PendingOfHolder DEF Pending
<1>1. CASE v # w
  BY <1>0, <1>1, AccountKept DEF TypeOK
<1>2. CASE v = w
  BY <1>0, <1>2 DEF Account, Books, Fresh, TypeOK
<1> QED  BY <1>1, <1>2

(* A watcher that leaves has no books to keep.                             *)
LEMMA UnsubscribeAccount ==
  ASSUME TypeOK, NEW w \in Watcher, Unsubscribe(w), NEW v \in Watcher, Account(v)
  PROVE  Account(v)'
<1>0. Pending(v)' = Pending(v)
  BY DEF Unsubscribe, Pending
<1> QED  BY <1>0 DEF Unsubscribe, Account, Books, Fresh, TypeOK

(* The watcher takes the first frame of its channel and shows the browser  *)
(* the drop count read after it.                                           *)
LEMMA ReceiveAccount ==
  ASSUME TypeOK, NEW w \in Watcher, Receive(w), NEW v \in Watcher, Account(v)
  PROVE  Account(v)'
<1>t. dropped[w] \in Nat /\ took[w] \in Nat /\ base[w] \in Nat /\ serial \in Nat
  BY AccountTypes
<1>e. /\ watch[w] = "in" /\ queue[w] # <<>>
      /\ queue' = [queue EXCEPT ![w] = Tail(@)]
      /\ took' = [took EXCEPT ![w] = @ + 1]
      /\ at' = [at EXCEPT ![w] = Head(queue[w])]
      /\ shown' = [shown EXCEPT ![w] = dropped[w]]
      /\ serial' = serial /\ dropped' = dropped /\ watch' = watch /\ base' = base
      /\ todo' = todo
  BY DEF Receive, subVars, pubVars
<1>0. Pending(v)' = Pending(v)
  BY <1>e DEF Pending
<1>1. CASE v # w
  BY <1>0, <1>1, <1>e, AccountKept DEF TypeOK
<1>2. CASE v = w
  <2>1. /\ watch[w] = "in" /\ watch' = watch /\ serial' = serial /\ base' = base
        /\ dropped' = dropped /\ queue'[w] = Tail(queue[w])
        /\ took'[w] = took[w] + 1 /\ shown'[w] = dropped[w] /\ at'[w] = Head(queue[w])
    BY <1>e DEF TypeOK
  <2>2. PICK n \in Nat : Len(queue[w]) = n + 1
    <3>1. Len(queue[w]) \in Nat /\ Len(queue[w]) > 0
      BY <1>e, AccountTypes
    <3> QED  BY <3>1
  <2>3. /\ Len(queue'[w]) = n
        /\ \A j \in 1..n : queue'[w][j] = queue[w][j + 1]
        /\ at'[w] = queue[w][1]
    BY <2>1, <2>2, AccountTypes
  <2>4. PICK k \in Nat : k = Pending(w)
    BY DEF Pending
  <2>5. /\ serial - base[w] = dropped[w] + (n + 1) + took[w] + k
        /\ \A j \in 1..(n + 1) : queue[w][j] - base[w] - (took[w] + j) <= dropped[w]
    BY <1>2, <2>1, <2>2, <2>4 DEF Account, Books
  <2>6. serial - base[w] = dropped[w] + n + took'[w] + k
    <3>1. serial - base[w] = dropped[w] + (n + 1) + took[w] + k
      BY <2>5
    <3> QED  BY <1>t, <2>1, <3>1
  <2>7. \A j \in 1..(n + 1) : queue[w][j] \in Nat
    BY <2>2, AccountTypes
  <2>8. ASSUME NEW j \in 1..n
        PROVE  queue'[w][j] - base[w] - (took'[w] + j) <= dropped[w]
    <3>1. PICK x \in Nat : x = queue[w][j + 1]
      BY <2>7
    <3>2. x - base[w] - (took[w] + (j + 1)) <= dropped[w]
      BY <2>5, <3>1
    <3>3. x - base[w] - ((took[w] + 1) + j) <= dropped[w]
      BY <3>2, AccountTypes
    <3> QED  BY <2>1, <2>3, <3>1, <3>3
  <2>9. Books(w)'
    BY <1>0, <1>2, <2>1, <2>3, <2>4, <2>6, <2>8 DEF Books
  <2>10. (at[w] - base[w] - took[w] <= shown[w])'
    <3>1. PICK x \in Nat : x = queue[w][1]
      BY <2>7
    <3>2. x - base[w] - (took[w] + 1) <= dropped[w]
      BY <2>5, <3>1
    <3> QED  BY <2>1, <2>3, <3>1, <3>2
  <2> QED  BY <1>2, <2>1, <2>9, <2>10 DEF Account, Fresh
<1> QED  BY <1>1, <1>2

(* Steps that leave every account alone.                                    *)
LEMMA QuietAccount ==
  ASSUME TypeOK, NEW v \in Watcher, Account(v),
         UNCHANGED <<serial, queue, dropped, watchVars, todo>>
  PROVE  Account(v)'
<1>1. Pending(v)' = Pending(v)
  BY DEF Pending
<1> QED  BY <1>1, AccountKept DEF watchVars

(* Every step keeps the account of every watcher.                          *)
LEMMA AccountStep ==
  ASSUME TypeOK, LockInv, [Next]_vars, NEW v \in Watcher, Account(v)
  PROVE  Account(v)'
<1>1. ASSUME NEW p \in Publisher,
             Read(p) \/ Write(p) \/ Written(p) \/ WriteFails(p) \/ Skip(p) \/ Look(p) \/ Unlock(p)
      PROVE  Account(v)'
  BY <1>1, QuietAccount DEF Read, Write, WriteUnder, Written, WriteFails, Skip, Look, Unlock, subVars
<1>2. ASSUME NEW p \in Publisher, NEW w \in Watcher, Full(p, w) PROVE Account(v)'
  BY <1>2, QuietAccount DEF Full, FullIf, subVars
<1>3. ASSUME NEW p \in Publisher, Lock(p) PROVE Account(v)'
  BY <1>3, LockAccount
<1>4. ASSUME NEW p \in Publisher, NEW w \in Watcher, Offer(p, w) PROVE Account(v)'
  BY <1>4, OfferAccount
<1>5. ASSUME NEW p \in Publisher, NEW w \in Watcher, CountDrop(p, w) PROVE Account(v)'
  BY <1>5, CountDropAccount
<1>6. ASSUME NEW w \in Watcher, Subscribe(w) PROVE Account(v)'
  BY <1>6, SubscribeAccount
<1>7. ASSUME NEW w \in Watcher, Unsubscribe(w) PROVE Account(v)'
  BY <1>7, UnsubscribeAccount
<1>8. ASSUME NEW w \in Watcher, Receive(w) PROVE Account(v)'
  BY <1>8, ReceiveAccount
<1>9. CASE UNCHANGED vars
  BY <1>9, QuietAccount DEF vars, subVars, pubVars
<1> QED  BY <1>1, <1>2, <1>3, <1>4, <1>5, <1>6, <1>7, <1>8, <1>9 DEF Next, Publish
----------------------------------------------------------------------------
(* IInv is inductive.                                                      *)
LEMMA IInvStep == IInv /\ [Next]_vars => IInv'
<1> SUFFICES ASSUME IInv, [Next]_vars PROVE IInv'
  OBVIOUS
<1>1. TypeOK' /\ LockInv' /\ OwedInv' /\ WireInv'
  BY TypeStep, LockStep, OwedStep, WireStep DEF IInv
<1>2. ASSUME NEW w \in Watcher PROVE Account(w)'
  <2>1. Account(w)
    BY DEF IInv, Account, NoSilentLoss
  <2> QED  BY <2>1, AccountStep DEF IInv
<1>3. \A w \in Watcher : Books(w)' /\ Fresh(w)'
  BY <1>2 DEF Account
<1>4. NoSilentLoss'
  BY <1>2 DEF Account, NoSilentLoss
<1> QED  BY <1>1, <1>3, <1>4 DEF IInv

(* IInv holds for any number of watchers and publishers, any backlog and   *)
(* any traffic.                                                            *)
THEOREM Invariance == Spec => []IInv
<1> QED  BY InitIInv, IInvStep, PTL DEF Spec

(* Inv of Tap: types, who is in the lists, the books of every watcher.      *)
THEOREM TapInvariant == Spec => []Inv
<1>1. IInv => Inv
  BY DEF IInv, Inv
<1> QED  BY <1>1, Invariance, PTL

(* However the frames of several publishers, drops and receptions           *)
(* interleave, a browser that is shown a frame has been told of every frame *)
(* it missed before it.                                                     *)
THEOREM LossIsShown == Spec => []NoSilentLoss
<1>1. IInv => NoSilentLoss
  BY DEF IInv
<1> QED  BY <1>1, Invariance, PTL

(* The count read without the lock never makes publish pass over a watcher  *)
(* that was there before.                                                   *)
THEOREM NobodyIsOverlooked == Spec => []NobodyOverlooked
<1>1. IInv => NobodyOverlooked
  BY DEF IInv, OwedInv, NobodyOverlooked
<1> QED  BY <1>1, Invariance, PTL

(* A frame reaches the device in one piece: between its halves nothing else *)
(* is written.                                                              *)
THEOREM FramesAreWhole == Spec => WholeFrames
<1>1. ASSUME IInv, [Next]_vars
      PROVE  wire' # wire => (wire'.half = 2 <=> wire = [by |-> wire'.by, half |-> 1])
  <2>0. WireInv
    BY <1>1 DEF IInv
  <2>1. ASSUME NEW p \in Publisher, Write(p)
        PROVE  wire'.half = 2 <=> wire = [by |-> wire'.by, half |-> 1]
    <3>1. wire.half = 2 /\ wire' = [by |-> p, half |-> 1]
      <4>1. p # None /\ out = None /\ wire' = [by |-> p, half |-> 1]
        BY <2>1, TapAssumption DEF Write, WriteUnder
      <4> QED  BY <2>0, <4>1 DEF WireInv
    <3>2. wire'.half = 1 /\ wire'.by = p
      BY <3>1
    <3>3. wire # [by |-> p, half |-> 1]
      BY <3>1
    <3> QED  BY <3>2, <3>3
  <2>2. ASSUME NEW p \in Publisher, Written(p) \/ WriteFails(p)
        PROVE  wire'.half = 2 <=> wire = [by |-> wire'.by, half |-> 1]
    <3>1. wire = [by |-> p, half |-> 1] /\ wire' = [by |-> p, half |-> 2]
      <4>1. p # None /\ pc[p] = "writing" /\ wire' = [by |-> p, half |-> 2]
        BY <2>2, TapAssumption DEF Written, WriteFails, Goto
      <4> QED  BY <2>0, <4>1 DEF WireInv
    <3>2. wire'.half = 2 /\ wire'.by = p
      BY <3>1
    <3> QED  BY <3>1, <3>2
  <2>3. \/ wire' = wire
        \/ \E p \in Publisher : Write(p) \/ Written(p) \/ WriteFails(p)
    BY <1>1, ZenonT(60) DEF Next, Publish, vars, wireVars, watchVars, pubVars, subVars, Read, Skip, Look, Lock,
             Unlock, Offer, Full, FullIf, CountDrop, CountDropAs, Subscribe, SubscribeAs,
             Unsubscribe, Receive
  <2> QED  BY <2>1, <2>2, <2>3
<1> QED  BY <1>1, Invariance, PTL DEF Spec, WholeFrames
====
