-------------------------- MODULE FileCache_proofs --------------------------
(* Proofs of the safety properties of FileCache.                           *)
EXTENDS FileCache, FiniteSetTheorems, TLAPS

(* What the types of the local variables leave out: a handler that serves  *)
(* a request has a path, and one that has read its file has a buffer (when *)
(* the cache has been freed, any address will do for one).                 *)
LocalOK ==
  \A h \in Handler :
    /\ pc[h] \notin {"idle", "exiting"} => req[h] \in Path
    /\ Intact /\ pc[h] \in {"insert", "store", "send"} => buf[h] \in Block

TypeInv == TypeOK /\ LocalOK

(* free() never makes a block live.                                        *)
LEMMA FreedShrinks ==
  ASSUME NEW b, NEW L \in Freed(b)
  PROVE  L \subseteq live /\ b \notin L
BY DEF Freed

(* Closing the gap keeps the sequence's length and its elements' type.     *)
LEMMA MovedDownType ==
  ASSUME entries \in Seq(Slot), NEW i \in DOMAIN entries
  PROVE  /\ MovedDown(i) \in Seq(Slot)
         /\ Len(MovedDown(i)) = Len(entries)
         /\ DOMAIN MovedDown(i) = DOMAIN entries
<1> DEFINE n == Len(entries)
<1>1. n \in Nat /\ DOMAIN entries = 1 .. n
  OBVIOUS
<1>2. \A j \in 1 .. n : MovedDown(i)[j] \in Slot
  BY <1>1 DEF MovedDown
<1>3. MovedDown(i) \in [1 .. n -> Slot]
  BY <1>1, <1>2 DEF MovedDown
<1> QED
  BY <1>1, <1>3

(* Storing a file keeps the sequence of entries well-typed.                *)
LEMMA StoredType ==
  ASSUME entries \in Seq(Slot), NEW e \in Slot
  PROVE  /\ Append(entries, e) \in Seq(Slot)
         /\ Len(Append(entries, e)) = Len(entries) + 1
         /\ entries # <<>> =>
              /\ Append(Tail(entries), e) \in Seq(Slot)
              /\ Len(Append(Tail(entries), e)) = Len(entries)
OBVIOUS

(* cache_new leaves a well-typed state.                                    *)
LEMMA TypeInit == Init => TypeInv
<1> SUFFICES ASSUME Init PROVE TypeInv
  OBVIOUS
<1> USE ParameterAssumption DEF Init
<1>1. 0 \in Version
  BY DEF Version
<1>2. disk \in [Path -> [exists : BOOLEAN, version : Version]]
  BY <1>1
<1>3. heap \in [Block -> [path : Path \cup {None}, version : Version]]
  BY <1>1
<1>4. entries \in Seq(Slot) /\ Len(entries) <= Capacity /\ waiters \in Seq(Handler)
  OBVIOUS
<1>5. sent \in [Handler -> 0 .. Chunks]
  OBVIOUS
<1>6. TypeOK
  BY <1>1, <1>2, <1>3, <1>4, <1>5 DEF TypeOK, Label
<1> QED
  BY <1>6 DEF TypeInv, LocalOK

(* The helpers of the actions keep what they change well-typed.            *)
LEMMA GotoType ==
  ASSUME TypeOK, NEW h \in Handler, NEW l \in Label, Goto(h, l)
  PROVE  /\ pc' \in [Handler -> Label]
         /\ pc'[h] = l
         /\ \A g \in Handler \ {h} : pc'[g] = pc[g]
BY DEF TypeOK, Goto

(* Ending a request keeps the types of the handler's locals.               *)
LEMMA FinishType ==
  ASSUME TypeOK, NEW h \in Handler, Finish(h)
  PROVE  /\ pc' \in [Handler -> Label]
         /\ pc'[h] = "idle"
         /\ req' \in [Handler -> Path \cup {None}]
         /\ seen' \in [Handler -> Version]
         /\ buf' \in [Handler -> Block \cup {None}]
         /\ sent' \in [Handler -> 0 .. Chunks]
         /\ cpu' = Main
         /\ \A g \in Handler \ {h} :
              pc'[g] = pc[g] /\ req'[g] = req[g] /\ buf'[g] = buf[g]
                /\ seen'[g] = seen[g]
<1>1. pc' \in [Handler -> Label] /\ pc'[h] = "idle"
  BY GotoType DEF Finish, Label
<1>2. 0 \in Version /\ 0 \in 0 .. Chunks
  BY ParameterAssumption DEF Version
<1> QED
  BY <1>1, <1>2 DEF TypeOK, Finish, Goto

(* Joining the list of the mutex keeps it a sequence of handlers.          *)
LEMMA WaitersType ==
  ASSUME TypeOK
  PROVE  /\ \A h \in Handler : Append(waiters, h) \in Seq(Handler)
         /\ waiters # <<>> => Tail(waiters) \in Seq(Handler)
<1>1. waiters \in Seq(Handler)
  BY DEF TypeOK
<1> QED
  BY <1>1

(* gtmutex_lock keeps the types of the lock, its list and the CPU.         *)
LEMMA LockType ==
  ASSUME TypeOK, NEW h \in Handler, NEW l \in Label, Lock(h, l)
  PROVE  /\ lock' \in BOOLEAN /\ waiters' \in Seq(Handler)
         /\ cpu' \in Handler \cup {Main}
         /\ Goto(h, l)
BY WaitersType DEF TypeOK, Lock

(* gtmutex_unlock keeps the types of the lock and its list.                *)
LEMMA UnlockType ==
  ASSUME TypeOK, Unlock
  PROVE  lock' \in BOOLEAN /\ waiters' \in Seq(Handler)
BY WaitersType DEF TypeOK, Unlock

(* An entry of the cache is a record that points to a block.               *)
LEMMA EntryType ==
  ASSUME TypeOK, NEW i \in DOMAIN entries
  PROVE  entries[i] \in Slot /\ entries[i].blk \in Block /\ entries[i].mtime \in Nat
<1>1. entries[i] \in Slot
  BY DEF TypeOK
<1> QED
  BY <1>1 DEF Slot

(* Every step of handlers, file system and signals keeps the types.        *)
LEMMA TypeStep == TypeInv /\ [Next]_vars => TypeInv'
<1> SUFFICES ASSUME TypeOK, LocalOK, [Next]_vars
             PROVE  TypeOK' /\ LocalOK'
  BY DEF TypeInv
<1> USE DEF memory, mutex, local, Inside, Intact, Running
<1>1. ASSUME NEW h \in Handler, NEW p \in Path, Begin(h, p)
      PROVE  TypeOK' /\ LocalOK'
  <2>1. /\ pc' \in [Handler -> Label] /\ pc'[h] \in {"stat", "descriptor", "stuck"}
        /\ \A g \in Handler \ {h} : pc'[g] = pc[g]
    <3>1. {"stat", "descriptor", "stuck"} \subseteq Label
      BY DEF Label
    <3> QED
      BY <1>1, <3>1, GotoType DEF Begin
  <2>8. TypeOK'
    BY <1>1, <2>1 DEF TypeOK, Begin
  <2> QED
    BY <1>1, <2>1, <2>8 DEF TypeOK, LocalOK, Begin, At
<1>2. ASSUME NEW h \in Handler, Resume(h)
      PROVE  TypeOK' /\ LocalOK'
  BY <1>2 DEF Resume, TypeOK, LocalOK
<1>3. ASSUME NEW h \in Handler, Stat(h)
      PROVE  TypeOK' /\ LocalOK'
  <2>1. req[h] \in Path /\ disk[req[h]].version \in Version
    BY <1>3 DEF Stat, At, LocalOK, TypeOK
  <2>2. CASE disk[req[h]].exists
    <3>1. /\ pc' \in [Handler -> Label] /\ pc'[h] = "lookup"
          /\ \A g \in Handler \ {h} : pc'[g] = pc[g]
      BY <1>3, <2>2, GotoType DEF Stat, Label
    <3>2. TypeOK'
      BY <1>3, <2>1, <2>2, <3>1 DEF TypeOK, Stat
    <3> QED
      BY <1>3, <2>1, <2>2, <3>1, <3>2 DEF LocalOK, Stat
  <2>3. CASE ~disk[req[h]].exists
    BY <1>3, <2>3, FinishType DEF TypeOK, LocalOK, Stat
  <2> QED
    BY <2>2, <2>3
<1>4. ASSUME NEW h \in Handler, LockForLookup(h)
      PROVE  TypeOK' /\ LocalOK'
  <2>1. Lock(h, "find") /\ "find" \in Label
    BY <1>4 DEF LockForLookup, Label
  <2>2. pc' \in [Handler -> Label] /\ pc'[h] = "find" /\ \A g \in Handler \ {h} : pc'[g] = pc[g]
    BY <2>1, LockType, GotoType
  <2>3. TypeOK'
    BY <1>4, <2>1, <2>2, LockType DEF TypeOK, LockForLookup
  <2> QED
    BY <1>4, <2>2, <2>3 DEF LockForLookup, At, LocalOK
<1>5. ASSUME NEW h \in Handler, NEW i \in DOMAIN entries, Hit(h, i)
      PROVE  TypeOK' /\ LocalOK'
  <2>1. pc' \in [Handler -> Label] /\ pc'[h] = "send" /\ \A g \in Handler \ {h} : pc'[g] = pc[g]
    BY <1>5, GotoType DEF Hit, Label
  <2>2. lock' \in BOOLEAN /\ waiters' \in Seq(Handler)
    BY <1>5, UnlockType DEF Hit
  <2>3. entries[i].blk \in Block
    BY EntryType
  <2>8. TypeOK'
    BY <1>5, <2>1, <2>2, <2>3 DEF TypeOK, Hit
  <2> QED
    BY <1>5, <2>1, <2>8, <2>3 DEF TypeOK, LocalOK, Hit, At
<1>6. ASSUME NEW h \in Handler, NEW i \in DOMAIN entries, EvictStale(h, i)
      PROVE  TypeOK' /\ LocalOK'
  <2>1. pc' \in [Handler -> Label] /\ pc'[h] = "read" /\ \A g \in Handler \ {h} : pc'[g] = pc[g]
    BY <1>6, GotoType DEF EvictStale, Label
  <2>2. lock' \in BOOLEAN /\ waiters' \in Seq(Handler)
    BY <1>6, UnlockType DEF EvictStale
  <2>3. live' \subseteq Block
    BY <1>6, FreedShrinks DEF EvictStale, TypeOK
  <2>4. entries' \in Seq(Slot) /\ Len(entries') <= Capacity
    BY <1>6, MovedDownType DEF EvictStale, TypeOK
  <2>8. TypeOK'
    BY <1>6, <2>1, <2>2, <2>3, <2>4 DEF TypeOK, EvictStale
  <2> QED
    BY <1>6, <2>1, <2>8, <2>3, <2>4 DEF TypeOK, LocalOK, EvictStale, At
<1>7. ASSUME NEW h \in Handler, Miss(h)
      PROVE  TypeOK' /\ LocalOK'
  <2>1. pc' \in [Handler -> Label] /\ pc'[h] = "read" /\ \A g \in Handler \ {h} : pc'[g] = pc[g]
    BY <1>7, GotoType DEF Miss, Label
  <2>2. lock' \in BOOLEAN /\ waiters' \in Seq(Handler)
    BY <1>7, UnlockType DEF Miss
  <2>8. TypeOK'
    BY <1>7, <2>1, <2>2 DEF TypeOK, Miss
  <2> QED
    BY <1>7, <2>1, <2>8 DEF TypeOK, LocalOK, Miss, At
<1>8. ASSUME NEW h \in Handler, NEW b \in Block, Read(h, b)
      PROVE  TypeOK' /\ LocalOK'
  <2>1. req[h] \in Path /\ disk[req[h]].version \in Version
    BY <1>8 DEF Read, At, LocalOK, TypeOK
  <2>2. pc' \in [Handler -> Label] /\ pc'[h] = "insert" /\ \A g \in Handler \ {h} : pc'[g] = pc[g]
    BY <1>8, GotoType DEF Read, Label
  <2>3. TypeOK'
    BY <1>8, <2>1, <2>2 DEF TypeOK, Read
  <2> QED
    BY <1>8, <2>1, <2>2, <2>3 DEF TypeOK, LocalOK, Read
<1>9. ASSUME NEW h \in Handler, ReadFails(h)
      PROVE  TypeOK' /\ LocalOK'
  BY <1>9, FinishType DEF TypeOK, LocalOK, ReadFails
<1>10. ASSUME NEW h \in Handler, LockForStore(h)
      PROVE  TypeOK' /\ LocalOK'
  <2>1. Lock(h, "store") /\ "store" \in Label
    BY <1>10 DEF LockForStore, Label
  <2>2. pc' \in [Handler -> Label] /\ pc'[h] = "store" /\ \A g \in Handler \ {h} : pc'[g] = pc[g]
    BY <2>1, LockType, GotoType
  <2>3. TypeOK'
    BY <1>10, <2>1, <2>2, LockType DEF TypeOK, LockForStore
  <2> QED
    BY <1>10, <2>2, <2>3 DEF LockForStore, At, LocalOK
<1>11. ASSUME NEW h \in Handler, Store(h)
      PROVE  TypeOK' /\ LocalOK'
  <2>1. pc' \in [Handler -> Label] /\ pc'[h] = "send" /\ \A g \in Handler \ {h} : pc'[g] = pc[g]
    BY <1>11, GotoType DEF Store, Label
  <2>2. lock' \in BOOLEAN /\ waiters' \in Seq(Handler)
    BY <1>11, UnlockType DEF Store
  <2>3. live' \subseteq Block
    BY <1>11, FreedShrinks DEF Store, TypeOK
  <2>4. [blk |-> buf[h], mtime |-> SecondOf[seen[h]]] \in Slot
    BY <1>11, ParameterAssumption DEF Store, At, LocalOK, Slot, TypeOK
  <2>5. entries' \in Seq(Slot) /\ Len(entries') <= Capacity
    <3>1. CASE Len(entries) < Capacity
      <4>1. entries' = Append(entries, [blk |-> buf[h], mtime |-> SecondOf[seen[h]]])
        BY <1>11, <3>1, ParameterAssumption DEF Store, TypeOK
      <4> QED
        BY <2>4, <3>1, <4>1, StoredType, ParameterAssumption DEF TypeOK
    <3>2. CASE Len(entries) >= Capacity
      <4>1. entries' = Append(Tail(entries), [blk |-> buf[h], mtime |-> SecondOf[seen[h]]])
        BY <1>11, <3>2, ParameterAssumption DEF Store, TypeOK
      <4>2. entries # <<>>
        BY <3>2, ParameterAssumption
      <4> QED
        BY <2>4, <4>1, <4>2, StoredType DEF TypeOK
    <3> QED
      BY <3>1, <3>2, ParameterAssumption DEF TypeOK
  <2>8. TypeOK'
    BY <1>11, <2>1, <2>2, <2>3, <2>5 DEF TypeOK, Store
  <2> QED
    BY <1>11, <2>1, <2>8, <2>3, <2>5 DEF TypeOK, LocalOK, Store, At
<1>12. ASSUME NEW h \in Handler, DoubleFree(h)
       PROVE  TypeOK' /\ LocalOK'
  BY <1>12 DEF DoubleFree, TypeOK, LocalOK
<1>13. ASSUME NEW h \in Handler, Send(h)
       PROVE  TypeOK' /\ LocalOK'
  <2>1. CASE sent[h] + 1 < ChunksOf(req[h])
    <3>1. sent[h] + 1 \in 0 .. Chunks
      BY <2>1, ParameterAssumption DEF TypeOK, ChunksOf
    <3> QED
      BY <1>13, <2>1, <3>1 DEF Send, TypeOK, LocalOK
  <2>2. CASE ~(sent[h] + 1 < ChunksOf(req[h]))
    BY <1>13, <2>2, FinishType DEF TypeOK, LocalOK, Send
  <2> QED
    BY <2>1, <2>2
<1>14. ASSUME NEW h \in Handler, SendFails(h)
      PROVE  TypeOK' /\ LocalOK'
  BY <1>14, FinishType DEF TypeOK, LocalOK, SendFails
<1>15. ASSUME NEW h \in Handler, SendFaults(h)
       PROVE  TypeOK' /\ LocalOK'
  BY <1>15 DEF SendFaults, TypeOK, LocalOK
<1>16. ASSUME NEW p \in Path, Rewrite(p)
       PROVE  TypeOK' /\ LocalOK'
  <2>1. disk[p].version + 1 \in Version
    <3>1. disk[p].version \in 0 .. MaxVersion /\ disk[p].version < MaxVersion
      BY <1>16 DEF Rewrite, TypeOK, Version
    <3> QED
      BY <3>1, ParameterAssumption DEF Version
  <2> QED
    BY <1>16, <2>1 DEF Rewrite, TypeOK, LocalOK
<1>17. ASSUME NEW p \in Path, Remove(p)
       PROVE  TypeOK' /\ LocalOK'
  BY <1>17 DEF Remove, TypeOK, LocalOK
<1>18. CASE Terminate
  BY <1>18 DEF Terminate, TypeOK, LocalOK
<1>19. ASSUME NEW h \in Handler, TerminateHolder(h)
       PROVE  TypeOK' /\ LocalOK'
  <2>1. pc' \in [Handler -> Label] /\ pc'[h] = "exiting" /\ \A g \in Handler \ {h} : pc'[g] = pc[g]
    BY <1>19, GotoType DEF TerminateHolder, Label
  <2>2. waiters' \in Seq(Handler)
    BY <1>19, WaitersType DEF TerminateHolder
  <2>3. TypeOK'
    BY <1>19, <2>1, <2>2 DEF TerminateHolder, TypeOK
  <2> QED
    BY <1>19, <2>1, <2>3 DEF TerminateHolder, LocalOK
<1>20. CASE UNCHANGED vars
  BY <1>20 DEF vars, TypeOK, LocalOK
<1>21. ASSUME NEW h \in Handler, Described(h)
       PROVE  TypeOK' /\ LocalOK'
  <2>1. pc' \in [Handler -> Label] /\ pc'[h] = "stat" /\ \A g \in Handler \ {h} : pc'[g] = pc[g]
    BY <1>21, GotoType DEF Described, Label
  <2>2. TypeOK'
    BY <1>21, <2>1 DEF TypeOK, Described
  <2> QED
    BY <1>21, <2>1, <2>2 DEF Described, At, LocalOK
<1>22. ASSUME NEW h \in Handler, NEW b \in Block, ReadDirectory(h, b)
       PROVE  TypeOK' /\ LocalOK'
  <2>1. req[h] \in Path /\ disk[req[h]].version \in Version
    BY <1>22 DEF ReadDirectory, At, LocalOK, TypeOK
  <2>2. CASE proc' = "aborted" /\ UNCHANGED <<memory, pc, buf>>
    BY <1>22, <2>2 DEF ReadDirectory, TypeOK, LocalOK
  <2>3. CASE Goto(h, "insert") /\ UNCHANGED proc
    <3>1. /\ pc' \in [Handler -> Label] /\ pc'[h] = "insert"
          /\ \A g \in Handler \ {h} : pc'[g] = pc[g]
      BY <2>3, GotoType DEF Label
    <3>2. heap' \in [Block -> [path : Path \cup {None}, version : Version]]
      <4> DEFINE r == [path |-> req[h], version |-> disk[req[h]].version]
      <4>1. r \in [path : Path \cup {None}, version : Version]
        BY <2>1
      <4>2. heap' = heap \/ heap' = [heap EXCEPT ![b] = r]
        BY <1>22 DEF ReadDirectory
      <4> HIDE DEF r
      <4> QED
        BY <4>1, <4>2 DEF TypeOK
    <3>3. /\ live' \subseteq Block /\ entries' = entries
          /\ buf' \in [Handler -> Block \cup {None}]
          /\ \A g \in Handler \ {h} : buf'[g] = buf[g]
          /\ pc'[h] # pc[h]
      BY <1>22, <3>1 DEF ReadDirectory, TypeOK, At
    <3>4. buf'[h] = b
      BY <1>22, <3>3 DEF ReadDirectory, TypeOK
    <3>5. TypeOK'
      BY <1>22, <2>3, <3>1, <3>2, <3>3 DEF ReadDirectory, TypeOK
    <3> QED
      BY <1>22, <2>1, <2>3, <3>1, <3>3, <3>4, <3>5 DEF ReadDirectory, LocalOK
  <2> QED
    BY <1>22, <2>2, <2>3 DEF ReadDirectory
<1>23. ASSUME NEW h \in Handler, UseFreedCache(h)
       PROVE  TypeOK' /\ LocalOK'
  <2>1. proc' \in {"aborted", "faulted", "freed"} /\ live' \subseteq Block
    BY <1>23 DEF UseFreedCache, TypeOK
  <2>2. lock' \in BOOLEAN /\ waiters' \in Seq(Handler)
    BY <1>23, UnlockType DEF UseFreedCache, TypeOK
  <2>3. /\ pc' \in [Handler -> Label]
        /\ pc'[h] \in {"find", "store", "send", "read"}
        /\ \A g \in Handler \ {h} : pc'[g] = pc[g]
    <3>1. {"find", "store", "send", "read"} \subseteq Label
      BY DEF Label
    <3> QED
      BY <1>23, <3>1, GotoType DEF UseFreedCache, TypeOK, Critical
  <2>4. buf' \in [Handler -> Block \cup {None}]
    BY <1>23 DEF UseFreedCache, TypeOK
  <2>5. TypeOK'
    BY <1>23, <2>1, <2>2, <2>3, <2>4 DEF UseFreedCache, TypeOK
  <2> QED
    BY <1>23, <2>1, <2>3, <2>5 DEF UseFreedCache, LocalOK, Critical
<1>24. ASSUME NEW h \in Handler, TerminateDescribing(h)
       PROVE  TypeOK' /\ LocalOK'
  <2>1. pc' \in [Handler -> Label] /\ pc'[h] = "stuck" /\ \A g \in Handler \ {h} : pc'[g] = pc[g]
    BY <1>24, GotoType DEF TerminateDescribing, Label
  <2>2. live' \subseteq Block /\ proc' \in {"freed", "aborted"}
    BY <1>24 DEF TerminateDescribing, TypeOK
  <2>3. TypeOK'
    BY <1>24, <2>1, <2>2 DEF TerminateDescribing, TypeOK
  <2> QED
    BY <1>24, <2>1, <2>2, <2>3 DEF TerminateDescribing, LocalOK
<1> QED
  BY <1>1, <1>2, <1>3, <1>4, <1>5, <1>6, <1>7, <1>8, <1>9, <1>10, <1>11,
     <1>12, <1>13, <1>14, <1>15, <1>16, <1>17, <1>18, <1>19, <1>20, <1>21,
     <1>22, <1>23, <1>24
     DEF Next, HandlerStep, Environment

(* The state is well-formed in every reachable state; in particular count  *)
(* never exceeds the capacity of the array it indexes.                     *)
THEOREM TypeCorrect == Spec => []TypeOK
<1>1. Init => TypeInv
  BY TypeInit
<1>2. TypeInv /\ [Next]_vars => TypeInv'
  BY TypeStep
<1>3. TypeInv => TypeOK
  BY DEF TypeInv
<1> QED
  BY <1>1, <1>2, <1>3, PTL DEF Spec

-----------------------------------------------------------------------------
(* Who waits for the cache lock, and where a handler without the CPU is.   *)
Waits(h) == \E i \in DOMAIN waiters : waiters[i] = h

(* While the server is up a handler gives up the CPU only between requests *)
(* and between chunks; once it is exiting, the lock is never free again    *)
(* and those who wait for it are stuck before the cache is touched.        *)
SchedInv ==
  /\ NeverContended
  /\ proc = "up" => \A h \in Handler :
       pc[h] # "stuck" /\ (h # cpu => pc[h] \in {"idle", "send"})
  /\ proc = "exiting" =>
       /\ lock
       /\ \A h \in Handler :
            /\ pc[h] \in {"idle", "descriptor", "stat", "lookup", "find", "send",
                          "exiting"}
            /\ Waits(h) <=> pc[h] \in {"find", "exiting"}
            /\ Waits(h) => cpu # h

(* The waiters after an Append are the old ones and the new one.           *)
LEMMA WaitsAppended ==
  ASSUME TypeOK, NEW h \in Handler, waiters' = Append(waiters, h)
  PROVE  \A g \in Handler : Waits(g)' <=> (Waits(g) \/ g = h)
<1>1. waiters \in Seq(Handler)
  BY DEF TypeOK
<1>2. /\ DOMAIN waiters = 1 .. Len(waiters) /\ Len(waiters) \in Nat
      /\ DOMAIN waiters' = 1 .. Len(waiters) + 1
      /\ waiters'[Len(waiters) + 1] = h
      /\ \A i \in DOMAIN waiters : waiters'[i] = waiters[i]
  BY <1>1
<1> QED
  BY <1>2 DEF Waits

(* At the start the lock is free and nobody waits.                         *)
LEMMA SchedInit == Init => SchedInv
BY ParameterAssumption DEF Init, SchedInv, NeverContended, Critical

(* Ending a request outside a critical section keeps the lock free.        *)
LEMMA FinishSched ==
  ASSUME TypeOK, SchedInv, NEW h \in Handler, Running, cpu = h, Finish(h),
         pc[h] \notin Critical, UNCHANGED <<mutex, proc>>
  PROVE  SchedInv'
<1>1. /\ pc'[h] = "idle" /\ cpu' = Main
      /\ \A g \in Handler \ {h} : pc'[g] = pc[g]
  BY FinishType
<1>2. CASE proc = "up"
  BY <1>1, <1>2, ParameterAssumption
     DEF SchedInv, NeverContended, Critical, mutex, TypeOK
<1>3. CASE proc = "exiting"
  BY <1>1, <1>3, ParameterAssumption
     DEF SchedInv, NeverContended, Critical, mutex, TypeOK, Waits
<1>4. CASE proc = "freed"
  BY <1>4 DEF SchedInv, NeverContended
<1> QED
  BY <1>2, <1>3, <1>4 DEF Running

(* Every step keeps the lock held exactly by the one that runs in it.      *)
LEMMA SchedStep == TypeInv /\ SchedInv /\ [Next]_vars => SchedInv'
<1> SUFFICES ASSUME TypeOK, LocalOK, SchedInv, [Next]_vars
             PROVE  SchedInv'
  BY DEF TypeInv
<1> USE ParameterAssumption
    DEF SchedInv, NeverContended, Critical, memory, mutex, local, Inside, Intact
<1>1. ASSUME NEW h \in Handler, NEW p \in Path, Begin(h, p)
      PROVE  SchedInv'
  <2>1. /\ pc[h] = "idle" /\ cpu = Main /\ UNCHANGED <<lock, waiters, proc>>
        /\ \A g \in Handler \ {h} : pc'[g] = pc[g]
    BY <1>1 DEF Begin, Goto, TypeOK
  <2>2. \/ pc'[h] \in {"stat", "descriptor"} /\ cpu' = h
        \/ DescriptorsLocked /\ pc'[h] = "stuck" /\ cpu' = Main
    BY <1>1 DEF Begin, Goto, TypeOK
  <2>3. proc \in {"up", "exiting"} => ~DescriptorsLocked
    BY DEF DescriptorsLocked
  <2> QED
    BY <2>1, <2>2, <2>3 DEF Waits
<1>2. ASSUME NEW h \in Handler, Resume(h)
      PROVE  SchedInv'
  BY <1>2 DEF Resume, At, Running, Goto, Waits, TypeOK
<1>3. ASSUME NEW h \in Handler, Stat(h)
      PROVE  SchedInv'
  <2>1. CASE disk[req[h]].exists
    <3>1. /\ pc[h] = "stat" /\ pc'[h] = "lookup" /\ cpu = h
          /\ \A g \in Handler \ {h} : pc'[g] = pc[g]
          /\ UNCHANGED <<lock, waiters, cpu, proc>>
      BY <1>3, <2>1 DEF Stat, At, Goto, TypeOK
    <3> QED
      BY <3>1 DEF Waits
  <2>2. CASE ~disk[req[h]].exists
    BY <1>3, <2>2, FinishSched DEF Stat, At
  <2> QED
    BY <2>1, <2>2
<1>4. ASSUME NEW h \in Handler, LockForLookup(h)
      PROVE  SchedInv'
  <2>1. CASE lock
    <3>1. proc \in {"exiting", "freed"} /\ waiters' = Append(waiters, h) /\ proc' = proc
      BY <1>4, <2>1 DEF LockForLookup, At, Running, Lock
    <3>2. /\ pc'[h] = "find" /\ \A g \in Handler \ {h} : pc'[g] = pc[g]
          /\ lock' /\ cpu' = Main
      BY <1>4, <2>1 DEF LockForLookup, Lock, Goto, TypeOK
    <3> QED
      BY <3>1, <3>2, WaitsAppended
  <2>2. CASE ~lock
    BY <1>4, <2>2 DEF LockForLookup, At, Running, Goto, Lock, Waits, TypeOK
  <2> QED
    BY <2>1, <2>2
<1>5. ASSUME NEW h \in Handler, NEW i \in DOMAIN entries, Hit(h, i)
      PROVE  SchedInv'
  BY <1>5 DEF Hit, At, Running, Goto, Unlock, Waits, TypeOK
<1>6. ASSUME NEW h \in Handler, NEW i \in DOMAIN entries, EvictStale(h, i)
      PROVE  SchedInv'
  BY <1>6 DEF EvictStale, At, Running, Goto, Unlock, Waits, TypeOK
<1>7. ASSUME NEW h \in Handler, Miss(h)
      PROVE  SchedInv'
  BY <1>7 DEF Miss, At, Running, Goto, Unlock, Waits, TypeOK
<1>8. ASSUME NEW h \in Handler, NEW b \in Block, Read(h, b)
      PROVE  SchedInv'
  BY <1>8 DEF Read, At, Running, Goto, Waits, TypeOK
<1>9. ASSUME NEW h \in Handler, ReadFails(h)
      PROVE  SchedInv'
  BY <1>9, FinishSched DEF ReadFails, At
<1>10. ASSUME NEW h \in Handler, LockForStore(h)
      PROVE  SchedInv'
  <2>1. CASE lock
    <3>1. proc \in {"exiting", "freed"} /\ proc' = proc
      BY <1>10, <2>1 DEF LockForStore, At, Running, Lock
    <3>2. pc[h] = "insert"
      BY <1>10 DEF LockForStore, At
    <3> QED
      BY <3>1, <3>2
  <2>2. CASE ~lock
    BY <1>10, <2>2 DEF LockForStore, At, Running, Goto, Lock, Waits, TypeOK
  <2> QED
    BY <2>1, <2>2
<1>11. ASSUME NEW h \in Handler, Store(h)
      PROVE  SchedInv'
  BY <1>11 DEF Store, At, Running, Goto, Unlock, Waits, TypeOK
<1>12. ASSUME NEW h \in Handler, DoubleFree(h)
      PROVE  SchedInv'
  BY <1>12 DEF DoubleFree, At, Running, Goto, Waits, TypeOK
<1>13. ASSUME NEW h \in Handler, Send(h)
      PROVE  SchedInv'
  <2>1. CASE sent[h] + 1 < ChunksOf(req[h])
    BY <1>13, <2>1 DEF Send, At, Running, Waits, TypeOK
  <2>2. CASE ~(sent[h] + 1 < ChunksOf(req[h]))
    BY <1>13, <2>2, FinishSched DEF Send, At
  <2> QED
    BY <2>1, <2>2
<1>14. ASSUME NEW h \in Handler, SendFails(h)
      PROVE  SchedInv'
  BY <1>14, FinishSched DEF SendFails, At
<1>15. ASSUME NEW h \in Handler, SendFaults(h)
      PROVE  SchedInv'
  BY <1>15 DEF SendFaults, At, Running, Goto, Waits, TypeOK
<1>16. ASSUME NEW p \in Path, Rewrite(p)
      PROVE  SchedInv'
  BY <1>16 DEF Rewrite, At, Running, Goto, Waits, TypeOK
<1>17. ASSUME NEW p \in Path, Remove(p)
      PROVE  SchedInv'
  BY <1>17 DEF Remove, At, Running, Goto, Waits, TypeOK
<1>18. ASSUME Terminate
      PROVE  SchedInv'
  BY <1>18 DEF Terminate, At, Running, Goto, Waits, TypeOK
<1>19. ASSUME NEW h \in Handler, TerminateHolder(h)
      PROVE  SchedInv'
  BY <1>19, WaitsAppended DEF TerminateHolder, Goto, Waits, TypeOK
<1>20. CASE UNCHANGED vars
  BY <1>20 DEF vars, Waits
<1>21. ASSUME NEW h \in Handler, Described(h)
       PROVE  SchedInv'
  BY <1>21 DEF Described, At, Running, Goto, Waits, TypeOK
<1>22. ASSUME NEW h \in Handler, NEW b \in Block, ReadDirectory(h, b)
       PROVE  SchedInv'
  BY <1>22 DEF ReadDirectory, At, Running, Goto, Waits, TypeOK
<1>23. ASSUME NEW h \in Handler, UseFreedCache(h)
       PROVE  SchedInv'
  BY <1>23 DEF UseFreedCache
<1>24. ASSUME NEW h \in Handler, TerminateDescribing(h)
       PROVE  SchedInv'
  BY <1>24 DEF TerminateDescribing
<1> QED
  BY <1>1, <1>2, <1>3, <1>4, <1>5, <1>6, <1>7, <1>8, <1>9, <1>10, <1>11,
     <1>12, <1>13, <1>14, <1>15, <1>16, <1>17, <1>18, <1>19, <1>20, <1>21,
     <1>22, <1>23, <1>24
     DEF Next, HandlerStep, Environment

(* As long as no signal arrives, no handler ever waits for the cache lock, *)
(* and the lock is held exactly while the running handler is between       *)
(* gtmutex_lock and gtmutex_unlock in cache_get_file.                      *)
THEOREM LockNeverContended == Spec => []NeverContended
<1>1. Init => TypeInv /\ SchedInv
  BY TypeInit, SchedInit
<1>2. TypeInv /\ SchedInv /\ [Next]_vars => TypeInv' /\ SchedInv'
  BY TypeStep, SchedStep
<1>3. SchedInv => NeverContended
  BY DEF SchedInv
<1> QED
  BY <1>1, <1>2, <1>3, PTL DEF Spec

-----------------------------------------------------------------------------
(* Why a handler serves the right file.  A block is only filled when       *)
(* nobody refers to it, so a pointer to a live block keeps its meaning;    *)
(* an entry's mtime never runs ahead of its contents, because stat() comes *)
(* before read_file; and a file never goes back to an older version.       *)
Fresh ==
  \A i \in DOMAIN entries :
    entries[i].blk \in live =>
      entries[i].mtime <= SecondOf[heap[entries[i].blk].version]

SeenNotAhead ==
  \A h \in Handler :
    pc[h] \in {"lookup", "find", "read"} => seen[h] <= disk[req[h]].version

RightInv == RightFile /\ Fresh /\ SeenNotAhead

(* Versions are natural numbers.                                           *)
LEMMA VersionNat == Version \subseteq Nat
BY ParameterAssumption DEF Version

(* At the start no handler has a buffer.                                   *)
LEMMA RightInit == Init => RightInv
BY DEF Init, RightInv, RightFile, Fresh, SeenNotAhead

(* A handler that ends its request promises nothing of its buffer.         *)
LEMMA FinishRight ==
  ASSUME TypeOK, RightInv, NEW h \in Handler, Finish(h),
         UNCHANGED <<disk, memory, proc>>
  PROVE  RightInv'
<1>1. /\ pc'[h] = "idle"
      /\ \A g \in Handler \ {h} :
           pc'[g] = pc[g] /\ req'[g] = req[g] /\ buf'[g] = buf[g] /\ seen'[g] = seen[g]
  BY FinishType
<1> QED
  BY <1>1 DEF RightInv, RightFile, Fresh, SeenNotAhead, memory, Intact

(* A buffer of its own is filled by a handler that reads, with what its    *)
(* path is on disk; the block may be live or not.                          *)
LEMMA FilledRight ==
  ASSUME TypeOK, LocalOK, RightInv, NEW h \in Handler, NEW b \in Block,
         At(h, "read"), b \notin Referenced, UNCHANGED <<disk, entries, req, seen>>,
         \/ /\ proc' = "aborted" /\ UNCHANGED <<memory, pc, buf>>
         \/ /\ heap' = [heap EXCEPT ![b] =
                           [path |-> req[h], version |-> disk[req[h]].version]]
            /\ live' \in {live \cup {b}, live}
            /\ buf' = [buf EXCEPT ![h] = b]
            /\ Goto(h, "insert")
            /\ UNCHANGED proc
  PROVE  RightInv'
<1> USE DEF RightInv, RightFile, Fresh, SeenNotAhead, memory, Intact
<1>1. CASE proc' = "aborted" /\ UNCHANGED <<memory, pc, buf>>
  BY <1>1
<1>2. CASE /\ heap' = [heap EXCEPT ![b] =
                          [path |-> req[h], version |-> disk[req[h]].version]]
           /\ live' \in {live \cup {b}, live}
           /\ buf' = [buf EXCEPT ![h] = b]
           /\ Goto(h, "insert")
           /\ UNCHANGED proc
  <2>1. req[h] \in Path /\ seen[h] <= disk[req[h]].version
    BY DEF At, LocalOK
  <2>2. SecondOf[disk[req[h]].version] >= SecondOf[seen[h]]
    BY <2>1, ParameterAssumption DEF TypeOK
  <2>3. heap'[b] = [path |-> req[h], version |-> disk[req[h]].version]
    BY <1>2 DEF TypeOK
  <2>4. /\ b \notin live /\ \A g \in Handler : buf[g] # b
        /\ \A i \in DOMAIN entries : entries[i].blk # b
    BY DEF Referenced, SlotBlocks
  <2>5. \A c \in Block \ {b} : heap'[c] = heap[c]
    BY <1>2 DEF TypeOK
  <2>6. /\ pc'[h] = "insert" /\ buf'[h] = b
        /\ \A g \in Handler \ {h} : pc'[g] = pc[g] /\ buf'[g] = buf[g]
    BY <1>2 DEF Goto, TypeOK
  <2>7. live' \subseteq live \cup {b}
    BY <1>2
  <2>8. Fresh'
    BY <2>4, <2>5, <2>7, EntryType
  <2>9. RightFile'
    <3> SUFFICES ASSUME NEW g \in Handler, Intact,
                        pc'[g] \in {"insert", "store", "send"}, buf'[g] \in live'
                 PROVE  /\ heap'[buf'[g]].path = req[g]
                        /\ SecondOf[heap'[buf'[g]].version] >= SecondOf[seen[g]]
      BY <1>2
    <3>1. CASE g = h
      BY <2>2, <2>3, <2>6, <3>1
    <3>2. CASE g # h
      <4>1. buf[g] \in live /\ buf[g] \in Block \ {b}
        BY <2>4, <2>6, <2>7, <3>2 DEF TypeOK
      <4> QED
        BY <2>5, <2>6, <3>2, <4>1
    <3> QED
      BY <3>1, <3>2
  <2> QED
    BY <2>6, <2>8, <2>9
<1> QED
  BY <1>1, <1>2

(* Every step keeps the buffers of the handlers the right files.           *)
LEMMA RightStep == TypeInv /\ RightInv /\ [Next]_vars => RightInv'
<1> SUFFICES ASSUME TypeOK, LocalOK, RightInv, [Next]_vars
             PROVE  RightInv'
  BY DEF TypeInv
<1> USE DEF RightInv, RightFile, Fresh, SeenNotAhead, memory, mutex, local, Inside, Intact
<1>1. ASSUME NEW h \in Handler, NEW p \in Path, Begin(h, p)
      PROVE  RightInv'
  BY <1>1 DEF Begin, At, Goto, TypeOK
<1>2. ASSUME NEW h \in Handler, Resume(h)
      PROVE  RightInv'
  BY <1>2 DEF Resume, At, Goto, TypeOK
<1>3. ASSUME NEW h \in Handler, Stat(h)
      PROVE  RightInv'
  <2>1. CASE disk[req[h]].exists
    <3>1. /\ pc'[h] = "lookup" /\ \A g \in Handler \ {h} : pc'[g] = pc[g]
          /\ UNCHANGED <<disk, heap, live, entries, req, buf, proc>>
      BY <1>3, <2>1 DEF Stat, Goto, TypeOK
    <3>2. /\ seen'[h] = disk[req[h]].version
          /\ \A g \in Handler \ {h} : seen'[g] = seen[g]
      BY <1>3, <2>1 DEF Stat, TypeOK
    <3>3. disk[req[h]].version \in Nat
      BY <1>3, VersionNat DEF Stat, At, LocalOK, TypeOK
    <3> QED
      BY <3>1, <3>2, <3>3
  <2>2. CASE ~disk[req[h]].exists
    BY <1>3, <2>2, FinishRight DEF Stat
  <2> QED
    BY <2>1, <2>2
<1>4. ASSUME NEW h \in Handler, LockForLookup(h)
      PROVE  RightInv'
  BY <1>4 DEF LockForLookup, At, Goto, Lock, TypeOK
<1>5. ASSUME NEW h \in Handler, NEW i \in DOMAIN entries, Hit(h, i)
      PROVE  RightInv'
  <2>1. entries[i].blk \in Block /\ entries[i].mtime = SecondOf[seen[h]]
    BY <1>5, EntryType DEF Hit
  <2>2. buf'[h] = entries[i].blk /\ \A g \in Handler \ {h} : buf'[g] = buf[g]
    BY <1>5 DEF Hit, TypeOK
  <2>3. pc'[h] = "send" /\ \A g \in Handler \ {h} : pc'[g] = pc[g]
    BY <1>5 DEF Hit, Goto, TypeOK
  <2>4. entries[i].blk \in live =>
          /\ heap[entries[i].blk].path = req[h]
          /\ SecondOf[heap[entries[i].blk].version] >= SecondOf[seen[h]]
    <3>1. SecondOf[seen[h]] \in Nat
      BY ParameterAssumption DEF TypeOK
    <3>2. heap[entries[i].blk].version \in Version
      BY <2>1 DEF TypeOK
    <3>3. SecondOf[heap[entries[i].blk].version] \in Nat
      BY <3>2, ParameterAssumption
    <3> QED
      BY <1>5, <2>1, <3>1, <3>3 DEF Hit, FoundAt, MayMatch
  <2>5. UNCHANGED <<disk, heap, live, entries, req, seen, proc>>
    BY <1>5 DEF Hit
  <2> QED
    BY <2>2, <2>3, <2>4, <2>5
<1>6. ASSUME NEW h \in Handler, NEW i \in DOMAIN entries, EvictStale(h, i)
      PROVE  RightInv'
  <2>1. live' \subseteq live
    BY <1>6, FreedShrinks DEF EvictStale
  <2>2. DOMAIN entries' = DOMAIN entries
    BY <1>6, MovedDownType DEF EvictStale, TypeOK
  <2>3. \A j \in DOMAIN entries : \E k \in DOMAIN entries : entries'[j] = entries[k]
    BY <1>6 DEF EvictStale, MovedDown, TypeOK
  <2>4. pc'[h] = "read" /\ \A g \in Handler \ {h} : pc'[g] = pc[g]
    BY <1>6 DEF EvictStale, Goto, TypeOK
  <2>5. Fresh'
    BY <1>6, <2>1, <2>2, <2>3 DEF EvictStale
  <2> QED
    BY <1>6, <2>1, <2>4, <2>5 DEF EvictStale, At
<1>7. ASSUME NEW h \in Handler, Miss(h)
      PROVE  RightInv'
  BY <1>7 DEF Miss, At, Goto, TypeOK
<1>8. ASSUME NEW h \in Handler, NEW b \in Block, Read(h, b)
      PROVE  RightInv'
  BY <1>8, FilledRight DEF Read
<1>9. ASSUME NEW h \in Handler, ReadFails(h)
      PROVE  RightInv'
  BY <1>9, FinishRight DEF ReadFails
<1>10. ASSUME NEW h \in Handler, LockForStore(h)
      PROVE  RightInv'
  BY <1>10 DEF LockForStore, At, Goto, Lock, TypeOK
<1>11. ASSUME NEW h \in Handler, Store(h)
      PROVE  RightInv'
  <2> DEFINE e == [blk |-> buf[h], mtime |-> SecondOf[seen[h]]]
  <2>1. live' \subseteq live
    BY <1>11, FreedShrinks DEF Store
  <2>2. \A j \in DOMAIN entries' :
          entries'[j] = e \/ \E k \in DOMAIN entries : entries'[j] = entries[k]
    <3>1. entries \in Seq(Slot)
      BY DEF TypeOK
    <3>2. CASE entries' = Append(entries, e)
      BY <3>1, <3>2
    <3>3. CASE entries # <<>> /\ entries' = Append(Tail(entries), e)
      <4>1. \A j \in DOMAIN entries' :
               entries'[j] = e \/ (j + 1 \in DOMAIN entries /\ entries'[j] = entries[j + 1])
        BY <3>1, <3>3
      <4> QED
        BY <4>1
    <3> QED
      BY <1>11, <3>1, <3>2, <3>3, ParameterAssumption DEF Store
  <2>3. e.blk \in live => e.mtime <= SecondOf[heap[e.blk].version]
    <3>1. SecondOf[seen[h]] \in Nat
      BY ParameterAssumption DEF TypeOK
    <3>2. buf[h] \in Block /\ heap[buf[h]].version \in Version
      BY <1>11 DEF Store, At, TypeOK, LocalOK
    <3>3. SecondOf[heap[buf[h]].version] \in Nat
      BY <3>2, ParameterAssumption
    <3> QED
      BY <1>11, <3>1, <3>3 DEF Store, At
  <2>4. pc'[h] = "send" /\ \A g \in Handler \ {h} : pc'[g] = pc[g]
    BY <1>11 DEF Store, Goto, TypeOK
  <2>5. UNCHANGED <<heap, disk, local>>
    BY <1>11 DEF Store
  <2>6. Fresh'
    BY <2>1, <2>2, <2>3, <2>5
  <2> QED
    BY <1>11, <2>1, <2>4, <2>5, <2>6 DEF Store, At
<1>12. ASSUME NEW h \in Handler, DoubleFree(h)
      PROVE  RightInv'
  BY <1>12 DEF DoubleFree, At, Goto, TypeOK
<1>13. ASSUME NEW h \in Handler, Send(h)
      PROVE  RightInv'
  <2>1. CASE sent[h] + 1 < ChunksOf(req[h])
    BY <1>13, <2>1 DEF Send, At
  <2>2. CASE ~(sent[h] + 1 < ChunksOf(req[h]))
    BY <1>13, <2>2, FinishRight DEF Send
  <2> QED
    BY <2>1, <2>2
<1>14. ASSUME NEW h \in Handler, SendFails(h)
      PROVE  RightInv'
  BY <1>14, FinishRight DEF SendFails
<1>15. ASSUME NEW h \in Handler, SendFaults(h)
      PROVE  RightInv'
  BY <1>15 DEF SendFaults, At, Goto, TypeOK
<1>16. ASSUME NEW p \in Path, Rewrite(p)
      PROVE  RightInv'
  <2>1. \A q \in Path : /\ disk[q].version \in Nat
                        /\ disk'[q].version \in {disk[q].version, disk[q].version + 1}
    <3>1. /\ disk'[p] = [exists |-> TRUE, version |-> disk[p].version + 1]
          /\ \A q \in Path \ {p} : disk'[q] = disk[q]
      BY <1>16 DEF Rewrite, TypeOK
    <3>2. \A q \in Path : disk[q].version \in Nat
      BY VersionNat DEF TypeOK
    <3> QED
      BY <3>1, <3>2
  <2>2. UNCHANGED <<heap, live, entries, pc, req, seen, buf, proc>>
    BY <1>16 DEF Rewrite
  <2>3. SeenNotAhead'
    <3> SUFFICES ASSUME NEW h \in Handler, pc[h] \in {"lookup", "find", "read"}
                 PROVE  seen[h] <= disk'[req[h]].version
      BY <2>2
    <3>1. req[h] \in Path /\ seen[h] \in Nat
      BY VersionNat DEF LocalOK, TypeOK
    <3> QED
      BY <2>1, <3>1
  <2> QED
    BY <2>2, <2>3
<1>17. ASSUME NEW p \in Path, Remove(p)
      PROVE  RightInv'
  <2>1. \A q \in Path : disk'[q].version = disk[q].version
    BY <1>17 DEF Remove, TypeOK
  <2> QED
    BY <1>17, <2>1 DEF Remove, LocalOK
<1>18. ASSUME Terminate
      PROVE  RightInv'
  BY <1>18 DEF Terminate
<1>19. ASSUME NEW h \in Handler, TerminateHolder(h)
      PROVE  RightInv'
  BY <1>19 DEF TerminateHolder, At, Goto, TypeOK
<1>20. CASE UNCHANGED vars
  BY <1>20 DEF vars
<1>21. ASSUME NEW h \in Handler, Described(h)
       PROVE  RightInv'
  BY <1>21 DEF Described, At, Goto, TypeOK
<1>22. ASSUME NEW h \in Handler, NEW b \in Block, ReadDirectory(h, b)
       PROVE  RightInv'
  BY <1>22, FilledRight DEF ReadDirectory
<1>23. ASSUME NEW h \in Handler, UseFreedCache(h)
       PROVE  RightInv'
  <2>1. live' \subseteq live /\ UNCHANGED <<heap, entries, disk, seen, req>> /\ ~Intact'
    BY <1>23 DEF UseFreedCache
  <2>2. \A g \in Handler : pc'[g] \in {"lookup", "find", "read"}
                             => pc[g] \in {"lookup", "find", "read"}
    BY <1>23 DEF UseFreedCache, Goto, TypeOK, Critical
  <2> QED
    BY <2>1, <2>2
<1>24. ASSUME NEW h \in Handler, TerminateDescribing(h)
       PROVE  RightInv'
  <2>1. live' \subseteq live /\ UNCHANGED <<heap, entries, disk, seen, req>> /\ ~Intact'
    BY <1>24 DEF TerminateDescribing
  <2>2. \A g \in Handler : pc'[g] \in {"lookup", "find", "read"}
                             => pc[g] \in {"lookup", "find", "read"}
    BY <1>24 DEF TerminateDescribing, Goto, TypeOK
  <2> QED
    BY <2>1, <2>2
<1> QED
  BY <1>1, <1>2, <1>3, <1>4, <1>5, <1>6, <1>7, <1>8, <1>9, <1>10, <1>11,
     <1>12, <1>13, <1>14, <1>15, <1>16, <1>17, <1>18, <1>19, <1>20, <1>21,
     <1>22, <1>23, <1>24
     DEF Next, HandlerStep, Environment

(* For any clock, any edits of the files and any interleaving: what a      *)
(* handler takes from the cache is the file it asked for, read no earlier  *)
(* than the second in which its own stat() was made.                       *)
THEOREM ServesRightFile == Spec => []RightFile
<1>1. Init => TypeInv /\ RightInv
  BY TypeInit, RightInit
<1>2. TypeInv /\ RightInv /\ [Next]_vars => TypeInv' /\ RightInv'
  BY TypeStep, RightStep
<1>3. RightInv => RightFile
  BY DEF RightInv
<1> QED
  BY <1>1, <1>2, <1>3, PTL DEF Spec

-----------------------------------------------------------------------------
(* The labels at which a handler owns the block it has read.               *)
Owning == {"insert", "store", "exiting"}

(* At the start nothing is allocated.                                      *)
LEMMA NoLeakInit == Init => NoLeak
BY DEF Init, NoLeak

(* Nothing is lost by a step that allocates nothing, if what it takes out  *)
(* of the cache is freed and what a handler gives up is in the cache.      *)
LEMMA NoLeakKept ==
  ASSUME NoLeak, Intact' => Intact,
         live' \subseteq live,
         \A b \in SlotBlocks : b \in SlotBlocks' \/ b \notin live',
         \A g \in Handler : pc[g] \in Owning =>
            (pc'[g] \in Owning /\ buf'[g] = buf[g]) \/ buf[g] \in SlotBlocks'
  PROVE  NoLeak'
<1> SUFFICES ASSUME NEW b \in live' \ SlotBlocks', Intact
             PROVE  \E h \in Handler : buf'[h] = b /\ pc'[h] \in Owning
  BY DEF NoLeak, Owning
<1>1. b \in live \ SlotBlocks
  OBVIOUS
<1>2. PICK h \in Handler : buf[h] = b /\ pc[h] \in Owning
  BY <1>1 DEF NoLeak, Owning
<1> QED
  BY <1>2

(* A handler that ends its request after its file was stored leaks nothing.*)
LEMMA FinishNoLeak ==
  ASSUME TypeOK, NoLeak, NEW h \in Handler, Finish(h), pc[h] \notin Owning,
         UNCHANGED <<memory, proc>>
  PROVE  NoLeak'
<1>1. \A g \in Handler \ {h} : pc'[g] = pc[g] /\ buf'[g] = buf[g]
  BY FinishType
<1> QED
  BY <1>1, NoLeakKept DEF memory, SlotBlocks, Intact

(* What read_file allocates is the handler's.                              *)
LEMMA FilledNoLeak ==
  ASSUME TypeOK, NoLeak, NEW h \in Handler, NEW b \in Block, pc[h] = "read",
         buf' = [buf EXCEPT ![h] = b], Goto(h, "insert"),
         live' \in {live \cup {b}, live}, UNCHANGED <<entries, proc>>
  PROVE  NoLeak'
<1>1. pc'[h] = "insert" /\ \A g \in Handler \ {h} : pc'[g] = pc[g]
  BY DEF Goto, TypeOK
<1>2. buf'[h] = b /\ \A g \in Handler \ {h} : buf'[g] = buf[g]
  BY DEF TypeOK
<1> SUFFICES ASSUME NEW c \in live' \ SlotBlocks', Intact
             PROVE  \E g \in Handler : buf'[g] = c /\ pc'[g] \in Owning
  BY DEF NoLeak, Owning, Intact
<1>3. CASE c = b
  BY <1>1, <1>2, <1>3 DEF Owning
<1>4. CASE c # b
  <2>1. PICK g \in Handler : buf[g] = c /\ pc[g] \in Owning
    BY <1>4 DEF NoLeak, Owning, SlotBlocks
  <2> QED
    BY <1>1, <1>2, <2>1 DEF Owning
<1> QED
  BY <1>3, <1>4

(* A freed block is not live any more even when free() hit another one, so *)
(* taking its entry out of the cache loses nothing.                        *)
LEMMA NoLeakStep == TypeInv /\ NoLeak /\ [Next]_vars => NoLeak'
<1> SUFFICES ASSUME TypeOK, LocalOK, NoLeak, [Next]_vars
             PROVE  NoLeak'
  BY DEF TypeInv
<1> USE DEF SlotBlocks, Owning, memory, mutex, local, Inside, Intact
<1>1. ASSUME NEW h \in Handler, NEW p \in Path, Begin(h, p)
      PROVE  NoLeak'
  BY <1>1, NoLeakKept DEF Begin, At, Goto, TypeOK
<1>2. ASSUME NEW h \in Handler, Resume(h)
      PROVE  NoLeak'
  BY <1>2, NoLeakKept DEF Resume, At, Goto, TypeOK
<1>3. ASSUME NEW h \in Handler, Stat(h)
      PROVE  NoLeak'
  <2>1. CASE disk[req[h]].exists
    BY <1>3, <2>1, NoLeakKept DEF Stat, At, Goto, TypeOK
  <2>2. CASE ~disk[req[h]].exists
    BY <1>3, <2>2, FinishNoLeak DEF Stat, At
  <2> QED
    BY <2>1, <2>2
<1>4. ASSUME NEW h \in Handler, LockForLookup(h)
      PROVE  NoLeak'
  BY <1>4, NoLeakKept DEF LockForLookup, At, Goto, Lock, TypeOK
<1>5. ASSUME NEW h \in Handler, NEW i \in DOMAIN entries, Hit(h, i)
      PROVE  NoLeak'
  BY <1>5, NoLeakKept DEF Hit, At, Goto, TypeOK
<1>6. ASSUME NEW h \in Handler, NEW i \in DOMAIN entries, EvictStale(h, i)
      PROVE  NoLeak'
  <2>1. live' \subseteq live /\ entries[i].blk \notin live'
    BY <1>6, FreedShrinks DEF EvictStale
  <2>2. \A j \in DOMAIN entries \ {i} : \E k \in DOMAIN entries' : entries'[k] = entries[j]
    <3>1. DOMAIN entries = 1 .. Len(entries) /\ Len(entries) \in Nat
      BY DEF TypeOK
    <3>2. DOMAIN entries' = DOMAIN entries
      BY <1>6, MovedDownType DEF EvictStale, TypeOK
    <3>3. \A j \in DOMAIN entries : j < i => entries'[j] = entries[j]
      BY <1>6, <3>1 DEF EvictStale, MovedDown
    <3>4. \A j \in DOMAIN entries : j > i =>
             j - 1 \in DOMAIN entries /\ entries'[j - 1] = entries[j]
      BY <1>6, <3>1 DEF EvictStale, MovedDown
    <3> QED
      BY <3>1, <3>2, <3>3, <3>4
  <2>3. \A g \in Handler : pc'[g] = pc[g] \/ (pc[g] = "find" /\ pc'[g] = "read")
    BY <1>6 DEF EvictStale, At, Goto, TypeOK
  <2>4. UNCHANGED <<buf, proc>>
    BY <1>6 DEF EvictStale
  <2> QED
    BY <2>1, <2>2, <2>3, <2>4, NoLeakKept
<1>7. ASSUME NEW h \in Handler, Miss(h)
      PROVE  NoLeak'
  BY <1>7, NoLeakKept DEF Miss, At, Goto, TypeOK
<1>8. ASSUME NEW h \in Handler, NEW b \in Block, Read(h, b)
      PROVE  NoLeak'
  BY <1>8, FilledNoLeak DEF Read, At
<1>9. ASSUME NEW h \in Handler, ReadFails(h)
      PROVE  NoLeak'
  BY <1>9, FinishNoLeak DEF ReadFails, At
<1>10. ASSUME NEW h \in Handler, LockForStore(h)
      PROVE  NoLeak'
  BY <1>10, NoLeakKept DEF LockForStore, At, Goto, Lock, TypeOK
<1>11. ASSUME NEW h \in Handler, Store(h)
      PROVE  NoLeak'
  <2> DEFINE e == [blk |-> buf[h], mtime |-> SecondOf[seen[h]]]
  <2>1. \E k \in DOMAIN entries' : entries'[k] = e
    <3>1. entries' = Append(entries, e) \/ entries' = Append(Tail(entries), e)
      BY <1>11 DEF Store
    <3>2. entries \in Seq(Slot) /\ (entries' = Append(entries, e) \/ entries # <<>>)
      BY <1>11, ParameterAssumption DEF Store, TypeOK
    <3> QED
      BY <3>1, <3>2
  <2>2. live' \subseteq live
    BY <1>11, FreedShrinks DEF Store
  <2>3. \A j \in DOMAIN entries :
          \/ \E k \in DOMAIN entries' : entries'[k] = entries[j]
          \/ entries[j].blk \notin live'
    <3>1. CASE Len(entries) < Capacity
      <4>1. entries' = Append(entries, e)
        BY <1>11, <3>1, ParameterAssumption DEF Store, TypeOK
      <4>2. entries \in Seq(Slot)
        BY DEF TypeOK
      <4>3. \A j \in DOMAIN entries : j \in DOMAIN entries' /\ entries'[j] = entries[j]
        BY <4>1, <4>2
      <4> QED
        BY <4>3
    <3>2. CASE Len(entries) >= Capacity
      <4>1. entries' = Append(Tail(entries), e) /\ entries # <<>>
        BY <1>11, <3>2, ParameterAssumption DEF Store, TypeOK
      <4>2. entries[1].blk \notin live'
        BY <1>11, <3>2, FreedShrinks, ParameterAssumption DEF Store, TypeOK
      <4>3. entries \in Seq(Slot) /\ DOMAIN entries = 1 .. Len(entries) /\ Len(entries) \in Nat
        BY DEF TypeOK
      <4>4. \A j \in DOMAIN entries : j # 1 =>
               j - 1 \in DOMAIN entries' /\ entries'[j - 1] = entries[j]
        BY <4>1, <4>3
      <4> QED
        BY <4>2, <4>4
    <3> QED
      BY <3>1, <3>2, ParameterAssumption DEF TypeOK
  <2>4. pc'[h] = "send" /\ \A g \in Handler \ {h} : pc'[g] = pc[g]
    BY <1>11 DEF Store, Goto, TypeOK
  <2>5. UNCHANGED <<buf, proc>>
    BY <1>11 DEF Store
  <2> QED
    BY <2>1, <2>2, <2>3, <2>4, <2>5, NoLeakKept
<1>12. ASSUME NEW h \in Handler, DoubleFree(h)
      PROVE  NoLeak'
  BY <1>12, NoLeakKept DEF DoubleFree, At, Goto, TypeOK
<1>13. ASSUME NEW h \in Handler, Send(h)
      PROVE  NoLeak'
  <2>1. CASE sent[h] + 1 < ChunksOf(req[h])
    BY <1>13, <2>1, NoLeakKept DEF Send, At
  <2>2. CASE ~(sent[h] + 1 < ChunksOf(req[h]))
    BY <1>13, <2>2, FinishNoLeak DEF Send, At
  <2> QED
    BY <2>1, <2>2
<1>14. ASSUME NEW h \in Handler, SendFails(h)
      PROVE  NoLeak'
  BY <1>14, FinishNoLeak DEF SendFails, At
<1>15. ASSUME NEW h \in Handler, SendFaults(h)
      PROVE  NoLeak'
  BY <1>15, NoLeakKept DEF SendFaults, At, Goto, TypeOK
<1>16. ASSUME NEW p \in Path, Rewrite(p)
      PROVE  NoLeak'
  BY <1>16, NoLeakKept DEF Rewrite, At, Goto, TypeOK
<1>17. ASSUME NEW p \in Path, Remove(p)
      PROVE  NoLeak'
  BY <1>17, NoLeakKept DEF Remove, At, Goto, TypeOK
<1>18. ASSUME Terminate
      PROVE  NoLeak'
  BY <1>18, NoLeakKept DEF Terminate, At, Goto, TypeOK
<1>19. ASSUME NEW h \in Handler, TerminateHolder(h)
      PROVE  NoLeak'
  BY <1>19, NoLeakKept DEF TerminateHolder, At, Goto, TypeOK
<1>20. CASE UNCHANGED vars
  BY <1>20, NoLeakKept DEF vars
<1>21. ASSUME NEW h \in Handler, Described(h)
       PROVE  NoLeak'
  BY <1>21, NoLeakKept DEF Described, At, Goto, TypeOK
<1>22. ASSUME NEW h \in Handler, NEW b \in Block, ReadDirectory(h, b)
       PROVE  NoLeak'
  <2>1. CASE proc' = "aborted"
    BY <2>1 DEF NoLeak
  <2>2. CASE proc' # "aborted"
    BY <1>22, <2>2, FilledNoLeak DEF ReadDirectory, At
  <2> QED
    BY <2>1, <2>2
<1>23. ASSUME NEW h \in Handler, UseFreedCache(h)
       PROVE  NoLeak'
  BY <1>23 DEF UseFreedCache, NoLeak
<1>24. ASSUME NEW h \in Handler, TerminateDescribing(h)
       PROVE  NoLeak'
  BY <1>24 DEF TerminateDescribing, NoLeak
<1> QED
  BY <1>1, <1>2, <1>3, <1>4, <1>5, <1>6, <1>7, <1>8, <1>9, <1>10, <1>11,
     <1>12, <1>13, <1>14, <1>15, <1>16, <1>17, <1>18, <1>19, <1>20, <1>21,
     <1>22, <1>23, <1>24
     DEF Next, HandlerStep, Environment

(* No block is lost while there is a cache: whatever the server has        *)
(* allocated for a file is in it, or still in the hands of the handler     *)
(* that read it.                                                           *)
THEOREM NothingLeaks == Spec => []NoLeak
<1>1. Init => TypeInv /\ NoLeak
  BY TypeInit, NoLeakInit
<1>2. TypeInv /\ NoLeak /\ [Next]_vars => TypeInv' /\ NoLeak'
  BY TypeStep, NoLeakStep
<1> QED
  BY <1>1, <1>2, PTL DEF Spec

-----------------------------------------------------------------------------
(* While no file changes and no page is a directory.                       *)

Static == Modifiable = {} /\ Directory = {}

FilesStay ==
  /\ \A p \in Path : disk[p].exists /\ disk[p].version = 0
  /\ \A h \in Handler : seen[h] = 0
  /\ \A i \in DOMAIN entries : entries[i].mtime = SecondOf[0]

(* The handler that has missed fills the cache before anybody else runs:   *)
(* its path is still absent, and its buffer is a live block of its own.    *)
Filling ==
  Intact =>
    \A h \in Handler :
      /\ cpu = h /\ pc[h] \in {"read", "insert", "store"} =>
            \A i \in DOMAIN entries : heap[entries[i].blk].path # req[h]
      /\ cpu = h /\ pc[h] \in {"insert", "store"} =>
            /\ buf[h] \in live /\ heap[buf[h]].path = req[h]
            /\ \A i \in DOMAIN entries : entries[i].blk # buf[h]

StaticInv == FilesStay /\ SlotsSound /\ Filling

(* At the start the cache is empty, so its entries are sound.              *)
LEMMA StaticInit == ASSUME Static PROVE Init => StaticInv
BY ParameterAssumption
   DEF Static, Init, StaticInv, FilesStay, SlotsSound, FreesCleanly, SlotBlocks, Filling

(* Ending a request does not touch what a handler is filling in.           *)
LEMMA FinishStatic ==
  ASSUME TypeOK, StaticInv, NEW h \in Handler, Finish(h),
         UNCHANGED <<disk, memory, proc>>
  PROVE  StaticInv'
<1>1. /\ cpu' = Main
      /\ \A g \in Handler : seen'[g] = 0
  BY DEF Finish, StaticInv, FilesStay, TypeOK
<1> QED
  BY <1>1, ParameterAssumption
     DEF StaticInv, FilesStay, SlotsSound, FreesCleanly, SlotBlocks, Filling,
         Intact, memory

(* What an eviction of the oldest entry does to the sequence of entries.   *)
LEMMA AppendedTail ==
  ASSUME NEW S, NEW s \in Seq(S), s # <<>>, NEW e
  PROVE  /\ DOMAIN Append(Tail(s), e) = DOMAIN s
         /\ Append(Tail(s), e)[Len(s)] = e
         /\ \A j \in 1 .. Len(s) - 1 :
               j + 1 \in DOMAIN s /\ Append(Tail(s), e)[j] = s[j + 1]
<1>1. Len(s) \in Nat /\ Len(s) >= 1 /\ DOMAIN s = 1 .. Len(s)
  OBVIOUS
<1>2. /\ Tail(s) \in Seq(S) /\ Len(Tail(s)) = Len(s) - 1
      /\ \A j \in 1 .. Len(s) - 1 : Tail(s)[j] = s[j + 1]
  BY <1>1
<1> QED
  BY <1>1, <1>2

(* While no file changes every step keeps the entries sound.               *)
LEMMA StaticStep ==
  ASSUME Static
  PROVE  TypeInv /\ SchedInv /\ StaticInv /\ [Next]_vars => StaticInv'
<1> SUFFICES ASSUME TypeOK, LocalOK, SchedInv, StaticInv, [Next]_vars
             PROVE  StaticInv'
  BY DEF TypeInv
<1> USE DEF StaticInv, FilesStay, SlotsSound, FreesCleanly, SlotBlocks, Filling,
            memory, mutex, local, Inside, Intact, Static
<1>1. ASSUME NEW h \in Handler, NEW p \in Path, Begin(h, p)
      PROVE  StaticInv'
  BY <1>1 DEF Begin, At, Running, Goto, TypeOK
<1>2. ASSUME NEW h \in Handler, Resume(h)
      PROVE  StaticInv'
  <2>1. Intact => pc[h] \notin {"read", "insert", "store"}
    BY <1>2, ParameterAssumption DEF Resume, SchedInv
  <2> QED
    BY <1>2, <2>1, ParameterAssumption DEF Resume
<1>3. ASSUME NEW h \in Handler, Stat(h)
      PROVE  StaticInv'
  <2>1. CASE disk[req[h]].exists
    <3>1. req[h] \in Path
      BY <1>3 DEF Stat, At, LocalOK
    <3> QED
      BY <1>3, <2>1, <3>1 DEF Stat, At, Running, Goto, TypeOK
  <2>2. CASE ~disk[req[h]].exists
    BY <1>3, <2>2, FinishStatic DEF Stat
  <2> QED
    BY <2>1, <2>2
<1>4. ASSUME NEW h \in Handler, LockForLookup(h)
      PROVE  StaticInv'
  BY <1>4, ParameterAssumption DEF LockForLookup, At, Running, Goto, Lock, TypeOK
<1>5. ASSUME NEW h \in Handler, NEW i \in DOMAIN entries, Hit(h, i)
      PROVE  StaticInv'
  BY <1>5 DEF Hit, At, Running, Goto, TypeOK
<1>6. ASSUME NEW h \in Handler, NEW i \in DOMAIN entries, EvictStale(h, i)
      PROVE  StaticInv'
  BY <1>6 DEF EvictStale
<1>7. ASSUME NEW h \in Handler, Miss(h)
      PROVE  StaticInv'
  <2>1. Running /\ \A i \in DOMAIN entries : heap[entries[i].blk].path # req[h]
    BY <1>7 DEF Miss, At, NotFound, MayDiffer
  <2>2. pc'[h] = "read" /\ UNCHANGED <<disk, memory, cpu, local, proc>>
    BY <1>7 DEF Miss, Goto, TypeOK
  <2> QED
    BY <1>7, <2>1, <2>2 DEF Miss, At, Running
<1>8. ASSUME NEW h \in Handler, NEW b \in Block, Read(h, b)
      PROVE  StaticInv'
  <2>1. /\ b \notin live
        /\ \A i \in DOMAIN entries : entries[i].blk # b
    BY <1>8 DEF Read, Referenced
  <2>2. /\ heap'[b].path = req[h]
        /\ \A c \in Block \ {b} : heap'[c] = heap[c]
    BY <1>8 DEF Read, TypeOK
  <2>3. /\ live' = live \cup {b} /\ buf'[h] = b /\ pc'[h] = "insert" /\ cpu = h
        /\ pc[h] = "read" /\ Running
        /\ UNCHANGED <<disk, entries, cpu, req, seen, proc>>
    BY <1>8 DEF Read, At, Goto, TypeOK
  <2>4. \A i \in DOMAIN entries : heap'[entries[i].blk] = heap[entries[i].blk]
    BY <2>1, <2>2, EntryType
  <2> QED
    BY <2>1, <2>2, <2>3, <2>4 DEF Running
<1>9. ASSUME NEW h \in Handler, ReadFails(h)
      PROVE  StaticInv'
  BY <1>9, FinishStatic DEF ReadFails
<1>10. ASSUME NEW h \in Handler, LockForStore(h)
      PROVE  StaticInv'
  BY <1>10, ParameterAssumption DEF LockForStore, At, Running, Goto, Lock, TypeOK
<1>11. ASSUME NEW h \in Handler, Store(h)
      PROVE  StaticInv'
  <2> DEFINE e == [blk |-> buf[h], mtime |-> SecondOf[seen[h]]]
  <2>1. /\ proc \in {"up", "exiting"} /\ cpu = h /\ pc[h] = "store"
        /\ UNCHANGED <<disk, heap, cpu, local, proc>> /\ pc'[h] = "send"
    BY <1>11 DEF Store, At, Goto, TypeOK
  <2>2. /\ buf[h] \in live /\ heap[buf[h]].path = req[h]
        /\ \A i \in DOMAIN entries : entries[i].blk # buf[h]
        /\ \A i \in DOMAIN entries : heap[entries[i].blk].path # req[h]
    BY <2>1
  <2>3. e.blk = buf[h] /\ e.mtime = SecondOf[0]
    OBVIOUS
  <2>4. entries \in Seq(Slot) /\ DOMAIN entries = 1 .. Len(entries) /\ Len(entries) \in Nat
    BY DEF TypeOK
  <2>5. FilesStay' /\ SlotsSound'
    <3>1. CASE Len(entries) < Capacity
      <4>1. entries' = Append(entries, e) /\ live' = live
        BY <1>11, <3>1, ParameterAssumption DEF Store, TypeOK
      <4>2. /\ DOMAIN entries' = 1 .. Len(entries) + 1
            /\ entries'[Len(entries) + 1] = e
            /\ \A j \in DOMAIN entries : entries'[j] = entries[j]
        BY <2>4, <4>1
      <4> QED
        BY <2>1, <2>2, <2>3, <2>4, <4>1, <4>2 DEF Running
    <3>2. CASE Len(entries) >= Capacity
      <4>1. entries' = Append(Tail(entries), e) /\ 1 \in DOMAIN entries
        BY <1>11, <2>4, <3>2, ParameterAssumption DEF Store
      <4>2. live' = live \ {entries[1].blk}
        BY <1>11, <2>1, <3>2, <4>1, ParameterAssumption DEF Store, Freed, TypeOK
      <4>3. /\ DOMAIN entries' = DOMAIN entries
            /\ entries'[Len(entries)] = e
            /\ \A j \in 1 .. Len(entries) - 1 :
                  j + 1 \in DOMAIN entries /\ entries'[j] = entries[j + 1]
        <5>1. entries # <<>>
          BY <2>4, <4>1
        <5> HIDE DEF e
        <5> QED
          BY <2>4, <4>1, <5>1, AppendedTail
      <4>4. \A j \in DOMAIN entries' :
               (j = Len(entries) /\ entries'[j] = e)
                 \/ (j + 1 \in DOMAIN entries /\ j + 1 # 1 /\ entries'[j] = entries[j + 1])
        BY <2>4, <4>3
      <4>5. SlotBlocks' \subseteq live'
        BY <2>1, <2>2, <2>3, <4>1, <4>2, <4>4
      <4>6. \A j \in DOMAIN entries' : entries'[j].mtime = SecondOf[0]
        BY <2>3, <4>4
      <4>7. \A i, j \in DOMAIN entries' :
               \/ entries'[i].blk = entries'[j].blk
               \/ heap[entries'[i].blk].path = heap[entries'[j].blk].path
               => i = j
        <5> SUFFICES ASSUME NEW i \in DOMAIN entries', NEW j \in DOMAIN entries',
                            \/ entries'[i].blk = entries'[j].blk
                            \/ heap[entries'[i].blk].path = heap[entries'[j].blk].path
                     PROVE  i = j
          OBVIOUS
        <5>1. CASE i = Len(entries) \/ j = Len(entries)
          BY <2>2, <2>3, <4>3, <4>4, <5>1
        <5>2. CASE i # Len(entries) /\ j # Len(entries)
          <6>1. i + 1 = j + 1
            BY <2>1, <4>4, <5>2
          <6> QED
            BY <2>4, <4>3, <6>1
        <5> QED
          BY <5>1, <5>2
      <4> QED
        BY <2>1, <4>5, <4>6, <4>7 DEF Running
    <3> QED
      BY <2>4, <3>1, <3>2, ParameterAssumption
  <2> QED
    BY <2>1, <2>5, ParameterAssumption
<1>12. ASSUME NEW h \in Handler, DoubleFree(h)
      PROVE  StaticInv'
  <2>1. CASE At(h, "find")
    BY <1>12, <2>1 DEF DoubleFree, At
  <2>2. CASE At(h, "store") /\ Len(entries) >= Capacity /\ entries[1].blk \notin live
    <3>1. 1 \in DOMAIN entries
      BY <2>2, ParameterAssumption DEF TypeOK
    <3> QED
      BY <1>12, <2>2, <3>1 DEF DoubleFree
  <2> QED
    BY <1>12, <2>1, <2>2 DEF DoubleFree
<1>13. ASSUME NEW h \in Handler, Send(h)
      PROVE  StaticInv'
  <2>1. CASE sent[h] + 1 < ChunksOf(req[h])
    BY <1>13, <2>1, ParameterAssumption DEF Send, At, Running
  <2>2. CASE ~(sent[h] + 1 < ChunksOf(req[h]))
    BY <1>13, <2>2, FinishStatic DEF Send
  <2> QED
    BY <2>1, <2>2
<1>14. ASSUME NEW h \in Handler, SendFails(h)
      PROVE  StaticInv'
  BY <1>14, FinishStatic DEF SendFails
<1>15. ASSUME NEW h \in Handler, SendFaults(h)
      PROVE  StaticInv'
  BY <1>15 DEF SendFaults, Running
<1>16. ASSUME NEW p \in Path, Rewrite(p)
      PROVE  StaticInv'
  BY <1>16 DEF Rewrite
<1>17. ASSUME NEW p \in Path, Remove(p)
      PROVE  StaticInv'
  BY <1>17 DEF Remove
<1>18. ASSUME Terminate
      PROVE  StaticInv'
  BY <1>18 DEF Terminate, Running
<1>19. ASSUME NEW h \in Handler, TerminateHolder(h)
      PROVE  StaticInv'
  BY <1>19, ParameterAssumption DEF TerminateHolder, Goto, Running, TypeOK
<1>20. CASE UNCHANGED vars
  BY <1>20 DEF vars, Running
<1>21. ASSUME NEW h \in Handler, Described(h)
       PROVE  StaticInv'
  BY <1>21 DEF Described, At, Running, Goto, TypeOK
<1>22. ASSUME NEW h \in Handler, NEW b \in Block, ReadDirectory(h, b)
       PROVE  StaticInv'
  BY <1>22 DEF ReadDirectory
<1>23. ASSUME NEW h \in Handler, UseFreedCache(h)
       PROVE  StaticInv'
  BY <1>23 DEF UseFreedCache
<1>24. ASSUME NEW h \in Handler, TerminateDescribing(h)
       PROVE  StaticInv'
  BY <1>24 DEF TerminateDescribing
<1> QED
  BY <1>1, <1>2, <1>3, <1>4, <1>5, <1>6, <1>7, <1>8, <1>9, <1>10, <1>11,
     <1>12, <1>13, <1>14, <1>15, <1>16, <1>17, <1>18, <1>19, <1>20, <1>21,
     <1>22, <1>23, <1>24
     DEF Next, HandlerStep, Environment

(* While no file changes the entries are sound in every state.             *)
LEMMA StaticInvariant ==
  ASSUME Static
  PROVE  Spec => [](TypeInv /\ SchedInv /\ StaticInv)
<1>1. Init => TypeInv /\ SchedInv /\ StaticInv
  BY TypeInit, SchedInit, StaticInit
<1>2. TypeInv /\ SchedInv /\ StaticInv /\ [Next]_vars
         => TypeInv' /\ SchedInv' /\ StaticInv'
  BY TypeStep, SchedStep, StaticStep
<1> QED
  BY <1>1, <1>2, PTL DEF Spec

(* While no file changes and no page is a directory, the entries own       *)
(* distinct live blocks and no path is cached twice, for any capacity and  *)
(* with any evictions, until exitcall frees the cache.                     *)
THEOREM EntriesSound == ASSUME Static PROVE Spec => []SlotsSound
<1>1. StaticInv => SlotsSound
  BY DEF StaticInv
<1> QED
  BY <1>1, StaticInvariant, PTL

(* No step frees what is not allocated while the entries are sound.        *)
LEMMA NoAbortStep ==
  ASSUME Static, TypeOK, StaticInv, [Next]_vars, Intact, proc' = "aborted"
  PROVE  FALSE
<1> USE DEF StaticInv, FilesStay, SlotsSound, FreesCleanly, SlotBlocks, Intact
<1>1. ASSUME NEW h \in Handler, DoubleFree(h) PROVE FALSE
  <2>1. CASE At(h, "find")
    BY <1>1, <2>1 DEF DoubleFree, Inside, At
  <2>2. CASE At(h, "store") /\ Len(entries) >= Capacity /\ entries[1].blk \notin live
    <3>1. 1 \in DOMAIN entries
      BY <2>2, ParameterAssumption DEF TypeOK
    <3> QED
      BY <2>2, <3>1
  <2> QED
    BY <1>1, <2>1, <2>2 DEF DoubleFree, Inside
<1>2. ASSUME NEW h \in Handler, NEW b \in Block, ReadDirectory(h, b) PROVE FALSE
  BY <1>2 DEF ReadDirectory, Static
<1>3. ASSUME NEW h \in Handler, HandlerStep(h) PROVE FALSE
  BY <1>1, <1>2, <1>3
     DEF HandlerStep, Described, Stat, LockForLookup, Hit, EvictStale, Miss, Read,
         ReadFails, LockForStore, Store, UseFreedCache, Send, SendFails, SendFaults
<1>4. ASSUME Environment PROVE FALSE
  BY <1>4
     DEF Environment, Rewrite, Remove, Terminate, TerminateHolder, TerminateDescribing
<1>5. CASE UNCHANGED vars
  BY <1>5 DEF vars
<1> QED
  BY <1>3, <1>4, <1>5 DEF Next, Begin, Resume

(* While no file changes and no page is a directory, nothing is freed      *)
(* twice as long as there is a cache: not by evictions and not by          *)
(* exitcall's own cache_free.  Once exitcall waits for the other cache's   *)
(* lock the handlers use what it has freed, and nothing is promised.       *)
THEOREM NeverAborts == ASSUME Static PROVE Spec => NoAbort
<1>1. TypeInv /\ StaticInv /\ [Next]_vars => [Intact => proc' # "aborted"]_vars
  BY NoAbortStep DEF TypeInv
<1> QED
  BY <1>1, StaticInvariant, PTL DEF Spec, NoAbort

-----------------------------------------------------------------------------
(* The cache as a queue of paths: the refinement mapping of FifoSpec.      *)
Paths == [i \in DOMAIN entries |-> heap[entries[i].blk].path]

(* The paths of the cached files are a sequence of paths.                  *)
LEMMA PathsType ==
  ASSUME TypeOK
  PROVE  /\ Paths \in Seq(Path \cup {None})
         /\ Len(Paths) = Len(entries)
         /\ DOMAIN Paths = DOMAIN entries
<1>1. DOMAIN entries = 1 .. Len(entries) /\ Len(entries) \in Nat
  BY DEF TypeOK
<1>2. \A i \in DOMAIN entries : heap[entries[i].blk].path \in Path \cup {None}
  BY EntryType DEF TypeOK
<1>3. Paths \in [1 .. Len(entries) -> Path \cup {None}]
  BY <1>1, <1>2 DEF Paths
<1> QED
  BY <1>1, <1>3

(* An index of a longer sequence is one of the shorter or the last.        *)
LEMMA SplitLast ==
  \A n \in Nat : \A j \in 1 .. n : j = n \/ j \in 1 .. n - 1
OBVIOUS

(* Sequences of one length that agree everywhere are equal.                *)
LEMMA SameSeq ==
  ASSUME NEW S, NEW s \in Seq(S), NEW t \in Seq(S), Len(s) = Len(t),
         \A j \in 1 .. Len(t) : s[j] = t[j]
  PROVE  s = t
OBVIOUS

(* Storing a file is the abstract Store of its path.                       *)
LEMMA StoreRefines ==
  ASSUME TypeOK, TypeOK', LocalOK, StaticInv, NEW h \in Handler, Store(h)
  PROVE  Fifo!Store(req[h])
<1> DEFINE e == [blk |-> buf[h], mtime |-> SecondOf[seen[h]]]
<1>1. /\ Intact /\ cpu = h /\ pc[h] = "store" /\ heap' = heap
  BY DEF Store, Inside, At
<1>2. /\ heap[buf[h]].path = req[h] /\ req[h] \in Path /\ buf[h] \in Block
      /\ \A i \in DOMAIN entries : heap[entries[i].blk].path # req[h]
  BY <1>1 DEF StaticInv, Filling, LocalOK, Store, Inside
<1>3. entries \in Seq(Slot) /\ DOMAIN entries = 1 .. Len(entries) /\ Len(entries) \in Nat
  BY DEF TypeOK
<1>4. ~Fifo!Cached(req[h])
  BY <1>2 DEF Fifo!Cached
<1>5. /\ Paths \in Seq(Path \cup {None}) /\ Len(Paths) = Len(entries)
      /\ DOMAIN Paths = DOMAIN entries
      /\ \A i \in DOMAIN entries : Paths[i] = heap[entries[i].blk].path
  BY PathsType DEF Paths
<1>6. /\ Paths' \in Seq(Path \cup {None}) /\ Len(Paths') = Len(entries')
      /\ DOMAIN Paths' = DOMAIN entries'
      /\ \A i \in DOMAIN entries' : Paths'[i] = heap[entries'[i].blk].path
  <2>1. /\ DOMAIN entries' = 1 .. Len(entries') /\ Len(entries') \in Nat
    BY DEF TypeOK
  <2>2. \A i \in DOMAIN entries' :
           entries'[i].blk \in Block /\ heap'[entries'[i].blk].path \in Path \cup {None}
    <3>1. \A i \in DOMAIN entries' : entries'[i] \in Slot
      BY <2>1 DEF TypeOK
    <3> QED
      BY <3>1 DEF TypeOK, Slot
  <2>3. Paths' = [i \in DOMAIN entries' |-> heap'[entries'[i].blk].path]
    BY DEF Paths
  <2>4. Paths' \in [1 .. Len(entries') -> Path \cup {None}]
    BY <2>1, <2>2, <2>3
  <2> QED
    BY <1>1, <2>1, <2>3, <2>4
<1>7. CASE Len(entries) < Capacity
  <2>1. entries' = Append(entries, e)
    BY <1>7, ParameterAssumption DEF Store, TypeOK
  <2>2. /\ DOMAIN entries' = 1 .. Len(entries) + 1 /\ Len(entries') = Len(entries) + 1
        /\ entries'[Len(entries) + 1] = e
        /\ \A j \in DOMAIN entries : entries'[j] = entries[j]
    BY <1>3, <2>1
  <2>3. Paths' = Append(Paths, req[h])
    <3>1. /\ Append(Paths, req[h]) \in Seq(Path \cup {None})
          /\ Len(Append(Paths, req[h])) = Len(entries) + 1
          /\ Append(Paths, req[h])[Len(entries) + 1] = req[h]
          /\ \A j \in DOMAIN entries : Append(Paths, req[h])[j] = Paths[j]
      BY <1>2, <1>3, <1>5
    <3>2. \A j \in 1 .. Len(entries) + 1 : Paths'[j] = Append(Paths, req[h])[j]
      BY <1>1, <1>2, <1>3, <1>5, <1>6, <2>2, <3>1
    <3> QED
      BY <1>6, <2>2, <3>1, <3>2, SameSeq
  <2> QED
    BY <1>4, <1>5, <1>7, <2>3 DEF Fifo!Store, Paths
<1>8. CASE Len(entries) >= Capacity
  <2>1. entries' = Append(Tail(entries), e) /\ entries # <<>> /\ Paths # <<>>
    BY <1>3, <1>5, <1>8, ParameterAssumption DEF Store, TypeOK
  <2>2. /\ DOMAIN entries' = DOMAIN entries /\ Len(entries') = Len(entries)
        /\ entries'[Len(entries)] = e
        /\ \A j \in 1 .. Len(entries) - 1 :
              j + 1 \in DOMAIN entries /\ entries'[j] = entries[j + 1]
    <3> HIDE DEF e
    <3>1. Len(Append(Tail(entries), e)) = Len(entries)
      BY <1>3, <2>1
    <3> QED
      BY <1>3, <2>1, <3>1, AppendedTail
  <2>3. Paths' = Append(Tail(Paths), req[h])
    <3>1. /\ Append(Tail(Paths), req[h]) \in Seq(Path \cup {None})
          /\ Len(Append(Tail(Paths), req[h])) = Len(entries)
      BY <1>2, <1>3, <1>5, <2>1
    <3>2. /\ Append(Tail(Paths), req[h])[Len(entries)] = req[h]
          /\ \A j \in 1 .. Len(entries) - 1 :
                Append(Tail(Paths), req[h])[j] = Paths[j + 1]
      <4> DEFINE t == Append(Tail(Paths), req[h])
      <4>1. /\ t[Len(Paths)] = req[h]
            /\ \A j \in 1 .. Len(Paths) - 1 : t[j] = Paths[j + 1]
        <5>1. Paths \in Seq(Path \cup {None}) /\ Paths # <<>>
          BY <1>5, <2>1
        <5> HIDE DEF Paths
        <5> QED
          BY <5>1, AppendedTail
      <4> QED
        BY <1>5, <4>1
    <3>3. \A j \in 1 .. Len(entries) - 1 : Paths'[j] = Append(Tail(Paths), req[h])[j]
      <4> SUFFICES ASSUME NEW j \in 1 .. Len(entries) - 1
                   PROVE  Paths'[j] = Append(Tail(Paths), req[h])[j]
        OBVIOUS
      <4>1. j \in DOMAIN entries' /\ j + 1 \in DOMAIN entries /\ entries'[j] = entries[j + 1]
        BY <1>3, <2>2
      <4>2. Paths'[j] = heap[entries[j + 1].blk].path
        BY <1>6, <4>1
      <4>3. Paths[j + 1] = heap[entries[j + 1].blk].path
        BY <1>5, <4>1
      <4> QED
        BY <3>2, <4>2, <4>3
    <3>4. Paths'[Len(entries)] = req[h]
      BY <1>2, <1>3, <1>6, <2>1, <2>2
    <3>5. \A j \in 1 .. Len(entries) : Paths'[j] = Append(Tail(Paths), req[h])[j]
      <4>1. \A j \in 1 .. Len(entries) : j = Len(entries) \/ j \in 1 .. Len(entries) - 1
        BY <1>3, SplitLast
      <4> QED
        BY <3>2, <3>3, <3>4, <4>1
    <3> QED
      BY <1>6, <2>2, <3>1, <3>5, SameSeq
  <2> QED
    <3>1. ~(Len(Paths) < Capacity)
      BY <1>3, <1>5, <1>8, ParameterAssumption
    <3> QED
      BY <1>4, <2>3, <3>1 DEF Fifo!Store, Paths
<1> QED
  BY <1>3, <1>7, <1>8, ParameterAssumption

(* While no file changes every step is a step of FifoCache or a stutter.   *)
LEMMA FifoStep ==
  ASSUME Static, TypeOK, TypeOK', LocalOK, StaticInv, [Next]_vars
  PROVE  Fifo!Next \/ Paths' = Paths
<1>1. ASSUME entries' = entries, heap' = heap
      PROVE  Paths' = Paths
  BY <1>1 DEF Paths
<1>2. ASSUME NEW h \in Handler, NEW p \in Path, Begin(h, p)
      PROVE  Paths' = Paths
  BY <1>1, <1>2 DEF Begin, memory
<1>3. ASSUME NEW h \in Handler, Resume(h)
      PROVE  Paths' = Paths
  BY <1>1, <1>3 DEF Resume, memory
<1>4. ASSUME NEW h \in Handler, NEW i \in DOMAIN entries, EvictStale(h, i)
      PROVE  FALSE
  BY <1>4 DEF EvictStale, StaticInv, FilesStay
<1>5. ASSUME NEW h \in Handler, NEW b \in Block, Read(h, b)
      PROVE  Paths' = Paths
  <2>1. entries' = entries /\ \A i \in DOMAIN entries : entries[i].blk # b
    BY <1>5 DEF Read, Referenced, SlotBlocks
  <2>2. \A i \in DOMAIN entries : heap'[entries[i].blk] = heap[entries[i].blk]
    BY <1>5, <2>1, EntryType DEF Read, TypeOK
  <2> QED
    BY <2>1, <2>2 DEF Paths
<1>6. ASSUME NEW h \in Handler, Store(h)
      PROVE  Fifo!Next
  <2>1. req[h] \in Path
    BY <1>6 DEF Store, Inside, At, LocalOK
  <2>2. Fifo!Store(req[h])
    BY <1>6, StoreRefines
  <2>3. \E p \in Path : Fifo!Store(p)
    BY <2>1, <2>2 DEF Fifo!Store, Fifo!Cached
  <2> QED
    BY <2>3 DEF Fifo!Next
<1>7. ASSUME NEW h \in Handler, HandlerStep(h)
      PROVE  Fifo!Next \/ Paths' = Paths
  BY <1>1, <1>4, <1>5, <1>6, <1>7
     DEF HandlerStep, Described, Stat, LockForLookup, Hit, Miss, ReadDirectory,
         ReadFails, LockForStore, DoubleFree, UseFreedCache, Send, SendFails,
         SendFaults, memory, Static
<1>8. CASE Environment
  BY <1>1, <1>8
     DEF Environment, Rewrite, Remove, Terminate, TerminateHolder,
         TerminateDescribing, memory
<1>9. CASE UNCHANGED vars
  BY <1>1, <1>9 DEF vars
<1> QED
  BY <1>2, <1>3, <1>7, <1>8, <1>9 DEF Next

(* While no file changes and no page is a directory, the cache implements  *)
(* the bounded FIFO of FifoCache: every step of every handler is a Store   *)
(* of an absent path that drops at most the oldest one, or leaves the set  *)
(* of files alone.                                                         *)
THEOREM ImplementsFifo == ASSUME Static PROVE Spec => FifoSpec
<1>1. Init => Fifo!Init
  BY DEF Init, Fifo!Init
<1>2. TypeInv /\ TypeInv' /\ StaticInv /\ [Next]_vars => [Fifo!Next]_Paths
  BY FifoStep DEF TypeInv
<1>3. Paths = [i \in DOMAIN entries |-> heap[entries[i].blk].path]
  BY DEF Paths
<1> QED
  BY <1>1, <1>2, <1>3, StaticInvariant, PTL DEF Spec, FifoSpec, Fifo!Spec, Paths

-----------------------------------------------------------------------------
(* While no file changes and the cache has room for all of them.           *)

Room == Static /\ IsFiniteSet(Path) /\ Cardinality(Path) <= Capacity

(* A path that is not cached finds a free place: the entries have          *)
(* different paths, and all of them differ from it.                        *)
LEMMA RoomLeft ==
  ASSUME Room, TypeOK, SlotsSound, Intact, NEW p \in Path,
         \A i \in DOMAIN entries : heap[entries[i].blk].path # p,
         \A i \in DOMAIN entries : heap[entries[i].blk].path \in Path
  PROVE  Len(entries) < Capacity
<1> DEFINE P == Path \ {p}
           f == [i \in 1 .. Len(entries) |-> heap[entries[i].blk].path]
<1>1. Len(entries) \in Nat /\ DOMAIN entries = 1 .. Len(entries)
  BY DEF TypeOK
<1>2. f \in [1 .. Len(entries) -> P]
  BY <1>1
<1>3. IsFiniteSet(Path) /\ Cardinality(Path) \in Nat /\ Cardinality(Path) <= Capacity
  BY FS_CardinalityType DEF Room
<1>4. IsFiniteSet(P) /\ Cardinality(P) = Cardinality(Path) - 1
  BY <1>3, FS_RemoveElement
<1>5. IsFiniteSet(1 .. Len(entries)) /\ Cardinality(1 .. Len(entries)) = Len(entries)
  BY <1>1, FS_Interval
<1>6. \A i, j \in 1 .. Len(entries) : f[i] = f[j] => i = j
  BY <1>1 DEF SlotsSound
<1> HIDE DEF f, P
<1>7. ~(Cardinality(P) < Len(entries))
  BY <1>2, <1>4, <1>5, <1>6, FS_PigeonHole
<1> QED
  BY <1>1, <1>3, <1>4, <1>7, ParameterAssumption

(* What a handler holds while it sends is allocated, and so is what the    *)
(* entries hold; the entries hold files.                                   *)
LiveInv ==
  Intact =>
    /\ BufferLive
    /\ \A i \in DOMAIN entries : heap[entries[i].blk].path \in Path

LEMMA LiveStep ==
  ASSUME Room
  PROVE  TypeInv /\ SchedInv /\ StaticInv /\ LiveInv /\ [Next]_vars => LiveInv'
<1> SUFFICES ASSUME TypeOK, LocalOK, SchedInv, StaticInv, LiveInv, [Next]_vars,
                    Intact', Static
             PROVE  LiveInv'
  BY DEF TypeInv, LiveInv, Room
<1> USE DEF LiveInv, BufferLive, Running, Intact, Inside
(* Most steps free nothing, give nobody a buffer and cache nothing.        *)
<1>1. ASSUME Intact, UNCHANGED <<heap, entries>>, live \subseteq live',
             \A h \in Handler : pc'[h] \in {"store", "send"} =>
               buf'[h] = buf[h] /\ (pc[h] \in {"store", "send"} \/ buf[h] \in live)
      PROVE  LiveInv'
  BY <1>1
<1>2. ASSUME NEW h \in Handler, Intact, Finish(h), UNCHANGED memory PROVE LiveInv'
  BY <1>2 DEF Finish, Goto, TypeOK, memory
<1>3. ASSUME NEW h \in Handler, NEW p \in Path, Begin(h, p) PROVE LiveInv'
  BY <1>3 DEF Begin, Goto, TypeOK, memory
<1>4. ASSUME NEW h \in Handler, Resume(h) PROVE LiveInv'
  BY <1>4 DEF Resume, memory, local
<1>5. ASSUME NEW h \in Handler, Stat(h) PROVE LiveInv'
  <2>1. CASE disk[req[h]].exists
    BY <1>5, <2>1 DEF Stat, At, Goto, TypeOK, memory
  <2>2. CASE ~disk[req[h]].exists
    BY <1>2, <1>5, <2>2 DEF Stat, At
  <2> QED
    BY <2>1, <2>2
<1>6. ASSUME NEW h \in Handler, LockForLookup(h) PROVE LiveInv'
  BY <1>6 DEF LockForLookup, At, Lock, Goto, TypeOK, memory, local
<1>7. ASSUME NEW h \in Handler, NEW i \in DOMAIN entries, Hit(h, i) PROVE LiveInv'
  <2>1. entries[i].blk \in live
    BY <1>7 DEF Hit, At, StaticInv, SlotsSound, FreesCleanly, SlotBlocks
  <2>2. /\ buf'[h] = entries[i].blk /\ pc'[h] = "send" /\ Intact /\ proc' = proc
        /\ \A g \in Handler \ {h} : buf'[g] = buf[g] /\ pc'[g] = pc[g]
        /\ UNCHANGED <<heap, live, entries>>
    BY <1>7 DEF Hit, At, Goto, TypeOK, memory
  <2> QED
    BY <2>1, <2>2
<1>8. ASSUME NEW h \in Handler, NEW i \in DOMAIN entries, EvictStale(h, i) PROVE LiveInv'
  BY <1>8 DEF EvictStale, StaticInv, FilesStay
<1>9. ASSUME NEW h \in Handler, Miss(h) PROVE LiveInv'
  BY <1>9 DEF Miss, At, Goto, TypeOK, memory, local
<1>10. ASSUME NEW h \in Handler, NEW b \in Block, Read(h, b) PROVE LiveInv'
  <2>1. /\ b \notin live
        /\ \A i \in DOMAIN entries : entries[i].blk # b
    BY <1>10 DEF Read, Referenced, SlotBlocks
  <2>2. \A c \in Block \ {b} : heap'[c] = heap[c]
    BY <1>10 DEF Read, TypeOK
  <2>3. /\ live' = live \cup {b} /\ pc'[h] = "insert" /\ Intact
        /\ \A g \in Handler \ {h} : buf'[g] = buf[g] /\ pc'[g] = pc[g]
        /\ UNCHANGED entries
    BY <1>10 DEF Read, At, Goto, TypeOK
  <2>4. \A i \in DOMAIN entries : heap'[entries[i].blk] = heap[entries[i].blk]
    BY <2>1, <2>2, EntryType
  <2> QED
    BY <2>3, <2>4
<1>11. ASSUME NEW h \in Handler, ReadFails(h) PROVE LiveInv'
  BY <1>2, <1>11 DEF ReadFails, At
<1>12. ASSUME NEW h \in Handler, LockForStore(h) PROVE LiveInv'
  <2>1. Intact /\ buf[h] \in live
    BY <1>12 DEF LockForStore, At, StaticInv, Filling
  <2>2. /\ \A g \in Handler \ {h} : pc'[g] = pc[g]
        /\ UNCHANGED <<heap, live, entries, buf>>
    BY <1>12 DEF LockForStore, Lock, Goto, TypeOK, memory, local
  <2> QED
    BY <1>1, <2>1, <2>2
<1>13. ASSUME NEW h \in Handler, Store(h) PROVE LiveInv'
  <2> DEFINE e == [blk |-> buf[h], mtime |-> SecondOf[seen[h]]]
  <2>1. /\ Intact /\ cpu = h /\ pc[h] = "store"
        /\ UNCHANGED <<heap, buf>> /\ \A g \in Handler \ {h} : pc'[g] = pc[g]
    BY <1>13 DEF Store, At, Goto, TypeOK, local
  <2>2. /\ buf[h] \in live /\ heap[buf[h]].path = req[h] /\ req[h] \in Path
        /\ \A i \in DOMAIN entries : heap[entries[i].blk].path # req[h]
    BY <2>1 DEF StaticInv, Filling, LocalOK
  <2>3. Len(entries) < Capacity
    BY <2>1, <2>2, RoomLeft DEF StaticInv
  <2>4. entries \in Seq(Slot) /\ Len(entries) \in Nat /\ DOMAIN entries = 1 .. Len(entries)
    BY DEF TypeOK
  <2>5. entries' = Append(entries, e) /\ live' = live
    BY <1>13, <2>3, <2>4, ParameterAssumption DEF Store
  <2>6. /\ DOMAIN entries' = 1 .. Len(entries) + 1
        /\ entries'[Len(entries) + 1] = e
        /\ \A j \in DOMAIN entries : entries'[j] = entries[j]
    BY <2>4, <2>5
  <2>7. ASSUME NEW j \in DOMAIN entries' PROVE heap'[entries'[j].blk].path \in Path
    <3>1. CASE j = Len(entries) + 1
      BY <2>1, <2>2, <2>6, <3>1
    <3>2. CASE j \in DOMAIN entries
      BY <2>1, <2>6, <3>2
    <3> QED
      BY <2>4, <2>6, <3>1, <3>2
  <2> QED
    BY <2>1, <2>2, <2>5, <2>7
<1>14. ASSUME NEW h \in Handler, DoubleFree(h) PROVE LiveInv'
  BY <1>14 DEF DoubleFree, Running
<1>15. ASSUME NEW h \in Handler, Send(h) PROVE LiveInv'
  <2>1. CASE sent[h] + 1 < ChunksOf(req[h])
    BY <1>15, <2>1 DEF Send, At, memory
  <2>2. CASE ~(sent[h] + 1 < ChunksOf(req[h]))
    BY <1>2, <1>15, <2>2 DEF Send, At
  <2> QED
    BY <2>1, <2>2
<1>16. ASSUME NEW h \in Handler, SendFails(h) PROVE LiveInv'
  BY <1>2, <1>16 DEF SendFails, At
<1>17. ASSUME NEW h \in Handler, SendFaults(h) PROVE LiveInv'
  BY <1>17 DEF SendFaults, Running
<1>18. ASSUME Environment PROVE LiveInv'
  <2>1. ~Terminate
    BY DEF Terminate, Running
  <2>2. ASSUME NEW h \in Handler, TerminateHolder(h) PROVE LiveInv'
    BY <2>2 DEF TerminateHolder, Goto, TypeOK, memory, local
  <2>3. ASSUME NEW h \in Handler, TerminateDescribing(h) PROVE LiveInv'
    BY <2>3 DEF TerminateDescribing
  <2> QED
    BY <1>18, <2>1, <2>2, <2>3 DEF Environment, Rewrite, Remove, Static
<1>19. CASE UNCHANGED vars
  BY <1>19 DEF vars, Running
<1>20. ASSUME NEW h \in Handler, Described(h) PROVE LiveInv'
  BY <1>20 DEF Described, At, Goto, TypeOK, memory, local
<1>21. ASSUME NEW h \in Handler, NEW b \in Block, ReadDirectory(h, b) PROVE LiveInv'
  BY <1>21 DEF ReadDirectory, Static
<1>22. ASSUME NEW h \in Handler, UseFreedCache(h) PROVE LiveInv'
  BY <1>22 DEF UseFreedCache
<1> QED
  BY <1>3, <1>4, <1>5, <1>6, <1>7, <1>8, <1>9, <1>10, <1>11, <1>12, <1>13,
     <1>14, <1>15, <1>16, <1>17, <1>18, <1>19, <1>20, <1>21, <1>22
     DEF Next, HandlerStep

(* While no file changes, no page is a directory and the cache has room    *)
(* for every file, no buffer is freed while it is sent, as long as there   *)
(* is a cache: changes, directories, evictions and an exit that has freed  *)
(* the cache and waits for the other one's lock are the dangers to it.     *)
THEOREM BuffersStayLive == ASSUME Room PROVE Spec => [](Intact => BufferLive)
<1>1. Static
  BY DEF Room
<1>2. Init => LiveInv
  BY ParameterAssumption DEF Init, LiveInv, BufferLive
<1>3. TypeInv /\ SchedInv /\ StaticInv /\ LiveInv /\ [Next]_vars => LiveInv'
  BY LiveStep
<1>4. LiveInv => (Intact => BufferLive)
  BY DEF LiveInv
<1>5. Spec => [](TypeInv /\ SchedInv /\ StaticInv)
  BY <1>1, StaticInvariant
<1> QED
  BY <1>2, <1>3, <1>4, <1>5, PTL DEF Spec
=============================================================================
