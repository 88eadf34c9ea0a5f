----------------------------- MODULE FileCache -----------------------------
(***************************************************************************)
(* The file cache of livefs (src/filesystem/cache/filecache.c) and the     *)
(* green threads that use it: one client handler per connection, running   *)
(* cache_get_file and then sending the returned buffer chunk by chunk      *)
(* (send_file_request, send_buffered_bytes), yielding between chunks.      *)
(*                                                                         *)
(* The cache holds pointers.  An entry owns one block of heap memory (its  *)
(* path and its data, allocated and freed together) and cache_get_file     *)
(* hands out the raw data pointer, so the model keeps a heap: which blocks *)
(* are live, and what each one was filled with.                            *)
(*                                                                         *)
(* It is file_data_cache that is modelled.  directory_descriptor_cache is  *)
(* used before it by the same handlers; of that one only the lock is here, *)
(* because at exit it can be held when this cache is already freed.        *)
(*                                                                         *)
(* A freed block that somebody still points to keeps its identity, so that *)
(* a dangling pointer can be told from a valid one; using it is undefined  *)
(* behaviour and the model takes every outcome the build can produce.      *)
(***************************************************************************)
EXTENDS Naturals, Sequences, FiniteSets

CONSTANTS
  Path,        \* file paths a request can resolve to
  Handler,     \* client handlers (green threads)
  Block,       \* heap blocks
  Capacity,    \* file_cache_t.capacity
  Chunks,      \* chunks of BUFFER_SIZE in a served file
  Modifiable,  \* paths that are rewritten or removed while the server runs
  Directory,   \* paths of directories: what a "page" key may name
  MaxVersion,  \* bound: how often a file is rewritten
  SecondOf,    \* the st_mtime (whole seconds) a file has at its v-th version
  Signals,     \* may SIGINT or SIGTERM arrive?
  Main,        \* the scheduler and the accept loop, as an owner of the CPU
  None

Version == 0 .. MaxVersion

(* What the model needs of its parameters: cache_new is called with 128    *)
(* and 64, and the clock never runs backwards.                             *)
ASSUME ParameterAssumption ==
  /\ Capacity \in Nat \ {0} /\ Chunks \in Nat \ {0} /\ MaxVersion \in Nat
  /\ Modifiable \subseteq Path /\ Directory \subseteq Path
  /\ Signals \in BOOLEAN
  /\ SecondOf \in [Version -> Nat]
  /\ \A v, w \in Version : v <= w => SecondOf[v] <= SecondOf[w]
  /\ Main \notin Handler
  /\ None \notin Path \cup Block

VARIABLES
  disk,      \* the file system: does the file exist, how often was it written
  heap,      \* what a block was filled with: the path and the version read
  live,      \* the blocks that are allocated
  entries,   \* cache->entries[0 .. count-1], so Len(entries) is cache->count
  lock,      \* threadlock.lock
  waiters,   \* threadlock.list
  cpu,       \* the green thread that runs, or Main
  pc,        \* where a handler is in cache_get_file and the sending loop
  req,       \* the path it serves
  seen,      \* the version its stat() saw; the code keeps SecondOf[seen]
  buf,       \* its data pointer
  sent,      \* chunks it has sent
  proc       \* the process: up; exiting (exitcall waits for this lock);
             \* freed (it has freed this cache and waits for the other lock);
             \* exited; aborted by the allocator, faulted by an access

vars == <<disk, heap, live, entries, lock, waiters, cpu, pc, req, seen, buf,
          sent, proc>>
memory == <<heap, live, entries>>
mutex  == <<lock, waiters>>
local  == <<req, seen, buf, sent>>

Label == {"idle", "descriptor", "stat", "lookup", "find", "read", "insert",
          "store", "send", "exiting", "stuck"}
Critical == {"find", "store"}     \* between gtmutex_lock and gtmutex_unlock
Slot == [blk : Block, mtime : Nat]
SlotBlocks == {entries[i].blk : i \in DOMAIN entries}

(* Well-formedness of the state, and count never passes the capacity of    *)
(* the calloc'ed array (filecache.c:37, 115, 124).                         *)
TypeOK ==
  /\ disk \in [Path -> [exists : BOOLEAN, version : Version]]
  /\ heap \in [Block -> [path : Path \cup {None}, version : Version]]
  /\ live \subseteq Block
  /\ entries \in Seq(Slot) /\ Len(entries) <= Capacity
  /\ lock \in BOOLEAN /\ waiters \in Seq(Handler)
  /\ cpu \in Handler \cup {Main}
  /\ pc \in [Handler -> Label]
  /\ req \in [Handler -> Path \cup {None}]
  /\ seen \in [Handler -> Version]
  /\ buf \in [Handler -> Block \cup {None}]
  /\ sent \in [Handler -> 0 .. Chunks]
  /\ proc \in {"up", "exiting", "freed", "exited", "aborted", "faulted"}

(* cache_new: an empty cache and a free lock.  A file is on disk at its    *)
(* first version, unless it is one of those that come and go.              *)
Init ==
  /\ disk \in [Path -> [exists : BOOLEAN, version : {0}]]
  /\ \A p \in Path \ Modifiable : disk[p].exists
  /\ heap = [b \in Block |-> [path |-> None, version |-> 0]]
  /\ live = {} /\ entries = <<>>
  /\ lock = FALSE /\ waiters = <<>>
  /\ cpu = Main
  /\ pc = [h \in Handler |-> "idle"]
  /\ req = [h \in Handler |-> None]
  /\ seen = [h \in Handler |-> 0]
  /\ buf = [h \in Handler |-> None]
  /\ sent = [h \in Handler |-> 0]
  /\ proc = "up"

----------------------------------------------------------------------------
(* Scheduling.  Threads are cooperative: a handler keeps the CPU until it  *)
(* blocks on the mutex, yields in gtblockfd or ends.                       *)

Running == proc \in {"up", "exiting", "freed"}
Intact  == proc \in {"up", "exiting"}     \* the cache has not been freed
At(h, l) == Running /\ cpu = h /\ pc[h] = l
Inside(h, l) == At(h, l) /\ Intact
Goto(h, l) == pc' = [pc EXCEPT ![h] = l]

(* The lock of the descriptors' cache: whoever waits for it waits because  *)
(* of the exiting handler, the first of them, which holds it for ever.     *)
DescriptorsLocked == \E h \in Handler : pc[h] = "stuck"

(* A client's request has been read and accepted and its file is wanted.   *)
(* Where there is a descriptor file it is looked up first, in the cache of *)
(* descriptors; where stat() finds none that cache is not locked.          *)
Begin(h, p) ==
  /\ Running /\ cpu = Main /\ pc[h] = "idle"
  /\ req' = [req EXCEPT ![h] = p]
  /\ \/ Goto(h, "stat") /\ cpu' = h
     \/ ~DescriptorsLocked /\ Goto(h, "descriptor") /\ cpu' = h
     \/ DescriptorsLocked /\ Goto(h, "stuck") /\ UNCHANGED cpu
  /\ UNCHANGED <<disk, memory, mutex, seen, buf, sent, proc>>

(* The descriptor is found and its cache's lock released.                  *)
Described(h) ==
  /\ At(h, "descriptor") /\ Goto(h, "stat")
  /\ UNCHANGED <<disk, memory, mutex, cpu, local, proc>>

(* gtswitch picks a thread of the run queue: one that is on no mutex.      *)
Resume(h) ==
  /\ Running /\ cpu = Main /\ pc[h] \notin {"idle", "stuck"}
  /\ \A i \in DOMAIN waiters : waiters[i] # h
  /\ cpu' = h
  /\ UNCHANGED <<disk, memory, mutex, pc, local, proc>>

(* The request is over, with a response or an error page.                  *)
Finish(h) ==
  /\ Goto(h, "idle")
  /\ req' = [req EXCEPT ![h] = None]
  /\ seen' = [seen EXCEPT ![h] = 0]
  /\ buf' = [buf EXCEPT ![h] = None]
  /\ sent' = [sent EXCEPT ![h] = 0]
  /\ cpu' = Main

(* gtmutex_lock: take the lock, or join the list and yield.  Whoever is    *)
(* woken from the list owns the lock: it was never released.               *)
Lock(h, l) ==
  /\ Goto(h, l)
  /\ IF lock
     THEN waiters' = Append(waiters, h) /\ cpu' = Main /\ UNCHANGED lock
     ELSE lock' = TRUE /\ UNCHANGED <<waiters, cpu>>

(* gtmutex_unlock: hand the lock to the first waiter, or release it.       *)
Unlock ==
  IF waiters = <<>>
  THEN lock' = FALSE /\ UNCHANGED waiters
  ELSE waiters' = Tail(waiters) /\ UNCHANGED lock

----------------------------------------------------------------------------
(* Undefined behaviour.  strcmp on a freed path may find anything; free of *)
(* a freed block frees whoever owns the memory now or aborts the process.  *)

MayMatch(i, p)  == entries[i].blk \in live => heap[entries[i].blk].path = p
MayDiffer(i, p) == entries[i].blk \in live => heap[entries[i].blk].path # p

(* the possible values of live after free(b)                               *)
Freed(b) == IF b \in live THEN {live \ {b}} ELSE {live \ {c} : c \in live}

----------------------------------------------------------------------------
(* cache_get_file                                                          *)

Stat(h) ==
  /\ At(h, "stat")
  /\ IF disk[req[h]].exists
     THEN /\ seen' = [seen EXCEPT ![h] = disk[req[h]].version]
          /\ Goto(h, "lookup")
          /\ UNCHANGED <<cpu, req, buf, sent>>
     ELSE Finish(h)                              \* 404
  /\ UNCHANGED <<disk, memory, mutex, proc>>

LockForLookup(h) ==
  /\ At(h, "lookup") /\ Lock(h, "find")
  /\ UNCHANGED <<disk, memory, local, proc>>

(* cache_find_entry stops at the first entry that compares equal.          *)
FoundAt(i, p) == MayMatch(i, p) /\ \A j \in 1 .. i - 1 : MayDiffer(j, p)
NotFound(p) == \A j \in DOMAIN entries : MayDiffer(j, p)

(* Mutants of Hit: the return leaves the lock taken; the mtime is not      *)
(* compared.                                                               *)
HitKeepsLock(h, i) ==
  /\ Inside(h, "find") /\ FoundAt(i, req[h])
  /\ entries[i].mtime = SecondOf[seen[h]]
  /\ buf' = [buf EXCEPT ![h] = entries[i].blk]
  /\ Goto(h, "send")
  /\ UNCHANGED <<disk, memory, mutex, cpu, req, seen, sent, proc>>

HitWhateverMtime(h, i) ==
  /\ Inside(h, "find") /\ FoundAt(i, req[h])
  /\ buf' = [buf EXCEPT ![h] = entries[i].blk]
  /\ Unlock /\ Goto(h, "send")
  /\ UNCHANGED <<disk, memory, cpu, req, seen, sent, proc>>

(* The entry's mtime is the file's: return its data.                       *)
Hit(h, i) ==
  /\ Inside(h, "find") /\ FoundAt(i, req[h])
  /\ entries[i].mtime = SecondOf[seen[h]]
  /\ buf' = [buf EXCEPT ![h] = entries[i].blk]
  /\ Unlock /\ Goto(h, "send")
  /\ UNCHANGED <<disk, memory, cpu, req, seen, sent, proc>>

(* memmove(&entries[i], &entries[i+1], count-i-1): the entries after i     *)
(* move down one place; the last place keeps what it held.                 *)
MovedDown(i) ==
  [j \in DOMAIN entries |-> IF j >= i /\ j < Len(entries) THEN entries[j + 1]
                                                         ELSE entries[j]]

(* Mutants of EvictStale: read_file is called with the lock taken and the  *)
(* unlock is forgotten; the entry is overwritten but not freed.            *)
EvictStaleKeepsLock(h, i) ==
  /\ Inside(h, "find") /\ FoundAt(i, req[h])
  /\ entries[i].mtime # SecondOf[seen[h]]
  /\ live' \in Freed(entries[i].blk)
  /\ entries' = MovedDown(i)
  /\ Goto(h, "read")
  /\ UNCHANGED <<disk, heap, mutex, cpu, local, proc>>

EvictStaleNoFree(h, i) ==
  /\ Inside(h, "find") /\ FoundAt(i, req[h])
  /\ entries[i].mtime # SecondOf[seen[h]]
  /\ entries' = MovedDown(i)
  /\ Unlock /\ Goto(h, "read")
  /\ UNCHANGED <<disk, heap, live, cpu, local, proc>>

(* The file has changed: free the entry and close the gap.  count stays.   *)
EvictStale(h, i) ==
  /\ Inside(h, "find") /\ FoundAt(i, req[h])
  /\ entries[i].mtime # SecondOf[seen[h]]
  /\ live' \in Freed(entries[i].blk)
  /\ entries' = MovedDown(i)
  /\ Unlock /\ Goto(h, "read")
  /\ UNCHANGED <<disk, heap, cpu, local, proc>>

Miss(h) ==
  /\ Inside(h, "find") /\ NotFound(req[h])
  /\ Unlock /\ Goto(h, "read")
  /\ UNCHANGED <<disk, memory, cpu, local, proc>>

(* read_file runs outside the lock but waits in the kernel without         *)
(* yielding.  The file can be gone since stat().                           *)
Referenced == SlotBlocks \cup {buf[h] : h \in Handler} \cup live

(* Mutant of Read: the thread yields while the kernel reads.               *)
ReadYields(h, b) ==
  /\ At(h, "read") /\ disk[req[h]].exists /\ req[h] \notin Directory
  /\ b \notin Referenced
  /\ heap' = [heap EXCEPT ![b] =
                 [path |-> req[h], version |-> disk[req[h]].version]]
  /\ live' = live \cup {b}
  /\ buf' = [buf EXCEPT ![h] = b]
  /\ Goto(h, "insert") /\ cpu' = Main
  /\ UNCHANGED <<disk, entries, mutex, req, seen, sent, proc>>

Read(h, b) ==
  /\ At(h, "read") /\ disk[req[h]].exists /\ req[h] \notin Directory
  /\ b \notin Referenced
  /\ heap' = [heap EXCEPT ![b] =
                 [path |-> req[h], version |-> disk[req[h]].version]]
  /\ live' = live \cup {b}
  /\ buf' = [buf EXCEPT ![h] = b]
  /\ Goto(h, "insert")
  /\ UNCHANGED <<disk, entries, mutex, cpu, req, seen, sent, proc>>

(* A directory can be opened but not read.  The buffer is freed, copied    *)
(* and freed again: the allocator aborts, or what is returned is a copy of *)
(* freed memory, which the second free may have hit.  Its size is 0.       *)
ReadDirectory(h, b) ==
  /\ At(h, "read") /\ disk[req[h]].exists /\ req[h] \in Directory
  /\ b \notin Referenced
  /\ \/ /\ proc' = "aborted"
        /\ UNCHANGED <<memory, pc, buf>>
     \/ /\ heap' = [heap EXCEPT ![b] =
                      [path |-> req[h], version |-> disk[req[h]].version]]
        /\ live' \in {live \cup {b}, live}
        /\ buf' = [buf EXCEPT ![h] = b]
        /\ Goto(h, "insert")
        /\ UNCHANGED <<entries, proc>>
  /\ UNCHANGED <<disk, mutex, cpu, req, seen, sent>>

ReadFails(h) ==
  /\ At(h, "read") /\ ~disk[req[h]].exists
  /\ Finish(h)                                   \* 404
  /\ UNCHANGED <<disk, memory, mutex, proc>>

LockForStore(h) ==
  /\ At(h, "insert") /\ Lock(h, "store")
  /\ UNCHANGED <<disk, memory, local, proc>>

(* Mutants of Store: > for >= in the capacity check; the newest entry      *)
(* evicted; the memmove forgotten.                                         *)
StoreOverfills(h) ==
  /\ Inside(h, "store")
  /\ LET new == [blk |-> buf[h], mtime |-> SecondOf[seen[h]]]
     IN  IF Len(entries) <= Capacity
         THEN entries' = Append(entries, new) /\ UNCHANGED live
         ELSE /\ live' \in Freed(entries[1].blk)
              /\ entries' = Append(Tail(entries), new)
  /\ Unlock /\ Goto(h, "send")
  /\ UNCHANGED <<disk, heap, cpu, local, proc>>

StoreEvictsNewest(h) ==
  /\ Inside(h, "store")
  /\ LET new == [blk |-> buf[h], mtime |-> SecondOf[seen[h]]]
     IN  IF Len(entries) < Capacity
         THEN entries' = Append(entries, new) /\ UNCHANGED live
         ELSE /\ live' \in Freed(entries[Len(entries)].blk)
              /\ entries' = [entries EXCEPT ![Len(entries)] = new]
  /\ Unlock /\ Goto(h, "send")
  /\ UNCHANGED <<disk, heap, cpu, local, proc>>

StoreNoMemmove(h) ==
  /\ Inside(h, "store")
  /\ LET new == [blk |-> buf[h], mtime |-> SecondOf[seen[h]]]
     IN  IF Len(entries) < Capacity
         THEN entries' = Append(entries, new) /\ UNCHANGED live
         ELSE /\ live' \in Freed(entries[1].blk)
              /\ entries' = [entries EXCEPT ![Len(entries)] = new]
  /\ Unlock /\ Goto(h, "send")
  /\ UNCHANGED <<disk, heap, cpu, local, proc>>

(* A full cache evicts entries[0], the oldest; then the file is appended,  *)
(* with the mtime that stat() returned before the file was read.           *)
Store(h) ==
  /\ Inside(h, "store")
  /\ LET new == [blk |-> buf[h], mtime |-> SecondOf[seen[h]]]
     IN  \/ /\ Len(entries) < Capacity
            /\ entries' = Append(entries, new)
            /\ UNCHANGED live
         \/ /\ Len(entries) >= Capacity
            /\ live' \in Freed(entries[1].blk)
            /\ entries' = Append(Tail(entries), new)
  /\ Unlock /\ Goto(h, "send")
  /\ UNCHANGED <<disk, heap, cpu, local, proc>>

(* free() notices that it is given a block that is not allocated.          *)
DoubleFree(h) ==
  /\ \/ /\ Inside(h, "find")
        /\ \E i \in DOMAIN entries :
              /\ FoundAt(i, req[h]) /\ entries[i].blk \notin live
              /\ entries[i].mtime # SecondOf[seen[h]]
     \/ /\ Inside(h, "store")
        /\ Len(entries) >= Capacity /\ entries[1].blk \notin live
  /\ proc' = "aborted"
  /\ UNCHANGED <<disk, memory, mutex, cpu, pc, local>>

(* Between the locks of a cache that exitcall has freed, the array of the  *)
(* entries included: the thread may die, take any address for a buffer     *)
(* (None, for what is there is nobody's), miss, or free any block.  The    *)
(* entries are not followed any more.                                      *)
UseFreedCache(h) ==
  /\ proc = "freed" /\ cpu = h /\ pc[h] \in Critical
  /\ \/ /\ proc' \in {"aborted", "faulted"}
        /\ UNCHANGED <<live, mutex, pc, buf>>
     \/ /\ pc[h] = "find" /\ Goto(h, "send")
        /\ buf' = [buf EXCEPT ![h] = None]
        /\ Unlock /\ UNCHANGED <<live, proc>>
     \/ /\ Goto(h, IF pc[h] = "find" THEN "read" ELSE "send")
        /\ live' \in {live} \cup {live \ {c} : c \in live}
        /\ Unlock /\ UNCHANGED <<buf, proc>>
  /\ UNCHANGED <<disk, heap, entries, cpu, req, seen, sent>>

----------------------------------------------------------------------------
(* read_file reports the size of a directory as 0.                         *)
ChunksOf(p) == IF p \in Directory THEN 0 ELSE Chunks

(* send_buffered_bytes: copy a chunk out of the buffer and send it; yield  *)
(* until the socket is writable unless that was the last one.              *)
Send(h) ==
  /\ At(h, "send")
  /\ IF sent[h] + 1 < ChunksOf(req[h])
     THEN /\ sent' = [sent EXCEPT ![h] = @ + 1]
          /\ cpu' = Main
          /\ UNCHANGED <<pc, req, seen, buf>>
     ELSE Finish(h)
  /\ UNCHANGED <<disk, memory, mutex, proc>>

(* The client is gone: send fails and the loop breaks.                     *)
SendFails(h) ==
  /\ At(h, "send") /\ Finish(h)
  /\ UNCHANGED <<disk, memory, mutex, proc>>

(* memcpy from a freed buffer that was unmapped.                           *)
SendFaults(h) ==
  /\ At(h, "send") /\ buf[h] \notin live /\ ChunksOf(req[h]) > 0
  /\ proc' = "faulted"
  /\ UNCHANGED <<disk, memory, mutex, cpu, pc, local>>

----------------------------------------------------------------------------
(* The outside: whoever edits the served directory, and signals.           *)

Rewrite(p) ==
  /\ Running /\ p \in Modifiable /\ disk[p].version < MaxVersion
  /\ disk' = [disk EXCEPT ![p] =
                 [exists |-> TRUE, version |-> disk[p].version + 1]]
  /\ UNCHANGED <<memory, mutex, cpu, pc, local, proc>>

Remove(p) ==
  /\ Running /\ p \in Modifiable /\ disk[p].exists
  /\ disk' = [disk EXCEPT ![p].exists = FALSE]
  /\ UNCHANGED <<memory, mutex, cpu, pc, local, proc>>

(* Does cache_free free every block once?                                  *)
FreesCleanly ==
  /\ SlotBlocks \subseteq live
  /\ \A i, j \in DOMAIN entries : entries[i].blk = entries[j].blk => i = j

(* graious_shutdown calls exit() inside the signal handler, and exitcall   *)
(* runs on whichever thread was interrupted: it frees this cache, then the *)
(* one of the descriptors, each under its lock.  Here nobody holds one.    *)
Terminate ==
  /\ Signals /\ proc = "up" /\ ~lock
  /\ \A h \in Handler : pc[h] # "descriptor"
  /\ proc' = "exited" \/ (~FreesCleanly /\ proc' = "aborted")
  /\ live' = live \ SlotBlocks
  /\ UNCHANGED <<disk, heap, entries, mutex, cpu, pc, local>>

(* The interrupted handler holds the lock: cache_free queues the handler   *)
(* on its own mutex and the scheduler goes on with the other threads.      *)
TerminateHolder(h) ==
  /\ Signals /\ proc = "up" /\ lock /\ cpu = h
  /\ proc' = "exiting"
  /\ Goto(h, "exiting")
  /\ waiters' = Append(waiters, h) /\ cpu' = Main
  /\ UNCHANGED <<disk, memory, lock, local>>

(* It holds the lock of the descriptors' cache: this cache is freed, and   *)
(* then the handler waits for itself while the other threads go on.        *)
TerminateDescribing(h) ==
  /\ Signals /\ proc = "up" /\ cpu = h /\ pc[h] = "descriptor"
  /\ proc' = "freed" \/ (~FreesCleanly /\ proc' = "aborted")
  /\ live' = live \ SlotBlocks
  /\ Goto(h, "stuck") /\ cpu' = Main
  /\ UNCHANGED <<disk, heap, entries, mutex, local>>

----------------------------------------------------------------------------
HandlerStep(h) ==
  \/ Described(h) \/ Stat(h) \/ LockForLookup(h)
  \/ \E i \in DOMAIN entries : Hit(h, i) \/ EvictStale(h, i)
  \/ Miss(h)
  \/ \E b \in Block : Read(h, b) \/ ReadDirectory(h, b)
  \/ ReadFails(h) \/ LockForStore(h) \/ Store(h)
  \/ DoubleFree(h) \/ UseFreedCache(h)
  \/ Send(h) \/ SendFails(h) \/ SendFaults(h)

Environment ==
  \/ \E p \in Path : Rewrite(p) \/ Remove(p)
  \/ Terminate
  \/ \E h \in Handler : TerminateHolder(h) \/ TerminateDescribing(h)

Next ==
  \/ \E h \in Handler : (\E p \in Path : Begin(h, p)) \/ Resume(h)
                           \/ HandlerStep(h)
  \/ Environment

Spec == Init /\ [][Next]_vars

(* A running handler is not preempted for good, and gtswitch rotates the   *)
(* run queue, so a parked handler whose socket stays writable runs again   *)
(* although others run in between: strong fairness.                        *)
FairSpec ==
  /\ Spec
  /\ \A h \in Handler : WF_vars(HandlerStep(h)) /\ SF_vars(Resume(h))

----------------------------------------------------------------------------
(* Properties                                                              *)

(* The green threads never contend for the cache lock: a critical section  *)
(* has no yield in it, so the lock is held exactly while the running       *)
(* handler is inside one and nobody ever waits -- until a signal arrives.  *)
NeverContended ==
  proc = "up" =>
    /\ waiters = <<>>
    /\ lock <=> (cpu \in Handler /\ pc[cpu] \in Critical)

(* What a handler sends, if its buffer is still allocated, is the file it  *)
(* was asked for, and the contents are at least as recent as the mtime its *)
(* stat() saw: neither the race between stat() and read_file nor the       *)
(* broken bookkeeping of stale entries makes it serve another file or an   *)
(* older second of it -- until exitcall frees the cache under it.          *)
RightFile ==
  Intact =>
    \A h \in Handler :
      pc[h] \in {"insert", "store", "send"} /\ buf[h] \in live =>
        /\ heap[buf[h]].path = req[h]
        /\ SecondOf[heap[buf[h]].version] >= SecondOf[seen[h]]

(* No memory leaks while there is a cache: what is allocated is in one of  *)
(* its entries, or is the file of a handler on its way from read_file to   *)
(* the cache.                                                              *)
NoLeak ==
  Intact =>
    \A b \in live \ SlotBlocks :
      \E h \in Handler : buf[h] = b /\ pc[h] \in {"insert", "store", "exiting"}

(* Every entry that count covers owns an allocated block of its own, and   *)
(* no path is cached twice, until exitcall frees the cache.                *)
SlotsSound ==
  Intact =>
    /\ FreesCleanly
    /\ \A i, j \in DOMAIN entries :
          heap[entries[i].blk].path = heap[entries[j].blk].path => i = j

(* No free() is given memory that is not allocated as long as there is a   *)
(* cache, and not in exitcall's own cache_free: this needs files that stay *)
(* and pages that are no directories, and it ends when exitcall has freed  *)
(* the cache and waits for the other one's lock.                           *)
NoAbort == [][Intact => proc' # "aborted"]_vars

(* The buffer a handler is sending stays allocated until it is done.       *)
BufferLive ==
  \A h \in Handler : pc[h] \in {"store", "send"} /\ Running => buf[h] \in live

(* While no file changes, the cache behaves as a bounded FIFO of distinct  *)
(* paths: lookups never change it, and a store drops only the oldest.  (It *)
(* has its last contents when it is freed.)                                *)
Fifo == INSTANCE FifoCache WITH
          queue <- [i \in DOMAIN entries |-> heap[entries[i].blk].path]
FifoSpec == Fifo!Spec

(* Every request that is begun ends, unless the process dies first: no     *)
(* path through cache_get_file keeps the lock.                             *)
EveryRequestEnds ==
  \A h \in Handler : pc[h] # "idle" ~> pc[h] = "idle" \/ ~Running

(* A server that caught a signal closes.                                   *)
ShutsDown == proc \in {"exiting", "freed"} ~> proc = "exited"
============================================================================
