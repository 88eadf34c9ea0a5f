---------------------------- MODULE GreenThreads ----------------------------
(***************************************************************************)
(* The green threads of include/vendor/gt/gt.h: run queue, poll map, dead  *)
(* list, mutex, and gtswitch, which a thread enters when it yields and     *)
(* which returns in the thread that is picked.                             *)
(*                                                                         *)
(* Threads use the library as livefs does: Main, the listener, waits for   *)
(* connections and starts a thread for each; the others wait on their own  *)
(* descriptor, for one event at a time, take and release a mutex, and end. *)
(* In other worlds threads share descriptors and Main uses the mutex too,  *)
(* which the library allows and livefs does not do.                        *)
(*                                                                         *)
(* The kernel reports, at any epoll_wait, any of the events that it has    *)
(* been asked for.                                                         *)
(***************************************************************************)
EXTENDS Lists, Naturals, Sequences, FiniteSets

CONSTANTS
  Thread,    \* thread structures
  Main,      \* the one gtinit makes
  Worlds,    \* the descriptors there are; does livefs use them?
  None

Event == {"in", "out"}
Fd == UNION {w.fds : w \in Worlds}

ASSUME ThreadsAssumption ==
  /\ Main \in Thread
  /\ Fd \subseteq Nat /\ IsFiniteSet(Fd) /\ None \notin Fd
  /\ Worlds \subseteq [fds : (SUBSET Fd) \ {{}}, livefs : BOOLEAN]

VARIABLES
  world,
  queue,     \* scheduler.queue, in which the running thread stays
  dead,      \* scheduler.dead
  waiting,   \* the threads in the bucket of a descriptor
  events,    \* epoll_events of the bucket
  found,     \* the descriptors whose bucket the poll map's chains lead to
  size,      \* pollmap.buckets.len
  len,       \* pollmap.len
  epoll,     \* what the kernel was asked to report of a descriptor ...
  added,     \* ... if it was asked at all
  wants,     \* thread->epoll_events
  own,       \* the descriptor of a thread that lives
  lock,      \* mutex.lock
  waiters,   \* mutex.list
  stage,     \* is a thread out of the critical section, asking for it or in?
  current,   \* scheduler.thread_current
  phase,     \* run: in the current thread; else in gtswitch
  fired,     \* what epoll_wait returned and gtswitch has not looked at
  up         \* the process is alive

vars == <<world, queue, dead, waiting, events, found, size, len, epoll, added,
          wants, own, lock, waiters, stage, current, phase, fired, up>>
pollmap == <<found, size, len>>
poll    == <<waiting, events, pollmap, epoll, added, wants>>
mutex   == <<lock, waiters, stage>>

(* The state is well-formed.                                               *)
TypeOK ==
  /\ world \in Worlds
  /\ queue \in Seq(Thread) /\ dead \in Seq(Thread)
  /\ waiting \in [Fd -> Seq(Thread)]
  /\ events \in [Fd -> SUBSET Event]
  /\ found \subseteq Fd /\ size \in Nat /\ len \in Nat /\ len <= size
  /\ epoll \in [Fd -> SUBSET Event] /\ added \subseteq Fd
  /\ wants \in [Thread -> SUBSET Event]
  /\ own \in [Thread -> Fd \cup {None}]
  /\ lock \in BOOLEAN /\ waiters \in Seq(Thread)
  /\ stage \in [Thread -> {"out", "asks", "in"}]
  /\ current \in Thread
  /\ phase \in {"run", "poll", "fired", "pick"}
  /\ fired \subseteq [fd : Fd, events : (SUBSET Event) \ {{}}]
  /\ up \in BOOLEAN

(* gtinit, and gtmutex_init.                                               *)
Init ==
  /\ world \in Worlds
  /\ queue = <<Main>> /\ dead = <<>>
  /\ waiting = [f \in Fd |-> <<>>]
  /\ events = [f \in Fd |-> {}]
  /\ found = {} /\ size = 0 /\ len = 0
  /\ epoll = [f \in Fd |-> {}] /\ added = {}
  /\ wants = [t \in Thread |-> {}]
  /\ \E f \in world.fds :
       own = [t \in Thread |-> IF t = Main THEN f ELSE None]
  /\ lock = FALSE /\ waiters = <<>>
  /\ stage = [t \in Thread |-> "out"]
  /\ current = Main /\ phase = "run" /\ fired = {}
  /\ up = TRUE

----------------------------------------------------------------------------
(* Helpers                                                                 *)

Runs(t) == up /\ phase = "run" /\ current = t

(* gtyield: into gtswitch, which polls unless the poll map is empty.       *)
Yield == phase' = IF len' > 0 THEN "poll" ELSE "pick"

----------------------------------------------------------------------------
(* Mutant of Recycled: the thread stays in the dead list.                  *)
RecycledStaysDead(u) ==
  /\ IF dead = <<>> THEN own[u] = None ELSE u = Head(dead)
  /\ UNCHANGED dead

(* A thread from the dead list, or a new one if that is empty; its stack   *)
(* is always mapped.                                                       *)
Recycled(u) ==
  IF dead = <<>> THEN own[u] = None /\ UNCHANGED dead
                 ELSE u = Head(dead) /\ dead' = Tail(dead)

(* gtgo: the thread goes to the queue's end.                               *)
Go(t, u, f) ==
  /\ Runs(t) /\ t = Main
  /\ f \in world.fds
  /\ world.livefs => \A v \in Thread : own[v] # f
  /\ Recycled(u)
  /\ queue' = Append(queue, u)
  /\ own' = [own EXCEPT ![u] = f]
  /\ UNCHANGED <<world, poll, mutex, current, phase, fired, up>>

(* gtprelude: the thread returned; it goes to the dead list.  It does not  *)
(* end in a critical section.                                              *)
End(t) ==
  /\ Runs(t) /\ t # Main /\ stage[t] = "out"
  /\ queue' = Without(queue, t)
  /\ dead' = Append(dead, t)
  /\ own' = [own EXCEPT ![t] = None]
  /\ UNCHANGED <<world, poll, mutex, current, fired, up>> /\ Yield

----------------------------------------------------------------------------
(* The poll map                                                            *)

(* Mutant of Reserve: the table is made once and never grows.              *)
ReserveOnce == IF size = 0 THEN 1 ELSE size

(* gpoll_map_reserve(map, 1): the table grows when all of it could be full *)
Reserve == IF len + 1 > size THEN 2 * size + 1 ELSE size

(* Mutant of Insert: len is the number of buckets the table leads to.      *)
InsertInPlace(f) ==
  /\ size' = Reserve
  /\ IF f \in found
     THEN UNCHANGED <<found, len>>
     ELSE /\ found' = {g \in found : g % Reserve # f % Reserve} \cup {f}
          /\ len' = Cardinality(found')

(* gpoll_map_insert of a descriptor that is not found: the new bucket      *)
(* takes the place of its chain, for the pointer it is linked to is NULL.  *)
Insert(f) ==
  /\ size' = Reserve
  /\ IF f \in found
     THEN UNCHANGED <<found, len>>
     ELSE /\ found' = {g \in found : g % Reserve # f % Reserve} \cup {f}
          /\ len' = len + 1

(* gpoll_map_remove                                                        *)
Remove(f) ==
  /\ found' = found \ {f}
  /\ len' = IF f \in found THEN len - 1 ELSE len
  /\ UNCHANGED size

(* What the bucket of a descriptor is asked for.                           *)
Had(f) == IF f \in found THEN events[f] ELSE {}

(* Mutant of Asked: = for |=.                                              *)
AskedOnly(f, w) == w

(* What it is asked for once a thread that wants w has joined it.          *)
Asked(f, w) == Had(f) \cup w

(* gtblockfd: the thread moves from the run queue to the bucket; epoll_ctl *)
(* is not called if the bucket has been asked for just that.  Adding to    *)
(* epoll what is there, or changing what is not, fails: the process exits. *)
BlockFd(t, w) ==
  LET f == own[t]
  IN  /\ Runs(t) /\ w \in {{"in"}, {"out"}} /\ (t = Main => w = {"in"})
      /\ wants' = [wants EXCEPT ![t] = w]
      /\ Insert(f)
      /\ UNCHANGED <<world, dead, own, mutex, current, fired>>
      /\ IF Had(f) = w \/ (Had(f) = {} <=> f \notin added)
         THEN /\ added' = added \cup {f}
              /\ events' = [events EXCEPT ![f] = Asked(f, w)]
              /\ epoll' = [epoll EXCEPT ![f] = IF Had(f) = w THEN @ ELSE Asked(f, w)]
              /\ queue' = Without(queue, t)
              /\ waiting' = [waiting EXCEPT ![f] = Append(@, t)]
              /\ Yield /\ UNCHANGED up
         ELSE /\ up' = FALSE
              /\ UNCHANGED <<queue, waiting, events, epoll, added, phase>>

----------------------------------------------------------------------------
(* The mutex                                                               *)

MayLock(t) == stage[t] = "out" /\ (t = Main => ~world.livefs)

Lock(t) ==
  /\ Runs(t) /\ MayLock(t) /\ ~lock
  /\ lock' = TRUE
  /\ stage' = [stage EXCEPT ![t] = "in"]
  /\ UNCHANGED <<world, queue, dead, poll, own, waiters, current, phase, fired,
                 up>>

(* The mutex is taken: the thread moves to its list.                       *)
LockWaits(t) ==
  /\ Runs(t) /\ MayLock(t) /\ lock
  /\ queue' = Without(queue, t)
  /\ waiters' = Append(waiters, t)
  /\ stage' = [stage EXCEPT ![t] = "asks"]
  /\ UNCHANGED <<world, dead, poll, own, lock, current, fired, up>> /\ Yield

(* Mutants of HandOver: the mutex is released all the same; who came last  *)
(* gets it.                                                                *)
HandOverReleases ==
  /\ queue' = Append(queue, Head(waiters))
  /\ waiters' = Tail(waiters)
  /\ lock' = FALSE

HandOverLast ==
  /\ queue' = Append(queue, waiters[Len(waiters)])
  /\ waiters' = SubSeq(waiters, 1, Len(waiters) - 1)
  /\ UNCHANGED lock

(* The first of the list is runnable again and has the mutex, which stays  *)
(* taken.                                                                  *)
HandOver ==
  /\ queue' = Append(queue, Head(waiters))
  /\ waiters' = Tail(waiters)
  /\ UNCHANGED lock

(* gtmutex_unlock                                                          *)
Unlock(t) ==
  /\ Runs(t) /\ stage[t] = "in"
  /\ stage' = [stage EXCEPT ![t] = "out"]
  /\ IF waiters = <<>> THEN lock' = FALSE /\ UNCHANGED <<queue, waiters>>
                       ELSE HandOver
  /\ UNCHANGED <<world, dead, poll, own, current, phase, fired, up>>

----------------------------------------------------------------------------
(* gtswitch                                                                *)

(* epoll_wait: without a runnable thread it waits for an event, else it    *)
(* takes what there is.                                                    *)
EpollWait ==
  /\ up /\ phase = "poll"
  /\ \E F \in SUBSET {f \in added : epoll[f] # {}} :
     \E report \in [F -> (SUBSET Event) \ {{}}] :
       /\ \A f \in F : report[f] \subseteq epoll[f]
       /\ queue = <<>> => F # {}
       /\ fired' = {[fd |-> f, events |-> report[f]] : f \in F}
       /\ phase' = IF F = {} THEN "pick" ELSE "fired"
  /\ UNCHANGED <<world, queue, dead, poll, own, mutex, current, up>>

(* The threads of a bucket that wait for what has happened go to the end   *)
(* of the run queue.                                                       *)
Wakes(e, t) == wants[t] \cap e.events # {}
Woken(e) == Kept(waiting[e.fd], {t \in Thread : Wakes(e, t)})
Asleep(e) == Kept(waiting[e.fd], {t \in Thread : ~Wakes(e, t)})

(* Mutant of Requeued: they go to its front.                               *)
RequeuedFirst(e) == Woken(e) \o queue
Requeued(e) == queue \o Woken(e)

(* Mutant of Emptied: the descriptor stays in epoll.                       *)
EmptiedStays(f) == Remove(f) /\ UNCHANGED added

(* An empty bucket leaves the map and epoll.                               *)
Emptied(f) == Remove(f) /\ added' = added \ {f}

(* One event.  A bucket that is not empty is asked for less, while its     *)
(* epoll_events stay what they were.                                       *)
Handle(e) ==
  /\ up /\ phase = "fired" /\ e \in fired
  /\ queue' = Requeued(e)
  /\ waiting' = [waiting EXCEPT ![e.fd] = Asleep(e)]
  /\ epoll' = [epoll EXCEPT ![e.fd] = events[e.fd] \ e.events]
  /\ IF Asleep(e) = <<>> THEN Emptied(e.fd) ELSE UNCHANGED <<added, pollmap>>
  /\ fired' = fired \ {e}
  /\ phase' = IF fired' # {} THEN "fired"
              ELSE IF queue' = <<>> THEN "poll" ELSE "pick"
  /\ UNCHANGED <<world, dead, events, wants, own, mutex, current, up>>

(* gtmutex_lock returns in a thread that has waited and is picked.         *)
Entered(t) == stage' = [stage EXCEPT ![t] = IF @ = "asks" THEN "in" ELSE @]

Picked(t) ==
  /\ current' = t /\ phase' = "run" /\ Entered(t)
  /\ UNCHANGED <<world, dead, poll, own, lock, waiters, fired, up>>

(* Mutant of Pick: the last of the queue is picked.                        *)
PickLast ==
  /\ up /\ phase = "pick" /\ queue # <<>>
  /\ Picked(queue[Len(queue)]) /\ UNCHANGED queue

(* The first of the queue goes to its end and runs.  If there is none,     *)
(* gtlist_next returns NULL.                                               *)
Pick ==
  /\ up /\ phase = "pick"
  /\ IF queue # <<>>
     THEN Picked(Head(queue)) /\ queue' = Append(Tail(queue), Head(queue))
     ELSE /\ up' = FALSE
          /\ UNCHANGED <<world, queue, dead, poll, own, mutex, current, phase,
                         fired>>

----------------------------------------------------------------------------
Blocks(t) == (\E w \in SUBSET Event : BlockFd(t, w)) \/ LockWaits(t) \/ End(t)

Steps(t) ==
  \/ Blocks(t) \/ Lock(t) \/ Unlock(t)
  \/ \E u \in Thread, f \in Fd : Go(t, u, f)

Switch == EpollWait \/ (\E e \in fired : Handle(e)) \/ Pick

Next == Switch \/ \E t \in Thread : Steps(t)

Spec == Init /\ [][Next]_vars

(* gtswitch goes on, and a thread that runs yields at last.                *)
FairSpec == Spec /\ WF_vars(Switch) /\ \A t \in Thread : WF_vars(Blocks(t))

----------------------------------------------------------------------------
(* Properties                                                              *)

(* A living thread is in exactly one list, and there once; a dead or new   *)
(* one is in none, or once in the dead list.                               *)
Places(t) ==
  {<<"queue", i>> : i \in {j \in DOMAIN queue : queue[j] = t}}
  \cup {<<"mutex", i>> : i \in {j \in DOMAIN waiters : waiters[j] = t}}
  \cup UNION {{<<f, i>> : i \in {j \in DOMAIN waiting[f] : waiting[f][j] = t}}
                : f \in Fd}

OneList ==
  \A t \in Thread :
    /\ Cardinality(Places(t)) = (IF own[t] = None THEN 0 ELSE 1)
    /\ Cardinality({j \in DOMAIN dead : dead[j] = t})
         <= (IF own[t] = None THEN 1 ELSE 0)

(* No wake-up is lost: epoll reports whatever a parked thread waits for,   *)
(* although gtblockfd skips epoll_ctl when a bucket seems to be asked for  *)
(* it already, and gtswitch asks for less without writing it down.         *)
Armed ==
  \A f \in Fd :
    /\ f \in added <=> waiting[f] # <<>>
    /\ up => \A i \in DOMAIN waiting[f] : wants[waiting[f][i]] \subseteq epoll[f]

(* gtswitch always finds a thread to run, and epoll_ctl never fails: the   *)
(* library calls exit only where the kernel runs out of memory.            *)
NeverExits == up

(* The mutex is taken exactly when one thread owns it: is in the critical  *)
(* section or has been handed the mutex and not run yet.                   *)
Owners == {t \in Thread : stage[t] = "in" \/ (stage[t] = "asks" /\ ~In(t, waiters))}
OneOwner == Cardinality(Owners) = (IF lock THEN 1 ELSE 0)

(* Over any interleaving of its threads the mutex is a FIFO lock.          *)
Line == IF lock THEN <<CHOOSE t \in Owners : TRUE>> \o waiters ELSE <<>>
Fifo == INSTANCE FifoLock WITH line <- Line
FifoLockSpec == Fifo!Spec

(* No runnable thread is overtaken: its place in the run queue gets no     *)
(* worse until it runs, also when others are woken, started or handed a    *)
(* mutex.                                                                  *)
NeverOvertaken ==
  [][\A t \in Thread :
       In(t, queue) /\ In(t, queue') =>
         \/ Place(t, queue') <= Place(t, queue)
         \/ current' = t /\ phase = "pick"]_vars

(* A runnable thread runs.                                                 *)
EveryThreadRuns ==
  \A t \in Thread : In(t, queue) ~> current = t /\ phase = "run"

(* gtswitch asks epoll only while the poll map counts a bucket, and the    *)
(* map loses buckets whose descriptors collide and counts them for ever.   *)
(* Yet it never counts too few: whenever a thread waits for a descriptor   *)
(* gtswitch looks at epoll, and each bucket that is found is counted.      *)
InUse == {f \in Fd : waiting[f] # <<>>}
Counted == len >= Cardinality(InUse \cup found)
============================================================================
