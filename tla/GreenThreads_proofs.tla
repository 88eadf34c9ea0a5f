------------------------ MODULE GreenThreads_proofs ------------------------
(* Proofs of the safety properties of GreenThreads.                        *)
EXTENDS GreenThreads, Lists_proofs, FiniteSetTheorems, TLAPS

(* A thread is in a list exactly while it lives, never in two of them, and *)
(* parked only at its own descriptor.                                      *)
Parked(t) == \E f \in Fd : In(t, waiting[f])

ListInv ==
  /\ Once(queue) /\ Once(dead) /\ Once(waiters) /\ \A f \in Fd : Once(waiting[f])
  /\ \A t \in Thread :
       /\ own[t] # None <=> In(t, queue) \/ In(t, waiters) \/ Parked(t)
       /\ In(t, dead) => own[t] = None
       /\ ~(In(t, queue) /\ In(t, waiters))
       /\ \A f \in Fd : In(t, waiting[f]) =>
            own[t] = f /\ ~In(t, queue) /\ ~In(t, waiters)
  /\ own[Main] # None

(* Who runs is in the run queue and does not wait for the mutex; gtswitch  *)
(* picks from a queue that is not empty.                                   *)
RunInv ==
  /\ phase = "run" => In(current, queue) /\ stage[current] # "asks"
  /\ phase = "pick" => queue # <<>>

(* The mutex has an owner, who lives and does not wait for it, exactly     *)
(* while it is taken.                                                      *)
MutexInv ==
  /\ \A t \in Thread : stage[t] # "out" => own[t] # None
  /\ \A t \in Thread : In(t, waiters) => stage[t] = "asks"
  /\ IF lock THEN \E t \in Thread : Owners = {t} ELSE Owners = {} /\ waiters = <<>>

(* A parked thread waits for one event, its bucket is asked for it, and    *)
(* epoll reports it.  That is why epoll_ctl need not be called when the    *)
(* bucket is asked for just what the next thread wants.                    *)
PollInv ==
  /\ found \subseteq added
  /\ \A f \in Fd : f \in added <=> waiting[f] # <<>>
  /\ \A f \in Fd, t \in Thread : In(t, waiting[f]) =>
       /\ wants[t] \in {{"in"}, {"out"}}
       /\ wants[t] \subseteq events[f] /\ wants[t] \subseteq epoll[f]

(* Where threads have descriptors of their own, or all share one, no       *)
(* thread waits behind a bucket that the poll map has lost.                *)
Single == \A f, g \in world.fds : f = g
Apart  == world.livefs \/ Single

ApartInv ==
  /\ added \subseteq world.fds /\ \A t \in Thread : own[t] \in world.fds \cup {None}
  /\ world.livefs => \A t, u \in Thread : own[t] = own[u] /\ own[t] # None => t = u
  /\ Single => found = added
  /\ Apart => up

IInv == /\ TypeOK /\ ListInv /\ RunInv /\ MutexInv /\ PollInv /\ Counted
        /\ ApartInv

----------------------------------------------------------------------------
LEMMA InNothing == ASSUME NEW t PROVE ~In(t, <<>>)
BY DEF In

LEMMA InSomething ==
  ASSUME NEW s \in Seq(Thread), s # <<>> PROVE \E t \in Thread : In(t, s)
<1>1. 1 \in DOMAIN s /\ s[1] \in Thread
  OBVIOUS
<1>2. In(s[1], s)
  BY <1>1 DEF In
<1> QED
  BY <1>1, <1>2

LEMMA WorldType ==
  ASSUME TypeOK
  PROVE  /\ world.fds \subseteq Fd /\ world.fds # {} /\ world.livefs \in BOOLEAN
         /\ None \notin Fd
<1>1. world \in [fds : (SUBSET Fd) \ {{}}, livefs : BOOLEAN]
  BY ThreadsAssumption DEF TypeOK
<1>2. world.fds \in (SUBSET Fd) \ {{}} /\ world.livefs \in BOOLEAN
  BY <1>1
<1> QED
  BY <1>2, ThreadsAssumption

(* gtinit leaves one thread, in the run queue.                             *)
LEMMA InvInit == Init => IInv
<1> SUFFICES ASSUME Init PROVE IInv
  OBVIOUS
<1> USE DEF Init
<1>1. PICK f \in world.fds : own = [t \in Thread |-> IF t = Main THEN f ELSE None]
  OBVIOUS
<1>2. f \in Fd /\ f # None /\ Main \in Thread
  BY ThreadsAssumption
<1>3. TypeOK
  <2>1. own \in [Thread -> Fd \cup {None}] /\ queue \in Seq(Thread)
    BY <1>1, <1>2
  <2>2. dead \in Seq(Thread) /\ waiters \in Seq(Thread) /\ waiting \in [Fd -> Seq(Thread)]
    OBVIOUS
  <2>3. /\ stage \in [Thread -> {"out", "asks", "in"}] /\ wants \in [Thread -> SUBSET Event]
        /\ phase \in {"run", "poll", "fired", "pick"}
    OBVIOUS
  <2>4. /\ events \in [Fd -> SUBSET Event] /\ epoll \in [Fd -> SUBSET Event]
        /\ fired \subseteq [fd : Fd, events : (SUBSET Event) \ {{}}]
    OBVIOUS
  <2>5. world \in Worlds /\ found \subseteq Fd /\ added \subseteq Fd
    OBVIOUS
  <2>6. size \in Nat /\ len \in Nat /\ len <= size
    OBVIOUS
  <2>7. lock \in BOOLEAN /\ up \in BOOLEAN /\ current \in Thread
    BY <1>2
  <2> HIDE DEF Init
  <2> QED
    BY <2>1, <2>2, <2>3, <2>4, <2>5, <2>6, <2>7 DEF TypeOK
<1>4. ListInv /\ RunInv
  <2>1. Once(<<>>) /\ Once(<<Main>>)
    BY DEF Once
  <2>2. \A t : In(t, <<Main>>) <=> t = Main
    BY DEF In
  <2>3. RunInv
    BY <1>2, <2>2 DEF RunInv
  <2> QED
    BY <1>1, <1>2, <2>1, <2>2, <2>3, InNothing DEF ListInv, Parked
<1>6. MutexInv
  BY InNothing DEF MutexInv, Owners
<1>7. PollInv
  BY InNothing DEF PollInv
<1>8. Counted
  <2>1. InUse \cup found = {}
    BY DEF InUse
  <2>2. Cardinality(InUse \cup found) = 0
    BY <2>1, FS_EmptySet
  <2> QED
    BY <2>2 DEF Counted
<1>9. ApartInv
  BY <1>1, <1>2 DEF ApartInv
<1> QED
  BY <1>3, <1>4, <1>6, <1>7, <1>8, <1>9 DEF IInv

(* Someone is runnable while nobody waits for a descriptor: whoever waits  *)
(* for the mutex waits for its owner, who does not wait for it.            *)
LEMMA SomeoneRuns ==
  TypeOK /\ ListInv /\ MutexInv /\ Counted /\ len = 0 => queue # <<>>
<1> SUFFICES ASSUME TypeOK, ListInv, MutexInv, Counted, len = 0 PROVE queue # <<>>
  OBVIOUS
<1>1. InUse = {}
  <2>1. IsFiniteSet(InUse \cup found)
    BY FS_Subset, ThreadsAssumption DEF InUse, TypeOK
  <2>2. Cardinality(InUse \cup found) \in Nat
    BY <2>1, FS_CardinalityType
  <2>3. Cardinality(InUse \cup found) = 0
    BY <2>2 DEF Counted
  <2> QED
    BY <2>1, <2>3, FS_EmptySet
<1>2. \A t \in Thread : ~Parked(t)
  BY <1>1, InNothing DEF InUse, Parked
<1>3. PICK o \in Thread : own[o] # None /\ ~In(o, waiters)
  <2>1. CASE lock
    <3>1. PICK o \in Thread : Owners = {o}
      BY <2>1 DEF MutexInv
    <3>2. stage[o] # "out" /\ ~In(o, waiters)
      BY <3>1 DEF Owners, MutexInv
    <3> QED
      BY <3>2 DEF MutexInv
  <2>2. CASE ~lock
    BY <2>2, InNothing, ThreadsAssumption DEF MutexInv, ListInv
  <2> QED
    BY <2>1, <2>2
<1>4. In(o, queue)
  BY <1>2, <1>3 DEF ListInv
<1> QED
  BY <1>4, InNothing

(* So a thread may yield whenever the poll map counts right.               *)
LEMMA YieldRun ==
  ASSUME TypeOK', ListInv', MutexInv', Counted', Yield
  PROVE  RunInv'
<1>1. (TypeOK /\ ListInv /\ MutexInv /\ Counted /\ len = 0 => queue # <<>>)'
  BY SomeoneRuns, PTL
<1>2. len' \in Nat
  BY DEF TypeOK
<1> QED
  BY <1>1, <1>2 DEF RunInv, Yield

(* A step that leaves the poll map and the buckets alone.                  *)
LEMMA PollKept ==
  ASSUME PollInv, Counted, UNCHANGED poll
  PROVE  PollInv' /\ Counted'
BY DEF PollInv, Counted, InUse, poll, pollmap

----------------------------------------------------------------------------
(* A thread that is started lived in no list but the dead one.             *)
LEMMA GoInv ==
  ASSUME IInv, NEW t \in Thread, NEW u \in Thread, NEW f \in Fd, Go(t, u, f)
  PROVE  IInv'
<1> USE DEF IInv
<1>1. /\ phase = "run" /\ current = t /\ f \in world.fds
      /\ world.livefs => \A v \in Thread : own[v] # f
      /\ queue' = Append(queue, u) /\ own' = [own EXCEPT ![u] = f]
      /\ UNCHANGED <<world, poll, lock, waiters, stage, current, phase, fired, up>>
  BY DEF Go, Runs, mutex
<1>2. f # None
  BY ThreadsAssumption
<1>3. /\ own[u] = None /\ dead' \in Seq(Thread) /\ Once(dead')
      /\ \A v : In(v, dead') => In(v, dead) /\ v # u
  <2>1. CASE dead = <<>>
    BY <2>1, InNothing DEF Go, Recycled, ListInv, TypeOK
  <2>2. CASE dead # <<>>
    <3>1. u = Head(dead) /\ dead' = Tail(dead)
      BY <2>2 DEF Go, Recycled
    <3>2. dead \in Seq(Thread) /\ Once(dead)
      BY DEF ListInv, TypeOK
    <3>3. /\ Tail(dead) \in Seq(Thread) /\ Once(Tail(dead)) /\ In(Head(dead), dead)
          /\ \A v : In(v, Tail(dead)) <=> In(v, dead) /\ v # Head(dead)
      BY <2>2, <3>2, TailType
    <3> QED
      BY <3>1, <3>3 DEF ListInv
  <2> QED
    BY <2>1, <2>2
<1>4. /\ queue' \in Seq(Thread) /\ Once(queue')
      /\ \A v : In(v, queue') <=> In(v, queue) \/ v = u
  BY <1>1, <1>3, AppendType DEF ListInv, TypeOK
<1>5. own' \in [Thread -> Fd \cup {None}]
  BY <1>1 DEF TypeOK
<1>6. TypeOK'
  BY <1>1, <1>3, <1>4, <1>5 DEF TypeOK, poll, pollmap
<1>7. ListInv'
  <2>1. UNCHANGED <<waiting, waiters>>
    BY <1>1 DEF poll
  <2>2. ASSUME NEW v \in Thread
        PROVE  /\ own'[v] # None <=> In(v, queue') \/ In(v, waiters') \/ Parked(v)'
               /\ In(v, dead') => own'[v] = None
               /\ ~(In(v, queue') /\ In(v, waiters'))
               /\ \A g \in Fd : In(v, waiting'[g]) =>
                    own'[v] = g /\ ~In(v, queue') /\ ~In(v, waiters')
    BY <1>1, <1>2, <1>3, <1>4, <2>1 DEF ListInv, Parked, TypeOK
  <2>3. own'[Main] # None
    BY <1>1, <1>2, ThreadsAssumption DEF ListInv, TypeOK
  <2> QED
    BY <1>3, <1>4, <2>1, <2>2, <2>3 DEF ListInv
<1>8. RunInv'
  BY <1>1, <1>4 DEF RunInv
<1>9. MutexInv'
  BY <1>1, <1>2 DEF MutexInv, Owners, TypeOK
<1>10. PollInv' /\ Counted'
  BY <1>1, PollKept
<1>11. ApartInv'
  <2>1. \A v \in Thread : own'[v] = IF v = u THEN f ELSE own[v]
    BY <1>1 DEF TypeOK
  <2> QED
    BY <1>1, <2>1 DEF ApartInv, Single, Apart, poll, pollmap
<1> QED
  BY <1>6, <1>7, <1>8, <1>9, <1>10, <1>11

(* A thread that leaves the run queue leaves the others in it.             *)
LEMMA LeavesQueue ==
  ASSUME TypeOK, ListInv, NEW t \in Thread, queue' = Without(queue, t)
  PROVE  /\ queue' \in Seq(Thread) /\ Once(queue')
         /\ \A u : In(u, queue') <=> In(u, queue) /\ u # t
<1>1. queue \in Seq(Thread) /\ Once(queue)
  BY DEF TypeOK, ListInv
<1> QED
  BY <1>1, WithoutType

(* A thread that ends, in no critical section, goes to the dead list.      *)
LEMMA EndInv == ASSUME IInv, NEW t \in Thread, End(t) PROVE IInv'
<1> USE DEF IInv
<1>1. /\ phase = "run" /\ current = t /\ t # Main /\ stage[t] = "out"
      /\ queue' = Without(queue, t) /\ dead' = Append(dead, t)
      /\ own' = [own EXCEPT ![t] = None]
      /\ UNCHANGED <<world, poll, lock, waiters, stage, current, fired, up>> /\ Yield
  BY DEF End, Runs, mutex
<1>2. /\ queue' \in Seq(Thread) /\ Once(queue')
      /\ \A u : In(u, queue') <=> In(u, queue) /\ u # t
  BY <1>1, LeavesQueue
<1>3. In(t, queue) /\ own[t] # None
  BY <1>1 DEF RunInv, ListInv
<1>4. /\ dead' \in Seq(Thread) /\ Once(dead')
      /\ \A u : In(u, dead') <=> In(u, dead) \/ u = t
  <2>1. dead \in Seq(Thread) /\ Once(dead) /\ ~In(t, dead)
    BY <1>3 DEF ListInv, TypeOK
  <2> QED
    BY <1>1, <2>1, AppendType
<1>5. /\ own' \in [Thread -> Fd \cup {None}] /\ own'[t] = None
      /\ \A u \in Thread \ {t} : own'[u] = own[u]
  BY <1>1 DEF TypeOK
<1>6. TypeOK'
  BY <1>1, <1>2, <1>4, <1>5 DEF TypeOK, Yield, poll, pollmap
<1>7. ListInv'
  <2>1. UNCHANGED <<waiting, waiters>>
    BY <1>1 DEF poll
  <2>2. ASSUME NEW v \in Thread
        PROVE  /\ own'[v] # None <=> In(v, queue') \/ In(v, waiters') \/ Parked(v)'
               /\ In(v, dead') => own'[v] = None
               /\ ~(In(v, queue') /\ In(v, waiters'))
               /\ \A g \in Fd : In(v, waiting'[g]) =>
                    own'[v] = g /\ ~In(v, queue') /\ ~In(v, waiters')
    BY <1>2, <1>3, <1>4, <1>5, <2>1 DEF ListInv, Parked
  <2>3. own'[Main] # None
    BY <1>1, <1>5, ThreadsAssumption DEF ListInv
  <2> QED
    BY <1>2, <1>4, <2>1, <2>2, <2>3 DEF ListInv
<1>8. MutexInv'
  BY <1>1, <1>5 DEF MutexInv, Owners
<1>9. PollInv' /\ Counted'
  BY <1>1, PollKept
<1>10. RunInv'
  BY <1>1, <1>6, <1>7, <1>8, <1>9, YieldRun
<1>11. ApartInv'
  BY <1>1, <1>5 DEF ApartInv, Single, Apart, poll, pollmap
<1> QED
  BY <1>6, <1>7, <1>8, <1>9, <1>10, <1>11

----------------------------------------------------------------------------
(* The mutex                                                               *)
LEMMA LockInv == ASSUME IInv, NEW t \in Thread, Lock(t) PROVE IInv'
<1> USE DEF IInv
<1>1. /\ phase = "run" /\ current = t /\ stage[t] = "out" /\ ~lock /\ lock' = TRUE
      /\ stage' = [stage EXCEPT ![t] = "in"]
      /\ UNCHANGED <<world, queue, dead, poll, own, waiters, current, phase, fired, up>>
  BY DEF Lock, Runs, MayLock
<1>2. /\ stage' \in [Thread -> {"out", "asks", "in"}] /\ stage'[t] = "in"
      /\ \A u \in Thread \ {t} : stage'[u] = stage[u]
  BY <1>1 DEF TypeOK
<1>3. TypeOK'
  BY <1>1, <1>2 DEF TypeOK, poll, pollmap
<1>4. ListInv' /\ RunInv'
  BY <1>1, <1>2 DEF ListInv, RunInv, Parked, poll
<1>5. MutexInv'
  <2>1. own[t] # None /\ waiters = <<>> /\ Owners = {}
    BY <1>1 DEF RunInv, ListInv, MutexInv
  <2>2. Owners' = {t}
    BY <1>1, <1>2, <2>1 DEF Owners
  <2> QED
    BY <1>1, <1>2, <2>1, <2>2, InNothing DEF MutexInv
<1>6. PollInv' /\ Counted'
  BY <1>1, PollKept
<1>7. ApartInv'
  BY <1>1 DEF ApartInv, Single, Apart, poll, pollmap
<1> QED
  BY <1>3, <1>4, <1>5, <1>6, <1>7

LEMMA LockWaitsInv == ASSUME IInv, NEW t \in Thread, LockWaits(t) PROVE IInv'
<1> USE DEF IInv
<1>1. /\ phase = "run" /\ current = t /\ stage[t] = "out" /\ lock
      /\ queue' = Without(queue, t) /\ waiters' = Append(waiters, t)
      /\ stage' = [stage EXCEPT ![t] = "asks"]
      /\ UNCHANGED <<world, dead, poll, own, lock, current, fired, up>> /\ Yield
  BY DEF LockWaits, Runs, MayLock
<1>2. /\ queue' \in Seq(Thread) /\ Once(queue')
      /\ \A u : In(u, queue') <=> In(u, queue) /\ u # t
  BY <1>1, LeavesQueue
<1>3. In(t, queue) /\ own[t] # None
  BY <1>1 DEF RunInv, ListInv
<1>4. /\ waiters' \in Seq(Thread) /\ Once(waiters')
      /\ \A u : In(u, waiters') <=> In(u, waiters) \/ u = t
  <2>1. waiters \in Seq(Thread) /\ Once(waiters) /\ ~In(t, waiters)
    BY <1>3 DEF ListInv, TypeOK
  <2> QED
    BY <1>1, <2>1, AppendType
<1>5. /\ stage' \in [Thread -> {"out", "asks", "in"}] /\ stage'[t] = "asks"
      /\ \A u \in Thread \ {t} : stage'[u] = stage[u]
  BY <1>1 DEF TypeOK
<1>6. TypeOK'
  BY <1>1, <1>2, <1>4, <1>5 DEF TypeOK, Yield, poll, pollmap
<1>7. ListInv'
  <2>1. UNCHANGED <<waiting, dead, own>>
    BY <1>1 DEF poll
  <2>2. ASSUME NEW v \in Thread
        PROVE  /\ own'[v] # None <=> In(v, queue') \/ In(v, waiters') \/ Parked(v)'
               /\ In(v, dead') => own'[v] = None
               /\ ~(In(v, queue') /\ In(v, waiters'))
               /\ \A g \in Fd : In(v, waiting'[g]) =>
                    own'[v] = g /\ ~In(v, queue') /\ ~In(v, waiters')
    BY <1>2, <1>3, <1>4, <2>1 DEF ListInv, Parked
  <2> QED
    BY <1>2, <1>4, <2>1, <2>2 DEF ListInv
<1>8. MutexInv'
  <2>1. Owners' = Owners
    BY <1>1, <1>4, <1>5 DEF Owners
  <2> QED
    BY <1>1, <1>3, <1>4, <1>5, <2>1 DEF MutexInv
<1>9. PollInv' /\ Counted'
  BY <1>1, PollKept
<1>10. RunInv'
  BY <1>1, <1>6, <1>7, <1>8, <1>9, YieldRun
<1>11. ApartInv'
  BY <1>1 DEF ApartInv, Single, Apart, poll, pollmap
<1> QED
  BY <1>6, <1>7, <1>8, <1>9, <1>10, <1>11

(* The mutex is never free while a thread waits for it.                    *)
LEMMA UnlockInv == ASSUME IInv, NEW t \in Thread, Unlock(t) PROVE IInv'
<1> USE DEF IInv
<1>1. /\ phase = "run" /\ current = t /\ stage[t] = "in"
      /\ stage' = [stage EXCEPT ![t] = "out"]
      /\ UNCHANGED <<world, dead, poll, own, current, phase, fired, up>>
  BY DEF Unlock, Runs
<1>2. /\ stage' \in [Thread -> {"out", "asks", "in"}] /\ stage'[t] = "out"
      /\ \A u \in Thread \ {t} : stage'[u] = stage[u]
  BY <1>1 DEF TypeOK
<1>3. Owners = {t} /\ lock
  BY <1>1 DEF MutexInv, Owners
<1>4. PollInv' /\ Counted'
  BY <1>1, PollKept
<1>5. ApartInv'
  BY <1>1 DEF ApartInv, Single, Apart, poll, pollmap
<1>6. CASE waiters = <<>>
  <2>1. lock' = FALSE /\ UNCHANGED <<queue, waiters>>
    BY <1>6 DEF Unlock
  <2>2. TypeOK'
    BY <1>1, <1>2, <2>1 DEF TypeOK, poll, pollmap
  <2>3. ListInv' /\ RunInv'
    BY <1>1, <1>2, <2>1 DEF ListInv, RunInv, Parked, poll
  <2>4. Owners' = {}
    BY <1>2, <1>3, <2>1 DEF Owners
  <2>5. MutexInv'
    BY <1>1, <1>2, <1>6, <2>1, <2>4, InNothing DEF MutexInv
  <2> QED
    BY <1>4, <1>5, <2>2, <2>3, <2>5
<1>7. CASE waiters # <<>>
  <2> DEFINE n == Head(waiters)
  <2>1. queue' = Append(queue, n) /\ waiters' = Tail(waiters) /\ lock' = lock
    BY <1>7 DEF Unlock, HandOver
  <2>2. /\ waiters' \in Seq(Thread) /\ Once(waiters') /\ n \in Thread /\ In(n, waiters)
        /\ \A u : In(u, waiters') <=> In(u, waiters) /\ u # n
    <3>1. waiters \in Seq(Thread) /\ Once(waiters)
      BY DEF ListInv, TypeOK
    <3> QED
      BY <1>7, <2>1, <3>1, TailType
  <2> HIDE DEF n
  <2>3. /\ queue' \in Seq(Thread) /\ Once(queue')
        /\ \A u : In(u, queue') <=> In(u, queue) \/ u = n
    <3>1. queue \in Seq(Thread) /\ Once(queue) /\ ~In(n, queue)
      BY <2>2 DEF ListInv, TypeOK
    <3> QED
      BY <2>1, <2>2, <3>1, AppendType
  <2>4. TypeOK'
    BY <1>1, <1>2, <2>1, <2>2, <2>3 DEF TypeOK, poll, pollmap
  <2>5. ListInv'
    <3>1. UNCHANGED <<waiting, dead, own>>
      BY <1>1 DEF poll
    <3>2. ASSUME NEW v \in Thread
          PROVE  /\ own'[v] # None <=> In(v, queue') \/ In(v, waiters') \/ Parked(v)'
                 /\ In(v, dead') => own'[v] = None
                 /\ ~(In(v, queue') /\ In(v, waiters'))
                 /\ \A g \in Fd : In(v, waiting'[g]) =>
                      own'[v] = g /\ ~In(v, queue') /\ ~In(v, waiters')
      BY <2>2, <2>3, <3>1 DEF ListInv, Parked
    <3> QED
      BY <2>2, <2>3, <3>1, <3>2 DEF ListInv
  <2>6. RunInv'
    BY <1>1, <1>2, <2>3 DEF RunInv
  <2>7. stage[n] = "asks" /\ n # t
    BY <1>1, <2>2 DEF MutexInv
  <2>8. Owners' = {n}
    BY <1>2, <1>3, <2>2, <2>7 DEF Owners, MutexInv
  <2>9. MutexInv'
    BY <1>1, <1>2, <1>3, <2>1, <2>2, <2>7, <2>8 DEF MutexInv
  <2> QED
    BY <1>4, <1>5, <2>4, <2>5, <2>6, <2>9
<1> QED
  BY <1>6, <1>7

----------------------------------------------------------------------------
(* The poll map                                                            *)
LEMMA UsedFinite ==
  ASSUME TypeOK
  PROVE  IsFiniteSet(InUse \cup found) /\ Cardinality(InUse \cup found) \in Nat
<1>1. InUse \cup found \subseteq Fd
  BY DEF InUse, TypeOK
<1>2. IsFiniteSet(InUse \cup found)
  BY <1>1, FS_Subset, ThreadsAssumption
<1> QED
  BY <1>2, FS_CardinalityType

LEMMA InsertType ==
  ASSUME TypeOK, NEW f \in Fd, Insert(f)
  PROVE  /\ size' \in Nat /\ len' \in Nat /\ len' <= size'
         /\ f \in found' /\ found' \subseteq found \cup {f}
         /\ f \in found => found' = found /\ len' = len
         /\ f \notin found => len' = len + 1
<1>1. size \in Nat /\ len \in Nat /\ len <= size
  BY DEF TypeOK
<1>2. size' \in Nat /\ len + 1 <= size'
  BY <1>1 DEF Insert, Reserve
<1> QED
  BY <1>1, <1>2 DEF Insert

(* A bucket that is made is counted.                                       *)
LEMMA InsertCounts ==
  ASSUME TypeOK, Counted, NEW f \in Fd, Insert(f), InUse' \subseteq InUse \cup {f}
  PROVE  Counted'
<1> DEFINE U == InUse \cup found
<1>1. IsFiniteSet(U) /\ Cardinality(U) \in Nat /\ len >= Cardinality(U) /\ len \in Nat
  BY UsedFinite DEF Counted, TypeOK
<1>2. /\ found' \subseteq found \cup {f}
      /\ f \in found => found' = found /\ len' = len
      /\ f \notin found => len' = len + 1
  BY InsertType
<1>3. InUse' \cup found' \subseteq U \cup {f}
  BY <1>2
<1>4. /\ IsFiniteSet(U \cup {f})
      /\ Cardinality(U \cup {f}) = IF f \in U THEN Cardinality(U) ELSE Cardinality(U) + 1
  BY <1>1, FS_AddElement
<1>5. /\ IsFiniteSet(InUse' \cup found')
      /\ Cardinality(InUse' \cup found') <= Cardinality(U \cup {f})
  BY <1>3, <1>4, FS_Subset
<1>6. Cardinality(InUse' \cup found') \in Nat
  BY <1>5, FS_CardinalityType
<1>7. f \in found => f \in U
  OBVIOUS
<1> HIDE DEF U
<1>8. CASE f \in found
  BY <1>1, <1>2, <1>4, <1>5, <1>6, <1>7, <1>8 DEF Counted
<1>9. CASE f \notin found
  BY <1>1, <1>2, <1>4, <1>5, <1>6, <1>9 DEF Counted
<1> QED
  BY <1>8, <1>9

(* A bucket that is found has a thread, which it is asked for.             *)
LEMMA FoundAsked ==
  ASSUME TypeOK, PollInv, NEW f \in found
  PROVE  \E t \in Thread : /\ In(t, waiting[f]) /\ wants[t] \in {{"in"}, {"out"}}
                           /\ wants[t] \subseteq events[f] /\ wants[t] \subseteq epoll[f]
<1>1. f \in Fd /\ waiting[f] # <<>> /\ waiting[f] \in Seq(Thread)
  BY DEF PollInv, TypeOK
<1>2. 1 \in DOMAIN waiting[f] /\ waiting[f][1] \in Thread
  BY <1>1
<1>3. In(waiting[f][1], waiting[f])
  BY <1>2 DEF In
<1> QED
  BY <1>1, <1>2, <1>3 DEF PollInv

LEMMA HadNothing ==
  ASSUME TypeOK, PollInv, NEW f \in Fd
  PROVE  Had(f) = {} <=> f \notin found
BY FoundAsked DEF Had

(* gtblockfd                                                               *)
LEMMA BlockFdFails ==
  ASSUME IInv, NEW t \in Thread, NEW w \in {{"in"}, {"out"}}, NEW f \in Fd, own[t] = f,
         In(t, queue), Insert(f), ~(Had(f) = w \/ (Had(f) = {} <=> f \notin added)),
         phase = "run", current = t, wants' = [wants EXCEPT ![t] = w], up' = FALSE,
         UNCHANGED <<world, queue, dead, waiting, events, epoll, added, own, lock,
                     waiters, stage, current, phase, fired>>
  PROVE  IInv'
<1> USE DEF IInv
<1>1. f \in added /\ f \notin found
  BY HadNothing DEF PollInv
<1>2. /\ size' \in Nat /\ len' \in Nat /\ len' <= size'
      /\ found' \subseteq found \cup {f}
  BY InsertType
<1>3. /\ wants' \in [Thread -> SUBSET Event]
      /\ \A u \in Thread \ {t} : wants'[u] = wants[u]
  BY DEF TypeOK, Event
<1>4. TypeOK'
  BY <1>2, <1>3 DEF TypeOK
<1>5. ListInv' /\ RunInv' /\ MutexInv'
  BY DEF ListInv, Parked, RunInv, MutexInv, Owners
<1>6. PollInv'
  BY <1>1, <1>2, <1>3 DEF PollInv, ListInv
<1>7. Counted'
  BY InsertCounts DEF InUse
<1>8. ~Apart
  <2>1. ~Single
    BY <1>1 DEF ApartInv
  <2>2. ASSUME world.livefs PROVE FALSE
    <3>1. waiting[f] # <<>> /\ waiting[f] \in Seq(Thread)
      BY <1>1 DEF PollInv, TypeOK
    <3>2. 1 \in DOMAIN waiting[f] /\ waiting[f][1] \in Thread
      BY <3>1
    <3>3. In(waiting[f][1], waiting[f])
      BY <3>2 DEF In
    <3>4. own[waiting[f][1]] = f /\ waiting[f][1] # t
      BY <3>2, <3>3 DEF ListInv
    <3> QED
      BY <2>2, <3>2, <3>4, ThreadsAssumption DEF ApartInv
  <2> QED
    BY <2>1, <2>2 DEF Apart
<1>9. ApartInv'
  BY <1>8 DEF ApartInv, Apart, Single
<1> QED
  BY <1>4, <1>5, <1>6, <1>7, <1>9

LEMMA BlockFdParks ==
  ASSUME IInv, NEW t \in Thread, NEW w \in {{"in"}, {"out"}}, NEW f \in Fd, own[t] = f,
         In(t, queue), Insert(f), Had(f) = w \/ (Had(f) = {} <=> f \notin added),
         wants' = [wants EXCEPT ![t] = w],
         added' = added \cup {f},
         events' = [events EXCEPT ![f] = Asked(f, w)],
         epoll' = [epoll EXCEPT ![f] = IF Had(f) = w THEN @ ELSE Asked(f, w)],
         queue' = Without(queue, t),
         waiting' = [waiting EXCEPT ![f] = Append(@, t)],
         Yield,
         UNCHANGED <<world, dead, own, lock, waiters, stage, current, fired, up>>
  PROVE  IInv'
<1> USE DEF IInv
<1>1. /\ size' \in Nat /\ len' \in Nat /\ len' <= size'
      /\ f \in found' /\ found' \subseteq found \cup {f}
  BY InsertType
<1>2. /\ wants' \in [Thread -> SUBSET Event] /\ wants'[t] = w
      /\ \A u \in Thread \ {t} : wants'[u] = wants[u]
  BY DEF TypeOK, Event
<1>3. Had(f) \subseteq Event /\ Asked(f, w) = Had(f) \cup w /\ w \subseteq Event
  BY DEF TypeOK, Had, Asked, Event
<1>4. /\ events' \in [Fd -> SUBSET Event] /\ epoll' \in [Fd -> SUBSET Event]
      /\ events'[f] = Had(f) \cup w
      /\ epoll'[f] = IF Had(f) = w THEN epoll[f] ELSE Had(f) \cup w
      /\ \A g \in Fd \ {f} : events'[g] = events[g] /\ epoll'[g] = epoll[g]
  BY <1>3 DEF TypeOK
<1>5. /\ queue' \in Seq(Thread) /\ Once(queue')
      /\ \A u : In(u, queue') <=> In(u, queue) /\ u # t
  BY LeavesQueue
<1>6. /\ waiting' \in [Fd -> Seq(Thread)] /\ Once(waiting'[f])
      /\ \A u : In(u, waiting'[f]) <=> In(u, waiting[f]) \/ u = t
      /\ \A g \in Fd \ {f} : waiting'[g] = waiting[g]
  <2>1. waiting[f] \in Seq(Thread) /\ Once(waiting[f]) /\ ~In(t, waiting[f])
    BY DEF ListInv, TypeOK
  <2>2. /\ Append(waiting[f], t) \in Seq(Thread) /\ Once(Append(waiting[f], t))
        /\ \A u : In(u, Append(waiting[f], t)) <=> In(u, waiting[f]) \/ u = t
    BY <2>1, AppendType
  <2>3. waiting'[f] = Append(waiting[f], t)
    BY DEF TypeOK
  <2>4. waiting' \in [Fd -> Seq(Thread)] /\ \A g \in Fd \ {f} : waiting'[g] = waiting[g]
    BY <2>2 DEF TypeOK
  <2> QED
    BY <2>2, <2>3, <2>4
<1>7. waiting'[f] # <<>>
  BY <1>6, InNothing
<1>8. TypeOK'
  BY <1>1, <1>2, <1>4, <1>5, <1>6 DEF TypeOK, Yield
<1>9. ListInv'
  <2>1. ASSUME NEW v \in Thread
        PROVE  /\ own'[v] # None <=> In(v, queue') \/ In(v, waiters') \/ Parked(v)'
               /\ In(v, dead') => own'[v] = None
               /\ ~(In(v, queue') /\ In(v, waiters'))
               /\ \A g \in Fd : In(v, waiting'[g]) =>
                    own'[v] = g /\ ~In(v, queue') /\ ~In(v, waiters')
    <3>1. CASE v = t
      BY <1>5, <1>6, <3>1 DEF ListInv, Parked
    <3>2. CASE v # t
      <4>1. \A g \in Fd : In(v, waiting'[g]) <=> In(v, waiting[g])
        BY <1>6, <3>2
      <4>2. Parked(v)' <=> Parked(v)
        BY <4>1 DEF Parked
      <4> QED
        BY <1>5, <3>2, <4>1, <4>2 DEF ListInv
    <3> QED
      BY <3>1, <3>2
  <2> QED
    BY <1>5, <1>6, <2>1 DEF ListInv
<1>10. MutexInv'
  BY DEF MutexInv, Owners
<1>11. PollInv'
  <2>1. waiting[f] # <<>> => f \in found
    BY HadNothing DEF PollInv
  <2>2. f \in found => Had(f) = events[f]
    BY DEF Had
  <2>3. ASSUME NEW u \in Thread \ {t}, In(u, waiting[f])
        PROVE  wants[u] \subseteq events'[f] /\ wants[u] \subseteq epoll'[f]
    BY <1>4, <2>1, <2>2, <2>3, InNothing DEF PollInv
  <2>4. w \subseteq epoll'[f]
    <3>1. CASE Had(f) = w
      <4>1. f \in found
        BY <3>1, HadNothing
      <4>2. PICK u \in Thread : /\ wants[u] \in {{"in"}, {"out"}}
                                /\ wants[u] \subseteq events[f] /\ wants[u] \subseteq epoll[f]
        BY <4>1, FoundAsked
      <4>3. wants[u] = w
        <5>1. wants[u] \subseteq w
          BY <2>2, <3>1, <4>1, <4>2
        <5> QED
          BY <4>2, <5>1
      <4> QED
        BY <1>4, <3>1, <4>2, <4>3
    <3>2. CASE Had(f) # w
      BY <1>4, <3>2
    <3> QED
      BY <3>1, <3>2
  <2>5. ASSUME NEW g \in Fd, NEW u \in Thread, In(u, waiting'[g])
        PROVE  /\ wants'[u] \in {{"in"}, {"out"}}
               /\ wants'[u] \subseteq events'[g] /\ wants'[u] \subseteq epoll'[g]
    <3>1. CASE u = t
      <4>1. g = f
        BY <1>6, <2>5, <3>1 DEF ListInv
      <4> QED
        BY <1>2, <1>4, <2>4, <3>1, <4>1
    <3>2. CASE u # t /\ g = f
      BY <1>2, <1>6, <2>3, <2>5, <3>2 DEF PollInv
    <3>3. CASE u # t /\ g # f
      BY <1>2, <1>4, <1>6, <2>5, <3>3 DEF PollInv
    <3> QED
      BY <3>1, <3>2, <3>3
  <2>6. found' \subseteq added'
    BY <1>1 DEF PollInv
  <2>7. \A g \in Fd : g \in added' <=> waiting'[g] # <<>>
    BY <1>6, <1>7 DEF PollInv
  <2> QED
    BY <2>5, <2>6, <2>7 DEF PollInv
<1>12. Counted'
  <2>1. InUse' \subseteq InUse \cup {f}
    BY <1>6 DEF InUse
  <2> QED
    BY <2>1, InsertCounts
<1>13. RunInv'
  BY <1>8, <1>9, <1>10, <1>12, YieldRun
<1>14. ApartInv'
  <2>1. f \in world.fds
    BY ThreadsAssumption DEF ApartInv
  <2>2. Single => found' = added'
    BY <1>1, <2>1, WorldType DEF ApartInv, Single
  <2> QED
    BY <2>1, <2>2 DEF ApartInv, Apart, Single
<1> QED
  BY <1>8, <1>9, <1>10, <1>11, <1>12, <1>13, <1>14

LEMMA BlockFdInv ==
  ASSUME IInv, NEW t \in Thread, NEW w, BlockFd(t, w) PROVE IInv'
<1>1. w \in {{"in"}, {"out"}} /\ phase = "run" /\ current = t
  BY DEF BlockFd, Runs
<1>2. In(t, queue) /\ own[t] \in Fd
  BY <1>1, ThreadsAssumption DEF IInv, RunInv, ListInv, TypeOK
<1>3. CASE Had(own[t]) = w \/ (Had(own[t]) = {} <=> own[t] \notin added)
  BY <1>1, <1>2, <1>3, BlockFdParks DEF BlockFd, mutex
<1>4. CASE ~(Had(own[t]) = w \/ (Had(own[t]) = {} <=> own[t] \notin added))
  BY <1>1, <1>2, <1>4, BlockFdFails DEF BlockFd, mutex
<1> QED
  BY <1>3, <1>4

----------------------------------------------------------------------------
(* gtswitch                                                                *)
LEMMA EpollWaitInv == ASSUME IInv, EpollWait PROVE IInv'
<1> USE DEF IInv
<1>1. PICK F \in SUBSET {f \in added : epoll[f] # {}} :
        \E report \in [F -> (SUBSET Event) \ {{}}] :
          /\ queue = <<>> => F # {}
          /\ fired' = {[fd |-> f, events |-> report[f]] : f \in F}
          /\ phase' = IF F = {} THEN "pick" ELSE "fired"
  BY DEF EpollWait
<1>2. PICK report \in [F -> (SUBSET Event) \ {{}}] :
          /\ queue = <<>> => F # {}
          /\ fired' = {[fd |-> f, events |-> report[f]] : f \in F}
          /\ phase' = IF F = {} THEN "pick" ELSE "fired"
  BY <1>1
<1>3. UNCHANGED <<world, queue, dead, poll, own, lock, waiters, stage, current, up>>
  BY DEF EpollWait, mutex
<1>4. TypeOK'
  <2>1. F \subseteq Fd
    BY DEF TypeOK
  <2>2. fired' \subseteq [fd : Fd, events : (SUBSET Event) \ {{}}]
    BY <1>2, <2>1
  <2>3. phase' \in {"run", "poll", "fired", "pick"}
    BY <1>2
  <2> QED
    BY <1>3, <2>2, <2>3 DEF TypeOK, poll, pollmap
<1>5. ListInv' /\ MutexInv'
  BY <1>3 DEF ListInv, Parked, MutexInv, Owners, poll
<1>6. RunInv'
  BY <1>2, <1>3 DEF RunInv
<1>7. PollInv' /\ Counted'
  BY <1>3, PollKept
<1>8. ApartInv'
  BY <1>3 DEF ApartInv, Apart, Single, poll, pollmap
<1> QED
  BY <1>4, <1>5, <1>6, <1>7, <1>8

(* The threads of a bucket are woken or stay asleep.                       *)
LEMMA WokenType ==
  ASSUME TypeOK, ListInv, NEW e \in fired
  PROVE  /\ e.fd \in Fd
         /\ Woken(e) \in Seq(Thread) /\ Once(Woken(e))
         /\ Asleep(e) \in Seq(Thread) /\ Once(Asleep(e))
         /\ \A t : In(t, Woken(e)) <=> In(t, waiting[e.fd]) /\ t \in Thread /\ Wakes(e, t)
         /\ \A t : In(t, Asleep(e)) <=> In(t, waiting[e.fd]) /\ t \in Thread /\ ~Wakes(e, t)
<1>1. e.fd \in Fd
  BY DEF TypeOK
<1>2. waiting[e.fd] \in Seq(Thread) /\ Once(waiting[e.fd])
  BY <1>1 DEF TypeOK, ListInv
<1>3. /\ Woken(e) \in Seq(Thread) /\ Once(Woken(e))
      /\ Asleep(e) \in Seq(Thread) /\ Once(Asleep(e))
  BY <1>2, KeptOnce DEF Woken, Asleep
<1>4. ASSUME NEW t
      PROVE  In(t, Woken(e)) <=> In(t, waiting[e.fd]) /\ t \in Thread /\ Wakes(e, t)
  <2> DEFINE T == {u \in Thread : Wakes(e, u)}
  <2>1. t \in T <=> t \in Thread /\ Wakes(e, t)
    OBVIOUS
  <2> HIDE DEF T
  <2>2. In(t, Kept(waiting[e.fd], T)) <=> In(t, waiting[e.fd]) /\ t \in T
    BY <1>2, KeptIn
  <2> QED
    BY <2>1, <2>2 DEF Woken, T
<1>5. ASSUME NEW t
      PROVE  In(t, Asleep(e)) <=> In(t, waiting[e.fd]) /\ t \in Thread /\ ~Wakes(e, t)
  <2> DEFINE T == {u \in Thread : ~Wakes(e, u)}
  <2>1. t \in T <=> t \in Thread /\ ~Wakes(e, t)
    OBVIOUS
  <2> HIDE DEF T
  <2>2. In(t, Kept(waiting[e.fd], T)) <=> In(t, waiting[e.fd]) /\ t \in T
    BY <1>2, KeptIn
  <2> QED
    BY <2>1, <2>2 DEF Asleep, T
<1> QED
  BY <1>1, <1>3, <1>4, <1>5

(* Who is woken was in no other list.                                      *)
LEMMA RequeuedType ==
  ASSUME TypeOK, ListInv, NEW e \in fired
  PROVE  /\ Requeued(e) \in Seq(Thread) /\ Once(Requeued(e))
         /\ \A t : In(t, Requeued(e)) <=> In(t, queue) \/ In(t, Woken(e))
         /\ \A t : In(t, queue) => Place(t, Requeued(e)) = Place(t, queue)
<1>1. queue \in Seq(Thread) /\ Once(queue)
  BY DEF TypeOK, ListInv
<1>2. Woken(e) \in Seq(Thread) /\ Once(Woken(e)) /\ e.fd \in Fd
  BY WokenType
<1>3. \A t : ~(In(t, queue) /\ In(t, Woken(e)))
  BY <1>2, WokenType DEF ListInv
<1> QED
  BY <1>1, <1>2, <1>3, JoinedType DEF Requeued

LEMMA HandleInv == ASSUME IInv, NEW e \in fired, Handle(e) PROVE IInv'
<1> USE DEF IInv
<1> DEFINE f == e.fd
<1>1. /\ queue' = Requeued(e) /\ waiting' = [waiting EXCEPT ![f] = Asleep(e)]
      /\ epoll' = [epoll EXCEPT ![f] = events[f] \ e.events]
      /\ fired' = fired \ {e}
      /\ phase' = IF fired' # {} THEN "fired" ELSE IF queue' = <<>> THEN "poll" ELSE "pick"
      /\ UNCHANGED <<world, dead, events, wants, own, lock, waiters, stage, current, up>>
  BY DEF Handle, mutex
<1>2. f \in Fd
  BY WokenType
<1>3. /\ queue' \in Seq(Thread) /\ Once(queue')
      /\ \A t : In(t, queue') <=>
           In(t, queue) \/ (In(t, waiting[f]) /\ t \in Thread /\ Wakes(e, t))
  <2>1. /\ Requeued(e) \in Seq(Thread) /\ Once(Requeued(e))
        /\ \A t : In(t, Requeued(e)) <=> In(t, queue) \/ In(t, Woken(e))
    BY RequeuedType
  <2>2. \A t : In(t, Woken(e)) <=> In(t, waiting[f]) /\ t \in Thread /\ Wakes(e, t)
    BY WokenType
  <2>3. queue' = Requeued(e)
    BY <1>1
  <2> HIDE DEF f
  <2>4. ASSUME NEW t
        PROVE  In(t, queue') <=>
                 In(t, queue) \/ (In(t, waiting[f]) /\ t \in Thread /\ Wakes(e, t))
    BY <2>1, <2>2, <2>3
  <2> QED
    BY <2>1, <2>3, <2>4
<1>4. /\ waiting' \in [Fd -> Seq(Thread)] /\ Once(waiting'[f]) /\ waiting'[f] = Asleep(e)
      /\ \A t : In(t, waiting'[f]) <=> In(t, waiting[f]) /\ t \in Thread /\ ~Wakes(e, t)
      /\ \A g \in Fd \ {f} : waiting'[g] = waiting[g]
  BY <1>1, <1>2, WokenType DEF TypeOK
<1>5. /\ epoll' \in [Fd -> SUBSET Event] /\ epoll'[f] = events[f] \ e.events
      /\ \A g \in Fd \ {f} : epoll'[g] = epoll[g]
  BY <1>1, <1>2 DEF TypeOK
<1>6. /\ Asleep(e) = <<>> => /\ found' = found \ {f} /\ added' = added \ {f} /\ size' = size
                             /\ len' = IF f \in found THEN len - 1 ELSE len
      /\ Asleep(e) # <<>> => UNCHANGED <<added, found, size, len>>
  BY DEF Handle, Emptied, Remove, pollmap
<1> HIDE DEF f
<1>7. Counted' /\ len' \in Nat /\ len' <= size'
  <2> DEFINE U == InUse \cup found
  <2>1. /\ IsFiniteSet(U) /\ Cardinality(U) \in Nat /\ len >= Cardinality(U)
        /\ len \in Nat /\ size \in Nat /\ len <= size
    BY UsedFinite DEF Counted, TypeOK
  <2>2. CASE Asleep(e) # <<>>
    <3>1. ASSUME NEW g \in Fd, waiting'[g] # <<>> PROVE waiting[g] # <<>>
      <4>1. CASE g = f
        <5>1. waiting'[f] \in Seq(Thread) /\ waiting'[f] # <<>>
          BY <1>2, <1>4, <2>2
        <5>2. PICK t \in Thread : In(t, waiting'[f])
          BY <5>1, InSomething
        <5>3. In(t, waiting[f])
          BY <1>4, <5>2
        <5> QED
          BY <4>1, <5>3, InNothing
      <4>2. CASE g # f
        BY <1>4, <3>1, <4>2
      <4> QED
        BY <4>1, <4>2
    <3>2. InUse' \cup found' \subseteq U
      BY <1>6, <2>2, <3>1 DEF InUse
    <3>3. /\ IsFiniteSet(InUse' \cup found')
          /\ Cardinality(InUse' \cup found') <= Cardinality(U)
      BY <2>1, <3>2, FS_Subset
    <3>4. Cardinality(InUse' \cup found') \in Nat
      BY <3>3, FS_CardinalityType
    <3> QED
      BY <1>6, <2>1, <2>2, <3>3, <3>4 DEF Counted
  <2>3. CASE Asleep(e) = <<>>
    <3>1. InUse' \cup found' \subseteq U \ {f}
      BY <1>2, <1>4, <1>6, <2>3 DEF InUse
    <3>2. /\ IsFiniteSet(U \ {f})
          /\ Cardinality(U \ {f}) =
               IF f \in U THEN Cardinality(U) - 1 ELSE Cardinality(U)
      BY <2>1, FS_RemoveElement
    <3>3. Cardinality(U \ {f}) \in Nat
      BY <3>2, FS_CardinalityType
    <3>4. /\ IsFiniteSet(InUse' \cup found')
          /\ Cardinality(InUse' \cup found') <= Cardinality(U \ {f})
      BY <3>1, <3>2, FS_Subset
    <3>5. Cardinality(InUse' \cup found') \in Nat
      BY <3>4, FS_CardinalityType
    <3>6. f \in found => f \in U
      OBVIOUS
    <3> HIDE DEF U
    <3>7. CASE f \in found
      BY <1>6, <2>1, <2>3, <3>2, <3>3, <3>4, <3>5, <3>6, <3>7 DEF Counted
    <3>8. CASE f \notin found
      BY <1>6, <2>1, <2>3, <3>2, <3>3, <3>4, <3>5, <3>8 DEF Counted
    <3> QED
      BY <3>7, <3>8
  <2> QED
    BY <2>2, <2>3
<1>8. TypeOK'
  <2>1. found' \subseteq Fd /\ added' \subseteq Fd /\ size' \in Nat
    BY <1>6 DEF TypeOK
  <2>2. fired' \subseteq [fd : Fd, events : (SUBSET Event) \ {{}}]
    BY <1>1 DEF TypeOK
  <2> QED
    BY <1>1, <1>3, <1>4, <1>5, <1>7, <2>1, <2>2 DEF TypeOK
<1>9. ListInv'
  <2>1. ASSUME NEW v \in Thread
        PROVE  /\ own'[v] # None <=> In(v, queue') \/ In(v, waiters') \/ Parked(v)'
               /\ In(v, dead') => own'[v] = None
               /\ ~(In(v, queue') /\ In(v, waiters'))
               /\ \A g \in Fd : In(v, waiting'[g]) =>
                    own'[v] = g /\ ~In(v, queue') /\ ~In(v, waiters')
    <3>1. CASE In(v, waiting[f])
      <4>1. \A g \in Fd \ {f} : ~In(v, waiting'[g])
        BY <1>2, <1>4, <3>1 DEF ListInv
      <4>2. Parked(v)' <=> ~Wakes(e, v)
        BY <1>2, <1>4, <3>1, <4>1 DEF Parked
      <4>3. own[v] = f /\ own[v] # None /\ ~In(v, queue) /\ ~In(v, waiters)
            /\ ~In(v, dead)
        BY <1>2, <3>1, ThreadsAssumption DEF ListInv
      <4>4. own' = own /\ waiters' = waiters /\ dead' = dead
        BY <1>1
      <4>5. In(v, queue') <=> Wakes(e, v)
        BY <1>3, <3>1, <4>3
      <4>6. In(v, waiting'[f]) <=> ~Wakes(e, v)
        BY <1>4, <3>1
      <4>7. \A g \in Fd : In(v, waiting'[g]) => g = f /\ ~Wakes(e, v)
        BY <4>1, <4>6
      <4> QED
        BY <4>2, <4>3, <4>4, <4>5, <4>7
    <3>2. CASE ~In(v, waiting[f])
      <4>1. \A g \in Fd : In(v, waiting'[g]) <=> In(v, waiting[g])
        BY <1>4, <3>2
      <4>2. Parked(v)' <=> Parked(v)
        BY <4>1 DEF Parked
      <4>3. own' = own /\ waiters' = waiters /\ dead' = dead
        BY <1>1
      <4>4. In(v, queue') <=> In(v, queue)
        BY <1>3, <3>2
      <4>5. /\ own[v] # None <=> In(v, queue) \/ In(v, waiters) \/ Parked(v)
            /\ In(v, dead) => own[v] = None
            /\ ~(In(v, queue) /\ In(v, waiters))
            /\ \A g \in Fd : In(v, waiting[g]) =>
                 own[v] = g /\ ~In(v, queue) /\ ~In(v, waiters)
        BY DEF ListInv
      <4> QED
        BY <4>1, <4>2, <4>3, <4>4, <4>5
    <3> QED
      BY <3>1, <3>2
  <2> QED
    BY <1>1, <1>3, <1>4, <2>1 DEF ListInv
<1>10. RunInv' /\ MutexInv'
  BY <1>1 DEF RunInv, MutexInv, Owners
<1>11. PollInv'
  <2>1. ASSUME NEW g \in Fd, NEW u \in Thread, In(u, waiting'[g])
        PROVE  /\ wants'[u] \in {{"in"}, {"out"}}
               /\ wants'[u] \subseteq events'[g] /\ wants'[u] \subseteq epoll'[g]
    BY <1>1, <1>4, <1>5, <2>1 DEF PollInv, Wakes
  <2>2. found' \subseteq added'
    BY <1>6 DEF PollInv
  <2>3. ASSUME NEW g \in Fd PROVE g \in added' <=> waiting'[g] # <<>>
    <3>1. CASE g # f
      BY <1>4, <1>6, <3>1 DEF PollInv
    <3>2. CASE g = f /\ Asleep(e) = <<>>
      BY <1>4, <1>6, <3>2
    <3>3. CASE g = f /\ Asleep(e) # <<>>
      <4>1. waiting'[f] \in Seq(Thread) /\ waiting'[f] # <<>>
        BY <1>2, <1>4, <3>3
      <4>3. PICK t \in Thread : In(t, waiting'[f])
        BY <4>1, InSomething
      <4>4. waiting[f] # <<>>
        BY <1>4, <4>3, InNothing
      <4> QED
        BY <1>2, <1>6, <3>3, <4>1, <4>4 DEF PollInv
    <3> QED
      BY <3>1, <3>2, <3>3
  <2> QED
    BY <2>1, <2>2, <2>3 DEF PollInv
<1>12. ApartInv'
  <2>1. added' \subseteq added /\ (found = added => found' = added')
    BY <1>6
  <2> QED
    BY <1>1, <2>1 DEF ApartInv, Apart, Single
<1> QED
  BY <1>7, <1>8, <1>9, <1>10, <1>11, <1>12

(* The first of the queue goes to its end.                                 *)
LEMMA PickType ==
  ASSUME TypeOK, ListInv, queue # <<>>, queue' = Append(Tail(queue), Head(queue))
  PROVE  /\ Head(queue) \in Thread /\ In(Head(queue), queue)
         /\ queue' \in Seq(Thread) /\ Once(queue')
         /\ \A u : In(u, queue') <=> In(u, queue)
         /\ \A u : In(u, queue) /\ u # Head(queue) => Place(u, queue') <= Place(u, queue)
<1>1. queue \in Seq(Thread) /\ Once(queue)
  BY DEF TypeOK, ListInv
<1>2. /\ Tail(queue) \in Seq(Thread) /\ Once(Tail(queue)) /\ Head(queue) \in Thread
      /\ In(Head(queue), queue)
      /\ \A u : In(u, Tail(queue)) <=> In(u, queue) /\ u # Head(queue)
      /\ \A u : In(u, Tail(queue)) => Place(u, Tail(queue)) <= Place(u, queue)
  BY <1>1, TailType
<1> DEFINE s == Tail(queue)
           t == Head(queue)
<1> HIDE DEF s, t
<1>3. s \in Seq(Thread) /\ Once(s) /\ t \in Thread /\ ~In(t, s)
  BY <1>2 DEF s, t
<1>4. /\ queue' \in Seq(Thread) /\ Once(queue')
      /\ \A u : In(u, queue') <=> In(u, s) \/ u = t
      /\ \A u : In(u, s) => Place(u, queue') = Place(u, s)
  <2>1. queue' = Append(s, t)
    BY DEF s, t
  <2>2. /\ Append(s, t) \in Seq(Thread) /\ Once(Append(s, t))
        /\ \A u : In(u, Append(s, t)) <=> In(u, s) \/ u = t
        /\ \A u : In(u, s) => Place(u, Append(s, t)) = Place(u, s)
    BY <1>3, AppendType
  <2> QED
    BY <2>1, <2>2
<1>5. \A u : In(u, queue) /\ u # t => Place(u, queue') <= Place(u, queue)
  BY <1>2, <1>4 DEF s, t
<1> QED
  BY <1>2, <1>4, <1>5 DEF s, t

(* There is always a thread to pick.  One that was handed the mutex enters *)
(* its critical section then.                                              *)
LEMMA PickInv == ASSUME IInv, Pick PROVE IInv'
<1> USE DEF IInv
<1> DEFINE n == Head(queue)
<1>1. queue # <<>>
  BY DEF Pick, RunInv
<1>2. /\ queue' = Append(Tail(queue), n) /\ current' = n /\ phase' = "run"
      /\ stage' = [stage EXCEPT ![n] = IF @ = "asks" THEN "in" ELSE @]
      /\ UNCHANGED <<world, dead, poll, own, lock, waiters, fired, up>>
  BY <1>1 DEF Pick, Picked, Entered
<1>3. /\ n \in Thread /\ In(n, queue) /\ queue' \in Seq(Thread) /\ Once(queue')
      /\ \A u : In(u, queue') <=> In(u, queue)
  BY <1>1, <1>2, PickType
<1> HIDE DEF n
<1>4. /\ stage' \in [Thread -> {"out", "asks", "in"}]
      /\ stage'[n] = IF stage[n] = "asks" THEN "in" ELSE stage[n]
      /\ \A u \in Thread \ {n} : stage'[u] = stage[u]
  BY <1>2, <1>3 DEF TypeOK
<1>5. TypeOK'
  BY <1>2, <1>3, <1>4 DEF TypeOK, poll, pollmap
<1>6. ListInv'
  BY <1>2, <1>3 DEF ListInv, Parked, poll
<1>7. RunInv'
  BY <1>2, <1>3, <1>4 DEF RunInv
<1>8. MutexInv'
  <2>1. ~In(n, waiters)
    BY <1>3 DEF ListInv
  <2>2. Owners' = Owners
    BY <1>2, <1>4, <2>1 DEF Owners
  <2> QED
    BY <1>2, <1>4, <2>1, <2>2 DEF MutexInv
<1>9. PollInv' /\ Counted'
  BY <1>2, PollKept
<1>10. ApartInv'
  BY <1>2 DEF ApartInv, Apart, Single, poll, pollmap
<1> QED
  BY <1>5, <1>6, <1>7, <1>8, <1>9, <1>10

----------------------------------------------------------------------------
LEMMA InvNext == ASSUME IInv, [Next]_vars PROVE IInv'
<1>1. CASE Switch
  BY <1>1, EpollWaitInv, HandleInv, PickInv DEF Switch
<1>2. ASSUME NEW t \in Thread, Steps(t) PROVE IInv'
  BY <1>2, GoInv, EndInv, BlockFdInv, LockInv, LockWaitsInv, UnlockInv DEF Steps, Blocks
<1>3. CASE UNCHANGED vars
  <2> USE <1>3 DEF IInv, vars
  <2>1. TypeOK' /\ ListInv' /\ RunInv' /\ MutexInv'
    BY DEF TypeOK, ListInv, Parked, RunInv, MutexInv, Owners
  <2>2. PollInv' /\ Counted' /\ ApartInv'
    BY DEF PollInv, Counted, InUse, ApartInv, Apart, Single
  <2> QED
    BY <2>1, <2>2
<1> QED
  BY <1>1, <1>2, <1>3 DEF Next

LEMMA InvHolds == Spec => []IInv
BY InvInit, InvNext, PTL DEF Spec

----------------------------------------------------------------------------
(* The run queue                                                           *)
LEMMA PlaceNat == ASSUME NEW s \in Seq(Thread), NEW t, In(t, s) PROVE Place(t, s) \in Nat
<1>1. \E i \in DOMAIN s : s[i] = t
  BY DEF In
<1>2. Place(t, s) \in DOMAIN s
  BY <1>1 DEF Place
<1> QED
  BY <1>2

(* Whoever joins the queue goes to its end; whoever leaves lets the others *)
(* move up; only Pick moves a thread back, and that one runs.              *)
LEMMA NotOvertaken ==
  ASSUME IInv, [Next]_vars, NEW t \in Thread, In(t, queue), In(t, queue')
  PROVE  Place(t, queue') <= Place(t, queue) \/ (current' = t /\ phase = "pick")
<1> USE DEF IInv
<1>1. queue \in Seq(Thread) /\ Once(queue) /\ Place(t, queue) \in Nat
  BY PlaceNat DEF TypeOK, ListInv
<1>2. UNCHANGED queue => Place(t, queue') <= Place(t, queue)
  BY <1>1
<1>3. ASSUME NEW u \in Thread, queue' = Append(queue, u), ~In(u, queue)
      PROVE  Place(t, queue') <= Place(t, queue)
  BY <1>1, <1>3, AppendType
<1>4. ASSUME NEW u \in Thread, queue' = Without(queue, u)
      PROVE  Place(t, queue') <= Place(t, queue)
  BY <1>1, <1>4, WithoutType
<1>5. ASSUME NEW u \in Thread, Steps(u) PROVE Place(t, queue') <= Place(t, queue)
  <2>1. CASE Blocks(u)
    <3>1. queue' = Without(queue, u) \/ UNCHANGED queue
      BY <2>1 DEF Blocks, BlockFd, LockWaits, End
    <3> QED
      BY <1>2, <1>4, <3>1
  <2>2. CASE Lock(u)
    BY <1>2, <2>2 DEF Lock
  <2>3. CASE Unlock(u)
    <3>1. CASE waiters = <<>>
      BY <1>2, <2>3, <3>1 DEF Unlock
    <3>2. CASE waiters # <<>>
      <4>1. queue' = Append(queue, Head(waiters))
        BY <2>3, <3>2 DEF Unlock, HandOver
      <4>2. waiters \in Seq(Thread) /\ Once(waiters)
        BY DEF TypeOK, ListInv
      <4>3. Head(waiters) \in Thread /\ In(Head(waiters), waiters)
        BY <3>2, <4>2, TailType
      <4>4. ~In(Head(waiters), queue)
        BY <4>3 DEF ListInv
      <4> QED
        BY <1>3, <4>1, <4>3, <4>4
    <3> QED
      BY <3>1, <3>2
  <2>4. ASSUME NEW v \in Thread, NEW f \in Fd, Go(u, v, f)
        PROVE  Place(t, queue') <= Place(t, queue)
    <3>1. queue' = Append(queue, v) /\ Recycled(v)
      BY <2>4 DEF Go
    <3>2. own[v] = None
      <4>1. CASE dead = <<>>
        BY <3>1, <4>1 DEF Recycled
      <4>2. CASE dead # <<>>
        <5>1. dead \in Seq(Thread) /\ Once(dead) /\ v = Head(dead)
          BY <3>1, <4>2 DEF Recycled, TypeOK, ListInv
        <5>2. In(v, dead)
          BY <4>2, <5>1, TailType
        <5> QED
          BY <5>2 DEF ListInv
      <4> QED
        BY <4>1, <4>2
    <3>3. ~In(v, queue)
      BY <3>2 DEF ListInv
    <3> QED
      BY <1>3, <3>1, <3>3
  <2> QED
    BY <1>5, <2>1, <2>2, <2>3, <2>4 DEF Steps
<1>6. CASE EpollWait
  BY <1>2, <1>6 DEF EpollWait
<1>7. ASSUME NEW e \in fired, Handle(e) PROVE Place(t, queue') <= Place(t, queue)
  <2>1. queue' = Requeued(e)
    BY <1>7 DEF Handle
  <2>2. Place(t, Requeued(e)) = Place(t, queue)
    BY RequeuedType
  <2> QED
    BY <1>1, <2>1, <2>2
<1>8. CASE Pick
  <2>1. queue # <<>>
    BY <1>8 DEF Pick, RunInv
  <2>2. /\ phase = "pick" /\ current' = Head(queue)
        /\ queue' = Append(Tail(queue), Head(queue))
    BY <1>8, <2>1 DEF Pick, Picked
  <2>3. t # Head(queue) => Place(t, queue') <= Place(t, queue)
    BY <2>1, <2>2, PickType
  <2> QED
    BY <2>2, <2>3
<1>9. UNCHANGED vars => UNCHANGED queue
  BY DEF vars
<1> QED
  BY <1>2, <1>5, <1>6, <1>7, <1>8, <1>9 DEF Next, Switch

----------------------------------------------------------------------------
(* The theorems                                                            *)

(* The state is well-formed.                                               *)
THEOREM TypeCorrect == Spec => []TypeOK
<1>1. IInv => TypeOK
  BY DEF IInv
<1> QED
  BY <1>1, InvHolds, PTL

(* No wake-up is lost: epoll has been asked for whatever a parked thread   *)
(* waits for, also after gtblockfd has skipped epoll_ctl.                  *)
THEOREM NoLostWakeUp == Spec => []Armed
<1>1. ASSUME IInv PROVE Armed
  <2> SUFFICES ASSUME NEW f \in Fd
               PROVE  /\ f \in added <=> waiting[f] # <<>>
                      /\ \A i \in DOMAIN waiting[f] : wants[waiting[f][i]] \subseteq epoll[f]
    BY DEF Armed
  <2>1. f \in added <=> waiting[f] # <<>>
    BY <1>1 DEF IInv, PollInv
  <2>2. ASSUME NEW i \in DOMAIN waiting[f] PROVE wants[waiting[f][i]] \subseteq epoll[f]
    <3>1. waiting[f] \in Seq(Thread)
      BY <1>1 DEF IInv, TypeOK
    <3>2. waiting[f][i] \in Thread /\ In(waiting[f][i], waiting[f])
      BY <3>1 DEF In
    <3> QED
      BY <1>1, <3>2 DEF IInv, PollInv
  <2> QED
    BY <2>1, <2>2
<1> QED
  BY <1>1, InvHolds, PTL

(* The poll map counts every bucket that is found and, whatever it has     *)
(* lost, at least as many as threads wait in: gtswitch looks at epoll      *)
(* whenever a thread waits for a descriptor.                               *)
THEOREM NeverCountsTooFew == Spec => []Counted
<1>1. IInv => Counted
  BY DEF IInv
<1> QED
  BY <1>1, InvHolds, PTL

(* The mutex has one owner while it is taken, also between being handed    *)
(* over and the next owner's return, and none while it is free.            *)
THEOREM MutualExclusion == Spec => []OneOwner
<1>1. ASSUME IInv PROVE OneOwner
  <2>1. CASE lock
    <3>1. PICK t \in Thread : Owners = {t}
      BY <1>1, <2>1 DEF IInv, MutexInv
    <3>2. Cardinality({t}) = 1
      BY FS_Singleton
    <3> QED
      BY <2>1, <3>1, <3>2 DEF OneOwner
  <2>2. CASE ~lock
    <3>1. Owners = {}
      BY <1>1, <2>2 DEF IInv, MutexInv
    <3>2. Cardinality({}) = 0
      BY FS_EmptySet
    <3> QED
      BY <2>2, <3>1, <3>2 DEF OneOwner
  <2> QED
    BY <2>1, <2>2
<1> QED
  BY <1>1, InvHolds, PTL

(* If the threads of each world have descriptors of their own, or all      *)
(* share one, then epoll_ctl never fails and gtswitch always finds a       *)
(* thread: the process does not exit.  Without that it may, for the poll   *)
(* map loses buckets whose descriptors collide.                            *)
THEOREM RunsOn ==
  ASSUME \A w \in Worlds : w.livefs \/ \A f, g \in w.fds : f = g
  PROVE  Spec => []NeverExits
<1>1. ASSUME IInv PROVE NeverExits
  <2>1. world \in Worlds
    BY <1>1 DEF IInv, TypeOK
  <2>2. Apart
    BY <2>1 DEF Apart, Single
  <2> QED
    BY <1>1, <2>2 DEF IInv, ApartInv, NeverExits
<1> QED
  BY <1>1, InvHolds, PTL

(* A living thread is in exactly one list, once; a dead or new one is in   *)
(* none, and at most once in the dead list.                                *)
LEMMA Found ==
  ASSUME NEW t, NEW s, In(t, s), Once(s)
  PROVE  \E i \in DOMAIN s : {j \in DOMAIN s : s[j] = t} = {i}
BY DEF In, Once

LEMMA NotFound ==
  ASSUME NEW t, NEW s, ~In(t, s) PROVE {j \in DOMAIN s : s[j] = t} = {}
BY DEF In

THEOREM OnePlaceEach == Spec => []OneList
<1>1. ASSUME IInv PROVE OneList
  <2> USE <1>1 DEF IInv
  <2> SUFFICES ASSUME NEW t \in Thread
               PROVE  /\ Cardinality(Places(t)) = (IF own[t] = None THEN 0 ELSE 1)
                      /\ Cardinality({j \in DOMAIN dead : dead[j] = t})
                           <= (IF own[t] = None THEN 1 ELSE 0)
    BY DEF OneList
  <2> DEFINE Q == {j \in DOMAIN queue : queue[j] = t}
             M == {j \in DOMAIN waiters : waiters[j] = t}
             W(f) == {j \in DOMAIN waiting[f] : waiting[f][j] = t}
             D == {j \in DOMAIN dead : dead[j] = t}
  <2>1. Places(t) = {<<"queue", i>> : i \in Q} \cup {<<"mutex", i>> : i \in M}
                    \cup UNION {{<<f, i>> : i \in W(f)} : f \in Fd}
    BY DEF Places
  <2>2. /\ In(t, queue) => \E i : Q = {i}
        /\ In(t, waiters) => \E i : M = {i}
        /\ In(t, dead) => \E i : D = {i}
        /\ \A f \in Fd : In(t, waiting[f]) => \E i : W(f) = {i}
    <3>1. Once(queue) /\ Once(waiters) /\ Once(dead) /\ \A f \in Fd : Once(waiting[f])
      BY DEF ListInv
    <3>2. In(t, queue) => \E i : Q = {i}
      BY <3>1, Found
    <3>3. In(t, waiters) => \E i : M = {i}
      BY <3>1, Found
    <3>4. In(t, dead) => \E i : D = {i}
      BY <3>1, Found
    <3>5. ASSUME NEW f \in Fd, In(t, waiting[f]) PROVE \E i : W(f) = {i}
      BY <3>1, <3>5, Found
    <3> QED
      BY <3>2, <3>3, <3>4, <3>5
  <2>3. /\ ~In(t, queue) => Q = {}
        /\ ~In(t, waiters) => M = {}
        /\ ~In(t, dead) => D = {}
        /\ \A f \in Fd : ~In(t, waiting[f]) => W(f) = {}
    BY NotFound
  <2>4. /\ own[t] # None <=> In(t, queue) \/ In(t, waiters) \/ Parked(t)
        /\ In(t, dead) => own[t] = None
        /\ ~(In(t, queue) /\ In(t, waiters))
        /\ \A f \in Fd : In(t, waiting[f]) => own[t] = f /\ ~In(t, queue) /\ ~In(t, waiters)
    BY DEF ListInv
  <2> HIDE DEF Q, M, W, D
  <2>5. /\ Cardinality({}) = 0
        /\ \A x : Cardinality({x}) = 1
    BY FS_EmptySet, FS_Singleton
  <2>6. Cardinality(Places(t)) = (IF own[t] = None THEN 0 ELSE 1)
    <3>1. CASE own[t] = None
      <4>1. Q = {} /\ M = {} /\ \A f \in Fd : W(f) = {}
        BY <2>3, <2>4, <3>1 DEF Parked
      <4>2. Places(t) = {}
        BY <2>1, <4>1
      <4> QED
        BY <2>5, <3>1, <4>2
    <3>2. CASE In(t, queue)
      <4>1. M = {} /\ \A f \in Fd : W(f) = {}
        BY <2>3, <2>4, <3>2
      <4>2. PICK i : Q = {i}
        BY <2>2, <3>2
      <4>3. Places(t) = {<<"queue", i>>}
        BY <2>1, <4>1, <4>2
      <4> QED
        BY <2>4, <2>5, <3>2, <4>3
    <3>3. CASE In(t, waiters)
      <4>1. Q = {} /\ \A f \in Fd : W(f) = {}
        BY <2>3, <2>4, <3>3
      <4>2. PICK i : M = {i}
        BY <2>2, <3>3
      <4>3. Places(t) = {<<"mutex", i>>}
        BY <2>1, <4>1, <4>2
      <4> QED
        BY <2>4, <2>5, <3>3, <4>3
    <3>4. CASE Parked(t)
      <4>1. PICK f \in Fd : In(t, waiting[f])
        BY <3>4 DEF Parked
      <4>2. Q = {} /\ M = {} /\ \A g \in Fd \ {f} : W(g) = {}
        BY <2>3, <2>4, <4>1
      <4>3. PICK i : W(f) = {i}
        BY <2>2, <4>1
      <4>4. Places(t) = {<<f, i>>}
        BY <2>1, <4>2, <4>3
      <4> QED
        BY <2>4, <2>5, <3>4, <4>4
    <3> QED
      BY <2>4, <3>1, <3>2, <3>3, <3>4
  <2>7. Cardinality(D) <= (IF own[t] = None THEN 1 ELSE 0)
    <3>1. CASE In(t, dead)
      <4>1. PICK i : D = {i}
        BY <2>2, <3>1
      <4>2. Cardinality(D) = 1
        BY <2>5, <4>1
      <4> QED
        BY <2>4, <3>1, <4>2
    <3>2. CASE ~In(t, dead)
      <4>1. Cardinality(D) = 0
        BY <2>3, <2>5, <3>2
      <4> QED
        BY <4>1
    <3> QED
      BY <3>1, <3>2
  <2> QED
    BY <2>6, <2>7 DEF D
<1> QED
  BY <1>1, InvHolds, PTL

(* The lock's line: who has it, then who waits.                            *)
LineInv ==
  /\ lock => \E t \in Thread : Owners = {t} /\ Line = <<t>> \o waiters
  /\ ~lock => Owners = {} /\ waiters = <<>> /\ Line = <<>>

LEMMA LineIs == IInv => LineInv
<1> SUFFICES ASSUME MutexInv PROVE LineInv
  BY DEF IInv
<1>1. CASE lock
  <2>1. PICK t \in Thread : Owners = {t}
    BY <1>1 DEF MutexInv
  <2>2. (CHOOSE u \in {t} : TRUE) = t
    OBVIOUS
  <2>3. Line = <<t>> \o waiters
    BY <1>1, <2>1, <2>2 DEF Line
  <2> QED
    BY <1>1, <2>1, <2>3 DEF LineInv
<1>2. CASE ~lock
  BY <1>2 DEF MutexInv, Line, LineInv
<1> QED
  BY <1>1, <1>2

LEMMA LineStep ==
  ASSUME IInv, [Next]_vars
  PROVE  [Fifo!Next]_Line
<1> USE DEF IInv
<1>1. IInv'
  BY InvNext
<1>2. LineInv /\ LineInv'
  BY <1>1, LineIs, PTL
<1>3. waiters \in Seq(Thread) /\ waiters' \in Seq(Thread)
  BY <1>1 DEF TypeOK
<1>4. ASSUME UNCHANGED <<waiters, lock>>, Owners' = Owners PROVE UNCHANGED Line
  BY <1>4 DEF Line
<1>5. ASSUME NEW t \in Thread, Lock(t) PROVE Fifo!Join(t)
  <2>1. ~lock /\ lock' /\ waiters' = waiters /\ stage' = [stage EXCEPT ![t] = "in"]
    BY <1>5 DEF Lock
  <2>2. Line = <<>> /\ waiters = <<>>
    BY <2>1, <1>2 DEF LineInv
  <2>3. t \in Owners'
    BY <2>1 DEF Owners, TypeOK
  <2>4. PICK u \in Thread : Owners' = {u} /\ Line' = <<u>> \o waiters'
    BY <2>1, <1>2 DEF LineInv
  <2>5. Line' = <<t>>
    BY <2>1, <2>2, <2>3, <2>4
  <2> QED
    BY <2>2, <2>5 DEF Fifo!Join
<1>6. ASSUME NEW t \in Thread, LockWaits(t) PROVE Fifo!Join(t)
  <2>1. /\ lock /\ lock' = lock /\ stage[t] = "out" /\ current = t /\ phase = "run"
        /\ waiters' = Append(waiters, t) /\ stage' = [stage EXCEPT ![t] = "asks"]
    BY <1>6 DEF LockWaits, Runs, MayLock
  <2>2. PICK u \in Thread : Owners = {u} /\ Line = <<u>> \o waiters
    BY <2>1, <1>2 DEF LineInv
  <2>3. PICK v \in Thread : Owners' = {v} /\ Line' = <<v>> \o waiters'
    BY <2>1, <1>2 DEF LineInv
  <2>4. u # t /\ ~In(t, waiters)
    BY <2>1, <2>2 DEF Owners, MutexInv
  <2>5. u = v
    <3>1. u \in Owners
      BY <2>2
    <3>2. stage'[u] = stage[u]
      BY <2>1, <2>4 DEF TypeOK
    <3>3. In(u, waiters') => In(u, waiters)
      <4>1. Once(waiters)
        BY DEF ListInv
      <4> QED
        BY <1>3, <2>1, <2>4, <4>1, AppendType
    <3>4. u \in Owners'
      BY <3>1, <3>2, <3>3 DEF Owners
    <3> QED
      BY <2>3, <3>4
  <2>6. \A i \in DOMAIN Line : Line[i] # t
    <3> SUFFICES ASSUME NEW i \in DOMAIN (<<u>> \o waiters) PROVE (<<u>> \o waiters)[i] # t
      BY <2>2
    <3>1. CASE i = 1
      BY <1>3, <2>4, <3>1
    <3>2. CASE i # 1
      <4>1. i - 1 \in DOMAIN waiters /\ (<<u>> \o waiters)[i] = waiters[i - 1]
        BY <1>3, <3>2
      <4> QED
        BY <2>4, <4>1 DEF In
    <3> QED
      BY <3>1, <3>2
  <2>7. Line' = Append(Line, t)
    BY <1>3, <2>1, <2>2, <2>3, <2>5
  <2> QED
    BY <2>6, <2>7 DEF Fifo!Join
<1>7. ASSUME NEW t \in Thread, Unlock(t) PROVE Fifo!Leave
  <2>1. stage[t] = "in" /\ stage' = [stage EXCEPT ![t] = "out"]
    BY <1>7 DEF Unlock
  <2>2. t \in Owners /\ lock
    BY <2>1 DEF Owners, MutexInv
  <2>3. Line = <<t>> \o waiters
    BY <2>2, <1>2 DEF LineInv
  <2>4. Line # <<>> /\ Tail(Line) = waiters
    BY <1>3, <2>3
  <2>5. CASE waiters = <<>>
    <3>1. ~lock'
      BY <1>7, <2>5 DEF Unlock
    <3>2. Line' = <<>>
      BY <3>1 DEF Line
    <3> QED
      BY <2>4, <2>5, <3>2 DEF Fifo!Leave
  <2>6. CASE waiters # <<>>
    <3>1. lock' /\ waiters' = Tail(waiters)
      BY <1>7, <2>2, <2>6 DEF Unlock, HandOver
    <3>2. PICK v \in Thread : Owners' = {v} /\ Line' = <<v>> \o waiters'
      BY <3>1, <1>2 DEF LineInv
    <3>3. /\ Head(waiters) \in Thread /\ In(Head(waiters), waiters)
          /\ ~In(Head(waiters), waiters')
      <4>1. Once(waiters)
        BY DEF ListInv
      <4> QED
        BY <1>3, <2>6, <3>1, <4>1, TailType
    <3>4. stage'[Head(waiters)] = "asks"
      <4>1. stage[Head(waiters)] = "asks"
        BY <3>3 DEF MutexInv
      <4> QED
        BY <2>1, <3>3, <4>1 DEF TypeOK
    <3>5. Head(waiters) \in Owners'
      BY <3>3, <3>4 DEF Owners
    <3>6. Line' = waiters
      BY <1>3, <2>6, <3>1, <3>2, <3>5
    <3> QED
      BY <2>4, <3>6 DEF Fifo!Leave
  <2> QED
    BY <2>5, <2>6
<1>8. CASE Pick
  <2>1. /\ queue # <<>> /\ UNCHANGED <<lock, waiters>>
        /\ stage' = [stage EXCEPT ![Head(queue)] = IF @ = "asks" THEN "in" ELSE @]
    BY <1>8 DEF Pick, Picked, Entered, RunInv
  <2>2. Head(queue) \in Thread /\ In(Head(queue), queue)
    <3>1. queue \in Seq(Thread) /\ Once(queue)
      BY DEF TypeOK, ListInv
    <3> QED
      BY <2>1, <3>1, TailType
  <2>3. ~In(Head(queue), waiters)
    BY <2>2 DEF ListInv
  <2>4. Owners' = Owners
    BY <2>1, <2>2, <2>3 DEF Owners, TypeOK
  <2> QED
    BY <1>4, <2>1, <2>4
<1>9. ASSUME UNCHANGED <<stage, waiters, lock>> PROVE UNCHANGED Line
  BY <1>4, <1>9 DEF Owners
<1>10. CASE Switch
  BY <1>8, <1>9, <1>10 DEF Switch, EpollWait, Handle, mutex
<1>11. ASSUME NEW t \in Thread, Steps(t) PROVE [Fifo!Next]_Line
  <2>1. ASSUME NEW w \in SUBSET Event, BlockFd(t, w) PROVE UNCHANGED Line
    BY <1>9, <2>1 DEF BlockFd, mutex
  <2>2. End(t) => UNCHANGED Line
    BY <1>9 DEF End, mutex
  <2>3. ASSUME NEW u \in Thread, NEW f \in Fd, Go(t, u, f) PROVE UNCHANGED Line
    BY <1>9, <2>3 DEF Go, mutex
  <2>4. Lock(t) \/ LockWaits(t) \/ Unlock(t) => Fifo!Next
    BY <1>5, <1>6, <1>7 DEF Fifo!Next
  <2> QED
    BY <1>11, <2>1, <2>2, <2>3, <2>4 DEF Steps, Blocks
<1>12. UNCHANGED vars => UNCHANGED Line
  BY <1>9 DEF vars
<1> QED
  BY <1>10, <1>11, <1>12 DEF Next

(* Over any interleaving of its threads gtmutex is a FIFO lock: those who  *)
(* wait get it in the order they asked for it, and nobody else does.       *)
THEOREM MutexIsFifoLock == Spec => FifoLockSpec
<1>1. Init => Fifo!Init
  BY DEF Init, Fifo!Init, Line
<1>2. IInv /\ [Next]_vars => [Fifo!Next]_Line
  BY LineStep
<1> QED
  BY <1>1, <1>2, InvHolds, PTL DEF Spec, FifoLockSpec, Fifo!Spec

(* No runnable thread is overtaken.                                        *)
THEOREM FifoScheduling == Spec => NeverOvertaken
<1>1. ASSUME IInv, [Next]_vars
      PROVE  [\A t \in Thread :
                In(t, queue) /\ In(t, queue') =>
                  \/ Place(t, queue') <= Place(t, queue)
                  \/ current' = t /\ phase = "pick"]_vars
  BY <1>1, NotOvertaken
<1> QED
  BY <1>1, InvHolds, PTL DEF Spec, NeverOvertaken
=============================================================================
