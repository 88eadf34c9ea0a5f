--------------------------- MODULE Startup_proofs ---------------------------
(* Proofs of the safety properties of Startup.                             *)
EXTENDS Startup, TLAPS

(* A process has a verified configuration from "open" on, and none before. *)
Blind      == {"find", "create", "fill", "parse"}
Configured == {"open", "bind", "listen", "block", "loop", "stuck"}

ConfInv ==
  \A p \in Process :
    /\ pc[p] \in Blind => conf[p] = None
    /\ pc[p] \in Configured => conf[p] # None /\ Verified(conf[p])

(* Whoever serves listens, and sockets that listen differ in their ports.  *)
SockInv ==
  /\ \A p \in Process : At(p, "loop") => p \in listens
  /\ \A p \in listens : \A q \in listens \ {p} : port[p] = Chosen \/ port[p] # port[q]

(* A user's file has no writer, and whoever is about to create one has     *)
(* looked for it too early.                                                *)
FileInv ==
  /\ WholeUnlessStopped
  /\ file \in Texts => held = {} /\ \A p \in Process : At(p, "create") => p \in late

IInv == TypeOK /\ ConfInv /\ SockInv /\ FileInv

(* What the server writes is not what a user wrote.                        *)
LEMMA WrittenFiles ==
  /\ Default \notin Texts /\ Empty \notin Texts /\ None \notin Texts
  /\ Default # Empty /\ None # Empty /\ None # Default
  /\ {Default, Empty} \subseteq Text
<1>1. Default \in Text /\ Empty \in Text
  BY DEF Text, Default, Empty
<1>2. Default # Empty
  BY DEF Default, Empty
<1> QED
  BY <1>1, <1>2, StartupAssumption

(* A process that goes on changes no other one's place.                    *)
LEMMA GoesType ==
  ASSUME TypeOK, NEW p \in Process, NEW l \in Ended \cup Running, Goes(p, l)
  PROVE  /\ pc' \in [Process -> Ended \cup Running]
         /\ pc'[p] = l
         /\ \A q \in Process \ {p} : pc'[q] = pc[q]
BY DEF TypeOK, Goes

(* A process that is gone has no socket, and the others keep theirs.       *)
LEMMA GoneType ==
  ASSUME TypeOK, NEW p \in Process, NEW how \in Ended, Gone(p, how)
  PROVE  /\ pc' \in [Process -> Ended \cup Running]
         /\ pc'[p] = how
         /\ \A q \in Process \ {p} : pc'[q] = pc[q] /\ port'[q] = port[q]
         /\ port' \in [Process -> 0 .. PortSpace - 1 \cup {Chosen, None}]
         /\ port'[p] = None
         /\ held' = held \ {p} /\ late' = late \ {p}
         /\ listens' = listens \ {p}
<1>1. Goes(p, how)
  BY DEF Gone
<1> QED
  BY <1>1, GoesType DEF TypeOK, Gone

(* exit() is one of the two ends it can come to.                           *)
LEMMA ExitsType ==
  ASSUME NEW p \in Process, Exits(p)
  PROVE  \E how \in Ended : Gone(p, how) /\ (how = "crashed" => conf[p] = None)
<1>1. CASE conf[p] = None
  BY <1>1 DEF Exits, Ended
<1>2. CASE conf[p] # None
  BY <1>2 DEF Exits, Ended
<1> QED
  BY <1>1, <1>2

(* A port that bind asks for is a port.                                    *)
LEMMA WantedType ==
  ASSUME TypeOK, ConfInv, NEW p \in Process, At(p, "bind")
  PROVE  Wanted(p) \in 0 .. PortSpace - 1
<1>1. conf[p] \in Texts \cup {Default, Empty}
  BY DEF ConfInv, Configured, At, TypeOK
<1>2. conf[p] \in Text
  BY <1>1, WrittenFiles, StartupAssumption
<1>3. conf[p].port \in Int
  BY <1>2 DEF Text
<1> QED
  BY <1>3, StartupAssumption DEF Wanted

(* Nothing has been started yet.                                           *)
LEMMA InvInit == Init => IInv
<1> SUFFICES ASSUME Init PROVE IInv
  OBVIOUS
<1>1. TypeOK
  BY DEF Init, TypeOK, Ended, Running
<1>2. ConfInv /\ SockInv
  BY DEF Init, ConfInv, SockInv, Blind, Configured, At
<1>3. FileInv
  BY WrittenFiles DEF Init, FileInv, WholeUnlessStopped, At
<1> QED
  BY <1>1, <1>2, <1>3 DEF IInv

(* The end of a process disturbs nothing that the invariant says of the    *)
(* others; an empty file that it leaves behind is noticed.                 *)
LEMMA GoneInv ==
  ASSUME IInv, NEW p \in Process, NEW how \in Ended, Gone(p, how),
         UNCHANGED <<host, file, found>>,
         \/ CutBy(p)
         \/ p \notin held /\ UNCHANGED cut,
         conf' \in [Process -> Texts \cup {Default, Empty, None}],
         \A q \in Process \ {p} : conf'[q] = conf[q]
  PROVE  IInv'
<1>1. /\ pc' \in [Process -> Ended \cup Running]
      /\ pc'[p] = how
      /\ \A q \in Process \ {p} : pc'[q] = pc[q] /\ port'[q] = port[q]
      /\ port' \in [Process -> 0 .. PortSpace - 1 \cup {Chosen, None}]
      /\ port'[p] = None
      /\ held' = held \ {p} /\ late' = late \ {p}
      /\ listens' = listens \ {p}
  BY GoneType DEF IInv
<1>2. TypeOK'
  BY <1>1 DEF IInv, TypeOK, CutBy, Ended
<1>3. ConfInv'
  BY <1>1 DEF IInv, ConfInv, Ended, Configured, Blind, Verified, RootExists
<1>4. SockInv'
  BY <1>1 DEF IInv, SockInv, TypeOK, At, Ended
<1>5. FileInv'
  <2>1. WholeUnlessStopped'
    BY <1>1 DEF IInv, FileInv, WholeUnlessStopped, CutBy
  <2> QED
    BY <1>1, <2>1 DEF IInv, FileInv, At, Ended
<1> QED
  BY <1>2, <1>3, <1>4, <1>5 DEF IInv

(* A process that goes on with its configuration, while its socket and the *)
(* listening ones stay as they are or as SockInv wants them.               *)
LEMMA GoesOnInv ==
  ASSUME IInv, NEW p \in Process, pc[p] \in Configured,
         NEW l \in Configured, Goes(p, l),
         UNCHANGED <<host, file, cut, held, late, found, conf>>,
         port' \in [Process -> 0 .. PortSpace - 1 \cup {Chosen, None}],
         \A q \in Process \ {p} : port'[q] = port[q],
         listens' \ {p} = listens \ {p},
         p \in listens' => l \in {"block", "loop", "stuck"},
         SockInv'
  PROVE  IInv'
<1>1. /\ pc' \in [Process -> Ended \cup Running] /\ pc'[p] = l
      /\ \A q \in Process \ {p} : pc'[q] = pc[q]
  BY GoesType DEF Running, Configured, IInv
<1>2. TypeOK'
  <2>1. listens' \subseteq {q \in Process : pc'[q] \in {"block", "loop", "stuck"}}
    BY <1>1 DEF IInv, TypeOK
  <2> QED
    BY <1>1, <2>1 DEF IInv, TypeOK, Ended, Configured
<1>3. ConfInv'
  BY <1>1 DEF IInv, ConfInv, Blind, Configured, Verified, RootExists
<1>4. FileInv'
  BY <1>1 DEF IInv, FileInv, WholeUnlessStopped, At, Configured
<1> QED
  BY <1>2, <1>3, <1>4 DEF IInv

(* A user's edit takes the file from its writers, and makes those late who *)
(* have not found it.                                                      *)
LEMMA EditInv == ASSUME IInv, NEW t \in Texts \cup {None}, Edit(t) PROVE IInv'
<1> USE DEF IInv, Edit
<1>1. TypeOK'
  BY DEF TypeOK, At
<1>2. ConfInv' /\ SockInv'
  BY DEF ConfInv, SockInv, At, Verified, RootExists
<1>3. FileInv'
  BY WrittenFiles DEF FileInv, WholeUnlessStopped, At
<1> QED
  BY <1>1, <1>2, <1>3

(* A process begins with nothing.                                          *)
LEMMA StartInv == ASSUME IInv, NEW p \in Process, Start(p) PROVE IInv'
<1> USE DEF IInv, Start, own
<1>1. /\ pc' \in [Process -> Ended \cup Running] /\ pc'[p] = "find"
      /\ \A q \in Process \ {p} : pc'[q] = pc[q]
  BY GoesType DEF Running
<1>2. p \notin listens
  BY DEF TypeOK, Ended
<1>3. TypeOK'
  BY <1>1, <1>2 DEF TypeOK, Ended
<1>4. ConfInv'
  BY <1>1 DEF TypeOK, ConfInv, Configured, Verified, RootExists
<1>5. SockInv'
  BY <1>1 DEF SockInv, At
<1>6. FileInv'
  BY <1>1 DEF FileInv, WholeUnlessStopped, At, Ended
<1> QED
  BY <1>3, <1>4, <1>5, <1>6

(* A signal, a kill and a crash end a process wherever it is; only one in  *)
(* its accept loop may go on, and nothing of what it has is changed.       *)
LEMMA StopInv ==
  ASSUME IInv, NEW p \in Process, Signal(p) \/ Kill(p) \/ Crash(p) PROVE IInv'
<1>1. CASE Signal(p) /\ ~At(p, "loop")
  <2>1. PICK how \in Ended : Gone(p, how)
    BY <1>1, ExitsType DEF Signal
  <2> QED
    BY <1>1, <2>1, GoneInv DEF Signal, IInv, TypeOK
<1>2. CASE Signal(p) /\ At(p, "loop")
  <2>1. CASE Exits(p)
    <3>1. PICK how \in Ended : Gone(p, how)
      BY <2>1, ExitsType
    <3> QED
      BY <1>2, <3>1, GoneInv DEF Signal, IInv, TypeOK
  <2>2. CASE Gone(p, "crashed")
    <3>1. "crashed" \in Ended
      BY DEF Ended
    <3> QED
      BY <1>2, <2>2, <3>1, GoneInv DEF Signal, IInv, TypeOK
  <2>3. CASE Goes(p, "stuck") /\ UNCHANGED own
    <3>1. p \notin held /\ CutBy(p) /\ cut \in BOOLEAN
      BY <1>2 DEF Signal, At, IInv, TypeOK
    <3>2. cut' = cut
      BY <3>1 DEF CutBy
    <3>3. pc[p] \in Configured /\ "stuck" \in Configured
      BY <1>2 DEF At, Configured
    <3>4. SockInv'
      <4>1. /\ pc' \in [Process -> Ended \cup Running] /\ pc'[p] = "stuck"
            /\ \A q \in Process \ {p} : pc'[q] = pc[q]
        BY <2>3, GoesType DEF Running, IInv
      <4> QED
        BY <2>3, <4>1 DEF IInv, SockInv, At, own
    <3> QED
      BY <1>2, <2>3, <3>2, <3>3, <3>4, GoesOnInv DEF Signal, IInv, TypeOK, own
  <2> QED
    BY <1>2, <2>1, <2>2, <2>3 DEF Signal, ExitsLoop
<1>3. CASE Kill(p)
  <2>1. Gone(p, "killed") /\ "killed" \in Ended
    BY <1>3 DEF Kill, Ended
  <2> QED
    BY <1>3, <2>1, GoneInv DEF Kill, IInv, TypeOK
<1>4. CASE Crash(p)
  <2>1. Gone(p, "crashed") /\ "crashed" \in Ended /\ p \notin held
    BY <1>4 DEF Crash, Ended, IInv, TypeOK
  <2> QED
    BY <1>4, <2>1, GoneInv DEF Crash, IInv, TypeOK
<1> QED
  BY <1>1, <1>2, <1>3, <1>4

(* A process creates the file only if it has found none.                   *)
LEMMA FindInv == ASSUME IInv, NEW p \in Process, Find(p) PROVE IInv'
<1> USE DEF IInv, Find, own
<1>1. PICK l \in {"parse", "create"} : Goes(p, l) /\ (l = "create" => file = None)
  OBVIOUS
<1>2. /\ pc' \in [Process -> Ended \cup Running] /\ pc'[p] = l
      /\ \A q \in Process \ {p} : pc'[q] = pc[q]
  BY <1>1, GoesType DEF Running
<1>3. p \notin listens
  BY DEF TypeOK, At
<1>4. TypeOK'
  <2>1. p \notin held \cup late
    BY DEF TypeOK, At
  <2> QED
    BY <1>2, <1>3, <2>1 DEF TypeOK, Ended
<1>5. ConfInv'
  BY <1>2 DEF ConfInv, Blind, Configured, At, Verified, RootExists
<1>6. SockInv'
  BY <1>2 DEF SockInv, At
<1>7. FileInv'
  BY <1>1, <1>2, WrittenFiles DEF FileInv, WholeUnlessStopped, At
<1> QED
  BY <1>4, <1>5, <1>6, <1>7

(* What is emptied and written is not a user's.                            *)
LEMMA WriteInv == ASSUME IInv, NEW p \in Process, Create(p) \/ Fill(p) PROVE IInv'
<1> USE DEF IInv, Create, Fill
<1>1. PICK l \in {"parse", "fill"} :
        /\ Goes(p, l)
        /\ held' = IF l = "fill" THEN held \cup {p} ELSE held \ {p}
        /\ late' = late \ {p}
  BY DEF TypeOK, At
<1>2. /\ pc' \in [Process -> Ended \cup Running] /\ pc'[p] = l
      /\ \A q \in Process \ {p} : pc'[q] = pc[q]
  BY <1>1, GoesType DEF Running
<1>3. p \notin listens /\ (At(p, "create") \/ At(p, "fill"))
  BY DEF TypeOK, At
<1>4. TypeOK'
  <2>1. /\ listens' \subseteq {q \in Process : pc'[q] \in {"block", "loop", "stuck"}}
        /\ late' \subseteq {q \in Process : pc'[q] = "create"}
    BY <1>1, <1>2, <1>3 DEF TypeOK
  <2>2. held' \subseteq {q \in Process : pc'[q] = "fill"}
    BY <1>1, <1>2 DEF TypeOK
  <2>3. \A q \in Process : pc'[q] \in Ended => port'[q] = None
    BY <1>2 DEF TypeOK, Ended
  <2>4. /\ host' \in Hosts /\ file' \in Texts \cup {Default, Empty, None} /\ cut' \in BOOLEAN
        /\ found' \in [Process -> {"beside", "home", "nothing"}]
        /\ conf' \in [Process -> Texts \cup {Default, Empty, None}]
        /\ port' \in [Process -> 0 .. PortSpace - 1 \cup {Chosen, None}]
    BY DEF TypeOK
  <2> QED
    BY <1>2, <2>1, <2>2, <2>3, <2>4 DEF TypeOK
<1>5. ConfInv'
  BY <1>2, <1>3 DEF ConfInv, Blind, Configured, At, Verified, RootExists
<1>6. SockInv'
  BY <1>2 DEF SockInv, At
<1>7. FileInv'
  <2>1. CASE file' = Empty /\ p \in held'
    BY <2>1, WrittenFiles DEF FileInv, WholeUnlessStopped
  <2>2. CASE file' = Default
    BY <2>2, WrittenFiles DEF FileInv, WholeUnlessStopped
  <2>3. CASE UNCHANGED <<file, cut, held>>
    BY <1>1, <1>2, <2>3 DEF FileInv, WholeUnlessStopped, At
  <2> QED
    BY <1>1, <2>1, <2>2, <2>3 DEF TypeOK
<1> QED
  BY <1>4, <1>5, <1>6, <1>7

(* A configuration that main goes on with is there and verified.           *)
LEMMA ParseInv == ASSUME IInv, NEW p \in Process, Parse(p) PROVE IInv'
<1>0. p \notin held \cup late /\ conf \in [Process -> Texts \cup {Default, Empty, None}]
  BY DEF Parse, At, IInv, TypeOK
<1> DEFINE read == IF Content(p) = None THEN Empty ELSE Content(p)
<1>1. /\ conf' \in [Process -> Texts \cup {Default, Empty, None}]
      /\ conf'[p] = read
      /\ \A q \in Process \ {p} : conf'[q] = conf[q]
  <2>1. read \in Texts \cup {Default, Empty}
    BY StartupAssumption DEF Parse, IInv, TypeOK, Content
  <2>2. conf' = [conf EXCEPT ![p] = read]
    BY DEF Parse
  <2> HIDE DEF read
  <2> QED
    BY <1>0, <2>1, <2>2
<1>2. CASE Gone(p, "crashed") \/ Gone(p, "exited")
  <2>1. PICK how \in Ended : Gone(p, how)
    BY <1>2 DEF Ended
  <2> HIDE DEF read
  <2> QED
    BY <1>0, <1>1, <2>1, GoneInv DEF Parse
<1>3. CASE /\ Content(p) # None /\ Verified(Content(p))
           /\ Goes(p, "open") /\ UNCHANGED own
  <2>1. /\ pc' \in [Process -> Ended \cup Running] /\ pc'[p] = "open"
        /\ \A q \in Process \ {p} : pc'[q] = pc[q]
    BY <1>3, GoesType DEF Running, IInv
  <2>2. p \notin listens /\ UNCHANGED <<host, file, cut, found>>
    BY DEF Parse, At, IInv, TypeOK
  <2>3. conf'[p] = Content(p)
    BY <1>1, <1>3
  <2> HIDE DEF read
  <2>4. TypeOK'
    BY <1>0, <1>1, <1>3, <2>1, <2>2 DEF IInv, TypeOK, Ended, own
  <2>5. ConfInv'
    BY <1>1, <1>3, <2>1, <2>2, <2>3
       DEF IInv, ConfInv, Blind, Configured, Verified, RootExists
  <2>6. SockInv'
    BY <1>3, <2>1 DEF IInv, SockInv, At, own
  <2>7. FileInv'
    BY <1>3, <2>1, <2>2 DEF IInv, FileInv, WholeUnlessStopped, At, own
  <2> QED
    BY <2>4, <2>5, <2>6, <2>7 DEF IInv
<1> QED
  BY <1>2, <1>3 DEF Parse

(* A configuration that is verified does not crash initSSL.                *)
LEMMA OpenInv == ASSUME IInv, NEW p \in Process, Open(p) PROVE IInv'
<1>0. /\ p \notin held /\ conf[p] # None /\ Verified(conf[p])
      /\ conf \in [Process -> Texts \cup {Default, Empty, None}]
      /\ UNCHANGED <<host, file, cut, found, conf>>
  BY DEF Open, At, IInv, ConfInv, Configured, TypeOK
<1>1. CASE Exits(p)
  <2>1. PICK how \in Ended : Gone(p, how)
    BY <1>1, ExitsType
  <2> QED
    BY <1>0, <2>1, GoneInv
<1>2. CASE Goes(p, "bind") /\ UNCHANGED own
  <2>1. pc[p] \in Configured /\ "bind" \in Configured /\ p \notin listens
    BY DEF Open, At, Configured, IInv, TypeOK
  <2>2. SockInv'
    BY <1>2, <2>1 DEF IInv, SockInv, At, Goes, TypeOK, own
  <2> QED
    BY <1>0, <1>2, <2>1, <2>2, GoesOnInv DEF IInv, TypeOK, own
<1> QED
  <2>1. conf[p].ssl \in {0, 1}
    BY <1>0 DEF Verified
  <2> QED
    BY <1>1, <1>2, <2>1 DEF Open

(* bind gives a socket a port that nobody listens on yet.                  *)
LEMMA BindInv == ASSUME IInv, NEW p \in Process, Bind(p) PROVE IInv'
<1>1. pc[p] \in Configured /\ "listen" \in Configured /\ p \notin listens
  BY DEF Bind, At, Configured, IInv, TypeOK
<1>2. Wanted(p) \in 0 .. PortSpace - 1
  BY WantedType DEF Bind, IInv
<1>3. /\ port' \in [Process -> 0 .. PortSpace - 1 \cup {Chosen, None}]
      /\ \A q \in Process \ {p} : port'[q] = port[q]
  BY <1>2 DEF Bind, IInv, TypeOK
<1>4. SockInv'
  BY <1>1, <1>3 DEF Bind, IInv, SockInv, At, Goes, TypeOK
<1> QED
  BY <1>1, <1>3, <1>4, GoesOnInv DEF Bind

(* listen does not share a configured port.                                *)
LEMMA ListenInv == ASSUME IInv, NEW p \in Process, Listen(p) PROVE IInv'
<1>1. /\ pc[p] \in Configured /\ "block" \in Configured /\ p \notin listens
      /\ Goes(p, "block") /\ UNCHANGED <<host, file, cut, held, late, found, conf>>
  BY DEF Listen, At, Configured, IInv, TypeOK
<1>2. /\ port' \in [Process -> 0 .. PortSpace - 1 \cup {Chosen, None}]
      /\ \A q \in Process \ {p} : port'[q] = port[q]
      /\ listens' \ {p} = listens \ {p}
  BY DEF Listen, IInv, TypeOK
<1>3. \A q \in Process : At(q, "loop")' => q \in listens'
  BY <1>1, <1>2 DEF IInv, SockInv, TypeOK, At, Goes
<1>4. \A q \in listens' : \A r \in listens' \ {q} : port'[q] = Chosen \/ port'[q] # port'[r]
  <2>0. listens \subseteq Process
    BY DEF IInv, TypeOK
  <2>1. CASE listens' = listens
    BY <1>1, <1>2, <2>0, <2>1 DEF IInv, SockInv
  <2>2. CASE listens' = listens \cup {p} /\ port'[p] = Chosen
    BY <1>1, <1>2, <2>0, <2>2 DEF IInv, SockInv
  <2>3. CASE listens' = listens \cup {p} /\ port'[p] = port[p] /\ ~Taken(port[p])
    BY <1>1, <1>2, <2>0, <2>3 DEF IInv, SockInv, Taken
  <2> QED
    BY <2>1, <2>2, <2>3 DEF Listen, IInv, TypeOK
<1>5. SockInv'
  BY <1>3, <1>4 DEF SockInv
<1> QED
  BY <1>1, <1>2, <1>5, GoesOnInv

(* Only a socket that listens reaches the accept loop.                     *)
LEMMA BlockInv == ASSUME IInv, NEW p \in Process, Block(p) PROVE IInv'
<1>0. /\ p \notin held /\ conf[p] # None
      /\ conf \in [Process -> Texts \cup {Default, Empty, None}]
      /\ UNCHANGED <<host, file, cut, found, conf>>
  BY DEF Block, At, IInv, ConfInv, Configured, TypeOK
<1>1. CASE p \in listens
  <2>1. /\ pc[p] \in Configured /\ "loop" \in Configured
        /\ Goes(p, "loop") /\ UNCHANGED own
    BY <1>1 DEF Block, At, Configured
  <2>2. SockInv'
    BY <1>1, <2>1 DEF IInv, SockInv, At, Goes, TypeOK, own
  <2> QED
    BY <1>0, <2>1, <2>2, GoesOnInv DEF IInv, TypeOK, own
<1>2. CASE p \notin listens
  <2>1. PICK how \in Ended : Gone(p, how)
    BY <1>2, ExitsType DEF Block
  <2> QED
    BY <1>0, <2>1, GoneInv
<1> QED
  BY <1>1, <1>2

(* Every step keeps the invariant.                                         *)
LEMMA InvNext == IInv /\ [Next]_vars => IInv'
<1> SUFFICES ASSUME IInv, [Next]_vars PROVE IInv'
  OBVIOUS
<1>1. CASE World
  BY <1>1, EditInv, StartInv, StopInv DEF World
<1>2. CASE \E p \in Process : Main(p)
  BY <1>2, FindInv, WriteInv, ParseInv, OpenInv, BindInv, ListenInv, BlockInv DEF Main
<1>3. CASE UNCHANGED vars
  BY <1>3 DEF vars, own, IInv, TypeOK, ConfInv, SockInv, FileInv, WholeUnlessStopped, At,
              Verified, RootExists
<1> QED
  BY <1>1, <1>2, <1>3 DEF Next

(* The invariant of start-up.                                              *)
THEOREM InvHolds == Spec => []IInv
BY InvInit, InvNext, PTL DEF Spec

(* The state is well-formed for any number of processes, any               *)
(* configurations and any port space, and a process that is not there has  *)
(* no socket.                                                              *)
THEOREM TypeCorrect == Spec => []TypeOK
<1>1. IInv => TypeOK
  BY DEF IInv
<1> QED
  BY <1>1, InvHolds, PTL

(* A server in its accept loop has a configuration that was verified,      *)
(* listens, and shares no configured port.                                 *)
THEOREM OnlyVerifiedServe == Spec => []ServesVerified
<1>1. IInv => ServesVerified
  <2> SUFFICES ASSUME IInv, NEW p \in Process, At(p, "loop")
               PROVE  /\ conf[p] \notin {Empty, None} /\ RootExists(conf[p])
                      /\ p \in listens
                      /\ \A q \in listens \ {p} : port[p] = Chosen \/ port[p] # port[q]
    BY DEF ServesVerified
  <2>1. conf[p] # None /\ Verified(conf[p])
    BY DEF IInv, ConfInv, Configured, At
  <2>2. ~Verified(Empty)
    BY DEF Verified, RootExists, Empty
  <2> QED
    BY <2>1, <2>2 DEF IInv, SockInv, Verified
<1> QED
  BY <1>1, InvHolds, PTL

(* A process that goes on has not crashed.                                 *)
LEMMA GoesUncrashed ==
  ASSUME IInv, NEW p \in Process, NEW l \in Ended \cup Running, Goes(p, l), l # "crashed",
         NEW q \in Process, pc[q] # "crashed"
  PROVE  pc'[q] # "crashed"
BY GoesType DEF IInv

(* One that ends has crashed only if it was to.                            *)
LEMMA GoneUncrashed ==
  ASSUME IInv, NEW p \in Process, NEW how \in Ended, Gone(p, how),
         NEW q \in Process, pc[q] # "crashed", pc'[q] = "crashed"
  PROVE  q = p /\ how = "crashed"
BY GoneType DEF IInv

(* Who crashes has no verified configuration, or has reached the loop.     *)
LEMMA CrashFrom ==
  ASSUME IInv, Next, NEW q \in Process, pc[q] # "crashed", pc'[q] = "crashed"
  PROVE  conf[q] = None \/ pc[q] \in {"loop", "stuck"}
<1> DEFINE Late == conf[q] = None \/ pc[q] \in {"loop", "stuck"}
<1> HIDE DEF Late
<1>1. ASSUME NEW p \in Process, Exits(p) PROVE Late
  <2>1. PICK how \in Ended : Gone(p, how) /\ (how = "crashed" => conf[p] = None)
    BY <1>1, ExitsType
  <2> QED
    BY <2>1, GoneUncrashed DEF Late
<1>2. ASSUME NEW p \in Process, Gone(p, "crashed"), conf[p] = None \/ pc[p] \in {"loop", "stuck"}
      PROVE  Late
  <2>1. q = p
    BY <1>2, GoneUncrashed DEF Ended
  <2> QED
    BY <1>2, <2>1 DEF Late
<1>3. ASSUME NEW p \in Process, NEW how \in {"killed", "exited"}, Gone(p, how) PROVE FALSE
  BY <1>3, GoneUncrashed DEF Ended
<1>4. ASSUME NEW p \in Process, NEW l \in Running, Goes(p, l) PROVE FALSE
  BY <1>4, GoesUncrashed DEF Running
<1>5. ASSUME NEW t, Edit(t) PROVE FALSE
  BY <1>5 DEF Edit
<1>6. ASSUME NEW p \in Process, Start(p) PROVE FALSE
  BY <1>4, <1>6 DEF Start, Running
<1>7. ASSUME NEW p \in Process, Signal(p) PROVE Late
  <2>1. CASE ~At(p, "loop")
    BY <1>1, <1>7, <2>1 DEF Signal
  <2>2. CASE At(p, "loop")
    BY <1>1, <1>2, <1>4, <1>7, <2>2 DEF Signal, ExitsLoop, At, Running
  <2> QED
    BY <2>1, <2>2
<1>8. ASSUME NEW p \in Process, Kill(p) \/ Crash(p) PROVE Late
  BY <1>2, <1>3, <1>8 DEF Kill, Crash
<1>9. ASSUME NEW p \in Process, Find(p) \/ Create(p) \/ Fill(p) \/ Bind(p) \/ Listen(p)
      PROVE  FALSE
  BY <1>4, <1>9 DEF Find, Create, Fill, Bind, Listen, Running
<1>10. ASSUME NEW p \in Process, Parse(p) PROVE Late
  <2>1. conf[p] = None
    BY <1>10 DEF Parse, At, IInv, ConfInv, Blind
  <2> QED
    BY <1>2, <1>3, <1>4, <1>10, <2>1 DEF Parse, Running
<1>11. ASSUME NEW p \in Process, Open(p) PROVE Late
  <2>1. conf[p].ssl \in {0, 1}
    BY <1>11 DEF Open, At, IInv, ConfInv, Configured, Verified
  <2>2. Exits(p) \/ Goes(p, "bind")
    BY <1>11, <2>1 DEF Open
  <2> QED
    BY <1>1, <1>4, <2>2 DEF Running
<1>12. ASSUME NEW p \in Process, Block(p) PROVE Late
  BY <1>1, <1>4, <1>12 DEF Block, Running
<1>13. ASSUME World PROVE Late
  BY <1>5, <1>6, <1>7, <1>8, <1>13 DEF World
<1>14. ASSUME NEW p \in Process, Main(p) PROVE Late
  BY <1>9, <1>10, <1>11, <1>12, <1>14 DEF Main
<1> QED
  BY <1>13, <1>14 DEF Next, Late

(* main, once its configuration is verified, and until it serves, exits in *)
(* order on every failure and every signal.                                *)
THEOREM VerifiedNeverCrash == Spec => CrashesUnverified
<1> DEFINE Late == \A p \in Process : ~At(p, "crashed") /\ At(p, "crashed")' =>
                     conf[p] = None \/ pc[p] \in {"loop", "stuck"}
<1>1. IInv /\ [Next]_vars => [Late]_vars
  BY CrashFrom DEF At
<1> QED
  BY <1>1, InvHolds, PTL DEF Spec, CrashesUnverified

(* create_config_file leaves an empty file behind only if a process that   *)
(* emptied it was stopped before it had written it.                        *)
THEOREM EmptyOnlyIfStopped == Spec => []WholeUnlessStopped
<1>1. IInv => WholeUnlessStopped
  BY DEF IInv, FileInv
<1> QED
  BY <1>1, InvHolds, PTL

(* create_config_file replaces what a user wrote only if it was not there  *)
(* when get_config_file_dir looked for it.                                 *)
THEOREM UserConfigKept == Spec => KeepsUserConfig
<1> DEFINE Allowed == \/ \E t \in Texts \cup {None} : Edit(t)
                      \/ \E p \in late : Create(p)
<1>1. IInv /\ [Next]_vars => [file' # file /\ file \in Texts => Allowed]_vars
  <2> SUFFICES ASSUME IInv, Next, file' # file, file \in Texts
               PROVE  Allowed
    OBVIOUS
  <2>1. CASE World
    BY <2>1 DEF World, Start, Signal, Kill, Crash
  <2>2. CASE \E p \in Process : Main(p)
    <3>1. PICK p \in Process : Main(p)
      BY <2>2
    <3>2. Create(p)
      BY <3>1 DEF IInv, FileInv, Main, Find, Fill, Parse, Open, Bind, Listen, Block
    <3>3. p \in late
      BY <3>2 DEF IInv, FileInv, Create
    <3> QED
      BY <3>2, <3>3
  <2> QED
    BY <2>1, <2>2 DEF Next
<1> QED
  BY <1>1, InvHolds, PTL DEF Spec, KeepsUserConfig
=============================================================================
