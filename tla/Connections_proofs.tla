------------------------- MODULE Connections_proofs -------------------------
(* Proofs of the safety properties of Connections.                         *)
EXTENDS Connections, FiniteSetTheorems, TLAPS

(* Where a handler keeps the CPU, and where it has not answered: before    *)
(* it has read a request, and when it waits to answer it.                  *)
Keeps == {"peek", "handshake", "tlsRead", "finish"}
Early == {"none", "start", "peek", "handshake", "tlsRead", "awaitIn"}
Over  == {"sending", "finish", "done"}

(* A client that has not connected has no handler and has sent nothing; a  *)
(* handler has a descriptor and a client; only a TLS client says hello.    *)
PeerOf(c) ==
  /\ client[c] = "away" => pc[c] = "none" /\ inbox[c] = <<>>
  /\ pc[c] = "none" => ~ssl[c]
  /\ pc[c] # "none" => fd[c] \in Fd
  /\ ssl[c] \/ pc[c] = "handshake" => tls[c]
  /\ pc[c] = "handshake" => inbox[c] # <<>>
  /\ \A i \in DOMAIN inbox[c] : inbox[c][i] = "hello" => tls[c]

PeerInv == \A c \in Conn : PeerOf(c)

CpuInv == \A c \in Conn : pc[c] \in Keeps => cpu = c

(* The kernel queues a connection once, and before it has a handler.       *)
BacklogInv ==
  \A i \in DOMAIN backlog :
    /\ pc[backlog[i]] = "none" /\ client[backlog[i]] # "away"
    /\ \A j \in DOMAIN backlog : backlog[i] = backlog[j] => i = j

(* Where a handler is tells what it has read, sent and answered.           *)
ProgressOf(c) ==
  /\ pc[c] \in Early => line[c] = None
  /\ pc[c] = "awaitOut" => line[c] # None
  /\ pc[c] \notin Over => out[c] = <<>> /\ sent[c] = 0
  /\ pc[c] = "sending" => sent[c] < Chunks
  /\ pc[c] \in Over /\ line[c] # None /\ ~tls[c] =>
       line[c].form = "blank" \/ Len(out[c]) = 1

(* What OneAnswer says of one connection.                                  *)
AnswerOf(c) ==
  /\ Len(out[c]) <= 1
  /\ \A i \in DOMAIN out[c] :
       IF line[c] = None THEN out[c][i] = 403 /\ ~config.insecure
                         ELSE out[c][i] \in AnyResponse(line[c], config.enforce)

ProgressInv == \A c \in Conn : ProgressOf(c)

(* The numbers that are lost in t.                                         *)
RingsIn(t) == {f \in Fd : t[f] = Ring}

IInv == /\ TypeOK /\ PeerInv /\ CpuInv /\ BacklogInv /\ OwnDescriptor
        /\ ProgressInv /\ OneAnswer

----------------------------------------------------------------------------
(* What may be read and then answered is one of the responses.             *)
LEMMA AnswerResponds ==
  ASSUME NEW r, NEW e, NEW d \in MayOpen(Beside(r), TRUE), NEW q \in Governed(r, d),
         NEW o \in MayOpen(Served(q, e), TRUE), NEW s \in Answers(q, e, o)
  PROVE  s \in AnyResponse(r, e)
<1>1. q \in Readings(r, TRUE) /\ s \in Outcomes(q, e, TRUE)
  BY DEF Readings, Outcomes
<1> QED
  BY <1>1 DEF AnyResponse, Responses

(* And so is the end of the process by a descriptor that is a directory.   *)
LEMMA CrashResponds ==
  ASSUME NEW r, NEW e, Beside(r) = "there", r.descriptor = "directory"
  PROVE  Crash \in AnyResponse(r, e)
<1>1. Crash \in Fatal(r)
  BY DEF Fatal
<1> QED
  BY <1>1 DEF AnyResponse, Responses

(* The answers there are.                                                  *)
LEMMA AnswersRange ==
  ASSUME NEW r, NEW e, NEW o
  PROVE  Answers(r, e, o) \subseteq Status
BY DEF Answers, Status, ErrorPages

(* What garbled input is.                                                  *)
LEMMA GarbledRequest ==
  Garbled \in AnyRequest /\ Garbled # None /\ Garbled.form # "blank"
<1>1. Garbled \in AnyRequest
  BY DEF Garbled, AnyRequest, Object, Descriptor, Page
<1> QED
  BY <1>1, ConnectionsAssumption DEF Garbled

(* A line that has been read is a request.                                 *)
LEMMA LineType ==
  ASSUME TypeOK, NEW c \in Conn, line[c] # None
  PROVE  line[c] \in AnyRequest
BY GarbledRequest, ConnectionsAssumption DEF TypeOK

(* read_file takes at most one number, and only if open fails.             *)
LEMMA AfterTable ==
  ASSUME NEW t \in [Fd -> Conn \cup {Ring, None}], NEW file, NEW opened \in BOOLEAN,
         NEW u, u = After(file, opened, t)
  PROVE  /\ u \in [Fd -> Conn \cup {Ring, None}]
         /\ \A f \in Fd : u[f] = t[f] \/ (t[f] = None /\ u[f] = Ring)
         /\ RingsIn(u) = RingsIn(t) \/ \E f \in Fd : RingsIn(u) = RingsIn(t) \cup {f}
         /\ file = "none" \/ opened => u = t
<1>1. CASE file = "none" \/ opened
  BY <1>1 DEF After
<1>2. CASE ~(file = "none" \/ opened)
  <2>1. u = [f \in Fd |-> IF NextFree(f, t) THEN Ring ELSE t[f]]
    BY <1>2 DEF After
  <2>2. \A f \in Fd : u[f] = t[f] \/ (t[f] = None /\ u[f] = Ring /\ NextFree(f, t))
    BY <2>1 DEF NextFree
  <2>3. CASE \E f \in Fd : NextFree(f, t)
    <3>1. PICK f \in Fd : NextFree(f, t)
      BY <2>3
    <3>2. \A g \in Fd : NextFree(g, t) => g = f
      BY <3>1, ConnectionsAssumption DEF NextFree
    <3>3. RingsIn(u) = RingsIn(t) \cup {f}
      <4>1. u[f] = Ring
        BY <2>1, <3>1
      <4>2. \A g \in Fd : t[g] = Ring => u[g] = Ring
        BY <2>1
      <4>3. \A g \in Fd : u[g] = Ring => g = f \/ t[g] = Ring
        BY <2>1, <3>2
      <4> QED
        BY <4>1, <4>2, <4>3 DEF RingsIn
    <3> QED
      BY <1>2, <2>1, <2>2, <3>3
  <2>4. CASE ~\E f \in Fd : NextFree(f, t)
    <3>1. u = t
      BY <2>1, <2>4
    <3> QED
      BY <3>1
  <2> QED
    BY <2>3, <2>4
<1> QED
  BY <1>1, <1>2

(* A handler that moves on leaves the others where they are.               *)
LEMMA GoesType ==
  ASSUME TypeOK, NEW c \in Conn, NEW l \in Label, NEW o \in Conn \cup {Main},
         Goes(c, l, o)
  PROVE  /\ pc' \in [Conn -> Label] /\ cpu' \in Conn \cup {Main}
         /\ pc'[c] = l /\ cpu' = o
         /\ \A d \in Conn \ {c} : pc'[d] = pc[d]
BY DEF TypeOK, Goes

(* A handler writes to its own connection and closes its own number.       *)
LEMMA WritesType ==
  ASSUME TypeOK, NEW c \in Conn, table[fd[c]] = c, out[c] = <<>>,
         NEW s \in {200, 301} \cup ErrorPages, Writes(c, s)
  PROVE  /\ out' \in [Conn -> Seq({200, 301} \cup ErrorPages)]
         /\ out'[c] = <<s>>
         /\ \A d \in Conn \ {c} : out'[d] = out[d]
BY DEF TypeOK, Writes

LEMMA ClosesType ==
  ASSUME NEW t \in [Fd -> Conn \cup {Ring, None}], NEW c \in Conn, fd[c] \in Fd,
         Closes(c, t)
  PROVE  /\ table' \in [Fd -> Conn \cup {Ring, None}]
         /\ table'[fd[c]] = None
         /\ \A f \in Fd \ {fd[c]} : table'[f] = t[f]
BY DEF Closes

(* Nothing has happened yet.                                               *)
LEMMA InvInit == Init => IInv
<1> SUFFICES ASSUME Init PROVE IInv
  OBVIOUS
<1> USE DEF Init
<1>1. TypeOK
  <2>1. /\ backlog \in Seq(Conn) /\ inbox \in [Conn -> Seq({"hello", "request"})]
        /\ out \in [Conn -> Seq({200, 301} \cup ErrorPages)]
    OBVIOUS
  <2>2. sent \in [Conn -> 0 .. Chunks] /\ said \in [Conn -> 0 .. 2]
    BY ConnectionsAssumption
  <2> QED
    BY <2>1, <2>2 DEF TypeOK, Label
<1>2. PeerInv /\ CpuInv /\ BacklogInv
  BY DEF PeerInv, PeerOf, CpuInv, BacklogInv, Keeps
<1>3. OwnDescriptor
  BY ConnectionsAssumption DEF OwnDescriptor
<1>4. ProgressInv /\ OneAnswer
  BY DEF ProgressInv, ProgressOf, Over, Early, OneAnswer
<1> QED
  BY <1>1, <1>2, <1>3, <1>4 DEF IInv

----------------------------------------------------------------------------
(* The clients                                                             *)
LEMMA ConnectInv == ASSUME IInv, NEW c \in Conn, Connect(c) PROVE IInv'
<1> USE DEF IInv, Connect
<1>1. TypeOK'
  BY DEF TypeOK
<1>2. PeerInv'
  BY DEF TypeOK, PeerInv, PeerOf
<1>3. CpuInv' /\ OwnDescriptor'
  BY DEF CpuInv, OwnDescriptor
<1>4. BacklogInv'
  <2>1. /\ backlog' = Append(backlog, c) /\ pc' = pc
        /\ client' \in [Conn -> {"away", "connected", "left"}]
        /\ client'[c] = "connected"
        /\ \A d \in Conn \ {c} : client'[d] = client[d]
    BY DEF TypeOK
  <2>2. \A i \in DOMAIN backlog : backlog[i] \in Conn \ {c}
    BY DEF TypeOK, BacklogInv
  <2>3. /\ DOMAIN backlog' = DOMAIN backlog \cup {Len(backlog) + 1}
        /\ backlog'[Len(backlog) + 1] = c
        /\ \A i \in DOMAIN backlog : backlog'[i] = backlog[i]
    <3>1. backlog \in Seq(Conn)
      BY DEF TypeOK
    <3>2. Len(backlog') = Len(backlog) + 1 /\ DOMAIN backlog' = 1 .. Len(backlog')
      BY <2>1, <3>1
    <3>3. DOMAIN backlog = 1 .. Len(backlog) /\ Len(backlog) \in Nat
      BY <3>1
    <3> QED
      BY <2>1, <3>1, <3>2, <3>3
  <2>4. pc[c] = "none"
    BY DEF PeerInv, PeerOf
  <2> QED
    BY <2>1, <2>2, <2>3, <2>4 DEF BacklogInv
<1>5. ProgressInv'
  BY DEF TypeOK, PeerInv, PeerOf, ProgressInv, ProgressOf, Over
<1>6. OneAnswer'
  BY DEF OneAnswer
<1> QED
  BY <1>1, <1>2, <1>3, <1>4, <1>5, <1>6

LEMMA TalkInv == ASSUME IInv, NEW c \in Conn, Talk(c) PROVE IInv'
<1> USE DEF IInv, Talk
<1>1. TypeOK'
  <2>1. inbox' \in [Conn -> Seq({"hello", "request"})]
    BY DEF TypeOK
  <2>2. said' \in [Conn -> 0 .. 2]
    BY DEF TypeOK
  <2> QED
    BY <2>1, <2>2 DEF TypeOK, kernel
<1>2. PeerInv'
  <2> SUFFICES ASSUME NEW d \in Conn PROVE PeerOf(d)'
    BY DEF PeerInv
  <2>1. PeerOf(d)
    BY DEF PeerInv
  <2>2. CASE d = c
    <3>1. inbox[c] \in Seq({"hello", "request"})
      BY DEF TypeOK
    <3>2. PICK x \in {"hello", "request"} :
            /\ inbox'[c] = Append(inbox[c], x)
            /\ x = "hello" => tls[c]
      BY DEF TypeOK
    <3>4. /\ inbox'[c] # <<>> /\ DOMAIN inbox'[c] = 1 .. Len(inbox[c]) + 1
          /\ inbox'[c][Len(inbox[c]) + 1] = x
          /\ DOMAIN inbox[c] = 1 .. Len(inbox[c]) /\ Len(inbox[c]) \in Nat
          /\ \A i \in 1 .. Len(inbox[c]) : inbox'[c][i] = inbox[c][i]
      BY <3>1, <3>2
    <3>5. \A i \in DOMAIN inbox[c] : inbox[c][i] = "hello" => tls[c]
      BY <2>1, <2>2 DEF PeerOf
    <3>3. inbox'[c] # <<>> /\ \A i \in DOMAIN inbox'[c] : inbox'[c][i] = "hello" => tls[c]
      BY <3>2, <3>4, <3>5
    <3> QED
      BY <2>1, <2>2, <3>1, <3>3 DEF PeerOf
  <2>3. CASE d # c
    BY <2>1, <2>3 DEF TypeOK, PeerOf
  <2> QED
    BY <2>2, <2>3
<1>3. CpuInv' /\ OwnDescriptor'
  BY DEF CpuInv, OwnDescriptor, kernel
<1>4. BacklogInv'
  BY DEF BacklogInv, kernel
<1>5. ProgressInv'
  BY DEF ProgressInv, ProgressOf
<1>6. OneAnswer'
  BY DEF OneAnswer
<1> QED
  BY <1>1, <1>2, <1>3, <1>4, <1>5, <1>6

LEMMA LeaveInv == ASSUME IInv, NEW c \in Conn, Leave(c) PROVE IInv'
<1> USE DEF IInv, Leave
<1>1. TypeOK'
  BY DEF TypeOK, kernel
<1>2. PeerInv'
  BY DEF TypeOK, PeerInv, PeerOf
<1>3. CpuInv' /\ OwnDescriptor'
  BY DEF CpuInv, OwnDescriptor, kernel
<1>4. BacklogInv'
  BY DEF TypeOK, BacklogInv, kernel
<1>5. ProgressInv'
  BY DEF ProgressInv, ProgressOf
<1>6. OneAnswer'
  BY DEF OneAnswer
<1> QED
  BY <1>1, <1>2, <1>3, <1>4, <1>5, <1>6

----------------------------------------------------------------------------
(* A new connection gets a number that nothing stands for.                 *)
LEMMA AcceptInv == ASSUME IInv, NEW c \in Conn, Accept(c) PROVE IInv'
<1> USE DEF IInv
<1>1. PICK f \in Fd : /\ table[f] = None
                      /\ table' = [table EXCEPT ![f] = c]
                      /\ fd' = [fd EXCEPT ![c] = f]
  BY DEF Accept, NextFree
<1>2. /\ pc' \in [Conn -> Label] /\ cpu' = Main
      /\ pc'[c] = "start"
      /\ \A d \in Conn \ {c} : pc'[d] = pc[d]
  BY GoesType DEF Accept, Label
<1>3. /\ backlog # <<>> /\ c = Head(backlog) /\ backlog' = Tail(backlog)
      /\ cpu = Main
      /\ UNCHANGED <<config, client, tls, said, inbox, ssl, line, sent, out, up>>
  BY DEF Accept, peer
<1>4. pc[c] = "none" /\ client[c] # "away"
  BY <1>3 DEF TypeOK, BacklogInv
<1>5. /\ fd' \in [Conn -> Fd \cup {None}] /\ fd'[c] = f
      /\ \A d \in Conn \ {c} : fd'[d] = fd[d]
      /\ table' \in [Fd -> Conn \cup {Ring, None}] /\ table'[f] = c
      /\ \A g \in Fd \ {f} : table'[g] = table[g]
  BY <1>1 DEF TypeOK
<1>6. TypeOK'
  <2>1. backlog' \in Seq(Conn)
    BY <1>3 DEF TypeOK
  <2> QED
    BY <1>2, <1>3, <1>5, <2>1 DEF TypeOK
<1>7. PeerInv'
  BY <1>2, <1>3, <1>4, <1>5 DEF PeerInv, PeerOf
<1>8. CpuInv'
  BY <1>2, <1>3, ConnectionsAssumption DEF CpuInv, Keeps
<1>9. BacklogInv'
  <2>1. /\ DOMAIN backlog' = 1 .. Len(backlog) - 1
        /\ \A i \in DOMAIN backlog' : /\ i + 1 \in DOMAIN backlog
                                      /\ backlog'[i] = backlog[i + 1]
    BY <1>3 DEF TypeOK
  <2>2. /\ 1 \in DOMAIN backlog /\ backlog[1] = c
        /\ \A i \in DOMAIN backlog : backlog[i] \in Conn
    BY <1>3 DEF TypeOK
  <2>3. \A i \in DOMAIN backlog' : backlog'[i] \in Conn \ {c}
    BY <2>1, <2>2 DEF BacklogInv
  <2>4. \A i, j \in DOMAIN backlog' : backlog'[i] = backlog'[j] => i = j
    BY <2>1 DEF BacklogInv
  <2> QED
    BY <1>2, <1>3, <2>1, <2>3, <2>4 DEF BacklogInv
<1>10. OwnDescriptor'
  <2>1. ASSUME NEW d \in Conn \ {c}
        PROVE  /\ pc'[d] \notin {"none", "finish", "done"} => table'[fd'[d]] = d
               /\ pc'[d] = "finish" => table'[fd'[d]] \in {d, None}
    <3>1. CASE pc[d] \in {"none", "done"}
      BY <1>2, <3>1
    <3>2. CASE pc[d] \notin {"none", "done"} /\ fd[d] # f
      BY <1>2, <1>5, <3>2 DEF PeerInv, PeerOf, OwnDescriptor
    <3>3. CASE pc[d] \notin {"none", "done"} /\ fd[d] = f
      BY <1>1, <1>3, <3>3, ConnectionsAssumption DEF CpuInv, Keeps, OwnDescriptor
    <3> QED
      BY <3>1, <3>2, <3>3
  <2>2. table'[fd'[c]] = c
    BY <1>5
  <2>3. ASSUME NEW g \in Fd, table'[g] \in Conn
        PROVE  fd'[table'[g]] = g /\ pc'[table'[g]] \notin {"none", "done"}
    BY <1>2, <1>4, <1>5, <2>3 DEF OwnDescriptor
  <2> QED
    BY <1>2, <2>1, <2>2, <2>3 DEF OwnDescriptor
<1>11. ProgressInv'
  BY <1>2, <1>3, <1>4 DEF ProgressInv, ProgressOf, Over, Early
<1>12. OneAnswer'
  BY <1>3 DEF OneAnswer
<1> QED
  BY <1>6, <1>7, <1>8, <1>9, <1>10, <1>11, <1>12

----------------------------------------------------------------------------
(* A step of a handler that has been started: the rest of the system stays *)
(* what it is.                                                             *)
Handles(c) ==
  /\ pc[c] \notin {"none", "done"} /\ cpu \in {c, Main}
  /\ UNCHANGED <<config, peer, backlog, fd>>
  /\ pc'[c] # "none" /\ (pc'[c] \in Keeps => cpu' = c)
  /\ \A d \in Conn \ {c} :
       /\ pc'[d] = pc[d] /\ inbox'[d] = inbox[d] /\ ssl'[d] = ssl[d]
       /\ line'[d] = line[d] /\ sent'[d] = sent[d] /\ out'[d] = out[d]

(* It keeps its descriptor until it finishes, and closes no other one;     *)
(* free ones may be lost to rings.                                         *)
Lost(t) == \A f \in Fd : t[f] = table[f] \/ (table[f] = None /\ t[f] = Ring)

Stays(c) == pc[c] # "finish" /\ pc'[c] # "done" /\ Lost(table')

Drops(c) ==
  /\ pc'[c] \in {"finish", "done"} /\ table'[fd[c]] = None
  /\ \A f \in Fd \ {fd[c]} :
       table'[f] = table[f] \/ (table[f] = None /\ table'[f] = Ring)

LEMMA HandlerInv ==
  ASSUME IInv, NEW c \in Conn, Handles(c), Stays(c) \/ Drops(c),
         TypeOK', PeerOf(c)', ProgressOf(c)', AnswerOf(c)'
  PROVE  IInv'
<1> USE DEF IInv, Handles, peer
<1>1. PeerInv'
  BY DEF PeerInv, PeerOf
<1>2. CpuInv'
  BY ConnectionsAssumption DEF CpuInv
<1>3. BacklogInv'
  <2>1. \A i \in DOMAIN backlog : backlog[i] \in Conn \ {c}
    BY DEF TypeOK, BacklogInv
  <2> QED
    BY <2>1 DEF BacklogInv
<1>4. OwnDescriptor'
  <2>1. fd[c] \in Fd
    BY DEF PeerInv, PeerOf
  <2>2. ASSUME NEW d \in Conn \ {c}, pc[d] \notin {"none", "done"}
        PROVE  table[fd[d]] = d /\ fd[d] \in Fd \ {fd[c]}
    <3>1. pc[d] # "finish"
      BY ConnectionsAssumption, <2>2 DEF CpuInv, Keeps
    <3>2. fd[d] \in Fd /\ table[fd[d]] = d
      BY <2>2, <3>1 DEF PeerInv, PeerOf, OwnDescriptor
    <3>3. table[fd[c]] \in {c, None}
      BY DEF OwnDescriptor
    <3> QED
      BY <3>2, <3>3, ConnectionsAssumption
  <2>3. ASSUME NEW d \in Conn \ {c}
        PROVE  /\ pc'[d] \notin {"none", "finish", "done"} => table'[fd'[d]] = d
               /\ pc'[d] = "finish" => table'[fd'[d]] \in {d, None}
    <3>1. pc'[d] = pc[d] /\ fd'[d] = fd[d]
      BY <2>3 DEF Stays, Drops
    <3>2. SUFFICES ASSUME pc[d] \notin {"none", "done"} PROVE table'[fd[d]] = d
      BY <3>1
    <3>3. /\ table[fd[d]] = d /\ table[fd[d]] # None
          /\ fd[d] \in Fd /\ fd[d] # fd[c]
      BY <2>2, <2>3, <3>2, ConnectionsAssumption
    <3>4. CASE Stays(c)
      BY <3>3, <3>4 DEF Stays, Lost
    <3>5. CASE Drops(c)
      BY <3>3, <3>5 DEF Drops
    <3> QED
      BY <3>4, <3>5
  <2>4. /\ pc'[c] \notin {"none", "finish", "done"} => table'[fd'[c]] = c
        /\ pc'[c] = "finish" => table'[fd'[c]] \in {c, None}
    <3>1. pc[c] # "finish" => table[fd[c]] = c
      BY DEF OwnDescriptor
    <3>2. CASE Stays(c)
      <4>1. table[fd[c]] = c /\ fd[c] \in Fd
        BY <2>1, <3>1, <3>2 DEF Stays
      <4> QED
        BY <3>2, <4>1, ConnectionsAssumption DEF Stays, Lost
    <3>3. CASE Drops(c)
      BY <3>3 DEF Drops
    <3> QED
      BY <3>2, <3>3
  <2>5. ASSUME NEW f \in Fd, table'[f] \in Conn
        PROVE  fd'[table'[f]] = f /\ pc'[table'[f]] \notin {"none", "done"}
    <3>1. CASE Stays(c)
      BY <2>5, <3>1, ConnectionsAssumption DEF OwnDescriptor, Stays, Lost
    <3>2. CASE Drops(c)
      BY <2>1, <2>5, <3>2, ConnectionsAssumption DEF OwnDescriptor, Drops
    <3> QED
      BY <3>1, <3>2
  <2> QED
    BY <2>3, <2>4, <2>5 DEF OwnDescriptor
<1>5. ProgressInv'
  BY DEF ProgressInv, ProgressOf
<1>6. OneAnswer'
  BY DEF OneAnswer, AnswerOf
<1> QED
  BY <1>1, <1>2, <1>3, <1>4, <1>5, <1>6

(* A handler that has not answered moves on.                               *)
LEMMA MovesInv ==
  ASSUME IInv, NEW c \in Conn, cpu \in {c, Main}, pc[c] \in {"start", "peek"},
         NEW l \in {"peek", "handshake", "awaitIn"}, NEW o \in {c, Main},
         Goes(c, l, o), l \in Keeps => o = c, l = "handshake" => tls[c] /\ inbox[c] # <<>>,
         UNCHANGED <<config, peer, inbox, kernel, fd, ssl, line, sent, out, up>>
  PROVE  IInv'
<1> USE DEF IInv, peer, kernel
<1>1. /\ pc' \in [Conn -> Label] /\ cpu' \in Conn \cup {Main}
      /\ pc'[c] = l /\ cpu' = o
      /\ \A d \in Conn \ {c} : pc'[d] = pc[d]
  BY GoesType DEF Label
<1>2. Handles(c) /\ Stays(c)
  BY <1>1 DEF Handles, Stays, Lost
<1>3. TypeOK'
  BY <1>1 DEF TypeOK
<1>4. PeerOf(c)'
  BY <1>1 DEF PeerInv, PeerOf
<1>5. ProgressOf(c)' /\ AnswerOf(c)'
  BY <1>1 DEF ProgressInv, ProgressOf, OneAnswer, AnswerOf, Early, Over
<1> QED
  BY <1>2, <1>3, <1>4, <1>5, HandlerInv

(* A handler that has not answered sends an error page and closes.         *)
LEMMA ErrorPageInv ==
  ASSUME IInv, NEW c \in Conn, cpu \in {c, Main},
         pc[c] \in {"start", "peek", "awaitOut"},
         NEW t \in [Fd -> Conn \cup {Ring, None}], Lost(t),
         NEW s \in ErrorPages, ErrorPage(c, s, t),
         IF line[c] = None THEN s = 403 /\ ~config.insecure
                           ELSE s \in AnyResponse(line[c], config.enforce),
         UNCHANGED <<config, peer, inbox, backlog, fd, ssl, line, sent, up>>
  PROVE  IInv'
<1> USE DEF IInv, peer
<1>1. Writes(c, s) /\ Closes(c, t) /\ Goes(c, "finish", c)
  BY DEF ErrorPage
<1>2. fd[c] \in Fd /\ table[fd[c]] = c /\ out[c] = <<>>
  BY DEF PeerInv, PeerOf, OwnDescriptor, ProgressInv, ProgressOf, Over
<1>3. /\ pc' \in [Conn -> Label] /\ cpu' = c
      /\ pc'[c] = "finish"
      /\ \A d \in Conn \ {c} : pc'[d] = pc[d]
  BY <1>1, GoesType DEF Label
<1>4. /\ out' \in [Conn -> Seq({200, 301} \cup ErrorPages)]
      /\ out'[c] = <<s>>
      /\ \A d \in Conn \ {c} : out'[d] = out[d]
  BY <1>1, <1>2, WritesType
<1>5. /\ table' \in [Fd -> Conn \cup {Ring, None}]
      /\ table'[fd[c]] = None
      /\ \A f \in Fd \ {fd[c]} : table'[f] = t[f]
  BY <1>1, <1>2, ClosesType
<1>6. Handles(c) /\ Drops(c)
  BY <1>3, <1>4, <1>5 DEF Handles, Drops, Lost
<1>7. TypeOK'
  BY <1>3, <1>4, <1>5 DEF TypeOK
<1>8. PeerOf(c)'
  BY <1>3 DEF PeerInv, PeerOf
<1>9. ProgressOf(c)' /\ AnswerOf(c)'
  <2>1. Len(out'[c]) = 1 /\ \A i \in DOMAIN out'[c] : out'[c][i] = s
    BY <1>4
  <2> QED
    BY <1>3, <2>1 DEF ProgressOf, AnswerOf, Early, Over
<1> QED
  BY <1>6, <1>7, <1>8, <1>9, HandlerInv

LEMMA PlainInv ==
  ASSUME IInv, NEW c \in Conn, cpu \in {c, Main}, pc[c] \in {"start", "peek"},
         Plain(c),
         UNCHANGED <<config, peer, inbox, backlog, fd, ssl, line, sent, up>>
  PROVE  IInv'
<1>1. CASE config.insecure
  BY <1>1, MovesInv DEF Plain, Keeps, kernel
<1>2. CASE ~config.insecure
  <2>1. /\ ErrorPage(c, 403, table) /\ 403 \in ErrorPages
        /\ table \in [Fd -> Conn \cup {Ring, None}] /\ Lost(table)
    BY <1>2 DEF Plain, ErrorPages, IInv, TypeOK, Lost
  <2>2. line[c] = None
    BY DEF IInv, ProgressInv, ProgressOf, Early
  <2> QED
    BY <1>2, <2>1, <2>2, ErrorPageInv
<1> QED
  BY <1>1, <1>2

----------------------------------------------------------------------------
LEMMA StartInv == ASSUME IInv, NEW c \in Conn, Start(c) PROVE IInv'
<1> USE DEF Start, Resumes
<1>1. CASE config.ssl
  BY <1>1, MovesInv DEF Keeps, kernel
<1>2. CASE ~config.ssl
  BY <1>2, PlainInv
<1> QED
  BY <1>1, <1>2

LEMMA PeekInv == ASSUME IInv, NEW c \in Conn, Peek(c) PROVE IInv'
<1> USE DEF Peek, Runs
<1>1. CASE Secured(c)
  <2>1. tls[c] /\ inbox[c] # <<>>
    BY <1>1 DEF IInv, TypeOK, PeerInv, PeerOf, Secured
  <2> QED
    BY <1>1, <2>1, MovesInv DEF Keeps, kernel
<1>2. CASE ~Secured(c)
  BY <1>2, PlainInv
<1> QED
  BY <1>1, <1>2

(* What is left of the messages was there.                                 *)
LEMMA RestType ==
  ASSUME TypeOK, NEW c \in Conn, inbox[c] # <<>>, NEW rest \in {<<>>, Tail(inbox[c])}
  PROVE  /\ rest \in Seq({"hello", "request"})
         /\ \A i \in DOMAIN rest : \E j \in DOMAIN inbox[c] : rest[i] = inbox[c][j]
<1>1. inbox[c] \in Seq({"hello", "request"})
  BY DEF TypeOK
<1>2. CASE rest = <<>>
  BY <1>2
<1>3. CASE rest = Tail(inbox[c])
  <2>1. rest \in Seq({"hello", "request"})
    BY <1>1, <1>3
  <2>2. \A i \in DOMAIN rest : i + 1 \in DOMAIN inbox[c] /\ rest[i] = inbox[c][i + 1]
    BY <1>1, <1>3
  <2> QED
    BY <2>1, <2>2
<1> QED
  BY <1>2, <1>3

(* SSL_accept reads the hello, or the handler is over.                     *)
LEMMA HandshakeInv == ASSUME IInv, NEW c \in Conn, Handshake(c) PROVE IInv'
<1> USE DEF IInv
<1>1. /\ pc[c] = "handshake" /\ cpu = c /\ fd[c] \in Fd
      /\ UNCHANGED <<config, peer, backlog, fd, line, sent, out, up>>
  BY DEF Handshake, Runs, PeerInv, PeerOf
<1>2. CASE /\ inbox' = [inbox EXCEPT ![c] = Tail(@)]
           /\ ssl' = [ssl EXCEPT ![c] = TRUE]
           /\ Goes(c, "tlsRead", c)
           /\ UNCHANGED table
  <2>1. /\ pc' \in [Conn -> Label] /\ cpu' = c
        /\ pc'[c] = "tlsRead"
        /\ \A d \in Conn \ {c} : pc'[d] = pc[d]
    BY <1>2, GoesType DEF Label
  <2>2. /\ inbox' \in [Conn -> Seq({"hello", "request"})]
        /\ ssl' \in [Conn -> BOOLEAN]
        /\ \A d \in Conn \ {c} : inbox'[d] = inbox[d] /\ ssl'[d] = ssl[d]
    <3>1. Tail(inbox[c]) \in Seq({"hello", "request"})
      BY <1>1, RestType DEF PeerInv, PeerOf
    <3> QED
      BY <1>2, <3>1 DEF TypeOK
  <2>3. Handles(c) /\ Stays(c)
    BY <1>1, <1>2, <2>1, <2>2 DEF Handles, Stays, Lost
  <2>4. TypeOK'
    BY <1>1, <1>2, <2>1, <2>2 DEF TypeOK, peer
  <2>5. PeerOf(c)'
    <3>1. inbox'[c] = Tail(inbox[c]) /\ inbox[c] # <<>> /\ tls[c]
      BY <1>1, <1>2 DEF TypeOK, PeerInv, PeerOf
    <3>2. \A i \in DOMAIN inbox'[c] : \E j \in DOMAIN inbox[c] :
            inbox'[c][i] = inbox[c][j]
      BY <3>1, RestType
    <3> QED
      BY <1>1, <2>1, <3>1, <3>2 DEF PeerInv, PeerOf, peer
  <2>6. ProgressOf(c)' /\ AnswerOf(c)'
    BY <1>1, <2>1 DEF ProgressInv, ProgressOf, OneAnswer, AnswerOf, Early, Over
  <2> QED
    BY <2>3, <2>4, <2>5, <2>6, HandlerInv
<1>3. CASE Closes(c, table) /\ Goes(c, "done", Main) /\ UNCHANGED <<inbox, ssl>>
  <2>1. /\ pc' \in [Conn -> Label] /\ cpu' = Main
        /\ pc'[c] = "done"
        /\ \A d \in Conn \ {c} : pc'[d] = pc[d]
    BY <1>3, GoesType DEF Label
  <2>2. /\ table' \in [Fd -> Conn \cup {Ring, None}]
        /\ table'[fd[c]] = None
        /\ \A f \in Fd \ {fd[c]} : table'[f] = table[f]
    BY <1>1, <1>3, ClosesType DEF TypeOK
  <2>3. Handles(c) /\ Drops(c)
    BY <1>1, <1>3, <2>1, <2>2 DEF Handles, Drops, Keeps
  <2>4. TypeOK'
    BY <1>1, <1>3, <2>1, <2>2 DEF TypeOK, peer
  <2>5. PeerOf(c)'
    BY <1>1, <1>3, <2>1 DEF PeerInv, PeerOf, peer
  <2>6. ProgressOf(c)' /\ AnswerOf(c)'
    BY <1>1, <2>1 DEF ProgressInv, ProgressOf, OneAnswer, AnswerOf, Early, Over
  <2> QED
    BY <2>3, <2>4, <2>5, <2>6, HandlerInv
<1> QED
  BY <1>2, <1>3 DEF Handshake

(* A handler goes to its end: it has answered, or need not.                *)
LEMMA EndsInv ==
  ASSUME IInv, NEW c \in Conn, cpu \in {c, Main},
         pc[c] \in {"tlsRead", "awaitIn", "awaitOut", "sending"},
         pc[c] = "awaitOut" => ssl[c],
         Goes(c, "finish", c), table' \in [Fd -> Conn \cup {Ring, None}], Lost(table'),
         UNCHANGED <<config, peer, inbox, backlog, fd, ssl, line, sent, out, up>>
  PROVE  IInv'
<1> USE DEF IInv, peer
<1>1. /\ pc' \in [Conn -> Label] /\ cpu' = c
      /\ pc'[c] = "finish"
      /\ \A d \in Conn \ {c} : pc'[d] = pc[d]
  BY GoesType DEF Label
<1>2. Handles(c) /\ Stays(c)
  BY <1>1 DEF Handles, Stays, Lost
<1>3. TypeOK'
  BY <1>1 DEF TypeOK
<1>4. PeerOf(c)'
  BY <1>1 DEF PeerInv, PeerOf
<1>5. ProgressOf(c)' /\ AnswerOf(c)'
  BY <1>1 DEF ProgressInv, ProgressOf, PeerInv, PeerOf, OneAnswer, AnswerOf,
              Early, Over
<1> QED
  BY <1>2, <1>3, <1>4, <1>5, HandlerInv

(* So it does when nothing is read, or sending fails.                      *)
LEMMA SilentInv ==
  ASSUME IInv, NEW c \in Conn, cpu \in {c, Main},
         pc[c] \in {"tlsRead", "awaitIn", "sending"}, Goes(c, "finish", c),
         UNCHANGED <<config, peer, inbox, kernel, fd, ssl, line, sent, out, up>>
  PROVE  IInv'
BY EndsInv DEF kernel, Lost, IInv, TypeOK

(* A request is read, and nothing answered yet.                            *)
LEMMA TakeInv ==
  ASSUME IInv, NEW c \in Conn, cpu \in {c, Main},
         pc[c] \in {"tlsRead", "awaitIn"},
         NEW r \in Requests \cup {Garbled}, Take(c, r),
         NEW rest \in {<<>>, Tail(inbox[c])}, inbox[c] # <<>>,
         inbox' = [inbox EXCEPT ![c] = rest],
         UNCHANGED <<config, peer, kernel, fd, ssl, sent, out, up>>
  PROVE  IInv'
<1> USE DEF IInv, peer, kernel
<1>1. /\ pc' \in [Conn -> Label] /\ cpu' \in {c, Main}
      /\ r.form = "blank" => pc'[c] = "finish" /\ cpu' = c
      /\ r.form # "blank" => pc'[c] = "awaitOut"
      /\ \A d \in Conn \ {c} : pc'[d] = pc[d]
  BY GoesType DEF Take, Label
<1>2. r # None
  BY GarbledRequest, ConnectionsAssumption
<1>3. /\ line' \in [Conn -> Requests \cup {Garbled, None}] /\ line'[c] = r
      /\ \A d \in Conn \ {c} : line'[d] = line[d]
  BY DEF Take, TypeOK
<1>4. /\ inbox' \in [Conn -> Seq({"hello", "request"})] /\ inbox'[c] = rest
      /\ \A d \in Conn \ {c} : inbox'[d] = inbox[d]
  <2>1. inbox \in [Conn -> Seq({"hello", "request"})]
    BY DEF TypeOK
  <2>2. rest \in Seq({"hello", "request"})
    BY <2>1, RestType
  <2> QED
    BY <2>1, <2>2
<1>5. Handles(c) /\ Stays(c)
  BY <1>1, <1>3, <1>4 DEF Handles, Stays, Lost, Keeps
<1>6. TypeOK'
  BY <1>1, <1>3, <1>4 DEF TypeOK
<1>7. PeerOf(c)'
  <2>1. \A i \in DOMAIN inbox'[c] : \E j \in DOMAIN inbox[c] :
          inbox'[c][i] = inbox[c][j]
    BY <1>4, RestType
  <2> QED
    BY <1>1, <2>1 DEF PeerInv, PeerOf
<1>8. ProgressOf(c)' /\ AnswerOf(c)'
  BY <1>1, <1>2, <1>3 DEF ProgressInv, ProgressOf, AnswerOf, Early, Over
<1> QED
  BY <1>5, <1>6, <1>7, <1>8, HandlerInv

LEMMA TlsReadInv == ASSUME IInv, NEW c \in Conn, TlsRead(c) PROVE IInv'
<1> USE DEF TlsRead, Runs
<1>1. CASE inbox[c] = <<>>
  BY <1>1, SilentInv
<1>2. CASE inbox[c] # <<>>
  BY <1>2, TakeInv
<1> QED
  BY <1>1, <1>2

LEMMA ReceiveInv == ASSUME IInv, NEW c \in Conn, Receive(c) PROVE IInv'
<1> USE DEF Receive, Resumes
<1>1. CASE inbox[c] = <<>>
  <2>1. inbox' = inbox
    BY <1>1 DEF IInv, TypeOK
  <2> QED
    BY <1>1, <2>1, SilentInv
<1>2. CASE inbox[c] # <<>>
  BY <1>2, TakeInv DEF Received
<1> QED
  BY <1>1, <1>2

(* A handler that has its request answers and closes nothing.              *)
LEMMA WritesInv ==
  ASSUME IInv, NEW c \in Conn, cpu \in {c, Main}, pc[c] = "awaitOut",
         NEW s \in {200, 301} \cup ErrorPages, Writes(c, s),
         s \in AnyResponse(line[c], config.enforce),
         NEW l \in {"finish", "sending"}, Goes(c, l, c),
         table' \in [Fd -> Conn \cup {Ring, None}], Lost(table'),
         UNCHANGED <<config, peer, inbox, backlog, fd, ssl, line, sent, up>>
  PROVE  IInv'
<1> USE DEF IInv, peer
<1>1. /\ pc' \in [Conn -> Label] /\ cpu' = c
      /\ pc'[c] = l
      /\ \A d \in Conn \ {c} : pc'[d] = pc[d]
  BY GoesType DEF Label
<1>2. table[fd[c]] = c /\ out[c] = <<>> /\ sent[c] = 0 /\ line[c] # None
  BY DEF OwnDescriptor, ProgressInv, ProgressOf, Over
<1>3. /\ out' \in [Conn -> Seq({200, 301} \cup ErrorPages)]
      /\ out'[c] = <<s>>
      /\ \A d \in Conn \ {c} : out'[d] = out[d]
  BY <1>2, WritesType
<1>4. Handles(c) /\ Stays(c)
  BY <1>1, <1>3 DEF Handles, Stays, Lost
<1>5. TypeOK'
  BY <1>1, <1>3 DEF TypeOK
<1>6. PeerOf(c)'
  BY <1>1 DEF PeerInv, PeerOf
<1>7. ProgressOf(c)' /\ AnswerOf(c)'
  <2>1. Len(out'[c]) = 1 /\ \A i \in DOMAIN out'[c] : out'[c][i] = s
    BY <1>3
  <2> QED
    BY <1>1, <1>2, <2>1, ConnectionsAssumption DEF ProgressOf, AnswerOf, Early, Over
<1> QED
  BY <1>4, <1>5, <1>6, <1>7, HandlerInv

(* What a request becomes keeps its form, path and object.                 *)
LEMMA GovernedFields ==
  ASSUME NEW r \in AnyRequest, NEW d \in BOOLEAN, NEW q \in Governed(r, d)
  PROVE  /\ q.form = r.form /\ q.get = r.get /\ q.safe = r.safe
         /\ q.object = r.object /\ q.slash = r.slash
         /\ Reaches(q) <=> Reaches(r)
<1>1. q = r \/ \E x \in Descriptor, p \in Page : q = By(r, x, p)
  <2>1. CASE Beside(r) # "there"
    <3>1. q = By(r, "none", r.page) /\ "none" \in Descriptor /\ r.page \in Page
      BY <2>1 DEF Governed, AnyRequest, Descriptor
    <3> QED
      BY <3>1
  <2>2. CASE Beside(r) = "there" /\ ~d
    BY <2>2 DEF Governed, Descriptor
  <2>3. CASE Beside(r) = "there" /\ d /\ r.descriptor = "directory"
    BY <2>3 DEF Governed, Descriptor
  <2>4. CASE Beside(r) = "there" /\ d /\ r.descriptor # "directory"
    BY <2>4 DEF Governed
  <2> QED
    BY <2>1, <2>2, <2>3, <2>4
<1>2. /\ q.form = r.form /\ q.get = r.get /\ q.safe = r.safe
      /\ q.object = r.object /\ q.slash = r.slash
  BY <1>1 DEF By, AnyRequest
<1> QED
  BY <1>2 DEF Reaches, IsDirectory

(* Where a file is asked for, the early returns are passed.                *)
LEMMA ReadAnswers ==
  ASSUME NEW r \in AnyRequest, NEW d \in BOOLEAN, NEW q \in Governed(r, d), NEW e,
         NEW o, NEW s \in Answers(q, e, o),
         Beside(r) # "none" \/ Served(q, e) # "none"
  PROVE  s \in {200, 404, 500, Crash}
<1>1. Reaches(q)
  BY GovernedFields DEF Beside, Served
<1> QED
  BY <1>1 DEF Reaches, Answers

(* With two free numbers and nothing locked every open succeeds.           *)
LEMMA OpensAll ==
  ASSUME NEW r \in AnyRequest, Openable(r), NEW d \in MayOpen(Beside(r), FALSE),
         NEW q \in Governed(r, d), NEW e, NEW o \in MayOpen(Served(q, e), FALSE)
  PROVE  (Beside(r) = "none" \/ d) /\ (Served(q, e) = "none" \/ o)
<1>1. Beside(r) \in {"none", "there"}
  BY DEF Beside, Openable
<1>2. Beside(r) = "none" \/ d
  BY <1>1 DEF MayOpen
<1>3. Content(q) # "locked"
  <2>1. CASE Beside(r) # "there"
    <3>1. q = By(r, "none", r.page)
      BY <2>1 DEF Governed
    <3>2. q.object = r.object /\ q.page = r.page
      BY <3>1 DEF By, AnyRequest
    <3> QED
      BY <3>2 DEF Content, Openable
  <2>2. CASE Beside(r) = "there"
    <3>1. d = TRUE /\ r.descriptor # "directory"
      BY <2>2 DEF MayOpen, Openable
    <3>2. Governed(r, TRUE) = {r}
      BY <2>2, <3>1 DEF Governed
    <3>3. q = r
      BY <3>1, <3>2
    <3> QED
      BY <3>3 DEF Openable
  <2> QED
    BY <2>1, <2>2
<1>4. Served(q, e) \in {"none", "there"}
  BY <1>3 DEF Served
<1> QED
  BY <1>2, <1>4 DEF MayOpen

(* What NumbersLost says of an answer.                                     *)
Excused(c, t, s) ==
  RingsIn(t) # Rings =>
    /\ \E f, g \in Fd : RingsIn(t) = Rings \cup {f, g}
    /\ Openable(line[c]) => Scarce(table)
    /\ s \in {200, 404, 500, Crash}

(* A handler that has its request replies, and read_file may have lost two *)
(* numbers on the way.                                                     *)
LEMMA Replies ==
  ASSUME IInv, NEW c \in Conn, Respond(c)
  PROVE  \E t \in [Fd -> Conn \cup {Ring, None}], s \in Status :
           /\ Lost(t) /\ s \in AnyResponse(line[c], config.enforce)
           /\ Reply(c, s, t) /\ Excused(c, t, s)
<1> DEFINE r == line[c]
           e == config.enforce
<1>1. r \in AnyRequest /\ table \in [Fd -> Conn \cup {Ring, None}]
  <2>1. r # None
    BY DEF Respond, Resumes, IInv, ProgressInv, ProgressOf
  <2> QED
    BY <2>1, LineType DEF IInv, TypeOK
<1>2. PICK d \in MayOpen(Beside(r), Scarce(table)) :
        LET t == After(Beside(r), d, table)
        IN  \/ \E q \in Governed(r, d) :
                 LET file == Served(q, e)
                 IN  \E o \in MayOpen(file, Scarce(t)) :
                       \E s \in Answers(q, e, o) : Reply(c, s, After(file, o, t))
            \/ d /\ r.descriptor = "directory" /\ Reply(c, Crash, t)
  BY DEF Respond
<1> DEFINE t == After(Beside(r), d, table)
<1>3. d \in BOOLEAN /\ Scarce(table) \in BOOLEAN /\ Scarce(t) \in BOOLEAN
  BY DEF MayOpen, Scarce
<1>4. /\ t \in [Fd -> Conn \cup {Ring, None}]
      /\ \A f \in Fd : t[f] = table[f] \/ (table[f] = None /\ t[f] = Ring)
      /\ RingsIn(t) = RingsIn(table) \/ \E f \in Fd : RingsIn(t) = RingsIn(table) \cup {f}
      /\ Beside(r) = "none" \/ d => t = table
  BY <1>1, <1>3, AfterTable
<1>5. RingsIn(table) = Rings
  BY DEF RingsIn, Rings
<1> HIDE DEF t
<1>6. CASE \E q \in Governed(r, d) : \E o \in MayOpen(Served(q, e), Scarce(t)) :
             \E s \in Answers(q, e, o) : Reply(c, s, After(Served(q, e), o, t))
  <2>1. PICK q \in Governed(r, d) : \E o \in MayOpen(Served(q, e), Scarce(t)) :
          \E s \in Answers(q, e, o) : Reply(c, s, After(Served(q, e), o, t))
    BY <1>6
  <2>2. PICK o \in MayOpen(Served(q, e), Scarce(t)) :
          \E s \in Answers(q, e, o) : Reply(c, s, After(Served(q, e), o, t))
    BY <2>1
  <2>12. PICK s \in Answers(q, e, o) : Reply(c, s, After(Served(q, e), o, t))
    BY <2>2
  <2> DEFINE u == After(Served(q, e), o, t)
  <2>3. o \in BOOLEAN
    BY DEF MayOpen
  <2>4. /\ u \in [Fd -> Conn \cup {Ring, None}]
        /\ \A f \in Fd : u[f] = t[f] \/ (t[f] = None /\ u[f] = Ring)
        /\ RingsIn(u) = RingsIn(t) \/ \E f \in Fd : RingsIn(u) = RingsIn(t) \cup {f}
        /\ Served(q, e) = "none" \/ o => u = t
    BY <1>4, <2>3, AfterTable
  <2>5. Reply(c, s, u)
    BY <2>12
  <2> HIDE DEF u
  <2>6. s \in Status /\ s \in AnyResponse(r, e)
    <3>1. s \in Status
      BY AnswersRange
    <3>2. d \in MayOpen(Beside(r), TRUE) /\ o \in MayOpen(Served(q, e), TRUE)
      BY DEF MayOpen
    <3>3. s \in AnyResponse(r, e)
      BY <3>2, AnswerResponds
    <3> QED
      BY <3>1, <3>3
  <2>7. Lost(u)
    BY <1>4, <2>4 DEF Lost
  <2>8. RingsIn(u) # Rings => \E f, g \in Fd : RingsIn(u) = Rings \cup {f, g}
    BY <1>4, <1>5, <2>4
  <2>9. Openable(r) /\ ~Scarce(table) => u = table
    <3> SUFFICES ASSUME Openable(r), ~Scarce(table) PROVE u = table
      OBVIOUS
    <3>1. d \in MayOpen(Beside(r), FALSE)
      BY <1>3
    <3>2. t = table
      <4>1. Beside(r) \in {"none", "there"}
        BY DEF Beside, Openable
      <4> QED
        BY <1>4, <3>1, <4>1 DEF MayOpen
    <3>3. o \in MayOpen(Served(q, e), FALSE)
      BY <1>3, <3>2
    <3>4. Served(q, e) = "none" \/ o
      BY <1>1, <3>1, <3>3, OpensAll
    <3> QED
      BY <2>4, <3>2, <3>4
  <2>10. RingsIn(u) # Rings => s \in {200, 404, 500, Crash}
    <3>1. Beside(r) = "none" /\ Served(q, e) = "none" => u = table
      BY <1>4, <2>4
    <3>2. Beside(r) # "none" \/ Served(q, e) # "none" => s \in {200, 404, 500, Crash}
      BY <1>1, <1>3, ReadAnswers
    <3> QED
      BY <1>5, <3>1, <3>2
  <2>11. Excused(c, u, s)
    BY <1>5, <2>8, <2>9, <2>10 DEF Excused
  <2> HIDE DEF r, e
  <2> QED
    BY <2>4, <2>5, <2>6, <2>7, <2>11 DEF r, e
<1>7. CASE d /\ r.descriptor = "directory" /\ Reply(c, Crash, t)
  <2>1. Reply(c, Crash, table)
    BY <1>7 DEF Reply, Crash, ErrorPages
  <2>2. Crash \in AnyResponse(r, e) /\ Crash \in Status
    <3>1. Beside(r) = "there"
      BY <1>7 DEF MayOpen
    <3>2. Crash \in AnyResponse(r, e)
      BY <1>7, <3>1, CrashResponds
    <3> QED
      BY <3>2 DEF Status
  <2>3. Lost(table) /\ Excused(c, table, Crash)
    BY <1>5 DEF Lost, Excused
  <2> QED
    BY <1>1, <2>1, <2>2, <2>3
<1> QED
  BY <1>2, <1>6, <1>7 DEF t

LEMMA RespondInv == ASSUME IInv, NEW c \in Conn, Respond(c) PROVE IInv'
<1>1. /\ cpu = Main /\ pc[c] = "awaitOut" /\ line[c] # None
      /\ UNCHANGED <<config, peer, inbox, backlog, fd, ssl, line, sent>>
  BY DEF Respond, Resumes, IInv, ProgressInv, ProgressOf
<1>2. PICK t \in [Fd -> Conn \cup {Ring, None}], s \in Status :
        /\ Lost(t) /\ s \in AnyResponse(line[c], config.enforce) /\ Reply(c, s, t)
  BY Replies
<1>3. CASE s \in ErrorPages /\ ErrorPage(c, s, t) /\ UNCHANGED up
  BY <1>1, <1>2, <1>3, ErrorPageInv
<1>4. CASE s = 301 /\ Redirect(c) /\ table' = t /\ UNCHANGED up
  BY <1>1, <1>2, <1>4, WritesInv DEF Redirect
<1>5. CASE s = 200 /\ File(c) /\ table' = t /\ UNCHANGED up
  <2>1. CASE ssl[c]
    BY <1>1, <1>2, <1>5, <2>1, EndsInv DEF File
  <2>2. CASE ~ssl[c]
    BY <1>1, <1>2, <1>5, <2>2, WritesInv DEF File
  <2> QED
    BY <2>1, <2>2
<1>6. CASE up' = FALSE /\ UNCHANGED <<table, cpu, pc, out>>
  <2> USE <1>1, <1>6 DEF IInv, peer
  <2>1. TypeOK'
    BY DEF TypeOK
  <2>2. PeerInv' /\ CpuInv' /\ BacklogInv'
    BY DEF PeerInv, PeerOf, CpuInv, BacklogInv
  <2>3. OwnDescriptor' /\ ProgressInv' /\ OneAnswer'
    BY DEF OwnDescriptor, ProgressInv, ProgressOf, OneAnswer
  <2> QED
    BY <2>1, <2>2, <2>3
<1> QED
  BY <1>2, <1>3, <1>4, <1>5, <1>6 DEF Reply

LEMMA SendChunkInv == ASSUME IInv, NEW c \in Conn, SendChunk(c) PROVE IInv'
<1> USE DEF IInv, peer, kernel
<1>1. /\ pc[c] = "sending" /\ cpu \in {c, Main}
      /\ sent' = [sent EXCEPT ![c] = @ + 1]
      /\ UNCHANGED <<config, client, tls, said, inbox, backlog, table, fd,
                     ssl, line, out, up>>
  BY DEF SendChunk, Runs, Resumes
<1>2. /\ pc' \in [Conn -> Label] /\ cpu' \in Conn \cup {Main}
      /\ \/ pc'[c] = "sending" /\ sent[c] + 1 < Chunks
         \/ pc'[c] = "finish" /\ cpu' = c
      /\ \A d \in Conn \ {c} : pc'[d] = pc[d]
  BY GoesType DEF SendChunk, Label
<1>3. sent[c] \in 0 .. Chunks /\ sent[c] < Chunks
  BY <1>1 DEF TypeOK, ProgressInv, ProgressOf
<1>4. /\ sent' \in [Conn -> 0 .. Chunks] /\ sent'[c] = sent[c] + 1
      /\ \A d \in Conn \ {c} : sent'[d] = sent[d]
  BY <1>1, <1>3, ConnectionsAssumption DEF TypeOK
<1>5. Handles(c) /\ Stays(c)
  BY <1>1, <1>2, <1>4 DEF Handles, Stays, Lost, Keeps
<1>6. TypeOK'
  BY <1>1, <1>2, <1>4 DEF TypeOK
<1>7. PeerOf(c)'
  BY <1>1, <1>2 DEF PeerInv, PeerOf
<1>8. ProgressOf(c)' /\ AnswerOf(c)'
  BY <1>1, <1>2, <1>4 DEF ProgressInv, ProgressOf, OneAnswer, AnswerOf, Early, Over
<1> QED
  BY <1>5, <1>6, <1>7, <1>8, HandlerInv

LEMMA SendBreaksInv == ASSUME IInv, NEW c \in Conn, SendBreaks(c) PROVE IInv'
BY SilentInv DEF SendBreaks, Runs, Resumes

(* The last close hits the handler's own number or a free one.             *)
LEMMA FinishInv == ASSUME IInv, NEW c \in Conn, Finish(c) PROVE IInv'
<1> USE DEF IInv, peer
<1>1. /\ pc[c] = "finish" /\ cpu = c /\ fd[c] \in Fd
      /\ Closes(c, table) /\ Goes(c, "done", Main)
      /\ UNCHANGED <<config, client, tls, said, inbox, backlog, fd, line,
                     sent, out, up>>
  BY DEF Finish, Runs, PeerInv, PeerOf
<1>2. /\ pc' \in [Conn -> Label] /\ cpu' = Main
      /\ pc'[c] = "done"
      /\ \A d \in Conn \ {c} : pc'[d] = pc[d]
  BY <1>1, GoesType DEF Label
<1>3. /\ table' \in [Fd -> Conn \cup {Ring, None}]
      /\ table'[fd[c]] = None
      /\ \A f \in Fd \ {fd[c]} : table'[f] = table[f]
  BY <1>1, ClosesType DEF TypeOK
<1>4. /\ ssl' \in [Conn -> BOOLEAN] /\ (ssl'[c] => ssl[c])
      /\ \A d \in Conn \ {c} : ssl'[d] = ssl[d]
  BY DEF Finish, TypeOK
<1>5. Handles(c) /\ Drops(c)
  BY <1>1, <1>2, <1>3, <1>4 DEF Handles, Drops, Keeps
<1>6. TypeOK'
  BY <1>1, <1>2, <1>3, <1>4 DEF TypeOK
<1>7. PeerOf(c)'
  BY <1>1, <1>2, <1>4 DEF PeerInv, PeerOf
<1>8. ProgressOf(c)' /\ AnswerOf(c)'
  BY <1>1, <1>2 DEF ProgressInv, ProgressOf, OneAnswer, AnswerOf, Early, Over
<1> QED
  BY <1>5, <1>6, <1>7, <1>8, HandlerInv

----------------------------------------------------------------------------
LEMMA InvNext == ASSUME IInv, [Next]_vars PROVE IInv'
<1>1. CASE Next
  <2>1. PICK c \in Conn : Client(c) \/ Server(c)
    BY <1>1 DEF Next
  <2>2. CASE Client(c)
    BY <2>2, ConnectInv, TalkInv, LeaveInv DEF Client
  <2>3. CASE Server(c)
    BY <2>3, AcceptInv, StartInv, PeekInv, HandshakeInv, TlsReadInv, ReceiveInv,
       RespondInv, SendChunkInv, SendBreaksInv, FinishInv DEF Server
  <2> QED
    BY <2>1, <2>2, <2>3
<1>2. CASE UNCHANGED vars
  <2> USE <1>2 DEF IInv, vars
  <2>1. TypeOK' /\ PeerInv' /\ CpuInv' /\ BacklogInv'
    BY DEF TypeOK, PeerInv, PeerOf, CpuInv, BacklogInv
  <2>2. OwnDescriptor' /\ ProgressInv' /\ OneAnswer'
    BY DEF OwnDescriptor, ProgressInv, ProgressOf, OneAnswer
  <2> QED
    BY <2>1, <2>2
<1> QED
  BY <1>1, <1>2

LEMMA InvHolds == Spec => []IInv
BY InvInit, InvNext, PTL DEF Spec

----------------------------------------------------------------------------
(* The state is well-formed: in particular no handler sends more chunks    *)
(* than its response has, and every line it reads was sent.                *)
THEOREM TypeCorrect == Spec => []TypeOK
<1>1. IInv => TypeOK
  BY DEF IInv
<1> QED
  BY <1>1, InvHolds, PTL

(* Although a number is closed twice on every error page and reused, a     *)
(* handler never holds another connection's descriptor, and every open one *)
(* belongs to the handler that will close it.                              *)
THEOREM HandlersOwnDescriptors == Spec => []OwnDescriptor
<1>1. IInv => OwnDescriptor
  BY DEF IInv
<1> QED
  BY <1>1, InvHolds, PTL

(* A step that leaves every ring where it is loses nothing.                *)
LEMMA RingsStay ==
  ASSUME \A f \in Fd : table[f] = Ring <=> table'[f] = Ring
  PROVE  Rings' = Rings
BY DEF Rings

(* Closing the handler's number, or replying on it, moves no ring.         *)
LEMMA ReplyRings ==
  ASSUME IInv, NEW c \in Conn, pc[c] = "awaitOut",
         NEW t \in [Fd -> Conn \cup {Ring, None}], Lost(t), NEW s \in Status,
         Reply(c, s, t)
  PROVE  /\ Rings' \in {Rings, RingsIn(t)} /\ Rings' # Fd
         /\ Rings' # Rings => s # Crash
<1>1. fd[c] \in Fd /\ table[fd[c]] = c /\ table[fd[c]] # Ring /\ t[fd[c]] = c
  BY ConnectionsAssumption DEF IInv, PeerInv, PeerOf, OwnDescriptor, Lost
<1>2. CASE ErrorPage(c, s, t) /\ s \in ErrorPages
  <2>1. /\ table'[fd[c]] = None
        /\ \A f \in Fd \ {fd[c]} : table'[f] = t[f]
    BY <1>1, <1>2, ClosesType DEF ErrorPage
  <2>2. Rings' = RingsIn(t) /\ fd[c] \notin Rings'
    BY <1>1, <2>1, ConnectionsAssumption DEF Rings, RingsIn
  <2> QED
    BY <1>1, <1>2, <2>2 DEF ErrorPages, Crash
<1>3. CASE table' = t /\ s # Crash
  BY <1>1, <1>3, ConnectionsAssumption DEF Rings, RingsIn
<1>4. CASE table' = table
  BY <1>1, <1>4, ConnectionsAssumption DEF Rings
<1> QED
  BY <1>2, <1>3, <1>4 DEF Reply, Crash

(* Only the reply to a request loses numbers.                              *)
LEMMA OthersKeepRings ==
  ASSUME IInv, [Next]_vars, \A c \in Conn : ~Respond(c)
  PROVE  Rings' = Rings
<1>1. CASE table' = table
  BY <1>1 DEF Rings
<1>2. CASE \E c \in Conn : Accept(c)
  <2>1. PICK c \in Conn, f \in Fd : table[f] = None /\ table' = [table EXCEPT ![f] = c]
    BY <1>2 DEF Accept, NextFree
  <2> QED
    BY <2>1, RingsStay, ConnectionsAssumption DEF IInv, TypeOK
<1>3. CASE \E c \in Conn : pc[c] \notin {"none", "done"} /\ Closes(c, table)
  <2>1. PICK c \in Conn : pc[c] \notin {"none", "done"} /\ Closes(c, table)
    BY <1>3
  <2>2. fd[c] \in Fd /\ table[fd[c]] \in {c, None} /\ table[fd[c]] # Ring /\ None # Ring
    BY <2>1, ConnectionsAssumption DEF IInv, PeerInv, PeerOf, OwnDescriptor
  <2>3. /\ table'[fd[c]] = None
        /\ \A f \in Fd \ {fd[c]} : table'[f] = table[f]
    BY <2>1, <2>2, ClosesType DEF IInv, TypeOK
  <2> QED
    BY <2>2, <2>3, RingsStay
<1>4. \/ table' = table \/ \E c \in Conn : Accept(c)
      \/ \E c \in Conn : pc[c] \notin {"none", "done"} /\ Closes(c, table)
  <2>1. CASE UNCHANGED vars
    BY <2>1 DEF vars
  <2>2. CASE Next
    <3>1. PICK c \in Conn : Client(c) \/ Server(c)
      BY <2>2 DEF Next
    <3>2. CASE Client(c) \/ TlsRead(c) \/ Receive(c) \/ SendChunk(c) \/ SendBreaks(c)
      BY <3>2 DEF Client, Connect, Talk, Leave, TlsRead, Receive, SendChunk, SendBreaks,
                  kernel
    <3>3. CASE Start(c) \/ Peek(c)
      BY <3>3 DEF Start, Peek, Runs, Resumes, Plain, ErrorPage
    <3>4. CASE Handshake(c) \/ Finish(c)
      BY <3>4 DEF Handshake, Finish, Runs
    <3> QED
      BY <3>1, <3>2, <3>3, <3>4 DEF Server
  <2> QED
    BY <2>1, <2>2
<1> QED
  BY <1>1, <1>2, <1>3, <1>4

(* A number is lost only when a request is answered that has a descriptor  *)
(* or a file to be opened, at most two are, and only if one of the two is  *)
(* locked or may be any file, or two numbers were not free; and the last   *)
(* number is never lost.                                                   *)
THEOREM NumbersRarelyLost == Spec => NumbersLost
<1> DEFINE A == Rings' # Rings =>
                  /\ Rings' # Fd
                  /\ \E f, g \in Fd : Rings' = Rings \cup {f, g}
                  /\ \E c \in Conn :
                       /\ pc[c] = "awaitOut" /\ pc'[c] \in {"sending", "finish"}
                       /\ Openable(line[c]) => Scarce(table)
                       /\ \A i \in DOMAIN out'[c] : out'[c][i] \in {200, 404, 500}
<1>1. ASSUME IInv, [Next]_vars PROVE A
  <2> SUFFICES ASSUME Rings' # Rings PROVE A
    OBVIOUS
  <2>1. PICK c \in Conn : Respond(c)
    BY <1>1, OthersKeepRings
  <2>2. PICK t \in [Fd -> Conn \cup {Ring, None}], s \in Status :
          Lost(t) /\ Reply(c, s, t) /\ Excused(c, t, s)
    BY <1>1, <2>1, Replies
  <2>3. pc[c] = "awaitOut" /\ table[fd[c]] = c /\ out[c] = <<>>
    BY <1>1, <2>1 DEF Respond, Resumes, IInv, OwnDescriptor, ProgressInv, ProgressOf, Over
  <2>4. Rings' = RingsIn(t) /\ Rings' # Fd /\ s # Crash
    BY <1>1, <2>2, <2>3, ReplyRings
  <2>5. /\ \E f, g \in Fd : Rings' = Rings \cup {f, g}
        /\ Openable(line[c]) => Scarce(table)
        /\ s \in {200, 404, 500}
    BY <2>2, <2>4 DEF Excused
  <2> DEFINE B == /\ pc'[c] \in {"sending", "finish"}
                   /\ \A i \in DOMAIN out'[c] : out'[c][i] \in {200, 404, 500}
  <2>6. ASSUME s \in ErrorPages, ErrorPage(c, s, t) PROVE B
    <3>1. pc'[c] = "finish"
      BY <1>1, <2>6, GoesType DEF ErrorPage, IInv, Label
    <3>2. out'[c] = <<s>>
      BY <1>1, <2>3, <2>6, WritesType DEF ErrorPage, IInv
    <3>3. \A i \in DOMAIN out'[c] : out'[c][i] \in {200, 404, 500}
      BY <2>5, <3>2
    <3> QED
      BY <3>1, <3>3
  <2>7. ASSUME s = 200, File(c) PROVE B
    <3>1. pc'[c] \in {"sending", "finish"}
      BY <1>1, <2>7, GoesType DEF File, IInv, Label
    <3>2. out'[c] \in {<<>>, <<200>>}
      <4>1. CASE ssl[c]
        BY <2>3, <2>7, <4>1 DEF File
      <4>2. CASE ~ssl[c]
        <5>1. Writes(c, 200)
          BY <2>7, <4>2 DEF File
        <5>2. out'[c] = <<200>>
          BY <1>1, <2>3, <5>1, WritesType DEF IInv
        <5> QED
          BY <5>2
      <4> QED
        BY <4>1, <4>2
    <3>3. \A i \in DOMAIN out'[c] : out'[c][i] \in {200, 404, 500}
      BY <3>2
    <3> QED
      BY <3>1, <3>3
  <2>8. (s \in ErrorPages /\ ErrorPage(c, s, t)) \/ (s = 200 /\ File(c))
    BY <2>2, <2>4, <2>5 DEF Reply
  <2>9. B
    BY <2>6, <2>7, <2>8
  <2> HIDE DEF B
  <2>10. /\ pc[c] = "awaitOut" /\ pc'[c] \in {"sending", "finish"}
         /\ Openable(line[c]) => Scarce(table)
         /\ \A i \in DOMAIN out'[c] : out'[c][i] \in {200, 404, 500}
    BY <2>3, <2>5, <2>9 DEF B
  <2> QED
    BY <2>4, <2>5, <2>10
<1>2. IInv /\ [Next]_vars => [A]_vars
  BY <1>1
<1> QED
  BY <1>2, InvHolds, PTL DEF Spec, NumbersLost

(* No connection gets two answers, or one that its request did not ask     *)
(* for.                                                                    *)
THEOREM AnsweredAtMostOnce == Spec => []OneAnswer
<1>1. IInv => OneAnswer
  BY DEF IInv
<1> QED
  BY <1>1, InvHolds, PTL

(* No request that was read from a plain connection is closed unanswered.  *)
THEOREM PlainNeverSilent == Spec => []PlainAnswered
<1>1. IInv => PlainAnswered
  BY DEF IInv, ProgressInv, ProgressOf, PlainAnswered, Over
<1> QED
  BY <1>1, InvHolds, PTL
----------------------------------------------------------------------------
(* TLS.  A client says hello first and once; until then its connection has *)
(* no SSL object, and afterwards it keeps it.                              *)
HelloOf(c) ==
  /\ pc[c] \in {"none", "start", "peek", "handshake", "awaitIn"} => ~ssl[c]
  /\ pc[c] = "tlsRead" => ssl[c]
  /\ inbox[c] # <<>> => said[c] # 0
  /\ ssl[c] => said[c] # 0 /\ \A i \in DOMAIN inbox[c] : inbox[c][i] # "hello"
  /\ \A i \in DOMAIN inbox[c] : i > 1 => inbox[c][i] # "hello"
  /\ tls[c] /\ ~ssl[c] /\ inbox[c] # <<>> => inbox[c][1] = "hello"

(* Without it only the hello can be read as a request, and that is none.   *)
ClearOf(c) ==
  /\ pc[c] # "sending" /\ \A i \in DOMAIN out[c] : out[c][i] # 200
  /\ ~ssl[c] /\ line[c] # None => line[c] = Garbled

TlsInv == \A c \in Conn : HelloOf(c) /\ (tls[c] => ClearOf(c))

LEMMA TlsInit == Init => TlsInv
BY DEF Init, TlsInv, HelloOf, ClearOf

(* A step of one connection leaves the others as they are.                 *)
LEMMA TlsFrame ==
  ASSUME TlsInv, NEW c \in Conn, config' = config, HelloOf(c)', tls'[c] => ClearOf(c)',
         \A d \in Conn \ {c} :
           /\ pc'[d] = pc[d] /\ ssl'[d] = ssl[d] /\ inbox'[d] = inbox[d]
           /\ said'[d] = said[d] /\ tls'[d] = tls[d]
           /\ line'[d] = line[d] /\ out'[d] = out[d]
  PROVE  TlsInv'
<1>1. ASSUME NEW d \in Conn \ {c} PROVE HelloOf(d)' /\ (tls'[d] => ClearOf(d)')
  <2>1. HelloOf(d) /\ (tls[d] => ClearOf(d))
    BY DEF TlsInv
  <2> QED
    BY <2>1 DEF HelloOf, ClearOf
<1> QED
  BY <1>1 DEF TlsInv

(* A handler moves on without a word.                                      *)
LEMMA TlsMoves ==
  ASSUME TypeOK, TlsInv, NEW c \in Conn, NEW l \in Label \ {"none", "tlsRead"},
         NEW o \in Conn \cup {Main}, Goes(c, l, o),
         l \in {"start", "peek", "handshake", "awaitIn"} => ~ssl[c],
         tls[c] => l # "sending",
         UNCHANGED <<config, tls, said, inbox, ssl, line, out>>
  PROVE  TlsInv'
<1>1. pc'[c] = l /\ \A d \in Conn \ {c} : pc'[d] = pc[d]
  BY GoesType
<1>2. HelloOf(c) /\ (tls[c] => ClearOf(c))
  BY DEF TlsInv
<1>3. HelloOf(c)' /\ (tls'[c] => ClearOf(c)')
  BY <1>1, <1>2 DEF HelloOf, ClearOf
<1> QED
  BY <1>1, <1>3, TlsFrame

(* A handler writes what is not a file and goes to its end.                *)
LEMMA TlsWrites ==
  ASSUME IInv, TlsInv, NEW c \in Conn, pc[c] \in {"start", "peek", "awaitOut"},
         NEW s \in {301} \cup ErrorPages, Writes(c, s), Goes(c, "finish", c),
         UNCHANGED <<config, tls, said, inbox, ssl, line>>
  PROVE  TlsInv'
<1>1. pc'[c] = "finish" /\ \A d \in Conn \ {c} : pc'[d] = pc[d]
  BY GoesType DEF IInv, Label
<1>2. table[fd[c]] = c /\ out[c] = <<>>
  BY DEF IInv, OwnDescriptor, ProgressInv, ProgressOf, Over
<1>3. out'[c] = <<s>> /\ \A d \in Conn \ {c} : out'[d] = out[d]
  <2>1. TypeOK /\ s \in {200, 301} \cup ErrorPages
    BY DEF IInv
  <2> QED
    BY <1>2, <2>1, WritesType
<1>4. out'[c] # <<>> /\ \A i \in DOMAIN out'[c] : out'[c][i] # 200
  BY <1>3 DEF ErrorPages
<1>5. HelloOf(c) /\ (tls[c] => ClearOf(c))
  BY DEF TlsInv
<1>6. HelloOf(c)' /\ (tls'[c] => ClearOf(c)')
  BY <1>1, <1>4, <1>5 DEF HelloOf, ClearOf
<1> QED
  BY <1>1, <1>3, <1>6, TlsFrame

LEMMA TlsConnect == ASSUME IInv, TlsInv, NEW c \in Conn, Connect(c) PROVE TlsInv'
<1>1. pc[c] = "none" /\ line[c] = None /\ out[c] = <<>> /\ inbox[c] = <<>> /\ ~ssl[c]
  BY DEF Connect, IInv, PeerInv, PeerOf, ProgressInv, ProgressOf, Early, Over
<1>2. /\ \A d \in Conn \ {c} : tls'[d] = tls[d]
      /\ UNCHANGED <<config, pc, said, inbox, ssl, line, out>>
  BY DEF Connect, IInv, TypeOK
<1>3. HelloOf(c)' /\ ClearOf(c)'
  BY <1>1, <1>2 DEF HelloOf, ClearOf
<1> QED
  BY <1>2, <1>3, TlsFrame

LEMMA TlsTalk == ASSUME IInv, TlsInv, NEW c \in Conn, Talk(c) PROVE TlsInv'
<1>1. /\ UNCHANGED <<config, tls, pc, ssl, line, out>>
      /\ tls[c] /\ said[c] = 1 => ssl[c]
      /\ said'[c] = said[c] + 1 /\ said[c] \in {0, 1}
      /\ \A d \in Conn \ {c} : said'[d] = said[d] /\ inbox'[d] = inbox[d]
  BY DEF Talk, IInv, TypeOK
<1>2. inbox[c] \in Seq({"hello", "request"})
  BY DEF IInv, TypeOK
<1> DEFINE x == IF tls[c] /\ said[c] = 0 THEN "hello" ELSE "request"
<1>3. inbox'[c] = Append(inbox[c], x)
  BY DEF Talk, IInv, TypeOK
<1>4. HelloOf(c) /\ (tls[c] => ClearOf(c))
  BY DEF TlsInv
<1>5. /\ said[c] = 0 => inbox[c] = <<>> /\ ~ssl[c]
      /\ said[c] # 0 => x = "request"
      /\ tls[c] /\ said[c] = 0 => x = "hello"
      /\ tls[c] /\ ~ssl[c] => said[c] = 0
  BY <1>1, <1>4 DEF HelloOf
<1>6. /\ Len(inbox'[c]) = Len(inbox[c]) + 1 /\ inbox'[c][Len(inbox[c]) + 1] = x
      /\ DOMAIN inbox'[c] = 1 .. Len(inbox[c]) + 1
      /\ DOMAIN inbox[c] = 1 .. Len(inbox[c]) /\ Len(inbox[c]) \in Nat
      /\ \A i \in 1 .. Len(inbox[c]) : inbox'[c][i] = inbox[c][i]
  <2>1. x \in {"hello", "request"}
    OBVIOUS
  <2> HIDE DEF x
  <2> QED
    BY <1>2, <1>3, <2>1
<1> HIDE DEF x
<1>7. said'[c] # 0
  BY <1>1
<1>8. \A i \in DOMAIN inbox'[c] : i > 1 => inbox'[c][i] # "hello"
  <2>1. CASE said[c] = 0
    <3>1. Len(inbox[c]) = 0
      BY <1>5, <2>1
    <3> QED
      BY <1>6, <3>1
  <2>2. CASE said[c] # 0
    <3>1. x # "hello"
      BY <1>5, <2>2
    <3>2. \A i \in 1 .. Len(inbox[c]) : i > 1 => inbox[c][i] # "hello"
      BY <1>4, <1>6 DEF HelloOf
    <3> QED
      BY <1>6, <3>1, <3>2
  <2> QED
    BY <2>1, <2>2
<1>9. ssl[c] => \A i \in DOMAIN inbox'[c] : inbox'[c][i] # "hello"
  <2>1. ssl[c] => x # "hello"
    BY <1>5
  <2>2. ssl[c] => \A i \in 1 .. Len(inbox[c]) : inbox[c][i] # "hello"
    BY <1>4, <1>6 DEF HelloOf
  <2> QED
    BY <1>6, <2>1, <2>2
<1>10. tls[c] /\ ~ssl[c] => inbox'[c][1] = "hello"
  <2> SUFFICES ASSUME tls[c], ~ssl[c] PROVE inbox'[c][1] = "hello"
    OBVIOUS
  <2>1. x = "hello" /\ Len(inbox[c]) = 0
    BY <1>5
  <2> QED
    BY <1>6, <2>1
<1>11. HelloOf(c)' /\ (tls'[c] => ClearOf(c)')
  BY <1>1, <1>4, <1>7, <1>8, <1>9, <1>10 DEF HelloOf, ClearOf
<1> QED
  BY <1>1, <1>11, TlsFrame

LEMMA TlsLeave == ASSUME IInv, TlsInv, NEW c \in Conn, Leave(c) PROVE TlsInv'
BY DEF Leave, kernel, TlsInv, HelloOf, ClearOf

LEMMA TlsAccept == ASSUME IInv, TlsInv, NEW c \in Conn, Accept(c) PROVE TlsInv'
<1>1. pc[c] = "none"
  <2>1. backlog \in Seq(Conn) /\ backlog # <<>> /\ c = Head(backlog)
    BY DEF Accept, IInv, TypeOK
  <2>2. 1 \in DOMAIN backlog /\ c = backlog[1]
    BY <2>1
  <2> QED
    BY <2>2 DEF IInv, BacklogInv
<1>2. ~ssl[c]
  BY <1>1 DEF TlsInv, HelloOf
<1>3. /\ Goes(c, "start", Main) /\ "start" \in Label \ {"none", "tlsRead"}
      /\ UNCHANGED <<config, tls, said, inbox, ssl, line, out>>
  BY DEF Accept, peer, Label
<1> QED
  BY <1>2, <1>3, TlsMoves DEF IInv

(* A connection that is not secured is read, or refused.                   *)
LEMMA TlsPlain ==
  ASSUME IInv, TlsInv, NEW c \in Conn, pc[c] \in {"start", "peek"}, Plain(c),
         UNCHANGED <<config, tls, said, inbox, ssl, line>>
  PROVE  TlsInv'
<1>1. ~ssl[c]
  BY DEF TlsInv, HelloOf
<1>2. CASE config.insecure
  <2>1. Goes(c, "awaitIn", Main) /\ out' = out /\ "awaitIn" \in Label \ {"none", "tlsRead"}
    BY <1>2 DEF Plain, Label
  <2> QED
    BY <1>1, <2>1, TlsMoves DEF IInv
<1>3. CASE ~config.insecure
  <2>1. Writes(c, 403) /\ Goes(c, "finish", c) /\ 403 \in ErrorPages
    BY <1>3 DEF Plain, ErrorPage, ErrorPages
  <2> QED
    BY <2>1, TlsWrites
<1> QED
  BY <1>2, <1>3

LEMMA TlsStart == ASSUME IInv, TlsInv, NEW c \in Conn, Start(c) PROVE TlsInv'
<1>1. /\ pc[c] = "start" /\ ~ssl[c]
      /\ UNCHANGED <<config, tls, said, inbox, ssl, line>>
  BY DEF Start, Resumes, peer, TlsInv, HelloOf
<1>2. CASE config.ssl
  <2>1. Goes(c, "peek", c) /\ out' = out /\ "peek" \in Label \ {"none", "tlsRead"}
    BY <1>2 DEF Start, Label
  <2> QED
    BY <1>1, <2>1, TlsMoves DEF IInv
<1>3. CASE ~config.ssl
  BY <1>1, <1>3, TlsPlain DEF Start
<1> QED
  BY <1>2, <1>3

LEMMA TlsPeek == ASSUME IInv, TlsInv, NEW c \in Conn, Peek(c) PROVE TlsInv'
<1>1. /\ pc[c] = "peek" /\ ~ssl[c]
      /\ UNCHANGED <<config, tls, said, inbox, ssl, line>>
  BY DEF Peek, Runs, peer, TlsInv, HelloOf
<1>2. CASE Secured(c)
  <2>1. Goes(c, "handshake", c) /\ out' = out /\ "handshake" \in Label \ {"none", "tlsRead"}
    BY <1>2 DEF Peek, Label
  <2> QED
    BY <1>1, <2>1, TlsMoves DEF IInv
<1>3. CASE ~Secured(c)
  BY <1>1, <1>3, TlsPlain DEF Peek
<1> QED
  BY <1>2, <1>3

(* The one hello is read.                                                  *)
LEMMA TlsHandshake == ASSUME IInv, TlsInv, NEW c \in Conn, Handshake(c) PROVE TlsInv'
<1>1. /\ pc[c] = "handshake" /\ inbox[c] # <<>> /\ line[c] = None /\ out[c] = <<>>
      /\ inbox[c] \in Seq({"hello", "request"})
      /\ UNCHANGED <<config, tls, said, line, out>>
  BY DEF Handshake, Runs, peer, IInv, TypeOK, PeerInv, PeerOf, ProgressInv, ProgressOf,
         Early, Over
<1>2. HelloOf(c)
  BY DEF TlsInv
<1>3. CASE /\ inbox' = [inbox EXCEPT ![c] = Tail(@)]
           /\ ssl' = [ssl EXCEPT ![c] = TRUE]
           /\ Goes(c, "tlsRead", c)
  <2>1. pc'[c] = "tlsRead" /\ \A d \in Conn \ {c} : pc'[d] = pc[d]
    BY <1>3, GoesType DEF IInv, Label
  <2>2. /\ inbox'[c] = Tail(inbox[c]) /\ ssl'[c]
        /\ \A d \in Conn \ {c} : inbox'[d] = inbox[d] /\ ssl'[d] = ssl[d]
    BY <1>3 DEF IInv, TypeOK
  <2>3. \A i \in DOMAIN inbox'[c] : inbox'[c][i] # "hello"
    <3>1. \A i \in DOMAIN inbox'[c] :
            i + 1 \in DOMAIN inbox[c] /\ i + 1 > 1 /\ inbox'[c][i] = inbox[c][i + 1]
      BY <1>1, <2>2
    <3> QED
      BY <1>2, <3>1 DEF HelloOf
  <2>4. said[c] # 0
    BY <1>1, <1>2 DEF HelloOf
  <2>5. HelloOf(c)' /\ ClearOf(c)'
    BY <1>1, <2>1, <2>2, <2>3, <2>4 DEF HelloOf, ClearOf
  <2> QED
    BY <1>1, <2>1, <2>2, <2>5, TlsFrame
<1>4. CASE Goes(c, "done", Main) /\ UNCHANGED <<inbox, ssl>>
  <2>1. "done" \in Label \ {"none", "tlsRead"}
    BY DEF Label
  <2> QED
    BY <1>1, <1>4, <2>1, TlsMoves DEF IInv
<1> QED
  BY <1>3, <1>4 DEF Handshake

(* A request is read: what a TLS client says before the handshake is none. *)
LEMMA TlsTake ==
  ASSUME IInv, TlsInv, NEW c \in Conn, pc[c] \in {"tlsRead", "awaitIn"},
         NEW r \in Requests \cup {Garbled}, Take(c, r),
         tls[c] /\ ~ssl[c] => r = Garbled,
         NEW rest \in {<<>>, Tail(inbox[c])}, inbox[c] # <<>>, ssl[c] \/ rest = <<>>,
         inbox' = [inbox EXCEPT ![c] = rest],
         UNCHANGED <<config, tls, said, ssl, out>>
  PROVE  TlsInv'
<1>1. /\ pc'[c] \in {"finish", "awaitOut"} /\ (pc'[c] = "finish" => r.form = "blank")
      /\ \A d \in Conn \ {c} : pc'[d] = pc[d]
  BY GoesType DEF Take, Label, IInv
<1>2. line'[c] = r /\ \A d \in Conn \ {c} : line'[d] = line[d]
  BY DEF Take, IInv, TypeOK
<1>3. inbox'[c] = rest /\ \A d \in Conn \ {c} : inbox'[d] = inbox[d]
  BY DEF IInv, TypeOK
<1>4. HelloOf(c) /\ (tls[c] => ClearOf(c)) /\ inbox[c] \in Seq({"hello", "request"})
  BY DEF TlsInv, IInv, TypeOK
<1>5. /\ \A i \in DOMAIN rest : i > 1 => rest[i] # "hello"
      /\ ssl[c] => \A i \in DOMAIN rest : rest[i] # "hello"
  <2>1. CASE rest = <<>>
    BY <2>1
  <2>2. CASE rest = Tail(inbox[c])
    <3>1. \A i \in DOMAIN rest : i + 1 \in DOMAIN inbox[c] /\ rest[i] = inbox[c][i + 1]
      BY <1>4, <2>2
    <3>2. \A i \in DOMAIN rest : i \in Nat /\ i + 1 > 1
      BY <1>4, <2>2
    <3> QED
      BY <1>4, <3>1, <3>2 DEF HelloOf
  <2> QED
    BY <2>1, <2>2
<1>6. rest # <<>> => ssl[c] /\ said[c] # 0
  BY <1>4 DEF HelloOf
<1>7. HelloOf(c)'
  BY <1>1, <1>3, <1>4, <1>5, <1>6 DEF HelloOf
<1>8. tls'[c] => ClearOf(c)'
  BY <1>1, <1>2, <1>4 DEF ClearOf
<1> QED
  BY <1>1, <1>2, <1>3, <1>7, <1>8, TlsFrame

LEMMA TlsTlsRead == ASSUME IInv, TlsInv, NEW c \in Conn, TlsRead(c) PROVE TlsInv'
<1>1. /\ pc[c] = "tlsRead" /\ ssl[c] /\ line[c] = None
      /\ UNCHANGED <<config, tls, said, ssl, out>>
  BY DEF TlsRead, Runs, peer, TlsInv, HelloOf, IInv, PeerInv, PeerOf, ProgressInv,
         ProgressOf, Early
<1>2. CASE inbox[c] = <<>>
  <2>1. Goes(c, "finish", c) /\ line' = line /\ inbox' = inbox
    BY <1>2 DEF TlsRead
  <2>2. "finish" \in Label \ {"none", "tlsRead"}
    BY DEF Label
  <2> QED
    BY <1>1, <2>1, <2>2, TlsMoves DEF IInv
<1>3. CASE inbox[c] # <<>>
  <2>1. PICK r \in Requests : Take(c, r) /\ inbox' = [inbox EXCEPT ![c] = Tail(@)]
    BY <1>3 DEF TlsRead
  <2> QED
    BY <1>1, <1>3, <2>1, TlsTake
<1> QED
  BY <1>2, <1>3

LEMMA TlsReceive == ASSUME IInv, TlsInv, NEW c \in Conn, Receive(c) PROVE TlsInv'
<1>1. /\ pc[c] = "awaitIn" /\ ~ssl[c] /\ line[c] = None
      /\ inbox \in [Conn -> Seq({"hello", "request"})]
      /\ UNCHANGED <<config, tls, said, ssl, out>>
      /\ inbox' = [inbox EXCEPT ![c] = <<>>]
  BY DEF Receive, Resumes, peer, TlsInv, HelloOf, IInv, TypeOK, PeerInv, PeerOf,
         ProgressInv, ProgressOf, Early
<1>2. CASE inbox[c] = <<>>
  <2>1. Goes(c, "finish", c) /\ line' = line /\ inbox' = inbox
    BY <1>1, <1>2 DEF Receive
  <2>2. "finish" \in Label \ {"none", "tlsRead"}
    BY DEF Label
  <2> QED
    BY <1>1, <2>1, <2>2, TlsMoves DEF IInv
<1>3. CASE inbox[c] # <<>>
  <2>1. PICK r \in Received(c) : Take(c, r)
    BY <1>3 DEF Receive
  <2>2. r \in Requests \cup {Garbled} /\ (tls[c] => r = Garbled)
    BY <1>1, <1>3 DEF TlsInv, HelloOf, Secured, Received
  <2> QED
    BY <1>1, <1>3, <2>1, <2>2, TlsTake
<1> QED
  BY <1>2, <1>3

(* What is no request line is a bad request.                               *)
LEMMA GarbledAnswer == ASSUME NEW e PROVE 200 \notin AnyResponse(Garbled, e)
<1>1. Garbled.form = "garbled" /\ ~Reaches(Garbled) /\ Beside(Garbled) = "none"
  BY DEF Garbled, Reaches, Beside
<1>2. ASSUME NEW d PROVE \A q \in Governed(Garbled, d) : q.form = "garbled"
  <2>1. Governed(Garbled, d) = {By(Garbled, "none", Garbled.page)}
    BY <1>1 DEF Governed
  <2>2. By(Garbled, "none", Garbled.page).form = "garbled"
    BY DEF By, Garbled
  <2> QED
    BY <2>1, <2>2
<1>3. \A q \in Readings(Garbled, TRUE) : q.form = "garbled"
  BY <1>2 DEF Readings
<1>4. ASSUME NEW q, q.form = "garbled" PROVE 200 \notin Outcomes(q, e, TRUE)
  <2> SUFFICES ASSUME NEW o \in MayOpen(Served(q, e), TRUE), 200 \in Answers(q, e, o)
               PROVE FALSE
    BY DEF Outcomes
  <2> QED
    BY <1>4 DEF Answers
<1>5. 200 \notin Fatal(Garbled)
  BY <1>1 DEF Fatal
<1> QED
  BY <1>3, <1>4, <1>5 DEF AnyResponse, Responses

(* A file is sent to plain connections only.                               *)
LEMMA TlsRespond == ASSUME IInv, TlsInv, NEW c \in Conn, Respond(c) PROVE TlsInv'
<1>1. /\ pc[c] = "awaitOut" /\ line[c] # None /\ out[c] = <<>>
      /\ UNCHANGED <<config, tls, said, inbox, ssl, line>>
  BY DEF Respond, Resumes, peer, IInv, ProgressInv, ProgressOf, Over
<1>2. PICK t \in [Fd -> Conn \cup {Ring, None}], s \in Status :
        s \in AnyResponse(line[c], config.enforce) /\ Reply(c, s, t)
  BY Replies
<1>3. CASE s \in ErrorPages /\ ErrorPage(c, s, t)
  BY <1>1, <1>3, TlsWrites DEF ErrorPage
<1>4. CASE s = 301 /\ Redirect(c)
  BY <1>1, <1>4, TlsWrites DEF Redirect
<1>5. CASE s = 200 /\ ~ssl[c] /\ File(c)
  <2>1. ~tls[c]
    <3>1. tls[c] => line[c] = Garbled
      BY <1>1, <1>5 DEF TlsInv, ClearOf
    <3> QED
      BY <1>2, <1>5, <3>1, GarbledAnswer
  <2>2. pc'[c] = "sending" /\ \A d \in Conn \ {c} : pc'[d] = pc[d]
    BY <1>5, GoesType DEF IInv, Label, File
  <2>3. table[fd[c]] = c
    BY <1>1 DEF IInv, OwnDescriptor
  <2>4. \A d \in Conn \ {c} : out'[d] = out[d]
    BY <1>1, <1>5, <2>3, WritesType DEF IInv, File
  <2>5. HelloOf(c)' /\ ~tls'[c]
    BY <1>1, <2>1, <2>2 DEF TlsInv, HelloOf
  <2> QED
    BY <1>1, <2>2, <2>4, <2>5, TlsFrame
<1>6. CASE s = 200 /\ ssl[c] /\ File(c)
  <2>1. "finish" \in Label \ {"none", "tlsRead"}
    BY DEF Label
  <2> QED
    BY <1>1, <1>6, <2>1, TlsMoves DEF IInv, File
<1>7. CASE UNCHANGED <<pc, out>>
  BY <1>1, <1>7 DEF TlsInv, HelloOf, ClearOf
<1> QED
  BY <1>2, <1>3, <1>4, <1>5, <1>6, <1>7 DEF Reply

(* Only plain connections come here.                                       *)
LEMMA TlsSends ==
  ASSUME IInv, TlsInv, NEW c \in Conn, SendChunk(c) \/ SendBreaks(c) PROVE TlsInv'
<1>1. /\ pc[c] = "sending" /\ UNCHANGED <<config, tls, said, inbox, ssl, line, out>>
      /\ \E l \in {"sending", "finish"}, o \in {Main, c} : Goes(c, l, o)
  BY DEF SendChunk, SendBreaks, Runs, Resumes, peer
<1>2. ~tls[c]
  BY <1>1 DEF TlsInv, ClearOf
<1>3. PICK l \in {"sending", "finish"}, o \in {Main, c} : Goes(c, l, o)
  BY <1>1
<1>4. l \in Label \ {"none", "tlsRead"} /\ o \in Conn \cup {Main}
  BY DEF Label
<1> QED
  BY <1>1, <1>2, <1>3, <1>4, TlsMoves DEF IInv

(* The handler's last step, with or without its SSL object.                *)
LEMMA TlsFinish == ASSUME IInv, TlsInv, NEW c \in Conn, Finish(c) PROVE TlsInv'
<1>1. /\ pc[c] = "finish" /\ UNCHANGED <<config, tls, said, inbox, line, out>>
      /\ Goes(c, "done", Main)
  BY DEF Finish, Runs, peer
<1> DEFINE on == table[fd[c]]
<1>2. on \in {c, None}
  BY <1>1 DEF IInv, OwnDescriptor
<1>3. ssl[c] => ~(on \in Conn /\ Secured(on))
  <2>1. ssl[c] /\ inbox[c] # <<>> => inbox[c][1] # "hello"
    <3>1. inbox[c] \in Seq({"hello", "request"})
      BY DEF IInv, TypeOK
    <3>2. inbox[c] # <<>> => 1 \in DOMAIN inbox[c]
      BY <3>1
    <3> QED
      BY <3>2 DEF TlsInv, HelloOf
  <2> QED
    BY <1>2, <2>1, ConnectionsAssumption DEF Secured
<1>4. ssl' = [ssl EXCEPT ![c] = @ /\ ~(on \in Conn /\ Secured(on))] /\ ssl \in [Conn -> BOOLEAN]
  BY DEF Finish, IInv, TypeOK
<1> HIDE DEF on
<1>5. ssl' = ssl
  BY <1>3, <1>4
<1>6. "done" \in Label \ {"none", "tlsRead"}
  BY DEF Label
<1> QED
  BY <1>1, <1>5, <1>6, TlsMoves DEF IInv

LEMMA TlsNext == ASSUME IInv, TlsInv, [Next]_vars PROVE TlsInv'
<1>1. CASE Next
  <2>1. PICK c \in Conn : Client(c) \/ Server(c)
    BY <1>1 DEF Next
  <2>2. CASE Client(c)
    BY <2>2, TlsConnect, TlsTalk, TlsLeave DEF Client
  <2>3. CASE Server(c)
    BY <2>3, TlsAccept, TlsStart, TlsPeek, TlsHandshake, TlsTlsRead, TlsReceive,
       TlsRespond, TlsSends, TlsFinish DEF Server
  <2> QED
    BY <2>1, <2>2, <2>3
<1>2. CASE UNCHANGED vars
  BY <1>2 DEF vars, TlsInv, HelloOf, ClearOf
<1> QED
  BY <1>1, <1>2

LEMMA TlsHolds == Spec => [](IInv /\ TlsInv)
<1>1. Init => TlsInv
  BY TlsInit
<1>2. IInv /\ TlsInv /\ [Next]_vars => TlsInv'
  BY TlsNext
<1> QED
  BY <1>1, <1>2, InvInit, InvNext, PTL DEF Spec

(* A client that speaks TLS never gets any part of a file in the clear,    *)
(* not even when its connection is read and answered like a plain one.     *)
THEOREM FilesNeverInClear == Spec => []FilesNotInClear
<1>1. TlsInv => FilesNotInClear
  BY DEF TlsInv, ClearOf, FilesNotInClear
<1> QED
  BY <1>1, TlsHolds, PTL
=============================================================================
