---------------------------- MODULE Connections ----------------------------
(***************************************************************************)
(* Connections: the accept loop (client_listener), one green thread per    *)
(* accepted connection (client_handler), and the file descriptors between  *)
(* them (src/socket/client.c, src/socket/async, src/protocol/http.c).      *)
(*                                                                         *)
(* A descriptor is a number, and a closed number is reused for the next    *)
(* connection.  Handlers are cooperative: between two yields a handler     *)
(* keeps the CPU, also while it waits in a recv on a blocking socket, for  *)
(* accept() does not inherit O_NONBLOCK from the listening socket.         *)
(***************************************************************************)
EXTENDS Request, Naturals, Sequences, FiniteSets

CONSTANTS
  Conn,       \* connections, and the handlers they are given to
  Fd,         \* descriptor numbers left for connections
  Requests,   \* the requests clients make
  Configs,    \* configurations: enable_ssl, allow_insecure, enforce
  Chunks,     \* chunks of BUFFER_SIZE in a response body
  Main,       \* the scheduler and the listener, as owner of the CPU
  Ring,       \* what a number stands for that an io_uring was left with
  None

Garbled == [form |-> "garbled", get |-> FALSE, safe |-> FALSE,
            object |-> "absent", slash |-> FALSE, descriptor |-> "none",
            page |-> "missing"]

ASSUME ConnectionsAssumption ==
  /\ Fd \subseteq Nat /\ IsFiniteSet(Fd)
  /\ Requests \subseteq AnyRequest
  /\ Configs \subseteq [ssl : BOOLEAN, insecure : BOOLEAN, enforce : BOOLEAN]
  /\ Chunks \in Nat \ {0}
  /\ Main \notin Conn /\ Ring \notin Conn
  /\ None \notin Conn \cup Fd \cup AnyRequest \cup {Ring}

VARIABLES
  config,    \* the global configuration
  client,    \* away, connected or left (has closed its end)
  tls,       \* does the client speak TLS?
  said,      \* how many messages it has sent
  inbox,     \* what it has sent and the server has not read
  backlog,   \* connections the kernel has queued for accept()
  table,     \* the open descriptors: the connection a number stands for
  cpu,       \* the handler that runs, or Main
  pc,        \* where a handler is in client_handler
  fd,        \* its client_socket
  ssl,       \* has it an SSL object?
  line,      \* the request line it has read
  sent,      \* chunks of the body it has sent
  out,       \* the status lines written to a connection
  up         \* the process has not crashed

vars == <<config, client, tls, said, inbox, backlog, table, cpu, pc,
          fd, ssl, line, sent, out, up>>
peer   == <<client, tls, said>>
kernel == <<backlog, table>>

Label == {"none", "start", "peek", "handshake", "tlsRead", "awaitIn",
          "awaitOut", "sending", "finish", "done"}

(* The state is well-formed; a client sends at most two messages.          *)
TypeOK ==
  /\ config \in Configs
  /\ client \in [Conn -> {"away", "connected", "left"}]
  /\ tls \in [Conn -> BOOLEAN]
  /\ said \in [Conn -> 0 .. 2]
  /\ inbox \in [Conn -> Seq({"hello", "request"})]
  /\ backlog \in Seq(Conn)
  /\ table \in [Fd -> Conn \cup {Ring, None}]
  /\ cpu \in Conn \cup {Main}
  /\ pc \in [Conn -> Label]
  /\ fd \in [Conn -> Fd \cup {None}]
  /\ ssl \in [Conn -> BOOLEAN]
  /\ line \in [Conn -> Requests \cup {Garbled, None}]
  /\ sent \in [Conn -> 0 .. Chunks]
  /\ out \in [Conn -> Seq({200, 301} \cup ErrorPages)]
  /\ up \in BOOLEAN

Init ==
  /\ config \in Configs
  /\ client = [c \in Conn |-> "away"]
  /\ tls = [c \in Conn |-> FALSE]
  /\ said = [c \in Conn |-> 0]
  /\ inbox = [c \in Conn |-> <<>>]
  /\ backlog = <<>>
  /\ table = [f \in Fd |-> None]
  /\ cpu = Main
  /\ pc = [c \in Conn |-> "none"]
  /\ fd = [c \in Conn |-> None]
  /\ ssl = [c \in Conn |-> FALSE]
  /\ line = [c \in Conn |-> None]
  /\ sent = [c \in Conn |-> 0]
  /\ out = [c \in Conn |-> <<>>]
  /\ up = TRUE

----------------------------------------------------------------------------
(* Clients                                                                 *)

Connect(c) ==
  /\ client[c] = "away"
  /\ client' = [client EXCEPT ![c] = "connected"]
  /\ \E t \in BOOLEAN : tls' = [tls EXCEPT ![c] = t]
  /\ backlog' = Append(backlog, c)
  /\ UNCHANGED <<config, said, inbox, table, cpu, pc, fd, ssl,
                 line, sent, out, up>>

(* A TLS client opens with its ClientHello and makes its request once the  *)
(* handshake is done; the other ones may send a second request line.       *)
Talk(c) ==
  /\ client[c] = "connected" /\ pc[c] # "done" /\ said[c] < 2
  /\ tls[c] /\ said[c] = 1 => ssl[c]
  /\ inbox' = [inbox EXCEPT ![c] =
        Append(@, IF tls[c] /\ said[c] = 0 THEN "hello" ELSE "request")]
  /\ said' = [said EXCEPT ![c] = @ + 1]
  /\ UNCHANGED <<config, client, tls, kernel, cpu, pc, fd, ssl, line,
                 sent, out, up>>

Leave(c) ==
  /\ client[c] = "connected" /\ pc[c] # "done"
  /\ client' = [client EXCEPT ![c] = "left"]
  /\ UNCHANGED <<config, tls, said, inbox, kernel, cpu, pc, fd, ssl,
                 line, sent, out, up>>

----------------------------------------------------------------------------
(* Scheduling and descriptors                                              *)

(* A handler that has not yielded goes on; the others are resumed by Main. *)
Runs(c, l)    == up /\ cpu = c /\ pc[c] = l
Resumes(c, l) == up /\ cpu = Main /\ pc[c] = l

(* The handler moves on to l, keeping the CPU or giving it up.             *)
Goes(c, l, owner) == pc' = [pc EXCEPT ![c] = l] /\ cpu' = owner

(* recv on a connection returns: data or end of file.                      *)
Readable(c) == inbox[c] # <<>> \/ client[c] = "left"

(* is_secured_connection: is the next byte that of a TLS handshake record? *)
Secured(c) == inbox[c] # <<>> /\ Head(inbox[c]) = "hello"

(* send to a descriptor: it reaches whatever the number stands for.        *)
Writes(c, status) ==
  LET to == table[fd[c]]
  IN  out' = IF to \in Conn THEN [out EXCEPT ![to] = Append(@, status)] ELSE out

(* close: what was open is t.                                              *)
Closes(c, t) == table' = [t EXCEPT ![fd[c]] = None]

(* The number the kernel gives out next, of those in t: the lowest free.   *)
NextFree(f, t) == t[f] = None /\ \A g \in Fd : t[g] = None => f <= g

(* There are not two free numbers.                                         *)
Scarce(t) == \A f, g \in Fd : t[f] = None /\ t[g] = None => f = g

(* Mutant of After: a ring is not closed after a file has been read.       *)
AfterNoExit(file, opened, t) ==
  IF file = "none" THEN t
  ELSE [f \in Fd |-> IF NextFree(f, t) THEN Ring ELSE t[f]]

(* read_file, as far as numbers go: if open fails it returns without       *)
(* closing its ring, for which there may have been a number.               *)
After(file, opened, t) ==
  IF file = "none" \/ opened THEN t
  ELSE [f \in Fd |-> IF NextFree(f, t) THEN Ring ELSE t[f]]

----------------------------------------------------------------------------
(* client_listener: accept the next connection on the lowest free number.  *)
(* Without a free one accept fails and the loop goes round.                *)
Accept(c) ==
  /\ up /\ cpu = Main /\ backlog # <<>> /\ c = Head(backlog)
  /\ \E f \in Fd :
        /\ NextFree(f, table)
        /\ table' = [table EXCEPT ![f] = c]
        /\ fd' = [fd EXCEPT ![c] = f]
  /\ backlog' = Tail(backlog)
  /\ Goes(c, "start", Main)
  /\ UNCHANGED <<config, peer, inbox, ssl, line, sent, out, up>>

(* Mutant of ErrorPage: the handler does not return and sends a file.      *)
ErrorPageNoReturn(c, status, t) ==
  Writes(c, status) /\ Closes(c, t) /\ Goes(c, "sending", Main)

(* The pages of http.c, after which the request is over.                   *)
ErrorPage(c, status, t) ==
  Writes(c, status) /\ Closes(c, t) /\ Goes(c, "finish", c)

(* Mutant of Redirect: the header is built but not sent.                   *)
RedirectUnsent(c) == Goes(c, "finish", c) /\ UNCHANGED out

Redirect(c) == Writes(c, 301) /\ Goes(c, "finish", c)

(* client_handler begins.  A plain connection that is not allowed gets the *)
(* 403 page, which closes it; the handler goes on all the same.            *)
Plain(c) ==
  IF config.insecure
  THEN Goes(c, "awaitIn", Main) /\ UNCHANGED <<table, out>>
  ELSE ErrorPage(c, 403, table)

Start(c) ==
  /\ Resumes(c, "start")
  /\ IF config.ssl THEN Goes(c, "peek", c) /\ UNCHANGED <<table, out>>
                   ELSE Plain(c)
  /\ UNCHANGED <<config, peer, inbox, backlog, fd, ssl, line, sent, up>>

(* is_secured_connection waits for the client's first byte.                *)
Peek(c) ==
  /\ Runs(c, "peek") /\ Readable(c)
  /\ IF Secured(c) THEN Goes(c, "handshake", c) /\ UNCHANGED <<table, out>>
                   ELSE Plain(c)
  /\ UNCHANGED <<config, peer, inbox, backlog, fd, ssl, line, sent, up>>

(* SSL_accept succeeds, or fails and the handler frees and closes.         *)
Handshake(c) ==
  /\ Runs(c, "handshake")
  /\ \/ /\ inbox' = [inbox EXCEPT ![c] = Tail(@)]
        /\ ssl' = [ssl EXCEPT ![c] = TRUE]
        /\ Goes(c, "tlsRead", c)
        /\ UNCHANGED table
     \/ /\ Closes(c, table) /\ Goes(c, "done", Main)
        /\ UNCHANGED <<inbox, ssl>>
  /\ UNCHANGED <<config, peer, backlog, fd, line, sent, out, up>>

(* The request has been read: a blank line is not answered; any other is,  *)
(* when the socket is writable.                                            *)
Take(c, r) ==
  /\ line' = [line EXCEPT ![c] = r]
  /\ IF r.form = "blank" THEN Goes(c, "finish", c) ELSE Goes(c, "awaitOut", Main)

TlsRead(c) ==
  /\ Runs(c, "tlsRead") /\ Readable(c)
  /\ IF inbox[c] = <<>>
     THEN Goes(c, "finish", c) /\ UNCHANGED <<line, inbox>>
     ELSE /\ \E r \in Requests : Take(c, r)
          /\ inbox' = [inbox EXCEPT ![c] = Tail(@)]
  /\ UNCHANGED <<config, peer, kernel, fd, ssl, sent, out, up>>

(* What recv finds: a ClientHello is no request line.                      *)
Received(c) == IF Secured(c) THEN {Garbled} ELSE Requests

(* Mutant of Receive: end of file is taken for "try again".                *)
ReceiveRetriesAtEof(c) ==
  /\ Resumes(c, "awaitIn") /\ inbox[c] # <<>>
  /\ \E r \in Received(c) : Take(c, r)
  /\ inbox' = [inbox EXCEPT ![c] = <<>>]
  /\ UNCHANGED <<config, peer, kernel, fd, ssl, sent, out, up>>

(* gtblockfd woke the handler; recv takes everything that has arrived.     *)
Receive(c) ==
  /\ Resumes(c, "awaitIn") /\ Readable(c)
  /\ IF inbox[c] = <<>>
     THEN Goes(c, "finish", c) /\ UNCHANGED line
     ELSE \E r \in Received(c) : Take(c, r)
  /\ inbox' = [inbox EXCEPT ![c] = <<>>]
  /\ UNCHANGED <<config, peer, kernel, fd, ssl, sent, out, up>>

(* Mutant of File: send_data does not ask for the SSL object.              *)
FileInTheClear(c) == Writes(c, 200) /\ Goes(c, "sending", c)

(* send_data: on TLS nothing is written, and -1 is reported.               *)
File(c) ==
  IF ssl[c] THEN Goes(c, "finish", c) /\ UNCHANGED out
            ELSE Writes(c, 200) /\ Goes(c, "sending", c)

(* The answer goes out, error pages and redirects in the clear; only the   *)
(* error pages close the descriptor.                                       *)
Reply(c, status, t) ==
  \/ status \in ErrorPages /\ ErrorPage(c, status, t) /\ UNCHANGED up
  \/ status = 301 /\ Redirect(c) /\ table' = t /\ UNCHANGED up
  \/ status = 200 /\ File(c) /\ table' = t /\ UNCHANGED up
  \/ status = Crash /\ up' = FALSE /\ UNCHANGED <<table, cpu, pc, out>>

(* send_file_request up to the response's header: the descriptor is read,  *)
(* and then what it leads to.                                              *)
Respond(c) ==
  /\ Resumes(c, "awaitOut")
  /\ \E described \in MayOpen(Beside(line[c]), Scarce(table)) :
       LET t == After(Beside(line[c]), described, table)
       IN  \/ \E q \in Governed(line[c], described) :
                LET file == Served(q, config.enforce)
                IN  \E opened \in MayOpen(file, Scarce(t)) :
                      \E status \in Answers(q, config.enforce, opened) :
                        Reply(c, status, After(file, opened, t))
           \/ /\ described /\ line[c].descriptor = "directory"
              /\ Reply(c, Crash, t)
  /\ UNCHANGED <<config, peer, inbox, backlog, fd, ssl, line, sent>>

(* Mutant of SendChunk: <= for <, one chunk too many.                      *)
SendChunkOnceMore(c) ==
  /\ Runs(c, "sending") \/ Resumes(c, "sending")
  /\ sent' = [sent EXCEPT ![c] = @ + 1]
  /\ IF sent[c] + 1 <= Chunks THEN Goes(c, "sending", Main)
                              ELSE Goes(c, "finish", c)
  /\ UNCHANGED <<config, peer, inbox, kernel, fd, ssl, line, out, up>>

(* send_buffered_bytes: a chunk, and a yield unless it was the last one.   *)
SendChunk(c) ==
  /\ Runs(c, "sending") \/ Resumes(c, "sending")
  /\ sent' = [sent EXCEPT ![c] = @ + 1]
  /\ IF sent[c] + 1 < Chunks THEN Goes(c, "sending", Main)
                             ELSE Goes(c, "finish", c)
  /\ UNCHANGED <<config, peer, inbox, kernel, fd, ssl, line, out, up>>

(* Mutant of SendBreaks: the failure is reported to the client.            *)
SendBreaksWith500(c) ==
  /\ Runs(c, "sending") \/ Resumes(c, "sending")
  /\ client[c] = "left"
  /\ ErrorPage(c, 500, table)
  /\ UNCHANGED <<config, peer, inbox, backlog, fd, ssl, line, sent, up>>

(* The client is gone and send fails.                                      *)
SendBreaks(c) ==
  /\ Runs(c, "sending") \/ Resumes(c, "sending")
  /\ client[c] = "left"
  /\ Goes(c, "finish", c)
  /\ UNCHANGED <<config, peer, inbox, kernel, fd, ssl, line, sent, out, up>>

(* The end of client_handler: is_secured_connection again, on a descriptor *)
(* that an error page may have closed (recv fails at once) and that may    *)
(* have nothing to read (recv waits), and the last close.                  *)
Finish(c) ==
  /\ Runs(c, "finish")
  /\ LET on == table[fd[c]]
     IN  /\ on \in Conn => Readable(on)
         /\ ssl' = [ssl EXCEPT ![c] = @ /\ ~(on \in Conn /\ Secured(on))]
  /\ Closes(c, table)
  /\ Goes(c, "done", Main)
  /\ UNCHANGED <<config, peer, inbox, backlog, fd, line, sent, out, up>>

----------------------------------------------------------------------------
Client(c) == Connect(c) \/ Talk(c) \/ Leave(c)

Server(c) ==
  \/ Accept(c) \/ Start(c) \/ Peek(c) \/ Handshake(c) \/ TlsRead(c)
  \/ Receive(c) \/ Respond(c) \/ SendChunk(c) \/ SendBreaks(c) \/ Finish(c)

Next == \E c \in Conn : Client(c) \/ Server(c)

Spec == Init /\ [][Next]_vars

(* The server's own fairness: what has the CPU runs on, and the run queue  *)
(* is a rotation, so what waits for its turn gets it.                      *)
ServerSpec == Spec /\ \A c \in Conn : SF_vars(Server(c))

(* Clients hang up in the end.                                             *)
FairSpec == ServerSpec /\ \A c \in Conn : WF_vars(Leave(c))

----------------------------------------------------------------------------
(* Properties                                                              *)

(* A descriptor number is closed twice on every error page, and numbers    *)
(* are reused: still a handler never holds another connection's number,    *)
(* and every open descriptor, but for rings, belongs to the handler that   *)
(* will close it.                                                          *)
OwnDescriptor ==
  /\ \A c \in Conn :
       /\ pc[c] \notin {"none", "finish", "done"} => table[fd[c]] = c
       /\ pc[c] = "finish" => table[fd[c]] \in {c, None}
  /\ \A f \in Fd :
       table[f] \in Conn => fd[table[f]] = f /\ pc[table[f]] \notin {"none", "done"}

(* A number is lost, and for good, only when a request is answered: one    *)
(* for its descriptor and one for its file or page, and only if one of     *)
(* them is locked, may be any file, or two numbers were not free.  What is *)
(* refused or redirected before costs none, and the last number is never   *)
(* lost, for the connection that asks has one of its own to give back.     *)
Rings == {f \in Fd : table[f] = Ring}
Openable(r) ==
  r.descriptor \notin {"locked", "directory"} /\ Content(r) # "locked"

NumbersLost ==
  [][Rings' # Rings =>
       /\ Rings' # Fd
       /\ \E f, g \in Fd : Rings' = Rings \cup {f, g}
       /\ \E c \in Conn :
            /\ pc[c] = "awaitOut" /\ pc'[c] \in {"sending", "finish"}
            /\ Openable(line[c]) => Scarce(table)
            /\ \A i \in DOMAIN out'[c] : out'[c][i] \in {200, 404, 500}]_vars

(* A connection is answered at most once, with an answer to the request    *)
(* that was read from it, or with the refusal of a plain connection: a 404 *)
(* for a file that is there, too, for numbers may have run out.            *)
OneAnswer ==
  \A c \in Conn :
    /\ Len(out[c]) <= 1
    /\ \A i \in DOMAIN out[c] :
         IF line[c] = None THEN out[c][i] = 403 /\ ~config.insecure
                           ELSE out[c][i] \in AnyResponse(line[c], config.enforce)

(* A request line that was read from a plain connection is answered before *)
(* the connection is closed.                                               *)
PlainAnswered ==
  \A c \in Conn :
    pc[c] = "done" /\ line[c] # None /\ ~tls[c] =>
      line[c].form = "blank" \/ Len(out[c]) = 1

(* And so is one that was read from a TLS connection; here even an answer  *)
(* in the clear would count, which no TLS client can read.                 *)
TlsAnswered ==
  \A c \in Conn :
    pc[c] = "done" /\ line[c] # None /\ tls[c] =>
      line[c].form = "blank" \/ Len(out[c]) = 1

(* No part of a file leaves the server in the clear for a client that      *)
(* speaks TLS, although error pages and redirects do, and although such a  *)
(* connection may be read, and closed, like a plain one.                   *)
FilesNotInClear ==
  \A c \in Conn : tls[c] =>
    pc[c] # "sending" /\ \A i \in DOMAIN out[c] : out[c][i] # 200

(* Once its clients hang up, the server accepts every connection and is    *)
(* done with it, unless it has crashed.                                    *)
EveryConnectionEnds ==
  \A c \in Conn : client[c] # "away" ~> pc[c] = "done" \/ ~up

(* A request that has arrived on a plain connection is taken up, whatever  *)
(* the other clients do: recv does not block.                              *)
Responsive ==
  \A c \in Conn :
    pc[c] = "awaitIn" /\ inbox[c] # <<>> ~> pc[c] # "awaitIn" \/ ~up
============================================================================
