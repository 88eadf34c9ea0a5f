------------------------------ MODULE Startup ------------------------------
(***************************************************************************)
(* Starting livefs: main (src/main.c), the search for a configuration and  *)
(* its creation, parsing and verification (src/config), and the listening  *)
(* socket (src/socket/server.c), up to the accept loop.                    *)
(*                                                                         *)
(* Several processes are started on one host.  They share the file         *)
(* ~/.config/livefs/config.cfg and the ports.  A configuration file beside *)
(* the executable comes first and is only read.  Signals arrive and        *)
(* processes are killed at any moment, and started again.                  *)
(***************************************************************************)
EXTENDS Integers, FiniteSets

CONSTANTS
  Process,
  Hosts,      \* the site: home, the ~/livefs directory, the file beside
  Texts,      \* configurations that users write
  PortSpace,  \* 2^16: htons keeps the low bits of a port
  None

(* A configuration: its keys as file_get_int and file_get_value read them, *)
(* where root is there, missing or ~/livefs, certs are what the two files  *)
(* turn out to be, and blank tells whether the text begins with a blank.   *)
Text == [port : Int, root : {"there", "missing", "livefs"}, ssl : Int,
         certs : {"good", "bad", "missing"}, blank : BOOLEAN]

(* DEFAULT_CONFIG, and a file that was created and not written.            *)
Default == [port |-> 8080, root |-> "livefs", ssl |-> 0, certs |-> "missing",
            blank |-> FALSE]
Empty   == [port |-> 0, root |-> "missing", ssl |-> 0, certs |-> "missing",
            blank |-> FALSE]

ASSUME StartupAssumption ==
  /\ Texts \subseteq Text /\ Texts \cap {Default, Empty} = {}
  /\ None \notin Text \cup Process
  /\ Hosts \subseteq [home : {"unset", "readonly", "writable"}, livefs : BOOLEAN,
                      beside : Texts \cup {None}]
  /\ PortSpace \in Nat \ {0}

VARIABLES
  host,
  file,     \* ~/.config/livefs/config.cfg, or None
  cut,      \* has a process that was stopped left the file empty?
  held,     \* the processes that have this file open for writing
  late,     \* those that have found no file, before a user wrote one
  pc,       \* where a process is in main
  found,    \* the configuration file it has decided on
  conf,     \* global_config
  port,     \* what its socket is bound to
  listens   \* the processes whose socket listens

(* What goes with a process.                                               *)
own  == <<held, late, port, listens>>
vars == <<host, file, cut, pc, found, conf, own>>

Ended   == {"off", "exited", "crashed", "killed"}
Running == {"find", "create", "fill", "parse", "open", "bind", "listen", "block",
            "loop", "stuck"}

(* A port of the kernel's choice, which no two sockets share.              *)
Chosen == -1

(* The state is well-formed, and a process that is not there has no socket.*)
TypeOK ==
  /\ host \in Hosts
  /\ file \in Texts \cup {Default, Empty, None}
  /\ cut \in BOOLEAN
  /\ held \subseteq {p \in Process : pc[p] = "fill"}
  /\ late \subseteq {p \in Process : pc[p] = "create"}
  /\ pc \in [Process -> Ended \cup Running]
  /\ found \in [Process -> {"beside", "home", "nothing"}]
  /\ conf \in [Process -> Texts \cup {Default, Empty, None}]
  /\ port \in [Process -> 0 .. PortSpace - 1 \cup {Chosen, None}]
  /\ listens \subseteq {p \in Process : pc[p] \in {"block", "loop", "stuck"}}
  /\ \A p \in Process : pc[p] \in Ended => port[p] = None

Init ==
  /\ host \in Hosts
  /\ file \in Texts \cup {None}
  /\ file # None => host.home # "unset"
  /\ cut = FALSE /\ held = {} /\ late = {}
  /\ pc = [p \in Process |-> "off"]
  /\ found = [p \in Process |-> "nothing"]
  /\ conf = [p \in Process |-> None]
  /\ port = [p \in Process |-> None]
  /\ listens = {}

----------------------------------------------------------------------------
At(p, l)   == pc[p] = l
Goes(p, l) == pc' = [pc EXCEPT ![p] = l]
Content(p) == CASE found[p] = "beside"  -> host.beside
                [] found[p] = "home"    -> file
                [] found[p] = "nothing" -> None

(* The process is gone, and the kernel closes its file and its socket.     *)
Gone(p, how) ==
  /\ Goes(p, how)
  /\ port' = [port EXCEPT ![p] = None]
  /\ held' = held \ {p} /\ late' = late \ {p}
  /\ listens' = listens \ {p}

(* exit() runs exitcall, whose clear_config reads global_config: without   *)
(* one the process dies there, before stdio writes out what it holds.      *)
(* Before the accept loop there is nothing in the caches to be freed.      *)
Exits(p) == Gone(p, IF conf[p] = None THEN "crashed" ELSE "exited")

(* In the accept loop server_free_all_cache may free what has been freed   *)
(* already, or wait for a lock that the interrupted thread itself holds    *)
(* (FileCache): then it is stuck in exit(), while other threads go on.  A  *)
(* second signal leaves exit(), which does not call exitcall again.        *)
ExitsLoop(p) ==
  \/ Exits(p)
  \/ Gone(p, "crashed")
  \/ Goes(p, "stuck") /\ UNCHANGED own

(* The file stays empty if its writer is stopped.                          *)
CutBy(p) == cut' = (cut \/ (p \in held /\ file = Empty))

----------------------------------------------------------------------------
(* The world around                                                        *)

(* A user puts a file in the place of the configuration, or removes it.    *)
(* Whoever is writing the old file goes on writing that one.               *)
Edit(t) ==
  /\ host.home # "unset"
  /\ file' = t /\ cut' = FALSE
  /\ held' = {} /\ late' = {p \in Process : At(p, "create")}
  /\ UNCHANGED <<host, pc, found, conf, port, listens>>

(* graious_shutdown, for SIGINT and SIGTERM                                *)
Signal(p) ==
  /\ pc[p] \in Running
  /\ IF At(p, "loop") THEN ExitsLoop(p) ELSE Exits(p)
  /\ CutBy(p)
  /\ UNCHANGED <<host, file, found, conf>>

Kill(p) ==
  /\ pc[p] \in Running
  /\ Gone(p, "killed") /\ CutBy(p)
  /\ UNCHANGED <<host, file, found, conf>>

(* What the other modules find can end the process while it serves, and    *)
(* while it is stuck in exit(), with threads that use what has been freed. *)
Crash(p) ==
  /\ pc[p] \in {"loop", "stuck"}
  /\ Gone(p, "crashed")
  /\ UNCHANGED <<host, file, cut, found, conf>>

Start(p) ==
  /\ pc[p] \in Ended
  /\ Goes(p, "find")
  /\ found' = [found EXCEPT ![p] = "nothing"]
  /\ conf' = [conf EXCEPT ![p] = None]
  /\ UNCHANGED <<host, file, cut, own>>

----------------------------------------------------------------------------
(* get_config_file_dir                                                     *)

(* Mutant of Find: the file in the home directory is not looked for.       *)
FindCreates(p) ==
  /\ At(p, "find")
  /\ IF host.beside # None
     THEN found' = [found EXCEPT ![p] = "beside"] /\ Goes(p, "parse")
     ELSE Goes(p, "create") /\ UNCHANGED found
  /\ UNCHANGED <<host, file, cut, conf, own>>

Find(p) ==
  /\ At(p, "find")
  /\ IF host.beside # None
     THEN found' = [found EXCEPT ![p] = "beside"] /\ Goes(p, "parse")
     ELSE IF file # None
     THEN found' = [found EXCEPT ![p] = "home"] /\ Goes(p, "parse")
     ELSE Goes(p, "create") /\ UNCHANGED found
  /\ UNCHANGED <<host, file, cut, conf, own>>

(* create_config_directory, and the fopen of create_config_file, which     *)
(* empties a file that somebody has created in between.  Without a place   *)
(* for the directory there is no path: read_file fails.                    *)
Create(p) ==
  /\ At(p, "create")
  /\ late' = late \ {p}
  /\ IF host.home = "writable"
     THEN file' = Empty /\ cut' = FALSE /\ held' = held \cup {p} /\ Goes(p, "fill")
     ELSE Goes(p, "parse") /\ UNCHANGED <<file, cut, held>>
  /\ UNCHANGED <<host, found, conf, port, listens>>

(* Mutant of Fill: the file is not closed.                                 *)
FillBuffered(p) ==
  /\ At(p, "fill")
  /\ found' = [found EXCEPT ![p] = "home"]
  /\ held' = held \ {p}
  /\ Goes(p, "parse")
  /\ UNCHANGED <<host, file, cut, conf, late, port, listens>>

(* fclose writes the file out, if it still is the configuration.           *)
Fill(p) ==
  /\ At(p, "fill")
  /\ IF p \in held THEN file' = Default /\ cut' = FALSE
                    ELSE UNCHANGED <<file, cut>>
  /\ held' = held \ {p}
  /\ found' = [found EXCEPT ![p] = "home"]
  /\ Goes(p, "parse")
  /\ UNCHANGED <<host, conf, late, port, listens>>

----------------------------------------------------------------------------
(* create_global_config_structure                                          *)

(* path_exists(parse_config_root_path())                                   *)
RootExists(c) == c.root = "there" \/ (c.root = "livefs" /\ host.livefs)

(* Mutants of Verified: the root is not looked at; the certificates are    *)
(* not.                                                                    *)
VerifiedNoRoot(c)  == c.port >= 0 /\ (c.ssl # 0 => c.ssl = 1 /\ c.certs # "missing")
VerifiedNoCerts(c) == c.port >= 0 /\ RootExists(c)

(* verify_config; the paths of the certificates are only read if           *)
(* enable_ssl is 1.                                                        *)
Verified(c) ==
  /\ c.port >= 0 /\ RootExists(c)
  /\ c.ssl # 0 => c.ssl = 1 /\ c.certs # "missing"

(* A text that cannot be read is dereferenced by the first file_get_int,   *)
(* for a global_config that is all zeros.  get_config_file frees a text    *)
(* that begins with a blank; the configuration is read from what is left   *)
(* of it there, and then the pointer into it is freed, before anything is  *)
(* verified.                                                               *)
Parse(p) ==
  /\ At(p, "parse")
  /\ conf' = [conf EXCEPT ![p] = IF Content(p) = None THEN Empty ELSE Content(p)]
  /\ IF Content(p) = None \/ Content(p).blank THEN Gone(p, "crashed")
     ELSE IF Verified(Content(p)) THEN Goes(p, "open") /\ UNCHANGED own
     ELSE Gone(p, "exited")
  /\ UNCHANGED <<host, file, cut, found>>

----------------------------------------------------------------------------
(* The listening socket                                                    *)

(* server_create_socket may fail; initSSL fails on certificates that are   *)
(* no good, and copies a path that is NULL if enable_ssl is not 1.         *)
Open(p) ==
  /\ At(p, "open")
  /\ \/ Exits(p)
     \/ CASE conf[p].ssl = 0 \/ (conf[p].ssl = 1 /\ conf[p].certs = "good")
                              -> Goes(p, "bind") /\ UNCHANGED own
          [] conf[p].ssl = 1 /\ conf[p].certs # "good" -> Exits(p)
          [] conf[p].ssl \notin {0, 1}                 -> Gone(p, "crashed")
  /\ UNCHANGED <<host, file, cut, found, conf>>

(* Mutant of Wanted: the port is not cut to 16 bits.                       *)
WantedWhole(p) == conf[p].port

(* htons                                                                   *)
Wanted(p) == conf[p].port % PortSpace
Taken(n) == \E q \in listens : port[q] = n

(* server_bind_socket: port 0 leaves the choice to the kernel; a port on   *)
(* which another socket listens cannot be had, which is only printed.      *)
Bind(p) ==
  /\ At(p, "bind")
  /\ port' = [port EXCEPT ![p] = IF Wanted(p) = 0 THEN Chosen
                                 ELSE IF Taken(Wanted(p)) THEN None ELSE Wanted(p)]
  /\ Goes(p, "listen")
  /\ UNCHANGED <<host, file, cut, held, late, found, conf, listens>>

(* server_listen: a socket that is not bound gets a port of the kernel's   *)
(* choice.  If another process has begun to listen on the port, the socket *)
(* is closed and main goes on.                                             *)
Listen(p) ==
  /\ At(p, "listen") /\ Goes(p, "block")
  /\ IF port[p] \notin {None, Chosen} /\ Taken(port[p])
     THEN port' = [port EXCEPT ![p] = None] /\ UNCHANGED listens
     ELSE /\ port' = [port EXCEPT ![p] = IF @ = None THEN Chosen ELSE @]
          /\ listens' = listens \cup {p}
  /\ UNCHANGED <<host, file, cut, held, late, found, conf>>

(* Mutant of Block: a closed socket is waited for.                         *)
BlockWaits(p) ==
  /\ At(p, "block") /\ p \in listens /\ Goes(p, "loop")
  /\ UNCHANGED <<host, file, cut, found, conf, own>>

(* The first gtblockfd of client_listener: epoll_ctl on a closed           *)
(* descriptor fails, and the process exits.                                *)
Block(p) ==
  /\ At(p, "block")
  /\ IF p \in listens THEN Goes(p, "loop") /\ UNCHANGED own
                      ELSE Exits(p)
  /\ UNCHANGED <<host, file, cut, found, conf>>

----------------------------------------------------------------------------
Main(p) ==
  \/ Find(p) \/ Create(p) \/ Fill(p) \/ Parse(p)
  \/ Open(p) \/ Bind(p) \/ Listen(p) \/ Block(p)

World ==
  \/ \E t \in Texts \cup {None} : Edit(t)
  \/ \E p \in Process : Start(p) \/ Signal(p) \/ Kill(p) \/ Crash(p)

Next == World \/ \E p \in Process : Main(p)

Spec == Init /\ [][Next]_vars

(* A process that runs goes on.                                            *)
FairSpec == Spec /\ \A p \in Process : WF_vars(Main(p))

----------------------------------------------------------------------------
(* Properties                                                              *)

(* A server that serves has a verified configuration and a socket that     *)
(* listens, although failures of bind and listen are only printed, and     *)
(* although the file it reads may be cut short by another start, by a kill *)
(* or by a signal; and no two servers listen on one configured port.       *)
ServesVerified ==
  \A p \in Process : At(p, "loop") =>
    /\ conf[p] \notin {Empty, None} /\ RootExists(conf[p])
    /\ p \in listens
    /\ \A q \in listens \ {p} : port[p] = Chosen \/ port[p] # port[q]

(* A process crashes only before it has a verified configuration, or in    *)
(* its accept loop: what verify_config has let pass does not crash the     *)
(* rest of main, and from there to the loop every failure and every signal *)
(* leads to an orderly exit.                                               *)
CrashesUnverified ==
  [][\A p \in Process : ~At(p, "crashed") /\ At(p, "crashed")' =>
       conf[p] = None \/ pc[p] \in {"loop", "stuck"}]_vars

(* A generated file is empty only while it is being written, or if one who *)
(* wrote it was stopped after emptying it.                                 *)
WholeUnlessStopped == file = Empty => cut \/ held # {}

(* A start overwrites what a user wrote only if it was written after this  *)
(* process had looked for it.                                              *)
KeepsUserConfig ==
  [][file' # file /\ file \in Texts =>
       \/ \E t \in Texts \cup {None} : Edit(t)
       \/ \E p \in late : Create(p)]_vars

(* Every start ends in the accept loop, or in an end.                      *)
EveryStartEnds ==
  \A p \in Process :
    pc[p] \in Running \ {"stuck"} ~> pc[p] \in Ended \cup {"loop"}
============================================================================
