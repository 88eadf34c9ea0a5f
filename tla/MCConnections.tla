--------------------------- MODULE MCConnections ---------------------------
(* Instances of Connections for TLC.                                       *)
EXTENDS Connections

Line == [form |-> "line", get |-> TRUE, safe |-> TRUE, object |-> "file",
         slash |-> FALSE, descriptor |-> "shows", page |-> "there"]

(* Asked for by a path without a trailing slash that leads nowhere: 301.   *)
NoSuchPath == [Line EXCEPT !.object = "absent"]

(* A directory whose descriptor is a directory, too: it may be hidden or   *)
(* shown by any page, and reading it may end the process.                  *)
AnyPage ==
  [Line EXCEPT !.object = "directory", !.slash = TRUE, !.descriptor = "directory"]

(* The server must open neither the descriptor nor the page: 404, and two  *)
(* rings are left.                                                         *)
LockedDirectory ==
  [Line EXCEPT !.object = "directory", !.slash = TRUE, !.descriptor = "locked",
               !.page = "locked"]

BlankLine == [Line EXCEPT !.form = "blank"]

EachOutcome == {Line, LockedDirectory, AnyPage, NoSuchPath, BlankLine}
FileOnly == {Line}

(* TLS beside plain connections, where plain ones are allowed and where    *)
(* they are not.                                                           *)
MixedModes ==
  {[ssl |-> TRUE, insecure |-> TRUE,  enforce |-> FALSE],
   [ssl |-> TRUE, insecure |-> FALSE, enforce |-> TRUE]}

EachMode ==
  MixedModes \cup {[ssl |-> FALSE, insecure |-> TRUE, enforce |-> FALSE]}
PlainOnly == [ssl : {FALSE}, insecure : {TRUE}, enforce : {FALSE}]
WithTls   == [ssl : {TRUE}, insecure : BOOLEAN, enforce : {FALSE}]
============================================================================
