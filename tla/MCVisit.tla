------------------------------ MODULE MCVisit ------------------------------
(* Instances of Visit for TLC.                                             *)
EXTENDS Visit

Texts(pieces, n) == UNION {[1 .. k -> pieces] : k \in 0 .. n}

(* A descriptor that is a directory.                                       *)
Nested == <<"directory">>

(* A site in the directory top: a page, a file, a locked file and a        *)
(* directory with a page, a file, and a descriptor if there is a text.     *)
Disk(top, text) ==
  LET of(names, contents) == [p \in {top \o n : n \in names} |-> contents]
      d == <<"/", "d">>
  IN  of({<<"/", "index.html">>, <<"/", "f">>, d \o <<"/", "index.html">>,
          d \o <<"/", "f">>}, <<>>)
      @@ of({<<"/", "f", "f">>}, Locked)
      @@ IF text = None THEN <<>>
         ELSE LET names == {d \o <<"/", "d", ".cfg">>, <<"/">> \o AfterSlash(top) \o <<".cfg">>}
             IN  IF text = Nested THEN of({n \o <<"/", "f">> : n \in names}, <<>>)
                 ELSE of(names, text)

Site(root, top, text, enforces, path) ==
  [root |-> root, enforce |-> enforces, target |-> path, disk |-> Disk(top, text)]

Pieces == {"/", "~", "?", "..", "h", "d", "f", "index.html", ".cfg", "HTTP", "1.1"}
MCHome == <<"/", "h">>

(* Every target of four pieces on a site that is spelt in four ways, with  *)
(* no descriptors, hiding ones, ones that name a page, and ones that       *)
(* cannot be opened or read.                                               *)
Roots == {<<"~">>, <<"~", "/", "/">>, <<"/", "h">>}
Descriptors ==
  {None, Locked, Nested, <<"#", " ", "hidden", " ", "=", " ", "0", "\n", "hidden", " ", "=", " ", "1">>,
   <<"\n", "hidden", "=", "0", "\n", "page", "=", " ", "f", " ">>}
Targets == (Texts({"/", "d", "f", "?"}, 4) \ {<<>>}) \cup {<<"/", "..", "/", "f">>}

(* Targets about as long as a path and a version are.                      *)
LongTargets ==
  {<<"/", "d">> \o [i \in 1 .. n |-> "f"] : n \in 3 .. 10}
  \cup {<<"/", "d">> \o [i \in 1 .. n |-> "/"] : n \in 3 .. 10}
  \cup {[i \in 1 .. n |-> "/"] \o <<"d">> : n \in 3 .. 10}

AnyTarget ==
  {Site(r, MCHome, x, e, t) :
     r \in Roots, x \in Descriptors, e \in BOOLEAN, t \in Targets}
  \cup {Site(<<"/">>, <<>>, x, e, t) :
          x \in Descriptors, e \in BOOLEAN, t \in Targets}

(* A line for a longer name in front of the line for the key, and behind.  *)
Longer(key, value, other) ==
  LET own  == <<key, "=", value>>
      note == <<key, "_note", "=", other>>
  IN  {note \o <<"\n">> \o own, own \o <<"\n">> \o note}

(* Every descriptor of four pieces, over a directory and a file in it.     *)
AnyText ==
  {Site(<<"~">>, MCHome, x, TRUE, t) :
     x \in Texts({"hidden", "=", " ", "#", "\n", "1"}, 4)
           \cup Texts({"hidden", "=", " ", "#", "\n", "0"}, 4)
           \cup Texts({"page", "=", " ", "#", "\n", "f"}, 4)
           \cup Longer("hidden", "1", "0") \cup Longer("hidden", "0", "1")
           \cup Longer("page", "f", "index.html"),
     t \in {<<"/", "d", "/">>, <<"/", "d", "/", "f">>}}

AnyLength ==
  {Site(<<"~">>, MCHome, x, FALSE, t) : x \in Descriptors, t \in LongTargets}

TargetsAndTexts == AnyTarget \cup AnyText \cup AnyLength
============================================================================
