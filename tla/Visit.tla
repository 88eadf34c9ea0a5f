------------------------------- MODULE Visit -------------------------------
(***************************************************************************)
(* A visit: a browser asks for a path and follows the redirects it gets.   *)
(* send_file_request (src/filesystem/send.c) answers as Request says, and  *)
(* what Request takes as given is computed here from the path, the disk    *)
(* and the texts of the directory descriptors.                             *)
(***************************************************************************)
EXTENDS Request, Lists, Paths, Keys

CONSTANTS
  Piece,     \* what paths are made of
  Home,      \* the home directory
  PathSize,      \* the size of request_t's path, in pieces (255 characters)
  VersionSize,   \* what fits into its version, in pieces (15 characters)
  Visits,    \* the configured root, enforce, the disk and the first target
  MaxHops,   \* redirects a browser follows
  None

(* The text of a file that the server must not open.                       *)
Locked == <<"locked">>

(* The version in a request line.                                          *)
Version == <<"HTTP", "/", "1.1">>

ASSUME VisitAssumption ==
  /\ MaxHops \in Nat /\ None \notin Nat
  /\ PathSize \in Nat \ {0} /\ VersionSize \in Nat /\ Len(Version) <= VersionSize
  /\ {"/", "index.html", ".cfg", "HTTP", "1.1"} \subseteq Piece
  /\ Home \in Seq(Piece) \ {<<>>}
  /\ \A v \in Visits :
       /\ DOMAIN v = {"root", "enforce", "disk", "target"}
       /\ v.enforce \in BOOLEAN
       /\ {v.root, v.target} \cup DOMAIN v.disk \subseteq Seq(Piece) \ {<<>>}
       /\ \A f \in DOMAIN v.disk :
            f[1] = "/" /\ Last(f) # "/" /\ v.disk[f] \in Seq(STRING)

VARIABLES
  visit,     \* the site and the first target
  target,    \* the path of the request
  answer,    \* the status of the response, or None before it
  hops       \* redirects followed

vars == <<visit, target, answer, hops>>

(* parse_request_structure: a path that fills its array has no end, and    *)
(* runs on in the version behind it.  That is the request's version, or,   *)
(* when the path was longer, more of the path; what is left is lost.       *)
Received(t) ==
  IF Len(t) = PathSize THEN t \o Version
  ELSE IF Len(t) <= PathSize + VersionSize THEN t
  ELSE SubSeq(t, 1, PathSize + VersionSize)

Init ==
  /\ visit \in Visits
  /\ target = Received(visit.target)
  /\ answer = None
  /\ hops = 0

----------------------------------------------------------------------------
(* The disk: the texts of its files by their paths.                        *)

Files == DOMAIN visit.disk
Directories ==
  {<<"/">>} \cup
  UNION {{SubSeq(f, 1, i - 1) : i \in {j \in 2 .. Len(f) : f[j] = "/"}} : f \in Files}

(* is_directory and path_exists; and can the file be opened?               *)
Kind(p) ==
  LET q == Normalised(p)
  IN  IF q \in Files THEN IF visit.disk[q] = Locked THEN "locked" ELSE "file"
      ELSE IF q # <<>> /\ Trimmed(q) \in Directories THEN "directory"
      ELSE "absent"

----------------------------------------------------------------------------
(* send_file_request                                                       *)

FilePath(t) == BuildFilePath(RootPath(visit.root, Home), t)

(* read_descriptor_file; to open a file, doubled slashes are one.  Only a  *)
(* descriptor that is a file has a text; what comes of the others, and of  *)
(* a locked one, Request says.                                             *)
DescriptorFile(p) == DescriptorPath(p, Kind(p) = "directory")
HasDescriptor(p)  == Kind(p) # "absent" /\ Kind(DescriptorFile(p)) = "file"
DescriptorText(p) == visit.disk[Normalised(DescriptorFile(p))]

Governs(p) ==
  IF Kind(p) = "absent" \/ Kind(DescriptorFile(p)) = "absent" THEN "none"
  ELSE IF ~HasDescriptor(p) THEN Kind(DescriptorFile(p))
  ELSE IF FileInt(DescriptorText(p), "hidden") = 1 THEN "hides"
  ELSE "shows"

PagePath(p) ==
  p \o IF HasDescriptor(p) THEN TrimBlanks(FileValue(DescriptorText(p), "page"))
                           ELSE <<"index.html">>

PageKind(p) ==
  CASE Kind(PagePath(p)) = "file"      -> "there"
    [] Kind(PagePath(p)) = "absent"    -> "missing"
    [] OTHER                           -> Kind(PagePath(p))

(* Mutant of EndsInSlash: the file path is looked at.                      *)
EndsInSlashStripped(t) == Last(FilePath(t)) = "/"

(* The slash is looked for in the request's path, arguments included.      *)
EndsInSlash(t) == Last(t) = "/"

Features(t) ==
  LET p == FilePath(t)
  IN  [form |-> "line", get |-> TRUE,
       safe |-> \A i \in DOMAIN t : t[i] \notin {"..", "~"},
       object |-> Kind(p), slash |-> EndsInSlash(t),
       descriptor |-> Governs(p), page |-> PageKind(p)]

Ask ==
  /\ answer = None
  /\ answer' \in Responses(Features(target), visit.enforce, FALSE)
  /\ UNCHANGED <<visit, target, hops>>

(* http_redirect: the location is the request's path and a slash.          *)
Follow ==
  /\ answer = 301 /\ hops < MaxHops
  /\ target' = Received(Append(target, "/"))
  /\ answer' = None
  /\ hops' = hops + 1
  /\ UNCHANGED visit

Next == Ask \/ Follow

Spec == Init /\ [][Next]_vars

----------------------------------------------------------------------------
(* Properties                                                              *)

(* The names a path leads through: what lies between its slashes.          *)
With(names, begins, x) ==
  IF x = "/" THEN names
  ELSE IF begins THEN Append(names, <<x>>)
  ELSE [names EXCEPT ![Len(names)] = Append(@, x)]

Names(p) ==
  LET upTo[n \in 0 .. Len(p)] ==
        IF n = 0 THEN <<>> ELSE With(upTo[n - 1], n = 1 \/ p[n - 1] = "/", p[n])
  IN  upTo[Len(p)]

EndsOpen(p) == p = <<>> \/ Last(p) = "/"
Plain == "?" \notin ToSet(target) /\ Features(target).safe

(* A redirect leads to an answer: the slash it adds is where the next      *)
(* request is looked at for it, also behind arguments, and a path that     *)
(* leads nowhere is redirected once like a directory.  That holds of a     *)
(* target that ends before the path's array does, with the slash: one that *)
(* fills it is read with the version behind it, and one too long for both  *)
(* loses the slash each time, and is redirected for ever.                  *)
OneRedirect == Len(visit.target) + 1 < PathSize => (answer = 301 => hops = 0)

(* Every way to write a target leads through the same names below the      *)
(* root, in one spelling, for the caches compare spellings: however the    *)
(* root and the target spell their slashes, and whatever the arguments.    *)
(* Only the bare slash stands for index.html.                              *)
OneSpelling ==
  LET p     == FilePath(target)
      asked == IF target = <<"/">> THEN <<"index.html">> ELSE Stripped(target)
  IN  /\ Names(p) = Names(RootPath(visit.root, Home)) \o Names(asked)
      /\ \A i \in 1 .. Len(p) - 1 : <<p[i], p[i + 1]>> # <<"/", "/">>
      /\ EndsOpen(p) <=> EndsOpen(asked)

(* A directory is governed by the descriptor inside it, a file by the one  *)
(* beside it, and that descriptor has the directory's name.  It takes the  *)
(* slash that get_parent_directory_path means to remove.  Said of targets  *)
(* without arguments: with a "?" the code may look for another one.        *)
OwnDirectory ==
  LET p  == FilePath(target)
      at == IF Kind(p) = "directory" THEN Names(p) ELSE Front(Names(p))
      name == IF at = <<>> THEN <<>> ELSE Last(at)
  IN  Plain /\ Kind(p) # "absent" /\ answer \notin {None, 301} =>
        Names(DescriptorFile(p)) = Append(at, Append(name, ".cfg"))

(* What an owner writes holds: nothing of the directory is served if the   *)
(* line for the key "hidden" says 1, and every file of it if it says 0,    *)
(* wherever the line stands, and whatever comments and later lines say,    *)
(* those for longer names included.  A line for a longer name before it is *)
(* taken for the key's own, which hides nothing: there it is not said.  It *)
(* is said of targets without arguments.                                   *)
Into(lines, x) ==
  IF x = "\n" THEN Append(lines, <<>>) ELSE [lines EXCEPT ![Len(lines)] = Append(@, x)]

Lines(text) ==
  LET upTo[n \in 0 .. Len(text)] ==
        IF n = 0 THEN << <<>> >> ELSE Into(upTo[n - 1], text[n])
  IN  upTo[Len(text)]

BeginsWith(line, key) == line # <<>> /\ line[1] = key

Says(text, key, value) ==
  LET lines == Lines(text)
  IN  \E i \in DOMAIN lines :
        /\ BeginsWith(lines[i], key) /\ Without(lines[i], " ") = <<key, "=", value>>
        /\ \A j \in 1 .. i - 1 : ~BeginsWith(lines[j], key)

HiddenAsWritten ==
  LET p == FilePath(target)
  IN  Plain /\ HasDescriptor(p) /\ answer \notin {None, 301} =>
        /\ Says(DescriptorText(p), "hidden", "1") => answer = 404
        /\ Says(DescriptorText(p), "hidden", "0") /\ Kind(p) = "file" => answer = 200

(* A directory that is not hidden is shown by the file its descriptor      *)
(* names in the first line that begins with "page", with as many blanks    *)
(* around the name as its owner likes; if there is none, it is not found.  *)
PageAsWritten ==
  LET p    == FilePath(target)
      text == DescriptorText(p)
  IN  /\ Plain /\ Governs(p) = "shows" /\ answer \notin {None, 301}
      /\ Kind(p) = "directory"
      => \A name \in ToSet(text) \ Blank : Says(text, "page", name) =>
           /\ Kind(p \o <<name>>) = "file" => answer = 200
           /\ Kind(p \o <<name>>) \in {"absent", "locked"} => answer = 404
============================================================================
