------------------------------- MODULE Paths -------------------------------
(***************************************************************************)
(* The path functions of src/filesystem/filepath.c, src/utils/path.c and   *)
(* src/socket/request_arguement.c.  A path is a sequence of pieces: "/",   *)
(* "~", "?" and pieces of names, so that the name d.cfg is "d" and ".cfg". *)
(***************************************************************************)
EXTENDS Naturals, SequencesExt

LastSlash(p)  == SelectLastInSeq(p, LAMBDA x : x = "/")
AfterSlash(p) == SubSeq(p, LastSlash(p) + 1, Len(p))

(* Trailing slashes are removed, but not the only character.               *)
Trimmed(p) ==
  IF Len(p) <= 1 THEN p
  ELSE SubSeq(p, 1, Max({1, SelectLastInSeq(p, LAMBDA x : x # "/")}))

(* normalize_path: a slash is not copied behind one that was.              *)
Copied(q, x) == IF x = "/" /\ q # <<>> /\ Last(q) = "/" THEN q ELSE Append(q, x)

Normalised(p) ==
  LET upTo[n \in 0 .. Len(p)] == IF n = 0 THEN <<>> ELSE Copied(upTo[n - 1], p[n])
  IN  upTo[Len(p)]

(* strip_arguemnts_buf: the path up to the first question mark.            *)
Stripped(p) ==
  LET mark == SelectInSeq(p, LAMBDA x : x = "?")
  IN  IF mark = 0 THEN p ELSE SubSeq(p, 1, mark - 1)

(* parse_config_root_path: ~ stands for the home directory, which is       *)
(* printed as (null) if there is none.                                     *)
RootPath(root, home) ==
  IF root = <<>> THEN <<>>
  ELSE Trimmed(IF Head(root) = "~" THEN home \o Tail(root) ELSE root)

(* Mutant of BuildFilePath: the leading slash is not skipped.              *)
BuildFilePathNoSkip(root, request) ==
  LET rest == IF request = <<>> THEN <<"index.html">> ELSE request
  IN  Stripped(Normalised(root \o <<"/">> \o rest))

(* build_file_path                                                         *)
BuildFilePath(root, request) ==
  LET name == IF request # <<>> /\ Head(request) = "/" THEN Tail(request)
                                                       ELSE request
      rest == IF name = <<>> THEN <<"index.html">> ELSE name
  IN  IF root = <<>> THEN <<>> ELSE Stripped(Normalised(root \o <<"/">> \o rest))

(* Mutant of ParentDirectory: trailing slashes are removed first, as the   *)
(* loop seems to mean.                                                     *)
ParentDirectoryTrimmed(p) ==
  LET last == LastSlash(Trimmed(p))
  IN  IF last = 0 THEN <<"(null)">> ELSE SubSeq(p, 1, last)

(* get_parent_directory_path: the path up to its last slash.  The loop     *)
(* that removes trailing slashes writes its zero one place too far and     *)
(* leaves one slash: a path that ends in one is its own parent.            *)
ParentDirectory(p) ==
  LET q == IF Trimmed(p) = p THEN p ELSE Append(Trimmed(p), "/")
  IN  IF LastSlash(q) = 0 THEN <<"(null)">> ELSE SubSeq(q, 1, LastSlash(q))

(* get_file_directory_name: the name of the directory, or of the directory *)
(* the file is in.                                                         *)
DirectoryName(p, isDirectory) ==
  LET t == Trimmed(p)
  IN  IF isDirectory THEN AfterSlash(t)
      ELSE IF LastSlash(t) = 0 THEN <<>>
      ELSE AfterSlash(SubSeq(t, 1, LastSlash(t) - 1))

(* build_descriptor_path, for a path that can be stat'ed.                  *)
DescriptorPath(p, isDirectory) ==
  ParentDirectory(p) \o DirectoryName(p, isDirectory) \o <<".cfg">>
============================================================================
