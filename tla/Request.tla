------------------------------ MODULE Request ------------------------------
(***************************************************************************)
(* How send_file_request (src/filesystem/send.c) decides what to answer.   *)
(* A request line is abstracted to what its early returns look at: its     *)
(* form, the file system object its path leads to, the descriptor file     *)
(* that governs it and the page a directory is shown by.                   *)
(***************************************************************************)

(* What is locked is there for stat, and open fails.                       *)
Object     == {"file", "locked", "directory", "absent"}
Descriptor == {"none", "locked", "directory", "hides", "shows"}

(* A page that is a directory is what an empty or missing "page" key gives *)
Page == {"there", "locked", "missing", "tooLong", "directory"}

(* The slash is the last character of the request's path, arguments        *)
(* included; the object is what the path without them leads to.            *)
AnyRequest ==
  [form : {"line", "garbled", "blank"}, get : BOOLEAN, safe : BOOLEAN,
   object : Object, slash : BOOLEAN, descriptor : Descriptor, page : Page]

(* The error pages of http.c close the socket after they have sent it.     *)
ErrorPages == {400, 403, 404, 405, 500}

(* Reading a directory fails in io_uring, read_file copies and frees the   *)
(* buffer it has just freed, and the process aborts or serves the copy.    *)
Crash  == 0
Status == {200, 301, Crash} \cup ErrorPages

(* is_directory is -1, which is true, for a path that cannot be stat'ed.   *)
IsDirectory(r) == r.object \in {"directory", "absent"}

(* parse_request_structure, validate_request and the redirect let it pass. *)
Reaches(r) ==
  r.form = "line" /\ r.get /\ r.safe /\ (IsDirectory(r) => r.slash)

(* The descriptor read_descriptor_file reads beside an object: none,       *)
(* locked, or there.                                                       *)
Beside(r) ==
  CASE ~Reaches(r) \/ r.object = "absent" \/ r.descriptor = "none" -> "none"
    [] Reaches(r) /\ r.object # "absent" /\ r.descriptor = "locked" -> "locked"
    [] OTHER                                                       -> "there"

(* What a request asks for when that descriptor has been read, or not: one *)
(* that could not be opened is none, and the page is index.html, whatever  *)
(* that is; the text of a directory may hide it and name any page.         *)
By(r, d, p) == [r EXCEPT !.descriptor = d, !.page = p]

Governed(r, described) ==
  IF Beside(r) # "there" THEN {By(r, "none", r.page)}
  ELSE IF ~described THEN {By(r, "none", p) : p \in Page}
  ELSE IF r.descriptor = "directory"
  THEN {By(r, d, p) : d \in {"hides", "shows"}, p \in Page}
  ELSE {r}

(* Enforced descriptors, the hidden key, and path_exists.                  *)
Denied(r, enforce) ==
  \/ r.descriptor = "none" /\ enforce
  \/ r.descriptor = "hides" \/ r.object = "absent"

(* What a request is to be served: the file, or the page of the directory. *)
Content(r) ==
  IF r.object = "directory" THEN r.page
  ELSE IF r.object = "file" THEN "there" ELSE r.object

(* The file that read_file is asked for: none, locked, or there.           *)
Served(r, enforce) ==
  IF ~Reaches(r) \/ Denied(r, enforce) \/ Content(r) \in {"missing", "tooLong"}
  THEN "none"
  ELSE IF Content(r) = "locked" THEN "locked" ELSE "there"

(* The possible answers, in the order of the early returns.                *)
Answers(r, enforce, opened) ==
  IF r.form = "garbled" THEN {400}
  ELSE IF ~r.get THEN {405}
  ELSE IF ~r.safe THEN {403}
  ELSE IF IsDirectory(r) /\ ~r.slash THEN {301}
  ELSE IF Denied(r, enforce) THEN {404}
  ELSE IF Content(r) = "tooLong" THEN {500}
  ELSE IF ~opened THEN {404}
  ELSE IF Content(r) = "directory" THEN {200, Crash}
  ELSE {200}

(* May read_file open it?  It takes one number for its ring before the one *)
(* for the file: while they are scarce it can, if the file is cached.      *)
MayOpen(file, scarce) ==
  IF file # "there" THEN {FALSE} ELSE IF scarce THEN BOOLEAN ELSE {TRUE}

(* All answers to a request: what it may be read as, and what that may be  *)
(* answered.  A descriptor that is a directory may end the process, too.   *)
Readings(r, scarce) ==
  UNION {Governed(r, described) : described \in MayOpen(Beside(r), scarce)}

Outcomes(r, enforce, scarce) ==
  UNION {Answers(r, enforce, opened) : opened \in MayOpen(Served(r, enforce), scarce)}

Fatal(r) ==
  IF Beside(r) = "there" /\ r.descriptor = "directory" THEN {Crash} ELSE {}

Responses(r, enforce, scarce) ==
  Fatal(r) \cup UNION {Outcomes(q, enforce, scarce) : q \in Readings(r, scarce)}

(* The answers while numbers may be scarce.                                *)
AnyResponse(r, enforce) == Responses(r, enforce, TRUE)
============================================================================
