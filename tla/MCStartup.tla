----------------------------- MODULE MCStartup -----------------------------
(* Instances of Startup for TLC.                                           *)
EXTENDS Startup

Plain == [port |-> 8080, root |-> "there", ssl |-> 0, certs |-> "missing",
          blank |-> FALSE]

(* What users write: TLS with certificates that are good or bad, or        *)
(* switched on by a number that is not 1; a port that is no number, or one *)
(* past 2^16; a blank first line.                                          *)
MCTexts ==
  {Plain, [Plain EXCEPT !.blank = TRUE], [Plain EXCEPT !.port = -1],
   [Plain EXCEPT !.port = 65536 + 8080], [Plain EXCEPT !.ssl = 2],
   [Plain EXCEPT !.ssl = 1, !.certs = "good"],
   [Plain EXCEPT !.ssl = 1, !.certs = "bad"]}

(* A home with or without ~/livefs, none, one that cannot be written to,   *)
(* and a configuration beside the executable.                              *)
MCHosts ==
  [home : {"writable"}, livefs : BOOLEAN, beside : {None}]
  \cup [home : {"unset", "readonly"}, livefs : {FALSE}, beside : {None, Plain}]
=============================================================================
