-------------------------------- MODULE Keys --------------------------------
(***************************************************************************)
(* Reading keys from a configuration text (src/config/read_key.c) and the  *)
(* trimming of src/utils/trimws.c.  A text is a sequence of pieces: keys,  *)
(* "=", " ", "#", "\n", digits and others.                                 *)
(***************************************************************************)
EXTENDS Integers, SequencesExt

Digit == [d \in {"0", "1", "2"} |-> CASE d = "0" -> 0 [] d = "1" -> 1 [] d = "2" -> 2]
Blank == {" ", "\n"}

(* The first place from i on whose piece is not in S.                      *)
Past(text, i, S) ==
  CHOOSE j \in i .. Len(text) + 1 :
    /\ j <= Len(text) => text[j] \notin S
    /\ \A k \in i .. j - 1 : text[k] \in S

(* Mutant of LineStarts: a key is found wherever it stands.                *)
LineStartsAnywhere(text) == DOMAIN text

(* get_key_in_file goes from line to line; a comment and an empty line     *)
(* cannot begin with a key.                                                *)
LineStarts(text) == {i \in DOMAIN text : i = 1 \/ text[i - 1] = "\n"}

(* The place of the value of a key, or 0: the first line that begins with  *)
(* the key decides, also if "=" is missing or the key only begins a longer *)
(* name.                                                                   *)
GetKey(text, key) ==
  LET lines  == {i \in LineStarts(text) : text[i] = key}
      assign == Past(text, Min(lines) + 1, {" "})
  IN  IF lines = {} THEN 0
      ELSE IF assign > Len(text) \/ text[assign] # "=" THEN 0
      ELSE Past(text, assign + 1, {" "})

(* strtol: what decimal digits are worth.                                  *)
Number(digits) ==
  LET upTo[n \in 0 .. Len(digits)] ==
        IF n = 0 THEN 0 ELSE 10 * upTo[n - 1] + Digit[digits[n]]
  IN  upTo[Len(digits)]

(* file_get_int: 0 for a key that is not found, -1 for one without number. *)
(* strtol skips newlines, too, and reads a number from the next line.      *)
FileInt(text, key) ==
  LET at     == GetKey(text, key)
      first  == Past(text, at, Blank)
      digits == SubSeq(text, first, Past(text, first, DOMAIN Digit) - 1)
  IN  IF at = 0 THEN 0
      ELSE IF digits = <<>> THEN -1
      ELSE Number(digits)

(* file_get_value: the rest of the line.                                   *)
FileValue(text, key) ==
  LET at  == GetKey(text, key)
      end == SelectInSubSeq(text, at, Len(text), LAMBDA x : x = "\n")
  IN  IF at = 0 THEN <<>>
      ELSE SubSeq(text, at, IF end = 0 THEN Len(text) ELSE end - 1)

(* Mutant of TrimBlanks: only what is in front is trimmed.                 *)
TrimBlanksFront(s) == SubSeq(s, Past(s, 1, Blank), Len(s))

(* trim_whitespaces                                                        *)
TrimBlanks(s) ==
  LET end == SelectLastInSeq(s, LAMBDA x : x \notin Blank)
  IN  SubSeq(s, Past(s, 1, Blank), end)
=============================================================================
