------------------------------- MODULE Lists -------------------------------
(* The lists of include/vendor/gt/gt.h, as sequences: gtlist_insert        *)
(* appends, gtlist_next is the head, gtlist_remove takes one element out.  *)
(* Visit takes lines and pieces of a text out with the same operators.     *)
EXTENDS Naturals, Sequences

In(t, s) == \E i \in DOMAIN s : s[i] = t

(* No element is in the list twice.                                        *)
Once(s) == \A i, j \in DOMAIN s : s[i] = s[j] => i = j

(* The place of an element that is in the list once.                       *)
Place(t, s) == CHOOSE i \in DOMAIN s : s[i] = t

(* What is left of s when those that are not in T have been removed.       *)
Kept(s, T) ==
  LET upTo[n \in 0 .. Len(s)] ==
        IF n = 0 THEN <<>>
        ELSE IF s[n] \in T THEN Append(upTo[n - 1], s[n]) ELSE upTo[n - 1]
  IN  upTo[Len(s)]

Without(s, t) == Kept(s, {s[i] : i \in DOMAIN s} \ {t})
=============================================================================
