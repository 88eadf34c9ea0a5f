------------------------------ MODULE FifoLock ------------------------------
(***************************************************************************)
(* What a mutex promises: those who want it stand in line, the first of    *)
(* the line has it, and only the first one leaves.                         *)
(***************************************************************************)
EXTENDS Naturals, Sequences

CONSTANT Thread

VARIABLE line          \* its owner and those who wait, in the order they came

Init == line = <<>>

Join(t) ==
  /\ \A i \in DOMAIN line : line[i] # t
  /\ line' = Append(line, t)

Leave == line # <<>> /\ line' = Tail(line)

Next == Leave \/ \E t \in Thread : Join(t)

Spec == Init /\ [][Next]_line
============================================================================
