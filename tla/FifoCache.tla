----------------------------- MODULE FifoCache -----------------------------
(***************************************************************************)
(* What the cache promises while no file changes: it holds each path at    *)
(* most once, at most Capacity of them, and makes room for a new one by    *)
(* dropping the one it has held longest and nothing else.                  *)
(***************************************************************************)
EXTENDS Naturals, Sequences

CONSTANTS Path, Capacity

VARIABLE queue          \* the cached paths, oldest first

Cached(p) == \E i \in DOMAIN queue : queue[i] = p

Init == queue = <<>>

Store(p) ==
  /\ ~Cached(p)
  /\ queue' = Append(IF Len(queue) < Capacity THEN queue ELSE Tail(queue), p)

Next == \E p \in Path : Store(p)

Spec == Init /\ [][Next]_queue
============================================================================
