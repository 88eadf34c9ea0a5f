---------------------------- MODULE MCFileCache ----------------------------
(* Instances of FileCache for TLC.                                         *)
EXTENDS FileCache, TLC

(* Every rewrite falls into a second of its own.                           *)
DistinctSeconds == [v \in Version |-> v]

(* Blocks have no identity but their contents; paths and handlers are      *)
(* interchangeable as long as all of them are (or none is) modifiable.     *)
FullSymmetry == Permutations(Block) \cup Permutations(Path)
                  \cup Permutations(Handler)
============================================================================
