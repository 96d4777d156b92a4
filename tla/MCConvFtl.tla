----------------------------- MODULE MCConvFtl ------------------------------
(* ConvFtl on a small partition, for TLC.                                  *)
EXTENDS ConvFtl, TLC

(* Ids of lines and logical pages are labels only: safety runs may exchange *)
(* them.                                                                   *)
Symmetry == Permutations(Lines) \cup Permutations(Lpns)

(* Without symmetry (runs with liveness properties), the lines are numbers *)
(* and the free list starts in the order of init_lines.                    *)
InitById ==
  /\ Init
  /\ wp[USER_IO].blk = 1 /\ wp[GC_IO_HOT].blk = 2 /\ wp[GC_IO_COLD].blk = 3
  /\ \A i \in DOMAIN free_line_list : free_line_list[i] = i + 3

SpecById == InitById /\ [][Next]_vars /\ WF_vars(ForegroundGc)
=============================================================================
