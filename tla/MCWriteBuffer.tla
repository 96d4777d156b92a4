---------------------------- MODULE MCWriteBuffer ----------------------------
(* Requests of whole pages, and any run of sectors.                        *)
EXTENDS WriteBuffer

CONSTANTS MaxPages, MaxSectors

WholePages ==
  {[slba |-> secs_per_pg * p, nr_lba |-> secs_per_pg * n] :
     p \in Parts, n \in 1 .. MaxPages}

AnySectors ==
  {[slba |-> s, nr_lba |-> n] :
     s \in 0 .. nr_parts * secs_per_pg - 1, n \in 1 .. MaxSectors}
=============================================================================
