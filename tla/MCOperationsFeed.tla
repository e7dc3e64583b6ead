------------------------- MODULE MCOperationsFeed -------------------------
(* Small instances of OperationsFeed.  The two snapshot requests f1 and f2 *)
(* may overlap; the run about what a client misses has one, so that what   *)
(* it finds is not the disorder of overlapping answers.                    *)
EXTENDS OperationsFeed
============================================================================
