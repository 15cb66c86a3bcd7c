---------------------------- MODULE MCThreadPool ----------------------------
(* A pool of three slots, with as many ids.                                *)
EXTENDS ThreadPool

CONSTANTS t1, t2, t3

=============================================================================
