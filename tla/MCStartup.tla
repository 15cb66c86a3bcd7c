------------------------------ MODULE MCStartup -----------------------------
(* Small instances of Startup: ints of 3 bits, longs from below to above.  *)
EXTENDS Startup

CONSTANTS default, other

Files == {[max_queue_depth |-> d, aio_reap_max |-> r, log_size |-> 3] :
            d \in {-1, 0, 1, 2, 3, 4, 9}, r \in {-1, 0, 1, 2, 3, 8}}

Other == [max_queue_depth |-> 2, aio_reap_max |-> 2, log_size |-> 1]

MCDisks == {[p \in {default, other} |-> IF p = default THEN f ELSE Other] :
              f \in Files \cup {Unreadable}}

MCCommandLines == [conf : {other, NotGiven}, max_log_size : {2, NotGiven},
                   unknown : BOOLEAN]

=============================================================================
