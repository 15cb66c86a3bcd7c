------------------------------ MODULE MCPayload -----------------------------
(* Small instances of Payload: a medium of three bytes.                    *)
EXTENDS Payload

CONSTANTS p1, p2, g1, x, y

Read(o, n) == [offset |-> o, length |-> n]
Write(o, n, d) == [offset |-> o, length |-> n, data |-> d]

MCPutRequests ==
  {Write(0, 2, <<x>>), Write(1, 2, <<y, x, x>>), Write(1, 2, <<NUL, y>>),
   Write(2, 1, <<x>>)}

MCGetRequests == {Read(0, 2), Read(2, 1)}

BinaryRequests == {Write(0, 2, <<NUL, x>>), Write(0, 2, <<x, y>>)}

PutsAlike == Permutations({p1, p2})

=============================================================================
