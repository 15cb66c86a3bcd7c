------------------------------ MODULE Payload -------------------------------
(***************************************************************************)
(* The bytes of a Put and a Get: from the request into the buffer of an    *)
(* aio_t (block_device_aio_write, block_device_aio_read and aio_memalign,  *)
(* src/store/bitstore/src/asyncio), between the buffer and the medium, and *)
(* from the buffer into the response (server/bitstore.cc).                 *)
(*                                                                         *)
(* When I/Os are issued and finished and calls end is taken from BatchIO,  *)
(* which BitStore implements.  A byte stands for as much as the medium     *)
(* moves at once: while an I/O is with the device its bytes move in any    *)
(* order, interleaved with those of other I/Os.                            *)
(*                                                                         *)
(* A Put copies with strncpy, up to the first NUL or to the length, and    *)
(* fills the rest of the buffer with NULs; a Get sends its buffer as a C   *)
(* string.                                                                 *)
(***************************************************************************)
EXTENDS BatchIO, Integers, Sequences, FiniteSets, SequencesExt

CONSTANTS
  Puts,           \* the calls that are Puts; the others are Gets
  PutRequests,    \* what Puts may ask: [offset, length, data]
  GetRequests,    \* what Gets may ask: [offset, length]
  Bytes, NUL,     \* the bytes, and the one that ends a C string
  Null,           \* a buffer that posix_memalign did not give
  Fresh,          \* what bytes newly allocated memory may hold
  DeviceSize,     \* bytes of the medium
  MaxIOs          \* bound: the most I/Os of all calls together

ASSUME PayloadAssumption ==
  /\ Puts \subseteq Calls
  /\ Cardinality(Ids) \in Nat /\ Ids = 1 .. Cardinality(Ids)
  /\ NUL \in Bytes /\ Fresh \subseteq Bytes
  /\ DeviceSize \in Nat
  /\ \A r \in PutRequests : r.data \in Seq(Bytes)
  /\ \A r \in PutRequests \cup GetRequests :
        r.offset \in Nat /\ r.length \in Nat
          /\ r.offset + r.length <= DeviceSize

Positions == 0 .. DeviceSize - 1

VARIABLES
  req,        \* req[c]: the requests of c's stream, in order
  buf,        \* buf[c][i]: the buffer of the i-th I/O, or Null
  moved,      \* moved[c][i]: those of its bytes that have moved
  medium,     \* the bytes of the device
  answer,     \* answer[c]: the data of the responses of a Get
  crashed,    \* has the process dereferenced a null pointer?
  before      \* history: before[c]: the calls over when c was submitted

payloadVars ==
  <<batchVars, req, buf, moved, medium, answer, crashed, before>>

Requests == PutRequests \cup GetRequests
Buffers  == {Null} \cup UNION {[1 .. n -> Bytes] : n \in 0 .. DeviceSize}
Answer   == [data : Seq(Bytes), overrun : BOOLEAN]

TypeOK ==
  /\ ended \subseteq Calls
  /\ issued \in [Calls -> SUBSET Ids] /\ finished \in [Calls -> SUBSET Ids]
  /\ req \in [Calls -> Seq(Requests)]
  /\ buf \in [Calls -> Seq(Buffers)]
  /\ moved \in [Calls -> Seq(SUBSET (1 .. DeviceSize))]
  /\ medium \in [Positions -> Bytes]
  /\ answer \in [Calls -> Seq(Answer)]
  /\ crashed \in BOOLEAN
  /\ before \in [Calls -> SUBSET Calls]
  /\ \A c \in Calls :
        /\ DOMAIN buf[c] = DOMAIN req[c] /\ DOMAIN moved[c] = DOMAIN req[c]
        /\ \A i \in DOMAIN req[c] :
              /\ buf[c][i] = Null \/ buf[c][i] \in [1 .. req[c][i].length -> Bytes]
              /\ moved[c][i] \subseteq 1 .. req[c][i].length

Init ==
  /\ BatchInit
  /\ req = [c \in Calls |-> << >>]
  /\ buf = [c \in Calls |-> << >>]
  /\ moved = [c \in Calls |-> << >>]
  /\ medium = [p \in Positions |-> NUL]
  /\ answer = [c \in Calls |-> << >>]
  /\ crashed = FALSE
  /\ before = [c \in Calls |-> {}]

-----------------------------------------------------------------------------
(* The bytes of a C string that starts with s, of which those after s are  *)
(* not known.                                                              *)
NULs(s)   == {j \in DOMAIN s : s[j] = NUL}
CString(s) ==
  IF NULs(s) = {} THEN s ELSE SubSeq(s, 1, Min(NULs(s)) - 1)

CopiedUnpadded(data, length, old) ==        \* mutant: memcpy of strlen bytes
  LET text == CString(data)
  IN  [j \in 1 .. length |-> IF j <= Len(text) THEN text[j] ELSE old]

CopiedWithEnd(data, length, old) ==             \* mutant: buf[length] = 0
  LET text == CString(data)
  IN  [j \in 1 .. length + 1 |-> IF j <= Len(text) /\ j <= length
                                   THEN text[j] ELSE NUL]

(* strncpy(buf, data.c_str(), length) into a buffer of bytes old           *)
Copied(data, length, old) ==
  LET text == CString(data)
  IN  [j \in 1 .. length |-> IF j <= Len(text) THEN text[j] ELSE NUL]

AskedFor == {x \in Calls \X Ids : x[2] \in DOMAIN req[x[1]]}

Streaming(c) ==
  /\ ~ crashed
  /\ c \notin ended /\ issued[c] = {}
  /\ Len(req[c]) < Cardinality(Ids) /\ Cardinality(AskedFor) < MaxIOs

Adds(c, r, b) ==
  /\ req' = [req EXCEPT ![c] = Append(@, r)]
  /\ buf' = [buf EXCEPT ![c] = Append(@, b)]
  /\ moved' = [moved EXCEPT ![c] = Append(@, {})]
  /\ UNCHANGED <<batchVars, medium, answer, crashed, before>>

PutRead(c, r) ==
  /\ c \in Puts
  /\ Streaming(c)
  /\ \E old \in Fresh : Adds(c, r, Copied(r.data, r.length, old))

(* posix_memalign fails and strncpy writes to NULL.                        *)
PutCrashes(c, r) ==
  /\ c \in Puts
  /\ Streaming(c)
  /\ r.length > 0
  /\ crashed' = TRUE
  /\ UNCHANGED <<batchVars, req, buf, moved, medium, answer, before>>

GetRead(c, r) ==
  /\ c \in Calls \ Puts
  /\ Streaming(c)
  /\ \/ \E old \in Fresh : Adds(c, r, [j \in 1 .. r.length |-> old])
     \/ Adds(c, r, Null)

Submit(c) ==
  /\ ~ crashed
  /\ issued[c] = {} /\ req[c] # << >>
  /\ Issue(c, DOMAIN req[c])
  /\ before' = [before EXCEPT ![c] = ended]
  /\ UNCHANGED <<req, buf, moved, medium, answer, crashed>>

-----------------------------------------------------------------------------
(* The device moves the j-th byte of an I/O, unless its buffer is NULL, or *)
(* is done with it: all bytes have moved, or it failed or fell short.      *)
Place(c, i, j) == req[c][i].offset + j - 1

Transfer(c, i, j) ==
  /\ ~ crashed
  /\ i \in issued[c] \ finished[c]
  /\ buf[c][i] # Null
  /\ j \in (1 .. req[c][i].length) \ moved[c][i]
  /\ moved' = [moved EXCEPT ![c][i] = @ \cup {j}]
  /\ IF c \in Puts
       THEN /\ medium' = [medium EXCEPT ![Place(c, i, j)] = buf[c][i][j]]
            /\ UNCHANGED buf
       ELSE /\ buf' = [buf EXCEPT ![c][i][j] = medium[Place(c, i, j)]]
            /\ UNCHANGED medium
  /\ UNCHANGED <<batchVars, req, answer, crashed, before>>

Done(c, i) ==
  /\ ~ crashed
  /\ Finish(c, i)
  /\ UNCHANGED <<req, buf, moved, medium, answer, crashed, before>>

Whole(c, i) == moved[c][i] = 1 .. req[c][i].length

-----------------------------------------------------------------------------
(* A call whose I/Os are finished ends; a Get sends each buffer as a C     *)
(* string, which ends at its first NUL or somewhere behind the buffer.     *)
Waited(c) == ~ crashed /\ req[c] # << >> /\ finished[c] = DOMAIN req[c]

PutEnds(c) ==
  /\ c \in Puts
  /\ Waited(c)
  /\ End(c)
  /\ UNCHANGED <<req, buf, moved, medium, answer, crashed, before>>

Sent(b) == [data |-> CString(b), overrun |-> NULs(b) = {}]

GetEndsReversed(c) ==                 \* mutant: ppdata sent from its end
  /\ c \in Calls \ Puts
  /\ Waited(c)
  /\ \A i \in DOMAIN req[c] : buf[c][i] # Null
  /\ End(c)
  /\ answer' = [answer EXCEPT ![c] =
       [i \in DOMAIN req[c] |-> Sent(buf[c][Len(req[c]) + 1 - i])]]
  /\ UNCHANGED <<req, buf, moved, medium, crashed, before>>

GetEnds(c) ==
  /\ c \in Calls \ Puts
  /\ Waited(c)
  /\ \A i \in DOMAIN req[c] : buf[c][i] # Null
  /\ End(c)
  /\ answer' = [answer EXCEPT ![c] =
                  [i \in DOMAIN req[c] |-> Sent(buf[c][i])]]
  /\ UNCHANGED <<req, buf, moved, medium, crashed, before>>

(* A response made from a null pointer.                                    *)
GetCrashes(c) ==
  /\ c \in Calls \ Puts
  /\ Waited(c)
  /\ \E i \in DOMAIN req[c] : buf[c][i] = Null
  /\ crashed' = TRUE
  /\ UNCHANGED <<batchVars, req, buf, moved, medium, answer, before>>

Next ==
  \E c \in Calls :
     \/ \E r \in PutRequests : PutRead(c, r) \/ PutCrashes(c, r)
     \/ \E r \in GetRequests : GetRead(c, r)
     \/ Submit(c)
     \/ \E i \in Ids : Done(c, i) \/ \E j \in 1 .. DeviceSize : Transfer(c, i, j)
     \/ PutEnds(c) \/ GetEnds(c) \/ GetCrashes(c)

Spec == Init /\ [][Next]_payloadVars

-----------------------------------------------------------------------------
Covers(c, i, p) ==
  p >= req[c][i].offset /\ p < req[c][i].offset + req[c][i].length

(* The writes, of any call, that may touch the byte p                      *)
WritesTo(p) ==
  {x \in AskedFor : x[1] \in Puts /\ Covers(x[1], x[2], p)}

(* What a write is to leave at p: its text, then NULs.                     *)
Text(c, i, p) ==
  LET j == p - req[c][i].offset + 1
      d == req[c][i].data
  IN  IF j <= Len(d) /\ \A k \in 1 .. j : d[k] # NUL THEN d[j] ELSE NUL

(* A byte that one write alone covers holds what that write was given once *)
(* all its bytes have moved, whatever the other writes around it do; a     *)
(* byte that several cover holds what one of them was given.               *)
BytesFromWrites ==
  \A p \in Positions :
     (\E x \in WritesTo(p) : Whole(x[1], x[2]))
       => \E x \in WritesTo(p) : medium[p] = Text(x[1], x[2], p)

(* The answer to a Get's i-th request, read in full, to the range of a     *)
(* Put's k-th, written in full by a Put that was over before and touched   *)
(* by no other write                                                       *)
ReadsBack(g, i, c, k) ==
  /\ g \in ended \ Puts /\ c \in before[g] \cap Puts
  /\ i \in DOMAIN answer[g] /\ k \in DOMAIN req[c]
  /\ req[g][i].offset = req[c][k].offset
  /\ req[g][i].length = req[c][k].length
  /\ Whole(g, i) /\ Whole(c, k)
  /\ \A p \in Positions : Covers(c, k, p) => WritesTo(p) = {<<c, k>>}

(* A text without NULs that is shorter than the length asked for comes     *)
(* back as it was put, in the response to its own request however the      *)
(* device orders the I/Os; one that is as long or longer is cut to the     *)
(* length, and what follows its buffer may be sent after it.               *)
TextComesBack ==
  \A g \in Calls, c \in Calls, i \in Ids, k \in Ids :
     ReadsBack(g, i, c, k) =>
        LET r == req[c][k]
        IN  (NULs(r.data) = {}) =>
              answer[g][i] =
                IF Len(r.data) < r.length
                  THEN [data |-> r.data, overrun |-> FALSE]
                  ELSE [data |-> SubSeq(r.data, 1, r.length), overrun |-> TRUE]

(* Claim of pb/bitstore.proto:15 and 30, "bytes data": whatever bytes a    *)
(* Put gives, a Get of as many returns: all of them, also after a NUL, and *)
(* none of what lies behind its buffer.                                    *)
BytesComeBack ==
  \A g \in Calls, c \in Calls, i \in Ids, k \in Ids :
     (ReadsBack(g, i, c, k) /\ Len(req[c][k].data) = req[c][k].length)
        => answer[g][i] = [data |-> req[c][k].data, overrun |-> FALSE]

-----------------------------------------------------------------------------
(* The strengthening that makes the properties inductive.                  *)

(* A call issues all it was asked for at once and ends when all of it is   *)
(* finished; nothing moves, and nothing is over before it, until then.     *)
InStep ==
  \A c \in Calls :
     /\ DOMAIN req[c] \subseteq Ids
     /\ issued[c] \in {{}, DOMAIN req[c]} /\ finished[c] \subseteq issued[c]
     /\ c \in ended => finished[c] = DOMAIN req[c]
     /\ before[c] \subseteq ended
     /\ issued[c] = {} =>
           /\ before[c] = {}
           /\ \A i \in DOMAIN req[c] : moved[c][i] = {}

(* A Put's buffer holds the text of its request; a Get that ended sent     *)
(* what its buffers still hold.                                            *)
Filled ==
  \A c \in Calls :
     IF c \in Puts
       THEN \A i \in DOMAIN req[c] :
              /\ req[c][i] \in PutRequests
              /\ buf[c][i] \in [1 .. req[c][i].length -> Bytes]
              /\ \A j \in 1 .. req[c][i].length :
                    buf[c][i][j] = Text(c, i, Place(c, i, j))
       ELSE c \in ended =>
              /\ \A i \in DOMAIN req[c] : buf[c][i] # Null
              /\ answer[c] = [i \in DOMAIN req[c] |-> Sent(buf[c][i])]

(* The byte p of an I/O has moved.                                         *)
MovedAt(c, i, p) == p - req[c][i].offset + 1 \in moved[c][i]

(* A byte that some write has reached holds what some write was given.     *)
Stored ==
  \A p \in Positions :
     (\E x \in WritesTo(p) : MovedAt(x[1], x[2], p))
       => \E x \in WritesTo(p) : medium[p] = Text(x[1], x[2], p)

(* A Get has read there what the only write, over before it, was given.    *)
Fetched ==
  \A g \in Calls \ Puts : \A c \in before[g] \cap Puts :
     \A i \in DOMAIN req[g], k \in DOMAIN req[c], p \in Positions :
        (/\ Covers(g, i, p) /\ MovedAt(g, i, p)
         /\ Whole(c, k) /\ WritesTo(p) = {<<c, k>>})
          => buf[g][i][p - req[g][i].offset + 1] = Text(c, k, p)

Inv == TypeOK /\ InStep /\ Filled /\ Stored /\ Fetched

=============================================================================
