---------------------------- MODULE PayloadProofs ---------------------------
(***************************************************************************)
(* Proofs about Payload, for every number of calls and of I/Os, every      *)
(* request and every size of the medium.                                   *)
(***************************************************************************)
EXTENDS Payload, SequenceTheorems, WellFoundedInduction, TLAPS

(* A set of naturals has a least one.                                      *)
LEMMA MinOf ==
  ASSUME NEW S \in SUBSET Nat, S # {}
  PROVE  Min(S) \in S /\ \A y \in S : Min(S) <= y
<1> DEFINE R == {ss \in Nat \X Nat : ss[1] < ss[2]}
<1>1. IsWellFoundedOn(R, Nat)
  BY NatLessThanWellFounded, Zenon DEF OpToRel
<1>2. PICK d \in S : \A e \in S : ~ (<<e, d>> \in R)
  <2> HIDE DEF R
  <2> QED
    BY <1>1, WFMin
<1>3. \A e \in S : d <= e
  <2> SUFFICES ASSUME NEW e \in S, ~ (d <= e) PROVE FALSE
    OBVIOUS
  <2>1. <<e, d>> \in R
    BY SMT
  <2> QED
    BY <1>2, <2>1
<1> QED
  BY <1>3, Zenon DEF Min

(* What a request's numbers are.                                           *)
LEMMA RequestType ==
  ASSUME NEW r \in Requests
  PROVE  /\ r.offset \in Nat /\ r.length \in Nat
         /\ r.offset + r.length <= DeviceSize /\ DeviceSize \in Nat
         /\ \A j \in 1 .. r.length : r.offset + j - 1 \in Positions
<1>1. /\ r.offset \in Nat /\ r.length \in Nat
      /\ r.offset + r.length <= DeviceSize /\ DeviceSize \in Nat
  BY PayloadAssumption DEF Requests
<1> QED
  BY <1>1, SMT DEF Positions

(* A C string is what precedes the first NUL.                              *)
LEMMA CStringIs ==
  ASSUME NEW s \in Seq(Bytes)
  PROVE  /\ CString(s) \in Seq(Bytes)
         /\ \A j \in Nat \ {0} :
               j <= Len(CString(s))
                 <=> j <= Len(s) /\ \A k \in 1 .. j : s[k] # NUL
         /\ \A j \in 1 .. Len(CString(s)) : CString(s)[j] = s[j]
<1>0. Len(s) \in Nat /\ DOMAIN s = 1 .. Len(s)
  BY LenProperties
<1>1. CASE NULs(s) = {}
  <2>1. CString(s) = s
    BY <1>1 DEF CString
  <2>2. \A k \in 1 .. Len(s) : s[k] # NUL
    BY <1>0, <1>1 DEF NULs
  <2> QED
    BY <1>0, <2>1, <2>2, SMT
<1>2. CASE NULs(s) # {}
  <2> DEFINE m == Min(NULs(s))
  <2>1. NULs(s) \subseteq Nat
    BY <1>0, SMT DEF NULs
  <2>2. m \in NULs(s) /\ \A y \in NULs(s) : m <= y
    BY <1>2, <2>1, MinOf
  <2> HIDE DEF m
  <2>3. m \in 1 .. Len(s) /\ s[m] = NUL
    BY <1>0, <2>2, SMT DEF NULs
  <2>4. \A k \in 1 .. m - 1 : s[k] # NUL
    BY <1>0, <2>2, <2>3, SMT DEF NULs
  <2>5. CString(s) = SubSeq(s, 1, m - 1)
    BY <1>2 DEF CString, m
  <2>6. \A i \in 1 .. m - 1 : s[i] \in Bytes
    BY <1>0, <2>3, ElementOfSeq, SMT
  <2>7. /\ CString(s) \in Seq(Bytes) /\ Len(CString(s)) = m - 1
        /\ \A j \in 1 .. m - 1 : CString(s)[j] = s[j]
    BY <1>0, <2>3, <2>5, <2>6, SubSeqProperties, SMT
  <2> QED
    BY <1>0, <2>3, <2>4, <2>7, SMT
<1> QED
  BY <1>1, <1>2

-----------------------------------------------------------------------------
(* The text of a Put's request is made of bytes.                           *)
LEMMA TextType ==
  ASSUME TypeOK, NEW c \in Calls, NEW i \in DOMAIN req[c],
         req[c][i] \in PutRequests, NEW j \in 1 .. req[c][i].length
  PROVE  Text(c, i, Place(c, i, j)) \in Bytes
<1> DEFINE r == req[c][i]
<1>1. r.data \in Seq(Bytes) /\ r.offset \in Nat /\ r.length \in Nat /\ NUL \in Bytes
  BY PayloadAssumption, RequestType DEF Requests
<1>2. (r.offset + j - 1) - r.offset + 1 = j
  BY <1>1, SMT
<1>3. CASE j <= Len(r.data)
  <2>1. j \in 1 .. Len(r.data)
    BY <1>1, <1>3, LenProperties, SMT
  <2> QED
    BY <1>1, <1>2, <2>1, ElementOfSeq DEF Text, Place
<1>4. CASE ~ (j <= Len(r.data))
  BY <1>1, <1>2, <1>4 DEF Text, Place
<1> QED
  BY <1>3, <1>4

(* strncpy fills the buffer with the request's text.                       *)
LEMMA CopiedIsText ==
  ASSUME NEW r \in PutRequests, NEW old
  PROVE  /\ Copied(r.data, r.length, old) \in [1 .. r.length -> Bytes]
         /\ \A j \in 1 .. r.length :
              Copied(r.data, r.length, old)[j] =
                IF j <= Len(r.data) /\ \A k \in 1 .. j : r.data[k] # NUL
                  THEN r.data[j] ELSE NUL
<1>1. r.data \in Seq(Bytes) /\ r.length \in Nat /\ NUL \in Bytes
  BY PayloadAssumption, RequestType DEF Requests
<1> DEFINE text == CString(r.data)
<1>2. /\ text \in Seq(Bytes)
      /\ \A j \in Nat \ {0} :
            j <= Len(text)
              <=> j <= Len(r.data) /\ \A k \in 1 .. j : r.data[k] # NUL
      /\ \A j \in 1 .. Len(text) : text[j] = r.data[j]
  BY <1>1, CStringIs
<1>3. Copied(r.data, r.length, old) =
        [j \in 1 .. r.length |-> IF j <= Len(text) THEN text[j] ELSE NUL]
  BY DEF Copied
<1> HIDE DEF text
<1>4. \A j \in 1 .. r.length : j <= Len(text) => text[j] \in Bytes
  BY <1>1, <1>2, LenProperties, ElementOfSeq, SMT
<1>5. \A j \in 1 .. r.length :
         (IF j <= Len(text) THEN text[j] ELSE NUL) =
           IF j <= Len(r.data) /\ \A k \in 1 .. j : r.data[k] # NUL
             THEN r.data[j] ELSE NUL
  <2> TAKE j \in 1 .. r.length
  <2>1. j \in Nat \ {0}
    BY <1>1, SMT
  <2>2. j <= Len(text) => j \in 1 .. Len(text)
    BY <1>2, <2>1, LenProperties, SMT
  <2> QED
    BY <1>2, <2>1, <2>2
<1> QED
  BY <1>1, <1>3, <1>4, <1>5

(* The filled buffer as a buffer.                                          *)
LEMMA CopiedType ==
  ASSUME NEW r \in PutRequests, NEW old
  PROVE  Copied(r.data, r.length, old) \in Buffers
<1>1. r.length \in 0 .. DeviceSize
  BY RequestType, SMT DEF Requests
<1>2. Copied(r.data, r.length, old) \in [1 .. r.length -> Bytes]
  BY CopiedIsText
<1> QED
  BY <1>1, <1>2, Zenon DEF Buffers

-----------------------------------------------------------------------------
(* The I/Os of a call are numbered from 1 in its three sequences.          *)
LEMMA Lengths ==
  ASSUME TypeOK, NEW c \in Calls
  PROVE  /\ req[c] \in Seq(Requests) /\ buf[c] \in Seq(Buffers)
         /\ moved[c] \in Seq(SUBSET (1 .. DeviceSize))
         /\ Len(req[c]) \in Nat
         /\ Len(buf[c]) = Len(req[c]) /\ Len(moved[c]) = Len(req[c])
         /\ DOMAIN req[c] = 1 .. Len(req[c])
<1>1. /\ req[c] \in Seq(Requests) /\ buf[c] \in Seq(Buffers)
      /\ moved[c] \in Seq(SUBSET (1 .. DeviceSize))
  BY DEF TypeOK
<1>2. /\ Len(req[c]) \in Nat /\ DOMAIN req[c] = 1 .. Len(req[c])
      /\ Len(buf[c]) \in Nat /\ DOMAIN buf[c] = 1 .. Len(buf[c])
      /\ Len(moved[c]) \in Nat /\ DOMAIN moved[c] = 1 .. Len(moved[c])
  BY <1>1, LenProperties
<1>3. DOMAIN buf[c] = DOMAIN req[c] /\ DOMAIN moved[c] = DOMAIN req[c]
  BY DEF TypeOK
<1>4. \A m, n \in Nat : 1 .. m = 1 .. n => m = n
  BY SMT
<1> QED
  BY <1>1, <1>2, <1>3, <1>4

(* What appending does to a sequence.                                      *)
LEMMA AppendIs ==
  ASSUME NEW S, NEW s \in Seq(S), NEW e \in S
  PROVE  /\ Append(s, e) \in Seq(S)
         /\ DOMAIN Append(s, e) = 1 .. Len(s) + 1
         /\ \A i \in 1 .. Len(s) : Append(s, e)[i] = s[i]
         /\ Append(s, e)[Len(s) + 1] = e
BY SMT

(* A request read from the stream is the next of its call, and leaves all  *)
(* others as they were.                                                    *)
Grew(c, r, b) ==
  /\ req' \in [Calls -> Seq(Requests)]
  /\ buf' \in [Calls -> Seq(Buffers)]
  /\ moved' \in [Calls -> Seq(SUBSET (1 .. DeviceSize))]
  /\ \A d \in Calls : d # c =>
       req'[d] = req[d] /\ buf'[d] = buf[d] /\ moved'[d] = moved[d]
  /\ DOMAIN req'[c] = 1 .. Len(req[c]) + 1
  /\ DOMAIN buf'[c] = DOMAIN req'[c]
  /\ DOMAIN moved'[c] = DOMAIN req'[c]
  /\ \A i \in DOMAIN req[c] :
       /\ i \in DOMAIN req'[c]
       /\ req'[c][i] = req[c][i]
       /\ buf'[c][i] = buf[c][i]
       /\ moved'[c][i] = moved[c][i]
  /\ \A i \in DOMAIN req'[c] :
       i \notin DOMAIN req[c] =>
         req'[c][i] = r /\ buf'[c][i] = b /\ moved'[c][i] = {}

LEMMA AddsOne ==
  ASSUME TypeOK, NEW c \in Calls, NEW r \in Requests, NEW b \in Buffers,
         Adds(c, r, b)
  PROVE  Grew(c, r, b)
<1> DEFINE M == SUBSET (1 .. DeviceSize)
<1>0. {} \in M
  OBVIOUS
<1>1. /\ req' = [req EXCEPT ![c] = Append(@, r)]
      /\ buf' = [buf EXCEPT ![c] = Append(@, b)]
      /\ moved' = [moved EXCEPT ![c] = Append(@, {})]
  BY DEF Adds
<1>2. /\ req \in [Calls -> Seq(Requests)] /\ buf \in [Calls -> Seq(Buffers)]
      /\ moved \in [Calls -> Seq(M)]
  BY DEF TypeOK
<1>3. /\ req[c] \in Seq(Requests) /\ buf[c] \in Seq(Buffers)
      /\ moved[c] \in Seq(M)
      /\ Len(buf[c]) = Len(req[c]) /\ Len(moved[c]) = Len(req[c])
      /\ DOMAIN req[c] = 1 .. Len(req[c])
  BY Lengths
<1> HIDE DEF M
<1>4. /\ req'[c] = Append(req[c], r) /\ buf'[c] = Append(buf[c], b)
      /\ moved'[c] = Append(moved[c], {})
      /\ \A d \in Calls : d # c =>
           req'[d] = req[d] /\ buf'[d] = buf[d] /\ moved'[d] = moved[d]
  BY <1>1, <1>2
<1>5. /\ Append(req[c], r) \in Seq(Requests)
      /\ DOMAIN Append(req[c], r) = 1 .. Len(req[c]) + 1
      /\ \A i \in 1 .. Len(req[c]) : Append(req[c], r)[i] = req[c][i]
      /\ Append(req[c], r)[Len(req[c]) + 1] = r
  BY <1>3, AppendIs
<1>6. /\ Append(buf[c], b) \in Seq(Buffers)
      /\ DOMAIN Append(buf[c], b) = 1 .. Len(buf[c]) + 1
      /\ \A i \in 1 .. Len(buf[c]) : Append(buf[c], b)[i] = buf[c][i]
      /\ Append(buf[c], b)[Len(buf[c]) + 1] = b
  BY <1>3, AppendIs
<1>7. /\ Append(moved[c], {}) \in Seq(M)
      /\ DOMAIN Append(moved[c], {}) = 1 .. Len(moved[c]) + 1
      /\ \A i \in 1 .. Len(moved[c]) : Append(moved[c], {})[i] = moved[c][i]
      /\ Append(moved[c], {})[Len(moved[c]) + 1] = {}
  BY <1>0, <1>3, AppendIs
<1>8. /\ req' \in [Calls -> Seq(Requests)]
      /\ buf' \in [Calls -> Seq(Buffers)]
      /\ moved' \in [Calls -> Seq(M)]
  BY <1>1, <1>2, <1>5, <1>6, <1>7, Zenon
<1>9. Len(req[c]) \in Nat
  BY Lengths
<1>10. \A i \in 1 .. Len(req[c]) + 1 :
          i \notin 1 .. Len(req[c]) => i = Len(req[c]) + 1
  BY <1>9, SMT
<1>11. \A i \in 1 .. Len(req[c]) : i \in 1 .. Len(req[c]) + 1
  BY <1>9, SMT
<1>12. /\ DOMAIN req'[c] = 1 .. Len(req[c]) + 1
       /\ DOMAIN buf'[c] = DOMAIN req'[c]
       /\ DOMAIN moved'[c] = DOMAIN req'[c]
  BY <1>3, <1>4, <1>5, <1>6, <1>7
<1>13. ASSUME NEW i \in DOMAIN req[c]
       PROVE  /\ i \in DOMAIN req'[c]
              /\ req'[c][i] = req[c][i]
              /\ buf'[c][i] = buf[c][i]
              /\ moved'[c][i] = moved[c][i]
  BY <1>3, <1>4, <1>5, <1>6, <1>7, <1>11, <1>12
<1>14. ASSUME NEW i \in DOMAIN req'[c], i \notin DOMAIN req[c]
       PROVE  req'[c][i] = r /\ buf'[c][i] = b /\ moved'[c][i] = {}
  BY <1>3, <1>4, <1>5, <1>6, <1>7, <1>10, <1>12, <1>14
<1> QED
  BY <1>4, <1>8, <1>12, <1>13, <1>14, Zenon DEF M, Grew

(* What a stream adds: a Put's request with its text, or a Get's.          *)
Added(c, r, b) ==
  /\ Streaming(c) /\ Adds(c, r, b)
  /\ b \in {Null} \cup [1 .. r.length -> Bytes]
  /\ c \in Puts =>
       /\ r \in PutRequests
       /\ b \in [1 .. r.length -> Bytes]
       /\ \A j \in 1 .. r.length :
             b[j] = IF j <= Len(r.data) /\ \A k \in 1 .. j : r.data[k] # NUL
                      THEN r.data[j] ELSE NUL

LEMMA ReadAdds ==
  ASSUME NEW c \in Calls,
         \/ \E r \in PutRequests : PutRead(c, r)
         \/ \E r \in GetRequests : GetRead(c, r)
  PROVE  \E r \in Requests, b \in Buffers : Added(c, r, b)
<1>1. CASE \E r \in PutRequests : PutRead(c, r)
  <2>1. PICK r \in PutRequests : PutRead(c, r)
    BY <1>1
  <2>2. PICK old \in Fresh : Adds(c, r, Copied(r.data, r.length, old))
    BY <2>1 DEF PutRead
  <2>3. r \in Requests
    BY DEF Requests
  <2>4. Added(c, r, Copied(r.data, r.length, old))
    BY <2>1, <2>2, CopiedIsText, Zenon DEF Added, PutRead
  <2> QED
    BY <2>3, <2>4, CopiedType, Zenon
<1>2. CASE \E r \in GetRequests : GetRead(c, r)
  <2>1. PICK r \in GetRequests : GetRead(c, r)
    BY <1>2
  <2>2. r \in Requests /\ r.length \in 0 .. DeviceSize
    BY RequestType, SMT DEF Requests
  <2>3. CASE Adds(c, r, Null)
    BY <2>1, <2>2, <2>3, Zenon DEF Added, GetRead, Buffers
  <2>4. CASE \E old \in Fresh : Adds(c, r, [j \in 1 .. r.length |-> old])
    <3>1. PICK old \in Fresh : Adds(c, r, [j \in 1 .. r.length |-> old])
      BY <2>4
    <3>2. [j \in 1 .. r.length |-> old] \in [1 .. r.length -> Bytes]
      BY PayloadAssumption
    <3>3. [j \in 1 .. r.length |-> old] \in Buffers
      BY <2>2, <3>2, Zenon DEF Buffers
    <3> QED
      BY <2>1, <2>2, <3>1, <3>2, <3>3, Zenon DEF Added, GetRead
  <2> QED
    BY <2>1, <2>3, <2>4 DEF GetRead
<1> QED
  BY <1>1, <1>2

-----------------------------------------------------------------------------
(* Nothing is asked for at the start, and the medium holds NULs.           *)
LEMMA InitInv == Init => Inv
<1> SUFFICES ASSUME Init PROVE Inv
  OBVIOUS
<1> USE DEF Init, BatchInit
<1>0. DOMAIN << >> = {} /\ \A S : << >> \in Seq(S)
  BY EmptySeq, SMT
<1>2. \A c \in Calls :
        /\ DOMAIN req[c] = {} /\ DOMAIN buf[c] = {} /\ DOMAIN moved[c] = {}
  <2> TAKE c \in Calls
  <2>1. req[c] = << >> /\ buf[c] = << >> /\ moved[c] = << >>
    OBVIOUS
  <2> QED
    BY <1>0, <2>1
<1>1. TypeOK
  <2>1. /\ req \in [Calls -> Seq(Requests)] /\ buf \in [Calls -> Seq(Buffers)]
        /\ moved \in [Calls -> Seq(SUBSET (1 .. DeviceSize))]
        /\ answer \in [Calls -> Seq(Answer)]
    BY <1>0, Zenon
  <2>2. medium \in [Positions -> Bytes]
    BY PayloadAssumption
  <2> QED
    BY <1>2, <2>1, <2>2 DEF TypeOK
<1>3. InStep
  BY <1>2 DEF InStep
<1>4. Filled
  BY <1>2 DEF Filled
<1>5. Stored
  BY <1>2 DEF Stored, WritesTo, AskedFor
<1>6. Fetched
  BY <1>2 DEF Fetched
<1> QED
  BY <1>1, <1>3, <1>4, <1>5, <1>6 DEF Inv

-----------------------------------------------------------------------------
(* A byte that moves is one of an I/O in flight.                           *)
LEMMA Moving ==
  ASSUME TypeOK, InStep, NEW c \in Calls, NEW i \in Ids, NEW j,
         Transfer(c, i, j)
  PROVE  /\ i \in DOMAIN req[c] /\ i \in DOMAIN buf[c] /\ i \in DOMAIN moved[c]
         /\ issued[c] = DOMAIN req[c] /\ c \notin ended
         /\ req[c][i] \in Requests
         /\ j \in 1 .. req[c][i].length /\ j \in 1 .. DeviceSize
         /\ Place(c, i, j) \in Positions
         /\ buf[c][i] \in [1 .. req[c][i].length -> Bytes]
<1>1. i \in issued[c] /\ i \notin finished[c] /\ buf[c][i] # Null
      /\ j \in 1 .. req[c][i].length
  BY DEF Transfer
<1>2. issued[c] = DOMAIN req[c] /\ i \in DOMAIN req[c] /\ c \notin ended
  BY <1>1 DEF InStep
<1>3. i \in DOMAIN buf[c] /\ i \in DOMAIN moved[c]
      /\ buf[c][i] \in [1 .. req[c][i].length -> Bytes]
  BY <1>1, <1>2 DEF TypeOK
<1>4. req[c][i] \in Requests
  BY <1>2, Lengths, ElementOfSeq
<1>5. j \in 1 .. DeviceSize /\ Place(c, i, j) \in Positions
  BY <1>1, <1>4, RequestType, SMT DEF Place
<1> QED
  BY <1>1, <1>2, <1>3, <1>4, <1>5

(* What a byte's move changes: its I/O's bytes moved, and the medium or    *)
(* that I/O's buffer.                                                      *)
Stirred(c, i, j) ==
  /\ req' = req /\ ended' = ended /\ before' = before
  /\ issued' = issued /\ finished' = finished /\ answer' = answer
  /\ buf' \in [Calls -> Seq(Buffers)]
  /\ moved' \in [Calls -> Seq(SUBSET (1 .. DeviceSize))]
  /\ medium' \in [Positions -> Bytes]
  /\ \A d \in Calls :
       DOMAIN buf'[d] = DOMAIN buf[d] /\ DOMAIN moved'[d] = DOMAIN moved[d]
  /\ moved'[c][i] = moved[c][i] \cup {j}
  /\ \A d \in Calls : \A k \in DOMAIN req[d] :
       <<d, k>> # <<c, i>> =>
         moved'[d][k] = moved[d][k] /\ buf'[d][k] = buf[d][k]
  /\ c \in Puts =>
       /\ buf' = buf
       /\ medium' = [medium EXCEPT ![Place(c, i, j)] = buf[c][i][j]]
  /\ c \notin Puts =>
       /\ medium' = medium
       /\ buf'[c][i] = [buf[c][i] EXCEPT ![j] = medium[Place(c, i, j)]]

LEMMA Moves ==
  ASSUME TypeOK, InStep, NEW c \in Calls, NEW i \in Ids, NEW j,
         Transfer(c, i, j)
  PROVE  Stirred(c, i, j)
<1> DEFINE M == SUBSET (1 .. DeviceSize)
<1>1. /\ i \in DOMAIN req[c] /\ i \in DOMAIN buf[c] /\ i \in DOMAIN moved[c]
      /\ j \in 1 .. req[c][i].length /\ j \in 1 .. DeviceSize
      /\ Place(c, i, j) \in Positions /\ req[c][i] \in Requests
      /\ buf[c][i] \in [1 .. req[c][i].length -> Bytes]
  BY Moving
<1>2. /\ buf \in [Calls -> Seq(Buffers)] /\ moved \in [Calls -> Seq(M)]
      /\ medium \in [Positions -> Bytes]
      /\ DOMAIN moved[c] = DOMAIN req[c] /\ DOMAIN buf[c] = DOMAIN req[c]
  BY DEF TypeOK
<1>3. /\ moved[c] \in Seq(M) /\ buf[c] \in Seq(Buffers)
      /\ DOMAIN moved[c] = 1 .. Len(moved[c])
      /\ DOMAIN buf[c] = 1 .. Len(buf[c])
  BY <1>2, LenProperties
<1>4. req[c][i].length \in 0 .. DeviceSize
  BY <1>1, RequestType, SMT
<1>5. moved[c][i] \cup {j} \in M
  BY <1>1, <1>3, ElementOfSeq
<1>6. moved' = [moved EXCEPT ![c] = [moved[c] EXCEPT ![i] = moved[c][i] \cup {j}]]
  BY DEF Transfer
<1> HIDE DEF M
<1>7. /\ [moved[c] EXCEPT ![i] = moved[c][i] \cup {j}] \in Seq(M)
      /\ DOMAIN [moved[c] EXCEPT ![i] = moved[c][i] \cup {j}] = DOMAIN moved[c]
  <2>1. i \in 1 .. Len(moved[c])
    BY <1>1, <1>3
  <2> QED
    BY <1>3, <1>5, <2>1, ExceptSeq
<1>8. /\ moved' \in [Calls -> Seq(M)]
      /\ \A d \in Calls : DOMAIN moved'[d] = DOMAIN moved[d]
      /\ moved'[c][i] = moved[c][i] \cup {j}
      /\ \A d \in Calls : \A k \in DOMAIN req[d] :
           <<d, k>> # <<c, i>> => moved'[d][k] = moved[d][k]
  <2>1. moved' \in [Calls -> Seq(M)]
    BY <1>2, <1>6, <1>7, Zenon
  <2>2. \A d \in Calls : d # c => moved'[d] = moved[d]
    BY <1>2, <1>6
  <2>3. moved'[c] = [moved[c] EXCEPT ![i] = moved[c][i] \cup {j}]
    BY <1>2, <1>6
  <2>4. moved'[c][i] = moved[c][i] \cup {j}
        /\ \A k \in DOMAIN moved[c] : k # i => moved'[c][k] = moved[c][k]
    BY <1>1, <2>3
  <2> QED
    BY <1>2, <1>7, <2>1, <2>2, <2>3, <2>4, Zenon
<1>9. CASE c \in Puts
  <2>1. buf' = buf /\ medium' = [medium EXCEPT ![Place(c, i, j)] = buf[c][i][j]]
    BY <1>9 DEF Transfer
  <2>2. buf[c][i][j] \in Bytes
    BY <1>1
  <2> QED
    BY <1>2, <1>8, <1>9, <2>1, <2>2, Zenon
       DEF Transfer, M, batchVars, Stirred
<1>10. CASE c \notin Puts
  <2> DEFINE new == [buf[c][i] EXCEPT ![j] = medium[Place(c, i, j)]]
  <2>1. medium' = medium /\ buf' = [buf EXCEPT ![c][i][j] = medium[Place(c, i, j)]]
    BY <1>10 DEF Transfer
  <2>2. medium[Place(c, i, j)] \in Bytes
    BY <1>1, <1>2
  <2>3. new \in [1 .. req[c][i].length -> Bytes]
    BY <1>1, <2>2
  <2>4. new \in Buffers
    BY <1>4, <2>3, Zenon DEF Buffers
  <2>5. buf' = [buf EXCEPT ![c] = [buf[c] EXCEPT ![i] = new]]
    BY <2>1
  <2> HIDE DEF new
  <2>6. /\ [buf[c] EXCEPT ![i] = new] \in Seq(Buffers)
        /\ DOMAIN [buf[c] EXCEPT ![i] = new] = DOMAIN buf[c]
    BY <1>1, <1>3, <2>4, ExceptSeq, Zenon
  <2>7. buf' \in [Calls -> Seq(Buffers)]
    BY <1>2, <2>5, <2>6, Zenon
  <2>8. \A d \in Calls : d # c => buf'[d] = buf[d]
    BY <1>2, <2>5
  <2>9. buf'[c] = [buf[c] EXCEPT ![i] = new]
    BY <1>2, <2>5
  <2>10. buf'[c][i] = new
         /\ \A k \in DOMAIN buf[c] : k # i => buf'[c][k] = buf[c][k]
    BY <1>1, <2>9
  <2>11. \A d \in Calls : DOMAIN buf'[d] = DOMAIN buf[d]
    BY <2>6, <2>8, <2>9, Zenon
  <2>12. \A d \in Calls : \A k \in DOMAIN req[d] :
           <<d, k>> # <<c, i>> => buf'[d][k] = buf[d][k]
    BY <1>2, <2>8, <2>10, Zenon
  <2> QED
    BY <1>2, <1>8, <1>10, <2>1, <2>7, <2>10, <2>11, <2>12, Zenon
       DEF Transfer, M, new, batchVars, Stirred
<1> QED
  BY <1>9, <1>10

(* What a Get sends of a buffer is a string of bytes.                      *)
LEMMA SentType ==
  ASSUME NEW n \in Nat, NEW b \in [1 .. n -> Bytes]
  PROVE  Sent(b) \in Answer
<1>1. b \in Seq(Bytes)
  BY SMT
<1>2. CString(b) \in Seq(Bytes)
  BY <1>1, CStringIs
<1> QED
  BY <1>2 DEF Sent, Answer

(* Every step keeps the variables in their types.                          *)
LEMMA StepTypeOK ==
  ASSUME Inv, [Next]_payloadVars PROVE TypeOK'
<1>0. TypeOK /\ InStep
  BY DEF Inv
<1>1. CASE \E c \in Calls : \/ \E r \in PutRequests : PutRead(c, r)
                            \/ \E r \in GetRequests : GetRead(c, r)
  <2>1. PICK c \in Calls, r \in Requests, b \in Buffers : Added(c, r, b)
    BY <1>1, ReadAdds
  <2>2. Adds(c, r, b) /\ b \in {Null} \cup [1 .. r.length -> Bytes]
    BY <2>1 DEF Added
  <2>3. Grew(c, r, b)
    BY <1>0, <2>2, AddsOne
  <2>5. \A d \in Calls : \A i \in DOMAIN req'[d] :
           /\ buf'[d][i] = Null \/ buf'[d][i] \in [1 .. req'[d][i].length -> Bytes]
           /\ moved'[d][i] \subseteq 1 .. req'[d][i].length
    <3> TAKE d \in Calls
    <3> TAKE i \in DOMAIN req'[d]
    <3>1. CASE d = c /\ i \notin DOMAIN req[c]
      BY <2>2, <2>3, <3>1 DEF Grew
    <3>2. CASE d = c /\ i \in DOMAIN req[c]
      BY <1>0, <2>3, <3>2 DEF TypeOK, Grew
    <3>3. CASE d # c
      BY <1>0, <2>3, <3>3 DEF TypeOK, Grew
    <3> QED
      BY <3>1, <3>2, <3>3
  <2>6. \A d \in Calls :
           DOMAIN buf'[d] = DOMAIN req'[d] /\ DOMAIN moved'[d] = DOMAIN req'[d]
    BY <1>0, <2>3 DEF TypeOK, Grew
  <2>7. UNCHANGED <<batchVars, medium, answer, crashed, before>>
    BY <2>2 DEF Adds
  <2> QED
    BY <1>0, <2>3, <2>5, <2>6, <2>7 DEF TypeOK, batchVars, Grew
<1>2. ASSUME NEW c \in Calls, Submit(c) PROVE TypeOK'
  <2>1. DOMAIN req[c] \subseteq Ids
    BY <1>0 DEF InStep
  <2> QED
    BY <1>0, <1>2, <2>1 DEF Submit, Issue, TypeOK
<1>3. ASSUME NEW c \in Calls, NEW i \in Ids, NEW j \in 1 .. DeviceSize,
             Transfer(c, i, j)
      PROVE TypeOK'
  <2>1. /\ i \in DOMAIN req[c] /\ j \in 1 .. req[c][i].length
        /\ Place(c, i, j) \in Positions
        /\ buf[c][i] \in [1 .. req[c][i].length -> Bytes]
    BY <1>0, <1>3, Moving
  <2>2. Stirred(c, i, j)
    BY <1>0, <1>3, Moves
  <2>3. buf'[c][i] \in [1 .. req[c][i].length -> Bytes]
    <3>1. medium[Place(c, i, j)] \in Bytes
      BY <1>0, <2>1 DEF TypeOK
    <3> QED
      BY <2>1, <2>2, <3>1 DEF Stirred
  <2>4. \A d \in Calls : \A k \in DOMAIN req[d] :
           /\ buf'[d][k] = Null \/ buf'[d][k] \in [1 .. req[d][k].length -> Bytes]
           /\ moved'[d][k] \subseteq 1 .. req[d][k].length
    <3> TAKE d \in Calls
    <3> TAKE k \in DOMAIN req[d]
    <3>1. /\ buf[d][k] = Null \/ buf[d][k] \in [1 .. req[d][k].length -> Bytes]
          /\ moved[d][k] \subseteq 1 .. req[d][k].length
      BY <1>0 DEF TypeOK
    <3>2. CASE <<d, k>> = <<c, i>>
      BY <2>1, <2>2, <2>3, <3>1, <3>2 DEF Stirred
    <3>3. CASE <<d, k>> # <<c, i>>
      BY <2>2, <3>1, <3>3 DEF Stirred
    <3> QED
      BY <3>2, <3>3
  <2>5. crashed' = crashed
    BY <1>3 DEF Transfer
  <2> QED
    BY <1>0, <2>2, <2>4, <2>5 DEF TypeOK, Stirred
<1>4. ASSUME NEW c \in Calls, NEW i \in Ids, Done(c, i) PROVE TypeOK'
  BY <1>0, <1>4 DEF Done, Finish, TypeOK
<1>5. ASSUME NEW c \in Calls, PutEnds(c) PROVE TypeOK'
  BY <1>0, <1>5 DEF PutEnds, End, TypeOK
<1>6. ASSUME NEW c \in Calls, GetEnds(c) PROVE TypeOK'
  <2>1. \A i \in DOMAIN req[c] : Sent(buf[c][i]) \in Answer
    <3> TAKE i \in DOMAIN req[c]
    <3>1. buf[c][i] \in [1 .. req[c][i].length -> Bytes]
      BY <1>0, <1>6 DEF GetEnds, TypeOK
    <3>2. req[c][i].length \in Nat
      BY <1>0, Lengths, ElementOfSeq, RequestType
    <3> QED
      BY <3>1, <3>2, SentType
  <2>2. Len(req[c]) \in Nat /\ DOMAIN req[c] = 1 .. Len(req[c])
    BY <1>0, Lengths
  <2> DEFINE sent == [i \in DOMAIN req[c] |-> Sent(buf[c][i])]
  <2>3. sent \in [1 .. Len(req[c]) -> Answer]
    BY <2>1, <2>2
  <2> HIDE DEF sent
  <2>4. sent \in Seq(Answer)
    BY <2>2, <2>3, SMT
  <2>5. answer' = [answer EXCEPT ![c] = sent]
    BY <1>6 DEF GetEnds, sent
  <2>6. answer' \in [Calls -> Seq(Answer)]
    BY <1>0, <2>4, <2>5 DEF TypeOK
  <2> QED
    BY <1>0, <1>6, <2>6 DEF GetEnds, End, TypeOK
<1>7. ASSUME NEW c \in Calls,
             (\E r \in PutRequests : PutCrashes(c, r)) \/ GetCrashes(c)
      PROVE TypeOK'
  BY <1>0, <1>7 DEF PutCrashes, GetCrashes, batchVars, TypeOK
<1>8. CASE UNCHANGED payloadVars
  BY <1>0, <1>8 DEF payloadVars, batchVars, TypeOK
<1> QED
  BY <1>1, <1>2, <1>3, <1>4, <1>5, <1>6, <1>7, <1>8 DEF Next

-----------------------------------------------------------------------------
(* Every step keeps calls in step.                                         *)
LEMMA StepInStep ==
  ASSUME Inv, [Next]_payloadVars PROVE InStep'
<1>0. TypeOK /\ InStep
  BY DEF Inv
<1>1. CASE \E c \in Calls : \/ \E r \in PutRequests : PutRead(c, r)
                            \/ \E r \in GetRequests : GetRead(c, r)
  <2>1. PICK c \in Calls, r \in Requests, b \in Buffers : Added(c, r, b)
    BY <1>1, ReadAdds
  <2>2. Streaming(c) /\ Adds(c, r, b)
    BY <2>1 DEF Added
  <2>3. Grew(c, r, b)
    BY <1>0, <2>2, AddsOne
  <2>4. DOMAIN req'[c] \subseteq Ids
    <3>1. Len(req[c]) \in Nat /\ Len(req[c]) < Cardinality(Ids)
      BY <1>0, <2>2, Lengths DEF Streaming
    <3>2. DOMAIN req'[c] = 1 .. Len(req[c]) + 1
      BY <2>3 DEF Grew
    <3>3. Cardinality(Ids) \in Nat /\ Ids = 1 .. Cardinality(Ids)
      BY PayloadAssumption
    <3> QED
      BY <3>1, <3>2, <3>3, SMT
  <2>5. UNCHANGED <<ended, issued, finished, before>>
    BY <2>2 DEF Adds, batchVars
  <2>6. c \notin ended /\ issued[c] = {}
    BY <2>2 DEF Streaming
  <2>7. \A k \in DOMAIN req'[c] : moved'[c][k] = {}
    BY <1>0, <2>3, <2>6 DEF Grew, InStep
  <2> SUFFICES ASSUME NEW d \in Calls PROVE InStep!(d)'
    BY DEF InStep
  <2>8. CASE d = c
    BY <1>0, <2>4, <2>5, <2>6, <2>7, <2>8 DEF InStep
  <2>9. CASE d # c
    <3>1. req'[d] = req[d] /\ moved'[d] = moved[d]
      BY <2>3, <2>9 DEF Grew
    <3> QED
      BY <1>0, <2>5, <3>1 DEF InStep
  <2> QED
    BY <2>8, <2>9
<1>2. ASSUME NEW c \in Calls, Submit(c) PROVE InStep'
  <2>1. DOMAIN req[c] # {}
    <3>1. req[c] # << >> /\ req[c] \in Seq(Requests)
      BY <1>0, <1>2 DEF Submit, TypeOK
    <3>2. Len(req[c]) \in Nat \ {0} /\ DOMAIN req[c] = 1 .. Len(req[c])
      BY <3>1, EmptySeq, LenProperties
    <3>3. 1 \in 1 .. Len(req[c])
      BY <3>2, SMT
    <3> QED
      BY <3>2, <3>3
  <2>2. /\ c \notin ended /\ issued[c] = {}
        /\ issued' = [issued EXCEPT ![c] = DOMAIN req[c]]
        /\ before' = [before EXCEPT ![c] = ended]
        /\ UNCHANGED <<ended, finished, req, moved>>
    BY <1>0, <1>2 DEF Submit, Issue, TypeOK
  <2> SUFFICES ASSUME NEW d \in Calls PROVE InStep!(d)'
    BY DEF InStep
  <2>3. CASE d = c
    <3>1. issued'[c] = DOMAIN req[c] /\ before'[c] = ended
      BY <1>0, <2>2 DEF TypeOK
    <3> QED
      BY <1>0, <2>1, <2>2, <2>3, <3>1 DEF InStep
  <2>4. CASE d # c
    <3>1. issued'[d] = issued[d] /\ before'[d] = before[d]
      BY <1>0, <2>2, <2>4 DEF TypeOK
    <3> QED
      BY <1>0, <2>2, <3>1 DEF InStep
  <2> QED
    BY <2>3, <2>4
<1>3. ASSUME NEW c \in Calls, NEW i \in Ids, NEW j \in 1 .. DeviceSize,
             Transfer(c, i, j)
      PROVE InStep'
  <2>1. Stirred(c, i, j) /\ i \in DOMAIN req[c] /\ issued[c] = DOMAIN req[c]
    BY <1>0, <1>3, Moves, Moving
  <2>2. \A d \in Calls : issued[d] = {} =>
           \A k \in DOMAIN req[d] : moved'[d][k] = moved[d][k]
    BY <2>1 DEF Stirred
  <2> SUFFICES ASSUME NEW d \in Calls PROVE InStep!(d)'
    BY DEF InStep
  <2>3. UNCHANGED <<req, issued, finished, ended, before>>
    BY <2>1 DEF Stirred
  <2> QED
    BY <1>0, <2>2, <2>3 DEF InStep
<1>4. ASSUME NEW c \in Calls, NEW i \in Ids, Done(c, i) PROVE InStep'
  <2>1. /\ i \in issued[c] \ finished[c]
        /\ finished' = [finished EXCEPT ![c] = @ \cup {i}]
        /\ UNCHANGED <<ended, issued, req, moved, before>>
    BY <1>4 DEF Done, Finish
  <2> SUFFICES ASSUME NEW d \in Calls PROVE InStep!(d)'
    BY DEF InStep
  <2>2. CASE d = c
    <3>1. finished'[c] = finished[c] \cup {i}
      BY <1>0, <2>1 DEF TypeOK
    <3> QED
      BY <1>0, <2>1, <2>2, <3>1 DEF InStep
  <2>3. CASE d # c
    <3>1. finished'[d] = finished[d]
      BY <1>0, <2>1, <2>3 DEF TypeOK
    <3> QED
      BY <1>0, <2>1, <3>1 DEF InStep
  <2> QED
    BY <2>2, <2>3
<1>5. ASSUME NEW c \in Calls, PutEnds(c) \/ GetEnds(c) PROVE InStep'
  <2>1. /\ req[c] # << >> /\ finished[c] = DOMAIN req[c]
        /\ ended' = ended \cup {c}
        /\ UNCHANGED <<issued, finished, req, moved, before>>
    BY <1>5 DEF PutEnds, GetEnds, Waited, End
  <2> QED
    BY <1>0, <2>1 DEF InStep
<1>6. ASSUME \/ UNCHANGED payloadVars
             \/ \E c \in Calls : \/ \E r \in PutRequests : PutCrashes(c, r)
                                 \/ GetCrashes(c)
      PROVE InStep'
  <2>1. UNCHANGED <<ended, issued, finished, req, moved, before>>
    BY <1>6 DEF PutCrashes, GetCrashes, payloadVars, batchVars
  <2> QED
    BY <1>0, <2>1 DEF InStep
<1> QED
  BY <1>1, <1>2, <1>3, <1>4, <1>5, <1>6 DEF Next

(* A request that stays keeps its text.                                    *)
LEMMA TextKept ==
  ASSUME NEW c, NEW i, req'[c][i] = req[c][i]
  PROVE  \A p : Text(c, i, p)' = Text(c, i, p)
BY DEF Text

(* Every step keeps the buffers of Puts and the answers of Gets.           *)
LEMMA StepFilled ==
  ASSUME Inv, [Next]_payloadVars PROVE Filled'
<1>0. TypeOK /\ InStep /\ Filled
  BY DEF Inv
<1>1. CASE \E c \in Calls : \/ \E r \in PutRequests : PutRead(c, r)
                            \/ \E r \in GetRequests : GetRead(c, r)
  <2>1. PICK c \in Calls, r \in Requests, b \in Buffers : Added(c, r, b)
    BY <1>1, ReadAdds
  <2>2. Streaming(c) /\ Adds(c, r, b)
    BY <2>1 DEF Added
  <2>3. Grew(c, r, b)
    BY <1>0, <2>2, AddsOne
  <2>4. UNCHANGED <<ended, answer>> /\ c \notin ended
    BY <2>2 DEF Adds, batchVars, Streaming
  <2>5. ASSUME NEW d \in Puts, NEW i \in DOMAIN req'[d]
        PROVE  /\ req'[d][i] \in PutRequests
               /\ buf'[d][i] \in [1 .. req'[d][i].length -> Bytes]
               /\ \A j \in 1 .. req'[d][i].length :
                     buf'[d][i][j] = Text(d, i, Place(d, i, j))'
    <3>0. d \in Calls
      BY PayloadAssumption
    <3>1. CASE i \in DOMAIN req[d]
      <4>1. req'[d][i] = req[d][i] /\ buf'[d][i] = buf[d][i]
        BY <2>3, <3>0, <3>1 DEF Grew
      <4>2. \A j : Text(d, i, Place(d, i, j))' = Text(d, i, Place(d, i, j))
        BY <4>1 DEF Text, Place
      <4>3. /\ req[d][i] \in PutRequests
            /\ buf[d][i] \in [1 .. req[d][i].length -> Bytes]
            /\ \A j \in 1 .. req[d][i].length :
                  buf[d][i][j] = Text(d, i, Place(d, i, j))
        BY <1>0, <3>0, <3>1 DEF Filled
      <4> QED
        BY <4>1, <4>2, <4>3, Zenon
    <3>2. CASE i \notin DOMAIN req[d]
      <4>1. d = c
        BY <2>3, <3>0, <3>2 DEF Grew
      <4>2. req'[d][i] = r /\ buf'[d][i] = b
        BY <2>3, <3>2, <4>1 DEF Grew
      <4>3. r \in PutRequests /\ b \in [1 .. r.length -> Bytes]
        BY <2>1, <4>1 DEF Added
      <4>4. \A j \in 1 .. r.length :
               /\ b[j] = IF j <= Len(r.data) /\ \A k \in 1 .. j : r.data[k] # NUL
                           THEN r.data[j] ELSE NUL
               /\ (r.offset + j - 1) - r.offset + 1 = j
        <5>1. r.offset \in Nat /\ r.length \in Nat
          BY RequestType
        <5>2. \A j \in 1 .. r.length : (r.offset + j - 1) - r.offset + 1 = j
          BY <5>1, SMT
        <5> QED
          BY <2>1, <4>1, <5>2, Zenon DEF Added
      <4>5. \A j \in 1 .. r.length : Text(d, i, Place(d, i, j))' = b[j]
        BY <4>2, <4>4, Zenon DEF Text, Place
      <4> QED
        BY <4>2, <4>3, <4>5
    <3> QED
      BY <3>1, <3>2
  <2>6. ASSUME NEW d \in Calls \ Puts, d \in ended
        PROVE  req'[d] = req[d] /\ buf'[d] = buf[d]
    BY <2>3, <2>4, <2>6 DEF Grew
  <2> QED
    BY <1>0, <2>4, <2>5, <2>6 DEF Filled
<1>2. ASSUME NEW c \in Calls, NEW i \in Ids, NEW j \in 1 .. DeviceSize,
             Transfer(c, i, j)
      PROVE Filled'
  <2>1. Stirred(c, i, j) /\ c \notin ended
    BY <1>0, <1>2, Moves, Moving
  <2>2. ASSUME NEW d \in Puts
        PROVE \A k \in DOMAIN req[d] :
                 /\ req'[d][k] \in PutRequests
                 /\ buf'[d][k] \in [1 .. req'[d][k].length -> Bytes]
                 /\ \A n \in 1 .. req'[d][k].length :
                       buf'[d][k][n] = Text(d, k, Place(d, k, n))'
    <3>0. d \in Calls
      BY PayloadAssumption
    <3> TAKE k \in DOMAIN req[d]
    <3>1. buf'[d][k] = buf[d][k] /\ req' = req
      BY <2>1, <3>0 DEF Stirred
    <3>2. \A n : Text(d, k, Place(d, k, n))' = Text(d, k, Place(d, k, n))
      BY <3>1 DEF Text, Place
    <3>3. /\ req[d][k] \in PutRequests
          /\ buf[d][k] \in [1 .. req[d][k].length -> Bytes]
          /\ \A n \in 1 .. req[d][k].length :
                buf[d][k][n] = Text(d, k, Place(d, k, n))
      BY <1>0, <3>0 DEF Filled
    <3> QED
      BY <3>1, <3>2, <3>3, Zenon
  <2>3. ASSUME NEW d \in Calls \ Puts, d \in ended
        PROVE  \A k \in DOMAIN req[d] : buf'[d][k] = buf[d][k]
    BY <2>1, <2>3 DEF Stirred
  <2> QED
    BY <1>0, <2>1, <2>2, <2>3 DEF Filled, Stirred
<1>3. ASSUME NEW c \in Calls, GetEnds(c) PROVE Filled'
  <2>1. /\ c \notin Puts /\ ended' = ended \cup {c} /\ req' = req /\ buf' = buf
        /\ \A i \in DOMAIN req[c] : buf[c][i] # Null
        /\ answer' = [answer EXCEPT ![c] =
                        [i \in DOMAIN req[c] |-> Sent(buf[c][i])]]
    BY <1>3 DEF GetEnds, End
  <2>2. \A d \in Calls : \A i : \A j :
           Text(d, i, Place(d, i, j))' = Text(d, i, Place(d, i, j))
    BY <2>1 DEF Text, Place
  <2>3. answer'[c] = [i \in DOMAIN req[c] |-> Sent(buf[c][i])]
        /\ \A d \in Calls : d # c => answer'[d] = answer[d]
    BY <1>0, <2>1 DEF TypeOK
  <2> QED
    BY <1>0, <2>1, <2>2, <2>3 DEF Filled
<1>4. ASSUME /\ UNCHANGED <<req, buf, answer>>
             /\ ended' \subseteq ended \cup Puts
      PROVE Filled'
  <2>1. \A d \in Calls : \A i : \A j :
           Text(d, i, Place(d, i, j))' = Text(d, i, Place(d, i, j))
    BY <1>4 DEF Text, Place
  <2> QED
    BY <1>0, <1>4, <2>1 DEF Filled
<1>5. ASSUME NEW c \in Calls, PutEnds(c) PROVE Filled'
  BY <1>4, <1>5 DEF PutEnds, End
<1>6. ASSUME NEW c \in Calls, Submit(c) PROVE Filled'
  BY <1>4, <1>6 DEF Submit, Issue
<1>7. ASSUME NEW c \in Calls, NEW i \in Ids, Done(c, i) PROVE Filled'
  BY <1>4, <1>7 DEF Done, Finish
<1>8. ASSUME \/ UNCHANGED payloadVars
             \/ \E c \in Calls : \/ \E r \in PutRequests : PutCrashes(c, r)
                                 \/ GetCrashes(c)
      PROVE Filled'
  BY <1>4, <1>8 DEF PutCrashes, GetCrashes, payloadVars, batchVars
<1> QED
  BY <1>1, <1>2, <1>3, <1>5, <1>6, <1>7, <1>8 DEF Next

-----------------------------------------------------------------------------
(* A write that may touch a byte is an I/O of a Put.                       *)
LEMMA WriteIs ==
  ASSUME NEW p, NEW x \in WritesTo(p)
  PROVE  /\ x[1] \in Calls /\ x[1] \in Puts /\ x[2] \in Ids
         /\ x[2] \in DOMAIN req[x[1]] /\ x = <<x[1], x[2]>>
         /\ Covers(x[1], x[2], p)
BY DEF WritesTo, AskedFor

(* Steps that ask for nothing change no write.                             *)
LEMMA SameWrites ==
  ASSUME req' = req
  PROVE  /\ \A p : WritesTo(p)' = WritesTo(p)
         /\ \A c, i, p : Text(c, i, p)' = Text(c, i, p)
         /\ \A c, i, p : Covers(c, i, p)' = Covers(c, i, p)
<1>1. \A p : WritesTo(p)' = WritesTo(p)
  BY DEF WritesTo, AskedFor, Covers
<1>2. \A c, i, p : Text(c, i, p)' = Text(c, i, p)
  BY DEF Text
<1>3. \A c, i, p : Covers(c, i, p)' = Covers(c, i, p)
  BY DEF Covers
<1> QED
  BY <1>1, <1>2, <1>3

(* A stream that is read only adds to the writes, and those it adds have   *)
(* moved nothing.                                                          *)
LEMMA MoreWrites ==
  ASSUME NEW c \in Calls, NEW r, NEW b, Grew(c, r, b), NEW p
  PROVE  /\ WritesTo(p) \subseteq WritesTo(p)'
         /\ \A d \in Calls : \A k \in DOMAIN req[d] :
              /\ Text(d, k, p)' = Text(d, k, p)
              /\ Covers(d, k, p)' = Covers(d, k, p)
              /\ MovedAt(d, k, p)' = MovedAt(d, k, p)
         /\ \A x \in WritesTo(p)' : MovedAt(x[1], x[2], p)' => x \in WritesTo(p)
<1>1. \A d \in Calls : \A k \in DOMAIN req[d] :
         /\ k \in DOMAIN req'[d]
         /\ req'[d][k] = req[d][k] /\ moved'[d][k] = moved[d][k]
  BY DEF Grew
<1>2. \A d \in Calls : \A k \in DOMAIN req'[d] :
         k \notin DOMAIN req[d] => moved'[d][k] = {}
  BY DEF Grew
<1>3. \A d \in Calls : \A k \in DOMAIN req[d] :
              /\ Text(d, k, p)' = Text(d, k, p)
              /\ Covers(d, k, p)' = Covers(d, k, p)
              /\ MovedAt(d, k, p)' = MovedAt(d, k, p)
  BY <1>1 DEF Text, Covers, MovedAt
<1>4. WritesTo(p) \subseteq WritesTo(p)'
  BY <1>1 DEF WritesTo, AskedFor, Covers
<1>5. ASSUME NEW x \in WritesTo(p)', MovedAt(x[1], x[2], p)'
      PROVE  x \in WritesTo(p)
  <2>1. /\ x \in Calls \X Ids /\ x[1] \in Calls /\ x[1] \in Puts
        /\ x[2] \in DOMAIN req'[x[1]] /\ Covers(x[1], x[2], p)'
    BY DEF WritesTo, AskedFor
  <2>2. moved'[x[1]][x[2]] # {}
    BY <1>5 DEF MovedAt
  <2>3. x[2] \in DOMAIN req[x[1]]
    BY <1>2, <2>1, <2>2
  <2>4. Covers(x[1], x[2], p)
    BY <1>3, <2>1, <2>3
  <2> QED
    BY <2>1, <2>3, <2>4 DEF WritesTo, AskedFor
<1> QED
  BY <1>3, <1>4, <1>5

(* Where a byte of an I/O is, and which of its bytes is there.             *)
LEMMA PlaceOf ==
  ASSUME TypeOK, NEW c \in Calls, NEW i \in DOMAIN req[c],
         NEW j \in 1 .. req[c][i].length
  PROVE  /\ Covers(c, i, Place(c, i, j))
         /\ Place(c, i, j) \in Positions
         /\ \A p \in Positions : p - req[c][i].offset + 1 = j => p = Place(c, i, j)
<1>1. req[c][i].offset \in Nat /\ req[c][i].length \in Nat
      /\ req[c][i].offset + req[c][i].length <= DeviceSize /\ DeviceSize \in Nat
  BY Lengths, ElementOfSeq, RequestType
<1> QED
  BY <1>1, SMT DEF Covers, Place, Positions

(* Every step keeps what writes have stored.                               *)
LEMMA StepStored ==
  ASSUME Inv, [Next]_payloadVars PROVE Stored'
<1>0. TypeOK /\ InStep /\ Filled /\ Stored
  BY DEF Inv
<1> SUFFICES ASSUME NEW p \in Positions,
                    NEW x \in WritesTo(p)', MovedAt(x[1], x[2], p)'
             PROVE  \E y \in WritesTo(p)' : medium'[p] = Text(y[1], y[2], p)'
  BY DEF Stored
<1>1. CASE \E c \in Calls : \/ \E r \in PutRequests : PutRead(c, r)
                            \/ \E r \in GetRequests : GetRead(c, r)
  <2>1. PICK c \in Calls, r \in Requests, b \in Buffers : Added(c, r, b)
    BY <1>1, ReadAdds
  <2>2. Grew(c, r, b) /\ medium' = medium
    BY <1>0, <2>1, AddsOne DEF Added, Adds
  <2>3. x \in WritesTo(p)
    BY <2>2, MoreWrites
  <2>4. MovedAt(x[1], x[2], p)
    BY <2>2, <2>3, MoreWrites, WriteIs
  <2>5. PICK y \in WritesTo(p) : medium[p] = Text(y[1], y[2], p)
    BY <1>0, <2>3, <2>4 DEF Stored
  <2>6. y \in WritesTo(p)' /\ Text(y[1], y[2], p)' = Text(y[1], y[2], p)
    BY <2>2, MoreWrites, WriteIs
  <2> QED
    BY <2>2, <2>5, <2>6
<1>2. ASSUME NEW c \in Calls, NEW i \in Ids, NEW j \in 1 .. DeviceSize,
             Transfer(c, i, j)
      PROVE  \E y \in WritesTo(p)' : medium'[p] = Text(y[1], y[2], p)'
  <2>1. Stirred(c, i, j) /\ i \in DOMAIN req[c] /\ j \in 1 .. req[c][i].length
    BY <1>0, <1>2, Moves, Moving
  <2>2. req' = req
    BY <2>1 DEF Stirred
  <2>3. /\ WritesTo(p)' = WritesTo(p)
        /\ \A d, k : Text(d, k, p)' = Text(d, k, p)
    BY <2>2, SameWrites
  <2>4. CASE c \in Puts /\ p = Place(c, i, j)
    <3>1. <<c, i>> \in WritesTo(p)
      BY <1>0, <2>1, <2>4, PlaceOf DEF WritesTo, AskedFor
    <3>2. buf[c][i][j] = Text(c, i, p)
      BY <1>0, <2>1, <2>4 DEF Filled
    <3>3. medium' = [medium EXCEPT ![p] = buf[c][i][j]]
      BY <2>1, <2>4 DEF Stirred
    <3>4. medium'[p] = Text(c, i, p)
      BY <1>0, <3>2, <3>3 DEF TypeOK
    <3> QED
      BY <2>3, <3>1, <3>4
  <2>5. CASE ~ (c \in Puts /\ p = Place(c, i, j))
    <3>1. medium'[p] = medium[p]
      BY <1>0, <2>1, <2>5 DEF Stirred, TypeOK
    <3>2. x \in WritesTo(p) /\ x[1] \in Calls /\ x[1] \in Puts
          /\ x[2] \in DOMAIN req[x[1]]
      BY <2>3, WriteIs
    <3>3. p - req[x[1]][x[2]].offset + 1 \in moved'[x[1]][x[2]]
      BY <2>2 DEF MovedAt
    <3>4. MovedAt(x[1], x[2], p)
      <4>1. CASE <<x[1], x[2]>> = <<c, i>>
        <5>1. p - req[c][i].offset + 1 # j
          BY <1>0, <2>1, <2>5, <3>2, <4>1, PlaceOf
        <5>2. moved'[c][i] = moved[c][i] \cup {j}
          BY <2>1 DEF Stirred
        <5> QED
          BY <3>3, <4>1, <5>1, <5>2 DEF MovedAt
      <4>2. CASE <<x[1], x[2]>> # <<c, i>>
        <5>1. moved'[x[1]][x[2]] = moved[x[1]][x[2]]
          BY <2>1, <3>2, <4>2 DEF Stirred
        <5> QED
          BY <3>3, <5>1 DEF MovedAt
      <4> QED
        BY <4>1, <4>2
    <3>5. \E y \in WritesTo(p) : medium[p] = Text(y[1], y[2], p)
      BY <1>0, <3>2, <3>4 DEF Stored
    <3> QED
      BY <2>3, <3>1, <3>5
  <2> QED
    BY <2>4, <2>5
<1>3. ASSUME UNCHANGED <<req, moved, medium>>
      PROVE  \E y \in WritesTo(p)' : medium'[p] = Text(y[1], y[2], p)'
  <2>1. x \in WritesTo(p) /\ MovedAt(x[1], x[2], p)
    BY <1>3, SameWrites DEF MovedAt
  <2>2. \E y \in WritesTo(p) : medium[p] = Text(y[1], y[2], p)
    BY <1>0, <2>1 DEF Stored
  <2> QED
    BY <1>3, <2>2, SameWrites
<1>4. ASSUME NEW c \in Calls,
             \/ Submit(c) \/ PutEnds(c) \/ GetEnds(c) \/ GetCrashes(c)
             \/ \E i \in Ids : Done(c, i)
             \/ \E r \in PutRequests : PutCrashes(c, r)
      PROVE  UNCHANGED <<req, moved, medium>>
  BY <1>4 DEF Submit, PutEnds, GetEnds, GetCrashes, Done, PutCrashes
<1>5. CASE UNCHANGED payloadVars
  BY <1>3, <1>5 DEF payloadVars
<1> QED
  BY <1>1, <1>2, <1>3, <1>4, <1>5 DEF Next

-----------------------------------------------------------------------------
(* A write that moved as a whole moved each byte it covers.                *)
LEMMA WholeMoved ==
  ASSUME TypeOK, NEW c \in Calls, NEW k \in DOMAIN req[c], Whole(c, k),
         NEW p \in Positions, Covers(c, k, p)
  PROVE  /\ MovedAt(c, k, p)
         /\ p - req[c][k].offset + 1 \in 1 .. req[c][k].length
<1>1. req[c][k].offset \in Nat /\ req[c][k].length \in Nat /\ p \in Int
  BY Lengths, ElementOfSeq, RequestType, SMT DEF Positions
<1>2. p - req[c][k].offset + 1 \in 1 .. req[c][k].length
  BY <1>1, SMT DEF Covers
<1> QED
  BY <1>2 DEF Whole, MovedAt

(* Every step keeps what Gets have fetched.                                *)
LEMMA StepFetched ==
  ASSUME Inv, [Next]_payloadVars PROVE Fetched'
<1>0. TypeOK /\ InStep /\ Filled /\ Stored /\ Fetched
  BY DEF Inv
<1> SUFFICES ASSUME NEW g \in Calls \ Puts, NEW c \in before'[g] \cap Puts,
                    NEW i \in DOMAIN req'[g], NEW k \in DOMAIN req'[c],
                    NEW p \in Positions,
                    Covers(g, i, p)', MovedAt(g, i, p)',
                    Whole(c, k)', WritesTo(p)' = {<<c, k>>}
             PROVE  buf'[g][i][p - req'[g][i].offset + 1] = Text(c, k, p)'
  BY DEF Fetched
<1> DEFINE Goal == buf'[g][i][p - req'[g][i].offset + 1] = Text(c, k, p)'
<1>1. c \in Calls
  BY PayloadAssumption
<1>2. ASSUME i \in DOMAIN req[g], k \in DOMAIN req[c], c \in before[g],
             Covers(g, i, p), MovedAt(g, i, p),
             Whole(c, k), WritesTo(p) = {<<c, k>>}
      PROVE  buf[g][i][p - req[g][i].offset + 1] = Text(c, k, p)
  BY <1>0, <1>2 DEF Fetched
<1>3. CASE \E e \in Calls : \/ \E r \in PutRequests : PutRead(e, r)
                            \/ \E r \in GetRequests : GetRead(e, r)
  <2>1. PICK e \in Calls, r \in Requests, b \in Buffers : Added(e, r, b)
    BY <1>3, ReadAdds
  <2>2. Grew(e, r, b) /\ before' = before /\ e \notin ended
    BY <1>0, <2>1, AddsOne DEF Added, Adds, Streaming
  <2>3. c \in before[g] /\ c # e
    BY <1>0, <2>2 DEF InStep
  <2>4. req'[c] = req[c] /\ moved'[c] = moved[c]
    BY <1>1, <2>2, <2>3 DEF Grew
  <2>5. i \in DOMAIN req[g]
    BY <2>2 DEF Grew, MovedAt
  <2>6. /\ req'[g][i] = req[g][i] /\ moved'[g][i] = moved[g][i]
        /\ buf'[g][i] = buf[g][i]
    BY <2>2, <2>5 DEF Grew
  <2>7. Covers(g, i, p) /\ MovedAt(g, i, p) /\ Whole(c, k)
    BY <2>4, <2>6 DEF Covers, MovedAt, Whole
  <2>8. WritesTo(p) = {<<c, k>>}
    <3>1. Covers(c, k, p)
      <4>1. <<c, k>> \in WritesTo(p)'
        OBVIOUS
      <4>2. Covers(c, k, p)'
        BY <4>1 DEF WritesTo
      <4> QED
        BY <2>4, <4>2 DEF Covers
    <3>2. k \in Ids
      BY <1>0, <1>1, <2>4 DEF InStep
    <3>3. <<c, k>> \in WritesTo(p)
      BY <1>1, <2>4, <3>1, <3>2 DEF WritesTo, AskedFor
    <3>4. WritesTo(p) \subseteq WritesTo(p)'
      BY <2>2, MoreWrites
    <3> QED
      BY <3>3, <3>4
  <2>9. Text(c, k, p)' = Text(c, k, p)
    BY <2>4 DEF Text
  <2> QED
    BY <1>2, <2>3, <2>4, <2>5, <2>6, <2>7, <2>8, <2>9
<1>4. ASSUME NEW e \in Calls, Submit(e) PROVE Goal
  <2>1. /\ UNCHANGED <<req, buf, moved>> /\ issued[e] = {}
        /\ before' = [before EXCEPT ![e] = ended]
    BY <1>4 DEF Submit
  <2>2. g # e
    BY <1>0, <2>1 DEF InStep, MovedAt
  <2>3. before'[g] = before[g]
    BY <1>0, <2>1, <2>2 DEF TypeOK
  <2>4. Covers(g, i, p) /\ MovedAt(g, i, p) /\ Whole(c, k)
        /\ WritesTo(p) = {<<c, k>>} /\ Text(c, k, p)' = Text(c, k, p)
    BY <2>1, SameWrites DEF MovedAt, Whole
  <2> QED
    BY <1>2, <2>1, <2>3, <2>4
<1>5. ASSUME NEW e \in Calls, NEW h \in Ids, NEW j \in 1 .. DeviceSize,
             Transfer(e, h, j)
      PROVE  Goal
  <2>1. /\ Stirred(e, h, j) /\ h \in DOMAIN req[e] /\ e \notin ended
        /\ j \in 1 .. req[e][h].length
        /\ buf[e][h] \in [1 .. req[e][h].length -> Bytes]
    BY <1>0, <1>5, Moves, Moving
  <2>2. req' = req /\ before' = before
    BY <2>1 DEF Stirred
  <2>3. c # e /\ c \in before[g]
    BY <1>0, <2>1, <2>2 DEF InStep
  <2>4. moved'[c][k] = moved[c][k]
    BY <1>1, <2>1, <2>2, <2>3 DEF Stirred
  <2>5. /\ Covers(g, i, p) /\ Whole(c, k) /\ WritesTo(p) = {<<c, k>>}
        /\ Text(c, k, p)' = Text(c, k, p)
    BY <2>2, <2>4, SameWrites DEF Whole
  <2> DEFINE n == p - req[g][i].offset + 1
  <2>6. n \in moved'[g][i]
    BY <2>2 DEF MovedAt
  <2>7. CASE <<g, i>> = <<e, h>>
    <3>1. /\ moved'[e][h] = moved[e][h] \cup {j}
          /\ buf'[e][h] = [buf[e][h] EXCEPT ![j] = medium[Place(e, h, j)]]
      BY <2>1, <2>7 DEF Stirred
    <3>2. CASE n = j
      <4>1. p = Place(e, h, j)
        BY <1>0, <2>1, <2>7, <3>2, PlaceOf
      <4>2. <<c, k>> \in WritesTo(p) /\ Covers(c, k, p)
        BY <2>5 DEF WritesTo
      <4>3. MovedAt(c, k, p)
        BY <1>0, <1>1, <2>2, <2>5, <4>2, WholeMoved
      <4>4. medium[p] = Text(c, k, p)
        <5>1. PICK y \in WritesTo(p) : medium[p] = Text(y[1], y[2], p)
          <6>1. \E x \in WritesTo(p) : MovedAt(x[1], x[2], p)
            BY <4>2, <4>3
          <6> QED
            BY <1>0, <6>1 DEF Stored
        <5>2. y = <<c, k>>
          BY <2>5
        <5> QED
          BY <5>1, <5>2
      <4>5. buf'[e][h][j] = medium[p]
        BY <2>1, <3>1, <4>1
      <4> QED
        BY <2>2, <2>5, <2>7, <3>2, <4>4, <4>5
    <3>3. CASE n # j
      <4>1. n \in moved[g][i]
        BY <2>6, <2>7, <3>1, <3>3
      <4>2. n \in 1 .. req[g][i].length
        BY <1>0, <2>2, <4>1 DEF TypeOK
      <4>3. buf'[g][i][n] = buf[g][i][n]
        BY <2>1, <2>7, <3>1, <3>3, <4>2
      <4>4. MovedAt(g, i, p)
        BY <4>1 DEF MovedAt
      <4> QED
        BY <1>2, <2>2, <2>3, <2>5, <4>3, <4>4
    <3> QED
      BY <3>2, <3>3
  <2>8. CASE <<g, i>> # <<e, h>>
    <3>1. moved'[g][i] = moved[g][i] /\ buf'[g][i] = buf[g][i]
      BY <2>1, <2>2, <2>8 DEF Stirred
    <3>2. MovedAt(g, i, p)
      BY <2>6, <3>1 DEF MovedAt
    <3> QED
      BY <1>2, <2>2, <2>3, <2>5, <3>1, <3>2
  <2> QED
    BY <2>7, <2>8
<1>6. ASSUME UNCHANGED <<req, buf, moved, before>> PROVE Goal
  <2>1. Covers(g, i, p) /\ MovedAt(g, i, p) /\ Whole(c, k)
        /\ WritesTo(p) = {<<c, k>>} /\ Text(c, k, p)' = Text(c, k, p)
    BY <1>6, SameWrites DEF MovedAt, Whole
  <2> QED
    BY <1>2, <1>6, <2>1
<1>7. ASSUME NEW e \in Calls,
             \/ PutEnds(e) \/ GetEnds(e) \/ GetCrashes(e)
             \/ \E h \in Ids : Done(e, h)
             \/ \E r \in PutRequests : PutCrashes(e, r)
      PROVE  UNCHANGED <<req, buf, moved, before>>
  BY <1>7 DEF PutEnds, GetEnds, GetCrashes, Done, PutCrashes
<1>8. CASE UNCHANGED payloadVars
  BY <1>6, <1>8 DEF payloadVars
<1> QED
  BY <1>3, <1>4, <1>5, <1>6, <1>7, <1>8 DEF Next

-----------------------------------------------------------------------------
(* The strengthened invariant holds however many calls there are and in    *)
(* whatever order the device moves their bytes.                            *)
THEOREM InvCorrect == Spec => []Inv
<1>1. Inv /\ [Next]_payloadVars => Inv'
  BY StepTypeOK, StepInStep, StepFilled, StepStored, StepFetched DEF Inv
<1> QED
  BY InitInv, <1>1, PTL DEF Spec

(* The variables keep their types: a buffer has as many bytes as its       *)
(* request asks for, and none but those move.                              *)
THEOREM TypeCorrect == Spec => []TypeOK
<1>1. Inv => TypeOK
  BY DEF Inv
<1> QED
  BY InvCorrect, <1>1, PTL

(* A byte of the medium that a write has reached in full holds what one of *)
(* the writes that cover it was given.                                     *)
THEOREM BytesFromWritesHolds == Spec => []BytesFromWrites
<1>1. Inv => BytesFromWrites
  <2> SUFFICES ASSUME Inv, NEW p \in Positions,
                      NEW x \in WritesTo(p), Whole(x[1], x[2])
               PROVE  \E y \in WritesTo(p) : medium[p] = Text(y[1], y[2], p)
    BY DEF BytesFromWrites
  <2>1. MovedAt(x[1], x[2], p)
    BY WriteIs, WholeMoved DEF Inv
  <2> QED
    BY <2>1 DEF Inv, Stored
<1> QED
  BY InvCorrect, <1>1, PTL

(* What a Get sends of a buffer that holds a text without NULs, or the     *)
(* part of it that fits.                                                   *)
LEMMA SentText ==
  ASSUME NEW n \in Nat, NEW d \in Seq(Bytes), NULs(d) = {},
         NEW b \in [1 .. n -> Bytes],
         \A j \in 1 .. n : b[j] = IF j <= Len(d) THEN d[j] ELSE NUL
  PROVE  Sent(b) = IF Len(d) < n
                     THEN [data |-> d, overrun |-> FALSE]
                     ELSE [data |-> SubSeq(d, 1, n), overrun |-> TRUE]
<1>0. /\ b \in Seq(Bytes) /\ Len(b) = n /\ DOMAIN b = 1 .. n
      /\ Len(d) \in Nat /\ DOMAIN d = 1 .. Len(d)
  BY LenProperties, SMT
<1>1. \A j \in 1 .. Len(d) : d[j] # NUL
  BY <1>0 DEF NULs
<1>2. /\ CString(b) \in Seq(Bytes)
      /\ \A j \in Nat \ {0} :
            j <= Len(CString(b))
              <=> j <= Len(b) /\ \A k \in 1 .. j : b[k] # NUL
      /\ \A j \in 1 .. Len(CString(b)) : CString(b)[j] = b[j]
  BY <1>0, CStringIs
<1>3. Len(CString(b)) \in Nat
  BY <1>2, LenProperties
<1>4. CASE Len(d) < n
  <2>1. Len(d) + 1 \in 1 .. n /\ b[Len(d) + 1] = NUL
    BY <1>0, <1>4, SMT
  <2>2. NULs(b) # {}
    BY <1>0, <2>1 DEF NULs
  <2>3. Len(CString(b)) = Len(d)
    <3>1. ~ (Len(d) + 1 <= Len(CString(b)))
      BY <1>0, <1>2, <2>1
    <3>2. CASE Len(d) = 0
      BY <1>0, <1>3, <3>1, <3>2, SMT
    <3>3. CASE Len(d) # 0
      <4>1. Len(d) \in Nat \ {0} /\ Len(d) <= Len(b)
        BY <1>0, <1>4, <3>3, SMT
      <4>2. \A k \in 1 .. Len(d) : b[k] # NUL
        BY <1>0, <1>1, <1>4, SMT
      <4>3. Len(d) <= Len(CString(b))
        BY <1>2, <4>1, <4>2
      <4> QED
        BY <1>0, <1>3, <3>1, <4>3, SMT
    <3> QED
      BY <3>2, <3>3
  <2>4. \A j \in 1 .. Len(d) : CString(b)[j] = d[j]
    BY <1>0, <1>2, <1>4, <2>3, SMT
  <2>5. CString(b) = d
    BY <1>2, <2>3, <2>4, SeqEqual
  <2> QED
    BY <1>4, <2>2, <2>5 DEF Sent
<1>5. CASE ~ (Len(d) < n)
  <2>1. \A j \in 1 .. n : b[j] = d[j] /\ d[j] # NUL /\ j \in 1 .. Len(d)
    BY <1>0, <1>1, <1>5, SMT
  <2>2. NULs(b) = {}
    BY <1>0, <2>1 DEF NULs
  <2>3. \A j \in 1 .. n : d[j] \in Bytes
    BY <2>1, ElementOfSeq
  <2>4. /\ SubSeq(d, 1, n) \in Seq(Bytes)
        /\ Len(SubSeq(d, 1, n)) = n
        /\ \A j \in 1 .. n : SubSeq(d, 1, n)[j] = d[j]
    BY <2>3, SubSeqProperties, SMT
  <2>5. b = SubSeq(d, 1, n)
    BY <1>0, <2>1, <2>4, SeqEqual
  <2> QED
    BY <1>5, <2>2, <2>5 DEF Sent, CString
<1> QED
  BY <1>4, <1>5

(* A text that a Put wrote in full, and that no other write touches, comes *)
(* back from a Get that reads it in full, in the response to its own       *)
(* request, however the device orders and interleaves the moves.           *)
THEOREM TextComesBackHolds == Spec => []TextComesBack
<1>1. Inv => TextComesBack
  <2> SUFFICES ASSUME Inv, NEW g \in Calls, NEW c \in Calls,
                      NEW i \in Ids, NEW k \in Ids, ReadsBack(g, i, c, k),
                      NULs(req[c][k].data) = {}
               PROVE  LET r == req[c][k]
                      IN  answer[g][i] =
                            IF Len(r.data) < r.length
                              THEN [data |-> r.data, overrun |-> FALSE]
                              ELSE [data |-> SubSeq(r.data, 1, r.length),
                                    overrun |-> TRUE]
    BY DEF TextComesBack
  <2> DEFINE r == req[c][k]
             b == buf[g][i]
  <2>0. TypeOK /\ InStep /\ Filled /\ Stored /\ Fetched
    BY DEF Inv
  <2>1. /\ g \in ended /\ g \notin Puts /\ c \in before[g] /\ c \in Puts
        /\ i \in DOMAIN answer[g] /\ k \in DOMAIN req[c]
        /\ req[g][i].offset = r.offset /\ req[g][i].length = r.length
        /\ Whole(g, i) /\ Whole(c, k)
        /\ \A p \in Positions : Covers(c, k, p) => WritesTo(p) = {<<c, k>>}
    BY DEF ReadsBack
  <2>2. /\ answer[g] = [n \in DOMAIN req[g] |-> Sent(buf[g][n])]
        /\ \A n \in DOMAIN req[g] : buf[g][n] # Null
    BY <2>0, <2>1 DEF Filled
  <2>3. i \in DOMAIN req[g] /\ answer[g][i] = Sent(b)
    BY <2>1, <2>2
  <2>4. b \in [1 .. r.length -> Bytes]
    BY <2>0, <2>1, <2>2, <2>3 DEF TypeOK
  <2>5. r \in PutRequests /\ r \in Requests
    BY <2>0, <2>1 DEF Filled, Requests
  <2>6. r.data \in Seq(Bytes) /\ r.offset \in Nat /\ r.length \in Nat
    BY <2>5, PayloadAssumption, RequestType
  <2>7. ASSUME NEW j \in 1 .. r.length
        PROVE  b[j] = IF j <= Len(r.data) THEN r.data[j] ELSE NUL
    <3> DEFINE p == Place(c, k, j)
    <3>1. p \in Positions /\ Covers(c, k, p)
      BY <2>0, <2>1, PlaceOf
    <3>2. p - r.offset + 1 = j
      BY <2>6, SMT DEF Place
    <3>3. Covers(g, i, p) /\ MovedAt(g, i, p)
      <4>1. Covers(g, i, p)
        BY <2>1, <3>1 DEF Covers
      <4> HIDE DEF p
      <4> QED
        BY <2>0, <2>1, <2>3, <3>1, <4>1, WholeMoved
    <3>4. b[p - req[g][i].offset + 1] = Text(c, k, p)
      <4> HIDE DEF p
      <4> QED
        BY <2>0, <2>1, <2>3, <3>1, <3>3 DEF Fetched
    <3>5. j <= Len(r.data) => \A n \in 1 .. j : r.data[n] # NUL
      BY <2>6, LenProperties, SMT DEF NULs
    <3> HIDE DEF p
    <3> QED
      BY <2>1, <3>2, <3>4, <3>5 DEF Text
  <2>8. NULs(r.data) = {}
    OBVIOUS
  <2> HIDE DEF r, b
  <2>9. Sent(b) = IF Len(r.data) < r.length
                    THEN [data |-> r.data, overrun |-> FALSE]
                    ELSE [data |-> SubSeq(r.data, 1, r.length), overrun |-> TRUE]
    BY <2>4, <2>6, <2>7, <2>8, SentText
  <2> QED
    BY <2>3, <2>9 DEF r
<1> QED
  BY InvCorrect, <1>1, PTL

=============================================================================
