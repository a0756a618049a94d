--------------------------- MODULE KfsRequestProofs --------------------------
(***************************************************************************)
(* The properties of KfsRequest, for every number of transfers, headers and*)
(* pieces of a body.                                                       *)
(***************************************************************************)
EXTENDS KfsRequest, SequenceTheorems, TLAPS

\* The parts of TypeOK.
States ==
  /\ phase \in {"idle", "transfer", "headers", "reported", "deleted", "crashed"}
  /\ handle \in BOOLEAN /\ ok \in BOOLEAN /\ method \in {"GET", "POST"}
Counts ==
  /\ transfer \in 0..MaxTransfers /\ answer \in Answers /\ arrived \in 0..MaxChunks
  /\ headers \in 0..MaxSet /\ header_size \in 0..MaxHeaders
Texts == url \in {NULL} \cup 1..transfer /\ content_type \in {NULL} \cup 1..transfer
HasRoom ==
  /\ header_names = NULL <=> header_values = NULL
  /\ header_size > 0 /\ phase # "deleted" =>
       header_names # NULL /\ header_size <= Len(header_names)
       /\ header_size <= Len(header_values)
Typed == States /\ Counts /\ Texts /\ HasRoom

\* What an array of headers holds, and the response.
Pointers == {NULL} \cup (Nat \X Nat)
Arrays == {NULL} \cup Seq(Pointers)
ArraysOK ==
  /\ header_names \in Arrays /\ header_values \in Arrays
  /\ response \in {NULL} \cup Seq(Nat \X Nat)

\* While the headers are read, url and content type are of this transfer, and
\* so are the headers read so far; after RET_OK that stays true.
OfTransfer ==
  /\ url = transfer
  /\ content_type = IF answer.type THEN transfer ELSE NULL
  /\ HeadersReadable
HeadersOK ==
  /\ phase \in {"transfer", "headers"} => transfer >= 1
  /\ phase = "headers" => OfTransfer /\ header_size <= answer.headers
  /\ ok /\ phase \in {"idle", "reported"} => OfTransfer /\ header_size = answer.headers

\* The response ends with the pieces of the last transfer that have arrived.
Ending ==
  \A k \in 1..arrived : response[Len(response) - arrived + k] = <<transfer, k>>
ResponseOK ==
  /\ response = NULL => arrived = 0
  /\ transfer = 0 => response = NULL
  /\ response # NULL => Len(response) >= arrived /\ Ending
  /\ transfer <= 1 => (IF arrived = 0 THEN response = NULL
                       ELSE response # NULL /\ Len(response) = arrived)

\* Without a handle nothing was ever obtained; a content type that is not of this
\* transfer is of one before, and unless a call has just returned RET_OK it is that.
Outdated == content_type = NULL \/ content_type < transfer
TypeOutdated ==
  /\ ~handle /\ phase # "deleted" => content_type = NULL
  /\ phase \in {"transfer", "headers"} => handle
  /\ phase = "transfer" => Outdated
  /\ ~ok /\ phase \in {"idle", "reported"} => Outdated

IInv == Typed /\ ArraysOK /\ HeadersOK /\ ResponseOK /\ TypeOutdated

\* The initial state satisfies the inductive invariant.
LEMMA InitIInv == Init => IInv
<1> SUFFICES ASSUME Init PROVE IInv
  OBVIOUS
<1> USE RequestAssumption DEF RequestAssumption
<1>1. Typed
  <2>1. States
    BY DEF Init, States
  <2>2. Counts
    BY DEF Init, Counts, Answers, Silent
  <2>3. Texts /\ HasRoom
    BY DEF Init, Texts, HasRoom
  <2> QED BY <2>1, <2>2, <2>3 DEF Typed
<1>2. ArraysOK
  BY DEF Init, ArraysOK, Arrays
<1>3. HeadersOK
  BY DEF Init, HeadersOK
<1>4. ResponseOK
  BY DEF Init, ResponseOK
<1>5. TypeOutdated
  BY DEF Init, TypeOutdated, Outdated
<1> QED BY <1>1, <1>2, <1>3, <1>4, <1>5 DEF IInv

\* The array that request_post_perform stores a header in has one place more than
\* header_size, whatever it was before, and keeps what is in the others.
LEMMA StoredKeeps ==
  ASSUME NEW array \in Arrays, header_size \in Nat, NEW pointer \in Pointers,
         header_size > 0 => array # NULL /\ header_size <= Len(array)
  PROVE  /\ Stored(array, pointer) \in Seq(Pointers)
         /\ Stored(array, pointer) # NULL
         /\ Len(Stored(array, pointer)) = header_size + 1
         /\ \A i \in 1..header_size : Stored(array, pointer)[i] = array[i]
         /\ Stored(array, pointer)[header_size + 1] = pointer
<1> DEFINE room == Room(array)
<1>1. /\ room \in [1..(header_size + 1) -> Pointers]
      /\ \A i \in 1..header_size : room[i] = array[i]
  <2>1. CASE array = NULL
    <3>1. header_size = 0
      BY <2>1
    <3>2. room = [i \in 1..1 |-> NULL]
      BY <2>1 DEF Room, Realloc
    <3> QED BY <3>1, <3>2 DEF Pointers
  <2>2. CASE array # NULL
    <3>1. array \in Seq(Pointers)
      BY <2>2 DEF Arrays
    <3>2. /\ Len(array) \in Nat
          /\ \A i \in 1..Len(array) : array[i] \in Pointers
      BY <3>1
    <3>3. room = [i \in 1..(1 + header_size) |-> IF i <= Len(array) THEN array[i] ELSE NULL]
      BY <2>2 DEF Room, Realloc
    <3>4. \A i \in 1..(1 + header_size) :
            (IF i <= Len(array) THEN array[i] ELSE NULL) \in Pointers
      BY <3>2 DEF Pointers
    <3>5. 1 + header_size = header_size + 1
      OBVIOUS
    <3>6. room \in [1..(header_size + 1) -> Pointers]
      BY <3>3, <3>4, <3>5
    <3>7. header_size <= Len(array)
      BY <3>2
    <3>8. \A i \in 1..header_size : room[i] = array[i]
      BY <3>2, <3>3, <3>7
    <3> QED BY <3>6, <3>8
  <2> QED BY <2>1, <2>2
<1> HIDE DEF room
<1>2. room \in Seq(Pointers) /\ Len(room) = header_size + 1
  BY <1>1
<1>3. Stored(array, pointer) = [room EXCEPT ![header_size + 1] = pointer]
  BY <1>2 DEF Stored, room
<1>4. /\ Stored(array, pointer) \in Seq(Pointers)
      /\ Len(Stored(array, pointer)) = header_size + 1
      /\ \A i \in 1..(header_size + 1) :
           Stored(array, pointer)[i] = IF i = header_size + 1 THEN pointer ELSE room[i]
  <2>1. header_size + 1 \in 1..Len(room)
    BY <1>2
  <2> QED BY <1>2, <1>3, <2>1, ExceptSeq
<1>5. Stored(array, pointer) # NULL
  BY <1>4, RequestAssumption DEF RequestAssumption, Pointers
<1>6. \A i \in 1..header_size : Stored(array, pointer)[i] = array[i]
  BY <1>1, <1>4
<1> QED BY <1>4, <1>5, <1>6

-----------------------------------------------------------------------------
(* The inductive invariant is kept                                          *)

\* A step that leaves what the request holds as it is, and the transfer.
Quiet == UNCHANGED <<method, transfer, answer, arrived, url, content_type, header_size,
                     header_names, header_values, response>>

\* Whatever else a step does, it keeps the inductive invariant if it is quiet, ends
\* a call with RET_OK only where all headers have been read, and with RET_ERR only
\* where a transfer was under way.
LEMMA QuietKeeps ==
  ASSUME IInv, Quiet,
         phase' \in {"idle", "headers", "transfer", "reported", "crashed"},
         headers' \in 0..MaxSet, handle' = handle, ok' \in BOOLEAN,
         phase # "deleted",
         phase' \in {"transfer", "headers"} => phase' = phase,
         ok' /\ phase' \in {"idle", "reported"} =>
            (ok /\ phase \in {"idle", "reported"})
            \/ (phase = "headers" /\ header_size = answer.headers),
         ~ok' /\ phase' \in {"idle", "reported"} =>
            (~ok /\ phase \in {"idle", "reported"}) \/ phase = "transfer"
  PROVE  IInv'
<1> USE DEF Quiet
<1>1. Typed'
  <2>1. States'
    BY DEF IInv, Typed, States
  <2>2. Counts'
    BY DEF IInv, Typed, Counts
  <2>3. Texts'
    BY DEF IInv, Typed, Counts, Texts
  <2>4. HasRoom'
    BY DEF IInv, Typed, States, HasRoom
  <2> QED BY <2>1, <2>2, <2>3, <2>4 DEF Typed
<1>2. ArraysOK'
  BY DEF IInv, ArraysOK
<1>3. OfTransfer => OfTransfer'
  BY DEF OfTransfer, HeadersReadable, HeaderReadable
<1>4. HeadersOK'
  BY <1>3 DEF IInv, HeadersOK
<1>5. ResponseOK'
  BY DEF IInv, ResponseOK, Ending
<1>6. TypeOutdated'
  BY DEF IInv, TypeOutdated, Outdated
<1> QED BY <1>1, <1>2, <1>4, <1>5, <1>6 DEF IInv

\* request_delete keeps the inductive invariant.
LEMMA DeleteKeeps == IInv /\ Delete => IInv'
<1> SUFFICES ASSUME IInv, Delete PROVE IInv'
  OBVIOUS
<1> USE DEF Delete
<1>1. Typed'
  <2>1. States'
    BY DEF IInv, Typed, States
  <2>2. Counts'
    BY RequestAssumption DEF IInv, Typed, Counts, RequestAssumption
  <2>3. Texts'
    BY DEF IInv, Typed, Counts, Texts
  <2>4. HasRoom'
    BY DEF IInv, Typed, States, HasRoom
  <2> QED BY <2>1, <2>2, <2>3, <2>4 DEF Typed
<1>2. ArraysOK'
  BY DEF IInv, ArraysOK, Arrays
<1>3. HeadersOK'
  BY DEF IInv, HeadersOK
<1>4. ResponseOK'
  BY DEF IInv, ResponseOK, Ending
<1>5. TypeOutdated'
  BY DEF TypeOutdated
<1> QED BY <1>1, <1>2, <1>3, <1>4, <1>5 DEF IInv

\* A transfer begins with no piece of its body, after whatever is in the response.
LEMMA PerformKeeps == ASSUME NEW m \in {"GET", "POST"}, IInv, Perform(m) PROVE IInv'
<1>1. CASE ~handle
  <2>1. UNCHANGED <<phase, transfer, answer, arrived, fields>> /\ ok' = FALSE /\ phase = "idle"
    BY <1>1 DEF Perform
  <2>2. Typed'
    <3>1. States'
      BY <2>1 DEF IInv, Typed, States, Perform, fields
    <3>2. Counts'
      BY <2>1 DEF IInv, Typed, Counts, Perform, fields
    <3>3. Texts'
      BY <2>1 DEF IInv, Typed, Counts, Texts, Perform, fields
    <3>4. HasRoom'
      BY <2>1 DEF IInv, Typed, States, HasRoom, Perform, fields
    <3> QED BY <3>1, <3>2, <3>3, <3>4 DEF Typed
  <2>3. ArraysOK'
    BY <2>1 DEF IInv, ArraysOK, fields
  <2>4. HeadersOK'
    BY <2>1 DEF IInv, HeadersOK, fields
  <2>5. ResponseOK'
    BY <2>1 DEF IInv, ResponseOK, Ending, fields
  <2>6. TypeOutdated'
    BY <1>1, <2>1 DEF IInv, TypeOutdated, Outdated, Perform, fields
  <2> QED BY <2>2, <2>3, <2>4, <2>5, <2>6 DEF IInv
<1>2. CASE handle
  <2>1. /\ phase' = "transfer" /\ transfer' = transfer + 1 /\ answer' \in Answers
        /\ arrived' = 0 /\ UNCHANGED <<ok, handle, fields>> /\ method' = m
        /\ transfer < MaxTransfers /\ phase = "idle"
    BY <1>2 DEF Perform
  <2>2. Typed'
    <3>1. States'
      BY <2>1, RequestAssumption
          DEF IInv, Typed, States, HeadersOK, fields, RequestAssumption
    <3>2. Counts'
      BY <2>1, RequestAssumption
          DEF IInv, Typed, Counts, HeadersOK, fields, RequestAssumption
    <3>3. Texts'
      BY <2>1, RequestAssumption
          DEF IInv, Typed, Counts, Texts, HeadersOK, fields, RequestAssumption
    <3>4. HasRoom'
      BY <2>1, RequestAssumption
          DEF IInv, Typed, States, HasRoom, HeadersOK, fields, RequestAssumption
    <3> QED BY <3>1, <3>2, <3>3, <3>4 DEF Typed
  <2>3. ArraysOK'
    BY <2>1 DEF IInv, ArraysOK, fields
  <2>4. HeadersOK'
    BY <2>1 DEF IInv, Typed, Counts, HeadersOK
  <2>5. ResponseOK'
    <3>1. transfer \in Nat
      BY DEF IInv, Typed, Counts
    <3>2. response # NULL => Len(response) >= 0
      BY DEF IInv, ArraysOK
    <3>3. transfer' <= 1 => response = NULL
      BY <2>1, <3>1 DEF IInv, ResponseOK, Typed, Counts
    <3> QED BY <2>1, <3>2, <3>3 DEF ResponseOK, Ending, fields
  <2>6. TypeOutdated'
    <3>1. transfer \in Nat /\ content_type \in {NULL} \cup 1..transfer
      BY DEF IInv, Typed, Counts, Texts
    <3>2. Outdated'
      BY <2>1, <3>1 DEF Outdated, fields
    <3> QED BY <1>2, <2>1, <3>2 DEF TypeOutdated
  <2> QED BY <2>2, <2>3, <2>4, <2>5, <2>6 DEF IInv
<1> QED BY <1>1, <1>2

\* A piece of the body is appended, and it is the next one of this transfer.
LEMMA MemWriteKeeps == IInv /\ MemWrite => IInv'
<1> SUFFICES ASSUME IInv, MemWrite PROVE IInv'
  OBVIOUS
<1> DEFINE old == IF response = NULL THEN <<>> ELSE response
           piece == <<transfer, arrived + 1>>
<1>1. /\ phase = "transfer" /\ arrived < MaxChunks /\ arrived' = arrived + 1
      /\ response' = Append(old, piece)
      /\ UNCHANGED <<phase, handle, method, transfer, answer, ok, headers, url, content_type,
                     header_size, header_names, header_values>>
  BY DEF MemWrite
<1>2. transfer \in Nat /\ arrived \in Nat /\ transfer >= 1
  BY <1>1 DEF IInv, Typed, Counts, HeadersOK
<1>3. old \in Seq(Nat \X Nat) /\ piece \in Nat \X Nat
  BY <1>2 DEF IInv, ArraysOK
<1>4. Len(old) \in Nat /\ Len(old) >= arrived
      /\ \A k \in 1..arrived : old[Len(old) - arrived + k] = <<transfer, k>>
  <2>1. CASE response = NULL
    BY <1>2, <1>3, <2>1 DEF IInv, ResponseOK
  <2>2. CASE response # NULL
    <3>1. old = response /\ Len(old) \in Nat
      BY <1>3, <2>2
    <3> QED BY <3>1, <2>2 DEF IInv, ResponseOK, Ending
  <2> QED BY <2>1, <2>2
<1> HIDE DEF old, piece
<1>5. /\ response' \in Seq(Nat \X Nat)
      /\ Len(response') = Len(old) + 1
      /\ \A i \in 1..Len(old) : response'[i] = old[i]
      /\ response'[Len(old) + 1] = piece
  BY <1>1, <1>3, AppendProperties
<1>6. response' # NULL
  <2>1. response' \in Seq({NULL} \cup (Nat \X Nat))
    BY <1>5, SeqMonotonic
  <2> QED BY <2>1, RequestAssumption DEF RequestAssumption
<1>7. Typed'
  <2>1. States'
    BY <1>1, RequestAssumption
        DEF IInv, Typed, States, RequestAssumption
  <2>2. Counts'
    BY <1>1, RequestAssumption
        DEF IInv, Typed, Counts, RequestAssumption
  <2>3. Texts'
    BY <1>1, RequestAssumption
        DEF IInv, Typed, Counts, Texts, RequestAssumption
  <2>4. HasRoom'
    BY <1>1, RequestAssumption
        DEF IInv, Typed, States, HasRoom, RequestAssumption
  <2> QED BY <2>1, <2>2, <2>3, <2>4 DEF Typed
<1>8. ArraysOK'
  BY <1>1, <1>5 DEF IInv, ArraysOK
<1>9. HeadersOK'
  BY <1>1 DEF IInv, HeadersOK
<1>10. Ending'
  <2> SUFFICES ASSUME NEW k \in 1..(arrived + 1)
               PROVE  response'[Len(old) - arrived + k] = <<transfer, k>>
    <3>1. Len(response') - arrived' = Len(old) - arrived
      BY <1>1, <1>2, <1>4, <1>5
    <3> QED BY <1>1, <3>1 DEF Ending
  <2>1. CASE k = arrived + 1
    BY <2>1, <1>2, <1>4, <1>5 DEF piece
  <2>2. CASE k \in 1..arrived
    <3>1. Len(old) - arrived + k \in 1..Len(old)
      BY <2>2, <1>2, <1>4
    <3> QED BY <2>2, <3>1, <1>4, <1>5
  <2> QED BY <1>2, <2>1, <2>2
<1>11. transfer <= 1 => Len(old) = arrived
  BY <1>2 DEF IInv, ResponseOK, old
<1>12. ResponseOK'
  BY <1>1, <1>2, <1>4, <1>5, <1>6, <1>10, <1>11 DEF ResponseOK
<1>13. TypeOutdated'
  BY <1>1 DEF IInv, TypeOutdated, Outdated
<1> QED BY <1>7, <1>8, <1>9, <1>12, <1>13 DEF IInv

\* After a transfer the url and the content type are asked for, and header_size is
\* zero before the first header is read.
LEMMA TransferDoneKeeps == IInv /\ TransferDone => IInv'
<1> SUFFICES ASSUME IInv, TransferDone PROVE IInv'
  OBVIOUS
<1> USE DEF TransferDone, curl
<1>1. Typed'
  <2>1. States'
    BY RequestAssumption
        DEF IInv, Typed, States, HeadersOK, RequestAssumption
  <2>2. Counts'
    BY RequestAssumption
        DEF IInv, Typed, Counts, HeadersOK, RequestAssumption
  <2>3. Texts'
    BY RequestAssumption
        DEF IInv, Typed, Counts, Texts, HeadersOK, RequestAssumption
  <2>4. HasRoom'
    BY RequestAssumption
        DEF IInv, Typed, States, HasRoom, HeadersOK, RequestAssumption
  <2> QED BY <2>1, <2>2, <2>3, <2>4 DEF Typed
<1>2. ArraysOK'
  BY DEF IInv, ArraysOK
<1>3. HeadersOK'
  <2>1. OfTransfer'
    BY DEF OfTransfer, HeadersReadable
  <2>2. 0 <= answer.headers
    BY DEF IInv, Typed, Counts, Answers
  <2> QED BY <2>1, <2>2 DEF IInv, HeadersOK
<1>4. ResponseOK'
  BY DEF IInv, ResponseOK, Ending
<1>5. TypeOutdated'
  BY DEF IInv, TypeOutdated
<1> QED BY <1>1, <1>2, <1>3, <1>4, <1>5 DEF IInv

\* Reading a header keeps those read before, and stores the next one after them.
LEMMA ReadHeaderKeeps == IInv /\ ReadHeader => IInv'
<1> SUFFICES ASSUME IInv, ReadHeader PROVE IInv'
  OBVIOUS
<1> DEFINE pointer == <<transfer, header_size + 1>>
<1>1. /\ phase = "headers" /\ header_size < answer.headers /\ header_size' = header_size + 1
      /\ header_names' = Stored(header_names, pointer)
      /\ header_values' = Stored(header_values, pointer)
      /\ UNCHANGED <<phase, handle, method, transfer, answer, arrived, ok, headers, url,
                     content_type, response>>
  BY DEF ReadHeader, curl
<1>2. /\ header_size \in Nat /\ transfer \in Nat
      /\ answer.headers \in 0..MaxHeaders
  BY DEF IInv, Typed, Counts, Answers
<1>3. pointer \in Pointers
  BY <1>2 DEF Pointers
<1>4. OfTransfer
  BY <1>1 DEF IInv, HeadersOK
<1>5. header_size > 0 => /\ header_names # NULL /\ header_size <= Len(header_names)
                         /\ header_values # NULL /\ header_size <= Len(header_values)
  BY <1>1 DEF IInv, Typed, Counts, HasRoom
<1> HIDE DEF pointer
<1>6. /\ header_names' \in Seq(Pointers) /\ header_names' # NULL
      /\ Len(header_names') = header_size + 1
      /\ \A i \in 1..header_size : header_names'[i] = header_names[i]
      /\ header_names'[header_size + 1] = pointer
  BY <1>1, <1>2, <1>3, <1>5, StoredKeeps DEF IInv, ArraysOK
<1>7. /\ header_values' \in Seq(Pointers) /\ header_values' # NULL
      /\ Len(header_values') = header_size + 1
      /\ \A i \in 1..header_size : header_values'[i] = header_values[i]
      /\ header_values'[header_size + 1] = pointer
  BY <1>1, <1>2, <1>3, <1>5, StoredKeeps DEF IInv, ArraysOK
<1>8. Typed'
  <2>1. States'
    BY <1>1 DEF IInv, Typed, States
  <2>2. Counts'
    <3>1. header_size' \in 0..MaxHeaders
      BY <1>1, <1>2, RequestAssumption DEF RequestAssumption
    <3> QED BY <1>1, <3>1 DEF IInv, Typed, Counts, Answers
  <2>3. Texts'
    BY <1>1 DEF IInv, Typed, Counts, Texts
  <2>4. HasRoom'
    BY <1>1, <1>2, <1>6, <1>7 DEF IInv, Typed, States, HasRoom
  <2> QED BY <2>1, <2>2, <2>3, <2>4 DEF Typed
<1>9. ArraysOK'
  BY <1>1, <1>6, <1>7 DEF IInv, ArraysOK, Arrays
<1>10. HeadersReadable'
  <2> SUFFICES ASSUME NEW i \in 1..(header_size + 1)
               PROVE  HeaderReadable(header_names, i)' /\ HeaderReadable(header_values, i)'
    BY <1>1 DEF HeadersReadable, HeaderReadable
  <2>1. CASE i = header_size + 1
    <3>1. header_names'[i] = <<transfer', i>> /\ header_values'[i] = <<transfer', i>>
      BY <2>1, <1>1, <1>6, <1>7 DEF pointer
    <3> QED BY <2>1, <3>1, <1>2, <1>6, <1>7 DEF HeaderReadable
  <2>2. CASE i \in 1..header_size
    <3>1. HeaderReadable(header_names, i) /\ HeaderReadable(header_values, i)
      BY <2>2, <1>4 DEF OfTransfer, HeadersReadable
    <3> QED BY <2>2, <3>1, <1>1, <1>2, <1>6, <1>7 DEF HeaderReadable
  <2> QED BY <1>2, <2>1, <2>2
<1>11. HeadersOK'
  <2>1. OfTransfer'
    BY <1>1, <1>4, <1>10 DEF OfTransfer
  <2>2. header_size' <= answer'.headers
    BY <1>1, <1>2
  <2> QED BY <1>1, <2>1, <2>2 DEF IInv, HeadersOK
<1>12. ResponseOK'
  BY <1>1 DEF IInv, ResponseOK, Ending
<1>13. TypeOutdated'
  BY <1>1 DEF IInv, TypeOutdated
<1> QED BY <1>8, <1>9, <1>11, <1>12, <1>13 DEF IInv

\* The inductive invariant is kept by every step.
LEMMA NextIInv == IInv /\ [Next]_vars => IInv'
<1> SUFFICES ASSUME IInv, [Next]_vars PROVE IInv'
  OBVIOUS
<1> USE DEF curl, fields, Quiet
<1>1. CASE SetHeader
  BY <1>1, QuietKeeps, RequestAssumption
     DEF SetHeader, IInv, Typed, States, Counts, RequestAssumption
<1>2. CASE Delete
  BY <1>2, DeleteKeeps
<1>3. CASE Perform("GET") \/ Perform("POST")
  BY <1>3, PerformKeeps
<1>4. CASE FollowForm
  BY <1>4, QuietKeeps DEF FollowForm, IInv, Typed, States, Counts
<1>5. CASE MemWrite
  BY <1>5, MemWriteKeeps
<1>6. CASE TransferFails
  BY <1>6, QuietKeeps DEF TransferFails, IInv, Typed, States, Counts
<1>7. CASE TransferDone
  BY <1>7, TransferDoneKeeps
<1>8. CASE ReadHeader
  BY <1>8, ReadHeaderKeeps
<1>9. CASE HeadersRead
  BY <1>9, QuietKeeps DEF HeadersRead, IInv, Typed, States, Counts
<1>10. CASE ToValue
  BY <1>10, QuietKeeps DEF ToValue, IInv, Typed, States, Counts
<1>11. CASE ToText
  BY <1>11, QuietKeeps DEF ToText, IInv, Typed, States, Counts
<1>12. CASE Reported
  BY <1>12, QuietKeeps DEF Reported, IInv, Typed, States, Counts
<1>13. CASE UNCHANGED vars
  <2> USE <1>13 DEF vars
  <2>1. Typed'
    BY DEF IInv, Typed, States, Counts, Answers, Texts, HasRoom
  <2>3. ArraysOK' /\ ResponseOK'
    BY DEF IInv, ArraysOK, ResponseOK, Ending
  <2>2. HeadersOK'
    BY DEF IInv, HeadersOK, OfTransfer, HeadersReadable, HeaderReadable
  <2>4. TypeOutdated'
    BY DEF IInv, TypeOutdated, Outdated
  <2> QED BY <2>1, <2>2, <2>3, <2>4 DEF IInv
<1> QED BY <1>1, <1>2, <1>3, <1>4, <1>5, <1>6, <1>7, <1>8, <1>9, <1>10, <1>11, <1>12, <1>13
        DEF Next, Over

\* In every state of every run the inductive invariant holds.
LEMMA SpecIInv == Spec => []IInv
  BY InitIInv, NextIInv, PTL DEF Spec

-----------------------------------------------------------------------------
(* What a user of a request can rely on                                    *)

\* The arrays of headers always have room for as many as header_size counts,
\* however many headers the answers of the transfers have one after another.
THEOREM TypeCorrect == Spec => []TypeOK
<1>1. IInv => TypeOK
  BY DEF IInv, Typed, States, Counts, Texts, HasRoom, TypeOK
<1> QED BY <1>1, SpecIInv, PTL

\* A body that arrived piece by piece is a suffix of a response that ends with its
\* pieces: the Reverse of the one begins the Reverse of the other.
LEMMA EndingIsSuffix ==
  ASSUME NEW body \in Seq(Nat \X Nat), NEW text \in Seq(Nat \X Nat),
         Len(body) <= Len(text),
         \A k \in 1..Len(body) : text[Len(text) - Len(body) + k] = body[k]
  PROVE  IsSuffix(body, text)
<1> DEFINE b == Reverse(body)
           t == Reverse(text)
<1>1. Len(body) \in Nat /\ Len(text) \in Nat
  OBVIOUS
<1>6. /\ \A i \in 1..Len(body) : (Len(body) - i) + 1 \in 1..Len(body)
      /\ \A i \in 1..Len(text) : (Len(text) - i) + 1 \in 1..Len(text)
  BY <1>1
<1>2. /\ b \in [1..Len(body) -> Nat \X Nat]
      /\ t \in [1..Len(text) -> Nat \X Nat]
      /\ \A i \in 1..Len(body) : b[i] = body[(Len(body) - i) + 1]
      /\ \A i \in 1..Len(text) : t[i] = text[(Len(text) - i) + 1]
  <2>1. \A i \in 1..Len(body) : body[(Len(body) - i) + 1] \in Nat \X Nat
    BY <1>6, ElementOfSeq
  <2>2. \A i \in 1..Len(text) : text[(Len(text) - i) + 1] \in Nat \X Nat
    BY <1>6, ElementOfSeq
  <2> QED BY <2>1, <2>2 DEF Reverse
<1> HIDE DEF b, t
<1>3. /\ b \in Seq(Nat \X Nat) /\ Len(b) = Len(body)
      /\ t \in Seq(Nat \X Nat) /\ Len(t) = Len(text)
  <2>1. ASSUME NEW n \in Nat, NEW f \in [1..n -> Nat \X Nat]
        PROVE  f \in Seq(Nat \X Nat) /\ Len(f) = n
    OBVIOUS
  <2> QED BY <1>1, <1>2, <2>1
<1>4. \A i \in 1..Len(body) : b[i] = t[i]
  <2> SUFFICES ASSUME NEW i \in 1..Len(body) PROVE b[i] = t[i]
    OBVIOUS
  <2> DEFINE k == (Len(body) - i) + 1
  <2>1. k \in 1..Len(body) /\ i \in 1..Len(text)
    BY <1>1
  <2>2. Len(text) - Len(body) + k = (Len(text) - i) + 1
    BY <1>1
  <2> QED BY <1>2, <2>1, <2>2
<1>5. SubSeq(b, 1, Len(b)) = SubSeq(t, 1, Len(b))
  <2>1. \A i \in 1..Len(b) : b[i] \in Nat \X Nat /\ t[i] \in Nat \X Nat
    BY <1>2, <1>3, <1>4
  <2> DEFINE u == SubSeq(b, 1, Len(b))
             v == SubSeq(t, 1, Len(b))
  <2>2. /\ u \in Seq(Nat \X Nat) /\ Len(u) = Len(b)
        /\ \A i \in 1..Len(b) : u[i] = b[i]
    <3>1. Len(b) - 1 + 1 = Len(b) /\ 1 \in Int /\ Len(b) \in Int
      BY <1>1, <1>3
    <3>2. /\ u \in Seq(Nat \X Nat) /\ Len(u) = IF 1 <= Len(b) THEN Len(b) - 1 + 1 ELSE 0
          /\ \A i \in 1..(Len(b) - 1 + 1) : u[i] = b[1 + i - 1]
      BY <2>1, <3>1, SubSeqProperties
    <3> HIDE DEF u
    <3> QED BY <1>1, <1>3, <3>1, <3>2
  <2>3. /\ v \in Seq(Nat \X Nat) /\ Len(v) = Len(b)
        /\ \A i \in 1..Len(b) : v[i] = t[i]
    <3>1. Len(b) - 1 + 1 = Len(b) /\ 1 \in Int /\ Len(b) \in Int
      BY <1>1, <1>3
    <3>2. /\ v \in Seq(Nat \X Nat) /\ Len(v) = IF 1 <= Len(b) THEN Len(b) - 1 + 1 ELSE 0
          /\ \A i \in 1..(Len(b) - 1 + 1) : v[i] = t[1 + i - 1]
      BY <2>1, <3>1, SubSeqProperties
    <3> HIDE DEF v
    <3> QED BY <1>1, <1>3, <3>1, <3>2
  <2> HIDE DEF u, v
  <2>4. u = v
    BY <1>3, <1>4, <2>2, <2>3, SeqEqual
  <2> QED BY <2>4 DEF u, v
<1> QED BY <1>3, <1>5 DEF IsSuffix, IsPrefix, b, t

\* In a state of the inductive invariant a request that reported RET_OK holds what
\* its last transfer gave it.
LEMMA IInvReports == IInv => ReportsLastTransfer
<1> SUFFICES ASSUME IInv, ok, phase \in {"idle", "reported"} PROVE ReportsLastTransfer
  BY DEF ReportsLastTransfer
<1> DEFINE body == [k \in 1..arrived |-> <<transfer, k>>]
<1>1. OfTransfer /\ header_size = answer.headers
  BY DEF IInv, HeadersOK
<1>2. arrived \in Nat /\ transfer \in Nat
  BY DEF IInv, Typed, Counts
<1>3. /\ body \in Seq(Nat \X Nat) /\ Len(body) = arrived
      /\ \A k \in 1..arrived : body[k] = <<transfer, k>>
  BY <1>2
<1> HIDE DEF body
<1>4. body = <<>> <=> arrived = 0
  BY <1>2, <1>3
<1>5. ASSUME body # <<>>
      PROVE  response # NULL /\ response \in Seq(Nat \X Nat) /\ IsSuffix(body, response)
  <2>1. response # NULL /\ response \in Seq(Nat \X Nat)
    BY <1>4, <1>5 DEF IInv, ResponseOK, ArraysOK
  <2>2. /\ Len(body) <= Len(response)
        /\ \A k \in 1..Len(body) : response[Len(response) - Len(body) + k] = body[k]
    BY <1>2, <1>3, <2>1 DEF IInv, ResponseOK, Ending
  <2> QED BY <1>3, <2>1, <2>2, EndingIsSuffix
<1>6. ASSUME transfer = 1
      PROVE  response = IF body = <<>> THEN NULL ELSE body
  <2>1. CASE body = <<>>
    BY <1>4, <1>6, <2>1 DEF IInv, ResponseOK
  <2>2. CASE body # <<>>
    <3>1. response \in Seq(Nat \X Nat) /\ Len(response) = arrived
      BY <1>4, <1>5, <1>6, <2>2 DEF IInv, ResponseOK
    <3>2. \A k \in 1..arrived : response[(Len(response) - arrived) + k] = body[k]
      BY <1>3, <1>5, <2>2 DEF IInv, ResponseOK, Ending
    <3>4. \A k \in 1..arrived : (Len(response) - arrived) + k = k
      BY <1>2, <3>1
    <3>5. \A k \in 1..arrived : response[k] = body[k]
      BY <3>2, <3>4
    <3>3. response = body
      BY <1>3, <3>1, <3>5, SeqEqual
    <3> QED BY <2>2, <3>3
  <2> QED BY <2>1, <2>2
<1> QED BY <1>1, <1>5, <1>6 DEF ReportsLastTransfer, OfTransfer, body

\* Once a call has returned RET_OK, url, content type, headers and the end of the
\* response are those of its transfer, whatever transfers there were before.
THEOREM ReportsAreOfLastTransfer == Spec => []ReportsLastTransfer
  BY SpecIInv, IInvReports, PTL

\* A report follows no pointer that is missing or dangles exactly if the last call
\* returned RET_OK, its answer had a content type and some body has arrived.
THEOREM ReportsAreSafe == Spec => ReportIsSafe
<1> DEFINE Held == ok /\ content_type # NULL /\ response # NULL
           Safe == phase = "idle" /\ phase' \in {"reported", "crashed"} =>
                     (phase' = "reported" <=> Held)
<1>1. IInv /\ [Next]_vars => [Safe]_vars
  <2> SUFFICES ASSUME IInv, Next, phase = "idle", phase' \in {"reported", "crashed"}
               PROVE  phase' = "reported" <=> Held
    OBVIOUS
  <2>1. ToValue \/ ToText
    BY DEF Next, SetHeader, Delete, Perform, FollowForm, MemWrite, TransferFails, TransferDone,
           ReadHeader, HeadersRead, Reported, Over, vars
  <2>2. ASSUME Held PROVE phase' = "reported"
    <3>1. OfTransfer /\ content_type = transfer
      BY <2>2 DEF IInv, HeadersOK, OfTransfer
    <3>2. transfer # NULL
      BY RequestAssumption DEF RequestAssumption, IInv, Typed, Counts
    <3>3. Readable(url) /\ Readable(content_type) /\ HeadersReadable
      BY <3>1, <3>2 DEF OfTransfer, Readable
    <3> QED BY <2>1, <2>2, <3>3 DEF ToValue, ToText
  <2>3. ASSUME phase' = "reported" PROVE Held
    <3>1. Readable(content_type) /\ response # NULL
      BY <2>1, <2>3 DEF ToValue, ToText
    <3>2. ~Outdated
      BY <3>1 DEF Readable, Outdated, IInv, Typed, Counts
    <3> QED BY <3>1, <3>2 DEF Readable, IInv, Typed, States, TypeOutdated
  <2> QED BY <2>2, <2>3
<1> QED BY <1>1, SpecIInv, PTL DEF Spec, ReportIsSafe

=============================================================================
