----------------------------- MODULE KfsRequest ------------------------------
(***************************************************************************)
(* A Request of request.c: one handle of libcurl, used any number of times.*)
(*                                                                         *)
(* The url, the content type, and the names and values of the headers are  *)
(* not copied: they are pointers into memory of the handle, which lasts    *)
(* until the next transfer begins.  Such a pointer is the number of the    *)
(* transfer (and of the header) that it was obtained for.                  *)
(***************************************************************************)
EXTENDS Naturals, SequencesExt

CONSTANTS
  NULL,
  MaxTransfers, \* bound on the transfers of a request
  MaxSet,       \* bound on the headers that are set
  MaxHeaders,   \* bound on the headers of an answer
  MaxChunks     \* bound on the pieces in which a body arrives

ASSUME RequestAssumption ==
  /\ MaxTransfers \in Nat /\ MaxSet \in Nat /\ MaxHeaders \in Nat /\ MaxChunks \in Nat
  /\ NULL \notin Nat
  /\ NULL \notin Seq({NULL} \cup (Nat \X Nat))

VARIABLES
  headers,      \* how many request_set_header has appended, all sent with each transfer
  phase,        \* "idle", "transfer", "headers", "reported", "deleted" or "crashed"
  handle,       \* whether curl_easy_init succeeded
  method,       \* what the last curl_easy_setopt asked for
  transfer,     \* external: number of the last transfer
  answer,       \* external: [type, headers] of the last transfer
  arrived,      \* external: the pieces of the body of the last transfer
  ok,           \* what the last request_get or request_post returned
  url, content_type,
  header_size, header_names, header_values,
  response

curl == <<handle, method, transfer, answer, arrived>>
fields == <<headers, url, content_type, header_size, header_names, header_values, response>>
vars == <<phase, curl, ok, fields>>

Answers == [type : BOOLEAN, headers : 0..MaxHeaders]
Silent == [type |-> FALSE, headers |-> 0]

\* request_new.  Without a handle every call of curl fails, and is reported.
Init ==
  /\ phase = "idle" /\ handle \in BOOLEAN
  /\ method = "GET" /\ transfer = 0 /\ answer = Silent /\ arrived = 0
  /\ ok = FALSE
  /\ headers = 0 /\ url = NULL /\ content_type = NULL
  /\ header_size = 0 /\ header_names = NULL /\ header_values = NULL
  /\ response = NULL

\* request_set_header, with one header; several are several calls.
SetHeader ==
  /\ phase = "idle" /\ headers < MaxSet
  /\ headers' = headers + 1
  /\ UNCHANGED <<phase, curl, ok, url, content_type, header_size, header_names, header_values,
                 response>>

\* request_delete: what it does not free is the response.
Delete ==
  /\ phase = "idle"
  /\ phase' = "deleted" /\ handle' = FALSE
  /\ headers' = 0 /\ header_names' = NULL /\ header_values' = NULL
  /\ UNCHANGED <<method, transfer, answer, arrived, ok, url, content_type, header_size, response>>

-----------------------------------------------------------------------------
(* request_get and request_post: request_internal_do_request               *)

\* A request for CURLOPT_HTTPPOST passes 1 for the pointer to a form.
Perform(m) ==
  /\ phase = "idle" /\ transfer < MaxTransfers
  /\ method' = m
  /\ IF handle
     THEN /\ phase' = "transfer"
          /\ transfer' = transfer + 1 /\ answer' \in Answers /\ arrived' = 0
          /\ UNCHANGED ok
     ELSE ok' = FALSE /\ UNCHANGED <<phase, transfer, answer, arrived>>
  /\ UNCHANGED <<handle, fields>>

\* libcurl follows that pointer, unless it was built without forms.
FollowForm ==
  /\ phase = "transfer" /\ method = "POST"
  /\ phase' = "crashed"
  /\ UNCHANGED <<curl, ok, fields>>

\* request_mem_write: appends to what is there, from this transfer or another.
MemWrite ==
  /\ phase = "transfer" /\ arrived < MaxChunks
  /\ arrived' = arrived + 1
  /\ response' = Append(IF response = NULL THEN <<>> ELSE response, <<transfer, arrived'>>)
  /\ UNCHANGED <<phase, handle, method, transfer, answer, ok, headers, url, content_type,
                 header_size, header_names, header_values>>

\* No connection, no memory for a piece of the body, ...
TransferFails_Unseen ==
  /\ phase = "transfer"
  /\ phase' = "idle" /\ ok' = TRUE
  /\ UNCHANGED <<curl, fields>>
TransferFails ==
  /\ phase = "transfer"
  /\ phase' = "idle" /\ ok' = FALSE
  /\ UNCHANGED <<curl, fields>>

\* request_post_perform, up to the loop over the headers.
TransferDone ==
  /\ phase = "transfer"
  /\ phase' = "headers"
  /\ url' = transfer
  /\ content_type' = IF answer.type THEN transfer ELSE NULL
  /\ header_size' = 0
  /\ UNCHANGED <<curl, ok, headers, header_names, header_values, response>>

\* An array with room for n pointers, which keeps what fits of the old one.
Realloc_Fresh(array, n) == [i \in 1..n |-> NULL]
Realloc(array, n) ==
  [i \in 1..n |-> IF array # NULL /\ i <= Len(array) THEN array[i] ELSE NULL]
Room_OneLess(array) == IF array = NULL THEN Realloc(NULL, 1) ELSE Realloc(array, header_size)
Room(array) ==
  IF array = NULL THEN Realloc(NULL, 1) ELSE Realloc(array, 1 + header_size)
Stored(array, pointer) ==
  IF header_size < Len(Room(array)) THEN [Room(array) EXCEPT ![header_size + 1] = pointer]
  ELSE Room(array)

ReadHeader ==
  /\ phase = "headers" /\ header_size < answer.headers
  /\ header_names' = Stored(header_names, <<transfer, header_size + 1>>)
  /\ header_values' = Stored(header_values, <<transfer, header_size + 1>>)
  /\ header_size' = header_size + 1
  /\ UNCHANGED <<phase, curl, ok, headers, url, content_type, response>>

HeadersRead ==
  /\ phase = "headers" /\ header_size = answer.headers
  /\ phase' = "idle" /\ ok' = TRUE
  /\ UNCHANGED <<curl, fields>>

-----------------------------------------------------------------------------
(* request_to_value and request_to_string                                  *)

\* What they follow: a text that is there, in memory that still is what it was.
Readable(pointer) == pointer # NULL /\ pointer = transfer
HeaderReadable(array, i) == array # NULL /\ i <= Len(array) /\ array[i] = <<transfer, i>>
HeadersReadable ==
  \A i \in 1..header_size : HeaderReadable(header_names, i) /\ HeaderReadable(header_values, i)

ToValue ==
  /\ phase = "idle"
  /\ phase' = IF Readable(content_type) /\ response # NULL /\ HeadersReadable
              THEN "reported" ELSE "crashed"
  /\ UNCHANGED <<curl, ok, fields>>

ToText ==
  /\ phase = "idle"
  /\ phase' = IF Readable(url) /\ Readable(content_type) /\ response # NULL /\ HeadersReadable
              THEN "reported" ELSE "crashed"
  /\ UNCHANGED <<curl, ok, fields>>

Reported ==
  /\ phase = "reported"
  /\ phase' = "idle"
  /\ UNCHANGED <<curl, ok, fields>>

Over == phase \in {"deleted", "crashed"} /\ UNCHANGED vars

Next ==
  \/ SetHeader \/ Delete
  \/ Perform("GET") \/ Perform("POST") \/ FollowForm \/ MemWrite
  \/ TransferFails \/ TransferDone \/ ReadHeader \/ HeadersRead
  \/ ToValue \/ ToText \/ Reported \/ Over

Spec == Init /\ [][Next]_vars

-----------------------------------------------------------------------------
(* Properties                                                              *)

\* Every variable keeps its kind, and the two arrays of headers have room for as
\* many as header_size says, whatever answers with more and fewer of them came
\* one after another.
TypeOK ==
  /\ phase \in {"idle", "transfer", "headers", "reported", "deleted", "crashed"}
  /\ handle \in BOOLEAN /\ ok \in BOOLEAN /\ method \in {"GET", "POST"}
  /\ transfer \in 0..MaxTransfers /\ answer \in Answers /\ arrived \in 0..MaxChunks
  /\ url \in {NULL} \cup 1..transfer /\ content_type \in {NULL} \cup 1..transfer
  /\ headers \in 0..MaxSet /\ header_size \in 0..MaxHeaders
  /\ header_names = NULL <=> header_values = NULL
  /\ header_size > 0 /\ phase # "deleted" =>
       header_names # NULL /\ header_size <= Len(header_names)
       /\ header_size <= Len(header_values)

\* Once a call has returned RET_OK all that a request holds is of that call: url,
\* content type and each header were obtained after its transfer, no header of a
\* longer answer before is counted, and the response ends with its body (and is
\* nothing else unless an earlier transfer delivered something).
ReportsLastTransfer ==
  (ok /\ phase \in {"idle", "reported"}) =>
    /\ url = transfer
    /\ content_type = IF answer.type THEN transfer ELSE NULL
    /\ header_size = answer.headers /\ HeadersReadable
    /\ LET body == [k \in 1..arrived |-> <<transfer, k>>]
       IN  /\ body # <<>> => response # NULL /\ IsSuffix(body, response)
           /\ transfer = 1 => response = IF body = <<>> THEN NULL ELSE body

\* A report is safe exactly after a call that returned RET_OK, whose answer had a
\* content type, once some body has arrived.  After a call that failed, and before
\* the first, every report follows a pointer that is missing or dangles, whatever
\* earlier calls left in the fields: only what the call returned tells.
ReportIsSafe ==
  [][phase = "idle" /\ phase' \in {"reported", "crashed"} =>
       (phase' = "reported" <=> ok /\ content_type # NULL /\ response # NULL)]_vars

=============================================================================
