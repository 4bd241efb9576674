------------------------------ MODULE Requests ------------------------------
(***************************************************************************)
(* One connection to the TCP query server, from its first byte to the end  *)
(* of handle_connection: read_request, the cold wait's wait_for_disconnect *)
(* and the answer.  TCP is a stream: how the bytes of a request fall into  *)
(* reads is chance, and bytes, the close and a reset can arrive while the  *)
(* server is doing something else.                                         *)
(*                                                                         *)
(* A stream is a sequence of bytes told apart by what the JSON parser does *)
(* with them: "in" belongs to a document, "end" closes one that is a valid *)
(* request, "bad" closes one that is not, "space" is white space, "junk"   *)
(* can be part of no JSON text.                                            *)
(***************************************************************************)
EXTENDS Integers, Sequences

CONSTANTS
  MaxLength,   \* bound: bytes a client sends
  MaxQuery,    \* 65536
  ChunkSize,   \* 4096, one read of read_request
  WaitBuffer   \* 64, one read of wait_for_disconnect

ASSUME RequestsAssumption ==
  /\ MaxLength \in Nat /\ MaxQuery \in Nat
  /\ ChunkSize \in Nat \ {0} /\ WaitBuffer \in Nat \ {0}

Bytes == {"in", "end", "bad", "space", "junk"}

VARIABLES
  stream,   \* what the client sends, all told
  arrived,  \* how much of it has reached the server's socket
  taken,    \* how much of that the server has read
  hungUp,   \* the client has closed its side
  reset,    \* the connection was reset
  at,       \* where handle_connection is
  verdict,  \* what read_request made of the stream
  outcome   \* how the connection ended

network == <<stream, arrived, hungUp, reset>>
vars == <<network, taken, at, verdict, outcome>>

\* One type invariant.
TypeOK ==
  /\ stream \in UNION {[1..n -> Bytes] : n \in 0..MaxLength}
  /\ arrived \in 0..Len(stream)
  /\ taken \in 0..arrived
  /\ hungUp \in BOOLEAN /\ reset \in BOOLEAN
  /\ at \in {"reading", "processing", "waiting", "replying", "done"}
  /\ verdict \in {"none", "accepted", "refused", "silent", "failed"}
  /\ outcome \in {"none", "answered", "silent", "cancelled", "lost"}
  /\ at = "reading" <=> verdict = "none"
  /\ at = "done" <=> outcome # "none"

Init ==
  /\ stream \in UNION {[1..n -> Bytes] : n \in 0..MaxLength}
  /\ arrived = 0 /\ taken = 0
  /\ hungUp = FALSE /\ reset = FALSE
  /\ at = "reading" /\ verdict = "none" /\ outcome = "none"

-----------------------------------------------------------------------------
(* serde_json::from_slice *)

\* Where the parser of the first n bytes stops: the first byte that closes a
\* document or belongs to none.
Stops(n) == {k \in 1..n : /\ stream[k] \in {"end", "bad", "junk"}
                          /\ \A i \in 1..(k - 1) : stream[i] \in {"in", "space"}}

\* Faulty: a document that is not complete yet is a syntax error.
ParsePerRead(n) ==
  IF \E k \in Stops(n) : stream[k] = "end" /\ \A i \in (k + 1)..n : stream[i] = "space"
  THEN "ok" ELSE "error"

\* A document with white space around it, a text that may become one, or neither.
Parse(n) ==
  IF Stops(n) = {} THEN "eof"
  ELSE IF \E k \in Stops(n) : stream[k] = "end" /\ \A i \in (k + 1)..n : stream[i] = "space"
  THEN "ok" ELSE "error"

Least(a, b) == IF a < b THEN a ELSE b

-----------------------------------------------------------------------------
(* The client and the network *)

Deliver ==
  /\ ~hungUp /\ ~reset
  /\ arrived < Len(stream)
  /\ arrived' = arrived + 1
  /\ UNCHANGED <<stream, hungUp, reset, taken, at, verdict, outcome>>

HangUp ==
  /\ ~hungUp /\ ~reset
  /\ arrived = Len(stream)
  /\ hungUp' = TRUE
  /\ UNCHANGED <<stream, arrived, reset, taken, at, verdict, outcome>>

Reset ==
  /\ ~reset
  /\ at # "done"
  /\ reset' = TRUE
  /\ UNCHANGED <<stream, arrived, hungUp, taken, at, verdict, outcome>>

-----------------------------------------------------------------------------
(* read_request *)

Concludes(result) ==
  /\ verdict' = result
  /\ at' = IF result = "accepted" THEN "processing" ELSE "replying"
  /\ UNCHANGED outcome

\* Faulty: a request of exactly the limit is refused.
TooLongOffByOne(n) == n >= MaxQuery

TooLong(n) == n > MaxQuery

\* Faulty: a read waits until it has filled its chunk.
FullChunkReadable == taken < arrived /\ (taken + ChunkSize <= arrived \/ hungUp)

Readable == taken < arrived

\* A read returns what is there, up to the size of the chunk; the length is
\* checked before the parser sees the bytes.
ReadMore == LET n == Least(taken + ChunkSize, arrived) IN
  /\ at = "reading"
  /\ ~reset /\ Readable
  /\ taken' = n
  /\ \/ TooLong(n) /\ Concludes("refused")
     \/ ~TooLong(n) /\ Parse(n) = "error" /\ Concludes("refused")
     \/ ~TooLong(n) /\ Parse(n) = "ok" /\ Concludes("accepted")
     \/ ~TooLong(n) /\ Parse(n) = "eof" /\ UNCHANGED <<at, verdict, outcome>>
  /\ UNCHANGED network

\* The client closed: without a byte it gets no answer.
ReadEof ==
  /\ at = "reading"
  /\ ~reset /\ hungUp /\ taken = arrived
  /\ IF taken = 0
     THEN verdict' = "silent" /\ at' = "done" /\ outcome' = "silent"
     ELSE Concludes("refused")
  /\ UNCHANGED <<network, taken>>

ReadFails ==
  /\ at = "reading"
  /\ reset
  /\ Concludes("failed")
  /\ UNCHANGED <<network, taken>>

-----------------------------------------------------------------------------
(* process_query: QueryServer is the detailed model.  Nobody reads from the *)
(* connection outside the cold wait.                                        *)

Moves(step) == at' = step /\ UNCHANGED <<network, taken, verdict, outcome>>

Decide == at = "processing" /\ Moves("replying")
StartColdWait == at = "processing" /\ Moves("waiting")

\* Capacity appeared: the lock is taken and a fresh list read.
Wake == at = "waiting" /\ Moves("processing")
StartupTimeout == at = "waiting" /\ Moves("replying")

\* Faulty: wait_for_disconnect returns on a short read.
DiscardShort ==
  /\ at = "waiting"
  /\ ~reset /\ taken < arrived
  /\ taken' = Least(taken + WaitBuffer, arrived)
  /\ IF arrived - taken < WaitBuffer
     THEN at' = "done" /\ outcome' = "cancelled"
     ELSE UNCHANGED <<at, outcome>>
  /\ UNCHANGED <<network, verdict>>

\* Faulty: every read is taken to have filled the buffer.
DiscardWhole ==
  /\ at = "waiting"
  /\ ~reset /\ taken < arrived
  /\ taken' = taken + WaitBuffer
  /\ UNCHANGED <<network, at, verdict, outcome>>

\* Faulty: it waits for the close without reading the bytes before it.
DiscardNothing == FALSE

\* wait_for_disconnect reads on and forgets what it reads ...
Discard ==
  /\ at = "waiting"
  /\ ~reset /\ taken < arrived
  /\ taken' = Least(taken + WaitBuffer, arrived)
  /\ UNCHANGED <<network, at, verdict, outcome>>

\* ... until the close or an error: no answer is sent.
NoticeClose ==
  /\ at = "waiting"
  /\ reset \/ (hungUp /\ taken = arrived)
  /\ at' = "done" /\ outcome' = "cancelled"
  /\ UNCHANGED <<network, taken, verdict>>

\* write_all; the stream is closed behind it.
Reply ==
  /\ at = "replying"
  /\ at' = "done"
  /\ outcome' = IF reset THEN "lost" ELSE "answered"
  /\ UNCHANGED <<network, taken, verdict>>

-----------------------------------------------------------------------------

Next ==
  \/ Deliver \/ HangUp \/ Reset
  \/ ReadMore \/ ReadEof \/ ReadFails
  \/ Decide \/ StartColdWait \/ Wake \/ StartupTimeout \/ Discard \/ NoticeClose
  \/ Reply

Spec == Init /\ [][Next]_vars

\* The network delivers what was sent, and a read that can return does.  The
\* client need not close, a cold wait need not wake nor time out.  Every round
\* of the cold wait polls the read at least once, because the watch it races
\* with has to go out to the API server: hence strong fairness.
FairSpec ==
  /\ Spec
  /\ WF_vars(Deliver)
  /\ WF_vars(ReadMore) /\ WF_vars(ReadEof) /\ WF_vars(ReadFails)
  /\ WF_vars(Decide \/ StartColdWait)
  /\ SF_vars(Discard) /\ SF_vars(NoticeClose)
  /\ WF_vars(Reply)

-----------------------------------------------------------------------------
(* Properties *)

\* The request protocol without reads: what the client sent is one valid
\* document, with white space around it, within the limit.
OneRequest ==
  /\ Len(stream) <= MaxQuery
  /\ \E k \in 1..Len(stream) :
       /\ stream[k] = "end"
       /\ \A i \in 1..(k - 1) : stream[i] \in {"in", "space"}
       /\ \A i \in (k + 1)..Len(stream) : stream[i] = "space"

\* A valid document within the limit comes first.
BeginsWithRequest ==
  \E k \in 1..Least(MaxQuery, Len(stream)) :
    stream[k] = "end" /\ \A i \in 1..(k - 1) : stream[i] \in {"in", "space"}

\* Wherever TCP splits the stream, a client that sends one valid document is never
\* refused, and whoever is accepted did begin with one: read_request looks at the
\* accumulated payload after every read, with no message boundaries to go by.
SplitsDoNotMatter ==
  /\ verdict = "refused" => ~OneRequest
  /\ verdict = "accepted" => BeginsWithRequest

\* The query of a client that is still there is never cancelled, whatever bytes
\* arrive behind its document while it waits for a server to start.
CancelledOnlyByClose == outcome = "cancelled" => hungUp \/ reset

\* A request is read as soon as the bytes that decide it have arrived: the client
\* need not close its side nor send more.
DecidedIsRead ==
  (\E k \in 1..arrived : stream[k] \in {"end", "bad", "junk"}) ~> at # "reading"

\* A client that went away is noticed in whatever state the connection is, though
\* bytes it sent before are still unread, no server ever starts and no deadline
\* passes.
ClosedIsNoticed == hungUp \/ reset ~> at = "done"
=============================================================================
