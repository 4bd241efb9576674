--------------------------- MODULE Requests_proofs ---------------------------
(***************************************************************************)
(* What holds of Requests for streams, limits and buffers of any size: how *)
(* TCP splits a request does not change what becomes of it.  The argument: *)
(* as long as read_request reads on, the bytes it has taken are within the *)
(* limit and no byte of them closes a document.                            *)
(***************************************************************************)
EXTENDS Requests, TLAPS

\* The inductive invariant.
StillOpen == at = "reading" => taken <= MaxQuery /\ Parse(taken) = "eof"
ClosedAtEnd == hungUp => arrived = Len(stream)

Inv == TypeOK /\ StillOpen /\ ClosedAtEnd /\ SplitsDoNotMatter

\* The counters stay within the stream.
LEMMA Lengths ==
  ASSUME TypeOK
  PROVE  /\ Len(stream) \in Nat /\ arrived \in Nat /\ taken \in Nat
         /\ taken <= arrived /\ arrived <= Len(stream)
         /\ MaxQuery \in Nat /\ ChunkSize \in Nat \ {0} /\ WaitBuffer \in Nat \ {0}
<1>1. PICK n \in 0..MaxLength : stream \in [1..n -> Bytes]
  BY DEF TypeOK
<1>2. Len(stream) = n /\ n \in Nat
  BY <1>1, RequestsAssumption
<1> QED BY <1>2, RequestsAssumption DEF TypeOK

\* One valid document is never a syntax error, and never looks incomplete once all
\* of it is there.
LEMMA OneRequestParses ==
  ASSUME TypeOK, OneRequest, NEW n \in 0..Len(stream)
  PROVE  Parse(n) # "error" /\ (n = Len(stream) => Parse(n) = "ok")
<1>1. PICK k \in 1..Len(stream) :
        /\ stream[k] = "end"
        /\ \A i \in 1..(k - 1) : stream[i] \in {"in", "space"}
        /\ \A i \in (k + 1)..Len(stream) : stream[i] = "space"
  BY DEF OneRequest
<1>2. Len(stream) \in Nat
  BY Lengths
<1>3. \A j \in Stops(n) : j = k
  BY <1>1, <1>2 DEF Stops
<1>4. k <= n => k \in Stops(n)
  BY <1>1, <1>2 DEF Stops
<1>5. k <= n => \A i \in (k + 1)..n : stream[i] = "space"
  BY <1>1, <1>2
<1>6. CASE k <= n
  BY <1>1, <1>4, <1>5, <1>6 DEF Parse
<1>7. CASE ~(k <= n)
  <2>1. Stops(n) = {}
    BY <1>2, <1>3, <1>7 DEF Stops
  <2> QED BY <1>2, <1>7, <2>1 DEF Parse
<1> QED BY <1>6, <1>7

\* What the parser accepts begins with a valid document.
LEMMA AcceptedBegins ==
  ASSUME TypeOK, NEW n \in 0..Len(stream), n <= MaxQuery, Parse(n) = "ok"
  PROVE  BeginsWithRequest
<1>1. PICK k \in Stops(n) : stream[k] = "end"
  BY DEF Parse
<1> QED BY <1>1, Lengths DEF Stops, BeginsWithRequest, Least

\* No byte has been taken: nothing is decided.
LEMMA InitInv ==
  ASSUME Init
  PROVE  Inv
<1>1. TypeOK
  <2>1. PICK n \in 0..MaxLength : stream \in [1..n -> Bytes]
    BY DEF Init
  <2>2. Len(stream) = n /\ n \in Nat
    BY <2>1, RequestsAssumption
  <2>3. arrived \in 0..Len(stream) /\ taken \in 0..arrived
    BY <2>2 DEF Init
  <2>4. /\ at = "reading" /\ verdict = "none" /\ outcome = "none"
        /\ hungUp = FALSE /\ reset = FALSE
        /\ stream \in UNION {[1..m -> Bytes] : m \in 0..MaxLength}
    BY DEF Init
  <2> QED BY <2>3, <2>4 DEF TypeOK
<1>2. Stops(0) = {}
  BY DEF Stops
<1> QED BY <1>1, <1>2, RequestsAssumption DEF Init, Inv, StillOpen, ClosedAtEnd, Parse, SplitsDoNotMatter

\* A read keeps the invariant, whatever it returns and however it is judged.
LEMMA ReadMoreInv ==
  ASSUME Inv, ReadMore
  PROVE  Inv'
<1> DEFINE n == Least(taken + ChunkSize, arrived)
<1>1. n \in taken..arrived /\ n \in 0..Len(stream) /\ n \in Nat
  BY Lengths DEF Least, ReadMore, Readable, Inv
<1>2. taken' = n /\ UNCHANGED network /\ at = "reading"
  BY DEF ReadMore
<1>3. \/ TooLong(n) /\ Concludes("refused")
      \/ ~TooLong(n) /\ Parse(n) = "error" /\ Concludes("refused")
      \/ ~TooLong(n) /\ Parse(n) = "ok" /\ Concludes("accepted")
      \/ ~TooLong(n) /\ Parse(n) = "eof" /\ UNCHANGED <<at, verdict, outcome>>
  BY DEF ReadMore
<1> HIDE DEF n
<1>4. TypeOK' /\ ClosedAtEnd'
  <2>1. taken' \in 0..arrived'
    BY <1>1, <1>2, Lengths DEF Inv, network
  <2> QED BY <1>2, <1>3, <2>1 DEF Inv, TypeOK, ClosedAtEnd, Concludes, network
<1>5. SplitsDoNotMatter'
  <2>1. ASSUME Concludes("refused"), ~OneRequest PROVE SplitsDoNotMatter'
    BY <1>2, <2>1 DEF Concludes, SplitsDoNotMatter, OneRequest, network
  <2>2. CASE TooLong(n)
    BY <1>1, <1>3, <2>1, <2>2, Lengths DEF OneRequest, TooLong, Inv
  <2>3. CASE ~TooLong(n) /\ Parse(n) = "error"
    BY <1>1, <1>3, <2>1, <2>3, OneRequestParses DEF Inv
  <2>4. CASE ~TooLong(n) /\ Parse(n) = "ok"
    <3>1. BeginsWithRequest /\ Concludes("accepted")
      BY <1>1, <1>3, <2>4, AcceptedBegins, Lengths DEF TooLong, Inv
    <3> QED BY <1>2, <3>1 DEF Concludes, SplitsDoNotMatter, BeginsWithRequest, network
  <2>5. CASE ~TooLong(n) /\ Parse(n) = "eof"
    <3>1. verdict' = "none"
      BY <1>2, <1>3, <2>5 DEF Inv, TypeOK
    <3> QED BY <3>1 DEF SplitsDoNotMatter
  <2> QED BY <1>3, <2>2, <2>3, <2>4, <2>5
<1>6. StillOpen'
  <2>1. CASE at' = "reading"
    <3>1. ~TooLong(n) /\ Parse(n) = "eof"
      BY <1>3, <2>1 DEF Concludes
    <3> QED BY <1>1, <1>2, <3>1, Lengths DEF StillOpen, TooLong, Parse, Stops, network, Inv
  <2>2. CASE at' # "reading"
    BY <2>2 DEF StillOpen
  <2> QED BY <2>1, <2>2
<1> QED BY <1>4, <1>5, <1>6 DEF Inv

\* The end of the stream: what was incomplete stays so.
LEMMA ReadEofInv ==
  ASSUME Inv, ReadEof
  PROVE  Inv'
<1>1. /\ UNCHANGED <<network, taken>> /\ at' # "reading"
      /\ \/ verdict' = "silent" /\ at' = "done" /\ outcome' = "silent"
         \/ verdict' = "refused" /\ at' = "replying" /\ outcome' = outcome
      /\ at = "reading" /\ hungUp /\ taken = arrived
  BY DEF ReadEof, Concludes
<1>2. taken = Len(stream) /\ Parse(taken) = "eof"
  BY <1>1 DEF Inv, StillOpen, ClosedAtEnd
<1>3. ~OneRequest
  BY <1>2, Lengths, OneRequestParses DEF Inv
<1>4. SplitsDoNotMatter'
  BY <1>1, <1>3 DEF SplitsDoNotMatter, OneRequest, network
<1>5. TypeOK'
  BY <1>1 DEF Inv, TypeOK, network
<1> QED BY <1>1, <1>4, <1>5 DEF Inv, StillOpen, ClosedAtEnd, network

\* Nothing else judges the request.
LEMMA OtherInv ==
  ASSUME Inv,
         \/ Deliver \/ HangUp \/ Reset \/ ReadFails \/ Decide \/ StartColdWait
         \/ Wake \/ StartupTimeout \/ Discard \/ NoticeClose \/ Reply
  PROVE  Inv'
<1>1. CASE Deliver \/ HangUp \/ Reset
  <2>1. /\ UNCHANGED <<stream, taken, at, verdict, outcome>>
        /\ hungUp' \in BOOLEAN /\ reset' \in BOOLEAN
        /\ arrived' \in 0..Len(stream) /\ arrived <= arrived'
        /\ hungUp' => arrived' = Len(stream)
    <3>1. /\ hungUp \in BOOLEAN /\ reset \in BOOLEAN
          /\ hungUp => arrived = Len(stream)
      BY DEF Inv, TypeOK, ClosedAtEnd
    <3>2. arrived \in Nat /\ Len(stream) \in Nat /\ arrived <= Len(stream)
      BY Lengths DEF Inv
    <3>3. CASE Deliver
      BY <3>1, <3>2, <3>3 DEF Deliver
    <3>4. CASE HangUp
      BY <3>1, <3>2, <3>4 DEF HangUp
    <3>5. CASE Reset
      BY <3>1, <3>2, <3>5 DEF Reset
    <3> QED BY <1>1, <3>3, <3>4, <3>5
  <2>2. taken \in 0..arrived'
    BY <2>1, Lengths DEF Inv
  <2>3. TypeOK' /\ ClosedAtEnd'
    BY <2>1, <2>2 DEF Inv, TypeOK, ClosedAtEnd
  <2>4. StillOpen'
    BY <2>1 DEF Inv, StillOpen, Parse, Stops
  <2>5. SplitsDoNotMatter'
    BY <2>1 DEF Inv, SplitsDoNotMatter, OneRequest, BeginsWithRequest
  <2> QED BY <2>3, <2>4, <2>5 DEF Inv
<1>2. CASE Discard
  <2>1. taken' \in 0..arrived /\ at = "waiting" /\ UNCHANGED <<network, at, verdict, outcome>>
    BY <1>2, Lengths DEF Discard, Least, Inv
  <2> QED BY <2>1 DEF Inv, TypeOK, StillOpen, ClosedAtEnd, SplitsDoNotMatter,
                      OneRequest, BeginsWithRequest, network
<1>3. CASE ReadFails
  BY <1>3 DEF ReadFails, Concludes, Inv, TypeOK, StillOpen, ClosedAtEnd, SplitsDoNotMatter,
              OneRequest, BeginsWithRequest, network
<1>4. CASE Decide \/ StartColdWait \/ Wake \/ StartupTimeout \/ NoticeClose \/ Reply
  <2>1. /\ UNCHANGED <<network, taken, verdict>>
        /\ at # "reading" /\ at' \in {"processing", "waiting", "replying", "done"}
        /\ \/ at' # "done" /\ at # "done" /\ outcome' = outcome
           \/ at' = "done" /\ outcome' \in {"answered", "cancelled", "lost"}
    BY <1>4 DEF Decide, StartColdWait, Wake, StartupTimeout, NoticeClose, Reply, Moves
  <2> QED BY <2>1 DEF Inv, TypeOK, StillOpen, ClosedAtEnd, SplitsDoNotMatter,
                      OneRequest, BeginsWithRequest, network
<1> QED BY <1>1, <1>2, <1>3, <1>4

LEMMA Inductive == Spec => []Inv
<1>1. Init => Inv
  BY InitInv
<1>2. Inv /\ [Next]_vars => Inv'
  <2> SUFFICES ASSUME Inv, [Next]_vars PROVE Inv'
    OBVIOUS
  <2>1. CASE UNCHANGED vars
    BY <2>1 DEF vars, network, Inv, TypeOK, StillOpen, ClosedAtEnd, Parse, Stops,
                SplitsDoNotMatter, OneRequest, BeginsWithRequest
  <2> QED BY <2>1, ReadMoreInv, ReadEofInv, OtherInv DEF Next
<1> QED BY <1>1, <1>2, PTL DEF Spec

\* The type invariant of a connection: what is read has arrived, what has arrived
\* was sent, and every connection is judged once and ends once.
THEOREM TypeCorrect == Spec => []TypeOK
<1>1. Inv => TypeOK
  BY DEF Inv
<1> QED BY <1>1, Inductive, PTL

\* For all limits and buffer sizes and all ways TCP can split a stream: one valid
\* document within the limit is never refused, and what is accepted begins with one.
THEOREM SplitsNeverMatter == Spec => []SplitsDoNotMatter
<1>1. Inv => SplitsDoNotMatter
  BY DEF Inv
<1> QED BY <1>1, Inductive, PTL

\* Bytes that follow a request never end its cold wait, whatever the sizes of the
\* buffer they are read into: only NoticeClose cancels, and a client that has
\* closed or a connection that was reset stays so.
THEOREM NeverCancelledAlone == Spec => []CancelledOnlyByClose
<1> USE DEF CancelledOnlyByClose
<1>1. Init => CancelledOnlyByClose
  BY DEF Init
<1>2. CancelledOnlyByClose /\ [Next]_vars => CancelledOnlyByClose'
  <2> SUFFICES ASSUME CancelledOnlyByClose, [Next]_vars PROVE CancelledOnlyByClose'
    OBVIOUS
  <2>1. CASE Deliver \/ HangUp \/ Reset
    BY <2>1 DEF Deliver, HangUp, Reset
  <2>2. CASE ReadMore \/ ReadEof \/ ReadFails
    BY <2>2 DEF ReadMore, ReadEof, ReadFails, Concludes, network
  <2>3. CASE Decide \/ StartColdWait \/ Wake \/ StartupTimeout \/ Discard
    BY <2>3 DEF Decide, StartColdWait, Wake, StartupTimeout, Discard, Moves, network
  <2>4. CASE NoticeClose \/ Reply
    BY <2>4 DEF NoticeClose, Reply, network
  <2>5. CASE UNCHANGED vars
    BY <2>5 DEF vars, network
  <2> QED BY <2>1, <2>2, <2>3, <2>4, <2>5 DEF Next
<1> QED BY <1>1, <1>2, PTL DEF Spec
=============================================================================
