------------------------- MODULE RelaySessionProofs -------------------------
(***************************************************************************)
(* Proofs about RelaySession for every buffer, time limit and number of    *)
(* bytes: its variables keep their types, and no last words are lost.      *)
(***************************************************************************)
EXTENDS RelaySession, TLAPS

\* The counters of bytes are numbers, which TypeOK says of the bytes sent only.
Counted == read \in [Direction -> Nat] /\ written \in [Direction -> Nat]

\* A loop that met the end of its stream has passed on all of it, and nothing
\* can be added to a stream that ended.
Delivered ==
  \A d \in Direction : loop[d] = "eof" => written[d] = sent[d] /\ client[d] # "open"

SInv == TypeOK /\ Counted /\ Delivered

-----------------------------------------------------------------------------

LEMMA SessionInit == Init => SInv
BY SessionAssumption DEF Init, SInv, TypeOK, Counted, Delivered

\* A step of a client adds to a stream that has not ended, or ends it.
LEMMA ClientKeeps ==
  ASSUME SInv, NEW d \in Direction, Client(d)
  PROVE  SInv'
<1> USE DEF SInv, TypeOK, Counted, Delivered
<1>1. CASE Send(d)
  <2>1. sent[d] + 1 \in 0..MaxBytes
    BY <1>1, SessionAssumption DEF Send
  <2>2. sent' \in [Direction -> 0..MaxBytes]
    BY <1>1, <2>1 DEF Send
  <2>3. \A e \in Direction : sent'[e] = IF e = d THEN sent[d] + 1 ELSE sent[e]
    BY <1>1 DEF Send
  <2>4. client[d] = "open" /\ UNCHANGED <<client, read, written, loop, session, clock>>
    BY <1>1 DEF Send
  <2>5. TypeOK' /\ Counted'
    BY <2>2, <2>3, <2>4, SessionAssumption DEF clock
  <2>6. Delivered'
    BY <2>3, <2>4
  <2> QED
    BY <2>5, <2>6
<1>2. CASE EndStream(d)
  BY <1>2 DEF EndStream, clock
<1>3. CASE Close(d)
  BY <1>3 DEF Close, clock
<1> QED
  BY <1>1, <1>2, <1>3 DEF Client

\* A step of a loop reads no more than was sent and writes no more than it read.
LEMMA CopyKeeps ==
  ASSUME SInv, NEW d \in Direction, Copy(d)
  PROVE  SInv'
<1> USE DEF SInv, TypeOK, Counted, Delivered
<1>1. CASE Read(d)
  <2>1. PICK n \in 1..BufSize : read[d] + n <= sent[d] /\ read' = [read EXCEPT ![d] = @ + n]
    BY <1>1 DEF Read
  <2>2. n \in Nat /\ read[d] + n \in Nat
    BY SessionAssumption
  <2>3. \A e \in Direction : read'[e] = IF e = d THEN read[d] + n ELSE read[e]
    BY <2>1
  <2>4. read' \in [Direction -> Nat]
    BY <2>1, <2>2
  <2>5. UNCHANGED <<client, sent, written, loop, session, clock>>
    BY <1>1 DEF Read
  <2> QED
    BY <2>1, <2>2, <2>3, <2>4, <2>5, SessionAssumption DEF clock
<1>2. CASE ReadEof(d)
  <2>1. \A e \in Direction : loop'[e] = IF e = d THEN "eof" ELSE loop[e]
    BY <1>2 DEF ReadEof
  <2>2. written[d] = sent[d] /\ client[d] # "open"
    BY <1>2 DEF ReadEof, AtRead
  <2>3. UNCHANGED <<client, sent, read, written, session, clock>>
    BY <1>2 DEF ReadEof
  <2>4. TypeOK' /\ Counted'
    BY <1>2, <2>3 DEF ReadEof, clock
  <2> QED
    BY <2>1, <2>2, <2>3, <2>4
<1>3. CASE ReadFails(d)
  BY <1>3 DEF ReadFails, clock
<1>4. CASE Write(d)
  <2>1. loop[d] = "running" /\ written[d] < read[d]
    BY <1>4 DEF Write, Running
  <2>2. \A e \in Direction : written'[e] = IF e = d THEN written[d] + 1 ELSE written[e]
    BY <1>4 DEF Write
  <2>3. written' \in [Direction -> Nat]
    BY <1>4 DEF Write
  <2>4. idle' = 0 /\ UNCHANGED <<client, sent, read, loop, session, age>>
    BY <1>4 DEF Write
  <2> QED
    BY <2>1, <2>2, <2>3, <2>4, SessionAssumption
<1>5. CASE WriteFails(d)
  BY <1>5 DEF WriteFails, clock
<1> QED
  BY <1>1, <1>2, <1>3, <1>4, <1>5 DEF Copy

\* The end of the session and the clock touch no byte.
LEMMA EndKeeps ==
  ASSUME SInv, Finish \/ Tick \/ TimeOut
  PROVE  SInv'
<1> USE DEF SInv, TypeOK, Counted, Delivered
<1>1. CASE Finish
  BY <1>1 DEF Finish, clock
<1>2. CASE Tick
  BY <1>2, SessionAssumption DEF Tick
<1>3. CASE TimeOut
  BY <1>3 DEF TimeOut, clock
<1> QED
  BY <1>1, <1>2, <1>3

LEMMA SessionStep == SInv /\ [Next]_vars => SInv'
<1>1. SInv /\ UNCHANGED vars => SInv'
  BY DEF SInv, TypeOK, Counted, Delivered, vars
<1> QED
  BY <1>1, ClientKeeps, CopyKeeps, EndKeeps DEF Next

\* The type invariant: what a loop has written it has read, what it has read
\* was sent, and neither clock passes the limit.
THEOREM SessionTypesCorrect == Spec => []TypeOK
<1>1. SInv => TypeOK
  BY DEF SInv
<1> QED
  BY <1>1, SessionInit, SessionStep, PTL DEF Spec

\* The loop that meets the end of a stream has passed on all of it: the session
\* that this ends has lost nothing of what the client that ended first said
\* (copy_loop, bidirectional_copy).
THEOREM LastWordsAreDelivered == Spec => []LastWordsDelivered
<1>1. SInv => LastWordsDelivered
  BY DEF SInv, Delivered, LastWordsDelivered
<1> QED
  BY <1>1, SessionInit, SessionStep, PTL DEF Spec
=============================================================================
