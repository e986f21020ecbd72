---------------------------- MODULE RelayProofs -----------------------------
(***************************************************************************)
(* Theorems of Relay, for any number of connections and any limits.  Each  *)
(* action moves one task from one state to another; how that changes the   *)
(* number of tasks in a set of states is counted once, in OneMoves.        *)
(***************************************************************************)
EXTENDS Relay, FiniteSetTheorems, TLAPS

-----------------------------------------------------------------------------
(* Counting.                                                               *)

\* A set of receivers is finite, and so is the set of those in some states.
LEMMA Countable ==
  ASSUME NEW S
  PROVE  /\ IsFiniteSet(In(S)) /\ Cardinality(In(S)) \in Nat
         /\ IsFiniteSet(In(S)') /\ Cardinality(In(S)') \in Nat
<1>1. In(S) \subseteq Receiver /\ In(S)' \subseteq Receiver
  BY DEF In
<1>2. IsFiniteSet(Receiver)
  BY RelayAssumption
<1>3. IsFiniteSet(In(S)) /\ IsFiniteSet(In(S)')
  BY <1>1, <1>2, FS_Subset
<1> QED BY <1>3, FS_CardinalityType

\* A wider set of states counts no fewer receivers.
LEMMA Wider ==
  ASSUME NEW S, NEW T, S \subseteq T
  PROVE  Cardinality(In(S)) <= Cardinality(In(T))
<1>1. In(S) \subseteq In(T)
  BY DEF In
<1> QED BY <1>1, Countable, FS_Subset

\* When one receiver's task moves, a count gains one, loses one, or stays.
LEMMA OneMoves ==
  ASSUME TypeOK, NEW r \in Receiver, NEW state, Becomes(r, state), NEW S
  PROVE  /\ pc[r] \in S /\ state \in S => In(S)' = In(S)
         /\ pc[r] \notin S /\ state \notin S => In(S)' = In(S)
         /\ pc[r] \notin S /\ state \in S =>
              Cardinality(In(S)') = Cardinality(In(S)) + 1
         /\ pc[r] \in S /\ state \notin S =>
              Cardinality(In(S)') = Cardinality(In(S)) - 1
<1> DEFINE A == In(S)
           B == In(S)'
<1>1. r \in Peer /\ pc \in [Peer -> SenderStates \cup ReceiverStates]
  BY DEF TypeOK, Peer
<1>2. pc'[r] = state /\ \A q \in Receiver \ {r} : pc'[q] = pc[q]
  BY <1>1 DEF Becomes, Peer
<1>3. CASE pc[r] \in S /\ state \in S
  BY <1>2, <1>3 DEF In
<1>4. CASE pc[r] \notin S /\ state \notin S
  BY <1>2, <1>4 DEF In
<1>5. CASE pc[r] \notin S /\ state \in S
  <2>1. B = A \cup {r} /\ r \notin A
    BY <1>2, <1>5 DEF In
  <2>2. IsFiniteSet(A)
    BY Countable
  <2> HIDE DEF A, B
  <2>3. Cardinality(B) = Cardinality(A) + 1
    BY <2>1, <2>2, FS_AddElement
  <2> QED BY <1>5, <2>3 DEF A, B
<1>6. CASE pc[r] \in S /\ state \notin S
  <2>1. B = A \ {r} /\ r \in A
    BY <1>2, <1>6 DEF In
  <2>2. IsFiniteSet(A)
    BY Countable
  <2> HIDE DEF A, B
  <2>3. Cardinality(B) = Cardinality(A) - 1
    BY <2>1, <2>2, FS_RemoveElement
  <2> QED BY <1>6, <2>3 DEF A, B
<1> QED BY <1>3, <1>4, <1>5, <1>6

\* A sender's task does not count.
LEMMA SenderMoves ==
  ASSUME TypeOK, NEW s \in Sender, NEW state, Becomes(s, state), NEW S
  PROVE  In(S)' = In(S)
<1>1. pc \in [Peer -> SenderStates \cup ReceiverStates] /\ s \notin Receiver
  BY RelayAssumption DEF TypeOK
<1>2. \A q \in Receiver : pc'[q] = pc[q]
  BY <1>1 DEF Becomes, Peer
<1> QED BY <1>2 DEF In

\* Nor does a step that leaves every task where it is.
LEMMA NobodyMoves ==
  ASSUME pc' = pc, NEW S
  PROVE  In(S)' = In(S)
BY DEF In

\* A step of a sender's task moves no receiver's, takes no slot and no sender.
LEMMA SenderSteps ==
  ASSUME TypeOK, NEW s \in Sender, AcceptSender(s) \/ SenderTask(s) \/ GrowStale(s)
  PROVE  /\ UNCHANGED sessions
         /\ \A S : In(S)' = In(S)
         /\ \A p \in Peer \ {s} : pc'[p] = pc[p]
<1>1. /\ UNCHANGED sessions
      /\ pc' = pc \/ \E state : Becomes(s, state)
  BY DEF AcceptSender, SenderTask, HelloFails, SenderHello, Recheck, AckFails,
         Register, GrowStale, sessions
<1>2. CASE pc' = pc
  BY <1>1, <1>2, NobodyMoves
<1>3. ASSUME NEW state, Becomes(s, state)
      PROVE  /\ \A S : In(S)' = In(S)
             /\ \A p \in Peer \ {s} : pc'[p] = pc[p]
  <2>1. \A p \in Peer \ {s} : pc'[p] = pc[p]
    BY <1>3 DEF Becomes, TypeOK
  <2> QED BY <1>3, <2>1, SenderMoves
<1> QED BY <1>1, <1>2, <1>3

\* Nor does a step of the environment move any.
LEMMA EnvironmentSteps ==
  ASSUME (\E p \in Peer : Leave(p)) \/ (\E a \in Addr : FailureExpires(a))
           \/ UNCHANGED vars
  PROVE  /\ UNCHANGED <<pc, registry, sessions>>
         /\ \A S : In(S)' = In(S)
<1>1. UNCHANGED <<pc, registry, sessions>>
  BY DEF Leave, FailureExpires, vars, registry, sessions
<1> QED BY <1>1, NobodyMoves

-----------------------------------------------------------------------------
(* The slots.                                                              *)

\* The counter moves with the tasks that own a slot.
LEMMA SlotsStep ==
  ASSUME TypeOK, SlotsAccounted, [Next]_vars
  PROVE  SlotsAccounted'
<1> DEFINE n == Cardinality(In(Slots))
<1>0. n \in Nat /\ active = n
  BY Countable DEF SlotsAccounted
<1>1. SUFFICES \/ Cardinality(In(Slots)') = n /\ active' = active
               \/ Cardinality(In(Slots)') = n + 1 /\ active' = active + 1
               \/ Cardinality(In(Slots)') = n - 1 /\ active' = active - 1
  <2> HIDE DEF n
  <2> QED BY <1>0, <1>1 DEF SlotsAccounted
<1>2. ASSUME NEW s \in Sender, AcceptSender(s) \/ SenderTask(s) \/ GrowStale(s)
      PROVE  Cardinality(In(Slots)') = n /\ active' = active
  BY <1>2, SenderSteps DEF sessions
<1>3. ASSUME NEW r \in Receiver,
             \/ AcceptReceiver(r) \/ HelloFails(r) \/ ReceiverHello(r) \/ Take(r)
             \/ PollInVain(r) \/ RecordFailure(r) \/ ReturnSender(r)
             \/ CopyEnds(r) \/ CopyTimesOut(r)
      PROVE  Cardinality(In(Slots)') = n /\ active' = active
  <2>1. active' = active
    BY <1>3 DEF AcceptReceiver, HelloFails, ReceiverHello, Take, PollInVain,
                RecordFailure, ReturnSender, CopyEnds, CopyTimesOut, sessions
  <2>2. \/ pc' = pc
        \/ \E state : Becomes(r, state) /\ (pc[r] \in Slots <=> state \in Slots)
    BY <1>3 DEF AcceptReceiver, HelloFails, ReceiverHello, Take, PollInVain,
                RecordFailure, ReturnSender, CopyEnds, CopyTimesOut, Becomes,
                Slots, Sessions
  <2>3. In(Slots)' = In(Slots)
    BY <2>2, NobodyMoves, OneMoves
  <2> QED BY <2>1, <2>3
<1>4. ASSUME NEW r \in Receiver, Reserve(r)
      PROVE  Cardinality(In(Slots)') = n + 1 /\ active' = active + 1
  <2>1. \E state \in Slots : Becomes(r, state)
    BY <1>4 DEF Reserve, Slots, Sessions
  <2>2. pc[r] \notin Slots
    BY <1>4 DEF Reserve, Slots, Sessions
  <2>3. active' = active + 1
    BY <1>4 DEF Reserve
  <2> QED BY <2>1, <2>2, <2>3, OneMoves
<1>5. ASSUME NEW r \in Receiver, GiveBack(r) \/ DropGuard(r)
      PROVE  Cardinality(In(Slots)') = n - 1 /\ active' = active - 1
  <2>1. \E state : Becomes(r, state) /\ state \notin Slots
    BY <1>5 DEF GiveBack, DropGuard, Slots, Sessions
  <2>2. pc[r] \in Slots /\ active' = active - 1
    BY <1>5 DEF GiveBack, DropGuard, Slots, Sessions
  <2> QED BY <2>1, <2>2, OneMoves
<1>6. CASE (\E p \in Peer : Leave(p)) \/ (\E a \in Addr : FailureExpires(a))
             \/ UNCHANGED vars
  BY <1>6, EnvironmentSteps DEF sessions
<1> HIDE DEF n
<1> QED
  BY <1>2, <1>3, <1>4, <1>5, <1>6 DEF Next, ReceiverTask, SessionTask

\* A slot is reserved below the limit only.
LEMMA SessionsStep ==
  ASSUME TypeOK, SlotsAccounted, SessionsBounded, [Next]_vars
  PROVE  SessionsBounded'
<1> DEFINE n == Cardinality(In(Sessions))
<1>0. n \in Nat /\ n <= MaxSessions /\ n <= active /\ MaxSessions \in Nat
  BY Countable, Wider, RelayAssumption DEF SessionsBounded, SlotsAccounted, Slots
<1>1. SUFFICES \/ Cardinality(In(Sessions)') = n
               \/ Cardinality(In(Sessions)') = n - 1
               \/ Cardinality(In(Sessions)') = n + 1 /\ active < MaxSessions
  <2>1. active \in Nat
    BY DEF TypeOK
  <2> HIDE DEF n
  <2> QED BY <1>0, <1>1, <2>1 DEF SessionsBounded
<1>2. ASSUME NEW s \in Sender, AcceptSender(s) \/ SenderTask(s) \/ GrowStale(s)
      PROVE  Cardinality(In(Sessions)') = n
  BY <1>2, SenderSteps
<1>3. ASSUME NEW r \in Receiver,
             \/ AcceptReceiver(r) \/ HelloFails(r) \/ ReceiverHello(r) \/ Take(r)
             \/ PollInVain(r) \/ RecordFailure(r) \/ GiveBack(r)
             \/ ReturnSender(r) \/ CopyEnds(r) \/ CopyTimesOut(r)
      PROVE  Cardinality(In(Sessions)') = n
  <2>1. \/ pc' = pc
        \/ \E state : Becomes(r, state) /\ (pc[r] \in Sessions <=> state \in Sessions)
    BY <1>3 DEF AcceptReceiver, HelloFails, ReceiverHello, Take, PollInVain,
                RecordFailure, GiveBack, ReturnSender, CopyEnds, CopyTimesOut,
                Becomes, Sessions
  <2>2. In(Sessions)' = In(Sessions)
    BY <2>1, NobodyMoves, OneMoves
  <2> QED BY <2>2
<1>4. ASSUME NEW r \in Receiver, Reserve(r)
      PROVE  \/ Cardinality(In(Sessions)') = n
             \/ Cardinality(In(Sessions)') = n + 1 /\ active < MaxSessions
  <2>1. pc[r] \notin Sessions
    BY <1>4 DEF Reserve, Sessions
  <2>2. CASE active >= MaxSessions
    <3>1. Becomes(r, "over") /\ "over" \notin Sessions
      BY <1>4, <2>2 DEF Reserve, Sessions
    <3> QED BY <2>1, <3>1, OneMoves
  <2>3. CASE ~(active >= MaxSessions)
    <3>1. Becomes(r, "copying") /\ "copying" \in Sessions
      BY <1>4, <2>3 DEF Reserve, Sessions
    <3>2. active < MaxSessions
      BY <1>0, <2>3 DEF TypeOK
    <3> QED BY <2>1, <3>1, <3>2, OneMoves
  <2> QED BY <2>2, <2>3
<1>5. ASSUME NEW r \in Receiver, DropGuard(r)
      PROVE  Cardinality(In(Sessions)') = n - 1
  <2>1. Becomes(r, "done") /\ "done" \notin Sessions /\ pc[r] \in Sessions
    BY <1>5 DEF DropGuard, Sessions
  <2> QED BY <2>1, OneMoves
<1>6. CASE (\E p \in Peer : Leave(p)) \/ (\E a \in Addr : FailureExpires(a))
             \/ UNCHANGED vars
  BY <1>6, EnvironmentSteps
<1> HIDE DEF n
<1> QED
  BY <1>2, <1>3, <1>4, <1>5, <1>6 DEF Next, ReceiverTask, SessionTask
-----------------------------------------------------------------------------
(* Who holds what.                                                         *)

\* The declared types, the counter's by way of the slots it counts.
LEMMA TypeStep ==
  ASSUME TypeOK, SlotsAccounted, HoldersHold, [Next]_vars
  PROVE  TypeOK'
<1>1. active' \in Nat
  BY SlotsStep, Countable DEF SlotsAccounted
<1>2. Peer = Sender \cup Receiver /\ Sender \cap Receiver = {}
  BY RelayAssumption DEF Peer
<1>3. ASSUME NEW s \in Sender, AcceptSender(s) \/ SenderTask(s) \/ GrowStale(s)
      PROVE  TypeOK'
  <2>1. pc' = pc \/ \E state \in SenderStates : Becomes(s, state)
    BY <1>3 DEF AcceptSender, SenderTask, HelloFails, SenderHello, Recheck,
                AckFails, Register, GrowStale, Becomes, SenderStates
  <2>2. /\ pc' \in [Peer -> SenderStates \cup ReceiverStates]
        /\ \A t \in Sender : pc'[t] \in SenderStates
        /\ \A r \in Receiver : pc'[r] \in ReceiverStates
    BY <1>2, <2>1 DEF TypeOK, Becomes
  <2>3. /\ pending' \subseteq Sender /\ stale' \subseteq pending'
        /\ lock' \in Sender \cup {Nobody}
    BY <1>3 DEF AcceptSender, SenderTask, HelloFails, SenderHello, Recheck,
                AckFails, Register, GrowStale, Reap, Fresh, Inserted, SameId,
                registry, TypeOK
  <2>4. UNCHANGED <<holds, gone, fails>>
    BY <1>3 DEF AcceptSender, SenderTask, HelloFails, SenderHello, Recheck,
                AckFails, Register, GrowStale, sessions
  <2> QED BY <1>1, <2>2, <2>3, <2>4 DEF TypeOK
<1>4. ASSUME NEW r \in Receiver, AcceptReceiver(r) \/ ReceiverTask(r)
      PROVE  TypeOK'
  <2>1. pc' = pc \/ \E state \in ReceiverStates : Becomes(r, state)
    BY <1>4 DEF AcceptReceiver, ReceiverTask, HelloFails, ReceiverHello, Take,
                PollInVain, RecordFailure, Reserve, GiveBack, ReturnSender,
                SessionTask, CopyEnds, CopyTimesOut, DropGuard, Becomes,
                ReceiverStates, ReceiverEnds
  <2>2. /\ pc' \in [Peer -> SenderStates \cup ReceiverStates]
        /\ \A t \in Sender : pc'[t] \in SenderStates
        /\ \A q \in Receiver : pc'[q] \in ReceiverStates
    BY <1>2, <2>1 DEF TypeOK, Becomes
  <2>3. ReturnSender(r) => holds[r] \in Sender
    BY DEF ReturnSender, HoldersHold, InHand, TypeOK
  <2>4. /\ pending' \subseteq Sender /\ stale' \subseteq pending'
        /\ lock' \in Sender \cup {Nobody}
    BY <1>4, <2>3
       DEF AcceptReceiver, ReceiverTask, HelloFails, ReceiverHello, Take,
           PollInVain, RecordFailure, Reserve, GiveBack, ReturnSender,
           SessionTask, CopyEnds, CopyTimesOut, DropGuard, Reap, Fresh, Inserted,
           SameId, registry, TypeOK
  <2>5. holds' \in [Receiver -> Sender \cup {Nobody}]
    BY <1>4
       DEF AcceptReceiver, ReceiverTask, HelloFails, ReceiverHello, Take,
           PollInVain, RecordFailure, Reserve, GiveBack, ReturnSender,
           SessionTask, CopyEnds, CopyTimesOut, DropGuard, SameId, sessions,
           TypeOK
  <2>6. gone' = gone /\ fails' \in [Addr -> Nat]
    BY <1>4, RelayAssumption
       DEF AcceptReceiver, ReceiverTask, HelloFails, ReceiverHello, Take,
           PollInVain, RecordFailure, Reserve, GiveBack, ReturnSender,
           SessionTask, CopyEnds, CopyTimesOut, DropGuard, TypeOK
  <2> QED BY <1>1, <2>2, <2>4, <2>5, <2>6 DEF TypeOK
<1>5. CASE (\E p \in Peer : Leave(p)) \/ (\E a \in Addr : FailureExpires(a))
             \/ UNCHANGED vars
  <2>1. gone' \subseteq Peer /\ fails' \in [Addr -> Nat]
    BY <1>5 DEF Leave, FailureExpires, vars, TypeOK
  <2> QED BY <1>1, <1>5, <2>1, EnvironmentSteps DEF registry, sessions, TypeOK
<1> QED BY <1>3, <1>4, <1>5 DEF Next

\* A receiver's task has a sender from the poll that took it to the end of the
\* session or the sender's return.
LEMMA HoldersStep ==
  ASSUME TypeOK, HoldersHold, [Next]_vars
  PROVE  HoldersHold'
<1>1. ASSUME NEW s \in Sender, AcceptSender(s) \/ SenderTask(s) \/ GrowStale(s)
      PROVE  HoldersHold'
  <2>1. \A r \in Receiver : pc'[r] = pc[r]
    BY <1>1, SenderSteps, RelayAssumption DEF Peer
  <2> QED BY <1>1, <2>1, SenderSteps DEF HoldersHold, sessions
<1>2. ASSUME NEW r \in Receiver, AcceptReceiver(r) \/ ReceiverTask(r)
      PROVE  HoldersHold'
  <2>0. Nobody \notin Sender /\ r \in Peer
    BY RelayAssumption DEF Peer
  <2>1. /\ pc' = pc \/ \E state : Becomes(r, state)
        /\ holds' = holds \/ \E s : holds' = [holds EXCEPT ![r] = s]
    BY <1>2
       DEF AcceptReceiver, ReceiverTask, HelloFails, ReceiverHello, Take,
           PollInVain, RecordFailure, Reserve, GiveBack, ReturnSender,
           SessionTask, CopyEnds, CopyTimesOut, DropGuard, Becomes, sessions
  <2>2. \A q \in Receiver \ {r} : pc'[q] = pc[q] /\ holds'[q] = holds[q]
    BY <2>0, <2>1 DEF Becomes, TypeOK, Peer
  <2>3. CASE Take(r)
    <3>1. pc'[r] = "holding" /\ holds'[r] \in Sender
      BY <2>0, <2>3 DEF Take, Becomes, SameId, TypeOK
    <3> QED BY <2>0, <2>2, <3>1 DEF HoldersHold, InHand
  <2>4. CASE ReturnSender(r) \/ DropGuard(r)
    <3>1. pc'[r] \in {"capacity", "done"} /\ holds'[r] = Nobody
      BY <2>0, <2>4 DEF ReturnSender, DropGuard, Becomes, TypeOK
    <3> QED BY <2>2, <3>1 DEF HoldersHold, InHand, Sessions
  <2>5. CASE \/ AcceptReceiver(r) \/ HelloFails(r) \/ ReceiverHello(r)
             \/ PollInVain(r) \/ RecordFailure(r) \/ Reserve(r) \/ GiveBack(r)
             \/ CopyEnds(r) \/ CopyTimesOut(r)
    <3>1. holds' = holds
      BY <2>5 DEF AcceptReceiver, HelloFails, ReceiverHello, PollInVain,
                  RecordFailure, Reserve, GiveBack, CopyEnds, CopyTimesOut, sessions
    <3>2. pc[r] \in InHand \cup Sessions <=> pc'[r] \in InHand \cup Sessions
      BY <2>0, <2>5
         DEF AcceptReceiver, HelloFails, ReceiverHello, PollInVain,
             RecordFailure, Reserve, GiveBack, CopyEnds, CopyTimesOut,
             Becomes, InHand, Sessions, TypeOK
    <3> QED BY <2>2, <3>1, <3>2 DEF HoldersHold
  <2> QED BY <1>2, <2>3, <2>4, <2>5 DEF ReceiverTask, SessionTask
<1>3. CASE (\E p \in Peer : Leave(p)) \/ (\E a \in Addr : FailureExpires(a))
             \/ UNCHANGED vars
  BY <1>3, EnvironmentSteps DEF HoldersHold, sessions
<1> QED BY <1>1, <1>2, <1>3 DEF Next

\* A sender has one owner: the registration that is about to put it into the
\* map is the only one for its ID, and a poll takes what it finds.
LEMMA OwnerStep ==
  ASSUME TypeOK, HoldersHold, AckedHasLock, AckedFits, OneOwner, [Next]_vars
  PROVE  OneOwner'
<1>0. Nobody \notin Sender /\ Sender \cap Receiver = {} /\ Peer = Sender \cup Receiver
  BY RelayAssumption DEF Peer
<1>1. ASSUME NEW s \in Sender, Register(s)
      PROVE  OneOwner'
  <2>1. /\ pending' = pending \cup {s} /\ holds' = holds
        /\ pc' = [pc EXCEPT ![s] = "registered"] /\ pc[s] = "acked"
    BY <1>1 DEF Register, Inserted, AckedFits, Becomes, sessions
  <2>2. \A t \in pending : IdOf[t] # IdOf[s]
    BY <1>1, <2>1 DEF AckedFits, SameId, TypeOK
  <2>3. \A p \in Sender \ {s} : pc'[p] = pc[p]
    BY <1>0, <2>1 DEF TypeOK
  <2>4. pc'[s] = "registered"
    BY <1>0, <2>1 DEF TypeOK
  <2>5. \A r \in Receiver : holds[r] # s
    BY <2>1, <1>0 DEF OneOwner
  <2> QED BY <2>1, <2>2, <2>3, <2>4, <2>5 DEF OneOwner, TypeOK
<1>2. ASSUME NEW s \in Sender,
             \/ AcceptSender(s) \/ HelloFails(s) \/ SenderHello(s) \/ Recheck(s)
             \/ AckFails(s) \/ GrowStale(s)
      PROVE  OneOwner'
  <2>1. pending' \subseteq pending /\ holds' = holds
    BY <1>2 DEF AcceptSender, HelloFails, SenderHello, Recheck, AckFails,
                GrowStale, Reap, Fresh, registry, sessions
  <2>2. pc' = pc \/ (pc[s] # "registered" /\ \E state : Becomes(s, state))
    BY <1>2 DEF AcceptSender, HelloFails, SenderHello, Recheck, AckFails, GrowStale
  <2>3. \A t \in Sender : pc[t] = "registered" => pc'[t] = "registered"
    BY <1>0, <2>2 DEF Becomes, TypeOK
  <2> QED BY <2>1, <2>3 DEF OneOwner, TypeOK
<1>3. ASSUME NEW r \in Receiver, AcceptReceiver(r) \/ ReceiverTask(r)
      PROVE  \A t \in Sender : pc'[t] = pc[t]
  <2>1. pc' = pc \/ \E state : Becomes(r, state)
    BY <1>3 DEF AcceptReceiver, ReceiverTask, HelloFails, ReceiverHello, Take,
                PollInVain, RecordFailure, Reserve, GiveBack, ReturnSender,
                SessionTask, CopyEnds, CopyTimesOut, DropGuard, Becomes
  <2> QED BY <1>0, <2>1 DEF Becomes, TypeOK
<1>4. ASSUME NEW r \in Receiver, Take(r)
      PROVE  OneOwner'
  <2>1. PICK s \in Fresh \cap SameId(r) :
          pending' = Fresh \ {s} /\ holds' = [holds EXCEPT ![r] = s]
    BY <1>4 DEF Take
  <2>2. s \in pending /\ s \in Sender /\ IdOf[s] = IdOf[r] /\ pending' \subseteq pending \ {s}
    BY <2>1 DEF Fresh, SameId
  <2>3. holds'[r] = s /\ \A q \in Receiver \ {r} : holds'[q] = holds[q]
    BY <2>1 DEF TypeOK
  <2>4. \A t \in Sender : pc'[t] = pc[t]
    BY <1>3, <1>4 DEF ReceiverTask
  <2> QED BY <1>0, <2>2, <2>3, <2>4 DEF OneOwner, TypeOK
<1>5. ASSUME NEW r \in Receiver, ReturnSender(r)
      PROVE  OneOwner'
  <2>1. holds[r] # Nobody
    BY <1>5 DEF ReturnSender, HoldersHold, InHand
  <2>2. PICK s \in Sender : s = holds[r]
    BY <2>1 DEF TypeOK
  <2>3. pending' = (pending \ SameId(s)) \cup {s}
    BY <1>5, <2>2 DEF ReturnSender, Inserted
  <2>4. holds'[r] = Nobody /\ \A q \in Receiver \ {r} : holds'[q] = holds[q]
    BY <1>5 DEF ReturnSender, TypeOK
  <2>5. \A t \in Sender : pc'[t] = pc[t]
    BY <1>3, <1>5 DEF ReceiverTask
  <2>6. pc[s] = "registered"
    BY <2>1, <2>2 DEF OneOwner
  <2>7. \A q \in Receiver \ {r} : holds[q] # s
    BY <2>1, <2>2 DEF OneOwner
  <2>8. ASSUME NEW t \in pending'
        PROVE  pc'[t] = "registered" /\ \A u \in pending' : IdOf[t] = IdOf[u] => t = u
    BY <2>3, <2>5, <2>6, <2>8 DEF OneOwner, SameId, TypeOK
  <2>9. ASSUME NEW q \in Receiver, holds'[q] # Nobody
        PROVE  /\ pc'[holds'[q]] = "registered" /\ IdOf[holds'[q]] = IdOf[q]
               /\ holds'[q] \notin pending'
               /\ \A o \in Receiver : holds'[o] = holds'[q] => o = q
    <3>1. q # r /\ holds'[q] = holds[q] /\ holds[q] \in Sender /\ holds[q] # s
      BY <2>4, <2>7, <2>9 DEF TypeOK
    <3>2. \A o \in Receiver : holds'[o] = holds'[q] => o = q
      BY <2>4, <2>9, <3>1 DEF OneOwner
    <3>3. holds[q] \notin pending'
      BY <2>3, <2>9, <3>1 DEF OneOwner
    <3> QED BY <2>5, <2>9, <3>1, <3>2, <3>3 DEF OneOwner
  <2> QED BY <2>8, <2>9 DEF OneOwner
<1>6. ASSUME NEW r \in Receiver, DropGuard(r)
      PROVE  OneOwner'
  <2>1. pending' = pending /\ \A t \in Sender : pc'[t] = pc[t]
    BY <1>3, <1>6 DEF DropGuard, registry, ReceiverTask, SessionTask
  <2>2. holds'[r] = Nobody /\ \A q \in Receiver \ {r} : holds'[q] = holds[q]
    BY <1>6 DEF DropGuard, TypeOK
  <2> QED BY <2>1, <2>2 DEF OneOwner, TypeOK
<1>7. ASSUME NEW r \in Receiver,
             \/ AcceptReceiver(r) \/ HelloFails(r) \/ ReceiverHello(r)
             \/ PollInVain(r) \/ RecordFailure(r) \/ Reserve(r) \/ GiveBack(r)
             \/ CopyEnds(r) \/ CopyTimesOut(r)
      PROVE  OneOwner'
  <2>1. pending' \subseteq pending /\ holds' = holds
    BY <1>7 DEF AcceptReceiver, HelloFails, ReceiverHello, PollInVain,
                RecordFailure, Reserve, GiveBack, CopyEnds, CopyTimesOut, Reap,
                Fresh, registry, sessions
  <2>2. \A t \in Sender : pc'[t] = pc[t]
    BY <1>3, <1>7 DEF ReceiverTask, SessionTask
  <2> QED BY <2>1, <2>2 DEF OneOwner, TypeOK
<1>8. CASE (\E p \in Peer : Leave(p)) \/ (\E a \in Addr : FailureExpires(a))
             \/ UNCHANGED vars
  BY <1>8, EnvironmentSteps DEF OneOwner, registry, sessions
<1> QED
  BY <1>1, <1>2, <1>4, <1>5, <1>6, <1>7, <1>8
     DEF Next, SenderTask, ReceiverTask, SessionTask
-----------------------------------------------------------------------------
(* The lock and the limits of the map.                                     *)

\* A receiver's step leaves the senders' tasks alone, and the map as well as
\* long as a registration holds the lock.
LEMMA ReceiverSteps ==
  ASSUME TypeOK, NEW r \in Receiver, AcceptReceiver(r) \/ ReceiverTask(r)
  PROVE  /\ \A s \in Sender : pc'[s] = pc[s]
         /\ lock' = lock
         /\ Locked => pending' = pending
<1>1. pc' = pc \/ \E state : Becomes(r, state)
  BY DEF AcceptReceiver, ReceiverTask, HelloFails, ReceiverHello, Take,
         PollInVain, RecordFailure, Reserve, GiveBack, ReturnSender,
         SessionTask, CopyEnds, CopyTimesOut, DropGuard, Becomes
<1>2. \A s \in Sender : pc'[s] = pc[s]
  BY <1>1, RelayAssumption DEF Becomes, TypeOK, Peer
<1>3. lock' = lock /\ (Locked => pending' = pending)
  BY DEF AcceptReceiver, ReceiverTask, HelloFails, ReceiverHello, Take,
         PollInVain, RecordFailure, Reserve, GiveBack, ReturnSender,
         SessionTask, CopyEnds, CopyTimesOut, DropGuard, registry
<1> QED BY <1>2, <1>3

\* The lock is held through the write of an ack, and only then.
LEMMA LockStep ==
  ASSUME TypeOK, AckedHasLock, [Next]_vars
  PROVE  AckedHasLock'
<1>0. Nobody \notin Sender /\ Peer = Sender \cup Receiver
  BY RelayAssumption DEF Peer
<1>1. ASSUME NEW s \in Sender, Recheck(s), pc'[s] = "acked"
      PROVE  AckedHasLock'
  <2>1. ~(InUse(s) \/ Full) /\ lock' = s
    BY <1>0, <1>1 DEF Recheck, Becomes, TypeOK
  <2>2. \A t \in Sender \ {s} : pc'[t] = pc[t] /\ pc[t] # "acked"
    BY <1>0, <1>1 DEF Recheck, Becomes, Locked, AckedHasLock, TypeOK
  <2> QED BY <1>1, <2>1, <2>2 DEF AckedHasLock
<1>2. ASSUME NEW s \in Sender, AckFails(s) \/ Register(s)
      PROVE  AckedHasLock'
  <2>1. pc[s] = "acked" /\ lock' = Nobody /\ pc'[s] # "acked"
    BY <1>0, <1>2 DEF AckFails, Register, Becomes, TypeOK
  <2>2. \A t \in Sender \ {s} : pc'[t] = pc[t] /\ pc[t] # "acked"
    BY <1>0, <1>2, <2>1 DEF AckFails, Register, Becomes, AckedHasLock, TypeOK
  <2> QED BY <1>0, <2>1, <2>2 DEF AckedHasLock
<1>3. ASSUME NEW s \in Sender,
             \/ AcceptSender(s) \/ HelloFails(s) \/ SenderHello(s) \/ GrowStale(s)
             \/ Recheck(s) /\ pc'[s] # "acked"
      PROVE  AckedHasLock'
  <2>1. CASE Recheck(s)
    <3>1. pc[s] # "acked" /\ pc'[s] # "acked" /\ lock' = lock
      BY <1>0, <1>3, <2>1 DEF Recheck, AcceptSender, HelloFails, SenderHello,
                              GrowStale, Becomes, TypeOK
    <3>2. \A t \in Sender \ {s} : pc'[t] = pc[t]
      BY <1>0, <2>1 DEF Recheck, Becomes, TypeOK
    <3> QED BY <3>1, <3>2 DEF AckedHasLock
  <2>2. CASE ~Recheck(s)
    <3>1. lock' = lock /\ (pc'[s] = "acked" <=> pc[s] = "acked")
      BY <1>0, <1>3, <2>2 DEF AcceptSender, HelloFails, SenderHello, GrowStale,
                              Becomes, registry, TypeOK
    <3>2. \A t \in Sender \ {s} : pc'[t] = pc[t]
      BY <1>0, <1>3, SenderSteps DEF SenderTask
    <3> QED BY <3>1, <3>2 DEF AckedHasLock
  <2> QED BY <2>1, <2>2
<1>4. ASSUME NEW r \in Receiver, AcceptReceiver(r) \/ ReceiverTask(r)
      PROVE  AckedHasLock'
  BY <1>4, ReceiverSteps DEF AckedHasLock
<1>5. CASE (\E p \in Peer : Leave(p)) \/ (\E a \in Addr : FailureExpires(a))
             \/ UNCHANGED vars
  BY <1>5, EnvironmentSteps DEF AckedHasLock, registry
<1> QED BY <1>1, <1>2, <1>3, <1>4, <1>5 DEF Next, SenderTask

\* The map has a finite number of entries.
LEMMA MapFinite ==
  ASSUME NEW A, A \subseteq Sender
  PROVE  IsFiniteSet(A) /\ Cardinality(A) \in Nat
<1>1. IsFiniteSet(A)
  BY RelayAssumption, FS_Subset
<1> QED BY <1>1, FS_CardinalityType

\* Nobody takes the room a registration found, for it keeps the lock.
LEMMA FitsStep ==
  ASSUME TypeOK, AckedHasLock, AckedFits, [Next]_vars
  PROVE  AckedFits'
<1>0. Nobody \notin Sender /\ Peer = Sender \cup Receiver
  BY RelayAssumption DEF Peer
<1>1. ASSUME NEW s \in Sender, Recheck(s), pc'[s] = "acked"
      PROVE  AckedFits'
  <2>1. ~InUse(s) /\ ~Full /\ pending' = Fresh
    BY <1>0, <1>1 DEF Recheck, Reap, Becomes, TypeOK
  <2>2. \A t \in Sender \ {s} : pc'[t] # "acked"
    BY <1>0, <1>1 DEF Recheck, Becomes, Locked, AckedHasLock, TypeOK
  <2>3. Fresh \subseteq Sender /\ MaxPending \in Nat
    BY RelayAssumption DEF Fresh, TypeOK
  <2>4. Cardinality(Fresh) \in Nat
    BY <2>3, MapFinite
  <2>5. Cardinality(Fresh) < MaxPending
    BY <2>1, <2>3, <2>4 DEF Full
  <2>6. pending' \cap SameId(s) = {} /\ Cardinality(pending') < MaxPending
    BY <2>1, <2>5 DEF InUse
  <2> QED BY <2>2, <2>6 DEF AckedFits, SameId
<1>2. ASSUME NEW s \in Sender, NEW t \in Sender, pc'[t] = "acked",
             \/ AcceptSender(s) \/ SenderTask(s) \/ GrowStale(s),
             ~(Recheck(s) /\ pc'[s] = "acked")
      PROVE  pc[t] = "acked" /\ pending' = pending
  <2>1. pc[t] = "acked"
    <3>1. CASE t = s
      BY <1>0, <1>2, <3>1
         DEF AcceptSender, SenderTask, HelloFails, SenderHello, AckFails, Register,
             GrowStale, Becomes, TypeOK
    <3>2. CASE t # s
      BY <1>0, <1>2, <3>2, SenderSteps
    <3> QED BY <3>1, <3>2
  <2>2. lock = t /\ Locked
    BY <1>0, <2>1 DEF AckedHasLock, Locked
  <2>3. ~AckFails(s) /\ ~Register(s)
    <3>1. SUFFICES ASSUME AckFails(s) \/ Register(s) PROVE FALSE
      OBVIOUS
    <3>2. pc[s] = "acked" /\ pc'[s] # "acked"
      BY <1>0, <3>1 DEF AckFails, Register, Becomes, TypeOK
    <3>3. s = t
      BY <2>2, <3>2 DEF AckedHasLock
    <3> QED BY <1>2, <3>2, <3>3
  <2>4. pending' = pending
    BY <1>2, <2>2, <2>3
       DEF AcceptSender, SenderTask, HelloFails, SenderHello, Recheck, GrowStale,
           registry
  <2> QED BY <2>1, <2>4
<1>3. ASSUME NEW r \in Receiver, AcceptReceiver(r) \/ ReceiverTask(r)
      PROVE  AckedFits'
  <2>1. ASSUME NEW t \in Sender, pc'[t] = "acked"
        PROVE  pc[t] = "acked" /\ pending' = pending
    BY <1>0, <1>3, <2>1, ReceiverSteps DEF AckedHasLock, Locked
  <2> QED BY <2>1 DEF AckedFits, SameId
<1>4. CASE (\E p \in Peer : Leave(p)) \/ (\E a \in Addr : FailureExpires(a))
             \/ UNCHANGED vars
  BY <1>4, EnvironmentSteps DEF AckedFits, SameId, registry
<1>5. ASSUME NEW s \in Sender, AcceptSender(s) \/ SenderTask(s) \/ GrowStale(s)
      PROVE  AckedFits'
  <2>1. CASE Recheck(s) /\ pc'[s] = "acked"
    BY <1>1, <2>1
  <2>2. CASE ~(Recheck(s) /\ pc'[s] = "acked")
    BY <1>2, <1>5, <2>2 DEF AckedFits, SameId
  <2> QED BY <2>1, <2>2
<1> QED BY <1>3, <1>4, <1>5 DEF Next
\* A task takes a permit when there is one, and has it until its handler ends.
LEMMA PermitsStep ==
  ASSUME TypeOK, PermitsBounded, [Next]_vars
  PROVE  PermitsBounded'
<1> DEFINE n == Cardinality(In(PermitStates))
<1>0. n \in Nat /\ n <= MaxWaiters /\ MaxWaiters \in Nat /\ PermitStates' = PermitStates
  BY Countable, RelayAssumption DEF PermitsBounded, Permitted, PermitStates
<1>1. SUFFICES \/ Cardinality(In(PermitStates)') = n
               \/ Cardinality(In(PermitStates)') = n - 1
               \/ Cardinality(In(PermitStates)') = n + 1 /\ n < MaxWaiters
  <2>1. Permitted' = In(PermitStates)'
    BY DEF Permitted, In, PermitStates
  <2> HIDE DEF n
  <2> QED BY <1>0, <1>1, <2>1 DEF PermitsBounded
<1>2. ASSUME NEW s \in Sender, AcceptSender(s) \/ SenderTask(s) \/ GrowStale(s)
      PROVE  Cardinality(In(PermitStates)') = n
  BY <1>2, SenderSteps
<1>3. ASSUME NEW r \in Receiver, NEW state, Becomes(r, state),
             pc[r] \in PermitStates \/ state \notin PermitStates
      PROVE  \/ Cardinality(In(PermitStates)') = n
             \/ Cardinality(In(PermitStates)') = n - 1
  BY <1>3, OneMoves
<1>4. ASSUME NEW r \in Receiver, NEW state, Becomes(r, state), PermitFree
      PROVE  \/ Cardinality(In(PermitStates)') = n
             \/ Cardinality(In(PermitStates)') = n - 1
             \/ Cardinality(In(PermitStates)') = n + 1 /\ n < MaxWaiters
  BY <1>4, OneMoves DEF PermitFree, Permitted
<1>5. ASSUME NEW r \in Receiver, AcceptReceiver(r) \/ ReceiverTask(r)
      PROVE  \/ pc' = pc
             \/ \E state : /\ Becomes(r, state)
                           /\ \/ pc[r] \in PermitStates \/ state \notin PermitStates
                              \/ PermitFree
  <2>1. CASE AcceptReceiver(r)
    BY <2>1 DEF AcceptReceiver, PermitStates
  <2>2. CASE ReceiverHello(r)
    BY <2>2 DEF ReceiverHello, PermitStates
  <2>3. CASE HelloFails(r) \/ Take(r) \/ PollInVain(r) \/ RecordFailure(r)
    BY <2>3 DEF HelloFails, Take, PollInVain, RecordFailure, PermitStates, Becomes
  <2>4. CASE Reserve(r) \/ GiveBack(r) \/ ReturnSender(r) \/ SessionTask(r)
    BY <2>4 DEF Reserve, GiveBack, ReturnSender, SessionTask, CopyEnds,
                CopyTimesOut, DropGuard, PermitStates
  <2> QED BY <1>5, <2>1, <2>2, <2>3, <2>4 DEF ReceiverTask
<1>6. ASSUME NEW r \in Receiver, AcceptReceiver(r) \/ ReceiverTask(r)
      PROVE  \/ Cardinality(In(PermitStates)') = n
             \/ Cardinality(In(PermitStates)') = n - 1
             \/ Cardinality(In(PermitStates)') = n + 1 /\ n < MaxWaiters
  <2>1. CASE pc' = pc
    BY <2>1, NobodyMoves
  <2>2. CASE pc' # pc
    BY <1>3, <1>4, <1>5, <1>6, <2>2
  <2> QED BY <2>1, <2>2
<1>7. CASE (\E p \in Peer : Leave(p)) \/ (\E a \in Addr : FailureExpires(a))
             \/ UNCHANGED vars
  BY <1>7, EnvironmentSteps
<1> HIDE DEF n
<1> QED BY <1>2, <1>6, <1>7 DEF Next

\* A poll moves an entry from the map to a hand, a return moves it back; only a
\* registration adds one, and it has found the map below its limit.
LEMMA MapStep ==
  ASSUME TypeOK, HoldersHold, AckedFits, PermitsBounded, MapBounded, [Next]_vars
  PROVE  MapBounded'
<1> DEFINE n == Cardinality(In(InHand))
           m == Cardinality(In(InHand)')
           k == Cardinality(pending)
           l == Cardinality(pending')
<1>0. /\ n \in Nat /\ m \in Nat /\ k \in Nat
      /\ MaxPending \in Nat /\ MaxWaiters \in Nat /\ n <= MaxWaiters
      /\ k + n <= MaxPending + MaxWaiters
  <2>1. InHand \subseteq PermitStates
    BY DEF InHand, PermitStates
  <2>2. n <= Cardinality(In(PermitStates))
    BY <2>1, Wider
  <2>3. n \in Nat /\ m \in Nat /\ Cardinality(In(PermitStates)) \in Nat
    BY Countable
  <2>4. k \in Nat
    BY MapFinite DEF TypeOK
  <2>5. Cardinality(In(PermitStates)) <= MaxWaiters
    BY DEF PermitsBounded, Permitted
  <2>6. k + n <= MaxPending + MaxWaiters
    BY DEF MapBounded
  <2> HIDE DEF n, m, k
  <2> QED BY <2>2, <2>3, <2>4, <2>5, <2>6, RelayAssumption
<1>1. SUFFICES /\ l \in Nat
               /\ \/ l <= k /\ m = n
                  \/ l <= k /\ m = n - 1
                  \/ l + 1 <= k /\ m = n + 1
                  \/ l <= k + 1 /\ m = n - 1
                  \/ l <= k + 1 /\ m = n /\ k < MaxPending
  <2>1. l + m <= MaxPending + MaxWaiters
    <3> HIDE DEF n, m, k, l
    <3> QED BY <1>0, <1>1
  <2>2. InHand' = InHand /\ MapBounded' = (l + m <= MaxPending + MaxWaiters)
    BY DEF MapBounded, In, InHand
  <2> QED BY <2>1, <2>2
<1>2. ASSUME NEW A, A \subseteq pending
      PROVE  Cardinality(A) \in Nat /\ Cardinality(A) <= k
  BY <1>2, MapFinite, FS_Subset DEF TypeOK
<1>3. ASSUME NEW A, NEW s \in Sender, A \subseteq pending
      PROVE  Cardinality(A \cup {s}) \in Nat /\ Cardinality(A \cup {s}) <= k + 1
  <2>1. IsFiniteSet(A) /\ Cardinality(A) \in Nat /\ Cardinality(A) <= k
    BY <1>2, <1>3, MapFinite DEF TypeOK
  <2>2. Cardinality(A \cup {s}) = IF s \in A THEN Cardinality(A) ELSE Cardinality(A) + 1
    BY <2>1, FS_AddElement
  <2> HIDE DEF k
  <2> QED BY <1>0, <2>1, <2>2
<1>4. ASSUME NEW s \in Sender, AcceptSender(s) \/ SenderTask(s) \/ GrowStale(s)
      PROVE  l \in Nat /\ m = n /\ (l <= k \/ (l <= k + 1 /\ k < MaxPending))
  <2>1. m = n
    BY <1>4, SenderSteps
  <2>2. CASE Register(s)
    <3>1. pending' = pending \cup {s} /\ k < MaxPending
      BY <2>2 DEF Register, Inserted, AckedFits
    <3> QED BY <1>3, <2>1, <3>1
  <2>3. CASE ~Register(s)
    <3>1. pending' \subseteq pending
      BY <1>4, <2>3 DEF AcceptSender, SenderTask, HelloFails, SenderHello, Recheck,
                        AckFails, GrowStale, Reap, Fresh, registry
    <3> QED BY <1>2, <2>1, <3>1
  <2> QED BY <2>2, <2>3
<1>5. ASSUME NEW r \in Receiver, Take(r)
      PROVE  l \in Nat /\ l + 1 <= k /\ m = n + 1
  <2>1. pc[r] \notin InHand /\ "holding" \in InHand /\ Becomes(r, "holding")
    BY <1>5 DEF Take, InHand
  <2>2. m = n + 1
    BY <2>1, OneMoves
  <2>3. PICK s \in pending : pending' \subseteq pending \ {s}
    BY <1>5 DEF Take, Fresh
  <2>4. IsFiniteSet(pending)
    BY MapFinite DEF TypeOK
  <2>5. Cardinality(pending \ {s}) = k - 1
    BY <2>3, <2>4, FS_RemoveElement
  <2>6. IsFiniteSet(pending \ {s}) /\ IsFiniteSet(pending')
    BY <2>3, <2>4, FS_Subset
  <2>7. l <= Cardinality(pending \ {s}) /\ l \in Nat
    BY <2>3, <2>6, FS_Subset, FS_CardinalityType
  <2> HIDE DEF k, l, m, n
  <2> QED BY <1>0, <2>2, <2>5, <2>7
<1>6. ASSUME NEW r \in Receiver, ReturnSender(r)
      PROVE  l \in Nat /\ l <= k + 1 /\ m = n - 1
  <2>1. pc[r] \in InHand /\ "capacity" \notin InHand /\ Becomes(r, "capacity")
    BY <1>6 DEF ReturnSender, InHand
  <2>2. m = n - 1
    BY <2>1, OneMoves
  <2>3. holds[r] \in Sender
    BY <2>1 DEF HoldersHold, TypeOK
  <2>4. pending' = (pending \ SameId(holds[r])) \cup {holds[r]}
    BY <1>6 DEF ReturnSender, Inserted
  <2> QED BY <1>3, <2>2, <2>3, <2>4
<1>7. ASSUME NEW r \in Receiver,
             \/ AcceptReceiver(r) \/ HelloFails(r) \/ ReceiverHello(r)
             \/ PollInVain(r) \/ RecordFailure(r) \/ Reserve(r) \/ GiveBack(r)
             \/ CopyEnds(r) \/ CopyTimesOut(r) \/ DropGuard(r)
      PROVE  l \in Nat /\ l <= k /\ (m = n \/ m = n - 1)
  <2>1. pending' \subseteq pending
    BY <1>7 DEF AcceptReceiver, HelloFails, ReceiverHello, PollInVain,
                RecordFailure, Reserve, GiveBack, CopyEnds, CopyTimesOut,
                DropGuard, Reap, Fresh, registry
  <2>2. \/ pc' = pc
        \/ \E state : Becomes(r, state) /\ (pc[r] \in InHand \/ state \notin InHand)
    BY <1>7 DEF AcceptReceiver, HelloFails, ReceiverHello, PollInVain,
                RecordFailure, Reserve, GiveBack, CopyEnds, CopyTimesOut,
                DropGuard, Becomes, InHand
  <2>3. m = n \/ m = n - 1
    BY <2>2, NobodyMoves, OneMoves
  <2> QED BY <1>2, <2>1, <2>3
<1>8. CASE (\E p \in Peer : Leave(p)) \/ (\E a \in Addr : FailureExpires(a))
             \/ UNCHANGED vars
  <2>1. pending' = pending /\ m = n
    BY <1>8, EnvironmentSteps DEF registry
  <2> QED BY <1>2, <2>1
<1> HIDE DEF n, m, k, l
<1> QED
  BY <1>4, <1>5, <1>6, <1>7, <1>8 DEF Next, ReceiverTask, SessionTask

-----------------------------------------------------------------------------
(* The theorems.                                                           *)

\* All the invariants at once: none of them is inductive without the others.
RelayInv ==
  TypeOK /\ SlotsAccounted /\ SessionsBounded /\ OneOwner /\ Bookkeeping /\ MapBounded

\* It holds of a relay that has just started.
LEMMA RelayInit == Init => RelayInv
<1> SUFFICES ASSUME Init PROVE RelayInv
  OBVIOUS
<1>0. /\ Peer = Sender \cup Receiver /\ Nobody \notin Peer
      /\ MaxPending \in Nat /\ MaxSessions \in Nat /\ MaxWaiters \in Nat
  BY RelayAssumption DEF Peer
<1>1. TypeOK
  BY <1>0 DEF Init, TypeOK, SenderStates, ReceiverStates
<1>2. ASSUME NEW S, "away" \notin S
      PROVE  Cardinality(In(S)) = 0
  <2>1. In(S) = {}
    BY <1>0, <1>2 DEF Init, In
  <2> QED BY <2>1, FS_EmptySet
<1>3. /\ "away" \notin Slots /\ "away" \notin Sessions /\ "away" \notin InHand
      /\ "away" \notin PermitStates
  BY DEF Slots, Sessions, InHand, PermitStates
<1>4. SlotsAccounted
  BY <1>2, <1>3 DEF SlotsAccounted, Init
<1>5. SessionsBounded
  BY <1>0, <1>2, <1>3 DEF SessionsBounded
<1>6. OneOwner
  BY DEF Init, OneOwner
<1>7. Bookkeeping
  <2>1. HoldersHold
    BY <1>0 DEF Init, HoldersHold, InHand, Sessions
  <2>2. AckedHasLock /\ AckedFits
    BY <1>0 DEF Init, AckedHasLock, AckedFits
  <2>3. PermitsBounded
    BY <1>0, <1>2, <1>3 DEF PermitsBounded, Permitted
  <2> QED BY <2>1, <2>2, <2>3 DEF Bookkeeping
<1>8. MapBounded
  <2>1. Cardinality(pending) = 0 /\ Cardinality(In(InHand)) = 0
    BY <1>2, <1>3, FS_EmptySet DEF Init
  <2> QED BY <1>0, <2>1 DEF MapBounded
<1> QED BY <1>1, <1>4, <1>5, <1>6, <1>7, <1>8 DEF RelayInv

\* And no step breaks it.
LEMMA RelayStep == RelayInv /\ [Next]_vars => RelayInv'
BY SlotsStep, SessionsStep, TypeStep, HoldersStep, OwnerStep, LockStep, FitsStep,
   PermitsStep, MapStep
   DEF RelayInv, Bookkeeping

\* Hence it holds throughout.
LEMMA RelayInvHolds == Spec => []RelayInv
BY RelayInit, RelayStep, PTL DEF Spec

\* The declared types.
THEOREM RelayTypeCorrect == Spec => []TypeOK
<1>1. RelayInv => TypeOK
  BY DEF RelayInv
<1> QED BY <1>1, RelayInvHolds, PTL

\* There are never more sessions than max_sessions, however many receivers
\* reserve a slot at once and whatever the sessions do.
THEOREM SessionLimitHolds == Spec => []SessionsBounded
<1>1. RelayInv => SessionsBounded
  BY DEF RelayInv
<1> QED BY <1>1, RelayInvHolds, PTL

\* active_sessions neither leaks a slot nor frees one twice.
THEOREM SlotsNeverLeak == Spec => []SlotsAccounted
<1>1. RelayInv => SlotsAccounted
  BY DEF RelayInv
<1> QED BY <1>1, RelayInvHolds, PTL

\* No sender is given to two receivers, to one that asked for another ID, or
\* before its registration is complete.
THEOREM SenderHasOneOwner == Spec => []OneOwner
<1>1. RelayInv => OneOwner
  BY DEF RelayInv
<1> QED BY <1>1, RelayInvHolds, PTL

\* The map outgrows MAX_PENDING_SENDERS by no more than MAX_RECEIVER_WAITERS.
THEOREM MapStaysBounded == Spec => []MapBounded
<1>1. RelayInv => MapBounded
  BY DEF RelayInv
<1> QED BY <1>1, RelayInvHolds, PTL
\* Who is in which state agrees with who is in whose hands: a receiver that pairs
\* or returns holds a sender, an acknowledged sender has the lock and room in the
\* map, and no more receivers wait than there are permits.
THEOREM BooksAreKept == Spec => []Bookkeeping
<1>1. RelayInv => Bookkeeping
  BY DEF RelayInv
<1> QED BY <1>1, RelayInvHolds, PTL

\* A registered sender whose entry is fresh is never lost to a registration: the
\* second look under the lock leaves the poll and the return of a receiver.
THEOREM EvictionNeedsReturn == Spec => OnlyReturnEvicts
<1> DEFINE Kept ==
      \A s \in Fresh : s \notin pending' =>
        \E r \in Receiver :
          /\ IdOf[r] = IdOf[s]
          /\ \/ pc[r] = "waiting" /\ holds'[r] = s
             \/ pc[r] = "returning" /\ pc'[r] = "capacity"
<1>1. ASSUME RelayInv, [Next]_vars
      PROVE  Kept
  <2>0. Fresh \subseteq pending /\ pending \subseteq Sender /\ Peer = Sender \cup Receiver
    BY <1>1 DEF RelayInv, TypeOK, Fresh, Peer
  <2>1. ASSUME NEW t \in Sender, AcceptSender(t) \/ SenderTask(t) \/ GrowStale(t)
        PROVE  Fresh \subseteq pending'
    <3>1. Register(t) => pending' = pending \cup {t}
      BY <1>1 DEF Register, Inserted, RelayInv, Bookkeeping, AckedFits
    <3> QED
      BY <2>0, <2>1, <3>1
         DEF AcceptSender, SenderTask, HelloFails, SenderHello, Recheck, AckFails,
             GrowStale, Reap, registry
  <2>2. ASSUME NEW r \in Receiver,
               \/ AcceptReceiver(r) \/ HelloFails(r) \/ ReceiverHello(r)
               \/ PollInVain(r) \/ RecordFailure(r) \/ Reserve(r) \/ GiveBack(r)
               \/ SessionTask(r)
        PROVE  Fresh \subseteq pending'
    BY <2>0, <2>2 DEF AcceptReceiver, HelloFails, ReceiverHello, PollInVain,
                      RecordFailure, Reserve, GiveBack, SessionTask, CopyEnds,
                      CopyTimesOut, DropGuard, Reap, registry
  <2>3. ASSUME NEW r \in Receiver, Take(r), NEW s \in Fresh, s \notin pending'
        PROVE  IdOf[r] = IdOf[s] /\ pc[r] = "waiting" /\ holds'[r] = s
    <3>1. PICK t \in Fresh \cap SameId(r) :
            pending' = Fresh \ {t} /\ holds' = [holds EXCEPT ![r] = t]
      BY <2>3 DEF Take
    <3>2. t = s /\ IdOf[t] = IdOf[r] /\ holds'[r] = t
      BY <1>1, <2>3, <3>1 DEF SameId, RelayInv, TypeOK
    <3> QED BY <2>3, <3>2 DEF Take
  <2>4. ASSUME NEW r \in Receiver, ReturnSender(r), NEW s \in Fresh, s \notin pending'
        PROVE  IdOf[r] = IdOf[s] /\ pc[r] = "returning" /\ pc'[r] = "capacity"
    <3>1. pc[r] = "returning" /\ pc'[r] = "capacity"
      BY <1>1, <2>0, <2>4 DEF ReturnSender, Becomes, RelayInv, TypeOK
    <3>2. holds[r] \in Sender /\ IdOf[holds[r]] = IdOf[r]
      BY <1>1, <3>1 DEF RelayInv, Bookkeeping, HoldersHold, InHand, OneOwner, TypeOK
    <3>3. s \in SameId(holds[r])
      BY <2>0, <2>4 DEF ReturnSender, Inserted
    <3> QED BY <3>1, <3>2, <3>3 DEF SameId
  <2>5. CASE (\E p \in Peer : Leave(p)) \/ (\E a \in Addr : FailureExpires(a))
               \/ UNCHANGED vars
    BY <2>0, <2>5, EnvironmentSteps DEF registry
  <2> QED
    BY <1>1, <2>0, <2>1, <2>2, <2>3, <2>4, <2>5 DEF Next, ReceiverTask
<1>2. RelayInv /\ [Next]_vars => [Kept]_vars
  BY <1>1
<1> QED BY <1>2, RelayInvHolds, PTL DEF Spec, OnlyReturnEvicts
=============================================================================
