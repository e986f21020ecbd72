----------------------- MODULE ParallelSessionProofs ------------------------
(***************************************************************************)
(* Theorems of ParallelSession, for any number of files, connections,      *)
(* attempts and faults, and under every policy: TypeOK, NoSharedFile,      *)
(* ExistingKept, SuccessIsServed and SenderSuccessIsServed.                *)
(*                                                                         *)
(* The argument: the only connections that are alive are those of the      *)
(* attempt that runs (OneAttempt), a connection that works has its share   *)
(* of the count it has met (OwnShare) and none of the user's files (Kept), *)
(* and as long as no connection of the attempt has failed, what it planned *)
(* is whole or still to be received by one of them (Promised).  On the     *)
(* sender's side what a connection of the round has planned is whole,      *)
(* still received, or the round is doomed (Served).                        *)
(***************************************************************************)
EXTENDS ParallelSession, FiniteSetTheorems, WellFoundedInduction, TLAPS

-----------------------------------------------------------------------------
(* The inductive invariant.                                                *)

Running == receiver.phase \in {"negotiate", "drain"}
Alive(c) == rx[c] \notin {"none"} \cup RxLeft

Types ==
  /\ rx \in [Conn -> RxStates]
  /\ todo \in [Conn -> SUBSET File]
  /\ met \in [Conn -> {0} \cup Offers]
  /\ disk \in [File -> {"absent", "partial", "whole"}]
  /\ receiver \in [phase : ReceiverPhases, attempt : 0 .. MaxAttempts]
  /\ counts \in Seq(Nat)
  /\ policy \in Policies /\ found \subseteq File

\* The sender offers what it may, and accepts connections.
Senders == [phase : SenderPhases, offer : Offers, round : SUBSET Conn, need : Int]

Offering ==
  /\ sender \in Senders
  /\ backlog \in Seq(Conn)

\* Connections that are alive belong to the attempt that runs, later ones are
\* not opened, and an attempt that runs or has succeeded is one.
OneAttempt ==
  /\ \A c \in Conn : Alive(c) => Running /\ c[1] = receiver.attempt
  /\ \A c \in Conn : c[1] > receiver.attempt => rx[c] = "none"
  /\ Running \/ receiver.phase = "done" => receiver.attempt # 0

\* The connections an attempt opens are the first ones; before the count is
\* known there is only connection 0.
Prefix ==
  /\ receiver.phase = "negotiate" =>
       \A i \in Index : i # 0 => rx[<<receiver.attempt, i>>] = "none"
  /\ Running \/ receiver.phase = "done" =>
       /\ rx[<<receiver.attempt, 0>>] # "none"
       /\ \A i, j \in Index :
            j < i /\ rx[<<receiver.attempt, i>>] # "none"
              => rx[<<receiver.attempt, j>>] # "none"

OwnShare ==
  \A c \in Conn : rx[c] = "working" /\ todo[c] # {} => todo[c] \subseteq Assigned(c)

\* What works has the user's consent, and under every policy but overwrite the
\* user's files are whole and nobody's to receive.
Kept ==
  /\ \A c \in Conn : rx[c] = "working" => consent = "accept"
  /\ policy # "overwrite" =>
       \A f \in found :
         /\ disk[f] = "whole"
         /\ \A c \in Conn : rx[c] = "working" => f \notin todo[c]

\* A connection that has a plan, or has finished one.
Planned(c) == rx[c] \in {"working", "ok"}

\* A file that is there, or that a connection of the attempt is to receive.
Due(f) ==
  \/ disk[f] = "whole"
  \/ \E d \in Own(receiver.attempt) : rx[d] = "working" /\ f \in todo[d]

Unbroken == \A c \in Own(receiver.attempt) : rx[c] \notin {"failed", "gone"}

Promised ==
  /\ (Running \/ receiver.phase = "done") /\ Unbroken /\ policy # "skip" =>
       \A c \in Own(receiver.attempt) :
         Planned(c) /\ ~Superfluous(c) => \A f \in Assigned(c) : Due(f)
  /\ receiver.phase = "done" =>
       \A c \in Own(receiver.attempt) : rx[c] \in {"none", "ok"}

PInv == Types /\ OneAttempt /\ Prefix /\ OwnShare /\ Kept /\ Promised

-----------------------------------------------------------------------------
(* Numbers and connections.                                                *)

LEMMA Indices == 0 \in Index /\ Index \subseteq Nat /\ MaxAttempts \in Nat \ {0}
BY ParallelAssumption DEF Index, Clamp, Least, Greatest, MAX_PARALLEL

\* A nonempty set of naturals has a least element.
LEMMA HasLeast ==
  ASSUME NEW S \in SUBSET Nat, S # {}
  PROVE  \E x \in S : \A y \in S : x <= y
<1>1. PICK x \in S : \A y \in S : ~ (<<y, x>> \in OpToRel(<, Nat))
  BY NatLessThanWellFounded, WFMin
<1>2. ASSUME NEW y \in S, ~ (x <= y) PROVE FALSE
  <2>1. <<y, x>> \in Nat \X Nat /\ y < x
    BY <1>2
  <2>2. <<y, x>> \in OpToRel(<, Nat)
    BY <2>1 DEF OpToRel
  <2> QED BY <1>1, <2>2
<1> QED BY <1>2

LEMMA CountIsPositive ==
  ASSUME NEW offer \in Nat
  PROVE  ReceiverCount(offer) \in Nat \ {0} /\ SenderCount(offer) \in Nat
<1>1. ASSUME NEW x \in Nat, NEW low \in Nat, NEW high \in Nat
      PROVE  Clamp(x, low, high) \in Nat
  BY DEF Clamp, Least, Greatest
<1>2. Proposal(offer) \in Nat
  BY <1>1, ParallelAssumption DEF Proposal, MAX_PARALLEL
<1>3. SenderCount(offer) \in Nat
  BY <1>2 DEF SenderCount, Least, Greatest, MAX_PARALLEL
<1>4. Clamp(SenderCount(offer), 1, MAX_PARALLEL) \in Nat
  BY <1>1, <1>3 DEF MAX_PARALLEL
<1> QED BY <1>2, <1>3, <1>4 DEF ReceiverCount, Least, Greatest

\* A sender that offers a connection settles on one at least.
LEMMA CountPositive ==
  ASSUME NEW offer \in Nat \ {0}
  PROVE  SenderCount(offer) \in Nat \ {0}
<1>1. Proposal(offer) \in Nat
  <2>1. ASSUME NEW x \in Nat, NEW low \in Nat, NEW high \in Nat
        PROVE  Clamp(x, low, high) \in Nat
    BY DEF Clamp, Least, Greatest
  <2> QED BY <2>1, ParallelAssumption DEF Proposal, MAX_PARALLEL
<1> QED BY <1>1 DEF SenderCount, Least, Greatest, MAX_PARALLEL

LEMMA MetIsNat == ASSUME Types, NEW c \in Conn PROVE met[c] \in Nat
<1>1. met[c] \in {0} \cup Offers
  BY DEF Types
<1>2. Offers \subseteq Nat /\ 0 \in Nat
  BY ParallelAssumption
<1> QED BY <1>1, <1>2, Zenon

\* The connections of the attempt that runs are connections.
LEMMA OwnIsConn ==
  ASSUME Types, receiver.attempt # 0
  PROVE  /\ Own(receiver.attempt) \subseteq Conn
         /\ \A i \in Index : <<receiver.attempt, i>> \in Own(receiver.attempt)
         /\ \A c \in Own(receiver.attempt) :
              c[1] = receiver.attempt /\ c[2] \in Index
         /\ \A c \in Conn : c[1] = receiver.attempt => c \in Own(receiver.attempt)
BY DEF Types, Own, Conn, Attempt

-----------------------------------------------------------------------------
(* Init.                                                                   *)

LEMMA InitHolds == Init => PInv
<1> SUFFICES ASSUME Init PROVE PInv
  OBVIOUS
<1>1. Types
  BY ParallelAssumption DEF Init, Types, RxStates, ReceiverPhases, File
<1>2. OneAttempt /\ Prefix /\ OwnShare
  BY Indices DEF Init, OneAttempt, Prefix, OwnShare, Alive, Running, Conn, Attempt
<1>3. Kept /\ Promised
  BY <1>1 DEF Init, Kept, Promised, Running, Types
<1> QED BY <1>1, <1>2, <1>3 DEF PInv

-----------------------------------------------------------------------------
(* Steps.                                                                  *)

\* What the invariant is about.
state == <<receiver, counts, rx, met, todo, disk, consent, policy, found>>

LEMMA QuietStep ==
  ASSUME PInv, UNCHANGED state
  PROVE  PInv'
BY DEF PInv, state, Types, OneAttempt, Prefix, OwnShare, Kept, Promised, Running, Alive,
       Own, Planned, Superfluous, Assigned, Due, Unbroken

\* The sender's process and its ends, and the network, are not what it is about.
LEMMA OtherSideIsQuiet ==
  ASSUME \/ SenderStep \/ SenderRestarts \/ Finished
         \/ \E c \in Conn : TxDone(c) \/ TxFails(c) \/ Cut(c)
  PROVE  UNCHANGED state
BY DEF state, SenderStep, SenderRestarts, Finished, TxDone, TxFails, Cut, SenderAccepts,
       SenderHears, SenderFirstEnds, SenderAcceptsExtra, ExtrasTimeOut, SenderGivesUp,
       RoundFails, RoundCompletes, receiverSide, fixed, request, vars

\* A step of the sender's process sets the phase, the round and the need.
LEMMA SenderFields ==
  ASSUME NEW s \in Senders
  PROVE  s.offer \in Offers /\ s.need \in Int /\ s.round \in SUBSET Conn
BY DEF Senders

LEMMA SetPhase ==
  ASSUME NEW s \in Senders, NEW p \in SenderPhases
  PROVE  [s EXCEPT !.phase = p] \in Senders
BY DEF Senders

LEMMA SetNeed ==
  ASSUME NEW s \in Senders, NEW p \in SenderPhases, NEW n \in Int
  PROVE  [s EXCEPT !.phase = p, !.need = n] \in Senders
BY DEF Senders

LEMMA SetRound ==
  ASSUME NEW s \in Senders, NEW p \in SenderPhases, NEW r \in SUBSET Conn, NEW n \in Int
  PROVE  [s EXCEPT !.phase = p, !.round = r, !.need = n] \in Senders
BY DEF Senders

\* The sender's process keeps its offer, or begins again with another one.
LEMMA OfferingKept ==
  ASSUME PInv, Offering, Next
  PROVE  Offering'
<1> USE DEF Offering, SenderPhases, senderSide, vars
<1>1. ASSUME SenderStep PROVE Offering'
  <2> USE <1>1
  <2>1. backlog # <<>> => Head(backlog) \in Conn /\ Tail(backlog) \in Seq(Conn)
    OBVIOUS
  <2>2. "drain" \in SenderPhases /\ "accept" \in SenderPhases /\ 0 \in Int
          /\ {} \in SUBSET Conn
    OBVIOUS
  <2>3. ASSUME NEW p \in SenderPhases, NEW n \in Int, Accepts(p, n) PROVE Offering'
    <3>1. sender.round \cup {Head(backlog)} \in SUBSET Conn
      BY <2>1, <2>3, SenderFields DEF Accepts
    <3>2. [sender EXCEPT !.phase = p, !.round = sender.round \cup {Head(backlog)},
                         !.need = n] \in Senders
      BY <3>1, <2>3, SetRound
    <3> QED BY <2>1, <2>3, <3>2 DEF Accepts
  <2>4. CASE SenderAccepts
    BY <2>3, <2>4 DEF SenderAccepts
  <2>5. CASE SenderAcceptsExtra
    <3>1. sender.need - 1 \in Int
      BY SenderFields
    <3>2. (IF sender.need = 1 THEN "drain" ELSE "extras") \in SenderPhases
      OBVIOUS
    <3> QED BY <2>3, <2>5, <3>1, <3>2 DEF SenderAcceptsExtra
  <2>6. CASE SenderHears
    <3>1. PICK c \in sender.round : met[c] # 0
            /\ sender' = [sender EXCEPT
                 !.phase = IF SenderCount(met[c]) > 1 THEN "extras" ELSE "drain",
                 !.need = SenderCount(met[c]) - 1]
      BY <2>6 DEF SenderHears
    <3>2. c \in Conn
      BY SenderFields
    <3>3. SenderCount(met[c]) - 1 \in Int
      <4>1. met[c] \in Nat
        BY <3>2, MetIsNat DEF PInv
      <4>2. SenderCount(met[c]) \in Nat
        BY <4>1, CountIsPositive
      <4> QED BY <4>2
    <3>4. (IF SenderCount(met[c]) > 1 THEN "extras" ELSE "drain") \in SenderPhases
      OBVIOUS
    <3>5. sender' \in Senders
      BY <3>1, <3>3, <3>4, SetNeed
    <3> QED BY <2>6, <3>5 DEF SenderHears
  <2>7. CASE SenderFirstEnds
    BY <2>7, SetPhase DEF SenderFirstEnds
  <2>8. CASE ExtrasTimeOut
    <3>1. [sender EXCEPT !.phase = "drain", !.need = 0] \in Senders
      BY <2>2, SetNeed, Zenon
    <3> QED BY <2>8, <3>1 DEF ExtrasTimeOut
  <2>9. CASE SenderGivesUp
    BY <2>9, SetPhase DEF SenderGivesUp
  <2>10. CASE RoundFails
    <3>1. [sender EXCEPT !.phase = "accept", !.round = {}, !.need = 0] \in Senders
      BY <2>2, SetRound, Zenon
    <3> QED BY <2>10, <3>1 DEF RoundFails
  <2>11. CASE RoundCompletes
    <3>1. [sender EXCEPT !.phase = "done"] \in Senders
      BY SetPhase
    <3> QED BY <2>11, <3>1 DEF RoundCompletes
  <2> QED BY <2>4, <2>5, <2>6, <2>7, <2>8, <2>9, <2>10, <2>11 DEF SenderStep
<1>2. ASSUME ReceiverStep \/ UserAnswers PROVE Offering'
  BY <1>2 DEF ReceiverStep, UserAnswers, AttemptStarts, ReceiverHears,
     ReceiverFirstEnds, AttemptFails, AttemptEnds
<1>3. ASSUME NEW c \in Conn, TxStep(c) \/ RxStep(c) PROVE Offering'
  <2>1. Append(backlog, c) \in Seq(Conn)
    OBVIOUS
  <2> QED BY <1>3, <2>1 DEF TxStep, RxStep, TxCounts, TxDone, TxFails, RxDials,
        RxHandshakeTimesOut, RxCounts, RxAsks, RxDeclines, RxConflicts, RxPlans,
        RxOpens, RxVerifies, RxDone, RxFails
<1>4. ASSUME SenderRestarts \/ Finished \/ (\E c \in Conn : Cut(c)) PROVE Offering'
  <2>1. CASE SenderRestarts
    BY <2>1 DEF SenderRestarts, Senders
  <2> QED BY <1>4, <2>1 DEF Finished, Cut
<1> QED BY <1>1, <1>2, <1>3, <1>4 DEF Next, Step

\* The sender's Hello meets a connection that is not working yet.
LEMMA TxCountsKeeps ==
  ASSUME PInv, Offering, NEW c \in Conn, TxCounts(c)
  PROVE  PInv'
<1>1. /\ rx[c] = "dialled" /\ met' = [met EXCEPT ![c] = sender.offer]
      /\ UNCHANGED <<receiver, counts, rx, todo, disk, consent, policy, found>>
  BY DEF TxCounts, fixed, request
<1>2. \A d \in Conn : d # c => met'[d] = met[d]
  BY <1>1 DEF PInv, Types
<1>3. Types'
  BY <1>1 DEF PInv, Types, Offering, Senders
<1>4. OneAttempt' /\ Prefix' /\ Kept'
  BY <1>1 DEF PInv, OneAttempt, Prefix, Kept, Running, Alive
<1>5. OwnShare'
  BY <1>1, <1>2 DEF PInv, OwnShare, Assigned
<1>6. Promised'
  <2>1. \A f : Due(f)' <=> Due(f)
    BY <1>1 DEF Due, Own
  <2>2. \A d \in Conn : Planned(d)' => Planned(d) /\ (Superfluous(d)' <=> Superfluous(d))
                                      /\ Assigned(d)' = Assigned(d)
    BY <1>1, <1>2 DEF Planned, Superfluous, Assigned
  <2>3. receiver.attempt # 0 => Own(receiver.attempt) \subseteq Conn
    BY OwnIsConn DEF PInv
  <2>4. Own(receiver.attempt)' = Own(receiver.attempt) /\ (Unbroken' <=> Unbroken)
          /\ (Running' <=> Running)
    BY <1>1 DEF Own, Unbroken, Running
  <2> QED BY <1>1, <2>1, <2>2, <2>3, <2>4 DEF PInv, Promised, OneAttempt
<1> QED BY <1>3, <1>4, <1>5, <1>6 DEF PInv

\* An end of the receiver goes on or ends, without working before or after,
\* or ends its work: well, with nothing left to receive, or not.
LEMMA MoveKeeps ==
  ASSUME PInv, NEW c \in Conn, Alive(c),
         NEW s \in RxStates \ {"none", "working"}, Becomes(c, s),
         s = "ok" => rx[c] = "working" /\ todo[c] = {},
         rx[c] = "working" => s \in {"ok", "failed"},
         counts' \in Seq(Nat),
         UNCHANGED <<receiver, met, todo, disk, consent, policy, found>>
  PROVE  PInv'
<1> USE DEF PInv
<1>1. rx' = [rx EXCEPT ![c] = s] /\ rx'[c] = s /\ (\A d \in Conn : d # c => rx'[d] = rx[d])
  BY DEF Becomes, Types
<1>2. Types'
  BY <1>1 DEF Types
<1>3. OneAttempt' /\ Prefix' /\ Own(receiver.attempt) \subseteq Conn /\ receiver.attempt # 0
  <2>1. Running /\ c[1] = receiver.attempt
    BY DEF OneAttempt
  <2>2. OneAttempt'
    BY <1>1, <2>1 DEF OneAttempt, Alive, Running, Types
  <2>3. receiver.attempt # 0 /\ \A i \in Index : <<receiver.attempt, i>> \in Conn
    BY <2>1, OwnIsConn DEF OneAttempt
  <2>4. \A d \in Conn : rx'[d] = "none" <=> rx[d] = "none"
    BY <1>1 DEF Alive
  <2>5. Prefix'
    BY <2>3, <2>4, Indices DEF Prefix, Running
  <2> QED BY <2>2, <2>3, <2>5, OwnIsConn
<1>4. OwnShare' /\ Kept'
  BY <1>1 DEF OwnShare, Kept, Assigned
<1>5. Promised'
  <2>1. Running /\ Running' /\ receiver.phase # "done"
    BY DEF OneAttempt, Running
  <2>2. SUFFICES ASSUME Unbroken', policy # "skip", NEW d \in Own(receiver.attempt),
                        Planned(d)', ~Superfluous(d), NEW f \in Assigned(d)
                 PROVE  Due(f)'
    BY <2>1 DEF Promised, Own, Superfluous, Assigned
  <2>3. c \in Own(receiver.attempt) /\ s \notin {"failed", "gone"}
    BY <1>1, <1>3, <2>2, OwnIsConn DEF OneAttempt, Unbroken, Own
  <2>4. Unbroken /\ Planned(d)
    BY <1>1, <1>3, <2>2, <2>3 DEF Unbroken, Own, Alive, RxLeft, Planned
  <2>5. Due(f)
    BY <2>1, <2>2, <2>4 DEF Promised
  <2>6. ASSUME NEW e \in Own(receiver.attempt), rx[e] = "working", f \in todo[e]
        PROVE  e # c
    <3>1. e = c => s = "ok"
      BY <2>3, <2>6
    <3> QED BY <2>6, <3>1
  <2> QED BY <1>1, <1>3, <2>5, <2>6 DEF Due, Own
<1> QED BY <1>2, <1>3, <1>4, <1>5

\* The steps of MoveKeeps.
LEMMA MovesKeep ==
  ASSUME PInv, NEW c \in Conn,
         \/ RxDials(c) \/ RxHandshakeTimesOut(c) \/ RxCounts(c) \/ RxDeclines(c)
         \/ RxConflicts(c) \/ RxDone(c) \/ RxFails(c)
  PROVE  PInv'
<1> USE DEF fixed, request, senderSide, RxStates, RxLeft, Alive
<1>1. counts \in Seq(Nat)
  BY DEF PInv, Types
<1>2. CASE RxDials(c)
  <2>1. PICK s \in {"dialled", "failed"} : Becomes(c, s)
    BY <1>2 DEF RxDials
  <2> QED BY <1>1, <1>2, <2>1, MoveKeeps DEF RxDials
<1>3. CASE RxHandshakeTimesOut(c)
  BY <1>1, <1>3, MoveKeeps DEF RxHandshakeTimesOut
<1>4. CASE RxCounts(c)
  <2>1. met[c] \in Nat
    BY MetIsNat DEF PInv
  <2>2. ReceiverCount(met[c]) \in Nat
    BY <2>1, CountIsPositive
  <2>3. counts' \in Seq(Nat)
    BY <1>1, <1>4, <2>2 DEF RxCounts
  <2> QED BY <1>4, <2>3, MoveKeeps DEF RxCounts
<1>5. CASE RxDeclines(c)
  BY <1>1, <1>5, MoveKeeps DEF RxDeclines
<1>6. CASE RxConflicts(c)
  BY <1>1, <1>6, MoveKeeps DEF RxConflicts
<1>7. CASE RxDone(c)
  BY <1>1, <1>7, MoveKeeps DEF RxDone
<1>8. CASE RxFails(c)
  BY <1>1, <1>8, MoveKeeps DEF RxFails
<1> QED BY <1>2, <1>3, <1>4, <1>5, <1>6, <1>7, <1>8

\* The plan of a connection: its share, without what is whole already.
LEMMA PlanKeeps ==
  ASSUME PInv, NEW c \in Conn, RxPlans(c)
  PROVE  PInv'
<1> USE DEF PInv
<1> DEFINE plan == IF Superfluous(c) THEN {} ELSE {f \in Assigned(c) : Wants(f)}
<1>1. /\ rx[c] = "counted" /\ consent = "accept" /\ (Superfluous(c) \/ ~Conflicts)
      /\ rx' = [rx EXCEPT ![c] = "working"] /\ todo' = [todo EXCEPT ![c] = plan]
      /\ UNCHANGED <<receiver, counts, met, disk, consent, policy, found>>
  BY DEF RxPlans, Becomes, fixed, request
<1>2. /\ rx'[c] = "working" /\ \A d \in Conn : d # c => rx'[d] = rx[d]
      /\ todo'[c] = plan /\ \A d \in Conn : d # c => todo'[d] = todo[d]
  BY <1>1 DEF Types
<1>3. plan \subseteq Assigned(c) /\ Assigned(c) \subseteq File
  BY DEF Assigned
<1>4. Types'
  BY <1>1, <1>3 DEF Types, RxStates
<1>5. Running /\ Running' /\ c[1] = receiver.attempt /\ receiver.attempt # 0
        /\ Own(receiver.attempt) \subseteq Conn /\ c \in Own(receiver.attempt)
  <2>1. Running /\ c[1] = receiver.attempt
    BY <1>1 DEF OneAttempt, Alive, RxLeft
  <2> QED BY <1>1, <2>1, OwnIsConn DEF OneAttempt, Running
<1>6. OneAttempt'
  BY <1>1, <1>2, <1>5 DEF OneAttempt, Alive, Running, RxLeft, Types
<1>7. Prefix'
  <2>1. \A d \in Conn : rx'[d] = "none" <=> rx[d] = "none"
    BY <1>1, <1>2
  <2>2. \A i \in Index : <<receiver.attempt, i>> \in Conn
    BY <1>5, OwnIsConn
  <2> QED BY <1>1, <2>1, <2>2, Indices DEF Prefix, Running
<1>8. OwnShare'
  BY <1>1, <1>2, <1>3 DEF OwnShare, Assigned
<1>9. Kept'
  <2>1. ASSUME policy # "overwrite", NEW f \in found, f \in plan PROVE FALSE
    <3>1. disk[f] = "whole" /\ f \in File
      BY <2>1 DEF Kept, Types
    <3>2. policy \in {"resume", "skip", "fail"} /\ ~Conflicts /\ Wants(f)
      BY <1>1, <2>1, ParallelAssumption DEF Types
    <3> QED BY <3>1, <3>2 DEF Conflicts, Existing, Wants
  <2> QED BY <1>1, <1>2, <2>1 DEF Kept
<1>10. Promised'
  <2>1. SUFFICES ASSUME Unbroken', policy # "skip", NEW d \in Own(receiver.attempt),
                        Planned(d)', ~Superfluous(d), NEW f \in Assigned(d)
                 PROVE  Due(f)'
    BY <1>1, <1>5 DEF Promised, Own, Superfluous, Assigned, Running
  <2>2. Unbroken
    BY <1>1, <1>2, <1>5, <2>1 DEF Unbroken, Own
  <2>3. CASE d = c
    <3>1. policy \in {"resume", "overwrite", "fail"} /\ f \in File
      BY <1>3, <2>1, <2>3, ParallelAssumption DEF Types
    <3>2. f \in plan \/ disk[f] = "whole"
      BY <2>1, <2>3, <3>1 DEF Wants
    <3> QED BY <1>1, <1>2, <1>5, <3>2 DEF Due, Own
  <2>4. CASE d # c
    <3>1. Planned(d) /\ d \in Conn
      BY <1>2, <1>5, <2>1, <2>4 DEF Planned
    <3>2. Due(f)
      BY <1>5, <2>1, <2>2, <3>1 DEF Promised
    <3> QED BY <1>1, <1>2, <1>5, <3>2 DEF Due, Own
  <2> QED BY <2>3, <2>4
<1> QED BY <1>4, <1>6, <1>7, <1>8, <1>9, <1>10

\* The file a connection is at is one it has still to receive.
LEMMA CurrentIsDue ==
  ASSUME Types, NEW c \in Conn, todo[c] # {}
  PROVE  Current(c) \in todo[c] /\ Current(c) \in File
<1>1. todo[c] \in SUBSET File /\ File \subseteq Nat
  BY ParallelAssumption DEF Types, File
<1>2. \E f \in todo[c] : \A g \in todo[c] : f <= g
  BY <1>1, HasLeast
<1> QED BY <1>1, <1>2 DEF Current

\* A file is opened or finished by a connection that is to receive it.
LEMMA FilesKeep ==
  ASSUME PInv, NEW c \in Conn, RxOpens(c) \/ RxVerifies(c)
  PROVE  /\ PInv'
         /\ \A f \in File : disk'[f] # disk[f] =>
              consent = "accept" /\ (f \in found => policy = "overwrite")
<1> USE DEF PInv
<1> DEFINE f0 == Current(c)
<1>1. rx[c] = "working" /\ todo[c] # {}
        /\ UNCHANGED <<receiver, counts, rx, met, consent, policy, found>>
  BY DEF RxOpens, RxVerifies, Transfers, fixed, request
<1>2. f0 \in todo[c] /\ f0 \in File
  BY <1>1, CurrentIsDue
<1> HIDE DEF f0
<1>3. \A f \in File : f # f0 => disk'[f] = disk[f]
  BY <1>2 DEF RxOpens, RxVerifies, f0, Types
<1>4. \/ todo' = todo
      \/ /\ disk'[f0] = "whole" /\ todo'[c] = todo[c] \ {f0}
         /\ \A d \in Conn : d # c => todo'[d] = todo[d]
  BY <1>2 DEF RxOpens, RxVerifies, f0, Types
<1>5. Types'
  BY <1>1, <1>2 DEF Types, RxOpens, RxVerifies, f0
<1>6. /\ Running /\ Running' /\ receiver.attempt # 0
      /\ Own(receiver.attempt) \subseteq Conn /\ c \in Own(receiver.attempt)
  <2>1. Running /\ c[1] = receiver.attempt
    BY <1>1 DEF OneAttempt, Alive, RxLeft
  <2> QED BY <1>1, <2>1, OwnIsConn DEF OneAttempt, Running
<1>7. OneAttempt' /\ Prefix'
  BY <1>1 DEF OneAttempt, Prefix, Alive, Running
<1>8. \A d \in Conn : todo'[d] \subseteq todo[d]
  BY <1>4
<1>9. OwnShare'
  BY <1>1, <1>8 DEF OwnShare, Assigned
<1>10. f0 \in found => policy = "overwrite"
  BY <1>1, <1>2 DEF Kept
<1>11. Kept'
  <2>1. \A f \in found : f \in File
    BY DEF Types
  <2> QED BY <1>1, <1>3, <1>8, <1>10, <2>1 DEF Kept
<1>12. \A f \in File : Due(f) => Due(f)'
  <2>1. SUFFICES ASSUME NEW f \in File, Due(f) PROVE Due(f)'
    OBVIOUS
  <2>2. CASE f = f0
    BY <1>1, <1>2, <1>4, <1>6, <2>2 DEF Due, Own
  <2>3. CASE f # f0 /\ disk[f] = "whole"
    BY <1>3, <2>3 DEF Due
  <2>4. CASE f # f0 /\ disk[f] # "whole"
    <3>1. PICK d \in Own(receiver.attempt) : rx[d] = "working" /\ f \in todo[d]
      BY <2>1, <2>4 DEF Due
    <3>2. f \in todo'[d]
      BY <1>4, <1>6, <2>4, <3>1
    <3> QED BY <1>1, <3>1, <3>2 DEF Due, Own
  <2> QED BY <2>2, <2>3, <2>4
<1>13. Promised'
  <2>1. SUFFICES ASSUME Unbroken', policy # "skip", NEW d \in Own(receiver.attempt),
                        Planned(d)', ~Superfluous(d), NEW f \in Assigned(d)
                 PROVE  Due(f)'
    BY <1>1, <1>6 DEF Promised, Own, Superfluous, Assigned, Running
  <2>2. Unbroken /\ Planned(d) /\ f \in File
    BY <1>1, <2>1 DEF Unbroken, Own, Planned, Assigned
  <2>3. Due(f)
    BY <1>6, <2>1, <2>2 DEF Promised
  <2> QED BY <1>12, <2>2, <2>3
<1>14. consent = "accept"
  BY <1>1 DEF Kept
<1> QED BY <1>3, <1>5, <1>7, <1>9, <1>10, <1>11, <1>13, <1>14

\* The question is put and answered while nothing is being received.
LEMMA ConsentKeeps ==
  ASSUME PInv, (\E c \in Conn : RxAsks(c)) \/ UserAnswers
  PROVE  PInv'
<1>1. UNCHANGED <<receiver, counts, rx, met, todo, disk, policy, found>> /\ consent # "accept"
  BY DEF RxAsks, UserAnswers, fixed, request
<1>2. Kept'
  BY <1>1 DEF PInv, Kept
<1> QED BY <1>1, <1>2 DEF PInv, Types, OneAttempt, Prefix, OwnShare, Promised, Running,
          Alive, Own, Planned, Superfluous, Assigned, Due, Unbroken

\* An attempt begins with connection 0 and nothing of an earlier one alive.
LEMMA StartKeeps ==
  ASSUME PInv, AttemptStarts
  PROVE  PInv'
<1> USE DEF PInv
<1> DEFINE a == receiver.attempt + 1
<1>1. /\ receiver.phase = "start" /\ receiver.attempt \in Nat /\ a \in Attempt
      /\ receiver'.phase = "negotiate" /\ receiver'.attempt = a
      /\ receiver' \in [phase : ReceiverPhases, attempt : 0 .. MaxAttempts]
      /\ rx' = [rx EXCEPT ![<<a, 0>>] = "spawned"]
      /\ UNCHANGED <<counts, met, todo, disk, policy, found>>
  BY Indices DEF AttemptStarts, Types, Attempt, ReceiverPhases, fixed, request
<1>2. <<a, 0>> \in Conn /\ a # 0 /\ \A i \in Index : <<a, i>> \in Conn
  BY <1>1, Indices DEF Conn, Attempt
<1>3. rx'[<<a, 0>>] = "spawned" /\ \A d \in Conn : d # <<a, 0>> => rx'[d] = rx[d]
  BY <1>1, <1>2 DEF Types
<1>4. \A d \in Conn : ~Alive(d) /\ d[1] \in Nat /\ (d[1] > receiver.attempt => rx[d] = "none")
  BY <1>1 DEF OneAttempt, Running, Conn, Attempt
<1>5. \A d \in Conn : rx'[d] # "working" /\ rx[d] # "working"
  BY <1>3, <1>4 DEF Alive, RxLeft
<1>6. \A i \in Index : i # 0 => rx'[<<a, i>>] = "none"
  BY <1>1, <1>2, <1>3, <1>4
<1>7. Types'
  BY <1>1 DEF Types, RxStates
<1>8. OneAttempt'
  <2>1. \A d \in Conn : Alive(d)' => d[1] = a
    BY <1>3, <1>4 DEF Alive
  <2>2. \A d \in Conn : d[1] > a => rx'[d] = "none"
    BY <1>1, <1>3, <1>4
  <2> QED BY <1>1, <1>2, <2>1, <2>2 DEF OneAttempt, Running
<1>9. Prefix'
  BY <1>1, <1>3, <1>6, Indices DEF Prefix, Running
<1>10. OwnShare' /\ Kept'
  BY <1>1, <1>5 DEF OwnShare, Kept
<1>11. Promised'
  <2>1. \A d \in Own(a) : d \in Conn /\ (rx'[d] = "none" \/ rx'[d] = "spawned")
    BY <1>1, <1>2, <1>3, <1>6 DEF Own
  <2>2. \A d \in Own(receiver.attempt)' : ~Planned(d)'
    BY <1>1, <2>1 DEF Planned, Own
  <2> QED BY <1>1, <2>2 DEF Promised
<1> QED BY <1>7, <1>8, <1>9, <1>10, <1>11

\* The connections a count adds to an attempt.
LEMMA HearKeeps ==
  ASSUME PInv, ReceiverHears
  PROVE  PInv'
<1> USE DEF PInv
<1> DEFINE n == Head(counts)
           New(c) == c[1] = receiver.attempt /\ c[2] \in 1 .. n - 1
<1>1. /\ receiver.phase = "negotiate" /\ receiver'.phase = "drain"
      /\ receiver'.attempt = receiver.attempt /\ receiver.attempt # 0
      /\ receiver' \in [phase : ReceiverPhases, attempt : 0 .. MaxAttempts]
      /\ counts' \in Seq(Nat) /\ n \in Nat
      /\ rx' = [c \in Conn |-> IF New(c) THEN "spawned" ELSE rx[c]]
      /\ UNCHANGED <<met, todo, disk, consent, policy, found>>
  BY DEF ReceiverHears, Types, ReceiverPhases, OneAttempt, Running, fixed, request
<1> HIDE DEF n
<1>2. \A c \in Conn : c = <<c[1], c[2]>> /\ c[2] \in Index
  BY DEF Conn
<1>3. \A c \in Conn : New(c) => rx[c] = "none" /\ rx'[c] = "spawned"
  BY <1>1, <1>2, Indices DEF Prefix
<1>4. \A c \in Conn : ~New(c) => rx'[c] = rx[c]
  BY <1>1
<1> HIDE DEF New
<1>5. \A c \in Conn : /\ rx'[c] = "working" <=> rx[c] = "working"
                      /\ rx'[c] = "ok" <=> rx[c] = "ok"
                      /\ rx'[c] \notin {"failed", "gone"} <=> rx[c] \notin {"failed", "gone"}
                      /\ rx'[c] \in RxStates
  BY <1>3, <1>4 DEF Types, RxStates
<1>6. Types'
  BY <1>1, <1>5 DEF Types
<1>7. OneAttempt'
  <2>1. \A c \in Conn : New(c) => c[1] = receiver.attempt /\ ~(c[1] > receiver.attempt)
    BY DEF New, Types
  <2>2. Running /\ Running'
    BY <1>1 DEF Running
  <2> QED BY <1>1, <1>4, <2>1, <2>2 DEF OneAttempt, Alive
<1>8. Prefix'
  <2>1. \A i \in Index : <<receiver.attempt, i>> \in Conn
    BY <1>1, OwnIsConn
  <2>2. \A i \in Index : i # 0 => rx[<<receiver.attempt, i>>] = "none"
    BY <1>1 DEF Prefix
  <2>3. rx[<<receiver.attempt, 0>>] # "none"
    BY <1>1 DEF Prefix, Running
  <2>4. \A i \in Index : rx'[<<receiver.attempt, i>>] # "none" <=> i = 0 \/ i \in 1 .. n - 1
    BY <1>1, <2>1, <2>2, <2>3, Indices DEF New
  <2>5. \A i, j \in Index : j < i /\ (i = 0 \/ i \in 1 .. n - 1) => j = 0 \/ j \in 1 .. n - 1
    BY <1>1, Indices
  <2>6. 0 \in Index /\ receiver'.phase # "negotiate"
    BY <1>1, Indices
  <2> QED BY <1>1, <2>4, <2>5, <2>6 DEF Prefix
<1>9. OwnShare' /\ Kept'
  BY <1>1, <1>5 DEF OwnShare, Kept, Assigned
<1>10. Promised'
  <2>1. Own(receiver.attempt)' = Own(receiver.attempt) /\ Own(receiver.attempt) \subseteq Conn
    BY <1>1, OwnIsConn DEF Own
  <2>2. Unbroken' <=> Unbroken
    BY <1>5, <2>1 DEF Unbroken
  <2>3. \A c \in Conn : /\ Planned(c)' <=> Planned(c)
                        /\ Superfluous(c)' <=> Superfluous(c)
                        /\ Assigned(c)' = Assigned(c)
    BY <1>1, <1>5 DEF Planned, Superfluous, Assigned
  <2>4. \A f : Due(f)' <=> Due(f)
    BY <1>1, <1>5, <2>1 DEF Due
  <2> QED BY <1>1, <2>1, <2>2, <2>3, <2>4 DEF Promised, Running
<1> QED BY <1>6, <1>7, <1>8, <1>9, <1>10

\* The attempt goes on without extra connections, or ends well.
LEMMA EndKeeps ==
  ASSUME PInv, ReceiverFirstEnds \/ AttemptEnds
  PROVE  PInv'
<1> USE DEF PInv
<1>1. /\ receiver.phase \in {"negotiate", "drain"} /\ receiver.attempt # 0
      /\ receiver'.phase \in {"drain", "declined", "done"}
      /\ receiver'.attempt = receiver.attempt
      /\ receiver' \in [phase : ReceiverPhases, attempt : 0 .. MaxAttempts]
      /\ UNCHANGED <<counts, rx, met, todo, disk, consent, policy, found>>
  BY DEF ReceiverFirstEnds, AttemptEnds, Types, ReceiverPhases, OneAttempt, Running, fixed,
         request
<1>2. Own(receiver.attempt)' = Own(receiver.attempt) /\ Own(receiver.attempt) \subseteq Conn
        /\ \A c \in Conn : c[1] = receiver.attempt => c \in Own(receiver.attempt)
  BY <1>1, OwnIsConn DEF Own
<1>3. receiver'.phase # "drain" =>
        \A c \in Own(receiver.attempt) : rx[c] \in {"none", "ok", "declined"}
  BY <1>1 DEF ReceiverFirstEnds, AttemptEnds, Opened
<1>4. receiver'.phase = "done" => \A c \in Own(receiver.attempt) : rx[c] \in {"none", "ok"}
  <2>1. receiver'.phase = "done" =>
          AttemptEnds /\ ~ \E c \in Own(receiver.attempt) : rx[c] = "declined"
    BY <1>1 DEF ReceiverFirstEnds, AttemptEnds, Types
  <2> QED BY <1>3, <2>1
<1>5. Types' /\ OwnShare' /\ Kept'
  BY <1>1 DEF Types, OwnShare, Kept, Assigned
<1>6. OneAttempt'
  BY <1>1, <1>2, <1>3 DEF OneAttempt, Alive, Running, RxLeft
<1>7. Prefix'
  BY <1>1 DEF Prefix, Running
<1>8. Promised'
  <2>1. \A f : Due(f)' <=> Due(f)
    BY <1>1, <1>2 DEF Due
  <2>2. \A c \in Conn : /\ Planned(c)' <=> Planned(c)
                        /\ Superfluous(c)' <=> Superfluous(c)
                        /\ Assigned(c)' = Assigned(c)
    BY <1>1 DEF Planned, Superfluous, Assigned
  <2>3. Unbroken' <=> Unbroken
    BY <1>1, <1>2 DEF Unbroken
  <2> QED BY <1>1, <1>2, <1>4, <2>1, <2>2, <2>3 DEF Promised, Running
<1> QED BY <1>5, <1>6, <1>7, <1>8

\* A failed attempt leaves no connection alive.
LEMMA FailKeeps ==
  ASSUME PInv, AttemptFails
  PROVE  PInv'
<1> USE DEF PInv
<1>1. /\ receiver.phase = "drain" /\ receiver.attempt # 0
      /\ receiver'.phase \in {"failed", "start"} /\ receiver'.attempt = receiver.attempt
      /\ receiver' \in [phase : ReceiverPhases, attempt : 0 .. MaxAttempts]
      /\ rx' = Dropped(rx, Own(receiver.attempt), RxLeft)
      /\ UNCHANGED <<counts, met, todo, disk, consent, policy, found>>
  BY DEF AttemptFails, Types, ReceiverPhases, OneAttempt, Running, fixed, request
<1>2. \A c \in Conn : c[1] = receiver.attempt <=> c \in Own(receiver.attempt)
  BY <1>1, OwnIsConn
<1>3. \A c \in Conn : ~Alive(c)' /\ (rx[c] = "none" <=> rx'[c] = "none")
                      /\ rx'[c] \in RxStates
  BY <1>1, <1>2 DEF Dropped, OneAttempt, Alive, RxLeft, Types, RxStates
<1>4. \A c \in Conn : rx'[c] # "working"
  BY <1>3 DEF Alive, RxLeft
<1>5. Types'
  BY <1>1, <1>3 DEF Types, Dropped
<1>6. OneAttempt' /\ Prefix'
  BY <1>1, <1>3 DEF OneAttempt, Prefix, Running
<1>7. OwnShare' /\ Kept' /\ Promised'
  BY <1>1, <1>4 DEF OwnShare, Kept, Promised, Running
<1> QED BY <1>5, <1>6, <1>7

-----------------------------------------------------------------------------
(* What the invariant says of an attempt that has ended well.              *)

\* The connections it has opened are the first ones: their number tells them.
LEMMA OpenedAreFirst ==
  ASSUME PInv, receiver.phase = "done"
  PROVE  /\ Cardinality(Opened(receiver.attempt)) \in Nat \ {0}
         /\ \A i \in 0 .. Cardinality(Opened(receiver.attempt)) - 1 :
              <<receiver.attempt, i>> \in Opened(receiver.attempt)
<1> USE DEF PInv
<1> DEFINE a == receiver.attempt
           S == {i \in Index : rx[<<a, i>>] # "none"}
<1>1. 0 \in S /\ S \subseteq Index /\ Index \subseteq Nat
        /\ \A i, j \in Index : j < i /\ i \in S => j \in S
  BY Indices DEF Prefix
<1>2. 16 \notin Index /\ \A i \in Index : \A j \in Nat : j < i => j \in Index
  BY ParallelAssumption DEF Index, Clamp, Least, Greatest, MAX_PARALLEL
<1> HIDE DEF S
<1>3. PICK m \in Nat \ S : \A j \in Nat \ S : m <= j
  <2>1. 16 \in Nat \ S
    BY <1>1, <1>2
  <2> QED BY <2>1, HasLeast
<1>4. S = 0 .. m - 1 /\ m # 0
  <2>1. ASSUME NEW i \in 0 .. m - 1 PROVE i \in S
    <3>1. i \in Nat /\ ~ (m <= i)
      BY <1>3
    <3> QED BY <1>3, <3>1
  <2>2. ASSUME NEW i \in S, ~ (i < m) PROVE FALSE
    <3>1. i \in Index /\ i \in Nat /\ m \in Nat /\ m # i
      BY <1>1, <1>3, <2>2
    <3>2. m < i
      BY <2>2, <3>1
    <3>3. m \in Index
      BY <1>2, <3>1, <3>2
    <3> QED BY <1>1, <1>3, <2>2, <3>1, <3>2, <3>3
  <2>3. \A i \in S : i \in Nat
    BY <1>1
  <2>4. 0 .. m - 1 \subseteq S
    BY <2>1
  <2>5. S \subseteq 0 .. m - 1
    <3>1. \A i \in S : i \in Nat /\ i < m
      BY <2>2, <2>3
    <3> QED BY <1>3, <3>1
  <2>6. m # 0
    BY <1>1, <1>3
  <2> QED BY <2>4, <2>5, <2>6
<1>5. Opened(a) = {a} \X S
  <2>1. Opened(a) = {c \in {a} \X Index : rx[c] # "none"}
    BY DEF Opened, Own
  <2> QED BY <2>1 DEF S
<1>6. IsFiniteSet(S) /\ Cardinality(S) = m
  BY <1>3, <1>4, FS_Interval
<1>7. Cardinality(Opened(a)) = 1 * m
  <2>1. IsFiniteSet({a}) /\ Cardinality({a}) = 1
    BY FS_Singleton
  <2>2. Cardinality({a} \X S) = Cardinality({a}) * Cardinality(S)
    BY <1>6, <2>1, FS_Product
  <2> QED BY <1>5, <1>6, <2>1, <2>2
<1>8. Cardinality(Opened(a)) = m
  BY <1>3, <1>7
<1> QED BY <1>3, <1>4, <1>5, <1>8

LEMMA DoneIsServed == PInv => SuccessIsServed
<1> USE DEF PInv
<1> SUFFICES ASSUME PInv, receiver.phase = "done", policy # "skip"
             PROVE  /\ \A c \in Opened(receiver.attempt) :
                         Superfluous(c) \/ Assigned(c) \subseteq Whole
                    /\ (\A c \in Opened(receiver.attempt) :
                          ReceiverCount(met[c]) = Cardinality(Opened(receiver.attempt)))
                         => Whole = File
  BY DEF SuccessIsServed
<1>1. \A c \in Own(receiver.attempt) : rx[c] \in {"none", "ok"}
  BY DEF Promised
<1>2. Unbroken /\ \A f : Due(f) => disk[f] = "whole"
  BY <1>1 DEF Unbroken, Due
<1>3. \A c \in Opened(receiver.attempt) : Superfluous(c) \/ Assigned(c) \subseteq Whole
  BY <1>1, <1>2 DEF Promised, Opened, Planned, Assigned, Whole
<1>4. ASSUME \A c \in Opened(receiver.attempt) :
               ReceiverCount(met[c]) = Cardinality(Opened(receiver.attempt)),
             NEW f \in File
      PROVE  f \in Whole
  <2> DEFINE m == Cardinality(Opened(receiver.attempt))
             c == <<receiver.attempt, f % m>>
  <2>1. m \in Nat \ {0} /\ f \in Nat
    BY OpenedAreFirst, ParallelAssumption DEF File
  <2>2. f % m \in 0 .. m - 1
    BY <2>1
  <2>3. c \in Opened(receiver.attempt)
    BY <2>2, OpenedAreFirst
  <2> HIDE DEF m
  <2>4. ReceiverCount(met[c]) = m /\ c[2] = f % m
    BY <1>4, <2>3 DEF m
  <2>5. ~Superfluous(c) /\ f \in Assigned(c)
    BY <2>1, <2>2, <2>4 DEF Superfluous, Assigned
  <2> QED BY <1>3, <2>3, <2>5
<1>5. Whole \subseteq File
  BY DEF Whole
<1> QED BY <1>3, <1>4, <1>5

LEMMA SharesAreApart == PInv => NoSharedFile
<1> SUFFICES ASSUME PInv, NEW c \in Conn, NEW d \in Conn, c # d, rx[c] = "working",
                    rx[d] = "working", met[c] = met[d], NEW f \in todo[c], f \in todo[d]
             PROVE  FALSE
  BY DEF NoSharedFile
<1>1. c[1] = d[1]
  BY DEF PInv, OneAttempt, Alive, RxLeft
<1>2. f \in Assigned(c) /\ f \in Assigned(d)
  BY DEF PInv, OwnShare
<1>3. c[2] = d[2]
  BY <1>2 DEF Assigned
<1>4. c = <<c[1], c[2]>> /\ d = <<d[1], d[2]>>
  BY DEF Conn
<1> QED BY <1>1, <1>3, <1>4

-----------------------------------------------------------------------------
(* The sender's success: the inductive invariant.                          *)

\* What of TypeOK is not in Types or Offering.
OtherTypes ==
  /\ tx \in [Conn -> TxStates]
  /\ sender.need >= 0 /\ (sender.phase = "extras" => sender.need > 0)
  /\ cut \subseteq Conn
  /\ consent \in {"none", "asking", "accept", "reject"}
  /\ faults \in [count : 0 .. MaxFaults, kinds : SUBSET Kinds]

\* A connection is dialled once: until it is accepted it has one place in the
\* backlog, and the sender no end of it.
InBacklog(c) == \E k \in DOMAIN backlog : backlog[k] = c
Dialling ==
  /\ \A c \in Conn : rx[c] \in {"none", "spawned"} => tx[c] = "none" /\ ~InBacklog(c)
  /\ \A k \in DOMAIN backlog : tx[backlog[k]] = "none"
  /\ \A j, k \in DOMAIN backlog : backlog[j] = backlog[k] => j = k

\* The sender's ends that are alive are the round's; a sender that is done has
\* none.
RoundHolds ==
  /\ \A c \in Conn : tx[c] \in {"accepted", "counted"} => c \in sender.round
  /\ sender.phase = "done" => \A c \in sender.round : tx[c] = "ok"

\* Both ends are in the session.
Serving(c) == tx[c] = "counted" /\ rx[c] = "working"

\* The connection will fail its round.
Doomed(c) ==
  tx[c] = "failed" \/ (tx[c] = "counted" /\ rx[c] \in {"declined", "failed", "gone"})

\* A file is whole, or the round will not end before it is.
Settled(f) ==
  \/ disk[f] = "whole"
  \/ \E d \in sender.round : Doomed(d) \/ (Serving(d) /\ f \in todo[d])

\* A connection of the round whose plan is made, or that has ended well.
Claims(c) == (tx[c] = "ok" \/ Serving(c)) /\ ~Superfluous(c)
Served ==
  policy # "skip" =>
    \A c \in sender.round : Claims(c) => \A f \in Assigned(c) : Settled(f)

SInv == OtherTypes /\ Dialling /\ RoundHolds /\ Served

LEMMA ServedInit == Init => SInv
<1> SUFFICES ASSUME Init PROVE SInv
  OBVIOUS
<1>1. sender.phase = "accept" /\ sender.round = {} /\ sender.need = 0
  BY DEF Init
<1>2. OtherTypes
  <2>1. tx \in [Conn -> TxStates] /\ cut \subseteq Conn /\ consent = "none"
    BY DEF Init, TxStates
  <2>2. faults \in [count : 0 .. MaxFaults, kinds : SUBSET Kinds]
    BY ParallelAssumption DEF Init
  <2> QED BY <1>1, <2>1, <2>2 DEF OtherTypes
<1>3. Dialling
  BY DEF Init, Dialling, InBacklog
<1>4. RoundHolds /\ Served
  BY <1>1 DEF Init, RoundHolds, Served
<1> QED BY <1>2, <1>3, <1>4 DEF SInv

\* What is served stays so: the round keeps its connections, what dooms it or
\* is still received is not forgotten, and no connection claims more.
LEMMA ServedKept ==
  ASSUME Served, UNCHANGED policy,
         sender.round \subseteq sender'.round,
         \A d \in sender.round : Doomed(d) => Doomed(d)',
         \A d \in sender.round : Serving(d) =>
           \A f \in todo[d] : \/ disk'[f] = "whole"
                              \/ Doomed(d)' \/ (Serving(d)' /\ f \in todo'[d]),
         \A f \in File : disk[f] = "whole" => Settled(f)',
         \A c \in sender'.round :
           Claims(c)' => \/ c \in sender.round /\ Claims(c) /\ Assigned(c)' = Assigned(c)
                         \/ \A f \in Assigned(c)' : Settled(f)'
  PROVE  Served'
<1>1. ASSUME NEW f \in File, Settled(f) PROVE Settled(f)'
  BY <1>1 DEF Settled
<1>2. \A c : Assigned(c) \subseteq File
  BY DEF Assigned
<1> QED BY <1>1, <1>2 DEF Served

\* A step that neither ends a connection nor moves one of the sender's ends.
LEMMA ServedStutters ==
  ASSUME Served, UNCHANGED <<sender, tx, rx, met, todo, disk, policy>>
  PROVE  Served'
BY DEF Served, Claims, Serving, Settled, Doomed, Superfluous, Assigned

\* An end of the receiver that has worked has received everything, or fails.
LEMMA ServedMoves ==
  ASSUME Served, PInv, NEW S \in SUBSET Conn,
         \A d \in Conn \ S : rx'[d] = rx[d],
         \A d \in S : rx[d] \notin {"declined", "failed", "gone"},
         \A d \in S : rx'[d] # "working",
         \A d \in S : rx[d] = "working" =>
           rx'[d] \in {"failed", "gone"} \/ todo[d] = {},
         sender.round \subseteq Conn,
         UNCHANGED <<sender, tx, met, todo, disk, policy>>
  PROVE  Served'
<1>1. \A d \in Conn : Doomed(d) => Doomed(d)'
  BY DEF Doomed
<1>2. ASSUME NEW d \in Conn, Serving(d), NEW f \in todo[d]
      PROVE  Doomed(d)' \/ (Serving(d)' /\ f \in todo'[d])
  BY <1>2 DEF Serving, Doomed
<1>3. \A d \in Conn : Claims(d)' => Claims(d) /\ Assigned(d)' = Assigned(d)
  BY DEF Claims, Serving, Superfluous, Assigned
<1>4. \A f \in File : disk[f] = "whole" => Settled(f)'
  BY DEF Settled
<1> QED BY <1>1, <1>2, <1>3, <1>4, ServedKept

\* An end of the sender goes on or fails, or ends well with nothing to send.
LEMMA ServedSends ==
  ASSUME SInv, Offering, NEW c \in Conn, NEW s \in {"accepted", "counted", "ok", "failed"},
         tx[c] \in {"none", "accepted", "counted"}, tx' = [tx EXCEPT ![c] = s],
         c \in sender'.round, sender.round \subseteq sender'.round,
         sender'.round \subseteq sender.round \cup {c},
         s = "ok" => Serving(c) /\ todo[c] = {},
         s = "counted" => rx[c] # "working",
         tx[c] = "counted" => s \in {"ok", "failed"},
         s # "counted" => met' = met,
         \A d \in Conn : d # c => met'[d] = met[d],
         UNCHANGED <<rx, todo, disk, policy>>
  PROVE  Served'
<1>1. /\ tx'[c] = s /\ \A d \in Conn : d # c => tx'[d] = tx[d]
      /\ sender.round \subseteq Conn /\ sender'.round \subseteq Conn
  BY SenderFields DEF SInv, OtherTypes, Offering
<1>2. \A d \in Conn : d # c => /\ Doomed(d)' <=> Doomed(d)
                               /\ Serving(d)' <=> Serving(d)
                               /\ Claims(d)' <=> Claims(d)
                               /\ Assigned(d)' = Assigned(d)
  BY <1>1 DEF Doomed, Serving, Claims, Superfluous, Assigned
<1>3. Doomed(c) => Doomed(c)'
  BY <1>1 DEF Doomed, Serving
<1>4. ASSUME Serving(c), NEW f \in todo[c] PROVE Doomed(c)'
  BY <1>1, <1>4 DEF Doomed, Serving
<1>5. ASSUME Claims(c)' PROVE c \in sender.round /\ Claims(c) /\ Assigned(c)' = Assigned(c)
  <2>1. s = "ok"
    BY <1>1, <1>5 DEF Claims, Serving
  <2> QED BY <1>5, <2>1 DEF Claims, Serving, Superfluous, Assigned, SInv, RoundHolds
<1>6. \A f \in File : disk[f] = "whole" => Settled(f)'
  BY DEF Settled
<1> QED BY <1>1, <1>2, <1>3, <1>4, <1>5, <1>6, ServedKept DEF SInv

\* A plan leaves out what is whole.
LEMMA ServedPlans ==
  ASSUME SInv, PInv, Offering, NEW c \in Conn, RxPlans(c)
  PROVE  Served'
<1> DEFINE plan == IF Superfluous(c) THEN {} ELSE {f \in Assigned(c) : Wants(f)}
<1>1. /\ rx[c] = "counted" /\ rx' = [rx EXCEPT ![c] = "working"]
      /\ todo' = [todo EXCEPT ![c] = plan]
      /\ UNCHANGED <<sender, tx, met, disk, policy>>
  BY DEF RxPlans, Becomes, fixed, request, senderSide
<1>2. /\ rx'[c] = "working" /\ \A d \in Conn : d # c => rx'[d] = rx[d]
      /\ todo'[c] = plan /\ \A d \in Conn : d # c => todo'[d] = todo[d]
  BY <1>1 DEF PInv, Types
<1>3. \A d \in Conn : d # c => /\ Serving(d)' <=> Serving(d)
                               /\ Claims(d)' <=> Claims(d)
  BY <1>1, <1>2 DEF Serving, Claims, Superfluous
<1>4. \A d \in Conn : Assigned(d)' = Assigned(d) /\ (Doomed(d) => Doomed(d)')
  BY <1>1, <1>2 DEF Assigned, Doomed
<1>5. ~Serving(c) /\ sender.round \subseteq Conn
  BY <1>1, SenderFields DEF Serving, Offering
<1>6. \A f \in File : disk[f] = "whole" => Settled(f)'
  BY <1>1 DEF Settled
<1>7. ASSUME policy # "skip", Claims(c)', ~Claims(c), NEW f \in Assigned(c) PROVE Settled(f)'
  <2>1. ~Superfluous(c) /\ tx[c] = "counted" /\ Serving(c)'
    BY <1>1, <1>2, <1>7 DEF Claims, Serving, Superfluous
  <2>2. policy \in {"resume", "overwrite", "fail"} /\ f \in File
    BY <1>7, ParallelAssumption DEF PInv, Types, Assigned
  <2>3. f \in plan \/ disk[f] = "whole"
    BY <1>7, <2>1, <2>2 DEF Wants
  <2>4. c \in sender.round
    BY <2>1 DEF SInv, RoundHolds
  <2> HIDE DEF plan
  <2> QED BY <1>1, <1>2, <2>1, <2>3, <2>4 DEF Settled
<1> HIDE DEF plan
<1>8. CASE policy # "skip"
  BY <1>1, <1>2, <1>3, <1>4, <1>5, <1>6, <1>7, <1>8, ServedKept DEF SInv
<1>9. CASE policy = "skip"
  BY <1>1, <1>9 DEF Served
<1> QED BY <1>8, <1>9

\* A file that is opened is one its connection has to receive.
LEMMA ServedWrites ==
  ASSUME SInv, PInv, Offering, NEW c \in Conn, RxOpens(c) \/ RxVerifies(c)
  PROVE  Served'
<1> DEFINE f0 == Current(c)
<1>1. Serving(c) /\ todo[c] # {} /\ UNCHANGED <<sender, rx, tx, met, policy>>
  BY DEF RxOpens, RxVerifies, Transfers, fixed, request, senderSide, Serving
<1>2. f0 \in todo[c] /\ f0 \in File
  BY <1>1, CurrentIsDue DEF PInv
<1> HIDE DEF f0
<1>3. \A f \in File : f # f0 => disk'[f] = disk[f]
  BY <1>2 DEF RxOpens, RxVerifies, f0, PInv, Types
<1>4. \/ todo' = todo
      \/ /\ disk'[f0] = "whole" /\ todo'[c] = todo[c] \ {f0}
         /\ \A d \in Conn : d # c => todo'[d] = todo[d]
  BY <1>2 DEF RxOpens, RxVerifies, f0, PInv, Types
<1>5. c \in sender.round /\ sender.round \subseteq Conn
  BY <1>1, SenderFields DEF SInv, RoundHolds, Serving, Offering
<1>6. \A d \in Conn : /\ Doomed(d)' <=> Doomed(d)
                      /\ Serving(d)' <=> Serving(d)
                      /\ Claims(d)' <=> Claims(d)
                      /\ Assigned(d)' = Assigned(d)
  BY <1>1 DEF Doomed, Serving, Claims, Superfluous, Assigned
<1>7. \A d \in Conn : \A f \in todo[d] : disk'[f] = "whole" \/ f \in todo'[d]
  BY <1>4
<1>8. ASSUME NEW f \in File, disk[f] = "whole" PROVE Settled(f)'
  <2>1. disk'[f] = "whole" \/ (f = f0 /\ f0 \in todo'[c])
    BY <1>2, <1>3, <1>4, <1>8
  <2> QED BY <1>1, <1>5, <1>6, <2>1 DEF Settled
<1> QED BY <1>1, <1>5, <1>6, <1>7, <1>8, ServedKept DEF SInv

\* An accepted connection has left the backlog, and only now gets an end.
LEMMA AcceptServes ==
  ASSUME SInv, PInv, Offering, NEW p \in {"negotiate", "extras", "drain"}, NEW n \in Nat,
         p = "extras" => n > 0, Accepts(p, n),
         UNCHANGED <<receiverSide, cut, fixed>>
  PROVE  SInv'
<1> DEFINE c == Head(backlog)
<1>1. /\ backlog # <<>> /\ backlog \in Seq(Conn) /\ sender \in Senders
      /\ backlog' = Tail(backlog) /\ tx' = [tx EXCEPT ![c] = "accepted"]
      /\ sender' = [sender EXCEPT !.phase = p, !.round = @ \cup {c}, !.need = n]
      /\ UNCHANGED <<rx, met, todo, disk, policy, consent, cut, faults>>
  BY DEF Accepts, Offering, receiverSide, fixed, request
<1>2. /\ c \in Conn /\ c = backlog[1] /\ tx[c] = "none" /\ Len(backlog) \in Nat \ {0}
      /\ DOMAIN backlog' = 1 .. Len(backlog) - 1
      /\ \A k \in DOMAIN backlog' : k + 1 \in DOMAIN backlog /\ backlog'[k] = backlog[k + 1]
  BY <1>1 DEF SInv, Dialling
<1> HIDE DEF c
<1>3. /\ tx'[c] = "accepted" /\ \A d \in Conn : d # c => tx'[d] = tx[d]
      /\ tx' \in [Conn -> TxStates]
  BY <1>1, <1>2 DEF SInv, OtherTypes, TxStates
<1>4. sender'.phase = p /\ sender'.round = sender.round \cup {c} /\ sender'.need = n
  BY <1>1 DEF Senders
<1>5. OtherTypes'
  BY <1>1, <1>3, <1>4 DEF SInv, OtherTypes
<1>6. Dialling'
  <2>1. \A k \in DOMAIN backlog' : backlog'[k] # c /\ backlog'[k] \in Conn
    BY <1>1, <1>2 DEF SInv, Dialling
  <2>2. \A k \in DOMAIN backlog' : tx'[backlog'[k]] = "none"
    BY <1>2, <1>3, <2>1 DEF SInv, Dialling
  <2>3. \A j, k \in DOMAIN backlog' : backlog'[j] = backlog'[k] => j = k
    BY <1>2 DEF SInv, Dialling
  <2>4. \A d \in Conn : InBacklog(d)' => InBacklog(d)
    BY <1>2 DEF InBacklog
  <2>5. InBacklog(c)
    BY <1>2 DEF InBacklog
  <2> QED BY <1>1, <1>3, <2>2, <2>3, <2>4, <2>5 DEF SInv, Dialling
<1>7. RoundHolds'
  BY <1>3, <1>4 DEF SInv, RoundHolds
<1>8. Served'
  BY <1>1, <1>2, <1>4, ServedSends
<1> QED BY <1>5, <1>6, <1>7, <1>8 DEF SInv

\* A step of the sender's process that leaves the round and its ends.
LEMMA PhaseServes ==
  ASSUME SInv, Offering, NEW p \in SenderPhases, NEW n \in Nat,
         sender'.phase = p, sender'.round = sender.round, sender'.need = n,
         p = "extras" => n > 0, p = "done" => \A c \in sender.round : tx[c] = "ok",
         backlog' = backlog \/ backlog' = <<>>,
         faults' \in [count : 0 .. MaxFaults, kinds : SUBSET Kinds],
         UNCHANGED <<tx, receiverSide, cut, request>>
  PROVE  SInv'
<1> USE DEF SInv, receiverSide, request
<1>1. OtherTypes'
  BY DEF OtherTypes
<1>2. Dialling'
  BY DEF Dialling, InBacklog
<1>3. RoundHolds'
  BY DEF RoundHolds
<1>4. Served'
  BY DEF Served, Claims, Serving, Settled, Doomed, Superfluous, Assigned
<1> QED BY <1>1, <1>2, <1>3, <1>4

\* A round that is given up has no connections.
LEMMA NewRoundServes ==
  ASSUME SInv, Offering, sender'.phase = "accept", sender'.round = {}, sender'.need = 0,
         NEW S, tx' = Dropped(tx, S, TxLeft), S = sender.round \/ S = Conn,
         backlog' = backlog \/ backlog' = <<>>,
         faults' \in [count : 0 .. MaxFaults, kinds : SUBSET Kinds],
         UNCHANGED <<receiverSide, cut, request>>
  PROVE  SInv'
<1> USE DEF SInv, receiverSide, request
<1>1. tx \in [Conn -> TxStates] /\ sender.round \subseteq Conn
  BY SenderFields DEF OtherTypes, Offering
<1>2. /\ tx' \in [Conn -> TxStates]
      /\ \A c \in Conn : /\ tx[c] = "none" => tx'[c] = "none"
                         /\ c \in S => tx'[c] \notin {"accepted", "counted"}
                         /\ tx'[c] \in {"accepted", "counted"} => tx'[c] = tx[c]
  BY <1>1 DEF Dropped, TxStates, TxLeft
<1>3. OtherTypes'
  BY <1>2 DEF OtherTypes
<1>4. Dialling'
  <2>1. \A k \in DOMAIN backlog : backlog[k] \in Conn
    BY DEF Offering
  <2> QED BY <1>2, <2>1 DEF Dialling, InBacklog
<1>5. RoundHolds'
  BY <1>1, <1>2 DEF RoundHolds
<1>6. Served'
  BY DEF Served
<1> QED BY <1>3, <1>4, <1>5, <1>6

\* Trouble is counted.
LEMMA TroubleType ==
  ASSUME SInv, \/ UNCHANGED faults \/ (\E kind : Trouble(kind))
  PROVE  faults' \in [count : 0 .. MaxFaults, kinds : SUBSET Kinds]
<1>1. CASE \E kind : Trouble(kind)
  <2>1. PICK kind : Trouble(kind)
    BY <1>1
  <2> QED BY <2>1, ParallelAssumption DEF Trouble, SInv, OtherTypes
<1> QED BY <1>1 DEF SInv, OtherTypes

LEMMA SenderServes ==
  ASSUME SInv, PInv, Offering, SenderStep \/ SenderRestarts
  PROVE  SInv'
<1> USE DEF fixed, SenderPhases
<1>1. sender \in Senders /\ sender.need \in Nat
  BY SenderFields DEF Offering, SInv, OtherTypes
<1>2. CASE SenderAccepts
  BY <1>2, AcceptServes DEF SenderAccepts
<1>3. CASE SenderAcceptsExtra
  <2>1. sender.need \in Nat \ {0}
    BY <1>1, <1>3 DEF SInv, OtherTypes, SenderAcceptsExtra
  <2> DEFINE p == IF sender.need = 1 THEN "drain" ELSE "extras"
             n == sender.need - 1
  <2>2. n \in Nat /\ p \in {"negotiate", "extras", "drain"} /\ (p = "extras" => n > 0)
    BY <2>1
  <2>3. Accepts(p, n) /\ UNCHANGED <<receiverSide, cut, fixed>>
    BY <1>3 DEF SenderAcceptsExtra
  <2> HIDE DEF p, n
  <2> QED BY <2>2, <2>3, AcceptServes
<1>4. CASE SenderHears
  <2>1. PICK c \in sender.round : met[c] # 0
          /\ sender' = [sender EXCEPT
               !.phase = IF SenderCount(met[c]) > 1 THEN "extras" ELSE "drain",
               !.need = SenderCount(met[c]) - 1]
    BY <1>4 DEF SenderHears
  <2> DEFINE p == IF SenderCount(met[c]) > 1 THEN "extras" ELSE "drain"
             n == SenderCount(met[c]) - 1
  <2>2. c \in Conn /\ met[c] \in Offers
    <3>1. c \in Conn
      BY SenderFields DEF Offering
    <3> QED BY <2>1, <3>1 DEF PInv, Types
  <2>3. met[c] \in Nat \ {0}
    BY <2>2, ParallelAssumption
  <2>4. SenderCount(met[c]) \in Nat \ {0}
    BY <2>3, CountPositive
  <2>5. n \in Nat /\ (p = "extras" => n > 0) /\ p \in SenderPhases /\ p # "done"
    BY <2>4
  <2>6. sender'.phase = p /\ sender'.need = n /\ sender'.round = sender.round
    BY <1>1, <2>1 DEF Senders
  <2>7. backlog' = backlog /\ UNCHANGED <<tx, receiverSide, cut, request, faults>>
    BY <1>4 DEF SenderHears
  <2> HIDE DEF p, n
  <2> QED BY <2>5, <2>6, <2>7, TroubleType, PhaseServes
<1>5. CASE SenderFirstEnds
  <2>1. sender'.phase = "drain" /\ sender'.need = sender.need /\ sender'.round = sender.round
    BY <1>1, <1>5 DEF SenderFirstEnds, Senders
  <2>2. backlog' = backlog /\ UNCHANGED <<tx, receiverSide, cut, request>>
          /\ (UNCHANGED faults \/ \E kind : Trouble(kind))
    BY <1>5 DEF SenderFirstEnds, Misses
  <2> QED BY <1>1, <2>1, <2>2, TroubleType, PhaseServes
<1>6. CASE ExtrasTimeOut \/ SenderGivesUp
  <2>1. /\ sender'.phase \in {"drain", "failed"} /\ sender'.round = sender.round
        /\ sender'.need \in {0, sender.need}
    BY <1>1, <1>6 DEF ExtrasTimeOut, SenderGivesUp, Senders
  <2>2. backlog' = backlog /\ UNCHANGED <<tx, receiverSide, cut, request>>
          /\ (UNCHANGED faults \/ \E kind : Trouble(kind))
    BY <1>6 DEF ExtrasTimeOut, SenderGivesUp, LimitPasses
  <2> QED BY <1>1, <2>1, <2>2, TroubleType, PhaseServes
<1>7. CASE RoundFails
  <2>1. sender'.phase = "accept" /\ sender'.need = 0 /\ sender'.round = {}
    BY <1>1, <1>7 DEF RoundFails, Senders
  <2> QED BY <1>7, <2>1, TroubleType, NewRoundServes DEF RoundFails
<1>8. CASE RoundCompletes
  <2>1. sender'.phase = "done" /\ sender'.need = sender.need /\ sender'.round = sender.round
    BY <1>1, <1>8 DEF RoundCompletes, Senders
  <2> QED BY <1>1, <1>8, <2>1, TroubleType, PhaseServes DEF RoundCompletes
<1>9. CASE SenderRestarts
  <2>1. sender'.phase = "accept" /\ sender'.need = 0 /\ sender'.round = {}
    BY <1>9 DEF SenderRestarts
  <2> QED BY <1>9, <2>1, TroubleType, NewRoundServes DEF SenderRestarts
<1> QED BY <1>2, <1>3, <1>4, <1>5, <1>6, <1>7, <1>8, <1>9 DEF SenderStep

\* The sender's ends.
LEMMA TxServes ==
  ASSUME SInv, PInv, Offering, NEW c \in Conn, TxStep(c)
  PROVE  SInv'
<1> USE DEF fixed, request, senderSide, receiverSide
<1>1. PICK s \in {"counted", "ok", "failed"} :
        /\ tx' = [tx EXCEPT ![c] = s]
        /\ tx[c] \in {"accepted", "counted"} /\ (tx[c] = "counted" => s # "counted")
        /\ s = "ok" => Serving(c) /\ todo[c] = {}
        /\ s = "counted" => rx[c] # "working"
        /\ s # "counted" => met' = met
  BY DEF TxStep, TxCounts, TxDone, TxFails, Serving
<1>2. /\ UNCHANGED <<sender, backlog, receiver, counts, rx, todo, disk, consent, cut,
                     policy, faults>>
      /\ \A d \in Conn : d # c => met'[d] = met[d]
  BY DEF TxStep, TxCounts, TxDone, TxFails, PInv, Types
<1>3. /\ tx'[c] = s /\ \A d \in Conn : d # c => tx'[d] = tx[d]
      /\ tx' \in [Conn -> TxStates]
  BY <1>1 DEF SInv, OtherTypes, TxStates
<1>4. c \in sender.round /\ sender.phase # "done"
  BY <1>1 DEF SInv, RoundHolds
<1>5. OtherTypes'
  BY <1>2, <1>3 DEF SInv, OtherTypes
<1>6. Dialling'
  <2>1. \A k \in DOMAIN backlog : backlog[k] \in Conn
    BY DEF Offering
  <2> QED BY <1>1, <1>2, <1>3, <2>1 DEF SInv, Dialling, InBacklog
<1>7. RoundHolds'
  BY <1>2, <1>3, <1>4 DEF SInv, RoundHolds
<1>8. Served'
  BY <1>1, <1>2, <1>4, ServedSends
<1> QED BY <1>5, <1>6, <1>7, <1>8 DEF SInv

\* The receiver's ends, but for what they plan and write.
LEMMA RxServes ==
  ASSUME SInv, PInv, Offering, NEW c \in Conn,
         \/ RxDials(c) \/ RxHandshakeTimesOut(c) \/ RxCounts(c) \/ RxDeclines(c)
         \/ RxConflicts(c) \/ RxDone(c) \/ RxFails(c)
  PROVE  SInv'
<1> USE DEF fixed, request, senderSide
<1>1. PICK s \in {"dialled", "counted", "declined", "ok", "failed"} :
        /\ rx' = [rx EXCEPT ![c] = s]
        /\ rx[c] \notin {"declined", "failed", "gone"}
        /\ rx[c] = "working" => s = "failed" \/ todo[c] = {}
  BY DEF RxDials, RxHandshakeTimesOut, RxCounts, RxDeclines, RxConflicts, RxDone, RxFails,
         Becomes
<1>2. UNCHANGED <<sender, tx, met, todo, disk, policy, consent, cut>>
  BY DEF RxDials, RxHandshakeTimesOut, RxCounts, RxDeclines, RxConflicts, RxDone, RxFails
<1>3. faults' \in [count : 0 .. MaxFaults, kinds : SUBSET Kinds]
  <2>1. UNCHANGED faults \/ (\E kind : Trouble(kind))
    BY DEF RxDials, RxHandshakeTimesOut, RxCounts, RxDeclines, RxConflicts, RxDone, RxFails,
           LimitPasses
  <2> QED BY <2>1, TroubleType
<1>4. rx'[c] = s /\ \A d \in Conn : d # c => rx'[d] = rx[d]
  BY <1>1 DEF PInv, Types
<1>5. OtherTypes' /\ RoundHolds'
  BY <1>2, <1>3 DEF SInv, OtherTypes, RoundHolds
<1>6. Dialling'
  <2>1. CASE backlog' = backlog
    BY <1>2, <1>4, <2>1 DEF SInv, Dialling, InBacklog
  <2>2. CASE backlog' = Append(backlog, c) /\ rx[c] = "spawned"
    <3>1. tx[c] = "none" /\ ~InBacklog(c) /\ backlog \in Seq(Conn)
      BY <2>2 DEF SInv, Dialling, Offering
    <3>2. /\ Len(backlog) \in Nat /\ DOMAIN backlog = 1 .. Len(backlog)
          /\ DOMAIN backlog' = 1 .. Len(backlog) + 1
          /\ backlog'[Len(backlog) + 1] = c
          /\ \A k \in DOMAIN backlog : backlog'[k] = backlog[k]
      BY <2>2, <3>1
    <3>3. \A d \in Conn : InBacklog(d)' => InBacklog(d) \/ d = c
      BY <3>2 DEF InBacklog
    <3>4. \A k \in DOMAIN backlog : backlog[k] # c
      BY <3>1 DEF InBacklog
    <3>5. \A j, k \in DOMAIN backlog' : backlog'[j] = backlog'[k] => j = k
      BY <3>2, <3>4 DEF SInv, Dialling
    <3>6. \A k \in DOMAIN backlog' : tx[backlog'[k]] = "none"
      BY <3>1, <3>2 DEF SInv, Dialling
    <3> QED BY <1>2, <1>4, <3>3, <3>5, <3>6 DEF SInv, Dialling
  <2>3. backlog' = backlog \/ (backlog' = Append(backlog, c) /\ rx[c] = "spawned")
    BY DEF RxDials, RxHandshakeTimesOut, RxCounts, RxDeclines, RxConflicts, RxDone, RxFails
  <2> QED BY <2>1, <2>2, <2>3
<1>7. Served'
  <2>1. sender.round \subseteq Conn
    BY SenderFields DEF Offering
  <2>2. {c} \in SUBSET Conn
    OBVIOUS
  <2> QED BY <1>1, <1>2, <1>4, <2>1, <2>2, ServedMoves DEF SInv
<1> QED BY <1>5, <1>6, <1>7 DEF SInv

\* Its other steps.
LEMMA RxWorks ==
  ASSUME SInv, PInv, Offering, NEW c \in Conn,
         RxPlans(c) \/ RxOpens(c) \/ RxVerifies(c) \/ RxAsks(c) \/ Cut(c) \/ UserAnswers
  PROVE  SInv'
<1> USE DEF fixed, request, senderSide, receiverSide
<1>1. UNCHANGED <<sender, backlog, tx>>
  BY DEF RxPlans, RxOpens, RxVerifies, RxAsks, Cut, UserAnswers
<1>2. OtherTypes'
  <2>1. faults' \in [count : 0 .. MaxFaults, kinds : SUBSET Kinds]
    <3>1. UNCHANGED faults \/ \E kind : Trouble(kind)
      BY DEF RxPlans, RxOpens, RxVerifies, RxAsks, Cut, UserAnswers
    <3> QED BY <3>1, TroubleType
  <2>2. cut' \subseteq Conn
    BY DEF SInv, OtherTypes, RxPlans, RxOpens, RxVerifies, RxAsks, Cut, UserAnswers
  <2>3. consent' \in {"none", "asking", "accept", "reject"}
    BY DEF SInv, OtherTypes, RxPlans, RxOpens, RxVerifies, RxAsks, Cut, UserAnswers
  <2> QED BY <1>1, <2>1, <2>2, <2>3 DEF SInv, OtherTypes
<1>3. Dialling' /\ RoundHolds'
  <2>1. \A d \in Conn : rx'[d] \in {"none", "spawned"} => rx'[d] = rx[d]
    BY DEF RxPlans, RxOpens, RxVerifies, RxAsks, Cut, UserAnswers, Becomes, PInv, Types
  <2> QED BY <1>1, <2>1 DEF SInv, Dialling, InBacklog, RoundHolds
<1>4. Served'
  <2>1. CASE RxAsks(c) \/ Cut(c) \/ UserAnswers
    <3>1. UNCHANGED <<sender, tx, rx, met, todo, disk, policy>>
      BY <2>1 DEF RxAsks, Cut, UserAnswers
    <3> QED BY <3>1, ServedStutters DEF SInv
  <2> QED BY <2>1, ServedPlans, ServedWrites
<1> QED BY <1>2, <1>3, <1>4 DEF SInv

\* The receiver's process opens connections that were not, and closes those of
\* an attempt that has failed.
LEMMA ReceiverServes ==
  ASSUME SInv, PInv, Offering, ReceiverStep
  PROVE  SInv'
<1> USE DEF fixed, request, senderSide
<1>1. UNCHANGED <<sender, backlog, tx, met, todo, disk, policy, cut>>
  BY DEF ReceiverStep, AttemptStarts, ReceiverHears, ReceiverFirstEnds, AttemptFails,
         AttemptEnds
<1>2. PICK S \in SUBSET Conn :
        /\ \A d \in Conn \ S : rx'[d] = rx[d]
        /\ \/ \A d \in S : rx[d] = "none" /\ rx'[d] = "spawned"
           \/ \A d \in S : rx[d] \notin {"none"} \cup RxLeft /\ rx'[d] = "gone"
  <2>1. CASE AttemptStarts
    <3> DEFINE d0 == <<receiver.attempt + 1, 0>>
    <3>1. d0 \in Conn /\ rx[d0] = "none" /\ rx' = [rx EXCEPT ![d0] = "spawned"]
      BY <2>1, Indices DEF AttemptStarts, PInv, OneAttempt, Types, Conn, Attempt
    <3> HIDE DEF d0
    <3>2. {d0} \in SUBSET Conn /\ rx'[d0] = "spawned" /\ \A d \in Conn : d # d0 => rx'[d] = rx[d]
      BY <3>1 DEF PInv, Types
    <3> QED BY <3>1, <3>2
  <2>2. CASE ReceiverHears
    <3> DEFINE S == {c \in Conn : c[1] = receiver.attempt /\ c[2] \in 1 .. Head(counts) - 1}
    <3>1. \A c \in Conn : rx'[c] = IF c \in S THEN "spawned" ELSE rx[c]
      BY <2>2 DEF ReceiverHears
    <3>2. \A c \in S : rx[c] = "none"
      <4>1. receiver.phase = "negotiate" /\ counts \in Seq(Nat) /\ Head(counts) \in Nat
        BY <2>2 DEF ReceiverHears, PInv, Types
      <4>2. \A c \in S : c = <<receiver.attempt, c[2]>> /\ c[2] \in Index /\ c[2] # 0
        BY <4>1, Indices DEF Conn
      <4> QED BY <4>1, <4>2 DEF PInv, Prefix
    <3> QED BY <3>1, <3>2
  <2>3. CASE AttemptFails
    <3> DEFINE S == {c \in Conn : c \in Own(receiver.attempt) /\ rx[c] \notin {"none"} \cup RxLeft}
    <3>1. \A c \in Conn : rx'[c] = IF c \in S THEN "gone" ELSE rx[c]
      BY <2>3 DEF AttemptFails, Dropped
    <3> QED BY <3>1
  <2>4. CASE ReceiverFirstEnds \/ AttemptEnds
    BY <2>4 DEF ReceiverFirstEnds, AttemptEnds
  <2> QED BY <2>1, <2>2, <2>3, <2>4 DEF ReceiverStep
<1>3. OtherTypes'
  <2>1. faults' \in [count : 0 .. MaxFaults, kinds : SUBSET Kinds]
    <3>1. UNCHANGED faults \/ \E kind : Trouble(kind)
      BY DEF ReceiverStep, AttemptStarts, ReceiverHears, ReceiverFirstEnds, AttemptFails,
             AttemptEnds, Misses
    <3> QED BY <3>1, TroubleType
  <2>2. consent' \in {"none", "asking", "accept", "reject"}
    BY DEF SInv, OtherTypes, ReceiverStep, AttemptStarts, ReceiverHears, ReceiverFirstEnds,
           AttemptFails, AttemptEnds
  <2> QED BY <1>1, <2>1, <2>2 DEF SInv, OtherTypes
<1>4. Dialling' /\ RoundHolds'
  <2>1. \A d \in Conn : rx'[d] \in {"none", "spawned"} => rx[d] \in {"none", "spawned"}
    BY <1>2
  <2> QED BY <1>1, <2>1 DEF SInv, Dialling, InBacklog, RoundHolds
<1>5. Served'
  <2>1. sender.round \subseteq Conn
    BY SenderFields DEF Offering
  <2> QED BY <1>1, <1>2, <2>1, ServedMoves DEF SInv, RxLeft
<1> QED BY <1>3, <1>4, <1>5 DEF SInv

LEMMA ServedHolds ==
  ASSUME SInv, PInv, Offering, [Next]_vars
  PROVE  SInv'
<1>1. CASE UNCHANGED vars
  BY <1>1 DEF vars, SInv, OtherTypes, Dialling, InBacklog, RoundHolds, Served, Claims,
     Serving, Settled, Doomed, Superfluous, Assigned
<1>2. ASSUME NEW c \in Conn, RxStep(c) PROVE SInv'
  BY <1>2, RxServes, RxWorks DEF RxStep
<1>3. CASE UserAnswers
  <2>1. <<1, 0>> \in Conn
    BY Indices DEF Conn, Attempt
  <2> QED BY <1>3, <2>1, RxWorks
<1>4. ASSUME NEW c \in Conn, Cut(c) PROVE SInv'
  BY <1>4, RxWorks
<1> QED BY <1>1, <1>2, <1>3, <1>4, SenderServes, TxServes, ReceiverServes
        DEF Next, Step, Finished

-----------------------------------------------------------------------------
(* The theorems.                                                           *)

\* What ExistingKept says of a step.
StepKeeps ==
  \A f \in File : disk'[f] # disk[f] =>
    consent = "accept" /\ (f \in found => policy = "overwrite")

LEMMA StepHolds ==
  ASSUME PInv, Offering, [Next]_vars
  PROVE  PInv' /\ StepKeeps
<1> USE DEF fixed, request, senderSide
<1>1. ASSUME UNCHANGED vars PROVE PInv' /\ disk' = disk
  BY <1>1, QuietStep DEF vars, state
<1>2. ASSUME SenderStep \/ SenderRestarts \/ Finished
               \/ \E c \in Conn : TxDone(c) \/ TxFails(c) \/ Cut(c)
      PROVE  PInv' /\ disk' = disk
  BY <1>2, OtherSideIsQuiet, QuietStep DEF state
<1>3. ASSUME NEW c \in Conn, TxCounts(c) PROVE PInv' /\ disk' = disk
  BY <1>3, TxCountsKeeps DEF TxCounts
<1>4. ASSUME ReceiverStep PROVE PInv' /\ disk' = disk
  BY <1>4, StartKeeps, HearKeeps, EndKeeps, FailKeeps
     DEF ReceiverStep, AttemptStarts, ReceiverHears, ReceiverFirstEnds, AttemptFails, AttemptEnds
<1>5. ASSUME UserAnswers PROVE PInv' /\ disk' = disk
  BY <1>5, ConsentKeeps DEF UserAnswers
<1>6. ASSUME NEW c \in Conn, RxAsks(c) PROVE PInv' /\ disk' = disk
  BY <1>6, ConsentKeeps DEF RxAsks
<1>7. ASSUME NEW c \in Conn, RxPlans(c) PROVE PInv' /\ disk' = disk
  BY <1>7, PlanKeeps DEF RxPlans
<1>8. ASSUME NEW c \in Conn, RxOpens(c) \/ RxVerifies(c) PROVE PInv' /\ StepKeeps
  BY <1>8, FilesKeep DEF StepKeeps
<1>9. ASSUME NEW c \in Conn,
             \/ RxDials(c) \/ RxHandshakeTimesOut(c) \/ RxCounts(c) \/ RxDeclines(c)
             \/ RxConflicts(c) \/ RxDone(c) \/ RxFails(c)
      PROVE  PInv' /\ disk' = disk
  BY <1>9, MovesKeep DEF RxDials, RxHandshakeTimesOut, RxCounts, RxDeclines, RxConflicts,
     RxDone, RxFails
<1>10. disk' = disk => StepKeeps
  BY DEF StepKeeps
<1> QED BY <1>1, <1>2, <1>3, <1>4, <1>5, <1>6, <1>7, <1>8, <1>9, <1>10
        DEF Next, Step, TxStep, RxStep

LEMMA OfferingStutters == ASSUME Offering, UNCHANGED vars PROVE Offering'
BY DEF Offering, vars

LEMMA Inductive == Spec => [](PInv /\ Offering /\ SInv)
<1>1. Init => PInv /\ Offering /\ SInv
  <2>1. Init => Offering
    BY DEF Init, Offering, Senders, SenderPhases
  <2> QED BY <2>1, InitHolds, ServedInit
<1>2. PInv /\ Offering /\ SInv /\ [Next]_vars => (PInv /\ Offering /\ SInv)'
  BY StepHolds, OfferingKept, OfferingStutters, ServedHolds
<1> QED BY <1>1, <1>2, PTL DEF Spec

\* The declared types.
THEOREM SessionTypeCorrect == Spec => []TypeOK
<1>1. PInv /\ Offering /\ SInv => TypeOK
  <2> SUFFICES ASSUME PInv, Offering, SInv PROVE TypeOK
    OBVIOUS
  <2>1. sender \in [phase : SenderPhases, offer : Offers, round : SUBSET Conn, need : Nat]
    BY DEF Offering, Senders, SInv, OtherTypes
  <2> QED BY <2>1 DEF TypeOK, PInv, Types, Offering, SInv, OtherTypes
<1> QED BY <1>1, Inductive, PTL

\* A sender that exits well has seen every connection of its last round served:
\* whatever attempts of the receiver those connections are of, and whatever a
\* restart or an earlier round has left behind.
THEOREM SenderSuccessesAreServed == Spec => []SenderSuccessIsServed
<1>1. SInv => SenderSuccessIsServed
  <2> SUFFICES ASSUME SInv, sender.phase = "done", policy # "skip", NEW c \in sender.round,
                      ~Superfluous(c), NEW f \in Assigned(c)
               PROVE  disk[f] = "whole"
    BY DEF SenderSuccessIsServed, Whole, Assigned
  <2>1. \A d \in sender.round : tx[d] = "ok"
    BY DEF SInv, RoundHolds
  <2>2. Settled(f)
    BY <2>1 DEF SInv, Served, Claims
  <2> QED BY <2>1, <2>2 DEF Settled, Doomed, Serving
<1> QED BY <1>1, Inductive, PTL

\* Whatever is lost, late or restarted, an attempt that reports success has left
\* every file it answered for whole: the sum of its connections' reports is true
\* (attempt_transfer, aggregate_reports).
THEOREM SuccessesAreServed == Spec => []SuccessIsServed
<1>1. PInv => SuccessIsServed
  BY DoneIsServed
<1> QED BY <1>1, Inductive, PTL

\* No two connections that are alive and met the same count receive one file
\* (assigned_ids): there is no lock between them.
THEOREM FilesAreUnshared == Spec => []NoSharedFile
<1>1. PInv => NoSharedFile
  BY SharesAreApart
<1> QED BY <1>1, Inductive, PTL

\* The user's files change with the user's consent only, and under `overwrite`
\* only, over all attempts and connections.
THEOREM ExistingIsKept == Spec => ExistingKept
<1>1. PInv /\ Offering /\ [Next]_vars => StepKeeps
  BY StepHolds
<1>2. PInv /\ Offering /\ [Next]_vars => [StepKeeps]_vars
  BY <1>1
<1>3. ExistingKept <=> [][StepKeeps]_vars
  BY DEF ExistingKept, StepKeeps
<1> QED BY <1>2, <1>3, Inductive, PTL DEF Spec

=============================================================================
