-------------------------- MODULE AutoRoutesProofs --------------------------
(***************************************************************************)
(* Theorems of AutoRoutes, for any relays, any backlog and any number of   *)
(* faults.  TypeOK with OneSession is inductive, and so is                 *)
(* SuccessIsDelivered: a receiver that is served is never taken back.      *)
(***************************************************************************)
EXTENDS AutoRoutes, TLAPS

-----------------------------------------------------------------------------
(* Routes.                                                                 *)

LEMMA Routes ==
  /\ Order \in Seq(Route) /\ Len(Order) \in Nat /\ DOMAIN Order = 1 .. Len(Order)
  /\ 1 \in DOMAIN Order /\ Direct \in Route /\ NoRoute \notin Route
<1>1. Relays \in Seq(Route) /\ Len(Relays) \in Nat
  BY AutoAssumption
<1>2. Order \in Seq({Direct} \cup Route) /\ Len(Order) = Len(Relays) + 1
        /\ Order[1] = Direct
  BY <1>1 DEF Order
<1>3. DOMAIN Order = 1 .. Len(Order) /\ Len(Order) \in Nat
  BY <1>1, <1>2
<1>4. 1 \in DOMAIN Order /\ Direct \in Route
  BY <1>1, <1>2, <1>3 DEF Route
<1> QED BY <1>2, <1>3, <1>4, AutoAssumption

\* The route that follows, if there is one.
LEMMA NextIsRoute ==
  ASSUME TypeOK
  PROVE  NextRoute \in [at : {"resolve", "pause"}, route : DOMAIN Order]
<1>1. rcv.route \in 1 .. Len(Order) /\ Len(Order) \in Nat
  BY Routes DEF TypeOK
<1> QED BY <1>1, Routes DEF NextRoute

-----------------------------------------------------------------------------
(* Types.                                                                  *)

Arms == [Route -> [pc : ArmStates, peer : Peers]]

LEMMA GoesIsTyped ==
  ASSUME TypeOK, NEW r \in Route, NEW pc \in ArmStates, NEW peer \in Peers,
         Goes(r, pc, peer)
  PROVE  arm' \in Arms
BY DEF TypeOK, Goes, Arms

LEMMA ClosedIsTyped == \A peer \in Peers : Closed(peer) \in Peers /\ (peer # "none" => Closed(peer) # "none")
BY DEF Closed, Peers

LEMMA HangsIsTyped ==
  ASSUME TypeOK, Hangs
  PROVE  arm' \in Arms /\ extra' \in Peers /\ backlog' \in Seq(Peers \ {"none"})
<1>1. arm' \in Arms
  <2>1. \A r \in Route : arm[r] \in [pc : ArmStates, peer : Peers]
    BY DEF TypeOK
  <2>2. \A r \in Route : [arm[r] EXCEPT !.peer = Closed(@)] \in [pc : ArmStates, peer : Peers]
    BY <2>1, ClosedIsTyped
  <2> QED BY <2>2 DEF Hangs, Arms
<1>2. extra' \in Peers
  BY ClosedIsTyped DEF Hangs, TypeOK
<1>3. backlog' \in Seq(Peers \ {"none"})
  <2>1. backlog \in Seq(Peers \ {"none"}) /\ DOMAIN backlog = 1 .. Len(backlog) /\ Len(backlog) \in Nat
    BY DEF TypeOK
  <2>2. \A k \in 1 .. Len(backlog) : Closed(backlog[k]) \in Peers \ {"none"}
    BY <2>1, ClosedIsTyped
  <2>3. backlog' = [k \in 1 .. Len(backlog) |-> Closed(backlog[k])]
    BY <2>1 DEF Hangs
  <2> QED BY <2>1, <2>2, <2>3
<1> QED BY <1>1, <1>2, <1>3

\* The bound of the faults.
LEMMA TroubleIsBounded ==
  ASSUME TypeOK, NEW kind, Trouble(kind)
  PROVE  faults' \in 0 .. MaxFaults
BY AutoAssumption DEF TypeOK, Trouble

\* An arm takes a step.
LEMMA ArmStepIsTyped ==
  ASSUME TypeOK, NEW r \in Route, ArmStep(r)
  PROVE  TypeOK'
<1> USE GoesIsTyped, Routes DEF Arms, other
<1>1. arm[r] \in [pc : ArmStates, peer : Peers] /\ backlog \in Seq(Peers \ {"none"})
  BY DEF TypeOK
<1>2. "none" \in Peers /\ "receiver" \in Peers
        /\ {"start", "waiting", "gate", "session", "extras", "drain", "pause", "won",
            "ended"} = ArmStates
  BY DEF Peers, ArmStates
<1>3. backlog # <<>> => Head(backlog) \in Peers \ {"none"} /\ Tail(backlog) \in Seq(Peers \ {"none"})
  BY <1>1
<1>4. CASE ArmEnds(r)
  BY <1>2, <1>4 DEF ArmEnds, TypeOK
<1>5. CASE Registers(r)
  BY <1>2, <1>5 DEF Registers, TypeOK
<1>6. CASE RegisterFails(r)
  BY <1>2, <1>6, TroubleIsBounded DEF RegisterFails, TypeOK
<1>7. CASE WaitEnds(r)
  <2>1. arm' \in Arms
    BY <1>2, <1>7 DEF WaitEnds
  <2>2. faults' \in 0 .. MaxFaults
    BY <1>7, TroubleIsBounded DEF WaitEnds, TypeOK
  <2> QED BY <1>7, <2>1, <2>2 DEF WaitEnds, TypeOK
<1>8. CASE Handshake(r)
  <2>1. arm' \in Arms
    BY <1>2, <1>8 DEF Handshake
  <2>2. rcv' \in [at : ReceiverStates, route : DOMAIN Order]
    BY <1>8 DEF Handshake, TypeOK, ReceiverStates, Tries
  <2> QED BY <1>8, <2>1, <2>2 DEF Handshake, TypeOK
<1>9. CASE Enters(r)
  BY <1>1, <1>2, <1>9 DEF Enters, TypeOK
<1>10. CASE GivesUpGate(r)
  BY <1>2, <1>10 DEF GivesUpGate, TypeOK
<1>11. CASE Hello(r)
  <2>1. arm' \in Arms
    BY <1>1, <1>2, <1>11 DEF Hello
  <2>2. rcv' \in [at : ReceiverStates, route : DOMAIN Order]
    BY <1>11 DEF Hello, TypeOK, ReceiverStates, Tries
  <2> QED BY <1>11, <2>1, <2>2 DEF Hello, TypeOK
<1>12. CASE SessionFails(r)
  <2>1. arm' \in Arms
    BY <1>2, <1>12 DEF SessionFails
  <2> QED BY <1>2, <1>12, <2>1 DEF SessionFails, TypeOK
<1>13. CASE Resumes(r)
  BY <1>2, <1>13 DEF Resumes, TypeOK
<1>14. CASE SessionEnds(r)
  BY <1>2, <1>14 DEF SessionEnds, TypeOK
<1>15. CASE r = Direct /\ Accepts
  BY <1>2, <1>3, <1>15 DEF Accepts, TypeOK
<1>16. CASE r = Direct /\ AcceptsExtra
  BY <1>1, <1>2, <1>3, <1>16 DEF AcceptsExtra, TypeOK
<1>17. CASE r = Direct /\ ExtrasTimeOut
  <2>1. faults' \in 0 .. MaxFaults
    BY <1>17, TroubleIsBounded DEF ExtrasTimeOut, TypeOK
  <2> QED BY <1>2, <1>17, <2>1 DEF ExtrasTimeOut, TypeOK
<1> QED BY <1>4, <1>5, <1>6, <1>7, <1>8, <1>9, <1>10, <1>11, <1>12, <1>13, <1>14,
           <1>15, <1>16, <1>17 DEF ArmStep

\* The send ends, or the receiver takes a step.
LEMMA OthersAreTyped ==
  ASSUME TypeOK, Send \/ Receive \/ GivesUp \/ Expire
  PROVE  TypeOK'
<1> USE Routes DEF other
<1>1. rcv \in [at : ReceiverStates, route : DOMAIN Order] /\ NextRoute \in [at : ReceiverStates, route : DOMAIN Order]
  BY NextIsRoute DEF TypeOK, ReceiverStates
<1>2. {"resolve", "pause", "done", "gaveup", "dialled", "served"} \subseteq ReceiverStates
        /\ {"receiver", "extra"} \subseteq Peers \ {"none"}
  BY DEF ReceiverStates, Tries, Peers
<1>3. \A peer \in {"receiver", "extra"} : Append(backlog, peer) \in Seq(Peers \ {"none"})
  BY <1>2 DEF TypeOK
<1>4. CASE Send
  <2>1. PICK result \in {"done", "failed"} : Stops(result)
    BY <1>4 DEF Send, SendSucceeds, SendExpires, SendFails
  <2>2. arm' \in Arms
    BY <2>1 DEF Stops, Arms, ArmStates, Peers
  <2> QED BY <2>1, <2>2 DEF Stops, TypeOK, Peers, Arms
<1>5. CASE DialsDirect
  BY <1>1, <1>2, <1>3, <1>5 DEF DialsDirect, TypeOK
<1>6. CASE DialsRelay
  <2>1. rcv' \in [at : ReceiverStates, route : DOMAIN Order]
    BY <1>1, <1>2, <1>6 DEF DialsRelay
  <2>2. faults' \in 0 .. MaxFaults
    BY <1>6, TroubleIsBounded DEF DialsRelay, TypeOK
  <2> QED BY <1>6, <2>1, <2>2 DEF DialsRelay, TypeOK
<1>7. CASE Paired
  <2>1. On \in Route /\ "waiting" \in ArmStates
    BY DEF On, Route, TypeOK, ArmStates
  <2>2. arm' \in Arms
    BY <1>2, <1>7, <2>1, GoesIsTyped DEF Paired
  <2> QED BY <1>7, <2>2 DEF Paired, TypeOK, Arms
<1>8. CASE DialsExtra
  BY <1>3, <1>8 DEF DialsExtra, TypeOK
<1>9. CASE Served \/ ReceiverEnds \/ TriesAgain \/ GivesUp
  BY <1>1, <1>2, <1>9 DEF Served, ReceiverEnds, TriesAgain, GivesUp, TypeOK
<1>10. CASE TryFails
  BY <1>1, <1>10, HangsIsTyped DEF TryFails, TypeOK, Arms
<1>11. CASE TryTimesOut
  <2>1. faults' \in 0 .. MaxFaults
    BY <1>11, TroubleIsBounded DEF TryTimesOut, TypeOK
  <2> QED BY <1>1, <1>11, <2>1, HangsIsTyped DEF TryTimesOut, TypeOK, Arms
<1>12. CASE Expire
  BY <1>12 DEF Expire, TypeOK
<1> QED BY <1>4, <1>5, <1>6, <1>7, <1>8, <1>9, <1>10, <1>11, <1>12 DEF Receive

\* A stranger comes, a connection is lost.
LEMMA TroublesAreTyped ==
  ASSUME TypeOK, NEW r \in Route, Stranger(r) \/ Break(r)
  PROVE  TypeOK'
<1>1. faults' \in 0 .. MaxFaults
  BY TroubleIsBounded DEF Stranger, Break
<1>2. "stranger" \in Peers \ {"none"} /\ "waiting" \in ArmStates
  BY DEF Peers, ArmStates
<1>3. CASE Stranger(r)
  <2>1. arm' \in Arms
    BY <1>2, <1>3, GoesIsTyped DEF Stranger, TypeOK, Arms
  <2>2. backlog' \in Seq(Peers \ {"none"})
    BY <1>2, <1>3 DEF Stranger, TypeOK
  <2> QED BY <1>1, <1>3, <2>1, <2>2 DEF Stranger, TypeOK, Arms, other
<1>4. CASE Break(r)
  <2>1. arm' \in Arms
    BY <1>2, <1>4 DEF Break, TypeOK, Arms
  <2> QED BY <1>1, <1>4, <2>1 DEF Break, TypeOK, Arms, other
<1> QED BY <1>3, <1>4

LEMMA InitIsTyped == Init => TypeOK
<1> SUFFICES ASSUME Init PROVE TypeOK
  OBVIOUS
<1>1. arm \in [Route -> [pc : ArmStates, peer : Peers]] /\ extra \in Peers
  BY DEF Init, ArmStates, Peers
<1>2. backlog \in Seq(Peers \ {"none"}) /\ faults \in 0 .. MaxFaults
  BY AutoAssumption DEF Init
<1>3. rcv \in [at : ReceiverStates, route : DOMAIN Order]
  BY Routes DEF Init, ReceiverStates
<1> QED BY <1>1, <1>2, <1>3 DEF Init, TypeOK

LEMMA StepIsTyped == TypeOK /\ [Next]_vars => TypeOK'
<1> SUFFICES ASSUME TypeOK, [Next]_vars PROVE TypeOK'
  OBVIOUS
<1>1. CASE UNCHANGED vars
  BY <1>1 DEF TypeOK, vars
<1>2. ASSUME NEW r \in Route, ArmStep(r) \/ Stranger(r) \/ Break(r)
      PROVE  TypeOK'
  BY <1>2, ArmStepIsTyped, TroublesAreTyped
<1>3. CASE Send \/ Receive \/ GivesUp \/ Expire
  BY <1>3, OthersAreTyped
<1> QED BY <1>1, <1>2, <1>3 DEF Next, Finished

\* The routes are as AutoRoutes declares them, whatever happens.
THEOREM TypeCorrect == Spec => []TypeOK
BY InitIsTyped, StepIsTyped, PTL DEF Spec

-----------------------------------------------------------------------------
(* One session at a time.                                                  *)

Gated == TypeOK /\ OneSession

\* An arm that moves, and where the gate is then.
LEMMA MovesGated ==
  ASSUME Gated, NEW r \in Route, NEW pc, NEW peer, Goes(r, pc, peer),
         pc \in InSession => gate' = r,
         \A s \in Route \ {r} : gate = s => gate' = s
  PROVE  OneSession'
<1>1. arm'[r].pc = pc /\ \A s \in Route \ {r} : arm'[s] = arm[s]
  BY DEF Gated, TypeOK, Goes
<1> QED BY <1>1 DEF Gated, OneSession

LEMMA ArmStepIsGated ==
  ASSUME Gated, NEW r \in Route, ArmStep(r)
  PROVE  OneSession'
<1>1. NoRoute \notin Route
  BY Routes
<1>2. CASE ArmEnds(r) \/ Registers(r) \/ RegisterFails(r) \/ GivesUpGate(r)
  BY <1>2, MovesGated DEF ArmEnds, Registers, RegisterFails, GivesUpGate, InSession
<1>3. CASE WaitEnds(r)
  BY <1>3, MovesGated DEF WaitEnds, InSession
<1>4. CASE Handshake(r)
  BY <1>4, MovesGated DEF Handshake, InSession
<1>5. CASE Enters(r)
  BY <1>1, <1>5, MovesGated DEF Enters
<1>6. CASE Hello(r)
  <2>1. gate = r
    BY <1>6 DEF Hello, Gated, OneSession, InSession
  <2> QED BY <1>6, <2>1, MovesGated DEF Hello
<1>7. CASE SessionFails(r)
  <2>1. gate = r
    BY <1>7 DEF SessionFails, Gated, OneSession, InSession
  <2> QED BY <1>7, <2>1, MovesGated DEF SessionFails, InSession
<1>8. CASE Resumes(r)
  BY <1>8, MovesGated DEF Resumes, InSession
<1>9. CASE SessionEnds(r)
  <2>1. arm[r].pc = "drain"
    BY <1>9 DEF SessionEnds, Complete
  <2>2. gate = r
    BY <2>1 DEF Gated, OneSession, InSession
  <2> QED BY <1>9, <2>2, MovesGated DEF SessionEnds, InSession
<1>10. CASE r = Direct /\ Accepts
  BY <1>10, MovesGated DEF Accepts, InSession
<1>11. CASE r = Direct /\ AcceptsExtra
  <2>1. gate = r
    BY <1>11 DEF AcceptsExtra, Gated, OneSession, InSession
  <2> QED BY <1>11, <2>1, MovesGated DEF AcceptsExtra
<1>12. CASE r = Direct /\ ExtrasTimeOut
  BY <1>12, MovesGated DEF ExtrasTimeOut, InSession
<1> QED BY <1>2, <1>3, <1>4, <1>5, <1>6, <1>7, <1>8, <1>9, <1>10, <1>11, <1>12 DEF ArmStep

LEMMA StepIsGated == Gated /\ [Next]_vars => Gated'
<1> SUFFICES ASSUME Gated, [Next]_vars PROVE OneSession'
  BY StepIsTyped DEF Gated
<1>1. CASE UNCHANGED vars
  BY <1>1 DEF Gated, OneSession, vars
<1>2. ASSUME NEW r \in Route, ArmStep(r)
      PROVE  OneSession'
  BY <1>2, ArmStepIsGated
<1>3. ASSUME NEW r \in Route, Stranger(r)
      PROVE  OneSession'
  <2>1. CASE r = Direct
    BY <1>3, <2>1 DEF Stranger, Gated, OneSession
  <2>2. CASE r # Direct
    BY <1>3, <2>2, MovesGated DEF Stranger, InSession
  <2> QED BY <2>1, <2>2
<1>4. CASE \E r \in Route : Break(r)
  <2>1. \A s \in Route : arm'[s].pc = arm[s].pc
    BY <1>4 DEF Break, Gated, TypeOK
  <2> QED BY <1>4, <2>1 DEF Break, Gated, OneSession
<1>5. CASE Send
  BY <1>5 DEF Send, SendSucceeds, SendExpires, SendFails, Stops, OneSession, InSession
<1>6. CASE Paired
  <2>1. On \in Route
    BY DEF On, Route, Gated, TypeOK
  <2> QED BY <1>6, <2>1, MovesGated DEF Paired, InSession
<1>7. CASE TryFails \/ TryTimesOut
  <2>1. \A s \in Route : arm'[s].pc = arm[s].pc
    BY <1>7 DEF TryFails, TryTimesOut, Hangs, Gated, TypeOK
  <2> QED BY <1>7, <2>1 DEF TryFails, TryTimesOut, Gated, OneSession
<1>8. CASE DialsDirect \/ DialsRelay \/ DialsExtra \/ Served \/ ReceiverEnds
             \/ TriesAgain \/ GivesUp \/ Expire
  BY <1>8 DEF DialsDirect, DialsRelay, DialsExtra, Served, ReceiverEnds, TriesAgain,
              GivesUp, Expire, Gated, OneSession
<1> QED BY <1>1, <1>2, <1>3, <1>4, <1>5, <1>6, <1>7, <1>8 DEF Next, Receive, Finished

\* Of all the routes a send offers, one at a time runs a session, with however
\* many relays and through whatever pauses and aborts (acquire_progress_gate).
THEOREM SessionsAreSingle == Spec => []OneSession
<1>1. Init => Gated
  BY InitIsTyped DEF Init, Gated, OneSession, InSession
<1>2. Gated => OneSession
  BY DEF Gated
<1> QED BY <1>1, <1>2, StepIsGated, PTL DEF Spec

-----------------------------------------------------------------------------
(* Success is delivered.                                                   *)

\* Where the receiver may be while an arm that is here has its connection.
Behind(pc) ==
  CASE pc = "waiting" -> {"dialled"}
    [] pc \in {"gate", "session"} -> {"dialled", "shaken"}
    [] pc = "extras" -> {"counted"}
    [] pc = "drain" -> {"counted", "served", "done"}
    [] pc = "won" -> {"served", "done"}
    [] OTHER -> {}

\* The connection of the current try is in one place, on the route it was dialled,
\* and as far as the receiver is.
Met ==
  /\ \A r \in Route :
       arm[r].peer = "receiver" => r = On /\ rcv.at \in Behind(arm[r].pc)
  /\ \A k \in DOMAIN backlog :
       backlog[k] = "receiver" =>
         /\ On = Direct /\ rcv.at = "dialled" /\ arm[Direct].peer # "receiver"
         /\ \A j \in DOMAIN backlog : backlog[j] = "receiver" => j = k

Earned == TypeOK /\ Met /\ SuccessIsDelivered

\* An arm moves, and nothing else: its connection, if it is the receiver's, was
\* there before.
LEMMA MovesMet ==
  ASSUME TypeOK, Met, NEW r \in Route, NEW pc, NEW peer, Goes(r, pc, peer),
         UNCHANGED <<rcv, backlog>>,
         peer = "receiver" => arm[r].peer = "receiver" /\ rcv.at \in Behind(pc)
  PROVE  Met'
<1>1. arm'[r].pc = pc /\ arm'[r].peer = peer /\ \A s \in Route \ {r} : arm'[s] = arm[s]
  BY DEF TypeOK, Goes
<1>2. On' = On /\ rcv' = rcv /\ backlog' = backlog
  BY DEF On
<1>3. ASSUME NEW s \in Route, arm'[s].peer = "receiver"
      PROVE  s = On /\ rcv.at \in Behind(arm'[s].pc)
  <2>1. CASE s = r
    BY <1>1, <1>3, <2>1 DEF Met
  <2>2. CASE s # r
    BY <1>1, <1>3, <2>2 DEF Met
  <2> QED BY <2>1, <2>2
<1>4. ASSUME NEW k \in DOMAIN backlog, backlog[k] = "receiver"
      PROVE  /\ On = Direct /\ rcv.at = "dialled" /\ arm'[Direct].peer # "receiver"
             /\ \A j \in DOMAIN backlog : backlog[j] = "receiver" => j = k
  <2>1. On = Direct /\ rcv.at = "dialled" /\ arm[Direct].peer # "receiver"
          /\ \A j \in DOMAIN backlog : backlog[j] = "receiver" => j = k
    BY <1>4 DEF Met
  <2>2. arm'[Direct].peer # "receiver"
    BY <1>1, <2>1, Routes
  <2> QED BY <2>1, <2>2
<1> QED BY <1>2, <1>3, <1>4 DEF Met, Behind

\* An arm and the receiver move together.
LEMMA MeetMet ==
  ASSUME TypeOK, Met, NEW r \in Route, NEW pc, NEW at, Goes(r, pc, "receiver"),
         UNCHANGED backlog, arm[r].peer = "receiver",
         rcv' = [rcv EXCEPT !.at = at], at \in Behind(pc)
  PROVE  Met'
<1>1. /\ arm'[r].pc = pc /\ arm'[r].peer = "receiver"
      /\ \A s \in Route \ {r} : arm'[s] = arm[s]
  BY DEF TypeOK, Goes
<1>2. rcv'.at = at /\ rcv'.route = rcv.route
  BY DEF TypeOK
<1>3. On' = On /\ r = On
  BY <1>2 DEF On, Met
<1>4. \A s \in Route : arm'[s].peer = "receiver" => s = r
  BY <1>1, <1>3 DEF Met
<1>5. \A k \in DOMAIN backlog : backlog[k] # "receiver"
  BY <1>3 DEF Met
<1> QED BY <1>1, <1>2, <1>3, <1>4, <1>5 DEF Met, Behind

\* What is taken from the listener is not there any more.
LEMMA TailHas ==
  ASSUME TypeOK, backlog # <<>>
  PROVE  /\ Head(backlog) = backlog[1] /\ 1 \in DOMAIN backlog
         /\ \A k \in DOMAIN Tail(backlog) :
              Tail(backlog)[k] = backlog[k + 1] /\ k + 1 \in DOMAIN backlog /\ k \in Nat /\ k # 0
<1> QED BY DEF TypeOK

LEMMA ArmStepMet ==
  ASSUME TypeOK, Met, NEW r \in Route, ArmStep(r)
  PROVE  Met'
<1>1. CASE ArmEnds(r) \/ Registers(r) \/ RegisterFails(r) \/ GivesUpGate(r)
             \/ SessionFails(r) \/ Resumes(r)
  BY <1>1, MovesMet DEF ArmEnds, Registers, RegisterFails, GivesUpGate, SessionFails, Resumes
<1>2. CASE WaitEnds(r)
  BY <1>2, MovesMet DEF WaitEnds
<1>3. CASE Handshake(r)
  <2>1. CASE arm[r].peer = "receiver"
    <3>1. rcv' = [rcv EXCEPT !.at = "shaken"] /\ Goes(r, "gate", "receiver")
      BY <1>3, <2>1 DEF Handshake
    <3>2. "shaken" \in Behind("gate")
      BY DEF Behind
    <3> QED BY <1>3, <2>1, <3>1, <3>2, MeetMet DEF Handshake
  <2>2. CASE arm[r].peer # "receiver"
    BY <1>3, <2>2, MovesMet DEF Handshake
  <2> QED BY <2>1, <2>2
<1>4. CASE Enters(r)
  <2>1. arm[r].peer = "receiver" => rcv.at \in Behind("session")
    BY <1>4 DEF Enters, Met, Behind
  <2> QED BY <1>4, <2>1, MovesMet DEF Enters
<1>5. CASE Hello(r)
  <2>1. PICK pc \in {"extras", "drain"} : Goes(r, pc, arm[r].peer)
    BY <1>5 DEF Hello
  <2>2. CASE arm[r].peer = "receiver"
    <3>1. rcv' = [rcv EXCEPT !.at = "counted"] /\ "counted" \in Behind(pc)
      BY <1>5, <2>2 DEF Hello, Behind
    <3> QED BY <1>5, <2>1, <2>2, <3>1, MeetMet DEF Hello
  <2>3. CASE arm[r].peer # "receiver"
    BY <1>5, <2>1, <2>3, MovesMet DEF Hello
  <2> QED BY <2>2, <2>3
<1>6. CASE SessionEnds(r)
  <2>1. rcv.at \in Behind("won") /\ arm[r].peer = "receiver"
    BY <1>6 DEF SessionEnds, Behind, Complete
  <2> QED BY <1>6, <2>1, MovesMet DEF SessionEnds
<1>7. CASE r = Direct /\ Accepts
  <2>1. backlog # <<>> /\ backlog' = Tail(backlog) /\ rcv' = rcv
          /\ Goes(r, "gate", Head(backlog)) /\ arm[r].pc = "start"
    BY <1>7 DEF Accepts
  <2>2. arm'[r] = [pc |-> "gate", peer |-> Head(backlog)]
          /\ \A s \in Route \ {r} : arm'[s] = arm[s]
    BY <2>1 DEF TypeOK, Goes
  <2>3. ASSUME NEW s \in Route, arm'[s].peer = "receiver"
        PROVE  s = On /\ rcv.at \in Behind(arm'[s].pc)
    <3>1. CASE s = r
      BY <2>1, <2>2, <2>3, <3>1, <1>7, TailHas DEF Met, Behind
    <3>2. CASE s # r
      BY <2>2, <2>3, <3>2 DEF Met
    <3> QED BY <3>1, <3>2
  <2>4. ASSUME NEW k \in DOMAIN backlog', backlog'[k] = "receiver"
        PROVE  /\ On = Direct /\ rcv.at = "dialled" /\ arm'[Direct].peer # "receiver"
               /\ \A j \in DOMAIN backlog' : backlog'[j] = "receiver" => j = k
    <3>1. k + 1 \in DOMAIN backlog /\ backlog[k + 1] = "receiver" /\ k \in Nat /\ k # 0
      BY <2>1, <2>4, TailHas
    <3>2. On = Direct /\ rcv.at = "dialled" /\ arm[Direct].peer # "receiver"
            /\ \A j \in DOMAIN backlog : backlog[j] = "receiver" => j = k + 1
      BY <3>1 DEF Met
    <3>3. Head(backlog) # "receiver"
      BY <2>1, <3>1, <3>2, TailHas
    <3>4. \A j \in DOMAIN backlog' : backlog'[j] = "receiver" => j = k
      BY <2>1, <3>1, <3>2, TailHas
    <3> QED BY <1>7, <2>2, <3>2, <3>3, <3>4
  <2> QED BY <2>1, <2>3, <2>4 DEF Met, On, Behind
<1>8. CASE r = Direct /\ AcceptsExtra
  <2>1. backlog # <<>> /\ backlog' = Tail(backlog) /\ rcv' = rcv /\ arm[r].pc = "extras"
          /\ Goes(r, "drain", arm[r].peer)
    BY <1>8 DEF AcceptsExtra
  <2>2. arm'[r] = [pc |-> "drain", peer |-> arm[r].peer]
          /\ \A s \in Route \ {r} : arm'[s] = arm[s]
    BY <2>1 DEF TypeOK, Goes
  <2>3. ASSUME NEW s \in Route, arm'[s].peer = "receiver"
        PROVE  s = On /\ rcv.at \in Behind(arm'[s].pc)
    <3>1. CASE s = r
      <4>1. arm[r].peer = "receiver"
        BY <2>2, <2>3, <3>1
      <4>2. r = On /\ rcv.at = "counted"
        BY <2>1, <4>1 DEF Met, Behind
      <4> QED BY <2>2, <3>1, <4>2 DEF Behind
    <3>2. CASE s # r
      BY <2>2, <2>3, <3>2 DEF Met
    <3> QED BY <3>1, <3>2
  <2>4. ASSUME NEW k \in DOMAIN backlog', backlog'[k] = "receiver"
        PROVE  /\ On = Direct /\ rcv.at = "dialled" /\ arm'[Direct].peer # "receiver"
               /\ \A j \in DOMAIN backlog' : backlog'[j] = "receiver" => j = k
    <3>1. k + 1 \in DOMAIN backlog /\ backlog[k + 1] = "receiver" /\ k \in Nat /\ k # 0
      BY <2>1, <2>4, TailHas
    <3>2. On = Direct /\ rcv.at = "dialled" /\ arm[Direct].peer # "receiver"
            /\ \A j \in DOMAIN backlog : backlog[j] = "receiver" => j = k + 1
      BY <3>1 DEF Met
    <3>3. \A j \in DOMAIN backlog' : backlog'[j] = "receiver" => j = k
      BY <2>1, <3>1, <3>2, TailHas
    <3> QED BY <1>8, <2>2, <3>2, <3>3
  <2> QED BY <2>1, <2>3, <2>4 DEF Met, On, Behind
<1>9. CASE r = Direct /\ ExtrasTimeOut
  BY <1>9, MovesMet DEF ExtrasTimeOut
<1> QED BY <1>1, <1>2, <1>3, <1>4, <1>5, <1>6, <1>7, <1>8, <1>9 DEF ArmStep

\* Between two tries the receiver has no connection.
LEMMA NobodyMet ==
  ASSUME Met, rcv.at \in {"resolve", "pause"}
  PROVE  /\ \A r \in Route : arm[r].peer # "receiver"
         /\ \A k \in DOMAIN backlog : backlog[k] # "receiver"
BY DEF Met, Behind

LEMMA OtherStepsMet ==
  ASSUME TypeOK, Met,
         \/ Send \/ Receive \/ GivesUp \/ Expire \/ UNCHANGED vars
         \/ \E r \in Route : Stranger(r) \/ Break(r)
  PROVE  Met'
<1>1. CASE UNCHANGED vars \/ Expire
  BY <1>1 DEF Met, On, vars, Expire
<1>2. CASE Send
  <2>1. (\A r \in Route : arm'[r].peer = "none") /\ backlog' = <<>>
    BY <1>2 DEF Send, SendSucceeds, SendExpires, SendFails, Stops
  <2> QED BY <2>1 DEF Met
<1>3. CASE DialsDirect
  <2>1. rcv.at = "resolve" /\ On = Direct /\ arm' = arm
    BY <1>3 DEF DialsDirect
  <2>2. CASE backlog' = Append(backlog, "receiver") /\ rcv' = [rcv EXCEPT !.at = "dialled"]
    <3>1. On' = Direct /\ rcv'.at = "dialled"
      BY <2>1, <2>2 DEF On, TypeOK
    <3>2. \A k \in DOMAIN backlog' : backlog'[k] = "receiver" => k = Len(backlog) + 1
      BY <2>1, <2>2, NobodyMet DEF TypeOK
    <3> QED BY <2>1, <3>1, <3>2, NobodyMet, Routes DEF Met
  <2>3. CASE UNCHANGED backlog
    BY <2>1, <2>3, NobodyMet DEF Met
  <2> QED BY <1>3, <2>2, <2>3 DEF DialsDirect
<1>4. CASE DialsRelay
  <2>1. rcv.at = "resolve" /\ arm' = arm /\ backlog' = backlog
    BY <1>4 DEF DialsRelay
  <2> QED BY <2>1, NobodyMet DEF Met
<1>5. CASE Paired
  <2>1. /\ rcv.at = "dialled" /\ On # Direct /\ On \in Route /\ UNCHANGED <<rcv, backlog>>
        /\ Goes(On, "waiting", "receiver")
    BY <1>5 DEF Paired, On, Route, TypeOK
  <2>2. arm'[On] = [pc |-> "waiting", peer |-> "receiver"]
          /\ \A s \in Route \ {On} : arm'[s] = arm[s]
    BY <2>1 DEF TypeOK, Goes
  <2>3. \A s \in Route : arm'[s].peer = "receiver" => s = On /\ rcv.at \in Behind(arm'[s].pc)
    BY <2>1, <2>2 DEF Met, Behind
  <2>4. \A k \in DOMAIN backlog : backlog[k] # "receiver"
    BY <2>1 DEF Met
  <2> QED BY <2>1, <2>3, <2>4 DEF Met, On, Behind
<1>6. CASE DialsExtra
  <2>1. rcv.at = "counted" /\ UNCHANGED <<arm, rcv>> /\ backlog' = Append(backlog, "extra")
    BY <1>6 DEF DialsExtra
  <2>2. \A k \in DOMAIN backlog' : backlog'[k] # "receiver"
    BY <2>1 DEF Met, TypeOK
  <2> QED BY <2>1, <2>2 DEF Met, On, Behind
<1>7. CASE Served
  <2>1. /\ rcv.at = "counted" /\ UNCHANGED <<arm, backlog>>
        /\ rcv'.at = "served" /\ rcv'.route = rcv.route /\ arm[On].pc = "drain"
    BY <1>7 DEF Served, Complete, TypeOK
  <2>2. \A k \in DOMAIN backlog : backlog[k] # "receiver"
    BY <2>1 DEF Met
  <2> QED BY <2>1, <2>2 DEF Met, On, Behind
<1>8. CASE ReceiverEnds
  <2>1. /\ rcv.at = "served" /\ UNCHANGED <<arm, backlog>>
        /\ rcv'.at = "done" /\ rcv'.route = rcv.route
    BY <1>8 DEF ReceiverEnds, TypeOK
  <2>2. \A k \in DOMAIN backlog : backlog[k] # "receiver"
    BY <2>1 DEF Met
  <2> QED BY <2>1, <2>2 DEF Met, On, Behind
<1>9. CASE TryFails \/ TryTimesOut
  <2>1. Hangs /\ \A peer : Closed(peer) # "receiver"
    BY <1>9 DEF TryFails, TryTimesOut, Closed
  <2>2. \A r \in Route : arm'[r].peer # "receiver"
    BY <2>1 DEF Hangs, TypeOK
  <2>3. \A k \in DOMAIN backlog' : backlog'[k] # "receiver"
    BY <2>1 DEF Hangs
  <2> QED BY <2>2, <2>3 DEF Met
<1>10. CASE TriesAgain \/ GivesUp
  BY <1>10, NobodyMet DEF TriesAgain, GivesUp, Met
<1>11. ASSUME NEW r \in Route, Stranger(r)
       PROVE  Met'
  <2>1. CASE r = Direct
    <3>1. UNCHANGED <<arm, rcv>> /\ backlog' = Append(backlog, "stranger")
      BY <1>11, <2>1 DEF Stranger
    <3>2. \A k \in DOMAIN backlog' :
            backlog'[k] = "receiver" => k \in DOMAIN backlog /\ backlog[k] = "receiver"
      BY <3>1 DEF TypeOK
    <3>3. \A k \in DOMAIN backlog : k \in DOMAIN backlog' /\ backlog'[k] = backlog[k]
      BY <3>1 DEF TypeOK
    <3> QED BY <3>1, <3>2, <3>3 DEF Met, On
  <2>2. CASE r # Direct
    BY <1>11, <2>2, MovesMet DEF Stranger
  <2> QED BY <2>1, <2>2
<1>12. ASSUME NEW r \in Route, Break(r)
       PROVE  Met'
  <2>1. UNCHANGED <<rcv, backlog>> /\ arm'[r].peer = "stranger"
          /\ \A s \in Route \ {r} : arm'[s] = arm[s]
    BY <1>12 DEF Break, TypeOK
  <2>2. \A s \in Route : arm'[s].peer = "receiver" => arm'[s] = arm[s]
    BY <2>1
  <2>3. arm[Direct].peer # "receiver" => arm'[Direct].peer # "receiver"
    BY <2>2, Routes
  <2> QED BY <2>1, <2>2, <2>3 DEF Met, On
<1> QED BY <1>1, <1>2, <1>3, <1>4, <1>5, <1>6, <1>7, <1>8, <1>9, <1>10, <1>11, <1>12
        DEF Receive

\* A receiver that is served stays so.
LEMMA ServedStays ==
  ASSUME TypeOK, Met, [Next]_vars, rcv.at \in {"served", "done"}
  PROVE  rcv'.at \in {"served", "done"}
<1>1. CASE \E r \in Route : Handshake(r) \/ Hello(r)
  BY <1>1 DEF Handshake, Hello, Met, Behind
<1>2. CASE ReceiverEnds
  BY <1>2 DEF ReceiverEnds, TypeOK
<1>3. CASE UNCHANGED rcv
  BY <1>3
<1>4. ASSUME NEW r \in Route, ArmStep(r), ~Handshake(r), ~Hello(r)
      PROVE  UNCHANGED rcv
  BY <1>4 DEF ArmStep, ArmEnds, Registers, RegisterFails, WaitEnds, Enters, GivesUpGate,
              SessionFails, Resumes, SessionEnds, Accepts, AcceptsExtra, ExtrasTimeOut
<1>5. ASSUME \/ Send \/ Expire \/ UNCHANGED vars \/ Paired \/ DialsExtra
             \/ \E r \in Route : Stranger(r) \/ Break(r)
      PROVE  UNCHANGED rcv
  BY <1>5 DEF Send, SendSucceeds, SendExpires, SendFails, Stops, Expire, vars, Paired,
              DialsExtra, Stranger, Break
<1>6. ~(DialsDirect \/ DialsRelay \/ Served \/ TryFails \/ TryTimesOut \/ TriesAgain
          \/ GivesUp)
  BY DEF DialsDirect, DialsRelay, Served, TryFails, TryTimesOut, TriesAgain, GivesUp
<1> QED BY <1>1, <1>2, <1>3, <1>4, <1>5, <1>6 DEF Next, Receive, Finished

\* An arm wins only with a receiver that is served.
LEMMA WonIsServed ==
  ASSUME TypeOK, Met, [Next]_vars, SuccessIsDelivered
  PROVE  outcome' = "done" \/ Won' => rcv.at \in {"served", "done"}
<1>1. ASSUME outcome' = "done", outcome # "done"
      PROVE  Won
  BY <1>1 DEF Next, ArmStep, ArmEnds, Registers, RegisterFails, WaitEnds, Handshake, Enters,
       GivesUpGate, Hello, SessionFails, Resumes, SessionEnds, Accepts, AcceptsExtra,
       ExtrasTimeOut, Stranger, Break, Send, SendSucceeds, SendExpires, SendFails, Stops,
       Receive, DialsDirect, DialsRelay, Paired, DialsExtra, Served, ReceiverEnds,
       TryFails, TryTimesOut, TriesAgain, GivesUp, Expire, Finished, vars, other
<1>2. ASSUME NEW r \in Route, NEW pc, NEW peer, Goes(r, pc, peer), pc # "won", Won'
      PROVE  Won
  <2>1. arm'[r].pc = pc /\ \A s \in Route \ {r} : arm'[s] = arm[s]
    BY <1>2 DEF Goes, TypeOK
  <2> QED BY <1>2, <2>1 DEF Won
<1>3. ASSUME NEW r \in Route, ArmStep(r), Won'
      PROVE  Won \/ rcv.at = "served"
  <2>1. CASE SessionEnds(r)
    BY <2>1 DEF SessionEnds
  <2>2. CASE ~SessionEnds(r)
    <3>1. PICK pc, peer : pc # "won" /\ Goes(r, pc, peer)
      BY <1>3, <2>2 DEF ArmStep, ArmEnds, Registers, RegisterFails, WaitEnds, Handshake,
           Enters, GivesUpGate, Hello, SessionFails, Resumes, Accepts, AcceptsExtra,
           ExtrasTimeOut, ArmStates
    <3> QED BY <1>2, <1>3, <3>1
  <2> QED BY <2>1, <2>2
<1>4. ASSUME \/ Receive \/ GivesUp \/ Expire \/ UNCHANGED vars
             \/ \E r \in Route : Stranger(r) \/ Break(r),
             Won'
      PROVE  Won
  <2>1. CASE Paired
    <3>1. On \in Route
      BY DEF On, Route, TypeOK
    <3> QED BY <1>2, <1>4, <2>1, <3>1 DEF Paired
  <2>2. ASSUME NEW r \in Route, Stranger(r), r # Direct
        PROVE  Won
    BY <1>2, <1>4, <2>2 DEF Stranger
  <2>3. CASE \A r \in Route : arm'[r].pc = arm[r].pc
    BY <1>4, <2>3 DEF Won
  <2>4. CASE \E r \in Route : Break(r)
    BY <2>3, <2>4 DEF Break, TypeOK
  <2>5. CASE TryFails \/ TryTimesOut
    BY <2>3, <2>5 DEF TryFails, TryTimesOut, Hangs, TypeOK
  <2>6. CASE UNCHANGED arm
    BY <2>3, <2>6
  <2>7. CASE \/ DialsDirect \/ DialsRelay \/ DialsExtra \/ Served \/ ReceiverEnds
             \/ TriesAgain \/ GivesUp \/ Expire \/ UNCHANGED vars \/ Stranger(Direct)
    BY <2>6, <2>7 DEF DialsDirect, DialsRelay, DialsExtra, Served, ReceiverEnds,
         TriesAgain, GivesUp, Expire, vars, Stranger
  <2> QED BY <1>4, <2>1, <2>2, <2>4, <2>5, <2>7 DEF Receive
<1>5. Send => ~Won'
  BY DEF Send, SendSucceeds, SendExpires, SendFails, Stops, Won
<1>6. Won' => Won \/ rcv.at = "served"
  BY <1>3, <1>4, <1>5 DEF Next, Finished
<1> QED BY <1>1, <1>6 DEF SuccessIsDelivered

LEMMA StepIsEarned == Earned /\ [Next]_vars => Earned'
<1> SUFFICES ASSUME Earned, [Next]_vars PROVE Met' /\ SuccessIsDelivered'
  BY StepIsTyped DEF Earned
<1>1. Met'
  BY ArmStepMet, OtherStepsMet DEF Earned, Next, Finished
<1>2. SuccessIsDelivered'
  BY ServedStays, WonIsServed DEF Earned, SuccessIsDelivered
<1> QED BY <1>1, <1>2

\* A send that reports success has served the receiver all of it, on whatever
\* route and after whatever tries that failed ("... or report a false partial
\* success", drain_sender_round).
THEOREM SuccessIsEarned == Spec => []SuccessIsDelivered
<1>1. Init => Earned
  <2>1. Init => Met /\ SuccessIsDelivered
    BY DEF Init, Met, SuccessIsDelivered, Won
  <2> QED BY <2>1, InitIsTyped DEF Earned
<1>2. Earned => SuccessIsDelivered
  BY DEF Earned
<1> QED BY <1>1, <1>2, StepIsEarned, PTL DEF Spec

=============================================================================
