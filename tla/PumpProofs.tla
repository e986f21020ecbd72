----------------------------- MODULE PumpProofs -----------------------------
(***************************************************************************)
(* Proofs about Pump, for every script of turns, every size of frame and   *)
(* every room: no read of a frame is dropped in the middle.                *)
(*                                                                         *)
(* The argument counts units.  A frame counts for the units its length     *)
(* announces, from the moment its plaintext is taken until they are heard, *)
(* so that a frame in the middle of which a reader stands counts as well.  *)
(* What is heard and what is on its way is never more than what was said;  *)
(* hence nothing is on its way when a turn ends.                           *)
(***************************************************************************)
EXTENDS Pump, TLAPS

-----------------------------------------------------------------------------
(* Sums over sequences, without a recursion: a sum has running totals.     *)

\* The running totals of a sequence: they begin at 0 and never fall.
Totals(q, cum) ==
  /\ cum \in [0 .. Len(q) -> Nat]
  /\ cum[0] = 0
  /\ \A k \in 1 .. Len(q) : cum[k] = cum[k - 1] + q[k]
  /\ \A j, k \in 0 .. Len(q) : j <= k => cum[j] <= cum[k]

SumsTo(q, total) == \E cum : Totals(q, cum) /\ total = cum[Len(q)]

LEMMA SumOfNone == SumsTo(<<>>, 0)
<1> DEFINE cum == [k \in 0 .. 0 |-> 0]
<1>1. Totals(<<>>, cum) /\ cum[Len(<<>>)] = 0
  BY DEF Totals
<1> HIDE DEF cum
<1> QED BY <1>1 DEF SumsTo

LEMMA SumIsNatural ==
  ASSUME NEW q \in Seq(Nat), NEW total, SumsTo(q, total)
  PROVE  total \in Nat
BY DEF SumsTo, Totals

\* A cell more adds what it says.
LEMMA SumAppended ==
  ASSUME NEW q \in Seq(Nat), NEW total, SumsTo(q, total), NEW x \in Nat
  PROVE  SumsTo(Append(q, x), total + x)
<1>1. PICK cum : Totals(q, cum) /\ total = cum[Len(q)]
  BY DEF SumsTo
<1> DEFINE n == Len(q)
           r == Append(q, x)
           new == [k \in 0 .. n + 1 |-> IF k = n + 1 THEN total + x ELSE cum[k]]
<1>2. n \in Nat /\ Len(r) = n + 1 /\ r[n + 1] = x /\ \A k \in 1 .. n : r[k] = q[k]
  OBVIOUS
<1>3. /\ cum \in [0 .. n -> Nat] /\ cum[0] = 0 /\ total = cum[n]
      /\ \A k \in 1 .. n : cum[k] = cum[k - 1] + q[k]
      /\ \A j, k \in 0 .. n : j <= k => cum[j] <= cum[k]
  BY <1>1 DEF Totals
<1>4. \A k \in 1 .. n : q[k] \in Nat
  OBVIOUS
<1> HIDE DEF n, r
<1>5. total \in Nat
  BY <1>2, <1>3
<1>6. new \in [0 .. n + 1 -> Nat] /\ new[0] = 0 /\ new[n + 1] = total + x
  BY <1>2, <1>3, <1>5
<1>7. \A k \in 1 .. n + 1 : new[k] = new[k - 1] + r[k]
  <2> SUFFICES ASSUME NEW k \in 1 .. n + 1
               PROVE  new[k] = new[k - 1] + r[k]
    OBVIOUS
  <2>1. CASE k = n + 1
    BY <1>2, <1>3, <2>1
  <2>2. CASE k # n + 1
    <3>1. k \in 1 .. n /\ k - 1 \in 0 .. n
      BY <1>2, <2>2
    <3> QED BY <1>2, <1>3, <3>1
  <2> QED BY <2>1, <2>2
<1>8. \A j, k \in 0 .. n + 1 : j <= k => new[j] <= new[k]
  <2> SUFFICES ASSUME NEW j \in 0 .. n + 1, NEW k \in 0 .. n + 1, j <= k
               PROVE  new[j] <= new[k]
    OBVIOUS
  <2>1. CASE k # n + 1
    <3>1. j \in 0 .. n /\ k \in 0 .. n
      BY <1>2, <2>1
    <3> QED BY <1>2, <1>3, <3>1
  <2>2. CASE k = n + 1 /\ j # n + 1
    <3>1. j \in 0 .. n /\ n \in 0 .. n /\ j <= n
      BY <1>2, <2>2
    <3>2. cum[j] <= total /\ cum[j] \in Nat
      BY <1>3, <3>1
    <3> QED BY <1>2, <1>5, <2>2, <3>1, <3>2
  <2>3. CASE k = n + 1 /\ j = n + 1
    BY <1>2, <1>5, <2>3
  <2> QED BY <2>1, <2>2, <2>3
<1> HIDE DEF new
<1>9. Totals(r, new)
  BY <1>2, <1>6, <1>7, <1>8 DEF Totals
<1> QED BY <1>2, <1>6, <1>9 DEF SumsTo, r

\* A cell less takes away what it said.
LEMMA SumOfTail ==
  ASSUME NEW q \in Seq(Nat), q # <<>>, NEW total, SumsTo(q, total)
  PROVE  /\ Head(q) \in Nat /\ total \in Nat /\ Head(q) <= total
         /\ SumsTo(Tail(q), total - Head(q))
<1>1. PICK cum : Totals(q, cum) /\ total = cum[Len(q)]
  BY DEF SumsTo
<1> DEFINE n == Len(q)
           r == Tail(q)
           x == Head(q)
           new == [k \in 0 .. n - 1 |-> cum[k + 1] - x]
<1>2. /\ n \in Nat \ {0} /\ Len(r) = n - 1 /\ x = q[1] /\ x \in Nat
      /\ \A k \in 1 .. n - 1 : r[k] = q[k + 1]
  OBVIOUS
<1>3. /\ cum \in [0 .. n -> Nat] /\ cum[0] = 0 /\ total = cum[n]
      /\ \A k \in 1 .. n : cum[k] = cum[k - 1] + q[k]
      /\ \A j, k \in 0 .. n : j <= k => cum[j] <= cum[k]
  BY <1>1 DEF Totals
<1>4. \A k \in 1 .. n : q[k] \in Nat
  OBVIOUS
<1> HIDE DEF n, r, x
<1>5. cum[1] = x
  BY <1>2, <1>3
<1>6. \A k \in 0 .. n - 1 : k + 1 \in 0 .. n /\ cum[k + 1] \in Nat /\ x <= cum[k + 1]
  <2> SUFFICES ASSUME NEW k \in 0 .. n - 1
               PROVE  k + 1 \in 0 .. n /\ cum[k + 1] \in Nat /\ x <= cum[k + 1]
    OBVIOUS
  <2>1. k + 1 \in 0 .. n /\ 1 \in 0 .. n /\ 1 <= k + 1
    BY <1>2
  <2> QED BY <1>3, <1>5, <2>1
<1>7. n - 1 \in 0 .. n - 1 /\ 0 \in 0 .. n - 1 /\ (n - 1) + 1 = n
  BY <1>2
<1>8. x <= total /\ total \in Nat
  BY <1>3, <1>6, <1>7
<1>9. new \in [0 .. n - 1 -> Nat] /\ new[0] = 0 /\ new[n - 1] = total - x
  BY <1>2, <1>3, <1>5, <1>6, <1>7
<1>10. \A k \in 1 .. n - 1 : new[k] = new[k - 1] + r[k]
  <2> SUFFICES ASSUME NEW k \in 1 .. n - 1
               PROVE  new[k] = new[k - 1] + r[k]
    OBVIOUS
  <2>1. k + 1 \in 1 .. n /\ k - 1 \in 0 .. n - 1 /\ k \in 0 .. n - 1 /\ (k - 1) + 1 = k
        /\ (k + 1) - 1 = k /\ k \in 0 .. n
    BY <1>2
  <2>2. cum[k + 1] = cum[k] + q[k + 1] /\ cum[k] \in Nat /\ q[k + 1] \in Nat
    BY <1>3, <1>4, <2>1
  <2>3. new[k] = cum[k + 1] - x /\ new[k - 1] = cum[k] - x
    BY <2>1
  <2> QED BY <1>2, <2>2, <2>3
<1>11. \A j, k \in 0 .. n - 1 : j <= k => new[j] <= new[k]
  <2> SUFFICES ASSUME NEW j \in 0 .. n - 1, NEW k \in 0 .. n - 1, j <= k
               PROVE  new[j] <= new[k]
    OBVIOUS
  <2>1. j + 1 <= k + 1
    BY <1>2
  <2>2. cum[j + 1] <= cum[k + 1]
    BY <1>3, <1>6, <2>1
  <2> QED BY <1>2, <1>6, <2>2
<1> HIDE DEF new
<1>12. Totals(r, new)
  BY <1>2, <1>9, <1>10, <1>11 DEF Totals
<1> QED BY <1>2, <1>8, <1>9, <1>12 DEF SumsTo, r, x

-----------------------------------------------------------------------------
(* Types.                                                                  *)

Doing == [does : {"select", "write", "deliver", "ended"}, left : Nat, of : Nat]
Frame == [has : Nat, length : Nat]

Sound(p) ==
  /\ p.does \in {"write", "deliver"} => p.left > 0
  /\ p.does = "write" => p.left <= p.of + 1

\* A pump that writes or delivers has something left; a frame that has begun
\* is of some units.
Types ==
  /\ turn \in Nat \ {0} /\ said \in Nat /\ heard \in Nat
  /\ outbox \in [Side -> Nat] /\ inbox \in [Side -> Nat]
  /\ wire \in [Side -> Seq(Nat)]
  /\ pump \in [Side -> Doing]
  /\ frame \in [Side -> Frame]
  /\ \A s \in Side : Sound(pump[s])
  /\ \A s \in Side : frame[s].has > 0 => frame[s].length > 0

LEMMA Sides ==
  ASSUME NEW s \in Side
  PROVE  /\ Peer(s) \in Side /\ Peer(s) # s /\ Peer(Peer(s)) = s
         /\ \A x \in Side : x = s \/ x = Peer(s)
BY DEF Side, Peer

\* A pump that turns to something else.
LEMMA DoesType ==
  ASSUME Types, NEW s \in Side, NEW does \in {"select", "write", "deliver", "ended"},
         NEW left \in Nat, NEW of \in Nat, Does(s, does, left, of),
         does \in {"write", "deliver"} => left > 0, does = "write" => left <= of + 1
  PROVE  /\ pump' \in [Side -> Doing]
         /\ pump'[s] = [does |-> does, left |-> left, of |-> of]
         /\ pump'[Peer(s)] = pump[Peer(s)]
         /\ \A x \in Side : Sound(pump'[x])
<1> DEFINE new == [does |-> does, left |-> left, of |-> of]
<1>1. new \in Doing /\ Sound(new)
  BY DEF Doing, Sound
<1>2. pump \in [Side -> Doing] /\ pump' = [pump EXCEPT ![s] = new]
  BY DEF Types, Does
<1> HIDE DEF new
<1>3. /\ pump' \in [Side -> Doing] /\ pump'[s] = new
      /\ \A x \in Side : x # s => pump'[x] = pump[x]
  BY <1>1, <1>2
<1>4. \A x \in Side : Sound(pump'[x])
  <2> TAKE x \in Side
  <2>1. CASE x = s
    BY <1>1, <1>3, <2>1
  <2>2. CASE x # s
    BY <1>3, <2>2 DEF Types
  <2> QED BY <2>1, <2>2
<1> QED BY <1>3, <1>4, Sides DEF new

LEMMA TypesAtFirst == Init => Types
BY DEF Init, Types, Selecting, Fresh, Doing, Frame, Sound

LEMMA TypesStay ==
  ASSUME Types, [Next]_vars
  PROVE  Types'
<1> USE PumpAssumption
<1>1. ASSUME NEW s \in Side, Speaks(s)
      PROVE  Types'
  <2>1. outbox \in [Side -> Nat] /\ outbox' = [outbox EXCEPT ![s] = @ + 1] /\ said' \in Nat
    BY <1>1 DEF Speaks, Types
  <2>2. outbox' \in [Side -> Nat]
    BY <2>1
  <2> QED BY <1>1, <2>1, <2>2 DEF Speaks, Types
<1>2. ASSUME NEW s \in Side, Hears(s)
      PROVE  Types'
  <2>1. inbox \in [Side -> Nat] /\ inbox[s] > 0 /\ inbox' = [inbox EXCEPT ![s] = @ - 1]
    BY <1>2 DEF Hears, Types
  <2>2. inbox' \in [Side -> Nat]
    BY <2>1
  <2>3. turn' \in Nat \ {0} /\ said' \in Nat /\ heard' \in Nat
    <3>1. \/ turn' = turn + 1 /\ said' = 0 /\ heard' = 0
          \/ heard' = heard + 1 /\ turn' = turn /\ said' = said
      BY <1>2 DEF Hears
    <3>2. turn \in Nat \ {0} /\ said \in Nat /\ heard \in Nat
      BY DEF Types
    <3> QED BY <3>1, <3>2
  <2> QED BY <1>2, <2>2, <2>3 DEF Hears, Types
<1>3. ASSUME NEW s \in Side, TakesPlain(s)
      PROVE  Types'
  <2> DEFINE units == IF outbox[s] < MaxPayload THEN outbox[s] ELSE MaxPayload
  <2>1. units \in Nat /\ units + 1 \in Nat /\ units <= outbox[s] /\ units + 1 > 0 /\ units + 1 <= units + 1
        /\ outbox[s] \in Nat /\ outbox \in [Side -> Nat]
    BY <1>3 DEF TakesPlain, Types
  <2>2. outbox' = [outbox EXCEPT ![s] = @ - units] /\ Does(s, "write", units + 1, units)
    BY <1>3 DEF TakesPlain
  <2> HIDE DEF units
  <2>3. outbox' \in [Side -> Nat]
    BY <2>1, <2>2
  <2>4. /\ pump' \in [Side -> Doing]
        /\ \A x \in Side : Sound(pump'[x])
    BY <2>1, <2>2, DoesType
  <2>5. frame' \in [Side -> Frame] /\ \A x \in Side : frame'[x].has > 0 => frame'[x].length > 0
    BY <1>3 DEF TakesPlain, Types, Fresh, Frame
  <2> QED BY <1>3, <2>3, <2>4, <2>5 DEF TakesPlain, Types, apps
<1>4. ASSUME NEW s \in Side, WritesWire(s)
      PROVE  Types'
  <2>1. pump[s] \in Doing /\ pump[s].left > 0 /\ pump[s].left <= pump[s].of + 1
    BY <1>4 DEF WritesWire, Types, Sound
  <2>2. pump[s].left \in Nat /\ pump[s].of \in Nat
    BY <2>1 DEF Doing
  <2>3. /\ pump' \in [Side -> Doing]
        /\ \A x \in Side : Sound(pump'[x])
    <3>1. CASE pump[s].left = 1
      BY <1>4, <3>1, DoesType DEF WritesWire
    <3>2. CASE pump[s].left # 1
      <4>1. /\ pump[s].left - 1 \in Nat /\ pump[s].left - 1 > 0
            /\ pump[s].left - 1 <= pump[s].of + 1
        BY <2>1, <2>2, <3>2
      <4> QED BY <1>4, <2>2, <3>2, <4>1, DoesType DEF WritesWire
    <3> QED BY <3>1, <3>2
  <2>4. wire' \in [Side -> Seq(Nat)]
    <3> DEFINE cell == IF pump[s].left > pump[s].of THEN pump[s].of ELSE 0
    <3>1. cell \in Nat /\ wire \in [Side -> Seq(Nat)] /\ wire' = [wire EXCEPT ![s] = Append(@, cell)]
      BY <1>4, <2>2 DEF WritesWire, Types
    <3> HIDE DEF cell
    <3>2. Append(wire[s], cell) \in Seq(Nat)
      BY <3>1
    <3> QED BY <3>1, <3>2
  <2> QED BY <1>4, <2>3, <2>4 DEF WritesWire, Types, apps
<1>5. ASSUME NEW s \in Side, ReadsWire(s)
      PROVE  Types'
  <2> DEFINE cell == Head(wire[Peer(s)])
             first == frame[s].has = 0
             length == IF first THEN cell ELSE frame[s].length
  <2>1. /\ wire \in [Side -> Seq(Nat)] /\ Peer(s) \in Side /\ wire[Peer(s)] # <<>>
        /\ wire[Peer(s)] \in Seq(Nat) /\ wire' = [wire EXCEPT ![Peer(s)] = Tail(@)]
        /\ UNCHANGED <<apps, outbox, inbox, torn, faults>>
    BY <1>5, Sides DEF ReadsWire, Types
  <2>2. cell \in Nat /\ Tail(wire[Peer(s)]) \in Seq(Nat)
    BY <2>1
  <2>3. wire' \in [Side -> Seq(Nat)]
    BY <2>1, <2>2
  <2>4. frame[s].has \in Nat /\ frame[s].length \in Nat /\ length \in Nat
        /\ frame \in [Side -> Frame] /\ frame[s] \in Frame
    BY <2>2 DEF Types, Frame
  <2>5. /\ pump' \in [Side -> Doing] /\ frame' \in [Side -> Frame]
        /\ \A x \in Side : Sound(pump'[x])
        /\ \A x \in Side : frame'[x].has > 0 => frame'[x].length > 0
    <3>1. CASE first = (cell = 0)
      <4>1. Does(s, "ended", 0, 0) /\ UNCHANGED frame
        BY <1>5, <3>1 DEF ReadsWire
      <4> QED BY <4>1, DoesType DEF Types
    <3>2. CASE first # (cell = 0) /\ frame[s].has = length /\ ~first
      <4>1. Does(s, "deliver", length, length) /\ frame' = [frame EXCEPT ![s] = Fresh]
        BY <1>5, <3>2 DEF ReadsWire
      <4>2. length > 0
        BY <2>4, <3>2
      <4> HIDE DEF length, first, cell
      <4>3. Fresh \in Frame /\ Fresh.has = 0
        BY DEF Fresh, Frame
      <4>4. frame' \in [Side -> Frame] /\ \A x \in Side : frame'[x].has > 0 => frame'[x].length > 0
        BY <2>4, <4>1, <4>3 DEF Types
      <4>5. /\ pump' \in [Side -> Doing]
            /\ \A x \in Side : Sound(pump'[x])
        BY <2>4, <4>1, <4>2, DoesType
      <4> QED BY <4>4, <4>5
    <3>3. CASE first # (cell = 0) /\ ~(frame[s].has = length /\ ~first)
      <4> DEFINE new == [has |-> frame[s].has + 1, length |-> length]
      <4>1. frame' = [frame EXCEPT ![s] = new] /\ UNCHANGED pump
        BY <1>5, <3>3 DEF ReadsWire
      <4>2. length > 0
        BY <2>2, <2>4, <3>3 DEF Types
      <4> HIDE DEF length, first, cell
      <4>3. new \in Frame /\ new.length > 0
        BY <2>4, <4>2 DEF Frame
      <4> HIDE DEF new
      <4>4. frame' \in [Side -> Frame] /\ \A x \in Side : frame'[x].has > 0 => frame'[x].length > 0
        BY <2>4, <4>1, <4>3 DEF Types
      <4> QED BY <4>1, <4>4 DEF Types
    <3> QED BY <3>1, <3>2, <3>3
  <2> QED BY <2>1, <2>3, <2>5 DEF Types, apps
<1>6. ASSUME NEW s \in Side, Delivers(s)
      PROVE  Types'
  <2>1. pump[s] \in Doing /\ pump[s].left > 0
    BY <1>6 DEF Delivers, Types, Sound
  <2>2. pump[s].left \in Nat /\ pump[s].of \in Nat
    BY <2>1 DEF Doing
  <2>3. /\ pump' \in [Side -> Doing]
        /\ \A x \in Side : Sound(pump'[x])
    <3>1. CASE pump[s].left = 1
      BY <1>6, <3>1, DoesType DEF Delivers
    <3>2. CASE pump[s].left # 1
      <4>1. pump[s].left - 1 \in Nat /\ pump[s].left - 1 > 0
        BY <2>1, <2>2, <3>2
      <4> QED BY <1>6, <2>2, <3>2, <4>1, DoesType DEF Delivers
    <3> QED BY <3>1, <3>2
  <2>4. inbox' \in [Side -> Nat]
    BY <1>6 DEF Delivers, Types
  <2> QED BY <1>6, <2>3, <2>4 DEF Delivers, Types, apps
<1>7. ASSUME NEW s \in Side, Does(s, "ended", 0, 0),
             UNCHANGED <<apps, outbox, inbox, wire, frame>>
      PROVE  Types'
  <2>1. /\ pump' \in [Side -> Doing]
        /\ \A x \in Side : Sound(pump'[x])
    BY <1>7, DoesType
  <2> QED BY <1>7, <2>1 DEF Types, apps
<1>8. ASSUME NEW s \in Side, WriteFails(s) \/ Shuts(s) \/ ReadsEof(s) \/ Dies(s)
      PROVE  Types'
  BY <1>7, <1>8 DEF WriteFails, Shuts, ReadsEof, Dies
<1>9. CASE UNCHANGED vars
  BY <1>9 DEF Types, vars, apps
<1> QED BY <1>1, <1>2, <1>3, <1>4, <1>5, <1>6, <1>8, <1>9 DEF Next, PumpStep, Ended

-----------------------------------------------------------------------------
(* Counting.                                                               *)

\* Units a pump has taken and not yet announced; the units of the frame a
\* reader has begun; those it has still to deliver.
Unsent(x) == IF pump[x].does = "write" /\ pump[x].left > pump[x].of THEN pump[x].of ELSE 0
Begun(x) == IF frame[x].has > 0 THEN frame[x].length ELSE 0
Undelivered(x) == IF pump[x].does = "deliver" THEN pump[x].left ELSE 0

Sending(x, total) == outbox[x] + Unsent(x) + total
Receiving(x) == Begun(x) + Undelivered(x) + inbox[x]

\* What is on its way from a side to its peer, when its wire sums to `total`.
OnItsWay(x, total) == Sending(x, total) + Receiving(Peer(x))

Speaking(x) == ~Over /\ Script[turn].by = x

Counted(x) ==
  \E total :
    /\ SumsTo(wire[x], total)
    /\ IF Speaking(x) THEN heard + OnItsWay(x, total) <= said ELSE OnItsWay(x, total) = 0

\* The inductive invariant.
Whole ==
  /\ Types
  /\ ~Over => said <= Script[turn].units
  /\ \A x \in Side : Counted(x)
  /\ torn = {}

LEMMA CountsAreNatural ==
  ASSUME Types, NEW x \in Side
  PROVE  /\ outbox[x] \in Nat /\ inbox[x] \in Nat
         /\ Unsent(x) \in Nat /\ Begun(x) \in Nat /\ Undelivered(x) \in Nat
         /\ Receiving(x) \in Nat
<1>1. outbox[x] \in Nat /\ inbox[x] \in Nat /\ pump[x] \in Doing /\ frame[x] \in Frame
  BY DEF Types
<1>2. Unsent(x) \in Nat /\ Begun(x) \in Nat /\ Undelivered(x) \in Nat
  BY <1>1 DEF Unsent, Begun, Undelivered, Doing, Frame
<1> QED BY <1>1, <1>2 DEF Receiving

\* A step in which nobody speaks or hears, and nothing is added.
LEMMA NothingAdded ==
  ASSUME Types, Types', UNCHANGED apps, NEW x \in Side, Counted(x),
         \A total \in Nat : SumsTo(wire[x], total) =>
           \E new \in Nat : /\ SumsTo(wire'[x], new)
                            /\ OnItsWay(x, new)' <= OnItsWay(x, total)
  PROVE  Counted(x)'
<1>1. PICK total :
        /\ SumsTo(wire[x], total)
        /\ IF Speaking(x) THEN heard + OnItsWay(x, total) <= said ELSE OnItsWay(x, total) = 0
  BY DEF Counted
<1>2. total \in Nat
  <2>1. wire[x] \in Seq(Nat)
    BY DEF Types
  <2> QED BY <1>1, <2>1, SumIsNatural
<1>3. PICK new \in Nat : SumsTo(wire'[x], new) /\ OnItsWay(x, new)' <= OnItsWay(x, total)
  BY <1>1, <1>2
<1>4. OnItsWay(x, total) \in Nat
  BY <1>2, CountsAreNatural, Sides DEF OnItsWay, Sending
<1>5. OnItsWay(x, new)' \in Nat
  <2>1. /\ outbox'[x] \in Nat /\ Unsent(x)' \in Nat /\ Receiving(Peer(x))' \in Nat
    <3>1. ASSUME NEW y \in Side
          PROVE  /\ outbox'[y] \in Nat /\ inbox'[y] \in Nat
                 /\ Unsent(y)' \in Nat /\ Begun(y)' \in Nat /\ Undelivered(y)' \in Nat
      <4>1. outbox'[y] \in Nat /\ inbox'[y] \in Nat /\ pump'[y] \in Doing /\ frame'[y] \in Frame
        BY DEF Types
      <4> QED BY <4>1 DEF Unsent, Begun, Undelivered, Doing, Frame
    <3> QED BY <3>1, Sides DEF Receiving
  <2> QED BY <2>1 DEF OnItsWay, Sending
<1>6. Speaking(x)' = Speaking(x) /\ heard' = heard /\ said' = said
  BY DEF Speaking, Over, apps
<1>7. heard \in Nat /\ said \in Nat
  BY DEF Types
<1>8. IF Speaking(x) THEN heard + OnItsWay(x, new)' <= said ELSE OnItsWay(x, new)' = 0
  <2> DEFINE now == OnItsWay(x, new)'
             before == OnItsWay(x, total)
  <2>1. now \in Nat /\ before \in Nat /\ now <= before
    BY <1>3, <1>4, <1>5
  <2>2. IF Speaking(x) THEN heard + before <= said ELSE before = 0
    BY <1>1
  <2> HIDE DEF now, before
  <2>3. IF Speaking(x) THEN heard + now <= said ELSE now = 0
    BY <1>7, <2>1, <2>2
  <2> QED BY <2>3 DEF now
<1> QED BY <1>3, <1>6, <1>8 DEF Counted

\* What one side's pump does is seen from its own end of both directions.
LEMMA OneEnd ==
  ASSUME Types, Types', UNCHANGED apps, NEW s \in Side,
         \A x \in Side : Counted(x),
         outbox'[Peer(s)] = outbox[Peer(s)], inbox'[Peer(s)] = inbox[Peer(s)],
         pump'[Peer(s)] = pump[Peer(s)], frame'[Peer(s)] = frame[Peer(s)],
         \A total \in Nat : SumsTo(wire[s], total) =>
           \E new \in Nat : SumsTo(wire'[s], new) /\ Sending(s, new)' <= Sending(s, total),
         \A total \in Nat : SumsTo(wire[Peer(s)], total) =>
           \E new \in Nat : /\ SumsTo(wire'[Peer(s)], new)
                            /\ new + Receiving(s)' <= total + Receiving(s)
  PROVE  \A x \in Side : Counted(x)'
<1> DEFINE p == Peer(s)
<1>1. p \in Side /\ Peer(p) = s /\ \A x \in Side : x = s \/ x = p
  BY Sides
<1>2. /\ Receiving(p)' = Receiving(p) /\ Unsent(p)' = Unsent(p)
  BY DEF Receiving, Begun, Undelivered, Unsent
<1>3. /\ Receiving(p) \in Nat /\ Unsent(p) \in Nat /\ outbox[p] \in Nat
      /\ Receiving(s) \in Nat /\ outbox[s] \in Nat /\ Unsent(s) \in Nat
  BY <1>1, CountsAreNatural
<1>4. outbox'[s] \in Nat /\ Unsent(s)' \in Nat /\ Receiving(s)' \in Nat
  <2>1. outbox'[s] \in Nat /\ inbox'[s] \in Nat /\ pump'[s] \in Doing /\ frame'[s] \in Frame
    BY DEF Types
  <2>2. Unsent(s)' \in Nat /\ Begun(s)' \in Nat /\ Undelivered(s)' \in Nat
    BY <2>1 DEF Unsent, Begun, Undelivered, Doing, Frame
  <2> QED BY <2>1, <2>2 DEF Receiving
<1>5. outbox'[p] = outbox[p]
  OBVIOUS
<1> HIDE DEF p
<1>6. Counted(s)'
  <2>1. ASSUME NEW total \in Nat, SumsTo(wire[s], total)
        PROVE  \E new \in Nat : SumsTo(wire'[s], new) /\ OnItsWay(s, new)' <= OnItsWay(s, total)
    <3>1. PICK new \in Nat : SumsTo(wire'[s], new) /\ Sending(s, new)' <= Sending(s, total)
      BY <2>1
    <3>2. Sending(s, new)' \in Nat /\ Sending(s, total) \in Nat
      BY <1>3, <1>4 DEF Sending
    <3>3. OnItsWay(s, new)' = Sending(s, new)' + Receiving(p)'
          /\ OnItsWay(s, total) = Sending(s, total) + Receiving(p)
      BY DEF OnItsWay, p
    <3>4. OnItsWay(s, new)' <= OnItsWay(s, total)
      BY <1>2, <1>3, <3>1, <3>2, <3>3
    <3> QED BY <3>1, <3>4
  <2> QED BY <2>1, NothingAdded
<1>7. Counted(p)'
  <2>1. ASSUME NEW total \in Nat, SumsTo(wire[p], total)
        PROVE  \E new \in Nat : SumsTo(wire'[p], new) /\ OnItsWay(p, new)' <= OnItsWay(p, total)
    <3>1. PICK new \in Nat : /\ SumsTo(wire'[p], new)
                             /\ new + Receiving(s)' <= total + Receiving(s)
      BY <2>1 DEF p
    <3>2. OnItsWay(p, new)' = outbox[p] + Unsent(p) + new + Receiving(s)'
          /\ OnItsWay(p, total) = outbox[p] + Unsent(p) + total + Receiving(s)
      BY <1>1, <1>2, <1>5 DEF OnItsWay, Sending
    <3>3. OnItsWay(p, new)' <= OnItsWay(p, total)
      BY <1>3, <1>4, <3>1, <3>2
    <3> QED BY <3>1, <3>3
  <2> QED BY <1>1, <2>1, NothingAdded
<1> QED BY <1>1, <1>6, <1>7

\* A side that has plaintext in its pump's hands has no frame begun: the turn
\* would be its own and its peer's.
LEMMA NotBoth ==
  ASSUME Whole, NEW s \in Side, outbox[s] > 0
  PROVE  frame[s].has = 0
<1> SUFFICES ASSUME frame[s].has # 0
             PROVE  FALSE
  OBVIOUS
<1>1. Peer(s) \in Side /\ Peer(Peer(s)) = s /\ Peer(s) # s
  BY Sides
<1>2. Types
  BY DEF Whole
<1>3. frame[s].has > 0 /\ frame[s].length > 0
  <2>1. frame[s].has \in Nat
    BY <1>2 DEF Types, Frame
  <2> QED BY <1>2, <2>1 DEF Types
<1>4. ASSUME NEW x \in Side, NEW total, SumsTo(wire[x], total)
      PROVE  total \in Nat
  BY <1>2, <1>4, SumIsNatural DEF Types
<1>5. Speaking(s)
  <2>1. PICK total : SumsTo(wire[s], total) /\ (~Speaking(s) => OnItsWay(s, total) = 0)
    BY DEF Whole, Counted
  <2>2. total \in Nat /\ outbox[s] \in Nat /\ Unsent(s) \in Nat /\ Receiving(Peer(s)) \in Nat
    BY <1>1, <1>2, <1>4, <2>1, CountsAreNatural
  <2> QED BY <2>1, <2>2 DEF OnItsWay, Sending
<1>6. Speaking(Peer(s))
  <2>1. PICK total : /\ SumsTo(wire[Peer(s)], total)
                     /\ ~Speaking(Peer(s)) => OnItsWay(Peer(s), total) = 0
    BY <1>1 DEF Whole, Counted
  <2>2. /\ total \in Nat /\ outbox[Peer(s)] \in Nat /\ Unsent(Peer(s)) \in Nat
        /\ Begun(s) \in Nat /\ Undelivered(s) \in Nat /\ inbox[s] \in Nat
    BY <1>1, <1>2, <1>4, <2>1, CountsAreNatural
  <2>3. Begun(s) > 0
    BY <1>3 DEF Begun
  <2>4. OnItsWay(Peer(s), total) = outbox[Peer(s)] + Unsent(Peer(s)) + total
                                     + (Begun(s) + Undelivered(s) + inbox[s])
    BY <1>1 DEF OnItsWay, Sending, Receiving
  <2> QED BY <2>1, <2>2, <2>3, <2>4
<1> QED BY <1>1, <1>5, <1>6 DEF Speaking

-----------------------------------------------------------------------------
(* The steps.                                                              *)

\* The plaintext a pump takes is in its hands; the other branch's frame, had
\* there been one, is gone.
LEMMA TakingPlain ==
  ASSUME Whole, Types', NEW s \in Side, TakesPlain(s)
  PROVE  (\A x \in Side : Counted(x)') /\ torn' = {}
<1> DEFINE units == IF outbox[s] < MaxPayload THEN outbox[s] ELSE MaxPayload
<1>1. /\ Types /\ UNCHANGED apps /\ inbox' = inbox /\ wire' = wire
      /\ outbox[s] > 0 /\ pump[s].does = "select"
      /\ outbox' = [outbox EXCEPT ![s] = @ - units] /\ Does(s, "write", units + 1, units)
      /\ frame' = [frame EXCEPT ![s] = Fresh]
  BY DEF TakesPlain, AtSelect, Whole
<1>2. units \in Nat /\ units <= outbox[s] /\ outbox[s] \in Nat
  BY <1>1, PumpAssumption DEF Types
<1> HIDE DEF units
<1>3. /\ pump'[s] = [does |-> "write", left |-> units + 1, of |-> units]
      /\ pump'[Peer(s)] = pump[Peer(s)]
  BY <1>1, <1>2, DoesType
<1>4. outbox'[s] = outbox[s] - units /\ outbox'[Peer(s)] = outbox[Peer(s)]
  BY <1>1, Sides DEF Types
<1>5. frame'[s].has = 0 /\ frame'[Peer(s)] = frame[Peer(s)]
  BY <1>1, Sides DEF Types, Fresh
<1>6. Unsent(s)' = units /\ Unsent(s) = 0
  BY <1>1, <1>2, <1>3 DEF Unsent
<1>7. Receiving(s)' <= Receiving(s)
  <2>1. Begun(s)' = 0 /\ Undelivered(s)' = 0 /\ inbox'[s] = inbox[s]
    BY <1>1, <1>3, <1>5 DEF Begun, Undelivered
  <2>2. Begun(s) \in Nat /\ Undelivered(s) \in Nat /\ inbox[s] \in Nat
    BY <1>1, CountsAreNatural
  <2> QED BY <2>1, <2>2 DEF Receiving
<1>8. Receiving(s) \in Nat /\ Receiving(s)' \in Nat
  <2>1. Begun(s)' = 0 /\ Undelivered(s)' = 0 /\ inbox'[s] = inbox[s]
    BY <1>1, <1>3, <1>5 DEF Begun, Undelivered
  <2> QED BY <1>1, <2>1, CountsAreNatural DEF Receiving
<1>9. \A total \in Nat : Sending(s, total)' <= Sending(s, total)
  BY <1>2, <1>4, <1>6 DEF Sending
<1>10. \A total \in Nat : total + Receiving(s)' <= total + Receiving(s)
  BY <1>7, <1>8
<1>11. \A x \in Side : Counted(x)
  BY DEF Whole
<1>12. \A x \in Side : Counted(x)'
  BY <1>1, <1>3, <1>4, <1>5, <1>9, <1>10, <1>11, OneEnd
<1>13. torn' = {}
  BY <1>1, NotBoth DEF TakesPlain, Whole
<1> QED BY <1>12, <1>13

\* A length on the wire stands for the units that were unsent.
LEMMA WritingWire ==
  ASSUME Whole, Types', NEW s \in Side, WritesWire(s)
  PROVE  (\A x \in Side : Counted(x)') /\ torn' = {}
<1> DEFINE cell == IF pump[s].left > pump[s].of THEN pump[s].of ELSE 0
<1>1. /\ Types /\ UNCHANGED apps /\ inbox' = inbox /\ outbox' = outbox /\ frame' = frame
      /\ torn' = {} /\ pump[s].does = "write"
      /\ wire' = [wire EXCEPT ![s] = Append(@, cell)]
  BY DEF WritesWire, Whole
<1>2. /\ pump[s].left \in Nat /\ pump[s].of \in Nat
      /\ pump[s].left > 0 /\ pump[s].left <= pump[s].of + 1
  BY <1>1 DEF Types, Doing, Sound
<1>3. /\ pump'[s] = IF pump[s].left = 1 THEN [does |-> "select", left |-> 0, of |-> 0]
                    ELSE [does |-> "write", left |-> pump[s].left - 1, of |-> pump[s].of]
      /\ pump'[Peer(s)] = pump[Peer(s)]
  <2>1. CASE pump[s].left = 1
    BY <1>1, <2>1, DoesType DEF WritesWire
  <2>2. CASE pump[s].left # 1
    <3>1. pump[s].left - 1 \in Nat /\ pump[s].left - 1 > 0 /\ pump[s].left - 1 <= pump[s].of + 1
      BY <1>2, <2>2
    <3> QED BY <1>1, <1>2, <2>2, <3>1, DoesType DEF WritesWire
  <2> QED BY <2>1, <2>2
<1>4. Unsent(s) = cell
  BY <1>1 DEF Unsent
<1>5. Unsent(s)' = 0
  <2>1. CASE pump[s].left = 1
    BY <1>3, <2>1 DEF Unsent
  <2>2. CASE pump[s].left # 1
    <3>1. pump'[s].left = pump[s].left - 1 /\ pump'[s].of = pump[s].of
      BY <1>3, <2>2
    <3> QED BY <1>2, <3>1 DEF Unsent
  <2> QED BY <2>1, <2>2
<1>6. cell \in Nat /\ wire[s] \in Seq(Nat) /\ outbox[s] \in Nat
  BY <1>1, <1>2 DEF Types
<1> HIDE DEF cell
<1>7. wire'[s] = Append(wire[s], cell) /\ wire'[Peer(s)] = wire[Peer(s)]
  BY <1>1, Sides DEF Types
<1>8. ASSUME NEW total \in Nat, SumsTo(wire[s], total)
      PROVE  \E new \in Nat : SumsTo(wire'[s], new) /\ Sending(s, new)' <= Sending(s, total)
  <2>1. SumsTo(wire'[s], total + cell) /\ total + cell \in Nat
    BY <1>6, <1>7, <1>8, SumAppended
  <2>2. PICK new \in Nat : new = total + cell
    BY <2>1
  <2>3. Sending(s, new)' <= Sending(s, total)
    BY <1>1, <1>4, <1>5, <1>6, <2>2 DEF Sending
  <2> QED BY <2>1, <2>2, <2>3
<1>9. Receiving(s)' = Receiving(s) /\ Receiving(s) \in Nat
  <2>1. Undelivered(s) = 0
    BY <1>1 DEF Undelivered
  <2>2. Undelivered(s)' = 0
    <3>1. pump'[s].does # "deliver"
      BY <1>3
    <3> QED BY <3>1 DEF Undelivered
  <2>3. Begun(s)' = Begun(s) /\ inbox'[s] = inbox[s]
    BY <1>1 DEF Begun
  <2> QED BY <1>1, <2>1, <2>2, <2>3, CountsAreNatural DEF Receiving
<1>10. \A total \in Nat : total + Receiving(s)' <= total + Receiving(s)
  BY <1>9
<1>11. \A x \in Side : Counted(x)
  BY DEF Whole
<1>12. \A x \in Side : Counted(x)'
  BY <1>1, <1>3, <1>7, <1>8, <1>10, <1>11, OneEnd
<1> QED BY <1>1, <1>12

\* A length read is a frame begun; a frame read whole is delivered.
LEMMA ReadingWire ==
  ASSUME Whole, Types', NEW s \in Side, ReadsWire(s)
  PROVE  (\A x \in Side : Counted(x)') /\ torn' = {}
<1> DEFINE q == wire[Peer(s)]
           cell == Head(q)
           first == frame[s].has = 0
           length == IF first THEN cell ELSE frame[s].length
<1>1. /\ Types /\ UNCHANGED apps /\ inbox' = inbox /\ outbox' = outbox
      /\ torn' = {} /\ pump[s].does = "select" /\ q # <<>>
      /\ wire' = [wire EXCEPT ![Peer(s)] = Tail(@)]
  BY DEF ReadsWire, AtSelect, Whole
<1>2. /\ Peer(s) \in Side /\ Peer(s) # s /\ q \in Seq(Nat)
      /\ wire'[Peer(s)] = Tail(q) /\ wire'[s] = wire[s]
  BY <1>1, Sides DEF Types
<1>3. cell \in Nat /\ frame[s].has \in Nat /\ frame[s].length \in Nat
  <2>1. frame[s] \in Frame
    BY <1>1 DEF Types
  <2> QED BY <1>1, <1>2, <2>1 DEF Frame
<1>4. Undelivered(s) = 0 /\ Begun(s) = IF first THEN 0 ELSE frame[s].length
  BY <1>1, <1>3 DEF Undelivered, Begun
<1>5. /\ pump'[Peer(s)] = pump[Peer(s)] /\ frame'[Peer(s)] = frame[Peer(s)]
      /\ Unsent(s)' = 0 /\ Begun(s)' + Undelivered(s)' <= Begun(s) + cell
      /\ Begun(s)' \in Nat /\ Undelivered(s)' \in Nat
  <2>1. CASE first = (cell = 0)
    <3>1. Does(s, "ended", 0, 0) /\ UNCHANGED frame
      BY <2>1 DEF ReadsWire
    <3>2. pump'[s].does = "ended" /\ pump'[Peer(s)] = pump[Peer(s)]
      <4>1. Types /\ 0 \in Nat
        BY <1>1
      <4> HIDE DEF cell, length, first, q
      <4>2. pump'[s] = [does |-> "ended", left |-> 0, of |-> 0] /\ pump'[Peer(s)] = pump[Peer(s)]
        BY <3>1, <4>1, DoesType
      <4> QED BY <4>2
    <3>3. Begun(s)' = Begun(s) /\ Undelivered(s)' = 0 /\ Unsent(s)' = 0
      BY <3>1, <3>2 DEF Begun, Undelivered, Unsent
    <3>4. Begun(s) \in Nat
      BY <1>1, CountsAreNatural
    <3> HIDE DEF cell
    <3> QED BY <1>3, <3>1, <3>2, <3>3, <3>4
  <2>2. CASE first # (cell = 0) /\ frame[s].has = length /\ ~first
    <3>1. Does(s, "deliver", length, length) /\ frame' = [frame EXCEPT ![s] = Fresh]
      BY <2>2 DEF ReadsWire
    <3>2. length = frame[s].length /\ length \in Nat /\ length > 0
      BY <1>3, <2>2
    <3>3. Begun(s) = length
      BY <1>4, <2>2
    <3> HIDE DEF length, cell
    <3>4. pump'[s] = [does |-> "deliver", left |-> length, of |-> length]
          /\ pump'[Peer(s)] = pump[Peer(s)]
      BY <1>1, <3>1, <3>2, DoesType
    <3>5. frame'[s].has = 0 /\ frame'[Peer(s)] = frame[Peer(s)]
      BY <1>1, <1>2, <3>1 DEF Types, Fresh
    <3>6. Begun(s)' = 0 /\ Undelivered(s)' = length /\ Unsent(s)' = 0
      BY <3>4, <3>5 DEF Begun, Undelivered, Unsent
    <3> QED BY <1>3, <3>2, <3>3, <3>4, <3>5, <3>6
  <2>3. CASE first # (cell = 0) /\ ~(frame[s].has = length /\ ~first)
    <3> DEFINE new == [has |-> frame[s].has + 1, length |-> length]
    <3>1. frame' = [frame EXCEPT ![s] = new] /\ UNCHANGED pump
      BY <2>3 DEF ReadsWire
    <3>2. length \in Nat /\ length <= Begun(s) + cell
      BY <1>3, <1>4
    <3> HIDE DEF length, cell
    <3>3. new.has > 0 /\ new.length = length
      BY <1>3
    <3> HIDE DEF new
    <3>4. frame'[s] = new /\ frame'[Peer(s)] = frame[Peer(s)]
      BY <1>1, <1>2, <3>1 DEF Types
    <3>5. Begun(s)' = length /\ Undelivered(s)' = 0 /\ Unsent(s)' = 0
      BY <1>1, <3>1, <3>3, <3>4 DEF Begun, Undelivered, Unsent
    <3> QED BY <3>1, <3>2, <3>4, <3>5
  <2> QED BY <2>1, <2>2, <2>3
<1> HIDE DEF cell, q, first, length
<1>6. ASSUME NEW total \in Nat, SumsTo(q, total)
      PROVE  \E new \in Nat : SumsTo(wire'[Peer(s)], new)
                                /\ new + Receiving(s)' <= total + Receiving(s)
  <2>1. cell <= total /\ SumsTo(Tail(q), total - cell)
    BY <1>1, <1>2, <1>6, SumOfTail DEF cell
  <2>2. inbox'[s] = inbox[s] /\ inbox[s] \in Nat /\ Begun(s) \in Nat
    BY <1>1, CountsAreNatural
  <2>3. total - cell \in Nat
    BY <1>3, <2>1
  <2>4. (total - cell) + Receiving(s)' <= total + Receiving(s)
    BY <1>3, <1>4, <1>5, <2>1, <2>2 DEF Receiving
  <2> QED BY <1>2, <2>1, <2>3, <2>4
<1>7. \A total \in Nat : Sending(s, total)' <= Sending(s, total)
  <2>1. Unsent(s) = 0
    BY <1>1 DEF Unsent
  <2>2. outbox[s] \in Nat
    BY <1>1 DEF Types
  <2> QED BY <1>1, <1>5, <2>1, <2>2 DEF Sending
<1>8. \A x \in Side : Counted(x)
  BY DEF Whole
<1>9. \A x \in Side : Counted(x)'
  BY <1>1, <1>2, <1>5, <1>6, <1>7, <1>8, OneEnd DEF q
<1> QED BY <1>1, <1>9

\* A turn has units, and they can be counted.
LEMMA TurnsHaveUnits ==
  ASSUME NEW t \in Nat \ {0}, ~ (t > Len(Script))
  PROVE  Script[t].units \in Nat /\ 0 <= Script[t].units
<1>1. \A S : \A q \in Seq(S) : \A k \in Nat \ {0} : ~ (k > Len(q)) => q[k] \in S
  OBVIOUS
<1> DEFINE T == [by : Side, units : Nat \ {0}]
<1>2. Script \in Seq(T)
  BY PumpAssumption
<1> HIDE DEF T
<1>4. Script[t] \in T
  BY <1>1, <1>2
<1>3. Script[t].units \in Nat \ {0}
  BY <1>4 DEF T
<1> QED BY <1>3

LEMMA Delivering ==
  ASSUME Whole, Types', NEW s \in Side, Delivers(s)
  PROVE  (\A x \in Side : Counted(x)') /\ torn' = {}
<1>1. /\ Types /\ UNCHANGED apps /\ wire' = wire /\ outbox' = outbox /\ frame' = frame
      /\ torn' = {} /\ pump[s].does = "deliver"
      /\ inbox' = [inbox EXCEPT ![s] = @ + 1]
  BY DEF Delivers, Whole
<1>2. /\ pump[s].left \in Nat /\ pump[s].of \in Nat /\ pump[s].left > 0
  BY <1>1 DEF Types, Doing, Sound
<1>3. /\ pump'[s] = IF pump[s].left = 1 THEN [does |-> "select", left |-> 0, of |-> 0]
                    ELSE [does |-> "deliver", left |-> pump[s].left - 1, of |-> pump[s].of]
      /\ pump'[Peer(s)] = pump[Peer(s)]
  <2>1. CASE pump[s].left = 1
    BY <1>1, <2>1, DoesType DEF Delivers
  <2>2. CASE pump[s].left # 1
    <3>1. pump[s].left - 1 \in Nat /\ pump[s].left - 1 > 0
      BY <1>2, <2>2
    <3> QED BY <1>1, <1>2, <2>2, <3>1, DoesType DEF Delivers
  <2> QED BY <2>1, <2>2
<1>4. Undelivered(s) = pump[s].left /\ Unsent(s) = 0
  BY <1>1 DEF Undelivered, Unsent
<1>5. Undelivered(s)' = pump[s].left - 1 /\ Unsent(s)' = 0
  <2>1. CASE pump[s].left = 1
    BY <1>3, <2>1 DEF Unsent, Undelivered
  <2>2. CASE pump[s].left # 1
    <3>1. pump'[s].left = pump[s].left - 1 /\ pump'[s].does = "deliver"
      BY <1>3, <2>2
    <3> QED BY <3>1 DEF Unsent, Undelivered
  <2> QED BY <2>1, <2>2
<1>6. inbox'[s] = inbox[s] + 1 /\ inbox'[Peer(s)] = inbox[Peer(s)]
  BY <1>1, Sides DEF Types
<1>7. Receiving(s)' = Receiving(s) /\ Receiving(s) \in Nat
  <2>1. Begun(s)' = Begun(s)
    BY <1>1 DEF Begun
  <2>2. Begun(s) \in Nat /\ inbox[s] \in Nat /\ Receiving(s) \in Nat
    BY <1>1, CountsAreNatural
  <2> QED BY <1>2, <1>4, <1>5, <1>6, <2>1, <2>2 DEF Receiving
<1>8. \A total \in Nat : Sending(s, total)' <= Sending(s, total)
  <2>1. outbox[s] \in Nat
    BY <1>1 DEF Types
  <2> QED BY <1>1, <1>4, <1>5, <2>1 DEF Sending
<1>9. \A total \in Nat : total + Receiving(s)' <= total + Receiving(s)
  BY <1>7
<1>10. \A x \in Side : Counted(x)
  BY DEF Whole
<1>11. \A x \in Side : Counted(x)'
  BY <1>1, <1>3, <1>6, <1>8, <1>9, <1>10, OneEnd
<1> QED BY <1>1, <1>11

\* A pump that ends takes with it what it had in its hands.
LEMMA Ending ==
  ASSUME Whole, Types', NEW s \in Side, Does(s, "ended", 0, 0),
         UNCHANGED <<apps, outbox, inbox, wire, frame, torn>>
  PROVE  (\A x \in Side : Counted(x)') /\ torn' = {}
<1>1. Types /\ torn' = {} /\ \A x \in Side : Counted(x)
  BY DEF Whole
<1>2. pump'[s] = [does |-> "ended", left |-> 0, of |-> 0] /\ pump'[Peer(s)] = pump[Peer(s)]
  BY <1>1, DoesType
<1>3. Unsent(s)' = 0 /\ Undelivered(s)' = 0 /\ Begun(s)' = Begun(s)
  BY <1>2 DEF Unsent, Undelivered, Begun
<1>4. /\ Unsent(s) \in Nat /\ Undelivered(s) \in Nat /\ Begun(s) \in Nat
      /\ outbox[s] \in Nat /\ inbox[s] \in Nat
  BY <1>1, CountsAreNatural
<1>5. \A total \in Nat : Sending(s, total)' <= Sending(s, total)
  BY <1>3, <1>4 DEF Sending
<1>6. \A total \in Nat : total + Receiving(s)' <= total + Receiving(s)
  BY <1>3, <1>4 DEF Receiving
<1> QED BY <1>1, <1>2, <1>5, <1>6, OneEnd

\* A unit spoken is a unit on its way.
LEMMA Saying ==
  ASSUME Whole, Types', NEW s \in Side, Speaks(s)
  PROVE  Whole'
<1> DEFINE p == Peer(s)
<1>1. /\ Types /\ ~Over /\ Script[turn].by = s /\ said < Script[turn].units
      /\ outbox' = [outbox EXCEPT ![s] = @ + 1] /\ said' = said + 1
      /\ UNCHANGED <<turn, heard, inbox, wire, eof, pump, frame, torn, faults>>
  BY DEF Speaks, MyTurn, Whole
<1>2. p \in Side /\ p # s /\ Peer(p) = s /\ \A x \in Side : x = s \/ x = p
  BY Sides
<1> HIDE DEF p
<1>3. outbox'[s] = outbox[s] + 1 /\ outbox'[p] = outbox[p] /\ outbox[s] \in Nat
  BY <1>1, <1>2 DEF Types
<1>4. said' <= Script[turn].units /\ said \in Nat /\ heard \in Nat
  <2>1. Script[turn].units \in Nat
    BY <1>1, TurnsHaveUnits DEF Types, Over
  <2> QED BY <1>1, <2>1 DEF Types
<1>5. ~Over' /\ Speaking(s) /\ Speaking(s)' /\ ~Speaking(p) /\ ~Speaking(p)'
  BY <1>1, <1>2 DEF Speaking, Over
<1>6. \A x \in Side : Receiving(x)' = Receiving(x) /\ Unsent(x)' = Unsent(x)
  BY <1>1 DEF Receiving, Begun, Undelivered, Unsent
<1>7. Counted(s)'
  <2>1. PICK total : SumsTo(wire[s], total) /\ heard + OnItsWay(s, total) <= said
    BY <1>5 DEF Whole, Counted
  <2>2. total \in Nat
    BY <1>1, <2>1, SumIsNatural DEF Types
  <2>3. /\ Receiving(p) \in Nat /\ Unsent(s) \in Nat
    BY <1>1, <1>2, CountsAreNatural
  <2>4. OnItsWay(s, total) = outbox[s] + Unsent(s) + total + Receiving(p)
    BY DEF OnItsWay, Sending, p
  <2>5. OnItsWay(s, total)' = outbox[s] + 1 + Unsent(s) + total + Receiving(p)
    BY <1>2, <1>3, <1>6 DEF OnItsWay, Sending, p
  <2>6. heard' + OnItsWay(s, total)' <= said'
    BY <1>1, <1>3, <1>4, <2>1, <2>2, <2>3, <2>4, <2>5
  <2>7. SumsTo(wire'[s], total)
    BY <1>1, <2>1
  <2> QED BY <1>5, <2>6, <2>7 DEF Counted
<1>8. Counted(p)'
  <2>1. PICK total : SumsTo(wire[p], total) /\ OnItsWay(p, total) = 0
    BY <1>2, <1>5 DEF Whole, Counted
  <2>2. OnItsWay(p, total)' = OnItsWay(p, total)
    BY <1>2, <1>3, <1>6 DEF OnItsWay, Sending
  <2>3. SumsTo(wire'[p], total)
    BY <1>1, <2>1
  <2> QED BY <1>5, <2>1, <2>2, <2>3 DEF Counted
<1> QED BY <1>1, <1>2, <1>4, <1>7, <1>8 DEF Whole

\* The last unit of a turn is heard: all that was said has been, and nothing is
\* on its way in either direction.
LEMMA Hearing ==
  ASSUME Whole, Types', NEW s \in Side, Hears(s)
  PROVE  Whole'
<1> DEFINE p == Peer(s)
<1>1. /\ Types /\ ~Over /\ Script[turn].by = p /\ inbox[s] > 0
      /\ inbox' = [inbox EXCEPT ![s] = @ - 1]
      /\ UNCHANGED <<outbox, wire, eof, pump, frame, torn, faults>>
      /\ said <= Script[turn].units
  BY DEF Hears, Whole
<1>2. p \in Side /\ p # s /\ Peer(p) = s /\ \A x \in Side : x = s \/ x = p
  BY Sides
<1> HIDE DEF p
<1>3. inbox'[s] = inbox[s] - 1 /\ inbox'[p] = inbox[p] /\ inbox[s] \in Nat
  BY <1>1, <1>2 DEF Types
<1>4. said \in Nat /\ heard \in Nat /\ Script[turn].units \in Nat
  <2>1. Script[turn].units \in Nat
    BY <1>1, TurnsHaveUnits DEF Types, Over
  <2> QED BY <1>1, <2>1 DEF Types
<1>5. Speaking(p) /\ ~Speaking(s)
  BY <1>1, <1>2 DEF Speaking
<1>6. /\ \A x \in Side : Unsent(x)' = Unsent(x)
      /\ Receiving(p)' = Receiving(p)
      /\ Begun(s)' = Begun(s) /\ Undelivered(s)' = Undelivered(s)
  BY <1>1, <1>3 DEF Receiving, Begun, Undelivered, Unsent
<1>7. PICK total : SumsTo(wire[p], total) /\ heard + OnItsWay(p, total) <= said
  BY <1>2, <1>5 DEF Whole, Counted
<1>8. PICK back : SumsTo(wire[s], back) /\ OnItsWay(s, back) = 0
  BY <1>5 DEF Whole, Counted
<1>9. total \in Nat
  BY <1>1, <1>2, <1>7, SumIsNatural DEF Types
<1>10. OnItsWay(s, back)' = 0 /\ SumsTo(wire'[s], back)
  BY <1>1, <1>6, <1>8 DEF OnItsWay, Sending, p
<1>11. /\ outbox[p] \in Nat /\ Unsent(p) \in Nat /\ Begun(s) \in Nat /\ Undelivered(s) \in Nat
  BY <1>1, <1>2, CountsAreNatural
<1>12. OnItsWay(p, total) = outbox[p] + Unsent(p) + total + (Begun(s) + Undelivered(s) + inbox[s])
  BY <1>2 DEF OnItsWay, Sending, Receiving
<1>13. OnItsWay(p, total)'
         = outbox[p] + Unsent(p) + total + (Begun(s) + Undelivered(s) + (inbox[s] - 1))
  BY <1>1, <1>2, <1>3, <1>6 DEF OnItsWay, Sending, Receiving
<1>14. /\ SumsTo(wire'[p], total) /\ OnItsWay(p, total)' \in Nat
       /\ heard + 1 + OnItsWay(p, total)' <= said
  BY <1>1, <1>3, <1>4, <1>7, <1>9, <1>11, <1>12, <1>13
<1>15. CASE heard + 1 = Script[turn].units
  <2>1. turn' = turn + 1 /\ said' = 0 /\ heard' = 0
    BY <1>15 DEF Hears
  <2>2. OnItsWay(p, total)' = 0
    BY <1>1, <1>4, <1>14, <1>15
  <2>3. Counted(p)' /\ Counted(s)'
    BY <1>10, <1>14, <2>1, <2>2 DEF Counted
  <2>4. ~Over' => said' <= Script[turn'].units
    <3> SUFFICES ASSUME ~Over'
                 PROVE  0 <= Script[turn'].units
      BY <2>1
    <3>1. turn' \in Nat \ {0} /\ ~ (turn' > Len(Script))
      BY DEF Types, Over
    <3> QED BY <3>1, TurnsHaveUnits
  <2> QED BY <1>1, <1>2, <2>3, <2>4 DEF Whole
<1>16. CASE heard + 1 # Script[turn].units
  <2>1. heard' = heard + 1 /\ turn' = turn /\ said' = said
    BY <1>16 DEF Hears
  <2>2. Speaking(p)' /\ ~Speaking(s)' /\ ~Over'
    BY <1>1, <1>5, <2>1 DEF Speaking, Over
  <2>3. Counted(p)' /\ Counted(s)'
    BY <1>10, <1>14, <2>1, <2>2 DEF Counted
  <2> QED BY <1>1, <1>2, <2>1, <2>3 DEF Whole
<1> QED BY <1>15, <1>16

LEMMA WholeAtFirst == Init => Whole
<1> SUFFICES ASSUME Init
             PROVE  Whole
  OBVIOUS
<1>1. ASSUME NEW x \in Side
      PROVE  Counted(x)
  <2>1. SumsTo(wire[x], 0)
    BY SumOfNone DEF Init
  <2>2. OnItsWay(x, 0) = 0
    BY Sides DEF Init, OnItsWay, Sending, Receiving, Unsent, Begun, Undelivered, Selecting, Fresh
  <2> QED BY <2>1, <2>2 DEF Counted, Init
<1>2. ~Over => said <= Script[turn].units
  BY TurnsHaveUnits DEF Init, Over
<1> QED BY <1>1, <1>2, TypesAtFirst DEF Whole, Init

LEMMA WholeStays ==
  ASSUME Whole, [Next]_vars
  PROVE  Whole'
<1>1. Types'
  BY TypesStay DEF Whole
<1>2. ASSUME UNCHANGED apps, (\A x \in Side : Counted(x)') /\ torn' = {}
      PROVE  Whole'
  BY <1>1, <1>2 DEF Whole, Over, apps
<1>3. ASSUME NEW s \in Side, TakesPlain(s)
      PROVE  Whole'
  BY <1>1, <1>2, <1>3, TakingPlain DEF TakesPlain
<1>4. ASSUME NEW s \in Side, WritesWire(s)
      PROVE  Whole'
  BY <1>1, <1>2, <1>4, WritingWire DEF WritesWire
<1>5. ASSUME NEW s \in Side, ReadsWire(s)
      PROVE  Whole'
  BY <1>1, <1>2, <1>5, ReadingWire DEF ReadsWire
<1>6. ASSUME NEW s \in Side, Delivers(s)
      PROVE  Whole'
  BY <1>1, <1>2, <1>6, Delivering DEF Delivers
<1>7. ASSUME NEW s \in Side, WriteFails(s) \/ Shuts(s) \/ ReadsEof(s) \/ Dies(s)
      PROVE  Whole'
  <2>1. Does(s, "ended", 0, 0) /\ UNCHANGED <<apps, outbox, inbox, wire, frame, torn>>
    BY <1>7 DEF WriteFails, Shuts, ReadsEof, Dies
  <2> QED BY <1>1, <1>2, <2>1, Ending
<1>8. ASSUME NEW s \in Side, Speaks(s) \/ Hears(s)
      PROVE  Whole'
  BY <1>1, <1>8, Saying, Hearing
<1>9. CASE UNCHANGED vars
  <2>1. \A x \in Side : Counted(x)' = Counted(x)
    BY <1>9 DEF Counted, OnItsWay, Sending, Receiving, Unsent, Begun, Undelivered, Speaking,
                Over, vars, apps
  <2> QED BY <1>1, <1>9, <2>1 DEF Whole, Over, vars, apps
<1> QED BY <1>3, <1>4, <1>5, <1>6, <1>7, <1>8, <1>9 DEF Next, PumpStep, Ended

\* No pump drops the read of a frame in the middle, although its select would:
\* plaintext is there only in a side's own turn, and by then every frame of the
\* turn before has been delivered and heard.
THEOREM NoFrameIsTorn == Spec => []NoTornFrame
<1>1. Init => Whole
  BY WholeAtFirst
<1>2. Whole /\ [Next]_vars => Whole'
  BY WholeStays
<1>3. Whole => NoTornFrame
  BY DEF Whole, NoTornFrame
<1> QED BY <1>1, <1>2, <1>3, PTL DEF Spec

=============================================================================
