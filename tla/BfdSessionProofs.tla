-------------------------- MODULE BfdSessionProofs --------------------------
(***************************************************************************)
(* The safety of BFD sessions for all intervals, multipliers, delays,      *)
(* losses, cuts and restarts.                                              *)
(***************************************************************************)
EXTENDS BfdSession, TLAPS

USE DEF validateParameters

LEMMA MaxOfType == \A x, y \in Nat : /\ MaxOf(x, y) \in Nat
                                     /\ x <= MaxOf(x, y) /\ y <= MaxOf(x, y)
                                     /\ MaxOf(x, y) \in {x, y}
  BY DEF MaxOf

LEMMA TimesMonotone == ASSUME NEW k \in Nat, NEW a \in Nat, NEW b \in Nat, a <= b
                       PROVE  k * a \in Nat /\ k * a <= k * b
  <1>1. PICK d \in Nat : b = a + d
    <2>1. b - a \in Nat /\ b = a + (b - a)
      OBVIOUS
    <2> QED BY <2>1
  <1>2. k * b = k * a + k * d
    BY <1>1
  <1>3. k * d \in Nat /\ k * a \in Nat
    BY <1>1
  <1> QED BY <1>2, <1>3

LEMMA TransitionType ==
  ASSUME NEW st \in State, NEW e \in State \cup {"Timer"}
  PROVE  transition(st, e) \in State
  BY DEF transition, State

LEMMA IntervalType ==
  ASSUME NEW i \in Nat, NEW mult \in Positive
  PROVE  computeInterval(i, mult) \subseteq Nat
  <1> SUFFICES ASSUME NEW x \in computeInterval(i, mult) PROVE x \in Nat
    OBVIOUS
  <1>1. PICK j \in (IF mult = 1 THEN 10 ELSE 0)..24 :
          x = MaxOf(1, (i * (100 - j)) \div 100)
    BY DEF computeInterval
  <1>2. 100 - j \in Nat
    BY <1>1
  <1>3. i * (100 - j) \in Nat
    BY <1>2
  <1>4. (i * (100 - j)) \div 100 \in Int
    BY <1>3
  <1> QED BY <1>1, <1>4 DEF MaxOf

-----------------------------------------------------------------------------
LEMMA PacketType ==
  ASSUME TypeOK, NEW s \in Sessions, NEW st \in State
  PROVE  packet(s, st) \in Packet
  BY ConfigAssumption DEF packet, Packet, TypeOK, Positive

LEMMA OlderType == ASSUME NEW m \in Packet PROVE Older(m) \in Packet
  BY DEF Older, Packet

LEMMA HeadType ==
  ASSUME TypeOK, NEW s \in Sessions, wire[s] # << >>
  PROVE  /\ Head(wire[s]) \in Packet
         /\ Tail(wire[s]) \in Seq(Packet)
  BY DEF TypeOK

LEMMA DetectionTimeType ==
  ASSUME NEW s \in Sessions, NEW m \in Packet
  PROVE  detectionTime(s, m) \in Nat
  <1>1. m.mult \in Nat /\ m.tx \in Nat /\ RequiredMinRxInterval[s] \in Nat
    BY ConfigAssumption DEF Packet, Positive
  <1>2. MaxOf(RequiredMinRxInterval[s], m.tx) \in Nat
    BY <1>1, MaxOfType
  <1> QED BY <1>1, <1>2 DEF detectionTime

LEMMA NextSendType ==
  ASSUME NEW s \in Sessions, NEW d \in Nat, NEW r \in Nat
  PROVE  computeNextSendInterval(s, d, r) \subseteq Nat
  <1>1. MaxOf(d, r) \in Nat
    BY MaxOfType
  <1>2. DetectMult[s] \in Positive
    BY ConfigAssumption
  <1> QED BY <1>1, <1>2, IntervalType DEF computeNextSendInterval

\* Every field of Session and every packet keeps its range.
THEOREM TypeCorrect == Spec => []TypeOK
  <1>1. Init => TypeOK
    BY ConfigAssumption DEF Init, TypeOK, State, Positive
  <1>2. TypeOK /\ [Next]_vars => TypeOK'
    <2> SUFFICES ASSUME TypeOK, [Next]_vars PROVE TypeOK'
      OBVIOUS
    <2> USE DEF session
    <2>1. ASSUME NEW s \in Sessions, Discard(s) PROVE TypeOK'
      BY <2>1, HeadType DEF Discard, TypeOK
    <2>2. ASSUME NEW s \in Sessions, Receive(s) PROVE TypeOK'
      <3> DEFINE m == Head(wire[s])
                 new == transition(localState[s], m.state)
                 tx == IF localState[s] = "Down" /\ new # "Down"
                       THEN DesiredMinTxInterval[s] ELSE desiredMinTXInterval[s]
      <3>1. m \in Packet /\ Tail(wire[s]) \in Seq(Packet)
        BY <2>2, HeadType DEF Receive
      <3>2. new \in State
        BY <3>1, TransitionType DEF Packet, TypeOK
      <3>3. tx \in Positive
        BY ConfigAssumption DEF TypeOK
      <3>4. detectionTime(s, m) \in Nat
        BY <3>1, DetectionTimeType
      <3>5. m.rx \in Nat /\ Peer[s] \in Sessions
        BY <3>1, ConfigAssumption DEF Packet, Positive
      <3>6. computeNextSendInterval(s, tx, m.rx) \subseteq Nat
        BY <3>3, <3>5, NextSendType DEF Positive
      <3> HIDE DEF m, new, tx
      <3>7. /\ localState' \in [Sessions -> State]
            /\ remoteDiscriminator' \in [Sessions -> Sessions \cup {NoDisc}]
            /\ desiredMinTXInterval' \in [Sessions -> Positive]
        BY <2>2, <3>2, <3>3, <3>5 DEF Receive, TypeOK, m, new, tx
      <3>8. /\ detectionTimer' \in [Sessions -> Nat]
            /\ remoteMinRxInterval' \in [Sessions -> Nat]
        BY <2>2, <3>4, <3>5 DEF Receive, TypeOK, m
      <3>9. sendTimer' \in [Sessions -> Nat]
        BY <2>2, <3>6 DEF Receive, TypeOK, m, new, tx
      <3>10. wire' \in [Sessions -> Seq(Packet)]
        BY <2>2, <3>1 DEF Receive, TypeOK, m
      <3> QED BY <2>2, <3>7, <3>8, <3>9, <3>10 DEF Receive, TypeOK
    <2>3. ASSUME NEW s \in Sessions, Send(s) PROVE TypeOK'
      <3>1. computeNextSendInterval(s, desiredMinTXInterval[s], remoteMinRxInterval[s])
              \subseteq Nat
        BY NextSendType DEF TypeOK, Positive
      <3>2. sendTimer' \in [Sessions -> Nat]
        BY <2>3, <3>1 DEF Send, TypeOK
      <3>3. \A st \in {localState[s]} \cup (IF s \in Foreign THEN {"AdminDown"} ELSE {}) :
              packet(s, st) \in Packet
        BY PacketType DEF TypeOK, State
      <3>4. wire' \in [Sessions -> Seq(Packet)]
        <4>1. PICK st \in {localState[s]} \cup (IF s \in Foreign THEN {"AdminDown"} ELSE {}) :
                wire' = IF Peer[s] \in cut THEN wire
                        ELSE [wire EXCEPT ![Peer[s]] = Append(@, packet(s, st))]
          BY <2>3 DEF Send
        <4>2. packet(s, st) \in Packet /\ Peer[s] \in Sessions
          BY <3>3, <4>1, ConfigAssumption
        <4> QED BY <4>1, <4>2 DEF TypeOK
      <3> QED BY <2>3, <3>2, <3>4 DEF Send, TypeOK
    <2>4. ASSUME NEW s \in Sessions, DetectionExpires(s) PROVE TypeOK'
      BY <2>4, TransitionType, ConfigAssumption DEF DetectionExpires, TypeOK, Positive
    <2>5. ASSUME NEW s \in Sessions, Lose(s) PROVE TypeOK'
      BY <2>5, HeadType DEF Lose, TypeOK
    <2>6. ASSUME NEW s \in Sessions, Cut(s) PROVE TypeOK'
      BY <2>6 DEF Cut, TypeOK
    <2>7. ASSUME NEW s \in Sessions, Restart(s) PROVE TypeOK'
      <3>1. DefaultTx \in Positive /\ DefaultTx \in Nat /\ DefaultDetect \in Nat
        BY ConfigAssumption DEF Positive
      <3>2. "Down" \in State
        BY DEF State
      <3> QED BY <2>7, <3>1, <3>2 DEF Restart, TypeOK
    <2>8. CASE Tick
      <3>1. ASSUME NEW s \in Sessions
            PROVE [i \in 1..Len(wire[s]) |-> Older(wire[s][i])] \in Seq(Packet)
        <4>1. wire[s] \in Seq(Packet)
          BY DEF TypeOK
        <4>2. \A i \in 1..Len(wire[s]) : Older(wire[s][i]) \in Packet
          BY <4>1, OlderType
        <4> QED BY <4>1, <4>2
      <3>2. wire' \in [Sessions -> Seq(Packet)]
        BY <2>8, <3>1 DEF Tick
      <3>3. /\ sendTimer' \in [Sessions -> Nat]
            /\ detectionTimer' \in [Sessions -> Nat]
            /\ quiet' \in [Sessions -> Nat]
        BY <2>8 DEF Tick, TypeOK
      <3> QED BY <2>8, <3>2, <3>3 DEF Tick, TypeOK
    <2>9. CASE UNCHANGED vars
      BY <2>9 DEF vars, TypeOK
    <2> QED BY <2>1, <2>2, <2>3, <2>4, <2>5, <2>6, <2>7, <2>8, <2>9 DEF Next
  <1> QED BY <1>1, <1>2, PTL DEF Spec

-----------------------------------------------------------------------------
\* What a receiving or losing step leaves on the wire was there before.
LEMMA TailKeeps ==
  ASSUME NEW q \in Seq(Packet), q # << >>
  PROVE  /\ Len(Tail(q)) \in Nat
         /\ \A i \in 1..Len(Tail(q)) : /\ i + 1 \in 1..Len(q)
                                       /\ Tail(q)[i] = q[i + 1]
         /\ 1 \in 1..Len(q) /\ Head(q) = q[1]
  OBVIOUS

LEMMA TailTransfers ==
  ASSUME TypeOK, NEW s \in Sessions, wire[s] # << >>,
         wire' = [wire EXCEPT ![s] = Tail(@)]
  PROVE  \A t \in Sessions : \A i \in 1..Len(wire'[t]) :
           \E j \in 1..Len(wire[t]) : wire'[t][i] = wire[t][j]
  <1> SUFFICES ASSUME NEW t \in Sessions, NEW i \in 1..Len(wire'[t])
               PROVE \E j \in 1..Len(wire[t]) : wire'[t][i] = wire[t][j]
    OBVIOUS
  <1>1. CASE t = s
    <2>1. wire[s] \in Seq(Packet) /\ wire'[t] = Tail(wire[s])
      BY <1>1 DEF TypeOK
    <2>2. i + 1 \in 1..Len(wire[s]) /\ wire'[t][i] = wire[s][i + 1]
      BY <2>1, TailKeeps
    <2> QED BY <1>1, <2>2
  <1>2. CASE t # s
    <2>1. wire'[t] = wire[t]
      BY <1>2 DEF TypeOK
    <2> QED BY <2>1
  <1> QED BY <1>1, <1>2

\* What a send leaves on the wire was there before or is the new packet.
LEMMA SendTransfers ==
  ASSUME TypeOK, NEW s \in Sessions, Send(s)
  PROVE  \A t \in Sessions : \A i \in 1..Len(wire'[t]) :
           \/ \E j \in 1..Len(wire[t]) : wire'[t][i] = wire[t][j]
           \/ /\ t = Peer[s]
              /\ \E st \in {localState[s], "AdminDown"} : wire'[t][i] = packet(s, st)
  <1> SUFFICES ASSUME NEW t \in Sessions, NEW i \in 1..Len(wire'[t])
      PROVE \/ \E j \in 1..Len(wire[t]) : wire'[t][i] = wire[t][j]
            \/ /\ t = Peer[s]
               /\ \E st \in {localState[s], "AdminDown"} : wire'[t][i] = packet(s, st)
    OBVIOUS
  <1>1. PICK st \in {localState[s], "AdminDown"} :
          wire' = IF Peer[s] \in cut THEN wire
                  ELSE [wire EXCEPT ![Peer[s]] = Append(@, packet(s, st))]
    BY DEF Send
  <1>2. CASE wire'[t] = wire[t]
    BY <1>2
  <1>3. CASE t = Peer[s] /\ wire'[t] = Append(wire[t], packet(s, st))
    <2>1. wire[t] \in Seq(Packet)
      BY DEF TypeOK
    <2>2. \/ i \in 1..Len(wire[t]) /\ wire'[t][i] = wire[t][i]
          \/ wire'[t][i] = packet(s, st)
      BY <1>3, <2>1
    <2> QED BY <1>1, <1>3, <2>2
  <1> QED BY <1>1, <1>2, <1>3 DEF TypeOK

LEMMA CutTransfers ==
  ASSUME TypeOK, NEW s \in Sessions, Cut(s)
  PROVE  \A t \in Sessions : \A i \in 1..Len(wire'[t]) :
           i \in 1..Len(wire[t]) /\ wire'[t][i] = wire[t][i]
  <1> SUFFICES ASSUME NEW t \in Sessions, NEW i \in 1..Len(wire'[t])
               PROVE i \in 1..Len(wire[t]) /\ wire'[t][i] = wire[t][i]
    OBVIOUS
  <1>1. t # s => wire'[t] = wire[t]
    BY DEF Cut, TypeOK
  <1>2. t = s => wire'[t] = << >>
    BY DEF Cut, TypeOK
  <1> QED BY <1>1, <1>2

LEMMA TickTransfers ==
  ASSUME TypeOK, Tick
  PROVE  \A t \in Sessions : \A i \in 1..Len(wire'[t]) :
           \E j \in 1..Len(wire[t]) : wire'[t][i] = Older(wire[t][j])
  <1> SUFFICES ASSUME NEW t \in Sessions, NEW i \in 1..Len(wire'[t])
               PROVE \E j \in 1..Len(wire[t]) : wire'[t][i] = Older(wire[t][j])
    OBVIOUS
  <1>1. wire[t] \in Seq(Packet)
    BY DEF TypeOK
  <1>2. wire'[t] = [j \in 1..Len(wire[t]) |-> Older(wire[t][j])]
    BY DEF Tick
  <1>3. Len(wire'[t]) = Len(wire[t])
    BY <1>1, <1>2
  <1> QED BY <1>2, <1>3

\* A session comes Up only after packets got through in both directions.
THEOREM TwoWay == Spec => []UpNeedsBothDirections
  <1>1. Init => Handshake
    BY DEF Init, Handshake
  <1>2. TypeOK /\ Handshake /\ [Next]_vars => Handshake'
    <2> SUFFICES ASSUME TypeOK, Handshake, [Next]_vars PROVE Handshake'
      OBVIOUS
    <2> USE DEF session
    <2>1. ASSUME NEW s \in Sessions, Discard(s) PROVE Handshake'
      <3>1. \A t \in Sessions : \A i \in 1..Len(wire'[t]) :
              \E j \in 1..Len(wire[t]) : wire'[t][i] = wire[t][j]
        BY <2>1, TailTransfers DEF Discard
      <3> QED BY <2>1, <3>1 DEF Discard, Handshake
    <2>2. ASSUME NEW s \in Sessions, Receive(s) PROVE Handshake'
      <3> DEFINE m == Head(wire[s])
      <3>1. \A t \in Sessions : \A i \in 1..Len(wire'[t]) :
              \E j \in 1..Len(wire[t]) : wire'[t][i] = wire[t][j]
        BY <2>2, TailTransfers DEF Receive
      <3>2. /\ heard'[s]
            /\ \A t \in Sessions : heard[t] => heard'[t]
            /\ \A t \in Sessions : t # s => localState'[t] = localState[t]
            /\ localState'[s] = transition(localState[s], m.state)
        BY <2>2 DEF Receive, TypeOK
      <3>3. m.state \in {"Init", "Up"} => heard[Peer[s]]
        <4>1. wire[s] \in Seq(Packet) /\ wire[s] # << >>
          BY <2>2 DEF Receive, TypeOK
        <4>2. 1 \in 1..Len(wire[s]) /\ m = wire[s][1]
          BY <4>1, TailKeeps
        <4> QED BY <4>2 DEF Handshake
      <3>4. m.state \in State /\ localState[s] \in State /\ Peer[s] \in Sessions
        BY <2>2, HeadType, ConfigAssumption DEF Receive, Packet, TypeOK
      <3>5. transition(localState[s], m.state) = "Up" => heard[Peer[s]]
        BY <3>3, <3>4 DEF transition, Handshake, State
      <3>6. \A t \in Sessions : Peer[t] \in Sessions
        BY ConfigAssumption
      <3> HIDE DEF m
      <3> QED BY <3>1, <3>2, <3>4, <3>5, <3>6 DEF Handshake
    <2>3. ASSUME NEW s \in Sessions, Send(s) PROVE Handshake'
      <3>1. localState' = localState /\ heard' = heard
        BY <2>3 DEF Send
      <3>2. Peer[Peer[s]] = s
        BY ConfigAssumption
      <3>3. \A st : packet(s, st).state = st
        BY DEF packet
      <3> QED BY <2>3, <3>1, <3>2, <3>3, SendTransfers DEF Handshake
    <2>4. ASSUME NEW s \in Sessions, DetectionExpires(s) PROVE Handshake'
      <3>1. transition(localState[s], "Timer") \in {"AdminDown", "Down"}
        BY DEF transition
      <3>2. localState' = [localState EXCEPT ![s] = transition(localState[s], "Timer")]
        BY <2>4 DEF DetectionExpires
      <3> QED BY <2>4, <3>1, <3>2 DEF DetectionExpires, Handshake, TypeOK
    <2>5. ASSUME NEW s \in Sessions, Lose(s) PROVE Handshake'
      <3>1. \A t \in Sessions : \A i \in 1..Len(wire'[t]) :
              \E j \in 1..Len(wire[t]) : wire'[t][i] = wire[t][j]
        BY <2>5, TailTransfers DEF Lose
      <3> QED BY <2>5, <3>1 DEF Lose, Handshake
    <2>6. ASSUME NEW s \in Sessions, Cut(s) PROVE Handshake'
      <3>1. \A t \in Sessions : \A i \in 1..Len(wire'[t]) :
              i \in 1..Len(wire[t]) /\ wire'[t][i] = wire[t][i]
        BY <2>6, CutTransfers
      <3> QED BY <2>6, <3>1 DEF Cut, Handshake
    <2>7. ASSUME NEW s \in Sessions, Restart(s) PROVE Handshake'
      BY <2>7 DEF Restart, Handshake, TypeOK
    <2>8. CASE Tick
      <3>1. \A m : Older(m).state = m.state
        BY DEF Older
      <3>2. \A t \in Sessions : \A i \in 1..Len(wire'[t]) :
              \E j \in 1..Len(wire[t]) : wire'[t][i].state = wire[t][j].state
        BY <2>8, <3>1, TickTransfers
      <3>3. \A t \in Sessions : \A i \in 1..Len(wire'[t]) :
              wire'[t][i].state \in {"Init", "Up"} => heard[Peer[t]]
        <4> TAKE t \in Sessions
        <4> TAKE i \in 1..Len(wire'[t])
        <4>1. PICK j \in 1..Len(wire[t]) : wire'[t][i].state = wire[t][j].state
          BY <3>2
        <4> QED BY <4>1 DEF Handshake
      <3> QED BY <2>8, <3>3 DEF Tick, Handshake
    <2>9. CASE UNCHANGED vars
      BY <2>9 DEF vars, Handshake
    <2> QED BY <2>1, <2>2, <2>3, <2>4, <2>5, <2>6, <2>7, <2>8, <2>9 DEF Next
  <1>3. Handshake => UpNeedsBothDirections
    BY DEF Handshake, UpNeedsBothDirections
  <1> QED BY <1>1, <1>2, <1>3, TypeCorrect, PTL DEF Spec

-----------------------------------------------------------------------------
LEMMA MaxDetectionType == \A s \in Sessions : MaxDetection(s) \in Nat
  <1> SUFFICES ASSUME NEW s \in Sessions PROVE MaxDetection(s) \in Nat
    OBVIOUS
  <1>1. /\ Peer[s] \in Sessions /\ DefaultTx \in Nat
        /\ RequiredMinRxInterval[s] \in Nat
    BY ConfigAssumption DEF Positive
  <1>2. /\ DesiredMinTxInterval[Peer[s]] \in Nat /\ DetectMult[Peer[s]] \in Nat
    BY <1>1, ConfigAssumption DEF Positive
  <1>3. MaxOf(DefaultTx, DesiredMinTxInterval[Peer[s]]) \in Nat
    BY <1>1, <1>2, MaxOfType
  <1>4. MaxOf(RequiredMinRxInterval[s],
              MaxOf(DefaultTx, DesiredMinTxInterval[Peer[s]])) \in Nat
    BY <1>1, <1>3, MaxOfType
  <1> QED BY <1>2, <1>4 DEF MaxDetection

\* A packet arms the detection timer with at most the longest detection time.
LEMMA DetectionTimeBounded ==
  ASSUME NEW s \in Sessions, NEW m \in Packet,
         m.tx \in {DefaultTx, DesiredMinTxInterval[Peer[s]]},
         m.mult = DetectMult[Peer[s]]
  PROVE  detectionTime(s, m) <= MaxDetection(s)
  <1> DEFINE rx == RequiredMinRxInterval[s]
             tx == MaxOf(DefaultTx, DesiredMinTxInterval[Peer[s]])
  <1>1. /\ Peer[s] \in Sessions /\ DefaultTx \in Nat /\ rx \in Nat
    BY ConfigAssumption DEF Positive
  <1>2. /\ DesiredMinTxInterval[Peer[s]] \in Nat /\ m.mult \in Nat
    BY <1>1, ConfigAssumption DEF Positive
  <1>3. m.tx \in Nat /\ tx \in Nat /\ m.tx <= tx
    BY <1>1, <1>2, MaxOfType
  <1>4. /\ MaxOf(rx, m.tx) \in Nat /\ MaxOf(rx, tx) \in Nat
        /\ MaxOf(rx, m.tx) <= MaxOf(rx, tx)
    BY <1>1, <1>3 DEF MaxOf
  <1>5. m.mult * MaxOf(rx, m.tx) <= m.mult * MaxOf(rx, tx)
    BY <1>2, <1>4, TimesMonotone
  <1> QED BY <1>5 DEF detectionTime, MaxDetection

\* The part of Armed that speaks of packets.
WireArmed ==
  \A s \in Sessions : \A i \in 1..Len(wire[s]) :
    /\ wire[s][i].tx \in {DefaultTx, DesiredMinTxInterval[Peer[s]]}
    /\ wire[s][i].mult = DetectMult[Peer[s]]

\* It is kept when every packet announces what one on the wire already did.
LEMMA WireArmedKept ==
  ASSUME Armed,
         \A t \in Sessions : \A i \in 1..Len(wire'[t]) :
           \E j \in 1..Len(wire[t]) : /\ wire'[t][i].tx = wire[t][j].tx
                                     /\ wire'[t][i].mult = wire[t][j].mult
  PROVE  WireArmed'
  <1> SUFFICES ASSUME NEW t \in Sessions, NEW i \in 1..Len(wire'[t])
               PROVE  /\ wire'[t][i].tx \in {DefaultTx, DesiredMinTxInterval[Peer[t]]}
                      /\ wire'[t][i].mult = DetectMult[Peer[t]]
    BY DEF WireArmed
  <1>1. PICK j \in 1..Len(wire[t]) : /\ wire'[t][i].tx = wire[t][j].tx
                                    /\ wire'[t][i].mult = wire[t][j].mult
    OBVIOUS
  <1>2. /\ wire[t][j].tx \in {DefaultTx, DesiredMinTxInterval[Peer[t]]}
        /\ wire[t][j].mult = DetectMult[Peer[t]]
    BY DEF Armed
  <1> QED BY ONLY <1>1, <1>2

\* The three parts of Armed, in the next state.
LEMMA ArmedParts ==
  ASSUME WireArmed',
         \A t \in Sessions : desiredMinTXInterval'[t] \in {DefaultTx, DesiredMinTxInterval[t]},
         \A t \in Sessions :
           localState'[t] = "Up" => quiet'[t] + detectionTimer'[t] <= MaxDetection(t)
  PROVE  Armed'
  BY DEF Armed, WireArmed, MaxDetection

\* A session that reports Up heard its peer within its detection time.
THEOREM Detection == Spec => []DetectionBound
  <1>1. Init => Armed
    BY DEF Init, Armed
  <1>2. TypeOK /\ Armed /\ [Next]_vars => Armed'
    <2> SUFFICES ASSUME TypeOK, Armed, [Next]_vars PROVE Armed'
      OBVIOUS
    <2> USE DEF session
    <2>0. \A t \in Sessions : Peer[t] \in Sessions /\ Peer[Peer[t]] = t
      BY ConfigAssumption
    <2>1. ASSUME NEW s \in Sessions, Discard(s) PROVE Armed'
      <3>1. \A t \in Sessions : \A i \in 1..Len(wire'[t]) :
              \E j \in 1..Len(wire[t]) : wire'[t][i] = wire[t][j]
        BY <2>1, TailTransfers DEF Discard
      <3>2. WireArmed'
        BY <3>1, WireArmedKept
      <3> QED BY <2>1, <3>2, ArmedParts DEF Discard, Armed
    <2>2. ASSUME NEW s \in Sessions, Receive(s) PROVE Armed'
      <3> DEFINE m == Head(wire[s])
      <3>1. \A t \in Sessions : \A i \in 1..Len(wire'[t]) :
              \E j \in 1..Len(wire[t]) : wire'[t][i] = wire[t][j]
        BY <2>2, TailTransfers DEF Receive
      <3>2. detectionTime(s, m) <= MaxDetection(s) /\ detectionTime(s, m) \in Nat
        <4>1. wire[s] \in Seq(Packet) /\ wire[s] # << >>
          BY <2>2 DEF Receive, TypeOK
        <4>2. 1 \in 1..Len(wire[s]) /\ m = wire[s][1] /\ m \in Packet
          BY <4>1, TailKeeps
        <4>3. /\ m.tx \in {DefaultTx, DesiredMinTxInterval[Peer[s]]}
              /\ m.mult = DetectMult[Peer[s]]
          BY <4>2 DEF Armed
        <4> HIDE DEF m
        <4> QED BY <4>2, <4>3, DetectionTimeBounded, DetectionTimeType
      <3>3. /\ detectionTimer' = [detectionTimer EXCEPT ![s] = detectionTime(s, m)]
            /\ quiet' = [quiet EXCEPT ![s] = 0]
            /\ \A t \in Sessions : t # s => localState'[t] = localState[t]
        BY <2>2 DEF Receive, TypeOK
      <3>4. \A t \in Sessions : desiredMinTXInterval'[t] \in {DefaultTx, DesiredMinTxInterval[t]}
        BY <2>2 DEF Receive, Armed, TypeOK
      <3>5. \A t \in Sessions :
              localState'[t] = "Up" => quiet'[t] + detectionTimer'[t] <= MaxDetection(t)
        <4> HIDE DEF m
        <4> TAKE t \in Sessions
        <4>1. CASE t = s
          <5>1. quiet'[s] = 0 /\ detectionTimer'[s] = detectionTime(s, m)
            BY <3>3 DEF TypeOK
          <5> QED BY <4>1, <5>1, <3>2
        <4>2. CASE t # s
          <5>1. /\ quiet'[t] = quiet[t] /\ detectionTimer'[t] = detectionTimer[t]
                /\ localState'[t] = localState[t]
            BY <4>2, <3>3 DEF TypeOK
          <5> QED BY <5>1 DEF Armed
        <4> QED BY <4>1, <4>2
      <3>6. WireArmed'
        BY <3>1, WireArmedKept
      <3> QED BY <3>4, <3>5, <3>6, ArmedParts
    <2>3. ASSUME NEW s \in Sessions, Send(s) PROVE Armed'
      <3>1. \A st : /\ packet(s, st).tx = desiredMinTXInterval[s]
                    /\ packet(s, st).mult = DetectMult[s]
        BY DEF packet
      <3>2. WireArmed'
        <4> SUFFICES ASSUME NEW t \in Sessions, NEW i \in 1..Len(wire'[t])
                     PROVE  /\ wire'[t][i].tx \in {DefaultTx, DesiredMinTxInterval[Peer[t]]}
                            /\ wire'[t][i].mult = DetectMult[Peer[t]]
          BY DEF WireArmed
        <4>1. \/ \E j \in 1..Len(wire[t]) : wire'[t][i] = wire[t][j]
              \/ t = Peer[s] /\ \E st \in {localState[s], "AdminDown"} : wire'[t][i] = packet(s, st)
          BY <2>3, SendTransfers
        <4>2. CASE \E j \in 1..Len(wire[t]) : wire'[t][i] = wire[t][j]
          BY <4>2 DEF Armed
        <4>3. CASE t = Peer[s] /\ \E st \in {localState[s], "AdminDown"} : wire'[t][i] = packet(s, st)
          <5>1. wire'[t][i].tx = desiredMinTXInterval[s] /\ wire'[t][i].mult = DetectMult[s]
            BY <4>3, <3>1
          <5>2. desiredMinTXInterval[s] \in {DefaultTx, DesiredMinTxInterval[s]}
            BY DEF Armed
          <5>3. Peer[t] = s
            BY <4>3, <2>0
          <5> QED BY ONLY <5>1, <5>2, <5>3
        <4> QED BY ONLY <4>1, <4>2, <4>3
      <3> QED BY <2>3, <3>2, ArmedParts DEF Send, Armed
    <2>4. ASSUME NEW s \in Sessions, DetectionExpires(s) PROVE Armed'
      <3>1. transition(localState[s], "Timer") # "Up"
        BY DEF transition
      <3>2. /\ localState' = [localState EXCEPT ![s] = transition(localState[s], "Timer")]
            /\ \A t \in Sessions : t # s => /\ detectionTimer'[t] = detectionTimer[t]
                                            /\ quiet'[t] = quiet[t]
            /\ wire' = wire
        BY <2>4 DEF DetectionExpires, TypeOK
      <3>3. \A t \in Sessions : desiredMinTXInterval'[t] \in {DefaultTx, DesiredMinTxInterval[t]}
        BY <2>4 DEF DetectionExpires, Armed, TypeOK
      <3>4. \A t \in Sessions :
              localState'[t] = "Up" => quiet'[t] + detectionTimer'[t] <= MaxDetection(t)
        <4> TAKE t \in Sessions
        <4>1. CASE t = s
          BY <4>1, <3>1, <3>2 DEF TypeOK
        <4>2. CASE t # s
          <5>1. /\ quiet'[t] = quiet[t] /\ detectionTimer'[t] = detectionTimer[t]
                /\ localState'[t] = localState[t]
            BY <4>2, <3>2 DEF TypeOK
          <5> QED BY <5>1 DEF Armed
        <4> QED BY <4>1, <4>2
      <3>5. WireArmed'
        BY <3>2, WireArmedKept
      <3> QED BY <3>3, <3>4, <3>5, ArmedParts
    <2>5. ASSUME NEW s \in Sessions, Lose(s) PROVE Armed'
      <3>1. \A t \in Sessions : \A i \in 1..Len(wire'[t]) :
              \E j \in 1..Len(wire[t]) : wire'[t][i] = wire[t][j]
        BY <2>5, TailTransfers DEF Lose
      <3>2. WireArmed'
        BY <3>1, WireArmedKept
      <3> QED BY <2>5, <3>2, ArmedParts DEF Lose, Armed
    <2>6. ASSUME NEW s \in Sessions, Cut(s) PROVE Armed'
      <3>1. \A t \in Sessions : \A i \in 1..Len(wire'[t]) :
              i \in 1..Len(wire[t]) /\ wire'[t][i] = wire[t][i]
        BY <2>6, CutTransfers
      <3>2. WireArmed'
        BY <3>1, WireArmedKept
      <3> QED BY <2>6, <3>2, ArmedParts DEF Cut, Armed
    <2>7. ASSUME NEW s \in Sessions, Restart(s) PROVE Armed'
      <3>1. /\ wire' = wire
            /\ \A t \in Sessions : t # s => /\ detectionTimer'[t] = detectionTimer[t]
                                            /\ quiet'[t] = quiet[t]
                                            /\ localState'[t] = localState[t]
            /\ localState'[s] = "Down"
        BY <2>7 DEF Restart, TypeOK
      <3>2. \A t \in Sessions : desiredMinTXInterval'[t] \in {DefaultTx, DesiredMinTxInterval[t]}
        BY <2>7 DEF Restart, Armed, TypeOK
      <3>3. \A t \in Sessions :
              localState'[t] = "Up" => quiet'[t] + detectionTimer'[t] <= MaxDetection(t)
        BY <3>1 DEF Armed
      <3>4. WireArmed'
        BY <3>1, WireArmedKept
      <3> QED BY <3>2, <3>3, <3>4, ArmedParts
    <2>8. CASE Tick
      <3>1. \A m : Older(m).tx = m.tx /\ Older(m).mult = m.mult
        BY DEF Older
      <3>2. WireArmed'
        <4>1. \A t \in Sessions : \A i \in 1..Len(wire'[t]) :
                \E j \in 1..Len(wire[t]) : wire'[t][i] = Older(wire[t][j])
          BY <2>8, TickTransfers
        <4>2. \A t \in Sessions : \A i \in 1..Len(wire'[t]) :
                \E j \in 1..Len(wire[t]) : /\ wire'[t][i].tx = wire[t][j].tx
                                          /\ wire'[t][i].mult = wire[t][j].mult
          <5> TAKE t \in Sessions
          <5> TAKE i \in 1..Len(wire'[t])
          <5>1. PICK j \in 1..Len(wire[t]) : wire'[t][i] = Older(wire[t][j])
            BY <4>1
          <5>2. wire'[t][i].tx = wire[t][j].tx /\ wire'[t][i].mult = wire[t][j].mult
            BY ONLY <5>1, <3>1
          <5> QED BY <5>2
        <4> QED BY <4>2, WireArmedKept
      <3>3. \A t \in Sessions :
              localState'[t] = "Up" => quiet'[t] + detectionTimer'[t] <= MaxDetection(t)
        <4> SUFFICES ASSUME NEW t \in Sessions, localState[t] = "Up"
                     PROVE  quiet'[t] + detectionTimer'[t] <= MaxDetection(t)
          BY <2>8 DEF Tick
        <4>1. quiet'[t] = quiet[t] + 1 /\ detectionTimer'[t] = detectionTimer[t] - 1
          BY <2>8 DEF Tick
        <4>2. quiet[t] \in Nat /\ detectionTimer[t] \in Nat
          BY DEF TypeOK
        <4>3. quiet[t] + detectionTimer[t] <= MaxDetection(t)
          BY DEF Armed
        <4> QED BY <4>1, <4>2, <4>3
      <3> QED BY <2>8, <3>2, <3>3, ArmedParts DEF Tick, Armed
    <2>9. CASE UNCHANGED vars
      BY <2>9 DEF vars, Armed, MaxDetection
    <2> QED BY <2>1, <2>2, <2>3, <2>4, <2>5, <2>6, <2>7, <2>8, <2>9 DEF Next
  <1>3. TypeOK /\ Armed => DetectionBound
    <2> SUFFICES ASSUME TypeOK, Armed, NEW s \in Sessions, localState[s] = "Up"
                 PROVE  quiet[s] <= MaxDetection(s)
      BY DEF DetectionBound
    <2>1. quiet[s] \in Nat /\ detectionTimer[s] \in Nat /\ MaxDetection(s) \in Nat
      BY MaxDetectionType DEF TypeOK
    <2> QED BY <2>1 DEF Armed
  <1> QED BY <1>1, <1>2, <1>3, TypeCorrect, PTL DEF Spec
=============================================================================
