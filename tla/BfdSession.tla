----------------------------- MODULE BfdSession -----------------------------
(***************************************************************************)
(* The two BFD sessions that two border routers run over one inter-domain  *)
(* link (go/pkg/router/bfd).  Each session is the select loop of           *)
(* Session.Run: it receives a packet, its send timer expires, or its       *)
(* detection timer expires.  The wire between them delays, and may lose,   *)
(* packets; a direction of the link may break; a router may restart.       *)
(*                                                                         *)
(* Time is counted in ticks.  A timer is the number of ticks left; 0 means *)
(* that it has fired and the loop has not read its channel yet.  Tick is   *)
(* disabled while a fired timer waits, and while a packet has been on the  *)
(* wire for MaxDelay ticks: the loop is taken to be fast compared with the *)
(* intervals, and the wire to have a bounded delay.                        *)
(***************************************************************************)
EXTENDS Integers, Sequences

CONSTANTS
  Sessions,              \* the two ends of the link
  Peer,                  \* Peer[s]: the other end
  NoDisc,                \* the discriminator 0: not bootstrapped
  DesiredMinTxInterval,  \* configured, per session
  RequiredMinRxInterval, \* configured, per session
  DetectMult,            \* configured, per session
  DefaultTx,             \* defaultTransmissionInterval
  DefaultDetect,         \* defaultDetectionTimeout
  MaxDelay,              \* bound on the time a packet is on the wire
  MaxLoss,               \* bound on the number of packets lost
  MaxRestarts,           \* bound on the number of router restarts
  MayCut,                \* the sessions whose incoming direction may break
  Foreign                \* sessions run by another RFC 5880 implementation,
                         \* which may announce AdminDown

Positive == Nat \ {0}

\* validateParameters: Run returns an error for any other configuration.
validateParameters ==
  /\ Peer \in [Sessions -> Sessions]
  /\ \A s \in Sessions : Peer[s] # s /\ Peer[Peer[s]] = s
  /\ NoDisc \notin Sessions
  /\ DesiredMinTxInterval \in [Sessions -> Positive]
  /\ RequiredMinRxInterval \in [Sessions -> Positive]
  /\ DetectMult \in [Sessions -> Positive]
  /\ DefaultTx \in Positive
  /\ DefaultDetect \in Positive
  /\ MaxDelay \in Nat /\ MaxLoss \in Nat /\ MaxRestarts \in Nat
  /\ MayCut \subseteq Sessions /\ Foreign \subseteq Sessions

ASSUME ConfigAssumption == validateParameters

VARIABLES
  localState, remoteDiscriminator, desiredMinTXInterval, remoteMinRxInterval,
  sendTimer, detectionTimer,
  wire,      \* wire[s]: the packets on their way to s, oldest first
  cut,       \* the sessions that nothing reaches any more
  losses, restarts,
  quiet,     \* history: ticks since s, while Up, last accepted a packet
  heard      \* history: whether s ever accepted a packet

session == <<localState, remoteDiscriminator, desiredMinTXInterval,
             remoteMinRxInterval, sendTimer, detectionTimer>>
vars == <<session, wire, cut, losses, restarts, quiet, heard>>

State == {"AdminDown", "Down", "Init", "Up"}

Packet == [state : State, your : Sessions \cup {NoDisc}, tx : Positive,
           rx : Positive, mult : Positive, age : Nat]

MaxOf(x, y) == IF x > y THEN x ELSE y

\* Mutant of transition: Down goes to Up without the Init state.
transitionNoInit(st, e) ==
  IF e = "Timer" THEN "Down"
  ELSE IF st = "Down" THEN IF e = "Up" THEN "Down" ELSE "Up"
  ELSE IF e = "Down" THEN "Down" ELSE "Up"

\* Mutant of transition: the timer is ignored in Init.
transitionInitStays(st, e) ==
  IF e = "Timer" THEN IF st = "Init" THEN "Init" ELSE "Down"
  ELSE IF st = "Down"
       THEN IF e = "Init" THEN "Up" ELSE IF e = "Down" THEN "Init" ELSE "Down"
  ELSE IF e \in {"Init", "Up"} THEN "Up"
  ELSE IF st = "Init" THEN "Init" ELSE "Down"

(***************************************************************************)
(* transition (fsm.go).  Events are the state the remote announces, and    *)
(* Timer; no code of the package ever produces eventAdminUp.               *)
(***************************************************************************)
transition(st, e) ==
  IF st = "AdminDown" \/ e = "AdminDown" THEN "AdminDown"
  ELSE IF e = "Timer" THEN "Down"
  ELSE IF st = "Down"
       THEN IF e = "Init" THEN "Up" ELSE IF e = "Down" THEN "Init" ELSE "Down"
  ELSE IF e \in {"Init", "Up"} THEN "Up"
  ELSE IF st = "Init" THEN "Init" ELSE "Down"

\* computeInterval: the interval reduced by a random 0..24 percent (10..24 when
\* the multiplier is 1), rounded down to whole ticks but to no less than one.
computeInterval(i, mult) ==
  { MaxOf(1, (i * (100 - j)) \div 100) : j \in (IF mult = 1 THEN 10 ELSE 0)..24 }

computeNextSendInterval(s, desired, remoteRx) ==
  computeInterval(MaxOf(desired, remoteRx), DetectMult[s])

\* Mutant of shouldDiscard: no exception for a session that is Down.
shouldDiscardAlways(st, m) == m.your = NoDisc

\* shouldDiscard, for packets whose fixed fields are well formed.
shouldDiscard(st, m) == m.your = NoDisc /\ st \notin {"AdminDown", "Down"}

\* Mutants of detectionTime: without the multiplier; a sum for the maximum.
detectionTimeOnce(s, m) == MaxOf(RequiredMinRxInterval[s], m.tx)
detectionTimeSum(s, m) == m.mult * (RequiredMinRxInterval[s] + m.tx)

\* The detection time that a packet negotiates.
detectionTime(s, m) == m.mult * MaxOf(RequiredMinRxInterval[s], m.tx)

Init ==
  /\ localState = [s \in Sessions |-> "Down"]
  /\ remoteDiscriminator = [s \in Sessions |-> NoDisc]
  /\ desiredMinTXInterval = [s \in Sessions |-> DefaultTx]
  /\ remoteMinRxInterval = [s \in Sessions |-> 0]
  /\ sendTimer \in [Sessions -> 1..DefaultTx]
  /\ detectionTimer = [s \in Sessions |-> DefaultDetect]
  /\ wire = [s \in Sessions |-> << >>]
  /\ cut = {}
  /\ losses = 0
  /\ restarts = 0
  /\ quiet = [s \in Sessions |-> 0]
  /\ heard = [s \in Sessions |-> FALSE]

Discard(s) ==
  /\ wire[s] # << >>
  /\ shouldDiscard(localState[s], Head(wire[s]))
  /\ wire' = [wire EXCEPT ![s] = Tail(@)]
  /\ UNCHANGED <<session, cut, losses, restarts, quiet, heard>>

\* The first case of the select, for a packet that is accepted.
Receive(s) ==
  /\ wire[s] # << >>
  /\ ~shouldDiscard(localState[s], Head(wire[s]))
  /\ LET m   == Head(wire[s])
         new == transition(localState[s], m.state)
         tx  == IF localState[s] = "Down" /\ new # "Down"
                THEN DesiredMinTxInterval[s] ELSE desiredMinTXInterval[s]
     IN /\ detectionTimer' = [detectionTimer EXCEPT ![s] = detectionTime(s, m)]
        /\ remoteMinRxInterval' = [remoteMinRxInterval EXCEPT ![s] = m.rx]
        /\ remoteDiscriminator' =
             [remoteDiscriminator EXCEPT ![s] = IF @ = NoDisc THEN Peer[s] ELSE @]
        /\ localState' = [localState EXCEPT ![s] = new]
        /\ desiredMinTXInterval' = [desiredMinTXInterval EXCEPT ![s] = tx]
        /\ IF localState[s] = "Down" /\ new # "Down"
           THEN \E i \in computeNextSendInterval(s, tx, m.rx) :
                  sendTimer' = [sendTimer EXCEPT ![s] = i]
           ELSE UNCHANGED sendTimer
  /\ wire' = [wire EXCEPT ![s] = Tail(@)]
  /\ quiet' = [quiet EXCEPT ![s] = 0]
  /\ heard' = [heard EXCEPT ![s] = TRUE]
  /\ UNCHANGED <<cut, losses, restarts>>

\* The second case of the select: the send timer.
packet(s, st) ==
  [state |-> st, your |-> remoteDiscriminator[s], tx |-> desiredMinTXInterval[s],
   rx |-> RequiredMinRxInterval[s], mult |-> DetectMult[s], age |-> 0]

Send(s) ==
  /\ sendTimer[s] = 0
  /\ \E i \in computeNextSendInterval(s, desiredMinTXInterval[s], remoteMinRxInterval[s]) :
       sendTimer' = [sendTimer EXCEPT ![s] = i]
  /\ \E st \in {localState[s]} \cup (IF s \in Foreign THEN {"AdminDown"} ELSE {}) :
       wire' = IF Peer[s] \in cut THEN wire
               ELSE [wire EXCEPT ![Peer[s]] = Append(@, packet(s, st))]
  /\ UNCHANGED <<localState, remoteDiscriminator, desiredMinTXInterval,
                 remoteMinRxInterval, detectionTimer, cut, losses, restarts, quiet, heard>>

\* The third case of the select: the detection timer.
DetectionExpires(s) ==
  /\ detectionTimer[s] = 0
  /\ detectionTimer' = [detectionTimer EXCEPT ![s] = DefaultDetect]
  /\ LET new == transition(localState[s], "Timer")
     IN /\ localState' = [localState EXCEPT ![s] = new]
        /\ desiredMinTXInterval' =
             [desiredMinTXInterval EXCEPT ![s] = IF new = "Down" THEN DefaultTx ELSE @]
        /\ quiet' = [quiet EXCEPT ![s] = IF new = "Up" THEN @ ELSE 0]
  /\ remoteDiscriminator' = [remoteDiscriminator EXCEPT ![s] = NoDisc]
  /\ UNCHANGED <<remoteMinRxInterval, sendTimer, wire, cut, losses, restarts, heard>>

(***************************************************************************)
(* The environment: a packet is lost, a direction of the link breaks for   *)
(* good, a router restarts (its session begins again at Run), time passes. *)
(***************************************************************************)
Lose(s) ==
  /\ losses < MaxLoss
  /\ wire[s] # << >>
  /\ wire' = [wire EXCEPT ![s] = Tail(@)]
  /\ losses' = losses + 1
  /\ UNCHANGED <<session, cut, restarts, quiet, heard>>

Cut(s) ==
  /\ s \in MayCut \ cut
  /\ cut' = cut \cup {s}
  /\ wire' = [wire EXCEPT ![s] = << >>]
  /\ UNCHANGED <<session, losses, restarts, quiet, heard>>

Restart(s) ==
  /\ restarts < MaxRestarts
  /\ restarts' = restarts + 1
  /\ localState' = [localState EXCEPT ![s] = "Down"]
  /\ remoteDiscriminator' = [remoteDiscriminator EXCEPT ![s] = NoDisc]
  /\ desiredMinTXInterval' = [desiredMinTXInterval EXCEPT ![s] = DefaultTx]
  /\ remoteMinRxInterval' = [remoteMinRxInterval EXCEPT ![s] = 0]
  /\ sendTimer' = [sendTimer EXCEPT ![s] = DefaultTx]
  /\ detectionTimer' = [detectionTimer EXCEPT ![s] = DefaultDetect]
  /\ quiet' = [quiet EXCEPT ![s] = 0]
  /\ UNCHANGED <<wire, cut, losses, heard>>

Older(m) == [state |-> m.state, your |-> m.your, tx |-> m.tx, rx |-> m.rx,
             mult |-> m.mult, age |-> m.age + 1]

Tick ==
  /\ \A s \in Sessions : /\ sendTimer[s] > 0
                         /\ detectionTimer[s] > 0
                         /\ \A i \in 1..Len(wire[s]) : wire[s][i].age < MaxDelay
  /\ sendTimer' = [s \in Sessions |-> sendTimer[s] - 1]
  /\ detectionTimer' = [s \in Sessions |-> detectionTimer[s] - 1]
  /\ wire' = [s \in Sessions |->
                [i \in 1..Len(wire[s]) |-> Older(wire[s][i])]]
  /\ quiet' = [s \in Sessions |->
                 IF localState[s] = "Up" THEN quiet[s] + 1 ELSE quiet[s]]
  /\ UNCHANGED <<localState, remoteDiscriminator, desiredMinTXInterval,
                 remoteMinRxInterval, cut, losses, restarts, heard>>

Program == \E s \in Sessions : Discard(s) \/ Receive(s) \/ Send(s) \/ DetectionExpires(s)

Next ==
  \/ \E s \in Sessions :
       \/ Discard(s) \/ Receive(s) \/ Send(s) \/ DetectionExpires(s)
       \/ Lose(s) \/ Cut(s) \/ Restart(s)
  \/ Tick

Spec == Init /\ [][Next]_vars

\* A loop that has something to do gets to run, else time passes.
FairSpec == Spec /\ WF_vars(Program \/ Tick)

-----------------------------------------------------------------------------
\* Every field of Session and every packet keeps the range that
\* validateParameters and the conversions to wire units establish.
TypeOK ==
  /\ localState \in [Sessions -> State]
  /\ remoteDiscriminator \in [Sessions -> Sessions \cup {NoDisc}]
  /\ desiredMinTXInterval \in [Sessions -> Positive]
  /\ remoteMinRxInterval \in [Sessions -> Nat]
  /\ sendTimer \in [Sessions -> Nat]
  /\ detectionTimer \in [Sessions -> Nat]
  /\ wire \in [Sessions -> Seq(Packet)]
  /\ cut \subseteq Sessions
  /\ losses \in Nat
  /\ restarts \in Nat
  /\ quiet \in [Sessions -> Nat]
  /\ heard \in [Sessions -> BOOLEAN]

\* The longest detection time that s can negotiate with its peer.
MaxDetection(s) ==
  DetectMult[Peer[s]] * MaxOf(RequiredMinRxInterval[s],
                              MaxOf(DefaultTx, DesiredMinTxInterval[Peer[s]]))

\* Failure detection: a session that reports Up accepted a packet no longer ago
\* than its detection time, whatever was lost, cut or restarted.
DetectionBound ==
  \A s \in Sessions : localState[s] = "Up" => quiet[s] <= MaxDetection(s)

\* The three-way handshake: a session reports Up only when packets got through
\* in both directions, so that a link that works one way never comes up.
UpNeedsBothDirections ==
  \A s \in Sessions : localState[s] = "Up" => heard[s] /\ heard[Peer[s]]

\* The strengthening of UpNeedsBothDirections that is inductive: a session has
\* left Down, and a packet announces that its sender has, only after the sender
\* heard the other end.
Handshake ==
  /\ \A s \in Sessions : localState[s] \in {"Init", "Up"} => heard[s]
  /\ \A s \in Sessions : localState[s] = "Up" => heard[Peer[s]]
  /\ \A s \in Sessions : \A i \in 1..Len(wire[s]) :
       wire[s][i].state \in {"Init", "Up"} => heard[Peer[s]]

\* The strengthening of DetectionBound that is inductive: what is left of the
\* detection timer and the time since the last packet never exceed the bound.
Armed ==
  /\ \A s \in Sessions : desiredMinTXInterval[s] \in {DefaultTx, DesiredMinTxInterval[s]}
  /\ \A s \in Sessions : \A i \in 1..Len(wire[s]) :
       /\ wire[s][i].tx \in {DefaultTx, DesiredMinTxInterval[Peer[s]]}
       /\ wire[s][i].mult = DetectMult[Peer[s]]
  /\ \A s \in Sessions :
       localState[s] = "Up" => quiet[s] + detectionTimer[s] <= MaxDetection(s)

\* No false alarm: when nothing is lost, broken or restarted, the detection timer
\* of a session that left Down never fires, in spite of jitter and of the change
\* between the default and the negotiated intervals.
NoFalseAlarm ==
  losses = 0 /\ restarts = 0 /\ cut = {} =>
    \A s \in Sessions : detectionTimer[s] = 0 => localState[s] \in {"AdminDown", "Down"}

\* Recovery: after the last loss and the last restart both sessions come Up and
\* stay Up, unless the link is broken.
EventuallyUp == <>[](cut # {} \/ \A s \in Sessions : localState[s] = "Up")

\* A direction that breaks takes both sessions out of Up for good, although the
\* end that notices announces Down with discriminator 0, which the other, while
\* Up, discards; the end that hears nothing settles in Down.
BrokenLinkGoesDown ==
  <>[](cut # {} => \A s \in Sessions :
         localState[s] # "Up" /\ (s \in cut => localState[s] = "Down"))

\* The comment on Session: a session never sends a packet with state AdminDown.
NeverSendsAdminDown ==
  \A s \in Sessions \ Foreign : \A i \in 1..Len(wire[Peer[s]]) :
    wire[Peer[s]][i].state # "AdminDown"

=============================================================================
