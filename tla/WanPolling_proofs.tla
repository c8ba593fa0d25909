-------------------------- MODULE WanPolling_proofs --------------------------
(***************************************************************************)
(* Proofs about WanPolling, for every set of speeds and with reads that    *)
(* may fail.                                                               *)
(***************************************************************************)
EXTENDS WanPolling, TLAPS

\* Setting a speed keeps the type of the MAC register.
LEMMA WithSpeedType ==
    ASSUME NEW m \in Mac, NEW h \in Hcd
    PROVE  WithSpeed(m, h) \in Mac
<1>1. CASE h = 0
  BY <1>1 DEF WithSpeed
<1>2. CASE h # 0
  <2> DEFINE s == CASE h \in {6, 7} -> 2 [] h \in {3, 4, 5} -> 1 [] OTHER -> 0
             f == h \in {2, 4, 5, 7}
  <2>1. s \in 0 .. 2 /\ f \in BOOLEAN
    OBVIOUS
  <2>2. WithSpeed(m, h) = [m EXCEPT !.speed = s, !.full = f]
    BY <1>2 DEF WithSpeed
  <2> HIDE DEF s, f
  <2> QED
    BY <2>1, <2>2 DEF Mac
<1> QED
  BY <1>1, <1>2

\* Setting a speed twice is setting it once.
LEMMA WithSpeedTwice ==
    ASSUME NEW m \in Mac, NEW h \in Hcd
    PROVE  WithSpeed(WithSpeed(m, h), h) = WithSpeed(m, h)
<1>1. CASE h = 0
  BY <1>1 DEF WithSpeed
<1>2. CASE h # 0
  <2> DEFINE s == CASE h \in {6, 7} -> 2 [] h \in {3, 4, 5} -> 1 [] OTHER -> 0
             f == h \in {2, 4, 5, 7}
             Set(r) == [r EXCEPT !.speed = s, !.full = f]
  <2>1. \A r : WithSpeed(r, h) = Set(r)
    BY <1>2 DEF WithSpeed
  <2> HIDE DEF s, f
  <2>2. Set(Set(m)) = Set(m)
    BY DEF Mac
  <2> HIDE DEF Set
  <2> QED
    BY <2>1, <2>2
<1> QED
  BY <1>1, <1>2

\* The port-enable bit does not matter to the speed.
LEMMA WithSpeedEnabled ==
    ASSUME NEW m \in Mac, NEW h \in Hcd, NEW b \in BOOLEAN, m = WithSpeed(m, h)
    PROVE  [m EXCEPT !.enabled = b] = WithSpeed([m EXCEPT !.enabled = b], h)
BY DEF WithSpeed, Mac

\* Every step of wan_polling, of an open or close and of the PHY keeps the types.
THEOREM TypeCorrect == Spec => []TypeOK
<1>1. Init => TypeOK
  <2>1. NoLink \in Status
    BY WanAssumption DEF NoLink, Status
  <2>2. [speed |-> 2, full |-> TRUE, enabled |-> FALSE] \in Mac
    BY DEF Mac
  <2> QED
    BY <2>1, <2>2 DEF Init, TypeOK
<1>2. TypeOK /\ [Next]_vars => TypeOK'
  <2> SUFFICES ASSUME TypeOK, [Next]_vars PROVE TypeOK'
    OBVIOUS
  <2>1. ASSUME NEW d \in Status, PollRead(d) PROVE TypeOK'
    BY <2>1 DEF TypeOK, PollRead, portVars, Status
  <2>2. ASSUME NEW h \in Hcd, PollSpeed(h) PROVE TypeOK'
    BY <2>2, WithSpeedType DEF TypeOK, PollSpeed, portVars
  <2>3. ASSUME NEW enable \in BOOLEAN, PortLoad(enable) PROVE TypeOK'
    BY <2>3 DEF TypeOK, PortLoad, timerVars
  <2>4. CASE PortStore
    BY <2>4 DEF TypeOK, PortStore, timerVars, Mac
  <2>5. CASE PhyChange
    BY <2>5 DEF TypeOK, PhyChange, timerVars, portVars
  <2>6. CASE UNCHANGED vars
    BY <2>6 DEF TypeOK, vars, timerVars, portVars
  <2> QED
    BY <2>1, <2>2, <2>3, <2>4, <2>5, <2>6 DEF Next, Poll
<1> QED
  BY <1>1, <1>2, PTL DEF Spec

\* After any history of link and speed changes, of timed-out reads and of opens
\* and closes, the MAC has the speed that wan_polling last saw, or it is known
\* why not.
THEOREM SpeedFollowsCorrect == Spec => []SpeedFollows
<1>1. Init => SpeedFollows
  BY DEF Init, SpeedFollows, NoLink
<1>2. TypeOK /\ SpeedFollows /\ [Next]_vars => SpeedFollows'
  <2> SUFFICES ASSUME TypeOK, SpeedFollows, [Next]_vars PROVE SpeedFollows'
    OBVIOUS
  <2>1. ASSUME NEW d \in Status, PollRead(d) PROVE SpeedFollows'
    <3>1. CASE d = polling_status
      BY <2>1, <3>1 DEF SpeedFollows, PollRead
    <3>2. CASE d # polling_status
      BY <2>1, <3>2 DEF SpeedFollows, PollRead
    <3> QED
      BY <3>1, <3>2
  <2>2. ASSUME NEW h \in Hcd, PollSpeed(h) PROVE SpeedFollows'
    <3>1. CASE h = data.hcd
      BY <2>2, <3>1, WithSpeedTwice DEF SpeedFollows, PollSpeed, TypeOK
    <3>2. CASE h # data.hcd
      BY <2>2, <3>2 DEF SpeedFollows, PollSpeed
    <3> QED
      BY <3>1, <3>2
  <2>3. ASSUME NEW enable \in BOOLEAN, PortLoad(enable) PROVE SpeedFollows'
    BY <2>3 DEF SpeedFollows, PortLoad, timerVars
  <2>4. CASE PortStore
    <3>1. CASE loaded = mac
      <4>1. polling_status.hcd \in Hcd
        BY DEF TypeOK, Status
      <4>2. mac' = [mac EXCEPT !.enabled = on] /\ UNCHANGED timerVars
        BY <2>4, <3>1 DEF PortStore
      <4>3. clobbered' = clobbered /\ pc = "idle"
        BY <2>4, <3>1 DEF PortStore, TypeOK
      <4> QED
        BY <4>1, <4>2, <4>3, WithSpeedEnabled DEF SpeedFollows, TypeOK, timerVars
    <3>2. CASE loaded # mac
      BY <2>4, <3>2 DEF SpeedFollows, PortStore
    <3> QED
      BY <3>1, <3>2
  <2>5. CASE PhyChange
    BY <2>5 DEF SpeedFollows, PhyChange, timerVars
  <2>6. CASE UNCHANGED vars
    BY <2>6 DEF SpeedFollows, vars, timerVars
  <2> QED
    BY <2>1, <2>2, <2>3, <2>4, <2>5, <2>6 DEF Next, Poll
<1> QED
  BY <1>1, <1>2, TypeCorrect, PTL DEF Spec

-----------------------------------------------------------------------------

\* Between the two reads the carrier already is what the first one asks for.
CarrierAhead ==
    pc = "speed" => data.link = polling_status.link \/ carrier = data.link

\* Every remembered change of the link has set the carrier.
THEOREM CarrierFollowsCorrect == Spec => CarrierFollows
<1> DEFINE Told == polling_status'.link # polling_status.link
                       => carrier' = polling_status'.link
<1>1. Init => CarrierAhead
  BY DEF Init, CarrierAhead
<1>2. CarrierAhead /\ [Next]_vars => CarrierAhead' /\ (Told \/ UNCHANGED vars)
  <2> SUFFICES ASSUME CarrierAhead, [Next]_vars PROVE CarrierAhead' /\ (Told \/ UNCHANGED vars)
    OBVIOUS
  <2>1. ASSUME NEW d \in Status, PollRead(d) PROVE CarrierAhead' /\ Told
    BY <2>1 DEF CarrierAhead, PollRead
  <2>2. ASSUME NEW h \in Hcd, PollSpeed(h) PROVE CarrierAhead' /\ Told
    BY <2>2 DEF CarrierAhead, PollSpeed
  <2>3. ASSUME UNCHANGED timerVars PROVE CarrierAhead' /\ Told
    BY <2>3 DEF CarrierAhead, timerVars
  <2>4. UNCHANGED vars => UNCHANGED timerVars
    BY DEF vars
  <2>5. \A enable \in BOOLEAN : PortLoad(enable) => UNCHANGED timerVars
    BY DEF PortLoad
  <2>6. PortStore \/ PhyChange => UNCHANGED timerVars
    BY DEF PortStore, PhyChange
  <2> QED
    BY <2>1, <2>2, <2>3, <2>4, <2>5, <2>6 DEF Next, Poll
<1>3. CarrierAhead /\ [Next]_vars => [Told]_vars
  BY <1>2
<1> QED
  BY <1>1, <1>2, <1>3, PTL DEF Spec, CarrierFollows

=============================================================================
