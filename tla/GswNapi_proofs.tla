--------------------------- MODULE GswNapi_proofs ---------------------------
(***************************************************************************)
(* Theorems about opening and closing, for any finite set of devices and   *)
(* any size of the ring.                                                   *)
(***************************************************************************)
EXTENDS GswNapi, FiniteSetTheorems, TLAPS

Up      == {d \in Dev : up[d]}
Opening == pc \in {"poll_enable", "enable", "install", "install_fsqf"}
Closing == pc \in {"poll_disable", "close_port"}

\* install_isr_account in every step of an open or close.
Account ==
    /\ Opening => ~up[dev]
    /\ Closing => up[dev]
    /\ install_isr_account = Cardinality(Up) - failed - (IF Closing THEN 1 ELSE 0)
    /\ pc = "install_fsqf" => install_isr_account = 0
    /\ failed <= Cardinality(Dev)

\* The handlers follow the account, until an installation fails.
Handlers ==
    failed = 0 =>
        IF pc = "install_fsqf" THEN fsrc_actions = 1 /\ ~fsqf_action
        ELSE IF install_isr_account > 0 THEN fsrc_actions = 1 /\ fsqf_action
        ELSE fsrc_actions = 0 /\ ~fsqf_action

\* With one user at a time, a listed poll has its RX_SCHED bit, and is listed
\* only while there is a handler, or a close that waits for it.
Quiet ==
    ~overlap /\ failed = 0 =>
        /\ Opening => \A d \in Dev : ~up[d]
        /\ poll_list => rx_sched
        /\ fsrc_actions = 0 /\ pc # "poll_disable" => ~poll_list
        /\ ~bug

NapiInv == TypeOK /\ Account /\ Handlers /\ Quiet

-----------------------------------------------------------------------------
(* Counting the devices that are up.                                       *)

LEMMA UpFinite ==
    ASSUME TypeOK
    PROVE  /\ Up \subseteq Dev /\ IsFiniteSet(Up)
           /\ Cardinality(Up) \in Nat /\ Cardinality(Dev) \in Nat
           /\ Cardinality(Up) = 0 <=> \A d \in Dev : ~up[d]
<1>1. Up \subseteq Dev
  BY DEF Up
<1>2. IsFiniteSet(Up) /\ IsFiniteSet(Dev)
  BY <1>1, NapiAssumption, FS_Subset
<1>3. Cardinality(Up) \in Nat /\ Cardinality(Dev) \in Nat
  BY <1>2, FS_CardinalityType
<1>4. Cardinality(Up) = 0 <=> Up = {}
  BY <1>2, FS_EmptySet
<1>5. Up = {} <=> \A d \in Dev : ~up[d]
  BY DEF Up
<1> QED
  BY <1>1, <1>2, <1>3, <1>4, <1>5

\* A device that comes up counts one more, and there was room for it.
LEMMA UpAdds ==
    ASSUME TypeOK, ~up[dev], up' = [up EXCEPT ![dev] = TRUE]
    PROVE  /\ Cardinality(Up') = Cardinality(Up) + 1
           /\ Cardinality(Up) + 1 <= Cardinality(Dev)
<1>1. Up' = Up \cup {dev} /\ dev \notin Up /\ Up \cup {dev} \subseteq Dev
  BY DEF Up, TypeOK
<1>2. Cardinality(Up \cup {dev}) = Cardinality(Up) + 1
  BY <1>1, UpFinite, FS_AddElement
<1>3. Cardinality(Up \cup {dev}) <= Cardinality(Dev)
  BY <1>1, NapiAssumption, FS_Subset
<1> QED
  BY <1>1, <1>2, <1>3

LEMMA DownRemoves ==
    ASSUME TypeOK, up[dev], up' = [up EXCEPT ![dev] = FALSE]
    PROVE  Cardinality(Up') = Cardinality(Up) - 1
<1>1. Up' = Up \ {dev} /\ dev \in Up
  BY DEF Up, TypeOK
<1> QED
  BY <1>1, UpFinite, FS_RemoveElement

-----------------------------------------------------------------------------
(* The steps of an open.                                                   *)

\* A step that changes neither the devices nor the account keeps the account, if
\* it stays on the same side of Closing.
LEMMA AccountKept ==
    ASSUME Account, UNCHANGED <<up, install_isr_account, failed>>,
           Closing' <=> Closing,
           Opening' => ~up[dev'], Closing' => up[dev'],
           pc' = "install_fsqf" => install_isr_account = 0
    PROVE  Account'
<1>1. Up' = Up
  BY DEF Up
<1> QED
  BY <1>1 DEF Account

LEMMA OpenStep ==
    ASSUME NapiInv, NEW d \in Dev, OpenPort(d)
    PROVE  NapiInv'
<1> USE DEF NapiInv, OpenPort, isrVars, irqVars, napiVars, Opening, Closing
<1>1. TypeOK'
  BY DEF TypeOK
<1>2. Account'
  BY AccountKept
<1>3. Handlers'
  BY DEF Handlers
<1>4. Quiet'
  BY DEF Quiet, TypeOK
<1> QED
  BY <1>1, <1>2, <1>3, <1>4

LEMMA PollEnableStep ==
    ASSUME NapiInv, OpenPollEnable
    PROVE  NapiInv'
<1> USE DEF NapiInv, OpenPollEnable, devVars, isrVars, irqVars, histVars, Opening, Closing
<1>1. TypeOK'
  BY DEF TypeOK
<1>2. Account'
  BY AccountKept DEF Account
<1>3. Handlers'
  BY DEF Handlers
<1>4. Quiet'
  <2> SUFFICES ASSUME ~overlap, failed = 0
               PROVE  ~poll_list /\ (\A d \in Dev : ~up[d]) /\ ~bug
    BY DEF Quiet
  <2>1. \A d \in Dev : ~up[d]
    BY DEF Quiet
  <2>2. install_isr_account = 0
    BY <2>1, UpFinite DEF Account
  <2>3. fsrc_actions = 0
    BY <2>2 DEF Handlers
  <2> QED
    BY <2>1, <2>3 DEF Quiet
<1> QED
  BY <1>1, <1>2, <1>3, <1>4

LEMMA EnableStep ==
    ASSUME NapiInv, OpenEnable
    PROVE  NapiInv'
<1> USE DEF NapiInv, OpenEnable, devVars, isrVars, napiVars, histVars, Opening, Closing
<1>1. TypeOK'
  BY DEF TypeOK
<1>2. Account'
  BY AccountKept DEF Account
<1>3. Handlers'
  BY DEF Handlers
<1>4. Quiet'
  BY DEF Quiet
<1> QED
  BY <1>1, <1>2, <1>3, <1>4

LEMMA CountStep ==
    ASSUME NapiInv, InstallCount
    PROVE  NapiInv'
<1> USE DEF NapiInv, InstallCount, irqVars, napiVars, histVars, Opening, Closing
<1>1. TypeOK'
  BY DEF TypeOK
<1>2. /\ Cardinality(Up') = Cardinality(Up) + 1
      /\ Cardinality(Up) \in Nat /\ failed \in Nat
      /\ install_isr_account = Cardinality(Up) - failed
  BY UpAdds, UpFinite DEF Account, TypeOK
<1>3. Account'
  BY <1>2 DEF Account
<1>4. Handlers'
  BY <1>2 DEF Handlers
<1>5. Quiet'
  BY DEF Quiet
<1> QED
  BY <1>1, <1>3, <1>4, <1>5

LEMMA FsrcStep ==
    ASSUME NapiInv, InstallFsrc
    PROVE  NapiInv'
<1> USE DEF NapiInv, InstallFsrc, devVars, napiVars, irqVars, histVars, Opening, Closing
<1>1. TypeOK'
  <2>1. fsrc_actions' \in Nat /\ disable_depth' \in {0, 1}
    BY DEF TypeOK
  <2>2. masked' \in BOOLEAN /\ fsrc' \in BOOLEAN
    BY DEF TypeOK
  <2> QED
    BY <2>1, <2>2 DEF TypeOK
<1>2. Account'
  BY AccountKept DEF Account
<1>3. Handlers'
  BY DEF Handlers
<1>4. Quiet'
  BY DEF Quiet, TypeOK
<1> QED
  BY <1>1, <1>2, <1>3, <1>4

LEMMA FsqfStep ==
    ASSUME NapiInv, InstallFsqf
    PROVE  NapiInv'
<1> USE DEF NapiInv, InstallFsqf, irqVars, napiVars, histVars, Opening, Closing
<1>1. TypeOK'
  BY DEF TypeOK
<1>2. /\ Cardinality(Up') = Cardinality(Up) + 1
      /\ Cardinality(Up) \in Nat /\ failed \in Nat
      /\ install_isr_account = Cardinality(Up) - failed
      /\ install_isr_account = 0
  BY UpAdds, UpFinite DEF Account, TypeOK
<1>3. Account'
  BY <1>2 DEF Account
<1>4. Handlers'
  BY <1>2 DEF Handlers
<1>5. Quiet'
  BY DEF Quiet
<1> QED
  BY <1>1, <1>3, <1>4, <1>5

\* A failure is counted when the account is 0, that is when all devices that are
\* up had a failure: there is a device left for this one.
LEMMA FailStep ==
    ASSUME NapiInv, InstallFails
    PROVE  NapiInv'
<1> USE DEF NapiInv, InstallFails, isrVars, irqVars, napiVars, Opening, Closing
<1>1. TypeOK'
  BY DEF TypeOK
<1>2. /\ Cardinality(Up') = Cardinality(Up) + 1
      /\ Cardinality(Up) + 1 <= Cardinality(Dev)
      /\ Cardinality(Up) \in Nat /\ Cardinality(Dev) \in Nat /\ failed \in Nat
      /\ install_isr_account = Cardinality(Up) - failed
      /\ install_isr_account = 0
  BY UpAdds, UpFinite DEF Account, TypeOK
<1>3. Account'
  BY <1>2 DEF Account
<1>4. failed' # 0
  BY <1>2
<1> QED
  BY <1>1, <1>3, <1>4 DEF Handlers, Quiet

-----------------------------------------------------------------------------
(* The steps of a close.                                                   *)

LEMMA UninstallStep ==
    ASSUME NapiInv, NEW d \in Dev, CloseUninstall(d)
    PROVE  NapiInv'
<1> USE DEF NapiInv, CloseUninstall, devVars, irqVars, napiVars, histVars, Opening, Closing
<1>1. TypeOK'
  <2>1. install_isr_account' \in Int /\ fsrc_actions' \in Nat
    BY DEF TypeOK
  <2>2. fsqf_action' \in BOOLEAN /\ pc' \in {"poll_disable", "close_port"}
    BY DEF TypeOK
  <2> QED
    BY <2>1, <2>2 DEF TypeOK
<1>2. /\ Up' = Up /\ Cardinality(Up) \in Nat /\ Cardinality(Up) # 0 /\ failed \in Nat
      /\ install_isr_account = Cardinality(Up) - failed
  BY UpFinite DEF Account, TypeOK, Up
<1>3. Account'
  BY <1>2 DEF Account
<1>4. Handlers'
  BY <1>2 DEF Handlers
<1>5. Quiet'
  BY DEF Quiet
<1> QED
  BY <1>1, <1>3, <1>4, <1>5

LEMMA PollDisableStep ==
    ASSUME NapiInv, ClosePollDisable
    PROVE  NapiInv'
<1> USE DEF NapiInv, ClosePollDisable, devVars, isrVars, irqVars, histVars, Opening, Closing
<1>1. TypeOK'
  BY DEF TypeOK
<1>2. Account'
  BY AccountKept DEF Account
<1>3. Handlers'
  BY DEF Handlers
<1>4. Quiet'
  BY DEF Quiet
<1> QED
  BY <1>1, <1>2, <1>3, <1>4

LEMMA ClosePortStep ==
    ASSUME NapiInv, ClosePort
    PROVE  NapiInv'
<1> USE DEF NapiInv, ClosePort, isrVars, irqVars, napiVars, histVars, Opening, Closing
<1>1. TypeOK'
  BY DEF TypeOK
<1>2. /\ Cardinality(Up') = Cardinality(Up) - 1
      /\ Cardinality(Up) \in Nat /\ failed \in Nat
      /\ install_isr_account = Cardinality(Up) - failed - 1
  BY DownRemoves, UpFinite DEF Account, TypeOK
<1>3. Account'
  BY <1>2 DEF Account
<1>4. Handlers'
  BY DEF Handlers
<1>5. Quiet'
  BY DEF Quiet
<1> QED
  BY <1>1, <1>3, <1>4, <1>5

-----------------------------------------------------------------------------
(* Traffic, interrupt and poll.                                            *)

LEMMA TrafficStep ==
    ASSUME NapiInv, ~bug, Arrive \/ Interrupt \/ Poll
    PROVE  NapiInv'
<1> USE DEF NapiInv, Opening, Closing
<1>1. UNCHANGED <<devVars, isrVars, pc, dev, histVars>>
  BY DEF Arrive, Interrupt, Poll, PollWork, PollComplete
<1>2. Account' /\ Handlers'
  BY <1>1 DEF Account, Handlers, Up, devVars, isrVars, histVars
<1>3. CASE Arrive
  <2>1. TypeOK'
    BY <1>3, NapiAssumption DEF Arrive, TypeOK, devVars, isrVars, napiVars, histVars
  <2> QED
    BY <1>2, <1>3, <2>1 DEF Arrive, Quiet, devVars, isrVars, napiVars, histVars
<1>4. CASE Interrupt
  <2>1. TypeOK'
    BY <1>4 DEF Interrupt, TypeOK, devVars, isrVars, napiVars, histVars
  <2> QED
    BY <1>2, <1>4, <2>1 DEF Interrupt, Quiet, devVars, isrVars, napiVars, histVars
<1>5. ASSUME NEW n \in 1 .. RING, PollWork(n) PROVE NapiInv'
  <2>1. TypeOK'
    BY <1>5, NapiAssumption DEF PollWork, TypeOK, devVars, isrVars, irqVars, napiVars, histVars
  <2> QED
    BY <1>2, <1>5, <2>1 DEF PollWork, Quiet, devVars, isrVars, napiVars, histVars
<1>6. CASE PollComplete
  <2>0. /\ disable_depth' \in {0, 1} /\ frames' = frames
        /\ masked' \in BOOLEAN /\ fsrc' \in BOOLEAN
        /\ rx_sched' \in BOOLEAN /\ poll_list' \in BOOLEAN /\ bug' \in BOOLEAN
    <3>1. CASE ~rx_sched
      BY <1>6, <3>1 DEF PollComplete, TypeOK, irqVars, napiVars
    <3>2. CASE rx_sched
      <4>1. /\ rx_sched' = FALSE /\ poll_list' = FALSE /\ bug' = FALSE
            /\ disable_depth' = IF disable_depth = 0 THEN 0 ELSE disable_depth - 1
            /\ frames' = frames
        BY <1>6, <3>2 DEF PollComplete
      <4>2. masked' \in BOOLEAN /\ fsrc' \in BOOLEAN
        BY <1>6, <3>2 DEF PollComplete, TypeOK
      <4>3. disable_depth' \in {0, 1}
        BY <4>1 DEF TypeOK
      <4> QED
        BY <4>1, <4>2, <4>3
    <3> QED
      BY <3>1, <3>2
  <2>1. TypeOK'
    BY <1>1, <2>0 DEF TypeOK, devVars, isrVars, histVars
  <2> QED
    BY <1>2, <1>6, <2>1 DEF PollComplete, Quiet, devVars, isrVars, napiVars, histVars
<1> QED
  BY <1>3, <1>4, <1>5, <1>6 DEF Poll

-----------------------------------------------------------------------------
(* Theorems.                                                               *)

\* The inductive invariant.
THEOREM NapiInvCorrect == Spec => []NapiInv
<1>1. Init => NapiInv
  <2> SUFFICES ASSUME Init PROVE NapiInv
    OBVIOUS
  <2>1. TypeOK
    <3>1. 0 \in 0 .. RING /\ frames = 0
      BY NapiAssumption DEF Init
    <3>2. up \in [Dev -> BOOLEAN] /\ port \in [Dev -> BOOLEAN]
      BY DEF Init
    <3>3. /\ fsqf_action = FALSE /\ fsrc = FALSE /\ masked = TRUE /\ rx_sched = FALSE
          /\ poll_list = FALSE /\ bug = FALSE /\ overlap = FALSE
      BY DEF Init
    <3>5. /\ fsqf_action \in BOOLEAN /\ fsrc \in BOOLEAN /\ masked \in BOOLEAN
          /\ rx_sched \in BOOLEAN /\ poll_list \in BOOLEAN /\ bug \in BOOLEAN
          /\ overlap \in BOOLEAN
      BY <3>3, Zenon
    <3>4. /\ install_isr_account = 0 /\ fsrc_actions = 0 /\ disable_depth = 0 /\ failed = 0
          /\ pc = "idle" /\ dev \in Dev
      BY DEF Init
    <3> QED
      BY <3>1, <3>2, <3>4, <3>5 DEF TypeOK
  <2>2. Cardinality(Up) = 0 /\ Cardinality(Dev) \in Nat
    BY <2>1, UpFinite DEF Init
  <2>3. Account
    <3>1. pc = "idle" /\ failed = 0 /\ install_isr_account = 0
      BY DEF Init
    <3>2. ~Opening /\ ~Closing
      BY <3>1 DEF Opening, Closing
    <3>3. install_isr_account = Cardinality(Up) - failed - 0 /\ failed <= Cardinality(Dev)
      BY <3>1, <2>2
    <3> QED
      BY <3>1, <3>2, <3>3, Zenon DEF Account
  <2> QED
    BY <2>1, <2>3 DEF Init, NapiInv, Handlers, Quiet, Opening
<1>2. NapiInv /\ [Next]_vars => NapiInv'
  <2> SUFFICES ASSUME NapiInv, [Next]_vars PROVE NapiInv'
    OBVIOUS
  <2>1. CASE UNCHANGED vars
    BY <2>1 DEF vars, devVars, isrVars, irqVars, napiVars, histVars, NapiInv, TypeOK, Account,
                Handlers, Quiet, Opening, Closing, Up
  <2>2. CASE ~bug /\ Ifconfig
    BY <2>2, OpenStep, PollEnableStep, EnableStep, CountStep, FsrcStep, FsqfStep, FailStep,
       UninstallStep, PollDisableStep, ClosePortStep
    DEF Ifconfig
  <2> QED
    BY <2>1, <2>2, TrafficStep DEF Next
<1> QED
  BY <1>1, <1>2, PTL DEF Spec

\* The variables keep their types.
THEOREM TypeCorrect == Spec => []TypeOK
  BY NapiInvCorrect, PTL DEF NapiInv

\* install_isr_account is the number of devices up less the failures, of which
\* there are never more than devices.
THEOREM AccountCountsDevicesCorrect == Spec => []AccountCountsDevices
<1>1. NapiInv => AccountCountsDevices
  <2> SUFFICES ASSUME NapiInv, pc = "idle"
               PROVE  /\ install_isr_account = Cardinality(Up) - failed
                      /\ failed <= Cardinality(Dev)
    BY DEF AccountCountsDevices, Up
  <2>1. Cardinality(Up) \in Nat /\ failed \in Nat
    BY UpFinite DEF NapiInv, TypeOK
  <2> QED
    BY <2>1 DEF NapiInv, Account, Closing
<1> QED
  BY <1>1, NapiInvCorrect, PTL

\* The handlers are installed, once, exactly while some device is up.
THEOREM UpMeansHandlersCorrect == Spec => []UpMeansHandlers
<1>1. NapiInv => UpMeansHandlers
  <2> SUFFICES ASSUME NapiInv, pc = "idle", failed = 0
               PROVE  IF \E d \in Dev : up[d] THEN fsrc_actions = 1 /\ fsqf_action
                      ELSE fsrc_actions = 0 /\ ~fsqf_action
    BY DEF UpMeansHandlers
  <2>1. /\ Cardinality(Up) \in Nat /\ install_isr_account = Cardinality(Up)
        /\ Cardinality(Up) = 0 <=> \A d \in Dev : ~up[d]
    BY UpFinite DEF NapiInv, Account, Closing
  <2> QED
    BY <2>1 DEF NapiInv, Handlers
<1> QED
  BY <1>1, NapiInvCorrect, PTL

\* After the last close no poll is listed, and none can be.
THEOREM DownMeansQuietCorrect == Spec => []DownMeansQuiet
<1>1. NapiInv => DownMeansQuiet
  <2> SUFFICES ASSUME NapiInv, pc = "idle", \A d \in Dev : ~up[d], ~overlap, failed = 0
               PROVE  ~poll_list
    BY DEF DownMeansQuiet
  <2>1. install_isr_account = 0
    BY UpFinite DEF NapiInv, Account, Closing
  <2>2. fsrc_actions = 0
    BY <2>1 DEF NapiInv, Handlers
  <2> QED
    BY <2>2 DEF NapiInv, Quiet
<1> QED
  BY <1>1, NapiInvCorrect, PTL

\* With one device used at a time, and handlers that get installed, netif_rx_complete
\* never meets its BUG_ON.
THEOREM OneUserNoBugCorrect == Spec => []OneUserNoBug
<1>1. NapiInv => OneUserNoBug
  BY DEF NapiInv, Quiet, OneUserNoBug, TypeOK
<1> QED
  BY <1>1, NapiInvCorrect, PTL

=============================================================================
