---------------------------- MODULE Board_proofs ----------------------------
(***************************************************************************)
(* Theorems about the watchdog and the reset button of a board, for every  *)
(* length of a second, every set of margins and all thresholds.            *)
(***************************************************************************)
EXTENDS Board, TLAPS

\* What ResetOnlyWhenHung rests on: the hardware's counter is ahead of the kernel
\* timer that loads it again, and no file is open without the module.
Ahead ==
    /\ ~loaded => files = 0
    /\ loaded /\ ~unfed /\ soft_margin # 0 /\ ~hung
           => wdTimer >= 0 /\ hw.count > wdTimer

\* What the button's decisions rest on: the counter's seconds, less what is left
\* of the present one, are the time that the button has been down, up to a scan.
CounterIsTime ==
    /\ ~button_pressed => counter = 0 /\ pbTimer <= SCAN_RATE
    /\ pressed /\ ~bounced /\ pbTimer # NONE =>
           /\ ~hung => held + pbTimer <= SECOND * counter + SCAN_RATE
           /\ held + pbTimer >= SECOND * counter
    /\ button_pressed /\ ~pressed /\ ~bounced /\ pbTimer # NONE =>
           /\ ~hung => held <= SECOND * counter + SCAN_RATE
           /\ held >= SECOND * (counter - 1)

-----------------------------------------------------------------------------
(* Arithmetic.                                                             *)

LEMMA DelayType == \A m \in Nat : Delay(m) \in Nat /\ Delay(m) > 0
<1>1. \A m \in Nat : m # 0 => SECOND * m \in Nat /\ SECOND * m > 0
  BY SecondAssumption
<1> QED
  BY <1>1 DEF Delay

LEMMA RatioAhead ==
    \A m \in Nat : /\ HW_RATIO * SECOND * m \in Nat
                   /\ m # 0 => HW_RATIO * SECOND * m > Delay(m)
<1> SUFFICES ASSUME NEW m \in Nat
             PROVE  /\ HW_RATIO * SECOND * m \in Nat
                    /\ m # 0 => HW_RATIO * SECOND * m > Delay(m)
  OBVIOUS
<1> DEFINE n == SECOND * m
<1>1. n \in Nat /\ (m # 0 => n > 0 /\ Delay(m) = n)
  BY SecondAssumption DEF Delay
<1>2. HW_RATIO * SECOND * m = HW_RATIO * n
  BY SecondAssumption, WatchdogAssumption
<1> HIDE DEF n
<1>3. HW_RATIO * n \in Nat /\ (n > 0 => HW_RATIO * n > n)
  BY <1>1, WatchdogAssumption
<1> QED
  BY <1>1, <1>2, <1>3

LEMMA MarginType == \A m \in Margin : m \in Nat
  BY WatchdogAssumption

LEMMA Seconds ==
    \A k \in Nat : /\ SECOND * k \in Nat
                   /\ SECOND * (k + 1) = SECOND * k + SECOND
                   /\ SECOND * (k - 1) = SECOND * k - SECOND
  BY SecondAssumption

LEMMA SecondsMonotone == \A j, k \in Nat : j <= k => SECOND * j <= SECOND * k
  BY SecondAssumption

LEMMA TickSum ==
    \A h, hh, t, tt, s \in Nat :
        /\ hh = h + 1 \/ (hh = h /\ s <= h)
        /\ tt = t \/ tt = t - 1
        => /\ tt = t - 1 /\ h + t <= s + 1 => hh + tt <= s + 1
           /\ h + t >= s => hh + tt >= s
  OBVIOUS

-----------------------------------------------------------------------------
(* Types.                                                                  *)

LEMMA TypeInit == Init => TypeOK
<1> SUFFICES ASSUME Init PROVE TypeOK
  OBVIOUS
<1>1. loaded \in BOOLEAN /\ shared \in BOOLEAN /\ unfed \in BOOLEAN
  BY DEF Init, WatchdogInit
<1>2. files \in 0 .. MAX_FILES /\ soft_margin \in Margin
  BY WatchdogAssumption DEF Init, WatchdogInit
<1>3. wdTimer \in Nat \cup {NONE} /\ orphan \in Nat \cup {NONE}
  BY DEF Init, WatchdogInit, NONE
<1>4. hw \in [on : BOOLEAN, rst : BOOLEAN, count : Nat]
  BY WatchdogAssumption DEF Init, WatchdogInit
<1>5. pressed \in BOOLEAN /\ button_pressed \in BOOLEAN /\ bounced \in BOOLEAN
  BY DEF Init, ButtonInit
<1>6. counter \in 0 .. FACTORY_RESET_THRESHOLD /\ held \in 0 .. HeldMax
  BY ButtonAssumption, Seconds, SecondAssumption DEF Init, ButtonInit, HeldMax
<1>7. pbTimer \in {NONE} \cup 0 .. SECOND /\ file \in {"none", "factory", "custom"}
  BY SecondAssumption DEF Init, ButtonInit, SCAN_RATE
<1>8. hung \in BOOLEAN
  BY DEF Init
<1> QED
  BY <1>1, <1>2, <1>3, <1>4, <1>5, <1>6, <1>7, <1>8 DEF TypeOK, WatchdogTypeOK, ButtonTypeOK

\* A ping keeps the types.
LEMMA PingType ==
    ASSUME NEW m \in Margin, NEW h \in [on : BOOLEAN, rst : BOOLEAN, count : Nat],
           watchdog_ping(m, h)
    PROVE  /\ wdTimer' \in Nat /\ wdTimer' > 0
           /\ hw' \in [on : BOOLEAN, rst : BOOLEAN, count : Nat]
           /\ unfed' = FALSE
           /\ hw'.on = h.on
           /\ m # 0 => hw'.count > wdTimer'
  BY MarginType, DelayType, RatioAhead DEF watchdog_ping

LEMMA HwinitType ==
    ASSUME NEW h \in [on : BOOLEAN, rst : BOOLEAN, count : Nat]
    PROVE  /\ Hwinit(h) \in [on : BOOLEAN, rst : BOOLEAN, count : Nat]
           /\ Hwinit(h).on = TRUE
           /\ Hwinit(h).count = h.count
  BY DEF Hwinit

-----------------------------------------------------------------------------
(* The watchdog.                                                           *)

WatchdogInv == WatchdogTypeOK /\ Ahead /\ OnWhileOpen

LEMMA RestartWatchdog == Restart => WatchdogInv'
<1> SUFFICES ASSUME Restart PROVE WatchdogInv'
  OBVIOUS
<1>1. hw' \in [on : BOOLEAN, rst : BOOLEAN, count : Nat]
  BY WatchdogAssumption DEF Restart, WatchdogBoot
<1>2. /\ files' = 0 /\ 0 \in 0 .. MAX_FILES
      /\ soft_margin' = TIMER_MARGIN /\ TIMER_MARGIN \in Margin
  BY WatchdogAssumption DEF Restart, WatchdogBoot
<1>3. WatchdogTypeOK'
  BY <1>1, <1>2 DEF Restart, WatchdogBoot, WatchdogTypeOK, NONE
<1> QED
  BY <1>3 DEF Restart, WatchdogBoot, WatchdogInv, Ahead, OnWhileOpen

LEMMA DriverCallWatchdog ==
    ASSUME hung \in BOOLEAN, WatchdogInv, DriverCall
    PROVE  WatchdogInv'
<1> USE DEF WatchdogInv, WatchdogTypeOK, Ahead, OnWhileOpen
<1>0. hung' = hung
  BY DEF DriverCall
<1>1. CASE str9100_watchdog_init
  <2>1. /\ Hwinit(hw) \in [on : BOOLEAN, rst : BOOLEAN, count : Nat]
        /\ Hwinit(hw).count = hw.count
    BY HwinitType
  <2>2. /\ Delay(TIMER_MARGIN) \in Nat
        /\ HW_RESET > Delay(TIMER_MARGIN)
        /\ TIMER_MARGIN \in Margin
    BY DelayType, WatchdogAssumption, SecondAssumption DEF Delay
  <2>3. files = 0 /\ files' = 0 /\ loaded' = TRUE /\ soft_margin' = TIMER_MARGIN
        /\ shared' = FALSE /\ orphan' = orphan
    BY <1>1 DEF str9100_watchdog_init
  <2>4. wdTimer' = Delay(TIMER_MARGIN) /\ hw' = Hwinit(hw)
    BY <1>1 DEF str9100_watchdog_init
  <2>5. unfed' \in BOOLEAN /\ (~unfed' => hw.count = HW_RESET)
    BY <1>1 DEF str9100_watchdog_init
  <2>6. WatchdogTypeOK'
    BY <2>1, <2>2, <2>3, <2>4, <2>5 DEF NONE
  <2> QED
    BY <2>1, <2>2, <2>3, <2>4, <2>5, <2>6
<1>2. CASE str9100_watchdog_exit
  <2>1. WatchdogTypeOK'
    BY <1>2 DEF str9100_watchdog_exit, NONE
  <2> QED
    BY <2>1, <1>2 DEF str9100_watchdog_exit
<1>3. CASE watchdog_open
  <2>1. /\ Hwinit(hw) \in [on : BOOLEAN, rst : BOOLEAN, count : Nat]
        /\ Hwinit(hw).on = TRUE
    BY HwinitType
  <2>2. watchdog_ping(soft_margin, Hwinit(hw))
    BY <1>3 DEF watchdog_open
  <2>3. /\ wdTimer' \in Nat /\ wdTimer' > 0
        /\ hw' \in [on : BOOLEAN, rst : BOOLEAN, count : Nat]
        /\ unfed' = FALSE /\ hw'.on = TRUE
        /\ soft_margin # 0 => hw'.count > wdTimer'
    BY <2>1, <2>2, PingType
  <2>4. /\ loaded /\ files < MAX_FILES /\ files' = files + 1
        /\ shared' = FALSE /\ loaded' = loaded
        /\ soft_margin' = soft_margin /\ orphan' = orphan
    BY <1>3 DEF watchdog_open
  <2>5. files' \in 0 .. MAX_FILES
    BY <2>4, WatchdogAssumption
  <2>6. WatchdogTypeOK'
    BY <2>3, <2>4, <2>5 DEF NONE
  <2> QED
    BY <2>3, <2>4, <2>6
<1>4. CASE watchdog_release
  <2>1. hw' \in [on : BOOLEAN, rst : BOOLEAN, count : Nat] /\ hw'.count = hw.count
    BY <1>4 DEF watchdog_release
  <2>2. files > 0 /\ files' = files - 1 /\ files' \in 0 .. MAX_FILES
    BY <1>4, WatchdogAssumption DEF watchdog_release
  <2>3. shared' \in BOOLEAN /\ (files > 1 => shared')
    BY <1>4 DEF watchdog_release
  <2>4. UNCHANGED <<loaded, soft_margin, wdTimer, orphan, unfed>>
    BY <1>4 DEF watchdog_release
  <2>5. WatchdogTypeOK'
    BY <2>1, <2>2, <2>3, <2>4
  <2> QED
    BY <2>1, <2>2, <2>3, <2>4, <2>5, <1>0
<1>5. CASE watchdog_write
  <2>1. /\ wdTimer' \in Nat /\ wdTimer' > 0
        /\ hw' \in [on : BOOLEAN, rst : BOOLEAN, count : Nat]
        /\ unfed' = FALSE /\ hw'.on = hw.on
        /\ soft_margin # 0 => hw'.count > wdTimer'
    BY <1>5, PingType DEF watchdog_write
  <2>2. files > 0 /\ UNCHANGED <<loaded, files, soft_margin, orphan, shared>>
    BY <1>5 DEF watchdog_write
  <2>3. WatchdogTypeOK'
    BY <2>1, <2>2 DEF NONE
  <2> QED
    BY <2>1, <2>2, <2>3
<1>6. ASSUME NEW m \in Margin, watchdog_settimeout(m)
      PROVE  WatchdogInv'
  <2>1. /\ Hwinit(hw) \in [on : BOOLEAN, rst : BOOLEAN, count : Nat]
        /\ Hwinit(hw).on = TRUE
    BY HwinitType
  <2>2. watchdog_ping(m, Hwinit(hw))
    BY <1>6 DEF watchdog_settimeout
  <2>3. /\ wdTimer' \in Nat /\ wdTimer' > 0
        /\ hw' \in [on : BOOLEAN, rst : BOOLEAN, count : Nat]
        /\ unfed' = FALSE /\ hw'.on = TRUE
        /\ m # 0 => hw'.count > wdTimer'
    BY <2>1, <2>2, PingType
  <2>4. WatchdogTypeOK'
    BY <2>3, <1>6 DEF watchdog_settimeout, NONE
  <2> QED
    BY <2>3, <2>4, <1>6 DEF watchdog_settimeout
<1> QED
  BY <1>1, <1>2, <1>3, <1>4, <1>5, <1>6 DEF DriverCall

LEMMA WatchdogStep ==
    ASSUME hung \in BOOLEAN, WatchdogInv, [Next]_vars
    PROVE  WatchdogInv'
<1> USE DEF WatchdogInv, WatchdogTypeOK, Ahead, OnWhileOpen
<1>1. CASE DriverCall
  BY <1>1, DriverCallWatchdog
<1>2. CASE TimerCall
  <2>1. /\ wdTimer' \in Nat /\ wdTimer' > 0
        /\ hw' \in [on : BOOLEAN, rst : BOOLEAN, count : Nat]
        /\ unfed' = FALSE /\ hw'.on = hw.on
        /\ soft_margin # 0 => hw'.count > wdTimer'
    BY <1>2, PingType DEF TimerCall, WatchdogTimer
  <2>2. WatchdogTypeOK'
    BY <2>1, <1>2 DEF TimerCall, WatchdogTimer, NONE
  <2> QED
    BY <2>1, <2>2, <1>2 DEF TimerCall, WatchdogTimer
<1>3. CASE OrphanCall
  <2>1. WatchdogTypeOK'
    BY <1>3 DEF OrphanCall, OrphanTimer, NONE
  <2> QED
    BY <2>1, <1>3 DEF OrphanCall, OrphanTimer
<1>4. ASSUME NEW opened \in BOOLEAN, ButtonPoll(opened) PROVE WatchdogInv'
  BY <1>4 DEF ButtonPoll, wdVars
<1>5. CASE UserStep \/ Hang
  BY <1>5 DEF UserStep, Hang, wdVars
<1>6. CASE Tick
  <2>1. WatchdogTypeOK'
    <3>1. wdTimer' \in Nat \cup {NONE} /\ orphan' \in Nat \cup {NONE}
      BY <1>6 DEF Tick, WatchdogTick, Elapse, NONE
    <3>2. hw' \in [on : BOOLEAN, rst : BOOLEAN, count : Nat] /\ hw'.on = hw.on
      BY <1>6 DEF Tick, WatchdogTick, Elapse
    <3> QED
      BY <1>6, <3>1, <3>2 DEF Tick, WatchdogTick
  <2>2. hw'.on = hw.on
    BY <1>6 DEF Tick, WatchdogTick, Elapse
  <2>3. ASSUME loaded, ~unfed, soft_margin # 0, ~hung
        PROVE  wdTimer' >= 0 /\ hw'.count > wdTimer'
    <3>1. wdTimer > 0 /\ hw.count > wdTimer
      BY <1>6, <2>3 DEF Tick, Due
    <3>2. wdTimer' = wdTimer - 1
      BY <1>6, <3>1 DEF Tick, WatchdogTick, Elapse
    <3>3. hw'.count >= hw.count - 1
      BY <1>6, <3>1 DEF Tick, WatchdogTick, Elapse
    <3> QED
      BY <3>1, <3>2, <3>3, <2>1
  <2>4. UNCHANGED <<hung, loaded, files, soft_margin, shared, unfed>>
    BY <1>6 DEF Tick, WatchdogTick
  <2> QED
    BY <2>1, <2>2, <2>3, <2>4
<1>7. CASE HwReset \/ ButtonRestart \/ UserRestart
  BY <1>7, RestartWatchdog DEF HwReset, ButtonRestart, UserRestart
<1>8. CASE UNCHANGED vars
  BY <1>8 DEF vars, wdVars
<1> QED
  BY <1>1, <1>2, <1>3, <1>4, <1>5, <1>6, <1>7, <1>8 DEF Next

-----------------------------------------------------------------------------
(* The button.                                                             *)

ButtonInv == ButtonTypeOK /\ CounterIsTime

LEMMA BootButton ==
    ASSUME pressed' \in BOOLEAN, ButtonBoot
    PROVE  ButtonInv'
<1> USE DEF ButtonBoot
<1>1. SCAN_RATE \in 0 .. SECOND /\ 0 \in 0 .. HeldMax /\ 0 \in 0 .. FACTORY_RESET_THRESHOLD
  BY SecondAssumption, ButtonAssumption, Seconds DEF SCAN_RATE, HeldMax
<1>2. ButtonTypeOK'
  BY <1>1 DEF ButtonTypeOK
<1>3. SECOND * counter' = 0
  BY SecondAssumption
<1>4. CounterIsTime'
  BY <1>3 DEF CounterIsTime, SCAN_RATE
<1> QED
  BY <1>2, <1>4 DEF ButtonInv

\* The facts about the counter's seconds that the steps below need.
LEMMA CounterSeconds ==
    ASSUME ButtonTypeOK
    PROVE  /\ counter \in Nat /\ SECOND \in Nat /\ SECOND > 0
           /\ SECOND * counter \in Nat
           /\ SECOND * (counter - 1) = SECOND * counter - SECOND
           /\ SECOND * (counter + 1) = SECOND * counter + SECOND
           /\ SECOND * counter <= HeldMax
           /\ HeldMax \in Nat
<1>1. counter \in Nat /\ counter <= FACTORY_RESET_THRESHOLD + 1
      /\ FACTORY_RESET_THRESHOLD + 1 \in Nat
  BY ButtonAssumption DEF ButtonTypeOK
<1>2. SECOND * counter <= HeldMax
  BY <1>1, SecondsMonotone DEF HeldMax
<1>3. HeldMax \in Nat
  BY <1>1, Seconds DEF HeldMax
<1> QED
  BY <1>1, <1>2, <1>3, Seconds, SecondAssumption

LEMMA ButtonStep ==
    ASSUME hung \in BOOLEAN, ButtonInv, [Next]_vars
    PROVE  ButtonInv'
<1> USE DEF ButtonInv
<1>0. /\ counter \in Nat /\ SECOND \in Nat /\ SECOND > 0
      /\ SECOND * counter \in Nat
      /\ SECOND * (counter - 1) = SECOND * counter - SECOND
      /\ SECOND * (counter + 1) = SECOND * counter + SECOND
      /\ SECOND * counter <= HeldMax
      /\ HeldMax \in Nat
  BY CounterSeconds
<1>1. CASE DriverCall \/ TimerCall \/ UNCHANGED vars
  BY <1>1 DEF DriverCall, TimerCall, vars, pbVars, ButtonTypeOK, CounterIsTime
<1>2. CASE OrphanCall
  BY <1>2 DEF OrphanCall, OrphanTimer, pbVars, ButtonTypeOK, CounterIsTime
<1>3. CASE Hang
  BY <1>3 DEF Hang, pbVars, ButtonTypeOK, CounterIsTime
<1>4. ASSUME NEW opened \in BOOLEAN, ButtonPoll(opened)
      PROVE  ButtonInv'
  <2>1. ASSUME NEW which \in {"factory", "custom"}, Announce(which, opened)
        PROVE  ButtonInv'
    <3>1. ButtonTypeOK'
      BY <2>1 DEF Announce, ButtonTypeOK
    <3> QED
      BY <2>1, <3>1 DEF Announce, CounterIsTime, ButtonTypeOK, NONE, SCAN_RATE
  <2>2. ASSUME ~hung, Due(pbTimer), pressed, ~IsFactory, LookAgain,
               UNCHANGED <<hung, pressed, file, held, bounced>>
        PROVE  ButtonInv'
    <3>1. counter' = counter + 1 /\ counter' \in 0 .. FACTORY_RESET_THRESHOLD
      BY <2>2, <1>0, ButtonAssumption DEF LookAgain, IsFactory, ButtonTypeOK
    <3>2. button_pressed' = TRUE /\ pbTimer' = SECOND /\ SECOND \in 0 .. SECOND
      BY <2>2, <1>0 DEF LookAgain
    <3>3. ButtonTypeOK'
      BY <2>2, <3>1, <3>2 DEF ButtonTypeOK
    <3>4. SECOND * counter' = SECOND * counter + SECOND
      BY <3>1, <1>0
    <3>5. CounterIsTime'
      BY <2>2, <3>1, <3>2, <3>3, <3>4, <1>0
      DEF CounterIsTime, ButtonTypeOK, Due, NONE, SCAN_RATE
    <3> QED
      BY <3>3, <3>5
  <2>3. ASSUME Due(pbTimer), ~pressed, ~button_pressed, pbTimer' = SCAN_RATE,
               UNCHANGED <<hung, pressed, counter, button_pressed, file, held, bounced>>
        PROVE  ButtonInv'
    <3>1. SCAN_RATE \in 0 .. SECOND
      BY <1>0 DEF SCAN_RATE
    <3>2. ButtonTypeOK'
      BY <2>3, <3>1 DEF ButtonTypeOK
    <3> QED
      BY <2>3, <3>2 DEF CounterIsTime, SCAN_RATE
  <2> QED
    BY <1>4, <2>1, <2>2, <2>3 DEF ButtonPoll, PollPressed, PollReleased
<1>5. CASE UserStep
  <2>1. CASE Press
    <3>1. ButtonTypeOK'
      BY <2>1, <1>0 DEF Press, ButtonTypeOK
    <3> QED
      BY <2>1, <1>0, <1>5, <3>1
      DEF Press, UserStep, CounterIsTime, ButtonTypeOK, SCAN_RATE, NONE
  <2>2. CASE Release
    <3>1. ButtonTypeOK'
      BY <2>2 DEF Release, ButtonTypeOK
    <3> QED
      BY <2>2, <1>0, <1>5, <3>1
      DEF Release, UserStep, CounterIsTime, ButtonTypeOK, SCAN_RATE, NONE
  <2> QED
    BY <1>5, <2>1, <2>2 DEF UserStep
<1>6. CASE Tick
  <2>1. pbTimer' \in {NONE} \cup 0 .. SECOND
    BY <1>6, <1>0 DEF Tick, ButtonTick, Elapse, ButtonTypeOK, NONE
  <2>2. held' \in 0 .. HeldMax
    BY <1>6, <1>0 DEF Tick, ButtonTick, ButtonTypeOK
  <2>3. UNCHANGED <<hung, pressed, counter, button_pressed, file, bounced>>
    BY <1>6 DEF Tick, ButtonTick
  <2>4. ButtonTypeOK'
    BY <2>1, <2>2, <2>3 DEF ButtonTypeOK
  <2>5. ~button_pressed' => counter' = 0 /\ pbTimer' <= SCAN_RATE
    BY <1>6, <2>3 DEF Tick, ButtonTick, Elapse, CounterIsTime, ButtonTypeOK, SCAN_RATE, NONE
  <2>6. ASSUME pressed, ~bounced, pbTimer' # NONE
        PROVE  /\ ~hung => held' + pbTimer' <= SECOND * counter + SCAN_RATE
               /\ held' + pbTimer' >= SECOND * counter
    <3>1. /\ pbTimer \in Nat /\ pbTimer' \in Nat
          /\ pbTimer' = pbTimer \/ pbTimer' = pbTimer - 1
          /\ ~hung => pbTimer' = pbTimer - 1
      BY <1>6, <1>0, <2>6 DEF Tick, ButtonTick, Elapse, ButtonTypeOK, NONE, Due
    <3>2. /\ held' \in Nat /\ held \in Nat
          /\ held' = held + 1 \/ (held' = held /\ held = HeldMax)
      BY <1>6, <1>0, <2>6 DEF Tick, ButtonTick, ButtonTypeOK
    <3>3. /\ ~hung => held + pbTimer <= SECOND * counter + SCAN_RATE
          /\ held + pbTimer >= SECOND * counter
      BY <2>6, <3>1 DEF CounterIsTime, NONE
    <3>4. SECOND * counter \in Nat /\ SECOND * counter <= HeldMax
      BY <1>0
    <3>5. held' = held + 1 \/ (held' = held /\ SECOND * counter <= held)
      BY <3>2, <3>4
    <3>6. /\ pbTimer' = pbTimer - 1 /\ held + pbTimer <= SECOND * counter + 1
               => held' + pbTimer' <= SECOND * counter + 1
          /\ held + pbTimer >= SECOND * counter => held' + pbTimer' >= SECOND * counter
      BY <3>1, <3>2, <3>4, <3>5, TickSum
    <3> QED
      BY <3>1, <3>3, <3>6 DEF SCAN_RATE
  <2>7. ASSUME button_pressed, ~pressed, ~bounced, pbTimer' # NONE
        PROVE  /\ ~hung => held' <= SECOND * counter + SCAN_RATE
               /\ held' >= SECOND * (counter - 1)
    <3>1. pbTimer # NONE /\ held' = held
      BY <1>6, <2>7 DEF Tick, ButtonTick, Elapse, NONE
    <3> QED
      BY <2>7, <3>1 DEF CounterIsTime
  <2> QED
    BY <2>3, <2>4, <2>5, <2>6, <2>7 DEF CounterIsTime
<1>7. CASE HwReset \/ ButtonRestart \/ UserRestart
  <2>1. pressed' \in BOOLEAN /\ ButtonBoot
    BY <1>7 DEF HwReset, ButtonRestart, UserRestart, Restart, ButtonTypeOK
  <2> QED
    BY <2>1, BootButton
<1> QED
  BY <1>1, <1>2, <1>3, <1>4, <1>5, <1>6, <1>7 DEF Next

-----------------------------------------------------------------------------
(* Theorems.                                                               *)

\* Hanging and its end keep the softirq's variable a Boolean.
LEMMA HungStep ==
    ASSUME hung \in BOOLEAN, [Next]_vars
    PROVE  hung' \in BOOLEAN
<1>1. CASE \E opened \in BOOLEAN : ButtonPoll(opened)
  <2>1. PICK opened \in BOOLEAN : ButtonPoll(opened)
    BY <1>1
  <2> QED
    BY <2>1 DEF ButtonPoll, PollPressed, PollReleased, Announce
<1>2. CASE OrphanCall
  BY <1>2 DEF OrphanCall, OrphanTimer
<1>3. CASE HwReset \/ ButtonRestart \/ UserRestart \/ Hang
  BY <1>3 DEF HwReset, ButtonRestart, UserRestart, Restart, Hang
<1>4. CASE DriverCall \/ TimerCall \/ UserStep \/ Tick \/ UNCHANGED vars
  BY <1>4 DEF DriverCall, TimerCall, UserStep, Tick, vars
<1> QED
  BY <1>1, <1>2, <1>3, <1>4 DEF Next

BoardInv == hung \in BOOLEAN /\ WatchdogInv /\ ButtonInv

\* The inductive invariant of the board: the types, the hardware's counter ahead of
\* the kernel timer, and the button's counter in step with time.
THEOREM BoardInvCorrect == Spec => []BoardInv
<1>1. Init => BoardInv
  <2> SUFFICES ASSUME Init PROVE BoardInv
    OBVIOUS
  <2>1. hung \in BOOLEAN /\ WatchdogTypeOK /\ ButtonTypeOK
    BY TypeInit DEF TypeOK
  <2>2. Ahead /\ OnWhileOpen
    BY DEF Init, WatchdogInit, Ahead, OnWhileOpen
  <2>3. SECOND * counter = 0
    BY SecondAssumption DEF Init, ButtonInit
  <2>4. CounterIsTime
    BY <2>3 DEF Init, ButtonInit, CounterIsTime, SCAN_RATE
  <2> QED
    BY <2>1, <2>2, <2>4 DEF BoardInv, WatchdogInv, ButtonInv
<1>2. BoardInv /\ [Next]_vars => BoardInv'
  BY WatchdogStep, ButtonStep, HungStep DEF BoardInv
<1> QED
  BY <1>1, <1>2, PTL DEF Spec

\* The variables of the watchdog and of the button keep their types.
THEOREM TypeCorrect == Spec => []TypeOK
<1>1. BoardInv => TypeOK
  BY DEF BoardInv, WatchdogInv, ButtonInv, TypeOK
<1> QED
  BY <1>1, BoardInvCorrect, PTL

\* Whatever user space does or fails to do, the watchdog's hardware resets no board
\* whose timers run, but for the three cases that the property names.
THEOREM ResetOnlyWhenHungCorrect == Spec => []ResetOnlyWhenHung
<1>1. BoardInv => ResetOnlyWhenHung
  BY DEF BoardInv, WatchdogInv, WatchdogTypeOK, Ahead, ResetOnlyWhenHung, HwExpired
<1> QED
  BY <1>1, BoardInvCorrect, PTL

\* The hardware is enabled under an open file, unless another file's release has
\* disabled it.
THEOREM OnWhileOpenCorrect == Spec => []OnWhileOpen
<1>1. BoardInv => OnWhileOpen
  BY DEF BoardInv, WatchdogInv
<1> QED
  BY <1>1, BoardInvCorrect, PTL

\* push_button_polling is not waiting for a button that has been down for longer
\* than FACTORY_RESET_THRESHOLD seconds.
THEOREM AnsweredInTimeCorrect == Spec => []AnsweredInTime
<1>1. BoardInv => AnsweredInTime
  <2> SUFFICES ASSUME BoardInv, pressed, ~bounced, pbTimer > 0, ~hung
               PROVE  held <= SECOND * FACTORY_RESET_THRESHOLD
    BY DEF AnsweredInTime
  <2> DEFINE s == SECOND * counter
             f == SECOND * FACTORY_RESET_THRESHOLD
  <2>1. /\ counter \in 0 .. FACTORY_RESET_THRESHOLD
        /\ held \in Nat /\ pbTimer \in Int /\ pbTimer # NONE
    BY SecondAssumption DEF BoardInv, ButtonInv, ButtonTypeOK, NONE
  <2>2. s \in Nat /\ f \in Nat /\ s <= f
    BY <2>1, Seconds, SecondsMonotone, ButtonAssumption
  <2>3. held + pbTimer <= s + 1
    BY <2>1 DEF BoardInv, ButtonInv, CounterIsTime, SCAN_RATE
  <2> HIDE DEF s, f
  <2>4. held <= f
    BY <2>1, <2>2, <2>3
  <2> QED
    BY <2>4 DEF f
<1> QED
  BY <1>1, BoardInvCorrect, PTL

\* What the counter says, when push_button_polling looks at a released button, of
\* how long it was down.
LEMMA ReleasedTime ==
    ASSUME BoardInv, Due(pbTimer), ~pressed, button_pressed, ~bounced, ~hung
    PROVE  /\ counter \in 0 .. FACTORY_RESET_THRESHOLD /\ held \in Nat
           /\ held <= SECOND * counter + SCAN_RATE
           /\ held >= SECOND * (counter - 1)
<1>1. pbTimer # NONE
  BY DEF Due, NONE
<1> QED
  BY <1>1 DEF BoardInv, ButtonInv, CounterIsTime, ButtonTypeOK

LEMMA SecondsBefore ==
    \A j, k \in Nat : j < k => SECOND * j <= SECOND * (k - 1)
<1> SUFFICES ASSUME NEW j \in Nat, NEW k \in Nat, j < k
             PROVE  SECOND * j <= SECOND * (k - 1)
  OBVIOUS
<1>1. k - 1 \in Nat /\ j <= k - 1
  OBVIOUS
<1> QED
  BY <1>1, SecondsMonotone

\* How long a press without bouncing lasted decides what push_button_polling makes
\* of it, for all thresholds.
THEOREM HoldDecidesCorrect == Spec => HoldDecides
<1>1. ASSUME BoardInv, [Next]_vars, ~bounced, file # "factory", file' = "factory"
      PROVE  held >= SECOND * FACTORY_RESET_THRESHOLD
  <2>1. ~hung /\ Due(pbTimer) /\ pressed /\ IsFactory
    BY <1>1
    DEF Next, vars, wdVars, pbVars, DriverCall, TimerCall, OrphanCall, ButtonPoll, PollPressed,
        PollReleased, Announce, UserStep, Press, Release, Hang, Tick, ButtonTick, HwReset,
        ButtonRestart, UserRestart, Restart, ButtonBoot
  <2>2. /\ pbTimer = 0 /\ pbTimer # NONE /\ counter = FACTORY_RESET_THRESHOLD
        /\ held \in Nat
    BY <1>1, <2>1 DEF Due, NONE, IsFactory, BoardInv, ButtonInv, ButtonTypeOK
  <2>3. held + pbTimer >= SECOND * counter
    BY <1>1, <2>1, <2>2 DEF BoardInv, ButtonInv, CounterIsTime
  <2>4. SECOND * FACTORY_RESET_THRESHOLD \in Nat
    BY Seconds, ButtonAssumption
  <2> QED
    BY <2>2, <2>3, <2>4
<1>2. ASSUME BoardInv, [Next]_vars, ~bounced, file # "custom", file' = "custom"
      PROVE  held \in SECOND * (CUSTOM_FACTORY_THRESHOLD - 1) ..
                      SECOND * (FACTORY_RESET_THRESHOLD - 1) + SCAN_RATE
  <2> DEFINE c == SECOND * counter
             b == SECOND * (counter - 1)
             lo == SECOND * (CUSTOM_FACTORY_THRESHOLD - 1)
             hi == SECOND * (FACTORY_RESET_THRESHOLD - 1)
  <2>1. ~hung /\ Due(pbTimer) /\ ~pressed /\ IsCustom
    BY <1>2
    DEF Next, vars, wdVars, pbVars, DriverCall, TimerCall, OrphanCall, ButtonPoll, PollPressed,
        PollReleased, Announce, UserStep, Press, Release, Hang, Tick, ButtonTick, HwReset,
        ButtonRestart, UserRestart, Restart, ButtonBoot
  <2>2. counter \in Nat /\ counter >= CUSTOM_FACTORY_THRESHOLD
        /\ counter < FACTORY_RESET_THRESHOLD
    BY <1>2, <2>1 DEF IsCustom, BoardInv, ButtonInv, ButtonTypeOK
  <2>3. button_pressed
    BY <1>2, <2>2, ButtonAssumption DEF BoardInv, ButtonInv, CounterIsTime, ButtonTypeOK
  <2>4. held \in Nat /\ held <= c + SCAN_RATE /\ held >= b
    BY <1>2, <2>1, <2>3, ReleasedTime
  <2>5. c <= hi
    BY <2>2, SecondsBefore, ButtonAssumption
  <2>6. lo <= b
    <3>1. CUSTOM_FACTORY_THRESHOLD - 1 \in Nat /\ counter - 1 \in Nat
          /\ CUSTOM_FACTORY_THRESHOLD - 1 <= counter - 1
      BY <2>2, ButtonAssumption
    <3> QED
      BY <3>1, SecondsMonotone
  <2>7. b \in Int /\ c \in Int /\ lo \in Int /\ hi \in Int
    BY <2>2, ButtonAssumption, SecondAssumption
  <2> HIDE DEF b, c, lo, hi
  <2>8. held \in lo .. hi + SCAN_RATE
    BY <2>4, <2>5, <2>6, <2>7 DEF SCAN_RATE
  <2> QED
    BY <2>8 DEF lo, hi
<1>3. ASSUME BoardInv, ~bounced, MustRestart, ~hung
      PROVE  \/ held <= SECOND * (CUSTOM_FACTORY_THRESHOLD - 1) + SCAN_RATE
             \/ held >= SECOND * (FACTORY_RESET_THRESHOLD - 1)
  <2>1. Due(pbTimer) /\ ~pressed /\ button_pressed /\ ~IsCustom
    BY <1>3 DEF MustRestart
  <2>2. /\ counter \in 0 .. FACTORY_RESET_THRESHOLD /\ held \in Nat
        /\ held <= SECOND * counter + SCAN_RATE
        /\ held >= SECOND * (counter - 1)
    BY <1>3, <2>1, ReleasedTime
  <2>3. CASE counter = FACTORY_RESET_THRESHOLD
    BY <2>2, <2>3
  <2>4. CASE counter < CUSTOM_FACTORY_THRESHOLD
    <3> DEFINE c == SECOND * counter
               lo == SECOND * (CUSTOM_FACTORY_THRESHOLD - 1)
    <3>1. c <= lo /\ c \in Int /\ lo \in Int
      BY <2>2, <2>4, SecondsBefore, ButtonAssumption, SecondAssumption
    <3>2. held <= c + SCAN_RATE
      BY <2>2
    <3> HIDE DEF c, lo
    <3>3. held <= lo + SCAN_RATE
      BY <2>2, <3>1, <3>2 DEF SCAN_RATE
    <3> QED
      BY <3>3 DEF lo
  <2> QED
    BY <2>1, <2>2, <2>3, <2>4, ButtonAssumption DEF IsCustom
<1>4. BoardInv /\ [Next]_vars =>
          [~bounced =>
              /\ file # "factory" /\ file' = "factory" => held >= SECOND * FACTORY_RESET_THRESHOLD
              /\ file # "custom" /\ file' = "custom" =>
                     held \in SECOND * (CUSTOM_FACTORY_THRESHOLD - 1) ..
                              SECOND * (FACTORY_RESET_THRESHOLD - 1) + SCAN_RATE
              /\ MustRestart /\ ~hung /\ ~HwExpired /\ ~button_pressed' =>
                     \/ held <= SECOND * (CUSTOM_FACTORY_THRESHOLD - 1) + SCAN_RATE
                     \/ held >= SECOND * (FACTORY_RESET_THRESHOLD - 1)]_vars
  BY <1>1, <1>2, <1>3
<1> QED
  BY <1>4, BoardInvCorrect, PTL DEF Spec, HoldDecides

=============================================================================
