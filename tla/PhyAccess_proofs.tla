-------------------------- MODULE PhyAccess_proofs --------------------------
(***************************************************************************)
(* Theorems about the access to the PHYs, for every set of PHYs whose      *)
(* addresses PhyAssumption keeps apart.                                    *)
(***************************************************************************)
EXTENDS PhyAccess, TLAPS

TimerRuns == pc["timer"] # "idle"

\* The high address bits, of which the timer function leaves those of PHY 9.
Address ==
    /\ pc["timer"] = "or" => high = 0
    /\ pc["timer"] \in {"command", "poll"} => high = High(WAN_PHY)
    /\ pc["process"] = "or" =>
           /\ high \in {0, High(WAN_PHY)}
           /\ ~hit /\ (high # 0 \/ TimerRuns) => Or4(High(WAN_PHY), High(call.phy)) = High(call.phy)
    /\ pc["process"] = "command" =>
           /\ ~TimerRuns => high \in {High(call.phy), High(WAN_PHY),
                                      Or4(High(WAN_PHY), High(call.phy))}
           /\ ~hit => IF TimerRuns THEN High(call.phy) = High(WAN_PHY) ELSE high = High(call.phy)

\* Who a transfer belongs to, while the interface lives.
Transfer ==
    ~dead =>
        /\ xfer # NoXfer /\ ~TimerRuns => pc["process"] = "poll"
        /\ xfer # NoXfer /\ ok => TimerRuns /\ busy
        /\ pc["process"] \in {"mask", "or", "command"} /\ ~TimerRuns => ~ok
        /\ TimerRuns /\ busy => pc["process"] = "poll"
        /\ TimerRuns /\ ~busy =>
               /\ pc["timer"] # "poll" => xfer = NoXfer
               /\ pc["timer"] \in {"mask", "or", "command"} => ~ok
               /\ pc["timer"] = "poll" =>
                      IF ok THEN data = Status ELSE xfer = ReadOf(WAN_PHY, "status")
        /\ xfer.write /\ xfer.phy \in Phy => xfer.phy = op.phy

\* The process's call is for the PHY of its std_phy_power_down, and the timer
\* function that comes while it polls is noted.
Calls ==
    /\ call.phy = op.phy /\ call.reg = "bmcr"
    /\ pc["process"] = "modify" => ~call.write
    /\ TimerRuns /\ pc["process"] = "poll" => hit
    /\ pc["timer"] # "modify"

\* How far std_phy_power_down has come, if nothing has spoiled it.
Progress ==
    ~hit /\ ~dead =>
        /\ pc["process"] # "idle" => bmcr[op.phy].rest = before
        /\ pc["process"] \in {"clear", "mask", "or", "command", "poll"} /\ call.write =>
               call.value = [down |-> op.y, rest |-> before]
        /\ pc["process"] = "poll" /\ ~call.write =>
               IF ok THEN data = bmcr[op.phy] ELSE xfer = call
        /\ pc["process"] = "modify" => phy_data.rest = before
        /\ pc["process"] = "poll" /\ call.write =>
               IF ok THEN bmcr[op.phy] = call.value ELSE xfer = call

PhyInv == TypeOK /\ Address /\ Transfer /\ Calls /\ Progress /\ OneBitUnlessHit

-----------------------------------------------------------------------------
(* Addresses.                                                              *)

LEMMA Or4Facts ==
    \A m, n \in 0 .. 15 : Or4(m, n) \in 0 .. 15 /\ Or4(0, n) = n /\ Or4(n, n) = n
BY DEF Or4, Bit

LEMMA PhyFacts ==
    ASSUME NEW phy \in Phy
    PROVE  /\ phy \in 0 .. 31 /\ phy # -1
           /\ High(phy) \in 0 .. 15 /\ Low(phy) \in {0, 1}
           /\ 2 * High(phy) + Low(phy) = phy
BY PhyAssumption DEF High, Low

\* The values that the high bits may have, and the PHYs that they may lead to.
LEMMA HighBitsFacts ==
    /\ HighBits \subseteq 0 .. 15
    /\ \A p, q \in Phy : 0 \in HighBits /\ High(p) \in HighBits /\ Or4(High(p), High(q)) \in HighBits
<1>1. \A p, q \in Phy : Or4(High(p), High(q)) \in 0 .. 15 /\ High(p) = Or4(High(p), High(p))
  BY PhyFacts, Or4Facts
<1> QED
  BY <1>1 DEF HighBits

LEMMA MixedAddress ==
    ASSUME NEW phy \in Phy, NEW h \in {High(phy), High(WAN_PHY), Or4(High(WAN_PHY), High(phy))},
           2 * h + Low(phy) \in Phy
    PROVE  2 * h + Low(phy) = phy
BY PhyAssumption, PhyFacts

-----------------------------------------------------------------------------
(* Register contents and commands.                                         *)

LEMMA ValueFacts ==
    /\ Zero \in Value /\ Ones \in Value /\ Status \in Value
    /\ \A v \in Value, y \in BOOLEAN :
           Modified(v, y) \in Value /\ Modified(v, y) = [down |-> y, rest |-> v.rest]
BY DEF Zero, Ones, Status, Value, Rest, Modified

LEMMA CommandFacts ==
    /\ NoXfer \notin Command /\ ~NoXfer.write /\ NoXfer.phy \notin Phy
    /\ \A phy \in 0 .. 31, reg \in {"bmcr", "status"} :
           /\ ReadOf(phy, reg) \in Command
           /\ ReadOf(phy, reg).phy = phy /\ ReadOf(phy, reg).reg = reg /\ ~ReadOf(phy, reg).write
<1>1. NoXfer \notin Command /\ ~NoXfer.write /\ NoXfer.phy \notin Phy
  BY PhyAssumption DEF NoXfer, ReadOf, Command
<1>2. ASSUME NEW phy \in 0 .. 31, NEW reg \in {"bmcr", "status"}
      PROVE  /\ ReadOf(phy, reg) \in Command
             /\ ReadOf(phy, reg).phy = phy /\ ReadOf(phy, reg).reg = reg /\ ~ReadOf(phy, reg).write
  BY ValueFacts DEF ReadOf, Command
<1> QED
  BY <1>1, <1>2

LEMMA WanRead ==
    LET c == ReadOf(WAN_PHY, "status")
    IN  c \in Command /\ c.phy = WAN_PHY /\ c.reg = "status" /\ ~c.write /\ c # NoXfer
BY CommandFacts, PhyFacts, PhyAssumption

\* The call that a party is making.
LEMMA CallFacts ==
    ASSUME TypeOK, Calls, NEW p \in Party
    PROVE  /\ CallOf(p) \in Command /\ CallOf(p).phy \in Phy
           /\ p = "timer" => CallOf(p) = ReadOf(WAN_PHY, "status")
           /\ p = "process" => CallOf(p) = call
<1>1. CASE p = "timer"
  BY <1>1, WanRead, PhyAssumption DEF CallOf
<1>2. CASE p = "process"
  BY <1>2 DEF CallOf, TypeOK, Calls
<1> QED
  BY <1>1, <1>2 DEF Party

-----------------------------------------------------------------------------
(* The steps of star_gsw_read_phy and star_gsw_write_phy.                  *)

LEMMA ClearOkStep ==
    ASSUME PhyInv, NEW p \in Party, NEW gone \in BOOLEAN, ClearOk(p, gone)
    PROVE  PhyInv'
<1> USE DEF PhyInv, hwVars, histVars, At, Goto, Party, TimerRuns, ClearOk
<1>1. TypeOK'
  BY ValueFacts DEF TypeOK
<1>2. Address'
  BY DEF TypeOK, Address
<1>3. Transfer'
  BY CommandFacts DEF TypeOK, Transfer, Calls
<1>4. Calls'
  BY DEF TypeOK, Calls
<1>5. Progress' /\ OneBitUnlessHit'
  BY DEF TypeOK, Calls, Progress, OneBitUnlessHit
<1> QED
  BY <1>1, <1>2, <1>3, <1>4, <1>5

LEMMA MaskHighStep ==
    ASSUME PhyInv, NEW p \in Party, MaskHigh(p)
    PROVE  PhyInv'
<1> USE DEF PhyInv, hwVars, histVars, At, Goto, Party, TimerRuns, MaskHigh
<1>1. TypeOK'
  BY HighBitsFacts, PhyAssumption DEF TypeOK
<1>2. Address'
  BY DEF TypeOK, Address
<1>3. Transfer'
  BY DEF TypeOK, Transfer
<1>4. Calls'
  BY DEF TypeOK, Calls
<1>5. Progress' /\ OneBitUnlessHit'
  BY DEF TypeOK, Progress, OneBitUnlessHit
<1> QED
  BY <1>1, <1>2, <1>3, <1>4, <1>5

LEMMA OrHighStep ==
    ASSUME PhyInv, NEW p \in Party, OrHigh(p)
    PROVE  PhyInv'
<1> USE DEF PhyInv, hwVars, histVars, At, Goto, Party, TimerRuns, OrHigh
<1> DEFINE phy == CallOf(p).phy
<1>1. phy \in Phy /\ (p = "timer" => phy = WAN_PHY) /\ (p = "process" => phy = call.phy)
  BY CallFacts, WanRead
<1>2. /\ high' = Or4(high, High(phy))
      /\ high \in {0, High(WAN_PHY)}
      /\ p = "timer" => high = 0
  BY <1>1 DEF Address
<1>3. Or4(0, High(phy)) = High(phy)
  BY <1>1, PhyFacts, Or4Facts
<1> HIDE DEF phy
<1>4. TypeOK'
  <2>1. high' \in HighBits
    BY <1>1, <1>2, <1>3, HighBitsFacts, PhyAssumption
  <2> QED
    BY <2>1 DEF TypeOK
<1>5. Address'
  <2>1. CASE p = "timer"
    BY <1>1, <1>2, <1>3, <2>1 DEF TypeOK, Address
  <2>2. CASE p = "process"
    BY <1>1, <1>2, <1>3, <2>2 DEF TypeOK, Address
  <2> QED
    BY <2>1, <2>2
<1>6. Transfer'
  BY DEF TypeOK, Transfer
<1>7. Calls'
  BY DEF TypeOK, Calls
<1>8. Progress' /\ OneBitUnlessHit'
  BY DEF TypeOK, Progress, OneBitUnlessHit
<1> QED
  BY <1>4, <1>5, <1>6, <1>7, <1>8

LEMMA GiveCommandStep ==
    ASSUME PhyInv, NEW p \in Party, NEW starts \in BOOLEAN, GiveCommand(p, starts)
    PROVE  PhyInv'
<1> USE DEF PhyInv, hwVars, histVars, At, Goto, Party, TimerRuns
<1> DEFINE c == CallOf(p)
           x == [c EXCEPT !.phy = Target(@)]
<1>1. c \in Command /\ c.phy \in Phy /\ (p = "timer" => c = ReadOf(WAN_PHY, "status"))
                    /\ (p = "process" => c = call)
  BY CallFacts
<1>2. /\ pc[p] = "command" /\ (p = "process" => pc["timer"] = "idle")
      /\ pc' = [pc EXCEPT ![p] = "poll"]
      /\ xfer = NoXfer => starts
      /\ xfer' = IF starts THEN x ELSE xfer
      /\ UNCHANGED <<ok, data, high, dead, bmcr, call, op, phy_data, hit, busy, before>>
  BY DEF GiveCommand
<1>3. Target(c.phy) \in 0 .. 31
  BY <1>1, HighBitsFacts, PhyFacts DEF Target, TypeOK
<1>4. /\ x \in Command /\ x # NoXfer
      /\ x.write = c.write /\ x.phy = Target(c.phy)
      /\ Target(c.phy) = c.phy => x = c
  <2> HIDE DEF c
  <2>1. /\ x \in Command
        /\ x.write = c.write /\ x.phy = Target(c.phy)
        /\ Target(c.phy) = c.phy => x = c
    BY <1>1, <1>3 DEF Command
  <2> QED
    BY <2>1, CommandFacts
<1>5. p = "timer" => x = ReadOf(WAN_PHY, "status")
  <2>1. p = "timer" => Target(WAN_PHY) = WAN_PHY
    BY <1>2, PhyFacts, PhyAssumption DEF Address, Target
  <2> QED
    BY <1>1, <1>4, <2>1, WanRead
<1>6. p = "process" => /\ x.phy \in Phy => x.phy = call.phy
                       /\ ~hit => x = call
  <2>1. p = "process" => high \in {High(call.phy), High(WAN_PHY),
                                   Or4(High(WAN_PHY), High(call.phy))}
    BY <1>2 DEF Address
  <2>2. p = "process" /\ ~hit => high = High(call.phy)
    BY <1>2 DEF Address
  <2> QED
    BY <1>1, <1>4, <2>1, <2>2, MixedAddress, PhyFacts DEF Target
<1> HIDE DEF c, x
<1>7. TypeOK'
  BY <1>2, <1>4 DEF TypeOK
<1>8. Address'
  BY <1>2 DEF TypeOK, Address
<1>9. Transfer'
  <2>1. CASE p = "timer"
    BY <1>2, <1>5, <2>1, WanRead DEF TypeOK, Transfer, Calls
  <2>2. CASE p = "process"
    BY <1>1, <1>2, <1>4, <1>6, <2>2 DEF TypeOK, Transfer, Calls
  <2> QED
    BY <2>1, <2>2
<1>10. Calls'
  BY <1>2 DEF TypeOK, Calls
<1>11. Progress' /\ OneBitUnlessHit'
  <2>1. CASE p = "timer"
    BY <1>2, <2>1 DEF TypeOK, Calls, Progress, OneBitUnlessHit
  <2>2. CASE p = "process"
    BY <1>1, <1>2, <1>6, <2>2 DEF TypeOK, Transfer, Calls, Progress, OneBitUnlessHit
  <2> QED
    BY <2>1, <2>2
<1> QED
  BY <1>7, <1>8, <1>9, <1>10, <1>11

LEMMA PollOkStep ==
    ASSUME PhyInv, NEW p \in Party, NEW gone \in BOOLEAN, PollOk(p, gone)
    PROVE  PhyInv'
<1> USE DEF PhyInv, hwVars, histVars, At, Goto, Party, TimerRuns, PollOk, After
<1>1. TypeOK'
  BY ValueFacts DEF TypeOK
<1>2. Address'
  BY DEF TypeOK, Address
<1>3. Transfer'
  BY CommandFacts DEF TypeOK, Transfer, Calls
<1>4. Calls'
  BY DEF TypeOK, Calls
<1>5. Progress' /\ OneBitUnlessHit'
  BY DEF TypeOK, Calls, Progress, OneBitUnlessHit
<1> QED
  BY <1>1, <1>2, <1>3, <1>4, <1>5

LEMMA PollTimeoutStep ==
    ASSUME PhyInv, NEW p \in Party, PollTimeout(p)
    PROVE  PhyInv'
<1> USE DEF PhyInv, hwVars, histVars, At, Goto, Party, TimerRuns, PollTimeout, After
<1>1. TypeOK'
  BY DEF TypeOK
<1>2. Address'
  BY DEF TypeOK, Address
<1>3. Transfer'
  BY CommandFacts DEF TypeOK, Transfer, Calls
<1>4. Calls'
  BY DEF TypeOK, Calls
<1>5. Progress' /\ OneBitUnlessHit'
  BY CommandFacts DEF TypeOK, Calls, Progress, OneBitUnlessHit
<1> QED
  BY <1>1, <1>2, <1>3, <1>4, <1>5

-----------------------------------------------------------------------------
(* The callers and the management interface.                               *)

LEMMA PowerDownStep ==
    ASSUME PhyInv, NEW phy \in Phy, NEW y \in BOOLEAN, PowerDown(phy, y)
    PROVE  PhyInv'
<1> USE DEF PhyInv, hwVars, histVars, At, Goto, Party, TimerRuns, PowerDown
<1>1. /\ ReadOf(phy, "bmcr") \in Command
      /\ ReadOf(phy, "bmcr").phy = phy /\ ReadOf(phy, "bmcr").reg = "bmcr"
      /\ ~ReadOf(phy, "bmcr").write
  BY PhyFacts, CommandFacts
<1>2. TypeOK'
  <2>1. before' \in Rest
    BY DEF TypeOK, Value
  <2> QED
    BY <1>1, <2>1, ValueFacts DEF TypeOK
<1>3. Address'
  BY DEF TypeOK, Address
<1>4. Transfer'
  BY <1>1, CommandFacts DEF TypeOK, Transfer, Calls
<1>5. Calls'
  BY <1>1 DEF TypeOK, Calls
<1>6. Progress' /\ OneBitUnlessHit'
  BY <1>1 DEF TypeOK, Calls, Progress, OneBitUnlessHit
<1> QED
  BY <1>2, <1>3, <1>4, <1>5, <1>6

LEMMA PowerDownWriteStep ==
    ASSUME PhyInv, PowerDownWrite
    PROVE  PhyInv'
<1> USE DEF PhyInv, hwVars, histVars, At, Goto, Party, TimerRuns
<1>1. /\ pc["process"] = "modify" /\ pc["timer"] = "idle"
      /\ pc' = [pc EXCEPT !["process"] = "clear"]
      /\ UNCHANGED <<ok, data, high, xfer, dead, bmcr, op, phy_data, hit, busy, before>>
  BY DEF PowerDownWrite
<1>2. /\ op.phy \in Phy /\ op.phy \in 0 .. 31 /\ op.y \in BOOLEAN
      /\ Modified(phy_data, op.y) \in Value
      /\ Modified(phy_data, op.y) = [down |-> op.y, rest |-> phy_data.rest]
  BY ValueFacts, PhyFacts DEF TypeOK
<1>3. /\ call' \in Command /\ call'.phy = op.phy /\ call'.reg = "bmcr" /\ call'.write
      /\ call'.value = Modified(phy_data, op.y)
  BY <1>2 DEF PowerDownWrite, ReadOf, Command
<1>4. TypeOK'
  BY <1>1, <1>3 DEF TypeOK
<1>5. Address'
  BY <1>1 DEF TypeOK, Address
<1>6. Transfer'
  BY <1>1 DEF TypeOK, Transfer
<1>7. Calls'
  BY <1>1, <1>3 DEF TypeOK, Calls
<1>8. Progress' /\ OneBitUnlessHit'
  BY <1>1, <1>2, <1>3 DEF TypeOK, Progress, OneBitUnlessHit
<1> QED
  BY <1>4, <1>5, <1>6, <1>7, <1>8

LEMMA PollTimerStep ==
    ASSUME PhyInv, PollTimer
    PROVE  PhyInv'
<1> USE DEF PhyInv, hwVars, histVars, At, Goto, Party, TimerRuns
<1>1. /\ pc["timer"] = "idle"
      /\ pc' = [pc EXCEPT !["timer"] = "clear"]
      /\ UNCHANGED <<ok, data, high, xfer, dead, bmcr, call, op, phy_data, before>>
  BY DEF PollTimer
<1>2. hit' \in BOOLEAN /\ busy' \in BOOLEAN /\ (busy' <=> xfer # NoXfer) /\ (hit => hit')
  BY Zenon DEF PollTimer, TypeOK
<1>3. /\ pc["process"] = "poll" => hit'
      /\ pc["process"] = "or" /\ ~hit' => Or4(High(WAN_PHY), High(call.phy)) = High(call.phy)
      /\ pc["process"] = "command" /\ ~hit' => High(call.phy) = High(WAN_PHY)
  BY DEF PollTimer
<1>4. TypeOK'
  BY <1>1, <1>2 DEF TypeOK
<1>5. Address'
  BY <1>1, <1>2, <1>3 DEF TypeOK, Address
<1>6. Transfer'
  BY <1>1, <1>2, CommandFacts DEF TypeOK, Transfer
<1>7. Calls'
  BY <1>1, <1>3 DEF TypeOK, Calls
<1>8. Progress' /\ OneBitUnlessHit'
  BY <1>1, <1>2, <1>3 DEF TypeOK, Progress, OneBitUnlessHit
<1> QED
  BY <1>4, <1>5, <1>6, <1>7, <1>8

LEMMA FinishStep ==
    ASSUME PhyInv, Finish
    PROVE  PhyInv'
<1> USE DEF PhyInv, hwVars, histVars, At, Goto, Party, TimerRuns
<1>1. /\ xfer # NoXfer /\ ~dead /\ xfer' = NoXfer /\ ok' = TRUE
      /\ UNCHANGED <<high, dead, pc, call, op, phy_data, hit, busy, before>>
  BY DEF Finish
<1>2. xfer \in Command
  BY <1>1 DEF TypeOK
<1>3. /\ bmcr' \in [Phy -> Value]
      /\ \A phy \in Phy : bmcr'[phy] = IF xfer.write /\ xfer.phy = phy THEN xfer.value ELSE bmcr[phy]
  BY <1>2 DEF Finish, TypeOK, Command
<1>4. data' \in Value
  BY <1>2, ValueFacts DEF Finish, Read, TypeOK, Command
<1>5. TypeOK'
  BY <1>1, <1>3, <1>4 DEF TypeOK
<1>6. Address'
  BY <1>1 DEF TypeOK, Address
<1>7. Transfer'
  <2>1. xfer = ReadOf(WAN_PHY, "status") => data' = Status
    BY WanRead, PhyAssumption DEF Finish, Read
  <2> QED
    BY <1>1, <2>1, CommandFacts DEF TypeOK, Transfer
<1>8. Calls'
  BY <1>1 DEF TypeOK, Calls
<1>9. Progress' /\ OneBitUnlessHit'
  <2>1. op.phy \in Phy
    BY DEF TypeOK
  <2>2. xfer = call => IF call.write THEN bmcr'[op.phy] = call.value ELSE data' = bmcr[op.phy]
    BY <1>3, <2>1 DEF Finish, Read, Calls
  <2>3. bmcr'[op.phy] # bmcr[op.phy] => xfer.write /\ pc["process"] = "poll"
    BY <1>1, <1>3, <2>1, WanRead DEF Transfer
  <2>4. pc["process"] = "poll" /\ ~hit => xfer = call
    BY <1>1 DEF Progress, Calls, Transfer
  <2> QED
    BY <1>1, <2>1, <2>2, <2>3, <2>4 DEF TypeOK, Calls, Progress, OneBitUnlessHit
<1> QED
  BY <1>5, <1>6, <1>7, <1>8, <1>9

LEMMA DieStep ==
    ASSUME PhyInv, Die
    PROVE  PhyInv'
BY DEF PhyInv, Die, histVars, TypeOK, Address, Transfer, Calls, Progress, OneBitUnlessHit, TimerRuns

-----------------------------------------------------------------------------
(* The theorems.                                                           *)

LEMMA PhyInit == Init => PhyInv
<1> SUFFICES ASSUME Init PROVE PhyInv
  OBVIOUS
<1> USE DEF Init, TimerRuns, Party
<1>1. /\ ReadOf(WAN_PHY, "bmcr") \in Command
      /\ ReadOf(WAN_PHY, "bmcr").phy = WAN_PHY /\ ReadOf(WAN_PHY, "bmcr").reg = "bmcr"
  BY PhyFacts, PhyAssumption, CommandFacts
<1>2. TypeOK
  <2>1. "set" \in Rest /\ \A phy \in Phy : bmcr[phy] \in Value
    BY DEF Rest, Value
  <2>2. 0 \in HighBits
    BY HighBitsFacts, PhyAssumption
  <2> QED
    BY <1>1, <2>1, <2>2, ValueFacts, PhyAssumption DEF TypeOK
<1>3. Address /\ Transfer /\ Calls
  BY <1>1, CommandFacts DEF Address, Transfer, Calls
<1>4. Progress /\ OneBitUnlessHit
  BY PhyAssumption DEF Progress, OneBitUnlessHit
<1> QED
  BY <1>2, <1>3, <1>4 DEF PhyInv

LEMMA PhyStep == PhyInv /\ [Next]_vars => PhyInv'
<1> SUFFICES ASSUME PhyInv, [Next]_vars PROVE PhyInv'
  OBVIOUS
<1>1. ASSUME NEW p \in Party, Step(p) PROVE PhyInv'
  BY <1>1, ClearOkStep, MaskHighStep, OrHighStep, GiveCommandStep, PollOkStep, PollTimeoutStep
     DEF Step
<1>2. CASE UNCHANGED vars
  BY <1>2 DEF vars, hwVars, histVars, PhyInv, TypeOK, Address, Transfer, Calls, Progress,
              OneBitUnlessHit, TimerRuns
<1> QED
  BY <1>1, <1>2, PowerDownStep, PowerDownWriteStep, PollTimerStep, FinishStep, DieStep DEF Next

\* The parties, the registers and the transfers stay in step, for every
\* interleaving of the process, the timer function and the interface.
THEOREM PhyInvCorrect == Spec => []PhyInv
BY PhyInit, PhyStep, PTL DEF Spec

\* The variables of the PHY access keep their types; in particular the address
\* bits are never those of three PHYs mixed.
THEOREM TypeCorrect == Spec => []TypeOK
<1>1. PhyInv => TypeOK
  BY DEF PhyInv
<1> QED
  BY <1>1, PhyInvCorrect, PTL

\* std_phy_power_down changes bit 11 of its PHY and no other, unless the timer
\* function came in one of the windows that PollTimer names, or the interface
\* died.
THEOREM OneBitUnlessHitCorrect == Spec => []OneBitUnlessHit
<1>1. PhyInv => OneBitUnlessHit
  BY DEF PhyInv
<1> QED
  BY <1>1, PhyInvCorrect, PTL

\* A PHY's register 0 is changed only by a call for that PHY, whatever the timer
\* function does to the address bits: PhyAssumption is what the board's choice of
\* addresses has to satisfy for that.
THEOREM NeverTheOtherPhyCorrect == Spec => NeverTheOtherPhy
<1> DEFINE Own == \A phy \in Phy : bmcr'[phy] # bmcr[phy] => op.phy = phy
<1>1. ASSUME PhyInv, [Next]_vars PROVE Own
  <2>1. CASE Finish
    BY <1>1, <2>1 DEF PhyInv, TypeOK, Transfer, Finish
  <2>2. CASE UNCHANGED bmcr
    BY <2>2
  <2>3. Finish \/ UNCHANGED bmcr
    BY <1>1 DEF Next, vars, Step, ClearOk, MaskHigh, OrHigh, GiveCommand, PollOk, PollTimeout,
                PowerDown, PowerDownWrite, PollTimer, Die, hwVars
  <2> QED
    BY <2>1, <2>2, <2>3
<1>2. PhyInv /\ [Next]_vars => [Own]_vars
  BY <1>1
<1> HIDE DEF Own
<1>3. Spec => [][Own]_vars
  BY <1>2, PhyInvCorrect, PTL DEF Spec
<1> QED
  BY <1>3 DEF NeverTheOtherPhy, Own

\* WAN polling takes the status register for what it reads, unless it came in the
\* middle of a transfer of the process, or the interface died.
THEOREM PollReadsStatusCorrect == Spec => PollReadsStatus
<1> DEFINE Right == pc["timer"] = "poll" /\ pc'["timer"] = "idle" /\ ~busy /\ ~dead
                        => ok /\ data = Status
<1>1. ASSUME PhyInv, [Next]_vars PROVE Right
  <2> SUFFICES ASSUME pc["timer"] = "poll", pc'["timer"] = "idle", ~busy, ~dead
               PROVE  ok /\ data = Status
    OBVIOUS
  <2>1. IF ok THEN data = Status ELSE xfer = ReadOf(WAN_PHY, "status")
    BY <1>1 DEF PhyInv, Transfer, TimerRuns
  <2>2. \/ \E b \in BOOLEAN : PollOk("timer", b)
        \/ PollTimeout("timer")
    <3> USE <1>1 DEF PhyInv, TypeOK, Party
    <3>1. ASSUME NEW p \in Party, Step(p) PROVE p = "timer"
      BY <3>1 DEF Step, ClearOk, MaskHigh, OrHigh, GiveCommand, PollOk, PollTimeout, At
    <3>2. Step("timer") => (\E b \in BOOLEAN : PollOk("timer", b)) \/ PollTimeout("timer")
      BY DEF Step, ClearOk, MaskHigh, OrHigh, GiveCommand, At
    <3>3. ~PowerDownWrite /\ ~PollTimer /\ \A phy \in Phy, y \in BOOLEAN : ~PowerDown(phy, y)
      BY DEF PowerDown, PowerDownWrite, PollTimer, At
    <3>4. ~Finish /\ ~Die /\ ~UNCHANGED vars
      BY DEF Finish, Die, vars
    <3> QED
      BY <1>1, <3>1, <3>2, <3>3, <3>4 DEF Next
  <2>3. ok
    BY <2>1, <2>2, WanRead DEF PollOk, PollTimeout
  <2> QED
    BY <2>1, <2>3
<1>2. PhyInv /\ [Next]_vars => [Right]_vars
  BY <1>1
<1> HIDE DEF Right
<1>3. Spec => [][Right]_vars
  BY <1>2, PhyInvCorrect, PTL DEF Spec
<1> QED
  BY <1>3 DEF PollReadsStatus, Right

=============================================================================
