------------------------------ MODULE PhyAccess ------------------------------
(***************************************************************************)
(* Access to the PHYs' registers (drivers/net/str9100/star_gsw_phy.c):     *)
(* star_gsw_read_phy and star_gsw_write_phy drive one pair of hardware     *)
(* registers in several stores and then wait for rw_ok, with no lock.  A   *)
(* process that opens or closes a port calls std_phy_power_down; the timer *)
(* function of WAN polling, which runs to its end before the process goes  *)
(* on, reads the status register of PHY 9 and may interrupt it anywhere.   *)
(*                                                                         *)
(* What the management interface does when it is given a command, or rw_ok *)
(* is cleared, in the middle of a transfer is not known: all outcomes are  *)
(* modelled.  A transfer is shorter than the 0x1000 polls of a call,       *)
(* unless the interface is dead.                                           *)
(***************************************************************************)
EXTENDS Integers

CONSTANT
    Phy         \* PHYs that ports are opened and closed on

WAN_PHY == 9    \* PHY_BCM5081

VARIABLES
    ok,         \* rw_ok of GSW_PHY_CONTROL
    data,       \* data field of GSW_PHY_CONTROL
    high,       \* address bits 4..1, in GSW_QUEUE_STATUS_TEST_1
    xfer,       \* the transfer that is running, or NoXfer
    dead,       \* the management interface finishes no transfer any more
    bmcr,       \* register 0 of each PHY
    pc,         \* where the process and the timer function are
    call,       \* the process's call
    op,         \* the process's std_phy_power_down(phy, y)
    phy_data,   \* its variable
    hit,        \* history: the timer function came where it spoils the process's call
    busy,       \* history: the timer function began in the middle of a transfer
    before      \* history: the bits of register 0, but bit 11, when it was called

hwVars   == <<ok, data, high, xfer, dead, bmcr>>
histVars == <<hit, busy, before>>
vars     == <<hwVars, pc, call, op, phy_data, histVars>>

Party == {"process", "timer"}

\* Register contents: bit 11, and all others, which are as they were configured,
\* or all 0 or 1, or those of the status register.
Rest   == {"set", "zero", "ones", "status"}
Value  == [down : BOOLEAN, rest : Rest]
Zero   == [down |-> FALSE, rest |-> "zero"]
Ones   == [down |-> TRUE, rest |-> "ones"]
Status == [down |-> FALSE, rest |-> "status"]

Low(phy)  == phy % 2
High(phy) == phy \div 2

\* The bitwise or of 4-bit numbers, by the weights of the bits.
Bit(n, w)  == (n \div w) % 2
Or4(m, n)  == LET b(w) == IF Bit(m, w) + Bit(n, w) > 0 THEN w ELSE 0
              IN  b(1) + b(2) + b(4) + b(8)

\* The board's addresses: the high bits of a PHY, overwritten by or mixed with
\* those of PHY 9, lead to that PHY or to none.
ASSUME PhyAssumption ==
    /\ WAN_PHY \in Phy
    /\ Phy \subseteq 0 .. 31
    /\ \A phy \in Phy : \A h \in {High(WAN_PHY), Or4(High(WAN_PHY), High(phy))} :
           2 * h + Low(phy) \in Phy => 2 * h + Low(phy) = phy

Command == [write : BOOLEAN, phy : 0 .. 31, reg : {"bmcr", "status"}, value : Value]
ReadOf(phy, reg) == [write |-> FALSE, phy |-> phy, reg |-> reg, value |-> Zero]
NoXfer  == ReadOf(-1, "bmcr")

\* Faulty forms of the definitions below, each with one plausible mistake.
Target_LowBitKept(phy) == 2 * high + 1

Target_NoLowBit(phy) == 2 * high

MaskHigh_Missing(p) ==
    /\ pc[p] = "mask" /\ (p = "process" => pc["timer"] = "idle")
    /\ pc' = [pc EXCEPT ![p] = "or"]
    /\ UNCHANGED <<hwVars, call, op, phy_data, histVars>>

OrHigh_Add(p) ==
    /\ pc[p] = "or" /\ (p = "process" => pc["timer"] = "idle")
    /\ high' = high + High(IF p = "process" THEN call.phy ELSE WAN_PHY)
    /\ pc' = [pc EXCEPT ![p] = "command"]
    /\ UNCHANGED <<ok, data, xfer, dead, bmcr, call, op, phy_data, histVars>>

PollTimeout_Never(p) ==
    /\ pc[p] = "poll" /\ (p = "process" => pc["timer"] = "idle")
    /\ ~ok
    /\ UNCHANGED vars

-----------------------------------------------------------------------------
Init ==
    /\ ok = FALSE
    /\ data = Zero
    /\ high = 0
    /\ xfer = NoXfer
    /\ dead = FALSE
    /\ bmcr = [phy \in Phy |-> [down |-> FALSE, rest |-> "set"]]
    /\ pc = [p \in Party |-> "idle"]
    /\ call = ReadOf(WAN_PHY, "bmcr")
    /\ op = [phy |-> WAN_PHY, y |-> FALSE]
    /\ phy_data = Zero
    /\ hit = FALSE
    /\ busy = FALSE
    /\ before = "set"

\* A party is at this place, and the timer function has not interrupted it.
At(p, place) == pc[p] = place /\ (p = "process" => pc["timer"] = "idle")

Goto(p, place) == pc' = [pc EXCEPT ![p] = place]

\* The process's call, and that of WAN polling.
CallOf(p) == IF p = "process" THEN call ELSE ReadOf(WAN_PHY, "status")

-----------------------------------------------------------------------------
(* The management interface.                                               *)

\* What a read of a register gives.
Read(c) == IF c.phy \notin Phy THEN Ones ELSE IF c.reg = "status" THEN Status ELSE bmcr[c.phy]

Finish ==
    /\ xfer # NoXfer /\ ~dead
    /\ xfer' = NoXfer
    /\ ok' = TRUE
    /\ data' = IF xfer.write THEN xfer.value ELSE Read(xfer)
    /\ bmcr' = IF xfer.write /\ xfer.phy \in Phy THEN [bmcr EXCEPT ![xfer.phy] = xfer.value] ELSE bmcr
    /\ UNCHANGED <<high, dead, pc, call, op, phy_data, histVars>>

Die ==
    /\ ~dead
    /\ dead' = TRUE
    /\ UNCHANGED <<ok, data, high, xfer, bmcr, pc, call, op, phy_data, histVars>>

-----------------------------------------------------------------------------
(* star_gsw_read_phy and star_gsw_write_phy, one action for each access.   *)

\* Clear rw_ok and all else; a transfer that is running is given up or not.
ClearOk(p, gone) ==
    /\ At(p, "clear")
    /\ ok' = FALSE
    /\ data' = Zero
    /\ xfer' = IF gone THEN NoXfer ELSE xfer
    /\ Goto(p, "mask")
    /\ UNCHANGED <<high, dead, bmcr, call, op, phy_data, histVars>>

MaskHigh(p) ==
    /\ At(p, "mask")
    /\ high' = 0
    /\ Goto(p, "or")
    /\ UNCHANGED <<ok, data, xfer, dead, bmcr, call, op, phy_data, histVars>>

OrHigh(p) ==
    /\ At(p, "or")
    /\ high' = Or4(high, High(CallOf(p).phy))
    /\ Goto(p, "command")
    /\ UNCHANGED <<ok, data, xfer, dead, bmcr, call, op, phy_data, histVars>>

\* The PHY that a command goes to: the command itself has only bit 0.
Target(phy) == 2 * high + Low(phy)

\* The command, which starts a transfer, unless one is running and goes on.
GiveCommand(p, starts) ==
    /\ At(p, "command")
    /\ xfer = NoXfer => starts
    /\ xfer' = IF starts THEN [CallOf(p) EXCEPT !.phy = Target(@)] ELSE xfer
    /\ Goto(p, "poll")
    /\ UNCHANGED <<ok, data, high, dead, bmcr, call, op, phy_data, histVars>>

\* Where a party is after its call.
After(p) == IF p = "process" /\ ~call.write THEN "modify" ELSE "idle"

\* A poll finds rw_ok: clear it, as before, and take the data.
PollOk(p, gone) ==
    /\ At(p, "poll") /\ ok
    /\ ok' = FALSE
    /\ xfer' = IF gone THEN NoXfer ELSE xfer
    /\ data' = Zero
    /\ phy_data' = IF p = "process" /\ ~call.write THEN data ELSE phy_data
    /\ Goto(p, After(p))
    /\ UNCHANGED <<high, dead, bmcr, call, op, histVars>>

\* After 0x1000 polls: return 0, which no caller looks at.
PollTimeout(p) ==
    /\ At(p, "poll") /\ ~ok
    /\ xfer = NoXfer \/ dead
    /\ Goto(p, After(p))
    /\ UNCHANGED <<hwVars, call, op, phy_data, histVars>>

-----------------------------------------------------------------------------
(* The callers.                                                            *)

\* std_phy_power_down, from OPEN_PORT and CLOSE_PORT: read register 0 ...
PowerDown(phy, y) ==
    /\ At("process", "idle")
    /\ op' = [phy |-> phy, y |-> y]
    /\ phy_data' = Zero
    /\ call' = ReadOf(phy, "bmcr")
    /\ Goto("process", "clear")
    /\ hit' = FALSE
    /\ before' = bmcr[phy].rest
    /\ UNCHANGED <<hwVars, busy>>

\* ... set or clear bit 11 ...
Modified(v, y) == [v EXCEPT !.down = y]

\* ... and write it.
PowerDownWrite ==
    /\ At("process", "modify")
    /\ call' = [ReadOf(op.phy, "bmcr") EXCEPT !.write = TRUE, !.value = Modified(phy_data, op.y)]
    /\ Goto("process", "clear")
    /\ UNCHANGED <<hwVars, op, phy_data, histVars>>

\* The timer function of WAN polling; it spoils the process's call if it changes
\* the address bits between their mask and the command, or comes between the
\* command and its rw_ok.
PollTimer ==
    /\ pc["timer"] = "idle"
    /\ Goto("timer", "clear")
    /\ busy' = (xfer # NoXfer)
    /\ LET h == High(call.phy)
       IN  hit' = \/ hit
                  \/ pc["process"] = "or" /\ Or4(High(WAN_PHY), h) # h
                  \/ pc["process"] = "command" /\ High(WAN_PHY) # h
                  \/ pc["process"] = "poll"
    /\ UNCHANGED <<hwVars, call, op, phy_data, before>>

-----------------------------------------------------------------------------
Step(p) ==
    \/ \E b \in BOOLEAN : ClearOk(p, b) \/ GiveCommand(p, b) \/ PollOk(p, b)
    \/ MaskHigh(p) \/ OrHigh(p) \/ PollTimeout(p)

Next ==
    \/ \E p \in Party : Step(p)
    \/ \E phy \in Phy, y \in BOOLEAN : PowerDown(phy, y)
    \/ PowerDownWrite \/ PollTimer
    \/ Finish \/ Die

Spec == Init /\ [][Next]_vars

\* The timer function goes on once it runs; it comes once a second, so that the
\* process, and transfers, which take milliseconds at most, go on between two of
\* its runs.
Fairness ==
    /\ WF_vars(Step("timer"))
    /\ SF_vars(Step("process") \/ PowerDownWrite)
    /\ WF_vars(Finish)
    /\ SF_vars(pc["timer"] = "idle" /\ Finish)

FairSpec == Spec /\ Fairness

-----------------------------------------------------------------------------
(* Properties.                                                             *)

\* The values of the high address bits.
HighBits == {0} \cup {Or4(High(p), High(q)) : p, q \in Phy}

\* The types of the variables.
TypeOK ==
    /\ ok \in BOOLEAN /\ dead \in BOOLEAN /\ hit \in BOOLEAN /\ busy \in BOOLEAN
    /\ data \in Value /\ phy_data \in Value
    /\ before \in Rest
    /\ high \in HighBits
    /\ xfer \in Command \cup {NoXfer}
    /\ bmcr \in [Phy -> Value]
    /\ pc \in [Party -> {"idle", "clear", "mask", "or", "command", "poll", "modify"}]
    /\ call \in Command
    /\ op \in [phy : Phy, y : BOOLEAN]

\* std_phy_power_down changes bit 11 of its PHY and no other, unless the timer
\* function came in one of the windows of PollTimer or the interface died; the
\* timer function may come anywhere else.
OneBitUnlessHit ==
    pc["process"] = "idle" /\ ~hit /\ ~dead => bmcr[op.phy] = [down |-> op.y, rest |-> before]

\* Whatever the interleaving, a PHY's register 0 is changed only by a call for
\* that PHY: mixed address bits lead to a PHY that does not exist.
NeverTheOtherPhy ==
    [][\A phy \in Phy : bmcr'[phy] # bmcr[phy] => op.phy = phy]_vars

\* WAN polling gets an answer, and that of the status register, unless it comes in
\* the middle of a transfer of the process, whose data it may take for its own.
PollReadsStatus ==
    [][pc["timer"] = "poll" /\ pc'["timer"] = "idle" /\ ~busy /\ ~dead
           => ok /\ data = Status]_vars

\* Every std_phy_power_down returns, even with a dead interface.
PowerDownReturns == pc["process"] # "idle" ~> pc["process"] = "idle"

=============================================================================
