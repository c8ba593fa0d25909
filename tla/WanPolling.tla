----------------------------- MODULE WanPolling -----------------------------
(***************************************************************************)
(* The timer that watches the BCM5081 PHY of the WAN port                  *)
(* (drivers/net/str9100/bcm5081_polling.c): once a second wan_polling      *)
(* reads the PHY's AUX_SUM register, tells the network device of link      *)
(* changes, and sets speed and duplex of MAC port 1 to what the PHY has    *)
(* negotiated.                                                             *)
(*                                                                         *)
(* The PHY may change between two reads.  The timer function runs as a     *)
(* softirq: no process runs meanwhile, but it may come between the load    *)
(* and the store with which OPEN_PORT and CLOSE_PORT (vela.h), in process  *)
(* context, change the register of MAC port 1.                             *)
(***************************************************************************)
EXTENDS Integers

CONSTANTS
    Hcd,          \* values of the speed field of AUX_SUM (highest common denominator)
    ReadMayFail   \* whether star_gsw_read_phy may time out

ASSUME WanAssumption ==
    /\ Hcd \subseteq 0 .. 7
    /\ 0 \in Hcd
    /\ ReadMayFail \in BOOLEAN

VARIABLES
    phy,             \* the bits of AUX_SUM that the driver looks at
    polling_status,  \* what the last wan_polling saw
    carrier,         \* netif_carrier_ok(STAR_GSW_WAN_DEV)
    mac,             \* speed, duplex and port-enable bit of MAC port 1
    pc, data,        \* where wan_polling is, and what its first read gave
    opc, loaded, on, \* an OPEN_PORT or CLOSE_PORT: its step, the loaded register, which
    misread,         \* history: the last read timed out
    torn,            \* history: the two reads of the last get_set_speed differ
    clobbered        \* history: a store of OPEN_PORT or CLOSE_PORT undid it

timerVars == <<polling_status, carrier, pc, data, misread, torn>>
portVars  == <<opc, loaded, on>>
vars      == <<phy, mac, clobbered, timerVars, portVars>>

\* AUX_SUM after the mask (7<<8) | (1<<2) | (1<<15).
Status == [link : BOOLEAN, an : BOOLEAN, hcd : Hcd]
NoLink == [link |-> FALSE, an |-> FALSE, hcd |-> 0]
Mac    == [speed : 0 .. 2, full : BOOLEAN, enabled : BOOLEAN]

-----------------------------------------------------------------------------
(* Faulty forms of the definitions below, each with one plausible mistake. *)
(* The runs show that the properties tell them from the code.              *)

PollRead_OnLinkOnly(d) ==
    /\ pc = "idle"
    /\ d = phy \/ ReadMayFail
    /\ misread' = (d # phy)
    /\ data' = d
    /\ carrier' = IF d.link # polling_status.link THEN d.link ELSE carrier
    /\ IF d.link /\ d.an /\ ~polling_status.link
       THEN pc' = "speed" /\ UNCHANGED polling_status
       ELSE pc' = "idle" /\ polling_status' = d
    /\ UNCHANGED <<phy, mac, torn, clobbered, portVars>>

PollRead_NoCarrierOff(d) ==
    /\ pc = "idle"
    /\ d = phy \/ ReadMayFail
    /\ misread' = (d # phy)
    /\ data' = d
    /\ carrier' = (carrier \/ d.link)
    /\ IF d # polling_status /\ d.link /\ d.an
       THEN pc' = "speed" /\ UNCHANGED polling_status
       ELSE pc' = "idle" /\ polling_status' = d
    /\ UNCHANGED <<phy, mac, torn, clobbered, portVars>>

PollRead_LinkDownForgotten(d) ==
    /\ pc = "idle"
    /\ d = phy \/ ReadMayFail
    /\ misread' = (d # phy)
    /\ data' = d
    /\ carrier' = IF d.link # polling_status.link THEN d.link ELSE carrier
    /\ IF d # polling_status /\ d.link /\ d.an
       THEN pc' = "speed" /\ UNCHANGED polling_status
       ELSE /\ pc' = "idle"
            /\ polling_status' = IF polling_status.link /\ ~d.link THEN polling_status ELSE d
    /\ UNCHANGED <<phy, mac, torn, clobbered, portVars>>

-----------------------------------------------------------------------------
\* The switch of get_set_speed: auto-negotiation off, speed and duplex by the
\* PHY's speed field; with no speed there (0) the register keeps its value.
WithSpeed(m, h) ==
    IF h = 0 THEN m
    ELSE [m EXCEPT !.speed = CASE h \in {6, 7} -> 2 [] h \in {3, 4, 5} -> 1 [] OTHER -> 0,
                   !.full = h \in {2, 4, 5, 7}]

\* init_wan_polling_module: polling_status is 0.  star_gsw_config_bcm5081 has
\* forced 1000 Mbps full duplex; a new net device has its carrier on.
Init ==
    /\ phy \in Status
    /\ polling_status = NoLink
    /\ carrier = TRUE
    /\ mac = [speed |-> 2, full |-> TRUE, enabled |-> FALSE]
    /\ pc = "idle"
    /\ data = NoLink
    /\ opc = "idle"
    /\ loaded = mac
    /\ on = FALSE
    /\ misread = FALSE
    /\ torn = FALSE
    /\ clobbered = FALSE

-----------------------------------------------------------------------------
(* wan_polling.                                                            *)

\* The first read, and all up to the call of get_set_speed.  A read that times
\* out leaves the variable uninitialized: any value.
PollRead(d) ==
    /\ pc = "idle"
    /\ d = phy \/ ReadMayFail
    /\ misread' = (d # phy)
    /\ data' = d
    /\ carrier' = IF d.link # polling_status.link THEN d.link ELSE carrier
    /\ IF d # polling_status /\ d.link /\ d.an
       THEN pc' = "speed" /\ UNCHANGED polling_status
       ELSE pc' = "idle" /\ polling_status' = d
    /\ UNCHANGED <<phy, mac, torn, clobbered, portVars>>

\* get_set_speed reads the PHY again and rewrites the MAC register; then
\* wan_polling notes what its first read gave.
PollSpeed(h) ==
    /\ pc = "speed"
    /\ h = phy.hcd \/ ReadMayFail
    /\ misread' = (h # phy.hcd)
    /\ mac' = WithSpeed(mac, h)
    /\ polling_status' = data
    /\ torn' = (h # data.hcd)
    /\ clobbered' = FALSE
    /\ pc' = "idle"
    /\ UNCHANGED <<phy, carrier, data, portVars>>

Poll == (\E d \in Status : PollRead(d)) \/ (\E h \in Hcd : PollSpeed(h))

-----------------------------------------------------------------------------
(* OPEN_PORT and CLOSE_PORT of the WAN device.                             *)

PortLoad(enable) ==
    /\ pc = "idle"
    /\ opc = "idle"
    /\ loaded' = mac
    /\ on' = enable
    /\ opc' = "store"
    /\ UNCHANGED <<phy, mac, clobbered, timerVars>>

PortStore ==
    /\ pc = "idle"
    /\ opc = "store"
    /\ mac' = [loaded EXCEPT !.enabled = on]
    /\ clobbered' = (clobbered \/ loaded # mac)
    /\ opc' = "idle"
    /\ UNCHANGED <<phy, timerVars, loaded, on>>

\* The PHY: links go up and down and negotiate, at any time.
PhyChange ==
    /\ phy' \in Status
    /\ UNCHANGED <<mac, clobbered, timerVars, portVars>>

Next == Poll \/ (\E enable \in BOOLEAN : PortLoad(enable)) \/ PortStore \/ PhyChange

Spec == Init /\ [][Next]_vars

\* The timer is added again at the end of every wan_polling, so a poll whose reads
\* succeed comes again and again, and a system call in progress goes on.  Nothing
\* is assumed of reads that fail: fairness of Poll would force them to happen,
\* since a good poll of a PHY that keeps its state changes nothing.
PollGood == PollRead(phy) \/ PollSpeed(phy.hcd)

Fairness == WF_vars(PollGood) /\ WF_vars(PortStore)

FairSpec == Spec /\ Fairness

-----------------------------------------------------------------------------
(* Properties.                                                             *)

\* The types of the variables.
TypeOK ==
    /\ phy \in Status
    /\ polling_status \in Status
    /\ carrier \in BOOLEAN
    /\ mac \in Mac
    /\ pc \in {"idle", "speed"}
    /\ data \in Status
    /\ opc \in {"idle", "store"}
    /\ loaded \in Mac
    /\ on \in BOOLEAN
    /\ misread \in BOOLEAN
    /\ torn \in BOOLEAN
    /\ clobbered \in BOOLEAN

\* The MAC runs at the negotiated speed: whatever sequence of link, speed and
\* negotiation changes led there, when wan_polling has last seen a link with
\* negotiation complete the MAC register has the speed and duplex it saw, unless
\* the two reads of the last get_set_speed gave different speeds, or an open or
\* close of the WAN device stored a value it had loaded before.
SpeedFollows ==
    pc = "idle" /\ polling_status.link /\ polling_status.an /\ ~torn /\ ~clobbered
        => mac = WithSpeed(mac, polling_status.hcd)

\* Once settled, wan_polling agrees with the PHY: when the PHY keeps its state and
\* reads succeed, polling_status ends up equal to it, even after reads that timed
\* out and left garbage, and a link ends up with its carrier on.
Settles ==
    \A s \in Status :
        <>[](phy = s /\ ~misread) => <>[](polling_status = s /\ (s.link => carrier))

\* The stack hears of every link change: when what wan_polling remembers of the
\* link changes, the carrier of the WAN device has been set to match, by that
\* poll.  (A device that never had a link keeps the carrier it was created with.)
CarrierFollows ==
    [][polling_status'.link # polling_status.link => carrier' = polling_status'.link]_vars

=============================================================================
