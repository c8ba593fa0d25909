------------------------------ MODULE GswNapi ------------------------------
(***************************************************************************)
(* Bringing the switch's network devices up and down                       *)
(* (drivers/net/str9100/star_gsw.c): star_gsw_open, star_gsw_close and the *)
(* counted installation of the interrupt handlers, against the interrupt   *)
(* core (arch/arm/kernel/irq.c) and the NAPI bits of the one STAR_NAPI_DEV *)
(* (include/linux/netdevice.h) that all devices share.                     *)
(*                                                                         *)
(* ifconfig runs in process context under the rtnl lock, so one open or    *)
(* close runs at a time.  Interrupts come between its steps, and so does   *)
(* the poll, which ksoftirqd may hold back; a poll is one step, because no *)
(* process runs during a softirq on this uniprocessor.  The ring is        *)
(* reduced to the number of frames in it: GswRx has the detail.            *)
(***************************************************************************)
EXTENDS Integers, FiniteSets

CONSTANTS
    Dev,            \* the devices that share the switch: LAN, WAN
    RING,           \* bound: frames the ring holds
    RequestMayFail  \* whether request_irq may fail (kmalloc)

ASSUME NapiAssumption ==
    /\ IsFiniteSet(Dev)
    /\ RING \in Nat \ {0}
    /\ RequestMayFail \in BOOLEAN

VARIABLES
    up,                   \* up[d]: IFF_UP
    port,                 \* port[d]: the MAC port of d is enabled
    install_isr_account,
    fsrc_actions,         \* number of handlers on the FSRC line
    fsqf_action,          \* a handler is on the FSQF line
    fsrc,                 \* FSRC edge latched
    masked,               \* mask bit of FSRC
    disable_depth,        \* irq_desc[FSRC].disable_depth
    rx_sched,             \* __LINK_STATE_RX_SCHED of STAR_NAPI_DEV
    poll_list,            \* STAR_NAPI_DEV is on the poll list
    frames,               \* frames in the ring
    pc, dev,              \* the open or close in progress, and its device
    bug,                  \* BUG_ON of netif_rx_complete: the kernel stops
    overlap,              \* history: a device was opened while another was up
    failed                \* history: number of calls of star_gsw_install_isr that failed

devVars  == <<up, port>>
isrVars  == <<install_isr_account, fsrc_actions, fsqf_action>>
irqVars  == <<fsrc, masked, disable_depth>>
napiVars == <<rx_sched, poll_list>>
histVars == <<overlap, failed>>
vars     == <<devVars, isrVars, irqVars, napiVars, frames, pc, dev, bug, histVars>>

\* After star_gsw_init_module: every source masked, STAR_NAPI_DEV zeroed.
Init ==
    /\ up = [d \in Dev |-> FALSE]
    /\ port = [d \in Dev |-> FALSE]
    /\ install_isr_account = 0
    /\ fsrc_actions = 0
    /\ fsqf_action = FALSE
    /\ fsrc = FALSE
    /\ masked = TRUE
    /\ disable_depth = 0
    /\ rx_sched = FALSE
    /\ poll_list = FALSE
    /\ frames = 0
    /\ pc = "idle"
    /\ dev \in Dev
    /\ bug = FALSE
    /\ overlap = FALSE
    /\ failed = 0

-----------------------------------------------------------------------------
(* Faulty forms of the definitions below, each with one plausible mistake. *)
(* The runs show that the properties tell them from the code.              *)

InstallCount_NoCount ==
    /\ pc = "install"
    /\ install_isr_account # 0
    /\ up' = [up EXCEPT ![dev] = TRUE]
    /\ pc' = "idle"
    /\ UNCHANGED <<port, isrVars, irqVars, napiVars, frames, dev, bug, histVars>>

Uninstall(d, last, next) ==
    /\ pc = "idle"
    /\ up[d]
    /\ install_isr_account' = install_isr_account - 1
    /\ IF last
       THEN /\ fsrc_actions' = IF fsrc_actions = 0 THEN 0 ELSE fsrc_actions - 1
            /\ fsqf_action' = FALSE
            /\ pc' = next
       ELSE /\ UNCHANGED <<fsrc_actions, fsqf_action>>
            /\ pc' = "close_port"
    /\ dev' = d
    /\ UNCHANGED <<devVars, irqVars, napiVars, frames, bug, histVars>>

CloseUninstall_NoPollDisable(d) == Uninstall(d, install_isr_account = 1, "close_port")

CloseUninstall_Always(d) == Uninstall(d, TRUE, "poll_disable")

PollComplete_KeepSched ==
    /\ poll_list
    /\ frames = 0
    /\ poll_list' = FALSE
    /\ disable_depth' = 0
    /\ masked' = FALSE
    /\ fsrc' = FALSE
    /\ UNCHANGED <<devVars, isrVars, rx_sched, frames, pc, dev, bug, histVars>>

-----------------------------------------------------------------------------
(* star_gsw_open.                                                          *)

\* dev_open calls star_gsw_open: OPEN_PORT, enable_cpu_port.
OpenPort(d) ==
    /\ pc = "idle"
    /\ ~up[d]
    /\ port' = [port EXCEPT ![d] = TRUE]
    /\ pc' = "poll_enable"
    /\ dev' = d
    /\ overlap' = (overlap \/ \E e \in Dev : up[e])
    /\ UNCHANGED <<up, isrVars, irqVars, napiVars, frames, bug, failed>>

\* netif_poll_enable(&STAR_NAPI_DEV), whatever the other devices do.
OpenPollEnable ==
    /\ pc = "poll_enable"
    /\ rx_sched' = FALSE
    /\ pc' = "enable"
    /\ UNCHANGED <<devVars, isrVars, irqVars, poll_list, frames, dev, bug, histVars>>

\* star_gsw_enable clears the mask bit of FSRC directly: neither the latched
\* edge nor disable_depth changes.
OpenEnable ==
    /\ pc = "enable"
    /\ masked' = FALSE
    /\ pc' = "install"
    /\ UNCHANGED <<devVars, isrVars, fsrc, disable_depth, napiVars, frames, dev, bug, histVars>>

\* star_gsw_install_isr of a later device: ++install_isr_account, return 0;
\* then open returns 0 and dev_open sets IFF_UP.
InstallCount ==
    /\ pc = "install"
    /\ install_isr_account # 0
    /\ install_isr_account' = install_isr_account + 1
    /\ up' = [up EXCEPT ![dev] = TRUE]
    /\ pc' = "idle"
    /\ UNCHANGED <<port, fsrc_actions, fsqf_action, irqVars, napiVars, frames, dev, bug, histVars>>

\* request_irq(FSRC), a shared line.  The first handler of a line resets its
\* disable_depth and unmasks it, which clears the latched edge.
InstallFsrc ==
    /\ pc = "install"
    /\ install_isr_account = 0
    /\ fsrc_actions' = fsrc_actions + 1
    /\ IF fsrc_actions = 0
       THEN disable_depth' = 0 /\ masked' = FALSE /\ fsrc' = FALSE
       ELSE UNCHANGED irqVars
    /\ pc' = "install_fsqf"
    /\ UNCHANGED <<devVars, install_isr_account, fsqf_action, napiVars, frames, dev, bug, histVars>>

\* request_irq(FSQF), a line of its own, and ++install_isr_account.
InstallFsqf ==
    /\ pc = "install_fsqf"
    /\ ~fsqf_action
    /\ fsqf_action' = TRUE
    /\ install_isr_account' = install_isr_account + 1
    /\ up' = [up EXCEPT ![dev] = TRUE]
    /\ pc' = "idle"
    /\ UNCHANGED <<port, fsrc_actions, irqVars, napiVars, frames, dev, bug, histVars>>

\* A request_irq fails: star_gsw_install_isr returns 1 or 2 without counting,
\* star_gsw_open ignores that and returns 0.
InstallFails ==
    /\ RequestMayFail
    /\ (pc = "install" /\ install_isr_account = 0) \/ pc = "install_fsqf"
    /\ up' = [up EXCEPT ![dev] = TRUE]
    /\ pc' = "idle"
    /\ failed' = failed + 1
    /\ UNCHANGED <<port, isrVars, irqVars, napiVars, frames, dev, bug, overlap>>

-----------------------------------------------------------------------------
(* star_gsw_close.                                                         *)

\* dev_close calls star_gsw_close: --install_isr_account, and the last one
\* frees both lines.  free_irq leaves mask and disable_depth alone.
CloseUninstall(d) ==
    /\ pc = "idle"
    /\ up[d]
    /\ install_isr_account' = install_isr_account - 1
    /\ IF install_isr_account = 1
       THEN /\ fsrc_actions' = IF fsrc_actions = 0 THEN 0 ELSE fsrc_actions - 1
            /\ fsqf_action' = FALSE
            /\ pc' = "poll_disable"
       ELSE /\ UNCHANGED <<fsrc_actions, fsqf_action>>
            /\ pc' = "close_port"
    /\ dev' = d
    /\ UNCHANGED <<devVars, irqVars, napiVars, frames, bug, histVars>>

\* netif_poll_disable waits for the RX_SCHED bit to be clear and sets it.
ClosePollDisable ==
    /\ pc = "poll_disable"
    /\ ~rx_sched
    /\ rx_sched' = TRUE
    /\ pc' = "close_port"
    /\ UNCHANGED <<devVars, isrVars, irqVars, poll_list, frames, dev, bug, histVars>>

\* CLOSE_PORT; dev_close clears IFF_UP.
ClosePort ==
    /\ pc = "close_port"
    /\ port' = [port EXCEPT ![dev] = FALSE]
    /\ up' = [up EXCEPT ![dev] = FALSE]
    /\ pc' = "idle"
    /\ UNCHANGED <<isrVars, irqVars, napiVars, frames, dev, bug, histVars>>

Ifconfig ==
    \/ \E d \in Dev : OpenPort(d) \/ CloseUninstall(d)
    \/ OpenPollEnable \/ OpenEnable
    \/ InstallCount \/ InstallFsrc \/ InstallFsqf \/ InstallFails
    \/ ClosePollDisable \/ ClosePort

-----------------------------------------------------------------------------
(* Traffic, interrupt and poll.                                            *)

\* A frame comes in through an enabled port; FSRC rises.
Arrive ==
    /\ \E d \in Dev : port[d]
    /\ frames < RING
    /\ frames' = frames + 1
    /\ fsrc' = TRUE
    /\ UNCHANGED <<devVars, isrVars, masked, disable_depth, napiVars, pc, dev, bug, histVars>>

\* do_level_IRQ with star_gsw_receive_isr.  A disabled line, and a line with
\* no handler, are left masked; otherwise the handler schedules the poll and
\* leaves the line disabled, or finds it scheduled and leaves the line enabled.
Interrupt ==
    /\ fsrc
    /\ ~masked
    /\ IF disable_depth > 0 \/ fsrc_actions = 0
       THEN masked' = TRUE /\ UNCHANGED <<fsrc, disable_depth, napiVars>>
       ELSE /\ fsrc' = FALSE
            /\ masked' = ~rx_sched
            /\ disable_depth' = IF rx_sched THEN 0 ELSE 1
            /\ rx_sched' = TRUE
            /\ poll_list' = (poll_list \/ ~rx_sched)
    /\ UNCHANGED <<devVars, isrVars, frames, pc, dev, bug, histVars>>

\* star_gsw_poll takes frames and stays on the list.
PollWork(n) ==
    /\ poll_list
    /\ n \in 1 .. frames
    /\ frames' = frames - n
    /\ UNCHANGED <<devVars, isrVars, irqVars, napiVars, pc, dev, bug, histVars>>

\* star_gsw_poll finds the ring empty: netif_rx_complete, with its BUG_ON, and
\* enable_irq.
PollComplete ==
    /\ poll_list
    /\ frames = 0
    /\ IF ~rx_sched
       THEN bug' = TRUE /\ UNCHANGED <<irqVars, napiVars>>
       ELSE /\ rx_sched' = FALSE
            /\ poll_list' = FALSE
            /\ disable_depth' = IF disable_depth = 0 THEN 0 ELSE disable_depth - 1
            /\ masked' = IF disable_depth = 1 THEN FALSE ELSE masked
            /\ fsrc' = IF disable_depth = 1 THEN FALSE ELSE fsrc
            /\ bug' = FALSE
    /\ UNCHANGED <<devVars, isrVars, frames, pc, dev, histVars>>

Poll == (\E n \in 1 .. RING : PollWork(n)) \/ PollComplete

Next == ~bug /\ (Ifconfig \/ Arrive \/ Interrupt \/ Poll)

Spec == Init /\ [][Next]_vars

\* An open or close in progress goes on, interrupts are taken, the softirq runs.
Fairness ==
    /\ WF_vars(~bug /\ Ifconfig /\ pc # "idle")
    /\ WF_vars(~bug /\ Interrupt)
    /\ WF_vars(~bug /\ Poll)

FairSpec == Spec /\ Fairness

-----------------------------------------------------------------------------
(* Properties.                                                             *)

\* The types of the variables.
TypeOK ==
    /\ up \in [Dev -> BOOLEAN]
    /\ port \in [Dev -> BOOLEAN]
    /\ install_isr_account \in Int
    /\ fsrc_actions \in Nat
    /\ fsqf_action \in BOOLEAN
    /\ fsrc \in BOOLEAN
    /\ masked \in BOOLEAN
    /\ disable_depth \in {0, 1}
    /\ rx_sched \in BOOLEAN
    /\ poll_list \in BOOLEAN
    /\ frames \in 0 .. RING
    /\ pc \in {"idle", "poll_enable", "enable", "install", "install_fsqf",
               "poll_disable", "close_port"}
    /\ dev \in Dev
    /\ bug \in BOOLEAN
    /\ overlap \in BOOLEAN
    /\ failed \in Nat

\* A device that is up has interrupts: between calls of open and close, and as
\* long as request_irq has not failed, the handlers of FSRC and FSQF are
\* installed, once, exactly when some device is up.
UpMeansHandlers ==
    pc = "idle" /\ failed = 0 =>
        IF \E d \in Dev : up[d] THEN fsrc_actions = 1 /\ fsqf_action
        ELSE fsrc_actions = 0 /\ ~fsqf_action

\* install_isr_account counts the devices that are up, less one for every
\* star_gsw_install_isr that failed: star_gsw_close takes back what was never
\* counted, and nothing makes up for it.  There are at most as many such
\* failures as devices.
AccountCountsDevices ==
    pc = "idle" =>
        /\ install_isr_account = Cardinality({d \in Dev : up[d]}) - failed
        /\ failed <= Cardinality(Dev)

\* Once all devices are down the poll is neither listed nor can be: close has
\* waited for it and kept the RX_SCHED bit.  (A device opened beside another,
\* or a failed installation, breaks this.)
DownMeansQuiet ==
    pc = "idle" /\ (\A d \in Dev : ~up[d]) /\ ~overlap /\ failed = 0 => ~poll_list

\* As long as one device is used at a time and its handlers get installed, the
\* poll that star_gsw_close waits for never meets the BUG_ON of
\* netif_rx_complete: open clears the RX_SCHED bit of no scheduled poll.
OneUserNoBug == bug => overlap \/ failed > 0

\* netdevice.h, "The device cannot be out of poll list at this moment, it is
\* BUG()": netif_rx_complete always finds the RX_SCHED bit set.
NoNapiBug == ~bug

\* A close ends, if traffic does and the kernel lives: netif_poll_disable waits
\* for the poll, and the port is only closed after that.
CloseEnds == (<>[](frames = 0)) => (pc = "poll_disable" ~> pc = "idle" \/ bug)

=============================================================================
