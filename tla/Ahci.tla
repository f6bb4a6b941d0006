-------------------------------- MODULE Ahci --------------------------------
(***************************************************************************)
(* The AHCI driver (drivers/disk/ahci.c) on one port, the HBA behind it,   *)
(* and the blockdev wrappers above it (drivers/disk/blockdev.c).           *)
(*                                                                         *)
(* The driver polls, far faster than the clock ticks.  Its deadlines are   *)
(* compared with timer_apic_ticks(), which goes back to 0 every second     *)
(* (kernel/time/timer.c:320) and only moves while interrupts are on: in    *)
(* kmain after inte(), not before it and not inside a shell command, which *)
(* runs in the keyboard interrupt.                                         *)
(*                                                                         *)
(*   port   the driver's view: pc of the call, port_lock, buffer locks     *)
(*   hba    the controller: ci (slot -> DMA buffer), errors, whether hung  *)
(*   req    the request being served; moved is the set of pairs            *)
(*          <<sector of the caller's buffer, sector of the disk>>          *)
(***************************************************************************)
EXTENDS Integers, FiniteSets, FiniteSetsExt

CONSTANTS
    SECTOR_SIZE,    \* 512
    CHUNK,          \* 8, the sectors of one command
    WRAP,           \* 1000, where timer_apic_ticks goes back to 0
    READY_MS,       \* 100, the wait for the device before a command
    COMMAND_MS,     \* 200, the wait for the command
    AhciSlots,      \* 8, command slots and DMA buffers
    AhciTotal,      \* the sectors IDENTIFY reports
    AhciCounts,     \* the sector counts callers ask for
    MaxAhciReqs     \* bound on the number of requests

ASSUME AhciAssumption ==
    /\ SECTOR_SIZE \in Nat \ {0} /\ CHUNK \in Nat \ {0} /\ AhciSlots \in Nat \ {0}
    /\ WRAP \in Nat \ {0} /\ READY_MS \in 1..WRAP /\ COMMAND_MS \in 1..WRAP
    /\ AhciTotal \in Nat /\ AhciCounts \subseteq Nat \ {0}

VARIABLES port, hba, req, ahciReqs

ahciVars == <<port, hba, req, ahciReqs>>

SlotIds == 0..(AhciSlots - 1)
NoSlot == -1
IdleReq == [op |-> "none", ctx |-> "irq", lba |-> 0, count |-> 0, off |-> 0,
            rem |-> 0, n |-> 0, slot |-> NoSlot, buf |-> NoSlot, moved |-> {}, ret |-> 1]

AhciInit ==
    /\ port = [pc |-> "absent", lock |-> FALSE, sem |-> FALSE, held |-> {}, total |-> 0,
               tick |-> 0, until |-> 0]
    /\ hba = [ci |-> <<>>, on |-> FALSE, tfes |-> FALSE, hung |-> FALSE, strayed |-> FALSE]
    /\ req = IdleReq
    /\ ahciReqs = 0

\* The deadline has passed.
Late == port.tick >= port.until

\* The slots busy in the controller: ci maps a slot to the DMA buffer its
\* command names.
Busy == DOMAIN hba.ci

ahci_find_cmd_slot == IF SlotIds \ Busy = {} THEN NoSlot ELSE Min(SlotIds \ Busy)

WithCommand(ci, slot, buf) == [s \in DOMAIN ci \cup {slot} |-> IF s = slot THEN buf ELSE ci[s]]
Without(ci, slot) == [s \in DOMAIN ci \ {slot} |-> ci[s]]

\* ST goes to 0 and the HBA drops the commands it has; the driver waits for CR
\* before it clears FRE.
ahci_stop_cmd(h) == [h EXCEPT !.on = FALSE, !.ci = <<>>]

ahci_start_cmd(h, slot, buf) ==
    [h EXCEPT !.on = TRUE, !.ci = WithCommand(@, slot, buf), !.tfes = FALSE]

ahci_port_lock(p) == [p EXCEPT !.lock = TRUE]

ahci_release_buffer(p, b) == [p EXCEPT !.held = @ \ {b}, !.sem = FALSE]

(***************************************************************************)
(* Initialisation.                                                         *)
(***************************************************************************)

\* ahci_init and ahci_port_init up to the IDENTIFY command, with interrupts
\* off, at some tick.  Without a device there is no port.  hung is a device that
\* will not answer.
ahci_port_init(hung, tick) ==
    /\ port.pc = "absent"
    /\ port' = [port EXCEPT !.pc = "identify", !.tick = tick, !.until = tick + COMMAND_MS]
    /\ hba' = [ahci_start_cmd(hba, 0, 0) EXCEPT !.hung = hung]
    /\ UNCHANGED <<req, ahciReqs>>

\* The port is ACTIVE whatever IDENTIFY said; only its size depends on it.
ahci_port_identify ==
    /\ port.pc = "identify"
    /\ 0 \notin Busy \/ hba.tfes \/ Late
    /\ port' = [port EXCEPT !.pc = "idle",
                            !.total = IF hba.tfes \/ Late THEN 0 ELSE AhciTotal]
    /\ hba' = ahci_stop_cmd(hba)
    /\ UNCHANGED <<req, ahciReqs>>

(***************************************************************************)
(* A request.                                                              *)
(***************************************************************************)

\* (count + sector_size - 1) / sector_size, of a count that is in sectors.
RemainingSectors(count) == (count + SECTOR_SIZE - 1) \div SECTOR_SIZE

\* blockdev_read or blockdev_write, then ahci_port_read or ahci_port_write up
\* to its loop.
ahci_port_request(op, ctx, lba, count) ==
    /\ port.pc = "idle" /\ ahciReqs < MaxAhciReqs
    /\ ahciReqs' = ahciReqs + 1
    /\ IF lba + count > port.total \/ SlotIds \ port.held = {}
       THEN req' = [IdleReq EXCEPT !.ret = -1] /\ UNCHANGED port
       ELSE LET b == Min(SlotIds \ port.held)
            IN  /\ ~port.sem
                /\ port' = [port EXCEPT !.pc = "access", !.held = @ \cup {b},
                                        !.until = port.tick + READY_MS]
                /\ req' = [op |-> op, ctx |-> ctx, lba |-> lba, count |-> count, off |-> 0,
                           rem |-> RemainingSectors(count), n |-> 0, slot |-> NoSlot,
                           buf |-> b, moved |-> {}, ret |-> 1]
    /\ UNCHANGED hba

Fail(p) == /\ port' = [ahci_release_buffer(p, req.buf) EXCEPT !.pc = "idle"]
           /\ req' = [req EXCEPT !.ret = -1]

\* ahci_port_access up to the point where the command is issued.  A device that
\* stays busy for 100 ms fails the request.
ahci_port_access(ready) ==
    /\ port.pc = "access" /\ ~port.lock
    /\ LET s == ahci_find_cmd_slot
       IN  IF s = NoSlot THEN Fail(port) /\ UNCHANGED hba
           ELSE IF ~ready THEN Late /\ Fail(port) /\ UNCHANGED hba
           ELSE /\ ~Late
                /\ port' = [ahci_port_lock(port) EXCEPT !.pc = "wait",
                                                       !.until = port.tick + COMMAND_MS]
                /\ req' = [req EXCEPT !.slot = s, !.n = Min({CHUNK, req.rem})]
                /\ hba' = ahci_start_cmd(hba, s, req.buf)
    /\ UNCHANGED ahciReqs

\* The polling loop ends with a task file error or past its deadline: the port
\* is stopped, unlocked and the request fails.
ahci_command_failed_NoStop ==
    /\ port.pc = "wait"
    /\ hba.tfes \/ Late
    /\ Fail([port EXCEPT !.lock = FALSE])
    /\ UNCHANGED <<hba, ahciReqs>>
ahci_command_failed_ErrorOnly ==
    /\ port.pc = "wait"
    /\ hba.tfes
    /\ Fail([port EXCEPT !.lock = FALSE])
    /\ hba' = ahci_stop_cmd(hba)
    /\ UNCHANGED ahciReqs
ahci_command_failed ==
    /\ port.pc = "wait"
    /\ hba.tfes \/ Late
    /\ Fail([port EXCEPT !.lock = FALSE])
    /\ hba' = ahci_stop_cmd(hba)
    /\ UNCHANGED ahciReqs

Copied == {<<req.off + k, req.lba + req.off + k>> : k \in 0..(req.n - 1)}

\* The command is done in time: the port is stopped and unlocked, the data is
\* copied, and the loop goes on or the request ends.
ahci_command_done ==
    /\ port.pc = "wait"
    /\ req.slot \notin Busy /\ ~hba.tfes /\ ~Late
    /\ hba' = ahci_stop_cmd(hba)
    /\ LET last == req.rem = req.n
           p    == [port EXCEPT !.lock = FALSE]
       IN  /\ port' = IF last THEN [ahci_release_buffer(p, req.buf) EXCEPT !.pc = "idle"]
                      ELSE [p EXCEPT !.pc = "access", !.until = port.tick + READY_MS]
           /\ req' = [req EXCEPT !.moved = @ \cup Copied, !.off = @ + req.n,
                                 !.rem = @ - req.n, !.ret = IF last THEN 0 ELSE 1]
    /\ UNCHANGED ahciReqs

(***************************************************************************)
(* The controller and the clock.                                           *)
(***************************************************************************)

\* A command ends, with or without an error.  Its DMA goes to the buffer it
\* names, and has strayed when no call waits for that command any more.
HbaCompletes(ok) ==
    /\ \E s \in Busy :
         hba' = [hba EXCEPT !.ci = Without(@, s), !.tfes = ~ok,
                   !.strayed = @ \/ (~(port.pc = "identify") /\
                                     ~(port.pc = "wait" /\ req.slot = s /\ req.buf = hba.ci[s]))]
    /\ ~hba.hung
    /\ UNCHANGED <<port, req, ahciReqs>>

HbaHangs(hung) ==
    /\ hba.hung # hung
    /\ hba' = [hba EXCEPT !.hung = hung]
    /\ UNCHANGED <<port, req, ahciReqs>>

InterruptsOn == port.pc \in {"access", "wait"} /\ req.ctx = "kmain"

AhciTick ==
    /\ InterruptsOn /\ ~Late
    /\ port' = [port EXCEPT !.tick = (@ + 1) % WRAP]
    /\ UNCHANGED <<hba, req, ahciReqs>>

AhciDriver ==
    \/ ahci_port_identify
    \/ ahci_port_access(TRUE) \/ ahci_port_access(FALSE)
    \/ ahci_command_failed \/ ahci_command_done

AhciNext ==
    \/ \E h \in BOOLEAN, t \in 0..(WRAP - 1) : ahci_port_init(h, t)
    \/ \E op \in {"read", "write"}, ctx \in {"irq", "kmain"}, l \in {0, 1}, c \in AhciCounts :
          ahci_port_request(op, ctx, l, c)
    \/ AhciDriver
    \/ \E ok \in BOOLEAN : HbaCompletes(ok)
    \/ \E h \in BOOLEAN : HbaHangs(h)
    \/ AhciTick

AhciSpec == AhciInit /\ [][AhciNext]_ahciVars

AhciFairness ==
    WF_ahciVars(AhciDriver) /\ WF_ahciVars(HbaCompletes(TRUE)) /\ WF_ahciVars(AhciTick)

(***************************************************************************)
(* Properties.                                                             *)
(***************************************************************************)

AhciIdle == port.pc \in {"absent", "idle"}

\* port_lock, the DMA buffers and buffer_semaphore are free between requests,
\* on every early return of ahci_port_access too: the next request never spins
\* on something a failed one kept.
AhciLocksReleased == AhciIdle => ~port.lock /\ port.held = {} /\ ~port.sem

\* Inside a request the port has one owner, and it holds its buffer.
AhciOneCommand ==
    /\ port.lock <=> port.pc = "wait"
    /\ port.pc = "wait" => req.buf \in port.held /\ Busy \subseteq {req.slot}

\* A command that timed out is withdrawn before its DMA buffer is given back:
\* no late completion ever writes into a buffer that serves another request.
NoStrayDma == ~hba.strayed

\* Whatever a request moves goes to its own place: sector k of the buffer with
\* sector lba + k of the disk, and never past the caller's buffer.
AhciMovesInPlace ==
    \A m \in req.moved : m[2] = req.lba + m[1] /\ m[1] < req.count

\* A command ends when the device answers.  When the device is hung it ends by
\* its time-out, provided interrupts are on and the deadline is a tick the clock
\* will show: a deadline of 1000 or more never comes.
AhciReturns ==
    /\ (port.pc = "wait" /\ req.ctx = "kmain" /\ port.until < WRAP)
          ~> (AhciIdle \/ port.pc = "access")
    /\ (port.pc = "wait") ~> (AhciIdle \/ port.pc = "access" \/ hba.hung)

\* Whatever the controller does, a port is left ready for the next request and
\* moves nothing but what was asked for.
AhciSound == AhciLocksReleased /\ AhciOneCommand /\ NoStrayDma /\ AhciMovesInPlace
=============================================================================
