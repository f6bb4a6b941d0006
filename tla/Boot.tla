-------------------------------- MODULE Boot --------------------------------
(***************************************************************************)
(* The boot of the kernel (kernel/main.c) on one machine, with the driver  *)
(* registry (kernel/driver.c), the interrupt descriptor table (idt.c), the *)
(* I/O APIC (ioapic.c), the other processors (smp.c, lapic.c) and the      *)
(* interrupts that arrive once inte() has run.                             *)
(*                                                                         *)
(* A machine is what the firmware reports.  Steps of kmain that only print *)
(* or that other modules describe are left out.  A gate of the descriptor  *)
(* table is the name of its handler; a vector outside the domain of gates  *)
(* is not present, and an interrupt on it ends in gpf(), which halts.      *)
(***************************************************************************)
EXTENDS Integers, Sequences, SequencesExt, FiniteSets

CONSTANTS
    Machines,     \* the machines booted
    MAX_CPUS,     \* entries of cpus[]
    MAX_GSI       \* entries of g_irq_redirects

VARIABLES
    machine,      \* the machine, NoMachine before power on
    pc,           \* the step of kmain that comes next, or where it ended
    drivers,      \* names in g_driver_list
    driver_count,
    initialized,  \* names of the drivers with the flag set
    irqs,         \* gates: vector -> handler; redirects: GSI -> [vector, masked];
                  \* hw: the same, in the redirection tables of the hardware
    ioapic,       \* the private structure of the I/O APIC driver
    links,        \* g_ioapic_list: [next, prev] of its head and of the structure's node
    overrides,    \* ioapic_overrides: source -> GSI, for the valid ones
    cpus,         \* cpus[0 .. cpu_count - 1]
    ap,           \* the loop variable of smp_init
    ipis,         \* interprocessor interrupts sent: <<kind, APIC id>>
    up,           \* what interrupt handlers rely on and is initialised
    served        \* <<GSI, handler>> of the interrupts handled

bootVars == <<machine, pc, drivers, driver_count, initialized, irqs, ioapic, links, overrides,
              cpus, ap, ipis, up, served>>

NoMachine == [power |-> FALSE]
NoCpu == [id |-> -1, enabled |-> FALSE, online |-> FALSE]
NoLine == -1

\* The names drivers_register enters, in its order.
Registered == <<"framebuffer", "acpi", "lapic", "ioapic", "ps2_kbd", "pci", "ide", "ahci", "cdrom",
                "rtl8139">>

BootInit ==
    /\ machine = NoMachine
    /\ pc = "off"
    /\ drivers = <<>> /\ driver_count = 0 /\ initialized = {}
    /\ irqs = [gates |-> <<>>, redirects |-> <<>>, hw |-> <<>>]
    /\ ioapic = [base |-> 0, size |-> 0, private |-> FALSE]
    /\ links = [n \in {"head", "node"} |-> [next |-> "NULL", prev |-> "NULL"]]
    /\ overrides = <<>>
    /\ cpus = <<>> /\ ap = 1 /\ ipis = <<>> /\ up = {} /\ served = {}

\* The firmware leaves the lines of the I/O APICs masked or not.
PowerOn ==
    /\ pc = "off"
    /\ \E m \in Machines :
           /\ machine' = m
           /\ irqs' = [irqs EXCEPT !.hw =
                          [g \in UNION {a.base..(a.base + a.size - 1) : a \in Range(m.ioapics)} |->
                              [vector |-> 0, masked |-> m.quiet]]]
    /\ pc' = "idt_install"
    /\ UNCHANGED <<drivers, driver_count, initialized, ioapic, links, overrides, cpus, ap, ipis, up, served>>

Go(to) == pc' = to /\ UNCHANGED <<machine, served>>
Ready(name) == initialized' = initialized \cup {name}

-----------------------------------------------------------------------------
(* driver.c and list.h *)

driver_register(names, name) == IF name \in Range(names) THEN names ELSE Append(names, name)

driver_unregister(names) ==
    /\ drivers' = SelectSeq(drivers, LAMBDA d : d \notin names)
    /\ driver_count' = driver_count - Cardinality(names)

\* list_add_tail(&g_ioapic_list, &ioapic->node), assignment by assignment.
list_add_tail(l) ==
    LET last == l["head"].prev
        set == [l EXCEPT !["node"] = [next |-> "head", prev |-> last]]
    IN  [[set EXCEPT ![last].next = "node"] EXCEPT !["head"].prev = "node"]

\* list_for_each comes back to the head.
WalkEnds(l) ==
    \/ l["head"].next = "head"
    \/ l["head"].next = "node" /\ l["node"].next = "head"

-----------------------------------------------------------------------------
(* idt.c and ioapic.c, as functions of irqs *)

idt_set_gate(s, vector, handler) ==
    [s EXCEPT !.gates = [v \in DOMAIN s.gates \cup {vector % 256} |->
                            IF v = vector % 256 THEN handler ELSE s.gates[v]]]

\* driver_get_private hands every entry of the MADT the same structure: each overwrites
\* the one before it and links the same node again.
AddIoapics(apics) ==
    FoldLeft(LAMBDA s, a : [io |-> [base |-> a.base, size |-> a.size, private |-> TRUE],
                            l |-> list_add_tail(s.l)],
             [io |-> ioapic, l |-> [links EXCEPT !["head"] = [next |-> "head", prev |-> "head"]]],
             apics)

find_ioapic_for_gsi(gsi) == ioapic.private /\ ioapic.base <= gsi /\ gsi - ioapic.base < ioapic.size

Masks(io, table) ==
    [g \in DOMAIN table |->
        IF g \in io.base..(io.base + io.size - 1) THEN [table[g] EXCEPT !.masked = TRUE] ELSE table[g]]
ioapic_mask_all(s, io) == [s EXCEPT !.hw = Masks(io, @), !.redirects = Masks(io, @)]

\* The last entry of a source counts.
ioapic_process_overrides(entries) ==
    [s \in {o.source : o \in Range(entries)} |->
        Last(SelectSeq(entries, LAMBDA o : o.source = s)).gsi]

ioapic_get_override(source) == IF source \in DOMAIN overrides THEN overrides[source] ELSE source

ioapic_redirect_irq(s, gsi, vector) ==
    LET entry == [vector |-> vector % 256, masked |-> TRUE]
    IN  [s EXCEPT !.redirects[gsi] = entry, !.hw[gsi] = entry]

ioapic_unmask_irq(s, gsi) == [s EXCEPT !.hw[gsi].masked = FALSE, !.redirects[gsi].masked = FALSE]

\* What every driver does with its line: redirect, then unmask; refused without an entry.
Route(s, gsi, vector) ==
    IF find_ioapic_for_gsi(gsi)
    THEN ioapic_unmask_irq(ioapic_redirect_irq(s, gsi, vector), gsi) ELSE s

-----------------------------------------------------------------------------
(* kmain *)

idt_install ==
    /\ pc = "idt_install"
    /\ irqs' = [irqs EXCEPT !.gates = [v \in 0..33 |-> IF v = 32 THEN "timer"
                                                      ELSE IF v = 33 THEN "keyboard" ELSE "exception"]]
    /\ Go(IF machine.multiboot THEN "drivers_register" ELSE "halted")
    /\ UNCHANGED <<drivers, driver_count, initialized, ioapic, links, overrides, cpus, ap, ipis, up>>

drivers_register ==
    /\ pc = "drivers_register"
    /\ drivers' = FoldLeft(driver_register, <<>>, Registered)
    /\ driver_count' = Len(drivers')
    /\ Go("framebuffer")
    /\ UNCHANGED <<initialized, irqs, ioapic, links, overrides, cpus, ap, ipis, up>>

\* memory_init, the framebuffer, the terminal and the error list; without a usable
\* framebuffer the kernel halts.
framebuffer ==
    /\ pc = "framebuffer"
    /\ IF machine.framebuffer
       THEN Ready("framebuffer") /\ up' = up \cup {"heap", "terminal"} /\ Go("acpi")
       ELSE Go("halted") /\ UNCHANGED <<initialized, up>>
    /\ UNCHANGED <<drivers, driver_count, irqs, ioapic, links, overrides, cpus, ap, ipis>>

\* acpifnc.c: the root pointer is checked by its signature and by one sum, from revision 2
\* on by a second one as well, then the table it points to.
acpi_validate_rsdp(a) == a.signature /\ a.sum /\ (a.revision >= 2 => a.length /\ a.sum2)
acpi_init(a) == acpi_validate_rsdp(a) /\ (IF a.revision >= 2 THEN a.xsdt ELSE a.rsdt)

\* The first table with the signature, or none when its sum is wrong: a second table with
\* the same signature is not looked at.
acpi_find_table(a, signature) ==
    LET at == {i \in 1..Len(a.tables) : a.tables[i].signature = signature}
    IN  at # {} /\ a.tables[CHOOSE i \in at : \A j \in at : i <= j].sum

\* acpi, then lapic: each failure is a panic.
acpi ==
    /\ pc = "acpi"
    /\ IF acpi_init(machine.acpi) THEN Ready("acpi") /\ Go("lapic")
       ELSE Go("panic") /\ UNCHANGED initialized
    /\ UNCHANGED <<drivers, driver_count, irqs, ioapic, links, overrides, cpus, ap, ipis, up>>

lapic ==
    /\ pc = "lapic"
    /\ IF machine.lapic THEN Ready("lapic") /\ up' = up \cup {"eoi"} /\ Go("ioapic")
       ELSE Go("panic") /\ UNCHANGED <<initialized, up>>
    /\ UNCHANGED <<drivers, driver_count, irqs, ioapic, links, overrides, cpus, ap, ipis>>

\* ioapic_probe, which needs the MADT, ioapic_init_driver, whose ioapic_mask_all walks the
\* list, then ioapic_process_overrides and ioapic_mask_all again.
ioapic_init_driver ==
    /\ pc = "ioapic"
    /\ \E added \in {AddIoapics(machine.ioapics)},
          blank \in {[irqs EXCEPT !.redirects =
                         [g \in 0..(MAX_GSI - 1) |-> [vector |-> 0, masked |-> TRUE]]]} :
           IF ~acpi_find_table(machine.acpi, "APIC")
           THEN Go("panic") /\ UNCHANGED <<irqs, ioapic, links, overrides, initialized>>
           ELSE
           /\ ioapic' = added.io
           /\ links' = added.l
           /\ IF machine.ioapics = <<>>
              THEN Go("panic") /\ irqs' = blank /\ UNCHANGED <<overrides, initialized>>
              ELSE /\ irqs' = ioapic_mask_all(blank, added.io)
                   /\ IF WalkEnds(added.l)
                      THEN /\ overrides' = ioapic_process_overrides(machine.overrides)
                           /\ Ready("ioapic")
                           /\ Go("smp_scan_madt")
                      ELSE Go("hung") /\ UNCHANGED <<overrides, initialized>>
    /\ UNCHANGED <<drivers, driver_count, cpus, ap, ipis, up>>

BspFirst_Kept(table, boot) == table
BspFirst(table, boot) == [table EXCEPT ![1] = table[boot], ![boot] = table[1]]

\* The processors of the MADT; the count of CPUID replaces theirs; the boot processor first.
smp_scan_madt ==
    /\ pc = "smp_scan_madt"
    /\ LET listed == SubSeq(machine.cpus, 1,
                            IF Len(machine.cpus) < MAX_CPUS THEN Len(machine.cpus) ELSE MAX_CPUS)
           table == [i \in 1..MAX_CPUS |->
                        IF i > Len(listed) THEN NoCpu
                        ELSE [id |-> listed[i].id, enabled |-> listed[i].enabled,
                              online |-> listed[i].id = machine.bsp]]
           boot == {i \in 1..Len(listed) : listed[i].id = machine.bsp}
       IN  cpus' = SubSeq(BspFirst(table, IF boot = {} THEN 1 ELSE CHOOSE i \in boot : TRUE),
                          1, machine.real)
    /\ Go("start_ap")
    /\ UNCHANGED <<drivers, driver_count, initialized, irqs, ioapic, links, overrides, ap, ipis, up>>

\* lapic.c: what a command sends.  It is dropped when the command register becomes ready at
\* the very last poll and sent when it never does: a loop that runs out leaves timeout at -1,
\* and the test after it is for 0.
apic_send_init(id) == {<<>>, <<<<"INIT", id>>>>}
apic_send_startup(id) == {<<>>, <<<<"STARTUP", id>>>>}

\* One round of smp_init's loop: an enabled processor is marked online whatever happens.
start_ap ==
    /\ pc = "start_ap"
    /\ IF ap < Len(cpus)
       THEN LET cpu == cpus[ap + 1]
            IN  /\ ap' = ap + 1
                /\ IF cpu.enabled
                   THEN /\ \E i \in apic_send_init(cpu.id), s \in apic_send_startup(cpu.id),
                               t \in apic_send_startup(cpu.id) : ipis' = ipis \o i \o s \o t
                        /\ cpus' = [cpus EXCEPT ![ap + 1].online = TRUE]
                   ELSE UNCHANGED <<cpus, ipis>>
                /\ Go("start_ap")
       ELSE Go("keyboard") /\ UNCHANGED <<cpus, ap, ipis>>
    /\ UNCHANGED <<drivers, driver_count, initialized, irqs, ioapic, links, overrides, up>>

keyboard ==
    /\ pc = "keyboard"
    /\ IF machine.keyboard
       THEN Ready("ps2_kbd") /\ irqs' = Route(irqs, ioapic_get_override(1), 33)
       ELSE UNCHANGED <<initialized, irqs>>
    /\ Go("timer")
    /\ UNCHANGED <<drivers, driver_count, ioapic, links, overrides, cpus, ap, ipis, up>>

\* init_system_clock, timer_apic_init (GSI 0, whatever the overrides say), scheduler_init.
timer ==
    /\ pc = "timer"
    /\ irqs' = Route(irqs, 0, 32)
    /\ up' = up \cup {"clock", "scheduler"}
    /\ Go("usb")
    /\ UNCHANGED <<drivers, driver_count, initialized, ioapic, links, overrides, cpus, ap, ipis>>

\* pci_init, which gives the line of an audio controller vector 48 and no gate, and the USB
\* controllers: the line of each gets a vector and that a gate.
HdaLine(s) == IF machine.hda = NoLine THEN s ELSE Route(s, ioapic_get_override(machine.hda), 48)
UsbLine(s, dev) ==
    LET gsi == ioapic_get_override(dev.line)
        vector == 48 + (gsi % 16)
    IN  IF find_ioapic_for_gsi(gsi)
        THEN idt_set_gate(Route(s, gsi, vector), vector, dev.kind) ELSE s
usb ==
    /\ pc = "usb"
    /\ irqs' = FoldLeft(UsbLine, HdaLine(irqs), machine.usb)
    /\ Ready("pci")
    /\ Go("disks")
    /\ UNCHANGED <<drivers, driver_count, ioapic, links, overrides, cpus, ap, ipis, up>>

\* ide_init of the four drives, on the line of the PCI function: the vector is 32 + irq,
\* the gate is set at irq.
IdeLine(s, handler) ==
    idt_set_gate(Route(s, ioapic_get_override(machine.ide), 32 + machine.ide), machine.ide, handler)

\* rtl8139_setup_irq: a vector, no gate.
RtlLine(s) ==
    LET gsi == ioapic_get_override(machine.rtl8139)
    IN  Route(s, gsi, 40 + (gsi % 16))

\* The disks and the network card; drivers without a device leave the registry.
disks ==
    /\ pc = "disks"
    /\ LET absent == {d \in {"ide", "rtl8139"} : machine[d] = NoLine} \cup
                         (IF machine.ahci THEN {} ELSE {"ahci"})
           ide == IF machine.ide = NoLine THEN irqs
                  ELSE FoldLeft(IdeLine, irqs, <<"ide_pri", "ide_pri", "ide_sec", "ide_sec">>)
       IN  /\ driver_unregister(absent)
           /\ irqs' = IF machine.rtl8139 = NoLine THEN ide ELSE RtlLine(ide)
           /\ initialized' = initialized \cup (IF machine.drive THEN {"ide"} \ absent ELSE {})
    /\ Go("inte")
    /\ UNCHANGED <<ioapic, links, overrides, cpus, ap, ipis, up>>

\* The rest of the set-up, inte(), the root volume and the prompt.
inte ==
    /\ pc = "inte"
    /\ Go("interrupts")
    /\ UNCHANGED <<drivers, driver_count, initialized, irqs, ioapic, links, overrides, cpus, ap, ipis, up>>

\* The lines on which something raises interrupts: the PIT, the keyboard, the controllers.
Raised ==
    {0, ioapic_get_override(0), ioapic_get_override(1)} \cup {ioapic_get_override(14)}
        \cup {ioapic_get_override(d.line) : d \in Range(machine.usb)}
        \cup {ioapic_get_override(line) : line \in {machine.rtl8139, machine.hda} \ {NoLine}}

\* The USB drivers enter a C function, without the code around it that saves registers and
\* returns from an interrupt: what becomes of the interrupted program is undefined.
CFunctions == {"xhci", "ehci"}

Interrupt(gsi) ==
    /\ pc = "interrupts"
    /\ gsi \in DOMAIN irqs.hw /\ ~irqs.hw[gsi].masked
    /\ LET vector == irqs.hw[gsi].vector
       IN  IF vector \in DOMAIN irqs.gates
           THEN /\ served' = served \cup {<<gsi, irqs.gates[vector]>>}
                /\ pc' \in IF irqs.gates[vector] \in CFunctions THEN {pc, "fault"} ELSE {pc}
           ELSE pc' = "fault" /\ UNCHANGED served
    /\ UNCHANGED <<machine, drivers, driver_count, initialized, irqs, ioapic, links, overrides,
                   cpus, ap, ipis, up>>

BootNext ==
    \/ PowerOn \/ idt_install \/ drivers_register \/ framebuffer \/ acpi \/ lapic
    \/ ioapic_init_driver \/ smp_scan_madt \/ start_ap \/ keyboard \/ timer \/ usb \/ disks \/ inte
    \/ pc = "interrupts" /\ \E gsi \in Raised : Interrupt(gsi)
-----------------------------------------------------------------------------
\* g_irq_redirects tells the truth about the hardware: every line of the I/O APIC is masked
\* there exactly when it is masked here, and an open line has the vector recorded for it.
\* No line is open that no driver asked for, so none can raise the vector of an exception.
LinesAgree ==
    "ioapic" \in initialized =>
        \A g \in DOMAIN irqs.hw :
            /\ irqs.redirects[g].masked = irqs.hw[g].masked
            /\ ~irqs.hw[g].masked => irqs.redirects[g].vector = irqs.hw[g].vector /\ irqs.hw[g].vector >= 32

\* The registry counts its drivers, holds each once, and loses exactly those without a
\* device; whatever is marked initialised is still listed.
DriversListed ==
    /\ driver_count = Len(drivers)
    /\ Cardinality(Range(drivers)) = Len(drivers)
    /\ initialized \subseteq Range(drivers)

\* The boot processor never resets itself, and the others get one INIT and two STARTUPs at
\* most, whatever order and number the firmware lists.
BspSpared ==
    /\ \A i \in 1..Len(ipis) : ipis[i][2] # machine.bsp
    /\ \A i, j \in 1..Len(ipis) : i < j /\ ipis[i][2] = ipis[j][2] => ipis[j][1] = "STARTUP"
    /\ \A i, j, k \in 1..Len(ipis) :
           i < j /\ j < k /\ ipis[i][2] = ipis[k][2] => ipis[i] = <<"INIT", ipis[k][2]>>

\* The timer and the keyboard keep their gates, and the keyboard's line keeps its vector
\* unless the firmware gives a PCI function the same line.  Exceptions lose a gate only to
\* the IDE driver, which sets the gate of its line number.
GatesKept ==
    LET line == ioapic_get_override(1)
        pci == {d.line : d \in Range(machine.usb)} \cup {machine.ide, machine.rtl8139, machine.hda}
        claimed == {ioapic_get_override(l) : l \in pci}
    IN  pc = "interrupts" =>
            /\ irqs.gates[32] = "timer" /\ irqs.gates[33] = "keyboard"
            /\ machine.keyboard /\ line \notin claimed /\ find_ioapic_for_gsi(line) =>
                   irqs.hw[line] = [vector |-> 33, masked |-> FALSE]
            /\ \A v \in 0..31 : irqs.gates[v] = "exception" \/ v = machine.ide

\* Booting ends at the prompt unless something it needs is missing: the list of I/O APICs
\* can be walked whenever there is one.
BootEnds == pc = "hung" => Len(machine.ioapics) > 1

\* What the boot establishes, on every machine.
BootSound == LinesAgree /\ DriversListed /\ BspSpared /\ GatesKept /\ BootEnds

\* Every interrupt a driver opened finds a handler: "Interrupt vector = 32 + IRQ number (as
\* in IDT)" (drivers/disk/ide.c), the gate is where the line's vector points.
EveryInterruptHandled == pc # "fault"
=============================================================================
