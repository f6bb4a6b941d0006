-------------------------------- MODULE Pci ---------------------------------
(***************************************************************************)
(* PCI enumeration (drivers/pci/pci.c), the audio controller that pci_init *)
(* brings up (drivers/pci/hda.c) and the drivers that then look a function *)
(* up and enable it.                                                       *)
(*                                                                         *)
(* The configuration space is external: a function from <<bus, slot,       *)
(* function>> to registers.  A base address register has REG values; what  *)
(* a write leaves in it depends on its size (mask), on the type bits wired *)
(* into it (flags) and on how many bits it implements (top).               *)
(***************************************************************************)
EXTENDS Integers, Sequences, SequencesExt, FiniteSets, FiniteSetsExt

CONSTANTS
    Spaces,       \* the configuration spaces of the machines
    REG,          \* values of a register, 2^32 in the code
    MaxEnables    \* bound on the calls of pci_enable

VARIABLES
    phase,        \* "off", "scan", "done"
    space,        \* the configuration space
    work,         \* the calls of the scan still to be made
    dev,          \* the structure pci_probe is filling in
    pci_devices,  \* the list, newest first
    device_count,
    hda,          \* g_hda
    enables       \* calls of pci_enable and pci_enable_busmaster

pciVars == <<phase, space, work, dev, pci_devices, device_count, hda, enables>>

NoSpace == [f \in {} |-> 0]
NoHda == [initialized |-> FALSE, codecs |-> <<>>]

PciInit ==
    /\ phase = "off" /\ space = NoSpace /\ work = <<>> /\ dev = NoSpace
    /\ pci_devices = <<>> /\ device_count = 0
    /\ hda = NoHda
    /\ enables = 0

Decoding == {"io", "mem"}

-----------------------------------------------------------------------------
(* The hardware *)

\* A write to base address register i.  moved records that the register changed while the
\* function answered to the addresses it holds.
HwWrite(f, i, v) ==
    LET now == ((v % f.top[i]) - (v % f.mask[i])) + f.flags[i]
    IN  [f EXCEPT !.bar[i] = now,
                  !.moved = @ \/ (now # f.bar[i] /\ f.command \cap Decoding # {})]

HwPair(f, i, low, high) == HwWrite(HwWrite(f, i, low), i + 1, high)

-----------------------------------------------------------------------------
(* pci.c *)

\* The list of capabilities starts at the second byte of register 34h; the byte that holds
\* the pointer is the first, and the second is reserved.
pci_find_cap(f, id) ==
    LET RECURSIVE Walk(_)
        Walk(offset) ==
            IF offset \notin DOMAIN f.caps THEN 0
            ELSE IF f.caps[offset].id = id THEN offset
            ELSE Walk(f.caps[offset].next)
    IN  IF f.cap_list THEN Walk(f.reg34[2]) ELSE 0

\* One register, or a pair: all ones are written, what comes back gives the size, and the
\* old value is restored.
SizeOne(f, d, i, unit, type) ==
    LET bar == f.bar[i]
        sized == HwWrite(f, i, REG - 1)
    IN  [f |-> HwWrite(sized, i, bar),
         d |-> [d EXCEPT !.types[i] = type, !.bars[i] = bar - (bar % unit),
                         !.sizes[i] = (REG - (sized.bar[i] - (sized.bar[i] % unit))) % REG],
         next |-> i + 1]

SizePair(f, d, i) ==
    LET low == f.bar[i]
        high == f.bar[i + 1]
        sized == HwPair(f, i, REG - 1, REG - 1)
        full == (sized.bar[i + 1] * REG) + (sized.bar[i] - (sized.bar[i] % 16))
    IN  [f |-> HwPair(sized, i, low, high),
         d |-> [d EXCEPT !.types[i] = 1, !.bars[i] = (high * REG) + (low - (low % 16)),
                         !.sizes[i] = ((REG * REG) - full) % (REG * REG)],
         next |-> i + 2]

-----------------------------------------------------------------------------
(* The scan.  work holds the calls still to be made, the next one first: *)
(* <<"bus", b>>, <<"device", b, s>>, <<"others", b, s>>, <<"function", b, s, n>>, and, for  *)
(* the function being probed, <<"bar", i>> and <<"add">>; then <<"bridge">>.                *)

Call(kind) == work # <<>> /\ Head(work)[1] = kind
Calls(seq) == work' = seq \o Tail(work)
Ascending(S) == SetToSortSeq(S, <)

\* Each function of a host bridge with several stands for the bus of its number.
pci_init ==
    /\ phase = "off"
    /\ \E sp \in Spaces :
           /\ space' = sp
           /\ LET hosts == {n \in 0..7 : <<0, 0, n>> \in DOMAIN sp}
                  buses == IF sp[<<0, 0, 0>>].multi THEN Ascending(hosts) ELSE <<0>>
              IN  work' = [i \in 1..Len(buses) |-> <<"bus", buses[i]>>]
    /\ phase' = "scan"
    /\ UNCHANGED <<dev, pci_devices, device_count, hda, enables>>

pci_scan_bus ==
    /\ Call("bus")
    /\ LET bus == Head(work)[2]
           slots == Ascending({n \in 0..31 : <<bus, n, 0>> \in DOMAIN space})
       IN  Calls([i \in 1..Len(slots) |-> <<"device", bus, slots[i]>>])
    /\ UNCHANGED <<phase, space, dev, pci_devices, device_count, hda, enables>>

pci_scan_device ==
    /\ Call("device")
    /\ LET c == Head(work)
       IN  Calls(<<<<"function", c[2], c[3], 0>>, <<"others", c[2], c[3]>>>>)
    /\ UNCHANGED <<phase, space, dev, pci_devices, device_count, hda, enables>>

\* Whether the device has more functions is read from the head of the list after function 0
\* has been scanned: behind a bridge that is the last device of its bus.
ScanOthers ==
    /\ Call("others")
    /\ LET c == Head(work)
           others == Ascending({n \in 1..7 : <<c[2], c[3], n>> \in DOMAIN space})
       IN  Calls(IF Head(pci_devices).multi
                 THEN [i \in 1..Len(others) |-> <<"function", c[2], c[3], others[i]>>] ELSE <<>>)
    /\ UNCHANGED <<phase, space, dev, pci_devices, device_count, hda, enables>>

\* pci_scan_function and pci_probe up to the loop over the base address registers, around
\* which the command register is off.
DecodeOff_Kept(f) == f
DecodeOff(f) == [f EXCEPT !.command = {}]
pci_probe ==
    /\ Call("function")
    /\ LET at == Tail(Head(work))
           f == space[at]
           zero == [i \in 1..6 |-> 0]
       IN  /\ dev' = [at |-> at, class |-> f.class, multi |-> f.multi, line |-> f.line,
                      command |-> f.command, bars |-> zero, sizes |-> zero, types |-> zero,
                      is_pcie |-> FALSE]
           /\ space' = [space EXCEPT ![at] = DecodeOff(f)]
    /\ Calls(<<<<"bar", 1>>, <<"add">>, <<"bridge">>>>)
    /\ UNCHANGED <<phase, pci_devices, device_count, hda, enables>>

\* The body of the loop for register i, and the register that comes next.
SizeBar(f, i) ==
    LET bar == f.bar[i]
        type == (bar \div 2) % 4
    IN  IF bar = 0 THEN [f |-> f, d |-> dev, next |-> i + 1]
        ELSE IF bar % 2 = 1 THEN SizeOne(f, dev, i, 4, 2)
        ELSE IF type = 0 THEN SizeOne(f, dev, i, 16, 0)
        ELSE IF type = 2 /\ i < 6 THEN SizePair(f, dev, i)
        ELSE [f |-> f, d |-> [dev EXCEPT !.types[i] = IF type = 2 THEN 1 ELSE 0], next |-> i + 1]

pci_detect_bars ==
    /\ Call("bar")
    /\ \E r \in {SizeBar(space[dev.at], Head(work)[2])} :
           /\ space' = [space EXCEPT ![dev.at] = r.f]
           /\ dev' = r.d
           /\ Calls(IF r.next <= 6 THEN <<<<"bar", r.next>>>> ELSE <<>>)
    /\ UNCHANGED <<phase, pci_devices, device_count, hda, enables>>

\* The command register as it was, the capabilities, and the list.
AddDevice ==
    /\ Call("add")
    /\ space' = [space EXCEPT ![dev.at].command = dev.command]
    /\ pci_devices' = <<[dev EXCEPT !.is_pcie = pci_find_cap(space[dev.at], "pcie") # 0]>> \o pci_devices
    /\ device_count' = device_count + 1
    /\ Calls(<<>>)
    /\ UNCHANGED <<phase, dev, hda, enables>>

\* The bridge whose bus is scanned next is the device just added.
pci_scan_function ==
    /\ Call("bridge")
    /\ LET d == Head(pci_devices)
           secondary == space[d.at].secondary
       IN  Calls(IF d.class = "bridge" /\ secondary # 0 THEN <<<<"bus", secondary>>>> ELSE <<>>)
    /\ UNCHANGED <<phase, space, dev, pci_devices, device_count, hda, enables>>

-----------------------------------------------------------------------------
\* The first entry of the list that matches: of several, the one found last.
pci_find_class(list, class) ==
    LET at == {i \in 1..Len(list) : list[i].class = class}
    IN  IF at = {} THEN 0 ELSE Min(at)

-----------------------------------------------------------------------------
(* hda.c, during hda_init: every verb fails while the controller is not marked initialised, *)
(* so no widget and no output pin is found.                                                 *)

hda_send_verb(h) == h.initialized

\* Tags are given out in order; a descriptor counts as free until its stream runs.
hda_setup_stream(h) == [index |-> 0, tag |-> Len(h.codecs) + 1]

hda_init_codec(h, n) ==
    LET widgets == hda_send_verb(h)
    IN  [h EXCEPT !.codecs = Append(@, [num |-> n, stream |-> hda_setup_stream(h), output |-> widgets])]

\* The two rings need a page each; codecs are brought up in the order of their addresses.
hda_init(codecs) ==
    \/ hda' = NoHda
    \/ hda' = [FoldLeft(hda_init_codec, NoHda, SetToSortSeq(codecs, <)) EXCEPT !.initialized = TRUE]

-----------------------------------------------------------------------------
pci_enable(i, bits) ==
    LET d == pci_devices[i]
    IN  /\ pci_devices' = [pci_devices EXCEPT ![i].command = d.command \cup bits]
        /\ space' = [space EXCEPT ![d.at].command = d.command \cup bits]

\* The end of pci_init: an audio controller is enabled and brought up.
InitAudio ==
    /\ phase = "scan" /\ work = <<>>
    /\ LET audio == pci_find_class(pci_devices, "hda")
       IN  IF audio = 0 THEN UNCHANGED <<space, pci_devices, hda>>
           ELSE pci_enable(audio, Decoding \cup {"master"}) /\ hda_init(space[pci_devices[audio].at].codecs)
    /\ phase' = "done"
    /\ UNCHANGED <<work, dev, device_count, enables>>

\* A driver looks its class up and enables what it finds: AHCI and the network card fully,
\* IDE the bus master bit only.
DriverEnables ==
    /\ phase = "done" /\ enables < MaxEnables
    /\ \E class \in {"ahci", "ide", "nic"} :
           LET at == pci_find_class(pci_devices, class)
           IN  at # 0 /\ pci_enable(at, IF class = "ide" THEN {"master"} ELSE Decoding \cup {"master"})
    /\ enables' = enables + 1
    /\ UNCHANGED <<phase, work, dev, device_count, hda>>

\* The USB core walks the whole list and enables each controller it knows.
UsbProbes ==
    /\ phase = "done" /\ enables < MaxEnables
    /\ \E i \in 1..Len(pci_devices) :
           pci_devices[i].class = "usb" /\ pci_enable(i, Decoding \cup {"master"})
    /\ enables' = enables + 1
    /\ UNCHANGED <<phase, work, dev, device_count, hda>>

PciNext ==
    \/ pci_init \/ pci_scan_bus \/ pci_scan_device \/ ScanOthers \/ pci_probe \/ pci_detect_bars
    \/ AddDevice \/ pci_scan_function \/ InitAudio \/ DriverEnables \/ UsbProbes
-----------------------------------------------------------------------------
Listed == {pci_devices[i].at : i \in 1..Len(pci_devices)}

\* The buses a bridge on bus 0 leads to, directly or not, and those of the host bridges.
Buses ==
    LET hosts == IF space[<<0, 0, 0>>].multi THEN {at[3] : at \in {a \in DOMAIN space : a[1] = 0 /\ a[2] = 0}}
                 ELSE {0}
    IN  hosts \cup {space[at].secondary : at \in DOMAIN space}

\* The enumeration finds every device with a function 0 on those buses, and every further
\* function of a device unless its function 0 is a bridge, whose own header is not the one
\* looked at.  Nothing is listed that is not there, and only a bus that is both behind a
\* bridge and numbered like a function of the host bridge is listed twice.
ScanComplete ==
    phase = "done" =>
        /\ device_count = Len(pci_devices)
        /\ Listed \subseteq DOMAIN space
        /\ \A at \in DOMAIN space :
               LET zero == <<at[1], at[2], 0>>
               IN  /\ at[1] \in Buses /\ at[3] = 0 => at \in Listed
                   /\ at[1] \in Buses /\ zero \in DOMAIN space /\ space[zero].multi
                          /\ space[zero].class # "bridge" => at \in Listed
        /\ ~space[<<0, 0, 0>>].multi => Cardinality(Listed) = Len(pci_devices)

\* Sizing is invisible afterwards: every function has the registers the firmware gave it,
\* none of them changed while the function decoded addresses, and the list has the
\* addresses and, for registers with all bits, the sizes.
BarsRight ==
    phase = "done" => \A i \in 1..Len(pci_devices) :
        LET d == pci_devices[i]
            f == space[d.at]
        IN  /\ ~f.moved
            /\ f.bar = f.firmware
            /\ \A n \in 1..6 :
                   d.sizes[n] # 0 /\ f.top[n] = REG => d.sizes[n] = f.mask[n]
            /\ \A n \in 1..5 :
                   d.types[n] = 1 => d.bars[n] = (f.bar[n + 1] * REG) + (f.bar[n] - (f.bar[n] % 16))
                                         /\ d.bars[n + 1] = 0

\* The copy of the command register in the list is the one in the hardware, for a function
\* that is listed once, so that enabling never switches something off again.
CommandsAgree ==
    phase = "done" => \A i \in 1..Len(pci_devices) :
        LET d == pci_devices[i]
        IN  (\A j \in 1..Len(pci_devices) : pci_devices[j].at = d.at => j = i) =>
                d.command = space[d.at].command

\* Audio codecs that share stream descriptor 0 still have different tags.
TagsDiffer ==
    \A i, j \in 1..Len(hda.codecs) : hda.codecs[i].stream.tag = hda.codecs[j].stream.tag => i = j

\* What enumeration leaves behind for the drivers, on every machine.
PciSound == ScanComplete /\ BarsRight /\ CommandsAgree /\ TagsDiffer
=============================================================================
