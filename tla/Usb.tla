-------------------------------- MODULE Usb ---------------------------------
(***************************************************************************)
(* The USB controllers at boot: usb_core.c, xhci.c and ehci.c, called from *)
(* kmain one controller after the other, before interrupts are enabled.    *)
(*                                                                         *)
(* Allocations may fail at every call.  Lists are modelled by their links: *)
(* a cell is a list head (Hcds, Devices, Drivers, or <<"head", c>> of       *)
(* controller c), the node of a controller or of a device, or Zero, which  *)
(* is the memory at address 0.  A control transfer never reaches a device: *)
(* usb_control_transfer leaves transfer->device NULL, both controllers     *)
(* refuse it, and the status it returns is the 0 it was given.             *)
(***************************************************************************)
EXTENDS Integers, Sequences, SequencesExt, FiniteSets

CONSTANT UsbBuses    \* the sequences of controllers, in the order of the PCI list

VARIABLES
    upc,          \* where kmain is
    bus,          \* the controllers of the machine
    nth,          \* the controller being initialised
    uport,        \* the port being scanned
    live,         \* structures on the heap: <<"ctx", c>>, <<"hcd", c>>, <<"dev", c, p>>
    frames,       \* pages held: <<kind, c>>
    ulinks,       \* the links of the lists
    g_hc,         \* g_xhci and g_ehci: the controller they point to
    hc,           \* per controller: running, ports marked connected, device_count, next_address
    address       \* devices added -> their address

usbVars == <<upc, bus, nth, uport, live, frames, ulinks, g_hc, hc, address>>

Hcds == <<"g_usb_hcds", 0>>
Devices == <<"g_usb_devices", 0>>
Drivers == <<"g_usb_drivers", 0>>
Zero == <<"NULL", 0>>
Unlinked == [next |-> Zero, prev |-> Zero]
list_init(l, head) == [l EXCEPT ![head] = [next |-> head, prev |-> head]]

\* Assignment by assignment; the list of a controller is never initialised, so that the
\* first device is linked behind address 0.
list_add_tail_Node(l, head, node) ==
    LET last == l[head].prev
        set == [l EXCEPT ![node] = [next |-> head, prev |-> last]]
    IN  [[set EXCEPT ![last].next = node] EXCEPT ![head].prev = node]

list_del_Kept(l, node) == l
list_del(l, node) ==
    LET n == l[node].next
        p == l[node].prev
    IN  [[[l EXCEPT ![p].next = n] EXCEPT ![n].prev = p] EXCEPT ![node] = Unlinked]

Cells(b) ==
    {Hcds, Devices, Drivers, Zero}
        \cup UNION {{<<"head", c>>, <<"hcd", c>>} \cup {<<"dev", c, p>> : p \in 1..Len(b[c].ports)} :
                    c \in 1..Len(b)}

UsbInit ==
    /\ upc = "off" /\ bus = <<>> /\ nth = 1 /\ uport = 1
    /\ live = {} /\ frames = {} /\ ulinks = <<>>
    /\ g_hc = [xhci |-> 0, ehci |-> 0]
    /\ hc = <<>> /\ address = <<>>

usb_init ==
    /\ upc = "off"
    /\ \E b \in UsbBuses :
           /\ bus' = b
           /\ ulinks' = list_init(list_init(list_init([n \in Cells(b) |-> Unlinked], Hcds), Devices), Drivers)
           /\ hc' = [c \in 1..Len(b) |->
                        [running |-> FALSE, connected |-> {}, device_count |-> 0, next_address |-> 0]]
    /\ upc' = "probe"
    /\ UNCHANGED <<nth, uport, live, frames, g_hc, address>>

Here == bus[nth]
NextController == upc' = "probe" /\ nth' = nth + 1 /\ uport' = 1

\* xhci_init or ehci_init without an address or without memory, and without effect.
ProbeFails ==
    /\ upc = "probe" /\ nth <= Len(bus)
    /\ NextController
    /\ UNCHANGED <<bus, live, frames, ulinks, g_hc, hc, address>>

\* xhci_init or ehci_init up to the call of the controller's init: the interrupt line is
\* opened (module Boot) and the controller is in the list before it works.
hc_init ==
    /\ upc = "probe" /\ nth <= Len(bus) /\ Here.bar
    /\ live' = live \cup {<<"ctx", nth>>, <<"hcd", nth>>}
    /\ g_hc' = [g_hc EXCEPT ![Here.kind] = nth]
    /\ ulinks' = list_add_tail_Node(ulinks, Hcds, <<"hcd", nth>>)
    /\ upc' = Here.kind
    /\ UNCHANGED <<bus, nth, uport, frames, hc, address>>

\* usb_hcd_register after a failed init, and its caller: what the init had allocated from
\* the page allocator stays allocated, and g_xhci or g_ehci keeps pointing here.
InitFails(held) ==
    /\ frames' = frames \cup {<<kind, nth>> : kind \in held}
    /\ ulinks' = list_del(ulinks, <<"hcd", nth>>)
    /\ live' = live \ {<<"ctx", nth>>, <<"hcd", nth>>}
    /\ NextController
    /\ UNCHANGED <<bus, g_hc, hc, address>>

InitSucceeds(held) ==
    /\ frames' = frames \cup {<<kind, nth>> : kind \in held}
    /\ hc' = [hc EXCEPT ![nth].running = TRUE]
    /\ upc' = "ports"
    /\ UNCHANGED <<bus, nth, uport, live, ulinks, g_hc, address>>

\* xhci_controller_init: a reset that ends with the very last poll counts as a timeout, one
\* that never ends does not; then the tables, in this order, and the start.
XhciTables == <<"dcbaa", "cmd_ring", "evt_ring", "erst">>
xhci_controller_init ==
    /\ upc = "xhci"
    /\ \E n \in 0..4 :
           LET held == {XhciTables[i] : i \in 1..n}
           IN  \/ InitFails(held)
               \/ n = 4 /\ Here.starts /\ InitSucceeds(held)

\* ehci_controller_init gives the frame list back when there is no page for the queue head.
ehci_controller_init ==
    /\ upc = "ehci"
    /\ \/ InitFails({})
       \/ ~Here.starts /\ InitFails({"periodic_list", "async_qh"})
       \/ Here.starts /\ InitSucceeds({"periodic_list", "async_qh"})

\* The scan is over: the controller stays registered.
ScanEnds ==
    /\ upc = "ports" /\ uport > Len(Here.ports)
    /\ NextController
    /\ UNCHANGED <<bus, live, frames, ulinks, g_hc, hc, address>>

Connects == upc = "ports" /\ uport <= Len(Here.ports) /\ Here.ports[uport]

EmptyPort ==
    /\ upc = "ports" /\ uport <= Len(Here.ports) /\ ~Here.ports[uport]
    /\ uport' = uport + 1
    /\ UNCHANGED <<upc, bus, nth, live, frames, ulinks, g_hc, hc, address>>

\* xhci_scan_ports sends its first command: it waits until the dequeue index of the command
\* ring, which nothing changes, differs from the 0 the command went to, or until the ticks
\* have advanced, which needs interrupts.
xhci_enable_slot ==
    /\ Connects /\ Here.kind = "xhci"
    /\ hc' = [hc EXCEPT ![nth].connected = @ \cup {uport}]
    /\ upc' = "hung"
    /\ UNCHANGED <<bus, nth, uport, live, frames, ulinks, g_hc, address>>

\* submit_transfer of both controllers; what it would do for a device is never reached.
submit_transfer(transfer) == IF transfer.device THEN "submitted" ELSE "refused"

\* The status of the transfer structure, whatever submit_transfer said; -1 without memory.
usb_control_transfer(memory) ==
    LET transfer == [device |-> FALSE, status |-> 0]
        ret == submit_transfer(transfer)
    IN  IF ~memory THEN -1
        ELSE IF ret = "submitted" THEN 1 ELSE transfer.status

\* Device descriptor, address, configuration descriptor, configuration: each one transfer.
usb_enumeration(memory) == IF \A i \in 1..4 : usb_control_transfer(memory[i]) = 0 THEN 0 ELSE -1

\* The node enters two lists; the address is taken from the controller's counter.
usb_device_add(d) ==
    LET a == hc[nth].next_address + 1
    IN  /\ live' = live \cup {d}
        /\ ulinks' = list_add_tail_Node(list_add_tail_Node(ulinks, Devices, d), <<"head", nth>>, d)
        /\ address' = [e \in DOMAIN address \cup {d} |-> IF e = d THEN a ELSE address[e]]
        /\ hc' = [hc EXCEPT ![nth].connected = @ \cup {uport}, ![nth].device_count = @ + 1,
                            ![nth].next_address = IF a > 127 THEN 1 ELSE a]

\* A connected port of ehci_scan_ports: usb_device_alloc (memory[0]), usb_enumeration, and
\* usb_device_add or usb_device_free.  The port counts as connected in any case.
ehci_scan_port ==
    /\ Connects /\ Here.kind = "ehci"
    /\ \E memory \in [0..4 -> BOOLEAN] :
           IF memory[0] /\ usb_enumeration(memory) = 0
           THEN usb_device_add(<<"dev", nth, uport>>)
           ELSE /\ hc' = [hc EXCEPT ![nth].connected = @ \cup {uport}]
                /\ UNCHANGED <<live, ulinks, address>>
    /\ uport' = uport + 1
    /\ UNCHANGED <<upc, bus, nth, frames, g_hc>>

\* hid_init and hid_keyboard_init only enter a driver that no device is offered to.
Booted ==
    /\ upc = "probe" /\ nth > Len(bus)
    /\ upc' = "done"
    /\ UNCHANGED <<bus, nth, uport, live, frames, ulinks, g_hc, hc, address>>

UsbNext ==
    \/ usb_init \/ ProbeFails \/ hc_init \/ xhci_controller_init \/ ehci_controller_init
    \/ ScanEnds \/ EmptyPort \/ xhci_enable_slot \/ ehci_scan_port \/ Booted
-----------------------------------------------------------------------------
\* The cells from one on, following next, up to and without another.
Path(from, stop) ==
    LET RECURSIVE Walk(_, _)
        Walk(cell, fuel) ==
            IF cell = stop \/ fuel = 0 THEN <<>>
            ELSE <<cell>> \o Walk(ulinks[cell].next, fuel - 1)
    IN  Walk(ulinks[from].next, Cardinality(DOMAIN ulinks) + 1)

\* g_usb_hcds comes back to its head in both directions and holds exactly the controllers
\* whose structures are allocated, whichever inits failed; a controller outside it has no
\* device.
HcdsListed ==
    LET there == Path(Hcds, Hcds)
    IN  upc # "off" =>
            /\ \A i \in 1..Len(there) : ulinks[ulinks[there[i]].next].prev = there[i]
            /\ {c \in 1..Len(bus) : <<"hcd", c>> \in live} = {there[i][2] : i \in 1..Len(there)}
            /\ \A d \in DOMAIN address : <<"hcd", d[2]>> \in live /\ hc[d[2]].running

\* From g_usb_devices every device is found, in the order of arrival, although its node is
\* also linked into the list of its controller; the walk then ends at that controller's
\* head instead of coming back.
DevicesReached ==
    upc # "off" =>
        LET arrived == SelectSeq(Path(Devices, Zero), LAMBDA x : x \in DOMAIN address)
        IN  DOMAIN address # {} =>
                /\ Range(arrived) = DOMAIN address
                /\ Len(arrived) = Cardinality(DOMAIN address)
                /\ Last(Path(Devices, Zero)) = <<"head", Last(arrived)[2]>>

\* Devices of a controller have different addresses, none is 0, and the controller counts them.
AddressesDiffer ==
    /\ \A d, e \in DOMAIN address : d[2] = e[2] /\ address[d] = address[e] => d = e
    /\ \A d \in DOMAIN address : address[d] \in 1..127
    /\ \A c \in DOMAIN hc : hc[c].device_count = Cardinality({d \in DOMAIN address : d[2] = c})

\* The boot waits forever only for an xHCI controller that runs and has a device attached;
\* pages stay behind only for a controller that runs or failed after allocating them.
WaitsOnlyForXhci ==
    /\ upc = "hung" => Here.kind = "xhci" /\ hc[nth].running /\ \E p \in DOMAIN Here.ports : Here.ports[p]
    /\ \A c \in DOMAIN hc : hc[c].running => \E f \in frames : f[2] = c

\* What is left when the USB controllers have been initialised.
UsbSound == HcdsListed /\ DevicesReached /\ AddressesDiffer /\ WaitsOnlyForXhci
=============================================================================
