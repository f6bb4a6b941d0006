------------------------------ MODULE MCDevices ------------------------------
(***************************************************************************)
(* Small instances of the boot, of the drivers and of the partition        *)
(* manager.  They share no state, so a behaviour follows one of them, the  *)
(* one in focus.                                                           *)
(***************************************************************************)
EXTENDS Partition, Ahci, Ide, Boot, Pci, Usb, Console, Paging, Framebuffer

-----------------------------------------------------------------------------
(* Machines for Boot. *)
Tables(revision) ==
    [signature |-> TRUE, sum |-> TRUE, revision |-> revision, length |-> TRUE, sum2 |-> revision >= 2,
     xsdt |-> revision >= 2, rsdt |-> TRUE,
     tables |-> <<[signature |-> "FACP", sum |-> TRUE], [signature |-> "APIC", sum |-> TRUE]>>]

Board(cpuList, bsp, real) ==
    [multiboot |-> TRUE, framebuffer |-> TRUE, acpi |-> Tables(2), lapic |-> TRUE, quiet |-> TRUE,
     ioapics |-> <<[base |-> 0, size |-> 24]>>, overrides |-> <<[source |-> 0, gsi |-> 2]>>,
     cpus |-> cpuList, bsp |-> bsp, real |-> real, keyboard |-> TRUE, usb |-> <<>>,
     ide |-> NoLine, drive |-> TRUE, ahci |-> TRUE, rtl8139 |-> NoLine, hda |-> NoLine]

Cpu(id) == [id |-> id, enabled |-> TRUE]
OneCpu == Board(<<Cpu(0)>>, 0, 1)

\* Processors listed in another order, one of them disabled, and a count that differs.
SeveralCpus ==
    {Board(<<Cpu(4), Cpu(0), [id |-> 9, enabled |-> FALSE], Cpu(2)>>, bsp, real) :
        bsp \in {0, 2, 4}, real \in 1..4}

\* One thing is missing, or there is one I/O APIC more.
Broken ==
    {[OneCpu EXCEPT !.multiboot = FALSE], [OneCpu EXCEPT !.framebuffer = FALSE],
     [OneCpu EXCEPT !.acpi.sum2 = FALSE], [OneCpu EXCEPT !.acpi = Tables(0)],
     [OneCpu EXCEPT !.acpi = Tables(0), !.acpi.rsdt = FALSE],
     [OneCpu EXCEPT !.acpi.tables = <<[signature |-> "APIC", sum |-> FALSE], [signature |-> "APIC", sum |-> TRUE]>>],
     [OneCpu EXCEPT !.lapic = FALSE], [OneCpu EXCEPT !.ioapics = <<>>],
     [OneCpu EXCEPT !.ioapics = <<[base |-> 0, size |-> 24], [base |-> 24, size |-> 8]>>]}

\* Interrupt lines of the controllers, shared or not, with and without overrides.
Wired ==
    {[OneCpu EXCEPT !.usb = u, !.ide = i, !.rtl8139 = r, !.keyboard = k, !.overrides = o, !.ahci = k,
                    !.drive = k, !.quiet = k, !.hda = IF k THEN 5 ELSE NoLine] :
        u \in {<<>>, <<[kind |-> "xhci", line |-> 11], [kind |-> "ehci", line |-> 11]>>,
               <<[kind |-> "xhci", line |-> 16], [kind |-> "ehci", line |-> 10]>>},
        i \in {NoLine, 0, 14, 255}, r \in {NoLine, 10, 11}, k \in BOOLEAN,
        o \in {<<>>, <<[source |-> 0, gsi |-> 2], [source |-> 9, gsi |-> 9]>>,
               <<[source |-> 1, gsi |-> 3], [source |-> 14, gsi |-> 20]>>}}

Boards == SeveralCpus \cup Broken \cup Wired
IdeBoards == {[OneCpu EXCEPT !.ide = 14]}

-----------------------------------------------------------------------------
(* Configuration spaces for Pci: registers of 256 values. *)
Register(bar, mask, flags, top) == [bar |-> bar, mask |-> mask, flags |-> flags, top |-> top]
Io(base) == Register(base + 1, 32, 1, 256)
Io16(base) == Register(base + 1, 8, 1, 64)
Mem(base) == Register(base, 32, 0, 256)
Mem64(base) == Register(base + 4, 64, 4, 256)
High(v) == Register(v, 1, 0, 256)
NoBar == Register(0, 256, 0, 256)

Function(class, regs) ==
    LET r == regs \o [i \in 1..(6 - Len(regs)) |-> NoBar]
    IN  [class |-> class, multi |-> FALSE, secondary |-> 0, line |-> 11, command |-> {"io", "mem"},
         bar |-> [i \in 1..6 |-> r[i].bar], firmware |-> [i \in 1..6 |-> r[i].bar],
         mask |-> [i \in 1..6 |-> r[i].mask], flags |-> [i \in 1..6 |-> r[i].flags],
         top |-> [i \in 1..6 |-> r[i].top], moved |-> FALSE,
         cap_list |-> FALSE, reg34 |-> <<64, 0>>, caps |-> <<>>, codecs |-> {}]

Host == Function("host", <<>>)
Bridge(to) == [Function("bridge", <<>>) EXCEPT !.secondary = to]
Many(f) == [f EXCEPT !.multi = TRUE]
Express(f) ==
    [f EXCEPT !.cap_list = TRUE,
              !.caps = (64 :> [id |-> "msi", next |-> 80]) @@ (80 :> [id |-> "pcie", next |-> 0])]
SataCard == Express(Function("ahci", <<Io(32), Io16(8), Mem(64), Mem64(128), High(3)>>))
UsbCard(n) == Function("usb", <<Mem64(64), High(n)>>)
NetCard == Function("nic", <<Io(64), Mem(96), NoBar, NoBar, NoBar, Mem64(64)>>)
AudioCard(codecs) == [Function("hda", <<Mem(128)>>) EXCEPT !.codecs = codecs]
IdeCard == Function("ide", <<NoBar, NoBar, NoBar, NoBar, Io(96)>>)

Chipset(h, b, codecs) ==
    (<<0, 0, 0>> :> h) @@ (<<0, 1, 0>> :> b) @@ (<<0, 1, 1>> :> UsbCard(1))
        @@ (<<0, 2, 0>> :> Many(IdeCard)) @@ (<<0, 2, 3>> :> UsbCard(2))
        @@ (<<0, 2, 5>> :> AudioCard(codecs)) @@ (<<0, 31, 0>> :> SataCard)
Behind ==
    (<<1, 0, 0>> :> NetCard) @@ (<<1, 4, 0>> :> Bridge(2)) @@ (<<2, 0, 0>> :> Many(SataCard))
        @@ (<<2, 0, 7>> :> UsbCard(7))

SomeSpaces ==
    {Chipset(Host, b, c) @@ Behind : b \in {Bridge(1), Many(Bridge(1))}, c \in {{}, {0}, {0, 2}}}
        \cup {Chipset(Host, Many(UsbCard(0)), {0, 1, 2, 3}), (<<0, 0, 0>> :> Host),
              Chipset(Many(Host), Bridge(1), {1}) @@ (<<0, 0, 1>> :> Host) @@ Behind}

-----------------------------------------------------------------------------
(* Controllers for Usb. *)
Hc(kind, ports, starts) == [kind |-> kind, bar |-> TRUE, ports |-> ports, starts |-> starts]
SomeBuses ==
    {<<Hc("xhci", <<FALSE, p>>, s), Hc("ehci", <<TRUE, FALSE, TRUE>>, t)>> :
        p \in BOOLEAN, s \in BOOLEAN, t \in BOOLEAN}
        \cup {<<>>, <<Hc("ehci", <<TRUE, TRUE>>, TRUE), Hc("ehci", <<FALSE, TRUE, TRUE>>, TRUE),
                [Hc("ehci", <<>>, TRUE) EXCEPT !.bar = FALSE]>>}

-----------------------------------------------------------------------------
(* Screens and calls for Framebuffer. *)
SomeModes == {[width |-> 5, height |-> 4, pitch |-> n] : n \in {5, 6}}
SomeClips == {<<1, -1, 4, 3>>}
Font == ("a" :> {<<0, 0>>, <<1, 1>>, <<0, 1>>, <<1, 0>>}) @@ ("b" :> {<<2, 1>>, <<3, 3>>})
TwoLines == <<"a", "NL", "b", "a">>
Painting(fn, args) == [fn |-> fn, args |-> args]
Corners == {<<0, 0>>, <<0, 1>>, <<3, 5>>, <<5, -1>>, <<-1, 3>>}
Figures ==
    {Painting("line", <<<<2, 1>>, q>>) : q \in Corners \cup {<<2, 1>>, <<4, 3>>, <<7, 3>>}}
    \cup {Painting("thick", <<<<0, 1>>, q, t>>) : q \in Corners, t \in {1, 3}}
    \cup {Painting(f, <<<<1, 0>>, w, h>>) : f \in {"rect", "fill_rect"}, w \in {1, 4}, h \in {1, 3}}
    \cup {Painting(f, <<<<0, -1>>, w, h, r>>) :
            f \in {"rounded", "fill_rounded"}, w \in {2, 7}, h \in {5, 6}, r \in {0, 1, 3}}
    \cup {Painting(f, <<<<3, 2>>, r>>) : f \in {"circle", "fill_circle"}, r \in {0, 2, 5}}
    \cup {Painting(f, <<<<2, 2>>, rx, ry>>) :
            f \in {"ellipse", "fill_ellipse"}, rx \in {1, 3}, ry \in {2, 3, 6}}
    \cup {Painting(f, <<<<0, 0>>, q, r>>) :
            f \in {"triangle", "fill_triangle", "polygon", "fill_polygon"}, q \in Corners, r \in Corners}
    \cup {Painting("fill_polygon", <<<<0, 0>>, <<5, 0>>, <<2, 1>>, <<5, 3>>, <<0, 3>>>>),
          Painting("logo", <<<<1, 1>>, {<<0, 0>>, <<2, 1>>}>>), Painting("string", <<TwoLines, <<-1, 0>>>>)}
    \cup {Painting("string_large", <<TwoLines, <<0, 0>>, n>>) : n \in {1, 2}}
    \cup {Painting("string_scaled", <<TwoLines, <<0, 0>>, n>>) : n \in {-2, 2}}
StopText == <<"a", "b">>

-----------------------------------------------------------------------------
VARIABLE focus

vars == <<focus, partVars, ahciVars, ideVars, bootVars, pciVars, usbVars, consoleVars, pagingVars, fbVars>>

Init ==
    /\ focus \in {"partition", "ahci", "ide", "boot", "pci", "usb", "console", "paging",
                 "screen"}
    /\ PartInit /\ AhciInit /\ IdeInit /\ BootInit /\ PciInit /\ UsbInit /\ ConsoleInit /\ PagingInit
    /\ FbInit

Next ==
    /\ UNCHANGED focus
    /\ \/ /\ focus = "partition" /\ PartNext
          /\ UNCHANGED <<ahciVars, ideVars, bootVars, pciVars, usbVars, consoleVars, pagingVars, fbVars>>
       \/ /\ focus = "ahci" /\ AhciNext
          /\ UNCHANGED <<partVars, ideVars, bootVars, pciVars, usbVars, consoleVars, pagingVars, fbVars>>
       \/ /\ focus = "ide" /\ IdeNext
          /\ UNCHANGED <<partVars, ahciVars, bootVars, pciVars, usbVars, consoleVars, pagingVars, fbVars>>
       \/ /\ focus = "boot" /\ BootNext
          /\ UNCHANGED <<partVars, ahciVars, ideVars, pciVars, usbVars, consoleVars, pagingVars, fbVars>>
       \/ /\ focus = "pci" /\ PciNext
          /\ UNCHANGED <<partVars, ahciVars, ideVars, bootVars, usbVars, consoleVars, pagingVars, fbVars>>
       \/ /\ focus = "usb" /\ UsbNext
          /\ UNCHANGED <<partVars, ahciVars, ideVars, bootVars, pciVars, consoleVars, pagingVars, fbVars>>
       \/ /\ focus = "console" /\ ConsoleNext
          /\ UNCHANGED <<partVars, ahciVars, ideVars, bootVars, pciVars, usbVars, pagingVars, fbVars>>
       \/ /\ focus = "paging" /\ PagingNext
          /\ UNCHANGED <<partVars, ahciVars, ideVars, bootVars, pciVars, usbVars, consoleVars, fbVars>>
       \/ /\ focus = "screen" /\ FbNext
          /\ UNCHANGED <<partVars, ahciVars, ideVars, bootVars, pciVars, usbVars, consoleVars, pagingVars>>

Spec == Init /\ [][Next]_vars /\ AhciFairness
=============================================================================
