------------------------------ MODULE MCKernel ------------------------------
(***************************************************************************)
(* Small instances of the kernel's data structures, its clocks, the        *)
(* terminal's scroll buffer and the string library.  They share no state,  *)
(* so a behaviour follows one of them, the one in focus.                   *)
(***************************************************************************)
EXTENDS Heap, TaskRing, Clock, Scrollback, Text

VARIABLE focus

vars == <<focus, heapVars, ringVars, clockVars, cal, scrollVars, textVars>>

BootDays == {[date |-> [year |-> 1999, month |-> 12, day |-> 31], days |-> 10956],
             [date |-> [year |-> 2024, month |-> 2, day |-> 28], days |-> 19781]}
CalendarStarts ==
    {[date |-> [year |-> 1972, month |-> 2, day |-> 1], days |-> 761],
     [date |-> [year |-> 1999, month |-> 12, day |-> 31], days |-> 10956],
     [date |-> [year |-> 2099, month |-> 12, day |-> 31], days |-> 47481]}
Epoch == [year |-> 1970, month |-> 1, day |-> 1]

Said == {[kind |-> "error", lens |-> <<3>>], [kind |-> "warn", lens |-> <<1>>]}

SmallStrings == UNION {[1..n -> {1, 2, 3}] : n \in 0..3}
Conv(spec, arg, width, left, zero) ==
    [spec |-> spec, arg |-> arg, width |-> width, left |-> left, zero |-> zero, prec |-> -1]
Directives ==
    {Conv("lit", "k", 0, FALSE, FALSE), Conv("%", "", 0, FALSE, FALSE), Conv("q", "", 0, FALSE, FALSE),
     Conv("c", "c", 2, TRUE, FALSE), Conv("p", 43, 0, FALSE, FALSE),
     Conv("f", 1996, 0, FALSE, FALSE), [Conv("f", 7049, 0, FALSE, FALSE) EXCEPT !.prec = 1]}
    \cup {Conv("s", <<"a", "b">>, w, left, FALSE) : w \in {0, 4}, left \in BOOLEAN}
    \cup {Conv(spec, n, w, left, zero) : spec \in {"d", "x", "u"}, n \in {0, 26}, w \in {0, 3},
              left \in BOOLEAN, zero \in BOOLEAN}
    \cup {Conv("d", -5, w, FALSE, FALSE) : w \in {0, 4}}
SomeFormats == {<<d>> : d \in Directives} \cup {<<d, e>> : d, e \in {x \in Directives : ~x.left}}

Init ==
    /\ focus \in {"heap", "ring", "clock", "calendar", "screen", "text"}
    /\ HeapInit /\ RingInit /\ ClockInit /\ CalendarInit /\ ScrollInit /\ TextInit

Next ==
    /\ UNCHANGED focus
    /\ \/ /\ focus = "heap" /\ HeapNext
          /\ UNCHANGED <<ringVars, clockVars, cal, scrollVars, textVars>>
       \/ /\ focus = "ring" /\ RingNext
          /\ UNCHANGED <<heapVars, clockVars, cal, scrollVars, textVars>>
       \/ /\ focus = "clock" /\ ClockNext
          /\ UNCHANGED <<heapVars, ringVars, cal, scrollVars, textVars>>
       \/ /\ focus = "calendar" /\ CalendarNext
          /\ UNCHANGED <<heapVars, ringVars, clockVars, scrollVars, textVars>>
       \/ /\ focus = "screen" /\ ScrollNext
          /\ UNCHANGED <<heapVars, ringVars, clockVars, cal, textVars>>
       \/ /\ focus = "text" /\ TextNext
          /\ UNCHANGED <<heapVars, ringVars, clockVars, cal, scrollVars>>

Spec == Init /\ [][Next]_vars
=============================================================================
