-------------------------------- MODULE Clock --------------------------------
(***************************************************************************)
(* The system clock (kernel/time/clock.c), set once from the CMOS clock    *)
(* (rtc.c) and advanced by the timer interrupt (timer.c); and the loops     *)
(* that wait for a number of ticks: timer_sleep (delay.c), arp_resolve,     *)
(* icmp_ping and xhci_send_command.                                         *)
(*                                                                         *)
(*   rtc    the CMOS clock: date, second of the day, the format of its     *)
(*          registers, and the second at which its time was read           *)
(*   clk    pc of init_system_clock, and system_clock                      *)
(*   timer  g_timer.ticks, seconds and the statics of timer_apic_handler   *)
(*   wait   a wait of need ticks; waited counts the ticks it has lasted    *)
(***************************************************************************)
EXTENDS Calendar

CONSTANTS
    TICKS,          \* 1000, the ticks of a second
    PREEMPT,        \* 10, the ticks between two preemptions
    BLINK,          \* 500, the ticks between two cursor updates
    TIMEZONE_OFFSET,\* 7
    EPOCHS,         \* 2^32, the values of epoch
    RtcDays,        \* dates on which the kernel boots, with their day numbers
    RtcSeconds,     \* seconds of the day at which it boots
    WaitNeeds,      \* numbers of ticks waited for
    MaxSeconds      \* bound on the seconds the kernel runs

DAY == 24 * 3600

\* The kernel does not run until epoch overflows, in 2106.
ASSUME ClockAssumption ==
    /\ TICKS \in Nat \ {0} /\ PREEMPT \in Nat \ {0} /\ TIMEZONE_OFFSET \in 0..23
    /\ BLINK \in 1..(TICKS - 1)
    /\ \A d \in RtcDays : d.date \in Dates /\ d.days = DayNumber(d.date)
    /\ RtcSeconds \subseteq 0..(DAY - 1)
    /\ WaitNeeds \subseteq Nat /\ MaxSeconds \in Nat /\ EPOCHS \in Nat \ {0}
    /\ \A d \in RtcDays : (d.days + 1) * DAY + DAY + MaxSeconds <= EPOCHS

VARIABLES rtc, clk, timer, wait

clockVars == <<rtc, clk, timer, wait>>

ClockInit ==
    /\ rtc = [date |-> FirstDay, days |-> 0, tod |-> 0, bcd |-> TRUE, h24 |-> TRUE,
              read |-> 0, crossed |-> FALSE]
    /\ clk = [pc |-> "off", hh |-> 0, mm |-> 0, ss |-> 0, epoch |-> 0]
    /\ timer = [ticks |-> 0, seconds |-> 0, preempt |-> 0, last |-> 0,
                resched |-> FALSE, blinked |-> 0, sliced |-> 0]
    /\ wait = [on |-> FALSE, start |-> 0, need |-> 0, waited |-> 0]

\* The machine is switched on, at some time by its CMOS clock.
PowerOn(d, s, bcd, h24) ==
    /\ clk.pc = "off"
    /\ rtc' = [rtc EXCEPT !.date = d.date, !.days = d.days, !.tod = s, !.bcd = bcd, !.h24 = h24]
    /\ clk' = [clk EXCEPT !.pc = "time"]
    /\ UNCHANGED <<timer, wait>>

(***************************************************************************)
(* The CMOS clock and init_system_clock.                                   *)
(***************************************************************************)

\* A register, binary or BCD, and the hour register with its PM bit.
Register(v) == IF rtc.bcd THEN (v \div 10) * 16 + (v % 10) ELSE v
PmBit(h) == IF ~rtc.h24 /\ h >= 12 THEN 128 ELSE 0
HourRegister(h) ==
    PmBit(h) + Register(IF rtc.h24 THEN h ELSE IF h % 12 = 0 THEN 12 ELSE h % 12)

bcd_to_bin(v) == IF rtc.bcd THEN (v % 16) + (v \div 16) * 10 ELSE v

\* The hour read_rtc_time makes of its register.
RtcHour_NoPm(v) == (bcd_to_bin(v % 128) + TIMEZONE_OFFSET + 24) % 24
RtcHour(v) ==
    LET hh == bcd_to_bin(v % 128)
        pm == IF ~rtc.h24 /\ v >= 128 THEN (hh + 12) % 24 ELSE hh
    IN  (pm + TIMEZONE_OFFSET + 24) % 24

\* Both reads start when no update is in progress and are over long before the
\* next: an update falls between them, never inside one.
read_rtc_time ==
    /\ clk.pc = "time"
    /\ clk' = [clk EXCEPT !.pc = "date",
                 !.hh = RtcHour(HourRegister(rtc.tod \div 3600)),
                 !.mm = bcd_to_bin(Register((rtc.tod % 3600) \div 60)),
                 !.ss = bcd_to_bin(Register(rtc.tod % 60))]
    /\ rtc' = [rtc EXCEPT !.read = rtc.tod]
    /\ UNCHANGED <<timer, wait>>

\* The century register counts when it is 19 or more.
RtcYear(century, year) == IF century >= 19 THEN century * 100 + year ELSE 2000 + year

read_rtc_date ==
    /\ clk.pc = "date"
    /\ LET y == RtcYear(bcd_to_bin(Register(rtc.date.year \div 100)),
                        bcd_to_bin(Register(rtc.date.year % 100)))
           m == bcd_to_bin(Register(rtc.date.month))
           d == bcd_to_bin(Register(rtc.date.day))
       IN  clk' = [clk EXCEPT !.pc = "run",
                     !.epoch = (rtc_to_days(y, m, d) * DAY
                                + clk.hh * 3600 + clk.mm * 60 + clk.ss) % EPOCHS]
    /\ UNCHANGED <<rtc, timer, wait>>

\* A second passes in the CMOS clock while init_system_clock runs.
RtcUpdate ==
    /\ clk.pc = "date" /\ rtc.read = rtc.tod
    /\ rtc' = IF rtc.tod + 1 < DAY THEN [rtc EXCEPT !.tod = @ + 1]
              ELSE [rtc EXCEPT !.tod = 0, !.date = NextDate(@), !.days = @ + 1, !.crossed = TRUE]
    /\ UNCHANGED <<clk, timer, wait>>

(***************************************************************************)
(* The timer interrupt.                                                    *)
(***************************************************************************)

clock_tick(c) ==
    LET s == IF c.ss + 1 >= 60 THEN 0 ELSE c.ss + 1
        m == IF s # 0 THEN c.mm ELSE IF c.mm + 1 >= 60 THEN 0 ELSE c.mm + 1
        h == IF s # 0 \/ m # 0 THEN c.hh ELSE IF c.hh + 1 >= 24 THEN 0 ELSE c.hh + 1
    IN  [c EXCEPT !.ss = s, !.mm = m, !.hh = h, !.epoch = (@ + 1) % EPOCHS]

\* ticks - start in 64 bits, compared with n: a start that lies ahead of ticks
\* makes the difference larger than any n.
Elapsed(ticks, start, n) == ticks < start \/ ticks - start >= n

WaitDone_Signed == timer.ticks - wait.start >= wait.need
WaitDone == Elapsed(timer.ticks, wait.start, wait.need)

Slice(preempt) == preempt + 1 >= PREEMPT

\* blinked and sliced count the ticks since the last cursor update and the last
\* request to reschedule.
timer_apic_handler ==
    /\ clk.pc = "run" /\ timer.seconds < MaxSeconds
    /\ LET t == IF timer.ticks + 1 >= TICKS THEN 0 ELSE timer.ticks + 1
           blink == Elapsed(t, timer.last, BLINK)
           slice == Slice(timer.preempt)
       IN  /\ timer' = [ticks   |-> t,
                        seconds |-> IF t = 0 THEN timer.seconds + 1 ELSE timer.seconds,
                        preempt |-> IF slice THEN 0 ELSE timer.preempt + 1,
                        resched |-> timer.resched \/ slice,
                        last    |-> IF blink THEN t ELSE timer.last,
                        blinked |-> IF blink THEN 0 ELSE timer.blinked + 1,
                        sliced  |-> IF slice THEN 0 ELSE timer.sliced + 1]
           /\ clk' = IF t = 0 THEN clock_tick(clk) ELSE clk
           /\ wait' = IF wait.on THEN [wait EXCEPT !.waited = @ + 1] ELSE wait
    /\ wait.on => ~WaitDone
    /\ UNCHANGED rtc

\* schedule_from_isr clears need_reschedule.
schedule_from_isr ==
    /\ timer.resched
    /\ timer' = [timer EXCEPT !.resched = FALSE]
    /\ UNCHANGED <<rtc, clk, wait>>

(***************************************************************************)
(* Waits.  timer_sleep needs ms * apic_bus_khz ticks, more than a second's. *)
(***************************************************************************)

timer_sleep(need) ==
    /\ clk.pc = "run" /\ ~wait.on
    /\ wait' = [on |-> TRUE, start |-> timer.ticks, need |-> need, waited |-> 0]
    /\ UNCHANGED <<rtc, clk, timer>>

WaitOver ==
    /\ wait.on /\ WaitDone
    /\ wait' = [wait EXCEPT !.on = FALSE]
    /\ UNCHANGED <<rtc, clk, timer>>

ClockNext ==
    \/ \E d \in RtcDays, s \in RtcSeconds, bcd, h24 \in BOOLEAN : PowerOn(d, s, bcd, h24)
    \/ read_rtc_time \/ read_rtc_date \/ RtcUpdate
    \/ timer_apic_handler \/ schedule_from_isr
    \/ \E n \in WaitNeeds : timer_sleep(n)
    \/ WaitOver

ClockSpec == ClockInit /\ [][ClockNext]_clockVars

(***************************************************************************)
(* Properties.                                                             *)
(***************************************************************************)

\* The registers are unambiguous to read_rtc_time: in 12-hour format it takes
\* 12 AM for noon and 12 PM for midnight.
HourReadable == rtc.h24 \/ (rtc.read \div 3600) \notin {0, 12}

\* system_clock is the time the CMOS clock showed, in the local zone, plus the
\* seconds the kernel has run: over minutes, hours and midnight, whatever the
\* format of the registers.
ClockKeepsTime ==
    clk.pc = "run" /\ HourReadable =>
        clk.hh * 3600 + clk.mm * 60 + clk.ss
            = (rtc.read + TIMEZONE_OFFSET * 3600 + timer.seconds) % DAY

\* epoch and hh:mm:ss never disagree on the time of the day.
EpochInStep ==
    clk.pc = "run" => clk.epoch % DAY = clk.hh * 3600 + clk.mm * 60 + clk.ss

\* The day of epoch is the day of the CMOS clock, when midnight does not fall
\* between its two reads: the time of the old day would get the new date.
EpochOnRtcDay ==
    clk.pc = "run" /\ ~rtc.crossed =>
        (clk.epoch - timer.seconds) \div DAY = rtc.days

\* The cursor is redrawn at least every half second and a reschedule is asked for
\* at least every PREEMPT ticks, over the wrap of ticks too.
TimerPeriods == timer.blinked < BLINK /\ timer.sliced < PREEMPT

\* A wait ends, after no more ticks than it was asked for, except that a wait of
\* a second or more that begins at tick 0 goes on for ever: ticks never reaches
\* its end and never falls behind its start.
WaitBounded ==
    wait.on /\ (wait.start # 0 \/ wait.need < TICKS) =>
        wait.waited <= wait.need /\ wait.waited < TICKS

\* Every way to read the clock gives the same, right time: the three together.
ClockSound == ClockKeepsTime /\ EpochInStep /\ EpochOnRtcDay

\* What is done every so many ticks and what waits for ticks come in time.
TicksSound == TimerPeriods /\ WaitBounded
=============================================================================
