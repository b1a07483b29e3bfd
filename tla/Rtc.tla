-------------------------------- MODULE Rtc --------------------------------
(***************************************************************************)
(* The clock and alarm driver of embassy-nrf/src/rtc.rs on its peripheral. *)
(*                                                                         *)
(* The counter wraps every two half-periods.  The driver counts the        *)
(* half-periods in `period`, in an interrupt that may be late, and must    *)
(* tell the time and call back alarms all the same.                        *)
(*                                                                         *)
(* A half-period is Half ticks here, 2^23 in the code; every other number  *)
(* of the code is kept.  Time is kept as a pair, so that multiplication    *)
(* stays out of the steps: after q half-periods and off ticks.  `q` is     *)
(* known to nobody but the properties; the register is Counter.            *)
(*                                                                         *)
(* The peripheral is external: an event is raised when the counter reaches *)
(* the compare value while the channel's interrupt is enabled, except that *)
(* a value of N+1 written when the counter is N may be missed once         *)
(* (rtc.rs:202).                                                           *)
(***************************************************************************)
EXTENDS Integers

CONSTANTS
    Half,         \* ticks of a half-period
    AlarmCount,   \* ALARM_COUNT
    Latency,      \* bound on the ticks for which an interrupt stays unserved
    ReadTime,     \* bound on the ticks that a call of now() takes
    MaxPeriod     \* bound on the half-periods that are modelled

ASSUME RtcAssumption ==
    /\ Half \in Nat /\ Half > 6 /\ Half % 2 = 0
    /\ AlarmCount \in Nat
    /\ Latency \in Nat
    /\ ReadTime \in Nat
    /\ MaxPeriod \in Nat
    /\ 2 * Latency + ReadTime + 2 < Half

VARIABLES
    q, off,       \* half-periods since start(), ticks since the last of them
    ovrflw, mid,  \* EVENTS_OVRFLW, EVENTS_COMPARE[3]
    compare,      \* EVENTS_COMPARE[n] of each alarm
    cc,           \* CC[n] of each alarm
    missed,       \* the next match of CC[n] will be missed
    inten,        \* INTEN bit of each alarm
    period,       \* RTC::period
    timestamp,    \* AlarmState::timestamp of each alarm
    isr,          \* where on_interrupt is
    scan,         \* its loop variable `n`
    waited,       \* ticks since an interrupt is pending or being served
    reader,       \* a call of now() in progress: the period it has read
    setter        \* a call of set_alarm between now() and its register writes

hwVars == <<q, off, ovrflw, mid, compare, cc, missed, inten>>
vars == <<hwVars, period, timestamp, isr, scan, waited, reader, setter>>

Alarms == 0..(AlarmCount - 1)

TimeOf(p, o) == p * Half + o
Time == TimeOf(q, off)
Counter == (q % 2) * Half + off
Wrap(t) == t % (2 * Half)             \* t & 0xFFFFFF

MaxTime == TimeOf(MaxPeriod, Half - 1)
Never == MaxTime + 1                  \* u64::MAX
\* Mutant: the window is one half-period.
WindowHalf == Half

Window == Half + Half \div 2          \* 0xc00000

NoReader == [busy |-> FALSE, period |-> 0, ticks |-> 0]
NoSetter == [busy |-> FALSE, n |-> 0, cc |-> 0, ticks |-> 0]

\* start()
Init ==
    /\ q = 0 /\ off = 0
    /\ ovrflw = FALSE /\ mid = FALSE
    /\ compare = [n \in Alarms |-> FALSE]
    /\ cc = [n \in Alarms |-> 0]
    /\ missed = [n \in Alarms |-> FALSE]
    /\ inten = [n \in Alarms |-> FALSE]
    /\ period = 0
    /\ timestamp = [n \in Alarms |-> Never]
    /\ isr = "idle" /\ scan = 0 /\ waited = 0
    /\ reader = NoReader
    /\ setter = NoSetter

\* Mutant: the top bit of the counter is masked off.
CalcNowPlain(p, counter) == TimeOf(p, counter % Half)

\* The exclusive or moves a counter of the other half by one half-period.
calc_now(p, counter) ==
    TimeOf(p, IF p % 2 = 0 THEN counter
              ELSE IF counter < Half THEN counter + Half ELSE counter - Half)

-----------------------------------------------------------------------------
(* The peripheral.                                                         *)

Pending == ovrflw \/ mid \/ \E n \in Alarms : compare[n]

Interrupting == Pending \/ isr # "idle"

\* The counter ticks.  Interrupts and calls of the driver do not take for ever, and
\* set_alarm, with interrupts disabled, lasts less than a tick (rtc.rs:206-208), so
\* at most one falls into it.
Tick ==
    /\ Interrupting => waited < Latency
    /\ reader.busy => reader.ticks < ReadTime
    /\ setter.busy => setter.ticks < 1
    /\ q = MaxPeriod => off < Half - 1
    /\ q' = IF off = Half - 1 THEN q + 1 ELSE q
    /\ off' = IF off = Half - 1 THEN 0 ELSE off + 1
    /\ ovrflw' = (ovrflw \/ Counter' = 0)
    /\ mid' = (mid \/ Counter' = Half)
    /\ compare' = [n \in Alarms |->
           compare[n] \/ (Counter' = cc[n] /\ inten[n] /\ ~missed[n])]
    /\ missed' = [n \in Alarms |-> missed[n] /\ Counter' # cc[n]]
    /\ waited' = IF Interrupting THEN waited + 1 ELSE 0
    /\ reader' = IF reader.busy THEN [reader EXCEPT !.ticks = @ + 1] ELSE reader
    /\ setter' = IF setter.busy THEN [setter EXCEPT !.ticks = @ + 1] ELSE setter
    /\ UNCHANGED <<cc, inten, period, timestamp, isr, scan>>

\* CC[n] is written: if the value is the next one its match may be missed.
WriteCC(n, value) ==
    /\ cc' = [cc EXCEPT ![n] = Wrap(value)]
    /\ \E miss \in BOOLEAN :
         /\ miss => Wrap(value) = (Counter + 1) % (2 * Half)
         /\ missed' = [missed EXCEPT ![n] = miss]

-----------------------------------------------------------------------------
(* The driver.  A critical section excludes the interrupt.                 *)

\* trigger_alarm
Trigger(n) ==
    /\ inten' = [inten EXCEPT ![n] = FALSE]
    /\ timestamp' = [timestamp EXCEPT ![n] = Never]

\* The interrupt is taken.
EnterInterrupt ==
    /\ isr = "idle"
    /\ Pending
    /\ ~setter.busy
    /\ isr' = "ovrflw"
    /\ UNCHANGED <<hwVars, period, timestamp, scan, waited, reader, setter>>

\* next_period: every alarm that is due within the window gets its compare channel.
\* The difference at - t is unsigned: for an alarm before t it wraps around and
\* is out of the window.  That is a release build; one with overflow checks panics there
\* (rtc.rs:154).
next_period ==
    LET t == TimeOf(period + 1, 0)
        near == {n \in Alarms : timestamp[n] >= t /\ timestamp[n] - t < Window}
    IN /\ period' = period + 1
       /\ cc' = [n \in Alarms |-> IF n \in near THEN Wrap(timestamp[n]) ELSE cc[n]]
       /\ inten' = [n \in Alarms |-> inten[n] \/ n \in near]
       /\ \E miss \in SUBSET {n \in near : Wrap(timestamp[n]) = (Counter + 1) % (2 * Half)} :
            missed' = [n \in Alarms |-> IF n \in near THEN n \in miss ELSE missed[n]]

\* on_interrupt: the overflow event is reset ...
ServeOvrflw ==
    /\ isr = "ovrflw"
    /\ ~setter.busy
    /\ ovrflw' = FALSE
    /\ isr' = IF ovrflw THEN "ovrflw_next" ELSE "mid"
    /\ UNCHANGED <<q, off, mid, compare, cc, missed, inten, period, timestamp, scan, waited,
                   reader, setter>>

\* Mutant: the midway event is not reset.
ServeMidAgain ==
    /\ isr = "mid"
    /\ ~setter.busy
    /\ isr' = IF mid THEN "mid_next" ELSE "alarms"
    /\ UNCHANGED <<hwVars, period, timestamp, scan, waited, reader, setter>>

\* ... the midway event is reset ...
ServeMid ==
    /\ isr = "mid"
    /\ ~setter.busy
    /\ mid' = FALSE
    /\ isr' = IF mid THEN "mid_next" ELSE "alarms"
    /\ UNCHANGED <<q, off, ovrflw, compare, cc, missed, inten, period, timestamp, scan, waited,
                   reader, setter>>

\* ... each of them starts a new half-period ...
ServePeriod ==
    /\ isr \in {"ovrflw_next", "mid_next"}
    /\ ~setter.busy
    /\ next_period
    /\ isr' = IF isr = "ovrflw_next" THEN "mid" ELSE "alarms"
    /\ UNCHANGED <<q, off, ovrflw, mid, compare, timestamp, scan, waited, reader, setter>>

\* ... the event of an alarm is reset ...
ServeAlarm ==
    /\ isr = "alarms"
    /\ ~setter.busy
    /\ scan < AlarmCount
    /\ compare' = [compare EXCEPT ![scan] = FALSE]
    /\ IF compare[scan] THEN isr' = "trigger" /\ UNCHANGED scan
                        ELSE scan' = scan + 1 /\ UNCHANGED isr
    /\ UNCHANGED <<q, off, ovrflw, mid, cc, missed, inten, period, timestamp, waited, reader,
                   setter>>

\* ... and the alarm is triggered.
ServeTrigger ==
    /\ isr = "trigger"
    /\ ~setter.busy
    /\ Trigger(scan)
    /\ scan' = scan + 1
    /\ isr' = "alarms"
    /\ UNCHANGED <<q, off, ovrflw, mid, compare, cc, missed, period, waited, reader, setter>>

LeaveInterrupt ==
    /\ isr = "alarms"
    /\ scan = AlarmCount
    /\ isr' = "idle" /\ scan' = 0 /\ waited' = 0
    /\ UNCHANGED <<hwVars, period, timestamp, reader, setter>>

\* now() reads period, and then the counter, from which it returns
\* calc_now(reader.period, Counter).
ReadPeriod ==
    /\ ~reader.busy
    /\ reader' = [busy |-> TRUE, period |-> period, ticks |-> 0]
    /\ UNCHANGED <<hwVars, period, timestamp, isr, scan, waited, setter>>

ReadCounter ==
    /\ reader.busy
    /\ reader' = NoReader
    /\ UNCHANGED <<hwVars, period, timestamp, isr, scan, waited, setter>>

\* Mutant: an alarm out of the window leaves its channel enabled.
SetAlarmEnabled(n, ts) ==
    /\ ~setter.busy
    /\ LET t == calc_now(period, Counter)
       IN IF ts <= t
          THEN Trigger(n) /\ UNCHANGED setter
          ELSE /\ timestamp' = [timestamp EXCEPT ![n] = ts]
               /\ setter' = IF ts - t < Window
                            THEN [busy |-> TRUE, n |-> n, ticks |-> 0,
                                  cc |-> IF ts < t + 3 THEN t + 3 ELSE ts]
                            ELSE setter
               /\ UNCHANGED inten
    /\ UNCHANGED <<q, off, ovrflw, mid, compare, cc, missed, period, isr, scan, waited,
                   reader>>

\* set_alarm up to its writes of CC and INTEN; Alarm::clear sets Never.
SetAlarm(n, ts) ==
    /\ ~setter.busy
    /\ LET t == calc_now(period, Counter)
       IN IF ts <= t
          THEN Trigger(n) /\ UNCHANGED setter
          ELSE /\ timestamp' = [timestamp EXCEPT ![n] = ts]
               /\ IF ts - t < Window
                  THEN /\ setter' = [busy |-> TRUE, n |-> n, ticks |-> 0,
                                     cc |-> IF ts < t + 3 THEN t + 3 ELSE ts]
                       /\ UNCHANGED inten
                  ELSE /\ inten' = [inten EXCEPT ![n] = FALSE]
                       /\ UNCHANGED setter
    /\ UNCHANGED <<q, off, ovrflw, mid, compare, cc, missed, period, isr, scan, waited,
                   reader>>

\* set_alarm writes CC and INTEN and leaves the critical section.
WriteAlarm ==
    /\ setter.busy
    /\ WriteCC(setter.n, setter.cc)
    /\ inten' = [inten EXCEPT ![setter.n] = TRUE]
    /\ setter' = NoSetter
    /\ UNCHANGED <<q, off, ovrflw, mid, compare, period, timestamp, isr, scan, waited,
                   reader>>

on_interrupt ==
    \/ EnterInterrupt \/ ServeOvrflw \/ ServeMid \/ ServePeriod
    \/ ServeAlarm \/ ServeTrigger \/ LeaveInterrupt

Next ==
    \/ Tick
    \/ on_interrupt
    \/ ReadPeriod \/ ReadCounter
    \/ \E n \in Alarms, ts \in 0..Never : SetAlarm(n, ts)
    \/ WriteAlarm

Spec == Init /\ [][Next]_vars

-----------------------------------------------------------------------------
(* Properties.                                                             *)

TypeOK ==
    /\ q \in 0..MaxPeriod /\ off \in 0..(Half - 1)
    /\ ovrflw \in BOOLEAN /\ mid \in BOOLEAN
    /\ compare \in [Alarms -> BOOLEAN]
    /\ cc \in [Alarms -> 0..(2 * Half - 1)]
    /\ missed \in [Alarms -> BOOLEAN]
    /\ inten \in [Alarms -> BOOLEAN]
    /\ period \in 0..MaxPeriod
    /\ timestamp \in [Alarms -> 0..Never]
    /\ isr \in {"idle", "ovrflw", "ovrflw_next", "mid", "mid_next", "alarms", "trigger"}
    /\ scan \in 0..AlarmCount
    /\ waited \in 0..Latency
    /\ reader \in [busy : BOOLEAN, period : 0..MaxPeriod, ticks : 0..ReadTime]
    /\ setter \in [busy : BOOLEAN, n : Alarms \cup {0}, cc : Nat, ticks : 0..1]

\* Boundary events that next_period has not been called for.
Late == (IF ovrflw \/ isr = "ovrflw_next" THEN 1 ELSE 0)
        + (IF mid \/ isr = "mid_next" THEN 1 ELSE 0)

\* The driver's count of half-periods lags the counter by the boundary events not yet
\* served, and never by more than one (rtc.rs:14-20).
PeriodInStep == q = period + Late /\ Late <= 1

\* Whenever now() reads the counter it returns the time of that moment, although an
\* overflow, a midway event or the interrupt may have come since it read the period
\* (rtc.rs:22-25).  So calls of now() never go back (traits.rs:4).
NowIsExact ==
    /\ reader.busy => calc_now(reader.period, Counter) = Time
    /\ calc_now(period, Counter) = Time

\* An alarm is compared for before it is due: the window of one and a half
\* half-periods leaves every alarm that set_alarm put off to next_period at least
\* half a half-period, less the latency of the interrupt.
ArmedInTime ==
    \A n \in Alarms :
        timestamp[n] # Never /\ Time < timestamp[n] /\ ~(setter.busy /\ setter.n = n)
        /\ timestamp[n] - Time < Half \div 2 - 2 * Latency
        => inten[n] /\ cc[n] \in {Wrap(timestamp[n]), Wrap(timestamp[n] + 1), Wrap(timestamp[n] + 2)}

\* Outside of set_alarm the peripheral raises the event of an alarm only when the
\* alarm is due: no channel is left enabled with a compare value of an earlier lap.
MatchIsDue ==
    [][\A n \in Alarms :
         ~compare[n] /\ compare'[n] /\ timestamp[n] # Never
         /\ ~(setter.busy /\ setter.n = n)
         => timestamp[n] <= Time']_vars

\* rtc.rs:210, "an alarm can be delayed for up to 2 ticks (from t+1 to t+3)": after that
\* its event has been raised.
AtMostTwoTicksLate ==
    \A n \in Alarms :
        timestamp[n] # Never /\ ~compare[n] /\ ~(isr = "trigger" /\ scan = n)
        => Time <= timestamp[n] + 2
=============================================================================
