------------------------------ MODULE RtcProof ------------------------------
(***************************************************************************)
(* For every length of a half-period the clock is exact, the driver's      *)
(* count of half-periods keeping up with the counter, and alarms are       *)
(* compared for in time and not on an earlier lap of the counter.  The     *)
(* clock of the STM32 is exact or one lap behind.                          *)
(***************************************************************************)
EXTENDS StmRtc, TLAPS

\* The part of the state that tells the time.
ClockTypes ==
    /\ q \in Nat /\ off \in 0..(Half - 1)
    /\ ovrflw \in BOOLEAN /\ mid \in BOOLEAN
    /\ period \in Nat
    /\ waited \in 0..Latency
    /\ reader \in [busy : BOOLEAN, period : Nat, ticks : 0..ReadTime]
    /\ isr \in {"idle", "ovrflw", "ovrflw_next", "mid", "mid_next", "alarms", "trigger"}

\* The event of a boundary is raised or was reset just before next_period, not both.
OneBoundary == ~(ovrflw /\ isr = "ovrflw_next") /\ ~(mid /\ isr = "mid_next")

\* A boundary event that came after the interrupt had looked for it.
Overlooked ==
    \/ ovrflw /\ isr \in {"ovrflw_next", "mid", "mid_next", "alarms", "trigger"}
    \/ mid /\ isr \in {"mid_next", "alarms", "trigger"}

\* A boundary that was not counted is recent: it waits for the rest of the interrupt
\* that overlooked it and for the next one, each of bounded latency.
Recent ==
    /\ Late = 1 => off <= waited + Latency
    /\ Overlooked => off <= waited

\* The half-period that a call of now() has read is the current one or the one before
\* it, and in that case the boundary is recent.
ReaderInStep ==
    reader.busy =>
        \/ q = reader.period
        \/ q = reader.period + 1 /\ off <= 2 * Latency + reader.ticks

\* The inductive invariant.
ClockInv == ClockTypes /\ PeriodInStep /\ OneBoundary /\ Recent /\ ReaderInStep

-----------------------------------------------------------------------------
(* Facts about the counter.                                                *)

\* The counter is at a boundary when a half-period begins: at the overflow if its
\* number is even, midway if it is odd.
LEMMA CounterBoundary ==
    ASSUME NEW p \in Nat, NEW o \in 0..(Half - 1)
    PROVE  LET c == (p % 2) * Half + o
           IN /\ c = 0 <=> p % 2 = 0 /\ o = 0
              /\ c = Half <=> p % 2 = 1 /\ o = 0
              /\ c \in Nat
              /\ p % 2 = 0 => c = o
              /\ p % 2 = 1 => c = Half + o
  <1>1. p % 2 = 0 \/ p % 2 = 1
    OBVIOUS
  <1>2. Half \in Nat /\ Half > 6
    BY RtcAssumption
  <1>3. CASE p % 2 = 0
    <2>1. (p % 2) * Half + o = o
      BY <1>2, <1>3
    <2> QED
      BY <1>2, <1>3, <2>1
  <1>4. CASE p % 2 = 1
    <2>1. (p % 2) * Half + o = Half + o
      BY <1>2, <1>4
    <2> QED
      BY <1>2, <1>4, <2>1
  <1> QED
    BY <1>1, <1>3, <1>4

\* calc_now is right if the period it is given is the current one or the one before it.
LEMMA CalcNowExact ==
    ASSUME NEW p \in Nat, q \in Nat, off \in 0..(Half - 1), q = p \/ q = p + 1
    PROVE  calc_now(p, Counter) = Time
  <1>1. Half \in Nat /\ Half > 6
    BY RtcAssumption
  <1>2. /\ q % 2 = 0 => Counter = off
        /\ q % 2 = 1 => Counter = Half + off
    BY CounterBoundary DEF Counter
  <1>3. (p + 1) * Half = p * Half + Half /\ p * Half \in Int
    BY <1>1
  <1>4. CASE q = p
    <2>1. calc_now(p, Counter) = p * Half + off
      BY <1>1, <1>2, <1>4 DEF calc_now, TimeOf
    <2> QED
      BY <1>4, <2>1 DEF Time, TimeOf
  <1>5. CASE q = p + 1
    <2>1. (p % 2 = 0 /\ q % 2 = 1) \/ (p % 2 = 1 /\ q % 2 = 0)
      BY <1>5
    <2>2. calc_now(p, Counter) = p * Half + (off + Half)
      BY <1>1, <1>2, <2>1 DEF calc_now, TimeOf
    <2>3. Time = (p + 1) * Half + off
      BY <1>5 DEF Time, TimeOf
    <2> HIDE DEF Time
    <2> QED
      BY <1>1, <1>3, <2>2, <2>3
  <1> QED
    BY <1>4, <1>5

-----------------------------------------------------------------------------
(* The invariant.                                                          *)

\* The clock starts in step.
LEMMA InitClock == Init => ClockInv
  <1> SUFFICES ASSUME Init PROVE ClockInv
    OBVIOUS
  <1> USE RtcAssumption
  <1>1. /\ q = 0 /\ off = 0 /\ ~ovrflw /\ ~mid /\ period = 0 /\ waited = 0 /\ isr = "idle"
        /\ ovrflw \in BOOLEAN /\ mid \in BOOLEAN /\ reader = NoReader
    BY DEF Init
  <1>2. ClockTypes
    BY <1>1 DEF ClockTypes, NoReader
  <1>3. Late = 0 /\ ~Overlooked /\ OneBoundary
    BY <1>1 DEF Late, Overlooked, OneBoundary
  <1> QED
    BY <1>1, <1>2, <1>3 DEF ClockInv, PeriodInStep, Recent, ReaderInStep, NoReader

\* A tick raises the event of the boundary it crosses, and crosses none while an earlier
\* one is not counted.
LEMMA TickClock ==
    ASSUME ClockInv, Tick
    PROVE  ClockInv'
  <1> USE RtcAssumption DEF ClockInv, ClockTypes
  <1>1. (Late = 1 => Interrupting) /\ (Late = 0 \/ Late = 1)
    BY DEF Late, Interrupting, Pending, PeriodInStep
  <1>2. /\ q' \in Nat /\ off' \in 0..(Half - 1)
        /\ off' = 0 => off = Half - 1 /\ q' = q + 1
        /\ off' # 0 => off' = off + 1 /\ q' = q
    <2>1. /\ q' = IF off = Half - 1 THEN q + 1 ELSE q
          /\ off' = IF off = Half - 1 THEN 0 ELSE off + 1
      BY DEF Tick
    <2> QED
      BY <2>1
  <1>3. /\ Counter' = 0 <=> q' % 2 = 0 /\ off' = 0
        /\ Counter' = Half <=> q' % 2 = 1 /\ off' = 0
    <2> HIDE DEF ClockInv
    <2> QED
      BY <1>2, CounterBoundary DEF Counter
  <1>4. /\ ovrflw' <=> ovrflw \/ Counter' = 0
        /\ mid' <=> mid \/ Counter' = Half
        /\ ovrflw' \in BOOLEAN /\ mid' \in BOOLEAN
        /\ UNCHANGED <<period, isr>>
        /\ waited' = IF Interrupting THEN waited + 1 ELSE 0
        /\ Interrupting => waited < Latency
        /\ reader.busy => reader.ticks < ReadTime
        /\ reader' = IF reader.busy THEN [reader EXCEPT !.ticks = @ + 1] ELSE reader
    BY DEF Tick
  <1>5. /\ reader'.busy = reader.busy /\ reader'.period = reader.period
        /\ reader.busy => reader'.ticks = reader.ticks + 1
        /\ ~reader.busy => reader'.ticks = reader.ticks
    BY <1>4
  <1>6. ClockTypes'
    BY <1>2, <1>4, <1>5
  <1>7. off' = 0 => Late = 0
    BY <1>1, <1>2 DEF Recent
  <1>8. CASE off' = 0
    <2>1. Late' = 1 /\ OneBoundary'
      BY <1>2, <1>3, <1>4, <1>7, <1>8 DEF Late, OneBoundary
    <2> QED
      BY <1>2, <1>4, <1>5, <1>6, <1>7, <1>8, <2>1 DEF PeriodInStep, Recent, ReaderInStep
  <1>9. CASE off' # 0
    <2>1. ovrflw' = ovrflw /\ mid' = mid
      BY <1>3, <1>4, <1>9
    <2>2. Late' = Late /\ OneBoundary' /\ (Overlooked' <=> Overlooked)
      BY <1>4, <2>1 DEF Late, OneBoundary, Overlooked
    <2>3. Overlooked => Late = 1
      BY DEF Overlooked, Late, PeriodInStep
    <2> QED
      BY <1>1, <1>2, <1>4, <1>5, <1>6, <1>9, <2>2, <2>3
         DEF PeriodInStep, Recent, ReaderInStep
  <1> QED
    BY <1>8, <1>9

\* Every other step leaves the counter alone.
LEMMA DriverClock ==
    ASSUME ClockInv, Next, ~Tick
    PROVE  ClockInv'
  <1> USE RtcAssumption DEF ClockInv, ClockTypes, hwVars
  <1>1. CASE EnterInterrupt
    BY <1>1 DEF EnterInterrupt, PeriodInStep, Late, OneBoundary, Recent, Overlooked,
       ReaderInStep
  <1>2. CASE ServeOvrflw
    BY <1>2 DEF ServeOvrflw, PeriodInStep, Late, OneBoundary, Recent, Overlooked,
       ReaderInStep
  <1>3. CASE ServeMid
    BY <1>3 DEF ServeMid, PeriodInStep, Late, OneBoundary, Recent, Overlooked, ReaderInStep
  <1>4. CASE ServePeriod
    <2>1. period' = period + 1
      BY <1>4 DEF ServePeriod, next_period
    <2> QED
      BY <1>4, <2>1 DEF ServePeriod, PeriodInStep, Late, OneBoundary, Recent, Overlooked,
         ReaderInStep
  <1>5. CASE ServeAlarm \/ ServeTrigger
    BY <1>5 DEF ServeAlarm, ServeTrigger, PeriodInStep, Late, OneBoundary, Recent,
       Overlooked, ReaderInStep
  <1>6. CASE LeaveInterrupt
    BY <1>6 DEF LeaveInterrupt, PeriodInStep, Late, OneBoundary, Recent, Overlooked,
       ReaderInStep
  <1>7. CASE ReadPeriod
    BY <1>7 DEF ReadPeriod, PeriodInStep, Late, OneBoundary, Recent, Overlooked,
       ReaderInStep
  <1>8. CASE ReadCounter
    BY <1>8 DEF ReadCounter, NoReader, PeriodInStep, Late, OneBoundary, Recent, Overlooked,
       ReaderInStep
  <1>9. CASE \E n \in Alarms, ts \in 0..Never : SetAlarm(n, ts)
    BY <1>9 DEF SetAlarm, PeriodInStep, Late, OneBoundary, Recent, Overlooked, ReaderInStep
  <1>10. CASE WriteAlarm
    BY <1>10 DEF WriteAlarm, PeriodInStep, Late, OneBoundary, Recent, Overlooked,
       ReaderInStep
  <1> QED
    BY <1>1, <1>2, <1>3, <1>4, <1>5, <1>6, <1>7, <1>8, <1>9, <1>10 DEF Next, on_interrupt

\* The clock stays in step.
LEMMA ClockInvariant == Spec => []ClockInv
  <1>1. ClockInv /\ UNCHANGED vars => ClockInv'
    BY DEF vars, hwVars, ClockInv, ClockTypes, PeriodInStep, Late, OneBoundary, Recent,
       Overlooked, ReaderInStep
  <1>2. ClockInv /\ [Next]_vars => ClockInv'
    BY <1>1, TickClock, DriverClock
  <1> QED
    BY <1>2, InitClock, PTL DEF Spec

\* The count of half-periods lags by at most one, by exactly the boundary events that
\* on_interrupt has not served (rtc.rs:14-20), whatever the length of a half-period.
THEOREM ClockInStep == Spec => []PeriodInStep
  <1>1. ClockInv => PeriodInStep
    BY DEF ClockInv
  <1> QED
    BY <1>1, ClockInvariant, PTL

\* now() is exact at the moment it reads the counter (rtc.rs:235-243), whatever falls
\* between its two reads.
THEOREM ClockIsExact == Spec => []NowIsExact
  <1>1. ClockInv => NowIsExact
    <2> SUFFICES ASSUME ClockInv PROVE NowIsExact
      OBVIOUS
    <2>1. q = period \/ q = period + 1
      BY DEF ClockInv, ClockTypes, PeriodInStep, Late
    <2>2. calc_now(period, Counter) = Time
      BY <2>1, CalcNowExact DEF ClockInv, ClockTypes
    <2>3. reader.busy => calc_now(reader.period, Counter) = Time
      BY CalcNowExact DEF ClockInv, ClockTypes, ReaderInStep
    <2> QED
      BY <2>2, <2>3 DEF NowIsExact
  <1> QED
    BY <1>1, ClockInvariant, PTL

-----------------------------------------------------------------------------
(* The alarms.                                                             *)

AlarmTypes ==
    /\ timestamp \in [Alarms -> Int]
    /\ compare \in [Alarms -> BOOLEAN]
    /\ inten \in [Alarms -> BOOLEAN]
    /\ cc \in [Alarms -> Int]
    /\ setter.busy \in BOOLEAN

\* The alarm is set, not due yet, and its channel not about to be written.
Waiting(n) ==
    /\ timestamp[n] # Never /\ Time < timestamp[n]
    /\ ~(setter.busy /\ setter.n = n)

\* An alarm in the window of the half-period that was counted last is enabled ...
ArmedInWindow ==
    \A n \in Alarms :
        Waiting(n) /\ timestamp[n] - TimeOf(period, 0) < Window => inten[n]

\* ... and one that is enabled is near, and compared for with its timestamp, delayed by no
\* more than two ticks.
NearIfEnabled ==
    \A n \in Alarms :
        Waiting(n) /\ inten[n]
        => /\ timestamp[n] - Time < Window
           /\ \E d \in 0..2 : cc[n] = Wrap(timestamp[n] + d)

\* So is the one that set_alarm is about to write.
SetterIsNear ==
    setter.busy =>
        /\ setter.n \in Alarms
        /\ timestamp[setter.n] - Time < Window
        /\ \E d \in 0..2 : setter.cc = timestamp[setter.n] + d

AlarmInv == AlarmTypes /\ ArmedInWindow /\ NearIfEnabled /\ SetterIsNear

\* The time, and the beginning of the half-period that was counted last.
LEMMA TimeFacts ==
    ASSUME ClockInv
    PROVE  /\ Time \in Int /\ TimeOf(period, 0) \in Int /\ Never \in Int /\ Window \in Int
           /\ TimeOf(period + 1, 0) = TimeOf(period, 0) + Half
           /\ q = period => Time = TimeOf(period, 0) + off
           /\ q = period + 1 => Time = TimeOf(period, 0) + Half + off
           /\ q = period \/ (q = period + 1 /\ off <= 2 * Latency)
           /\ off \in 0..(Half - 1)
           /\ Window = Half + Half \div 2 /\ Half \div 2 \in Int /\ 2 * (Half \div 2) = Half
  <1>1. /\ Half \in Nat /\ Half > 6 /\ Half % 2 = 0 /\ MaxPeriod \in Nat /\ Latency \in Nat
    BY RtcAssumption
  <1>2. q \in Nat /\ period \in Nat /\ off \in 0..(Half - 1) /\ waited \in 0..Latency
    BY DEF ClockInv, ClockTypes
  <1>3. /\ (period + 1) * Half = period * Half + Half /\ period * Half \in Int
        /\ q * Half \in Int /\ MaxPeriod * Half \in Int
    BY <1>1, <1>2
  <1>4. q = period \/ (q = period + 1 /\ off <= 2 * Latency)
    BY <1>1, <1>2 DEF ClockInv, PeriodInStep, Late, Recent
  <1>5. Half \div 2 \in Int /\ 2 * (Half \div 2) = Half
    BY <1>1
  <1> QED
    BY <1>1, <1>2, <1>3, <1>4, <1>5 DEF Time, TimeOf, Never, MaxTime, Window

\* A tick is a tick of the time.
LEMMA TickTime ==
    ASSUME ClockInv, Tick
    PROVE  Time' = Time + 1
  <1>1. Half \in Nat /\ Half > 6 /\ q \in Nat /\ off \in 0..(Half - 1)
    BY RtcAssumption DEF ClockInv, ClockTypes
  <1>2. (q + 1) * Half = q * Half + Half /\ q * Half \in Int
    BY <1>1
  <1>3. /\ q' = IF off = Half - 1 THEN q + 1 ELSE q
        /\ off' = IF off = Half - 1 THEN 0 ELSE off + 1
    BY DEF Tick
  <1>4. CASE off = Half - 1
    <2>1. q' * Half = q * Half + Half /\ off' = 0
      BY <1>2, <1>3, <1>4
    <2> QED
      BY <1>1, <1>2, <1>4, <2>1 DEF Time, TimeOf
  <1>5. CASE off # Half - 1
    <2>1. q' * Half = q * Half /\ off' = off + 1
      BY <1>3, <1>5
    <2> QED
      BY <1>1, <1>2, <2>1 DEF Time, TimeOf
  <1> QED
    BY <1>4, <1>5

\* A multiple of m between -m and m is 0.
LEMMA SmallMultiple ==
    ASSUME NEW k \in Int, NEW m \in Nat, m > 0, m * k < m, 0 - m < m * k
    PROVE  k = 0
  <1>1. k >= 1 => m * k >= m
    OBVIOUS
  <1>2. k <= 0 - 1 => m * k <= 0 - m
    OBVIOUS
  <1> QED
    BY <1>1, <1>2

\* Times less than a lap of the counter apart have different counter values.
LEMMA WrapApart ==
    ASSUME NEW a \in Int, NEW b \in Int, a < b, b - a < 2 * Half
    PROVE  Wrap(a) # Wrap(b)
  <1> DEFINE m == 2 * Half
             k == b \div m - a \div m
  <1>1. m \in Nat /\ m > 0
    BY RtcAssumption
  <1>2. SUFFICES ASSUME a % m = b % m PROVE FALSE
    BY DEF Wrap
  <1> HIDE DEF m
  <1>3. a \div m \in Int /\ b \div m \in Int
    BY <1>1
  <1>4. a = m * (a \div m) + (a % m) /\ b = m * (b \div m) + (b % m) /\ a % m \in Int
    BY <1>1
  <1>5. m * (b \div m - a \div m) = m * (b \div m) - m * (a \div m)
    BY <1>1, <1>3
  <1>6. b - a = m * k /\ k \in Int
    BY <1>1, <1>2, <1>3, <1>4, <1>5
  <1>7. m * k < m /\ 0 - m < m * k
    BY <1>1, <1>6 DEF m
  <1> HIDE DEF k
  <1>8. k = 0
    BY <1>1, <1>6, <1>7, SmallMultiple
  <1> QED
    BY <1>1, <1>6, <1>8

\* The counter is the time without the laps.
LEMMA CounterIsWrapped ==
    ASSUME NEW p \in Nat, NEW o \in 0..(Half - 1)
    PROVE  Wrap(TimeOf(p, o)) = (p % 2) * Half + o
  <1> DEFINE m == 2 * Half
             c == (p % 2) * Half + o
             t == TimeOf(p, o)
             k == t \div m - p \div 2
  <1>1. Half \in Nat /\ Half > 6 /\ m \in Nat /\ m > 0
    BY RtcAssumption
  <1>2. p % 2 \in {0, 1} /\ p \div 2 \in Int /\ p = 2 * (p \div 2) + (p % 2)
    OBVIOUS
  <1>3. c \in Int /\ 0 <= c /\ c < m
    <2>1. CASE p % 2 = 0
      BY <1>1, <2>1, CounterBoundary
    <2>2. CASE p % 2 = 1
      BY <1>1, <2>2, CounterBoundary
    <2> QED
      BY <1>2, <2>1, <2>2
  <1>4. t \in Int /\ t = m * (p \div 2) + c
    <2>1. p * Half = (2 * (p \div 2) + (p % 2)) * Half
      BY <1>2
    <2>2. (2 * (p \div 2) + (p % 2)) * Half = 2 * Half * (p \div 2) + (p % 2) * Half
      BY <1>1, <1>2
    <2>3. 2 * Half * (p \div 2) \in Int /\ (p % 2) * Half \in Int
      BY <1>1, <1>2
    <2> QED
      BY <1>1, <2>1, <2>2, <2>3 DEF TimeOf
  <1> HIDE DEF m, c, t
  <1>5. t = m * (t \div m) + (t % m) /\ t % m \in 0..(m - 1) /\ t \div m \in Int
    <2>1. t \in Int
      BY <1>4
    <2> QED
      BY <1>1, <2>1
  <1>6. m * (t \div m - p \div 2) = m * (t \div m) - m * (p \div 2) /\ m * (p \div 2) \in Int
    BY <1>1, <1>2, <1>5
  <1>7. m * k = c - (t % m) /\ k \in Int
    BY <1>1, <1>2, <1>3, <1>4, <1>5, <1>6
  <1>8. m * k < m /\ 0 - m < m * k
    BY <1>1, <1>3, <1>5, <1>7
  <1> HIDE DEF k
  <1>9. k = 0
    BY <1>1, <1>7, <1>8, SmallMultiple
  <1>10. t % m = c
    BY <1>1, <1>3, <1>5, <1>7, <1>9
  <1> QED
    BY <1>10 DEF Wrap, m, c, t

LEMMA InitAlarms == Init => AlarmInv
  <1> SUFFICES ASSUME Init PROVE AlarmInv
    OBVIOUS
  <1>1. Never \in Int
    BY InitClock, TimeFacts
  <1>2. AlarmTypes
    BY <1>1 DEF Init, AlarmTypes, NoSetter
  <1>3. \A n \in Alarms : ~Waiting(n)
    BY DEF Init, Waiting
  <1> QED
    BY <1>2, <1>3 DEF Init, AlarmInv, ArmedInWindow, NearIfEnabled, SetterIsNear, NoSetter

\* A tick brings alarms nearer and changes no channel.
LEMMA TickAlarms ==
    ASSUME ClockInv, AlarmInv, Tick
    PROVE  AlarmInv'
  <1>1. Time \in Int /\ Time' = Time + 1 /\ TimeOf(period, 0) \in Int /\ Window \in Int
    BY TimeFacts, TickTime
  <1>2. /\ UNCHANGED <<cc, inten, period, timestamp>>
        /\ compare' \in [Alarms -> BOOLEAN]
        /\ setter' = IF setter.busy THEN [setter EXCEPT !.ticks = @ + 1] ELSE setter
    BY DEF Tick, AlarmInv, AlarmTypes
  <1>3. \A n \in Alarms : timestamp[n] \in Int
    BY DEF AlarmInv, AlarmTypes
  <1>4. setter'.busy = setter.busy /\ setter'.n = setter.n /\ setter'.cc = setter.cc
    BY <1>2
  <1>5. AlarmTypes'
    BY <1>2, <1>4 DEF AlarmInv, AlarmTypes
  <1>6. UNCHANGED <<Never, Window, TimeOf(period, 0)>>
    BY <1>2 DEF Never, MaxTime, Window, TimeOf
  <1>7. ASSUME NEW n \in Alarms, Waiting(n)' PROVE Waiting(n)
    BY <1>1, <1>2, <1>3, <1>4, <1>6, <1>7 DEF Waiting
  <1>8. ArmedInWindow'
    BY <1>2, <1>6, <1>7 DEF ArmedInWindow, AlarmInv
  <1>9. NearIfEnabled'
    BY <1>1, <1>2, <1>3, <1>6, <1>7 DEF NearIfEnabled, AlarmInv, Wrap
  <1>10. SetterIsNear'
    BY <1>1, <1>2, <1>3, <1>4, <1>6 DEF SetterIsNear, AlarmInv
  <1> QED
    BY <1>5, <1>8, <1>9, <1>10 DEF AlarmInv

\* A step that leaves the time and every alarm alone.
LEMMA QuietAlarms ==
    ASSUME AlarmInv, UNCHANGED <<q, off, cc, inten, period, timestamp, setter>>,
           compare' \in [Alarms -> BOOLEAN]
    PROVE  AlarmInv'
  BY DEF AlarmInv, AlarmTypes, ArmedInWindow, NearIfEnabled, SetterIsNear, Waiting, Time, TimeOf,
         Never, MaxTime, Window, Wrap

\* trigger_alarm leaves nothing to wait for.
LEMMA TriggerAlarms ==
    ASSUME ClockInv, AlarmInv, NEW n, Trigger(n),
           UNCHANGED <<q, off, cc, compare, period, setter>>, ~setter.busy
    PROVE  AlarmInv'
  <1>1. Never \in Int
    BY TimeFacts
  <1>2. AlarmTypes'
    BY <1>1 DEF AlarmInv, AlarmTypes, Trigger
  <1>3. UNCHANGED <<Never, Window, Time, TimeOf(period, 0)>>
    BY DEF Never, MaxTime, Window, Time, TimeOf
  <1>4. ASSUME NEW m \in Alarms, Waiting(m)'
        PROVE  Waiting(m) /\ timestamp'[m] = timestamp[m] /\ inten'[m] = inten[m]
    BY <1>3, <1>4 DEF Trigger, Waiting, AlarmInv, AlarmTypes
  <1>5. ArmedInWindow'
    BY <1>3, <1>4 DEF ArmedInWindow, AlarmInv
  <1>6. NearIfEnabled'
    BY <1>3, <1>4 DEF NearIfEnabled, AlarmInv, Wrap
  <1> QED
    BY <1>2, <1>5, <1>6 DEF AlarmInv, SetterIsNear

\* next_period enables what comes into the window.
LEMMA PeriodAlarms ==
    ASSUME ClockInv, AlarmInv, ServePeriod, ClockInv'
    PROVE  AlarmInv'
  <1> DEFINE t == TimeOf(period + 1, 0)
             near == {n \in Alarms : timestamp[n] >= t /\ timestamp[n] - t < Window}
  <1>1. /\ period' = period + 1
        /\ cc' = [n \in Alarms |-> IF n \in near THEN Wrap(timestamp[n]) ELSE cc[n]]
        /\ inten' = [n \in Alarms |-> inten[n] \/ n \in near]
        /\ UNCHANGED <<q, off, compare, timestamp, setter>> /\ ~setter.busy
    BY DEF ServePeriod, next_period
  <1>2. /\ Time \in Int /\ TimeOf(period', 0) = t /\ Window \in Int /\ t <= Time /\ t \in Int
        /\ UNCHANGED <<Never, Window, Time>>
    <2>1. UNCHANGED <<Never, Window, Time>>
      BY <1>1 DEF Never, MaxTime, Window, Time, TimeOf
    <2>2. q \in Nat /\ period \in Nat /\ Half \in Nat
      BY RtcAssumption DEF ClockInv, ClockTypes
    <2>3. q = period + 1
      <3>1. Late' \in Nat
        BY DEF Late
      <3>2. q' = period' + Late'
        BY DEF ClockInv, PeriodInStep
      <3>3. PICK late \in Nat : q = period + 1 + late
        BY <1>1, <3>1, <3>2, Zenon
      <3> QED
        BY <2>2, <3>3, TimeFacts
    <2> QED
      BY <1>1, <2>1, <2>2, <2>3, TimeFacts
  <1>3. \A n \in Alarms : timestamp[n] \in Int /\ inten[n] \in BOOLEAN /\ cc[n] \in Int
    BY DEF AlarmInv, AlarmTypes
  <1> HIDE DEF t
  <1>4. AlarmTypes'
    <2>1. \A n \in Alarms : Wrap(timestamp[n]) \in Int
      BY <1>3, RtcAssumption DEF Wrap
    <2> QED
      BY <1>1, <1>3, <2>1 DEF AlarmInv, AlarmTypes
  <1>5. ASSUME NEW n \in Alarms, Waiting(n)'
        PROVE  Waiting(n) /\ timestamp'[n] = timestamp[n] /\ timestamp[n] >= t
    BY <1>1, <1>2, <1>3, <1>5 DEF Waiting
  <1>6. ArmedInWindow'
    BY <1>1, <1>2, <1>5 DEF ArmedInWindow
  <1>7. ASSUME NEW n \in Alarms, Waiting(n)', inten'[n]
        PROVE  /\ timestamp'[n] - Time' < Window'
               /\ \E d \in 0..2 : cc'[n] = Wrap(timestamp'[n] + d)
    <2>1. Waiting(n) /\ timestamp'[n] = timestamp[n] /\ timestamp[n] >= t
      BY <1>5, <1>7
    <2>2. CASE n \in near
      <3>1. cc'[n] = Wrap(timestamp[n]) /\ timestamp[n] + 0 = timestamp[n]
        BY <1>1, <1>3, <2>2
      <3>2. timestamp[n] - Time < Window
        BY <1>2, <1>3, <2>2
      <3> QED
        BY <1>2, <2>1, <3>1, <3>2
    <2>3. CASE n \notin near
      <3>1. cc'[n] = cc[n] /\ inten[n]
        BY <1>1, <1>7, <2>3
      <3> QED
        BY <1>2, <2>1, <3>1 DEF AlarmInv, NearIfEnabled
    <2> QED
      BY <2>2, <2>3
  <1>8. NearIfEnabled'
    BY <1>7 DEF NearIfEnabled, Wrap
  <1> QED
    BY <1>1, <1>4, <1>6, <1>8 DEF AlarmInv, SetterIsNear

\* set_alarm enables an alarm in the window, and disables the channel of one that is not.
LEMMA SetAlarms ==
    ASSUME ClockInv, AlarmInv, NEW n \in Alarms, NEW ts \in 0..Never, SetAlarm(n, ts)
    PROVE  AlarmInv'
  <1> DEFINE t == calc_now(period, Counter)
  <1>1. /\ Time \in Int /\ TimeOf(period, 0) \in Int /\ Window \in Int /\ Never \in Int
        /\ TimeOf(period, 0) <= Time /\ Half \in Nat
    BY TimeFacts, RtcAssumption
  <1>2. t = Time
    <2>1. q = period \/ q = period + 1
      BY TimeFacts
    <2> QED
      BY <2>1, CalcNowExact DEF ClockInv, ClockTypes
  <1> HIDE DEF t
  <1>3. /\ ~setter.busy /\ ts \in Int
        /\ UNCHANGED <<q, off, compare, cc, period>>
        /\ IF ts <= t
           THEN Trigger(n) /\ UNCHANGED setter
           ELSE /\ timestamp' = [timestamp EXCEPT ![n] = ts]
                /\ IF ts - t < Window
                   THEN /\ setter' = [busy |-> TRUE, n |-> n, ticks |-> 0,
                                      cc |-> IF ts < t + 3 THEN t + 3 ELSE ts]
                        /\ UNCHANGED inten
                   ELSE /\ inten' = [inten EXCEPT ![n] = FALSE]
                        /\ UNCHANGED setter
    BY <1>1 DEF SetAlarm, t
  <1>4. UNCHANGED <<Never, Window, Time, TimeOf(period, 0)>>
    BY <1>3 DEF Never, MaxTime, Window, Time, TimeOf
  <1>5. CASE ts <= t
    BY <1>3, <1>5, TriggerAlarms
  <1>6. CASE ts > t /\ ts - t < Window
    <2>1. /\ timestamp' = [timestamp EXCEPT ![n] = ts] /\ UNCHANGED inten
          /\ setter'.busy = TRUE /\ setter'.n = n
          /\ setter'.cc = IF ts < t + 3 THEN t + 3 ELSE ts
      BY <1>1, <1>2, <1>3, <1>6
    <2>2. AlarmTypes'
      BY <1>3, <2>1 DEF AlarmInv, AlarmTypes
    <2>3. timestamp'[n] = ts /\ \A m \in Alarms : m # n => timestamp'[m] = timestamp[m]
      BY <2>1 DEF AlarmInv, AlarmTypes
    <2>4. ASSUME NEW m \in Alarms, Waiting(m)'
          PROVE  Waiting(m) /\ timestamp'[m] = timestamp[m]
      BY <1>3, <1>4, <2>1, <2>3, <2>4 DEF Waiting
    <2>5. ArmedInWindow'
      BY <1>4, <2>1, <2>4 DEF ArmedInWindow, AlarmInv
    <2>6. NearIfEnabled'
      BY <1>3, <1>4, <2>1, <2>4 DEF NearIfEnabled, AlarmInv, Wrap
    <2>7. \E d \in 0..2 : setter'.cc = ts + d
      <3>1. CASE ts < t + 3
        <4>1. t + 3 - ts \in 0..2 /\ t + 3 = ts + (t + 3 - ts)
          BY <1>1, <1>2, <1>3, <1>6, <3>1
        <4> QED
          BY <2>1, <3>1, <4>1
      <3>2. CASE ~(ts < t + 3)
        <4>1. setter'.cc = ts + 0
          BY <1>3, <2>1, <3>2
        <4> QED
          BY <4>1
      <3> QED
        BY <3>1, <3>2
    <2>8. SetterIsNear'
      BY <1>2, <1>4, <1>6, <2>1, <2>3, <2>7 DEF SetterIsNear
    <2> QED
      BY <2>2, <2>5, <2>6, <2>8 DEF AlarmInv
  <1>7. CASE ts > t /\ ~(ts - t < Window)
    <2>1. /\ timestamp' = [timestamp EXCEPT ![n] = ts] /\ UNCHANGED setter
          /\ inten' = [inten EXCEPT ![n] = FALSE]
      BY <1>1, <1>2, <1>3, <1>7
    <2>2. AlarmTypes'
      BY <1>3, <2>1 DEF AlarmInv, AlarmTypes
    <2>3. /\ timestamp'[n] = ts /\ inten'[n] = FALSE
          /\ \A m \in Alarms : m # n => timestamp'[m] = timestamp[m] /\ inten'[m] = inten[m]
      BY <2>1 DEF AlarmInv, AlarmTypes
    <2>4. ~(ts - TimeOf(period, 0) < Window)
      BY <1>1, <1>2, <1>3, <1>7
    <2>5. ASSUME NEW m \in Alarms, Waiting(m)', m # n PROVE Waiting(m)
      BY <1>3, <1>4, <2>1, <2>3, <2>5 DEF Waiting
    <2>6. ArmedInWindow'
      BY <1>4, <2>3, <2>4, <2>5 DEF ArmedInWindow, AlarmInv
    <2>7. NearIfEnabled'
      BY <1>3, <1>4, <2>3, <2>5 DEF NearIfEnabled, AlarmInv, Wrap
    <2> QED
      BY <1>3, <2>1, <2>2, <2>6, <2>7 DEF AlarmInv, SetterIsNear
  <1> QED
    BY <1>1, <1>2, <1>3, <1>5, <1>6, <1>7

LEMMA WriteAlarms ==
    ASSUME ClockInv, AlarmInv, WriteAlarm
    PROVE  AlarmInv'
  <1>1. /\ setter.busy /\ cc' = [cc EXCEPT ![setter.n] = Wrap(setter.cc)]
        /\ inten' = [inten EXCEPT ![setter.n] = TRUE]
        /\ ~setter'.busy /\ setter'.busy \in BOOLEAN
        /\ UNCHANGED <<q, off, compare, period, timestamp>>
    BY DEF WriteAlarm, WriteCC, NoSetter
  <1>2. PICK n \in Alarms, d \in 0..2 :
          n = setter.n /\ timestamp[n] - Time < Window /\ setter.cc = timestamp[n] + d
    BY <1>1 DEF AlarmInv, SetterIsNear
  <1>3. UNCHANGED <<Never, Window, Time, TimeOf(period, 0)>>
    BY <1>1 DEF Never, MaxTime, Window, Time, TimeOf
  <1>4. timestamp[n] + d \in Int /\ Wrap(timestamp[n] + d) \in Int
    BY RtcAssumption DEF AlarmInv, AlarmTypes, Wrap
  <1>5. AlarmTypes'
    BY <1>1, <1>2, <1>4 DEF AlarmInv, AlarmTypes
  <1>6. /\ cc'[n] = Wrap(timestamp[n] + d) /\ inten'[n] = TRUE
        /\ \A m \in Alarms : m # n => cc'[m] = cc[m] /\ inten'[m] = inten[m]
    BY <1>1, <1>2 DEF AlarmInv, AlarmTypes
  <1>7. ASSUME NEW m \in Alarms, Waiting(m)', m # n PROVE Waiting(m)
    BY <1>1, <1>2, <1>3, <1>7 DEF Waiting
  <1>8. ArmedInWindow'
    BY <1>1, <1>3, <1>6, <1>7 DEF ArmedInWindow, AlarmInv
  <1>9. ASSUME NEW m \in Alarms, Waiting(m)', inten'[m]
        PROVE  timestamp[m] - Time < Window /\ \E e \in 0..2 : cc'[m] = Wrap(timestamp[m] + e)
    <2>1. CASE m = n
      BY <1>2, <1>6, <2>1
    <2>2. CASE m # n
      BY <1>6, <1>7, <1>9, <2>2 DEF AlarmInv, NearIfEnabled
    <2> QED
      BY <2>1, <2>2
  <1>10. NearIfEnabled'
    BY <1>1, <1>3, <1>9 DEF NearIfEnabled, Wrap
  <1> QED
    BY <1>1, <1>5, <1>8, <1>10 DEF AlarmInv, SetterIsNear

\* The alarms stay armed.
LEMMA AlarmInvariant == Spec => [](ClockInv /\ AlarmInv)
  <1>1. ASSUME ClockInv, AlarmInv, Next, ClockInv' PROVE AlarmInv'
    <2>1. CASE Tick
      BY <1>1, <2>1, TickAlarms
    <2>2. CASE EnterInterrupt \/ ServeOvrflw \/ ServeMid \/ LeaveInterrupt \/ ReadPeriod
                 \/ ReadCounter
      BY <1>1, <2>2, QuietAlarms DEF EnterInterrupt, ServeOvrflw, ServeMid, LeaveInterrupt,
         ReadPeriod, ReadCounter, hwVars, AlarmInv, AlarmTypes
    <2>3. CASE ServeAlarm
      BY <1>1, <2>3, QuietAlarms DEF ServeAlarm, AlarmInv, AlarmTypes
    <2>4. CASE ServeTrigger
      BY <1>1, <2>4, TriggerAlarms DEF ServeTrigger
    <2>5. CASE ServePeriod
      BY <1>1, <2>5, PeriodAlarms
    <2>6. CASE \E n \in Alarms, ts \in 0..Never : SetAlarm(n, ts)
      BY <1>1, <2>6, SetAlarms
    <2>7. CASE WriteAlarm
      BY <1>1, <2>7, WriteAlarms
    <2> QED
      BY <1>1, <2>1, <2>2, <2>3, <2>4, <2>5, <2>6, <2>7 DEF Next, on_interrupt
  <1>2. ASSUME AlarmInv, UNCHANGED vars PROVE AlarmInv'
    BY <1>2, QuietAlarms DEF vars, hwVars, AlarmInv, AlarmTypes
  <1>3. ClockInv /\ AlarmInv /\ [Next]_vars /\ ClockInv' => AlarmInv'
    BY <1>1, <1>2
  <1> QED
    BY <1>3, InitAlarms, ClockInvariant, PTL DEF Spec

\* An alarm is compared for before it is due: what set_alarm puts off (rtc.rs:217) next_period
\* enables at least half a half-period before, less the latency of the interrupt (rtc.rs:155),
\* whatever the length of a half-period and the number of alarms.
THEOREM AlarmsAreArmed == Spec => []ArmedInTime
  <1>1. ClockInv /\ AlarmInv => ArmedInTime
    <2> SUFFICES ASSUME ClockInv, AlarmInv, NEW n \in Alarms, Waiting(n),
                        timestamp[n] - Time < Half \div 2 - 2 * Latency
                 PROVE  /\ inten[n]
                        /\ \/ cc[n] = Wrap(timestamp[n]) \/ cc[n] = Wrap(timestamp[n] + 1)
                           \/ cc[n] = Wrap(timestamp[n] + 2)
      BY DEF ArmedInTime, Waiting
    <2>1. timestamp[n] \in Int
      BY DEF AlarmInv, AlarmTypes
    <2>2. timestamp[n] - TimeOf(period, 0) < Window
      BY <2>1, TimeFacts, RtcAssumption
    <2>3. inten[n]
      BY <2>2 DEF AlarmInv, ArmedInWindow
    <2>4. PICK d \in 0..2 : cc[n] = Wrap(timestamp[n] + d)
      BY <2>3 DEF AlarmInv, NearIfEnabled
    <2>5. timestamp[n] + 0 = timestamp[n] /\ (d = 0 \/ d = 1 \/ d = 2)
      BY <2>1
    <2> QED
      BY <2>3, <2>4, <2>5
  <1> QED
    BY <1>1, AlarmInvariant, PTL

\* The peripheral raises the event of an alarm only when it is due: the window of one and a
\* half half-periods is less than a lap of the counter, and set_alarm disables the channel of
\* an alarm out of the window (rtc.rs:199-219).
THEOREM MatchesAreDue == Spec => MatchIsDue
  <1>1. ASSUME ClockInv, AlarmInv, ClockInv', Next, NEW n \in Alarms,
               ~compare[n], compare'[n], timestamp[n] # Never, ~(setter.busy /\ setter.n = n)
        PROVE  timestamp[n] <= Time'
    <2>1. CASE Tick
      <3>1. Counter' = cc[n] /\ inten[n]
        BY <1>1, <2>1 DEF Tick
      <3>2. Counter' = Wrap(Time')
        <4>1. q' \in Nat /\ off' \in 0..(Half - 1)
          BY <1>1 DEF ClockInv, ClockTypes
        <4> QED
          BY <4>1, CounterIsWrapped DEF Counter, Time, Wrap, TimeOf
      <3>3. Time' = Time + 1 /\ Time \in Int /\ timestamp[n] \in Int
        BY <1>1, <2>1, TickTime, TimeFacts DEF AlarmInv, AlarmTypes
      <3>4. SUFFICES ASSUME Time' < timestamp[n] PROVE FALSE
        BY <3>3
      <3>5. Waiting(n)
        BY <1>1, <3>3, <3>4 DEF Waiting
      <3>6. PICK d \in 0..2 : cc[n] = Wrap(timestamp[n] + d)
        BY <1>1, <3>1, <3>5 DEF AlarmInv, NearIfEnabled
      <3>7. timestamp[n] - Time < Window
        BY <1>1, <3>1, <3>5 DEF AlarmInv, NearIfEnabled
      <3>8. /\ Time + 1 \in Int /\ timestamp[n] + d \in Int
            /\ Time + 1 < timestamp[n] + d /\ timestamp[n] + d - (Time + 1) < 2 * Half
        BY <1>1, <3>3, <3>4, <3>7, TimeFacts, RtcAssumption
      <3>9. Wrap(Time + 1) # Wrap(timestamp[n] + d)
        <4> DEFINE a == Time + 1
                   b == timestamp[n] + d
        <4>1. a \in Int /\ b \in Int /\ a < b /\ b - a < 2 * Half
          BY <3>3, <3>8, RtcAssumption
        <4> HIDE DEF a, b
        <4>2. Wrap(a) # Wrap(b)
          BY <4>1, WrapApart
        <4> QED
          BY <4>2 DEF a, b
      <3> QED
        BY <3>1, <3>2, <3>3, <3>6, <3>9
    <2>2. CASE ServeAlarm
      BY <1>1, <2>2 DEF ServeAlarm, AlarmInv, AlarmTypes
    <2>3. CASE ~Tick /\ ~ServeAlarm
      <3>1. UNCHANGED compare
        BY <1>1, <2>3 DEF Next, on_interrupt, EnterInterrupt, ServeOvrflw, ServeMid, ServePeriod,
           ServeTrigger, LeaveInterrupt, ReadPeriod, ReadCounter, SetAlarm, WriteAlarm, hwVars
      <3> QED
        BY <1>1, <3>1
    <2> QED
      BY <2>1, <2>2, <2>3
  <1>2. ClockInv /\ AlarmInv /\ ClockInv' /\ [Next]_vars =>
          [\A n \in Alarms :
             ~compare[n] /\ compare'[n] /\ timestamp[n] # Never /\ ~(setter.busy /\ setter.n = n)
             => timestamp[n] <= Time']_vars
    BY <1>1
  <1> QED
    BY <1>2, AlarmInvariant, PTL DEF Spec, MatchIsDue
-----------------------------------------------------------------------------
(* The clock of the STM32, whose overflow has no interrupt.                *)

\* Although no interrupt comes for an overflow, no half-period is lost: the count lags by
\* the boundaries whose flags are set, and now() is right but for the moments after the
\* counter's midpoint, when it is one lap behind.  The error does not add up
\* (rtc.rs:94-121).
NowErrsByOneLap ==
    /\ q = period + Late
    /\ \A p \in {period} \cup (IF reader.busy THEN {reader.period} ELSE {}) :
          \/ calc_now(p, Counter) = Time
          \/ /\ calc_now(p, Counter) = Time - 2 * Half
             /\ q % 2 = 1 /\ off <= 2 * Latency + ReadTime

\* The midpoint's interrupt is enabled: a midpoint that was not counted is recent.
StmMidRecent ==
    /\ mid \/ isr = "mid_next" => q % 2 = 1 /\ off <= waited + Latency
    /\ mid /\ isr \in {"mid_next", "alarms", "trigger"} => off <= waited

\* An overflow that was not counted waits for another interrupt, which is that of the
\* midpoint at the latest.
StmOvrflwWaits ==
    /\ q % 2 = 1 /\ (ovrflw \/ isr = "ovrflw_next") => mid
    /\ ovrflw /\ isr \in {"ovrflw_next", "mid", "mid_next", "alarms", "trigger"} =>
         q % 2 = 0 /\ off <= waited

\* The half-period that now() has read is at most two behind, and if it is two, or one
\* after the midpoint, the midpoint is recent.
StmReader ==
    reader.busy =>
        \/ q = reader.period
        \/ q = reader.period + 1 /\ q % 2 = 0
        \/ /\ q = reader.period + 1 \/ q = reader.period + 2
           /\ q % 2 = 1 /\ off <= 2 * Latency + reader.ticks

\* The inductive invariant of the STM32's clock.
StmInv ==
    /\ ClockTypes /\ q = period + Late /\ OneBoundary
    /\ StmMidRecent /\ StmOvrflwWaits /\ StmReader

\* Of two numbers that follow each other one is even.
LEMMA Parity ==
    ASSUME NEW p \in Nat
    PROVE  (p % 2 = 0 \/ p % 2 = 1) /\ ((p + 1) % 2 = 0 <=> p % 2 = 1)
  OBVIOUS

\* A tick raises the flag of the boundary that it crosses; it was not set before.
LEMMA StmTickClock ==
    ASSUME StmInv, StmTick
    PROVE  StmInv'
  <1> USE RtcAssumption DEF StmInv, ClockTypes
  <1>1. mid \/ isr # "idle" => StmInterrupting
    BY DEF StmInterrupting, StmPending
  <1>2. /\ q' \in Nat /\ off' \in 0..(Half - 1)
        /\ off' = 0 => off = Half - 1 /\ q' = q + 1
        /\ off' # 0 => off' = off + 1 /\ q' = q
    <2>1. /\ q' = IF off = Half - 1 THEN q + 1 ELSE q
          /\ off' = IF off = Half - 1 THEN 0 ELSE off + 1
      BY DEF StmTick
    <2> QED
      BY <2>1
  <1>3. /\ Counter' = 0 <=> q' % 2 = 0 /\ off' = 0
        /\ Counter' = Half <=> q' % 2 = 1 /\ off' = 0
    <2> HIDE DEF StmInv
    <2> QED
      BY <1>2, CounterBoundary DEF Counter
  <1>4. /\ ovrflw' <=> ovrflw \/ Counter' = 0
        /\ mid' <=> mid \/ Counter' = Half
        /\ ovrflw' \in BOOLEAN /\ mid' \in BOOLEAN
        /\ UNCHANGED <<period, isr>>
        /\ waited' = IF StmInterrupting THEN waited + 1 ELSE 0
        /\ StmInterrupting => waited < Latency
        /\ reader.busy => reader.ticks < ReadTime
        /\ reader' = IF reader.busy THEN [reader EXCEPT !.ticks = @ + 1] ELSE reader
    BY DEF StmTick
  <1>5. /\ reader'.busy = reader.busy /\ reader'.period = reader.period
        /\ reader.busy => reader'.ticks = reader.ticks + 1
        /\ ~reader.busy => reader'.ticks = reader.ticks
    BY <1>4
  <1>6. ClockTypes'
    BY <1>2, <1>4, <1>5
  <1>7. (q % 2 = 0 \/ q % 2 = 1) /\ (q' = q + 1 => (q' % 2 = 0 <=> q % 2 = 1))
        /\ (q' % 2 = 0 \/ q' % 2 = 1)
    <2>1. q \in Nat /\ q' \in Nat
      BY <1>2
    <2> HIDE DEF StmInv, ClockTypes
    <2> QED
      BY <2>1, Parity
  <1>8. CASE off' = 0
    <2>1. ~mid /\ isr # "mid_next" /\ (q % 2 = 1 => ~ovrflw /\ isr # "ovrflw_next")
      BY <1>2, <1>7, <1>8 DEF StmMidRecent, StmOvrflwWaits
    <2>2. Late' = Late + 1 /\ OneBoundary'
      <3>1. CASE q % 2 = 1
        BY <1>2, <1>3, <1>4, <1>7, <1>8, <2>1, <3>1 DEF Late, OneBoundary
      <3>2. CASE q % 2 = 0
        BY <1>2, <1>3, <1>4, <1>7, <1>8, <2>1, <3>2 DEF Late, OneBoundary
      <3> QED
        BY <1>7, <3>1, <3>2
    <2>3. (q + 1 = period + (Late + 1))
      BY DEF Late
    <2>4. StmMidRecent'
      BY <1>2, <1>3, <1>4, <1>6, <1>7, <1>8, <2>1 DEF StmMidRecent
    <2>5. StmOvrflwWaits'
      <3>1. ovrflw /\ isr \in {"ovrflw_next", "mid", "mid_next", "alarms", "trigger"} => FALSE
        BY <1>2, <1>8 DEF StmOvrflwWaits
      <3> QED
        BY <1>2, <1>3, <1>4, <1>6, <1>7, <1>8, <2>1, <3>1 DEF StmOvrflwWaits
    <2>6. StmReader'
      BY <1>2, <1>4, <1>5, <1>6, <1>7, <1>8 DEF StmReader
    <2> QED
      BY <1>2, <1>4, <1>6, <1>8, <2>2, <2>3, <2>4, <2>5, <2>6
  <1>9. CASE off' # 0
    <2>1. ovrflw' = ovrflw /\ mid' = mid
      BY <1>3, <1>4, <1>9
    <2>2. Late' = Late /\ OneBoundary'
      BY <1>4, <2>1 DEF Late, OneBoundary
    <2>3. StmMidRecent'
      BY <1>1, <1>2, <1>4, <1>9, <2>1 DEF StmMidRecent
    <2>4. StmOvrflwWaits'
      BY <1>1, <1>2, <1>4, <1>9, <2>1 DEF StmOvrflwWaits
    <2>5. StmReader'
      BY <1>2, <1>4, <1>5, <1>9 DEF StmReader
    <2> QED
      BY <1>2, <1>4, <1>6, <1>9, <2>2, <2>3, <2>4, <2>5
  <1> QED
    BY <1>8, <1>9

\* Every other step leaves the counter alone.
LEMMA StmDriverClock ==
    ASSUME StmInv, StmNext, ~StmTick
    PROVE  StmInv'
  <1> USE RtcAssumption DEF StmInv, ClockTypes, hwVars
  <1>1. CASE StmEnterInterrupt
    BY <1>1 DEF StmEnterInterrupt, EnterInterrupt, Late, OneBoundary, StmMidRecent,
       StmOvrflwWaits, StmReader
  <1>2. CASE StmServeOvrflw
    BY <1>2 DEF StmServeOvrflw, ServeOvrflw, Late, OneBoundary, StmMidRecent, StmOvrflwWaits,
       StmReader
  <1>3. CASE StmServeMid
    <2>1. /\ isr = "mid" /\ isr' = (IF mid THEN "mid_next" ELSE "alarms") /\ mid' = FALSE
          /\ UNCHANGED <<q, off, ovrflw, period, waited, reader>>
      BY <1>3 DEF StmServeMid, ServeMid
    <2>2. ClockTypes' /\ Late' = Late /\ OneBoundary'
      BY <2>1 DEF Late, OneBoundary
    <2>3. StmMidRecent' /\ StmReader'
      BY <2>1 DEF StmMidRecent, StmReader
    <2>4. ovrflw => q % 2 = 0 /\ off <= waited
      BY <2>1 DEF StmOvrflwWaits
    <2>5. StmOvrflwWaits'
      BY <2>1, <2>4 DEF StmOvrflwWaits
    <2> QED
      BY <2>1, <2>2, <2>3, <2>5
  <1>4. CASE StmServePeriod
    <2>1. period' = period + 1
      BY <1>4 DEF StmServePeriod, ServePeriod, next_period
    <2> QED
      BY <1>4, <2>1 DEF StmServePeriod, ServePeriod, Late, OneBoundary, StmMidRecent,
         StmOvrflwWaits, StmReader
  <1>5. CASE StmServeAlarm \/ StmServeTrigger
    BY <1>5 DEF StmServeAlarm, StmServeTrigger, ServeAlarm, ServeTrigger, Late, OneBoundary,
       StmMidRecent, StmOvrflwWaits, StmReader
  <1>6. CASE StmLeaveInterrupt
    BY <1>6 DEF StmLeaveInterrupt, LeaveInterrupt, Late, OneBoundary, StmMidRecent,
       StmOvrflwWaits, StmReader
  <1>7. CASE StmReadPeriod
    <2>1. /\ reader' = [busy |-> TRUE, period |-> period, ticks |-> 0]
          /\ UNCHANGED <<q, off, ovrflw, mid, period, isr, waited>>
      BY <1>7 DEF StmReadPeriod, ReadPeriod
    <2>2. \/ q = period
          \/ q = period + 1 /\ q % 2 = 0
          \/ (q = period + 1 \/ q = period + 2) /\ q % 2 = 1 /\ off <= 2 * Latency
      BY DEF Late, StmMidRecent, StmOvrflwWaits
    <2> QED
      BY <2>1, <2>2 DEF Late, OneBoundary, StmMidRecent, StmOvrflwWaits, StmReader
  <1>8. CASE StmReadCounter
    BY <1>8 DEF StmReadCounter, ReadCounter, NoReader, Late, OneBoundary, StmMidRecent,
       StmOvrflwWaits, StmReader
  <1>9. CASE \E n \in Alarms, ts \in 0..Never : StmSetAlarm(n, ts)
    BY <1>9 DEF StmSetAlarm, SetAlarm, Late, OneBoundary, StmMidRecent, StmOvrflwWaits, StmReader
  <1>10. CASE StmWriteAlarm
    BY <1>10 DEF StmWriteAlarm, WriteAlarm, Late, OneBoundary, StmMidRecent, StmOvrflwWaits,
       StmReader
  <1> QED
    BY <1>1, <1>2, <1>3, <1>4, <1>5, <1>6, <1>7, <1>8, <1>9, <1>10 DEF StmNext

\* calc_now of a period two behind, after the midpoint, is a lap behind.
LEMMA CalcNowLapBehind ==
    ASSUME NEW p \in Nat, q \in Nat, off \in 0..(Half - 1), q = p + 2, q % 2 = 1
    PROVE  calc_now(p, Counter) = Time - 2 * Half
  <1>1. Half \in Nat /\ Half > 6
    BY RtcAssumption
  <1>2. Counter = Half + off
    BY CounterBoundary DEF Counter
  <1>3. (p + 2) * Half = p * Half + 2 * Half /\ p * Half \in Int
    BY <1>1
  <1>4. p % 2 = 1
    OBVIOUS
  <1>5. calc_now(p, Counter) = p * Half + off
    BY <1>1, <1>2, <1>4 DEF calc_now, TimeOf
  <1>6. Time = (p + 2) * Half + off
    BY DEF Time, TimeOf
  <1> HIDE DEF Time
  <1> QED
    BY <1>1, <1>3, <1>5, <1>6

\* THEOREM.  Whatever the length of a half-period, and although the overflow interrupts
\* nobody: the STM32's count of half-periods loses none, and now() is exact but right after
\* the midpoint of the counter, when it may be one lap behind, never more
\* (embassy-stm32/src/rtc.rs:94-121).
THEOREM StmErrsByOneLap == StmSpec => []NowErrsByOneLap
  <1>1. StmInit => StmInv
    <2> SUFFICES ASSUME StmInit PROVE StmInv
      OBVIOUS
    <2> USE RtcAssumption
    <2>1. /\ q = 0 /\ off = 0 /\ ~ovrflw /\ ~mid /\ period = 0 /\ waited = 0 /\ isr = "idle"
          /\ ovrflw \in BOOLEAN /\ mid \in BOOLEAN /\ reader = NoReader
      BY DEF StmInit, Init
    <2>2. ClockTypes
      BY <2>1 DEF ClockTypes, NoReader
    <2> QED
      BY <2>1, <2>2 DEF StmInv, Late, OneBoundary, StmMidRecent, StmOvrflwWaits, StmReader, NoReader
  <1>2. StmInv /\ [StmNext]_vars => StmInv'
    <2>1. StmInv /\ UNCHANGED vars => StmInv'
      BY DEF vars, hwVars, StmInv, ClockTypes, Late, OneBoundary, StmMidRecent, StmOvrflwWaits,
         StmReader
    <2> QED
      BY <2>1, StmTickClock, StmDriverClock
  <1>3. StmInv => NowErrsByOneLap
    <2> SUFFICES ASSUME StmInv PROVE NowErrsByOneLap
      OBVIOUS
    <2>1. /\ q \in Nat /\ off \in 0..(Half - 1) /\ period \in Nat
          /\ reader.busy => reader.period \in Nat
          /\ Latency \in Nat /\ ReadTime \in Nat /\ waited \in 0..Latency
          /\ reader.busy => reader.ticks \in 0..ReadTime
      BY RtcAssumption DEF StmInv, ClockTypes
    <2>2. ASSUME NEW p \in {period} \cup (IF reader.busy THEN {reader.period} ELSE {})
          PROVE  \/ q = p \/ q = p + 1
                 \/ q = p + 2 /\ q % 2 = 1 /\ off <= 2 * Latency + ReadTime
      <3>1. CASE p = period
        BY <2>1, <3>1 DEF StmInv, Late, StmMidRecent, StmOvrflwWaits
      <3>2. CASE reader.busy /\ p = reader.period
        BY <2>1, <3>2 DEF StmInv, StmReader
      <3> QED
        BY <2>2, <3>1, <3>2
    <2>3. ASSUME NEW p \in {period} \cup (IF reader.busy THEN {reader.period} ELSE {})
          PROVE  \/ calc_now(p, Counter) = Time
                 \/ /\ calc_now(p, Counter) = Time - 2 * Half
                    /\ q % 2 = 1 /\ off <= 2 * Latency + ReadTime
      <3>1. p \in Nat
        BY <2>1, <2>3
      <3>2. CASE q = p \/ q = p + 1
        BY <2>1, <3>1, <3>2, CalcNowExact
      <3>3. CASE q = p + 2 /\ q % 2 = 1 /\ off <= 2 * Latency + ReadTime
        BY <2>1, <3>1, <3>3, CalcNowLapBehind
      <3> QED
        BY <2>2, <2>3, <3>2, <3>3
    <2> QED
      BY <2>3 DEF StmInv, NowErrsByOneLap
  <1> QED
    BY <1>1, <1>2, <1>3, PTL DEF StmSpec
=============================================================================
