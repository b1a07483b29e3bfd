------------------------------- MODULE StmRtc -------------------------------
(***************************************************************************)
(* The clock of embassy-stm32/src/rtc.rs, on a 16-bit timer.  The driver   *)
(* is that of the nRF almost line by line, and so is its state: `mid` is   *)
(* the flag of compare channel 0, `compare` those of channels 1 to 3.  The *)
(* timer is another one:                                                   *)
(*   - start enables the interrupt of channel 0 and set_alarm those of the *)
(*     others; none enables that of the overflow (the update event), which *)
(*     is served when another interrupt comes;                             *)
(*   - a channel's flag is set at its compare value whether or not its     *)
(*     interrupt is enabled;                                               *)
(*   - no match is missed.                                                 *)
(***************************************************************************)
EXTENDS Rtc

\* RTC::new and start(); the first period is 0 and every alarm is off.
StmInit == Init

-----------------------------------------------------------------------------
(* The timer.                                                              *)

\* The interrupts that DIER enables: compare_interrupt_status and
\* overflow_interrupt_status are read by the handler, which these call.
StmPending == mid \/ \E n \in Alarms : compare[n] /\ inten[n]

StmInterrupting == StmPending \/ isr # "idle"

\* The counter ticks.
StmTick ==
    /\ StmInterrupting => waited < Latency
    /\ reader.busy => reader.ticks < ReadTime
    /\ setter.busy => setter.ticks < 1
    /\ q = MaxPeriod => off < Half - 1
    /\ q' = IF off = Half - 1 THEN q + 1 ELSE q
    /\ off' = IF off = Half - 1 THEN 0 ELSE off + 1
    /\ ovrflw' = (ovrflw \/ Counter' = 0)
    /\ mid' = (mid \/ Counter' = Half)
    /\ compare' = [n \in Alarms |-> compare[n] \/ Counter' = cc[n]]
    /\ waited' = IF StmInterrupting THEN waited + 1 ELSE 0
    /\ reader' = IF reader.busy THEN [reader EXCEPT !.ticks = @ + 1] ELSE reader
    /\ setter' = IF setter.busy THEN [setter EXCEPT !.ticks = @ + 1] ELSE setter
    /\ UNCHANGED <<cc, missed, inten, period, timestamp, isr, scan>>

-----------------------------------------------------------------------------
(* The driver.                                                             *)

StmEnterInterrupt == StmPending /\ EnterInterrupt

\* on_interrupt, step by step.
StmServeOvrflw == ServeOvrflw
StmServeMid == ServeMid
StmServeAlarm == ServeAlarm
StmLeaveInterrupt == LeaveInterrupt

\* next_period, with a window of 0xc000.
StmServePeriod == ServePeriod /\ UNCHANGED missed

\* trigger_alarm
StmServeTrigger == ServeTrigger

\* now()
StmReadPeriod == ReadPeriod
StmReadCounter == ReadCounter

\* set_alarm, and Alarm::set and Alarm::clear, which call it.
StmSetAlarm(n, ts) == SetAlarm(n, ts)
StmWriteAlarm == WriteAlarm /\ UNCHANGED missed

StmNext ==
    \/ StmTick
    \/ StmEnterInterrupt \/ StmServeOvrflw \/ StmServeMid \/ StmServePeriod
    \/ StmServeAlarm \/ StmServeTrigger \/ StmLeaveInterrupt
    \/ StmReadPeriod \/ StmReadCounter
    \/ \E n \in Alarms, ts \in 0..Never : StmSetAlarm(n, ts)
    \/ StmWriteAlarm

StmSpec == StmInit /\ [][StmNext]_vars

\* rtc.rs:22, "This allows for now() to return the correct value even if it races an
\* overflow.": a call of now() returns the time at which it reads the counter.
NowSurvivesOverflow == reader.busy => calc_now(reader.period, Counter) = Time
=============================================================================
