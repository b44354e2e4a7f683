----------------------------- MODULE PmuCharger -----------------------------
(***************************************************************************)
(* The charging task of src/common/pmu_tps65090_charger.c: each pass of   *)
(* pmu_charger_task's loop runs calc_next_state on the current state,     *)
(* which reads the AC detect pins, the chipset state and the smart        *)
(* battery, drives GPIO_CHARGER_EN and may turn the system off.            *)
(*                                                                         *)
(* The world (AC, power button, battery) changes between passes.  Within  *)
(* one pass each battery read either answers with the battery's current   *)
(* value or fails: always when the battery does not respond, and at       *)
(* random when the bus is flaky (I2CFlaky).  The usleep calls only space  *)
(* the passes out in time.                                                 *)
(*                                                                         *)
(* The task also drives the PMU through the driver of Tps65090: it runs   *)
(* pmu_init once before its loop, and the charging state asks            *)
(* pmu_is_charger_alarm, which reads CG_STATUS1.  The PMU's status bits   *)
(* and whether it answers on the bus are the world's.                     *)
(***************************************************************************)
EXTENDS Integers, Tps65090

CONSTANTS
  Temps,        \* battery temperatures the battery may report, in 0.1 K
  Charges,      \* relative states of charge the battery may report, in %
  AlarmBits,    \* alarm flags the battery may raise (ALARM_* of smart_battery.h)
  I2CFlaky,     \* may a transfer with a responding device fail?
  Status1Values \* contents CG_STATUS1 may take

(* enum charging_state *)
ST_NONE == 0
ST_IDLE == 1
ST_PRE_CHARGING == 2
ST_CHARGING == 3
ST_DISCHARGING == 4

(* The alarm flags as names; a bit test (alarm & MASK) is an intersection. *)
ALARM_CHARGING == {"TERMINATE_CHARGE", "OVER_CHARGED", "OVER_TEMP"}
ALARM_DISCHARGING == {"TERMINATE_DISCHARGE", "OVER_TEMP"}

VARIABLES
  state,          \* the task's charging state
  charger_en,     \* GPIO_CHARGER_EN
  ac,             \* get_ac(): GPIO_AC_PWRBTN_L and GPIO_KB_PWR_ON_L both high
  chipset_on,     \* chipset_in_state(CHIPSET_STATE_ON)
  batt_ok,        \* the battery answers on the bus
  batt_temp,      \* the battery's temperature
  batt_alarm,     \* the battery's alarm flags
  batt_charge,    \* the battery's relative state of charge
  pmu_reg,        \* the PMU's registers
  pmu_ok          \* the PMU answers on the bus

vars == <<state, charger_en, ac, chipset_on, batt_ok, batt_temp, batt_alarm,
          batt_charge, pmu_reg, pmu_ok>>

(* battery_temperature_celsius: C division truncates toward zero.         *)
CDiv(a, b) == IF a >= 0 THEN a \div b ELSE -((-a) \div b)
battery_temperature_celsius(t) == CDiv(t - 2731, 10)

battery_start_charging_range(t) ==
  LET c == battery_temperature_celsius(t) IN c > 5 /\ c < 40

battery_charging_range(t) ==
  LET c == battery_temperature_celsius(t) IN c > 5 /\ c < 60

battery_discharging_range(t) ==
  LET c == battery_temperature_celsius(t) IN c < 70

(* The reads of one pass: each answers with the battery's current value  *)
(* (tok, sok, cok: the read returned 0) or fails.                         *)
(* chg_alarm is what pmu_is_charger_alarm returns in this pass.            *)
Outcomes(answers) == IF ~answers THEN {FALSE} ELSE IF I2CFlaky THEN BOOLEAN ELSE {TRUE}

ReadOutcomes == Outcomes(batt_ok)

PmuOutcomes == Outcomes(pmu_ok)

PossibleReads ==
  {[tok |-> a, temp |-> batt_temp, sok |-> b, status |-> batt_alarm,
    cok |-> c, charge |-> batt_charge,
    chg_alarm |-> pmu_is_charger_alarm(pmu_reg, p)] :
      a, b, c \in ReadOutcomes, p \in PmuOutcomes}

(* The waits sleep T1, T2 or T3 and return a state; the sleeps only space *)
(* the passes out in time.                                                 *)
wait_t1_idle == ST_IDLE
wait_t2_charging == ST_CHARGING
wait_t3_discharging == ST_DISCHARGING

(* notify_battery_low: logs at most once a minute while the AP is on.      *)
notify_battery_low == ST_DISCHARGING

(* The outcome of calc_next_state: the next state, the charger enable,    *)
(* and whether system_off powered the chipset down.                       *)
Out(st, en, off) == [st |-> st, en |-> en, off |-> off]

(* Slip: system_off without its return of wait_t1_idle(), i.e. ST_NONE.   *)
SystemOffNoWait(en) == Out(ST_NONE, en, chipset_on)

(* system_off, then wait_t1_idle.                                          *)
SystemOff(en) == Out(wait_t1_idle, en, chipset_on)

(* Slip: no enable_charging(1) for a battery that does not answer.        *)
IdleNextNoEnable(r) ==
  CASE ~ac /\ chipset_on -> Out(ST_DISCHARGING, charger_en, FALSE)
    [] ~ac -> Out(wait_t1_idle, TRUE, FALSE)
    [] ~r.tok -> Out(ST_PRE_CHARGING, charger_en, FALSE)
    [] ~battery_start_charging_range(r.temp) -> Out(wait_t1_idle, FALSE, FALSE)
    [] ~r.sok \/ r.status \cap ALARM_CHARGING # {} -> Out(wait_t1_idle, FALSE, FALSE)
    [] r.cok /\ r.charge < 100 -> Out(ST_CHARGING, TRUE, FALSE)
    [] OTHER -> Out(wait_t1_idle, charger_en, FALSE)

(* case ST_IDLE.                                                           *)
IdleNext(r) ==
  CASE ~ac /\ chipset_on -> Out(ST_DISCHARGING, charger_en, FALSE)
    [] ~ac -> Out(wait_t1_idle, TRUE, FALSE)
    [] ~r.tok -> Out(ST_PRE_CHARGING, TRUE, FALSE)
    [] ~battery_start_charging_range(r.temp) -> Out(wait_t1_idle, FALSE, FALSE)
    [] ~r.sok \/ r.status \cap ALARM_CHARGING # {} -> Out(wait_t1_idle, FALSE, FALSE)
    [] r.cok /\ r.charge < 100 -> Out(ST_CHARGING, TRUE, FALSE)
    [] OTHER -> Out(wait_t1_idle, charger_en, FALSE)

(* case ST_PRE_CHARGING.                                                   *)
PreChargingNext(r) ==
  CASE ~ac -> Out(wait_t1_idle, charger_en, FALSE)
    [] r.tok -> Out(ST_CHARGING, charger_en, FALSE)
    [] OTHER -> Out(ST_PRE_CHARGING, charger_en, FALSE)

(* case ST_CHARGING: a break leads to the final wait_t1_idle.             *)
ChargingNext(r) ==
  CASE ~ac -> Out(wait_t1_idle, charger_en, FALSE)
    [] ~r.tok \/ ~battery_charging_range(r.temp) -> Out(wait_t1_idle, FALSE, FALSE)
    [] ~r.sok \/ r.status \cap ALARM_CHARGING # {} -> Out(wait_t1_idle, FALSE, FALSE)
    [] r.chg_alarm -> Out(wait_t1_idle, FALSE, FALSE)
    [] OTHER -> Out(wait_t2_charging, charger_en, FALSE)

(* Slip: the AC check of the discharging state left out.                  *)
DischargingNextNoAc(r) ==
  CASE r.tok /\ ~battery_discharging_range(r.temp) -> SystemOff(FALSE)
    [] r.sok /\ r.status \cap ALARM_DISCHARGING # {} -> SystemOff(FALSE)
    [] r.cok /\ r.charge < 10 -> Out(notify_battery_low, charger_en, FALSE)
    [] OTHER -> Out(wait_t3_discharging, charger_en, FALSE)

(* case ST_DISCHARGING.                                                      *)
DischargingNext(r) ==
  CASE ac -> Out(wait_t1_idle, charger_en, FALSE)
    [] r.tok /\ ~battery_discharging_range(r.temp) -> SystemOff(FALSE)
    [] r.sok /\ r.status \cap ALARM_DISCHARGING # {} -> SystemOff(FALSE)
    [] r.cok /\ r.charge < 10 -> Out(notify_battery_low, charger_en, FALSE)
    [] OTHER -> Out(wait_t3_discharging, charger_en, FALSE)

(* calc_next_state.                                                        *)
calc_next_state(st, r) ==
  CASE st = ST_IDLE -> IdleNext(r)
    [] st = ST_PRE_CHARGING -> PreChargingNext(r)
    [] st = ST_CHARGING -> ChargingNext(r)
    [] st = ST_DISCHARGING -> DischargingNext(r)
    [] OTHER -> Out(wait_t1_idle, charger_en, FALSE)

-----------------------------------------------------------------------------
(* The PMU's registers at power-on, as far as the model tells them apart: *)
(* zero but for the status the hardware reports.                          *)
PowerOnRegs(s) == [[a \in Regs |-> 0] EXCEPT ![CG_STATUS1] = s]

(* pmu_charger_task runs pmu_init, each of whose writes reaches the PMU  *)
(* or not, and starts in ST_IDLE; the enable pin starts low (GPIO_OUT_LOW *)
(* in the board's GPIO table).  The world starts anywhere.                *)
Init ==
  /\ state = ST_IDLE
  /\ charger_en = FALSE
  /\ ac \in BOOLEAN
  /\ chipset_on \in BOOLEAN
  /\ batt_ok \in BOOLEAN
  /\ batt_temp \in Temps
  /\ batt_alarm \in SUBSET AlarmBits
  /\ batt_charge \in Charges
  /\ pmu_ok \in BOOLEAN
  /\ \E s \in Status1Values, ok \in [1 .. 4 -> PmuOutcomes] :
       pmu_reg = pmu_init(PowerOnRegs(s), ok)

(* One pass of the loop of pmu_charger_task.                               *)
ChargerPass ==
  \E r \in PossibleReads :
    LET o == calc_next_state(state, r)
    IN /\ state' = o.st
       /\ charger_en' = o.en
       /\ chipset_on' = (chipset_on /\ ~o.off)
       /\ UNCHANGED <<ac, batt_ok, batt_temp, batt_alarm, batt_charge, pmu_reg, pmu_ok>>

(* The world between passes: AC plugged or pulled, the AP powered on or   *)
(* off, the battery answering or not and changing what it reports.       *)
PlugAc == ac' = ~ac /\ UNCHANGED <<state, charger_en, chipset_on, batt_ok, batt_temp,
                                   batt_alarm, batt_charge, pmu_reg, pmu_ok>>
PowerButton == chipset_on' = ~chipset_on /\ UNCHANGED <<state, charger_en, ac, batt_ok,
                                   batt_temp, batt_alarm, batt_charge, pmu_reg, pmu_ok>>
(* One reading of the battery changes at a time; any change of several  *)
(* is a run of these with no pass in between.                             *)
BatteryChanges ==
  /\ \/ batt_ok' = ~batt_ok /\ UNCHANGED <<batt_temp, batt_alarm, batt_charge>>
     \/ batt_temp' \in Temps /\ UNCHANGED <<batt_ok, batt_alarm, batt_charge>>
     \/ \E b \in AlarmBits : /\ batt_alarm' = (batt_alarm \ {b}) \cup ({b} \ batt_alarm)
                             /\ UNCHANGED <<batt_ok, batt_temp, batt_charge>>
     \/ batt_charge' \in Charges /\ UNCHANGED <<batt_ok, batt_temp, batt_alarm>>
  /\ UNCHANGED <<state, charger_en, ac, chipset_on, pmu_reg, pmu_ok>>

(* The PMU starts or stops answering, or its charger status changes.      *)
PmuChanges ==
  /\ \/ pmu_ok' = ~pmu_ok /\ UNCHANGED pmu_reg
     \/ \E s \in Status1Values : /\ pmu_reg' = [pmu_reg EXCEPT ![CG_STATUS1] = s]
                                 /\ UNCHANGED pmu_ok
  /\ UNCHANGED <<state, charger_en, ac, chipset_on, batt_ok, batt_temp, batt_alarm,
                 batt_charge>>

World == PlugAc \/ PowerButton \/ BatteryChanges \/ PmuChanges

Next == ChargerPass \/ World

(* The task runs a pass every five seconds whatever the world does.       *)
Spec == Init /\ [][Next]_vars /\ WF_vars(ChargerPass)

-----------------------------------------------------------------------------
(* The PMU reports a charger alarm in CG_STATUS1.                          *)
ChargerAlarmRaised == (pmu_reg[CG_STATUS1] & CHARGER_ALARM) # 0

TypeOK ==
  /\ state \in {ST_IDLE, ST_PRE_CHARGING, ST_CHARGING, ST_DISCHARGING}
  /\ charger_en \in BOOLEAN
  /\ {ac, chipset_on, batt_ok, pmu_ok} \subseteq BOOLEAN
  /\ pmu_reg \in [Regs -> 0 .. 255]
  /\ batt_temp \in Temps
  /\ batt_alarm \subseteq AlarmBits
  /\ batt_charge \in Charges

(* While the task is in ST_CHARGING the charger is enabled: every way     *)
(* into ST_CHARGING (from ST_IDLE directly, or through ST_PRE_CHARGING    *)
(* after a battery that did not answer) has driven GPIO_CHARGER_EN high.  *)
ChargingImpliesEnabled ==
  state = ST_CHARGING => charger_en

(* A battery that can be charged gets charged: while AC is present and    *)
(* the battery answers, is in the start-charging range, raises no        *)
(* charging alarm, is below 100% and the charger raises no alarm, the     *)
(* task eventually reaches ST_CHARGING, from whichever state it is in.    *)
ChargeableBattery ==
  /\ ac /\ batt_ok /\ ~ChargerAlarmRaised
  /\ battery_start_charging_range(batt_temp)
  /\ batt_alarm \cap ALARM_CHARGING = {}
  /\ batt_charge < 100

ChargesWhenPossible ==
  ChargeableBattery ~> (state = ST_CHARGING \/ ~ChargeableBattery)

(* The register files the PMU can hold: after pmu_init, whichever of its *)
(* writes reached the PMU, with any status.                               *)
PmuRegFiles ==
  {[pmu_init(PowerOnRegs(s), ok) EXCEPT ![CG_STATUS1] = t] :
     s, t \in Status1Values, ok \in [1 .. 4 -> BOOLEAN]}

Confined == [f \in PmuRegFiles \cup RegFiles |-> ConfinedFrom(f)]

(* Had a caller used them, the PMU driver's register setters would change *)
(* exactly their own field from the registers the PMU holds now and from *)
(* every sample register file, whichever bus transfer fails; the field of *)
(* pmu_enable_charger(0) is left out: it returns success without clearing *)
(* an enable bit that is set (see the README).                            *)
SettersConfined == Confined[pmu_reg] /\ \A f \in RegFiles : Confined[f]

(* Composition of the task with the PMU driver: once the task is in      *)
(* ST_CHARGING while the PMU answers on a reliable bus and its CG_STATUS1 *)
(* reports a charger alarm, the task leaves ST_CHARGING (unless the PMU   *)
(* stops answering or the alarm clears first).  It needs pmu_init to      *)
(* leave CG_STATUS1 alone, pmu_is_charger_alarm to test the right bits,   *)
(* and every earlier check of the charging state to let the pass reach    *)
(* the alarm check or leave.                                              *)
AlarmReadable == pmu_ok /\ ~I2CFlaky /\ ChargerAlarmRaised

AlarmStopsCharging ==
  (state = ST_CHARGING /\ AlarmReadable) ~> (state # ST_CHARGING \/ ~AlarmReadable)

=============================================================================
