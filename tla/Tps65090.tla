------------------------------ MODULE Tps65090 ------------------------------
(***************************************************************************)
(* The TPS65090 PMU driver of src/common/pmu_tps65090.c: every function   *)
(* is a read, a write or a read-modify-write of an 8-bit register of the  *)
(* PMU over I2C.  The PMU's registers are a function from address to      *)
(* byte.  Every bus transfer either succeeds or fails; a driver function  *)
(* takes the outcomes of its transfers, in order, as a tuple of booleans  *)
(* and returns a record: ok (it returned EC_SUCCESS), the registers       *)
(* after it, and the value it produced.  A failed transfer returns its    *)
(* error at once, except where the code ignores the result.               *)
(***************************************************************************)
EXTENDS Integers

CONSTANT
  ByteSamples   \* register contents the setters are checked from

(* Register addresses. *)
IRQ1_REG == 0
IRQ2_REG == 1
IRQ1MASK == 2
IRQ2MASK == 3
CG_CTRL0 == 4
CG_CTRL1 == 5
CG_CTRL3 == 7
CG_CTRL5 == 9
CG_STATUS1 == 10
TPSCHROME_VER == 25

Regs == (IRQ1_REG .. 11) \cup {TPSCHROME_VER}

(* Register bits. *)
CG_CTRL0_EN == 1
CG_VSET_SHIFT == 3
CG_VSET_MASK == 3 * 2^CG_VSET_SHIFT
CG_ISET_SHIFT == 0
CG_ISET_MASK == 7 * 2^CG_ISET_SHIFT
CG_NOITERM == 2^5
EVENT_VACG == 2^1
EVENT_VBATG == 2^3
CHARGER_ALARM == 3

(* enum TPS_TEMPERATURE_RANGE (T01 .. T40), TPS_TERMINATION_CURRENT       *)
(* (I0000 .. I1000) and TPS_TERMINATION_VOLTAGE (V2000 .. V2100), in the  *)
(* order the driver's comments list them.                                 *)
TempRanges == 0 .. 4
TermCurrents == 0 .. 7
TermVoltages == 0 .. 3

(* C's & and | on the driver's values, which fit in 16 bits (a register  *)
(* byte, or the two IRQ bytes of an event).  They are written as sums of *)
(* bit products without recursion, so that TLC evaluates a constant-level *)
(* formula built from them once rather than in every state.              *)
Bit(x, i) == (x \div 2^i) % 2

Word(b(_)) ==
  LET t(i) == 2^i * b(i)
  IN t(0) + t(1) + t(2) + t(3) + t(4) + t(5) + t(6) + t(7) + t(8) + t(9)
       + t(10) + t(11) + t(12) + t(13) + t(14) + t(15)

x & y == Word(LAMBDA i : Bit(x, i) * Bit(y, i))

x | y == Word(LAMBDA i : 1 - (1 - Bit(x, i)) * (1 - Bit(y, i)))

(* C's x & ~m clears the bits of m whatever the width of x.               *)
ClearBits(x, m) == x - (x & m)

Result(ok, regs, val) == [ok |-> ok, regs |-> regs, val |-> val]

(* pmu_read and pmu_write: one i2c_read8 or i2c_write8 transfer.  A write *)
(* sends the low byte of its value.                                        *)
pmu_read(regs, reg, ok) == Result(ok, regs, IF ok THEN regs[reg] ELSE 0)

pmu_write(regs, reg, v, ok) ==
  Result(ok, IF ok THEN [regs EXCEPT ![reg] = v % 256] ELSE regs, 0)

pmu_version(regs, ok) == pmu_read(regs, TPSCHROME_VER, ok)

pmu_clear_irq(regs, ok) == pmu_write(regs, IRQ1_REG, 0, ok)

(* pmu_get_event: clears IRQ1 (result ignored), then reads IRQ1 and IRQ2;  *)
(* ok = <<clear, read IRQ1, read IRQ2>>.                                   *)
pmu_get_event(regs, ok) ==
  LET c == pmu_clear_irq(regs, ok[1])
      r1 == pmu_read(c.regs, IRQ1_REG, ok[2])
      r2 == pmu_read(c.regs, IRQ2_REG, ok[3])
  IN CASE ~r1.ok -> r1
       [] ~r2.ok -> r2
       [] OTHER -> Result(TRUE, c.regs, r1.val | (r2.val * 2^8))

pmu_get_power_source(regs, ok) ==
  LET e == pmu_get_event(regs, ok)
  IN IF ~e.ok THEN e
     ELSE Result(TRUE, e.regs, [ac_good |-> (e.val & EVENT_VACG) # 0,
                                battery_good |-> (e.val & EVENT_VBATG) # 0])

(* Slip: the read's return value tested the wrong way round (C's rv 0 is *)
(* success).                                                               *)
pmu_is_charger_alarmRvInverted(regs, ok) ==
  LET r == pmu_read(regs, CG_STATUS1, ok)
  IN ~r.ok /\ (r.val & CHARGER_ALARM) # 0

(* pmu_is_charger_alarm: a failed read counts as no alarm.                *)
pmu_is_charger_alarm(regs, ok) ==
  LET r == pmu_read(regs, CG_STATUS1, ok)
  IN r.ok /\ (r.val & CHARGER_ALARM) # 0

(* pmu_enable_charger; ok = <<read, write>>.  It returns at once when the *)
(* enable bit is already set, and the disabling write masks with ~CG_CTRL0,*)
(* the register's address, as the code does.                               *)
pmu_enable_charger(regs, enable, ok) ==
  LET r == pmu_read(regs, CG_CTRL0, ok[1])
  IN CASE ~r.ok -> r
       [] (r.val & CG_CTRL0_EN) # 0 -> Result(TRUE, regs, 0)
       [] enable -> pmu_write(regs, CG_CTRL0, r.val | CG_CTRL0_EN, ok[2])
       [] OTHER -> pmu_write(regs, CG_CTRL0, ClearBits(r.val, CG_CTRL0), ok[2])

(* Slip: the field's old bits are not cleared before the new ones are or-ed in. *)
SetFieldNoClear(regs, reg, mask, v, ok) ==
  LET r == pmu_read(regs, reg, ok[1])
  IN IF ~r.ok THEN r ELSE pmu_write(regs, reg, r.val | v, ok[2])

(* A read-modify-write of one field of a register; ok = <<read, write>>.   *)
SetField(regs, reg, mask, v, ok) ==
  LET r == pmu_read(regs, reg, ok[1])
  IN IF ~r.ok THEN r ELSE pmu_write(regs, reg, ClearBits(r.val, mask) | v, ok[2])

pmu_set_term_current(regs, range, current, ok) ==
  SetField(regs, CG_CTRL1 + range, CG_ISET_MASK, current * 2^CG_ISET_SHIFT, ok)

pmu_set_term_voltage(regs, range, voltage, ok) ==
  SetField(regs, CG_CTRL1 + range, CG_VSET_MASK, voltage * 2^CG_VSET_SHIFT, ok)

pmu_low_current_charging(regs, enable, ok) ==
  SetField(regs, CG_CTRL5, CG_NOITERM, IF enable THEN CG_NOITERM ELSE 0, ok)

(* pmu_init without CONFIG_PMU_BOARD_INIT: four writes whose results are  *)
(* ignored; ok gives the outcome of each.  Returns the registers after.   *)
pmu_init(regs, ok) ==
  LET w1 == pmu_write(regs, CG_CTRL0, 2, ok[1])
      w2 == pmu_write(w1.regs, CG_CTRL3, 187, ok[2])
      w3 == pmu_write(w2.regs, IRQ1MASK, 255, ok[3])
  IN pmu_write(w3.regs, IRQ2MASK, 255, ok[4]).regs

-----------------------------------------------------------------------------
(* The register files the setters are checked from: every register holds *)
(* the same sample byte, or each its own.                                 *)
RegFiles ==
  {[a \in Regs |-> b] : b \in ByteSamples} \cup {[a \in Regs |-> (a * 37) % 256]}

(* A setter of field mask of register reg to v did what it was asked and *)
(* nothing else: on success the field holds v and every other bit of     *)
(* every register is as before; when a transfer failed nothing changed.  *)
SetterConfined(regs, reg, mask, v, res) ==
  IF res.ok
  THEN /\ (res.regs[reg] & mask) = v
       /\ ClearBits(res.regs[reg], mask) = ClearBits(regs[reg], mask)
       /\ \A a \in Regs \ {reg} : res.regs[a] = regs[a]
  ELSE res.regs = regs

(* The read-modify-write setters of the driver (pmu_set_term_current and *)
(* pmu_set_term_voltage for every temperature range, including T40 whose *)
(* register CG_CTRL5 also holds CG_NOITERM, pmu_low_current_charging and *)
(* pmu_enable_charger(1)), started from the register file regs, change   *)
(* exactly their own field whichever transfer fails.                      *)
ConfinedFrom(regs) ==
  \A ok \in BOOLEAN \X BOOLEAN :
    /\ \A rg \in TempRanges, c \in TermCurrents :
         SetterConfined(regs, CG_CTRL1 + rg, CG_ISET_MASK, c * 2^CG_ISET_SHIFT,
                        pmu_set_term_current(regs, rg, c, ok))
    /\ \A rg \in TempRanges, v \in TermVoltages :
         SetterConfined(regs, CG_CTRL1 + rg, CG_VSET_MASK, v * 2^CG_VSET_SHIFT,
                        pmu_set_term_voltage(regs, rg, v, ok))
    /\ \A e \in BOOLEAN :
         SetterConfined(regs, CG_CTRL5, CG_NOITERM, IF e THEN CG_NOITERM ELSE 0,
                        pmu_low_current_charging(regs, e, ok))
    /\ SetterConfined(regs, CG_CTRL0, CG_CTRL0_EN, CG_CTRL0_EN,
                      pmu_enable_charger(regs, TRUE, ok))

=============================================================================
