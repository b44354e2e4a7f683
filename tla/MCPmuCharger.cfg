CONSTANTS
  Temps <- TempSamples
  Charges = {5, 50, 100}
  AlarmBits = {"TERMINATE_CHARGE", "OVER_TEMP", "TERMINATE_DISCHARGE"}
  I2CFlaky = FALSE
  Status1Values = {0, 2, 4}
  ByteSamples = {0, 90, 165, 255}
SPECIFICATION Spec
INVARIANT TypeOK
INVARIANT ChargingImpliesEnabled
PROPERTY ChargesWhenPossible
PROPERTY AlarmStopsCharging
INVARIANT SettersConfined
