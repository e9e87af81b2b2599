CONSTANTS
  GateLength = 3
  MaxEvents = 2
SPECIFICATION GateFairSpec
PROPERTIES StopHolds GatesEnd OnsetPulses
