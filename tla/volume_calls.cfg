\* One client that opens, two handles, the volume of calls and that of the system.
CONSTANTS
  Proc = {p1}
  HandleMax = 2
  Type = {"call", "system"}
  System = "system"
  MaxLen <- Lengths
  Default <- Defaults
  Saved <- Saves
  Device = {spk, headset}
  Speaker = spk
  NoTable = NoTable
  Modes = {"out", "video", "in"}
SPECIFICATION MCSpec
INVARIANTS TypeOK NoSoundBeforeTables HeardAsSet TableFollowsDevice
