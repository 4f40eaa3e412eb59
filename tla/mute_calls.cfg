\* Two clients, one of which may die, and one of the unlocked global mute; a
\* stream and the radio keep the path open.
CONSTANTS
  Client = {c1, c2, n1}
  NoLocker = {n1}
  Nobody = Nobody
  Handle = {h1}
  LowHandle = {h1}
  Index = {h1}
  Value <- MuteValues
  Spurious = FALSE
  Crashers = {c1}
  ScriptFails = TRUE
SPECIFICATION FairSpec
INVARIANTS TypeOK PathFollowsAmps CodecFollowsFlag StreamFollowsRecord NoLockIsStranded
PROPERTIES ImplementsCall HandleLockComesBack
