SPECIFICATION KbSpec
CONSTANTS
  Keys = {12, 13}
  Modifiers = {55, 56, 60}
  Buttons = {1}
  MaskOf <- MCMaskOf
  MaxQueue = 2
  KeysymTab <- MCTable
  Keycodes = {12, 13, 55, 56, 60, 70, 82}
  Layouts <- MCLayouts
  NoLayout = none
  ServerMap <- MCServerMap
  ServerMods <- MCServerMods
  MaxEvents = 5
  MaxRuns = 2
INVARIANT KbTypeOK
INVARIANT NoStuckKey
INVARIANT ModifiersAgree
INVARIANT ModifiersWork
INVARIANT MapsFit
PROPERTY GlyphsInstalled
CHECK_DEADLOCK FALSE
