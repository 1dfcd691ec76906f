CONSTANTS
  Versions <- MCVersions
  Firmware <- MCFirmware
  FifoDepth = 2
  Width = 7
  Height = 5
  Stride = 32
  GlyphWidth = 3
  GlyphHeight = 2
  Font <- MCFont
  GlyphCount = 3
  Newline = 1
  Cpu = {1, 2}
  Texts <- MCTexts
  PanicText <- MCPanicText
  MaxPrints = 1
SPECIFICATION OutputSpec
INVARIANT ReservedMasked
