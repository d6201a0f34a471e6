SPECIFICATION Spec
CONSTANTS
  Docs <- MCDocs
  Text <- MCText
  Glued <- MCGlued
  Encoders = {"encoding/json", "ffjson"}
INVARIANTS
  TypeOK
  ReadByTags
  CutLineIsBlanked
  SurvivesEncoding
  
