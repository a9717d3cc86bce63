SPECIFICATION CacheSpec
CONSTANTS
  Words = 3
  Byte = {0, 1}
  Zero = 0
  Accesses <- MCAligned
  Data <- MCOne
  Images <- MCImages
  Lines = 2
  CacheTypes = {"DIRECTMAPPING"}
PROPERTIES
  HitIsHeld
