SPECIFICATION Spec
CONSTANTS
  Cells = {dma0, dma1}
  Words = {{dma0, dma1}, {dma1}}
  Restorable = {dma0, dma1}
  Capacity = 4
  Batch = 1
  MaxWrites = 6
INVARIANTS
  TypeOK
  GapsAreCounted
PROPERTIES
  MirrorOnlyLags
  RenderedFramesAreComplete
