SPECIFICATION Spec
CONSTANTS
  SIZE_T_BITSIZE = 16
  PageSize = 128
  NSMALLBINS = 8
  NTREEBINS = 4
  TREEBIN_SHIFT = 6
  TrimThreshold = 200
  HeapBase = 128
  Boots <- MCBoots
  Requests <- MCRequests
  CallocInputs <- MCCallocInputs
  AlignInputs <- MCAlignInputs
  ElementLists <- MCElementLists
  Params <- MCParams
  Pads = {0}
  MaxLive <- MCMaxLive
  MaxSpecial <- MCMaxSpecial
INVARIANTS TypeOK ChunksTile BinsExact LiveBlocks GrowsOnlyWhenNothingFits BestFit BreakInStep
