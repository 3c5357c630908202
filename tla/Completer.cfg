CONSTANTS
  sig_size = 2
  http_lng = 2
  max_valid_size = 2
  max_transfers = 4
  BufferSize = 12
  Types <- MCTypes
  PacketLists <- MCPacketLists
  Memories <- MCMemories
SPECIFICATION CompleterSpec
INVARIANTS NoFieldBeyondReceived LastPacketIsKnown
PROPERTIES FramingSpec
CHECK_DEADLOCK FALSE
