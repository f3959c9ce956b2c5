SPECIFICATION Spec
CONSTANTS
  s1 = s1
  s2 = s2
  Said = {7, 8, 10}
  Packet <- MCPacket
  Bridge = {1, 2}
  Modulus = 8
  Window = 3
  QueueSize = 1
  SpeakerQueueSize = 2
  MaxSpeakers = 1
  MaxConceal = 1
  Frame = 2
  PacketSamples = 3
  MaxSeen = 2
  MaxAdds = 3
  MaxErrors = 1
CHECK_DEADLOCK FALSE
INVARIANTS Accounted BacklogBounded
PROPERTIES PlayedInOrder
