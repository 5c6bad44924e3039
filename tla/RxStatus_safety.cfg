\* A ring of 3 and a program that reads its state.
SPECIFICATION StatusSpec
CONSTANTS
  N = 3
  MinThreshold = 1
  Packet = {p1, p2}
  NoPacket = NoPacket
  IrqMayStall = TRUE
INVARIANTS TypeOK WorkerOwnsDescriptor StatusIsLowerBound
PROPERTY RingIsQueue
SYMMETRY PacketSymmetry
