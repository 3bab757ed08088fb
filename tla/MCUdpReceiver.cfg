SPECIFICATION ReceiverSpec
CONSTANTS
  Values = {x, y}
  x = x
  y = y
  Initial = Initial
  Capacity = 3
  Threads = {first, second}
  first = first
  second = second
  MaxPackets = 5
  MaxErrors = 1
INVARIANTS NoSlotShared PacketsAccounted OneReceiver
PROPERTIES SizeNeverPhantom DeliversInOrder StopReturns
CHECK_DEADLOCK FALSE
