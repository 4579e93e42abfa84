SPECIFICATION Few
CONSTANTS
  pad = pad
  None = nodevice
  Senders = {1}
  Levels = {1}
  Devices = {pad}
  Stored <- House
  MaxIds = 7
  MaxEvents = 3
INVARIANTS
  SendersSuffice
