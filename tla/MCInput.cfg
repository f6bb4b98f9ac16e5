SPECIFICATION Spec
CONSTANTS
  MAX_EVENTS = 3
  device_count = 2
  Codes = {1}
  MaxKernel = 1
  MaxClients = 2
  NoEvent = NoEvent
INVARIANT TypeOK
PROPERTIES ImplementsFifo DevicesDrained ClientsServed
