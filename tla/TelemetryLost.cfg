SPECIFICATION TelemetrySpec
CONSTANTS
  GPUs = {0, 1}
  SmiFields = {"ecc", "mem"}
  RocpFields = {}
  rdc_bulk_fields = {}
  PowerFields = {}
  BULK_FIELDS_MAX = 2
  buffer_length_k = 1
  HandleMayFail = TRUE
  MaxReadings = 0
INVARIANTS
  GoodIsOwn
