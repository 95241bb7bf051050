SPECIFICATION TelemetrySpec
CONSTANTS
  GPUs = {0}
  SmiFields = {"clk", "ecc", "mem", "power"}
  RocpFields = {"occ"}
  rdc_bulk_fields = {"clk", "power"}
  PowerFields = {"power"}
  BULK_FIELDS_MAX = 2
  buffer_length_k = 3
  HandleMayFail = FALSE
  MaxReadings = 7
INVARIANTS
  TelemetryTypeOK
  ReportedOnce
  AverageIsRecent
