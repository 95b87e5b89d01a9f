\* WATCHDOG_LIMIT is 2; the client may not be made.
SPECIFICATION Spec
CONSTANTS
  Limit = 2
  Unset = Unset
  Failures = {"mlm_client_new", "mlm_client_connect", "mlm_client_set_consumer"}
PROPERTIES
  EndsTogether
CHECK_DEADLOCK FALSE
