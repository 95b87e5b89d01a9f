\* WATCHDOG_LIMIT is 2; the client can always be made.
SPECIFICATION Spec
CONSTANTS
  Limit = 2
  Unset = Unset
  Failures = {"mlm_client_connect", "mlm_client_set_consumer"}
PROPERTIES
  OnlyAWOLKills
CHECK_DEADLOCK FALSE
