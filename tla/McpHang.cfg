\* A server that reads nothing while it writes, and small pipes.
SPECIFICATION WillingSpec
CONSTANTS StdioCap = 1  StdioCalls = 3  StdioLines = 6  ReadsAlways = FALSE
PROPERTY ResourcesReturn
CHECK_DEADLOCK FALSE
