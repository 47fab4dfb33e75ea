---------------------------- MODULE MCDriveLoop -----------------------------
(* Instances of DriveLoop for TLC: one configuration per mode and question.*)
EXTENDS DriveLoop

CONSTANTS make, secret, none,   \* a harmless command, a denied one, no check
          e1                        \* an error text
=============================================================================
