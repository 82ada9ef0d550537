------------------------------- MODULE MCSandbox -------------------------------
EXTENDS Sandbox

MCExitCodes == {0, 2, 137, 139}   \* 137: out of memory
================================================================================
