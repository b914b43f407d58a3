---------------------------- MODULE MCUartDriver ----------------------------
(* Instances of UartDriver.                                                *)
EXTENDS UartDriver

CONSTANTS c0, c1
OneCore == {c0}
TwoCores == {c0, c1}
=============================================================================
