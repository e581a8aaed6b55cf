---------------------------- MODULE MCPortScanner ----------------------------
(* Instances of PortScanner for TLC.                                          *)
EXTENDS PortScanner

SomeOpen == {2, 4, 5, 7}
SomeNamed == {2, 3, 4, 7}
=============================================================================
