------------------------------- MODULE MCCIRun -------------------------------
EXTENDS CIRun

CONSTANTS a, b, c
=============================================================================
