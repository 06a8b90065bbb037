-------------------------- MODULE MCSerialExchange --------------------------
\* SerialExchange for TLC: the values of the constants are in the .cfg.
EXTENDS SerialExchange
=============================================================================
