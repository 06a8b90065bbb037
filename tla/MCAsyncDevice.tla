---------------------------- MODULE MCAsyncDevice ----------------------------
\* AsyncDevice for TLC: the values of the constants are in the .cfg.
EXTENDS AsyncDevice
=============================================================================
