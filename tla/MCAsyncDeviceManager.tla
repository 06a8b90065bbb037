------------------------ MODULE MCAsyncDeviceManager ------------------------
\* AsyncDeviceManager for TLC: the values of the constants are in the .cfg.
EXTENDS AsyncDeviceManager
=============================================================================
