---------------------------- MODULE MCXbusFraming ----------------------------
\* XbusFraming for TLC: bytes of four values, and payloads on both sides of
\* the standard length; one begins like a frame of its own.
EXTENDS XbusFraming

MCPayloads == {<<>>, <<2, 3>>, <<2, 1, 1>>}
=============================================================================
