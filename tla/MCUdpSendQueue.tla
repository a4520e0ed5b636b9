--------------------------- MODULE MCUdpSendQueue ---------------------------
EXTENDS UdpSendQueue
=============================================================================
