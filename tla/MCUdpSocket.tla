---------------------------- MODULE MCUdpSocket ----------------------------
EXTENDS UdpSocket
=============================================================================
