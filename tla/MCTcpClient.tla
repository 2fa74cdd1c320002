---------------------------- MODULE MCTcpClient ----------------------------
EXTENDS TcpClient
=============================================================================
