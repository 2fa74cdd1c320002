----------------------------- MODULE MCMsgQueue -----------------------------
EXTENDS MsgQueue
=============================================================================
