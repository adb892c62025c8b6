---------------------------- MODULE MCRemoteDebug -----------------------------
EXTENDS RemoteDebug
==============================================================================
