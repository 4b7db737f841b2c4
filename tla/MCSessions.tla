---------------------------- MODULE MCSessions ----------------------------
EXTENDS Sessions
=============================================================================
