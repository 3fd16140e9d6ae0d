----------------------------- MODULE MCDtlsTimer -----------------------------
EXTENDS DtlsTimer
==============================================================================
