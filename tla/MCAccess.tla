------------------------------- MODULE MCAccess -------------------------------
EXTENDS Access

==============================================================================
