---------------------------- MODULE MCCounterAdmin ----------------------------
EXTENDS CounterAdmin

==============================================================================
