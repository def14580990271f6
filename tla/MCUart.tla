-------------------------------- MODULE MCUart --------------------------------
EXTENDS Uart

\* A working chip of each model, and every fault once.
SomeChips ==
    [model : Models, fault : {"none"}]
      \cup [model : {"16550A"}, fault : Faults]
==============================================================================
