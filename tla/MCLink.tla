-------------------------------- MODULE MCLink --------------------------------
EXTENDS Link
BothKinds == {"tcp", "serial"}
SerialOnly == {"serial"}
==============================================================================
