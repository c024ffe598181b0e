------------------------------- MODULE MCBoot --------------------------------
EXTENDS Boot

BootSpec == BootInit /\ [][BootNext]_bootVars
=============================================================================
