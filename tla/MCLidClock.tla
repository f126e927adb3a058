----------------------------- MODULE MCLidClock -----------------------------
EXTENDS LidClock

\* Fully closed, two half-open angles to rise and fall between, open.
MCAngles == {0, 10, 20, 40}
=============================================================================
