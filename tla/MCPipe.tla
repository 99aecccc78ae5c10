------------------------------- MODULE MCPipe -------------------------------
EXTENDS Pipe, TLC

CONSTANTS r1, r2, w1

OneReader == {r1}
TwoReaders == {r1, r2}
OneWriter == {w1}
=============================================================================
