---------------------------- MODULE MCStartup ----------------------------
\* Instances of Startup for TLC.
EXTENDS Startup

\* A short Begin, full chunks and a short last one: the channel's memory holds Begin
\* and two of the chunks.
MCMemory == [k \in 0 .. Chunks |-> IF k \in {0, Chunks} THEN 1 ELSE 2]
=============================================================================
