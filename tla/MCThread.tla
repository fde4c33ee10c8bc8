------------------------------ MODULE MCThread ------------------------------
\* Two CPUs and three threads over two wait channels.
EXTENDS Thread

CONSTANTS t1, t2
Boot == <<t1, t2>>

=============================================================================
