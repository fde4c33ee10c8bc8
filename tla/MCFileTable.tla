---------------------------- MODULE MCFileTable ----------------------------
EXTENDS FileTable
CONSTANTS p1, p2

\* Nothing out of the ordinary, and each event on its own.
EachEvent == {{}} \union {{e} : e \in EnvEvents}

=============================================================================
