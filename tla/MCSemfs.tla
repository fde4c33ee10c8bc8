------------------------------ MODULE MCSemfs ------------------------------
EXTENDS Semfs

\* Nothing out of the ordinary; the two events that are only unlucky; the
\* three whose code is wrong.
SomeEvents ==
    {{}, {"later_v"}, {"creat_open"}, {"reclaim", "nomem", "readdir"}}

=============================================================================
