------------------------------- MODULE MCVfs -------------------------------
EXTENDS Vfs

OneDisk == {"lhd0"}
Raw == [d \in OneDisk |-> "lhd0raw"]
Vol == [d \in OneDisk |-> "vol"]
Path(start, via, last) == [start |-> start, via |-> via, last |-> last]
SomePaths ==
    {Path("cwd", NULL, "f"), Path("/", NULL, "sub"), Path(":", NULL, NULL),
     Path(EMU, "sub", "f"), Path("vol", NULL, "f"), Path("null", NULL, NULL)}
Modes == {<<FALSE, FALSE>>, <<TRUE, TRUE>>}
EachEvent == {{}} \union {{e} : e \in EnvEvents}

=============================================================================
