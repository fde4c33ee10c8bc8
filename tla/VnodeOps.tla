------------------------------ MODULE VnodeOps ------------------------------
(***************************************************************************)
(* The function tables of the kinds of vnodes there are: what a VOP_xxx    *)
(* does that has no function of its own.  "ok" stands for one that has;    *)
(* "null" for an entry that the table leaves out.                          *)
(***************************************************************************)

\* The operations that take a name in a directory.
NameOps == {"creat", "symlink", "mkdir", "link", "remove", "rmdir", "rename",
            "lookup", "lookparent"}
\* The operations on a file that is open.
FileOps == {"read", "write", "readlink", "getdirentry", "ioctl", "stat",
            "fsync", "mmap", "truncate", "tryseek"}

\* dev_vnode_ops
DevOps(op) ==
    CASE op \in {"getdirentry"} \union (NameOps \ {"lookup"}) -> "ENOTDIR"
      [] op \in {"readlink", "truncate"} -> "EINVAL"
      [] op = "mmap" -> "ENOSYS"
      [] op = "tryseek" -> "null"
      [] OTHER -> "ok"

\* sfs_fileops
SfsFileOps(op) ==
    CASE op \in {"readlink", "getdirentry"} \union NameOps -> "ENOTDIR"
      [] op = "ioctl" -> "EINVAL"
      [] op = "mmap" -> "ENOSYS"
      [] op = "tryseek" -> "null"
      [] OTHER -> "ok"

\* sfs_dirops
SfsDirOps(op) ==
    CASE op \in {"read", "write", "mmap", "truncate"} -> "EISDIR"
      [] op \in {"readlink", "ioctl"} -> "EINVAL"
      [] op \in {"getdirentry", "symlink", "mkdir", "rmdir"} -> "ENOSYS"
      [] op = "tryseek" -> "null"
      [] OTHER -> "ok"

\* emufs_fileops
EmuFileOps(op) ==
    CASE op \in {"getdirentry"} \union NameOps -> "ENOTDIR"
      [] op \in {"readlink", "ioctl"} -> "EINVAL"
      [] op = "mmap" -> "ENOSYS"
      [] OTHER -> "ok"

\* emufs_dirops
EmuDirOps(op) ==
    CASE op \in {"read", "readlink", "write", "fsync", "mmap"} -> "EISDIR"
      [] op = "truncate" -> "ENOTDIR"
      [] op = "ioctl" -> "EINVAL"
      [] op \in NameOps \ {"creat", "lookup", "lookparent"} -> "ENOSYS"
      [] op = "tryseek" -> "null"
      [] OTHER -> "ok"

Vop(kind, op) ==
    CASE kind = "dev" -> DevOps(op)
      [] kind = "sfsfile" -> SfsFileOps(op)
      [] kind = "sfsdir" -> SfsDirOps(op)
      [] kind = "emufile" -> EmuFileOps(op)
      [] kind = "emudir" -> EmuDirOps(op)

\* VOP_GETTYPE
IsDirectory(kind) == kind \in {"sfsdir", "emudir"}

\* VOP_EACHOPEN: directories are opened for reading only, devices without
\* O_CREAT, O_TRUNC and the like.
Eachopen(kind, write, creat, trunc) ==
    CASE IsDirectory(kind) -> IF write THEN "EISDIR" ELSE "ok"
      [] kind = "dev" -> IF creat \/ trunc THEN "EINVAL" ELSE "ok"
      [] OTHER -> "ok"

=============================================================================
