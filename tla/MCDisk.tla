------------------------------- MODULE MCDisk -------------------------------
(***************************************************************************)
(* DiskImage on a small instance.                                          *)
(***************************************************************************)
EXTENDS DiskImage, TLC

CONSTANTS n1, b1, b2, t1, t2, t3, f1, d1, d2, cs9, as10, root, copy, boot

\* t1 and t2 are two manifests of one distro, t3 one of another.
MCDistroOf == (t1 :> cs9) @@ (t2 :> cs9) @@ (t3 :> as10)
\* Two partitions of one name, and one that may be empty.
MCFileOf == (root :> root) @@ (copy :> root) @@ (boot :> boot)
MCBuilderOf == (cs9 :> b1) @@ (as10 :> b2)

Build(ctr, name, file, dsk, mode, dist) ==
  [cmd |-> "build", ctr |-> ctr, name |-> name, file |-> file, disk |-> dsk,
   mode |-> mode, tools |-> NoName, distro |-> dist, ifneeded |-> FALSE]

BuildBuilder(ctr, name, file, needed, dist) ==
  [cmd |-> "build-builder", ctr |-> ctr, name |-> name, file |-> file,
   disk |-> NoFile, mode |-> "raw", tools |-> NoName, distro |-> dist,
   ifneeded |-> needed]

ToDisk(ctr, name, file, dsk, mode, tools) ==
  [cmd |-> "to-disk-image", ctr |-> ctr, name |-> name, file |-> file,
   disk |-> dsk, mode |-> mode, tools |-> tools, distro |-> cs9,
   ifneeded |-> FALSE]

Download ==
  [cmd |-> "download", ctr |-> "none", name |-> NoName, file |-> NoFile,
   disk |-> NoFile, mode |-> "raw", tools |-> NoName, distro |-> cs9,
   ifneeded |-> FALSE]

\* Every place a container goes to or comes from, with and without a disk.
MCJobs ==
  {Build("store", n1, NoFile, NoFile, "raw", cs9),
   Build("store", n1, NoFile, d1, "raw", as10),
   Build("archive", NoName, f1, NoFile, "raw", as10),
   Build("archive", NoName, f1, d1, "converted", cs9),
   Build("tar", NoName, f1, NoFile, "raw", cs9),
   Build("tar", NoName, f1, d1, "raw", cs9),
   Build("none", NoName, NoFile, d1, "partitions", as10),
   Build("dry-run", n1, NoFile, d1, "raw", cs9),
   BuildBuilder("store", NoName, NoFile, TRUE, cs9),
   BuildBuilder("store", NoName, NoFile, FALSE, as10),
   BuildBuilder("archive", NoName, f1, TRUE, cs9),
   BuildBuilder("archive", NoName, NoFile, FALSE, cs9),
   ToDisk("store", n1, NoFile, d1, "partitions", NoName),
   ToDisk("archive", NoName, f1, d1, "converted", NoName),
   ToDisk("store", n1, NoFile, d1, "raw", b2),
   Download}

\* Commands run side by side, each of which writes files of its own; all but the
\* last draw a name in the store.
MCPairJobs ==
  {Build("none", NoName, NoFile, d1, "raw", as10),
   Build("archive", NoName, f1, d2, "converted", cs9),
   ToDisk("archive", NoName, f1, d1, "converted", NoName),
   ToDisk("archive", NoName, f1, d2, "partitions", NoName),
   BuildBuilder("store", NoName, NoFile, TRUE, cs9)}

MCSymmetry == Permutations(Proc)
=============================================================================
