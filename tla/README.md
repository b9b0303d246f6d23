# TLA+ models of automotive-image-builder

This directory is a verification development of automotive-image-builder (`aib`,
`aib-dev`): specifications of the parts of the program that keep state, model
checked with TLC on small instances, and theorems about all of them checked with
TLAPS for every value of their constants. Every safety property that a passing run
checks is also a theorem. Line numbers refer to the files of the repository;
`PROJECT.json` gives the lines of each definition.

## 1. Inventory of the system

`aib` is a set of sequential Python commands. Its state is what it leaves outside
the process: images in a podman store, archives, directories and disk images. It
does nearly all of its work through other programs (podman, skopeo, osbuild,
image-builder, rpm-ostree, mv, rm), each of which may fail, while other `aib`
processes and Ctrl-C come in between. That is where the hard behaviour is.

| component | state | operations | interacts with |
|---|---|---|---|
| Signing and sealing (`main.py`, `podman.py`) | store, mounts, working containers, directory of files to sign, temporary names | `extract-for-signing`, `prepare-reseal`, `inject-signed`, `reseal` | podman, an external signer, a builder image |
| Building and converting (`main.py`, `osbuild.py`, `utils.py`) | store, archives, disk images, output directories, the digest label of a builder | `build`, `build-builder`, `to-disk-image`, `download` | build inputs, osbuild, image-builder, partition export |
| Partition export (`utils.py`, `osbuild.py`) | file descriptors' positions, the chunk list, the header | `truncate_partition_size`, `extract_part_of_file`, `convert_to_simg` | called for each partition by the component above |
| Policy (`policy.py`, `aib/__init__.py`) | the merged rules | `load_policy`, `validate_*`, `get_*` | build inputs |
| Build inputs (`osbuild.py`, `simple.py`) | the dictionaries `defines` and `user_defines`, the identity hash | `create_osbuild_manifest` | policy, simple manifest, mpp |
| Simple manifest (`simple.py`) | the contents of root and QM, the numbered files to embed, the variables derived | `ManifestLoader.load` and its handlers | build inputs, the file system (globs) |
| Dependency lock (`mpp/aib-osbuild-mpp`, `main.py`) | the lock file | `resolve`, `--lockfile` | mpp, dnf, registries |
| mpp (`mpp/aib-osbuild-mpp`) | the tree being expanded, the dnf cache | directive expansion | templates, lock |
| Progress (`progress.py`) | the pipe, the log file, stage counters | osbuild's event stream | osbuild |
| Temporary directories, runner (`utils.py`, `runner.py`, `execmode.py`) | directories and mounts below them, sudo's ticket, the keepalive thread | cleanup, `run_as_root`, `rm_rf`, `move_chown` | all commands |
| Object cache (`mpp/aibosbuild/util/fscache.py`) | objects, their locks and info files, `cache.size`, `cache.info` | `store`, `load`, eviction, `info` setter | other processes on the same directory |
| `air` (`bin/air`) | ports, overlay of a VM | start QEMU | none |
| Command line, listing, ostree access, templates, packaging | none of their own | | |

What makes each correct, and what is hard about it:

* **Signing and sealing.** An image boots only if its rootfs is signed with the
  key its initramfs carries, and its initramfs belongs to its kernel. Each command
  is five to fifteen external commands between which the name of the source image
  is resolved several times; a with-block decides by the exception in flight
  whether a half modified container is committed; temporary images have three
  different owners; cleanup fails and raises while an exception is passing.
  Correct means: seen through the names users give, a command happens at once or
  not at all; nothing half signed gets a name; what is temporary is removed; and the
  exit status tells what happened.
* **Building and converting.** Status 0 has to mean that every output asked for is
  there, whole and made by this run; temporary containers and root-owned
  directories have to go in every combination of output options; a disk has to be
  made by the tools of its image's distro; `--if-needed` must not keep an outdated
  builder; a command line that is accepted should not fail by itself.
* **Partition export.** Three loops over `SEEK_DATA`/`SEEK_HOLE`, rounding, batches
  and implicit offsets: boundaries that no test image has. The exported file has to
  be the partition, and the loops have to end.
* **Policy and build inputs.** Nine sources write into one dictionary and replace
  each other by their order. A build a policy refuses must not reach mpp, a user's
  define must win, and two builds that may share UUIDs must be the same build.
* **Simple manifest.** Root and QM share one counter for embedded files; boot checks
  are appended to the manifest's own lists before they are read; where the files of
  a glob go is cut out of the glob's text in four ways. Every file has to arrive in
  its partition, at its place, with its directory.
* **Running osbuild.** A monitor that reads a pipe, dies of odd events and full
  disks; a root-owned directory with file systems mounted below it that has to go,
  whose umount may be refused; Ctrl-C that reaches two processes. The exit status has
  to be honest, one refused umount must cost no other file system, and a run has to
  end.
* **Object cache.** Processes share a directory with nothing but `flock`, `link` and
  `rename` between them, any system call may fail, and any process may be killed
  between two of them. A reader must have a whole object, and the size counter must
  not drift from what is stored. (The cache is a vendored copy: nothing in this tree
  imports it today, so no command of `aib` reaches it.)
* **Dependency lock.** A lock must resolve to what it was made from; not modelled (section 6).

`PROJECT.json` lists the hazards one by one, each with the line where it bites and
the property that would catch it, or why none does.

## 2. Modules

| module | what it is |
|---|---|
| `BootcImage` | what the signing commands tell apart in an image, their jobs, and what each promises to make of an image (`Outcome`) |
| `SealAtomic` | abstract specification: each signing command takes effect in one step or not at all |
| `SealWorkflow` | the four commands as the code runs them, step by step |
| `SealWorkflow_proofs` | theorems about `SealWorkflow`, with every fault where that is possible; among them that it implements `SealAtomic` where names are left alone |
| `DiskImage` | `build`, `build-builder`, `to-disk-image`, `download` |
| `DiskImage_proofs` | theorems about `DiskImage` |
| `DiskExport` | the three loops over an image file |
| `DiskExport_proofs` | theorems about `DiskExport` |
| `Policy` | policy sections, their consistency rules, the merge loop, what a section refuses |
| `BuildInputs` | `create_osbuild_manifest`, over `Policy` |
| `BuildInputs_proofs` | theorems about `BuildInputs` and the merge of `Policy` |
| `GlobPaths` | where a glob's files go: the paths of `ExtraInclude` |
| `SimpleManifest` | `ManifestLoader._load`, one action per handler, over `GlobPaths` |
| `SimpleManifest_proofs` | theorems about `SimpleManifest`, and about the paths of `GlobPaths` |
| `OsbuildRun` | one run of osbuild in each execution mode: pipe, hand-over, clean-up, Ctrl-C |
| `OsbuildRun_proofs` | theorems about `OsbuildRun` |
| `AtomicFile` | abstract specification: a file that is replaced in one step |
| `CacheUpdates` | what an update makes of `cache.size` |
| `CacheFile` | how `fscache.py` creates, locks, checks and replaces such a file |
| `CacheFile_proofs` | theorems about `CacheFile`, the refinement of `AtomicFile` among them |
| `FsCache` | the object cache, its updates of `cache.size` taken as atomic |
| `FsCache_proofs` | theorems about `FsCache` |
| `MCSeal`, `MCDisk`, `MCExport`, `MCInputs`, `MCManifest`, `MCOsbuildRun`, `MCCacheFile`, `MCFsCache` | the small instances |

`SealWorkflow` and `SealAtomic` extend `BootcImage`; `SealWorkflow` instantiates
`SealAtomic` with its refinement mapping. `BuildInputs` extends `Policy`.
`DiskImage` and `DiskExport` meet in one action: `WritePart` of `DiskImage` is the
whole of `DiskExport` run for one partition. `OsbuildRun` is the detail of
`DiskImage`'s `Osbuild`, `MoveArchive` and `RemoveDirectory`. `BuildInputs` takes a
manifest as the variables it sets; `SimpleManifest` says how they come about.
`CacheFile` implements `AtomicFile`, which is what lets `FsCache` take an update of
`cache.size` as one step.

### How state and actions correspond to the code

**SealWorkflow.** `ref`, `anon` and `archive` are the podman store (names, untagged
images) and archive files; `dir` is the directory of files to sign. A process has a
place in its command (`pc`, one label for each external command of the code), the
exception it is unwinding (`exc`: none, `exit0` for `sys.exit(0)`, or an error) and
the set of context managers it is inside of (`open`): the `tmpdir` of `main`, the
random name handed to the `ExitStack`, the `TemporaryContainer` around the
committed image, and a `PodmanImageMount` in its read-only and writable forms.
`Closing` is the rule of Python: innermost first, at the end of the block or when
an exception passes. `CommitContainer` is `PodmanImageMount.__exit__`, which
commits when no exception passes. `ToolFails` and `Interrupt` raise at any point;
`Kill` ends a process without leaving anything. Two calls have a failure that the code
does not look at, each a fault of the environment: `has_file` takes a `test -f` that
fails for a file that is not there (`misread`), which ends `inject-signed` with "nothing
to sign" and status 0 and hides an `aboot.img`; and a `cat` that dies leaves a short file
(`stream`). A process `p` also stands for the random name it draws: 96 random bits are
never drawn twice. `Rebuild` is another command storing a new image under a name.

**DiskImage.** The same conventions. `Compose` chooses what the manifest composes to
(its digest *is* the tree); `Osbuild` enters the output directory; `StoreContainer`
and `MoveArchive` publish the container; `OpenOut` to `WritePart` are
`container_to_disk_image`; `RemoveDirectory` is `SudoTemporaryDirectory.cleanup`,
which may raise. With `--separate-partitions` a disk is the set of partitions whose
files it holds: `todo` are those still to write, in any order, one that is cut to
nothing is skipped and leaves the file of its name as it was (`blank`), and one of
the same name as another replaces its file. `reason` records why a process failed, for
`FailsForAReason`. In `Init` a builder stored under a distro's default name is of that
distro.

**DiskExport.** A file is a function from units (the granularity of holes) to what
they hold; a hole reads as zero and is told apart from one. Each action is one
iteration: an extent found, a chunk copied, a run collected, a batch read, a run
written. `image` is what a reader of the sparse image gets, so that the implicit
offsets of the format are modelled by their effect.

**Policy.** A section is the *sequence* of its entries, as YAML keeps their order;
an entry has a key, the target after the `@` (or `Global`) and a value. `Merge` is
the loop of `_process_restrictions`, over a dictionary that may grow under it, which
Python refuses. `Consistent` is `_validate_restriction_section_consistency`; `PolicyFile`
is what YAML and the schema let a policy file be. A dictionary is a function; `Var` is one
item and `f ++ g` is `g.update(f)`. `Refuses` and `RefusesManifest`
are the validators.

**BuildInputs.** One action for each part of `create_osbuild_manifest`, in order:
policy variables, the manifest, `--target` and `--root-password` and the
validation, ostree and reproducibility options, `--define`, `--define-file`,
`--extend-define`, repositories, the identity hash and the call of mpp; each may
end in the error the code raises. `Identity` is the tuple that is hashed.
`Rebuild` starts a second build after the first, with its identity and variables
kept, to compare the two. The identity has the policy as it was loaded: in the code
`--extend-define` on a list that came from the policy extends the policy's own
list in place, which can only tell more builds apart.

**SimpleManifest.** `Validate` is schema, defaults and policy; then one action for
each handler in `_load`'s order. `contents` is the `Contents` object, whose lists
the boot checks extend; `AddSingle`, `AddGlob`, `AddEmpty` and `GlobFails` take one
entry of `add_files` each, and number the files with `nextid`, which root and QM
share. `HandleExperimental` lets `internal_defines` replace variables that are already set
(`Replaced`): sizes, and the lists of copies, directories and services. A path is the sequence of its components; a glob's component has its
whole text, the text before its first `*`, and whether it has a `*`, only `?` or `[...]`,
or is `**`; which names fit it (`Fnmatch`) and which texts have a `..` anywhere
(`Dotted`, as the code tests the text and not the component) are parameters. Values that are only passed on are represented by the name of
the variable. `Glob` and `Entry` say which texts the model reads: `..` stands first in a
glob and not at the end of a destination, which the schema would let through; an
absolute glob has a directory, or the start of a name, before its first wildcard.
Without one the code takes the relative path from the empty name, which is the
working directory of the process (`simple.py:238`), and the model has none.

**OsbuildRun.** `pc` is the place in `run_osbuild` and what follows it; `PrintLine`,
`Finish`, `MountOne` and `Killed` are osbuild, which prints into `pipe`, mounts file
systems and may leave some mounted. A line is text for the log, a step of
the bar, or a step whose stage has a total of 0. `ReadLine` is one turn of the
monitor's loop. `Interrupt` is what `Popen` and `subprocess.run` do on Ctrl-C: they
wait for a moment only, and may not kill sudo. `List`, `Unmount`, `Rmtree` and `RmRf`
are `SudoTemporaryDirectory.cleanup`: the list of mounts may come out empty, and a
umount may fail for any reason; the history variable `missed` has those for which that
is not because of what is mounted below them. A password that is not given is one of
the failures of each step that runs as root. Ctrl-C is modelled where the program spends
its time, while osbuild runs.

**CacheFile.** One action per system call of `_atomic_file` and `_atomic_open`: make
a locked temporary, link or rename it, open, lock, check that the path still leads
to the inode that was locked, replace. Inodes are recycled (`Free`).

**FsCache.** Processes enter with a maximum of their own, store, load, set the
maximum, evict, and may be killed between any two steps. An object has a place
(a name, a uuid, stage, or gone), data (whole or torn), an info file and a lock file;
`size` is the counter in `cache.size`. A system call that fails has an action of its own
(`VisitFails`, `RemoveFails`, `CommitFails`, `UndoFails`, `DiscardFails`), as `rmtree`,
`unlink`, `rmdir` and the update of the counter raise out of `store`, with part of an
object removed, and in one place with its lock still held. The history variable `acct`
says what was added to the counter for each object.

## 3. Runs

| run | question | bounds |
|---|---|---|
| `seal` | Do concurrent signing commands look atomic, bind key and seal, and clean up? | 2 processes, 2 names, 3 keys, 2 trees (one with aboot, one unsignable), the two-phase sequence and one-step reseal |
| `seal_all` | What does each form of each command leave behind, and what does status 0 mean, with every fault? | 1 process at a time, 2 files to sign, 6 command lines in any order, sources replaced while they run, the faults `retag`, `stream`, `misread`, `rm` |
| `disk` | What do status 0 and failure of the four build commands mean, in every form? | 1 process at a time, 16 command lines, 3 trees of 2 distros, 3 partitions (two of one name, one that may be empty), stores with and without builders |
| `disk_pair` | Do two processes that draw names in one store disturb each other? | 2 processes, 5 command lines, fault `probe` |
| `export` | Is the exported file the partition? | files of 7 units of hole, zero or data; blocks of 3, reads of 2 units, batches of 2 blocks |
| `inputs` | What is merged, refused, forced, overridden and hashed? | sections of up to 3 entries in every order, 2 targets, families of manifests and arguments, pairs of builds |
| `target_rules` (violation) | Do the rules for the build's target apply? | as `inputs` |
| `manifest` | Does every partition get its files, trees and checks? | 3 directories deep, globs of every kind, root and QM, 2 checks, var sizes, internal defines that replace a list |
| `var_external` (violation) | Is an external var partition kept out of the image? | as `manifest` |
| `osbuild_run` | Is a run's status honest, its clean-up late and careful enough, and does it end? | 4 modes, 3 lines, a pipe of 1, 3 nested mounts and one aside of them |
| `cache_file` | Is a locked, checked and replaced file an atomic one? | 2 processes, 5 inodes |
| `cache` | Do readers have whole objects, and is the counter right? | 2 processes, 2 names, 3 objects, maximum 0, 1 or 3, one kill |

What the passing runs establish:

* `seal`: **RefinesAtomic**: through the names users give, every interleaving of
  steps, failures, Ctrl-C and kills is a behaviour of `SealAtomic`. **ResealBinds**:
  no name ever refers to an image sealed with another key than intended.
  **TemporariesRemoved**: nothing temporary outlives a command that did not say so.
* `seal_all`: **InjectIsComplete**: files are replaced all or not at all.
  **ExtractIsFresh**: what `extract-for-signing` leaves with status 0 is of the image it
  mounted and of no earlier extraction, though a file may be cut short; or nothing, when
  it said that there is nothing to sign. **SuccessMeansResult**: status 0 means a stored
  result, but for `inject-signed`'s "nothing to sign", which a failing test ends in too.
  **ResealBinds**, but for an `aboot.img` a failing test did not see.
* `disk`, `disk_pair`: **BuildIsComplete**, **DiskIsWhole**, **BuilderIsCurrent**,
  **SameDistroTools**: status 0 means complete outputs of this run, made by the
  right tools; of partitions, that each one with data has a file, and of those that
  share a name one has it. **NothingLeft**. **FailsForAReason**: one accepted command
  line fails by itself, `build-builder --oci-archive` without `out`, and no other.
* `export`: **TruncateKeepsData**, **ExtractIsFaithful**, **SparseIsFaithful**,
  **ExportEnds**. A conversion that was cut short is not read as a smaller image.
* `inputs`: **PolicyIsMerged** (a policy that does load says for a target what its
  general and its own entries say together), **NoForbiddenBuild** (what reaches mpp
  was not refused by the rules loaded), **SourcesRank** (a variable that only the policy
  names keeps the forced value, and one that only users name has their last define and
  all they add; which of the two prevails where both name one is left open, because
  code and documents disagree, see section 4), **IdentityTells** (builds of equal
  identity are run with equal variables, but for those whose source is not in the
  identity, `Unidentified`, unless a define sets them, and those `--extend-define`
  extends). The builds compared differ in any of it, in what is excepted as well.
* `manifest`: **FilesAreCopied** (the files of each partition, with their own
  contents, though both are numbered by one counter), **TreesArePreserved** (a glob's
  files stay below their directory, which is made, and do not collide; globs whose
  fixed part ends within a name are excepted, see below), **ChecksAreInstalled** (a
  check has its drop-in, directory and service, and the manifest's services stay). Of a
  list that `internal_defines` replaces only that is said: it is what it was replaced by.
* `osbuild_run`: **SuccessIsHonest**, **MountsSpared** (a umount that fails endangers
  that file system and those it lies below; any other is unmounted before files are
  removed, unless osbuild ran on after Ctrl-C), **CleanupAfterChild** (only Ctrl-C takes
  the directory away from under osbuild), **RunEnds** (except where the log cannot be
  written and the pipe fills up).
* `cache_file`: **UpdateHoldsFile** (the inode an update has locked is the file, until
  it replaces it), **ImplementsAtomicFile**, **UpdatesEnd**.
* `cache`: **ReaderSeesWhole** (no object is taken from a reader or changed under it,
  and one with its info file is whole), **InfoMeansWhole** (an info file stands for whole
  data whose bytes were added to the counter and not given back), **OvercountHasCause**
  and **UndercountHasCause** (by which steps, and no others, the counter may come to say
  more, or less, than what is stored; `Leaks` and `Overdraws` list them), and that the
  counter stays in its range (**TypeOK**).

Every property has a mutant in `PROJECT.json`: a plausible error in one definition
that makes TLC find the property violated.

### Why the bounds are enough

Two processes suffice for interference, which is always between one command that
reads a name and one that writes it; commands repeat without bound, so sequences of
any length are covered. `seal` needs three keys: the build's own, one the user
brings and one drawn by `reseal`; two files to sign are needed only where "half of
them" matters (`seal_all`). In `DiskExport` seven units with blocks of three give
whole, partial and unaligned blocks, holes across block and batch boundaries, a
partition at and away from the start of the file, and a last block that the file
does not fill. Policy entries interact only through an equal key or target: three
entries in a section give a general entry, one for this target and one for
another, in all orders.

`GlobPaths` cuts paths at most at one wildcard and one directory above and below it,
so three levels of directories show every cut. Two partitions of one name and one that
may be empty are what `WritePart` can lose. In `OsbuildRun` a pipe of one line
fills up as a larger one does; a chain of three mounts has one in the middle, whose
failure endangers what it lies below and not what lies below it, and a fourth shows that
others are spared. In the cache, eviction concerns one object, its reader and
the process that evicts; three objects give one to keep, one to evict and one half
made; maxima of 1 and 3 let one process allow what the other does not.

Two guards are bounds: `MaxKills` on the kills in the cache (the proofs hold for any
value of it), and `MaxBuilds`: `Rebuild` of `BuildInputs` starts no third build, because
`IdentityTells` compares two. All other state spaces are finite by themselves.
Deadlock is checked in the runs of `MCSeal` and `MCDisk`, where a process that ended
can start again. `MCExport` and `MCInputs` are one export and one or two builds,
which end, as do `MCManifest` and `MCOsbuildRun`: their configurations say
`CHECK_DEADLOCK FALSE`.

### Assumptions

* **Apart.** Users do not run commands side by side one of which writes a name, file
  or directory that the other uses. Nothing in the code prevents it and nothing
  documents what would happen; the fault `retag` of `SealWorkflow` shows what does.
* In `DiskImage` a random name is not in use when it is drawn.
* External tools have their effect or fail without one, with the exceptions that
  are modelled: a `mv` followed by a failing `chown`, a copy cut short (`Torn`), a
  cleanup that fails, a `test` whose failure is not looked at.
* In `OsbuildRun` a file system cannot be unmounted while another is mounted below it,
  and paths that lie below one another do so transitively.
* **Fairness**, where liveness is claimed: weak fairness of each process's steps. The
  signing and build commands have none, as straight lines of external commands end by
  their shape and nothing is claimed of it. A started process is a sequential program that
  the kernel schedules; the tools it waits for end. Nothing is assumed about failures, kills or the start of commands. In `OsbuildRun` aib and
  osbuild's printing and ending are fair; mounting, kills and Ctrl-C are not. In
  `CacheFile` each process's steps are fair, and a lock is granted once it is free.

## 4. Findings

1. `target_rules`: when the manifest or the default names the target, the policy's
   entries for it have already been dropped (`aib/__init__.py:110`).
2. `var_external`: the schema's default relative size is put into every var partition
   before `handle_image` looks at `external` (`simple.py:464`, `simple.py:584`), so
   that an external partition is built into the image.

What else came up while modelling. Where the properties above have an exception, it is
one of these; the others are seen in inputs the runs leave out, or by reading:

* `podman_bootc_inject_pubkey` resolves its source twice (`podman.py:506`, `:565`); an
  image stored in between gets the other one's initramfs, with status 0. The run
  `seal_all` reaches this (fault `retag`); no property is stated that excludes it.
* Nobody waits for the `cat` of `open_file` (`podman.py:42`, `:320`): a short copy is a
  success (fault `stream`).
* `has_file` takes any failure of its test for absence (`podman.py:300-304`): a failing
  podman makes `extract-for-signing` and `inject-signed` say that there is nothing to
  sign, with status 0 (`main.py:525`, `:548`), and `podman_bootc_inject_pubkey` keep the
  old key in an `aboot.img` (fault `misread`).
* `build-builder --oci-archive` without `out` fails at the very end, because the path
  is `None` (`main.py:432`); the exception `Nowhere` of `FailsForAReason`.
* An entry for the target without a general entry of that key makes the merge raise
  "dictionary changed size during iteration" (`policy.py:161`).
* "Policy enforcement" is the first, not the last, to set a variable (`osbuild.py:152`),
  so that a manifest, an argument or a define replaces what a policy forces, while
  `docs/CODEBASE.md:186` resolves it last. `SourcesRank` claims nothing of such a
  variable.
* sudo's keepalive sleeps 300 s (`runner.py:28`), which is also sudo's usual time
  limit: each refresh comes a moment too late, `sudo -n -v` then refreshes nothing, and
  the thread goes on sleeping, so that a long build asks again although
  `docs/CODEBASE.md:153` has the credentials refreshed. Time is not modelled.
* A umount that fails is ignored whatever the reason (`utils.py:366`): the contents of
  what stays mounted are removed after it.
* A monitor that cannot write its log stops reading (`progress.py:428`), and
  `process.wait()` waits for an osbuild that waits for the pipe. An event whose nested
  total is 0 ends the build with a traceback (`progress.py:253`). After Ctrl-C the
  temporary directory may be removed under a running osbuild; without `--progress`
  and with sudo, Ctrl-C ends in a `PermissionError`.
* `create_cpio_archive` (`utils.py:139`) writes all names to cpio before it reads any
  of its output, and never reads its errors: either pipe may fill up.
* Globs: `../aib/fi*` takes `fi` for a directory and `sub*/**/*` takes `sub*` for one, so
  that preserved paths leave their destination; paths that come from globs are not
  validated; without `preserve_path` files of one name overwrite each other; an
  absolute glob keeps its last fixed directory. Sizes of var and var_qm are checked
  one by one and not together; an empty value in `internal_defines` is ignored; two
  sections that share a list through a YAML alias share what is appended to it.
* The cache: eviction gives back what a directory takes and not what was added for it
  (`fscache.py:1120-1157`), so that committed bytes go uncounted, against "it is never
  overcommitted" (`:959-961`). Giving bytes back is refused where the counter stays above
  the maximum this process knows, against "If the specified amount is negative, the
  operation always succeeds" (`:752-753`). `load` does not look at `object.info`, so that
  an object whose removal was killed or failed halfway can still be read, against "no
  cache lookups will ever consider the entry again" (`:808-809`). An object that vanishes
  between listing and opening raises out of `store`, as does a directory that is not
  empty, and the counter is then not updated; an unlink of `object.lock` that fails keeps
  the lock held for as long as the process has the descriptor.
* Disk export: `os.write` may write less than it is given (`utils.py:523`); any error of
  `lseek` ends a loop like the end of the data (`utils.py:445`); two partitions with one
  label are written to one file (`osbuild.py:580`), and one without data keeps the file
  of an earlier run (`:587`); `Whole` says what that leaves.

Known limits of the code that the models have but no document promises otherwise:
the image that `reseal` (without `--key`) and `inject-signed --reseal-with-key`
commit untagged is owned by nobody in the first case and stays in the store, and in
the second until `read_keys` succeeded (`main.py:654`); a failing `podman image rm`
goes unnoticed (`podman.py:461`, fault `rm`); an unreadable `/etc/build-info` is
taken for a missing one, so that the default distro's tools are used
(`podman.py:485`, fault `probe`); `--root-password`, `SOURCE_DATE_EPOCH`,
`--reproducible` and the base variables are not in the identity, and `--define k=[x]`
has the identity of `--extend-define k=x` (`osbuild.py:246-285`).

## 5. Proofs

TLAPS checks the following for every set of processes, names, keys, files and
command lines, every image size, block size and content, every policy, manifest and
argument, from the named assumptions on the constants (`BootcImageAssumption`,
`SealAssumption`, `DiskAssumption`, `ExportAssumption`, `PolicyAssumption`,
`InputsAssumption`, `BasedirAssumption`, `ManifestAssumption`, `CacheFileAssumption`,
`CacheAssumption`, `RunAssumption`), which TLC evaluates in every run, and from the
hypotheses that some theorems state, given below each time.

`SealWorkflow_proofs`, all of `Spec`, that is with every fault and any number of
processes:

* `TypeCorrect`: `[]TypeOK`. `TypeOK` is not inductive: a step that uses the mounted
  image or the injected key needs it to be there. `TypeInv` adds `Flow` (which
  labels belong to which command), `Mounted` (where an image is mounted) and
  `KeyHeld` (where a key is known). `StepType` has one step per action.
* `ResealIsBinding`, `InjectCompletes`: from `ResultInv`, which says for each stage
  of a command what the working image and the committed image already have: the key
  in the initramfs, the files copied, the seal.
* `SuccessIsResult` (an action property): from `EndInv`, which says what a command that
  is about to return has stored, and what an exception in flight means.

The second part of `SealWorkflow_proofs` is about commands whose names are left alone. Of
its theorems the first two assume `Undisturbed`: the faults `retag`, `stream` and
`misread` are off, that is, users keep a command's names to themselves while it runs, and
`cat` and `test` in an image work, which the code does not look at. Without any of the
three the refinement is false (section 4).

* `SourcesHold`: `[]SealInv`, the inductive invariant. To the three invariants above it
  adds `SourceInv`: commands that run keep apart (`Together`), and until a command has
  stored its result, all it has in hands was made of the image its source names *now*,
  though the code resolves that name several times (`Made`); afterwards only its end is
  left (`Published`).
* `CommandsAreAtomic`: `RefinesAtomic`. `RefinesStep` maps each action of the workflow
  to a step of `SealAtomic` or to none: the one that stores a result under a user's name
  is the atomic command, made of the source at that moment; a kill, a failure or Ctrl-C
  at any other place is none.
* `ExtractsAreFresh`: under `OwnNames` only (the fault `retag` is off), whatever `cat` and
  `test` report. It needs to know of each command that runs which directory is its own.
* `TemporariesGo`: under another hypothesis, that `podman image rm` works (the fault `rm`
  is off), and with all other faults. `OwnedInv` says which context manager owns a
  temporary image at each place of a command.

`DiskImage_proofs`:

* `TypeCorrect`: the types, which labels and options belong together (`Flow`), and what
  is known at each of them.
* `ResultsHold`: `[]ResultInv`, the inductive invariant: what a command has composed,
  stored, moved, looked up, made and written is what its options ask for (`Digest`,
  `Stored`, `Sourced`, `DiskMade`, `DiskWritten`), whatever commands beside it do to
  their own names and files. `BuildCompletes`, `BuilderStaysCurrent` and `DiskCompletes`,
  action properties about a step that ends with status 0, follow from it.
* `CleansUp`: from `HandedOver`, the temporary container is on the `ExitStack` before it
  is stored.
  For `DiskWritten`, what `todo` still has and what the files written so far hold are
  taken together, because a file may be replaced by another partition of its name.
* `FailuresHaveReasons`, for every command line that is accepted: but for
  `build-builder --oci-archive` without `out`, none fails by itself.
* `ToolsFitDistro`, under two hypotheses: the source's `/etc/build-info` can be read
  (the fault `probe` is off, as a failed read is taken for the default distro), and
  `BuildersKept`, a distro's builder name is used for builders of that distro only.

`DiskExport_proofs`:

* `TruncateSafe`, `ExtractFaithful`: from `IInv`, whose parts are the types of the
  variables of the two loops, `Truncating` (`pos` is the end of the last data found,
  and when the search has ended only hole follows) and `Extracting` (`part.img` is
  the partition up to the position reached and hole from there on; the read
  descriptor is `start` ahead of the write descriptor). Lemmas state what an extent
  is and what rounding up gives.
* `SparseFaithful`: from `SparseInv`. `Chained`: the chunks collected are runs of blocks
  that follow each other, and one of hole has no data in any block. `Written`: what a
  reader of the image has of the blocks written so far is the partition. `Writing`: the
  implicit offset of the format is the sum of the chunks before, and the counts in the
  header are those of the chunks that follow.

`CacheFile_proofs`:

* `UpdatesExclude`: `[]UpdateHoldsFile`, for any number of processes and inodes. It
  follows from who holds the lock of which inode, and from the fact that a process
  which has passed the check holds the lock of the inode at the path.
* `FileIsAtomic`: `ImplementsAtomicFile`; every step of every process maps to a step of
  `AtomicFile` or to none; the file's content is that of the inode at the path.

`OsbuildRun_proofs`, for any number of lines, any size of the pipe, any set of file
systems below one another:

* `RunInv`: the inductive invariant. `Phase` and `Ended` say what is known of osbuild and
  of the output at each place; `Listed` that what is mounted is on the list of what to
  unmount or `Endangered`, by a umount that failed there or below. That is where the order
  of the list is needed: what is still mounted below the one that is tried is not on the
  list any more, so a umount failed there or further below, and `Below` is transitive.
* `StatusIsHonest`, `CleanupWaits`, `DataIsSpared`: the three safety properties of the run
  `osbuild_run`, from that invariant.

`SimpleManifest_proofs`, for any manifest, any files and globs within what `Glob` and
`Entry` read, and any number of entries and checks:

* `FilesCopied`, `TreesPreserved`, `ChecksInstalled`: the three safety properties of the
  run `manifest`, all from `IInv`, which TLC has checked on that run's instance. None of the
  properties is inductive: they speak of a partition that is loaded, the steps of one
  entry. `ManifestInv` and `RecordsInv` say what the manifest and the dictionaries look
  like, `PhaseInv` which handler works for which partition; `CountInv` that the numbers
  below `nextid`, and no others, are given out, without a gap, so that a number read off
  the shared counter is nobody else's; `LoopInv` that exactly the first entries of
  `add_files` and of the checks' drop-ins behind them, those no longer in `contents`, have
  been copied and have their directories (`Handled`); `SetInv` that of a partition that is
  set all have, whatever the other one does with the counter afterwards.
* About the operators: `normpath` leaves a path without `..` alone, and takes back as many
  names as there are `..` behind them; what `Found` matches is below the directory that
  `_calculate_destination_path` takes for the base of the glob, in each of its four cases,
  so that `relpath` never has to go up; and with the base the same for all, what is left of
  two different files is different.

`FsCache_proofs`, for any number of processes, names and directories, and any number of
kills and failing system calls:

* `TypeCorrect`: `[]TypeOK`; `cache.size` is a natural number, and within a maximum-size
  that users set. It needs the locks (the space of an
  object is measured by who holds its lock) and `Listing`: who removes looks at an entry.
  `Only`, which keeps the order of last use, is a function of positions, so that a lemma
  (`OnlyType`) can say what it returns.
* `OvercountsAreCaused`, `UndercountsAreCaused`: for a finite number of directories. What
  was added to the counter is taken as a set of bytes (`Counted`), which one object's bytes
  can be taken from and put back. `CountInv` says that what is counted stands, or somebody
  holds its lock and is removing it (`CountStands`), that what is gone holds no lock
  (`GoneIsBare`), that `store` counts its object once (`StoredCount`), and that what
  eviction gives back is no less than what was counted (`RemovedCount`). `StepExcess` then goes through the steps that change the counter or an
  object and finds each difference among `Leaks` or `Overdraws`.
* `CacheHolds`: `[]CacheInv`, the inductive invariant. `LockInv` says who holds which
  lock at each place of `store`, `load` and eviction, and so that nobody else writes to
  the object; `InfoStands` that an `object.info` stands for whole and counted data,
  which a remover respects because it unlinks the info first, and gives up where it
  cannot; `ReadIsLocked` that an object that is read has its lock file.
* `InfoIsHonest`, `ReadersAreSafe`: the two safety properties of the run `cache`.
* `ReadsAreStable`: no step changes or moves an object while somebody reads it.

`BuildInputs_proofs`, for any policies, manifests and arguments, and dictionaries and
lists of any length:

* `PolicyMerged`: `[]PolicyIsMerged`. `MergedInv` follows the loop of the merge, section
  by section and entry by entry: the sections before the one at hand are merged, that one
  is merged up to the current entry (`Part`), and those behind it are as in the file.
  Nothing is claimed of a dictionary that grew under the loop, which ends in an error.
* `NothingForbidden`: from `AllowedInv`, what was validated is still allowed by the
  policy: nothing between validation and mpp changes the policy, and only a define of
  the user names another target.
* `SourcesAreRanked`: from `ForcedInv` and `LoopInv`, which says after each argument of
  `--define`, `--define-file` and `--extend-define` what those before it say together.
* `IdentitiesTell`: for any two builds the code accepts. `ToldInv` says from place to place
  what of the identity each variable is a function of (`Told`), with the variables left out
  of it set aside, and `BuiltInv` keeps that for each build that reached mpp. What
  `Unidentified` and `--extend-define` except is in the property, not in a hypothesis; the
  one hypothesis, `NoneIsNoValue`, is about how a missing value is written.

Only model checked:

* Liveness (`ExportEnds`, `UpdatesEnd`, `RunEnds`): out of the prover's
  reach.
* The two properties that are violated, `TargetRulesApply` and `ExternalIsExternal`:
  a counterexample is all there is to show.

## 6. Not modelled

* **mpp** expands directives by evaluating Python expressions out of YAML: its result is
  as arbitrary as the templates. `DiskImage` takes it as an opaque tree.
* **The dependency lock** is a function of what registries and dnf answer; what a
  model could check, that the key of a request covers all that decides its answer, is
  a comparison of argument lists rather than of behaviours. The hazard stands.
* **`air`** assembles one QEMU command line and waits for it.
* Formats: initramfs, cpio archives, partition tables, the bytes of sparse headers; what
  osbuild, image-builder and rpm-ostree put in an image; qemu-img and compression; the
  numbers and texts of the progress bar; `parse_size`.
* Vendored helpers of mpp other than the cache and its locks (`lvm2.py`, `jsoncomm.py`,
  `ostree.py`): copied from osbuild, and used by nothing but templates or not at all.
* Short writes and failing `lseek` in the export loops; Ctrl-C during hand-over and
  clean-up of `OsbuildRun`.
* The keepalive thread and the time sudo's ticket lasts: whether one password is enough
  for a build depends on a limit that the code neither reads nor sets.
* argparse tables, listings, logging, templates, packaging. `PROJECT.json` has the
  reason for each component.

## 7. What could follow

1. An abstract specification of `DiskImage` (outputs appear whole, in order) with
   `OsbuildRun` as the implementation of its osbuild step.
2. `DependencyLock`: a crash while the lock is dumped, and the key of a request.
