--------------------------- MODULE SimpleManifest ---------------------------
(***************************************************************************)
(* ManifestLoader._load of aib/simple.py: from a simple manifest to the    *)
(* variables simple.mpp.yml reads and the include file with the contents   *)
(* of the added files, one action per handler.                             *)
(*                                                                         *)
(* The root file system and the QM partition have the same kind of         *)
(* contents and share one ExtraInclude.  Values nothing here depends on    *)
(* (network, users, kernel options) are the names of their variables.      *)
(***************************************************************************)
EXTENDS GlobPaths, FiniteSets

CONSTANTS
  Manifest,   \* the manifests
  File,       \* the files on this machine
  None

\* What the schema makes of a manifest, and what the kernel makes of the machine.
Entry(e) == "glob" \in DOMAIN e => Glob(e.glob) /\ Names(e.path)

ASSUME ManifestAssumption ==
  /\ IsFiniteSet(File) /\ \A f \in File : Names(f)
  /\ \A m \in Manifest :
       /\ {"root", "qm", "commands", "var", "var_qm", "internal"} \subseteq DOMAIN m
       /\ m.root # None /\ IsFiniteSet(m.commands)
       /\ \A c \in {m.root, m.qm} \ {None} :
            c.files \in Seq(ToSet(c.files)) /\ \A e \in ToSet(c.files) : Entry(e)

VARIABLES
  pc,
  manifest,   \* the manifest; validating it puts defaults in
  part,       \* the partition whose contents are handled: "root" or "qm"
  contents,   \* the Contents object; its files are those not handled yet
  nextid, inputs, paths,  \* ExtraInclude: content_id and what it generates
  defines,    \* per partition, what its stages are given
  plain,      \* the other variables set
  sizes       \* the variables about the var partitions

vars == <<pc, manifest, part, contents, nextid, inputs, paths, defines, plain,
          sizes>>

Part  == {"root", "qm"}
Stage == {"copy", "mkdir", "symlinks", "systemd", "rpms"}
Nothing == [copy |-> <<>>, mkdir |-> {}, symlinks |-> {}, systemd |-> {},
            rpms |-> {}]

\* The variables experimental.internal_defines gives values to, by the partition or
\* "plain" and the name: set drops empty ones.
Replaced(m) ==
  {k \in DOMAIN m.internal : IF k[2] = "copy" THEN m.internal[k] # <<>>
                             ELSE k[1] \in Part => m.internal[k] # {}}

TypeOK ==
  /\ pc \in {"validate", "content", "sysboot", "files", "qm", "network", "auth",
             "kernel", "image", "experimental", "include", "done", "failed"}
  /\ part \in Part
  /\ nextid \in Nat
  /\ \A i \in DOMAIN inputs : i \in 1..(nextid - 1)
  /\ paths \in Seq(1..(nextid - 1))
  /\ \A p \in Part :
       /\ DOMAIN defines[p] = Stage
       /\ \A i \in DOMAIN defines[p].copy :
            \/ defines[p].copy[i].id \in DOMAIN inputs
            \/ <<p, "copy">> \in Replaced(manifest)

\* Contents.__init__
Contents(c) ==
  [files |-> c.files, copy |-> <<>>, dirs |-> c.dirs, links |-> c.links,
   systemd |-> c.systemd, rpms |-> c.rpms, containers |-> c.containers]

Init ==
  /\ pc = "validate"
  /\ manifest \in Manifest
  /\ part = "root"
  /\ contents = [files |-> <<>>, copy |-> <<>>, dirs |-> {}, links |-> {},
                 systemd |-> {}, rpms |-> {}, containers |-> FALSE]
  /\ nextid = 1 /\ inputs = <<>> /\ paths = <<>>
  /\ defines = [p \in Part |-> Nothing]
  /\ plain = {}
  /\ sizes = [p \in {"var", "var_qm"} |-> [size |-> None, relative |-> None]]

Fail == pc' = "failed"

-----------------------------------------------------------------------------
\* extend_with_default puts the relative size of the schema into a partition
\* that has none: the pattern of var also fits var_qm and comes first.
WithDefault(p) == IF p # None /\ p.relative = None THEN [p EXCEPT !.relative = 30] ELSE p

\* The schema is validated, defaults are filled in, then the policy is asked.
Validate ==
  /\ pc = "validate"
  /\ manifest' = [manifest EXCEPT !.var = WithDefault(@), !.var_qm = WithDefault(@)]
  /\ IF manifest.allowed THEN pc' = "content" ELSE Fail
  /\ UNCHANGED <<part, contents, nextid, inputs, paths, defines, plain, sizes>>

\* _validate_path
Below(path, dirs) ==
  /\ Len(path) > 1 /\ path[1] \in dirs
  /\ ~IsStrictPrefix(<<"usr", "local">>, path)

\* validate_paths: of what the manifest says, not of what globs expand to.
PathsAllowed(c) ==
  /\ \A i \in DOMAIN c.files : Below(c.files[i].path, {"etc", "usr"})
  /\ \A d \in c.dirs : Below(d, {"etc", "usr", "var"})
  /\ \A l \in c.links : Below(l, {"etc", "usr", "var"})

\* Contents(...) of the root file system; the sections of _load before it.
LoadContent ==
  /\ pc = "content"
  /\ plain' = plain \cup (manifest.plain \cap {"name", "version", "target"})
  /\ contents' = Contents(manifest.root)
  /\ IF PathsAllowed(manifest.root) THEN pc' = "sysboot" ELSE Fail
  /\ UNCHANGED <<manifest, part, nextid, inputs, paths, defines, sizes>>

Service(c) == "sysboot-check@" \o c \o ".service"
DropinDir(unit) == <<"usr", "lib", "systemd", "system", unit \o ".d">>
Dropin(c) == [path |-> Append(DropinDir(Service(c)), c \o ".conf"),
              source |-> [text |-> c]]
HasChecks == manifest.commands # {} \/ manifest.units # {}

\* Mutant: enabled_services is made anew for the checks.
EnabledAlone(services) == services

\* content.systemd["enabled_services"].append
Enabled(services) == contents.systemd \cup services

\* handle_sysboot_checks
HandleSysbootChecks ==
  /\ pc = "sysboot"
  /\ contents' = [contents EXCEPT
       !.dirs = @ \cup {DropinDir(Service(c)) : c \in manifest.commands}
                  \cup {DropinDir(u) : u \in manifest.units},
       !.files = @ \o SetToSeq({Dropin(c) : c \in manifest.commands}),
       !.links = @ \cup {Append(DropinDir(u), "sysboot.conf") : u \in manifest.units},
       !.systemd = IF HasChecks
                     THEN Enabled({Service(c) : c \in manifest.commands}
                                   \cup {"sysboot-health.target"})
                     ELSE @]
  /\ plain' = IF HasChecks THEN plain \cup {"system_boot_check"} ELSE plain
  /\ pc' = "files"
  /\ UNCHANGED <<manifest, part, nextid, inputs, paths, defines, sizes>>

-----------------------------------------------------------------------------
(* set_defines: the loop over add_files.                                   *)

File1 == Head(contents.files)
IsGlob(e) == "glob" \in DOMAIN e
MoreFiles == pc = "files" /\ contents.files # <<>>

\* _add_file_to_content, for each source: an input, a copy into the tree of
\* the include file, a copy out of it; dirs are directories to make first.
Add(sources, dests, dirs) ==
  LET n == Len(sources)
      new == nextid..(nextid + n - 1)
  IN
  /\ nextid' = nextid + n
  /\ inputs' = [k \in DOMAIN inputs \cup new |->
                 IF k \in new THEN sources[k - nextid + 1] ELSE inputs[k]]
  /\ paths' = paths \o [i \in 1..n |-> nextid + i - 1]
  /\ contents' = [contents EXCEPT
       !.files = Tail(@),
       !.dirs = @ \cup dirs,
       !.copy = @ \o [i \in 1..n |-> [id |-> nextid + i - 1, to |-> dests[i]]]]

AddSingle ==
  /\ MoreFiles /\ ~IsGlob(File1)
  /\ Add(<<File1.source>>, <<File1.path>>, {})
  /\ UNCHANGED <<pc, manifest, part, defines, plain, sizes>>

\* Mutant: the directory of the destination is made, not those below it.
TopOnly(dests, e) == {e.path}

\* _ensure_parent_directory
Parents(dests, e) ==
  IF e.preserve THEN {Dirname(d) : d \in dests} \ {e.path, <<>>} ELSE {}

\* _add_glob_files; the file system gives the matches in some order.
AddGlob ==
  /\ MoreFiles /\ IsGlob(File1)
  /\ LET files == SetToSeq(Found(File1.glob, File))
         dests == [i \in DOMAIN files |-> Destination(files[i], File1)]
     IN /\ files # <<>> /\ Len(files) <= File1.max
        /\ Add([i \in DOMAIN files |-> [path |-> files[i]]], dests,
               Parents(ToSet(dests), File1))
  /\ UNCHANGED <<pc, manifest, part, defines, plain, sizes>>

\* allow_empty: at least the directory is there.
AddEmpty ==
  /\ MoreFiles /\ IsGlob(File1)
  /\ Found(File1.glob, File) = {} /\ File1.allow_empty
  /\ Add(<<>>, <<>>, {File1.path})
  /\ UNCHANGED <<pc, manifest, part, defines, plain, sizes>>

\* NoMatchingFilesError, TooManyFilesError
GlobFails ==
  /\ MoreFiles /\ IsGlob(File1)
  /\ LET n == Cardinality(Found(File1.glob, File)) IN
       IF n = 0 THEN ~File1.allow_empty ELSE n > File1.max
  /\ Fail
  /\ UNCHANGED <<manifest, part, contents, nextid, inputs, paths, defines, plain,
                 sizes>>

\* get_key
StoreKey(p) == IF p = "qm" THEN "use_qm_containers_extra_store"
                           ELSE "use_containers_extra_store"

\* The end of set_defines; get_key puts the name of the partition in front.
SetDefines ==
  /\ pc = "files" /\ contents.files = <<>>
  /\ defines' = [defines EXCEPT ![part] =
       [copy |-> contents.copy, mkdir |-> contents.dirs,
        symlinks |-> contents.links, systemd |-> contents.systemd,
        rpms |-> contents.rpms \cup IF contents.containers THEN {"podman"} ELSE {}]]
  /\ plain' = IF contents.containers THEN plain \cup {StoreKey(part)} ELSE plain
  /\ pc' = IF part = "root" /\ manifest.qm # None THEN "qm" ELSE "network"
  /\ UNCHANGED <<manifest, part, contents, nextid, inputs, paths, sizes>>

-----------------------------------------------------------------------------
\* Mutant: QMContents has an ExtraInclude of its own.
HandleQmAlone ==
  /\ pc = "qm"
  /\ part' = "qm"
  /\ contents' = Contents(manifest.qm)
  /\ nextid' = 1
  /\ plain' = plain \cup {"use_qm"}
  /\ IF PathsAllowed(manifest.qm) THEN pc' = "files" ELSE Fail
  /\ UNCHANGED <<manifest, inputs, paths, defines, sizes>>

\* handle_qm: QMContents(...), then its set_defines, and limits of the QM.
HandleQm ==
  /\ pc = "qm"
  /\ part' = "qm"
  /\ contents' = Contents(manifest.qm)
  /\ plain' = plain \cup {"use_qm"}
       \cup (manifest.plain \cap {"qm_memory_max", "qm_memory_high", "qm_cpu_weight",
                                  "boot_check_qm_digest", "qm_use_userns"})
  /\ IF PathsAllowed(manifest.qm) THEN pc' = "files" ELSE Fail
  /\ UNCHANGED <<manifest, nextid, inputs, paths, defines, sizes>>

\* A handler that passes on what the manifest has of these variables.
PassOn(l, keys, next) ==
  /\ pc = l
  /\ plain' = plain \cup (manifest.plain \cap keys)
  /\ pc' = next
  /\ UNCHANGED <<manifest, part, contents, nextid, inputs, paths, defines, sizes>>

HandleNetwork == PassOn("network",
  {"use_static_ip", "static_ip", "static_ip_prefixlen", "static_gw", "static_dns",
   "static_ip_iface", "static_ip_iface_early", "static_ip_modules"}, "auth")

HandleAuth == PassOn("auth",
  {"root_password", "root_ssh_keys", "use_static_ssh_host_keys", "simple_sshd_config",
   "simple_groups", "simple_users"}, "kernel")

HandleKernel == PassOn("kernel",
  {"kernel_package", "kernel_version", "kernel_loglevel", "use_debug",
   "simple_kernel_opts", "denylist_modules"}, "image")

\* Sizes in the manifest are in bytes, in the variables in sectors.
Sector == 2

\* InvalidMountSize, InvalidMountRelSize
TooLarge(p) ==
  IF p.size # None
    THEN manifest.image_size \notin {None, 0} /\ p.size >= manifest.image_size
    ELSE p.relative # None /\ p.relative >= 100

\* What is set for a var partition.
SizesOf(p) ==
  CASE p = None -> [size |-> None, relative |-> None]
    [] p # None /\ p.size # None -> [size |-> p.size \div Sector, relative |-> None]
    [] p # None /\ p.size = None /\ p.relative # None ->
         [size |-> None, relative |-> p.relative]
    [] OTHER -> [size |-> IF p.external THEN -1 ELSE None, relative |-> None]

\* handle_image
HandleImage ==
  /\ pc = "image"
  /\ IF \/ \E p \in {manifest.var, manifest.var_qm} \ {None} : TooLarge(p)
        \/ manifest.cg_memory_min = 0
       THEN Fail /\ UNCHANGED <<plain, sizes>>
       ELSE /\ sizes' = [k \in DOMAIN sizes |->
                           SizesOf(IF k = "var" THEN manifest.var ELSE manifest.var_qm)]
            /\ plain' = plain \cup {"cg_memory_min"} \cup (manifest.plain \cap
                 {"hostname", "ostree_ref", "use_composefs_signed", "selinux_mode",
                  "selinux_policy", "selinux_booleans", "disable_gettys",
                  "enable_oom_protection", "enable_reclaim_protection",
                  "grow_rootfs", "efipart_size", "tmp_size", "shm_size"})
            /\ pc' = "experimental"
  /\ UNCHANGED <<manifest, part, contents, nextid, inputs, paths, defines>>

\* handle_experimental: values of its own for variables, those set before included.
HandleExperimental ==
  /\ pc = "experimental"
  /\ LET new(p, k, old) ==
           IF <<p, k>> \in Replaced(manifest) THEN manifest.internal[<<p, k>>] ELSE old
     IN /\ defines' = [p \in Part |-> [k \in Stage |-> new(p, k, defines[p][k])]]
        /\ sizes' = [p \in DOMAIN sizes |->
                       [k \in DOMAIN sizes[p] |-> new(p, k, sizes[p][k])]]
  /\ plain' = plain \cup {k[2] : k \in {k \in Replaced(manifest) : k[1] = "plain"}}
  /\ pc' = "include"
  /\ UNCHANGED <<manifest, part, contents, nextid, inputs, paths>>

\* extra_include.generate() is written, and imported by simple.mpp.yml.
WriteInclude ==
  /\ pc = "include"
  /\ plain' = plain \cup {"simple_import"}
  /\ pc' = "done"
  /\ UNCHANGED <<manifest, part, contents, nextid, inputs, paths, defines, sizes>>

Next ==
  \/ Validate \/ LoadContent \/ HandleSysbootChecks
  \/ AddSingle \/ AddGlob \/ AddEmpty \/ GlobFails \/ SetDefines
  \/ HandleQm \/ HandleNetwork \/ HandleAuth \/ HandleKernel
  \/ HandleImage \/ HandleExperimental \/ WriteInclude

Spec == Init /\ [][Next]_vars

-----------------------------------------------------------------------------
Given(p) == IF p = "root" THEN manifest.root ELSE manifest.qm
Loaded(p) == pc = "done" /\ (p = "qm" => manifest.qm # None)

\* The sources and destinations an entry of add_files asks for.
Asked(e) ==
  IF IsGlob(e) THEN {<<[path |-> f], Destination(f, e)>> : f \in Found(e.glob, File)}
               ELSE {<<e.source, e.path>>}

\* What the build copies into partition p: out of the tree of the include
\* file, which was filled from the inputs.
Copied(p) ==
  {<<inputs[defines[p].copy[i].id], defines[p].copy[i].to>> :
     i \in {i \in DOMAIN defines[p].copy : defines[p].copy[i].id \in ToSet(paths)}}

\* Every partition gets its own files, each with its own content at its own
\* place, and the drop-ins of the checks; though both share the numbers.
FilesAreCopied ==
  \A p \in Part : Loaded(p) /\ <<p, "copy">> \notin Replaced(manifest) =>
    Copied(p) = (UNION {Asked(Given(p).files[i]) : i \in DOMAIN Given(p).files})
                  \cup IF p = "root" THEN {<<Dropin(c).source, Dropin(c).path>> :
                                             c \in manifest.commands}
                                     ELSE {}

\* A glob whose base is not a directory its files are in: a name cut at its "*", or a
\* wildcard taken for a name, or the name of the file itself.
Ambiguous(g) ==
  LET n == Len(Base(g)) IN
  n = Len(g.parts) \/ \E i \in 1..n : g.parts[i].star # "no"

\* Files of a glob stay below the directory they are asked for, no two of a
\* preserved tree at one place, and the directories between are made before.
TreesArePreserved ==
  \A p \in Part : Loaded(p) /\ <<p, "mkdir">> \notin Replaced(manifest) =>
    \A i \in DOMAIN Given(p).files :
      LET e == Given(p).files[i] IN
      IsGlob(e) /\ ~Ambiguous(e.glob) =>
        \A f, g \in Found(e.glob, File) :
          /\ IsStrictPrefix(e.path, Destination(f, e))
          /\ Dirname(Destination(f, e)) \in {e.path} \cup defines[p].mkdir
          /\ e.preserve /\ f # g => Destination(f, e) # Destination(g, e)

\* A check has its drop-in, the directory for it and its service enabled, in the root
\* file system only; the services of the manifest stay enabled.  A list that
\* internal_defines gives is all there is instead: simple_systemd among them drops the
\* services of every check, though system_boot_check stays set.
ChecksAreInstalled ==
  LET Own(p, k) == Loaded(p) /\ <<p, k>> \notin Replaced(manifest) IN
  /\ Own("root", "systemd") =>
       /\ manifest.root.systemd \subseteq defines["root"].systemd
       /\ \A c \in manifest.commands : Service(c) \in defines["root"].systemd
       /\ HasChecks => "sysboot-health.target" \in defines["root"].systemd
  /\ Own("root", "mkdir") =>
       \A c \in manifest.commands : DropinDir(Service(c)) \in defines["root"].mkdir
  /\ Own("root", "copy") =>
       \A c \in manifest.commands :
         <<[text |-> c], Append(DropinDir(Service(c)), c \o ".conf")>> \in Copied("root")
  /\ Own("qm", "systemd") => defines["qm"].systemd = manifest.qm.systemd
  /\ \A p \in Part, k \in Stage : Loaded(p) /\ <<p, k>> \in Replaced(manifest) =>
       defines[p][k] = manifest.internal[<<p, k>>]

\* "The /var partition is on an external device (not an image parition)"
ExternalIsExternal ==
  pc = "done" => \A k \in {"var", "var_qm"} :
    LET p == IF k = "var" THEN manifest.var ELSE manifest.var_qm
    IN p # None /\ p.external => sizes[k].size = -1
=============================================================================
