---------------------------- MODULE BuildInputs -----------------------------
(***************************************************************************)
(* create_osbuild_manifest of aib/osbuild.py: the variables aib-osbuild-mpp *)
(* is run with, from the policy, the simple manifest, the arguments and    *)
(* the user's defines, and the identity reproducible builds derive their   *)
(* UUIDs from.                                                             *)
(*                                                                         *)
(* A variable's value is a scalar or a list; a list is a set, for nothing  *)
(* depends on its order.                                                   *)
(***************************************************************************)
EXTENDS Policy, FiniteSets

CONSTANTS
  DefaultTarget,  \* globals.default_target
  Inputs,         \* what a build may be started with
  Rebuilds,       \* those of them after which another build is started
  Malformed,      \* a --define without "=", a define file that is not a dict
  NoValue

\* What a build sets whatever it is given: where it runs, when the manifest was
\* written and what it is called.
BaseNames == {"_basedir", "_workdir", "name", "osbuild_major_version",
              "print_variables", "manifest_mtime"}

\* A build has a policy file or none, what it sets without --define and its like
\* has these names, and what is a list is one.
ASSUME InputsAssumption ==
  /\ Rebuilds \subseteq Inputs
  /\ \A i \in Inputs :
       /\ i.target \in Target \cup {NoTarget}
       /\ i.policy # NoPolicy => PolicyFile(i.policy.rules)
       /\ DOMAIN i.base \subseteq BaseNames
       /\ DOMAIN i.options \subseteq
            {"ostree_parent_refs", "source_date_epoch", "reproducible_image"}
       /\ DOMAIN i.local \subseteq {"local_repo"}
       /\ \A l \in {i.define, i.defineFile, i.extend} : l \in Seq(ToSet(l))

VARIABLES
  input,    \* the files and arguments of the build
  defines,  \* the variables, a function from their names
  user,     \* user_defines
  built     \* history: the identity and the variables mpp was run with

buildVars == <<input, defines, user, built>>
vars == <<pc, failure, policyVars, buildVars>>

Scalar(x) == [list |-> FALSE, items |-> {x}]
List(S) == [list |-> TRUE, items |-> S]
Value(v) == /\ v.list \in BOOLEAN
            /\ IsFiniteSet(v.items)
            /\ ~v.list => Cardinality(v.items) = 1

Empty == <<>>
Defines(d) == \A k \in DOMAIN d : Value(d[k])

HasPolicy == input.policy # NoPolicy

Init ==
  /\ input \in Inputs
  /\ pc = "load" /\ failure = "none"
  /\ policy = NoPolicy /\ name = 1 /\ entry = 1 /\ grown = FALSE
  /\ defines = Empty /\ user = Empty /\ built = {}

-----------------------------------------------------------------------------
(* The policy: AIBParameters.policy                                        *)

LoadPolicy ==
  /\ \/ HasPolicy /\ Load(input.policy.rules)
     \/ /\ pc = "load" /\ ~HasPolicy
        /\ Goto("variables")
        /\ UNCHANGED policyVars
  /\ UNCHANGED buildVars

MergePolicy == MergeEntry(input.target) /\ UNCHANGED buildVars
MergedSection == EndSection /\ UNCHANGED buildVars

PolicyLoaded ==
  /\ pc = "merge" /\ name > Len(Sections)
  /\ Goto("variables")
  /\ UNCHANGED <<policyVars, buildVars>>

-----------------------------------------------------------------------------
(* The variables                                                           *)

Forced == IF HasPolicy THEN Get(policy["variables"], "force", Empty) ELSE Empty

PolicyVariables ==
  IF ~HasPolicy THEN Empty
  ELSE Var("policy_denylist_rpms", List(Get(policy["rpms"], "disallow", {})))
    ++ Var("policy_masked_services",
           List(Get(policy["systemd"], "masked_services", {})))

\* Of image_mode, arch and distro_name, which the identity has, the first.
BuildVariables == input.base ++ Var("image_mode", Scalar(input.mode))

\* Mutant: only the lists are taken from the policy.
AddPolicyLists ==
  /\ pc = "variables"
  /\ defines' = PolicyVariables ++ BuildVariables
  /\ Goto("manifest")
  /\ UNCHANGED <<policyVars, input, user, built>>

\* defines.update(forced_vars), over the build's own variables, and the lists.
AddPolicyVariables ==
  /\ pc = "variables"
  /\ defines' = PolicyVariables ++ Forced ++ BuildVariables
  /\ Goto("manifest")
  /\ UNCHANGED <<policyVars, input, user, built>>

\* ManifestLoader.set, of each variable: empty lists are left out.
ManifestVariables(m) ==
  [k \in {x \in DOMAIN m.sets : m.sets[x] # List({})} |-> m.sets[k]]

\* The default target, and ManifestLoader.load of a simple manifest.
LoadManifest ==
  /\ pc = "manifest"
  /\ LET m == input.manifest IN
       IF /\ m.simple /\ HasPolicy
          /\ RefusesManifest(policy["manifest_restrictions"], m.properties)
         THEN Fail("manifest refused") /\ UNCHANGED defines
         ELSE /\ defines' =
                   (IF m.simple THEN ManifestVariables(m) ELSE Empty)
                     ++ Var("target", Scalar(DefaultTarget)) ++ defines
              /\ Goto("arguments")
  /\ UNCHANGED <<policyVars, input, user, built>>

\* --target and --root-password.
Arguments ==
  (IF input.target = NoTarget THEN Empty ELSE Var("target", Scalar(input.target)))
  ++ (IF input.password = NoValue THEN Empty
      ELSE Var("root_password", Scalar(input.password)))

\* Mutant: the manifest's target is not validated.
TargetOfCommand(d) ==
  {IF input.target = NoTarget THEN DefaultTarget ELSE input.target}

\* What validate_policy_args is given as the target.
TargetToValidate(d) == d["target"].items

\* validate_policy_args
Refused(targets) ==
  \/ input.policy.simpleOnly /\ ~input.manifest.simple
  \/ Refuses(policy["modes"], input.mode)
  \/ \E t \in targets : Refuses(policy["targets"], t)

ApplyArguments ==
  /\ pc = "arguments"
  /\ defines' = Arguments ++ defines
  /\ IF HasPolicy /\ Refused(TargetToValidate(defines'))
       THEN Fail("build refused") ELSE Goto("options")
  /\ UNCHANGED <<policyVars, input, user, built>>

\* The parent refs of --ostree-repo, SOURCE_DATE_EPOCH and --reproducible.
ApplyOptions ==
  /\ pc = "options"
  /\ IF input.badEpoch THEN Fail("SOURCE_DATE_EPOCH") /\ UNCHANGED defines
     ELSE defines' = input.options ++ defines /\ Goto("define")
  /\ entry' = 1
  /\ UNCHANGED <<policy, name, grown, input, user, built>>

\* The items of an argument that is repeated, one by one, and then the next one.
Item(items, l, next, Apply) ==
  /\ pc = l
  /\ IF entry > Len(items) THEN Goto(next) /\ entry' = 1 /\ UNCHANGED <<defines, user>>
     ELSE IF items[entry] = Malformed
       THEN Fail("InvalidOption") /\ UNCHANGED <<entry, defines, user>>
       ELSE Apply /\ entry' = entry + 1
  /\ UNCHANGED <<policy, name, grown, input, built>>

\* --define, and a --define-file: later ones replace earlier ones.
Replace(vs) ==
  /\ defines' = vs ++ defines
  /\ user' = vs ++ user
  /\ UNCHANGED <<pc, failure>>

Define == Item(input.define, "define", "define-file", Replace(input.define[entry]))
DefineFile ==
  Item(input.defineFile, "define-file", "extend", Replace(input.defineFile[entry]))

Items(v) == v.items

\* --extend-define: a variable that is not a list has no method extend.
Extend(k, more) ==
  /\ user' = Var(k, List((IF k \in DOMAIN user THEN Items(user[k]) ELSE {})
                            \cup more)) ++ user
  /\ IF k \in DOMAIN defines /\ ~defines[k].list
       THEN Fail("not a list") /\ UNCHANGED defines
       ELSE /\ defines' = Var(k, List((IF k \in DOMAIN defines
                                         THEN Items(defines[k]) ELSE {})
                                        \cup more)) ++ defines
            /\ UNCHANGED <<pc, failure>>

ExtendDefine ==
  LET e == input.extend[entry] IN
  Item(input.extend, "extend", "repos", Extend(e.key, Items(e.value)))

\* --extra-repo: a new list, of those defined and those given; --local-repo.
ExtraRepos(d) ==
  IF "extra_repo_urls" \in DOMAIN d THEN d["extra_repo_urls"] ELSE List({})

AddRepos ==
  /\ pc = "repos"
  /\ IF input.repos = {} THEN defines' = input.local ++ defines /\ Goto("run")
     ELSE IF ~ExtraRepos(defines).list
       THEN Fail("not a list") /\ UNCHANGED defines
       ELSE /\ defines' =
                 Var("extra_repo_urls",
                     List(ExtraRepos(defines).items \cup input.repos))
                 ++ input.local ++ defines
            /\ Goto("run")
  /\ UNCHANGED <<policyVars, input, user, built>>

-----------------------------------------------------------------------------
(* The run                                                                 *)

DefinedOr(k, v) == IF k \in DOMAIN defines THEN defines[k] ELSE v

\* Mutant: the user's defines are left out.
IdentityOfManifest ==
  [manifest |-> input.manifest,
   mode     |-> input.mode,
   target   |-> DefinedOr("target", NoValue),
   defines  |-> Empty,
   local    |-> DefinedOr("local_repo", NoValue),
   parents  |-> DefinedOr("ostree_parent_refs", NoValue),
   policy   |-> policy,
   repos    |-> IF input.repos = {} THEN NoValue ELSE defines["extra_repo_urls"]]

\* What manifest_content_hash is the hash of: nothing of the build's own variables,
\* of --root-password, of SOURCE_DATE_EPOCH and of --reproducible.
Identity ==
  [manifest |-> input.manifest,
   mode     |-> input.mode,
   target   |-> DefinedOr("target", NoValue),
   defines  |-> user,
   local    |-> DefinedOr("local_repo", NoValue),
   parents  |-> DefinedOr("ostree_parent_refs", NoValue),
   policy   |-> policy,
   repos    |-> IF input.repos = {} THEN NoValue ELSE defines["extra_repo_urls"]]

Extends == {e.key : e \in ToSet(input.extend)}

RunMpp ==
  /\ pc = "run"
  /\ built' =
       built \cup {[id |-> Identity, with |-> defines, extended |-> Extends]}
  /\ Goto("ran")
  /\ UNCHANGED <<policyVars, input, defines, user>>

\* The bound on builds: the identities of two are compared.
MaxBuilds == 2

\* Another build is started, of which the history keeps two.
Rebuild ==
  /\ pc = "ran" /\ input \in Rebuilds /\ Cardinality(built) < MaxBuilds
  /\ input' \in Rebuilds
  /\ pc' = "load" /\ UNCHANGED failure
  /\ policy' = NoPolicy /\ name' = 1 /\ entry' = 1 /\ grown' = FALSE
  /\ defines' = Empty /\ user' = Empty
  /\ UNCHANGED built

Next ==
  \/ LoadPolicy \/ MergePolicy \/ MergedSection \/ PolicyLoaded
  \/ AddPolicyVariables \/ LoadManifest \/ ApplyArguments \/ ApplyOptions
  \/ Define \/ DefineFile \/ ExtendDefine \/ AddRepos \/ RunMpp \/ Rebuild

Spec == Init /\ [][Next]_vars

-----------------------------------------------------------------------------

TypeOK ==
  /\ pc \in {"load", "merge", "variables", "manifest", "arguments", "options",
             "define", "define-file", "extend", "repos", "run", "ran", "failed"}
  /\ (pc = "failed") = (failure # "none")
  /\ policy # NoPolicy =>
       /\ DOMAIN policy = Section
       /\ \A s \in Section : \A e \in ToSet(policy[s]) :
            e.for \in Target \cup {Global}
  /\ name \in 1 .. Len(Sections) + 1
  /\ entry \in Nat /\ grown \in BOOLEAN
  /\ Defines(defines) /\ Defines(user)
  /\ \A b \in built : Defines(b.with)

\* "merge target-specific entries and remove @target keys": a policy that is
\* loaded says what its file does for the target of the command, no more or less.
PolicyIsMerged ==
  HasPolicy /\ pc \notin {"load", "merge", "failed"} =>
    MergedFor(input.policy.rules, input.target)

\* mpp runs only with a mode, a manifest and, whoever gave it, a target that the
\* policy allows, unless the user's own define names another target.
NoForbiddenBuild ==
  pc = "run" /\ HasPolicy =>
    /\ ~Refuses(policy["modes"], input.mode)
    /\ "target" \notin DOMAIN user =>
         \A t \in defines["target"].items : ~Refuses(policy["targets"], t)
    /\ input.policy.simpleOnly => input.manifest.simple
    /\ input.manifest.simple =>
         ~RefusesManifest(policy["manifest_restrictions"], input.manifest.properties)

\* What else sets a variable: a manifest, an argument or a define that names it, and
\* what is set whatever the policy says.
NamedElsewhere ==
  UNION {DOMAIN user, DOMAIN Arguments, DOMAIN input.options, DOMAIN input.local,
         IF input.manifest.simple THEN DOMAIN input.manifest.sets ELSE {},
         IF input.repos = {} THEN {} ELSE {"extra_repo_urls"},
         DOMAIN PolicyVariables, {"target"}}

\* A variable that the policy forces and nothing else names reaches mpp with the
\* forced value.  One that something else names is not claimed: the code lets the
\* other replace it, while docs/CODEBASE.md:186 resolves "user manifest -> computed
\* variables -> policy enforcement" and README.md:166 promises to "Force specific
\* manifest variables".
ForcedUnlessNamed ==
  pc = "run" =>
    \A k \in DOMAIN Forced \ NamedElsewhere :
      k \in DOMAIN defines /\ defines[k] = Forced[k]

\* A variable that --define or --define-file names, and no policy sets, has the last
\* of their values, and every item --extend-define adds to it; repository arguments
\* come after.
UserDefinesWin ==
  LET sets == input.define \o input.defineFile
      naming(k) == {i \in DOMAIN sets : k \in DOMAIN sets[i]}
      added(k) == UNION {Items(e.value) : e \in {x \in ToSet(input.extend) : x.key = k}}
      ofPolicy == DOMAIN Forced \cup DOMAIN PolicyVariables
  IN pc = "run" =>
       /\ \A k \in Extends \ ofPolicy :
            k # "local_repo" => added(k) \subseteq defines[k].items
       /\ \A k \in UNION {DOMAIN f : f \in ToSet(sets)} \ ofPolicy :
            k \notin {"local_repo", "extra_repo_urls"} =>
              defines[k].items = sets[Max(naming(k))][k].items \cup added(k)

\* create_osbuild_manifest merges nine sources into one dictionary in a fixed
\* order: no variable that only a policy or only users name is lost on the way.
\* Which of the two prevails where both name one is left open.
SourcesRank == ForcedUnlessNamed /\ UserDefinesWin

\* The variables whose source is not in the identity: README.md:210 has it of "arch,
\* distro, target, defines, local repo, ostree refs".  --reproducible is one, though
\* osbuild.py:212 calls it a shorthand for --define reproducible_image=true, which is
\* in the identity.
Unidentified ==
  BaseNames \cup {"root_password", "source_date_epoch", "reproducible_image"}

\* What two builds are held to: a variable named here is not, unless a define sets
\* it, and neither is one that --extend-define extends, which user_defines keeps as
\* if it were all that is defined.
Identifies(a, b, k) ==
  /\ k \notin a.extended \cup b.extended
  /\ k \in Unidentified => k \in DOMAIN a.id.defines

\* "Identifies the manifest and parameters", but for the ones above: builds with the
\* same identity, and so the same UUIDs, run mpp with the same variables and values.
IdentityTells ==
  \A a, b \in built : a.id = b.id =>
    \A k \in DOMAIN a.with \cup DOMAIN b.with : Identifies(a, b, k) =>
      /\ k \in DOMAIN a.with /\ k \in DOMAIN b.with
      /\ a.with[k] = b.with[k]

\* The rules for a target apply when an image is built for it, whoever named it.
TargetRulesApply ==
  pc = "run" /\ HasPolicy /\ "target" \notin DOMAIN user =>
    \A t \in defines["target"].items : MergedFor(input.policy.rules, t)
=============================================================================
