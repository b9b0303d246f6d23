------------------------- MODULE BuildInputs_proofs -------------------------
(***************************************************************************)
(* Proofs about BuildInputs: for policies, manifests and arguments of      *)
(* every kind, what a loaded policy says is what its file does for the     *)
(* target, nothing the policy refuses reaches mpp, what reaches it is what *)
(* the sources of a variable say in their order, and the identity tells it.*)
(***************************************************************************)
EXTENDS BuildInputs, Integers, TLAPS

-----------------------------------------------------------------------------
(* Dictionaries.                                                           *)

\* dict.update: what f has stands, and what only g has is kept.
LEMMA OverIs ==
  ASSUME NEW f, NEW g
  PROVE  /\ DOMAIN (f ++ g) = DOMAIN f \cup DOMAIN g
         /\ \A k \in DOMAIN f : (f ++ g)[k] = f[k]
         /\ \A k \in DOMAIN g : k \notin DOMAIN f => (f ++ g)[k] = g[k]
  BY DEF ++

\* A dictionary of one variable.
LEMMA VarIs ==
  ASSUME NEW k, NEW v
  PROVE  DOMAIN Var(k, v) = {k} /\ Var(k, v)[k] = v
  BY DEF Var

LEMMA EmptyIs == DOMAIN Empty = {}
  BY DEF Empty

-----------------------------------------------------------------------------
(* The invariants.                                                         *)

\* Behind validate_policy_args.
Validated == {"options", "define", "define-file", "extend", "repos", "run", "ran"}

\* What was validated is what the policy still allows: the policy is not changed
\* behind it, and only a define can name another target.
AllowedInv ==
  /\ pc \in {"arguments"} \cup Validated =>
       /\ "target" \in DOMAIN defines
       /\ HasPolicy /\ input.manifest.simple =>
            ~RefusesManifest(policy["manifest_restrictions"],
                             input.manifest.properties)
  /\ pc \in Validated /\ HasPolicy =>
       /\ ~Refuses(policy["modes"], input.mode)
       /\ input.policy.simpleOnly => input.manifest.simple
       /\ "target" \notin DOMAIN user =>
            \A t \in defines["target"].items : ~Refuses(policy["targets"], t)

\* Behind the policy's variables.
Filled == {"manifest", "arguments"} \cup Validated

\* What the policy forces stays until something else names it.
ForcedInv ==
  pc \in Filled =>
    \A k \in DOMAIN Forced \ NamedElsewhere :
      k \in DOMAIN defines /\ defines[k] = Forced[k]

\* The dictionaries of --define and --define-file in the order of their use, and
\* how many of them, and of the arguments of --extend-define, have been used.
Sets == input.define \o input.defineFile

Seen ==
  IF pc = "define" THEN entry - 1
  ELSE IF pc = "define-file" THEN Len(input.define) + entry - 1
  ELSE Len(Sets)

SeenMore ==
  IF pc \in {"define", "define-file"} THEN 0
  ELSE IF pc = "extend" THEN entry - 1
  ELSE Len(input.extend)

\* The i-th dictionary is the last of n that names k.
LastOf(k, i, n) ==
  /\ i \in 1 .. n /\ k \in DOMAIN Sets[i]
  /\ \A j \in 1 .. n : k \in DOMAIN Sets[j] => j <= i

\* What the first n arguments of --extend-define add to variable k.
Adds(k, n) ==
  UNION {Items(input.extend[i].value) : i \in {j \in 1 .. n : input.extend[j].key = k}}

\* Where the defines of users are applied, and after.
Using == {"define", "define-file", "extend", "repos", "run", "ran"}

EntryInv ==
  /\ pc = "define" => entry \in 1 .. Len(input.define) + 1
  /\ pc = "define-file" => entry \in 1 .. Len(input.defineFile) + 1
  /\ pc = "extend" => entry \in 1 .. Len(input.extend) + 1

\* What the first n dictionaries and m extensions say of the variables they name
\* is what the variables are.
Ranked(n, m) ==
  /\ \A k \in UNION {DOMAIN Sets[i] : i \in 1 .. n} :
       \E i \in 1 .. n :
         /\ LastOf(k, i, n) /\ k \in DOMAIN defines
         /\ k \notin {"local_repo", "extra_repo_urls"} =>
              defines[k].items = Sets[i][k].items \cup Adds(k, m)
  /\ \A j \in 1 .. m :
       LET k == input.extend[j].key IN
       /\ k \in DOMAIN defines
       /\ k # "local_repo" => Adds(k, m) \subseteq defines[k].items

RankedInv == pc \in Using => Ranked(Seen, SeenMore)

-----------------------------------------------------------------------------
(* Steps.                                                                  *)

\* Nothing but the policy's own steps and a new build changes the policy, and
\* nothing but a new build the inputs.
Fixed == UNCHANGED <<policy, input>>

\* A repeated argument: it is at its end, one is malformed, or one is applied.
LEMMA OneDefine ==
  ASSUME NEW items, NEW l, NEW next, Item(items, l, next, Replace(items[entry]))
  PROVE  /\ pc = l /\ Fixed
         /\ \/ /\ entry > Len(items) /\ pc' = next /\ entry' = 1
               /\ UNCHANGED <<defines, user>>
            \/ pc' = "failed"
            \/ /\ ~(entry > Len(items)) /\ pc' = l /\ entry' = entry + 1
               /\ defines' = items[entry] ++ defines /\ user' = items[entry] ++ user
  BY DEF Item, Replace, Goto, Fail, Fixed

\* The same of --extend-define.
LEMMA OneExtend ==
  ASSUME ExtendDefine
  PROVE  LET e == input.extend[entry] IN
         /\ pc = "extend" /\ Fixed
         /\ \/ /\ entry > Len(input.extend) /\ pc' = "repos" /\ entry' = 1
               /\ UNCHANGED <<defines, user>>
            \/ pc' = "failed"
            \/ /\ ~(entry > Len(input.extend)) /\ pc' = "extend" /\ entry' = entry + 1
               /\ \E v : user' = Var(e.key, v) ++ user
               /\ defines' =
                    Var(e.key, List((IF e.key \in DOMAIN defines
                                       THEN Items(defines[e.key]) ELSE {})
                                      \cup Items(e.value))) ++ defines
  BY DEF ExtendDefine, Item, Extend, Goto, Fail, Fixed

\* --local-repo and --extra-repo.
LEMMA OneAddRepos ==
  ASSUME AddRepos
  PROVE  /\ pc = "repos" /\ Fixed /\ UNCHANGED <<user, entry>>
         /\ \/ input.repos = {} /\ pc' = "run" /\ defines' = input.local ++ defines
            \/ pc' = "failed"
            \/ /\ input.repos # {} /\ pc' = "run"
               /\ defines' =
                    Var("extra_repo_urls",
                        List(ExtraRepos(defines).items \cup input.repos))
                      ++ input.local ++ defines
  BY DEF AddRepos, Goto, Fail, Fixed, policyVars

\* Until the manifest is loaded nothing has been promised.
LEMMA EarlyStep ==
  ASSUME LoadPolicy \/ MergePolicy \/ MergedSection \/ PolicyLoaded
           \/ AddPolicyVariables
  PROVE  pc' \in {"merge", "variables", "manifest", "failed"} /\ input' = input
<1>1. ASSUME NEW s, NEW e, NEW t, Merge(s, e, t)
      PROVE  pc' \in {"merge", "failed"}
  BY <1>1 DEF Merge, Goto, Fail
<1>2. CASE LoadPolicy
  BY <1>2 DEF LoadPolicy, Load, Goto, Fail, buildVars
<1>3. CASE MergePolicy
  <2>1. pc' \in {"merge", "failed"}
    BY <1>1, <1>3 DEF MergePolicy, MergeEntry, Fail
  <2> QED
    BY <1>3, <2>1 DEF MergePolicy, buildVars
<1>4. CASE MergedSection
  BY <1>4 DEF MergedSection, EndSection, buildVars
<1>5. CASE PolicyLoaded
  BY <1>5 DEF PolicyLoaded, Goto, buildVars
<1>6. CASE AddPolicyVariables
  BY <1>6 DEF AddPolicyVariables, Goto
<1> QED
  BY <1>2, <1>3, <1>4, <1>5, <1>6

LEMMA NewBuild ==
  ASSUME Rebuild
  PROVE  pc' = "load" /\ input' \in Inputs
  BY InputsAssumption DEF Rebuild

-----------------------------------------------------------------------------
(* Nothing forbidden.                                                      *)

LEMMA InitAllowed == Init => input \in Inputs /\ AllowedInv
  BY DEF Init, AllowedInv, Validated

\* A step behind the validation that replaces no target but a define's.
LEMMA StaysAllowed ==
  ASSUME AllowedInv, Fixed, pc \in Validated,
         NEW f, defines' = f ++ defines,
         "target" \in DOMAIN f => "target" \in DOMAIN user',
         "target" \in DOMAIN user => "target" \in DOMAIN user'
  PROVE  AllowedInv'
<1>1. /\ "target" \in DOMAIN defines'
      /\ "target" \notin DOMAIN user' => defines'["target"] = defines["target"]
  BY DEF AllowedInv, ++
<1>2. HasPolicy' = HasPolicy
  BY DEF HasPolicy, Fixed
<1> QED
  BY <1>1, <1>2 DEF AllowedInv, Fixed

LEMMA NextAllowed ==
  ASSUME input \in Inputs, AllowedInv, [Next]_vars
  PROVE  input' \in Inputs /\ AllowedInv'
<1>1. CASE LoadPolicy \/ MergePolicy \/ MergedSection \/ PolicyLoaded
             \/ AddPolicyVariables
  BY <1>1, EarlyStep DEF AllowedInv, Validated
<1>2. CASE LoadManifest
  <2>1. Fixed /\ pc' \in {"arguments", "failed"}
    BY <1>2 DEF LoadManifest, Fixed, Goto, Fail, policyVars
  <2>2. ASSUME pc' = "arguments"
        PROVE  /\ "target" \in DOMAIN defines'
               /\ ~(/\ input.manifest.simple /\ HasPolicy
                    /\ RefusesManifest(policy["manifest_restrictions"],
                                       input.manifest.properties))
    <3> DEFINE m == IF input.manifest.simple THEN ManifestVariables(input.manifest)
                    ELSE Empty
    <3>1. ~(/\ input.manifest.simple /\ HasPolicy
            /\ RefusesManifest(policy["manifest_restrictions"],
                               input.manifest.properties))
      BY <1>2, <2>2 DEF LoadManifest, Fail
    <3>2. defines' = m ++ Var("target", Scalar(DefaultTarget)) ++ defines
      BY <1>2, <3>1 DEF LoadManifest
    <3>3. DOMAIN defines' =
            (DOMAIN m \cup DOMAIN Var("target", Scalar(DefaultTarget)))
              \cup DOMAIN defines
      <4> HIDE DEF m
      <4> QED
        BY <3>2, OverIs
    <3> QED
      BY <3>1, <3>3 DEF Var
  <2> QED
    BY <2>1, <2>2 DEF AllowedInv, Validated, Fixed, HasPolicy
<1>3. CASE ApplyArguments
  <2>1. Fixed /\ user' = user /\ pc' \in {"options", "failed"}
    BY <1>3 DEF ApplyArguments, Fixed, Goto, Fail, policyVars
  <2>2. "target" \in DOMAIN defines'
    BY <1>3 DEF ApplyArguments, AllowedInv, ++
  <2>3. ASSUME pc' = "options", HasPolicy
        PROVE  ~Refused(defines'["target"].items)
    BY <1>3, <2>3 DEF ApplyArguments, TargetToValidate, Fail
  <2>4. pc = "arguments"
    BY <1>3 DEF ApplyArguments
  <2>5. HasPolicy' = HasPolicy /\ policy' = policy /\ input' = input
    BY <2>1 DEF Fixed, HasPolicy
  <2> QED
    BY <2>1, <2>2, <2>3, <2>4, <2>5 DEF AllowedInv, Validated, Refused
<1>4. CASE ApplyOptions
  <2>1. /\ Fixed /\ user' = user /\ pc = "options"
        /\ \/ pc' = "failed"
           \/ pc' = "define" /\ defines' = input.options ++ defines
    BY <1>4 DEF ApplyOptions, Fixed, Goto, Fail
  <2>2. "target" \notin DOMAIN input.options
    BY InputsAssumption
  <2> QED
    BY <2>1, <2>2, StaysAllowed DEF AllowedInv, Validated, Fixed
<1>5. ASSUME NEW items, NEW l, NEW next, Item(items, l, next, Replace(items[entry])),
             l \in Validated, next \in Validated
      PROVE  input' \in Inputs /\ AllowedInv'
  <2>1. Fixed /\ pc \in Validated /\ input' \in Inputs
    BY <1>5, OneDefine DEF Fixed
  <2>2. CASE pc' = "failed"
    BY <2>1, <2>2 DEF AllowedInv, Validated
  <2>3. CASE pc' = next /\ UNCHANGED <<defines, user>>
    BY <1>5, <2>1, <2>3 DEF AllowedInv, Fixed, HasPolicy
  <2>4. CASE defines' = items[entry] ++ defines /\ user' = items[entry] ++ user
    <3>1. DOMAIN user' = DOMAIN items[entry] \cup DOMAIN user
      BY <2>4, OverIs
    <3> QED
      BY <2>1, <2>4, <3>1, StaysAllowed
  <2> QED
    BY <1>5, <2>2, <2>3, <2>4, OneDefine
<1>6. CASE Define \/ DefineFile
  BY <1>5, <1>6 DEF Define, DefineFile, Validated
<1>7. CASE ExtendDefine
  <2> DEFINE e == input.extend[entry]
  <2>1. Fixed /\ pc \in Validated /\ input' \in Inputs
    BY <1>7, OneExtend DEF Fixed, Validated
  <2>2. CASE pc' = "failed"
    BY <2>1, <2>2 DEF AllowedInv, Validated
  <2>3. CASE pc' = "repos" /\ UNCHANGED <<defines, user>>
    BY <2>1, <2>3 DEF AllowedInv, Fixed, HasPolicy, Validated
  <2>4. ASSUME NEW v, user' = Var(e.key, v) ++ user,
               NEW w, defines' = Var(e.key, w) ++ defines
        PROVE  AllowedInv'
    <3>1. /\ DOMAIN user' = {e.key} \cup DOMAIN user
          /\ DOMAIN Var(e.key, w) = {e.key}
      BY <2>4 DEF ++, Var
    <3> HIDE DEF e
    <3> QED
      BY <2>1, <2>4, <3>1, StaysAllowed
  <2> QED
    BY <1>7, <2>1, <2>2, <2>3, <2>4, OneExtend
<1>8. CASE AddRepos
  <2>1. Fixed /\ pc \in Validated /\ input' \in Inputs /\ user' = user
    BY <1>8, OneAddRepos DEF Fixed, Validated
  <2>2. "target" \notin DOMAIN input.local
    BY InputsAssumption
  <2>3. ASSUME NEW v,
               defines' = Var("extra_repo_urls", v) ++ input.local ++ defines
        PROVE  AllowedInv'
    <3>1. DOMAIN (Var("extra_repo_urls", v) ++ input.local)
            = {"extra_repo_urls"} \cup DOMAIN input.local
      BY DEF ++, Var
    <3> QED
      BY <2>1, <2>2, <2>3, <3>1, StaysAllowed
  <2>4. CASE defines' = input.local ++ defines
    BY <2>1, <2>2, <2>4, StaysAllowed
  <2>5. CASE pc' = "failed"
    BY <2>1, <2>5 DEF AllowedInv, Validated
  <2> QED
    BY <1>8, <2>1, <2>3, <2>4, <2>5, OneAddRepos
<1>9. CASE RunMpp
  BY <1>9 DEF RunMpp, Goto, AllowedInv, Validated, policyVars, HasPolicy
<1>10. CASE Rebuild
  BY <1>10, NewBuild DEF AllowedInv, Validated
<1>11. CASE UNCHANGED vars
  BY <1>11 DEF vars, policyVars, buildVars, AllowedInv, HasPolicy
<1> QED
  BY <1>1, <1>2, <1>3, <1>4, <1>6, <1>7, <1>8, <1>9, <1>10, <1>11 DEF Next

\* What the policy refuses never reaches mpp: not a mode, not a manifest, and not
\* a target, whether the command, the manifest or the default named it.
THEOREM NothingForbidden == Spec => []NoForbiddenBuild
<1>1. input \in Inputs /\ AllowedInv => NoForbiddenBuild
  BY DEF AllowedInv, NoForbiddenBuild, Validated
<1>2. (input \in Inputs /\ AllowedInv) /\ [Next]_vars => (input \in Inputs /\ AllowedInv)'
  BY NextAllowed
<1> QED
  BY <1>1, <1>2, InitAllowed, PTL DEF Spec

-----------------------------------------------------------------------------
(* What is forced.                                                         *)

\* What has been named stays named.
LEMMA NamedGrows ==
  ASSUME Fixed, DOMAIN user \subseteq DOMAIN user'
  PROVE  NamedElsewhere \subseteq NamedElsewhere' /\ Forced' = Forced
<1>1. /\ policy' = policy /\ input' = input
      /\ HasPolicy' = HasPolicy
  BY DEF Fixed, HasPolicy
<1>2. Forced' = Forced
  BY <1>1 DEF Forced
<1>3. PolicyVariables' = PolicyVariables
  BY <1>1 DEF PolicyVariables
<1>4. Arguments' = Arguments
  BY <1>1 DEF Arguments
<1> QED
  BY <1>1, <1>2, <1>3, <1>4 DEF NamedElsewhere

\* A step that sets nothing but what is then named elsewhere.
LEMMA StaysForced ==
  ASSUME ForcedInv, Fixed, pc \in Filled, DOMAIN user \subseteq DOMAIN user',
         NEW f, defines' = f ++ defines, DOMAIN f \subseteq NamedElsewhere'
  PROVE  ForcedInv'
<1> SUFFICES ASSUME NEW k \in DOMAIN Forced' \ NamedElsewhere'
             PROVE  k \in DOMAIN defines' /\ defines'[k] = Forced'[k]
  BY DEF ForcedInv
<1>1. Forced' = Forced /\ k \notin NamedElsewhere /\ k \notin DOMAIN f
  BY NamedGrows
<1>2. k \in DOMAIN defines /\ defines[k] = Forced[k]
  BY <1>1 DEF ForcedInv
<1> QED
  BY <1>1, <1>2 DEF ++

\* A step that sets nothing.
LEMMA KeptForced ==
  ASSUME ForcedInv, Fixed, pc \in Filled, UNCHANGED <<defines, user>>
  PROVE  ForcedInv'
<1>1. Forced' = Forced /\ NamedElsewhere \subseteq NamedElsewhere'
  BY NamedGrows
<1> QED
  BY <1>1 DEF ForcedInv

LEMMA NextForced ==
  ASSUME input \in Inputs, ForcedInv, [Next]_vars
  PROVE  ForcedInv'
<1> USE DEF Filled, Validated
<1>1. CASE LoadPolicy \/ MergePolicy \/ MergedSection \/ PolicyLoaded
  <2>1. pc' \in {"merge", "variables", "failed"}
    <3>1. CASE pc' = "manifest"
      BY <1>1, <3>1 DEF LoadPolicy, Load, MergePolicy, MergeEntry, Merge,
                        MergedSection, EndSection, PolicyLoaded, Goto, Fail
    <3> QED
      BY <1>1, <3>1, EarlyStep
  <2> QED
    BY <2>1 DEF ForcedInv
<1>2. CASE AddPolicyVariables
  <2>1. /\ defines' = PolicyVariables ++ Forced ++ BuildVariables
        /\ Fixed /\ user' = user
    BY <1>2 DEF AddPolicyVariables, Fixed, policyVars
  <2>2. Forced' = Forced /\ NamedElsewhere \subseteq NamedElsewhere'
    BY <2>1, NamedGrows
  <2>3. DOMAIN PolicyVariables \subseteq NamedElsewhere
    BY DEF NamedElsewhere
  <2> SUFFICES ASSUME NEW k \in DOMAIN Forced \ NamedElsewhere
               PROVE  k \in DOMAIN defines' /\ defines'[k] = Forced[k]
    BY <2>2 DEF ForcedInv
  <2>4. /\ k \in DOMAIN (PolicyVariables ++ Forced)
        /\ (PolicyVariables ++ Forced)[k] = Forced[k]
    BY <2>3 DEF ++
  <2> QED
    BY <2>1, <2>4 DEF ++
<1>3. CASE LoadManifest
  <2> DEFINE m == IF input.manifest.simple THEN ManifestVariables(input.manifest)
                  ELSE Empty
  <2>1. Fixed /\ user' = user /\ pc' \in {"arguments", "failed"} /\ pc \in Filled
    BY <1>3 DEF LoadManifest, Fixed, Goto, Fail, policyVars
  <2>2. CASE pc' = "arguments"
    <3>1. defines' = m ++ Var("target", Scalar(DefaultTarget)) ++ defines
      BY <1>3, <2>2 DEF LoadManifest, Fail
    <3>2. /\ input.manifest.simple => DOMAIN m \subseteq DOMAIN input.manifest.sets
          /\ ~input.manifest.simple => DOMAIN m = {}
      BY EmptyIs DEF ManifestVariables
    <3>3. DOMAIN m \cup {"target"} \subseteq NamedElsewhere
      BY <3>2 DEF NamedElsewhere
    <3> HIDE DEF m
    <3>4. DOMAIN (m ++ Var("target", Scalar(DefaultTarget))) = DOMAIN m \cup {"target"}
      BY DEF ++, Var
    <3> QED
      BY <2>1, <3>1, <3>3, <3>4, NamedGrows, StaysForced
  <2> QED
    BY <2>1, <2>2 DEF ForcedInv
<1>4. CASE ApplyArguments
  <2>1. /\ Fixed /\ user' = user /\ pc \in Filled
        /\ defines' = Arguments ++ defines
    BY <1>4 DEF ApplyArguments, Fixed, policyVars
  <2>2. DOMAIN Arguments \subseteq NamedElsewhere
    BY DEF NamedElsewhere
  <2> QED
    BY <2>1, <2>2, NamedGrows, StaysForced
<1>5. CASE ApplyOptions
  <2>1. /\ Fixed /\ user' = user /\ pc \in Filled
        /\ \/ pc' = "failed"
           \/ defines' = input.options ++ defines
    BY <1>5 DEF ApplyOptions, Fixed, Goto, Fail
  <2>2. DOMAIN input.options \subseteq NamedElsewhere
    BY DEF NamedElsewhere
  <2> QED
    BY <2>1, <2>2, NamedGrows, StaysForced DEF ForcedInv
<1>6. ASSUME NEW items, NEW l, NEW next, Item(items, l, next, Replace(items[entry])),
             l \in Validated
      PROVE  ForcedInv'
  <2>1. Fixed /\ pc \in Filled
    BY <1>6, OneDefine
  <2>2. CASE UNCHANGED <<defines, user>>
    BY <2>1, <2>2, KeptForced
  <2>3. CASE defines' = items[entry] ++ defines /\ user' = items[entry] ++ user
    <3>1. DOMAIN user' = DOMAIN items[entry] \cup DOMAIN user
      BY <2>3 DEF ++
    <3>2. DOMAIN user' \subseteq NamedElsewhere'
      BY DEF NamedElsewhere
    <3> QED
      BY <2>1, <2>3, <3>1, <3>2, StaysForced
  <2> QED
    BY <1>6, <2>2, <2>3, OneDefine DEF ForcedInv
<1>7. CASE Define \/ DefineFile
  BY <1>6, <1>7 DEF Define, DefineFile
<1>8. CASE ExtendDefine
  <2> DEFINE e == input.extend[entry]
  <2>1. Fixed /\ pc \in Filled
    BY <1>8, OneExtend
  <2>2. CASE UNCHANGED <<defines, user>>
    BY <2>1, <2>2, KeptForced
  <2>3. ASSUME NEW v, user' = Var(e.key, v) ++ user,
               NEW w, defines' = Var(e.key, w) ++ defines
        PROVE  ForcedInv'
    <3> HIDE DEF e
    <3>1. /\ DOMAIN user' = {e.key} \cup DOMAIN user
          /\ DOMAIN Var(e.key, w) = {e.key}
      BY <2>3 DEF ++, Var
    <3>2. DOMAIN user' \subseteq NamedElsewhere'
      BY DEF NamedElsewhere
    <3> QED
      BY <2>1, <2>3, <3>1, <3>2, StaysForced
  <2> QED
    BY <1>8, <2>2, <2>3, OneExtend DEF ForcedInv
<1>9. CASE AddRepos
  <2>1. Fixed /\ pc \in Filled /\ user' = user
    BY <1>9, OneAddRepos
  <2>2. DOMAIN input.local \subseteq NamedElsewhere
    BY DEF NamedElsewhere
  <2>3. ASSUME NEW v, input.repos # {},
               defines' = Var("extra_repo_urls", v) ++ input.local ++ defines
        PROVE  ForcedInv'
    <3>1. DOMAIN (Var("extra_repo_urls", v) ++ input.local)
            = {"extra_repo_urls"} \cup DOMAIN input.local
      BY DEF ++, Var
    <3>2. "extra_repo_urls" \in NamedElsewhere
      BY <2>3 DEF NamedElsewhere
    <3> QED
      BY <2>1, <2>2, <2>3, <3>1, <3>2, NamedGrows, StaysForced
  <2>4. CASE defines' = input.local ++ defines
    BY <2>1, <2>2, <2>4, NamedGrows, StaysForced
  <2> QED
    BY <1>9, <2>3, <2>4, OneAddRepos DEF ForcedInv
<1>10. CASE RunMpp
  BY <1>10, KeptForced DEF RunMpp, Fixed, policyVars
<1>11. CASE Rebuild
  BY <1>11, NewBuild DEF ForcedInv
<1>12. CASE UNCHANGED vars
  <2>1. CASE pc \in Filled
    BY <1>12, <2>1, KeptForced DEF vars, policyVars, buildVars, Fixed
  <2> QED
    BY <1>12, <2>1 DEF vars, ForcedInv
<1> QED
  BY <1>1, <1>2, <1>3, <1>4, <1>5, <1>7, <1>8, <1>9, <1>10, <1>11, <1>12 DEF Next

-----------------------------------------------------------------------------
(* Users have the last word.                                               *)

\* The arguments are sequences, and the dictionaries come one after the other.
LEMMA SetsAre ==
  ASSUME input \in Inputs
  PROVE  /\ Len(input.define) \in Nat /\ Len(input.defineFile) \in Nat
         /\ Len(input.extend) \in Nat
         /\ DOMAIN input.extend = 1 .. Len(input.extend)
         /\ Len(Sets) = Len(input.define) + Len(input.defineFile)
         /\ DOMAIN Sets = 1 .. Len(Sets)
         /\ \A i \in 1 .. Len(input.define) : Sets[i] = input.define[i]
         /\ \A i \in 1 .. Len(input.defineFile) :
              Sets[Len(input.define) + i] = input.defineFile[i]
<1>1. /\ input.define \in Seq(ToSet(input.define))
      /\ input.defineFile \in Seq(ToSet(input.defineFile))
      /\ input.extend \in Seq(ToSet(input.extend))
  BY InputsAssumption
<1>2. PICK S : input.define \in Seq(S) /\ input.defineFile \in Seq(S)
  <2> DEFINE S == ToSet(input.define) \cup ToSet(input.defineFile)
  <2>1. input.define \in Seq(S) /\ input.defineFile \in Seq(S)
    BY <1>1
  <2> QED
    BY <2>1
<1>3. PICK T : input.extend \in Seq(T)
  BY <1>1
<1>4. /\ Len(input.extend) \in Nat
      /\ DOMAIN input.extend = 1 .. Len(input.extend)
  BY <1>3
<1> DEFINE d == input.define
           f == input.defineFile
<1>5. Sets = d \o f
  BY DEF Sets
<1> HIDE DEF d, f
<1>6. /\ Len(d) \in Nat /\ Len(f) \in Nat
      /\ Len(d \o f) = Len(d) + Len(f)
      /\ DOMAIN (d \o f) = 1 .. Len(d \o f)
      /\ \A i \in 1 .. Len(d) : (d \o f)[i] = d[i]
      /\ \A i \in 1 .. Len(f) : (d \o f)[Len(d) + i] = f[i]
  <2>1. d \in Seq(S) /\ f \in Seq(S)
    BY <1>2 DEF d, f
  <2> QED
    BY <2>1
<1> QED
  BY <1>4, <1>5, <1>6 DEF d, f

\* What is to be shown of a step, in terms of the state before it.
LEMMA RankedNext ==
  ASSUME NEW n \in Nat, NEW m \in Nat, Fixed,
         \A k \in UNION {DOMAIN Sets[i] : i \in 1 .. n} :
           \E i \in 1 .. n :
             /\ LastOf(k, i, n) /\ k \in DOMAIN defines'
             /\ k \notin {"local_repo", "extra_repo_urls"} =>
                  defines'[k].items = Sets[i][k].items \cup Adds(k, m),
         \A j \in 1 .. m :
           LET k == input.extend[j].key IN
           /\ k \in DOMAIN defines'
           /\ k # "local_repo" => Adds(k, m) \subseteq defines'[k].items
  PROVE  Ranked(n, m)'
<1>1. input' = input /\ Sets' = Sets
  BY DEF Fixed, Sets
<1>2. \A k, i : /\ Adds(k, m)' = Adds(k, m)
                /\ LastOf(k, i, n)' <=> LastOf(k, i, n)
  BY <1>1 DEF Adds, LastOf
<1> QED
  BY <1>1, <1>2 DEF Ranked

\* One more dictionary: the variables it names are its own, the others' are as
\* they were.
LEMMA RankedGrows ==
  ASSUME NEW n \in Nat, Ranked(n, 0), Fixed, defines' = Sets[n + 1] ++ defines
  PROVE  Ranked(n + 1, 0)'
<1> DEFINE d == Sets[n + 1]
<1>1. input' = input /\ Sets' = Sets
  BY DEF Fixed, Sets
<1>2. \A k : Adds(k, 0) = {} /\ Adds(k, 0)' = {}
  BY DEF Adds
<1>3. /\ DOMAIN defines' = DOMAIN d \cup DOMAIN defines
      /\ \A k \in DOMAIN d : defines'[k] = d[k]
      /\ \A k \in DOMAIN defines : k \notin DOMAIN d => defines'[k] = defines[k]
  BY DEF ++
<1>4. ASSUME NEW k \in UNION {DOMAIN Sets[i] : i \in 1 .. n + 1}
      PROVE  \E i \in 1 .. n + 1 :
               /\ LastOf(k, i, n + 1) /\ k \in DOMAIN defines'
               /\ k \notin {"local_repo", "extra_repo_urls"} =>
                    defines'[k].items = Sets[i][k].items
  <2>1. CASE k \in DOMAIN d
    <3>1. LastOf(k, n + 1, n + 1)
      BY <2>1 DEF LastOf
    <3> QED
      BY <1>3, <2>1, <3>1
  <2>2. CASE k \notin DOMAIN d
    <3>1. k \in UNION {DOMAIN Sets[i] : i \in 1 .. n}
      <4>1. PICK i \in 1 .. n + 1 : k \in DOMAIN Sets[i]
        OBVIOUS
      <4>2. i \in 1 .. n
        BY <2>2, <4>1
      <4> QED
        BY <4>1, <4>2
    <3>2. PICK i \in 1 .. n :
            /\ LastOf(k, i, n) /\ k \in DOMAIN defines
            /\ k \notin {"local_repo", "extra_repo_urls"} =>
                 defines[k].items = Sets[i][k].items \cup Adds(k, 0)
      BY <3>1 DEF Ranked
    <3>3. LastOf(k, i, n + 1)
      <4>1. \A j \in 1 .. n + 1 : k \in DOMAIN Sets[j] => j \in 1 .. n
        BY <2>2
      <4> QED
        BY <3>2, <4>1 DEF LastOf
    <3>4. Sets[i][k].items \cup Adds(k, 0) = Sets[i][k].items
      BY <1>2
    <3>5. i \in 1 .. n + 1 /\ defines'[k] = defines[k] /\ k \in DOMAIN defines'
      BY <1>3, <2>2, <3>2
    <3> QED
      BY <3>2, <3>3, <3>4, <3>5
  <2> QED
    BY <2>1, <2>2
<1>5. \A k, i : LastOf(k, i, n + 1)' <=> LastOf(k, i, n + 1)
  BY <1>1 DEF LastOf
<1> QED
  BY <1>1, <1>2, <1>4, <1>5 DEF Ranked

\* One more extension: what it adds is added, to its own variable.
LEMMA RankedExtends ==
  ASSUME NEW n \in Nat, NEW m \in Nat, Ranked(n, m), Fixed,
         LET e == input.extend[m + 1] IN
         defines' = Var(e.key, List((IF e.key \in DOMAIN defines
                                       THEN Items(defines[e.key]) ELSE {})
                                      \cup Items(e.value))) ++ defines
  PROVE  Ranked(n, m + 1)'
<1> DEFINE e == input.extend[m + 1]
           key == e.key
           more == Items(e.value)
           old == IF key \in DOMAIN defines THEN Items(defines[key]) ELSE {}
<1>1. input' = input /\ Sets' = Sets
  BY DEF Fixed, Sets
<1>2. /\ DOMAIN defines' = {key} \cup DOMAIN defines
      /\ defines'[key].items = old \cup more
      /\ \A k \in DOMAIN defines : k # key => defines'[k] = defines[k]
  <2> HIDE DEF key
  <2> QED
    BY DEF ++, Var, List, key
<1>3. \A k : Adds(k, m + 1) = Adds(k, m) \cup (IF k = key THEN more ELSE {})
  <2> TAKE k
  <2>1. {j \in 1 .. m + 1 : input.extend[j].key = k}
          = {j \in 1 .. m : input.extend[j].key = k}
              \cup (IF k = key THEN {m + 1} ELSE {})
    BY Z3
  <2> QED
    BY <2>1 DEF Adds
<1>5. ASSUME NEW k \in UNION {DOMAIN Sets[i] : i \in 1 .. n}
      PROVE  \E i \in 1 .. n :
               /\ LastOf(k, i, n) /\ k \in DOMAIN defines'
               /\ k \notin {"local_repo", "extra_repo_urls"} =>
                    defines'[k].items = Sets[i][k].items \cup Adds(k, m + 1)
  <2>1. PICK i \in 1 .. n :
          /\ LastOf(k, i, n) /\ k \in DOMAIN defines
          /\ k \notin {"local_repo", "extra_repo_urls"} =>
               defines[k].items = Sets[i][k].items \cup Adds(k, m)
    BY DEF Ranked
  <2> HIDE DEF key, more
  <2>2. CASE k = key
    BY <1>2, <1>3, <2>1, <2>2 DEF Items
  <2>3. CASE k # key
    BY <1>2, <1>3, <2>1, <2>3
  <2> QED
    BY <2>2, <2>3
<1>6. ASSUME NEW j \in 1 .. m + 1, NEW k, k = input.extend[j].key
      PROVE  /\ k \in DOMAIN defines'
             /\ k # "local_repo" => Adds(k, m + 1) \subseteq defines'[k].items
  <2>1. CASE k = key
    <3>1. k # "local_repo" => Adds(k, m) \subseteq old
      <4>1. CASE \E i \in 1 .. m : input.extend[i].key = k
        BY <2>1, <4>1 DEF Ranked, Items
      <4>2. CASE ~ \E i \in 1 .. m : input.extend[i].key = k
        BY <4>2 DEF Adds
      <4> QED
        BY <4>1, <4>2
    <3> HIDE DEF key, more, old
    <3> QED
      BY <1>2, <1>3, <2>1, <3>1
  <2>2. CASE k # key
    <3>1. j \in 1 .. m
      BY <1>6, <2>2
    <3>2. /\ k \in DOMAIN defines
          /\ k # "local_repo" => Adds(k, m) \subseteq defines[k].items
      BY <1>6, <3>1 DEF Ranked
    <3> HIDE DEF key, more
    <3> QED
      BY <1>2, <1>3, <2>2, <3>2
  <2> QED
    BY <2>1, <2>2
<1>7. \A j \in 1 .. m + 1 :
        LET k == input.extend[j].key IN
        /\ k \in DOMAIN defines'
        /\ k # "local_repo" => Adds(k, m + 1) \subseteq defines'[k].items
  BY <1>6
<1>8. PICK M \in Nat : M = m + 1
  OBVIOUS
<1> HIDE DEF e, key, more, old
<1> QED
  <2>1. \A k \in UNION {DOMAIN Sets[i] : i \in 1 .. n} :
          \E i \in 1 .. n :
            /\ LastOf(k, i, n) /\ k \in DOMAIN defines'
            /\ k \notin {"local_repo", "extra_repo_urls"} =>
                 defines'[k].items = Sets[i][k].items \cup Adds(k, M)
    BY <1>5, <1>8
  <2>2. \A j \in 1 .. M :
          LET k == input.extend[j].key IN
          /\ k \in DOMAIN defines'
          /\ k # "local_repo" => Adds(k, M) \subseteq defines'[k].items
    BY <1>7, <1>8
  <2> QED
    BY <1>8, <2>1, <2>2, RankedNext

\* A step that changes no variable but those of repositories.
LEMMA RankedStays ==
  ASSUME NEW n \in Nat, NEW m \in Nat, Ranked(n, m), Fixed,
         DOMAIN defines \subseteq DOMAIN defines',
         \A k \in DOMAIN defines :
           /\ k \notin {"local_repo", "extra_repo_urls"} => defines'[k] = defines[k]
           /\ k # "local_repo" => defines[k].items \subseteq defines'[k].items
  PROVE  Ranked(n, m)'
<1>1. ASSUME NEW k \in UNION {DOMAIN Sets[i] : i \in 1 .. n}
      PROVE  \E i \in 1 .. n :
               /\ LastOf(k, i, n) /\ k \in DOMAIN defines'
               /\ k \notin {"local_repo", "extra_repo_urls"} =>
                    defines'[k].items = Sets[i][k].items \cup Adds(k, m)
  BY DEF Ranked
<1>2. ASSUME NEW j \in 1 .. m
      PROVE  LET k == input.extend[j].key IN
             /\ k \in DOMAIN defines'
             /\ k # "local_repo" => Adds(k, m) \subseteq defines'[k].items
  BY DEF Ranked
<1> QED
  BY <1>1, <1>2, RankedNext

\* A step that changes no variable.
LEMMA RankedSame ==
  ASSUME NEW n \in Nat, NEW m \in Nat, Ranked(n, m), Fixed, defines' = defines
  PROVE  Ranked(n, m)'
  BY RankedStays

\* What --local-repo and --extra-repo change.
LEMMA ReposOnly ==
  ASSUME NEW n \in Nat, NEW m \in Nat, Ranked(n, m), input \in Inputs, AddRepos,
         pc' # "failed"
  PROVE  Ranked(n, m)'
<1>1. DOMAIN input.local \subseteq {"local_repo"}
  BY InputsAssumption
<1>2. Fixed
  BY OneAddRepos
<1>3. CASE defines' = input.local ++ defines
  BY <1>1, <1>2, <1>3, RankedStays DEF ++
<1>4. CASE defines' = Var("extra_repo_urls",
                          List(ExtraRepos(defines).items \cup input.repos))
                        ++ input.local ++ defines
  <2> DEFINE more == List(ExtraRepos(defines).items \cup input.repos)
             f == Var("extra_repo_urls", more) ++ input.local
  <2>1. /\ DOMAIN f \subseteq {"extra_repo_urls", "local_repo"}
        /\ f["extra_repo_urls"] = more
        /\ "extra_repo_urls" \in DOMAIN f
    BY <1>1 DEF ++, Var
  <2>2. "extra_repo_urls" \in DOMAIN defines =>
          defines["extra_repo_urls"].items \subseteq more.items
    BY DEF ExtraRepos, List
  <2>3. defines' = f ++ defines
    BY <1>4
  <2> HIDE DEF f, more
  <2>4. /\ DOMAIN defines' = DOMAIN f \cup DOMAIN defines
        /\ \A k \in DOMAIN f : defines'[k] = f[k]
        /\ \A k \in DOMAIN defines : k \notin DOMAIN f => defines'[k] = defines[k]
    BY <2>3 DEF ++
  <2>5. ASSUME NEW k \in DOMAIN defines
        PROVE  /\ k \notin {"local_repo", "extra_repo_urls"} => defines'[k] = defines[k]
               /\ k # "local_repo" => defines[k].items \subseteq defines'[k].items
    BY <2>1, <2>2, <2>4, <2>5
  <2> QED
    BY <1>2, <2>4, <2>5, RankedStays
<1> QED
  BY <1>3, <1>4, OneAddRepos

\* An invariant of the loops, and how far they are.
LoopInv == EntryInv /\ RankedInv

LEMMA NextRanked ==
  ASSUME input \in Inputs, LoopInv, [Next]_vars
  PROVE  LoopInv'
<1> USE DEF LoopInv
<1>1. PICK d \in Nat, f \in Nat, x \in Nat :
        /\ d = Len(input.define) /\ f = Len(input.defineFile)
        /\ x = Len(input.extend) /\ Len(Sets) = d + f
  BY SetsAre, Zenon
<1>2. ASSUME pc' \notin Using PROVE LoopInv'
  BY <1>2 DEF Using, EntryInv, RankedInv
<1>2a. d + f \in Nat /\ Len(Sets) \in Nat
  <2>1. d + f \in Nat
    OBVIOUS
  <2> QED
    BY <1>1, <2>1, Zenon
<1>3. ASSUME Fixed
      PROVE  /\ Sets' = Sets /\ Len(Sets)' = Len(Sets)
             /\ Len(input.define)' = d
             /\ Len(input.defineFile)' = f /\ Len(input.extend)' = x
  BY <1>1, <1>3 DEF Fixed, Sets
<1>4. CASE LoadPolicy \/ MergePolicy \/ MergedSection \/ PolicyLoaded
             \/ AddPolicyVariables
  BY <1>2, <1>4, EarlyStep DEF Using
<1>5. CASE LoadManifest
  BY <1>2, <1>5 DEF LoadManifest, Goto, Fail, Using
<1>6. CASE ApplyArguments
  BY <1>2, <1>6 DEF ApplyArguments, Goto, Fail, Using
<1>7. CASE ApplyOptions
  <2>1. Fixed /\ entry' = 1 /\ pc' \in {"define", "failed"}
    BY <1>7 DEF ApplyOptions, Fixed, Goto, Fail
  <2>2. Ranked(0, 0)'
    BY <2>1, RankedNext
  <2>3. ASSUME pc' = "define" PROVE Seen' = 0 /\ SeenMore' = 0
    BY <2>1, <2>3 DEF Seen, SeenMore
  <2>4. ASSUME pc' = "define" PROVE Ranked(Seen, SeenMore)'
    BY <2>2, <2>3, <2>4
  <2>5. ASSUME pc' = "define" PROVE EntryInv'
    BY <1>1, <1>3, <2>1, <2>5 DEF EntryInv
  <2> QED
    BY <1>2, <2>1, <2>4, <2>5 DEF RankedInv, Using
<1>8. CASE Define
  <2>1. /\ pc = "define" /\ Fixed
        /\ \/ /\ entry > d /\ pc' = "define-file" /\ entry' = 1
              /\ defines' = defines
           \/ pc' = "failed"
           \/ /\ ~(entry > d) /\ pc' = "define" /\ entry' = entry + 1
              /\ defines' = input.define[entry] ++ defines
    <3>1. \/ /\ entry > Len(input.define) /\ pc' = "define-file" /\ entry' = 1
             /\ UNCHANGED <<defines, user>>
          \/ pc' = "failed"
          \/ /\ ~(entry > Len(input.define)) /\ pc' = "define" /\ entry' = entry + 1
             /\ defines' = input.define[entry] ++ defines
             /\ user' = input.define[entry] ++ user
      BY <1>8, OneDefine, Zenon DEF Define
    <3>2. pc = "define" /\ Fixed
      BY <1>8, OneDefine, Zenon DEF Define
    <3> QED
      BY <1>1, <3>1, <3>2, Zenon
  <2>2. entry \in 1 .. d + 1
    BY <1>1, <2>1, Zenon DEF EntryInv
  <2>2a. Ranked(entry - 1, 0)
    <3>1. Seen = entry - 1 /\ SeenMore = 0 /\ pc \in Using
      BY <2>1 DEF Using, Seen, SeenMore
    <3> QED
      BY <3>1, Zenon DEF RankedInv
  <2>3. CASE entry > d /\ pc' = "define-file" /\ entry' = 1 /\ defines' = defines
    <3>1. entry - 1 = d
      BY <2>2, <2>3
    <3>2. Seen' = d /\ SeenMore' = 0
      BY <1>1, <1>3, <2>1, <2>3 DEF Seen, SeenMore
    <3>3. PICK n \in Nat : n = d
      OBVIOUS
    <3>4. Ranked(n, 0)'
      BY <2>1, <2>2a, <2>3, <3>1, <3>3, RankedSame
    <3>5. EntryInv'
      BY <1>1, <1>3, <2>1, <2>3 DEF EntryInv
    <3> QED
      BY <2>3, <3>2, <3>3, <3>4, <3>5 DEF RankedInv
  <2>4. CASE /\ ~(entry > d) /\ pc' = "define" /\ entry' = entry + 1
             /\ defines' = input.define[entry] ++ defines
    <3>1. PICK n \in Nat : n + 1 = entry /\ n = entry - 1
      BY <2>2
    <3>2. entry \in 1 .. d
      BY <2>2, <2>4
    <3>2a. Sets[n + 1] = input.define[entry]
      BY <1>1, <3>1, <3>2, SetsAre, Zenon
    <3>3. Ranked(n + 1, 0)'
      BY <2>1, <2>2a, <2>4, <3>1, <3>2a, RankedGrows
    <3>4. Seen' = n + 1 /\ SeenMore' = 0
      BY <2>4, <3>1 DEF Seen, SeenMore
    <3>5. EntryInv'
      BY <1>1, <1>3, <2>1, <2>4, <3>2 DEF EntryInv
    <3> QED
      BY <3>3, <3>4, <3>5 DEF RankedInv
  <2> QED
    BY <1>2, <2>1, <2>3, <2>4 DEF Using
<1>9. CASE DefineFile
  <2>1. /\ pc = "define-file" /\ Fixed
        /\ \/ /\ entry > f /\ pc' = "extend" /\ entry' = 1
              /\ defines' = defines
           \/ pc' = "failed"
           \/ /\ ~(entry > f) /\ pc' = "define-file" /\ entry' = entry + 1
              /\ defines' = input.defineFile[entry] ++ defines
    <3>1. \/ /\ entry > Len(input.defineFile) /\ pc' = "extend" /\ entry' = 1
             /\ UNCHANGED <<defines, user>>
          \/ pc' = "failed"
          \/ /\ ~(entry > Len(input.defineFile)) /\ pc' = "define-file"
             /\ entry' = entry + 1
             /\ defines' = input.defineFile[entry] ++ defines
             /\ user' = input.defineFile[entry] ++ user
      BY <1>9, OneDefine, Zenon DEF DefineFile
    <3>2. pc = "define-file" /\ Fixed
      BY <1>9, OneDefine, Zenon DEF DefineFile
    <3> QED
      BY <1>1, <3>1, <3>2, Zenon
  <2>2. entry \in 1 .. f + 1
    BY <1>1, <2>1, Zenon DEF EntryInv
  <2>2a. Ranked(d + entry - 1, 0)
    <3>1. Seen = d + entry - 1 /\ SeenMore = 0 /\ pc \in Using
      BY <1>1, <2>1 DEF Using, Seen, SeenMore
    <3> QED
      BY <3>1, Zenon DEF RankedInv
  <2>3. CASE entry > f /\ pc' = "extend" /\ entry' = 1 /\ defines' = defines
    <3>1. d + entry - 1 = d + f
      BY <2>2, <2>3
    <3>2. Seen' = d + f /\ SeenMore' = 0
      <4>1. Seen' = Len(Sets)' /\ SeenMore' = entry' - 1
        BY <2>3 DEF Seen, SeenMore
      <4>2. entry' - 1 = 0
        BY <2>3
      <4> QED
        BY <1>1, <1>3, <2>1, <4>1, <4>2, Zenon
    <3>3. PICK n \in Nat : n = d + f
      OBVIOUS
    <3>4. Ranked(n, 0)'
      BY <2>1, <2>2a, <2>3, <3>1, <3>3, RankedSame
    <3>5. EntryInv'
      BY <1>1, <1>3, <2>1, <2>3 DEF EntryInv
    <3> QED
      BY <2>3, <3>2, <3>3, <3>4, <3>5 DEF RankedInv
  <2>4. CASE /\ ~(entry > f) /\ pc' = "define-file" /\ entry' = entry + 1
             /\ defines' = input.defineFile[entry] ++ defines
    <3>1. PICK n \in Nat : n + 1 = d + entry /\ n = d + entry - 1
      BY <2>2
    <3>2. entry \in 1 .. f
      BY <2>2, <2>4
    <3>2a. Sets[n + 1] = input.defineFile[entry]
      BY <1>1, <3>1, <3>2, SetsAre, Zenon
    <3>3. Ranked(n + 1, 0)'
      BY <2>1, <2>2a, <2>4, <3>1, <3>2a, RankedGrows
    <3>4. Seen' = n + 1 /\ SeenMore' = 0
      BY <1>1, <1>3, <2>1, <2>2, <2>4, <3>1 DEF Seen, SeenMore
    <3>5. EntryInv'
      BY <1>1, <1>3, <2>1, <2>4, <3>2 DEF EntryInv
    <3> QED
      BY <3>3, <3>4, <3>5 DEF RankedInv
  <2> QED
    BY <1>2, <2>1, <2>3, <2>4 DEF Using
<1>10. CASE ExtendDefine
  <2> DEFINE e == input.extend[entry]
  <2>1. /\ pc = "extend" /\ Fixed
        /\ \/ /\ entry > x /\ pc' = "repos" /\ entry' = 1
              /\ defines' = defines
           \/ pc' = "failed"
           \/ /\ ~(entry > x) /\ pc' = "extend" /\ entry' = entry + 1
              /\ defines' = Var(e.key, List((IF e.key \in DOMAIN defines
                                               THEN Items(defines[e.key]) ELSE {})
                                              \cup Items(e.value))) ++ defines
    BY <1>1, <1>10, OneExtend
  <2> HIDE DEF e
  <2>2. entry \in 1 .. x + 1
    BY <1>1, <2>1, Zenon DEF EntryInv
  <2>3. PICK s \in Nat : s = Len(Sets)
    BY <1>2a, Zenon
  <2>2a. Ranked(s, entry - 1)
    <3>1. Seen = s /\ SeenMore = entry - 1 /\ pc \in Using
      BY <2>1, <2>3 DEF Using, Seen, SeenMore
    <3> QED
      BY <3>1, Zenon DEF RankedInv
  <2>4. CASE entry > x /\ pc' = "repos" /\ entry' = 1 /\ defines' = defines
    <3>1. PICK m \in Nat : m = x /\ m = entry - 1
      BY <2>2, <2>4
    <3>2. Seen' = s /\ SeenMore' = m
      BY <1>1, <1>3, <2>1, <2>3, <2>4, <3>1 DEF Seen, SeenMore
    <3>3. Ranked(s, m)'
      BY <2>1, <2>2a, <2>4, <3>1, RankedSame
    <3>4. EntryInv'
      BY <2>4 DEF EntryInv
    <3> QED
      BY <3>2, <3>3, <3>4 DEF RankedInv
  <2>5. CASE /\ ~(entry > x) /\ pc' = "extend" /\ entry' = entry + 1
             /\ defines' = Var(e.key, List((IF e.key \in DOMAIN defines
                                              THEN Items(defines[e.key]) ELSE {})
                                             \cup Items(e.value))) ++ defines
    <3>1. PICK m \in Nat : m + 1 = entry /\ m = entry - 1
      BY <2>2
    <3>2. Ranked(s, m) /\ e = input.extend[m + 1]
      BY <2>2a, <3>1 DEF e
    <3>3. Ranked(s, m + 1)'
      BY <2>1, <2>5, <3>2, RankedExtends
    <3>4. Seen' = s /\ SeenMore' = m + 1
      BY <1>3, <2>1, <2>3, <2>5, <3>1 DEF Seen, SeenMore
    <3>5. EntryInv'
      BY <1>1, <1>3, <2>1, <2>2, <2>5 DEF EntryInv
    <3> QED
      BY <3>3, <3>4, <3>5 DEF RankedInv
  <2> QED
    BY <1>2, <2>1, <2>4, <2>5 DEF Using
<1>11. PICK s \in Nat : s = Len(Sets)
  BY <1>2a, Zenon
<1>12. ASSUME pc \in {"repos", "run", "ran"}
       PROVE  Ranked(s, x)
  BY <1>1, <1>11, <1>12 DEF RankedInv, Using, Seen, SeenMore
<1>13. ASSUME pc' \in {"repos", "run", "ran"}, Fixed, Ranked(s, x)'
       PROVE  LoopInv'
  <2>1. Seen' = s /\ SeenMore' = x
    BY <1>1, <1>3, <1>11, <1>13 DEF Seen, SeenMore
  <2> QED
    BY <1>13, <2>1 DEF RankedInv, EntryInv
<1>14. CASE AddRepos
  <2>1. pc = "repos" /\ Fixed /\ pc' \in {"run", "failed"}
    BY <1>14, OneAddRepos
  <2>2. ASSUME pc' = "run" PROVE Ranked(s, x)'
    BY <1>12, <1>14, <2>1, <2>2, ReposOnly
  <2> QED
    BY <1>2, <1>13, <2>1, <2>2 DEF Using
<1>15. CASE RunMpp
  <2>1. pc = "run" /\ Fixed /\ pc' = "ran" /\ defines' = defines
    BY <1>15 DEF RunMpp, Goto, Fixed, policyVars
  <2>2. Ranked(s, x)'
    BY <1>12, <2>1, RankedSame
  <2> QED
    BY <1>13, <2>1, <2>2
<1>16. CASE Rebuild
  BY <1>2, <1>16, NewBuild DEF Using
<1>17. CASE UNCHANGED vars
  <2>1. UNCHANGED <<pc, entry, defines, input, policy>>
    BY <1>17 DEF vars, policyVars, buildVars
  <2>2. CASE pc \in Using
    <3>1. Fixed
      BY <2>1 DEF Fixed
    <3>2. Seen \in Nat /\ SeenMore \in Nat
      <4>1. CASE pc = "define"
        <5>1. entry \in 1 .. d + 1
          BY <1>1, <4>1, Zenon DEF EntryInv
        <5> QED
          BY <4>1, <5>1 DEF Seen, SeenMore
      <4>2. CASE pc = "define-file"
        <5>1. entry \in 1 .. f + 1 /\ Seen = d + entry - 1
          BY <1>1, <4>2 DEF EntryInv, Seen
        <5> QED
          BY <4>2, <5>1 DEF SeenMore
      <4>3. CASE pc = "extend"
        <5>1. entry \in 1 .. x + 1
          BY <1>1, <4>3, Zenon DEF EntryInv
        <5> QED
          BY <1>2a, <4>3, <5>1 DEF Seen, SeenMore
      <4>4. CASE pc \notin {"define", "define-file", "extend"}
        BY <1>1, <1>2a, <4>4 DEF Seen, SeenMore
      <4> QED
        BY <4>1, <4>2, <4>3, <4>4
    <3>3. Seen' = Seen /\ SeenMore' = SeenMore
      BY <1>3, <2>1, <3>1 DEF Seen, SeenMore
    <3>4. PICK n \in Nat, l \in Nat : n = Seen /\ l = SeenMore
      BY <3>2
    <3>5. Ranked(n, l)'
      BY <2>1, <2>2, <3>1, <3>4, RankedSame DEF RankedInv
    <3>6. EntryInv'
      BY <1>3, <2>1, <3>1 DEF EntryInv
    <3> QED
      BY <3>3, <3>4, <3>5, <3>6 DEF RankedInv
  <2> QED
    BY <1>2, <2>1, <2>2
<1> QED
  BY <1>4, <1>5, <1>6, <1>7, <1>8, <1>9, <1>10, <1>14, <1>15, <1>16, <1>17 DEF Next

\* At the end the dictionaries and extensions are all of the user's.
LEMMA RankedAll ==
  ASSUME input \in Inputs, LoopInv
  PROVE  UserDefinesWin
<1> DEFINE naming(k) == {i \in DOMAIN Sets : k \in DOMAIN Sets[i]}
           ofPolicy == DOMAIN Forced \cup DOMAIN PolicyVariables
           added(k) ==
             UNION {Items(e.value) : e \in {x \in ToSet(input.extend) : x.key = k}}
           x == Len(input.extend)
           n == Len(Sets)
<1> SUFFICES ASSUME pc = "run"
             PROVE  /\ \A k \in Extends \ ofPolicy :
                         k # "local_repo" => added(k) \subseteq defines[k].items
                    /\ \A k \in UNION {DOMAIN f : f \in ToSet(Sets)} \ ofPolicy :
                         k \notin {"local_repo", "extra_repo_urls"} =>
                           defines[k].items =
                             Sets[Max(naming(k))][k].items \cup added(k)
  BY DEF UserDefinesWin, Sets
<1>1. Ranked(n, x)
  BY DEF LoopInv, RankedInv, Using, Seen, SeenMore
<1>2. /\ x \in Nat /\ DOMAIN input.extend = 1 .. x
      /\ n \in Nat /\ DOMAIN Sets = 1 .. n
  <2>1. Len(input.define) + Len(input.defineFile) \in Nat
    <3>1. PICK a \in Nat, b \in Nat :
            a = Len(input.define) /\ b = Len(input.defineFile)
      BY SetsAre, Zenon
    <3>2. a + b \in Nat
      OBVIOUS
    <3> QED
      BY <3>1, <3>2, Zenon
  <2> QED
    BY <2>1, SetsAre, Zenon
<1>3. \A k : added(k) = Adds(k, x)
  <2> TAKE k
  <2>1. ToSet(input.extend) = {input.extend[i] : i \in 1 .. x}
    BY <1>2, Zenon DEF ToSet
  <2> HIDE DEF x
  <2> QED
    BY <2>1 DEF Adds
<1>4. ASSUME NEW k \in Extends, k # "local_repo"
      PROVE  added(k) \subseteq defines[k].items
  <2>1. PICK j \in 1 .. x : k = input.extend[j].key
    <3>1. PICK e \in ToSet(input.extend) : k = e.key
      BY DEF Extends
    <3>2. PICK j \in DOMAIN input.extend : e = input.extend[j]
      BY <3>1 DEF ToSet
    <3> QED
      BY <1>2, <3>1, <3>2
  <2>2. Adds(k, x) \subseteq defines[k].items
    BY <1>1, <1>4, <2>1 DEF Ranked
  <2> QED
    BY <1>3, <2>2, Zenon
<1>5. ASSUME NEW k \in UNION {DOMAIN f : f \in ToSet(Sets)},
             k \notin {"local_repo", "extra_repo_urls"}
      PROVE  defines[k].items = Sets[Max(naming(k))][k].items \cup added(k)
  <2>1. k \in UNION {DOMAIN Sets[i] : i \in 1 .. n}
    BY <1>2 DEF ToSet
  <2>2. PICK i \in 1 .. n :
          /\ LastOf(k, i, n)
          /\ defines[k].items = Sets[i][k].items \cup Adds(k, x)
    BY <1>1, <1>5, <2>1 DEF Ranked
  <2>3. Max(naming(k)) = i
    <3> DEFINE S == naming(k)
    <3>1. /\ i \in S /\ \A j \in S : j <= i
          /\ \A j \in S : j \in Int
      BY <1>2, <2>2 DEF LastOf
    <3> HIDE DEF S
    <3>2. \A a \in S : (\A y \in S : a >= y) <=> a = i
      BY <3>1
    <3>3. Max(S) = CHOOSE a \in S : \A y \in S : a >= y
      BY DEF Max
    <3> QED
      BY <3>1, <3>2, <3>3 DEF S
  <2> QED
    BY <1>3, <2>2, <2>3, Zenon
<1> HIDE DEF naming, ofPolicy, added
<1> QED
  BY <1>4, <1>5

\* A forced variable keeps its value unless something later in the order names
\* it, and users have the last word with --define, --define-file and
\* --extend-define, however many they give.
THEOREM SourcesAreRanked == Spec => []SourcesRank
<1> DEFINE Inv == input \in Inputs /\ AllowedInv /\ ForcedInv /\ LoopInv
<1>1. Init => Inv
  BY InitAllowed DEF Init, ForcedInv, Filled, Validated, LoopInv, EntryInv, RankedInv,
                     Using
<1>2. Inv /\ [Next]_vars => Inv'
  BY NextAllowed, NextForced, NextRanked
<1>3. Inv => SourcesRank
  <2>1. ForcedInv => ForcedUnlessNamed
    BY DEF ForcedInv, ForcedUnlessNamed, Filled, Validated
  <2> QED
    BY <2>1, RankedAll DEF SourcesRank
<1> HIDE DEF Inv
<1> QED
  BY <1>1, <1>2, <1>3, PTL DEF Spec

-----------------------------------------------------------------------------
(* What a loaded policy says.                                              *)

\* The general entry of index i has been extended by the entry for target t of
\* its key, if that is among the first n - 1 entries, and every such entry has
\* found a general one.
Part(sec, orig, t, dict, n) ==
  /\ sec = [i \in DOMAIN orig |-> sec[i]]
  /\ \A i \in DOMAIN orig :
       /\ sec[i] = [key |-> orig[i].key, for |-> orig[i].for, value |-> sec[i].value]
       /\ orig[i].for # Global => sec[i].value = orig[i].value
       /\ orig[i].for = Global =>
            /\ \A j \in DOMAIN orig :
                 j < n /\ orig[j].key = orig[i].key /\ orig[j].for = t =>
                   sec[i].value = Extended(orig[i].value, orig[j].value, dict)
            /\ ~(\E j \in DOMAIN orig :
                   j < n /\ orig[j].key = orig[i].key /\ orig[j].for = t) =>
                 sec[i].value = orig[i].value
  /\ \A j \in DOMAIN orig :
       j < n /\ orig[j].for = t =>
         \E i \in DOMAIN orig : orig[i].key = orig[j].key /\ orig[i].for = Global

\* MergedFor, of one section.
SectionMerged(sec, orig, t, dict) ==
  /\ \A e \in ToSet(sec) : e.for = Global
  /\ \A k \in {e.key : e \in ToSet(orig)} :
       /\ Has(sec, k) <=> Entries(orig, k, {Global, t}) # {}
       /\ Has(sec, k) => ValueOf(sec, k) = Meant(orig, k, t, dict)

\* A section before the one at hand is merged, that one is in part, and one behind
\* it is as in the file.
At(i) ==
  LET s == Sections[i]
      orig == input.policy.rules[s]
  IN /\ i < name => SectionMerged(policy[s], orig, input.target, s \in OfDicts)
     /\ i > name => policy[s] = orig
     /\ i = name /\ ~grown =>
          Part(policy[s], orig, input.target, s \in OfDicts, entry)

Merging ==
  pc = "merge" =>
    /\ HasPolicy
    /\ name \in 1 .. 7 /\ entry \in Nat \ {0}
    /\ policy = [s \in Section |-> policy[s]]
    /\ \A i \in 1 .. 6 : At(i)
    /\ grown => name <= 6

MergedInv ==
  /\ Merging
  /\ HasPolicy /\ pc \notin {"load", "merge", "failed"} =>
       MergedFor(input.policy.rules, input.target)

\* The sections are six names.
LEMMA SectionsAre ==
  /\ Len(Sections) = 6
  /\ \A i \in 1 .. 6 : Sections[i] \in Section
  /\ \A s \in Section : \E i \in 1 .. 6 : Sections[i] = s
  /\ \A i, j \in 1 .. 6 : Sections[i] = Sections[j] => i = j
<1>1. Len(Sections) = 6 /\ DOMAIN Sections = 1 .. 6
  BY DEF Sections
<1>2. \A i \in 1 .. 6 : Sections[i] \in Section
  BY <1>1 DEF Section, ToSet
<1>3. \A s \in Section : \E i \in 1 .. 6 : Sections[i] = s
  BY <1>1 DEF Section, ToSet
<1>4. \A i, j \in 1 .. 6 : Sections[i] = Sections[j] => i = j
  BY DEF Sections
<1> QED
  BY <1>1, <1>2, <1>3, <1>4

\* A section of the file, as its assumptions say.
FileSection(orig, dict) ==
  /\ orig \in Seq(ToSet(orig))
  /\ \A i \in DOMAIN orig :
       /\ orig[i] = [key |-> orig[i].key, for |-> orig[i].for, value |-> orig[i].value]
       /\ orig[i].for \in Target \cup {Global}
       /\ dict => orig[i].value = [x \in DOMAIN orig[i].value |-> orig[i].value[x]]
  /\ \A i, j \in DOMAIN orig :
       orig[i].key = orig[j].key /\ orig[i].for = orig[j].for => i = j

LEMMA FileSections ==
  ASSUME NEW rules, PolicyFile(rules), NEW s \in Section
  PROVE  FileSection(rules[s], s \in OfDicts)
<1> DEFINE sec == rules[s]
<1>1. /\ sec \in Seq(ToSet(sec))
      /\ \A e \in ToSet(sec) :
           /\ e = [key |-> e.key, for |-> e.for, value |-> e.value]
           /\ e.for \in Target \cup {Global}
           /\ s \in OfDicts => e.value = [x \in DOMAIN e.value |-> e.value[x]]
      /\ \A i, j \in DOMAIN sec :
           sec[i].key = sec[j].key /\ sec[i].for = sec[j].for => i = j
  BY Zenon DEF PolicyFile
<1>2. \A i \in DOMAIN sec : sec[i] \in ToSet(sec)
  BY DEF ToSet
<1> HIDE DEF sec
<1>3. FileSection(sec, s \in OfDicts)
  BY <1>1, <1>2, Zenon DEF FileSection
<1> QED
  BY <1>3 DEF sec

\* A sequence of as many elements as another.
LEMMA SameLength ==
  ASSUME NEW orig, orig \in Seq(ToSet(orig)),
         NEW sec, sec = [i \in DOMAIN orig |-> sec[i]]
  PROVE  /\ DOMAIN sec = DOMAIN orig /\ Len(sec) = Len(orig)
         /\ Len(orig) \in Nat /\ DOMAIN orig = 1 .. Len(orig)
<1>1. Len(orig) \in Nat /\ DOMAIN orig = 1 .. Len(orig)
  OBVIOUS
<1>2. PICK n \in Nat : n = Len(orig)
  BY <1>1
<1>3. sec = [i \in 1 .. n |-> sec[i]]
  BY <1>1, <1>2
<1>4. sec \in Seq({sec[i] : i \in 1 .. n}) /\ Len(sec) = n
  BY <1>3
<1> QED
  BY <1>1, <1>2, <1>3, <1>4

\* Nothing of a section is merged at first.
LEMMA PartStarts ==
  ASSUME NEW orig, NEW dict, FileSection(orig, dict), NEW t
  PROVE  Part(orig, orig, t, dict, 1)
<1>1. DOMAIN orig = 1 .. Len(orig) /\ Len(orig) \in Nat
  BY DEF FileSection
<1>2. \A j \in DOMAIN orig : ~(j < 1)
  BY <1>1
<1>3. orig = [i \in DOMAIN orig |-> orig[i]]
  BY DEF FileSection
<1> QED
  BY <1>2, <1>3 DEF Part, FileSection

\* An entry that is general, or for another target, changes nothing.
LEMMA PartSkips ==
  ASSUME NEW orig, NEW dict, FileSection(orig, dict), NEW t, NEW sec,
         NEW n \in Nat \ {0}, Part(sec, orig, t, dict, n),
         n \in DOMAIN orig, orig[n].for # t
  PROVE  Part(sec, orig, t, dict, n + 1)
<1>1. DOMAIN orig = 1 .. Len(orig) /\ Len(orig) \in Nat
  BY DEF FileSection
<1>2. \A j \in DOMAIN orig : orig[j].for = t => (j < n + 1 <=> j < n)
  BY <1>1
<1> QED
  BY <1>2 DEF Part

\* An entry for the target extends the general one of its key, once.
LEMMA PartExtends ==
  ASSUME NEW orig, NEW dict, FileSection(orig, dict),
         NEW t, t # Global, NEW sec,
         NEW n \in Nat \ {0}, Part(sec, orig, t, dict, n),
         n \in DOMAIN orig, sec[n].for = t,
         NEW i \in DOMAIN sec, sec[i].key = sec[n].key, sec[i].for = Global
  PROVE  Part([sec EXCEPT ![i].value = Extended(@, sec[n].value, dict)],
              orig, t, dict, n + 1)
<1> DEFINE new == Extended(sec[i].value, sec[n].value, dict)
           out == [sec EXCEPT ![i].value = Extended(@, sec[n].value, dict)]
<1>1. DOMAIN orig = 1 .. Len(orig) /\ Len(orig) \in Nat
  BY DEF FileSection
<1>2. /\ DOMAIN sec = DOMAIN orig
      /\ \A j \in DOMAIN orig :
           sec[j] = [key |-> orig[j].key, for |-> orig[j].for, value |-> sec[j].value]
  BY DEF Part
<1>3. /\ orig[n].for = t /\ sec[n].value = orig[n].value
      /\ orig[i].for = Global /\ orig[i].key = orig[n].key /\ i # n
  BY <1>2 DEF Part
<1>4. sec[i].value = orig[i].value
  <2>1. ~ \E j \in DOMAIN orig :
            j < n /\ orig[j].key = orig[i].key /\ orig[j].for = t
    BY <1>1, <1>3 DEF FileSection
  <2> QED
    BY <1>2, <1>3, <2>1 DEF Part
<1>5. /\ out = [j \in DOMAIN orig |-> out[j]]
      /\ out[i] = [key |-> orig[i].key, for |-> Global, value |-> new]
      /\ \A j \in DOMAIN orig : j # i => out[j] = sec[j]
  <2>1. out = [j \in DOMAIN sec |->
                 IF j = i THEN [sec[i] EXCEPT !.value = new] ELSE sec[j]]
    OBVIOUS
  <2>2. [sec[i] EXCEPT !.value = new]
          = [key |-> orig[i].key, for |-> Global, value |-> new]
    BY <1>2, <1>3
  <2> HIDE DEF out, new
  <2> QED
    BY <1>2, <2>1, <2>2
<1>6. new = Extended(orig[i].value, orig[n].value, dict)
  BY <1>3, <1>4
<1> HIDE DEF out, new
<1>7. ASSUME NEW j \in DOMAIN orig
      PROVE  /\ out[j] = [key |-> orig[j].key, for |-> orig[j].for,
                          value |-> out[j].value]
             /\ orig[j].for # Global => out[j].value = orig[j].value
  BY <1>2, <1>3, <1>5 DEF Part
<1>8. ASSUME NEW g \in DOMAIN orig, orig[g].for = Global,
             NEW j \in DOMAIN orig, j < n + 1, orig[j].key = orig[g].key,
             orig[j].for = t
      PROVE  out[g].value = Extended(orig[g].value, orig[j].value, dict)
  <2>1. CASE g = i
    <3>1. j = n
      BY <1>3, <1>8, <2>1 DEF FileSection
    <3> QED
      BY <1>5, <1>6, <2>1, <3>1
  <2>2. CASE g # i
    <3>1. j # n
      <4>1. j = n => orig[g].key = orig[i].key /\ orig[g].for = orig[i].for
        BY <1>3, <1>8
      <4> QED
        BY <1>2, <2>2, <4>1 DEF FileSection
    <3>2. j < n
      BY <1>1, <1>8, <3>1
    <3> QED
      BY <1>5, <1>8, <2>2, <3>2 DEF Part
  <2> QED
    BY <2>1, <2>2
<1>9. ASSUME NEW g \in DOMAIN orig, orig[g].for = Global,
             ~ \E j \in DOMAIN orig :
                 j < n + 1 /\ orig[j].key = orig[g].key /\ orig[j].for = t
      PROVE  out[g].value = orig[g].value
  <2>1. g # i
    BY <1>3, <1>9
  <2>2. \A j \in DOMAIN orig : j < n => j < n + 1
    BY <1>1
  <2> QED
    BY <1>5, <1>9, <2>1, <2>2 DEF Part
<1>10. ASSUME NEW j \in DOMAIN orig, j < n + 1, orig[j].for = t
       PROVE  \E g \in DOMAIN orig : orig[g].key = orig[j].key /\ orig[g].for = Global
  <2>1. CASE j = n
    BY <1>2, <1>3, <2>1
  <2>2. CASE j # n
    <3>1. j < n
      BY <1>1, <1>10, <2>2
    <3> QED
      BY <1>10, <3>1 DEF Part
  <2> QED
    BY <2>1, <2>2
<1>11. Part(out, orig, t, dict, n + 1)
  BY <1>5, <1>7, <1>8, <1>9, <1>10 DEF Part
<1> QED
  BY <1>11 DEF out

\* What keys_to_remove leaves are the general entries.
LEMMA GeneralIs ==
  ASSUME NEW sec, NEW kept \in General(sec)
  PROVE  ToSet(kept) = {e \in ToSet(sec) : e.for = Global}
<1> DEFINE at == {i \in DOMAIN sec : sec[i].for = Global}
           n == Cardinality(at)
<1>1. PICK f \in Surjection(1 .. n, at) : kept = [i \in 1 .. n |-> sec[f[i]]]
  BY DEF General
<1>2. /\ \A i \in 1 .. n : f[i] \in at
      /\ \A a \in at : \E i \in 1 .. n : f[i] = a
  BY <1>1 DEF Surjection
<1>3. DOMAIN kept = 1 .. n /\ \A i \in 1 .. n : kept[i] = sec[f[i]]
  BY <1>1
<1> HIDE DEF n
<1>4. \A e \in ToSet(kept) : e \in ToSet(sec) /\ e.for = Global
  BY <1>2, <1>3 DEF ToSet
<1>5. ASSUME NEW e \in ToSet(sec), e.for = Global
      PROVE  e \in ToSet(kept)
  <2>1. PICK a \in DOMAIN sec : e = sec[a]
    BY DEF ToSet
  <2>2. PICK i \in 1 .. n : f[i] = a
    BY <1>2, <1>5, <2>1
  <2> QED
    BY <1>3, <2>1, <2>2 DEF ToSet
<1> QED
  BY <1>4, <1>5

\* A key with a general entry only means what that says.
LEMMA MeantOne ==
  ASSUME NEW sec, NEW k, NEW t, NEW dict \in BOOLEAN, NEW g,
         Entries(sec, k, {Global, t}) = {g}, Entries(sec, k, {t}) = {},
         dict => g.value = [x \in DOMAIN g.value |-> g.value[x]]
  PROVE  Meant(sec, k, t, dict) = g.value
<1>1. CASE ~dict
  <2>1. UNION {e.value : e \in {g}} = g.value
    OBVIOUS
  <2> QED
    BY <1>1, <2>1 DEF Meant
<1>2. CASE dict
  <2>1. \A x \in DOMAIN g.value : OwnFirst({}, {g}, x) = g.value[x]
    BY DEF OwnFirst
  <2>2. UNION {DOMAIN e.value : e \in {g}} = DOMAIN g.value
    OBVIOUS
  <2>3. Meant(sec, k, t, dict) =
          [x \in UNION {DOMAIN e.value : e \in {g}} |-> OwnFirst({}, {g}, x)]
    BY <1>2, Zenon DEF Meant
  <2> QED
    BY <1>2, <2>1, <2>2, <2>3
<1> QED
  BY <1>1, <1>2

\* A key with a general entry and one for the target means both; of a dictionary's
\* values, those for the target.
LEMMA MeantTwo ==
  ASSUME NEW sec, NEW k, NEW t, NEW dict \in BOOLEAN, NEW g, NEW o,
         Entries(sec, k, {Global, t}) = {g, o}, Entries(sec, k, {t}) = {o}
  PROVE  Meant(sec, k, t, dict) = Extended(g.value, o.value, dict)
<1>1. CASE ~dict
  <2>1. UNION {e.value : e \in {g, o}} = g.value \cup o.value
    OBVIOUS
  <2> QED
    BY <1>1, <2>1 DEF Meant, Extended
<1>2. CASE dict
  <2>1. ASSUME NEW x \in DOMAIN o.value
        PROVE  OwnFirst({o}, {g, o}, x) = o.value[x]
    <3>1. {e \in {o} : x \in DOMAIN e.value} = {o}
      OBVIOUS
    <3> QED
      BY <3>1 DEF OwnFirst
  <2>2. ASSUME NEW x \in DOMAIN g.value, x \notin DOMAIN o.value
        PROVE  OwnFirst({o}, {g, o}, x) = g.value[x]
    <3>1. {e \in {o} : x \in DOMAIN e.value} = {}
      BY <2>2
    <3>2. (CHOOSE e \in {g, o} : x \in DOMAIN e.value) = g
      BY <2>2
    <3> QED
      BY <3>1, <3>2 DEF OwnFirst
  <2>3. UNION {DOMAIN e.value : e \in {g, o}} = DOMAIN o.value \cup DOMAIN g.value
    OBVIOUS
  <2>4. Meant(sec, k, t, dict) =
          [x \in UNION {DOMAIN e.value : e \in {g, o}} |-> OwnFirst({o}, {g, o}, x)]
    BY <1>2, Zenon DEF Meant
  <2>5. Extended(g.value, o.value, dict) =
          [x \in DOMAIN o.value \cup DOMAIN g.value |->
             IF x \in DOMAIN o.value THEN o.value[x] ELSE g.value[x]]
    BY <1>2 DEF Extended, ++
  <2> QED
    BY <2>1, <2>2, <2>3, <2>4, <2>5
<1> QED
  BY <1>1, <1>2

\* When all entries have been seen, the general ones say what the file means.
LEMMA PartMerged ==
  ASSUME NEW orig, NEW dict \in BOOLEAN, FileSection(orig, dict),
         NEW t \in Target \cup {NoTarget}, NEW sec,
         NEW n \in Nat \ {0}, Part(sec, orig, t, dict, n), n > Len(orig),
         NEW kept \in General(sec)
  PROVE  SectionMerged(kept, orig, t, dict)
<1>1. DOMAIN orig = 1 .. Len(orig) /\ Len(orig) \in Nat
  BY DEF FileSection
<1>2. \A j \in DOMAIN orig : j < n
  BY <1>1
<1>3. t # Global /\ (t = NoTarget => \A j \in DOMAIN orig : orig[j].for # t)
  BY PolicyAssumption DEF FileSection
<1>4. DOMAIN sec = DOMAIN orig
  BY DEF Part
<1>5. \A i \in DOMAIN orig : sec[i].key = orig[i].key /\ sec[i].for = orig[i].for
  BY DEF Part
<1>6. ToSet(kept) = {e \in ToSet(sec) : e.for = Global}
  BY GeneralIs
<1>7. \A e : e \in ToSet(kept) <=>
             \E i \in DOMAIN orig : orig[i].for = Global /\ e = sec[i]
  BY <1>4, <1>5, <1>6 DEF ToSet
<1>8. \A e : e \in ToSet(orig) <=> \E i \in DOMAIN orig : e = orig[i]
  BY DEF ToSet
<1> SUFFICES ASSUME NEW k \in {e.key : e \in ToSet(orig)}
             PROVE  /\ Has(kept, k) <=> Entries(orig, k, {Global, t}) # {}
                    /\ Has(kept, k) => ValueOf(kept, k) = Meant(orig, k, t, dict)
  BY <1>6 DEF SectionMerged
<1>9. CASE ~ \E i \in DOMAIN orig : orig[i].key = k /\ orig[i].for = Global
  <2>1. ~Has(kept, k)
    BY <1>5, <1>7, <1>9 DEF Has, Entries
  <2>2. \A j \in DOMAIN orig : orig[j].key = k => orig[j].for # t
    BY <1>2, <1>9 DEF Part
  <2>3. Entries(orig, k, {Global, t}) = {}
    BY <1>8, <1>9, <2>2 DEF Entries
  <2> QED
    BY <2>1, <2>3
<1>10. ASSUME NEW i \in DOMAIN orig, orig[i].key = k, orig[i].for = Global
       PROVE  /\ Has(kept, k) <=> Entries(orig, k, {Global, t}) # {}
              /\ Has(kept, k) => ValueOf(kept, k) = Meant(orig, k, t, dict)
  <2>1. Entries(kept, k, {Global}) = {sec[i]}
    <3>1. \A g \in DOMAIN orig : orig[g].key = k /\ orig[g].for = Global => g = i
      BY <1>10 DEF FileSection
    <3>2. sec[i] \in Entries(kept, k, {Global})
      BY <1>5, <1>7, <1>10 DEF Entries
    <3>3. ASSUME NEW e \in Entries(kept, k, {Global})
          PROVE  e = sec[i]
      <4>1. e \in ToSet(kept) /\ e.key = k
        BY DEF Entries
      <4>2. PICK g \in DOMAIN orig : orig[g].for = Global /\ e = sec[g]
        BY <1>7, <4>1
      <4> QED
        BY <1>5, <3>1, <4>1, <4>2
    <3> QED
      BY <3>2, <3>3
  <2>2. Has(kept, k) /\ ValueOf(kept, k) = sec[i].value
    BY <2>1 DEF Has, ValueOf
  <2>3. orig[i] \in Entries(orig, k, {Global, t})
    BY <1>8, <1>10 DEF Entries
  <2>4. CASE ~ \E j \in DOMAIN orig : orig[j].key = k /\ orig[j].for = t
    <3>1. sec[i].value = orig[i].value
      BY <1>10, <2>4 DEF Part
    <3>2. Entries(orig, k, {t}) = {}
      BY <1>8, <2>4 DEF Entries
    <3>3. Entries(orig, k, {Global, t}) = {orig[i]}
      <4>1. ASSUME NEW e \in Entries(orig, k, {Global, t})
            PROVE  e = orig[i]
        <5>1. PICK g \in DOMAIN orig : e = orig[g]
          BY <1>8 DEF Entries
        <5>2. orig[g].key = k /\ orig[g].for \in {Global, t}
          BY <5>1 DEF Entries
        <5> QED
          BY <1>10, <2>4, <5>1, <5>2 DEF FileSection
      <4> QED
        BY <2>3, <4>1
    <3>4. dict => orig[i].value = [x \in DOMAIN orig[i].value |-> orig[i].value[x]]
      BY DEF FileSection
    <3>5. Meant(orig, k, t, dict) = orig[i].value
      BY <3>2, <3>3, <3>4, MeantOne
    <3> QED
      BY <2>2, <2>3, <3>1, <3>5
  <2>5. ASSUME NEW j \in DOMAIN orig, orig[j].key = k, orig[j].for = t
        PROVE  Meant(orig, k, t, dict) = sec[i].value
    <3>1. sec[i].value = Extended(orig[i].value, orig[j].value, dict)
      BY <1>2, <1>10, <2>5 DEF Part
    <3>2. Entries(orig, k, {t}) = {orig[j]}
      <4>1. orig[j] \in Entries(orig, k, {t})
        BY <1>8, <2>5 DEF Entries
      <4>2. ASSUME NEW e \in Entries(orig, k, {t})
            PROVE  e = orig[j]
        <5>1. PICK g \in DOMAIN orig : e = orig[g]
          BY <1>8 DEF Entries
        <5>2. orig[g].key = k /\ orig[g].for = t
          BY <5>1 DEF Entries
        <5> QED
          BY <2>5, <5>1, <5>2 DEF FileSection
      <4> QED
        BY <4>1, <4>2
    <3>3. Entries(orig, k, {Global, t}) = {orig[i], orig[j]}
      <4>1. orig[j] \in Entries(orig, k, {Global, t})
        BY <1>8, <2>5 DEF Entries
      <4>2. ASSUME NEW e \in Entries(orig, k, {Global, t})
            PROVE  e \in {orig[i], orig[j]}
        <5>1. PICK g \in DOMAIN orig : e = orig[g]
          BY <1>8 DEF Entries
        <5>2. orig[g].key = k /\ orig[g].for \in {Global, t}
          BY <5>1 DEF Entries
        <5> QED
          BY <1>10, <2>5, <5>1, <5>2 DEF FileSection
      <4> QED
        BY <2>3, <4>1, <4>2
    <3>4. Meant(orig, k, t, dict) = Extended(orig[i].value, orig[j].value, dict)
      BY <3>2, <3>3, MeantTwo
    <3> QED
      BY <3>1, <3>4
  <2> QED
    BY <2>2, <2>3, <2>4, <2>5
<1> QED
  BY <1>9, <1>10

\* What is known of the file.
LEMMA FileIs ==
  ASSUME input \in Inputs, HasPolicy
  PROVE  /\ input.target \in Target \cup {NoTarget}
         /\ input.policy.rules = [s \in Section |-> input.policy.rules[s]]
         /\ \A s \in Section : FileSection(input.policy.rules[s], s \in OfDicts)
<1>1. PolicyFile(input.policy.rules) /\ input.target \in Target \cup {NoTarget}
  BY InputsAssumption, Zenon DEF HasPolicy
<1>2. input.policy.rules = [s \in Section |-> input.policy.rules[s]]
  BY <1>1, Zenon DEF PolicyFile
<1>3. \A s \in Section : FileSection(input.policy.rules[s], s \in OfDicts)
  BY <1>1, FileSections, Zenon
<1> QED
  BY <1>1, <1>2, <1>3

\* A section that is not at hand, in a step that leaves it.
LEMMA AtSame ==
  ASSUME NEW i, At(i), UNCHANGED <<name, input>>, i # name,
         policy'[Sections[i]] = policy[Sections[i]]
  PROVE  At(i)'
  BY Zenon DEF At

\* The loop begins with nothing merged.
LEMMA LoadMerges ==
  ASSUME input \in Inputs, HasPolicy, Load(input.policy.rules), UNCHANGED buildVars
  PROVE  MergedInv'
<1>1. CASE pc' = "failed"
  BY <1>1 DEF MergedInv, Merging
<1>2. CASE ~(pc' = "failed")
  <2>1. /\ pc' = "merge" /\ policy' = input.policy.rules
        /\ name' = 1 /\ entry' = 1 /\ grown' = FALSE /\ input' = input
    BY <1>2 DEF Load, Goto, Fail, buildVars
  <2>2. HasPolicy'
    BY <2>1 DEF HasPolicy
  <2>3. policy' = [s \in Section |-> policy'[s]]
    BY <2>1, FileIs, Zenon
  <2>4. ASSUME NEW i \in 1 .. 6
        PROVE  At(i)'
    <3> DEFINE s == Sections[i]
               orig == input.policy.rules[s]
    <3>1. s \in Section
      BY SectionsAre
    <3>2. FileSection(orig, s \in OfDicts)
      BY <3>1, FileIs, Zenon
    <3>3. Part(orig, orig, input.target, s \in OfDicts, 1)
      BY <3>2, PartStarts, Zenon
    <3>4. ~(i < 1)
      OBVIOUS
    <3> QED
      BY <2>1, <3>3, <3>4, Zenon DEF At
  <2> QED
    BY <2>1, <2>2, <2>3, <2>4 DEF MergedInv, Merging
<1> QED
  BY <1>1, <1>2

\* One entry: it is skipped, extends the general one of its key, becomes a general
\* one itself, after which the loop can only fail, or the loop fails.
LEMMA EntryMerges ==
  ASSUME input \in Inputs, MergedInv, MergePolicy
  PROVE  MergedInv'
<1> DEFINE s == Sections[name]
           orig == input.policy.rules[s]
           t == input.target
           d == (s \in OfDicts)
<1>1. pc = "merge" /\ name <= 6 /\ UNCHANGED <<name, input>>
  BY SectionsAre DEF MergePolicy, MergeEntry, buildVars
<1>2. /\ HasPolicy /\ name \in 1 .. 6 /\ entry \in Nat \ {0}
      /\ policy = [x \in Section |-> policy[x]]
      /\ \A i \in 1 .. 6 : At(i)
  BY <1>1 DEF MergedInv, Merging
<1>3. HasPolicy'
  BY <1>1, <1>2 DEF HasPolicy
<1>4. s \in Section /\ \A i \in 1 .. 6 : i # name => Sections[i] # s
  BY <1>2, SectionsAre
<1>5. CASE pc' = "failed"
  BY <1>5 DEF MergedInv, Merging
<1>6. CASE pc' # "failed"
  <2>1. /\ ~grown /\ entry <= Len(policy[s]) /\ Merge(s, policy[s][entry], t)
        /\ entry' = entry + 1
    BY <1>6 DEF MergePolicy, MergeEntry, Fail
  <2>2. FileSection(orig, d) /\ t # Global
    <3>1. FileSection(orig, d) /\ t \in Target \cup {NoTarget}
      BY <1>2, <1>4, FileIs, Zenon
    <3> QED
      BY <3>1, PolicyAssumption
  <2>3. Part(policy[s], orig, t, d, entry)
    BY <1>2, <2>1, Zenon DEF At
  <2>4. /\ entry \in DOMAIN orig /\ DOMAIN policy[s] = DOMAIN orig
        /\ policy[s][entry].for = orig[entry].for
    <3>1. orig \in Seq(ToSet(orig)) /\ policy[s] = [i \in DOMAIN orig |-> policy[s][i]]
      BY <2>2, <2>3, Zenon DEF FileSection, Part
    <3>2. /\ DOMAIN policy[s] = DOMAIN orig /\ Len(policy[s]) = Len(orig)
          /\ Len(orig) \in Nat /\ DOMAIN orig = 1 .. Len(orig)
      BY <3>1, SameLength, Zenon
    <3>3. PICK n \in Nat : n = Len(orig)
      BY <3>2, Zenon
    <3>4. entry <= n /\ DOMAIN orig = 1 .. n
      BY <2>1, <3>2, <3>3, Zenon
    <3>5. entry \in DOMAIN orig
      <4> HIDE DEF orig
      <4> QED
        BY <1>2, <3>4
    <3>6. policy[s][entry] =
            [key |-> orig[entry].key, for |-> orig[entry].for,
             value |-> policy[s][entry].value]
      BY <2>3, <3>5, Zenon DEF Part
    <3>7. policy[s][entry].for = orig[entry].for
      <4> HIDE DEF orig, s
      <4> QED
        BY <3>6
    <3> QED
      BY <3>2, <3>5, <3>7, Zenon
  <2>5. pc' = "merge" /\ entry' \in Nat \ {0}
    <3>1. pc' = "merge"
      BY <1>6, <2>1, Zenon DEF Merge, Goto, Fail
    <3> QED
      BY <1>2, <2>1, <3>1
  <2>6. CASE policy[s][entry].for = Global \/ policy[s][entry].for # t
    <3>1. UNCHANGED <<policy, grown>> /\ orig[entry].for # t
      BY <2>1, <2>2, <2>4, <2>6 DEF Merge, Counts
    <3>2. Part(policy[s], orig, t, d, entry + 1)
      BY <1>2, <2>2, <2>3, <2>4, <3>1, PartSkips, Zenon
    <3>3. At(name)'
      <4>1. ~(name < name) /\ ~(name > name)
        BY <1>2
      <4> QED
        BY <1>1, <2>1, <3>1, <3>2, <4>1, Zenon DEF At
    <3>4. \A i \in 1 .. 6 : At(i)'
      BY <1>1, <1>2, <3>1, <3>3, AtSame, Zenon
    <3> QED
      BY <1>1, <1>2, <1>3, <2>1, <2>5, <3>1, <3>4 DEF MergedInv, Merging
  <2>7. CASE policy[s][entry].for = t /\ UNCHANGED grown
    <3>1. PICK i \in DOMAIN policy[s] :
             /\ policy[s][i].key = policy[s][entry].key /\ policy[s][i].for = Global
             /\ policy' = [policy EXCEPT ![s][i].value =
                             Extended(@, policy[s][entry].value, d)]
      <4>1. Has(policy[s], policy[s][entry].key) /\ Extendable(s, policy[s][entry].key)
        BY <1>6, <2>1, <2>2, <2>7 DEF Merge, Counts, Fail
      <4> QED
        BY <2>1, <2>2, <2>7, <4>1, Zenon DEF Merge, Counts
    <3>2. Part([policy[s] EXCEPT ![i].value =
                  Extended(@, policy[s][entry].value, d)], orig, t, d, entry + 1)
      <4>1. orig[entry].for = t /\ policy[s][entry].for = t
        BY <2>4, <2>7
      <4> QED
        BY <1>2, <2>2, <2>3, <2>4, <3>1, <4>1, PartExtends
    <3>3. /\ policy' = [x \in Section |-> policy'[x]]
          /\ policy'[s] = [policy[s] EXCEPT ![i].value =
                             Extended(@, policy[s][entry].value, d)]
          /\ \A x \in Section : x # s => policy'[x] = policy[x]
      <4> DEFINE new == [policy[s] EXCEPT ![i].value =
                           Extended(@, policy[s][entry].value, d)]
      <4>1. policy' = [policy EXCEPT ![s] = new]
        BY <3>1
      <4> HIDE DEF new, s
      <4>2. /\ policy' = [x \in Section |-> policy'[x]]
            /\ policy'[s] = new
            /\ \A x \in Section : x # s => policy'[x] = policy[x]
        BY <1>2, <1>4, <4>1
      <4> QED
        BY <4>2 DEF new
    <3>4. At(name)'
      <4>1. ~(name < name) /\ ~(name > name)
        BY <1>2
      <4> QED
        BY <1>1, <2>1, <3>2, <3>3, <4>1, Zenon DEF At
    <3>5. ASSUME NEW j \in 1 .. 6, j # name
          PROVE  At(j)'
      <4>1. Sections[j] \in Section /\ Sections[j] # s
        BY <1>4, <3>5, SectionsAre
      <4>2. policy'[Sections[j]] = policy[Sections[j]]
        BY <3>3, <4>1, Zenon
      <4> QED
        BY <1>1, <1>2, <3>5, <4>2, AtSame, Zenon
    <3> QED
      BY <1>1, <1>2, <1>3, <2>1, <2>5, <2>7, <3>3, <3>4, <3>5 DEF MergedInv, Merging
  <2>8. CASE ~(policy[s][entry].for = Global \/ policy[s][entry].for # t)
               /\ ~UNCHANGED grown
    <3>1. /\ grown' = TRUE
          /\ policy' = [policy EXCEPT ![s] =
                          Append(@, [policy[s][entry] EXCEPT !.for = Global])]
      BY <2>1, <2>8 DEF Merge, Counts
    <3>2. /\ policy' = [x \in Section |-> policy'[x]]
          /\ \A x \in Section : x # s => policy'[x] = policy[x]
      <4> HIDE DEF s
      <4> QED
        BY <1>2, <1>4, <3>1
    <3>3. At(name)'
      <4>1. ~(name < name) /\ ~(name > name)
        BY <1>2
      <4> QED
        BY <1>1, <3>1, <4>1, Zenon DEF At
    <3>4. ASSUME NEW j \in 1 .. 6, j # name
          PROVE  At(j)'
      <4>1. Sections[j] \in Section /\ Sections[j] # s
        BY <1>4, <3>4, SectionsAre
      <4>2. policy'[Sections[j]] = policy[Sections[j]]
        BY <3>2, <4>1, Zenon
      <4> QED
        BY <1>1, <1>2, <3>4, <4>2, AtSame, Zenon
    <3> QED
      BY <1>1, <1>2, <1>3, <2>5, <3>1, <3>2, <3>3, <3>4 DEF MergedInv, Merging
  <2> QED
    BY <2>6, <2>7, <2>8
<1> QED
  BY <1>5, <1>6

\* The end of a section: it is merged, and the next one is as in the file.
LEMMA SectionMerges ==
  ASSUME input \in Inputs, MergedInv, MergedSection
  PROVE  MergedInv'
<1> DEFINE s == Sections[name]
           orig == input.policy.rules[s]
           t == input.target
           d == (s \in OfDicts)
<1>1. /\ pc = "merge" /\ pc' = "merge" /\ name <= 6 /\ input' = input
      /\ ~grown /\ ~grown' /\ name' = name + 1 /\ entry' = 1
      /\ entry > Len(policy[s])
      /\ \E kept \in General(policy[s]) : policy' = [policy EXCEPT ![s] = kept]
  BY SectionsAre DEF MergedSection, EndSection, buildVars
<1>2. /\ HasPolicy /\ name \in 1 .. 6 /\ entry \in Nat \ {0}
      /\ policy = [x \in Section |-> policy[x]]
      /\ \A i \in 1 .. 6 : At(i)
  BY <1>1 DEF MergedInv, Merging
<1>3. HasPolicy' /\ name' \in 1 .. 7
  BY <1>1, <1>2 DEF HasPolicy
<1>4. s \in Section /\ \A i \in 1 .. 6 : i # name => Sections[i] # s
  BY <1>2, SectionsAre
<1>5. PICK kept \in General(policy[s]) : policy' = [policy EXCEPT ![s] = kept]
  BY <1>1
<1>6. /\ policy' = [x \in Section |-> policy'[x]] /\ policy'[s] = kept
      /\ \A x \in Section : x # s => policy'[x] = policy[x]
  <2> HIDE DEF s
  <2> QED
    BY <1>2, <1>4, <1>5
<1>7. SectionMerged(kept, orig, t, d)
  <2>1. FileSection(orig, d) /\ t \in Target \cup {NoTarget}
    BY <1>2, <1>4, FileIs, Zenon
  <2>2. Part(policy[s], orig, t, d, entry)
    BY <1>1, <1>2, Zenon DEF At
  <2>3. orig \in Seq(ToSet(orig)) /\ policy[s] = [i \in DOMAIN orig |-> policy[s][i]]
    BY <2>1, <2>2, Zenon DEF FileSection, Part
  <2>4. Len(policy[s]) = Len(orig)
    BY <2>3, SameLength, Zenon
  <2>5. entry > Len(orig)
    BY <1>1, <2>4, Zenon
  <2>6. d \in BOOLEAN
    OBVIOUS
  <2> HIDE DEF orig, d, t, s
  <2> QED
    BY <1>2, <1>5, <2>1, <2>2, <2>5, <2>6, PartMerged, Zenon
<1>8. ASSUME NEW i \in 1 .. 6, i < name
      PROVE  At(i)'
  <2>1. i < name' /\ ~(i > name') /\ i # name' /\ i # name
    BY <1>1, <1>2, <1>8
  <2>2. policy'[Sections[i]] = policy[Sections[i]]
    BY <1>4, <1>6, <2>1, SectionsAre, Zenon
  <2> QED
    BY <1>1, <1>2, <1>8, <2>1, <2>2, Zenon DEF At
<1>9. ASSUME NEW i \in 1 .. 6, i = name
      PROVE  At(i)'
  <2>1. ~(i > name') /\ i # name' /\ Sections[i] = s
    BY <1>1, <1>2, <1>9
  <2> QED
    BY <1>1, <1>6, <1>7, <2>1, Zenon DEF At
<1>10. ASSUME NEW i \in 1 .. 6, i > name
       PROVE  At(i)'
  <2>1. ~(i < name') /\ i # name
    BY <1>1, <1>2, <1>10
  <2>2. Sections[i] \in Section /\ Sections[i] # s
    BY <1>4, <2>1, SectionsAre
  <2>3. policy'[Sections[i]] = input.policy.rules[Sections[i]]
    BY <1>2, <1>6, <1>10, <2>2, Zenon DEF At
  <2>4. FileSection(input.policy.rules[Sections[i]], Sections[i] \in OfDicts)
    BY <1>2, <2>2, FileIs, Zenon
  <2>5. Part(input.policy.rules[Sections[i]], input.policy.rules[Sections[i]], t,
             Sections[i] \in OfDicts, 1)
    BY <2>4, PartStarts, Zenon
  <2> QED
    BY <1>1, <2>1, <2>3, <2>5, Zenon DEF At
<1>11. \A i \in 1 .. 6 : At(i)'
  <2>1. \A i \in 1 .. 6 : i < name \/ i = name \/ i > name
    BY <1>2
  <2> QED
    BY <1>8, <1>9, <1>10, <2>1
<1> QED
  BY <1>1, <1>3, <1>6, <1>11 DEF MergedInv, Merging

\* Behind the last section the restrictions are those the file has.
LEMMA AllMerged ==
  ASSUME MergedInv, PolicyLoaded
  PROVE  MergedInv'
<1>1. pc = "merge" /\ pc' = "variables" /\ name > 6 /\ UNCHANGED <<policy, input>>
  BY SectionsAre DEF PolicyLoaded, Goto, policyVars, buildVars
<1>2. name \in 1 .. 7 /\ \A i \in 1 .. 6 : At(i)
  BY <1>1 DEF MergedInv, Merging
<1>3. ASSUME NEW s \in Section
      PROVE  SectionMerged(policy[s], input.policy.rules[s], input.target, s \in OfDicts)
  <2>1. PICK i \in 1 .. 6 : Sections[i] = s
    BY SectionsAre
  <2>2. i < name
    BY <1>1, <1>2
  <2> QED
    BY <1>2, <2>1, <2>2, Zenon DEF At
<1>4. MergedFor(input.policy.rules, input.target)
  BY <1>3, Zenon DEF SectionMerged, MergedFor
<1>5. MergedFor(input.policy.rules, input.target)'
  BY <1>1, <1>4, Zenon DEF MergedFor
<1> QED
  BY <1>1, <1>5 DEF MergedInv, Merging

\* Behind the policy only a new build loads one.
LEMMA LaterStep ==
  ASSUME \/ AddPolicyVariables \/ LoadManifest \/ ApplyArguments \/ ApplyOptions
         \/ Define \/ DefineFile \/ ExtendDefine \/ AddRepos \/ RunMpp
  PROVE  /\ Fixed /\ pc \notin {"load", "merge", "failed", "ran"}
         /\ pc' \notin {"load", "merge"} /\ (pc' = "ran" => RunMpp)
<1>1. CASE AddPolicyVariables \/ LoadManifest \/ ApplyArguments \/ ApplyOptions
  BY <1>1 DEF AddPolicyVariables, LoadManifest, ApplyArguments, ApplyOptions,
              Fixed, Goto, Fail, policyVars
<1>2. CASE Define
  BY <1>2 DEF Define, Item, Replace, Fixed, Goto, Fail
<1>3. CASE DefineFile
  BY <1>3 DEF DefineFile, Item, Replace, Fixed, Goto, Fail
<1>4. CASE ExtendDefine
  BY <1>4, OneExtend DEF Fixed
<1>5. CASE AddRepos
  BY <1>5, OneAddRepos DEF Fixed
<1>6. CASE RunMpp
  BY <1>6 DEF RunMpp, Fixed, Goto, policyVars
<1> QED
  BY <1>1, <1>2, <1>3, <1>4, <1>5, <1>6

LEMMA NextMerged ==
  ASSUME input \in Inputs, MergedInv, [Next]_vars
  PROVE  MergedInv'
<1>1. CASE LoadPolicy
  <2>1. CASE HasPolicy /\ Load(input.policy.rules)
    BY <1>1, <2>1, LoadMerges DEF LoadPolicy
  <2>2. CASE ~HasPolicy
    BY <1>1, <2>2 DEF LoadPolicy, Goto, MergedInv, Merging, HasPolicy, buildVars
  <2> QED
    BY <1>1, <2>1, <2>2 DEF LoadPolicy
<1>2. CASE MergePolicy
  BY <1>2, EntryMerges
<1>3. CASE MergedSection
  BY <1>3, SectionMerges
<1>4. CASE PolicyLoaded
  BY <1>4, AllMerged
<1>5. CASE \/ AddPolicyVariables \/ LoadManifest \/ ApplyArguments \/ ApplyOptions
           \/ Define \/ DefineFile \/ ExtendDefine \/ AddRepos \/ RunMpp
  <2>1. Fixed /\ pc \notin {"load", "merge", "failed"} /\ pc' # "merge"
    BY <1>5, LaterStep
  <2>2. HasPolicy' = HasPolicy
    BY <2>1 DEF Fixed, HasPolicy
  <2>3. HasPolicy => MergedFor(input.policy.rules, input.target)'
    BY <2>1 DEF MergedInv, Fixed, MergedFor
  <2> QED
    BY <2>1, <2>2, <2>3 DEF MergedInv, Merging
<1>6. CASE Rebuild
  BY <1>6 DEF Rebuild, MergedInv, Merging
<1>7. CASE UNCHANGED vars
  <2>1. UNCHANGED <<pc, policy, name, entry, grown, input>>
    BY <1>7 DEF vars, policyVars, buildVars
  <2>2. \A i : At(i) => At(i)'
    BY <2>1 DEF At
  <2>3. MergedFor(input.policy.rules, input.target)
          => MergedFor(input.policy.rules, input.target)'
    BY <2>1 DEF MergedFor
  <2> QED
    BY <2>1, <2>2, <2>3 DEF MergedInv, Merging, HasPolicy
<1> QED
  BY <1>1, <1>2, <1>3, <1>4, <1>5, <1>6, <1>7 DEF Next

\* What a policy that is loaded says of a key is what its file does for the target
\* of the command: the general entry, extended by the one for the target, whose
\* values come first, in whatever order the file has them.  A policy of which
\* _process_restrictions cannot say that fails: its dictionary would grow as it is
\* walked.
THEOREM PolicyMerged == Spec => []PolicyIsMerged
<1> DEFINE Inv == input \in Inputs /\ AllowedInv /\ MergedInv
<1>1. Init => Inv
  BY InitAllowed DEF Init, MergedInv, Merging
<1>2. Inv /\ [Next]_vars => Inv'
  BY NextAllowed, NextMerged
<1>3. Inv => PolicyIsMerged
  BY DEF MergedInv, PolicyIsMerged
<1> HIDE DEF Inv
<1> QED
  BY <1>1, <1>2, <1>3, PTL DEF Spec

-----------------------------------------------------------------------------
(* What the identity tells.                                                *)

\* None is no value that a variable can have, and no policy.
NoneIsNoValue ==
  /\ NoPolicy # [s \in Section |-> NoPolicy[s]]
  /\ \A S : List(S) # NoValue
  /\ \A i \in Inputs :
       /\ \A k \in DOMAIN i.options : i.options[k] # NoValue
       /\ \A k \in DOMAIN i.local : i.local[k] # NoValue

\* What the identity has of the variables before any is defined: of the policy, and
\* of the manifest.
OfPolicy(mode, pol) ==
  (IF pol = NoPolicy THEN Empty
   ELSE Var("policy_denylist_rpms", List(Get(pol["rpms"], "disallow", {})))
     ++ Var("policy_masked_services",
            List(Get(pol["systemd"], "masked_services", {}))))
  ++ (IF pol = NoPolicy THEN Empty ELSE Get(pol["variables"], "force", Empty))
  ++ Var("image_mode", Scalar(mode))

OfManifest(m, mode, pol) ==
  (IF m.simple THEN ManifestVariables(m) ELSE Empty)
  ++ Var("target", Scalar(DefaultTarget)) ++ OfPolicy(mode, pol)

\* What is set besides what the user defines, other than the target.
Late == {"ostree_parent_refs", "local_repo"}
          \cup (IF input.repos = {} THEN {} ELSE {"extra_repo_urls"})

\* What may be set otherwise than the identity has it.
Free == Extends \cup (Unidentified \ DOMAIN user)

\* The variables d are those of r, but for the target, what is set late and what may
\* be set otherwise.
Told(d, r, late, free) ==
  /\ DOMAIN r \subseteq DOMAIN d
  /\ \A k \in DOMAIN d : \/ k \in DOMAIN r /\ d[k] = r[k]
                         \/ k = "target" \/ k \in free
                         \/ k \in late /\ d[k] # NoValue

\* There is a policy when the build has one.
KeptInv ==
  /\ pc = "load" => policy = NoPolicy
  /\ pc \notin {"load", "failed"} =>
       IF HasPolicy THEN policy = [s \in Section |-> policy[s]] ELSE policy = NoPolicy

ToldInv ==
  /\ pc \in {"load", "merge", "variables", "manifest", "arguments", "options"} =>
       user = Empty
  /\ pc = "manifest" => Told(defines, OfPolicy(input.mode, policy), Late, Free)
  /\ pc = "arguments" =>
       Told(defines, OfManifest(input.manifest, input.mode, policy), Late, Free)
  /\ pc \in {"options", "define", "define-file", "extend", "repos", "run"} =>
       Told(defines, user ++ OfManifest(input.manifest, input.mode, policy),
            Late, Free)
  /\ pc = "run" /\ input.repos # {} =>
       "extra_repo_urls" \in DOMAIN defines /\ defines["extra_repo_urls"] # NoValue

\* What the identity has of a variable: what it has of it alone, or else what the
\* user's defines, the manifest and the policy say.
Alone(id, k) ==
  CASE k = "local_repo" -> id.local
    [] k = "ostree_parent_refs" -> id.parents
    [] k = "extra_repo_urls" -> id.repos
    [] OTHER -> NoValue

Common(id) == id.defines ++ OfManifest(id.manifest, id.mode, id.policy)

Names(id, k) == k = "target" \/ Alone(id, k) # NoValue \/ k \in DOMAIN Common(id)

Gives(id, k) ==
  IF k = "target" THEN id.target
  ELSE IF Alone(id, k) # NoValue THEN Alone(id, k) ELSE Common(id)[k]

\* The identity of a build tells its variables.
IsTold(b) ==
  \A k : (/\ k \notin b.extended
          /\ k \in Unidentified => k \in DOMAIN b.id.defines)
         => /\ k \in DOMAIN b.with <=> Names(b.id, k)
            /\ Names(b.id, k) => b.with[k] = Gives(b.id, k)

BuiltInv == \A b \in built : IsTold(b)

LEMMA OverAssociates ==
  ASSUME NEW f, NEW g, NEW h
  PROVE  (f ++ g) ++ h = f ++ (g ++ h)
  BY DEF ++

\* What nothing is defined over stays as it is.
LEMMA ToldFirst ==
  ASSUME NEW d, NEW r, NEW late, NEW free, Told(d, r, late, free)
  PROVE  Told(d, Empty ++ r, late, free)
<1>1. /\ DOMAIN (Empty ++ r) = DOMAIN r
      /\ \A k \in DOMAIN r : (Empty ++ r)[k] = r[k]
  BY EmptyIs, OverIs
<1> QED
  BY <1>1 DEF Told

\* A variable that is defined is defined in both.
LEMMA ToldBoth ==
  ASSUME NEW d, NEW r, NEW late, NEW free, Told(d, r, late, free), NEW f,
         NEW less, free \ DOMAIN f \subseteq less
  PROVE  Told(f ++ d, f ++ r, late, less)
<1>1. DOMAIN (f ++ r) = DOMAIN f \cup DOMAIN r
  BY OverIs
<1>2. DOMAIN (f ++ d) = DOMAIN f \cup DOMAIN d
  BY OverIs
<1>3. /\ \A k \in DOMAIN f : (f ++ d)[k] = f[k] /\ (f ++ r)[k] = f[k]
      /\ \A k \in DOMAIN d \ DOMAIN f : (f ++ d)[k] = d[k]
      /\ \A k \in DOMAIN r \ DOMAIN f : (f ++ r)[k] = r[k]
  BY DEF ++
<1> QED
  BY <1>1, <1>2, <1>3 DEF Told

\* A variable that is set late is known to be, and one that may be anything is.
LEMMA ToldLate ==
  ASSUME NEW d, NEW r, NEW late, NEW free, Told(d, r, late, free),
         NEW f, \A k \in DOMAIN f :
                  \/ k = "target" \/ k \in free
                  \/ k \in late /\ f[k] # NoValue
  PROVE  Told(f ++ d, r, late, free)
<1>1. DOMAIN (f ++ d) = DOMAIN f \cup DOMAIN d
  BY OverIs
<1>2. /\ \A k \in DOMAIN f : (f ++ d)[k] = f[k]
      /\ \A k \in DOMAIN d \ DOMAIN f : (f ++ d)[k] = d[k]
  BY DEF ++
<1> QED
  BY <1>1, <1>2 DEF Told

\* What a variable is extended by may be anything in both.
LEMMA ToldExtended ==
  ASSUME NEW d, NEW r, NEW late, NEW free, Told(d, r, late, free),
         NEW k, NEW v, NEW w, NEW less, free \ {k} \subseteq less, k \in less
  PROVE  Told(Var(k, w) ++ d, Var(k, v) ++ r, late, less)
<1>1. /\ DOMAIN (Var(k, w) ++ d) = {k} \cup DOMAIN d
      /\ DOMAIN (Var(k, v) ++ r) = {k} \cup DOMAIN r
      /\ \A x \in DOMAIN d : x # k => (Var(k, w) ++ d)[x] = d[x]
      /\ \A x \in DOMAIN r : x # k => (Var(k, v) ++ r)[x] = r[x]
  BY DEF Var, ++
<1> QED
  BY <1>1 DEF Told

\* At the end the identity tells what mpp is run with.
LEMMA ToldIs ==
  ASSUME NEW b, b = [id |-> Identity, with |-> defines, extended |-> Extends],
         "target" \in DOMAIN defines,
         Told(defines, user ++ OfManifest(input.manifest, input.mode, policy),
              Late, Free),
         input.repos # {} =>
           "extra_repo_urls" \in DOMAIN defines /\ defines["extra_repo_urls"] # NoValue
  PROVE  IsTold(b)
<1> DEFINE r == user ++ OfManifest(input.manifest, input.mode, policy)
<1>1. /\ b.id = Identity /\ b.with = defines /\ b.extended = Extends
      /\ Identity.defines = user /\ Common(Identity) = r
      /\ Identity.target = defines["target"]
      /\ Identity.local = DefinedOr("local_repo", NoValue)
      /\ Identity.parents = DefinedOr("ostree_parent_refs", NoValue)
      /\ Identity.repos = IF input.repos = {} THEN NoValue
                         ELSE defines["extra_repo_urls"]
  BY DEF Identity, Common, DefinedOr
<1> HIDE DEF r
<1>2. Told(defines, r, Late, Free)
  BY DEF r
<1> SUFFICES ASSUME NEW k, k \notin Extends,
                    k \in Unidentified => k \in DOMAIN user
             PROVE  /\ k \in DOMAIN defines <=> Names(Identity, k)
                    /\ Names(Identity, k) => defines[k] = Gives(Identity, k)
  BY <1>1 DEF IsTold
<1>3. k \notin Free
  BY DEF Free
<1>4. /\ k \in DOMAIN r => k \in DOMAIN defines
      /\ k \in DOMAIN defines => \/ k \in DOMAIN r /\ defines[k] = r[k]
                                 \/ k = "target"
                                 \/ k \in Late /\ defines[k] # NoValue
  BY <1>2, <1>3 DEF Told
<1>5. CASE k = "target"
  BY <1>1, <1>5 DEF Names, Gives
<1>6. CASE k \in {"local_repo", "ostree_parent_refs"}
  <2>1. Alone(Identity, k) = IF k \in DOMAIN defines THEN defines[k] ELSE NoValue
    BY <1>1, <1>6 DEF Alone, DefinedOr
  <2> QED
    BY <1>1, <1>4, <1>6, <2>1 DEF Names, Gives
<1>7. CASE k = "extra_repo_urls"
  <2>1. Alone(Identity, k) = IF input.repos = {} THEN NoValue ELSE defines[k]
    BY <1>1, <1>7 DEF Alone
  <2>2. input.repos = {} => k \notin Late
    BY <1>7 DEF Late
  <2> QED
    BY <1>1, <1>4, <1>7, <2>1, <2>2 DEF Names, Gives
<1>8. CASE k \notin {"target", "local_repo", "ostree_parent_refs", "extra_repo_urls"}
  <2>1. Alone(Identity, k) = NoValue /\ k \notin Late
    BY <1>8 DEF Alone, Late
  <2> QED
    BY <1>1, <1>4, <1>8, <2>1 DEF Names, Gives
<1> QED
  BY <1>5, <1>6, <1>7, <1>8

\* A build has the policy it was given, merged or not.
LEMMA NextKept ==
  ASSUME input \in Inputs, MergedInv', KeptInv, [Next]_vars
  PROVE  KeptInv'
<1>1. CASE LoadPolicy
  <2>1. CASE HasPolicy /\ Load(input.policy.rules)
    <3>1. CASE pc' = "failed"
      BY <3>1 DEF KeptInv
    <3>2. CASE pc' # "failed"
      <4>1. pc' = "merge" /\ policy' = input.policy.rules /\ input' = input
        BY <1>1, <2>1, <3>2 DEF LoadPolicy, Load, Goto, Fail, buildVars
      <4>2. policy' = [s \in Section |-> policy'[s]]
        BY <2>1, <4>1, FileIs, Zenon
      <4>3. HasPolicy'
        BY <2>1, <4>1 DEF HasPolicy
      <4> QED
        BY <4>1, <4>2, <4>3 DEF KeptInv
    <3> QED
      BY <3>1, <3>2
  <2>2. CASE ~HasPolicy
    BY <1>1, <2>2 DEF LoadPolicy, Goto, KeptInv, HasPolicy, policyVars, buildVars
  <2> QED
    BY <1>1, <2>1, <2>2 DEF LoadPolicy
<1>2. CASE MergePolicy \/ MergedSection
  <2>1. pc' \in {"merge", "failed"}
    <3>1. ASSUME NEW s, NEW e, NEW t, Merge(s, e, t)
          PROVE  pc' \in {"merge", "failed"}
      BY <3>1 DEF Merge, Goto, Fail
    <3>2. CASE MergePolicy
      BY <3>1, <3>2 DEF MergePolicy, MergeEntry, Fail
    <3>3. CASE MergedSection
      BY <3>3 DEF MergedSection, EndSection
    <3> QED
      BY <1>2, <3>2, <3>3
  <2>2. pc' = "merge" => HasPolicy' /\ policy' = [s \in Section |-> policy'[s]]
    BY DEF MergedInv, Merging
  <2> QED
    BY <2>1, <2>2 DEF KeptInv
<1>3. CASE PolicyLoaded
  BY <1>3 DEF PolicyLoaded, Goto, KeptInv, HasPolicy, policyVars, buildVars
<1>4. CASE \/ AddPolicyVariables \/ LoadManifest \/ ApplyArguments \/ ApplyOptions
           \/ Define \/ DefineFile \/ ExtendDefine \/ AddRepos \/ RunMpp
  <2>1. Fixed /\ pc \notin {"load", "failed"} /\ pc' # "load"
    BY <1>4, LaterStep
  <2> QED
    BY <2>1 DEF Fixed, KeptInv, HasPolicy
<1>5. CASE Rebuild
  BY <1>5 DEF Rebuild, KeptInv
<1>6. CASE UNCHANGED vars
  BY <1>6 DEF vars, policyVars, buildVars, KeptInv, HasPolicy
<1> QED
  BY <1>1, <1>2, <1>3, <1>4, <1>5, <1>6 DEF Next

\* A step behind the options, which keeps what the variables are told by.
LEMMA ToldStep ==
  ASSUME Fixed, NEW base, base = OfManifest(input.manifest, input.mode, policy),
         Told(defines', user' ++ base, Late, Free'),
         pc' \in {"options", "define", "define-file", "extend", "repos", "run", "failed"},
         pc' = "options" => user' = Empty,
         pc' = "run" /\ input.repos # {} =>
           "extra_repo_urls" \in DOMAIN defines' /\ defines'["extra_repo_urls"] # NoValue
  PROVE  ToldInv'
<1>1. /\ base = OfManifest(input.manifest, input.mode, policy)'
      /\ Late' = Late /\ input' = input
  BY DEF Fixed, Late
<1>2. Told(defines, user ++ OfManifest(input.manifest, input.mode, policy),
           Late, Free)'
  BY <1>1
<1> QED
  BY <1>1, <1>2 DEF ToldInv

\* What may be anything still may while nothing is defined.
LEMMA FreeStays ==
  ASSUME Fixed, user' = user
  PROVE  Free' = Free
  BY DEF Fixed, Free, Extends

LEMMA NextTold ==
  ASSUME NoneIsNoValue, input \in Inputs, EntryInv, KeptInv, ToldInv, [Next]_vars
  PROVE  ToldInv'
<1> DEFINE base == OfManifest(input.manifest, input.mode, policy)
<1>1. CASE Rebuild
  BY <1>1 DEF Rebuild, ToldInv
<1>2. CASE UNCHANGED vars
  <2>1. Late' = Late /\ Free' = Free
    BY <1>2, FreeStays DEF vars, policyVars, buildVars, Late, Fixed
  <2> QED
    BY <1>2, <2>1 DEF vars, policyVars, buildVars, ToldInv
<1>3. CASE LoadPolicy \/ MergePolicy \/ MergedSection \/ PolicyLoaded
  <2>1. pc' \in {"merge", "variables", "manifest", "failed"} /\ input' = input
    BY <1>3, EarlyStep
  <2>2. user' = user /\ pc \in {"load", "merge"} /\ pc' # "manifest"
    <3>1. ASSUME NEW s, NEW e, NEW t, Merge(s, e, t)
          PROVE  pc' \in {"merge", "failed"}
      BY <3>1 DEF Merge, Goto, Fail
    <3>2. CASE LoadPolicy
      BY <3>2 DEF LoadPolicy, Load, Goto, Fail, buildVars
    <3>3. CASE MergePolicy
      BY <3>1, <3>3 DEF MergePolicy, MergeEntry, Fail, buildVars
    <3>4. CASE MergedSection
      BY <3>4 DEF MergedSection, EndSection, buildVars
    <3>5. CASE PolicyLoaded
      BY <3>5 DEF PolicyLoaded, Goto, buildVars
    <3> QED
      BY <1>3, <3>2, <3>3, <3>4, <3>5
  <2> QED
    BY <2>1, <2>2 DEF ToldInv
<1>4. CASE AddPolicyVariables
  <2>1. /\ pc = "variables" /\ pc' = "manifest" /\ UNCHANGED <<policy, input, user>>
        /\ defines' = PolicyVariables ++ Forced ++ BuildVariables
    BY <1>4 DEF AddPolicyVariables, Goto, policyVars
  <2>2. HasPolicy <=> policy # NoPolicy
    <3>1. IF HasPolicy THEN policy = [s \in Section |-> policy[s]] ELSE policy = NoPolicy
      BY <2>1 DEF KeptInv
    <3>2. NoPolicy # [s \in Section |-> NoPolicy[s]]
      BY DEF NoneIsNoValue
    <3>3. CASE HasPolicy /\ policy = NoPolicy
      BY <3>1, <3>2, <3>3
    <3> QED
      BY <3>1, <3>3
  <2> DEFINE x == PolicyVariables ++ Forced
             v == Var("image_mode", Scalar(input.mode))
  <2>3. OfPolicy(input.mode, policy) = x ++ v
    <3>1. CASE HasPolicy
      BY <2>1, <2>2, <3>1 DEF PolicyVariables, Forced, OfPolicy
    <3>2. CASE ~HasPolicy
      BY <2>1, <2>2, <3>2 DEF PolicyVariables, Forced, OfPolicy
    <3> QED
      BY <3>1, <3>2
  <2>4. user = Empty
    BY <2>1 DEF ToldInv
  <2>5. DOMAIN input.base \subseteq Free
    <3>1. DOMAIN input.base \subseteq BaseNames
      BY InputsAssumption
    <3> QED
      BY <2>4, <3>1, EmptyIs DEF Free, Unidentified
  <2>6. Told(defines', OfPolicy(input.mode, policy), Late, Free)
    <3>1. defines' = x ++ (input.base ++ v)
      BY <2>1 DEF BuildVariables
    <3> HIDE DEF x, v
    <3>2. /\ DOMAIN defines' = DOMAIN x \cup DOMAIN input.base \cup DOMAIN v
          /\ DOMAIN (x ++ v) = DOMAIN x \cup DOMAIN v
      BY <3>1 DEF ++
    <3>3. \A k \in DOMAIN defines' :
            k \in DOMAIN input.base \/ (k \in DOMAIN (x ++ v) /\ defines'[k] = (x ++ v)[k])
      BY <3>1, <3>2 DEF ++
    <3> QED
      BY <2>3, <2>5, <3>2, <3>3 DEF Told
  <2>7. Late' = Late /\ Free' = Free
    BY <2>1, FreeStays DEF Late, Fixed
  <2> QED
    BY <2>1, <2>4, <2>6, <2>7 DEF ToldInv
<1>5. CASE LoadManifest
  <2>1. CASE pc' = "failed"
    BY <2>1 DEF ToldInv
  <2>2. CASE pc' # "failed"
    <3> DEFINE m == (IF input.manifest.simple
                       THEN ManifestVariables(input.manifest) ELSE Empty)
                      ++ Var("target", Scalar(DefaultTarget))
               p == OfPolicy(input.mode, policy)
    <3>1. /\ pc = "manifest" /\ pc' = "arguments" /\ UNCHANGED <<policy, input, user>>
          /\ defines' = m ++ defines
      BY <1>5, <2>2 DEF LoadManifest, Goto, Fail, policyVars
    <3>2. user = Empty /\ Told(defines, p, Late, Free)
      BY <3>1 DEF ToldInv
    <3>3. base = m ++ p
      BY DEF OfManifest
    <3>4. Told(defines', base, Late, Free)
      <4> HIDE DEF m, p, base
      <4>1. Free \ DOMAIN m \subseteq Free
        OBVIOUS
      <4>2. Told(m ++ defines, m ++ p, Late, Free)
        BY <3>2, <4>1, ToldBoth
      <4> QED
        BY <3>1, <3>3, <4>2
    <3>5. Late' = Late /\ Free' = Free
      BY <3>1, FreeStays DEF Late, Fixed
    <3> QED
      BY <3>1, <3>2, <3>4, <3>5 DEF ToldInv
  <2> QED
    BY <2>1, <2>2
<1>6. CASE ApplyArguments
  <2>1. /\ pc = "arguments" /\ pc' \in {"options", "failed"} /\ Fixed
        /\ user' = user /\ defines' = Arguments ++ defines
    BY <1>6 DEF ApplyArguments, Goto, Fail, Fixed, policyVars
  <2>2. user' = Empty /\ user = Empty /\ Told(defines, base, Late, Free)
    BY <2>1 DEF ToldInv
  <2>3. \A k \in DOMAIN Arguments :
          \/ k = "target" \/ k \in Free
          \/ k \in Late /\ Arguments[k] # NoValue
    <3>1. DOMAIN Arguments \subseteq {"target", "root_password"}
      BY EmptyIs DEF Arguments, ++, Var
    <3>2. "root_password" \in Free
      BY <2>2, EmptyIs DEF Free, Unidentified
    <3> QED
      BY <3>1, <3>2
  <2>4. Told(defines', base, Late, Free)
    <3> HIDE DEF base
    <3>1. Told(Arguments ++ defines, base, Late, Free)
      BY <2>2, <2>3, ToldLate, Zenon
    <3> QED
      BY <2>1, <3>1
  <2>5. Told(defines', user' ++ base, Late, Free')
    <3> HIDE DEF base
    <3> QED
      BY <2>1, <2>2, <2>4, ToldFirst, FreeStays
  <2> QED
    BY <2>1, <2>2, <2>5, ToldStep
<1>7. CASE ApplyOptions
  <2>1. CASE pc' = "failed"
    BY <2>1 DEF ToldInv
  <2>2. CASE pc' # "failed"
    <3>1. /\ pc = "options" /\ pc' = "define" /\ Fixed
          /\ user' = user /\ defines' = input.options ++ defines
      BY <1>7, <2>2 DEF ApplyOptions, Goto, Fail, Fixed
    <3>2. user = Empty /\ Told(defines, user ++ base, Late, Free)
      BY <3>1 DEF ToldInv
    <3>3. \A k \in DOMAIN input.options :
            \/ k = "target" \/ k \in Free
            \/ k \in Late /\ input.options[k] # NoValue
      <4>1. {"source_date_epoch", "reproducible_image"} \subseteq Free
        BY <3>2, EmptyIs DEF Free, Unidentified
      <4>2. DOMAIN input.options \subseteq
              {"ostree_parent_refs", "source_date_epoch", "reproducible_image"}
        BY InputsAssumption
      <4> QED
        BY <4>1, <4>2 DEF NoneIsNoValue, Late
    <3>4. Told(input.options ++ defines, user ++ base, Late, Free)
      <4> HIDE DEF base
      <4> QED
        BY <3>2, <3>3, ToldLate, Zenon
    <3>5. Told(defines', user' ++ base, Late, Free')
      BY <3>1, <3>4, FreeStays
    <3> QED
      BY <3>1, <3>5, ToldStep
  <2> QED
    BY <2>1, <2>2
<1>8. ASSUME NEW items, NEW l, NEW next,
              Item(items, l, next, Replace(items[entry])),
              l \in {"define", "define-file"}, next \in {"define-file", "extend"}
       PROVE  ToldInv'
  <2>1. pc = l /\ Fixed
    BY <1>8, OneDefine
  <2>2. Told(defines, user ++ base, Late, Free)
    BY <1>8, <2>1 DEF ToldInv
  <2>3. CASE pc' = "failed"
    BY <2>3 DEF ToldInv
  <2>4. CASE pc' = next /\ UNCHANGED <<defines, user>>
    <3>1. Told(defines', user' ++ base, Late, Free')
      BY <2>1, <2>2, <2>4, FreeStays
    <3> QED
      BY <1>8, <2>1, <2>4, <3>1, ToldStep
  <2>5. CASE /\ pc' = l /\ defines' = items[entry] ++ defines
             /\ user' = items[entry] ++ user
    <3>1. Free \ DOMAIN items[entry] \subseteq Free'
      <4>1. DOMAIN user' = DOMAIN items[entry] \cup DOMAIN user
        BY <2>5, OverIs
      <4> QED
        BY <2>1, <4>1 DEF Free, Fixed, Extends
    <3>2. Told(items[entry] ++ defines, items[entry] ++ (user ++ base), Late, Free')
      <4> HIDE DEF base
      <4> QED
        BY <2>2, <3>1, ToldBoth
    <3>3. Told(defines', user' ++ base, Late, Free')
      BY <2>5, <3>2, OverAssociates
    <3> QED
      BY <1>8, <2>1, <2>5, <3>3, ToldStep
  <2> QED
    BY <1>8, <2>3, <2>4, <2>5, OneDefine
<1>9. CASE Define \/ DefineFile
  BY <1>8, <1>9 DEF Define, DefineFile
<1>10. CASE ExtendDefine
  <2> DEFINE e == input.extend[entry]
  <2>1. pc = "extend" /\ Fixed
    BY <1>10, OneExtend
  <2>2. Told(defines, user ++ base, Late, Free)
    BY <2>1 DEF ToldInv
  <2>3. CASE pc' = "failed"
    BY <2>3 DEF ToldInv
  <2>4. CASE pc' = "repos" /\ UNCHANGED <<defines, user>>
    <3>1. Told(defines', user' ++ base, Late, Free')
      BY <2>1, <2>2, <2>4, FreeStays
    <3> QED
      BY <2>1, <2>4, <3>1, ToldStep
  <2>5. ASSUME ~(entry > Len(input.extend)), pc' = "extend",
               NEW v, user' = Var(e.key, v) ++ user,
               NEW w, defines' = Var(e.key, w) ++ defines
        PROVE  ToldInv'
    <3>1. e.key \in Extends
      <4>1. entry \in DOMAIN input.extend
        BY <2>1, <2>5, SetsAre DEF EntryInv
      <4> QED
        BY <4>1 DEF Extends, ToSet
    <3> DEFINE x == e.key
    <3>2. x \in Extends /\ user' = Var(x, v) ++ user /\ defines' = Var(x, w) ++ defines
      BY <2>5, <3>1
    <3> HIDE DEF x, e, base
    <3>3. x \in Free' /\ Free \ {x} \subseteq Free'
      <4>1. DOMAIN user' = {x} \cup DOMAIN user
        BY <3>2, OverIs, VarIs
      <4> QED
        BY <2>1, <3>2, <4>1 DEF Free, Fixed, Extends
    <3>4. Told(Var(x, w) ++ defines, Var(x, v) ++ (user ++ base), Late, Free')
      BY <2>2, <3>3, ToldExtended
    <3>5. Told(defines', user' ++ base, Late, Free')
      BY <3>2, <3>4, OverAssociates
    <3> QED
      BY <2>1, <2>5, <3>5, ToldStep DEF base
  <2> QED
    BY <1>10, <2>3, <2>4, <2>5, OneExtend
<1>11. CASE AddRepos
  <2>1. pc = "repos" /\ Fixed /\ user' = user
    BY <1>11, OneAddRepos
  <2>2. Told(defines, user ++ base, Late, Free) /\ Free' = Free
    BY <2>1, FreeStays DEF ToldInv
  <2>3. \A k \in DOMAIN input.local : k \in Late /\ input.local[k] # NoValue
    BY InputsAssumption DEF NoneIsNoValue, Late
  <2>4. CASE pc' = "failed"
    BY <2>4 DEF ToldInv
  <2>5. CASE input.repos = {} /\ pc' = "run" /\ defines' = input.local ++ defines
    <3>1. Told(input.local ++ defines, user ++ base, Late, Free)
      <4> HIDE DEF base
      <4> QED
        BY <2>2, <2>3, ToldLate
    <3>2. Told(defines', user' ++ base, Late, Free')
      BY <2>1, <2>2, <2>5, <3>1
    <3> QED
      BY <2>1, <2>5, <3>2, ToldStep
  <2>6. CASE /\ input.repos # {} /\ pc' = "run"
             /\ defines' =
                  Var("extra_repo_urls",
                      List(ExtraRepos(defines).items \cup input.repos))
                    ++ input.local ++ defines
    <3> DEFINE v == List(ExtraRepos(defines).items \cup input.repos)
               f == Var("extra_repo_urls", v) ++ input.local
    <3>1. v # NoValue
      BY DEF NoneIsNoValue
    <3> HIDE DEF v
    <3>2. \A k \in DOMAIN f : k \in Late /\ f[k] # NoValue
      BY <2>3, <2>6, <3>1 DEF Late, Var, ++
    <3>3. "extra_repo_urls" \in DOMAIN f /\ f["extra_repo_urls"] = v
      BY DEF Var, ++
    <3>4. defines' = f ++ defines
      BY <2>6 DEF v
    <3> HIDE DEF f
    <3>5. Told(f ++ defines, user ++ base, Late, Free)
      <4> HIDE DEF base
      <4> QED
        BY <2>2, <3>2, ToldLate
    <3>6. Told(defines', user' ++ base, Late, Free')
      BY <2>1, <2>2, <3>4, <3>5
    <3>7. "extra_repo_urls" \in DOMAIN defines' /\ defines'["extra_repo_urls"] # NoValue
      BY <3>1, <3>3, <3>4 DEF ++
    <3> QED
      BY <2>1, <2>6, <3>6, <3>7, ToldStep
  <2> QED
    BY <1>11, <2>4, <2>5, <2>6, OneAddRepos
<1>12. CASE RunMpp
  BY <1>12 DEF RunMpp, Goto, ToldInv
<1> QED
  BY <1>1, <1>2, <1>3, <1>4, <1>5, <1>6, <1>7, <1>9, <1>10, <1>11, <1>12 DEF Next

\* What is built is told by its identity.
LEMMA NextBuilt ==
  ASSUME AllowedInv, ToldInv, BuiltInv, [Next]_vars
  PROVE  BuiltInv'
<1>1. CASE RunMpp
  <2> DEFINE b == [id |-> Identity, with |-> defines, extended |-> Extends]
  <2>1. pc = "run" /\ built' = built \cup {b}
    BY <1>1 DEF RunMpp
  <2>2. "target" \in DOMAIN defines
    BY <2>1 DEF AllowedInv, Validated
  <2>3. IsTold(b)
    BY <2>1, <2>2, ToldIs DEF ToldInv
  <2> HIDE DEF b
  <2> QED
    BY <2>1, <2>3 DEF BuiltInv
<1>2. CASE LoadPolicy \/ MergePolicy \/ MergedSection \/ PolicyLoaded
             \/ AddPolicyVariables \/ Rebuild
  <2>1. built' = built
    BY <1>2 DEF LoadPolicy, Load, MergePolicy, MergeEntry, MergedSection, EndSection,
                PolicyLoaded, AddPolicyVariables, Rebuild, buildVars
  <2> QED
    BY <2>1 DEF BuiltInv
<1>3. CASE \/ LoadManifest \/ ApplyArguments \/ ApplyOptions \/ Define
           \/ DefineFile \/ ExtendDefine \/ AddRepos
  <2>1. built' = built
    BY <1>3 DEF LoadManifest, ApplyArguments, ApplyOptions, Define, DefineFile,
                ExtendDefine, AddRepos, Item
  <2> QED
    BY <2>1 DEF BuiltInv
<1>4. CASE UNCHANGED vars
  BY <1>4 DEF vars, buildVars, BuiltInv
<1> QED
  BY <1>1, <1>2, <1>3, <1>4 DEF Next

\* Whatever two manifests, modes, targets, passwords, policies, options, defines,
\* define files, extensions and repositories two builds are given: if they have the
\* identity that manifest_content_hash is the hash of, they run mpp with the same
\* variables and values, but for those of Unidentified that no define sets and those
\* that --extend-define extends.
THEOREM IdentitiesTell ==
  ASSUME NoneIsNoValue
  PROVE  Spec => []IdentityTells
<1> DEFINE Inv == /\ input \in Inputs /\ AllowedInv /\ MergedInv /\ LoopInv
                  /\ KeptInv /\ ToldInv /\ BuiltInv
<1>1. Init => Inv
  <2>1. Init => AllowedInv /\ input \in Inputs
    BY InitAllowed
  <2>2. Init => MergedInv /\ LoopInv
    BY DEF Init, MergedInv, Merging, LoopInv, EntryInv, RankedInv, Using
  <2>3. Init => KeptInv /\ ToldInv /\ BuiltInv
    BY DEF Init, KeptInv, ToldInv, BuiltInv
  <2> QED
    BY <2>1, <2>2, <2>3
<1>2. Inv /\ [Next]_vars => Inv'
  <2> SUFFICES ASSUME Inv, [Next]_vars
               PROVE  Inv'
    OBVIOUS
  <2>1. input' \in Inputs /\ AllowedInv' /\ MergedInv' /\ LoopInv'
    BY NextAllowed, NextMerged, NextRanked
  <2>2. KeptInv'
    BY <2>1, NextKept
  <2>3. ToldInv' /\ BuiltInv'
    BY NextTold, NextBuilt DEF LoopInv
  <2> QED
    BY <2>1, <2>2, <2>3
<1>3. Inv => IdentityTells
  <2> SUFFICES ASSUME BuiltInv,
                      NEW a \in built, NEW b \in built, a.id = b.id,
                      NEW k \in DOMAIN a.with \cup DOMAIN b.with, Identifies(a, b, k)
               PROVE  /\ k \in DOMAIN a.with /\ k \in DOMAIN b.with
                      /\ a.with[k] = b.with[k]
    BY DEF IdentityTells
  <2>1. /\ k \in DOMAIN a.with <=> Names(a.id, k)
        /\ Names(a.id, k) => a.with[k] = Gives(a.id, k)
    BY DEF BuiltInv, IsTold, Identifies
  <2>2. /\ k \in DOMAIN b.with <=> Names(a.id, k)
        /\ Names(a.id, k) => b.with[k] = Gives(a.id, k)
    BY DEF BuiltInv, IsTold, Identifies
  <2> QED
    BY <2>1, <2>2
<1> HIDE DEF Inv
<1> QED
  BY <1>1, <1>2, <1>3, PTL DEF Spec
=============================================================================
