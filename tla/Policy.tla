------------------------------- MODULE Policy -------------------------------
(***************************************************************************)
(* aib/policy.py: a policy file is checked for consistency, its entries    *)
(* for one target are merged into the general ones, and it is asked what   *)
(* it allows.                                                              *)
(*                                                                         *)
(* A section is a YAML dictionary, which keeps the order of the file: a    *)
(* sequence of entries.  The entry `disallow@rpi4: [x]' has the key        *)
(* "disallow", the target "rpi4" and the value {x}; `disallow: [x]' has    *)
(* the target Global.  Lists are sets: nothing depends on their order.     *)
(***************************************************************************)
EXTENDS Naturals, FiniteSets, Sequences, SequencesExt, TLC

CONSTANTS
  Target,
  Global,    \* the target of an entry without one
  NoTarget,  \* --target is not given
  NoPolicy   \* --policy is not given

\* "Global" is not the name of a target, and no target is none.
ASSUME PolicyAssumption == Global \notin Target /\ NoTarget \notin Target \cup {Global}

\* A section of each shape in policy_schema.yml: "distributions" and
\* "architectures" are like "modes" and "targets", "kernel_modules" is like
\* "rpms", "sysctl" and "selinux_booleans" are like "variables".
Sections == <<"modes", "targets", "rpms", "variables", "systemd",
              "manifest_restrictions">>
Section == ToSet(Sections)

\* The values of these sections are dictionaries, the others' are lists.
OfDicts == {"variables", "manifest_restrictions"}

VARIABLES
  pc,       \* where create_osbuild_manifest is
  failure,  \* the error it ended with, or "none"
  policy,   \* Policy.restrictions, while they are merged and after
  name,     \* the index of the section _process_restrictions is at
  entry,    \* the index of the entry in it
  grown     \* the section has got a key since its iteration began

policyVars == <<policy, name, entry, grown>>

Goto(l) == pc' = l /\ UNCHANGED failure
Fail(e) == pc' = "failed" /\ failure' = e

-----------------------------------------------------------------------------
(* Dictionaries and sections                                               *)

\* One variable, and dict.update: f, and what g has besides.
Var(k, v) == [x \in {k} |-> v]
f ++ g ==
  [x \in DOMAIN f \cup DOMAIN g |-> IF x \in DOMAIN f THEN f[x] ELSE g[x]]

Entries(sec, k, ts) == {e \in ToSet(sec) : e.key = k /\ e.for \in ts}
Has(sec, k) == Entries(sec, k, {Global}) # {}
ValueOf(sec, k) == (CHOOSE e \in Entries(sec, k, {Global}) : TRUE).value

\* restriction_data.get(k, empty)
Get(sec, k, empty) == IF Has(sec, k) THEN ValueOf(sec, k) ELSE empty

\* What YAML gives: dictionaries, which have each key once.
PolicyFile(rules) ==
  /\ rules = [s \in Section |-> rules[s]]
  /\ \A s \in Section :
       LET sec == rules[s] IN
       /\ sec \in Seq(ToSet(sec))
       /\ \A e \in ToSet(sec) :
            /\ e = [key |-> e.key, for |-> e.for, value |-> e.value]
            /\ e.for \in Target \cup {Global}
            /\ s \in OfDicts => e.value = [x \in DOMAIN e.value |-> e.value[x]]
       /\ \A i, j \in DOMAIN sec :
            sec[i].key = sec[j].key /\ sec[i].for = sec[j].for => i = j

\* _validate_restriction_section_consistency
Consistent(sec) ==
  /\ ~(Has(sec, "allow") /\ Has(sec, "disallow"))
  /\ ~(Has(sec, "allow") /\ Entries(sec, "disallow", Target) # {})
  /\ ~(Has(sec, "disallow") /\ Entries(sec, "allow", Target) # {})

\* base.extend(value) of lists, base.update(value) of dictionaries.
Extended(base, value, dict) == IF dict THEN value ++ base ELSE base \cup value

\* The method called for the key exists in the base value.
Extendable(s, k) == (k \in {"allow", "disallow"}) # (s \in OfDicts)

\* _validate_restriction
Refuses(sec, v) ==
  \/ Has(sec, "allow") /\ v \notin ValueOf(sec, "allow")
  \/ /\ ~Has(sec, "allow") /\ Has(sec, "disallow")
     /\ v \in ValueOf(sec, "disallow")

\* validate_manifest, of the properties a manifest has; the value rules of a
\* property and the paths of nested ones are not modelled.
RefusesManifest(sec, props) ==
  \/ /\ Has(sec, "disallow")
     /\ ValueOf(sec, "disallow").properties \cap props # {}
  \/ /\ Has(sec, "allow")
     /\ ~ props \subseteq ValueOf(sec, "allow").properties

-----------------------------------------------------------------------------
(* PolicyLoader.load_policy and Policy._process_restrictions, for target t *)

Load(rules) ==
  /\ pc = "load"
  /\ IF \A s \in Section : Consistent(rules[s])
       THEN policy' = rules /\ Goto("merge")
       ELSE Fail("inconsistent") /\ UNCHANGED policy
  /\ name' = 1 /\ entry' = 1 /\ grown' = FALSE

\* Mutant: the target of an entry is not compared.
CountsAlways(e, t) == TRUE

\* An entry counts for the target the policy is loaded for.
Counts(e, t) == e.for = t

\* The body of the loop over the entries of a section.
Merge(s, e, t) ==
  IF e.for = Global \/ ~Counts(e, t)
    THEN Goto("merge") /\ UNCHANGED <<policy, grown>>
    ELSE IF ~Has(policy[s], e.key)
    THEN /\ policy' = [policy EXCEPT ![s] = Append(@, [e EXCEPT !.for = Global])]
         /\ grown' = TRUE
         /\ Goto("merge")
    ELSE IF Extendable(s, e.key)
    THEN /\ \E i \in DOMAIN policy[s] :
              /\ policy[s][i].key = e.key /\ policy[s][i].for = Global
              /\ policy' = [policy EXCEPT ![s][i].value =
                              Extended(@, e.value, s \in OfDicts)]
         /\ UNCHANGED grown
         /\ Goto("merge")
    ELSE Fail("no such method") /\ UNCHANGED <<policy, grown>>

\* One iteration: Python raises an error in the next one when the dictionary
\* has got a key in this one.
MergeEntry(t) ==
  /\ pc = "merge" /\ name <= Len(Sections)
  /\ LET s == Sections[name] IN
       IF grown THEN Fail("size changed") /\ UNCHANGED <<policy, entry, grown>>
       ELSE /\ entry <= Len(policy[s])
            /\ Merge(s, policy[s][entry], t)
            /\ entry' = entry + 1
  /\ UNCHANGED name

\* The general entries of a section, in their order: a set of one sequence.
General(sec) ==
  LET at == {i \in DOMAIN sec : sec[i].for = Global} IN
  {[i \in 1 .. Cardinality(at) |-> sec[f[i]]] :
     f \in {g \in Surjection(1 .. Cardinality(at), at) :
              \A i, j \in DOMAIN g : i < j => g[i] < g[j]}}

\* The entries with a target are removed after the loop.
EndSection ==
  /\ pc = "merge" /\ name <= Len(Sections) /\ ~grown
  /\ LET s == Sections[name] IN
       /\ entry > Len(policy[s])
       /\ \E kept \in General(policy[s]) : policy' = [policy EXCEPT ![s] = kept]
  /\ name' = name + 1
  /\ entry' = 1
  /\ UNCHANGED <<pc, failure, grown>>

-----------------------------------------------------------------------------

\* What entries say of x: those for the target before the others.
OwnFirst(own, all, x) ==
  LET mine == {e \in own : x \in DOMAIN e.value} IN
  (CHOOSE e \in (IF mine # {} THEN mine ELSE all) : x \in DOMAIN e.value).value[x]

\* What a policy file says under key k of a section for target t.
Meant(sec, k, t, dict) ==
  LET all == Entries(sec, k, {Global, t})
      own == Entries(sec, k, {t}) IN
  IF ~dict THEN UNION {e.value : e \in all}
  ELSE [x \in UNION {DOMAIN e.value : e \in all} |-> OwnFirst(own, all, x)]

\* The restrictions are those the file has for target t, and no others.
MergedFor(rules, t) ==
  \A s \in Section :
    /\ \A e \in ToSet(policy[s]) : e.for = Global
    /\ \A k \in {e.key : e \in ToSet(rules[s])} :
         /\ Has(policy[s], k) <=> Entries(rules[s], k, {Global, t}) # {}
         /\ Has(policy[s], k) =>
              ValueOf(policy[s], k) = Meant(rules[s], k, t, s \in OfDicts)
=============================================================================
