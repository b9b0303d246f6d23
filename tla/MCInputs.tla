------------------------------ MODULE MCInputs ------------------------------
(***************************************************************************)
(* BuildInputs on families of policies, manifests and arguments.           *)
(***************************************************************************)
EXTENDS BuildInputs

CONSTANTS t1, t2

Entry(k, t, v) == [key |-> k, for |-> t, value |-> v]
V(x) == ("v" :> Scalar(x))

\* Sections of up to n entries, with the given keys and values, in every order.
SectionsOf(n, keys, values) ==
  {s \in SeqOf({Entry(k, t, v) : k \in keys, t \in {Global, t1, t2}, v \in values}, n) :
     \A i, j \in DOMAIN s : i # j => <<s[i].key, s[i].for>> # <<s[j].key, s[j].for>>}

NoRules == [s \in Section |-> <<>>]
Only(n, sec) == [simpleOnly |-> FALSE, rules |-> [NoRules EXCEPT ![n] = sec]]
OnlyOf(n, secs) == {Only(n, sec) : sec \in secs}

Props(S) == [properties |-> S]
Manifest(sets) == [simple |-> TRUE, properties |-> {"p"}, sets |-> sets]

Plain ==
  [policy |-> NoPolicy, target |-> NoTarget, mode |-> "image",
   manifest |-> Manifest(Empty), password |-> NoValue, badEpoch |-> FALSE,
   options |-> Empty, define |-> <<>>, defineFile |-> <<>>, extend |-> <<>>,
   repos |-> {}, local |-> Empty, base |-> Empty]

\* Policies of one section of each shape, for a command with and without a target.
Policies ==
  OnlyOf("targets", SectionsOf(3, {"allow", "disallow"}, {{t1}, {t2}}))
  \cup OnlyOf("modes", SectionsOf(2, {"allow", "disallow"}, {{"image"}, {"package"}}))
  \cup OnlyOf("rpms", SectionsOf(3, {"disallow"}, {{"r1"}, {"r2"}}))
  \cup OnlyOf("variables", SectionsOf(3, {"force"}, {V("a"), V("b"), "w" :> Scalar("a")}))
  \cup OnlyOf("systemd", SectionsOf(2, {"masked_services"}, {{"s1"}, {"s2"}}))
  \cup OnlyOf("manifest_restrictions",
              SectionsOf(2, {"allow", "disallow"}, {Props({"p"}), Props({"q"})}))

MCPolicies ==
  {[Plain EXCEPT !.policy = p, !.target = t, !.manifest.sets = m] :
     p \in Policies, t \in {NoTarget, t1, t2},
     m \in {Empty, "target" :> Scalar(t1)}}

\* Everything that can name a variable, one over the other.
Some == [simpleOnly |-> TRUE,
         rules |-> [NoRules EXCEPT
           !["targets"] = <<Entry("disallow", Global, {t2})>>,
           !["rpms"] = <<Entry("disallow", Global, {"r1"})>>,
           !["variables"] = <<Entry("force", Global, V("a")),
                              Entry("force", t1, "w" :> List({"x"}))>>,
           !["manifest_restrictions"] = <<Entry("disallow", Global, Props({"q"}))>>]]

MCManifests ==
  {[simple |-> s, properties |-> ps, sets |-> f] :
     s \in BOOLEAN, ps \in {{"p"}, {"p", "q"}},
     f \in {Empty, V("m"), "w" :> List({"m"}), "w" :> List({}), "target" :> Scalar(t2)}}

DefineLists ==
  {<<>>, <<V("d")>>, <<V("d"), V("e")>>, <<"w" :> List({"d"})>>,
   <<"target" :> Scalar(t2)>>, <<Malformed>>}
ExtendLists ==
  {<<>>, <<[key |-> "w", value |-> List({"x1"})], [key |-> "w", value |-> Scalar("x2")]>>,
   <<[key |-> "v", value |-> Scalar("x1")]>>,
   <<[key |-> "policy_denylist_rpms", value |-> Scalar("r2")]>>}

MCArguments ==
  {[policy |-> p, target |-> t, mode |-> "image", manifest |-> m, password |-> w,
    badEpoch |-> b, options |-> o, define |-> d, defineFile |-> f, extend |-> e,
    repos |-> r, local |-> Empty, base |-> Empty] :
     p \in {NoPolicy, Some}, t \in {NoTarget, t1}, m \in MCManifests,
     w \in {NoValue}, b \in {FALSE},
     o \in {Empty, "source_date_epoch" :> Scalar("0")},
     d \in DefineLists,
     f \in {<<>>, <<V("f")>>, <<"source_date_epoch" :> Scalar("1")>>},
     e \in ExtendLists, r \in {{}, {"u"}}}

\* What else an argument can be.
MCOthers ==
  {[Plain EXCEPT !.password = "secret", !.local = "local_repo" :> Scalar("l"),
                 !.define = <<"root_password" :> Scalar("other")>>],
   [Plain EXCEPT !.badEpoch = TRUE],
   [Plain EXCEPT !.repos = {"u"}, !.define = <<"extra_repo_urls" :> List({"w"})>>],
   [Plain EXCEPT !.repos = {"u"}, !.define = <<"extra_repo_urls" :> Scalar("w")>>]}

\* Builds of one manifest that differ in what the identity is made of, and
MCIdentified ==
  {[Plain EXCEPT !.policy = p, !.target = t, !.manifest.sets = m, !.define = d,
                 !.defineFile = f, !.repos = r] :
     p \in {NoPolicy, Only("variables", <<Entry("force", Global, V("a"))>>),
            Only("variables", <<Entry("force", Global, V("c")),
                                Entry("force", t1, V("a"))>>)},
     t \in {NoTarget, t1},
     m \in {Empty, V("m"), "target" :> Scalar(t1)},
     d \in {<<>>, <<V("d")>>}, f \in {<<>>, <<V("f")>>},
     r \in {{}, {"u"}}}

\* in what it is not made of, or only in part: the password, the time of the
\* manifest, the epoch, --reproducible and --extend-define.
Reproducible == "reproducible_image" :> Scalar(TRUE)

MCUnidentified ==
  {[Plain EXCEPT !.password = x.password, !.options = x.options, !.base = x.base,
                 !.define = d, !.manifest.sets = m, !.extend = e] :
     x \in [password : {"secret"}, options : {Empty}, base : {Empty}]
           \cup [password : {NoValue},
                 options : {Empty, Reproducible, "source_date_epoch" :> Scalar("0"),
                            "ostree_parent_refs" :> Scalar("rev")},
                 base : {Empty}]
           \cup [password : {NoValue}, options : {Empty},
                 base : {"manifest_mtime" :> Scalar("later")}],
     d \in {<<>>, <<Reproducible>>, <<"w" :> List({"x"})>>},
     m \in {Empty, "w" :> List({"m"})},
     e \in {<<>>, <<[key |-> "w", value |-> Scalar("x")]>>}}

MCRebuilds == MCIdentified \cup MCUnidentified

MCInputs == MCPolicies \cup MCArguments \cup MCOthers \cup MCRebuilds
=============================================================================
