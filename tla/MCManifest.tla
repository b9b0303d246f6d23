----------------------------- MODULE MCManifest -----------------------------
(***************************************************************************)
(* SimpleManifest on manifests that add files in many ways, to the root    *)
(* file system and the QM partition, with boot checks and var partitions.  *)
(***************************************************************************)
EXTENDS SimpleManifest

\* The manifest is in /w/m; there are files below it, beside it and elsewhere.
MCBasedir == <<"w", "m">>
MCFile == {<<"w", "m", "a">>, <<"w", "m", "d", "a">>, <<"w", "m", "d", "b">>,
           <<"w", "m", "d", "e", "a">>, <<"w", "m", "x..y", "a">>,
           <<"w", "s", "a">>, <<"w", "s", "d", "a">>, <<"o", "d", "b">>}
MCDotted(text) == text \in {"..", "x..y"}
MCFnmatch(name, text) ==
  CASE text = "*" -> TRUE
    [] text = "*b" -> name = "b"
    [] text = "a*" -> name = "a"
    [] text = "d*" -> name = "d"
    [] text = "?" -> name # "x..y"
    [] text = "[ds]" -> name \in {"d", "s"}
    [] OTHER -> FALSE

Relative1(parts) == [abs |-> FALSE, parts |-> parts]
Starred(text, lit) == [text |-> text, lit |-> lit, star |-> "one"]
Wild(text) == [text |-> text, lit |-> text, star |-> "other"]
Globs ==
  {Relative1(g) : g \in
     {<<Star>>, <<Lit("d"), Star>>, <<Starred("d*", "d"), Star>>, <<StarStar, Star>>,
      <<Lit("d"), StarStar, Star>>, <<Lit("d"), StarStar, Starred("*b", "")>>,
      <<Starred("d*", "d"), StarStar, Star>>, <<Lit("x..y"), Star>>,
      <<Wild("[ds]"), Star>>, <<Wild("[ds]"), StarStar, Star>>,
      <<Up, Lit("s"), Star>>, <<Up, Lit("s"), StarStar, Star>>, <<Up, Wild("[ds]"), Star>>,
      <<Up, Lit("s"), Starred("a*", "a")>>, <<Lit("x"), Star>>}}
  \cup {[abs |-> TRUE, parts |-> <<Lit("o"), Lit("d"), Star>>],
        [abs |-> TRUE, parts |-> <<Lit("o"), Starred("d*", "d"), Star>>],
        [abs |-> TRUE, parts |-> <<Wild("?"), Wild("?"), Star>>],
        [abs |-> TRUE, parts |-> <<Lit("o"), Wild("?"), Star>>]}

GlobEntry(g, dest, preserve, empty, max) ==
  [glob |-> g, path |-> dest, preserve |-> preserve, allow_empty |-> empty, max |-> max]
Single(path, t) == [path |-> path, source |-> [text |-> t]]

Entries ==
  {GlobEntry(g, <<"etc", "c">>, preserve, FALSE, 9) : g \in Globs, preserve \in BOOLEAN}
  \cup {GlobEntry(Relative1(<<StarStar, Star>>), <<"etc">>, FALSE, FALSE, 2),
        GlobEntry(Relative1(<<Lit("x"), Star>>), <<"etc", "c">>, TRUE, TRUE, 9),
        Single(<<"etc", "f">>, "t"), Single(<<"usr", "g">>, "u"),
        Single(<<"usr", "local", "g">>, "u")}

NoContent == [files |-> <<>>, dirs |-> {}, links |-> {}, systemd |-> {},
              rpms |-> {}, containers |-> FALSE]
Adding(files) == [NoContent EXCEPT !.files = files]

Plain ==
  [allowed |-> TRUE, root |-> NoContent, qm |-> None, commands |-> {}, units |-> {},
   image_size |-> None, var |-> None, var_qm |-> None, cg_memory_min |-> 64,
   plain |-> {"name", "static_ip", "root_password", "kernel_package", "hostname",
              "qm_cpu_weight"},
   internal |-> <<>>]

Few == {GlobEntry(Relative1(<<Lit("d"), StarStar, Star>>), <<"etc", "c">>, TRUE, FALSE, 9),
        Single(<<"etc", "f">>, "t"), Single(<<"usr", "g">>, "u")}

\* Two entries, made directories, some of them those a glob needs.
Roots ==
  {[Plain EXCEPT !.root = [Adding(<<e, f>>) EXCEPT !.dirs = d]] :
     e, f \in Entries, d \in {{}, {<<"etc", "c", "d">>}}}

\* internal_defines with variables of the stages, empty ones among them, and others.
Internals ==
  {<<>>, (<<"root", "copy">> :> <<[id |-> 7, to |-> <<"etc", "own">>]>>),
   (<<"root", "systemd">> :> {"own"}) @@ (<<"root", "mkdir">> :> {}),
   (<<"qm", "systemd">> :> {"own"}) @@ (<<"plain", "use_qm">> :> FALSE)
     @@ (<<"var", "relative">> :> 20)}

\* Both partitions, boot checks and containers.
Pairs ==
  {[Plain EXCEPT
      !.root = [Adding(r) EXCEPT !.systemd = s, !.containers = c, !.rpms = {"vim"}],
      !.qm = q, !.commands = k, !.units = u, !.internal = i] :
     r \in SeqOf(Few, 2), s \in SUBSET {"sshd"}, c \in BOOLEAN,
     q \in {None} \cup {[Adding(x) EXCEPT !.containers = c2] :
                          x \in SeqOf(Few, 1), c2 \in BOOLEAN},
     k \in SUBSET {"c1", "c2"}, u \in SUBSET {"u1"}, i \in Internals}

Partition == [size : {None, 0, 4, 9}, relative : {None}, external : {FALSE}]
  \cup [size : {None}, relative : {None, 0, 50, 100}, external : BOOLEAN]
Partitions ==
  {[Plain EXCEPT !.image_size = s, !.var = v, !.var_qm = q, !.cg_memory_min = m] :
     s \in {None, 0, 8}, v, q \in {None} \cup {p \in Partition : p.external => p.relative = None},
     m \in {0, 64}}

Refused ==
  {[Plain EXCEPT !.allowed = a, !.root.dirs = d, !.root.links = l, !.qm = q] :
     a \in BOOLEAN, d \in {{}, {<<"boot", "x">>}}, l \in {{}, {<<"var", "l">>}},
     q \in {None, [NoContent EXCEPT !.links = {<<"opt", "l">>}]}}

MCManifest == Roots \cup Pairs \cup Partitions \cup Refused
=============================================================================
