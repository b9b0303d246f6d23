----------------------------- MODULE GlobPaths -----------------------------
(***************************************************************************)
(* Where ExtraInclude of aib/simple.py puts the files a glob matches.      *)
(*                                                                         *)
(* A path is the sequence of its components, from the root.  A glob is     *)
(* absolute or not and has components [text, lit, star]: the whole text,   *)
(* the text before the first "*", and the wildcards: "no" for none,        *)
(* "other" for "?" or "[...]" and no "*", "many" for the component "**",   *)
(* and "one" for any other with a "*".                                     *)
(***************************************************************************)
EXTENDS Integers, SequencesExt

CONSTANTS
  Basedir,    \* the directory of the manifest
  Dotted(_),      \* the texts with a ".." somewhere
  Fnmatch(_, _)   \* a name fits a text

Lit(n)   == [text |-> n, lit |-> n, star |-> "no"]
Star     == [text |-> "*", lit |-> "", star |-> "one"]
StarStar == [text |-> "**", lit |-> "", star |-> "many"]
Up       == Lit("..")

\* No "*" in it: the part in front of the first "*" is the whole.
NoStar(part) == part.star \in {"no", "other"}

\* A glob's ".." come first; an absolute one has none, and names a directory or
\* the start of a name first.
Glob(g) ==
  /\ g.parts \in Seq(ToSet(g.parts))
  /\ \A i \in DOMAIN g.parts : NoStar(g.parts[i]) => g.parts[i].text = g.parts[i].lit
  /\ \E n \in 0..Len(g.parts) : \A i \in DOMAIN g.parts : g.parts[i] = Up <=> i <= n
  /\ g.abs => g.parts # <<>> /\ g.parts[1] # Up /\ g.parts[1].lit # ""

\* Names without a "..".
Names(path) == path \in Seq(STRING) /\ ".." \notin ToSet(path)

ASSUME BasedirAssumption == Names(Basedir) /\ Dotted("..")

\* The components of a path at some of its positions, in their order.
Pick(path, S) ==
  [n \in 1..Cardinality(S) |->
     path[CHOOSE i \in S : Cardinality({j \in S : j <= i}) = n]]

\* normpath: ".." takes back a name, and does nothing at the root; so a name stays
\* unless the ".." behind it outnumber the names somewhere.
Normal(path) ==
  Pick(path, {i \in DOMAIN path :
    /\ path[i] # ".."
    /\ \A j \in i..Len(path) :
         2 * Cardinality({k \in (i + 1)..j : path[k] = ".."}) <= j - i})

Dirname(path)  == Front(path)
Basename(path) == <<Last(path)>>

\* relpath: up to the common directory, and down again.
Relative(path, start) ==
  LET p == Normal(path)  s == Normal(start)
      common == CHOOSE n \in 0..Len(s) :
        /\ n <= Len(p) /\ SubSeq(p, 1, n) = SubSeq(s, 1, n)
        /\ n < Len(s) /\ n < Len(p) => p[n + 1] # s[n + 1]
  IN [i \in 1..(Len(s) - common) |-> ".."] \o SubSeq(p, common + 1, Len(p))

Literal(parts) == [i \in DOMAIN parts |-> parts[i].lit]

\* How many components come before the first "*".
Fixed(g) == CHOOSE n \in 0..Len(g.parts) :
  /\ \A i \in 1..n : NoStar(g.parts[i])
  /\ n < Len(g.parts) => ~NoStar(g.parts[n + 1])

\* split("*")[0].rstrip("/"): the start of a name counts as a name.
Prefix(g) ==
  LET n == Fixed(g)
      cut == n < Len(g.parts) /\ g.parts[n + 1].lit # ""
  IN Literal(SubSeq(g.parts, 1, IF cut THEN n + 1 ELSE n))

\* ".." in source_glob: within a name also.
HasUp(g) == \E i \in DOMAIN g.parts : Dotted(g.parts[i].text)

\* The places where the text reads "/**/*", whatever comes behind.
RecursiveAt(g) ==
  {i \in 1..(Len(g.parts) - 1) :
     i > 1 /\ g.parts[i] = StarStar /\ g.parts[i + 1].lit = "" /\ ~NoStar(g.parts[i + 1])}

\* The one that counts: the end of the text, else the first.
Recursion(g) ==
  CHOOSE i \in RecursiveAt(g) :
    LET end == Len(g.parts) - 1 IN
    IF end \in RecursiveAt(g) /\ g.parts[end + 1] = Star
      THEN i = end ELSE \A j \in RecursiveAt(g) : i <= j

\* The components of the glob in the directory that destinations are relative to, as
\* their text: a wildcard among them is taken for a name.
Base(g) ==
  CASE g.abs -> Dirname(Prefix(g))
    [] ~g.abs /\ HasUp(g) -> Prefix(g)
    [] ~g.abs /\ ~HasUp(g) /\ RecursiveAt(g) # {} ->
         [j \in 1..(Recursion(g) - 1) |-> g.parts[j].text]
    [] OTHER -> <<>>

GlobBase(g) == IF g.abs THEN Base(g) ELSE Basedir \o Base(g)

\* Mutant: every path is taken relative to the manifest.
DestinationFromBasedir(file, e) ==
  IF e.preserve THEN Normal(e.path \o Relative(file, Basedir))
  ELSE e.path \o Basename(file)

\* _calculate_destination_path
Destination(file, e) ==
  IF e.preserve THEN Normal(e.path \o Relative(file, GlobBase(e.glob)))
  ELSE e.path \o Basename(file)

-----------------------------------------------------------------------------
\* glob.glob(recursive=True): "**" is any number of directories, none included.
Fits(name, part) ==
  CASE part.star = "no"   -> name = part.lit
    [] part.star = "many" -> FALSE
    [] OTHER -> Fnmatch(name, part.text)

\* Each component of a file's path comes of one of the glob's, in their order;
\* only of "**" come none or many, and of one at the end the file itself at least.
Matches(path, parts) ==
  /\ path # <<>>
  /\ \E of \in [DOMAIN path -> DOMAIN parts] :
       /\ of[Len(path)] = Len(parts)
       /\ \A i, j \in DOMAIN path : i <= j => of[i] <= of[j]
       /\ \A i \in DOMAIN path :
            parts[of[i]] = StarStar \/ Fits(path[i], parts[of[i]])
       /\ \A n \in DOMAIN parts : parts[n] # StarStar =>
            \E i \in DOMAIN path : \A j \in DOMAIN path : of[j] = n <=> j = i

\* _find_glob_matches, among the files there are.
Found(g, files) ==
  LET ups == Cardinality({i \in DOMAIN g.parts : g.parts[i] = Up})
      top == IF g.abs THEN <<>> ELSE SubSeq(Basedir, 1, Len(Basedir) - ups)
  IN {f \in files :
        /\ IsPrefix(top, f)
        /\ Matches(SubSeq(f, Len(top) + 1, Len(f)),
                   SubSeq(g.parts, ups + 1, Len(g.parts)))}
=============================================================================
