----------------------- MODULE SimpleManifest_proofs ------------------------
(***************************************************************************)
(* Proofs about SimpleManifest: whatever files, globs, checks and          *)
(* partitions a manifest has, every partition gets its own files, trees    *)
(* stay below their directory and checks are complete.                     *)
(***************************************************************************)
EXTENDS SimpleManifest, FiniteSetTheorems, WellFoundedInduction, TLAPS

-----------------------------------------------------------------------------
(* Numbers and sequences.                                                  *)

\* A set of numbers has a least one.
LEMMA LeastIs ==
  ASSUME NEW S, S \subseteq Nat, S # {}
  PROVE  \E n \in S : \A m \in S : n <= m
<1>1. \E n \in S : \A m \in S : ~ (<<m, n>> \in OpToRel(<, Nat))
  BY WFMin, NatLessThanWellFounded, Zenon
<1>2. PICK n \in S : \A m \in S : ~ (<<m, n>> \in OpToRel(<, Nat))
  BY <1>1
<1>3. \A m \in S : ~(m < n)
  BY <1>2 DEF OpToRel
<1> QED
  BY <1>3

\* Positions are as many as the last one says.
LEMMA IntervalSize ==
  ASSUME NEW n \in Nat
  PROVE  Cardinality(1 .. n) = n
<1>1. Cardinality(1 .. n) = IF 1 > n THEN 0 ELSE n - 1 + 1
  BY FS_Interval
<1> QED
  BY <1>1

\* normpath leaves a path alone that has no "..".
LEMMA NormalOfNames ==
  ASSUME NEW path, Names(path)
  PROVE  Normal(path) = path
<1>1. path \in Seq(STRING) /\ \A i \in 1 .. Len(path) : path[i] # ".."
  BY DEF Names, ToSet
<1>2. ASSUME NEW i \in 1 .. Len(path), NEW j \in i .. Len(path)
      PROVE  2 * Cardinality({k \in (i + 1) .. j : path[k] = ".."}) <= j - i
  <2>1. {k \in (i + 1) .. j : path[k] = ".."} = {}
    BY <1>1
  <2>2. Cardinality({k \in (i + 1) .. j : path[k] = ".."}) = 0
    BY <2>1, FS_EmptySet, Zenon
  <2> QED
    BY <2>2, <1>1
<1> DEFINE S == {i \in DOMAIN path :
                   /\ path[i] # ".."
                   /\ \A j \in i .. Len(path) :
                        2 * Cardinality({k \in (i + 1) .. j : path[k] = ".."}) <= j - i}
<1>3. S = 1 .. Len(path)
  BY <1>1, <1>2
<1>4. Normal(path) = Pick(path, 1 .. Len(path))
  BY <1>3 DEF Normal
<1>5. Cardinality(1 .. Len(path)) = Len(path)
  BY <1>1, IntervalSize
<1>6. ASSUME NEW n \in 1 .. Len(path)
      PROVE  (CHOOSE i \in 1 .. Len(path) :
                Cardinality({j \in 1 .. Len(path) : j <= i}) = n) = n
  <2>1. ASSUME NEW i \in 1 .. Len(path)
        PROVE  Cardinality({j \in 1 .. Len(path) : j <= i}) = i
    <3>1. {j \in 1 .. Len(path) : j <= i} = 1 .. i
      BY <1>1
    <3>2. i \in Nat
      BY <1>1
    <3>3. Cardinality(1 .. i) = i
      BY <3>2, IntervalSize
    <3> QED
      BY <3>1, <3>3, Zenon
  <2> QED
    BY <2>1
<1>7. Pick(path, 1 .. Len(path)) = [n \in 1 .. Len(path) |-> path[n]]
  <2>1. Pick(path, 1 .. Len(path)) =
          [n \in 1 .. Len(path) |->
             path[CHOOSE i \in 1 .. Len(path) :
                    Cardinality({j \in 1 .. Len(path) : j <= i}) = n]]
    BY <1>5, Zenon DEF Pick
  <2> QED
    BY <2>1, <1>6
<1> QED
  BY <1>1, <1>4, <1>7

\* Two intervals one behind the other.
LEMMA IntervalsSize ==
  ASSUME NEW a \in Nat, NEW b \in Nat, NEW c \in Nat, a < b, b <= c + 1
  PROVE  Cardinality((1 .. a) \cup (b .. c)) = a + (c - b + 1)
<1>1. IsFiniteSet(1 .. a) /\ IsFiniteSet(b .. c)
  BY FS_Interval
<1>2. Cardinality(b .. c) = c - b + 1
  <2>1. Cardinality(b .. c) = IF b > c THEN 0 ELSE c - b + 1
    BY FS_Interval
  <2> QED
    BY <2>1
<1>3. Cardinality(1 .. a) = a
  BY IntervalSize
<1>4. Cardinality((1 .. a) \cap (b .. c)) = 0
  <2>1. (1 .. a) \cap (b .. c) = {}
    OBVIOUS
  <2> QED
    BY <2>1, FS_EmptySet, Zenon
<1>5. Cardinality((1 .. a) \cup (b .. c))
        = Cardinality(1 .. a) + Cardinality(b .. c) - Cardinality((1 .. a) \cap (b .. c))
  BY <1>1, FS_Union, Zenon
<1> QED
  BY <1>2, <1>3, <1>4, <1>5

\* What a sequence has behind its n-th element.
LEMMA SuffixIs ==
  ASSUME NEW T, NEW s \in Seq(T), NEW n \in 0 .. Len(s)
  PROVE  /\ SubSeq(s, n + 1, Len(s)) \in Seq(T)
         /\ Len(SubSeq(s, n + 1, Len(s))) = Len(s) - n
         /\ \A i \in 1 .. Len(SubSeq(s, n + 1, Len(s))) :
              SubSeq(s, n + 1, Len(s))[i] = s[n + i]
<1>1. /\ Len(s) \in Nat /\ n \in Nat /\ n <= Len(s)
      /\ \A i \in 1 .. Len(s) : s[i] \in T
  OBVIOUS
<1>2. SubSeq(s, n + 1, Len(s)) = [i \in 1 .. (Len(s) - n) |-> s[n + i]]
  BY <1>1
<1>3. Len(s) - n \in Nat /\ \A i \in 1 .. (Len(s) - n) : s[n + i] \in T
  BY <1>1
<1> DEFINE t == [i \in 1 .. (Len(s) - n) |-> s[n + i]]
<1>4. t \in Seq(T) /\ Len(t) = Len(s) - n /\ \A i \in 1 .. Len(t) : t[i] = s[n + i]
  BY <1>3
<1> QED
  BY <1>2, <1>4, Zenon

\* What is left of a directory behind k times "..".
Above(dir, k) == IF k <= Len(dir) THEN Len(dir) - k ELSE 0

\* A name, or "..".
Component == STRING \cup {".."}

LEMMA NamesAreComponents ==
  ASSUME NEW dir, Names(dir)
  PROVE  dir \in Seq(Component) /\ \A i \in 1 .. Len(dir) : dir[i] # ".."
<1>1. dir \in Seq(STRING) /\ ".." \notin ToSet(dir)
  BY Zenon DEF Names
<1>2. STRING \subseteq Component
  BY Zenon DEF Component
<1>3. dir \in Seq(Component)
  <2>1. Len(dir) \in Nat /\ dir \in [1 .. Len(dir) -> STRING]
    BY <1>1
  <2>2. dir \in [1 .. Len(dir) -> Component]
    BY <1>2, <2>1
  <2> QED
    BY <2>1, <2>2
<1>4. \A i \in 1 .. Len(dir) : dir[i] # ".."
  BY <1>1 DEF ToSet
<1> QED
  BY <1>3, <1>4

\* The "..", that begin a path below dir, and how many stand behind position i.
LEMMA UpsBehind ==
  ASSUME NEW dir, Names(dir), NEW rest \in Seq(Component), NEW k \in 0 .. Len(rest),
         \A i \in 1 .. Len(rest) : rest[i] = ".." <=> i <= k,
         NEW i \in 1 .. Len(dir \o rest), NEW j \in i .. Len(dir \o rest)
  PROVE  LET ups == Cardinality({m \in (i + 1) .. j : (dir \o rest)[m] = ".."}) IN
         /\ i > Len(dir) + k => ups = 0
         /\ i <= Len(dir) /\ j <= Len(dir) => ups = 0
         /\ i <= Len(dir) /\ j > Len(dir) /\ j <= Len(dir) + k => ups = j - Len(dir)
         /\ i <= Len(dir) /\ j > Len(dir) + k => ups = k
<1> DEFINE path == dir \o rest
           U == {m \in (i + 1) .. j : path[m] = ".."}
<1>1. /\ dir \in Seq(Component) /\ path \in Seq(Component)
      /\ Len(dir) \in Nat /\ Len(rest) \in Nat /\ k \in Nat
      /\ Len(path) = Len(dir) + Len(rest)
      /\ i \in Nat /\ j \in Nat /\ j <= Len(path) /\ i >= 1 /\ i <= j
      /\ \A m \in 1 .. Len(dir) : dir[m] # ".."
  BY NamesAreComponents
<1>2. \A m \in 1 .. Len(path) :
        path[m] = ".." <=> m > Len(dir) /\ m <= Len(dir) + k
  <2> SUFFICES ASSUME NEW m \in 1 .. Len(path)
               PROVE  path[m] = ".." <=> m > Len(dir) /\ m <= Len(dir) + k
    OBVIOUS
  <2>1. CASE m <= Len(dir)
    <3>1. path[m] = dir[m] /\ dir[m] # ".."
      BY <2>1, <1>1
    <3> QED
      BY <3>1, <2>1, <1>1
  <2>2. CASE m > Len(dir)
    <3>1. path[m] = rest[m - Len(dir)] /\ m - Len(dir) \in 1 .. Len(rest)
      BY <2>2, <1>1
    <3> QED
      BY <3>1, <2>2, <1>1
  <2> QED
    BY <2>1, <2>2, <1>1
<1>3. \A m \in (i + 1) .. j : m \in 1 .. Len(path)
  BY <1>1
<1>4. (i > Len(dir) + k \/ j <= Len(dir)) => U = {}
  BY <1>1, <1>2, <1>3
<1>5. i <= Len(dir) /\ j > Len(dir) /\ j <= Len(dir) + k => U = (Len(dir) + 1) .. j
  BY <1>1, <1>2, <1>3
<1>6. i <= Len(dir) /\ j > Len(dir) + k => U = (Len(dir) + 1) .. (Len(dir) + k)
  BY <1>1, <1>2, <1>3
<1>7. \A n \in Nat : n >= Len(dir) =>
        Cardinality((Len(dir) + 1) .. n) = n - Len(dir)
  <2> SUFFICES ASSUME NEW n \in Nat, n >= Len(dir)
               PROVE  Cardinality((Len(dir) + 1) .. n) = n - Len(dir)
    OBVIOUS
  <2>1. Len(dir) + 1 \in Int /\ n \in Int
    BY <1>1
  <2>2. Cardinality((Len(dir) + 1) .. n)
          = IF Len(dir) + 1 > n THEN 0 ELSE n - (Len(dir) + 1) + 1
    BY <2>1, FS_Interval, Zenon
  <2> QED
    BY <2>2, <1>1
<1>8. (i > Len(dir) + k \/ j <= Len(dir)) => Cardinality(U) = 0
  BY <1>4, FS_EmptySet, Zenon
<1>9. i <= Len(dir) /\ j > Len(dir) /\ j <= Len(dir) + k => Cardinality(U) = j - Len(dir)
  <2> HIDE DEF U
  <2> QED
    BY <1>5, <1>7, <1>1
<1>10. i <= Len(dir) /\ j > Len(dir) + k => Cardinality(U) = k
  <2> HIDE DEF U
  <2>1. Cardinality((Len(dir) + 1) .. (Len(dir) + k)) = k
    BY <1>7, <1>1
  <2> QED
    BY <1>6, <2>1, Zenon
<1> HIDE DEF U
<1>11. /\ i > Len(dir) + k => Cardinality(U) = 0
       /\ i <= Len(dir) /\ j <= Len(dir) => Cardinality(U) = 0
       /\ i <= Len(dir) /\ j > Len(dir) /\ j <= Len(dir) + k => Cardinality(U) = j - Len(dir)
       /\ i <= Len(dir) /\ j > Len(dir) + k => Cardinality(U) = k
  BY <1>8, <1>9, <1>10, Zenon
<1> QED
  BY <1>11, Zenon DEF U, path

\* normpath takes as many names back as there are "..", and no more than there are.
LEMMA NormalOfUps ==
  ASSUME NEW dir, Names(dir), NEW rest \in Seq(Component), NEW k \in 0 .. Len(rest),
         \A i \in 1 .. Len(rest) : rest[i] = ".." <=> i <= k
  PROVE  Normal(dir \o rest)
           = [n \in 1 .. (Above(dir, k) + Len(rest) - k) |->
                IF n <= Above(dir, k) THEN dir[n] ELSE rest[n - Above(dir, k) + k]]
<1> DEFINE path == dir \o rest
           a == Above(dir, k)
           b == Len(dir) + k
           Ups(i, j) == Cardinality({m \in (i + 1) .. j : path[m] = ".."})
           S == {i \in DOMAIN path :
                   path[i] # ".." /\ \A j \in i .. Len(path) : 2 * Ups(i, j) <= j - i}
<1>1. /\ dir \in Seq(Component) /\ path \in Seq(Component)
      /\ Len(dir) \in Nat /\ Len(rest) \in Nat /\ k \in Nat /\ k <= Len(rest)
      /\ Len(path) = Len(dir) + Len(rest) /\ DOMAIN path = 1 .. Len(path)
      /\ \A i \in 1 .. Len(path) :
           path[i] = IF i <= Len(dir) THEN dir[i] ELSE rest[i - Len(dir)]
      /\ \A i \in 1 .. Len(dir) : dir[i] # ".."
  BY NamesAreComponents
<1>2. a \in Nat /\ a <= Len(dir) /\ a <= b /\ b \in Nat /\ b <= Len(path)
  BY <1>1 DEF Above
<1>3. \A i \in 1 .. Len(path), j \in 1 .. Len(path) : i <= j =>
        /\ i > b => Ups(i, j) = 0
        /\ i <= Len(dir) /\ j <= Len(dir) => Ups(i, j) = 0
        /\ i <= Len(dir) /\ j > Len(dir) /\ j <= b => Ups(i, j) = j - Len(dir)
        /\ i <= Len(dir) /\ j > b => Ups(i, j) = k
  <2> SUFFICES ASSUME NEW i \in 1 .. Len(path), NEW j \in 1 .. Len(path), i <= j
               PROVE  /\ i > b => Ups(i, j) = 0
                      /\ i <= Len(dir) /\ j <= Len(dir) => Ups(i, j) = 0
                      /\ i <= Len(dir) /\ j > Len(dir) /\ j <= b
                           => Ups(i, j) = j - Len(dir)
                      /\ i <= Len(dir) /\ j > b => Ups(i, j) = k
    OBVIOUS
  <2>1. j \in i .. Len(path)
    BY <1>1
  <2> QED
    BY <2>1, UpsBehind, Zenon
<1> HIDE DEF path, Ups
<1>4. S = (1 .. a) \cup ((b + 1) .. Len(path))
  <2>1. ASSUME NEW i \in 1 .. Len(path), i <= a
        PROVE  i \in S
    <3>1. path[i] # ".."
      BY <1>1, <1>2, <2>1
    <3>2. a = Len(dir) - k
      BY <1>1, <2>1 DEF Above
    <3>3. ASSUME NEW j \in i .. Len(path)
          PROVE  2 * Ups(i, j) <= j - i
      <4>1. j \in 1 .. Len(path) /\ i <= j /\ i <= Len(dir)
        BY <1>1, <1>2, <2>1
      <4>2. /\ j <= Len(dir) => Ups(i, j) = 0
            /\ j > Len(dir) /\ j <= b => Ups(i, j) = j - Len(dir)
            /\ j > b => Ups(i, j) = k
        BY <1>3, <4>1
      <4> QED
        BY <1>1, <2>1, <3>2, <4>1, <4>2
    <3> QED
      BY <1>1, <3>1, <3>3
  <2>2. ASSUME NEW i \in 1 .. Len(path), i > a, i <= Len(dir)
        PROVE  i \notin S
    <3>1. k > 0 /\ b \in i .. Len(path) /\ b > Len(dir) /\ i > Len(dir) - k
      BY <1>1, <1>2, <2>2 DEF Above
    <3>2. b \in 1 .. Len(path) /\ i <= b
      BY <3>1, <1>1
    <3>3. Ups(i, b) = b - Len(dir)
      BY <1>3, <2>2, <3>1, <3>2, <1>1
    <3>4. ~(2 * Ups(i, b) <= b - i)
      BY <1>1, <2>2, <3>1, <3>3
    <3> QED
      BY <3>1, <3>4
  <2>3. ASSUME NEW i \in 1 .. Len(path), i > Len(dir), i <= b
        PROVE  i \notin S
    <3>1. path[i] = ".."
      BY <1>1, <2>3
    <3> QED
      BY <3>1
  <2>4. ASSUME NEW i \in 1 .. Len(path), i > b
        PROVE  i \in S
    <3>1. path[i] # ".."
      <4>1. ~(i <= Len(dir)) /\ i - Len(dir) \in 1 .. Len(rest) /\ ~(i - Len(dir) <= k)
        BY <1>1, <2>4
      <4>2. path[i] = rest[i - Len(dir)]
        BY <1>1, <4>1
      <4> QED
        BY <4>1, <4>2
    <3>2. ASSUME NEW j \in i .. Len(path)
          PROVE  2 * Ups(i, j) <= j - i
      <4>1. j \in 1 .. Len(path) /\ i <= j
        BY <1>1
      <4>2. Ups(i, j) = 0
        BY <1>3, <4>1, <2>4
      <4> QED
        BY <4>1, <4>2
    <3> QED
      BY <1>1, <3>1, <3>2
  <2>5. S \subseteq 1 .. Len(path)
    BY <1>1
  <2> HIDE DEF S, a
  <2>6. \A i \in 1 .. Len(path) : i \in S <=> i <= a \/ i > b
    BY <1>1, <1>2, <2>1, <2>2, <2>3, <2>4
  <2> HIDE DEF b
  <2>7. (1 .. a) \cup ((b + 1) .. Len(path)) \subseteq 1 .. Len(path)
    BY <1>1, <1>2
  <2>8. \A i \in 1 .. Len(path) :
          i \in (1 .. a) \cup ((b + 1) .. Len(path)) <=> i <= a \/ i > b
    BY <1>1, <1>2
  <2> QED
    BY <2>5, <2>6, <2>7, <2>8
<1>5. Normal(path) = Pick(path, S)
  BY DEF Normal, Ups
<1> HIDE DEF S, a, b
<1> DEFINE Rank(i) == Cardinality({j \in S : j <= i})
<1>6. Cardinality(S) = a + Len(rest) - k
  <2>1. Cardinality(S) = a + (Len(path) - (b + 1) + 1)
    <3>1. b + 1 \in Nat /\ a < b + 1 /\ b + 1 <= Len(path) + 1
      BY <1>1, <1>2
    <3> QED
      BY <1>1, <1>2, <1>4, <3>1, IntervalsSize
  <2> QED
    BY <2>1, <1>1, <1>2 DEF b
<1>7. \A i \in 1 .. a : Rank(i) = i
  <2> SUFFICES ASSUME NEW i \in 1 .. a PROVE Rank(i) = i
    OBVIOUS
  <2>1. {j \in S : j <= i} = 1 .. i
    BY <1>1, <1>2, <1>4
  <2>2. Cardinality(1 .. i) = i
    BY <1>2, IntervalSize
  <2> QED
    BY <2>1, <2>2, Zenon
<1>8. \A i \in (b + 1) .. Len(path) : Rank(i) = a + i - b
  <2> SUFFICES ASSUME NEW i \in (b + 1) .. Len(path) PROVE Rank(i) = a + i - b
    OBVIOUS
  <2>1. {j \in S : j <= i} = (1 .. a) \cup ((b + 1) .. i)
    BY <1>1, <1>2, <1>4
  <2>2. i \in Nat /\ b + 1 \in Nat /\ a < b + 1 /\ b + 1 <= i + 1
    BY <1>1, <1>2
  <2>3. Cardinality((1 .. a) \cup ((b + 1) .. i)) = a + (i - (b + 1) + 1)
    BY <1>2, <2>2, IntervalsSize
  <2>4. Rank(i) = a + (i - (b + 1) + 1)
    BY <2>1, <2>3, Zenon
  <2> QED
    BY <2>4, <2>2, <1>2
<1> HIDE DEF Rank
<1>9. ASSUME NEW n \in 1 .. (a + Len(rest) - k)
      PROVE  path[CHOOSE i \in S : Rank(i) = n]
               = IF n <= a THEN dir[n] ELSE rest[n - a + k]
  <2>1. CASE n <= a
    <3>1. n \in S /\ Rank(n) = n
      BY <2>1, <1>2, <1>4, <1>7
    <3>2. \A i \in S : Rank(i) = n => i = n
      BY <2>1, <1>1, <1>2, <1>4, <1>7, <1>8
    <3>3. (CHOOSE i \in S : Rank(i) = n) = n
      BY <3>1, <3>2
    <3>4. path[n] = dir[n]
      BY <2>1, <1>1, <1>2
    <3>5. path[CHOOSE i \in S : Rank(i) = n] = dir[n]
      BY <3>3, <3>4, Zenon
    <3> QED
      BY <3>5, <2>1
  <2>2. CASE n > a
    <3> DEFINE m == n - a + b
    <3>1. m \in (b + 1) .. Len(path)
      BY <2>2, <1>1, <1>2 DEF b
    <3>2. m \in S /\ Rank(m) = n
      BY <3>1, <1>1, <1>2, <1>4, <1>8
    <3>3. \A i \in S : Rank(i) = n => i = m
      BY <2>2, <1>1, <1>2, <1>4, <1>7, <1>8
    <3>4. (CHOOSE i \in S : Rank(i) = n) = m
      BY <3>2, <3>3
    <3>5. path[m] = rest[n - a + k]
      <4>1. m \in 1 .. Len(path) /\ ~(m <= Len(dir)) /\ m - Len(dir) = n - a + k
        BY <3>1, <2>2, <1>1, <1>2 DEF b
      <4> QED
        BY <4>1, <1>1
    <3>6. path[CHOOSE i \in S : Rank(i) = n] = rest[n - a + k]
      BY <3>4, <3>5, Zenon
    <3>7. ~(n <= a)
      BY <2>2, <1>2
    <3> QED
      BY <3>6, <3>7
  <2> QED
    BY <2>1, <2>2, <1>2
<1>10. Pick(path, S) = [n \in 1 .. (a + Len(rest) - k) |->
                          path[CHOOSE i \in S : Rank(i) = n]]
  BY <1>6, Zenon DEF Pick, Rank
<1>11. Pick(path, S) = [n \in 1 .. (a + Len(rest) - k) |->
                          IF n <= a THEN dir[n] ELSE rest[n - a + k]]
  BY <1>9, <1>10
<1> QED
  BY <1>5, <1>11, Zenon DEF path, a

-----------------------------------------------------------------------------
(* What glob.glob finds and where it is put.                               *)

\* The components in front of the first wildcard are the file's own, and it has more.
LEMMA MatchesLiterals ==
  ASSUME NEW path \in Seq(STRING), NEW P, NEW parts \in Seq(P), Matches(path, parts),
         NEW b \in Nat, b < Len(parts),
         \A i \in 1 .. b : parts[i].star = "no"
  PROVE  Len(path) > b /\ \A i \in 1 .. b : path[i] = parts[i].lit
<1>1. PICK of \in [DOMAIN path -> DOMAIN parts] :
        /\ of[Len(path)] = Len(parts)
        /\ \A i, j \in DOMAIN path : i <= j => of[i] <= of[j]
        /\ \A i \in DOMAIN path :
             parts[of[i]] = StarStar \/ Fits(path[i], parts[of[i]])
        /\ \A n \in DOMAIN parts : parts[n] # StarStar =>
             \E i \in DOMAIN path : \A j \in DOMAIN path : of[j] = n <=> j = i
  BY DEF Matches
<1>2. /\ Len(path) \in Nat /\ Len(path) > 0 /\ DOMAIN path = 1 .. Len(path)
      /\ Len(parts) \in Nat /\ DOMAIN parts = 1 .. Len(parts)
  BY DEF Matches
<1>3. \A i \in 1 .. Len(path) : of[i] \in 1 .. Len(parts)
  BY <1>1, <1>2
<1>4. \A n \in 1 .. b :
        parts[n] # StarStar /\ (\A name : Fits(name, parts[n]) => name = parts[n].lit)
  <2> SUFFICES ASSUME NEW n \in 1 .. b, NEW name
               PROVE  /\ parts[n] # StarStar
                      /\ Fits(name, parts[n]) => name = parts[n].lit
    OBVIOUS
  <2>1. parts[n].star = "no"
    OBVIOUS
  <2>2. StarStar.star # "no"
    BY DEF StarStar
  <2>3. Fits(name, parts[n]) => name = parts[n].lit
    BY <2>1 DEF Fits
  <2>4. parts[n] # StarStar
    BY <2>1, <2>2, Zenon
  <2> QED
    BY <2>3, <2>4
<1> DEFINE Own(i) == i < Len(path) /\ of[i] = i
<1>5. ASSUME NEW i \in 1 .. b, \A j \in 1 .. b : j < i => Own(j)
      PROVE  Own(i)
  <2>1. i \in Nat /\ i >= 1 /\ i <= b /\ i \in 1 .. Len(parts) /\ i < Len(parts)
    BY <1>2
  <2>2. i <= Len(path)
    <3>1. CASE i = 1
      BY <3>1, <1>2
    <3>2. CASE i > 1
      <4>1. Own(i - 1)
        BY <3>2, <1>5, <2>1
      <4> QED
        BY <4>1, <1>2, <2>1
    <3> QED
      BY <3>1, <3>2, <2>1
  <2>3. of[i] >= i
    <3>1. CASE i = 1
      BY <3>1, <1>2, <1>3, <2>2, <2>1
    <3>2. CASE i > 1
      <4>1. Own(i - 1) /\ i - 1 \in 1 .. b /\ i - 1 \in DOMAIN path /\ i - 1 \in DOMAIN parts
        BY <3>2, <1>5, <2>1, <1>2, <2>2
      <4>2. PICK x \in DOMAIN path : \A j \in DOMAIN path : of[j] = i - 1 <=> j = x
        BY <1>1, <1>4, <4>1
      <4>3. of[i] # i - 1
        BY <4>1, <4>2, <1>2, <2>1, <2>2
      <4>4. of[i - 1] <= of[i]
        <5>1. i - 1 <= i /\ i \in DOMAIN path /\ i - 1 \in DOMAIN path
          BY <4>1, <1>2, <2>1, <2>2
        <5> QED
          BY <5>1, <1>1, Zenon
      <4> QED
        BY <4>1, <4>3, <4>4, <1>3, <2>1, <2>2
    <3> QED
      BY <3>1, <3>2, <2>1
  <2>4. PICK x \in DOMAIN path : of[x] = i
    BY <1>1, <1>2, <1>4, <2>1
  <2>5. ~(x < i)
    <3> SUFFICES ASSUME x < i PROVE FALSE
      OBVIOUS
    <3>1. x \in 1 .. b
      BY <1>2, <2>1
    <3> QED
      BY <3>1, <1>5, <2>4, <2>1
  <2>6. of[i] <= of[x]
    BY <1>1, <1>2, <2>1, <2>2, <2>5
  <2>7. of[i] = i
    BY <2>3, <2>4, <2>6, <1>3, <1>2, <2>1, <2>2
  <2> QED
    BY <2>7, <2>1, <2>2, <1>1, <1>2
<1>6. \A i \in 1 .. b : Own(i)
  <2> SUFFICES ASSUME NEW i0 \in 1 .. b, ~Own(i0) PROVE FALSE
    OBVIOUS
  <2> DEFINE S == {i \in 1 .. b : ~Own(i)}
  <2> HIDE DEF Own
  <2>1. S \subseteq Nat /\ S # {}
    <3>1. i0 \in S
      OBVIOUS
    <3>2. S \subseteq 1 .. b
      BY Zenon
    <3>3. 1 .. b \subseteq Nat
      OBVIOUS
    <3> HIDE DEF S
    <3> QED
      BY <3>1, <3>2, <3>3
  <2>2. PICK i \in S : \A m \in S : i <= m
    <3> HIDE DEF S
    <3> QED
      BY <2>1, LeastIs
  <2>3. i \in 1 .. b /\ ~Own(i) /\ \A j \in 1 .. b : j < i => Own(j)
    BY <2>2
  <2> QED
    BY <2>3, <1>5
<1>7. Len(path) > b
  <2>1. CASE b = 0
    BY <2>1, <1>2
  <2>2. CASE b # 0
    <3>1. Own(b)
      BY <1>6, <2>2
    <3> QED
      BY <3>1, <1>2
  <2> QED
    BY <2>1, <2>2
<1>8. ASSUME NEW i \in 1 .. b
      PROVE  path[i] = parts[i].lit
  <2>1. Own(i)
    <3> HIDE DEF Own
    <3> QED
      BY <1>6
  <2>2. i \in DOMAIN path
    BY <1>7, <1>2
  <2>3. Fits(path[i], parts[i])
    BY <2>1, <2>2, <1>1, <1>4
  <2> QED
    BY <2>3, <1>4
<1> QED
  BY <1>7, <1>8

\* The first "*" of a glob, or its end.
LEMMA FixedIs ==
  ASSUME NEW g, g.parts \in Seq(ToSet(g.parts))
  PROVE  /\ Fixed(g) \in 0 .. Len(g.parts)
         /\ \A i \in 1 .. Fixed(g) : NoStar(g.parts[i])
         /\ Fixed(g) < Len(g.parts) => ~NoStar(g.parts[Fixed(g) + 1])
<1> DEFINE L == Len(g.parts)
           S == {n \in 0 .. L : n < L => ~NoStar(g.parts[n + 1])}
<1>1. L \in Nat
  OBVIOUS
<1>2. S \subseteq Nat /\ S # {}
  <2>1. L \in S
    BY <1>1
  <2> QED
    BY <2>1
<1>3. PICK n \in S : \A m \in S : n <= m
  <2> HIDE DEF S
  <2> QED
    BY <1>2, LeastIs
<1>4. \A i \in 1 .. n : NoStar(g.parts[i])
  <2> SUFFICES ASSUME NEW i \in 1 .. n PROVE NoStar(g.parts[i])
    OBVIOUS
  <2>1. i - 1 \in 0 .. L /\ i - 1 < n /\ i - 1 < L /\ i - 1 + 1 = i
    BY <1>1, <1>3
  <2>2. i - 1 \notin S
    BY <1>3, <2>1
  <2> QED
    BY <2>1, <2>2
<1>5. \E m \in 0 .. L : /\ \A i \in 1 .. m : NoStar(g.parts[i])
                        /\ m < L => ~NoStar(g.parts[m + 1])
  BY <1>3, <1>4
<1> QED
  BY <1>5 DEF Fixed

\* How many components of a found file are those of the directory the glob is taken
\* from; k of the glob's are "..".
Top(g, k) == IF g.abs THEN 0 ELSE Above(Basedir, k)

\* A found file lies below the directory the glob is taken from, and where the
\* components in front of the first wildcard say.
FoundBelow(g, f, k) ==
  /\ f \in File /\ Names(f)
  /\ k \in 0 .. Len(g.parts)
  /\ \A i \in 1 .. Len(g.parts) : g.parts[i] = Up <=> i <= k
  /\ g.abs => k = 0
  /\ Top(g, k) < Len(f)
  /\ ~g.abs => \A i \in 1 .. Top(g, k) : f[i] = Basedir[i]
  /\ \A b \in Nat :
       k + b < Len(g.parts) /\ (\A i \in (k + 1) .. (k + b) : g.parts[i].star = "no") =>
         /\ Top(g, k) + b < Len(f)
         /\ \A i \in 1 .. b : f[Top(g, k) + i] = g.parts[k + i].lit

LEMMA FoundIsBelow ==
  ASSUME NEW g, Glob(g), NEW f \in Found(g, File)
  PROVE  \E k \in Nat : FoundBelow(g, f, k)
<1> DEFINE parts == g.parts
<1>1. /\ parts \in Seq(ToSet(parts)) /\ Len(parts) \in Nat /\ DOMAIN parts = 1 .. Len(parts)
      /\ Basedir \in Seq(STRING) /\ Len(Basedir) \in Nat
  <2>1. parts \in Seq(ToSet(parts)) /\ Basedir \in Seq(STRING)
    BY BasedirAssumption, Zenon DEF Glob, Names
  <2> QED
    BY <2>1
<1>2. PICK k \in 0 .. Len(parts) : \A i \in 1 .. Len(parts) : parts[i] = Up <=> i <= k
  BY <1>1 DEF Glob
<1>3. {i \in DOMAIN parts : parts[i] = Up} = 1 .. k
  BY <1>1, <1>2
<1>4. Cardinality({i \in DOMAIN parts : parts[i] = Up}) = k
  <2>1. Cardinality(1 .. k) = k
    BY <1>1, IntervalSize
  <2> QED
    BY <1>3, <2>1, Zenon
<1> DEFINE top == IF g.abs THEN <<>> ELSE SubSeq(Basedir, 1, Len(Basedir) - k)
           path == SubSeq(f, Len(top) + 1, Len(f))
           tail == SubSeq(parts, k + 1, Len(parts))
<1>5. f \in File /\ IsPrefix(top, f) /\ Matches(path, tail)
  BY <1>4, Zenon DEF Found
<1>6. Names(f) /\ f \in Seq(STRING) /\ Len(f) \in Nat
  BY <1>5, ManifestAssumption DEF Names
<1>7. g.abs => k = 0
  <2> SUFFICES ASSUME g.abs PROVE k = 0
    OBVIOUS
  <2>1. parts # <<>> /\ parts[1] # Up
    BY Zenon DEF Glob
  <2>2. 1 \in 1 .. Len(parts)
    BY <2>1, <1>1
  <2>3. ~(1 <= k)
    BY <2>1, <2>2, <1>2
  <2> QED
    BY <2>3, <1>1
<1>8. top \in Seq(STRING) /\ Len(top) = Top(g, k) /\ Len(top) \in Nat
      /\ (~g.abs => \A i \in 1 .. Top(g, k) : top[i] = Basedir[i])
  <2>1. CASE g.abs
    <3>1. top = <<>> /\ Top(g, k) = 0
      BY <2>1 DEF Top
    <3> HIDE DEF top
    <3> QED
      BY <3>1, <2>1
  <2>2. CASE ~g.abs
    <3>1. Top(g, k) = Above(Basedir, k) /\ top = SubSeq(Basedir, 1, Len(Basedir) - k)
      BY <2>2 DEF Top
    <3> HIDE DEF top
    <3>2. CASE k <= Len(Basedir)
      <4>1. Top(g, k) = Len(Basedir) - k
        BY <3>1, <3>2 DEF Above
      <4> QED
        BY <3>1, <3>2, <4>1, <1>1
    <3>3. CASE ~(k <= Len(Basedir))
      <4>1. Top(g, k) = 0 /\ top = <<>>
        BY <3>1, <3>3, <1>1 DEF Above
      <4> QED
        BY <4>1
    <3> QED
      BY <3>2, <3>3
  <2> QED
    BY <2>1, <2>2
<1> HIDE DEF top
<1>9. Len(top) <= Len(f) /\ \A i \in 1 .. Len(top) : f[i] = top[i]
  <2>1. Len(top) <= Len(f) /\ SubSeq(top, 1, Len(top)) = SubSeq(f, 1, Len(top))
    BY <1>5 DEF IsPrefix
  <2>2. ASSUME NEW i \in 1 .. Len(top)
        PROVE  f[i] = top[i]
    <3>1. SubSeq(top, 1, Len(top))[i] = top[i]
      BY <1>8
    <3>2. SubSeq(f, 1, Len(top))[i] = f[i]
      BY <1>8, <1>6, <2>1
    <3> QED
      BY <3>1, <3>2, <2>1
  <2> QED
    BY <2>1, <2>2
<1>10. /\ path \in Seq(STRING) /\ Len(path) = Len(f) - Len(top)
       /\ \A i \in 1 .. Len(path) : path[i] = f[Len(top) + i]
  <2>1. Len(top) \in 0 .. Len(f)
    BY <1>6, <1>8, <1>9
  <2> QED
    BY <1>6, <2>1, SuffixIs, Zenon
<1>11. /\ tail \in Seq(ToSet(parts)) /\ Len(tail) = Len(parts) - k
       /\ \A i \in 1 .. Len(tail) : tail[i] = parts[k + i]
  BY <1>1, SuffixIs, Zenon
<1> HIDE DEF tail
<1>12. Len(path) > 0
  <2>1. path # <<>>
    BY <1>5 DEF Matches
  <2> HIDE DEF path
  <2> QED
    BY <2>1, <1>10
<1> HIDE DEF path
<1>13. ASSUME NEW b \in Nat, k + b < Len(parts),
              \A i \in (k + 1) .. (k + b) : parts[i].star = "no"
       PROVE  /\ Top(g, k) + b < Len(f)
              /\ \A i \in 1 .. b : f[Top(g, k) + i] = parts[k + i].lit
  <2>1. b < Len(tail)
    BY <1>11, <1>13, <1>1
  <2>2. ASSUME NEW i \in 1 .. b
        PROVE  tail[i] = parts[k + i] /\ tail[i].star = "no"
    <3>1. i \in 1 .. Len(tail) /\ k + i \in (k + 1) .. (k + b)
      BY <2>1, <1>11, <1>1
    <3>2. tail[i] = parts[k + i]
      BY <3>1, <1>11
    <3> QED
      BY <3>1, <3>2, <1>13
  <2>3. Len(path) > b /\ \A i \in 1 .. b : path[i] = tail[i].lit
    BY <1>5, <1>10, <1>11, <2>1, <2>2, MatchesLiterals
  <2>4. Top(g, k) + b < Len(f)
    BY <2>3, <1>10, <1>8, <1>6
  <2>5. ASSUME NEW i \in 1 .. b
        PROVE  f[Top(g, k) + i] = parts[k + i].lit
    <3>1. i \in 1 .. Len(path)
      BY <2>3, <1>10, <1>8, <1>6
    <3>2. path[i] = f[Top(g, k) + i]
      BY <3>1, <1>10, <1>8
    <3> QED
      BY <3>2, <2>2, <2>3
  <2> QED
    BY <2>4, <2>5
<1>14. Top(g, k) < Len(f)
  BY <1>12, <1>10, <1>8, <1>6
<1>15. ~g.abs => \A i \in 1 .. Top(g, k) : f[i] = Basedir[i]
  BY <1>8, <1>9
<1>16. k \in Nat
  BY <1>1
<1>17. FoundBelow(g, f, k)
  BY <1>2, <1>5, <1>6, <1>7, <1>13, <1>14, <1>15 DEF FoundBelow
<1> QED
  BY <1>16, <1>17

\* Directory s is above file f.
Under(s, f) ==
  /\ s \in Seq(STRING) /\ Len(s) < Len(f)
  /\ \A i \in 1 .. Len(s) : f[i] = s[i]

\* A directory above a file is one of names: normpath leaves it alone.
LEMMA NormalAbove ==
  ASSUME NEW s, NEW f, Names(f), Under(s, f)
  PROVE  Names(s) /\ Normal(s) = s
<1>1. /\ s \in Seq(STRING) /\ f \in Seq(STRING) /\ \A i \in 1 .. Len(f) : f[i] # ".."
      /\ Len(s) < Len(f) /\ \A i \in 1 .. Len(s) : f[i] = s[i]
  BY DEF Under, Names, ToSet
<1>2. \A i \in 1 .. Len(s) : s[i] # ".."
  BY <1>1
<1>3. Names(s)
  BY <1>1, <1>2 DEF Names, ToSet
<1> QED
  BY <1>3, NormalOfNames

\* A glob with a component ".." has a "..".
LEMMA HasUpIs ==
  ASSUME NEW g, NEW f, NEW k \in Nat, FoundBelow(g, f, k), Glob(g), k > 0
  PROVE  HasUp(g)
<1>1. /\ k \in 0 .. Len(g.parts)
      /\ \A i \in 1 .. Len(g.parts) : g.parts[i] = Up <=> i <= k
  BY Zenon DEF FoundBelow
<1>2. g.parts \in Seq(ToSet(g.parts))
  BY Zenon DEF Glob
<1>3. Len(g.parts) \in Nat /\ DOMAIN g.parts = 1 .. Len(g.parts)
  BY <1>2
<1>4. g.parts[1] = Up /\ 1 \in DOMAIN g.parts
  BY <1>1, <1>3
<1>5. Up.text = ".."
  BY DEF Up, Lit
<1>6. Dotted(g.parts[1].text)
  BY <1>4, <1>5, BasedirAssumption, Zenon
<1> QED
  BY <1>4, <1>6, Zenon DEF HasUp

\* The first components, as text.
LEMMA LiteralIs ==
  ASSUME NEW P, NEW parts \in Seq(P), NEW n \in 0 .. Len(parts)
  PROVE  /\ Len(Literal(SubSeq(parts, 1, n))) = n
         /\ Literal(SubSeq(parts, 1, n)) = [i \in 1 .. n |-> parts[i].lit]
<1>1. /\ DOMAIN SubSeq(parts, 1, n) = 1 .. n
      /\ \A i \in 1 .. n : SubSeq(parts, 1, n)[i] = parts[i]
  OBVIOUS
<1>2. Literal(SubSeq(parts, 1, n)) = [i \in 1 .. n |-> parts[i].lit]
  BY <1>1 DEF Literal
<1>3. n \in Nat
  OBVIOUS
<1>4. Len([i \in 1 .. n |-> parts[i].lit]) = n
  BY <1>3
<1> QED
  BY <1>2, <1>4, Zenon

\* split("*")[0]: what comes before the first "*", of the next component its start.
LEMMA PrefixIs ==
  ASSUME NEW g, Glob(g)
  PROVE  \E m \in 0 .. Len(g.parts) :
           /\ Prefix(g) = [i \in 1 .. m |-> g.parts[i].lit] /\ Len(Prefix(g)) = m
           /\ Fixed(g) <= m
           /\ g.abs => m > 0
<1> DEFINE parts == g.parts
           n == Fixed(g)
           cut == n < Len(parts) /\ parts[n + 1].lit # ""
           m == IF cut THEN n + 1 ELSE n
<1>1. PICK P : parts \in Seq(P)
  BY Zenon DEF Glob
<1>2. n \in 0 .. Len(parts) /\ Len(parts) \in Nat
  <2>1. parts \in Seq(ToSet(parts))
    BY Zenon DEF Glob
  <2>2. n \in 0 .. Len(parts)
    BY <2>1, FixedIs, Zenon
  <2> HIDE DEF n, parts
  <2>3. Len(parts) \in Nat
    BY <1>1
  <2> QED
    BY <2>2, <2>3
<1>3. m \in 0 .. Len(parts) /\ n <= m
  <2> HIDE DEF n, parts
  <2>1. n < Len(parts) => n + 1 \in 0 .. Len(parts)
    BY <1>2
  <2>2. n <= n /\ n <= n + 1
    BY <1>2
  <2> QED
    BY <1>2, <2>1, <2>2, Zenon
<1>4. g.abs => m > 0
  <2> SUFFICES ASSUME g.abs PROVE m > 0
    OBVIOUS
  <2>1. parts # <<>> /\ parts[1].lit # ""
    BY Zenon DEF Glob
  <2> HIDE DEF n, parts
  <2>2. parts # <<>>
    BY <2>1, Zenon
  <2>3. 0 < Len(parts) /\ 0 + 1 = 1
    BY <1>1, <1>2, <2>2
  <2>4. n = 0 => cut
    BY <2>1, <2>3, Zenon
  <2> HIDE DEF cut
  <2> QED
    BY <1>2, <2>4
<1>5. Prefix(g) = Literal(SubSeq(parts, 1, m))
  BY Zenon DEF Prefix
<1> HIDE DEF m
<1>6. Prefix(g) = [i \in 1 .. m |-> parts[i].lit] /\ Len(Prefix(g)) = m
  <2>1. /\ Len(Literal(SubSeq(parts, 1, m))) = m
        /\ Literal(SubSeq(parts, 1, m)) = [i \in 1 .. m |-> parts[i].lit]
    BY <1>1, <1>3, LiteralIs, Zenon
  <2> QED
    BY <1>5, <2>1, Zenon
<1> QED
  BY <1>3, <1>4, <1>6, Zenon

\* Unless the glob is ambiguous its base is of its first components, as names, the
\* ".." of a relative one among them.
BaseHas(g, n, k) ==
  /\ n \in Nat /\ n < Len(g.parts)
  /\ ~g.abs => k <= n
  /\ \A i \in 1 .. n : g.parts[i].star = "no"
  /\ Base(g) = [i \in 1 .. n |-> g.parts[i].lit]

LEMMA BaseIs ==
  ASSUME NEW g, Glob(g), ~Ambiguous(g), NEW f, NEW k \in Nat, FoundBelow(g, f, k)
  PROVE  \E n \in Nat : BaseHas(g, n, k)
<1> DEFINE parts == g.parts
<1>1. Len(parts) \in Nat /\ DOMAIN parts = 1 .. Len(parts)
  <2>1. parts \in Seq(ToSet(parts))
    BY Zenon DEF Glob
  <2> QED
    BY <2>1
<1>2. Len(Base(g)) # Len(parts) /\ \A i \in 1 .. Len(Base(g)) : parts[i].star = "no"
  BY Zenon DEF Ambiguous
<1>3. k \in 0 .. Len(parts) /\ \A i \in 1 .. Len(parts) : parts[i] = Up <=> i <= k
  BY Zenon DEF FoundBelow
<1>4. PICK m \in 0 .. Len(parts) :
        /\ Prefix(g) = [i \in 1 .. m |-> parts[i].lit] /\ Len(Prefix(g)) = m
        /\ Fixed(g) <= m
        /\ g.abs => m > 0
  BY PrefixIs, Zenon
<1>5. CASE g.abs
  <2> DEFINE n == m - 1
  <2>1. n \in Nat /\ n < Len(parts) /\ 1 .. n \subseteq 1 .. m
    BY <1>1, <1>4, <1>5
  <2>2. Base(g) = SubSeq(Prefix(g), 1, n)
    BY <1>4, <1>5, Zenon DEF Base, Dirname, Front
  <2>3. SubSeq([i \in 1 .. m |-> parts[i].lit], 1, n) = [i \in 1 .. n |-> parts[i].lit]
    BY <1>4, <2>1
  <2>4. Base(g) = [i \in 1 .. n |-> parts[i].lit]
    BY <1>4, <2>2, <2>3, Zenon
  <2>5. Len([i \in 1 .. n |-> parts[i].lit]) = n
    BY <2>1
  <2>6. Len(Base(g)) = n
    BY <2>4, <2>5, Zenon
  <2> HIDE DEF n
  <2>7. BaseHas(g, n, k)
    BY <1>2, <1>5, <2>1, <2>4, <2>6, Zenon DEF BaseHas
  <2> QED
    BY <2>1, <2>7, Zenon
<1>6. CASE ~g.abs /\ HasUp(g)
  <2>1. Base(g) = Prefix(g)
    BY <1>6, Zenon DEF Base
  <2>2. m \in Nat /\ m < Len(parts)
    BY <1>1, <1>2, <1>4, <2>1
  <2>3. k <= m
    <3>1. /\ Fixed(g) \in 0 .. Len(parts)
          /\ Fixed(g) < Len(parts) => ~NoStar(parts[Fixed(g) + 1])
      <4>1. parts \in Seq(ToSet(parts))
        BY Zenon DEF Glob
      <4> QED
        BY <4>1, FixedIs, Zenon
    <3>2. NoStar(Up)
      BY DEF Up, Lit, NoStar
    <3> DEFINE n == Fixed(g)
    <3> HIDE DEF n, parts
    <3>3. CASE n < Len(parts)
      <4>1. n + 1 \in 1 .. Len(parts) /\ n \in Nat
        BY <1>1, <3>1, <3>3 DEF n
      <4>2. parts[n + 1] # Up
        BY <3>1, <3>2, <3>3, Zenon DEF n
      <4>3. ~(n + 1 <= k)
        BY <1>3, <4>1, <4>2, Zenon
      <4> QED
        BY <1>1, <1>3, <1>4, <4>1, <4>3 DEF n
    <3>4. CASE ~(n < Len(parts))
      BY <1>1, <1>3, <1>4, <3>1, <3>4 DEF n
    <3> QED
      BY <3>3, <3>4
  <2>4. BaseHas(g, m, k)
    BY <1>2, <1>4, <2>1, <2>2, <2>3, Zenon DEF BaseHas
  <2> QED
    BY <2>2, <2>4, Zenon
<1>7. k > 0 => HasUp(g)
  BY HasUpIs
<1>8. CASE ~g.abs /\ ~HasUp(g) /\ RecursiveAt(g) # {}
  <2> DEFINE r == Recursion(g)
             end == Len(parts) - 1
             Counts(i) == IF end \in RecursiveAt(g) /\ parts[end + 1] = Star
                            THEN i = end ELSE \A j \in RecursiveAt(g) : i <= j
  <2>1. RecursiveAt(g) \subseteq Nat
    <3>1. RecursiveAt(g) \subseteq 1 .. (Len(parts) - 1)
      BY Zenon DEF RecursiveAt
    <3>2. 1 .. (Len(parts) - 1) \subseteq Nat
      OBVIOUS
    <3> QED
      BY <3>1, <3>2, Zenon
  <2>2. \E i \in RecursiveAt(g) : \A j \in RecursiveAt(g) : i <= j
    BY <1>8, <2>1, LeastIs, Zenon
  <2>3. \E i \in RecursiveAt(g) : Counts(i)
    BY <2>2, Zenon
  <2>4. r = CHOOSE i \in RecursiveAt(g) : Counts(i)
    BY Zenon DEF Recursion
  <2> HIDE DEF Counts
  <2>5. r \in RecursiveAt(g)
    BY <2>3, <2>4, Zenon
  <2>6. r \in 1 .. (Len(parts) - 1)
    BY <2>5, Zenon DEF RecursiveAt
  <2>7. Base(g) = [j \in 1 .. (r - 1) |-> parts[j].text]
    BY <1>8, Zenon DEF Base
  <2> HIDE DEF r
  <2>8. /\ r - 1 \in Nat /\ r - 1 < Len(parts)
        /\ \A j \in 1 .. (r - 1) : j \in DOMAIN parts
    BY <1>1, <2>6
  <2>9. Len(Base(g)) = r - 1
    <3>1. Len([j \in 1 .. (r - 1) |-> parts[j].text]) = r - 1
      BY <2>8
    <3> QED
      BY <2>7, <3>1, Zenon
  <2>10. \A j \in 1 .. (r - 1) : parts[j].star = "no"
    BY <1>2, <2>9, Zenon
  <2>11. \A j \in 1 .. (r - 1) : parts[j].text = parts[j].lit
    <3>1. \A j \in 1 .. (r - 1) : NoStar(parts[j])
      BY <2>10, Zenon DEF NoStar
    <3> QED
      BY <2>8, <3>1, Zenon DEF Glob
  <2> HIDE DEF parts
  <2>12. [j \in 1 .. (r - 1) |-> parts[j].text] = [i \in 1 .. (r - 1) |-> parts[i].lit]
    BY <2>11
  <2>13. k <= r - 1
    BY <1>7, <1>8, <2>8
  <2>14. BaseHas(g, r - 1, k)
    BY <2>7, <2>8, <2>10, <2>12, <2>13, Zenon DEF BaseHas, parts
  <2> QED
    BY <2>8, <2>14, Zenon
<1>9. CASE ~g.abs /\ ~HasUp(g) /\ ~(RecursiveAt(g) # {})
  <2>1. Base(g) = <<>>
    BY <1>9, Zenon DEF Base
  <2>2. <<>> = [i \in 1 .. 0 |-> parts[i].lit] /\ Len(<<>>) = 0
    OBVIOUS
  <2>3. 0 \in Nat /\ 0 < Len(parts)
    BY <1>1, <1>2, <2>1, <2>2
  <2>4. k <= 0 /\ \A i \in 1 .. 0 : parts[i].star = "no"
    BY <1>7, <1>9
  <2>5. BaseHas(g, 0, k)
    BY <2>1, <2>2, <2>3, <2>4, Zenon DEF BaseHas
  <2> QED
    BY <2>3, <2>5, Zenon
<1> QED
  BY <1>5, <1>6, <1>8, <1>9, Zenon

\* A relative glob: the manifest's directory and the first components.
LEMMA UnderRelative ==
  ASSUME NEW g, Glob(g), ~g.abs, NEW f, NEW k \in Nat, FoundBelow(g, f, k),
         NEW n \in Nat, k <= n, n < Len(g.parts),
         \A i \in 1 .. n : g.parts[i].star = "no"
  PROVE  Under(Normal(Basedir \o [i \in 1 .. n |-> g.parts[i].lit]), f)
<1> DEFINE parts == g.parts
           rest == [i \in 1 .. n |-> parts[i].lit]
           t == Above(Basedir, k)
<1>1. Names(Basedir) /\ Basedir \in Seq(STRING) /\ f \in Seq(STRING)
      /\ (\A i \in 1 .. Len(f) : f[i] # "..")
  <2>1. Names(f)
    BY Zenon DEF FoundBelow
  <2>2. f \in Seq(STRING) /\ ".." \notin ToSet(f)
    BY <2>1, Zenon DEF Names
  <2>3. \A i \in 1 .. Len(f) : f[i] # ".."
    BY <2>2 DEF ToSet
  <2> QED
    BY <2>2, <2>3, BasedirAssumption, Zenon DEF Names
<1>2. t \in Nat /\ Top(g, k) = t
  BY <1>1 DEF Above, Top
<1>3. /\ \A i \in 1 .. Len(parts) : parts[i] = Up <=> i <= k
      /\ \A i \in 1 .. t : f[i] = Basedir[i]
  BY <1>2, Zenon DEF FoundBelow
<1>4. t + (n - k) < Len(f) /\ \A i \in 1 .. (n - k) : f[t + i] = parts[k + i].lit
  <2>1. \A b \in Nat :
          k + b < Len(parts) /\ (\A i \in (k + 1) .. (k + b) : parts[i].star = "no") =>
            /\ Top(g, k) + b < Len(f)
            /\ \A i \in 1 .. b : f[Top(g, k) + i] = parts[k + i].lit
    BY Zenon DEF FoundBelow
  <2> DEFINE b == n - k
  <2>2. b \in Nat /\ k + b = n /\ k + b < Len(parts)
    OBVIOUS
  <2>3. \A i \in (k + 1) .. (k + b) : parts[i].star = "no"
    BY <2>2
  <2> HIDE DEF parts, b
  <2>4. t + b < Len(f) /\ \A i \in 1 .. b : f[t + i] = parts[k + i].lit
    BY <1>2, <2>1, <2>2, <2>3, Zenon
  <2> QED
    BY <2>4, Zenon DEF b, parts
<1>5. Up.lit = ".."
  BY DEF Up, Lit
<1>6. ASSUME NEW i \in 1 .. n
      PROVE  rest[i] \in Component /\ (rest[i] = ".." <=> i <= k)
  <2>1. i \in 1 .. Len(parts) /\ rest[i] = parts[i].lit
    OBVIOUS
  <2>2. CASE i <= k
    <3>1. rest[i] = ".."
      BY <1>3, <1>5, <2>1, <2>2
    <3> HIDE DEF rest
    <3>2. rest[i] \in Component
      BY <3>1, Zenon DEF Component
    <3> QED
      BY <2>2, <3>1, <3>2, Zenon
  <2>3. CASE ~(i <= k)
    <3>1. i - k \in 1 .. (n - k) /\ k + (i - k) = i
      BY <2>3
    <3>2. f[t + (i - k)] = parts[i].lit
      BY <1>4, <3>1
    <3>3. t + (i - k) \in 1 .. Len(f)
      BY <1>1, <1>2, <1>4, <3>1
    <3>4. f[t + (i - k)] \in STRING /\ f[t + (i - k)] # ".."
      BY <1>1, <3>3
    <3>5. rest[i] = f[t + (i - k)]
      BY <2>1, <3>2, Zenon
    <3> HIDE DEF rest
    <3>6. rest[i] \in Component /\ rest[i] # ".."
      BY <3>4, <3>5, Zenon DEF Component
    <3> QED
      BY <2>3, <3>6, Zenon
  <2> QED
    BY <2>2, <2>3
<1>7. rest \in Seq(Component) /\ Len(rest) = n
  BY <1>6
<1> DEFINE s == [m \in 1 .. (t + n - k) |->
                   IF m <= t THEN Basedir[m] ELSE rest[m - t + k]]
<1>8. Normal(Basedir \o rest) = s
  <2>1. k \in 0 .. Len(rest) /\ \A i \in 1 .. Len(rest) : rest[i] = ".." <=> i <= k
    BY <1>6, <1>7
  <2>2. Names(Basedir) /\ rest \in Seq(Component)
    BY <1>1, <1>7
  <2> HIDE DEF s, rest
  <2>3. Normal(Basedir \o rest)
          = [m \in 1 .. (t + Len(rest) - k) |->
               IF m <= t THEN Basedir[m] ELSE rest[m - t + k]]
    BY <2>1, <2>2, NormalOfUps
  <2> QED
    BY <1>7, <2>3, Zenon DEF s
<1>9. t + n - k \in Nat /\ t + n - k < Len(f)
  BY <1>2, <1>4
<1>10. ASSUME NEW m \in 1 .. (t + n - k)
       PROVE  s[m] = f[m]
  <2>1. CASE m <= t
    BY <2>1, <1>2, <1>3
  <2>2. CASE ~(m <= t)
    <3>1. m - t \in 1 .. (n - k) /\ t + (m - t) = m /\ m - t + k = k + (m - t)
          /\ m - t + k \in 1 .. n
      BY <2>2, <1>2
    <3>2. f[m] = parts[m - t + k].lit
      <4> HIDE DEF parts, rest, s
      <4>1. f[t + (m - t)] = parts[k + (m - t)].lit
        BY <1>4, <3>1
      <4> QED
        BY <3>1, <4>1, Zenon
    <3>3. rest[m - t + k] = parts[m - t + k].lit
      BY <3>1
    <3>4. s[m] = rest[m - t + k]
      BY <2>2
    <3> QED
      BY <3>2, <3>3, <3>4, Zenon
  <2> QED
    BY <2>1, <2>2
<1>11. Len(s) = t + n - k /\ s \in Seq(STRING)
  <2>1. \A m \in 1 .. (t + n - k) : f[m] \in STRING
    BY <1>1, <1>9
  <2>2. \A m \in 1 .. (t + n - k) : s[m] \in STRING
    BY <1>10, <2>1
  <2> DEFINE N == t + n - k
  <2>3. N \in Nat /\ s \in [1 .. N -> STRING]
    <3>1. s = [m \in 1 .. N |-> s[m]]
      OBVIOUS
    <3> HIDE DEF s
    <3> QED
      BY <1>9, <2>2, <3>1
  <2> HIDE DEF N, s
  <2>4. s \in Seq(STRING) /\ Len(s) = N
    BY <2>3
  <2> QED
    BY <2>4 DEF N
<1> HIDE DEF s
<1>12. Under(s, f)
  BY <1>9, <1>10, <1>11 DEF Under
<1> QED
  BY <1>8, <1>12, Zenon DEF rest, parts

\* Whatever the glob, the directory its matches are taken relative to is above them.
LEMMA BaseIsAbove ==
  ASSUME NEW g, Glob(g), ~Ambiguous(g), NEW f, NEW k \in Nat, FoundBelow(g, f, k)
  PROVE  Under(Normal(GlobBase(g)), f)
<1> DEFINE parts == g.parts
<1>1. PICK n \in Nat : BaseHas(g, n, k)
  BY BaseIs, Zenon
<1>2. /\ n < Len(parts) /\ (~g.abs => k <= n)
      /\ \A i \in 1 .. n : parts[i].star = "no"
      /\ Base(g) = [i \in 1 .. n |-> parts[i].lit]
  BY <1>1, Zenon DEF BaseHas
<1>3. CASE g.abs
  <2>1. k = 0 /\ Top(g, k) = 0 /\ Names(f) /\ f \in Seq(STRING)
    BY <1>3, Zenon DEF FoundBelow, Top, Names
  <2>2. \A b \in Nat :
          k + b < Len(parts) /\ (\A i \in (k + 1) .. (k + b) : parts[i].star = "no") =>
            /\ Top(g, k) + b < Len(f)
            /\ \A i \in 1 .. b : f[Top(g, k) + i] = parts[k + i].lit
    BY Zenon DEF FoundBelow
  <2> HIDE DEF parts
  <2>3. /\ 0 + n < Len(f)
        /\ \A i \in 1 .. n : f[0 + i] = parts[0 + i].lit
    <3>1. k + n < Len(parts) /\ \A i \in (k + 1) .. (k + n) : parts[i].star = "no"
      BY <1>2, <2>1
    <3> QED
      BY <2>1, <2>2, <3>1
  <2>4. n < Len(f) /\ \A i \in 1 .. n : f[i] = parts[i].lit
    BY <2>3
  <2>5. Base(g) = [i \in 1 .. n |-> f[i]]
    <3>1. [i \in 1 .. n |-> parts[i].lit] = [i \in 1 .. n |-> f[i]]
      BY <2>4
    <3> QED
      BY <1>2, <3>1, Zenon
  <2>6. Under([i \in 1 .. n |-> f[i]], f)
    BY <2>1, <2>4 DEF Under
  <2>7. GlobBase(g) = Base(g)
    BY <1>3, Zenon DEF GlobBase
  <2>8. Under(GlobBase(g), f)
    BY <2>5, <2>6, <2>7, Zenon
  <2> QED
    BY <2>1, <2>8, NormalAbove, Zenon
<1>4. CASE ~g.abs
  <2>1. Under(Normal(Basedir \o [i \in 1 .. n |-> g.parts[i].lit]), f)
    BY <1>2, <1>4, UnderRelative, Zenon
  <2>2. GlobBase(g) = Basedir \o Base(g)
    BY <1>4, Zenon DEF GlobBase
  <2> QED
    BY <1>2, <2>1, <2>2, Zenon
<1> QED
  BY <1>3, <1>4

\* The path of a file from a directory above it.
LEMMA RelativeBelow ==
  ASSUME NEW f, Names(f), NEW start, Under(Normal(start), f)
  PROVE  Relative(f, start) = SubSeq(f, Len(Normal(start)) + 1, Len(f))
<1> DEFINE s == Normal(start)
           p == Normal(f)
           Common(n) == /\ n <= Len(p) /\ SubSeq(p, 1, n) = SubSeq(s, 1, n)
                        /\ n < Len(s) /\ n < Len(p) => p[n + 1] # s[n + 1]
           common == CHOOSE n \in 0 .. Len(s) : Common(n)
<1>1. p = f
  BY NormalOfNames
<1>2. Relative(f, start) = [i \in 1 .. (Len(s) - common) |-> ".."] \o SubSeq(p, common + 1, Len(p))
  BY Zenon DEF Relative
<1>3. /\ s \in Seq(STRING) /\ p \in Seq(STRING) /\ Len(s) < Len(p)
      /\ \A i \in 1 .. Len(s) : p[i] = s[i]
  BY <1>1, Zenon DEF Names, Under
<1> HIDE DEF s, p
<1>4. Len(s) \in Nat /\ Len(p) \in Nat
  BY <1>3
<1>5. Common(Len(s))
  <2>1. SubSeq(p, 1, Len(s)) = SubSeq(s, 1, Len(s))
    BY <1>3, <1>4
  <2> QED
    BY <1>3, <1>4, <2>1
<1>6. ASSUME NEW n \in 0 .. Len(s), Common(n)
      PROVE  n = Len(s)
  <2> SUFFICES ASSUME n # Len(s) PROVE FALSE
    OBVIOUS
  <2>1. n < Len(s) /\ n < Len(p) /\ n + 1 \in 1 .. Len(s)
    BY <1>3, <1>4
  <2>2. p[n + 1] # s[n + 1]
    BY <1>6, <2>1, Zenon
  <2> QED
    BY <1>3, <2>1, <2>2
<1>7. common = Len(s)
  <2>1. Len(s) \in 0 .. Len(s)
    BY <1>4
  <2> HIDE DEF Common
  <2> QED
    BY <1>5, <1>6, <2>1
<1>8. [i \in 1 .. (Len(s) - common) |-> ".."] = <<>>
  <2> HIDE DEF common
  <2> QED
    BY <1>4, <1>7
<1>9. Relative(f, start) = <<>> \o SubSeq(p, Len(s) + 1, Len(p))
  BY <1>2, <1>7, <1>8, Zenon
<1>10. SubSeq(p, Len(s) + 1, Len(p)) \in Seq(STRING)
  BY <1>3, <1>4
<1>11. Relative(f, start) = SubSeq(p, Len(s) + 1, Len(p))
  <2> DEFINE q == SubSeq(p, Len(s) + 1, Len(p))
  <2>1. q \in Seq(STRING)
    BY <1>10
  <2> HIDE DEF q
  <2>2. <<>> \o q = q
    BY <2>1
  <2> QED
    BY <1>9, <2>2, Zenon DEF q
<1> QED
  BY <1>1, <1>11, Zenon DEF s

\* Where a file of a glob is put, below the directory asked for.
LEMMA DestinationIs ==
  ASSUME NEW e, IsGlob(e), Entry(e), ~Ambiguous(e.glob), NEW f \in Found(e.glob, File)
  PROVE  /\ Under(Normal(GlobBase(e.glob)), f)
         /\ Names(f) /\ Names(e.path)
         /\ e.preserve => Destination(f, e) =
              e.path \o SubSeq(f, Len(Normal(GlobBase(e.glob))) + 1, Len(f))
         /\ ~e.preserve => Destination(f, e) = e.path \o <<f[Len(f)]>>
<1>1. Glob(e.glob) /\ Names(e.path)
  BY Zenon DEF Entry, IsGlob
<1>2. PICK k \in Nat : FoundBelow(e.glob, f, k)
  BY <1>1, FoundIsBelow, Zenon
<1>3. Under(Normal(GlobBase(e.glob)), f)
  BY <1>1, <1>2, BaseIsAbove, Zenon
<1>4. Names(f)
  BY <1>2, Zenon DEF FoundBelow
<1> DEFINE s == Normal(GlobBase(e.glob))
           q == SubSeq(f, Len(s) + 1, Len(f))
<1>5. Relative(f, GlobBase(e.glob)) = q
  BY <1>3, <1>4, RelativeBelow, Zenon
<1>6. Normal(e.path \o q) = e.path \o q
  <2>1. /\ e.path \in Seq(STRING) /\ f \in Seq(STRING) /\ s \in Seq(STRING)
        /\ \A i \in 1 .. Len(e.path) : e.path[i] # ".."
        /\ \A i \in 1 .. Len(f) : f[i] # ".."
        /\ Len(s) < Len(f)
    <3>1. /\ e.path \in Seq(STRING) /\ f \in Seq(STRING) /\ s \in Seq(STRING)
          /\ Len(s) < Len(f)
      BY <1>1, <1>3, <1>4, Zenon DEF Names, Under
    <3>2. /\ \A i \in 1 .. Len(e.path) : e.path[i] # ".."
          /\ \A i \in 1 .. Len(f) : f[i] # ".."
      BY <1>1, <1>4, NamesAreComponents, Zenon
    <3> QED
      BY <3>1, <3>2
  <2> DEFINE d == e.path
  <2> HIDE DEF s, d
  <2>2. /\ q \in Seq(STRING) /\ Len(q) = Len(f) - Len(s)
        /\ \A i \in 1 .. Len(q) : q[i] = f[Len(s) + i]
    BY <2>1
  <2>3. \A i \in 1 .. Len(q) : q[i] # ".."
    <3> SUFFICES ASSUME NEW i \in 1 .. Len(q) PROVE q[i] # ".."
      OBVIOUS
    <3>1. Len(s) + i \in 1 .. Len(f) /\ q[i] = f[Len(s) + i]
      BY <2>1, <2>2
    <3> QED
      BY <2>1, <3>1, Zenon
  <2> HIDE DEF q
  <2>4. d \in Seq(STRING) /\ \A i \in 1 .. Len(d) : d[i] # ".."
    BY <2>1, Zenon DEF d
  <2>5. d \o q \in Seq(STRING) /\ \A i \in 1 .. Len(d \o q) : (d \o q)[i] # ".."
    <3>1. d \o q \in Seq(STRING) /\ Len(d \o q) = Len(d) + Len(q)
      <4>1. d \in Seq(STRING) /\ q \in Seq(STRING)
        BY <2>2, <2>4, Zenon
      <4> QED
        BY <4>1
    <3>2. ASSUME NEW i \in 1 .. Len(d \o q) PROVE (d \o q)[i] # ".."
      <4>1. CASE i <= Len(d)
        BY <4>1, <2>2, <2>4, <3>1
      <4>2. CASE ~(i <= Len(d))
        <5>1. (d \o q)[i] = q[i - Len(d)] /\ i - Len(d) \in 1 .. Len(q)
          BY <4>2, <2>2, <2>4, <3>1
        <5> QED
          BY <5>1, <2>3
      <4> QED
        BY <4>1, <4>2
    <3> QED
      BY <3>1, <3>2
  <2>6. Names(d \o q)
    <3> DEFINE dq == d \o q
    <3>1. dq \in Seq(STRING) /\ \A i \in 1 .. Len(dq) : dq[i] # ".."
      BY <2>5, Zenon
    <3> HIDE DEF dq
    <3>2. Names(dq)
      BY <3>1 DEF Names, ToSet
    <3> QED
      BY <3>2, Zenon DEF dq
  <2>7. Normal(d \o q) = d \o q
    BY <2>6, NormalOfNames
  <2> QED
    BY <2>7, Zenon DEF d
<1>7. e.preserve => Destination(f, e) = e.path \o q
  BY <1>5, <1>6, Zenon DEF Destination
<1>8. ~e.preserve => Destination(f, e) = e.path \o <<f[Len(f)]>>
  BY Zenon DEF Destination, Basename, Last
<1> QED
  BY <1>1, <1>3, <1>4, <1>7, <1>8, Zenon

\* What comes behind a directory: below it, in it or in one below it, and different
\* for different files below one directory.
LEMMA BehindDirectory ==
  ASSUME NEW d \in Seq(STRING), NEW q \in Seq(STRING), Len(q) > 0
  PROVE  /\ IsStrictPrefix(d, d \o q)
         /\ Dirname(d \o q) = <<>> => d = <<>>
         /\ Len(q) = 1 => Dirname(d \o q) = d
         /\ \A p \in Seq(STRING) : d \o p = d \o q => p = q
<1>1. Len(d) \in Nat /\ Len(q) \in Nat /\ d \o q \in Seq(STRING)
      /\ Len(d \o q) = Len(d) + Len(q)
  OBVIOUS
<1>2. SubSeq(d, 1, Len(d)) = SubSeq(d \o q, 1, Len(d))
  BY <1>1
<1>3. d # d \o q
  BY <1>1
<1>4. IsStrictPrefix(d, d \o q)
  BY <1>1, <1>2, <1>3 DEF IsStrictPrefix, IsPrefix
<1>5. Dirname(d \o q) = SubSeq(d \o q, 1, Len(d) + Len(q) - 1)
  BY <1>1 DEF Dirname, Front
<1>6. Len(SubSeq(d \o q, 1, Len(d) + Len(q) - 1)) = Len(d) + Len(q) - 1
  BY <1>1
<1>7. Dirname(d \o q) = <<>> => d = <<>>
  <2>1. Dirname(d \o q) = <<>> => Len(d) = 0
    BY <1>1, <1>5, <1>6
  <2> QED
    BY <2>1
<1>8. Len(q) = 1 => Dirname(d \o q) = d
  <2>1. SubSeq(d, 1, Len(d)) = d
    OBVIOUS
  <2>2. Len(q) = 1 => Len(d) + Len(q) - 1 = Len(d)
    BY <1>1
  <2> QED
    BY <1>2, <1>5, <2>1, <2>2, Zenon
<1>9. ASSUME NEW p \in Seq(STRING), d \o p = d \o q
      PROVE  p = q
  <2>1. Len(d \o p) = Len(d) + Len(p)
    OBVIOUS
  <2>2. Len(p) = Len(q)
    BY <1>1, <1>9, <2>1
  <2>3. ASSUME NEW i \in 1 .. Len(q) PROVE p[i] = q[i]
    <3>1. (d \o p)[Len(d) + i] = p[i]
      BY <2>2, <1>1
    <3>2. (d \o q)[Len(d) + i] = q[i]
      BY <1>1
    <3> QED
      BY <3>1, <3>2, <1>9
  <2> QED
    BY <2>2, <2>3
<1> QED
  BY <1>4, <1>7, <1>8, <1>9

\* Files of a glob in their tree.
LEMMA TreeIs ==
  ASSUME NEW e, IsGlob(e), Entry(e), ~Ambiguous(e.glob),
         NEW f \in Found(e.glob, File), NEW h \in Found(e.glob, File)
  PROVE  /\ IsStrictPrefix(e.path, Destination(f, e))
         /\ e.preserve => (Dirname(Destination(f, e)) = <<>> => e.path = <<>>)
         /\ ~e.preserve => Dirname(Destination(f, e)) = e.path
         /\ e.preserve /\ f # h => Destination(f, e) # Destination(h, e)
<1> DEFINE s == Normal(GlobBase(e.glob))
           d == e.path
           Rest(x) == SubSeq(x, Len(s) + 1, Len(x))
<1>1. /\ Under(s, f) /\ Names(f) /\ Names(d) /\ Under(s, h) /\ Names(h)
      /\ e.preserve => Destination(f, e) = d \o Rest(f)
      /\ e.preserve => Destination(h, e) = d \o Rest(h)
      /\ ~e.preserve => Destination(f, e) = d \o <<f[Len(f)]>>
  BY DestinationIs, Zenon
<1>2. /\ s \in Seq(STRING) /\ f \in Seq(STRING) /\ h \in Seq(STRING) /\ d \in Seq(STRING)
      /\ Len(s) < Len(f) /\ Len(s) < Len(h)
      /\ \A i \in 1 .. Len(s) : f[i] = s[i]
      /\ \A i \in 1 .. Len(s) : h[i] = s[i]
  BY <1>1, Zenon DEF Under, Names
<1> HIDE DEF s, d
<1>3. Rest(f) \in Seq(STRING) /\ Rest(h) \in Seq(STRING)
      /\ Len(Rest(f)) = Len(f) - Len(s) /\ Len(Rest(h)) = Len(h) - Len(s)
      /\ Len(Rest(f)) > 0 /\ Len(Rest(h)) > 0
      /\ (\A i \in 1 .. Len(Rest(f)) : Rest(f)[i] = f[Len(s) + i])
      /\ (\A i \in 1 .. Len(Rest(h)) : Rest(h)[i] = h[Len(s) + i])
  BY <1>2
<1> HIDE DEF Rest
<1>4. ASSUME Rest(f) = Rest(h)
      PROVE  f = h
  <2>1. Len(f) = Len(h)
    BY <1>2, <1>3, <1>4
  <2>2. ASSUME NEW i \in 1 .. Len(f) PROVE f[i] = h[i]
    <3>1. CASE i <= Len(s)
      BY <3>1, <1>2
    <3>2. CASE ~(i <= Len(s))
      <4>1. i - Len(s) \in 1 .. Len(Rest(f)) /\ Len(s) + (i - Len(s)) = i
        BY <3>2, <1>2, <1>3
      <4>2. Rest(f)[i - Len(s)] = f[i]
        BY <1>3, <4>1
      <4>3. Rest(h)[i - Len(s)] = h[i]
        BY <1>3, <1>4, <4>1
      <4> QED
        BY <4>2, <4>3, <1>4
    <3> QED
      BY <3>1, <3>2
  <2> QED
    BY <1>2, <2>1, <2>2
<1>5. CASE e.preserve
  <2>1. /\ Destination(f, e) = d \o Rest(f) /\ Destination(h, e) = d \o Rest(h)
    BY <1>1, <1>5, Zenon
  <2>2. /\ IsStrictPrefix(d, d \o Rest(f))
        /\ Dirname(d \o Rest(f)) = <<>> => d = <<>>
    BY <1>2, <1>3, BehindDirectory, Zenon
  <2>3. \A p \in Seq(STRING) : d \o p = d \o Rest(f) => p = Rest(f)
    BY <1>2, <1>3, BehindDirectory, Zenon
  <2>4. Destination(f, e) = Destination(h, e) => f = h
    BY <1>3, <1>4, <2>1, <2>3, Zenon
  <2> QED
    BY <1>5, <2>1, <2>2, <2>4, Zenon DEF d
<1>6. CASE ~e.preserve
  <2> DEFINE q == <<f[Len(f)]>>
  <2>1. q \in Seq(STRING) /\ Len(q) > 0 /\ Len(q) = 1
    <3>1. f[Len(f)] \in STRING
      BY <1>2
    <3> QED
      BY <3>1
  <2>2. Destination(f, e) = d \o q
    BY <1>1, <1>6, Zenon
  <2> HIDE DEF q
  <2>3. IsStrictPrefix(d, d \o q) /\ Dirname(d \o q) = d
    BY <1>2, <2>1, BehindDirectory, Zenon
  <2> QED
    BY <1>6, <2>2, <2>3, Zenon DEF d
<1> QED
  BY <1>5, <1>6, Zenon

-----------------------------------------------------------------------------
(* A sequence of a finite set's elements, and one behind another.          *)

LEMMA SetToSeqIs ==
  ASSUME NEW S, IsFiniteSet(S)
  PROVE  SetToSeq(S) \in Seq(S) /\ ToSet(SetToSeq(S)) = S
<1> DEFINE n == Cardinality(S)
<1>1. n \in Nat /\ ExistsBijection(1 .. n, S)
  BY FS_CardinalityType
<1>2. PICK b : b \in Bijection(1 .. n, S)
  BY <1>1, Zenon DEF ExistsBijection
<1>3. b \in [1 .. n -> S] /\ IsInjective(b)
  BY <1>2, Zenon DEF Bijection, Injection
<1> DEFINE s == SetToSeq(S)
<1>4. s \in [1 .. n -> S] /\ IsInjective(s)
  BY <1>3, Zenon DEF SetToSeq
<1> HIDE DEF s
<1>5. s \in Injection(1 .. n, S)
  BY <1>4, Zenon DEF Injection
<1>6. Cardinality(1 .. n) = Cardinality(S)
  BY <1>1, IntervalSize, Zenon
<1>7. s \in Surjection(1 .. n, S)
  BY <1>5, <1>6, FS_Injection, Zenon
<1>8. \A x \in S : \E i \in 1 .. n : s[i] = x
  BY <1>7 DEF Surjection
<1> HIDE DEF n
<1>9. s \in Seq(S) /\ DOMAIN s = 1 .. n
  BY <1>1, <1>4
<1>10. ToSet(s) = S
  BY <1>4, <1>8, <1>9 DEF ToSet
<1> QED
  BY <1>9, <1>10, Zenon DEF s

\* As many images as elements at most: the set is finite.
LEMMA ImageFinite ==
  ASSUME NEW S, IsFiniteSet(S), NEW f, DOMAIN f = S
  PROVE  IsFiniteSet({f[x] : x \in S})
<1> DEFINE T == {f[x] : x \in S}
<1>1. [x \in S |-> f[x]] \in Surjection(S, T)
  BY DEF Surjection
<1> QED
  BY <1>1, FS_Surjection

\* The sequence of its elements.
LEMMA SeqOfOwn ==
  ASSUME NEW A, NEW s \in Seq(A)
  PROVE  s \in Seq(ToSet(s))
<1>1. Len(s) \in Nat /\ s \in [1 .. Len(s) -> ToSet(s)]
  BY DEF ToSet
<1> QED
  BY <1>1

\* s, and t behind it.
Joined(s, t) ==
  /\ s \o t \in Seq(ToSet(s \o t))
  /\ Len(s \o t) = Len(s) + Len(t)
  /\ Len(s \o t) \in Nat /\ Len(s) \in Nat /\ Len(t) \in Nat /\ Len(s) <= Len(s \o t)
  /\ \A i \in 1 .. Len(s) : (s \o t)[i] = s[i]
  /\ \A i \in 1 .. Len(t) : (s \o t)[Len(s) + i] = t[i]
  /\ {(s \o t)[i] : i \in (Len(s) + 1) .. Len(s \o t)} = ToSet(t)
  /\ t = <<>> => s \o t = s

LEMMA ConcatIs ==
  ASSUME NEW A, NEW s \in Seq(A), NEW B, NEW t \in Seq(B)
  PROVE  Joined(s, t)
<1>1. Len(s) \in Nat /\ Len(t) \in Nat /\ DOMAIN t = 1 .. Len(t)
  OBVIOUS
<1>2. s \in [1 .. Len(s) -> A \cup B] /\ t \in [1 .. Len(t) -> A \cup B]
  OBVIOUS
<1>3. s \in Seq(A \cup B) /\ t \in Seq(A \cup B)
  BY <1>1, <1>2
<1> DEFINE st == s \o t
<1>4. /\ st \in Seq(A \cup B) /\ Len(st) = Len(s) + Len(t)
      /\ \A i \in 1 .. Len(s) : st[i] = s[i]
      /\ \A i \in 1 .. Len(t) : st[Len(s) + i] = t[i]
  BY <1>1, <1>3
<1>5. t = <<>> => st = s
  OBVIOUS
<1> HIDE DEF st
<1>6. st \in Seq(ToSet(st))
  BY <1>4, SeqOfOwn
<1>7. ASSUME NEW i \in (Len(s) + 1) .. Len(st)
      PROVE  \E j \in 1 .. Len(t) : st[i] = t[j]
  <2> DEFINE j == i - Len(s)
  <2>1. j \in 1 .. Len(t) /\ Len(s) + j = i
    BY <1>1, <1>4
  <2> HIDE DEF j
  <2>2. st[Len(s) + j] = t[j]
    BY <1>4, <2>1
  <2> QED
    BY <2>1, <2>2
<1>8. ASSUME NEW j \in 1 .. Len(t)
      PROVE  \E i \in (Len(s) + 1) .. Len(st) : st[i] = t[j]
  <2>1. Len(s) + j \in (Len(s) + 1) .. Len(st)
    BY <1>1, <1>4
  <2> QED
    BY <1>4, <2>1
<1>9. {st[i] : i \in (Len(s) + 1) .. Len(st)} = ToSet(t)
  <2>1. ToSet(t) = {t[j] : j \in 1 .. Len(t)}
    BY <1>1, Zenon DEF ToSet
  <2>2. {st[i] : i \in (Len(s) + 1) .. Len(st)} \subseteq {t[j] : j \in 1 .. Len(t)}
    BY <1>7
  <2>3. {t[j] : j \in 1 .. Len(t)} \subseteq {st[i] : i \in (Len(s) + 1) .. Len(st)}
    BY <1>8
  <2> QED
    BY <2>1, <2>2, <2>3, Zenon
<1>10. Len(st) \in Nat /\ Len(s) <= Len(st)
  BY <1>1, <1>4
<1> QED
  BY <1>1, <1>4, <1>5, <1>6, <1>9, <1>10, Zenon DEF st, Joined

-----------------------------------------------------------------------------
(* The invariant.  ExtraInclude numbers its inputs, and the copies of both *)
(* partitions, made or not made yet, are of numbers given out; so adding   *)
(* files for one partition leaves the copies of the other alone.  Behind   *)
(* n turns of the loop over add_files, the first n entries are copied.     *)

\* What a partition's add_files are when the loop starts.
Files(p) ==
  Given(p).files \o IF p = "root" THEN SetToSeq({Dropin(c) : c \in manifest.commands})
                                  ELSE <<>>

ManifestInv ==
  /\ {"root", "qm", "commands", "var", "var_qm", "internal"} \subseteq DOMAIN manifest
  /\ manifest.root # None /\ IsFiniteSet(manifest.commands)
  /\ \A c \in {manifest.root, manifest.qm} \ {None} :
       c.files \in Seq(ToSet(c.files)) /\ \A e \in ToSet(c.files) : Entry(e)

CountInv ==
  /\ nextid \in Nat \ {0}
  /\ DOMAIN inputs = 1 .. (nextid - 1)
  /\ paths \in Seq(Nat) /\ ToSet(paths) = 1 .. (nextid - 1)

RecordsInv ==
  /\ DOMAIN contents = {"files", "copy", "dirs", "links", "systemd", "rpms", "containers"}
  /\ DOMAIN defines = Part

Later == {"network", "auth", "kernel", "image", "experimental", "include", "done"}

PhaseInv ==
  /\ part \in Part /\ (part = "qm" => manifest.qm # None)
  /\ pc \in {"validate", "content", "sysboot", "qm"} => part = "root"
  /\ pc = "qm" => manifest.qm # None
  /\ pc \in Later /\ manifest.qm # None => part = "qm"
  /\ pc = "sysboot" => /\ contents.files = manifest.root.files /\ contents.copy = <<>>
                       /\ contents.systemd = manifest.root.systemd

\* Copies of inputs there are.
Copies(copy) ==
  /\ copy \in Seq(ToSet(copy))
  /\ \A i \in DOMAIN copy : copy[i].id \in 1 .. (nextid - 1)

CopyPairs(copy) == {<<inputs[copy[i].id], copy[i].to>> : i \in DOMAIN copy}

\* The directories of a preserved tree are made.
Made(e, dirs) ==
  IsGlob(e) /\ e.preserve =>
    \A f \in Found(e.glob, File) : Dirname(Destination(f, e)) \in dirs \cup {e.path, <<>>}

Services(p, dirs, systemd) ==
  IF p = "qm" THEN systemd = manifest.qm.systemd
  ELSE /\ manifest.root.systemd \subseteq systemd
       /\ \A c \in manifest.commands :
            DropinDir(Service(c)) \in dirs /\ Service(c) \in systemd
       /\ HasChecks => "sysboot-health.target" \in systemd

\* The first n entries are copied, into directories that are there.
Handled(p, n, copy, dirs, systemd) ==
  /\ Copies(copy) /\ CopyPairs(copy) = UNION {Asked(Files(p)[i]) : i \in 1 .. n}
  /\ \A i \in 1 .. n : Made(Files(p)[i], dirs)
  /\ Services(p, dirs, systemd)

LoopInv ==
  pc = "files" =>
    \E n \in 0 .. Len(Files(part)) :
      /\ contents.files = SubSeq(Files(part), n + 1, Len(Files(part)))
      /\ Handled(part, n, contents.copy, contents.dirs, contents.systemd)

\* set_defines is through with the partition.
IsSet(p) ==
  \/ pc \in Later /\ (p = "qm" => manifest.qm # None)
  \/ p = "root" /\ (pc = "qm" \/ (pc = "files" /\ part = "qm"))

\* internal_defines has been asked.
Ended == {"include", "done"}

\* Variable k of the partition is v, unless internal_defines replaces it.
Kept(p, k, v) ==
  defines[p][k] = v \/ (pc \in Ended /\ <<p, k>> \in Replaced(manifest))

\* The variables are set to what handles all the entries.
SetAs(p) ==
  \E copy, dirs, systemd :
    /\ Handled(p, Len(Files(p)), copy, dirs, systemd)
    /\ Kept(p, "copy", copy) /\ Kept(p, "mkdir", dirs) /\ Kept(p, "systemd", systemd)

SetInv == \A p \in Part : IsSet(p) => SetAs(p)

ReplacedInv ==
  pc \in Ended => \A p \in Part, k \in Stage :
    <<p, k>> \in Replaced(manifest) => defines[p][k] = manifest.internal[<<p, k>>]

IInv ==
  ManifestInv /\ CountInv /\ RecordsInv /\ PhaseInv /\ LoopInv /\ SetInv /\ ReplacedInv

-----------------------------------------------------------------------------
(* What the invariant's parts say.                                         *)

LEMMA DropinsAre ==
  ASSUME ManifestInv
  PROVE  LET D == {Dropin(c) : c \in manifest.commands} IN
         SetToSeq(D) \in Seq(D) /\ ToSet(SetToSeq(D)) = D
<1> DEFINE D == {Dropin(c) : c \in manifest.commands}
<1>1. IsFiniteSet(manifest.commands)
  BY Zenon DEF ManifestInv
<1> DEFINE f == [c \in manifest.commands |-> Dropin(c)]
<1>2. DOMAIN f = manifest.commands
  OBVIOUS
<1>3. {f[c] : c \in manifest.commands} = D
  OBVIOUS
<1> HIDE DEF f
<1>4. IsFiniteSet({f[c] : c \in manifest.commands})
  BY <1>1, <1>2, ImageFinite, Zenon
<1>5. IsFiniteSet(D)
  BY <1>3, <1>4, Zenon
<1> HIDE DEF D
<1>6. SetToSeq(D) \in Seq(D) /\ ToSet(SetToSeq(D)) = D
  BY <1>5, SetToSeqIs
<1> QED
  BY <1>6, Zenon DEF D

\* The partition's own entries, then the drop-ins of the checks.
LEMMA FilesAre ==
  ASSUME ManifestInv, NEW p \in Part, p = "qm" => manifest.qm # None
  PROVE  /\ Given(p).files \in Seq(ToSet(Given(p).files))
         /\ \A e \in ToSet(Given(p).files) : Entry(e)
         /\ Files(p) \in Seq(ToSet(Files(p)))
         /\ Len(Files(p)) \in Nat
         /\ Len(Given(p).files) <= Len(Files(p))
         /\ \A i \in 1 .. Len(Given(p).files) : Files(p)[i] = Given(p).files[i]
         /\ p = "qm" => Files(p) = Given(p).files
         /\ p = "root" => {Files(p)[i] : i \in (Len(Given(p).files) + 1) .. Len(Files(p))}
                            = {Dropin(c) : c \in manifest.commands}
<1> DEFINE g == Given(p)
           a == g.files
           D == {Dropin(c) : c \in manifest.commands}
           b == IF p = "root" THEN SetToSeq(D) ELSE <<>>
<1>1. g \in {manifest.root, manifest.qm} \ {None}
  BY Zenon DEF Given, ManifestInv, Part
<1>2. a \in Seq(ToSet(a)) /\ \A e \in ToSet(a) : Entry(e)
  BY <1>1, Zenon DEF ManifestInv
<1>3. Files(p) = a \o b
  BY Zenon DEF Files
<1>4. SetToSeq(D) \in Seq(D) /\ ToSet(SetToSeq(D)) = D
  BY DropinsAre, Zenon
<1> HIDE DEF g
<1>5. b \in Seq(D)
  <2> HIDE DEF D
  <2>1. <<>> \in Seq(D)
    OBVIOUS
  <2> QED
    BY <1>4, <2>1, Zenon
<1>6. p = "root" => ToSet(b) = D
  BY <1>4, Zenon
<1>7. p = "qm" => b = <<>>
  BY Zenon
<1> HIDE DEF D, b
<1>8. /\ a \o b \in Seq(ToSet(a \o b))
      /\ Len(a \o b) \in Nat /\ Len(a) <= Len(a \o b)
      /\ \A i \in 1 .. Len(a) : (a \o b)[i] = a[i]
      /\ {(a \o b)[i] : i \in (Len(a) + 1) .. Len(a \o b)} = ToSet(b)
      /\ b = <<>> => a \o b = a
  <2>1. Joined(a, b)
    BY <1>2, <1>5, ConcatIs, Zenon
  <2> QED
    BY <2>1, Zenon DEF Joined
<1> HIDE DEF a
<1>9. /\ Files(p) \in Seq(ToSet(Files(p)))
      /\ Len(Files(p)) \in Nat /\ Len(a) <= Len(Files(p))
      /\ \A i \in 1 .. Len(a) : Files(p)[i] = a[i]
      /\ {Files(p)[i] : i \in (Len(a) + 1) .. Len(Files(p))} = ToSet(b)
      /\ p = "qm" => Files(p) = a
  BY <1>3, <1>7, <1>8, Zenon
<1> QED
  BY <1>2, <1>6, <1>9, Zenon DEF a, g, D

LEMMA FoundFinite ==
  ASSUME NEW g
  PROVE  Found(g, File) \subseteq File /\ IsFiniteSet(Found(g, File))
<1>1. Found(g, File) \subseteq File
  BY Zenon DEF Found
<1> QED
  BY <1>1, ManifestAssumption, FS_Subset

-----------------------------------------------------------------------------
(* The invariant holds at the start.                                       *)

LEMMA InitInv == Init => IInv
<1> SUFFICES ASSUME Init PROVE IInv
  OBVIOUS
<1>1. ManifestInv
  BY ManifestAssumption, Zenon DEF Init, ManifestInv
<1>2. CountInv
  <2>1. nextid = 1 /\ inputs = <<>> /\ paths = <<>>
    BY DEF Init
  <2>2. paths \in Seq(Nat) /\ ToSet(paths) = {}
    BY <2>1 DEF ToSet
  <2>3. nextid \in Nat \ {0} /\ 1 .. (nextid - 1) = {} /\ DOMAIN inputs = {}
    BY <2>1
  <2> QED
    BY <2>2, <2>3, Zenon DEF CountInv
<1>3. RecordsInv
  BY DEF Init, RecordsInv
<1>4. PhaseInv
  BY DEF Init, PhaseInv, Part, Later
<1>5. LoopInv
  BY DEF Init, LoopInv
<1>6. SetInv
  BY DEF Init, SetInv, IsSet, Later
<1>7. ReplacedInv
  BY DEF Init, ReplacedInv, Ended
<1> QED
  BY <1>1, <1>2, <1>3, <1>4, <1>5, <1>6, <1>7 DEF IInv

-----------------------------------------------------------------------------
(* What adding files does.                                                 *)

\* Numbers are given out without a gap, to inputs of their own; older ones stay.
Numbered(n, sources) ==
  /\ nextid' = nextid + n
  /\ \A k \in 1 .. (nextid - 1) : inputs'[k] = inputs[k]
  /\ \A i \in 1 .. n : inputs'[nextid + i - 1] = sources[i]

LEMMA AddNumbers ==
  ASSUME NEW n \in Nat, NEW sources, Len(sources) = n, NEW dests, NEW dirs,
         CountInv, Add(sources, dests, dirs)
  PROVE  CountInv' /\ Numbered(n, sources)
<1> DEFINE new == nextid .. (nextid + n - 1)
           more == [i \in 1 .. n |-> nextid + i - 1]
<1>1. /\ nextid \in Nat /\ nextid > 0 /\ DOMAIN inputs = 1 .. (nextid - 1)
      /\ paths \in Seq(Nat) /\ ToSet(paths) = 1 .. (nextid - 1)
  BY DEF CountInv
<1>2. /\ nextid' = nextid + n
      /\ inputs' = [k \in DOMAIN inputs \cup new |->
                      IF k \in new THEN sources[k - nextid + 1] ELSE inputs[k]]
      /\ paths' = paths \o more
  BY Zenon DEF Add
<1>3. DOMAIN inputs' = 1 .. (nextid' - 1)
  <2>1. (1 .. (nextid - 1)) \cup new = 1 .. (nextid' - 1)
    BY <1>1, <1>2
  <2>2. DOMAIN inputs' = DOMAIN inputs \cup new
    BY <1>2, Zenon
  <2> QED
    BY <1>1, <2>1, <2>2, Zenon
<1>4. paths' \in Seq(Nat) /\ ToSet(paths') = 1 .. (nextid' - 1)
  <2>1. more \in Seq(Nat) /\ Len(more) = n /\ DOMAIN more = 1 .. n
        /\ \A i \in 1 .. n : more[i] = nextid + i - 1
    BY <1>1
  <2> HIDE DEF more
  <2>2. paths' \in Seq(Nat) /\ Len(paths') = Len(paths) + n
    <3>1. paths \in Seq(Nat) /\ more \in Seq(Nat)
      BY <1>1, <2>1, Zenon
    <3>2. paths \o more \in Seq(Nat) /\ Len(paths \o more) = Len(paths) + Len(more)
      BY <3>1
    <3>3. Len(more) = n
      BY <2>1, Zenon
    <3> QED
      BY <1>2, <3>2, <3>3, Zenon
  <2>3. \A i \in 1 .. Len(paths') :
          paths'[i] = IF i <= Len(paths) THEN paths[i] ELSE more[i - Len(paths)]
    BY <1>1, <1>2, <2>1
  <2>4. \A i \in 1 .. Len(paths) : paths[i] \in 1 .. (nextid - 1)
    BY <1>1 DEF ToSet
  <2>5. \A i \in 1 .. Len(paths') : paths'[i] \in 1 .. (nextid' - 1)
    <3> SUFFICES ASSUME NEW i \in 1 .. Len(paths') PROVE paths'[i] \in 1 .. (nextid' - 1)
      OBVIOUS
    <3>1. CASE i <= Len(paths)
      <4>1. paths'[i] = paths[i] /\ paths[i] \in 1 .. (nextid - 1)
        BY <1>1, <2>2, <2>3, <2>4, <3>1
      <4> QED
        BY <4>1, <1>1, <1>2
    <3>2. CASE ~(i <= Len(paths))
      <4>1. i - Len(paths) \in 1 .. n
        BY <1>1, <2>2, <3>2
      <4>2. paths'[i] = more[i - Len(paths)]
        BY <2>3, <3>2
      <4> QED
        BY <4>1, <4>2, <1>1, <1>2, <2>1
    <3> QED
      BY <3>1, <3>2
  <2>6. ASSUME NEW k \in 1 .. (nextid' - 1)
        PROVE  \E i \in 1 .. Len(paths') : paths'[i] = k
    <3>1. CASE k < nextid
      <4>1. k \in ToSet(paths)
        BY <1>1, <3>1
      <4>2. PICK i \in 1 .. Len(paths) : paths[i] = k
        BY <4>1, <1>1 DEF ToSet
      <4>3. i \in 1 .. Len(paths') /\ paths'[i] = k
        BY <4>2, <1>1, <2>2, <2>3
      <4> QED
        BY <4>3
    <3>2. CASE ~(k < nextid)
      <4> DEFINE i == Len(paths) + (k - nextid + 1)
      <4>1. k - nextid + 1 \in 1 .. n /\ i \in 1 .. Len(paths') /\ ~(i <= Len(paths))
            /\ i - Len(paths) = k - nextid + 1
        BY <1>1, <1>2, <2>2, <3>2
      <4> HIDE DEF i
      <4>2. paths'[i] = more[k - nextid + 1]
        BY <2>3, <4>1
      <4>3. paths'[i] = k
        BY <4>1, <4>2, <2>1, <1>1, <1>2
      <4> QED
        BY <4>1, <4>3
    <3> QED
      BY <3>1, <3>2
  <2>7. DOMAIN paths' = 1 .. Len(paths')
    BY <2>2
  <2>8. ToSet(paths') = {paths'[i] : i \in 1 .. Len(paths')}
    BY <2>7, Zenon DEF ToSet
  <2>9. {paths'[i] : i \in 1 .. Len(paths')} \subseteq 1 .. (nextid' - 1)
    BY <2>5
  <2>10. 1 .. (nextid' - 1) \subseteq {paths'[i] : i \in 1 .. Len(paths')}
    BY <2>6
  <2> QED
    BY <2>2, <2>8, <2>9, <2>10, Zenon
<1>5. nextid' \in Nat \ {0}
  BY <1>1, <1>2
<1>6. CountInv'
  BY <1>3, <1>4, <1>5, Zenon DEF CountInv
<1>7. \A k \in 1 .. (nextid - 1) : inputs'[k] = inputs[k]
  <2> SUFFICES ASSUME NEW k \in 1 .. (nextid - 1) PROVE inputs'[k] = inputs[k]
    OBVIOUS
  <2>1. k \in DOMAIN inputs \cup new /\ k \notin new
    BY <1>1
  <2> QED
    BY <1>2, <2>1
<1>8. \A i \in 1 .. n : inputs'[nextid + i - 1] = sources[i]
  <2> SUFFICES ASSUME NEW i \in 1 .. n PROVE inputs'[nextid + i - 1] = sources[i]
    OBVIOUS
  <2> DEFINE k == nextid + i - 1
  <2>1. k \in new /\ k - nextid + 1 = i
    BY <1>1
  <2> HIDE DEF k, new
  <2>2. inputs'[k] = sources[k - nextid + 1]
    BY <1>2, <2>1
  <2> QED
    BY <2>1, <2>2, Zenon DEF k
<1> QED
  BY <1>2, <1>6, <1>7, <1>8, Zenon DEF Numbered

\* Copies of older inputs stay what they are.
LEMMA CopiesStay ==
  ASSUME NEW n \in Nat, NEW sources, CountInv, Numbered(n, sources),
         NEW copy, Copies(copy)
  PROVE  Copies(copy)' /\ CopyPairs(copy)' = CopyPairs(copy)
<1>1. nextid \in Nat /\ nextid' = nextid + n
  BY DEF CountInv, Numbered
<1>2. \A i \in DOMAIN copy : inputs'[copy[i].id] = inputs[copy[i].id]
  BY Zenon DEF Copies, Numbered
<1>3. CopyPairs(copy)' = CopyPairs(copy)
  BY <1>2 DEF CopyPairs
<1>4. \A i \in DOMAIN copy : copy[i].id \in 1 .. (nextid' - 1)
  <2>1. 1 .. (nextid - 1) \subseteq 1 .. (nextid' - 1)
    BY <1>1
  <2> QED
    BY <2>1, Zenon DEF Copies
<1>5. Copies(copy)'
  BY <1>4, Zenon DEF Copies
<1> QED
  BY <1>3, <1>5

LEMMA FilesStay ==
  ASSUME NEW p, manifest' = manifest
  PROVE  /\ Files(p)' = Files(p) /\ Given(p)' = Given(p)
         /\ \A dirs, systemd : Services(p, dirs, systemd)' <=> Services(p, dirs, systemd)
  BY Zenon DEF Files, Given, Services, HasChecks

\* The copies so far, and those of new inputs behind them.
Appended(copy, copy2, n, dests) ==
  copy2 = copy \o [i \in 1 .. n |-> [id |-> nextid + i - 1, to |-> dests[i]]]

CopiesAdded(copy, copy2, n, sources, dests) ==
  /\ Copies(copy2)'
  /\ CopyPairs(copy2)' = CopyPairs(copy) \cup {<<sources[i], dests[i]>> : i \in 1 .. n}

LEMMA CopiesMore ==
  ASSUME NEW n \in Nat, NEW sources, CountInv, Numbered(n, sources),
         NEW copy, Copies(copy), NEW dests, NEW copy2, Appended(copy, copy2, n, dests)
  PROVE  CopiesAdded(copy, copy2, n, sources, dests)
<1> DEFINE more == [i \in 1 .. n |-> [id |-> nextid + i - 1, to |-> dests[i]]]
           B == {more[i] : i \in 1 .. n}
<1>1. more \in Seq(B) /\ Len(more) = n /\ DOMAIN more = 1 .. n
      /\ \A i \in 1 .. n : more[i].id = nextid + i - 1 /\ more[i].to = dests[i]
  <2>1. more \in [1 .. n -> B] /\ \A i \in 1 .. n : more[i].id = nextid + i - 1 /\ more[i].to = dests[i]
    OBVIOUS
  <2> HIDE DEF more, B
  <2> QED
    BY <2>1
<1>2. copy2 = copy \o more
  BY Zenon DEF Appended
<1> HIDE DEF more, B
<1>3. /\ nextid \in Nat /\ nextid > 0 /\ nextid' = nextid + n
      /\ \A k \in 1 .. (nextid - 1) : inputs'[k] = inputs[k]
      /\ \A i \in 1 .. n : inputs'[nextid + i - 1] = sources[i]
  BY DEF CountInv, Numbered
<1>4. copy \in Seq(ToSet(copy)) /\ \A i \in DOMAIN copy : copy[i].id \in 1 .. (nextid - 1)
  BY Zenon DEF Copies
<1>5. Joined(copy, more)
  BY <1>1, <1>4, ConcatIs, Zenon
<1>6. /\ copy2 \in Seq(ToSet(copy2)) /\ Len(copy2) = Len(copy) + n
      /\ Len(copy) \in Nat
      /\ \A i \in 1 .. Len(copy) : copy2[i] = copy[i]
      /\ \A i \in 1 .. n : copy2[Len(copy) + i] = more[i]
  BY <1>1, <1>2, <1>5, Zenon DEF Joined
<1>7. DOMAIN copy = 1 .. Len(copy) /\ DOMAIN copy2 = 1 .. Len(copy2)
  BY <1>4, <1>6
<1>8. ASSUME NEW i \in 1 .. Len(copy)
      PROVE  /\ copy2[i].id \in 1 .. (nextid' - 1)
             /\ <<inputs'[copy2[i].id], copy2[i].to>> = <<inputs[copy[i].id], copy[i].to>>
  <2>1. copy2[i] = copy[i] /\ copy[i].id \in 1 .. (nextid - 1)
    BY <1>4, <1>6, <1>7, Zenon
  <2> DEFINE k == copy[i].id
  <2>2. k \in 1 .. (nextid - 1)
    BY <2>1, Zenon
  <2>3. inputs'[k] = inputs[k]
    BY <1>3, <2>2, Zenon
  <2> HIDE DEF k
  <2>4. k \in 1 .. (nextid' - 1)
    BY <2>2, <1>3
  <2> QED
    BY <2>1, <2>3, <2>4, Zenon DEF k
<1>9. ASSUME NEW i \in 1 .. n
      PROVE  /\ copy2[Len(copy) + i].id \in 1 .. (nextid' - 1)
             /\ <<inputs'[copy2[Len(copy) + i].id], copy2[Len(copy) + i].to>>
                  = <<sources[i], dests[i]>>
  <2>1. /\ copy2[Len(copy) + i].id = nextid + i - 1
        /\ copy2[Len(copy) + i].to = dests[i]
    BY <1>1, <1>6, Zenon
  <2>2. nextid + i - 1 \in 1 .. (nextid' - 1)
    BY <1>3
  <2>3. inputs'[nextid + i - 1] = sources[i]
    BY <1>3, Zenon
  <2> QED
    BY <2>1, <2>2, <2>3, Zenon
<1>10. \A i \in 1 .. Len(copy2) : i \in 1 .. Len(copy) \/ \E j \in 1 .. n : i = Len(copy) + j
  <2> SUFFICES ASSUME NEW i \in 1 .. Len(copy2), i \notin 1 .. Len(copy)
               PROVE  \E j \in 1 .. n : i = Len(copy) + j
    OBVIOUS
  <2>1. i - Len(copy) \in 1 .. n /\ i = Len(copy) + (i - Len(copy))
    BY <1>6
  <2> QED
    BY <2>1
<1>11. Copies(copy2)'
  <2>1. ASSUME NEW i \in 1 .. Len(copy2)
        PROVE  copy2[i].id \in 1 .. (nextid' - 1)
    <3>1. CASE i \in 1 .. Len(copy)
      BY <1>8, <3>1, Zenon
    <3>2. CASE i \notin 1 .. Len(copy)
      <4>1. PICK j \in 1 .. n : i = Len(copy) + j
        BY <1>10, <3>2, Zenon
      <4> QED
        BY <1>9, <4>1, Zenon
    <3> QED
      BY <3>1, <3>2
  <2> QED
    BY <1>6, <1>7, <2>1, Zenon DEF Copies
<1>12. CopyPairs(copy2)' = {<<inputs'[copy2[i].id], copy2[i].to>> : i \in 1 .. Len(copy2)}
  BY <1>7, Zenon DEF CopyPairs
<1>13. CopyPairs(copy) = {<<inputs[copy[i].id], copy[i].to>> : i \in 1 .. Len(copy)}
  BY <1>7, Zenon DEF CopyPairs
<1>14. (1 .. Len(copy)) \subseteq 1 .. Len(copy2)
       /\ \A i \in 1 .. n : Len(copy) + i \in 1 .. Len(copy2)
  BY <1>6
<1>15. CopyPairs(copy2)' \subseteq CopyPairs(copy) \cup {<<sources[i], dests[i]>> : i \in 1 .. n}
  <2> SUFFICES ASSUME NEW i \in 1 .. Len(copy2)
               PROVE  <<inputs'[copy2[i].id], copy2[i].to>>
                        \in CopyPairs(copy) \cup {<<sources[j], dests[j]>> : j \in 1 .. n}
    BY <1>12, Zenon
  <2>1. CASE i \in 1 .. Len(copy)
    BY <1>8, <1>13, <2>1, Zenon
  <2>2. CASE i \notin 1 .. Len(copy)
    <3>1. PICK j \in 1 .. n : i = Len(copy) + j
      BY <1>10, <2>2, Zenon
    <3> QED
      BY <1>9, <3>1, Zenon
  <2> QED
    BY <2>1, <2>2
<1>16. CopyPairs(copy) \subseteq CopyPairs(copy2)'
  BY <1>8, <1>12, <1>13, <1>14, Zenon
<1>17. {<<sources[i], dests[i]>> : i \in 1 .. n} \subseteq CopyPairs(copy2)'
  BY <1>9, <1>12, <1>14, Zenon
<1> QED
  <2>1. CopyPairs(copy2)' = CopyPairs(copy) \cup {<<sources[i], dests[i]>> : i \in 1 .. n}
    BY <1>15, <1>16, <1>17
  <2> QED
    BY <1>11, <2>1, Zenon DEF CopiesAdded

\* One entry more is handled.
LEMMA HandledMore ==
  ASSUME NEW p, NEW n \in Nat, NEW copy, NEW dirs, NEW systemd,
         Handled(p, n, copy, dirs, systemd), manifest' = manifest,
         NEW e, e = Files(p)[n + 1], NEW copy2, NEW dirs2,
         Copies(copy2)', CopyPairs(copy2)' = CopyPairs(copy) \cup Asked(e),
         Made(e, dirs2), dirs \subseteq dirs2
  PROVE  Handled(p, n + 1, copy2, dirs2, systemd)'
<1>1. Files(p)' = Files(p)
  BY FilesStay, Zenon
<1>2. 1 .. (n + 1) = (1 .. n) \cup {n + 1}
  OBVIOUS
<1>3. CopyPairs(copy) = UNION {Asked(Files(p)[i]) : i \in 1 .. n}
  BY Zenon DEF Handled
<1>4. CopyPairs(copy2)' = UNION {Asked(Files(p)[i]) : i \in 1 .. (n + 1)}
  <2>1. UNION {Asked(Files(p)[i]) : i \in 1 .. (n + 1)}
          = (UNION {Asked(Files(p)[i]) : i \in 1 .. n}) \cup Asked(Files(p)[n + 1])
    BY <1>2
  <2> QED
    BY <1>3, <2>1, Zenon
<1>5. \A i \in 1 .. (n + 1) : Made(Files(p)[i], dirs2)
  <2>1. \A i \in 1 .. n : Made(Files(p)[i], dirs)
    BY Zenon DEF Handled
  <2>2. \A i \in 1 .. n : Made(Files(p)[i], dirs2)
    BY <2>1, Zenon DEF Made
  <2> QED
    BY <1>2, <2>2, Zenon
<1>6. Services(p, dirs2, systemd)
  <2>1. Services(p, dirs, systemd)
    BY Zenon DEF Handled
  <2> QED
    BY <2>1, Zenon DEF Services
<1>7. Services(p, dirs2, systemd)'
  BY <1>6, FilesStay, Zenon
<1> QED
  BY <1>1, <1>4, <1>5, <1>7, Zenon DEF Handled

LEMMA HandledStays ==
  ASSUME NEW p, NEW n, NEW copy, NEW dirs, NEW systemd,
         Handled(p, n, copy, dirs, systemd), manifest' = manifest,
         Copies(copy)', CopyPairs(copy)' = CopyPairs(copy)
  PROVE  Handled(p, n, copy, dirs, systemd)'
<1>1. Files(p)' = Files(p) /\ Services(p, dirs, systemd)'
  BY FilesStay, Zenon DEF Handled
<1> QED
  BY <1>1, Zenon DEF Handled

\* What was set for a partition stays so, if copies and variables stay what they are.
LEMMA SetStays ==
  ASSUME IInv, NEW p \in Part, IsSet(p), manifest' = manifest,
         \A copy : Copies(copy) => Copies(copy)' /\ CopyPairs(copy)' = CopyPairs(copy),
         \A k \in {"copy", "mkdir", "systemd"} : \A v : Kept(p, k, v) => Kept(p, k, v)'
  PROVE  SetAs(p)'
<1>1. SetAs(p)
  BY Zenon DEF IInv, SetInv
<1>2. PICK copy, dirs, systemd :
        /\ Handled(p, Len(Files(p)), copy, dirs, systemd)
        /\ Kept(p, "copy", copy) /\ Kept(p, "mkdir", dirs) /\ Kept(p, "systemd", systemd)
  BY <1>1, Zenon DEF SetAs
<1>3. PICK m : m = Len(Files(p))
  OBVIOUS
<1>4. Handled(p, m, copy, dirs, systemd) /\ Copies(copy)
  BY <1>2, <1>3, Zenon DEF Handled
<1>5. Handled(p, m, copy, dirs, systemd)'
  BY <1>4, HandledStays, Zenon
<1>6. m = Len(Files(p))'
  BY <1>3, FilesStay, Zenon
<1>7. Kept(p, "copy", copy)' /\ Kept(p, "mkdir", dirs)' /\ Kept(p, "systemd", systemd)'
  BY <1>2
<1> QED
  BY <1>5, <1>6, <1>7, Zenon DEF SetAs

\* They do when no file is added and internal_defines has its say as before.
LEMMA SetKept ==
  ASSUME IInv, NEW p \in Part, IsSet(p), UNCHANGED <<manifest, nextid, inputs>>,
         defines'[p] = defines[p], pc \in Ended => pc' \in Ended
  PROVE  SetAs(p)'
<1>1. \A copy : Copies(copy) => Copies(copy)' /\ CopyPairs(copy)' = CopyPairs(copy)
  BY Zenon DEF Copies, CopyPairs
<1>2. \A k \in {"copy", "mkdir", "systemd"} : \A v : Kept(p, k, v) => Kept(p, k, v)'
  BY Zenon DEF Kept
<1> QED
  BY <1>1, <1>2, SetStays, Zenon

-----------------------------------------------------------------------------
(* Every action keeps the invariant.                                       *)

\* One turn of the loop: the entry's files get numbers and are copied, whatever was
\* set before stays.
LEMMA AddHandles ==
  ASSUME NEW n \in Nat, NEW sources, Len(sources) = n, NEW dests, NEW dirs,
         NEW e, e = File1, MoreFiles, IInv, Add(sources, dests, dirs),
         UNCHANGED <<pc, manifest, part, defines>>,
         Asked(e) = {<<sources[i], dests[i]>> : i \in 1 .. n}, Made(e, dirs)
  PROVE  IInv'
<1>1. CountInv' /\ Numbered(n, sources)
  BY AddNumbers, Zenon DEF IInv
<1>2. ManifestInv'
  BY Zenon DEF IInv, ManifestInv
<1>3. /\ pc = "files" /\ contents.files # <<>> /\ part \in Part
      /\ (part = "qm" => manifest.qm # None)
  BY Zenon DEF MoreFiles, IInv, PhaseInv
<1>4. PhaseInv'
  BY <1>3 DEF PhaseInv, Later
<1> DEFINE more == [i \in 1 .. n |-> [id |-> nextid + i - 1, to |-> dests[i]]]
<1>5. /\ DOMAIN contents' = DOMAIN contents
      /\ contents'.files = Tail(contents.files)
      /\ contents'.dirs = contents.dirs \cup dirs
      /\ contents'.copy = contents.copy \o more
      /\ contents'.systemd = contents.systemd
  <2>1. /\ contents' = [contents EXCEPT
             !.files = Tail(@),
             !.dirs = @ \cup dirs,
             !.copy = @ \o [i \in 1 .. n |-> [id |-> nextid + i - 1, to |-> dests[i]]]]
        /\ DOMAIN contents = {"files", "copy", "dirs", "links", "systemd", "rpms", "containers"}
    BY Zenon DEF Add, IInv, RecordsInv
  <2> QED
    BY <2>1
<1>6. RecordsInv'
  BY <1>5, Zenon DEF IInv, RecordsInv
<1>7. LoopInv'
  <2>1. PICK p \in Part : p = part
    BY <1>3
  <2>2. PICK m \in 0 .. Len(Files(part)) :
          /\ contents.files = SubSeq(Files(part), m + 1, Len(Files(part)))
          /\ Handled(part, m, contents.copy, contents.dirs, contents.systemd)
    BY <1>3, Zenon DEF IInv, LoopInv
  <2>3. Files(p) \in Seq(ToSet(Files(p))) /\ Len(Files(p)) \in Nat
    BY <1>3, <2>1, FilesAre, Zenon DEF IInv
  <2>4. PICK F : F = Files(p)
    OBVIOUS
  <2>5. /\ F \in Seq(ToSet(F)) /\ Len(F) \in Nat /\ m \in 0 .. Len(F)
        /\ contents.files = SubSeq(F, m + 1, Len(F))
    BY <2>1, <2>2, <2>3, <2>4, Zenon
  <2>6. m < Len(F)
    <3>1. m = Len(F) => SubSeq(F, m + 1, Len(F)) = <<>>
      BY <2>5
    <3>2. m # Len(F)
      BY <1>3, <2>5, <3>1, Zenon
    <3>3. m \in 0 .. Len(F) /\ Len(F) \in Nat
      BY <2>5, Zenon
    <3> QED
      BY <3>2, <3>3
  <2>7. /\ Head(SubSeq(F, m + 1, Len(F))) = F[m + 1]
        /\ Tail(SubSeq(F, m + 1, Len(F))) = SubSeq(F, m + 2, Len(F))
    BY <2>5, <2>6
  <2>8. e = F[m + 1] /\ contents'.files = SubSeq(F, (m + 1) + 1, Len(F))
    <3>1. (m + 1) + 1 = m + 2
      BY <2>5
    <3> QED
      BY <1>5, <2>5, <2>7, <3>1, Zenon DEF File1
  <2>9. PICK copy, dirs1, systemd :
          copy = contents.copy /\ dirs1 = contents.dirs /\ systemd = contents.systemd
    OBVIOUS
  <2>10. Handled(p, m, copy, dirs1, systemd)
    BY <2>1, <2>2, <2>9, Zenon
  <2>11. PICK copy2, dirs2 : copy2 = copy \o more /\ dirs2 = dirs1 \cup dirs
    OBVIOUS
  <2>12. Copies(copy)
    BY <2>10, Zenon DEF Handled
  <2>13. Copies(copy2)' /\ CopyPairs(copy2)' = CopyPairs(copy) \cup Asked(e)
    <3>1. CountInv /\ Numbered(n, sources)
      BY <1>1, Zenon DEF IInv
    <3>2. Appended(copy, copy2, n, dests)
      BY <2>11, Zenon DEF Appended
    <3>3. CopiesAdded(copy, copy2, n, sources, dests)
      BY <2>12, <3>1, <3>2, CopiesMore, Zenon
    <3> QED
      BY <3>3, Zenon DEF CopiesAdded
  <2>14. Made(e, dirs2) /\ dirs1 \subseteq dirs2
    BY <2>11, Zenon DEF Made
  <2>15. m \in Nat
    BY <2>5
  <2>16. e = Files(p)[m + 1]
    BY <2>4, <2>8, Zenon
  <2>17. Handled(p, m + 1, copy2, dirs2, systemd)'
    BY <2>10, <2>13, <2>14, <2>15, <2>16, HandledMore, Zenon
  <2>18. copy2 = contents'.copy /\ dirs2 = contents'.dirs /\ systemd = contents'.systemd
         /\ p = part'
    BY <1>5, <2>1, <2>9, <2>11, Zenon
  <2>19. Files(p)' = F
    BY <2>4, FilesStay, Zenon
  <2>20. m + 1 \in 0 .. Len(F)
    BY <2>5, <2>6
  <2>21. \E k \in 0 .. Len(F) :
           /\ contents'.files = SubSeq(F, k + 1, Len(F))
           /\ Handled(p, k, copy2, dirs2, systemd)'
    BY <2>8, <2>17, <2>20, Zenon
  <2> QED
    BY <2>18, <2>19, <2>21, Zenon DEF LoopInv
<1>8. SetInv'
  <2> SUFFICES ASSUME NEW p \in Part, IsSet(p)' PROVE SetAs(p)'
    BY Zenon DEF SetInv
  <2>1. IsSet(p)
    BY Zenon DEF IsSet
  <2>2. \A copy : Copies(copy) => Copies(copy)' /\ CopyPairs(copy)' = CopyPairs(copy)
    BY <1>1, CopiesStay, Zenon DEF IInv
  <2>3. \A k \in {"copy", "mkdir", "systemd"} : \A v : Kept(p, k, v) => Kept(p, k, v)'
    BY Zenon DEF Kept
  <2> QED
    BY <2>1, <2>2, <2>3, SetStays, Zenon
<1>9. ReplacedInv'
  BY <1>3 DEF ReplacedInv, Ended
<1> QED
  BY <1>1, <1>2, <1>4, <1>6, <1>7, <1>8, <1>9, Zenon DEF IInv

LEMMA AddSingleKeeps == IInv /\ AddSingle => IInv'
<1> SUFFICES ASSUME IInv, AddSingle PROVE IInv'
  OBVIOUS
<1>1. PICK e : e = File1
  OBVIOUS
<1>2. PICK sources, dests : sources = <<e.source>> /\ dests = <<e.path>>
  OBVIOUS
<1>3. /\ MoreFiles /\ ~IsGlob(e) /\ UNCHANGED <<pc, manifest, part, defines>>
      /\ Add(sources, dests, {})
  BY <1>1, <1>2, Zenon DEF AddSingle
<1>4. Len(sources) = 1 /\ 1 \in Nat /\ 1 .. 1 = {1} /\ sources[1] = e.source /\ dests[1] = e.path
  BY <1>2
<1>5. Asked(e) = {<<sources[i], dests[i]>> : i \in 1 .. 1}
  <2>1. Asked(e) = {<<e.source, e.path>>}
    BY <1>3, Zenon DEF Asked
  <2>2. {<<sources[i], dests[i]>> : i \in {1}} = {<<sources[1], dests[1]>>}
    BY Zenon
  <2> QED
    BY <1>4, <2>1, <2>2, Zenon
<1>6. Made(e, {})
  BY <1>3, Zenon DEF Made
<1> QED
  BY <1>1, <1>3, <1>4, <1>5, <1>6, AddHandles, Zenon

LEMMA AddGlobKeeps == IInv /\ AddGlob => IInv'
<1> SUFFICES ASSUME IInv, AddGlob PROVE IInv'
  OBVIOUS
<1>1. PICK e : e = File1
  OBVIOUS
<1>2. PICK files : files = SetToSeq(Found(e.glob, File))
  OBVIOUS
<1>3. files \in Seq(Found(e.glob, File)) /\ ToSet(files) = Found(e.glob, File)
  BY <1>2, FoundFinite, SetToSeqIs, Zenon
<1>4. PICK n, sources, dests, dirs :
        /\ n = Len(files)
        /\ sources = [i \in DOMAIN files |-> [path |-> files[i]]]
        /\ dests = [i \in DOMAIN files |-> Destination(files[i], e)]
        /\ dirs = Parents(ToSet(dests), e)
  OBVIOUS
<1>5. /\ MoreFiles /\ IsGlob(e) /\ UNCHANGED <<pc, manifest, part, defines>>
      /\ Add(sources, dests, dirs)
  BY <1>1, <1>2, <1>4, Zenon DEF AddGlob
<1>6. /\ n \in Nat /\ DOMAIN files = 1 .. n
      /\ DOMAIN sources = 1 .. n
  BY <1>3, <1>4
<1>7. Len(sources) = n
  BY <1>6
<1>8. \A i \in 1 .. n : sources[i] = [path |-> files[i]] /\ dests[i] = Destination(files[i], e)
  BY <1>4, <1>6
<1>9. Found(e.glob, File) = {files[i] : i \in 1 .. n}
  BY <1>3, <1>6, Zenon DEF ToSet
<1>10. Asked(e) = {<<sources[i], dests[i]>> : i \in 1 .. n}
  <2>1. Asked(e) = {<<[path |-> f], Destination(f, e)>> : f \in Found(e.glob, File)}
    BY <1>5, Zenon DEF Asked
  <2>2. Asked(e) \subseteq {<<sources[i], dests[i]>> : i \in 1 .. n}
    <3> SUFFICES ASSUME NEW f \in Found(e.glob, File)
                 PROVE  <<[path |-> f], Destination(f, e)>>
                          \in {<<sources[i], dests[i]>> : i \in 1 .. n}
      BY <2>1, Zenon
    <3>1. PICK i \in 1 .. n : f = files[i]
      BY <1>9, Zenon
    <3>2. <<[path |-> f], Destination(f, e)>> = <<sources[i], dests[i]>>
      BY <1>8, <3>1, Zenon
    <3> QED
      BY <3>2, Zenon
  <2>3. {<<sources[i], dests[i]>> : i \in 1 .. n} \subseteq Asked(e)
    BY <1>8, <1>9, <2>1, Zenon
  <2> QED
    BY <2>2, <2>3
<1>11. Made(e, dirs)
  <2> SUFFICES ASSUME e.preserve, NEW f \in Found(e.glob, File)
               PROVE  Dirname(Destination(f, e)) \in dirs \cup {e.path, <<>>}
    BY Zenon DEF Made
  <2>1. PICK i \in 1 .. n : f = files[i]
    BY <1>9, Zenon
  <2>2. DOMAIN dests = 1 .. n /\ dests[i] = Destination(f, e)
    BY <1>4, <1>6, <1>8, <2>1
  <2>3. Destination(f, e) \in ToSet(dests)
    BY <2>2, Zenon DEF ToSet
  <2>4. dirs = {Dirname(d) : d \in ToSet(dests)} \ {e.path, <<>>}
    BY <1>4, Zenon DEF Parents
  <2> QED
    BY <2>3, <2>4, Zenon
<1> QED
  BY <1>1, <1>5, <1>6, <1>7, <1>10, <1>11, AddHandles, Zenon

LEMMA AddEmptyKeeps == IInv /\ AddEmpty => IInv'
<1> SUFFICES ASSUME IInv, AddEmpty PROVE IInv'
  OBVIOUS
<1>1. PICK e : e = File1
  OBVIOUS
<1>2. PICK dirs : dirs = {e.path}
  OBVIOUS
<1>3. /\ MoreFiles /\ IsGlob(e) /\ Found(e.glob, File) = {}
      /\ UNCHANGED <<pc, manifest, part, defines>> /\ Add(<<>>, <<>>, dirs)
  BY <1>1, <1>2, Zenon DEF AddEmpty
<1>4. Len(<<>>) = 0 /\ 0 \in Nat /\ 1 .. 0 = {}
  OBVIOUS
<1>5. PICK empty : empty = <<>>
  OBVIOUS
<1>6. Asked(e) = {<<empty[i], empty[i]>> : i \in 1 .. 0}
  <2>1. Asked(e) = {}
    BY <1>3, Zenon DEF Asked
  <2>2. {<<empty[i], empty[i]>> : i \in {}} = {}
    BY Zenon
  <2> QED
    BY <1>4, <2>1, <2>2, Zenon
<1>7. Made(e, dirs)
  BY <1>3, Zenon DEF Made
<1>8. Add(empty, empty, dirs) /\ Len(empty) = 0
  BY <1>3, <1>4, <1>5, Zenon
<1> QED
  BY <1>1, <1>3, <1>4, <1>6, <1>7, <1>8, AddHandles, Zenon

\* A step that leaves files and partitions alone.
Quiet ==
  /\ UNCHANGED <<manifest, part, contents, nextid, inputs, paths, defines>>
  /\ \/ pc' = "failed" \/ pc' = pc
     \/ pc \in Later /\ pc' \in Later /\ (pc \in Ended <=> pc' \in Ended)

LEMMA QuietKeeps == IInv /\ Quiet => IInv'
<1> SUFFICES ASSUME IInv, Quiet PROVE IInv'
  OBVIOUS
<1>1. UNCHANGED <<manifest, part, contents, nextid, inputs, paths, defines>>
  BY Zenon DEF Quiet
<1>2. ManifestInv' /\ CountInv' /\ RecordsInv'
  BY <1>1, Zenon DEF IInv, ManifestInv, CountInv, RecordsInv
<1>3. \/ pc' = "failed" \/ pc' = pc
      \/ pc \in Later /\ pc' \in Later /\ (pc \in Ended <=> pc' \in Ended)
  BY Zenon DEF Quiet
<1>4. PhaseInv'
  BY <1>1, <1>3 DEF IInv, PhaseInv, Later
<1>5. pc' = "files" => pc = "files"
  BY <1>3 DEF Later
<1>6. LoopInv'
  <2> SUFFICES ASSUME pc' = "files" PROVE LoopInv'
    BY Zenon DEF LoopInv
  <2>1. Files(part)' = Files(part)
    BY <1>1, Zenon DEF Files, Given
  <2>2. PICK m \in 0 .. Len(Files(part)) :
          /\ contents.files = SubSeq(Files(part), m + 1, Len(Files(part)))
          /\ Handled(part, m, contents.copy, contents.dirs, contents.systemd)
    BY <1>5, Zenon DEF IInv, LoopInv
  <2>3. PICK p, copy, dirs, systemd :
          /\ p = part /\ copy = contents.copy /\ dirs = contents.dirs
          /\ systemd = contents.systemd
    OBVIOUS
  <2>4. Handled(p, m, copy, dirs, systemd)
    BY <2>2, <2>3, Zenon
  <2>5. Copies(copy)' /\ CopyPairs(copy)' = CopyPairs(copy)
    BY <1>1, <2>4, Zenon DEF Handled, Copies, CopyPairs
  <2>6. Handled(p, m, copy, dirs, systemd)'
    BY <1>1, <2>4, <2>5, HandledStays, Zenon
  <2>7. p = part' /\ copy = contents'.copy /\ dirs = contents'.dirs
        /\ systemd = contents'.systemd
    BY <1>1, <2>3, Zenon
  <2> QED
    BY <1>1, <2>1, <2>2, <2>6, <2>7, Zenon DEF LoopInv
<1>7. SetInv'
  <2> SUFFICES ASSUME NEW p \in Part, IsSet(p)' PROVE SetAs(p)'
    BY Zenon DEF SetInv
  <2>1. pc' # "failed"
    BY DEF IsSet, Later
  <2>2. IsSet(p) /\ (pc \in Ended => pc' \in Ended)
    BY <1>1, <1>3, <2>1, Zenon DEF IsSet
  <2> QED
    BY <1>1, <2>2, SetKept, Zenon
<1>8. ReplacedInv'
  <2> SUFFICES ASSUME pc' \in Ended PROVE ReplacedInv'
    BY Zenon DEF ReplacedInv
  <2>1. pc' # "failed"
    BY DEF Ended
  <2>2. pc \in Ended
    BY <1>3, <2>1, Zenon
  <2> QED
    BY <1>1, <2>2, Zenon DEF IInv, ReplacedInv
<1> QED
  BY <1>2, <1>4, <1>6, <1>7, <1>8, Zenon DEF IInv

LEMMA ValidateKeeps == IInv /\ Validate => IInv'
<1> SUFFICES ASSUME IInv, Validate PROVE IInv'
  OBVIOUS
<1>1. /\ UNCHANGED <<part, contents, nextid, inputs, paths, defines>>
      /\ pc = "validate" /\ pc' \in {"content", "failed"}
      /\ manifest' = [manifest EXCEPT !.var = WithDefault(@), !.var_qm = WithDefault(@)]
  BY DEF Validate, Fail
<1>2. ManifestInv'
  <2>1. /\ DOMAIN manifest' = DOMAIN manifest
        /\ manifest'.root = manifest.root /\ manifest'.qm = manifest.qm
        /\ manifest'.commands = manifest.commands
    <3>1. {"root", "qm", "commands", "var", "var_qm", "internal"} \subseteq DOMAIN manifest
      BY Zenon DEF IInv, ManifestInv
    <3> QED
      BY <1>1, <3>1
  <2> QED
    BY <2>1, Zenon DEF IInv, ManifestInv
<1>3. CountInv' /\ RecordsInv'
  BY <1>1, Zenon DEF IInv, CountInv, RecordsInv
<1>4. part = "root"
  BY <1>1 DEF IInv, PhaseInv
<1>5. PhaseInv' /\ LoopInv'
  BY <1>1, <1>4 DEF PhaseInv, Part, Later, LoopInv
<1>6. SetInv' /\ ReplacedInv'
  BY <1>1 DEF SetInv, IsSet, Later, ReplacedInv, Ended
<1> QED
  BY <1>2, <1>3, <1>5, <1>6, Zenon DEF IInv

LEMMA LoadContentKeeps == IInv /\ LoadContent => IInv'
<1> SUFFICES ASSUME IInv, LoadContent PROVE IInv'
  OBVIOUS
<1>1. /\ UNCHANGED <<manifest, part, nextid, inputs, paths, defines>>
      /\ pc = "content" /\ pc' \in {"sysboot", "failed"}
      /\ contents' = Contents(manifest.root)
  BY DEF LoadContent, Fail
<1>2. ManifestInv' /\ CountInv'
  BY <1>1, Zenon DEF IInv, ManifestInv, CountInv
<1>3. /\ DOMAIN contents' = {"files", "copy", "dirs", "links", "systemd", "rpms", "containers"}
      /\ contents'.files = manifest'.root.files /\ contents'.copy = <<>>
      /\ contents'.systemd = manifest'.root.systemd
  BY <1>1 DEF Contents
<1>4. RecordsInv'
  BY <1>1, <1>3, Zenon DEF IInv, RecordsInv
<1>5. part = "root"
  BY <1>1 DEF IInv, PhaseInv
<1>6. PhaseInv'
  BY <1>1, <1>3, <1>5 DEF PhaseInv, Part, Later
<1>7. LoopInv' /\ SetInv' /\ ReplacedInv'
  BY <1>1 DEF LoopInv, SetInv, IsSet, Later, ReplacedInv, Ended
<1> QED
  BY <1>2, <1>4, <1>6, <1>7, Zenon DEF IInv

\* Before the first entry: no copies, nothing to be made.
LEMMA HandledNone ==
  ASSUME NEW p, NEW dirs, NEW systemd, Services(p, dirs, systemd)'
  PROVE  Handled(p, 0, <<>>, dirs, systemd)'
<1>1. PICK none : none = <<>>
  OBVIOUS
<1>2. none \in Seq(ToSet(none)) /\ DOMAIN none = {} /\ 1 .. 0 = {}
  BY <1>1 DEF ToSet
<1>3. Copies(none)'
  BY <1>2, Zenon DEF Copies
<1>4. CopyPairs(none)' = {}
  BY <1>2, Zenon DEF CopyPairs
<1>5. (UNION {Asked(Files(p)[i]) : i \in 1 .. 0})' = {}
  BY <1>2
<1>6. (\A i \in 1 .. 0 : Made(Files(p)[i], dirs))'
  BY <1>2
<1> QED
  BY <1>1, <1>3, <1>4, <1>5, <1>6, Zenon DEF Handled

\* The loop begins with all the partition's entries.
LEMMA LoopBegins ==
  ASSUME ManifestInv, manifest' = manifest, NEW p \in Part, part' = p,
         p = "qm" => manifest.qm # None, contents'.files = Files(p), contents'.copy = <<>>,
         Services(p, contents.dirs, contents.systemd)'
  PROVE  LoopInv'
<1>1. PICK dirs, systemd : dirs = contents'.dirs /\ systemd = contents'.systemd
  OBVIOUS
<1>2. Services(p, dirs, systemd)'
  BY <1>1, Zenon
<1>3. Handled(p, 0, <<>>, dirs, systemd)'
  BY <1>2, HandledNone, Zenon
<1>4. PICK F : F = Files(p)
  OBVIOUS
<1>5. Files(p) \in Seq(ToSet(Files(p))) /\ Len(Files(p)) \in Nat /\ F = Files(p)'
  BY <1>4, FilesAre, FilesStay, Zenon
<1>6. F \in Seq(ToSet(F)) /\ Len(F) \in Nat
  BY <1>4, <1>5, Zenon
<1>7. SubSeq(F, 0 + 1, Len(F)) = F /\ 0 \in 0 .. Len(F)
  BY <1>6
<1>8. \E n \in 0 .. Len(F) : /\ contents'.files = SubSeq(F, n + 1, Len(F))
                             /\ Handled(p, n, <<>>, dirs, systemd)'
  BY <1>3, <1>4, <1>7, Zenon
<1> QED
  BY <1>1, <1>5, <1>8, Zenon DEF LoopInv

LEMMA HandleSysbootChecksKeeps == IInv /\ HandleSysbootChecks => IInv'
<1> SUFFICES ASSUME IInv, HandleSysbootChecks PROVE IInv'
  OBVIOUS
<1> DEFINE names == {Service(c) : c \in manifest.commands} \cup {"sysboot-health.target"}
           drops == SetToSeq({Dropin(c) : c \in manifest.commands})
           made == contents.dirs \cup {DropinDir(Service(c)) : c \in manifest.commands}
                     \cup {DropinDir(u) : u \in manifest.units}
           more == {Append(DropinDir(u), "sysboot.conf") : u \in manifest.units}
           enabled == IF HasChecks THEN Enabled(names) ELSE contents.systemd
<1>1. /\ UNCHANGED <<manifest, part, nextid, inputs, paths, defines>>
      /\ pc = "sysboot" /\ pc' = "files"
      /\ contents' = [contents EXCEPT !.dirs = made, !.files = @ \o drops,
                                      !.links = @ \cup more, !.systemd = enabled]
  BY Zenon DEF HandleSysbootChecks
<1>2. ManifestInv' /\ CountInv'
  BY <1>1, Zenon DEF IInv, ManifestInv, CountInv
<1>3. part = "root" /\ contents.files = manifest.root.files /\ contents.copy = <<>>
      /\ contents.systemd = manifest.root.systemd
  BY <1>1, Zenon DEF IInv, PhaseInv
<1>4. DOMAIN contents = {"files", "copy", "dirs", "links", "systemd", "rpms", "containers"}
  BY Zenon DEF IInv, RecordsInv
<1> HIDE DEF made, more, enabled, drops, names
<1>5. /\ DOMAIN contents' = DOMAIN contents
      /\ contents'.files = contents.files \o drops /\ contents'.copy = contents.copy
      /\ contents'.systemd = enabled /\ contents'.dirs = made
  BY <1>1, <1>4
<1>6. RecordsInv'
  BY <1>1, <1>5, Zenon DEF IInv, RecordsInv
<1>7. PhaseInv'
  BY <1>1, <1>3 DEF PhaseInv, Part, Later
<1>8. SetInv' /\ ReplacedInv'
  BY <1>1, <1>3 DEF SetInv, IsSet, Later, ReplacedInv, Ended
<1>9. PICK p : p = "root"
  OBVIOUS
<1>10. p \in Part /\ part' = p /\ p # "qm"
  BY <1>1, <1>3, <1>9 DEF Part
<1>11. contents'.files = Files(p)
  BY <1>3, <1>5, <1>9, Zenon DEF Files, Given, drops
<1>12. Services(p, made, enabled)
  <2>1. manifest.root.systemd \subseteq enabled
    BY <1>3, Zenon DEF enabled, Enabled
  <2>2. HasChecks => "sysboot-health.target" \in enabled
    BY Zenon DEF enabled, Enabled, names
  <2>3. \A c \in manifest.commands : DropinDir(Service(c)) \in made /\ Service(c) \in enabled
    BY Zenon DEF made, enabled, Enabled, names, HasChecks
  <2> QED
    BY <1>10, <2>1, <2>2, <2>3, Zenon DEF Services
<1>13. Services(p, contents.dirs, contents.systemd)'
  <2>1. PICK dirs, systemd : dirs = made /\ systemd = enabled
    OBVIOUS
  <2>2. Services(p, dirs, systemd)
    BY <1>12, <2>1, Zenon
  <2>3. Services(p, dirs, systemd)'
    BY <1>1, <2>2, FilesStay, Zenon
  <2> QED
    BY <1>5, <2>1, <2>3, Zenon
<1>14. LoopInv'
  BY <1>1, <1>3, <1>5, <1>10, <1>11, <1>13, LoopBegins, Zenon DEF IInv
<1> QED
  BY <1>2, <1>6, <1>7, <1>8, <1>14, Zenon DEF IInv

LEMMA HandleQmKeeps == IInv /\ HandleQm => IInv'
<1> SUFFICES ASSUME IInv, HandleQm PROVE IInv'
  OBVIOUS
<1>1. /\ UNCHANGED <<manifest, nextid, inputs, paths, defines>>
      /\ pc = "qm" /\ pc' \in {"files", "failed"} /\ part' = "qm"
      /\ contents' = Contents(manifest.qm)
  BY DEF HandleQm, Fail
<1>2. ManifestInv' /\ CountInv'
  BY <1>1, Zenon DEF IInv, ManifestInv, CountInv
<1>3. manifest.qm # None
  BY <1>1, Zenon DEF IInv, PhaseInv
<1>4. /\ DOMAIN contents' = {"files", "copy", "dirs", "links", "systemd", "rpms", "containers"}
      /\ contents'.files = manifest.qm.files /\ contents'.copy = <<>>
      /\ contents'.systemd = manifest.qm.systemd
  BY <1>1 DEF Contents
<1>5. RecordsInv'
  BY <1>1, <1>4, Zenon DEF IInv, RecordsInv
<1>6. PhaseInv'
  BY <1>1, <1>3 DEF PhaseInv, Part, Later
<1>7. PICK p : p = "qm"
  OBVIOUS
<1>8. p \in Part /\ part' = p /\ p # "root"
  BY <1>1, <1>7 DEF Part
<1>9. contents'.files = Files(p)
  <2>1. Files(p) = manifest.qm.files
    <3>1. Files(p) = Given(p).files
      BY <1>3, <1>7, <1>8, FilesAre, Zenon DEF IInv
    <3> QED
      BY <1>7, <1>8, <3>1, Zenon DEF Given
  <2> QED
    BY <1>4, <2>1, Zenon
<1>10. Services(p, contents.dirs, contents.systemd)'
  BY <1>1, <1>4, <1>7, Zenon DEF Services
<1>11. LoopInv'
  BY <1>1, <1>3, <1>4, <1>8, <1>9, <1>10, LoopBegins, Zenon DEF IInv
<1>12. SetInv'
  <2> SUFFICES ASSUME NEW q \in Part, IsSet(q)' PROVE SetAs(q)'
    BY Zenon DEF SetInv
  <2>1. q = "root" /\ pc \notin Ended
    BY <1>1 DEF IsSet, Later, Ended
  <2>2. IsSet(q)
    BY <1>1, <2>1, Zenon DEF IsSet
  <2> QED
    BY <1>1, <2>1, <2>2, SetKept, Zenon
<1>13. ReplacedInv'
  BY <1>1 DEF ReplacedInv, Ended
<1> QED
  BY <1>2, <1>5, <1>6, <1>11, <1>12, <1>13, Zenon DEF IInv

LEMMA SetDefinesKeeps == IInv /\ SetDefines => IInv'
<1> SUFFICES ASSUME IInv, SetDefines PROVE IInv'
  OBVIOUS
<1>1. PICK rpms :
        /\ UNCHANGED <<manifest, part, contents, nextid, inputs, paths>>
        /\ pc = "files" /\ contents.files = <<>>
        /\ pc' = IF part = "root" /\ manifest.qm # None THEN "qm" ELSE "network"
        /\ defines' = [defines EXCEPT ![part] =
             [copy |-> contents.copy, mkdir |-> contents.dirs,
              symlinks |-> contents.links, systemd |-> contents.systemd, rpms |-> rpms]]
  BY Zenon DEF SetDefines
<1>2. ManifestInv' /\ CountInv'
  BY <1>1, Zenon DEF IInv, ManifestInv, CountInv
<1>3. part \in Part /\ (part = "qm" => manifest.qm # None) /\ DOMAIN defines = Part
      /\ DOMAIN contents = {"files", "copy", "dirs", "links", "systemd", "rpms", "containers"}
  BY Zenon DEF IInv, PhaseInv, RecordsInv
<1>4. PICK p \in Part : p = part
  BY <1>3
<1>5. /\ DOMAIN defines' = Part
      /\ defines'[p].copy = contents.copy /\ defines'[p].mkdir = contents.dirs
      /\ defines'[p].systemd = contents.systemd
      /\ \A q \in Part : q # p => defines'[q] = defines[q]
  BY <1>1, <1>3, <1>4
<1>6. RecordsInv'
  BY <1>1, <1>3, <1>5, Zenon DEF RecordsInv
<1>7. pc' \in {"qm", "network"} /\ (pc' = "qm" <=> part = "root" /\ manifest.qm # None)
  BY <1>1
<1>8. PhaseInv'
  BY <1>1, <1>3, <1>7 DEF PhaseInv, Part, Later
<1>9. LoopInv'
  BY <1>7 DEF LoopInv
<1>10. SetAs(p)'
  <2>1. PICK F : F = Files(p)
    OBVIOUS
  <2>2. F \in Seq(ToSet(F)) /\ Len(F) \in Nat
    BY <1>3, <1>4, <2>1, FilesAre, Zenon DEF IInv
  <2>3. PICK m \in 0 .. Len(F) :
          /\ contents.files = SubSeq(F, m + 1, Len(F))
          /\ Handled(p, m, contents.copy, contents.dirs, contents.systemd)
    BY <1>1, <1>4, <2>1, Zenon DEF IInv, LoopInv
  <2>4. m = Len(F)
    <3>1. Len(SubSeq(F, m + 1, Len(F))) = Len(F) - m
      BY <2>2
    <3>2. Len(SubSeq(F, m + 1, Len(F))) = 0
      BY <1>1, <2>3
    <3>3. m \in 0 .. Len(F) /\ Len(F) \in Nat
      BY <2>2, Zenon
    <3> QED
      BY <3>1, <3>2, <3>3
  <2>5. PICK copy, dirs, systemd :
          copy = contents.copy /\ dirs = contents.dirs /\ systemd = contents.systemd
    OBVIOUS
  <2>6. Handled(p, m, copy, dirs, systemd)
    BY <2>3, <2>5, Zenon
  <2>7. Copies(copy)' /\ CopyPairs(copy)' = CopyPairs(copy)
    BY <1>1, <2>6, Zenon DEF Handled, Copies, CopyPairs
  <2>8. Handled(p, m, copy, dirs, systemd)'
    BY <1>1, <2>6, <2>7, HandledStays, Zenon
  <2>9. m = Len(Files(p))' /\ copy = defines'[p].copy /\ dirs = defines'[p].mkdir
        /\ systemd = defines'[p].systemd
    BY <1>1, <1>5, <2>1, <2>4, <2>5, FilesStay, Zenon
  <2>10. Kept(p, "copy", copy)' /\ Kept(p, "mkdir", dirs)' /\ Kept(p, "systemd", systemd)'
    BY <2>9 DEF Kept
  <2> QED
    BY <2>8, <2>9, <2>10, Zenon DEF SetAs
<1>11. SetInv'
  <2> SUFFICES ASSUME NEW q \in Part, IsSet(q)', q # p PROVE SetAs(q)'
    BY <1>10, Zenon DEF SetInv
  <2>1. q = "root" /\ part = "qm" /\ pc \notin Ended
    BY <1>1, <1>3, <1>4, <1>7 DEF IsSet, Later, Part, Ended
  <2>2. IsSet(q)
    BY <1>1, <2>1, Zenon DEF IsSet
  <2> QED
    BY <1>1, <1>5, <2>1, <2>2, SetKept, Zenon
<1>12. ReplacedInv'
  BY <1>7 DEF ReplacedInv, Ended
<1> QED
  BY <1>2, <1>6, <1>8, <1>9, <1>11, <1>12, Zenon DEF IInv

\* What internal_defines gives replaces what was set, the rest stays.
LEMMA HandleExperimentalKeeps == IInv /\ HandleExperimental => IInv'
<1> SUFFICES ASSUME IInv, HandleExperimental PROVE IInv'
  OBVIOUS
<1>1. /\ UNCHANGED <<manifest, part, contents, nextid, inputs, paths>>
      /\ pc = "experimental" /\ pc' = "include"
  BY Zenon DEF HandleExperimental
<1>2. defines' = [p \in Part |-> [k \in Stage |->
                    IF <<p, k>> \in Replaced(manifest) THEN manifest.internal[<<p, k>>]
                                                      ELSE defines[p][k]]]
  BY Zenon DEF HandleExperimental
<1>3. \A p \in Part, k \in Stage :
        defines'[p][k] = IF <<p, k>> \in Replaced(manifest) THEN manifest.internal[<<p, k>>]
                                                           ELSE defines[p][k]
  BY <1>2, Zenon
<1>4. ManifestInv' /\ CountInv'
  BY <1>1, Zenon DEF IInv, ManifestInv, CountInv
<1>5. RecordsInv'
  <2>1. DOMAIN defines' = Part
    BY <1>2, Zenon
  <2> QED
    BY <1>1, <2>1, Zenon DEF IInv, RecordsInv
<1>6. PhaseInv'
  BY <1>1 DEF IInv, PhaseInv, Later
<1>7. LoopInv'
  BY <1>1 DEF LoopInv
<1>8. SetInv'
  <2> SUFFICES ASSUME NEW p \in Part, IsSet(p)' PROVE SetAs(p)'
    BY Zenon DEF SetInv
  <2>1. IsSet(p)
    BY <1>1 DEF IsSet, Later
  <2>2. \A copy : Copies(copy) => Copies(copy)' /\ CopyPairs(copy)' = CopyPairs(copy)
    BY <1>1, Zenon DEF Copies, CopyPairs
  <2>3. pc \notin Ended /\ pc' \in Ended
    BY <1>1 DEF Ended
  <2>4. ASSUME NEW k \in {"copy", "mkdir", "systemd"}, NEW v, Kept(p, k, v)
        PROVE  Kept(p, k, v)'
    <3>1. defines[p][k] = v
      BY <2>3, <2>4, Zenon DEF Kept
    <3>2. k \in Stage
      BY DEF Stage
    <3>3. CASE <<p, k>> \in Replaced(manifest)
      BY <1>1, <2>3, <3>3, Zenon DEF Kept
    <3>4. CASE <<p, k>> \notin Replaced(manifest)
      <4>1. defines'[p][k] = v
        BY <1>3, <3>1, <3>2, <3>4, Zenon
      <4> QED
        BY <4>1, Zenon DEF Kept
    <3> QED
      BY <3>3, <3>4, Zenon
  <2>5. \A k \in {"copy", "mkdir", "systemd"} : \A v : Kept(p, k, v) => Kept(p, k, v)'
    BY <2>4, Zenon
  <2> QED
    BY <1>1, <2>1, <2>2, <2>5, SetStays, Zenon
<1>9. ReplacedInv'
  BY <1>1, <1>3, Zenon DEF ReplacedInv
<1> QED
  BY <1>4, <1>5, <1>6, <1>7, <1>8, <1>9, Zenon DEF IInv

\* The handlers behind, and every failure, leave files and partitions alone.
LEMMA OthersAreQuiet ==
  ASSUME \/ GlobFails \/ HandleNetwork \/ HandleAuth \/ HandleKernel \/ HandleImage
         \/ WriteInclude \/ UNCHANGED vars
  PROVE  Quiet
<1>1. CASE GlobFails
  BY <1>1, Zenon DEF GlobFails, Fail, Quiet
<1>2. CASE HandleNetwork
  BY <1>2 DEF HandleNetwork, PassOn, Quiet, Later, Ended
<1>3. CASE HandleAuth
  BY <1>3 DEF HandleAuth, PassOn, Quiet, Later, Ended
<1>4. CASE HandleKernel
  BY <1>4 DEF HandleKernel, PassOn, Quiet, Later, Ended
<1>5. CASE HandleImage
  <2>1. /\ UNCHANGED <<manifest, part, contents, nextid, inputs, paths, defines>>
        /\ pc = "image" /\ pc' \in {"failed", "experimental"}
    BY <1>5, Zenon DEF HandleImage, Fail
  <2> QED
    BY <2>1 DEF Quiet, Later, Ended
<1>6. CASE WriteInclude
  BY <1>6 DEF WriteInclude, Quiet, Later, Ended
<1>7. CASE UNCHANGED vars
  BY <1>7, Zenon DEF vars, Quiet
<1> QED
  BY <1>1, <1>2, <1>3, <1>4, <1>5, <1>6, <1>7

LEMMA StepInv == IInv /\ [Next]_vars => IInv'
<1> SUFFICES ASSUME IInv, [Next]_vars PROVE IInv'
  OBVIOUS
<1>1. CASE Validate
  BY <1>1, ValidateKeeps
<1>2. CASE LoadContent
  BY <1>2, LoadContentKeeps
<1>3. CASE HandleSysbootChecks
  BY <1>3, HandleSysbootChecksKeeps
<1>4. CASE AddSingle
  BY <1>4, AddSingleKeeps
<1>5. CASE AddGlob
  BY <1>5, AddGlobKeeps
<1>6. CASE AddEmpty
  BY <1>6, AddEmptyKeeps
<1>7. CASE SetDefines
  BY <1>7, SetDefinesKeeps
<1>8. CASE HandleQm
  BY <1>8, HandleQmKeeps
<1>9. CASE HandleExperimental
  BY <1>9, HandleExperimentalKeeps
<1>10. CASE \/ GlobFails \/ HandleNetwork \/ HandleAuth \/ HandleKernel \/ HandleImage
            \/ WriteInclude \/ UNCHANGED vars
  BY <1>10, OthersAreQuiet, QuietKeeps
<1> QED
  BY <1>1, <1>2, <1>3, <1>4, <1>5, <1>6, <1>7, <1>8, <1>9, <1>10, Zenon DEF Next

LEMMA Invariance == Spec => []IInv
<1> QED
  BY InitInv, StepInv, PTL DEF Spec

-----------------------------------------------------------------------------
(* What the invariant comes to.                                            *)

\* What handles the entries of a partition is what it is given, except for what
\* internal_defines replaces; its copies are of inputs the include file copies in.
Delivered(p, copy, dirs, systemd) ==
  /\ Handled(p, Len(Files(p)), copy, dirs, systemd)
  /\ <<p, "copy">> \notin Replaced(manifest) => Copied(p) = CopyPairs(copy)
  /\ <<p, "mkdir">> \notin Replaced(manifest) => defines[p].mkdir = dirs
  /\ <<p, "systemd">> \notin Replaced(manifest) => defines[p].systemd = systemd

LEMMA CopiedIs ==
  ASSUME IInv, NEW p \in Part, Loaded(p)
  PROVE  /\ \E copy, dirs, systemd : Delivered(p, copy, dirs, systemd)
         /\ p = "qm" => manifest.qm # None
<1>1. pc = "done" /\ (p = "qm" => manifest.qm # None)
  BY Zenon DEF Loaded
<1>2. IsSet(p)
  BY <1>1 DEF IsSet, Later
<1>3. SetAs(p)
  BY <1>2, Zenon DEF IInv, SetInv
<1>4. PICK copy, dirs, systemd :
        /\ Handled(p, Len(Files(p)), copy, dirs, systemd)
        /\ Kept(p, "copy", copy) /\ Kept(p, "mkdir", dirs) /\ Kept(p, "systemd", systemd)
  BY <1>3, Zenon DEF SetAs
<1>5. \A i \in DOMAIN copy : copy[i].id \in ToSet(paths)
  BY <1>4, Zenon DEF Handled, Copies, IInv, CountInv
<1>6. {i \in DOMAIN copy : copy[i].id \in ToSet(paths)} = DOMAIN copy
  BY <1>5, Zenon
<1>7. <<p, "copy">> \notin Replaced(manifest) => Copied(p) = CopyPairs(copy)
  <2> SUFFICES ASSUME <<p, "copy">> \notin Replaced(manifest)
               PROVE  Copied(p) = CopyPairs(copy)
    OBVIOUS
  <2>1. defines[p].copy = copy
    BY <1>4 DEF Kept
  <2> QED
    BY <1>6, <2>1, Zenon DEF Copied, CopyPairs
<1>8. <<p, "mkdir">> \notin Replaced(manifest) => defines[p].mkdir = dirs
  BY <1>4 DEF Kept
<1>9. <<p, "systemd">> \notin Replaced(manifest) => defines[p].systemd = systemd
  BY <1>4 DEF Kept
<1> QED
  BY <1>1, <1>4, <1>7, <1>8, <1>9, Zenon DEF Delivered

\* A drop-in is a text at a place.
LEMMA DropinIs ==
  ASSUME NEW c
  PROVE  /\ Asked(Dropin(c)) = {<<Dropin(c).source, Dropin(c).path>>}
         /\ Dropin(c).source = [text |-> c]
         /\ Dropin(c).path = Append(DropinDir(Service(c)), c \o ".conf")
<1> DEFINE d == Append(DropinDir(Service(c)), c \o ".conf")
<1> HIDE DEF d
<1>1. Dropin(c) = [path |-> d, source |-> [text |-> c]]
  BY Zenon DEF Dropin, d
<1>2. ~IsGlob(Dropin(c)) /\ Dropin(c).path = d /\ Dropin(c).source = [text |-> c]
  BY <1>1 DEF IsGlob
<1> QED
  BY <1>2, Zenon DEF Asked, d

\* Every partition that is loaded, and whose copies internal_defines does not replace,
\* gets the content of its own add_files at the places they ask for, and the root file
\* system the drop-ins of its checks, and nothing else: the one ExtraInclude both partitions share (handle_qm, set_defines) never
\* gives one partition's number to the other's file.
THEOREM FilesCopied == Spec => []FilesAreCopied
<1>1. IInv => FilesAreCopied
  <2> SUFFICES ASSUME IInv, NEW p \in Part, Loaded(p),
                      <<p, "copy">> \notin Replaced(manifest)
               PROVE  Copied(p) =
                        (UNION {Asked(Given(p).files[i]) : i \in DOMAIN Given(p).files})
                        \cup IF p = "root"
                               THEN {<<Dropin(c).source, Dropin(c).path>> :
                                       c \in manifest.commands}
                               ELSE {}
    BY Zenon DEF FilesAreCopied
  <2> DEFINE F == Files(p)
             a == Given(p).files
             own == UNION {Asked(a[i]) : i \in DOMAIN a}
             rest == UNION {Asked(F[i]) : i \in (Len(a) + 1) .. Len(F)}
  <2>1. /\ a \in Seq(ToSet(a)) /\ Len(F) \in Nat /\ Len(a) <= Len(F)
        /\ \A i \in 1 .. Len(a) : F[i] = a[i]
        /\ p = "qm" => F = a
        /\ p = "root" => {F[i] : i \in (Len(a) + 1) .. Len(F)}
                           = {Dropin(c) : c \in manifest.commands}
    BY CopiedIs, FilesAre, Zenon DEF IInv
  <2>2. Copied(p) = UNION {Asked(F[i]) : i \in 1 .. Len(F)}
    BY CopiedIs, Zenon DEF Delivered, Handled
  <2> HIDE DEF F, a
  <2>3. Len(a) \in Nat /\ DOMAIN a = 1 .. Len(a)
    BY <2>1
  <2>4. 1 .. Len(F) = (1 .. Len(a)) \cup ((Len(a) + 1) .. Len(F))
    BY <2>1, <2>3
  <2>5. UNION {Asked(F[i]) : i \in 1 .. Len(F)} = own \cup rest
    <3>1. own = UNION {Asked(F[i]) : i \in 1 .. Len(a)}
      BY <2>1, <2>3
    <3>2. UNION {Asked(F[i]) : i \in (1 .. Len(a)) \cup ((Len(a) + 1) .. Len(F))}
            = (UNION {Asked(F[i]) : i \in 1 .. Len(a)}) \cup rest
      OBVIOUS
    <3> QED
      BY <2>4, <3>1, <3>2, Zenon
  <2>6. CASE p = "root"
    <3> DEFINE drops == {<<Dropin(c).source, Dropin(c).path>> : c \in manifest.commands}
    <3>1. {F[i] : i \in (Len(a) + 1) .. Len(F)} = {Dropin(c) : c \in manifest.commands}
      BY <2>1, <2>6, Zenon
    <3>2. ASSUME NEW x \in rest PROVE x \in drops
      <4>1. PICK i \in (Len(a) + 1) .. Len(F) : x \in Asked(F[i])
        BY <3>2, Zenon
      <4>2. PICK c \in manifest.commands : F[i] = Dropin(c)
        BY <3>1, Zenon
      <4>3. x \in Asked(Dropin(c))
        BY <4>1, <4>2, Zenon
      <4>4. Asked(Dropin(c)) = {<<Dropin(c).source, Dropin(c).path>>}
        BY DropinIs, Zenon
      <4>5. x = <<Dropin(c).source, Dropin(c).path>>
        BY <4>3, <4>4, Zenon
      <4> QED
        BY <4>5, Zenon
    <3>3. ASSUME NEW x \in drops PROVE x \in rest
      <4>1. PICK c \in manifest.commands : x = <<Dropin(c).source, Dropin(c).path>>
        BY <3>3, Zenon
      <4>2. PICK i \in (Len(a) + 1) .. Len(F) : F[i] = Dropin(c)
        BY <3>1, Zenon
      <4>3. x \in Asked(F[i])
        BY <4>1, <4>2, DropinIs, Zenon
      <4> QED
        BY <4>3, Zenon
    <3>4. rest = drops
      <4> HIDE DEF rest, drops
      <4> QED
        BY <3>2, <3>3, Zenon
    <3> QED
      BY <2>2, <2>5, <2>6, <3>4, Zenon DEF a
  <2>7. CASE p = "qm"
    <3>1. F = a
      BY <2>1, <2>7, Zenon
    <3>2. (Len(a) + 1) .. Len(F) = {}
      BY <2>3, <3>1
    <3>3. rest = {}
      BY <3>2, Zenon
    <3>4. p # "root"
      BY <2>7
    <3> QED
      BY <2>2, <2>5, <3>3, <3>4, Zenon DEF a
  <2> QED
    BY <2>6, <2>7 DEF Part
<1> QED
  BY Invariance, <1>1, PTL

\* Every file a glob of add_files matches stays below the directory asked for
\* (_calculate_destination_path), whichever of the four ways its base is found and
\* whatever wildcards are behind it; two files of a preserved tree are never put in one
\* place, and _ensure_parent_directory has made every directory between.  Excepted are
\* globs whose base is not a directory above their files (Ambiguous), and partitions
\* whose directories internal_defines replaces.
THEOREM TreesPreserved == Spec => []TreesArePreserved
<1>1. IInv => TreesArePreserved
  <2> SUFFICES ASSUME IInv, NEW p \in Part, Loaded(p),
                      <<p, "mkdir">> \notin Replaced(manifest),
                      NEW i \in DOMAIN Given(p).files,
                      NEW e, e = Given(p).files[i], IsGlob(e), ~Ambiguous(e.glob),
                      NEW f \in Found(e.glob, File), NEW h \in Found(e.glob, File)
               PROVE  /\ IsStrictPrefix(e.path, Destination(f, e))
                      /\ Dirname(Destination(f, e)) \in {e.path} \cup defines[p].mkdir
                      /\ e.preserve /\ f # h => Destination(f, e) # Destination(h, e)
    BY Zenon DEF TreesArePreserved
  <2> DEFINE F == Files(p)
             a == Given(p).files
  <2>1. /\ a \in Seq(ToSet(a)) /\ Len(F) \in Nat /\ Len(a) <= Len(F)
        /\ \A j \in 1 .. Len(a) : F[j] = a[j]
        /\ \A x \in ToSet(a) : Entry(x)
    BY CopiedIs, FilesAre, Zenon DEF IInv
  <2>2. \A j \in 1 .. Len(F) : Made(F[j], defines[p].mkdir)
    BY CopiedIs, Zenon DEF Delivered, Handled
  <2>3. i \in DOMAIN a /\ e = a[i]
    OBVIOUS
  <2> HIDE DEF F, a
  <2>4. i \in 1 .. Len(a) /\ i \in 1 .. Len(F)
    BY <2>1, <2>3
  <2>5. Made(e, defines[p].mkdir) /\ Entry(e)
    BY <2>1, <2>2, <2>3, <2>4, Zenon DEF ToSet
  <2>6. /\ IsStrictPrefix(e.path, Destination(f, e))
        /\ e.preserve => (Dirname(Destination(f, e)) = <<>> => e.path = <<>>)
        /\ ~e.preserve => Dirname(Destination(f, e)) = e.path
        /\ e.preserve /\ f # h => Destination(f, e) # Destination(h, e)
    BY <2>5, TreeIs, Zenon
  <2>7. Dirname(Destination(f, e)) \in {e.path} \cup defines[p].mkdir
    <3>1. CASE e.preserve
      <4>1. Dirname(Destination(f, e)) \in defines[p].mkdir \cup {e.path, <<>>}
        BY <2>5, <3>1, Zenon DEF Made
      <4> QED
        BY <2>6, <3>1, <4>1, Zenon
    <3>2. CASE ~e.preserve
      BY <2>6, <3>2, Zenon
    <3> QED
      BY <3>1, <3>2, Zenon
  <2> QED
    BY <2>6, <2>7, Zenon
<1> QED
  BY Invariance, <1>1, PTL

\* handle_sysboot_checks: each check of the root file system has its drop-in, the
\* directory for it and its service enabled beside the services of the manifest, and
\* the QM partition has the services of its own content only.  This is so for each of
\* the three lists that internal_defines does not give; one it gives (handle_experimental
\* comes last) is what it gives, checks or not.
THEOREM ChecksInstalled == Spec => []ChecksAreInstalled
<1> DEFINE Own(p, k) == Loaded(p) /\ <<p, k>> \notin Replaced(manifest)
<1>1. ASSUME IInv
      PROVE  /\ Own("root", "systemd") =>
                  /\ manifest.root.systemd \subseteq defines["root"].systemd
                  /\ \A c \in manifest.commands : Service(c) \in defines["root"].systemd
                  /\ HasChecks => "sysboot-health.target" \in defines["root"].systemd
             /\ Own("root", "mkdir") =>
                  \A c \in manifest.commands : DropinDir(Service(c)) \in defines["root"].mkdir
             /\ Own("root", "copy") =>
                  \A c \in manifest.commands :
                    <<[text |-> c], Append(DropinDir(Service(c)), c \o ".conf")>>
                      \in Copied("root")
  <2> SUFFICES ASSUME Loaded("root")
               PROVE  /\ <<"root", "systemd">> \notin Replaced(manifest) =>
                           /\ manifest.root.systemd \subseteq defines["root"].systemd
                           /\ \A c \in manifest.commands :
                                Service(c) \in defines["root"].systemd
                           /\ HasChecks =>
                                "sysboot-health.target" \in defines["root"].systemd
                      /\ <<"root", "mkdir">> \notin Replaced(manifest) =>
                           \A c \in manifest.commands :
                             DropinDir(Service(c)) \in defines["root"].mkdir
                      /\ <<"root", "copy">> \notin Replaced(manifest) =>
                           \A c \in manifest.commands :
                             <<[text |-> c], Append(DropinDir(Service(c)), c \o ".conf")>>
                               \in Copied("root")
    BY Zenon
  <2>1. PICK p \in Part : p = "root"
    BY DEF Part
  <2>2. p # "qm"
    BY <2>1
  <2>3. PICK copy, dirs, systemd : Delivered(p, copy, dirs, systemd)
    BY <1>1, <2>1, CopiedIs, Zenon
  <2>4. /\ Handled(p, Len(Files(p)), copy, dirs, systemd)
        /\ <<p, "copy">> \notin Replaced(manifest) => Copied(p) = CopyPairs(copy)
        /\ <<p, "mkdir">> \notin Replaced(manifest) => defines[p].mkdir = dirs
        /\ <<p, "systemd">> \notin Replaced(manifest) => defines[p].systemd = systemd
    BY <2>3, Zenon DEF Delivered
  <2>5. /\ manifest.root.systemd \subseteq systemd
        /\ \A c \in manifest.commands :
             DropinDir(Service(c)) \in dirs /\ Service(c) \in systemd
        /\ HasChecks => "sysboot-health.target" \in systemd
    BY <2>2, <2>4, Zenon DEF Handled, Services
  <2>6. ASSUME NEW c \in manifest.commands
        PROVE  <<[text |-> c], Append(DropinDir(Service(c)), c \o ".conf")>>
                 \in CopyPairs(copy)
    <3> DEFINE F == Files(p)
               a == Given(p).files
    <3>1. /\ a \in Seq(ToSet(a)) /\ Len(F) \in Nat
          /\ {F[i] : i \in (Len(a) + 1) .. Len(F)} = {Dropin(d) : d \in manifest.commands}
      BY <1>1, <2>1, <2>2, FilesAre, Zenon DEF IInv
    <3> HIDE DEF a
    <3>2. PICK i \in (Len(a) + 1) .. Len(F) : F[i] = Dropin(c)
      BY <3>1, Zenon
    <3>3. i \in 1 .. Len(F)
      <4> HIDE DEF F
      <4>1. Len(a) \in Nat
        BY <3>1
      <4> QED
        BY <3>1, <4>1
    <3>4. <<Dropin(c).source, Dropin(c).path>> \in Asked(F[i])
      BY <3>2, DropinIs, Zenon
    <3>5. CopyPairs(copy) = UNION {Asked(F[j]) : j \in 1 .. Len(F)}
      BY <2>4, Zenon DEF Handled
    <3>6. <<Dropin(c).source, Dropin(c).path>> \in CopyPairs(copy)
      BY <3>3, <3>4, <3>5, Zenon
    <3> QED
      BY <3>6, DropinIs, Zenon
  <2> QED
    BY <2>1, <2>4, <2>5, <2>6, Zenon
<1>2. ASSUME IInv, Own("qm", "systemd")
      PROVE  defines["qm"].systemd = manifest.qm.systemd
  <2>1. PICK p \in Part : p = "qm"
    BY DEF Part
  <2>2. PICK copy, dirs, systemd : Delivered(p, copy, dirs, systemd)
    BY <1>2, <2>1, CopiedIs, Zenon
  <2>3. Services(p, dirs, systemd) /\ defines[p].systemd = systemd
    BY <1>2, <2>1, <2>2, Zenon DEF Delivered, Handled
  <2> QED
    BY <2>1, <2>3, Zenon DEF Services
<1>3. ASSUME IInv, NEW p \in Part, NEW k \in Stage, Loaded(p),
             <<p, k>> \in Replaced(manifest)
      PROVE  defines[p][k] = manifest.internal[<<p, k>>]
  <2>1. pc \in Ended
    BY <1>3 DEF Loaded, Ended
  <2> QED
    BY <1>3, <2>1, Zenon DEF IInv, ReplacedInv
<1>4. IInv => ChecksAreInstalled
  BY <1>1, <1>2, <1>3, Zenon DEF ChecksAreInstalled
<1> QED
  BY Invariance, <1>4, PTL
=============================================================================
