--------------------------- MODULE ExplorerProofs ---------------------------
(***************************************************************************)
(* Proofs about the file explorer, for all names, all volumes and paths of *)
(* every length: it stays on the volume, shows what is there and loses     *)
(* nothing it was not asked to remove.                                     *)
(***************************************************************************)
EXTENDS Explorer, WellFoundedInduction, TLAPS

\* What path strings are made of.
Tokens == {"0:", "/"} \cup Names

\* The forms of current_path: "0:", "0:/", "0:/name", "0:/name/name", ...
PathForm(p) ==
    /\ p \in Seq(Tokens) /\ Len(p) >= 1 /\ p[1] = "0:"
    /\ \A k \in 2 .. Len(p) : p[k] # "0:"
    /\ Len(p) >= 2 => p[2] = "/"
    /\ \A k \in 2 .. Len(p) - 1 : p[k] = "/" <=> p[k + 1] # "/"
    /\ Len(p) > 2 => p[Len(p)] # "/"

\* A nonempty set of natural numbers has a least member.
LEMMA LeastMember ==
    ASSUME NEW S, S \subseteq Nat, S # {}
    PROVE  \E m \in S : \A n \in S : m <= n
<1> DEFINE R == OpToRel(<, Nat)
<1>1. IsWellFoundedOn(R, Nat)
    BY NatLessThanWellFounded
<1>2. PICK m \in S : \A n \in S : <<n, m>> \notin R
    <2> HIDE DEF R
    <2> QED BY <1>1, WFMin
<1>3. \A n \in S : ~ (n < m)
    BY <1>2 DEF OpToRel
<1> QED BY <1>3

\* One step of Resolve, and what it builds up to step m.
NameStep(path, f, k) ==
    IF k = 0 THEN << >>
    ELSE IF path[k] \in Names THEN Append(f[k - 1], path[k])
    ELSE f[k - 1]
NamesTo(path, f, m) == f = [k \in 0 .. m |-> NameStep(path, f, k)]

\* The recursion of Resolve has a solution of every length.
LEMMA NamesExist ==
    ASSUME NEW path \in Seq(Tokens)
    PROVE  \E f : NamesTo(path, f, Len(path))
<1> DEFINE Bad == {m \in 0 .. Len(path) : ~ \E f : NamesTo(path, f, m)}
<1>1. \E f : NamesTo(path, f, 0)
    <2> DEFINE f == [k \in 0 .. 0 |-> << >>]
    <2>1. NamesTo(path, f, 0)
        BY DEF NamesTo, NameStep
    <2> QED BY <2>1
<1>2. ASSUME NEW m \in 0 .. Len(path) - 1, \E f : NamesTo(path, f, m)
      PROVE  \E f : NamesTo(path, f, m + 1)
    <2>1. PICK f : NamesTo(path, f, m)
        BY <1>2
    <2> DEFINE F(k) == NameStep(path, f, k)
               g == [k \in 0 .. m + 1 |-> F(k)]
               G(k) == NameStep(path, g, k)
    <2>2. f = [k \in 0 .. m |-> F(k)]
        BY <2>1 DEF NamesTo
    <2>3. \A k \in 0 .. m : g[k] = f[k]
        <3>1. \A k \in 0 .. m : k \in 0 .. m + 1
            OBVIOUS
        <3> HIDE DEF F
        <3>2. \A k \in 0 .. m : f[k] = F(k)
            BY <2>2
        <3> QED BY <3>1, <3>2
    <2>4. \A k \in 0 .. m + 1 : G(k) = F(k)
        <3> TAKE k \in 0 .. m + 1
        <3>1. CASE k = 0
            BY <3>1 DEF NameStep
        <3>2. CASE k # 0
            <4>1. k - 1 \in 0 .. m
                BY <3>2
            <4>2. g[k - 1] = f[k - 1]
                BY <2>3, <4>1
            <4> HIDE DEF g
            <4> QED BY <4>2 DEF NameStep
        <3> QED BY <3>1, <3>2
    <2>5. g = [k \in 0 .. m + 1 |-> G(k)]
        <3> HIDE DEF F, G
        <3> QED BY <2>4
    <2>6. NamesTo(path, g, m + 1)
        BY <2>5 DEF NamesTo
    <2> QED BY <2>6
<1>3. Bad = {}
    <2> SUFFICES ASSUME Bad # {} PROVE FALSE
        OBVIOUS
    <2>1. Bad \subseteq Nat
        OBVIOUS
    <2>2. PICK m \in Bad : \A n \in Bad : m <= n
        <3> HIDE DEF Bad
        <3> QED BY <2>1, LeastMember
    <2>3. m # 0
        BY <1>1, <2>2
    <2>4. /\ m - 1 \in 0 .. Len(path) - 1 /\ m - 1 \in 0 .. Len(path)
          /\ (m - 1) + 1 = m /\ ~ (m <= m - 1)
        BY <2>3
    <2>5. \E f : NamesTo(path, f, m - 1)
        BY <2>2, <2>4
    <2>6. \E f : NamesTo(path, f, m)
        BY <1>2, <2>4, <2>5
    <2> QED BY <2>6
<1>4. Len(path) \in 0 .. Len(path)
    OBVIOUS
<1> QED BY <1>3, <1>4

\* The names Resolve has found at each place of the path.
NamesOf(path) == CHOOSE f : NamesTo(path, f, Len(path))

\* Resolve is what its recursion says.
LEMMA ResolveIs ==
    ASSUME NEW path \in Seq(Tokens)
    PROVE  /\ Resolve(path) = NamesOf(path)[Len(path)]
           /\ \A k \in 0 .. Len(path) : NamesOf(path)[k] = NameStep(path, NamesOf(path), k)
<1> DEFINE f == NamesOf(path)
           F(k) == NameStep(path, f, k)
<1>1. NamesTo(path, f, Len(path))
    <2> HIDE DEF NamesTo
    <2> QED BY NamesExist DEF NamesOf
<1>2. f = [k \in 0 .. Len(path) |-> F(k)]
    BY <1>1 DEF NamesTo
<1>3. \A k \in 0 .. Len(path) : f[k] = F(k)
    <2> HIDE DEF F, f
    <2> QED BY <1>2
<1>4. Resolve(path) = f[Len(path)]
    BY DEF Resolve, NamesOf, NamesTo, NameStep
<1> QED BY <1>3, <1>4

\* A token more: a name is appended, anything else is skipped.
LEMMA ResolveAppend ==
    ASSUME NEW path \in Seq(Tokens), NEW t \in Tokens
    PROVE  Resolve(Append(path, t)) =
               IF t \in Names THEN Append(Resolve(path), t) ELSE Resolve(path)
<1> DEFINE q == Append(path, t)
           n == Len(path)
           f == NamesOf(path)
           g == NamesOf(q)
           Bad == {k \in 0 .. n : f[k] # g[k]}
<1>1. /\ q \in Seq(Tokens) /\ Len(q) = n + 1 /\ q[n + 1] = t /\ n \in Nat
      /\ \A k \in 1 .. n : q[k] = path[k]
    OBVIOUS
<1> HIDE DEF q
<1>2. /\ Resolve(path) = f[n] /\ Resolve(q) = g[n + 1]
      /\ \A k \in 0 .. n : f[k] = NameStep(path, f, k)
      /\ \A k \in 0 .. n + 1 : g[k] = NameStep(q, g, k)
    BY <1>1, ResolveIs
<1> HIDE DEF f, g, n
<1>3. Bad = {}
    <2> SUFFICES ASSUME Bad # {} PROVE FALSE
        OBVIOUS
    <2>1. Bad \subseteq Nat
        BY <1>1
    <2>2. PICK m \in Bad : \A k \in Bad : m <= k
        <3> HIDE DEF Bad
        <3> QED BY <2>1, LeastMember
    <2>3. /\ m \in 0 .. n /\ m \in 0 .. n + 1 /\ f[m] # g[m]
          /\ f[m] = NameStep(path, f, m) /\ g[m] = NameStep(q, g, m)
        BY <1>1, <1>2, <2>2
    <2>4. m # 0
        BY <2>3 DEF NameStep
    <2>5. m \in 1 .. n /\ m - 1 \in 0 .. n /\ ~ (m <= m - 1)
        BY <1>1, <2>3, <2>4
    <2>6. f[m - 1] = g[m - 1] /\ q[m] = path[m]
        BY <1>1, <2>2, <2>5
    <2> QED BY <2>3, <2>4, <2>6 DEF NameStep
<1>4. n \in 0 .. n /\ n + 1 \in 0 .. n + 1 /\ n + 1 # 0 /\ (n + 1) - 1 = n
    BY <1>1
<1>5. f[n] = g[n]
    BY <1>3, <1>4
<1>6. g[n + 1] = IF t \in Names THEN Append(g[n], t) ELSE g[n]
    BY <1>1, <1>2, <1>4 DEF NameStep
<1> QED BY <1>2, <1>5, <1>6 DEF q

\* Resolve returns names.
LEMMA ResolveType ==
    ASSUME NEW path \in Seq(Tokens)
    PROVE  Resolve(path) \in Seq(Names)
<1> DEFINE f == NamesOf(path)
           Bad == {k \in 0 .. Len(path) : f[k] \notin Seq(Names)}
<1>1. /\ Resolve(path) = f[Len(path)]
      /\ \A k \in 0 .. Len(path) : f[k] = NameStep(path, f, k)
    BY ResolveIs
<1> HIDE DEF f
<1>2. Bad = {}
    <2> SUFFICES ASSUME Bad # {} PROVE FALSE
        OBVIOUS
    <2>1. Bad \subseteq Nat
        OBVIOUS
    <2>2. PICK m \in Bad : \A k \in Bad : m <= k
        <3> HIDE DEF Bad
        <3> QED BY <2>1, LeastMember
    <2>3. m \in 0 .. Len(path) /\ f[m] \notin Seq(Names) /\ f[m] = NameStep(path, f, m)
        BY <1>1, <2>2
    <2>4. m # 0
        BY <2>3 DEF NameStep
    <2>5. m - 1 \in 0 .. Len(path) /\ ~ (m <= m - 1)
        BY <2>3, <2>4
    <2>6. f[m - 1] \in Seq(Names)
        BY <2>2, <2>5
    <2> QED BY <2>3, <2>4, <2>6 DEF NameStep
<1> QED BY <1>1, <1>2

\* "0:" alone is the root.
LEMMA ResolveRoot == Resolve(<<"0:">>) = << >>
<1> DEFINE p == <<"0:">>
<1>1. p \in Seq(Tokens) /\ Len(p) = 1 /\ p[1] = "0:"
    BY DEF Tokens
<1> HIDE DEF p
<1> DEFINE f == NamesOf(p)
<1>2. Resolve(p) = f[Len(p)] /\ \A k \in 0 .. Len(p) : f[k] = NameStep(p, f, k)
    BY <1>1, ResolveIs
<1> HIDE DEF f
<1>3. f[0] = << >> /\ f[1] = f[0]
    BY <1>1, <1>2, ExplorerAssumption DEF NameStep
<1> QED BY <1>1, <1>2, <1>3 DEF p

-----------------------------------------------------------------------------

\* The beginning of a sequence.
LEMMA SubSeqIs ==
    ASSUME NEW S, NEW s \in Seq(S), NEW k \in 0 .. Len(s)
    PROVE  /\ SubSeq(s, 1, k) \in Seq(S) /\ Len(SubSeq(s, 1, k)) = k
           /\ \A i \in 1 .. k : SubSeq(s, 1, k)[i] = s[i]
OBVIOUS

\* Sequences of one length with the same elements are the same.
LEMMA SameSeq ==
    ASSUME NEW S, NEW s \in Seq(S), NEW t \in Seq(S), Len(s) = Len(t),
           \A i \in 1 .. Len(s) : s[i] = t[i]
    PROVE  s = t
OBVIOUS

\* IsPrefix, element by element.
LEMMA PrefixIs ==
    ASSUME NEW S, NEW s \in Seq(S), NEW t \in Seq(S)
    PROVE  /\ IsPrefix(s, t) <=> Len(s) <= Len(t) /\ \A i \in 1 .. Len(s) : s[i] = t[i]
           /\ IsPrefix(s, t) => s = SubSeq(t, 1, Len(s))
<1>1. SubSeq(s, 1, Len(s)) = s
    OBVIOUS
<1>2. ASSUME Len(s) <= Len(t)
      PROVE  SubSeq(s, 1, Len(s)) = SubSeq(t, 1, Len(s)) <=> \A i \in 1 .. Len(s) : s[i] = t[i]
    <2>1. Len(s) \in 0 .. Len(t)
        BY <1>2
    <2>2. /\ SubSeq(t, 1, Len(s)) \in Seq(S) /\ Len(SubSeq(t, 1, Len(s))) = Len(s)
          /\ \A i \in 1 .. Len(s) : SubSeq(t, 1, Len(s))[i] = t[i]
        BY <2>1, SubSeqIs
    <2> QED BY <1>1, <2>2, SameSeq
<1> QED BY <1>1, <1>2 DEF IsPrefix

\* A beginning is a prefix.
LEMMA SubSeqPrefix ==
    ASSUME NEW S, NEW s \in Seq(S), NEW k \in 0 .. Len(s)
    PROVE  IsPrefix(SubSeq(s, 1, k), s)
<1> DEFINE b == SubSeq(s, 1, k)
<1>1. b \in Seq(S) /\ Len(b) = k /\ \A i \in 1 .. k : b[i] = s[i]
    BY SubSeqIs
<1> HIDE DEF b
<1>2. Len(b) <= Len(s)
    BY <1>1
<1>3. IsPrefix(b, s)
    BY <1>1, <1>2, PrefixIs
<1> QED BY <1>3 DEF b

\* Prefixes of a prefix.
LEMMA PrefixTransitive ==
    ASSUME NEW S, NEW s \in Seq(S), NEW t \in Seq(S), NEW u \in Seq(S),
           IsPrefix(s, t), IsPrefix(t, u)
    PROVE  IsPrefix(s, u)
BY PrefixIs

\* The beginning of a beginning.
LEMMA SubSub ==
    ASSUME NEW S, NEW s \in Seq(S), NEW m \in 0 .. Len(s), NEW k \in 0 .. m
    PROVE  SubSeq(SubSeq(s, 1, m), 1, k) = SubSeq(s, 1, k)
<1>1. /\ SubSeq(s, 1, m) \in Seq(S) /\ Len(SubSeq(s, 1, m)) = m
      /\ \A i \in 1 .. m : SubSeq(s, 1, m)[i] = s[i]
    BY SubSeqIs
<1>2. k \in 0 .. Len(s) /\ k \in 0 .. Len(SubSeq(s, 1, m)) /\ \A i \in 1 .. k : i \in 1 .. m
    BY <1>1
<1> HIDE <1>1
<1>3. /\ SubSeq(SubSeq(s, 1, m), 1, k) \in Seq(S)
      /\ Len(SubSeq(SubSeq(s, 1, m), 1, k)) = k
      /\ \A i \in 1 .. k : SubSeq(SubSeq(s, 1, m), 1, k)[i] = SubSeq(s, 1, m)[i]
    BY <1>1, <1>2, SubSeqIs
<1>4. /\ SubSeq(s, 1, k) \in Seq(S) /\ Len(SubSeq(s, 1, k)) = k
      /\ \A i \in 1 .. k : SubSeq(s, 1, k)[i] = s[i]
    BY <1>2, SubSeqIs
<1> QED BY <1>1, <1>2, <1>3, <1>4, SameSeq

-----------------------------------------------------------------------------
(* What the operations of the volume keep.                                 *)

\* The volume is sound, and has lost nothing that is not at or below o.
Spared(o) ==
    /\ Sound(tree')
    /\ \A c \in DOMAIN tree : ~ IsPrefix(o, c) => c \in DOMAIN tree' /\ tree'[c] = tree[c]

\* The volume has what it had, and perhaps more.
Grown ==
    /\ Sound(tree')
    /\ \A c \in DOMAIN tree : c \in DOMAIN tree' /\ tree'[c] = tree[c]

\* A new object in a directory.
LEMMA AddKeeps ==
    ASSUME Sound(tree), NEW p \in Seq(Names), Free(p), NEW v,
           tree' = [c \in DOMAIN tree \cup {p} |-> IF c = p THEN v ELSE tree[c]]
    PROVE  Grown
<1> DEFINE q == SubSeq(p, 1, Len(p) - 1)
<1>1. p # << >> /\ p \notin DOMAIN tree /\ (q = << >> \/ (q \in DOMAIN tree /\ tree[q] = "dir"))
    BY DEF Free, IsDir, Front
<1>2. DOMAIN tree' = DOMAIN tree \cup {p} /\ \A c \in DOMAIN tree : tree'[c] = tree[c]
    BY <1>1
<1>3. DOMAIN tree' \subseteq Seq(Names) \ {<< >>}
    BY <1>1, <1>2 DEF Sound
<1>4. ASSUME NEW c \in DOMAIN tree, NEW k \in 1 .. Len(c) - 1
      PROVE  SubSeq(c, 1, k) \in DOMAIN tree' /\ tree'[SubSeq(c, 1, k)] = "dir"
    <2>1. SubSeq(c, 1, k) \in DOMAIN tree /\ tree[SubSeq(c, 1, k)] = "dir"
        BY <1>4 DEF Sound
    <2> QED BY <1>2, <2>1
<1>5. ASSUME NEW k \in 1 .. Len(p) - 1
      PROVE  SubSeq(p, 1, k) \in DOMAIN tree' /\ tree'[SubSeq(p, 1, k)] = "dir"
    <2>1. Len(p) - 1 \in 0 .. Len(p) /\ k \in 0 .. Len(p) - 1
        BY <1>5
    <2>2. Len(q) = Len(p) - 1 /\ SubSeq(q, 1, k) = SubSeq(p, 1, k) /\ q \in Seq(Names)
        BY <2>1, SubSeqIs, SubSub
    <2> HIDE DEF q
    <2>3. q \in DOMAIN tree /\ tree[q] = "dir"
        BY <1>1, <2>2
    <2>4. CASE k = Len(p) - 1
        <3>1. SubSeq(q, 1, k) = q
            BY <2>2, <2>4
        <3> QED BY <1>2, <2>2, <2>3, <3>1
    <2>5. CASE k # Len(p) - 1
        <3>1. k \in 1 .. Len(q) - 1
            BY <2>2, <2>5
        <3> QED BY <1>4, <2>2, <2>3, <3>1
    <2> QED BY <2>4, <2>5
<1> QED BY <1>2, <1>3, <1>4, <1>5 DEF Sound, Grown

\* Objects are removed with all that is below them.
LEMMA DropKeeps ==
    ASSUME Sound(tree), NEW R, \A c \in R : Below(c) \subseteq R,
           tree' = Without(R)
    PROVE  Sound(tree') /\ \A c \in DOMAIN tree \ R : c \in DOMAIN tree' /\ tree'[c] = tree[c]
<1>1. DOMAIN tree' = DOMAIN tree \ R /\ \A c \in DOMAIN tree \ R : tree'[c] = tree[c]
    BY DEF Without
<1>2. ASSUME NEW c \in DOMAIN tree', NEW k \in 1 .. Len(c) - 1
      PROVE  SubSeq(c, 1, k) \in DOMAIN tree' /\ tree'[SubSeq(c, 1, k)] = "dir"
    <2> DEFINE b == SubSeq(c, 1, k)
    <2>1. c \in DOMAIN tree /\ c \notin R /\ c \in Seq(Names)
        BY <1>1 DEF Sound
    <2>2. b \in DOMAIN tree /\ tree[b] = "dir"
        BY <2>1 DEF Sound
    <2>3. k \in 0 .. Len(c)
        BY <2>1
    <2>4. IsPrefix(b, c)
        BY <2>1, <2>3, SubSeqPrefix
    <2> HIDE DEF b
    <2>5. b \notin R
        BY <2>1, <2>4 DEF Below
    <2> QED BY <1>1, <2>2, <2>5 DEF b
<1>3. DOMAIN tree' \subseteq Seq(Names) \ {<< >>}
    BY <1>1 DEF Sound
<1> QED BY <1>1, <1>2, <1>3 DEF Sound

\* f_mkdir loses nothing.
LEMMA MkdirKeeps ==
    ASSUME Sound(tree), NEW p \in Seq(Names), f_mkdir(p)
    PROVE  Grown
<1>1. CASE UNCHANGED tree
    BY <1>1 DEF Grown
<1>2. CASE /\ Free(p)
           /\ tree' = [c \in DOMAIN tree \cup {p} |-> IF c = p THEN "dir" ELSE tree[c]]
    BY <1>2, AddKeeps
<1> QED BY <1>1, <1>2 DEF f_mkdir

\* A save of another application loses nothing.
LEMMA SavesKeep ==
    ASSUME Sound(tree), OtherSaves
    PROVE  Grown
<1>1. PICK p \in Saves :
        /\ Free(p)
        /\ tree' = [c \in DOMAIN tree \cup {p} |-> IF c = p THEN "file" ELSE tree[c]]
    BY DEF OtherSaves
<1>2. p \in Seq(Names)
    BY ExplorerAssumption
<1> QED BY <1>1, <1>2, AddKeeps

\* empty_and_delete_dir removes nothing beside its directory.
LEMMA DeleteKeeps ==
    ASSUME Sound(tree), NEW path, Resolve(path) \in Seq(Names), empty_and_delete_dir(path)
    PROVE  Spared(Resolve(path))
<1> DEFINE d == Resolve(path)
           removable == Below(d) \ ({d} \cup Obstacles(d))
<1> HIDE DEF d
<1>1. CASE UNCHANGED tree
    BY <1>1 DEF Spared
<1>2. ASSUME NEW R, R \subseteq Below(d), \A c \in R : Below(c) \subseteq R,
             tree' = Without(R)
      PROVE  Spared(d)
    <2>1. Sound(tree') /\ \A c \in DOMAIN tree \ R : c \in DOMAIN tree' /\ tree'[c] = tree[c]
        BY <1>2, DropKeeps
    <2> QED BY <1>2, <2>1 DEF Spared, Below
<1>3. \A c \in Below(d) : Below(c) \subseteq Below(d)
    BY PrefixTransitive DEF Below, Sound, d
<1>4. removable \subseteq Below(d)
    OBVIOUS
<1>5. \/ UNCHANGED tree
      \/ tree' = Without(Below(d))
      \/ (\A c \in removable : Below(c) \subseteq removable)
            /\ tree' = Without(removable)
      \/ \E gone \in SUBSET removable :
            (\A c \in gone : Below(c) \subseteq gone) /\ tree' = Without(gone)
    BY DEF empty_and_delete_dir, d
<1> HIDE DEF removable
<1> QED BY <1>1, <1>2, <1>3, <1>4, <1>5 DEF d

\* b with its beginning replaced by another one of the same length.
Graft(new, b) == new \o SubSeq(b, Len(new) + 1, Len(b))

\* The elements of a graft.
LEMMA GraftIs ==
    ASSUME NEW S, NEW new \in Seq(S), NEW b \in Seq(S), Len(new) <= Len(b)
    PROVE  /\ Graft(new, b) \in Seq(S) /\ Len(Graft(new, b)) = Len(b)
           /\ \A i \in 1 .. Len(b) :
                  Graft(new, b)[i] = IF i <= Len(new) THEN new[i] ELSE b[i]
<1> DEFINE r == SubSeq(b, Len(new) + 1, Len(b))
<1>1. /\ r \in Seq(S) /\ Len(r) = Len(b) - Len(new)
      /\ \A i \in 1 .. Len(b) - Len(new) : r[i] = b[Len(new) + i]
    OBVIOUS
<1> HIDE DEF r
<1>2. /\ new \o r \in Seq(S) /\ Len(new \o r) = Len(new) + Len(r)
      /\ \A i \in 1 .. Len(new) + Len(r) :
             (new \o r)[i] = IF i <= Len(new) THEN new[i] ELSE r[i - Len(new)]
    BY <1>1
<1>3. Len(new) + Len(r) = Len(b)
    BY <1>1
<1>4. \A i \in 1 .. Len(b) : i > Len(new) => r[i - Len(new)] = b[i]
    <2> SUFFICES ASSUME NEW i \in 1 .. Len(b), i > Len(new) PROVE r[i - Len(new)] = b[i]
        OBVIOUS
    <2>1. i - Len(new) \in 1 .. Len(b) - Len(new) /\ Len(new) + (i - Len(new)) = i
        OBVIOUS
    <2> QED BY <1>1, <2>1
<1>5. Graft(new, b) = new \o r
    BY DEF Graft, r
<1>6. \A i \in 1 .. Len(b) : (new \o r)[i] = IF i <= Len(new) THEN new[i] ELSE b[i]
    <2> SUFFICES ASSUME NEW i \in 1 .. Len(b)
                 PROVE  (new \o r)[i] = IF i <= Len(new) THEN new[i] ELSE b[i]
        OBVIOUS
    <2>1. (new \o r)[i] = IF i <= Len(new) THEN new[i] ELSE r[i - Len(new)]
        BY <1>2, <1>3
    <2>2. CASE i <= Len(new)
        BY <2>1, <2>2
    <2>3. CASE ~(i <= Len(new))
        BY <1>4, <2>1, <2>3
    <2> QED BY <2>2, <2>3
<1> QED BY <1>2, <1>3, <1>5, <1>6

\* Grafting the old beginning back gives the old sequence, and the beginning
\* of a graft is the graft of a beginning.
LEMMA GraftBack ==
    ASSUME NEW S, NEW old \in Seq(S), NEW new \in Seq(S), NEW b \in Seq(S),
           Len(old) = Len(new), IsPrefix(old, b)
    PROVE  /\ Graft(old, Graft(new, b)) = b /\ IsPrefix(new, Graft(new, b))
           /\ \A k \in Len(new) .. Len(b) :
                  SubSeq(Graft(new, b), 1, k) = Graft(new, SubSeq(b, 1, k))
<1> DEFINE g == Graft(new, b)
           h == Graft(old, g)
<1>1. Len(old) <= Len(b) /\ \A i \in 1 .. Len(old) : old[i] = b[i]
    BY PrefixIs
<1>2. /\ g \in Seq(S) /\ Len(g) = Len(b)
      /\ \A i \in 1 .. Len(b) : g[i] = IF i <= Len(new) THEN new[i] ELSE b[i]
    BY <1>1, GraftIs
<1> HIDE DEF g
<1>3. /\ h \in Seq(S) /\ Len(h) = Len(g)
      /\ \A i \in 1 .. Len(g) : h[i] = IF i <= Len(old) THEN old[i] ELSE g[i]
    BY <1>1, <1>2, GraftIs
<1> HIDE DEF h
<1>4. h = b
    <2>1. \A i \in 1 .. Len(h) : h[i] = b[i]
        BY <1>1, <1>2, <1>3
    <2> QED BY <1>2, <1>3, <2>1, SameSeq
<1>5. IsPrefix(new, g)
    <2>1. \A i \in 1 .. Len(new) : new[i] = g[i]
        BY <1>1, <1>2
    <2> QED BY <1>1, <1>2, <2>1, PrefixIs
<1>6. ASSUME NEW k \in Len(new) .. Len(b)
      PROVE  SubSeq(g, 1, k) = Graft(new, SubSeq(b, 1, k))
    <2> DEFINE x == SubSeq(b, 1, k)
               y == SubSeq(g, 1, k)
               z == Graft(new, x)
    <2>1. k \in 0 .. Len(b) /\ k \in 0 .. Len(g) /\ \A i \in 1 .. k : i \in 1 .. Len(b)
        BY <1>2
    <2>2. x \in Seq(S) /\ Len(x) = k /\ \A i \in 1 .. k : x[i] = b[i]
        BY <2>1, SubSeqIs
    <2>3. y \in Seq(S) /\ Len(y) = k /\ \A i \in 1 .. k : y[i] = g[i]
        BY <1>2, <2>1, SubSeqIs
    <2> HIDE DEF x, y
    <2>4. /\ z \in Seq(S) /\ Len(z) = k
          /\ \A i \in 1 .. k : z[i] = IF i <= Len(new) THEN new[i] ELSE x[i]
        <3>1. x \in Seq(S) /\ Len(new) <= Len(x) /\ Len(x) = k
            BY <2>2
        <3>2. /\ z \in Seq(S) /\ Len(z) = Len(x)
              /\ \A i \in 1 .. Len(x) : z[i] = IF i <= Len(new) THEN new[i] ELSE x[i]
            BY <3>1, GraftIs
        <3> QED BY <3>1, <3>2
    <2> HIDE DEF z
    <2>5. \A i \in 1 .. Len(y) : y[i] = z[i]
        BY <1>2, <2>1, <2>2, <2>3, <2>4
    <2>6. y = z
        BY <2>3, <2>4, <2>5, SameSeq
    <2> QED BY <2>6 DEF x, y, z
<1> QED BY <1>4, <1>5, <1>6 DEF g, h

\* Rename moves what is at and below the old name, and nothing else.
LEMMA RenameKeeps ==
    ASSUME Sound(tree), NEW d \in Seq(Names), IsDir(d), NEW t \in Names, NEW n \in Names,
           f_rename(Append(d, t), Append(d, n))
    PROVE  Spared(Append(d, t))
<1> DEFINE old == Append(d, t)
           new == Append(d, n)
           kept == DOMAIN tree \ Below(old)
           L == Len(d) + 1
<1>1. CASE UNCHANGED tree
    BY <1>1 DEF Spared
<1>2. CASE /\ old \in DOMAIN tree /\ Free(new)
           /\ tree' = [c \in kept \cup {Graft(new, b) : b \in Below(old)} |->
                          IF c \in kept THEN tree[c] ELSE tree[Graft(old, c)]]
    <2>1. /\ old \in Seq(Names) /\ new \in Seq(Names) /\ Len(old) = L /\ Len(new) = L
          /\ \A i \in 1 .. Len(d) : old[i] = d[i] /\ new[i] = d[i]
          /\ L \in Nat /\ Len(d) = L - 1
        OBVIOUS
    <2> HIDE DEF old, new, L
    <2>2. DOMAIN tree \subseteq Seq(Names) \ {<< >>} /\ new \notin DOMAIN tree
        BY <1>2 DEF Sound, Free
    <2>3. ASSUME NEW b \in Below(old)
          PROVE  /\ b \in DOMAIN tree /\ b \in Seq(Names) /\ IsPrefix(old, b) /\ L <= Len(b)
                 /\ Graft(new, b) \in Seq(Names) /\ Len(Graft(new, b)) = Len(b)
                 /\ Graft(old, Graft(new, b)) = b
                 /\ Graft(new, b) \notin DOMAIN tree
        <3> DEFINE g == Graft(new, b)
        <3>1. b \in DOMAIN tree /\ b \in Seq(Names) /\ IsPrefix(old, b)
            BY <2>2 DEF Below
        <3>2. L <= Len(b)
            BY <2>1, <3>1, PrefixIs
        <3>3. g \in Seq(Names) /\ Len(g) = Len(b)
            BY <2>1, <3>1, <3>2, GraftIs
        <3>4. Graft(old, g) = b /\ IsPrefix(new, g)
            BY <2>1, <3>1, GraftBack
        <3> HIDE DEF g
        <3>5. new = SubSeq(g, 1, L)
            BY <2>1, <3>3, <3>4, PrefixIs
        <3>6. g \notin DOMAIN tree
            <4>1. CASE L = Len(g)
                <5>1. SubSeq(g, 1, L) = g
                    BY <3>3, <4>1
                <5> QED BY <2>2, <3>5, <5>1
            <4>2. CASE L # Len(g)
                <5>1. L \in 1 .. Len(g) - 1
                    BY <2>1, <3>2, <3>3, <4>2
                <5> QED BY <2>2, <3>5, <5>1 DEF Sound
            <4> QED BY <4>1, <4>2
        <3> QED BY <3>1, <3>2, <3>3, <3>4, <3>6 DEF g
    <2>4. /\ DOMAIN tree' = kept \cup {Graft(new, b) : b \in Below(old)}
          /\ \A c \in kept : tree'[c] = tree[c]
          /\ \A b \in Below(old) : tree'[Graft(new, b)] = tree[b]
        <3>1. \A b \in Below(old) : Graft(new, b) \notin kept
            BY <2>3
        <3> QED BY <1>2, <2>3, <3>1
    <2>5. DOMAIN tree' \subseteq Seq(Names) \ {<< >>}
        <3>1. \A b \in Below(old) : Graft(new, b) \in Seq(Names) /\ Graft(new, b) # << >>
            <4> SUFFICES ASSUME NEW b \in Below(old), Graft(new, b) = << >> PROVE FALSE
                BY <2>3
            <4>1. Len(b) = 0 /\ L <= Len(b)
                BY <2>3
            <4> QED BY <2>1, <4>1
        <3> QED BY <2>2, <2>4, <3>1
    <2>6. ASSUME NEW c \in kept, NEW k \in 1 .. Len(c) - 1
          PROVE  SubSeq(c, 1, k) \in kept /\ tree[SubSeq(c, 1, k)] = "dir"
        <3> DEFINE s == SubSeq(c, 1, k)
        <3>1. c \in DOMAIN tree /\ c \in Seq(Names) /\ ~ IsPrefix(old, c)
            BY <2>2 DEF Below
        <3>2. s \in DOMAIN tree /\ tree[s] = "dir" /\ s \in Seq(Names)
            BY <2>2, <3>1 DEF Sound
        <3>3. IsPrefix(s, c)
            BY <3>1, SubSeqPrefix
        <3> HIDE DEF s
        <3>4. ~ IsPrefix(old, s)
            BY <2>1, <3>1, <3>2, <3>3, PrefixTransitive
        <3> QED BY <3>2, <3>4 DEF s, Below
    <2>7. ASSUME NEW b \in Below(old), NEW k \in 1 .. Len(b) - 1
          PROVE  /\ SubSeq(Graft(new, b), 1, k) \in DOMAIN tree'
                 /\ tree'[SubSeq(Graft(new, b), 1, k)] = "dir"
        <3> DEFINE s == SubSeq(b, 1, k)
        <3>1. /\ b \in DOMAIN tree /\ b \in Seq(Names) /\ IsPrefix(old, b) /\ L <= Len(b)
              /\ Graft(new, b) \in Seq(Names) /\ Len(Graft(new, b)) = Len(b)
            BY <2>3
        <3>2. k \in 0 .. Len(b)
            BY <3>1
        <3>3. /\ s \in DOMAIN tree /\ tree[s] = "dir" /\ s \in Seq(Names) /\ Len(s) = k
              /\ \A i \in 1 .. k : s[i] = b[i]
            BY <2>2, <3>1, <3>2, SubSeqIs DEF Sound
        <3>4. CASE k < L
            <4> DEFINE g == SubSeq(Graft(new, b), 1, k)
            <4>1. /\ g \in Seq(Names) /\ Len(g) = k
                  /\ \A i \in 1 .. k : g[i] = Graft(new, b)[i]
                BY <3>1, <3>2, SubSeqIs
            <4>2. \A i \in 1 .. k : Graft(new, b)[i] = new[i]
                BY <2>1, <3>1, <3>4, GraftIs
            <4>3. \A i \in 1 .. k : old[i] = b[i]
                BY <2>1, <3>1, <3>4, PrefixIs
            <4>4. \A i \in 1 .. k : i \in 1 .. Len(d)
                BY <2>1, <3>4
            <4> HIDE DEF g, s
            <4>5. g = s
                <5>1. \A i \in 1 .. k : g[i] = s[i]
                    BY <2>1, <3>3, <4>1, <4>2, <4>3, <4>4
                <5> QED BY <3>3, <4>1, <5>1, SameSeq
            <4>6. ~ IsPrefix(old, s)
                BY <2>1, <3>3, <3>4, PrefixIs
            <4> QED BY <2>4, <3>3, <4>5, <4>6 DEF g, Below
        <3>5. CASE k >= L
            <4>1. IsPrefix(old, s)
                <5> HIDE DEF s
                <5>1. \A i \in 1 .. L : old[i] = b[i]
                    <6>1. \A i \in 1 .. Len(old) : old[i] = b[i]
                        <7>1. old \in Seq(Names) /\ b \in Seq(Names) /\ IsPrefix(old, b)
                            BY <2>1, <3>1
                        <7> QED BY <7>1, PrefixIs
                    <6> QED BY <2>1, <6>1
                <5>2. \A i \in 1 .. L : old[i] = s[i]
                    BY <2>1, <3>3, <3>5, <5>1
                <5> QED BY <2>1, <3>3, <3>5, <5>2, PrefixIs
            <4>2. SubSeq(Graft(new, b), 1, k) = Graft(new, s)
                <5>1. k \in Len(new) .. Len(b)
                    BY <2>1, <3>1, <3>2, <3>5
                <5>2. /\ old \in Seq(Names) /\ new \in Seq(Names) /\ b \in Seq(Names)
                      /\ Len(old) = Len(new) /\ IsPrefix(old, b)
                    BY <2>1, <3>1
                <5>3. \A j \in Len(new) .. Len(b) :
                          SubSeq(Graft(new, b), 1, j) = Graft(new, SubSeq(b, 1, j))
                    BY <5>2, GraftBack
                <5> QED BY <5>1, <5>3
            <4> HIDE DEF s
            <4>3. s \in Below(old)
                BY <3>3, <4>1 DEF Below
            <4> QED BY <2>4, <3>3, <4>2, <4>3
        <3> QED BY <2>1, <3>2, <3>4, <3>5
    <2>8. ASSUME NEW c \in DOMAIN tree', NEW k \in 1 .. Len(c) - 1
          PROVE  SubSeq(c, 1, k) \in DOMAIN tree' /\ tree'[SubSeq(c, 1, k)] = "dir"
        <3>1. CASE c \in kept
            BY <2>4, <2>6, <3>1
        <3>2. CASE c \notin kept
            <4>1. PICK b \in Below(old) : c = Graft(new, b)
                BY <2>4, <3>2
            <4>2. Len(c) = Len(b)
                BY <2>3, <4>1
            <4> QED BY <2>7, <4>1, <4>2
        <3> QED BY <3>1, <3>2
    <2>9. Sound(tree')
        BY <2>5, <2>8 DEF Sound
    <2> QED BY <2>4, <2>9 DEF Spared, Below, old
<1>3. Len(old) = Len(new)
    OBVIOUS
<1> HIDE DEF old, new
<1>4. \/ UNCHANGED tree
      \/ /\ old \in DOMAIN tree /\ Free(new)
         /\ tree' = [c \in kept \cup {Graft(new, b) : b \in Below(old)} |->
                        IF c \in kept THEN tree[c] ELSE tree[Graft(old, c)]]
    <2>1. f_rename(old, new)
        BY DEF old, new
    <2> DEFINE M(b) == new \o SubSeq(b, Len(old) + 1, Len(b))
               N(c) == old \o SubSeq(c, Len(new) + 1, Len(c))
               F(c) == IF c \in kept THEN tree[c] ELSE tree[N(c)]
               G(c) == IF c \in kept THEN tree[c] ELSE tree[Graft(old, c)]
    <2>2. \/ UNCHANGED tree
          \/ /\ old \in DOMAIN tree /\ Free(new)
             /\ tree' = [c \in kept \cup {M(b) : b \in Below(old)} |-> F(c)]
        BY <2>1 DEF f_rename
    <2>3. \A b : M(b) = Graft(new, b) /\ N(b) = Graft(old, b)
        BY <1>3 DEF Graft
    <2> HIDE DEF M, N, kept
    <2>4. \A c : F(c) = G(c)
        BY <2>3
    <2>5. {M(b) : b \in Below(old)} = {Graft(new, b) : b \in Below(old)}
        BY <2>3
    <2> HIDE DEF F, G
    <2>6. \/ UNCHANGED tree
          \/ /\ old \in DOMAIN tree /\ Free(new)
             /\ tree' = [c \in kept \cup {Graft(new, b) : b \in Below(old)} |-> G(c)]
        BY <2>2, <2>4, <2>5
    <2> QED BY <2>6 DEF G
<1> HIDE DEF kept
<1> QED BY <1>1, <1>2, <1>4 DEF old

-----------------------------------------------------------------------------
(* Path strings.                                                           *)

\* build_full_path names an object of the directory, or the directory itself.
LEMMA FullPath ==
    ASSUME NEW p, PathForm(p), NEW name \in Inputs
    PROVE  Resolve(build_full_path(p, name)) =
               IF name = << >> THEN Resolve(p) ELSE Append(Resolve(p), name[1])
<1>1. p \in Seq(Tokens) /\ "/" \in Tokens /\ "/" \notin Names /\ Names \subseteq Tokens
    BY ExplorerAssumption DEF PathForm, Tokens
<1> DEFINE q == IF Last(p) = "0:" THEN p ELSE Append(p, "/")
<1>2. q \in Seq(Tokens) /\ Resolve(q) = Resolve(p)
    BY <1>1, ResolveAppend
<1>3. build_full_path(p, name) = q \o name
    <2>1. p \o << >> = p /\ p \o <<"/">> = Append(p, "/")
        BY <1>1
    <2> QED BY <2>1 DEF build_full_path
<1> HIDE DEF q
<1>4. CASE name = << >>
    <2>1. q \o name = q
        BY <1>2, <1>4
    <2> QED BY <1>2, <1>3, <1>4, <2>1
<1>5. ASSUME NEW n \in Names, name = <<n>>
      PROVE  Resolve(build_full_path(p, name)) = Append(Resolve(p), name[1]) /\ name # << >>
    <2>1. q \o name = Append(q, n) /\ name[1] = n /\ name # << >>
        BY <1>2, <1>5
    <2>2. Resolve(Append(q, n)) = Append(Resolve(q), n)
        BY <1>1, <1>2, ResolveAppend
    <2> QED BY <1>2, <1>3, <2>1, <2>2
<1> QED BY <1>4, <1>5 DEF Inputs

\* A click on a directory's name leads into it.
LEMMA DescendPath ==
    ASSUME NEW p, PathForm(p), NEW n \in Names
    PROVE  PathForm(Descend(p, n)) /\ Resolve(Descend(p, n)) = Append(Resolve(p), n)
<1>1. /\ p \in Seq(Tokens) /\ Len(p) >= 1 /\ "/" \in Tokens /\ n \in Tokens
      /\ "/" \notin Names /\ "0:" \notin Names
    BY ExplorerAssumption DEF PathForm, Tokens
<1> DEFINE q == IF Last(p) = "/" THEN p ELSE Append(p, "/")
<1>2. q \in Seq(Tokens) /\ Resolve(q) = Resolve(p)
    BY <1>1, ResolveAppend
<1>3. Descend(p, n) = Append(q, n)
    <2>1. p \o << >> = p /\ p \o <<"/">> = Append(p, "/")
        BY <1>1
    <2>2. q \o <<n>> = Append(q, n)
        BY <1>2
    <2> QED BY <2>1, <2>2 DEF Descend
<1>4. /\ Len(q) >= 2 /\ q[1] = "0:" /\ q[2] = "/" /\ q[Len(q)] = "/"
      /\ \A k \in 2 .. Len(q) : q[k] # "0:"
      /\ \A k \in 2 .. Len(q) - 1 : q[k] = "/" <=> q[k + 1] # "/"
    <2>1. CASE Last(p) = "/"
        BY <1>1, <2>1 DEF Last, PathForm
    <2>2. CASE Last(p) # "/"
        <3>1. q = Append(p, "/") /\ Len(q) = Len(p) + 1 /\ q[Len(q)] = "/"
              /\ \A k \in 1 .. Len(p) : q[k] = p[k]
            BY <1>1, <2>2
        <3> HIDE DEF q
        <3>2. /\ Len(p) \in Nat /\ p[1] = "0:" /\ p[Len(p)] # "/"
              /\ \A k \in 2 .. Len(p) : p[k] # "0:"
              /\ Len(p) >= 2 => p[2] = "/"
              /\ \A k \in 2 .. Len(p) - 1 : p[k] = "/" <=> p[k + 1] # "/"
            BY <1>1, <2>2 DEF Last, PathForm
        <3>3. Len(q) >= 2 /\ q[1] = "0:" /\ q[2] = "/"
            BY <1>1, <3>1, <3>2
        <3>4. \A k \in 2 .. Len(q) : q[k] # "0:"
            BY <3>1, <3>2
        <3>5. ASSUME NEW k \in 2 .. Len(q) - 1 PROVE q[k] = "/" <=> q[k + 1] # "/"
            <4>1. CASE k = Len(p)
                BY <1>1, <3>1, <3>2, <4>1
            <4>2. CASE k # Len(p)
                <5>1. k \in 2 .. Len(p) - 1 /\ k \in 1 .. Len(p) /\ k + 1 \in 1 .. Len(p)
                    BY <3>1, <3>2, <4>2
                <5> QED BY <3>1, <3>2, <5>1
            <4> QED BY <4>1, <4>2
        <3> QED BY <3>1, <3>3, <3>4, <3>5
    <2> QED BY <2>1, <2>2
<1> HIDE DEF q
<1>5. PathForm(Append(q, n))
    <2> DEFINE r == Append(q, n)
    <2>1. /\ r \in Seq(Tokens) /\ Len(r) = Len(q) + 1 /\ r[Len(q) + 1] = n
          /\ \A k \in 1 .. Len(q) : r[k] = q[k]
          /\ Len(q) \in Nat
        BY <1>1, <1>2
    <2> HIDE DEF r
    <2>2. Len(r) >= 1 /\ r[1] = "0:" /\ r[2] = "/" /\ r[Len(r)] # "/"
        BY <1>1, <1>4, <2>1
    <2>3. \A k \in 2 .. Len(r) : r[k] # "0:"
        BY <1>1, <1>4, <2>1
    <2>4. ASSUME NEW k \in 2 .. Len(r) - 1 PROVE r[k] = "/" <=> r[k + 1] # "/"
        <3>1. CASE k = Len(q)
            BY <1>1, <1>4, <2>1, <3>1
        <3>2. CASE k # Len(q)
            <4>1. k \in 2 .. Len(q) - 1 /\ k \in 1 .. Len(q) /\ k + 1 \in 1 .. Len(q)
                BY <2>1, <3>2
            <4> QED BY <1>4, <2>1, <4>1
        <3> QED BY <3>1, <3>2
    <2> QED BY <2>1, <2>2, <2>3, <2>4 DEF PathForm, r
<1>6. Resolve(Append(q, n)) = Append(Resolve(q), n)
    BY <1>1, <1>2, ResolveAppend
<1> QED BY <1>2, <1>3, <1>5, <1>6

\* The last separator of a path that ends in a name.
LEMMA LastSeparator ==
    ASSUME NEW p, PathForm(p), Len(p) > 2
    PROVE  /\ p[Len(p) - 1] = "/" /\ p[Len(p)] \in Names
           /\ LET seps == {k \in DOMAIN p : p[k] = "/"}
              IN  (CHOOSE k \in seps : \A j \in seps : j <= k) = Len(p) - 1
<1>1. /\ p \in Seq(Tokens) /\ Len(p) \in Nat /\ DOMAIN p = 1 .. Len(p)
      /\ p[Len(p)] # "/" /\ p[Len(p)] # "0:" /\ p[Len(p)] \in Tokens
    BY DEF PathForm
<1>2. Len(p) - 1 \in 2 .. Len(p) - 1 /\ (Len(p) - 1) + 1 = Len(p) /\ Len(p) - 1 \in 1 .. Len(p)
    BY <1>1
<1>3. p[Len(p) - 1] = "/"
    BY <1>1, <1>2 DEF PathForm
<1> DEFINE seps == {k \in DOMAIN p : p[k] = "/"}
<1>4. Len(p) - 1 \in seps /\ seps \subseteq Nat /\ \A k \in seps : k <= Len(p) - 1
    BY <1>1, <1>2, <1>3
<1> HIDE DEF seps
<1> DEFINE last == CHOOSE k \in seps : \A j \in seps : j <= k
<1>5. last \in seps /\ \A j \in seps : j <= last
    <2>1. \E k \in seps : \A j \in seps : j <= k
        BY <1>4
    <2> QED BY <2>1
<1> HIDE DEF last
<1>6. last = Len(p) - 1
    <2>1. last \in Nat /\ last <= Len(p) - 1 /\ Len(p) - 1 <= last
        BY <1>4, <1>5
    <2>2. Len(p) \in Nat
        BY <1>1
    <2> QED BY <2>1, <2>2
<1> QED BY <1>1, <1>3, <1>6 DEF Tokens, seps, last

\* explorer_go_up leads to the directory above, and in the root stays there.
LEMMA GoUpPath ==
    ASSUME NEW p, PathForm(p)
    PROVE  /\ PathForm(explorer_go_up(p))
           /\ Resolve(explorer_go_up(p)) =
                  IF Resolve(p) = << >> THEN << >> ELSE Front(Resolve(p))
<1>1. /\ p \in Seq(Tokens) /\ Len(p) >= 1 /\ p[1] = "0:" /\ Len(p) \in Nat
      /\ "/" \in Tokens /\ "0:" \in Tokens /\ "/" \notin Names /\ "0:" \notin Names
    BY ExplorerAssumption DEF PathForm, Tokens
<1> DEFINE root == <<"0:">>
<1>2. PathForm(root) /\ Resolve(root) = << >>
    BY <1>1, ResolveRoot DEF PathForm
<1>3. CASE Len(p) = 1
    <2>1. p = root
        BY <1>1, <1>3
    <2>2. explorer_go_up(p) = root
        BY <2>1 DEF explorer_go_up, Last
    <2> QED BY <1>2, <2>1, <2>2
<1>4. CASE Len(p) = 2
    <2>1. p[2] = "/" /\ Last(p) = "/" /\ p = Append(root, "/")
        BY <1>1, <1>4 DEF PathForm, Last
    <2>2. Front(p) = root /\ p # root
        <3>1. Len(p) - 1 = 1 /\ 1 \in 0 .. Len(p)
            BY <1>4
        <3>2. Len(Front(p)) = 1 /\ Front(p) \in Seq(Tokens) /\ Front(p)[1] = "0:"
            <4>1. SubSeq(p, 1, 1) \in Seq(Tokens) /\ Len(SubSeq(p, 1, 1)) = 1 /\ SubSeq(p, 1, 1)[1] = p[1]
                BY <1>1, <3>1, SubSeqIs
            <4>2. Front(p) = SubSeq(p, 1, 1)
                BY <3>1 DEF Front
            <4> QED BY <1>1, <4>1, <4>2
        <3>3. Len(root) = 1 /\ root[1] = "0:"
            OBVIOUS
        <3> QED BY <1>4, <3>2, <3>3
    <2>3. {k \in DOMAIN root : root[k] = "/"} = {}
        OBVIOUS
    <2>4. explorer_go_up(p) = root
        BY <2>1, <2>2, <2>3 DEF explorer_go_up
    <2>5. Resolve(p) = << >>
        BY <1>1, <1>2, <2>1, ResolveAppend DEF PathForm
    <2> QED BY <1>2, <2>4, <2>5
<1>5. CASE Len(p) > 2
    <2> DEFINE n == p[Len(p)]
               a == SubSeq(p, 1, Len(p) - 1)
               b == SubSeq(p, 1, Len(p) - 2)
               seps == {k \in DOMAIN p : p[k] = "/"}
               last == CHOOSE k \in seps : \A j \in seps : j <= k
    <2>1. /\ p[Len(p) - 1] = "/" /\ n \in Names
          /\ last = Len(p) - 1
        BY <1>5, LastSeparator
    <2> HIDE DEF last
    <2>2. Last(p) # "/" /\ p # root /\ seps # {}
        BY <1>1, <1>5, <2>1, ExplorerAssumption DEF Last
    <2>3. explorer_go_up(p) = IF Len(p) = 3 THEN SubSeq(p, 1, 2) ELSE b
        <3>1. explorer_go_up(p) = IF last = 2 THEN SubSeq(p, 1, 2) ELSE SubSeq(p, 1, last - 1)
            <4> HIDE <2>1
            <4> QED BY <2>2 DEF explorer_go_up, last
        <3>2. last - 1 = Len(p) - 2 /\ (last = 2 <=> Len(p) = 3)
            BY <1>1, <2>1
        <3> QED BY <3>1, <3>2
    <2>4. /\ a \in Seq(Tokens) /\ Len(a) = Len(p) - 1 /\ p = Append(a, n)
          /\ \A k \in 1 .. Len(p) - 1 : a[k] = p[k]
        BY <1>1, <1>5
    <2>5. /\ b \in Seq(Tokens) /\ Len(b) = Len(p) - 2 /\ a = Append(b, "/")
          /\ \A k \in 1 .. Len(p) - 2 : b[k] = p[k]
        BY <1>1, <1>5, <2>1
    <2> HIDE DEF a, b
    <2>6. Resolve(a) = Resolve(b) /\ Resolve(p) = Append(Resolve(b), n)
        <3>1. n \in Tokens
            BY <2>1 DEF Tokens
        <3> HIDE DEF n
        <3>2. Resolve(a) = Resolve(b)
            BY <1>1, <2>5, ResolveAppend
        <3>3. Resolve(p) = Append(Resolve(a), n)
            BY <2>1, <2>4, <3>1, ResolveAppend
        <3> QED BY <3>2, <3>3
    <2>7. Resolve(b) \in Seq(Names)
        BY <2>5, ResolveType
    <2>8. Resolve(p) # << >> /\ Front(Resolve(p)) = Resolve(b)
        BY <2>1, <2>6, <2>7 DEF Front
    <2>9. CASE Len(p) = 3
        <3>1. SubSeq(p, 1, 2) = a
            BY <2>9 DEF a
        <3>3. explorer_go_up(p) = a
            BY <2>3, <2>9, <3>1
        <3>2. PathForm(a)
            BY <1>1, <2>1, <2>4, <2>9 DEF PathForm
        <3> QED BY <2>6, <2>8, <3>2, <3>3
    <2>10. CASE Len(p) # 3
        <3>1. /\ Len(b) > 1 /\ b[1] = "0:" /\ b[2] = "/"
              /\ \A k \in 2 .. Len(b) : b[k] # "0:"
            BY <1>1, <1>5, <2>5, <2>10 DEF PathForm
        <3>2. \A k \in 2 .. Len(b) - 1 : b[k] = "/" <=> b[k + 1] # "/"
            <4> SUFFICES ASSUME NEW k \in 2 .. Len(b) - 1 PROVE b[k] = "/" <=> b[k + 1] # "/"
                OBVIOUS
            <4>1. k \in 2 .. Len(p) - 1 /\ k \in 1 .. Len(p) - 2 /\ k + 1 \in 1 .. Len(p) - 2
                BY <1>1, <1>5, <2>5
            <4>2. p[k] = "/" <=> p[k + 1] # "/"
                BY <4>1 DEF PathForm
            <4> QED BY <2>5, <4>1, <4>2
        <3>3. b[Len(b)] # "/"
            <4>1. Len(b) \in 2 .. Len(p) - 1 /\ Len(b) + 1 = Len(p) - 1 /\ Len(b) \in 1 .. Len(p) - 2
                BY <1>1, <1>5, <2>5, <2>10
            <4>2. p[Len(b)] = "/" <=> p[Len(b) + 1] # "/"
                BY <4>1 DEF PathForm
            <4> QED BY <2>1, <2>5, <4>1, <4>2
        <3>4. PathForm(b)
            BY <2>5, <3>1, <3>2, <3>3 DEF PathForm
        <3>5. explorer_go_up(p) = b
            BY <2>3, <2>10
        <3> QED BY <2>8, <3>4, <3>5
    <2> QED BY <2>9, <2>10
<1>6. Len(p) = 1 \/ Len(p) = 2 \/ Len(p) > 2
    <2>1. Len(p) \in Nat /\ Len(p) >= 1
        BY <1>1
    <2>2. \A m \in Nat : m >= 1 => m = 1 \/ m = 2 \/ m > 2
        OBVIOUS
    <2> QED BY <2>1, <2>2, Zenon
<1> QED BY <1>3, <1>4, <1>5, <1>6

-----------------------------------------------------------------------------
(* The invariant.                                                          *)

\* The entries listed are in directory d, as what they are listed as.
Listed(d) ==
    \A e \in items :
        /\ e.name \in Names /\ Append(d, e.name) \in DOMAIN tree
        /\ e.dir = (tree[Append(d, e.name)] = "dir")

ExplorerInv ==
    /\ Sound(tree) /\ PathForm(current_path) /\ IsDir(Resolve(current_path))
    /\ ~needs_refresh => Listed(Resolve(current_path))
    /\ context_menu = "item" \/ show_rename_dialog \/ show_delete_dialog =>
            target_item_name \in Names
    /\ op_input_buffer \in Inputs

\* What a step may do to the directory the explorer is in: nothing, or lead
\* one level up or down.
Walked ==
    LET d == Resolve(current_path)
        e == Resolve(current_path')
    IN  \/ d = << >> /\ e = << >>
        \/ d # << >> /\ e = Front(d)
        \/ e \in Children(d) /\ tree[e] = "dir"

\* The user walks on by the Up button or a click on a directory.
LEMMA WalkStep ==
    ASSUME ExplorerInv, [ExplorerNext]_explorerVars
    PROVE  \/ UNCHANGED current_path
           \/ PathForm(current_path') /\ Walked /\ UNCHANGED tree /\ needs_refresh'
<1> DEFINE d == Resolve(current_path)
<1>1. PathForm(current_path) /\ Sound(tree) /\ d \in Seq(Names)
    BY ResolveType DEF ExplorerInv, PathForm
<1>2. CASE UpButton
    <2>1. current_path' = explorer_go_up(current_path) /\ UNCHANGED tree /\ needs_refresh'
        BY <1>2 DEF UpButton
    <2>2. PathForm(current_path') /\ Resolve(current_path') = IF d = << >> THEN << >> ELSE Front(d)
        BY <1>1, <2>1, GoUpPath
    <2> QED BY <2>1, <2>2 DEF Walked
<1>3. CASE ItemButton
    <2>1. UNCHANGED tree /\ ~needs_refresh
        BY <1>3 DEF ItemButton, LeftClick, Shown
    <2>2. ASSUME NEW e \in items, e.dir, current_path' = Descend(current_path, e.name), needs_refresh'
          PROVE  PathForm(current_path') /\ Walked
        <3>1. e.name \in Names /\ Append(d, e.name) \in DOMAIN tree /\ tree[Append(d, e.name)] = "dir"
            BY <2>1, <2>2 DEF ExplorerInv, Listed
        <3>2. PathForm(current_path') /\ Resolve(current_path') = Append(d, e.name)
            BY <1>1, <2>2, <3>1, DescendPath
        <3>3. IsPrefix(d, Append(d, e.name)) /\ Len(Append(d, e.name)) = Len(d) + 1
            <4>1. /\ Append(d, e.name) \in Seq(Names) /\ Len(d) \in Nat
                  /\ Len(Append(d, e.name)) = Len(d) + 1
                  /\ \A i \in 1 .. Len(d) : Append(d, e.name)[i] = d[i]
                BY <1>1, <3>1
            <4>2. Len(d) <= Len(Append(d, e.name))
                BY <4>1
            <4> QED BY <1>1, <4>1, <4>2, PrefixIs
        <3> QED BY <3>1, <3>2, <3>3 DEF Walked, Children
    <2> QED BY <1>3, <2>1, <2>2 DEF ItemButton
<1>4. CASE ~UpButton /\ ~ItemButton
    BY <1>4 DEF ExplorerNext, ExplorerFrame, explorerVars, listing, LaunchExplorer,
        ExplorerTaskButton, OtherSaves, Refresh, RefreshButton, RightClick, CloseExplorer,
        ContextRename, ContextDelete, ContextNewFolder, TypeName, RenameOk, DeleteOk, MkdirOk,
        Cancel
<1> QED BY <1>2, <1>3, <1>4

\* Only saves and the OK of the dialogs change the volume: Rename and Delete
\* at the target's name in the directory shown, and then it is read again.
LEMMA TreeStep ==
    ASSUME ExplorerInv, [ExplorerNext]_explorerVars
    PROVE  \/ UNCHANGED tree
           \/ Grown
           \/ /\ needs_refresh' /\ UNCHANGED current_path /\ target_item_name \in Names
              /\ Spared(Append(Resolve(current_path), target_item_name))
<1> DEFINE d == Resolve(current_path)
           t == target_item_name
<1>1. PathForm(current_path) /\ Sound(tree) /\ IsDir(d) /\ d \in Seq(Names) /\ op_input_buffer \in Inputs
    BY ResolveType DEF ExplorerInv, PathForm
<1>2. ASSUME t \in Names
      PROVE  Append(d, t) \in Seq(Names)
             /\ Resolve(build_full_path(current_path, <<t>>)) = Append(d, t)
    <2>1. <<t>> \in Inputs /\ <<t>> # << >> /\ <<t>>[1] = t
        BY <1>2 DEF Inputs
    <2>2. Append(d, t) \in Seq(Names)
        BY <1>1, <1>2
    <2>3. Resolve(build_full_path(current_path, <<t>>)) = Append(d, <<t>>[1])
        <3> HIDE DEF t
        <3> QED BY <1>1, <2>1, FullPath
    <2> QED BY <2>1, <2>2, <2>3
<1>3. ASSUME Deleted, t \in Names
      PROVE  needs_refresh' /\ Spared(Append(d, t))
    BY <1>1, <1>2, <1>3, DeleteKeeps DEF Deleted
<1>4. CASE OtherSaves
    BY <1>1, <1>4, SavesKeep
<1>5. CASE MkdirOk
    <2>1. f_mkdir(Resolve(build_full_path(current_path, op_input_buffer)))
        BY <1>5 DEF MkdirOk, Made
    <2>2. Resolve(build_full_path(current_path, op_input_buffer)) \in Seq(Names)
        <3>1. op_input_buffer # << >> => op_input_buffer[1] \in Names
            BY <1>1 DEF Inputs
        <3> QED BY <1>1, <3>1, FullPath
    <2> QED BY <1>1, <2>1, <2>2, MkdirKeeps
<1>6. CASE RenameOk
    <2>1. /\ t \in Names /\ UNCHANGED current_path /\ needs_refresh'
          /\ f_rename(Resolve(build_full_path(current_path, <<t>>)),
                      Resolve(build_full_path(current_path, op_input_buffer)))
        BY <1>6 DEF RenameOk, Renamed, ExplorerInv
    <2>2. CASE op_input_buffer = << >>
        <3>1. f_rename(Append(d, t), d)
            BY <1>1, <1>2, <2>1, <2>2, FullPath
        <3>2. ~Free(d)
            BY <1>1 DEF Free, IsDir
        <3> QED BY <3>1, <3>2 DEF f_rename
    <2>3. ASSUME NEW n \in Names, op_input_buffer = <<n>>
          PROVE  Spared(Append(d, t))
        <3>1. op_input_buffer # << >> /\ op_input_buffer[1] = n
            BY <2>3
        <3>2. f_rename(Append(d, t), Append(d, n))
            BY <1>1, <1>2, <2>1, <3>1, FullPath
        <3> QED BY <1>1, <2>1, <3>2, RenameKeeps
    <2> QED BY <1>1, <2>1, <2>2, <2>3 DEF Inputs
<1>7. CASE DeleteOk
    <2>1. t \in Names /\ UNCHANGED current_path /\ Deleted
        BY <1>7 DEF DeleteOk, ExplorerInv
    <2> QED BY <1>3, <2>1
<1>8. CASE ContextDelete
    <2>1. t \in Names /\ UNCHANGED current_path /\ (Deleted \/ UNCHANGED tree)
        BY <1>8 DEF ContextDelete, ExplorerInv
    <2> QED BY <1>3, <2>1
<1>9. CASE ~OtherSaves /\ ~MkdirOk /\ ~RenameOk /\ ~DeleteOk /\ ~ContextDelete
    BY <1>9 DEF ExplorerNext, ExplorerFrame, explorerVars, LaunchExplorer,
        ExplorerTaskButton, Refresh, UpButton, RefreshButton, ItemButton, RightClick,
        CloseExplorer, ContextRename, ContextNewFolder, TypeName, Cancel
<1> QED BY <1>4, <1>5, <1>6, <1>7, <1>8, <1>9

\* A listing is up to date when it has just been read, or was before.
LEMMA ListingStep ==
    ASSUME ExplorerInv, [ExplorerNext]_explorerVars, ~needs_refresh'
    PROVE  \/ Refresh
           \/ ~needs_refresh /\ UNCHANGED <<items, current_path>>
<1>1. CASE Refresh
    BY <1>1
<1>2. CASE UNCHANGED explorerVars
    BY <1>2 DEF explorerVars, listing
<1>3. CASE LaunchExplorer \/ ExplorerTaskButton \/ OtherSaves
    BY <1>3 DEF LaunchExplorer, ExplorerTaskButton, OtherSaves, listing
<1>4. CASE UpButton \/ RefreshButton \/ ItemButton \/ RightClick \/ CloseExplorer
    BY <1>4 DEF UpButton, RefreshButton, ItemButton, RightClick, CloseExplorer, LeftClick, Shown,
        listing
<1>5. CASE ContextRename \/ ContextDelete \/ ContextNewFolder
    BY <1>5 DEF ContextRename, ContextDelete, ContextNewFolder, Deleted, Shown
<1>6. CASE TypeName \/ RenameOk \/ DeleteOk \/ MkdirOk \/ Cancel
    BY <1>6 DEF TypeName, RenameOk, DeleteOk, MkdirOk, Cancel, Renamed, Deleted, Made, LeftClick,
        Shown, listing
<1> QED BY <1>1, <1>2, <1>3, <1>4, <1>5, <1>6 DEF ExplorerNext, ExplorerFrame

\* The dialogs that name a target have one.
LEMMA TargetStep ==
    ASSUME ExplorerInv, [ExplorerNext]_explorerVars
    PROVE  /\ context_menu' = "item" \/ show_rename_dialog' \/ show_delete_dialog' =>
                  target_item_name' \in Names
           /\ op_input_buffer' \in Inputs
<1>1. /\ context_menu = "item" \/ show_rename_dialog \/ show_delete_dialog =>
             target_item_name \in Names
      /\ op_input_buffer \in Inputs
    BY DEF ExplorerInv
<1>2. CASE UNCHANGED explorerVars
    BY <1>1, <1>2 DEF explorerVars, prompts
<1>3. CASE LaunchExplorer \/ ExplorerTaskButton \/ OtherSaves \/ Refresh \/ CloseExplorer
    BY <1>1, <1>3 DEF LaunchExplorer, ExplorerTaskButton, OtherSaves, Refresh, CloseExplorer,
        prompts
<1>4. CASE UpButton \/ RefreshButton \/ ItemButton
    BY <1>1, <1>4 DEF UpButton, RefreshButton, ItemButton, LeftClick, prompts
<1>5. CASE RightClick
    <2>1. \A e \in items : e.name \in Names
        BY <1>5 DEF RightClick, Shown, ExplorerInv, Listed
    <2> QED BY <1>1, <1>5, <2>1 DEF RightClick, prompts
<1>6. CASE ContextRename
    <2>1. target_item_name \in Names /\ op_input_buffer' \in Inputs
        BY <1>1, <1>6 DEF ContextRename, Inputs
    <2> QED BY <1>1, <1>6, <2>1 DEF ContextRename
<1>7. CASE ContextDelete
    BY <1>1, <1>7 DEF ContextDelete, Deleted
<1>8. CASE ContextNewFolder
    BY <1>1, <1>8 DEF ContextNewFolder, Inputs
<1>9. CASE TypeName
    BY <1>1, <1>9 DEF TypeName, prompts
<1>10. CASE RenameOk \/ DeleteOk \/ MkdirOk \/ Cancel
    BY <1>1, <1>10 DEF RenameOk, DeleteOk, MkdirOk, Cancel, Renamed, Deleted, Made, LeftClick
<1> QED BY <1>2, <1>3, <1>4, <1>5, <1>6, <1>7, <1>8, <1>9, <1>10 DEF ExplorerNext, ExplorerFrame

\* The directory shown is not the object the dialogs remove, nor below it.
LEMMA PlaceStep ==
    ASSUME ExplorerInv, [ExplorerNext]_explorerVars
    PROVE  /\ Sound(tree') /\ PathForm(current_path')
           /\ LET e == Resolve(current_path')
              IN  e = << >> \/ (e \in DOMAIN tree' /\ tree'[e] = "dir")
<1> DEFINE d == Resolve(current_path)
           e == Resolve(current_path')
<1>1. /\ PathForm(current_path) /\ Sound(tree) /\ d \in Seq(Names)
      /\ d = << >> \/ (d \in DOMAIN tree /\ tree[d] = "dir")
    BY ResolveType DEF ExplorerInv, PathForm, IsDir
<1>2. CASE PathForm(current_path') /\ Walked /\ UNCHANGED tree
    <2>1. CASE d # << >> /\ e = Front(d)
        <3>1. Len(d) \in Nat /\ Len(d) >= 1 /\ e = SubSeq(d, 1, Len(d) - 1) /\ d \in DOMAIN tree
            BY <1>1, <2>1 DEF Front
        <3>2. CASE Len(d) = 1
            BY <1>1, <1>2, <3>1, <3>2
        <3>3. CASE Len(d) # 1
            <4>1. Len(d) - 1 \in 1 .. Len(d) - 1
                <5>1. Len(d) \in Nat /\ Len(d) >= 1
                    BY <3>1
                <5>2. \A m \in Nat : m >= 1 /\ m # 1 => m - 1 \in 1 .. m - 1
                    OBVIOUS
                <5> QED BY <5>1, <5>2, <3>3, Zenon
            <4> QED BY <1>1, <1>2, <3>1, <4>1 DEF Sound
        <3> QED BY <3>2, <3>3
    <2>2. CASE d = << >> /\ e = << >>
        BY <1>1, <1>2, <2>2
    <2>3. CASE e \in Children(d) /\ tree[e] = "dir"
        BY <1>1, <1>2, <2>3 DEF Children
    <2> QED BY <1>2, <2>1, <2>2, <2>3 DEF Walked
<1>3. CASE UNCHANGED current_path
    <2>1. CASE UNCHANGED tree
        BY <1>1, <1>3, <2>1
    <2>2. CASE Grown
        BY <1>1, <1>3, <2>2 DEF Grown
    <2>3. CASE target_item_name \in Names /\ Spared(Append(d, target_item_name))
        <3> DEFINE o == Append(d, target_item_name)
        <3>1. o \in Seq(Names) /\ Len(o) = Len(d) + 1 /\ Len(d) \in Nat
            BY <1>1, <2>3
        <3> HIDE DEF o
        <3>2. ~IsPrefix(o, d)
            BY <1>1, <3>1, PrefixIs
        <3> QED BY <1>1, <1>3, <2>3, <3>2 DEF Spared, o
    <2> QED BY <2>1, <2>2, <2>3, TreeStep
<1> QED BY <1>2, <1>3, WalkStep

\* What populate_directory lists is in the directory.
LEMMA RefreshLists ==
    ASSUME ExplorerInv, Refresh
    PROVE  Listed(Resolve(current_path))'
<1> DEFINE d == Resolve(current_path)
<1>1. Sound(tree) /\ d \in Seq(Names)
    BY ResolveType DEF ExplorerInv, PathForm
<1>2. UNCHANGED <<tree, current_path>> /\ items' \subseteq {Entry(c) : c \in Children(d)}
    BY DEF Refresh, populate_directory
<1>3. ASSUME NEW c \in Children(d)
      PROVE  Last(c) \in Names /\ Append(d, Last(c)) = c /\ c \in DOMAIN tree
    <2>1. c \in DOMAIN tree /\ c \in Seq(Names) /\ Len(c) = Len(d) + 1 /\ IsPrefix(d, c)
        BY <1>1 DEF Children, Sound
    <2>2. Len(d) \in Nat /\ Last(c) \in Names /\ Last(c) = c[Len(d) + 1]
        BY <1>1, <2>1 DEF Last
    <2>3. \A i \in 1 .. Len(d) : c[i] = d[i]
        BY <1>1, <2>1, PrefixIs
    <2>4. /\ Append(d, Last(c)) \in Seq(Names) /\ Len(Append(d, Last(c))) = Len(d) + 1
          /\ \A i \in 1 .. Len(d) : Append(d, Last(c))[i] = d[i]
          /\ Append(d, Last(c))[Len(d) + 1] = Last(c)
        BY <1>1, <2>2
    <2>5. \A i \in 1 .. Len(c) : Append(d, Last(c))[i] = c[i]
        <3> SUFFICES ASSUME NEW i \in 1 .. Len(c) PROVE Append(d, Last(c))[i] = c[i]
            OBVIOUS
        <3>1. CASE i \in 1 .. Len(d)
            BY <2>3, <2>4, <3>1
        <3>2. CASE i = Len(d) + 1
            BY <2>2, <2>4, <3>2
        <3>3. i \in 1 .. Len(d) \/ i = Len(d) + 1
            <4>1. Len(d) \in Nat /\ i \in 1 .. Len(d) + 1
                BY <2>1, <2>2
            <4> HIDE DEF d
            <4> QED BY <4>1
        <3> QED BY <3>1, <3>2, <3>3
    <2>6. Append(d, Last(c)) = c
        BY <2>1, <2>4, <2>5, SameSeq
    <2> QED BY <2>1, <2>2, <2>6
<1>4. ASSUME NEW e \in items'
      PROVE  /\ e.name \in Names /\ Append(d, e.name) \in DOMAIN tree
             /\ e.dir = (tree[Append(d, e.name)] = "dir")
    <2>1. PICK c \in Children(d) : e = Entry(c)
        BY <1>2
    <2>2. e.name = Last(c) /\ e.dir = (tree[c] = "dir")
        BY <2>1 DEF Entry
    <2> QED BY <1>3, <2>2
<1>5. Resolve(current_path') = d /\ tree' = tree
    BY <1>2
<1> QED BY <1>4, <1>5 DEF Listed

\* The invariant is kept by every step.
LEMMA ExplorerInvStep == ExplorerInv /\ [ExplorerNext]_explorerVars => ExplorerInv'
<1> SUFFICES ASSUME ExplorerInv, [ExplorerNext]_explorerVars PROVE ExplorerInv'
    OBVIOUS
<1>1. Sound(tree)' /\ PathForm(current_path)' /\ IsDir(Resolve(current_path))'
    BY PlaceStep DEF IsDir
<1>2. ASSUME ~needs_refresh' PROVE Listed(Resolve(current_path))'
    <2>1. CASE Refresh
        BY <2>1, RefreshLists
    <2>2. CASE ~needs_refresh /\ UNCHANGED <<items, current_path>>
        <3>1. Listed(Resolve(current_path)) /\ Resolve(current_path') = Resolve(current_path)
            BY <2>2 DEF ExplorerInv
        <3>2. UNCHANGED tree \/ Grown
            BY <1>2, TreeStep
        <3> QED BY <2>2, <3>1, <3>2 DEF Listed, Grown
    <2> QED BY <1>2, <2>1, <2>2, ListingStep
<1> QED BY <1>1, <1>2, TargetStep DEF ExplorerInv

\* It holds when the machine has booted.
LEMMA ExplorerInvInit == ExplorerInit => ExplorerInv
<1> SUFFICES ASSUME ExplorerInit PROVE ExplorerInv
    OBVIOUS
<1>1. Sound(tree)
    BY ExplorerAssumption DEF ExplorerInit
<1>2. PathForm(current_path) /\ Resolve(current_path) = << >>
    BY ResolveRoot DEF ExplorerInit, PathForm, Tokens
<1> QED BY <1>1, <1>2 DEF ExplorerInit, ExplorerInv, IsDir, Inputs

\* The explorer never leaves the volume, and what a user can click in an
\* up-to-date window of render_file_explorer is what the volume holds, though
\* the dialogs are not modal and other applications write.
THEOREM AlwaysShowsVolume == ExplorerSpec => []ShowsVolume
<1>1. ExplorerInv => ShowsVolume
    BY DEF ExplorerInv, ShowsVolume, Listed
<1> QED BY <1>1, ExplorerInvInit, ExplorerInvStep, PTL DEF ExplorerSpec

\* explorer_go_up and the click on a directory move current_path one level.
THEOREM AlwaysWalksTree == ExplorerSpec => WalksTree
<1>1. ASSUME ExplorerInv, [ExplorerNext]_explorerVars, current_path' # current_path
      PROVE  Walked
    BY <1>1, WalkStep
<1>2. ExplorerInv /\ [ExplorerNext]_explorerVars =>
        [ LET d == Resolve(current_path)
              e == Resolve(current_path')
          IN  current_path' # current_path =>
                  \/ d = << >> /\ e = << >>
                  \/ d # << >> /\ e = Front(d)
                  \/ e \in Children(d) /\ tree[e] = "dir" ]_explorerVars
    BY <1>1 DEF Walked
<1> QED BY <1>2, ExplorerInvInit, ExplorerInvStep, PTL DEF ExplorerSpec, WalksTree

\* empty_and_delete_dir and f_rename, as the dialogs call them, take nothing
\* off the volume but what is at or below the target in the directory shown.
THEOREM NothingElseEverLost == ExplorerSpec => NothingElseLost
<1>1. ASSUME ExplorerInv, [ExplorerNext]_explorerVars, NEW c \in DOMAIN tree \ DOMAIN tree'
      PROVE  IsPrefix(Append(Resolve(current_path), target_item_name), c) /\ needs_refresh'
    BY <1>1, TreeStep DEF Grown, Spared
<1>2. ExplorerInv /\ [ExplorerNext]_explorerVars =>
        [ \A c \in DOMAIN tree \ DOMAIN tree' :
            /\ IsPrefix(Append(Resolve(current_path), target_item_name), c)
            /\ needs_refresh' ]_explorerVars
    BY <1>1
<1> QED BY <1>2, ExplorerInvInit, ExplorerInvStep, PTL DEF ExplorerSpec, NothingElseLost

=============================================================================
