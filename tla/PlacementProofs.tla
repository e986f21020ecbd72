-------------------------- MODULE PlacementProofs ---------------------------
(***************************************************************************)
(* Proofs about Placement: the manifest names what is meant, what was on   *)
(* the receiver's disk stays, and every file arrives.                      *)
(***************************************************************************)
EXTENDS Placement, FiniteSetTheorems, WellFoundedInduction, TLAPS

Name == UNION {{<<base>> \o numbers : numbers \in Seq(Nat)} : base \in DOMAIN Fold}
Path == Seq(Name)

-----------------------------------------------------------------------------
(* Names and paths.                                                        *)

LEMMA NamesBy ==
  ASSUME NEW base \in DOMAIN Fold, NEW numbers \in Seq(Nat)
  PROVE  <<base>> \o numbers \in Name
BY DEF Name

\* A path that is one is a sequence of names.
LEMMA PathsAreTyped ==
  ASSUME NEW path, IsPath(path)
  PROVE  path \in Path
<1>1. \A k \in DOMAIN path : path[k] \in Name
  BY NamesBy DEF IsPath, IsName
<1>2. path \in Seq(ToSet(path))
  BY DEF IsPath
<1>3. ToSet(path) \subseteq Name
  BY <1>1 DEF ToSet
<1> QED BY <1>2, <1>3 DEF Path

\* Appending a number to a name gives a name.
LEMMA NumberedName ==
  ASSUME NEW name \in Name, NEW n \in Nat
  PROVE  /\ Append(name, n) \in Name
         /\ \A m \in Nat : Append(name, m) = Append(name, n) => m = n
         /\ \A f : \A m \in Nat :
              <<f>> \o Tail(Append(name, m)) = <<f>> \o Tail(Append(name, n)) => m = n
<1>1. PICK base \in DOMAIN Fold, numbers \in Seq(Nat) : name = <<base>> \o numbers
  BY DEF Name
<1>2. \A b, q : q \in Seq(Nat) =>
        \A k \in Nat : Append(<<b>> \o q, k) = <<b>> \o Append(q, k)
  OBVIOUS
<1>3. \A k \in Nat : Append(numbers, k) \in Seq(Nat)
  OBVIOUS
<1>4. \A k \in Nat : Append(name, k) = <<base>> \o Append(numbers, k)
  BY <1>1, <1>2
<1>5. \A b, q : q \in Seq(Nat) => Tail(<<b>> \o q) = q
  OBVIOUS
<1>6. \A k \in Nat : Tail(Append(name, k)) = Append(numbers, k)
  BY <1>3, <1>4, <1>5
<1>9. Append(name, n) \in Name
  BY <1>3, <1>4, NamesBy
<1>7. \A k, m \in Nat : Append(numbers, k) = Append(numbers, m) => k = m
  OBVIOUS
<1>8. \A f : \A k \in Nat : Tail(<<f>> \o Append(numbers, k)) = Append(numbers, k)
  BY <1>3, <1>5
<1>10. \A m \in Nat : Append(name, m) = Append(name, n) => m = n
  BY <1>6, <1>7
<1>11. ASSUME NEW f, NEW m \in Nat,
              <<f>> \o Tail(Append(name, m)) = <<f>> \o Tail(Append(name, n))
       PROVE  m = n
  <2>1. <<f>> \o Append(numbers, m) = <<f>> \o Append(numbers, n)
    BY <1>6, <1>11
  <2>2. Append(numbers, m) = Append(numbers, n)
    BY <2>1, <1>8
  <2> QED BY <1>7, <2>2
<1> QED BY <1>9, <1>10, <1>11

-----------------------------------------------------------------------------
(* Facts about sets, functions and sequences.                              *)

\* A nonempty set of numbers has a least one.
LEMMA LeastOf ==
  ASSUME NEW S \in SUBSET Nat, S # {}
  PROVE  Min(S) \in S /\ \A y \in S : Min(S) <= y
<1>1. PICK x \in S : \A y \in S : ~ (<<y, x>> \in OpToRel(<, Nat))
  BY NatLessThanWellFounded, WFMin
<1>2. \A y \in S : x <= y
  <2> SUFFICES ASSUME NEW y \in S, ~ (x <= y)
               PROVE  FALSE
    OBVIOUS
  <2>1. y < x /\ x \in Nat /\ y \in Nat
    OBVIOUS
  <2>2. <<y, x>> \in OpToRel(<, Nat)
    BY <2>1 DEF OpToRel
  <2> QED BY <1>1, <2>2
<1> QED BY <1>2 DEF Min

\* What a function makes of a finite set is finite.
LEMMA FiniteImage ==
  ASSUME NEW f, IsFiniteSet(DOMAIN f)
  PROVE  IsFiniteSet({f[x] : x \in DOMAIN f})
<1> DEFINE T == {f[x] : x \in DOMAIN f}
           g == [x \in DOMAIN f |-> f[x]]
<1>1. g \in Surjection(DOMAIN f, T)
  BY DEF Surjection
<1> HIDE DEF T, g
<1>2. IsFiniteSet(T)
  BY <1>1, FS_Surjection
<1> QED BY <1>2 DEF T

\* SetToSeq lists a finite set, each of its elements once.
LEMMA ListsTheSet ==
  ASSUME NEW S, IsFiniteSet(S)
  PROVE  /\ SetToSeq(S) \in Seq(S)
         /\ Len(SetToSeq(S)) = Cardinality(S)
         /\ ToSet(SetToSeq(S)) = S
<1>1. Cardinality(S) \in Nat /\ ExistsBijection(1 .. Cardinality(S), S)
  BY FS_CardinalityType
<1>2. PICK b \in Bijection(1 .. Cardinality(S), S) : TRUE
  BY <1>1 DEF ExistsBijection
<1>3. b \in [1 .. Cardinality(S) -> S] /\ IsInjective(b)
  BY <1>2 DEF Bijection, Injection, IsInjective
<1> DEFINE f == SetToSeq(S)
<1>4. f \in [1 .. Cardinality(S) -> S] /\ IsInjective(f)
  BY <1>3 DEF SetToSeq
<1> HIDE DEF f
<1>5. f \in Seq(S) /\ Len(f) = Cardinality(S)
  BY <1>1, <1>4
<1>6. f \in Injection(1 .. Cardinality(S), S)
  BY <1>4 DEF Injection, IsInjective
<1>7. IsFiniteSet(1 .. Cardinality(S)) /\ Cardinality(1 .. Cardinality(S)) = Cardinality(S)
  BY <1>1, FS_Interval
<1>8. f \in Surjection(1 .. Cardinality(S), S)
  BY <1>6, <1>7, FS_Injection
<1>9. ToSet(f) = S
  BY <1>8, <1>4 DEF Surjection, ToSet
<1> QED BY <1>5, <1>9 DEF f

\* A sequence written as a function is one.
LEMMA ListedSeq ==
  ASSUME NEW n \in Nat, NEW s, DOMAIN s = 1 .. n, s = [k \in 1 .. n |-> s[k]]
  PROVE  s \in Seq({s[k] : k \in 1 .. n}) /\ Len(s) = n
<1> DEFINE S == {s[k] : k \in 1 .. n}
<1>1. s \in [1 .. n -> S]
  OBVIOUS
<1> HIDE DEF S
<1>2. s \in Seq(S) /\ Len(s) = n
  BY <1>1
<1> QED BY <1>2 DEF S

\* What Place does to a path: it keeps the number of its names.
LEMMA PlaceKeepsLength ==
  ASSUME NEW path \in Path
  PROVE  /\ Len(Place(path)) = Len(path)
         /\ \A k \in 1 .. Len(path) :
              Place(path)[k] = IF CaseBlind THEN <<Fold[Base(path[k])]>> \o Tail(path[k])
                               ELSE path[k]
<1>1. Len(path) \in Nat /\ DOMAIN path = 1 .. Len(path)
  BY DEF Path
<1>2. CASE CaseBlind
  <2> DEFINE s == [k \in 1 .. Len(path) |-> <<Fold[Base(path[k])]>> \o Tail(path[k])]
  <2>1. Place(path) = s
    BY <1>1, <1>2 DEF Place, Folded
  <2>2. DOMAIN s = 1 .. Len(path) /\ s = [k \in 1 .. Len(path) |-> s[k]]
    OBVIOUS
  <2>3. Len(s) = Len(path)
    <3> HIDE DEF s
    <3> QED BY <1>1, <2>2, ListedSeq
  <2> QED BY <1>2, <2>1, <2>3
<1>3. CASE ~CaseBlind
  BY <1>3 DEF Place
<1> QED BY <1>2, <1>3

-----------------------------------------------------------------------------
(* The manifest.                                                           *)

\* Front, as a prefix.
LEMMA FrontOf ==
  ASSUME NEW path \in Path, path # <<>>
  PROVE  /\ Front(path) \in Path /\ Len(Front(path)) = Len(path) - 1
         /\ IsPrefix(Front(path), path)
         /\ Last(path) \in Name
<1>1. \A S : \A q \in Seq(S) : q # <<>> =>
        /\ Len(q) - 1 \in Nat /\ Len(q) - 1 <= Len(q)
        /\ q[Len(q)] \in S
  OBVIOUS
<1>2. \A S : \A q \in Seq(S) : \A n \in Nat : n <= Len(q) =>
        SubSeq(q, 1, n) \in Seq(S) /\ Len(SubSeq(q, 1, n)) = n
  OBVIOUS
<1>3. \A S : \A q \in Seq(S) : SubSeq(q, 1, Len(q)) = q
  OBVIOUS
<1>4. Len(path) - 1 \in Nat /\ Len(path) - 1 <= Len(path) /\ path[Len(path)] \in Name
  BY <1>1 DEF Path
<1>5. Front(path) \in Path /\ Len(Front(path)) = Len(path) - 1
  BY <1>2, <1>4 DEF Path, Front
<1>6. SubSeq(Front(path), 1, Len(Front(path))) = Front(path)
  BY <1>3, <1>5 DEF Path
<1>7. SubSeq(path, 1, Len(Front(path))) = Front(path)
  BY <1>5 DEF Front
<1> QED BY <1>4, <1>5, <1>6, <1>7 DEF Last, IsPrefix

\* The longest common prefix of some paths is a prefix of each.
LEMMA LongestIsCommon ==
  ASSUME NEW S \in SUBSET Path, S # {}
  PROVE  /\ LongestCommonPrefix(S) \in Path
         /\ \A path \in S : IsPrefix(LongestCommonPrefix(S), path)
<1> DEFINE C == CommonPrefixes(S)
<1>1. PICK first \in S : TRUE
  OBVIOUS
<1>2. \A q \in C : q \in Path /\ \A path \in S : IsPrefix(q, path)
  <2> SUFFICES ASSUME NEW q \in C
               PROVE  q \in Path /\ \A path \in S : IsPrefix(q, path)
    OBVIOUS
  <2>1. PICK path \in S : q \in Prefixes(path)
    BY DEF CommonPrefixes
  <2>2. \A T : \A p \in Seq(T) : \A l \in 0 .. Len(p) : SubSeq(p, 1, l) \in Seq(T)
    OBVIOUS
  <2>3. q \in Path
    BY <2>1, <2>2 DEF Prefixes, Path
  <2> QED BY <2>3 DEF CommonPrefixes
<1>3. <<>> \in C
  <2>1. \A T : \A p \in Seq(T) :
          SubSeq(p, 1, 0) = <<>> /\ 0 \in 0 .. Len(p) /\ Len(<<>>) <= Len(p) /\ Len(<<>>) = 0
    OBVIOUS
  <2>2. <<>> \in Prefixes(first)
    BY <1>1, <2>1 DEF Path, Prefixes
  <2>3. \A p \in Path : IsPrefix(<<>>, p)
    BY <2>1 DEF Path, IsPrefix
  <2> QED BY <1>1, <2>2, <2>3 DEF CommonPrefixes
<1> HIDE DEF C
<1>4. \A q \in C : Len(q) \in Nat /\ Len(q) <= Len(first)
  BY <1>1, <1>2 DEF IsPrefix, Path
<1>5. Len(first) \in Nat
  BY <1>1 DEF Path
<1> DEFINE D == {n \in Nat : \E q \in C : n = Len(first) - Len(q)}
<1>6. D \in SUBSET Nat
  OBVIOUS
<1>7. D # {}
  BY <1>3, <1>4, <1>5
<1>8. PICK n \in D : \A m \in D : n <= m
  <2> HIDE DEF D
  <2> QED BY <1>6, <1>7, LeastOf
<1>9. PICK longest \in C : n = Len(first) - Len(longest)
  BY <1>8
<1>10. \A other \in C : Len(other) <= Len(longest)
  <2> SUFFICES ASSUME NEW other \in C
               PROVE  Len(other) <= Len(longest)
    OBVIOUS
  <2>1. Len(first) - Len(other) \in D
    BY <1>4, <1>5
  <2>2. n <= Len(first) - Len(other)
    BY <2>1, <1>8
  <2> QED BY <2>2, <1>4, <1>5, <1>9
<1>11. LongestCommonPrefix(S) \in C
  BY <1>9, <1>10 DEF LongestCommonPrefix, C
<1> QED BY <1>2, <1>11

\* What is left of a path behind a prefix, and that the two make the path.
LEMMA PrefixAndRest ==
  ASSUME NEW root \in Path, NEW path \in Path
  PROVE  /\ RelFrom(root, path) \in Path
         /\ IsPrefix(root, path) => root \o RelFrom(root, path) = path
<1>1. \A S : \A q \in Seq(S) : \A n \in Nat : SubSeq(q, n + 1, Len(q)) \in Seq(S)
  OBVIOUS
<1>2. \A S : \A r, q \in Seq(S) :
        Len(r) <= Len(q) /\ SubSeq(r, 1, Len(r)) = SubSeq(q, 1, Len(r))
          => r \o SubSeq(q, Len(r) + 1, Len(q)) = q
  <2> SUFFICES ASSUME NEW S, NEW r \in Seq(S), NEW q \in Seq(S),
                      Len(r) <= Len(q), SubSeq(r, 1, Len(r)) = SubSeq(q, 1, Len(r))
               PROVE  r \o SubSeq(q, Len(r) + 1, Len(q)) = q
    OBVIOUS
  <2>1. \A k \in 1 .. Len(r) : r[k] = q[k]
    <3>1. \A k \in 1 .. Len(r) : SubSeq(r, 1, Len(r))[k] = r[k]
      OBVIOUS
    <3>2. \A k \in 1 .. Len(r) : SubSeq(q, 1, Len(r))[k] = q[k]
      OBVIOUS
    <3> QED BY <3>1, <3>2
  <2> QED BY <2>1
<1> QED BY <1>1, <1>2 DEF RelFrom, IsPrefix, Path

LEMMA PrefixOfPrefix ==
  ASSUME NEW p \in Path, NEW q \in Path, NEW r \in Path, IsPrefix(p, q), IsPrefix(q, r)
  PROVE  IsPrefix(p, r)
<1>1. Len(p) \in Nat /\ Len(q) \in Nat /\ Len(r) \in Nat
  BY DEF Path
<1>2. \A S : \A s \in Seq(S) : \A n \in Nat : n <= Len(s) =>
        /\ SubSeq(s, 1, n) \in Seq(S) /\ Len(SubSeq(s, 1, n)) = n
        /\ \A k \in 1 .. n : SubSeq(s, 1, n)[k] = s[k]
  OBVIOUS
<1>3. \A k \in 1 .. Len(q) : q[k] = r[k]
  BY <1>1, <1>2 DEF IsPrefix, Path
<1>4. \A k \in 1 .. Len(p) : p[k] = q[k]
  BY <1>1, <1>2 DEF IsPrefix, Path
<1>5. Len(p) <= Len(q) /\ Len(q) <= Len(r)
  BY DEF IsPrefix
<1>6. \A k \in 1 .. Len(p) : p[k] = r[k]
  BY <1>1, <1>3, <1>4, <1>5
<1>7. Len(p) <= Len(r)
  BY <1>1, <1>5
<1>8. \A S : \A s, t \in Seq(S) :
        Len(s) <= Len(t) /\ (\A k \in 1 .. Len(s) : s[k] = t[k])
          => SubSeq(s, 1, Len(s)) = SubSeq(t, 1, Len(s))
  OBVIOUS
<1> QED BY <1>6, <1>7, <1>8 DEF IsPrefix, Path

\* Every file that is found lies below the root of the transfer.
LEMMA FoundBelowRoot ==
  ASSUME NEW tree, NEW inputs, IsTree(tree), AreInputs(inputs), ~Refused(tree, inputs)
  PROVE  /\ SourceRoot(tree, inputs) \in Path
         /\ \A source \in Sources(tree, inputs) :
              source[2] \in Path /\ IsPrefix(SourceRoot(tree, inputs), source[2])
<1> DEFINE root == SourceRoot(tree, inputs)
<1>1. Len(inputs) \in Nat /\ DOMAIN inputs = 1 .. Len(inputs) /\ inputs # <<>>
  BY DEF AreInputs, Refused
<1>2. \A k \in DOMAIN inputs :
        inputs[k].at \in Path /\ inputs[k].at \in DOMAIN tree /\ inputs[k].at # <<>>
  BY PathsAreTyped DEF AreInputs, Refused
<1>3. \A k \in DOMAIN inputs : Canonical(tree, inputs[k].at) \in Path
  BY <1>2, PathsAreTyped DEF Canonical, IsTree
<1>4. root \in Path
      /\ \A k \in DOMAIN inputs : tree[inputs[k].at].kind # "link" => IsPrefix(root, inputs[k].at)
  <2>1. CASE SingleInput(inputs)
    <3>1. 1 \in DOMAIN inputs /\ DOMAIN inputs = {1}
      BY <1>1, <2>1 DEF SingleInput
    <3>2. root = Front(inputs[1].at)
      BY <2>1 DEF SourceRoot
    <3> QED BY <3>1, <3>2, <1>2, FrontOf
  <2>2. CASE ~SingleInput(inputs)
    <3> DEFINE S == {Canonical(tree, inputs[k].at) : k \in DOMAIN inputs}
    <3>1. S \in SUBSET Path
      BY <1>3
    <3>2. 1 \in DOMAIN inputs
      BY <1>1
    <3>3. S # {}
      BY <3>2
    <3>4. root = LongestCommonPrefix(S)
      BY <2>2 DEF SourceRoot
    <3>5. \A k \in DOMAIN inputs : Canonical(tree, inputs[k].at) \in S
      OBVIOUS
    <3> HIDE DEF S
    <3>6. root \in Path /\ \A path \in S : IsPrefix(root, path)
      BY <3>1, <3>3, <3>4, LongestIsCommon
    <3> QED BY <3>5, <3>6 DEF Canonical
  <2> QED BY <2>1, <2>2
<1> HIDE DEF root
<1>5. ASSUME NEW source \in Sources(tree, inputs)
      PROVE  source[2] \in Path /\ IsPrefix(root, source[2])
  <2>0. PICK k \in DOMAIN inputs : \E path \in Walk(tree, inputs[k].at) : source = <<k, path>>
    BY DEF Sources
  <2>1. PICK path \in Walk(tree, inputs[k].at) : source = <<k, path>>
    BY <2>0
  <2>2. /\ path \in DOMAIN tree /\ tree[path].kind = "file"
        /\ IsPrefix(inputs[k].at, path)
    BY DEF Walk
  <2>3. path \in Path
    BY <2>2, PathsAreTyped DEF IsTree
  <2>4. tree[inputs[k].at].kind # "link"
    <3> SUFFICES ASSUME tree[inputs[k].at].kind = "link"
                 PROVE  FALSE
      OBVIOUS
    <3>1. path = inputs[k].at
      BY <1>2, <2>2 DEF IsTree
    <3> QED BY <2>2, <3>1
  <2>5. IsPrefix(root, path)
    BY <1>2, <1>4, <2>2, <2>3, <2>4, PrefixOfPrefix
  <2> QED BY <2>1, <2>3, <2>5
<1> QED BY <1>4, <1>5 DEF root

LEMMA SourcesAreFinite ==
  ASSUME NEW tree, NEW inputs, IsTree(tree), AreInputs(inputs)
  PROVE  IsFiniteSet(Sources(tree, inputs))
<1> DEFINE Under(k) == {<<k, path>> : path \in Walk(tree, inputs[k].at)}
           T == {Under(k) : k \in DOMAIN inputs}
           all == [k \in DOMAIN inputs |-> Under(k)]
<1>1. Sources(tree, inputs) = UNION T
  BY DEF Sources
<1>2. IsFiniteSet(DOMAIN inputs)
  <2>1. Len(inputs) \in Nat /\ DOMAIN inputs = 1 .. Len(inputs)
    BY DEF AreInputs
  <2> QED BY <2>1, FS_Interval
<1>3. \A k : IsFiniteSet(Under(k))
  <2> TAKE k
  <2> DEFINE W == Walk(tree, inputs[k].at)
             f == [path \in W |-> <<k, path>>]
  <2>1. IsFiniteSet(W)
    BY FS_Subset DEF Walk, IsTree
  <2>2. IsFiniteSet({f[path] : path \in DOMAIN f})
    BY <2>1, FiniteImage
  <2>3. {f[path] : path \in DOMAIN f} = Under(k)
    OBVIOUS
  <2> QED BY <2>2, <2>3
<1> HIDE DEF Under
<1>4. IsFiniteSet({all[k] : k \in DOMAIN all})
  <2>1. DOMAIN all = DOMAIN inputs
    OBVIOUS
  <2> HIDE DEF all
  <2> QED BY <1>2, <2>1, FiniteImage
<1>5. {all[k] : k \in DOMAIN all} = T
  OBVIOUS
<1>6. \A t \in T : IsFiniteSet(t)
  BY <1>3
<1>7. IsFiniteSet(T)
  BY <1>4, <1>5
<1> HIDE DEF T
<1> QED BY <1>1, <1>6, <1>7, FS_UNION

\* The rel_paths of everything that is found.
Rels(tree, inputs) ==
  {RelFrom(SourceRoot(tree, inputs), source[2]) : source \in Sources(tree, inputs)}

\* What build_with_filters returns when it does not fail.
LEMMA WhatIsBuilt ==
  ASSUME NEW tree, NEW inputs, NEW filters, IsTree(tree), AreInputs(inputs),
         NEW built, built = BuildWithFilters(tree, inputs, filters), built # NoManifest
  PROVE  /\ ~Refused(tree, inputs)
         /\ built \in Seq(Path)
         /\ ToSet(built) = {rel \in Rels(tree, inputs) : Kept(filters, rel)}
         /\ Len(built) = Cardinality({rel \in Rels(tree, inputs) : Kept(filters, rel)})
         /\ IsFiniteSet(Rels(tree, inputs))
<1> DEFINE root == SourceRoot(tree, inputs)
           rels == [s \in Sources(tree, inputs) |-> RelFrom(root, s[2])]
           whole == Build(tree, inputs)
           K == {rel \in ToSet(whole) : Kept(filters, rel)}
<1>1. built = SetToSeq(K)
  BY DEF BuildWithFilters
<1>2. IsFiniteSet(Rels(tree, inputs)) /\ Rels(tree, inputs) = {rels[s] : s \in DOMAIN rels}
  <2>1. IsFiniteSet(DOMAIN rels)
    BY SourcesAreFinite
  <2>2. IsFiniteSet({rels[s] : s \in DOMAIN rels})
    <3> HIDE DEF rels
    <3> QED BY <2>1, FiniteImage
  <2>3. Rels(tree, inputs) = {rels[s] : s \in DOMAIN rels}
    BY DEF Rels
  <2> QED BY <2>2, <2>3
<1>3. whole # NoManifest
  <2> SUFFICES ASSUME whole = NoManifest
               PROVE  FALSE
    OBVIOUS
  <2>1. ToSet(NoManifest) = {}
    BY DEF ToSet, NoManifest
  <2>2. K = {}
    BY <2>1
  <2>3. SetToSeq({}) = <<>>
    <3>1. Len(SetToSeq({})) = 0 /\ SetToSeq({}) \in Seq({})
      BY ListsTheSet, FS_EmptySet
    <3> QED BY <3>1
  <2> HIDE DEF K
  <2> QED BY <1>1, <2>2, <2>3 DEF NoManifest
<1>4. ~Refused(tree, inputs) /\ whole = SetToSeq({rels[s] : s \in DOMAIN rels})
  BY <1>3 DEF Build
<1>5. ToSet(whole) = Rels(tree, inputs)
  BY <1>2, <1>4, ListsTheSet
<1>6. K = {rel \in Rels(tree, inputs) : Kept(filters, rel)}
  BY <1>5
<1>7. IsFiniteSet(K)
  BY <1>2, <1>6, FS_Subset
<1>8. Rels(tree, inputs) \subseteq Path
  BY <1>4, FoundBelowRoot, PrefixAndRest DEF Rels
<1>9. built \in Seq(K) /\ ToSet(built) = K /\ Len(built) = Cardinality(K)
  <2> HIDE DEF K
  <2> QED BY <1>1, <1>7, ListsTheSet
<1>10. K \subseteq Path
  BY <1>6, <1>8
<1>11. built \in Seq(Path)
  <2> HIDE DEF K
  <2> QED BY <1>9, <1>10
<1> HIDE DEF K
<1> QED BY <1>2, <1>4, <1>6, <1>9, <1>11

-----------------------------------------------------------------------------
(* The manifest and the send command's own way back to the sources name    *)
(* the files that are meant.                                               *)

\* Once it is built, the manifest is what the command line makes of the tree.
AsBuilt ==
  /\ send \in Sends
  /\ outcome \in {"building", "refused", "running", "failed", "done"}
  /\ Built => /\ manifest = BuildWithFilters(send.tree, send.inputs, send.filters)
              /\ manifest # NoManifest

LEMMA StaysAsBuilt == Spec => []AsBuilt
<1>1. Init => AsBuilt
  BY DEF Init, AsBuilt, Built
<1>2. AsBuilt /\ [Next]_vars => AsBuilt'
  <2> SUFFICES ASSUME AsBuilt, [Next]_vars
               PROVE  AsBuilt'
    OBVIOUS
  <2> USE DEF AsBuilt, Built
  <2>1. CASE Builds
    BY <2>1 DEF Builds, given
  <2>2. CASE Cut
    BY <2>2 DEF Cut, Fails, given
  <2>3. CASE Completes
    BY <2>3 DEF Completes, given
  <2>4. CASE UNCHANGED vars
    BY <2>4 DEF vars, given
  <2>5. ASSUME NEW c \in Conn, Resolves(c)
        PROVE  AsBuilt'
    BY <2>5 DEF Resolves, given
  <2>6. ASSUME NEW c \in Conn, ResolveFails(c) \/ OpenFails(c)
        PROVE  AsBuilt'
    BY <2>6 DEF ResolveFails, OpenFails, Fails, given
  <2>7. ASSUME NEW c \in Conn, Opens(c) \/ Verifies(c)
        PROVE  AsBuilt'
    BY <2>7 DEF Opens, Verifies, given
  <2> QED BY <2>1, <2>2, <2>3, <2>4, <2>5, <2>6, <2>7 DEF Next, Ended
<1> QED BY <1>1, <1>2, PTL DEF Spec

\* The files the manifest stands for are those the user meant, each of them
\* once: build_with_filters and the send command's reconstruction of the paths
\* it opens agree, whatever is named and however the inputs overlap.
THEOREM SourcesAreAsMeant == Spec => []SourcesAreMeant
<1>1. AsBuilt => SourcesAreMeant
  <2> SUFFICES ASSUME AsBuilt, Built
               PROVE  /\ {SourceOf(send.tree, send.inputs, manifest[k]) : k \in DOMAIN manifest}
                           = Meant
                      /\ Len(manifest) = Cardinality(Meant)
    BY DEF SourcesAreMeant
  <2> DEFINE root == SourceRoot(send.tree, send.inputs)
             R == Rels(send.tree, send.inputs)
             K == {rel \in R : Kept(send.filters, rel)}
             all == {source[2] : source \in Sources(send.tree, send.inputs)}
             f == [rel \in K |-> root \o rel]
  <2>1. IsTree(send.tree) /\ AreInputs(send.inputs)
    BY PlacementAssumption DEF AsBuilt
  <2>2. /\ manifest = BuildWithFilters(send.tree, send.inputs, send.filters)
        /\ manifest # NoManifest
    BY DEF AsBuilt
  <2>3. /\ ~Refused(send.tree, send.inputs) /\ manifest \in Seq(Path)
        /\ ToSet(manifest) = K /\ Len(manifest) = Cardinality(K) /\ IsFiniteSet(R)
    BY <2>1, <2>2, WhatIsBuilt
  <2>4. root \in Path /\ \A path \in all : path \in Path /\ IsPrefix(root, path)
    BY <2>1, <2>3, FoundBelowRoot
  <2>5. \A path \in all : root \o RelFrom(root, path) = path
    BY <2>4, PrefixAndRest
  <2>6. Meant = {path \in all : Kept(send.filters, RelFrom(root, path))}
    <3> DEFINE U == UNION {Files(send.inputs[k]) : k \in DOMAIN send.inputs}
    <3>2. ASSUME NEW path \in U
          PROVE  path \in all
      <4>1. PICK k \in DOMAIN send.inputs : path \in Walk(send.tree, send.inputs[k].at)
        BY DEF Files
      <4>2. <<k, path>> \in Sources(send.tree, send.inputs)
        BY <4>1 DEF Sources
      <4> QED BY <4>2
    <3>3. ASSUME NEW path \in all
          PROVE  path \in U
      <4>1. PICK source \in Sources(send.tree, send.inputs) : path = source[2]
        OBVIOUS
      <4>2. PICK k \in DOMAIN send.inputs :
              source \in {<<k, p>> : p \in Walk(send.tree, send.inputs[k].at)}
        BY <4>1 DEF Sources
      <4>3. path \in Walk(send.tree, send.inputs[k].at)
        BY <4>1, <4>2
      <4> QED BY <4>3 DEF Files
    <3> HIDE DEF all
    <3>1. UNION {Files(send.inputs[k]) : k \in DOMAIN send.inputs} = all
      BY <3>2, <3>3
    <3> QED BY <3>1 DEF Meant
  <2>7. K = {RelFrom(root, path) : path \in Meant}
    <3>1. R = {RelFrom(root, path) : path \in all}
      BY DEF Rels
    <3> QED BY <3>1, <2>6
  <2>8. \A path \in Meant : root \o RelFrom(root, path) = path
    BY <2>5, <2>6
  <2>9. Meant = {root \o rel : rel \in K}
    <3> HIDE DEF K, root
    <3> QED BY <2>7, <2>8
  <2>10. {SourceOf(send.tree, send.inputs, manifest[k]) : k \in DOMAIN manifest} = Meant
    <3>1. {SourceOf(send.tree, send.inputs, manifest[k]) : k \in DOMAIN manifest}
            = {root \o rel : rel \in ToSet(manifest)}
      BY DEF SourceOf, ToSet
    <3> QED BY <2>3, <2>9, <3>1
  <2>11. Cardinality(Meant) = Cardinality(K)
    <3>1. IsFiniteSet(K)
      BY <2>3, FS_Subset
    <3>2. \A rel \in K : RelFrom(root, root \o rel) = rel
      BY <2>7, <2>8
    <3> HIDE DEF K, root
    <3>5. /\ f \in [K -> Meant] /\ \A path \in Meant : \E rel \in K : f[rel] = path
      BY <2>9
    <3>6. \A rel, other \in K : f[rel] = f[other] => rel = other
      BY <3>2
    <3> HIDE DEF f
    <3>3. f \in Bijection(K, Meant)
      BY <3>5, <3>6 DEF Bijection, Injection, Surjection, IsInjective
    <3>4. ExistsBijection(K, Meant)
      BY <3>3 DEF ExistsBijection
    <3> QED BY <3>1, <3>4, FS_Bijection
  <2> QED BY <2>3, <2>10, <2>11
<1> QED BY <1>1, StaysAsBuilt, PTL

-----------------------------------------------------------------------------
(* Disks and destinations.                                                 *)

\* A parent of a path is a shorter path, and there are finitely many of them.
LEMMA ParentsAreShorter ==
  ASSUME NEW path \in Path
  PROVE  /\ \A dir \in Parents(path) : dir \in Path /\ Len(dir) < Len(path)
         /\ IsFiniteSet(Parents(path))
<1> DEFINE f == [n \in 0 .. Len(path) - 1 |-> SubSeq(path, 1, n)]
<1>1. Len(path) \in Nat
  BY DEF Path
<1>2. \A S : \A q \in Seq(S) : \A n \in 0 .. Len(q) - 1 :
        SubSeq(q, 1, n) \in Seq(S) /\ Len(SubSeq(q, 1, n)) = n /\ n < Len(q)
  OBVIOUS
<1>3. \A dir \in Parents(path) : dir \in Path /\ Len(dir) < Len(path)
  <2> SUFFICES ASSUME NEW n \in 0 .. Len(path) - 1
               PROVE  /\ SubSeq(path, 1, n) \in Path
                      /\ Len(SubSeq(path, 1, n)) < Len(path)
    BY DEF Parents
  <2> QED BY <1>2 DEF Path
<1>4. IsFiniteSet(DOMAIN f)
  BY <1>1, FS_Interval
<1>5. Parents(path) = {f[n] : n \in DOMAIN f}
  BY DEF Parents
<1> HIDE DEF f
<1>6. IsFiniteSet(Parents(path))
  BY <1>4, <1>5, FiniteImage
<1> QED BY <1>3, <1>6

\* The places of the members of a finite set.
LEMMA FinitelyManyPlaces ==
  ASSUME NEW S, IsFiniteSet(S)
  PROVE  IsFiniteSet({Place(path) : path \in S})
<1> DEFINE f == [path \in S |-> Place(path)]
<1>1. IsFiniteSet(DOMAIN f) /\ {Place(path) : path \in S} = {f[x] : x \in DOMAIN f}
  OBVIOUS
<1> HIDE DEF f
<1> QED BY <1>1, FiniteImage

\* The directories that the destinations need are finitely many.
LEMMA NeededAreFinite ==
  ASSUME NEW dests \in Seq(Path)
  PROVE  IsFiniteSet({Place(dir) : dir \in NeededDirs(dests)})
<1> DEFINE f == [k \in DOMAIN dests |-> Parents(dests[k])]
           T == {f[k] : k \in DOMAIN f}
<1>1. IsFiniteSet(DOMAIN f)
  <2>1. Len(dests) \in Nat /\ DOMAIN dests = 1 .. Len(dests)
    OBVIOUS
  <2> QED BY <2>1, FS_Interval
<1>2. \A t \in T : IsFiniteSet(t)
  BY ParentsAreShorter
<1>3. NeededDirs(dests) = UNION T
  BY DEF NeededDirs
<1>4. IsFiniteSet(T)
  <2> HIDE DEF f
  <2> QED BY <1>1, FiniteImage
<1> HIDE DEF T
<1>5. IsFiniteSet(NeededDirs(dests))
  BY <1>2, <1>3, <1>4, FS_UNION
<1> QED BY <1>5, FinitelyManyPlaces

\* A numbered sibling is as long as the path, and differs from the others.
LEMMA SiblingsDiffer ==
  ASSUME NEW path \in Path, path # <<>>, NEW n \in Nat
  PROVE  /\ Sibling(path, n) \in Path /\ Len(Sibling(path, n)) = Len(path)
         /\ \A m \in Nat : Place(Sibling(path, m)) = Place(Sibling(path, n)) => m = n
<1>1. /\ Front(path) \in Path /\ Len(Front(path)) = Len(path) - 1
      /\ Last(path) \in Name
  BY FrontOf
<1>2. \A S : \A q \in Seq(S) : \A x \in S :
        /\ Append(q, x) \in Seq(S) /\ Len(Append(q, x)) = Len(q) + 1
        /\ Append(q, x)[Len(q) + 1] = x
  OBVIOUS
<1>3. Len(path) \in Nat
  BY DEF Path
<1>4. \A k \in Nat : Append(Last(path), k) \in Name
  BY <1>1, NumberedName
<1>5. \A k \in Nat : /\ Sibling(path, k) \in Path
                     /\ Len(Sibling(path, k)) = Len(path)
                     /\ Sibling(path, k)[Len(path)] = Append(Last(path), k)
  <2> TAKE k \in Nat
  <2>1. /\ Append(Front(path), Append(Last(path), k)) \in Path
        /\ Len(Append(Front(path), Append(Last(path), k))) = Len(Front(path)) + 1
        /\ Append(Front(path), Append(Last(path), k))[Len(Front(path)) + 1]
             = Append(Last(path), k)
    BY <1>1, <1>2, <1>4 DEF Path
  <2> QED BY <1>1, <1>3, <2>1 DEF Sibling
<1>6. ASSUME NEW m \in Nat, Place(Sibling(path, m)) = Place(Sibling(path, n))
      PROVE  m = n
  <2> DEFINE At(k) == Append(Last(path), k)
  <2>1. Len(path) \in 1 .. Len(path)
    BY <1>3 DEF Path
  <2>2. \A k \in Nat : Place(Sibling(path, k))[Len(path)]
                         = IF CaseBlind THEN <<Fold[Base(At(k))]>> \o Tail(At(k)) ELSE At(k)
    <3> TAKE k \in Nat
    <3> DEFINE s == Sibling(path, k)
    <3>1. s \in Path /\ Len(path) \in 1 .. Len(s) /\ s[Len(path)] = At(k)
      BY <1>5, <2>1
    <3> HIDE DEF s, At
    <3>2. Place(s)[Len(path)] = IF CaseBlind THEN <<Fold[Base(s[Len(path)])]>> \o Tail(s[Len(path)])
                                ELSE s[Len(path)]
      BY <3>1, PlaceKeepsLength
    <3> QED BY <3>1, <3>2 DEF s
  <2>3. \A k \in Nat : Base(At(k)) = Base(At(n))
    <3>1. PICK base \in DOMAIN Fold, numbers \in Seq(Nat) : Last(path) = <<base>> \o numbers
      BY <1>1 DEF Name
    <3>2. \A b, q, k : q \in Seq(Nat) /\ k \in Nat => Append(<<b>> \o q, k)[1] = b
      OBVIOUS
    <3> QED BY <3>1, <3>2 DEF Base
  <2>4. CASE CaseBlind
    <3>1. <<Fold[Base(At(n))]>> \o Tail(At(m)) = <<Fold[Base(At(n))]>> \o Tail(At(n))
      BY <1>6, <2>2, <2>3, <2>4
    <3> QED BY <1>1, <3>1, NumberedName
  <2>5. CASE ~CaseBlind
    <3>1. At(m) = At(n)
      BY <1>6, <2>2, <2>5
    <3> QED BY <1>1, <3>1, NumberedName
  <2> QED BY <2>4, <2>5
<1> QED BY <1>5, <1>6

\* next_available_path finds a name nobody has: on a finite disk one of the
\* numbers it tries is free.
LEMMA AvailableIsFree ==
  ASSUME NEW d, IsFiniteSet(DOMAIN d), NEW path \in Path, path # <<>>
  PROVE  /\ NextAvailable(d, path) \in Path
         /\ Len(NextAvailable(d, path)) = Len(path)
         /\ ~Exists(d, NextAvailable(d, path))
         /\ \/ NextAvailable(d, path) = path
            \/ \E n \in Nat : NextAvailable(d, path) = Sibling(path, n)
<1>1. CASE ~Exists(d, path)
  BY <1>1 DEF NextAvailable
<1>2. CASE Exists(d, path)
  <2> DEFINE N == 1 .. Cardinality(DOMAIN d) + 1
             free == {n \in N : ~Exists(d, Sibling(path, n))}
             f == [n \in N |-> Place(Sibling(path, n))]
  <2>1. Cardinality(DOMAIN d) \in Nat
    BY FS_CardinalityType
  <2>2. IsFiniteSet(N) /\ Cardinality(N) = Cardinality(DOMAIN d) + 1
    BY <2>1, FS_Interval
  <2>3. free # {}
    <3> SUFFICES ASSUME free = {}
                 PROVE  FALSE
      OBVIOUS
    <3>1. \A n \in N : Place(Sibling(path, n)) \in DOMAIN d
      BY DEF Exists
    <3>2. f \in [N -> DOMAIN d]
      BY <3>1
    <3>3. \A m, n \in N : f[m] = f[n] => m = n
      BY <2>1, SiblingsDiffer
    <3> HIDE DEF f, N, free
    <3>4. \E m, n \in N : m # n /\ f[m] = f[n]
      BY <2>1, <2>2, <3>2, FS_PigeonHole
    <3> QED BY <3>3, <3>4
  <2>4. free \in SUBSET Nat
    OBVIOUS
  <2>5. Min(free) \in free
    <3> HIDE DEF free
    <3> QED BY <2>3, <2>4, LeastOf
  <2>6. NextAvailable(d, path) = Sibling(path, Min(free))
    BY <1>2 DEF NextAvailable
  <2>7. Min(free) \in Nat /\ ~Exists(d, Sibling(path, Min(free)))
    BY <2>5
  <2> HIDE DEF free
  <2> QED BY <2>6, <2>7, SiblingsDiffer
<1> QED BY <1>1, <1>2

\* Before the transfer the disk has the files, as they are, and the
\* receiver's directory.
LEMMA FirstDiskHas ==
  ASSUME found \in Founds
  PROVE  /\ IsFiniteSet(DOMAIN FirstDisk)
         /\ \A file \in found : /\ Place(file) \in DOMAIN FirstDisk
                                /\ FirstDisk[Place(file)].kind = "old"
         /\ IsDir(FirstDisk, <<>>)
<1> DEFINE dirs == {<<>>} \cup UNION {{Place(dir) : dir \in Parents(path)} : path \in found}
           files == {Place(file) : file \in found}
           f == [path \in found |-> {Place(dir) : dir \in Parents(path)}]
           T == {f[path] : path \in DOMAIN f}
<1>1. /\ IsFiniteSet(found)
      /\ \A file \in found : file \in Path /\ file # <<>>
      /\ \A file, other \in found : \A dir \in Parents(other) : Place(file) # Place(dir)
  BY PlacementAssumption, PathsAreTyped DEF AreFiles
<1>2. FirstDisk = [path \in files \cup dirs |->
                    [kind |-> IF path \in dirs THEN "dir" ELSE "old", of |-> 0]]
  BY DEF FirstDisk
<1>3. \A path \in found : IsFiniteSet(f[path])
  BY <1>1, ParentsAreShorter, FinitelyManyPlaces
<1>4. IsFiniteSet(T)
  <2>1. DOMAIN f = found
    OBVIOUS
  <2> HIDE DEF f
  <2> QED BY <1>1, <2>1, FiniteImage
<1>5. \A t \in T : IsFiniteSet(t)
  <2>1. DOMAIN f = found
    OBVIOUS
  <2> HIDE DEF f
  <2> QED BY <1>3, <2>1
<1>6. dirs = {<<>>} \cup UNION T
  OBVIOUS
<1>7. IsFiniteSet(dirs)
  <2> HIDE DEF T, dirs
  <2>1. IsFiniteSet(UNION T)
    BY <1>4, <1>5, FS_UNION
  <2> QED BY <1>6, <2>1, FS_Singleton, FS_Union
<1>8. IsFiniteSet(files)
  BY <1>1, FinitelyManyPlaces
<1>9. IsFiniteSet(DOMAIN FirstDisk)
  <2> HIDE DEF files, dirs
  <2> QED BY <1>2, <1>7, <1>8, FS_Union
<1>10. Place(<<>>) = <<>>
  <2>1. <<>> \in Path /\ Len(<<>>) = 0
    BY DEF Path
  <2> QED BY <2>1 DEF Place, Folded
<1>11. \A file \in found : Place(file) \notin dirs
  <2> SUFFICES ASSUME NEW file \in found
               PROVE  Place(file) \notin dirs
    OBVIOUS
  <2>1. Len(Place(file)) = Len(file) /\ Len(file) # 0
    BY <1>1, PlaceKeepsLength DEF Path
  <2>2. Place(file) # <<>>
    BY <2>1
  <2>3. \A path \in found : Place(file) \notin {Place(dir) : dir \in Parents(path)}
    BY <1>1
  <2> QED BY <2>2, <2>3
<1> QED
  <2>1. <<>> \in dirs /\ \A file \in found : Place(file) \in files
    OBVIOUS
  <2> HIDE DEF files, dirs
  <2> QED BY <1>2, <1>9, <1>10, <1>11, <2>1 DEF IsDir, Exists

\* Where `--out` sends the files, on any disk.
LEMMA WhereTheyGo ==
  ASSUME NEW d, NEW rels \in Seq(Path), NEW o \in Path, NEW slash,
         \A k \in DOMAIN rels : rels[k] # <<>>
  PROVE  /\ DestinationPaths(d, rels, o, slash) \in Seq(Path)
         /\ DOMAIN DestinationPaths(d, rels, o, slash) = DOMAIN rels
         /\ \A k \in DOMAIN rels :
              IF OutIsName(d, rels, o, slash)
              THEN Len(DestinationPaths(d, rels, o, slash)[k]) = Len(o)
              ELSE Len(DestinationPaths(d, rels, o, slash)[k]) > Len(o)
<1> DEFINE dests == DestinationPaths(d, rels, o, slash)
           isName == OutIsName(d, rels, o, slash)
<1>1. Len(rels) \in Nat /\ DOMAIN rels = 1 .. Len(rels)
  OBVIOUS
<1>2. dests = [k \in DOMAIN rels |-> IF isName THEN o ELSE o \o rels[k]]
  BY DEF DestinationPaths
<1> HIDE DEF isName
<1>3. \A S : \A p, q \in Seq(S) : q # <<>> => p \o q \in Seq(S) /\ Len(p \o q) > Len(p)
  OBVIOUS
<1>4. \A k \in DOMAIN rels : o \o rels[k] \in Path /\ Len(o \o rels[k]) > Len(o)
  <2>1. \A k \in DOMAIN rels : rels[k] \in Path
    OBVIOUS
  <2> QED BY <1>3, <2>1 DEF Path
<1>5. \A k \in DOMAIN rels : dests[k] \in Path
  BY <1>2, <1>4
<1>6. dests \in [1 .. Len(rels) -> Path]
  BY <1>1, <1>2, <1>5
<1> HIDE DEF dests
<1>7. dests \in Seq(Path)
  BY <1>1, <1>6
<1> QED BY <1>2, <1>4, <1>7 DEF dests, isName

\* Reading `--out` gives the same answer on a disk that has more, if what is
\* new there at its place is a directory just when it is not a name.
LEMMA OutReadAlike ==
  ASSUME NEW d, NEW more, NEW rels, NEW o, NEW slash, NEW isName \in BOOLEAN,
         OutIsName(d, rels, o, slash) <=> isName,
         Exists(d, o) => Exists(more, o) /\ (IsDir(more, o) <=> IsDir(d, o)),
         ~Exists(d, o) /\ Exists(more, o) => (IsDir(more, o) <=> ~isName)
  PROVE  OutIsName(more, rels, o, slash) <=> isName
<1>1. ~Exists(d, o) => ~IsDir(d, o)
  BY DEF IsDir
<1>2. ~Exists(more, o) => ~IsDir(more, o)
  BY DEF IsDir
<1> QED BY <1>1, <1>2 DEF OutIsName

-----------------------------------------------------------------------------
(* What was on the disk stays.                                             *)

\* What `--out` means, and where the files go, on the disk as it was.
NamedByOut == OutIsName(FirstDisk, manifest, out.path, out.slash)
Planned(k) == DestinationPaths(FirstDisk, manifest, out.path, out.slash)[k]

OldPlaces == {Place(file) : file \in found}

\* A destination is as long as the planned one must be.
LongEnough(path) ==
  path \in Path /\ IF NamedByOut THEN Len(path) = Len(out.path) ELSE Len(path) > Len(out.path)

\* What a connection is about to write is an old file only under a policy that
\* replaces it, and only where the command line said.
Aimed(c) ==
  conn[c].pc # "resolve" =>
    /\ conn[c].left \subseteq DOMAIN manifest
    /\ conn[c].pc = "open" => conn[c].left # {}
    /\ \A k \in conn[c].left :
         /\ LongEnough(conn[c].dests[k])
         /\ Place(conn[c].dests[k]) \in OldPlaces =>
              policy \in {"resume", "overwrite"} /\ conn[c].dests[k] = Planned(k)

Record == [pc : {"resolve", "write", "open"}, dests : Seq(Path), left : SUBSET Nat]

\* The inductive invariant: the disk only grows, and what it gets at the place
\* of `--out` never makes a later attempt read `--out` in another way.
Keeping ==
  /\ out \in Outs /\ policy \in Policies /\ found \in Founds
  /\ conn \in [Conn -> Record]
  /\ outcome = "building" => disk = FirstDisk /\ \A c \in Conn : conn[c].pc = "resolve"
  /\ IsFiniteSet(DOMAIN disk)
  /\ OutIsName(disk, manifest, out.path, out.slash) <=> NamedByOut
  /\ OldPlaces \subseteq DOMAIN disk
  /\ OldKept
  /\ \A c \in Conn : Aimed(c)

\* All of it is about the command line, the manifest, and a connection.
LEMMA AimStays ==
  ASSUME UNCHANGED <<given, manifest>>, NEW c, Aimed(c), conn'[c] = conn[c]
  PROVE  Aimed(c)'
BY DEF Aimed, LongEnough, NamedByOut, OldPlaces, Planned, FirstDisk, given

LEMMA PlanStays ==
  ASSUME UNCHANGED <<given, manifest>>
  PROVE  /\ NamedByOut' = NamedByOut /\ OldPlaces' = OldPlaces /\ FirstDisk' = FirstDisk
         /\ \A k : Planned(k)' = Planned(k)
BY DEF NamedByOut, OldPlaces, Planned, FirstDisk, given

\* A planned destination is long enough, and none is the receiver's directory.
LEMMA PlansAreLong ==
  ASSUME Keeping, manifest \in Seq(Path), ValidManifest(manifest)
  PROVE  /\ out.path \in Path
         /\ DestinationPaths(disk, manifest, out.path, out.slash)
              = DestinationPaths(FirstDisk, manifest, out.path, out.slash)
         /\ DestinationPaths(disk, manifest, out.path, out.slash) \in Seq(Path)
         /\ DOMAIN DestinationPaths(disk, manifest, out.path, out.slash) = DOMAIN manifest
         /\ \A k \in DOMAIN manifest : LongEnough(Planned(k)) /\ Planned(k) # <<>>
<1>1. out.path \in Path
  BY PlacementAssumption, PathsAreTyped DEF Keeping
<1>2. \A k \in DOMAIN manifest : manifest[k] # <<>>
  BY DEF ValidManifest, ValidRel
<1>3. /\ DestinationPaths(FirstDisk, manifest, out.path, out.slash) \in Seq(Path)
      /\ DOMAIN DestinationPaths(FirstDisk, manifest, out.path, out.slash) = DOMAIN manifest
      /\ \A k \in DOMAIN manifest :
           IF NamedByOut THEN Len(Planned(k)) = Len(out.path)
           ELSE Len(Planned(k)) > Len(out.path)
  BY <1>1, <1>2, WhereTheyGo DEF NamedByOut, Planned
<1>4. DestinationPaths(disk, manifest, out.path, out.slash)
        = DestinationPaths(FirstDisk, manifest, out.path, out.slash)
  BY DEF DestinationPaths, Keeping, NamedByOut
<1>5. \A k \in DOMAIN manifest : LongEnough(Planned(k))
  BY <1>3 DEF LongEnough, Planned
<1>6. NamedByOut => out.path # <<>>
  BY FirstDiskHas DEF NamedByOut, OutIsName, Keeping
<1>7. \A k \in DOMAIN manifest : Planned(k) # <<>>
  <2>1. \A path \in Path : Len(path) \in Nat /\ (Len(path) = 0 <=> path = <<>>)
    BY DEF Path
  <2> QED BY <1>1, <1>5, <1>6, <2>1 DEF LongEnough
<1> QED BY <1>1, <1>3, <1>4, <1>5, <1>7

LEMMA KeepingAtFirst == Init => Keeping
<1> SUFFICES ASSUME Init
             PROVE  Keeping
  OBVIOUS
<1>1. out \in Outs /\ policy \in Policies /\ found \in Founds /\ disk = FirstDisk
  BY DEF Init
<1>2. conn \in [Conn -> Record] /\ \A c \in Conn : conn[c].pc = "resolve"
  BY DEF Init, Idle, Record
<1>3. IsFiniteSet(DOMAIN disk) /\ OldPlaces \subseteq DOMAIN disk /\ OldKept
  BY <1>1, FirstDiskHas DEF OldPlaces, OldKept
<1> QED BY <1>1, <1>2, <1>3 DEF Keeping, NamedByOut, Aimed

\* The parents are made: the disk grows by directories, none of them at the
\* place of a name.
LEMMA DirsAreAdded ==
  ASSUME Keeping, NEW dests \in Seq(Path),
         \A k \in DOMAIN dests : LongEnough(dests[k])
  PROVE  /\ IsFiniteSet(DOMAIN WithDirs(disk, dests))
         /\ DOMAIN disk \subseteq DOMAIN WithDirs(disk, dests)
         /\ \A place \in DOMAIN disk : WithDirs(disk, dests)[place] = disk[place]
         /\ OutIsName(WithDirs(disk, dests), manifest, out.path, out.slash) <=> NamedByOut
<1> DEFINE dirs == {Place(dir) : dir \in NeededDirs(dests)}
           more == WithDirs(disk, dests)
<1>1. more = [path \in DOMAIN disk \cup dirs |->
               IF path \in DOMAIN disk THEN disk[path] ELSE [kind |-> "dir", of |-> 0]]
  BY DEF WithDirs
<1>2. IsFiniteSet(dirs) /\ IsFiniteSet(DOMAIN disk)
  BY NeededAreFinite DEF Keeping
<1>3. out.path \in Path
  BY PlacementAssumption, PathsAreTyped DEF Keeping
<1>4. NamedByOut => Place(out.path) \notin dirs
  <2> SUFFICES ASSUME NamedByOut, NEW dir \in NeededDirs(dests), Place(out.path) = Place(dir)
               PROVE  FALSE
    OBVIOUS
  <2>1. PICK k \in DOMAIN dests : dir \in Parents(dests[k])
    BY DEF NeededDirs
  <2>2. dests[k] \in Path /\ Len(dests[k]) = Len(out.path)
    BY DEF LongEnough
  <2>3. dir \in Path /\ Len(dir) < Len(out.path)
    BY <2>1, <2>2, ParentsAreShorter
  <2>4. Len(Place(dir)) = Len(dir) /\ Len(Place(out.path)) = Len(out.path)
    BY <1>3, <2>3, PlaceKeepsLength
  <2>5. Len(dir) \in Nat /\ Len(out.path) \in Nat
    BY <1>3, <2>3 DEF Path
  <2> QED BY <2>3, <2>4, <2>5
<1> HIDE DEF dirs, more
<1>5. DOMAIN more = DOMAIN disk \cup dirs
      /\ \A place \in DOMAIN disk : more[place] = disk[place]
  BY <1>1
<1>12. ASSUME NEW place \in dirs, place \notin DOMAIN disk
       PROVE  more[place].kind = "dir"
  BY <1>1, <1>12
<1>6. IsFiniteSet(DOMAIN more)
  BY <1>2, <1>5, FS_Union
<1>7. Exists(disk, out.path) =>
        Exists(more, out.path) /\ (IsDir(more, out.path) <=> IsDir(disk, out.path))
  BY <1>5 DEF Exists, IsDir
<1>8. ~Exists(disk, out.path) /\ Exists(more, out.path)
        => (IsDir(more, out.path) <=> ~NamedByOut)
  <2> SUFFICES ASSUME ~Exists(disk, out.path), Exists(more, out.path)
               PROVE  IsDir(more, out.path) /\ ~NamedByOut
    OBVIOUS
  <2>1. Place(out.path) \in dirs /\ Place(out.path) \notin DOMAIN disk
    BY <1>5 DEF Exists
  <2>3. more[Place(out.path)].kind = "dir"
    BY <1>12, <2>1
  <2> QED BY <1>4, <2>1, <2>3 DEF Exists, IsDir
<1>9. NamedByOut \in BOOLEAN
  BY DEF NamedByOut, OutIsName
<1>10. OutIsName(disk, manifest, out.path, out.slash) <=> NamedByOut
  BY DEF Keeping
<1>11. OutIsName(more, manifest, out.path, out.slash) <=> NamedByOut
  <2> HIDE DEF NamedByOut
  <2> QED BY <1>7, <1>8, <1>9, <1>10, OutReadAlike
<1> QED BY <1>5, <1>6, <1>11 DEF more

\* A connection finds its places: those that exist are left out under `skip`,
\* none exists under `fail` and `rename`.
LEMMA ResolvingAims ==
  ASSUME Keeping, manifest \in Seq(Path), NEW c \in Conn, CanResolve,
         NEW dests, dests = Destinations(disk, manifest, out.path, out.slash, policy),
         NEW left, left = Shard(c) \ Skipped(dests)
  PROVE  /\ dests \in Seq(Path)
         /\ DOMAIN dests = DOMAIN manifest
         /\ left \subseteq DOMAIN manifest
         /\ \A k \in DOMAIN manifest : LongEnough(dests[k])
         /\ \A k \in left : Place(dests[k]) \in OldPlaces =>
              policy \in {"resume", "overwrite"} /\ dests[k] = Planned(k)
<1> DEFINE plan == DestinationPaths(disk, manifest, out.path, out.slash)
<1>1. ValidManifest(manifest) /\ ~Conflict
  BY DEF CanResolve, Resolvable
<1>2. /\ plan \in Seq(Path) /\ DOMAIN plan = DOMAIN manifest
      /\ \A k \in DOMAIN manifest :
           /\ plan[k] = Planned(k) /\ plan[k] # <<>> /\ LongEnough(plan[k])
           /\ plan[k] \in Path
  BY <1>1, PlansAreLong DEF Planned, LongEnough
<1> HIDE DEF plan
<1>3. left \subseteq DOMAIN manifest
  BY DEF Shard
<1>4. IsFiniteSet(DOMAIN disk) /\ OldPlaces \subseteq DOMAIN disk
      /\ policy \in {"resume", "overwrite", "skip", "rename", "fail"}
  BY PlacementAssumption DEF Keeping
<1>5. CASE policy = "rename"
  <2> DEFINE made == WithDirs(disk, plan)
  <2>1. dests = [k \in DOMAIN plan |-> NextAvailable(made, plan[k])]
    BY <1>5 DEF Destinations, plan
  <2>7. IsFiniteSet(DOMAIN made) /\ DOMAIN disk \subseteq DOMAIN made
    BY <1>2, DirsAreAdded
  <2> HIDE DEF made
  <2>2. \A k \in DOMAIN manifest :
          /\ dests[k] \in Path /\ Len(dests[k]) = Len(plan[k]) /\ ~Exists(disk, dests[k])
    <3>1. \A k \in DOMAIN manifest :
            /\ dests[k] \in Path /\ Len(dests[k]) = Len(plan[k]) /\ ~Exists(made, dests[k])
      BY <1>2, <2>1, <2>7, AvailableIsFree
    <3> QED BY <2>7, <3>1 DEF Exists
  <2>3. Len(plan) \in Nat /\ DOMAIN plan = 1 .. Len(plan)
    BY <1>2
  <2>4. dests \in [1 .. Len(plan) -> Path]
    BY <1>2, <2>1, <2>2, <2>3
  <2>5. dests \in Seq(Path)
    BY <2>3, <2>4
  <2>6. \A k \in DOMAIN manifest : LongEnough(dests[k]) /\ Place(dests[k]) \notin OldPlaces
    BY <1>2, <1>4, <2>2 DEF LongEnough, Exists
  <2> QED BY <1>2, <1>3, <2>1, <2>5, <2>6
<1>6. CASE policy # "rename"
  <2>1. dests = plan
    BY <1>6 DEF Destinations, plan
  <2>2. ASSUME policy = "skip", NEW k \in left
        PROVE  Place(dests[k]) \notin OldPlaces
    <3>1. ~Exists(WithDirs(disk, dests), dests[k])
      BY <1>2, <1>3, <2>1, <2>2 DEF Skipped
    <3>2. DOMAIN disk \subseteq DOMAIN WithDirs(disk, dests)
      BY <1>2, <2>1, DirsAreAdded
    <3>3. ~Exists(disk, dests[k])
      BY <3>1, <3>2 DEF Exists
    <3> QED BY <1>4, <3>3 DEF Exists
  <2>3. ASSUME policy = "fail", NEW k \in left
        PROVE  Place(dests[k]) \notin OldPlaces
    <3> DEFINE there == {j \in DOMAIN plan :
                          Exists(disk, plan[j]) \/ Blocked(disk, Parents(plan[j]))}
    <3>1. ~ (Cardinality(there) > 0)
      BY <1>1, <2>3 DEF Conflict, ExistingConflicts, plan
    <3>2. IsFiniteSet(DOMAIN plan)
      <4>1. Len(plan) \in Nat /\ DOMAIN plan = 1 .. Len(plan)
        BY <1>2
      <4> QED BY <4>1, FS_Interval
    <3>3. IsFiniteSet(there)
      BY <3>2, FS_Subset
    <3>4. there = {}
      <4> HIDE DEF there
      <4>1. Cardinality(there) = 0
        BY <3>1, <3>3, FS_CardinalityType
      <4> QED BY <3>3, <4>1, FS_EmptySet
    <3>5. k \in DOMAIN plan
      BY <1>2, <1>3
    <3>6. ~Exists(disk, plan[k])
      BY <3>4, <3>5
    <3> QED BY <1>4, <2>1, <3>6 DEF Exists
  <2> QED BY <1>2, <1>3, <1>4, <1>6, <2>1, <2>2, <2>3
<1> QED BY <1>5, <1>6

\* A file is written where a connection aims.
LEMMA WritingKeeps ==
  ASSUME Keeping, UNCHANGED <<given, manifest>>, NEW c \in Conn,
         conn[c].pc # "resolve", conn[c].left # {},
         NEW kind \in {"part", "whole"}, Puts(c, kind)
  PROVE  /\ IsFiniteSet(DOMAIN disk')
         /\ OutIsName(disk', manifest, out.path, out.slash) <=> NamedByOut
         /\ OldPlaces \subseteq DOMAIN disk'
         /\ OldKept'
<1> DEFINE k == Min(conn[c].left)
           place == Place(conn[c].dests[k])
<1>1. conn[c].left \in SUBSET Nat
  BY DEF Keeping, Record
<1>2. k \in conn[c].left
  BY <1>1, LeastOf
<1>3. /\ k \in DOMAIN manifest /\ LongEnough(conn[c].dests[k])
      /\ place \in OldPlaces => policy \in {"resume", "overwrite"} /\ place = Place(Planned(k))
  BY <1>2 DEF Keeping, Aimed
<1>4. disk' = [path \in DOMAIN disk \cup {place} |->
                IF path = place THEN [kind |-> kind, of |-> k] ELSE disk[path]]
  BY DEF Puts, Target
<1>5. out.path \in Path
  BY PlacementAssumption, PathsAreTyped DEF Keeping
<1>6. place = Place(out.path) => NamedByOut
  <2> SUFFICES ASSUME place = Place(out.path), ~NamedByOut
               PROVE  FALSE
    OBVIOUS
  <2>1. conn[c].dests[k] \in Path /\ Len(conn[c].dests[k]) > Len(out.path)
    BY <1>3 DEF LongEnough
  <2>2. Len(place) = Len(conn[c].dests[k]) /\ Len(Place(out.path)) = Len(out.path)
    BY <1>5, <2>1, PlaceKeepsLength
  <2>3. Len(out.path) \in Nat
    BY <1>5 DEF Path
  <2> QED BY <2>1, <2>2, <2>3
<1> HIDE DEF k, place
<1>7. /\ DOMAIN disk' = DOMAIN disk \cup {place}
      /\ disk'[place].kind # "dir" /\ disk'[place].kind = kind
      /\ \A path \in DOMAIN disk : path # place => disk'[path] = disk[path]
  BY <1>4
<1>8. OutIsName(disk, manifest, out.path, out.slash) <=> NamedByOut
  BY DEF Keeping
<1>9. Exists(disk, out.path) =>
        Exists(disk', out.path) /\ (IsDir(disk', out.path) <=> IsDir(disk, out.path))
  <2> SUFFICES ASSUME Exists(disk, out.path)
               PROVE  IsDir(disk', out.path) <=> IsDir(disk, out.path)
    BY <1>7 DEF Exists
  <2>1. CASE place = Place(out.path)
    <3>1. ~IsDir(disk, out.path)
      BY <1>6, <1>8, <2>1 DEF OutIsName
    <3>2. ~IsDir(disk', out.path)
      BY <1>7, <2>1 DEF IsDir
    <3> QED BY <3>1, <3>2
  <2>2. CASE place # Place(out.path)
    BY <1>7, <2>2 DEF IsDir, Exists
  <2> QED BY <2>1, <2>2
<1>10. ASSUME ~Exists(disk, out.path), Exists(disk', out.path)
       PROVE  NamedByOut /\ ~IsDir(disk', out.path)
  <2>1. place = Place(out.path)
    BY <1>7, <1>10 DEF Exists
  <2> QED BY <1>6, <1>7, <2>1 DEF IsDir
<1>11. NamedByOut \in BOOLEAN
  BY DEF NamedByOut, OutIsName
<1>12. OutIsName(disk', manifest, out.path, out.slash) <=> NamedByOut
  <2> HIDE DEF NamedByOut
  <2> QED BY <1>8, <1>9, <1>10, <1>11, OutReadAlike
<1>13. OldPlaces \subseteq DOMAIN disk'
  BY <1>7 DEF Keeping
<1>14. OldKept'
  <2> SUFFICES ASSUME NEW file \in found
               PROVE  \/ disk'[Place(file)].kind = "old"
                      \/ /\ policy \in {"resume", "overwrite"}
                         /\ \E j \in DOMAIN manifest : Place(Planned(j)) = Place(file)
    BY PlanStays DEF OldKept, Planned, given
  <2>1. CASE Place(file) = place
    BY <1>3, <2>1 DEF OldPlaces
  <2>2. CASE Place(file) # place
    BY <1>7, <2>2 DEF Keeping, OldKept, OldPlaces, Planned
  <2> QED BY <2>1, <2>2
<1>15. IsFiniteSet(DOMAIN disk')
  BY <1>7, FS_AddElement DEF Keeping
<1> QED BY <1>12, <1>13, <1>14, <1>15

LEMMA KeepingStays ==
  ASSUME AsBuilt, AsBuilt', Keeping, [Next]_vars
  PROVE  Keeping'
<1>1. outcome = "running" => manifest \in Seq(Path)
  BY PlacementAssumption, WhatIsBuilt DEF AsBuilt, Built
<1>2. CASE UNCHANGED <<given, manifest, disk, conn>> /\ outcome' # "building"
  <2>1. \A c \in Conn : Aimed(c)'
    BY <1>2, AimStays DEF Keeping
  <2>2. OldKept'
    BY <1>2, PlanStays DEF Keeping, OldKept, Planned, given
  <2> QED BY <1>2, <2>1, <2>2, PlanStays DEF Keeping, given
<1>3. CASE UNCHANGED <<given, manifest, disk>> /\ outcome' # "building"
             /\ conn' = [c \in Conn |-> Idle]
  <2>1. \A c \in Conn : conn'[c].pc = "resolve"
    BY <1>3 DEF Idle
  <2>2. \A c \in Conn : Aimed(c)'
    BY <2>1 DEF Aimed
  <2>3. conn' \in [Conn -> Record]
    BY <1>3 DEF Idle, Record
  <2>4. OldKept'
    BY <1>3, PlanStays DEF Keeping, OldKept, Planned, given
  <2> QED BY <1>3, <2>2, <2>3, <2>4, PlanStays DEF Keeping, given
<1>4. CASE Builds
  <2>1. UNCHANGED <<given, disk, conn>> /\ outcome' # "building" /\ disk = FirstDisk
    BY <1>4 DEF Builds, Keeping
  <2>2. FirstDisk' = FirstDisk /\ OldPlaces' = OldPlaces
    BY <2>1 DEF FirstDisk, OldPlaces, given
  <2>3. \A c \in Conn : conn'[c].pc = "resolve"
    BY <1>4, <2>1 DEF Builds, Keeping
  <2>4. \A c \in Conn : Aimed(c)'
    BY <2>3 DEF Aimed
  <2>5. OldKept'
    BY <2>1, FirstDiskHas DEF Keeping, OldKept, given
  <2>6. OutIsName(disk', manifest', out'.path, out'.slash) <=> NamedByOut'
    BY <2>1, <2>2 DEF NamedByOut
  <2> QED BY <2>1, <2>2, <2>4, <2>5, <2>6 DEF Keeping, given
<1>5. ASSUME NEW c \in Conn, Resolves(c)
      PROVE  Keeping'
  <2> DEFINE dests == Destinations(disk, manifest, out.path, out.slash, policy)
             left == Shard(c) \ Skipped(dests)
  <2>1. /\ UNCHANGED <<given, manifest>> /\ outcome' = outcome /\ outcome = "running"
        /\ CanResolve /\ manifest \in Seq(Path)
        /\ conn' = [conn EXCEPT ![c] = [pc |-> "write", dests |-> dests, left |-> left]]
        /\ disk' = WithDirs(disk, dests)
    BY <1>1, <1>5 DEF Resolves
  <2> HIDE DEF dests, left
  <2>2. /\ dests \in Seq(Path) /\ DOMAIN dests = DOMAIN manifest
        /\ left \subseteq DOMAIN manifest
        /\ \A k \in DOMAIN manifest : LongEnough(dests[k])
        /\ \A k \in left : Place(dests[k]) \in OldPlaces =>
             policy \in {"resume", "overwrite"} /\ dests[k] = Planned(k)
    BY <2>1, ResolvingAims DEF dests, left
  <2>3. /\ IsFiniteSet(DOMAIN disk') /\ DOMAIN disk \subseteq DOMAIN disk'
        /\ \A place \in DOMAIN disk : disk'[place] = disk[place]
        /\ OutIsName(disk', manifest, out.path, out.slash) <=> NamedByOut
    BY <2>1, <2>2, DirsAreAdded
  <2>4. /\ NamedByOut' = NamedByOut /\ OldPlaces' = OldPlaces /\ FirstDisk' = FirstDisk
        /\ \A k : Planned(k)' = Planned(k)
    BY <2>1, PlanStays
  <2>5. OldKept'
    <3> SUFFICES ASSUME NEW file \in found
                 PROVE  \/ disk'[Place(file)].kind = "old"
                        \/ /\ policy \in {"resume", "overwrite"}
                           /\ \E j \in DOMAIN manifest : Place(Planned(j)) = Place(file)
      BY <2>1, <2>4 DEF OldKept, Planned, given
    <3>1. disk'[Place(file)] = disk[Place(file)]
      BY <2>3 DEF Keeping, OldPlaces
    <3> QED BY <3>1 DEF Keeping, OldKept, Planned
  <2>6. left \in SUBSET Nat /\ conn \in [Conn -> Record]
    BY <2>1, <2>2 DEF Keeping
  <2>7. conn' \in [Conn -> Record]
    BY <2>1, <2>2, <2>6 DEF Record
  <2>8. conn'[c] = [pc |-> "write", dests |-> dests, left |-> left]
    BY <2>1, <2>6
  <2>9. Aimed(c)'
    <3>1. conn'[c].pc = "write" /\ conn'[c].left = left /\ conn'[c].dests = dests
      BY <2>8
    <3>2. \A path : LongEnough(path) => IF NamedByOut' THEN path \in Path /\ Len(path) = Len(out'.path)
                                        ELSE path \in Path /\ Len(path) > Len(out'.path)
      BY <2>1, <2>4 DEF LongEnough, given
    <3>3. \A k \in left : dests[k] \in Path
            /\ IF NamedByOut' THEN Len(dests[k]) = Len(out'.path) ELSE Len(dests[k]) > Len(out'.path)
      BY <2>2, <3>2
    <3>4. \A k \in left : Place(dests[k]) \in OldPlaces' =>
            policy' \in {"resume", "overwrite"} /\ dests[k] = Planned(k)'
      BY <2>1, <2>2, <2>4 DEF given
    <3>5. left \subseteq DOMAIN manifest'
      BY <2>1, <2>2
    <3> QED BY <3>1, <3>3, <3>4, <3>5 DEF Aimed, LongEnough
  <2>10. \A d \in Conn : Aimed(d)'
    <3>1. \A d \in Conn \ {c} : conn'[d] = conn[d]
      BY <2>1
    <3> QED BY <2>1, <2>9, <3>1, AimStays DEF Keeping
  <2>11. out' \in Outs /\ policy' \in Policies /\ found' \in Founds
         /\ OldPlaces' \subseteq DOMAIN disk'
    BY <2>1, <2>3, <2>4 DEF Keeping, given
  <2>12. OutIsName(disk', manifest', out'.path, out'.slash) <=> NamedByOut'
    BY <2>1, <2>3, <2>4 DEF given
  <2> QED BY <2>1, <2>3, <2>5, <2>7, <2>10, <2>11, <2>12 DEF Keeping
<1>6. ASSUME NEW c \in Conn, NEW kind \in {"part", "whole"},
             conn[c].pc # "resolve", conn[c].left # {}, Puts(c, kind),
             UNCHANGED <<given, manifest>>, outcome = "running", outcome' = outcome,
             conn' \in [Conn -> Record], \A d \in Conn \ {c} : conn'[d] = conn[d],
             conn'[c].pc = "open" => conn'[c].left # {},
             conn'[c].left \subseteq conn[c].left, conn'[c].dests = conn[c].dests
      PROVE  Keeping'
  <2>1. /\ IsFiniteSet(DOMAIN disk')
        /\ OutIsName(disk', manifest, out.path, out.slash) <=> NamedByOut
        /\ OldPlaces \subseteq DOMAIN disk'
        /\ OldKept'
    BY <1>6, WritingKeeps
  <2>2. /\ NamedByOut' = NamedByOut /\ OldPlaces' = OldPlaces /\ FirstDisk' = FirstDisk
        /\ \A k : Planned(k)' = Planned(k)
    BY <1>6, PlanStays
  <2>3. Aimed(c)'
    <3>1. Aimed(c)
      BY DEF Keeping
    <3>2. \A k \in conn'[c].left : k \in conn[c].left
      BY <1>6
    <3> QED BY <1>6, <2>2, <3>1, <3>2 DEF Aimed, LongEnough, given
  <2>4. \A d \in Conn : Aimed(d)'
    BY <1>6, <2>3, AimStays DEF Keeping
  <2>5. OutIsName(disk', manifest', out'.path, out'.slash) <=> NamedByOut'
    BY <1>6, <2>1, <2>2 DEF given
  <2> QED BY <1>6, <2>1, <2>2, <2>4, <2>5 DEF Keeping, given
<1>7. ASSUME NEW c \in Conn, Opens(c)
      PROVE  Keeping'
  <2>1. conn \in [Conn -> Record] /\ conn' = [conn EXCEPT ![c].pc = "open"]
    BY <1>7 DEF Opens, Keeping
  <2>2. /\ conn' \in [Conn -> Record] /\ \A d \in Conn \ {c} : conn'[d] = conn[d]
        /\ conn'[c].left = conn[c].left /\ conn'[c].dests = conn[c].dests
    BY <2>1 DEF Record
  <2> QED BY <1>6, <1>7, <2>2 DEF Opens
<1>8. ASSUME NEW c \in Conn, Verifies(c)
      PROVE  Keeping'
  <2>1. conn \in [Conn -> Record] /\ conn[c].left # {} /\ conn[c].pc = "open"
    BY <1>8 DEF Verifies, Keeping, Aimed
  <2> DEFINE rest == conn[c].left \ {Min(conn[c].left)}
  <2>2. conn' = [conn EXCEPT ![c].pc = "write", ![c].left = rest]
    BY <1>8, <2>1 DEF Verifies
  <2>3. rest \subseteq conn[c].left /\ rest \in SUBSET Nat
    BY <2>1 DEF Record
  <2> HIDE DEF rest
  <2>4. /\ conn' \in [Conn -> Record] /\ \A d \in Conn \ {c} : conn'[d] = conn[d]
        /\ conn'[c].left = rest /\ conn'[c].dests = conn[c].dests
        /\ conn'[c].pc = "write"
    BY <2>1, <2>2, <2>3 DEF Record
  <2> QED BY <1>6, <1>8, <2>1, <2>3, <2>4 DEF Verifies
<1>9. CASE UNCHANGED vars
  <2>1. CASE outcome = "building"
    <3>1. disk' = FirstDisk'
      BY <1>9, <2>1 DEF vars, Keeping, FirstDisk, given
    <3>2. \A c \in Conn : Aimed(c)'
      BY <1>9, AimStays DEF Keeping, vars
    <3>3. OldKept'
      BY <1>9, PlanStays DEF Keeping, OldKept, Planned, given, vars
    <3> QED BY <1>9, <3>1, <3>2, <3>3, PlanStays DEF Keeping, given, vars
  <2>2. CASE outcome # "building"
    BY <1>2, <1>9, <2>2 DEF vars
  <2> QED BY <2>1, <2>2
<1>10. ASSUME NEW c \in Conn, ResolveFails(c) \/ OpenFails(c)
       PROVE  Keeping'
  BY <1>3, <1>10 DEF ResolveFails, OpenFails, Fails
<1>11. CASE Cut
  BY <1>3, <1>11 DEF Cut, Fails
<1>12. CASE Completes
  BY <1>2, <1>12 DEF Completes
<1> QED BY <1>4, <1>5, <1>7, <1>8, <1>9, <1>10, <1>11, <1>12 DEF Next, Ended

\* No file that was on the receiver's disk is touched, except one at a place
\* where the command line sends an entry, and only under `resume` and
\* `overwrite`: not by a numbered sibling, not by a second attempt that finds
\* directories and files the first one has left, not by any connection.
THEOREM OldFilesAreKept == Spec => []OldKept
<1>1. Init => Keeping
  BY KeepingAtFirst
<1>2. AsBuilt /\ AsBuilt' /\ Keeping /\ [Next]_vars => Keeping'
  BY KeepingStays
<1>3. Keeping => OldKept
  BY DEF Keeping
<1> QED BY <1>1, <1>2, <1>3, StaysAsBuilt, PTL DEF Spec

-----------------------------------------------------------------------------
(* What a receiver takes for the same name.                                *)

\* The key of one name on the receiver's disk.
PlaceName(name) == IF CaseBlind THEN <<Fold[Base(name)]>> \o Tail(name) ELSE name

\* Two paths have one place when their names do, one by one.
LEMMA SamePlace ==
  ASSUME NEW p \in Path, NEW q \in Path
  PROVE  Place(p) = Place(q) <=>
           Len(p) = Len(q) /\ \A i \in 1 .. Len(p) : PlaceName(p[i]) = PlaceName(q[i])
<1>1. \A path \in Path : /\ Len(path) \in Nat /\ DOMAIN path = 1 .. Len(path)
                         /\ path = [i \in 1 .. Len(path) |-> path[i]]
  BY DEF Path
<1>2. ASSUME Place(p) = Place(q)
      PROVE  Len(p) = Len(q) /\ \A i \in 1 .. Len(p) : PlaceName(p[i]) = PlaceName(q[i])
  BY <1>2, PlaceKeepsLength DEF PlaceName
<1>3. ASSUME Len(p) = Len(q), \A i \in 1 .. Len(p) : PlaceName(p[i]) = PlaceName(q[i])
      PROVE  Place(p) = Place(q)
  <2>1. CASE CaseBlind
    <3>1. /\ Place(p) = [i \in 1 .. Len(p) |-> PlaceName(p[i])]
          /\ Place(q) = [i \in 1 .. Len(q) |-> PlaceName(q[i])]
      BY <1>1, <2>1 DEF Place, Folded, PlaceName
    <3> QED BY <1>3, <3>1
  <2>2. CASE ~CaseBlind
    BY <1>1, <1>3, <2>2 DEF Place, PlaceName
  <2> QED BY <2>1, <2>2
<1> QED BY <1>2, <1>3

\* A name with a number appended is longer than any it is taken for, and two of
\* them are only one name when the names were.
LEMMA NumberedPlaces ==
  ASSUME NEW name \in Name, NEW other \in Name, NEW n \in Nat
  PROVE  /\ PlaceName(Append(name, n)) = PlaceName(other) => Len(other) > Len(name)
         /\ \A m \in Nat : PlaceName(Append(name, n)) = PlaceName(Append(other, m))
              => PlaceName(name) = PlaceName(other)
<1> DEFINE F(b) == IF CaseBlind THEN Fold[b] ELSE b
<1>1. PICK b \in DOMAIN Fold, q \in Seq(Nat) : name = <<b>> \o q
  BY DEF Name
<1>2. PICK c \in DOMAIN Fold, r \in Seq(Nat) : other = <<c>> \o r
  BY DEF Name
<1>3. \A x, s : s \in Seq(Nat) =>
        Tail(<<x>> \o s) = s /\ (<<x>> \o s)[1] = x /\ Len(<<x>> \o s) = Len(s) + 1
  OBVIOUS
<1>4. \A s \in Seq(Nat) : \A k \in Nat :
        Append(s, k) \in Seq(Nat) /\ Len(Append(s, k)) = Len(s) + 1 /\ Len(s) \in Nat
  OBVIOUS
<1>5. \A x, s : s \in Seq(Nat) => PlaceName(<<x>> \o s) = <<F(x)>> \o s
  BY <1>3 DEF PlaceName, Base
<1>6. ASSUME NEW s \in Seq(Nat), NEW t \in Seq(Nat), NEW k \in Nat, NEW l \in Nat,
             Append(s, k) = Append(t, l)
      PROVE  s = t
  <2>1. \A u \in Seq(Nat) : \A i \in Nat : SubSeq(Append(u, i), 1, Len(u)) = u
    OBVIOUS
  <2>2. Len(s) = Len(t)
    BY <1>4, <1>6
  <2> QED BY <1>6, <2>1, <2>2
<1> HIDE DEF F
<1>7. ASSUME NEW x, NEW y, NEW s \in Seq(Nat), NEW t \in Seq(Nat),
             <<x>> \o s = <<y>> \o t
      PROVE  x = y /\ s = t
  <2>1. x = (<<x>> \o s)[1] /\ y = (<<y>> \o t)[1]
    BY <1>3
  <2>2. s = Tail(<<x>> \o s) /\ t = Tail(<<y>> \o t)
    BY <1>3
  <2> QED BY <1>7, <2>1, <2>2
<1>8. /\ PlaceName(name) = <<F(b)>> \o q /\ PlaceName(other) = <<F(c)>> \o r
      /\ \A k \in Nat : /\ PlaceName(Append(name, k)) = <<F(b)>> \o Append(q, k)
                        /\ PlaceName(Append(other, k)) = <<F(c)>> \o Append(r, k)
  <2>1. PlaceName(name) = <<F(b)>> \o q /\ PlaceName(other) = <<F(c)>> \o r
    BY <1>1, <1>2, <1>5
  <2>2. \A k \in Nat : /\ Append(name, k) = <<b>> \o Append(q, k)
                        /\ Append(other, k) = <<c>> \o Append(r, k)
    <3>1. \A x : \A s \in Seq(Nat) : \A k \in Nat :
            Append(<<x>> \o s, k) = <<x>> \o Append(s, k)
      OBVIOUS
    <3> QED BY <1>1, <1>2, <3>1
  <2>3. \A k \in Nat : Append(q, k) \in Seq(Nat) /\ Append(r, k) \in Seq(Nat)
    BY <1>1, <1>2, <1>4
  <2> QED BY <1>5, <2>1, <2>2, <2>3
<1>9. ASSUME PlaceName(Append(name, n)) = PlaceName(other)
      PROVE  Len(other) > Len(name)
  <2>1. Append(q, n) = r
    <3>1. /\ <<F(b)>> \o Append(q, n) = <<F(c)>> \o r
          /\ Append(q, n) \in Seq(Nat) /\ r \in Seq(Nat)
      BY <1>1, <1>2, <1>4, <1>8, <1>9
    <3>2. Tail(<<F(b)>> \o Append(q, n)) = Append(q, n) /\ Tail(<<F(c)>> \o r) = r
      BY <1>3, <3>1
    <3> QED BY <3>1, <3>2
  <2>2. Len(r) = Len(q) + 1
    BY <1>4, <2>1
  <2> QED BY <1>1, <1>2, <1>3, <1>4, <2>2
<1>10. ASSUME NEW m \in Nat, PlaceName(Append(name, n)) = PlaceName(Append(other, m))
       PROVE  PlaceName(name) = PlaceName(other)
  <2>1. F(b) = F(c) /\ Append(q, n) = Append(r, m)
    <3>1. /\ <<F(b)>> \o Append(q, n) = <<F(c)>> \o Append(r, m)
          /\ Append(q, n) \in Seq(Nat) /\ Append(r, m) \in Seq(Nat)
      BY <1>1, <1>2, <1>4, <1>8, <1>10
    <3> QED BY <1>7, <3>1
  <2> QED BY <1>6, <1>8, <2>1
<1> QED BY <1>9, <1>10

\* Below one directory, places are the same when the rest of the paths are.
LEMMA BelowOneDirectory ==
  ASSUME NEW o \in Path, NEW p \in Path, NEW q \in Path
  PROVE  /\ Place(o \o p) = Place(o \o q) => Place(p) = Place(q)
         /\ \A dir \in Parents(o \o q) :
              p # <<>> /\ Place(o \o p) = Place(dir)
                => \E rest \in Parents(q) : Place(p) = Place(rest)
<1>1. \A S : \A s, t \in Seq(S) :
        /\ s \o t \in Seq(S) /\ Len(s \o t) = Len(s) + Len(t)
        /\ Len(s) \in Nat /\ Len(t) \in Nat
        /\ \A i \in 1 .. Len(t) : (s \o t)[Len(s) + i] = t[i]
  OBVIOUS
<1>2. \A S : \A s \in Seq(S) : \A k \in 0 .. Len(s) :
        /\ SubSeq(s, 1, k) \in Seq(S) /\ Len(SubSeq(s, 1, k)) = k
        /\ \A i \in 1 .. k : SubSeq(s, 1, k)[i] = s[i]
  OBVIOUS
<1>3. /\ \A t \in Path : o \o t \in Path /\ Len(o \o t) = Len(o) + Len(t)
           /\ Len(t) \in Nat /\ Len(o) \in Nat
           /\ \A i \in 1 .. Len(t) : (o \o t)[Len(o) + i] = t[i]
      /\ \A s \in Path : \A k \in 0 .. Len(s) :
           /\ SubSeq(s, 1, k) \in Path /\ Len(SubSeq(s, 1, k)) = k
           /\ \A i \in 1 .. k : SubSeq(s, 1, k)[i] = s[i]
  BY <1>1, <1>2 DEF Path
<1>4. ASSUME Place(o \o p) = Place(o \o q)
      PROVE  Place(p) = Place(q)
  <2>1. /\ Len(p) = Len(q)
        /\ \A i \in 1 .. Len(o \o p) : PlaceName((o \o p)[i]) = PlaceName((o \o q)[i])
    <3>1. o \o p \in Path /\ o \o q \in Path
      BY <1>3
    <3>2. /\ Len(o \o p) = Len(o \o q)
          /\ \A i \in 1 .. Len(o \o p) : PlaceName((o \o p)[i]) = PlaceName((o \o q)[i])
      BY <1>4, <3>1, SamePlace
    <3> QED BY <1>3, <3>2
  <2>2. ASSUME NEW i \in 1 .. Len(p)
        PROVE  PlaceName(p[i]) = PlaceName(q[i])
    <3>1. Len(o) + i \in 1 .. Len(o \o p) /\ i \in 1 .. Len(q)
      BY <1>3, <2>1
    <3> QED BY <1>3, <2>1, <3>1
  <2> QED BY <2>1, <2>2, SamePlace
<1>5. ASSUME NEW n \in 0 .. Len(o \o q) - 1, p # <<>>,
             Place(o \o p) = Place(SubSeq(o \o q, 1, n))
      PROVE  \E rest \in Parents(q) : Place(p) = Place(rest)
  <2> DEFINE dir == SubSeq(o \o q, 1, n)
             rest == SubSeq(q, 1, Len(p))
  <2>1. /\ dir \in Path /\ Len(dir) = n
        /\ \A i \in 1 .. n : dir[i] = (o \o q)[i]
    <3>1. o \o q \in Path /\ Len(o \o q) \in Nat
      BY <1>3
    <3>2. n \in 0 .. Len(o \o q)
      BY <3>1
    <3> QED BY <1>3, <3>1, <3>2
  <2>2. /\ n = Len(o) + Len(p)
        /\ \A i \in 1 .. n : PlaceName((o \o p)[i]) = PlaceName(dir[i])
    <3> HIDE DEF dir
    <3>1. o \o p \in Path /\ Place(o \o p) = Place(dir)
      BY <1>3, <1>5 DEF dir
    <3>2. /\ Len(o \o p) = Len(dir)
          /\ \A i \in 1 .. Len(o \o p) : PlaceName((o \o p)[i]) = PlaceName(dir[i])
      BY <2>1, <3>1, SamePlace
    <3> QED BY <1>3, <2>1, <3>2
  <2>3. Len(p) \in 0 .. Len(q) - 1 /\ Len(p) \in 0 .. Len(q)
    BY <1>3, <2>2
  <2>4. /\ rest \in Path /\ Len(rest) = Len(p) /\ rest \in Parents(q)
        /\ \A i \in 1 .. Len(p) : rest[i] = q[i]
    BY <1>3, <2>3 DEF Parents
  <2> HIDE DEF dir, rest
  <2>5. ASSUME NEW i \in 1 .. Len(p)
        PROVE  PlaceName(p[i]) = PlaceName(rest[i])
    <3>1. Len(o) + i \in 1 .. n /\ i \in 1 .. Len(q)
      BY <1>3, <2>2, <2>3
    <3>2. PlaceName((o \o p)[Len(o) + i]) = PlaceName(dir[Len(o) + i])
      BY <2>2, <3>1
    <3>3. dir[Len(o) + i] = (o \o q)[Len(o) + i] /\ rest[i] = q[i]
      BY <2>1, <2>4, <3>1
    <3>4. (o \o p)[Len(o) + i] = p[i] /\ (o \o q)[Len(o) + i] = q[i]
      BY <1>3, <3>1
    <3> QED BY <3>2, <3>3, <3>4
  <2>6. Place(p) = Place(rest)
    BY <2>4, <2>5, SamePlace
  <2> QED BY <2>4, <2>6
<1> QED BY <1>4, <1>5 DEF Parents

-----------------------------------------------------------------------------
(* Every file has arrived.                                                 *)

\* No clash of names that the property leaves out.
Clear == Coexisting /\ ~(policy = "rename" /\ SiblingNamed)

\* Where a connection may want to put an entry.
Destined(k, path) ==
  \/ path = Planned(k)
  \/ policy = "rename" /\ \E n \in Nat : path = Sibling(Planned(k), n)

\* What is known of a manifest that a connection has resolved.
Sound ==
  /\ manifest \in Seq(Path) /\ ValidManifest(manifest) /\ out.path \in Path
  /\ NamedByOut => out.path # <<>>

\* The plan has a path for every entry: `--out` itself, or one below it.
LEMMA PlanOf ==
  ASSUME Sound, NEW k \in DOMAIN manifest
  PROVE  /\ Planned(k) \in Path /\ Planned(k) # <<>>
         /\ manifest[k] \in Path /\ manifest[k] # <<>>
         /\ Planned(k) = IF NamedByOut THEN out.path ELSE out.path \o manifest[k]
         /\ NamedByOut => DOMAIN manifest = {k}
<1>1. manifest[k] \in Path /\ manifest[k] # <<>>
  BY DEF Sound, ValidManifest, ValidRel
<1>2. Planned(k) = IF NamedByOut THEN out.path ELSE out.path \o manifest[k]
  BY DEF Planned, DestinationPaths, NamedByOut
<1>3. \A S : \A s, t \in Seq(S) : s \o t \in Seq(S) /\ (t # <<>> => s \o t # <<>>)
  OBVIOUS
<1>4. out.path \o manifest[k] \in Path /\ out.path \o manifest[k] # <<>>
  BY <1>1, <1>3 DEF Path, Sound
<1>5. NamedByOut => DOMAIN manifest = {k}
  <2>1. manifest \in Seq(Path) /\ DOMAIN manifest = 1 .. Len(manifest)
    BY DEF Sound
  <2>2. NamedByOut => Len(manifest) = 1
    BY DEF NamedByOut, OutIsName
  <2>3. 1 .. 1 = {1}
    OBVIOUS
  <2> QED BY <2>1, <2>2, <2>3
<1> QED BY <1>1, <1>2, <1>4, <1>5 DEF Sound

\* check_no_collisions: two entries are planned for two places.
LEMMA PlansApart ==
  ASSUME Sound, NEW k \in DOMAIN manifest, NEW j \in DOMAIN manifest, k # j
  PROVE  Place(Planned(k)) # Place(Planned(j))
<1>1. ~NamedByOut
  BY PlanOf
<1>2. /\ Planned(k) = out.path \o manifest[k] /\ Planned(j) = out.path \o manifest[j]
      /\ manifest[k] \in Path /\ manifest[j] \in Path /\ out.path \in Path
  BY <1>1, PlanOf DEF Sound
<1>3. Folded(manifest[k]) # Folded(manifest[j])
  BY DEF Sound, ValidManifest, NoCollisions
<1>4. Place(manifest[k]) # Place(manifest[j])
  BY <1>3 DEF Place
<1> QED BY <1>2, <1>4, BelowOneDirectory

\* No entry is planned where another one has a directory.
LEMMA PlansCoexist ==
  ASSUME Sound, Coexisting, NEW k \in DOMAIN manifest, NEW j \in DOMAIN manifest,
         NEW dir \in Parents(Planned(j))
  PROVE  Place(Planned(k)) # Place(dir)
<1>1. CASE NamedByOut
  <2>1. Planned(j) \in Path /\ Planned(k) = Planned(j)
    BY <1>1, PlanOf
  <2>2. dir \in Path /\ Len(dir) < Len(Planned(j))
    BY <2>1, ParentsAreShorter
  <2>3. Len(dir) \in Nat /\ Len(Planned(j)) \in Nat
    BY <2>1, <2>2 DEF Path
  <2> QED BY <2>1, <2>2, <2>3, SamePlace
<1>2. CASE ~NamedByOut
  <2>1. /\ Planned(k) = out.path \o manifest[k] /\ Planned(j) = out.path \o manifest[j]
        /\ manifest[k] \in Path /\ manifest[j] \in Path /\ out.path \in Path
        /\ manifest[k] # <<>>
    BY <1>2, PlanOf DEF Sound
  <2>2. \A rest \in Parents(manifest[j]) : Place(manifest[k]) # Place(rest)
    BY DEF Coexisting
  <2> QED BY <2>1, <2>2, BelowOneDirectory
<1> QED BY <1>1, <1>2

\* The names of a numbered sibling: those of the path, but for the last one.
LEMMA SiblingNames ==
  ASSUME NEW path \in Path, path # <<>>, NEW n \in Nat
  PROVE  /\ Sibling(path, n) \in Path /\ Len(Sibling(path, n)) = Len(path)
         /\ Len(path) \in Nat \ {0} /\ path[Len(path)] \in Name
         /\ \A i \in 1 .. Len(path) - 1 : Sibling(path, n)[i] = path[i]
         /\ Sibling(path, n)[Len(path)] = Append(path[Len(path)], n)
<1>1. /\ Front(path) \in Path /\ Len(Front(path)) = Len(path) - 1
      /\ Last(path) \in Name /\ Last(path) = path[Len(path)]
  BY FrontOf DEF Last
<1>2. /\ Len(path) \in Nat \ {0}
      /\ \A i \in 1 .. Len(path) - 1 : Front(path)[i] = path[i]
  BY DEF Path, Front
<1>3. \A S : \A q \in Seq(S) : \A x :
        /\ Append(q, x)[Len(q) + 1] = x
        /\ \A i \in 1 .. Len(q) : Append(q, x)[i] = q[i]
  OBVIOUS
<1>4. /\ Sibling(path, n)[Len(Front(path)) + 1] = Append(Last(path), n)
      /\ \A i \in 1 .. Len(Front(path)) : Sibling(path, n)[i] = Front(path)[i]
  BY <1>1, <1>3 DEF Sibling, Path
<1>5. Len(Front(path)) + 1 = Len(path)
  BY <1>1, <1>2
<1> QED BY <1>1, <1>2, <1>4, <1>5, SiblingsDiffer

\* Two entries are destined for two places, numbered siblings included, unless
\* one has the name of a sibling of the other.
LEMMA DestinedApart ==
  ASSUME Sound, Clear, NEW k \in DOMAIN manifest, NEW j \in DOMAIN manifest, k # j,
         NEW p, Destined(k, p), NEW q, Destined(j, q)
  PROVE  Place(p) # Place(q)
<1> DEFINE P == Planned(k)
           Q == Planned(j)
<1>1. P \in Path /\ P # <<>> /\ Q \in Path /\ Q # <<>>
  BY PlanOf
<1>2. \A x, y \in DOMAIN manifest : \A n \in Nat :
        x # y /\ policy = "rename" => Place(Sibling(Planned(x), n)) # Place(Planned(y))
  <2> SUFFICES ASSUME NEW x \in DOMAIN manifest, NEW y \in DOMAIN manifest, NEW n \in Nat,
                      x # y, policy = "rename",
                      Place(Sibling(Planned(x), n)) = Place(Planned(y))
               PROVE  SiblingNamed
    BY DEF Clear
  <2> DEFINE X == Planned(x)
             Y == Planned(y)
             L == Len(X)
             a == manifest[x]
             b == manifest[y]
             o == out.path
  <2>1. /\ X \in Path /\ X # <<>> /\ Y \in Path /\ Y # <<>>
        /\ a \in Path /\ a # <<>> /\ b \in Path /\ b # <<>> /\ o \in Path
        /\ X = o \o a /\ Y = o \o b
    BY PlanOf DEF Sound
  <2> HIDE DEF X, Y, a, b, o
  <2>2. /\ Sibling(X, n) \in Path /\ Len(Sibling(X, n)) = L
        /\ L \in Nat \ {0} /\ X[L] \in Name
        /\ \A i \in 1 .. L - 1 : Sibling(X, n)[i] = X[i]
        /\ Sibling(X, n)[L] = Append(X[L], n)
    BY <2>1, SiblingNames
  <2>3. /\ Len(Y) = L
        /\ \A i \in 1 .. L : PlaceName(Sibling(X, n)[i]) = PlaceName(Y[i])
    <3>1. Place(Sibling(X, n)) = Place(Y)
      BY DEF X, Y
    <3> HIDE DEF L
    <3> QED BY <2>1, <2>2, <3>1, SamePlace
  <2>4. Y[L] \in Name
    BY <2>1, <2>2, <2>3, SiblingNames
  <2>5. PlaceName(Append(X[L], n)) = PlaceName(Y[L])
    <3>1. L \in 1 .. L
      BY <2>2
    <3>2. PlaceName(Sibling(X, n)[L]) = PlaceName(Y[L])
      BY <2>3, <3>1
    <3> QED BY <2>2, <3>2
  <2>6. Len(Y[L]) > Len(X[L])
    BY <2>2, <2>4, <2>5, NumberedPlaces
  <2>7. \A S : \A s, t \in Seq(S) : t # <<>> =>
          /\ Len(s \o t) = Len(s) + Len(t) /\ (s \o t)[Len(s \o t)] = t[Len(t)]
          /\ Len(s) \in Nat /\ Len(t) \in Nat \ {0}
          /\ \A i \in 1 .. Len(t) - 1 : /\ (s \o t)[Len(s) + i] = t[i]
                                        /\ Len(s) + i \in 1 .. Len(s \o t) - 1
    OBVIOUS
  <2>8. /\ L = Len(o) + Len(a) /\ Len(Y) = Len(o) + Len(b)
        /\ X[L] = Last(a) /\ Y[L] = Last(b)
        /\ Len(o) \in Nat /\ Len(a) \in Nat \ {0} /\ Len(b) \in Nat \ {0}
        /\ \A i \in 1 .. Len(a) - 1 : X[Len(o) + i] = a[i] /\ Len(o) + i \in 1 .. L - 1
        /\ \A i \in 1 .. Len(b) - 1 : Y[Len(o) + i] = b[i]
    <3>1. a \in Seq(Name) /\ b \in Seq(Name) /\ o \in Seq(Name)
      BY <2>1 DEF Path
    <3>2. /\ L = Len(o) + Len(a) /\ X[L] = a[Len(a)]
          /\ Len(o) \in Nat /\ Len(a) \in Nat \ {0}
          /\ \A i \in 1 .. Len(a) - 1 : X[Len(o) + i] = a[i] /\ Len(o) + i \in 1 .. L - 1
      BY <2>1, <2>7, <3>1
    <3>3. /\ Len(Y) = Len(o) + Len(b) /\ Y[Len(Y)] = b[Len(b)] /\ Len(b) \in Nat \ {0}
          /\ \A i \in 1 .. Len(b) - 1 : Y[Len(o) + i] = b[i]
      BY <2>1, <2>7, <3>1
    <3> QED BY <2>3, <3>2, <3>3 DEF Last
  <2>9. Len(a) = Len(b)
    BY <2>3, <2>8
  <2>10. /\ Front(a) \in Path /\ Len(Front(a)) = Len(a) - 1
         /\ Front(b) \in Path /\ Len(Front(b)) = Len(b) - 1
         /\ \A i \in 1 .. Len(a) - 1 : Front(a)[i] = a[i]
         /\ \A i \in 1 .. Len(b) - 1 : Front(b)[i] = b[i]
    BY <2>1, FrontOf DEF Path, Front
  <2>11. Place(Front(b)) = Place(Front(a))
    <3>1. ASSUME NEW i \in 1 .. Len(Front(b))
          PROVE  PlaceName(Front(b)[i]) = PlaceName(Front(a)[i])
      <4>1. i \in 1 .. Len(a) - 1 /\ i \in 1 .. Len(b) - 1
        BY <2>9, <2>10
      <4>2. X[Len(o) + i] = a[i] /\ Y[Len(o) + i] = b[i] /\ Len(o) + i \in 1 .. L - 1
        BY <2>8, <4>1
      <4>3. Len(o) + i \in 1 .. L
        BY <2>2, <4>2
      <4>4. PlaceName(Sibling(X, n)[Len(o) + i]) = PlaceName(Y[Len(o) + i])
        BY <2>3, <4>3
      <4>5. Sibling(X, n)[Len(o) + i] = X[Len(o) + i]
        BY <2>2, <4>2
      <4> QED BY <2>10, <4>1, <4>2, <4>4, <4>5
    <3>2. Len(Front(b)) = Len(Front(a))
      BY <2>9, <2>10
    <3> QED BY <2>10, <3>1, <3>2, SamePlace
  <2> QED BY <2>6, <2>8, <2>11 DEF SiblingNamed, a, b
<1>3. ASSUME NEW n \in Nat, NEW m \in Nat, p = Sibling(P, n), q = Sibling(Q, m),
             Place(p) = Place(q)
      PROVE  FALSE
  <2> HIDE DEF P, Q
  <2>1. /\ p \in Path /\ Len(p) = Len(P)
        /\ Len(P) \in Nat \ {0} /\ P[Len(P)] \in Name
        /\ \A i \in 1 .. Len(P) - 1 : p[i] = P[i]
        /\ p[Len(P)] = Append(P[Len(P)], n)
    BY <1>1, <1>3, SiblingNames
  <2>2. /\ q \in Path /\ Len(q) = Len(Q)
        /\ Len(Q) \in Nat \ {0} /\ Q[Len(Q)] \in Name
        /\ \A i \in 1 .. Len(Q) - 1 : q[i] = Q[i]
        /\ q[Len(Q)] = Append(Q[Len(Q)], m)
    BY <1>1, <1>3, SiblingNames
  <2>3. Len(p) = Len(q) /\ \A i \in 1 .. Len(p) : PlaceName(p[i]) = PlaceName(q[i])
    BY <1>3, <2>1, <2>2, SamePlace
  <2>4. PlaceName(P[Len(P)]) = PlaceName(Q[Len(Q)])
    <3>1. PlaceName(p[Len(P)]) = PlaceName(q[Len(P)]) /\ Len(P) = Len(Q)
      <4>1. Len(P) \in 1 .. Len(p) /\ Len(P) = Len(Q)
        BY <2>1, <2>2, <2>3
      <4> QED BY <2>3, <4>1
    <3>2. PlaceName(Append(P[Len(P)], n)) = PlaceName(Append(Q[Len(Q)], m))
      BY <2>1, <2>2, <3>1
    <3> QED BY <2>1, <2>2, <3>2, NumberedPlaces
  <2>5. ASSUME NEW i \in 1 .. Len(P)
        PROVE  PlaceName(P[i]) = PlaceName(Q[i])
    <3>1. CASE i = Len(P)
      BY <2>1, <2>2, <2>3, <2>4, <3>1
    <3>2. CASE i # Len(P)
      <4>1. i \in 1 .. Len(P) - 1 /\ i \in 1 .. Len(Q) - 1 /\ i \in 1 .. Len(p)
        BY <2>1, <2>2, <2>3, <3>2
      <4> QED BY <2>1, <2>2, <2>3, <4>1
    <3> QED BY <3>1, <3>2
  <2>6. Place(P) = Place(Q)
    BY <1>1, <2>1, <2>2, <2>3, <2>5, SamePlace
  <2> QED BY <2>6, PlansApart DEF P, Q
<1> HIDE DEF P, Q
<1>4. p = P \/ (policy = "rename" /\ \E n \in Nat : p = Sibling(P, n))
  BY DEF Destined, P
<1>5. q = Q \/ (policy = "rename" /\ \E n \in Nat : q = Sibling(Q, n))
  BY DEF Destined, Q
<1>6. /\ Place(P) # Place(Q)
      /\ policy = "rename" =>
           \A n \in Nat : Place(Sibling(P, n)) # Place(Q) /\ Place(Sibling(Q, n)) # Place(P)
  BY <1>2, PlansApart DEF P, Q
<1> QED BY <1>3, <1>4, <1>5, <1>6

InPlace(c, k) ==
  LET place == Place(conn[c].dests[k]) IN place \in DOMAIN disk /\ disk[place] = Whole(k)

\* `skip` leaves what was there at the start.
Spared(k) == policy = "skip" /\ Place(Planned(k)) \in DOMAIN FirstDisk

\* What a connection has of its share and does not have to write is in place.
Landed(c) ==
  conn[c].pc # "resolve" =>
    /\ Sound /\ conn[c].left \subseteq Shard(c)
    /\ \A k \in DOMAIN manifest : Destined(k, conn[c].dests[k])
    /\ Clear /\ ~(policy = "skip" /\ attempt > 1) =>
         \A k \in Shard(c) \ conn[c].left : InPlace(c, k) \/ Spared(k)

Served(k) == \E c \in Conn : k \in Shard(c) /\ conn[c].pc # "resolve"

\* In a first attempt, what `skip` may find on the disk was there at the start,
\* is a directory the files need, or is of a connection that has looked before.
Traced ==
  policy = "skip" /\ attempt = 1 =>
    \A path \in DOMAIN disk :
      \/ path \in DOMAIN FirstDisk
      \/ \E k \in DOMAIN manifest : \E dir \in Parents(Planned(k)) : path = Place(dir)
      \/ \E k \in DOMAIN manifest : path = Place(Planned(k)) /\ Served(k)

\* The inductive invariant, beside those of the other two theorems.
Landing ==
  /\ attempt \in Nat \ {0}
  /\ \A c \in Conn : Landed(c)
  /\ outcome \in {"building", "running"} => Traced
  /\ outcome = "done" => \A c \in Conn : conn[c].pc # "resolve" /\ conn[c].left = {}

\* The parts that are about the command lines and the manifest alone.
LEMMA PartsStay ==
  ASSUME UNCHANGED <<given, manifest>>
  PROVE  /\ Sound' = Sound /\ Clear' = Clear
         /\ \A c : Shard(c)' = Shard(c)
         /\ \A k : Spared(k)' = Spared(k)
         /\ \A k, path : Destined(k, path)' = Destined(k, path)
BY PlanStays DEF given, Sound, Clear, Coexisting, SiblingNamed, Shard, Spared, Destined

\* A connection that does not move keeps what it has if the disk does.
LEMMA LandedStays ==
  ASSUME UNCHANGED <<given, manifest, attempt>>, NEW c, Landed(c), conn'[c] = conn[c],
         conn[c].pc # "resolve" /\ Clear /\ Sound =>
           \A k \in Shard(c) \ conn[c].left : InPlace(c, k) => InPlace(c, k)'
  PROVE  Landed(c)'
<1>1. /\ Sound' = Sound /\ Clear' = Clear /\ Shard(c)' = Shard(c)
      /\ \A k : Spared(k)' = Spared(k)
      /\ \A k, path : Destined(k, path)' = Destined(k, path)
      /\ manifest' = manifest /\ policy' = policy /\ attempt' = attempt
  BY PartsStay DEF given
<1> QED BY <1>1 DEF Landed

\* A connection that resolves leaves out what is in place, or spared.
LEMMA ResolvingLands ==
  ASSUME AsBuilt, Keeping, Landing, NEW c \in Conn, Resolves(c)
  PROVE  Landing'
<1> DEFINE plan == DestinationPaths(disk, manifest, out.path, out.slash)
           dests == Destinations(disk, manifest, out.path, out.slash, policy)
           left == Shard(c) \ Skipped(dests)
           more == WithDirs(disk, dests)
<1>1. /\ UNCHANGED <<given, manifest, attempt>> /\ outcome' = outcome /\ outcome = "running"
      /\ CanResolve /\ conn[c].pc = "resolve"
      /\ conn' = [conn EXCEPT ![c] = [pc |-> "write", dests |-> dests, left |-> left]]
      /\ disk' = more
  BY DEF Resolves
<1>2. manifest \in Seq(Path) /\ ValidManifest(manifest)
  BY <1>1, PlacementAssumption, WhatIsBuilt DEF AsBuilt, Built, CanResolve, Resolvable
<1>3. /\ plan \in Seq(Path) /\ DOMAIN plan = DOMAIN manifest /\ out.path \in Path
      /\ \A k \in DOMAIN manifest :
           plan[k] = Planned(k) /\ plan[k] # <<>> /\ plan[k] \in Path /\ LongEnough(plan[k])
  BY <1>2, PlansAreLong DEF Planned, LongEnough
<1>4. Sound
  <2>1. NamedByOut => out.path # <<>>
    BY FirstDiskHas DEF NamedByOut, OutIsName, Keeping
  <2> QED BY <1>2, <1>3, <2>1 DEF Sound
<1>5. /\ dests \in Seq(Path) /\ DOMAIN dests = DOMAIN manifest
      /\ \A k \in DOMAIN manifest : LongEnough(dests[k])
  BY <1>1, <1>2, ResolvingAims
<1>6. /\ policy # "rename" => dests = plan
      /\ \A k \in DOMAIN manifest : Destined(k, dests[k])
  <2>1. CASE policy # "rename"
    <3>1. dests = plan
      BY <2>1 DEF Destinations
    <3> QED BY <1>3, <2>1, <3>1 DEF Destined
  <2>2. CASE policy = "rename"
    <3> DEFINE made == WithDirs(disk, plan)
    <3>1. dests = [k \in DOMAIN plan |-> NextAvailable(made, plan[k])]
      BY <2>2 DEF Destinations
    <3>2. IsFiniteSet(DOMAIN made)
      BY <1>3, DirsAreAdded
    <3> HIDE DEF made, plan, dests
    <3>3. \A k \in DOMAIN manifest :
            \/ dests[k] = plan[k]
            \/ \E n \in Nat : dests[k] = Sibling(plan[k], n)
      BY <1>3, <3>1, <3>2, AvailableIsFree
    <3> QED BY <1>3, <2>2, <3>3 DEF Destined
  <2> QED BY <2>1, <2>2
<1>7. /\ DOMAIN more = DOMAIN disk \cup {Place(dir) : dir \in NeededDirs(dests)}
      /\ \A place \in DOMAIN disk : more[place] = disk[place]
  BY DEF WithDirs
<1>8. \A k \in Skipped(dests) :
        /\ k \in DOMAIN dests /\ Place(dests[k]) \in DOMAIN more
        /\ \/ policy = "skip"
           \/ more[Place(dests[k])] = Whole(k)
  BY DEF Skipped, Exists, Whole
<1>9. Shard(c) \subseteq DOMAIN manifest /\ left = Shard(c) \ Skipped(dests)
  BY DEF Shard
<1>10. conn'[c] = [pc |-> "write", dests |-> dests, left |-> left]
       /\ \A d \in Conn \ {c} : conn'[d] = conn[d]
  BY <1>1 DEF Keeping
<1> HIDE DEF plan, dests, left, more
<1>11. ASSUME Clear, policy = "skip", attempt = 1, NEW k \in Shard(c),
              Place(dests[k]) \in DOMAIN more
       PROVE  Spared(k)
  <2>1. k \in DOMAIN manifest /\ dests[k] = Planned(k) /\ Coexisting
    BY <1>3, <1>6, <1>9, <1>11 DEF Clear
  <2>2. \A j \in DOMAIN manifest : \A dir \in Parents(Planned(j)) :
          Place(Planned(k)) # Place(dir)
    BY <1>4, <2>1, PlansCoexist
  <2>3. Place(Planned(k)) \notin {Place(dir) : dir \in NeededDirs(dests)}
    <3> SUFFICES ASSUME NEW dir \in NeededDirs(dests)
                 PROVE  Place(Planned(k)) # Place(dir)
      OBVIOUS
    <3>1. PICK j \in DOMAIN dests : dir \in Parents(dests[j])
      BY DEF NeededDirs
    <3>2. j \in DOMAIN manifest /\ dests[j] = Planned(j)
      BY <1>3, <1>5, <1>6, <1>11, <3>1
    <3> QED BY <2>2, <3>1, <3>2
  <2>4. Place(Planned(k)) \in DOMAIN disk
    BY <1>7, <1>11, <2>1, <2>3
  <2>5. ~ \E j \in DOMAIN manifest : Place(Planned(k)) = Place(Planned(j)) /\ Served(j)
    <3> SUFFICES ASSUME NEW j \in DOMAIN manifest, Place(Planned(k)) = Place(Planned(j)),
                        NEW d \in Conn, j \in Shard(d), conn[d].pc # "resolve"
                 PROVE  FALSE
      BY DEF Served
    <3>1. j = k
      BY <1>4, <2>1, PlansApart
    <3>2. d = c
      BY <3>1 DEF Shard
    <3> QED BY <1>1, <3>2
  <2>6. Traced
    BY <1>1 DEF Landing
  <2>7. Place(Planned(k)) \in DOMAIN FirstDisk
    BY <1>11, <2>2, <2>4, <2>5, <2>6 DEF Traced
  <2> QED BY <1>11, <2>7 DEF Spared
<1>12. Landed(c)'
  <2>1. /\ Sound' = Sound /\ Clear' = Clear /\ Shard(c)' = Shard(c)
        /\ \A k : Spared(k)' = Spared(k)
        /\ \A k, path : Destined(k, path)' = Destined(k, path)
        /\ manifest' = manifest /\ policy' = policy /\ attempt' = attempt
    BY <1>1, PartsStay DEF given
  <2>2. conn'[c].dests = dests /\ conn'[c].left = left
    BY <1>10
  <2>3. ASSUME Clear, ~(policy = "skip" /\ attempt > 1), NEW k \in Shard(c) \ left
        PROVE  InPlace(c, k)' \/ Spared(k)
    <3>1. k \in Skipped(dests) /\ k \in Shard(c)
      BY <1>9, <2>3
    <3>2. CASE policy = "skip"
      <4>1. attempt = 1
        BY <2>3, <3>2 DEF Landing
      <4> QED BY <1>8, <1>11, <2>3, <3>1, <3>2, <4>1
    <3>3. CASE policy # "skip"
      <4>1. disk'[Place(dests[k])] = Whole(k) /\ Place(dests[k]) \in DOMAIN disk'
        BY <1>1, <1>8, <3>1, <3>3
      <4> QED BY <2>2, <4>1 DEF InPlace, Whole
    <3> QED BY <3>2, <3>3
  <2>4. left \subseteq Shard(c)
    BY <1>9
  <2> QED BY <1>4, <1>6, <2>1, <2>2, <2>3, <2>4 DEF Landed
<1>13. \A d \in Conn : Landed(d)'
  <2>1. ASSUME NEW d \in Conn \ {c}
        PROVE  Landed(d)'
    <3>1. conn'[d] = conn[d] /\ Landed(d)
      BY <1>10 DEF Landing
    <3>2. \A k : InPlace(d, k) => InPlace(d, k)'
      BY <1>1, <1>7, <3>1 DEF InPlace, Whole
    <3> QED BY <1>1, <3>1, <3>2, LandedStays
  <2> QED BY <1>12, <2>1
<1>14. Traced'
  <2> SUFFICES ASSUME policy = "skip", attempt = 1, NEW path \in DOMAIN disk'
               PROVE  \/ path \in DOMAIN FirstDisk
                      \/ \E k \in DOMAIN manifest :
                           \E dir \in Parents(Planned(k)) : path = Place(dir)
                      \/ \E k \in DOMAIN manifest : path = Place(Planned(k)) /\ Served(k)'
    BY <1>1, PlanStays DEF Traced, given
  <2>1. \A k : Served(k) => Served(k)'
    <3>1. \A d : Shard(d)' = Shard(d)
      BY <1>1, PartsStay
    <3>2. \A d \in Conn : conn[d].pc # "resolve" => conn'[d].pc # "resolve"
      BY <1>10
    <3> QED BY <3>1, <3>2 DEF Served
  <2>2. CASE path \in DOMAIN disk
    <3>1. Traced
      BY <1>1 DEF Landing
    <3> QED BY <2>1, <2>2, <3>1 DEF Traced
  <2>3. CASE path \notin DOMAIN disk
    <3>1. PICK dir \in NeededDirs(dests) : path = Place(dir)
      BY <1>1, <1>7, <2>3
    <3>2. PICK k \in DOMAIN dests : dir \in Parents(dests[k])
      BY DEF NeededDirs
    <3>3. k \in DOMAIN manifest /\ dests[k] = Planned(k)
      BY <1>3, <1>5, <1>6, <3>2
    <3> QED BY <3>1, <3>2, <3>3
  <2> QED BY <2>2, <2>3
<1> QED BY <1>1, <1>13, <1>14 DEF Landing

\* A connection writes at the place of an entry it has left, where no other
\* entry of any connection belongs.
LEMMA WritingSpares ==
  ASSUME Keeping, Landing, Clear, NEW c \in Conn, conn[c].pc # "resolve", conn[c].left # {},
         NEW kind, Puts(c, kind), NEW d \in Conn, conn[d].pc # "resolve", conn'[d].dests = conn[d].dests,
         NEW k \in Shard(d) \ conn[d].left, InPlace(d, k)
  PROVE  InPlace(d, k)'
<1> DEFINE first == Min(conn[c].left)
<1>1. conn[c].left \in SUBSET Nat
  BY DEF Keeping, Record
<1>2. first \in conn[c].left
  BY <1>1, LeastOf
<1>3. /\ Sound /\ first \in DOMAIN manifest /\ first \in Shard(c) /\ k \in DOMAIN manifest
      /\ Destined(first, conn[c].dests[first]) /\ Destined(k, conn[d].dests[k])
  BY <1>2 DEF Landing, Landed, Shard
<1>4. first # k
  <2>1. CASE c = d
    BY <1>2, <2>1
  <2>2. CASE c # d
    BY <1>3, <2>2 DEF Shard
  <2> QED BY <2>1, <2>2
<1> HIDE DEF first
<1>5. Place(conn[d].dests[k]) # Place(conn[c].dests[first])
  BY <1>3, <1>4, DestinedApart
<1>6. /\ DOMAIN disk' = DOMAIN disk \cup {Place(conn[c].dests[first])}
      /\ \A path \in DOMAIN disk :
           path # Place(conn[c].dests[first]) => disk'[path] = disk[path]
  BY DEF Puts, Target, first
<1> QED BY <1>5, <1>6 DEF InPlace, Whole

\* A step that writes.
LEMMA WritingLands ==
  ASSUME Keeping, Landing, UNCHANGED <<given, manifest, attempt, outcome>>,
         outcome = "running", NEW c \in Conn, conn[c].pc # "resolve", conn[c].left # {},
         NEW kind, Puts(c, kind), conn'[c].pc # "resolve",
         \A d \in Conn \ {c} : conn'[d] = conn[d],
         conn'[c].dests = conn[c].dests, conn'[c].left \subseteq conn[c].left,
         conn[c].left \subseteq conn'[c].left \/
           (kind = "whole" /\ conn'[c].left = conn[c].left \ {Min(conn[c].left)})
  PROVE  Landing'
<1> DEFINE first == Min(conn[c].left)
           place == Place(conn[c].dests[first])
<1>1. first \in conn[c].left
  <2>1. conn[c].left \in SUBSET Nat
    BY DEF Keeping, Record
  <2> QED BY <2>1, LeastOf
<1>2. /\ place \in DOMAIN disk' /\ disk'[place] = [kind |-> kind, of |-> first]
      /\ DOMAIN disk' = DOMAIN disk \cup {place}
  BY DEF Puts, Target
<1>3. /\ Sound' = Sound /\ Clear' = Clear /\ \A d : Shard(d)' = Shard(d)
      /\ \A k : Spared(k)' = Spared(k)
      /\ \A k, path : Destined(k, path)' = Destined(k, path)
      /\ manifest' = manifest /\ policy' = policy /\ attempt' = attempt
  BY PartsStay DEF given
<1>4. /\ Sound /\ conn[c].left \subseteq Shard(c)
      /\ \A k \in DOMAIN manifest : Destined(k, conn[c].dests[k])
      /\ Clear /\ ~(policy = "skip" /\ attempt > 1) =>
           \A k \in Shard(c) \ conn[c].left : InPlace(c, k) \/ Spared(k)
  BY DEF Landing, Landed
<1> HIDE DEF first, place
<1>5. ASSUME Clear, ~(policy = "skip" /\ attempt > 1), NEW k \in Shard(c) \ conn'[c].left
      PROVE  InPlace(c, k)' \/ Spared(k)
  <2>1. CASE k \in conn[c].left
    <3>1. k = first /\ kind = "whole"
      BY <1>5, <2>1 DEF first
    <3>2. disk'[place] = Whole(first)
      BY <1>2, <3>1 DEF Whole
    <3>3. Place(conn'[c].dests[k]) = place
      BY <3>1 DEF place, first
    <3> QED BY <1>2, <3>1, <3>2, <3>3 DEF InPlace, Whole
  <2>2. CASE k \notin conn[c].left
    <3>1. InPlace(c, k) \/ Spared(k)
      BY <1>4, <1>5, <2>2
    <3>2. InPlace(c, k) => InPlace(c, k)'
      BY <1>5, <2>2, WritingSpares
    <3> QED BY <3>1, <3>2
  <2> QED BY <2>1, <2>2
<1>6. Landed(c)'
  BY <1>3, <1>4, <1>5 DEF Landed
<1>7. \A d \in Conn : Landed(d)'
  <2>1. ASSUME NEW d \in Conn \ {c}
        PROVE  Landed(d)'
    <3>1. conn'[d] = conn[d] /\ Landed(d)
      BY DEF Landing
    <3>2. conn[d].pc # "resolve" /\ Clear =>
            \A k \in Shard(d) \ conn[d].left : InPlace(d, k) => InPlace(d, k)'
      BY <3>1, WritingSpares
    <3> QED BY <3>1, <3>2, LandedStays
  <2> QED BY <1>6, <2>1
<1>8. Traced'
  <2> SUFFICES ASSUME policy = "skip", attempt = 1, NEW path \in DOMAIN disk'
               PROVE  \/ path \in DOMAIN FirstDisk
                      \/ \E k \in DOMAIN manifest :
                           \E dir \in Parents(Planned(k)) : path = Place(dir)
                      \/ \E k \in DOMAIN manifest : path = Place(Planned(k)) /\ Served(k)'
    BY PlanStays DEF Traced, given
  <2>1. \A k : Served(k) => Served(k)'
    <3>1. \A d \in Conn : conn[d].pc # "resolve" => conn'[d].pc # "resolve"
      OBVIOUS
    <3> QED BY <1>3, <3>1 DEF Served
  <2>2. CASE path \in DOMAIN disk
    <3>1. Traced
      BY DEF Landing
    <3> QED BY <2>1, <2>2, <3>1 DEF Traced
  <2>3. CASE path \notin DOMAIN disk
    <3>1. first \in DOMAIN manifest /\ first \in Shard(c)
      BY <1>1, <1>4 DEF Shard
    <3>2. conn[c].dests[first] = Planned(first)
      BY <1>4, <3>1 DEF Destined
    <3>3. path = Place(Planned(first)) /\ Served(first)
      BY <1>2, <2>3, <3>1, <3>2 DEF place, Served
    <3> QED BY <2>1, <3>1, <3>3
  <2> QED BY <2>2, <2>3
<1> QED BY <1>3, <1>7, <1>8 DEF Landing

LEMMA LandingStays ==
  ASSUME AsBuilt, Keeping, Landing, [Next]_vars
  PROVE  Landing'
<1>1. conn \in [Conn -> Record]
  BY DEF Keeping
<1>2. ASSUME \A c \in Conn : conn'[c].pc = "resolve", attempt' \in Nat \ {0},
             outcome' # "done", outcome' \in {"building", "running"} => Traced'
      PROVE  Landing'
  BY <1>2 DEF Landing, Landed
<1>3. CASE Builds
  <2>1. /\ UNCHANGED <<given, disk, conn, attempt>> /\ disk = FirstDisk /\ outcome' # "done"
        /\ \A c \in Conn : conn[c].pc = "resolve"
    BY <1>3 DEF Builds, Keeping
  <2>2. FirstDisk' = FirstDisk
    BY <2>1 DEF FirstDisk, given
  <2>3. Traced'
    BY <2>1, <2>2 DEF Traced
  <2>4. (\A c \in Conn : conn'[c].pc = "resolve") /\ attempt' \in Nat \ {0}
    BY <2>1 DEF Landing
  <2> QED BY <1>2, <2>1, <2>3, <2>4
<1>4. ASSUME Fails, outcome = "running"
      PROVE  Landing'
  <2>1. \A c \in Conn : conn'[c].pc = "resolve"
    BY <1>4 DEF Fails, Idle
  <2>2. \/ attempt' = attempt + 1 /\ outcome' = outcome
        \/ attempt' = attempt /\ outcome' = "failed"
    BY <1>4 DEF Fails
  <2>3. attempt \in Nat \ {0}
    BY DEF Landing
  <2>4. attempt' = attempt + 1 => Traced'
    BY <2>3 DEF Traced
  <2> QED BY <1>2, <1>4, <2>1, <2>2, <2>3, <2>4
<1>5. CASE Completes
  <2>1. /\ UNCHANGED <<given, manifest, disk, conn, attempt>> /\ outcome' = "done"
        /\ \A c \in Conn : conn[c].pc = "write" /\ conn[c].left = {}
    BY <1>5 DEF Completes
  <2>2. \A c \in Conn : Landed(c)'
    <3>1. \A c, k : InPlace(c, k) => InPlace(c, k)'
      BY <2>1 DEF InPlace, Whole
    <3> QED BY <2>1, <3>1, LandedStays DEF Landing
  <2> QED BY <2>1, <2>2 DEF Landing
<1>6. CASE UNCHANGED vars
  <2>1. UNCHANGED <<given, manifest, disk, conn, attempt, outcome>>
    BY <1>6 DEF vars
  <2>2. \A c \in Conn : Landed(c)'
    <3>1. \A c, k : InPlace(c, k) => InPlace(c, k)'
      BY <2>1 DEF InPlace, Whole
    <3> QED BY <2>1, <3>1, LandedStays DEF Landing
  <2>3. Traced' = Traced
    BY <2>1, PlanStays, PartsStay DEF Traced, Served, given
  <2> QED BY <2>1, <2>2, <2>3 DEF Landing
<1>7. ASSUME NEW c \in Conn, Resolves(c)
      PROVE  Landing'
  BY <1>7, ResolvingLands
<1>8. ASSUME NEW c \in Conn, Opens(c)
      PROVE  Landing'
  <2>1. conn' = [conn EXCEPT ![c].pc = "open"]
    BY <1>8 DEF Opens
  <2>2. /\ conn'[c].pc = "open" /\ conn'[c].left = conn[c].left
        /\ conn'[c].dests = conn[c].dests /\ \A d \in Conn \ {c} : conn'[d] = conn[d]
    BY <1>1, <2>1 DEF Record
  <2>3. /\ outcome = "running" /\ conn[c].pc # "resolve" /\ conn[c].left # {} /\ Puts(c, "part")
        /\ UNCHANGED <<given, manifest, attempt, outcome>>
    BY <1>8 DEF Opens
  <2> QED BY <2>2, <2>3, WritingLands
<1>9. ASSUME NEW c \in Conn, Verifies(c)
      PROVE  Landing'
  <2> DEFINE rest == conn[c].left \ {Min(conn[c].left)}
  <2>1. conn' = [conn EXCEPT ![c].pc = "write", ![c].left = rest]
    BY <1>1, <1>9 DEF Verifies
  <2>2. rest \subseteq conn[c].left
    OBVIOUS
  <2> HIDE DEF rest
  <2>3. /\ conn'[c].pc = "write" /\ conn'[c].left = rest
        /\ conn'[c].dests = conn[c].dests /\ \A d \in Conn \ {c} : conn'[d] = conn[d]
    BY <1>1, <2>1 DEF Record
  <2>4. /\ outcome = "running" /\ conn[c].pc = "open" /\ Puts(c, "whole")
        /\ UNCHANGED <<given, manifest, attempt, outcome>>
    BY <1>9 DEF Verifies
  <2>5. conn[c].left # {}
    BY <2>4 DEF Keeping, Aimed
  <2> QED BY <2>2, <2>3, <2>4, <2>5, WritingLands DEF rest
<1>10. ASSUME NEW c \in Conn, ResolveFails(c) \/ OpenFails(c)
       PROVE  Landing'
  BY <1>4, <1>10 DEF ResolveFails, OpenFails
<1>11. CASE Cut
  BY <1>4, <1>11 DEF Cut
<1> QED BY <1>3, <1>5, <1>6, <1>7, <1>8, <1>9, <1>10, <1>11 DEF Next, Ended

\* A transfer that reports success has put every file where the command line
\* said at the start, over any number of connections and attempts that left
\* directories, parts and whole files behind (resolve_destinations and what the
\* receiver skips).  The clashes of names and the retries under `skip` that the
\* property leaves out are the only exceptions.
THEOREM EveryFileArrives == Spec => []AllArrived
<1>1. Init => Landing
  <2> SUFFICES ASSUME Init
               PROVE  Landing
    OBVIOUS
  <2>1. /\ attempt = 1 /\ outcome = "building" /\ disk = FirstDisk
        /\ \A c \in Conn : conn[c].pc = "resolve"
    BY DEF Init, Idle
  <2>2. Traced
    BY <2>1 DEF Traced
  <2> QED BY <2>1, <2>2 DEF Landing, Landed
<1>2. AsBuilt /\ Keeping /\ Landing /\ [Next]_vars => Landing'
  BY LandingStays
<1>3. Keeping /\ Landing => AllArrived
  <2> SUFFICES ASSUME Keeping, Landing, outcome = "done", Clear,
                      ~(policy = "skip" /\ attempt > 1), NEW k \in DOMAIN manifest
               PROVE  Arrived(k)
    BY DEF AllArrived, Clear
  <2> DEFINE c == (k - 1) % Parallel
  <2>1. c \in Conn /\ k \in Shard(c)
    <3>1. conn[0].pc # "resolve" /\ Sound
      <4>1. 0 \in Conn
        BY PlacementAssumption DEF Conn
      <4> QED BY <4>1 DEF Landing, Landed
    <3>2. k \in Nat \ {0}
      BY <3>1 DEF Sound
    <3>3. c \in 0 .. Parallel - 1
      BY <3>2, PlacementAssumption
    <3> QED BY <3>3 DEF Conn, Shard
  <2> HIDE DEF c
  <2>2. Sound /\ Destined(k, conn[c].dests[k]) /\ (InPlace(c, k) \/ Spared(k))
    BY <2>1 DEF Landing, Landed
  <2>3. CASE policy = "rename"
    BY <2>2, <2>3 DEF InPlace, Spared, Arrived
  <2>4. CASE policy # "rename"
    BY <2>2, <2>4 DEF InPlace, Spared, Arrived, Destined, Planned
  <2> QED BY <2>3, <2>4
<1>4. Init => Keeping
  BY KeepingAtFirst
<1>5. AsBuilt /\ AsBuilt' /\ Keeping /\ [Next]_vars => Keeping'
  BY KeepingStays
<1> QED BY <1>1, <1>2, <1>3, <1>4, <1>5, StaysAsBuilt, PTL DEF Spec
=============================================================================
