--------------------------- MODULE ReleaseProofs ---------------------------
(* Proofs about Release for any developers and any bounds.                   *)
EXTENDS Release, FiniteSetTheorems, TLAPS

---------------------------------------------------------------------------
(* Numbers and versions *)

(* A bounded, non-empty set of numbers has a greatest one: its up-sets are   *)
(* finite sets, and the greatest number has the smallest.                    *)
LEMMA Greatest ==
  ASSUME NEW N \in Nat, NEW S \in SUBSET (0..N), S # {}
  PROVE  \E m \in S : \A k \in S : k <= m
<1> DEFINE T == {k..N : k \in S}
<1>1. T \subseteq FiniteSubsetsOf(Nat)
  BY FS_Interval DEF FiniteSubsetsOf
<1>2. T # {}
  OBVIOUS
<1>3. IsWellFoundedOn(StrictSubsetOrdering(Nat), FiniteSubsetsOf(Nat))
  BY FS_StrictSubsetOrderingWellFounded
<1>4. PICK x \in T : \A y \in T : <<y, x>> \notin StrictSubsetOrdering(Nat)
  BY <1>1, <1>2, <1>3, WFMin
<1>5. PICK m \in S : x = m..N
  OBVIOUS
<1>6. ASSUME NEW k \in S, k > m
      PROVE  FALSE
  <2>1. k..N \in T /\ k..N \in SUBSET Nat /\ m..N \in SUBSET Nat
    OBVIOUS
  <2>2. k..N \subseteq m..N /\ m \in m..N /\ m \notin k..N
    BY <1>6
  <2>3. <<k..N, m..N>> \in StrictSubsetOrdering(Nat)
    BY <2>1, <2>2 DEF StrictSubsetOrdering
  <2> QED BY <1>4, <1>5, <2>1, <2>3
<1> QED BY <1>6

LEMMA VersionParts ==
  ASSUME NEW v \in Version
  PROVE  /\ v = <<v[1], v[2], v[3], v[4]>>
         /\ v[1] \in Number /\ v[2] \in Number /\ v[3] \in Number /\ v[4] \in Number
         /\ v # Blank
  BY DEF Version, Blank

(* Lexicographic order, spelled out.                                         *)
LEMMA BelowCases ==
  ASSUME NEW v, NEW w
  PROVE  Below(v, w) <=>
           \/ v[1] < w[1]
           \/ v[1] = w[1] /\ v[2] < w[2]
           \/ v[1] = w[1] /\ v[2] = w[2] /\ v[3] < w[3]
           \/ v[1] = w[1] /\ v[2] = w[2] /\ v[3] = w[3] /\ v[4] < w[4]
<1>1. 1..0 = {} /\ 1..1 = {1} /\ 1..2 = {1, 2} /\ 1..3 = {1, 2, 3}
      /\ 1..4 = {1, 2, 3, 4}
  OBVIOUS
<1>2. 1 - 1 = 0 /\ 2 - 1 = 1 /\ 3 - 1 = 2 /\ 4 - 1 = 3
  OBVIOUS
<1> QED BY <1>1, <1>2 DEF Below

(* Some version of a non-empty set is below no other: narrow the set down to *)
(* the greatest major, minor, patch and rc number in turn.                   *)
LEMMA LastVersion ==
  ASSUME NEW S \in SUBSET Version, S # {}
  PROVE  \E v \in S : \A w \in S : ~Below(v, w)
<1>1. MaxNumber \in Nat /\ Number = 0..MaxNumber
  BY BoundsAssumption DEF Number
<1>2. \A v \in S : v[1] \in Number /\ v[2] \in Number /\ v[3] \in Number /\ v[4] \in Number
  BY VersionParts
<1>3. PICK a \in {v[1] : v \in S} : \A k \in {v[1] : v \in S} : k <= a
  <2>1. {v[1] : v \in S} \in SUBSET (0..MaxNumber) /\ {v[1] : v \in S} # {}
    BY <1>1, <1>2
  <2> QED BY <1>1, <2>1, Greatest
<1> DEFINE A == {v \in S : v[1] = a}
<1>4. PICK b \in {v[2] : v \in A} : \A k \in {v[2] : v \in A} : k <= b
  <2>1. {v[2] : v \in A} \in SUBSET (0..MaxNumber) /\ {v[2] : v \in A} # {}
    BY <1>1, <1>2
  <2> QED BY <1>1, <2>1, Greatest
<1> DEFINE B == {v \in A : v[2] = b}
<1>5. PICK c \in {v[3] : v \in B} : \A k \in {v[3] : v \in B} : k <= c
  <2>1. {v[3] : v \in B} \in SUBSET (0..MaxNumber) /\ {v[3] : v \in B} # {}
    BY <1>1, <1>2
  <2> QED BY <1>1, <2>1, Greatest
<1> DEFINE C == {v \in B : v[3] = c}
<1>6. PICK d \in {v[4] : v \in C} : \A k \in {v[4] : v \in C} : k <= d
  <2>1. {v[4] : v \in C} \in SUBSET (0..MaxNumber) /\ {v[4] : v \in C} # {}
    BY <1>1, <1>2
  <2> QED BY <1>1, <2>1, Greatest
<1>7. PICK v \in C : v[4] = d
  BY <1>6
<1>8. v \in S /\ v[1] = a /\ v[2] = b /\ v[3] = c
  BY <1>7
<1>9. ASSUME NEW w \in S
      PROVE  ~Below(v, w)
  <2>1. w[1] \in Nat /\ w[2] \in Nat /\ w[3] \in Nat /\ w[4] \in Nat
        /\ a \in Nat /\ b \in Nat /\ c \in Nat /\ d \in Nat
    BY <1>1, <1>2, <1>7, <1>8
  <2>2. w[1] <= a
    BY <1>3
  <2>3. w[1] = a => w[2] <= b
    BY <1>4
  <2>4. w[1] = a /\ w[2] = b => w[3] <= c
    BY <1>5
  <2>5. w[1] = a /\ w[2] = b /\ w[3] = c => w[4] <= d
    BY <1>6
  <2> QED BY <1>7, <1>8, <2>1, <2>2, <2>3, <2>4, <2>5, BelowCases
<1> QED BY <1>8, <1>9

---------------------------------------------------------------------------
(* release.py *)

(* The current version is a version, and no known one is above it.           *)
LEMMA CurrentIsLast ==
  ASSUME NEW cs, NEW tags, IsTags(tags, cs), Versions(tags) # {}
  PROVE  /\ Current(tags) \in Versions(tags)
         /\ \A w \in Versions(tags) : ~Below(Current(tags), w)
<1>1. Versions(tags) \in SUBSET Version
  BY DEF Versions, IsTags, Tag
<1>2. \E v \in Versions(tags) : \A w \in Versions(tags) : ~Below(v, w)
  BY <1>1, LastVersion
<1> QED BY <1>2 DEF Current

LEMMA CurrentVersion ==
  ASSUME NEW cs, NEW tags, IsTags(tags, cs)
  PROVE  Current(tags) \in Version
<1>1. CASE Versions(tags) = {}
  BY <1>1, BoundsAssumption DEF Current, Version, Number
<1>2. CASE Versions(tags) # {}
  BY <1>2, CurrentIsLast DEF Versions, IsTags, Tag
<1> QED BY <1>1, <1>2

(* The number of a new rc is above those of the same base version.           *)
LEMMA NextRcAbove ==
  ASSUME NEW cs, NEW tags, IsTags(tags, cs), NEW base
  PROVE  \E n \in Nat : /\ NextRc(base, tags) = Rc(base, n) /\ n > 0
                        /\ \A t \in Versions(tags) : Rc(t, 0) = base => t[4] < n
<1> DEFINE used == RcNumbers(base, tags) \cup {0}
<1>1. \A t \in Versions(tags) : t \in Version /\ t[4] \in Number
  BY VersionParts DEF Versions, IsTags, Tag
<1>2. used \in SUBSET (0..MaxNumber) /\ used # {}
  BY <1>1, BoundsAssumption DEF RcNumbers, Number
<1>3. \E n \in used : \A k \in used : k <= n
  BY <1>2, BoundsAssumption, Greatest
<1> DEFINE top == CHOOSE n \in used : \A k \in used : k <= n
<1>4. top \in used /\ \A k \in used : k <= top
  BY <1>3
<1>5. top \in Nat
  BY <1>2, <1>4
<1>6. NextRc(base, tags) = Rc(base, 1 + top)
  BY DEF NextRc
<1> HIDE DEF top
<1>7. ASSUME NEW t \in Versions(tags), Rc(t, 0) = base
      PROVE  t[4] \in Nat /\ t[4] <= top
  <2>1. t[4] \in used
    BY <1>7 DEF RcNumbers
  <2>2. t[4] \in Nat
    BY <1>1, BoundsAssumption DEF Number
  <2> QED BY <1>4, <2>1, <2>2
<1>8. 1 + top \in Nat /\ 1 + top > 0
      /\ \A t \in Versions(tags) : Rc(t, 0) = base => t[4] < 1 + top
  BY <1>5, <1>7
<1> QED BY <1>6, <1>8

(* An rc sorts after every tag if its base version is below no tag's base and *)
(* its number above those of its own base.                                    *)
LEMMA RcOfBase ==
  ASSUME NEW cs, NEW tags, IsTags(tags, cs), NEW base \in Nat \X Nat \X Nat \X {0}, NEW n \in Nat,
         n > 0,
         \A t \in Versions(tags) : Rc(t, 0) = base => t[4] < n,
         \A t \in Versions(tags) : ~Below(base, Rc(t, 0)),
         NEW t \in Versions(tags)
  PROVE  Below(t, Rc(base, n))
<1>1. t \in Version
  BY DEF Versions, IsTags, Tag
<1>2. t[1] \in Nat /\ t[2] \in Nat /\ t[3] \in Nat /\ t[4] \in Nat
  BY <1>1, VersionParts, BoundsAssumption DEF Number
<1>3. base[1] \in Nat /\ base[2] \in Nat /\ base[3] \in Nat /\ base[4] = 0
      /\ base = <<base[1], base[2], base[3], base[4]>>
  OBVIOUS
<1> DEFINE r == Rc(t, 0)
           m == Rc(base, n)
<1>4. /\ r[1] = t[1] /\ r[2] = t[2] /\ r[3] = t[3] /\ r[4] = 0
      /\ m[1] = base[1] /\ m[2] = base[2] /\ m[3] = base[3] /\ m[4] = n
      /\ r = <<t[1], t[2], t[3], 0>>
  BY DEF Rc
<1> HIDE DEF r, m
<1>5. ~Below(base, r) /\ (r = base => t[4] < n)
  BY DEF r
<1>6. ~(base[1] < t[1]) /\ ~(base[1] = t[1] /\ base[2] < t[2])
      /\ ~(base[1] = t[1] /\ base[2] = t[2] /\ base[3] < t[3])
  BY <1>4, <1>5, BelowCases
<1>7. Below(t, m)
  <2>1. CASE t[1] = base[1] /\ t[2] = base[2] /\ t[3] = base[3]
    <3>1. r = base
      BY <1>3, <1>4, <2>1
    <3> QED BY <1>4, <1>5, <2>1, <3>1, BelowCases
  <2>2. CASE ~(t[1] = base[1] /\ t[2] = base[2] /\ t[3] = base[3])
    BY <1>2, <1>3, <1>4, <1>6, <2>2, BelowCases
  <2> QED BY <2>1, <2>2
<1> QED BY <1>7 DEF m

(* Whatever its rc number, no tag has a base above the current one's.        *)
LEMMA BasesBelowCurrent ==
  ASSUME NEW cs, NEW tags, IsTags(tags, cs), NEW t \in Versions(tags)
  PROVE  LET cur == Current(tags)
         IN \/ t[1] < cur[1]
            \/ t[1] = cur[1] /\ t[2] < cur[2]
            \/ t[1] = cur[1] /\ t[2] = cur[2] /\ t[3] < cur[3]
            \/ t[1] = cur[1] /\ t[2] = cur[2] /\ t[3] = cur[3] /\ t[4] <= cur[4]
<1> DEFINE cur == Current(tags)
<1>1. cur \in Version /\ t \in Version
  BY CurrentVersion DEF Versions, IsTags, Tag
<1>2. ~Below(cur, t)
  BY CurrentIsLast
<1> HIDE DEF cur
<1>3. /\ cur[1] \in Nat /\ cur[2] \in Nat /\ cur[3] \in Nat /\ cur[4] \in Nat
      /\ t[1] \in Nat /\ t[2] \in Nat /\ t[3] \in Nat /\ t[4] \in Nat
  BY <1>1, VersionParts, BoundsAssumption DEF Number
<1>4. \/ t[1] < cur[1]
      \/ t[1] = cur[1] /\ t[2] < cur[2]
      \/ t[1] = cur[1] /\ t[2] = cur[2] /\ t[3] < cur[3]
      \/ t[1] = cur[1] /\ t[2] = cur[2] /\ t[3] = cur[3] /\ t[4] <= cur[4]
  BY <1>2, <1>3, BelowCases
<1> QED BY <1>4 DEF cur

(* What a bump returns is stable and not below the version it starts from;   *)
(* after a bump other than "none" it is above it.                            *)
LEMMA BumpedForward ==
  ASSUME NEW v \in Version, NEW type \in {"none", "minor", "patch", "major"}
  PROVE  LET w == Bumped(v, type)
         IN /\ w \in Nat \X Nat \X Nat \X {0}
            /\ \/ w[1] = v[1] /\ w[2] = v[2] /\ w[3] = v[3] /\ type = "none"
               \/ w[1] > v[1]
               \/ w[1] = v[1] /\ w[2] > v[2]
               \/ w[1] = v[1] /\ w[2] = v[2] /\ w[3] > v[3]
<1>1. v[1] \in Nat /\ v[2] \in Nat /\ v[3] \in Nat /\ v[4] \in Nat
  BY VersionParts, BoundsAssumption DEF Number
<1>2. CASE type = "none"
  BY <1>1, <1>2 DEF Bumped, Rc
<1>3. CASE type = "minor"
  BY <1>1, <1>3 DEF Bumped
<1>4. CASE type = "patch"
  BY <1>1, <1>4 DEF Bumped
<1>5. CASE type = "major"
  BY <1>1, <1>5 DEF Bumped
<1> QED BY <1>2, <1>3, <1>4, <1>5

(* A new rc sorts after every tag, a new stable version after every stable   *)
(* one.                                                                      *)
LEMMA NewVersionAbove ==
  ASSUME NEW cs, NEW tags, IsTags(tags, cs), NEW target,
         NEW type \in {"none", "minor", "patch", "major"},
         NewVersion(target, tags, type) \in Version,
         NEW t \in Versions(tags),
         Candidate(NewVersion(target, tags, type)) \/ ~Candidate(t)
  PROVE  Below(t, NewVersion(target, tags, type))
<1> DEFINE cur == Current(tags)
           v   == NewVersion(target, tags, type)
<1>1. cur \in Version /\ t \in Version /\ v \in Version /\ t \in DOMAIN tags
  BY CurrentVersion DEF Versions, IsTags, Tag
<1>2. /\ cur[1] \in Nat /\ cur[2] \in Nat /\ cur[3] \in Nat /\ cur[4] \in Nat
      /\ t[1] \in Nat /\ t[2] \in Nat /\ t[3] \in Nat /\ t[4] \in Nat
  BY <1>1, VersionParts, BoundsAssumption DEF Number
<1>3. \/ t[1] < cur[1]
      \/ t[1] = cur[1] /\ t[2] < cur[2]
      \/ t[1] = cur[1] /\ t[2] = cur[2] /\ t[3] < cur[3]
      \/ t[1] = cur[1] /\ t[2] = cur[2] /\ t[3] = cur[3] /\ t[4] <= cur[4]
  BY BasesBelowCurrent
<1>4. CASE target # "release"
  <2> DEFINE base == Bumped(cur, type)
  <2>1. PICK n \in Nat : /\ v = Rc(base, n) /\ n > 0
                         /\ \A u \in Versions(tags) : Rc(u, 0) = base => u[4] < n
    BY <1>4, NextRcAbove DEF NewVersion
  <2>2. /\ base \in Nat \X Nat \X Nat \X {0}
        /\ \/ base[1] = cur[1] /\ base[2] = cur[2] /\ base[3] = cur[3]
           \/ base[1] > cur[1]
           \/ base[1] = cur[1] /\ base[2] > cur[2]
           \/ base[1] = cur[1] /\ base[2] = cur[2] /\ base[3] > cur[3]
    BY <1>1, BumpedForward
  <2> HIDE DEF base
  <2>3. ASSUME NEW u \in Versions(tags)
        PROVE  ~Below(base, Rc(u, 0))
    <3>1. u \in Version
      BY DEF Versions, IsTags, Tag
    <3>2. /\ u[1] \in Nat /\ u[2] \in Nat /\ u[3] \in Nat /\ u[4] \in Nat
          /\ base[1] \in Nat /\ base[2] \in Nat /\ base[3] \in Nat /\ base[4] = 0
      BY <2>2, <3>1, VersionParts, BoundsAssumption DEF Number
    <3>3. \/ u[1] < cur[1]
          \/ u[1] = cur[1] /\ u[2] < cur[2]
          \/ u[1] = cur[1] /\ u[2] = cur[2] /\ u[3] < cur[3]
          \/ u[1] = cur[1] /\ u[2] = cur[2] /\ u[3] = cur[3] /\ u[4] <= cur[4]
      BY BasesBelowCurrent
    <3> DEFINE r == Rc(u, 0)
    <3>4. r[1] = u[1] /\ r[2] = u[2] /\ r[3] = u[3] /\ r[4] = 0
      BY DEF Rc
    <3> HIDE DEF r, cur
    <3>5. ~Below(base, r)
      BY <1>2, <2>2, <3>2, <3>3, <3>4, BelowCases
    <3> QED BY <3>5 DEF r
  <2> QED BY <2>1, <2>2, <2>3, RcOfBase
<1>5. CASE target = "release" /\ cur[4] # 0
  <2>1. v = Rc(cur, 0) /\ v \notin DOMAIN tags
    BY <1>1, <1>5, VersionParts DEF NewVersion, StableVersion
  <2>2. v = <<cur[1], cur[2], cur[3], 0>> /\ v[4] = 0
        /\ v[1] = cur[1] /\ v[2] = cur[2] /\ v[3] = cur[3]
    BY <2>1 DEF Rc
  <2>3. t[4] = 0
    BY <1>1, <2>2, VersionParts DEF Candidate
  <2>4. t = <<t[1], t[2], t[3], t[4]>>
    BY <1>1, VersionParts
  <2>5. ~(t[1] = cur[1] /\ t[2] = cur[2] /\ t[3] = cur[3])
    BY <1>1, <2>1, <2>2, <2>3, <2>4
  <2> HIDE DEF v, cur
  <2> QED BY <1>2, <1>3, <2>2, <2>5, BelowCases DEF v
<1>6. CASE target = "release" /\ cur[4] = 0
  <2> DEFINE bump == IF type = "none" THEN "patch" ELSE type
  <2>1. v = Bumped(cur, bump)
    BY <1>1, <1>6, VersionParts DEF NewVersion, StableVersion
  <2>2. bump \in {"none", "minor", "patch", "major"} /\ bump # "none"
    OBVIOUS
  <2>3. v[1] \in Nat /\ v[2] \in Nat /\ v[3] \in Nat
    BY <1>1, VersionParts, BoundsAssumption DEF Number
  <2>4. \/ v[1] > cur[1]
        \/ v[1] = cur[1] /\ v[2] > cur[2]
        \/ v[1] = cur[1] /\ v[2] = cur[2] /\ v[3] > cur[3]
    BY <1>1, <2>1, <2>2, BumpedForward
  <2> HIDE DEF v, cur
  <2>5. Below(t, v)
    BY <1>2, <1>3, <2>3, <2>4, BelowCases
  <2> QED BY <2>5 DEF v
<1> QED BY <1>4, <1>5, <1>6

(* An rc recipe gets an rc, `make release` a stable version or none.         *)
LEMMA NewVersionKind ==
  ASSUME NEW cs, NEW tags, IsTags(tags, cs), NEW target,
         NEW type \in {"none", "minor", "patch", "major"}
  PROVE  Candidate(NewVersion(target, tags, type)) <=> target # "release"
<1> DEFINE cur == Current(tags)
           v   == NewVersion(target, tags, type)
<1>1. cur \in Version
  BY CurrentVersion
<1>2. CASE target # "release"
  <2>1. PICK n \in Nat : v = Rc(Bumped(cur, type), n) /\ n > 0
    BY <1>2, NextRcAbove DEF NewVersion
  <2> QED BY <1>2, <2>1 DEF Candidate, Rc, Blank
<1>3. CASE target = "release" /\ cur[4] # 0
  BY <1>3 DEF NewVersion, StableVersion, Rc, Candidate
<1>4. CASE target = "release" /\ cur[4] = 0
  <2> DEFINE w == Bumped(cur, IF type = "none" THEN "patch" ELSE type)
  <2>1. w[4] = 0
    BY <1>1, BumpedForward
  <2> QED BY <1>4, <2>1 DEF NewVersion, StableVersion, Candidate
<1> QED BY <1>2, <1>3, <1>4

---------------------------------------------------------------------------
(* The inductive invariant *)

(* A run of `make release` writes the changelog entry before it tags: once    *)
(* it has committed, HEAD has the entry; once it has tagged, the tag exists   *)
(* and its commit has the entry, unless the entry was refused and is still in *)
(* the tree.  Only this relates what a later step pushes to what an earlier   *)
(* one wrote.                                                                 *)
EntryWritten(c, cs) ==
  /\ c.phase = "tagged" => c.version \in DOMAIN c.tags
  /\ c.stable /\ ~c.dirty =>
       /\ c.phase \in {"committed", "pushed"} => c.version \in cs[c.head].entries
       /\ c.phase = "tagged" => c.version \in cs[c.tags[c.version]].entries

IInv == TypeOK /\ \A d \in Dev : EntryWritten(clone[d], commits)

(* Commits are only added.                                                   *)
Extends(cs, new) == /\ DOMAIN cs \subseteq DOMAIN new
                    /\ \A i \in DOMAIN cs : new[i] = cs[i]

LEMMA CloneKept ==
  ASSUME NEW cs, NEW new, Extends(cs, new), NEW c,
         IsClone(c, cs), EntryWritten(c, cs)
  PROVE  IsClone(c, new) /\ EntryWritten(c, new)
<1>1. IsTags(c.tags, cs) /\ c.head \in DOMAIN cs
  BY DEF IsClone
<1>2. IsTags(c.tags, new) /\ c.head \in DOMAIN new
  BY <1>1 DEF IsTags, Extends
<1>3. IsClone(c, new)
  BY <1>2 DEF IsClone
<1>4. c.phase = "tagged" => c.tags[c.version] \in DOMAIN cs
  BY <1>1 DEF IsTags, EntryWritten
<1> QED BY <1>1, <1>3, <1>4 DEF EntryWritten, Extends

LEMMA OverTags ==
  ASSUME NEW cs, NEW new, NEW old, IsTags(new, cs), IsTags(old, cs)
  PROVE  IsTags(Over(new, old), cs)
  BY DEF IsTags, Over

LEMMA SetTag ==
  ASSUME NEW cs, NEW tags, IsTags(tags, cs), NEW t \in Tag, NEW n \in DOMAIN cs
  PROVE  IsTags(Set(tags, t, n), cs)
  BY DEF IsTags, Over, Set

LEMMA AppendExtends ==
  ASSUME NEW cs \in Seq(Commit), NEW e \in Commit
  PROVE  /\ Append(cs, e) \in Seq(Commit) /\ Len(Append(cs, e)) = Len(cs) + 1
         /\ Extends(cs, Append(cs, e))
         /\ DOMAIN Append(cs, e) = 1..Len(cs) + 1
         /\ Append(cs, e)[Len(cs) + 1] = e
  BY DEF Extends

(* A step of one developer keeps the invariant if the others' clones, the     *)
(* remote and the new commits are as they should be.                         *)
LEMMA OneClone ==
  ASSUME IInv, NEW d \in Dev, NEW c,
         clone' = [clone EXCEPT ![d] = c],
         commits' \in Seq(Commit), Len(commits') \in 1..MaxCommit,
         Extends(commits, commits'),
         remote' = [main |-> remote'.main, tags |-> remote'.tags],
         remote'.main \in DOMAIN commits', IsTags(remote'.tags, commits'),
         IsClone(c, commits'), EntryWritten(c, commits')
  PROVE  IInv'
<1>1. clone' = [e \in Dev |-> clone'[e]]
  BY DEF IInv, TypeOK
<1>2. ASSUME NEW e \in Dev
      PROVE  IsClone(clone'[e], commits') /\ EntryWritten(clone'[e], commits')
  <2>1. CASE e = d
    BY <2>1 DEF IInv, TypeOK
  <2>2. CASE e # d
    <3>1. clone'[e] = clone[e]
      BY <2>2 DEF IInv, TypeOK
    <3> QED BY <3>1, CloneKept DEF IInv, TypeOK
  <2> QED BY <2>1, <2>2
<1> QED BY <1>1, <1>2 DEF IInv, TypeOK

(* The same when the commits and the remote stay as they are.                *)
LEMMA LocalStep ==
  ASSUME IInv, NEW d \in Dev, NEW c, clone' = [clone EXCEPT ![d] = c],
         UNCHANGED <<commits, remote>>,
         IsClone(c, commits), EntryWritten(c, commits)
  PROVE  IInv'
  BY OneClone DEF IInv, TypeOK, Extends

LEMMA InitInvariant == Init => IInv
<1> SUFFICES ASSUME Init
             PROVE  IInv
  OBVIOUS
<1> DEFINE first == [past |-> {1}, entries |-> {}, listed |-> {}, base |-> 0,
                     breaking |-> FALSE]
<1>1. first \in Commit
  BY BoundsAssumption DEF Commit
<1>2. commits \in Seq(Commit) /\ Len(commits) = 1 /\ DOMAIN commits = {1}
  BY <1>1 DEF Init
<1>3. PICK tags \in FirstTags :
        /\ remote = [main |-> 1, tags |-> tags]
        /\ clone = [d \in Dev |-> [head |-> 1, tags |-> tags, phase |-> "idle",
                                   stable |-> FALSE, version |-> Blank,
                                   dirty |-> FALSE]]
  BY DEF Init
<1>4. IsTags(tags, commits)
  <2>1. IsTags(None, commits)
    BY DEF IsTags, None
  <2>2. \A rc \in 0..1 : <<1, 0, 0, rc>> \in Tag
    BY BoundsAssumption DEF Tag, Version, Number
  <2>3. \A rc \in 0..1 : IsTags(Set(None, <<1, 0, 0, rc>>, 1), commits)
    BY <1>2, <2>1, <2>2, SetTag
  <2> QED BY <2>1, <2>3 DEF FirstTags
<1>5. \A d \in Dev : IsClone(clone[d], commits) /\ EntryWritten(clone[d], commits)
  BY <1>2, <1>3, <1>4 DEF IsClone, EntryWritten, Phase, Tag
<1>6. clone = [d \in Dev |-> clone[d]] /\ remote = [main |-> remote.main, tags |-> remote.tags]
  BY <1>3
<1>7. remote.main \in DOMAIN commits /\ IsTags(remote.tags, commits)
  BY <1>2, <1>3, <1>4
<1> QED BY <1>2, <1>5, <1>6, <1>7, BoundsAssumption DEF IInv, TypeOK

LEMMA FetchedClone ==
  ASSUME IInv, NEW d \in Dev
  PROVE  /\ IsClone(Fetched(clone[d]), commits)
         /\ Fetched(clone[d]).phase = clone[d].phase
         /\ Fetched(clone[d]).head = clone[d].head
         /\ Fetched(clone[d]).stable = clone[d].stable
<1>1. IsClone(clone[d], commits) /\ IsTags(remote.tags, commits)
  BY DEF IInv, TypeOK
<1>2. IsTags(Over(remote.tags, clone[d].tags), commits)
  BY <1>1, OverTags DEF IsClone
<1> QED BY <1>1, <1>2 DEF IsClone, Fetched

LEMMA EndedClone ==
  ASSUME NEW cs, NEW c, IsClone(c, cs)
  PROVE  IsClone(Ended(c), cs) /\ EntryWritten(Ended(c), cs)
  BY DEF IsClone, EntryWritten, Ended, Phase, Tag

LEMMA GuardStep ==
  ASSUME IInv, NEW d \in Dev, ReleaseGuard(d)
  PROVE  IInv'
<1> DEFINE f == Fetched(clone[d])
           g == [f EXCEPT !.phase = "guarded"]
<1>1. IsClone(f, commits) /\ f.phase = "idle"
  BY FetchedClone DEF ReleaseGuard
<1> HIDE DEF f
<1>2. IsClone(g, commits) /\ g.phase = "guarded"
  BY <1>1 DEF IsClone, Phase
<1>3. EntryWritten(f, commits) /\ EntryWritten(g, commits)
  BY <1>1, <1>2 DEF EntryWritten
<1>4. \/ clone' = [clone EXCEPT ![d] = f]
      \/ clone' = [clone EXCEPT ![d] = g]
  BY DEF ReleaseGuard, Becomes, f
<1> HIDE DEF g
<1> QED BY <1>1, <1>2, <1>3, <1>4, LocalStep DEF ReleaseGuard

LEMMA AssignStep ==
  ASSUME IInv, NEW d \in Dev, NEW target, NEW c, IsClone(c, commits), NEW origin,
         AssignVersion(d, target, c, origin)
  PROVE  IInv'
<1> DEFINE type == BumpType(target, Since(c.tags, origin))
           v == NewVersion(target, c.tags, type)
           stable == target = "release"
           n == [c EXCEPT !.phase = "numbered", !.version = v, !.stable = stable]
<1>1. type \in {"none", "minor", "patch", "major"}
  BY DEF BumpType
<1> HIDE DEF type
<1>2. Candidate(v) <=> ~stable
  BY <1>1, NewVersionKind DEF IsClone
<1>3. stable \in BOOLEAN
  OBVIOUS
<1> HIDE DEF v, stable
<1>4. CASE v \in Tag /\ clone' = [clone EXCEPT ![d] = n]
  <2>1. IsClone(n, commits) /\ EntryWritten(n, commits)
    BY <1>2, <1>3, <1>4 DEF IsClone, EntryWritten, Phase
  <2> HIDE DEF n
  <2> QED BY <1>4, <2>1, LocalStep DEF AssignVersion
<1>5. CASE clone' = [clone EXCEPT ![d] = Ended(c)]
  BY <1>5, EndedClone, LocalStep DEF AssignVersion
<1> QED BY <1>4, <1>5 DEF AssignVersion, Becomes, v, type, stable

(* Where the range of an entry starts, and what it lists.                    *)
LEMMA EntryOf ==
  ASSUME commits \in Seq(Commit), NEW c, IsClone(c, commits), c.tags # None
  PROVE  /\ EntryRange(c) \subseteq 1..MaxCommit
         /\ \/ Base(c) = 0
            \/ /\ Base(c) \in DOMAIN commits
               /\ EntryRange(c) = commits[c.head].past \ commits[Base(c)].past
<1>1. IsTags(c.tags, commits) /\ c.head \in DOMAIN commits
  BY DEF IsClone
<1>2. \A n \in DOMAIN commits : commits[n] \in Commit
  OBVIOUS
<1>3. \A n \in DOMAIN commits : commits[n].past \subseteq 1..MaxCommit
  BY <1>2 DEF Commit
<1>4. Newest(c.tags) \in DOMAIN c.tags
  <2>1. CASE Versions(c.tags) = {}
    <3>1. DOMAIN c.tags # {}
      BY <1>1 DEF IsTags, None
    <3> QED BY <2>1, <3>1 DEF Newest, Versions
  <2>2. CASE Versions(c.tags) # {}
    BY <1>1, <2>2, CurrentIsLast DEF Newest, Versions
  <2> QED BY <2>1, <2>2
<1>5. c.tags[Newest(c.tags)] \in DOMAIN commits
  BY <1>1, <1>4 DEF IsTags
<1>6. CASE c.version \in DOMAIN c.tags
  <2>1. c.tags[c.version] \in DOMAIN commits
    BY <1>1, <1>6 DEF IsTags
  <2> QED BY <1>3, <1>6, <2>1 DEF EntryRange, Base
<1>7. CASE c.version \notin DOMAIN c.tags
  BY <1>1, <1>3, <1>5, <1>7 DEF EntryRange, Base
<1> QED BY <1>6, <1>7

LEMMA GeneratorStep ==
  ASSUME IInv, NEW d \in Dev, GeneratorFails(d)
  PROVE  IInv'
<1> DEFINE c == clone[d]
           f == [c EXCEPT !.phase = "pushed"]
<1>1. IsClone(c, commits) /\ EntryWritten(c, commits) /\ c.phase = "numbered"
  BY DEF IInv, TypeOK, GeneratorFails
<1> HIDE DEF c
<1>2. CASE c.stable
  <2>1. clone' = [clone EXCEPT ![d] = Ended(c)]
    BY <1>2 DEF GeneratorFails, Becomes, StopsWithoutEntry, c
  <2> QED BY <1>1, <2>1, EndedClone, LocalStep DEF GeneratorFails
<1>3. CASE ~c.stable
  <2>1. clone' = [clone EXCEPT ![d] = f]
    BY <1>3 DEF GeneratorFails, Becomes, StopsWithoutEntry, c
  <2>2. IsClone(f, commits) /\ EntryWritten(f, commits)
    BY <1>1, <1>3 DEF IsClone, EntryWritten, Phase
  <2> HIDE DEF f
  <2> QED BY <2>1, <2>2, LocalStep DEF GeneratorFails
<1> QED BY <1>2, <1>3

LEMMA CommitStep ==
  ASSUME IInv, NEW d \in Dev, CommitEntry(d)
  PROVE  IInv'
<1> DEFINE c == clone[d]
<1>1. /\ IsClone(c, commits) /\ EntryWritten(c, commits) /\ c.phase = "numbered"
      /\ commits \in Seq(Commit) /\ Len(commits) \in 1..MaxCommit /\ c.tags # None
      /\ remote = [main |-> remote.main, tags |-> remote.tags]
      /\ remote.main \in DOMAIN commits /\ IsTags(remote.tags, commits)
  BY DEF IInv, TypeOK, CommitEntry
<1> HIDE DEF c
<1>2. CASE UNCHANGED commits
           /\ Becomes(d, [c EXCEPT !.phase = "pushed", !.dirty = TRUE])
  <2> DEFINE f == [c EXCEPT !.phase = "pushed", !.dirty = TRUE]
  <2>1. clone' = [clone EXCEPT ![d] = f]
    BY <1>2 DEF Becomes
  <2>2. IsClone(f, commits) /\ EntryWritten(f, commits)
    BY <1>1 DEF IsClone, EntryWritten, Phase
  <2> HIDE DEF f
  <2> QED BY <1>2, <2>1, <2>2, LocalStep DEF CommitEntry
<1>3. CASE /\ Len(commits) < MaxCommit /\ commits' = Append(commits, Entry(c))
           /\ Becomes(d, [c EXCEPT !.phase = "committed", !.head = Len(commits) + 1])
  <2> DEFINE child == Entry(c)
             f == [c EXCEPT !.phase = "committed", !.head = Len(commits) + 1]
  <2>1. /\ Len(commits) < MaxCommit /\ commits' = Append(commits, child)
        /\ clone' = [clone EXCEPT ![d] = f] /\ remote' = remote
    BY <1>3 DEF CommitEntry, Becomes
  <2>2. child \in Commit
    <3>1. commits[c.head] \in Commit /\ c.version \in Tag
      BY <1>1 DEF IsClone
    <3>2. Len(commits) + 1 \in 1..MaxCommit
      BY <1>1, <2>1, BoundsAssumption
    <3>3. Base(c) \in {0} \cup DOMAIN commits /\ EntryRange(c) \subseteq 1..MaxCommit
      BY <1>1, EntryOf
    <3>4. Base(c) \in 0..MaxCommit
      BY <1>1, <3>3, BoundsAssumption
    <3> QED BY <3>1, <3>2, <3>3, <3>4 DEF Commit, Entry
  <2>3. c.version \in child.entries
    BY DEF Entry
  <2> HIDE DEF child
  <2>4. /\ commits' \in Seq(Commit) /\ Len(commits') = Len(commits) + 1
        /\ Extends(commits, commits') /\ Len(commits) + 1 \in DOMAIN commits'
        /\ commits'[Len(commits) + 1] = child
    BY <1>1, <2>1, <2>2, AppendExtends
  <2>5. Len(commits') \in 1..MaxCommit
    BY <1>1, <2>1, <2>4, BoundsAssumption
  <2>6. IsClone(c, commits')
    BY <1>1, <2>4, CloneKept
  <2>7. IsClone(f, commits') /\ EntryWritten(f, commits')
    <3>1. /\ f \in [head : DOMAIN commits', tags : {c.tags}, phase : Phase,
                    stable : BOOLEAN, version : Tag, dirty : BOOLEAN]
          /\ f.head = Len(commits) + 1 /\ f.tags = c.tags /\ f.phase = "committed"
          /\ f.stable = c.stable /\ f.version = c.version
      BY <2>4, <2>6 DEF IsClone, Phase
    <3> HIDE DEF f
    <3>2. Candidate(c.version) <=> ~c.stable
      BY <1>1 DEF IsClone
    <3>3. IsClone(f, commits')
      BY <2>6, <3>1, <3>2 DEF IsClone
    <3>4. EntryWritten(f, commits')
      BY <2>3, <2>4, <3>1 DEF EntryWritten
    <3> QED BY <3>3, <3>4
  <2>8. /\ remote' = [main |-> remote'.main, tags |-> remote'.tags]
        /\ remote'.main \in DOMAIN commits' /\ IsTags(remote'.tags, commits')
    BY <1>1, <2>1, <2>4 DEF IsTags, Extends
  <2> HIDE DEF f
  <2> QED BY <2>1, <2>4, <2>5, <2>7, <2>8, OneClone
<1> QED BY <1>2, <1>3 DEF CommitEntry, c

LEMMA PushStep ==
  ASSUME IInv, NEW d \in Dev, PushMain(d)
  PROVE  IInv'
<1> DEFINE c == clone[d]
           p == [c EXCEPT !.phase = "pushed"]
<1>1. /\ IsClone(c, commits) /\ EntryWritten(c, commits) /\ c.phase = "committed"
      /\ clone' = [clone EXCEPT ![d] = p]
  BY DEF IInv, TypeOK, PushMain, Becomes
<1>2. IsClone(p, commits) /\ EntryWritten(p, commits) /\ c.head \in DOMAIN commits
  BY <1>1 DEF IsClone, EntryWritten, Phase
<1> HIDE DEF p
<1>3. CASE remote' = remote
  BY <1>1, <1>2, <1>3, LocalStep DEF PushMain
<1>4. CASE remote' = [remote EXCEPT !.main = c.head]
  <2>1. commits' = commits
    BY DEF PushMain
  <2>2. /\ remote' = [main |-> remote'.main, tags |-> remote'.tags]
        /\ remote'.main \in DOMAIN commits' /\ IsTags(remote'.tags, commits')
    BY <1>2, <1>4, <2>1 DEF IInv, TypeOK
  <2> HIDE DEF c
  <2> QED BY <1>1, <1>2, <2>1, <2>2, OneClone DEF IInv, TypeOK, Extends
<1> QED BY <1>3, <1>4 DEF PushMain

LEMMA TagStep ==
  ASSUME IInv, NEW d \in Dev, TagHead(d)
  PROVE  IInv'
<1> DEFINE c == clone[d]
           tags == Set(c.tags, c.version, c.head)
           g == [c EXCEPT !.phase = "tagged", !.tags = tags]
<1>1. IsClone(c, commits) /\ EntryWritten(c, commits) /\ c.phase = "pushed"
  BY DEF IInv, TypeOK, TagHead
<1>2. \/ clone' = [clone EXCEPT ![d] = Ended(c)]
      \/ clone' = [clone EXCEPT ![d] = g]
  BY DEF TagHead, Becomes
<1> HIDE DEF c
<1>3. /\ IsTags(tags, commits) /\ c.version \in DOMAIN tags
      /\ tags[c.version] = c.head
  <2>1. IsTags(c.tags, commits) /\ c.version \in Tag /\ c.head \in DOMAIN commits
    BY <1>1 DEF IsClone
  <2> HIDE DEF tags
  <2>2. tags = Set(c.tags, c.version, c.head)
    BY DEF tags
  <2>3. IsTags(Set(c.tags, c.version, c.head), commits)
    BY <2>1, SetTag
  <2>4. /\ DOMAIN Set(c.tags, c.version, c.head) = DOMAIN c.tags \cup {c.version}
        /\ Set(c.tags, c.version, c.head)[c.version] = c.head
    BY DEF Set, Over
  <2> QED BY <2>2, <2>3, <2>4
<1> HIDE DEF tags
<1>4. /\ IsClone(g, commits) /\ g.phase = "tagged" /\ g.tags = tags
      /\ g.version = c.version /\ g.stable = c.stable /\ g.dirty = c.dirty
  BY <1>1, <1>3 DEF IsClone, Phase
<1> HIDE DEF g
<1>5. EntryWritten(g, commits)
  BY <1>1, <1>3, <1>4 DEF EntryWritten
<1> QED BY <1>1, <1>2, <1>4, <1>5, EndedClone, LocalStep DEF TagHead

LEMMA PushTagStep ==
  ASSUME IInv, NEW d \in Dev, PushTag(d)
  PROVE  IInv'
<1> DEFINE c == clone[d]
<1>1. /\ IsClone(c, commits) /\ EntryWritten(c, commits) /\ c.phase = "tagged"
      /\ clone' = [clone EXCEPT ![d] = Ended(c)]
      /\ commits' = commits
  BY DEF IInv, TypeOK, PushTag, Becomes
<1>2. IsClone(Ended(c), commits) /\ EntryWritten(Ended(c), commits)
  BY <1>1, EndedClone
<1>3. CASE remote' = remote
  BY <1>1, <1>2, <1>3, LocalStep
<1>4. CASE remote' = [remote EXCEPT !.tags = Set(@, c.version, c.tags[c.version])]
  <2>1. c.version \in Tag /\ c.tags[c.version] \in DOMAIN commits
    BY <1>1 DEF IsClone, IsTags, EntryWritten
  <2> HIDE DEF c
  <2>2. IsTags(Set(remote.tags, c.version, c.tags[c.version]), commits)
    BY <2>1, SetTag DEF IInv, TypeOK
  <2>3. /\ remote' = [main |-> remote'.main, tags |-> remote'.tags]
        /\ remote'.main \in DOMAIN commits' /\ IsTags(remote'.tags, commits')
    BY <1>1, <1>4, <2>2 DEF IInv, TypeOK
  <2> QED BY <1>1, <1>2, <2>3, OneClone DEF IInv, TypeOK, Extends
<1> QED BY <1>3, <1>4 DEF PushTag

LEMMA InterruptStep ==
  ASSUME IInv, NEW d \in Dev, Interrupt(d)
  PROVE  IInv'
<1>1. IsClone(clone[d], commits)
  BY DEF IInv, TypeOK
<1> QED BY <1>1, EndedClone, LocalStep DEF Interrupt, Becomes

LEMMA SyncStep ==
  ASSUME IInv, NEW d \in Dev, Sync(d)
  PROVE  IInv'
<1> DEFINE f == Fetched(clone[d])
           g == [f EXCEPT !.head = remote.main, !.dirty = FALSE]
<1>1. /\ IsClone(f, commits) /\ f.phase = "idle" /\ remote.main \in DOMAIN commits
      /\ clone' = [clone EXCEPT ![d] = g]
  BY FetchedClone DEF Sync, Becomes, IInv, TypeOK
<1> HIDE DEF f
<1>2. IsClone(g, commits) /\ EntryWritten(g, commits)
  BY <1>1 DEF IsClone, EntryWritten
<1> HIDE DEF g
<1> QED BY <1>1, <1>2, LocalStep DEF Sync

LEMMA MergeStep ==
  ASSUME IInv, NEW breaking \in BOOLEAN, Merge(breaking)
  PROVE  IInv'
<1> DEFINE child == [past |-> commits[remote.main].past \cup {Len(commits) + 1},
                     entries |-> commits[remote.main].entries,
                     listed |-> commits[remote.main].listed, base |-> 0,
                     breaking |-> breaking]
<1>1. /\ commits \in Seq(Commit) /\ Len(commits) \in 1..MaxCommit
      /\ Len(commits) < MaxCommit /\ commits' = Append(commits, child)
      /\ remote' = [remote EXCEPT !.main = Len(commits) + 1] /\ clone' = clone
      /\ remote = [main |-> remote.main, tags |-> remote.tags]
      /\ remote.main \in DOMAIN commits /\ IsTags(remote.tags, commits)
  BY DEF IInv, TypeOK, Merge
<1>2. child \in Commit
  <2>1. commits[remote.main] \in Commit
    BY <1>1
  <2>2. Len(commits) + 1 \in 1..MaxCommit /\ 0 \in 0..MaxCommit
    BY <1>1, BoundsAssumption
  <2> QED BY <2>1, <2>2 DEF Commit
<1> HIDE DEF child
<1>3. /\ commits' \in Seq(Commit) /\ Len(commits') = Len(commits) + 1
      /\ Extends(commits, commits') /\ Len(commits) + 1 \in DOMAIN commits'
  BY <1>1, <1>2, AppendExtends
<1>4. Len(commits') \in 1..MaxCommit
  BY <1>1, <1>3, BoundsAssumption
<1>5. /\ remote' = [main |-> remote'.main, tags |-> remote'.tags]
      /\ remote'.main \in DOMAIN commits' /\ IsTags(remote'.tags, commits')
  BY <1>1, <1>3 DEF IsTags, Extends
<1>6. \A d \in Dev : IsClone(clone[d], commits') /\ EntryWritten(clone[d], commits')
  BY <1>3, CloneKept DEF IInv, TypeOK
<1> QED BY <1>1, <1>3, <1>4, <1>5, <1>6 DEF IInv, TypeOK

LEMMA StepInvariant == IInv /\ [Next]_vars => IInv'
<1> SUFFICES ASSUME IInv, [Next]_vars
             PROVE  IInv'
  OBVIOUS
<1>1. CASE UNCHANGED vars
  BY <1>1 DEF vars, IInv, TypeOK
<1>2. ASSUME NEW d \in Dev, ReleaseGuard(d)
      PROVE  IInv'
  BY <1>2, GuardStep
<1>3. ASSUME NEW d \in Dev, NEW target \in Target,
             AssignVersion(d, target, Fetched(clone[d]), remote.main)
      PROVE  IInv'
  BY <1>3, FetchedClone, AssignStep
<1>4. ASSUME NEW d \in Dev, NEW target \in Target,
             AssignVersion(d, target, clone[d], clone[d].head)
      PROVE  IInv'
  <2>1. IsClone(clone[d], commits)
    BY DEF IInv, TypeOK
  <2> QED BY <1>4, <2>1, AssignStep
<1>5. ASSUME NEW d \in Dev,
             \/ GeneratorFails(d) \/ CommitEntry(d)
             \/ PushMain(d) \/ TagHead(d) \/ PushTag(d)
      PROVE  IInv'
  BY <1>5, GeneratorStep, CommitStep, PushStep, TagStep, PushTagStep
<1>6. ASSUME NEW d \in Dev, Interrupt(d) \/ Sync(d)
      PROVE  IInv'
  BY <1>6, InterruptStep, SyncStep
<1>7. ASSUME NEW breaking \in BOOLEAN, Merge(breaking)
      PROVE  IInv'
  BY <1>7, MergeStep
<1> QED BY <1>1, <1>2, <1>3, <1>4, <1>5, <1>6, <1>7 DEF Next

---------------------------------------------------------------------------
(* The theorems *)

THEOREM Invariance == Spec => []IInv
  BY InitInvariant, StepInvariant, PTL DEF Spec

(* Every clone, the remote and every running recipe are well formed: tags     *)
(* point at commits there are, and only `make release` has a stable version   *)
(* in hand (release.py:320-344, Makefile:183-228).                            *)
THEOREM TypeCorrect == Spec => []TypeOK
<1>1. IInv => TypeOK
  BY DEF IInv
<1> QED BY <1>1, Invariance, PTL

LEMMA StepDescribed == IInv /\ [Next]_vars => [NewTagHasEntry]_vars
<1> SUFFICES ASSUME IInv, Next
             PROVE  NewTagHasEntry
  BY DEF NewTagHasEntry, vars
<1>1. CASE remote'.tags = remote.tags
  BY <1>1 DEF NewTagHasEntry
<1>2. ASSUME NEW d \in Dev, PushTag(d)
      PROVE  NewTagHasEntry
  <2> DEFINE c == clone[d]
             tags == Set(remote.tags, c.version, c.tags[c.version])
  <2>1. /\ IsClone(c, commits) /\ EntryWritten(c, commits) /\ c.phase = "tagged"
        /\ remote'.tags = remote.tags \/ remote'.tags = tags
    BY <1>2 DEF PushTag, IInv, TypeOK
  <2> HIDE DEF c
  <2>2. CASE remote'.tags = tags
    <3>1. DOMAIN tags = DOMAIN remote.tags \cup {c.version}
          /\ tags[c.version] = c.tags[c.version]
      BY DEF Set, Over
    <3>2. ~Candidate(c.version) /\ ~c.dirty
             => c.version \in commits[c.tags[c.version]].entries
      BY <2>1 DEF IsClone, EntryWritten
    <3>3. c.dirty => Refused(c.version)
      BY <2>1 DEF Refused, c
    <3> HIDE DEF tags
    <3> QED BY <1>2, <2>2, <3>1, <3>2, <3>3 DEF NewTagHasEntry, PushTag
  <2> QED BY <2>1, <2>2, <1>1
<1>3. ASSUME NEW d \in Dev, PushMain(d)
      PROVE  remote'.tags = remote.tags
  BY <1>3 DEF PushMain, IInv, TypeOK
<1>4. ASSUME NEW breaking \in BOOLEAN, Merge(breaking)
      PROVE  remote'.tags = remote.tags
  BY <1>4 DEF Merge, IInv, TypeOK
<1>5. ASSUME NEW d \in Dev,
             \/ ReleaseGuard(d)
             \/ \E target \in Target :
                  \/ AssignVersion(d, target, Fetched(clone[d]), remote.main)
                  \/ AssignVersion(d, target, clone[d], clone[d].head)
             \/ GeneratorFails(d) \/ CommitEntry(d)
             \/ TagHead(d) \/ Interrupt(d) \/ Sync(d)
      PROVE  remote'.tags = remote.tags
  <2>1. remote' = remote
    BY <1>5 DEF ReleaseGuard, AssignVersion, GeneratorFails, CommitEntry, TagHead,
                   Interrupt, Sync
  <2> QED BY <2>1
<1> QED BY <1>1, <1>2, <1>3, <1>4, <1>5 DEF Next

(* However runs overlap, fail or stop, a stable version that reaches the      *)
(* remote is on a commit whose changelog describes it, unless git refused the *)
(* commit of the run that pushes it (Makefile:216-228).                       *)
THEOREM StableReleasesDescribed == Spec => StableReleaseHasEntry
  BY Invariance, StepDescribed, PTL DEF Spec, StableReleaseHasEntry

LEMMA AssignForward ==
  ASSUME IInv, NEW d \in Dev, NEW target, NEW c, IsClone(c, commits), NEW origin,
         AssignVersion(d, target, c, origin), NEW e \in Dev
  PROVE  NumberSortsLast(e)
<1> DEFINE type == BumpType(target, Since(c.tags, origin))
           v == NewVersion(target, c.tags, type)
           n == [c EXCEPT !.phase = "numbered", !.version = v,
                          !.stable = target = "release"]
<1>1. type \in {"none", "minor", "patch", "major"}
  BY DEF BumpType
<1> HIDE DEF type
<1>2. \/ clone' = [clone EXCEPT ![d] = Ended(c)]
      \/ clone' = [clone EXCEPT ![d] = n] /\ v \in Tag
  BY DEF AssignVersion, Becomes, type
<1>3. DOMAIN clone = Dev
  BY DEF IInv, TypeOK
<1>4. Ended(c).phase = "idle"
  BY DEF Ended, IsClone, Phase, Tag
<1>5. CASE clone'[e] = clone[e] \/ clone'[e] = Ended(c)
  BY <1>4, <1>5 DEF NumberSortsLast
<1>6. CASE clone'[e] = n /\ v \in Tag /\ v # Blank
  <2>1. v \in Version /\ IsTags(c.tags, commits)
    BY <1>6 DEF Tag, IsClone
  <2>2. \A t \in Versions(c.tags) : Candidate(v) \/ ~Candidate(t) => Below(t, v)
    BY <1>1, <2>1, NewVersionAbove
  <2> HIDE DEF v
  <2>3. n.tags = c.tags /\ n.version = v
    BY <1>6 DEF IsClone, Phase
  <2> HIDE DEF n
  <2> QED BY <1>6, <2>2, <2>3 DEF NumberSortsLast
<1>7. CASE clone'[e] = n /\ v = Blank
  <2> HIDE DEF v
  <2>1. n.version = Blank
    BY <1>7 DEF IsClone, Phase, Tag
  <2> HIDE DEF n
  <2> QED BY <1>7, <2>1 DEF NumberSortsLast
<1> HIDE DEF n, v
<1> QED BY <1>2, <1>3, <1>5, <1>6, <1>7

LEMMA StepForward == IInv /\ [Next]_vars => [\A d \in Dev : NumberSortsLast(d)]_vars
<1> SUFFICES ASSUME IInv, Next, NEW e \in Dev
             PROVE  NumberSortsLast(e)
  BY DEF NumberSortsLast, vars
<1>1. DOMAIN clone = Dev /\ \A d \in Dev : IsClone(clone[d], commits)
  BY DEF IInv, TypeOK
<1>2. CASE clone'[e] = clone[e] \/ clone'[e].phase # "numbered"
            \/ clone[e].phase # "guarded"
  BY <1>2 DEF NumberSortsLast
<1>3. ASSUME NEW d \in Dev, NEW target \in Target,
             \/ AssignVersion(d, target, Fetched(clone[d]), remote.main)
             \/ AssignVersion(d, target, clone[d], clone[d].head)
      PROVE  NumberSortsLast(e)
  BY <1>1, <1>3, AssignForward, FetchedClone
<1>4. ASSUME NEW d \in Dev,
             \/ ReleaseGuard(d) \/ GeneratorFails(d) \/ CommitEntry(d)
             \/ PushMain(d) \/ TagHead(d) \/ PushTag(d) \/ Sync(d)
      PROVE  clone'[e] = clone[e] \/ clone[e].phase # "guarded"
  <2>1. \E c : clone' = [clone EXCEPT ![d] = c]
    BY <1>4 DEF ReleaseGuard, GeneratorFails, CommitEntry, PushMain, TagHead,
                PushTag, Sync, Becomes
  <2>2. clone[d].phase # "guarded"
    BY <1>4 DEF ReleaseGuard, GeneratorFails, CommitEntry, PushMain, TagHead,
                PushTag, Sync
  <2> QED BY <1>1, <2>1, <2>2
<1>5. ASSUME NEW d \in Dev, Interrupt(d)
      PROVE  clone'[e] = clone[e] \/ clone'[e].phase # "numbered"
  <2>1. clone' = [clone EXCEPT ![d] = Ended(clone[d])]
    BY <1>5 DEF Interrupt, Becomes
  <2>2. Ended(clone[d]).phase = "idle"
    BY <1>1 DEF Ended, IsClone, Phase, Tag
  <2> QED BY <1>1, <2>1, <2>2
<1>6. ASSUME NEW breaking \in BOOLEAN, Merge(breaking)
      PROVE  clone'[e] = clone[e]
  BY <1>6 DEF Merge
<1> QED BY <1>2, <1>3, <1>4, <1>5, <1>6 DEF Next

(* For any tags, bump and bounds: a new rc sorts after every tag, a new       *)
(* stable version after every stable one (release.py:137-149, 320-344).       *)
THEOREM NumbersGoForward == Spec => NewVersionSortsLast
  BY Invariance, StepForward, PTL DEF Spec, NewVersionSortsLast

---------------------------------------------------------------------------
(* What the changelogs list *)

(* A commit's ancestors' ancestors are its own, and what a changelog lists    *)
(* stays listed: entries are put before the old ones, which no step drops.    *)
Hereditary(cs) == \A k \in DOMAIN cs :
  /\ k \in cs[k].past /\ cs[k].past \subseteq DOMAIN cs
  /\ cs[k].base \in {0} \cup DOMAIN cs
  /\ \A j \in cs[k].past : /\ cs[j].past \subseteq cs[k].past
                           /\ cs[j].listed \subseteq cs[k].listed

HInv == Hereditary(commits) /\ ChangesListed

(* A commit on top of p keeps this if its changelog extends p's and a new     *)
(* entry lists p's history after the entry's base.                            *)
LEMMA NewCommit ==
  ASSUME commits \in Seq(Commit), HInv, NEW p \in DOMAIN commits, NEW e \in Commit,
         NEW n, n = Len(commits) + 1, commits' = Append(commits, e),
         e.past = commits[p].past \cup {n},
         commits[p].listed \subseteq e.listed,
         \/ e.base = 0
         \/ /\ e.base \in DOMAIN commits
            /\ commits[p].past \ commits[e.base].past \subseteq e.listed
  PROVE  HInv'
<1>1. /\ DOMAIN commits' = DOMAIN commits \cup {n} /\ n \notin DOMAIN commits
      /\ \A i \in DOMAIN commits : commits'[i] = commits[i]
      /\ commits'[n] = e
      /\ 0 \notin DOMAIN commits
  BY AppendExtends DEF Extends
<1>2. e.past = commits[p].past \cup {n}
  OBVIOUS
<1>3. Hereditary(commits)
  BY DEF HInv
<1>4. Hereditary(commits')
  <2>1. ASSUME NEW k \in DOMAIN commits
        PROVE  /\ commits'[k].past \subseteq DOMAIN commits' /\ k \in commits'[k].past
               /\ commits'[k].base \in {0} \cup DOMAIN commits'
               /\ \A j \in commits'[k].past :
                    /\ commits'[j].past \subseteq commits'[k].past
                    /\ commits'[j].listed \subseteq commits'[k].listed
    BY <1>1, <1>3 DEF Hereditary
  <2>2. \A j \in commits[p].past : /\ j \in DOMAIN commits
                                   /\ commits[j].past \subseteq commits[p].past
                                   /\ commits[j].listed \subseteq commits[p].listed
    BY <1>3 DEF Hereditary
  <2>3. /\ e.past \subseteq DOMAIN commits' /\ n \in e.past
        /\ e.base \in {0} \cup DOMAIN commits'
        /\ \A j \in e.past : /\ commits'[j].past \subseteq e.past
                             /\ commits'[j].listed \subseteq e.listed
    BY <1>1, <1>2, <2>2
  <2> QED BY <1>1, <2>1, <2>3 DEF Hereditary
<1>5. ASSUME NEW k \in DOMAIN commits
      PROVE  /\ Adds(k)' <=> Adds(k)
             /\ RangesMeet(k)' <=> RangesMeet(k)
             /\ Unlisted(k)' = Unlisted(k)
             /\ \A x : Excused(x, k)' /\ x \in DOMAIN commits <=> Excused(x, k) /\ x \in DOMAIN commits
  <2>1. /\ commits'[k] = commits[k]
        /\ \A j \in commits[k].past : /\ commits'[j] = commits[j]
                                      /\ Adds(j)' <=> Adds(j)
                                      /\ Adds(j) => /\ commits[j].base \in DOMAIN commits
                                                    /\ commits'[commits[j].base] = commits[commits[j].base]
    BY <1>1, <1>3 DEF Hereditary, Adds
  <2>2. RangesMeet(k)' <=> RangesMeet(k)
    BY <2>1 DEF RangesMeet
  <2>3. ASSUME NEW x \in DOMAIN commits
        PROVE  Excused(x, k)' <=> Excused(x, k)
    <3>1. Adds(x)' <=> Adds(x)
      BY <1>1 DEF Adds
    <3>2. ASSUME NEW j \in commits[k].past, Adds(j)
          PROVE  /\ Adds(j)'
                 /\ Adds(commits[j].base)' <=> Adds(commits[j].base)
                 /\ commits'[commits'[j].base].past = commits[commits[j].base].past
      BY <2>1, <3>2 DEF Adds
    <3>3. ASSUME NEW j \in commits[k].past
          PROVE  /\ commits'[k].past = commits[k].past
                 /\ Adds(j)' => Adds(j)
      BY <2>1
    <3>4. ASSUME Excused(x, k), ~Adds(x)
          PROVE  Excused(x, k)'
      <4>1. PICK j \in commits[k].past : /\ Adds(j) /\ ~Adds(commits[j].base)
                                         /\ x \in commits[commits[j].base].past
        BY <3>4 DEF Excused
      <4>2. /\ j \in commits'[k].past /\ Adds(j)' /\ ~Adds(commits[j].base)'
            /\ x \in commits'[commits'[j].base].past
        BY <3>2, <3>3, <4>1
      <4> QED BY <4>2 DEF Excused
    <3>5. ASSUME Excused(x, k)', ~Adds(x)
          PROVE  Excused(x, k)
      <4>1. PICK j \in commits'[k].past : /\ Adds(j)' /\ ~Adds(commits[j].base)'
                                          /\ x \in commits'[commits'[j].base].past
        BY <3>1, <3>5 DEF Excused
      <4>2. /\ j \in commits[k].past /\ Adds(j) /\ ~Adds(commits[j].base)
            /\ x \in commits[commits[j].base].past
        BY <2>1, <3>2, <4>1
      <4> QED BY <4>2 DEF Excused
    <3> QED BY <3>1, <3>4, <3>5 DEF Excused
  <2> QED BY <2>1, <2>2, <2>3 DEF Adds, Unlisted
<1>6. ASSUME NEW k \in DOMAIN commits, Adds(k)', RangesMeet(k)', NEW x \in Unlisted(k)'
      PROVE  Excused(x, k)'
  <2>1. x \in DOMAIN commits /\ x \in Unlisted(k) /\ Adds(k) /\ RangesMeet(k)
    BY <1>3, <1>5, <1>6 DEF Unlisted, Hereditary
  <2>2. Excused(x, k)
    BY <2>1 DEF HInv, ChangesListed
  <2> QED BY <1>5, <2>1, <2>2
<1>7. ASSUME Adds(n)', RangesMeet(n)', NEW x \in Unlisted(n)'
      PROVE  Excused(x, n)'
  <2> DEFINE b == e.base
  <2>1. b \in DOMAIN commits /\ commits[p].past \ commits[b].past \subseteq e.listed
    BY <1>1, <1>7 DEF Adds
  <2> HIDE DEF b
  <2>2. b \in commits[p].past /\ commits'[n].base = b
    <3>1. n \in commits'[n].past /\ commits'[n] = e
      BY <1>1, <1>2
    <3>2. e.base \in e.past
      BY <1>7, <3>1 DEF RangesMeet
    <3> QED BY <1>1, <1>2, <2>1, <3>1, <3>2 DEF b
  <2>3. x = n \/ (/\ x \in commits[p].past /\ x \in commits[b].past
                 /\ x \notin commits[p].listed)
    <3>1. x \in e.past \ e.listed
      BY <1>1, <1>7 DEF Unlisted
    <3> QED BY <1>2, <2>1, <3>1
  <2>4. CASE x = n
    BY <1>7, <2>4 DEF Excused
  <2>5. CASE x # n /\ ~Adds(b)
    <3>1. ~Adds(b)' /\ commits'[b] = commits[b]
      BY <1>1, <2>1, <2>5 DEF Adds
    <3>2. n \in commits'[n].past
      BY <1>1, <1>2
    <3> QED BY <1>7, <2>2, <2>3, <2>5, <3>1, <3>2 DEF Excused
  <2>6. CASE x # n /\ Adds(b)
    <3>1. commits[b].past \subseteq commits[p].past /\ commits[b].listed \subseteq commits[p].listed
          /\ commits[b].past \subseteq DOMAIN commits
      BY <1>3, <2>1, <2>2 DEF Hereditary
    <3>2. x \in Unlisted(b) /\ x \in DOMAIN commits
      BY <2>3, <2>6, <3>1 DEF Unlisted
    <3>3. commits'[b].past \subseteq commits'[n].past /\ commits'[b] = commits[b]
      BY <1>1, <1>2, <2>1, <3>1
    <3>4. RangesMeet(b)'
      BY <1>7, <3>3 DEF RangesMeet
    <3>5. Excused(x, b)
      BY <1>5, <2>1, <2>6, <3>2, <3>4 DEF HInv, ChangesListed
    <3>6. Excused(x, b)'
      BY <1>5, <2>1, <3>2, <3>5
    <3> QED BY <3>3, <3>6 DEF Excused
  <2> QED BY <2>3, <2>4, <2>5, <2>6
<1>8. ChangesListed'
  BY <1>1, <1>6, <1>7 DEF ChangesListed
<1> QED BY <1>4, <1>8 DEF HInv

LEMMA HistoryStep == IInv /\ HInv /\ [Next]_vars => HInv'
<1> SUFFICES ASSUME IInv, HInv, [Next]_vars
             PROVE  HInv'
  OBVIOUS
<1>1. /\ commits \in Seq(Commit) /\ Len(commits) \in 1..MaxCommit
      /\ remote.main \in DOMAIN commits
      /\ \A d \in Dev : IsClone(clone[d], commits)
  BY DEF IInv, TypeOK
<1>2. CASE commits' = commits
  BY <1>2 DEF HInv, Hereditary, ChangesListed, Adds, RangesMeet, Unlisted, Excused
<1>3. ASSUME NEW d \in Dev, CommitEntry(d), commits' # commits
      PROVE  HInv'
  <2> DEFINE c == clone[d]
             child == Entry(c)
  <2>1. c.tags # None /\ commits' = Append(commits, child) /\ Len(commits) < MaxCommit
    BY <1>3 DEF CommitEntry
  <2>2. commits' \in Seq(Commit)
    BY <1>3, CommitStep DEF IInv, TypeOK
  <2>3. IsClone(c, commits) /\ c.head \in DOMAIN commits
    BY <1>1 DEF IsClone
  <2> HIDE DEF c
  <2>4. child \in Commit
    BY <1>1, <2>1, <2>2
  <2>5. \/ child.base = 0
        \/ /\ child.base \in DOMAIN commits
           /\ commits[c.head].past \ commits[child.base].past \subseteq child.listed
    BY <1>1, <2>1, <2>3, EntryOf DEF Entry
  <2>6. /\ child.past = commits[c.head].past \cup {Len(commits) + 1}
        /\ commits[c.head].listed \subseteq child.listed
    BY DEF Entry
  <2> HIDE DEF child
  <2> QED BY <1>1, <2>1, <2>3, <2>4, <2>5, <2>6, NewCommit
<1>4. ASSUME NEW breaking \in BOOLEAN, Merge(breaking)
      PROVE  HInv'
  <2> DEFINE child == [past |-> commits[remote.main].past \cup {Len(commits) + 1},
                       entries |-> commits[remote.main].entries,
                       listed |-> commits[remote.main].listed, base |-> 0,
                       breaking |-> breaking]
  <2>1. commits' = Append(commits, child)
    BY <1>4 DEF Merge
  <2>2. commits' \in Seq(Commit)
    BY <1>4, MergeStep DEF IInv, TypeOK
  <2>3. child \in Commit
    BY <1>1, <2>1, <2>2
  <2>4. /\ child.base = 0 /\ commits[remote.main].listed \subseteq child.listed
        /\ child.past = commits[remote.main].past \cup {Len(commits) + 1}
    OBVIOUS
  <2> HIDE DEF child
  <2> QED BY <1>1, <2>1, <2>3, <2>4, NewCommit
<1>5. ASSUME NEW d \in Dev,
             \/ ReleaseGuard(d)
             \/ \E target \in Target :
                  \/ AssignVersion(d, target, Fetched(clone[d]), remote.main)
                  \/ AssignVersion(d, target, clone[d], clone[d].head)
             \/ GeneratorFails(d) \/ PushMain(d) \/ TagHead(d) \/ PushTag(d)
             \/ Interrupt(d) \/ Sync(d)
      PROVE  commits' = commits
  BY <1>5 DEF ReleaseGuard, AssignVersion, GeneratorFails, PushMain, TagHead, PushTag,
              Interrupt, Sync
<1> QED BY <1>2, <1>3, <1>4, <1>5 DEF Next, vars

(* For any number of developers, commits and overlapping or stopped runs: the *)
(* entries of a changelog whose ranges start in their own history leave out   *)
(* nothing but changelog commits and what was tagged without an entry         *)
(* (generate_changelog.py:209-230, Makefile:183-228).                         *)
THEOREM NothingLeftOut == Spec => []ChangesListed
<1>1. Init => HInv
  <2> SUFFICES ASSUME Init
               PROVE  HInv
    OBVIOUS
  <2>1. /\ DOMAIN commits = {1} /\ commits[1].past = {1} /\ commits[1].base = 0
    BY DEF Init
  <2> QED BY <2>1 DEF HInv, Hereditary, ChangesListed, Adds
<1>2. HInv => ChangesListed
  BY DEF HInv
<1> QED BY <1>1, <1>2, Invariance, HistoryStep, PTL DEF Spec

---------------------------------------------------------------------------
(* What is published *)

(* A changelog keeps the entries of every ancestor's changelog.              *)
EntriesKept(cs) == \A k \in DOMAIN cs : \A j \in cs[k].past :
                     cs[j].entries \subseteq cs[k].entries

(* A commit e on top of commit p, as recipes and merges make them.           *)
OnTop(e, p) == /\ e \in Commit /\ e.past = commits[p].past \cup {Len(commits) + 1}
               /\ commits[p].entries \subseteq e.entries
               /\ commits[p].listed \subseteq e.listed

TagsStay == \A t \in DOMAIN remote.tags :
              t \in DOMAIN remote'.tags /\ remote'.tags[t] = remote.tags[t]

(* What a step does to the history and to the server.                        *)
LEMMA ServerStep ==
  ASSUME IInv, [Next]_vars
  PROVE  /\ TagsStay
         /\ \/ /\ commits' = commits
               /\ \/ remote'.main = remote.main
                  \/ /\ remote'.main \in DOMAIN commits
                     /\ remote.main \in commits[remote'.main].past
            \/ \E p \in DOMAIN commits, e \in Commit :
                 /\ OnTop(e, p) /\ commits' = Append(commits, e)
                 /\ \/ remote'.main = remote.main
                    \/ p = remote.main /\ remote'.main = Len(commits) + 1
<1>1. /\ commits \in Seq(Commit) /\ Len(commits) \in 1..MaxCommit
      /\ remote = [main |-> remote.main, tags |-> remote.tags]
      /\ remote.main \in DOMAIN commits
      /\ \A d \in Dev : IsClone(clone[d], commits)
  BY DEF IInv, TypeOK
<1> DEFINE Quiet == commits' = commits /\ remote' = remote
           Pushes == /\ commits' = commits /\ TagsStay
                     /\ remote'.main \in DOMAIN commits
                     /\ remote.main \in commits[remote'.main].past
           Tags == commits' = commits /\ TagsStay /\ remote'.main = remote.main
           Grows(p, e) == /\ OnTop(e, p) /\ commits' = Append(commits, e) /\ TagsStay
                          /\ \/ remote'.main = remote.main
                             \/ p = remote.main /\ remote'.main = Len(commits) + 1
<1>2. ASSUME NEW d \in Dev, CommitEntry(d)
      PROVE  Quiet \/ \E p \in DOMAIN commits, e \in Commit : Grows(p, e)
  <2> DEFINE c == clone[d]
             child == Entry(c)
  <2>1. /\ remote' = remote
        /\ commits' = commits \/ commits' = Append(commits, child)
    BY <1>2 DEF CommitEntry
  <2>2. c.head \in DOMAIN commits
    BY <1>1 DEF IsClone
  <2>3. ASSUME commits' = Append(commits, child) PROVE child \in Commit
    <3>1. commits' \in Seq(Commit)
      BY <1>2, CommitStep DEF IInv, TypeOK
    <3> HIDE DEF child
    <3> QED BY <1>1, <2>3, <3>1
  <2>4. /\ child.past = commits[c.head].past \cup {Len(commits) + 1}
        /\ commits[c.head].entries \subseteq child.entries
        /\ commits[c.head].listed \subseteq child.listed
    BY DEF Entry
  <2> HIDE DEF child
  <2>5. CASE commits' = Append(commits, child)
    <3>1. Grows(c.head, child)
      BY <2>1, <2>3, <2>4, <2>5 DEF OnTop, TagsStay
    <3> QED BY <2>2, <2>3, <2>5, <3>1
  <2> QED BY <2>1, <2>5
<1>3. ASSUME NEW breaking \in BOOLEAN, Merge(breaking)
      PROVE  \E p \in DOMAIN commits, e \in Commit : Grows(p, e)
  <2> DEFINE child == [past |-> commits[remote.main].past \cup {Len(commits) + 1},
                       entries |-> commits[remote.main].entries,
                       listed |-> commits[remote.main].listed, base |-> 0,
                       breaking |-> breaking]
  <2>1. commits' = Append(commits, child)
    BY <1>3 DEF Merge
  <2>2. child \in Commit
    <3>1. commits' \in Seq(Commit)
      BY <1>3, MergeStep DEF IInv, TypeOK
    <3> HIDE DEF child
    <3> QED BY <1>1, <2>1, <3>1
  <2>3. OnTop(child, remote.main)
    BY <2>2 DEF OnTop
  <2> HIDE DEF child
  <2>4. remote'.main = Len(commits) + 1 /\ remote'.tags = remote.tags
    BY <1>1, <1>3 DEF Merge
  <2>5. Grows(remote.main, child)
    BY <2>1, <2>3, <2>4 DEF TagsStay
  <2> QED BY <1>1, <2>2, <2>5
<1>4. ASSUME NEW d \in Dev, PushMain(d)
      PROVE  Quiet \/ Pushes
  <2>1. clone[d].head \in DOMAIN commits
    BY <1>1 DEF IsClone
  <2>2. CASE /\ remote.main \in commits[clone[d].head].past
             /\ remote' = [remote EXCEPT !.main = clone[d].head]
    <3>1. remote'.main = clone[d].head /\ remote'.tags = remote.tags
      BY <1>1, <2>2
    <3> QED BY <1>4, <2>1, <2>2, <3>1 DEF PushMain, TagsStay
  <2> QED BY <1>4, <2>2 DEF PushMain
<1>5. ASSUME NEW d \in Dev, PushTag(d)
      PROVE  Quiet \/ Tags
  <2> DEFINE c == clone[d]
  <2>1. CASE /\ c.version \notin DOMAIN remote.tags
             /\ remote' = [remote EXCEPT !.tags = Set(@, c.version, c.tags[c.version])]
    <3>1. /\ remote'.main = remote.main
          /\ remote'.tags = Set(remote.tags, c.version, c.tags[c.version])
      BY <1>1, <2>1
    <3>2. TagsStay
      BY <2>1, <3>1 DEF TagsStay, Set, Over
    <3> QED BY <1>5, <3>1, <3>2 DEF PushTag
  <2> QED BY <1>5, <2>1 DEF PushTag
<1>6. ASSUME NEW d \in Dev,
             \/ ReleaseGuard(d)
             \/ \E target \in Target :
                  \/ AssignVersion(d, target, Fetched(clone[d]), remote.main)
                  \/ AssignVersion(d, target, clone[d], clone[d].head)
             \/ GeneratorFails(d) \/ TagHead(d) \/ Interrupt(d) \/ Sync(d)
      PROVE  Quiet
  BY <1>6 DEF ReleaseGuard, AssignVersion, GeneratorFails, TagHead, Interrupt, Sync
<1>7. CASE UNCHANGED vars
  BY <1>7 DEF vars, TagsStay
<1>8. Quiet => TagsStay /\ remote'.main = remote.main
  BY DEF TagsStay
<1>9. \/ UNCHANGED vars \/ Quiet \/ Pushes \/ Tags
      \/ \E p \in DOMAIN commits, e \in Commit : Grows(p, e)
  <2> HIDE DEF Quiet, Pushes, Tags, Grows
  <2> QED BY <1>2, <1>3, <1>4, <1>5, <1>6 DEF Next
<1> QED BY <1>7, <1>8, <1>9

LEMMA EntriesStep ==
  ASSUME IInv, Hereditary(commits), EntriesKept(commits), [Next]_vars
  PROVE  EntriesKept(commits')
<1>1. CASE commits' = commits
  BY <1>1
<1>2. ASSUME NEW p \in DOMAIN commits, NEW e \in Commit,
             OnTop(e, p), commits' = Append(commits, e)
      PROVE  EntriesKept(commits')
  <2> DEFINE n == Len(commits) + 1
  <2>1. /\ DOMAIN commits' = DOMAIN commits \cup {n} /\ n \notin DOMAIN commits
        /\ commits'[n] = e /\ \A k \in DOMAIN commits : commits'[k] = commits[k]
    BY <1>2 DEF IInv, TypeOK
  <2>2. ASSUME NEW k \in DOMAIN commits, NEW j \in commits[k].past
        PROVE  commits'[j].entries \subseteq commits'[k].entries
    BY <2>1 DEF Hereditary, EntriesKept
  <2>3. ASSUME NEW j \in e.past
        PROVE  commits'[j].entries \subseteq e.entries
    <3>1. CASE j = n
      BY <2>1, <3>1
    <3>2. CASE j # n
      <4>1. j \in commits[p].past /\ j \in DOMAIN commits
        BY <1>2, <3>2 DEF OnTop, Hereditary
      <4>2. commits[j].entries \subseteq commits[p].entries
        BY <4>1 DEF EntriesKept
      <4> QED BY <1>2, <2>1, <4>1, <4>2 DEF OnTop
    <3> QED BY <3>1, <3>2
  <2> HIDE DEF n
  <2> QED BY <2>1, <2>2, <2>3 DEF EntriesKept
<1> QED BY <1>1, <1>2, ServerStep

(* What the server has published stays: however recipes and merges overlap    *)
(* and pushes fail, main never loses a commit, its changelog never loses an   *)
(* entry or a change it lists, and a tag on the server is never moved or      *)
(* dropped (Makefile:183-228, generate_changelog.py:170-190).                 *)
MainKeeps == /\ commits[remote.main].past \subseteq commits'[remote'.main].past
             /\ commits[remote.main].entries \subseteq commits'[remote'.main].entries
             /\ commits[remote.main].listed \subseteq commits'[remote'.main].listed

THEOREM PublishedStays == Spec => [][MainKeeps /\ TagsStay]_vars
<1>1. Init => Hereditary(commits) /\ EntriesKept(commits)
  <2> SUFFICES ASSUME Init
               PROVE  Hereditary(commits) /\ EntriesKept(commits)
    OBVIOUS
  <2>1. /\ DOMAIN commits = {1} /\ commits[1].past = {1} /\ commits[1].base = 0
    BY DEF Init
  <2> QED BY <2>1 DEF Hereditary, EntriesKept
<1>2. Init => HInv
  <2>1. Init => ChangesListed
    BY DEF Init, ChangesListed, Adds
  <2> QED BY <1>1, <2>1 DEF HInv
<1>3. IInv /\ HInv /\ EntriesKept(commits) /\ [Next]_vars => EntriesKept(commits)'
  BY EntriesStep DEF HInv
<1>4. IInv /\ HInv /\ EntriesKept(commits) /\ [Next]_vars => [MainKeeps /\ TagsStay]_vars
  <2> SUFFICES ASSUME IInv, HInv, EntriesKept(commits), [Next]_vars
               PROVE  MainKeeps /\ TagsStay
    OBVIOUS
  <2>1. remote.main \in DOMAIN commits /\ commits \in Seq(Commit)
    BY DEF IInv, TypeOK
  <2>2. ASSUME commits' = commits, remote'.main = remote.main
        PROVE  MainKeeps
    BY <2>2 DEF MainKeeps
  <2>3. ASSUME commits' = commits, remote'.main \in DOMAIN commits,
               remote.main \in commits[remote'.main].past
        PROVE  MainKeeps
    BY <2>3 DEF MainKeeps, HInv, Hereditary, EntriesKept
  <2>4. ASSUME NEW p \in DOMAIN commits, NEW e \in Commit,
               OnTop(e, p), commits' = Append(commits, e),
               \/ remote'.main = remote.main
               \/ p = remote.main /\ remote'.main = Len(commits) + 1
        PROVE  MainKeeps
    <3>1. /\ commits'[Len(commits) + 1] = e
          /\ commits'[remote.main] = commits[remote.main]
      BY <2>1, <2>4
    <3> QED BY <2>4, <3>1 DEF MainKeeps, OnTop
  <2> QED BY <2>2, <2>3, <2>4, ServerStep
<1> QED BY <1>1, <1>2, <1>3, <1>4, Invariance, HistoryStep, PTL DEF Spec
=============================================================================
