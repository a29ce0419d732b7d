------------------------------ MODULE Release ------------------------------
(***************************************************************************)
(* The make release-* recipes: version numbers computed from git tags, the *)
(* changelog commit and the tag, run by several developers against one     *)
(* remote.  A recipe is a chain of commands; other developers' commands    *)
(* and merges to main fall between them, commits are refused, pushes fail, *)
(* Ctrl-C stops it.                                                        *)
(***************************************************************************)
EXTENDS Naturals, Sequences, FiniteSets

CONSTANTS Dev,
          MaxCommit, MaxTag,       \* bounds: commits, tags of all repositories,
          MaxNumber                \* each part of a version

ASSUME BoundsAssumption == MaxCommit \in Nat \ {0} /\ MaxNumber \in Nat \ {0}

VARIABLES commits,   \* all commits, oldest first
          remote,    \* the shared repository: main and tags
          clone      \* each developer's repository and running recipe

vars == <<commits, remote, clone>>

(* A version is major, minor, patch and the rc number, 0 for a stable one,   *)
(* so `git tag --sort=v:refname` is the lexicographic order: without a       *)
(* versionsort.suffix setting git puts v1.0.0-rc.1 after v1.0.0.             *)
Number  == 0..MaxNumber
Version == Number \X Number \X Number \X Number
Rc(v, n) == <<v[1], v[2], v[3], n>>
Below(v, w) == \E i \in 1..4 : v[i] < w[i] /\ \A j \in 1..i - 1 : v[j] = w[j]
Blank   == <<>>          \* the tag "v" of a recipe that got no version
Tag     == Version \cup {Blank}
Candidate(t) == t # Blank /\ t[4] # 0

Target == {"patch", "minor", "fix", "release"}
Phase  == {"idle", "guarded", "numbered", "committed", "pushed", "tagged"}

(* `past` holds a commit and its ancestors; its changelog has `entries` that *)
(* list the changes `listed`; `base` is the tagged commit after which the      *)
(* range of an entry it adds starts, else 0.  Tags are functions to commits.  *)
Commit == [past : SUBSET (1..MaxCommit), entries : SUBSET Tag,
           listed : SUBSET (1..MaxCommit), base : 0..MaxCommit,
           breaking : BOOLEAN]
None   == [t \in {} |-> 0]
Over(new, old) == [t \in DOMAIN new \cup DOMAIN old |->
                     IF t \in DOMAIN new THEN new[t] ELSE old[t]]
Set(tags, t, c) == Over([x \in {t} |-> c], tags)
IsTags(tags, cs) == /\ DOMAIN tags \subseteq Tag
                    /\ tags \in [DOMAIN tags -> DOMAIN cs]

IsClone(c, cs) ==
  /\ c \in [head : DOMAIN cs, tags : {c.tags}, phase : Phase, stable : BOOLEAN,
            version : Tag, dirty : BOOLEAN]
  /\ IsTags(c.tags, cs)
  /\ c.phase \in {"numbered", "committed", "pushed", "tagged"} =>
       (Candidate(c.version) <=> ~c.stable)

TypeOK ==
  /\ commits \in Seq(Commit) /\ Len(commits) \in 1..MaxCommit
  /\ remote = [main |-> remote.main, tags |-> remote.tags]
  /\ remote.main \in DOMAIN commits /\ IsTags(remote.tags, commits)
  /\ clone = [d \in Dev |-> clone[d]]
  /\ \A d \in Dev : IsClone(clone[d], commits)

(* A first commit, with no tag yet or one made by hand.                      *)
FirstTags == {None} \cup {Set(None, <<1, 0, 0, rc>>, 1) : rc \in 0..1}

Init ==
  /\ commits = <<[past |-> {1}, entries |-> {}, listed |-> {}, base |-> 0,
                 breaking |-> FALSE]>>
  /\ \E tags \in FirstTags :
       /\ remote = [main |-> 1, tags |-> tags]
       /\ clone = [d \in Dev |->
            [head |-> 1, tags |-> tags, phase |-> "idle",
             stable |-> FALSE, version |-> Blank, dirty |-> FALSE]]

---------------------------------------------------------------------------
(* scripts/release.py *)

Versions(tags) == DOMAIN tags \ {Blank}
Current(tags)  == IF Versions(tags) = {} THEN <<1, 0, 0, 0>>
                  ELSE CHOOSE v \in Versions(tags) :
                         \A w \in Versions(tags) : ~Below(v, w)

Since(tags, ref) == commits[ref].past
                      \ (IF tags = None THEN {}
                         ELSE commits[tags[Current(tags)]].past)

BumpType(target, new) ==
  CASE target = "fix"   -> "none"
    [] target = "minor" -> "minor"
    [] target = "patch" -> "patch"
    [] OTHER -> IF \E c \in new : commits[c].breaking THEN "major" ELSE "none"

Bumped(v, type) == CASE type = "major" -> <<v[1] + 1, 0, 0, 0>>
                     [] type = "minor" -> <<v[1], v[2] + 1, 0, 0>>
                     [] type = "patch" -> <<v[1], v[2], v[3] + 1, 0>>
                     [] OTHER -> Rc(v, 0)

(* One above the highest rc of this base version.                            *)
FirstRc(base, tags) == Rc(base, 1)     \* mutant: release.py:142-147 dropped
NoRc(base, tags) == base               \* mutant: to_rc dropped
RcNumbers(base, tags) == {v[4] : v \in {w \in Versions(tags) : Rc(w, 0) = base}}
NextRc(base, tags) ==
  LET used == RcNumbers(base, tags) \cup {0}
  IN Rc(base, 1 + CHOOSE n \in used : \A k \in used : k <= n)

(* The rc without its number, or the next version after a stable one.        *)
StableVersion(tags, type) ==
  LET cur == Current(tags)
  IN IF cur[4] # 0 THEN Rc(cur, 0)
     ELSE Bumped(cur, IF type = "none" THEN "patch" ELSE type)

NewVersion(target, tags, type) ==
  IF target # "release" THEN NextRc(Bumped(Current(tags), type), tags)
  ELSE IF StableVersion(tags, type) \in DOMAIN tags THEN Blank
  ELSE StableVersion(tags, type)

(* Exit code 1: a tag "v" and no other, or nothing new to release.           *)
Unparsable(tags) == tags # None /\ Versions(tags) = {}
NothingNew(target, tags, ref) ==
  Since(tags, ref) = {} /\ ~(target = "release" /\ Current(tags)[4] # 0)

---------------------------------------------------------------------------
(* The recipe *)

Fetched(c) == [c EXCEPT !.tags = Over(remote.tags, c.tags)]
Ended(c)   == [c EXCEPT !.phase = "idle", !.stable = FALSE, !.version = Blank]
Becomes(d, c) == clone' = [clone EXCEPT ![d] = c]

(* _release-guard of every recipe: a clean tree, fetch with --tags --force,   *)
(* and HEAD must be origin/main.                                             *)
ReleaseGuard(d) ==
  /\ clone[d].phase = "idle" /\ ~clone[d].dirty
  /\ Becomes(d, IF clone[d].head = remote.main
                THEN [Fetched(clone[d]) EXCEPT !.phase = "guarded"]
                ELSE Fetched(clone[d]))
  /\ UNCHANGED <<commits, remote>>

(* release.py fetches again, goes on if that fails, and looks at origin/main, *)
(* which by then may be ahead of HEAD.                                        *)
AssignVersion(d, target, c, origin) ==
  LET v == NewVersion(target, c.tags, BumpType(target, Since(c.tags, origin)))
  IN /\ c.phase = "guarded"
     /\ IF Unparsable(c.tags) \/ NothingNew(target, c.tags, origin)
        THEN Becomes(d, Ended(c))
        ELSE /\ v \in Tag
             /\ Becomes(d, [c EXCEPT !.phase = "numbered", !.version = v,
                                  !.stable = target = "release"])
     /\ UNCHANGED <<commits, remote>>

(* generate_changelog.py lists the commits since the newest tag, or all up to *)
(* the version's own tag, which only "v" can have.                           *)
Newest(tags) == IF Versions(tags) = {} THEN Blank ELSE Current(tags)
Base(c) == IF c.version \in DOMAIN c.tags THEN 0 ELSE c.tags[Newest(c.tags)]
SinceHead(c) == {}                   \* mutant: tagged before it is listed
EntryRange(c) == IF c.version \in DOMAIN c.tags THEN commits[c.tags[c.version]].past
                 ELSE commits[c.head].past \ commits[Base(c)].past

(* The generator, git add, git commit.  Without tags the generator fails,    *)
(* which ends `make release`; the other recipes go on to `git tag`.  All go   *)
(* on if git refuses the entry (a hook, a signature, a lock): then it stays  *)
(* in the working tree, as when Ctrl-C comes before the commit.              *)
NeverStops(c) == FALSE               \* mutant: Makefile:220 `|| exit 1` dropped
StopsWithoutEntry(c) == c.stable

GeneratorFails(d) ==
  /\ clone[d].phase = "numbered" /\ clone[d].tags = None
  /\ Becomes(d, IF StopsWithoutEntry(clone[d]) THEN Ended(clone[d])
                ELSE [clone[d] EXCEPT !.phase = "pushed"])
  /\ UNCHANGED <<commits, remote>>

Entry(c) ==
  [past |-> commits[c.head].past \cup {Len(commits) + 1},
   entries |-> commits[c.head].entries \cup {c.version},
   listed |-> commits[c.head].listed \cup EntryRange(c),
   base |-> Base(c),
   breaking |-> FALSE]

CommitEntry(d) ==
  /\ clone[d].phase = "numbered" /\ clone[d].tags # None
  /\ \/ /\ Len(commits) < MaxCommit
        /\ commits' = Append(commits, Entry(clone[d]))
        /\ Becomes(d, [clone[d] EXCEPT !.phase = "committed", !.head = Len(commits) + 1])
     \/ /\ Becomes(d, [clone[d] EXCEPT !.phase = "pushed", !.dirty = TRUE])
        /\ UNCHANGED commits
  /\ UNCHANGED remote

(* git push origin main; git tag -- the recipe goes on if the push fails.    *)
PushMain(d) ==
  LET c == clone[d]
  IN /\ c.phase = "committed"
     /\ \/ /\ remote.main \in commits[c.head].past
           /\ remote' = [remote EXCEPT !.main = c.head]
           /\ Becomes(d, [c EXCEPT !.phase = "pushed"])
        \/ /\ Becomes(d, [c EXCEPT !.phase = "pushed"])
           /\ UNCHANGED remote
     /\ UNCHANGED commits

AllTags == DOMAIN remote.tags \cup UNION {DOMAIN clone[d].tags : d \in Dev}

TagHead(d) ==
  LET c == clone[d]
  IN /\ c.phase = "pushed"
     /\ Cardinality(AllTags \cup {c.version}) <= MaxTag
     /\ Becomes(d, IF c.version \in DOMAIN c.tags THEN Ended(c)
                   ELSE [c EXCEPT !.phase = "tagged", !.tags = Set(@, c.version, c.head)])
     /\ UNCHANGED <<commits, remote>>

(* The remote refuses a tag it has.                                          *)
PushTag(d) ==
  LET c == clone[d]
  IN /\ c.phase = "tagged"
     /\ \/ /\ c.version \notin DOMAIN remote.tags
           /\ remote' = [remote EXCEPT !.tags = Set(@, c.version, c.tags[c.version])]
        \/ UNCHANGED remote
     /\ Becomes(d, Ended(c))
     /\ UNCHANGED commits

Interrupt(d) ==
  /\ clone[d].phase # "idle"
  /\ Becomes(d, Ended(clone[d]))
  /\ UNCHANGED <<commits, remote>>

(* Between recipes: a pull request is merged, a developer resets to main,    *)
(* which drops an entry that was not committed.                              *)
Merge(breaking) ==
  /\ Len(commits) < MaxCommit
  /\ commits' = Append(commits,
       [past |-> commits[remote.main].past \cup {Len(commits) + 1},
        entries |-> commits[remote.main].entries,
        listed |-> commits[remote.main].listed, base |-> 0, breaking |-> breaking])
  /\ remote' = [remote EXCEPT !.main = Len(commits) + 1]
  /\ UNCHANGED clone

Sync(d) ==
  /\ clone[d].phase = "idle"
  /\ Becomes(d, [Fetched(clone[d]) EXCEPT !.head = remote.main, !.dirty = FALSE])
  /\ UNCHANGED <<commits, remote>>

Next ==
  \/ \E d \in Dev :
       \/ ReleaseGuard(d)
       \/ \E target \in Target : \/ AssignVersion(d, target, Fetched(clone[d]), remote.main)
                                \/ AssignVersion(d, target, clone[d], clone[d].head)
       \/ GeneratorFails(d) \/ CommitEntry(d)
       \/ PushMain(d) \/ TagHead(d) \/ PushTag(d)
       \/ Interrupt(d) \/ Sync(d)
  \/ \E breaking \in BOOLEAN : Merge(breaking)

Spec == Init /\ [][Next]_vars

---------------------------------------------------------------------------
(* Properties *)

(* A stable version that reaches the remote is described: the tagged commit's *)
(* changelog has an entry for it, however runs overlap, are stopped or find   *)
(* tags missing or taken, unless git refused that very run's commit, and then *)
(* its entry is still in the working tree it was tagged from (Makefile:216-228;*)
(* the rc recipes may tag without an entry).                                  *)
Refused(t) == \E d \in Dev : clone[d].dirty /\ clone[d].phase = "tagged"
                            /\ clone[d].version = t
NewTagHasEntry ==
  \A t \in DOMAIN remote'.tags \ DOMAIN remote.tags :
    ~Candidate(t) /\ ~Refused(t) => t \in commits[remote'.tags[t]].entries
StableReleaseHasEntry == [][NewTagHasEntry]_vars

(* A number is always a step forward: a new rc sorts after every tag the      *)
(* developer has, so the next run starts from it, and a new stable version    *)
(* sorts after every stable one (release.py:121-134, 310-344).                *)
NumberSortsLast(d) ==
  /\ clone[d].phase = "guarded" /\ clone'[d].phase = "numbered"
  /\ clone'[d].version # Blank
  => \A t \in Versions(clone'[d].tags) :
       Candidate(clone'[d].version) \/ ~Candidate(t)
         => Below(t, clone'[d].version)
NewVersionSortsLast == [][\A d \in Dev : NumberSortsLast(d)]_vars

(* generate_changelog.py:166, "All notable changes to this project will be    *)
(* documented": a changelog with a new entry lists every change up to it, but  *)
(* for changelog commits and what a tag made without an entry came after.  It  *)
(* holds if each of its entries was counted from a tag in its own history:     *)
(* however runs overlap or stop, the ranges meet (generate_changelog.py:209-222). *)
Adds(k) == commits[k].base # 0
RangesMeet(k) == \A j \in commits[k].past : Adds(j) => commits[j].base \in commits[j].past
Unlisted(k) == commits[k].past \ commits[k].listed
Excused(x, k) ==
  \/ Adds(x)
  \/ \E j \in commits[k].past : /\ Adds(j) /\ ~Adds(commits[j].base)
                              /\ x \in commits[commits[j].base].past
ChangesListed == \A k \in DOMAIN commits :
  Adds(k) /\ RangesMeet(k) => \A x \in Unlisted(k) : Excused(x, k)

(* Makefile:177 stops a run whose HEAD is not on origin/main: what is         *)
(* released comes from main.                                                  *)
TagsOnMain == \A t \in DOMAIN remote.tags :
                remote.tags[t] \in commits[remote.main].past
=============================================================================
