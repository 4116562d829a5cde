----------------------------- MODULE MCSkillCache -----------------------------
(* Instances of SkillCache for TLC: the skill "a-b", beside a skill "a"    *)
(* whose pattern matches its archives.  Names and versions are the parts   *)
(* between the dashes: version "b-1" of "a" has the archive of version "1" *)
(* of "a-b".  The url has a tag beside its default branch.                 *)
EXTENDS SkillCache, Sequences, SequencesExt, TLC

SkillName == {<<"a", "b">>}
VersionName == {<<"1">>, <<"2">>}
FileName == {n \o v : n \in SkillName, v \in VersionName}
PathName == [p \in SkillName \X VersionName |-> p[1] \o p[2]]
Matching(n) == {f \in FileName : IsStrictPrefix(n, f)}
GlobOf == [n \in SkillName |-> Matching(n)]
CoveredFiles == Matching(<<"a">>)
AlienPackages == [source : {"tag"}, version : VersionName, whole : {TRUE}]

OffersOf == [n \in SkillName |-> {"main", "tag"}]
FallbackOf == [s \in {"main", "tag"} |-> "main"]

Symmetry == Permutations(Request)
=============================================================================
