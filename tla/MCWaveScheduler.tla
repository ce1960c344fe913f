-------------------------- MODULE MCWaveScheduler --------------------------
(* Instances of WaveScheduler for TLC.                                      *)
EXTENDS WaveScheduler, TLC

CONSTANTS s1, s2, w1, w2, a, b, c, sub, cli, g

\* Plan reentry: two waves of one session run the same plan, a and then b;
\* two a's may run at once, and nobody can run a b, which fails fast.
ReentrySessionOf == w1 :> s1 @@ w2 :> s1
ReentryNodes == w1 :> {a, b} @@ w2 :> {a, b}
ReentryTypeOf == a :> sub @@ b :> cli
ReentryDependsOn == a :> {} @@ b :> {a}
ReentryUpstream == a :> NoTask @@ b :> a
ReentryRank == a :> 1 @@ b :> 2
ReentryGroupOf == a :> NoGroup @@ b :> NoGroup
ReentryCapacity == sub :> 2 @@ cli :> 1
ReentryStoppable == {<<w1, a>>}

\* Two sessions: a and b are independent nodes of one wave, c of the other.
\* a and c share a type, a and b a group, and b and c write one file.
SharedSessionOf == w1 :> s1 @@ w2 :> s2
SharedNodes == w1 :> {a, b} @@ w2 :> {c}
SharedTypeOf == a :> sub @@ b :> cli @@ c :> sub
SharedDependsOn == a :> {} @@ b :> {} @@ c :> {}
SharedUpstream == a :> NoTask @@ b :> NoTask @@ c :> NoTask
SharedRank == a :> 1 @@ b :> 2 @@ c :> 3
SharedGroupOf == a :> g @@ b :> g @@ c :> NoGroup
SharedCapacity == sub :> 1 @@ cli :> 1
SharedOverlaps == {<<b, c>>, <<c, b>>}
=============================================================================
