--------------------------- MODULE MCMainThread ---------------------------
(* Instances of MainThread for TLC: threads, jobs and scopes are model     *)
(* values; a job named c.. is a call, one named p.. a post.                *)
EXTENDS MainThread, TLC

CONSTANTS t1, t2, c1, c2, p1, p2, p3, sA, sB, ctx1, ctx2

MCThreads == {t1, t2}
MCJobs == {c1, c2, p1, p2, p3}
MCCalls == {c1, c2}
MCScopes == {sA}
MCContexts == {ctx1, ctx2}

\* One send (sA) spans both threads, one post has no scope.
MixedScopes == p1 :> NoScope @@ p2 :> sA @@ c1 :> sA @@ c2 :> NoScope @@ p3 :> sA

\* Two posts that one poke has to carry, and a call.
PostsAndCall == t1 :> <<p1, c1>> @@ t2 :> <<p2>>

\* Two posts of one thread beside a post and a call of the other.
PairOfPosts == t1 :> <<p1, c1>> @@ t2 :> <<p2, p3>>

OneContext == <<ctx1>>
TwoContexts == <<ctx1, ctx2>>
=============================================================================
