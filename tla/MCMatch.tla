------------------------------ MODULE MCMatch ------------------------------
(* Match for TLC: the catalogs the runs start from, and what is listed.    *)
(* Names are letters and TMDB ids numbers.  A name is like itself to the   *)
(* letter; the other grades are given as sets of pairs.                    *)
EXTENDS Match, TLC

CONSTANTS x1, x2, x3, x4, x5, x6, x7

Likenesses(alike, near) ==
    [p \in Names \X Names |-> IF p[1] = p[2] THEN "same" ELSE IF p \in alike THEN "alike"
                              ELSE IF p \in near THEN "near" ELSE "other"]

Nothing == [l \in Listings |-> None]
NoAliases == [i \in {} |-> 0]
Alone == {{l} : l \in Listings}
Together == {Listings}
Batches == {{x1, x7}, {x3, x6}, {x4}, {x5}}

(* Six listings of one source against one held title, "h", without an    *)
(* id.  x1: a near miss of it.  x3, x4: two listings of one name with    *)
(* the source's own ids, x5 the first of them renamed.  x6: a TMDB record  *)
(* of the held title.  x7: nearly named like it, and TMDB has it too.      *)
AllNames == x1 :> "a" @@ x3 :> "c" @@ x4 :> "c" @@ x5 :> "d" @@ x6 :> "h" @@ x7 :> "e"
AllRefs == x1 :> None @@ x3 :> x3 @@ x4 :> x4 @@ x5 :> x3 @@ x6 :> None @@ x7 :> None
AllIds == [l \in Listings |-> IF l = x6 THEN 7 ELSE None]
AllHits == [l \in Listings |-> IF l = x7 THEN 9 ELSE None]
AllLike == Likenesses({<<"e", "h">>}, {<<"a", "h">>})
OneHeld == 1 :> [name |-> "h", tmdb |-> None]

(* Two listings of one name, each with an id of the source's own.          *)
OneName == [l \in Listings |-> "a"]
OwnRefs == [l \in Listings |-> l]
Strangers == Likenesses({}, {})
NothingHeld == [t \in {} |-> 0]

(* Two near misses of a held title, of two names or of one.                *)
TwoNames == x1 :> "a" @@ x2 :> "b"
NearHeld == Likenesses({}, {<<n, "h">> : n \in Names \ {"h"}})

(* The title held has an alias, and TMDB's search still answers with it.   *)
OneAlias == 7 :> 1
HeldApart == 1 :> [name |-> "h", tmdb |-> 8]
AllHit7 == [l \in Listings |-> 7]
=============================================================================
