------------------------------ MODULE MCMerge -------------------------------
(* Merge for TLC: three titles with something of each kind to lose.        *)
EXTENDS Merge

CatalogOf(he, en, years, imdb, tmdb) ==
    [t \in Titles |-> [he |-> he[t], en |-> en[t], year |-> years[t], imdb |-> t \in imdb,
                       tmdb |-> IF t \in tmdb THEN t ELSE None]]
SomeCatalogs ==
    {CatalogOf(<<1, 2, None>>, <<None, n2, n3>>, <<y1, y2, y3>>, imdb, tmdb) :
        n2 \in {1, 2, None}, n3 \in {1, 2}, y1 \in {1, None}, y2 \in {1, 3}, y3 \in {1, 3, None},
        imdb \in {{}, {2}, {1, 3}}, tmdb \in {{}, {1}, {3}, {1, 2}}}
SomeRecords == [i \in Ids |-> [name |-> 2, year |-> 1]]
SomeHits == {[t \in Titles |-> None], [t \in Titles |-> 2], [t \in Titles |-> IF t = 3 THEN 3 ELSE None]}
SomeOffers ==
    [t \in Titles |-> [s \in Sources |-> CASE t = 1 -> "gone" [] t = 2 -> "current" [] OTHER -> "none"]]
SomeRatings == [t \in Titles |-> [p \in Providers |-> IF t = 1 THEN 0 ELSE t]]
SomeLists == [t \in Titles |-> IF t = 3 THEN Users ELSE {}]
=============================================================================
