------------------------------ MODULE Scrapers ------------------------------
(***************************************************************************)
(* How the catalog of a service is read off its own pages: the plugins of  *)
(* sources/ that know one service each.  Most gather every page, screen or *)
(* sitemap before they offer anything; three offer as they go.  What is    *)
(* published is a sequence of documents, and a document a sequence of      *)
(* entries, of which some are no offers of today (a screening, a film      *)
(* outside its window, a page without a player) and some cannot be made    *)
(* out.  A request that fails has been retried (Politeness).               *)
(***************************************************************************)
EXTENDS Naturals, Sequences, FiniteSets, SequencesExt

CONSTANTS
    Films,
    Sites,        \* by plugin: what its service may publish
    PageSize,     \* of FreeTV's listing
    MaxPages,     \* of it, as configured
    MaxErrors,    \* max_consecutive_errors
    None

Kinds == {"offer", "unusable", "other"}
Entry == [film : Films, is : Kinds, price : Nat \cup {None}, sold : Nat]

ScrapersAssumption ==
    /\ DOMAIN Sites \subseteq {"lev_vod", "cinematheque_vod", "israel_film_archive", "kan", "reshet13",
                               "mako", "freetv", "disney_plus_il"}
    /\ \A p \in DOMAIN Sites : Sites[p] \subseteq Seq(Seq(Entry))
    /\ PageSize \in Nat \ {0} /\ MaxPages \in Nat /\ MaxErrors \in Nat /\ MaxErrors > 2
    /\ None \notin Nat

VARIABLES
    plugin, site,
    pc,
    doc,         \* the next document
    barred,      \* documents robots.txt keeps the archive's reader from
    found,       \* entries gathered
    todo,        \* entries still to be offered
    seen, total, turned,   \* of FreeTV's listing: offset, totalCount, pages
    truncated,
    errors, streak,        \* error_count, _consecutive_errors
    owed,        \* failures that are counted together at the end
    yielded,     \* offers handed to the pipeline
    stirred      \* history: the listing changed while it was read

service == <<plugin, site, stirred>>
listing == <<seen, total, turned, truncated>>
vars == <<service, pc, doc, barred, found, todo, listing, errors, streak, owed, yielded>>

(* Who asks robots.txt first, and who can ask it only from within the      *)
(* browser, afterwards; and who offers nothing before all is gathered.     *)
Before == {"lev_vod", "cinematheque_vod", "israel_film_archive"}
After == {"kan", "reshet13"}
Gathering == Before \cup After

(* Whose unusable entries are one error together.                          *)
Together == {"lev_vod", "cinematheque_vod", "kan"}

TypeOK ==
    /\ plugin \in DOMAIN Sites /\ site \in Seq(Seq(Entry)) /\ stirred \in BOOLEAN
    /\ pc \in {"opening", "loading", "reading", "done", "failed"}
    /\ doc \in Nat \ {0} /\ barred \subseteq DOMAIN site
    /\ found \in Seq(Entry) /\ todo \in Seq(Entry)
    /\ seen \in Nat /\ total \in Nat /\ turned \in 0 .. MaxPages /\ truncated \in BOOLEAN
    /\ streak \in 0 .. errors /\ owed \subseteq {"price", "record", "page"}
    /\ yielded \subseteq [film : Films, type : {"rent", "free", "stream"}, price : Nat \cup {None}]

Init ==
    /\ plugin \in DOMAIN Sites /\ site \in Sites[plugin] /\ stirred = FALSE
    /\ pc = "opening" /\ doc = 1 /\ barred = {} /\ found = <<>> /\ todo = <<>>
    /\ seen = 0 /\ total = 0 /\ turned = 0 /\ truncated = FALSE
    /\ errors = 0 /\ streak = 0 /\ owed = {} /\ yielded = {}

-----------------------------------------------------------------------------
(* Errors (sources/base.py).                                               *)

(* record_error, n times: it raises when the streak is too long.           *)
RecordErrors(n, next) ==
    /\ errors' = errors + n /\ streak' = streak + n
    /\ pc' = IF n > 0 /\ streak' >= MaxErrors THEN "failed" ELSE next

-----------------------------------------------------------------------------
(* Documents.                                                              *)

(* _catalog_children: the sitemaps of films and series.                    *)
Opens ==
    /\ pc = "opening"
    /\ pc' = IF plugin = "disney_plus_il" /\ site = <<>> THEN "failed" ELSE "loading"
    /\ UNCHANGED <<service, doc, barred, found, todo, listing, errors, streak, owed, yielded>>

(* robots.txt forbids what the plugin reads, before or after it has.       *)
Forbidden ==
    /\ \/ pc = "opening" /\ plugin \in Before
       \/ pc = "loading" /\ plugin \in After /\ doc > Len(site)
    /\ pc' = "failed"
    /\ UNCHANGED <<service, doc, barred, found, todo, listing, errors, streak, owed, yielded>>

(* The index of sitemaps cannot be had.                                    *)
IndexLost ==
    /\ pc = "opening" /\ plugin \in {"israel_film_archive", "disney_plus_il"}
    /\ pc' = "failed"
    /\ UNCHANGED <<service, doc, barred, found, todo, listing, errors, streak, owed, yielded>>

(* _show_entries: news clips and episodes are not programmes.              *)
Programmes(entries) == SelectSeq(entries, LAMBDA e : e.is # "other")

Entries(d) == IF plugin = "reshet13" THEN Programmes(site[d]) ELSE site[d]

(* A page, lobby, screen or sitemap is read and kept.                      *)
Gathers ==
    /\ pc = "loading" /\ plugin \in Gathering /\ doc <= Len(site) /\ Entries(doc) # <<>>
    /\ found' = found \o Entries(doc) /\ doc' = doc + 1
    /\ UNCHANGED <<service, pc, barred, todo, listing, errors, streak, owed, yielded>>

(* _film_urls: one of the archive's sitemaps may not be read, or cannot.   *)
KeptOut ==
    /\ pc = "loading" /\ plugin = "israel_film_archive" /\ doc <= Len(site)
    /\ barred' = barred \cup {doc} /\ doc' = doc + 1
    /\ UNCHANGED <<service, pc, found, todo, listing, errors, streak, owed, yielded>>

SitemapLost ==
    /\ pc = "loading" /\ plugin = "israel_film_archive" /\ doc <= Len(site)
    /\ RecordErrors(1, pc) /\ doc' = doc + 1
    /\ UNCHANGED <<service, barred, found, todo, listing, owed, yielded>>

(* A request fails, or what is answered is not the catalog: an             *)
(* interstitial, another layout, a page without a single entry.            *)
Fails ==
    /\ pc = "loading" /\ plugin # "israel_film_archive"
    /\ plugin = "freetv" \/ doc <= Len(site)
    /\ pc' = "failed"
    /\ UNCHANGED <<service, doc, barred, found, todo, listing, errors, streak, owed, yielded>>

(* A film is offered once: Lev's as it was sold last, the others' as they  *)
(* are found first.                                                        *)
Keep(s, gone(_, _)) ==
    LET kept == {i \in DOMAIN s : \A j \in DOMAIN s : s[j].film = s[i].film => ~gone(i, j)}
        order == SetToSortSeq(kept, <)
    IN  [n \in DOMAIN order |-> s[order[n]]]

FirstOfEach(s) == Keep(s, LAMBDA i, j : j < i)
LastSoldOfEach(s) ==
    Keep(s, LAMBDA i, j : s[j].sold > s[i].sold \/ (s[j].sold = s[i].sold /\ j < i))

Usable(s) == SelectSeq(s, LAMBDA e : e.is = "offer")
Unusable(s) == \E i \in DOMAIN s : s[i].is = "unusable"

(* What there is to offer once everything is read, and where parse_catalog *)
(* leaves out what cannot be used, that is counted, once.                  *)
Leaves(list, dropped, next) ==
    /\ todo' = list
    /\ RecordErrors(IF dropped THEN 1 ELSE 0, next)

(* The rows of the listing that are on sale.                               *)
LevLists == Leaves(LastSoldOfEach(Usable(found)), Unusable(found), "reading")

(* The cards of a page that shows them in several rails.                   *)
CinemathequeLists == Leaves(FirstOfEach(Usable(found)), Unusable(found), "reading")

(* The cards of all lobbies, of which there must be some.                  *)
KanLists ==
    LET cards == FirstOfEach(Usable(found))
    IN  Leaves(cards, Unusable(found), IF cards = <<>> THEN "failed" ELSE "reading")

(* The pages of films, of which there must be some.                        *)
ArchiveLists == Leaves(FirstOfEach(found), FALSE, IF found = <<>> THEN "failed" ELSE "reading")

(* The programmes of both screens.                                         *)
ReshetLists == Leaves(FirstOfEach(found), FALSE, IF found = <<>> THEN "failed" ELSE "reading")

Lists ==
    /\ pc = "loading" /\ doc > Len(site)
    /\ \/ plugin = "lev_vod" /\ LevLists
       \/ plugin = "cinematheque_vod" /\ CinemathequeLists
       \/ plugin = "kan" /\ KanLists
       \/ plugin = "israel_film_archive" /\ ArchiveLists
       \/ plugin = "reshet13" /\ ReshetLists
    /\ UNCHANGED <<service, doc, barred, found, listing, owed, yielded>>

(* The page of Mako's programmes, or the next of Disney's sitemaps: what   *)
(* it names is offered before another is asked for.                        *)
Turns(p) ==
    /\ pc = "loading" /\ plugin = p /\ doc <= Len(site) /\ site[doc] # <<>>
    /\ todo' = site[doc] /\ doc' = doc + 1 /\ pc' = "reading"
    /\ UNCHANGED <<service, barred, found, listing, errors, streak, owed, yielded>>

MakoTurns == Turns("mako")
DisneyTurns == Turns("disney_plus_il")

(* The next page of FreeTV's listing, from where the last one ended; an    *)
(* empty one is the end, and so is the last that may be read.              *)
Pages ==
    /\ pc = "loading" /\ plugin = "freetv" /\ turned < MaxPages
    /\ todo' = SubSeq(site[1], seen + 1,
                      IF seen + PageSize < Len(site[1]) THEN seen + PageSize ELSE Len(site[1]))
    /\ seen' = seen + Len(todo') /\ total' = Len(site[1]) /\ turned' = turned + 1
    /\ pc' = IF todo' = <<>> THEN "done" ELSE "reading"
    /\ UNCHANGED <<service, doc, barred, found, truncated, errors, streak, owed, yielded>>

CutOff ==
    /\ pc = "loading" /\ plugin = "freetv" /\ turned = MaxPages
    /\ truncated' = TRUE /\ pc' = "done"
    /\ UNCHANGED <<service, doc, barred, found, todo, seen, total, turned, errors, streak, owed, yielded>>

-----------------------------------------------------------------------------
(* Entries.                                                                *)

(* record_success, and the item is handed on.                              *)
Offers(e, type, price) ==
    /\ yielded' = yielded \cup {[film |-> e.film, type |-> type, price |-> price]}
    /\ streak' = 0 /\ UNCHANGED <<pc, errors>>

(* Lev: the film's own record and the till, either of which may not say;   *)
(* it gives nothing away.                                                  *)
LevOffer(e, price) == Offers(e, "rent", price)

LevItem(e) ==
    \E priced, described \in BOOLEAN :
        /\ LevOffer(e, IF priced THEN e.price ELSE None)
        /\ owed' = owed \cup (IF priced THEN {} ELSE {"price"})
                        \cup (IF described THEN {} ELSE {"record"})

(* The Cinematheque: a title priced at zero is given away; one without a   *)
(* price is not.                                                           *)
Priced(e, price) == IF price = 0 THEN Offers(e, "free", None) ELSE Offers(e, "rent", price)

CinemathequeItem(e) ==
    \/ Priced(e, e.price) /\ UNCHANGED owed
    \/ Priced(e, None) /\ owed' = owed \cup {"price"}

(* The archive: no price and a button to watch is free; neither of them,   *)
(* or a page that cannot be read, is left out and counted in the end.      *)
ArchiveOffer(e) == IF e.price = 0 THEN Offers(e, "free", None) ELSE Offers(e, "rent", e.price)

ArchiveItem(e) ==
    \/ e.is = "offer" /\ ArchiveOffer(e) /\ UNCHANGED owed
    \/ owed' = owed \cup {"page"} /\ UNCHANGED <<pc, errors, streak, yielded>>

(* The others: an entry is an item, or an error.                           *)
ItemOrError(e, type) ==
    /\ \/ e.is = "offer" /\ Offers(e, type, None)
       \/ e.is # "offer" /\ RecordErrors(1, pc) /\ UNCHANGED yielded
    /\ UNCHANGED owed

KanItem(e) == ItemOrError(e, "free")
ReshetItem(e) == ItemOrError(e, "free")
MakoItem(e) == ItemOrError(e, "free")
FreetvItem(e) == ItemOrError(e, "stream")
DisneyItem(e) == ItemOrError(e, "stream")

NextItem ==
    /\ pc = "reading" /\ todo # <<>> /\ todo' = Tail(todo)
    /\ LET e == Head(todo) IN
       \/ plugin = "lev_vod" /\ LevItem(e)
       \/ plugin = "cinematheque_vod" /\ CinemathequeItem(e)
       \/ plugin = "israel_film_archive" /\ ArchiveItem(e)
       \/ plugin = "kan" /\ KanItem(e)
       \/ plugin = "reshet13" /\ ReshetItem(e)
       \/ plugin = "mako" /\ MakoItem(e)
       \/ plugin = "freetv" /\ FreetvItem(e)
       \/ plugin = "disney_plus_il" /\ DisneyItem(e)
    /\ UNCHANGED <<service, doc, barred, found, listing>>

(* What was gathered is offered; what is owed is counted, once for each    *)
(* kind of failure.                                                        *)
Settles ==
    /\ pc = "reading" /\ todo = <<>> /\ plugin \in Gathering
    /\ RecordErrors(Cardinality(owed), "done")
    /\ UNCHANGED <<service, doc, barred, found, todo, listing, owed, yielded>>

(* A document of Mako's or Disney's, or a page of FreeTV's, is offered.    *)
DocumentEnds ==
    /\ pc = "reading" /\ todo = <<>> /\ plugin \notin Gathering
    /\ pc' = IF (IF plugin = "freetv" THEN seen < total ELSE doc <= Len(site))
             THEN "loading" ELSE "done"
    /\ UNCHANGED <<service, doc, barred, found, todo, listing, errors, streak, owed, yielded>>

-----------------------------------------------------------------------------
(* FreeTV's listing changes while its pages are read.                      *)

Stirs ==
    /\ plugin = "freetv" /\ pc \in {"loading", "reading"} /\ ~stirred /\ stirred' = TRUE
    /\ \E k \in DOMAIN site[1] :
          \/ site' = [site EXCEPT ![1] = RemoveAt(@, k)]
          \/ site' = [site EXCEPT ![1] = <<@[k]>> \o RemoveAt(@, k)]
    /\ UNCHANGED <<plugin, pc, doc, barred, found, todo, listing, errors, streak, owed, yielded>>

Next ==
    \/ Opens \/ Forbidden \/ IndexLost
    \/ Gathers \/ KeptOut \/ SitemapLost \/ Fails
    \/ Lists \/ MakoTurns \/ DisneyTurns \/ Pages \/ CutOff
    \/ NextItem \/ Settles \/ DocumentEnds
    \/ Stirs

Spec == Init /\ [][Next]_vars

-----------------------------------------------------------------------------

Published == UNION {ToSet(site[d]) : d \in DOMAIN site \ barred}

(* What a reading that ends well leaves out, it has said: where no error   *)
(* is counted and nothing was cut off, every film of a document it may     *)
(* read is offered, and with its price where the service asks one ("a      *)
(* malformed card must be loud rather than silently lost"; "a catalog that *)
(* quietly lost every price must not look healthy").                       *)
LeftOutIsSaid ==
    pc = "done" /\ errors = 0 /\ ~truncated /\ ~stirred =>
        \A e \in Published : e.is # "other" =>
            \E o \in yielded : o.film = e.film /\ (o.type = "rent" => o.price # None)

(* Nobody is told that a film is given away which is sold, whatever could  *)
(* not be read of it (cinematheque_vod.py, "Free means free"; _price_minor *)
(* of the archive, "would put a paid film in the catalog as free").        *)
FreeMeansFree ==
    plugin \in Before => \A o \in yielded :
        \E e \in Published : e.film = o.film /\ e.is = "offer"
            /\ (o.type = "free" => e.price = 0) /\ (o.price # None => o.price = e.price)

(* A reading that is given up has offered nothing yet, where everything is *)
(* gathered first and counted together: a service that turns its reader    *)
(* away, or another layout, costs nobody a title of half a catalog         *)
(* (kan.py, "fails the sync before anything is stored").                   *)
NothingOfARefusal ==
    pc = "failed" /\ plugin \in Together \cup {"israel_film_archive"} => yielded = {}
=============================================================================
