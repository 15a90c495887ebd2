---------------------------- MODULE BrowseProofs -----------------------------
(***************************************************************************)
(* Theorems about Browse: where a title stands, what counts as news, and   *)
(* whose totals are shown to whom.                                         *)
(***************************************************************************)
EXTENDS Browse, SequenceTheorems, FiniteSetTheorems, WellFoundedInduction, TLAPS

-----------------------------------------------------------------------------
(* Whatever the rows say, a title is there, gone, or only where nobody     *)
(* looks any more, for any choice of services (_availability_ids: "has     *)
(* moved, not gone").                                                      *)
THEOREM PlacesOfTitles == EveryTitleHasItsPlace
<1> SUFFICES ASSUME NEW K \in SUBSET Services, NEW t \in Titles
             PROVE  /\ ~(Available(t, K, "gone") /\ Available(t, K, "current"))
                    /\ Available(t, K, "gone") =>
                          ~\E o \in On(t, K) : o.current /\ o.service \in tracked
                    /\ Available(t, K, "any") =>
                          \/ Available(t, K, "gone") \/ Available(t, K, "current")
                          \/ \A o \in On(t, K) : o.current /\ o.service \notin tracked
    BY DEF EveryTitleHasItsPlace
<1>1. Available(t, K, "gone") = ((\E o \in On(t, K) : ~o.current) /\ ~Watchable(t, K))
    BY DEF Available
<1>2. Available(t, K, "current") = Watchable(t, K)
    BY DEF Available
<1>3. Available(t, K, "any") = (On(t, K) # {})
    BY DEF Available
<1> QED BY <1>1, <1>2, <1>3 DEF Watchable

-----------------------------------------------------------------------------
(* Two questions that are remembered under one key have one answer: the    *)
(* owner is told apart exactly where their own are left out (list_titles:  *)
(* "two members' unseen are two different counts").                        *)
THEOREM KeysTellQuestionsApart ==
    ASSUME BrowseAssumption, NEW q \in Questions, NEW p \in Questions, Key(q) = Key(p)
    PROVE  Matching(q) = Matching(p)
<1>1. q \in Question /\ p \in Question
    BY DEF BrowseAssumption
<1>2. CASE q.exclude # None
  <2>1. Key(q) = q
    BY <1>2 DEF Key
  <2>2. p.exclude # None
    <3> SUFFICES ASSUME p.exclude = None PROVE FALSE
        OBVIOUS
    <3>1. Key(p) = [p EXCEPT !.member = None]
        BY DEF Key
    <3>2. Key(p).exclude = None
        BY <3>1, <1>1 DEF Question
    <3> QED BY <3>2, <2>1, <1>2
  <2>3. Key(p) = p
    BY <2>2 DEF Key
  <2> QED BY <2>1, <2>3
<1>3. CASE q.exclude = None
  <2>1. Key(q) = [q EXCEPT !.member = None]
    BY <1>3 DEF Key
  <2>2. Key(q).exclude = None
    BY <2>1, <1>1, <1>3 DEF Question
  <2>3. p.exclude = None
    BY <2>2 DEF Key
  <2>4. Key(p) = [p EXCEPT !.member = None]
    BY <2>3 DEF Key
  <2>5. /\ q.word = p.word /\ q.services = p.services /\ q.available = p.available
        /\ q.through = p.through
    <3>1. \A r \in Question : LET k == [r EXCEPT !.member = None] IN
             /\ k.word = r.word /\ k.services = r.services /\ k.available = r.available
             /\ k.through = r.through
        BY DEF Question
    <3>2. /\ Key(q).word = q.word /\ Key(q).services = q.services
          /\ Key(q).available = q.available /\ Key(q).through = q.through
        BY <2>1, <1>1, <3>1
    <3>3. /\ Key(p).word = p.word /\ Key(p).services = p.services
          /\ Key(p).available = p.available /\ Key(p).through = p.through
        BY <2>4, <1>1, <3>1
    <3> QED BY <3>2, <3>3
  <2>6. None # "watched" /\ None # "listed"
    BY DEF BrowseAssumption
  <2>7. \A t \in q.through : ~Own(t, q) /\ ~Own(t, p)
    BY <2>6, <1>3, <2>3 DEF Own
  <2>8. \A t \in q.through : Offered(t, q) = Offered(t, p)
    BY <2>5 DEF Offered
  <2> QED BY <2>5, <2>7, <2>8 DEF Matching
<1> QED BY <1>2, <1>3

-----------------------------------------------------------------------------
(* Totals.  A total that is kept is backed: while it is young, it is what  *)
(* every question of its key had for an answer when it was counted.        *)

Entry == [key : {Key(q) : q \in Questions}, expires : Int, total : Nat]
Backed ==
    {e \in Entry : e.expires > now =>
        \A q \in Questions : Key(q) = e.key =>
            [question |-> q, count |-> e.total, at |-> e.expires - Ttl] \in truths}

(* What was counted now, what was counted lately, and what a reader holds. *)
CountedNow == \A q \in Questions : Counts(q) \in truths
CountedLately == \A c \in truths : c.at \in Int /\ now - Ttl < c.at /\ c.at <= now
WalkOK ==
    /\ walk = [question |-> walk.question, sort |-> walk.sort, page |-> walk.page,
               got |-> walk.got, told |-> walk.told, calm |-> walk.calm]
    /\ walk.question # None =>
          walk.question \in Questions /\ walk.told.at \in Nat /\ walk.told.at <= now

TotalsInv ==
    /\ now \in Nat /\ counts \in Seq(Backed)
    /\ CountedNow /\ CountedLately /\ WalkOK /\ TotalsAreRecent

LEMMA MatchingFinite ==
    ASSUME BrowseAssumption, NEW q \in Questions
    PROVE  Cardinality(Matching(q)) \in Nat
<1>1. Matching(q) \subseteq Titles
    BY DEF BrowseAssumption, Question, Matching
<1> QED BY <1>1, FS_Subset, FS_CardinalityType DEF BrowseAssumption

LEMMA RemovalsStay ==
    ASSUME NEW S, NEW s \in Seq(S), NEW i \in DOMAIN s
    PROVE  RemoveAt(s, i) \in Seq(S)
<1>1. Len(s) \in Nat /\ DOMAIN s = 1 .. Len(s) /\ \A j \in 1 .. Len(s) : s[j] \in S
    BY LenProperties, ElementOfSeq
<1>2. SubSeq(s, 1, i - 1) \in Seq(S)
  <2>1. \A j \in 1 .. i - 1 : s[j] \in S
    BY <1>1
  <2> QED BY <1>1, <2>1, SubSeqProperties
<1>3. SubSeq(s, i + 1, Len(s)) \in Seq(S)
  <2>1. \A j \in i + 1 .. Len(s) : s[j] \in S
    BY <1>1
  <2> QED BY <1>1, <2>1, SubSeqProperties
<1> QED BY <1>2, <1>3, ConcatProperties DEF RemoveAt

(* Answers are of the rows, and of nothing else.                           *)
LEMMA SameRowsSameAnswers ==
    ASSUME NEW q, UNCHANGED db
    PROVE  Matching(q)' = Matching(q)
<1>1. offers' = offers /\ tracked' = tracked /\ own' = own
    BY DEF db
<1>2. \A t, K, a : Available(t, K, a)' = Available(t, K, a)
    BY <1>1 DEF Available, Watchable, On
<1>3. \A t : UserAdded(t)' = UserAdded(t)
    BY <1>1 DEF UserAdded, On
<1>4. \A t : Offered(t, q)' = Offered(t, q)
    BY <1>2, <1>3 DEF Offered
<1>5. \A t : Own(t, q)' = Own(t, q)
    BY <1>1 DEF Own
<1> QED BY <1>4, <1>5 DEF Matching

(* As long as they are, nothing that is backed ceases to be.               *)
LEMMA QuietKeepsCounted ==
    ASSUME TotalsInv, UNCHANGED <<db, now, truths>>
    PROVE  CountedNow' /\ CountedLately' /\ Backed' = Backed
<1>1. \A q \in Questions : Counts(q)' = Counts(q)
    BY SameRowsSameAnswers DEF Counts
<1>2. CountedNow'
    BY <1>1 DEF TotalsInv, CountedNow
<1>3. CountedLately' /\ Backed' = Backed
    BY DEF TotalsInv, CountedLately, Backed, Entry
<1> QED BY <1>2, <1>3

(* What an answer leaves in the cache is backed, and what it tells the     *)
(* reader was counted.                                                     *)
LEMMA AnswersAreBacked ==
    ASSUME BrowseAssumption, TotalsInv, NEW q \in Questions
    PROVE  /\ Kept(q) \in Seq(Backed)
           /\ \E c \in truths : c.question = q /\ c.count = Total(q)
<1> DEFINE k == Key(q)
           fresh == [key |-> k, expires |-> now + Ttl, total |-> Cardinality(Matching(q))]
           entry == IF Young(k) THEN counts[At(k)] ELSE fresh
           rest == IF HeldAt(k) = {} THEN counts ELSE RemoveAt(counts, At(k))
<1>1. now \in Nat /\ Ttl \in Nat /\ CacheSize \in Nat /\ counts \in Seq(Backed)
    BY DEF BrowseAssumption, TotalsInv
<1>2. ASSUME HeldAt(k) # {}
      PROVE  /\ At(k) \in DOMAIN counts /\ counts[At(k)].key = k
             /\ counts[At(k)] \in Backed
  <2>1. At(k) \in HeldAt(k)
    BY <1>2 DEF At
  <2>2. At(k) \in DOMAIN counts /\ counts[At(k)].key = k
    BY <2>1 DEF HeldAt
  <2>3. DOMAIN counts = 1 .. Len(counts)
    BY <1>1, LenProperties
  <2> QED BY <1>1, <2>2, <2>3, ElementOfSeq
<1>3. fresh \in Backed
  <2>1. fresh \in Entry
    BY <1>1, MatchingFinite DEF Entry
  <2>2. ASSUME NEW p \in Questions, Key(p) = k
        PROVE  [question |-> p, count |-> fresh.total, at |-> fresh.expires - Ttl] \in truths
    <3>1. Matching(p) = Matching(q)
        BY <2>2, KeysTellQuestionsApart
    <3>2. now + Ttl - Ttl = now
        BY <1>1
    <3>3. Counts(p) \in truths
        BY DEF TotalsInv, CountedNow
    <3>4. Counts(p) = [question |-> p, count |-> fresh.total, at |-> fresh.expires - Ttl]
      <4>1. fresh.total = Cardinality(Matching(q)) /\ fresh.expires = now + Ttl
        OBVIOUS
      <4>2. Counts(p) = [question |-> p, count |-> Cardinality(Matching(q)), at |-> now]
        BY <3>1 DEF Counts
      <4> HIDE DEF fresh
      <4>3. fresh.expires - Ttl = now
        BY <4>1, <1>1
      <4> QED BY <4>1, <4>2, <4>3
    <3> QED BY <3>3, <3>4
  <2> QED BY <2>1, <2>2 DEF Backed
<1>4. entry \in Backed
    BY <1>2, <1>3 DEF Young
<1>5. rest \in Seq(Backed)
    BY <1>1, <1>2, RemovalsStay
<1>6. Append(rest, entry) \in Seq(Backed)
    BY <1>4, <1>5, AppendProperties
<1>7. Kept(q) \in Seq(Backed)
  <2> DEFINE all == Append(rest, entry)
  <2>1. Kept(q) = IF Len(all) <= CacheSize THEN all
                  ELSE SubSeq(all, Len(all) - CacheSize + 1, Len(all))
    BY DEF Kept
  <2>2. Len(all) \in Nat /\ \A j \in 1 .. Len(all) : all[j] \in Backed
    BY <1>6, LenProperties, ElementOfSeq
  <2> HIDE DEF all
  <2>3. ASSUME ~(Len(all) <= CacheSize)
        PROVE  SubSeq(all, Len(all) - CacheSize + 1, Len(all)) \in Seq(Backed)
    <3>1. \A j \in Len(all) - CacheSize + 1 .. Len(all) : all[j] \in Backed
        BY <2>2, <2>3, <1>1
    <3> QED BY <3>1, <2>2, <1>1, SubSeqProperties
  <2> QED BY <2>1, <2>3, <1>6 DEF all
<1>8. \E c \in truths : c.question = q /\ c.count = Total(q)
  <2>1. CASE Young(k)
    <3>1. counts[At(k)] \in Backed /\ counts[At(k)].key = k /\ counts[At(k)].expires > now
        BY <2>1, <1>2 DEF Young
    <3>2. [question |-> q, count |-> counts[At(k)].total, at |-> counts[At(k)].expires - Ttl]
              \in truths
        BY <3>1 DEF Backed
    <3>3. Total(q) = counts[At(k)].total
        BY <2>1 DEF Total
    <3> QED BY <3>2, <3>3
  <2>2. CASE ~Young(k)
    <3>1. Counts(q) \in truths
        BY DEF TotalsInv, CountedNow
    <3>2. Total(q) = Cardinality(Matching(q))
        BY <2>2 DEF Total
    <3> QED BY <3>1, <3>2 DEF Counts
  <2> QED BY <2>1, <2>2
<1> QED BY <1>7, <1>8

(* A moment passes, whatever else changes with it.                         *)
LEMMA MomentsKeepTotals ==
    ASSUME BrowseAssumption, TotalsInv,
           now' = now + 1, Remembered, UNCHANGED counts,
           walk' = walk \/ walk' = [walk EXCEPT !.calm = FALSE]
    PROVE  TotalsInv'
<1>1. now \in Nat /\ now' \in Nat /\ Ttl \in Nat \ {0}
    BY DEF BrowseAssumption, TotalsInv
<1>2. truths' = {c \in truths : c.at > now' - Ttl} \cup {Counts(q) : q \in Questions}'
    BY DEF Remembered
<1>3. CountedNow'
    BY <1>2 DEF CountedNow
<1>4. CountedLately'
  <2> SUFFICES ASSUME NEW c \in truths'
               PROVE  c.at \in Int /\ now' - Ttl < c.at /\ c.at <= now'
    BY DEF CountedLately
  <2>1. CASE c \in truths /\ c.at > now' - Ttl
    BY <2>1, <1>1 DEF TotalsInv, CountedLately
  <2>2. CASE c \in {Counts(q) : q \in Questions}'
    <3>1. c.at = now'
        BY <2>2 DEF Counts
    <3> QED BY <3>1, <1>1
  <2> QED BY <2>1, <2>2, <1>2
<1>5. Backed \subseteq Backed'
  <2> SUFFICES ASSUME NEW e \in Backed, e.expires > now', NEW q \in Questions, Key(q) = e.key
               PROVE  [question |-> q, count |-> e.total, at |-> e.expires - Ttl] \in truths'
    BY DEF Backed, Entry
  <2>1. e.expires \in Int
    BY DEF Backed, Entry
  <2>2. e.expires > now
    BY <2>1, <1>1
  <2>3. [question |-> q, count |-> e.total, at |-> e.expires - Ttl] \in truths
    BY <2>2 DEF Backed
  <2>4. e.expires - Ttl > now' - Ttl
    BY <2>1, <1>1
  <2> QED BY <2>3, <2>4, <1>2
<1>6. counts' \in Seq(Backed')
    BY <1>5, SeqMonotonic DEF TotalsInv
<1>7. /\ walk'.question = walk.question /\ walk'.told = walk.told
      /\ walk' = [question |-> walk'.question, sort |-> walk'.sort, page |-> walk'.page,
                  got |-> walk'.got, told |-> walk'.told, calm |-> walk'.calm]
    BY DEF TotalsInv, WalkOK
<1>8. WalkOK'
    BY <1>1, <1>7 DEF TotalsInv, WalkOK
<1>9. TotalsAreRecent'
    BY <1>1, <1>7 DEF TotalsInv, WalkOK, TotalsAreRecent
<1> QED BY <1>1, <1>3, <1>4, <1>6, <1>8, <1>9 DEF TotalsInv

(* A page is answered.                                                     *)
LEMMA PagesKeepTotals ==
    ASSUME BrowseAssumption, TotalsInv, NEW q \in Questions,
           NEW sort, NEW page, NEW got, NEW calm, Page(q, sort, page, got, calm)
    PROVE  TotalsInv'
<1>1. now' = now /\ truths' = truths /\ counts' = Kept(q) /\ UNCHANGED db
    BY DEF Page
<1>2. walk' = [question |-> q, sort |-> sort, page |-> page, calm |-> calm,
               got |-> got \o Slice(Ordered(q, sort), page),
               told |-> [total |-> Total(q), at |-> now]]
    BY DEF Page
<1>3. Backed' = Backed /\ CountedNow' /\ CountedLately'
    BY <1>1, QuietKeepsCounted
<1>4. counts' \in Seq(Backed)'
    BY <1>1, <1>3, AnswersAreBacked
<1>7. /\ walk'.question = q /\ walk'.told.total = Total(q) /\ walk'.told.at = now
      /\ walk' = [question |-> walk'.question, sort |-> walk'.sort, page |-> walk'.page,
                  got |-> walk'.got, told |-> walk'.told, calm |-> walk'.calm]
    BY <1>2
<1>8. WalkOK'
    BY <1>1, <1>7 DEF TotalsInv, WalkOK
<1>9. TotalsAreRecent'
    BY <1>1, <1>7, AnswersAreBacked DEF TotalsAreRecent
<1> QED BY <1>1, <1>3, <1>4, <1>8, <1>9 DEF TotalsInv

(* What a reader is told of a total is what this question, with its owner, *)
(* had for an answer at most Ttl ago, whatever was committed meanwhile     *)
(* (_total_matching, COUNT_TTL: "a page count that is briefly off").       *)
THEOREM ReadersAreToldTheirTotals ==
    ASSUME BrowseAssumption
    PROVE  Spec => [](TotalsAreRecent /\ CountedLately)
<1>1. Init => TotalsInv
  <2> SUFFICES ASSUME Init PROVE TotalsInv
    OBVIOUS
  <2>1. now = 0 /\ counts = <<>> /\ walk = Idle /\ truths = {Counts(q) : q \in Questions}
    BY DEF Init
  <2>2. counts \in Seq(Backed)
    BY <2>1, EmptySeq
  <2>3. CountedNow
    BY <2>1 DEF CountedNow
  <2>4. CountedLately
    BY <2>1 DEF CountedLately, Counts, BrowseAssumption
  <2>5. WalkOK /\ TotalsAreRecent
    BY <2>1 DEF WalkOK, TotalsAreRecent, Idle
  <2> QED BY <2>1, <2>2, <2>3, <2>4, <2>5 DEF TotalsInv
<1>2. TotalsInv /\ [Next]_vars => TotalsInv'
  <2> SUFFICES ASSUME TotalsInv, [Next]_vars PROVE TotalsInv'
    OBVIOUS
  <2>1. CASE \/ \E t \in Titles, s \in Services : \E k \in Offerings[s] : Sees(t, s, k)
             \/ \E o \in offers : Loses(o)
             \/ \E s \in Services : Ends(s) \/ Switches(s)
             \/ \E m \in Members, t \in Titles : Says(m, t)
    <3>1. Changes
        BY <2>1 DEF Sees, Loses, Ends, Switches, Says
    <3> QED BY <3>1, MomentsKeepTotals DEF Changes
  <2>2. CASE Tick
    BY <2>2, MomentsKeepTotals DEF Tick
  <2>3. ASSUME NEW q \in Questions, NEW sort \in Sorts, Begins(q, sort)
        PROVE  TotalsInv'
    BY <2>3, PagesKeepTotals DEF Begins
  <2>4. CASE GoesOn
    BY <2>4, PagesKeepTotals DEF GoesOn, TotalsInv, WalkOK
  <2>5. CASE Restarts
    <3>1. counts' = <<>> /\ UNCHANGED <<db, now, walk, truths>>
        BY <2>5 DEF Restarts
    <3>2. counts' \in Seq(Backed)'
        BY <3>1, EmptySeq
    <3>3. CountedNow' /\ CountedLately'
        BY <3>1, QuietKeepsCounted
    <3> QED BY <3>1, <3>2, <3>3 DEF TotalsInv, WalkOK, TotalsAreRecent
  <2>6. CASE UNCHANGED vars
    <3>1. UNCHANGED <<db, now, truths, counts, walk>>
        BY <2>6 DEF vars
    <3>2. CountedNow' /\ CountedLately' /\ Backed' = Backed
        BY <3>1, QuietKeepsCounted
    <3> QED BY <3>1, <3>2 DEF TotalsInv, WalkOK, TotalsAreRecent
  <2> QED BY <2>1, <2>2, <2>3, <2>4, <2>5, <2>6 DEF Next
<1>3. TotalsInv => TotalsAreRecent /\ CountedLately
    BY DEF TotalsInv
<1> QED BY <1>1, <1>2, <1>3, PTL DEF Spec

-----------------------------------------------------------------------------
(* News.  The offers a service had when its first sweep ended stay, and    *)
(* keep their dates, which are no later than any end of a sweep.           *)

Kinds == UNION {Offerings[s] : s \in Services}
RowsOK ==
    /\ now \in Nat /\ finished \in [Services -> SUBSET Nat]
    /\ offers \subseteq Offer /\ OneRowEach(offers)
    /\ \A o \in offers : o.first <= now
    /\ carried \in [Services -> SUBSET (Titles \X Kinds)]
CarriedOK ==
    \A s \in Services :
        /\ carried[s] \subseteq Ways(s)
        /\ carried[s] # {} => finished[s] # {}
        /\ \A o \in offers : \A end \in finished[s] :
              o.service = s /\ <<o.title, o.kind>> \in carried[s] => o.first <= end
NewsInv == RowsOK /\ CarriedOK

LEMMA SomeIsLeast ==
    ASSUME NEW S \in SUBSET Nat, S # {}
    PROVE  Min(S) \in S
<1>1. PICK x \in S : \A y \in S : <<y, x>> \notin OpToRel(<, Nat)
    BY NatLessThanWellFounded, WFMin
<1>2. ASSUME NEW y \in S PROVE x <= y
  <2>1. x \in Nat /\ y \in Nat
    OBVIOUS
  <2>2. y < x => <<y, x>> \in OpToRel(<, Nat)
    BY <2>1 DEF OpToRel
  <2>3. ~(y < x)
    BY <1>1, <2>2
  <2> QED BY <2>1, <2>3
<1> QED BY <1>2 DEF Min

(* What is news is dated by a row that is; and such a row is younger than  *)
(* all that a service was found to have.                                   *)
LEMMA NewsFollow ==
    ASSUME BrowseAssumption, NewsInv
    PROVE  FoundIsNotNews
<1> DEFINE news == {o \in offers : /\ o.current /\ o.service \in tracked
                                   /\ Since(o.service) # None => o.first > Since(o.service)}
           dates(t, s) == {p.first : p \in {n \in news : n.title = t /\ n.service = s}}
<1>1. SUFFICES ASSUME NEW a \in Arrivals, NEW o \in On(a.title, {a.service}), o.first = a.at,
                      <<o.title, o.kind>> \in carried[a.service]
               PROVE  FALSE
    BY DEF FoundIsNotNews
<1>2. PICK n \in news : a = [title |-> n.title, service |-> n.service,
                             at |-> Min(dates(n.title, n.service))]
    BY DEF Arrivals
<1>3. \A r \in offers : r \in Offer /\ r.service \in Services /\ r.first \in Nat
    BY DEF NewsInv, RowsOK, Offer
<1>4. dates(n.title, n.service) \in SUBSET Nat /\ dates(n.title, n.service) # {}
    BY <1>2, <1>3
<1>5. a.at \in dates(n.title, n.service) /\ a.title = n.title /\ a.service = n.service
    BY <1>2, <1>4, SomeIsLeast
<1>6. PICK p \in news : p.first = a.at /\ p.service = a.service
    BY <1>5
<1>7. o \in offers /\ o.service = a.service /\ a.service \in Services
    BY <1>1, <1>2, <1>3, <1>5 DEF On
<1>8. finished[a.service] # {} /\ finished[a.service] \in SUBSET Nat
    BY <1>1, <1>7 DEF NewsInv, CarriedOK, RowsOK
<1>9. Since(a.service) \in finished[a.service] /\ Since(a.service) \in Nat
    BY <1>8, SomeIsLeast DEF Since
<1>10. o.first <= Since(a.service)
    BY <1>1, <1>7, <1>9 DEF NewsInv, CarriedOK
<1>11. p.first > Since(a.service)
    BY <1>6, <1>9 DEF BrowseAssumption
<1> QED BY <1>1, <1>3, <1>6, <1>7, <1>9, <1>10, <1>11

(* A row is put in place of those of its kind: it keeps their date, or is  *)
(* the first of them and dated no later than now.                          *)
LEMMA RowsStay ==
    ASSUME BrowseAssumption, NewsInv, NEW row \in Offer,
           NEW mine, mine = {o \in offers : /\ o.title = row.title /\ o.service = row.service
                                            /\ o.kind = row.kind},
           now' = now + 1, offers' = (offers \ mine) \cup {row}, UNCHANGED <<finished, carried>>,
           \A o \in mine : row.first = o.first, row.first <= now + 1
    PROVE  NewsInv'
<1>1. /\ now \in Nat /\ finished \in [Services -> SUBSET Nat] /\ offers \subseteq Offer
      /\ \A o, p \in offers : o.title = p.title /\ o.service = p.service /\ o.kind = p.kind => o = p
      /\ \A o \in offers : o.first \in Nat /\ o.first <= now
    BY DEF NewsInv, RowsOK, OneRowEach, Offer
<1>2. RowsOK'
  <2>1. offers' \subseteq Offer /\ \A o \in offers' : o.first <= now'
    BY <1>1
  <2>2. OneRowEach(offers')
    BY <1>1 DEF OneRowEach
  <2> QED BY <2>1, <2>2, <1>1 DEF NewsInv, RowsOK, Kinds, OneRowEach
<1>3. \A s \in Services : Ways(s) \subseteq Ways(s)'
  <2> SUFFICES ASSUME NEW s \in Services, NEW o \in offers, o.service = s
               PROVE  <<o.title, o.kind>> \in Ways(s)'
    BY DEF Ways
  <2>1. CASE o \in mine
    <3>1. o.title = row.title /\ o.kind = row.kind /\ row.service = s /\ row \in offers'
        BY <2>1
    <3> QED BY <3>1 DEF Ways
  <2>2. CASE o \notin mine
    <3>1. o \in offers'
        BY <2>2
    <3> QED BY <3>1 DEF Ways
  <2> QED BY <2>1, <2>2
<1>4. ASSUME NEW s \in Services, NEW o \in offers', NEW end \in finished'[s],
             o.service = s, <<o.title, o.kind>> \in carried'[s]
      PROVE  o.first <= end
  <2>1. PICK p \in offers : p.service = s /\ p.title = o.title /\ p.kind = o.kind
    BY <1>4 DEF NewsInv, CarriedOK, Ways
  <2>2. p.first <= end
    BY <2>1, <1>4 DEF NewsInv, CarriedOK
  <2>3. p.first = o.first
    BY <2>1, <1>1, <1>4
  <2> QED BY <2>2, <2>3
<1> QED BY <1>2, <1>3, <1>4 DEF NewsInv, CarriedOK

LEMMA SeeingKeepsNews ==
    ASSUME BrowseAssumption, NewsInv, NEW t \in Titles, NEW s \in Services,
           NEW k \in Offerings[s], Sees(t, s, k)
    PROVE  NewsInv'
<1> DEFINE mine == {o \in offers : o.title = t /\ o.service = s /\ o.kind = k}
           row(n) == [title |-> t, service |-> s, kind |-> k, current |-> TRUE, first |-> n]
<1>1. PICK seen \in {now + 1 - age : age \in Delays} \cap Nat :
          offers' = (offers \ mine) \cup {row(Recorded(mine, seen))}
    BY DEF Sees
<1>2. now' = now + 1 /\ UNCHANGED <<finished, carried>> /\ now \in Nat
    BY DEF Sees, Changes, NewsInv, RowsOK
<1>3. seen \in Nat /\ seen <= now + 1
    BY <1>2 DEF BrowseAssumption
<1>4. \A o \in mine : \A p \in mine : o = p
    BY DEF NewsInv, RowsOK, OneRowEach
<1>5. \A o \in mine : o.first \in Nat /\ o.first <= now
    BY DEF NewsInv, RowsOK, Offer
<1>6. PICK first \in Nat : /\ first = Recorded(mine, seen)
                           /\ first <= now + 1 /\ \A o \in mine : first = o.first
  <2>1. CASE mine = {}
    BY <2>1, <1>3 DEF Recorded
  <2>2. CASE mine # {}
    <3>1. PICK o \in mine : o = CHOOSE p \in mine : TRUE
        BY <2>2
    <3>2. Recorded(mine, seen) = o.first
        BY <2>2, <3>1 DEF Recorded
    <3> HIDE DEF mine
    <3> QED BY <3>1, <3>2, <1>2, <1>4, <1>5
  <2> QED BY <2>1, <2>2
<1>7. /\ row(first) \in Offer /\ row(first).title = t /\ row(first).service = s
      /\ row(first).kind = k /\ row(first).first = first
    BY DEF Offer
<1>8. offers' = (offers \ mine) \cup {row(first)}
    BY <1>1, <1>6
<1>9. mine = {o \in offers : /\ o.title = row(first).title /\ o.service = row(first).service
                             /\ o.kind = row(first).kind}
    BY <1>7
<1> HIDE DEF row, mine
<1> QED BY <1>2, <1>6, <1>7, <1>8, <1>9, RowsStay

LEMMA LosingKeepsNews ==
    ASSUME BrowseAssumption, NewsInv, NEW o \in offers, Loses(o)
    PROVE  NewsInv'
<1> DEFINE lost == [o EXCEPT !.current = FALSE]
           mine == {p \in offers : /\ p.title = o.title /\ p.service = o.service
                                   /\ p.kind = o.kind}
<1>1. now' = now + 1 /\ UNCHANGED <<finished, carried>> /\ offers' = (offers \ {o}) \cup {lost}
    BY DEF Loses, Changes
<1>2. o \in Offer /\ o.first \in Nat /\ o.first <= now /\ now \in Nat
    BY DEF NewsInv, RowsOK, Offer
<1>3. /\ lost \in Offer /\ lost.title = o.title /\ lost.service = o.service
      /\ lost.kind = o.kind /\ lost.first = o.first
    BY <1>2 DEF Offer
<1>4. mine = {o}
    BY DEF NewsInv, RowsOK, OneRowEach
<1>5. \A p \in mine : lost.first = p.first
    BY <1>3, <1>4
<1>6. mine = {p \in offers : /\ p.title = lost.title /\ p.service = lost.service
                             /\ p.kind = lost.kind}
    BY <1>3
<1>7. lost.first <= now + 1
    BY <1>2, <1>3
<1> HIDE DEF lost
<1> QED BY <1>1, <1>3, <1>4, <1>5, <1>6, <1>7, RowsStay

LEMMA EndingKeepsNews ==
    ASSUME BrowseAssumption, NewsInv, NEW s \in Services, Ends(s)
    PROVE  NewsInv'
<1>1. /\ offers' = offers /\ now' = now + 1
      /\ finished' = [finished EXCEPT ![s] = @ \cup {now + 1}]
      /\ carried' = IF finished[s] = {} THEN [carried EXCEPT ![s] = Ways(s)] ELSE carried
    BY DEF Ends, Changes
<1>2. /\ now \in Nat /\ finished \in [Services -> SUBSET Nat] /\ offers \subseteq Offer
      /\ carried \in [Services -> SUBSET (Titles \X Kinds)]
      /\ \A o \in offers : o.first \in Nat /\ o.first <= now
    BY DEF NewsInv, RowsOK, Offer
<1>3. \A u \in Services : Ways(u)' = Ways(u)
    BY <1>1 DEF Ways
<1>4. Ways(s) \in SUBSET (Titles \X Kinds)
    BY <1>2 DEF Ways, Offer, Kinds
<1>5. RowsOK'
  <2>1. finished' \in [Services -> SUBSET Nat] /\ carried' \in [Services -> SUBSET (Titles \X Kinds)]
    BY <1>1, <1>2, <1>4
  <2> QED BY <2>1, <1>1, <1>2 DEF NewsInv, RowsOK, OneRowEach, Kinds
<1>6. ASSUME NEW u \in Services
      PROVE  /\ carried'[u] \subseteq Ways(u) /\ (carried'[u] # {} => finished'[u] # {})
             /\ \A o \in offers : \A end \in finished'[u] :
                   o.service = u /\ <<o.title, o.kind>> \in carried'[u] => o.first <= end
  <2>1. CASE u # s
    <3>1. carried'[u] = carried[u] /\ finished'[u] = finished[u]
        BY <2>1, <1>1, <1>2
    <3> QED BY <3>1 DEF NewsInv, CarriedOK
  <2>2. CASE u = s
    <3>1. finished'[s] = finished[s] \cup {now + 1}
        BY <1>1, <1>2
    <3>2. \A o \in offers : o.first <= now + 1
        BY <1>2
    <3>3. CASE finished[s] = {}
      <4>1. carried'[s] = Ways(s)
        BY <3>3, <1>1, <1>2
      <4> QED BY <4>1, <3>1, <3>2, <3>3, <2>2
    <3>4. CASE finished[s] # {}
      <4>1. carried'[s] = carried[s]
        BY <3>4, <1>1
      <4> QED BY <4>1, <3>1, <3>2, <2>2 DEF NewsInv, CarriedOK
    <3> QED BY <3>3, <3>4
  <2> QED BY <2>1, <2>2
<1> QED BY <1>1, <1>3, <1>5, <1>6 DEF NewsInv, CarriedOK

(* What a service was found to have when its first sweep ended is never    *)
(* news, however often its offers lapse and come back, and however syncs   *)
(* overlap, for every catalog (_arrivals: "they were found").              *)
THEOREM FindingsAreNoNews ==
    ASSUME BrowseAssumption
    PROVE  Spec => []FoundIsNotNews
<1>1. Init => NewsInv
  <2> SUFFICES ASSUME Init PROVE NewsInv
    OBVIOUS
  <2>1. /\ offers \in Beginnings /\ now = 0 /\ carried = [s \in Services |-> Ways(s)]
        /\ finished = [s \in Services |-> IF \E o \in offers : o.service = s THEN {0} ELSE {}]
    BY DEF Init
  <2>2. offers \subseteq Offer /\ OneRowEach(offers) /\ \A o \in offers : o.first = 0
    BY <2>1 DEF BrowseAssumption
  <2>3. \A s \in Services : Ways(s) \in SUBSET (Titles \X Kinds)
    BY <2>2 DEF Ways, Offer, Kinds
  <2>4. RowsOK
    BY <2>1, <2>2, <2>3 DEF RowsOK
  <2>5. ASSUME NEW s \in Services
        PROVE  /\ carried[s] = Ways(s) /\ (Ways(s) # {} => finished[s] # {})
               /\ finished[s] \subseteq {0}
    BY <2>1 DEF Ways
  <2>6. CarriedOK
    BY <2>2, <2>5 DEF CarriedOK
  <2> QED BY <2>4, <2>6 DEF NewsInv
<1>2. NewsInv /\ [Next]_vars => NewsInv'
  <2> SUFFICES ASSUME NewsInv, [Next]_vars PROVE NewsInv'
    OBVIOUS
  <2>1. ASSUME NEW t \in Titles, NEW s \in Services, NEW k \in Offerings[s], Sees(t, s, k)
        PROVE  NewsInv'
    BY <2>1, SeeingKeepsNews
  <2>2. ASSUME NEW o \in offers, Loses(o)
        PROVE  NewsInv'
    BY <2>2, LosingKeepsNews
  <2>3. ASSUME NEW s \in Services, Ends(s)
        PROVE  NewsInv'
    BY <2>3, EndingKeepsNews
  <2>4. CASE \/ \E s \in Services : Switches(s)
             \/ \E m \in Members, t \in Titles : Says(m, t)
             \/ Tick
    <3>1. UNCHANGED <<offers, carried, finished>> /\ now' = now + 1
        BY <2>4 DEF Switches, Says, Tick, Changes, db
    <3>2. \A s \in Services : Ways(s)' = Ways(s)
        BY <3>1 DEF Ways
    <3>3. \A o \in offers : o.first \in Nat /\ now \in Nat
        BY DEF NewsInv, RowsOK, Offer
    <3>4. RowsOK'
        BY <3>1, <3>3 DEF NewsInv, RowsOK, OneRowEach, Kinds
    <3> QED BY <3>1, <3>2, <3>4 DEF NewsInv, CarriedOK
  <2>5. CASE \/ \E q \in Questions, sort \in Sorts : Begins(q, sort)
             \/ GoesOn \/ Restarts \/ UNCHANGED vars
    <3>1. UNCHANGED <<offers, carried, finished, now>>
        BY <2>5 DEF Begins, GoesOn, Page, Restarts, vars, db
    <3>2. \A s \in Services : Ways(s)' = Ways(s)
        BY <3>1 DEF Ways
    <3> QED BY <3>1, <3>2 DEF NewsInv, RowsOK, CarriedOK, OneRowEach, Kinds
  <2> QED BY <2>1, <2>2, <2>3, <2>4, <2>5 DEF Next
<1>3. NewsInv => FoundIsNotNews
    BY NewsFollow
<1> QED BY <1>1, <1>2, <1>3, PTL DEF Spec

=============================================================================
