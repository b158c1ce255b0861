------------------------------- MODULE BarCatalog -------------------------------
(* The bar catalog of one instrument and bar type, as the downloader fills it    *)
(* (services/bar_downloader.py).  A day has many bars: on the day itself the     *)
(* venue has those until now, from the next day on all of them.                  *)
EXTENDS Integers

CONSTANTS
  LastCatalogDay,            \* of the calendar, which starts with day 0
  Lookback,           \* lookback_days, when no dates are given
  MaxDownloads        \* bound

CatalogDays == 0..LastCatalogDay

ASSUME CatalogAssumption == {LastCatalogDay, Lookback, MaxDownloads} \subseteq Nat

VARIABLES
  today,
  catalog,            \* per day: "none", "some" or "all" of its bars
  asked,              \* first days that downloads asked for, and days they ran on (history)
  downloads

catalogVars == <<today, catalog, asked, downloads>>

CatalogInit ==
  /\ today = 0 /\ catalog = [d \in CatalogDays |-> "none"]
  /\ asked = [from |-> {}, on |-> {}] /\ downloads = 0

Later(a, b) == IF a >= b THEN a ELSE b
HeldDays == {d \in CatalogDays : catalog[d] # "none"}
Newest == CHOOSE d \in HeldDays : \A e \in HeldDays : e <= d

\* _get_effective_start: the day after the newest bar's, whether or not that day was
\* over when it was downloaded.  A catalog that does not answer is not asked again.
EffectiveStartLate(start) ==                          \* mutant: a day too late
  {start} \cup (IF HeldDays = {} THEN {} ELSE {Later(start, Newest + 2)})
EffectiveStart(start) ==
  {start} \cup (IF HeldDays = {} THEN {} ELSE {Later(start, Newest + 1)})

\* _download_single: every page or nothing is written; a range that is empty by then
\* is up to date.  An error of one instrument does not stop the batch.
Fetched(from, end) ==
  [d \in CatalogDays |->
     IF from <= d /\ d <= end /\ d <= today
     THEN IF d < today THEN "all" ELSE "some"
     ELSE catalog[d]]

DownloadRange(start, end) ==
  /\ downloads < MaxDownloads /\ downloads' = downloads + 1
  /\ \/ UNCHANGED catalog
     \/ \E from \in EffectiveStart(start) : catalog' = Fetched(from, end)
  /\ asked' = [from |-> asked.from \cup {start}, on |-> asked.on \cup {today}]
  /\ UNCHANGED today

\* download: the dates given, or the lookback until today.
Download(dates) ==
  IF dates = {} THEN DownloadRange(today - Lookback, today)
  ELSE \E start, end \in dates : DownloadRange(start, end)

\* sam download-bars insists on one of the two.
DownloadBars == Download({}) \/ Download(CatalogDays)

DayPasses ==
  /\ today < LastCatalogDay /\ today' = today + 1
  /\ UNCHANGED <<catalog, asked, downloads>>

CatalogNext == DownloadBars \/ DayPasses

CatalogSpec == CatalogInit /\ [][CatalogNext]_catalogVars

-----------------------------------------------------------------------------
(* Property *)

\* Where the catalog is not continuous, a download's dates say why: below the newest
\* bar a day is missing only in front of a day that a download asked to start with, and
\* a day is incomplete only if a download ran on it.  (Nothing completes it later.)
HolesAreExplained ==
  \A d \in CatalogDays : HeldDays # {} /\ d < Newest =>
    /\ catalog[d] = "some" => d \in asked.on
    /\ catalog[d] = "none" /\ catalog[d + 1] # "none" => d + 1 \in asked.from
=============================================================================
