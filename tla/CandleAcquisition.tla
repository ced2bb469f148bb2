-------------------------- MODULE CandleAcquisition --------------------------
(****************************************************************************)
(* acquireCandles: the history of one market fetched page by page from an   *)
(* exchange that may answer a page with nothing or with its tail only, and  *)
(* the dataset written from it.                                             *)
(*                                                                          *)
(* Time is in ticks, the exchange's resolution of request dates (a second); *)
(* a bar lasts Bar of them and is named by its number k: it starts at       *)
(* (k - 1) * Bar and ends at k * Bar, its timestamp.                        *)
(* Left out: the candles' values here (validateCandles: Backtest chooses    *)
(* valid ones), the output file's format, an answer of another market.      *)
(* Definitions whose name starts with Wrong are deliberate mistakes that no *)
(* action uses; each shows that some property would notice it.              *)
(****************************************************************************)
EXTENDS Integers, Sequences, SequencesExt

CONSTANTS
    Bar,            \* ticks per bar
    PageBars,       \* barsPerPage
    PageAttempts,
    LastBar,        \* bound: the bars 1..LastBar exist
    From,           \* the starts of the range that may be asked for
    To,             \* its end
    Quiet           \* the bars that may be without a trade, hence without a candle

ASSUME AcquisitionAssumption ==
    /\ {Bar, PageBars, PageAttempts, LastBar, To} \subseteq Nat \ {0}
    /\ From \subseteq 0..(To - 1)
    /\ Quiet \subseteq 1..LastBar

VARIABLES
    from,        \* the range asked for starts here
    market,      \* the exchange's candles: a set of bars, what retention kept
    filter,      \* what it compares with the dates of a request
    pages,       \* the pages accepted so far, sets of bars
    attempt, best,   \* of the current page: attempts made, best answer so far
    outcome,     \* "" while fetching, else how the acquisition ended
    file,        \* the dataset written
    warned       \* did it come with a warning

acqVars == <<from, market, filter, pages, attempt, best, outcome, file, warned>>

PageTicks == Bar * PageBars
Cursor    == from + Len(pages) * PageTicks

PageTo    == Min({Cursor + PageTicks - 1, To})
Raw       == UNION Range(pages)

AcqInit ==
    /\ from \in From
    /\ \E oldest \in 1..LastBar, quiet \in {{}} \cup {{k} : k \in Quiet} :
          market = (oldest..LastBar) \ quiet
    /\ filter \in {"start", "end", "after"}
    /\ pages = <<>> /\ attempt = 0 /\ best = {}
    /\ outcome = "" /\ file = {} /\ warned = FALSE

----------------------------------------------------------------------------
(* The exchange: GetTickerHistory compares the start or the end of a bar with *)
(* the two dates, or takes the first date as exclusive; it may drop the head  *)
(* of its answer.                                                             *)

Matches(k, lo, hi) ==
    CASE filter = "start" -> (k - 1) * Bar \in lo..hi
      [] filter = "end"   -> k * Bar \in lo..hi
      [] filter = "after" -> k * Bar \in (lo + 1)..hi

Answers ==
    LET all == {k \in market : Matches(k, Cursor, PageTo)}
    IN  {{}} \cup {{k \in all : k >= j} : j \in all}

----------------------------------------------------------------------------
(* acquireCandles                                                            *)

\* pageCoversHead: one bar of tolerance.
CoversHead(page) == page # {} /\ Min(page) * Bar <= Cursor + Bar

\* isBetterPage
Better(page, other) ==
    /\ page # {}
    /\ \/ other = {}
       \/ Min(page) < Min(other)
       \/ Min(page) = Min(other) /\ Cardinality(page) > Cardinality(other)

Accept(page) ==
    /\ pages' = Append(pages, page)
    /\ attempt' = 0 /\ best' = {}
    /\ UNCHANGED <<outcome, file, warned>>

Fail(why) ==
    /\ outcome' = why
    /\ UNCHANGED <<pages, attempt, best, file, warned>>

\* Wrong: the best answer of the last attempt is taken, inside the series too.
WrongGivesUp(page) == Accept(page)

\* After the last attempt: a page known to be truncated is refused inside the series;
\* before it, or when every answer was empty, what there is is taken.
GivesUp(page) == IF page # {} /\ Raw # {} THEN Fail("truncated") ELSE Accept(page)

Ask ==
    /\ outcome = "" /\ Cursor <= To
    /\ UNCHANGED <<from, market, filter>>
    /\ \/ Fail("no answer")
       \/ \E page \in Answers :
             LET better == IF Better(page, best) THEN page ELSE best IN
             IF CoversHead(page) THEN Accept(page)
             ELSE IF attempt + 1 < PageAttempts
             THEN /\ attempt' = attempt + 1 /\ best' = better
                  /\ UNCHANGED <<pages, outcome, file, warned>>
             ELSE GivesUp(better)

\* A bar that two pages hold; the bars of the range.
Duplicated == \E i, j \in DOMAIN pages : i < j /\ pages[i] \cap pages[j] # {}
InRange    == {k \in Raw : k * Bar \in from..To}

\* A start or an end not covered, or a gap: the warnings.
Short(bars) ==
    \/ Min(bars) * Bar > from + Bar
    \/ Max(bars) * Bar < To - Bar
    \/ bars # Min(bars)..Max(bars)

\* The pages are all there: the dataset is written unless it is ambiguous or empty.
Finish ==
    /\ outcome = "" /\ Cursor > To
    /\ UNCHANGED <<from, market, filter>>
    /\ CASE Duplicated    -> Fail("duplicate")
         [] ~Duplicated /\ InRange = {} -> Fail("empty")
         [] OTHER ->
               /\ outcome' = "written" /\ file' = InRange /\ warned' = Short(InRange)
               /\ UNCHANGED <<pages, attempt, best>>

AcqNext == Ask \/ Finish

----------------------------------------------------------------------------
(* Properties *)

PageOf(k) == ((k - 1) * Bar - from) \div PageTicks

\* What the acquisition writes is what it says.  A dataset without a warning holds
\* every bar the range covers; no boundary between two pages delivers a bar twice,
\* whichever end of a bar the exchange compares; and when it compares the start, the
\* bars missing behind the first one are missing by whole pages, which came back empty
\* every time: no page is ever accepted without its head (acquireCandles, lines 15-34).
DatasetIsHonest ==
    /\ outcome # "duplicate"
    /\ outcome = "written" /\ ~warned =>
          \A k \in 1..LastBar : k * Bar \in (from + Bar)..(To - Bar) => k \in file
    /\ outcome = "written" /\ filter = "start" =>
          \A k \in market \ file :
              k * Bar \in (Min(file) * Bar)..To => \A j \in file : PageOf(j) # PageOf(k)
=============================================================================
