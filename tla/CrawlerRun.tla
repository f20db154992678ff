----------------------------- MODULE CrawlerRun -----------------------------
(***************************************************************************)
(* One crawl of one platform: the run() that wraps a scraper, under the    *)
(* timeout of the dispatcher and up to the outcome the dispatcher makes of *)
(* its result, which is the verdict CrawlDispatch chooses freely.          *)
(***************************************************************************)
EXTENDS RecordScrapers, PeopleScrapers, SocialScrapers, CyberScrapers, TLC

CONSTANT MaxAttempts    \* MAX_SCRAPER_RETRIES

ASSUME AttemptsAssumption == MaxAttempts \in Nat \ {0}

Catalog   == RecordCatalog @@ PeopleCatalog @@ SocialCatalog @@ CyberCatalog
Platforms == DOMAIN Catalog

\* Platforms the settings can switch off.
Switched == {"instagram", "linkedin", "twitter", "facebook", "tiktok", "telegram"}

VARIABLES
    platform,
    pc,        \* "start" of an attempt, "ask", "over"
    way, step, \* the sources of this attempt and the next of them
    kept,      \* a record was kept
    heard,     \* history: what the sources of this attempt said
    attempt,   \* attempts that raised
    outcome    \* what the dispatcher makes of the result

runVars == <<platform, pc, way, step, kept, heard, attempt, outcome>>

Outcome == {"found", "empty", "rate", "block", "timeout"}
Heard   == {"hit", "limited", "challenge"}

RunInit ==
    /\ platform \in Platforms
    /\ pc = "start" /\ way = <<>> /\ step = 1 /\ kept = FALSE /\ heard = {}
    /\ attempt = 0 /\ outcome = "empty"

-----------------------------------------------------------------------------
\* The dispatcher looks at "found", then for two words in the error.
OutcomeOf(v) == IF v \in {"found", "rate", "block"} THEN v ELSE "empty"

\* A text that is not the scraper's own may have either word.
Texts(v) == IF v = "quoted" THEN {"rate", "block", "error"} ELSE {v}

Ends(v) == /\ pc' = "over" /\ \E text \in Texts(v) : outcome' = OutcomeOf(text)
           /\ UNCHANGED <<way, step, kept, attempt>>

\* The error of an open circuit names the platform, in which the dispatcher
\* finds its words as well.
CircuitError == CASE platform \in {"company_opencorporates", "us_corporate_registry"} -> "rate"
                  [] platform = "crypto_blockchair"                                   -> "block"
                  [] OTHER                                                            -> "error"

Refused ==
    /\ pc = "start" /\ attempt = 0
    /\ \/ platform \in Switched /\ Ends("error")
       \/ Ends(CircuitError)
    /\ UNCHANGED <<platform, heard>>

\* scrape() ends before its first request.
Declines ==
    /\ pc = "start" /\ \E v \in Catalog[platform].early : Ends(v)
    /\ heard' = {} /\ UNCHANGED platform

Begins ==
    /\ pc = "start" /\ pc' = "ask"
    /\ way' \in Catalog[platform].ways
    /\ step' = 1 /\ kept' = FALSE /\ heard' = {}
    /\ UNCHANGED <<platform, attempt, outcome>>

-----------------------------------------------------------------------------
(* A source says something and the transport delivers it.                   *)

\* raise_for_status() makes every status a failure, which get() swallows.
CurlDelivers(said) == IF said \in Statuses THEN {"none"} ELSE {said}

\* The solver passes the page on, or fails and leaves it to curl.
Delivered(said) ==
    CASE Catalog[platform].via = "curl"   -> CurlDelivers(said)
      [] Catalog[platform].via = "solver" -> {said} \cup CurlDelivers(said)
      [] OTHER                            -> {said}

\* A browser shows the page that comes with a status, whatever is on it; a tool
\* prints or does not.
Shown(said) ==
    IF Catalog[platform].via = "browser"
          \/ (said \in Statuses /\ said \notin DOMAIN way[step])
    THEN IF said \in Statuses THEN {"challenge", "garbled"} ELSE {said}
    ELSE IF Catalog[platform].via = "tool" THEN {said} \ (Statuses \cup {"challenge"})
    ELSE Delivered(said)

\* run() tries again, or gives the text of the exception as the error.
Raises ==
    IF attempt + 1 < MaxAttempts
    THEN pc' = "start" /\ attempt' = attempt + 1 /\ UNCHANGED <<way, step, kept, outcome>>
    ELSE Ends("quoted")

MovesOn(n) == step' = step + n /\ UNCHANGED <<pc, way, attempt, outcome>>

\* Mutant: the record of a source replaces that of the one before.
Follows_Replace(v) ==
    CASE v = "raised" -> Raises
      [] v = "next"   -> MovesOn(1) /\ kept' = FALSE
      [] v = "keep"   -> MovesOn(1) /\ kept' = TRUE
      [] v = "over"   -> MovesOn(2) /\ UNCHANGED kept
      [] v = "enough" -> Ends(IF kept THEN "found" ELSE "absent")
      [] OTHER        -> Ends(v)

Follows(v) ==
    CASE v = "raised" -> Raises
      [] v = "next"   -> MovesOn(1) /\ UNCHANGED kept
      [] v = "keep"   -> MovesOn(1) /\ kept' = TRUE
      [] v = "over"   -> MovesOn(2) /\ UNCHANGED kept
      [] v = "enough" -> Ends(IF kept THEN "found" ELSE "absent")
      [] OTHER        -> Ends(v)

Asking == pc = "ask" /\ step <= Len(way)

Answers ==
    /\ Asking
    /\ \E said \in Replies \cup {"ticket", "strange"} : \E r \in Shown(said) \cap DOMAIN way[step] :
         /\ heard' = heard \cup ({said, r} \cap Heard)
         /\ Follows(way[step][r])
    /\ UNCHANGED platform

\* No source is left.
Concludes ==
    /\ pc = "ask" /\ step > Len(way)
    /\ Ends(IF kept THEN "found" ELSE Catalog[platform].nothing)
    /\ UNCHANGED <<platform, heard>>

\* wait_for() of the dispatcher, around all attempts.
TimesOut ==
    /\ pc # "over" /\ pc' = "over" /\ outcome' = "timeout"
    /\ UNCHANGED <<platform, way, step, kept, heard, attempt>>

RunNext == Refused \/ Declines \/ Begins \/ Answers \/ Concludes \/ TimesOut

RunSpec == RunInit /\ [][RunNext]_runVars

-----------------------------------------------------------------------------
(* What the verdicts of a scraper s must be for its crawls to be explained. *)
(* That the scrapers of the catalogue are so is a fact about constants,     *)
(* which TLC evaluates.                                                     *)

\* Scrapers that report a hit without one: for what they were asked, whatever
\* is answered; for an answer without a record; for a page that is not one.
Presuming == {"email_disposable", "google_maps", "social_graph", "social_posts_analyzer",
              "financial_worldbank", "gov_worldbank"}
EmptyHits == {"crypto_bitcoin", "cyber_shodan", "discord", "github", "gravatar",
              "phone_phoneinfoga", "username_maigret"}
PageHits  == {"facebook", "twitter", "gov_bop", "propertyradar_scraper", "sanctions_fatf"}

\* Scrapers that ask a second source and do not count what it has.
Wasteful  == {"cyber_wayback", "gov_osha", "gov_uspto_patents"}

\* Scrapers that lose the record of one source to a strange reply of a later one.
Losing    == {"email_breach", "cyber_dns", "crypto_ethereum", "marine_vessel", "news_archive",
              "news_wikipedia", "google_people_search", "snscrape", "social_steam",
              "wikidata_lookup"}

\* Scrapers with an error in words that are not their own.
Quoting   == {"crypto_blockchair", "crypto_ethereum", "email_socialscan", "geo_ip",
              "instaloader", "snscrape"}

Lenient   == Presuming \cup EmptyHits \cup PageHits

\* Its verdicts are verdicts, and "rate" and "block" answer a refusal.
WellMade(s) ==
    /\ s.early \cup {s.nothing} \subseteq (Endings \ {"rate", "block"}) \cup {"silent"}
    /\ \A w \in s.ways : Len(w) \in Nat /\ \A i \in 1..Len(w) : \A r \in DOMAIN w[i] :
          /\ w[i][r] \in Endings \cup GoingOn
          /\ w[i][r] = "rate"  => r = "limited"
          /\ w[i][r] = "block" => r = "challenge"

\* A hit is all it takes for one.
Honest(s) ==
    /\ "found" \notin s.early \cup {s.nothing}
    /\ \A w \in s.ways : \A i \in 1..Len(w) : \A r \in DOMAIN w[i] :
          w[i][r] \in {"found", "keep"} => r = "hit"

\* A source w[i] is asked that cannot undo what was kept before.
Harmless(w, i) ==
    \A r \in DOMAIN w[i] : w[i][r] \in GoingOn \cup {"found", "raised"}

\* Every hit is the result, or is kept and stays kept in its attempt.
Counts(s) ==
    \A w \in s.ways : \A i \in 1..Len(w) :
        "hit" \in DOMAIN w[i] =>
            \/ w[i]["hit"] = "found"
            \/ w[i]["hit"] = "keep" /\ \A k \in i + 1..Len(w) : Harmless(w, k)

\* A source that is asked after a record was kept ends the attempt.
Loses(s) ==
    \E w \in s.ways : \E i, k \in 1..Len(w) :
        /\ i < k /\ "hit" \in DOMAIN w[i] /\ w[i]["hit"] = "keep"
        /\ \E r \in DOMAIN w[k] : w[k][r] = "raised"

Quotes(s) ==
    \/ "quoted" \in s.early \cup {s.nothing}
    \/ \E w \in s.ways : \E i \in 1..Len(w) : \E r \in DOMAIN w[i] : w[i][r] = "quoted"

\* 429 is told apart by one source, and by all that may be asked.
TellsLimits(s) == \E w \in s.ways : \E i \in 1..Len(w) :
                     "limited" \in DOMAIN w[i] /\ w[i]["limited"] = "rate"

Requeues(s) ==
    /\ s.via = "httpx"
    /\ \A w \in s.ways : \A i \in 1..Len(w) :
          "limited" \in DOMAIN w[i] /\ w[i]["limited"] = "rate"

\* The scrapers named above are all that are not so, and none is named needlessly.
ASSUME CatalogAssumption ==
    \A p \in Platforms :
        /\ WellMade(Catalog[p])
        /\ p \in Lenient  <=> ~Honest(Catalog[p])
        /\ p \in Wasteful <=> ~Counts(Catalog[p])
        /\ p \in Losing   <=> Loses(Catalog[p])
        /\ p \in Quoting  <=> Quotes(Catalog[p])
        /\ TellsLimits(Catalog[p]) =>
              \/ Catalog[p].via \in {"curl", "solver"} \/ p = "vehicle_nicb"
              \/ Requeues(Catalog[p])

-----------------------------------------------------------------------------
(* Properties.                                                              *)

RunTypeOK ==
    /\ platform \in Platforms /\ pc \in {"start", "ask", "over"}
    /\ way \in {<<>>} \cup Catalog[platform].ways /\ step \in 1..Len(way) + 2
    /\ kept \in BOOLEAN /\ heard \subseteq Heard
    /\ attempt \in 0..MaxAttempts - 1 /\ outcome \in Outcome

\* The last attempt raised: the text of its exception may say anything.
Unlucky == attempt = MaxAttempts - 1

\* A crawl is found when a source had the record, and only then, in whichever
\* order sources had it, failed, refused or were repeated (core/result.py:14 "did
\* we find a profile?"), except for the scrapers named above: no record is lost
\* but by a scraper that reads a later source outside any try, when that raises in
\* the last attempt too.
FoundMeansHit ==
    /\ outcome = "found" => "hit" \in heard \/ platform \in Lenient
    /\ "hit" \in heard => \/ outcome \in {"found", "timeout"}
                          \/ platform \in Wasteful
                          \/ Unlucky /\ platform \in Losing

\* A crawl is put off or given up as blocked for what a source said only, or
\* for two words in a text that was not written to be searched
\* (dispatcher.py:219-223): that of an exception, of an open circuit or of a source.
RefusalIsReal ==
    /\ outcome = "rate"  => \/ "limited" \in heard
                            \/ Unlucky \/ CircuitError = "rate" \/ platform \in Quoting
    /\ outcome = "block" => \/ "challenge" \in heard
                            \/ Unlucky \/ CircuitError = "block" \/ platform \in Quoting

\* A scraper that tells 429 apart has its crawl put off when a source says so,
\* unless its transport hides it (curl_base.py:38-47) or, in one case, another
\* source answers instead.
LimitIsRequeued ==
    "limited" \in heard /\ outcome = "empty" /\ TellsLimits(Catalog[platform]) =>
        Catalog[platform].via \in {"curl", "solver"} \/ platform = "vehicle_nicb"

\* The outcome of a crawl says what its sources said (the three above).
VerdictExplained == pc = "over" => FoundMeansHit /\ RefusalIsReal /\ LimitIsRequeued
=============================================================================
