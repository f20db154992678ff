------------------------------ MODULE Scrapers ------------------------------
(***************************************************************************)
(* What a platform scraper does with the replies of its sources.  A        *)
(* scraper (scrape() of a crawler class) asks one source after the other;  *)
(* for each it has a verdict for every kind of reply.  The pages and the   *)
(* fields taken from them are abstracted to the reply they amount to: "hit"*)
(* has the record sought, "empty" says that there is none, "garbled" does  *)
(* not parse or says nothing, "strange" parses into what the scraper does  *)
(* not expect (null, a list for a record, a row that does not fit).        *)
(* Requests whose reply only adds detail to a record are left out, unless  *)
(* the detail can undo the record.                                         *)
(***************************************************************************)
EXTENDS Naturals, Sequences

\* HTTP statuses 429, 401 and 403, 404, and any other that is not a success.
Statuses == {"limited", "denied", "missing", "failing"}
\* "none": no response; "challenge": the page of a bot protection.
Replies  == {"none", "garbled", "challenge", "empty", "hit"} \cup Statuses

\* Verdicts that end the scrape.  An error that is handed to _result() ends in
\* the data of the result and leaves its field "error" empty: "noted"
\* (base.py:252-260).  "rate" and "block" are errors whose text has that word,
\* "quoted" one whose text is not the scraper's own (the message of a source or
\* of an exception, part of the identifier), "raised" an exception.
Endings  == {"found", "absent", "noted", "error", "quoted", "rate", "block", "raised"}
\* Verdicts that do not: go on, keep the record and go on, skip the next
\* source, or end with what was kept.
GoingOn  == {"next", "keep", "over", "enough"}

-----------------------------------------------------------------------------
(* Steps: one source and the verdicts on its replies.                       *)

Reply(bad, odd, empty, hit) ==
    [r \in Replies |-> CASE r \in Statuses \cup {"none"}    -> bad
                         [] r \in {"garbled", "challenge"}  -> odd
                         [] r = "empty"                     -> empty
                         [] r = "hit"                       -> hit]

Only(bad, odd, empty)  == Reply(bad, odd, empty, "found")  \* a hit is the result
First(bad, odd, empty) == Reply(bad, odd, empty, "keep")   \* a hit is part of it

Tries   == Only("next", "next", "next")
Settles == Only("enough", "enough", "enough")
More    == First("next", "next", "next")
Taken   == Only("found", "found", "found")
Aside   == Reply("next", "next", "next", "next")           \* looked at, not counted
Page    == Only("absent", "absent", "absent")
Feed    == Only("absent", "noted", "absent")

\* Failures are noted, or are errors, or are errors that tell 429 apart.
Notes(empty)   == Only("noted", "noted", empty)
Errs(empty)    == Only("error", "error", empty)
Reports(empty) == [Errs(empty) EXCEPT !.limited = "rate"]
Scan           == [Page EXCEPT !.none = "error", !.limited = "rate", !.denied = "error",
                               !.missing = "error", !.failing = "error"]

\* A token or an index that the next sources need, no record.
Ticket(bad, odd, empty, got) ==
    [r \in (Replies \ {"hit"}) \cup {"ticket"} |->
        IF r = "ticket" THEN got ELSE Reply(bad, odd, empty, empty)[r]]

\* A source whose reply is taken apart outside any try: what is strange raises.
Fragile(s) ==
    [r \in DOMAIN s \cup {"strange"} |-> IF r = "strange" THEN "raised" ELSE s[r]]

\* What a source adds to a record, or to the question for the next source, is not
\* counted; what is strange undoes the record.  Detail that is asked for a record
\* only, after its source.
Detail     == Fragile(Ticket("next", "next", "next", "next"))
Leading(s) == [r \in DOMAIN s |-> IF s[r] = "next" THEN "over" ELSE s[r]]

\* A browser page: whatever the status, there is a page.
BrowserOrBlock(odd) ==
    [r \in Replies \ Statuses |->
        CASE r = "none" -> "raised" [] r = "challenge" -> "block"
          [] OTHER -> Only("raised", odd, "absent")[r]]

\* The same page fetched by the challenge solver, before a browser is tried.
SolverFirst == [r \in Replies \ Statuses |->
                   IF r = "challenge" THEN "next" ELSE Only("next", "error", "absent")[r]]

-----------------------------------------------------------------------------
(* Scrapers: the transport, what may end the scrape before any request (an  *)
(* identifier that is no good, a missing key or tool), the ways the         *)
(* configuration or the shape of the identifier choose from, and the        *)
(* verdict when every source was asked and nothing was kept ("silent": an   *)
(* error if no source answered at all, else absent).                        *)

Asks(via, steps, nothing) ==
    [via |-> via, early |-> {}, ways |-> {steps}, nothing |-> nothing]

One(via, source) == Asks(via, <<source>>, "absent")

Early(verdict, s) == [s EXCEPT !.early = @ \cup {verdict}]
Either(s, t)      == [s EXCEPT !.ways = @ \cup t.ways]
=============================================================================
