--------------------------- MODULE PeopleScrapers ---------------------------
(***************************************************************************)
(* Scrapers that look for a person: people search, genealogy, phone, email.*)
(* Each definition is one crawler class, by its name in the registry.      *)
(***************************************************************************)
EXTENDS Scrapers

ancestry_hints == One("httpx", Fragile(Reports("absent")))
census_records == One("httpx", Fragile(Reports("absent")))
clustrmaps == One("httpx", Page)
email_breach == Asks("curl", <<Fragile(More), Fragile(More), Fragile(More)>>, "absent")
\* Disabled: it asks nothing.
email_dehashed == Asks("curl", <<>>, "error")
\* Found, whatever the services say.
email_disposable ==
    Early("found", Asks("httpx", <<Fragile(Tries), Fragile(Tries)>>, "found"))
email_emailrep == One("curl", Fragile(Reports("absent")))
\* Disabled: it asks nothing.
email_hibp == Asks("curl", <<>>, "error")
email_holehe == Early("error", One("tool", Only("error", "absent", "absent")))
email_mx_validator == Early("error", Asks("tool", <<Tries, Page>>, "absent"))
email_socialscan == Early("error", One("tool", Only("quoted", "quoted", "absent")))
familytreenow == One("httpx", Page)
\* The solver first, a browser when it gives nothing.
fastpeoplesearch == Asks("solver", <<SolverFirst, BrowserOrBlock("error")>>, "absent")
freepeoplesearch == Early("absent", One("curl", Page))
geni_public == One("httpx", Fragile(Reports("absent")))
idcrawl == Early("absent", One("curl", Page))
newspapers_archive == One("httpx", Fragile(Reports("absent")))
obituary_search == Asks("httpx", <<More, More>>, "absent")
peekyou == One("browser", BrowserOrBlock("absent"))
people_familysearch == One("httpx", Fragile(Reports("absent")))
people_fbi_wanted == One("httpx", Reports("absent"))
people_findagrave == Early("noted", One("httpx", Only("noted", "absent", "absent")))
people_immigration == Early("noted", One("httpx", Notes("absent")))
people_intelx ==
    Early("error", Asks("curl", <<Fragile(Ticket("error", "error", "error", "next")),
        Fragile(Errs("absent"))>>, "absent"))
people_interpol == One("httpx", Fragile(Reports("absent")))
people_namus == Early("noted", One("httpx", Fragile(Notes("absent"))))
people_phonebook == One("curl", Fragile(Errs("absent")))
people_thatsthem ==
    One("solver", [Only("error", "absent", "absent") EXCEPT !.limited = "rate",
        !.missing = "absent"])
people_usmarshals ==
    Early("noted", Asks("httpx", <<Only("next", "next", "absent"), Only("noted",
        "absent", "absent")>>, "absent"))
people_zabasearch ==
    One("solver", [Only("error", "absent", "absent") EXCEPT !.limited = "rate",
        !.missing = "absent"])
phone_carrier == One("httpx", Errs("error"))
phone_fonefinder == One("httpx", Errs("error"))
phone_numlookup == One("httpx", Fragile(Reports("absent")))
\* Whatever the tool prints is found.
phone_phoneinfoga ==
    Early("error", One("tool", Fragile(Only("error", "error", "found"))))
phone_truecaller == One("httpx", Fragile(Errs("error")))
radaris == One("httpx", Page)
spokeo == One("httpx", Fragile(Feed))
truepeoplesearch == Asks("solver", <<SolverFirst, BrowserOrBlock("error")>>, "absent")
vitals_records == One("httpx", Fragile(Reports("absent")))
\* With and without the cookies of an earlier visit.
whitepages ==
    Either(Asks("solver", <<SolverFirst, BrowserOrBlock("error")>>, "absent"),
        Asks("solver", <<SolverFirst, SolverFirst, BrowserOrBlock("error")>>, "absent"))
wikidata_lookup ==
    Early("absent", Asks("httpx", <<Fragile(First("noted", "noted", "absent")),
        Detail>>, "absent"))

-----------------------------------------------------------------------------
PeopleCatalog ==
    [ancestry_hints |-> ancestry_hints, census_records |-> census_records,
     clustrmaps |-> clustrmaps, email_breach |-> email_breach,
     email_dehashed |-> email_dehashed, email_disposable |-> email_disposable,
     email_emailrep |-> email_emailrep, email_hibp |-> email_hibp,
     email_holehe |-> email_holehe, email_mx_validator |-> email_mx_validator,
     email_socialscan |-> email_socialscan, familytreenow |-> familytreenow,
     fastpeoplesearch |-> fastpeoplesearch, freepeoplesearch |-> freepeoplesearch,
     geni_public |-> geni_public, idcrawl |-> idcrawl,
     newspapers_archive |-> newspapers_archive, obituary_search |-> obituary_search,
     peekyou |-> peekyou, people_familysearch |-> people_familysearch,
     people_fbi_wanted |-> people_fbi_wanted, people_findagrave |-> people_findagrave,
     people_immigration |-> people_immigration, people_intelx |-> people_intelx,
     people_interpol |-> people_interpol, people_namus |-> people_namus,
     people_phonebook |-> people_phonebook, people_thatsthem |-> people_thatsthem,
     people_usmarshals |-> people_usmarshals, people_zabasearch |-> people_zabasearch,
     phone_carrier |-> phone_carrier, phone_fonefinder |-> phone_fonefinder,
     phone_numlookup |-> phone_numlookup, phone_phoneinfoga |-> phone_phoneinfoga,
     phone_truecaller |-> phone_truecaller, radaris |-> radaris, spokeo |-> spokeo,
     truepeoplesearch |-> truepeoplesearch, vitals_records |-> vitals_records,
     whitepages |-> whitepages, wikidata_lookup |-> wikidata_lookup]
=============================================================================
