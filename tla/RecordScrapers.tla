--------------------------- MODULE RecordScrapers ---------------------------
(***************************************************************************)
(* Scrapers of public records: courts, companies, government, sanctions,   *)
(* property, vehicles.                                                     *)
(* Each definition is one crawler class, by its name in the registry.      *)
(***************************************************************************)
EXTENDS Scrapers

attom_gateway == One("httpx", Only("noted", "absent", "absent"))
bankruptcy_pacer ==
    Early("noted", Asks("httpx", <<Fragile(First("noted", "noted", "next")), More>>,
        "absent"))
bis_entity_list ==
    Asks("httpx", <<[Only("next", "next", "absent") EXCEPT !.challenge = "absent"],
        [Notes("absent") EXCEPT !.challenge = "absent"]>>, "absent")
ca_courts == One("httpx", Page)
company_companies_house == Asks("httpx", <<[More EXCEPT !.none = "noted"], More>>, "absent")
\* The website is asked when the API gives no response or refuses the key.
company_opencorporates ==
    Asks("httpx", <<[More EXCEPT !.none = "over", !.denied = "over"], Settles, More,
        More>>, "noted")
company_sec == Asks("httpx", <<First("noted", "next", "next"), More>>, "absent")
county_assessor_fl == One("httpx", Page)
county_assessor_multi == Early("noted", One("httpx", Page))
county_assessor_tx == One("httpx", Page)
court_courtlistener ==
    Asks("httpx", <<Fragile(First("noted", "noted", "next")), More>>, "absent")
court_state == Asks("browser", <<More, More>>, "absent")
deed_recorder == Early("noted", Asks("httpx", <<More, More>>, "absent"))
faa_aircraft_registry ==
    Either(One("httpx", Page), One("httpx", Fragile(Only("noted", "noted", "absent"))))
fara_scraper == Asks("httpx", <<Fragile(Tries), Page>>, "absent")
financial_crunchbase ==
    Either(One("curl", Fragile(Notes("absent"))), One("curl", Only("noted", "absent",
        "absent")))
financial_finra == One("httpx", Notes("absent"))
\* A code of two letters is a country without being looked up.
financial_worldbank == Either(One("httpx", Notes("noted")), One("httpx", Taken))
fl_courts == One("httpx", Page)
\* The status is not looked at: any page that is not an empty list is a hit.
gov_bop == One("httpx", [Only("found", "found", "absent") EXCEPT !.none = "noted"])
gov_epa == One("httpx", Errs("absent"))
gov_fda == Asks("httpx", <<More, More>>, "silent")
gov_fdic == One("httpx", Notes("absent"))
gov_fec == One("httpx", Notes("absent"))
gov_finra == One("httpx", Reports("absent"))
gov_fred == One("httpx", Reports("absent"))
gov_gleif ==
    Asks("httpx", <<[Only("next", "next", "absent") EXCEPT !.none = "noted"], Page>>,
        "absent")
gov_grants == One("httpx", Errs("absent"))
gov_nmls == One("httpx", Reports("absent"))
\* The second source is asked and its page never read.
gov_osha == Asks("httpx", <<Tries, Reply("error", "absent", "absent", "absent")>>, "absent")
gov_propublica == One("httpx", Notes("absent"))
gov_sam == Early("error", One("httpx", Errs("absent")))
gov_usaspending == One("httpx", Notes("absent"))
\* A first source that gives no response spoils what the second one finds.
gov_uspto_patents ==
    Asks("httpx", <<[Tries EXCEPT !.none = "over"], Page, Reply("noted", "noted",
        "noted", "noted")>>, "absent")
gov_uspto_trademarks == One("httpx", Notes("absent"))
\* A code of two letters is a country without being looked up.
gov_worldbank == Either(One("httpx", Errs("absent")), One("httpx", Taken))
icij_offshoreleaks == Asks("httpx", <<Fragile(Tries), Page>>, "absent")
\* The list of the last source is read after all three were asked.
marine_vessel == Asks("httpx", <<More, More, Fragile(More)>>, "absent")
mortgage_deed == Early("noted", One("httpx", Only("noted", "absent", "absent")))
mortgage_hmda == Early("noted", One("httpx", Fragile(Notes("absent"))))
netronline_public ==
    Early("noted", Either(One("httpx", Only("noted", "absent", "absent")), Asks("httpx",
        <<Ticket("noted", "noted", "noted", "next"), Only("noted", "absent", "absent")>>,
        "absent")))
open_pep_search == Asks("httpx", <<More, More>>, "absent")
property_county == One("browser", Page)
property_redfin ==
    One("httpx", [Only("error", "absent", "absent") EXCEPT !.limited = "rate"])
property_tax_nationwide ==
    Early("noted", Asks("httpx", <<Only("next", "absent", "absent"), Only("next",
        "absent", "absent"), Only("noted", "absent", "absent")>>, "absent"))
property_zillow == One("browser", Page)
\* The owners from the API or from the search page, then their properties; the
\* page of a property counts whatever is on it.
propertyradar_scraper ==
    Early("noted", Asks("httpx", <<Ticket("over", "over", "over", "next"), Settles,
        Ticket("absent", "absent", "absent", "next"), More, Reply("next", "keep", "keep",
        "keep")>>, "absent"))
public_faa ==
    Asks("httpx", <<Ticket("noted", "next", "next", "next"), Only("noted", "absent",
        "absent")>>, "absent")
public_npi == One("httpx", Fragile(Notes("absent")))
public_nsopw == One("httpx", Fragile(Notes("absent")))
public_voter == One("httpx", Notes("absent"))
redfin_deep == Asks("httpx", <<Detail, Fragile(Page)>>, "absent")
redfin_property == One("httpx", Fragile(Feed))
sanctions_australia == One("httpx", Fragile(Only("noted", "absent", "absent")))
sanctions_canada == One("httpx", Fragile(Only("noted", "absent", "absent")))
sanctions_eu == One("httpx", Fragile(Only("noted", "absent", "absent")))
\* A country is or is not on the lists in the code, which stand in for the page.
sanctions_fatf == Either(One("httpx", Only("found", "found", "absent")), One("httpx", Page))
sanctions_fbi == One("httpx", Fragile(Notes("absent")))
\* The list may also come from a file of the last 24 hours, as other lists do.
sanctions_ofac == One("httpx", Fragile(Only("noted", "absent", "absent")))
sanctions_opensanctions == Early("noted", One("httpx", Fragile(Notes("absent"))))
sanctions_uk == One("httpx", Fragile(Only("noted", "absent", "absent")))
sanctions_un == One("httpx", Only("noted", "absent", "absent"))
sanctions_worldbank_debarment == One("httpx", [Notes("absent") EXCEPT !.missing = "absent"])
sec_edgar == Asks("httpx", <<More, More>>, "absent")
sec_insider == One("httpx", Fragile(Feed))
txcourts == One("httpx", Page)
us_corporate_registry == Asks("httpx", <<More, More>>, "absent")
vehicle_nhtsa == Early("noted", One("httpx", Fragile(Notes("noted"))))
\* The form is posted, then fetched when there is no response.
vehicle_nicb ==
    Early("error", Asks("httpx", <<Only("next", "next", "absent"),
        [Scan EXCEPT !.none = "next"], Scan>>, "absent"))
vehicle_ownership == Early("noted", Asks("browser", <<More, More>>, "absent"))
vehicle_plate == Early("noted", Asks("httpx", <<Tries, Tries, Tries>>, "absent"))
vin_decode_enhanced == One("httpx", Fragile(Feed))
world_check_mirror == Asks("httpx", <<More, More, More>>, "absent")
zillow_deep == One("httpx", Page)

-----------------------------------------------------------------------------
RecordCatalog ==
    [attom_gateway |-> attom_gateway, bankruptcy_pacer |-> bankruptcy_pacer,
     bis_entity_list |-> bis_entity_list, ca_courts |-> ca_courts,
     company_companies_house |-> company_companies_house,
     company_opencorporates |-> company_opencorporates, company_sec |-> company_sec,
     county_assessor_fl |-> county_assessor_fl,
     county_assessor_multi |-> county_assessor_multi,
     county_assessor_tx |-> county_assessor_tx,
     court_courtlistener |-> court_courtlistener, court_state |-> court_state,
     deed_recorder |-> deed_recorder, faa_aircraft_registry |-> faa_aircraft_registry,
     fara_scraper |-> fara_scraper, financial_crunchbase |-> financial_crunchbase,
     financial_finra |-> financial_finra, financial_worldbank |-> financial_worldbank,
     fl_courts |-> fl_courts, gov_bop |-> gov_bop, gov_epa |-> gov_epa,
     gov_fda |-> gov_fda, gov_fdic |-> gov_fdic, gov_fec |-> gov_fec,
     gov_finra |-> gov_finra, gov_fred |-> gov_fred, gov_gleif |-> gov_gleif,
     gov_grants |-> gov_grants, gov_nmls |-> gov_nmls, gov_osha |-> gov_osha,
     gov_propublica |-> gov_propublica, gov_sam |-> gov_sam,
     gov_usaspending |-> gov_usaspending, gov_uspto_patents |-> gov_uspto_patents,
     gov_uspto_trademarks |-> gov_uspto_trademarks, gov_worldbank |-> gov_worldbank,
     icij_offshoreleaks |-> icij_offshoreleaks, marine_vessel |-> marine_vessel,
     mortgage_deed |-> mortgage_deed, mortgage_hmda |-> mortgage_hmda,
     netronline_public |-> netronline_public, open_pep_search |-> open_pep_search,
     property_county |-> property_county, property_redfin |-> property_redfin,
     property_tax_nationwide |-> property_tax_nationwide,
     property_zillow |-> property_zillow, propertyradar_scraper |-> propertyradar_scraper,
     public_faa |-> public_faa, public_npi |-> public_npi, public_nsopw |-> public_nsopw,
     public_voter |-> public_voter, redfin_deep |-> redfin_deep,
     redfin_property |-> redfin_property, sanctions_australia |-> sanctions_australia,
     sanctions_canada |-> sanctions_canada, sanctions_eu |-> sanctions_eu,
     sanctions_fatf |-> sanctions_fatf, sanctions_fbi |-> sanctions_fbi,
     sanctions_ofac |-> sanctions_ofac,
     sanctions_opensanctions |-> sanctions_opensanctions, sanctions_uk |-> sanctions_uk,
     sanctions_un |-> sanctions_un,
     sanctions_worldbank_debarment |-> sanctions_worldbank_debarment,
     sec_edgar |-> sec_edgar, sec_insider |-> sec_insider, txcourts |-> txcourts,
     us_corporate_registry |-> us_corporate_registry, vehicle_nhtsa |-> vehicle_nhtsa,
     vehicle_nicb |-> vehicle_nicb, vehicle_ownership |-> vehicle_ownership,
     vehicle_plate |-> vehicle_plate, vin_decode_enhanced |-> vin_decode_enhanced,
     world_check_mirror |-> world_check_mirror, zillow_deep |-> zillow_deep]
=============================================================================
