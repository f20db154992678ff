---------------------------- MODULE CyberScrapers ---------------------------
(***************************************************************************)
(* Scrapers of domains, networks, crypto currencies, the dark web and paste*)
(* sites.                                                                  *)
(* Each definition is one crawler class, by its name in the registry.      *)
(***************************************************************************)
EXTENDS Scrapers

\* An address without transactions is found as well.
crypto_bitcoin == One("curl", Fragile(Reports("found")))
crypto_blockchair ==
    Early("quoted", Early("error", One("curl", Fragile(Reports("error")))))
crypto_bscscan ==
    Asks("httpx", <<Fragile(First("noted", "noted", "noted")), More>>, "absent")
\* An address is refused in the words of the source; its transactions are detail.
crypto_ethereum ==
    Asks("curl", <<Fragile([First("error", "error", "quoted") EXCEPT !.limited =
        "rate"]), Detail>>, "absent")
crypto_polygonscan ==
    Asks("httpx", <<Fragile(First("noted", "noted", "noted")), More>>, "absent")
cyber_abuseipdb == Early("error", One("curl", Fragile(Reports("absent"))))
cyber_alienvault ==
    One("httpx", Fragile([Reports("absent") EXCEPT !.missing = "absent"]))
cyber_crt == One("curl", Fragile(Reports("absent")))
\* Addresses from the resolver, then mail servers, texts and name servers.
cyber_dns ==
    Asks("httpx", <<More, Fragile(More), Detail, Fragile(More)>>, "absent")
cyber_greynoise ==
    Asks("curl", <<Fragile([Notes("absent") EXCEPT !.none = "next", !.denied = "next"]),
        Fragile(Notes("absent"))>>, "absent")
cyber_shodan ==
    Early("noted", Either(One("curl", Fragile(Notes("found"))), One("curl",
        Fragile(Notes("absent")))))
cyber_urlscan == One("curl", Fragile(Reports("absent")))
cyber_virustotal == Early("noted", One("curl", Fragile(Notes("absent"))))
\* The list of captures is detail, unless nothing is answered at all.
cyber_wayback == Asks("httpx", <<More, Aside>>, "silent")
darkweb_ahmia ==
    Asks("httpx", <<[First("error", "absent", "absent") EXCEPT !.limited = "absent"],
        More>>, "absent")
darkweb_torch == Asks("httpx", <<First("error", "absent", "absent"), More>>, "absent")
domain_harvester ==
    Early("error", One("tool", Fragile(Only("absent", "raised", "absent"))))
domain_whois == One("curl", [Only("error", "absent", "absent") EXCEPT !.limited = "rate"])
geo_adsbexchange == One("httpx", Fragile(Notes("absent")))
geo_ip == One("httpx", Fragile(Reports("quoted")))
geo_openstreetmap == One("httpx", Fragile(Notes("absent")))
paste_ghostbin == One("curl", [Only("error", "absent", "absent") EXCEPT !.limited = "rate"])
paste_pastebin == One("curl", [Only("error", "absent", "absent") EXCEPT !.limited = "rate"])
paste_psbdmp == One("curl", Fragile([Reports("absent") EXCEPT !.missing = "absent"]))

-----------------------------------------------------------------------------
CyberCatalog ==
    [crypto_bitcoin |-> crypto_bitcoin, crypto_blockchair |-> crypto_blockchair,
     crypto_bscscan |-> crypto_bscscan, crypto_ethereum |-> crypto_ethereum,
     crypto_polygonscan |-> crypto_polygonscan, cyber_abuseipdb |-> cyber_abuseipdb,
     cyber_alienvault |-> cyber_alienvault, cyber_crt |-> cyber_crt,
     cyber_dns |-> cyber_dns, cyber_greynoise |-> cyber_greynoise,
     cyber_shodan |-> cyber_shodan, cyber_urlscan |-> cyber_urlscan,
     cyber_virustotal |-> cyber_virustotal, cyber_wayback |-> cyber_wayback,
     darkweb_ahmia |-> darkweb_ahmia, darkweb_torch |-> darkweb_torch,
     domain_harvester |-> domain_harvester, domain_whois |-> domain_whois,
     geo_adsbexchange |-> geo_adsbexchange, geo_ip |-> geo_ip,
     geo_openstreetmap |-> geo_openstreetmap, paste_ghostbin |-> paste_ghostbin,
     paste_pastebin |-> paste_pastebin, paste_psbdmp |-> paste_psbdmp]
=============================================================================
