--------------------------- MODULE SocialScrapers ---------------------------
(***************************************************************************)
(* Scrapers of social networks, of news and of public profiles.            *)
(* Each definition is one crawler class, by its name in the registry.      *)
(***************************************************************************)
EXTENDS Scrapers

adverse_media_search == Asks("httpx", <<More, More, More, More>>, "absent")
bing_news == One("httpx", Feed)
bluesky_profile == One("httpx", Fragile(Feed))
discord ==
    Early("noted", One("curl", Fragile([Notes("found") EXCEPT !.missing = "absent"])))
\* A page that asks for no login is a profile: the handle itself is its record.
facebook ==
    Asks("browser", <<[Only("raised", "found", "absent") EXCEPT !.challenge = "next"],
        Notes("noted")>>, "noted")
gdelt_mentions == One("httpx", Fragile(Feed))
generic_web_scraper == One("httpx", Page)
github == One("httpx", Fragile([Notes("found") EXCEPT !.missing = "absent"]))
github_profile == One("httpx", Fragile(Feed))
\* Found, whatever the sources say.
google_maps == Asks("httpx", <<Fragile(More), More>>, "found")
google_news_rss == One("httpx", Feed)
google_people_search ==
    Early("absent", Asks("httpx", <<More, Fragile(More)>>, "absent"))
gravatar ==
    Early("absent", One("httpx", Fragile([Notes("found") EXCEPT !.none = "absent",
        !.missing = "absent"])))
instagram ==
    One("browser", [Only("raised", "noted", "absent") EXCEPT !.challenge = "noted"])
instaloader == Early("error", One("tool", Only("quoted", "absent", "absent")))
interests_extractor == Asks("tool", <<>>, "noted")
linkedin ==
    Asks("browser", <<[Only("raised", "absent", "absent") EXCEPT !.challenge = "next"],
        [Only("noted", "absent", "absent") EXCEPT !.challenge = "noted"]>>, "absent")
news_archive == Asks("httpx", <<Fragile(More), Fragile(More)>>, "absent")
news_search == Asks("curl", <<More, More, More>>, "absent")
\* The summary of the article the first search found, then another search.
news_wikipedia ==
    Asks("curl", <<Leading(Fragile(More)), Detail, Fragile(More)>>, "absent")
open_library == Early("absent", One("httpx", Fragile(Feed)))
pinterest == One("curl", [Notes("absent") EXCEPT !.missing = "absent"])
reddit == One("httpx", Fragile([Notes("absent") EXCEPT !.missing = "absent"]))
snapchat == One("curl", [Notes("absent") EXCEPT !.missing = "absent"])
snscrape ==
    Early("error", Early("quoted", Asks("tool", <<Fragile(First("quoted", "absent",
        "absent")), Detail>>, "absent")))
social_ghunt == Early("error", One("tool", Only("error", "error", "absent")))
\* Analyses the text it is given.
social_graph == Asks("tool", <<>>, "found")
social_mastodon ==
    Early("noted", Asks("httpx", <<Fragile(Tries), Fragile(Tries), Fragile(Tries)>>,
        "absent"))
\* Analyses the text it is given.
social_posts_analyzer == Asks("tool", <<>>, "found")
social_spotify ==
    Early("noted", Asks("httpx", <<Ticket("noted", "noted", "noted", "next"), Tries,
        Fragile(Notes("absent"))>>, "absent"))
\* With a key of the API the profile is looked up there as well.
social_steam ==
    Early("noted", Either(
        One("httpx", [Only("noted", "absent", "absent") EXCEPT !.missing = "absent"]),
        Asks("httpx", <<[First("noted", "absent", "absent") EXCEPT !.missing = "absent"],
            Detail>>, "absent")))
social_twitch ==
    Early("noted", Asks("httpx", <<Ticket("noted", "noted", "noted", "next"),
        Fragile(Notes("absent"))>>, "absent"))
spotify_public == One("httpx", Fragile(Feed))
stackoverflow_profile == One("httpx", Fragile(Feed))
\* A phone number needs an account, a handle only the public page.
telegram ==
    Early("error", Either(One("httpx", Only("noted", "absent", "absent")), One("httpx",
        Page)))
telegram_dark == Asks("httpx", [channel \in 1..6 |-> More], "absent")
threads_profile == One("httpx", Fragile(Feed))
tiktok == One("curl", Fragile(Only("noted", "absent", "absent")))
truth_social_profile ==
    Either(Asks("httpx", <<Tries, Only("noted", "noted", "noted")>>, "noted"),
        One("httpx", Notes("noted")))
\* The first instance that knows the handle, or fails, decides; any page without the
\* error panel is a profile.
twitter ==
    Asks("curl", [instance \in 1..5 |-> Reply("noted", "found", "next", "found")], "noted")
\* A report without sites is found as well.
username_maigret ==
    Early("error", One("tool", Fragile(Only("error", "error", "found"))))
username_sherlock == Early("error", One("tool", Only("error", "absent", "absent")))
vk_profile == Asks("httpx", <<Tries, Only("noted", "noted", "noted")>>, "noted")
whatsapp == Early("error", One("httpx", [Page EXCEPT !.none = "error"]))
youtube == Asks("httpx", <<Tries, Tries, Tries>>, "absent")

-----------------------------------------------------------------------------
SocialCatalog ==
    [adverse_media_search |-> adverse_media_search, bing_news |-> bing_news,
     bluesky_profile |-> bluesky_profile, discord |-> discord, facebook |-> facebook,
     gdelt_mentions |-> gdelt_mentions, generic_web_scraper |-> generic_web_scraper,
     github |-> github, github_profile |-> github_profile, google_maps |-> google_maps,
     google_news_rss |-> google_news_rss, google_people_search |-> google_people_search,
     gravatar |-> gravatar, instagram |-> instagram, instaloader |-> instaloader,
     interests_extractor |-> interests_extractor, linkedin |-> linkedin,
     news_archive |-> news_archive, news_search |-> news_search,
     news_wikipedia |-> news_wikipedia, open_library |-> open_library,
     pinterest |-> pinterest, reddit |-> reddit, snapchat |-> snapchat,
     snscrape |-> snscrape, social_ghunt |-> social_ghunt, social_graph |-> social_graph,
     social_mastodon |-> social_mastodon, social_posts_analyzer |-> social_posts_analyzer,
     social_spotify |-> social_spotify, social_steam |-> social_steam,
     social_twitch |-> social_twitch, spotify_public |-> spotify_public,
     stackoverflow_profile |-> stackoverflow_profile, telegram |-> telegram,
     telegram_dark |-> telegram_dark, threads_profile |-> threads_profile,
     tiktok |-> tiktok, truth_social_profile |-> truth_social_profile, twitter |-> twitter,
     username_maigret |-> username_maigret, username_sherlock |-> username_sherlock,
     vk_profile |-> vk_profile, whatsapp |-> whatsapp, youtube |-> youtube]
=============================================================================
