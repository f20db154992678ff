------------------------ MODULE MCEnrichmentSession ------------------------
EXTENDS EnrichmentSession
=============================================================================
