--------------------------- MODULE MCQuoteParser ---------------------------
(* Quotes with the sizes of quote.go.  Raw quotes are just too short, just   *)
(* long enough for an SGX and for a TDX layout, and a few bytes longer.      *)
EXTENDS QuoteParser

MCBuilt ==
    [kind : {"tdx", "sgx"}, auth : {0, 3}, chain : {0, 2}]
    \cup [kind : {"raw"}, len : {435, 436, 637, 1020, 1022, 1226, 1228}]

MCWords16 == {0, 2, 5, 6, 65535}

\* Nothing, too little, what just fits into the raw quotes above, and more.
MCWords32 == {0, 1, 2, 133, 134, 455, 456, 458, 584, 590, 592, 1000000000}
=============================================================================
