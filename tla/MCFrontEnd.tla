----------------------------- MODULE MCFrontEnd -----------------------------
(***************************************************************************)
(* FrontEnd with an Intel and a synthetic hierarchy, each with documents   *)
(* signed under it, and command lines of up to three options.              *)
(***************************************************************************)
EXTENDS FrontEnd

Certificate(key, signer, ca, serial, cn) ==
    [key |-> key, signer |-> signer, ca |-> ca, serial |-> serial, cn |-> cn,
     notBefore |-> 1, notAfter |-> 9, fmspc |-> Blank, pceid |-> Blank, tcb |-> Blank]

Hierarchy(n) ==
    [root   |-> Certificate(<<n, "root">>, <<n, "root">>, TRUE, 1, "root"),
     ca     |-> Certificate(<<n, "ca">>, <<n, "root">>, TRUE, 2, "platform"),
     leaf   |-> Certificate(<<n, "leaf">>, <<n, "ca">>, FALSE, 3, "leaf"),
     signer |-> Certificate(<<n, "signer">>, <<n, "root">>, FALSE, 4, "signer")]

Intel ==
    [Hierarchy("intel") EXCEPT !.leaf.fmspc = "F1", !.leaf.pceid = "P1",
                               !.leaf.tcb = [sgx |-> <<1>>, pcesvn |-> 1]]
Synthetic == Hierarchy("synthetic")

QuoteOf(h) ==
    [parses |-> TRUE, certType |-> 5, certs |-> <<h.leaf, h.ca, h.root>>, tdx |-> TRUE,
     qeSigner |-> h.leaf.key, akBound |-> TRUE, signedByAK |-> TRUE,
     qe |-> [misc |-> Blank, attributes |-> Blank, mrsigner |-> "qe", prodID |-> 2, isvSVN |-> 1],
     tdxSVNs |-> <<1>>, mrsignerSeam |-> "seam", seamAttributes |-> Blank,
     measurements |-> [mrtd |-> "m1"]]

MCMissing == [kind |-> "missing"]
MCQuoteAt == [quote |-> QuoteOf(Intel), synthetic |-> QuoteOf(Synthetic), nowhere |-> MCMissing]
MCRootAt == [root |-> Intel.root, syntheticRoot |-> Synthetic.root, garbage |-> NoRoot]
----------------------------------------------------------------------------
(* Documents; everything was issued at 2 and expires after 6 *)

CRL(signer, revoked) ==
    [kind |-> "crl", signer |-> signer, thisUpdate |-> 2, nextUpdate |-> 6, revoked |-> revoked]

Signed(h, body) == [kind |-> "json", signer |-> h.signer.key,
                    body |-> body @@ [issue |-> 2, next |-> 6, levels |-> <<>>,
                                      attributes |-> Blank, attributesMask |-> Blank]]

TCBInfo(h) == Signed(h, [fmspc |-> h.leaf.fmspc, pceid |-> h.leaf.pceid, mrsigner |-> "seam"])
QEIdentity(h) == Signed(h, [misc |-> Blank, miscMask |-> Blank, mrsigner |-> Blank, prodID |-> 0])
Chain(h) == [kind |-> "chain", certs |-> <<h.signer, h.root>>]

Documented(h) ==
    [PCKCRL |-> CRL(h.ca.key, {}), RootCRL |-> CRL(h.root.key, {}),
     TCBInfoJSON |-> TCBInfo(h), TCBSigningChainPEM |-> Chain(h),
     QEIdentityJSON |-> QEIdentity(h), QEIdentityChainPEM |-> Chain(h),
     TDXPolicy |-> [kind |-> "policy", expect |-> [mrtd |-> "m1"]]]

MCBlob ==
    [d \in Document |->
        {Documented(Intel)[d], Documented(Synthetic)[d]}
        \cup CASE d = "RootCRL" -> {CRL(Intel.root.key, {2})}
               [] d = "PCKCRL"  -> {MCMissing}
               [] OTHER         -> {}]

MCInitialBlobs ==
    LET under(h) == [d \in Document |-> {Documented(h)[d]}]
    IN  {under(Intel), under(Synthetic), [under(Intel) EXCEPT !["PCKCRL"] = {MCMissing}],
         [under(Intel) EXCEPT !["RootCRL"] = {CRL(Intel.root.key, {2})}]}
----------------------------------------------------------------------------
(* Command lines *)

Option(name, value) == [name |-> name, value |-> value]

ChecksGiven ==
    {Option("check", v) : v \in {<<>>, <<"">>, <<"quote-crypto">>, <<"pck-crl", "root-crl">>,
                                 <<"all">>, <<"tdx-policy", "">>, <<"unknown">>}}

Others ==
    {Option("policyPath", "policy"), Option("ignoreFreshness", TRUE),
     Option("quotePath", "synthetic"), Option("quotePath", "nowhere"),
     Option("rootPath", "syntheticRoot"), Option("rootPath", "garbage"),
     Option("source", "other")}
    \cup {Option("sample-time", t) : t \in {0, 5, NoTime, Unparsable}}
    \cup {Option("undeclared", "")}

Given == ChecksGiven \cup Others

\* Up to two options of any kind, and the longer lines of the documentation.
MCCommandLine ==
    {<<>>} \cup {<<o>> : o \in Given} \cup {<<o, p>> : o, p \in Given}
    \cup {<<Option("sample-time", t), c, d>> : t \in {5}, c, d \in ChecksGiven}
    \cup {<<Option("quotePath", "synthetic"), Option("rootPath", "syntheticRoot"),
            Option("sample-time", 5), c>> : c \in ChecksGiven \cup {Option("source", "pcs")}}
    \cup {<<Option("sample-time", 5), c, Option("policyPath", "policy"), d>> :
             c, d \in ChecksGiven}
=============================================================================
