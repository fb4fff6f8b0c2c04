------------------------------- MODULE Checks -------------------------------
(***************************************************************************)
(* What each check of VerifyQuoteWithCollateral                            *)
(* (internal/tdxattest/verifier.go) decides about a request and about the  *)
(* documents it is given.  A request r has, besides the fields of module   *)
(* CheckPlan:                                                              *)
(*   source   the -collateral-source value, trimmed and in lower case      *)
(*   root     the trust anchor, or NoRoot                                  *)
(*   bundle   collateral the caller hands over, or NoBundle                *)
(*   quote    what the quote bytes hold (parses is FALSE if nothing)       *)
(*   time, ignoreFreshness                                                 *)
(* A quote has certType and certs (the PCK chain, empty when no            *)
(* certificate can be read), the signature facts of module Trust, the QE   *)
(* report in qe, and the measurements; tdx says whether it is a TDX quote. *)
(***************************************************************************)
EXTENDS Collateral, PlanFlags

CONSTANT NoRoot     \* the nil root certificate

\* The checks after the certificate chain, by their flag in the plan.
Check == {"pckCRL", "rootCRL", "quoteSignature", "tcbInfo", "qeIdentity", "tdxPolicy"}

\* The documents a check reads, in the order it reads them.
Documents ==
    [pckCRL         |-> <<"PCKCRL">>,
     rootCRL        |-> <<"RootCRL">>,
     quoteSignature |-> <<>>,
     tcbInfo        |-> <<"TCBInfoJSON", "TCBSigningChainPEM", "RootCRL">>,
     qeIdentity     |-> <<"QEIdentityJSON", "QEIdentityChainPEM", "RootCRL">>,
     tdxPolicy      |-> <<"TDXPolicy">>]

\* Everything a check can be given to read.
Document == {"PCKCRL", "RootCRL", "TCBInfoJSON", "TCBSigningChainPEM",
             "QEIdentityJSON", "QEIdentityChainPEM", "TDXPolicy"}

\* What a passed check adds to the result: one entry, or one for each of the
\* quote's three signature checks.
CheckNames ==
    [pckCRL         |-> <<"pckCRL">>,
     rootCRL        |-> <<"rootCRL">>,
     quoteSignature |-> <<"qeReportSignature", "akBinding", "quoteSignature">>,
     tcbInfo        |-> <<"tcbInfo">>,
     qeIdentity     |-> <<"qeIdentity">>,
     tdxPolicy      |-> <<"tdxPolicy">>]

ChainName == "pckChain"

Source(r) == IF r.source = Empty THEN "local" ELSE r.source

\* The checks on Intel's collateral.
CollateralCheck == {"pckCRL", "rootCRL", "tcbInfo", "qeIdentity"}

\* One of them is planned, and what it reads is to be had from the PCS.
NeedsPCS(r) == Source(r) = "pcs" /\ PlannedFlags(r) \cap CollateralCheck # {}

RequestValid(r) == r.root # NoRoot /\ Source(r) \in {"local", "pcs"}

PCKLeaf(r) == r.quote.certs[1]

\* The certificate that is taken for the issuer of the leaf.
PCKIssuer(r) == r.quote.certs[2]

\* A bug that believes every quote it can parse.
EvidenceParsed(r) == r.quote.parses /\ r.quote.certType = 5 /\ Len(r.quote.certs) >= 2

\* The quote parses, carries a PCK chain, and the chain ends in the root.
EvidenceOK(r) ==
    /\ r.quote.parses /\ r.quote.certType = 5 /\ Len(r.quote.certs) >= 2
    /\ VerifyCertChain(PCKLeaf(r), Tail(r.quote.certs), r.root, r.time)

\* The policy path the policy is loaded from: a blank one is none.
PolicyGiven(r) == r.policyPath = "policy"

\* A check passes on these documents.
Verified(check, docs, r) ==
    CASE check = "pckCRL" ->
            VerifyPCKCRL(docs[1], PCKIssuer(r), PCKLeaf(r), r.time, r.ignoreFreshness)
      [] check = "rootCRL" ->
            VerifyRootCACRL(docs[1], r.root, {PCKIssuer(r)}, r.time, r.ignoreFreshness)
      [] check = "quoteSignature" ->
            VerifyQuoteLocalSignatures(r.quote, PCKLeaf(r))
      [] check = "tcbInfo" ->
            VerifyTCBInfo(docs[1], docs[2], docs[3], r.root, PCKLeaf(r), r.quote,
                          r.time, r.ignoreFreshness)
      [] check = "qeIdentity" ->
            VerifyQEIdentity(docs[1], docs[2], docs[3], r.root, r.quote.qe,
                             r.time, r.ignoreFreshness)
      [] check = "tdxPolicy" ->
            PolicyGiven(r) /\ r.quote.tdx /\ VerifyTDXPolicy(r.quote.measurements, docs[1])
=============================================================================
