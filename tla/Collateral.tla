----------------------------- MODULE Collateral -----------------------------
(***************************************************************************)
(* What internal/tdxattest/collateral.go and tdx.go decide about the two   *)
(* signed Intel documents, TCB Info and QE Identity, and about the         *)
(* caller's measurement policy.                                            *)
(*                                                                         *)
(* A signed document is a record of kind "json": signer is the key whose   *)
(* signature over the body verifies, body holds the fields the code reads. *)
(* A document whose body field is missing, or whose dates do not parse, is *)
(* of kind "garbage".  Both bodies have issue, next and levels;            *)
(*   TCB Info adds     fmspc, pceid, mrsigner, attributes, attributesMask  *)
(*   QE Identity adds  misc, miscMask, attributes, attributesMask,         *)
(*                     mrsigner, prodID                                    *)
(* A policy is of kind "policy"; expect maps each measurement it gives a   *)
(* value to that value.                                                    *)
(***************************************************************************)
EXTENDS Trust

\* The TCB statuses a matched level may have.
AcceptableStatus == {"UpToDate", "SWHardeningNeeded", "ConfigurationNeeded",
                     "ConfigurationAndSWHardeningNeeded"}

\* The dates are inclusive, and are not looked at with ignoreFreshness.
CollateralFresh(body, time, ignoreFreshness) ==
    \/ ignoreFreshness
    \/ body.issue <= time /\ time <= body.next

\* A masked field is a set of bits with its size in bytes; a blank
\* expectation or a blank mask accepts anything.
MaskedFieldMatches(actual, expected, mask) ==
    expected # Blank /\ mask # Blank =>
        /\ actual.size = expected.size /\ actual.size = mask.size
        /\ actual.bits \cap mask.bits = expected.bits \cap mask.bits
----------------------------------------------------------------------------
(* TCB levels *)

\* A level that lists more components than the platform reports is not met.
ComponentsMeet(have, want) ==
    Len(want) <= Len(have) /\ \A i \in DOMAIN want : have[i] >= want[i]

\* A bug that wants the very PCE a level names.
PlatformTCBMeetsLevelExactly(have, tdxSVNs, level) ==
    /\ have.pcesvn = level.pcesvn
    /\ ComponentsMeet(have.sgx, level.sgx)
    /\ ComponentsMeet(tdxSVNs, level.tdx)

\* have is what the PCK certificate says, tdxSVNs what the quote says.
PlatformTCBMeetsLevel(have, tdxSVNs, level) ==
    /\ have.pcesvn >= level.pcesvn
    /\ ComponentsMeet(have.sgx, level.sgx)
    /\ ComponentsMeet(tdxSVNs, level.tdx)

\* The first level that is met decides, and 0 stands for none.
MatchedTCBLevel(have, tdxSVNs, levels) ==
    SelectInSeq(levels, LAMBDA l : PlatformTCBMeetsLevel(have, tdxSVNs, l))

EvaluatePlatformTCB(have, tdxSVNs, levels) ==
    LET matched == MatchedTCBLevel(have, tdxSVNs, levels)
    IN  matched # 0 /\ levels[matched].status \in AcceptableStatus

MatchedQELevel(isvSVN, levels) ==
    SelectInSeq(levels, LAMBDA l : isvSVN >= l.isvsvn)

CheckQETCBLevel(isvSVN, levels) ==
    \/ levels = <<>>
    \/ LET matched == MatchedQELevel(isvSVN, levels)
       IN  matched # 0 /\ levels[matched].status \in AcceptableStatus
----------------------------------------------------------------------------
(* The documents *)

\* A bug that does not ask whether the signing certificate was revoked.
SignedUnderRootUnlisted(json, chain, crl, root, time, ignoreFreshness) ==
    /\ json.kind = "json" /\ chain.kind = "chain"
    /\ VerifyCertChain(Head(chain.certs), Tail(chain.certs), root, time)
    /\ VerifyRootCACRL(crl, root, {}, time, ignoreFreshness)
    /\ json.signer = Head(chain.certs).key
    /\ CollateralFresh(json.body, time, ignoreFreshness)

\* The signing certificate leads its chain, must end in the caller's root,
\* must not be on the Root CA list, and must have signed the body.
SignedUnderRoot(json, chain, crl, root, time, ignoreFreshness) ==
    /\ json.kind = "json" /\ chain.kind = "chain"
    /\ VerifyCertChain(Head(chain.certs), Tail(chain.certs), root, time)
    /\ VerifyRootCACRL(crl, root, {Head(chain.certs)}, time, ignoreFreshness)
    /\ json.signer = Head(chain.certs).key
    /\ CollateralFresh(json.body, time, ignoreFreshness)

TDXModuleMatches(quote, body) ==
    /\ body.mrsigner # Blank => quote.mrsignerSeam = body.mrsigner
    /\ MaskedFieldMatches(quote.seamAttributes, body.attributes, body.attributesMask)

\* An SGX quote, or a document with no levels, is not matched to a level.
PlatformTCBChecked(quote, body) == quote.tdx /\ body.levels # <<>>

\* A bug that reads an absent extension as an empty value.
TakesPlatformBlankMatches(leaf, quote, body) ==
    /\ leaf.fmspc = body.fmspc
    /\ body.pceid \in {Blank, leaf.pceid}
    /\ quote.tdx => TDXModuleMatches(quote, body)
    /\ PlatformTCBChecked(quote, body) =>
          leaf.tcb # Blank /\ EvaluatePlatformTCB(leaf.tcb, quote.tdxSVNs, body.levels)

\* The document is about the platform of the PCK certificate and the quote,
\* and takes it.
TakesPlatform(leaf, quote, body) ==
    /\ leaf.fmspc # Blank /\ leaf.fmspc = body.fmspc
    /\ leaf.pceid # Blank /\ body.pceid \in {Blank, leaf.pceid}
    /\ quote.tdx => TDXModuleMatches(quote, body)
    /\ PlatformTCBChecked(quote, body) =>
          leaf.tcb # Blank /\ EvaluatePlatformTCB(leaf.tcb, quote.tdxSVNs, body.levels)

VerifyTCBInfo(json, chain, crl, root, leaf, quote, time, ignoreFreshness) ==
    /\ SignedUnderRoot(json, chain, crl, root, time, ignoreFreshness)
    /\ TakesPlatform(leaf, quote, json.body)

CompareQEReport(report, body) ==
    /\ MaskedFieldMatches(report.misc, body.misc, body.miscMask)
    /\ MaskedFieldMatches(report.attributes, body.attributes, body.attributesMask)
    /\ body.mrsigner \in {Blank, report.mrsigner}
    /\ body.prodID \in {0, report.prodID}
    /\ CheckQETCBLevel(report.isvSVN, body.levels)

VerifyQEIdentity(json, chain, crl, root, report, time, ignoreFreshness) ==
    /\ SignedUnderRoot(json, chain, crl, root, time, ignoreFreshness)
    /\ CompareQEReport(report, json.body)

\* Only the measurements the policy gives a value are compared.
VerifyTDXPolicy(measurements, blob) ==
    /\ blob.kind = "policy"
    /\ \A field \in DOMAIN blob.expect : measurements[field] = blob.expect[field]
=============================================================================
