----------------------------- MODULE MCVerifier -----------------------------
(***************************************************************************)
(* A small world for module Verifier: one root, one PCK CA with a leaf,    *)
(* one TCB signing certificate, and for every document a good version and  *)
(* versions that one check must refuse.  Times run from 1 to 9; requests   *)
(* are verified at 5, or at 7 when some documents have expired.            *)
(***************************************************************************)
EXTENDS Verifier

CONSTANT MCSource      \* where requests get collateral: "files" or "bundles"

NoExtension == [cn |-> "other", fmspc |-> Blank, pceid |-> Blank, tcb |-> Blank]

Certificate(key, signer, ca, serial, notAfter) ==
    [key |-> key, signer |-> signer, ca |-> ca, serial |-> serial,
     notBefore |-> 1, notAfter |-> notAfter] @@ NoExtension

Root   == Certificate("root", "root", TRUE, 1, 9)
Rogue  == Certificate("rogue", "rogue", TRUE, 6, 9)
PckCA  == [Certificate("pckca", "root", TRUE, 2, 8) EXCEPT !.cn = "platform"]
SubCA  == [Certificate("subca", "pckca", TRUE, 5, 8) EXCEPT !.cn = "processor"]
Signer == Certificate("tcbsign", "root", FALSE, 4, 8)
RogueSigner == Certificate("roguesign", "rogue", FALSE, 7, 8)

Platform == [fmspc |-> "F1", pceid |-> "P1", tcb |-> [sgx |-> <<2>>, pcesvn |-> 2]]

Leaf(signer) == Platform @@ Certificate("leaf", signer, FALSE, 3, 8)
----------------------------------------------------------------------------
(* Quotes *)

Bits(set) == [size |-> 1, bits |-> set]

Report(svn) ==
    [misc |-> Bits({}), attributes |-> Bits({1, 3}), mrsigner |-> "intel",
     prodID |-> 2, isvSVN |-> svn]

GoodQuote ==
    [parses |-> TRUE, certType |-> 5, certs |-> <<Leaf("pckca"), PckCA, Root>>,
     tdx |-> TRUE, qeSigner |-> "leaf", akBound |-> TRUE, signedByAK |-> TRUE,
     qe |-> Report(3), tdxSVNs |-> <<3>>, mrsignerSeam |-> "seam",
     seamAttributes |-> Bits({}), measurements |-> [mrtd |-> "m1", rtmr0 |-> "r1"]]

MCQuotes ==
    {GoodQuote,
     [GoodQuote EXCEPT !.tdx = FALSE],
     [GoodQuote EXCEPT !.akBound = FALSE],
     [GoodQuote EXCEPT !.parses = FALSE],
     [GoodQuote EXCEPT !.certs = <<Leaf("pckca"), Root, PckCA>>],
     [GoodQuote EXCEPT !.certs = <<Leaf("subca"), SubCA, PckCA, Root>>],
     [GoodQuote EXCEPT !.certs = <<Leaf("rogue"), Rogue>>]}
----------------------------------------------------------------------------
(* Documents *)

Garbage == [kind |-> "garbage"]

CRL(signer, nextUpdate, revoked) ==
    [kind |-> "crl", signer |-> signer, thisUpdate |-> 2, nextUpdate |-> nextUpdate,
     revoked |-> revoked]

Chain(certs) == [kind |-> "chain", certs |-> certs]

TCBLevel(svn, status) ==
    [sgx |-> <<svn>>, tdx |-> <<svn>>, pcesvn |-> 1, status |-> status]

TCBInfo(signer, until, levels) ==
    [kind |-> "json", signer |-> signer,
     body |-> [issue |-> 2, next |-> until, fmspc |-> "F1", pceid |-> "P1",
               mrsigner |-> "seam", attributes |-> Bits({}), attributesMask |-> Bits({1, 2}),
               levels |-> levels]]

QEIdentity(signer, until, svn) ==
    [kind |-> "json", signer |-> signer,
     body |-> [issue |-> 2, next |-> until, misc |-> Bits({}), miscMask |-> Bits({1}),
               attributes |-> Bits({1}), attributesMask |-> Bits({1, 2}),
               mrsigner |-> "intel", prodID |-> 2,
               levels |-> <<[isvsvn |-> svn, status |-> "UpToDate"],
                            [isvsvn |-> 1, status |-> "OutOfDate"]>>]]

Policy(mrtd) == [kind |-> "policy", expect |-> [mrtd |-> mrtd]]

GoodPckCRL  == CRL("pckca", 8, {})
GoodRootCRL == CRL("root", 8, {})
GoodTCBInfo ==
    TCBInfo("tcbsign", 8, <<TCBLevel(3, "UpToDate"), TCBLevel(2, "SWHardeningNeeded"),
                            TCBLevel(1, "OutOfDate")>>)
GoodQEIdentity == QEIdentity("tcbsign", 8, 2)
GoodChain == Chain(<<Signer, Root>>)

\* The paths of the default configuration: both chains are one file.
MCPathOf ==
    [PCKCRL |-> "pckcrl", RootCRL |-> "rootcrl", TCBInfoJSON |-> "tcbinfo",
     TCBSigningChainPEM |-> "chain", QEIdentityJSON |-> "qeidentity",
     QEIdentityChainPEM |-> "chain", TDXPolicy |-> "policy"]

MCPath == {MCPathOf[d] : d \in Document}

GoodFiles ==
    [p \in MCPath |->
        CASE p = "pckcrl"     -> GoodPckCRL
          [] p = "rootcrl"    -> GoodRootCRL
          [] p = "tcbinfo"    -> GoodTCBInfo
          [] p = "chain"      -> GoodChain
          [] p = "qeidentity" -> GoodQEIdentity
          [] p = "policy"     -> Policy("m1")]

MCMissing == [kind |-> "missing"]

MCNoContent == [kind |-> "empty"]

\* What else a file may hold.
OtherContent ==
    [p \in MCPath |->
        CASE p = "pckcrl"     -> {CRL("pckca", 8, {3}), CRL("pckca", 6, {}), CRL("root", 0, {3}),
                                  CRL("subca", 8, {})}
          [] p = "rootcrl"    -> {CRL("root", 8, {2}), CRL("root", 0, {4}), CRL("root", 6, {}),
                                  CRL("rogue", 8, {})}
          [] p = "tcbinfo"    -> {TCBInfo("tcbsign", 8, <<>>), TCBInfo("rogue", 8, <<>>),
                                  TCBInfo("tcbsign", 6, <<TCBLevel(1, "UpToDate")>>),
                                  TCBInfo("tcbsign", 8, <<TCBLevel(2, "OutOfDate"),
                                                          TCBLevel(1, "UpToDate")>>)}
          [] p = "chain"      -> {Chain(<<RogueSigner, Rogue>>), Garbage}
          [] p = "qeidentity" -> {QEIdentity("tcbsign", 6, 2), QEIdentity("tcbsign", 8, 4)}
          [] p = "policy"     -> {Policy("m2"), MCMissing}]

MCFileContent == [p \in MCPath |-> {GoodFiles[p]} \cup OtherContent[p]]

OneFileOther ==
    UNION {{[GoodFiles EXCEPT ![p] = c] : c \in OtherContent[p]} : p \in MCPath}

MCInitialFiles == {GoodFiles} \cup (IF MCSource = "files" THEN OneFileOther ELSE {})
----------------------------------------------------------------------------
(* The Intel PCS *)

Answer(body, chain) == [ok |-> TRUE, body |-> body, chain |-> chain]

Refusal == [ok |-> FALSE, body |-> Garbage, chain |-> NoContent]

MCFmspc == {"F1"}

GoodAnswer(e) ==
    CASE e[1] = "tcb"     -> Answer(GoodTCBInfo, GoodChain)
      [] e[1] = "qe"      -> Answer(GoodQEIdentity, GoodChain)
      [] e[1] = "pckcrl"  -> Answer(IF e[2] = "platform" THEN GoodPckCRL
                                    ELSE CRL("subca", 8, {}), NoContent)
      [] e[1] = "rootcrl" -> Answer(GoodRootCRL, NoContent)

\* A later signing certificate, with the documents it signs.
NewSigner == Certificate("tcbsign2", "root", FALSE, 8, 8)
NewChain  == Chain(<<NewSigner, Root>>)

OtherAnswers(e) ==
    CASE e[1] = "tcb"     -> {Answer(TCBInfo("tcbsign2", 8, <<TCBLevel(2, "UpToDate")>>), NewChain),
                              Answer(GoodTCBInfo, NoContent), Refusal}
      [] e[1] = "qe"      -> {Answer(QEIdentity("tcbsign2", 8, 3), NewChain), Refusal}
      [] e[1] = "pckcrl"  -> {Answer(CRL("pckca", 8, {3}), NoContent), Answer(NoContent, NoContent)}
      [] e[1] = "rootcrl" -> {Answer(CRL("root", 8, {4}), NoContent), Refusal}

MCReplies == [e \in Endpoint |-> {GoodAnswer(e)} \cup OtherAnswers(e)]

GoodService == [e \in Endpoint |-> GoodAnswer(e)]

MCInitiallyServed ==
    {GoodService} \cup
    IF MCSource = "files" THEN {}
    ELSE UNION {{[GoodService EXCEPT ![e] = a] : a \in OtherAnswers(e)} : e \in Endpoint}
----------------------------------------------------------------------------
(* Requests *)

GoodBundle ==
    [d \in Slot |->
        CASE d = "PCKCRL" -> GoodPckCRL         [] d = "RootCRL" -> GoodRootCRL
          [] d = "TCBInfoJSON" -> GoodTCBInfo   [] d = "QEIdentityJSON" -> GoodQEIdentity
          [] OTHER -> GoodChain]

Bundles ==
    {GoodBundle, [GoodBundle EXCEPT !["PCKCRL"] = NoContent],
     [GoodBundle EXCEPT !["TCBSigningChainPEM"] = NoContent],
     [GoodBundle EXCEPT !["RootCRL"] = CRL("root", 8, {4})],
     [GoodBundle EXCEPT !["QEIdentityJSON"] = Garbage]}

BaseRequest ==
    [checks |-> <<>>, policyPath |-> "policy", root |-> Root, quote |-> GoodQuote,
     source |-> IF MCSource = "files" THEN "" ELSE "pcs", bundle |-> NoBundle,
     time |-> 5, ignoreFreshness |-> FALSE]

CheckLists ==
    {<<>>, <<"pck-crl", "root-crl">>, <<"quote-crypto", "tdx-policy">>, <<"tcbinfo">>,
     <<"qeidentity", "">>, <<"">>, <<"root-crl", "all">>, <<"unknown">>}

MCRequest ==
    LET selections == {[BaseRequest EXCEPT !.checks = c, !.policyPath = p] :
                           c \in CheckLists, p \in {"", " ", "policy"}}
        quotes == {[BaseRequest EXCEPT !.quote = q, !.checks = c] :
                       q \in MCQuotes, c \in {<<>>, <<"quote-crypto">>}}
        times  == {[BaseRequest EXCEPT !.time = t, !.ignoreFreshness = i] :
                       t \in {0, 5, 7, 9}, i \in BOOLEAN}
        wrong  == {[BaseRequest EXCEPT !.root = NoRoot], [BaseRequest EXCEPT !.root = Rogue],
                   [BaseRequest EXCEPT !.source = "other"]}
        given  == {[r EXCEPT !.source = "local", !.bundle = b] :
                       r \in selections \cup quotes, b \in Bundles}
        unused == {[BaseRequest EXCEPT !.checks = c, !.bundle = b] :
                       c \in {<<>>, <<"pck-crl", "root-crl">>}, b \in Bundles}
    IN  selections \cup quotes \cup times \cup wrong
        \cup (IF MCSource = "files" THEN {} ELSE given \cup unused)
=============================================================================
