---------------------------- MODULE Attestation ----------------------------
(***************************************************************************)
(* What the verifier promises, without saying how it goes about it.  It is *)
(* given one request; the collateral it can get hold of grows while it     *)
(* works; and it decides once.  It accepts only when every planned check   *)
(* has a set of documents on which it passes, and then it reports exactly  *)
(* the planned checks.  It refuses only for a reason: the request or its   *)
(* evidence is no good, some planned check has a set of documents on which *)
(* it does not pass, or collateral that had to be fetched did not arrive.  *)
(***************************************************************************)
EXTENDS Sequences

CONSTANTS
    Request,            \* the requests that may be made
    RequestValid(_),    \* the arguments of a request make sense
    AllSupported(_),    \* so do the checks it names
    EvidenceOK(_),      \* its quote carries a chain that ends in its root
    PlannedFlags(_),    \* the plan it stands for
    NeedsPCS(_),        \* collateral has to be fetched for it
    Check,              \* the checks a plan may hold besides the chain
    Document,           \* what a check can be given to read
    Documents,          \* the documents each check reads, in order
    Verified(_, _, _),  \* a check passes on these documents
    ChainName,          \* the names the chain and each check are
    CheckNames          \* reported under

VARIABLES
    req,         \* the request
    available,   \* everything each document could be obtained as so far
    lost,        \* collateral was asked for and did not arrive
    verdict,     \* "pending", "accepted" or "rejected"
    reported     \* the names of the checks that are reported as passed

vars == <<req, available, lost, verdict, reported>>

\* What a check may have been given to read.
Obtainable(check) ==
    {docs \in [DOMAIN Documents[check] ->
                  UNION {available[Documents[check][i]] : i \in DOMAIN Documents[check]}] :
        \A i \in DOMAIN docs : docs[i] \in available[Documents[check][i]]}

Justified(check) == \E docs \in Obtainable(check) : Verified(check, docs, req)

Contested(check) == \E docs \in Obtainable(check) : ~Verified(check, docs, req)

\* Nothing is wrong with the request before a check is made.
Proper == RequestValid(req) /\ AllSupported(req) /\ EvidenceOK(req)

Planned == Check \cap PlannedFlags(req)

NamesIf(check, flags) == IF check \in flags THEN CheckNames[check] ELSE <<>>

\* The report of a plan: the planned checks, in the order of the pipeline.
Report(flags) ==
    (IF "pckChain" \in flags THEN <<ChainName>> ELSE <<>>)
        \o NamesIf("pckCRL", flags) \o NamesIf("rootCRL", flags)
        \o NamesIf("quoteSignature", flags) \o NamesIf("tcbInfo", flags)
        \o NamesIf("qeIdentity", flags) \o NamesIf("tdxPolicy", flags)
----------------------------------------------------------------------------
Init ==
    /\ req \in Request
    /\ DOMAIN available = Document /\ lost = FALSE
    /\ verdict = "pending" /\ reported = <<>>

\* The world offers something new; nothing that was on offer is forgotten.
Learn ==
    /\ DOMAIN available' = Document
    /\ \A d \in Document : available[d] \subseteq available'[d]
    /\ UNCHANGED <<req, lost, verdict, reported>>

Accept ==
    /\ verdict = "pending"
    /\ Proper /\ \A check \in Planned : Justified(check)
    /\ verdict' = "accepted" /\ reported' = Report(PlannedFlags(req))
    /\ UNCHANGED <<req, available, lost>>

Refuse ==
    /\ verdict = "pending"
    /\ lost' \in {FALSE, NeedsPCS(req)}
    /\ lost' \/ (Proper => \E check \in Planned : Contested(check))
    /\ verdict' = "rejected"
    /\ UNCHANGED <<req, available, reported>>

Next == Learn \/ Accept \/ Refuse

Spec == Init /\ [][Next]_vars
=============================================================================
