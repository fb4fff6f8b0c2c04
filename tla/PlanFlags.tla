----------------------------- MODULE PlanFlags -----------------------------
(***************************************************************************)
(* The -check values of internal/tdxattest/verifier.go, the flags of a     *)
(* verificationPlan they ask for, and, as a reference for the loop of      *)
(* module CheckPlan, the plan a whole request stands for.                  *)
(*                                                                         *)
(* A request r has at least two fields:                                    *)
(*   checks      the -check values in order, trimmed and in lower case     *)
(*   policyPath  the -tdx-policy value; Empty is no path, " " a blank one  *)
(***************************************************************************)
EXTENDS Naturals, Sequences

\* An empty value, or no path.
Empty == ""

Flag == {"pckChain", "quoteSignature", "pckCRL", "rootCRL", "tcbInfo",
         "qeIdentity", "tdxPolicy"}

Umbrella == {"all", "intel-full"}

\* What one supported value asks for, besides an umbrella value.
Asks(check) ==
    CASE check = "pck-chain"        -> {"pckChain"}
      [] check = "quote-signatures" -> {"quoteSignature"}
      [] check = "quote-crypto"     -> {"pckChain", "quoteSignature"}
      [] check = "pck-crl"          -> {"pckCRL"}
      [] check = "root-crl"         -> {"rootCRL"}
      [] check = "tcbinfo"          -> {"tcbInfo"}
      [] check = "qeidentity"       -> {"qeIdentity"}
      [] check = "tdx-policy"       -> {"tdxPolicy"}
      [] OTHER                      -> {}

SupportedCheck ==
    Umbrella \cup {"pck-chain", "quote-signatures", "quote-crypto", "pck-crl",
                   "root-crl", "tcbinfo", "qeidentity", "tdx-policy"}

\* The umbrella plan: everything, the policy only with a path.
FullPlan(policyPath) ==
    IF policyPath # Empty THEN Flag ELSE Flag \ {"tdxPolicy"}

\* Every check needs the PCK chain.
WithChain(flags) == IF flags # {} THEN flags \cup {"pckChain"} ELSE flags
----------------------------------------------------------------------------
(* The plan of a request, without the loop that computes it *)

\* What one value asks for when the request has this policy path.
AskedBy(check, policyPath) ==
    IF check \in Umbrella THEN FullPlan(policyPath) ELSE Asks(check)

\* What the first n values ask for, in whatever order they come.
AskedByFirst(n, r) == UNION {AskedBy(r.checks[i], r.policyPath) : i \in 1..n}

Asked(r) ==
    IF r.checks = <<>> THEN FullPlan(r.policyPath) ELSE AskedByFirst(Len(r.checks), r)

\* Among the first n values tdx-policy comes after the last umbrella value.
PolicyAskedLast(n, r) ==
    \E i \in 1..n : /\ r.checks[i] = "tdx-policy"
                    /\ \A j \in (i + 1)..n : r.checks[j] \notin Umbrella

AllSupported(r) == \A i \in DOMAIN r.checks : r.checks[i] \in SupportedCheck \cup {Empty}

\* Everything asked for, and the chain; but without a policy path an umbrella
\* value takes back a tdx-policy that came before it.
PlannedFlags(r) ==
    IF r.policyPath # Empty \/ PolicyAskedLast(Len(r.checks), r)
    THEN WithChain(Asked(r))
    ELSE WithChain(Asked(r)) \ {"tdxPolicy"}
=============================================================================
