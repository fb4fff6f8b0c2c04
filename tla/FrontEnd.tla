------------------------------ MODULE FrontEnd ------------------------------
(***************************************************************************)
(* One run of tdx-attest verify: cmd/tdx-attest/cli/cli.go takes the       *)
(* options one after the other, PreRunE reads the verification time, and   *)
(* RunVerify of internal/tdxattest/app.go reads the quote and the root,    *)
(* has them verified, and prints one of two summaries.                     *)
(*                                                                         *)
(* The verification itself is module Attestation, which module Verifier    *)
(* is shown to implement; what is proved of a run here holds for every     *)
(* verifier that keeps that promise.                                       *)
(*                                                                         *)
(* An option is a record with a name and a value.  A -check value is the   *)
(* sequence of its comma-separated parts, trimmed and in lower case; a     *)
(* -sample-time is a time, NoTime when it is empty, or Unparsable.         *)
(***************************************************************************)
EXTENDS Checks

CONSTANTS
    CommandLine,    \* the sequences of options that may be given
    DefaultQuote,   \* the file of the sample quote
    DefaultRoot,    \* and the one of the Intel root
    NoTime,         \* no -sample-time, or an empty one
    Unparsable,     \* a -sample-time that is no time
    QuoteAt,        \* the quote each file holds, or Missing
    RootAt,         \* the certificate each file holds, Missing or NoRoot
    Missing,        \* what is read from a file that does not exist
    NoBundle,       \* no collateral is handed over
    Blob,           \* what each document may be obtained as
    InitialBlobs,   \* what the documents may be obtained as at first
    MaxOffers       \* bound: how often a document changes during a run

ASSUME FrontEndAssumption ==
    /\ MaxOffers \in Nat
    /\ InitialBlobs \subseteq [Document -> SUBSET UNION {Blob[d] : d \in Document}]
    /\ \A o \in CommandLine :
          /\ Len(o) \in Nat /\ DOMAIN o = 1..Len(o)
          /\ \A i \in 1..Len(o) : o[i].name = "check" => o[i].value \in Seq(STRING)

VARIABLES
    options,     \* the command line
    next,        \* the position of the option that is looked at
    cfg,         \* Config
    sampleTime,  \* the -sample-time value
    pc,          \* where the run is, or how it ended
    quote,       \* what was read from the quote file
    req,         \* the VerificationRequest, NoRequest before it is made
    available,   \* everything each document could be obtained as so far
    offers,      \* how often that changed
    lost,        \* whether collateral the verifier asked for did not arrive
    verdict,     \* what the verifier said,
    reported     \* and VerificationResult.Checks

optionVars == <<options, next, cfg, sampleTime>>
verifierVars == <<req, available, lost, verdict, reported>>
vars == <<optionVars, pc, quote, verifierVars, offers>>

Verifier == INSTANCE Attestation WITH Request <- {}

NoRequest == [checks |-> <<>>]

DefaultConfig ==
    [quotePath |-> DefaultQuote, rootPath |-> DefaultRoot, source |-> "local",
     policyPath |-> Empty, ignoreFreshness |-> FALSE, time |-> WallClock, checks |-> <<>>]

\* How a run may end: an error, or one of the two summaries.
Ended == {"failed", "final", "selected"}

Go(place) == pc' = place
----------------------------------------------------------------------------
Init ==
    /\ options \in CommandLine
    /\ next = 1 /\ cfg = DefaultConfig /\ sampleTime = NoTime
    /\ pc = "options" /\ quote = Missing
    /\ req = NoRequest /\ lost = FALSE /\ verdict = "pending" /\ reported = <<>>
    /\ available \in InitialBlobs /\ offers = 0

\* The options whose last value counts, by the field they set.
PlainOption == {"quotePath", "rootPath", "source", "policyPath", "ignoreFreshness"}

\* A bug that keeps only the last -check.
AfterOptionLastCheck(config, option) ==
    CASE option.name \in PlainOption -> [config EXCEPT ![option.name] = option.value]
      [] option.name = "check"       -> [config EXCEPT !.checks = option.value]
      [] OTHER                       -> config

\* A -check adds its parts to those of the ones before it.
AfterOption(config, option) ==
    CASE option.name \in PlainOption -> [config EXCEPT ![option.name] = option.value]
      [] option.name = "check"       -> [config EXCEPT !.checks = @ \o option.value]
      [] OTHER                       -> config

TakeOption ==
    /\ pc = "options" /\ next \in DOMAIN options
    /\ options[next].name \in PlainOption \cup {"check", "sample-time"}
    /\ cfg' = AfterOption(cfg, options[next])
    /\ sampleTime' = IF options[next].name = "sample-time" THEN options[next].value ELSE sampleTime
    /\ next' = next + 1
    /\ UNCHANGED <<options, pc, quote, verifierVars, offers>>

\* An option nobody declared, or an argument that is no option.
RefuseOption ==
    /\ pc = "options" /\ next \in DOMAIN options
    /\ options[next].name \notin PlainOption \cup {"check", "sample-time"}
    /\ Go("failed") /\ UNCHANGED <<optionVars, quote, verifierVars, offers>>

PreRun ==
    /\ pc = "options" /\ next \notin DOMAIN options
    /\ Go(IF sampleTime = Unparsable THEN "failed" ELSE "readQuote")
    /\ cfg' = IF sampleTime \in {NoTime, Unparsable} THEN cfg ELSE [cfg EXCEPT !.time = sampleTime]
    /\ UNCHANGED <<options, next, sampleTime, quote, verifierVars, offers>>

ReadQuote ==
    /\ pc = "readQuote"
    /\ quote' = QuoteAt[cfg.quotePath]
    /\ Go(IF quote' = Missing THEN "failed" ELSE "readRoot")
    /\ UNCHANGED <<optionVars, verifierVars, offers>>

\* The root is read and parsed, and the request is made.
ReadRoot ==
    /\ pc = "readRoot"
    /\ LET root == RootAt[cfg.rootPath] IN
       IF root \in {Missing, NoRoot}
       THEN Go("failed") /\ UNCHANGED req
       ELSE /\ Go("verify")
            /\ req' = [checks |-> cfg.checks, policyPath |-> cfg.policyPath, root |-> root,
                       quote |-> quote, source |-> cfg.source, bundle |-> NoBundle,
                       time |-> cfg.time, ignoreFreshness |-> cfg.ignoreFreshness]
    /\ UNCHANGED <<optionVars, quote, available, lost, verdict, reported, offers>>

\* A bug that only prints the error.
VerifierRefusesIgnored ==
    /\ pc = "verify" /\ Verifier!Refuse
    /\ Go("summary") /\ UNCHANGED <<optionVars, quote, offers>>

\* VerifyQuoteWithCollateral returns an error ...
VerifierRefuses ==
    /\ pc = "verify" /\ Verifier!Refuse
    /\ Go("failed") /\ UNCHANGED <<optionVars, quote, offers>>

\* ... or a result.
VerifierAccepts ==
    /\ pc = "verify" /\ Verifier!Accept
    /\ Go("summary") /\ UNCHANGED <<optionVars, quote, offers>>

\* A bug that takes a list of blank values for no list.
SummariseBlankIsNone ==
    /\ pc = "summary"
    /\ Go(IF \A i \in DOMAIN cfg.checks : cfg.checks[i] = Empty THEN "final" ELSE "selected")
    /\ UNCHANGED <<optionVars, quote, verifierVars, offers>>

\* The fixed list of what the full pipeline verifies, or result.Checks.
Summarise ==
    /\ pc = "summary"
    /\ Go(IF cfg.checks = <<>> THEN "final" ELSE "selected")
    /\ UNCHANGED <<optionVars, quote, verifierVars, offers>>

\* The world: a document can be obtained as something else.
Offer(d, blob) ==
    /\ pc = "verify" /\ offers < MaxOffers /\ blob \notin available[d]
    /\ available' = [available EXCEPT ![d] = @ \cup {blob}]
    /\ offers' = offers + 1
    /\ UNCHANGED <<optionVars, pc, quote, req, lost, verdict, reported>>

Next ==
    \/ TakeOption \/ RefuseOption \/ PreRun \/ ReadQuote \/ ReadRoot
    \/ VerifierRefuses \/ VerifierAccepts \/ Summarise
    \/ \E d \in Document : \E blob \in Blob[d] : Offer(d, blob)

Spec == Init /\ [][Next]_vars
----------------------------------------------------------------------------
(* Properties *)

\* Type invariant of a run.
FrontEndTypeOK ==
    /\ options \in CommandLine
    /\ next \in 1..(Len(options) + 1)
    /\ DOMAIN cfg = DOMAIN DefaultConfig
    /\ pc \in {"options", "readQuote", "readRoot", "verify", "summary"} \cup Ended
    /\ verdict \in {"pending", "accepted", "rejected"}
    /\ offers \in 0..MaxOffers
    /\ pc \in {"summary", "final", "selected"} => verdict = "accepted"

Reported == ToSet(reported)

\* A check of the plan was passed on documents of this run, and is reported.
Passed(flag) ==
    IF flag = "pckChain"
    THEN EvidenceOK(req) /\ ChainName \in Reported
    ELSE Verifier!Justified(flag) /\ ToSet(CheckNames[flag]) \subseteq Reported

\* However the checks are spread over -check options, repeated, blank or in
\* between other options, a run that ends well has passed and reported every
\* one of them, with the policy path that stands when the last option is read
\* (addVerifyFlags, cli.go:139).  Without one an umbrella value takes back
\* tdx-policy, which run check_plan_adds is about.
EveryAskedCheckPassed ==
    pc \in {"final", "selected"} =>
        \A i \in DOMAIN options : options[i].name = "check" =>
            \A n \in DOMAIN options[i].value :
                LET asked == AskedBy(options[i].value[n], cfg.policyPath)
                IN  \A flag \in asked :
                        Passed(flag) \/ (flag = "tdxPolicy" /\ cfg.policyPath = Empty)

\* The fixed list of printFinalSummary is printed only when every check it
\* speaks of passed, though the list is chosen by the configuration and not by
\* the result (app.go:102): -check "" asks for everything, and a list of blank
\* values for nothing.
FinalSummaryOnlyAfterEverything ==
    pc = "final" => \A flag \in FullPlan(cfg.policyPath) : Passed(flag)

\* What the synthetic generator leaves out of a PCK leaf.
IsSynthetic(q) == PCKLeaf([quote |-> q]).fmspc = Blank

\* A synthetic quote passes no full verification (README.md:61), whichever
\* root the caller names and whatever documents are signed under it.
SyntheticNeverPassesInFull ==
    pc \in {"final", "selected"} /\ IsSynthetic(quote) => "tcbInfo" \notin PlannedFlags(req)

\* The same verification with -ignore-freshness taken away.
WithFreshness == INSTANCE Attestation WITH
    Request <- {}, req <- [req EXCEPT !.ignoreFreshness = FALSE]

\* The block "Verified:" lists what the code really guaranteed
\* (docs/output-guide.md:133), and so the freshness of both lists and the
\* dates of both documents.  The code prints it with -ignore-freshness too.
FinalSummaryIsGuaranteed ==
    pc = "final" =>
        \A check \in {"pckCRL", "rootCRL", "tcbInfo", "qeIdentity"} : WithFreshness!Justified(check)
=============================================================================
