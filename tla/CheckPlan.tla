----------------------------- MODULE CheckPlan -----------------------------
(***************************************************************************)
(* Which checks a verification runs: resolveVerificationPlan of            *)
(* internal/tdxattest/verifier.go, a loop over the -check values that sets *)
(* and, for an umbrella value, also resets the flags of the plan.          *)
(***************************************************************************)
EXTENDS PlanFlags

CONSTANT Request     \* the requests the program may be given

ASSUME RequestAssumption ==
    \A r \in Request : /\ r.checks \in Seq(STRING)
                       /\ r.policyPath \in {Empty, " ", "policy"}

VARIABLES
    req,         \* the request
    next,        \* the position of the check the loop looks at
    plan,        \* the flags of verificationPlan that are set
    resolution   \* "resolving", "ok" or "error"

planVars == <<req, next, plan, resolution>>

\* A bug: an umbrella value always takes the policy check back.
AfterCheckUmbrellaResets(flags, check, policyPath) ==
    IF check \in Umbrella
    THEN Flag \ {"tdxPolicy"}
    ELSE flags \cup Asks(check)

\* The plan after one more value.  An umbrella value assigns every flag.
AfterCheck(flags, check, policyPath) ==
    IF check \in Umbrella
    THEN FullPlan(policyPath)
    ELSE flags \cup Asks(check)
----------------------------------------------------------------------------
PlanInit ==
    /\ req \in Request
    /\ next = 1 /\ plan = {} /\ resolution = "resolving"

\* No -check at all: the full pipeline.
ResolveDefault ==
    /\ resolution = "resolving" /\ req.checks = <<>>
    /\ plan' = FullPlan(req.policyPath)
    /\ resolution' = "ok"
    /\ UNCHANGED <<req, next>>

\* A bug that skips one value too many.
SkipBlankTwice ==
    /\ resolution = "resolving" /\ next \in DOMAIN req.checks
    /\ req.checks[next] = Empty
    /\ next' = next + 2
    /\ UNCHANGED <<req, plan, resolution>>

\* An empty value is skipped.
SkipBlank ==
    /\ resolution = "resolving" /\ next \in DOMAIN req.checks
    /\ req.checks[next] = Empty
    /\ next' = next + 1
    /\ UNCHANGED <<req, plan, resolution>>

ResolveCheck ==
    /\ resolution = "resolving" /\ next \in DOMAIN req.checks
    /\ req.checks[next] \in SupportedCheck
    /\ plan' = AfterCheck(plan, req.checks[next], req.policyPath)
    /\ next' = next + 1
    /\ UNCHANGED <<req, resolution>>

\* A bug that skips a value it does not know.
RejectCheckSkips ==
    /\ resolution = "resolving" /\ next \in DOMAIN req.checks
    /\ req.checks[next] \notin SupportedCheck \cup {Empty}
    /\ next' = next + 1
    /\ UNCHANGED <<req, plan, resolution>>

RejectCheck ==
    /\ resolution = "resolving" /\ next \in DOMAIN req.checks
    /\ req.checks[next] \notin SupportedCheck \cup {Empty}
    /\ plan' = {} /\ resolution' = "error"
    /\ UNCHANGED <<req, next>>

ResolveDone ==
    /\ resolution = "resolving" /\ req.checks # <<>> /\ next > Len(req.checks)
    /\ plan' = WithChain(plan)
    /\ resolution' = "ok"
    /\ UNCHANGED <<req, next>>

PlanNext == ResolveDefault \/ SkipBlank \/ ResolveCheck \/ RejectCheck \/ ResolveDone

PlanSpec == PlanInit /\ [][PlanNext]_planVars
----------------------------------------------------------------------------
(* Properties *)

\* Type invariant of the loop's state.
PlanTypeOK ==
    /\ req \in Request
    /\ next \in 1..(Len(req.checks) + 1)
    /\ plan \subseteq Flag
    /\ resolution \in {"resolving", "ok", "error"}

\* The loop computes the plan the request stands for, for every order and
\* repetition of the values (resolveVerificationPlan, verifier.go:240-294).
PlanIsPlannedFlags == resolution = "ok" => plan = PlannedFlags(req)

\* One unsupported value refuses the whole request, wherever it stands, and
\* nothing else does (verifier.go:286).
RefusedIffUnsupported ==
    resolution # "resolving" => (resolution = "error" <=> ~AllSupported(req))

\* Repeated and comma-separated -check values add checks (README.md:82): the
\* plan holds what every value asked for.  The code breaks this for
\* tdx-policy followed by an umbrella value (verifier.go:267).
EveryCheckAddedIsPlanned ==
    resolution = "ok" => Asked(req) \subseteq plan
=============================================================================
