--------------------------- MODULE CheckPlan_proofs ---------------------------
(***************************************************************************)
(* Proofs about resolveVerificationPlan (module CheckPlan), for every set  *)
(* of requests.  The loop is correct because after n values the plan is    *)
(* what those n values stand for; PlanInv says so, and the lemmas about    *)
(* AskedByFirst and PolicyAskedLast say how one more value changes it.     *)
(***************************************************************************)
EXTENDS CheckPlan, TLAPS

\* The flags after the first n values of r, before the chain is added.
PlannedByFirst(n, r) ==
    IF r.policyPath # Empty \/ PolicyAskedLast(n, r)
    THEN AskedByFirst(n, r)
    ELSE AskedByFirst(n, r) \ {"tdxPolicy"}

SupportedFirst(n, r) == \A i \in 1..n : r.checks[i] \in SupportedCheck \cup {Empty}

\* The inductive invariant of the loop.
PlanInv ==
    /\ PlanTypeOK
    /\ resolution = "resolving" => /\ plan = PlannedByFirst(next - 1, req)
                                   /\ SupportedFirst(next - 1, req)
    /\ resolution = "ok"    => plan = PlannedFlags(req) /\ AllSupported(req)
    /\ resolution = "error" => ~AllSupported(req)
----------------------------------------------------------------------------
(* What the values ask for *)

\* Every value asks for flags of the plan.
LEMMA AskedByFlags ==
    ASSUME NEW check, NEW path
    PROVE  AskedBy(check, path) \subseteq Flag
  BY DEF AskedBy, FullPlan, Asks, Flag, Umbrella

\* One more value adds what it asks for.
LEMMA AskedByFirstStep ==
    ASSUME NEW r, NEW n \in Nat
    PROVE  AskedByFirst(n + 1, r) =
               AskedByFirst(n, r) \cup AskedBy(r.checks[n + 1], r.policyPath)
  <1>1. 1..(n + 1) = (1..n) \cup {n + 1}
    OBVIOUS
  <1>2. QED
    BY <1>1, Zenon DEF AskedByFirst

\* What the first values ask for are flags of the plan.
LEMMA AskedByFirstFlags ==
    ASSUME NEW r, NEW n \in Nat
    PROVE  AskedByFirst(n, r) \subseteq Flag
  BY AskedByFlags, Zenon DEF AskedByFirst

\* One more value decides which of tdx-policy and the umbrella came last.
LEMMA PolicyAskedLastStep ==
    ASSUME NEW r, NEW n \in Nat
    PROVE  PolicyAskedLast(n + 1, r) <=>
               \/ r.checks[n + 1] = "tdx-policy"
               \/ PolicyAskedLast(n, r) /\ r.checks[n + 1] \notin Umbrella
  <1>1. ASSUME PolicyAskedLast(n + 1, r), r.checks[n + 1] # "tdx-policy"
        PROVE  PolicyAskedLast(n, r) /\ r.checks[n + 1] \notin Umbrella
    <2>1. PICK i \in 1..(n + 1) : /\ r.checks[i] = "tdx-policy"
                                  /\ \A j \in (i + 1)..(n + 1) : r.checks[j] \notin Umbrella
      BY <1>1 DEF PolicyAskedLast
    <2>2. i \in 1..n
      BY <1>1, <2>1
    <2>3. QED
      BY <2>1, <2>2 DEF PolicyAskedLast
  <1>2. ASSUME r.checks[n + 1] = "tdx-policy"
        PROVE  PolicyAskedLast(n + 1, r)
    BY <1>2 DEF PolicyAskedLast
  <1>3. ASSUME PolicyAskedLast(n, r), r.checks[n + 1] \notin Umbrella
        PROVE  PolicyAskedLast(n + 1, r)
    <2>1. PICK i \in 1..n : /\ r.checks[i] = "tdx-policy"
                            /\ \A j \in (i + 1)..n : r.checks[j] \notin Umbrella
      BY <1>3 DEF PolicyAskedLast
    <2>2. \A j \in (i + 1)..(n + 1) : j \in (i + 1)..n \/ j = n + 1
      OBVIOUS
    <2>3. QED
      BY <1>3, <2>1, <2>2 DEF PolicyAskedLast
  <1>4. QED
    BY <1>1, <1>2, <1>3

\* tdx-policy is the only value that asks for the policy without a path, and
\* an umbrella value asks for everything else.
LEMMA PolicyAsked ==
    ASSUME NEW check, NEW path
    PROVE  /\ "tdxPolicy" \in AskedBy(check, path) /\ path = Empty => check = "tdx-policy"
           /\ check \in Umbrella => Flag \ {"tdxPolicy"} \subseteq AskedBy(check, path)
           /\ check \in Umbrella /\ path # Empty => AskedBy(check, path) = Flag
           /\ check = "tdx-policy" => AskedBy(check, path) = {"tdxPolicy"}
           /\ check \notin Umbrella => AskedBy(check, path) = Asks(check)
  BY DEF AskedBy, FullPlan, Asks, Flag, Umbrella
\* An empty value asks for nothing.
LEMMA EmptyAsksNothing == Empty \notin Umbrella /\ Asks(Empty) = {}
  <1>1. /\ Empty # "all" /\ Empty # "intel-full" /\ Empty # "pck-chain"
        /\ Empty # "quote-signatures" /\ Empty # "quote-crypto" /\ Empty # "pck-crl"
        /\ Empty # "root-crl" /\ Empty # "tcbinfo" /\ Empty # "qeidentity"
        /\ Empty # "tdx-policy"
    BY Zenon DEF Empty
  <1>2. QED
    BY <1>1 DEF Umbrella, Asks
----------------------------------------------------------------------------
(* One turn of the loop *)

\* The loop body computes the plan of one more value.
LEMMA PlannedByFirstStep ==
    ASSUME NEW r, NEW n \in Nat
    PROVE  PlannedByFirst(n + 1, r) =
               AfterCheck(PlannedByFirst(n, r), r.checks[n + 1], r.policyPath)
  <1> DEFINE check == r.checks[n + 1]
             path  == r.policyPath
             old   == AskedByFirst(n, r)
  <1>1. AskedByFirst(n + 1, r) = old \cup AskedBy(check, path)
    BY AskedByFirstStep
  <1>2. old \subseteq Flag
    BY AskedByFirstFlags
  <1>3. PolicyAskedLast(n + 1, r) <=>
            check = "tdx-policy" \/ (PolicyAskedLast(n, r) /\ check \notin Umbrella)
    BY PolicyAskedLastStep
  <1>4. CASE check \in Umbrella
    <2>1. check # "tdx-policy"
      BY <1>4 DEF Umbrella
    <2>2. Flag \ {"tdxPolicy"} \subseteq AskedBy(check, path)
      BY <1>4, PolicyAsked
    <2>3. AskedBy(check, path) \subseteq Flag
      BY AskedByFlags
    <2>4. path # Empty => AskedBy(check, path) = Flag
      BY <1>4, PolicyAsked
    <2>5. QED
      BY <1>1, <1>2, <1>3, <1>4, <2>1, <2>2, <2>3, <2>4
      DEF PlannedByFirst, AfterCheck, FullPlan
  <1>5. CASE check \notin Umbrella
    <2>1. AskedBy(check, path) = Asks(check)
          /\ (path = Empty /\ "tdxPolicy" \in Asks(check) => check = "tdx-policy")
          /\ (check = "tdx-policy" => Asks(check) = {"tdxPolicy"})
      BY <1>5, PolicyAsked
    <2>2. path = Empty /\ "tdxPolicy" \in old /\ ~PolicyAskedLast(n, r) /\ check = "tdx-policy"
            => PlannedByFirst(n, r) \cup Asks(check) = old \cup Asks(check)
      BY <2>1 DEF PlannedByFirst
    <2>3. QED
      BY <1>1, <1>2, <1>3, <1>5, <2>1, <2>2 DEF PlannedByFirst, AfterCheck
  <1>6. QED
    BY <1>4, <1>5

\* Adding the chain after the loop gives the plan of the whole request: a
\* plan that an umbrella value took the policy from is not empty.
LEMMA PlannedFlagsAtEnd ==
    ASSUME NEW r, r.checks \in Seq(STRING), r.checks # <<>>
    PROVE  WithChain(PlannedByFirst(Len(r.checks), r)) = PlannedFlags(r)
  <1> DEFINE n     == Len(r.checks)
             asked == AskedByFirst(n, r)
  <1>1. n \in Nat /\ Asked(r) = asked
    BY DEF Asked
  <1>2. CASE r.policyPath # Empty \/ PolicyAskedLast(n, r)
    BY <1>1, <1>2 DEF PlannedByFirst, PlannedFlags
  <1>3. CASE r.policyPath = Empty /\ ~PolicyAskedLast(n, r)
    <2>1. CASE "tdxPolicy" \notin asked
      BY <1>1, <1>3, <2>1 DEF PlannedByFirst, PlannedFlags, WithChain
    <2>2. CASE "tdxPolicy" \in asked
      <3>1. PICK i \in 1..n : "tdxPolicy" \in AskedBy(r.checks[i], r.policyPath)
        BY <2>2 DEF AskedByFirst
      <3>2. r.checks[i] = "tdx-policy"
        BY <1>3, <3>1, PolicyAsked
      <3>3. PICK j \in (i + 1)..n : r.checks[j] \in Umbrella
        BY <1>3, <3>2 DEF PolicyAskedLast
      <3>4. j \in 1..n
        BY <1>1
      <3>5. Flag \ {"tdxPolicy"} \subseteq AskedBy(r.checks[j], r.policyPath)
        BY <3>3, PolicyAsked
      <3>6. Flag \ {"tdxPolicy"} \subseteq asked
        BY <3>4, <3>5, Zenon DEF AskedByFirst
      <3>7. "pckChain" \in asked
        BY <3>6 DEF Flag
      <3>8. QED
        BY <1>1, <1>3, <3>7 DEF PlannedByFirst, PlannedFlags, WithChain
    <2>3. QED
      BY <2>1, <2>2
  <1>4. QED
    BY <1>2, <1>3

\* With no -check the plan is the full one.
LEMMA PlannedFlagsByDefault ==
    ASSUME NEW r, r.checks = <<>>
    PROVE  PlannedFlags(r) = FullPlan(r.policyPath)
  BY DEF PlannedFlags, PolicyAskedLast, Asked, FullPlan, WithChain, Flag
----------------------------------------------------------------------------
(* The invariant *)

\* One more value has to be supported too.
LEMMA SupportedFirstStep ==
    ASSUME NEW r, NEW n \in Nat, SupportedFirst(n, r),
           r.checks[n + 1] \in SupportedCheck \cup {Empty}
    PROVE  SupportedFirst(n + 1, r)
  <1>1. \A i \in 1..(n + 1) : i \in 1..n \/ i = n + 1
    OBVIOUS
  <1>2. QED
    BY <1>1, Zenon DEF SupportedFirst

\* A request has finitely many values.
LEMMA RequestValues ==
    ASSUME NEW r \in Request
    PROVE  /\ r.checks \in Seq(STRING)
           /\ Len(r.checks) \in Nat
           /\ DOMAIN r.checks = 1..Len(r.checks)
  <1>1. r.checks \in Seq(STRING)
    BY RequestAssumption, Zenon
  <1>2. QED
    BY <1>1

LEMMA PlanInvInit == PlanInit => PlanInv
  <1> SUFFICES ASSUME PlanInit PROVE PlanInv
    OBVIOUS
  <1> USE DEF PlanInit
  <1>1. Len(req.checks) \in Nat
    BY RequestValues, Zenon
  <1>2. PlanTypeOK
    BY <1>1 DEF PlanTypeOK
  <1>3. PlannedByFirst(0, req) = {}
    BY DEF PlannedByFirst, AskedByFirst
  <1>4. SupportedFirst(0, req)
    BY DEF SupportedFirst
  <1>5. QED
    BY <1>2, <1>3, <1>4 DEF PlanInv

LEMMA PlanInvStep == PlanInv /\ [PlanNext]_planVars => PlanInv'
  <1> SUFFICES ASSUME PlanInv, [PlanNext]_planVars PROVE PlanInv'
    OBVIOUS
  <1>1. /\ req \in Request /\ next \in 1..(Len(req.checks) + 1) /\ plan \subseteq Flag
        /\ req.checks \in Seq(STRING) /\ Len(req.checks) \in Nat
        /\ DOMAIN req.checks = 1..Len(req.checks)
    BY RequestValues, Zenon DEF PlanInv, PlanTypeOK
  <1>2. CASE ResolveDefault
    <2>1. plan' = PlannedFlags(req) /\ AllSupported(req)
      BY <1>2, PlannedFlagsByDefault DEF ResolveDefault, AllSupported
    <2>2. PlanTypeOK'
      BY <1>1, <1>2 DEF ResolveDefault, PlanTypeOK, FullPlan
    <2>3. QED
      BY <1>2, <2>1, <2>2 DEF ResolveDefault, PlanInv
  <1>3. CASE SkipBlank
    <2>1. /\ req.checks[next] = Empty /\ next \in 1..Len(req.checks)
          /\ next - 1 \in Nat /\ (next - 1) + 1 = next
      BY <1>1, <1>3 DEF SkipBlank
    <2>2. PlannedByFirst(next, req) = AfterCheck(PlannedByFirst(next - 1, req), Empty, req.policyPath)
      BY <2>1, PlannedByFirstStep, Zenon
    <2>3. PlannedByFirst(next, req) = plan
      BY <1>3, <2>2, EmptyAsksNothing DEF SkipBlank, PlanInv, AfterCheck
    <2>4. SupportedFirst(next, req)
      <3>1. SupportedFirst(next - 1, req)
        BY <1>3 DEF SkipBlank, PlanInv
      <3>2. req.checks[(next - 1) + 1] \in SupportedCheck \cup {Empty}
        BY <2>1
      <3>3. SupportedFirst((next - 1) + 1, req)
        BY <2>1, <3>1, <3>2, SupportedFirstStep, Zenon
      <3>4. QED
        BY <2>1, <3>3, Zenon
    <2>5. PlanTypeOK'
      BY <1>1, <1>3, <2>1 DEF SkipBlank, PlanTypeOK
    <2>6. QED
      BY <1>1, <1>3, <2>3, <2>4, <2>5 DEF SkipBlank, PlanInv
  <1>4. CASE ResolveCheck
    <2>1. /\ req.checks[next] \in SupportedCheck /\ next \in 1..Len(req.checks)
          /\ next - 1 \in Nat /\ (next - 1) + 1 = next
      BY <1>1, <1>4 DEF ResolveCheck
    <2>2. PlannedByFirst(next, req) =
              AfterCheck(PlannedByFirst(next - 1, req), req.checks[next], req.policyPath)
      BY <2>1, PlannedByFirstStep, Zenon
    <2>3. plan' = PlannedByFirst(next, req)
      BY <1>4, <2>2 DEF ResolveCheck, PlanInv
    <2>4. SupportedFirst(next, req)
      <3>1. SupportedFirst(next - 1, req)
        BY <1>4 DEF ResolveCheck, PlanInv
      <3>2. req.checks[(next - 1) + 1] \in SupportedCheck \cup {Empty}
        BY <2>1
      <3>3. SupportedFirst((next - 1) + 1, req)
        BY <2>1, <3>1, <3>2, SupportedFirstStep, Zenon
      <3>4. QED
        BY <2>1, <3>3, Zenon
    <2>5. plan' \subseteq Flag
      BY <1>1, <1>4 DEF ResolveCheck, AfterCheck, FullPlan, Asks, Flag
    <2>6. PlanTypeOK'
      BY <1>1, <1>4, <2>1, <2>5 DEF ResolveCheck, PlanTypeOK
    <2>7. QED
      BY <1>1, <1>4, <2>3, <2>4, <2>6 DEF ResolveCheck, PlanInv
  <1>5. CASE RejectCheck
    <2>1. ~AllSupported(req)
      BY <1>5 DEF RejectCheck, AllSupported
    <2>2. PlanTypeOK'
      BY <1>1, <1>5 DEF RejectCheck, PlanTypeOK
    <2>3. QED
      BY <1>5, <2>1, <2>2 DEF RejectCheck, PlanInv
  <1>6. CASE ResolveDone
    <2>1. next - 1 = Len(req.checks)
      BY <1>1, <1>6 DEF ResolveDone
    <2>2. plan' = PlannedFlags(req)
      BY <1>1, <1>6, <2>1, PlannedFlagsAtEnd DEF ResolveDone, PlanInv
    <2>3. AllSupported(req)
      BY <1>1, <1>6, <2>1 DEF ResolveDone, PlanInv, SupportedFirst, AllSupported
    <2>4. plan' \subseteq Flag
      BY <1>1, <1>6 DEF ResolveDone, WithChain, Flag
    <2>5. PlanTypeOK'
      BY <1>1, <1>6, <2>4 DEF ResolveDone, PlanTypeOK
    <2>6. QED
      BY <1>6, <2>2, <2>3, <2>5 DEF ResolveDone, PlanInv
  <1>7. CASE UNCHANGED planVars
    BY <1>7 DEF planVars, PlanInv, PlanTypeOK
  <1>8. QED
    BY <1>2, <1>3, <1>4, <1>5, <1>6, <1>7 DEF PlanNext

LEMMA PlanInvAlways == PlanSpec => []PlanInv
  BY PlanInvInit, PlanInvStep, PTL DEF PlanSpec
----------------------------------------------------------------------------
(* The theorems *)

\* The loop's position stays within the values and it only sets the seven
\* flags of verificationPlan (verifier.go:59-67, 253-288).
THEOREM PlanTypeCorrect == PlanSpec => []PlanTypeOK
  <1>1. PlanInv => PlanTypeOK
    BY DEF PlanInv
  <1>2. QED
    BY <1>1, PlanInvAlways, PTL

\* For every list of values, in every order and with every repetition, the
\* loop ends with the plan the request stands for (verifier.go:240-294).
THEOREM PlanCorrect == PlanSpec => []PlanIsPlannedFlags
  <1>1. PlanInv => PlanIsPlannedFlags
    BY DEF PlanInv, PlanIsPlannedFlags
  <1>2. QED
    BY <1>1, PlanInvAlways, PTL

\* A request is refused exactly when one of its values is not supported, and
\* it does not matter which (verifier.go:286).
THEOREM RefusalCorrect == PlanSpec => []RefusedIffUnsupported
  <1>1. PlanInv => RefusedIffUnsupported
    BY DEF PlanInv, PlanTypeOK, RefusedIffUnsupported
  <1>2. QED
    BY <1>1, PlanInvAlways, PTL

\* What README.md:82 promises (EveryCheckAddedIsPlanned) and the loop may break:
\* only tdx-policy is ever taken back, and only in a request without a policy
\* path whose last umbrella value comes after it (verifier.go:267).
TakesBackOnlyThePolicy ==
    resolution = "ok" /\ ~(Asked(req) \subseteq plan) =>
        /\ Asked(req) \ plan = {"tdxPolicy"}
        /\ req.policyPath = Empty /\ ~PolicyAskedLast(Len(req.checks), req)

\* With any list of values, what resolveVerificationPlan drops from what was
\* asked for is the policy check, where it cannot run without -tdx-policy.
THEOREM OnlyThePolicyIsTakenBack == PlanSpec => []TakesBackOnlyThePolicy
  <1>1. Asked(req) \subseteq WithChain(Asked(req))
    BY DEF WithChain
  <1>2. PlanInv => TakesBackOnlyThePolicy
    BY <1>1 DEF PlanInv, PlannedFlags, TakesBackOnlyThePolicy
  <1>3. QED
    BY <1>2, PlanInvAlways, PTL
=============================================================================
