--------------------------- MODULE FrontEnd_proofs ---------------------------
(***************************************************************************)
(* Proofs about module FrontEnd, for any command lines, any files and any  *)
(* documents: what a run that ends well has had verified.                  *)
(*                                                                         *)
(* The invariant follows the run: which -check values have reached the     *)
(* configuration (AskInv), that the request says what the configuration    *)
(* said (RequestInv), and what the verifier promised (DecidedInv).         *)
(***************************************************************************)
EXTENDS FrontEnd, TLAPS

Well == {"summary", "final", "selected"}

\* A value of the options taken so far is among the checks.
Kept(value) == \E k \in 1..Len(cfg.checks) : cfg.checks[k] = value

ConfigInv ==
    /\ options \in CommandLine
    /\ next \in 1..(Len(options) + 1)
    /\ cfg = [f \in DOMAIN DefaultConfig |-> cfg[f]]
    /\ cfg.checks \in Seq(STRING)

AskInv ==
    /\ \A i \in 1..(next - 1) : options[i].name = "check" =>
          \A n \in 1..Len(options[i].value) : Kept(options[i].value[n])
    /\ pc \notin {"options", "failed"} => next = Len(options) + 1

RequestInv ==
    pc \in {"verify"} \cup Well =>
        \E root :
            req = [checks |-> cfg.checks, policyPath |-> cfg.policyPath, root |-> root,
                   quote |-> quote, source |-> cfg.source, bundle |-> NoBundle,
                   time |-> cfg.time, ignoreFreshness |-> cfg.ignoreFreshness]

Promised ==
    /\ EvidenceOK(req)
    /\ \A check \in Check \cap PlannedFlags(req) : Verifier!Justified(check)
    /\ reported = Verifier!Report(PlannedFlags(req))

DecidedInv ==
    /\ pc \in {"options", "readQuote", "readRoot", "verify", "summary"} \cup Ended
    /\ verdict \in {"pending", "accepted", "rejected"}
    /\ offers \in 0..MaxOffers
    /\ pc \in Well => verdict = "accepted" /\ Promised
    /\ pc = "final" => cfg.checks = <<>>

RunInv == ConfigInv /\ AskInv /\ RequestInv /\ DecidedInv
----------------------------------------------------------------------------
(* The plan and the report *)

\* Every value asks for flags that are planned, but for a tdx-policy that an
\* umbrella value took back.
LEMMA AskedIsPlanned ==
    ASSUME NEW r, r.checks \in Seq(STRING), NEW k \in 1..Len(r.checks),
           NEW flag \in AskedBy(r.checks[k], r.policyPath)
    PROVE  flag \in PlannedFlags(r) \/ (flag = "tdxPolicy" /\ r.policyPath = Empty)
  <1>1. r.checks # <<>>
    OBVIOUS
  <1>2. flag \in Asked(r)
    BY <1>1 DEF Asked, AskedByFirst
  <1>3. flag \in WithChain(Asked(r))
    BY <1>2 DEF WithChain
  <1> QED BY <1>3 DEF PlannedFlags

LEMMA DefaultIsPlanned ==
    ASSUME NEW r, r.checks = <<>>
    PROVE  FullPlan(r.policyPath) \subseteq PlannedFlags(r)
  <1>1. Asked(r) = FullPlan(r.policyPath)
    BY DEF Asked
  <1>2. FullPlan(r.policyPath) \subseteq WithChain(Asked(r))
    BY <1>1 DEF WithChain
  <1>3. r.policyPath = Empty => "tdxPolicy" \notin FullPlan(r.policyPath)
    BY DEF FullPlan
  <1> QED BY <1>2, <1>3 DEF PlannedFlags

LEMMA AskedAreFlags ==
    ASSUME NEW value, NEW path, NEW flag \in AskedBy(value, path)
    PROVE  flag = "pckChain" \/ flag \in Check
  <1>1. AskedBy(value, path) \subseteq Flag
    <2>1. FullPlan(path) \subseteq Flag
      BY DEF FullPlan
    <2>2. Asks(value) \subseteq Flag
      BY DEF Asks, Flag
    <2> QED BY <2>1, <2>2 DEF AskedBy
  <1> QED BY <1>1 DEF Flag, Check

Name == {"pckChain", "pckCRL", "rootCRL", "qeReportSignature", "akBinding", "quoteSignature",
         "tcbInfo", "qeIdentity", "tdxPolicy"}

LEMMA Concatenated ==
    ASSUME NEW s \in Seq(Name), NEW t \in Seq(Name)
    PROVE  s \o t \in Seq(Name) /\ ToSet(s) \cup ToSet(t) \subseteq ToSet(s \o t)
  <1>1. \A i \in 1..Len(s) : i \in 1..Len(s \o t) /\ (s \o t)[i] = s[i]
    OBVIOUS
  <1>2. \A i \in 1..Len(t) : Len(s) + i \in 1..Len(s \o t) /\ (s \o t)[Len(s) + i] = t[i]
    OBVIOUS
  <1>3. /\ DOMAIN s = 1..Len(s) /\ DOMAIN t = 1..Len(t)
        /\ s \o t \in Seq(Name) /\ DOMAIN (s \o t) = 1..Len(s \o t)
    OBVIOUS
  <1>4. ToSet(s) \subseteq ToSet(s \o t)
    BY <1>1, <1>3 DEF ToSet
  <1>5. ToSet(t) \subseteq ToSet(s \o t)
    BY <1>2, <1>3 DEF ToSet
  <1> QED BY <1>3, <1>4, <1>5

\* The report of a plan names the chain and every planned check.
LEMMA PlannedIsReported ==
    ASSUME NEW flags
    PROVE  /\ "pckChain" \in flags => ChainName \in ToSet(Verifier!Report(flags))
           /\ \A check \in Check \cap flags :
                 ToSet(CheckNames[check]) \subseteq ToSet(Verifier!Report(flags))
  <1> DEFINE names(check) == Verifier!NamesIf(check, flags)
             s0 == IF "pckChain" \in flags THEN <<ChainName>> ELSE <<>>
             s1 == s0 \o names("pckCRL")
             s2 == s1 \o names("rootCRL")
             s3 == s2 \o names("quoteSignature")
             s4 == s3 \o names("tcbInfo")
             s5 == s4 \o names("qeIdentity")
             s6 == s5 \o names("tdxPolicy")
  <1>1. s6 = Verifier!Report(flags)
    BY DEF Verifier!Report
  <1>2. \A check \in Check : check \in flags => names(check) = CheckNames[check]
    BY DEF Verifier!NamesIf
  <1>3. \A check \in Check : names(check) \in Seq(Name)
    <2>1. \A check \in Check : CheckNames[check] \in Seq(Name)
      <3>1. /\ CheckNames["pckCRL"] \in Seq(Name) /\ CheckNames["rootCRL"] \in Seq(Name)
            /\ CheckNames["quoteSignature"] \in Seq(Name) /\ CheckNames["tcbInfo"] \in Seq(Name)
            /\ CheckNames["qeIdentity"] \in Seq(Name) /\ CheckNames["tdxPolicy"] \in Seq(Name)
        BY DEF CheckNames, Name
      <3> QED BY <3>1 DEF Check
    <2>2. <<>> \in Seq(Name)
      OBVIOUS
    <2> QED BY <2>1, <2>2, Zenon DEF Verifier!NamesIf
  <1>4. s0 \in Seq(Name) /\ ("pckChain" \in flags => ChainName \in ToSet(s0))
    <2>1. <<ChainName>> \in Seq(Name) /\ <<>> \in Seq(Name)
      BY DEF ChainName, Name
    <2>2. ChainName \in ToSet(<<ChainName>>)
      BY DEF ToSet
    <2> QED BY <2>1, <2>2
  <1> HIDE DEF s0, names
  <1>5. s1 \in Seq(Name) /\ ToSet(s0) \cup ToSet(names("pckCRL")) \subseteq ToSet(s1)
    BY <1>3, <1>4, Concatenated DEF Check
  <1> HIDE DEF s1
  <1>6. s2 \in Seq(Name) /\ ToSet(s1) \cup ToSet(names("rootCRL")) \subseteq ToSet(s2)
    BY <1>3, <1>5, Concatenated DEF Check, s2
  <1> HIDE DEF s2
  <1>7. s3 \in Seq(Name) /\ ToSet(s2) \cup ToSet(names("quoteSignature")) \subseteq ToSet(s3)
    BY <1>3, <1>6, Concatenated DEF Check, s3
  <1> HIDE DEF s3
  <1>8. s4 \in Seq(Name) /\ ToSet(s3) \cup ToSet(names("tcbInfo")) \subseteq ToSet(s4)
    BY <1>3, <1>7, Concatenated DEF Check, s4
  <1> HIDE DEF s4
  <1>9. s5 \in Seq(Name) /\ ToSet(s4) \cup ToSet(names("qeIdentity")) \subseteq ToSet(s5)
    BY <1>3, <1>8, Concatenated DEF Check, s5
  <1> HIDE DEF s5
  <1>10. ToSet(s5) \cup ToSet(names("tdxPolicy")) \subseteq ToSet(s6)
    BY <1>3, <1>9, Concatenated DEF Check, s6
  <1> HIDE DEF s6
  <1>11. /\ ToSet(s0) \subseteq ToSet(s6) /\ ToSet(names("pckCRL")) \subseteq ToSet(s6)
         /\ ToSet(names("rootCRL")) \subseteq ToSet(s6)
         /\ ToSet(names("quoteSignature")) \subseteq ToSet(s6)
         /\ ToSet(names("tcbInfo")) \subseteq ToSet(s6)
         /\ ToSet(names("qeIdentity")) \subseteq ToSet(s6)
         /\ ToSet(names("tdxPolicy")) \subseteq ToSet(s6)
    BY <1>5, <1>6, <1>7, <1>8, <1>9, <1>10, Zenon
  <1>12. \A check \in Check : ToSet(names(check)) \subseteq ToSet(s6)
    BY <1>11 DEF Check
  <1> QED BY <1>1, <1>2, <1>4, <1>11, <1>12
----------------------------------------------------------------------------
(* The invariant *)

LEMMA InitRun ==
    ASSUME Init
    PROVE  RunInv
  <1>1. options \in CommandLine /\ Len(options) \in Nat
    BY FrontEndAssumption DEF Init
  <1>2. cfg = [f \in DOMAIN DefaultConfig |-> cfg[f]] /\ cfg.checks \in Seq(STRING)
    BY DEF Init, DefaultConfig
  <1>3. ConfigInv
    BY <1>1, <1>2 DEF Init, ConfigInv
  <1>4. AskInv
    BY DEF Init, AskInv
  <1>5. RequestInv
    BY DEF Init, RequestInv, Well
  <1>6. DecidedInv
    BY FrontEndAssumption DEF Init, DecidedInv, Well, Ended
  <1> QED BY <1>3, <1>4, <1>5, <1>6 DEF RunInv

\* One more option: the checks only grow.
LEMMA OptionTaken ==
    ASSUME ConfigInv, next \in DOMAIN options,
           NEW config, config = AfterOption(cfg, options[next])
    PROVE  /\ config = [f \in DOMAIN DefaultConfig |-> config[f]]
           /\ config.checks \in Seq(STRING)
           /\ \A value : Kept(value) => \E k \in 1..Len(config.checks) : config.checks[k] = value
           /\ options[next].name = "check" =>
                 \A n \in 1..Len(options[next].value) :
                     \E k \in 1..Len(config.checks) : config.checks[k] = options[next].value[n]
  <1> DEFINE o == options[next]
  <1>1. /\ cfg = [f \in DOMAIN DefaultConfig |-> cfg[f]] /\ cfg.checks \in Seq(STRING)
        /\ "checks" \in DOMAIN DefaultConfig /\ "checks" \notin PlainOption
    BY DEF ConfigInv, DefaultConfig, PlainOption
  <1>2. o.name = "check" => o.value \in Seq(STRING)
    BY FrontEndAssumption DEF ConfigInv
  <1> HIDE DEF o
  <1>3. CASE o.name \in PlainOption
    <2>1. config = [cfg EXCEPT ![o.name] = o.value] /\ o.name # "check" /\ o.name # "checks"
      BY <1>1, <1>3 DEF AfterOption, PlainOption, o
    <2>2. config.checks = cfg.checks
      BY <1>1, <2>1
    <2>3. config = [f \in DOMAIN DefaultConfig |-> config[f]]
      BY <1>1, <2>1
    <2> QED BY <1>1, <2>1, <2>2, <2>3 DEF Kept, o
  <1>4. CASE o.name = "check"
    <2>1. config = [cfg EXCEPT !.checks = cfg.checks \o o.value]
      BY <1>4 DEF AfterOption, PlainOption, o
    <2>2. config.checks = cfg.checks \o o.value
      BY <1>1, <2>1
    <2>3. config = [f \in DOMAIN DefaultConfig |-> config[f]]
      BY <1>1, <2>1
    <2>4. config.checks \in Seq(STRING)
      <3>1. cfg.checks \in Seq(STRING) /\ o.value \in Seq(STRING)
        BY <1>1, <1>2, <1>4
      <3>2. cfg.checks \o o.value \in Seq(STRING)
        BY <3>1
      <3> QED BY <2>2, <3>2
    <2>5. ASSUME NEW k \in 1..Len(cfg.checks)
          PROVE  k \in 1..Len(config.checks) /\ config.checks[k] = cfg.checks[k]
      BY <1>1, <1>2, <1>4, <2>2
    <2>6. ASSUME NEW n \in 1..Len(o.value)
          PROVE  /\ Len(cfg.checks) + n \in 1..Len(config.checks)
                 /\ config.checks[Len(cfg.checks) + n] = o.value[n]
      BY <1>1, <1>2, <1>4, <2>2
    <2>7. \A value : Kept(value) => \E k \in 1..Len(config.checks) : config.checks[k] = value
      BY <2>5 DEF Kept
    <2>8. \A n \in 1..Len(o.value) : \E k \in 1..Len(config.checks) : config.checks[k] = o.value[n]
      BY <2>6
    <2> QED BY <2>3, <2>4, <2>7, <2>8 DEF o
  <1>5. CASE o.name \notin PlainOption /\ o.name # "check"
    BY <1>1, <1>5 DEF AfterOption, Kept, o
  <1> QED BY <1>3, <1>4, <1>5

\* Steps that leave the options and the configuration alone.
LEMMA OptionsKept ==
    ASSUME ConfigInv, AskInv, UNCHANGED <<options, next, cfg>>,
           pc' \in {"options", "failed"} \/ pc \notin {"options", "failed"}
    PROVE  ConfigInv' /\ AskInv'
  BY DEF ConfigInv, AskInv, Kept

LEMMA NextRun ==
    ASSUME RunInv, [Next]_vars
    PROVE  RunInv'
  <1> USE DEF RunInv
  <1>1. Len(options) \in Nat /\ DOMAIN options = 1..Len(options)
    BY FrontEndAssumption DEF ConfigInv
  <1>2. CASE TakeOption
    <2>1. /\ pc = "options" /\ next \in DOMAIN options /\ cfg' = AfterOption(cfg, options[next])
          /\ next' = next + 1 /\ UNCHANGED <<options, pc, quote, verifierVars, offers>>
      BY <1>2 DEF TakeOption
    <2>2. /\ cfg' = [f \in DOMAIN DefaultConfig |-> cfg'[f]]
          /\ cfg'.checks \in Seq(STRING)
          /\ \A value : Kept(value) => \E k \in 1..Len(cfg'.checks) : cfg'.checks[k] = value
          /\ options[next].name = "check" =>
                \A n \in 1..Len(options[next].value) :
                    \E k \in 1..Len(cfg'.checks) : cfg'.checks[k] = options[next].value[n]
      BY <2>1, OptionTaken
    <2>3. ConfigInv'
      BY <1>1, <2>1, <2>2 DEF ConfigInv
    <2>4. AskInv'
      <3>1. ASSUME NEW i \in 1..(next' - 1), options[i].name = "check",
                   NEW n \in 1..Len(options[i].value)
            PROVE  Kept(options[i].value[n])'
        <4>1. i \in 1..(next - 1) \/ i = next
          BY <1>1, <2>1
        <4>2. CASE i \in 1..(next - 1)
          <5>1. Kept(options[i].value[n])
            BY <3>1, <4>2 DEF AskInv
          <5> QED BY <2>1, <2>2, <5>1 DEF Kept
        <4>3. CASE i = next
          BY <2>1, <2>2, <3>1, <4>3 DEF Kept
        <4> QED BY <4>1, <4>2, <4>3
      <3> QED BY <2>1, <3>1 DEF AskInv
    <2>5. RequestInv'
      BY <2>1 DEF RequestInv, Well
    <2>6. DecidedInv'
      BY <2>1 DEF DecidedInv, Well, Ended, verifierVars
    <2> QED BY <2>3, <2>4, <2>5, <2>6
  <1>3. CASE RefuseOption
    <2>1. pc' = "failed" /\ UNCHANGED <<options, next, cfg, offers, verdict>>
      BY <1>3 DEF RefuseOption, Go, optionVars, verifierVars
    <2>2. ConfigInv' /\ AskInv'
      BY <2>1, OptionsKept
    <2> QED BY <2>1, <2>2 DEF RequestInv, DecidedInv, Well, Ended
  <1>4. CASE PreRun
    <2>1. /\ pc = "options" /\ next \notin DOMAIN options /\ pc' \in {"failed", "readQuote"}
          /\ UNCHANGED <<options, next, verdict, offers>>
      BY <1>4 DEF PreRun, Go, verifierVars
    <2>2. cfg' = cfg \/ cfg' = [cfg EXCEPT !.time = sampleTime]
      BY <1>4 DEF PreRun
    <2>3. cfg'.checks = cfg.checks /\ cfg' = [f \in DOMAIN DefaultConfig |-> cfg'[f]]
      BY <2>2 DEF ConfigInv, DefaultConfig
    <2>4. ConfigInv'
      BY <2>1, <2>3 DEF ConfigInv
    <2>5. next = Len(options) + 1
      BY <1>1, <2>1 DEF ConfigInv
    <2>6. AskInv'
      BY <2>1, <2>3, <2>5 DEF AskInv, Kept
    <2> QED BY <2>1, <2>4, <2>6 DEF RequestInv, DecidedInv, Well, Ended
  <1>5. CASE ReadQuote
    <2>1. /\ pc = "readQuote" /\ pc' \in {"failed", "readRoot"}
          /\ UNCHANGED <<options, next, cfg, verdict, offers>>
      BY <1>5 DEF ReadQuote, Go, optionVars, verifierVars
    <2>2. ConfigInv' /\ AskInv'
      BY <2>1, OptionsKept
    <2> QED BY <2>1, <2>2 DEF RequestInv, DecidedInv, Well, Ended
  <1>6. CASE ReadRoot
    <2>1. /\ pc = "readRoot" /\ pc' \in {"failed", "verify"}
          /\ UNCHANGED <<options, next, cfg, verdict, offers, quote>>
      BY <1>6 DEF ReadRoot, Go, optionVars
    <2>2. ConfigInv' /\ AskInv'
      BY <2>1, OptionsKept
    <2>3. pc' = "verify" =>
             req' = [checks |-> cfg.checks, policyPath |-> cfg.policyPath,
                     root |-> RootAt[cfg.rootPath],
                     quote |-> quote, source |-> cfg.source, bundle |-> NoBundle,
                     time |-> cfg.time, ignoreFreshness |-> cfg.ignoreFreshness]
      BY <1>6 DEF ReadRoot, Go
    <2>4. pc' \notin Well
      BY <2>1 DEF Well
    <2>5. RequestInv'
      BY <2>1, <2>3, <2>4 DEF RequestInv
    <2> QED BY <2>1, <2>2, <2>5 DEF DecidedInv, Well, Ended
  <1>7. CASE VerifierRefuses
    <2>1. /\ pc = "verify" /\ pc' = "failed" /\ verdict' = "rejected"
          /\ UNCHANGED <<options, next, cfg, offers>>
      BY <1>7 DEF VerifierRefuses, Go, optionVars, Verifier!Refuse
    <2>2. ConfigInv' /\ AskInv'
      BY <2>1, OptionsKept
    <2> QED BY <2>1, <2>2 DEF RequestInv, DecidedInv, Well, Ended
  <1>8. CASE VerifierAccepts
    <2>1. /\ pc = "verify" /\ pc' = "summary" /\ verdict' = "accepted"
          /\ UNCHANGED <<options, next, cfg, offers, quote, req, available>>
      BY <1>8 DEF VerifierAccepts, Go, optionVars, Verifier!Accept
    <2>2. /\ EvidenceOK(req)
          /\ \A check \in Check \cap PlannedFlags(req) : Verifier!Justified(check)
          /\ reported' = Verifier!Report(PlannedFlags(req))
      BY <1>8 DEF VerifierAccepts, Verifier!Accept, Verifier!Proper, Verifier!Planned
    <2>3. Promised'
      BY <2>1, <2>2 DEF Promised, Verifier!Justified, Verifier!Obtainable
    <2>4. ConfigInv' /\ AskInv'
      BY <2>1, OptionsKept
    <2> QED BY <2>1, <2>3, <2>4 DEF RequestInv, DecidedInv, Well, Ended
  <1>9. CASE Summarise
    <2>1. /\ pc = "summary" /\ pc' = IF cfg.checks = <<>> THEN "final" ELSE "selected"
          /\ UNCHANGED <<options, next, cfg, offers, quote, req, available, verdict, reported>>
      BY <1>9 DEF Summarise, Go, optionVars, verifierVars
    <2>2. Promised'
      BY <2>1 DEF Promised, Verifier!Justified, Verifier!Obtainable, DecidedInv, Well
    <2>3. ConfigInv' /\ AskInv'
      BY <2>1, OptionsKept
    <2> QED BY <2>1, <2>2, <2>3 DEF RequestInv, DecidedInv, Well, Ended
  <1>10. ASSUME NEW d \in Document, NEW blob \in Blob[d], Offer(d, blob)
         PROVE  RunInv'
    <2>1. /\ pc = "verify" /\ pc' = pc /\ offers < MaxOffers /\ offers' = offers + 1
          /\ UNCHANGED <<options, next, cfg, quote, req, verdict>>
      BY <1>10 DEF Offer, optionVars
    <2>2. ConfigInv' /\ AskInv'
      BY <2>1, OptionsKept
    <2> QED BY <2>1, <2>2, FrontEndAssumption DEF RequestInv, DecidedInv, Well, Ended
  <1>11. CASE UNCHANGED vars
    <2>1. UNCHANGED <<options, next, cfg, pc, offers, quote, req, available, verdict, reported>>
      BY <1>11 DEF vars, optionVars, verifierVars
    <2>2. Promised' <=> Promised
      BY <2>1 DEF Promised, Verifier!Justified, Verifier!Obtainable
    <2>3. ConfigInv' /\ AskInv'
      BY <2>1 DEF ConfigInv, AskInv, Kept
    <2> QED BY <2>1, <2>2, <2>3 DEF RequestInv, DecidedInv
  <1> QED BY <1>2, <1>3, <1>4, <1>5, <1>6, <1>7, <1>8, <1>9, <1>10, <1>11 DEF Next

\* The configuration of a run is what the options taken so far stand for, the
\* request is the configuration, and a run gets past the verifier only with
\* what the verifier promises (cli.go:127-151, app.go:63-107).
THEOREM RunInvariant == Spec => []RunInv
  BY InitRun, NextRun, PTL DEF Spec
----------------------------------------------------------------------------
(* The theorems *)

\* Whatever the command line, a run stays within its types, and a summary is
\* printed only after the verifier accepted.
THEOREM FrontEndTypeCorrect == Spec => []FrontEndTypeOK
  <1>1. RunInv => FrontEndTypeOK
    BY DEF RunInv, ConfigInv, AskInv, DecidedInv, FrontEndTypeOK, Well, Ended
  <1> QED BY <1>1, RunInvariant, PTL

\* What is planned was passed and is reported.
LEMMA PlannedPassed ==
    ASSUME RunInv, pc \in Well, NEW flag \in PlannedFlags(req),
           flag = "pckChain" \/ flag \in Check
    PROVE  Passed(flag)
  <1>1. Promised
    BY DEF RunInv, DecidedInv
  <1>2. CASE flag = "pckChain"
    BY <1>1, <1>2, PlannedIsReported DEF Promised, Passed, Reported
  <1>3. CASE flag \in Check
    <2>1. flag # "pckChain"
      BY <1>3 DEF Check
    <2>2. Verifier!Justified(flag)
      BY <1>1, <1>3 DEF Promised
    <2>3. ToSet(CheckNames[flag]) \subseteq Reported
      BY <1>1, <1>3, PlannedIsReported DEF Promised, Reported
    <2> QED BY <2>1, <2>2, <2>3 DEF Passed
  <1> QED BY <1>2, <1>3

\* However many -check options there are, and whatever stands between them, a
\* run that ends well has passed and reported every check they ask for.
THEOREM EveryAskedCheckPassedAlways == Spec => []EveryAskedCheckPassed
  <1>1. ASSUME RunInv, pc \in {"final", "selected"}, NEW i \in DOMAIN options,
               options[i].name = "check", NEW n \in DOMAIN options[i].value,
               NEW flag \in AskedBy(options[i].value[n], cfg.policyPath)
        PROVE  Passed(flag) \/ (flag = "tdxPolicy" /\ cfg.policyPath = Empty)
    <2>1. pc \in Well /\ pc \notin {"options", "failed"}
      BY <1>1 DEF Well
    <2>2. Len(options) \in Nat /\ i \in 1..Len(options) /\ options[i].value \in Seq(STRING)
      BY <1>1, FrontEndAssumption DEF RunInv, ConfigInv
    <2>3. i \in 1..(next - 1) /\ n \in 1..Len(options[i].value)
      BY <1>1, <2>1, <2>2 DEF RunInv, AskInv
    <2>4. PICK k \in 1..Len(cfg.checks) : cfg.checks[k] = options[i].value[n]
      BY <1>1, <2>3 DEF RunInv, AskInv, Kept
    <2>5. req.checks = cfg.checks /\ req.policyPath = cfg.policyPath /\ req.checks \in Seq(STRING)
      BY <1>1, <2>1 DEF RunInv, RequestInv, ConfigInv
    <2>6. flag \in AskedBy(req.checks[k], req.policyPath) /\ k \in 1..Len(req.checks)
      BY <1>1, <2>4, <2>5
    <2>7. flag \in PlannedFlags(req) \/ (flag = "tdxPolicy" /\ req.policyPath = Empty)
      BY <2>5, <2>6, AskedIsPlanned
    <2>8. flag = "pckChain" \/ flag \in Check
      BY <1>1, AskedAreFlags
    <2> QED BY <1>1, <2>1, <2>5, <2>7, <2>8, PlannedPassed
  <1>2. RunInv => EveryAskedCheckPassed
    BY <1>1 DEF EveryAskedCheckPassed
  <1> QED BY <1>2, RunInvariant, PTL

\* The fixed summary is printed only when all it speaks of was passed.
THEOREM FinalSummaryAlways == Spec => []FinalSummaryOnlyAfterEverything
  <1>1. ASSUME RunInv, pc = "final", NEW flag \in FullPlan(cfg.policyPath)
        PROVE  Passed(flag)
    <2>1. pc \in Well
      BY <1>1 DEF Well
    <2>2. req.checks = <<>> /\ req.policyPath = cfg.policyPath
      BY <1>1, <2>1 DEF RunInv, RequestInv, DecidedInv
    <2>3. flag \in PlannedFlags(req)
      BY <1>1, <2>2, DefaultIsPlanned
    <2>4. flag = "pckChain" \/ flag \in Check
      BY <1>1 DEF FullPlan, Flag, Check
    <2> QED BY <1>1, <2>1, <2>3, <2>4, PlannedPassed
  <1>2. RunInv => FinalSummaryOnlyAfterEverything
    BY <1>1 DEF FinalSummaryOnlyAfterEverything
  <1> QED BY <1>2, RunInvariant, PTL

\* No root, no signing key and no document makes a full verification of a
\* quote without the Intel extension pass.
THEOREM SyntheticNeverPasses == Spec => []SyntheticNeverPassesInFull
  <1>1. ASSUME RunInv, pc \in {"final", "selected"}, "tcbInfo" \in PlannedFlags(req)
        PROVE  PCKLeaf([quote |-> quote]).fmspc # Blank
    <2>1. pc \in Well
      BY <1>1 DEF Well
    <2>2. req.quote = quote /\ Promised
      BY <1>1, <2>1 DEF RunInv, RequestInv, DecidedInv
    <2>3. Verifier!Justified("tcbInfo")
      BY <1>1, <2>2 DEF Promised, Check
    <2>4. PICK docs : Verified("tcbInfo", docs, req)
      BY <2>3 DEF Verifier!Justified
    <2>5. TakesPlatform(PCKLeaf(req), req.quote, docs[1].body)
      BY <2>4 DEF Verified, VerifyTCBInfo
    <2>6. PCKLeaf(req).fmspc # Blank
      BY <2>5 DEF TakesPlatform
    <2> QED BY <2>2, <2>6 DEF PCKLeaf
  <1>2. RunInv => SyntheticNeverPassesInFull
    BY <1>1 DEF SyntheticNeverPassesInFull, IsSynthetic
  <1> QED BY <1>2, RunInvariant, PTL

\* The output guide (docs/output-guide.md:133) takes the block "Verified:" for
\* what was guaranteed.  It is, unless -ignore-freshness was given: then each
\* list and document it speaks of was within its dates (app.go:98).
GuaranteedUnlessRelaxed == cfg.ignoreFreshness = FALSE => FinalSummaryIsGuaranteed

THEOREM FinalSummaryTrueUnlessRelaxed == Spec => []GuaranteedUnlessRelaxed
  <1>1. ASSUME RunInv, pc = "final", cfg.ignoreFreshness = FALSE,
               NEW check \in {"pckCRL", "rootCRL", "tcbInfo", "qeIdentity"}
        PROVE  WithFreshness!Justified(check)
    <2>1. pc \in Well
      BY <1>1 DEF Well
    <2>2. PICK root :
              req = [checks |-> cfg.checks, policyPath |-> cfg.policyPath, root |-> root,
                     quote |-> quote, source |-> cfg.source, bundle |-> NoBundle,
                     time |-> cfg.time, ignoreFreshness |-> cfg.ignoreFreshness]
      BY <1>1, <2>1 DEF RunInv, RequestInv
    <2>3. [req EXCEPT !.ignoreFreshness = FALSE] = req
      <3>1. req = [f \in DOMAIN req |-> req[f]]
        BY <2>2
      <3>2. "ignoreFreshness" \in DOMAIN req /\ req["ignoreFreshness"] = FALSE
        BY <1>1, <2>2
      <3>3. \A f \in DOMAIN req :
                [req EXCEPT !.ignoreFreshness = FALSE][f] = req[f]
        BY <3>1, <3>2
      <3> QED BY <3>1, <3>3
    <2>4. req.checks = <<>>
      BY <1>1, <2>1, <2>2 DEF RunInv, DecidedInv
    <2>5. check \in PlannedFlags(req) /\ check \in Check
      <3>1. check \in FullPlan(req.policyPath) /\ check \in Check
        BY DEF FullPlan, Flag, Check
      <3> QED BY <2>4, <3>1, DefaultIsPlanned
    <2>6. Verifier!Justified(check)
      BY <1>1, <2>1, <2>5 DEF RunInv, DecidedInv, Promised
    <2> QED BY <2>3, <2>6 DEF Verifier!Justified, WithFreshness!Justified,
                              Verifier!Obtainable, WithFreshness!Obtainable
  <1>2. RunInv => GuaranteedUnlessRelaxed
    BY <1>1 DEF GuaranteedUnlessRelaxed, FinalSummaryIsGuaranteed
  <1> QED BY <1>2, RunInvariant, PTL
=============================================================================
