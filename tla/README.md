# A TLA+ verification of intel-tdx-attestation

The program verifies a TDX or SGX quote: it checks that the quote was signed
by hardware whose certificate chain ends in a root the caller trusts, and that
Intel's signed collateral (revocation lists, TCB Info, QE Identity) agrees. It
also makes test quotes under test roots. This directory models both, the
decision as a state machine next to a world that changes while it is being
made and the commands as processes on one file system, checks them with TLC on
small instances and proves their main properties with TLAPS for every instance.

Source paths below are relative to `src/internal/tdxattest/` unless they start
with another directory.

## The system

| Part | Source | State | Operations | Correct when |
|---|---|---|---|---|
| Check plan | `verifier.go:59-67, 240-308` | seven flags of a `verificationPlan` | a loop over the `-check` values | the plan is what the values stand for, in any order; unsupported values refuse |
| Verifier pipeline | `verifier.go:73-186` | the result's list of checks, the collateral in use | arguments, plan, evidence, fetch, six checks in a fixed order | accepts only with every planned check passed on documents it really read; reports exactly the plan |
| PCS client | `pcs.go` | the parts of a bundle gathered so far | four GETs, one after the other, no retry, 20 s timeout each | all or nothing; each document with the chain that signs it; the list of the CA that was named |
| Certificates and lists | `certs.go`, `crl.go` | none | chain building, CRL signature, freshness, revocation | only the caller's root is trusted; a revoked certificate is refused |
| Signed documents | `collateral.go` | none | signature under the root, freshness, ASN.1 search for FMSPC, PCEID and SVNs, TDX module, TCB level, QE report | every accepted document is signed, unrevoked, current and about this platform; the searches find what the certificate holds |
| Quote signatures | `quote_verify.go` | none | QE report signature, AK binding, quote signature | the three links hold together |
| Measurement policy | `tdx.go` | none | parse measurements, load and compare a policy | every measurement the policy names is equal |
| Quote parser | `quote.go` | none | split bytes into header, body, signature data | finds one layout, never reads outside |
| Synthetic quotes | `synthetic_quote.go`, `synthetic_cli.go` | files on disk | generate root, generate quote, verify | a success leaves files that belong together; whatever is left behind, a quote verifies only with the certificates of its own making, while they live |
| Front end | `app.go`, `src/cmd/tdx-attest` | configuration | options, reading quote and root, one of two summaries | a run that ends well has passed every check it was asked for, and its summary says no more |
| Go API | `src/pkg/tdxattest` | none | wrappers around the synthetic functions | |

How they interact: the front end reads the quote and the root once and calls
`VerifyQuoteWithCollateral`. This is one goroutine: it resolves the plan, has
the parser and the certificate code produce the evidence, possibly calls the
PCS client (blocking), and then calls one check after the other. Checks get
their documents from a bundle (the caller's or the fetched one) or read them
from files, one `os.ReadFile` at a time. There are no callbacks and no shared
memory; what is shared is the file system and the Intel service.

What is hard here:

- *Interleaving with the world.* A run with local files reads the Root CA list
  up to three times, and each signed document apart from its signing chain;
  another process may refresh the collateral in between. A run with the PCS
  sends four requests; the service may publish in between.
- *Failure.* A GET fails or times out after others succeeded; a file is missing.
- *Crash.* The synthetic commands write two or three files one after the other,
  truncating each before they fill it: a failed write or a kill leaves a torn
  file, or files of two generations side by side, and the next command reads them.
- *Order.* The plan depends on the order of `-check` values; the first TCB
  level that is met decides; the ASN.1 search takes what follows an OID; the chain must
  be verified before anything it names is fetched; `pckChain[1]` is taken to
  be the issuer although the chain is verified as an unordered pool.
- *Time.* The verification time is fixed early, is compared by two different
  clocks' rules (`crypto/x509` reads a zero time as now, the freshness checks
  as year 1), and all bounds are inclusive.

## Modules

| Module | Models | Correspondence |
|---|---|---|
| `PlanFlags` | the check names and flags, and as a reference the plan of a whole request | `Asks`, `FullPlan`, `WithChain` are the cases of the switch; `PlannedFlags` is a definition without a loop |
| `CheckPlan` | `resolveVerificationPlan` | `req, next, plan, resolution`; one action per branch: `ResolveDefault`, `SkipBlank`, `ResolveCheck`, `RejectCheck`, `ResolveDone` |
| `Trust` | `certs.go`, `crl.go`, `quote_verify.go` | predicates: an error is returned exactly when the predicate is false |
| `Collateral` | `collateral.go`, the policy of `tdx.go` | predicates `VerifyTCBInfo`, `VerifyQEIdentity`, `VerifyTDXPolicy` and their parts |
| `Checks` | what each check reads and decides | `Documents` gives the reads of a check in order, `Verified` its decision |
| `PcsFetch` | `FetchCollateral` and the service | `fetch` is the request it is at; `Get`, `GetFails`, `BeginFetch`; `Publish` is the service |
| `Verifier` | `VerifyQuoteWithCollateral`, composing the above, and the files | `pc` is the place in the pipeline, `held` the documents the current check has read; `ReadFile` is one `os.ReadFile`, `TakeFromBundle` the bundle branch, `Decide` the check itself; `ReplaceFile` and `PCSPublish` are the world |
| `PlatformTcb` | how `verifyTCBInfoCollateralBytes` reads a platform off its PCK certificate and goes through the levels | `pc` is what is looked up next; `CheckFMSPC`, `CheckPCEID`, `CheckModule`, `ReadComponent` and `ReadPCESVN` are the early returns in order, `TryLevel` one round of the loop; `Named`, `ValueOf` are `findASN1ValueByOID` |
| `Attestation` | the abstract specification | the world offers documents; the verifier accepts or refuses once, accepting only when every planned check passes on documents that were on offer, refusing only when the request is no good, a planned check does not pass on some of them, or a fetch failed (`lost`) |
| `QuoteParser` | `parseQuote`, and the layout `encodeSyntheticSignatureData` writes | `pc` is the function the parser is in, `lo` and `hi` the slice it works on, `seen` the integers read so far; one action per function, `InferReportBodySize` once for each body size |
| `SyntheticFiles` | the commands of `synthetic_cli.go` on shared files | per process `pc`, its command line `cmd`, what it has `read`, its `outputs` and how many are `done`; one action per `os.ReadFile`, two per `os.WriteFile` (`Open` truncates, `Fill` writes); `Stop` is a write that fails or a process that dies; `Tick` is time |
| `FrontEnd` | one run of `tdx-attest verify`: `cli.go`, `RunVerify` | `options` are taken one by one into `cfg` (`TakeOption`, `RefuseOption`, `PreRun`), then `ReadQuote`, `ReadRoot`, the abstract verifier, `Summarise`; `Offer` is the world |
| `MCCheckPlan`, `MCVerifier`, `MCQuoteParser`, `MCPlatformTcb`, `MCSyntheticFiles`, `MCFrontEnd` | instances for TLC | |
| `CheckPlan_proofs`, `PcsFetch_proofs`, `Verifier_proofs`, `Acceptance_proofs`, `QuoteParser_proofs`, `PlatformTcb_proofs`, `SyntheticFiles_proofs`, `FrontEnd_proofs` | theorems | |

How they are composed: `Verifier` extends `CheckPlan`, `PcsFetch` and `Checks`,
which extends `Trust` and `Collateral`; it implements `Attestation`
(`ImplementsAttestation`). `FrontEnd` instantiates `Attestation`, so what is
proved of it holds for every verifier that keeps that promise, and `Verifier`
is proved to be one. `PlatformTcb` extends `Collateral` and is shown to decide
as the `TakesPlatform` that `Verifier` uses. `SyntheticFiles` uses the trust
predicates of `Checks` for the verification that reads its files back.

Two variables of `Verifier` are history: `used` keeps the documents each passed
check was decided on, `available` everything each document could have been
read as so far from where the request has it read: its file, the caller's
bundle, or what the PCS gave. No action's guard reads them.

Abstractions. Certificates, lists and documents are records with the fields
the code looks at; a signature is the key that made it; anything a parser
refuses is a blob of kind `garbage`. The parsed quote is part of the request.
`-check` and `-collateral-source` values are taken after the code's trim and
lower-case. `crypto/x509` is external: a path of valid CA certificates from
the leaf through the pool to the root (no name constraints, no path length,
no key usages: the code asks for any usage). A failed request has one
outcome whatever its cause, because the code treats all causes alike.
Printing and error texts are left out.

In `PlatformTcb` an ASN.1 value is the sequence of its elements in the order
they are written, each with its depth, tag, value and size: this is what the
recursive search sees. Only well-formed DER is covered; the code searches no further inside an
element whose children cannot be parsed, as inside one that has none. An octet string that
cannot be unwrapped is read header included, as in the code: an empty one as a
PCEID gives two bytes, the size of a PCEID, and passes for one.

In `SyntheticFiles` a key is named by the command that made it and a file holds
a key, a certificate, a quote, a chain, nothing, or a torn content that no
parser accepts. `parseOneCert` takes the first PEM block it finds, so a chain
file stands for its leaf and a quote file for the intermediate inside it. A
read sees a file at one moment; of two writers of a file the last one wins.
Time passes only while no command runs. The verification is `verify -check
quote-crypto`, which reads, decides and returns as `RunVerifySynthetic` does
(no command in `cli.go` calls the latter).

In `FrontEnd` options are already split, trimmed and in lower case; quote and
root files do not change during a run (each is read once), the documents do.
`-check ""` adds no value and asks for everything; a list of blank values is not empty
and asks for nothing but the chain.

The parser sees a quote as its length and the integers it reads from it. An
integer the builder of the quote wrote has the value written; any other is
chosen when it is first read and kept. So one state graph covers all bytes
that matter. No two words of one run overlap, with one exception: an SGX quote
that is taken for a TDX one has its words read across those that were
written, and these are then chosen freely, which allows more than the bytes
do. A Go `int` is taken to be wider than 32 bits, as it is on the platforms
with TDX; with 32 bits `int(uint32)` could be negative. `LengthsFit` keeps the
built lengths within the words they are written to.

## Runs

| Run | Question | Expected |
|---|---|---|
| `check_plan` | Does the loop compute the plan its values stand for? | pass |
| `verifier_files` | Is the verdict right when files are replaced between reads? | pass |
| `verifier_bundles` | Is it right with a caller's bundle, and with a PCS that publishes and fails? | pass |
| `quote_parser` | Do the pieces of a quote nest whatever its lengths are, and is what was written read back? | pass |
| `platform_tcb` | Do searches and loops take exactly the platforms the signed document promises to take? | pass |
| `synthetic_files` | What do failed, killed and interleaved commands leave, and what of it verifies? | pass |
| `front_end` | What does a run that ends well stand for, whatever its command line? | pass |
| `sgx_body` | Does the parser tell an SGX body from a TDX body, as its comment says? | violated |
| `check_plan_adds` | Does every `-check` value add to the plan, as the README says? | violated |
| `tcb_level` | Does line `[7]` mean that a TCB level was matched, as the output guide says? | violated |
| `final_summary` | Does the block `Verified:` list only what was guaranteed, as the output guide says? | violated |

What the passing runs show:

- `PlanIsPlannedFlags`, `RefusedIffUnsupported`: for every list of up to three
  values. Three are enough to put a policy check before, between and after
  umbrella values; the theorem is for every length.
- `ImplementsAttestation`: each acceptance is justified, the report is the
  plan, each refusal has a reason, and no document counts that comes from another
  source than the request names, with one file replaced at any moment, or one
  publication.
- `ExactWhenUndisturbed`: if nothing that a planned check reads changes
  meanwhile, acceptance is equivalent to every planned check passing. This
  excludes spurious refusals as well. Files that no planned check reads may change.
- `NoRevokedCertificateOnPath`: the code asks about the first two certificates
  of a chain that may come in any order and length. With both CRL checks, an
  accepted leaf is on no list of its issuer, and no certificate of the chain that
  issued it is on the root's list. When the second certificate did not issue the
  leaf, this holds of a list made by the CA that did: it is refused, as
  `CRLSignedBy` fails. A list made by the second certificate itself is then taken
  for the leaf, and says nothing of its own CA. Certificates further up in
  a longer chain are asked of no list: the code looks at no other than the second.
- `ValidAtOneInstant`: everything accepted was valid at the one verification
  time, and a run with a zero time accepts no list at all.
- `OneRootListClearsAll`: a bundle, or files whose Root CA list nobody replaces,
  are judged by one Root CA list, though it is read up to three times.
- `BundleOnlyWhenComplete`, `BundleNotTorn`, `BundleForAskedCA`: the fetch.
- `ChainBeforeCollateral`: no read or request before the chain is verified.
- `EveryStepIsProgress`: every step of the pipeline lowers `Left`, a bound on
  the steps that remain, and the world never raises it: no check reads or asks again, and nothing is
  retried. Each check has its own reads, so the Root CA list may be read three times.
- `Terminates`: every run ends.
- `SlicesNested`: each piece lies in the piece it was cut from. A Go slice of a
  slice may reach to the end of the array, so the code's comparisons are all
  that ensures it.
- `SecondOrderNeverParses`: report and signature are as long together in either
  order, so the second attempt reads the same words and fails as the first.
  `signature_then_report` is dead: a quote with its signature first is parsed
  as `report_then_signature` and left to the signature checks.
- `ReadsWhatWasWritten`: a quote in the TDX layout is always read as it was
  built, an SGX quote unless bytes of its QE report look like a length or a type.
- `SearchesFindWhatIsHeld`: whatever the order of its entries, and with OIDs
  among its values, a certificate yields what it was built from.
- `ImplementsTakesPlatform`: one lookup after the other, with every early
  return, and level by level, a platform is taken exactly when `TakesPlatform` says so.
- `AcceptedOnWrittenValues`: whatever the certificate looks like, what it is accepted
  on stands in it as octet strings of the right size and as integers, each at
  its OID. The code keeps the header of what it cannot unwrap and then looks at the
  length alone, so a shorter element is as long as a value; it passes only for a
  document that names these very bytes, which the property excludes.
- `UpgradeNeverRefused`: a newer platform may be matched to another level than
  an older one, but in a list that puts acceptable levels first it still passes.
  With other lists it need not: the first level met decides, as
  `ImplementsTakesPlatform` has it.
- `VerdictByGeneration`: of all mixtures of files that crashes and races leave, a
  verification accepts exactly a quote with a certificate of its own
  generation, at a time at which its certificates (and the root, if that is
  the one) live. A quote made under an expired root never verifies under it.
- `QuotesUnderTheRootGiven`: though key and root are read one after the other
  while other commands replace them, no quote is issued under another key than
  the one of the root certificate that was read.
- `CrashLeavesPrefix`: of a command that ran alone and stopped, the outputs up
  to a point are new, one is old or torn, and nothing else was touched.
- `SuccessLeavesMatchingFiles`: success leaves files that belong together,
  whatever was there before.
- `EveryAskedCheckPassed`: however `-check` options are spread and repeated,
  every check asked for was passed and reported, under the last policy path.
- `FinalSummaryOnlyAfterEverything`: the fixed list is chosen by the options, yet is
  printed only after the full plan.
- `SyntheticNeverPassesInFull`: a quote without the Intel extension, as the
  synthetic ones are, passes no run that includes `tcbinfo`.

Bounds. `MCVerifier` has one trusted root and one foreign one, one PCK CA and
one below it, times 1 to 9 with verification at 0, 5, 7 or 9 and expiry at 6 and
8, for each document a good version and versions each of which one clause of
one check must refuse. `MaxEdits = 1` with any single file different at the
start already gives mixtures of two generations within one check and between
checks; `MaxPublications = 1` with any single endpoint different at the start
gives a publication between any two requests. `MaxChecks = 3`. Larger edit
counts add no new kind of mixture, because every check reads each of its
documents once; the proofs have no such bound.

`MCQuoteParser` uses the real sizes. Built quotes have both lengths zero and
small; raw quotes are one byte too short and just long enough for each layout,
and words take the values at each comparison's boundary and one far beyond.

`MCPlatformTcb` has two components instead of sixteen, which is enough for a
level that lists fewer, as many and more, and SVNs up to `MaxSVN = 3`, one more
than any that occurs, for the upgrades. Certificates come in three orders of
their entries, with decoys, with parts missing, of the wrong size or tag, with or
without the two bytes of a header to make up for it, and with extensions before and
after the root one.

`MCSyntheticFiles` has two processes and four files, which start empty, with
files that belong together, with a key whose certificate was not written or
only begun, or with a foreign root. `MaxCommands = 2` together with these
starts gives every pair of commands run at once or after another, on what any
earlier command can leave; the commands include the documentation's, and ones
that name one file twice. Lives are one, two and three ticks and the clock
shows four times, so that leaf, intermediate and root expire one after the
other, and a quote can be made under a root that expires before it.
Processes are symmetric: nothing in the module tells them apart.

`MCFrontEnd` has an Intel and a synthetic hierarchy with a document each, any
two options in either order and the longer lines of the documentation, and
`MaxOffers = 1` document that changes at any time. The verifier reads what is
available when it decides, so more changes only add to what one has covered.

`CHECK_DEADLOCK FALSE`: a verification (or a parse, or a list of commands) ends, and the system with it.

Fairness. `WF_vars(VerifierStep)`: the verifier is one goroutine that waits for
nothing but a GET, and `http.Client.Timeout` (`pcs.go:46`) turns a GET that
hangs into a failure. A GET in the model may always fail, so a `Fetch` step is
always enabled. Nothing is assumed of other processes or the service.
`SyntheticFiles`, `PlatformTcb`, `QuoteParser` and `FrontEnd` state no fairness
and no liveness: a command may be killed at any step, and the loops are over
finite sequences.

## Findings

1. `check_plan_adds`: `all` and `intel-full` assign the policy flag
   (`verifier.go:267`), so `-check tdx-policy,all` without a policy path runs
   without the policy check, and `-check all,tdx-policy` refuses.
   `README.md:82` says the values add checks.
2. `tcb_level`: an SGX quote, or TCB Info without levels, passes without a level
   match (`collateral.go:185`), while `docs/output-guide.md:106-112` says that
   the line means a level was matched.
3. `sgx_body`: an SGX quote whose bytes at offset 632, inside its QE report, are
   a plausible length is taken for a TDX quote (`quote.go:123`); the comment at
   `quote.go:120-121` says the two are told apart, but version and TEE type of
   the header are not looked at.
4. `final_summary`: with `-ignore-freshness` the fixed list still names freshness
   and dates (`app.go:98`, `122`, `129`), while `docs/output-guide.md:133` says
   that the block lists what was really guaranteed.

## Proofs

`tlapm` proves every theorem for all values of the constants, in particular for
lists of checks of any length, any number of edits and publications, any files,
documents and services. The assumptions are those the modules name:
`RequestAssumption`, `PcsAssumption`, `WallClockAssumption`,
`VerifierAssumption`, `ParserAssumption`, `PlatformAssumption`,
`DocumentAssumption`, `CertificateAssumption`, `CommandAssumption`,
`FilesAssumption`, `HistoryAssumption`, `LifeAssumption` and
`FrontEndAssumption` give constants
their types; `LayoutAssumption` says how a PCK certificate is written: entries of an
OID and a value, at any depth and in any order, no name and no extension
twice, an OID that names nothing last in what it is part of (as in a `SEQUENCE` of
one OID), FMSPC and PCEID octet strings that are not empty. It says what the entries
hold and nothing of how they are searched. `LengthsFit` says that lengths fit their words, `AbsenceAssumption`
that what is not there parses as nothing, and `DatesAssumption` that no list is
dated at the zero time. `LifeAssumption` also orders the lives of certificates
as the code does. `FilesAssumption` and `HistoryAssumption` start with files that
these commands made, or with certificates of somebody else whose keys are not at
hand; the second is used for `VerdictByGeneration` alone. TLC evaluates all of them in the runs.

- `CheckPlan_proofs`: `PlanTypeCorrect`, `PlanCorrect`, `RefusalCorrect`,
  `OnlyThePolicyIsTakenBack`. The
  invariant `PlanInv` says of the values already looked at what `PlannedFlags`
  says of all of them: the plan is what they ask for, without the policy flag
  unless there is a path or a `tdx-policy` after the last umbrella value. The
  property alone is not inductive, since it says nothing while the loop runs.
- `PcsFetch_proofs`: lemmas about `FetchInv`, which says for each stage which
  parts have arrived and that each pair of document and chain is from one reply
  the endpoint may give. They are proved for the client alone and used below.
- `Verifier_proofs`: `VerifierInv` is `PlanInv /\ FetchInv` with `ControlInv`
  (where the pipeline is determines what was decided before), `WorldInv` (the
  history of the world covers the files, the caller's bundle and the fetched
  one), `DocumentInv` (held and used documents were available, and a
  passed check verified the ones it used) and `ReportInv` (the report is that of the
  part of the plan already run). From it follow `VerifierTypeCorrect`,
  `FetchAllOrNothing`, `FetchNotTorn`, `FetchOfAskedCA`, `ChainComesFirst` and
  `KeepsPromise`: every step of `Verifier` is a step of `Attestation` or leaves
  its variables alone. For this, each way to refuse is traced to a `Reason`
  (`RefusedInv`), which a bundle with a missing part and a policy without a path
  give too. `ProgressAlways` needs `LeftInv`, what `Left` is at each place; it is
  the safety half of `Terminates`.
- `QuoteParser_proofs`: `ParserTypeCorrect`, `SlicesAreNested`, `OneOrderOnly`,
  `RoundTrip`, for all sizes and all values. `ParserInv` adds to the types
  `ParserControl` (what has been read and compared to get to a place),
  `WordsInside`, `OrderInv` (in the second attempt, the words at which the first
  one failed have been read and stay), `ContentsInv` (a written word is read
  with its value) and `ReadingInv` (how far a readable quote has been read
  rightly). None of the properties is inductive alone, as each is about the end
  of a parse. Words that have been read never change, so what was true of them
  stays true (`ReadingKeeps`, `FailureStands`).
- `Acceptance_proofs`: `NoRevokedCertificateAlways`, `OneRootListAlways`,
  `ValidAtOneInstantAlways`, `ExactAlways` and `LevelMatchedAlways`. All but the
  fourth follow from what `VerifierInv` says of the documents each passed check was
  decided on; documents read at different moments are the same where
  only one was available. `NoRevokedCertificateAlways` needs no order of the chain:
  the list's signature makes the second certificate the issuer. Exactness needs `RefusedInv` as well: a refusal
  was of documents that were available, and in an undisturbed run these are the
  ones that are there. `StandingStillDisturbsNothing` (`SourceInv`: what is
  available is what the source holds, until a file is replaced) says that these
  conditions are met whenever no file is replaced. `TravellersOnlyHelp` and
  `TravellingRootsCountForNothing` are about the certificates that travel with a
  quote or a document: more of them do no harm, and roots among them count for
  nothing. The limits `crypto/x509` sets to a search are not modelled.
- `PlatformTcb_proofs`: `PlatformTypeCorrect`, `SearchesAlwaysFind`,
  `LoopsImplementTakesPlatform`, `AcceptedOnWrittenValuesAlways`,
  `UpgradeNeverRefusedAlways`, for any number of components, certificates of any
  size and levels of any length. `SearchesAlwaysFind` rests on one fact about the
  layout: the places where the search takes an OID for a name are exactly the
  entries (`NamedIsEntry`), so the first of them is the only one. `DecisionInv` is
  what each early return leaves to those after it (`ReadInv`, with no level met so
  far), and why a decision was taken (`AcceptInv`, `RefuseInv`).
  `AcceptedOnWrittenValuesAlways` assumes nothing of the layout: what a search comes
  back with stands beside its OID (`ValueIsBeside`), and what is left after
  unwrapping and the test of its size is an octet string's (`TakenFromOctets`). `NewerEnclaveNeverRefused` says of the quoting
  enclave's levels what `UpgradeNeverRefusedAlways` says of the platform's.
- `SyntheticFiles_proofs`: `SyntheticTypeCorrect`,
  `QuotesUnderTheRootGivenAlways`, `CrashLeavesPrefixAlways`,
  `SuccessLeavesMatchingFilesAlways` and `VerdictByGenerationAlways`, for any
  number of processes, files and commands. `TypeInv` ties each process's place to what it has read.
  `GenerationInv` adds the quotes still to be written to those on
  disk, `PrefixInv` says where the process that runs alone is in its outputs,
  and `MatchInv` what these outputs were made from, which the files alone no
  longer tell. For `VerdictByGeneration`, `MadeInv` says that everything on disk,
  read or to be written was made by some generation or has a foreign key, and
  `JudgedInv` that the time of a verification and the root it reads stay until
  the verdict. `MadeVerdict` then compares the path search of the chain check with
  `Vouches` for each kind of certificate that may have been read as the root.
- `FrontEnd_proofs`: `FrontEndTypeCorrect`, `EveryAskedCheckPassedAlways`,
  `FinalSummaryAlways`, `FinalSummaryTrueUnlessRelaxed`, `SyntheticNeverPasses`, for any command line and any
  documents. `RunInv` says that the configuration holds every check of the
  options taken so far (`AskInv`), that the request is the configuration
  (`RequestInv`), and that a run past the verifier has what an accepting one
  promises (`DecidedInv`).

Three findings have their scope proved, that is, how much of what the
documentation says does hold: `OnlyThePolicyIsTakenBack` (only a policy check
without a path is ever taken back), `LevelMatchedAlways` (a level was matched for
every TDX quote and document with levels) and `FinalSummaryTrueUnlessRelaxed` (the list is true
without `-ignore-freshness`). For `sgx_body`, `RoundTrip` says which SGX quotes are read
as they were built.

Only model-checked: `Terminates`, as liveness under fairness is out of the
prover's reach. `ProgressAlways` proves that every step of the pipeline lowers a
bound in `Nat`; what TLC adds is that a pipeline that has not ended can take a step.
`PlatformTcb`, `QuoteParser`, `SyntheticFiles` and `FrontEnd` state no liveness: it is
proved that what they come to is right, not that they come to it.

## Plan

Done: `PlanFlags`, `CheckPlan`, `Trust`, `Collateral`, `Checks`, `PcsFetch`,
`Verifier`, `Attestation`, `QuoteParser`, then `SyntheticFiles`, `PlatformTcb`,
`FrontEnd` and `Acceptance_proofs`, in this order, with their runs and proofs.

Left: the loop over QE levels (`checkQETCBLevel`) as steps, like `TryLevel`; at
present it is the definition `CheckQETCBLevel`.

## Not modelled

- JSON, hex and PEM decoding, malformed DER: pure functions of one input, which
  here parses or does not. Which PEM block `parseOneCert` takes is modelled.
- Elliptic curve arithmetic and hashes: a signature is the key that made it.
- The offsets of the measurements in a TD report (`tdx.go:11-27`): straight-line
  slicing without state.
- How arguments are split into options (cobra, and
  `normalizeLegacyLongFlags`, `cli.go:157-167`) and required flags: this is
  about characters of arguments, and `FrontEnd` starts after it.
- Printing, apart from which summary is chosen.
- The Go API: wrappers without state around functions that are modelled.
