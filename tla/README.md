# Property Intelligence: verification project

TLA+ models of the parts of Property Intelligence in which several handlers,
function instances or external services act on the same documents, with TLC
runs on small instances and TLAPS proofs for every value of the constants.
Paths are relative to the repository checkout (`src/`), so the program's own
code is under `src/src/`.

## 1. The system

Property Intelligence is a multi-tenant workspace for real-estate analysts. In
production it is a set of Netlify functions (any number of instances, each of
which may be reclaimed at any time) in front of Firestore, Firebase Storage and
two outside services: RentCast, which sells property data by the request, and
Stripe, which sells analysis credits to customer organizations. An HTTP handler
is an asynchronous function; it interleaves with every other handler at every
`await`. Firestore transactions are serializable; everything longer than one
transaction is not atomic.

| Component | State | Operations | Hard behaviour | What makes it correct |
|---|---|---|---|---|
| Credit ledger (`commercial/firestore-commercial-repository.js`, `commercial-service.js`) | balance, ledger entries, de-duplication documents, reservations, entitlements, Stripe transactions | grant, reserve, consume, release, Stripe purchase / refund / dispute | redelivered and reordered events, handler lost between two writes, concurrent reservations, negative balance | credits conserved; one entry per source; one charge per property; events applied in the end |
| Provider research (`investment-workspace/firestore-production-research.js`) | approvals, leases, request records, usage counters | quote, research | duplicate submissions, lease expiry, lost instance, failing writes, minute limit | approvals one-use; leases exclusive; calls recorded; started approvals concluded |
| RentCast client and cache (`sources/rentcast/research-client-v2-3b.js`) | immutable responses, cache index, per-instance call counter | get | errors and timeouts, wrong matches, cache shared by instances | cached responses are immutable; nothing is stored for an error |
| Retained evidence (`firestore-retained-evidence.js`) | immutable snapshots | persist, find, get | concurrent snapshots | snapshots rest on responses |
| Paid research route (`auth/netlify-auth.js:219-225`) | none; uses the two services | reserve, research, consume or release | a reservation shared by duplicate submissions, exceptions, loss | usable research is paid, unusable research is not |
| Members, invitations, checklist (`commercial-service.js`) | documents | role and status changes, invitations, checklist versions | last-administrator check, acceptance against revocation | not modelled |
| Investor CRM (`investor-crm/investor-service.js`) | investors, campaigns, recipients, access links | import, merge, dispatch, transition, respond, unsubscribe, revoke | no transactions: documents read before and written after a delivery call; loss in the middle of a dispatch | recorded deliveries happened; failed ones leave no open link; revoked links stay revoked; opt-outs are kept |
| Durable properties and scenarios (`investment-workspace/durable-properties.js`, the investment routes of `auth/netlify-auth.js`) | properties, immutable revisions, report links | promote, archive, restore, save, remove, link report | two saves of one revision; archiving and removal between the checks and the write; throws between any two awaits | no lost update; acknowledged saves are stored; linked reports have their revision |
| Investment workspace in the browser (`apps/web/src/features/investment-workspace/Workspace.jsx`) | drafts, active scenario, calculated preview, report preview and PDF of each tab; local storage shared by tabs | edit, new, choose, save, save and preview, report, reload | edits while a request is under way, late and lost answers, two tabs on one scenario | what is shown as saved is stored; analyses and reports belong to what they show |
| Supporting documents (`investment-workspace/supporting-documents.js`, `firebase-supporting-documents.js`) | records, versions, hash reservations, private objects | upload, new version, metadata update, selection for reports | object stored before the record, two-step reads, clean-up after a failure | versions and objects correspond; every content once; an approval is not inherited |
| Report library (`commercial-service.js:72-75`) | report files, manifests, grants, links | finalize, grant, revoke, remove | removal in several writes, repeated after a failure, racing with registration and grants | a removed report leaves no access |
| Photos, malware scanner | images, verdicts | upload, derive, scan | gallery limit | not modelled |
| Address validation | validation records, tokens | validate, confirm, consume | token consumed before the quote succeeds | not modelled |
| Report generation (`auth/netlify-auth.js:252-286`) | `pdfBusy`, in-flight set (per instance) | preview, PDF | guard shared by the requests of an instance, several exits | the guard does not outlive its request |
| Monitoring | events, observations | process | repeated processing | not modelled |
| Authentication, underwriting, Monte Carlo, screening, sources, reports layout, UI, scripts, local PostgreSQL deployment | – | – | sequential or numerical | not modelled, see section 8 |

Interactions: the paid route calls the research service for the credit key, the
commercial service for the reservation, the research service again, and the
commercial service to settle. The research service calls the RentCast client
(which reads and writes the shared cache) and the retained-evidence service.
Stripe calls the webhook, which calls the commercial service only. Campaigns use
the e-mail provider and share nothing with research but the reports they link to.
The workspace saves revisions of a property and asks for reports of them; the
report route reads the revision, takes the approved supporting documents, links
the report to the property and, if it is finalized, registers it in the library.
All of it
meets in the documents of one organization.

`PROJECT.json` lists every component and, under `hazards`, each behaviour that
is hard to test at the line where it bites.

## 2. Modules

| Module | Role |
|---|---|
| `CreditAccount` | abstract specification: an account into which each source moves its worth once, which only what is taken back may overdraw, and whose credits are held by requests and then spent on a property or given back |
| `CreditLedger` | the credit documents, one action per Firestore transaction, and the Stripe webhook |
| `CreditLedger_proofs` | theorems about `CreditLedger` |
| `ProviderResearch` | quotes, leases, `research()` with the RentCast client, cache and evidence |
| `PaidResearch` | the paid route: extends `ProviderResearch`, instantiates `CreditLedger` |
| `ProviderResearch_proofs`, `PaidResearch_proofs` | theorems about research, and about its composition with the ledger |
| `InvestorCampaign` | one deal campaign: dispatch, public links, profile and pipeline edits |
| `InvestorCampaign_proofs` | theorems about `InvestorCampaign` |
| `ScenarioStore` | durable properties, revisions, report links and the PDF guard: the server's side of the workspace |
| `AnalysisWorkspace` | the browser tabs on top of `ScenarioStore` |
| `AnalysisWorkspace_types`, `_saves`, `_reports` | theorems about `AnalysisWorkspace` and `ScenarioStore` |
| `SupportingDocuments` | uploads, versions, rights and private files |
| `ReportLibrary` | full reports with their documents, registration, grants and removal; extends `SupportingDocuments` |
| `ReportLibrary_proofs` | theorems about `ReportLibrary` and `SupportingDocuments` |
| `MCCreditLedger`, `MCProviderResearch`, `MCPaidResearch`, `MCInvestorCampaign`, `MCAnalysisWorkspace`, `MCReportLibrary` | instances for TLC |

Operators that begin with the comment `Mutant:` are the code with one plausible
mistake in it. Nothing refers to them; each is the evidence that the property
named in `PROJECT.json` under `mutants` would notice the mistake.

### CreditLedger

| Code | Model |
|---|---|
| `creditEntry` (repository:13) | `CreditEntry(s, n, compensating)`: an earlier entry of the source is returned unchanged, a negative result is refused unless compensating |
| `reserveCredit` (repository:14) | `NewReservation(r, p)`; the branches that return an unlocked property or an earlier reservation change nothing (they are separate branches in `PaidResearch`) |
| `completeReservation` (repository:15) | `ConsumeReservation(r)`, `ReleaseReservation(r)`; consuming aborts if the entitlement exists (`tx.create`) |
| `grantCredits` (service:59) | `GrantCredits(s, n)` |
| `applyStripeEvent` (service:86) | `PostPurchase`, then `RecordPurchase` (two transactions); `ReversePurchase` is one transaction after a read of a document that is never deleted |
| an instance that goes away | `WebhookCrash` |

`credited` is auxiliary: the running total of what came from outside. A payment
has one quantity, because the reversal reads it from the recorded transaction
and the purchase writes it there. Two handlers at work on one event at the same
time are covered: `PostPurchase` and `RecordPurchase` are idempotent, `recording`
is a set, and one handler more would repeat what the first one does. The
organization whose research Workside funds itself reserves nothing, which is
what the `ALREADY_UNLOCKED` branch does to the documents.

### ProviderResearch

`job[h]` is the local state of a handler inside `research()`: its place, the
operations left, the evidence in hand and the result. Each `await` of a document
or of the provider ends an action. `approval`, `lease`/`live`, `request`,
`minute`, `responses`, `cache` and `retained` are the Firestore collections.

| Code | Model |
|---|---|
| `quote` (86), `createApproval` (57) | `Quote`; the reads it makes are merged into one action, so the activity disclosed is that of one moment |
| ten minutes, fifty seconds, a new minute | `ExpireApproval`, `ExpireLease`, `NextMinute` |
| `getApproval` and the activity check (87) | `Call`, `CheckActivity` |
| `acquire` and its release (61) | `Acquire`, `Unlock` |
| `startApproval` (59, 92) | `Start` |
| `perform` (90) and the loop (93–97) | `PerformLocally`, `Reserve`, `RateLimited`, `Complete` |
| the client's `get` (client:25–59) | `AnsweredByCache`, `ClientStops`, `Transmit`, `Receive` |
| `persist` (98), the outcome (99), `catch`/`finally` (100) | `Persist`, `Finish`, `Fail`, `Unlock` |
| a database call that throws | `Fault`, with one branch for each place the exception goes to |
| an instance that goes away | `Lose` |

Abstractions: an address is one of `Properties`; evidence is the set of
operations it contains; a response is good (it matches the address) or bad; an
idempotency key passes the format check or not; the seven-day window of
`recentActivity` does not close within a behaviour; a database call that throws
has not been applied; the client's call limit is a free choice at every call
(`ClientStops`), since the counter lives as long as the instance.

### PaidResearch

`route[h]` is the place of a handler in the route; inside `await` the handler
takes the steps of `ProviderResearch`. The credit documents change by the
actions of `CreditLedger`, instantiated with the approvals as requests
(`requestId: research-<approvalId>`) and without Stripe events. `delivered` is
auxiliary: the approvals answered with a usable analysis. `orphaned` is auxiliary
too: the approvals with a reservation whose request was lost, or ended because
`releaseCredit` itself failed in the catch clause. A throw of
`reserveCredit` or `creditKey` leaves nothing behind and is not an action.

### InvestorCampaign

`profile`, `campaign`, `recipient` and `access` are the Firestore collections;
`outbox` is what the e-mail provider has accepted. `dispatch[d]`, `visit[v]` and
`edit[e]` are the local states of handlers, with the documents as they read them.
None of these operations is a transaction, so each `await` ends an action.

| Code (`investor-service.js`) | Model |
|---|---|
| `createCampaign` (852) | `Init` |
| `dispatch` (949): checks, two reads, `SENDING` | `BeginDispatch`, `ReadRecipients`, `ReadInvestors`, `MarkSending` |
| its loop (985–1065) | `Skip`, `Suppress`, `NewToken`, `SaveAccess`, `Send`, `RecordAccepted`, `NoteActivity`, and for the catch clause `RevokeLink`, `RecordFailed` |
| the final status (1066–1074) | `Close` |
| a throw inside or outside `try`, a lost instance | `FaultAfterSend`, `LoseDispatch`, `LoseVisit` |
| `authorizeToken` (1169), `respond` (1217) | `OpenLink`, `CheckInvestor`, `CountAccess`, `Respond` |
| `unsubscribe` (1267) | `OptOut`, `WithdrawLink` |
| `update` (529), `archive` (610), the `UPDATE` resolution of an import (695) | `ReadProfile`, `SaveProfile` |
| `transition` (1089), `revokeAccess` (1151) | `ReadRecipient`, `Transition`, `RevokeAccess` |

Abstractions: a profile is its status and e-mail permission; recipients are
handled in any order; an expired link is one nobody opens; activities and audit
records are written and not read. The e-mail provider is external: it recognizes
a message by the idempotency key of campaign and investor, may refuse it, and may
accept it while its answer is lost. `auth/firebase-admin.js:71` composes the
service without a provider today, so that `dispatch` answers 503; the model is of
the code with a provider, as the tests compose it.

### ScenarioStore

`call[h]` is the request that handler `h` serves: its operation, its place, what
it was sent and what it has read. `property`, `saved` and `reports` are the
Firestore collections, `pdfBusy` the variable of the function instance.

| Code | Model |
|---|---|
| `preview`, `promote` (durable-properties:58-68) with `create` (repository:26-40) | `FindDuplicates`, `Create` |
| `setArchived` (72) | `Archive`, `Restore` |
| save route (netlify-auth:240-251) | `CheckBaseline` (244-247), `LinkRevision` (durable-properties:73), `StoreRevision` (repository:45-49) |
| `removeScenario` (85-93) | `CheckReports`, `ListRevisions`, `DeleteRevisions` |
| report route (netlify-auth:252-286) | `CheckBusy`, `ReadRevision`, `Render`, `AttachReport`, `ReleaseGuards` |
| an await that throws, a draft that is refused | `Throw` |

`rendering`, `archived`, `removed` and the fields `base` and `raced` are auxiliary.
A property stands for its normalized address. The time of saving is part of the
hash of a revision, so that two saves under one number never have equal hashes.
The set of requests in flight (`inFlightReportRequests`) is left out: it refuses
a repetition of a request at work, which `pdfBusy` refuses as well unless both
have passed its test, and then either of the two goes on in the model.

### AnalysisWorkspace

A step of a tab is an event handler up to its next await, with the effects its
state changes trigger.

| Code (`Workspace.jsx`) | Model |
|---|---|
| state (649-725) | `draft`, `active`, `history`, `shown`, `preview`, `pdf`; `known` is `subjectKind`, `wait` what the handler under way has captured, `asked` the analyses on their way |
| hydration (761-779) | `Clean`, `Hydrated`, `Reload` |
| local storage (819-827) | `local`, written by `Show` |
| `writeSessionRecovery` (draft-recovery:23-30), when the session expires with unsaved changes | `Checkpoint` |
| `scenarioCalculationKey` (workflow:132-134) | `Key`, `CalcKey` |
| the analysis effect (870-913) | `Show`, `Ask`, `Overtaken`, `Analyzed` |
| `update`, `newScenario`, `open`, `chooseScenario` (986-1135) | `Edit`, `NewScenario`, `Choose` |
| `save`, `persistScenario` (1143-1253) | `Save`, `ChooseTarget`, `Promoted`, `Saved`, `AfterSave`, `LatestSaved` |
| `previewReport`, `saveAndPreview`, `generatePdf` (1399-1641) | `AskReport`, `Saved`, `Previewed`, `GotPdf` |
| any other answer, an answer that is lost | `Refused`, `LoseAnswer` |

Abstractions: a content is everything an analyst entered; `Calculation` is the
part of it the calculation key contains, and `Complete` are the contents that can
be analyzed. Risk simulation, the synchronization of risk inputs, the save
reminder, guided progress, evidence fingerprints and the user's refusal in a
dialog (it ends the operation like `Throw`) are left out.

### SupportingDocuments and ReportLibrary

| Code | Model |
|---|---|
| `hydrate` (firebase-supporting-documents:14-22) | two reads: `ReadParent` and the action after it, with `Consistent` for `assertCurrentDocumentEligibility` |
| `upload` (supporting-documents:135-146) | `Upload`, `FindDuplicate`, `NumberVersion`, `Put`, `CreateVersion`, `ReadBackParent`, `ReadBackVersions`, `CleanUp` |
| `update` (147-154; repository:32-48) | `Update`, `CheckUpdate`, `UpdateRights` |
| `reportDocuments`, `verifiedBytes` (158-181, 134) | `Select`, `Fetch`; a chosen document that is absent or not eligible is skipped (177) and the report goes on |
| the end of the report route (netlify-auth:282) | `Link`, `StoreReport`, `RegisterReport` |
| `grantReportAccess`, `revokeReportAccess` (commercial-service:74-75) | `Grant`, `CheckManifest`, `WriteGrant`, `Revoke` |
| the removal route (netlify-auth:166-172; commercial-service:73) | `Remove`, `FindManifest`, `RemoveFile`, `ListGrants`, `RevokeListed`, `DeleteManifest`, `Unlink` |
| a throw, a lost instance, a lost answer of the storage | `Throw`, `Lose`, `GiveUp`, `LosePut` |

Abstractions: review status, confidentiality, permission and selection are one
truth value; the inspection and the scan of a file are its refusal (`Throw`) or
nothing; a report shows at most one document; `linkReport` finds its property
(`ScenarioStore` has the case in which it does not). `stranded`, `unread`,
`reviewed`, `issued`, `shown`, `unfinished` and `raced` are auxiliary.

## 3. Properties

Ledger: `BalanceConserved` (the balance is what came in less one credit for each
open reservation and each unlocked property), `LedgerAgrees` (the immutable
entries add up to the balance plus the credits held), `ChargedOnce` (an
entitlement and the one consumed reservation of its property determine each
other), `PostedOnce` (one entry per source, and nothing else but activations),
`ReversalFollowsPurchase` (order of events, across lost handlers),
`HistoryImmutable` (action property), `EventsApplied` (liveness: an event that is
delivered again and again is applied, a refund as well as a purchase),
`ImplementsAccount` (refinement of `CreditAccount`, with `sources` as what was posted
and `Worth` as the amount a source may move: a transaction that posts a source
twice, posts another amount, lets a purchase in at an overdrawn balance, or
promises a credit that is not there is no step of the account);
`OnlyReversalsOverdraw` is proved and not part of a run.

Research: `OneUse` (an approval is run by one handler and each operation is sent
once), `LeaseExclusive` (two handlers under one lease: one has outlived it),
`OutcomesFinal`, `RequestsAccounted` (no open request under a completed approval,
no unrecorded call; an approval that failed may keep records that say `RESERVED`), `EvidenceBacked` (evidence rests on responses that match),
`ResearchConcludes` (liveness).

Paid route: `CreditBuysEvidence` (a consumed reservation has its finished approval,
and some evidence for the property is retained), `OpenIsOwned` (a credit that is
still held belongs to a request under way or is orphaned: no way out of the route
drops it, also when two submissions share it), `FreeOnlyAfterRelease`,
`FollowsLedger` (every step of the composition is a step of the ledger's
specification or leaves its documents alone), `SettledUnlessOrphaned` (liveness: a
held credit is settled unless its own request was lost or could not release it;
a loss or a fault elsewhere excuses nothing), `UsableIsPaid`, `ReservationsSettle`.

Campaign: `DeliveryBacked` (an accepted recipient has a message, an active campaign
has at least one, and the link in every message was saved before), `LinksAccounted`
(after undisturbed dispatches no failed delivery has left an open link; a message
that was sent and could not be recorded is not its subject), `RevokedForGood` (action property), `DispatchConcludes` (liveness), `OptOutKept`.

Workspace: `SavesBuildOnSaved` (no lost update: a revision was edited from the
one before it), `AcknowledgedIsStored`, `CleanIsStored` (the tab shows nothing as
saved that is not), `HistoryImmutable` (a stored revision is never overwritten), `ReportsBacked` (a linked report has its
revision unless a removal raced with it), `GuardReleased`, `ShownIsCurrent` (the
analysis belongs to the inputs on the screen), `ReportIsOfRevision` (previews and
PDFs show what is stored and not what the draft has become). The first four hold
for scenarios that nobody removed and whose property nobody archived: a save
dropped because its property was archived meanwhile is answered like any other.

Documents and library: `FilesAccounted` (versions and objects correspond, up to
what recorded failures left behind), `CatalogConsistent` (record, current version
and hash reservations agree), `ReportsShowReviewed` (what is in reports was
approved as the version it is), `AccessEndsWithReport` (a removed report leaves
no file, manifest or grant, however often its removal failed and was repeated),
`VersionsKeepTheirFile`.

## 4. Runs

| Run | Instance | Shows |
|---|---|---|
| `credit_ledger` | 3 requests, 2 properties, 1 grant of 1 or 3 credits, 2 purchases (2 credits and 1), refund and dispute of the first, 1 lost handler | all ledger properties |
| `purchase_lost` | the same with 2 requests | **violated** `PurchasesRetained` |
| `stale_warning` | 2 handlers, 2 approvals with different operation sets | **violated** `FreshWarning` |
| `paid_research` | 2 handlers, 2 approvals, 1 property, 1 operation, limit of 1 per minute, a grant of 2, 1 mishap (a fault or a loss) | the safety of research and of its composition with the ledger |
| `paid_sequential` | 1 handler, 2 approvals of 2 operations, 1 address, both refresh flags, good and malformed keys, 1 database failure | `RequestsAccounted`, `EvidenceBacked`, `ResearchConcludes`, `SettledUnlessOrphaned` |
| `free_analysis` | 2 handlers, 1 approval, no mishap | **violated** `UsableIsPaid` |
| `held_credit` | 1 handler, 1 approval, 1 loss | **violated** `ReservationsSettle` |
| `investor_campaign` | 1 investor, 2 dispatches, 2 keys, 1 visitor, 1 manager, 3 requests, 1 mishap | all campaign properties |
| `opt_out_cleared` | 1 investor, 1 dispatch, 1 visitor, 1 manager | **violated** `OptOutKept` |
| `analysis_workspace` | 2 tabs, 2 handlers, 1 property, 2 scenarios, 3 contents (one incomplete, two with one calculation), 2 revisions, 4 acts | all workspace properties |
| `report_library` | 2 handlers, 2 documents, 2 contents, 2 versions, 2 reports, 2 viewers, 4 requests, 2 mishaps | all document and library properties |
| `version_lost` | the same with 2 requests and no mishap | **violated** `VersionsKeepTheirFile` |

Why the bounds are enough. Three requests for two properties are the fewest for
which two compete for one property while a third uses the other; one payment
with both a refund and a dispute, and a smaller one beside it, reach a negative
balance at which a purchase of one credit is refused. Two handlers and two
approvals give every pairwise race: one approval submitted twice, two approvals
under one lease, a lease taken over. A limit of one request per minute is reached
by the second request. One investor is enough for a campaign, since a dispatch
handles each recipient by itself and the races are between handlers on one
recipient's documents. Two tabs and two handlers race for one revision number,
and four acts are enough for each tab to edit and to save, or for an edit, a save,
a report and a removal. Four requests and two mishaps are enough for an upload, its update, a
report and a removal, and for a removal that fails and is repeated. Nearly every
safety property of these runs is also proved without bounds (section 7).

`MaxCrashes`, `MaxMishaps`, `MaxLost`, `MaxRequests`, `MaxActs`, `MaxRevision` and
`MaxVersion` are the bounds that stand in guards; everything else is finite by
itself because documents are created once. `SYMMETRY` is used only in runs without
liveness properties. Deadlock is not checked, because each system really stops
once every event, approval, reservation, request or act is used up.

## 5. Fairness

* `Redelivery` (`CreditLedger`): Stripe delivers an event again until it is
  answered with 200, so a handler that could make progress on an
  unacknowledged event eventually does (weak fairness of `PostPurchase`,
  `RecordPurchase` and `ReversePurchase`). `WebhookCrash` is not fair and is bounded.
* `FairSpec` (`ProviderResearch`): a handler that is not lost runs on, because
  every await in it returns or throws (the HTTP call has an abort timer). Time,
  quotes, calls, faults and losses are not fair.
* `PaidFairSpec`: the same for the route.
* `FairSpec` (`InvestorCampaign`): a dispatch that is not lost runs on. Visitors,
  managers, new dispatches and mishaps are not fair.
* `AnalysisWorkspace` and `ReportLibrary` are checked for safety only and state no
  fairness: users act when they like, and an answer may be lost.

## 6. Disagreements between documents and code

* `free_analysis`: two submissions of one approval share the reservation
  `research-<approvalId>`. The one that is refused releases it in its catch clause;
  the other one's `consumeCredit` then finds a released reservation and does
  nothing. `docs/PI_V3_COMMERCIAL_BETA_READINESS.md:40` promises that usable
  research consumes the credit and concurrent request identities are idempotent.
  `FreeOnlyAfterRelease` shows that this is the only way it happens. The same
  reservation is also reused when a submission that was refused before the
  approval was started (a malformed key, a database failure) is repeated.
* `held_credit`: nothing settles a reservation whose handler was lost; the same
  line promises that interrupted research releases it.
* `purchase_lost`: a purchase is not a compensating entry, so it is refused while
  the balance would stay negative; line 43 promises that purchases are retained.
* `stale_warning`: the activity check precedes the lease, and leases of different
  operation sets do not exclude each other, so a second approval can reserve a
  request on an outdated warning. `tests/pi-v2-8-production-research.test.js:51`
  is named for the opposite.
* `opt_out_cleared`: a profile edit (and an import's update) protects an opt-out only
  as far as it has read it, and writes the whole communication block afterwards.
  An unsubscription in between is overwritten, against
  `docs/PI_V3_4_1_INVESTOR_INTAKE_UX.md:26`.
* `version_lost`: the clean-up of a failed upload also runs when the upload was
  committed and only reading it back failed, which takes no more than an update
  between the two reads of `hydrate`. The version stays without its file, and its
  content can never be uploaded again, against
  `docs/PI_V2_5_SUPPORTING_DOCUMENTS.md:32`. `FilesAccounted` shows that this is
  the only way in which a version loses its file.

## 7. What is proved

Every safety property that a passing run checks is proved by TLAPS for all values
of the constants: any number of handlers, tabs, documents, requests, lost instances
and failed calls. The assumptions are those the modules name:

| Assumption | Says | Why |
|---|---|---|
| `FiniteAssumption`, `PaidAssumption` | requests, approvals and properties are finite | what an organization has ever created is finite |
| `SourceAssumption`, `PaidAssumption` | grants, events and requests never share an identity | they are made by different parties (see the module) |
| `AmountAssumption`, `PaidAssumption` | quantities are between 1 and 1000 | the code checks both ends |
| `PlanAssumption` | a quote plans one to three different operations | `quote` refuses any other list |
| `ResearchAssumption` | the minute limit is positive, an empty lease has no holder among the handlers | configuration; `Nobody` is not a handler |
| `CampaignAssumption`, `DocumentsAssumption`, `ReportsAssumption`, `NoneAssumption`, `HomeAssumption`, `CompleteAssumption` | `None` is not an identity; a scenario has its property, complete contents are contents | marks of absence in the model |
| `ActsAssumption`, `BoundAssumption`, `BoundsAssumption` | bounds are numbers, a document has room for one version | bounds stand in guards only |

No safety property is inductive by itself; each component has an inductive
invariant that joins it with what the handlers' places promise.

### The ledger (`CreditLedger_proofs`)

`LedgerInv` joins

* `TypeOK`;
* conservation, `available = credited - |Held| - |Unlocked|`;
* the exact correspondence of entitlements and consumed reservations
  (`ChargedOnce`), without which consuming could unlock a property twice and
  conservation would be lost;
* the correspondence of ledger entries with sources and consumed reservations
  (`PostedOnce`), which also needs that sources and requests are disjoint;
* the order of purchases, transactions and reversals
  (`ReversalFollowsPurchase`), which carries `recording` and `acked` along.

The proof goes action by action; the steps that move an element between `Held`,
`Consumed`, `Released` and `Unlocked` rest on lemmas about the cardinality of a
set with one element more or less. `HistoryImmutable`, `OnlyReversalsOverdraw` and
the refinement `ImplementsAccount` follow step by step from the invariant: a
transaction of the ledger is `Post`, `Hold`, `Unlock` or `GiveBack` of the account or
leaves it unchanged, and a `Post` is of a source that was not posted (`EntryPosts`,
`EntriesWorth`).

`LedgerAgrees` is about a sum, `EntrySum(ledger)`, that takes the entries in the
order `CHOOSE` happens to name them. That the order does not matter (`SumsAgree`)
is shown by descent: among the subsets of the ledger whose sum depended on it
there would be a smallest one, and removing an entry from it gives a smaller one
(`SmallestSubset`, from `WFMin`, stands in for the induction on finite sets that
the provers cannot instantiate). A new entry therefore adds its amount
(`SumWithEntry`). `PostedOnce` says that an entry about to be posted is new, and
conservation that the other side of the equation moves by the same amount
(`LedgerAddsUp`).

### Research (`ProviderResearch_proofs`)

`ResearchInv` says of each handler what its place in `research()` promises
(`JobOK`: before a call it has a request of its own that is recorded and not sent,
the evidence in hand is in stored responses that match, the operations left have
not been requested, ...), of the documents
what they promise each other (`DocumentsOK`: an approval that was not started has
no requests, a cache entry and retained evidence have a response that matches),
and that an approval has one runner (`OneRunner`) and a live lease one holder
(`LeaseHeld`). That a step of one handler does not disturb the promises of another
one is proved once for all steps: documents only grow (`Grows`), and the requests
of an approval belong to the handler that runs it (`Steady`). One runner follows
from `startApproval` being a transaction on the status, which is why a lease that
expires under its holder does not matter for `OneUse`. The theorems are the type
invariant, `OneUse`, `LeaseExclusive`, `RequestsAccounted`, `EvidenceBacked` and the
action property `OutcomesFinal`.

### The paid route (`PaidResearch_proofs`)

The composition is proved from its parts. Each step of the route is a step of the
research service or leaves its documents alone, so `ResearchInv` is kept
(`RouteInv` adds which approval a route serves) and the theorems about research
hold on the route. Each step is a transaction of the ledger or leaves the credit
documents alone (`RouteFollowsLedger`, for the property `FollowsLedger`), so
everything proved of `CreditLedger`, the ledger sum included, holds on the route as
well (`RouteConservesCredits`), by instantiation and not by repetition. `PaidInv` then relates the two halves: a handler between
`reserveCredit` and the end of the route has a reservation of its approval, which
is open unless another submission settled it, or its property is unlocked
(`Covered`). From it follow `CreditBuysEvidence` and
`FreeOnlyAfterRelease`. `OwnedInv` strengthens `OpenIsOwned` by the handlers without
a request, which own nothing; one lemma (`OwnedMoves`) says what a step of one
request must do with the reservations, and each way out of the route is shown to
do it. `FreeOnlyAfterRelease` is the exact extent of the finding
`free_analysis`: an analysis is free only because its reservation was released
under it.

### Campaigns (`InvestorCampaign_proofs`)

Nothing in a campaign is a transaction, so what handlers hold in memory is as
important as what is stored: `CampaignInv` says of each copied recipient what
`DeliveryBacked` says of the stored one (a copy that claims an accepted delivery is
written back long after it was read), and follows every active link to the
dispatch that has not yet sent or revoked it, or to a message (`LinksOpen`, as long
as no call has failed and nobody was lost). `RevokedForGood` follows step by step.

### Documents and library (`ReportLibrary_proofs`)

`CatalogInv` follows an upload from `put` to the committed version: the object it
stored is in the hands of one handler (`UploadsApart`), versions are numbered
without a gap (`NoGaps`), and what a handler read to decide about a version's
rights cannot be promoted to a later version (`ReviewOK`). `FilesAccounted`,
`CatalogConsistent` and `ReportsShowReviewed` are parts of it. `LibraryInv` follows a
report: it is made by one request (`OneMaker`), once it is out of that request's
hands nothing brings its file or manifest back (`ReportsTracked`), and a removal
that is revoking has listed all grants that are left, except those written after
the listing (`RemovalOK`). From it follows `AccessEndsWithReport`, for any number of
concurrent and repeated removals.

### The workspace (three `AnalysisWorkspace` modules)

They prove every property of the run `analysis_workspace`:

* `AnalysisWorkspace_types`: `Typed` strengthens `TypeOK` by what a handler's place
  says about its request (`CallShape`), that an open draft without changes has a
  revision, and what a tab waits for.
* `AnalysisWorkspace_saves`: `AllGrounded` says that every content which claims to
  come from a stored revision does: the content of a clean draft, the base of a
  dirty one, the base carried by a save under way, by an acknowledged one and by
  a draft waiting for its promotion, and the revisions in a tab's history. Such a
  claim stays true because revisions only disappear with their scenario (`Grows`,
  proved for every step), and it is what makes a save build on the revision it
  names: the transaction refuses a number that exists, so between the baseline
  check and the store nothing can take its place.
* `AnalysisWorkspace_reports`: at most the newest analysis of a tab is still wanted
  and it is the one of its calculation key (`AskedIsCurrent`); a PDF under way is
  of a revision that is stored with an analysis or raced with a removal
  (`ReportCall`), which needs that a removal marks the reports it overtakes before
  they are linked; what a tab shows was received from such a call (`TabPictured`).

### Only model-checked

The liveness properties `EventsApplied`, `ResearchConcludes`,
`SettledUnlessOrphaned` and `DispatchConcludes` stay with TLC: fairness and `ENABLED` are
out of the prover's reach. The violated properties of section 6 have their
counterexamples from TLC.

## 8. What is not modelled

Audit records (append-only, never read back), budget figures (`budgetMode` is
`WARNING_ONLY`), settings, `lastFailure`, paging of the credit history, HTTP parsing
and authentication, the signature check of the webhook (an unsigned delivery
reaches no document), payloads, wording and layout, the in-memory repositories
used by tests. Underwriting and Monte Carlo are floating-point arithmetic;
screening, leads, sources and report layout are pure functions of their input;
the local PostgreSQL deployment is CRUD in single transactions. Most of the
browser code is presentation; of its state machines only the investment
workspace's is modelled. These parts are by far the larger share of the
repository, and the modules cover the share in which concurrent actors meet.

Members and invitations, checklist editing, photos, address tokens and monitoring
have state of their own and no module yet. What could go wrong in them that no
property covers: two administrators who demote each other at once, the gallery
limit that is checked before a photo is stored (`property-photos.js:92`), a
validation token consumed before its quote succeeds. In the modelled parts, the following happens
in the code and is not stated as a property, because the repository does not say
what should happen: a payment that is both refunded and disputed has its quantity
taken back twice; a refresh answered by the client's cache is recorded as a
request; edits made while a save is under way are lost; two tabs overwrite each
other's local storage; an approval of a document applies to the version that is
current when it is served; a download authorized before a revocation is still
answered.

## 9. Plan

1. `InvestorCampaign` – merging of investors and the resumable import run; an
   abstract recipient that `dispatch` implements when nobody else writes.
2. Members, invitations and roles (`commercial-service.js:62-71,79-81`).
3. Checklist versions and finalization, joined to `ReportLibrary`.
4. Photos and the gallery limit; address tokens.
5. Proofs: every safety property of the passing runs has its theorem. A new
   module of points 1 to 4 brings its inductive invariant with it; the route's proofs
   show how a composition takes over the theorems of its parts.
