# expiya-platform: verification project

TLA+ models of the platform's own control logic, model-checked with TLC, and
theorems about them proved with TLAPS. Paths are relative to the repository.

Contents: 1 the system, 2 the modules, 3 the runs and their bounds, 4 fairness,
5 proofs, 6 findings, 7 what is not modelled, 8 plan.

## 1. The system

expiya is a Next.js application for choosing a new car. A visitor talks to an
advisor, which learns preferences and offers vehicle cards; accepts the terms of
an offer and sees the card; may take the card to a second advisor that answers
questions about that vehicle, and from there to a sales request with a verified
phone number. Separately, three cars may be compared in a paid report: quote,
payment at iyzico, generation, email, invoice at Isbasi.

Several web instances run at the same time. What they share is Postgres (the
paid report) and Redis (offers, the advisor's lock, budget and replays);
everything else lives in the memory of one instance and dies with it. The
report and email workers are one-shot scripts that are started again and again.
There are no threads: a process loses control only at an `await`, so an action
of the models is what happens between two awaits, or one transaction, or one
call of a provider.

### 1.1 Components with concurrent state

**iyzico checkout and callback** (`features/payments/iyzico`, `app/api/payments/iyzico`)
- State: quote, order and job rows; the token hash that opens the report.
- Operations: `createFromQuote`, `markInitialized`, `markFailed`,
  `findPendingByToken`, `markPaidAndQueue`, `markReviewRequired`, `grantReportAccess`.
- Hard: two checkouts race on a quote; the payment page posts its token again;
  a catch block runs after an update that did commit; a crash between PAID and
  the access grant.
- Correct if: PAID is said of captured money only and captured money is never
  called failed; one order per quote; order, job and quote change together;
  outcomes are final; a cookie that was handed out works.

**Report job queue** (`features/paid-comparison/reportJobRepository.ts`, `reportWorker.ts`)
- State: jobs with attempts and lease, documents, entitlements, events.
- Operations: `claim`, `complete`, `fail`.
- Hard: `for update skip locked` hides rows before the claim commits; a lease
  runs out under a worker that is still alive; give-back does not name the attempt.
- Correct if: a report is whole and delivered once; a refund is announced once
  and only after three attempts; final states stay; every job ends.

**Report email outbox** (`reportEmailDelivery.server.ts`)
- State: outbox rows; at the provider, idempotency keys.
- Operations: claim, send, complete, fail. No lease.
- Hard: the provider may accept a message whose answer is lost.
- Correct if: the customer gets at most one email, SENT is true, retries stop.

**Isbasi invoicing** (`features/invoicing/isbasi`)
- State: one invoice row per order; at the provider, invoices.
- Operations: claim, create, `markIssued`, `markReviewRequired`.
- Hard: parallel submits of the form; creation is not idempotent at the provider.
- Correct if: at most one provider invoice per order, ISSUED is true, outcomes stay.

**Status page and document view** (`statusRepository.ts`, `reportDocumentRepository.ts`)
read the rows of the four above: what was shown must not be taken back.

**v3 conversation** (`features/decision/v3/store.server.ts`, `stateToken.server.ts`,
`app/api/cars/conversation/v3`, `components/cars/CarsConversationV3.tsx`)
- State: conversation records and answers in each instance's memory; a signed
  state token in the browser, trusted when an instance has no record.
- Operations: one message per POST: read the record, ask the model, write it back.
- Hard: the record is read before the model call and written after it without a
  second look; messages are repeated; instances restart; answers are lost.
- Correct if: a message counts once; an answer continues what its user saw.

**v3 preference ledger** (`features/decision/v3/ledger.ts`, `decisionInput.ts`)
- State: an append-only list of preference events, the hint whose confirmation is
  pending, what the budget is for.
- Operations: one pass over each message, in a fixed order with five exits; what
  decides is projected from the whole list each time.
- Hard: replaced, cleared and rejected wishes are copies further down the list;
  equipment is keyed by value, everything else by concept; hints queue for one question.
- Correct if: the list says what the buyer wishes now, and the open question can be answered.

**v3 offers and hand-off** (`offerGovernance.server.ts`, `handoff.server.ts`)
- State: offers in Redis with a copy in every instance.
- Operations: create, load, reveal, expire, be forgotten by Redis; opening phase 2.
- Hard: the local copy changes before Redis; a load waits while another reveals.
- Correct if: a card needs a reveal, a reveal needs the buyer's consent to that
  offer, and the card shown is the offer consented to.

**v2 conversation and its event store** (`features/decision/v2`, `app/api/cars/conversation`)
- State: in Postgres a conversation row with memory and revision, the event log, the
  stored outcome of every message, the offers' lifecycle.
- Operations: one POST per message: a first load for the options a click may choose,
  a second for the turn, model calls, then one guarded transaction that appends events
  and moves memory and offers; repeats are answered from the stored outcome.
- Hard: nothing is locked between the loads and the commit; the fold of events into the
  memory may refuse what the turn decided; offers are kept in two places.
- Correct if: the log is the conversation and nobody's turn is lost; memory and offers
  agree; an option answers the question it was shown for; a card shown is current.

**Phase-2 advisor chat** (`features/sales-advisor/security.server.ts`, `app/api/cars/sales-advisor/chat`)
- State: in Redis a lock with a 20-second lease, turn counter, stored answers;
  in each instance a history.
- Hard: a turn may outlive its lease; Redis fails before or after a command.
- Correct if: one question at a time, one answer per message, ten turns at most,
  a history in order.

**Sales request** (`components/cars/SalesRequestForm.tsx`, `features/sales-request`, `app/api/cars/sales-request`)
- State: the form's fields; per instance CSRF tokens, codes, verifications, requests.
- Hard: late answers to an old phone number; single-use tokens and lost answers;
  five wrong codes; requests that reach different instances.
- Correct if: a stored phone was verified by its owner; an exhausted code stays useless.

### 1.2 How they interact

- `markPaidAndQueue` inserts the job in the transaction that makes the order PAID.
- `complete` inserts document, entitlements, event and outbox row in the
  transaction that makes the job SUCCEEDED.
- The access token granted by the callback opens status page, report and invoice form.
- A conversation's accepted offer opens phase 2 while its preferences are unchanged.
- The ledger a turn leaves decides which offer it may make; `Conversation` has the fact
  that preferences changed, `PreferenceLedger` what they are.
- A phase-2 hand-off token, signed and expiring, is the link into the sales form.

Components without concurrent state of their own are listed in section 7.

## 2. The modules

| Module | Models | Composition |
|---|---|---|
| `IyzicoCheckout` | checkout and callback requests | |
| `ReportJobs` | report workers | |
| `EmailOutbox` | email senders | |
| `IsbasiInvoice` | invoice requests | |
| `PaidDeliveries` | senders and invoice requests of one order | extends both; `OrderNames` holds what they share |
| `PaidReport` | what a buyer is promised of an order (abstract) | |
| `PaidJourney` | status page and document view | instantiates the first four on shared rows, implements `PaidReport` |
| `Conversation` | browser, instances, offers, phase-2 opening | |
| `PreferenceLedger` | the v3 ledger, turn by turn | implements `BuyerWishes` |
| `BuyerWishes` | what a buyer may expect of it (abstract) | |
| `TurnMemory` | the v2 memory as a fold that may refuse | |
| `DecisionTurns` | v2 requests and their store | extends `TurnMemory`, implements `TurnLog` |
| `TurnLog` | a conversation as one list of turns (abstract) | |
| `AdvisorChat` | phase-2 chat | |
| `SalesRequest` | form, codes, stored requests | |
| `*Proofs` | theorems of the module they extend | `PaidJourneyProofs` instantiates the proof modules of the journey's parts; `BuyerProofs` extends `PreferenceLedger` and `SalesRequest` |
| `MC*` | instances for TLC, with the permutations a run without liveness may use | |

Actions carry the names of the functions they translate; PROJECT.json gives the
lines. A definition followed by a variant (`MarkFailed`, `MarkFailedUnknownStatus`)
is followed by a plausible bug, with which the property it is listed for must fail.

**IyzicoCheckout.** One process per POST /checkout and one per POST /callback;
`checkout` and `callback` are their program counters. An order id is a fresh UUID
of its request, so one set stands for requests and rows. `charged` is the
provider. Every transaction and every single-statement update is one action, with
its guard refused, with its commit seen, and with its commit unseen (`Faults`): the
last is what brings a handler into a catch block after success. `lost` is a
callback ended by a crash or by a query that threw.

**ReportJobs.** The claim is two actions, `ClaimLock` and `ClaimCommit`, because
the row lock hides the row from other workers before the commit. `ExpireLease`
may happen to a live worker. `createdAt` is drawn at the start from `Times`:
several jobs may have the same time, and clocks of web instances need not agree.

**EmailOutbox.** As the job queue, without a lease. The provider remembers keys
and delivers a message under a key once.

**IsbasiInvoice.** The insert under the primary key is the claim. `issued` counts
the provider's invoices; `CreateInvoice` may create one and lose the answer.

**PaidJourney.** `Checkout!jobs`, `Reports!mailed` and `Invoices!paid` are read off
the rows (`Queued`, `Posted`, `Opened`), so a row one component inserts is a row
another one finds, inserted in the same step. `Phase` maps the rows to `PaidReport`.

**PaidDeliveries.** Email and invoice meet only in the order they are for. The run
checks them together; each has its own Init and Next (`MailSpec`, `InvoiceSpec`), and
`EveryDelivery` says that what is proved of each alone holds of both (`Spec`).

**Conversation.** `record`, `outputs` and `cached` are each instance's memory,
`stored` is Redis, `held` is the browser's token. Of a conversation state the
model keeps what the properties distinguish: revision, messages applied, messages
that changed a preference (`ledger`), pending offer, accepted terms, and whether
the answer carries the consent button. Which preference a sentence yields and
whether cars match is a choice; every message may teach something, an acceptance too,
because the engine reads preferences before it looks at the offer (`engine.server.ts:839`).
Redis forgets an offer after a while (`ForgetOffer`); FORGOTTEN, which the code cannot see,
says that it had been revealed. A request is read (`Arrive`), computed (one of
`Talk`, `DecisionChanged`, `MakeOffer`, or `LoadOffer`-`Reveal`-`PersistReveal`)
and committed (`Commit`), with other requests between. `overlap` is chosen at the
start and never changes: it says whether the browser sends a message while another is
under way. Three properties are claimed only of a browser that waits, which is what
the page does within one tab.

**PreferenceLedger.** An event keeps what the projections read: concept, value, use,
strength, status and turn. A message is a record of what the patterns find in it (see
`BuyerWishes`), so the order of the pass is kept and the wording is not. There is one
action per exit of `applyPreferenceMessage` (`RelaxBrand`, `ConfirmPending`,
`RejectPending`, `SettleCosts`, `Listen`), each followed by the rest of the turn
(`Collected`: denied uses, catalogued names, the language model's reading), and `Chat`
for a turn that may change no preference. `cargo` is whether the ledger has the event
about goods to carry, which never decides but keeps a denial from being believed
(`engine.server.ts:835`). A yes to the question about a hint and one to the question about
the brand are two fields of a message, as two patterns find them (`ledger.ts:437`, 412);
the second question may go unanswered, when another action becomes the pending one
(`engine.server.ts:1444`, 1996). `Unasked` are the hints that have a question when they
are noticed but none in `weakConfirmationQuestions`: `urbanManeuverability`.

**DecisionTurns.** A request goes through the first load, the second load, the turn
and the commit, each an action; the commit is one transaction that either finds the
revision it expects or does not. `stored` holds the outcome of each message, from which
repeats are answered; an answer may be lost at any point (`Faults`). The turn is a
choice among what its text allows, given to `TurnMemory`'s fold; if the fold refuses an
event the request ends in 503 and nothing is written. What the text adds to the record
(`Carried`, `UnheldPlans`) is kept as far as acceptance depends on it: whether a constraint
stands that a correction may name (`policy.ts:19` asks for no more; `constrained`), and
whether an event fits its schema. Left out are the facts and words of an answer, vehicles,
and the catalogue release: a conversation's release is pinned (`production.server.ts:133`),
and one that cannot be loaded is answered without a commit (`Fail`). So `reducer.ts:266`
never refuses, nor do `SUPERSESSION_REFERENCE_INVALID` (what supersedes is looked up in the
memory's own events), `BUDGET_CORRECTION_REFERENCE_REQUIRED` (`semanticCompleteness.ts`
makes every budget a SET or an exclusion), the checks of an offer that
`offer/authorize.ts:9` makes before, and those of fingerprints and positions. Two commits
of one first message meet in the primary key and in the same 503.

**AdvisorChat.** A request takes the lock, looks for a stored answer, claims a
turn, answers, stores the answer and releases; each is a Redis command that may
fail before or after it takes effect. `overdue` records whose lease ended under it. A
stored answer expires after an hour (`ExpireReplay`), while the turns are counted for
up to a day; `lapsed` records who was answered before that.

**SalesRequest.** `wires` holds requests and answers in flight, in any order. A
verification is named by the challenge it came from. Legal texts, summary,
dealer choice and rate limits can refuse a request where the code asks for them.

## 3. Runs

| Run | Question | Bounds |
|---|---|---|
| `checkout` | Do racing checkouts and callbacks, with every fault, keep money, rows and cookie consistent, and is a captured payment settled? | 1 quote, 2 orders, 3 callbacks |
| `reports` | Are reports whole and delivered once, refunds earned, and does every job end? | 2 workers, 2 jobs, 2 times |
| `report_crash` | Does every queued job reach a report or the refund path, as documented? **No** | 1 worker, 1 job |
| `deliveries` | Is the report mailed at most once and invoiced at most once, and is each row and claim settled? | 1 order, 2 senders, 3 invoice requests |
| `journey` | Do all paid-report components on one database keep the buyer's promise? | 1 quote, 1 order, 2 callbacks, 2 workers, 1 sender, 1 invoice request |
| `conversation` | Do messages count once, do cards need reveal and consent, and does a browser that waits get answers to what it saw? | 2 restarting instances, 3 messages, 3 deliveries, 2 offers, `Bounds` |
| `conversation_fork` | Are displayed turns kept when requests overlap, as documented? **No** | 1 instance, 3 messages, 3 deliveries |
| `preferences` | Does the append-only ledger say what the buyer wishes, and is the open question a real one? | 29 messages of every kind, 4 turns |
| `decision_turns` | Does v2's store keep one log of turns, with memory, offers, options and reveals in agreement, and when does it refuse? | racing: 3 requests of which 2 in flight, lost answers; in a row: 4 turns with insults |
| `advisor` | Are lock, replay, budget and history right with slow requests and failing Redis? | 2 instances, 2 messages, 3 deliveries, 2 turns |
| `request` | Was a stored phone verified, does an exhausted code stay useless? | 2 instances, 1 page, 2 phones, 2 codes, 2 attempts, 2 exchanges in flight |
| `request_repeat` | Does a repeated form return to its request, as documented? **No** | 1 instance, 1 page |

Why the bounds are enough for the cases that matter:

- *checkout*: two orders race on one quote, and three callbacks let one win, one
  lose the race and one come late. Quotes only meet through the orders that
  name them, so one is enough; the theorems of section 5 hold for any number.
- *reports, deliveries*: two actors race on a row while another row is
  untouched; a third attempt is reached (the real limit of 3 is used). The
  invoice has a third request: two race and one finds the row.
- *journey*: one order, because components meet on the rows of one order and each
  component alone is checked with more. Two callbacks and two workers keep the
  race inside the order. `Times` and `HasEmail` have one value.
- *conversation*: `Bounds` in the MC module explores two profiles at once. With
  overlap, three deliveries of two messages on two instances include a repeat, an
  overlap and a late arrival on the other instance; one of the two messages may teach
  something, and offers expire and are forgotten. Without, three messages and two
  offers on one instance are what consent to an older offer needs. One instance and
  no overlap are where the code keeps `AnswersWhatWasSeen`, `CardMatchesConsent` and
  `RefusalMeansLoss`; finding 1 is what happens outside.
- *preferences*: the longest interplay found takes four turns (hints, a refusal, a
  new hint, a yes that brings the refused one back). Messages that mix kinds are those
  in which the order of the pass matters; three hints are one about a field, without a
  later question, one about equipment and the one about costs: the first, once refused,
  then stands before the third when the second is confirmed.
- *decision_turns*: a conversation either races (`Short`: an option answered twice and a
  third message, no insults, up to the first constraint on record) or goes on for four
  turns without racing and offers (`Long`: a deferred question, a correction of another
  field's constraint, the end after insults). The commit's guard compares
  revisions only, so a third request in flight fails as the second does.
- *advisor*: three deliveries are a repeat and a rival. Two turns instead of ten
  can be used up before the third delivery claims one. The history is not cut at this
  bound (that needs a third turn), only in the theorem: cutting keeps a suffix, which is
  ordered if the whole is. A stored answer may expire at any time, not only after an hour.
- *request*: pages have keys of their own and do not learn each other's codes, so
  one page suffices. Two phones are old and new number, two attempts stand for
  five, two exchanges in flight are an answer overtaken by another. Equal requests
  of one page are one element of `wires`. The run has one hand-off: that a stored
  request belongs to its hand-off is exercised by the theorem only.

Symmetry is used only in runs without liveness (permutations of instances,
messages, requests, workers and the like, never of values that are compared).
Deadlock is not checked: customers may stop and processes end in all of these
systems. `Faults` switches crashes, failing or unheard database and Redis
commands, slow requests, lost answers, expiry, refusals and restarts; the
passing runs have all of the faults their module knows on.

Every property has a mutant, a definition changed as a plausible bug would
change it, under which TLC finds that property violated in the same run. Type
invariants are not among the runs' properties: they are proved (section 5).

### Properties by component

*Payment.* `MoneyIsRecorded`: PAID for captured payments only, and captured never
PAYMENT_FAILED. `RowsAgree`: one order per quote, and PAID, job and consumed quote
together. `CookieOpensReport`: no later callback replaces the hash of a cookie
that left. `OutcomeIsFinal`. `ChargeIsSettled`: a captured payment ends in PAID or
review, unless every callback of it was lost. `PaidGetsAccess`: unless every
callback was told of a failure.

*Reports.* `ReportIsWhole`, `RefundIsEarned`, `ClaimOnlyFree`, `JobEndsOrIsStuck`
(`Stuck`: the third attempt itself was lost, finding 2). `TerminalStays` is proved only.

*Email.* `DeliveredOnce`, `DeliveryStops`, `EmailIsSettled` (`Stranded`: a sender died
in the middle; the row has no lease).

*Invoice.* `OneProviderInvoice`, `RecordsAgree`, `ClaimIsSettled` (unless the
request that claimed ended in an error of its own). `InvoiceStays` is proved only.

*Journey.* `NothingForUnpaid`, `ReadyIsReadable`, `ShownStays`, and the refinement
`KeepsPromise`.

*Conversation.* `AppliedOnce`, `CardsAreRevealed`, `RevealIsConsented`; of a browser
that waits, `AnswersWhatWasSeen`, `CardMatchesConsent`, and `RefusalMeansLoss`: a message
is refused only where the server has counted others whose answers the user never got.

*Preference ledger.* `FollowsTheBuyer`, the refinement of `BuyerWishes`: equipment adds up
and is taken back piece by piece, every other wish replaces the one before, a hint
decides after a yes or its repetition, a denied use leaves its predecessor in force, an
estimate never filters and an exact price only on demand. `QuestionIsOpen`: the open
question is about a recorded hint that nobody confirmed.

*v2 conversation.* `KeepsTurnLog`, the refinement of `TurnLog`: a message is answered
once, its answer takes the next revision and never changes, nobody is told another.
`OfferTableAgrees`: memory and offers table tell one story. `AnswerMeetsItsQuestion`: an
option counts for the question it was shown under. `RevealIsCurrent`: an offer is revealed
by its own acceptance, before anything has touched its decision. `RefusesOnlyGaps`: the fold
refuses a turn in five cases only (observations A to E).

*Advisor.* `LiveLeaseExcludes`, `SameAnswer`, `BudgetIsKept`, `HistoryInOrder`, and
`TurnsAreSpentOnce`: a message costs one turn and at most one more per delivery that paid
and then failed, outlived its lease or had its stored answer expire. The exceptions of these
properties are named: requests that outlived their lease are `overdue`, and those answered
before the stored answer expired are `lapsed`.

*Sales request.* `StoredPhoneWasVerified`, `ExhaustedStaysOpen`.

## 4. Fairness

Only the paid-report components promise something that must happen, and only
their runs use a fair specification.

- Handlers and scripts that have started run on (weak fairness of their steps).
  A web request is driven to its answer by the runtime, and the scripts are
  started again by a scheduler. A crash may still end any of them at any time;
  fairness only excludes a process that stands still for ever.
- `ClaimCommit` of job and email claims has strong fairness: the database may roll
  claims back again and again, not all of them for ever.
- `ExpireLease` has weak fairness: 15 minutes pass.
- iyzico's page posts back after a captured payment. `ChargeIsSettled` does not depend on
  how often: its exception holds as soon as the callbacks there were are all lost.

Nothing is assumed of customers, of clocks agreeing, or of faults staying away.
A liveness property that a crash defeats names the case that is left over
(`Stuck`, `Stranded`, all callbacks lost, the claiming request ended in ERROR)
instead of assuming it does not happen: those cases are what an operator of
this system has to look for.

The conversations, the ledger, advisor and sales request state no liveness: they answer
to a person who may leave at any time, and every exchange ends in an answer or in an
error the page shows.

## 5. Proofs

TLAPS proves safety for every size of the constants. Assumptions are only the
named `ASSUME`s of the modules: `None` is not one of the other values, limits are
naturals, `HasEmail \subseteq Orders`, `Times` is a non-empty set of naturals, the first
decision is a decision, no question of the generator has the key of a conflict question
(`technicalConflict.ts:28`), and those on the ledger's messages, named below. No bound of a run enters a proof; three theorems about the v3
conversation have a hypothesis, which is named with them below. Liveness, which the fair
runs check, cannot be proved here (`ENABLED` is out of the prover's reach).

Each proof module names an inductive invariant (`IInv`; `MailInv`, `InvoiceInv`,
`JInv`, `DecisionInv` with `QuestionsInv`, `AdvisorInv`, `LedgerInv` and `RequestInv` in the
modules of those parts), shows that every action preserves it, part by part or action by action, and
derives the theorems.

- *IyzicoCheckoutProofs.* Money is safe because only a request that returned the
  payment page can lead to a capture, and such a request never reaches the catch
  block that writes PAYMENT_FAILED (`CheckoutInv`). The cookie is safe because one
  callback wins an order (`SoleWinner`), the winner finds it PAID until it is done
  (`CallbackInv`), and tokens exist on PAID orders only (`TokenInv`). `QuoteInv` ties the
  quote to its one order. The properties are not inductive alone: that PAID implies
  charged needs what `verified` means of a callback still under way.
- *ReportJobsProofs.* A claim transaction is the only one on its job (`SoleClaim`), a
  claimed job is claimable until the commit (`WorkerInv`), attempts follow the status
  (`AttemptInv`). A late worker cannot spoil anything because `complete` and `fail` look
  at the row, not at what the worker remembers. That the attempt counter stays within
  its limit needs `SoleClaim`.
- *DecisionTurnsProofs.* A request never knows a later revision than the row has, and if it
  knows the row's, its memory is the row's (`DecisionInv`): so the guard of the commit, which
  compares numbers, protects contents, and what is written follows from what is there.
  From this follow `KeepsTurnLog`, with each step mapped to a step of `TurnLog` or a stutter,
  `OfferTableAgrees` and `RevealIsCurrent`. `QuestionsInv` adds what the fold makes of a
  history of questions (`GoodMemory`): only the newest can be open, none was put off before it
  was asked, nothing answers a conflict; and that the newest stored answer asks the row's open
  question (`LatestAsks`). An option is looked up among the stored answers, which are read
  after the row; it meets its question because whoever still has the row's revision at the
  commit read an answer nobody has replaced (`OptionsMeetTheirQuestion`). And an event is
  refused only where `RefusesOnlyGaps` says so, because what a turn settles is open, what it
  adds is on record or fits (`IsPlan`), what it asks may be asked, and what it asks again was put off for long enough (`PlannedIsGood`,
  `RefusedIsGap`, `ActedIsGood`). The searches of a history go from its end to the first
  match (`LastOfLast`, by a largest index), so no induction over histories is needed.
- *AdvisorChatProofs.* Whoever is inside and within its lease owns the lock (`Holding`);
  turns differ and none is above those taken (`TurnsApart`); who works on a message found no
  stored answer for it, and who leaves has the stored one while it lasts (`AnswersStored`); who is being
  answered has the latest turn of those in time (`LatestTurn`). `TurnsAreSpentOnce`
  follows from `SpentOnce`: two deliveries of one message that both paid, in time and
  without a failure or an expiry between, are the same, so all others are among the excused.
  `HistoryInOrder` needs `LatestTurn`, and that what an instance remembers is a suffix of
  what it remembered, with the new answer behind it (`RememberedIsSuffix`).
- *BuyerProofs* of the ledger. What is read of a ledger is a set, of the events ever put in
  force (`Noted`) or of those that are (`InForce`), and one lemma per operation says how it
  changes these sets, whatever the length of the ledger (`AppendForce`, `SupersedeActiveIs`,
  `StatementsIs`, `RejectionIs`, ...). A fold over a set or a sequence equals a function on
  the subsets still to be taken (`FoldExists`); what holds of that function is shown of
  every subset by looking for the smallest one without it (`NatsOf`, `SubsetsOf`), because
  the library's induction theorems, which take an operator as a parameter, cannot be used.
  Within a turn the last event of a concept that is of this turn is in force (`Settled`);
  without it a repeated statement, which is not entered again, could be lost. `LedgerInv`
  adds that the hint in question waits in the ledger, unconfirmed (`Waits`), and that a
  confirmed hint stays in force (`AgreedIsInForce`); `QuestionStaysOpen` follows
  (`QuestionFollows`). For `LedgerFollowsTheBuyer` every projection is computed from
  `InForce` (`DecisionsAre`, `CriteriaAre`), the end of a turn from what its wording stated
  (`CollectedDecides`), and each turn is one of `BuyerWishes` (`ConfirmPendingIsAgreed`,
  `RejectPendingIsRefused`, `ListenIsSaid`, ...). Assumed of a message,
  `MessagesAssumption`: only the three concepts of `ledger.ts:375` on can be freed; what it
  states that never decides (use NONE) is left out; of two statements about one concept it
  has the one made last, which supersedes the other in the same turn;
  `applyCatalogEntitySignals` makes one event per concept (`ledger.ts:1461`); equipment,
  prices and hints have fields of their own. And `HintsAreNotStated`: no weak signal has a
  concept that the turn states itself (`ledger.ts:1206` lists them).
- *BuyerProofs* of the sales request. `PageOK` types the page and what is in flight. A
  challenge is never forgotten and never un-verified, and a verification exists only for a
  verified one (`ChallengesOK`); each step keeps the challenges and accepts a code only
  below the limit of attempts (`AllKept`). So what stores a request has a fresh verification
  in hand, and the stored phone stays the verified one (`RecordsOK`).
- *PaidDeliveriesProofs.* Of the outbox: one holder per row (`SoleHolder`), and inbox and
  keys agree (`InboxInv`), so a repeated send is counted once. Of invoicing: the inserted
  row has one working request (`SoleWinner`), and what the provider has follows from where
  that request stands (`RequestInv`, `OrderInv`).
- *PaidJourneyProofs* proves the composition from the theorems of its parts. Each proof
  module is instantiated with the rows the others write (`Queued` for the jobs of a
  checkout, and so on), so its lemmas speak of the journey's rows. A step of the journey
  is a step of one part and a step or a stutter of each other one: what the callback's
  transaction inserts is the worker's `Enqueue`, what the worker's inserts is the
  sender's `Post`, and the token granted to an order is the one change invoicing sees, its
  `Pay`. So the parts' invariants hold
  together (`JInv`), and `NothingForUnpaid` and `ReadyIsReadable`, which relate rows of
  different parts, follow from them; `ShownStays` also needs that a terminal job, a PAID
  order and its token stay (`StepIsFinal` of the parts). `PromiseIsKept` maps every step to
  `PaidReport`: it moves one order (`OneOrderMoves`, `OneJobMoves`, `OneMailLeaves`,
  `OneInvoiceIsMade`), and that order's phase, email and invoice move as the promise
  allows.
- *ConversationProofs.* A `Good` state is one history of distinct messages, each sent
  for an earlier revision, and has learnt from these only. Every state held, stored or under way is good
  (`StatesInv`); a turn runs on the revision its message was sent for (`TurnInv`), so it
  cannot have counted that message: hence `AppliedOnce`, although the record is
  written back blindly, and hence `NeverRepeated`, which is why the look into
  `processedMessages` needs no action. Cards follow from `ConsentInv`: whatever copy, or
  request about to reveal, says REVEALED was accepted, by a message that knew the
  offer (`MadeInv`). The properties of a browser that waits are proved from `SoloInv`:
  one message is under way, the record of the instance is the state the browser holds or
  lies ahead of it by turns whose answers it never got, and what a request has computed
  is its message applied to the state that message was sent with; and from `OfferInv`:
  an offer a state shows a button for was made for that state's preferences, to which an
  acceptance adds at most what it says itself. They have the
  hypothesis `[]StaysOn(i)`: all requests of the conversation reach one instance. Without
  it they are false (finding 1), and the run bounds its waiting browsers in the same way.

The theorems without a property in PROJECT.json are type invariants, conjuncts of checked
properties, or facts proved beside them (`NeverRepeated`, `RowsHaveOneOwner`,
`WaitingJobsAreClaimable`, `TerminalStays`, `InvoiceStays`).

Model-checked only: all liveness. Every safety property and every refinement of the passing
runs is stated by a theorem.

## 6. Findings

Three runs expect a violation; PROJECT.json quotes the documents.

1. `conversation_fork`: of two overlapping turns on one revision both are answered and
   the later write drops the earlier one, which the browser has shown
   (`store.server.ts:11`).
2. `report_crash`: a worker that dies in the third attempt leaves its job RUNNING with no
   attempt left, which nothing selects (`reportJobRepository.ts:39`). The refund path is
   never shown. `JobEndsOrIsStuck` shows that this is the only way a job does not end.
3. `request_repeat`: the form sends its single-use CSRF token again, so a repeat after a
   lost answer is refused before its idempotency key is looked at (`submit/route.ts:6`).

Observed while modelling, without a run of their own. The formula in each case is a
one-line property of the module as it stands:

- *A turn whose answer was lost* is refused for ever after: the browser keeps its old
  revision, and reloading, which the message advises, does not help
  (`store.server.ts:10`; `RefusalMeansLoss` shows that a browser that waits on one instance
  is refused in no other case). A second instance's stale record can refuse a message
  although nothing was lost.
- *An offer for an extreme value* (`engine.server.ts:1605-`) has no consent button, so a yes
  to its question reaches `revealV31Offer` without accepted terms and is answered with
  V3_RECOMMENDATION_TERMS_REQUIRED.
- *An acceptance that confirms a hint.* The button sends "Evet, araç önerisini göster."
  (`CarsConversationV3.tsx:284`), and a message that begins with "Evet" also confirms the
  hint whose question is open (`ledger.ts:435`). An offer that was asked for waits for that
  question (`engine.server.ts:1417`), one made for want of a preferred brand does not (1816).
  Then the card is shown and phase 2 refuses it, because the decision changed with the click
  (`handoff.server.ts:53`).
  `CardMatchesConsent` shows that no other change comes between card and hand-off.
- *`loadOffer` prefers the local copy* (`offerGovernance.server.ts:41`). It may disagree with Redis,
  for good, after a write of Redis failed; this is why `CardsAreRevealed` speaks of Redis
  and `RevealIsConsented` of every copy. A copy has no end: it opens phase 2 when Redis,
  and so every other instance, has forgotten the offer.
- *The advisor's lock* ends after 20 seconds, also under a turn that is still at work
  (model 12, sources 4 each, Redis 2 per command), so `LiveLeaseExcludes` holds for
  requests within their lease only; `security.test.ts:43` tests that parallel turns are rejected.
- *The advisor's turns* outlive its stored answers: 24 hours at most against one
  (`security.server.ts:28`, 116). A question delivered again in between is answered anew
  and costs a second turn (`TurnsAreSpentOnce` counts it); the shipped page gives every
  question a new id (`SalesAdvisorExperience.tsx:352`). The counter's life is that of the
  hand-off which took the first turn; a hand-off of the same offer made later may be open
  longer (`handoff.server.ts:62`) and then starts to count anew. `BudgetIsKept` speaks of one counter's life.
- *A late answer in the sales form* marks a new number as verified on the page
  (`SalesRequestForm.tsx:20`), which the server then refuses: `StoredPhoneWasVerified` holds.
- *A request that dies after its claim* leaves an invoice PROCESSING
  (`issueInvoiceService.ts:19`), where `docs/paid-comparison-isbasi-invoice-runbook.md:41-42` has
  unclear outcomes in review. `ClaimIsSettled` names it as its exception.

Of the v2 conversation, by the cases that `RefusesOnlyGaps` lists (A to E) and beside it:

- *A.* After the conversation was ended for insults another insult makes an event the fold
  refuses (503), although `decide.ts:7` has an answer for that state.
- *B.* The question about a technical conflict is not chosen by `selectMaterialQuestion`, so
  once it was skipped or put off it is asked again while the conflict stays, and the
  fold refuses that (503), although its own options include skipping it.
- *C.* A reply to the token of an older offer, or to an offer whose decision was restated with
  the same values, is refused by the fold (503).
- *D.* A correction of one field that names another field's constraint passes the policy,
  which asks only that the named field has one (`policy.ts:19`), and is refused by the fold
  (503, `reducer.ts:94`). Code names the field of ten fields itself
  (`semanticCompleteness.ts:134`); for the others the model's answer decides.
- *E.* A model reference may have names of 4,000 characters in the model's answer
  (`interpretation/schema.ts:21`) and of 400 in an event (`conversationEventSchema.ts:122`): the
  turn is refused (503).
- *F.* An option answered twice is a 409 for the second sender after the first commit, and
  an acceptance repeated after the offer's expiry is a 503, although both were answered.
- *G.* A repeat that comes after the decision went away and back shows the cards of an offer
  the memory calls revoked.
- *H.* A turn between the commit of a reveal and the load of its cards leaves an answer that
  says the offer is revealed and has no cards.

Of the preference ledger; what the buyer may expect in `BuyerWishes` includes these:

- *A rejected hint* is asked about again after another hint was confirmed
  (`ledger.ts:180` looks for confirmations, not for rejections), and so is the one about
  costs after it was settled with "both". Hints in a message that arrives while
  another question is open are not recorded at all (`ledger.ts:1391`).
- *A hint without a later question* keeps the others from being asked about.
  `weakConfirmationQuestions` has no text for `urbanManeuverability`; once that hint was
  refused and is the first in the ledger, the search for the next question stops there and
  asks nothing (`ledger.ts:197`), whatever waits behind it.
- *The offer to give up the brand* is withdrawn without an answer when a declined card or
  the end of all questions sets the next pending action (`engine.server.ts:1444`, 1996).
- *A yes to the open question* drops every other statement of its message, except brands,
  models and use, which are recognised elsewhere (`ledger.ts:456`). The question stays open
  through turns that asked something else, so a later "tamam" confirms it.
- *"Bütçemi %10 artır"* starts from the last budget event whatever became of it: it brings
  back a budget that was cleared, makes an exact ceiling of an estimate (or an estimate of
  a ceiling, if worded as one: `ledger.ts:1152`), and without any budget makes one of
  10 TL (`ledger.ts:1120`), although `docs/cars-v3-phase-1-lock.md:16` has only an entered
  exact ceiling filter.
- *An estimate after an exact ceiling* leaves the ceiling in force: they are two concepts.
  `budgetMetadata` keeps the amount of a budget that was cleared (`engine.server.ts:887`).
- *A body that does not matter* ("SUV fark etmez") is first cleared and then, because the
  name is in the sentence, made a hard filter (`ledger.ts:370` and the body rule after it).
- *A tentative brand* is a hard filter if another pattern found the same brand in the same
  message: the second statement of one value counts as a repetition (`ledger.ts:297`).

## 7. Not modelled

- *iyzico webhook*: records signed provider events once and changes no order. Planned.
- *Quotes and eligibility*: one transaction of inserts under a fresh id; `IyzicoCheckout`
  starts with ready quotes. Eligibility is a pure function of catalogue data.
- *Report content, scoring, PDF*: pure computation, a step that succeeds or fails.
- *Report hand-offs and report advisor*: readers of delivered reports. Planned.
- *Phase-2 and phase-3 tokens*: signed, bound, expiring. `Conversation` has the issue of
  the first, `SalesRequest` the last as a constant; the chain is planned.
- *Advisor answers, preference language, catalogue filtering and ranking*: data and rules;
  the models have their effect as a choice. In the ledger: events that never decide, and
  the exit for `RELAX_UNSUPPORTED_EQUIPMENT`, which the engine never sets.
- *Rate limits and request checks*: the models have the refusals that matter.
- *Of v2*: how a text becomes events, which question and which vehicles are chosen
  (a choice in `DecisionTurns`), `CONSENTED` offers (never stored), a catalogue manifest
  rewritten under an unchanged release.
- *First-generation conversation*: the conversation travels in the request.
- *Catalogue and evidence pipeline, knowledge layer, listing analysis, voice
  transcription, equipment explanation, pilot archive, measurement, pages, scripts,
  outcome and learning prototypes*: offline, stateless, append-only or unused.
- *Development stores in memory* of orders, quotes and Redis: refused in production.

Abstractions inside modelled components: cryptography (a signed token is either
valid or not offered), identifiers (fresh and never guessed), amounts and fields,
which are constants of the code or data, and time, which is an event that happens
after some state was reached (`ExpireQuote`, `ExpireLease`, `ExpireOffer`, `ExpireReplay`, `ExpireCode`).

## 8. Plan

Done: the paid report end to end, its composition and its proofs; the v3 conversation,
the v2 conversation with its store, the v3 preference ledger, advisor chat and sales
request, all with their proofs.

Model next, in this order:
1. the webhook as an actor of `IyzicoCheckout`, and quote creation before it;
2. report sales and recomparison hand-offs as readers in `PaidJourney`;
3. the phase-2 to phase-3 token chain, composing `Conversation`, `AdvisorChat` and
   `SalesRequest` the way `PaidJourney` composes its parts;
4. the scoring of the report, as functions checked against a reference definition;
5. rate limits, Redis and in-memory.

Prove next: the safety of those parts, each with its model. Of what is modelled, every safety
property is proved.
