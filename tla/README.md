# Addition of Rider: specification, model checking and proofs

This directory specifies the core of MOHProject in TLA+: the *Addition of
Rider* journey of a health-insurance policy. Riders of a policy are declined,
postponed, not taken up (NTU) or re-added; underwriters (UW) decide; the policy
moves between substatuses; letters go to the customer and reminders follow
them. The logic is small, but it is spread over pure evaluators, seven
entry-point handlers, five command handlers, a letter generator, a reminder
scheduler and an ORM with optimistic locking, and its failures are sequences of
legal commands or interleavings of two requests. That is what is modelled here.

Paths below are relative to the repository.

## 1. The system

| Part | State it keeps | Operations | Talks to |
|---|---|---|---|
| Plan and UW evaluators (`MOHProject.Domain/Services/*Evaluator.cs`) | none | composition, UW fields, next substatus, letter type, `EvaluateAfterAction` | called by the commands |
| Entry-point handlers and registry (`.../EntryPoints/*.cs`) | none | `Handle(policy, decision)`: a directive | called by `UwDecisionCommand` |
| Commands (`MOHProject.Application/Features/AdditionOfRider`) | none of their own; they change policy, plans, UW state | UwDecision, MarkRiderStatus, ReAddRider, ResubmitForManualUw, SaveUnderwritingTab | evaluators, generator, scheduler, repository, audit, unit of work |
| Letter generator (`EfLetterGenerator`) | Letters, LetterPlans | generate (supersede, choose plans, insert) | reminder scheduler |
| Reminder scheduler (`EfReminderScheduler`) | Reminders | schedule, cancel for a letter, cancel all | database |
| Persistence (`EfUnitOfWork`, `EfPolicyRepository`, `EfAuditTrailWriter`, `AppDbContext`) | the tables; `Policy.RowVersion` | transaction, load, save, audit entry | SQL Server |
| Policies API (`PoliciesController`) | none | five POST endpoints, each loading the policy before the command runs | commands |
| Premium collection (`PremiumCollection`, `PremiumCollectionRecalculator`, `Money`) | amounts to collect, collected, unallocated | recalculate (called by no command); the shortfall is read by the evaluators | evaluators, through `PolicyContext` |
| Dashboard, seed data, wiring, migrations | - | read-only pages, start-up | - |

**What is hard.** (a) *Long sequences*: the acceptance gate, the UW fields and
the letters must stay consistent through any history of rider changes,
decisions, customer replies and payments. (b) *Order within a command*: a
rider's new status must be visible to the letter generator and the evaluator.
(c) *Concurrency*: the controller loads the aggregate, in more than one read,
before the transaction opens, payments arrive at any time, and only an UPDATE of
the `Policies` row compares a version. (d)
*Failure*: a request may die anywhere; two handlers save and audit in two
separate commits. (e) *Progress*: some substatuses accept no decision, and a
request may be refused, throw or lose a version conflict. (f) *Money*: the
recalculator may run any number of times, or not at all, between rider changes,
payments and refunds. The complete list, line by line, is `hazards` in `PROJECT.json`.

**What makes each part correct.** Evaluators: the acceptance gate cannot be
passed with terms open, and an answer does not outlive its exclusions.
Handlers: a decision at an entry substatus yields a known substatus, letter and
UW fields. Commands: riders, substatus, UW fields and customer letters change
together. Letters: one current letter of a type, reminders only of current
letters, the right plans. Persistence: concurrent requests are equivalent to
some serial order, and a dead one leaves nothing. Premiums: the shortfall is
what is owed on each side, and excess money is neither lost nor booked twice.

## 2. The modules

    Evaluators          pure domain services, the vocabulary of the model
      |-- EntryPoints   the seven handlers and the registry
      |-- Letters       letter rows, supersession, reminders
           |
           |-- SerialPolicy        abstract specification: one policy, one change at a time
           |-- AdditionOfRider     the five commands, one transaction = one action
           |     |-- MCAdditionOfRider       small instances
           |     |     |-- DocumentedRules   rules of the documents the code does not keep
           |     |     |-- LifecycleEnds     one more such rule, with a history variable
           |     |-- PremiumGate       the commands next to the premium table
           |     |     |-- MCPremiumGate     small instance
           |-- PolicyCommands      the same commands as concurrent requests
                 |-- MCPolicyCommands        small instances

    Premiums            the premium collection table and its recalculator
      |-- MCPremiums    small instance
      |-- (PremiumGate) takes its table from here

    Services_proofs           lemmas about Evaluators and EntryPoints
      |-- AdditionOfRider_proofs   invariants and action properties
      |     |-- SerialSteps_proofs      AdditionOfRider implements SerialPolicy
      |     |-- PremiumGate_proofs      the commands with the premium table
      |-- PolicyCommands_proofs    invariants of concurrent requests
            |-- Serializable_proofs     PolicyCommands implements SerialPolicy
    Premiums_proofs           the premium table

**Evaluators.** `Composition`, `UwFieldStates`, `NextSubstatus`,
`LetterToGenerate` are the four evaluators, `EvaluateAfterAction` their
orchestrator. The input of a `PolicyContext` and the risk flags of the plans are
the record `facts`: which plans carry a loading or an exclusion, FR x FR
residency, a positive shortfall, renewal. Amounts appear only through the sign
of the total shortfall, which is all the commands read.

**EntryPoints.** One operator per handler, returning the directive
`[override, uw, letter]`. The flags for IP records and base recalculation only
reach the audit payload and are left out.

**Letters.** A letter row is `[type, current, plans, scheduled]`. The two
reminders of a letter are always scheduled and cancelled together, so
`scheduled` is one flag; dates are left out. A row that is neither current nor
scheduled is never read again and is dropped (`Live`). Two letters of one type
that are both current and equal in every field would be one element of the set;
the serial commands cannot produce two such rows, and `PolicyCommands`, whose
requests can, gives rows an identity.

**AdditionOfRider.** The state is one policy: `facts`, `status` (of every
plan), `earlierCycle` (the plans whose `StatusChangedAt` predates
`UwCompletedAt`), `substatus`, `uw`, `letters`, and `audited`, the substatus the
last audit entry accounts for. `UwDecision(d)`, `MarkRiderStatus(r, target)`,
`ReAddRider(r)`, `ResubmitForManualUw`, `SaveUnderwritingTab` are the handlers,
whole; `Reassess` is the tail the first three share (evaluate, apply, main
letter with its reminders, cancel, save, audit). `CustomerAccepts`,
`CashCollected`, `CpfRejects` and `UwCycleCompletes` (which stamps
`UwCompletedAt`) are writes by systems outside the repository that the code
reads; they are marked external in the map.

**SerialPolicy.** What the layer promises about riders, substatus, UW fields and
customer mail: a rider changes and all four follow at once, or UW decides, or
evidence is awaited, or the policy goes to manual underwriting; other systems
record a reply, a payment or a rejected deduction. No decision letters, audit,
transactions, requests.

**PolicyCommands.** `Post` accepts a request and reads the `Policies` row with
the `UWState` row it points to; `ReadJoined` reads the plan and premium rows
joined to it, as committed by then. Entity Framework's query for the aggregate
drives its joins from the one policy it selects, so the policy row is the older
of the two. A request is then `Refuse`d, or issues its decision letter
(`IssueDecisionLetter`), and takes one of three branches: `Evaluate`,
`TakeOverride`, or `EvaluatorThrows` when no plan is Active. It ends in `Commit`
or `Conflict`; the two commands without a transaction `SaveRow`, or `Conflict`,
and then `WriteAudit`. `Die` ends a request anywhere. The rows a request works
on are those of its snapshot (Entity Framework returns the tracked instances),
but the letters it supersedes and the reminders it cancels are read from the
committed tables when they are needed. `Commit` writes only the columns that
differ from the snapshot and compares `version` only if the `Policies` row is
among the writes: always after an evaluation, because a fresh `UWState` row
changes `Policy.UwStateId`; otherwise only when the substatus changes.
`CashCollected` may happen at any moment of any request; `PremiumCollection`
carries no version, so a request may commit an evaluation that missed it. The
history variable `billed` is the shortfall the last committed evaluation went
by, which is what places the payment in the serial order. An UPDATE takes its
row lock before commit in the code, and the version check happens then; since
nobody can update the row between that check and the commit, the model checks at
the commit. The locks of uncommitted inserts are not modelled: a request reads
the committed letters at the moment of its query, which every blocked reader
also does, later.

**Premiums.** The columns of the table, and history variables for what must not
be lost: the unallocated cash the policy came with, what was refunded, the
largest excess a recalculation ever returned, and whether a recalculation has
seen the plans as they are. `Recalculated` is the whole of
`PremiumCollectionRecalculator.Recalculate`; riders leave and return, payments
and refunds are booked between its calls in any order. Amounts are whole units
of one currency: the code creates no other, and `Money` refuses to mix two.

**PremiumGate.** `AdditionOfRider` next to the table: `facts.shortfall` is
`TotalShortfall.IsPositive` of a table that only payments change, since no
command calls the recalculator. Payments of either side, in any amounts, take
the place of `CashCollected`, and the composition implements `AdditionOfRider`:
one flag is all the commands need to know of the table.

Operators whose comment starts with *Mutant:* are plausible bugs. They are used
by no specification; `PROJECT.json` names, for every property of a passing run,
the definition such an operator replaces and so breaks the property.

## 3. What the runs check

| Run | Instance | Shows |
|---|---|---|
| `one_rider` (`OneRider.cfg`) | base + 1 rider of every risk profile and context, statuses Active/Draft/NTU, with the premium table; all decisions and mark targets but Postponed | `TypeOK`; `TermsAcceptedBeforeIssue`: cash, IP file or inception only with nothing left to accept; `NoRemindersAwaitingAps`; `LettersSuperseded`; `EvaluatorIdempotent`: evaluating again what an evaluation produced changes nothing; `NoticeNamesRider`: a rider that leaves is named by the letter of the same transaction; `OnlyManualRoutingUnaudited`; `PaidBeforeIssue`: IP file or inception only with both sides of the premium paid; `ImplementsAdditionOfRider`: the table behind the one flag changes nothing the commands can see |
| `two_riders` (`TwoRiders.cfg`) | base + 2 riders of different profiles, Active or Draft to begin with, several UW cycles | `UwFieldsMatchPlans`; `CurrentLetterCoversActive`; `NoticesOmitEarlierCycles`: a decision letter lists no rider of an earlier cycle; `ExclusionAsksAgain`: an exclusion that comes back to an all-standard policy goes to the customer again; `CustomerIsReminded`: a policy that comes to wait for its customer has a current letter over its Active plans with reminders scheduled; `ImplementsSerialPolicy`: refinement of `SerialPolicy` |
| `contended` (`Contended.cfg`) | 2 request slots, 3 commands, base + 2 riders, a payment | `TypeOK`, `UwFieldsMatchPlans`, `TermsAcceptedBeforeIssue`, `CustomerIsReminded`, `NoRemindersAwaitingAps`, `CustomerLettersSuperseded`, `CurrentLetterCoversActive`, `NoticeNamesRider` and `ExclusionAsksAgain` under interleaving, split loads, conflicts and death of requests; `AuditNamesOutcome`: the audit entry of a transaction names the substatus it leaves; `Serializable`: refinement of `SerialPolicy` with `mail` the customer letters |
| `premium_table` (`PremiumTable.cfg`) | base + 2 riders with premiums 2, 1, 2 | `TypeOK`: no amount below zero; `ShortfallIsOwed`: bucket by bucket; `ExcessIsKept`: excess once detected is never lost |
| `shortfall_first` | 1 rider | violated: *a shortfall decides the substatus before acceptance does* |
| `old_reminders` | 1 rider | violated: *new LOA stops the reminders of the old CLOA* |
| `unaudited_routing` | 1 rider | violated: *substatus transitions are recorded in AuditEntries* |
| `manual_underwriting` | 1 rider, fair | violated: *manual underwriting ends in a decision* |
| `ended_rider` | 1 rider | violated: *a terminated rider stays terminated* |
| `two_notices` | 2 slots, 2 commands | violated: *one current letter of a type* |
| `excess_twice` | the table of `premium_table` | violated: *only newly detected excess is moved* |
| `cash_not_owed` | 1 rider and the table | violated: *a rider change recalculates the premium first* |

The last eight are disagreements between the code and its own documents or
comments; `findings` in `PROJECT.json` quotes both sides.

In `shortfall_first` the documents disagree with each other. The flowchart
"Terminal substatus decision" of `src/docs/specs/domain-model.md:268-277` sends
every shortfall to `PendingCashCollection` and looks at the acceptance only when
nothing is owed. FR-AOR-032
(`src/docs/specs/sections/section-1-addition-of-riders.md:74-85`), which the code
names as its source, asks for the acceptance first. `TermsAcceptedBeforeIssue`,
which counts cash collection as past the acceptance gate, and the half of
`ExclusionAsksAgain` where cash is outstanding state FR-AOR-032; under the
flowchart they would fail, as the mutant `NextSubstatusCashFirst` of the former
shows. For the IP file and inception both documents ask for the acceptance.

A second disagreement lies in what counts as terms. FR-AOR-060 keeps the RCMP
flag of a renewal whose base carries a loading, because the "composition is
still HasRcmp", and `UwFieldStatesEvaluator.cs:18-32` says so too. FR-AOR-032 and
`NextSubstatusEvaluator` go by the composition of the exclusions alone: such a
policy, when all-standard, is issued and gets an LOA although its RCMP flag is
ticked and its answer blank. `TermsAccepted` follows FR-AOR-032 and the code
here: no document says whether the retained flag calls for an answer.

Three more were met and have no run, because a property would only restate a
missing guard or statement: an adverse UW decision leaves the riders Active, although
`src/MOHProject.Domain/Services/EntryPoints/EntryPointDirective.cs:10` expects
the caller to change them; `MarkRiderStatus` looks at no substatus, although
FR-AOR-070 allows Declined and Postponed at two substatuses only; and the audit
entry of a decision that stays at its substatus may name one that a concurrent
request has left, the single exception `AuditNamesOutcome` makes.

**Bounds.** `AdditionOfRider` is finite without any bound: its runs explore
every history. One rider with every profile meets every row of the evaluators'
tables; two riders are needed for compositions that change into each other
(RCMP to exclusion-only and back) and for letters that list several plans. A
third rider adds no composition and no letter type. `MarkTargets` and
`Decisions` of `two_riders` leave out decisions that differ from the included
ones only in the decision letter's name, which `one_rider` covers; `one_rider`
in turn leaves out Postponed, which differs from Declined in nothing but its
name and its letter's, and which the theorems cover. The fact sets
take one of each class the evaluators can tell apart: a plan's loading counts
next to an exclusion of the same plan, or as the loading of a renewal's base, and
a renewal counts only with that loading (`OneRiderFacts`, `TwoRiderFacts`).
In `PolicyCommands` `MaxCommands` bounds the commands posted (3): enough for a
command that finds the effect of two others, and for a conflict between two
commands that follow a third. A behaviour stops when the bound is reached, so
deadlock is not checked there; it is in the other passing runs. Request slots
are symmetric. Initial substatuses of `contended` are one that no decision
leaves, one whose decisions all go to the evaluator, and one with overrides; its
initial plans include Draft riders, without which saving the UW tab is refused.
In `Premiums` `MaxCash` (6) bounds what is collected on either side, refunded
and unallocated: twice what both riders cost, so that a side can be overpaid,
lose its riders and be overpaid again. The tables a policy comes with
(`SmallOpenings`) include ones no recalculation has brought up to date. In
`one_rider` and `cash_not_owed` a premium is one unit and at most one unit is
collected on a side: paid or unpaid is all the evaluators tell apart, and a side
on which nothing is due can still be overpaid. Partial payments and larger
premiums are the theorems' part.

**Initial states.** A policy as another journey left it: UW fields as the
evaluators would give, any substatus that fits them, no letter of this journey.
Nobody sent the policy past the acceptance gate with terms open before, in
`PolicyCommands` as in `AdditionOfRider`. Next to the premium table, what is to
collect covers the Active plans and perhaps riders that have left since, as in
the seeded policy (`DemoSeeder.cs:50-57`), whose 480 to collect are its Active
and its declined rider.

**Fairness.** `manual_underwriting` assumes weak fairness of *some* UW decision,
i.e. underwriters do not stop sending decisions while one would be accepted. The
code schedules nothing itself, so nothing more can be justified: that a client
posts a lost command again, or a customer ever answers, is not assumed, and no
liveness property that needs it is claimed. That a request ends is not checked
either: handlers neither wait, lock nor retry, so under fairness it holds by the
shape of the model.

## 4. What is proved

Every theorem holds for every value of the constants that the named assumptions
allow; TLC evaluates the assumptions in each run.

**`AdditionOfRider_proofs`**: every set of plans with a base (`BaseAssumption`)
and every `InitialFacts`, `InitialStatus`, `Decisions`, `MarkTargets`
(`InputAssumption`).

* `TypeCorrect`, `FieldsMatch`, `AcceptedBeforeIssue`, `RemindersStop`,
  `LettersSupersede`, `LetterCoversActive`, `EvaluatorStable`: the invariants of
  `one_rider` and `two_riders`. The inductive invariant `IInv` is the
  conjunction of the safety invariants: hardly one is inductive alone (the gate
  needs the type of the UW fields, the letters' plans need the composition the
  UW fields record). The argument follows the code: lemmas about the evaluators
  and the handlers (`Services_proofs`), the letter generator (`GenerateResult`)
  and the shared tail (`ReassessResult`), then one lemma per command.
* `NoticesNameRiders`: the notice survives the main letter that is generated
  after it, since types differ.
* `NoticesOmitEarlier`: a letter lists only riders changed in the current cycle,
  and an earlier notice is superseded or stays as it was.
* `ExclusionsAskAgain`: needs a second invariant, `AInv` (an all-standard policy
  waits for no acceptance and, renewals aside, holds no answer), inductive
  relative to `IInv`.
* `CustomersReminded`: an evaluation that ends at a substatus with a letter
  generates the letter of the new composition, and schedules its reminders in
  every such case (`EvaluatorReminds`: the command's schedule rule covers all
  the substatuses the evaluator can give there).
* `RoutingAloneUnaudited`: by cases on the actions.

**`SerialSteps_proofs`**: `CommandsSerial`, `Spec => ImplementsSerialPolicy`.
The decision letter of a command leaves the customer mail alone
(`NoticeLeavesMail`), the main letter and the cancellation commute with the
projection to mail (`MailGenerated`, `MailCancelled`); the latter needs that
every kept letter is current (`CInv`). Each command then maps to one abstract
step.

**`PolicyCommands_proofs`**: any set of request slots, commands and initial
policies, and any `MaxCommands`.

* `RowsTyped`, `FieldsMatch`, `AcceptedBeforeIssue`, `CustomersReminded`,
  `RemindersStop`, `LettersSupersede`, `LetterCoversActive`, `NoticesNameRiders`,
  `ExclusionsAskAgain`, `AuditAccurate`: every safety property of `contended`.
* The inductive invariant joins types, the safety invariants of the committed
  rows and `Requests`, which says of each slot what its private snapshot and
  pending writes are worth. The substatus and fields it will write are what the
  evaluator, or the override, makes of the snapshot; and *if the version is
  still that of the snapshot*, then substatus, UW fields and plans of the
  snapshot are the committed ones and the rows to be superseded, or cancelled,
  include every committed one they should. It is a
  rely-guarantee argument: `Later` says how the committed rows may differ after
  a step of somebody else (the version has grown, or nothing but decision
  letters, the audit entry and the payment has changed), `Interference` shows
  that a request's assertion survives that, and every committing action is shown
  to be `Later` for all the others, because every evaluating commit increments
  the version. A snapshot read in two parts is covered by the same clause: the
  version is read first, so plans read late belong to a version that has grown.
* Three parts of the invariant are there for the newer results. `NamesRider`
  keeps the decision letter of a marked rider among the pending writes until the
  commit. `AnswerBlanked` says an all-standard policy holds no answer, renewals
  aside: `ExclusionsAskAgain` follows from it because a commit that evaluates has
  the committed version, hence the committed answer, in its snapshot.
  `CustomerIsReminded` survives a commit that evaluates because that commit
  issues the letter itself, and one that does not because it supersedes and
  cancels no customer letter without moving the policy on (`MainRowsSurvive`).

**`Serializable_proofs`**: `RequestsSerializable`, `Spec => Serializable`. The
serial order is the order of commits. An evaluating commit maps to one step of
`SerialPolicy`; it takes the payment with it if its snapshot saw it, which is
what `billed` records. An override that stays, a refused, conflicting or dead
request map to stuttering. A letter row has an identity in `PolicyCommands` and
none in `SerialPolicy`, so the lemmas `MailElements`, `MailWritten`,
`MailGenerated` relate the pending writes to `Generate` on sets. In both
refinement modules `SameEvaluator`, `SameHandlers`, `SameMail` show that the
services inside the INSTANCE are the module's own.

**`Premiums_proofs`**: `AmountsTyped`, `ShortfallSettled`, `ExcessKept`, for
every set of plans, premiums, tables and payments; and `RecalculatedTwice`, of
the operator alone: a second recalculation over the same plans finds the same
excess, adds it to the unallocated cash again and changes nothing else. The run
`excess_twice` shows one instance of it. `PremiumAssumption` includes
that a sum of premiums is a natural number: it follows from the premiums being
so, by an induction over finite sets that the prover cannot do, and TLC
evaluates it.

**`PremiumGate_proofs`**: every premium, every payment and every `MaxCash`
(`TableAssumption`). The invariant adds `TableInv` to that of `AdditionOfRider`:
the flag is the sign of the total shortfall. `PaymentReduces` shows that no
payment brings a shortfall back, so a payment is a `CashCollected` step or
changes nothing the commands read; hence `TableImplements`, and with it every
theorem of `AdditionOfRider` holds next to the table. `PaidFor` (`PaidBeforeIssue`)
rests on `IssueStep`, that only the evaluator sends a policy to its IP file or to
inception and that it asks for the flag first, and on `ShortfallByBucket`, that
a total of zero means both sides are paid.

Only model-checked: liveness (the run `manual_underwriting`), which is outside
the prover's reach as ENABLED is, and the violated properties, whose counterexamples need no proof. Every safety and
action property of a passing run, and every refinement, is proved.

## 5. What is not modelled

* **The refund letter a recalculation asks for** (`RefundLetterRequired`): no
  command reads it, as none calls the recalculator.
* **Delivery of reminders**: no job sends them in this code base; nothing reads
  the schedule. Their dates and the two rows of a letter are one flag.
* **Database locks**: commits are ordered, blocked readers read later; a
  deadlock victim is a request that dies.
* **Replies and CPF rejections during a request**: `PolicyCommands` interleaves
  payments with requests, not `CustomerAccepts` or `CpfRejects`. `UWState` has no
  concurrency token, and whether the system that records a reply also touches
  the `Policies` row, which decides whether a request can overwrite that reply,
  is not in this code base.
* **A joined row older than the policy row**: the load is one SQL statement, and
  `PolicyCommands` assumes that it reads the policy row first. Nothing in the
  code orders the two; read the other way round, plans older than the version
  would pass the version check (the mutant `ReadJoinedLateVersion`).
* **A premium the table lacks**: `PaidBeforeIssue` is about what the table shows.
  No command recalculates it, so a re-added rider the table does not have is
  issued unpaid.
* **Retries**: the code retries nothing after a conflict, a client's second
  attempt is another command.
* **The GET endpoint, dashboard pages, argument parsing, error formatting**:
  read-only or pure I/O.
* **Audit payload, IP-record flags, acknowledgement page, risk category**: data
  no command reads.
* **Seed data, wiring, migrations**: start-up and generated schema; which
  handlers are registered and what a seeded policy looks like is used by
  `EntryPoints` and `Init`.
* **`wwwroot`**: the only JavaScript is the vendored jQuery unobtrusive
  validation, third-party code that no view of the repository loads, and
  `site.js`, which holds comments. The program itself is written in C#, and the
  map covers its C# sources; a count of JavaScript lines covered is therefore
  zero.

## 6. Plan

Done: `Evaluators`, `EntryPoints`, `Letters`, `AdditionOfRider`, `SerialPolicy`,
`PolicyCommands` with split loads and payments, `Premiums`, `PremiumGate`; both
refinements of `SerialPolicy`, and the one of `AdditionOfRider` by
`PremiumGate`, checked and proved; every safety property of the passing runs
proved.

Left:

1. **Premiums in the commands**: should a command call the recalculator one day,
   `PremiumGate` is where its call belongs; `cash_not_owed` then turns into a
   passing run, `TableInv` needs the recalculated table, and the theorems of
   `Premiums` compose with those of `PremiumGate_proofs`.
2. **Reminders as rows**, with dates: the two reminders of a letter and the
   offsets, once a job reads them.
3. **Several UW cycles under concurrency**: `PolicyCommands` has a single cycle,
   since the code base itself never writes `UwCompletedAt`.
4. **The audit trail as a sequence**, with its entries in the order of commits.
