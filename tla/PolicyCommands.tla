--------------------------- MODULE PolicyCommands ---------------------------
(***************************************************************************)
(* The commands of AdditionOfRider as requests that run at the same time.  *)
(* A request loads the policy into its own DbContext before its database   *)
(* transaction opens: the Policies row first, then the rows joined to it,  *)
(* each as committed when it is read.  It works on that snapshot, reads    *)
(* the letters table when a letter is generated, and commits.  Payments    *)
(* arrive at any time and touch the premium table only.  Policy.RowVersion *)
(* is the only concurrency token, and only an UPDATE of the Policies row   *)
(* compares it: an evaluating command inserts a fresh UWState row, which   *)
(* changes Policy.UwStateId; any other command updates the row only when   *)
(* it changes Policy.Substatus.  No UW cycle has completed yet, so every   *)
(* plan counts for decision letters.                                       *)
(***************************************************************************)
EXTENDS EntryPoints, Letters, Naturals

CONSTANTS
  Sessions,        \* request slots of the web server
  InitialFacts, InitialPlans, InitialSubstatus,
  Commands,        \* commands clients may post
  MaxCommands      \* bound on the commands posted in a behaviour

ResubmitAllowedFrom ==
  { "PendingUwAps", "ConditionalAcceptanceLetterGenerated",
    "PendingCashCollection", "PendingIpRequestFile" }

\* The five POST endpoints of PoliciesController and their arguments.
CommandType ==
  [kind : {"UwDecision"}, decision : UwDecisions]
    \cup [kind : {"MarkRiderStatus"}, rider : Riders, target : AdverseDecisions]
    \cup [kind : {"ReAddRider"}, rider : Riders]
    \cup [kind : {"ResubmitForManualUw", "SaveUnderwritingTab"}]

ASSUME InputAssumption ==
  /\ InitialFacts \subseteq Facts
  /\ InitialPlans \subseteq [Plans -> ProductStatus]
  /\ InitialSubstatus \subseteq PolicySubstatus
  /\ Commands \subseteq CommandType
  /\ MaxCommands \in Nat

VARIABLES
  facts, status, substatus, uw, letters, audited,   \* committed rows
  version,   \* Policy.RowVersion
  session,   \* the request each slot runs
  started,   \* commands posted so far; numbers the letters of a command
  billed     \* history: the shortfall the last committed evaluation went by

policy == <<status, substatus, uw, version, billed>>
vars == <<facts, status, substatus, uw, letters, audited, version, session,
          started, billed>>

Idle == [pc |-> "idle"]

\* The Policies row with the UWState row it points to, which no command
\* updates in place.
PolicyRow == [substatus |-> substatus, uw |-> uw, version |-> version]

\* The aggregate: the policy row with the Plans and PremiumCollections rows
\* committed now.
Snapshot(row) ==
  [ substatus |-> row.substatus, uw |-> row.uw, version |-> row.version,
    status |-> status, shortfall |-> facts.shortfall ]
-----------------------------------------------------------------------------
(***************************************************************************)
(* What a request computes from its snapshot.                              *)
(***************************************************************************)
Directive(snap, cmd) == Handle(snap.substatus, snap.uw, cmd.decision)

\* The guards a handler checks on the snapshot before it writes anything.
\* Saving the UW tab without a draft plan returns without effect.
Admitted(snap, cmd) ==
  CASE cmd.kind = "UwDecision"          -> Routable(snap.substatus, cmd.decision)
    [] cmd.kind = "MarkRiderStatus"     -> TRUE
    [] cmd.kind = "ReAddRider"          -> snap.status[cmd.rider] \in AdverseDecisions
    [] cmd.kind = "ResubmitForManualUw" -> snap.substatus \in ResubmitAllowedFrom
    [] cmd.kind = "SaveUnderwritingTab" -> \E p \in Plans : snap.status[p] = "Draft"

\* Plan statuses as the tracked entities show them to the evaluator.
PlansAfter(snap, cmd) ==
  CASE cmd.kind = "MarkRiderStatus" -> [snap.status EXCEPT ![cmd.rider] = cmd.target]
    [] cmd.kind = "ReAddRider"      -> [snap.status EXCEPT ![cmd.rider] = "Active"]
    [] OTHER                        -> snap.status

DecisionLetterOf(snap, cmd) ==
  CASE cmd.kind = "UwDecision"      -> Directive(snap, cmd).letter
    [] cmd.kind = "MarkRiderStatus" -> DecisionLetterFor(cmd.target)
    [] OTHER                        -> None

OverrideOf(snap, cmd) ==
  IF cmd.kind = "UwDecision" THEN Directive(snap, cmd).override ELSE None

FieldsBefore(snap, cmd) ==
  IF cmd.kind = "UwDecision" THEN Directive(snap, cmd).uw ELSE snap.uw

\* The PolicyContext of the evaluator: risks and residency never change, the
\* shortfall is the one that was loaded.
Context(snap) == [facts EXCEPT !.shortfall = snap.shortfall]

Evaluation(snap, cmd) ==
  EvaluateAfterAction(Active(PlansAfter(snap, cmd)), FieldsBefore(snap, cmd), Context(snap))
-----------------------------------------------------------------------------
(***************************************************************************)
(* The pending writes of a transaction: rows superseded, rows whose        *)
(* reminders are cancelled, letters inserted, and the policy's new values. *)
(***************************************************************************)
NoWrites == [superseded |-> {}, cancelled |-> {}, issued |-> {}]

RowKey(l) == <<l.id, l.type>>
CurrentKeys(type) == {RowKey(l) : l \in {m \in letters : m.current /\ m.type = type}}
ScheduledKeys     == {RowKey(l) : l \in {m \in letters : m.scheduled}}

NewLetter(no, type, st, remind) ==
  [ id |-> no, type |-> type, current |-> TRUE,
    plans |-> IncludedPlans(type, st, {}), scheduled |-> remind ]

\* EfLetterGenerator.GenerateAsync inside a transaction, reading the letters
\* committed at this moment.
WithLetter(tx, no, type, st, remind) ==
  [ superseded |-> tx.superseded \cup CurrentKeys(type),
    cancelled  |-> tx.cancelled,
    issued     |-> tx.issued \cup {NewLetter(no, type, st, remind)} ]

\* A letter row, and the letters table, once the transaction is committed.
Rewritten(tx, l) ==
  [l EXCEPT !.current = @ /\ RowKey(l) \notin tx.superseded,
            !.scheduled = @ /\ RowKey(l) \notin tx.superseded \cup tx.cancelled]

Written(tx) == Live({Rewritten(tx, l) : l \in letters}) \cup tx.issued
-----------------------------------------------------------------------------
\* PoliciesController.ResolveIdAsync loads the whole aggregate, the handler's
\* GetByIdAsync returns the same tracked instance.  The query reads the
\* Policies row ...
Post(s, cmd) ==
  /\ session[s] = Idle
  /\ started < MaxCommands
  /\ started' = started + 1
  /\ session' = [session EXCEPT ![s] =
       [pc |-> "reading", cmd |-> cmd, no |-> started', row |-> PolicyRow]]
  /\ UNCHANGED <<facts, policy, letters, audited>>

\* Mutant: the version is that of a row read after the plans.
ReadJoinedLateVersion(s) ==
  LET q == session[s]
  IN  /\ q.pc = "reading"
      /\ session' = [session EXCEPT ![s] =
           [ pc |-> "loaded", cmd |-> q.cmd, no |-> q.no,
             snap |-> [Snapshot(q.row) EXCEPT !.version = version],
             tx |-> NoWrites ]]
      /\ UNCHANGED <<facts, policy, letters, audited, started>>

\* ... and then the rows joined to it.
ReadJoined(s) ==
  LET q == session[s]
  IN  /\ q.pc = "reading"
      /\ session' = [session EXCEPT ![s] =
           [ pc |-> "loaded", cmd |-> q.cmd, no |-> q.no,
             snap |-> Snapshot(q.row), tx |-> NoWrites ]]
      /\ UNCHANGED <<facts, policy, letters, audited, started>>

\* A guard of the handler throws, or the handler returns early.
Refuse(s) ==
  /\ session[s].pc = "loaded"
  /\ ~Admitted(session[s].snap, session[s].cmd)
  /\ session' = [session EXCEPT ![s] = Idle]
  /\ UNCHANGED <<facts, policy, letters, audited, started>>

InTransaction(cmd) == cmd.kind \in {"UwDecision", "MarkRiderStatus", "ReAddRider"}

\* Mutant: the decision letter lists the plans before the rider has changed.
IssueDecisionLetterOldPlans(s) ==
  LET q == session[s]
      type == DecisionLetterOf(q.snap, q.cmd)
  IN  /\ q.pc = "loaded"
      /\ InTransaction(q.cmd)
      /\ Admitted(q.snap, q.cmd)
      /\ session' = [session EXCEPT ![s] =
           [ pc |-> "decided", cmd |-> q.cmd, no |-> q.no, snap |-> q.snap,
             tx |-> IF type = None THEN q.tx
                    ELSE WithLetter(q.tx, q.no, type, q.snap.status, FALSE) ]]
      /\ UNCHANGED <<facts, policy, letters, audited, started>>

\* The decision letter, generated first.
IssueDecisionLetter(s) ==
  LET q == session[s]
      type == DecisionLetterOf(q.snap, q.cmd)
  IN  /\ q.pc = "loaded"
      /\ InTransaction(q.cmd)
      /\ Admitted(q.snap, q.cmd)
      /\ session' = [session EXCEPT ![s] =
           [ pc |-> "decided", cmd |-> q.cmd, no |-> q.no, snap |-> q.snap,
             tx |-> IF type = None THEN q.tx
                    ELSE WithLetter(q.tx, q.no, type, PlansAfter(q.snap, q.cmd), FALSE) ]]
      /\ UNCHANGED <<facts, policy, letters, audited, started>>

\* Mutant: only a changed substatus updates the policy row, as if the UW fields
\* were columns of another table.
EvaluateWithoutToken(s) ==
  LET q == session[s]
      st == PlansAfter(q.snap, q.cmd)
      e == Evaluation(q.snap, q.cmd)
  IN  /\ q.pc = "decided"
      /\ OverrideOf(q.snap, q.cmd) = None
      /\ Active(st) # {}
      /\ session' = [session EXCEPT ![s] =
           [ pc |-> "evaluated", cmd |-> q.cmd, no |-> q.no, snap |-> q.snap,
             tx |-> IF e.letter = None THEN q.tx
                    ELSE WithLetter(q.tx, q.no, e.letter, st,
                                    ShouldScheduleReminders(e.letter, e.uw, Context(q.snap))),
             uw |-> e.uw, substatus |-> e.substatus,
             updatesPolicy |-> e.substatus # q.snap.substatus ]]
      /\ UNCHANGED <<facts, policy, letters, audited, started>>

\* The evaluator's branch: new UW fields and substatus, main letter, reminders.
Evaluate(s) ==
  LET q == session[s]
      st == PlansAfter(q.snap, q.cmd)
      e == Evaluation(q.snap, q.cmd)
  IN  /\ q.pc = "decided"
      /\ OverrideOf(q.snap, q.cmd) = None
      /\ Active(st) # {}
      /\ session' = [session EXCEPT ![s] =
           [ pc |-> "evaluated", cmd |-> q.cmd, no |-> q.no, snap |-> q.snap,
             tx |-> IF e.letter = None THEN q.tx
                    ELSE WithLetter(q.tx, q.no, e.letter, st,
                                    ShouldScheduleReminders(e.letter, e.uw, Context(q.snap))),
             uw |-> e.uw, substatus |-> e.substatus, updatesPolicy |-> TRUE ]]
      /\ UNCHANGED <<facts, policy, letters, audited, started>>

\* The evaluator throws when no plan is Active: rolled back.
EvaluatorThrows(s) ==
  LET q == session[s]
  IN  /\ q.pc = "decided"
      /\ OverrideOf(q.snap, q.cmd) = None
      /\ Active(PlansAfter(q.snap, q.cmd)) = {}
      /\ session' = [session EXCEPT ![s] = Idle]
      /\ UNCHANGED <<facts, policy, letters, audited, started>>

\* The override branch: only a changed substatus updates the policy row.
TakeOverride(s) ==
  LET q == session[s]
      next == OverrideOf(q.snap, q.cmd)
  IN  /\ q.pc = "decided"
      /\ next # None
      /\ session' = [session EXCEPT ![s] =
           [ pc |-> "evaluated", cmd |-> q.cmd, no |-> q.no, snap |-> q.snap,
             tx |-> IF next = "PendingUwAps"
                    THEN [q.tx EXCEPT !.cancelled = @ \cup ScheduledKeys] ELSE q.tx,
             uw |-> q.snap.uw, substatus |-> next,
             updatesPolicy |-> next # q.snap.substatus ]]
      /\ UNCHANGED <<facts, policy, letters, audited, started>>

\* Mutant: no concurrency token.
VersionIgnored(q) == TRUE

\* The UPDATE's WHERE clause compares the RowVersion of the snapshot.
VersionMatches(q) == q.updatesPolicy => version = q.snap.version

\* Only columns that differ from the snapshot are written.
Commit(s) ==
  LET q == session[s]
      st == PlansAfter(q.snap, q.cmd)
  IN  /\ q.pc = "evaluated"
      /\ VersionMatches(q)
      /\ status' = [p \in Plans |-> IF st[p] = q.snap.status[p] THEN status[p] ELSE st[p]]
      /\ substatus' = IF q.substatus = q.snap.substatus THEN substatus ELSE q.substatus
      /\ uw' = IF OverrideOf(q.snap, q.cmd) = None THEN q.uw ELSE uw
      /\ version' = IF q.updatesPolicy THEN version + 1 ELSE version
      /\ billed' = IF OverrideOf(q.snap, q.cmd) = None THEN q.snap.shortfall ELSE billed
      /\ letters' = Written(q.tx)
      /\ audited' = q.substatus
      /\ session' = [session EXCEPT ![s] = Idle]
      /\ UNCHANGED <<facts, started>>

\* ResubmitForManualUw and SaveUnderwritingTab write one column.
MovesToManualUw(q) == q.snap.substatus # "PendingManualUnderwriting"

Saving(q) == q.pc = "loaded" /\ ~InTransaction(q.cmd) /\ Admitted(q.snap, q.cmd)

\* DbUpdateConcurrencyException: rolled back, never retried.
Conflict(s) ==
  /\ \/ session[s].pc = "evaluated" /\ ~VersionMatches(session[s])
     \/ Saving(session[s]) /\ MovesToManualUw(session[s])
          /\ version # session[s].snap.version
  /\ session' = [session EXCEPT ![s] = Idle]
  /\ UNCHANGED <<facts, policy, letters, audited, started>>

\* Both commands call SaveAsync on its own ...
SaveRow(s) ==
  LET q == session[s]
  IN  /\ Saving(q)
      /\ MovesToManualUw(q) => version = q.snap.version
      /\ substatus' = IF MovesToManualUw(q) THEN "PendingManualUnderwriting" ELSE substatus
      /\ version' = IF MovesToManualUw(q) THEN version + 1 ELSE version
      /\ session' = [session EXCEPT ![s] = [pc |-> "saved"]]
      /\ UNCHANGED <<facts, status, uw, letters, audited, started, billed>>

\* ... and then the audit entry.
WriteAudit(s) ==
  /\ session[s].pc = "saved"
  /\ audited' = "PendingManualUnderwriting"
  /\ session' = [session EXCEPT ![s] = Idle]
  /\ UNCHANGED <<facts, policy, letters, started>>

\* The request dies: the process stops, the connection drops, the database
\* picks it as deadlock victim, the audit writer throws.
Die(s) ==
  /\ session[s] # Idle
  /\ session' = [session EXCEPT ![s] = Idle]
  /\ UNCHANGED <<facts, policy, letters, audited, started>>
-----------------------------------------------------------------------------
\* Finance collects the outstanding premium; no command waits for it.
CashCollected ==
  /\ facts.shortfall
  /\ facts' = [facts EXCEPT !.shortfall = FALSE]
  /\ UNCHANGED <<policy, letters, audited, session, started>>

Init ==
  /\ facts \in InitialFacts
  /\ status \in InitialPlans
  /\ \E a \in AcceptCloa :
       uw = UwFieldStates([acceptCloa |-> a, rcmpOption |-> "Blank"],
                          Composition(Active(status), facts), facts)
  /\ substatus \in InitialSubstatus
  /\ substatus \in PastAcceptance => TermsAccepted(uw)
  /\ letters = {}
  /\ audited = substatus
  /\ version = 0
  /\ session = [s \in Sessions |-> Idle]
  /\ started = 0
  /\ billed = facts.shortfall

\* What the web server does next for a request it has accepted.
Progress(s) ==
  \/ ReadJoined(s)
  \/ Refuse(s)
  \/ IssueDecisionLetter(s)
  \/ Evaluate(s)
  \/ EvaluatorThrows(s)
  \/ TakeOverride(s)
  \/ Commit(s)
  \/ Conflict(s)
  \/ SaveRow(s)
  \/ WriteAudit(s)

Step(s) ==
  \/ \E cmd \in Commands : Post(s, cmd)
  \/ Progress(s)
  \/ Die(s)

Next ==
  \/ \E s \in Sessions : Step(s)
  \/ CashCollected

Spec == Init /\ [][Next]_vars
-----------------------------------------------------------------------------
LetterRow ==
  [id : 1..MaxCommands, type : LetterType, current : BOOLEAN,
   plans : SUBSET Plans, scheduled : BOOLEAN]

\* Every committed row holds values of its columns' types.
TypeOK ==
  /\ facts \in Facts
  /\ status \in [Plans -> ProductStatus]
  /\ substatus \in PolicySubstatus
  /\ uw \in UWState
  /\ letters \subseteq LetterRow
  /\ audited \in PolicySubstatus
  /\ version \in Nat
  /\ started \in 0..MaxCommands
  /\ billed \in BOOLEAN
  /\ \A s \in Sessions :
       session[s].pc \in {"idle", "reading", "loaded", "decided", "evaluated", "saved"}

\* However requests interleave, the UW fields describe the committed plans.
UwFieldsMatchPlans ==
  uw.currentComposition = Composition(Active(status), facts)

\* No interleaving takes a policy past the acceptance gate of FR-AOR-032 with
\* terms left to accept: substatus and answers always come from one evaluation.
TermsAcceptedBeforeIssue ==
  substatus \in PastAcceptance => TermsAccepted(uw)

\* No request schedules a reminder that a concurrent APS decision misses.
NoRemindersAwaitingAps ==
  substatus = "PendingUwAps" => \A l \in letters : ~l.scheduled

\* Two requests never leave two current LOAs or two current CLOAs of a type,
\* nor a reminder of a superseded one.
CustomerLettersSuperseded ==
  \A l \in letters : l.type \in MainLetter =>
    /\ l.scheduled => l.current
    /\ \A m \in letters : l.current /\ m.current /\ l.type = m.type => l = m

\* The customer's current letter lists the plans that are Active, whichever
\* request changed them last.
CurrentLetterCoversActive ==
  substatus \in LetterGeneratingSubstatuses =>
    \A l \in letters :
      l.current /\ l.type = MainLetterFor(uw.currentComposition)
        => l.plans = Active(status)

\* From the first change of the policy row on, a policy whose customer is to
\* answer or to pay has a current letter for its composition, over its Active
\* plans, with reminders scheduled: no request takes them away without moving
\* the policy on.
CustomerIsReminded ==
  version > 0 /\ substatus \in LetterGeneratingSubstatuses =>
    \E l \in letters :
      /\ l.current /\ l.scheduled
      /\ l.type = MainLetterFor(uw.currentComposition)
      /\ l.plans = Active(status)

\* A rider whose committed status becomes NTU, declined or postponed is named
\* by a decision letter of the same transaction, whatever letters other
\* requests have written since that one was generated.
NoticeNamesRider ==
  [][\A r \in Riders :
       status'[r] # status[r] /\ status'[r] \in AdverseDecisions =>
         \E l \in letters' :
           /\ l.current /\ r \in l.plans
           /\ l.type = DecisionLetterFor(status'[r])]_vars

\* An answer given before every Active plan was standard is never revived, by a
\* stale request either: the exclusion that comes back goes to the customer.
ExclusionAsksAgain ==
  [][uw.currentComposition = "AllStandard" /\ uw'.currentComposition # "AllStandard"
       => \/ substatus' = "ConditionalAcceptanceLetterGenerated"
          \/ RenewalKeepsRcmp(facts)]_vars

\* The audit entry of a request names the substatus its transaction leaves the
\* policy at.  Only a decision that stays where it was, and so compares no
\* version, may name one that another request has left meanwhile.
AuditNamesOutcome ==
  [][\A s \in Sessions : Commit(s) /\ audited' # substatus' =>
       /\ OverrideOf(session[s].snap, session[s].cmd) = session[s].snap.substatus
       /\ substatus' = substatus]_vars

\* Concurrent requests have the effect of some serial order of them, and of the
\* payment, on the riders, the substatus, the UW fields and the customer
\* letters.  A request that missed the payment comes before it in that order.
Serial == INSTANCE SerialPolicy WITH
  mail <- MailOf(letters), facts <- [facts EXCEPT !.shortfall = billed]
Serializable == Serial!Spec
=============================================================================
