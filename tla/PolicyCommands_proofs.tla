----------------------- MODULE PolicyCommands_proofs -----------------------
(***************************************************************************)
(* Safety of concurrent requests for every set of plans and sessions, any  *)
(* commands and any number of them: what a request does with a snapshot    *)
(* that may be stale, and why comparing RowVersion is enough.              *)
(***************************************************************************)
EXTENDS PolicyCommands, Services_proofs

(***************************************************************************)
(* The committed rows as one value, so that what a request knows can be    *)
(* stated of the rows before and after a step of another request.          *)
(***************************************************************************)
Db == [ facts |-> facts, status |-> status, substatus |-> substatus, uw |-> uw,
        letters |-> letters, version |-> version, billed |-> billed ]

SnapType(n) ==
  /\ n.substatus \in PolicySubstatus
  /\ n.uw \in UWState
  /\ n.version \in Nat
  /\ n.status \in [Plans -> ProductStatus]
  /\ n.shortfall \in BOOLEAN

Addressed(q) == q.cmd \in CommandType /\ q.no \in 1..MaxCommands

\* The policy row of a request that has not read the joined rows yet.
Reading(q, db) ==
  /\ Addressed(q)
  /\ q.row.substatus \in PolicySubstatus
  /\ q.row.uw \in UWState
  /\ q.row.version \in Nat
  /\ q.row.version <= db.version
  /\ q.row.version = db.version =>
       q.row.substatus = db.substatus /\ q.row.uw = db.uw

\* A snapshot whose version is still the committed one is not stale.
Holding(q, db) ==
  /\ Addressed(q)
  /\ SnapType(q.snap)
  /\ q.snap.version <= db.version
  /\ q.snap.version = db.version =>
       /\ q.snap.substatus = db.substatus
       /\ q.snap.uw = db.uw
       /\ q.snap.status = db.status
       /\ q.snap.shortfall => db.billed
  /\ db.facts.shortfall => q.snap.shortfall

Notice(l) == l \in LetterRow /\ l.type \notin MainLetter /\ ~l.scheduled

\* The writes a transaction may hold.
RowKeys == (1..MaxCommands) \X LetterType
Transaction ==
  [superseded : SUBSET RowKeys, cancelled : SUBSET RowKeys, issued : SUBSET LetterRow]

NoticesOnly(tx) ==
  /\ \A l \in tx.issued : Notice(l)
  /\ \A k \in tx.superseded : k[2] \notin MainLetter

\* A decision with a fixed next substatus: if that is APS, and the version is
\* the committed one, every reminder is among those cancelled.
Overrides(q, db) ==
  /\ OverrideOf(q.snap, q.cmd) # None
  /\ q.substatus = OverrideOf(q.snap, q.cmd)
  /\ q.updatesPolicy = (q.substatus # q.snap.substatus)
  /\ NoticesOnly(q.tx)
  /\ q.substatus # "PendingUwAps" => q.tx.cancelled = {}
  /\ q.substatus = "PendingUwAps" /\ q.snap.version = db.version =>
       \A l \in db.letters : l.scheduled => RowKey(l) \in q.tx.cancelled

ContextOn(f, q) == [f EXCEPT !.shortfall = q.snap.shortfall]

EvaluationOn(f, q) ==
  EvaluateAfterAction(Active(PlansAfter(q.snap, q.cmd)),
                      FieldsBefore(q.snap, q.cmd), ContextOn(f, q))

MainRow(q, f) ==
  LET e == EvaluationOn(f, q)
  IN  NewLetter(q.no, e.letter, PlansAfter(q.snap, q.cmd),
                ShouldScheduleReminders(e.letter, e.uw, ContextOn(f, q)))

\* An evaluated command: if it issues a main letter and the version is the
\* committed one, every current letter of that type is among those superseded.
Reassesses(q, db) ==
  LET e == EvaluationOn(db.facts, q)
  IN  /\ OverrideOf(q.snap, q.cmd) = None
      /\ Active(PlansAfter(q.snap, q.cmd)) # {}
      /\ q.updatesPolicy = TRUE
      /\ q.uw = e.uw
      /\ q.substatus = e.substatus
      /\ q.tx.cancelled = {}
      /\ e.letter = None => NoticesOnly(q.tx)
      /\ e.letter # None =>
           /\ MainRow(q, db.facts) \in q.tx.issued
           /\ \A l \in q.tx.issued : l = MainRow(q, db.facts) \/ Notice(l)
           /\ \A k \in q.tx.superseded : k[2] \in MainLetter => k[2] = e.letter
           /\ q.snap.version = db.version =>
                \A l \in db.letters :
                  l.current /\ l.type = e.letter => RowKey(l) \in q.tx.superseded

\* A command that marks a rider writes the decision letter that names it.
NamesRider(q) ==
  q.cmd.kind = "MarkRiderStatus" =>
    NewLetter(q.no, DecisionLetterFor(q.cmd.target), PlansAfter(q.snap, q.cmd), FALSE)
      \in q.tx.issued

RequestOK(q, db) ==
  /\ q.pc \in {"idle", "reading", "loaded", "decided", "evaluated", "saved"}
  /\ q.pc = "reading" => Reading(q, db)
  /\ q.pc \in {"loaded", "decided", "evaluated"} => Holding(q, db)
  /\ q.pc \in {"loaded", "decided", "evaluated"} => q.tx \in Transaction
  /\ q.pc = "loaded" => q.tx = NoWrites
  /\ q.pc \in {"decided", "evaluated"} => InTransaction(q.cmd) /\ Admitted(q.snap, q.cmd)
  /\ q.pc \in {"decided", "evaluated"} => NamesRider(q)
  /\ q.pc = "decided" => NoticesOnly(q.tx) /\ q.tx.cancelled = {}
  /\ q.pc = "evaluated" => Overrides(q, db) \/ Reassesses(q, db)

MainLettersCurrent == \A l \in letters : l.type \in MainLetter => l.current

\* The shortfall last billed is never behind the committed one.
BilledCovers == facts.shortfall => billed

\* The renewal exception aside, an all-standard policy holds no answer.
AnswerBlanked ==
  uw.currentComposition = "AllStandard" =>
    uw.acceptCloa = "Blank" \/ RenewalKeepsRcmp(facts)

Safety ==
  /\ UwFieldsMatchPlans
  /\ TermsAcceptedBeforeIssue
  /\ NoRemindersAwaitingAps
  /\ CustomerLettersSuperseded
  /\ CurrentLetterCoversActive
  /\ CustomerIsReminded
  /\ MainLettersCurrent
  /\ BilledCovers
  /\ AnswerBlanked

Requests ==
  /\ DOMAIN session = Sessions
  /\ \A s \in Sessions : RequestOK(session[s], Db)

IInv == TypeOK /\ Safety /\ Requests

(***************************************************************************)
(* What other requests and payments may do to the rows in one step: with   *)
(* the version unchanged the policy, its plans and its main letters are    *)
(* too, and no reminder has been added.                                    *)
(***************************************************************************)
SameRisks(f, g) == f = g \/ g = [f EXCEPT !.shortfall = FALSE]

Later(db, new) ==
  /\ db.facts \in Facts
  /\ SameRisks(db.facts, new.facts)
  /\ db.version \in Nat /\ new.version \in Nat
  /\ db.version <= new.version
  /\ new.version = db.version =>
       /\ new.substatus = db.substatus
       /\ new.uw = db.uw
       /\ new.status = db.status
       /\ new.billed = db.billed
       /\ \A l \in new.letters :
            /\ l.scheduled => \E m \in db.letters : m.scheduled /\ RowKey(m) = RowKey(l)
            /\ l.current /\ l.type \in MainLetter =>
                 \E m \in db.letters : /\ m.current /\ m.type = l.type
                                       /\ RowKey(m) = RowKey(l)

\* A payment does not change the context a snapshot is evaluated in.
LEMMA ContextStable ==
  ASSUME NEW f \in Facts, NEW g, SameRisks(f, g), NEW q
  PROVE  /\ g \in Facts
         /\ ContextOn(g, q) = ContextOn(f, q)
         /\ g.shortfall => f.shortfall
  BY DEF SameRisks, ContextOn, Facts

\* A request keeps what it knows through a step of another.
LEMMA Interference ==
  ASSUME NEW q, NEW db, NEW new, RequestOK(q, db), Later(db, new)
  PROVE  RequestOK(q, new)
  <1>1. /\ ContextOn(new.facts, q) = ContextOn(db.facts, q)
        /\ new.facts.shortfall => db.facts.shortfall
    BY ContextStable DEF Later
  <1>2. EvaluationOn(new.facts, q) = EvaluationOn(db.facts, q)
        /\ MainRow(q, new.facts) = MainRow(q, db.facts)
    BY <1>1 DEF EvaluationOn, MainRow
  <1>3. Reading(q, db) => Reading(q, new)
    BY DEF Reading, Later
  <1>4. Holding(q, db) => Holding(q, new)
    BY <1>1 DEF Holding, Later, SnapType
  <1>5. Holding(q, db) /\ Overrides(q, db) => Overrides(q, new)
    BY DEF Holding, Overrides, Later, SnapType
  <1>6. Holding(q, db) /\ Reassesses(q, db) => Reassesses(q, new)
    <2> SUFFICES ASSUME Holding(q, db), Reassesses(q, db) PROVE Reassesses(q, new)
      OBVIOUS
    <2> DEFINE e == EvaluationOn(db.facts, q)
    <2>1. e.letter # None => e.letter \in MainLetter
      BY DEF EvaluationOn, EvaluateAfterAction, LetterToGenerate, MainLetterFor, MainLetter, Composition
    <2>2. ASSUME e.letter # None, q.snap.version = new.version, NEW l \in new.letters,
                 l.current, l.type = e.letter
          PROVE  RowKey(l) \in q.tx.superseded
      <3>1. new.version = db.version
        BY <2>2 DEF Holding, SnapType, Later
      <3>2. PICK m \in db.letters : m.current /\ m.type = l.type /\ RowKey(m) = RowKey(l)
        BY <2>1, <2>2, <3>1 DEF Later
      <3> QED
        BY <2>2, <3>1, <3>2 DEF Reassesses
    <2> HIDE DEF e
    <2>3. e = EvaluationOn(db.facts, q) /\ e = EvaluationOn(new.facts, q)
      BY <1>2 DEF e
    <2> QED
      BY <1>2, <2>2, <2>3 DEF Reassesses
  <1> QED
    BY <1>3, <1>4, <1>5, <1>6 DEF RequestOK

(***************************************************************************)
(* What a request reads off its snapshot.                                  *)
(***************************************************************************)
\* An admitted command of a request: the plans it leaves, the fields it starts
\* from, its decision letter and its override.
LEMMA CommandResult ==
  ASSUME NEW n, SnapType(n), NEW cmd \in CommandType, Admitted(n, cmd)
  PROVE  /\ PlansAfter(n, cmd) \in [Plans -> ProductStatus]
         /\ FieldsBefore(n, cmd) \in UWState
         /\ n.uw.acceptCloa = "Blank" => FieldsBefore(n, cmd).acceptCloa = "Blank"
         /\ DecisionLetterOf(n, cmd) \in NoticeType \cup {"MedicalEvidence", None}
         /\ OverrideOf(n, cmd) # None =>
              /\ cmd.kind = "UwDecision"
              /\ PlansAfter(n, cmd) = n.status
              /\ \/ /\ OverrideOf(n, cmd) = "PendingUwAps" /\ n.substatus # "PendingUwAps"
                    /\ cmd.decision = "Aps"
                 \/ /\ OverrideOf(n, cmd) = n.substatus
                    /\ n.substatus \in {"PendingIpRequestFile",
                                        "PendingIpResponseFileCpfRejected"}
  <1>1. CASE cmd.kind = "UwDecision"
    <2> DEFINE h == Handle(n.substatus, n.uw, cmd.decision)
    <2>1. cmd.decision \in UwDecisions
      BY <1>1 DEF CommandType
    <2>2. Routable(n.substatus, cmd.decision)
      BY <1>1 DEF Admitted
    <2>3. /\ h.uw \in UWState
          /\ h.letter \in NoticeType \cup {"MedicalEvidence", None}
          /\ \/ h.override = None
             \/ h.override = "PendingUwAps" /\ h.uw = n.uw /\ cmd.decision = "Aps"
             \/ /\ h.override = n.substatus /\ h.uw = n.uw
                /\ n.substatus \in {"PendingIpRequestFile", "PendingIpResponseFileCpfRejected"}
          /\ n.uw.acceptCloa = "Blank" => h.uw.acceptCloa = "Blank"
      BY <2>1, <2>2, DirectiveResult DEF SnapType
    <2>4. n.substatus # "PendingUwAps"
      BY <2>2 DEF Routable, FullEntries, NtuOnlyEntries
    <2>5. /\ FieldsBefore(n, cmd) = h.uw
          /\ DecisionLetterOf(n, cmd) = h.letter
          /\ OverrideOf(n, cmd) = h.override
          /\ PlansAfter(n, cmd) = n.status
      BY <1>1 DEF FieldsBefore, DecisionLetterOf, OverrideOf, PlansAfter, Directive
    <2> HIDE DEF h
    <2> QED
      BY <1>1, <2>3, <2>4, <2>5 DEF SnapType
  <1>2. CASE cmd.kind = "MarkRiderStatus"
    <2>1. cmd.rider \in Riders /\ cmd.target \in AdverseDecisions
      BY <1>2 DEF CommandType
    <2>2. DecisionLetterFor(cmd.target) \in NoticeType
      BY <2>1 DEF AdverseDecisions, DecisionLetterFor, NoticeType
    <2>3. /\ FieldsBefore(n, cmd) = n.uw
          /\ DecisionLetterOf(n, cmd) = DecisionLetterFor(cmd.target)
          /\ OverrideOf(n, cmd) = None
          /\ PlansAfter(n, cmd) = [n.status EXCEPT ![cmd.rider] = cmd.target]
      BY <1>2 DEF FieldsBefore, DecisionLetterOf, OverrideOf, PlansAfter
    <2>4. cmd.target \in ProductStatus
      BY <2>1 DEF AdverseDecisions, ProductStatus
    <2> QED
      BY <2>2, <2>3, <2>4 DEF SnapType
  <1>3. CASE cmd.kind \notin {"UwDecision", "MarkRiderStatus"}
    <2>1. /\ FieldsBefore(n, cmd) = n.uw
          /\ DecisionLetterOf(n, cmd) = None
          /\ OverrideOf(n, cmd) = None
      BY <1>3 DEF FieldsBefore, DecisionLetterOf, OverrideOf
    <2>2. PlansAfter(n, cmd) \in {n.status, [n.status EXCEPT ![cmd.rider] = "Active"]}
      BY <1>3 DEF PlansAfter
    <2>3. PlansAfter(n, cmd) \in [Plans -> ProductStatus]
      BY <2>2 DEF SnapType, ProductStatus
    <2> QED
      BY <2>1, <2>3 DEF SnapType
  <1> QED
    BY <1>1, <1>2, <1>3

\* The evaluation of a request, on the rows db.
LEMMA EvaluationResult ==
  ASSUME NEW q, NEW f \in Facts, Addressed(q), SnapType(q.snap), Admitted(q.snap, q.cmd),
         NEW e, e = EvaluationOn(f, q)
  PROVE  /\ e.uw \in UWState
         /\ e.uw.currentComposition = Composition(Active(PlansAfter(q.snap, q.cmd)), f)
         /\ e.substatus \in PolicySubstatus
         /\ e.substatus # "PendingUwAps"
         /\ e.letter \in MainLetter \cup {None}
         /\ e.substatus \in LetterGeneratingSubstatuses
              => /\ e.letter = MainLetterFor(e.uw.currentComposition)
                 /\ ShouldScheduleReminders(e.letter, e.uw, ContextOn(f, q))
         /\ e.substatus \in PastAcceptance => TermsAccepted(e.uw)
         /\ e.uw.currentComposition = "AllStandard"
              => e.uw.acceptCloa = "Blank" \/ RenewalKeepsRcmp(f)
         /\ e.uw.currentComposition # "AllStandard" /\ q.snap.uw.acceptCloa = "Blank"
              => e.substatus = "ConditionalAcceptanceLetterGenerated"
  <1> DEFINE c == ContextOn(f, q)
             active == Active(PlansAfter(q.snap, q.cmd))
             fields == FieldsBefore(q.snap, q.cmd)
  <1>1. c \in Facts /\ c.loading = f.loading /\ c.exclusion = f.exclusion
    BY DEF ContextOn, Facts, SnapType
  <1>2. Composition(active, c) = Composition(active, f)
    BY <1>1 DEF Composition
  <1>3. /\ fields \in UWState
        /\ q.snap.uw.acceptCloa = "Blank" => fields.acceptCloa = "Blank"
    BY CommandResult DEF Addressed
  <1>4. e = EvaluateAfterAction(active, fields, c)
    BY DEF EvaluationOn
  <1> HIDE DEF c, fields
  <1>5. /\ e.uw \in UWState
        /\ e.uw.currentComposition = Composition(active, c)
        /\ e.substatus \in PolicySubstatus
        /\ e.substatus # "PendingUwAps"
        /\ e.letter \in MainLetter \cup {None}
        /\ e.substatus \in LetterGeneratingSubstatuses
             => e.letter = MainLetterFor(Composition(active, c))
    BY <1>1, <1>3, <1>4, EvaluatorResult
  <1>6. /\ e.substatus \in PastAcceptance => TermsAccepted(e.uw)
        /\ e.substatus \in LetterGeneratingSubstatuses
             => ShouldScheduleReminders(e.letter, e.uw, c)
    BY <1>1, <1>3, <1>4, EvaluatorGate, EvaluatorReminds
  <1>7. /\ e.uw.currentComposition = "AllStandard"
             => e.uw.acceptCloa = "Blank" \/ RenewalKeepsRcmp(c)
        /\ e.uw.currentComposition # "AllStandard" /\ fields.acceptCloa = "Blank"
             => e.substatus = "ConditionalAcceptanceLetterGenerated"
    BY <1>1, <1>3, <1>4, EvaluatorAnswer
  <1>8. RenewalKeepsRcmp(c) <=> RenewalKeepsRcmp(f)
    BY DEF ContextOn, Facts, RenewalKeepsRcmp, c
  <1> QED
    BY <1>2, <1>3, <1>5, <1>6, <1>7, <1>8 DEF c

(***************************************************************************)
(* The letters table of a committed transaction.                           *)
(***************************************************************************)
\* A row of the old table after the transaction: its flags at most cleared.
LEMMA RewrittenRow ==
  ASSUME NEW m \in LetterRow, NEW tx
  PROVE  LET l == Rewritten(tx, m)
         IN  /\ l \in LetterRow
             /\ RowKey(l) = RowKey(m) /\ l.type = m.type /\ l.plans = m.plans
             /\ l.current <=> m.current /\ RowKey(m) \notin tx.superseded
             /\ l.scheduled <=>
                  m.scheduled /\ RowKey(m) \notin tx.superseded /\ RowKey(m) \notin tx.cancelled
  <1> DEFINE c == m.current /\ RowKey(m) \notin tx.superseded
             d == m.scheduled /\ RowKey(m) \notin tx.superseded \cup tx.cancelled
             l == Rewritten(tx, m)
  <1>1. l = [m EXCEPT !.current = c, !.scheduled = d]
    BY DEF Rewritten
  <1>2. c \in BOOLEAN /\ d \in BOOLEAN
    OBVIOUS
  <1> HIDE DEF c, d, l
  <1>3. /\ l \in LetterRow /\ l.id = m.id /\ l.type = m.type /\ l.plans = m.plans
        /\ l.current = c /\ l.scheduled = d
    BY <1>1, <1>2 DEF LetterRow
  <1>4. RowKey(l) = RowKey(m)
    BY <1>3 DEF RowKey
  <1> QED
    BY <1>3, <1>4 DEF c, d, l

\* Every row of the new table is new or comes from an old one, and is current
\* or has reminders ahead.
LEMMA WrittenRows ==
  ASSUME letters \subseteq LetterRow, NEW tx, NEW l \in Written(tx)
  PROVE  \/ l \in tx.issued
         \/ \E m \in letters :
              /\ l = Rewritten(tx, m)
              /\ l \in LetterRow
              /\ RowKey(l) = RowKey(m) /\ l.type = m.type /\ l.plans = m.plans
              /\ l.current <=> m.current /\ RowKey(m) \notin tx.superseded
              /\ l.scheduled <=>
                   m.scheduled /\ RowKey(m) \notin tx.superseded /\ RowKey(m) \notin tx.cancelled
              /\ l.current \/ l.scheduled
  <1> SUFFICES ASSUME l \notin tx.issued
               PROVE  \E m \in letters :
              /\ l = Rewritten(tx, m)
              /\ l \in LetterRow
              /\ RowKey(l) = RowKey(m) /\ l.type = m.type /\ l.plans = m.plans
              /\ l.current <=> m.current /\ RowKey(m) \notin tx.superseded
              /\ l.scheduled <=>
                   m.scheduled /\ RowKey(m) \notin tx.superseded /\ RowKey(m) \notin tx.cancelled
              /\ l.current \/ l.scheduled
    OBVIOUS
  <1>1. PICK m \in letters : l = Rewritten(tx, m)
    BY DEF Written, Live
  <1>2. l.current \/ l.scheduled
    BY DEF Written, Live
  <1>3. m \in LetterRow
    OBVIOUS
  <1> QED
    BY <1>1, <1>2, <1>3, RewrittenRow

\* A letter to be written is a row, and so is the table it is written into.
LEMMA WrittenType ==
  ASSUME letters \subseteq LetterRow, NEW tx, tx.issued \subseteq LetterRow
  PROVE  Written(tx) \subseteq LetterRow
  BY WrittenRows

\* The row GenerateAsync inserts.
LEMMA IssuedRow ==
  ASSUME NEW no \in 1..MaxCommands, NEW type \in LetterType, NEW st, NEW remind \in BOOLEAN
  PROVE  LET row == NewLetter(no, type, st, remind)
         IN  /\ row \in LetterRow /\ row.id = no /\ row.type = type /\ row.current
             /\ row.scheduled = remind /\ row.plans = IncludedPlans(type, st, {})
  <1>1. IncludedPlans(type, st, {}) \in SUBSET Plans
    BY DEF IncludedPlans, Active
  <1> QED
    BY <1>1 DEF LetterRow, NewLetter

\* What generating a letter adds to a transaction.
LEMMA LetterTx ==
  ASSUME letters \subseteq LetterRow, NEW tx \in Transaction,
         NEW no \in 1..MaxCommands, NEW type \in LetterType, NEW st, NEW remind \in BOOLEAN
  PROVE  LET new == WithLetter(tx, no, type, st, remind)
         IN  /\ new \in Transaction
             /\ new.superseded = tx.superseded \cup CurrentKeys(type)
             /\ new.issued = tx.issued \cup {NewLetter(no, type, st, remind)}
             /\ new.cancelled = tx.cancelled
             /\ \A k \in CurrentKeys(type) : k[2] = type
             /\ \A l \in letters : l.current /\ l.type = type => RowKey(l) \in CurrentKeys(type)
  <1>1. NewLetter(no, type, st, remind) \in LetterRow
    BY IssuedRow
  <1>2. \A l \in letters : RowKey(l) \in RowKeys
    BY DEF LetterRow, RowKey, RowKeys
  <1>3. CurrentKeys(type) \subseteq RowKeys
    BY <1>2 DEF CurrentKeys
  <1>4. \A k \in CurrentKeys(type) : k[2] = type
    BY DEF CurrentKeys, RowKey
  <1>5. \A l \in letters : l.current /\ l.type = type => RowKey(l) \in CurrentKeys(type)
    BY DEF CurrentKeys
  <1> QED
    BY <1>1, <1>3, <1>4, <1>5 DEF Transaction, WithLetter

\* A decision letter leaves a transaction free of main letters.
LEMMA DecisionLetterTx ==
  ASSUME letters \subseteq LetterRow, NEW tx \in Transaction, NoticesOnly(tx),
         NEW no \in 1..MaxCommands, NEW st,
         NEW type \in NoticeType \cup {"MedicalEvidence"}
  PROVE  LET new == WithLetter(tx, no, type, st, FALSE)
         IN  new \in Transaction /\ NoticesOnly(new) /\ new.cancelled = tx.cancelled
  <1> DEFINE row == NewLetter(no, type, st, FALSE)
             new == WithLetter(tx, no, type, st, FALSE)
  <1>1. type \in LetterType /\ type \notin MainLetter
    BY DEF NoticeType, LetterType, MainLetter
  <1>2. row \in LetterRow /\ row.type = type /\ ~row.scheduled
    <2>1. \A b \in BOOLEAN :
            LET r == NewLetter(no, type, st, b)
            IN  r \in LetterRow /\ r.type = type /\ r.scheduled = b
      BY <1>1, IssuedRow
    <2> QED
      BY <2>1, Zenon
  <1>3. /\ new \in Transaction
        /\ new.superseded = tx.superseded \cup CurrentKeys(type)
        /\ new.issued = tx.issued \cup {row}
        /\ new.cancelled = tx.cancelled
        /\ \A k \in CurrentKeys(type) : k[2] = type
    <2>1. \A b \in BOOLEAN :
            LET n == WithLetter(tx, no, type, st, b)
            IN  /\ n \in Transaction
                /\ n.superseded = tx.superseded \cup CurrentKeys(type)
                /\ n.issued = tx.issued \cup {NewLetter(no, type, st, b)}
                /\ n.cancelled = tx.cancelled
                /\ \A k \in CurrentKeys(type) : k[2] = type
      BY <1>1, LetterTx
    <2> QED
      BY <2>1, Zenon
  <1> HIDE DEF row, new
  <1>4. NoticesOnly(new)
    BY <1>1, <1>2, <1>3 DEF NoticesOnly, Notice
  <1> QED
    BY <1>3, <1>4 DEF new

\* The main letter of an evaluation is current, lists the Active plans, and has
\* reminders if the evaluation calls for them.
LEMMA MainRowType ==
  ASSUME NEW q, NEW f, q.no \in 1..MaxCommands, EvaluationOn(f, q).letter \in MainLetter
  PROVE  LET row == MainRow(q, f)
         IN  /\ row \in LetterRow /\ row.current
             /\ row.type = EvaluationOn(f, q).letter
             /\ row.plans = Active(PlansAfter(q.snap, q.cmd))
             /\ row.scheduled = LET e == EvaluationOn(f, q)
                               IN  ShouldScheduleReminders(e.letter, e.uw, ContextOn(f, q))
  <1> DEFINE e == EvaluationOn(f, q)
             st == PlansAfter(q.snap, q.cmd)
             remind == ShouldScheduleReminders(e.letter, e.uw, ContextOn(f, q))
  <1>1. remind \in BOOLEAN
    BY DEF ShouldScheduleReminders
  <1>2. e.letter \in LetterType
    BY LetterTypes
  <1>3. IncludedPlans(e.letter, st, {}) = Active(st)
    BY DEF IncludedPlans, MainLetter
  <1>4. MainRow(q, f) = NewLetter(q.no, e.letter, st, remind)
    BY DEF MainRow
  <1> HIDE DEF e, st, remind
  <1>5. LET row == NewLetter(q.no, e.letter, st, remind)
        IN  /\ row \in LetterRow /\ row.current /\ row.type = e.letter
            /\ row.plans = IncludedPlans(e.letter, st, {}) /\ row.scheduled = remind
    BY <1>1, <1>2, IssuedRow
  <1> QED
    BY <1>3, <1>4, <1>5 DEF e, st, remind

(***************************************************************************)
(* Frame of a step: what one request does to its own slot.                 *)
(***************************************************************************)
LEMMA DbType ==
  ASSUME TypeOK
  PROVE  Later(Db, Db)
  BY DEF TypeOK, Later, SameRisks, Db

LEMMA SlotStep ==
  ASSUME Requests, NEW s \in Sessions, NEW r, session' = [session EXCEPT ![s] = r],
         Later(Db, Db'), RequestOK(r, Db')
  PROVE  Requests'
  <1>1. DOMAIN session' = Sessions /\ session'[s] = r
    BY DEF Requests
  <1>2. ASSUME NEW t \in Sessions PROVE RequestOK(session'[t], Db')
    <2>1. CASE t = s
      BY <1>1, <2>1
    <2>2. CASE t # s
      <3>1. session'[t] = session[t]
        BY <2>2 DEF Requests
      <3>2. RequestOK(session[t], Db)
        BY DEF Requests
      <3> QED
        BY <3>1, <3>2, Interference
    <2> QED
      BY <2>1, <2>2
  <1> QED
    BY <1>1, <1>2 DEF Requests

\* A step that commits nothing.
LEMMA PrivateStep ==
  ASSUME IInv, NEW s \in Sessions, NEW r, session' = [session EXCEPT ![s] = r],
         UNCHANGED <<facts, policy, letters, audited>>, started' \in 0..MaxCommands,
         RequestOK(r, Db)
  PROVE  IInv'
  <1>1. Db' = Db
    BY DEF Db, policy
  <1>2. Later(Db, Db')
    BY <1>1, DbType DEF IInv
  <1>3. Requests'
    BY <1>1, <1>2, SlotStep DEF IInv
  <1>4. TypeOK'
    BY <1>3 DEF IInv, TypeOK, policy, Requests, RequestOK
  <1>5. Safety'
    BY DEF IInv, Safety, UwFieldsMatchPlans, NoRemindersAwaitingAps, CustomerLettersSuperseded,
           CurrentLetterCoversActive, MainLettersCurrent, BilledCovers, policy,
           TermsAcceptedBeforeIssue, CustomerIsReminded, AnswerBlanked
  <1> QED
    BY <1>3, <1>4, <1>5 DEF IInv

\* A step that ends a request and commits nothing.
LEMMA EndStep ==
  ASSUME IInv, NEW s \in Sessions, session' = [session EXCEPT ![s] = Idle],
         UNCHANGED <<facts, policy, letters, audited, started>>
  PROVE  IInv'
  <1>1. RequestOK(Idle, Db)
    BY DEF RequestOK, Idle
  <1> QED
    BY <1>1, PrivateStep DEF IInv, TypeOK

(***************************************************************************)
(* One lemma per step of a request up to its commit.                       *)
(***************************************************************************)
LEMMA PostStep ==
  ASSUME IInv, NEW s \in Sessions, NEW cmd \in Commands, Post(s, cmd)
  PROVE  IInv'
  <1> DEFINE r == [pc |-> "reading", cmd |-> cmd, no |-> started', row |-> PolicyRow]
  <1>1. started' \in 1..MaxCommands /\ started' \in 0..MaxCommands
    BY InputAssumption DEF IInv, TypeOK, Post
  <1>2. cmd \in CommandType
    BY InputAssumption
  <1>3. RequestOK(r, Db)
    BY <1>1, <1>2 DEF RequestOK, Reading, Addressed, PolicyRow, Db, IInv, TypeOK
  <1> QED
    BY <1>1, <1>3, PrivateStep DEF Post

LEMMA ReadJoinedStep ==
  ASSUME IInv, NEW s \in Sessions, ReadJoined(s)
  PROVE  IInv'
  <1> DEFINE q == session[s]
             r == [ pc |-> "loaded", cmd |-> q.cmd, no |-> q.no,
                    snap |-> Snapshot(q.row), tx |-> NoWrites ]
  <1>1. Reading(q, Db)
    BY DEF ReadJoined, IInv, Requests, RequestOK
  <1>2. Addressed(r)
    BY <1>1 DEF Reading, Addressed
  <1>3. Holding(r, Db)
    <2>1. /\ r.snap.substatus = q.row.substatus /\ r.snap.uw = q.row.uw
          /\ r.snap.version = q.row.version /\ r.snap.status = status
          /\ r.snap.shortfall = facts.shortfall
      BY DEF Snapshot
    <2>2. /\ Db.facts = facts /\ Db.status = status /\ Db.billed = billed
      BY DEF Db
    <2>3. facts.shortfall \in BOOLEAN /\ (facts.shortfall => billed)
      BY DEF IInv, TypeOK, Facts, Safety, BilledCovers
    <2>4. status \in [Plans -> ProductStatus]
      BY DEF IInv, TypeOK
    <2> HIDE DEF r
    <2> QED
      BY <1>1, <1>2, <2>1, <2>2, <2>3, <2>4 DEF Reading, Holding, SnapType
  <1>4. NoWrites \in Transaction
    BY DEF NoWrites, Transaction
  <1>5. RequestOK(r, Db)
    BY <1>3, <1>4 DEF RequestOK
  <1> QED
    BY <1>5, PrivateStep DEF ReadJoined, IInv, TypeOK

LEMMA IssueDecisionLetterStep ==
  ASSUME IInv, NEW s \in Sessions, IssueDecisionLetter(s)
  PROVE  IInv'
  <1> DEFINE q == session[s]
             type == DecisionLetterOf(q.snap, q.cmd)
             tx == IF type = None THEN q.tx
                   ELSE WithLetter(q.tx, q.no, type, PlansAfter(q.snap, q.cmd), FALSE)
             r == [pc |-> "decided", cmd |-> q.cmd, no |-> q.no, snap |-> q.snap, tx |-> tx]
  <1>1. /\ Holding(q, Db) /\ q.tx = NoWrites /\ q.tx \in Transaction
        /\ InTransaction(q.cmd) /\ Admitted(q.snap, q.cmd)
    BY DEF IssueDecisionLetter, IInv, Requests, RequestOK
  <1>2. type \in NoticeType \cup {"MedicalEvidence", None}
    BY <1>1, CommandResult DEF Holding, Addressed
  <1>3. tx \in Transaction /\ NoticesOnly(tx) /\ tx.cancelled = {}
    <2>1. NoticesOnly(q.tx) /\ q.tx.cancelled = {}
      BY <1>1 DEF NoWrites, NoticesOnly
    <2>2. CASE type = None
      BY <1>1, <2>1, <2>2
    <2>3. CASE type # None
      <3>1. type \in NoticeType \cup {"MedicalEvidence"}
        BY <1>2, <2>3
      <3>2. letters \subseteq LetterRow /\ q.no \in 1..MaxCommands
        BY <1>1 DEF IInv, TypeOK, Holding, Addressed
      <3> HIDE DEF type
      <3>3. LET n == WithLetter(q.tx, q.no, type, PlansAfter(q.snap, q.cmd), FALSE)
            IN  n \in Transaction /\ NoticesOnly(n) /\ n.cancelled = q.tx.cancelled
        BY <1>1, <2>1, <3>1, <3>2, DecisionLetterTx
      <3> QED
        BY <2>1, <2>3, <3>3
    <2> QED
      BY <2>2, <2>3
  <1>4. session' = [session EXCEPT ![s] = r]
    BY DEF IssueDecisionLetter
  <1>5. NamesRider(r)
    <2> SUFFICES ASSUME q.cmd.kind = "MarkRiderStatus"
                 PROVE  NewLetter(q.no, DecisionLetterFor(q.cmd.target),
                                  PlansAfter(q.snap, q.cmd), FALSE) \in tx.issued
      BY DEF NamesRider
    <2>1. type = DecisionLetterFor(q.cmd.target) /\ q.cmd.target \in AdverseDecisions
      BY <1>1 DEF DecisionLetterOf, Holding, Addressed, CommandType
    <2>2. type # None
      BY <2>1 DEF AdverseDecisions, DecisionLetterFor, None
    <2> QED
      BY <2>1, <2>2 DEF WithLetter
  <1> HIDE DEF tx
  <1>6. RequestOK(r, Db)
    BY <1>1, <1>3, <1>5 DEF RequestOK, Holding, Addressed
  <1> HIDE DEF r
  <1> QED
    BY <1>4, <1>6, PrivateStep DEF IssueDecisionLetter, IInv, TypeOK

LEMMA TakeOverrideStep ==
  ASSUME IInv, NEW s \in Sessions, TakeOverride(s)
  PROVE  IInv'
  <1> DEFINE q == session[s]
             next == OverrideOf(q.snap, q.cmd)
             tx == IF next = "PendingUwAps"
                   THEN [q.tx EXCEPT !.cancelled = @ \cup ScheduledKeys] ELSE q.tx
             r == [ pc |-> "evaluated", cmd |-> q.cmd, no |-> q.no, snap |-> q.snap,
                    tx |-> tx, uw |-> q.snap.uw, substatus |-> next,
                    updatesPolicy |-> next # q.snap.substatus ]
  <1>1. /\ Holding(q, Db) /\ NoticesOnly(q.tx) /\ q.tx \in Transaction /\ q.tx.cancelled = {}
        /\ InTransaction(q.cmd) /\ Admitted(q.snap, q.cmd) /\ next # None /\ NamesRider(q)
    BY DEF TakeOverride, IInv, Requests, RequestOK
  <1>2. ScheduledKeys \subseteq RowKeys
        /\ \A l \in letters : l.scheduled => RowKey(l) \in ScheduledKeys
    BY DEF IInv, TypeOK, ScheduledKeys, RowKey, RowKeys, LetterRow
  <1>3. /\ tx \in Transaction
        /\ tx.superseded = q.tx.superseded /\ tx.issued = q.tx.issued
        /\ next = "PendingUwAps" => ScheduledKeys \subseteq tx.cancelled
        /\ next # "PendingUwAps" => tx.cancelled = {}
    BY <1>1, <1>2 DEF Transaction
  <1>4. session' = [session EXCEPT ![s] = r]
    BY DEF TakeOverride
  <1>5. Holding(r, Db)
    BY <1>1 DEF Holding, Addressed
  <1>6. Db.letters = letters
    BY DEF Db
  <1>7. r.pc = "evaluated" /\ r.snap = q.snap /\ r.cmd = q.cmd /\ r.tx = tx
        /\ r.substatus = next /\ r.updatesPolicy = (next # q.snap.substatus)
    OBVIOUS
  <1>8. Overrides(r, Db)
    <2> HIDE DEF r, tx, next
    <2>1. OverrideOf(r.snap, r.cmd) = next
      BY <1>7 DEF next
    <2> QED
      BY <1>1, <1>2, <1>3, <1>6, <1>7, <2>1 DEF Overrides, NoticesOnly
  <1>9. r.no = q.no
    OBVIOUS
  <1> HIDE DEF r, tx
  <1>10. NamesRider(r)
    BY <1>1, <1>3, <1>7, <1>9 DEF NamesRider
  <1>11. RequestOK(r, Db)
    BY <1>1, <1>3, <1>5, <1>7, <1>8, <1>10 DEF RequestOK
  <1> QED
    BY <1>4, <1>11, PrivateStep DEF TakeOverride, IInv, TypeOK

LEMMA EvaluateStep ==
  ASSUME IInv, NEW s \in Sessions, Evaluate(s)
  PROVE  IInv'
  <1> DEFINE q == session[s]
             st == PlansAfter(q.snap, q.cmd)
             e == Evaluation(q.snap, q.cmd)
             row == MainRow(q, facts)
             tx == IF e.letter = None THEN q.tx
                   ELSE WithLetter(q.tx, q.no, e.letter, st,
                                   ShouldScheduleReminders(e.letter, e.uw, Context(q.snap)))
             r == [ pc |-> "evaluated", cmd |-> q.cmd, no |-> q.no, snap |-> q.snap,
                    tx |-> tx, uw |-> e.uw, substatus |-> e.substatus,
                    updatesPolicy |-> TRUE ]
  <1>1. /\ Holding(q, Db) /\ NoticesOnly(q.tx) /\ q.tx \in Transaction /\ q.tx.cancelled = {}
        /\ InTransaction(q.cmd) /\ Admitted(q.snap, q.cmd)
        /\ OverrideOf(q.snap, q.cmd) = None /\ Active(st) # {} /\ NamesRider(q)
    BY DEF Evaluate, IInv, Requests, RequestOK
  <1>2. session' = [session EXCEPT ![s] = r]
    BY DEF Evaluate
  <1>3. Context(q.snap) = ContextOn(facts, q) /\ e = EvaluationOn(facts, q)
    BY DEF Context, ContextOn, Evaluation, EvaluationOn
  <1>4. e.letter \in MainLetter \cup {None}
    BY <1>1, <1>3, EvaluationResult DEF Holding, IInv, TypeOK
  <1>5. /\ r.pc = "evaluated" /\ r.snap = q.snap /\ r.cmd = q.cmd /\ r.no = q.no /\ r.tx = tx
        /\ r.updatesPolicy = TRUE /\ r.uw = e.uw /\ r.substatus = e.substatus
    OBVIOUS
  <1>6. Holding(r, Db)
    BY <1>1 DEF Holding, Addressed
  <1>7. EvaluationOn(facts, r) = e /\ MainRow(r, facts) = row
    BY <1>3, <1>5 DEF EvaluationOn, MainRow, ContextOn
  <1>8. Db.facts = facts /\ Db.letters = letters
    BY DEF Db
  <1>9. letters \subseteq LetterRow /\ q.no \in 1..MaxCommands
    BY <1>1 DEF IInv, TypeOK, Holding, Addressed
  <1>10. CASE e.letter = None
    <2>1. tx = q.tx
      BY <1>10
    <2> HIDE DEF r, e, tx
    <2>2. Reassesses(r, Db)
      BY <1>1, <1>5, <1>7, <1>8, <1>10, <2>1 DEF Reassesses
    <2>3. NamesRider(r)
      BY <1>1, <1>5, <2>1 DEF NamesRider
    <2>4. RequestOK(r, Db)
      BY <1>1, <1>5, <1>6, <2>1, <2>2, <2>3 DEF RequestOK
    <2> QED
      BY <1>2, <2>4, PrivateStep DEF Evaluate, IInv, TypeOK
  <1>11. CASE e.letter # None
    <2>1. e.letter \in MainLetter /\ e.letter \in LetterType
      BY <1>4, <1>11, LetterTypes
    <2> DEFINE remind == ShouldScheduleReminders(e.letter, e.uw, Context(q.snap))
    <2>2. remind \in BOOLEAN
      BY DEF ShouldScheduleReminders
    <2>3. tx = WithLetter(q.tx, q.no, e.letter, st, remind)
      BY <1>11
    <2>4. row = NewLetter(q.no, e.letter, st, remind)
      BY <1>3 DEF MainRow
    <2> HIDE DEF r, tx, remind, row, st, e
    <2>5. /\ tx \in Transaction
          /\ tx.superseded = q.tx.superseded \cup CurrentKeys(e.letter)
          /\ tx.issued = q.tx.issued \cup {row}
          /\ tx.cancelled = q.tx.cancelled
          /\ \A k \in CurrentKeys(e.letter) : k[2] = e.letter
          /\ \A l \in letters : l.current /\ l.type = e.letter => RowKey(l) \in CurrentKeys(e.letter)
      BY <1>1, <1>9, <2>1, <2>2, <2>3, <2>4, LetterTx
    <2>6. /\ row \in tx.issued
          /\ \A l \in tx.issued : l = row \/ Notice(l)
          /\ \A k \in tx.superseded : k[2] \in MainLetter => k[2] = e.letter
          /\ \A l \in letters : l.current /\ l.type = e.letter => RowKey(l) \in tx.superseded
      BY <1>1, <2>5 DEF NoticesOnly
    <2>7. OverrideOf(r.snap, r.cmd) = None /\ Active(PlansAfter(r.snap, r.cmd)) # {}
      BY <1>1, <1>5 DEF st
    <2>8. Reassesses(r, Db)
      BY <1>1, <1>5, <1>7, <1>8, <1>11, <2>5, <2>6, <2>7 DEF Reassesses
    <2>9. NamesRider(r)
      BY <1>1, <1>5, <2>5 DEF NamesRider
    <2>10. RequestOK(r, Db)
      BY <1>1, <1>5, <1>6, <2>5, <2>8, <2>9 DEF RequestOK
    <2> QED
      BY <1>2, <2>10, PrivateStep DEF Evaluate, IInv, TypeOK
  <1> QED
    BY <1>10, <1>11

LEMMA EndingStep ==
  ASSUME IInv, NEW s \in Sessions,
         Refuse(s) \/ EvaluatorThrows(s) \/ Conflict(s) \/ Die(s)
  PROVE  IInv'
  BY EndStep DEF Refuse, EvaluatorThrows, Conflict, Die

(***************************************************************************)
(* Steps that change committed rows.                                       *)
(***************************************************************************)
LEMMA WriteAuditStep ==
  ASSUME IInv, NEW s \in Sessions, WriteAudit(s)
  PROVE  IInv'
  <1>1. RequestOK(Idle, Db) /\ Db' = Db
    BY DEF RequestOK, Idle, WriteAudit, Db, policy
  <1>2. Later(Db, Db') /\ RequestOK(Idle, Db')
    BY <1>1, DbType DEF IInv
  <1>3. Requests'
    BY <1>2, SlotStep DEF IInv, WriteAudit
  <1>4. TypeOK'
    <2>1. audited' \in PolicySubstatus
      BY DEF WriteAudit, PolicySubstatus
    <2> QED
      BY <1>3, <2>1 DEF IInv, TypeOK, WriteAudit, policy, Requests, RequestOK
  <1>5. Safety'
    BY DEF IInv, Safety, UwFieldsMatchPlans, NoRemindersAwaitingAps, CustomerLettersSuperseded,
           CurrentLetterCoversActive, MainLettersCurrent, BilledCovers, WriteAudit, policy,
           TermsAcceptedBeforeIssue, CustomerIsReminded, AnswerBlanked
  <1> QED
    BY <1>3, <1>4, <1>5 DEF IInv

LEMMA SaveRowStep ==
  ASSUME IInv, NEW s \in Sessions, SaveRow(s)
  PROVE  IInv'
  <1> DEFINE r == [pc |-> "saved"]
  <1>1. /\ version' \in Nat /\ version <= version'
        /\ version' = version => substatus' = substatus
        /\ \/ substatus' = substatus /\ version' = version
           \/ substatus' = "PendingManualUnderwriting"
    BY DEF SaveRow, IInv, TypeOK
  <1>2. Later(Db, Db')
    <2>1. UNCHANGED <<facts, status, uw, letters, billed>>
      BY DEF SaveRow
    <2> QED
      BY <1>1, <2>1 DEF Later, SameRisks, Db, IInv, TypeOK
  <1>3. RequestOK(r, Db')
    BY DEF RequestOK
  <1>4. Requests'
    BY <1>2, <1>3, SlotStep DEF IInv, SaveRow
  <1>5. TypeOK'
    <2>1. substatus' \in PolicySubstatus
      BY <1>1 DEF PolicySubstatus, IInv, TypeOK
    <2> QED
      BY <1>1, <1>4, <2>1 DEF IInv, TypeOK, SaveRow, Requests, RequestOK
  <1>6. Safety'
    BY <1>1 DEF IInv, Safety, UwFieldsMatchPlans, NoRemindersAwaitingAps,
      CustomerLettersSuperseded, CurrentLetterCoversActive, MainLettersCurrent, BilledCovers,
      SaveRow, LetterGeneratingSubstatuses, TermsAcceptedBeforeIssue, PastAcceptance,
      CustomerIsReminded, AnswerBlanked
  <1> QED
    BY <1>4, <1>5, <1>6 DEF IInv

LEMMA CashCollectedStep ==
  ASSUME IInv, CashCollected
  PROVE  IInv'
  <1>1. facts' = [facts EXCEPT !.shortfall = FALSE]
    BY DEF CashCollected
  <1>2. facts' \in Facts /\ facts'.loading = facts.loading /\ facts'.exclusion = facts.exclusion
        /\ ~facts'.shortfall /\ (RenewalKeepsRcmp(facts') <=> RenewalKeepsRcmp(facts))
    BY <1>1 DEF IInv, TypeOK, Facts, RenewalKeepsRcmp
  <1>3. Later(Db, Db')
    <2>1. UNCHANGED <<status, substatus, uw, letters, version, billed>>
      BY DEF CashCollected, policy
    <2> QED
      BY <1>1, <2>1 DEF Later, SameRisks, Db, IInv, TypeOK
  <1>4. Requests'
    <2>1. ASSUME NEW t \in Sessions PROVE RequestOK(session[t], Db')
      BY <1>3, Interference DEF IInv, Requests
    <2>2. session' = session
      BY DEF CashCollected
    <2> QED
      BY <2>1, <2>2 DEF IInv, Requests
  <1>5. TypeOK'
    BY <1>2 DEF IInv, TypeOK, CashCollected, policy
  <1>6. Composition(Active(status), facts') = Composition(Active(status), facts)
    BY <1>2 DEF Composition
  <1>7. Safety'
    BY <1>2, <1>6 DEF IInv, Safety, UwFieldsMatchPlans, NoRemindersAwaitingAps,
      CustomerLettersSuperseded, CurrentLetterCoversActive, MainLettersCurrent, BilledCovers,
      TermsAcceptedBeforeIssue, CustomerIsReminded, AnswerBlanked, CashCollected, policy
  <1> QED
    BY <1>4, <1>5, <1>7 DEF IInv

(***************************************************************************)
(* Commit.                                                                 *)
(***************************************************************************)
\* A transaction that writes notices only leaves the main letters current.
LEMMA MainRowsKept ==
  ASSUME letters \subseteq LetterRow, NEW tx, NoticesOnly(tx),
         NEW l \in Written(tx), l.type \in MainLetter
  PROVE  \E m \in letters :
           /\ l = Rewritten(tx, m)
           /\ RowKey(l) = RowKey(m) /\ l.type = m.type /\ l.plans = m.plans
           /\ l.current <=> m.current
           /\ l.scheduled => m.scheduled
           /\ RowKey(m) \in tx.cancelled => ~l.scheduled
  <1>1. l \notin tx.issued
    BY DEF NoticesOnly, Notice
  <1>2. PICK m \in letters :
              /\ l = Rewritten(tx, m)
              /\ RowKey(l) = RowKey(m) /\ l.type = m.type /\ l.plans = m.plans
              /\ l.current <=> m.current /\ RowKey(m) \notin tx.superseded
              /\ l.scheduled <=>
                   m.scheduled /\ RowKey(m) \notin tx.superseded /\ RowKey(m) \notin tx.cancelled
    BY <1>1, WrittenRows
  <1>3. RowKey(m)[2] = m.type
    BY DEF RowKey
  <1>4. RowKey(m) \notin tx.superseded
    BY <1>2, <1>3 DEF NoticesOnly
  <1> QED
    BY <1>2, <1>4

\* And every main letter survives it, with its reminders unless they are
\* cancelled.
LEMMA MainRowsSurvive ==
  ASSUME letters \subseteq LetterRow, NEW tx, NoticesOnly(tx), tx.cancelled = {},
         NEW m \in letters, m.type \in MainLetter, m.current
  PROVE  \E l \in Written(tx) : /\ l.current /\ l.scheduled = m.scheduled
                                /\ l.type = m.type /\ l.plans = m.plans
  <1> DEFINE l == Rewritten(tx, m)
  <1>1. m \in LetterRow
    OBVIOUS
  <1>2. RowKey(m)[2] = m.type
    BY DEF RowKey
  <1>3. RowKey(m) \notin tx.superseded
    BY <1>2 DEF NoticesOnly
  <1>4. /\ l \in LetterRow /\ l.type = m.type /\ l.plans = m.plans
        /\ l.current <=> m.current /\ RowKey(m) \notin tx.superseded
        /\ l.scheduled <=>
             m.scheduled /\ RowKey(m) \notin tx.superseded /\ RowKey(m) \notin tx.cancelled
    BY <1>1, RewrittenRow
  <1>5. l \in {Rewritten(tx, k) : k \in letters}
    OBVIOUS
  <1> HIDE DEF l
  <1>6. l.current /\ l.scheduled = m.scheduled
    BY <1>1, <1>3, <1>4 DEF LetterRow
  <1>7. l \in Written(tx)
    BY <1>5, <1>6 DEF Written, Live
  <1> QED
    BY <1>4, <1>6, <1>7

\* The same for any row: reminders only ever go away.
LEMMA NoRemindersAdded ==
  ASSUME letters \subseteq LetterRow, NEW tx, NoticesOnly(tx),
         NEW l \in Written(tx), l.scheduled
  PROVE  \E m \in letters : m.scheduled /\ RowKey(m) = RowKey(l) /\ RowKey(m) \notin tx.cancelled
  <1>1. l \notin tx.issued
    BY DEF NoticesOnly, Notice
  <1> QED
    BY <1>1, WrittenRows

\* A decision with a fixed next substatus commits: it changes the substatus
\* only, or nothing of the policy at all.
LEMMA OverrideCommitted ==
  ASSUME IInv, NEW s \in Sessions, Commit(s), Overrides(session[s], Db)
  PROVE  LET q == session[s]
         IN  /\ q.tx \in Transaction /\ NoticesOnly(q.tx)
             /\ UNCHANGED <<facts, status, uw, billed>>
             /\ letters' = Written(q.tx)
             /\ \/ /\ substatus' = "PendingUwAps" /\ version' = version + 1
                   /\ Routable(substatus, "Aps")
                   /\ \A l \in letters : l.scheduled => RowKey(l) \in q.tx.cancelled
                \/ substatus' = substatus /\ version' = version /\ q.tx.cancelled = {}
  <1> DEFINE q == session[s]
  <1>1. /\ Holding(q, Db) /\ q.tx \in Transaction /\ Admitted(q.snap, q.cmd)
        /\ NoticesOnly(q.tx)
        /\ OverrideOf(q.snap, q.cmd) # None
        /\ q.substatus = OverrideOf(q.snap, q.cmd)
        /\ q.updatesPolicy = (q.substatus # q.snap.substatus)
    BY DEF Commit, IInv, Requests, RequestOK, Overrides
  <1>2. /\ PlansAfter(q.snap, q.cmd) = q.snap.status /\ q.cmd.kind = "UwDecision"
        /\ \/ /\ q.substatus = "PendingUwAps" /\ q.snap.substatus # "PendingUwAps"
              /\ q.cmd.decision = "Aps"
           \/ /\ q.substatus = q.snap.substatus
              /\ q.snap.substatus \in {"PendingIpRequestFile", "PendingIpResponseFileCpfRejected"}
    BY <1>1, CommandResult DEF Holding, Addressed
  <1>3. UNCHANGED <<facts, status, uw, billed>>
    <2>1. status' = [p \in Plans |-> status[p]]
      BY <1>2 DEF Commit
    <2>2. status' = status
      BY <2>1 DEF IInv, TypeOK
    <2> QED
      BY <1>1, <2>2 DEF Commit
  <1>4. letters' = Written(q.tx)
    BY DEF Commit
  <1>5. \/ /\ substatus' = "PendingUwAps" /\ version' = version + 1
           /\ Routable(substatus, "Aps")
           /\ \A l \in letters : l.scheduled => RowKey(l) \in q.tx.cancelled
        \/ substatus' = substatus /\ version' = version /\ q.tx.cancelled = {}
    <2>1. CASE q.substatus = "PendingUwAps" /\ q.snap.substatus # "PendingUwAps"
      <3>1. version = q.snap.version
        BY <1>1, <2>1 DEF Commit, VersionMatches
      <3>2. \A l \in letters : l.scheduled => RowKey(l) \in q.tx.cancelled
        BY <2>1, <3>1 DEF Overrides, Db
      <3>3. Routable(substatus, "Aps")
        BY <1>1, <1>2, <2>1, <3>1 DEF Holding, Db, Admitted
      <3> QED
        BY <1>1, <2>1, <3>2, <3>3 DEF Commit
    <2>2. CASE q.substatus = q.snap.substatus
      <3>1. q.tx.cancelled = {}
        BY <1>2, <2>2 DEF Overrides
      <3> QED
        BY <1>1, <2>2, <3>1 DEF Commit
    <2> QED
      BY <1>2, <2>1, <2>2
  <1> QED
    BY <1>1, <1>3, <1>4, <1>5

\* It keeps the invariants.
LEMMA OverrideCommit ==
  ASSUME IInv, NEW s \in Sessions, Commit(s), Overrides(session[s], Db)
  PROVE  Later(Db, Db') /\ Safety' /\ substatus' \in PolicySubstatus /\ uw' \in UWState
         /\ status' \in [Plans -> ProductStatus] /\ letters' \subseteq LetterRow
         /\ version' \in Nat /\ billed' \in BOOLEAN
  <1> DEFINE q == session[s]
  <1>1. /\ q.tx \in Transaction /\ NoticesOnly(q.tx)
    BY OverrideCommitted
  <1>2. UNCHANGED <<facts, status, uw, billed>>
    BY OverrideCommitted
  <1>3. letters \subseteq LetterRow /\ letters' = Written(q.tx)
    BY OverrideCommitted DEF IInv, TypeOK
  <1>4. letters' \subseteq LetterRow
    <2>1. q.tx.issued \subseteq LetterRow
      BY <1>1 DEF Transaction
    <2> QED
      BY <1>3, <2>1, WrittenType
  <1>5. \/ /\ substatus' = "PendingUwAps" /\ version' = version + 1
           /\ \A l \in letters : l.scheduled => RowKey(l) \in q.tx.cancelled
        \/ substatus' = substatus /\ version' = version /\ q.tx.cancelled = {}
    BY OverrideCommitted
  <1>6. \A l \in letters' : l.type \in MainLetter =>
          \E m \in letters :
            /\ l = Rewritten(q.tx, m)
            /\ RowKey(l) = RowKey(m) /\ l.type = m.type /\ l.plans = m.plans
            /\ l.current <=> m.current
            /\ l.scheduled => m.scheduled
    BY <1>1, <1>3, MainRowsKept
  <1>7. \A l \in letters' : l.scheduled =>
          \E m \in letters :
            m.scheduled /\ RowKey(m) = RowKey(l) /\ RowKey(m) \notin q.tx.cancelled
    BY <1>1, <1>3, NoRemindersAdded
  <1>8. ASSUME q.tx.cancelled = {}, NEW m \in letters, m.type \in MainLetter, m.current
        PROVE  \E l \in letters' : /\ l.current /\ l.scheduled = m.scheduled
                                  /\ l.type = m.type /\ l.plans = m.plans
    BY <1>1, <1>3, <1>8, MainRowsSurvive
  <1> HIDE DEF q
  <1>9. Later(Db, Db')
    <2>1. version \in Nat /\ version' \in Nat /\ version <= version'
      BY <1>5 DEF IInv, TypeOK
    <2>2. version' = version => substatus' = substatus
      BY <1>5 DEF IInv, TypeOK
    <2>3. \A l \in letters' :
            /\ l.scheduled => \E m \in letters : m.scheduled /\ RowKey(m) = RowKey(l)
            /\ l.current /\ l.type \in MainLetter =>
                 \E m \in letters : m.current /\ m.type = l.type /\ RowKey(m) = RowKey(l)
      BY <1>6, <1>7
    <2> QED
      BY <1>2, <2>1, <2>2, <2>3 DEF Later, SameRisks, Db, IInv, TypeOK
  <1>10. UwFieldsMatchPlans' /\ BilledCovers' /\ AnswerBlanked'
    BY <1>2 DEF IInv, Safety, UwFieldsMatchPlans, BilledCovers, AnswerBlanked
  <1>11. NoRemindersAwaitingAps'
    BY <1>5, <1>7 DEF IInv, Safety, NoRemindersAwaitingAps
  <1>12. CustomerLettersSuperseded' /\ MainLettersCurrent'
    BY <1>6 DEF IInv, Safety, CustomerLettersSuperseded, MainLettersCurrent
  <1>13. CurrentLetterCoversActive'
    <2>1. CASE substatus' = "PendingUwAps"
      BY <2>1 DEF CurrentLetterCoversActive, LetterGeneratingSubstatuses
    <2>2. CASE substatus' = substatus
      <3>1. MainLetterFor(uw.currentComposition) \in MainLetter
        BY DEF IInv, TypeOK, UWState, RiskComposition, MainLetterFor, MainLetter
      <3> QED
        BY <1>2, <1>6, <2>2, <3>1 DEF IInv, Safety, CurrentLetterCoversActive
    <2> QED
      BY <1>5, <2>1, <2>2
  <1>14. substatus' \in PolicySubstatus /\ version' \in Nat
    BY <1>5 DEF IInv, TypeOK, PolicySubstatus
  <1>15. TermsAcceptedBeforeIssue'
    BY <1>2, <1>5 DEF IInv, Safety, TermsAcceptedBeforeIssue, PastAcceptance
  <1>16. CustomerIsReminded'
    <2> SUFFICES ASSUME version' > 0, substatus' \in LetterGeneratingSubstatuses
                 PROVE  \E l \in letters' :
                          /\ l.current /\ l.scheduled
                          /\ l.type = MainLetterFor(uw.currentComposition)
                          /\ l.plans = Active(status)
      BY <1>2 DEF CustomerIsReminded
    <2>1. version > 0 /\ substatus \in LetterGeneratingSubstatuses /\ q.tx.cancelled = {}
      BY <1>5 DEF LetterGeneratingSubstatuses
    <2>2. PICK m \in letters : /\ m.current /\ m.scheduled
                               /\ m.type = MainLetterFor(uw.currentComposition)
                               /\ m.plans = Active(status)
      BY <2>1 DEF IInv, Safety, CustomerIsReminded
    <2>3. MainLetterFor(uw.currentComposition) \in MainLetter
      BY DEF IInv, TypeOK, UWState, RiskComposition, MainLetterFor, MainLetter
    <2> QED
      BY <1>8, <2>1, <2>2, <2>3
  <1> QED
    BY <1>2, <1>4, <1>9, <1>10, <1>11, <1>12, <1>13, <1>14, <1>15, <1>16 DEF Safety, IInv, TypeOK

\* A command that was evaluated commits: its snapshot was not stale, so the
\* policy is as the evaluation left it.
LEMMA EvaluationCommitted ==
  ASSUME IInv, NEW s \in Sessions, Commit(s), Reassesses(session[s], Db)
  PROVE  LET q == session[s]
             st == PlansAfter(q.snap, q.cmd)
             e == EvaluationOn(facts, q)
         IN  /\ Holding(q, Db) /\ q.tx \in Transaction /\ Admitted(q.snap, q.cmd)
             /\ q.snap.substatus = substatus /\ q.snap.uw = uw /\ q.snap.status = status
             /\ q.snap.shortfall => billed
             /\ st \in [Plans -> ProductStatus]
             /\ status' = st /\ substatus' = e.substatus /\ uw' = e.uw /\ facts' = facts
             /\ version' = version + 1 /\ billed' = q.snap.shortfall /\ letters' = Written(q.tx)
             /\ \A l \in letters : l.current /\ l.type = e.letter /\ e.letter # None
                                     => RowKey(l) \in q.tx.superseded
  <1> DEFINE q == session[s]
             st == PlansAfter(q.snap, q.cmd)
             e == EvaluationOn(facts, q)
  <1>1. /\ Holding(q, Db) /\ q.tx \in Transaction /\ Admitted(q.snap, q.cmd)
        /\ Db.facts = facts /\ Db.letters = letters
    BY DEF Commit, IInv, Requests, RequestOK, Db
  <1>2. /\ OverrideOf(q.snap, q.cmd) = None /\ q.updatesPolicy = TRUE
        /\ q.uw = e.uw /\ q.substatus = e.substatus
    BY <1>1 DEF Reassesses
  <1>3. /\ q.snap.version = version
        /\ q.snap.substatus = substatus /\ q.snap.uw = uw /\ q.snap.status = status
        /\ q.snap.shortfall => billed
    BY <1>1, <1>2 DEF Commit, VersionMatches, Holding, Db
  <1>4. st \in [Plans -> ProductStatus]
    BY <1>1, CommandResult DEF Holding, Addressed
  <1>5. /\ status' = st /\ substatus' = e.substatus /\ uw' = e.uw /\ facts' = facts
        /\ version' = version + 1 /\ billed' = q.snap.shortfall /\ letters' = Written(q.tx)
    <2>1. status' = [p \in Plans |-> IF st[p] = status[p] THEN status[p] ELSE st[p]]
      BY <1>3 DEF Commit
    <2>2. status' = st
      BY <1>4, <2>1
    <2> QED
      BY <1>2, <1>3, <2>2 DEF Commit
  <1>6. \A l \in letters : l.current /\ l.type = e.letter /\ e.letter # None
                             => RowKey(l) \in q.tx.superseded
    BY <1>1, <1>3 DEF Reassesses, Db
  <1> HIDE DEF q, st, e
  <1>7. /\ Holding(q, Db) /\ q.tx \in Transaction /\ Admitted(q.snap, q.cmd)
        /\ q.snap.substatus = substatus /\ q.snap.uw = uw /\ q.snap.status = status
        /\ q.snap.shortfall => billed
        /\ st \in [Plans -> ProductStatus]
        /\ status' = st /\ substatus' = e.substatus /\ uw' = e.uw /\ facts' = facts
        /\ version' = version + 1 /\ billed' = q.snap.shortfall /\ letters' = Written(q.tx)
        /\ \A l \in letters : l.current /\ l.type = e.letter /\ e.letter # None
                                => RowKey(l) \in q.tx.superseded
    BY <1>1, <1>3, <1>4, <1>5, <1>6
  <1> QED
    BY <1>7 DEF q, st, e

\* It keeps the invariants.
LEMMA EvaluatedCommit ==
  ASSUME IInv, NEW s \in Sessions, Commit(s), Reassesses(session[s], Db)
  PROVE  Later(Db, Db') /\ Safety' /\ substatus' \in PolicySubstatus /\ uw' \in UWState
         /\ status' \in [Plans -> ProductStatus] /\ letters' \subseteq LetterRow
         /\ version' \in Nat /\ billed' \in BOOLEAN
  <1> DEFINE q == session[s]
             st == PlansAfter(q.snap, q.cmd)
             e == EvaluationOn(facts, q)
             row == MainRow(q, facts)
  <1>1. /\ Holding(q, Db) /\ q.tx \in Transaction /\ Admitted(q.snap, q.cmd)
        /\ Db.facts = facts /\ Db.letters = letters
    BY EvaluationCommitted DEF Db
  <1>2. /\ q.tx.cancelled = {}
        /\ e.letter = None => NoticesOnly(q.tx)
        /\ e.letter # None =>
           /\ row \in q.tx.issued
           /\ \A l \in q.tx.issued : l = row \/ Notice(l)
    BY <1>1 DEF Reassesses
  <1>3. \A l \in letters : l.current /\ l.type = e.letter /\ e.letter # None
                             => RowKey(l) \in q.tx.superseded
    BY EvaluationCommitted
  <1>4. /\ e.uw \in UWState
        /\ e.uw.currentComposition = Composition(Active(st), facts)
        /\ e.substatus \in PolicySubstatus
        /\ e.substatus # "PendingUwAps"
        /\ e.letter \in MainLetter \cup {None}
        /\ e.substatus \in LetterGeneratingSubstatuses
             => /\ e.letter = MainLetterFor(e.uw.currentComposition)
                /\ ShouldScheduleReminders(e.letter, e.uw, ContextOn(facts, q))
        /\ e.substatus \in PastAcceptance => TermsAccepted(e.uw)
        /\ e.uw.currentComposition = "AllStandard"
             => e.uw.acceptCloa = "Blank" \/ RenewalKeepsRcmp(facts)
    BY <1>1, EvaluationResult DEF Holding, IInv, TypeOK
  <1>5. /\ st \in [Plans -> ProductStatus]
        /\ status' = st /\ substatus' = e.substatus /\ uw' = e.uw /\ facts' = facts
        /\ version' = version + 1 /\ billed' = q.snap.shortfall /\ letters' = Written(q.tx)
    BY EvaluationCommitted
  <1>6. letters \subseteq LetterRow /\ letters' \subseteq LetterRow
    <2>1. q.tx.issued \subseteq LetterRow
      BY <1>1 DEF Transaction
    <2> QED
      BY <1>5, <2>1, WrittenType DEF IInv, TypeOK
  <1>7. e.letter # None =>
          /\ e.letter \in MainLetter
          /\ row.type = e.letter /\ row.current /\ row.plans = Active(st)
          /\ row.scheduled = ShouldScheduleReminders(e.letter, e.uw, ContextOn(facts, q))
    BY <1>1, <1>4, MainRowType DEF Holding, Addressed
  <1>8. ASSUME NEW l \in letters', l.type \in MainLetter
        PROVE  \/ e.letter # None /\ l = row
               \/ \E m \in letters :
                    /\ l = Rewritten(q.tx, m) /\ l.type = m.type
                    /\ l.current /\ m.current /\ l.type # e.letter
    <2>1. CASE l \in q.tx.issued
      BY <1>2, <1>8, <2>1 DEF NoticesOnly, Notice
    <2>2. CASE l \notin q.tx.issued
      <3>1. PICK m \in letters :
              /\ l = Rewritten(q.tx, m)
              /\ RowKey(l) = RowKey(m) /\ l.type = m.type /\ l.plans = m.plans
              /\ l.current <=> m.current /\ RowKey(m) \notin q.tx.superseded
              /\ l.scheduled <=>
                   m.scheduled /\ RowKey(m) \notin q.tx.superseded /\ RowKey(m) \notin q.tx.cancelled
              /\ l.current \/ l.scheduled
        BY <1>5, <1>6, <2>2, WrittenRows
      <3>2. m.current
        BY <1>8, <3>1 DEF IInv, Safety, MainLettersCurrent
      <3>3. RowKey(m) \notin q.tx.superseded
        BY <1>8, <3>1, <3>2 DEF IInv, Safety, CustomerLettersSuperseded
      <3>4. l.type # e.letter
        <4> SUFFICES ASSUME l.type = e.letter PROVE FALSE
          OBVIOUS
        <4>1. e.letter # None
          BY <1>8, LetterTypes
        <4>2. RowKey(m) \in q.tx.superseded
          BY <1>3, <3>1, <3>2, <4>1
        <4> QED
          BY <3>3, <4>2
      <3> QED
        BY <3>1, <3>2, <3>3, <3>4
    <2> QED
      BY <2>1, <2>2
  <1> HIDE DEF q, st, e, row
  <1>9. Later(Db, Db')
    BY <1>5 DEF Later, SameRisks, Db, IInv, TypeOK
  <1>10. UwFieldsMatchPlans' /\ NoRemindersAwaitingAps'
    BY <1>4, <1>5 DEF UwFieldsMatchPlans, NoRemindersAwaitingAps
  <1>11. BilledCovers'
    BY <1>1, <1>5 DEF BilledCovers, Holding
  <1>12. MainLettersCurrent'
    BY <1>7, <1>8 DEF MainLettersCurrent
  <1>13. CustomerLettersSuperseded'
    <2>1. ASSUME NEW l \in letters', NEW m \in letters', l.type \in MainLetter,
                 l.type = m.type
          PROVE  l = m
      <3>1. CASE l.type = e.letter
        BY <1>8, <2>1, <3>1
      <3>2. CASE l.type # e.letter
        <4>1. PICK l0 \in letters : l = Rewritten(q.tx, l0) /\ l0.current /\ l.type = l0.type
          BY <1>7, <1>8, <2>1, <3>2
        <4>2. PICK m0 \in letters : m = Rewritten(q.tx, m0) /\ m0.current /\ m.type = m0.type
          BY <1>7, <1>8, <2>1, <3>2
        <4>3. l0 = m0
          BY <2>1, <4>1, <4>2 DEF IInv, Safety, CustomerLettersSuperseded
        <4> QED
          BY <4>1, <4>2, <4>3
      <3> QED
        BY <3>1, <3>2
    <2> QED
      BY <1>12, <2>1 DEF CustomerLettersSuperseded, MainLettersCurrent
  <1>14. CurrentLetterCoversActive'
    <2> SUFFICES ASSUME substatus' \in LetterGeneratingSubstatuses, NEW l \in letters',
                        l.type = MainLetterFor(uw'.currentComposition)
                 PROVE  l.plans = Active(status')
      BY DEF CurrentLetterCoversActive
    <2>1. l.type = e.letter
      BY <1>4, <1>5
    <2>2. l.type \in MainLetter
      BY <1>4, <1>5, <2>1 DEF MainLetterFor, MainLetter, UWState, RiskComposition
    <2>3. l = row /\ e.letter # None
      BY <1>8, <2>1, <2>2
    <2> QED
      BY <1>5, <1>7, <2>3
  <1>15. version' \in Nat /\ billed' \in BOOLEAN
    BY <1>1, <1>5 DEF IInv, TypeOK, Holding, SnapType
  <1>16. TermsAcceptedBeforeIssue' /\ AnswerBlanked'
    BY <1>4, <1>5 DEF TermsAcceptedBeforeIssue, AnswerBlanked
  <1>17. CustomerIsReminded'
    <2> SUFFICES ASSUME substatus' \in LetterGeneratingSubstatuses
                 PROVE  \E l \in letters' :
                          /\ l.current /\ l.scheduled
                          /\ l.type = MainLetterFor(uw'.currentComposition)
                          /\ l.plans = Active(status')
      BY DEF CustomerIsReminded
    <2>1. /\ e.letter = MainLetterFor(uw'.currentComposition)
          /\ ShouldScheduleReminders(e.letter, e.uw, ContextOn(facts, q))
      BY <1>4, <1>5
    <2>2. uw'.currentComposition \in RiskComposition
      BY <1>4, <1>5 DEF UWState
    <2>3. e.letter # None
      BY <2>1, <2>2 DEF MainLetterFor, RiskComposition, None
    <2>4. row \in letters'
      BY <1>2, <1>5, <2>3 DEF Written
    <2> QED
      BY <1>5, <1>7, <2>1, <2>3, <2>4
  <1> QED
    BY <1>4, <1>5, <1>6, <1>9, <1>10, <1>11, <1>12, <1>13, <1>14, <1>15, <1>16, <1>17 DEF Safety

LEMMA CommitStep ==
  ASSUME IInv, NEW s \in Sessions, Commit(s)
  PROVE  IInv'
  <1>1. /\ Later(Db, Db') /\ Safety' /\ substatus' \in PolicySubstatus /\ uw' \in UWState
        /\ status' \in [Plans -> ProductStatus] /\ letters' \subseteq LetterRow
        /\ version' \in Nat /\ billed' \in BOOLEAN
    <2>1. Overrides(session[s], Db) \/ Reassesses(session[s], Db)
      BY DEF Commit, IInv, Requests, RequestOK
    <2> QED
      BY <2>1, OverrideCommit, EvaluatedCommit
  <1>2. RequestOK(Idle, Db')
    BY DEF RequestOK, Idle
  <1>3. Requests'
    BY <1>1, <1>2, SlotStep DEF IInv, Commit
  <1>4. session[s].substatus \in PolicySubstatus
    <2>1. /\ Holding(session[s], Db) /\ Admitted(session[s].snap, session[s].cmd)
          /\ Overrides(session[s], Db) \/ Reassesses(session[s], Db)
      BY DEF Commit, IInv, Requests, RequestOK
    <2>2. CASE Overrides(session[s], Db)
      BY <2>1, <2>2, CommandResult DEF Overrides, Holding, Addressed, SnapType, PolicySubstatus
    <2>3. CASE Reassesses(session[s], Db)
      <3>1. Db.facts \in Facts
        BY DEF Db, IInv, TypeOK
      <3>2. EvaluationOn(Db.facts, session[s]).substatus \in PolicySubstatus
        BY <2>1, <3>1, EvaluationResult DEF Holding
      <3> QED
        BY <2>3, <3>2 DEF Reassesses
    <2> QED
      BY <2>1, <2>2, <2>3
  <1>5. TypeOK'
    BY <1>1, <1>3, <1>4 DEF IInv, TypeOK, Commit, Requests, RequestOK
  <1> QED
    BY <1>1, <1>3, <1>5 DEF IInv

(***************************************************************************)
(* The theorems.                                                           *)
(***************************************************************************)
LEMMA InitStep == Init => IInv
  <1> SUFFICES ASSUME Init PROVE IInv
    OBVIOUS
  <1>1. facts \in Facts /\ status \in [Plans -> ProductStatus] /\ substatus \in PolicySubstatus
    BY InputAssumption DEF Init
  <1>2. uw \in UWState /\ UwFieldsMatchPlans /\ AnswerBlanked
    <2> DEFINE c == Composition(Active(status), facts)
    <2>1. PICK a \in AcceptCloa :
            uw = UwFieldStates([acceptCloa |-> a, rcmpOption |-> "Blank"], c, facts)
      BY DEF Init
    <2>2. c \in RiskComposition
      BY CompositionType
    <2> DEFINE answers == [acceptCloa |-> a, rcmpOption |-> "Blank"]
    <2>3. answers.acceptCloa \in AcceptCloa /\ answers.rcmpOption \in RcmpOption
      BY DEF RcmpOption
    <2> HIDE DEF c, answers
    <2>4. /\ UwFieldStates(answers, c, facts) \in UWState
          /\ UwFieldStates(answers, c, facts).currentComposition = c
      BY <1>1, <2>2, <2>3, UwFieldStatesType
    <2>5. uw = UwFieldStates(answers, c, facts)
      BY <2>1 DEF answers
    <2>6. c = "AllStandard" =>
            UwFieldStates(answers, c, facts).acceptCloa = "Blank" \/ RenewalKeepsRcmp(facts)
      BY DEF UwFieldStates, RenewalKeepsRcmp
    <2> QED
      BY <2>4, <2>5, <2>6 DEF UwFieldsMatchPlans, AnswerBlanked, c
  <1>3. DOMAIN session = Sessions /\ \A s \in Sessions : session[s] = Idle
    BY DEF Init
  <1>4. Requests
    BY <1>3 DEF Requests, RequestOK, Idle
  <1>5. TypeOK
    BY <1>1, <1>2, <1>4, InputAssumption DEF Init, TypeOK, Requests, RequestOK, Facts
  <1>6. Safety
    BY <1>2 DEF Init, Safety, NoRemindersAwaitingAps, CustomerLettersSuperseded,
                CurrentLetterCoversActive, MainLettersCurrent, BilledCovers,
                TermsAcceptedBeforeIssue, CustomerIsReminded
  <1> QED
    BY <1>4, <1>5, <1>6 DEF IInv

LEMMA NextStep == IInv /\ [Next]_vars => IInv'
  <1> SUFFICES ASSUME IInv, [Next]_vars PROVE IInv'
    OBVIOUS
  <1>1. ASSUME NEW s \in Sessions, Step(s) PROVE IInv'
    BY <1>1, PostStep, ReadJoinedStep, IssueDecisionLetterStep, EvaluateStep, TakeOverrideStep,
       EndingStep, CommitStep, SaveRowStep, WriteAuditStep DEF Step, Progress
  <1>2. CASE CashCollected
    BY <1>2, CashCollectedStep
  <1>3. CASE UNCHANGED vars
    BY <1>3 DEF vars, IInv, TypeOK, Safety, UwFieldsMatchPlans, NoRemindersAwaitingAps,
      CustomerLettersSuperseded, CurrentLetterCoversActive, MainLettersCurrent, BilledCovers,
      TermsAcceptedBeforeIssue, CustomerIsReminded, AnswerBlanked, Requests, Db
  <1> QED
    BY <1>1, <1>2, <1>3 DEF Next

LEMMA Inductive == Spec => []IInv
  BY InitStep, NextStep, PTL DEF Spec

\* Committed rows hold values of their columns' types.
THEOREM RowsTyped == Spec => []TypeOK
  <1>1. IInv => TypeOK
    BY DEF IInv
  <1> QED
    BY <1>1, Inductive, PTL

\* The safety properties of the commands hold however many requests run at
\* once, and wherever they die: the UW fields describe the committed plans.
THEOREM FieldsMatch == Spec => []UwFieldsMatchPlans
  BY Inductive, PTL DEF IInv, Safety

\* No interleaving of requests takes a policy to cash collection, the IP file
\* or inception with terms the customer has yet to accept.
THEOREM AcceptedBeforeIssue == Spec => []TermsAcceptedBeforeIssue
  BY Inductive, PTL DEF IInv, Safety

\* No request takes the current letter of a policy, or its reminders, away
\* while its customer is to answer or to pay.
THEOREM CustomersReminded == Spec => []CustomerIsReminded
  BY Inductive, PTL DEF IInv, Safety

\* No reminder is scheduled while APS is awaited, whatever letters other
\* requests issue meanwhile.
THEOREM RemindersStop == Spec => []NoRemindersAwaitingAps
  BY Inductive, PTL DEF IInv, Safety

\* Two requests never leave two current LOAs or CLOAs of a type.
THEOREM LettersSupersede == Spec => []CustomerLettersSuperseded
  BY Inductive, PTL DEF IInv, Safety

\* The current customer letter lists the committed Active plans.
THEOREM LetterCoversActive == Spec => []CurrentLetterCoversActive
  BY Inductive, PTL DEF IInv, Safety

\* Riders and UW fields change only when an evaluated command commits.
LEMMA EvaluationsChange ==
  ASSUME IInv, [Next]_vars, status' # status \/ uw' # uw
  PROVE  \E s \in Sessions : Commit(s) /\ Reassesses(session[s], Db)
  <1>1. PICK s \in Sessions : Commit(s)
    BY DEF Next, Step, Progress, vars, policy, Post, ReadJoined, Refuse, IssueDecisionLetter,
       Evaluate, EvaluatorThrows, TakeOverride, Conflict, SaveRow, WriteAudit, Die, CashCollected
  <1>2. Overrides(session[s], Db) \/ Reassesses(session[s], Db)
    BY <1>1 DEF Commit, IInv, Requests, RequestOK
  <1> QED
    BY <1>1, <1>2, OverrideCommitted

\* The rider a committed command makes NTU, declined or postponed is the one it
\* marks, and its decision letter lists the plans as that command leaves them.
LEMMA NoticeNamesRiderStep ==
  ASSUME IInv, [Next]_vars, NEW r \in Riders,
         status'[r] # status[r], status'[r] \in AdverseDecisions
  PROVE  \E l \in letters' : /\ l.current /\ r \in l.plans
                            /\ l.type = DecisionLetterFor(status'[r])
  <1>1. PICK s \in Sessions : Commit(s) /\ Reassesses(session[s], Db)
    BY EvaluationsChange
  <1> DEFINE q == session[s]
             st == PlansAfter(q.snap, q.cmd)
             type == DecisionLetterFor(q.cmd.target)
             row == NewLetter(q.no, type, st, FALSE)
  <1>2. /\ Addressed(q) /\ q.snap.status = status /\ status' = st
        /\ letters' = Written(q.tx)
    BY <1>1, EvaluationCommitted DEF Holding
  <1>3. NamesRider(q)
    BY <1>1 DEF Commit, IInv, Requests, RequestOK
  <1>4. status \in [Plans -> ProductStatus] /\ r \in Plans
    BY DEF IInv, TypeOK, Riders
  <1>5. q.cmd.kind = "MarkRiderStatus"
    <2>1. CASE q.cmd.kind = "ReAddRider"
      <3>1. st = [status EXCEPT ![q.cmd.rider] = "Active"]
        BY <1>2, <2>1 DEF PlansAfter
      <3> QED
        BY <1>2, <1>4, <3>1 DEF AdverseDecisions
    <2>2. CASE q.cmd.kind \notin {"ReAddRider", "MarkRiderStatus"}
      <3>1. st = status
        BY <1>2, <2>2 DEF PlansAfter
      <3> QED
        BY <1>2, <3>1
    <2> QED
      BY <2>1, <2>2
  <1>6. /\ st = [status EXCEPT ![q.cmd.rider] = q.cmd.target]
        /\ q.cmd.target \in AdverseDecisions
    BY <1>2, <1>5 DEF PlansAfter, Addressed, CommandType
  <1>7. q.cmd.rider = r /\ st[r] = q.cmd.target
    BY <1>2, <1>4, <1>6
  <1>8. type \in NoticeType /\ type \in LetterType /\ r \in IncludedPlans(type, st, {})
    BY <1>4, <1>6, <1>7
    DEF AdverseDecisions, DecisionLetterFor, NoticeType, LetterType, IncludedPlans
  <1>9. row \in letters'
    BY <1>2, <1>3, <1>5 DEF NamesRider, Written
  <1>10. row.current /\ row.type = type /\ row.plans = IncludedPlans(type, st, {})
    BY DEF NewLetter
  <1> QED
    BY <1>2, <1>7, <1>8, <1>9, <1>10

\* A rider that becomes NTU, declined or postponed is named by a decision
\* letter that commits with it, however many requests are writing letters.
THEOREM NoticesNameRiders == Spec => NoticeNamesRider
  <1>1. IInv /\ [Next]_vars =>
          [\A r \in Riders :
             status'[r] # status[r] /\ status'[r] \in AdverseDecisions =>
               \E l \in letters' :
                 /\ l.current /\ r \in l.plans
                 /\ l.type = DecisionLetterFor(status'[r])]_vars
    BY NoticeNamesRiderStep
  <1> QED
    BY <1>1, Inductive, PTL DEF Spec, NoticeNamesRider

\* A commit that brings an exclusion back was evaluated on the committed UW
\* fields, which held no answer.
LEMMA ExclusionStep ==
  ASSUME IInv, [Next]_vars,
         uw.currentComposition = "AllStandard", uw'.currentComposition # "AllStandard"
  PROVE  \/ substatus' = "ConditionalAcceptanceLetterGenerated"
         \/ RenewalKeepsRcmp(facts)
  <1>1. PICK s \in Sessions : Commit(s) /\ Reassesses(session[s], Db)
    BY EvaluationsChange
  <1> DEFINE q == session[s]
             e == EvaluationOn(facts, q)
  <1>2. /\ Addressed(q) /\ SnapType(q.snap) /\ Admitted(q.snap, q.cmd) /\ q.snap.uw = uw
        /\ uw' = e.uw /\ substatus' = e.substatus
    BY <1>1, EvaluationCommitted DEF Holding
  <1>3. e.uw.currentComposition # "AllStandard" /\ q.snap.uw.acceptCloa = "Blank"
          => e.substatus = "ConditionalAcceptanceLetterGenerated"
    BY <1>2, EvaluationResult DEF IInv, TypeOK
  <1>4. uw.acceptCloa = "Blank" \/ RenewalKeepsRcmp(facts)
    BY DEF IInv, Safety, AnswerBlanked
  <1> QED
    BY <1>2, <1>3, <1>4

\* No stale request revives an answer: an exclusion that comes back to an
\* all-standard policy goes to the customer again, unless the renewal exception
\* keeps the answer.
THEOREM ExclusionsAskAgain == Spec => ExclusionAsksAgain
  <1>1. IInv /\ [Next]_vars =>
          [uw.currentComposition = "AllStandard" /\ uw'.currentComposition # "AllStandard"
             => \/ substatus' = "ConditionalAcceptanceLetterGenerated"
                \/ RenewalKeepsRcmp(facts)]_vars
    BY ExclusionStep
  <1> QED
    BY <1>1, Inductive, PTL DEF Spec, ExclusionAsksAgain

\* The audit entry of a transaction names the substatus it leaves the policy
\* at, but for a decision that stays where it was.
THEOREM AuditAccurate == Spec => AuditNamesOutcome
  <1>1. ASSUME IInv, NEW s \in Sessions, Commit(s), audited' # substatus'
        PROVE  /\ OverrideOf(session[s].snap, session[s].cmd) = session[s].snap.substatus
               /\ substatus' = substatus
    <2>1. /\ session[s].substatus = session[s].snap.substatus
          /\ substatus' = substatus /\ substatus # session[s].snap.substatus
      BY <1>1 DEF Commit
    <2>2. Holding(session[s], Db) /\ (Overrides(session[s], Db) \/ Reassesses(session[s], Db))
      BY <1>1 DEF Commit, IInv, Requests, RequestOK
    <2>3. ~Reassesses(session[s], Db)
      <3> SUFFICES ASSUME Reassesses(session[s], Db) PROVE FALSE
        OBVIOUS
      <3>1. version = session[s].snap.version
        BY <1>1 DEF Commit, VersionMatches, Reassesses
      <3> QED
        BY <2>1, <2>2, <3>1 DEF Holding, Db
    <2> QED
      BY <2>1, <2>2, <2>3 DEF Overrides
  <1>2. IInv /\ [Next]_vars =>
          [\A s \in Sessions : Commit(s) /\ audited' # substatus' =>
             /\ OverrideOf(session[s].snap, session[s].cmd) = session[s].snap.substatus
             /\ substatus' = substatus]_vars
    BY <1>1
  <1> QED
    BY <1>2, Inductive, PTL DEF Spec, AuditNamesOutcome
=============================================================================
