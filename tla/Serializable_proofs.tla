------------------------ MODULE Serializable_proofs ------------------------
(***************************************************************************)
(* Concurrent requests implement SerialPolicy, for every set of plans and  *)
(* sessions: a commit whose version matches is one change of the policy,   *)
(* a request that commits nothing is a stutter.  The serial order is that  *)
(* of the commits; a payment takes effect in it when the evaluation that   *)
(* first saw it commits.                                                   *)
(***************************************************************************)
EXTENDS PolicyCommands_proofs

(***************************************************************************)
(* The services of the two specifications are the same.                    *)
(***************************************************************************)
LEMMA SameEvaluator ==
  ASSUME NEW active, NEW current, NEW f
  PROVE  Serial!EvaluateAfterAction(active, current, f) = EvaluateAfterAction(active, current, f)
  <1>1. Serial!Composition(active, f) = Composition(active, f)
    BY DEF Serial!Composition, Composition
  <1>2. \A c : Serial!UwFieldStates(current, c, f) = UwFieldStates(current, c, f)
    BY DEF Serial!UwFieldStates, UwFieldStates, Serial!RenewalKeepsRcmp, RenewalKeepsRcmp
  <1>3. \A c, u : Serial!NextSubstatus(c, u, f) = NextSubstatus(c, u, f)
    BY DEF Serial!NextSubstatus, NextSubstatus
  <1>4. \A c, n : Serial!LetterToGenerate(c, n) = LetterToGenerate(c, n)
    BY DEF Serial!LetterToGenerate, LetterToGenerate, Serial!MainLetterFor, MainLetterFor,
           Serial!LetterGeneratingSubstatuses, LetterGeneratingSubstatuses, Serial!None, None
  <1> QED
    BY <1>1, <1>2, <1>3, <1>4 DEF Serial!EvaluateAfterAction, EvaluateAfterAction

LEMMA SameHandlers ==
  ASSUME NEW entry, NEW fields, NEW d
  PROVE  /\ Serial!Handle(entry, fields, d) = Handle(entry, fields, d)
         /\ Serial!Routable(entry, d) <=> Routable(entry, d)
  <1>1. \A t : Serial!DecisionLetterFor(t) = DecisionLetterFor(t)
    BY DEF Serial!DecisionLetterFor, DecisionLetterFor
  <1>2. /\ \A u, t : Serial!Defer(u, t) = Defer(u, t)
        /\ \A n, u, t : Serial!Override(n, u, t) = Override(n, u, t)
        /\ \A u : Serial!AwaitAps(u) = AwaitAps(u)
    BY DEF Serial!Defer, Defer, Serial!Override, Override, Serial!AwaitAps, AwaitAps,
           Serial!None, None
  <1>3. /\ \A u : Serial!ClearAcceptCloa(u) = ClearAcceptCloa(u)
        /\ \A u : Serial!ClearBothAnswers(u) = ClearBothAnswers(u)
    BY DEF Serial!ClearAcceptCloa, ClearAcceptCloa, Serial!ClearBothAnswers, ClearBothAnswers
  <1>4. /\ Serial!CondAcceptLetterGenHandler(fields, d) = CondAcceptLetterGenHandler(fields, d)
        /\ Serial!PendingUwCloaAssessmentHandler(fields, d) = PendingUwCloaAssessmentHandler(fields, d)
        /\ Serial!PendingCashCollectionHandler(fields, d) = PendingCashCollectionHandler(fields, d)
    BY <1>1, <1>2, <1>3
    DEF Serial!CondAcceptLetterGenHandler, CondAcceptLetterGenHandler,
        Serial!PendingUwCloaAssessmentHandler, PendingUwCloaAssessmentHandler,
        Serial!PendingCashCollectionHandler, PendingCashCollectionHandler,
        Serial!AdverseDecisions, AdverseDecisions, Serial!None, None
  <1>5. /\ Serial!PendingIpRequestFileHandler(fields, d) = PendingIpRequestFileHandler(fields, d)
        /\ Serial!PendingIpResponseCpfRejectedHandler(fields, d)
             = PendingIpResponseCpfRejectedHandler(fields, d)
        /\ Serial!PendingPpHandler(fields) = PendingPpHandler(fields)
    BY <1>1, <1>2, <1>3
    DEF Serial!PendingIpRequestFileHandler, PendingIpRequestFileHandler,
        Serial!PendingIpResponseCpfRejectedHandler, PendingIpResponseCpfRejectedHandler,
        Serial!PendingPpHandler, PendingPpHandler,
        Serial!AdverseDecisions, AdverseDecisions, Serial!None, None
  <1> QED
    BY <1>4, <1>5 DEF Serial!Handle, Handle, Serial!Routable, Routable,
      Serial!NtuOnlyEntries, NtuOnlyEntries, Serial!FullEntries, FullEntries

LEMMA SameMail ==
  ASSUME NEW ls, NEW type, NEW st, NEW remind
  PROVE  /\ Serial!Generate(ls, type, st, {}, remind) = Generate(ls, type, st, {}, remind)
         /\ Serial!CancelAllForPolicy(ls) = CancelAllForPolicy(ls)
         /\ Serial!Active(st) = Active(st)
  <1>1. \A x : Serial!Live(x) = Live(x)
    BY DEF Serial!Live, Live
  <1>2. Serial!Active(st) = Active(st)
    BY DEF Serial!Active, Active
  <1>3. Serial!IncludedPlans(type, st, {}) = IncludedPlans(type, st, {})
    BY <1>2 DEF Serial!IncludedPlans, IncludedPlans
  <1>4. Serial!Supersede(ls, type) = Supersede(ls, type)
    BY <1>1, Zenon DEF Serial!Supersede, Supersede
  <1>5. Serial!CancelAllForPolicy(ls) = CancelAllForPolicy(ls)
    BY <1>1, Zenon DEF Serial!CancelAllForPolicy, CancelAllForPolicy
  <1>6. Serial!Generate(ls, type, st, {}, remind) = Generate(ls, type, st, {}, remind)
    BY <1>3, <1>4, Zenon DEF Serial!Generate, Generate
  <1> QED
    BY <1>2, <1>5, <1>6

(***************************************************************************)
(* Customer letters before and after a commit.                             *)
(***************************************************************************)
\* x is the customer letter that row l stands for.
IsMail(x, l) ==
  /\ l.type \in MainLetter
  /\ x.type = l.type /\ x.plans = l.plans
  /\ x.current <=> l.current
  /\ x.scheduled <=> l.scheduled

LEMMA MailElements ==
  ASSUME NEW ls, ls \subseteq LetterRow
  PROVE  /\ MailOf(ls) \subseteq Letter
         /\ \A x \in Letter : x \in MailOf(ls) <=> \E l \in ls : IsMail(x, l)
  <1> DEFINE mail(l) == [ type |-> l.type, current |-> l.current, plans |-> l.plans,
                          scheduled |-> l.scheduled ]
  <1>1. \A x : x \in MailOf(ls) <=> \E l \in ls : l.type \in MainLetter /\ x = mail(l)
    BY DEF MailOf
  <1>2. \A l \in ls : mail(l) \in Letter
    BY DEF Letter, LetterRow
  <1>3. ASSUME NEW l \in ls, NEW x \in Letter, l.type \in MainLetter
        PROVE  x = mail(l) <=> IsMail(x, l)
    <2>1. l \in LetterRow
      OBVIOUS
    <2>2. /\ mail(l).type = l.type /\ mail(l).current = l.current
          /\ mail(l).plans = l.plans /\ mail(l).scheduled = l.scheduled
      OBVIOUS
    <2>3. /\ l.current \in BOOLEAN /\ l.scheduled \in BOOLEAN
          /\ x.current \in BOOLEAN /\ x.scheduled \in BOOLEAN
      BY <2>1 DEF LetterRow, Letter
    <2>4. x = mail(l) => IsMail(x, l)
      BY <1>3 DEF IsMail
    <2>5. ASSUME IsMail(x, l) PROVE x = mail(l)
      <3>1. x.type = l.type /\ x.plans = l.plans
            /\ x.current = l.current /\ x.scheduled = l.scheduled
        BY <2>3, <2>5 DEF IsMail
      <3>2. x = [ type |-> x.type, current |-> x.current, plans |-> x.plans,
                  scheduled |-> x.scheduled ]
        BY DEF Letter
      <3> QED
        BY <3>1, <3>2
    <2> QED
      BY <2>4, <2>5
  <1> HIDE DEF mail
  <1>4. \A x \in Letter : x \in MailOf(ls) <=> \E l \in ls : IsMail(x, l)
    <2>1. \A l, x : IsMail(x, l) => l.type \in MainLetter
      BY DEF IsMail
    <2> QED
      BY <1>1, <1>3, <2>1
  <1> QED
    BY <1>1, <1>2, <1>4

\* x is the customer letter that row m stands for once tx is written.
IsMailAfter(x, m, tx) ==
  /\ m.type \in MainLetter
  /\ RowKey(m) \notin tx.superseded
  /\ x.type = m.type /\ x.plans = m.plans /\ x.current
  /\ x.scheduled <=> m.scheduled /\ RowKey(m) \notin tx.cancelled

LEMMA MailWritten ==
  ASSUME letters \subseteq LetterRow, MainLettersCurrent,
         NEW tx, tx.issued \subseteq LetterRow, NEW x \in Letter
  PROVE  x \in MailOf(Written(tx)) <=>
           \/ \E l \in tx.issued : IsMail(x, l)
           \/ \E m \in letters : IsMailAfter(x, m, tx)
  <1>1. x \in MailOf(Written(tx)) <=> \E l \in Written(tx) : IsMail(x, l)
    <2>1. Written(tx) \subseteq LetterRow
      BY WrittenType
    <2> QED
      BY <2>1, MailElements
  <1>2. ASSUME NEW l \in Written(tx), IsMail(x, l), l \notin tx.issued
        PROVE  \E m \in letters : IsMailAfter(x, m, tx)
    <2>1. PICK m \in letters :
              /\ l.type = m.type /\ l.plans = m.plans
              /\ l.current <=> m.current /\ RowKey(m) \notin tx.superseded
              /\ l.scheduled <=>
                   m.scheduled /\ RowKey(m) \notin tx.superseded /\ RowKey(m) \notin tx.cancelled
              /\ l.current \/ l.scheduled
      BY <1>2, WrittenRows
    <2> QED
      BY <1>2, <2>1 DEF IsMail, IsMailAfter, MainLettersCurrent
  <1>3. ASSUME NEW m \in letters, IsMailAfter(x, m, tx)
        PROVE  \E l \in Written(tx) : IsMail(x, l)
    <2> DEFINE l == Rewritten(tx, m)
    <2>1. m \in LetterRow /\ m.current
      BY <1>3 DEF IsMailAfter, MainLettersCurrent
    <2>2. /\ l.type = m.type /\ l.plans = m.plans
          /\ l.current <=> m.current /\ RowKey(m) \notin tx.superseded
          /\ l.scheduled <=>
               m.scheduled /\ RowKey(m) \notin tx.superseded /\ RowKey(m) \notin tx.cancelled
      BY <2>1, RewrittenRow
    <2>3. l.current
      BY <1>3, <2>1, <2>2 DEF IsMailAfter
    <2>4. l \in Written(tx)
      BY <2>3 DEF Written, Live
    <2> HIDE DEF l
    <2>5. IsMail(x, l)
      BY <1>3, <2>2, <2>3 DEF IsMailAfter, IsMail
    <2> QED
      BY <2>4, <2>5
  <1>4. \A l \in tx.issued : l \in LetterRow
    OBVIOUS
  <1>5. ASSUME NEW l \in tx.issued, IsMail(x, l)
        PROVE  \E k \in Written(tx) : IsMail(x, k)
    BY <1>5 DEF Written
  <1> QED
    BY <1>1, <1>2, <1>3, <1>5

\* Without main letters to write and reminders to cancel the mail is as before.
LEMMA MailKept ==
  ASSUME letters \subseteq LetterRow, MainLettersCurrent,
         NEW tx \in Transaction, NoticesOnly(tx), tx.cancelled = {}
  PROVE  MailOf(Written(tx)) = MailOf(letters)
  <1>1. tx.issued \subseteq LetterRow
    BY DEF Transaction
  <1>2. MailOf(Written(tx)) \subseteq Letter /\ MailOf(letters) \subseteq Letter
    BY <1>1, WrittenType, MailElements
  <1>3. ASSUME NEW x \in Letter PROVE x \in MailOf(Written(tx)) <=> x \in MailOf(letters)
    <2>1. x \in MailOf(letters) <=> \E m \in letters : IsMail(x, m)
      BY MailElements
    <2>2. \A l \in tx.issued : ~IsMail(x, l)
      BY DEF NoticesOnly, Notice, IsMail
    <2>3. \A m \in letters : IsMail(x, m) <=> IsMailAfter(x, m, tx)
      BY DEF IsMail, IsMailAfter, NoticesOnly, MainLettersCurrent, RowKey
    <2> QED
      BY <1>1, <2>1, <2>2, <2>3, MailWritten
  <1> QED
    BY <1>2, <1>3

\* The decision that awaits evidence cancels every reminder of the mail.
LEMMA MailCancelled ==
  ASSUME letters \subseteq LetterRow, MainLettersCurrent,
         NEW tx \in Transaction, NoticesOnly(tx),
         \A l \in letters : l.scheduled => RowKey(l) \in tx.cancelled
  PROVE  MailOf(Written(tx)) = CancelAllForPolicy(MailOf(letters))
  <1> DEFINE after == CancelAllForPolicy(MailOf(letters))
  <1>1. tx.issued \subseteq LetterRow
    BY DEF Transaction
  <1>2. MailOf(Written(tx)) \subseteq Letter /\ MailOf(letters) \subseteq Letter
    BY <1>1, WrittenType, MailElements
  <1>3. \A y \in MailOf(letters) : y.current
    BY <1>2, MailElements DEF IsMail, MainLettersCurrent
  <1>4. after \subseteq Letter
    BY <1>2 DEF CancelAllForPolicy, Live, Letter
  <1>5. ASSUME NEW x \in Letter
        PROVE  x \in after <=>
                 \E y \in MailOf(letters) :
                   x.type = y.type /\ x.plans = y.plans /\ x.current /\ ~x.scheduled
    <2>1. x \in after <=>
            /\ \E y \in MailOf(letters) : x = [y EXCEPT !.scheduled = FALSE]
            /\ x.current \/ x.scheduled
      BY DEF CancelAllForPolicy, Live
    <2>2. ASSUME NEW y \in MailOf(letters)
          PROVE  x = [y EXCEPT !.scheduled = FALSE] <=>
                   x.type = y.type /\ x.plans = y.plans /\ x.current /\ ~x.scheduled
      <3>1. y \in Letter /\ y.current
        BY <1>2, <1>3
      <3> QED
        BY <3>1 DEF Letter
    <2> QED
      BY <2>1, <2>2
  <1>6. ASSUME NEW x \in Letter PROVE x \in MailOf(Written(tx)) <=> x \in after
    <2>1. \A l \in tx.issued : ~IsMail(x, l)
      BY DEF NoticesOnly, Notice, IsMail
    <2>2. \A m \in letters : IsMailAfter(x, m, tx) <=>
            m.type \in MainLetter /\ x.type = m.type /\ x.plans = m.plans
              /\ x.current /\ ~x.scheduled
      BY DEF IsMailAfter, NoticesOnly, RowKey
    <2>3. \A m \in letters : m.type \in MainLetter =>
            \E y \in MailOf(letters) : y.type = m.type /\ y.plans = m.plans
      <3>1. ASSUME NEW m \in letters, m.type \in MainLetter
            PROVE  \E y \in MailOf(letters) : y.type = m.type /\ y.plans = m.plans
        <4> DEFINE y == [ type |-> m.type, current |-> m.current, plans |-> m.plans,
                          scheduled |-> m.scheduled ]
        <4>1. y \in MailOf(letters)
          BY <3>1 DEF MailOf
        <4>2. y.type = m.type /\ y.plans = m.plans
          OBVIOUS
        <4> HIDE DEF y
        <4> QED
          BY <4>1, <4>2
      <3> QED
        BY <3>1
    <2>4. \A y \in MailOf(letters) : \E m \in letters :
            m.type \in MainLetter /\ y.type = m.type /\ y.plans = m.plans
      BY DEF MailOf
    <2>5. x \in MailOf(Written(tx)) <=> \E m \in letters : IsMailAfter(x, m, tx)
      BY <1>1, <2>1, MailWritten
    <2> HIDE DEF after
    <2> QED
      BY <1>5, <2>2, <2>3, <2>4, <2>5
  <1> QED
    BY <1>2, <1>4, <1>6

\* An evaluated transaction generates its main letter into the mail.
LEMMA MailGenerated ==
  ASSUME letters \subseteq LetterRow, MainLettersCurrent,
         NEW tx \in Transaction, tx.cancelled = {},
         NEW type \in MainLetter, NEW st, NEW remind \in BOOLEAN,
         NEW row \in tx.issued, row.type = type, row.current, row.scheduled <=> remind,
         row.plans = IncludedPlans(type, st, {}),
         \A l \in tx.issued : l = row \/ Notice(l),
         \A k \in tx.superseded : k[2] \in MainLetter => k[2] = type,
         \A l \in letters : l.current /\ l.type = type => RowKey(l) \in tx.superseded
  PROVE  MailOf(Written(tx)) = Generate(MailOf(letters), type, st, {}, remind)
  <1> DEFINE new == [ type |-> type, current |-> TRUE,
                      plans |-> IncludedPlans(type, st, {}), scheduled |-> remind ]
             after == Generate(MailOf(letters), type, st, {}, remind)
  <1>1. tx.issued \subseteq LetterRow
    BY DEF Transaction
  <1>2. MailOf(Written(tx)) \subseteq Letter /\ MailOf(letters) \subseteq Letter
    BY <1>1, WrittenType, MailElements
  <1>3. \A y \in MailOf(letters) : y.current
    BY <1>2, MailElements DEF IsMail, MainLettersCurrent
  <1>4. new \in Letter
    <2>1. IncludedPlans(type, st, {}) \in SUBSET Plans
      BY <1>1 DEF LetterRow
    <2> QED
      BY <2>1, LetterTypes DEF Letter
  <1>5. ASSUME NEW x PROVE x \in Supersede(MailOf(letters), type) <=>
                             x \in MailOf(letters) /\ x.type # type
    <2>1. x \in Supersede(MailOf(letters), type) <=>
            /\ x.current \/ x.scheduled
            /\ \E y \in MailOf(letters) :
                 x = IF y.type = type /\ y.current
                     THEN [y EXCEPT !.current = FALSE, !.scheduled = FALSE] ELSE y
      BY DEF Supersede, Live
    <2>2. ASSUME NEW y \in MailOf(letters), y.type = type,
                 x = [y EXCEPT !.current = FALSE, !.scheduled = FALSE]
          PROVE  ~x.current /\ ~x.scheduled
      <3>1. y \in Letter
        BY <1>2
      <3> QED
        BY <2>2, <3>1 DEF Letter
    <2> QED
      BY <1>3, <2>1, <2>2
  <1>6. \A x : x \in after <=> (x \in MailOf(letters) /\ x.type # type) \/ x = new
    BY <1>5 DEF Generate
  <1>7. ASSUME NEW x \in Letter PROVE x = new <=> IsMail(x, row)
    <2>1. /\ new.type = type /\ new.current = TRUE
          /\ new.plans = IncludedPlans(type, st, {}) /\ new.scheduled = remind
      OBVIOUS
    <2>2. x = new => IsMail(x, row)
      BY <2>1 DEF IsMail
    <2>3. ASSUME IsMail(x, row) PROVE x = new
      <3>1. /\ x.type = type /\ x.current = TRUE
            /\ x.plans = IncludedPlans(type, st, {}) /\ x.scheduled = remind
        BY <2>3 DEF IsMail, Letter
      <3>2. x = [ type |-> x.type, current |-> x.current, plans |-> x.plans,
                  scheduled |-> x.scheduled ]
        BY DEF Letter
      <3> QED
        BY <3>1, <3>2
    <2> QED
      BY <2>2, <2>3
  <1> HIDE DEF new, after
  <1>8. ASSUME NEW x \in Letter PROVE x \in MailOf(Written(tx)) <=> x \in after
    <2>1. x \in MailOf(letters) <=> \E m \in letters : IsMail(x, m)
      BY MailElements
    <2>2. \A l \in tx.issued : IsMail(x, l) => l = row
      BY DEF Notice, IsMail
    <2>3. ASSUME NEW m \in letters
          PROVE  IsMail(x, m) /\ x.type # type <=> IsMailAfter(x, m, tx)
      <3>1. RowKey(m)[2] = m.type
        BY DEF RowKey
      <3>2. m.type \in MainLetter => m.current
        BY DEF MainLettersCurrent
      <3>3. m.type = type => RowKey(m) \in tx.superseded
        BY <3>2
      <3>4. m.type \in MainLetter /\ RowKey(m) \in tx.superseded => m.type = type
        BY <3>1
      <3> QED
        BY <3>2, <3>3, <3>4 DEF IsMail, IsMailAfter
    <2>4. x \in MailOf(Written(tx)) <=>
            IsMail(x, row) \/ \E m \in letters : IsMailAfter(x, m, tx)
      BY <1>1, <2>2, MailWritten
    <2> QED
      BY <1>6, <1>7, <2>1, <2>3, <2>4
  <1>9. after \subseteq Letter
    BY <1>2, <1>4, <1>6
  <1> QED
    BY <1>2, <1>8, <1>9 DEF after

(***************************************************************************)
(* Steps.                                                                  *)
(***************************************************************************)
\* The facts as the last committed evaluation saw them.
BilledFacts == [facts EXCEPT !.shortfall = billed]

\* A committed evaluation is SerialPolicy's Reassess.
LEMMA ReassessMaps ==
  ASSUME IInv, NEW s \in Sessions, Commit(s), Reassesses(session[s], Db)
  PROVE  LET q == session[s]
         IN  Serial!Reassess(PlansAfter(q.snap, q.cmd), FieldsBefore(q.snap, q.cmd))
  <1> DEFINE q == session[s]
             st == PlansAfter(q.snap, q.cmd)
             current == FieldsBefore(q.snap, q.cmd)
             e == EvaluationOn(facts, q)
             row == MainRow(q, facts)
             remind == ShouldScheduleReminders(e.letter, e.uw, ContextOn(facts, q))
  <1>1. /\ Holding(q, Db) /\ q.tx \in Transaction /\ Admitted(q.snap, q.cmd)
        /\ q.snap.shortfall => billed
        /\ status' = st /\ substatus' = e.substatus /\ uw' = e.uw /\ facts' = facts
        /\ billed' = q.snap.shortfall /\ letters' = Written(q.tx)
        /\ \A l \in letters : l.current /\ l.type = e.letter /\ e.letter # None
                                => RowKey(l) \in q.tx.superseded
    BY EvaluationCommitted
  <1>2. /\ Active(st) # {} /\ q.tx.cancelled = {}
        /\ e.letter = None => NoticesOnly(q.tx)
        /\ e.letter # None =>
           /\ row \in q.tx.issued
           /\ \A l \in q.tx.issued : l = row \/ Notice(l)
           /\ \A k \in q.tx.superseded : k[2] \in MainLetter => k[2] = e.letter
    BY DEF Reassesses, Db
  <1>3. e.letter \in MainLetter \cup {None}
    BY <1>1, EvaluationResult DEF Holding, IInv, TypeOK
  <1>4. letters \subseteq LetterRow /\ MainLettersCurrent
    BY DEF IInv, TypeOK, Safety
  <1>5. /\ BilledFacts' = ContextOn(facts, q)
        /\ BilledFacts' \in {BilledFacts, [BilledFacts EXCEPT !.shortfall = FALSE]}
    <2>1. billed \in BOOLEAN /\ billed' \in BOOLEAN /\ (billed' => billed) /\ facts \in Facts
      BY <1>1 DEF Holding, SnapType, IInv, TypeOK
    <2>2. billed' = billed \/ billed' = FALSE
      BY <2>1
    <2>3. BilledFacts' = [facts EXCEPT !.shortfall = billed']
      BY <1>1 DEF BilledFacts
    <2>4. [facts EXCEPT !.shortfall = FALSE] = [BilledFacts EXCEPT !.shortfall = FALSE]
      BY <2>1 DEF BilledFacts, Facts
    <2>5. BilledFacts' = BilledFacts \/ BilledFacts' = [facts EXCEPT !.shortfall = FALSE]
      BY <2>2, <2>3 DEF BilledFacts
    <2> QED
      BY <1>1, <2>3, <2>4, <2>5 DEF ContextOn
  <1>6. e = EvaluateAfterAction(Active(st), current, BilledFacts')
    BY <1>5 DEF EvaluationOn
  <1>7. MailOf(letters') = IF e.letter = None THEN MailOf(letters)
                           ELSE Generate(MailOf(letters), e.letter, st, {}, remind)
    <2>1. CASE e.letter = None
      BY <1>1, <1>2, <1>4, <2>1, MailKept
    <2>2. CASE e.letter # None
      <3>1. e.letter \in MainLetter
        BY <1>3, <2>2
      <3>2. remind \in BOOLEAN
        BY DEF ShouldScheduleReminders
      <3>3. row = NewLetter(q.no, e.letter, st, remind)
        BY DEF MainRow
      <3>4. q.no \in 1..MaxCommands /\ e.letter \in LetterType
        BY <1>1, <3>1, LetterTypes DEF Holding, Addressed
      <3> HIDE DEF e, st, remind, row, q
      <3>5. /\ row.type = e.letter /\ row.current /\ row.scheduled = remind
            /\ row.plans = IncludedPlans(e.letter, st, {})
        BY <3>2, <3>3, <3>4, IssuedRow
      <3>6. MailOf(Written(q.tx)) = Generate(MailOf(letters), e.letter, st, {}, remind)
        BY <1>1, <1>2, <1>4, <2>2, <3>1, <3>2, <3>5, MailGenerated
      <3> QED
        BY <1>1, <2>2, <3>6
    <2> QED
      BY <2>1, <2>2
  <1> HIDE DEF q, st, current, e, remind, row
  <1>8. Serial!EvaluateAfterAction(Serial!Active(st), current, BilledFacts') = e
    BY <1>6, SameMail, SameEvaluator
  <1>9. /\ Serial!Active(st) # {}
        /\ \A ls : Serial!Generate(ls, e.letter, st, {}, remind)
                     = Generate(ls, e.letter, st, {}, remind)
    BY <1>2, SameMail
  <1>10. Serial!ShouldScheduleReminders(e.letter, e.uw, BilledFacts') = remind
    BY <1>5 DEF Serial!ShouldScheduleReminders, ShouldScheduleReminders, remind
  <1>11. Serial!None = None
    BY DEF Serial!None, None
  <1>12. Serial!Reassess(st, current)
    BY <1>1, <1>5, <1>7, <1>8, <1>9, <1>10, <1>11
    DEF Serial!Reassess, Serial!Paid, BilledFacts
  <1> QED
    BY <1>12 DEF q, st, current

\* A committed evaluation is a change of a rider or a decision of UW.
LEMMA EvaluatedMaps ==
  ASSUME IInv, NEW s \in Sessions, Commit(s), Reassesses(session[s], Db)
  PROVE  Serial!Next
  <1> DEFINE q == session[s]
             cmd == q.cmd
  <1>1. /\ q.cmd \in CommandType /\ Admitted(q.snap, q.cmd) /\ InTransaction(q.cmd)
        /\ q.snap.substatus = substatus /\ q.snap.uw = uw /\ q.snap.status = status
        /\ OverrideOf(q.snap, q.cmd) = None
    BY EvaluationCommitted DEF Commit, IInv, Requests, RequestOK, Holding, Addressed, Reassesses
  <1>2. Serial!Reassess(PlansAfter(q.snap, q.cmd), FieldsBefore(q.snap, q.cmd))
    BY ReassessMaps
  <1> HIDE DEF q
  <1>3. CASE cmd.kind = "UwDecision"
    <2>1. /\ PlansAfter(q.snap, q.cmd) = status
          /\ FieldsBefore(q.snap, q.cmd) = Handle(substatus, uw, cmd.decision).uw
          /\ Handle(substatus, uw, cmd.decision).override = None
          /\ Routable(substatus, cmd.decision)
          /\ cmd.decision \in UwDecisions
      BY <1>1, <1>3 DEF PlansAfter, FieldsBefore, OverrideOf, Directive, Admitted, CommandType
    <2>2. Serial!Redecide(cmd.decision)
      BY <1>2, <2>1, SameHandlers DEF Serial!Redecide, Serial!None, None
    <2>3. cmd.decision \in Serial!UwDecisions
      BY <2>1 DEF UwDecisions, Serial!UwDecisions
    <2> QED
      BY <2>2, <2>3 DEF Serial!Next
  <1>4. CASE cmd.kind = "MarkRiderStatus"
    <2>1. /\ PlansAfter(q.snap, q.cmd) = [status EXCEPT ![cmd.rider] = cmd.target]
          /\ FieldsBefore(q.snap, q.cmd) = uw
          /\ cmd.rider \in Riders /\ cmd.target \in AdverseDecisions
      BY <1>1, <1>4 DEF PlansAfter, FieldsBefore, CommandType
    <2>2. cmd.rider \in Serial!Riders /\ cmd.target \in Serial!ProductStatus
      BY <2>1 DEF Riders, Serial!Riders, AdverseDecisions, Serial!ProductStatus
    <2>3. Serial!ChangeRider(cmd.rider, cmd.target)
      BY <1>2, <2>1 DEF Serial!ChangeRider, AdverseDecisions, Serial!AdverseDecisions
    <2> QED
      BY <2>2, <2>3 DEF Serial!Next
  <1>5. CASE cmd.kind = "ReAddRider"
    <2>1. /\ PlansAfter(q.snap, q.cmd) = [status EXCEPT ![cmd.rider] = "Active"]
          /\ FieldsBefore(q.snap, q.cmd) = uw
          /\ cmd.rider \in Riders /\ status[cmd.rider] \in AdverseDecisions
      BY <1>1, <1>5 DEF PlansAfter, FieldsBefore, CommandType, Admitted
    <2>2. cmd.rider \in Serial!Riders /\ "Active" \in Serial!ProductStatus
      BY <2>1 DEF Riders, Serial!Riders, Serial!ProductStatus
    <2>3. Serial!ChangeRider(cmd.rider, "Active")
      BY <1>2, <2>1 DEF Serial!ChangeRider, AdverseDecisions, Serial!AdverseDecisions
    <2> QED
      BY <2>2, <2>3 DEF Serial!Next
  <1> QED
    BY <1>1, <1>3, <1>4, <1>5 DEF InTransaction

\* A decision with a fixed next substatus awaits evidence, or changes nothing
\* SerialPolicy knows of.
LEMMA OverrideMaps ==
  ASSUME IInv, NEW s \in Sessions, Commit(s), Overrides(session[s], Db)
  PROVE  [Serial!Next]_Serial!vars
  <1> DEFINE q == session[s]
  <1>1. /\ q.tx \in Transaction /\ NoticesOnly(q.tx)
        /\ UNCHANGED <<facts, status, uw, billed>>
        /\ letters' = Written(q.tx)
        /\ \/ /\ substatus' = "PendingUwAps"
              /\ Routable(substatus, "Aps")
              /\ \A l \in letters : l.scheduled => RowKey(l) \in q.tx.cancelled
           \/ substatus' = substatus /\ q.tx.cancelled = {}
    BY OverrideCommitted
  <1>2. letters \subseteq LetterRow /\ MainLettersCurrent
    BY DEF IInv, TypeOK, Safety
  <1> HIDE DEF q
  <1>3. CASE /\ substatus' = "PendingUwAps"
             /\ Routable(substatus, "Aps")
             /\ \A l \in letters : l.scheduled => RowKey(l) \in q.tx.cancelled
    <2>1. MailOf(letters') = CancelAllForPolicy(MailOf(letters))
      BY <1>1, <1>2, <1>3, MailCancelled
    <2>2. MailOf(letters') = Serial!CancelAllForPolicy(MailOf(letters))
      BY <2>1, SameMail
    <2>3. Serial!Routable(substatus, "Aps")
      BY <1>3, SameHandlers
    <2>4. Serial!AwaitMedicalEvidence
      BY <1>1, <1>3, <2>2, <2>3 DEF Serial!AwaitMedicalEvidence
    <2> QED
      BY <2>4 DEF Serial!Next
  <1>4. CASE substatus' = substatus /\ q.tx.cancelled = {}
    <2>1. MailOf(letters') = MailOf(letters)
      BY <1>1, <1>2, <1>4, MailKept
    <2> QED
      BY <1>1, <1>4, <2>1 DEF Serial!vars
  <1> QED
    BY <1>1, <1>3, <1>4

LEMMA InitMaps == Init => Serial!Init
  <1> SUFFICES ASSUME Init PROVE Serial!Init
    OBVIOUS
  <1>1. TypeOK
    BY InitStep DEF IInv
  <1>2. MailOf(letters) = {}
    BY DEF Init, MailOf
  <1>3. [facts EXCEPT !.shortfall = billed] \in Serial!Facts
    BY <1>1 DEF TypeOK, Facts, Serial!Facts
  <1>4. /\ status \in [Plans -> Serial!ProductStatus]
        /\ substatus \in Serial!PolicySubstatus
    BY <1>1 DEF TypeOK, ProductStatus, Serial!ProductStatus, PolicySubstatus,
                Serial!PolicySubstatus
  <1>5. uw \in Serial!UWState
    BY <1>1 DEF TypeOK, UWState, Serial!UWState, AcceptCloa, Serial!AcceptCloa, RcmpOption,
                Serial!RcmpOption, RiskComposition, Serial!RiskComposition
  <1> QED
    BY <1>2, <1>3, <1>4, <1>5 DEF Serial!Init

LEMMA NextMaps == IInv /\ [Next]_vars => [Serial!Next]_Serial!vars
  <1> SUFFICES ASSUME IInv, [Next]_vars PROVE [Serial!Next]_Serial!vars
    OBVIOUS
  <1>1. ASSUME NEW s \in Sessions, Commit(s) PROVE [Serial!Next]_Serial!vars
    <2>1. Overrides(session[s], Db) \/ Reassesses(session[s], Db)
      BY <1>1 DEF Commit, IInv, Requests, RequestOK
    <2> QED
      BY <1>1, <2>1, EvaluatedMaps, OverrideMaps
  <1>2. ASSUME NEW s \in Sessions, SaveRow(s) PROVE [Serial!Next]_Serial!vars
    <2>1. UNCHANGED <<facts, status, uw, letters, billed>>
      BY <1>2 DEF SaveRow
    <2>2. substatus' \in {substatus, "PendingManualUnderwriting"}
      BY <1>2 DEF SaveRow
    <2>3. MailOf(letters') = MailOf(letters)
      BY <2>1
    <2>4. CASE substatus' = substatus
      BY <2>1, <2>3, <2>4 DEF Serial!vars
    <2>5. CASE substatus' = "PendingManualUnderwriting"
      <3>1. Serial!RouteToManualUnderwriting
        BY <2>1, <2>3, <2>5 DEF Serial!RouteToManualUnderwriting
      <3> QED
        BY <3>1 DEF Serial!Next
    <2> QED
      BY <2>2, <2>4, <2>5
  <1>3. CASE CashCollected
    <2>1. /\ facts' = [facts EXCEPT !.shortfall = FALSE]
          /\ UNCHANGED <<status, substatus, uw, letters, billed>>
      BY <1>3 DEF CashCollected, policy
    <2>2. [facts' EXCEPT !.shortfall = billed'] = [facts EXCEPT !.shortfall = billed]
      BY <2>1 DEF IInv, TypeOK, Facts
    <2>3. MailOf(letters') = MailOf(letters)
      BY <2>1
    <2> QED
      BY <2>1, <2>2, <2>3 DEF Serial!vars
  <1>4. CASE UNCHANGED <<facts, policy, letters>>
    <2>1. MailOf(letters') = MailOf(letters)
      BY <1>4
    <2> QED
      BY <1>4, <2>1 DEF policy, Serial!vars
  <1>5. ASSUME NEW s \in Sessions, Step(s)
        PROVE  Commit(s) \/ SaveRow(s) \/ UNCHANGED <<facts, policy, letters>>
    BY <1>5 DEF Step, Progress, Post, ReadJoined, Refuse, IssueDecisionLetter, Evaluate,
      EvaluatorThrows, TakeOverride, Conflict, WriteAudit, Die
  <1>6. UNCHANGED vars => UNCHANGED <<facts, policy, letters>>
    BY DEF vars, policy
  <1> QED
    BY <1>1, <1>2, <1>3, <1>4, <1>5, <1>6 DEF Next

\* Concurrent requests have the effect of some serial order of them: for any
\* plans, sessions and commands, PolicyCommands implements SerialPolicy.
THEOREM RequestsSerializable == Spec => Serializable
  BY InitMaps, NextMaps, Inductive, PTL DEF Spec, Serializable, Serial!Spec
=============================================================================
