------------------------------- MODULE Letters -------------------------------
(***************************************************************************)
(* The Letters and Reminders tables as EfLetterGenerator and               *)
(* EfReminderScheduler read and write them, for a set ls of letter rows.   *)
(*                                                                         *)
(* A letter row is kept while some command can still act on it: while it   *)
(* is current, or a reminder of it is scheduled.  Rows that are neither    *)
(* are never read again.  The two reminders of a letter are scheduled and  *)
(* cancelled together, so one flag stands for both.                        *)
(***************************************************************************)
EXTENDS Evaluators

Letter == [type : LetterType, current : BOOLEAN, plans : SUBSET Plans,
           scheduled : BOOLEAN]

Active(st) == {p \in Plans : st[p] = "Active"}
-----------------------------------------------------------------------------
Live(ls) == {l \in ls : l.current \/ l.scheduled}

\* Mutant: awaiting medical evidence stops the LOA reminders only.
CancelLoaReminders(ls) ==
  Live({[l EXCEPT !.scheduled = @ /\ l.type # "Loa"] : l \in ls})

\* EfReminderScheduler.CancelAllForPolicyAsync.
CancelAllForPolicy(ls) == Live({[l EXCEPT !.scheduled = FALSE] : l \in ls})

\* Mutant: a superseded letter keeps its reminders.
SupersedeKeepingReminders(ls, type) ==
  Live({IF l.type = type THEN [l EXCEPT !.current = FALSE] ELSE l : l \in ls})

\* The current letters of one type stop being current and their scheduled
\* reminders are cancelled (EfReminderScheduler.CancelForAsync).
Supersede(ls, type) ==
  Live({IF l.type = type /\ l.current
        THEN [l EXCEPT !.current = FALSE, !.scheduled = FALSE] ELSE l : l \in ls})

\* Mutant: decision letters list the plans of every UW cycle.
IncludedPlansOfAnyCycle(type, st, earlier) ==
  CASE type = "NtuWithoutRefund" -> {p \in Plans : st[p] = "NotTakenUp"}
    [] type = "Decline"          -> {p \in Plans : st[p] = "Declined"}
    [] type = "Postponement"     -> {p \in Plans : st[p] = "Postponed"}
    [] OTHER                     -> Active(st)

\* EfLetterGenerator.SelectIncludedPlans: decision letters list the plans in
\* that status whose change is not from an earlier UW cycle.
IncludedPlans(type, st, earlier) ==
  CASE type = "NtuWithoutRefund" -> {p \in Plans \ earlier : st[p] = "NotTakenUp"}
    [] type = "Decline"          -> {p \in Plans \ earlier : st[p] = "Declined"}
    [] type = "Postponement"     -> {p \in Plans \ earlier : st[p] = "Postponed"}
    [] OTHER                     -> Active(st)

\* EfLetterGenerator.GenerateAsync, with ScheduleFromAsync when remind holds.
Generate(ls, type, st, earlier, remind) ==
  Supersede(ls, type) \cup
    {[ type |-> type, current |-> TRUE,
       plans |-> IncludedPlans(type, st, earlier), scheduled |-> remind ]}

\* The letters a customer is to answer or pay on, as SerialPolicy sees them.
MailOf(ls) ==
  {[ type |-> l.type, current |-> l.current, plans |-> l.plans,
     scheduled |-> l.scheduled ] : l \in {m \in ls : m.type \in MainLetter}}
=============================================================================
