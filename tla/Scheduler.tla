-------------------------------- MODULE Scheduler --------------------------------
(***************************************************************************)
(* The scheduler (self/subcortex/scheduler/src/scheduler-service.ts and    *)
(* document-schedule-store.ts) in front of the ingress gateway.            *)
(*                                                                         *)
(* dispatchDueSchedules lists the schedules, submits an envelope for each  *)
(* that is due and saves the copy it listed, advanced.  Calls of it may    *)
(* overlap, with each other and with the operator's register, upsert and   *)
(* cancel, which read a schedule and save it whole.  The store executes a  *)
(* call when it is made, so one action stands for one store call with the  *)
(* synchronous code that follows its await.                                *)
(***************************************************************************)
EXTENDS IngressAdapter, Sequences

CONSTANTS
  Schedule,    \* ids of the schedules
  Occurrence,  \* the times they may be due at
  Cron,        \* the cron trigger; a time is a calendar trigger's execute_at
  Trigger,     \* the triggers the operator may choose
  Period,      \* the cron expression matches every multiple of it
  Event,       \* the keys events are submitted for
  MaxCalls     \* bound on calls of the scheduler, of any kind, together

ASSUME SchedulerAssumption ==
  /\ Schedule \X Occurrence \subseteq Key /\ Event \subseteq Key
  /\ Trigger \subseteq Occurrence \cup {Cron} /\ Cron \notin Occurrence
  /\ Period \in Nat \ {0}

VARIABLES
  store,    \* store[s]: the stored schedule, or None
  pass,     \* pass[p]: where the caller's dispatchDueSchedules stands, if it is one
  edit,     \* the operator's call: what it does, and the copy it read
  calls,    \* counter for the bound
  wanted,   \* wanted[s]: what the last edit asked for (history)
  raced     \* raced[s]: that edit, or its read, overlapped a pass or a pass has
            \* held a copy from before it (history)

schedulerVars == <<store, pass, edit, calls, wanted, raced>>
vars == <<ingressVars, adapterVars, schedulerVars>>

\* A schedule: enabled, its trigger, nextDueAt, lastDispatchedAt.
Definition == [enabled : BOOLEAN, trigger : Trigger, due : Occurrence \cup {None},
               last : Time \cup {None}]
ASSUME DefinitionAssumption == None \notin Definition

TypeOK ==
  /\ IngressTypeOK /\ AdapterTypeOK
  /\ store \in [Schedule -> Definition \cup {None}]
  /\ \A p \in Caller :
       /\ pass[p].at \in {"off", "reconcile", "listDue", "submit", "await"}
       /\ pass[p].ref \in Time
       /\ pass[p].todo \subseteq DOMAIN pass[p].copies
       /\ \A s \in DOMAIN pass[p].copies : pass[p].copies[s] \in Definition
  /\ edit \in [op : {"none", "cancel", "upsert"}, s : Schedule \cup {None},
               copy : Definition \cup {None}]
  /\ calls \in 0 .. MaxCalls
  /\ raced \in [Schedule -> BOOLEAN]

NoPass == [at |-> "off", ref |-> 0, copies |-> << >>, todo |-> {}]
NoEdit == [op |-> "none", s |-> None, copy |-> None]

Init ==
  /\ IngressInit /\ AdapterInit
  /\ store = [s \in Schedule |-> None]
  /\ pass = [p \in Caller |-> NoPass]
  /\ edit = NoEdit
  /\ calls = 0
  /\ wanted = [s \in Schedule |-> None]
  /\ raced = [s \in Schedule |-> FALSE]

--------------------------------------------------------------------------------
(* Times. *)

\* computeNextCronOccurrence: the first match after t; None when the clock of the
\* model does not get there.
NextCron(t) == LET n == (t \div Period + 1) * Period IN IF n \in Occurrence THEN n ELSE None

\* computeInitialNextDueAt
InitialDue(d, ref) ==
  IF ~d.enabled THEN None
  ELSE IF d.trigger = Cron THEN NextCron(ref)
  ELSE IF d.last # None THEN None ELSE d.trigger

\* Faulty: every schedule is taken for a calendar schedule.
AdvanceOnce(d, ref, answer) ==
  [d EXCEPT !.enabled = FALSE, !.due = None,
            !.last = IF answer = "rejected" THEN @ ELSE ref]

\* advanceAfterSubmission: a calendar schedule is over whatever the outcome was.
Advance(d, ref, answer) ==
  [d EXCEPT !.enabled = @ /\ d.trigger = Cron,
            !.due = IF d.trigger = Cron THEN NextCron(ref) ELSE None,
            !.last = IF answer = "rejected" THEN @ ELSE ref]

--------------------------------------------------------------------------------
(* dispatchDueSchedules. *)

Stored == {s \in Schedule : store[s] # None}
\* listAll: a pass holds a copy of each schedule.
ListAll == [s \in Stored |-> store[s]]

\* reconcileTimeSchedules: the schedules it will save anew.
Unreconciled(copies) ==
  {s \in DOMAIN copies :
     /\ copies[s].enabled
     /\ \/ copies[s].due = None
        \/ copies[s].last # None /\ copies[s].due =< copies[s].last}

Call == calls < MaxCalls /\ calls' = calls + 1

Begin(p) ==
  /\ pass[p].at = "off" /\ At(p, "idle")
  /\ Call
  /\ LET todo == Unreconciled(ListAll)
     IN  pass' = [pass EXCEPT ![p] =
           [at |-> IF todo = {} THEN "listDue" ELSE "reconcile", ref |-> now,
            copies |-> [s \in todo |-> store[s]], todo |-> todo]]
  /\ UNCHANGED <<ingressVars, store, edit, wanted, raced>>

Reconcile(p) ==
  /\ pass[p].at = "reconcile"
  /\ \E s \in pass[p].todo :
       LET copy == pass[p].copies[s]
           ref == IF copy.last # None THEN copy.last ELSE pass[p].ref
       IN  /\ store' = [store EXCEPT ![s] = [copy EXCEPT !.due = InitialDue(copy, ref)]]
           /\ pass' = [pass EXCEPT ![p] =
                IF pass[p].todo = {s}
                THEN [pass[p] EXCEPT !.at = "listDue", !.copies = << >>, !.todo = {}]
                ELSE [pass[p] EXCEPT !.todo = pass[p].todo \ {s}]]
  /\ UNCHANGED <<ingressVars, edit, calls, wanted, raced>>

ListDue(p) ==
  /\ pass[p].at = "listDue"
  /\ LET due == {s \in Stored : /\ store[s].enabled
                                /\ store[s].due # None
                                /\ store[s].due =< pass[p].ref}
     IN  pass' = [pass EXCEPT ![p] =
           IF due = {} THEN NoPass
           ELSE [pass[p] EXCEPT !.at = "submit", !.todo = due,
                                !.copies = [s \in due |-> store[s]]]]
  /\ UNCHANGED <<ingressVars, store, edit, calls, wanted, raced>>

\* The schedules are taken in the order of their due times.
First(p) ==
  CHOOSE s \in pass[p].todo :
    \A t \in pass[p].todo : pass[p].copies[s].due =< pass[p].copies[t].due

SubmitDue(p) ==
  /\ pass[p].at = "submit"
  /\ Submit(p, <<First(p), pass[p].copies[First(p)].due>>, None)
  /\ pass' = [pass EXCEPT ![p].at = "await"]
  /\ UNCHANGED <<now, storeVars, historyVars, store, edit, calls, wanted, raced>>

\* The copy listed before the submission is saved, advanced.
SaveAdvanced(p) ==
  /\ pass[p].at = "await" /\ At(p, "answered") /\ sub[p].answer # "thrown"
  /\ LET s == First(p)
     IN  /\ store' = [store EXCEPT
               ![s] = Advance(pass[p].copies[s], pass[p].ref, sub[p].answer)]
         /\ pass' = [pass EXCEPT ![p] = IF pass[p].todo = {s} THEN NoPass
                  ELSE [pass[p] EXCEPT !.at = "submit", !.todo = pass[p].todo \ {s}]]
  /\ sub' = [sub EXCEPT ![p] = NoSubmission]
  /\ UNCHANGED <<now, storeVars, historyVars, edit, calls, wanted, raced>>

\* The exception ends the pass: what it had not come to is left to the next one.
SubmitThrew(p) ==
  /\ pass[p].at = "await" /\ At(p, "answered") /\ sub[p].answer = "thrown"
  /\ pass' = [pass EXCEPT ![p] = NoPass]
  /\ sub' = [sub EXCEPT ![p] = NoSubmission]
  /\ UNCHANGED <<now, storeVars, historyVars, store, edit, calls, wanted, raced>>

DispatchDueSchedules(p) ==
  \/ Begin(p) \/ Reconcile(p) \/ ListDue(p) \/ SubmitDue(p) \/ SaveAdvanced(p)
  \/ SubmitThrew(p)

--------------------------------------------------------------------------------
(* The operator's calls. *)

\* A pass holds a copy of s that it will save.
HeldCopy(s) ==
  \E p \in Caller : pass[p].at \in {"reconcile", "submit", "await"} /\ s \in pass[p].todo

\* register, and upsert of a schedule that does not exist yet: nothing is read.
Register(s, trigger) ==
  /\ store[s] = None
  /\ Call
  /\ LET d == [enabled |-> TRUE, trigger |-> trigger, due |-> None, last |-> None]
     IN  /\ store' = [store EXCEPT ![s] = [d EXCEPT !.due = InitialDue(d, now)]]
         /\ wanted' = [wanted EXCEPT ![s] = [enabled |-> d.enabled, trigger |-> d.trigger]]
  /\ UNCHANGED <<ingressVars, pass, edit, raced>>

\* cancel and upsert read the schedule ...
BeginEdit(op, s) ==
  /\ edit.op = "none" /\ store[s] # None
  /\ Call
  /\ edit' = [op |-> op, s |-> s, copy |-> store[s]]
  /\ UNCHANGED <<ingressVars, store, pass, wanted, raced>>

\* ... and save it: cancelled,
Cancelled(copy) == [copy EXCEPT !.enabled = FALSE, !.due = None]
\* or enabled or disabled with a new trigger; the last dispatch is kept, so a calendar schedule
\* that was dispatched is not due again.
Upserted(copy, trigger, enabled) ==
  LET d == [copy EXCEPT !.enabled = enabled, !.trigger = trigger]
  IN  [d EXCEPT !.due = InitialDue(d, IF copy.last # None THEN copy.last ELSE now)]

SaveEdit(trigger, enabled) ==
  /\ edit.op # "none"
  /\ LET s == edit.s
         d == IF edit.op = "cancel" THEN Cancelled(edit.copy)
              ELSE Upserted(edit.copy, trigger, enabled)
     IN  /\ store' = [store EXCEPT ![s] = d]
         /\ wanted' = [wanted EXCEPT ![s] = [enabled |-> d.enabled, trigger |-> d.trigger]]
         /\ raced' = [raced EXCEPT ![s] = HeldCopy(s)]
  /\ edit' = NoEdit
  /\ UNCHANGED <<ingressVars, pass, calls>>

\* dispatchHookTrigger, dispatchSystemEvent and other callers of the gateway: an
\* event is sent, and sent again with the same nonce or with a fresh one.
SendEvent(c) ==
  /\ pass[c].at = "off"
  /\ \E k \in Event, n \in Nonce \cup {None} : Submit(c, k, n)
  /\ Call
  /\ UNCHANGED <<now, storeVars, historyVars, store, pass, edit, wanted, raced>>

TakeAnswer(c) ==
  /\ pass[c].at = "off" /\ At(c, "answered")
  /\ sub' = [sub EXCEPT ![c] = NoSubmission]
  /\ UNCHANGED <<now, storeVars, historyVars, schedulerVars>>

Next ==
  \/ Tick /\ UNCHANGED <<adapterVars, schedulerVars>>
  \/ \E c \in Caller : SubmitStep(c) /\ UNCHANGED schedulerVars
  \/ /\ \/ \E c \in Caller : SendEvent(c) \/ TakeAnswer(c) \/ DispatchDueSchedules(c)
        \/ \E s \in Schedule : \/ \E t \in Trigger : Register(s, t)
                               \/ \E op \in {"cancel", "upsert"} : BeginEdit(op, s)
        \/ \E t \in Trigger, b \in BOOLEAN : SaveEdit(t, b)
     /\ UNCHANGED adapterVars

Spec == Init /\ [][Next]_vars

--------------------------------------------------------------------------------
(* Properties. *)

\* An edit holds: a schedule keeps the trigger the operator gave it last and stays
\* cancelled if it was, a cron schedule goes on, and a calendar schedule ends by
\* itself only when its occurrence was dispatched, is being dispatched, was
\* rejected, or has a claim left by a delivery that threw (the next delivery is
\* answered 'already_dispatched' and the occurrence is lost).  Excepted are edits
\* made while a call of dispatchDueSchedules holds a copy of the schedule: that
\* copy is saved over them.
LastEditHolds ==
  \A s \in Stored : ~raced[s] =>
    /\ store[s].trigger = wanted[s].trigger
    /\ ~wanted[s].enabled => ~store[s].enabled
    /\ wanted[s].enabled /\ ~store[s].enabled =>
         /\ wanted[s].trigger # Cron
         /\ LET k == <<s, wanted[s].trigger>>
            IN  started[k] > 0 \/ (\E c \in Caller : Holding(c, k))
                \/ k \in refused \cup dropped

================================================================================
