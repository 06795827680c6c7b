------------------------------ MODULE Onboarding ------------------------------
(***************************************************************************)
(* The onboarding of one user: a task in the background that notes that it *)
(* is in progress, reads mail and calendar, has two guides written, stores *)
(* them and notes that it is done.  Nothing keeps a second one from        *)
(* starting; and the user may edit the guides.  Each save opens a session, *)
(* reads in one statement, commits later and swallows its errors.          *)
(***************************************************************************)
EXTENDS Naturals, FiniteSets

CONSTANTS
    Onboardings,     \* slots for tasks and edits
    MaxOnboardings   \* bound: tasks and edits

ASSUME OnboardingBounds == MaxOnboardings \in Nat

VARIABLES
    status,     \* of the row in onboarding_status, "not_started" without one
    guides,     \* how many rows of user_guides there are of each kind
    task,       \* the tasks and edits under way
    tasks,      \* how many there have been
    spoiled     \* history: a task died, a final status was not saved, or two
                \* saves of guides overlapped

onboardingVars == <<status, guides, task, tasks, spoiled>>

Kinds == {"scheduling_preferences", "email_style"}
Statuses == {"not_started", "in_progress", "completed", "failed"}
Final == {"completed", "failed"}

NoTask == [pc |-> "idle", edit |-> FALSE, next |-> "in_progress", loaded |-> "not_started",
           texts |-> {}, found |-> {}]
TaskSteps == {"idle", "load status", "save status", "gather", "generate", "load guides",
              "save guides"}

OnboardingInit ==
    /\ status = "not_started"
    /\ guides = [k \in Kinds |-> 0]
    /\ task = [r \in Onboardings |-> NoTask]
    /\ tasks = 0
    /\ spoiled = FALSE

TaskAt(r, pc) == task[r].pc = pc
BeginTask(r, new) ==
    /\ TaskAt(r, "idle")
    /\ tasks < MaxOnboardings
    /\ tasks' = tasks + 1
    /\ task' = [task EXCEPT ![r] = new]
    /\ UNCHANGED <<status, guides, spoiled>>

\* POST onboarding/start answers at once; the task is kept in _bg_tasks.
StartOnboarding(r) == BeginTask(r, [NoTask EXCEPT !.pc = "load status"])

\* PUT guides/preferences and guides/style; an empty text is not stored.
EditGuide(r, k) ==
    BeginTask(r, [NoTask EXCEPT !.pc = "load guides", !.edit = TRUE, !.texts = {k}])

----------------------------------------------------------------------------
(* _save_onboarding_status *)

LoadStatus(r) ==
    /\ TaskAt(r, "load status")
    /\ task' = [task EXCEPT ![r].pc = "save status", ![r].loaded = status]
    /\ UNCHANGED <<status, guides, tasks, spoiled>>

\* A row that was loaded is written if its status differs; a second row is refused
\* by the unique index on the user.
Written(r) ==
    LET new == task[r].next  loaded == task[r].loaded
    IN IF new = loaded \/ (loaded = "not_started" /\ status # "not_started")
         THEN status ELSE new

SaveStatus(r, committed) ==
    /\ TaskAt(r, "save status")
    /\ status' = IF committed THEN Written(r) ELSE status
    /\ task' = [task EXCEPT ![r] =
         IF task[r].next \in Final THEN NoTask ELSE [task[r] EXCEPT !.pc = "gather"]]
    /\ spoiled' = (spoiled \/ (~committed /\ task[r].next \in Final))
    /\ UNCHANGED <<guides, tasks>>

----------------------------------------------------------------------------
(* run_onboarding between the two *)

\* Backfill and history side by side; the exceptions of both are collected.  The
\* backfill makes no event: create_event cannot take the DTO it is given, and what
\* it raises is skipped over.
Gather(r) ==
    /\ TaskAt(r, "gather")
    /\ task' = [task EXCEPT ![r].pc = "generate"]
    /\ UNCHANGED <<status, guides, tasks, spoiled>>

\* A guide that the model fails to write is the empty text.
Generate(r) ==
    /\ TaskAt(r, "generate")
    /\ \E texts \in SUBSET Kinds :
         task' = [task EXCEPT ![r].pc = "load guides", ![r].texts = texts]
    /\ UNCHANGED <<status, guides, tasks, spoiled>>

\* Faulty variant: the exception is logged and the status stays as it is.
BreakOffSilently(r) ==
    /\ TaskAt(r, "generate")
    /\ task' = [task EXCEPT ![r] = NoTask]
    /\ UNCHANGED <<status, guides, tasks, spoiled>>

\* An exception that nothing caught before.
BreakOff(r) ==
    /\ TaskAt(r, "generate")
    /\ task' = [task EXCEPT ![r].pc = "load status", ![r].next = "failed"]
    /\ UNCHANGED <<status, guides, tasks, spoiled>>

\* _save_guides looks for a row of each kind that it has a text for.
LoadGuides(r) ==
    /\ TaskAt(r, "load guides")
    /\ task' = [task EXCEPT ![r].pc = "save guides",
                            ![r].found = {k \in task[r].texts : guides[k] > 0}]
    /\ spoiled' = (spoiled \/ \E s \in Onboardings : TaskAt(s, "save guides"))
    /\ UNCHANGED <<status, guides, tasks>>

\* It updates what it found and inserts the rest; no index keeps the kinds apart.
SaveGuides(r, committed) ==
    /\ TaskAt(r, "save guides")
    /\ guides' = [k \in Kinds |->
         guides[k] + (IF committed /\ k \in task[r].texts \ task[r].found THEN 1 ELSE 0)]
    /\ task' = [task EXCEPT ![r] = IF task[r].edit THEN NoTask
                  ELSE [task[r] EXCEPT !.pc = "load status", !.next = "completed"]]
    /\ UNCHANGED <<status, tasks, spoiled>>

\* The process ends, and the task with it; nothing starts it again.
TaskDies(r) ==
    /\ ~TaskAt(r, "idle")
    /\ task' = [task EXCEPT ![r] = NoTask]
    /\ spoiled' = (spoiled \/ ~task[r].edit)
    /\ UNCHANGED <<status, guides, tasks>>

TaskStep(r) ==
    \/ LoadStatus(r) \/ \E committed \in BOOLEAN : SaveStatus(r, committed)
    \/ Gather(r) \/ Generate(r) \/ BreakOff(r)
    \/ LoadGuides(r) \/ \E committed \in BOOLEAN : SaveGuides(r, committed)

OnboardingNext ==
    \E r \in Onboardings :
      \/ StartOnboarding(r) \/ \E k \in Kinds : EditGuide(r, k)
      \/ TaskStep(r) \/ TaskDies(r)

OnboardingSpec == OnboardingInit /\ [][OnboardingNext]_onboardingVars

----------------------------------------------------------------------------
(* Properties *)

OnboardingTypeOK ==
    /\ status \in Statuses
    /\ guides \in [Kinds -> Nat]
    /\ task \in [Onboardings -> [pc : TaskSteps, edit : BOOLEAN, next : Statuses,
                                 loaded : Statuses, texts : SUBSET Kinds, found : SUBSET Kinds]]
    /\ tasks \in 0..MaxOnboardings
    /\ spoiled \in BOOLEAN

\* "Check /email/onboarding/status for progress" (start_onboarding): however many
\* tasks overlap, a status of in_progress is replaced by a final one, and there is
\* then one row of each guide at most, unless a task died, a final status could not
\* be saved or two saves of guides overlapped.
OnboardingEnds ==
    status = "in_progress" ~>
      \/ status \in Final /\ \A k \in Kinds : guides[k] <= 1
      \/ spoiled
===============================================================================
