------------------------------ MODULE MCServices ------------------------------
(***************************************************************************)
(* Four services around a user, on small instances.  None reads what       *)
(* another of them keeps, so that a behaviour of all is an interleaving of *)
(* behaviours of each: one of them, the focus, runs, and every one gets    *)
(* its turn.                                                               *)
(***************************************************************************)
EXTENDS UserAccounts, SchedulingLinks, Onboarding, MessageHooks

VARIABLE focus

vars == <<accountVars, linkVars, onboardingVars, hookVars, focus>>

Init ==
    /\ focus \in {"accounts", "links", "onboarding", "hooks"}
    /\ AccountsInit /\ LinksInit /\ OnboardingInit /\ HooksInit
    /\ focus \notin {"links", "hooks"} => database = "sqlite"

Next ==
    \/ focus = "accounts" /\ AccountsNext
         /\ UNCHANGED <<linkVars, onboardingVars, hookVars, focus>>
    \/ focus = "links" /\ LinksNext
         /\ UNCHANGED <<accountVars, onboardingVars, hookVars, focus>>
    \/ focus = "onboarding" /\ OnboardingNext
         /\ UNCHANGED <<accountVars, linkVars, hookVars, focus>>
    \/ focus = "hooks" /\ HooksNext
         /\ UNCHANGED <<accountVars, linkVars, onboardingVars, focus>>

\* The event loop runs every task that can go on, and the model and the database
\* answer or time out.
Fairness ==
    \A r \in Onboardings :
      WF_vars(TaskStep(r) /\ UNCHANGED <<accountVars, linkVars, hookVars, focus>>)

Spec == Init /\ [][Next]_vars /\ Fairness

\* Types of the parts.
TypeOK == AccountsTypeOK /\ LinksTypeOK /\ OnboardingTypeOK /\ HooksTypeOK

LowerDef == [e \in Emails |-> "ann"]
\* Friday at half past four, Monday at nine, Monday after the last moment that is
\* listed, and Monday all day.
MeetingsDef == {<<450, 456>>, <<708, 710>>, <<737, 740>>, <<672, 768>>}
AllDaysDef == {<<672, 768>>}
\* Free on Friday, over the meeting on Monday, and backwards.
WishesDef == {<<452, 454>>, <<709, 713>>, <<460, 458>>}
===============================================================================
