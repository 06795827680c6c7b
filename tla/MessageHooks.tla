----------------------------- MODULE MessageHooks -----------------------------
(***************************************************************************)
(* Messages that become events.  Meta delivers WhatsApp messages, several  *)
(* in one delivery, and delivers again what it got no answer to; a user    *)
(* posts texts to the message hook or replays WhatsApp messages.  The      *)
(* language model is the environment.  Where create_event puts the event,  *)
(* and in how many copies, is the subject of CalendarEvents.               *)
(***************************************************************************)
EXTENDS Naturals, Sequences, FiniteSets, Database

CONSTANTS
    Messages,       \* message ids, of Meta's and those a replay makes up
    Deliveries,     \* slots for requests
    MaxDeliveries   \* bound: requests

ASSUME HookBounds == MaxDeliveries \in Nat

VARIABLES
    processed,    \* message ids in scanned_emails with provider "whatsapp"
    delivery,     \* the requests in hand
    deliveries,   \* how many there have been
    made,         \* how many events each WhatsApp message has made
    excused       \* history: messages whose check or mark SQLite failed, whose
                  \* processing broke off between event and mark, or overlapped

hookVars == <<database, processed, delivery, deliveries, made, excused>>

NoDelivery == [pc |-> "idle", hook |-> FALSE, todo |-> << >>, created |-> FALSE]
HookSteps == {"idle", "check", "owner", "read", "create", "mark"}

HooksInit ==
    /\ database \in Databases
    /\ processed = {}
    /\ delivery = [d \in Deliveries |-> NoDelivery]
    /\ deliveries = 0
    /\ made = [m \in Messages |-> 0]
    /\ excused = {}

HookAt(d, pc) == delivery[d].pc = pc
Current(d) == Head(delivery[d].todo)
HookGoto(d, pc) == delivery' = [delivery EXCEPT ![d].pc = pc]

\* Faulty variant: the loop goes on past the last message.
PastTheLast(d) ==
    LET rest == Tail(delivery[d].todo)
    IN delivery' = [delivery EXCEPT ![d] = [NoDelivery EXCEPT !.pc = "check", !.todo = rest]]

\* The next message of the delivery, or the answer 200, whatever has happened.
NextMessage(d) ==
    LET rest == Tail(delivery[d].todo)
    IN delivery' = [delivery EXCEPT ![d] =
         IF rest = << >> THEN NoDelivery
         ELSE [NoDelivery EXCEPT !.pc = "check", !.todo = rest]]

BeginDelivery(d, new) ==
    /\ HookAt(d, "idle")
    /\ deliveries < MaxDeliveries
    /\ deliveries' = deliveries + 1
    /\ delivery' = [delivery EXCEPT ![d] = new]
    /\ UNCHANGED <<database, processed, made, excused>>

\* whatsapp_webhook: the messages of the delivery one after the other.
Deliver(d, messages) ==
    BeginDelivery(d, [NoDelivery EXCEPT !.pc = "check", !.todo = messages])

\* whatsapp_replay: the same with texts of the user's, given ids of their place and
\* a memory address, which may be the address of another text before.
Replay(d, messages) ==
    BeginDelivery(d, [NoDelivery EXCEPT !.pc = "check", !.todo = messages])

\* POST hook/message asks for one text; no id, no check and no mark.
PostMessage(d, m) ==
    BeginDelivery(d, [NoDelivery EXCEPT !.pc = "read", !.hook = TRUE, !.todo = <<m>>])

----------------------------------------------------------------------------
(* WhatsAppIntelligenceService.process_message *)

\* _is_duplicate_message; without an answer the message counts as new.
CheckDuplicate(d, answers) ==
    LET m == Current(d)
        others == \E o \in Deliveries \ {d} :
                    ~HookAt(o, "idle") /\ ~HookAt(o, "check") /\ ~delivery[o].hook
                    /\ Current(o) = m
    IN /\ HookAt(d, "check")
       /\ IF answers /\ m \in processed
            THEN NextMessage(d) /\ UNCHANGED excused
            ELSE /\ HookGoto(d, "owner")
                 /\ excused' = IF ~answers \/ others THEN excused \cup {m} ELSE excused
       /\ UNCHANGED <<database, processed, deliveries, made>>

\* _resolve_user_id: the oldest user with a Google token, or the oldest; if there is
\* none the message is given up and not marked.
ResolveOwner(d, found) ==
    /\ HookAt(d, "owner")
    /\ IF found THEN HookGoto(d, "read") ELSE NextMessage(d)
    /\ UNCHANGED <<database, processed, deliveries, made, excused>>

\* _extract_commitment.  The model finds a commitment that is certain enough to
\* create; or one to suggest, or none, which a failure or an answer that is no JSON
\* count as; or its JSON is no object, or its confidence no number, which raises, so
\* that the message is given up and not marked.
Readings == {"certain", "uncertain", "raises"}
ReadMessage(d, reading) ==
    /\ HookAt(d, "read")
    /\ CASE reading = "certain" -> HookGoto(d, "create")
         [] reading = "uncertain" /\ ~delivery[d].hook -> HookGoto(d, "mark")
         [] OTHER -> NextMessage(d)
    /\ UNCHANGED <<database, processed, deliveries, made, excused>>

\* _create_event_from_extraction: an error is an answer like another.
CreateFromMessage(d, created) ==
    /\ HookAt(d, "create")
    /\ IF delivery[d].hook
         THEN NextMessage(d) /\ UNCHANGED made
         ELSE /\ delivery' = [delivery EXCEPT ![d].pc = "mark", ![d].created = created]
              /\ made' = IF created THEN [made EXCEPT ![Current(d)] = @ + 1] ELSE made
    /\ UNCHANGED <<database, processed, deliveries, excused>>

\* What does not depend on what is marked.
Unmarked(d, committed) ==
    /\ committed => database = "sqlite"
    /\ excused' = IF committed \/ database = "postgres" THEN excused
                  ELSE excused \cup {Current(d)}
    /\ NextMessage(d)
    /\ UNCHANGED <<database, deliveries, made>>

\* Faulty variant: only a message without an event is marked.
MarkTheRest(d, committed) ==
    /\ HookAt(d, "mark")
    /\ processed' = IF committed /\ ~delivery[d].created
                      THEN processed \cup {Current(d)} ELSE processed
    /\ Unmarked(d, committed)

\* _mark_message_processed, whose failure is swallowed.  PostgreSQL refuses the
\* numbers it is given for Booleans, always.  The description of the event is
\* amended and a reply sent, neither of which changes what follows.
MarkProcessed(d, committed) ==
    /\ HookAt(d, "mark")
    /\ processed' = IF committed THEN processed \cup {Current(d)} ELSE processed
    /\ Unmarked(d, committed)

\* The process ends in the middle; Meta gets no answer and delivers again.
HookDies(d) ==
    /\ ~HookAt(d, "idle")
    /\ excused' = IF HookAt(d, "mark") /\ delivery[d].created
                    THEN excused \cup {Current(d)} ELSE excused
    /\ delivery' = [delivery EXCEPT ![d] = NoDelivery]
    /\ UNCHANGED <<database, processed, deliveries, made>>

\* From one message to the next: "yes" is an answer, an owner, an event, a commit.
ProcessMessage(d, yes) ==
    \/ CheckDuplicate(d, yes) \/ ResolveOwner(d, yes)
    \/ CreateFromMessage(d, yes) \/ MarkProcessed(d, yes)

Batches == {<<m>> : m \in Messages} \cup {<<m, n>> : m, n \in Messages}

HooksNext ==
    \E d \in Deliveries :
      \/ \E messages \in Batches : Deliver(d, messages) \/ Replay(d, messages)
      \/ \E m \in Messages : PostMessage(d, m)
      \/ \E yes \in BOOLEAN : ProcessMessage(d, yes)
      \/ \E reading \in Readings : ReadMessage(d, reading)
      \/ HookDies(d)

HooksSpec == HooksInit /\ [][HooksNext]_hookVars

----------------------------------------------------------------------------
(* Properties *)

HooksTypeOK ==
    /\ database \in Databases
    /\ processed \subseteq Messages
    /\ \A d \in Deliveries :
         /\ delivery[d].pc \in HookSteps
         /\ delivery[d].todo = << >> <=> delivery[d].pc = "idle"
    /\ deliveries \in 0..MaxDeliveries
    /\ made \in [Messages -> Nat]
    /\ excused \subseteq Messages

\* On SQLite a message makes one event, however often it is delivered and processed,
\* unless deliveries of it overlapped, its check or its mark failed, or the process
\* ended after the event and before the mark (WhatsAppIntelligenceService).
WhatsAppOnce ==
    database = "sqlite" => \A m \in Messages : made[m] > 1 => m \in excused
===============================================================================
