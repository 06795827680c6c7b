SPECIFICATION Spec
CONSTANTS
    Emails = {"ann", "Ann"}
    Lower <- LowerDef
    AccountCalls = {c1, c2}
    MaxAccounts = 2
    MaxResets = 2
    MaxGrants = 2
    MaxAccountCalls = 4
    Now = 449
    Days = 3
    LinkDuration = 4
    MaxSlots = 8
    PageSize = 1
    Meetings <- MeetingsDef
    AllDays <- AllDaysDef
    Wishes <- WishesDef
    Visitors = {v1, v2}
    MaxMeetings = 2
    MaxLinks = 1
    MaxBookings = 2
    Onboardings = {t1, t2}
    MaxOnboardings = 3
    Messages = {m1, m2}
    Deliveries = {d1, d2}
    MaxDeliveries = 3
CONSTRAINT LinksExplored
CHECK_DEADLOCK FALSE
INVARIANTS
    TypeOK
    ResetLinksWorkOnce
    OfferedSlotsFree
    NewestGrantIsUsed
    WhatsAppOnce
PROPERTIES
    OnboardingEnds
