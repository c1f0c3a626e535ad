SPECIFICATION FairSpec
CONSTANTS
    Senders = {s1, s2, edit}
    Silent = {edit}
    MaxNotes = 3
    MaxFaults = 2
    MaxRestarts = 1
INVARIANTS
    NoLostAnnouncement
    DuplicateCostsFailure
    SentWasDelivered
PROPERTIES
    AnnouncementDrains
