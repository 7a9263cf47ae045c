\* Loads, Applies, crashes, exits and unloads, in every order.
SPECIFICATION FairSpec
CONSTANTS
    Sources = {s}
    Slots <- OneSlot
    Unselected = Unselected
    Nobody = Nobody
    Configs = {none, c}
    Default = none
    Absent = Absent
    Damaged = Damaged
    Stopped = Stopped
INVARIANTS NoDeadOutput AtMostOneOldBlock AllOrNothing SettingsSurvive
    NothingRevived
PROPERTIES SourcesGoAway
