CONSTANTS
    None = None
    Paths = {here, there}
    Files = {1, 2, 3, 4, 5, 6, 7}
    Runs = {l1, l2}
    Old = Old
    MaxRecords = 2
    MaxExports = 1
    Detached = {l2}
    Profile <- MCProfile
    MaxFaults = 1
    CampaignProfiles <- MCCampaignProfiles
    ScriptProfiles <- MCScriptProfiles
    TelemetryProfiles <- MCTelemetryProfiles
    PluginLists <- MCPluginLists
    Texts <- MCTexts
    here = here
    there = there
    l1 = l1
    l2 = l2
SPECIFICATION Spec
CHECK_DEADLOCK FALSE
INVARIANT PlansAreSound
INVARIANT RunsOnlyWhole
INVARIANT RecordIsTrue
PROPERTY ExportIsWhole
