\* Two instances, one blueprint that is edited and one that is not.
CONSTANTS
    i1 = i1
    i2 = i2
    digest = digest
    alert = alert
    hourly = hourly
    None = None
    Instance <- TwoInstances
    Blueprint <- TwoBlueprints
    Edited <- OneBlueprint
    Cron <- OneCron
    Ending <- OneCron
    MaxOccurrence = 1
    MaxFaults = 1
SPECIFICATION FairSpec
 
PROPERTIES DueRunsAreQueued DueRowsAreHandled
