\* One instance, nothing fails: a blueprint becomes periodic.
CONSTANTS
    i1 = i1
    i2 = i2
    digest = digest
    alert = alert
    hourly = hourly
    None = None
    Instance <- OneInstance
    Blueprint <- OneBlueprint
    Edited <- OneBlueprint
    Cron <- OneCron
    Ending <- NoCron
    MaxOccurrence = 1
    MaxFaults = 0
SPECIFICATION FairSpec
PROPERTY NewBlueprintsAreScheduled
