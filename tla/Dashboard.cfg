CONSTANTS
    Granularities = {"HOURLY", "DAILY", "MONTHLY"}
    GroupBys = {"SERVICE", "REGION"}
    Ranges <- MCRanges
    Start <- MCStart
    MaxFetches = 3
    Keys = {ec2, s3, rds, eks}
    Slots = 3
    MaxGroups = 2
SPECIFICATION FairDashboardSpec
INVARIANTS
    ShownAsAsked
    OnlyOfferedRanges
PROPERTIES
    LoadingEnds
    ColorFollowsEntity
CHECK_DEADLOCK FALSE
