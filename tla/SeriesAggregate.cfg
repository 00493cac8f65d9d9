CONSTANTS
    Keys = {ec2, s3, rds}
    Other = Other
    Amounts <- MCAmounts
    MaxPeriods = 3
    MaxGroups = 1
SPECIFICATION Spec
INVARIANTS
    GroupsExact
    CostConserved
    LargestKeepTheirNames
CHECK_DEADLOCK FALSE
