SPECIFICATION FairSpec
CONSTANTS
    n = 5
    Names <- MCNames
    Reserved <- MCReserved
    NumShards = 3
    ShardOf <- MCShardOf
    Limits = {1, 2}
    MaxChanges = 3
INVARIANTS
    ListedInOrder
    StableScopesListed
PROPERTY
    WalkEnds
