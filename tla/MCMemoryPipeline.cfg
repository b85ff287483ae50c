SPECIFICATION FairSpec
CONSTANTS
    Entity = {1, 2, 3}
    Role <- RoleOf
    HighValue = {"decision", "diagnosis", "verdict", "log_pattern"}
    Topic <- TopicOf
    Slug = {"s1", "s2"}
    NameSlug <- NameSlugOf
    None = "none"
    BatchSize = 1
    FetchLimit = 2
    MaxObs = 2
    MaxTrouble = 1
    HumanPages <- HumanPagesOf
INVARIANTS NoneSkipped PagesSound
PROPERTIES  KnowledgeMoves
