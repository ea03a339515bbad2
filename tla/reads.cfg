\* Patterns and topics of three segments, three stored messages and a lineage of depth two,
\* three additions of a schema, texts of six characters.
SPECIFICATION Spec
CONSTANTS
    Lower <- Folded
    Segments = {"_agent", "inbox", "status", "a", "A"}
    MaxPattern = 3
    MaxTopic = 3
    Ids = {"m1", "m2", "m3"}
    Stored <- TwoTopics
    MaxDepth = 2
    Limits = {0, 2}
    MaxRaces = 1
    Patterns <- TwoPatterns
    Versions = {"v1", "v2"}
    MaxSchemas = 3
    Agents <- TwoAgents
    NamedTopics <- OneTopic
    Characters = {"@", "#", "[", "]", " ", "a"}
    Letters = {"a"}
    MaxBody = 6
CHECK_DEADLOCK FALSE
INVARIANTS
    TopicsDecideRightly
    ReadsAreExact
    MentionsAreExact
