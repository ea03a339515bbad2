\* Two messages - changes of a name, one of them perhaps written with a blank, or
\* mentions - and one fault (a link that drops, a message refused, a store that
\* fails), in a mesh with cycles.
SPECIFICATION FairSpec
CONSTANTS
    Nodes = {"a", "b", "c"}
    Links <- LinksMC
    Carries <- CarriesMC
    Names = {"x", " x"}
    Trim <- TrimMC
    Topics = {"t1"}
    Capacity = 2
    MaxMessages = 2
    MaxFaults = 1
CHECK_DEADLOCK FALSE

    
    
PROPERTIES
    ForwardingEnds
