SPECIFICATION Spec
CONSTANTS
    red = red
    blue = blue
    all = all
    l1 = l1
    l2 = l2
    Worlds <- MCWorlds
    Categories <- TwoChannels
    Null = Null
INVARIANT
    NullExplained
