SPECIFICATION SupSpec
CONSTANT MaxChildren = 4
INVARIANTS NoStrayGateway BearerOpensItsChild
PROPERTY StopEndsIt
