SPECIFICATION RulesSpec
CONSTANT MaxAnomalies = 4
INVARIANT FollowsDocumentedOrder
