SPECIFICATION HFairSpec
CONSTANTS
    Handler = {h1, h2}
    Client <- AllCalls
    Key <- HandlerKeys
    Requests <- RequestsOfPlans
    Plans <- AllPlans
    NoClient = NoClient
INVARIANTS NoDeadlock GroupMovesAlone
PROPERTIES HandlersFinish
