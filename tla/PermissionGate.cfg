\* Three calls in C++; or turns of the addon with two calls of a tool in C++ and
\* one in JavaScript, overlapping or not, beside a batch; three turns of a session.
SPECIFICATION NodeFair
CONSTANTS
    Calls = {c1, c2, c3}
    c1 = c1
    c2 = c2
    c3 = c3
    Tools = {"t", "jst"}
    JsTools = {"jst"}
    Answers = {"allow", "deny"}
    Turns <- Three
    NoTurn = "-"
    NoAnswer = NoAnswer
    Casts <- TheCasts
INVARIANTS
    BridgeInv
PROPERTIES
    AskedOnce
    TurnsSettle
