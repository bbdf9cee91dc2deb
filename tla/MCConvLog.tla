----------------------------- MODULE MCConvLog ------------------------------
(* Small instances of ConvLog for TLC: how many goroutines may write at once,
   which bubble types and which operations each run uses. *)
EXTENDS ConvLog, TLC

CONSTANTS w1, w2

OneWriter  == {w1}
TwoWriters == {w1, w2}
WriterSymmetry == Permutations(TwoWriters)

Chat      == {"user", "llm", "ask"}
ChatTools == {"user", "llm", "tool_request"}
EveryKind == {"user", "llm", "tool_request", "ask"}
UserOnly  == {"user"}
Stream    == {"user", "llm"}
UserAsk   == {"user", "ask"}

Sequential == {"rename", "undo", "trim", "delete", "rawInput", "tokenStats",
               "answer", "crash", "crashMidRewrite"}
AppendOnly == {"rename", "cancel", "crashMidAppend"}
AnyCrash   == {"undo", "cancel", "crash", "crashMidAppend", "crashMidRewrite"}
NoExtras   == {}
TornLine   == {"crashMidAppend"}
TornFile   == {"undo", "crashMidRewrite"}
Deletion   == {"delete"}
Answers    == {"answer"}
Renames    == {"rename"}
Trims      == {"trim"}
Arguments  == {"rawInput"}
=============================================================================
