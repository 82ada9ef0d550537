--------------------------- MODULE MCConsumerSandbox ---------------------------
EXTENDS ConsumerSandbox

MCExitCodes == {0, 2, 139}

(* One strategy that does not compile, one that may end in any way or never*)
MCExitsWith == [s \in Strategies |-> IF s \in Compiles THEN ExitCodes ELSE {}]

MCTasks == <<[task |-> <<1, 1>>, iteration |-> 1, source |-> "wild"],
             [task |-> <<1, 1>>, iteration |-> 2, source |-> "broken"]>>
================================================================================
