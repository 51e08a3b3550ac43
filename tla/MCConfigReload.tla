--------------------------- MODULE MCConfigReload ---------------------------
(***************************************************************************)
(* Instances of ConfigReload for TLC: the file the service starts with, a  *)
(* valid one with a manual model list, one that needs a restart and one    *)
(* that does not parse.                                                    *)
(***************************************************************************)
EXTENDS ConfigReload

m1 == <<"kimi">>
m2 == <<"glm", "kimi">>

Names == {"glm", "kimi", "blank"}
Fit == Names \ {"blank"}

\* A list that can be served, and one answer for each way a fetch can fail.
Listed == [answered |-> TRUE, success |-> TRUE, length |-> 0, bytes |-> 2, json |-> TRUE,
           data |-> m2]
Met == {Listed, [Listed EXCEPT !.data = m1, !.length = 2],
        [Listed EXCEPT !.answered = FALSE], [Listed EXCEPT !.success = FALSE],
        [Listed EXCEPT !.length = 3], [Listed EXCEPT !.bytes = 3],
        [Listed EXCEPT !.json = FALSE], [Listed EXCEPT !.data = <<>>],
        [Listed EXCEPT !.data = <<"kimi", "blank">>],
        [Listed EXCEPT !.data = <<"kimi", "kimi">>]}

Start == [ok |-> TRUE, frozen |-> TRUE, keys |-> 1, sync |-> 1, models |-> m1]
Manual == [Start EXCEPT !.keys = 2, !.sync = 0, !.models = m2]
Restart == [Start EXCEPT !.frozen = FALSE, !.keys = 3]
Broken == [Start EXCEPT !.ok = FALSE, !.keys = 4]

AllFiles == {Start, Manual, Restart, Broken}
ValidFiles == {Start, Manual}
=============================================================================
