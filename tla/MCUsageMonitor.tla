--------------------------- MODULE MCUsageMonitor ---------------------------
(***************************************************************************)
(* Instances of UsageMonitor for TLC.                                      *)
(***************************************************************************)
EXTENDS UsageMonitor

CONSTANTS k1, k2

BothOrOne == {{k1, k2}, {k1}}
TheTwo == {k1, k2}

Calm == [limited |-> FALSE, percent |-> 10, reset |-> 9]
Body(top, rolling, weekly) ==
    [top |-> top,
     windows |-> [w \in Windows |-> CASE w = "rolling" -> rolling
                                      [] w = "weekly" -> weekly
                                      [] OTHER -> Calm]]
High == [limited |-> FALSE, percent |-> 80, reset |-> 4]
Full == [limited |-> FALSE, percent |-> 100, reset |-> 5]
Beyond == [limited |-> FALSE, percent |-> 101, reset |-> 5]
Unused == [limited |-> FALSE, percent |-> -1, reset |-> 6]
Limited == [limited |-> TRUE, percent |-> 100, reset |-> 6]
Over == [limited |-> TRUE, percent |-> 100, reset |-> 0]

\* Out of range at both ends and below the threshold; at the threshold, with a
\* limited window whose reset is already past; at the threshold and full; limited
\* at the top too, with a later reset than a window past the threshold; limited
\* at the top only, with a reset further away than the longest cooldown.
AllBodies == {Body(FALSE, Beyond, Unused), Body(FALSE, Over, High), Body(FALSE, High, Full),
              Body(TRUE, High, Limited), Body(TRUE, Calm, Calm)}

\* One answer for each of them, and for each way a fetch can fail.
Answered(body) == [answered |-> TRUE, success |-> TRUE, length |-> 0, bytes |-> 2,
                 body |-> body]
Sound == Answered(Body(FALSE, Beyond, Unused))
Met == {Answered(b) : b \in AllBodies \cup {NotJson}}
         \cup {[Sound EXCEPT !.length = 2], [Sound EXCEPT !.length = 3],
               [Sound EXCEPT !.bytes = 3], [Sound EXCEPT !.success = FALSE],
               [Sound EXCEPT !.answered = FALSE]}
=============================================================================
