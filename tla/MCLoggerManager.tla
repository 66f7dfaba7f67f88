-------------------------- MODULE MCLoggerManager --------------------------
EXTENDS LoggerManager

\* Everything on; other files and no alerts; nothing enabled, so that the
\* fallback console appears; the guard off; the guard without a root.  The flush
\* interval goes up, down and to 0.
Full == [console |-> TRUE, all |-> TRUE, alerts |-> TRUE, allFile |-> "f1",
         alertsFile |-> "f1", guard |-> TRUE, root |-> TRUE, soft |-> 1,
         flush |-> 1, auto |-> TRUE]
MCConfigs == {Full,
              [Full EXCEPT !.allFile = "f2", !.alerts = FALSE, !.soft = 2,
                           !.flush = 0],
              [Full EXCEPT !.console = FALSE, !.all = FALSE, !.alerts = FALSE],
              [Full EXCEPT !.console = FALSE, !.guard = FALSE, !.auto = FALSE,
                           !.flush = 2],
              [Full EXCEPT !.root = FALSE]}
MCFiles == {"f1", "f2"}
=============================================================================
