------------------------------ MODULE MCPaneSetup ------------------------------
\* A workspace of two tabs: a service that is restarted when it fails and a
\* shell, and in the second tab a service that is always restarted.
EXTENDS PaneSetup

Restarts ==
    [t \in Tabs |-> [i \in Ids |-> IF i # 0 THEN "never"
                                  ELSE IF t = 1 THEN "on_failure" ELSE "always"]]
=============================================================================
