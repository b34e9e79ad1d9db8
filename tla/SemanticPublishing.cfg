CONSTANTS Datasources = {d1}
 Written = {w}
 Generated = {g}
 Original = original
 NoText = none
 Sensitive = {TRUE, FALSE}
 MaxLogs = 3
 MaxEdits = 1
 MaxRestores = 1
 MayCrash = TRUE
SPECIFICATION Spec
CHECK_DEADLOCK FALSE
INVARIANTS GeneratedWasApproved OpenLogsAreExplained
