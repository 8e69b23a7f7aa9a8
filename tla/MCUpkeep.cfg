\* The upkeep: three mode requests of the no-sleep guard; two settings
\* requests of three, two ports; one lane and one change of the repository;
\* two panes, whose page is pointed elsewhere, resized, hidden or loses a pane
\* twice while one thing goes wrong.
SPECIFICATION UpkeepSpec
CONSTANTS
 NoSleepPosts = {n1, n2, n3}
 NoPost = NoPost
 Cooldown = 1
 WorkTurns = 2
 NoSleepFails = 1
 SettingSaves = {u1, u2}
 RecentEdits = {w1}
 Folders = {a}
 FirstPort = 1
 LastPort = 2
 MaxRequests = 2
 Main = main
 Lanes = {lane}
 Branches = {br1, br2, br3}
 Gone = Gone
 Snapshots = {g1}
 GitTurns = 1
 Panes = {pa, pb}
 NoPane = NoPane
 FirstPane = pa
 PageTurns = 2
 PageFaults = 1
 Creations = 2
INVARIANTS UpkeepTypeOK PanelIsOne
PROPERTIES OnlyItsOwnEnd AutoKeepsAwake EndpointIsServed StampsCatchUp PanelRecovers
CHECK_DEADLOCK FALSE
