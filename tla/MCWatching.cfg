\* The watchers: one prompt beside the reader and the sweeper, one page that
\* overflows a channel of one; two chats and a shell over two sessions,
\* a page of one turn.
SPECIFICATION WatchSpec
CONSTANTS
 Prompts = {p1}
 AgentEvents = 2
 Browsers = {b1}
 Subscribed = 1
 Commits = 2
 Troubles = 2
 Refreshes = 2
 qb = qb
 j2 = j2
 LensPanes = {qa, qb, sh}
 ChatPanes = {qa, qb}
 ChatSessions = {j1, j2}
 InTree <- TreeOf
 FirstInView = qa
 NoOne = NoOne
 Loads = {o1}
 Written = 3
 PageTurns = 1
 WalkPages = 2
 LensTurns = 2
INVARIANTS WatchTypeOK 
PROPERTIES StatusSettles MobileConverges ShownNeverGoesBack ChatCatchesUp
CHECK_DEADLOCK FALSE
