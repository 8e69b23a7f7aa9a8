---------------------------- MODULE WorktreeRows ----------------------------
(***************************************************************************)
(* The worktree rows of a session snapshot (src/src/main.rs): one listing  *)
(* per checkout, through a cache whose entries last two seconds and are    *)
(* dropped by the git operations of this server, while branches are        *)
(* switched and worktrees come and go.                                     *)
(***************************************************************************)
EXTENDS Integers, FiniteSets

CONSTANTS
  Main,      \* the main checkout of the repository
  Lanes,     \* its linked worktrees, there or not
  Branches,
  Gone,      \* the branch of a lane that is not there
  Snapshots, \* pages that ask for snapshots, again and again
  GitTurns   \* bound on the changes of the repository

ASSUME WorktreeRowsAssumption ==
  /\ Main \notin Lanes /\ Gone \notin Branches /\ GitTurns \in Nat

VARIABLES
  heads,  \* what git worktree list would say: the branch of every checkout
  cache,  \* WorktreeListCache, a set of entries with different keys
  ask,    \* where each page's request is with each checkout
  got,    \* the listings that each request has so far
  rows,   \* the worktree stamps of each page's last answer
  dropping, \* the keys that a git operation still has to invalidate
  gitTurns

rowVars == <<heads, cache, ask, got, rows, dropping, gitTurns>>
-----------------------------------------------------------------------------
Checkouts == {Main} \cup Lanes
Listings  == [Checkouts -> Branches \cup {Gone}]
Nothing   == [c \in Checkouts |-> Gone]

\* Git lets no two checkouts have the same branch.
OneCheckoutEach(h) == \A c, d \in Checkouts : c = d \/ h[c] # h[d] \/ h[c] = Gone

\* worktree_list: a folder that git cannot list has no rows, which is an answer.
ListFrom(c) == IF heads[c] = Gone THEN Nothing ELSE heads

\* The row of a checkout in the listing from it, by stamp_workspace_worktrees.
Stamps(lists) == [c \in Checkouts |-> lists[c][c]]

RowsTypeOK ==
  /\ heads \in Listings /\ heads[Main] # Gone
  /\ \A e \in cache : e.cwd \in Checkouts /\ e.list \in Listings /\ e.fresh \in BOOLEAN
  /\ \A e, f \in cache : e.cwd = f.cwd => e = f
  /\ ask \in [Snapshots -> [Checkouts -> {"idle", "look", "list", "put", "done"}]]
  /\ got \in [Snapshots -> [Checkouts -> Listings]]
  /\ rows \in [Snapshots -> Listings]
  /\ dropping \in [Checkouts -> 0 .. GitTurns] /\ gitTurns \in 0 .. GitTurns

RowsInit ==
  /\ heads \in {h \in Listings : h[Main] # Gone /\ OneCheckoutEach(h)} /\ cache = {}
  /\ ask = [s \in Snapshots |-> [c \in Checkouts |-> "idle"]]
  /\ got = [s \in Snapshots |-> [c \in Checkouts |-> Nothing]]
  /\ rows = [s \in Snapshots |-> Nothing]
  /\ dropping = [c \in Checkouts |-> 0] /\ gitTurns = 0
-----------------------------------------------------------------------------
\* Mutant: an entry is served whatever its age.
GetAnyAge(c) == {e \in cache : e.cwd = c}

\* Mutant: the entry that was there stays.
PutBeside(c, list) == cache' = cache \cup {[cwd |-> c, list |-> list, fresh |-> TRUE]}

\* WorktreeListCache::get; then its put and invalidate.
Get(c) == {e \in cache : e.cwd = c /\ e.fresh}

Put(c, list) == cache' = {e \in cache : e.cwd # c} \cup {[cwd |-> c, list |-> list, fresh |-> TRUE]}

Invalidate(c) == cache' = {e \in cache : e.cwd # c}

\* session_snapshot, workspaces: a request for every checkout with a workspace.
AskRows(s) ==
  /\ ask[s] = [c \in Checkouts |-> "idle"]
  /\ ask' = [ask EXCEPT ![s] = [c \in Checkouts |-> "look"]]
  /\ UNCHANGED <<heads, cache, got, rows, dropping, gitTurns>>

\* fetch_worktree_results_by_cwd: a hit is the result; each miss is listed by a
\* thread of its own, which puts what it got; a failed request leaves no row.
LookUp(s, c) ==
  /\ ask[s][c] = "look"
  /\ \/ /\ Get(c) = {}
        /\ ask' = [ask EXCEPT ![s][c] = "list"] /\ UNCHANGED got
     \/ \E e \in Get(c) : /\ ask' = [ask EXCEPT ![s][c] = "done"]
                          /\ got' = [got EXCEPT ![s][c] = e.list]
  /\ UNCHANGED <<heads, cache, rows, dropping, gitTurns>>

ListRows(s, c) ==
  /\ ask[s][c] = "list" /\ \A d \in Checkouts : ask[s][d] # "look"
  /\ got' = [got EXCEPT ![s][c] = ListFrom(c)]
  /\ ask' = [ask EXCEPT ![s][c] = "put"]
  /\ UNCHANGED <<heads, cache, rows, dropping, gitTurns>>

ListFails(s, c) ==
  /\ ask[s][c] = "list" /\ \A d \in Checkouts : ask[s][d] # "look"
  /\ got' = [got EXCEPT ![s][c] = Nothing]
  /\ ask' = [ask EXCEPT ![s][c] = "done"]
  /\ UNCHANGED <<heads, cache, rows, dropping, gitTurns>>

PutRows(s, c) ==
  /\ ask[s][c] = "put"
  /\ Put(c, got[s][c])
  /\ ask' = [ask EXCEPT ![s][c] = "done"]
  /\ UNCHANGED <<heads, got, rows, dropping, gitTurns>>

AnswerRows(s) ==
  /\ ask[s] = [c \in Checkouts |-> "done"]
  /\ rows' = [rows EXCEPT ![s] = Stamps(got[s])]
  /\ ask' = [ask EXCEPT ![s] = [c \in Checkouts |-> "idle"]]
  /\ got' = [got EXCEPT ![s] = [c \in Checkouts |-> Nothing]]
  /\ UNCHANGED <<heads, cache, dropping, gitTurns>>

\* Two seconds after it was put.
EntryExpires(e) ==
  /\ e \in cache /\ e.fresh
  /\ cache' = (cache \ {e}) \cup {[e EXCEPT !.fresh = FALSE]}
  /\ UNCHANGED <<heads, ask, got, rows, dropping, gitTurns>>
-----------------------------------------------------------------------------
\* A git command of this server changes the repository, and then the keys are
\* dropped one by one.
Git(h, keys) ==
  /\ gitTurns < GitTurns /\ gitTurns' = gitTurns + 1
  /\ OneCheckoutEach(h)
  /\ heads' = h
  /\ dropping' = [c \in Checkouts |-> dropping[c] + (IF c \in keys THEN 1 ELSE 0)]
  /\ UNCHANGED <<cache, ask, got, rows>>

\* git_ui_switch_blocking, and the switch before the current branch is deleted.
SwitchBranch(c, b) == heads[c] \notin {Gone, b} /\ Git([heads EXCEPT ![c] = b], {c})

\* worktree_create of the backend.
CreateLane(c, lane, b) ==
  heads[c] # Gone /\ heads[lane] = Gone /\ Git([heads EXCEPT ![lane] = b], {c, lane})

\* git_ui_worktree_remove_blocking, and worktree_remove of the backend; by
\* remove_worktree_path no key is dropped.
RemoveLane(c, lane) ==
  /\ heads[c] # Gone /\ heads[lane] # Gone
  /\ \E keys \in {{c, lane}, {}} : Git([heads EXCEPT ![lane] = Gone], keys)

\* git_ui_worktree_prune_blocking, after a lane's folder has been deleted.
PruneLanes(c, gone) ==
  /\ heads[c] # Gone /\ gone # {} /\ \A lane \in gone : heads[lane] # Gone
  /\ Git([l \in Checkouts |-> IF l \in gone THEN Gone ELSE heads[l]], {c})

DropKey(c) ==
  /\ dropping[c] > 0 /\ dropping' = [dropping EXCEPT ![c] = @ - 1]
  /\ Invalidate(c)
  /\ UNCHANGED <<heads, ask, got, rows, gitTurns>>
-----------------------------------------------------------------------------
SnapshotStep(s) ==
  \/ AskRows(s) \/ AnswerRows(s)
  \/ \E c \in Checkouts : LookUp(s, c) \/ ListRows(s, c) \/ PutRows(s, c)

RowsNext ==
  \/ \E s \in Snapshots : SnapshotStep(s) \/ \E c \in Checkouts : ListFails(s, c)
  \/ \E e \in cache : EntryExpires(e)
  \/ \E c \in Checkouts : \/ DropKey(c)
                          \/ \E b \in Branches : SwitchBranch(c, b)
                          \/ \E lane \in Lanes, b \in Branches : CreateLane(c, lane, b)
                          \/ \E lane \in Lanes : RemoveLane(c, lane)
                          \/ \E gone \in SUBSET Lanes : PruneLanes(c, gone)

\* Time passes, requests are handled, and the pages that RowsCatchUp is about
\* keep asking.
RowsFairness ==
  /\ \A s \in Snapshots : WF_rowVars(SnapshotStep(s))
  /\ \A c \in Checkouts : WF_rowVars(\E e \in cache : e.cwd = c /\ EntryExpires(e))

RowsSpec == RowsInit /\ [][RowsNext]_rowVars /\ RowsFairness
-----------------------------------------------------------------------------
(***************************************************************************)
(* However listings, late puts and invalidations interleave, and also      *)
(* after changes that drop no key or only those of other checkouts, the    *)
(* rows of a page that keeps asking are in the end those of the repository *)
(* when it rests: "stale data never outlives a user noticing a missing     *)
(* fresh worktree for long" (WorktreeListCache::get).                      *)
(***************************************************************************)
RowsCatchUp ==
  \A s \in Snapshots :
    <>[][\A c \in Checkouts : ~ListFails(s, c)]_rowVars => <>[](rows[s] = heads)
=============================================================================
