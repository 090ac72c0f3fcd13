------------------------------ MODULE PublicSite ------------------------------
(***************************************************************************)
(* The public site (.github/workflows/publish-on-merge.yml): a push that    *)
(* changes site/ on the protected branch starts a run that checks the       *)
(* branch out, guards every entry file, builds the board of them, guards    *)
(* the board and deploys it.  Runs share one concurrency group without      *)
(* cancelling: one is at work, one may wait, and a later one takes the      *)
(* place of the one waiting.                                               *)
(***************************************************************************)
EXTENDS Leaderboard

CONSTANTS
  Name,        \* names of entry files, numbered in their order
  Files,       \* what a push may leave under a name
  MaxPushes,   \* bound on pushes
  MaxMishaps   \* bound on runs that fail by themselves

ASSUME SiteAssumption ==
  /\ Name \subseteq Nat
  /\ Files \subseteq PublicFile
  /\ MaxPushes \in Nat
  /\ MaxMishaps \in Nat

VARIABLES
  main,      \* the entry files on the branch
  due,       \* a run waits; it will be that of the last push
  pages,     \* the run at work, or how the last one ended
  checkout,  \* the entry files it checked out
  live,      \* those the deployed board was built of
  site,      \* the deployed board
  pushes, mishaps

vars == <<main, due, pages, checkout, live, site, pushes, mishaps>>

NoFiles == [n \in Name |-> Missing]

Init ==
  /\ main = NoFiles
  /\ due = FALSE
  /\ pages = "idle"
  /\ checkout = NoFiles
  /\ live = NoFiles
  /\ site = <<>>
  /\ pushes = 0
  /\ mishaps = 0

(* Mutant of Push: while a run is at work a push starts none. *)
PushUnlessBuilding(n, content) ==
  /\ pushes < MaxPushes
  /\ content # main[n]
  /\ main' = [main EXCEPT ![n] = content]
  /\ due' = (due \/ pages # "building")
  /\ pushes' = pushes + 1
  /\ UNCHANGED <<pages, checkout, live, site, mishaps>>

(* A pull request is merged or reverted, or a maintainer edits a file. *)
Push(n, content) ==
  /\ pushes < MaxPushes
  /\ content # main[n]
  /\ main' = [main EXCEPT ![n] = content]
  /\ due' = TRUE
  /\ pushes' = pushes + 1
  /\ UNCHANGED <<pages, checkout, live, site, mishaps>>

StartRun ==
  /\ due
  /\ pages # "building"
  /\ due' = FALSE
  /\ pages' = "building"
  /\ checkout' = main
  /\ UNCHANGED <<main, live, site, pushes, mishaps>>

EndRun(how) ==
  /\ pages = "building"
  /\ pages' = how
  /\ checkout' = NoFiles
  /\ UNCHANGED <<main, due, pushes>>

FilesOf(branch) ==
  LET names == InOrder({n \in Name : branch[n] # Missing})
  IN [i \in DOMAIN names |-> branch[names[i]]]

BoardFile(rows) == [forbidden |-> FALSE, shape |-> "list", entries |-> rows]

(* The build step, under bash -e. *)
Guarded(files) ==
  /\ \A i \in DOMAIN files : Passes(files[i])
  /\ Passes(BoardFile(Board(files)))

Deploy ==
  /\ EndRun("idle")
  /\ Guarded(FilesOf(checkout))
  /\ site' = Board(FilesOf(checkout))
  /\ live' = checkout
  /\ UNCHANGED mishaps

(* A guard refuses, or a step fails: nothing is deployed, and nobody tries
   again by himself. *)
FailRun ==
  /\ EndRun("failed")
  /\ \/ ~Guarded(FilesOf(checkout)) /\ UNCHANGED mishaps
     \/ mishaps < MaxMishaps /\ mishaps' = mishaps + 1
  /\ UNCHANGED <<live, site>>

(* workflow_dispatch *)
Dispatch ==
  /\ pages # "building"
  /\ ~due
  /\ due' = TRUE
  /\ UNCHANGED <<main, pages, checkout, live, site, pushes, mishaps>>

Next ==
  \/ \E n \in Name, content \in Files \cup {Missing} : Push(n, content)
  \/ StartRun \/ Deploy \/ FailRun
  \/ Dispatch

(* A run that is due is started, and a run at work ends; one or the other
   is possible whenever ProgressOfRuns is. *)
PagesStates == {"idle", "building", "failed"}
ProgressOfRuns ==
  /\ due \/ pages = "building"
  /\ pages' \in PagesStates \ {pages}

Spec == Init /\ [][Next]_vars /\ WF_pages(ProgressOfRuns)

-----------------------------------------------------------------------------
(* Properties. *)

(* The site shows, for each model, the best of the entries that were together
   on the branch at one moment, ranked by bugs, and of no branch that holds a
   file the guard refuses: whatever is merged, edited or reverted meanwhile,
   in whatever order entries arrive, and whichever runs fail. *)
BoardIsBest ==
  /\ IsBoardOf(site, Readable(FilesOf(live)))
  /\ \A n \in Name : live[n] # Missing => Passes(live[n])

(* The site catches up with the branch: a push is shown by the run it starts
   or by a later one, also when it comes while a run is at work.  A failed
   run is not tried again, so it is excepted until the next push. *)
SiteCatchesUp == []<>(live = main \/ pages = "failed")

=============================================================================
