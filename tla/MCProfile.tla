------------------------------ MODULE MCProfile ------------------------------
(***************************************************************************)
(* What belongs to one profile, for TLC, each part alone: the tokens and   *)
(* their refresh, the activation, the skills, the liveware sample, the     *)
(* greeting, the widgets and the social notes.                             *)
(***************************************************************************)
EXTENDS TokenRefresh, TLC

CONSTANTS watcher, rest

\* The tasks that ask for a refresh are alike.
Alike == Permutations(Callers)

\* Two versions of the plugin share a home: the gateway's is the newer one and
\* has retired a skill that the command line's, the older one, still bundles.
BundledHere(p, s) ==
  CASE s = "core" -> (IF p = "gw" THEN 4 ELSE 2)
    [] s = "old" /\ p # "gw" -> 2
    [] OTHER -> 0
Retires(p) == IF p = "gw" THEN {"old"} ELSE {}
Pinned(s) == CASE s = "core" -> 5 [] s = "extra" -> 2 [] OTHER -> 0

VARIABLE part   \* the component that runs
VARIABLES       \* the state of the others, each of which uses as many as it has
  x1, x2, x3, x4, x5, x6, x7, x8, x9, x10, x11, x12, x13, x14, x15, x16, x17,
  x18, x19, x20

\* The slots that a component with so many variables leaves alone.
After19 == <<x20>>
Blank19 ==
  /\ x20 = 0
After18 == <<x19, After19>>
Blank18 ==
  /\ x19 = 0 /\ Blank19
After17 == <<x18, After18>>
Blank17 ==
  /\ x18 = 0 /\ Blank18
After15 == <<x16, x17, After17>>
Blank15 ==
  /\ x16 = 0 /\ x17 = 0 /\ Blank17
After14 == <<x15, After15>>
Blank14 ==
  /\ x15 = 0 /\ Blank15
After0 == <<x1, x2, x3, x4, x5, x6, x7, x8, x9, x10, x11, x12, x13, x14,
    After14>>
Blank0 ==
  /\ x1 = 0 /\ x2 = 0 /\ x3 = 0 /\ x4 = 0 /\ x5 = 0 /\ x6 = 0 /\ x7 = 0 /\ x8 = 0
  /\ x9 = 0 /\ x10 = 0 /\ x11 = 0 /\ x12 = 0 /\ x13 = 0 /\ x14 = 0 /\ Blank14

A == INSTANCE Activation WITH
  Profiles <- {"main", "work"}, Default <- "main", Codes <- {"c"},
  Reconnect <- {"c"}, Retries <- 1, MaxRuns <- 1, MaxSeeds <- 1,
  MaxLogouts <- 1, MaxFaults <- 1, config <- x1, env <- x2, row <- x3,
  agent <- x4, code <- x5, op <- x6, leaving <- x7, moving <- x8,
  paired <- x9, trusted <- x10, seeded <- x11, cut <- x12, overtaken <- x13,
  found <- x14, settled <- x15, redeemed <- x16, runs <- x17, seeds <- x18,
  logouts <- x19, faults <- x20
K == INSTANCE SkillUpdate WITH
  Skills <- {"core", "extra", "old"}, Procs <- {"gw", "cli"},
  Gateways <- {"gw"}, BundledBy <- BundledHere, RetiredBy <- Retires,
  Official <- Pinned, OfficialRetired <- {"old"}, MaxChecks <- 2,
  MaxEdits <- 1, MaxCrashes <- 1, MaxFailures <- 1, disk <- x1,
  manifest <- x2, lock <- x3, loader <- x4, check <- x5, apply <- x6,
  memory <- x7, file <- x8, registered <- x9, checks <- x10, edits <- x11,
  crashes <- x12, failures <- x13, shown <- x14, torn <- x15, edited <- x16,
  cut <- x17
L == INSTANCE LivewareSample WITH
  MaxTries <- 1, MaxRestarts <- 1, MaxFailures <- 2, MaxDeaths <- 2,
  MaxStops <- 1, MaxLost <- 1, on <- x1, flow <- x2, lock <- x3, child <- x4,
  watched <- x5, intro <- x6, tries <- x7, restarts <- x8, row <- x9,
  apps <- x10, card <- x11, left <- x12, failures <- x13, deaths <- x14,
  stops <- x15, misses <- x16, lost <- x17, leaked <- x18
G == INSTANCE Greeting WITH
  Tasks <- {"t1", "t2"}, MaxActivations <- 2, MaxReadies <- 4,
  MaxCrashes <- 1, MaxFaults <- 1, MaxStale <- 1, pairing <- x1, sent <- x2,
  claim <- x3, stale <- x4, claims <- x5, task <- x6, visible <- x7,
  greeted <- x8, excused <- x9, done <- x10, readies <- x11, crashes <- x12,
  faults <- x13, stales <- x14
W == INSTANCE Widgets WITH
  MaxDocs <- 3, Window <- 2, MaxTime <- 3, MaxTargets <- 1, MaxDrops <- 1,
  MaxFailures <- 1, now <- x1, ready <- x2, target <- x3, life <- x4,
  last <- x5, sequence <- x6, sending <- x7, pending <- x8, timer <- x9,
  arms <- x10, fired <- x11, line <- x12, asked <- x13, call <- x14,
  admitted <- x15, send <- x16, shown <- x17, drops <- x18, failures <- x19
N == INSTANCE SocialNotes WITH
  Pullers <- {"p"}, Writers <- {"w"}, Facts <- {"f"}, MaxMutations <- 1,
  MaxPulls <- 1, MaxFaults <- 1, mutation <- x1, gone <- x2, emitted <- x3,
  note <- x4, lock <- x5, pull <- x6, handling <- x7, version <- x8,
  tool <- x9, told <- x10, undone <- x11, refreshed <- x12, fetched <- x13,
  pulls <- x14, faults <- x15

MCInit ==
  /\ Init
  /\ \/ part = "tokens" /\ Blank0
     \/ part = "activation" /\ A!Init
     \/ part = "skills" /\ K!Init /\ Blank17
     \/ part = "sample" /\ L!Init /\ Blank18
     \/ part = "greeting" /\ G!Init /\ Blank14
     \/ part = "widgets" /\ W!Init /\ Blank19
     \/ part = "notes" /\ N!Init /\ Blank15

MCNext ==
  \/ part = "tokens" /\ Next /\ UNCHANGED <<part, After0>>
  \/ part = "activation" /\ A!Next /\ A!Mishaps' <= 1 /\ UNCHANGED <<part, vars>>
  \/ part = "skills" /\ K!Next /\ K!Mishaps' <= 1 /\ UNCHANGED <<part, vars, After17>>
  \/ part = "sample" /\ L!Next /\ UNCHANGED <<part, vars, After18>>
  \/ part = "greeting" /\ G!Next /\ UNCHANGED <<part, vars, After14>>
  \/ part = "widgets" /\ W!Next /\ W!Mishaps' <= 1 /\ UNCHANGED <<part, vars, After19>>
  \/ part = "notes" /\ N!Next /\ UNCHANGED <<part, vars, After15>>

MCvars == <<part, vars, After0>>
MCSpec == MCInit /\ [][MCNext]_MCvars

\* What the proofs about the greeting take the constants to be.
ASSUME GreetingAssumption == G!GreetingConstants

\* A repair spends its code on the agent of this profile, under the device
\* that agent was paired with (activate.py, storage.py).
ActivationSafe ==
  part = "activation" => A!TypeOK /\ A!NoForeignRepair /\ A!RepairKeepsDevice

\* The row, .env and config.yaml agree once an activation is over, whatever a
\* logout, a connection or a migration did meanwhile (activate.py, storage.py).
SlotsAgree == part = "activation" => A!SlotsAgree

\* The manifest describes the files, an update applies exactly what the owner
\* was shown, as a whole, and what was delivered is known (skill_update.py).
SkillsSafe ==
  part = "skills" =>
    /\ K!TypeOK /\ K!ManifestTrue /\ K!OnlyWhatWasShown
    /\ K!BatchWhole /\ K!DeliveredIsKnown

\* One app is created however often the launch fails, and no child runs
\* without a watcher (liveware_sample.py).
SampleSafe ==
  part = "sample" => L!TypeOK /\ L!OneApp /\ L!EveryChildWatched

\* An activation is greeted once, and marked by the turn that greeted
\* (adapter.py, storage.py).
GreetingSafe ==
  part = "greeting" => G!TypeOK /\ G!GreetedOnce /\ G!MarkedByOwnTurn

\* A pending snapshot has a timer, deliveries start a minute apart, and "sent"
\* means acknowledged (widget_send.py).
WidgetsSafe ==
  part = "widgets" =>
    /\ W!TypeOK
    /\ W!PendingHasTimer /\ W!OneStartAMinute /\ W!SentMeansAcked

\* A note loses neither half to the writer of the other, and a signal that is
\* passed over had nothing more to tell (clawchat_memory.py, adapter.py).
NotesSafe == part = "notes" => N!TypeOK /\ N!HalvesKept /\ N!VersionFetched

\* An app the owner removed stays removed; snapshots never go backwards and
\* only to the owner they were admitted for (liveware_sample.py, adapter.py).
ProfileSteps ==
  [][/\ part = "sample" => L!RemovedForGoodStep
     /\ part = "widgets" => W!SnapshotsForwardStep /\ W!OnlyToItsOwnerStep]_MCvars
=============================================================================
