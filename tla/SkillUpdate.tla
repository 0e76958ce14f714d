---------------------------- MODULE SkillUpdate ----------------------------
(***************************************************************************)
(* Skill files updated while the gateway runs (skill_update.py, the consent *)
(* gate of adapter.py and the registration in __init__.py).                 *)
(*                                                                         *)
(* The managed directory holds one SKILL.md per skill and a manifest of     *)
(* their versions, shared by every process of the profile.  A load sweeps   *)
(* retired skills, seeds the bundled ones and registers what is there; a    *)
(* signal makes the gateway check the official source and ask its owner; an *)
(* affirmed request is downloaded outside the manifest's lock and published *)
(* inside it.  A file and the manifest are two writes, and a process can    *)
(* die between them.                                                        *)
(*                                                                         *)
(* A file's content is a number: 0 no file, 1 a file without a version,     *)
(* c >= 2 a file of version c \div 2 (so 2 and 3 are two contents of one    *)
(* version).                                                                *)
(***************************************************************************)
EXTENDS Naturals, FiniteSets

CONSTANTS
  Skills,
  Procs,              \* processes of the profile that load the plugin
  Gateways,           \* those that run the adapter
  BundledBy(_, _),    \* process, skill: the content its plugin bundles, 0 none
  RetiredBy(_),       \* process: ids its bundled manifest retires
  Official(_),        \* skill: the content at the pinned ref, 0 none
  OfficialRetired,    \* ids the official manifest retires
  MaxChecks, MaxEdits, MaxCrashes, MaxFailures

Free == "free"
NoBatch == [updates |-> {}, removals |-> {}, new |-> {}]
Version(c) == c \div 2

VARIABLES
  disk,       \* content of the managed file of a skill
  manifest,   \* version the managed manifest gives a skill, 0 none
  lock,       \* holder of the manifest's lock, or Free
  loader,     \* per process: the plugin load
  check,      \* per gateway: the check of a signal
  apply,      \* per gateway: the apply of an affirmed request
  memory,     \* per gateway: _pending_skill_update
  file,       \* pending.json
  registered, \* per process: skills the host knows
  checks, edits, crashes, failures,     \* bounds
  shown,      \* requests the owner was shown
  torn,       \* skills whose two writes a crash or a failure came between
  edited,     \* skills somebody edited by hand
  cut         \* per gateway: skills published by an apply that failed later

vars == <<disk, manifest, lock, loader, check, apply, memory, file, registered,
          checks, edits, crashes, failures, shown, torn, edited, cut>>

NoLoad == [pc |-> "off", todo |-> {}, skill |-> "none"]
NoCheck == [pc |-> "idle", batch |-> NoBatch]
NoApply == [pc |-> "idle", batch |-> NoBatch, round |-> 0, fetched |-> {}, todo |-> {},
            local |-> [s \in Skills |-> 0]]

Bundled(p) == {s \in Skills : BundledBy(p, s) # 0}

Init ==
  /\ disk = [s \in Skills |-> 0]
  /\ manifest = [s \in Skills |-> 0]
  /\ lock = Free
  /\ loader = [p \in Procs |-> NoLoad]
  /\ check = [g \in Gateways |-> NoCheck]
  /\ apply = [g \in Gateways |-> NoApply]
  /\ memory = [g \in Gateways |-> NoBatch]
  /\ file = NoBatch
  /\ registered = [p \in Procs |-> {}]
  /\ checks = 0 /\ edits = 0 /\ crashes = 0 /\ failures = 0
  /\ shown = {} /\ torn = {} /\ edited = {}
  /\ cut = [g \in Gateways |-> {}]

Files == <<disk, manifest>>
Consent == <<check, apply, memory, file, checks, shown>>
Bounds == <<edits, crashes, failures>>

(***************************************************************************)
(* The plugin load                                                         *)
(***************************************************************************)
StartLoad(p) ==
  /\ loader[p].pc = "off"
  /\ loader' = [loader EXCEPT ![p] = [NoLoad EXCEPT !.pc = "sweep"]]
  /\ UNCHANGED <<Files, lock, Consent, registered, Bounds, torn, edited, cut>>

\* apply_bundled_tombstones: the retired ids that are here, not bundled.
Swept(p) ==
  {s \in RetiredBy(p) \ Bundled(p) : manifest[s] # 0 \/ disk[s] # 0}

Sweep(p) ==
  /\ loader[p].pc = "sweep" /\ lock = Free
  /\ \/ /\ Swept(p) = {}
        /\ loader' = [loader EXCEPT ![p].pc = "seed", ![p].todo = Bundled(p)]
        /\ UNCHANGED <<disk, lock>>
     \/ /\ Swept(p) # {}
        /\ lock' = p
        /\ disk' = [s \in Skills |-> IF s \in Swept(p) THEN 0 ELSE disk[s]]
        /\ loader' = [loader EXCEPT ![p].pc = "swept", ![p].todo = Swept(p)]
  /\ UNCHANGED <<manifest, Consent, registered, Bounds, torn, edited, cut>>

SweptManifest(p) ==
  /\ loader[p].pc = "swept"
  /\ manifest' = [s \in Skills |-> IF s \in loader[p].todo THEN 0 ELSE manifest[s]]
  /\ lock' = Free
  /\ loader' = [loader EXCEPT ![p].pc = "seed", ![p].todo = Bundled(p)]
  /\ UNCHANGED <<disk, Consent, registered, Bounds, torn, edited, cut>>

\* seed_managed_skill: a missing, unversioned or older file is replaced.
NeedsSeed(p, s) ==
  \/ disk[s] \in {0, 1}
  \/ Version(disk[s]) < Version(BundledBy(p, s))

\* Mutant of Seed: the file is replaced without taking the manifest's lock.
SeedUnlocked(p, s) ==
  /\ loader[p].pc = "seed" /\ s \in loader[p].todo /\ NeedsSeed(p, s)
  /\ disk' = [disk EXCEPT ![s] = BundledBy(p, s)]
  /\ manifest' = [manifest EXCEPT ![s] = Version(BundledBy(p, s))]
  /\ edited' = edited \ {s}
  /\ torn' = torn \ {s}
  /\ loader' = [loader EXCEPT ![p].todo = @ \ {s}]
  /\ registered' = [registered EXCEPT ![p] = @ \cup {s}]
  /\ UNCHANGED <<lock, Consent, Bounds, cut>>

Seed(p, s) ==
  /\ loader[p].pc = "seed" /\ s \in loader[p].todo /\ lock = Free
  /\ \/ /\ NeedsSeed(p, s)
        /\ lock' = p
        /\ disk' = [disk EXCEPT ![s] = BundledBy(p, s)]
        /\ edited' = edited \ {s}
        /\ loader' = [loader EXCEPT ![p].pc = "seeded", ![p].skill = s]
        /\ UNCHANGED <<manifest, registered>>
     \/ /\ ~NeedsSeed(p, s)
        /\ manifest' = [manifest EXCEPT ![s] = Version(disk[s])]
        /\ loader' = [loader EXCEPT ![p].todo = @ \ {s}]
        /\ registered' = [registered EXCEPT ![p] = @ \cup {s}]
        /\ UNCHANGED <<disk, lock, edited>>
  /\ torn' = IF NeedsSeed(p, s) THEN torn ELSE torn \ {s}
  /\ UNCHANGED <<Consent, Bounds, cut>>

Seeded(p) ==
  LET s == loader[p].skill IN
  /\ loader[p].pc = "seeded"
  /\ manifest' = [manifest EXCEPT ![s] = Version(disk[s])]
  /\ lock' = Free
  /\ torn' = torn \ {s}
  /\ loader' = [loader EXCEPT ![p] = [pc |-> "seed", todo |-> @.todo \ {s}, skill |-> "none"]]
  /\ registered' = [registered EXCEPT ![p] = @ \cup {s}]
  /\ UNCHANGED <<disk, Consent, Bounds, edited, cut>>

\* Another process holds the lock past the deadline: the bundled copy is registered.
SeedTimesOut(p, s) ==
  /\ loader[p].pc = "seed" /\ s \in loader[p].todo /\ lock \notin {Free, p}
  /\ failures < MaxFailures
  /\ failures' = failures + 1
  /\ loader' = [loader EXCEPT ![p].todo = @ \ {s}]
  /\ registered' = [registered EXCEPT ![p] = @ \cup {s}]
  /\ UNCHANGED <<Files, lock, Consent, edits, crashes, torn, edited, cut>>

\* Mutant of Extras: a load registers the bundled skills only.
ExtrasBundledOnly(p) ==
  /\ loader[p].pc = "seed" /\ loader[p].todo = {}
  /\ loader' = [loader EXCEPT ![p] = [NoLoad EXCEPT !.pc = "loaded"]]
  /\ UNCHANGED <<Files, lock, Consent, Bounds, registered, torn, edited, cut>>

\* The skills delivered earlier: in the manifest, not bundled, file there.
Extras(p) ==
  /\ loader[p].pc = "seed" /\ loader[p].todo = {}
  /\ registered' = [registered EXCEPT ![p] =
                      @ \cup {s \in Skills \ Bundled(p) : manifest[s] # 0 /\ disk[s] # 0}]
  /\ loader' = [loader EXCEPT ![p] = [NoLoad EXCEPT !.pc = "loaded"]]
  /\ UNCHANGED <<Files, lock, Consent, Bounds, torn, edited, cut>>

(***************************************************************************)
(* The check and the owner's answer                                        *)
(***************************************************************************)
Loaded(g) == loader[g].pc = "loaded"

\* check_skill_update: content that differs from the official one, and the
\* retired ids the manifest still has.
Checked(g) ==
  LET updates == {s \in Skills : Official(s) # 0 /\ disk[s] # Official(s)} IN
  [updates |-> updates,
   removals |-> {s \in OfficialRetired \ Bundled(g) : manifest[s] # 0},
   new |-> {s \in updates : manifest[s] = 0}]

Check(g) ==
  /\ Loaded(g) /\ check[g].pc = "idle" /\ checks < MaxChecks
  /\ checks' = checks + 1
  /\ Checked(g).updates \cup Checked(g).removals # {}
  /\ check' = [check EXCEPT ![g] = [pc |-> "prompting", batch |-> Checked(g)]]
  /\ UNCHANGED <<Files, lock, loader, apply, memory, file, registered, Bounds, shown, torn, edited, cut>>

\* The prompt reaches the owner, or is dropped: then nothing is recorded.
Prompt(g) ==
  /\ check[g].pc = "prompting"
  /\ shown' = shown \cup {check[g].batch}
  /\ check' = [check EXCEPT ![g].pc = "shown"]
  /\ UNCHANGED <<Files, lock, loader, apply, memory, file, registered, checks, Bounds, torn, edited, cut>>

\* Mutant of PromptDropped: a request whose prompt was dropped is recorded.
PromptDroppedKept(g) ==
  /\ check[g].pc = "prompting" /\ failures < MaxFailures
  /\ failures' = failures + 1
  /\ check' = [check EXCEPT ![g].pc = "shown"]
  /\ UNCHANGED <<Files, lock, loader, apply, memory, file, registered, checks, edits, crashes,
                 shown, torn, edited, cut>>

PromptDropped(g) ==
  /\ check[g].pc = "prompting" /\ failures < MaxFailures
  /\ failures' = failures + 1
  /\ check' = [check EXCEPT ![g] = NoCheck]
  /\ UNCHANGED <<Files, lock, loader, apply, memory, file, registered, checks, edits, crashes,
                 shown, torn, edited, cut>>

Record(g) ==
  /\ check[g].pc = "shown"
  /\ memory' = [memory EXCEPT ![g] = check[g].batch]
  /\ file' = check[g].batch
  /\ check' = [check EXCEPT ![g] = NoCheck]
  /\ UNCHANGED <<Files, lock, loader, apply, registered, checks, Bounds, shown, torn, edited, cut>>

\* _load_pending_skill_update: the record of this process, else the file.
Pending(g) == IF memory[g] # NoBatch THEN memory[g] ELSE file

\* The owner refuses, or answers after the record expired.
Refused(g) ==
  /\ Loaded(g) /\ Pending(g) # NoBatch
  /\ memory' = [memory EXCEPT ![g] = NoBatch]
  /\ file' = NoBatch
  /\ UNCHANGED <<Files, lock, loader, check, apply, registered, checks, Bounds, shown, torn, edited, cut>>

\* The owner agrees: the record is cleared before the apply starts.
Affirmed(g) ==
  /\ Loaded(g) /\ Pending(g) # NoBatch /\ apply[g].pc = "idle"
  /\ apply' = [apply EXCEPT ![g] = [NoApply EXCEPT !.pc = "fetch", !.batch = Pending(g),
                                                   !.round = 1]]
  /\ memory' = [memory EXCEPT ![g] = NoBatch]
  /\ file' = NoBatch
  /\ UNCHANGED <<Files, lock, loader, check, registered, checks, Bounds, shown, torn, edited, cut>>

(***************************************************************************)
(* The apply                                                               *)
(***************************************************************************)
Others(g) == UNCHANGED <<loader, check, checks, edits, crashes, shown>>

\* Downloads of what differs now, outside the lock.
Fetch(g) ==
  /\ apply[g].pc = "fetch"
  /\ apply' = [apply EXCEPT ![g].pc = "publish",
        ![g].fetched = @ \cup {s \in apply[g].batch.updates : disk[s] # Official(s)}]
  /\ Others(g) /\ UNCHANGED <<Files, lock, memory, file, registered, failures, torn, edited, cut>>

\* A download or a check of it fails, or the lock is not obtained in time:
\* the request is gone.
ApplyFails(g) ==
  /\ \/ apply[g].pc = "fetch"
     \/ apply[g].pc \in {"publish", "remove"} /\ lock # Free
  /\ failures < MaxFailures
  /\ failures' = failures + 1
  /\ apply' = [apply EXCEPT ![g] = NoApply]
  /\ cut' = [cut EXCEPT ![g] = IF apply[g].pc = "remove" THEN @ \cup apply[g].batch.updates
                               ELSE @]
  /\ Others(g) /\ UNCHANGED <<Files, lock, memory, file, registered, torn, edited>>

\* Mutant of Missing: what a load changed after the download is not noticed.
MissingNone(g) == {s \in apply[g].batch.updates : s = "none"}

\* What diverged since the download and is still not covered.
Missing(g) ==
  {s \in apply[g].batch.updates : disk[s] # Official(s) /\ s \notin apply[g].fetched}

\* Under the lock: nothing is published when something is missing (one more
\* download, then the request is kept for another try), else the files are.
Publish(g) ==
  LET a == apply[g] IN
  /\ a.pc = "publish" /\ lock = Free
  /\ \/ /\ Missing(g) # {} /\ a.round = 1
        /\ apply' = [apply EXCEPT ![g].pc = "fetch", ![g].round = 2]
        /\ UNCHANGED <<lock, memory, file>>
     \/ /\ Missing(g) # {} /\ a.round = 2
        /\ apply' = [apply EXCEPT ![g] = NoApply]
        /\ memory' = [memory EXCEPT ![g] = a.batch]
        /\ file' = a.batch
        /\ UNCHANGED lock
     \/ /\ Missing(g) = {}
        /\ lock' = g
        /\ apply' = [apply EXCEPT ![g].pc = "write", ![g].local = manifest,
              ![g].todo = {s \in a.batch.updates \cap a.fetched :
                              disk[s] # Official(s)}]
        /\ UNCHANGED <<memory, file>>
  /\ Others(g) /\ UNCHANGED <<Files, registered, failures, torn, edited, cut>>

WriteFile(g, s) ==
  /\ apply[g].pc = "write" /\ s \in apply[g].todo
  /\ disk' = [disk EXCEPT ![s] = Official(s)]
  /\ edited' = edited \ {s}
  /\ apply' = [apply EXCEPT ![g].todo = @ \ {s}]
  /\ Others(g) /\ UNCHANGED <<manifest, lock, memory, file, registered, failures, torn, cut>>

\* Mutant of WriteFails: the failure leaves the lock taken.
WriteFailsLocked(g) ==
  /\ apply[g].pc = "write" /\ failures < MaxFailures
  /\ failures' = failures + 1
  /\ apply' = [apply EXCEPT ![g] = NoApply]
  /\ torn' = torn \cup {s \in Skills : manifest[s] # Version(disk[s])}
  /\ Others(g) /\ UNCHANGED <<Files, lock, memory, file, registered, edited, cut>>

\* A write fails: what is on disk stays, the manifest is not written.
WriteFails(g) ==
  /\ apply[g].pc = "write" /\ failures < MaxFailures
  /\ failures' = failures + 1
  /\ apply' = [apply EXCEPT ![g] = NoApply]
  /\ lock' = Free
  /\ torn' = torn \cup {s \in Skills : manifest[s] # Version(disk[s])}
  /\ Others(g) /\ UNCHANGED <<Files, memory, file, registered, edited, cut>>

WriteManifest(g) ==
  LET a == apply[g] IN
  /\ a.pc = "write" /\ a.todo = {}
  /\ manifest' = [s \in Skills |-> IF s \in a.batch.updates THEN Version(Official(s))
                                   ELSE a.local[s]]
  /\ torn' = torn \ a.batch.updates
  /\ lock' = Free
  /\ apply' = [apply EXCEPT ![g].pc = "remove"]
  /\ Others(g) /\ UNCHANGED <<disk, memory, file, registered, failures, edited, cut>>

\* apply_skill_removal: each file on its own, one that cannot be deleted is
\* left with its entry.
Remove(g) ==
  LET gone == apply[g].batch.removals \ Bundled(g) IN
  /\ apply[g].pc = "remove" /\ lock = Free
  /\ \/ /\ gone = {}
        /\ apply' = [apply EXCEPT ![g].pc = "register"]
        /\ UNCHANGED <<disk, lock, failures>>
     \/ \E kept \in SUBSET gone :
          /\ gone # {} /\ (kept # {} => failures < MaxFailures)
          /\ failures' = IF kept # {} THEN failures + 1 ELSE failures
          /\ disk' = [s \in Skills |-> IF s \in gone \ kept THEN 0 ELSE disk[s]]
          /\ lock' = g
          /\ apply' = [apply EXCEPT ![g].pc = "removed", ![g].todo = gone \ kept]
  /\ Others(g) /\ UNCHANGED <<manifest, memory, file, registered, torn, edited, cut>>

RemovedManifest(g) ==
  /\ apply[g].pc = "removed"
  /\ manifest' = [s \in Skills |-> IF s \in apply[g].todo THEN 0 ELSE manifest[s]]
  /\ edited' = edited \ apply[g].todo
  /\ torn' = torn \ apply[g].todo
  /\ lock' = Free
  /\ apply' = [apply EXCEPT ![g].pc = "register"]
  /\ Others(g) /\ UNCHANGED <<disk, memory, file, registered, failures, cut>>

\* hot_register_new_skills: the ids the manifest did not have at the check.
HotRegister(g) ==
  /\ apply[g].pc = "register"
  /\ registered' = [registered EXCEPT ![g] = @ \cup apply[g].batch.new]
  /\ apply' = [apply EXCEPT ![g] = NoApply]
  /\ Others(g) /\ UNCHANGED <<Files, lock, memory, file, failures, torn, edited, cut>>

(***************************************************************************)
(* The world                                                               *)
(***************************************************************************)
\* Somebody breaks a managed file by hand.
Edit(s) ==
  /\ edits < MaxEdits /\ disk[s] \notin {0, 1}
  /\ edits' = edits + 1
  /\ disk' = [disk EXCEPT ![s] = 1]
  /\ edited' = edited \cup {s}
  /\ UNCHANGED <<manifest, lock, loader, Consent, registered, crashes, failures, torn, cut>>

\* A process ends, by itself or between two writes; the lock goes with it.
Crash(p) ==
  /\ loader[p].pc # "off" /\ crashes < MaxCrashes
  /\ crashes' = crashes + 1
  /\ loader' = [loader EXCEPT ![p] = NoLoad]
  /\ registered' = [registered EXCEPT ![p] = {}]
  /\ check' = [g \in Gateways |-> IF g = p THEN NoCheck ELSE check[g]]
  /\ apply' = [g \in Gateways |-> IF g = p THEN NoApply ELSE apply[g]]
  /\ memory' = [g \in Gateways |-> IF g = p THEN NoBatch ELSE memory[g]]
  /\ cut' = [g \in Gateways |-> IF g = p THEN {} ELSE cut[g]]
  /\ lock' = IF lock = p THEN Free ELSE lock
  /\ torn' = IF lock = p THEN torn \cup {s \in Skills : manifest[s] # Version(disk[s])} ELSE torn
  /\ UNCHANGED <<Files, file, checks, shown, edits, failures, edited>>

Next ==
  \/ \E p \in Procs : StartLoad(p) \/ Sweep(p) \/ SweptManifest(p) \/ Seeded(p) \/ Extras(p) \/ Crash(p)
  \/ \E p \in Procs, s \in Skills : Seed(p, s) \/ SeedTimesOut(p, s)
  \/ \E g \in Gateways : \/ Check(g) \/ Prompt(g) \/ PromptDropped(g) \/ Record(g)
                         \/ Refused(g) \/ Affirmed(g) \/ Fetch(g) \/ ApplyFails(g) \/ Publish(g)
                         \/ WriteManifest(g) \/ WriteFails(g) \/ Remove(g) \/ RemovedManifest(g) \/ HotRegister(g)
  \/ \E g \in Gateways, s \in Skills : WriteFile(g, s)
  \/ \E s \in Skills : Edit(s)

\* What an instance may limit further: the mishaps of a behaviour.
Mishaps == crashes + failures

Spec == Init /\ [][Next]_vars

(***************************************************************************)
(* Properties                                                              *)
(***************************************************************************)
Batches == [updates : SUBSET Skills, removals : SUBSET Skills, new : SUBSET Skills]

\* The types of the variables; the lock is held only between two writes.
TypeOK ==
  /\ disk \in [Skills -> Nat] /\ manifest \in [Skills -> Nat]
  /\ lock \in Procs \cup {Free}
  /\ \A p \in Procs : lock = p =>
       \/ loader[p].pc \in {"swept", "seeded"}
       \/ p \in Gateways /\ apply[p].pc \in {"write", "removed"}
  /\ loader \in [Procs -> [pc : {"off", "sweep", "swept", "seed", "seeded", "loaded"},
                           todo : SUBSET Skills, skill : Skills \cup {"none"}]]
  /\ check \in [Gateways -> [pc : {"idle", "prompting", "shown"}, batch : Batches]]
  /\ \A g \in Gateways : apply[g].pc \in {"idle", "fetch", "publish", "write", "remove",
                                          "removed", "register"}
  /\ memory \in [Gateways -> Batches] /\ file \in Batches
  /\ registered \in [Procs -> SUBSET Skills]
  /\ shown \subseteq Batches /\ torn \cup edited \subseteq Skills
  /\ cut \in [Gateways -> SUBSET Skills]

\* Whoever wrote last, the manifest gives the version of the file that is
\* there whenever the lock is free, but for a crash or a failure
\* between the two writes and a file edited by hand (skill_update.py,
\* apply_skill_update and seed_managed_skill).
ManifestTrue ==
  lock = Free => \A s \in Skills \ (torn \cup edited) : manifest[s] = Version(disk[s])

\* What waits for the owner's answer or is being applied was shown to them.
OnlyWhatWasShown ==
  \A g \in Gateways : \A b \in {memory[g], file, apply[g].batch} :
    b = NoBatch \/ b \in shown

\* A batch is published whole: when its manifest is written every file of it
\* has the official content, whatever loads and edits came between.
BatchWhole ==
  \A g \in Gateways :
    (apply[g].pc = "write" /\ apply[g].todo = {})
      => \A s \in apply[g].batch.updates \ edited : disk[s] = Official(s)

\* What only another process bundles.
Foreign(g) == UNION {Bundled(p) : p \in Procs} \ Bundled(g)

\* A skill that was delivered is known to the gateway's host: from the apply
\* on, and again after every restart.
DeliveredIsKnown ==
  \A g \in Gateways :
    (Loaded(g) /\ apply[g].pc = "idle" /\ lock = Free)
      => \A s \in Skills \ (cut[g] \cup Foreign(g)) : (manifest[s] # 0 /\ disk[s] # 0) => s \in registered[g]

=============================================================================
